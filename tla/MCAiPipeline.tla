---------------------------- MODULE MCAiPipeline ----------------------------
EXTENDS AiPipeline, TLC
Perms == Permutations(Runs)
=============================================================================
