----------------------------- MODULE MCAiReview -----------------------------
EXTENDS AiReview, TLC
EditorPerms == Permutations(Editors)
=============================================================================
