----------------------------- MODULE MCCrawlJob -----------------------------
EXTENDS CrawlJob, TLC
Perms == Permutations(Items)
=============================================================================
