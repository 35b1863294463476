---------------------------- MODULE MCGrowthLoop ----------------------------
EXTENDS GrowthLoop

CONSTANTS c0, c1, c2   \* model values: categories

\* A tool without crawled categories, and one with two.
MCCrawlLists == {<< >>, <<c1, c2>>}
MCEditLists == {<<c2>>, <<c2, c2>>}
=============================================================================
