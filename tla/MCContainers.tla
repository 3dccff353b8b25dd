---------------------------- MODULE MCContainers ----------------------------
EXTENDS Containers, TLC

CONSTANTS key1, key2, key3, key4, val1, val2, list1, list2, e1, e2, e3

\* Four buckets: an empty one, one with three keys, another empty one, and one with one key.
MCKeys == {key1, key2, key3, key4}
MCValues == {val1, val2}
MCNumBuckets == 4
MCHash == [k \in MCKeys |-> IF k = key4 THEN 3 ELSE 1]

\* Two lists, with blocks of two elements.
MCLists == {list1, list2}
MCElements == {e1, e2, e3}
MCBlockSize == 2
MCMaxBlocks == 3

\* The keys of one bucket are alike, and so are the elements.
Symmetry == Permutations({key1, key2, key3}) \cup Permutations(MCElements)
=============================================================================
