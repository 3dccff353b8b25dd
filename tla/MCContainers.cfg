SPECIFICATION ContainersSpec
CONSTANTS
  key1 = key1
  key2 = key2
  key3 = key3
  key4 = key4
  val1 = val1
  val2 = val2
  list1 = list1
  list2 = list2
  e1 = e1
  e2 = e2
  e3 = e3
  None = None
  Gap = Gap
  Keys <- MCKeys
  Values <- MCValues
  NumBuckets <- MCNumBuckets
  Hash <- MCHash
  Lists <- MCLists
  Elements <- MCElements
  BlockSize <- MCBlockSize
  MaxBlocks <- MCMaxBlocks
SYMMETRY Symmetry
INVARIANTS
  TypeOK
  VisitsAll
  NoElementLost
PROPERTIES
  VisitsOnce
  ImplementsDictionary
  ImplementsList
