\* Equal keys, key 0, and a head whose val holds anything.
CONSTANTS
  Addr = {1,2,3,4,5,6,7,8}
  Key = {0,1,2}
  Val = {5,6}
  HeadVals <- Garbage
  Junk = Junk
  Compare <- compare_local
  Duplicates = TRUE
  MaxLeaves = 4
SPECIFICATION Spec
VIEW Shape
INVARIANT FindValueSound
PROPERTIES FailedInsertHarmless ImplementsSortedSequence
