\* Sixteen leaves filled in two orders, then any five of them deleted.
CONSTANTS
  Addr = {1,2,3,4,5,6,7,8,9,10,11,12,13,14,15,16,17,18,19,20,21,22,23,24,25,26,27,28,29,30,31,32}
  Key = {1,2,3,4,5,6,7,8,9,10,11,12,13,14,15,16}
  Val = {0}
  HeadVals = {0}
  Junk = Junk
  Compare <- compare_local
  Duplicates = TRUE
  MaxLeaves = 16
  Orders <- InsertionOrders
  MinLeaves = 11
SPECIFICATION ShrinkSpec
VIEW Shape
CHECK_DEADLOCK FALSE
INVARIANT TreeSound
