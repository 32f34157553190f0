\* Unique keys in the client's own order, memory for one leaf too few.
CONSTANTS
  Addr = {1,2,3,4,5,6,7,8,9,10,11,12,13,14,15}
  Key = {1,2,3,4,5,6,7,8}
  Val = {0}
  HeadVals = {0}
  Junk = Junk
  Compare <- Descending
  Duplicates = FALSE
  MaxLeaves = 8
SPECIFICATION Spec
VIEW Shape
INVARIANTS TreeSound FindCorrect
