\* Sixteen slots of distances, so that a distance has eight bits.
CONSTANTS
  kNumPosSlotBits = 4
  UInt32 = 256
  Bits3 <- Triples
  Bits8 <- Octets
  Prop0s = {93, 224, 225}
  OutSizes = {0, 4}
  Junk = Junk
SPECIFICATION FairSpec
CHECK_DEADLOCK FALSE
INVARIANTS TypeOK WindowSafe BranchesAgree TablesApart DistancesOnce SizeReported
PROPERTIES ImplementsLz77 Returns
