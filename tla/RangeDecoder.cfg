\* Bytes of three bits, so that every state of the arithmetic is reached.
CONSTANTS
  Ctx = {c1}
  Base = 8
  kTopValue = 16
  kBitModelTotal = 16
  kMoveBy = 4
SPECIFICATION RangeSpec
INVARIANTS IInv BothBits
PROPERTY CodeStaysBelow
