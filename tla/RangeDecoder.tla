---------------------------- MODULE RangeDecoder ----------------------------
(***************************************************************************)
(* The range decoder of src/LzmaDecode.c: the arithmetic behind each bit   *)
(* that LzmaDecode asks for.  The bytes of the input may be anything.      *)
(***************************************************************************)
EXTENDS Integers

CONSTANTS
  Ctx,              \* the places in the array of probabilities
  Base,             \* the values of a byte: 256
  kTopValue,        \* 2^24
  kBitModelTotal,   \* 2^11
  kMoveBy           \* 2^kNumMoveBits: 32

ASSUME ConstantsAssumption ==
  /\ Base \in Nat /\ kTopValue \in Nat /\ kBitModelTotal \in Nat /\ kMoveBy \in Nat
  /\ Base >= 4 /\ kMoveBy >= 2
  /\ kBitModelTotal >= 2 * kMoveBy
  /\ kBitModelTotal <= (kMoveBy - 1) * Base
  /\ kTopValue >= kBitModelTotal /\ kTopValue % kBitModelTotal = 0

(* The width of Range and Code: 2^32. *)
RangeSize == kTopValue * Base

VARIABLES
  range, code,   \* Range and Code
  extraBytes,    \* ExtraBytes: the decoder went past the end of the input
  prob           \* prob[ctx]: how likely a 0 is, out of kBitModelTotal

rangeVars == <<range, code, extraBytes, prob>>

-----------------------------------------------------------------------------
(* RangeDecoderInit: of the five bytes it reads the first one is shifted   *)
(* out of Code again, the others may be anything.                          *)
RangeInit ==
  /\ range = RangeSize - 1
  /\ code \in 0..RangeSize - 1
  /\ extraBytes \in BOOLEAN
  /\ prob = [ctx \in Ctx |-> kBitModelTotal \div 2]

(* Past the end of the input all bytes are the highest one. *)
RangeDecoderReadByte(byte) ==
  \/ ~extraBytes /\ UNCHANGED extraBytes
  \/ byte = Base - 1 /\ extraBytes' = TRUE

RC_NORMALIZE(r, c) ==
  \/ r >= kTopValue /\ range' = r /\ code' = c /\ UNCHANGED extraBytes
  \/ /\ r < kTopValue
     /\ \E byte \in 0..Base - 1 :
          /\ RangeDecoderReadByte(byte)
          /\ range' = (r * Base) % RangeSize
          /\ code' = (c * Base + byte) % RangeSize

-----------------------------------------------------------------------------
(* A definition whose comment starts with "Slip" is the one after it with  *)
(* a mistake in it, which the properties must notice.                      *)

bound(ctx) == (range \div kBitModelTotal) * prob[ctx]

(* Slip: rounded up. *)
LikelierUp(p) == p + (kBitModelTotal + kMoveBy - 1 - p) \div kMoveBy

Likelier(p) == p + (kBitModelTotal - p) \div kMoveBy

(* Slip: rounded up. *)
UnlikelierUp(p) == p - (p + kMoveBy - 1) \div kMoveBy

Unlikelier(p) == p - p \div kMoveBy

(* Slip: Code at the bound counts as a 0. *)
DecodeZeroAtBound(ctx) ==
  /\ code <= bound(ctx)
  /\ prob' = [prob EXCEPT ![ctx] = Likelier(@)]
  /\ RC_NORMALIZE(bound(ctx), code)

(* RangeDecoderBitDecode, returning 0 ... *)
DecodeZero(ctx) ==
  /\ code < bound(ctx)
  /\ prob' = [prob EXCEPT ![ctx] = Likelier(@)]
  /\ RC_NORMALIZE(bound(ctx), code)

(* ... and returning 1. *)
DecodeOne(ctx) ==
  /\ code >= bound(ctx)
  /\ prob' = [prob EXCEPT ![ctx] = Unlikelier(@)]
  /\ RC_NORMALIZE(range - bound(ctx), code - bound(ctx))

(* One turn of RangeDecoderDecodeDirectBits: halves of equal weight. *)
DirectBit ==
  /\ \/ code < range \div 2 /\ RC_NORMALIZE(range \div 2, code)
     \/ code >= range \div 2 /\ RC_NORMALIZE(range \div 2, code - range \div 2)
  /\ UNCHANGED prob

RangeNext == DirectBit \/ \E ctx \in Ctx : DecodeZero(ctx) \/ DecodeOne(ctx)

RangeSpec == RangeInit /\ [][RangeNext]_rangeVars

-----------------------------------------------------------------------------
(* Whatever the input, Range stays at kTopValue or above and in its width: *)
(* a single if suffices to normalise where one might expect a loop, and    *)
(* the bound is never 0.                                                   *)
RangeWide == range \in kTopValue..RangeSize - 1

(* A probability never gets to 0 or to kBitModelTotal, where one of the    *)
(* two bits could not be decoded any more.                                 *)
ProbsInside ==
  prob \in [Ctx -> (kMoveBy - 1)..(kBitModelTotal - kMoveBy + 1)]

(* Both values of the next bit are possible. *)
BothBits == \A ctx \in Ctx : 0 < bound(ctx) /\ bound(ctx) < range

IInv ==
  /\ RangeWide
  /\ ProbsInside
  /\ code \in 0..RangeSize - 1
  /\ extraBytes \in BOOLEAN

(* Once Code is below Range it stays below, and with it shifting never     *)
(* drops a bit of Code.  The one exception is a direct bit that halves an  *)
(* odd Range with Code at its very end, where no encoder puts it.          *)
CodeStaysBelow ==
  [][code < range =>
       code' < range' \/ (DirectBit /\ range % 2 = 1 /\ code = range - 1)]_rangeVars
=============================================================================
