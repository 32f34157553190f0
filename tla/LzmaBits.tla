------------------------------ MODULE LzmaBits ------------------------------
(***************************************************************************)
(* What the decoder of src/LzmaDecode.c makes of the bits that the range   *)
(* coder hands to it: symbols of bit trees, lengths and distances, and the *)
(* places in the array of probabilities that it uses for each bit.  What   *)
(* is decoded is a record of its value and of these places.                *)
(***************************************************************************)
EXTENDS Integers, Sequences, FiniteSets

CONSTANTS
  kNumPosSlotBits,   \* 6
  UInt32,            \* 2^32
  Bits3, Bits8       \* bounds: the strings of three and of eight bits that occur

(* With fewer slots than in the code there are fewer distances too: 2^8    *)
(* when kNumPosSlotBits is 4, the least with which some are far.           *)
ASSUME BitsAssumption ==
  /\ kNumPosSlotBits \in 4..6
  /\ UInt32 = 2^(2^(kNumPosSlotBits - 1))
  /\ Bits3 \subseteq [1..3 -> {0, 1}]
  /\ Bits8 \subseteq [1..8 -> {0, 1}]

BitStrings(n) == [1..n -> {0, 1}]

-----------------------------------------------------------------------------
(* Where the probabilities of each kind of bit are. *)
kNumStates == 12
kNumPosStatesMax == 16
kStartPosModelIndex == 4
kEndPosModelIndex == 14
kNumFullDistances == 128
kNumLenToPosStates == 4
kNumAlignBits == 4

LenChoice == 0
LenChoice2 == LenChoice + 1
LenLow == LenChoice2 + 1
LenMid == LenLow + kNumPosStatesMax * 8
LenHigh == LenMid + kNumPosStatesMax * 8
kNumLenProbs == LenHigh + 256

IsMatch == 0
IsRep == IsMatch + kNumStates * 16
IsRepG0 == IsRep + kNumStates
IsRepG1 == IsRepG0 + kNumStates
IsRepG2 == IsRepG1 + kNumStates
IsRep0Long == IsRepG2 + kNumStates
PosSlot == IsRep0Long + kNumStates * 16
SpecPos == PosSlot + kNumLenToPosStates * 2^kNumPosSlotBits
Align == SpecPos + kNumFullDistances - kEndPosModelIndex
LenCoder == Align + 2^kNumAlignBits
RepLenCoder == LenCoder + kNumLenProbs
Literal == RepLenCoder + kNumLenProbs

LZMA_LIT_SIZE == 768

(* 1846, for which kNumPosSlotBits has to be 6.  The #if that stops the    *)
(* compiler when it is not Literal is the assumption.                      *)
LZMA_BASE_SIZE == 1846 - 4 * (2^6 - 2^kNumPosSlotBits)

ASSUME BaseSizeAssumption == Literal = LZMA_BASE_SIZE

(* How many there are, for lc + lp = n: numProbs. *)
NumProbs(n) == Literal + LZMA_LIT_SIZE * 2^n

-----------------------------------------------------------------------------
(* mi (or symbol) after the first i of the bits. *)
Mi(bits) ==
  LET mi[i \in 0..Len(bits)] == IF i = 0 THEN 1 ELSE 2 * mi[i - 1] + bits[i]
  IN mi

(* Where the bits after the first i - 1 are looked up. *)
Path(bits) == {Mi(bits)[i] : i \in 0..Len(bits) - 1}

BitTreeDecode(bits) == Mi(bits)[Len(bits)] - 2^Len(bits)

(* symbol after the first i of the bits, the lowest of which comes first. *)
Symbol(bits) ==
  LET symbol[i \in 0..Len(bits)] ==
        IF i = 0 THEN 0 ELSE symbol[i - 1] + bits[i] * 2^(i - 1)
  IN symbol

ReverseBitTreeDecode(bits) == Symbol(bits)[Len(bits)]

DecodeDirectBits(bits) == BitTreeDecode(bits)

At(place, places) == {place + p : p \in places}

-----------------------------------------------------------------------------
(* LzmaLiteralDecode. *)
LiteralDecode(bits) == [symbol |-> Mi(bits)[8] % 256, used |-> Path(bits)]

(* LzmaLiteralDecodeMatch looks the bits up in one of two other tables as  *)
(* long as they agree with those of matchByte.                             *)
MatchBit(matchByte, i) == (matchByte \div 2^(8 - i)) % 2

Agrees(bits, matchByte, i) == \A j \in 1..i : bits[j] = MatchBit(matchByte, j)

LiteralDecodeMatch(bits, matchByte) ==
  [symbol |-> Mi(bits)[8] % 256,
   used   |-> {IF Agrees(bits, matchByte, i - 1)
                 THEN 256 * (1 + MatchBit(matchByte, i)) + Mi(bits)[i - 1]
                 ELSE Mi(bits)[i - 1] : i \in 1..8}]

(* LzmaLenDecode, with its probabilities from p on. *)
LenDecode(p, posState) ==
  {[symbol |-> BitTreeDecode(bits),
    used   |-> {p + LenChoice} \cup At(p + LenLow + 8 * posState, Path(bits))] : bits \in Bits3}
  \cup
  {[symbol |-> 8 + BitTreeDecode(bits),
    used   |-> {p + LenChoice, p + LenChoice2}
                 \cup At(p + LenMid + 8 * posState, Path(bits))] : bits \in Bits3}
  \cup
  {[symbol |-> 16 + BitTreeDecode(bits),
    used   |-> {p + LenChoice, p + LenChoice2} \cup At(p + LenHigh, Path(bits))] : bits \in Bits8}

-----------------------------------------------------------------------------
(* The distance of a match: a slot and, from the fifth slot on, more bits, *)
(* the last four of them in a tree of their own from the fifteenth on.     *)
NumDirectBits(slot) ==
  IF slot < kStartPosModelIndex THEN 0 ELSE slot \div 2 - 1

(* Slip: the lowest bit of the slot is forgotten. *)
SlotBaseEven(slot) ==
  IF slot < kStartPosModelIndex THEN slot ELSE 2 * 2^NumDirectBits(slot)

SlotBase(slot) ==
  IF slot < kStartPosModelIndex THEN slot ELSE (2 + (slot % 2)) * 2^NumDirectBits(slot)

(* The bits of a far distance before and in the tree at Align. *)
DirectPart(bits) == SubSeq(bits, 1, Len(bits) - kNumAlignBits)
AlignPart(bits) == SubSeq(bits, Len(bits) - kNumAlignBits + 1, Len(bits))

MoreBits(slot, bits) ==
  CASE slot < kStartPosModelIndex -> 0
    [] slot \in kStartPosModelIndex..kEndPosModelIndex - 1 -> ReverseBitTreeDecode(bits)
    [] OTHER -> DecodeDirectBits(DirectPart(bits)) * 2^kNumAlignBits
                  + ReverseBitTreeDecode(AlignPart(bits))

(* Slip: the tables of neighbouring slots overlap. *)
DistancePathShared(slot, bits) ==
  CASE slot < kStartPosModelIndex -> {}
    [] slot \in kStartPosModelIndex..kEndPosModelIndex - 1 ->
         At(SpecPos + SlotBase(slot) - slot - 2, Path(bits))
    [] OTHER -> At(Align, Path(AlignPart(bits)))

DistancePath(slot, bits) ==
  CASE slot < kStartPosModelIndex -> {}
    [] slot \in kStartPosModelIndex..kEndPosModelIndex - 1 ->
         At(SpecPos + SlotBase(slot) - slot - 1, Path(bits))
    [] OTHER -> At(Align, Path(AlignPart(bits)))

Distance(slot, bits) == (SlotBase(slot) + MoreBits(slot, bits) + 1) % UInt32

(* The slots, and everything that may follow them. *)
Slots == 0..2^kNumPosSlotBits - 1
SlotBits(slot) == CHOOSE bits \in BitStrings(kNumPosSlotBits) : BitTreeDecode(bits) = slot

DistanceCodes == UNION {{slot} \X BitStrings(NumDirectBits(slot)) : slot \in Slots}

DistanceSymbols == {Distance(c[1], c[2]) : c \in DistanceCodes}

LenClasses == 0..kNumLenToPosStates - 1

(* The places for the slot itself, and all those for what may follow it. *)
SlotPath(lenClass, slot) ==
  At(PosSlot + lenClass * 2^kNumPosSlotBits, Path(SlotBits(slot)))

DistancePlaces ==
  [slot \in Slots |->
     UNION {DistancePath(slot, bits) : bits \in BitStrings(NumDirectBits(slot))}]
=============================================================================
