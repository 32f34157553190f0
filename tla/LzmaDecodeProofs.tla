-------------------------- MODULE LzmaDecodeProofs --------------------------
(***************************************************************************)
(* Theorems about LzmaBits and LzmaDecode, for headers, sizes and bits of  *)
(* any kind: first what the operators of LzmaBits compute, by induction    *)
(* over the bits and over the slots, then what LzmaDecode keeps, and at    *)
(* last the arithmetic of RangeDecoder.                                    *)
(***************************************************************************)
EXTENDS LzmaDecode, RangeDecoder, Induction, FiniteSetTheorems

(* Powers of two, as far as strings of bits are long. *)
Doubles(n) == 2^n \in Nat \ {0} /\ 2^(n + 1) = 2 * 2^n

LEMMA Powers == \A n \in 0..31 : Doubles(n)
<1> SUFFICES ASSUME NEW n \in 0..31 PROVE Doubles(n)
  OBVIOUS
<1>1. Doubles(0) /\ Doubles(1) /\ Doubles(2) /\ Doubles(3) /\ Doubles(4) /\ Doubles(5)
  BY DEF Doubles
<1>2. Doubles(6) /\ Doubles(7) /\ Doubles(8) /\ Doubles(9) /\ Doubles(10) /\ Doubles(11)
  BY DEF Doubles
<1>3. Doubles(12) /\ Doubles(13) /\ Doubles(14) /\ Doubles(15) /\ Doubles(16) /\ Doubles(17)
  BY DEF Doubles
<1>4. Doubles(18) /\ Doubles(19) /\ Doubles(20) /\ Doubles(21) /\ Doubles(22) /\ Doubles(23)
  BY DEF Doubles
<1>5. Doubles(24) /\ Doubles(25) /\ Doubles(26) /\ Doubles(27) /\ Doubles(28) /\ Doubles(29)
  BY DEF Doubles
<1>6. Doubles(30) /\ Doubles(31)
  BY DEF Doubles
<1>7. n \in 0..5 \/ n \in 6..11 \/ n \in 12..17 \/ n \in 18..23 \/ n \in 24..29 \/ n \in 30..31
  OBVIOUS
<1> QED
  BY <1>1, <1>2, <1>3, <1>4, <1>5, <1>6, <1>7

(* A string of bits is a sequence. *)
LEMMA BitSequence ==
  ASSUME NEW n \in Nat, NEW bits \in BitStrings(n)
  PROVE  bits \in Seq({0, 1}) /\ Len(bits) = n /\ \A i \in 1..n : bits[i] \in {0, 1}
BY DEF BitStrings

(* mi doubles with every bit, and takes the bit in. *)
LEMMA MiDoubles ==
  ASSUME NEW n \in Nat, NEW bits \in BitStrings(n)
  PROVE  /\ Mi(bits)[0] = 1
         /\ \A i \in 1..n : Mi(bits)[i] = 2 * Mi(bits)[i - 1] + bits[i]
<1>1. Len(bits) = n /\ \A i \in 1..n : bits[i] \in {0, 1}
  BY BitSequence
<1> DEFINE H == [x \in (1..n) \X Nat |-> 2 * x[2] + bits[x[1]]]
<1>2. H \in [(1..n) \X Nat -> Nat]
  BY <1>1
<1>3. \A i \in 1..n, m \in Nat : H[<<i, m>>] = 2 * m + bits[i]
  OBVIOUS
<1>4. PICK f \in [0..n -> Nat] : Iterates(f, n, 1, H)
  <2> HIDE DEF H
  <2>1. 1 \in Nat
    OBVIOUS
  <2> QED BY <1>2, <2>1, FunctionUpTo
<1>5. f = [i \in 0..n |-> IF i = 0 THEN 1 ELSE 2 * f[i - 1] + bits[i]]
  <2> HIDE DEF H
  <2>1. ASSUME NEW i \in 1..n PROVE f[i] = 2 * f[i - 1] + bits[i]
    <3>1. i - 1 \in 0..n
      OBVIOUS
    <3>2. f[i - 1] \in Nat
      BY <3>1
    <3>3. f[i] = H[<<i, f[i - 1]>>]
      BY <1>4 DEF Iterates
    <3> HIDE DEF H
    <3> QED BY <1>3, <3>2, <3>3
  <2> QED BY <1>4, <2>1 DEF Iterates
<1>6. Mi(bits) = [i \in 0..n |-> IF i = 0 THEN 1 ELSE 2 * Mi(bits)[i - 1] + bits[i]]
  BY <1>1, <1>5 DEF Mi
<1>7. 0 \in 0..n /\ \A i \in 1..n : i \in 0..n /\ i # 0
  OBVIOUS
<1> QED
  BY <1>6, <1>7

(* After i bits mi has i + 1 binary digits. *)
LEMMA MiDigits ==
  ASSUME NEW n \in 0..31, NEW bits \in BitStrings(n)
  PROVE  \A i \in 0..n : Mi(bits)[i] \in 2^i..2^(i + 1) - 1
<1> DEFINE T == {i \in 0..n : Mi(bits)[i] \in 2^i..2^(i + 1) - 1}
<1>1. 0 \in T
  BY MiDoubles
<1>2. ASSUME NEW i \in 0..n - 1, i \in T PROVE i + 1 \in T
  <2>1. Mi(bits)[i + 1] = 2 * Mi(bits)[i] + bits[i + 1] /\ bits[i + 1] \in {0, 1}
    BY MiDoubles, BitSequence
  <2>2. Doubles(i) /\ Doubles(i + 1)
    BY Powers
  <2>3. Mi(bits)[i] \in 2^i..2^(i + 1) - 1
    BY <1>2
  <2>4. Mi(bits)[i + 1] \in 2^(i + 1)..2^(i + 1 + 1) - 1
    BY <2>1, <2>2, <2>3 DEF Doubles
  <2> QED BY <2>4
<1> HIDE DEF T
<1>3. 0..n \subseteq T
  BY <1>1, <1>2, UpTo
<1> QED
  BY <1>3 DEF T

LEMMA BitTreeRange ==
  ASSUME NEW n \in 0..31, NEW bits \in BitStrings(n)
  PROVE  BitTreeDecode(bits) \in 0..2^n - 1
<1>1. Len(bits) = n /\ n \in 0..n
  BY BitSequence
<1>2. Mi(bits)[n] \in 2^n..2^(n + 1) - 1
  BY <1>1, MiDigits
<1>3. Doubles(n)
  BY Powers
<1> QED
  BY <1>1, <1>2, <1>3 DEF BitTreeDecode, Doubles

(* The places that a bit tree of n bits uses. *)
LEMMA PathInside ==
  ASSUME NEW n \in 0..31, NEW bits \in BitStrings(n)
  PROVE  Path(bits) \subseteq 1..2^n - 1
<1>1. Len(bits) = n
  BY BitSequence
<1> SUFFICES ASSUME NEW i \in 0..n - 1 PROVE Mi(bits)[i] \in 1..2^n - 1
  BY <1>1 DEF Path
<1>2. Mi(bits)[i] \in 2^i..2^(i + 1) - 1 /\ Doubles(i)
  <2>1. i \in 0..n /\ i \in 0..31
    OBVIOUS
  <2> QED BY <2>1, MiDigits, Powers
<1> DEFINE T == {j \in 0..n : j > i => 2^(i + 1) <= 2^j}
<1>3. 0 \in T
  OBVIOUS
<1>4. ASSUME NEW j \in 0..n - 1, j \in T PROVE j + 1 \in T
  <2>1. Doubles(j) /\ (j > i => 2^(i + 1) <= 2^j)
    BY <1>4, Powers
  <2>2. CASE j = i
    BY <2>1, <2>2 DEF Doubles
  <2>3. CASE j # i
    BY <2>1, <2>3, <1>2 DEF Doubles
  <2> QED BY <2>2, <2>3
<1> HIDE DEF T
<1>5. n \in T
  BY <1>3, <1>4, UpTo
<1>6. 2^(i + 1) <= 2^n
  BY <1>5 DEF T
<1>7. 2^n \in Nat
  BY Powers DEF Doubles
<1> QED
  BY <1>2, <1>6, <1>7 DEF Doubles

(* symbol takes each bit in at its place. *)
LEMMA SymbolGrows ==
  ASSUME NEW n \in 0..31, NEW bits \in BitStrings(n)
  PROVE  /\ Symbol(bits)[0] = 0
         /\ \A i \in 1..n : Symbol(bits)[i] = Symbol(bits)[i - 1] + bits[i] * 2^(i - 1)
<1>1. Len(bits) = n /\ \A i \in 1..n : bits[i] \in {0, 1}
  BY BitSequence
<1> DEFINE H == [x \in (1..n) \X Nat |-> x[2] + bits[x[1]] * 2^(x[1] - 1)]
<1>2. ASSUME NEW i \in 1..n, NEW m \in Nat PROVE m + bits[i] * 2^(i - 1) \in Nat
  <2>1. i - 1 \in 0..31
    OBVIOUS
  <2>2. 2^(i - 1) \in Nat
    BY <2>1, Powers DEF Doubles
  <2>3. bits[i] \in {0, 1}
    BY <1>1
  <2> QED BY <2>2, <2>3
<1>3. H \in [(1..n) \X Nat -> Nat]
  BY <1>2
<1>4. \A i \in 1..n, m \in Nat : H[<<i, m>>] = m + bits[i] * 2^(i - 1)
  OBVIOUS
<1>5. PICK f \in [0..n -> Nat] : Iterates(f, n, 0, H)
  <2> HIDE DEF H
  <2>1. 0 \in Nat /\ n \in Nat
    OBVIOUS
  <2> QED BY <1>3, <2>1, FunctionUpTo
<1>6. f = [i \in 0..n |-> IF i = 0 THEN 0 ELSE f[i - 1] + bits[i] * 2^(i - 1)]
  <2> HIDE DEF H
  <2>1. ASSUME NEW i \in 1..n PROVE f[i] = f[i - 1] + bits[i] * 2^(i - 1)
    <3>1. i - 1 \in 0..n
      OBVIOUS
    <3>2. f[i - 1] \in Nat
      BY <3>1
    <3>3. f[i] = H[<<i, f[i - 1]>>]
      BY <1>5 DEF Iterates
    <3> HIDE DEF H
    <3> QED BY <1>4, <3>2, <3>3
  <2> QED BY <1>5, <2>1 DEF Iterates
<1>7. Symbol(bits) = [i \in 0..n |-> IF i = 0 THEN 0
                                      ELSE Symbol(bits)[i - 1] + bits[i] * 2^(i - 1)]
  BY <1>1, <1>6 DEF Symbol
<1>8. 0 \in 0..n /\ \A i \in 1..n : i \in 0..n /\ i # 0
  OBVIOUS
<1> QED
  BY <1>7, <1>8

LEMMA SymbolDigits ==
  ASSUME NEW n \in 0..31, NEW bits \in BitStrings(n)
  PROVE  \A i \in 0..n : Symbol(bits)[i] \in 0..2^i - 1
<1> DEFINE T == {i \in 0..n : Symbol(bits)[i] \in 0..2^i - 1}
<1>1. 0 \in T
  BY SymbolGrows
<1>2. ASSUME NEW i \in 0..n - 1, i \in T PROVE i + 1 \in T
  <2>1. i + 1 \in 1..n /\ (i + 1) - 1 = i /\ i \in 0..31 /\ n \in Nat
    OBVIOUS
  <2>2. Symbol(bits)[i + 1] = Symbol(bits)[i] + bits[i + 1] * 2^i /\ bits[i + 1] \in {0, 1}
    BY <2>1, SymbolGrows, BitSequence
  <2>3. Doubles(i)
    BY <2>1, Powers
  <2>4. Symbol(bits)[i] \in 0..2^i - 1
    BY <1>2
  <2>5. bits[i + 1] * 2^i \in {0, 2^i}
    BY <2>2, <2>3 DEF Doubles
  <2>6. Symbol(bits)[i + 1] \in 0..2^(i + 1) - 1
    BY <2>2, <2>3, <2>4, <2>5 DEF Doubles
  <2> QED BY <2>6
<1> HIDE DEF T
<1>3. 0..n \subseteq T
  <2>1. n \in Nat
    OBVIOUS
  <2> QED BY <1>1, <1>2, <2>1, UpTo
<1> QED
  BY <1>3 DEF T

LEMMA ReverseRange ==
  ASSUME NEW n \in 0..31, NEW bits \in BitStrings(n)
  PROVE  ReverseBitTreeDecode(bits) \in 0..2^n - 1
<1>1. Len(bits) = n /\ n \in 0..n
  BY BitSequence
<1> QED
  BY <1>1, SymbolDigits DEF ReverseBitTreeDecode

(* The constants of the code, and of its smaller versions. *)
LEMMA WidthOK ==
  /\ kNumPosSlotBits \in 4..6 /\ 2^kNumPosSlotBits \in {16, 32, 64}
  /\ UInt32 \in {256, 65536, 4294967296}
<1>1. kNumPosSlotBits = 4 \/ kNumPosSlotBits = 5 \/ kNumPosSlotBits = 6
  BY BitsAssumption
<1>2. 2^4 = 16 /\ 2^5 = 32 /\ 2^6 = 64 /\ 2^(4 - 1) = 8 /\ 2^(5 - 1) = 16 /\ 2^(6 - 1) = 32
  OBVIOUS
<1>3. 2^8 = 256 /\ 2^16 = 65536 /\ 2^32 = 4294967296
  OBVIOUS
<1>4. UInt32 = 2^(2^(kNumPosSlotBits - 1))
  BY BitsAssumption
<1>5. CASE kNumPosSlotBits = 4
  BY <1>2, <1>3, <1>4, <1>5
<1>6. CASE kNumPosSlotBits = 5
  BY <1>2, <1>3, <1>4, <1>6
<1>7. CASE kNumPosSlotBits = 6
  BY <1>2, <1>3, <1>4, <1>7
<1> QED
  BY <1>1, <1>5, <1>6, <1>7

(* No slot is followed by more than thirty bits. *)
LEMMA SlotsOK ==
  ASSUME NEW slot \in Slots
  PROVE  /\ slot \in 0..63
         /\ NumDirectBits(slot) \in 0..30
         /\ slot >= kEndPosModelIndex => NumDirectBits(slot) >= 6
         /\ slot \in kStartPosModelIndex..kEndPosModelIndex - 1 => NumDirectBits(slot) \in 1..5
         /\ 2^NumDirectBits(slot) \in Nat \ {0}
         /\ SlotBase(slot) \in Nat
<1>1. slot \in 0..63
  BY WidthOK DEF Slots
<1>2. /\ NumDirectBits(slot) \in 0..30
      /\ slot >= kEndPosModelIndex => NumDirectBits(slot) >= 6
      /\ slot \in kStartPosModelIndex..kEndPosModelIndex - 1 => NumDirectBits(slot) \in 1..5
  BY <1>1 DEF NumDirectBits, kStartPosModelIndex, kEndPosModelIndex
<1>3. 2^NumDirectBits(slot) \in Nat \ {0}
  <2>1. NumDirectBits(slot) \in 0..31
    BY <1>2
  <2> QED BY <2>1, Powers DEF Doubles
<1>4. slot % 2 \in Nat
  BY <1>1
<1>5. SlotBase(slot) \in Nat
  BY <1>1, <1>3, <1>4 DEF SlotBase
<1> QED
  BY <1>1, <1>2, <1>3, <1>5

LEMMA AlignSplit ==
  ASSUME NEW n \in 4..30, NEW bits \in BitStrings(n)
  PROVE  /\ DirectPart(bits) \in BitStrings(n - 4) /\ AlignPart(bits) \in BitStrings(4)
         /\ \A i \in 1..n - 4 : DirectPart(bits)[i] = bits[i]
         /\ \A i \in 1..4 : AlignPart(bits)[i] = bits[n - 4 + i]
<1>1. bits \in Seq({0, 1}) /\ Len(bits) = n
  BY BitSequence
<1>2. DirectPart(bits) \in Seq({0, 1}) /\ Len(DirectPart(bits)) = n - 4
  BY <1>1 DEF DirectPart, kNumAlignBits
<1>3. AlignPart(bits) \in Seq({0, 1}) /\ Len(AlignPart(bits)) = 4
  BY <1>1 DEF AlignPart, kNumAlignBits
<1>4. \A i \in 1..n - 4 : DirectPart(bits)[i] = bits[i]
  BY <1>1 DEF DirectPart, kNumAlignBits
<1>5. \A i \in 1..4 : AlignPart(bits)[i] = bits[n - 4 + i]
  BY <1>1 DEF AlignPart, kNumAlignBits
<1>6. 4 \in Nat /\ n - 4 \in Nat
  OBVIOUS
<1> QED
  BY <1>2, <1>3, <1>4, <1>5, <1>6 DEF BitStrings

(* What is added to the base of a slot stays below the next base. *)
LEMMA MoreBitsRange ==
  ASSUME NEW slot \in Slots, NEW bits \in BitStrings(NumDirectBits(slot))
  PROVE  MoreBits(slot, bits) \in 0..2^NumDirectBits(slot) - 1
<1>1. slot \in 0..63 /\ NumDirectBits(slot) \in 0..30 /\ 2^NumDirectBits(slot) \in Nat \ {0}
  BY SlotsOK
<1>2. CASE slot < kStartPosModelIndex
  <2>1. MoreBits(slot, bits) = 0
    BY <1>1, <1>2 DEF MoreBits, kStartPosModelIndex, kEndPosModelIndex
  <2> QED BY <1>1, <2>1
<1>3. CASE slot \in kStartPosModelIndex..kEndPosModelIndex - 1
  <2>1. NumDirectBits(slot) \in 0..31
    BY <1>1
  <2>2. ReverseBitTreeDecode(bits) \in 0..2^NumDirectBits(slot) - 1
    BY <2>1, ReverseRange
  <2>3. MoreBits(slot, bits) = ReverseBitTreeDecode(bits)
    BY <1>1, <1>3 DEF MoreBits, kStartPosModelIndex, kEndPosModelIndex
  <2> QED BY <2>2, <2>3
<1>4. CASE slot >= kEndPosModelIndex
  <2> DEFINE n == NumDirectBits(slot)
  <2>1. n \in 6..30
    BY <1>1, <1>4, SlotsOK
  <2> HIDE DEF n
  <2>2. n \in 4..30 /\ n - 4 \in 0..31 /\ 4 \in 0..31 /\ bits \in BitStrings(n)
    BY <2>1 DEF n
  <2>3. DirectPart(bits) \in BitStrings(n - 4) /\ AlignPart(bits) \in BitStrings(4)
    BY <2>2, AlignSplit
  <2>4. BitTreeDecode(DirectPart(bits)) \in 0..2^(n - 4) - 1
    BY <2>2, <2>3, BitTreeRange
  <2>5. ReverseBitTreeDecode(AlignPart(bits)) \in 0..2^4 - 1
    BY <2>2, <2>3, ReverseRange
  <2>6. 2^4 = 16
    OBVIOUS
  <2>7. 2^n = 16 * 2^(n - 4) /\ 2^(n - 4) \in Nat
    <3>1. n - 4 \in 0..31 /\ n - 3 \in 0..31 /\ n - 2 \in 0..31 /\ n - 1 \in 0..31
      BY <2>1
    <3>2. Doubles(n - 4) /\ Doubles(n - 3) /\ Doubles(n - 2) /\ Doubles(n - 1)
      BY <3>1, Powers
    <3>3. n - 4 + 1 = n - 3 /\ n - 3 + 1 = n - 2 /\ n - 2 + 1 = n - 1 /\ n - 1 + 1 = n
      BY <2>1
    <3> QED BY <3>2, <3>3 DEF Doubles
  <2>8. MoreBits(slot, bits) =
          BitTreeDecode(DirectPart(bits)) * 16 + ReverseBitTreeDecode(AlignPart(bits))
    BY <1>1, <1>4, <2>6 DEF MoreBits, DecodeDirectBits, kStartPosModelIndex, kEndPosModelIndex,
                            kNumAlignBits
  <2>9. MoreBits(slot, bits) \in 0..2^n - 1
    BY <2>4, <2>5, <2>6, <2>7, <2>8
  <2> QED BY <2>9 DEF n
<1> QED
  BY <1>1, <1>2, <1>3, <1>4 DEF kEndPosModelIndex, kStartPosModelIndex

LEMMA DistanceRange == DistanceSymbols \subseteq 0..UInt32 - 1
<1> SUFFICES ASSUME NEW c \in DistanceCodes PROVE Distance(c[1], c[2]) \in 0..UInt32 - 1
  BY DEF DistanceSymbols
<1>1. PICK slot \in Slots : c \in {slot} \X BitStrings(NumDirectBits(slot))
  BY DEF DistanceCodes
<1> DEFINE bits == c[2]
<1>0. c[1] = slot /\ bits \in BitStrings(NumDirectBits(slot))
  BY <1>1
<1> HIDE DEF bits
<1>2. MoreBits(slot, bits) \in Nat /\ SlotBase(slot) \in Nat
  BY <1>0, MoreBitsRange, SlotsOK
<1>3. UInt32 \in Nat /\ UInt32 > 0
  BY WidthOK
<1>4. Distance(slot, bits) \in 0..UInt32 - 1
  <2> DEFINE sum == SlotBase(slot) + MoreBits(slot, bits) + 1
  <2>1. sum \in Nat
    BY <1>2
  <2> HIDE DEF sum
  <2>2. sum % UInt32 \in 0..UInt32 - 1
    BY <1>3, <2>1
  <2> QED BY <2>2 DEF sum, Distance
<1> QED
  BY <1>0, <1>4 DEF bits

(* Lengths and literals. *)
LEMMA LengthsRange ==
  ASSUME NEW p, NEW q, NEW length \in LenDecode(p, q)
  PROVE  length.symbol \in 0..271
<1>1. \A bits \in Bits3 : BitTreeDecode(bits) \in 0..7
  <2>1. 3 \in 0..31 /\ 2^3 = 8
    OBVIOUS
  <2>2. ASSUME NEW bits \in Bits3 PROVE BitTreeDecode(bits) \in 0..7
    <3>1. bits \in BitStrings(3)
      BY BitsAssumption DEF BitStrings
    <3>2. BitTreeDecode(bits) \in 0..2^3 - 1
      BY <2>1, <3>1, BitTreeRange
    <3> QED BY <2>1, <3>2
  <2> QED BY <2>2
<1>2. \A bits \in Bits8 : BitTreeDecode(bits) \in 0..255
  <2>1. 8 \in 0..31 /\ 2^8 = 256
    OBVIOUS
  <2>2. ASSUME NEW bits \in Bits8 PROVE BitTreeDecode(bits) \in 0..255
    <3>1. bits \in BitStrings(8)
      BY BitsAssumption DEF BitStrings
    <3>2. BitTreeDecode(bits) \in 0..2^8 - 1
      BY <2>1, <3>1, BitTreeRange
    <3> QED BY <2>1, <3>2
  <2> QED BY <2>2
<1> QED
  BY <1>1, <1>2 DEF LenDecode

LEMMA LiteralsRange ==
  ASSUME NEW bits \in Bits8, NEW b
  PROVE  /\ LiteralDecode(bits).symbol \in 0..255
         /\ LiteralDecodeMatch(bits, b).symbol \in 0..255
<1>1. bits \in BitStrings(8) /\ 8 \in 0..31 /\ 8 \in 0..8 /\ 2^8 = 256 /\ 2^(8 + 1) = 512
  BY BitsAssumption DEF BitStrings
<1>2. Mi(bits)[8] \in 2^8..2^(8 + 1) - 1
  BY <1>1, MiDigits
<1>3. Mi(bits)[8] \in Nat
  BY <1>1, <1>2
<1> QED
  BY <1>3 DEF LiteralDecode, LiteralDecodeMatch

-----------------------------------------------------------------------------
(* Two strings of the same length never stand for the same number. *)
LEMMA SameHalves ==
  ASSUME NEW x \in Nat, NEW y \in Nat, NEW p \in {0, 1}, NEW q \in {0, 1}, 2 * x + p = 2 * y + q
  PROVE  x = y /\ p = q
OBVIOUS

(* Strings that agree on their first bits lead to the same nodes. *)
LEMMA MiPrefix ==
  ASSUME NEW n \in Nat, NEW m \in n..31, NEW bits \in BitStrings(n), NEW longer \in BitStrings(m),
         \A i \in 1..n : longer[i] = bits[i]
  PROVE  \A i \in 0..n : Mi(longer)[i] = Mi(bits)[i]
<1> DEFINE T == {i \in 0..n : Mi(longer)[i] = Mi(bits)[i]}
<1>0. m \in Nat
  OBVIOUS
<1>1. 0 \in T
  BY <1>0, MiDoubles
<1>2. ASSUME NEW i \in 0..n - 1, i \in T PROVE i + 1 \in T
  <2>1. i + 1 \in 1..n /\ i + 1 \in 1..m /\ (i + 1) - 1 = i
    OBVIOUS
  <2>2. Mi(bits)[i + 1] = 2 * Mi(bits)[i] + bits[i + 1]
    BY <2>1, MiDoubles
  <2>3. Mi(longer)[i + 1] = 2 * Mi(longer)[i] + longer[i + 1]
    BY <1>0, <2>1, MiDoubles
  <2> QED BY <1>2, <2>1, <2>2, <2>3
<1> HIDE DEF T
<1>3. 0..n \subseteq T
  BY <1>1, <1>2, UpTo
<1> QED
  BY <1>3 DEF T

(* A bit more at the end. *)
With(bits, n, b) == [i \in 1..n + 1 |-> IF i = n + 1 THEN b ELSE bits[i]]

LEMMA WithBit ==
  ASSUME NEW n \in Nat, NEW bits \in BitStrings(n), NEW b \in {0, 1}
  PROVE  /\ With(bits, n, b) \in BitStrings(n + 1)
         /\ With(bits, n, b)[n + 1] = b
         /\ \A i \in 1..n : With(bits, n, b)[i] = bits[i]
<1>1. \A i \in 1..n : bits[i] \in {0, 1}
  BY BitSequence
<1>2. \A i \in 1..n + 1 : (IF i = n + 1 THEN b ELSE bits[i]) \in {0, 1}
  BY <1>1
<1>3. n + 1 \in 1..n + 1 /\ \A i \in 1..n : i \in 1..n + 1 /\ i # n + 1
  OBVIOUS
<1> QED
  BY <1>2, <1>3 DEF With, BitStrings

(* Every value of n bits is the symbol of one string. *)
LEMMA BitTreeOnto ==
  ASSUME NEW n \in 0..31, NEW v \in 0..2^n - 1
  PROVE  \E bits \in BitStrings(n) : BitTreeDecode(bits) = v
<1> DEFINE Onto(k) == \A u \in 0..2^k - 1 : \E bits \in BitStrings(k) : Mi(bits)[k] = 2^k + u
           T == {k \in 0..31 : Onto(k)}
<1>1. 0 \in T
  <2> DEFINE bits == [i \in 1..0 |-> 0]
  <2>1. bits \in BitStrings(0)
    BY DEF BitStrings
  <2>2. 2^0 = 1 /\ 0 \in Nat
    OBVIOUS
  <2>3. Mi(bits)[0] = 1
    <3> HIDE DEF bits
    <3> QED BY <2>1, <2>2, MiDoubles
  <2>4. ASSUME NEW u \in 0..2^0 - 1 PROVE \E b \in BitStrings(0) : Mi(b)[0] = 2^0 + u
    <3>1. u = 0
      BY <2>2
    <3> HIDE DEF bits
    <3> QED BY <2>1, <2>2, <2>3, <3>1
  <2> QED BY <2>4
<1>2. ASSUME NEW k \in 0..31 - 1, k \in T PROVE k + 1 \in T
  <2>1. Onto(k) /\ Doubles(k) /\ k \in Nat /\ k \in 0..31 /\ k + 1 \in 0..31
    BY <1>2, Powers
  <2>2. ASSUME NEW u \in 0..2^(k + 1) - 1
        PROVE  \E bits \in BitStrings(k + 1) : Mi(bits)[k + 1] = 2^(k + 1) + u
    <3>1. u \div 2 \in 0..2^k - 1 /\ u % 2 \in {0, 1} /\ u = 2 * (u \div 2) + (u % 2)
      BY <2>1 DEF Doubles
    <3>2. PICK bits \in BitStrings(k) : Mi(bits)[k] = 2^k + u \div 2
      BY <2>1, <3>1
    <3> DEFINE longer == With(bits, k, u % 2)
    <3>3. /\ longer \in BitStrings(k + 1) /\ longer[k + 1] = u % 2
          /\ \A i \in 1..k : longer[i] = bits[i]
      BY <2>1, <3>1, WithBit
    <3> HIDE DEF longer
    <3>4. k + 1 \in k..31 /\ k \in 0..k
      BY <2>1
    <3>5. Mi(longer)[k] = Mi(bits)[k]
      BY <2>1, <3>3, <3>4, MiPrefix
    <3>6. k + 1 \in Nat /\ k + 1 \in 1..k + 1 /\ (k + 1) - 1 = k
      BY <2>1
    <3>7. Mi(longer)[k + 1] = 2 * Mi(longer)[k] + longer[k + 1]
      BY <3>3, <3>6, MiDoubles
    <3>8. Mi(longer)[k + 1] = 2^(k + 1) + u
      BY <2>1, <3>1, <3>2, <3>3, <3>5, <3>7 DEF Doubles
    <3> QED BY <3>3, <3>8
  <2> QED BY <2>1, <2>2
<1>3. n \in T
  <2> HIDE DEF T
  <2>1. 31 \in Nat
    OBVIOUS
  <2>2. 0..31 \subseteq T
    BY <1>1, <1>2, <2>1, UpTo
  <2> QED BY <2>2
<1>4. PICK bits \in BitStrings(n) : Mi(bits)[n] = 2^n + v
  BY <1>3
<1>5. n \in Nat /\ 2^n \in Nat
  BY Powers DEF Doubles
<1>6. Len(bits) = n
  BY <1>5, BitSequence
<1>7. BitTreeDecode(bits) = v
  BY <1>4, <1>5, <1>6 DEF BitTreeDecode
<1> QED
  BY <1>7

LEMMA BitTreeOnce ==
  ASSUME NEW n \in 0..31, NEW a \in BitStrings(n), NEW b \in BitStrings(n),
         BitTreeDecode(a) = BitTreeDecode(b)
  PROVE  a = b
<1>1. n \in Nat /\ 2^n \in Nat /\ Len(a) = n /\ Len(b) = n /\ n \in 0..n
  <2>1. n \in Nat
    OBVIOUS
  <2>2. 2^n \in Nat
    BY Powers DEF Doubles
  <2> QED BY <2>1, <2>2, BitSequence
<1>2. \A i \in 0..n : Mi(a)[i] \in Nat /\ Mi(b)[i] \in Nat
  <2> SUFFICES ASSUME NEW i \in 0..n PROVE Mi(a)[i] \in Nat /\ Mi(b)[i] \in Nat
    OBVIOUS
  <2>1. i \in 0..31
    OBVIOUS
  <2>2. 2^i \in Nat /\ 2^(i + 1) \in Nat
    <3>1. Doubles(i)
      BY <2>1, Powers
    <3> QED BY <3>1 DEF Doubles
  <2>3. Mi(a)[i] \in 2^i..2^(i + 1) - 1 /\ Mi(b)[i] \in 2^i..2^(i + 1) - 1
    BY MiDigits
  <2> QED BY <2>2, <2>3
<1>3. Mi(a)[n] = Mi(b)[n]
  BY <1>1, <1>2 DEF BitTreeDecode
<1>4. ASSUME NEW i \in 1..n, Mi(a)[i] = Mi(b)[i]
      PROVE  Mi(a)[i - 1] = Mi(b)[i - 1] /\ a[i] = b[i]
  <2>1. Mi(a)[i] = 2 * Mi(a)[i - 1] + a[i] /\ Mi(b)[i] = 2 * Mi(b)[i - 1] + b[i]
    BY <1>1, MiDoubles
  <2>2. a[i] \in {0, 1} /\ b[i] \in {0, 1} /\ i - 1 \in 0..n
    BY <1>1, BitSequence
  <2>3. Mi(a)[i - 1] \in Nat /\ Mi(b)[i - 1] \in Nat
    BY <1>2, <2>2
  <2>4. 2 * Mi(a)[i - 1] + a[i] = 2 * Mi(b)[i - 1] + b[i]
    BY <1>4, <2>1
  <2> QED BY <2>2, <2>3, <2>4, SameHalves
<1> DEFINE T == {j \in 0..n : Mi(a)[n - j] = Mi(b)[n - j]}
<1>5. 0 \in T
  BY <1>1, <1>3
<1>6. ASSUME NEW j \in 0..n - 1, j \in T PROVE j + 1 \in T
  <2>1. n - j \in 1..n /\ (n - j) - 1 = n - (j + 1) /\ j + 1 \in 0..n
    OBVIOUS
  <2> QED BY <1>4, <1>6, <2>1
<1>7. 0..n \subseteq T
  <2> HIDE DEF T
  <2> QED BY <1>1, <1>5, <1>6, UpTo
<1>8. ASSUME NEW i \in 1..n PROVE a[i] = b[i]
  <2>1. n - i \in 0..n /\ n - (n - i) = i
    OBVIOUS
  <2>2. Mi(a)[i] = Mi(b)[i]
    BY <1>7, <2>1
  <2> QED BY <1>4, <2>2
<1> QED
  BY <1>8 DEF BitStrings

(* The same for symbols whose lowest bit comes first. *)
LEMMA SameBits ==
  ASSUME NEW n, NEW a \in BitStrings(n), NEW b \in BitStrings(n), \A i \in 1..n : a[i] = b[i]
  PROVE  a = b
<1>1. ASSUME NEW S, NEW f \in [S -> {0, 1}], NEW g \in [S -> {0, 1}], \A x \in S : f[x] = g[x]
      PROVE  f = g
  BY <1>1
<1> QED
  BY <1>1 DEF BitStrings

LEMMA SymbolPrefix ==
  ASSUME NEW n \in Nat, NEW m \in n..31, NEW bits \in BitStrings(n), NEW longer \in BitStrings(m),
         \A i \in 1..n : longer[i] = bits[i]
  PROVE  \A i \in 0..n : Symbol(longer)[i] = Symbol(bits)[i]
<1> DEFINE T == {i \in 0..n : Symbol(longer)[i] = Symbol(bits)[i]}
<1>0. m \in 0..31 /\ n \in 0..31
  OBVIOUS
<1>1. 0 \in T
  BY <1>0, SymbolGrows
<1>2. ASSUME NEW i \in 0..n - 1, i \in T PROVE i + 1 \in T
  <2>1. i + 1 \in 1..n /\ i + 1 \in 1..m /\ (i + 1) - 1 = i
    OBVIOUS
  <2>2. Symbol(bits)[i + 1] = Symbol(bits)[i] + bits[i + 1] * 2^i
    BY <1>0, <2>1, SymbolGrows
  <2>3. Symbol(longer)[i + 1] = Symbol(longer)[i] + longer[i + 1] * 2^i
    BY <1>0, <2>1, SymbolGrows
  <2> QED BY <1>2, <2>1, <2>2, <2>3
<1> HIDE DEF T
<1>3. 0..n \subseteq T
  BY <1>1, <1>2, UpTo
<1> QED
  BY <1>3 DEF T

(* Every value of n bits is that of one string in the reverse order. *)
LEMMA ReverseOnto ==
  ASSUME NEW n \in 0..31, NEW v \in 0..2^n - 1
  PROVE  \E bits \in BitStrings(n) : ReverseBitTreeDecode(bits) = v
<1> DEFINE Onto(k) == \A u \in 0..2^k - 1 : \E bits \in BitStrings(k) : Symbol(bits)[k] = u
           T == {k \in 0..31 : Onto(k)}
<1>1. 0 \in T
  <2> DEFINE bits == [i \in 1..0 |-> 0]
  <2>1. bits \in BitStrings(0)
    BY DEF BitStrings
  <2>2. 2^0 = 1 /\ 0 \in 0..31
    OBVIOUS
  <2>3. Symbol(bits)[0] = 0
    <3> HIDE DEF bits
    <3> QED BY <2>1, <2>2, SymbolGrows
  <2>4. ASSUME NEW u \in 0..2^0 - 1 PROVE \E b \in BitStrings(0) : Symbol(b)[0] = u
    <3>1. u = 0
      BY <2>2
    <3> HIDE DEF bits
    <3> QED BY <2>1, <2>3, <3>1
  <2> QED BY <2>4
<1>2. ASSUME NEW k \in 0..31 - 1, k \in T PROVE k + 1 \in T
  <2>1. Onto(k) /\ Doubles(k) /\ k \in Nat /\ k \in 0..31 /\ k + 1 \in 0..31
    BY <1>2, Powers
  <2>2. ASSUME NEW u \in 0..2^(k + 1) - 1
        PROVE  \E bits \in BitStrings(k + 1) : Symbol(bits)[k + 1] = u
    <3> DEFINE b == IF u < 2^k THEN 0 ELSE 1
               rest == IF u < 2^k THEN u ELSE u - 2^k
    <3>1. b \in {0, 1} /\ rest \in 0..2^k - 1 /\ u = rest + b * 2^k
      BY <2>1 DEF Doubles
    <3> HIDE DEF b, rest
    <3>2. PICK bits \in BitStrings(k) : Symbol(bits)[k] = rest
      BY <2>1, <3>1
    <3> DEFINE longer == With(bits, k, b)
    <3>3. /\ longer \in BitStrings(k + 1) /\ longer[k + 1] = b
          /\ \A i \in 1..k : longer[i] = bits[i]
      BY <2>1, <3>1, WithBit
    <3> HIDE DEF longer
    <3>4. k + 1 \in k..31 /\ k \in 0..k
      BY <2>1
    <3>5. Symbol(longer)[k] = Symbol(bits)[k]
      BY <2>1, <3>3, <3>4, SymbolPrefix
    <3>6. k + 1 \in 1..k + 1 /\ (k + 1) - 1 = k
      BY <2>1
    <3>7. Symbol(longer)[k + 1] = Symbol(longer)[k] + longer[k + 1] * 2^k
      BY <2>1, <3>3, <3>6, SymbolGrows
    <3>8. Symbol(longer)[k + 1] = u
      BY <3>1, <3>2, <3>3, <3>5, <3>6, <3>7
    <3> QED BY <3>3, <3>8
  <2> QED BY <2>1, <2>2
<1>3. n \in T
  <2> HIDE DEF T
  <2>1. 31 \in Nat
    OBVIOUS
  <2>2. 0..31 \subseteq T
    BY <1>1, <1>2, <2>1, UpTo
  <2> QED BY <2>2
<1>4. PICK bits \in BitStrings(n) : Symbol(bits)[n] = v
  BY <1>3
<1>5. n \in Nat
  OBVIOUS
<1>6. Len(bits) = n
  BY <1>5, BitSequence
<1> QED
  BY <1>4, <1>6 DEF ReverseBitTreeDecode

(* The highest bit decides on the half. *)
LEMMA SameTop ==
  ASSUME NEW m \in Nat \ {0}, NEW x \in 0..m - 1, NEW y \in 0..m - 1,
         NEW p \in {0, 1}, NEW q \in {0, 1}, x + p * m = y + q * m
  PROVE  x = y /\ p = q
OBVIOUS

LEMMA ReverseOnce ==
  ASSUME NEW n \in 0..31, NEW a \in BitStrings(n), NEW b \in BitStrings(n),
         ReverseBitTreeDecode(a) = ReverseBitTreeDecode(b)
  PROVE  a = b
<1>1. n \in Nat /\ Len(a) = n /\ Len(b) = n /\ n \in 0..n
  <2>1. n \in Nat
    OBVIOUS
  <2> QED BY <2>1, BitSequence
<1>2. Symbol(a)[n] = Symbol(b)[n]
  BY <1>1 DEF ReverseBitTreeDecode
<1>3. ASSUME NEW i \in 1..n, Symbol(a)[i] = Symbol(b)[i]
      PROVE  Symbol(a)[i - 1] = Symbol(b)[i - 1] /\ a[i] = b[i]
  <2>1. /\ Symbol(a)[i] = Symbol(a)[i - 1] + a[i] * 2^(i - 1)
        /\ Symbol(b)[i] = Symbol(b)[i - 1] + b[i] * 2^(i - 1)
    BY SymbolGrows
  <2>2. a[i] \in {0, 1} /\ b[i] \in {0, 1} /\ i - 1 \in 0..n /\ i - 1 \in 0..31
    BY <1>1, BitSequence
  <2>3. /\ 2^(i - 1) \in Nat \ {0}
        /\ Symbol(a)[i - 1] \in 0..2^(i - 1) - 1 /\ Symbol(b)[i - 1] \in 0..2^(i - 1) - 1
    BY <2>2, SymbolDigits, Powers DEF Doubles
  <2>4. Symbol(a)[i - 1] + a[i] * 2^(i - 1) = Symbol(b)[i - 1] + b[i] * 2^(i - 1)
    BY <1>3, <2>1
  <2> QED BY <2>2, <2>3, <2>4, SameTop
<1> DEFINE T == {j \in 0..n : Symbol(a)[n - j] = Symbol(b)[n - j]}
<1>4. 0 \in T
  BY <1>1, <1>2
<1>5. ASSUME NEW j \in 0..n - 1, j \in T PROVE j + 1 \in T
  <2>1. n - j \in 1..n /\ (n - j) - 1 = n - (j + 1) /\ j + 1 \in 0..n
    OBVIOUS
  <2> QED BY <1>3, <1>5, <2>1
<1>6. 0..n \subseteq T
  <2> HIDE DEF T
  <2> QED BY <1>1, <1>4, <1>5, UpTo
<1>7. ASSUME NEW i \in 1..n PROVE a[i] = b[i]
  <2>1. n - i \in 0..n /\ n - (n - i) = i
    OBVIOUS
  <2>2. Symbol(a)[i] = Symbol(b)[i]
    BY <1>6, <2>1
  <2> QED BY <1>3, <2>2
<1> QED
  BY <1>7 DEF BitStrings

-----------------------------------------------------------------------------
(* The bits that may follow a slot stand for the numbers below a power of  *)
(* two, each for another one.                                              *)
LEMMA MoreBitsOnto ==
  ASSUME NEW slot \in Slots, NEW v \in 0..2^NumDirectBits(slot) - 1
  PROVE  \E bits \in BitStrings(NumDirectBits(slot)) : MoreBits(slot, bits) = v
<1> DEFINE n == NumDirectBits(slot)
<1>1. slot \in 0..63 /\ n \in 0..30 /\ n \in 0..31 /\ 2^n \in Nat \ {0}
  <2>1. n \in 0..30
    BY SlotsOK
  <2> QED BY <2>1, SlotsOK
<1>2. CASE slot < kStartPosModelIndex
  <2>1. n = 0 /\ 2^0 = 1
    BY <1>2 DEF NumDirectBits
  <2>2. v = 0
    BY <1>1, <2>1
  <2>3. \A bits : MoreBits(slot, bits) = 0
    BY <1>1, <1>2 DEF MoreBits, kStartPosModelIndex, kEndPosModelIndex
  <2>4. [i \in 1..n |-> 0] \in BitStrings(n)
    BY DEF BitStrings
  <2> QED BY <2>2, <2>3, <2>4
<1>3. CASE slot \in kStartPosModelIndex..kEndPosModelIndex - 1
  <2>1. \A bits : MoreBits(slot, bits) = ReverseBitTreeDecode(bits)
    BY <1>1, <1>3 DEF MoreBits, kStartPosModelIndex, kEndPosModelIndex
  <2>2. \E bits \in BitStrings(n) : ReverseBitTreeDecode(bits) = v
    <3> HIDE DEF n
    <3>1. v \in 0..2^n - 1
      BY DEF n
    <3> QED BY <1>1, <3>1, ReverseOnto
  <2> QED BY <2>1, <2>2
<1>4. CASE slot >= kEndPosModelIndex
  <2>1. n \in 6..30
    BY <1>1, <1>4, SlotsOK
  <2>2. v \in 0..2^n - 1
    OBVIOUS
  <2>3. \A bits : MoreBits(slot, bits) =
          BitTreeDecode(DirectPart(bits)) * 16 + ReverseBitTreeDecode(AlignPart(bits))
    <3>1. 2^4 = 16
      OBVIOUS
    <3> QED
      BY <1>1, <1>4, <3>1 DEF MoreBits, DecodeDirectBits, kStartPosModelIndex,
                              kEndPosModelIndex, kNumAlignBits
  <2>4. ASSUME NEW u \in 0..2^n - 1
        PROVE  \E bits \in BitStrings(n) :
                 BitTreeDecode(DirectPart(bits)) * 16 + ReverseBitTreeDecode(AlignPart(bits)) = u
    <3> HIDE DEF n
    <3>1. 2^n = 16 * 2^(n - 4) /\ 2^(n - 4) \in Nat /\ 2^4 = 16
      <4>1. n - 4 \in 0..31 /\ n - 3 \in 0..31 /\ n - 2 \in 0..31 /\ n - 1 \in 0..31
        BY <2>1
      <4>2. Doubles(n - 4) /\ Doubles(n - 3) /\ Doubles(n - 2) /\ Doubles(n - 1)
        BY <4>1, Powers
      <4>3. n - 4 + 1 = n - 3 /\ n - 3 + 1 = n - 2 /\ n - 2 + 1 = n - 1 /\ n - 1 + 1 = n
        BY <2>1
      <4> QED BY <4>2, <4>3 DEF Doubles
    <3>2. u \div 16 \in 0..2^(n - 4) - 1 /\ u % 16 \in 0..2^4 - 1 /\ u = (u \div 16) * 16 + (u % 16)
      BY <3>1
    <3>3. n - 4 \in 0..31 /\ 4 \in 0..31
      BY <2>1
    <3>4. PICK d \in BitStrings(n - 4) : BitTreeDecode(d) = u \div 16
      BY <3>2, <3>3, BitTreeOnto
    <3>5. PICK a \in BitStrings(4) : ReverseBitTreeDecode(a) = u % 16
      BY <3>2, <3>3, ReverseOnto
    <3> DEFINE bits == [i \in 1..n |-> IF i <= n - 4 THEN d[i] ELSE a[i - (n - 4)]]
    <3>6. bits \in BitStrings(n)
      <4>1. ASSUME NEW i \in 1..n
            PROVE  (IF i <= n - 4 THEN d[i] ELSE a[i - (n - 4)]) \in {0, 1}
        <5>1. i <= n - 4 => i \in 1..n - 4
          BY <2>1
        <5>2. ~(i <= n - 4) => i - (n - 4) \in 1..4
          BY <2>1
        <5> QED BY <5>1, <5>2 DEF BitStrings
      <4> QED BY <4>1 DEF BitStrings
    <3>7. /\ \A i \in 1..n - 4 : bits[i] = d[i]
          /\ \A i \in 1..4 : bits[n - 4 + i] = a[i]
      BY <2>1
    <3> HIDE DEF bits
    <3>8. n \in 4..30
      BY <2>1
    <3>9. /\ DirectPart(bits) \in BitStrings(n - 4) /\ AlignPart(bits) \in BitStrings(4)
          /\ \A i \in 1..n - 4 : DirectPart(bits)[i] = bits[i]
          /\ \A i \in 1..4 : AlignPart(bits)[i] = bits[n - 4 + i]
      BY <3>6, <3>8, AlignSplit
    <3>10. DirectPart(bits) = d /\ AlignPart(bits) = a
      BY <3>7, <3>9, SameBits
    <3> QED BY <3>2, <3>4, <3>5, <3>6, <3>10
  <2> HIDE DEF n
  <2> QED BY <2>2, <2>3, <2>4 DEF n
<1> QED
  BY <1>1, <1>2, <1>3, <1>4 DEF kEndPosModelIndex, kStartPosModelIndex

LEMMA SameSixteenth ==
  ASSUME NEW x \in Nat, NEW y \in Nat, NEW p \in 0..15, NEW q \in 0..15, x * 16 + p = y * 16 + q
  PROVE  x = y /\ p = q
OBVIOUS

LEMMA MoreBitsOnce ==
  ASSUME NEW slot \in Slots, NEW a \in BitStrings(NumDirectBits(slot)),
         NEW b \in BitStrings(NumDirectBits(slot)), MoreBits(slot, a) = MoreBits(slot, b)
  PROVE  a = b
<1> DEFINE n == NumDirectBits(slot)
<1>1. slot \in 0..63 /\ n \in 0..30 /\ n \in 0..31
  <2>1. n \in 0..30
    BY SlotsOK
  <2> QED BY <2>1, SlotsOK
<1>2. CASE slot < kStartPosModelIndex
  <2>1. n = 0
    BY <1>2 DEF NumDirectBits
  <2> QED BY <2>1 DEF BitStrings
<1>3. CASE slot \in kStartPosModelIndex..kEndPosModelIndex - 1
  <2>1. \A bits : MoreBits(slot, bits) = ReverseBitTreeDecode(bits)
    BY <1>1, <1>3 DEF MoreBits, kStartPosModelIndex, kEndPosModelIndex
  <2>2. ReverseBitTreeDecode(a) = ReverseBitTreeDecode(b)
    BY <2>1
  <2> QED BY <1>1, <2>2, ReverseOnce
<1>4. CASE slot >= kEndPosModelIndex
  <2>1. n \in 6..30
    BY <1>1, <1>4, SlotsOK
  <2>2. \A bits : MoreBits(slot, bits) =
          BitTreeDecode(DirectPart(bits)) * 16 + ReverseBitTreeDecode(AlignPart(bits))
    <3>1. 2^4 = 16
      OBVIOUS
    <3> QED
      BY <1>1, <1>4, <3>1 DEF MoreBits, DecodeDirectBits, kStartPosModelIndex,
                              kEndPosModelIndex, kNumAlignBits
  <2>3. a \in BitStrings(n) /\ b \in BitStrings(n)
    OBVIOUS
  <2> HIDE DEF n
  <2>4. n \in 4..30 /\ n - 4 \in 0..31 /\ 4 \in 0..31 /\ 2^4 = 16
    BY <2>1
  <2>5. /\ DirectPart(a) \in BitStrings(n - 4) /\ AlignPart(a) \in BitStrings(4)
        /\ \A i \in 1..n - 4 : DirectPart(a)[i] = a[i]
        /\ \A i \in 1..4 : AlignPart(a)[i] = a[n - 4 + i]
    BY <2>3, <2>4, AlignSplit
  <2>6. /\ DirectPart(b) \in BitStrings(n - 4) /\ AlignPart(b) \in BitStrings(4)
        /\ \A i \in 1..n - 4 : DirectPart(b)[i] = b[i]
        /\ \A i \in 1..4 : AlignPart(b)[i] = b[n - 4 + i]
    BY <2>3, <2>4, AlignSplit
  <2>7. BitTreeDecode(DirectPart(a)) \in Nat /\ BitTreeDecode(DirectPart(b)) \in Nat
    BY <2>4, <2>5, <2>6, BitTreeRange
  <2>8. ReverseBitTreeDecode(AlignPart(a)) \in 0..15 /\ ReverseBitTreeDecode(AlignPart(b)) \in 0..15
    <3>1. ASSUME NEW s \in BitStrings(4) PROVE ReverseBitTreeDecode(s) \in 0..15
      <4>1. ReverseBitTreeDecode(s) \in 0..2^4 - 1
        BY <2>4, ReverseRange
      <4> QED BY <2>4, <4>1
    <3> QED BY <2>5, <2>6, <3>1
  <2>9. BitTreeDecode(DirectPart(a)) * 16 + ReverseBitTreeDecode(AlignPart(a))
        = BitTreeDecode(DirectPart(b)) * 16 + ReverseBitTreeDecode(AlignPart(b))
    BY <2>2
  <2>10. /\ BitTreeDecode(DirectPart(a)) = BitTreeDecode(DirectPart(b))
         /\ ReverseBitTreeDecode(AlignPart(a)) = ReverseBitTreeDecode(AlignPart(b))
    BY <2>7, <2>8, <2>9, SameSixteenth
  <2>11. DirectPart(a) = DirectPart(b) /\ AlignPart(a) = AlignPart(b)
    BY <2>4, <2>5, <2>6, <2>10, BitTreeOnce, ReverseOnce
  <2>12. ASSUME NEW i \in 1..n PROVE a[i] = b[i]
    <3>1. CASE i \in 1..n - 4
      BY <2>5, <2>6, <2>11, <3>1
    <3>2. CASE i - (n - 4) \in 1..4
      <4>1. n - 4 + (i - (n - 4)) = i
        BY <2>1
      <4>2. /\ AlignPart(a)[i - (n - 4)] = a[n - 4 + (i - (n - 4))]
            /\ AlignPart(b)[i - (n - 4)] = b[n - 4 + (i - (n - 4))]
        BY <2>5, <2>6, <3>2
      <4> QED BY <2>11, <4>1, <4>2
    <3> QED BY <2>1, <3>1, <3>2
  <2> QED BY <2>3, <2>12, SameBits
<1> QED
  BY <1>1, <1>2, <1>3, <1>4 DEF kEndPosModelIndex, kStartPosModelIndex

-----------------------------------------------------------------------------
(* The bases of the slots follow each other without a gap. *)
SlotEnd(slot) == SlotBase(slot) + 2^NumDirectBits(slot)

LEMMA FarBase ==
  ASSUME NEW slot \in 4..63, NEW b \in {0, 1}, slot % 2 = b,
         NEW n \in Nat, NumDirectBits(slot) = n
  PROVE  SlotBase(slot) = (2 + b) * 2^n
  BY DEF SlotBase, kStartPosModelIndex

LEMMA SlotEnds ==
  /\ 0 \in Slots /\ SlotBase(0) = 0
  /\ \A slot \in Slots : slot + 1 \in Slots => SlotBase(slot + 1) = SlotEnd(slot)
  /\ 2^kNumPosSlotBits - 1 \in Slots /\ SlotEnd(2^kNumPosSlotBits - 1) = UInt32
<1>1. 0 \in Slots /\ SlotBase(0) = 0 /\ 2^kNumPosSlotBits - 1 \in Slots
  BY WidthOK DEF Slots, SlotBase, kStartPosModelIndex
<1>2. ASSUME NEW slot \in Slots, slot + 1 \in Slots PROVE SlotBase(slot + 1) = SlotEnd(slot)
  <2>1. slot \in 0..63
    BY SlotsOK
  <2>2. CASE slot < 3
    <3>1. NumDirectBits(slot) = 0 /\ 2^0 = 1
      BY <2>1, <2>2 DEF NumDirectBits, kStartPosModelIndex
    <3> QED BY <2>1, <2>2, <3>1 DEF SlotEnd, SlotBase, kStartPosModelIndex
  <2>3. CASE slot = 3
    <3>1. NumDirectBits(3) = 0 /\ NumDirectBits(4) = 1 /\ 4 % 2 = 0
      BY DEF NumDirectBits, kStartPosModelIndex
    <3>2. SlotBase(3) = 3 /\ SlotBase(4) = (2 + 0) * 2^1
      <4>1. SlotBase(3) = 3
        BY DEF SlotBase, kStartPosModelIndex
      <4>2. SlotBase(4) = (2 + 0) * 2^1
        <5>1. 4 \in 4..63 /\ 0 \in {0, 1} /\ 1 \in Nat
          OBVIOUS
        <5> QED BY <3>1, <5>1, FarBase, Zenon
      <4> QED BY <4>1, <4>2
    <3>3. SlotEnd(3) = 3 + 2^0
      BY <3>1, <3>2 DEF SlotEnd
    <3>4. 3 + 1 = 4 /\ (2 + 0) * 2^1 = 3 + 2^0
      OBVIOUS
    <3> QED BY <2>3, <3>2, <3>3, <3>4
  <2>4. CASE slot > 3 /\ slot % 2 = 0
    <3>1. NumDirectBits(slot + 1) = NumDirectBits(slot) /\ (slot + 1) % 2 = 1
      BY <2>1, <2>4 DEF NumDirectBits, kStartPosModelIndex
    <3>2. 2^NumDirectBits(slot) \in Nat
      BY SlotsOK
    <3>3. SlotBase(slot) = (2 + 0) * 2^NumDirectBits(slot)
      BY <2>1, <2>4 DEF SlotBase, kStartPosModelIndex
    <3>4. SlotBase(slot + 1) = (2 + 1) * 2^NumDirectBits(slot)
      BY <2>1, <2>4, <3>1 DEF SlotBase, kStartPosModelIndex
    <3> QED BY <3>2, <3>3, <3>4 DEF SlotEnd
  <2>5. CASE slot > 3 /\ slot % 2 = 1
    <3>1. NumDirectBits(slot + 1) = NumDirectBits(slot) + 1 /\ (slot + 1) % 2 = 0
      BY <2>1, <2>5 DEF NumDirectBits, kStartPosModelIndex
    <3>2. Doubles(NumDirectBits(slot))
      <4>1. NumDirectBits(slot) \in 0..31
        BY SlotsOK
      <4> QED BY <4>1, Powers
    <3>3. SlotBase(slot) = (2 + 1) * 2^NumDirectBits(slot)
      BY <2>1, <2>5 DEF SlotBase, kStartPosModelIndex
    <3>4. SlotBase(slot + 1) = (2 + 0) * 2^(NumDirectBits(slot) + 1)
      BY <2>1, <2>5, <3>1 DEF SlotBase, kStartPosModelIndex
    <3> QED BY <3>2, <3>3, <3>4 DEF SlotEnd, Doubles
  <2> QED BY <2>1, <2>2, <2>3, <2>4, <2>5
<1>3. SlotEnd(2^kNumPosSlotBits - 1) = UInt32
  <2>1. SlotEnd(15) = 2^8
    <3>1. NumDirectBits(15) = 6 /\ 15 % 2 = 1
      BY DEF NumDirectBits, kStartPosModelIndex
    <3>2. 2^8 = 4 * 2^6 /\ 2^6 \in Nat
      <4>1. Doubles(6) /\ Doubles(7)
        BY Powers
      <4> QED BY <4>1 DEF Doubles
    <3>3. SlotBase(15) = (2 + 1) * 2^6
      <4>1. 15 \in 4..63 /\ 1 \in {0, 1} /\ 6 \in Nat
        OBVIOUS
      <4> QED BY <3>1, <4>1, FarBase, Zenon
    <3>4. SlotEnd(15) = (2 + 1) * 2^6 + 2^6
      BY <3>1, <3>3 DEF SlotEnd
    <3> DEFINE p == 2^6
    <3>5. 2^8 = 4 * p /\ p \in Nat /\ SlotEnd(15) = (2 + 1) * p + p
      BY <3>2, <3>4
    <3> HIDE DEF p
    <3> QED BY <3>5
  <2>2. SlotEnd(31) = 2^16
    <3>1. NumDirectBits(31) = 14 /\ 31 % 2 = 1
      BY DEF NumDirectBits, kStartPosModelIndex
    <3>2. 2^16 = 4 * 2^14 /\ 2^14 \in Nat
      <4>1. Doubles(14) /\ Doubles(15)
        BY Powers
      <4> QED BY <4>1 DEF Doubles
    <3>3. SlotBase(31) = (2 + 1) * 2^14
      <4>1. 31 \in 4..63 /\ 1 \in {0, 1} /\ 14 \in Nat
        OBVIOUS
      <4> QED BY <3>1, <4>1, FarBase, Zenon
    <3>4. SlotEnd(31) = (2 + 1) * 2^14 + 2^14
      BY <3>1, <3>3 DEF SlotEnd
    <3> DEFINE p == 2^14
    <3>5. 2^16 = 4 * p /\ p \in Nat /\ SlotEnd(31) = (2 + 1) * p + p
      BY <3>2, <3>4
    <3> HIDE DEF p
    <3> QED BY <3>5
  <2>3. SlotEnd(63) = 2^32
    <3>1. NumDirectBits(63) = 30 /\ 63 % 2 = 1
      BY DEF NumDirectBits, kStartPosModelIndex
    <3>2. 2^32 = 4 * 2^30 /\ 2^30 \in Nat
      <4>1. Doubles(30) /\ Doubles(31)
        BY Powers
      <4> QED BY <4>1 DEF Doubles
    <3>3. SlotBase(63) = (2 + 1) * 2^30
      <4>1. 63 \in 4..63 /\ 1 \in {0, 1} /\ 30 \in Nat
        OBVIOUS
      <4> QED BY <3>1, <4>1, FarBase, Zenon
    <3>4. SlotEnd(63) = (2 + 1) * 2^30 + 2^30
      BY <3>1, <3>3 DEF SlotEnd
    <3> DEFINE p == 2^30
    <3>5. 2^32 = 4 * p /\ p \in Nat /\ SlotEnd(63) = (2 + 1) * p + p
      BY <3>2, <3>4
    <3> HIDE DEF p
    <3> QED BY <3>5
  <2>4. 2^4 - 1 = 15 /\ 2^5 - 1 = 31 /\ 2^6 - 1 = 63 /\ 2^(4 - 1) = 8 /\ 2^(5 - 1) = 16
        /\ 2^(6 - 1) = 32
    OBVIOUS
  <2>5. UInt32 = 2^(2^(kNumPosSlotBits - 1))
    BY BitsAssumption
  <2>6. CASE kNumPosSlotBits = 4
    BY <2>1, <2>4, <2>5, <2>6
  <2>7. CASE kNumPosSlotBits = 5
    BY <2>2, <2>4, <2>5, <2>7
  <2>8. CASE kNumPosSlotBits = 6
    BY <2>3, <2>4, <2>5, <2>8
  <2>9. kNumPosSlotBits \in 4..6
    BY BitsAssumption
  <2> QED BY <2>6, <2>7, <2>8, <2>9
<1> QED
  BY <1>1, <1>2, <1>3

LEMMA SlotNat ==
  ASSUME NEW slot \in Slots
  PROVE  SlotBase(slot) \in Nat /\ SlotEnd(slot) \in Nat /\ SlotBase(slot) < SlotEnd(slot)
<1>1. SlotBase(slot) \in Nat /\ 2^NumDirectBits(slot) \in Nat \ {0}
  BY SlotsOK
<1> QED
  BY <1>1 DEF SlotEnd

(* Every number below 2^32 is in the range of a slot, ... *)
LEMMA SlotFound ==
  ASSUME NEW v \in 0..UInt32 - 1
  PROVE  \E slot \in Slots : SlotBase(slot) <= v /\ v < SlotEnd(slot)
<1> DEFINE last == 2^kNumPosSlotBits - 1
           InSlot(s) == \E slot \in Slots : SlotBase(slot) <= v /\ v < SlotEnd(slot)
           T == {s \in 0..last : v < SlotEnd(s) => InSlot(s)}
<1>1. last \in Nat /\ Slots = 0..last /\ 0 \in 0..last
  BY WidthOK DEF Slots
<1>2. 0 \in T
  BY <1>1, SlotEnds
<1>3. ASSUME NEW s \in 0..last - 1, s \in T PROVE s + 1 \in T
  <2>1. s \in Slots /\ s + 1 \in Slots
    BY <1>1
  <2>2. SlotBase(s + 1) = SlotEnd(s) /\ SlotEnd(s) \in Nat
    BY <2>1, SlotEnds, SlotNat
  <2>3. CASE v < SlotEnd(s)
    BY <1>1, <1>3, <2>1, <2>3
  <2>4. CASE ~(v < SlotEnd(s))
    <3>1. SlotBase(s + 1) <= v
      BY <2>2, <2>4
    <3> QED BY <1>1, <2>1, <3>1
  <2> QED BY <2>3, <2>4
<1>4. last \in T
  <2> HIDE DEF T, last
  <2>1. last \in 0..last
    BY <1>1
  <2> QED BY <1>1, <1>2, <1>3, <2>1, UpTo
<1>5. v < SlotEnd(last)
  <2>1. SlotEnd(last) = UInt32 /\ UInt32 \in Nat
    BY SlotEnds, WidthOK
  <2> HIDE DEF last
  <2> QED BY <2>1
<1> QED
  BY <1>4, <1>5

(* ... and the ranges of two slots do not meet. *)
LEMMA SlotsApart ==
  ASSUME NEW s \in Slots, NEW t \in Slots, s < t
  PROVE  SlotEnd(s) <= SlotBase(t)
<1> DEFINE last == 2^kNumPosSlotBits - 1
           T == {u \in 0..last : s < u => SlotEnd(s) <= SlotBase(u)}
<1>1. last \in Nat /\ Slots = 0..last /\ 0 \in 0..last
  BY WidthOK DEF Slots
<1>2. 0 \in T
  BY <1>1
<1>3. ASSUME NEW u \in 0..last - 1, u \in T PROVE u + 1 \in T
  <2>1. u \in Slots /\ u + 1 \in Slots
    BY <1>1
  <2>2. SlotBase(u + 1) = SlotEnd(u) /\ SlotEnd(u) \in Nat /\ SlotBase(u) < SlotEnd(u)
        /\ SlotBase(u) \in Nat /\ SlotEnd(s) \in Nat
    BY <2>1, SlotEnds, SlotNat
  <2>3. CASE s < u
    BY <1>1, <1>3, <2>1, <2>2, <2>3
  <2>4. CASE s = u
    BY <1>1, <2>1, <2>2, <2>4
  <2>5. s < u + 1 => s < u \/ s = u
    BY <1>1
  <2>6. u + 1 \in 0..last
    BY <1>1
  <2> QED BY <2>3, <2>4, <2>5, <2>6
<1>4. t \in T
  <2> HIDE DEF T, last
  <2> QED BY <1>1, <1>2, <1>3, UpTo
<1> QED
  BY <1>4

-----------------------------------------------------------------------------
(* The distance less one, before it wraps. *)
Code(c) == SlotBase(c[1]) + MoreBits(c[1], c[2])

LEMMA CodeOf ==
  ASSUME NEW c \in DistanceCodes
  PROVE  /\ c[1] \in Slots /\ c[2] \in BitStrings(NumDirectBits(c[1])) /\ c = <<c[1], c[2]>>
         /\ Code(c) \in SlotBase(c[1])..SlotEnd(c[1]) - 1
         /\ Code(c) \in 0..UInt32 - 1
<1>1. PICK slot \in Slots : c \in {slot} \X BitStrings(NumDirectBits(slot))
  BY DEF DistanceCodes
<1>2. c[1] \in Slots /\ c[2] \in BitStrings(NumDirectBits(c[1])) /\ c = <<c[1], c[2]>>
  BY <1>1
<1>3. MoreBits(c[1], c[2]) \in 0..2^NumDirectBits(c[1]) - 1
  BY <1>2, MoreBitsRange
<1>4. SlotBase(c[1]) \in Nat /\ 2^NumDirectBits(c[1]) \in Nat
  BY <1>2, SlotsOK
<1>5. Code(c) \in SlotBase(c[1])..SlotEnd(c[1]) - 1
  BY <1>3, <1>4 DEF Code, SlotEnd
<1> DEFINE last == 2^kNumPosSlotBits - 1
<1>6. last \in Slots /\ SlotEnd(last) = UInt32 /\ c[1] <= last
  BY <1>2, WidthOK, SlotEnds DEF Slots
<1>7. SlotEnd(c[1]) <= UInt32
  <2> HIDE DEF last
  <2>1. CASE c[1] = last
    BY <1>2, <1>6, <2>1, SlotNat
  <2>2. CASE c[1] < last
    <3>1. SlotEnd(c[1]) <= SlotBase(last) /\ SlotBase(last) < SlotEnd(last)
      BY <1>2, <1>6, <2>2, SlotsApart, SlotNat
    <3> QED BY <1>2, <1>6, <3>1, SlotNat
  <2>3. c[1] \in 0..63 /\ last \in 0..63
    BY <1>2, <1>6, SlotsOK
  <2> QED BY <1>6, <2>1, <2>2, <2>3
<1>8. UInt32 \in Nat /\ SlotEnd(c[1]) \in Nat
  BY <1>2, WidthOK, SlotNat
<1> QED
  BY <1>2, <1>4, <1>5, <1>7, <1>8

LEMMA CodeOnce ==
  ASSUME NEW c \in DistanceCodes, NEW d \in DistanceCodes, Code(c) = Code(d)
  PROVE  c = d
<1>1. /\ c[1] \in Slots /\ c[2] \in BitStrings(NumDirectBits(c[1])) /\ c = <<c[1], c[2]>>
      /\ Code(c) \in SlotBase(c[1])..SlotEnd(c[1]) - 1
  BY CodeOf
<1>2. /\ d[1] \in Slots /\ d[2] \in BitStrings(NumDirectBits(d[1])) /\ d = <<d[1], d[2]>>
      /\ Code(d) \in SlotBase(d[1])..SlotEnd(d[1]) - 1
  BY CodeOf
<1>3. /\ SlotBase(c[1]) \in Nat /\ SlotEnd(c[1]) \in Nat
      /\ SlotBase(d[1]) \in Nat /\ SlotEnd(d[1]) \in Nat
  BY <1>1, <1>2, SlotNat
<1>4. ~(c[1] < d[1])
  <2> SUFFICES ASSUME c[1] < d[1] PROVE FALSE
    OBVIOUS
  <2>1. SlotEnd(c[1]) <= SlotBase(d[1])
    BY <1>1, <1>2, SlotsApart
  <2> QED BY <1>1, <1>2, <1>3, <2>1
<1>5. ~(d[1] < c[1])
  <2> SUFFICES ASSUME d[1] < c[1] PROVE FALSE
    OBVIOUS
  <2>1. SlotEnd(d[1]) <= SlotBase(c[1])
    BY <1>1, <1>2, SlotsApart
  <2> QED BY <1>1, <1>2, <1>3, <2>1
<1>6. c[1] = d[1]
  <2>1. c[1] \in 0..63 /\ d[1] \in 0..63
    BY <1>1, <1>2, SlotsOK
  <2> QED BY <1>4, <1>5, <2>1
<1>7. MoreBits(c[1], c[2]) = MoreBits(d[1], d[2])
  <2>1. MoreBits(c[1], c[2]) \in Nat /\ MoreBits(d[1], d[2]) \in Nat
    <3>1. 2^NumDirectBits(c[1]) \in Nat /\ 2^NumDirectBits(d[1]) \in Nat
      BY <1>1, <1>2, SlotsOK
    <3>2. /\ MoreBits(c[1], c[2]) \in 0..2^NumDirectBits(c[1]) - 1
          /\ MoreBits(d[1], d[2]) \in 0..2^NumDirectBits(d[1]) - 1
      BY <1>1, <1>2, MoreBitsRange
    <3> QED BY <3>1, <3>2
  <2> QED BY <1>3, <1>6, <2>1 DEF Code
<1>8. c[2] = d[2]
  BY <1>1, <1>2, <1>6, <1>7, MoreBitsOnce
<1> QED
  BY <1>1, <1>2, <1>6, <1>8

LEMMA CodeOnto ==
  ASSUME NEW v \in 0..UInt32 - 1
  PROVE  \E c \in DistanceCodes : Code(c) = v
<1>1. PICK slot \in Slots : SlotBase(slot) <= v /\ v < SlotEnd(slot)
  BY SlotFound
<1>2. SlotBase(slot) \in Nat /\ 2^NumDirectBits(slot) \in Nat /\ v \in Nat
  <2>1. v \in Nat
    BY WidthOK
  <2> QED BY <2>1, SlotsOK
<1>3. v - SlotBase(slot) \in 0..2^NumDirectBits(slot) - 1
  BY <1>1, <1>2 DEF SlotEnd
<1>4. PICK bits \in BitStrings(NumDirectBits(slot)) : MoreBits(slot, bits) = v - SlotBase(slot)
  BY <1>3, MoreBitsOnto
<1>5. <<slot, bits>> \in DistanceCodes
  BY DEF DistanceCodes
<1>6. Code(<<slot, bits>>) = v
  BY <1>2, <1>4 DEF Code
<1> QED
  BY <1>5, <1>6

(* Adding one, with the wrap to 0, only turns the numbers round. *)
LEMMA Turned ==
  ASSUME NEW m \in Nat \ {0}, NEW x \in 0..m - 1
  PROVE  (x + 1) % m = IF x = m - 1 THEN 0 ELSE x + 1
<1>1. CASE x = m - 1
  BY <1>1
<1>2. CASE x # m - 1
  BY <1>2
<1> QED
  BY <1>1, <1>2

LEMMA DistanceOf ==
  ASSUME NEW c \in DistanceCodes
  PROVE  Distance(c[1], c[2]) = IF Code(c) = UInt32 - 1 THEN 0 ELSE Code(c) + 1
<1>1. UInt32 \in Nat \ {0} /\ Code(c) \in 0..UInt32 - 1
  BY WidthOK, CodeOf
<1>2. Distance(c[1], c[2]) = (Code(c) + 1) % UInt32
  BY DEF Distance, Code
<1> QED
  BY <1>1, <1>2, Turned

LEMMA AllDistances ==
  /\ DistanceSymbols = 0..UInt32 - 1
  /\ IsFiniteSet(DistanceCodes) /\ Cardinality(DistanceCodes) = UInt32
<1>1. UInt32 \in Nat \ {0}
  BY WidthOK
<1>2. ASSUME NEW d \in 0..UInt32 - 1 PROVE \E c \in DistanceCodes : Distance(c[1], c[2]) = d
  <2> DEFINE v == IF d = 0 THEN UInt32 - 1 ELSE d - 1
  <2>1. v \in 0..UInt32 - 1 /\ d = IF v = UInt32 - 1 THEN 0 ELSE v + 1
    BY <1>1
  <2> HIDE DEF v
  <2>2. PICK c \in DistanceCodes : Code(c) = v
    BY <2>1, CodeOnto
  <2> QED BY <2>1, <2>2, DistanceOf
<1>3. DistanceSymbols = 0..UInt32 - 1
  BY <1>2, DistanceRange DEF DistanceSymbols
<1> DEFINE F == [c \in DistanceCodes |-> Code(c)]
<1>4. F \in [DistanceCodes -> 0..UInt32 - 1]
  BY CodeOf
<1>5. \A c, d \in DistanceCodes : F[c] = F[d] => c = d
  BY CodeOnce
<1>6. \A v \in 0..UInt32 - 1 : \E c \in DistanceCodes : F[c] = v
  BY CodeOnto
<1>7. F \in Injection(DistanceCodes, 0..UInt32 - 1) /\ F \in Surjection(DistanceCodes, 0..UInt32 - 1)
  <2> HIDE DEF F
  <2> QED BY <1>4, <1>5, <1>6 DEF Injection, Surjection, IsInjective
<1>8. IsFiniteSet(0..UInt32 - 1) /\ Cardinality(0..UInt32 - 1) = UInt32
  <2>1. 0 \in Int /\ UInt32 - 1 \in Int /\ ~(0 > UInt32 - 1) /\ UInt32 - 1 - 0 + 1 = UInt32
    BY <1>1
  <2> QED BY <2>1, FS_Interval
<1>9. IsFiniteSet(DistanceCodes) /\ Cardinality(DistanceCodes) = UInt32
  <2> HIDE DEF F
  <2> QED BY <1>7, <1>8, FS_Injection
<1> QED
  BY <1>3, <1>9

-----------------------------------------------------------------------------
(* Where the tables are. *)
LEMMA Tables ==
  /\ IsMatch = 0 /\ IsRep = 192 /\ IsRepG0 = 204 /\ IsRepG1 = 216 /\ IsRepG2 = 228
  /\ IsRep0Long = 240 /\ PosSlot = 432
  /\ SpecPos = 432 + 4 * 2^kNumPosSlotBits /\ SpecPos \in Nat
  /\ Align = SpecPos + 114 /\ LenCoder = SpecPos + 130
  /\ kNumLenProbs = 514
  /\ RepLenCoder = LenCoder + 514 /\ Literal = RepLenCoder + 514
<1>1. 2^kNumPosSlotBits \in Nat
  BY WidthOK
<1>2. /\ IsMatch = 0 /\ IsRep = 192 /\ IsRepG0 = 204 /\ IsRepG1 = 216 /\ IsRepG2 = 228
      /\ IsRep0Long = 240 /\ PosSlot = 432
  BY DEF IsMatch, IsRep, IsRepG0, IsRepG1, IsRepG2, IsRep0Long, PosSlot, kNumStates
<1>3. SpecPos = 432 + 4 * 2^kNumPosSlotBits /\ SpecPos \in Nat
  BY <1>1, <1>2 DEF SpecPos, kNumLenToPosStates
<1>4. Align = SpecPos + 114
  BY <1>3 DEF Align, kNumFullDistances, kEndPosModelIndex
<1>5. 2^kNumAlignBits = 16
  BY DEF kNumAlignBits
<1>6. LenCoder = SpecPos + 130
  BY <1>3, <1>4, <1>5 DEF LenCoder
<1>7. kNumLenProbs = 514
  BY DEF kNumLenProbs, LenHigh, LenMid, LenLow, LenChoice2, LenChoice, kNumPosStatesMax
<1> QED
  BY <1>2, <1>3, <1>4, <1>6, <1>7 DEF RepLenCoder, Literal

(* Moved by what is added, an interval stays one. *)
LEMMA AtInside ==
  ASSUME NEW place \in Int, NEW lo \in Int, NEW hi \in Int, NEW places, places \subseteq lo..hi
  PROVE  At(place, places) \subseteq place + lo..place + hi
<1> SUFFICES ASSUME NEW p \in places PROVE place + p \in place + lo..place + hi
  BY DEF At
<1>1. p \in lo..hi
  OBVIOUS
<1> QED
  BY <1>1

(* The paths of a length, which has three or eight bits. *)
LEMMA LengthPaths ==
  /\ \A bits \in Bits3 : Path(bits) \subseteq 1..7
  /\ \A bits \in Bits8 : Path(bits) \subseteq 1..255
<1>1. Bits3 \subseteq BitStrings(3) /\ Bits8 \subseteq BitStrings(8)
  BY BitsAssumption DEF BitStrings
<1>2. 3 \in 0..31 /\ 8 \in 0..31 /\ 2^3 - 1 = 7 /\ 2^8 - 1 = 255
  OBVIOUS
<1>3. ASSUME NEW bits \in Bits3 PROVE Path(bits) \subseteq 1..7
  <2>0. bits \in BitStrings(3)
    BY <1>1
  <2>1. Path(bits) \subseteq 1..2^3 - 1
    BY <1>2, <2>0, PathInside
  <2> QED BY <1>2, <2>1
<1>4. ASSUME NEW bits \in Bits8 PROVE Path(bits) \subseteq 1..255
  <2>0. bits \in BitStrings(8)
    BY <1>1
  <2>1. Path(bits) \subseteq 1..2^8 - 1
    BY <1>2, <2>0, PathInside
  <2> QED BY <1>2, <2>1
<1> QED
  BY <1>3, <1>4

LEMMA LengthPlaces ==
  ASSUME NEW p \in Nat, NEW q \in 0..15, NEW length \in LenDecode(p, q)
  PROVE  length.used \subseteq p..p + 513
<1>1. /\ LenChoice = 0 /\ LenChoice2 = 1 /\ LenLow = 2 /\ LenMid = 130 /\ LenHigh = 258
  BY DEF LenChoice, LenChoice2, LenLow, LenMid, LenHigh, kNumPosStatesMax
<1>2. ASSUME NEW bits \in Bits3, NEW b \in {LenLow, LenMid}
      PROVE  At(p + b + 8 * q, Path(bits)) \subseteq p..p + 513
  <2>1. p + b + 8 * q \in Int /\ p + b + 8 * q + 1 >= p /\ p + b + 8 * q + 7 <= p + 513
    BY <1>1
  <2>2. At(p + b + 8 * q, Path(bits)) \subseteq p + b + 8 * q + 1..p + b + 8 * q + 7
    <3> DEFINE place == p + b + 8 * q
    <3>1. place \in Int /\ Path(bits) \subseteq 1..7 /\ 1 \in Int /\ 7 \in Int
      BY <2>1, LengthPaths
    <3> HIDE DEF place
    <3>2. At(place, Path(bits)) \subseteq place + 1..place + 7
      BY <3>1, AtInside
    <3> QED BY <3>2 DEF place
  <2> QED BY <2>1, <2>2
<1>3. ASSUME NEW bits \in Bits8 PROVE At(p + LenHigh, Path(bits)) \subseteq p..p + 513
  <2> DEFINE place == p + LenHigh
  <2>1. place \in Int /\ Path(bits) \subseteq 1..255 /\ 1 \in Int /\ 255 \in Int
    BY <1>1, LengthPaths
  <2>2. place = p + 258
    BY <1>1
  <2> HIDE DEF place
  <2>3. At(place, Path(bits)) \subseteq place + 1..place + 255
    BY <2>1, AtInside
  <2>4. At(place, Path(bits)) \subseteq p..p + 513
    BY <2>2, <2>3
  <2> QED BY <2>4 DEF place
<1>4. p + LenChoice \in p..p + 513 /\ p + LenChoice2 \in p..p + 513
  BY <1>1
<1> HIDE DEF LenChoice
<1>5. \/ \E bits \in Bits3 : length.used = {p + LenChoice} \cup At(p + LenLow + 8 * q, Path(bits))
      \/ \E bits \in Bits3 : length.used = {p + LenChoice, p + LenChoice2}
                                             \cup At(p + LenMid + 8 * q, Path(bits))
      \/ \E bits \in Bits8 : length.used = {p + LenChoice, p + LenChoice2}
                                             \cup At(p + LenHigh, Path(bits))
  BY DEF LenDecode
<1> QED
  BY <1>2, <1>3, <1>4, <1>5

(* The tree of the slots. *)
LEMMA SlotPlaces ==
  ASSUME NEW c \in LenClasses, NEW slot \in Slots
  PROVE  SlotPath(c, slot) \subseteq PosSlot..SpecPos - 1
<1> DEFINE K == 2^kNumPosSlotBits
           place == PosSlot + c * K
<1>1. kNumPosSlotBits \in 0..31 /\ K \in {16, 32, 64} /\ c \in 0..3 /\ slot \in 0..K - 1
  BY WidthOK DEF Slots, LenClasses, kNumLenToPosStates
<1>2. SlotBits(slot) \in BitStrings(kNumPosSlotBits)
  <2>1. \E bits \in BitStrings(kNumPosSlotBits) : BitTreeDecode(bits) = slot
    BY <1>1, BitTreeOnto
  <2> QED BY <2>1 DEF SlotBits
<1>3. Path(SlotBits(slot)) \subseteq 1..K - 1
  BY <1>1, <1>2, PathInside
<1> HIDE DEF K
<1>4. place = 432 + c * K /\ SpecPos = 432 + 4 * K
  BY Tables DEF K
<1>5. SlotPath(c, slot) = At(place, Path(SlotBits(slot)))
  BY DEF SlotPath, K
<1>6. place \in Int /\ place >= 432 /\ place + K <= 432 + 4 * K /\ K - 1 \in Int
  <2>1. CASE K = 16
    BY <1>1, <1>4, <2>1
  <2>2. CASE K = 32
    BY <1>1, <1>4, <2>2
  <2>3. CASE K = 64
    BY <1>1, <1>4, <2>3
  <2> QED BY <1>1, <2>1, <2>2, <2>3
<1> HIDE DEF place
<1>7. At(place, Path(SlotBits(slot))) \subseteq place + 1..place + (K - 1)
  BY <1>3, <1>6, AtInside
<1> QED
  BY <1>1, <1>4, <1>5, <1>6, <1>7, Tables

-----------------------------------------------------------------------------
(* The trees of the slots from 4 to 13 follow each other: Place is where   *)
(* that of a slot begins.                                                  *)
Place(slot) == SlotBase(slot) - slot

LEMMA NearSlots ==
  /\ NumDirectBits(4) = 1 /\ NumDirectBits(5) = 1 /\ NumDirectBits(6) = 2 /\ NumDirectBits(7) = 2
  /\ NumDirectBits(8) = 3 /\ NumDirectBits(9) = 3 /\ NumDirectBits(10) = 4
  /\ NumDirectBits(11) = 4 /\ NumDirectBits(12) = 5 /\ NumDirectBits(13) = 5
  /\ SlotBase(4) = 4 /\ SlotBase(5) = 6 /\ SlotBase(6) = 8 /\ SlotBase(7) = 12
  /\ SlotBase(8) = 16 /\ SlotBase(9) = 24 /\ SlotBase(10) = 32 /\ SlotBase(11) = 48
  /\ SlotBase(12) = 64 /\ SlotBase(13) = 96
<1>1. /\ NumDirectBits(4) = 1 /\ NumDirectBits(5) = 1 /\ NumDirectBits(6) = 2
      /\ NumDirectBits(7) = 2 /\ NumDirectBits(8) = 3 /\ NumDirectBits(9) = 3
      /\ NumDirectBits(10) = 4 /\ NumDirectBits(11) = 4 /\ NumDirectBits(12) = 5
      /\ NumDirectBits(13) = 5
  BY DEF NumDirectBits, kStartPosModelIndex
<1>2. 2^1 = 2 /\ 2^2 = 4 /\ 2^3 = 8 /\ 2^4 = 16 /\ 2^5 = 32
  OBVIOUS
<1>3. ASSUME NEW slot \in 4..13, NEW n \in 1..5, NumDirectBits(slot) = n,
             NEW b \in {0, 1}, slot % 2 = b, NEW p \in Nat, 2^n = p
      PROVE  SlotBase(slot) = (2 + b) * p
  BY <1>3 DEF SlotBase, kStartPosModelIndex
<1>4. SlotBase(4) = 4 /\ SlotBase(6) = 8 /\ SlotBase(8) = 16 /\ SlotBase(10) = 32
      /\ SlotBase(12) = 64
  BY <1>1, <1>2, <1>3
<1>5. SlotBase(5) = 6 /\ SlotBase(7) = 12 /\ SlotBase(9) = 24 /\ SlotBase(11) = 48
      /\ SlotBase(13) = 96
  BY <1>1, <1>2, <1>3
<1> QED
  BY <1>1, <1>4, <1>5

LEMMA NearPlaces ==
  ASSUME NEW slot \in 4..13
  PROVE  /\ Place(slot) \in 0..113
         /\ Place(slot) + 2^NumDirectBits(slot) - 2 \in 0..113
         /\ \A later \in 4..13 : slot < later => Place(slot) + 2^NumDirectBits(slot) - 2 < Place(later)
<1>1. 2^1 = 2 /\ 2^2 = 4 /\ 2^3 = 8 /\ 2^4 = 16 /\ 2^5 = 32
  OBVIOUS
<1>2. slot = 4 \/ slot = 5 \/ slot = 6 \/ slot = 7 \/ slot = 8 \/ slot = 9 \/ slot = 10 \/ slot = 11
      \/ slot = 12 \/ slot = 13
  OBVIOUS
<1>3. /\ Place(4) = 0 /\ Place(5) = 1 /\ Place(6) = 2 /\ Place(7) = 5 /\ Place(8) = 8
      /\ Place(9) = 15 /\ Place(10) = 22 /\ Place(11) = 37 /\ Place(12) = 52 /\ Place(13) = 83
  BY NearSlots DEF Place
<1> DEFINE last(s) == Place(s) + 2^NumDirectBits(s) - 2
<1>4. /\ last(4) = 0 /\ last(5) = 1 /\ last(6) = 4 /\ last(7) = 7 /\ last(8) = 14
      /\ last(9) = 21 /\ last(10) = 36 /\ last(11) = 51 /\ last(12) = 82 /\ last(13) = 113
  <2>1. \A s \in 4..13, k \in 1..5 : NumDirectBits(s) = k => last(s) = Place(s) + 2^k - 2
    OBVIOUS
  <2> HIDE DEF last
  <2>2. last(4) = Place(4) + 2^1 - 2 /\ last(5) = Place(5) + 2^1 - 2
    BY <2>1, NearSlots
  <2>3. last(6) = Place(6) + 2^2 - 2 /\ last(7) = Place(7) + 2^2 - 2
    BY <2>1, NearSlots
  <2>4. last(8) = Place(8) + 2^3 - 2 /\ last(9) = Place(9) + 2^3 - 2
    BY <2>1, NearSlots
  <2>5. last(10) = Place(10) + 2^4 - 2 /\ last(11) = Place(11) + 2^4 - 2
    BY <2>1, NearSlots
  <2>6. last(12) = Place(12) + 2^5 - 2 /\ last(13) = Place(13) + 2^5 - 2
    BY <2>1, NearSlots
  <2> QED BY <1>3, <2>2, <2>3, <2>4, <2>5, <2>6
<1> HIDE DEF last
<1>5. Place(slot) \in 0..113 /\ last(slot) \in 0..113
  BY <1>2, <1>3, <1>4
<1>6. ASSUME NEW later \in 4..13, slot < later PROVE last(slot) < Place(later)
  <2>1. later = 4 \/ later = 5 \/ later = 6 \/ later = 7 \/ later = 8 \/ later = 9 \/ later = 10
        \/ later = 11 \/ later = 12 \/ later = 13
    OBVIOUS
  <2> QED BY <1>2, <1>3, <1>4, <1>6, <2>1
<1> QED
  BY <1>5, <1>6 DEF last

(* What may follow a slot below 4, from 4 to 13, and from 14 on. *)
LEMMA DistanceTables ==
  ASSUME NEW slot \in Slots
  PROVE  /\ slot < 4 => DistancePlaces[slot] = {}
         /\ slot \in 4..13 =>
              DistancePlaces[slot] \subseteq
                SpecPos + Place(slot)..SpecPos + (Place(slot) + 2^NumDirectBits(slot) - 2)
         /\ slot > 13 => DistancePlaces[slot] \subseteq Align..LenCoder - 1
<1> DEFINE n == NumDirectBits(slot)
<1>1. slot \in 0..63 /\ n \in 0..31 /\ 2^n \in Nat \ {0} /\ SlotBase(slot) \in Nat
  <2>1. slot \in 0..63 /\ n \in 0..30 /\ 2^n \in Nat \ {0} /\ SlotBase(slot) \in Nat
    BY SlotsOK
  <2> QED BY <2>1
<1>2. SpecPos \in Nat
  BY Tables
<1>3. DistancePlaces[slot] = UNION {DistancePath(slot, bits) : bits \in BitStrings(n)}
  BY DEF DistancePlaces
<1>4. CASE slot < 4
  <2>1. \A bits \in BitStrings(n) : DistancePath(slot, bits) = {}
    BY <1>1, <1>4 DEF DistancePath, kStartPosModelIndex, kEndPosModelIndex
  <2> QED BY <1>1, <1>3, <1>4, <2>1
<1>5. CASE slot \in 4..13
  <2> DEFINE place == SpecPos + SlotBase(slot) - slot - 1
             last == Place(slot) + 2^n - 2
  <2>1. place \in Int /\ place + 1 = SpecPos + Place(slot) /\ place + (2^n - 1) = SpecPos + last
        /\ 2^n - 1 \in Int
    BY <1>1, <1>2 DEF Place
  <2>2. ASSUME NEW bits \in BitStrings(n)
        PROVE  DistancePath(slot, bits) \subseteq SpecPos + Place(slot)..SpecPos + last
    <3>1. DistancePath(slot, bits) = At(place, Path(bits))
      BY <1>5 DEF DistancePath, kStartPosModelIndex, kEndPosModelIndex
    <3>2. Path(bits) \subseteq 1..2^n - 1
      BY <1>1, PathInside
    <3> HIDE DEF place, n, last
    <3>3. At(place, Path(bits)) \subseteq place + 1..place + (2^n - 1)
      BY <2>1, <3>2, AtInside
    <3> QED BY <2>1, <3>1, <3>3
  <2>3. DistancePlaces[slot] \subseteq SpecPos + Place(slot)..SpecPos + last
    <3> HIDE DEF n, last
    <3> QED BY <1>3, <2>2
  <2> QED BY <1>5, <2>3
<1>6. CASE slot > 13
  <2>1. n \in 4..30
    <3>1. n \in 0..30 /\ n >= 6
      BY <1>1, <1>6, SlotsOK DEF kEndPosModelIndex
    <3> QED BY <3>1
  <2>2. ASSUME NEW bits \in BitStrings(n) PROVE DistancePath(slot, bits) \subseteq Align..LenCoder - 1
    <3>1. DistancePath(slot, bits) = At(Align, Path(AlignPart(bits)))
      BY <1>1, <1>6 DEF DistancePath, kStartPosModelIndex, kEndPosModelIndex
    <3>2. AlignPart(bits) \in BitStrings(4)
      <4> HIDE DEF n
      <4> QED BY <2>1, AlignSplit
    <3>3. Path(AlignPart(bits)) \subseteq 1..15
      <4>1. 4 \in 0..31 /\ 2^4 - 1 = 15
        OBVIOUS
      <4>2. Path(AlignPart(bits)) \subseteq 1..2^4 - 1
        BY <3>2, <4>1, PathInside
      <4> QED BY <4>1, <4>2
    <3>4. Align \in Int /\ LenCoder - 1 = Align + 15 /\ 1 \in Int /\ 15 \in Int
      BY Tables
    <3>5. At(Align, Path(AlignPart(bits))) \subseteq Align + 1..Align + 15
      BY <3>3, <3>4, AtInside
    <3> QED BY <3>1, <3>4, <3>5
  <2>3. DistancePlaces[slot] \subseteq Align..LenCoder - 1
    <3> HIDE DEF n
    <3> QED BY <1>3, <2>2
  <2> QED BY <1>1, <1>6, <2>3
<1>7. slot < 4 \/ slot \in 4..13 \/ slot > 13
  BY <1>1
<1> HIDE DEF Place
<1> QED
  BY <1>4, <1>5, <1>6, <1>7

LEMMA DistancesApart ==
  /\ \A slot \in Slots :
       DistancePlaces[slot] \subseteq
         IF slot < kEndPosModelIndex THEN SpecPos..Align - 1 ELSE Align..LenCoder - 1
  /\ \A s \in 0..kEndPosModelIndex - 1, t \in Slots :
       s # t => DistancePlaces[s] \cap DistancePlaces[t] = {}
<1>1. SpecPos \in Nat /\ Align = SpecPos + 114 /\ kEndPosModelIndex = 14
  BY Tables DEF kEndPosModelIndex
<1>2. \A slot \in Slots : slot \in 0..63
  BY SlotsOK
<1>3. ASSUME NEW slot \in Slots, slot < 14 PROVE DistancePlaces[slot] \subseteq SpecPos..Align - 1
  <2>1. CASE slot < 4
    BY <2>1, DistanceTables
  <2>2. CASE slot \in 4..13
    <3> DEFINE last == Place(slot) + 2^NumDirectBits(slot) - 2
    <3>1. Place(slot) \in 0..113 /\ last \in 0..113
      BY <2>2, NearPlaces
    <3>2. DistancePlaces[slot] \subseteq SpecPos + Place(slot)..SpecPos + last
      BY <2>2, DistanceTables
    <3> HIDE DEF last
    <3> QED BY <1>1, <3>1, <3>2
  <2> QED BY <1>2, <1>3, <2>1, <2>2
<1>4. ASSUME NEW slot \in Slots, ~(slot < 14)
      PROVE  DistancePlaces[slot] \subseteq Align..LenCoder - 1
  BY <1>2, <1>4, DistanceTables
<1>5. ASSUME NEW s \in 4..13, NEW t \in 4..13, s \in Slots, t \in Slots, s < t
      PROVE  DistancePlaces[s] \cap DistancePlaces[t] = {}
  <2> DEFINE last(u) == Place(u) + 2^NumDirectBits(u) - 2
  <2>1. /\ DistancePlaces[s] \subseteq SpecPos + Place(s)..SpecPos + last(s)
        /\ DistancePlaces[t] \subseteq SpecPos + Place(t)..SpecPos + last(t)
    BY <1>5, DistanceTables
  <2>2. last(s) < Place(t) /\ last(s) \in 0..113 /\ Place(s) \in 0..113 /\ Place(t) \in 0..113
        /\ last(t) \in 0..113
    BY <1>5, NearPlaces
  <2> HIDE DEF last
  <2> SUFFICES ASSUME NEW x \in DistancePlaces[s], x \in DistancePlaces[t] PROVE FALSE
    OBVIOUS
  <2>3. x \in SpecPos + Place(s)..SpecPos + last(s) /\ x \in SpecPos + Place(t)..SpecPos + last(t)
    BY <2>1
  <2> QED BY <1>1, <2>2, <2>3
<1>6. ASSUME NEW s \in 0..13, NEW t \in Slots, s # t
      PROVE  DistancePlaces[s] \cap DistancePlaces[t] = {}
  <2>1. s \in Slots /\ t \in 0..63
    BY <1>2, WidthOK DEF Slots
  <2>2. CASE s < 4 \/ t < 4
    BY <2>1, <2>2, DistanceTables
  <2>3. CASE s \in 4..13 /\ t \in 4..13
    <3>1. s < t \/ t < s
      BY <1>6, <2>3
    <3> QED BY <1>5, <2>1, <2>3, <3>1
  <2>4. CASE t > 13
    <3>1. DistancePlaces[s] \subseteq SpecPos..Align - 1
      BY <1>3, <2>1
    <3>2. DistancePlaces[t] \subseteq Align..LenCoder - 1
      BY <2>1, <2>4, DistanceTables
    <3> SUFFICES ASSUME NEW x \in DistancePlaces[s], x \in DistancePlaces[t] PROVE FALSE
      OBVIOUS
    <3>3. x \in SpecPos..Align - 1 /\ x \in Align..LenCoder - 1
      BY <3>1, <3>2
    <3> QED BY <1>1, <3>3
  <2> QED BY <2>1, <2>2, <2>3, <2>4
<1> QED
  BY <1>1, <1>2, <1>3, <1>4, <1>6

-----------------------------------------------------------------------------
(* The tables of the literals. *)
(* 2^n for a sum of exponents such as those of the literals. *)
LEMMA PowerSum ==
  ASSUME NEW a \in 0..8, NEW b \in 0..4
  PROVE  2^(a + b) = 2^a * 2^b /\ 2^a \in Nat \ {0} /\ 2^b \in Nat \ {0}
<1>1. Doubles(a) /\ Doubles(a + 1) /\ Doubles(a + 2) /\ Doubles(a + 3) /\ Doubles(a + 4)
  <2>1. a \in 0..31 /\ a + 1 \in 0..31 /\ a + 2 \in 0..31 /\ a + 3 \in 0..31 /\ a + 4 \in 0..31
    OBVIOUS
  <2> QED BY <2>1, Powers
<1>2. /\ 2^a \in Nat \ {0} /\ 2^(a + 1) = 2 * 2^a /\ 2^(a + 2) = 2 * 2^(a + 1)
      /\ 2^(a + 3) = 2 * 2^(a + 2) /\ 2^(a + 4) = 2 * 2^(a + 3)
  <2>1. a + 1 + 1 = a + 2 /\ a + 2 + 1 = a + 3 /\ a + 3 + 1 = a + 4
    OBVIOUS
  <2> QED BY <1>1, <2>1 DEF Doubles
<1>3. b = 0 \/ b = 1 \/ b = 2 \/ b = 3 \/ b = 4
  OBVIOUS
<1>4. 2^0 = 1 /\ 2^1 = 2 /\ 2^2 = 4 /\ 2^3 = 8 /\ 2^4 = 16
  OBVIOUS
<1>5. CASE b = 0
  <2>1. a + b = a /\ 2^b = 1
    BY <1>4, <1>5
  <2> QED BY <1>2, <2>1
<1>6. CASE b = 1
  <2>1. 2^b = 2
    BY <1>4, <1>6
  <2> QED BY <1>2, <1>6, <2>1
<1>7. CASE b = 2
  <2>1. 2^b = 4
    BY <1>4, <1>7
  <2> QED BY <1>2, <1>7, <2>1
<1>8. CASE b = 3
  <2>1. 2^b = 8
    BY <1>4, <1>8
  <2> QED BY <1>2, <1>8, <2>1
<1>9. CASE b = 4
  <2>1. 2^b = 16
    BY <1>4, <1>9
  <2> QED BY <1>2, <1>9, <2>1
<1> QED
  BY <1>3, <1>5, <1>6, <1>7, <1>8, <1>9

(* The lc highest bits of a byte. *)
LEMMA TopBits ==
  ASSUME NEW b \in 0..255, NEW n \in 0..8
  PROVE  b \div 2^(8 - n) \in 0..2^n - 1
<1>1. /\ 2^0 = 1 /\ 2^1 = 2 /\ 2^2 = 4 /\ 2^3 = 8 /\ 2^4 = 16 /\ 2^5 = 32 /\ 2^6 = 64 /\ 2^7 = 128
      /\ 2^8 = 256
  OBVIOUS
<1>2. n = 0 \/ n = 1 \/ n = 2 \/ n = 3 \/ n = 4 \/ n = 5 \/ n = 6 \/ n = 7 \/ n = 8
  OBVIOUS
<1>3. CASE n = 0
  BY <1>1, <1>3
<1>4. CASE n = 1
  BY <1>1, <1>4
<1>5. CASE n = 2
  BY <1>1, <1>5
<1>6. CASE n = 3
  BY <1>1, <1>6
<1>7. CASE n = 4
  BY <1>1, <1>7
<1>8. CASE n = 5
  BY <1>1, <1>8
<1>9. CASE n = 6
  BY <1>1, <1>9
<1>10. CASE n = 7
  BY <1>1, <1>10
<1>11. CASE n = 8
  BY <1>1, <1>11
<1> QED
  BY <1>2, <1>3, <1>4, <1>5, <1>6, <1>7, <1>8, <1>9, <1>10, <1>11

LEMMA Remainder ==
  ASSUME NEW x \in Nat, NEW m \in Nat \ {0}
  PROVE  x % m \in 0..m - 1
OBVIOUS

LEMMA Rows ==
  ASSUME NEW m \in Nat \ {0}, NEW n \in Nat \ {0}, NEW x \in 0..m - 1, NEW y \in 0..n - 1
  PROVE  x * n + y \in 0..n * m - 1
<1>1. x * n \in Nat /\ (m - 1) * n \in Int /\ n * m \in Int
  OBVIOUS
<1>2. x * n <= (m - 1) * n
  OBVIOUS
<1>3. (m - 1) * n = n * m - n
  OBVIOUS
<1> QED
  BY <1>1, <1>2, <1>3

(* What a literal uses lies in the 768 places of its table. *)
LEMMA PlainPlaces ==
  ASSUME NEW bits \in Bits8
  PROVE  \A p \in LiteralDecode(bits).used : p \in 0..767
<1>1. LiteralDecode(bits).used = Path(bits)
  BY DEF LiteralDecode
<1> QED
  BY <1>1, LengthPaths

LEMMA MatchPlaces ==
  ASSUME NEW bits \in Bits8, NEW b \in 0..255
  PROVE  \A p \in LiteralDecodeMatch(bits, b).used : p \in 0..767
<1>1. Len(bits) = 8
  <2>1. bits \in BitStrings(8) /\ 8 \in Nat
    BY BitsAssumption DEF BitStrings
  <2> QED BY <2>1, BitSequence
<1>2. \A i \in 1..8 : Mi(bits)[i - 1] \in 1..255
  <2> SUFFICES ASSUME NEW i \in 1..8 PROVE Mi(bits)[i - 1] \in 1..255
    OBVIOUS
  <2>1. i - 1 \in 0..8 - 1
    OBVIOUS
  <2>2. Mi(bits)[i - 1] \in Path(bits)
    BY <1>1, <2>1 DEF Path
  <2> QED BY <2>2, LengthPaths
<1>3. \A i \in 1..8 : MatchBit(b, i) \in {0, 1}
  <2> SUFFICES ASSUME NEW i \in 1..8 PROVE MatchBit(b, i) \in {0, 1}
    OBVIOUS
  <2>1. 8 - i \in 0..31
    OBVIOUS
  <2>2. 2^(8 - i) \in Nat \ {0}
    BY <2>1, Powers DEF Doubles
  <2>3. \A m \in Nat \ {0} : b \div m \in Nat
    OBVIOUS
  <2>4. \A x \in Nat : x % 2 \in {0, 1}
    OBVIOUS
  <2> QED BY <2>2, <2>3, <2>4, Zenon DEF MatchBit
<1>4. LiteralDecodeMatch(bits, b).used \subseteq 0..767
  <2> DEFINE place(i) == IF Agrees(bits, b, i - 1)
                           THEN 256 * (1 + MatchBit(b, i)) + Mi(bits)[i - 1]
                           ELSE Mi(bits)[i - 1]
  <2>1. \A x \in 1..255, p \in {0, 1} : x \in 0..767 /\ 256 * (1 + p) + x \in 0..767
    OBVIOUS
  <2>2. ASSUME NEW i \in 1..8 PROVE place(i) \in 0..767
    <3>1. Mi(bits)[i - 1] \in 0..767 /\ 256 * (1 + MatchBit(b, i)) + Mi(bits)[i - 1] \in 0..767
      <4>1. Mi(bits)[i - 1] \in 1..255
        BY <1>2
      <4>2. MatchBit(b, i) \in {0, 1}
        BY <1>3
      <4> DEFINE x == Mi(bits)[i - 1]
                 p == MatchBit(b, i)
      <4>3. x \in 1..255 /\ p \in {0, 1}
        BY <4>1, <4>2
      <4> HIDE DEF x, p
      <4>4. x \in 0..767 /\ 256 * (1 + p) + x \in 0..767
        BY <4>3
      <4> QED BY <4>4 DEF x, p
    <3>2. CASE Agrees(bits, b, i - 1)
      BY <3>1, <3>2, Zenon
    <3>3. CASE ~Agrees(bits, b, i - 1)
      BY <3>1, <3>3, Zenon
    <3> QED BY <3>2, <3>3
  <2>3. LiteralDecodeMatch(bits, b).used = {place(i) : i \in 1..8}
    BY DEF LiteralDecodeMatch
  <2> HIDE DEF place
  <2> QED BY <2>2, <2>3
<1> QED
  BY <1>4

-----------------------------------------------------------------------------
(* What LzmaDecode starts its loop with. *)
Fresh ==
  /\ out = <<>> /\ outSize = 0
  /\ state = 0 /\ previousIsMatch = FALSE /\ previousByte = 0
  /\ rep0 = 1 /\ rep1 = 1 /\ rep2 = 1 /\ rep3 = 1

(* The output is some sequence: of what does not matter. *)
OutIsSequence == \E S : out \in Seq(S)

Inv ==
  /\ OutIsSequence
  /\ outSize \in Nat
  /\ pc \in {"idle", "loop", "copy", "returned"}
  /\ pc = "idle" => Fresh
  /\ state \in 0..11
  /\ previousIsMatch \in BOOLEAN
  /\ WindowSafe /\ StatesAgree /\ PreviousByteFresh

-----------------------------------------------------------------------------
LEMMA LengthOfOut ==
  ASSUME OutIsSequence
  PROVE  nowPos \in Nat
<1>1. PICK S : out \in Seq(S)
  BY DEF OutIsSequence
<1> QED
  BY <1>1 DEF nowPos

(* A byte more, whatever it is. *)
LEMMA ByteAppended ==
  ASSUME OutIsSequence, NEW byte, out' = Append(out, byte)
  PROVE  /\ OutIsSequence'
         /\ nowPos' = nowPos + 1
         /\ out'[nowPos'] = byte
<1>1. PICK S : out \in Seq(S)
  BY DEF OutIsSequence
<1>2. out \in Seq(S \cup {byte}) /\ byte \in S \cup {byte}
  BY <1>1
<1>3. out' \in Seq(S \cup {byte}) /\ Len(out') = Len(out) + 1 /\ out'[Len(out) + 1] = byte
  BY <1>2
<1> QED
  BY <1>3 DEF OutIsSequence, nowPos

(* A return changes nothing that the invariant still speaks of. *)
LEMMA Returned ==
  ASSUME Inv, NEW value, NEW written, Return(value, written)
  PROVE  Inv'
BY DEF Inv, Return, params, locals, reps, OutIsSequence, Running, WindowSafe, StatesAgree,
       PreviousByteFresh

LEMMA InitOK == Init => Inv
<1> SUFFICES ASSUME Init PROVE Inv
  OBVIOUS
<1>1. out \in Seq({})
  BY DEF Init
<1>2. OutIsSequence
  BY <1>1 DEF OutIsSequence
<1>3. Fresh /\ pc = "idle" /\ ~Running
  BY DEF Init, Fresh, Running
<1>4. outSize \in Nat /\ state \in 0..11
  BY <1>3, SMT DEF Fresh
<1>5. previousIsMatch \in BOOLEAN
  BY <1>3, Zenon DEF Fresh
<1> QED
  BY <1>2, <1>3, <1>4, <1>5, Zenon DEF Inv, WindowSafe, StatesAgree, PreviousByteFresh

(* Whatever the header, the loop starts with nothing written. *)
LEMMA StartOK ==
  ASSUME Inv, pc = "idle", NEW bufferSize, Start(bufferSize), outSize' \in Nat,
         UNCHANGED locals
  PROVE  Inv'
<1>1. Fresh /\ pc' \in {"returned", "loop"}
  BY DEF Inv, Start
<1>2. OutIsSequence' /\ nowPos' = 0
  BY <1>1 DEF Inv, OutIsSequence, Fresh, nowPos, locals
<1> QED
  BY <1>1, <1>2 DEF Inv, Fresh, locals, reps, Running, WindowSafe, StatesAgree, PreviousByteFresh

LEMMA CallOK ==
  ASSUME Inv, Call
  PROVE  Inv'
<1>1. PICK prop0 \in Prop0s, size \in OutSizes :
        \/ un7zip(prop0, size)
        \/ \E bufferSize \in {0, lzmaInternalSize(12)} : LzmaDecode(prop0, size, bufferSize)
  BY DEF Call
<1>2. size \in Nat
  BY HeaderAssumption
<1>3. CASE un7zip(prop0, size)
  <2>1. CASE prop0 >= 9 * 5 * 5
    <3>1. pc' = "returned" /\ UNCHANGED <<outSize, locals>>
      BY <1>3, <2>1, HeaderAssumption DEF un7zip
    <3> QED
      BY <3>1 DEF Inv, locals, OutIsSequence, Running, WindowSafe, StatesAgree, PreviousByteFresh
  <2>2. CASE ~(prop0 >= 9 * 5 * 5)
    <3>1. /\ pc = "idle" /\ outSize' = size /\ UNCHANGED locals
          /\ Start(lzmaInternalSize(lc' + lp'))
      BY <1>3, <2>2 DEF un7zip
    <3> QED
      BY <1>2, <3>1, StartOK
  <2> QED
    BY <2>1, <2>2
<1>4. ASSUME NEW bufferSize, LzmaDecode(prop0, size, bufferSize)
      PROVE  Inv'
  <2>1. pc = "idle" /\ outSize' = size /\ UNCHANGED locals /\ Start(bufferSize)
    BY <1>4 DEF LzmaDecode
  <2> QED
    BY <1>2, <2>1, StartOK
<1> QED
  BY <1>1, <1>3, <1>4

-----------------------------------------------------------------------------
(* The new state is below 7, as previousIsMatch becomes false. *)
LEMMA LiteralOK ==
  ASSUME Inv, DecodeLiteral
  PROVE  Inv'
<1>1. /\ OutIsSequence /\ outSize \in Nat /\ state \in 0..11
      /\ pc = "loop" /\ nowPos < outSize /\ nowPos \in Nat
      /\ WindowSafe
  BY LengthOfOut DEF Inv, DecodeLiteral, Turn
<1>2. /\ out' = Append(out, previousByte')
      /\ UNCHANGED <<pc, outSize, rep0, rep1, rep2, rep3>>
      /\ previousIsMatch' = FALSE
      /\ state' = IF state < 4 THEN 0 ELSE IF state < 10 THEN state - 3 ELSE state - 6
  BY DEF DecodeLiteral, params, reps
<1>3. OutIsSequence' /\ nowPos' = nowPos + 1 /\ out'[nowPos'] = previousByte'
  BY <1>1, <1>2, ByteAppended
<1>4. state' \in 0..6
  BY <1>1, <1>2
<1>5. WindowSafe'
  BY <1>1, <1>2, <1>3 DEF WindowSafe, Running
<1>6. StatesAgree' /\ PreviousByteFresh'
  BY <1>1, <1>2, <1>3, <1>4 DEF StatesAgree, PreviousByteFresh, Running
<1>7. outSize' \in Nat /\ pc' = "loop" /\ state' \in 0..11
  BY <1>1, <1>2, <1>4
<1>8. previousIsMatch' \in BOOLEAN
  BY <1>2, Zenon
<1>9. pc' \in {"idle", "loop", "copy", "returned"} /\ pc' # "idle"
  BY <1>7
<1> QED
  BY <1>3, <1>5, <1>6, <1>7, <1>8, <1>9, Zenon DEF Inv

LEMMA ShortRepOK ==
  ASSUME Inv, ShortRep
  PROVE  Inv'
<1>1. /\ OutIsSequence /\ outSize \in Nat /\ state \in 0..11
      /\ pc = "loop" /\ nowPos < outSize /\ nowPos \in Nat
      /\ WindowSafe
  BY LengthOfOut DEF Inv, ShortRep, Turn
<1>2. CASE nowPos = 0
  BY <1>2, Returned DEF ShortRep
<1>3. CASE nowPos # 0
  <2>1. /\ out' = Append(out, previousByte')
        /\ UNCHANGED <<pc, outSize, rep0, rep1, rep2, rep3>>
        /\ previousIsMatch' = TRUE
        /\ state' = IF state < 7 THEN 9 ELSE 11
    BY <1>3 DEF ShortRep, params, reps
  <2>2. OutIsSequence' /\ nowPos' = nowPos + 1 /\ out'[nowPos'] = previousByte'
    BY <1>1, <2>1, ByteAppended
  <2>3. state' \in 7..11
    BY <1>1, <2>1
  <2>4. WindowSafe'
    BY <1>1, <1>3, <2>1, <2>2 DEF WindowSafe, Running
  <2>5. StatesAgree' /\ PreviousByteFresh'
    BY <1>1, <2>1, <2>2, <2>3 DEF StatesAgree, PreviousByteFresh, Running
  <2> QED
    BY <1>1, <2>1, <2>2, <2>3, <2>4, <2>5 DEF Inv
<1> QED
  BY <1>2, <1>3

(* The new first distance is tested; the others are old ones. *)
LEMMA FoundOK ==
  ASSUME Inv, Turn,
         NEW newState \in 7..11, NEW length, NEW newReps,
         \A i \in 2..4 : newReps[i] \in {rep0, rep1, rep2, rep3},
         Found(newState, length, newReps)
  PROVE  Inv'
<1>1. /\ OutIsSequence /\ outSize \in Nat
      /\ pc = "loop" /\ nowPos < outSize /\ nowPos \in Nat
      /\ WindowSafe /\ PreviousByteFresh
  BY LengthOfOut DEF Inv, Turn
<1>2. CASE \E value, written : Return(value, written)
  BY <1>2, Returned
<1>3. CASE /\ newReps[1] \in 1..nowPos
           /\ state' = newState
           /\ previousIsMatch' = TRUE
           /\ rep0' = newReps[1] /\ rep1' = newReps[2] /\ rep2' = newReps[3] /\ rep3' = newReps[4]
           /\ pc' = "copy"
           /\ UNCHANGED <<params, previousByte, out>>
  <2>1. nowPos' = nowPos /\ OutIsSequence' /\ UNCHANGED <<outSize, out, previousByte>>
    BY <1>1, <1>3 DEF nowPos, OutIsSequence, params
  <2>2. \A i \in 2..4 : newReps[i] = 1 \/ newReps[i] \in 1..nowPos
    BY <1>1 DEF WindowSafe, Running
  <2>3. \A r \in {rep0', rep1', rep2', rep3'} : r = 1 \/ r \in 1..nowPos
    BY <1>3, <2>2
  <2>4. WindowSafe'
    BY <1>1, <1>3, <2>1, <2>3 DEF WindowSafe
  <2>5. StatesAgree' /\ PreviousByteFresh'
    BY <1>1, <1>3, <2>1 DEF StatesAgree, PreviousByteFresh, Running
  <2> QED
    BY <1>1, <1>3, <2>1, <2>4, <2>5 DEF Inv
<1> QED
  BY <1>2, <1>3 DEF Found

LEMMA MatchesOK ==
  ASSUME Inv, RepMatch \/ Match
  PROVE  Inv'
<1>0. state \in 0..11 /\ Turn
  BY DEF Inv, RepMatch, Match
<1>1. CASE RepMatch
  <2>1. PICK length \in Lengths(RepLenCoder), which \in 0..3 :
          Found(IF state < 7 THEN 8 ELSE 11, length, MovedToFront(which))
    BY <1>1 DEF RepMatch
  <2>2. \A i \in 2..4 : MovedToFront(which)[i] \in {rep0, rep1, rep2, rep3}
    BY DEF MovedToFront, reps
  <2> QED
    BY <1>0, <2>1, <2>2, FoundOK
<1>2. CASE Match
  <2>1. PICK length \in Lengths(LenCoder) :
          \E distance \in DistanceSymbols :
            Found(IF state < 7 THEN 7 ELSE 10, length, <<distance, rep0, rep1, rep2>>)
    BY <1>2 DEF Match
  <2>2. PICK distance \in DistanceSymbols :
          Found(IF state < 7 THEN 7 ELSE 10, length, <<distance, rep0, rep1, rep2>>)
    BY <2>1
  <2>3. \A i \in 2..4 : <<distance, rep0, rep1, rep2>>[i] \in {rep0, rep1, rep2, rep3}
    OBVIOUS
  <2> QED
    BY <1>0, <2>2, <2>3, FoundOK
<1> QED
  BY <1>1, <1>2

LEMMA CopyOK ==
  ASSUME Inv, Copy
  PROVE  Inv'
<1>1. /\ OutIsSequence /\ outSize \in Nat /\ state \in 0..11 /\ previousIsMatch \in BOOLEAN
      /\ pc = "copy" /\ nowPos < outSize /\ nowPos \in Nat
      /\ WindowSafe /\ StatesAgree
  BY LengthOfOut DEF Inv, Copy, WindowSafe, Running
<1>2. /\ out' = Append(out, previousByte')
      /\ UNCHANGED <<outSize, rep0, rep1, rep2, rep3, state, previousIsMatch>>
      /\ pc' \in {"copy", "loop"} /\ (pc' = "copy" => nowPos + 1 < outSize)
  BY DEF Copy, params, reps
<1>3. OutIsSequence' /\ nowPos' = nowPos + 1 /\ out'[nowPos'] = previousByte'
  BY <1>1, <1>2, ByteAppended
<1>4. WindowSafe'
  BY <1>1, <1>2, <1>3 DEF WindowSafe, Running
<1>5. StatesAgree' /\ PreviousByteFresh'
  BY <1>1, <1>2, <1>3 DEF StatesAgree, PreviousByteFresh, Running
<1> QED
  BY <1>1, <1>2, <1>3, <1>4, <1>5 DEF Inv

-----------------------------------------------------------------------------
LEMMA StepOK == Inv /\ [Next]_vars => Inv'
<1> SUFFICES ASSUME Inv, [Next]_vars PROVE Inv'
  OBVIOUS
<1>1. CASE Call
  BY <1>1, CallOK
<1>2. CASE Ends \/ InputEnded
  BY <1>2, Returned DEF Ends, InputEnded
<1>3. CASE DecodeLiteral
  BY <1>3, LiteralOK
<1>4. CASE ShortRep
  BY <1>4, ShortRepOK
<1>5. CASE RepMatch \/ Match
  BY <1>5, MatchesOK
<1>6. CASE Copy
  BY <1>6, CopyOK
<1>7. CASE UNCHANGED vars
  BY <1>7 DEF Inv, vars, params, locals, reps, Fresh, OutIsSequence, nowPos, Running,
              WindowSafe, StatesAgree, PreviousByteFresh
<1> QED
  BY <1>1, <1>2, <1>3, <1>4, <1>5, <1>6, <1>7 DEF Next, Work

LEMMA Always == Spec => []Inv
BY InitOK, StepOK, PTL DEF Spec

(* LzmaDecode reads only bytes it has written and writes none beyond       *)
(* outSize, whatever it is given to decode.                                *)
THEOREM StaysInWindow == Spec => []WindowSafe
<1>1. Inv => WindowSafe
  BY DEF Inv
<1> QED
  BY <1>1, Always, PTL

(* previousIsMatch and state always agree, and the table of the next       *)
(* literal is chosen by the last byte written, whichever branches ran.     *)
THEOREM BranchesInStep == Spec => []BranchesAgree
<1>1. Inv => BranchesAgree
  BY DEF Inv, BranchesAgree
<1> QED
  BY <1>1, Always, PTL

-----------------------------------------------------------------------------
(* Types.  The values that the bits stand for are in their ranges. *)
LEMMA ReturnTyped ==
  ASSUME TypeOK, extra' \in BOOLEAN,
         NEW value \in {0, 1}, NEW written \in Nat, Return(value, written)
  PROVE  TypeOK'
<1>1. /\ pc' = "returned" /\ result' = value /\ processed' = written
      /\ stored' \in {written, stored}
  BY DEF Return
<1>2. UNCHANGED <<caller, lc, lp, pb, outSize, state, previousIsMatch, previousByte,
                  rep0, rep1, rep2, rep3, len, out>>
  BY DEF Return, params, locals, reps
<1>3. result' \in {Junk, 0, 1, 2} /\ processed' \in Nat \cup {Junk} /\ stored' \in Nat \cup {Junk}
  BY <1>1 DEF TypeOK
<1>4. previousIsMatch' \in BOOLEAN
  BY <1>2, Zenon DEF TypeOK
<1> QED
  BY <1>1, <1>2, <1>3, <1>4 DEF TypeOK

LEMMA ElementTyped ==
  ASSUME NEW S, NEW seq \in Seq(S), NEW i \in 1..Len(seq)
  PROVE  seq[i] \in S
OBVIOUS

LEMMA BackTyped ==
  ASSUME out \in Seq(0..255), NEW d \in 1..nowPos
  PROVE  Back(d) \in 0..255
<1>1. nowPos \in Nat
  BY DEF nowPos
<1>2. nowPos - d + 1 \in 1..nowPos
  BY <1>1
<1>3. out[nowPos - d + 1] \in 0..255
  BY <1>2, ElementTyped DEF nowPos
<1> QED
  BY <1>2, <1>3 DEF Back

LEMMA StartTyped ==
  ASSUME TypeOK, NEW bufferSize, Start(bufferSize), UNCHANGED <<locals, stored>>,
         caller' \in {"un7zip", "client"},
         lc' \in 0..8, lp' \in 0..4, pb' \in 0..4, outSize' \in OutSizes
  PROVE  TypeOK'
<1>1. /\ pc' \in {"returned", "loop"} /\ result' \in {result, 2}
      /\ processed' \in {processed, 0}
  BY DEF Start, LZMA_RESULT_NOT_ENOUGH_MEM
<1>2. UNCHANGED <<state, previousIsMatch, previousByte, rep0, rep1, rep2, rep3, len, out, stored>>
  BY DEF locals, reps
<1>3. extra' \in BOOLEAN
  BY Zenon DEF Start, TypeOK
<1>4. previousIsMatch' \in BOOLEAN
  BY <1>2, Zenon DEF TypeOK
<1>5. result' \in {Junk, 0, 1, 2} /\ processed' \in Nat \cup {Junk} /\ stored' \in Nat \cup {Junk}
  BY <1>1, <1>2 DEF TypeOK
<1> QED
  BY <1>1, <1>2, <1>3, <1>4, <1>5 DEF TypeOK

LEMMA CallTyped ==
  ASSUME TypeOK, Call
  PROVE  TypeOK'
<1>1. PICK prop0 \in Prop0s, size \in OutSizes :
        \/ un7zip(prop0, size)
        \/ \E bufferSize \in {0, lzmaInternalSize(12)} : LzmaDecode(prop0, size, bufferSize)
  BY DEF Call
<1>2. prop0 \in 0..255
  BY HeaderAssumption
<1>3. prop0 < 9 * 5 * 5 => /\ prop0 \div 45 \in 0..4 /\ (prop0 % 45) \div 9 \in 0..4
                           /\ prop0 % 9 \in 0..8
  BY <1>2
<1>4. ASSUME prop0 < 9 * 5 * 5, NEW bufferSize, Start(bufferSize), UNCHANGED <<locals, stored>>,
             caller' \in {"un7zip", "client"}, outSize' = size,
             pb' = prop0 \div 45, lp' = (prop0 % 45) \div 9, lc' = prop0 % 9
      PROVE  TypeOK'
  BY <1>3, <1>4, StartTyped
<1>5. CASE un7zip(prop0, size) /\ prop0 >= 9 * 5 * 5
  <2>1. /\ caller' = "un7zip" /\ pc' = "returned" /\ result' = 1
        /\ UNCHANGED <<lc, lp, pb, outSize, extra, processed, stored>>
        /\ UNCHANGED <<state, previousIsMatch, previousByte, rep0, rep1, rep2, rep3, len, out>>
    BY <1>2, <1>5 DEF un7zip, locals, reps
  <2>2. extra' \in BOOLEAN /\ previousIsMatch' \in BOOLEAN
    BY <2>1, Zenon DEF TypeOK
  <2> QED BY <2>1, <2>2 DEF TypeOK
<1>6. CASE un7zip(prop0, size) /\ ~(prop0 >= 9 * 5 * 5)
  BY <1>2, <1>4, <1>6 DEF un7zip
<1>7. ASSUME NEW bufferSize, LzmaDecode(prop0, size, bufferSize) PROVE TypeOK'
  BY <1>2, <1>4, <1>7 DEF LzmaDecode
<1> QED
  BY <1>1, <1>5, <1>6, <1>7

LEMMA LiteralTyped ==
  ASSUME TypeOK, DecodeLiteral
  PROVE  TypeOK'
<1>1. /\ extra' \in BOOLEAN /\ previousIsMatch' = FALSE
      /\ previousByte' \in {literal.symbol : literal \in Literals}
      /\ out' = Append(out, previousByte')
      /\ state' = IF state < 4 THEN 0 ELSE IF state < 10 THEN state - 3 ELSE state - 6
      /\ UNCHANGED <<pc, caller, lc, lp, pb, outSize, rep0, rep1, rep2, rep3, len, result,
                     processed, stored>>
  BY DEF DecodeLiteral, Turn, params, reps, results
<1>2. previousByte' \in 0..255
  BY <1>1, LiteralsRange DEF Literals
<1>3. out' \in Seq(0..255)
  BY <1>1, <1>2 DEF TypeOK
<1>4. state' \in 0..kNumStates - 1
  BY <1>1 DEF TypeOK, kNumStates
<1>5. previousIsMatch' \in BOOLEAN
  BY <1>1, Zenon
<1> QED
  BY <1>1, <1>2, <1>3, <1>4, <1>5 DEF TypeOK

LEMMA ShortRepTyped ==
  ASSUME TypeOK, Inv, ShortRep
  PROVE  TypeOK'
<1>1. pc = "loop" /\ nowPos \in Nat /\ extra' \in BOOLEAN
  BY LengthOfOut DEF Inv, ShortRep, Turn
<1>2. CASE nowPos = 0
  BY <1>1, <1>2, ReturnTyped DEF ShortRep, LZMA_RESULT_DATA_ERROR
<1>3. CASE nowPos # 0
  <2>1. /\ previousIsMatch' = TRUE
        /\ previousByte' = Back(rep0) /\ out' = Append(out, previousByte')
        /\ state' = IF state < 7 THEN 9 ELSE 11
        /\ UNCHANGED <<pc, caller, lc, lp, pb, outSize, rep0, rep1, rep2, rep3, len, result,
                       processed, stored>>
    BY <1>3 DEF ShortRep, params, reps, results
  <2>2. rep0 \in 1..nowPos
    BY <1>1, <1>3 DEF Inv, WindowSafe, Running
  <2>3. previousByte' \in 0..255
    BY <1>1, <2>1, <2>2, BackTyped DEF TypeOK
  <2>4. out' \in Seq(0..255)
    BY <2>1, <2>3 DEF TypeOK
  <2>5. state' \in 0..kNumStates - 1
    BY <2>1 DEF kNumStates
  <2>6. previousIsMatch' \in BOOLEAN
    BY <2>1, Zenon
  <2> QED
    BY <1>1, <2>1, <2>3, <2>4, <2>5, <2>6 DEF TypeOK
<1> QED
  BY <1>2, <1>3

LEMMA FoundTyped ==
  ASSUME TypeOK, Inv, Turn,
         NEW newState \in 7..11, NEW length \in Nat, NEW newReps, \A i \in 1..4 : newReps[i] \in Nat,
         Found(newState, length, newReps)
  PROVE  TypeOK'
<1>1. nowPos \in Nat /\ extra' \in BOOLEAN
  BY LengthOfOut DEF Inv, Turn
<1>2. CASE Return(LZMA_RESULT_OK, nowPos) \/ Return(LZMA_RESULT_DATA_ERROR, 0)
  BY <1>1, <1>2, ReturnTyped DEF LZMA_RESULT_OK, LZMA_RESULT_DATA_ERROR
<1>3. CASE /\ state' = newState
           /\ previousIsMatch' = TRUE
           /\ rep0' = newReps[1] /\ rep1' = newReps[2] /\ rep2' = newReps[3] /\ rep3' = newReps[4]
           /\ len' = length + 2
           /\ pc' = "copy"
           /\ UNCHANGED <<params, previousByte, out, results>>
  <2>1. UNCHANGED <<caller, lc, lp, pb, outSize, previousByte, out, result, processed, stored>>
    BY <1>3 DEF params, results
  <2>2. rep0' \in Nat /\ rep1' \in Nat /\ rep2' \in Nat /\ rep3' \in Nat
    BY <1>3
  <2>3. len' \in Nat /\ len' > 0 /\ state' \in 0..kNumStates - 1
    BY <1>3 DEF kNumStates
  <2>4. previousIsMatch' \in BOOLEAN
    BY <1>3, Zenon
  <2> QED
    BY <1>1, <1>3, <2>1, <2>2, <2>3, <2>4 DEF TypeOK
<1> QED
  BY <1>2, <1>3 DEF Found

LEMMA MatchesTyped ==
  ASSUME TypeOK, Inv, RepMatch \/ Match
  PROVE  TypeOK'
<1>0. state \in 0..11 /\ Turn /\ rep0 \in Nat /\ rep1 \in Nat /\ rep2 \in Nat /\ rep3 \in Nat
  BY DEF Inv, RepMatch, Match, TypeOK
<1>1. ASSUME NEW p, NEW length \in Lengths(p) PROVE length \in Nat
  BY LengthsRange DEF Lengths
<1>2. CASE RepMatch
  <2>1. PICK length \in Lengths(RepLenCoder), which \in 0..3 :
          Found(IF state < 7 THEN 8 ELSE 11, length, MovedToFront(which))
    BY <1>2 DEF RepMatch
  <2>2. \A i \in 1..4 : MovedToFront(which)[i] \in Nat
    BY <1>0 DEF MovedToFront, reps
  <2> QED
    BY <1>0, <1>1, <2>1, <2>2, FoundTyped
<1>3. CASE Match
  <2>1. PICK length \in Lengths(LenCoder) :
          \E distance \in DistanceSymbols :
            Found(IF state < 7 THEN 7 ELSE 10, length, <<distance, rep0, rep1, rep2>>)
    BY <1>3 DEF Match
  <2>2. PICK distance \in DistanceSymbols :
          Found(IF state < 7 THEN 7 ELSE 10, length, <<distance, rep0, rep1, rep2>>)
    BY <2>1
  <2>3. distance \in Nat
    BY DistanceRange
  <2>4. \A i \in 1..4 : <<distance, rep0, rep1, rep2>>[i] \in Nat
    BY <1>0, <2>3
  <2> QED
    BY <1>0, <1>1, <2>2, <2>4, FoundTyped
<1> QED
  BY <1>2, <1>3

LEMMA CopyTyped ==
  ASSUME TypeOK, Inv, Copy
  PROVE  TypeOK'
<1>1. /\ pc = "copy" /\ nowPos \in Nat /\ rep0 \in 1..nowPos /\ len \in Nat /\ len > 0
  BY LengthOfOut DEF Inv, Copy, WindowSafe, Running, TypeOK
<1>2. /\ previousByte' = Back(rep0) /\ out' = Append(out, previousByte')
      /\ len' = len - 1
      /\ pc' \in {"copy", "loop"} /\ (pc' = "copy" => len' > 0)
      /\ UNCHANGED <<caller, lc, lp, pb, outSize, state, previousIsMatch, rep0, rep1, rep2, rep3,
                     extra, result, processed, stored>>
  BY DEF Copy, params, reps, results
<1>3. previousByte' \in 0..255
  BY <1>1, <1>2, BackTyped DEF TypeOK
<1>4. out' \in Seq(0..255)
  BY <1>2, <1>3 DEF TypeOK
<1>5. len' \in Nat
  BY <1>1, <1>2
<1>6. previousIsMatch' \in BOOLEAN /\ extra' \in BOOLEAN
  BY <1>2, Zenon DEF TypeOK
<1> QED
  BY <1>2, <1>3, <1>4, <1>5, <1>6 DEF TypeOK

LEMMA StepTyped == TypeOK /\ Inv /\ [Next]_vars => TypeOK'
<1> SUFFICES ASSUME TypeOK, Inv, [Next]_vars PROVE TypeOK'
  OBVIOUS
<1>1. CASE Call
  BY <1>1, CallTyped
<1>2. CASE Ends \/ InputEnded
  <2>1. nowPos \in Nat
    BY LengthOfOut DEF Inv
  <2>2. extra' \in BOOLEAN
    BY <1>2, Zenon DEF Ends, InputEnded, TypeOK
  <2>3. Return(0, nowPos) \/ Return(1, 0)
    BY <1>2 DEF Ends, InputEnded, LZMA_RESULT_OK, LZMA_RESULT_DATA_ERROR
  <2> QED BY <2>1, <2>2, <2>3, ReturnTyped
<1>3. CASE DecodeLiteral
  BY <1>3, LiteralTyped
<1>4. CASE ShortRep
  BY <1>4, ShortRepTyped
<1>5. CASE RepMatch \/ Match
  BY <1>5, MatchesTyped
<1>6. CASE Copy
  BY <1>6, CopyTyped
<1>7. CASE UNCHANGED vars
  BY <1>7 DEF TypeOK, vars, params, locals, reps, results
<1> QED
  BY <1>1, <1>2, <1>3, <1>4, <1>5, <1>6, <1>7 DEF Next, Work

LEMMA InitTyped == Init => TypeOK
<1> SUFFICES ASSUME Init PROVE TypeOK
  OBVIOUS
<1>1. previousIsMatch \in BOOLEAN /\ extra \in BOOLEAN
  BY Zenon DEF Init
<1>2. out \in Seq(0..255)
  BY DEF Init
<1> QED
  BY <1>1, <1>2 DEF Init, TypeOK, kNumStates

(* Every value of the decoder stays in its type: the bytes of the output   *)
(* are bytes, the states twelve, and what is returned one of four values.  *)
THEOREM TypesOK == Spec => []TypeOK
BY InitTyped, StepTyped, Always, PTL DEF Spec

-----------------------------------------------------------------------------
(* What is returned and stored. *)
ResultInv ==
  /\ pc # "returned" => result = Junk
  /\ pc = "idle" => stored = Junk
  /\ SizeReported

LEMMA ReturnReported ==
  ASSUME Inv, Running,
         NEW value, NEW written, Return(value, written),
         \/ value = LZMA_RESULT_OK /\ written = nowPos
         \/ value = LZMA_RESULT_DATA_ERROR /\ written = 0
  PROVE  ResultInv'
<1>1. /\ pc' = "returned" /\ result' = value
      /\ caller' = caller /\ out' = out /\ outSize' = outSize
      /\ stored' = IF caller = "un7zip" THEN written ELSE stored
  BY DEF Return, params, locals
<1>2. nowPos <= outSize /\ nowPos' = nowPos
  BY <1>1 DEF Inv, WindowSafe, nowPos
<1> QED
  BY <1>1, <1>2 DEF ResultInv, SizeReported, LZMA_RESULT_OK, LZMA_RESULT_DATA_ERROR

(* un7zip allows for as much as LzmaDecode asks for. *)
LEMMA EnoughMemory ==
  ASSUME NEW n \in 0..12
  PROVE  /\ NumProbs(n) * sizeOfCProb \in Int
         /\ lzmaInternalSize(n) = NumProbs(n) * sizeOfCProb
<1>1. 2^n \in Nat
  <2>1. n \in 0..31
    OBVIOUS
  <2> QED BY <2>1, Powers DEF Doubles
<1>2. LZMA_BASE_SIZE \in Int
  <2>1. 2^6 = 64 /\ 2^kNumPosSlotBits \in Int
    BY WidthOK
  <2> QED BY <2>1 DEF LZMA_BASE_SIZE
<1>3. Literal = LZMA_BASE_SIZE
  BY BaseSizeAssumption
<1> QED
  BY <1>1, <1>2, <1>3 DEF NumProbs, lzmaInternalSize, sizeOfCProb, LZMA_LIT_SIZE

LEMMA CallReported ==
  ASSUME Inv, TypeOK', ResultInv, Call
  PROVE  ResultInv'
<1>1. PICK prop0 \in Prop0s, size \in OutSizes :
        \/ un7zip(prop0, size)
        \/ \E bufferSize \in {0, lzmaInternalSize(12)} : LzmaDecode(prop0, size, bufferSize)
  BY DEF Call
<1>2. pc = "idle" /\ result = Junk /\ stored = Junk /\ out = <<>>
  BY <1>1 DEF Inv, Fresh, ResultInv, un7zip, LzmaDecode
<1>3. stored' = stored /\ out' = out
  BY <1>1 DEF un7zip, LzmaDecode, locals
<1>4. CASE un7zip(prop0, size) /\ pc' = "returned" /\ result' = 1
  BY <1>2, <1>3, <1>4 DEF ResultInv, SizeReported, LZMA_RESULT_OK, LZMA_RESULT_DATA_ERROR
<1>5. ASSUME NEW bufferSize, Start(bufferSize), caller' = "client" PROVE ResultInv'
  BY <1>2, <1>3, <1>5 DEF Start, ResultInv, SizeReported
<1>6. ASSUME Start(lzmaInternalSize(lc' + lp')) PROVE ResultInv'
  <2> DEFINE n == lc' + lp'
  <2>1. n \in 0..12
    <3>1. lc' \in 0..8 /\ lp' \in 0..4
      BY DEF TypeOK
    <3>2. \A a \in 0..8, b \in 0..4 : a + b \in 0..12
      OBVIOUS
    <3> QED BY <3>1, <3>2, Zenon
  <2> HIDE DEF n
  <2>2. NumProbs(n) * sizeOfCProb \in Int /\ lzmaInternalSize(n) = NumProbs(n) * sizeOfCProb
    BY <2>1, EnoughMemory
  <2>3. ~(lzmaInternalSize(n) < NumProbs(n) * sizeOfCProb)
    BY <2>2
  <2>4. pc' = "loop" /\ result' = result
    BY <1>6, <2>3 DEF Start, n
  <2> QED BY <1>2, <1>3, <2>4 DEF ResultInv, SizeReported
<1> QED
  BY <1>1, <1>4, <1>5, <1>6 DEF un7zip, LzmaDecode

LEMMA StepReported == Inv /\ TypeOK /\ TypeOK' /\ ResultInv /\ [Next]_vars => ResultInv'
<1> SUFFICES ASSUME Inv, TypeOK, TypeOK', ResultInv, [Next]_vars PROVE ResultInv'
  OBVIOUS
<1>1. CASE Call
  BY <1>1, CallReported
<1>2. CASE Running /\ (Return(LZMA_RESULT_OK, nowPos) \/ Return(LZMA_RESULT_DATA_ERROR, 0))
  BY <1>2, ReturnReported
<1>3. CASE Running /\ pc' # "returned" /\ pc' # "idle" /\ UNCHANGED results
  BY <1>3 DEF ResultInv, SizeReported, Running, results
<1>4. ASSUME NEW newState, NEW length, NEW newReps, Turn, Found(newState, length, newReps)
      PROVE  ResultInv'
  BY <1>2, <1>3, <1>4 DEF Found, Turn, Running
<1>5. CASE RepMatch \/ Match
  BY <1>4, <1>5 DEF RepMatch, Match
<1>6. CASE Ends \/ InputEnded
  BY <1>2, <1>6 DEF Ends, InputEnded, Running
<1>7. CASE DecodeLiteral
  BY <1>3, <1>7 DEF DecodeLiteral, Turn, Running
<1>8. CASE ShortRep
  BY <1>2, <1>3, <1>8 DEF ShortRep, Turn, Running
<1>9. CASE Copy
  BY <1>3, <1>9 DEF Copy, Running
<1>10. CASE UNCHANGED vars
  BY <1>10 DEF ResultInv, SizeReported, vars, params, locals, results, nowPos
<1> QED
  BY <1>1, <1>5, <1>6, <1>7, <1>8, <1>9, <1>10 DEF Next, Work

LEMMA InitReported == Init => ResultInv
BY DEF Init, ResultInv, SizeReported

LEMMA AlwaysReported == Spec => []ResultInv
BY InitReported, StepReported, Always, TypesOK, PTL DEF Spec

(* The size that un7zip stores is that of the output, or 0 after an error: *)
(* it never returns without LzmaDecode having had enough memory.           *)
THEOREM SizesReported == Spec => []SizeReported
<1>1. ResultInv => SizeReported
  BY DEF ResultInv
<1> QED
  BY <1>1, AlwaysReported, PTL

-----------------------------------------------------------------------------
(* The refinement of Lz77. *)
(* Going on by one in a remainder. *)
LEMMA NextRemainder ==
  ASSUME NEW k \in Nat, NEW d \in Nat \ {0}
  PROVE  /\ k % d \in 0..d - 1
         /\ (k + 1) % d = IF k % d = d - 1 THEN 0 ELSE (k % d) + 1
<1>1. k % d \in 0..d - 1
  OBVIOUS
<1> DEFINE q == k \div d
           r == k % d
<1>2. q \in Nat /\ r \in 0..d - 1 /\ k = d * q + r
  OBVIOUS
<1> HIDE DEF q, r
<1>3. CASE r = d - 1
  <2>1. k + 1 = d * (q + 1)
    BY <1>2, <1>3
  <2>2. (d * (q + 1)) % d = 0
    BY <1>2
  <2> QED BY <1>1, <1>3, <2>1, <2>2 DEF r
<1>4. CASE r # d - 1
  <2>1. k + 1 = d * q + (r + 1) /\ r + 1 \in 0..d - 1
    BY <1>2, <1>4
  <2>2. (d * q + (r + 1)) % d = r + 1
    BY <1>2, <2>1
  <2> QED BY <1>1, <1>4, <2>1, <2>2 DEF r
<1> QED
  BY <1>3, <1>4

LEMMA ExtendedOnce ==
  ASSUME NEW seq \in Seq(0..255), NEW d \in 1..Len(seq), NEW n \in Nat \ {0}
  PROVE  Extended(Append(seq, seq[Len(seq) - d + 1]), d, n - 1) = Extended(seq, d, n)
<1> DEFINE L == Len(seq)
           b == seq[L - d + 1]
           longer == Append(seq, b)
<1>1. L \in Nat /\ d \in Nat \ {0} /\ d <= L
  OBVIOUS
<1>2. b \in 0..255
  <2>1. L - d + 1 \in 1..L
    BY <1>1
  <2> QED BY <2>1, ElementTyped
<1>3. /\ Len(longer) = L + 1 /\ longer[L + 1] = b
      /\ \A i \in 1..L : longer[i] = seq[i]
  BY <1>2
<1> HIDE DEF longer, b
<1>4. ASSUME NEW i \in 1..L + n
      PROVE  (IF i <= L + 1 THEN longer[i]
              ELSE longer[L + 1 - d + 1 + ((i - (L + 1) - 1) % d)])
             = (IF i <= L THEN seq[i] ELSE seq[L - d + 1 + ((i - L - 1) % d)])
  <2>1. CASE i <= L
    BY <1>1, <1>3, <2>1
  <2>2. CASE i = L + 1
    <3>1. (i - L - 1) % d = 0
      <4>1. i - L - 1 = 0
        BY <1>1, <2>2
      <4>2. 0 % d = 0
        BY <1>1
      <4> QED BY <4>1, <4>2
    <3>2. seq[L - d + 1 + ((i - L - 1) % d)] = b
      BY <1>1, <3>1 DEF b
    <3> QED BY <1>1, <1>3, <2>2, <3>2
  <2>3. CASE i > L + 1
    <3> DEFINE k == i - L - 2
               r == k % d
    <3>1. k \in Nat /\ i - (L + 1) - 1 = k /\ i - L - 1 = k + 1
      BY <1>1, <2>3
    <3> HIDE DEF k
    <3>2. r \in 0..d - 1 /\ (k + 1) % d = IF r = d - 1 THEN 0 ELSE r + 1
      BY <1>1, <3>1, NextRemainder
    <3> HIDE DEF r
    <3>3. longer[L + 1 - d + 1 + r] = seq[L - d + 1 + (IF r = d - 1 THEN 0 ELSE r + 1)]
      <4>1. CASE r = d - 1
        <5>1. L + 1 - d + 1 + r = L + 1
          BY <1>1, <4>1
        <5> QED BY <1>1, <1>3, <4>1, <5>1 DEF b
      <4>2. CASE r # d - 1
        <5>1. L + 1 - d + 1 + r \in 1..L /\ L - d + 1 + (r + 1) = L + 1 - d + 1 + r
          BY <1>1, <3>2, <4>2
        <5> QED BY <1>3, <4>2, <5>1
      <4> QED BY <4>1, <4>2
    <3>4. longer[L + 1 - d + 1 + (k % d)] = seq[L - d + 1 + ((k + 1) % d)]
      BY <3>2, <3>3 DEF r
    <3>5. ~(i <= L) /\ ~(i <= L + 1)
      BY <1>1, <2>3
    <3> QED BY <3>1, <3>4, <3>5
  <2> QED BY <1>1, <2>1, <2>2, <2>3
<1>5. L + 1 + (n - 1) = L + n
  BY <1>1
<1>6. Extended(longer, d, n - 1) =
        [i \in 1..L + n |-> IF i <= L + 1 THEN longer[i]
                            ELSE longer[L + 1 - d + 1 + ((i - (L + 1) - 1) % d)]]
  BY <1>3, <1>5 DEF Extended
<1>7. Extended(seq, d, n) =
        [i \in 1..L + n |-> IF i <= L THEN seq[i] ELSE seq[L - d + 1 + ((i - L - 1) % d)]]
  BY DEF Extended
<1>8. Extended(longer, d, n - 1) = Extended(seq, d, n)
  BY <1>4, <1>6, <1>7
<1> QED
  BY <1>8 DEF longer, b

LEMMA ExtendedNot ==
  ASSUME NEW seq \in Seq(0..255), NEW d
  PROVE  Extended(seq, d, 0) = seq
<1>1. Extended(seq, d, 0) = [i \in 1..Len(seq) |-> seq[i]]
  BY DEF Extended
<1>2. seq = [i \in 1..Len(seq) |-> seq[i]]
  OBVIOUS
<1> QED
  BY <1>1, <1>2

-----------------------------------------------------------------------------
(* The part of a copy that is still to be done. *)
ToCopy == IF len < outSize - nowPos THEN len ELSE outSize - nowPos

(* Copying a byte only shortens what is still to be copied. *)
LEMMA CopyStutters ==
  ASSUME Inv, TypeOK, TypeOK', Copy
  PROVE  AbsOut' = AbsOut /\ UNCHANGED <<outSize, result>>
<1>1. /\ pc = "copy" /\ nowPos \in Nat /\ rep0 \in 1..nowPos /\ nowPos < outSize /\ outSize \in Nat
      /\ len \in Nat \ {0} /\ out \in Seq(0..255)
  BY LengthOfOut DEF Inv, Copy, WindowSafe, Running, TypeOK
<1>2. /\ out' = Append(out, Back(rep0))
      /\ len' = len - 1
      /\ pc' = IF len' > 0 /\ nowPos + 1 < outSize THEN "copy" ELSE "loop"
      /\ UNCHANGED <<outSize, rep0, result>>
  BY DEF Copy, params, reps, results
<1>3. nowPos' = nowPos + 1
  BY <1>1, <1>2, ByteAppended DEF Inv
<1>4. ToCopy \in Nat \ {0}
  BY <1>1 DEF ToCopy
<1>5. Extended(out', rep0, ToCopy - 1) = Extended(out, rep0, ToCopy)
  BY <1>1, <1>2, <1>4, ExtendedOnce DEF nowPos, Back
<1>6. AbsOut = Extended(out, rep0, ToCopy)
  BY <1>1 DEF AbsOut, ToCopy
<1>7. CASE pc' = "copy"
  <2>1. (IF len' < outSize' - nowPos' THEN len' ELSE outSize' - nowPos') = ToCopy - 1
    BY <1>1, <1>2, <1>3 DEF ToCopy
  <2>2. AbsOut' = Extended(out', rep0', ToCopy - 1)
    BY <1>7, <2>1 DEF AbsOut
  <2> QED BY <1>2, <1>5, <1>6, <2>2
<1>8. CASE pc' # "copy"
  <2>1. ToCopy = 1
    BY <1>1, <1>2, <1>8 DEF ToCopy
  <2>2. AbsOut' = out'
    BY <1>8 DEF AbsOut
  <2>3. Extended(out', rep0, 0) = out'
    BY ExtendedNot DEF TypeOK
  <2> QED BY <1>2, <1>5, <1>6, <2>1, <2>2, <2>3
<1> QED
  BY <1>2, <1>7, <1>8

(* Asking for a size, or being turned away. *)
LEMMA CallMaps ==
  ASSUME Inv, ResultInv, Call
  PROVE  Abs!AbsNext
<1>1. PICK prop0 \in Prop0s, size \in OutSizes :
        \/ un7zip(prop0, size)
        \/ \E bufferSize \in {0, lzmaInternalSize(12)} : LzmaDecode(prop0, size, bufferSize)
  BY DEF Call
<1>2. pc = "idle" /\ result = Junk /\ out = <<>> /\ outSize = 0
  BY <1>1 DEF Inv, Fresh, ResultInv, un7zip, LzmaDecode
<1>3. pc' \in {"returned", "loop"} /\ out' = out
  BY <1>1 DEF un7zip, LzmaDecode, Start, locals
<1>4. AbsOut = <<>> /\ AbsOut' = <<>>
  BY <1>2, <1>3 DEF AbsOut
<1>5. \/ outSize' \in OutSizes /\ result' \in {Junk, 2}
      \/ outSize' = outSize /\ result' = 1
  <2>1. ASSUME NEW bufferSize, Start(bufferSize) PROVE result' \in {Junk, 2}
    BY <1>2, <2>1 DEF Start, LZMA_RESULT_NOT_ENOUGH_MEM
  <2> QED BY <1>1, <2>1 DEF un7zip, LzmaDecode
<1>6. Abs!Ask \/ Abs!Finish
  BY <1>2, <1>4, <1>5 DEF Abs!Ask, Abs!Finish
<1> QED
  BY <1>6 DEF Abs!AbsNext

LEMMA ReturnMaps ==
  ASSUME pc = "loop", result = Junk, NEW value \in {0, 1}, NEW written, Return(value, written)
  PROVE  Abs!AbsNext
<1>1. pc' = "returned" /\ result' = value /\ out' = out /\ outSize' = outSize
  BY DEF Return, params, locals
<1>2. AbsOut' = AbsOut
  BY <1>1 DEF AbsOut
<1>3. Abs!Finish
  BY <1>1, <1>2 DEF Abs!Finish
<1> QED
  BY <1>3 DEF Abs!AbsNext

LEMMA AppendMaps ==
  ASSUME TypeOK', Inv, pc = "loop", nowPos < outSize, result = Junk,
         out' = Append(out, previousByte'), UNCHANGED <<pc, outSize, result>>
  PROVE  Abs!AbsNext
<1>1. previousByte' \in 0..255
  BY DEF TypeOK
<1>2. AbsOut = out /\ AbsOut' = Append(out, previousByte')
  BY DEF AbsOut
<1>3. Len(AbsOut) < outSize
  BY <1>2 DEF nowPos
<1>4. \E byte \in 0..255 : AbsOut' = Append(AbsOut, byte)
  BY <1>1, <1>2
<1>5. Abs!Put
  BY <1>3, <1>4 DEF Abs!Put
<1> QED
  BY <1>5 DEF Abs!AbsNext

LEMMA FoundMaps ==
  ASSUME Inv, TypeOK, TypeOK', ResultInv, Turn,
         NEW newState, NEW length \in Nat, NEW newReps,
         Found(newState, length, newReps)
  PROVE  Abs!AbsNext
<1>1. /\ pc = "loop" /\ nowPos \in Nat /\ nowPos < outSize /\ outSize \in Nat /\ result = Junk
  BY LengthOfOut DEF Inv, Turn, ResultInv
<1>2. CASE Return(LZMA_RESULT_OK, nowPos) \/ Return(LZMA_RESULT_DATA_ERROR, 0)
  BY <1>1, <1>2, ReturnMaps DEF LZMA_RESULT_OK, LZMA_RESULT_DATA_ERROR
<1>3. CASE /\ newReps[1] \in 1..nowPos
           /\ rep0' = newReps[1]
           /\ len' = length + 2
           /\ pc' = "copy"
           /\ UNCHANGED <<params, out, results>>
  <2> DEFINE n == IF len' < outSize - nowPos THEN len' ELSE outSize - nowPos
  <2>1. outSize' = outSize /\ out' = out /\ result' = result /\ nowPos' = nowPos
    BY <1>3 DEF params, results, nowPos
  <2>2. n \in 1..outSize - nowPos
    BY <1>1, <1>3
  <2>3. AbsOut = out
    BY <1>1 DEF AbsOut
  <2>4. AbsOut' = Extended(out, rep0', n)
    BY <1>3, <2>1 DEF AbsOut
  <2> HIDE DEF n
  <2>5. Extended(out, rep0', n) = Abs!Extended(out, rep0', n)
    BY DEF Extended, Abs!Extended
  <2>6. rep0' \in 1..Len(AbsOut) /\ n \in 1..outSize - Len(AbsOut)
    BY <1>3, <2>2, <2>3 DEF nowPos
  <2>7. AbsOut' = Abs!Extended(AbsOut, rep0', n)
    BY <2>3, <2>4, <2>5
  <2>8. Abs!CopyBack
    BY <1>1, <2>1, <2>6, <2>7 DEF Abs!CopyBack
  <2> QED
    BY <2>8 DEF Abs!AbsNext
<1> QED
  BY <1>2, <1>3 DEF Found

LEMMA StepMaps ==
  ASSUME Inv, TypeOK, TypeOK', ResultInv, [Next]_vars
  PROVE  [Abs!AbsNext]_(Abs!absVars)
<1>1. CASE Call
  BY <1>1, CallMaps
<1>2. CASE Ends \/ InputEnded
  BY <1>2, ReturnMaps DEF Ends, InputEnded, ResultInv, LZMA_RESULT_OK, LZMA_RESULT_DATA_ERROR
<1>3. CASE DecodeLiteral
  BY <1>3, AppendMaps DEF DecodeLiteral, Turn, ResultInv, params, results
<1>4. CASE ShortRep
  <2>1. pc = "loop" /\ nowPos < outSize /\ result = Junk
    BY <1>4 DEF ShortRep, Turn, ResultInv
  <2>2. CASE Return(LZMA_RESULT_DATA_ERROR, 0)
    BY <2>1, <2>2, ReturnMaps DEF LZMA_RESULT_DATA_ERROR
  <2>3. CASE out' = Append(out, previousByte') /\ UNCHANGED <<pc, params, results>>
    BY <2>1, <2>3, AppendMaps DEF params, results
  <2> QED BY <1>4, <2>2, <2>3 DEF ShortRep
<1>5. CASE RepMatch \/ Match
  <2>1. ASSUME NEW p, NEW length \in Lengths(p) PROVE length \in Nat
    BY LengthsRange DEF Lengths
  <2> QED BY <1>5, <2>1, FoundMaps DEF RepMatch, Match
<1>6. CASE Copy
  BY <1>6, CopyStutters DEF Abs!absVars
<1>7. CASE UNCHANGED vars
  <2>1. UNCHANGED <<pc, outSize, rep0, len, out, result>>
    BY <1>7 DEF vars, params, locals, reps, results
  <2>2. AbsOut' = AbsOut
    BY <2>1 DEF AbsOut, nowPos
  <2> QED BY <2>1, <2>2 DEF Abs!absVars
<1> QED
  BY <1>1, <1>2, <1>3, <1>4, <1>5, <1>6, <1>7 DEF Next, Work

LEMMA InitMaps == Init => Abs!AbsInit
BY DEF Init, AbsOut, Abs!AbsInit

(* The decoder with its bits, states and remembered distances does what    *)
(* Lz77 promises.                                                          *)
THEOREM DecoderImplementsLz77 == Spec => ImplementsLz77
<1>1. Inv /\ TypeOK /\ TypeOK' /\ ResultInv /\ [Next]_vars => [Abs!AbsNext]_(Abs!absVars)
  BY StepMaps
<1> QED
  BY <1>1, InitMaps, Always, TypesOK, AlwaysReported, PTL DEF Spec, ImplementsLz77, Abs!AbsSpec

-----------------------------------------------------------------------------
(* What a turn of the loop looks its bits up by. *)
LEMMA TurnIndices ==
  ASSUME TypeOK, Inv, pc = "loop", nowPos < outSize
  PROVE  /\ state \in 0..11 /\ posState \in 0..15
         /\ previousIsMatch => Back(rep0) \in 0..255
<1>1. nowPos \in Nat /\ state \in 0..11 /\ pb \in 0..4
  BY LengthOfOut DEF Inv, TypeOK
<1>2. 2^0 = 1 /\ 2^1 = 2 /\ 2^2 = 4 /\ 2^3 = 8 /\ 2^4 = 16
  OBVIOUS
<1>3. 2^pb \in Nat \ {0} /\ 2^pb <= 16
  <2>1. pb = 0 \/ pb = 1 \/ pb = 2 \/ pb = 3 \/ pb = 4
    BY <1>1
  <2>2. 2^pb = 1 \/ 2^pb = 2 \/ 2^pb = 4 \/ 2^pb = 8 \/ 2^pb = 16
    BY <1>2, <2>1, Zenon
  <2> QED BY <2>2
<1>4. posState \in 0..2^pb - 1
  BY <1>1, <1>3, Remainder DEF posState
<1>5. ASSUME previousIsMatch PROVE Back(rep0) \in 0..255
  <2>1. rep0 \in 1..nowPos
    BY <1>5 DEF Inv, WindowSafe, Running
  <2> QED BY <2>1, BackTyped DEF TypeOK
<1> QED
  BY <1>1, <1>3, <1>4, <1>5

LEMMA FlagsApart ==
  ASSUME state \in 0..11, posState \in 0..15
  PROVE  \A i \in 1..6 : FlagPlaces[i] \in FlagTables[i]..FlagTables[i + 1] - 1
<1>1. /\ IsMatch = 0 /\ IsRep = 192 /\ IsRepG0 = 204 /\ IsRepG1 = 216 /\ IsRepG2 = 228
      /\ IsRep0Long = 240 /\ PosSlot = 432
  BY Tables
<1>2. /\ FlagPlaces[1] = state * 16 + posState /\ FlagPlaces[2] = 192 + state
      /\ FlagPlaces[3] = 204 + state /\ FlagPlaces[4] = 216 + state
      /\ FlagPlaces[5] = 228 + state /\ FlagPlaces[6] = 240 + state * 16 + posState
  BY <1>1 DEF FlagPlaces
<1>3. /\ FlagTables[1] = 0 /\ FlagTables[2] = 192 /\ FlagTables[3] = 204 /\ FlagTables[4] = 216
      /\ FlagTables[5] = 228 /\ FlagTables[6] = 240 /\ FlagTables[7] = 432
  BY <1>1 DEF FlagTables
<1>4. /\ FlagPlaces[1] \in 0..191 /\ FlagPlaces[2] \in 192..203 /\ FlagPlaces[3] \in 204..215
      /\ FlagPlaces[4] \in 216..227 /\ FlagPlaces[5] \in 228..239 /\ FlagPlaces[6] \in 240..431
  BY <1>2
<1> SUFFICES ASSUME NEW i \in 1..6
             PROVE  FlagPlaces[i] \in FlagTables[i]..FlagTables[i + 1] - 1
  OBVIOUS
<1>5. i = 1 \/ i = 2 \/ i = 3 \/ i = 4 \/ i = 5 \/ i = 6
  OBVIOUS
<1> QED
  BY <1>3, <1>4, <1>5

LEMMA LiteralsInside ==
  ASSUME TypeOK, Inv, pc = "loop", nowPos < outSize, NEW literal \in Literals
  PROVE  At(LiteralPlace, literal.used) \subseteq Literal..NumProbs(lc + lp) - 1
<1>1. literal.used \subseteq 0..767
  <2>1. PICK bits \in Bits8 :
          literal = IF previousIsMatch THEN LiteralDecodeMatch(bits, Back(rep0))
                                       ELSE LiteralDecode(bits)
    BY DEF Literals
  <2>2. CASE previousIsMatch
    <3>1. Back(rep0) \in 0..255
      BY <2>2, TurnIndices
    <3>2. LiteralDecodeMatch(bits, Back(rep0)).used \subseteq 0..767
      BY <3>1, MatchPlaces
    <3>3. literal = LiteralDecodeMatch(bits, Back(rep0))
      BY <2>1, <2>2, Zenon
    <3> QED BY <3>2, <3>3, Zenon
  <2>3. CASE ~previousIsMatch
    <3>2. \A p \in LiteralDecode(bits).used : p \in 0..767
      BY PlainPlaces
    <3>3. literal = LiteralDecode(bits)
      BY <2>1, <2>3, Zenon
    <3> QED BY <3>2, <3>3
  <2> QED BY <2>2, <2>3
<1>2. lc \in 0..8 /\ lp \in 0..4 /\ previousByte \in 0..255 /\ nowPos \in Nat
  BY LengthOfOut DEF TypeOK, Inv
<1>3. 2^(lc + lp) = 2^lc * 2^lp /\ 2^lc \in Nat \ {0} /\ 2^lp \in Nat \ {0}
  BY <1>2, PowerSum
<1>4. previousByte \div 2^(8 - lc) \in 0..2^lc - 1
  BY <1>2, TopBits
<1>5. nowPos % 2^lp \in 0..2^lp - 1
  BY <1>2, <1>3, Remainder
<1> DEFINE row == (nowPos % 2^lp) * 2^lc + previousByte \div 2^(8 - lc)
           rows == 2^(lc + lp)
<1>6. row \in 0..rows - 1
  <2> DEFINE x == nowPos % 2^lp
             y == previousByte \div 2^(8 - lc)
             m == 2^lp
             n == 2^lc
  <2>1. m \in Nat \ {0} /\ n \in Nat \ {0} /\ x \in 0..m - 1 /\ y \in 0..n - 1
    BY <1>3, <1>4, <1>5
  <2>2. row = x * n + y /\ rows = n * m
    BY <1>3
  <2> HIDE DEF x, y, m, n
  <2>3. x * n + y \in 0..n * m - 1
    BY <2>1, Rows
  <2> QED BY <2>2, <2>3
<1>7. rows \in Nat
  BY <1>3
<1>8. LiteralPlace = Literal + 768 * row /\ NumProbs(lc + lp) = Literal + 768 * rows
      /\ Literal \in Nat
  BY Tables DEF LiteralPlace, NumProbs, LZMA_LIT_SIZE
<1> HIDE DEF row, rows
<1>9. LiteralPlace \in Int /\ LiteralPlace >= Literal
      /\ LiteralPlace + 767 <= NumProbs(lc + lp) - 1 /\ 0 \in Int /\ 767 \in Int
  BY <1>6, <1>7, <1>8
<1>10. At(LiteralPlace, literal.used) \subseteq LiteralPlace + 0..LiteralPlace + 767
  <2> DEFINE place == LiteralPlace
             used == literal.used
             first == 0
             last == 767
  <2>1. place \in Int /\ used \subseteq first..last /\ first \in Int /\ last \in Int
    BY <1>1, <1>9
  <2> HIDE DEF place, used, first, last
  <2>2. At(place, used) \subseteq place + first..place + last
    BY <2>1, AtInside
  <2> QED BY <2>2 DEF place, used, first, last
<1>11. NumProbs(lc + lp) \in Int
  BY <1>7, <1>8
<1> QED
  BY <1>8, <1>9, <1>10, <1>11

LEMMA TablesAre == TypeOK /\ Inv => TablesApart
<1> SUFFICES ASSUME TypeOK, Inv, pc = "loop", nowPos < outSize PROVE TablesApart
  BY DEF TablesApart
<1>1. state \in 0..11 /\ posState \in 0..15
  BY TurnIndices
<1>2. \A i \in 1..6 : FlagPlaces[i] \in FlagTables[i]..FlagTables[i + 1] - 1
  BY <1>1, FlagsApart
<1>3. /\ LenCoder \in Nat /\ RepLenCoder \in Nat
      /\ RepLenCoder = LenCoder + 514 /\ Literal = RepLenCoder + 514
  BY Tables
<1>4. \A length \in LenDecode(LenCoder, posState) : length.used \subseteq LenCoder..RepLenCoder - 1
  <2> SUFFICES ASSUME NEW length \in LenDecode(LenCoder, posState)
               PROVE  length.used \subseteq LenCoder..RepLenCoder - 1
    OBVIOUS
  <2>1. length.used \subseteq LenCoder..LenCoder + 513
    BY <1>1, <1>3, LengthPlaces
  <2> QED BY <1>3, <2>1
<1>5. \A length \in LenDecode(RepLenCoder, posState) :
         length.used \subseteq RepLenCoder..Literal - 1
  <2> SUFFICES ASSUME NEW length \in LenDecode(RepLenCoder, posState)
               PROVE  length.used \subseteq RepLenCoder..Literal - 1
    OBVIOUS
  <2>1. length.used \subseteq RepLenCoder..RepLenCoder + 513
    BY <1>1, <1>3, LengthPlaces
  <2> QED BY <1>3, <2>1
<1>6. \A literal \in Literals :
         At(LiteralPlace, literal.used) \subseteq Literal..NumProbs(lc + lp) - 1
  BY LiteralsInside
<1> QED
  BY <1>2, <1>4, <1>5, <1>6, SlotPlaces, DistancesApart, Zenon DEF TablesApart

(* The probabilities that a turn uses are inside of the memory and in the *)
(* table of their kind, whatever the stream.                               *)
THEOREM TablesStayApart == Spec => []TablesApart
BY TypesOK, Always, TablesAre, PTL

(* Every distance below 2^32 has one string of bits. *)
THEOREM DistancesDecoded == Spec => []DistancesOnce
<1>1. DistancesOnce
  BY AllDistances DEF DistancesOnce
<1> QED
  BY <1>1, PTL

-----------------------------------------------------------------------------
(* The range decoder, for every choice of its constants that meets         *)
(* ConstantsAssumption; 2^24, 256, 2^11 and 2^5 of the source do.          *)

(* Products grow with their factors. *)
LEMMA ProductGrows ==
  ASSUME NEW a \in Nat, NEW b \in Nat, NEW c \in Nat, NEW d \in Nat, a <= c, b <= d
  PROVE  a * b <= c * d
<1>1. a * b <= c * b
  BY SMT
<1>2. c * b <= c * d
  BY SMT
<1> QED BY <1>1, <1>2

(* What is known of a quotient. *)
LEMMA Quotient ==
  ASSUME NEW n \in Nat, NEW d \in Nat, d > 0
  PROVE  /\ n \div d \in Nat
         /\ (n \div d) * d <= n
         /\ n < (n \div d) * d + d
BY SMT

(* The source's constants meet the assumptions. *)
LEMMA ConstantsOfTheSource ==
  ASSUME Base = 256, kTopValue = 16777216, kBitModelTotal = 2048, kMoveBy = 32
  PROVE  /\ kBitModelTotal <= (kMoveBy - 1) * Base
         /\ kTopValue % kBitModelTotal = 0
         /\ RangeSize = 4294967296
BY DEF RangeSize

-----------------------------------------------------------------------------
LEMMA Likely ==
  ASSUME NEW p \in (kMoveBy - 1)..(kBitModelTotal - kMoveBy + 1)
  PROVE  Likelier(p) \in (kMoveBy - 1)..(kBitModelTotal - kMoveBy + 1)
<1> DEFINE d == kBitModelTotal - p
           e == d \div kMoveBy
<1>1. d \in Nat /\ d >= kMoveBy - 1 /\ e \in Nat /\ e * kMoveBy <= d
  BY ConstantsAssumption, Quotient
<1>2. d - e >= kMoveBy - 1
  <2>1. CASE e = 0
    BY <1>1, <2>1, ConstantsAssumption
  <2>2. CASE e >= 1
    <3> HIDE DEF d, e
    <3>1. e * kMoveBy - e >= kMoveBy - 1
      BY <1>1, <2>2, ConstantsAssumption, SMT
    <3> QED BY <1>1, <3>1, ConstantsAssumption
  <2> QED BY <1>1, <2>1, <2>2
<1>3. Likelier(p) = p + e
  BY DEF Likelier
<1> QED BY <1>1, <1>2, <1>3, ConstantsAssumption

LEMMA Unlikely ==
  ASSUME NEW p \in (kMoveBy - 1)..(kBitModelTotal - kMoveBy + 1)
  PROVE  Unlikelier(p) \in (kMoveBy - 1)..(kBitModelTotal - kMoveBy + 1)
<1> DEFINE e == p \div kMoveBy
<1>1. p \in Nat /\ e \in Nat /\ e * kMoveBy <= p
  BY ConstantsAssumption, Quotient
<1>2. p - e >= kMoveBy - 1
  <2>1. CASE e = 0
    BY <1>1, <2>1, ConstantsAssumption
  <2>2. CASE e >= 1
    <3> HIDE DEF e
    <3>1. e * kMoveBy - e >= kMoveBy - 1
      BY <1>1, <2>2, ConstantsAssumption, SMT
    <3> QED BY <1>1, <3>1, ConstantsAssumption
  <2> QED BY <1>1, <2>1, <2>2
<1>3. Unlikelier(p) = p - e
  BY DEF Unlikelier
<1> QED BY <1>1, <1>2, <1>3, ConstantsAssumption

(* The bound leaves so much on both of its sides that one byte more brings *)
(* either of them back to kTopValue.                                       *)
LEMMA BoundInside ==
  ASSUME RangeWide, ProbsInside, NEW ctx \in Ctx
  PROVE  /\ bound(ctx) \in Nat
         /\ 0 < bound(ctx) /\ bound(ctx) < range
         /\ bound(ctx) * Base >= kTopValue
         /\ (range - bound(ctx)) * Base >= kTopValue
<1> DEFINE q == range \div kBitModelTotal
           k == kTopValue \div kBitModelTotal
           p == prob[ctx]
           least == kMoveBy - 1
<1>1. /\ range \in Nat /\ range >= kTopValue
      /\ q \in Nat /\ q * kBitModelTotal <= range
      /\ range < q * kBitModelTotal + kBitModelTotal
  BY ConstantsAssumption, Quotient DEF RangeWide, RangeSize
<1>2. k \in Nat /\ k * kBitModelTotal = kTopValue /\ k >= 1
  BY ConstantsAssumption, SMT
<1>3. p \in Nat /\ least \in Nat /\ least >= 1 /\ least <= p /\ p + least <= kBitModelTotal
  BY ConstantsAssumption DEF ProbsInside
<1>4. bound(ctx) = q * p
  BY DEF bound
<1> HIDE DEF q, k, p, least
<1>5. q >= k
  <2> SUFFICES ASSUME q + 1 <= k PROVE FALSE
    BY <1>1, <1>2
  <2>1. (q + 1) * kBitModelTotal <= k * kBitModelTotal
    BY <1>1, <1>2, ProductGrows, ConstantsAssumption
  <2>2. (q + 1) * kBitModelTotal = q * kBitModelTotal + kBitModelTotal
    BY <1>1, ConstantsAssumption, SMT
  <2> QED BY <1>1, <1>2, <2>1, <2>2, ConstantsAssumption, SMT
<1>6. q * least \in Nat /\ q * p \in Nat /\ q * least >= 1 /\ q * least <= q * p
  <2>1. q * least <= q * p
    BY <1>1, <1>3, ProductGrows
  <2>2. 1 * 1 <= q * least
    BY <1>1, <1>2, <1>3, <1>5, ProductGrows
  <2>3. q * least \in Nat /\ q * p \in Nat
    BY <1>1, <1>3, SMT
  <2> QED BY <2>1, <2>2, <2>3
<1>7. q * p + q * least <= range
  <2>1. q * (p + least) <= q * kBitModelTotal
    BY <1>1, <1>3, ProductGrows, ConstantsAssumption
  <2>2. q * (p + least) = q * p + q * least
    BY <1>1, <1>3, SMT
  <2> QED BY <1>1, <1>6, <2>1, <2>2, ConstantsAssumption, SMT
<1>8. (q * least) * Base >= kTopValue
  <2>1. k * kBitModelTotal <= q * (least * Base)
    <3>1. least * Base \in Nat /\ kBitModelTotal <= least * Base
      BY ConstantsAssumption, <1>3 DEF least
    <3> QED BY <1>1, <1>2, <1>5, <3>1, ProductGrows, ConstantsAssumption
  <2>2. q * (least * Base) = (q * least) * Base
    BY <1>1, <1>3, ConstantsAssumption, SMT
  <2> QED BY <1>2, <2>1, <2>2
<1>9. (q * least) * Base <= (q * p) * Base
  BY <1>6, ProductGrows, ConstantsAssumption
<1>10. (q * least) * Base <= (range - q * p) * Base
  <2>1. range - q * p \in Nat /\ q * least <= range - q * p
    BY <1>1, <1>6, <1>7
  <2> QED BY <1>6, <2>1, ProductGrows, ConstantsAssumption
<1>11. (q * p) * Base \in Nat /\ (range - q * p) * Base \in Int /\ (q * least) * Base \in Nat
  BY <1>1, <1>6, ConstantsAssumption, SMT
<1>12. (q * p) * Base >= kTopValue /\ (range - q * p) * Base >= kTopValue
  <2> DEFINE x == (q * p) * Base
             y == (range - q * p) * Base
             z == (q * least) * Base
  <2>1. x \in Int /\ y \in Int /\ z \in Int /\ z >= kTopValue /\ z <= x /\ z <= y
    BY <1>8, <1>9, <1>10, <1>11
  <2> HIDE DEF x, y, z
  <2>2. x >= kTopValue /\ y >= kTopValue
    BY <2>1, ConstantsAssumption
  <2> QED BY <2>2 DEF x, y
<1> QED BY <1>1, <1>4, <1>6, <1>7, <1>12

(* One normalisation brings Range back to kTopValue and, when Code was     *)
(* below, keeps it below without dropping a bit.                           *)
LEMMA Normalized ==
  ASSUME NEW r \in Nat, NEW c \in Nat, extraBytes \in BOOLEAN,
         r < RangeSize, c < RangeSize, r * Base >= kTopValue,
         RC_NORMALIZE(r, c)
  PROVE  /\ range' \in kTopValue..RangeSize - 1
         /\ code' \in 0..RangeSize - 1
         /\ extraBytes' \in BOOLEAN
         /\ c < r => code' < range'
<1>1. RangeSize \in Nat /\ RangeSize > 0
  BY ConstantsAssumption, SMT DEF RangeSize
<1>2. CASE r >= kTopValue /\ range' = r /\ code' = c /\ UNCHANGED extraBytes
  BY <1>1, <1>2, ConstantsAssumption
<1>3. CASE r < kTopValue
  <2>1. PICK byte \in 0..Base - 1 :
          /\ RangeDecoderReadByte(byte)
          /\ range' = (r * Base) % RangeSize
          /\ code' = (c * Base + byte) % RangeSize
    BY <1>3, ConstantsAssumption DEF RC_NORMALIZE
  <2>2. extraBytes' \in BOOLEAN
    BY <2>1 DEF RangeDecoderReadByte
  <2>3. r * Base \in Nat /\ c * Base + byte \in Nat
    BY ConstantsAssumption, SMT
  <2>4. r * Base < RangeSize
    <3>1. (r + 1) * Base <= kTopValue * Base
      BY <1>3, ProductGrows, ConstantsAssumption
    <3>2. (r + 1) * Base = r * Base + Base
      BY ConstantsAssumption, SMT
    <3> QED BY <2>3, <3>1, <3>2, ConstantsAssumption, SMT DEF RangeSize
  <2>5. range' = r * Base
    BY <1>1, <2>1, <2>3, <2>4, SMT
  <2>6. code' \in 0..RangeSize - 1
    BY <1>1, <2>1, <2>3, SMT
  <2>7. ASSUME c < r PROVE code' < range'
    <3>1. (c + 1) * Base <= r * Base
      BY <2>7, ProductGrows, ConstantsAssumption
    <3>2. (c + 1) * Base = c * Base + Base
      BY ConstantsAssumption, SMT
    <3>3. c * Base + byte < r * Base
      BY <2>3, <3>1, <3>2, ConstantsAssumption, SMT
    <3>4. code' = c * Base + byte
      BY <1>1, <2>1, <2>3, <2>4, <3>3, SMT
    <3> QED BY <2>5, <3>3, <3>4
  <2> QED BY <1>1, <2>2, <2>3, <2>4, <2>5, <2>6, <2>7, ConstantsAssumption
<1> QED BY <1>2, <1>3 DEF RC_NORMALIZE

-----------------------------------------------------------------------------
LEMMA RangeInitOK == RangeInit => IInv
<1> SUFFICES ASSUME RangeInit PROVE IInv
  OBVIOUS
<1>1. RangeSize \in Nat /\ RangeSize - 1 >= kTopValue
  <2>1. kTopValue * 4 <= kTopValue * Base
    BY ProductGrows, ConstantsAssumption
  <2> QED BY <2>1, ConstantsAssumption, SMT DEF RangeSize
<1>2. RangeWide
  BY <1>1, ConstantsAssumption DEF RangeInit, RangeWide
<1>3. kBitModelTotal \div 2 \in (kMoveBy - 1)..(kBitModelTotal - kMoveBy + 1)
  BY ConstantsAssumption, SMT
<1>4. ProbsInside
  BY <1>3 DEF RangeInit, ProbsInside
<1> QED BY <1>2, <1>4 DEF RangeInit, IInv

(* What each of the three ways to get a bit does. *)
LEMMA ZeroOK ==
  ASSUME IInv, NEW ctx \in Ctx, DecodeZero(ctx)
  PROVE  IInv' /\ code' < range'
<1>1. range \in Nat /\ range < RangeSize /\ code \in Nat /\ code < RangeSize /\ RangeSize \in Nat
  BY ConstantsAssumption, SMT DEF IInv, RangeWide, RangeSize
<1>2. /\ bound(ctx) \in Nat /\ bound(ctx) < range /\ bound(ctx) * Base >= kTopValue
      /\ code < bound(ctx)
  BY BoundInside DEF IInv, DecodeZero
<1>3. /\ range' \in kTopValue..RangeSize - 1
      /\ code' \in 0..RangeSize - 1
      /\ extraBytes' \in BOOLEAN
      /\ code' < range'
  <2>1. RC_NORMALIZE(bound(ctx), code) /\ extraBytes \in BOOLEAN /\ bound(ctx) < RangeSize
    BY <1>1, <1>2 DEF DecodeZero, IInv
  <2> HIDE DEF bound
  <2> QED BY <1>1, <1>2, <2>1, Normalized
<1>4. ProbsInside'
  BY Likely DEF IInv, ProbsInside, DecodeZero
<1> QED BY <1>3, <1>4 DEF IInv, RangeWide, RangeSize

LEMMA OneOK ==
  ASSUME IInv, NEW ctx \in Ctx, DecodeOne(ctx)
  PROVE  IInv' /\ (code < range => code' < range')
<1>1. range \in Nat /\ range < RangeSize /\ code \in Nat /\ code < RangeSize /\ RangeSize \in Nat
  BY ConstantsAssumption, SMT DEF IInv, RangeWide, RangeSize
<1>2. /\ bound(ctx) \in Nat /\ bound(ctx) < range
      /\ (range - bound(ctx)) * Base >= kTopValue
      /\ code >= bound(ctx)
  BY BoundInside DEF IInv, DecodeOne
<1>3. /\ range' \in kTopValue..RangeSize - 1
      /\ code' \in 0..RangeSize - 1
      /\ extraBytes' \in BOOLEAN
      /\ code - bound(ctx) < range - bound(ctx) => code' < range'
  <2>1. /\ RC_NORMALIZE(range - bound(ctx), code - bound(ctx)) /\ extraBytes \in BOOLEAN
        /\ range - bound(ctx) \in Nat /\ range - bound(ctx) < RangeSize
        /\ code - bound(ctx) \in Nat /\ code - bound(ctx) < RangeSize
    BY <1>1, <1>2 DEF DecodeOne, IInv
  <2> QED BY <1>2, <2>1, Normalized
<1>4. ProbsInside'
  BY Unlikely DEF IInv, ProbsInside, DecodeOne
<1> QED BY <1>1, <1>2, <1>3, <1>4 DEF IInv, RangeWide, RangeSize

LEMMA DirectOK ==
  ASSUME IInv, DirectBit
  PROVE  IInv' /\ (code < range => code' < range' \/ (range % 2 = 1 /\ code = range - 1))
<1> DEFINE half == range \div 2
<1>1. /\ range \in Nat /\ range < RangeSize /\ range >= kTopValue
      /\ code \in Nat /\ code < RangeSize /\ RangeSize \in Nat
  BY ConstantsAssumption, SMT DEF IInv, RangeWide, RangeSize
<1>2. /\ half \in Nat /\ half < RangeSize
      /\ range = 2 * half \/ (range = 2 * half + 1 /\ range % 2 = 1)
  BY <1>1, SMT
<1>3. half * Base >= kTopValue
  <2>1. half * 4 <= half * Base
    BY <1>2, ProductGrows, ConstantsAssumption
  <2>2. half * Base \in Nat
    BY <1>2, ConstantsAssumption, SMT
  <2> HIDE DEF half
  <2> QED BY <1>1, <1>2, <2>1, <2>2, ConstantsAssumption
<1>4. PICK c \in Nat :
        /\ RC_NORMALIZE(half, c)
        /\ c < RangeSize
        /\ (code < half /\ c = code) \/ (code >= half /\ c = code - half)
  <2> HIDE DEF half
  <2>1. CASE code < half /\ RC_NORMALIZE(half, code)
    <3> USE <1>1
    <3> WITNESS code \in Nat
    <3> QED BY <1>1, <2>1
  <2>2. CASE code >= half /\ RC_NORMALIZE(half, code - half)
    <3>1. code - half \in Nat
      BY <1>1, <1>2, <2>2
    <3> USE <3>1
    <3> WITNESS code - half \in Nat
    <3> QED BY <1>1, <1>2, <2>2
  <2> QED BY <2>1, <2>2 DEF DirectBit, half
<1>5. /\ range' \in kTopValue..RangeSize - 1
      /\ code' \in 0..RangeSize - 1
      /\ extraBytes' \in BOOLEAN
      /\ c < half => code' < range'
  <2> HIDE DEF half
  <2> QED BY <1>2, <1>3, <1>4, Normalized DEF IInv
<1>6. ProbsInside'
  BY DEF IInv, ProbsInside, DirectBit
<1> HIDE DEF half
<1>7. code < range => c < half \/ (range % 2 = 1 /\ code = range - 1)
  BY <1>1, <1>2, <1>4
<1> QED BY <1>5, <1>6, <1>7 DEF IInv, RangeWide, RangeSize

LEMMA RangeStepOK == IInv /\ [RangeNext]_rangeVars => IInv'
<1> SUFFICES ASSUME IInv, [RangeNext]_rangeVars PROVE IInv'
  OBVIOUS
<1>1. CASE UNCHANGED rangeVars
  BY <1>1 DEF rangeVars, IInv, RangeWide, ProbsInside
<1> QED BY <1>1, ZeroOK, OneOK, DirectOK DEF RangeNext

(* Range stays wide, probabilities stay inside and Code in its width, for  *)
(* any input and any sequence of bits that is decoded from it: LzmaDecode  *)
(* needs no loop to normalise.                                             *)
THEOREM Normalisation == RangeSpec => []IInv
BY RangeInitOK, RangeStepOK, PTL DEF RangeSpec

(* Both values of a bit are always possible: no input brings the decoder   *)
(* to a point where the next bit of a context is settled beforehand.       *)
THEOREM NoBitSettled == RangeSpec => []BothBits
<1>1. IInv => BothBits
  BY BoundInside DEF IInv, BothBits
<1> QED BY <1>1, Normalisation, PTL

(* Code stays below Range, with the one exception of a direct bit.         *)
THEOREM CodeBelow == RangeSpec => CodeStaysBelow
<1>1. IInv /\ [RangeNext]_rangeVars =>
        [code < range =>
           code' < range' \/ (DirectBit /\ range % 2 = 1 /\ code = range - 1)]_rangeVars
  BY ZeroOK, OneOK, DirectOK DEF RangeNext
<1> QED BY <1>1, Normalisation, PTL DEF RangeSpec, CodeStaysBelow
=============================================================================
