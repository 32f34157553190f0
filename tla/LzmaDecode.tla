----------------------------- MODULE LzmaDecode -----------------------------
(***************************************************************************)
(* The decoder of src/LzmaDecode.c, as src/un7zip.c and other clients call *)
(* it.  The range coder is RangeDecoder; here it may hand out any bits,    *)
(* and may run out of input at any of them.  A turn of the decoding loop   *)
(* is a step, and so is each byte that it copies.  The build is the one of *)
(* the repository: neither _LZMA_IN_CB nor _LZMA_OUT_READ is defined.      *)
(***************************************************************************)
EXTENDS LzmaBits

CONSTANTS
  Prop0s,      \* the first bytes of the headers
  OutSizes,    \* bound: the sizes in the headers
  Junk         \* what a variable holds before any write

ASSUME HeaderAssumption ==
  /\ Prop0s \subseteq 0..255
  /\ OutSizes \subseteq 0..UInt32 - 1
  /\ Junk \notin Int

VARIABLES
  pc,                 \* "idle", "loop", "copy" or "returned"
  caller,             \* "un7zip", or another "client" of LzmaDecode
  lc, lp, pb,         \* the properties of the stream
  outSize,
  state, previousIsMatch, previousByte,
  rep0, rep1, rep2, rep3,
  len,                \* the bytes still to be copied
  out,                \* the bytes written to outStream
  extra,              \* ExtraBytes
  result,             \* the value that was returned
  processed,          \* *outSizeProcessed
  stored              \* the word that un7zip stores at buf

params  == <<caller, lc, lp, pb, outSize>>
reps    == <<rep0, rep1, rep2, rep3>>
locals  == <<state, previousIsMatch, previousByte, reps, len, out>>
results == <<result, processed, stored>>
vars    == <<pc, params, locals, extra, results>>

LZMA_RESULT_OK == 0
LZMA_RESULT_DATA_ERROR == 1
LZMA_RESULT_NOT_ENOUGH_MEM == 2

nowPos == Len(out)

(* The byte of outStream at distance d before nowPos. *)
Back(d) == out[nowPos - d + 1]

posState == nowPos % 2^pb

-----------------------------------------------------------------------------
(* The calls.  un7zip rejects a first byte that is too large, returning 1; *)
(* it asks for as much memory as LzmaDecode will use, other clients may    *)
(* have given less.                                                        *)
Init ==
  /\ pc = "idle" /\ caller = "client"
  /\ lc = 0 /\ lp = 0 /\ pb = 0 /\ outSize = 0
  /\ state = 0 /\ previousIsMatch = FALSE /\ previousByte = 0
  /\ rep0 = 1 /\ rep1 = 1 /\ rep2 = 1 /\ rep3 = 1
  /\ len = 0 /\ out = <<>>
  /\ extra = FALSE
  /\ result = Junk /\ processed = Junk /\ stored = Junk

sizeOfCProb == 2

(* Slip: counted in probabilities. *)
lzmaInternalSizeInProbs(n) == LZMA_BASE_SIZE + LZMA_LIT_SIZE * 2^n

(* What un7zip allows LzmaDecode to use, for lc + lp = n. *)
lzmaInternalSize(n) == (LZMA_BASE_SIZE + LZMA_LIT_SIZE * 2^n) * sizeOfCProb

(* The part of LzmaDecode before its loop.  Filling Code may already have  *)
(* gone past the end of the input.                                         *)
Start(bufferSize) ==
  \/ /\ bufferSize < NumProbs(lc' + lp') * sizeOfCProb
     /\ pc' = "returned" /\ result' = LZMA_RESULT_NOT_ENOUGH_MEM
     /\ UNCHANGED <<extra, processed>>
  \/ /\ bufferSize >= NumProbs(lc' + lp') * sizeOfCProb
     /\ pc' = "loop" /\ processed' = 0
     /\ extra' \in BOOLEAN
     /\ UNCHANGED result

un7zip(prop0, size) ==
  /\ pc = "idle"
  /\ caller' = "un7zip"
  /\ \/ /\ prop0 >= 9 * 5 * 5
        /\ pc' = "returned" /\ result' = 1
        /\ UNCHANGED <<lc, lp, pb, outSize, extra, processed>>
     \/ /\ prop0 < 9 * 5 * 5
        /\ pb' = prop0 \div 45
        /\ lp' = (prop0 % 45) \div 9
        /\ lc' = prop0 % 9
        /\ outSize' = size
        /\ Start(lzmaInternalSize(lc' + lp'))
  /\ UNCHANGED <<locals, stored>>

LzmaDecode(prop0, size, bufferSize) ==
  /\ pc = "idle" /\ prop0 < 9 * 5 * 5
  /\ caller' = "client"
  /\ pb' = prop0 \div 45
  /\ lp' = (prop0 % 45) \div 9
  /\ lc' = prop0 % 9
  /\ outSize' = size
  /\ Start(bufferSize)
  /\ UNCHANGED <<locals, stored>>

(* A return of LzmaDecode, and what un7zip stores then. *)
Return(value, written) ==
  /\ pc' = "returned"
  /\ result' = value
  /\ processed' = written
  /\ stored' = IF caller = "un7zip" THEN written ELSE stored
  /\ UNCHANGED <<params, locals>>

-----------------------------------------------------------------------------
(* The loop. *)
Ends ==
  /\ pc = "loop" /\ nowPos >= outSize
  /\ Return(LZMA_RESULT_OK, nowPos)
  /\ UNCHANGED extra

InputEnded ==
  /\ pc = "loop" /\ nowPos < outSize /\ extra
  /\ Return(LZMA_RESULT_DATA_ERROR, 0)
  /\ UNCHANGED extra

Turn == pc = "loop" /\ nowPos < outSize /\ ~extra /\ extra' \in BOOLEAN

(* Where the bits are looked up that tell literals and matches apart. *)
FlagPlaces ==
  <<IsMatch + state * 16 + posState, IsRep + state, IsRepG0 + state, IsRepG1 + state,
    IsRepG2 + state, IsRep0Long + state * 16 + posState>>

LiteralPlace ==
  Literal + LZMA_LIT_SIZE * ((nowPos % 2^lp) * 2^lc + previousByte \div 2^(8 - lc))

(* The literals that may be decoded now. *)
Literals ==
  {IF previousIsMatch THEN LiteralDecodeMatch(bits, Back(rep0)) ELSE LiteralDecode(bits) :
     bits \in Bits8}

(* Slip: previousIsMatch stays. *)
DecodeLiteralStillMatch ==
  /\ Turn
  /\ state' = IF state < 4 THEN 0 ELSE IF state < 10 THEN state - 3 ELSE state - 6
  /\ previousByte' \in {literal.symbol : literal \in Literals}
  /\ out' = Append(out, previousByte')
  /\ UNCHANGED <<pc, params, previousIsMatch, reps, len, results>>

(* Slip: nowPos is not incremented. *)
DecodeLiteralInPlace ==
  /\ Turn
  /\ state' = IF state < 4 THEN 0 ELSE IF state < 10 THEN state - 3 ELSE state - 6
  /\ previousIsMatch' = FALSE
  /\ previousByte' \in {literal.symbol : literal \in Literals}
  /\ UNCHANGED <<pc, params, reps, len, out, results>>

DecodeLiteral ==
  /\ Turn
  /\ state' = IF state < 4 THEN 0 ELSE IF state < 10 THEN state - 3 ELSE state - 6
  /\ previousIsMatch' = FALSE
  /\ previousByte' \in {literal.symbol : literal \in Literals}
  /\ out' = Append(out, previousByte')
  /\ UNCHANGED <<pc, params, reps, len, results>>

(* A single byte at the last distance. *)
ShortRep ==
  /\ Turn
  /\ \/ nowPos = 0 /\ Return(LZMA_RESULT_DATA_ERROR, 0)
     \/ /\ nowPos # 0
        /\ state' = IF state < 7 THEN 9 ELSE 11
        /\ previousIsMatch' = TRUE
        /\ previousByte' = Back(rep0)
        /\ out' = Append(out, previousByte')
        /\ UNCHANGED <<pc, params, reps, len, results>>

(* Slip: the distances are not tested. *)
FoundUntested(newState, length, newReps) ==
  \/ newReps[1] = 0 /\ Return(LZMA_RESULT_OK, nowPos)
  \/ /\ newReps[1] # 0 /\ nowPos # 0
     /\ state' = newState
     /\ previousIsMatch' = TRUE
     /\ rep0' = newReps[1] /\ rep1' = newReps[2] /\ rep2' = newReps[3] /\ rep3' = newReps[4]
     /\ len' = length + 2
     /\ pc' = "copy"
     /\ UNCHANGED <<params, previousByte, out, results>>

(* Slip: kMatchMinLen is not added. *)
FoundShort(newState, length, newReps) ==
  \/ newReps[1] = 0 /\ Return(LZMA_RESULT_OK, nowPos)
  \/ newReps[1] > nowPos /\ Return(LZMA_RESULT_DATA_ERROR, 0)
  \/ /\ newReps[1] \in 1..nowPos
     /\ state' = newState
     /\ previousIsMatch' = TRUE
     /\ rep0' = newReps[1] /\ rep1' = newReps[2] /\ rep2' = newReps[3] /\ rep3' = newReps[4]
     /\ len' = length
     /\ pc' = "copy"
     /\ UNCHANGED <<params, previousByte, out, results>>

(* The part after a length and a distance were decoded: a distance of 0    *)
(* ends the stream, one beyond what was written is an error, and any other *)
(* one starts the copying.                                                 *)
Found(newState, length, newReps) ==
  \/ newReps[1] = 0 /\ Return(LZMA_RESULT_OK, nowPos)
  \/ newReps[1] > nowPos /\ Return(LZMA_RESULT_DATA_ERROR, 0)
  \/ /\ newReps[1] \in 1..nowPos
     /\ state' = newState
     /\ previousIsMatch' = TRUE
     /\ rep0' = newReps[1] /\ rep1' = newReps[2] /\ rep2' = newReps[3] /\ rep3' = newReps[4]
     /\ len' = length + 2
     /\ pc' = "copy"
     /\ UNCHANGED <<params, previousByte, out, results>>

Lengths(p) == {length.symbol : length \in LenDecode(p, posState)}

(* The last distance but which moves to the front. *)
MovedToFront(which) ==
  CASE which = 0 -> reps
    [] which = 1 -> <<rep1, rep0, rep2, rep3>>
    [] which = 2 -> <<rep2, rep0, rep1, rep3>>
    [] which = 3 -> <<rep3, rep0, rep1, rep2>>

RepMatch ==
  /\ Turn
  /\ \E length \in Lengths(RepLenCoder), which \in 0..3 :
       Found(IF state < 7 THEN 8 ELSE 11, length, MovedToFront(which))

Match ==
  /\ Turn
  /\ \E length \in Lengths(LenCoder) :
       \E distance \in DistanceSymbols :
         Found(IF state < 7 THEN 7 ELSE 10, length, <<distance, rep0, rep1, rep2>>)

(* Slip: the whole length is copied. *)
CopyAll ==
  /\ pc = "copy"
  /\ previousByte' = Back(rep0)
  /\ out' = Append(out, previousByte')
  /\ len' = len - 1
  /\ pc' = IF len' > 0 THEN "copy" ELSE "loop"
  /\ UNCHANGED <<params, state, previousIsMatch, reps, extra, results>>

(* A turn of the copying loop. *)
Copy ==
  /\ pc = "copy"
  /\ previousByte' = Back(rep0)
  /\ out' = Append(out, previousByte')
  /\ len' = len - 1
  /\ pc' = IF len' > 0 /\ nowPos + 1 < outSize THEN "copy" ELSE "loop"
  /\ UNCHANGED <<params, state, previousIsMatch, reps, extra, results>>

-----------------------------------------------------------------------------
Call ==
  \E prop0 \in Prop0s, size \in OutSizes :
    \/ un7zip(prop0, size)
    \/ \E bufferSize \in {0, lzmaInternalSize(12)} : LzmaDecode(prop0, size, bufferSize)

Work == Ends \/ InputEnded \/ DecodeLiteral \/ ShortRep \/ RepMatch \/ Match \/ Copy

Next == Call \/ Work

Spec == Init /\ [][Next]_vars

(* A call that began goes on. *)
FairSpec == Spec /\ WF_vars(Work)

-----------------------------------------------------------------------------
Running == pc \in {"loop", "copy"}

TypeOK ==
  /\ pc \in {"idle", "loop", "copy", "returned"}
  /\ caller \in {"un7zip", "client"}
  /\ lc \in 0..8 /\ lp \in 0..4 /\ pb \in 0..4
  /\ outSize \in OutSizes \cup {0}
  /\ state \in 0..kNumStates - 1
  /\ previousIsMatch \in BOOLEAN /\ extra \in BOOLEAN
  /\ previousByte \in 0..255
  /\ out \in Seq(0..255)
  /\ rep0 \in Nat /\ rep1 \in Nat /\ rep2 \in Nat /\ rep3 \in Nat
  /\ len \in Nat
  /\ pc = "copy" => len > 0
  /\ result \in {Junk, 0, 1, 2}
  /\ processed \in Nat \cup {Junk} /\ stored \in Nat \cup {Junk}

(* The decoder reads only what it wrote, and writes no more than it was    *)
(* asked for: the four distances, which different turns set and exchange,  *)
(* never exceed what was written, but for the 1 that they start with,      *)
(* and that one is not used before a byte was written.                     *)
WindowSafe ==
  Running =>
    /\ nowPos <= outSize
    /\ \A r \in {rep0, rep1, rep2, rep3} : r = 1 \/ r \in 1..nowPos
    /\ previousIsMatch \/ pc = "copy" => rep0 \in 1..nowPos
    /\ pc = "copy" => nowPos < outSize

(* previousIsMatch, which each branch sets for itself, says the same as    *)
(* the state that the branches compute: the states from 7 on are those     *)
(* after a match.                                                          *)
StatesAgree == Running => (previousIsMatch <=> state >= 7)

(* previousByte is the last byte written, whichever branch wrote it: the   *)
(* table for the next literal depends on it.                               *)
PreviousByteFresh ==
  Running => previousByte = IF nowPos = 0 THEN 0 ELSE out[nowPos]

(* What the next turn decodes by is the same whichever branches ran.       *)
BranchesAgree == StatesAgree /\ PreviousByteFresh

FlagTables == <<IsMatch, IsRep, IsRepG0, IsRepG1, IsRepG2, IsRep0Long, PosSlot>>

(* The probabilities lie inside of the memory that un7zip computes, and    *)
(* those of different kinds of symbols never coincide.                     *)
TablesApart ==
  pc = "loop" /\ nowPos < outSize =>
    /\ \A i \in 1..6 : FlagPlaces[i] \in FlagTables[i]..FlagTables[i + 1] - 1
    /\ \A length \in LenDecode(LenCoder, posState) : length.used \subseteq LenCoder..RepLenCoder - 1
    /\ \A length \in LenDecode(RepLenCoder, posState) : length.used \subseteq RepLenCoder..Literal - 1
    /\ \A c \in LenClasses, slot \in Slots : SlotPath(c, slot) \subseteq PosSlot..SpecPos - 1
    /\ \A slot \in Slots :
         DistancePlaces[slot] \subseteq
           IF slot < kEndPosModelIndex THEN SpecPos..Align - 1 ELSE Align..LenCoder - 1
    /\ \A s \in 0..kEndPosModelIndex - 1, t \in Slots :
         s # t => DistancePlaces[s] \cap DistancePlaces[t] = {}
    /\ \A literal \in Literals :
         At(LiteralPlace, literal.used) \subseteq Literal..NumProbs(lc + lp) - 1

(* In any turn of the loop every distance can be decoded, each from one    *)
(* string of bits, and what precedes the wrap to 0 is the largest of them. *)
DistancesOnce ==
  pc = "loop" =>
    /\ DistanceSymbols = 0..UInt32 - 1
    /\ Cardinality(DistanceCodes) = UInt32

(* The size that un7zip stores is what was written, 0 after an error, and  *)
(* never a value that LzmaDecode did not write: it is given enough memory. *)
SizeReported ==
  pc = "returned" /\ caller = "un7zip" =>
    /\ result \in {LZMA_RESULT_OK, LZMA_RESULT_DATA_ERROR}
    /\ result = LZMA_RESULT_OK => stored = nowPos /\ nowPos <= outSize
    /\ result = LZMA_RESULT_DATA_ERROR => stored = 0 \/ (stored = Junk /\ out = <<>>)

(* Every call returns. *)
Returns == Running ~> pc = "returned"

(* The decoder implements Lz77.  A copy that goes on byte by byte counts   *)
(* as done when its first byte is copied.                                  *)
Extended(seq, d, n) ==
  [i \in 1..Len(seq) + n |->
     IF i <= Len(seq) THEN seq[i]
     ELSE seq[Len(seq) - d + 1 + ((i - Len(seq) - 1) % d)]]

AbsOut ==
  IF pc = "copy"
    THEN Extended(out, rep0, IF len < outSize - nowPos THEN len ELSE outSize - nowPos)
    ELSE out

Abs == INSTANCE Lz77 WITH output <- AbsOut, size <- outSize, verdict <- result

ImplementsLz77 == Abs!AbsSpec
=============================================================================
