-------------------------------- MODULE Lz77 --------------------------------
(***************************************************************************)
(* What src/LzmaDecode.c promises, without bits, states and distances that *)
(* are remembered: the output grows by a byte or by a copy of what is at   *)
(* some distance before its end, which may overlap with the copy itself,   *)
(* and it never grows beyond the size that was asked for.                  *)
(***************************************************************************)
EXTENDS Integers, Sequences

CONSTANTS
  OutSizes,   \* the sizes that may be asked for
  Junk        \* no verdict yet

VARIABLES
  output,     \* the bytes so far
  size,       \* how many are wanted
  verdict     \* Junk, or what the call returned

absVars == <<output, size, verdict>>

(* seq with n more bytes, each the one d before it. *)
Extended(seq, d, n) ==
  [i \in 1..Len(seq) + n |->
     IF i <= Len(seq) THEN seq[i]
     ELSE seq[Len(seq) - d + 1 + ((i - Len(seq) - 1) % d)]]

AbsInit == output = <<>> /\ size = 0 /\ verdict = Junk

Ask ==
  /\ output = <<>> /\ size = 0 /\ verdict = Junk
  /\ size' \in OutSizes
  /\ verdict' \in {Junk, 2}
  /\ UNCHANGED output

Put ==
  /\ verdict = Junk /\ Len(output) < size
  /\ \E byte \in 0..255 : output' = Append(output, byte)
  /\ UNCHANGED <<size, verdict>>

CopyBack ==
  /\ verdict = Junk
  /\ \E d \in 1..Len(output), n \in 1..size - Len(output) : output' = Extended(output, d, n)
  /\ UNCHANGED <<size, verdict>>

(* The stream ends, at its size or at its end marker, or is not valid. *)
Finish == verdict = Junk /\ verdict' \in {0, 1} /\ UNCHANGED <<output, size>>

AbsNext == Ask \/ Put \/ CopyBack \/ Finish

AbsSpec == AbsInit /\ [][AbsNext]_absVars
=============================================================================
