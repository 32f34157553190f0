------------------------------ MODULE RdWrTest ------------------------------
(***************************************************************************)
(* src/rdwrtest/rdwrtest.c: two processes and one file.  The parent writes *)
(* a block of equal digits once a second, the child reads the same block   *)
(* once a second, and nothing orders the two.                              *)
(*                                                                         *)
(* The file is a sequence of half blocks, and a write or a read of a block *)
(* goes through the two halves in order: the kernel copies a block piece   *)
(* by piece, and lets the other process run in between.  It moves the end  *)
(* of the file after the copy.  lseek does not fail, and read only has     *)
(* less than a block to give when the file ends before it.                 *)
(***************************************************************************)
EXTENDS Integers

CONSTANTS
  Sizes,          \* sizes of the file at the start, in half blocks, or Absent
  MaxWrites       \* bound: the blocks that the parent writes

Absent == -1

ASSUME FileAssumption ==
  /\ Sizes \subseteq Nat \cup {Absent}
  /\ MaxWrites \in Nat

VARIABLES
  wAt,       \* the parent: "fork", "open", "write", "write on", "failed"
  rAt,       \* the child: "none", "open", "read", "read on", "success", or how it ended:
             \* "unopened" (its ret is 1) or "short" (its ret is 3)
  digit,     \* the parent's local i
  size,      \* how many half blocks the file has, or Absent
  half,      \* half[h]: what half h of the block at TSTBUFSIZE holds
  bufwr,     \* the child's buffer
  started,   \* history: how many writes the parent started
  written,   \* history: how many of them it finished
  before     \* history: how many were finished when the child began to read

fileVars == <<wAt, rAt, digit, size, half, bufwr, started, written, before>>

(* What a half may hold: the digit, and the number of the write that put   *)
(* it there, 0 for what was there before the program ran.                  *)
Old == [digit |-> 0, write |-> 0]

(* The block both processes use, and the size of the file that it makes. *)
Block == 1
EndOf(block) == 2 * (block + 1)

FileInit ==
  /\ wAt = "fork" /\ rAt = "none"
  /\ digit = 1
  /\ size \in Sizes
  /\ half = [h \in 1..2 |-> Old]
  /\ bufwr = [h \in 1..2 |-> Old]
  /\ started = 0 /\ written = 0 /\ before = 0

childVars == <<rAt, bufwr, before>>
parentVars == <<wAt, digit, half, started, written>>

AtLeast(n) == IF size < n THEN n ELSE size

-----------------------------------------------------------------------------
(* A fork that fails returns -1, which is not 0 either: the parent goes on *)
(* alone.                                                                  *)
Fork ==
  /\ wAt = "fork"
  /\ wAt' = "open"
  /\ rAt' \in {"open", "none"}
  /\ UNCHANGED <<digit, size, half, bufwr, started, written, before>>

(* Slip: the file is emptied by each open (O_TRUNC). *)
OpenToWriteEmptied ==
  /\ wAt = "open" /\ started < MaxWrites
  /\ \/ /\ size' = 0
        /\ digit' = IF digit + 1 > 9 THEN 0 ELSE digit + 1
        /\ started' = started + 1
        /\ wAt' = "write"
     \/ /\ wAt' = "failed"
        /\ UNCHANGED <<size, digit, started>>
  /\ UNCHANGED <<half, written, childVars>>

(* open makes the file if need be, and may fail.  The digits follow one    *)
(* another, 0 after 9.                                                     *)
OpenToWrite ==
  /\ wAt = "open" /\ started < MaxWrites
  /\ \/ /\ size' = AtLeast(0)
        /\ digit' = IF digit + 1 > 9 THEN 0 ELSE digit + 1
        /\ started' = started + 1
        /\ wAt' = "write"
     \/ /\ wAt' = "failed"
        /\ UNCHANGED <<size, digit, started>>
  /\ UNCHANGED <<half, written, childVars>>

PutHalf(h) == half' = [half EXCEPT ![h] = [digit |-> digit, write |-> started]]

WriteHalf ==
  /\ wAt = "write"
  /\ PutHalf(1)
  /\ wAt' = "write on"
  /\ UNCHANGED <<digit, size, started, written, childVars>>

(* The write is complete, and the parent closes the file and sleeps. *)
WriteRest ==
  /\ wAt = "write on"
  /\ PutHalf(2)
  /\ size' = AtLeast(EndOf(Block))
  /\ written' = started
  /\ wAt' = "open"
  /\ UNCHANGED <<digit, started, childVars>>

(* The disk is full before the block is written, or half way: the parent   *)
(* ends, and the child goes on.                                            *)
WriteFails ==
  /\ wAt \in {"write", "write on"}
  /\ size' = IF wAt = "write on" THEN AtLeast(EndOf(Block) - 1) ELSE size
  /\ wAt' = "failed"
  /\ UNCHANGED <<digit, half, started, written, childVars>>

-----------------------------------------------------------------------------
(* open fails without a file, and may fail over one that is there.         *)
OpenToRead ==
  /\ rAt \in {"open", "success"}
  /\ before' = written
  /\ \/ size # Absent /\ rAt' = "read"
     \/ rAt' = "unopened"
  /\ UNCHANGED <<parentVars, size, bufwr>>

(* Slip: the child reads at the digit it counts, as the parent once wrote. *)
ReadHalfElsewhere ==
  /\ rAt = "read"
  /\ IF size < EndOf(2)
       THEN rAt' = "short" /\ UNCHANGED bufwr
       ELSE /\ bufwr' = [bufwr EXCEPT ![1] = Old]
            /\ rAt' = "read on"
  /\ UNCHANGED <<parentVars, size, before>>

(* A file that does not reach to the end of the block makes read return    *)
(* less than a block, and the child ends.                                  *)
ReadHalf ==
  /\ rAt = "read"
  /\ IF size < EndOf(Block)
       THEN rAt' = "short" /\ UNCHANGED bufwr
       ELSE /\ bufwr' = [bufwr EXCEPT ![1] = half[1]]
            /\ rAt' = "read on"
  /\ UNCHANGED <<parentVars, size, before>>

ReadRest ==
  /\ rAt = "read on"
  /\ bufwr' = [bufwr EXCEPT ![2] = half[2]]
  /\ rAt' = "success"
  /\ UNCHANGED <<parentVars, size, before>>

Child == OpenToRead \/ ReadHalf \/ ReadRest

FileNext == Fork \/ OpenToWrite \/ WriteHalf \/ WriteRest \/ WriteFails \/ Child

FileSpec == FileInit /\ [][FileNext]_fileVars

(* The child is scheduled: it sleeps a second and goes on. *)
FairFileSpec == FileSpec /\ WF_fileVars(Child)

-----------------------------------------------------------------------------
DigitOf(n) == IF n = 0 THEN 0 ELSE (n + 1) % 10

(* What the child prints is never older than the last write that finished  *)
(* before it opened the file, and never from a write that was not begun.   *)
(* Both halves may come from different writes: the second is at most one   *)
(* older than the first, but may be any number of writes newer.  And each  *)
(* half shows the digit of its write.                                      *)
ReadsFresh ==
  rAt = "success" =>
    /\ \A h \in 1..2 :
         /\ bufwr[h].write \in before..started
         /\ bufwr[h].digit = DigitOf(bufwr[h].write)
    /\ bufwr[1].write <= bufwr[2].write + 1

(* Once the block is there, whatever the parent writes or however it ends, *)
(* a child that runs reads the block again and again, until an open fails: *)
(* it no longer finds the file too short.                                  *)
ReadsGoOn ==
  rAt \notin {"none", "unopened", "short"} /\ size >= EndOf(Block)
    ~> rAt \in {"success", "unopened"}

(* The inductive invariant: how far the parent and the child are says      *)
(* which writes the halves and the buffer are from.                        *)
Content == [digit : 0..9, write : Nat]

FileTypeOK ==
  /\ wAt \in {"fork", "open", "write", "write on", "failed"}
  /\ rAt \in {"none", "open", "read", "read on", "success", "unopened", "short"}
  /\ digit \in 0..9
  /\ size \in Nat \cup {Absent}
  /\ half \in [1..2 -> Content] /\ bufwr \in [1..2 -> Content]
  /\ started \in Nat /\ written \in Nat /\ before \in Nat

(* One write at most is under way, and it has the next digit. *)
WritesCounted ==
  /\ before <= written /\ written <= started /\ started <= written + 1
  /\ wAt \in {"fork", "open"} => started = written
  /\ wAt \in {"write", "write on"} => started = written + 1
  /\ digit = (started + 1) % 10

(* The first half is never behind the second, and both are from the last   *)
(* write that finished or the one under way.                               *)
HalvesInOrder ==
  /\ \A h \in 1..2 :
       half[h].write \in written..started /\ half[h].digit = DigitOf(half[h].write)
  /\ half[2].write <= half[1].write
  /\ wAt = "write on" => half[1].write = started

ReadInOrder ==
  /\ \A h \in 1..2 : bufwr[h].digit = DigitOf(bufwr[h].write)
  /\ rAt = "read on" =>
       bufwr[1].write \in before..started /\ bufwr[1].write <= half[2].write + 1

FileIInv == FileTypeOK /\ WritesCounted /\ HalvesInOrder /\ ReadInOrder /\ ReadsFresh
=============================================================================
