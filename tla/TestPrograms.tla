---------------------------- MODULE TestPrograms ----------------------------
(***************************************************************************)
(* The small programs of the repository that have a main of their own and  *)
(* share nothing: a user runs one of them.                                 *)
(***************************************************************************)
EXTENDS Chains, PrintMath, RdWrTest

VARIABLE program   \* the program that runs

programVars == <<program, chainVars, mathVars, fileVars>>

ProgramInit ==
  /\ program \in {"chaintest", "printmath", "rdwrtest"}
  /\ ChainsInit /\ MathInit /\ FileInit
  /\ program # "chaintest" => cnt = CHOOSE n \in Counts : TRUE
  /\ program # "rdwrtest" => size = CHOOSE n \in Sizes : TRUE

chaintest == program = "chaintest" /\ ChainsNext /\ UNCHANGED <<program, mathVars, fileVars>>
printmath == program = "printmath" /\ MathNext /\ UNCHANGED <<program, chainVars, fileVars>>
rdwrtest == program = "rdwrtest" /\ FileNext /\ UNCHANGED <<program, chainVars, mathVars>>

ProgramNext == chaintest \/ printmath \/ rdwrtest

(* The child of rdwrtest is scheduled. *)
ProgramSpec ==
  /\ ProgramInit /\ [][ProgramNext]_programVars
  /\ WF_programVars(rdwrtest /\ Child)

(* What a user may enter. *)
EnteredRanges == {-2, 0, 1, 2, 3, 5}
FileSizes == {Absent, 0, EndOf(Block) - 1, 20}
=============================================================================
