------------------------------- MODULE Chains -------------------------------
(***************************************************************************)
(* src/chaintest.c: main builds a single and a double chain and reverses   *)
(* both in place.  One turn of a loop is one action.                       *)
(*                                                                         *)
(* Nodes are numbered in the order of their malloc, and a node stands for  *)
(* its data too, which is the same number.  The loops that print walk the  *)
(* chains without changing them and are left out.                          *)
(***************************************************************************)
EXTENDS Integers

CONSTANTS
  Counts,     \* the values of cnt
  Unwritten   \* what malloc left in a field

NULL == -1

ASSUME CountsAssumption ==
  /\ Counts \subseteq Nat
  /\ Unwritten \notin Int

VARIABLES
  chainAt,   \* the function that runs, or "done"
  cnt,       \* how many nodes follow the first one
  next,      \* next[k]: of a node of the single chain
  l, r,      \* l[k] and r[k]: of a node of the double chain
  p, q,      \* the locals of both inverse functions, and PRE and tmp of init
  HEAD_S,    \* the first node of the single chain
  HEAD_D     \* the first node of the double chain

chainVars == <<chainAt, cnt, next, l, r, p, q, HEAD_S, HEAD_D>>

Node == 0..cnt

ChainsInit ==
  /\ chainAt = "initsinglechain"
  /\ cnt \in Counts
  /\ next = [k \in Node |-> Unwritten]
  /\ l = [k \in Node |-> Unwritten]
  /\ r = [k \in Node |-> Unwritten]
  /\ p = NULL /\ q = 0
  /\ HEAD_S = 0 /\ HEAD_D = 0

-----------------------------------------------------------------------------
(* Building.  q is tmp, the node malloc returned last; i = q in both loops. *)

SingleGrow ==
  /\ chainAt = "initsinglechain" /\ q < cnt
  /\ next' = [next EXCEPT ![q] = q + 1]
  /\ q' = q + 1
  /\ UNCHANGED <<chainAt, cnt, l, r, p, HEAD_S, HEAD_D>>

(* The last node ends the chain, and initdoublechain starts at its first.  *)
SingleGrown ==
  /\ chainAt = "initsinglechain" /\ q = cnt
  /\ next' = [next EXCEPT ![q] = NULL]
  /\ chainAt' = "initdoublechain"
  /\ p' = NULL /\ q' = 0
  /\ UNCHANGED <<cnt, l, r, HEAD_S, HEAD_D>>

(* p is PRE. *)
DoubleGrow ==
  /\ chainAt = "initdoublechain" /\ q < cnt
  /\ r' = [r EXCEPT ![q] = q + 1]
  /\ l' = [l EXCEPT ![q] = p]
  /\ p' = q /\ q' = q + 1
  /\ UNCHANGED <<chainAt, cnt, next, HEAD_S, HEAD_D>>

(* The end of initdoublechain and the first lines of inverse_single: the   *)
(* first node becomes the last.                                            *)
DoubleGrown ==
  /\ chainAt = "initdoublechain" /\ q = cnt
  /\ r' = [r EXCEPT ![q] = NULL]
  /\ l' = [l EXCEPT ![q] = p]
  /\ chainAt' = "inverse_single"
  /\ p' = HEAD_S /\ q' = next[HEAD_S]
  /\ next' = [next EXCEPT ![HEAD_S] = NULL]
  /\ UNCHANGED <<cnt, HEAD_S, HEAD_D>>

-----------------------------------------------------------------------------
(* Slip: next is read after it was overwritten. *)
SingleTurnLate ==
  /\ chainAt = "inverse_single" /\ q # NULL
  /\ next' = [next EXCEPT ![q] = p]
  /\ p' = q /\ q' = next'[q]
  /\ UNCHANGED <<chainAt, cnt, l, r, HEAD_S, HEAD_D>>

(* p heads what is reversed, q what is left: q moves from one to the other. *)
SingleTurn ==
  /\ chainAt = "inverse_single" /\ q # NULL
  /\ next' = [next EXCEPT ![q] = p]
  /\ p' = q /\ q' = next[q]
  /\ UNCHANGED <<chainAt, cnt, l, r, HEAD_S, HEAD_D>>

(* The end of inverse_single and the first lines of inverse_double. *)
SingleTurned ==
  /\ chainAt = "inverse_single" /\ q = NULL
  /\ HEAD_S' = p
  /\ chainAt' = "inverse_double"
  /\ p' = HEAD_D /\ q' = r[HEAD_D]
  /\ r' = [r EXCEPT ![HEAD_D] = NULL]
  /\ l' = [l EXCEPT ![HEAD_D] = r[HEAD_D]]
  /\ UNCHANGED <<cnt, next, HEAD_D>>

(* Slip: the link to the left stays as it was. *)
DoubleTurnRightOnly ==
  /\ chainAt = "inverse_double" /\ q # NULL
  /\ r' = [r EXCEPT ![q] = p]
  /\ p' = q /\ q' = r[q]
  /\ UNCHANGED <<chainAt, cnt, next, l, HEAD_S, HEAD_D>>

DoubleTurn ==
  /\ chainAt = "inverse_double" /\ q # NULL
  /\ r' = [r EXCEPT ![q] = p]
  /\ l' = [l EXCEPT ![q] = r[q]]
  /\ p' = q /\ q' = r[q]
  /\ UNCHANGED <<chainAt, cnt, next, HEAD_S, HEAD_D>>

DoubleTurned ==
  /\ chainAt = "inverse_double" /\ q = NULL
  /\ HEAD_D' = p
  /\ chainAt' = "done"
  /\ UNCHANGED <<cnt, next, l, r, p, q, HEAD_S>>

ChainsNext ==
  \/ SingleGrow \/ SingleGrown \/ DoubleGrow \/ DoubleGrown
  \/ SingleTurn \/ SingleTurned \/ DoubleTurn \/ DoubleTurned

ChainsSpec == ChainsInit /\ [][ChainsNext]_chainVars

-----------------------------------------------------------------------------
(* The chain from the first node to the last, and the other way round. *)
Up == [k \in Node |-> IF k = cnt THEN NULL ELSE k + 1]
Down == [k \in Node |-> IF k = 0 THEN NULL ELSE k - 1]

(* The nodes up to p hang on one another in the new order, and the others  *)
(* in the old one: at no turn is a node out of reach of p and q.           *)
Between(new, old) == [k \in Node |-> IF k <= p THEN new[k] ELSE old[k]]

(* A chain of which the nodes before q are built. *)
Built(f, whole) == \A k \in Node : k < q => f[k] = whole[k]

ChainsTypeOK ==
  /\ chainAt \in {"initsinglechain", "initdoublechain", "inverse_single",
                  "inverse_double", "done"}
  /\ cnt \in Counts
  /\ {next, l, r} \subseteq [Node -> Int \cup {Unwritten}]
  /\ p \in Node \cup {NULL} /\ q \in Node \cup {NULL}
  /\ HEAD_S \in Node /\ HEAD_D \in Node

Building ==
  /\ chainAt = "initsinglechain" =>
       /\ q \in Node /\ Built(next, Up)
       /\ HEAD_S = 0 /\ HEAD_D = 0
  /\ chainAt = "initdoublechain" =>
       /\ q \in Node /\ p = q - 1
       /\ next = Up /\ Built(r, Up) /\ Built(l, Down)
       /\ HEAD_S = 0 /\ HEAD_D = 0

Reversing ==
  /\ chainAt = "inverse_single" =>
       /\ p \in Node /\ q = Up[p]
       /\ next = Between(Down, Up) /\ r = Up /\ l = Down
       /\ HEAD_D = 0
  /\ chainAt = "inverse_double" =>
       /\ p \in Node /\ q = Up[p]
       /\ next = Down /\ HEAD_S = cnt
       /\ r = Between(Down, Up) /\ l = Between(Up, Down)

(* Both chains are reversed when main ends: the last node is the first,    *)
(* every link points to the node that came before, and the two directions  *)
(* of the double chain are each other's.  The loops rewrite the links they *)
(* walk along: one link read late or forgotten loses the rest.             *)
Reversed ==
  chainAt = "done" =>
    /\ HEAD_S = cnt /\ next = Down
    /\ HEAD_D = cnt /\ r = Down /\ l = Up

(* The inductive invariant: where each loop is says what every link is.    *)
ChainsIInv == ChainsTypeOK /\ Building /\ Reversing /\ Reversed
=============================================================================
