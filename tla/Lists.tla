------------------------------- MODULE Lists -------------------------------
(***************************************************************************)
(* What src/link_list.h offers its clients, without links: for every head  *)
(* a sequence of entries, each entry on at most one of them.               *)
(***************************************************************************)
EXTENDS Naturals, Sequences, Functions

CONSTANTS ListHead, Entry

VARIABLE list    \* list[h]: the entries of the list with head h, in order

AbsInit == list = [h \in ListHead |-> <<>>]

On(e, h) == e \in Range(list[h])

AddFront(e, h) ==
  /\ \A g \in ListHead : ~On(e, g)
  /\ list' = [list EXCEPT ![h] = <<e>> \o @]

AddBack(e, h) ==
  /\ \A g \in ListHead : ~On(e, g)
  /\ list' = [list EXCEPT ![h] = Append(@, e)]

Without(s, i) == [k \in 1..Len(s) - 1 |-> IF k < i THEN s[k] ELSE s[k + 1]]

Take(e, h) ==
  \E i \in DOMAIN list[h] :
    /\ list[h][i] = e
    /\ list' = [list EXCEPT ![h] = Without(@, i)]

(* All of g's entries go to the front of h. *)
Splice(g, h) ==
  /\ g # h
  /\ list' = [list EXCEPT ![h] = list[g] \o @, ![g] = <<>>]

(* Another entry in the place of e, another head for g's entries. *)
Swap(e, f, h) ==
  \E i \in DOMAIN list[h] :
    /\ list[h][i] = e
    /\ \A g \in ListHead : ~On(f, g)
    /\ list' = [list EXCEPT ![h] = [@ EXCEPT ![i] = f]]

Move(g, h) ==
  /\ list[h] = <<>>
  /\ list' = [list EXCEPT ![h] = list[g], ![g] = <<>>]

AbsNext ==
  \/ \E e \in Entry, h \in ListHead : AddFront(e, h) \/ AddBack(e, h) \/ Take(e, h)
  \/ \E e, f \in Entry, h \in ListHead : Swap(e, f, h)
  \/ \E g, h \in ListHead : Splice(g, h) \/ Move(g, h)

AbsSpec == AbsInit /\ [][AbsNext]_list
=============================================================================
