------------------------------ MODULE LinkList ------------------------------
(***************************************************************************)
(* The doubly linked lists of src/link_list.c.  A list is a ring of        *)
(* struct list_head through next and prev: its head and the entries on it. *)
(* An entry that list_del took off a ring, a head that list_splice emptied *)
(* and an element that list_replace overwrote keep pointing into the ring: *)
(* off is the client's knowledge of the elements it must not use as part   *)
(* of a list before it initialises or adds them again.                     *)
(***************************************************************************)

EXTENDS Naturals, Sequences, FiniteSets, Functions

CONSTANTS
  ListHead,   \* the elements that serve as heads of lists
  Entry,      \* the elements embedded in the client's objects
  Garbage     \* what the links of an element hold before any write

ASSUME ConstantsAssumption ==
  /\ ListHead \cap Entry = {}
  /\ Garbage \notin ListHead \cup Entry
  /\ IsFiniteSet(Entry)

Node == ListHead \cup Entry

VARIABLES
  next, prev,   \* the fields of struct list_head
  off           \* the elements on no ring

links == <<next, prev, off>>

list_empty(head) == next[head] = head

(* An element the client may link in: on no ring, or alone on its own. *)
Free(e) == e \in off \/ list_empty(e)

(* The client may link element b in where element a stands. *)
SameKind(a, b) == a \in ListHead <=> b \in ListHead

-----------------------------------------------------------------------------
(* LIST_HEAD initialises the heads, nothing the entries. *)
Init ==
  /\ next = [n \in Node |-> IF n \in ListHead THEN n ELSE Garbage]
  /\ prev = next
  /\ off = Entry

INIT_LIST_HEAD(n) ==
  /\ n \in off
  /\ next' = [next EXCEPT ![n] = n]
  /\ prev' = [prev EXCEPT ![n] = n]
  /\ off' = off \ {n}

(* A definition whose comment starts with "Slip" is one of the code's with *)
(* a mistake in it, which the properties must notice.                      *)

(* __list_add: entry goes between before and after. *)
__list_add(entry, before, after) ==
  /\ next' = [next EXCEPT ![entry] = after, ![before] = entry]
  /\ prev' = [prev EXCEPT ![after] = entry, ![entry] = before]
  /\ off' = off \ {entry}

list_add(entry, head) ==
  /\ Free(entry) /\ head \notin off
  /\ __list_add(entry, head, next[head])

(* Slip: a stack where a queue was meant. *)
list_add_tailAtFront(entry, head) ==
  /\ Free(entry) /\ head \notin off
  /\ __list_add(entry, head, next[head])

list_add_tail(entry, head) ==
  /\ Free(entry) /\ head \notin off
  /\ __list_add(entry, prev[head], head)

-----------------------------------------------------------------------------
(* list_del: the neighbours of entry point to each other, entry's own      *)
(* links stay as they were.                                                *)
list_del(entry) ==
  /\ entry \notin off
  /\ prev' = [prev EXCEPT ![next[entry]] = prev[entry]]
  /\ next' = [next EXCEPT ![prev[entry]] = next[entry]]
  /\ off' = off \cup {entry}

(* list_del_init: the same, then INIT_LIST_HEAD(entry). *)
list_del_init(entry) ==
  /\ entry \notin off
  /\ prev' = [prev EXCEPT ![next[entry]] = prev[entry], ![entry] = entry]
  /\ next' = [next EXCEPT ![prev[entry]] = next[entry], ![entry] = entry]
  /\ UNCHANGED off

-----------------------------------------------------------------------------
(* Slip: list_splice without the test for an empty list. *)
list_spliceUntested(list, head) ==
  LET first == next[list]
      last  == prev[list]
      at    == next[head]
  IN /\ list \notin off /\ head \notin off /\ list # head
     /\ prev' = [prev EXCEPT ![first] = head, ![at] = last]
     /\ next' = [next EXCEPT ![head] = first, ![last] = at]
     /\ off' = off \cup {list}

(* Slip: the entries of list go to the end of head's list. *)
list_spliceAtTail(list, head) ==
  LET first == next[list]
      last  == prev[list]
      at    == prev[head]
  IN /\ list \notin off /\ head \notin off /\ list # head /\ first # list
     /\ prev' = [prev EXCEPT ![first] = at, ![head] = last]
     /\ next' = [next EXCEPT ![at] = first, ![last] = head]
     /\ off' = off \cup {list}

(* list_splice: the entries of list go to the front of head's list.  The   *)
(* links of list itself stay as they were, unless it was empty.            *)
list_splice(list, head) ==
  LET first == next[list]
      last  == prev[list]
      at    == next[head]
  IN /\ list \notin off /\ head \notin off /\ list # head
     /\ \/ first = list /\ UNCHANGED links
        \/ /\ first # list
           /\ prev' = [prev EXCEPT ![first] = head, ![at] = last]
           /\ next' = [next EXCEPT ![head] = first, ![last] = at]
           /\ off' = off \cup {list}

(* list_replace: four writes in the order of the code, so that an old that *)
(* is alone on its ring leaves new alone on its own.                       *)
Replaced(old, new) ==
  LET next1 == [next EXCEPT ![new] = next[old]]
      prev1 == [prev EXCEPT ![next1[new]] = new]
      prev2 == [prev1 EXCEPT ![new] = prev1[old]]
      next2 == [next1 EXCEPT ![prev2[new]] = new]
  IN [next |-> next2, prev |-> prev2]

list_replace(old, new) ==
  /\ old \notin off /\ Free(new) /\ old # new /\ SameKind(old, new)
  /\ next' = Replaced(old, new).next
  /\ prev' = Replaced(old, new).prev
  /\ off' = (off \ {new}) \cup {old}

(* list_replace_init: the same, then INIT_LIST_HEAD(old). *)
list_replace_init(old, new) ==
  /\ old \notin off /\ Free(new) /\ old # new /\ SameKind(old, new)
  /\ next' = [Replaced(old, new).next EXCEPT ![old] = old]
  /\ prev' = [Replaced(old, new).prev EXCEPT ![old] = old]
  /\ off' = off \ {new}

-----------------------------------------------------------------------------
Change ==
  \/ \E n \in Node : INIT_LIST_HEAD(n)
  \/ \E entry \in Entry, head \in ListHead : list_add(entry, head) \/ list_add_tail(entry, head)
  \/ \E entry \in Entry : list_del(entry) \/ list_del_init(entry)
  \/ \E list, head \in ListHead : list_splice(list, head)
  \/ \E old, new \in Node : list_replace(old, new) \/ list_replace_init(old, new)

Spec == Init /\ [][Change]_links

-----------------------------------------------------------------------------
(* The links of all elements are elements, once they were written. *)
TypeOK ==
  /\ next \in [Node -> Node \cup {Garbage}]
  /\ prev \in [Node -> Node \cup {Garbage}]
  /\ off \subseteq Node

(* Every element that is not off is on a ring: its neighbours are on the   *)
(* same ring and point back to it.  The elements that are off may point    *)
(* into a ring, but no ring points to them, so that a walk along a list    *)
(* never meets a deleted entry or an emptied head.                         *)
RingsOK ==
  \A n \in Node \ off :
    /\ next[n] \in Node \ off /\ prev[next[n]] = n
    /\ prev[n] \in Node \ off /\ next[prev[n]] = n

IInv == TypeOK /\ RingsOK

-----------------------------------------------------------------------------
(* What a walk along the entries s up to the head h meets as the i-th. *)
Met(s, h, i) == IF i <= Len(s) THEN s[i] ELSE h

(* The links lead from element e along the entries s to the head h. *)
Run(nexts, e, s, h) ==
  /\ e = Met(s, h, 1)
  /\ \A i \in 1..Len(s) : nexts[s[i]] = Met(s, h, i + 1)

(* The entries from element e up to the head h: no ring has one twice. *)
Lines == UNION {Injection(1..k, Entry) : k \in 0..Cardinality(Entry)}
EntriesFrom(nexts, e, h) == CHOOSE s \in Lines : Run(nexts, e, s, h)

(* From every head that is in use the links lead along entries, each of    *)
(* them once, back to that head, and never to another one.                 *)
WalksReturn ==
  \A h \in ListHead \ off : \E s \in Lines : Run(next, next[h], s, h)

(* The lists, read from each head along next.  A head that was spliced or  *)
(* replaced has no list until it is initialised.                           *)
ListsOf(nexts, gone) ==
  [h \in ListHead |-> IF h \in gone THEN <<>> ELSE EntriesFrom(nexts, nexts[h], h)]

Abs == INSTANCE Lists WITH list <- ListsOf(next, off)

(* The rings implement the lists. *)
ImplementsLists == Abs!AbsSpec

(* Each call does what is expected of it and not what another one does:    *)
(* list_add pushes like on a stack, list_add_tail appends like to a queue, *)
(* a deletion concerns one list only, a splice moves everything, and a     *)
(* replacement keeps the place of an entry or the entries of a head.       *)
CallsKeepTheirPlace == [][
  /\ \A entry \in Entry, head \in ListHead :
       /\ list_add(entry, head) => Abs!AddFront(entry, head)
       /\ list_add_tail(entry, head) => Abs!AddBack(entry, head)
       /\ list_del(entry) \/ list_del_init(entry) =>
            Abs!Take(entry, head) \/ ~Abs!On(entry, head)
  /\ \A list, head \in ListHead : list_splice(list, head) => Abs!Splice(list, head)
  /\ \A old, new \in Entry, head \in ListHead :
       list_replace(old, new) \/ list_replace_init(old, new) =>
         Abs!Swap(old, new, head) \/ ~Abs!On(old, head)
  /\ \A old, new \in ListHead :
       list_replace(old, new) \/ list_replace_init(old, new) => Abs!Move(old, new)
  ]_links
=============================================================================
