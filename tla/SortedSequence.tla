--------------------------- MODULE SortedSequence ---------------------------
(***************************************************************************)
(* What the tree of src/rbtree.h promises its client, without nodes,       *)
(* colours or memory: a sequence of keys with their values in the order of *)
(* the comparison, into which a pair is inserted and out of which one is   *)
(* taken.  Pairs with equal keys stand in any order among themselves.      *)
(***************************************************************************)
EXTENDS Integers, Sequences, SequencesExt

CONSTANTS
  Key, Val,
  Compare(_, _)

VARIABLES
  exists,   \* the sequence was created and not destroyed since
  items     \* the pairs <<key, val>> in order

absVars == <<exists, items>>

InOrder(seq) ==
  \A i \in 1..Len(seq) - 1 : Compare(seq[i][1], seq[i + 1][1]) <= 0

AbsInit == ~exists /\ items = <<>>

Open == ~exists /\ exists' /\ items' = <<>>

Insert(key, val) ==
  /\ exists
  /\ \E i \in 1..Len(items) + 1 : items' = InsertAt(items, i, <<key, val>>)
  /\ InOrder(items')
  /\ UNCHANGED exists

Take ==
  /\ exists
  /\ \E i \in 1..Len(items) : items' = RemoveAt(items, i)
  /\ UNCHANGED exists

Clear == exists /\ items' = <<>> /\ UNCHANGED exists

Close == exists /\ ~exists' /\ items' = <<>>

AbsNext ==
  \/ Open \/ Take \/ Clear \/ Close
  \/ \E key \in Key, val \in Val : Insert(key, val)

AbsSpec == AbsInit /\ [][AbsNext]_absVars
=============================================================================
