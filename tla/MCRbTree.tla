------------------------------ MODULE MCRbTree ------------------------------
(***************************************************************************)
(* Instances of RbTree for TLC.                                            *)
(***************************************************************************)
EXTENDS RbTreeProperties

(* Which addresses the nodes have depends on the history of the calls, and *)
(* nothing the code does depends on it.  Shape is the state with every     *)
(* address replaced by its place in a walk over the tree (0 when the walk  *)
(* does not reach it): states with the same shape differ by a renaming of  *)
(* addresses only, and TLC keeps one of them.  The walk stops at depth 8,  *)
(* below the lowest leaf of every instance.                                *)
RECURSIVE Walk(_, _)
Walk(n, depth) ==
  IF depth = 0 \/ n \notin Internal THEN <<n>>
  ELSE <<n>> \o Walk(mem[n].flink, depth - 1) \o Walk(mem[n].blink, depth - 1)

Place(walk, a) ==
  IF \E i \in DOMAIN walk : walk[i] = a
    THEN CHOOSE i \in DOMAIN walk : walk[i] = a ELSE 0

Shape ==
  LET walk   == IF tree = NULL THEN <<>>
                ELSE IF Nodes = {} THEN <<tree>>
                ELSE <<tree>> \o Walk(mem[tree].parent, 8)
      placed == [a \in DOMAIN mem |-> Place(walk, a)]
      At(a)  == IF a \in DOMAIN mem THEN placed[a] ELSE 0
      Seen(n) == LET c == mem[n]
                 IN <<c.red, c.internal, c.left, c.root, At(c.flink),
                      At(c.blink), At(c.parent),
                      IF c.internal = TRUE THEN <<At(c.key), At(c.val)>>
                                           ELSE <<c.key, c.val>> >>
  IN <<mem = <<>>, asserts, Cardinality(DOMAIN mem),
       [i \in DOMAIN walk |-> IF walk[i] \in DOMAIN mem
                                THEN Seen(walk[i]) ELSE <<>>]>>

(* Memory that was never written may hold a value, or anything else. *)
Garbage == Val \cup {Junk}

(* A comparison of the client's own. *)
Descending(key1, key2) == compare_local(key2, key1)
=============================================================================
