------------------------------- MODULE RbTree -------------------------------
(***************************************************************************)
(* The leaf-oriented red-black tree of src/rbtree.c and its client.  One   *)
(* step of the specification is one call of a library function: the        *)
(* library has no locks and calls nobody back but the memory manager and   *)
(* the comparison.  A loop is a recursive function over its turns.         *)
(***************************************************************************)
EXTENDS Integers, FiniteSets, RbHeap

CONSTANTS
  Addr,            \* bound: the addresses the memory manager has
  Key,             \* the keys the client inserts
  Val,             \* the values the client inserts
  HeadVals,        \* what the head's val, never written, may hold
  Compare(_, _),   \* the comparison the client passes
  Duplicates,      \* TRUE: the client calls rbtree_insert,
                   \* FALSE: it only calls rbtree_insert_unique
  MaxLeaves        \* bound: how many leaves the client inserts

ASSUME ConstantsAssumption ==
  /\ Addr \subseteq Nat \ {0}
  /\ IsFiniteSet(Addr)
  /\ Key \subseteq Nat
  /\ Junk \notin Addr
  /\ Duplicates \in BOOLEAN

(* The client's comparison is an order of its keys. *)
ASSUME ComparisonAssumption ==
  \A a, b \in Key :
    /\ Compare(a, b) \in Int
    /\ Compare(a, b) < 0 <=> Compare(b, a) > 0
    /\ \A c \in Key : Compare(a, b) <= 0 /\ Compare(b, c) <= 0 => Compare(a, c) <= 0

VARIABLES
  mem,      \* the allocated nodes by their address
  tree,     \* the address of the head, or NULL when the client has no tree
  asserts   \* the failed ASSERTs of rbtree_delete_node, by their line

vars == <<mem, tree, asserts>>

NULL == 0

(* compare_local, which rbtree_find_greater takes when compare is NULL. *)
compare_local(key1, key2) ==
  IF key1 > key2 THEN 1 ELSE IF key1 = key2 THEN 0 ELSE -1

-----------------------------------------------------------------------------
(* recolor: from a red node n up, while n's parent and its sibling are red *)
(* and so there is something left to recolour above them.                  *)
recolor_goes_on(m, n) ==
  LET p == m[n].parent
  IN ~m[n].root /\ m[p].red /\ ~m[p].root /\ m[sibling(m, p)].red

recolor_turn(m, n) ==
  LET p  == m[n].parent
      gp == m[p].parent
  IN [mem |-> setblack(setred(setblack(m, p), gp), sibling(m, p)),
      n   |-> gp]

recolor_turns(m, n) ==
  LET turn[i \in 0..Cardinality(DOMAIN m)] ==
        IF i = 0 THEN [mem |-> m, n |-> n]
        ELSE LET c == turn[i - 1]
             IN IF recolor_goes_on(c.mem, c.n) THEN recolor_turn(c.mem, c.n) ELSE c
  IN turn

recolor_loop(m, n) == recolor_turns(m, n)[Cardinality(DOMAIN m)]

(* The rotations and recolourings after the loop. *)
recolor_end(m, n) ==
  LET p  == m[n].parent
      gp == m[p].parent
      l  == m[n].left
  IN CASE m[n].root -> setblack(m, n)
       [] ~m[n].root /\ ~m[p].red -> m
       [] ~m[n].root /\ m[p].red /\ m[p].root -> setblack(m, p)
       [] OTHER ->
            IF l = m[p].left
              THEN setred(setblack(single_rotate(m, gp, l), p), gp)
              ELSE LET r == single_rotate(m, p, l)
                   IN setred(setblack(single_rotate(r, gp, r[n].left), n), gp)

recolor(m, n) == LET c == recolor_loop(m, n) IN recolor_end(c.mem, c.n)

mk_new_int(m, new, l, r, p, il) == recolor(link_new_int(m, new, l, r, p, il), new)

(* lprev and rprev: the internal node whose split has n's subtree on its   *)
(* right (left) side and next to it, the head when there is none.          *)
climb(m, l) ==
  LET up[n \in nodes(m)] ==
        IF m[n].root \/ m[n].left = l THEN m[n].parent ELSE up[m[n].parent]
  IN up

lprev(m, n) == IF ishead(m, n) THEN n ELSE climb(m, FALSE)[n]
rprev(m, n) == IF ishead(m, n) THEN n ELSE climb(m, TRUE)[n]

(* if (!ishead(p)) setrext(p, e), and the same with setlext. *)
setrext(m, p, e) == IF ishead(m, p) THEN m ELSE [m EXCEPT ![p].val = e]
setlext(m, p, e) == IF ishead(m, p) THEN m ELSE [m EXCEPT ![p].key = e]

-----------------------------------------------------------------------------
(* rbtree_find_greater: the leaf with the key, or the leaf (or head) that  *)
(* a leaf with the key belongs before.                                     *)
(* Slip: the key is compared with the leaf after the split. *)
descendByRext(m, key) ==
  LET down[n \in nodes(m)] ==
        IF ~isint(m, n) THEN [node |-> n, found |-> FALSE]
        ELSE LET cmp == Compare(key, m[m[n].val].key)
             IN IF cmp = 0 THEN [node |-> m[n].val, found |-> TRUE]
                ELSE down[m[n][Side(cmp < 0)]]
  IN down

descend(m, key) ==
  LET down[n \in nodes(m)] ==
        IF ~isint(m, n) THEN [node |-> n, found |-> FALSE]
        ELSE LET cmp == Compare(key, m[m[n].key].key)
             IN IF cmp = 0 THEN [node |-> m[n].key, found |-> TRUE]
                ELSE down[m[n][Side(cmp < 0)]]
  IN down

(* Slip: no look at the last leaf before the descent. *)
rbtree_find_greaterNoLast(m, t, key) ==
  IF m[t].parent = t THEN [node |-> t, found |-> FALSE]
  ELSE descend(m, key)[m[t].parent]

rbtree_find_greater(m, t, key) ==
  LET cmp == Compare(key, m[m[t].blink].key)
  IN CASE m[t].parent = t -> [node |-> t, found |-> FALSE]
       [] m[t].parent # t /\ cmp = 0 -> [node |-> m[t].blink, found |-> TRUE]
       [] m[t].parent # t /\ cmp > 0 -> [node |-> t, found |-> FALSE]
       [] OTHER -> descend(m, key)[m[t].parent]

rbtree_find(m, t, key) ==
  LET j == rbtree_find_greater(m, t, key)
  IN IF j.found THEN j.node ELSE t

(* rbtree_find_value: from leaf n back over the leaves with its key, then  *)
(* forward from n.  c is where the walk is and whether it goes forward; it *)
(* has a result when it has ended.  The walk goes round for ever when the  *)
(* head's key, 0, and every leaf's key are n's: after as many turns as two *)
(* rounds take it must have repeated itself.                               *)
Endless == -1

WalksOn(c) == c.result = Endless

WalkAt(ptr, next) == [ptr |-> ptr, next |-> next, result |-> Endless]
WalkEnded(c, r) == [c EXCEPT !.result = r]

(* Slip: the walk ends where the leaves before n have another key. *)
value_turnBackOnly(m, n, value, c) ==
  IF m[c.ptr].val = value THEN WalkEnded(c, c.ptr)
  ELSE IF m[m[c.ptr].blink].key # m[n].key THEN WalkEnded(c, NULL)
  ELSE WalkAt(m[c.ptr].blink, FALSE)

value_turn(m, n, value, c) ==
  IF m[c.ptr].val = value THEN WalkEnded(c, c.ptr)
  ELSE IF c.next
    THEN IF m[m[c.ptr].flink].key # m[n].key THEN WalkEnded(c, NULL)
         ELSE WalkAt(m[c.ptr].flink, TRUE)
    ELSE IF m[m[c.ptr].blink].key # m[n].key THEN WalkAt(m[n].flink, TRUE)
         ELSE WalkAt(m[c.ptr].blink, FALSE)

value_turns(m, n, value) ==
  LET turn[i \in 0..2 * Cardinality(DOMAIN m)] ==
        IF i = 0 THEN WalkAt(n, FALSE)
        ELSE LET c == turn[i - 1] IN IF WalksOn(c) THEN value_turn(m, n, value, c) ELSE c
  IN turn

rbtree_find_value(m, n, value) == value_turns(m, n, value)[2 * Cardinality(DOMAIN m)].result

-----------------------------------------------------------------------------
(* A free address: the least one, the code does not look at the order. *)
FreshAddr(m) ==
  CHOOSE a \in Addr \ DOMAIN m : \A b \in Addr \ DOMAIN m : a <= b

(* rbtree_insert_b: a new leaf before n, with a new internal node unless   *)
(* the tree is empty.  got is how many of the calls of mem_alloc succeed.  *)
insert_first(m, n, leaf, key, val) ==
  LET ext == insert(mk_new_ext(mem_alloc(m, leaf), leaf, key, val), leaf, n)
  IN [ext EXCEPT ![n].parent = leaf, ![leaf].parent = n, ![leaf].root = TRUE]

(* The new leaf goes to the right of old when n is the head and old the    *)
(* last leaf, and to the left of old = n otherwise.                        *)
insert_beside(m, n, leaf, key, val) ==
  LET m1   == mem_alloc(m, leaf)
      new  == FreshAddr(m1)
      m2   == mk_new_ext(mem_alloc(m1, new), leaf, key, val)
      m3   == insert(m2, leaf, n)
      last == ishead(m, n)
      old  == IF last THEN m3[leaf].blink ELSE n
      m4   == [m3 EXCEPT ![old].root = FALSE]
  IN IF last
       THEN LET m5 == mk_new_int(m4, new, old, leaf, m4[old].parent, m4[old].left)
            IN setlext(m5, rprev(m5, leaf), leaf)
       ELSE LET m5 == mk_new_int(m4, new, leaf, old, m4[old].parent, m4[old].left)
            IN setrext(m5, lprev(m5, leaf), leaf)

(* Slip: the leaf is not freed when there is no memory for its parent. *)
rbtree_insert_bLeaks(m, n, key, val, got) ==
  LET leaf  == FreshAddr(m)
      first == ishead(m, n) /\ m[n].parent = n
  IN CASE got = 0 -> m
       [] got > 0 /\ first -> insert_first(m, n, leaf, key, val)
       [] got = 1 /\ ~first -> mem_alloc(m, leaf)
       [] OTHER -> insert_beside(m, n, leaf, key, val)

rbtree_insert_b(m, n, key, val, got) ==
  LET leaf  == FreshAddr(m)
      first == ishead(m, n) /\ m[n].parent = n
  IN CASE got = 0 -> m
       [] got > 0 /\ first -> insert_first(m, n, leaf, key, val)
       [] got = 1 /\ ~first -> mem_free(mem_alloc(m, leaf), leaf)
       [] OTHER -> insert_beside(m, n, leaf, key, val)

-----------------------------------------------------------------------------
(* rbtree_delete_node.  A result is the memory and the lines of the        *)
(* ASSERTs that failed: a failed ASSERT ends the call.                     *)
Done(m) == [mem |-> m, asserts |-> {}]
Failed(m, line) == [mem |-> m, asserts |-> {line}]

(* The rotations and recolourings that end the deletion: n's side of p is  *)
(* one black node short and s, n's sibling, is black.                      *)
rotate_delete(m, n, p, s) ==
  LET il == m[n].left
      x  == m[s][Side(il)]
      z  == sibling(m, x)
      rx == setblack(single_rotate(single_rotate(m, s, il), p, ~il), x)
  IN CASE m[z].red ->
            LET r == setblack(single_rotate(m, p, ~il), z)
            IN Done(setblack(setcolor(r, s, m[p].red), p))
       [] ~m[z].red /\ ~m[x].red ->
            IF m[s].red \/ ~m[p].red THEN Failed(m, 548)
            ELSE Done(setred(setblack(m, p), s))
       [] ~m[z].red /\ m[x].red /\ m[p].red -> Done(setred(rx, s))
       [] OTHER -> Done(rx)

(* From the place a black node was taken out of up: while p, s and s's     *)
(* children are black, s turns red and the shortage moves to p, which ends *)
(* it at the root.                                                         *)
delete_goes_on(m, n) ==
  LET p == m[n].parent
      s == sibling(m, n)
  IN /\ ~m[n].root
     /\ ~m[p].red /\ ~m[s].red /\ isint(m, s)
     /\ ~m[m[s].flink].red /\ ~m[m[s].blink].red

delete_turn(m, n) == [mem |-> setred(m, sibling(m, n)), n |-> m[n].parent]

delete_turns(m, n) ==
  LET turn[i \in 0..Cardinality(DOMAIN m)] ==
        IF i = 0 THEN [mem |-> m, n |-> n]
        ELSE LET c == turn[i - 1]
             IN IF delete_goes_on(c.mem, c.n) THEN delete_turn(c.mem, c.n) ELSE c
  IN turn

delete_loop(m, n) == delete_turns(m, n)[Cardinality(DOMAIN m)]

(* Slip: the rotation 2.3b, which makes n's sibling black, is missing. *)
delete_endNo23b(m, n) ==
  LET p == m[n].parent
      s == sibling(m, n)
  IN CASE m[n].root -> Done(m)
       [] ~m[n].root /\ isint(m, s) -> rotate_delete(m, n, p, s)
       [] OTHER -> Failed(m, 529)

delete_end(m, n) ==
  LET p  == m[n].parent
      s  == sibling(m, n)
      mr == IF ~m[p].red /\ m[s].red
              THEN setblack(setred(single_rotate(m, p, ~m[n].left), p), s)
              ELSE m
      sr == sibling(mr, n)
  IN CASE m[n].root -> Done(m)
       [] ~m[n].root /\ isint(mr, sr) -> rotate_delete(mr, n, p, sr)
       [] OTHER -> Failed(mr, 529)

recolor_delete(m, n) == LET c == delete_loop(m, n) IN delete_end(c.mem, c.n)

(* The leaves next to the ones that s's subtree lost take over as lext and *)
(* rext of the splits around it; first and last are the leaves of s.       *)
refresh_ext(m, s, first, last) ==
  LET m1 == setrext(m, lprev(m, s), first)
  IN setlext(m1, rprev(m1, s), last)

(* s, the sibling of the deleted leaf, takes the place of their parent p. *)
splice_out(m, node, p, s) ==
  LET gp == m[p].parent
      l  == m[p].left
      up == [m EXCEPT ![s]  = [m[s] EXCEPT !.parent = gp, !.left = l],
                      ![gp] = [m[gp] EXCEPT ![Side(l)] = s]]
      m1 == mem_free(mem_free(up, p), node)
  IN CASE ~isint(m1, s) ->
            LET m2 == refresh_ext(m1, s, s, s)
            IN IF m[p].red THEN Done(m2) ELSE recolor_delete(m2, s)
       [] isint(m1, s) /\ m1[s].red ->
            Done(setblack(refresh_ext(m1, s, m1[s].flink, m1[s].blink), s))
       [] OTHER -> Failed(m1, 486)

rbtree_delete_node(m, node) ==
  LET m1 == delete_item(m, node)
      p  == m1[node].parent
      s  == sibling(m1, node)
      h  == m1[p].parent
  IN CASE m[node].root -> Done(mem_free([m1 EXCEPT ![p].parent = p], node))
       [] ~m[node].root /\ m[p].root ->
            LET m2 == [m1 EXCEPT ![s] = [m1[s] EXCEPT !.parent = h, !.root = TRUE],
                                 ![h] = [m1[h] EXCEPT !.parent = s]]
            IN Done(mem_free(mem_free(m2, p), node))
       [] OTHER -> splice_out(m1, node, p, s)

(* rbtree_free: delete the first leaf until there is none. *)
free_turns(m, t) ==
  LET turn[i \in 0..Cardinality(DOMAIN m)] ==
        IF i = 0 THEN Done(m)
        ELSE LET r == turn[i - 1]
             IN IF r.mem[t].flink = t THEN r
                ELSE LET d == rbtree_delete_node(r.mem, r.mem[t].flink)
                     IN [mem |-> d.mem, asserts |-> d.asserts \cup r.asserts]
  IN turn

rbtree_free(m, t) == free_turns(m, t)[Cardinality(DOMAIN m)]

-----------------------------------------------------------------------------
(* The client. *)
Leaves == {n \in DOMAIN mem : mem[n].head = FALSE /\ mem[n].internal = FALSE}

(* How many allocations may succeed: any number the memory is enough for. *)
Gotten == {g \in 0..2 : g <= Cardinality(Addr \ DOMAIN mem)}

Init == mem = <<>> /\ tree = NULL /\ asserts = {}

(* rbtree_create.  The head's val and red, internal and left flags, and    *)
(* the root bit of its roothead, are not written.                          *)
Create ==
  /\ tree = NULL
  /\ \E g \in Gotten, garbage \in HeadVals :
       LET head == FreshAddr(mem)
       IN IF g = 0 THEN UNCHANGED <<mem, tree>>
          ELSE /\ tree' = head
               /\ mem' = [mem_alloc(mem, head) EXCEPT
                            ![head].flink = head, ![head].blink = head,
                            ![head].parent = head, ![head].key = 0,
                            ![head].head = TRUE, ![head].val = garbage]
  /\ UNCHANGED asserts

rbtree_insert(key, val) ==
  /\ Duplicates
  /\ tree # NULL
  /\ Cardinality(Leaves) < MaxLeaves
  /\ \E got \in Gotten :
       mem' = rbtree_insert_b(mem, rbtree_find_greater(mem, tree, key).node,
                              key, val, got)
  /\ UNCHANGED <<tree, asserts>>

rbtree_insert_unique(key, val) ==
  LET n == rbtree_find_greater(mem, tree, key)
  IN /\ ~Duplicates
     /\ tree # NULL
     /\ Cardinality(Leaves) < MaxLeaves
     /\ \/ n.found /\ UNCHANGED mem
        \/ ~n.found /\ \E got \in Gotten :
             mem' = rbtree_insert_b(mem, n.node, key, val, got)
     /\ UNCHANGED <<tree, asserts>>

Delete(node) ==
  LET r == rbtree_delete_node(mem, node)
  IN /\ mem' = r.mem
     /\ asserts' = asserts \cup r.asserts
     /\ UNCHANGED tree

Free ==
  /\ tree # NULL
  /\ LET r == rbtree_free(mem, tree)
     IN mem' = r.mem /\ asserts' = asserts \cup r.asserts
  /\ UNCHANGED tree

rbtree_destroy ==
  /\ tree # NULL
  /\ LET r == rbtree_free(mem, tree)
     IN mem' = mem_free(r.mem, tree) /\ asserts' = asserts \cup r.asserts
  /\ tree' = NULL

Next ==
  \/ Create \/ Free \/ rbtree_destroy
  \/ \E key \in Key, val \in Val :
       rbtree_insert(key, val) \/ rbtree_insert_unique(key, val)
  \/ \E node \in Leaves : Delete(node)

Spec == Init /\ [][Next]_vars
=============================================================================
