-------------------------- MODULE RbTreeProperties --------------------------
(***************************************************************************)
(* What must hold of the tree of RbTree between any two calls of its       *)
(* client.                                                                 *)
(***************************************************************************)
EXTENDS RbTree, Sequences

Internal == {n \in DOMAIN mem : mem[n].head = FALSE /\ mem[n].internal = TRUE}

Nodes == Leaves \cup Internal

(* The first and the last leaf below node n. *)
FirstLeaf[n \in Nodes] == IF isint(mem, n) THEN FirstLeaf[mem[n].flink] ELSE n
LastLeaf[n \in Nodes]  == IF isint(mem, n) THEN LastLeaf[mem[n].blink] ELSE n

(* The keys and values along the list, from n to the head. *)
Listed[n \in Leaves \cup {tree}] ==
  IF n = tree THEN <<>>
  ELSE << <<mem[n].key, mem[n].val>> >> \o Listed[mem[n].flink]

(* rbtree_nblack: the black nodes on the path from n to the head. *)
rbtree_nblack[n \in DOMAIN mem] ==
  IF ishead(mem, n) THEN 0
  ELSE (IF mem[n].red THEN 0 ELSE 1) + rbtree_nblack[mem[n].parent]

(* rbtree_plength: all the nodes on it. *)
rbtree_plength[n \in DOMAIN mem] ==
  IF ishead(mem, n) THEN 0 ELSE 1 + rbtree_plength[mem[n].parent]

-----------------------------------------------------------------------------
(* The client has a tree when and only when memory is allocated, and every *)
(* node has the fields of its kind: an internal node's flink, blink, key   *)
(* and val are addresses of nodes, a leaf's key and val the client's.  Only *)
(* the left flag of the root may be one that was never written.            *)
TypeOK ==
  /\ tree \in Addr \cup {NULL}
  /\ DOMAIN mem \subseteq Addr
  /\ tree = NULL <=> DOMAIN mem = {}
  /\ \A n \in Nodes :
       /\ mem[n].red \in BOOLEAN /\ mem[n].root \in BOOLEAN
       /\ mem[n].left \in BOOLEAN \cup (IF mem[n].root THEN {Junk} ELSE {})
       /\ {mem[n].flink, mem[n].blink, mem[n].parent} \subseteq DOMAIN mem
  /\ \A n \in Leaves : mem[n].key \in Key /\ mem[n].val \in Val
  /\ \A n \in Internal : {mem[n].key, mem[n].val} \subseteq Leaves

(* Parents and children agree: the head's parent is the one root, the two  *)
(* children of an internal node name it as their parent and know their     *)
(* side, and no node is anybody's child twice.  Rotations, the splice of a *)
(* deletion and an insertion all rewrite several of these links.           *)
LinksAgree ==
  tree # NULL =>
    /\ \A n \in Nodes : mem[n].root <=> mem[tree].parent = n
    /\ Nodes # {} => mem[mem[tree].parent].parent = tree
    /\ Nodes = {} => mem[tree].parent = tree
    /\ \A n \in Internal : \A l \in BOOLEAN :
         LET c == mem[n][Side(l)]
         IN mem[c].parent = n /\ mem[c].left = l /\ ~mem[c].root

(* The circular list is the tree read from left to right, in both          *)
(* directions: what rbtree_traverse visits is what the tree holds.         *)
ListIsTree ==
  tree # NULL =>
    /\ \A n \in Leaves \cup {tree} :
         mem[mem[n].flink].blink = n /\ mem[mem[n].blink].flink = n
    /\ \A n \in Internal :
         mem[LastLeaf[mem[n].flink]].flink = FirstLeaf[mem[n].blink]
    /\ Nodes # {} => /\ mem[tree].flink = FirstLeaf[mem[tree].parent]
                     /\ mem[tree].blink = LastLeaf[mem[tree].parent]

(* The leaf addresses that internal nodes keep are never stale: getlext is *)
(* the last leaf below the left child and getrext the first one below the  *)
(* right child, after every insertion next to them, every deletion of the  *)
(* leaf they named and every rotation.  rbtree_find_greater reads a key    *)
(* through getlext, so a stale one would be a read of freed memory.        *)
SeparatorsFresh ==
  \A n \in Internal : /\ mem[n].key = LastLeaf[mem[n].flink]
                      /\ mem[n].val = FirstLeaf[mem[n].blink]

(* The red-black rules, as far as the code keeps them: leaves are black,   *)
(* no red node has a red child, all paths have the same number of black    *)
(* nodes.  The root may be red: a deletion below the root moves a red node *)
(* up there.  A path is therefore at most twice its black nodes long.      *)
RedBlack ==
  /\ Cardinality({rbtree_nblack[n] : n \in Leaves}) <= 1
  /\ \A n \in Leaves : ~mem[n].red /\ rbtree_plength[n] <= 2 * rbtree_nblack[n]
  /\ \A n \in Internal :
       mem[n].red => ~mem[mem[n].flink].red /\ ~mem[mem[n].blink].red

(* Every node is used: n leaves need n - 1 internal nodes and the head,    *)
(* and no other memory stays allocated, whichever mem_alloc failed before. *)
NothingLeaks ==
  Cardinality(DOMAIN mem) =
    IF tree = NULL THEN 0
    ELSE IF Leaves = {} THEN 1 ELSE 2 * Cardinality(Leaves)

(* None of the ASSERT(0) that rbtree_delete_node has for the cases that    *)
(* "should not be" is ever reached.                                        *)
AssertsHold == asserts = {}

(* Nothing a single call of the client could break, or a long series of    *)
(* them: fields and links, list, cached addresses and colours, memory, and *)
(* the code's own assertions.                                              *)
TreeSound ==
  /\ TypeOK
  /\ LinksAgree
  /\ ListIsTree
  /\ SeparatorsFresh
  /\ RedBlack
  /\ NothingLeaks
  /\ AssertsHold

(* rbtree_find returns a leaf with the key whenever there is one, and the  *)
(* nil of the tree when there is none.                                     *)
FindCorrect ==
  tree # NULL => \A key \in Key :
    LET n == rbtree_find(mem, tree, key)
    IN IF \E o \in Leaves : Compare(key, mem[o].key) = 0
         THEN n \in Leaves /\ Compare(key, mem[n].key) = 0
         ELSE n = tree

(* rbtree_find_value over keys other than the head's own 0: a value that a *)
(* leaf with n's key has is found, and what is found is such a leaf or the *)
(* one right after n, whose value is looked at before its key.  Over key 0 *)
(* the walk takes the head for a leaf.  It still ends, unless every key is *)
(* 0 and neither a leaf nor the head has the value: then it goes round for *)
(* ever.                                                                   *)
FindValueSound ==
  \A n \in Leaves, val \in Val :
    LET r    == rbtree_find_value(mem, n, val)
        Same == {o \in Leaves : mem[o].key = mem[n].key /\ mem[o].val = val}
    IN /\ r = Endless <=>
            \A o \in Leaves \cup {tree} : mem[o].key = 0 /\ mem[o].val # val
       /\ mem[n].key # 0 =>
            IF r = NULL THEN Same = {}
                        ELSE mem[r].val = val /\ r \in Same \cup {mem[n].flink}

-----------------------------------------------------------------------------
(* An insertion that adds no leaf, for want of memory, changes nothing:    *)
(* not the tree, not the list, not a colour.                               *)
FailedInsertHarmless ==
  [][\A key \in Key, val \in Val :
       /\ rbtree_insert(key, val) \/ rbtree_insert_unique(key, val)
       /\ Cardinality(Leaves') = Cardinality(Leaves)
       => UNCHANGED mem]_vars

(* The tree implements the sorted sequence, read off its list of leaves.   *)
Sorted == INSTANCE SortedSequence
            WITH exists <- tree # NULL,
                 items  <- IF tree = NULL THEN <<>> ELSE Listed[mem[tree].flink]

ImplementsSortedSequence == Sorted!AbsSpec
=============================================================================
