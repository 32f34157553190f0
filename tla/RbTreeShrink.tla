---------------------------- MODULE RbTreeShrink ----------------------------
(***************************************************************************)
(* A client of RbTree that fills a tree first and then only deletes.  It   *)
(* reaches what RbTree's own client needs many more keys for: the loop of  *)
(* rbtree_delete_node that carries a missing black node upwards ends in    *)
(* every one of its rotations above the leaves.                            *)
(***************************************************************************)
EXTENDS RbTreeProperties, SequencesExt

CONSTANTS
  Orders,      \* the orders the keys are inserted in
  MinLeaves    \* bound: the client stops deleting there

(* The tree after rbtree_create and an rbtree_insert for each key. *)
Empty(head) ==
  [mem_alloc(<<>>, head) EXCEPT ![head].flink = head, ![head].blink = head,
                                ![head].parent = head, ![head].key = 0,
                                ![head].head = TRUE]

Filled(head, keys) ==
  FoldLeft(LAMBDA m, key :
             rbtree_insert_b(m, rbtree_find_greater(m, head, key).node,
                             key, CHOOSE val \in Val : TRUE, 2),
           Empty(head), keys)

ShrinkInit ==
  /\ tree = FreshAddr(<<>>)
  /\ mem \in {Filled(tree, keys) : keys \in Orders}
  /\ asserts = {}

ShrinkNext ==
  /\ Cardinality(Leaves) > MinLeaves
  /\ \E node \in Leaves : Delete(node)

ShrinkSpec == ShrinkInit /\ [][ShrinkNext]_vars
=============================================================================
