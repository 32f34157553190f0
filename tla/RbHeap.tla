------------------------------- MODULE RbHeap -------------------------------
(***************************************************************************)
(* The nodes of src/rbtree.c in memory, and the operations of that file    *)
(* that do not loop.  A memory m is a function from the addresses that are *)
(* allocated to nodes: reading a freed or foreign address is outside of    *)
(* its domain.  An operation that writes returns the memory it leaves.     *)
(*                                                                         *)
(* The leaves hold the client's keys and values and form a circular list   *)
(* through the head; flink and blink are the next and the previous leaf.   *)
(* In an internal node flink and blink are the left and the right child,   *)
(* and key and val hold the addresses of the leaves before and after the   *)
(* split: the last leaf below the left child and the first one below the   *)
(* right child (getlext, getrext).                                         *)
(***************************************************************************)
EXTENDS Naturals

CONSTANT Junk    \* what a field holds that nothing was written to

(* A definition whose comment starts with "Slip" is the one after it with  *)
(* a mistake in it.  Nothing uses it: it shows what the properties notice. *)

-----------------------------------------------------------------------------
ishead(m, n) == m[n].head
isint(m, n)  == m[n].internal

(* The leaves and the internal nodes. *)
nodes(m) == {n \in DOMAIN m : ~ishead(m, n)}

(* The link of a parent to its left and to its right child. *)
Side(left) == IF left THEN "flink" ELSE "blink"

sibling(m, n) == m[m[n].parent][Side(~m[n].left)]

setcolor(m, n, red) == [m EXCEPT ![n].red = red]
setred(m, n)   == setcolor(m, n, TRUE)
setblack(m, n) == setcolor(m, n, FALSE)

-----------------------------------------------------------------------------
(* The circular list of leaves: insert puts item before list, delete_item  *)
(* takes it out and leaves its own links as they were.                     *)
insert(m, item, list) ==
  LET last == m[list].blink
  IN [m EXCEPT ![list].blink = item, ![last].flink = item,
               ![item].blink = last, ![item].flink = list]

delete_item(m, item) ==
  [m EXCEPT ![m[item].flink].blink = m[item].blink,
            ![m[item].blink].flink = m[item].flink]

-----------------------------------------------------------------------------
(* Slip: the subtree that changes sides keeps x as its parent. *)
single_rotateKeepsParent(m, y, l) ==
  LET x  == m[y][Side(l)]
      c  == m[x][Side(~l)]
      yp == m[y].parent
      up == IF m[y].root THEN "parent" ELSE Side(m[y].left)
  IN [m EXCEPT
        ![y]  = [m[y] EXCEPT ![Side(l)] = c, !.left = ~l, !.parent = x, !.root = FALSE],
        ![c]  = [m[c] EXCEPT !.left = l],
        ![x]  = [m[x] EXCEPT ![Side(~l)] = y, !.parent = yp, !.root = m[y].root,
                          !.left = IF m[y].root THEN m[x].left ELSE m[y].left],
        ![yp] = [m[yp] EXCEPT ![up] = x]]

(* single_rotate: y's child x on side l (left when l is TRUE) takes y's    *)
(* place and y becomes x's child on the other side, where c was.  The left *)
(* flag of a root is never written, x keeps the one it had.                *)
single_rotate(m, y, l) ==
  LET x  == m[y][Side(l)]
      c  == m[x][Side(~l)]
      yp == m[y].parent
      up == IF m[y].root THEN "parent" ELSE Side(m[y].left)
  IN [m EXCEPT
        ![y]  = [m[y] EXCEPT ![Side(l)] = c, !.left = ~l, !.parent = x, !.root = FALSE],
        ![c]  = [m[c] EXCEPT !.left = l, !.parent = y],
        ![x]  = [m[x] EXCEPT ![Side(~l)] = y, !.parent = yp, !.root = m[y].root,
                          !.left = IF m[y].root THEN m[x].left ELSE m[y].left],
        ![yp] = [m[yp] EXCEPT ![up] = x]]

-----------------------------------------------------------------------------
(* mk_new_ext: a leaf.  Its list links, parent and left flag are not set.  *)
mk_new_ext(m, node, key, val) ==
  [m EXCEPT ![node].key = key, ![node].val = val,
            ![node].internal = FALSE, ![node].red = FALSE,
            ![node].root = FALSE, ![node].head = FALSE]

(* The part of mk_new_int before its call of recolor: a red internal node  *)
(* over the leaves l and r takes the place below p that one of them had,   *)
(* on the side il.  The left flag of a root is not set.                    *)
link_new_int(m, new, l, r, p, il) ==
  LET atRoot == ishead(m, p)
  IN [m EXCEPT
        ![new] = [m[new] EXCEPT !.internal = TRUE, !.red = TRUE, !.head = FALSE,
                           !.root = atRoot, !.left = IF atRoot THEN m[new].left ELSE il,
                           !.flink = l, !.blink = r, !.parent = p,
                           !.key = l, !.val = r],
        ![l]   = [m[l] EXCEPT !.parent = new, !.left = TRUE],
        ![r]   = [m[r] EXCEPT !.parent = new, !.left = FALSE],
        ![p]   = [m[p] EXCEPT ![IF atRoot THEN "parent" ELSE Side(il)] = new]]

-----------------------------------------------------------------------------
(* The memory manager's mem_alloc and mem_free, from their use here: fresh *)
(* memory holds anything, freed memory must not be used again.             *)
Unwritten ==
  [red |-> Junk, internal |-> Junk, left |-> Junk, root |-> Junk, head |-> Junk,
   flink |-> Junk, blink |-> Junk, parent |-> Junk, key |-> Junk, val |-> Junk]

mem_alloc(m, a) == [b \in DOMAIN m \cup {a} |-> IF b = a THEN Unwritten ELSE m[b]]

mem_free(m, a) == [b \in DOMAIN m \ {a} |-> m[b]]
=============================================================================
