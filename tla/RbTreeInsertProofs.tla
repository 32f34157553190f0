------------------------- MODULE RbTreeInsertProofs -------------------------
(***************************************************************************)
(* What keeps a red-black tree in shape, that such a tree has the          *)
(* properties of RbTreeProperties, that insertion keeps it, that           *)
(* rbtree_find_greater finds a key's place, and how rbtree_find_value      *)
(* walks: for trees of any size, keys and order.                           *)
(***************************************************************************)
EXTENDS RbTreeProperties, Induction, FiniteSetTheorems

(* The fields of struct rbtree_node. *)
Fields == {"red", "internal", "left", "root", "head", "flink", "blink", "parent", "key", "val"}

(* Every address in use holds a whole node. *)
IsMem(m) == \A n \in DOMAIN m : DOMAIN m[n] = Fields

(* The child on one side; TRUE is the left, as in the code's left flag. *)
Kid(m, n, l) == m[n][Side(l)]

(* All nodes but the head t. *)
Below(m, t) == DOMAIN m \ {t}

(* The internal nodes. *)
Inner(m, t) == {n \in Below(m, t) : m[n].internal}

(* The external nodes, the leaves of the tree. *)
Outer(m, t) == {n \in Below(m, t) : ~m[n].internal}

(* key holds the separator lext, val the separator rext of an internal node. *)
Split(l) == IF l THEN "key" ELSE "val"

(* The fields hold what their readers expect; only left may be unwritten, at *)
(* the root.                                                                 *)
Fine(m, t) ==
  /\ IsMem(m)
  /\ t \in DOMAIN m /\ m[t].head = TRUE
  /\ \A n \in Below(m, t) : /\ m[n].head = FALSE /\ m[n].internal \in BOOLEAN
                            /\ m[n].red \in BOOLEAN /\ m[n].root \in BOOLEAN
                            /\ m[n].left \in BOOLEAN \cup {Junk}

(* An internal node's children know their parent, their side and that they *)
(* are not the root.                                                       *)
KidsOK(m, t) ==
  \A n \in Inner(m, t), l \in BOOLEAN :
    LET c == Kid(m, n, l)
    IN c \in Below(m, t) /\ m[c].parent = n /\ m[c].left = l /\ ~m[c].root

(* A node that is not the root is the child of its parent on the side it   *)
(* says.                                                                   *)
ParentsOK(m, t) ==
  \A n \in Below(m, t) :
    ~m[n].root => /\ m[n].parent \in Inner(m, t) /\ m[n].left \in BOOLEAN
                  /\ Kid(m, m[n].parent, m[n].left) = n

(* The head's parent is the root, the root's parent is the head, and no    *)
(* other node is marked root.                                              *)
RootOK(m, t) ==
  /\ m[t].parent \in DOMAIN m
  /\ m[t].parent = t => Below(m, t) = {}
  /\ m[t].parent # t => m[m[t].parent].parent = t
  /\ \A n \in Below(m, t) : m[n].root <=> n = m[t].parent

(* Parents and children agree. *)
Links(m, t) == KidsOK(m, t) /\ ParentsOK(m, t) /\ RootOK(m, t)

(* A rank that grows from the children to their parent, up to top. *)
Ranked(m, t, top, rk) ==
  /\ top \in Nat /\ rk \in [Below(m, t) -> 0..top]
  /\ \A n \in Inner(m, t), l \in BOOLEAN : rk[Kid(m, n, l)] < rk[n]

(* There is one: no node is above itself. *)
Rising(m, t) == \E top, rk : Ranked(m, t, top, rk)

(* e[TRUE] gives the first leaf of every subtree, e[FALSE] the last one. *)
Ends(m, t, e) ==
  /\ e \in [BOOLEAN -> [Below(m, t) -> Outer(m, t)]]
  /\ \A l \in BOOLEAN :
       /\ \A n \in Outer(m, t) : e[l][n] = n
       /\ \A n \in Inner(m, t) : e[l][n] = e[l][Kid(m, n, l)]

(* The leaves and the head form a doubly linked ring. *)
Ring(m, t) ==
  \A n \in Outer(m, t) \cup {t} :
    /\ m[n].flink \in Outer(m, t) \cup {t} /\ m[m[n].flink].blink = n
    /\ m[n].blink \in Outer(m, t) \cup {t} /\ m[m[n].blink].flink = n

(* The last leaf left of an internal node is followed by the first one right *)
(* of it, and the ring starts and ends at the ends of the whole tree.        *)
Gaps(m, t, e) ==
  /\ \A n \in Inner(m, t) : m[e[FALSE][Kid(m, n, TRUE)]].flink = e[TRUE][Kid(m, n, FALSE)]
  /\ Below(m, t) # {} => /\ m[t].flink = e[TRUE][m[t].parent]
                         /\ m[t].blink = e[FALSE][m[t].parent]

(* A separator is the nearest leaf on its side; <<l, v>> \in X permits that *)
(* one separator on side l should be v and is not yet.                      *)
Seps(m, t, e, X) ==
  \A n \in Inner(m, t), l \in BOOLEAN :
    \/ m[n][Split(l)] = e[~l][Kid(m, n, l)]
    \/ <<l, e[~l][Kid(m, n, l)]>> \in X

(* The leaves are in the list in the order they have in the tree. *)
Spread(m, t, X) == \E e : Ends(m, t, e) /\ Gaps(m, t, e) /\ Seps(m, t, e, X)

(* The invariant without the colours; X lists separators that are about to *)
(* be refreshed.                                                           *)
Shape(m, t, X) ==
  /\ Fine(m, t) /\ Links(m, t) /\ Rising(m, t) /\ Ring(m, t) /\ Spread(m, t, X)

(* The leaves stay as they are, and so does what internal nodes hold. *)
Same(m, r, t) ==
  /\ DOMAIN r = DOMAIN m
  /\ \A n \in DOMAIN m : /\ r[n].head = m[n].head /\ r[n].internal = m[n].internal
                         /\ r[n].key = m[n].key /\ r[n].val = m[n].val
  /\ \A n \in Outer(m, t) \cup {t} : r[n].flink = m[n].flink /\ r[n].blink = m[n].blink

-----------------------------------------------------------------------------
(* The field names behind the two sides. *)
LEMMA Sides ==
  /\ Side(TRUE) = "flink" /\ Side(FALSE) = "blink"
  /\ Split(TRUE) = "key" /\ Split(FALSE) = "val"
BY DEF Side, Split

(* The children are flink and blink, as the macros of rbtree.h say. *)
LEMMA KidIs == \A m, n : Kid(m, n, TRUE) = m[n].flink /\ Kid(m, n, FALSE) = m[n].blink
BY DEF Side, Kid

(* What a rotation writes. *)
Turned(m, r, y, x, c, yp, l) ==
  /\ DOMAIN r = DOMAIN m /\ IsMem(r)
  /\ \A k \in DOMAIN m : /\ r[k].red = m[k].red /\ r[k].internal = m[k].internal
                         /\ r[k].head = m[k].head /\ r[k].key = m[k].key /\ r[k].val = m[k].val
  /\ \A k \in DOMAIN m : r[k].root = IF k = x THEN m[y].root ELSE IF k = y THEN FALSE ELSE m[k].root
  /\ \A k \in DOMAIN m : r[k].parent = IF k = c THEN y ELSE IF k = y THEN x ELSE IF k = x THEN yp
                                       ELSE IF k = yp /\ m[y].root THEN x ELSE m[k].parent
  /\ \A k \in DOMAIN m : r[k].left = IF k = c THEN l ELSE IF k = y THEN ~l
                                     ELSE IF k = x /\ ~m[y].root THEN m[y].left ELSE m[k].left
  /\ \A k \in DOMAIN m, s \in BOOLEAN :
       Kid(r, k, s) = IF k = y /\ s = l THEN c ELSE IF k = x /\ s = ~l THEN y
                      ELSE IF k = yp /\ ~m[y].root /\ s = m[y].left THEN x ELSE Kid(m, k, s)

(* single_rotate writes the links of the two nodes, of the child that moves *)
(* and of the parent above, and nothing else.                               *)
LEMMA RotationWrites ==
  ASSUME NEW m, IsMem(m),
         NEW y \in DOMAIN m, NEW x \in DOMAIN m, NEW c \in DOMAIN m, NEW yp \in DOMAIN m,
         NEW l \in BOOLEAN, x = Kid(m, y, l), c = Kid(m, x, ~l), yp = m[y].parent,
         ~m[y].root => m[y].left \in BOOLEAN,
         m[y].root \in BOOLEAN,
         x # y, c # x, c # y, yp # x, yp # y, yp # c
  PROVE  Turned(m, single_rotate(m, y, l), y, x, c, yp, l)
<1> DEFINE r  == single_rotate(m, y, l)
           up == IF m[y].root THEN "parent" ELSE Side(m[y].left)
           L  == Side(l)
           R  == Side(~l)
           ey == [m[y] EXCEPT ![L] = c, !.left = ~l, !.parent = x, !.root = FALSE]
           ec == [m[c] EXCEPT !.left = l, !.parent = y]
           ex == [m[x] EXCEPT ![R] = y, !.parent = yp, !.root = m[y].root,
                              !.left = IF m[y].root THEN m[x].left ELSE m[y].left]
           ep == [m[yp] EXCEPT ![up] = x]
<1>1. r = [m EXCEPT ![y] = ey, ![c] = ec, ![x] = ex, ![yp] = ep]
  BY DEF single_rotate, Kid
<1>2. DOMAIN m[y] = Fields /\ DOMAIN m[c] = Fields /\ DOMAIN m[x] = Fields /\ DOMAIN m[yp] = Fields
  BY DEF IsMem
<1>3. /\ up \in {"parent", "flink", "blink"} /\ (m[y].root => up = "parent")
      /\ ~m[y].root => up = IF m[y].left THEN "flink" ELSE "blink"
  BY DEF Side
<1>4. L = (IF l THEN "flink" ELSE "blink") /\ R = IF l THEN "blink" ELSE "flink"
  BY DEF Side
<1> HIDE DEF up, L, R
<1>5. DOMAIN ey = Fields /\ DOMAIN ec = Fields /\ DOMAIN ex = Fields /\ DOMAIN ep = Fields
  BY <1>2
<1>6. /\ ey[L] = c /\ ey[R] = m[y][R] /\ ey.left = ~l /\ ey.parent = x /\ ey.root = FALSE
      /\ ey.red = m[y].red /\ ey.internal = m[y].internal /\ ey.head = m[y].head
      /\ ey.key = m[y].key /\ ey.val = m[y].val
  BY <1>2, <1>4 DEF Fields
<1>7. /\ ec.parent = y /\ ec.left = l /\ ec.root = m[c].root
      /\ ec.flink = m[c].flink /\ ec.blink = m[c].blink
      /\ ec.red = m[c].red /\ ec.internal = m[c].internal /\ ec.head = m[c].head
      /\ ec.key = m[c].key /\ ec.val = m[c].val
  BY <1>2, <1>4 DEF Fields
<1>8. /\ ex.parent = yp /\ ex.root = m[y].root /\ ex[L] = m[x][L] /\ ex[R] = y
      /\ ex.left = (IF m[y].root THEN m[x].left ELSE m[y].left)
      /\ ex.red = m[x].red /\ ex.internal = m[x].internal /\ ex.head = m[x].head
      /\ ex.key = m[x].key /\ ex.val = m[x].val
  BY <1>2, <1>4 DEF Fields
<1>9. /\ ep.left = m[yp].left /\ ep.root = m[yp].root
      /\ ep.parent = (IF m[y].root THEN x ELSE m[yp].parent)
      /\ ep.flink = (IF ~m[y].root /\ m[y].left THEN x ELSE m[yp].flink)
      /\ ep.blink = (IF ~m[y].root /\ ~m[y].left THEN x ELSE m[yp].blink)
      /\ ep.red = m[yp].red /\ ep.internal = m[yp].internal /\ ep.head = m[yp].head
      /\ ep.key = m[yp].key /\ ep.val = m[yp].val
  BY <1>2, <1>3 DEF Fields
<1> HIDE DEF ey, ec, ex, ep
<1>10. /\ r[y] = ey /\ r[c] = ec /\ r[x] = ex /\ r[yp] = ep /\ DOMAIN r = DOMAIN m
       /\ \A k \in DOMAIN m \ {x, y, c, yp} : r[k] = m[k]
  BY <1>1
<1> HIDE DEF r
<1>11. IsMem(r)
  BY <1>5, <1>10 DEF IsMem
<1>12. ASSUME NEW k \in DOMAIN m
       PROVE  /\ r[k].red = m[k].red /\ r[k].internal = m[k].internal
              /\ r[k].head = m[k].head /\ r[k].key = m[k].key /\ r[k].val = m[k].val
  <2>1. CASE k = y
    BY <1>6, <1>10, <2>1
  <2>2. CASE k = c
    BY <1>7, <1>10, <2>2
  <2>3. CASE k = x
    BY <1>8, <1>10, <2>3
  <2>4. CASE k = yp
    BY <1>9, <1>10, <2>4
  <2>5. CASE k \notin {x, y, c, yp}
    BY <1>10, <2>5
  <2> QED BY <2>1, <2>2, <2>3, <2>4, <2>5
<1>13. \A k \in DOMAIN m : r[k].root = IF k = x THEN m[y].root ELSE IF k = y THEN FALSE ELSE m[k].root
  BY <1>6, <1>7, <1>8, <1>9, <1>10
<1>14. \A k \in DOMAIN m : r[k].parent = IF k = c THEN y ELSE IF k = y THEN x ELSE IF k = x THEN yp
                                         ELSE IF k = yp /\ m[y].root THEN x ELSE m[k].parent
  BY <1>6, <1>7, <1>8, <1>9, <1>10
<1>15. \A k \in DOMAIN m : r[k].left = IF k = c THEN l ELSE IF k = y THEN ~l
                                       ELSE IF k = x /\ ~m[y].root THEN m[y].left ELSE m[k].left
  BY <1>6, <1>7, <1>8, <1>9, <1>10
<1>16. ASSUME NEW k \in DOMAIN m, NEW s \in BOOLEAN
       PROVE  Kid(r, k, s) = IF k = y /\ s = l THEN c ELSE IF k = x /\ s = ~l THEN y
                      ELSE IF k = yp /\ ~m[y].root /\ s = m[y].left THEN x ELSE Kid(m, k, s)
  <2>1. Side(s) = (IF s THEN "flink" ELSE "blink") /\ (s = l => Side(s) = L) /\ (s = ~l => Side(s) = R) /\ (s = l \/ s = ~l)
    BY DEF Side, L, R
  <2>2. CASE k = y
    BY <2>1, <2>2, <1>6, <1>10 DEF Kid
  <2>3. CASE k = x
    BY <2>1, <2>3, <1>8, <1>10 DEF Kid
  <2>4. CASE k = yp
    BY <2>1, <2>4, <1>9, <1>10 DEF Kid
  <2>5. CASE k = c
    BY <2>1, <2>5, <1>7, <1>10 DEF Kid
  <2> QED BY <2>2, <2>3, <2>4, <2>5, <1>10 DEF Kid
<1> QED BY <1>10, <1>11, <1>12, <1>13, <1>14, <1>15, <1>16 DEF Turned, r

-----------------------------------------------------------------------------
(* A rotation takes place at y, over x on side l and x's child c. *)
Turns(m, t, y, x, c, l) ==
  /\ l \in BOOLEAN
  /\ y \in Inner(m, t) /\ x \in Inner(m, t) /\ c \in Below(m, t)
  /\ x = Kid(m, y, l) /\ c = Kid(m, x, ~l)

(* A rotation of the tree below t, and what surrounds it. *)
Rotation(m, r, t, y, x, c, yp, l) ==
  /\ Turned(m, r, y, x, c, yp, l) /\ Turns(m, t, y, x, c, l) /\ yp = m[y].parent
  /\ x # y /\ c # x /\ c # y /\ yp # x /\ yp # y /\ yp # c
  /\ m[y].root <=> yp = t
  /\ ~m[y].root => m[y].left \in BOOLEAN /\ yp \in Inner(m, t)

(* In a tree the nodes of a rotation are different, and the parent above is *)
(* the head or an internal node.                                            *)
LEMMA TurnIsOnTree ==
  ASSUME NEW m, NEW t, NEW y, NEW x, NEW c, NEW l,
         Fine(m, t), Links(m, t), Rising(m, t), Turns(m, t, y, x, c, l)
  PROVE  Rotation(m, single_rotate(m, y, l), t, y, x, c, m[y].parent, l)
<1>1. PICK top, rk : Ranked(m, t, top, rk)
  BY DEF Rising
<1>2. x \in Below(m, t) /\ y \in Below(m, t) /\ c \in Below(m, t) /\ l \in BOOLEAN
  BY DEF Turns, Inner
<1>3. rk[x] < rk[y] /\ rk[c] < rk[x] /\ rk[x] \in Int /\ rk[y] \in Int /\ rk[c] \in Int
  <2>1. \A n \in Below(m, t) : rk[n] \in Int
    BY <1>1 DEF Ranked
  <2>2. \A n \in Inner(m, t), s \in BOOLEAN : rk[Kid(m, n, s)] < rk[n]
    BY <1>1 DEF Ranked
  <2> QED BY <1>2, <2>1, <2>2 DEF Turns
<1>4. m[y].root => m[y].parent = t
  BY <1>2 DEF Links, RootOK, Below
<1>5. ~m[y].root => /\ m[y].left \in BOOLEAN /\ m[y].parent \in Inner(m, t)
                    /\ Kid(m, m[y].parent, m[y].left) = y
  BY <1>2 DEF Links, ParentsOK
<1>6. ~m[y].root => m[y].parent \in Below(m, t) /\ rk[y] < rk[m[y].parent]
  BY <1>1, <1>5 DEF Ranked, Inner
<1>7. /\ x # y /\ c # x /\ c # y
      /\ m[y].parent \in DOMAIN m /\ m[y].parent # x /\ m[y].parent # y /\ m[y].parent # c
      /\ m[y].root <=> m[y].parent = t
  BY <1>2, <1>3, <1>4, <1>5, <1>6 DEF Below, Fine
<1>8. Turned(m, single_rotate(m, y, l), y, x, c, m[y].parent, l)
  <2>1. IsMem(m) /\ m[y].root \in BOOLEAN /\ x \in DOMAIN m /\ y \in DOMAIN m /\ c \in DOMAIN m
    BY <1>2 DEF Fine, Below
  <2> QED BY <2>1, <1>2, <1>5, <1>7, RotationWrites DEF Turns
<1> QED BY <1>5, <1>7, <1>8 DEF Rotation

(* A rotation keeps the sets of nodes. *)
LEMMA TurnedSets ==
  ASSUME NEW m, NEW r, NEW t, NEW y, NEW x, NEW c, NEW yp, NEW l,
         Turned(m, r, y, x, c, yp, l)
  PROVE  Below(r, t) = Below(m, t) /\ Inner(r, t) = Inner(m, t) /\ Outer(r, t) = Outer(m, t)
BY DEF Turned, Below, Inner, Outer

(* A rotation keeps the fields fine. *)
LEMMA TurnedFine ==
  ASSUME NEW m, NEW r, NEW t, NEW y, NEW x, NEW c, NEW yp, NEW l,
         Turned(m, r, y, x, c, yp, l), Fine(m, t), y \in Below(m, t), l \in BOOLEAN
  PROVE  Fine(r, t)
<1>1. Below(r, t) = Below(m, t)
  BY TurnedSets
<1>2. \A k \in Below(m, t) : k \in DOMAIN m
  BY DEF Below
<1>3. IsMem(r) /\ t \in DOMAIN r /\ r[t].head = TRUE
  BY DEF Turned, Fine
<1>4. ASSUME NEW k \in Below(m, t)
      PROVE  /\ r[k].head = FALSE /\ r[k].internal \in BOOLEAN
             /\ r[k].red \in BOOLEAN /\ r[k].root \in BOOLEAN
             /\ r[k].left \in BOOLEAN \cup {Junk}
  <2>1. /\ m[k].head = FALSE /\ m[k].internal \in BOOLEAN /\ m[k].red \in BOOLEAN
        /\ m[k].root \in BOOLEAN /\ m[y].root \in BOOLEAN
        /\ m[k].left \in BOOLEAN \cup {Junk} /\ m[y].left \in BOOLEAN \cup {Junk}
    BY DEF Fine
  <2>2. r[k].head = FALSE /\ r[k].internal \in BOOLEAN /\ r[k].red \in BOOLEAN
    BY <1>2, <2>1 DEF Turned
  <2>3. r[k].root \in BOOLEAN
    BY <1>2, <2>1 DEF Turned
  <2>4. r[k].left \in BOOLEAN \cup {Junk}
    BY <1>2, <2>1 DEF Turned
  <2> QED BY <2>1, <2>2, <2>3, <2>4
<1> QED BY <1>1, <1>3, <1>4 DEF Fine

(* After a rotation children know their parents. *)
LEMMA TurnedKids ==
  ASSUME NEW m, NEW r, NEW t, NEW y, NEW x, NEW c, NEW yp, NEW l,
         Rotation(m, r, t, y, x, c, yp, l), Fine(m, t), Links(m, t)
  PROVE  KidsOK(r, t)
<1> USE DEF Rotation
<1>1. Below(r, t) = Below(m, t) /\ Inner(r, t) = Inner(m, t)
  BY TurnedSets
<1> SUFFICES ASSUME NEW n \in Inner(m, t), NEW s \in BOOLEAN
             PROVE  LET k == Kid(r, n, s)
                    IN k \in Below(m, t) /\ r[k].parent = n /\ r[k].left = s /\ ~r[k].root
  BY <1>1 DEF KidsOK
<1>2. \A k \in Inner(m, t) : k \in Below(m, t) /\ k \in DOMAIN m /\ k # t
  BY DEF Inner, Below
<1>3. \A k \in Below(m, t) : k \in DOMAIN m /\ k # t
  BY DEF Below
<1>4. /\ y \in Inner(m, t) /\ x \in Inner(m, t) /\ c \in Below(m, t) /\ x = Kid(m, y, l) /\ c = Kid(m, x, ~l) /\ l \in BOOLEAN
  BY DEF Turns
<1>5. /\ m[c].parent = x /\ m[c].left = ~l /\ ~m[c].root
      /\ m[x].parent = y /\ m[x].left = l /\ ~m[x].root
  <2>1. \A k \in Inner(m, t), j \in BOOLEAN :
          m[Kid(m, k, j)].parent = k /\ m[Kid(m, k, j)].left = j /\ ~m[Kid(m, k, j)].root
    BY DEF Links, KidsOK
  <2>2. m[x].parent = y /\ m[x].left = l /\ ~m[x].root
    BY <1>4, <2>1
  <2>3. m[c].parent = x /\ m[c].left = ~l /\ ~m[c].root
    BY <1>4, <2>1
  <2> QED BY <2>2, <2>3
<1>6. ~m[y].root => Kid(m, yp, m[y].left) = y
  BY <1>2, <1>4 DEF Links, ParentsOK
<1> DEFINE k == Kid(m, n, s)
<1>7. k \in Below(m, t) /\ m[k].parent = n /\ m[k].left = s /\ ~m[k].root
  BY DEF Links, KidsOK
<1>8. Kid(r, n, s) = IF n = y /\ s = l THEN c ELSE IF n = x /\ s = ~l THEN y
                      ELSE IF n = yp /\ ~m[y].root /\ s = m[y].left THEN x ELSE k
  BY <1>2 DEF Turned
<1>9. n = y /\ s = l => k = x
  BY <1>4
<1>10. n = x /\ s = ~l => k = c
  BY <1>4
<1>11. n = yp /\ ~m[y].root /\ s = m[y].left => k = y
  BY <1>6
<1> HIDE DEF k
<1>12. CASE n = y /\ s = l
  <2>1. Kid(r, n, s) = c
    BY <1>12, <1>8
  <2>2. r[c].parent = y /\ r[c].left = l /\ ~r[c].root
    BY <1>3, <1>4, <1>5 DEF Turned
  <2> QED BY <2>1, <2>2, <1>4, <1>12
<1>13. CASE n = x /\ s = ~l
  <2>1. Kid(r, n, s) = y
    BY <1>13, <1>8, <1>4
  <2>2. r[y].parent = x /\ r[y].left = ~l /\ ~r[y].root
    BY <1>2, <1>4 DEF Turned
  <2> QED BY <2>1, <2>2, <1>2, <1>4, <1>13
<1>14. CASE n = yp /\ ~m[y].root /\ s = m[y].left
  <2>1. Kid(r, n, s) = x
    BY <1>14, <1>8
  <2>2. r[x].parent = yp /\ r[x].left = m[y].left /\ r[x].root = m[y].root
    BY <1>2, <1>4, <1>14 DEF Turned
  <2> QED BY <2>1, <2>2, <1>2, <1>4, <1>14
<1>15. CASE ~(n = y /\ s = l) /\ ~(n = x /\ s = ~l) /\ ~(n = yp /\ ~m[y].root /\ s = m[y].left)
  <2>1. Kid(r, n, s) = k
    BY <1>15, <1>8
  <2>2. k # x /\ k # c
    BY <1>15, <1>7, <1>5, <1>4
  <2>3. k # y
    BY <1>15, <1>7, <1>4
  <2>4. k \in DOMAIN m /\ k # t
    BY <1>3, <1>7
  <2>5. r[k].parent = m[k].parent
    <3>1. ~(k = yp /\ m[y].root)
      BY <2>4
    <3> QED BY <2>2, <2>3, <2>4, <3>1 DEF Turned
  <2>6. r[k].left = m[k].left /\ r[k].root = m[k].root
    BY <2>2, <2>3, <2>4 DEF Turned
  <2> QED BY <2>1, <2>5, <2>6, <1>7
<1> QED BY <1>12, <1>13, <1>14, <1>15

(* After a rotation parents know their children. *)
LEMMA TurnedParents ==
  ASSUME NEW m, NEW r, NEW t, NEW y, NEW x, NEW c, NEW yp, NEW l,
         Rotation(m, r, t, y, x, c, yp, l), Fine(m, t), Links(m, t)
  PROVE  ParentsOK(r, t)
<1> USE DEF Rotation
<1>1. Below(r, t) = Below(m, t) /\ Inner(r, t) = Inner(m, t)
  BY TurnedSets
<1> SUFFICES ASSUME NEW n \in Below(m, t), ~r[n].root
             PROVE  /\ r[n].parent \in Inner(m, t) /\ r[n].left \in BOOLEAN
                    /\ Kid(r, r[n].parent, r[n].left) = n
  BY <1>1 DEF ParentsOK
<1>2. \A k \in Inner(m, t) : k \in Below(m, t) /\ k \in DOMAIN m /\ k # t
  BY DEF Inner, Below
<1>3. \A k \in Below(m, t) : k \in DOMAIN m /\ k # t
  BY DEF Below
<1>4. /\ y \in Inner(m, t) /\ x \in Inner(m, t) /\ c \in Below(m, t) /\ x = Kid(m, y, l) /\ c = Kid(m, x, ~l) /\ l \in BOOLEAN
  BY DEF Turns
<1>5. /\ m[c].parent = x /\ m[c].left = ~l /\ ~m[c].root
      /\ m[x].parent = y /\ m[x].left = l /\ ~m[x].root
  BY <1>4 DEF Links, KidsOK
<1>6. ~m[n].root => m[n].parent \in Inner(m, t) /\ m[n].left \in BOOLEAN /\ Kid(m, m[n].parent, m[n].left) = n
  BY DEF Links, ParentsOK
<1>7. CASE n = c
  BY <1>7, <1>2, <1>3, <1>4 DEF Turned
<1>8. CASE n = y
  <2>1. r[n].parent = x /\ r[n].left = ~l
    BY <1>8, <1>2, <1>4 DEF Turned
  <2>2. ~(x = y /\ ~l = l) /\ Kid(r, x, ~l) = y
    BY <1>2, <1>4 DEF Turned
  <2> QED BY <2>1, <2>2, <1>4, <1>8
<1>9. CASE n = x
  <2>1. r[n].root = m[y].root
    BY <1>9, <1>2, <1>4 DEF Turned
  <2>2. r[n].parent = yp /\ r[n].left = m[y].left
    BY <2>1, <1>9, <1>2, <1>4 DEF Turned
  <2>3. Kid(r, yp, m[y].left) = x
    BY <2>1, <1>9, <1>2, <1>4 DEF Turned
  <2> QED BY <2>1, <2>2, <2>3, <1>9
<1>10. CASE n # c /\ n # y /\ n # x
  <2>1. r[n].root = m[n].root /\ r[n].left = m[n].left /\ r[n].parent = m[n].parent
    BY <1>10, <1>3 DEF Turned
  <2> DEFINE p == m[n].parent
             s == m[n].left
  <2>2. p \in Inner(m, t) /\ p \in DOMAIN m /\ s \in BOOLEAN /\ Kid(m, p, s) = n
    BY <2>1, <1>6, <1>2
  <2>3. ~(p = y /\ s = l) /\ ~(p = x /\ s = ~l)
    BY <2>2, <1>10, <1>4
  <2>4. ~(p = yp /\ ~m[y].root /\ s = m[y].left)
    BY <2>2, <1>10, <1>2, <1>4 DEF Links, ParentsOK
  <2> HIDE DEF p, s
  <2>5. Kid(r, p, s) = n
    BY <2>2, <2>3, <2>4 DEF Turned
  <2> QED BY <2>1, <2>2, <2>5 DEF p, s
<1> QED BY <1>7, <1>8, <1>9, <1>10

(* After a rotation the root is right: x, if y was the root. *)
LEMMA TurnedRoot ==
  ASSUME NEW m, NEW r, NEW t, NEW y, NEW x, NEW c, NEW yp, NEW l,
         Rotation(m, r, t, y, x, c, yp, l), Fine(m, t), Links(m, t)
  PROVE  RootOK(r, t) /\ r[t].parent = IF m[y].root THEN x ELSE m[t].parent
<1> USE DEF Rotation
<1>1. Below(r, t) = Below(m, t) /\ Inner(r, t) = Inner(m, t)
  BY TurnedSets
<1>2. \A k \in Inner(m, t) : k \in Below(m, t) /\ k \in DOMAIN m /\ k # t
  BY DEF Inner, Below
<1>3. \A k \in Below(m, t) : k \in DOMAIN m /\ k # t
  BY DEF Below
<1>4. /\ y \in Inner(m, t) /\ x \in Inner(m, t) /\ c \in Below(m, t) /\ t \in DOMAIN m /\ DOMAIN r = DOMAIN m
  BY DEF Turns, Fine, Turned
<1>5. t # x /\ t # y /\ t # c
  BY <1>2, <1>3, <1>4
<1>6. r[t].parent = IF m[y].root THEN x ELSE m[t].parent
  BY <1>4, <1>5 DEF Turned
<1>7. RootOK(m, t)
  BY DEF Links
<1>8. ~m[x].root /\ ~m[c].root
  BY DEF Links, KidsOK, Turns
<1>9. CASE m[y].root
  <2>1. r[t].parent = x /\ r[x].parent = t
    BY <1>9, <1>2, <1>4, <1>6 DEF Turned
  <2>2. \A n \in Below(m, t) : m[n].root <=> n = y
    BY <1>9, <1>2, <1>4, <1>7 DEF RootOK
  <2>3. \A n \in Below(m, t) : r[n].root <=> n = x
    BY <1>3, <1>9, <2>2 DEF Turned
  <2>4. x \in DOMAIN r
    BY <1>2, <1>4
  <2> QED BY <1>1, <1>5, <1>6, <1>9, <2>1, <2>3, <2>4 DEF RootOK
<1>10. CASE ~m[y].root
  <2> DEFINE q == m[t].parent
  <2>1. r[t].parent = q /\ q \in DOMAIN m /\ q # t /\ m[q].parent = t
    BY <1>10, <1>2, <1>4, <1>6, <1>7 DEF RootOK
  <2>2. q # x /\ q # y /\ q # c
    BY <1>2, <1>3, <1>4, <1>7, <1>8, <1>10 DEF RootOK
  <2> HIDE DEF q
  <2>3. r[q].parent = t
    BY <2>1, <2>2, <1>10 DEF Turned
  <2>4. \A n \in Below(m, t) : r[n].root <=> m[n].root
    BY <1>3, <1>8, <1>10 DEF Turned
  <2>5. \A n \in Below(m, t) : r[n].root <=> n = q
    BY <2>4, <1>7 DEF RootOK, q
  <2> QED BY <1>1, <1>4, <1>6, <1>10, <2>1, <2>3, <2>5 DEF RootOK
<1> QED BY <1>6, <1>9, <1>10

(* A rotation leaves no cycle: the ranks of the two nodes are exchanged by *)
(* doubling.                                                               *)
LEMMA TurnedRising ==
  ASSUME NEW m, NEW r, NEW t, NEW y, NEW x, NEW c, NEW yp, NEW l,
         Rotation(m, r, t, y, x, c, yp, l), Fine(m, t), Links(m, t), Rising(m, t)
  PROVE  Rising(r, t)
<1> USE DEF Rotation
<1>1. Below(r, t) = Below(m, t) /\ Inner(r, t) = Inner(m, t)
  BY TurnedSets
<1>2. PICK top, rk : Ranked(m, t, top, rk)
  BY DEF Rising
<1>3. top \in Nat /\ \A k \in Below(m, t) : rk[k] \in 0..top
  BY <1>2 DEF Ranked
<1>4. \A n \in Inner(m, t), s \in BOOLEAN : Kid(m, n, s) \in Below(m, t) /\ rk[Kid(m, n, s)] < rk[n]
  BY <1>2 DEF Ranked, Links, KidsOK
<1>5. \A k \in Inner(m, t) : k \in Below(m, t) /\ k \in DOMAIN m
  BY DEF Inner, Below
<1>6. /\ y \in Inner(m, t) /\ x \in Inner(m, t) /\ c \in Below(m, t)
      /\ x = Kid(m, y, l) /\ c = Kid(m, x, ~l) /\ l \in BOOLEAN
  BY DEF Turns
<1> DEFINE M  == rk[y]
           up == [k \in Below(m, t) |-> IF k = x THEN M + 1 ELSE IF k = y THEN M
                                        ELSE IF rk[k] > M THEN rk[k] + 1 ELSE rk[k]]
<1>7. M \in 0..top
  BY <1>3, <1>5, <1>6
<1>8. /\ \A k \in Below(m, t) : up[k] = IF k = x THEN M + 1 ELSE IF k = y THEN M
                                        ELSE IF rk[k] > M THEN rk[k] + 1 ELSE rk[k]
      /\ up \in [Below(m, t) -> 0..top + 1]
  BY <1>3, <1>7
<1> HIDE DEF up
<1>9. ASSUME NEW n \in Inner(m, t), NEW s \in BOOLEAN
      PROVE  up[Kid(r, n, s)] < up[n]
  <2> DEFINE k == Kid(m, n, s)
  <2>1. /\ k \in Below(m, t) /\ rk[k] < rk[n] /\ rk[k] \in Int /\ rk[n] \in Int /\ n \in Below(m, t)
        /\ m[k].parent = n
    BY <1>3, <1>4, <1>5 DEF Links, KidsOK
  <2>2. Kid(r, n, s) = IF n = y /\ s = l THEN c ELSE IF n = x /\ s = ~l THEN y
                       ELSE IF n = yp /\ ~m[y].root /\ s = m[y].left THEN x ELSE k
    BY <1>5 DEF Turned
  <2>3. rk[x] < M /\ rk[c] < rk[x] /\ rk[x] \in Int /\ rk[c] \in Int /\ M \in Int /\ x \in Below(m, t) /\ y \in Below(m, t)
    <3>1. x \in Below(m, t) /\ y \in Below(m, t) /\ c \in Below(m, t)
      BY <1>5, <1>6
    <3>2. rk[x] \in Int /\ rk[c] \in Int /\ rk[y] \in Int
      BY <3>1, <1>3
    <3>3. rk[Kid(m, y, l)] < rk[y] /\ rk[Kid(m, x, ~l)] < rk[x]
      BY <1>4, <1>6
    <3> QED BY <3>1, <3>2, <3>3, <1>6
  <2>4. n = yp /\ ~m[y].root /\ s = m[y].left => k = y
    BY <1>5, <1>6 DEF Links, ParentsOK
  <2>5. m[x].parent = y
    BY <1>6 DEF Links, KidsOK
  <2> HIDE DEF k, M
  <2>6. CASE n = y /\ s = l
    BY <2>6, <2>2, <2>3, <1>8, <1>6
  <2>7. CASE n = x /\ s = ~l
    BY <2>7, <2>2, <2>3, <1>8, <1>6
  <2>8. CASE n = yp /\ ~m[y].root /\ s = m[y].left
    <3>1. Kid(r, n, s) = x /\ k = y
      BY <2>8, <2>2, <2>4
    <3> QED BY <2>1, <2>3, <2>8, <3>1, <1>8 DEF M
  <2>9. CASE ~(n = y /\ s = l) /\ ~(n = x /\ s = ~l) /\ ~(n = yp /\ ~m[y].root /\ s = m[y].left)
    <3>1. Kid(r, n, s) = k
      BY <2>9, <2>2
    <3>2. k # x
      BY <2>1, <2>5, <2>9, <1>6 DEF Links, KidsOK, k
    <3>3. k = y => rk[k] = M
      BY DEF M
    <3>4. n = x \/ n = y => rk[k] < M
      BY <2>1, <2>3 DEF M
    <3> QED BY <2>1, <2>3, <3>1, <3>2, <3>3, <3>4, <1>8 DEF M
  <2> QED BY <2>6, <2>7, <2>8, <2>9
<1>10. Ranked(r, t, top + 1, up)
  <2>1. top + 1 \in Nat
    BY <1>3
  <2> QED BY <1>1, <1>8, <1>9, <2>1 DEF Ranked
<1> QED BY <1>10 DEF Rising

(* The ends of the subtrees after a rotation. *)
EndsTurned(m, t, e, y, x, c, l) ==
  [s \in BOOLEAN |-> [k \in Below(m, t) |->
     IF k = x THEN e[s][y] ELSE IF k = y /\ s = l THEN e[l][c] ELSE e[s][k]]]

(* A rotation keeps the leaves at the ends of every subtree but those of the *)
(* two nodes, which are given.                                               *)
LEMMA TurnedEnds ==
  ASSUME NEW m, NEW r, NEW t, NEW y, NEW x, NEW c, NEW yp, NEW l, NEW e, NEW f,
         Rotation(m, r, t, y, x, c, yp, l), Fine(m, t), Links(m, t), Ends(m, t, e),
         f = EndsTurned(m, t, e, y, x, c, l)
  PROVE  /\ Ends(r, t, f)
         /\ \A n \in Inner(m, t), s \in BOOLEAN : f[~s][Kid(r, n, s)] = e[~s][Kid(m, n, s)]
         /\ \A n \in Outer(m, t), s \in BOOLEAN : f[s][n] = e[s][n]
         /\ \A s \in BOOLEAN : Below(m, t) # {} => f[s][r[t].parent] = e[s][m[t].parent]
<1> USE DEF Rotation
<1>1. Below(r, t) = Below(m, t) /\ Inner(r, t) = Inner(m, t) /\ Outer(r, t) = Outer(m, t)
  BY TurnedSets
<1>2. \A k \in Inner(m, t) : k \in Below(m, t) /\ k \in DOMAIN m
  BY DEF Inner, Below
<1>3. \A k \in Outer(m, t) : k \in Below(m, t) /\ k \notin Inner(m, t)
  BY DEF Inner, Outer, Below
<1>4. /\ y \in Inner(m, t) /\ x \in Inner(m, t) /\ c \in Below(m, t)
      /\ x = Kid(m, y, l) /\ c = Kid(m, x, ~l) /\ l \in BOOLEAN
  BY DEF Turns
<1>5. \A s \in BOOLEAN : /\ \A k \in Below(m, t) : e[s][k] \in Outer(m, t)
                         /\ \A n \in Outer(m, t) : e[s][n] = n
                         /\ \A n \in Inner(m, t) : e[s][n] = e[s][Kid(m, n, s)]
  BY DEF Ends
<1>6. \A s \in BOOLEAN, k \in Below(m, t) :
        f[s][k] = IF k = x THEN e[s][y] ELSE IF k = y /\ s = l THEN e[l][c] ELSE e[s][k]
  BY DEF EndsTurned
<1>12. /\ \A s \in BOOLEAN : f[s][x] = e[s][y]
       /\ f[l][y] = e[l][c] /\ f[~l][y] = e[~l][y]
  <2>1. (~l) \in BOOLEAN /\ (~l) # l /\ x \in Below(m, t) /\ y \in Below(m, t)
    BY <1>2, <1>4
  <2>2. x # y
    OBVIOUS
  <2>3. \A s \in BOOLEAN : f[s][x] = e[s][y]
    BY <2>1, <1>6
  <2>4. f[l][y] = e[l][c]
    BY <2>1, <2>2, <1>4, <1>6
  <2>5. f[~l][y] = e[~l][y]
    BY <2>1, <2>2, <1>6, Zenon
  <2> QED BY <2>3, <2>4, <2>5
<1>13. \A s \in BOOLEAN, k \in Below(m, t) : k # x /\ k # y => f[s][k] = e[s][k]
  BY <1>6
<1>7. f \in [BOOLEAN -> [Below(m, t) -> Outer(m, t)]]
  BY <1>2, <1>4, <1>5 DEF EndsTurned
<1>8. \A n \in Outer(m, t), s \in BOOLEAN : f[s][n] = e[s][n]
  BY <1>3, <1>4, <1>6
<1>9. ASSUME NEW n \in Inner(m, t), NEW s \in BOOLEAN
      PROVE  /\ f[~s][Kid(r, n, s)] = e[~s][Kid(m, n, s)]
             /\ f[s][n] = f[s][Kid(r, n, s)]
  <2> DEFINE k == Kid(m, n, s)
             q == Kid(r, n, s)
  <2>1. /\ k \in Below(m, t) /\ m[k].parent = n /\ n \in Below(m, t)
    BY <1>2 DEF Links, KidsOK
  <2>2. q = IF n = y /\ s = l THEN c ELSE IF n = x /\ s = ~l THEN y
                       ELSE IF n = yp /\ ~m[y].root /\ s = m[y].left THEN x ELSE k
    BY <1>2 DEF Turned
  <2>3. e[l][y] = e[l][x] /\ e[~l][x] = e[~l][c] /\ e[s][n] = e[s][k] /\ (~s) \in BOOLEAN /\ (~l) \in BOOLEAN
    <3>1. e[l][y] = e[l][Kid(m, y, l)] /\ e[~l][x] = e[~l][Kid(m, x, ~l)]
      BY <1>4, <1>5
    <3>2. e[s][n] = e[s][k]
      BY <1>5
    <3>3. (~s) \in BOOLEAN /\ (~l) \in BOOLEAN
      BY <1>4
    <3> QED BY <3>1, <3>2, <3>3, <1>4, Zenon
  <2>4. n = yp /\ ~m[y].root /\ s = m[y].left => k = y
    BY <1>2, <1>4 DEF Links, ParentsOK
  <2>5. m[x].parent = y
    BY <1>4 DEF Links, KidsOK
  <2>6. /\ n = y /\ s = l => k = x
        /\ n = x /\ s = ~l => k = c
    BY <1>4
  <2> HIDE DEF k, q
  <2>7. CASE n = y /\ s = l
    <3>1. q = c /\ k = x
      BY <2>7, <2>2, <2>6
    <3>2. f[~l][c] = e[~l][c] /\ f[l][c] = e[l][c] /\ f[l][y] = e[l][c]
      <4>1. c # x /\ c # y /\ c \in Below(m, t) /\ (~l) \in BOOLEAN
        BY <1>4, <2>3
      <4>2. f[~l][c] = e[~l][c]
        BY <4>1, <1>13, Zenon
      <4>3. f[l][c] = e[l][c]
        BY <4>1, <1>4, <1>13
      <4> QED BY <4>2, <4>3, <1>12
    <3>3. f[~s][q] = e[~s][k]
      BY <3>1, <3>2, <2>3, <2>7, Zenon
    <3>4. f[s][n] = f[s][q]
      BY <3>1, <3>2, <2>7, Zenon
    <3> QED BY <3>3, <3>4 DEF q, k
  <2>8. CASE n = x /\ s = ~l
    <3>1. q = y /\ k = c /\ (~s) = l
      BY <2>8, <2>2, <2>6, <1>4
    <3>2. f[l][y] = e[l][c] /\ f[~l][y] = e[~l][y] /\ f[~l][x] = e[~l][y]
      <4>1. c # x /\ c # y /\ c \in Below(m, t) /\ (~l) \in BOOLEAN
        BY <1>4, <2>3
      <4>2. f[~l][c] = e[~l][c]
        BY <4>1, <1>13, Zenon
      <4>3. f[l][c] = e[l][c]
        BY <4>1, <1>4, <1>13
      <4> QED BY <4>2, <4>3, <1>12
    <3>3. f[~s][q] = e[~s][k]
      BY <3>1, <3>2, Zenon
    <3>4. f[s][n] = f[s][q]
      BY <3>1, <3>2, <2>8, Zenon
    <3> QED BY <3>3, <3>4 DEF q, k
  <2>9. CASE n = yp /\ ~m[y].root /\ s = m[y].left
    <3>1. q = x /\ k = y
      BY <2>9, <2>2, <2>4
    <3>2. f[~s][x] = e[~s][y] /\ f[s][x] = e[s][y]
      BY <1>12, <2>3
    <3>3. f[s][n] = e[s][n]
      BY <1>13, <2>1, <2>9
    <3> QED BY <3>1, <3>2, <3>3, <2>3 DEF q, k
  <2>10. CASE ~(n = y /\ s = l) /\ ~(n = x /\ s = ~l) /\ ~(n = yp /\ ~m[y].root /\ s = m[y].left)
    <3>1. q = k
      BY <2>10, <2>2
    <3>2. k # x
      BY <2>1, <2>5, <2>10, <1>4 DEF Links, KidsOK, k
    <3>3. k # y
      BY <2>1, <2>10, <1>2, <1>4 DEF Links, ParentsOK, KidsOK, k
    <3>4. f[s][k] = e[s][k] /\ f[~s][k] = e[~s][k]
      BY <1>13, <2>1, <2>3, <3>2, <3>3
    <3>5. f[s][n] = e[s][n]
      <4>1. CASE n = x
        <5>1. s = l
          BY <2>10, <4>1, <1>4
        <5> QED BY <4>1, <5>1, <1>2, <1>4, <1>6, <2>3
      <4>2. CASE n # x
        BY <4>2, <2>1, <2>10, <1>6
      <4> QED BY <4>1, <4>2
    <3> QED BY <3>1, <3>4, <3>5, <2>3 DEF q, k
  <2> QED BY <2>7, <2>8, <2>9, <2>10
<1>10. Ends(r, t, f)
  BY <1>1, <1>5, <1>7, <1>8, <1>9 DEF Ends
<1>11. ASSUME NEW s \in BOOLEAN, Below(m, t) # {}
       PROVE  f[s][r[t].parent] = e[s][m[t].parent]
  <2>1. r[t].parent = (IF m[y].root THEN x ELSE m[t].parent) /\ ~m[x].root
    <3>1. ~m[x].root
      BY <1>4 DEF Links, KidsOK
    <3> QED BY <3>1, TurnedRoot
  <2>2. /\ m[t].parent \in Below(m, t) /\ m[m[t].parent].root
        /\ m[y].root => m[t].parent = y
    BY <1>2, <1>4, <1>11 DEF Links, RootOK, Below
  <2> QED BY <1>2, <1>4, <1>6, <2>1, <2>2
<1> QED BY <1>8, <1>9, <1>10, <1>11

(* single_rotate keeps the shape of the tree, the leaves and their order. *)
LEMMA RotationKeepsShape ==
  ASSUME NEW m, NEW t, NEW X, NEW y, NEW x, NEW c, NEW l,
         Shape(m, t, X), Turns(m, t, y, x, c, l)
  PROVE  LET r == single_rotate(m, y, l)
         IN Shape(r, t, X) /\ Same(m, r, t) /\ Rotation(m, r, t, y, x, c, m[y].parent, l)
<1> DEFINE r  == single_rotate(m, y, l)
           yp == m[y].parent
<1>1. Fine(m, t) /\ Links(m, t) /\ Rising(m, t) /\ Ring(m, t)
  BY DEF Shape
<1>2. PICK e : Ends(m, t, e) /\ Gaps(m, t, e) /\ Seps(m, t, e, X)
  BY DEF Shape, Spread
<1>3. Rotation(m, r, t, y, x, c, yp, l)
  BY <1>1, TurnIsOnTree
<1> HIDE DEF r, yp
<1>4. Turned(m, r, y, x, c, yp, l) /\ y \in Below(m, t) /\ x \in Inner(m, t) /\ y \in Inner(m, t)
  BY <1>3 DEF Rotation, Turns, Inner
<1>5. Fine(r, t)
  BY <1>1, <1>3, <1>4, TurnedFine DEF Rotation, Turns
<1>6. Links(r, t)
  BY <1>1, <1>3, TurnedKids, TurnedParents, TurnedRoot DEF Links
<1>7. Rising(r, t)
  BY <1>1, <1>3, TurnedRising
<1>8. Below(r, t) = Below(m, t) /\ Inner(r, t) = Inner(m, t) /\ Outer(r, t) = Outer(m, t)
  BY <1>4, TurnedSets
<1>9. ASSUME NEW n \in Outer(m, t) \cup {t}
      PROVE  r[n].flink = m[n].flink /\ r[n].blink = m[n].blink
  <2>1. n \in DOMAIN m /\ n \notin Inner(m, t)
    BY <1>1 DEF Outer, Inner, Below, Fine
  <2>2. n = yp => m[y].root
    BY <2>1, <1>3 DEF Rotation
  <2>3. \A s \in BOOLEAN : Kid(r, n, s) = Kid(m, n, s)
    BY <2>1, <2>2, <1>4 DEF Turned
  <2> QED BY <2>3 DEF Kid, Side
<1>10. Same(m, r, t)
  BY <1>4, <1>9 DEF Same, Turned
<1>11. Ring(r, t)
  <2>1. \A n \in Outer(m, t) \cup {t} :
          /\ m[n].flink \in Outer(m, t) \cup {t} /\ m[m[n].flink].blink = n
          /\ m[n].blink \in Outer(m, t) \cup {t} /\ m[m[n].blink].flink = n
    BY <1>1 DEF Ring
  <2> QED BY <2>1, <1>8, <1>9 DEF Ring
<1> DEFINE f == EndsTurned(m, t, e, y, x, c, l)
<1> HIDE DEF f
<1>12. /\ Ends(r, t, f)
       /\ \A n \in Inner(m, t), s \in BOOLEAN : f[~s][Kid(r, n, s)] = e[~s][Kid(m, n, s)]
       /\ \A n \in Outer(m, t), s \in BOOLEAN : f[s][n] = e[s][n]
       /\ \A s \in BOOLEAN : Below(m, t) # {} => f[s][r[t].parent] = e[s][m[t].parent]
  <2>1. f = EndsTurned(m, t, e, y, x, c, l)
    BY DEF f
  <2> QED BY <2>1, <1>1, <1>2, <1>3, TurnedEnds
<1>13. Gaps(r, t, f)
  <2>1. ASSUME NEW n \in Inner(m, t)
        PROVE  r[f[FALSE][Kid(r, n, TRUE)]].flink = f[TRUE][Kid(r, n, FALSE)]
    <3>1. f[FALSE][Kid(r, n, TRUE)] = e[FALSE][Kid(m, n, TRUE)]
      <4>1. f[~TRUE][Kid(r, n, TRUE)] = e[~TRUE][Kid(m, n, TRUE)]
        BY <1>12
      <4> QED BY <4>1
    <3>2. f[TRUE][Kid(r, n, FALSE)] = e[TRUE][Kid(m, n, FALSE)]
      <4>1. f[~FALSE][Kid(r, n, FALSE)] = e[~FALSE][Kid(m, n, FALSE)]
        BY <1>12
      <4> QED BY <4>1
    <3>3. e[FALSE][Kid(m, n, TRUE)] \in Outer(m, t)
      <4>1. Kid(m, n, TRUE) \in Below(m, t)
        BY <1>1 DEF Links, KidsOK
      <4>2. e[FALSE] \in [Below(m, t) -> Outer(m, t)]
        BY <1>2 DEF Ends
      <4> QED BY <4>1, <4>2
    <3>4. m[e[FALSE][Kid(m, n, TRUE)]].flink = e[TRUE][Kid(m, n, FALSE)]
      BY <1>2 DEF Gaps
    <3> QED BY <3>1, <3>2, <3>3, <3>4, <1>9
  <2>2. Below(m, t) # {} => r[t].flink = f[TRUE][r[t].parent] /\ r[t].blink = f[FALSE][r[t].parent]
    <3>1. Below(m, t) # {} => m[t].flink = e[TRUE][m[t].parent] /\ m[t].blink = e[FALSE][m[t].parent]
      BY <1>2 DEF Gaps
    <3> QED BY <3>1, <1>9, <1>12
  <2> QED BY <2>1, <2>2, <1>8 DEF Gaps
<1>14. Seps(r, t, f, X)
  <2>1. ASSUME NEW n \in Inner(m, t), NEW s \in BOOLEAN
        PROVE  \/ r[n][Split(s)] = f[~s][Kid(r, n, s)]
               \/ <<s, f[~s][Kid(r, n, s)]>> \in X
    <3>1. r[n][Split(s)] = m[n][Split(s)]
      BY <1>4 DEF Turned, Split, Inner, Below
    <3>2. f[~s][Kid(r, n, s)] = e[~s][Kid(m, n, s)]
      BY <1>12
    <3>3. \/ m[n][Split(s)] = e[~s][Kid(m, n, s)]
          \/ <<s, e[~s][Kid(m, n, s)]>> \in X
      BY <1>2 DEF Seps
    <3> QED BY <3>1, <3>2, <3>3
  <2> QED BY <2>1, <1>8 DEF Seps
<1>15. Shape(r, t, X)
  BY <1>5, <1>6, <1>7, <1>11, <1>12, <1>13, <1>14 DEF Shape, Spread
<1> QED BY <1>3, <1>10, <1>15 DEF r, yp

-----------------------------------------------------------------------------
(* Only the colours of r are not those of m. *)
Painted(m, r) ==
  /\ DOMAIN r = DOMAIN m /\ IsMem(r)
  /\ \A n \in DOMAIN m :
       /\ r[n].internal = m[n].internal /\ r[n].left = m[n].left /\ r[n].root = m[n].root
       /\ r[n].head = m[n].head /\ r[n].flink = m[n].flink /\ r[n].blink = m[n].blink
       /\ r[n].parent = m[n].parent /\ r[n].key = m[n].key /\ r[n].val = m[n].val

(* Recolouring one node changes its colour only. *)
LEMMA PaintOne ==
  ASSUME NEW m, IsMem(m), NEW a \in DOMAIN m, NEW v
  PROVE  /\ Painted(m, setcolor(m, a, v))
         /\ \A n \in DOMAIN m : setcolor(m, a, v)[n].red = IF n = a THEN v ELSE m[n].red
<1> DEFINE r == setcolor(m, a, v)
<1>1. DOMAIN r = DOMAIN m /\ \A n \in DOMAIN m : n # a => r[n] = m[n]
  BY DEF setcolor
<1>2. r[a] = [m[a] EXCEPT !.red = v] /\ DOMAIN m[a] = Fields
  BY DEF IsMem, setcolor
<1> HIDE DEF r
<1>3. DOMAIN r[a] = Fields
  BY <1>2
<1>4. IsMem(r)
  BY <1>1, <1>3 DEF IsMem
<1>5. /\ r[a].red = v
      /\ r[a].internal = m[a].internal /\ r[a].left = m[a].left /\ r[a].root = m[a].root
      /\ r[a].head = m[a].head /\ r[a].flink = m[a].flink /\ r[a].blink = m[a].blink
      /\ r[a].parent = m[a].parent /\ r[a].key = m[a].key /\ r[a].val = m[a].val
  BY <1>2 DEF Fields
<1>6. Painted(m, r)
  BY <1>1, <1>4, <1>5 DEF Painted
<1>7. \A n \in DOMAIN m : r[n].red = IF n = a THEN v ELSE m[n].red
  BY <1>1, <1>5
<1> QED BY <1>6, <1>7 DEF r

(* The same of setblack. *)
LEMMA PaintBlack ==
  ASSUME NEW m, IsMem(m), NEW a \in DOMAIN m
  PROVE  /\ Painted(m, setblack(m, a))
         /\ \A n \in DOMAIN m : setblack(m, a)[n].red = IF n = a THEN FALSE ELSE m[n].red
<1>1. PICK v : v = FALSE
  OBVIOUS
<1>2. setblack(m, a) = setcolor(m, a, v)
  BY <1>1 DEF setblack
<1>3. /\ Painted(m, setblack(m, a))
      /\ \A n \in DOMAIN m : setblack(m, a)[n].red = IF n = a THEN v ELSE m[n].red
  BY <1>2, PaintOne
<1> QED BY <1>1, <1>3

(* Recolouring two nodes changes their colours only. *)
LEMMA PaintTwo ==
  ASSUME NEW m, IsMem(m), NEW a \in DOMAIN m, NEW b \in DOMAIN m, NEW v, NEW w, a # b
  PROVE  /\ Painted(m, setcolor(setcolor(m, a, v), b, w))
         /\ \A n \in DOMAIN m : setcolor(setcolor(m, a, v), b, w)[n].red =
              IF n = a THEN v ELSE IF n = b THEN w ELSE m[n].red
<1> DEFINE q == setcolor(m, a, v)
           r == setcolor(q, b, w)
<1>1. /\ Painted(m, q)
      /\ \A n \in DOMAIN m : q[n].red = IF n = a THEN v ELSE m[n].red
  BY PaintOne
<1> HIDE DEF q
<1>2. IsMem(q) /\ b \in DOMAIN q
  BY <1>1 DEF Painted
<1>3. /\ Painted(q, r)
      /\ \A n \in DOMAIN q : r[n].red = IF n = b THEN w ELSE q[n].red
  BY <1>2, PaintOne
<1> HIDE DEF r
<1>4. Painted(m, r)
  BY <1>1, <1>3 DEF Painted
<1>5. \A n \in DOMAIN m : r[n].red = IF n = a THEN v ELSE IF n = b THEN w ELSE m[n].red
  BY <1>1, <1>3 DEF Painted
<1> QED BY <1>4, <1>5 DEF r, q

(* Recolouring three nodes changes their colours only. *)
LEMMA PaintThree ==
  ASSUME NEW m, IsMem(m), NEW a \in DOMAIN m, NEW b \in DOMAIN m, NEW c \in DOMAIN m,
         NEW v, NEW w, NEW u, a # b, a # c, b # c
  PROVE  /\ Painted(m, setcolor(setcolor(setcolor(m, a, v), b, w), c, u))
         /\ \A n \in DOMAIN m : setcolor(setcolor(setcolor(m, a, v), b, w), c, u)[n].red =
              IF n = a THEN v ELSE IF n = b THEN w ELSE IF n = c THEN u ELSE m[n].red
<1> DEFINE q == setcolor(setcolor(m, a, v), b, w)
           r == setcolor(q, c, u)
<1>1. /\ Painted(m, q)
      /\ \A n \in DOMAIN m : q[n].red = IF n = a THEN v ELSE IF n = b THEN w ELSE m[n].red
  BY PaintTwo
<1> HIDE DEF q
<1>2. IsMem(q) /\ c \in DOMAIN q
  BY <1>1 DEF Painted
<1>3. /\ Painted(q, r)
      /\ \A n \in DOMAIN q : r[n].red = IF n = c THEN u ELSE q[n].red
  BY <1>2, PaintOne
<1> HIDE DEF r
<1>4. Painted(m, r)
  BY <1>1, <1>3 DEF Painted
<1>5. \A n \in DOMAIN m : r[n].red = IF n = a THEN v ELSE IF n = b THEN w
                                    ELSE IF n = c THEN u ELSE m[n].red
  BY <1>1, <1>3 DEF Painted
<1> QED BY <1>4, <1>5 DEF r, q

(* Only the colours and the separators of r are not those of m. *)
Alike(m, r) ==
  /\ DOMAIN r = DOMAIN m /\ IsMem(r)
  /\ \A n \in DOMAIN m :
       /\ r[n].internal = m[n].internal /\ r[n].left = m[n].left /\ r[n].root = m[n].root
       /\ r[n].head = m[n].head /\ r[n].flink = m[n].flink /\ r[n].blink = m[n].blink
       /\ r[n].parent = m[n].parent

(* Writing colours and separators keeps the sets of nodes and the children. *)
LEMMA AlikeSets ==
  ASSUME NEW m, NEW r, NEW t, Alike(m, r)
  PROVE  /\ Below(r, t) = Below(m, t) /\ Inner(r, t) = Inner(m, t) /\ Outer(r, t) = Outer(m, t)
         /\ \A n \in Below(m, t), l \in BOOLEAN : Kid(r, n, l) = Kid(m, n, l)
<1>1. Below(r, t) = Below(m, t) /\ Inner(r, t) = Inner(m, t) /\ Outer(r, t) = Outer(m, t)
  BY DEF Alike, Below, Inner, Outer
<1>2. \A n \in Below(m, t), l \in BOOLEAN : Kid(r, n, l) = Kid(m, n, l)
  BY DEF Alike, Below, Kid, Side
<1> QED BY <1>1, <1>2

(* Writing colours and separators keeps every part of the shape but the    *)
(* separators.                                                             *)
LEMMA AlikeKeeps ==
  ASSUME NEW m, NEW r, NEW t, NEW e, Alike(m, r), Fine(m, t), Links(m, t), Rising(m, t),
         Ring(m, t), Ends(m, t, e), Gaps(m, t, e), \A n \in Below(m, t) : r[n].red \in BOOLEAN
  PROVE  /\ Fine(r, t) /\ Links(r, t) /\ Rising(r, t) /\ Ring(r, t)
         /\ Ends(r, t, e) /\ Gaps(r, t, e)
<1>1. /\ Below(r, t) = Below(m, t) /\ Inner(r, t) = Inner(m, t) /\ Outer(r, t) = Outer(m, t)
      /\ \A n \in Below(m, t), l \in BOOLEAN : Kid(r, n, l) = Kid(m, n, l)
  <2>1. /\ Below(r, t) = Below(m, t) /\ Inner(r, t) = Inner(m, t) /\ Outer(r, t) = Outer(m, t)
        /\ \A n \in Below(m, t), l \in BOOLEAN : Kid(r, n, l) = Kid(m, n, l)
    BY AlikeSets, ZenonT(30)
  <2> QED BY <2>1
<1>2. \A n \in Below(m, t) : n \in DOMAIN m
  BY DEF Below
<1>3. \A n \in Inner(m, t) \cup Outer(m, t) : n \in Below(m, t)
  BY DEF Inner, Outer
<1>4. t \in DOMAIN m
  BY DEF Fine
<1>5. \A n \in Inner(m, t), l \in BOOLEAN : Kid(m, n, l) \in Below(m, t)
  BY DEF Links, KidsOK
<1>6. Fine(r, t)
  BY <1>1, <1>2 DEF Alike, Fine
<1>7. KidsOK(r, t)
  BY <1>1, <1>2, <1>3 DEF Alike, Links, KidsOK
<1>8. ParentsOK(r, t)
  <2> SUFFICES ASSUME NEW n \in Below(m, t), ~r[n].root
               PROVE  /\ r[n].parent \in Inner(m, t) /\ r[n].left \in BOOLEAN
                      /\ Kid(r, r[n].parent, r[n].left) = n
    BY <1>1 DEF ParentsOK
  <2>1. r[n].root = m[n].root /\ r[n].parent = m[n].parent /\ r[n].left = m[n].left
    BY <1>2 DEF Alike
  <2>2. m[n].parent \in Inner(m, t) /\ m[n].left \in BOOLEAN /\ Kid(m, m[n].parent, m[n].left) = n
    BY <2>1 DEF Links, ParentsOK
  <2>3. Kid(r, m[n].parent, m[n].left) = Kid(m, m[n].parent, m[n].left)
    BY <1>1, <1>3, <2>2
  <2> QED BY <2>1, <2>2, <2>3
<1>9. RootOK(r, t)
  BY <1>1, <1>2, <1>4 DEF Alike, Links, RootOK
<1>10. Rising(r, t)
  BY <1>1, <1>3 DEF Rising, Ranked
<1>11. Ring(r, t)
  <2>1. \A n \in Outer(m, t) \cup {t} : r[n].flink = m[n].flink /\ r[n].blink = m[n].blink
    BY <1>2, <1>3, <1>4 DEF Alike
  <2> QED BY <1>1, <2>1 DEF Ring
<1>12. Ends(r, t, e)
  BY <1>1, <1>3 DEF Ends
<1>13. Gaps(r, t, e)
  <2>1. ASSUME NEW n \in Inner(m, t)
        PROVE  r[e[FALSE][Kid(r, n, TRUE)]].flink = e[TRUE][Kid(r, n, FALSE)]
    <3>1. Kid(r, n, TRUE) = Kid(m, n, TRUE) /\ Kid(r, n, FALSE) = Kid(m, n, FALSE)
      BY <1>1, <1>3
    <3>2. e[FALSE][Kid(m, n, TRUE)] \in Outer(m, t)
      <4>1. Kid(m, n, TRUE) \in Below(m, t) /\ e[FALSE] \in [Below(m, t) -> Outer(m, t)]
        BY <1>5 DEF Ends
      <4> QED BY <4>1
    <3>3. r[e[FALSE][Kid(m, n, TRUE)]].flink = m[e[FALSE][Kid(m, n, TRUE)]].flink
      BY <1>2, <1>3, <3>2 DEF Alike
    <3>4. m[e[FALSE][Kid(m, n, TRUE)]].flink = e[TRUE][Kid(m, n, FALSE)]
      BY DEF Gaps
    <3> QED BY <3>1, <3>3, <3>4
  <2> QED BY <1>1, <1>4, <2>1 DEF Alike, Gaps
<1> QED BY <1>6, <1>7, <1>8, <1>9, <1>10, <1>11, <1>12, <1>13 DEF Links

(* The colours are no part of the shape. *)
LEMMA PaintedSets ==
  ASSUME NEW m, NEW r, NEW t, Painted(m, r)
  PROVE  /\ Below(r, t) = Below(m, t) /\ Inner(r, t) = Inner(m, t) /\ Outer(r, t) = Outer(m, t)
         /\ \A n \in Below(m, t), l \in BOOLEAN : Kid(r, n, l) = Kid(m, n, l)
<1>1. Alike(m, r)
  BY DEF Painted, Alike
<1> QED BY <1>1, AlikeSets, ZenonT(30)

(* Writing colours keeps the shape. *)
LEMMA PaintedShape ==
  ASSUME NEW m, NEW r, NEW t, NEW X, Painted(m, r), Shape(m, t, X),
         \A n \in Below(m, t) : r[n].red \in BOOLEAN
  PROVE  Shape(r, t, X) /\ Same(m, r, t)
<1>1. /\ Inner(r, t) = Inner(m, t)
      /\ \A n \in Below(m, t), l \in BOOLEAN : Kid(r, n, l) = Kid(m, n, l)
  BY PaintedSets
<1>2. \A n \in Inner(m, t) : n \in Below(m, t) /\ n \in DOMAIN m
  BY DEF Inner, Below
<1>3. \A n \in Outer(m, t) \cup {t} : n \in DOMAIN m
  BY DEF Outer, Below, Shape, Fine
<1>4. PICK e : Ends(m, t, e) /\ Gaps(m, t, e) /\ Seps(m, t, e, X)
  BY DEF Shape, Spread
<1>5. Alike(m, r)
  BY DEF Painted, Alike
<1>6. /\ Fine(r, t) /\ Links(r, t) /\ Rising(r, t) /\ Ring(r, t)
      /\ Ends(r, t, e) /\ Gaps(r, t, e)
  BY <1>4, <1>5, AlikeKeeps DEF Shape
<1>7. Seps(r, t, e, X)
  <2> SUFFICES ASSUME NEW n \in Inner(m, t), NEW l \in BOOLEAN
               PROVE  \/ r[n][Split(l)] = e[~l][Kid(r, n, l)]
                      \/ <<l, e[~l][Kid(r, n, l)]>> \in X
    BY <1>1 DEF Seps
  <2>1. Kid(r, n, l) = Kid(m, n, l) /\ r[n][Split(l)] = m[n][Split(l)]
    BY <1>1, <1>2 DEF Painted, Split
  <2>2. \/ m[n][Split(l)] = e[~l][Kid(m, n, l)]
        \/ <<l, e[~l][Kid(m, n, l)]>> \in X
    BY <1>4 DEF Seps
  <2> QED BY <2>1, <2>2
<1>8. Same(m, r, t)
  BY <1>3 DEF Painted, Same
<1> QED BY <1>6, <1>7, <1>8 DEF Shape, Spread

(* Keeping the leaves is transitive. *)
LEMMA SameAgain ==
  ASSUME NEW m, NEW q, NEW r, NEW t, Same(m, q, t), Same(q, r, t), t \in DOMAIN m
  PROVE  Same(m, r, t) /\ Outer(q, t) = Outer(m, t) /\ Inner(q, t) = Inner(m, t)
<1>1. Outer(q, t) = Outer(m, t) /\ Inner(q, t) = Inner(m, t)
  BY DEF Same, Outer, Inner, Below
<1> QED BY <1>1 DEF Same

-----------------------------------------------------------------------------
(* What surrounds a node that is not the root. *)
LEMMA Family ==
  ASSUME NEW m, NEW t, NEW X, Shape(m, t, X), NEW n \in Below(m, t), ~m[n].root
  PROVE  LET p == m[n].parent
             s == sibling(m, n)
             l == m[n].left
         IN /\ p \in Inner(m, t) /\ l \in BOOLEAN /\ p # n /\ p \in Below(m, t)
            /\ Kid(m, p, l) = n /\ Kid(m, p, ~l) = s
            /\ s \in Below(m, t) /\ s # n /\ s # p
            /\ m[s].parent = p /\ m[s].left = ~l /\ ~m[s].root
<1> DEFINE p == m[n].parent
           s == sibling(m, n)
           l == m[n].left
<1>1. p \in Inner(m, t) /\ l \in BOOLEAN /\ Kid(m, p, l) = n
  BY DEF Shape, Links, ParentsOK
<1>2. s = Kid(m, p, ~l) /\ (~l) \in BOOLEAN /\ (~l) # l /\ p \in Below(m, t)
  BY <1>1 DEF sibling, Kid, Inner
<1> HIDE DEF p, s, l
<1>3. /\ s \in Below(m, t) /\ m[s].parent = p /\ m[s].left = (~l) /\ ~m[s].root
      /\ m[n].left = l
  <2>1. LET c == Kid(m, p, ~l)
        IN c \in Below(m, t) /\ m[c].parent = p /\ m[c].left = (~l) /\ ~m[c].root
    BY <1>1, <1>2 DEF Shape, Links, KidsOK
  <2> QED BY <1>2, <2>1 DEF l
<1>4. s # n
  BY <1>2, <1>3
<1>5. p # n /\ p # s
  <2>1. PICK top, rk : Ranked(m, t, top, rk)
    BY DEF Shape, Rising
  <2>2. rk[Kid(m, p, l)] < rk[p] /\ rk[Kid(m, p, ~l)] < rk[p]
    BY <1>1, <1>2, <2>1 DEF Ranked
  <2>3. rk[p] \in Int
    BY <1>2, <2>1 DEF Ranked
  <2> QED BY <1>1, <1>2, <2>2, <2>3
<1> QED BY <1>1, <1>2, <1>3, <1>4, <1>5 DEF p, s, l

-----------------------------------------------------------------------------
(* What a node adds to the number of black nodes. *)
Own(m, n) == IF m[n].red THEN 0 ELSE 1

(* b counts the black nodes on the paths from a node down to the leaves;   *)
(* below z, if there is a node z, there is one too few.                    *)
Blacks(m, t, b, z) ==
  /\ b \in [Below(m, t) -> Nat \ {0}]
  /\ \A n \in Outer(m, t) : ~m[n].red /\ b[n] = 1
  /\ \A n \in Inner(m, t), l \in BOOLEAN :
       b[n] = Own(m, n) + b[Kid(m, n, l)] + IF Kid(m, n, l) = z THEN 1 ELSE 0

(* No red node but v has a red parent. *)
Apart(m, t, v) ==
  \A n \in Inner(m, t), l \in BOOLEAN :
    m[n].red /\ m[Kid(m, n, l)].red => Kid(m, n, l) = v

(* The colours are in order, but for a red node v and a short subtree z if *)
(* there are such nodes.                                                   *)
Coloured(m, t, v, z) == Apart(m, t, v) /\ \E b : Blacks(m, t, b, z)

(* What is known of a kid. *)
LEMMA Kids ==
  ASSUME NEW m, NEW t, NEW X, Shape(m, t, X), NEW n \in Inner(m, t), NEW l \in BOOLEAN
  PROVE  LET c == Kid(m, n, l)
         IN /\ c \in Below(m, t) /\ c # t /\ c # n /\ c \in DOMAIN m /\ c \in Inner(m, t) \cup Outer(m, t)
            /\ m[c].parent = n /\ m[c].left = l /\ ~m[c].root
            /\ n \in Below(m, t) /\ n \in DOMAIN m /\ n # t /\ n \notin Outer(m, t)
<1> DEFINE c == Kid(m, n, l)
<1>1. c \in Below(m, t) /\ m[c].parent = n /\ m[c].left = l /\ ~m[c].root
  BY DEF Shape, Links, KidsOK
<1>2. n \in Below(m, t) /\ n \notin Outer(m, t)
  BY DEF Inner, Outer
<1>3. c # n
  <2>1. PICK top, rk : Ranked(m, t, top, rk)
    BY DEF Shape, Rising
  <2>2. rk[c] < rk[n] /\ rk[n] \in Int
    BY <1>2, <2>1 DEF Ranked
  <2> QED BY <2>2
<1> HIDE DEF c
<1>4. c \in DOMAIN m /\ c # t /\ n \in DOMAIN m /\ n # t /\ c \in Inner(m, t) \cup Outer(m, t)
  BY <1>1, <1>2 DEF Below, Inner, Outer
<1> QED BY <1>1, <1>2, <1>3, <1>4 DEF c

(* The count of black nodes from a node to its child. *)
LEMMA Counted ==
  ASSUME NEW m, NEW t, NEW X, NEW b, NEW z, Shape(m, t, X), Blacks(m, t, b, z),
         NEW n \in Inner(m, t), NEW l \in BOOLEAN
  PROVE  /\ b[n] \in Nat \ {0} /\ b[Kid(m, n, l)] \in Nat \ {0}
         /\ Kid(m, n, l) # z => b[n] = Own(m, n) + b[Kid(m, n, l)]
         /\ Kid(m, n, l) = z => b[n] = Own(m, n) + b[Kid(m, n, l)] + 1
<1>1. Kid(m, n, l) \in Below(m, t) /\ n \in Below(m, t)
  BY Kids
<1>2. b[n] \in Nat \ {0} /\ b[Kid(m, n, l)] \in Nat \ {0} /\ Own(m, n) \in Nat
  BY <1>1 DEF Blacks, Own
<1>3. b[n] = Own(m, n) + b[Kid(m, n, l)] + IF Kid(m, n, l) = z THEN 1 ELSE 0
  BY DEF Blacks
<1> QED BY <1>2, <1>3

(* One turn of recolor's loop: the only node that may have a red parent is *)
(* two levels higher.                                                      *)
LEMMA RecolorTurn ==
  ASSUME NEW m, NEW t, NEW X, NEW n \in Inner(m, t),
         Shape(m, t, X), Coloured(m, t, n, t), m[n].red, recolor_goes_on(m, n)
  PROVE  LET p  == m[n].parent
             gp == m[p].parent
             r  == recolor_turn(m, n).mem
         IN /\ recolor_turn(m, n).n = gp
            /\ p \in Inner(m, t) /\ gp \in Inner(m, t)
            /\ Kid(m, p, m[n].left) = n /\ Kid(m, gp, m[p].left) = p
            /\ m[n].left \in BOOLEAN /\ m[p].left \in BOOLEAN
            /\ Painted(m, r) /\ (\A k \in Below(m, t) : r[k].red \in BOOLEAN)
            /\ Coloured(r, t, gp, t) /\ r[gp].red
<1> DEFINE p  == m[n].parent
           gp == m[p].parent
           u  == sibling(m, p)
           r  == setblack(setred(setblack(m, p), gp), u)
<1>1. recolor_turn(m, n).mem = r /\ recolor_turn(m, n).n = gp
  BY DEF recolor_turn
<1>2. ~m[n].root /\ m[p].red /\ ~m[p].root /\ m[u].red
  BY DEF recolor_goes_on
<1>3. n \in Below(m, t)
  BY DEF Inner
<1>4. p \in Inner(m, t) /\ m[n].left \in BOOLEAN /\ p # n /\ p \in Below(m, t) /\ Kid(m, p, m[n].left) = n
  BY <1>2, <1>3, Family
<1>5. /\ gp \in Inner(m, t) /\ m[p].left \in BOOLEAN /\ gp # p /\ gp \in Below(m, t)
      /\ Kid(m, gp, m[p].left) = p /\ Kid(m, gp, ~m[p].left) = u
      /\ u \in Below(m, t) /\ u # p /\ u # gp /\ m[u].parent = gp
  BY <1>2, <1>4, Family
<1> HIDE DEF p, gp, u
<1>6. IsMem(m) /\ p \in DOMAIN m /\ gp \in DOMAIN m /\ u \in DOMAIN m
  BY <1>4, <1>5 DEF Shape, Fine, Below
<1>7. /\ Painted(m, r)
      /\ \A k \in DOMAIN m : r[k].red = IF k = p THEN FALSE ELSE IF k = gp THEN TRUE
                                        ELSE IF k = u THEN FALSE ELSE m[k].red
  <2>1. PICK v, w : v = FALSE /\ w = TRUE
    OBVIOUS
  <2>2. r = setcolor(setcolor(setcolor(m, p, v), gp, w), u, v)
    BY <2>1 DEF setred, setblack
  <2>3. p # gp /\ p # u /\ gp # u
    BY <1>5
  <2> HIDE DEF r
  <2>4. /\ Painted(m, r)
        /\ \A k \in DOMAIN m : r[k].red = IF k = p THEN v ELSE IF k = gp THEN w
                                          ELSE IF k = u THEN v ELSE m[k].red
    BY <2>2, <2>3, <1>6, PaintThree
  <2> QED BY <2>1, <2>4
<1> HIDE DEF r
<1>8. \A k \in Below(m, t) : k \in DOMAIN m
  BY DEF Below
<1>9. \A k \in Below(m, t) : r[k].red \in BOOLEAN
  BY <1>7, <1>8 DEF Shape, Fine
<1>10. PICK b : Blacks(m, t, b, t)
  BY DEF Coloured
<1>11. Apart(m, t, n)
  BY DEF Coloured
<1>12. ~m[gp].red
  BY <1>2, <1>4, <1>5, <1>11 DEF Apart
<1>13. u \in Inner(m, t)
  BY <1>2, <1>5, <1>10 DEF Blacks, Inner, Outer
<1>14. /\ Below(r, t) = Below(m, t) /\ Inner(r, t) = Inner(m, t) /\ Outer(r, t) = Outer(m, t)
       /\ \A k \in Below(m, t), l \in BOOLEAN : Kid(r, k, l) = Kid(m, k, l)
  BY <1>7, PaintedSets
<1>15. m[p].parent = gp /\ m[n].parent = p
  BY DEF p, gp
<1>16. ASSUME NEW k \in Inner(m, t), NEW l \in BOOLEAN
       PROVE  /\ Kid(m, k, l) \in Below(m, t) /\ m[Kid(m, k, l)].parent = k /\ Kid(m, k, l) # t
              /\ k \in Below(m, t) /\ k \in DOMAIN m /\ k \notin Outer(m, t)
  BY Kids
<1> DEFINE d == [k \in Below(m, t) |-> IF k = p \/ k = u THEN b[k] + 1 ELSE b[k]]
<1>17. Blacks(r, t, d, t)
  <2>1. \A k \in Below(m, t) : b[k] \in Nat \ {0} /\ d[k] = (IF k = p \/ k = u THEN b[k] + 1 ELSE b[k])
    BY <1>10 DEF Blacks
  <2>2. d \in [Below(m, t) -> Nat \ {0}]
    BY <2>1
  <2> HIDE DEF d
  <2>3. \A k \in Outer(m, t) : ~r[k].red /\ d[k] = 1
    <3> SUFFICES ASSUME NEW k \in Outer(m, t) PROVE ~r[k].red /\ d[k] = 1
      OBVIOUS
    <3>1. k \in Below(m, t) /\ k \notin Inner(m, t) /\ ~m[k].red /\ b[k] = 1
      BY <1>10 DEF Blacks, Outer, Inner
    <3>2. k # p /\ k # gp /\ k # u
      BY <3>1, <1>4, <1>5, <1>13
    <3> QED BY <3>1, <3>2, <1>7, <1>8, <2>1
  <2>4. ASSUME NEW k \in Inner(m, t), NEW l \in BOOLEAN
        PROVE  d[k] = Own(r, k) + d[Kid(m, k, l)]
    <3> DEFINE c == Kid(m, k, l)
    <3>1. c \in Below(m, t) /\ m[c].parent = k /\ c # t /\ k \in Below(m, t) /\ k \in DOMAIN m
      BY <1>16
    <3>2. b[k] = Own(m, k) + b[c]
      BY <1>10, <1>16, Counted
    <3> HIDE DEF c
    <3>3. b[k] \in Nat /\ b[c] \in Nat /\ d[c] = (IF c = p \/ c = u THEN b[c] + 1 ELSE b[c])
          /\ d[k] = (IF k = p \/ k = u THEN b[k] + 1 ELSE b[k])
      BY <2>1, <3>1
    <3>4. r[k].red = IF k = p THEN FALSE ELSE IF k = gp THEN TRUE
                                        ELSE IF k = u THEN FALSE ELSE m[k].red
      BY <1>7, <3>1
    <3>5. CASE k = gp
      <4>1. c = p \/ c = u
        BY <1>5, <3>5 DEF c
      <4>2. Own(m, k) = 1 /\ Own(r, k) = 0
        BY <1>5, <1>12, <3>4, <3>5 DEF Own
      <4> QED BY <1>5, <3>2, <3>3, <3>5, <4>1, <4>2 DEF c
    <3>6. CASE k = p \/ k = u
      <4>1. c # p /\ c # u
        BY <1>5, <1>15, <3>1, <3>6
      <4>2. Own(m, k) = 0 /\ Own(r, k) = 1
        BY <1>2, <1>5, <3>4, <3>6 DEF Own
      <4> QED BY <3>2, <3>3, <3>6, <4>1, <4>2 DEF c
    <3>7. CASE k # gp /\ k # p /\ k # u
      <4>1. c # p /\ c # u
        BY <1>5, <1>15, <3>1, <3>7
      <4>2. Own(m, k) = Own(r, k)
        BY <3>4, <3>7 DEF Own
      <4> QED BY <3>2, <3>3, <3>7, <4>1, <4>2 DEF c
    <3> QED BY <3>5, <3>6, <3>7
  <2>5. ASSUME NEW k \in Inner(m, t), NEW l \in BOOLEAN
        PROVE  d[k] = Own(r, k) + d[Kid(r, k, l)] + IF Kid(r, k, l) = t THEN 1 ELSE 0
    <3>1. Kid(r, k, l) = Kid(m, k, l) /\ Kid(m, k, l) # t /\ Kid(m, k, l) \in Below(m, t)
      BY <1>14, <1>16
    <3>2. d[Kid(m, k, l)] \in Nat /\ Own(r, k) \in Nat
      BY <3>1, <2>2 DEF Own
    <3> QED BY <3>1, <3>2, <2>4
  <2> QED BY <1>14, <2>2, <2>3, <2>5 DEF Blacks
<1>18. Apart(r, t, gp)
  <2> SUFFICES ASSUME NEW k \in Inner(m, t), NEW l \in BOOLEAN, r[k].red, r[Kid(m, k, l)].red
               PROVE  Kid(m, k, l) = gp
    BY <1>14, <1>16 DEF Apart
  <2> DEFINE c == Kid(m, k, l)
  <2>1. c \in Below(m, t) /\ m[c].parent = k /\ k \in DOMAIN m /\ c \in DOMAIN m
    BY <1>8, <1>16
  <2>2. m[k].red /\ m[c].red => c = n
    BY <1>11 DEF Apart
  <2> HIDE DEF c
  <2>3. r[c].red
    BY DEF c
  <2>4. k # p /\ k # u /\ c # p /\ c # u
    BY <1>5, <1>7, <2>1, <2>3
  <2>5. k # gp
    BY <1>5, <2>4 DEF c
  <2>6. c # gp => m[k].red /\ m[c].red
    BY <1>7, <2>1, <2>3, <2>4, <2>5
  <2> QED BY <1>15, <2>1, <2>2, <2>4, <2>6 DEF c
<1>19. Coloured(r, t, gp, t) /\ r[gp].red
  BY <1>5, <1>6, <1>7, <1>17, <1>18 DEF Coloured
<1> QED BY <1>1, <1>4, <1>5, <1>7, <1>9, <1>19 DEF p, gp

-----------------------------------------------------------------------------
(* Nodes, leaves and colours are in order. *)
Sound(m, t, X) == Shape(m, t, X) /\ Coloured(m, t, t, t)

(* A red node n under a red parent p, whose sibling u is black. *)
RedPair(m, t, X, n, p, gp, u) ==
  /\ Shape(m, t, X) /\ Coloured(m, t, n, t)
  /\ n \in Inner(m, t) /\ m[n].red /\ ~m[n].root
  /\ m[n].parent = p /\ m[p].red /\ ~m[p].root
  /\ m[p].parent = gp /\ sibling(m, p) = u /\ ~m[u].red

(* The nodes around such a red node are different, and where they are. *)
LEMMA RedFamily ==
  ASSUME NEW m, NEW t, NEW X, NEW n, NEW p, NEW gp, NEW u, RedPair(m, t, X, n, p, gp, u)
  PROVE  /\ n \in Inner(m, t) /\ p \in Inner(m, t) /\ gp \in Inner(m, t) /\ u \in Below(m, t)
         /\ n \in Below(m, t) /\ p \in Below(m, t) /\ gp \in Below(m, t)
         /\ n # p /\ n # gp /\ p # gp /\ u # p /\ u # gp
         /\ m[n].left \in BOOLEAN /\ m[p].left \in BOOLEAN
         /\ Kid(m, p, m[n].left) = n /\ Kid(m, gp, m[p].left) = p /\ Kid(m, gp, ~m[p].left) = u
         /\ m[u].parent = gp
<1>1. /\ Shape(m, t, X) /\ n \in Inner(m, t) /\ n \in Below(m, t) /\ ~m[n].root
      /\ m[n].parent = p /\ ~m[p].root /\ m[p].parent = gp /\ sibling(m, p) = u
  BY DEF RedPair, Inner
<1>2. p \in Inner(m, t) /\ m[n].left \in BOOLEAN /\ p # n /\ p \in Below(m, t) /\ Kid(m, p, m[n].left) = n
  BY <1>1, Family
<1>3. /\ gp \in Inner(m, t) /\ m[p].left \in BOOLEAN /\ gp # p /\ gp \in Below(m, t)
      /\ Kid(m, gp, m[p].left) = p /\ Kid(m, gp, ~m[p].left) = u
      /\ u \in Below(m, t) /\ u # p /\ u # gp /\ m[u].parent = gp
  BY <1>1, <1>2, Family
<1>4. n # gp
  <2>1. PICK top, rk : Ranked(m, t, top, rk)
    BY <1>1 DEF Shape, Rising
  <2>2. rk[n] < rk[p] /\ rk[p] < rk[gp] /\ rk[p] \in Int /\ rk[n] \in Int
    BY <1>1, <1>2, <1>3, <2>1 DEF Ranked
  <2> QED BY <2>2
<1> QED BY <1>1, <1>2, <1>3, <1>4

(* The rotation that ends recolor when n and its parent p are on one side. *)
LEMMA RecolorOuter ==
  ASSUME NEW m, NEW t, NEW X, NEW n, NEW p, NEW gp, NEW u, NEW l \in BOOLEAN,
         RedPair(m, t, X, n, p, gp, u), m[n].left = l, m[p].left = l
  PROVE  LET r == setred(setblack(single_rotate(m, gp, l), p), gp)
         IN Sound(r, t, X) /\ Same(m, r, t)
<1> DEFINE c == Kid(m, p, ~l)
           q == single_rotate(m, gp, l)
           yp == m[gp].parent
           r == setred(setblack(q, p), gp)
<1>1. Shape(m, t, X) /\ m[n].parent = p /\ m[p].parent = gp
  BY DEF RedPair
<1>2. /\ n \in Inner(m, t) /\ p \in Inner(m, t) /\ gp \in Inner(m, t) /\ u \in Below(m, t)
      /\ n \in Below(m, t) /\ p \in Below(m, t) /\ gp \in Below(m, t)
      /\ n # p /\ n # gp /\ p # gp /\ u # p /\ u # gp /\ m[u].parent = gp
  BY RedFamily
<1>3. Kid(m, p, l) = n /\ Kid(m, gp, l) = p /\ Kid(m, gp, ~l) = u
  <2>1. Kid(m, p, m[n].left) = n /\ Kid(m, gp, m[p].left) = p /\ Kid(m, gp, ~m[p].left) = u
    BY RedFamily
  <2> QED BY <2>1
<1>4. (~l) \in BOOLEAN /\ l # (~l)
  OBVIOUS
<1>21. \A k \in Inner(m, t), s \in BOOLEAN :
         /\ Kid(m, k, s) \in Below(m, t) /\ m[Kid(m, k, s)].parent = k /\ Kid(m, k, s) # t
         /\ m[Kid(m, k, s)].left = s
         /\ k \in Below(m, t) /\ k \in DOMAIN m /\ k \notin Outer(m, t) /\ k # t
  BY <1>1, Kids
<1>5. /\ c \in Below(m, t) /\ c # t /\ m[c].parent = p /\ m[c].left = ~l
      /\ n # t /\ m[n].left = l /\ gp # t /\ p # t
  BY <1>2, <1>3, <1>4, <1>21
<1>6. Turns(m, t, gp, p, c, l)
  BY <1>2, <1>3, <1>5 DEF Turns
<1>7. Shape(q, t, X) /\ Same(m, q, t) /\ Rotation(m, q, t, gp, p, c, yp, l)
  BY <1>1, <1>6, RotationKeepsShape
<1>8. r = setcolor(setcolor(q, p, FALSE), gp, TRUE)
  BY DEF setred, setblack
<1> HIDE DEF c, q, yp, r
<1>9. /\ IsMem(q) /\ DOMAIN q = DOMAIN m /\ p \in DOMAIN q /\ gp \in DOMAIN q
  BY <1>2, <1>3, <1>7 DEF Rotation, Turned, Below
<1>10. /\ Painted(q, r)
       /\ \A k \in DOMAIN q : r[k].red = IF k = p THEN FALSE ELSE IF k = gp THEN TRUE ELSE q[k].red
  <2>1. p # gp /\ IsMem(q) /\ p \in DOMAIN q /\ gp \in DOMAIN q
    BY <1>2, <1>9
  <2>2. PICK v, w : v = FALSE /\ w = TRUE
    OBVIOUS
  <2>3. r = setcolor(setcolor(q, p, v), gp, w)
    BY <1>8, <2>2
  <2>4. /\ Painted(q, r)
        /\ \A k \in DOMAIN q : r[k].red = IF k = p THEN v ELSE IF k = gp THEN w ELSE q[k].red
    BY <2>1, <2>3, PaintTwo
  <2> QED BY <2>2, <2>4
<1>11. /\ Below(q, t) = Below(m, t) /\ Inner(q, t) = Inner(m, t) /\ Outer(q, t) = Outer(m, t)
       /\ Turned(m, q, gp, p, c, yp, l)
  BY <1>7, TurnedSets DEF Rotation
<1>12. /\ Below(r, t) = Below(m, t) /\ Inner(r, t) = Inner(m, t) /\ Outer(r, t) = Outer(m, t)
       /\ \A k \in Below(m, t), s \in BOOLEAN : Kid(r, k, s) = Kid(q, k, s)
  <2>1. /\ Below(r, t) = Below(q, t) /\ Inner(r, t) = Inner(q, t) /\ Outer(r, t) = Outer(q, t)
        /\ \A k \in Below(q, t), s \in BOOLEAN : Kid(r, k, s) = Kid(q, k, s)
    BY <1>10, PaintedSets
  <2> QED BY <2>1, <1>11
<1>13. \A k \in Below(m, t) : k \in DOMAIN m
  BY DEF Below
<1>14. \A k \in DOMAIN m : r[k].red = IF k = p THEN FALSE ELSE IF k = gp THEN TRUE ELSE m[k].red
  BY <1>9, <1>10, <1>11 DEF Turned
<1>15. Shape(r, t, X) /\ Same(q, r, t)
  <2>1. \A k \in Below(q, t) : r[k].red \in BOOLEAN
    BY <1>1, <1>11, <1>13, <1>14 DEF Shape, Fine
  <2> QED BY <1>7, <1>10, <2>1, PaintedShape
<1>16. Same(m, r, t)
  BY <1>1, <1>7, <1>15, SameAgain DEF Shape, Fine
<1>17. PICK b : Blacks(m, t, b, t)
  BY DEF Coloured, RedPair
<1>18. Apart(m, t, n)
  BY DEF Coloured, RedPair
<1>19. ~m[gp].red /\ ~m[u].red /\ ~m[c].red
  <2>1. ~m[gp].red
    BY <1>2, <1>3, <1>18 DEF Apart, RedPair
  <2>2. ~m[u].red
    BY DEF RedPair
  <2>3. c # n
    BY <1>4, <1>5
  <2>4. ~m[c].red
    BY <1>2, <1>4, <1>18, <2>3 DEF Apart, c, RedPair
  <2> QED BY <2>1, <2>2, <2>4
<1>25. \A k \in Inner(m, t), s \in BOOLEAN :
         b[k] \in Nat \ {0} /\ b[Kid(m, k, s)] \in Nat \ {0} /\ b[k] = Own(m, k) + b[Kid(m, k, s)]
  BY <1>1, <1>17, <1>21, Counted
<1>20. /\ b[p] \in Nat \ {0} /\ b[gp] = b[p] + 1 /\ b[c] = b[p] /\ b[n] = b[p] /\ b[u] = b[p]
  <2>1. Own(m, p) = 0 /\ Own(m, gp) = 1
    BY <1>19 DEF Own, RedPair
  <2>2. b[p] \in Nat \ {0} /\ b[n] \in Nat \ {0} /\ b[p] = Own(m, p) + b[n]
    BY <1>1, <1>2, <1>3, <1>5, <1>17, Counted
  <2>3. b[c] \in Nat \ {0} /\ b[p] = Own(m, p) + b[c]
    BY <1>2, <1>4, <1>25 DEF c
  <2>4. b[gp] = Own(m, gp) + b[p]
    BY <1>1, <1>2, <1>3, <1>5, <1>17, Counted
  <2>5. b[u] \in Nat \ {0} /\ b[gp] = Own(m, gp) + b[u]
    BY <1>2, <1>3, <1>4, <1>25
  <2> QED BY <2>1, <2>2, <2>3, <2>4, <2>5
<1>22. ASSUME NEW k \in Inner(m, t), NEW s \in BOOLEAN
       PROVE  \/ k = gp /\ s = l /\ Kid(r, k, s) = c
              \/ k = gp /\ s = (~l) /\ Kid(r, k, s) = u
              \/ k = p /\ s = (~l) /\ Kid(r, k, s) = gp
              \/ k = p /\ s = l /\ Kid(r, k, s) = n
              \/ /\ k # gp /\ k # p /\ Kid(m, k, s) = gp /\ Kid(r, k, s) = p
              \/ /\ k # gp /\ k # p /\ Kid(r, k, s) = Kid(m, k, s)
                 /\ Kid(m, k, s) # gp /\ Kid(m, k, s) # p
  <2>1. Kid(r, k, s) = Kid(q, k, s)
    BY <1>12, <1>21
  <2>2. Kid(q, k, s) = IF k = gp /\ s = l THEN c ELSE IF k = p /\ s = ~l THEN gp
                       ELSE IF k = yp /\ ~m[gp].root /\ s = m[gp].left THEN p ELSE Kid(m, k, s)
    BY <1>11, <1>21 DEF Turned
  <2>3. s = l \/ s = (~l)
    OBVIOUS
  <2>4. yp # gp /\ yp # p
    BY <1>7 DEF Rotation
  <2>5. k = yp /\ ~m[gp].root /\ s = m[gp].left => Kid(m, k, s) = gp
    <3>1. ~m[gp].root => Kid(m, yp, m[gp].left) = gp
      BY <1>1, <1>2, Family DEF yp
    <3> QED BY <3>1
  <2>6. Kid(m, k, s) = gp => k = yp /\ ~m[gp].root /\ s = m[gp].left
    <3>1. k = m[Kid(m, k, s)].parent /\ s = m[Kid(m, k, s)].left
      BY <1>21
    <3>2. ~m[Kid(m, k, s)].root
      BY <1>1, Kids
    <3> QED BY <3>1, <3>2 DEF yp
  <2>7. Kid(m, k, s) = p => k = gp /\ s = l
    BY <1>1, <1>21
  <2>8. CASE k = gp
    BY <1>2, <1>3, <1>4, <2>1, <2>2, <2>3, <2>4, <2>8
  <2>9. CASE k = p
    BY <1>2, <1>3, <1>4, <2>1, <2>2, <2>3, <2>4, <2>9
  <2>10. CASE k # gp /\ k # p
    BY <2>1, <2>2, <2>5, <2>6, <2>7, <2>10
  <2> QED BY <2>8, <2>9, <2>10
<1> DEFINE d == [k \in Below(m, t) |-> IF k = p THEN b[p] + 1 ELSE IF k = gp THEN b[p] ELSE b[k]]
<1>23. Blacks(r, t, d, t)
  <2>1. \A k \in Below(m, t) : /\ b[k] \in Nat \ {0}
                               /\ d[k] = (IF k = p THEN b[p] + 1 ELSE IF k = gp THEN b[p] ELSE b[k])
    BY <1>17 DEF Blacks
  <2>2. d \in [Below(m, t) -> Nat \ {0}]
    BY <1>20, <2>1
  <2> HIDE DEF d
  <2>3. \A k \in Outer(m, t) : ~r[k].red /\ d[k] = 1
    <3> SUFFICES ASSUME NEW k \in Outer(m, t) PROVE ~r[k].red /\ d[k] = 1
      OBVIOUS
    <3>1. k \in Below(m, t) /\ k \notin Inner(m, t) /\ ~m[k].red /\ b[k] = 1
      BY <1>17 DEF Blacks, Outer, Inner
    <3>2. k # p /\ k # gp
      BY <3>1, <1>2, <1>3
    <3> QED BY <3>1, <3>2, <1>13, <1>14, <2>1
  <2>4. ASSUME NEW k \in Inner(m, t), NEW s \in BOOLEAN
        PROVE  /\ d[k] = Own(r, k) + d[Kid(r, k, s)] + IF Kid(r, k, s) = t THEN 1 ELSE 0
    <3>1. k \in Below(m, t) /\ k \in DOMAIN m /\ Kid(m, k, s) \in Below(m, t) /\ Kid(m, k, s) # t
      BY <1>21
    <3>2. k # p /\ k # gp => Own(r, k) = Own(m, k)
      BY <1>14, <3>1 DEF Own
    <3>3. Own(r, gp) = 0 /\ Own(r, p) = 1 /\ Own(m, k) \in Nat
      BY <1>2, <1>9, <1>14 DEF Own
    <3>4. b[k] = Own(m, k) + b[Kid(m, k, s)] /\ b[k] \in Nat /\ b[Kid(m, k, s)] \in Nat
      BY <1>1, <1>17, <3>1, Counted
    <3>5. /\ d[p] = b[p] + 1 /\ d[gp] = b[p] /\ d[c] = b[p] /\ d[u] = b[p] /\ d[n] = b[p]
      <4>1. c # p /\ c # gp
        BY <1>7 DEF Rotation
      <4> QED BY <1>2, <1>5, <1>20, <2>1, <4>1
    <3>6. Kid(r, k, s) # t
      <4>1. c # t /\ u # t /\ gp # t /\ n # t /\ p # t
        BY <1>2, <1>5 DEF Below
      <4> QED BY <4>1, <1>21, <1>22
    <3>7. d[k] = Own(r, k) + d[Kid(r, k, s)]
      <4>1. CASE k = gp
        BY <1>2, <1>20, <1>22, <3>3, <3>5, <4>1
      <4>2. CASE k = p
        BY <1>2, <1>20, <1>22, <3>3, <3>5, <4>2
      <4>3. CASE k # gp /\ k # p /\ Kid(m, k, s) = gp
        <5>1. Kid(r, k, s) = p
          BY <1>22, <4>3
        <5>2. d[k] = b[k]
          BY <2>1, <3>1, <4>3
        <5> QED BY <5>1, <5>2, <1>20, <3>2, <3>4, <3>5, <4>3
      <4>4. CASE k # gp /\ k # p /\ Kid(m, k, s) # gp
        <5>1. Kid(r, k, s) = Kid(m, k, s) /\ Kid(m, k, s) # p
          BY <1>22, <4>4
        <5>2. d[Kid(m, k, s)] = b[Kid(m, k, s)] /\ d[k] = b[k]
          BY <2>1, <3>1, <4>4, <5>1
        <5> QED BY <3>2, <3>4, <4>4, <5>1, <5>2
      <4> QED BY <4>1, <4>2, <4>3, <4>4
    <3>8. Own(r, k) \in Nat /\ d[Kid(r, k, s)] \in Nat
      <4>1. Kid(r, k, s) \in Below(m, t)
        BY <1>2, <1>5, <1>21, <1>22
      <4> QED BY <2>2, <4>1 DEF Own
    <3> QED BY <3>6, <3>7, <3>8
  <2> QED BY <1>12, <2>2, <2>3, <2>4 DEF Blacks
<1>24. Apart(r, t, t)
  <2> SUFFICES ASSUME NEW k \in Inner(m, t), NEW s \in BOOLEAN, r[k].red, r[Kid(r, k, s)].red
               PROVE  FALSE
    BY <1>12 DEF Apart
  <2>1. ~r[p].red /\ ~r[u].red /\ ~r[c].red
    <3>1. u # gp /\ c # gp /\ u \in DOMAIN m /\ c \in DOMAIN m /\ p \in DOMAIN m
      BY <1>2, <1>5, <1>7, <1>13 DEF Rotation
    <3> QED BY <1>14, <1>19, <3>1
  <2>2. k # p
    BY <2>1
  <2>3. k # gp
    BY <1>22, <1>2, <2>1
  <2>4. /\ Kid(r, k, s) = Kid(m, k, s) /\ Kid(m, k, s) # gp /\ Kid(m, k, s) # p
    BY <1>22, <2>1, <2>2, <2>3
  <2>5. m[k].red /\ m[Kid(m, k, s)].red
    <3>1. k \in DOMAIN m /\ Kid(m, k, s) \in DOMAIN m
      BY <1>13, <1>21
    <3> QED BY <1>14, <2>2, <2>3, <2>4, <3>1
  <2>6. Kid(m, k, s) = n
    BY <1>18, <2>5 DEF Apart
  <2> QED BY <1>1, <1>21, <2>2, <2>6
<1> QED BY <1>15, <1>16, <1>23, <1>24 DEF Sound, Coloured, r, q

-----------------------------------------------------------------------------
(* The first of the two rotations when n and p are on different sides. *)
LEMMA RecolorInner ==
  ASSUME NEW m, NEW t, NEW X, NEW n, NEW p, NEW gp, NEW u, NEW l \in BOOLEAN,
         RedPair(m, t, X, n, p, gp, u), m[n].left = l, m[p].left = ~l
  PROVE  LET q == single_rotate(m, p, l)
         IN /\ RedPair(q, t, X, p, n, gp, u) /\ Same(m, q, t)
            /\ q[n].left = ~l /\ q[p].left = ~l
<1> DEFINE c == Kid(m, n, ~l)
           q == single_rotate(m, p, l)
<1>1. /\ Shape(m, t, X) /\ m[n].parent = p /\ m[p].parent = gp /\ ~m[n].root /\ ~m[p].root
      /\ m[n].red /\ m[p].red /\ ~m[u].red
  BY DEF RedPair
<1>2. /\ n \in Inner(m, t) /\ p \in Inner(m, t) /\ gp \in Inner(m, t) /\ u \in Below(m, t)
      /\ n \in Below(m, t) /\ p \in Below(m, t) /\ gp \in Below(m, t)
      /\ n # p /\ n # gp /\ p # gp /\ u # p /\ u # gp /\ m[u].parent = gp
  BY RedFamily
<1>3. (~l) \in BOOLEAN /\ l # (~l) /\ (~~l) = l
  OBVIOUS
<1>4. Kid(m, p, l) = n /\ Kid(m, gp, ~l) = p /\ Kid(m, gp, l) = u
  <2>1. Kid(m, p, m[n].left) = n /\ Kid(m, gp, m[p].left) = p /\ Kid(m, gp, ~m[p].left) = u
    BY RedFamily
  <2>2. Kid(m, gp, ~~l) = u
    BY <2>1
  <2> QED BY <2>1, <2>2, <1>3
<1>5. \A k \in Inner(m, t), s \in BOOLEAN :
         /\ Kid(m, k, s) \in Below(m, t) /\ m[Kid(m, k, s)].parent = k /\ Kid(m, k, s) # t
         /\ m[Kid(m, k, s)].left = s /\ ~m[Kid(m, k, s)].root
         /\ k \in Below(m, t) /\ k \in DOMAIN m /\ k \notin Outer(m, t) /\ k # t
  BY <1>1, Kids
<1>6. c \in Below(m, t) /\ c # t /\ m[c].parent = n
  BY <1>2, <1>3, <1>5
<1>7. Turns(m, t, p, n, c, l)
  BY <1>2, <1>4, <1>6 DEF Turns
<1>8. Shape(q, t, X) /\ Same(m, q, t) /\ Rotation(m, q, t, p, n, c, gp, l)
  BY <1>1, <1>7, RotationKeepsShape
<1> HIDE DEF c, q
<1>9. /\ Below(q, t) = Below(m, t) /\ Inner(q, t) = Inner(m, t) /\ Outer(q, t) = Outer(m, t)
      /\ Turned(m, q, p, n, c, gp, l)
  BY <1>8, TurnedSets DEF Rotation
<1>10. \A k \in Below(m, t) : k \in DOMAIN m
  BY DEF Below
<1>11. \A k \in DOMAIN m : q[k].red = m[k].red
  BY <1>9 DEF Turned
<1>12. PICK b : Blacks(m, t, b, t)
  BY DEF Coloured, RedPair
<1>13. Apart(m, t, n)
  BY DEF Coloured, RedPair
<1>14. ~m[gp].red
  BY <1>1, <1>2, <1>3, <1>4, <1>13 DEF Apart
<1>15. \A k \in Inner(m, t), s \in BOOLEAN :
         b[k] \in Nat \ {0} /\ b[Kid(m, k, s)] \in Nat \ {0} /\ b[k] = Own(m, k) + b[Kid(m, k, s)]
  BY <1>1, <1>12, <1>5, Counted
<1>16. b[c] = b[n] /\ b[n] = b[p] /\ b[p] \in Nat
  <2>1. Own(m, n) = 0 /\ Own(m, p) = 0
    BY <1>1 DEF Own
  <2>2. b[n] = Own(m, n) + b[c] /\ b[c] \in Nat
    BY <1>2, <1>3, <1>15 DEF c
  <2>3. b[p] = Own(m, p) + b[n] /\ b[n] \in Nat /\ b[p] \in Nat
    BY <1>2, <1>4, <1>15
  <2> QED BY <2>1, <2>2, <2>3
<1>17. ASSUME NEW k \in Inner(m, t), NEW s \in BOOLEAN
       PROVE  \/ k = p /\ s = l /\ Kid(q, k, s) = c
              \/ k = n /\ s = (~l) /\ Kid(q, k, s) = p
              \/ k = gp /\ s = (~l) /\ Kid(q, k, s) = n
              \/ /\ ~(k = p /\ s = l) /\ ~(k = n /\ s = (~l)) /\ ~(k = gp /\ s = (~l))
                 /\ Kid(q, k, s) = Kid(m, k, s) /\ Kid(m, k, s) # n
  <2>1. Kid(q, k, s) = IF k = p /\ s = l THEN c ELSE IF k = n /\ s = ~l THEN p
                       ELSE IF k = gp /\ ~m[p].root /\ s = m[p].left THEN n ELSE Kid(m, k, s)
    BY <1>5, <1>9 DEF Turned
  <2>2. Kid(m, k, s) = n => k = p /\ s = l
    BY <1>1, <1>5
  <2> QED BY <1>1, <1>2, <2>1, <2>2
<1>18. Blacks(q, t, b, t)
  <2>1. b \in [Below(m, t) -> Nat \ {0}] /\ \A k \in Outer(m, t) : ~m[k].red /\ b[k] = 1
    BY <1>12 DEF Blacks
  <2>2. \A k \in Outer(m, t) : ~q[k].red
    <3>1. \A k \in Outer(m, t) : k \in Below(m, t)
      BY DEF Outer
    <3> QED BY <3>1, <2>1, <1>10, <1>11
  <2>3. ASSUME NEW k \in Inner(m, t), NEW s \in BOOLEAN
        PROVE  b[k] = Own(q, k) + b[Kid(q, k, s)] + IF Kid(q, k, s) = t THEN 1 ELSE 0
    <3>1. Own(q, k) = Own(m, k) /\ Own(m, k) \in Nat
      BY <1>5, <1>11 DEF Own
    <3>2. b[k] = Own(m, k) + b[Kid(m, k, s)] /\ b[k] \in Nat /\ b[Kid(m, k, s)] \in Nat
      BY <1>15
    <3>3. b[Kid(q, k, s)] = b[Kid(m, k, s)]
      <4>1. CASE k = p /\ s = l
        BY <4>1, <1>4, <1>16, <1>17
      <4>2. CASE k = n /\ s = (~l)
        <5>1. Kid(q, k, s) = p /\ Kid(m, k, s) = c
          BY <4>2, <1>2, <1>17 DEF c
        <5> QED BY <5>1, <1>16
      <4>3. CASE k = gp /\ s = (~l)
        <5>1. Kid(q, k, s) = n /\ Kid(m, k, s) = p
          BY <4>3, <1>2, <1>4, <1>17
        <5> QED BY <5>1, <1>16
      <4>4. CASE ~(k = p /\ s = l) /\ ~(k = n /\ s = (~l)) /\ ~(k = gp /\ s = (~l))
        BY <4>4, <1>17
      <4> QED BY <4>1, <4>2, <4>3, <4>4
    <3>4. Kid(q, k, s) # t
      <4>1. c # t /\ p # t /\ n # t
        BY <1>2, <1>6 DEF Below
      <4> QED BY <4>1, <1>5, <1>17
    <3> QED BY <3>1, <3>2, <3>3, <3>4
  <2> QED BY <1>9, <2>1, <2>2, <2>3 DEF Blacks
<1>19. Apart(q, t, p)
  <2> SUFFICES ASSUME NEW k \in Inner(m, t), NEW s \in BOOLEAN, q[k].red, q[Kid(q, k, s)].red
               PROVE  Kid(q, k, s) = p
    BY <1>9 DEF Apart
  <2>1. m[k].red
    BY <1>5, <1>11
  <2>2. CASE k = p /\ s = l
    <3>1. Kid(q, k, s) = c /\ c \in DOMAIN m /\ c # n
      BY <2>2, <1>2, <1>6, <1>8, <1>10, <1>17 DEF Rotation
    <3>2. m[c].red
      BY <3>1, <1>11
    <3> QED BY <3>1, <3>2, <1>1, <1>2, <1>3, <1>13 DEF Apart, c
  <2>3. CASE k = n /\ s = (~l)
    BY <2>3, <1>2, <1>17
  <2>4. CASE k = gp /\ s = (~l)
    BY <2>1, <2>4, <1>14
  <2>5. CASE ~(k = p /\ s = l) /\ ~(k = n /\ s = (~l)) /\ ~(k = gp /\ s = (~l))
    <3>1. Kid(q, k, s) = Kid(m, k, s) /\ Kid(m, k, s) # n /\ Kid(m, k, s) \in DOMAIN m
      BY <2>5, <1>5, <1>10, <1>17
    <3>2. m[Kid(m, k, s)].red
      BY <3>1, <1>11
    <3> QED BY <2>1, <3>1, <3>2, <1>13 DEF Apart
  <2> QED BY <2>2, <2>3, <2>4, <2>5
<1>20. /\ q[p].parent = n /\ q[n].parent = gp /\ ~q[p].root /\ ~q[n].root
       /\ q[p].left = ~l /\ q[n].left = ~l
  <2>1. p \in DOMAIN m /\ n \in DOMAIN m /\ c # n /\ c # p
    BY <1>2, <1>8, <1>10 DEF Rotation
  <2> QED BY <2>1, <1>1, <1>2, <1>9 DEF Turned
<1>21. sibling(q, n) = u
  <2>1. sibling(q, n) = Kid(q, gp, ~~l)
    BY <1>20 DEF sibling, Kid
  <2>2. Kid(q, gp, l) = u
    BY <1>2, <1>3, <1>4, <1>17
  <2> QED BY <2>1, <2>2, <1>3
<1>22. q[p].red /\ q[n].red /\ ~q[u].red
  BY <1>1, <1>2, <1>10, <1>11
<1>23. RedPair(q, t, X, p, n, gp, u)
  BY <1>2, <1>8, <1>9, <1>18, <1>19, <1>20, <1>21, <1>22 DEF RedPair, Coloured
<1> QED BY <1>8, <1>20, <1>23 DEF q

(* The root turns black. *)
LEMMA RootBlack ==
  ASSUME NEW m, NEW t, NEW X, NEW n, NEW y \in Inner(m, t),
         Shape(m, t, X), Coloured(m, t, n, t), m[y].root, m[y].red, n = y \/ m[n].parent = y
  PROVE  Sound(setblack(m, y), t, X) /\ Same(m, setblack(m, y), t)
<1> DEFINE r == setblack(m, y)
<1>1. y \in Below(m, t) /\ y \in DOMAIN m /\ IsMem(m)
  BY DEF Inner, Below, Shape, Fine
<1>2. Painted(m, r) /\ \A k \in DOMAIN m : r[k].red = IF k = y THEN FALSE ELSE m[k].red
  BY <1>1, PaintBlack
<1> HIDE DEF r
<1>3. /\ Below(r, t) = Below(m, t) /\ Inner(r, t) = Inner(m, t) /\ Outer(r, t) = Outer(m, t)
      /\ \A k \in Below(m, t), l \in BOOLEAN : Kid(r, k, l) = Kid(m, k, l)
  BY <1>2, PaintedSets
<1>4. \A k \in Below(m, t) : k \in DOMAIN m
  BY DEF Below
<1>5. Shape(r, t, X) /\ Same(m, r, t)
  <2>1. \A k \in Below(m, t) : r[k].red \in BOOLEAN
    BY <1>2, <1>4 DEF Shape, Fine
  <2> QED BY <1>2, <2>1, PaintedShape
<1>6. \A k \in Inner(m, t), s \in BOOLEAN :
         /\ Kid(m, k, s) \in Below(m, t) /\ m[Kid(m, k, s)].parent = k /\ Kid(m, k, s) # t
         /\ Kid(m, k, s) # y
         /\ k \in Below(m, t) /\ k \in DOMAIN m /\ k \notin Outer(m, t) /\ k # t
  BY Kids
<1>7. PICK b : Blacks(m, t, b, t)
  BY DEF Coloured
<1>8. \A k \in Inner(m, t), s \in BOOLEAN :
         b[k] \in Nat \ {0} /\ b[Kid(m, k, s)] \in Nat \ {0} /\ b[k] = Own(m, k) + b[Kid(m, k, s)]
  BY <1>7, <1>6, Counted
<1> DEFINE d == [k \in Below(m, t) |-> IF k = y THEN b[y] + 1 ELSE b[k]]
<1>9. Blacks(r, t, d, t)
  <2>1. \A k \in Below(m, t) : b[k] \in Nat \ {0} /\ d[k] = (IF k = y THEN b[k] + 1 ELSE b[k])
    BY <1>7 DEF Blacks
  <2>2. d \in [Below(m, t) -> Nat \ {0}]
    BY <1>1, <2>1
  <2> HIDE DEF d
  <2>3. \A k \in Outer(m, t) : ~r[k].red /\ d[k] = 1
    <3> SUFFICES ASSUME NEW k \in Outer(m, t) PROVE ~r[k].red /\ d[k] = 1
      OBVIOUS
    <3>1. k \in Below(m, t) /\ k # y /\ ~m[k].red /\ b[k] = 1
      BY <1>7 DEF Blacks, Outer, Inner
    <3> QED BY <3>1, <1>2, <1>4, <2>1
  <2>4. ASSUME NEW k \in Inner(m, t), NEW s \in BOOLEAN
        PROVE  d[k] = Own(r, k) + d[Kid(r, k, s)] + IF Kid(r, k, s) = t THEN 1 ELSE 0
    <3>1. Kid(r, k, s) = Kid(m, k, s) /\ Kid(m, k, s) # t /\ Kid(m, k, s) # y /\ k \in DOMAIN m
      BY <1>3, <1>6
    <3>2. b[k] = Own(m, k) + b[Kid(m, k, s)] /\ b[k] \in Nat /\ b[Kid(m, k, s)] \in Nat
      BY <1>8
    <3>3. d[Kid(m, k, s)] = b[Kid(m, k, s)]
      BY <2>1, <3>1, <1>6
    <3>4. d[k] = (IF k = y THEN b[k] + 1 ELSE b[k])
      BY <2>1, <1>6
    <3>5. (k = y => Own(m, k) = 0 /\ Own(r, k) = 1) /\ (k # y => Own(r, k) = Own(m, k)) /\ Own(m, k) \in Nat
      BY <1>2, <3>1 DEF Own
    <3> QED BY <3>1, <3>2, <3>3, <3>4, <3>5
  <2> QED BY <1>3, <2>2, <2>3, <2>4 DEF Blacks
<1>10. Apart(r, t, t)
  <2> SUFFICES ASSUME NEW k \in Inner(m, t), NEW s \in BOOLEAN, r[k].red, r[Kid(r, k, s)].red
               PROVE  FALSE
    BY <1>3 DEF Apart
  <2>1. Kid(r, k, s) = Kid(m, k, s) /\ Kid(m, k, s) \in DOMAIN m /\ k \in DOMAIN m /\ Kid(m, k, s) # y
    BY <1>3, <1>4, <1>6
  <2>2. k # y /\ m[k].red /\ m[Kid(m, k, s)].red
    BY <1>2, <2>1
  <2>3. Kid(m, k, s) = n
    BY <2>2 DEF Coloured, Apart
  <2> QED BY <1>6, <2>1, <2>2, <2>3
<1> QED BY <1>5, <1>9, <1>10 DEF Sound, Coloured, r

-----------------------------------------------------------------------------
(* What holds of the leaves, and of an internal node whenever it holds of  *)
(* its two children, holds of every node.                                  *)
LEMMA FromLeaves ==
  ASSUME NEW m, NEW t, NEW T, KidsOK(m, t), Rising(m, t), Outer(m, t) \subseteq T,
         \A n \in Inner(m, t) : (\A l \in BOOLEAN : Kid(m, n, l) \in T) => n \in T
  PROVE  Below(m, t) \subseteq T
<1>1. PICK top, rk : Ranked(m, t, top, rk)
  BY DEF Rising
<1>2. top \in Nat /\ \A n \in Below(m, t) : rk[n] \in 0..top
  BY <1>1 DEF Ranked
<1>3. \A n \in Inner(m, t), l \in BOOLEAN : Kid(m, n, l) \in Below(m, t) /\ rk[Kid(m, n, l)] < rk[n]
  BY <1>1 DEF Ranked, KidsOK
<1>4. \A n \in Below(m, t) : n \in Outer(m, t) \/ n \in Inner(m, t)
  BY DEF Outer, Inner
<1>5. \A n \in Inner(m, t) : n \in Below(m, t)
  BY DEF Inner
<1> DEFINE H == {i \in Nat : \A n \in Below(m, t) : rk[n] <= i => n \in T}
<1>6. 0 \in H
  <2>1. ASSUME NEW n \in Below(m, t), rk[n] <= 0 PROVE n \in T
    <3>1. n \notin Inner(m, t)
      <4> SUFFICES ASSUME n \in Inner(m, t) PROVE FALSE
        OBVIOUS
      <4>1. PICK l \in BOOLEAN : l
        OBVIOUS
      <4>2. Kid(m, n, l) \in Below(m, t) /\ rk[Kid(m, n, l)] < rk[n]
        BY <1>3
      <4>3. rk[n] \in 0..top /\ rk[Kid(m, n, l)] \in 0..top
        BY <1>2, <4>2
      <4> QED BY <2>1, <4>2, <4>3
    <3> QED BY <1>4, <3>1
  <2> QED BY <2>1
<1>7. ASSUME NEW i \in 0..top - 1, i \in H PROVE i + 1 \in H
  <2>1. ASSUME NEW n \in Below(m, t), rk[n] <= i + 1 PROVE n \in T
    <3>1. CASE n \in Outer(m, t)
      BY <3>1
    <3>2. CASE n \in Inner(m, t)
      <4>1. ASSUME NEW l \in BOOLEAN PROVE Kid(m, n, l) \in T
        <5>1. Kid(m, n, l) \in Below(m, t) /\ rk[Kid(m, n, l)] < rk[n]
          BY <1>3, <3>2
        <5>2. rk[Kid(m, n, l)] <= i
          BY <1>2, <2>1, <5>1
        <5> QED BY <1>7, <5>1, <5>2
      <4> QED BY <3>2, <4>1
    <3> QED BY <1>4, <3>1, <3>2
  <2> QED BY <2>1
<1>8. 0..top \subseteq H
  <2> HIDE DEF H
  <2> QED BY <1>2, <1>6, <1>7, UpTo
<1>9. top \in H
  BY <1>2, <1>8
<1> QED BY <1>2, <1>9

(* What holds of the root, and of the children of every internal node it   *)
(* holds of, holds of every node.                                          *)
LEMMA FromRoot ==
  ASSUME NEW m, NEW t, NEW T, Links(m, t), Rising(m, t),
         \A n \in Below(m, t) : m[n].root => n \in T,
         \A n \in Inner(m, t), l \in BOOLEAN : n \in T => Kid(m, n, l) \in T
  PROVE  Below(m, t) \subseteq T
<1>1. PICK top, rk : Ranked(m, t, top, rk)
  BY DEF Rising
<1>2. top \in Nat /\ \A n \in Below(m, t) : rk[n] \in 0..top
  BY <1>1 DEF Ranked
<1>3. \A n \in Inner(m, t), l \in BOOLEAN : rk[Kid(m, n, l)] < rk[n]
  BY <1>1 DEF Ranked
<1>4. \A n \in Below(m, t) : n \in T \/ /\ m[n].parent \in Inner(m, t) /\ m[n].left \in BOOLEAN
                                        /\ Kid(m, m[n].parent, m[n].left) = n
  BY DEF Links, ParentsOK
<1>5. \A n \in Inner(m, t) : n \in Below(m, t)
  BY DEF Inner
<1> DEFINE H == {i \in Nat : \A n \in Below(m, t) : rk[n] >= top - i => n \in T}
<1>6. 0 \in H
  <2>1. ASSUME NEW n \in Below(m, t), rk[n] >= top - 0 PROVE n \in T
    <3> SUFFICES ASSUME n \notin T PROVE FALSE
      OBVIOUS
    <3>1. /\ m[n].parent \in Inner(m, t) /\ m[n].left \in BOOLEAN
          /\ Kid(m, m[n].parent, m[n].left) = n
      BY <1>4
    <3>2. rk[n] < rk[m[n].parent] /\ m[n].parent \in Below(m, t)
      BY <1>3, <1>5, <3>1
    <3>3. rk[n] \in 0..top /\ rk[m[n].parent] \in 0..top
      BY <1>2, <3>2
    <3> QED BY <1>2, <2>1, <3>2, <3>3
  <2> QED BY <2>1
<1>7. ASSUME NEW i \in 0..top - 1, i \in H PROVE i + 1 \in H
  <2>1. ASSUME NEW n \in Below(m, t), rk[n] >= top - (i + 1) PROVE n \in T
    <3> SUFFICES ASSUME n \notin T PROVE FALSE
      OBVIOUS
    <3>1. /\ m[n].parent \in Inner(m, t) /\ m[n].left \in BOOLEAN
          /\ Kid(m, m[n].parent, m[n].left) = n
      BY <1>4
    <3>2. rk[n] < rk[m[n].parent] /\ m[n].parent \in Below(m, t)
      BY <1>3, <1>5, <3>1
    <3>3. rk[n] \in 0..top /\ rk[m[n].parent] \in 0..top
      BY <1>2, <3>2
    <3>4. rk[m[n].parent] >= top - i
      BY <1>2, <2>1, <3>2, <3>3
    <3>5. m[n].parent \in T
      BY <1>7, <3>2, <3>4
    <3> QED BY <3>1, <3>5
  <2> QED BY <2>1
<1>8. 0..top \subseteq H
  <2> HIDE DEF H
  <2> QED BY <1>2, <1>6, <1>7, UpTo
<1>9. top \in H
  BY <1>2, <1>8
<1> QED BY <1>2, <1>9

(* There are at most as many ranks as there are nodes below the head.      *)
LEMMA SmallRanks ==
  ASSUME NEW m, NEW t, t \in DOMAIN m, IsFiniteSet(DOMAIN m), Rising(m, t), KidsOK(m, t)
  PROVE  /\ Cardinality(DOMAIN m) \in Nat
         /\ \E rk : /\ Ranked(m, t, Cardinality(DOMAIN m), rk)
                    /\ \A n \in Below(m, t) : rk[n] \in Nat /\ rk[n] < Cardinality(DOMAIN m)
<1>1. PICK top, old : Ranked(m, t, top, old)
  BY DEF Rising
<1>2. \A n \in Below(m, t) : old[n] \in Int
  BY <1>1 DEF Ranked
<1>3. Below(m, t) \subseteq DOMAIN m
  BY DEF Below
<1>4. Cardinality(DOMAIN m) \in Nat
  BY FS_CardinalityType
<1> DEFINE Lower(n) == {k \in Below(m, t) : old[k] < old[n]}
           rk == [n \in Below(m, t) |-> Cardinality(Lower(n))]
<1>5. \A n : IsFiniteSet(Lower(n)) /\ Cardinality(Lower(n)) \in Nat
  <2> SUFFICES ASSUME NEW n PROVE IsFiniteSet(Lower(n)) /\ Cardinality(Lower(n)) \in Nat
    OBVIOUS
  <2>1. Lower(n) \subseteq DOMAIN m
    BY <1>3
  <2> HIDE DEF Lower
  <2> QED BY <2>1, FS_Subset, FS_CardinalityType
<1>6. ASSUME NEW n \in Below(m, t)
      PROVE  rk[n] \in Nat /\ rk[n] < Cardinality(DOMAIN m)
  <2>1. Lower(n) \subseteq DOMAIN m /\ Lower(n) # DOMAIN m
    BY <1>2, <1>3
  <2>2. rk[n] = Cardinality(Lower(n))
    OBVIOUS
  <2> HIDE DEF Lower, rk
  <2>3. Cardinality(Lower(n)) < Cardinality(DOMAIN m)
    <3>1. Cardinality(Lower(n)) <= Cardinality(DOMAIN m) /\ Cardinality(Lower(n)) # Cardinality(DOMAIN m)
      BY <2>1, FS_Subset
    <3> QED BY <3>1, <1>4, <1>5
  <2> QED BY <1>5, <2>2, <2>3
<1>7. ASSUME NEW n \in Inner(m, t), NEW l \in BOOLEAN
      PROVE  rk[Kid(m, n, l)] < rk[n]
  <2> DEFINE c == Kid(m, n, l)
  <2>1. c \in Below(m, t) /\ n \in Below(m, t)
    BY DEF KidsOK, Inner
  <2>2. old[c] < old[n]
    BY <1>1 DEF Ranked
  <2>3. Lower(c) \subseteq Lower(n) /\ c \in Lower(n) /\ c \notin Lower(c)
    BY <1>2, <2>1, <2>2
  <2>4. rk[c] = Cardinality(Lower(c)) /\ rk[n] = Cardinality(Lower(n))
    BY <2>1
  <2> HIDE DEF Lower, rk, c
  <2>5. Cardinality(Lower(c)) <= Cardinality(Lower(n)) /\ Cardinality(Lower(c)) # Cardinality(Lower(n))
    BY <1>5, <2>3, FS_Subset
  <2> QED BY <1>5, <2>4, <2>5 DEF c
<1>8. rk \in [Below(m, t) -> 0..Cardinality(DOMAIN m)]
  <2>1. \A n \in Below(m, t) : rk[n] \in 0..Cardinality(DOMAIN m)
    <3> HIDE DEF rk
    <3> QED BY <1>4, <1>6
  <2> QED BY <2>1
<1> HIDE DEF rk
<1> QED BY <1>4, <1>6, <1>7, <1>8 DEF Ranked

-----------------------------------------------------------------------------
(* The turns of recolor's loop, one after the other. *)
RecolorOnce(c) == IF recolor_goes_on(c.mem, c.n) THEN recolor_turn(c.mem, c.n) ELSE c

(* The turns of recolor's loop are the model's, one by one. *)
LEMMA RecolorTurns ==
  ASSUME NEW m, NEW n, Cardinality(DOMAIN m) \in Nat
  PROVE  /\ recolor_turns(m, n)[0] = [mem |-> m, n |-> n]
         /\ \A i \in 1..Cardinality(DOMAIN m) :
              recolor_turns(m, n)[i] = RecolorOnce(recolor_turns(m, n)[i - 1])
<1> DEFINE C == Cardinality(DOMAIN m)
           s == [mem |-> m, n |-> n]
           T == {j \in 0..C : \E f : f = [i \in 0..j |-> IF i = 0 THEN s ELSE RecolorOnce(f[i - 1])]}
<1>1. 0 \in T
  <2> DEFINE f == [i \in 0..0 |-> s]
  <2>1. f = [i \in 0..0 |-> IF i = 0 THEN s ELSE RecolorOnce(f[i - 1])]
    <3> HIDE DEF s
    <3>1. \A i \in 0..0 : i = 0
      OBVIOUS
    <3> QED BY <3>1
  <2> HIDE DEF f, s
  <2> QED BY <2>1
<1>2. ASSUME NEW j \in 0..C - 1, j \in T PROVE j + 1 \in T
  <2>1. PICK f : f = [i \in 0..j |-> IF i = 0 THEN s ELSE RecolorOnce(f[i - 1])]
    BY <1>2
  <2> DEFINE g == [i \in 0..j + 1 |-> IF i = j + 1 THEN RecolorOnce(f[j]) ELSE f[i]]
  <2> HIDE DEF s
  <2>2. \A i \in 0..j : f[i] = IF i = 0 THEN s ELSE RecolorOnce(f[i - 1])
    BY <2>1
  <2>3. \A i \in 0..j : g[i] = f[i]
    OBVIOUS
  <2>4. g[j + 1] = RecolorOnce(f[j])
    OBVIOUS
  <2>5. ASSUME NEW i \in 0..j + 1
        PROVE  g[i] = IF i = 0 THEN s ELSE RecolorOnce(g[i - 1])
    <3> HIDE DEF g
    <3>1. CASE i = j + 1
      BY <3>1, <2>3, <2>4
    <3>2. CASE i \in 0..j
      <4>1. i # 0 => i - 1 \in 0..j
        BY <3>2
      <4> QED BY <3>2, <4>1, <2>2, <2>3
    <3> QED BY <3>1, <3>2
  <2>6. DOMAIN g = 0..j + 1 /\ g = [i \in 0..j + 1 |-> g[i]]
    OBVIOUS
  <2> HIDE DEF g
  <2>7. g = [i \in 0..j + 1 |-> IF i = 0 THEN s ELSE RecolorOnce(g[i - 1])]
    BY <2>5, <2>6
  <2>8. j + 1 \in 0..C
    OBVIOUS
  <2> QED BY <2>7, <2>8
<1>3. C \in T
  <2> HIDE DEF T
  <2>1. 0..C \subseteq T
    BY <1>1, <1>2, UpTo
  <2> QED BY <2>1
<1>4. PICK f : f = [i \in 0..C |-> IF i = 0 THEN s ELSE RecolorOnce(f[i - 1])]
  BY <1>3
<1>5. recolor_turns(m, n) = [i \in 0..C |-> IF i = 0 THEN s ELSE RecolorOnce(recolor_turns(m, n)[i - 1])]
  BY <1>4 DEF recolor_turns, RecolorOnce
<1>6. 0 \in 0..C /\ \A i \in 1..C : i \in 0..C /\ i # 0
  OBVIOUS
<1> QED
  BY <1>5, <1>6

(* n is a red node, the only one that may have a red parent. *)
Recolouring(m, r, t, X, n) ==
  /\ Shape(r, t, X) /\ Same(m, r, t)
  /\ n \in Inner(r, t) /\ r[n].red /\ Coloured(r, t, n, t)

(* recolor's loop ends, within as many turns as there are nodes, at a node *)
(* where it may stop.                                                      *)
LEMMA RecolorLoop ==
  ASSUME NEW m, NEW t, NEW X, NEW n \in Inner(m, t), IsFiniteSet(DOMAIN m),
         Shape(m, t, X), Coloured(m, t, n, t), m[n].red
  PROVE  /\ Recolouring(m, recolor_loop(m, n).mem, t, X, recolor_loop(m, n).n)
         /\ ~recolor_goes_on(recolor_loop(m, n).mem, recolor_loop(m, n).n)
<1> DEFINE C == Cardinality(DOMAIN m)
           f == recolor_turns(m, n)
<1>1. t \in DOMAIN m /\ Rising(m, t) /\ KidsOK(m, t) /\ IsMem(m)
  BY DEF Shape, Links, Fine
<1>2. C \in Nat /\ \E rk : /\ Ranked(m, t, C, rk)
                            /\ \A k \in Below(m, t) : rk[k] \in Nat /\ rk[k] < C
  BY <1>1, SmallRanks
<1>3. PICK rk : Ranked(m, t, C, rk) /\ \A k \in Below(m, t) : rk[k] \in Nat /\ rk[k] < C
  BY <1>2
<1>4. /\ f[0] = [mem |-> m, n |-> n]
      /\ \A i \in 1..C : f[i] = RecolorOnce(f[i - 1])
  BY <1>2, RecolorTurns
<1> HIDE DEF C, f
<1> DEFINE Links2(r) == \A k \in Below(m, t), l \in BOOLEAN : Kid(r, k, l) = Kid(m, k, l)
           T == {i \in 0..C : /\ Recolouring(m, f[i].mem, t, X, f[i].n)
                              /\ Links2(f[i].mem)
                              /\ recolor_goes_on(f[i].mem, f[i].n) => rk[f[i].n] >= i}
<1>5. 0 \in T
  <2>1. Same(m, m, t)
    BY DEF Same
  <2>2. n \in Below(m, t)
    BY DEF Inner
  <2> QED BY <1>2, <1>3, <1>4, <2>1, <2>2 DEF Recolouring
<1>6. ASSUME NEW i \in 0..C - 1, i \in T PROVE i + 1 \in T
  <2>1. i + 1 \in 1..C /\ (i + 1) - 1 = i /\ i \in Nat
    BY <1>2
  <2>2. f[i + 1] = RecolorOnce(f[i])
    BY <1>4, <2>1
  <2>3. CASE ~recolor_goes_on(f[i].mem, f[i].n)
    <3>1. f[i + 1] = f[i]
      BY <2>2, <2>3 DEF RecolorOnce
    <3> QED BY <1>6, <2>1, <2>3, <3>1
  <2>4. CASE recolor_goes_on(f[i].mem, f[i].n)
    <3> DEFINE q == f[i].mem
               k == f[i].n
               p == q[k].parent
               gp == q[p].parent
               r == recolor_turn(q, k).mem
    <3>1. f[i + 1].mem = r /\ f[i + 1].n = recolor_turn(q, k).n
      BY <2>2, <2>4 DEF RecolorOnce
    <3>2. Recolouring(m, q, t, X, k) /\ Links2(q) /\ rk[k] >= i
      BY <1>6, <2>4
    <3>3. /\ recolor_turn(q, k).n = gp
          /\ p \in Inner(q, t) /\ gp \in Inner(q, t)
          /\ Kid(q, p, q[k].left) = k /\ Kid(q, gp, q[p].left) = p
          /\ q[k].left \in BOOLEAN /\ q[p].left \in BOOLEAN
          /\ Painted(q, r) /\ (\A j \in Below(q, t) : r[j].red \in BOOLEAN)
          /\ Coloured(r, t, gp, t) /\ r[gp].red
      BY <2>4, <3>2, RecolorTurn DEF Recolouring
    <3> HIDE DEF r, p, gp, q, k
    <3>4. Shape(r, t, X) /\ Same(q, r, t)
      BY <3>2, <3>3, PaintedShape DEF Recolouring
    <3>5. Same(m, r, t) /\ Inner(q, t) = Inner(m, t)
      BY <1>1, <3>2, <3>4, SameAgain DEF Recolouring
    <3>6. Inner(r, t) = Inner(q, t) /\ Below(q, t) = Below(m, t)
          /\ \A j \in Below(q, t), l \in BOOLEAN : Kid(r, j, l) = Kid(q, j, l)
      <4>1. Below(q, t) = Below(m, t)
        BY <3>2 DEF Recolouring, Same, Below
      <4> QED BY <3>3, <4>1, PaintedSets
    <3>7. Recolouring(m, r, t, X, gp)
      BY <3>3, <3>4, <3>5, <3>6 DEF Recolouring
    <3>8. Links2(r)
      BY <3>2, <3>6
    <3>9. rk[gp] >= i + 1
      <4>1. p \in Below(m, t) /\ gp \in Below(m, t) /\ k \in Below(m, t)
        BY <3>2, <3>3, <3>5, <3>6 DEF Recolouring, Inner
      <4>2. Kid(m, p, q[k].left) = k /\ Kid(m, gp, q[p].left) = p
        BY <3>2, <3>3, <4>1
      <4>3. rk[k] < rk[p] /\ rk[p] < rk[gp]
        BY <1>3, <3>3, <3>5, <4>2 DEF Ranked
      <4>4. rk[k] \in Nat /\ rk[p] \in Nat /\ rk[gp] \in Nat
        BY <1>3, <4>1
      <4> QED BY <2>1, <3>2, <4>3, <4>4
    <3> QED BY <2>1, <3>1, <3>3, <3>7, <3>8, <3>9
  <2> QED BY <2>3, <2>4
<1>7. C \in T
  <2> HIDE DEF T
  <2>1. 0..C \subseteq T
    BY <1>2, <1>5, <1>6, UpTo
  <2> QED BY <1>2, <2>1
<1>8. Recolouring(m, f[C].mem, t, X, f[C].n)
  BY <1>7
<1>9. f[C].n \in Below(m, t)
  BY <1>8 DEF Recolouring, Same, Inner, Below
<1>10. ~recolor_goes_on(f[C].mem, f[C].n)
  <2>1. rk[f[C].n] \in Nat /\ rk[f[C].n] < C
    BY <1>3, <1>9
  <2> QED BY <1>2, <1>7, <2>1
<1> QED BY <1>8, <1>10 DEF recolor_loop, f, C

(* The rotations and recolourings after the loop. *)
LEMMA RecolorEnd ==
  ASSUME NEW m, NEW t, NEW X, NEW n \in Inner(m, t),
         Shape(m, t, X), Coloured(m, t, n, t), m[n].red, ~recolor_goes_on(m, n)
  PROVE  Sound(recolor_end(m, n), t, X) /\ Same(m, recolor_end(m, n), t)
<1> DEFINE p == m[n].parent
           gp == m[p].parent
           l == m[n].left
<1>1. n \in Below(m, t)
  BY DEF Inner
<1>2. ~m[n].root => /\ p \in Inner(m, t) /\ l \in BOOLEAN /\ p # n /\ p \in Below(m, t)
                    /\ Kid(m, p, l) = n
  BY <1>1, Family
<1>3. CASE m[n].root
  <2>1. recolor_end(m, n) = setblack(m, n)
    BY <1>3 DEF recolor_end
  <2> QED BY <1>3, <2>1, RootBlack
<1>4. CASE ~m[n].root /\ ~m[p].red
  <2>1. recolor_end(m, n) = m
    BY <1>4 DEF recolor_end
  <2>2. Apart(m, t, t)
    <3> SUFFICES ASSUME NEW k \in Inner(m, t), NEW s \in BOOLEAN, m[k].red, m[Kid(m, k, s)].red
                 PROVE  FALSE
      BY DEF Apart
    <3>1. Kid(m, k, s) = n
      BY DEF Coloured, Apart
    <3>2. m[n].parent = k
      BY <3>1, Kids
    <3> QED BY <1>4, <3>2
  <2>3. Sound(m, t, X) /\ Same(m, m, t)
    BY <2>2 DEF Sound, Coloured, Same
  <2> QED BY <2>1, <2>3
<1>5. CASE ~m[n].root /\ m[p].red /\ m[p].root
  <2>1. recolor_end(m, n) = setblack(m, p)
    BY <1>5 DEF recolor_end
  <2> QED BY <1>2, <1>5, <2>1, RootBlack
<1>6. CASE ~m[n].root /\ m[p].red /\ ~m[p].root
  <2> DEFINE u == sibling(m, p)
  <2>1. ~m[u].red
    BY <1>6 DEF recolor_goes_on
  <2>2. RedPair(m, t, X, n, p, gp, u)
    BY <1>6, <2>1 DEF RedPair
  <2>3. m[p].left \in BOOLEAN
    BY <2>2, RedFamily
  <2> HIDE DEF u, p, gp, l
  <2>4. CASE l = m[p].left
    <3>1. recolor_end(m, n) = setred(setblack(single_rotate(m, gp, l), p), gp)
      BY <1>6, <2>4 DEF recolor_end, p, gp, l
    <3> QED BY <1>2, <1>6, <2>2, <2>4, <3>1, RecolorOuter DEF l
  <2>5. CASE l # m[p].left
    <3> DEFINE q == single_rotate(m, p, l)
    <3>1. recolor_end(m, n) = setred(setblack(single_rotate(q, gp, q[n].left), n), gp)
      BY <1>6, <2>5 DEF recolor_end, p, gp, l
    <3>2. m[p].left = (~l) /\ m[n].left = l /\ l \in BOOLEAN
      BY <1>2, <1>6, <2>3, <2>5 DEF l
    <3>3. /\ RedPair(q, t, X, p, n, gp, u) /\ Same(m, q, t)
          /\ q[n].left = (~l) /\ q[p].left = (~l)
      BY <2>2, <3>2, RecolorInner
    <3> HIDE DEF q
    <3>4. (~l) \in BOOLEAN
      BY <3>2
    <3>5. LET r == setred(setblack(single_rotate(q, gp, ~l), n), gp)
          IN Sound(r, t, X) /\ Same(q, r, t)
      BY <3>3, <3>4, RecolorOuter
    <3>6. Sound(recolor_end(m, n), t, X) /\ Same(q, recolor_end(m, n), t)
      BY <3>1, <3>3, <3>5
    <3>7. t \in DOMAIN m
      BY DEF Shape, Fine
    <3> QED BY <3>3, <3>6, <3>7, SameAgain
  <2> QED BY <2>4, <2>5
<1> QED BY <1>3, <1>4, <1>5, <1>6

(* recolor turns a tree with one red node under a red parent into a sound  *)
(* one.                                                                    *)
LEMMA Recolor ==
  ASSUME NEW m, NEW t, NEW X, NEW n \in Inner(m, t), IsFiniteSet(DOMAIN m),
         Shape(m, t, X), Coloured(m, t, n, t), m[n].red
  PROVE  Sound(recolor(m, n), t, X) /\ Same(m, recolor(m, n), t)
<1> DEFINE q == recolor_loop(m, n).mem
           k == recolor_loop(m, n).n
<1>1. Recolouring(m, q, t, X, k) /\ ~recolor_goes_on(q, k)
  BY RecolorLoop
<1>2. recolor(m, n) = recolor_end(q, k)
  BY DEF recolor
<1> HIDE DEF q, k
<1>3. Sound(recolor_end(q, k), t, X) /\ Same(q, recolor_end(q, k), t)
  BY <1>1, RecolorEnd DEF Recolouring
<1>4. t \in DOMAIN m
  BY DEF Shape, Fine
<1> QED BY <1>1, <1>2, <1>3, <1>4, SameAgain DEF Recolouring

-----------------------------------------------------------------------------
(* A function whose value at x is given on Stop, and is got from its value *)
(* at N[x], which is ranked lower, everywhere else.                        *)
Follows(f, S, Stop, N, B, H) ==
  f = [x \in S |-> IF x \in Stop THEN B[x] ELSE H[<<x, f[N[x]]>>]]

(* A function that follows a ranked path exists, so that the model's       *)
(* recursive functions are what their definitions say.                     *)
LEMMA FollowsExists ==
  ASSUME NEW S, NEW top \in Nat, NEW rk \in [S -> 0..top], NEW Stop, NEW N, NEW V,
         NEW B \in [Stop -> V], NEW H \in [S \X V -> V],
         \A x \in S \ Stop : N[x] \in S /\ rk[N[x]] < rk[x]
  PROVE  \E f \in [S -> V] : Follows(f, S, Stop, N, B, H)
<1> DEFINE D(i) == {x \in S : rk[x] <= i}
           Fits(f, i) == \A x \in D(i) : f[x] = IF x \in Stop THEN B[x] ELSE H[<<x, f[N[x]]>>]
           T == {i \in 0..top : \E f \in [D(i) -> V] : Fits(f, i)}
<1>1. \A x \in S : rk[x] \in 0..top
  OBVIOUS
<1>2. 0 \in T
  <2> DEFINE f == [x \in D(0) |-> B[x]]
  <2>1. \A x \in D(0) : x \in Stop
    <3> SUFFICES ASSUME NEW x \in D(0), x \notin Stop PROVE FALSE
      OBVIOUS
    <3>1. N[x] \in S /\ rk[N[x]] < rk[x] /\ rk[x] <= 0
      OBVIOUS
    <3>2. rk[N[x]] \in 0..top /\ rk[x] \in 0..top
      BY <1>1, <3>1
    <3> QED BY <3>1, <3>2
  <2>2. \A x \in D(0) : f[x] = B[x] /\ B[x] \in V
    BY <2>1
  <2>3. f \in [D(0) -> V]
    BY <2>2
  <2> HIDE DEF f, D
  <2>4. Fits(f, 0)
    BY <2>1, <2>2
  <2> QED BY <2>3, <2>4
<1>3. ASSUME NEW i \in 0..top - 1, i \in T PROVE i + 1 \in T
  <2>1. PICK f \in [D(i) -> V] : Fits(f, i)
    BY <1>3
  <2> DEFINE g == [x \in D(i + 1) |-> IF x \in D(i) THEN f[x]
                                      ELSE IF x \in Stop THEN B[x] ELSE H[<<x, f[N[x]]>>]]
  <2>2. \A x \in D(i + 1) : x \in S /\ (x \notin Stop => N[x] \in D(i))
    <3> SUFFICES ASSUME NEW x \in D(i + 1), x \notin Stop PROVE N[x] \in D(i)
      OBVIOUS
    <3>1. N[x] \in S /\ rk[N[x]] < rk[x] /\ rk[x] <= i + 1
      OBVIOUS
    <3>2. rk[N[x]] \in 0..top /\ rk[x] \in 0..top
      BY <1>1, <3>1
    <3> QED BY <3>1, <3>2
  <2>3. D(i) \subseteq D(i + 1)
    <3> SUFFICES ASSUME NEW x \in D(i) PROVE x \in D(i + 1)
      OBVIOUS
    <3>1. rk[x] \in 0..top /\ rk[x] <= i
      BY <1>1
    <3> QED BY <3>1
  <2>4. i + 1 \in 0..top
    OBVIOUS
  <2> HIDE DEF D
  <2>5. \A x \in D(i) : f[x] \in V
    OBVIOUS
  <2>6. \A x \in D(i + 1) : g[x] = IF x \in D(i) THEN f[x]
                                   ELSE IF x \in Stop THEN B[x] ELSE H[<<x, f[N[x]]>>]
    OBVIOUS
  <2>7. ASSUME NEW x \in D(i + 1) PROVE g[x] \in V
    <3>1. CASE x \in D(i)
      BY <3>1, <2>5, <2>6
    <3>2. CASE x \notin D(i) /\ x \in Stop
      <4>1. g[x] = B[x] /\ B[x] \in V
        BY <2>6, <3>2
      <4> QED BY <4>1
    <3>3. CASE x \notin D(i) /\ x \notin Stop
      <4>1. <<x, f[N[x]]>> \in S \X V
        BY <2>2, <2>5, <3>3
      <4>2. g[x] = H[<<x, f[N[x]]>>]
        BY <2>6, <3>3
      <4> QED BY <4>1, <4>2
    <3> QED BY <3>1, <3>2, <3>3
  <2>8. g \in [D(i + 1) -> V]
    BY <2>7
  <2>9. ASSUME NEW x \in D(i + 1)
        PROVE  g[x] = IF x \in Stop THEN B[x] ELSE H[<<x, g[N[x]]>>]
    <3> HIDE DEF g
    <3>1. x \notin Stop => g[N[x]] = f[N[x]]
      BY <2>2, <2>3, <2>6
    <3>2. x \in D(i) => f[x] = IF x \in Stop THEN B[x] ELSE H[<<x, f[N[x]]>>]
      BY <2>1
    <3> QED BY <2>6, <3>1, <3>2
  <2> HIDE DEF g
  <2> QED BY <2>4, <2>8, <2>9
<1>4. top \in T
  <2> HIDE DEF T
  <2>1. 0..top \subseteq T
    BY <1>2, <1>3, UpTo
  <2> QED BY <2>1
<1>5. PICK f \in [D(top) -> V] : Fits(f, top)
  BY <1>4
<1>6. D(top) = S
  BY <1>1
<1> HIDE DEF D
<1>7. f = [x \in S |-> f[x]]
  BY <1>6
<1>8. f = [x \in S |-> IF x \in Stop THEN B[x] ELSE H[<<x, f[N[x]]>>]]
  BY <1>5, <1>6, <1>7
<1> QED BY <1>5, <1>6, <1>8 DEF Follows

(* The model's nodes are those below the head. *)
LEMMA NodesBelow ==
  ASSUME NEW m, NEW t, Fine(m, t)
  PROVE  nodes(m) = Below(m, t)
BY DEF nodes, ishead, Fine, Below

-----------------------------------------------------------------------------
(* lprev and rprev find the split next to a subtree. *)
LEMMA Climbs ==
  ASSUME NEW m, NEW t, NEW X, Shape(m, t, X), NEW l \in BOOLEAN
  PROVE  climb(m, l) = [n \in Below(m, t) |->
                          IF m[n].root \/ m[n].left = l THEN m[n].parent
                          ELSE climb(m, l)[m[n].parent]]
<1>1. Fine(m, t) /\ Links(m, t) /\ Rising(m, t) /\ RootOK(m, t) /\ ParentsOK(m, t)
  BY DEF Shape, Links
<1>2. PICK top, rk : Ranked(m, t, top, rk)
  BY <1>1 DEF Rising
<1>3. top \in Nat /\ \A n \in Below(m, t) : rk[n] \in 0..top
  BY <1>2 DEF Ranked
<1> DEFINE Stop == {n \in Below(m, t) : m[n].root \/ m[n].left = l}
           N == [n \in Below(m, t) |-> m[n].parent]
           B == [n \in Stop |-> m[n].parent]
           V == DOMAIN m
           H == [z \in Below(m, t) \X V |-> z[2]]
           up == [n \in Below(m, t) |-> top - rk[n]]
<1>4. up \in [Below(m, t) -> 0..top]
  BY <1>3
<1>5. \A n \in Below(m, t) : m[n].parent \in DOMAIN m
  BY <1>1 DEF RootOK, ParentsOK, Inner, Below, Fine
<1>6. B \in [Stop -> V]
  BY <1>5
<1>7. H \in [Below(m, t) \X V -> V] /\ \A n \in Below(m, t), v \in V : H[<<n, v>>] = v
  OBVIOUS
<1>8. ASSUME NEW n \in Below(m, t) \ Stop PROVE N[n] \in Below(m, t) /\ up[N[n]] < up[n]
  <2>1. N[n] = m[n].parent /\ ~m[n].root
    OBVIOUS
  <2>2. N[n] \in Inner(m, t) /\ m[n].left \in BOOLEAN /\ Kid(m, N[n], m[n].left) = n
    BY <1>1, <2>1 DEF ParentsOK
  <2>3. N[n] \in Below(m, t) /\ rk[n] < rk[N[n]]
    BY <1>2, <2>2 DEF Ranked, Inner
  <2>4. up[N[n]] = top - rk[N[n]] /\ up[n] = top - rk[n]
    BY <2>3
  <2>5. rk[n] \in 0..top /\ rk[N[n]] \in 0..top
    BY <1>3, <2>3
  <2> QED BY <1>3, <2>3, <2>4, <2>5
<1>9. \A n \in Stop : B[n] = m[n].parent
  OBVIOUS
<1>10. \A n \in Below(m, t) : N[n] = m[n].parent
  OBVIOUS
<1>11. \A n \in Below(m, t) : n \in Stop <=> m[n].root \/ m[n].left = l
  OBVIOUS
<1> HIDE DEF Stop, N, B, V, H, up
<1>12. PICK f \in [Below(m, t) -> V] : Follows(f, Below(m, t), Stop, N, B, H)
  BY <1>3, <1>4, <1>6, <1>7, <1>8, FollowsExists
<1>13. ASSUME NEW n \in Below(m, t)
       PROVE  f[n] = IF m[n].root \/ m[n].left = l THEN m[n].parent ELSE f[m[n].parent]
  <2>1. f[n] = IF n \in Stop THEN B[n] ELSE H[<<n, f[N[n]]>>]
    BY <1>12 DEF Follows
  <2>2. n \notin Stop => H[<<n, f[N[n]]>>] = f[N[n]]
    BY <1>7, <1>8
  <2> QED BY <2>1, <2>2, <1>9, <1>10, <1>11
<1>14. f = [n \in Below(m, t) |-> f[n]]
  OBVIOUS
<1>15. f = [n \in Below(m, t) |-> IF m[n].root \/ m[n].left = l THEN m[n].parent ELSE f[m[n].parent]]
  BY <1>13, <1>14
<1>16. nodes(m) = Below(m, t)
  BY <1>1, NodesBelow
<1> QED BY <1>15, <1>16 DEF climb

(* The climb from x ends at the internal node whose subtree on the other    *)
(* side ends where x's does, or at the head if x is at the end of the list. *)
LEMMA ClimbFinds ==
  ASSUME NEW m, NEW t, NEW X, Shape(m, t, X), NEW e, Ends(m, t, e), NEW l \in BOOLEAN,
         NEW x \in Below(m, t)
  PROVE  /\ \/ climb(m, l)[x] = t
            \/ climb(m, l)[x] \in Inner(m, t) /\ e[~l][Kid(m, climb(m, l)[x], l)] = e[~l][x]
         /\ \A n \in Inner(m, t) : e[~l][Kid(m, n, l)] = e[~l][x] => n = climb(m, l)[x]
<1>1. Fine(m, t) /\ Links(m, t) /\ Rising(m, t) /\ RootOK(m, t) /\ ParentsOK(m, t) /\ KidsOK(m, t)
  BY DEF Shape, Links
<1> DEFINE up == climb(m, l)
           k == ~l
<1>2. \A n \in Below(m, t) : up[n] = IF m[n].root \/ m[n].left = l THEN m[n].parent ELSE up[m[n].parent]
  <2>1. climb(m, l) = [n \in Below(m, t) |->
                          IF m[n].root \/ m[n].left = l THEN m[n].parent
                          ELSE climb(m, l)[m[n].parent]]
    BY Climbs
  <2> QED BY <2>1
<1>3. k \in BOOLEAN /\ k # l /\ \A b \in BOOLEAN : b = l \/ b = k
  OBVIOUS
<1> HIDE DEF up
<1>4. \A n \in Inner(m, t), s \in BOOLEAN :
        /\ Kid(m, n, s) \in Below(m, t) /\ m[Kid(m, n, s)].parent = n
        /\ m[Kid(m, n, s)].left = s /\ ~m[Kid(m, n, s)].root /\ n \in Below(m, t)
  BY Kids
<1>5. \A n \in Inner(m, t) : up[Kid(m, n, l)] = n /\ up[Kid(m, n, k)] = up[n]
  <2> HIDE DEF k
  <2> QED BY <1>2, <1>3, <1>4
<1>6. /\ \A n \in Outer(m, t) : e[k][n] = n
      /\ \A n \in Inner(m, t) : e[k][n] = e[k][Kid(m, n, k)]
  <2> HIDE DEF k
  <2> QED BY <1>3 DEF Ends
<1>7. \A n \in Below(m, t) : m[n].root => m[n].parent = t
  BY <1>1 DEF RootOK, Below
<1> HIDE DEF k
<1> DEFINE T == {n \in Below(m, t) : up[n] = t \/ (up[n] \in Inner(m, t) /\ e[k][Kid(m, up[n], l)] = e[k][n])}
<1>8. \A n \in Below(m, t) : m[n].root => n \in T
  BY <1>2, <1>7
<1>9. ASSUME NEW n \in Inner(m, t), NEW s \in BOOLEAN, n \in T PROVE Kid(m, n, s) \in T
  <2>1. CASE s = l
    BY <2>1, <1>4, <1>5
  <2>2. CASE s = k
    BY <2>2, <1>4, <1>5, <1>6, <1>9
  <2> QED BY <2>1, <2>2, <1>3
<1>10. Below(m, t) \subseteq T
  <2> HIDE DEF T
  <2> QED BY <1>1, <1>8, <1>9, FromRoot
<1> DEFINE U == {n \in Below(m, t) : up[e[k][n]] = up[n]}
<1>11. Outer(m, t) \subseteq U
  BY <1>6 DEF Outer
<1>12. \A n \in Inner(m, t) : (\A s \in BOOLEAN : Kid(m, n, s) \in U) => n \in U
  BY <1>3, <1>4, <1>5, <1>6
<1>13. Below(m, t) \subseteq U
  <2> HIDE DEF U
  <2> QED BY <1>1, <1>11, <1>12, FromLeaves
<1>14. ASSUME NEW n \in Inner(m, t), e[k][Kid(m, n, l)] = e[k][x] PROVE n = up[x]
  <2>1. Kid(m, n, l) \in U /\ x \in U
    BY <1>4, <1>13
  <2> QED BY <2>1, <1>5, <1>14
<1>15. x \in T
  BY <1>10
<1> QED BY <1>14, <1>15 DEF up, k

-----------------------------------------------------------------------------
(* setlext when l, setrext otherwise. *)
Refreshed(m, l, a, v) == IF l THEN setlext(m, a, v) ELSE setrext(m, a, v)

(* setlext and setrext write one separator, and none at the head. *)
LEMMA RefreshWrites ==
  ASSUME NEW m, NEW t, Fine(m, t), NEW a \in DOMAIN m, NEW l \in BOOLEAN, NEW v
  PROVE  /\ Alike(m, Refreshed(m, l, a, v))
         /\ \A n \in DOMAIN m : Refreshed(m, l, a, v)[n].red = m[n].red
         /\ \A n \in DOMAIN m, s \in BOOLEAN :
              Refreshed(m, l, a, v)[n][Split(s)] = IF n = a /\ a # t /\ s = l THEN v ELSE m[n][Split(s)]
<1> DEFINE r == Refreshed(m, l, a, v)
<1>1. IsMem(m) /\ (m[a].head <=> a = t)
  BY DEF Fine, Below
<1>2. CASE a = t
  <2>1. r = m
    BY <1>1, <1>2 DEF Refreshed, setlext, setrext, ishead
  <2> HIDE DEF r
  <2> QED BY <1>1, <1>2, <2>1 DEF Alike, r
<1>3. CASE a # t
  <2> DEFINE x == [m[a] EXCEPT ![Split(l)] = v]
  <2>1. r = [m EXCEPT ![a] = x]
    BY <1>1, <1>3 DEF Refreshed, setlext, setrext, ishead, Split
  <2>2. DOMAIN m[a] = Fields
    BY <1>1 DEF IsMem
  <2>3. /\ DOMAIN x = Fields
        /\ x.red = m[a].red /\ x.internal = m[a].internal /\ x.left = m[a].left /\ x.root = m[a].root
        /\ x.head = m[a].head /\ x.flink = m[a].flink /\ x.blink = m[a].blink
        /\ x.parent = m[a].parent
        /\ x[Split(l)] = v /\ x[Split(~l)] = m[a][Split(~l)]
    BY <2>2 DEF Fields, Split
  <2> HIDE DEF x, r
  <2>4. DOMAIN r = DOMAIN m /\ r[a] = x /\ \A n \in DOMAIN m : n # a => r[n] = m[n]
    BY <2>1
  <2>5. IsMem(r)
    BY <1>1, <2>3, <2>4 DEF IsMem
  <2>6. Alike(m, r)
    BY <2>3, <2>4, <2>5 DEF Alike
  <2>7. \A n \in DOMAIN m : r[n].red = m[n].red
    BY <2>3, <2>4
  <2>8. ASSUME NEW n \in DOMAIN m, NEW s \in BOOLEAN
        PROVE  r[n][Split(s)] = IF n = a /\ a # t /\ s = l THEN v ELSE m[n][Split(s)]
    <3>1. CASE n # a
      BY <2>4, <3>1
    <3>2. CASE n = a /\ s = l
      BY <1>3, <2>3, <2>4, <3>2
    <3>3. CASE n = a /\ s = (~l)
      BY <1>3, <2>3, <2>4, <3>3
    <3> QED BY <3>1, <3>2, <3>3
  <2> QED BY <2>6, <2>7, <2>8 DEF r
<1> QED BY <1>2, <1>3

(* Writing separators keeps the colours in order. *)
LEMMA AlikeColoured ==
  ASSUME NEW m, NEW r, NEW t, NEW X, Alike(m, r), Shape(m, t, X),
         \A n \in DOMAIN m : r[n].red = m[n].red, NEW v, NEW z, Coloured(m, t, v, z)
  PROVE  Coloured(r, t, v, z)
<1>1. /\ Below(r, t) = Below(m, t) /\ Inner(r, t) = Inner(m, t) /\ Outer(r, t) = Outer(m, t)
      /\ \A n \in Below(m, t), l \in BOOLEAN : Kid(r, n, l) = Kid(m, n, l)
  BY AlikeSets
<1>2. /\ \A n \in Inner(m, t), l \in BOOLEAN : Kid(m, n, l) \in DOMAIN m
      /\ \A n \in Inner(m, t) : n \in Below(m, t) /\ n \in DOMAIN m
      /\ \A n \in Outer(m, t) : n \in DOMAIN m
  BY Kids DEF Inner, Outer, Below
<1>3. PICK b : Blacks(m, t, b, z)
  BY DEF Coloured
<1>4. Blacks(r, t, b, z)
  <2>1. \A n \in Inner(m, t), l \in BOOLEAN : Own(r, n) = Own(m, n) /\ Kid(r, n, l) = Kid(m, n, l)
    BY <1>1, <1>2 DEF Own
  <2>2. \A n \in Inner(m, t), l \in BOOLEAN :
          b[n] = Own(r, n) + b[Kid(r, n, l)] + IF Kid(r, n, l) = z THEN 1 ELSE 0
    BY <1>3, <2>1 DEF Blacks
  <2> QED BY <1>1, <1>2, <1>3, <2>2 DEF Blacks
<1>5. Apart(r, t, v)
  BY <1>1, <1>2 DEF Coloured, Apart
<1> QED BY <1>4, <1>5 DEF Coloured

(* The split next to x's subtree on the side it is looked for learns the   *)
(* leaf it is next to.                                                     *)
(* r is m with other splits: X is what is still wrong. *)
Resplit(m, r, t, X) ==
  /\ Shape(r, t, X) /\ Alike(m, r)
  /\ \A n \in DOMAIN m : r[n].red = m[n].red
  /\ \A n \in Outer(m, t) \cup {t} : r[n].key = m[n].key /\ r[n].val = m[n].val

(* Refreshing the separator next to x with the leaf at x's end removes it  *)
(* from those that are wrong.                                              *)
LEMMA RefreshSplit ==
  ASSUME NEW m, NEW t, NEW X, Shape(m, t, X), NEW l \in BOOLEAN, NEW x \in Below(m, t), NEW v,
         \A e : Ends(m, t, e) => e[~l][x] = v,
         NEW r, r = Refreshed(m, l, climb(m, l)[x], v)
  PROVE  climb(m, l)[x] \in DOMAIN m /\ Resplit(m, r, t, X \ {<<l, v>>})
<1> DEFINE a == climb(m, l)[x]
<1>0. r = Refreshed(m, l, a, v)
  OBVIOUS
<1>1. PICK e : Ends(m, t, e) /\ Gaps(m, t, e) /\ Seps(m, t, e, X)
  BY DEF Shape, Spread
<1>2. Fine(m, t) /\ Links(m, t) /\ Rising(m, t) /\ Ring(m, t) /\ t \in DOMAIN m
  BY DEF Shape, Fine
<1>3. e[~l][x] = v
  BY <1>1
<1>4. /\ a = t \/ (a \in Inner(m, t) /\ e[~l][Kid(m, a, l)] = v)
      /\ \A n \in Inner(m, t) : e[~l][Kid(m, n, l)] = v => n = a
  BY <1>1, <1>3, ClimbFinds
<1>5. a \in DOMAIN m /\ a \notin Outer(m, t)
  BY <1>2, <1>4 DEF Inner, Outer, Below
<1> HIDE DEF a
<1>6. /\ Alike(m, r)
      /\ \A n \in DOMAIN m : r[n].red = m[n].red
      /\ \A n \in DOMAIN m, s \in BOOLEAN :
              r[n][Split(s)] = IF n = a /\ a # t /\ s = l THEN v ELSE m[n][Split(s)]
  BY <1>0, <1>2, <1>5, RefreshWrites
<1>7. \A n \in Below(m, t) : r[n].red \in BOOLEAN /\ n \in DOMAIN m
  BY <1>2, <1>6 DEF Fine, Below
<1>8. /\ Fine(r, t) /\ Links(r, t) /\ Rising(r, t) /\ Ring(r, t)
      /\ Ends(r, t, e) /\ Gaps(r, t, e)
  BY <1>1, <1>2, <1>6, <1>7, AlikeKeeps
<1>9. Seps(r, t, e, X \ {<<l, v>>})
  <2>1. /\ Inner(r, t) = Inner(m, t)
        /\ \A n \in Inner(m, t) : n \in Below(m, t) /\ n \in DOMAIN m /\ n # t
        /\ \A n \in Below(m, t), s \in BOOLEAN : Kid(r, n, s) = Kid(m, n, s)
    <3>1. \A n \in Inner(m, t) : n \in Below(m, t) /\ n \in DOMAIN m /\ n # t
      BY DEF Inner, Below
    <3>2. Alike(m, r)
      BY <1>6
    <3>3. Inner(r, t) = Inner(m, t) /\ \A n \in Below(m, t), s \in BOOLEAN : Kid(r, n, s) = Kid(m, n, s)
      BY <3>2, AlikeSets
    <3> QED BY <3>1, <3>3
  <2> SUFFICES ASSUME NEW n \in Inner(m, t), NEW s \in BOOLEAN
               PROVE  \/ r[n][Split(s)] = e[~s][Kid(m, n, s)]
                      \/ <<s, e[~s][Kid(m, n, s)]>> \in X \ {<<l, v>>}
    BY <2>1 DEF Seps
  <2>2. \/ m[n][Split(s)] = e[~s][Kid(m, n, s)]
        \/ <<s, e[~s][Kid(m, n, s)]>> \in X
    BY <1>1 DEF Seps
  <2>3. r[n][Split(s)] = IF n = a /\ a # t /\ s = l THEN v ELSE m[n][Split(s)]
    BY <1>6, <2>1
  <2>4. CASE s = l /\ n = a
    <3>1. e[~l][Kid(m, a, l)] = v
      BY <1>4, <2>1, <2>4
    <3> QED BY <2>1, <2>3, <2>4, <3>1
  <2>5. CASE s = l /\ n # a
    <3>1. e[~l][Kid(m, n, l)] # v
      BY <1>4, <2>5
    <3> QED BY <2>2, <2>3, <2>5, <3>1
  <2>6. CASE s # l
    BY <2>2, <2>3, <2>6
  <2> QED BY <2>4, <2>5, <2>6
<1>10. Shape(r, t, X \ {<<l, v>>})
  BY <1>8, <1>9 DEF Shape, Spread
<1>11. \A n \in Outer(m, t) \cup {t} : r[n].key = m[n].key /\ r[n].val = m[n].val
  <2> SUFFICES ASSUME NEW n \in Outer(m, t) \cup {t} PROVE r[n].key = m[n].key /\ r[n].val = m[n].val
    OBVIOUS
  <2>1. n \in DOMAIN m /\ (n # a \/ a = t)
    BY <1>2, <1>5 DEF Outer, Below
  <2>2. \A s \in BOOLEAN : r[n][Split(s)] = m[n][Split(s)]
    BY <1>6, <2>1
  <2> QED BY <2>2, Sides
<1> QED BY <1>5, <1>6, <1>10, <1>11 DEF a, Resplit

-----------------------------------------------------------------------------
(* The list with item in it before list. *)
Inserted(m, r, item, list, last) ==
  /\ DOMAIN r = DOMAIN m /\ IsMem(r)
  /\ \A k \in DOMAIN m :
       /\ r[k].red = m[k].red /\ r[k].internal = m[k].internal /\ r[k].left = m[k].left
       /\ r[k].root = m[k].root /\ r[k].head = m[k].head /\ r[k].parent = m[k].parent
       /\ r[k].key = m[k].key /\ r[k].val = m[k].val
       /\ r[k].flink = IF k = item THEN list ELSE IF k = last THEN item ELSE m[k].flink
       /\ r[k].blink = IF k = item THEN last ELSE IF k = list THEN item ELSE m[k].blink

(* insert of the list puts the item before list. *)
LEMMA InsertWrites ==
  ASSUME NEW m, IsMem(m), NEW item \in DOMAIN m, NEW list \in DOMAIN m, NEW last \in DOMAIN m,
         last = m[list].blink, item # list, item # last,
         NEW r, r = insert(m, item, list)
  PROVE  Inserted(m, r, item, list, last)
<1> DEFINE a == [m EXCEPT ![list].blink = item]
           b == [a EXCEPT ![last].flink = item]
           c == [b EXCEPT ![item].blink = last]
           d == [c EXCEPT ![item].flink = list]
<1>1. r = d
  BY DEF insert
<1>2. /\ DOMAIN a = DOMAIN m /\ a[list] = [m[list] EXCEPT !.blink = item]
      /\ \A k \in DOMAIN m : k # list => a[k] = m[k]
  OBVIOUS
<1> HIDE DEF a
<1>3. /\ DOMAIN b = DOMAIN a /\ b[last] = [a[last] EXCEPT !.flink = item]
      /\ \A k \in DOMAIN a : k # last => b[k] = a[k]
  BY <1>2
<1> HIDE DEF b
<1>4. /\ DOMAIN c = DOMAIN b /\ c[item] = [b[item] EXCEPT !.blink = last]
      /\ \A k \in DOMAIN b : k # item => c[k] = b[k]
  BY <1>2, <1>3
<1> HIDE DEF c
<1>5. /\ DOMAIN d = DOMAIN c /\ d[item] = [c[item] EXCEPT !.flink = list]
      /\ \A k \in DOMAIN c : k # item => d[k] = c[k]
  BY <1>2, <1>3, <1>4
<1> HIDE DEF d
<1>6. \A k \in DOMAIN m : DOMAIN m[k] = Fields
  BY DEF IsMem
<1>7. ASSUME NEW k \in DOMAIN m
      PROVE  /\ DOMAIN a[k] = Fields
             /\ a[k].red = m[k].red /\ a[k].internal = m[k].internal /\ a[k].left = m[k].left
             /\ a[k].root = m[k].root /\ a[k].head = m[k].head /\ a[k].parent = m[k].parent
             /\ a[k].key = m[k].key /\ a[k].val = m[k].val /\ a[k].flink = m[k].flink
             /\ a[k].blink = IF k = list THEN item ELSE m[k].blink
  <2>1. CASE k = list
    BY <1>2, <1>6, <2>1 DEF Fields
  <2>2. CASE k # list
    BY <1>2, <1>6, <2>2
  <2> QED BY <2>1, <2>2
<1>8. ASSUME NEW k \in DOMAIN m
      PROVE  /\ DOMAIN b[k] = Fields
             /\ b[k].red = m[k].red /\ b[k].internal = m[k].internal /\ b[k].left = m[k].left
             /\ b[k].root = m[k].root /\ b[k].head = m[k].head /\ b[k].parent = m[k].parent
             /\ b[k].key = m[k].key /\ b[k].val = m[k].val
             /\ b[k].flink = IF k = last THEN item ELSE m[k].flink
             /\ b[k].blink = IF k = list THEN item ELSE m[k].blink
  <2>1. CASE k = last
    BY <1>2, <1>3, <1>7, <2>1 DEF Fields
  <2>2. CASE k # last
    BY <1>2, <1>3, <1>7, <2>2
  <2> QED BY <2>1, <2>2
<1>9. ASSUME NEW k \in DOMAIN m
      PROVE  /\ DOMAIN d[k] = Fields
             /\ d[k].red = m[k].red /\ d[k].internal = m[k].internal /\ d[k].left = m[k].left
             /\ d[k].root = m[k].root /\ d[k].head = m[k].head /\ d[k].parent = m[k].parent
             /\ d[k].key = m[k].key /\ d[k].val = m[k].val
             /\ d[k].flink = IF k = item THEN list ELSE IF k = last THEN item ELSE m[k].flink
             /\ d[k].blink = IF k = item THEN last ELSE IF k = list THEN item ELSE m[k].blink
  <2>1. CASE k = item
    <3>1. d[item] = [c[item] EXCEPT !.flink = list] /\ c[item] = [b[item] EXCEPT !.blink = last]
      BY <1>4, <1>5
    <3>2. DOMAIN c[item] = Fields /\ c[item].blink = last /\ DOMAIN b[item] = Fields
      BY <1>8, <3>1 DEF Fields
    <3>3. /\ c[item].red = b[item].red /\ c[item].internal = b[item].internal /\ c[item].left = b[item].left
          /\ c[item].root = b[item].root /\ c[item].head = b[item].head /\ c[item].parent = b[item].parent
          /\ c[item].key = b[item].key /\ c[item].val = b[item].val
      BY <3>1, <3>2 DEF Fields
    <3>4. /\ d[item].red = c[item].red /\ d[item].internal = c[item].internal /\ d[item].left = c[item].left
          /\ d[item].root = c[item].root /\ d[item].head = c[item].head /\ d[item].parent = c[item].parent
          /\ d[item].key = c[item].key /\ d[item].val = c[item].val /\ d[item].blink = c[item].blink
          /\ d[item].flink = list /\ DOMAIN d[item] = Fields
      BY <3>1, <3>2 DEF Fields
    <3> QED BY <1>8, <2>1, <3>2, <3>3, <3>4
  <2>2. CASE k # item
    <3>1. d[k] = b[k]
      BY <1>2, <1>3, <1>4, <1>5, <2>2
    <3> QED BY <1>8, <2>2, <3>1
  <2> QED BY <2>1, <2>2
<1>10. DOMAIN d = DOMAIN m
  BY <1>2, <1>3, <1>4, <1>5
<1>11. IsMem(d)
  BY <1>9, <1>10 DEF IsMem
<1>12. \A k \in DOMAIN m :
             /\ d[k].red = m[k].red /\ d[k].internal = m[k].internal /\ d[k].left = m[k].left
             /\ d[k].root = m[k].root /\ d[k].head = m[k].head /\ d[k].parent = m[k].parent
             /\ d[k].key = m[k].key /\ d[k].val = m[k].val
             /\ d[k].flink = IF k = item THEN list ELSE IF k = last THEN item ELSE m[k].flink
             /\ d[k].blink = IF k = item THEN last ELSE IF k = list THEN item ELSE m[k].blink
  BY <1>9
<1> QED BY <1>1, <1>10, <1>11, <1>12 DEF Inserted

(* Fresh memory, and a leaf in it. *)
More(m, r, a) ==
  /\ DOMAIN r = DOMAIN m \cup {a} /\ IsMem(r) /\ r[a] = Unwritten
  /\ \A k \in DOMAIN m : r[k] = m[k]

(* An allocation adds an unwritten node and leaves the others alone. *)
LEMMA Allocated ==
  ASSUME NEW m, IsMem(m), NEW a, a \notin DOMAIN m,
         NEW r, r = mem_alloc(m, a)
  PROVE  More(m, r, a)
<1>1. DOMAIN r = DOMAIN m \cup {a} /\ r[a] = Unwritten /\ \A k \in DOMAIN m : r[k] = m[k]
  BY DEF mem_alloc
<1>2. DOMAIN Unwritten = Fields
  BY DEF Unwritten, Fields
<1>3. IsMem(r)
  BY <1>1, <1>2 DEF IsMem
<1> QED BY <1>1, <1>3 DEF More

(* A node of fresh memory made a leaf. *)
ExtMade(a, r, leaf, key, val) ==
  /\ DOMAIN r = DOMAIN a /\ IsMem(r)
  /\ \A k \in DOMAIN a : k # leaf => r[k] = a[k]
  /\ r[leaf].key = key /\ r[leaf].val = val /\ r[leaf].internal = FALSE
  /\ r[leaf].red = FALSE /\ r[leaf].root = FALSE /\ r[leaf].head = FALSE

(* mk_new_ext writes the leaf only. *)
LEMMA NewExt ==
  ASSUME NEW a, IsMem(a), NEW leaf \in DOMAIN a, a[leaf] = Unwritten, NEW key, NEW val,
         NEW r, r = mk_new_ext(a, leaf, key, val)
  PROVE  ExtMade(a, r, leaf, key, val)
<1> DEFINE x == [Unwritten EXCEPT !.key = key, !.val = val, !.internal = FALSE,
                                  !.red = FALSE, !.root = FALSE, !.head = FALSE]
<1>1. r = [a EXCEPT ![leaf] = x]
  BY DEF mk_new_ext
<1>2. DOMAIN Unwritten = Fields
  BY DEF Unwritten, Fields
<1>3. /\ DOMAIN x = Fields /\ x.key = key /\ x.val = val /\ x.internal = FALSE
      /\ x.red = FALSE /\ x.root = FALSE /\ x.head = FALSE
  BY <1>2 DEF Fields
<1> HIDE DEF x
<1>4. DOMAIN r = DOMAIN a /\ r[leaf] = x /\ \A k \in DOMAIN a : k # leaf => r[k] = a[k]
  BY <1>1
<1>5. IsMem(r)
  BY <1>3, <1>4 DEF IsMem
<1> QED BY <1>3, <1>4, <1>5 DEF ExtMade

(* What the part of mk_new_int before recolor writes. *)
Places(m, new, l, r, p, il, top) ==
  /\ new \in DOMAIN m /\ l \in DOMAIN m /\ r \in DOMAIN m /\ p \in DOMAIN m
  /\ top \in BOOLEAN /\ top = m[p].head /\ (~top => il \in BOOLEAN)
  /\ new # l /\ new # r /\ new # p /\ l # r /\ l # p /\ r # p

(* The new internal node linked between p and the nodes l and r. *)
Linked(m, q, new, l, r, p, il, top) ==
  /\ DOMAIN q = DOMAIN m /\ IsMem(q)
  /\ \A k \in DOMAIN m :
       /\ q[k].red = IF k = new THEN TRUE ELSE m[k].red
       /\ q[k].internal = IF k = new THEN TRUE ELSE m[k].internal
       /\ q[k].head = IF k = new THEN FALSE ELSE m[k].head
       /\ q[k].root = IF k = new THEN top ELSE m[k].root
       /\ q[k].left = IF k = l THEN TRUE ELSE IF k = r THEN FALSE
                      ELSE IF k = new /\ ~top THEN il ELSE m[k].left
       /\ q[k].parent = IF k = l \/ k = r THEN new ELSE IF k = new THEN p
                        ELSE IF k = p /\ top THEN new ELSE m[k].parent
       /\ q[k].key = IF k = new THEN l ELSE m[k].key
       /\ q[k].val = IF k = new THEN r ELSE m[k].val
       /\ q[k].flink = IF k = new THEN l ELSE IF k = p /\ ~top /\ il THEN new ELSE m[k].flink
       /\ q[k].blink = IF k = new THEN r ELSE IF k = p /\ ~top /\ ~il THEN new ELSE m[k].blink

(* link_new_int writes the new node, the links of l and r to it, and the   *)
(* link of p to it.                                                        *)
LEMMA LinkWrites ==
  ASSUME NEW m, IsMem(m), NEW new, NEW l, NEW r, NEW p, NEW il, NEW top,
         Places(m, new, l, r, p, il, top), NEW q, q = link_new_int(m, new, l, r, p, il)
  PROVE  Linked(m, q, new, l, r, p, il, top)
<1> USE DEF Places
<1> DEFINE up == IF top THEN "parent" ELSE Side(il)
           en == [m[new] EXCEPT !.internal = TRUE, !.red = TRUE, !.head = FALSE,
                           !.root = top, !.left = IF top THEN m[new].left ELSE il,
                           !.flink = l, !.blink = r, !.parent = p,
                           !.key = l, !.val = r]
           el == [m[l] EXCEPT !.parent = new, !.left = TRUE]
           er == [m[r] EXCEPT !.parent = new, !.left = FALSE]
           ep == [m[p] EXCEPT ![up] = new]
<1>1. q = [m EXCEPT ![new] = en, ![l] = el, ![r] = er, ![p] = ep]
  BY DEF link_new_int, ishead
<1>2. DOMAIN m[new] = Fields /\ DOMAIN m[l] = Fields /\ DOMAIN m[r] = Fields /\ DOMAIN m[p] = Fields
  BY DEF IsMem
<1>3. /\ up \in {"parent", "flink", "blink"} /\ (top => up = "parent")
      /\ ~top => up = IF il THEN "flink" ELSE "blink"
  BY DEF Side
<1> HIDE DEF up
<1>4. DOMAIN en = Fields /\ DOMAIN el = Fields /\ DOMAIN er = Fields /\ DOMAIN ep = Fields
  BY <1>2
<1>5. /\ en.internal = TRUE /\ en.red = TRUE /\ en.head = FALSE /\ en.root = top
      /\ en.left = (IF top THEN m[new].left ELSE il)
      /\ en.flink = l /\ en.blink = r /\ en.parent = p /\ en.key = l /\ en.val = r
  BY <1>2 DEF Fields
<1>6. /\ el.parent = new /\ el.left = TRUE /\ el.root = m[l].root
      /\ el.flink = m[l].flink /\ el.blink = m[l].blink
      /\ el.red = m[l].red /\ el.internal = m[l].internal /\ el.head = m[l].head
      /\ el.key = m[l].key /\ el.val = m[l].val
  BY <1>2 DEF Fields
<1>7. /\ er.parent = new /\ er.left = FALSE /\ er.root = m[r].root
      /\ er.flink = m[r].flink /\ er.blink = m[r].blink
      /\ er.red = m[r].red /\ er.internal = m[r].internal /\ er.head = m[r].head
      /\ er.key = m[r].key /\ er.val = m[r].val
  BY <1>2 DEF Fields
<1>8. /\ ep.left = m[p].left /\ ep.root = m[p].root
      /\ ep.parent = (IF top THEN new ELSE m[p].parent)
      /\ ep.flink = (IF ~top /\ il THEN new ELSE m[p].flink)
      /\ ep.blink = (IF ~top /\ ~il THEN new ELSE m[p].blink)
      /\ ep.red = m[p].red /\ ep.internal = m[p].internal /\ ep.head = m[p].head
      /\ ep.key = m[p].key /\ ep.val = m[p].val
  BY <1>2, <1>3 DEF Fields
<1> HIDE DEF en, el, er, ep
<1>9. /\ q[new] = en /\ q[l] = el /\ q[r] = er /\ q[p] = ep /\ DOMAIN q = DOMAIN m
      /\ \A k \in DOMAIN m \ {new, l, r, p} : q[k] = m[k]
  BY <1>1
<1>10. IsMem(q)
  BY <1>4, <1>9 DEF IsMem
<1>11. ASSUME NEW k \in DOMAIN m
       PROVE  /\ q[k].red = IF k = new THEN TRUE ELSE m[k].red
              /\ q[k].internal = IF k = new THEN TRUE ELSE m[k].internal
              /\ q[k].head = IF k = new THEN FALSE ELSE m[k].head
              /\ q[k].root = IF k = new THEN top ELSE m[k].root
              /\ q[k].left = IF k = l THEN TRUE ELSE IF k = r THEN FALSE
                             ELSE IF k = new /\ ~top THEN il ELSE m[k].left
              /\ q[k].parent = IF k = l \/ k = r THEN new ELSE IF k = new THEN p
                               ELSE IF k = p /\ top THEN new ELSE m[k].parent
              /\ q[k].key = IF k = new THEN l ELSE m[k].key
              /\ q[k].val = IF k = new THEN r ELSE m[k].val
              /\ q[k].flink = IF k = new THEN l ELSE IF k = p /\ ~top /\ il THEN new ELSE m[k].flink
              /\ q[k].blink = IF k = new THEN r ELSE IF k = p /\ ~top /\ ~il THEN new ELSE m[k].blink
  <2>1. CASE k = new
    BY <2>1, <1>5, <1>9
  <2>2. CASE k = l
    BY <2>2, <1>6, <1>9
  <2>3. CASE k = r
    BY <2>3, <1>7, <1>9
  <2>4. CASE k = p
    BY <2>4, <1>8, <1>9
  <2> QED BY <2>1, <2>2, <2>3, <2>4, <1>9
<1> QED BY <1>9, <1>10, <1>11 DEF Linked

-----------------------------------------------------------------------------
(* q is m with leaf, on side o, and the leaf old below a new internal node *)
(* where old was.                                                          *)
Grafted(m, q, t, old, leaf, new, o) ==
  /\ o \in BOOLEAN /\ old \in Outer(m, t)
  /\ leaf \notin DOMAIN m /\ new \notin DOMAIN m /\ leaf # new
  /\ DOMAIN q = DOMAIN m \cup {leaf, new} /\ IsMem(q)
  /\ \A k \in DOMAIN m :
       /\ q[k].head = m[k].head /\ q[k].internal = m[k].internal /\ q[k].red = m[k].red
       /\ q[k].key = m[k].key /\ q[k].val = m[k].val
       /\ q[k].root = IF k = old THEN FALSE ELSE m[k].root
       /\ q[k].left = IF k = old THEN ~o ELSE m[k].left
       /\ q[k].parent = IF k = old THEN new ELSE IF k = t /\ m[old].root THEN new ELSE m[k].parent
  /\ \A k \in Inner(m, t), s \in BOOLEAN :
       Kid(q, k, s) = IF Kid(m, k, s) = old THEN new ELSE Kid(m, k, s)
  /\ q[new].head = FALSE /\ q[new].internal = TRUE /\ q[new].red = TRUE
  /\ q[new].root = m[old].root /\ q[new].parent = m[old].parent
  /\ q[new].left = IF m[old].root THEN Junk ELSE m[old].left
  /\ \A s \in BOOLEAN : /\ Kid(q, new, s) = IF s = o THEN leaf ELSE old
                        /\ q[new][Split(s)] = IF s = o THEN leaf ELSE old
  /\ q[leaf].head = FALSE /\ q[leaf].internal = FALSE /\ q[leaf].red = FALSE
  /\ q[leaf].root = FALSE /\ q[leaf].left = o /\ q[leaf].parent = new

(* and with leaf before n in the list. *)
Enlisted(m, q, t, leaf, n) ==
  /\ q[leaf].flink = n /\ q[leaf].blink = m[n].blink
  /\ \A k \in Outer(m, t) \cup {t} :
       /\ q[k].flink = IF k = m[n].blink THEN leaf ELSE m[k].flink
       /\ q[k].blink = IF k = n THEN leaf ELSE m[k].blink

(* What is above a leaf. *)
LEMMA ParentOfLeaf ==
  ASSUME NEW m, NEW t, NEW X, Shape(m, t, X), NEW old \in Below(m, t)
  PROVE  /\ m[old].parent \in DOMAIN m /\ m[old].parent # old
         /\ m[old].root \in BOOLEAN /\ (m[old].root <=> m[old].parent = t)
         /\ m[m[old].parent].head \in BOOLEAN /\ (m[m[old].parent].head <=> m[old].root)
         /\ ~m[old].root => /\ m[old].left \in BOOLEAN /\ m[old].parent \in Inner(m, t)
                            /\ Kid(m, m[old].parent, m[old].left) = old
<1>1. CASE m[old].root
  <2>1. m[old].parent = t
    BY <1>1 DEF Shape, Links, RootOK, Below
  <2> QED BY <1>1, <2>1 DEF Shape, Fine, Below
<1>2. CASE ~m[old].root
  <2>1. /\ m[old].parent \in Inner(m, t) /\ m[old].left \in BOOLEAN
        /\ m[old].parent # old /\ Kid(m, m[old].parent, m[old].left) = old
    BY <1>2, Family
  <2>2. m[old].parent \in Below(m, t)
    BY <2>1 DEF Inner
  <2> QED BY <1>2, <2>1, <2>2 DEF Shape, Fine, Below
<1> QED BY <1>1, <1>2

(* Where a leaf goes that is put before n in the list: to the right of the *)
(* last leaf or to the left of n itself.                                   *)
Beside(m, t, n, old, o) ==
  /\ n \in Outer(m, t) \cup {t} /\ old \in Outer(m, t) /\ o \in BOOLEAN
  /\ n = t => ~o /\ old = m[t].blink
  /\ n # t => o /\ old = n

(* The memories insert_beside goes through. *)
GraftSteps(m, n, old, o, leaf, new, key, val, m3, m4, q) ==
  /\ m3 = insert(mk_new_ext(mem_alloc(mem_alloc(m, leaf), new), leaf, key, val), leaf, n)
  /\ m4 = [m3 EXCEPT ![old].root = FALSE]
  /\ q = IF o THEN link_new_int(m4, new, leaf, old, m4[old].parent, m4[old].left)
               ELSE link_new_int(m4, new, old, leaf, m4[old].parent, m4[old].left)

(* A new leaf and memory for the internal node above it. *)
Made(m, r, leaf, new, key, val) ==
  /\ DOMAIN r = DOMAIN m \cup {leaf, new} /\ IsMem(r)
  /\ r[new] = Unwritten /\ \A k \in DOMAIN m : r[k] = m[k]
  /\ r[leaf].key = key /\ r[leaf].val = val /\ r[leaf].internal = FALSE
  /\ r[leaf].red = FALSE /\ r[leaf].root = FALSE /\ r[leaf].head = FALSE

(* The memory after the allocations and mk_new_ext. *)
LEMMA LeafMade ==
  ASSUME NEW m, IsMem(m), NEW leaf, NEW new, leaf \notin DOMAIN m, new \notin DOMAIN m,
         leaf # new, NEW key, NEW val,
         NEW r, r = mk_new_ext(mem_alloc(mem_alloc(m, leaf), new), leaf, key, val)
  PROVE  Made(m, r, leaf, new, key, val)
<1>1. PICK a : a = mem_alloc(m, leaf)
  OBVIOUS
<1>2. PICK b : b = mem_alloc(a, new)
  OBVIOUS
<1>3. r = mk_new_ext(b, leaf, key, val)
  BY <1>1, <1>2
<1>4. More(m, a, leaf)
  BY <1>1, Allocated
<1>5. IsMem(a) /\ new \notin DOMAIN a
  BY <1>4 DEF More
<1>6. More(a, b, new)
  BY <1>2, <1>5, Allocated
<1>7. IsMem(b) /\ leaf \in DOMAIN b /\ b[leaf] = Unwritten
  BY <1>4, <1>6 DEF More
<1>8. ExtMade(b, r, leaf, key, val)
  BY <1>3, <1>7, NewExt
<1>9. DOMAIN r = DOMAIN m \cup {leaf, new} /\ r[new] = Unwritten /\ \A k \in DOMAIN m : r[k] = m[k]
  BY <1>4, <1>6, <1>8 DEF More, ExtMade
<1> QED BY <1>8, <1>9 DEF Made, ExtMade

(* insert_beside, up to its recolouring, grafts the new leaf next to old and *)
(* enlists it before n.                                                      *)
LEMMA GraftWrites ==
  ASSUME NEW m, NEW t, Shape(m, t, {}), NEW n, NEW old, NEW o, Beside(m, t, n, old, o),
         NEW leaf, NEW new, leaf \notin DOMAIN m, new \notin DOMAIN m, leaf # new,
         NEW key, NEW val, NEW m3, NEW m4, NEW q,
         GraftSteps(m, n, old, o, leaf, new, key, val, m3, m4, q)
  PROVE  /\ Grafted(m, q, t, old, leaf, new, o) /\ Enlisted(m, q, t, leaf, n)
         /\ q[leaf].key = key /\ q[leaf].val = val
         /\ m3[leaf].blink = m[n].blink
<1> DEFINE m1 == mem_alloc(m, leaf)
           m2 == mk_new_ext(mem_alloc(m1, new), leaf, key, val)
           last == m[n].blink
           p == m[old].parent
           top == m[old].root
           l == IF o THEN leaf ELSE old
           r == IF o THEN old ELSE leaf
<1>1. /\ Fine(m, t) /\ IsMem(m) /\ Ring(m, t) /\ t \in DOMAIN m /\ m[t].head = TRUE
      /\ \A k \in Below(m, t) : k \in DOMAIN m /\ k # t /\ m[k].head = FALSE
      /\ old \in Below(m, t) /\ t \notin Outer(m, t)
      /\ \A k \in Outer(m, t) : k \in Below(m, t)
      /\ n \in Outer(m, t) \cup {t} /\ old \in Outer(m, t)
  BY DEF Shape, Fine, Below, Outer, Beside
<1>2. last \in Outer(m, t) \cup {t} /\ last \in DOMAIN m /\ n \in DOMAIN m
  BY <1>1 DEF Ring
<1>3. /\ p \in DOMAIN m /\ p # old /\ top \in BOOLEAN /\ (top <=> p = t)
      /\ m[p].head \in BOOLEAN /\ (m[p].head <=> top)
      /\ ~top => m[old].left \in BOOLEAN /\ p \in Inner(m, t) /\ Kid(m, p, m[old].left) = old
  BY <1>1, ParentOfLeaf
<1>5. Made(m, m2, leaf, new, key, val)
  <2>1. IsMem(m) /\ m2 = mk_new_ext(mem_alloc(mem_alloc(m, leaf), new), leaf, key, val)
    BY <1>1
  <2> HIDE DEF m2
  <2> QED BY <2>1, LeafMade
<1>6. m3 = insert(m2, leaf, n)
  BY DEF m2, m1, GraftSteps
<1> HIDE DEF m2
<1>27. /\ DOMAIN m2 = DOMAIN m \cup {leaf, new} /\ IsMem(m2)
       /\ \A k \in DOMAIN m : m2[k] = m[k]
       /\ leaf \in DOMAIN m2 /\ new \in DOMAIN m2 /\ m2[new].left = Junk
       /\ m2[leaf].key = key /\ m2[leaf].val = val /\ m2[leaf].internal = FALSE
       /\ m2[leaf].red = FALSE /\ m2[leaf].root = FALSE /\ m2[leaf].head = FALSE
  BY <1>5 DEF Made, Unwritten
<1>7. Inserted(m2, m3, leaf, n, last)
  <2>1. /\ leaf \in DOMAIN m2 /\ n \in DOMAIN m2 /\ last \in DOMAIN m2 /\ last = m2[n].blink
        /\ leaf # n /\ leaf # last /\ IsMem(m2)
    BY <1>2, <1>27
  <2> HIDE DEF last
  <2> QED BY <1>6, <2>1, InsertWrites
<1>28. /\ DOMAIN m3 = DOMAIN m \cup {leaf, new} /\ IsMem(m3)
       /\ \A k \in DOMAIN m2 :
           /\ m3[k].red = m2[k].red /\ m3[k].internal = m2[k].internal /\ m3[k].left = m2[k].left
           /\ m3[k].root = m2[k].root /\ m3[k].head = m2[k].head /\ m3[k].parent = m2[k].parent
           /\ m3[k].key = m2[k].key /\ m3[k].val = m2[k].val
           /\ m3[k].flink = IF k = leaf THEN n ELSE IF k = last THEN leaf ELSE m2[k].flink
           /\ m3[k].blink = IF k = leaf THEN last ELSE IF k = n THEN leaf ELSE m2[k].blink
  BY <1>7, <1>27 DEF Inserted
<1>8. /\ DOMAIN m4 = DOMAIN m \cup {leaf, new} /\ IsMem(m4)
      /\ \A k \in DOMAIN m3 :
           /\ m4[k].red = m3[k].red /\ m4[k].internal = m3[k].internal /\ m4[k].left = m3[k].left
           /\ m4[k].root = (IF k = old THEN FALSE ELSE m3[k].root)
           /\ m4[k].head = m3[k].head /\ m4[k].parent = m3[k].parent
           /\ m4[k].key = m3[k].key /\ m4[k].val = m3[k].val
           /\ m4[k].flink = m3[k].flink /\ m4[k].blink = m3[k].blink
  <2>1. old \in DOMAIN m3
    BY <1>1, <1>28
  <2>2. DOMAIN m4 = DOMAIN m3 /\ m4[old] = [m3[old] EXCEPT !.root = FALSE] /\ DOMAIN m3[old] = Fields
        /\ \A k \in DOMAIN m3 : k # old => m4[k] = m3[k]
    BY <1>28, <2>1 DEF IsMem, GraftSteps
  <2>3. /\ DOMAIN m4[old] = Fields /\ m4[old].root = FALSE
        /\ m4[old].red = m3[old].red /\ m4[old].internal = m3[old].internal /\ m4[old].left = m3[old].left
        /\ m4[old].head = m3[old].head /\ m4[old].parent = m3[old].parent
        /\ m4[old].key = m3[old].key /\ m4[old].val = m3[old].val
        /\ m4[old].flink = m3[old].flink /\ m4[old].blink = m3[old].blink
    BY <2>2 DEF Fields
  <2>4. IsMem(m4)
    BY <1>28, <2>2, <2>3 DEF IsMem
  <2> QED BY <1>28, <2>2, <2>3, <2>4
<1>24. m3[leaf].blink = last
  <2>1. leaf \in DOMAIN m2
    BY <1>27
  <2> QED BY <1>28, <2>1
<1>14. ASSUME NEW k \in DOMAIN m
       PROVE  /\ k # leaf /\ k # new /\ k \in DOMAIN m4
              /\ m4[k].red = m[k].red /\ m4[k].internal = m[k].internal /\ m4[k].left = m[k].left
              /\ m4[k].root = (IF k = old THEN FALSE ELSE m[k].root)
              /\ m4[k].head = m[k].head /\ m4[k].parent = m[k].parent
              /\ m4[k].key = m[k].key /\ m4[k].val = m[k].val
              /\ m4[k].flink = IF k = last THEN leaf ELSE m[k].flink
              /\ m4[k].blink = IF k = n THEN leaf ELSE m[k].blink
  <2>1. k # leaf /\ k # new /\ k \in DOMAIN m2 /\ m2[k] = m[k] /\ k \in DOMAIN m3 /\ k \in DOMAIN m4
    BY <1>27, <1>28, <1>8
  <2>2. /\ m3[k].red = m[k].red /\ m3[k].internal = m[k].internal /\ m3[k].left = m[k].left
        /\ m3[k].root = m[k].root /\ m3[k].head = m[k].head /\ m3[k].parent = m[k].parent
        /\ m3[k].key = m[k].key /\ m3[k].val = m[k].val
        /\ m3[k].flink = IF k = last THEN leaf ELSE m[k].flink
        /\ m3[k].blink = IF k = n THEN leaf ELSE m[k].blink
    BY <1>28, <2>1
  <2> QED BY <1>8, <2>1, <2>2
<1>25. /\ m4[leaf].key = key /\ m4[leaf].val = val /\ m4[leaf].internal = FALSE
       /\ m4[leaf].red = FALSE /\ m4[leaf].root = FALSE /\ m4[leaf].head = FALSE
       /\ m4[leaf].flink = n /\ m4[leaf].blink = last /\ leaf # old
  <2>1. leaf # old /\ leaf \in DOMAIN m2 /\ leaf \in DOMAIN m3
    BY <1>1, <1>27, <1>28
  <2>2. /\ m3[leaf].key = key /\ m3[leaf].val = val /\ m3[leaf].internal = FALSE
        /\ m3[leaf].red = FALSE /\ m3[leaf].root = FALSE /\ m3[leaf].head = FALSE
        /\ m3[leaf].flink = n /\ m3[leaf].blink = last
    BY <1>27, <1>28, <2>1
  <2> QED BY <1>8, <2>1, <2>2
<1>26. m4[new].left = Junk
  <2>1. new \in DOMAIN m2 /\ new \in DOMAIN m3 /\ m2[new].left = Junk
    BY <1>27, <1>28
  <2>2. m3[new].left = m2[new].left
    BY <1>28, <2>1
  <2> QED BY <1>8, <2>1, <2>2
<1>9. m4[old].parent = p /\ m4[old].left = m[old].left
  BY <1>1, <1>14
<1>10. q = link_new_int(m4, new, l, r, p, m[old].left)
  BY <1>9 DEF GraftSteps
<1>11. /\ new \in DOMAIN m4 /\ l \in DOMAIN m4 /\ r \in DOMAIN m4 /\ p \in DOMAIN m4
       /\ new # l /\ new # r /\ new # p /\ l # r /\ l # p /\ r # p /\ top = m4[p].head
  <2>1. m4[p].head = m[p].head
    BY <1>3, <1>14
  <2> QED BY <1>1, <1>3, <1>8, <2>1
<1> DEFINE il == m[old].left
<1>29. Linked(m4, q, new, l, r, p, il, top)
  <2>1. top \in BOOLEAN /\ (~top => il \in BOOLEAN)
    BY <1>3 DEF il
  <2>2. IsMem(m4) /\ q = link_new_int(m4, new, l, r, p, il)
    BY <1>8, <1>10
  <2> HIDE DEF l, r, p, top, il
  <2>3. Places(m4, new, l, r, p, il, top)
    BY <1>11, <2>1 DEF Places
  <2> QED BY <2>2, <2>3, LinkWrites
<1>12. /\ DOMAIN q = DOMAIN m4 /\ IsMem(q)
       /\ \A k \in DOMAIN m4 :
            /\ q[k].red = IF k = new THEN TRUE ELSE m4[k].red
            /\ q[k].internal = IF k = new THEN TRUE ELSE m4[k].internal
            /\ q[k].head = IF k = new THEN FALSE ELSE m4[k].head
            /\ q[k].root = IF k = new THEN top ELSE m4[k].root
            /\ q[k].left = IF k = l THEN TRUE ELSE IF k = r THEN FALSE
                           ELSE IF k = new /\ ~top THEN il ELSE m4[k].left
            /\ q[k].parent = IF k = l \/ k = r THEN new ELSE IF k = new THEN p
                             ELSE IF k = p /\ top THEN new ELSE m4[k].parent
            /\ q[k].key = IF k = new THEN l ELSE m4[k].key
            /\ q[k].val = IF k = new THEN r ELSE m4[k].val
            /\ q[k].flink = IF k = new THEN l ELSE IF k = p /\ ~top /\ il THEN new ELSE m4[k].flink
            /\ q[k].blink = IF k = new THEN r ELSE IF k = p /\ ~top /\ ~il THEN new ELSE m4[k].blink
  BY <1>29 DEF Linked
<1>13. (l = leaf /\ r = old /\ o) \/ (l = old /\ r = leaf /\ ~o)
  OBVIOUS
<1> HIDE DEF l, r, p, top, il, last
<1>15. \A k \in DOMAIN m :
       /\ q[k].head = m[k].head /\ q[k].internal = m[k].internal /\ q[k].red = m[k].red
       /\ q[k].key = m[k].key /\ q[k].val = m[k].val
       /\ q[k].root = IF k = old THEN FALSE ELSE m[k].root
  <2> SUFFICES ASSUME NEW k \in DOMAIN m
               PROVE  /\ q[k].head = m[k].head /\ q[k].internal = m[k].internal /\ q[k].red = m[k].red
                      /\ q[k].key = m[k].key /\ q[k].val = m[k].val
                      /\ q[k].root = IF k = old THEN FALSE ELSE m[k].root
    OBVIOUS
  <2>1. k # new /\ k \in DOMAIN m4
    BY <1>14
  <2>2. /\ q[k].head = m4[k].head /\ q[k].internal = m4[k].internal /\ q[k].red = m4[k].red
        /\ q[k].key = m4[k].key /\ q[k].val = m4[k].val /\ q[k].root = m4[k].root
    BY <1>12, <2>1
  <2>3. /\ m4[k].head = m[k].head /\ m4[k].internal = m[k].internal /\ m4[k].red = m[k].red
        /\ m4[k].key = m[k].key /\ m4[k].val = m[k].val
        /\ m4[k].root = IF k = old THEN FALSE ELSE m[k].root
    BY <1>14
  <2> QED BY <2>2, <2>3
<1>16. \A k \in DOMAIN m :
       /\ q[k].left = IF k = old THEN ~o ELSE m[k].left
       /\ q[k].parent = IF k = old THEN new ELSE IF k = t /\ top THEN new ELSE m[k].parent
  <2> SUFFICES ASSUME NEW k \in DOMAIN m
               PROVE  /\ q[k].left = IF k = old THEN ~o ELSE m[k].left
                      /\ q[k].parent = IF k = old THEN new ELSE IF k = t /\ top THEN new ELSE m[k].parent
    OBVIOUS
  <2>1. k # leaf /\ k # new /\ k \in DOMAIN m4 /\ m4[k].left = m[k].left /\ m4[k].parent = m[k].parent
    BY <1>14
  <2>2. /\ q[k].left = IF k = l THEN TRUE ELSE IF k = r THEN FALSE ELSE m[k].left
        /\ q[k].parent = IF k = l \/ k = r THEN new ELSE IF k = p /\ top THEN new ELSE m[k].parent
    BY <1>12, <2>1
  <2> QED BY <1>3, <1>13, <2>1, <2>2
<1>17. ASSUME NEW k \in Inner(m, t), NEW s \in BOOLEAN
       PROVE  Kid(q, k, s) = IF Kid(m, k, s) = old THEN new ELSE Kid(m, k, s)
  <2>1. k \in DOMAIN m /\ k # t /\ k \notin Outer(m, t) /\ k # n /\ k # last /\ k # old
    BY <1>1, <1>2 DEF Inner, Outer, Below
  <2>2. m4[k].flink = m[k].flink /\ m4[k].blink = m[k].blink
    BY <1>14, <2>1
  <2>3. /\ q[k].flink = (IF k = p /\ ~top /\ il THEN new ELSE m[k].flink)
        /\ q[k].blink = (IF k = p /\ ~top /\ ~il THEN new ELSE m[k].blink)
    BY <1>12, <1>14, <2>1, <2>2
  <2>4. Kid(q, k, s) = IF k = p /\ ~top /\ s = il THEN new ELSE Kid(m, k, s)
    BY <1>3, <2>3 DEF Kid, Side, il
  <2>5. Kid(m, k, s) = old => k = p /\ s = il /\ ~top
    BY Kids DEF p, il, top
  <2>6. k = p /\ ~top /\ s = il => Kid(m, k, s) = old
    BY <1>3 DEF il
  <2> QED BY <2>4, <2>5, <2>6
<1>18. /\ q[new].head = FALSE /\ q[new].internal = TRUE /\ q[new].red = TRUE
       /\ q[new].root = top /\ q[new].parent = p
       /\ q[new].left = IF top THEN Junk ELSE il
  BY <1>11, <1>12, <1>26
<1>19. ASSUME NEW s \in BOOLEAN
       PROVE  /\ Kid(q, new, s) = IF s = o THEN leaf ELSE old
              /\ q[new][Split(s)] = IF s = o THEN leaf ELSE old
  <2>1. q[new].key = l /\ q[new].val = r /\ q[new].flink = l /\ q[new].blink = r
    BY <1>11, <1>12
  <2>4. o \in BOOLEAN
    BY DEF Beside
  <2>2. CASE s = TRUE
    <3>1. Kid(q, new, s) = l /\ q[new][Split(s)] = l
      BY <2>1, <2>2 DEF Kid, Side, Split
    <3> QED BY <1>13, <2>2, <2>4, <3>1
  <2>3. CASE s = FALSE
    <3>1. Kid(q, new, s) = r /\ q[new][Split(s)] = r
      BY <2>1, <2>3 DEF Kid, Side, Split
    <3> QED BY <1>13, <2>3, <2>4, <3>1
  <2> QED BY <2>2, <2>3
<1>20. /\ q[leaf].head = FALSE /\ q[leaf].internal = FALSE /\ q[leaf].red = FALSE
       /\ q[leaf].root = FALSE /\ q[leaf].left = o /\ q[leaf].parent = new
       /\ q[leaf].key = key /\ q[leaf].val = val /\ q[leaf].flink = n /\ q[leaf].blink = last
  <2>1. leaf \in DOMAIN m4 /\ leaf # old /\ leaf # p /\ leaf # new
    BY <1>1, <1>3, <1>8
  <2>2. /\ q[leaf].head = FALSE /\ q[leaf].internal = FALSE /\ q[leaf].red = FALSE
        /\ q[leaf].root = FALSE /\ q[leaf].key = key /\ q[leaf].val = val
        /\ q[leaf].flink = n /\ q[leaf].blink = last
    BY <1>12, <1>25, <2>1
  <2>4. /\ q[leaf].left = IF leaf = l THEN TRUE ELSE IF leaf = r THEN FALSE ELSE m4[leaf].left
        /\ q[leaf].parent = IF leaf = l \/ leaf = r THEN new ELSE m4[leaf].parent
    BY <1>12, <2>1
  <2>5. o \in BOOLEAN
    BY DEF Beside
  <2>3. q[leaf].left = o /\ q[leaf].parent = new
    BY <1>13, <2>1, <2>4, <2>5
  <2> QED BY <2>2, <2>3
<1>21. ASSUME NEW k \in Outer(m, t) \cup {t}
       PROVE  /\ q[k].flink = IF k = last THEN leaf ELSE m[k].flink
              /\ q[k].blink = IF k = n THEN leaf ELSE m[k].blink
  <2>1. k \in DOMAIN m /\ (k = p => top)
    BY <1>1, <1>3 DEF Inner, Outer
  <2>2. /\ m4[k].flink = IF k = last THEN leaf ELSE m[k].flink
        /\ m4[k].blink = IF k = n THEN leaf ELSE m[k].blink
    BY <1>14, <2>1
  <2> QED BY <1>12, <1>14, <2>1, <2>2
<1>22. Grafted(m, q, t, old, leaf, new, o)
  <2>1. o \in BOOLEAN /\ DOMAIN q = DOMAIN m \cup {leaf, new} /\ IsMem(q)
    BY <1>8, <1>12 DEF Beside
  <2>2. \A k \in DOMAIN m :
          q[k].parent = IF k = old THEN new ELSE IF k = t /\ m[old].root THEN new ELSE m[k].parent
    BY <1>16 DEF top
  <2>3. /\ q[new].root = m[old].root /\ q[new].parent = m[old].parent
        /\ q[new].left = IF m[old].root THEN Junk ELSE m[old].left
    BY <1>18 DEF top, p, il
  <2>4. old \in Outer(m, t)
    BY <1>1
  <2> QED BY <1>15, <1>16, <1>17, <1>18, <1>19, <1>20, <2>1, <2>2, <2>3, <2>4 DEF Grafted
<1>23. Enlisted(m, q, t, leaf, n)
  BY <1>20, <1>21 DEF Enlisted, last
<1> QED BY <1>20, <1>22, <1>23, <1>24 DEF last

-----------------------------------------------------------------------------
(* The nodes after a graft. *)
LEMMA GraftedSets ==
  ASSUME NEW m, NEW q, NEW t, NEW old, NEW leaf, NEW new, NEW o,
         Grafted(m, q, t, old, leaf, new, o), Fine(m, t)
  PROVE  /\ Below(q, t) = Below(m, t) \cup {leaf, new}
         /\ Inner(q, t) = Inner(m, t) \cup {new}
         /\ Outer(q, t) = Outer(m, t) \cup {leaf}
         /\ leaf # t /\ new # t /\ old # t /\ leaf # old /\ new # old
         /\ old \in Below(m, t) /\ old \in DOMAIN m /\ old \notin Inner(m, t)
         /\ leaf \notin Below(m, t) /\ new \notin Below(m, t)
         /\ leaf # new /\ o \in BOOLEAN
<1>1. t \in DOMAIN m
  BY DEF Fine
<1>2. leaf # t /\ new # t /\ old \in Outer(m, t) /\ leaf # new /\ o \in BOOLEAN
  BY <1>1 DEF Grafted
<1>3. /\ old # t /\ leaf # old /\ new # old /\ old \in Below(m, t) /\ old \in DOMAIN m
      /\ old \notin Inner(m, t) /\ leaf \notin Below(m, t) /\ new \notin Below(m, t)
  BY <1>2 DEF Grafted, Outer, Inner, Below
<1>4. Below(q, t) = Below(m, t) \cup {leaf, new}
  BY <1>2 DEF Grafted, Below
<1>5. q[leaf].internal = FALSE /\ q[new].internal = TRUE /\ \A k \in Below(m, t) : q[k].internal = m[k].internal
  BY DEF Grafted, Below
<1>6. Inner(q, t) = Inner(m, t) \cup {new}
  BY <1>3, <1>4, <1>5 DEF Inner
<1>7. Outer(q, t) = Outer(m, t) \cup {leaf}
  BY <1>3, <1>4, <1>5 DEF Outer
<1> QED BY <1>2, <1>3, <1>4, <1>6, <1>7

(* A graft keeps the fields fine. *)
LEMMA GraftedFine ==
  ASSUME NEW m, NEW q, NEW t, NEW old, NEW leaf, NEW new, NEW o,
         Grafted(m, q, t, old, leaf, new, o), Shape(m, t, {})
  PROVE  Fine(q, t)
<1> USE DEF Shape
<1>1. /\ Below(q, t) = Below(m, t) \cup {leaf, new} /\ old \in Below(m, t) /\ old \in DOMAIN m /\ t # old
  BY GraftedSets
<1>2. IsMem(q) /\ t \in DOMAIN q /\ q[t].head = TRUE
  BY DEF Grafted, Fine
<1>3. ASSUME NEW k \in Below(m, t)
      PROVE  /\ q[k].head = FALSE /\ q[k].internal \in BOOLEAN /\ q[k].red \in BOOLEAN
             /\ q[k].root \in BOOLEAN /\ q[k].left \in BOOLEAN \cup {Junk}
  <2>1. k \in DOMAIN m
    BY DEF Below
  <2>2. /\ m[k].head = FALSE /\ m[k].internal \in BOOLEAN /\ m[k].red \in BOOLEAN
        /\ m[k].root \in BOOLEAN /\ m[k].left \in BOOLEAN \cup {Junk}
    BY DEF Fine
  <2>3. /\ q[k].head = m[k].head /\ q[k].internal = m[k].internal /\ q[k].red = m[k].red
        /\ q[k].root = (IF k = old THEN FALSE ELSE m[k].root) /\ q[k].left = (IF k = old THEN ~o ELSE m[k].left)
        /\ o \in BOOLEAN
    BY <2>1 DEF Grafted
  <2> QED BY <2>2, <2>3
<1>4. /\ q[leaf].head = FALSE /\ q[leaf].internal \in BOOLEAN /\ q[leaf].red \in BOOLEAN
      /\ q[leaf].root \in BOOLEAN /\ q[leaf].left \in BOOLEAN
  BY DEF Grafted
<1>5. /\ q[new].head = FALSE /\ q[new].internal \in BOOLEAN /\ q[new].red \in BOOLEAN
      /\ q[new].root \in BOOLEAN /\ q[new].left \in BOOLEAN \cup {Junk}
  <2>1. /\ m[old].root \in BOOLEAN /\ m[old].left \in BOOLEAN \cup {Junk}
    BY <1>1 DEF Fine
  <2> QED BY <2>1 DEF Grafted
<1> QED BY <1>1, <1>2, <1>3, <1>4, <1>5 DEF Fine

(* After a graft children know their parents. *)
LEMMA GraftedKids ==
  ASSUME NEW m, NEW q, NEW t, NEW old, NEW leaf, NEW new, NEW o,
         Grafted(m, q, t, old, leaf, new, o), Shape(m, t, {})
  PROVE  KidsOK(q, t)
<1> SUFFICES ASSUME NEW k \in Inner(q, t), NEW s \in BOOLEAN, NEW c, c = Kid(q, k, s)
             PROVE  c \in Below(q, t) /\ q[c].parent = k /\ q[c].left = s /\ ~q[c].root
  BY DEF KidsOK
<1>0. Fine(m, t)
  BY DEF Shape
<1>1. /\ Below(q, t) = Below(m, t) \cup {leaf, new} /\ Inner(q, t) = Inner(m, t) \cup {new}
      /\ old \in Below(m, t) /\ old \in DOMAIN m /\ t # old /\ leaf # old /\ o \in BOOLEAN
  BY <1>0, GraftedSets
<1>2. CASE k = new
  <2>1. c = IF s = o THEN leaf ELSE old
    BY <1>2 DEF Grafted
  <2>2. /\ q[leaf].parent = new /\ q[leaf].left = o /\ ~q[leaf].root
        /\ q[old].parent = new /\ q[old].left = ~o /\ ~q[old].root
    BY <1>1 DEF Grafted
  <2>3. CASE s = o
    BY <1>1, <1>2, <2>1, <2>2, <2>3
  <2>4. CASE s # o
    <3>1. s = ~o
      BY <1>1, <2>4
    <3> QED BY <1>1, <1>2, <2>1, <2>2, <2>4, <3>1
  <2> QED BY <2>3, <2>4
<1>3. CASE k \in Inner(m, t)
  <2>1. PICK d : d = Kid(m, k, s)
    OBVIOUS
  <2>2. d \in Below(m, t) /\ m[d].parent = k /\ m[d].left = s /\ ~m[d].root /\ d \in DOMAIN m /\ d # t
    BY <1>3, <2>1 DEF Shape, Links, KidsOK, Below
  <2>3. c = IF d = old THEN new ELSE d
    BY <1>3, <2>1 DEF Grafted
  <2>4. CASE d = old
    <3>1. q[new].root = m[old].root /\ q[new].parent = m[old].parent /\ q[new].left = IF m[old].root THEN Junk ELSE m[old].left
      BY DEF Grafted
    <3> QED BY <1>1, <2>2, <2>3, <2>4, <3>1
  <2>5. CASE d # old
    <3>1. q[d].parent = m[d].parent /\ q[d].left = m[d].left /\ q[d].root = m[d].root
      BY <2>2, <2>5 DEF Grafted
    <3> QED BY <1>1, <2>2, <2>3, <2>5, <3>1
  <2> QED BY <2>4, <2>5
<1> QED BY <1>1, <1>2, <1>3

(* After a graft parents know their children. *)
LEMMA GraftedParents ==
  ASSUME NEW m, NEW q, NEW t, NEW old, NEW leaf, NEW new, NEW o,
         Grafted(m, q, t, old, leaf, new, o), Shape(m, t, {})
  PROVE  ParentsOK(q, t)
<1> SUFFICES ASSUME NEW k \in Below(q, t), ~q[k].root
             PROVE  /\ q[k].parent \in Inner(q, t) /\ q[k].left \in BOOLEAN
                    /\ Kid(q, q[k].parent, q[k].left) = k
  BY DEF ParentsOK
<1>0. Fine(m, t)
  BY DEF Shape
<1>1. /\ Below(q, t) = Below(m, t) \cup {leaf, new} /\ Inner(q, t) = Inner(m, t) \cup {new}
      /\ old \in Below(m, t) /\ old \in DOMAIN m /\ t # old /\ leaf # old /\ o \in BOOLEAN
  BY <1>0, GraftedSets
<1>2. CASE k = new
  <2>1. ~m[old].root /\ q[new].parent = m[old].parent /\ q[new].left = m[old].left
    BY <1>2 DEF Grafted
  <2>2. m[old].parent \in Inner(m, t) /\ m[old].left \in BOOLEAN /\ Kid(m, m[old].parent, m[old].left) = old
    BY <1>1, <2>1 DEF Shape, Links, ParentsOK
  <2>3. Kid(q, m[old].parent, m[old].left) = new
    BY <2>2 DEF Grafted
  <2> QED BY <1>1, <1>2, <2>1, <2>2, <2>3
<1>3. CASE k = leaf
  <2>1. q[leaf].parent = new /\ q[leaf].left = o /\ Kid(q, new, o) = leaf
    BY <1>1 DEF Grafted
  <2> QED BY <1>1, <1>3, <2>1
<1>4. CASE k = old
  <2>1. q[old].parent = new /\ q[old].left = ~o
    BY <1>1 DEF Grafted
  <2>2. Kid(q, new, ~o) = old
    <3>1. (~o) \in BOOLEAN /\ (~o) # o
      BY <1>1
    <3>2. \A s \in BOOLEAN : Kid(q, new, s) = IF s = o THEN leaf ELSE old
      BY DEF Grafted
    <3> QED BY <3>1, <3>2
  <2> QED BY <1>1, <1>4, <2>1, <2>2
<1>5. CASE k \in Below(m, t) /\ k # old
  <2>1. k \in DOMAIN m /\ k # t
    BY <1>5 DEF Below
  <2>2. q[k].root = m[k].root /\ q[k].parent = m[k].parent /\ q[k].left = m[k].left
    BY <1>5, <2>1 DEF Grafted
  <2>3. m[k].parent \in Inner(m, t) /\ m[k].left \in BOOLEAN /\ Kid(m, m[k].parent, m[k].left) = k
    BY <1>5, <2>2 DEF Shape, Links, ParentsOK
  <2>4. Kid(q, m[k].parent, m[k].left) = k
    BY <1>5, <2>3 DEF Grafted
  <2> QED BY <1>1, <2>2, <2>3, <2>4
<1> QED BY <1>1, <1>2, <1>3, <1>4, <1>5

(* After a graft the root is right. *)
LEMMA GraftedRoot ==
  ASSUME NEW m, NEW q, NEW t, NEW old, NEW leaf, NEW new, NEW o,
         Grafted(m, q, t, old, leaf, new, o), Shape(m, t, {})
  PROVE  RootOK(q, t)
<1>0. Fine(m, t)
  BY DEF Shape
<1>1. /\ Below(q, t) = Below(m, t) \cup {leaf, new} /\ Inner(q, t) = Inner(m, t) \cup {new}
      /\ old \in Below(m, t) /\ old \in DOMAIN m /\ t # old /\ leaf # old /\ o \in BOOLEAN
      /\ leaf # t /\ new # t /\ leaf \notin Below(m, t) /\ new \notin Below(m, t)
  BY <1>0, GraftedSets
<1>2. /\ m[t].parent \in DOMAIN m /\ m[t].parent # t /\ m[m[t].parent].parent = t
      /\ \A k \in Below(m, t) : m[k].root <=> k = m[t].parent
      /\ \A k \in Below(m, t) : m[k].root \in BOOLEAN
      /\ t \in DOMAIN m /\ DOMAIN q = DOMAIN m \cup {leaf, new} /\ q[leaf].root = FALSE /\ leaf # new
      /\ \A k \in Below(m, t) : k \in DOMAIN m
  BY <1>1 DEF Shape, Links, RootOK, Fine, Grafted, Below
<1>3. /\ q[new].root = m[old].root /\ q[new].parent = m[old].parent
      /\ q[t].parent = IF m[old].root THEN new ELSE m[t].parent
  BY <1>1, <1>2 DEF Grafted
<1>4. \A k \in Below(m, t) : q[k].root = IF k = old THEN FALSE ELSE m[k].root
  BY <1>2 DEF Grafted
<1>5. CASE m[old].root
  <2>1. old = m[t].parent
    BY <1>1, <1>2, <1>5
  <2>2. q[t].parent = new /\ q[new].parent = t /\ q[new].root
    BY <1>2, <1>3, <1>5, <2>1
  <2>3. ASSUME NEW k \in Below(q, t)
        PROVE  q[k].root <=> k = q[t].parent
    <3>1. CASE k \in Below(m, t)
      BY <1>1, <1>2, <1>4, <2>1, <2>2, <3>1
    <3> QED BY <1>1, <1>2, <2>2, <3>1
  <2> QED BY <1>1, <1>2, <2>2, <2>3 DEF RootOK
<1>6. CASE ~m[old].root
  <2>1. old # m[t].parent /\ q[t].parent = m[t].parent /\ m[t].parent \in Below(m, t)
    BY <1>1, <1>2, <1>3, <1>6 DEF Below
  <2>2. q[m[t].parent].parent = t
    <3>1. q[m[t].parent].parent = m[m[t].parent].parent
      BY <1>2, <2>1 DEF Grafted
    <3> QED BY <1>2, <3>1
  <2>3. ASSUME NEW k \in Below(q, t)
        PROVE  q[k].root <=> k = q[t].parent
    <3>1. CASE k \in Below(m, t)
      BY <1>1, <1>2, <1>4, <2>1, <3>1
    <3>2. CASE k = new
      BY <1>1, <1>3, <1>6, <2>1, <3>2
    <3> QED BY <1>1, <1>2, <2>1, <3>1, <3>2
  <2> QED BY <1>1, <1>2, <2>1, <2>2, <2>3 DEF RootOK
<1>7. m[old].root \in BOOLEAN
  BY <1>1, <1>2
<1> QED BY <1>5, <1>6, <1>7

(* A graft leaves no cycle. *)
LEMMA GraftedRising ==
  ASSUME NEW m, NEW q, NEW t, NEW old, NEW leaf, NEW new, NEW o,
         Grafted(m, q, t, old, leaf, new, o), Shape(m, t, {})
  PROVE  Rising(q, t)
<1>0. Fine(m, t)
  BY DEF Shape
<1>1. /\ Below(q, t) = Below(m, t) \cup {leaf, new} /\ Inner(q, t) = Inner(m, t) \cup {new}
      /\ old \in Below(m, t) /\ leaf # old /\ new # old /\ leaf # new /\ o \in BOOLEAN
      /\ leaf \notin Below(m, t) /\ new \notin Below(m, t) /\ old \notin Inner(m, t)
  BY <1>0, GraftedSets
<1>2. PICK top, rk : Ranked(m, t, top, rk)
  BY DEF Shape, Rising
<1>3. /\ top \in Nat /\ \A k \in Below(m, t) : rk[k] \in 0..top
      /\ \A k \in Inner(m, t), s \in BOOLEAN : rk[Kid(m, k, s)] < rk[k]
  BY <1>2 DEF Ranked
<1> DEFINE g == [k \in Below(q, t) |-> IF k = leaf \/ k = old THEN 0 ELSE IF k = new THEN 1 ELSE 2 * rk[k]]
<1>4. 2 * top + 1 \in Nat
  BY <1>3
<1>5. ASSUME NEW k \in Below(q, t)
      PROVE  g[k] \in 0..(2 * top + 1)
  <2>1. CASE k = leaf \/ k = old \/ k = new
    BY <1>3, <2>1
  <2>2. CASE k # leaf /\ k # old /\ k # new
    <3>1. k \in Below(m, t) /\ g[k] = 2 * rk[k] /\ rk[k] \in 0..top
      BY <1>1, <1>3, <2>2
    <3> QED BY <1>3, <3>1
  <2> QED BY <2>1, <2>2
<1>6. g \in [Below(q, t) -> 0..(2 * top + 1)]
  BY <1>5
<1>7. ASSUME NEW k \in Inner(q, t), NEW s \in BOOLEAN
      PROVE  g[Kid(q, k, s)] < g[k]
  <2>1. CASE k = new
    <3>1. Kid(q, k, s) = leaf \/ Kid(q, k, s) = old
      BY <2>1 DEF Grafted
    <3>2. g[new] = 1 /\ g[leaf] = 0 /\ g[old] = 0
      BY <1>1
    <3> QED BY <2>1, <3>1, <3>2
  <2>2. CASE k \in Inner(m, t)
    <3>1. PICK d : d = Kid(m, k, s)
      OBVIOUS
    <3>2. d \in Below(m, t) /\ k \in Below(m, t) /\ k # old /\ k # new /\ k # leaf
      BY <1>1, <2>2, <3>1 DEF Shape, Links, KidsOK, Inner
    <3>3. rk[d] < rk[k] /\ rk[d] \in 0..top /\ rk[k] \in 0..top /\ g[k] = 2 * rk[k]
      BY <1>1, <1>3, <2>2, <3>1, <3>2
    <3>4. Kid(q, k, s) = IF d = old THEN new ELSE d
      BY <2>2, <3>1 DEF Grafted
    <3>5. CASE d = old
      <4>1. g[new] = 1
        BY <1>1
      <4> QED BY <1>3, <3>3, <3>4, <3>5, <4>1
    <3>6. CASE d # old
      <4>1. g[d] = 2 * rk[d]
        BY <1>1, <3>2, <3>6
      <4> QED BY <1>3, <3>3, <3>4, <3>6, <4>1
    <3> QED BY <3>5, <3>6
  <2> QED BY <1>1, <2>1, <2>2
<1>8. Ranked(q, t, 2 * top + 1, g)
  BY <1>4, <1>6, <1>7 DEF Ranked
<1> QED BY <1>8 DEF Rising

-----------------------------------------------------------------------------
(* After a graft the leaves form a ring. *)
LEMMA GraftedRing ==
  ASSUME NEW m, NEW q, NEW t, NEW old, NEW leaf, NEW new, NEW o, NEW n,
         Grafted(m, q, t, old, leaf, new, o), Enlisted(m, q, t, leaf, n),
         n \in Outer(m, t) \cup {t}, Shape(m, t, {})
  PROVE  Ring(q, t)
<1> DEFINE A == Outer(m, t) \cup {t}
<1>1. Outer(q, t) \cup {t} = A \cup {leaf} /\ leaf \notin A
  <2>0. Fine(m, t)
    BY DEF Shape
  <2> QED BY <2>0, GraftedSets DEF Outer
<1>2. \A k \in A : /\ m[k].flink \in A /\ m[m[k].flink].blink = k
                   /\ m[k].blink \in A /\ m[m[k].blink].flink = k
  BY DEF Shape, Ring
<1>3. PICK last : last = m[n].blink
  OBVIOUS
<1>4. /\ q[leaf].flink = n /\ q[leaf].blink = last
      /\ \A k \in A : /\ q[k].flink = IF k = last THEN leaf ELSE m[k].flink
                      /\ q[k].blink = IF k = n THEN leaf ELSE m[k].blink
  BY <1>3 DEF Enlisted
<1>5. n \in A /\ last \in A /\ m[last].flink = n
  BY <1>2, <1>3
<1> HIDE DEF A
<1>6. ASSUME NEW k \in A
      PROVE  /\ q[k].flink \in A \cup {leaf} /\ q[q[k].flink].blink = k
             /\ q[k].blink \in A \cup {leaf} /\ q[q[k].blink].flink = k
  <2>1. q[k].flink \in A \cup {leaf} /\ q[q[k].flink].blink = k
    <3>1. CASE k = last
      BY <1>4, <3>1
    <3>2. CASE k # last
      <4>1. q[k].flink = m[k].flink /\ m[k].flink \in A /\ m[k].flink # n
        BY <1>2, <1>3, <1>4, <3>2
      <4>2. q[m[k].flink].blink = m[m[k].flink].blink
        BY <1>4, <4>1
      <4> QED BY <1>2, <4>1, <4>2
    <3> QED BY <3>1, <3>2
  <2>2. q[k].blink \in A \cup {leaf} /\ q[q[k].blink].flink = k
    <3>1. CASE k = n
      BY <1>4, <3>1
    <3>2. CASE k # n
      <4>1. q[k].blink = m[k].blink /\ m[k].blink \in A /\ m[k].blink # last
        BY <1>2, <1>4, <1>5, <3>2
      <4>2. q[m[k].blink].flink = m[m[k].blink].flink
        BY <1>4, <4>1
      <4> QED BY <1>2, <4>1, <4>2
    <3> QED BY <3>1, <3>2
  <2> QED BY <2>1, <2>2
<1>7. q[q[leaf].flink].blink = leaf /\ q[q[leaf].blink].flink = leaf
  BY <1>4, <1>5
<1> QED BY <1>1, <1>4, <1>5, <1>6, <1>7 DEF Ring

(* After a graft the leaves are in order, and one separator is to be       *)
(* refreshed: the one on the other side of the new leaf.                   *)
LEMMA GraftedSpread ==
  ASSUME NEW m, NEW q, NEW t, NEW old, NEW leaf, NEW new, NEW o, NEW n,
         Grafted(m, q, t, old, leaf, new, o), Enlisted(m, q, t, leaf, n),
         Beside(m, t, n, old, o), Shape(m, t, {})
  PROVE  Spread(q, t, {<<~o, leaf>>})
<1>0. Fine(m, t)
  BY DEF Shape
<1>1. /\ Below(q, t) = Below(m, t) \cup {leaf, new} /\ Inner(q, t) = Inner(m, t) \cup {new}
      /\ Outer(q, t) = Outer(m, t) \cup {leaf}
      /\ old \in Below(m, t) /\ leaf # old /\ new # old /\ leaf # new /\ o \in BOOLEAN
      /\ leaf # t /\ new # t /\ old # t
      /\ leaf \notin Below(m, t) /\ new \notin Below(m, t) /\ old \notin Inner(m, t)
  BY <1>0, GraftedSets
<1>2. /\ old \in Outer(m, t) /\ \A k \in Inner(m, t) : k \in Below(m, t)
      /\ \A k \in Outer(m, t) : k \in Below(m, t) /\ k \notin Inner(m, t) /\ k # t
      /\ \A k \in Below(m, t) : k \in Outer(m, t) \/ k \in Inner(m, t)
  BY DEF Grafted, Inner, Outer, Below
<1>3. PICK e : Ends(m, t, e) /\ Gaps(m, t, e) /\ Seps(m, t, e, {})
  BY DEF Shape, Spread
<1>4. /\ \A s \in BOOLEAN, k \in Below(m, t) : e[s][k] \in Outer(m, t)
      /\ \A s \in BOOLEAN, k \in Outer(m, t) : e[s][k] = k
      /\ \A s \in BOOLEAN, k \in Inner(m, t) : e[s][k] = e[s][Kid(m, k, s)]
  BY <1>3 DEF Ends
<1>5. \A k \in Inner(m, t), s \in BOOLEAN : Kid(m, k, s) \in Below(m, t)
  BY DEF Shape, Links, KidsOK
<1> DEFINE f == [s \in BOOLEAN |-> [k \in Below(q, t) |->
                   IF k = leaf THEN leaf ELSE IF k = old THEN old
                   ELSE IF k = new THEN (IF s = o THEN leaf ELSE old)
                   ELSE IF s = o /\ e[s][k] = old THEN leaf ELSE e[s][k]]]
<1>6. ASSUME NEW s \in BOOLEAN
      PROVE  /\ f[s][leaf] = leaf /\ f[s][old] = old /\ f[s][new] = IF s = o THEN leaf ELSE old
             /\ \A k \in Below(m, t) : k # old => f[s][k] = IF s = o /\ e[s][k] = old THEN leaf ELSE e[s][k]
  BY <1>1
<1>7. f \in [BOOLEAN -> [Below(q, t) -> Outer(q, t)]]
  <2>1. ASSUME NEW s \in BOOLEAN, NEW k \in Below(q, t)
        PROVE  f[s][k] \in Outer(q, t)
    BY <1>1, <1>2, <1>4, <1>6
  <2>2. f \in [BOOLEAN -> [Below(q, t) -> Outer(q, t)]]
            <=> \A s \in BOOLEAN : \A k \in Below(q, t) : f[s][k] \in Outer(q, t)
    OBVIOUS
  <2> QED BY <2>1, <2>2
<1> HIDE DEF f
(* the ends below the nodes that were there before *)
<1>8. ASSUME NEW k \in Inner(m, t), NEW l \in BOOLEAN, NEW s \in BOOLEAN
      PROVE  f[s][Kid(q, k, l)] = IF s = o /\ e[s][Kid(m, k, l)] = old THEN leaf ELSE e[s][Kid(m, k, l)]
  <2>1. PICK d : d = Kid(m, k, l)
    OBVIOUS
  <2>2. d \in Below(m, t) /\ Kid(q, k, l) = IF d = old THEN new ELSE d
    BY <1>5, <2>1 DEF Grafted
  <2>3. d = old => e[s][d] = old
    BY <1>2, <1>4
  <2> QED BY <1>6, <2>1, <2>2, <2>3
<1>9. Ends(q, t, f)
  <2>1. ASSUME NEW s \in BOOLEAN, NEW k \in Outer(q, t)
        PROVE  f[s][k] = k
    <3>1. CASE k = leaf \/ k = old
      BY <1>6, <3>1
    <3>2. CASE k \in Outer(m, t) /\ k # old
      BY <1>2, <1>4, <1>6, <3>2
    <3> QED BY <1>1, <3>1, <3>2
  <2>2. ASSUME NEW s \in BOOLEAN, NEW k \in Inner(q, t)
        PROVE  f[s][k] = f[s][Kid(q, k, s)]
    <3>1. CASE k = new
      <4>1. Kid(q, new, s) = IF s = o THEN leaf ELSE old
        BY DEF Grafted
      <4> QED BY <1>6, <3>1, <4>1
    <3>2. CASE k \in Inner(m, t)
      <4>1. f[s][k] = IF s = o /\ e[s][k] = old THEN leaf ELSE e[s][k]
        BY <1>1, <1>2, <1>6, <3>2
      <4>2. e[s][k] = e[s][Kid(m, k, s)]
        BY <1>4, <3>2
      <4> QED BY <1>8, <3>2, <4>1, <4>2
    <3> QED BY <1>1, <3>1, <3>2
  <2> QED BY <1>7, <2>1, <2>2 DEF Ends
<1>10. Seps(q, t, f, {<<~o, leaf>>})
  <2> SUFFICES ASSUME NEW k \in Inner(q, t), NEW l \in BOOLEAN
               PROVE  \/ q[k][Split(l)] = f[~l][Kid(q, k, l)]
                      \/ <<l, f[~l][Kid(q, k, l)]>> \in {<<~o, leaf>>}
    BY DEF Seps
  <2>0. (~l) \in BOOLEAN /\ (~l = o => l = ~o)
    BY <1>1
  <2>1. CASE k = new
    <3>1. Kid(q, new, l) = (IF l = o THEN leaf ELSE old) /\ q[new][Split(l)] = (IF l = o THEN leaf ELSE old)
      BY DEF Grafted
    <3> QED BY <1>6, <2>0, <2>1, <3>1
  <2>2. CASE k \in Inner(m, t)
    <3>1. m[k][Split(l)] = e[~l][Kid(m, k, l)]
      BY <1>3, <2>2 DEF Seps
    <3>2. q[k][Split(l)] = m[k][Split(l)]
      <4>1. k \in DOMAIN m
        BY <2>2 DEF Inner, Below
      <4>2. q[k].key = m[k].key /\ q[k].val = m[k].val
        BY <4>1 DEF Grafted
      <4> QED BY <4>2 DEF Split
    <3>3. f[~l][Kid(q, k, l)] = IF (~l) = o /\ e[~l][Kid(m, k, l)] = old THEN leaf ELSE e[~l][Kid(m, k, l)]
      BY <1>8, <2>0, <2>2
    <3>4. CASE (~l) = o /\ e[~l][Kid(m, k, l)] = old
      BY <2>0, <3>3, <3>4
    <3>5. CASE ~((~l) = o /\ e[~l][Kid(m, k, l)] = old)
      BY <3>1, <3>2, <3>3, <3>5
    <3> QED BY <3>4, <3>5
  <2> QED BY <1>1, <2>1, <2>2
<1>11. /\ m[t].flink \in Outer(m, t) \cup {t} /\ m[t].blink \in Outer(m, t) \cup {t}
       /\ \A k \in Outer(m, t) \cup {t} : m[m[k].flink].blink = k /\ m[m[k].blink].flink = k
  BY DEF Shape, Ring
<1>12. \A k \in Outer(m, t) \cup {t} : /\ q[k].flink = IF k = m[n].blink THEN leaf ELSE m[k].flink
                                       /\ q[k].blink = IF k = n THEN leaf ELSE m[k].blink
  BY DEF Enlisted
<1>13. q[leaf].flink = n
  BY DEF Enlisted
<1>14. \/ o = TRUE /\ n = old /\ n # t
       \/ o = FALSE /\ n = t /\ old = m[t].blink
  BY <1>1 DEF Beside
<1>15. ASSUME NEW k \in Inner(q, t)
       PROVE  q[f[FALSE][Kid(q, k, TRUE)]].flink = f[TRUE][Kid(q, k, FALSE)]
  <2>1. CASE k = new
    <3>1. Kid(q, new, TRUE) = (IF TRUE = o THEN leaf ELSE old) /\ Kid(q, new, FALSE) = (IF FALSE = o THEN leaf ELSE old)
      BY DEF Grafted
    <3>2. CASE o = TRUE
      BY <1>6, <1>13, <1>14, <2>1, <3>1, <3>2
    <3>3. CASE o = FALSE
      <4>1. q[old].flink = leaf
        BY <1>2, <1>12, <1>14, <3>3
      <4> QED BY <1>6, <2>1, <3>1, <3>3, <4>1
    <3> QED BY <1>1, <3>2, <3>3
  <2>2. CASE k \in Inner(m, t)
    <3>1. PICK a : a = e[FALSE][Kid(m, k, TRUE)]
      OBVIOUS
    <3>2. PICK b : b = e[TRUE][Kid(m, k, FALSE)]
      OBVIOUS
    <3>3. m[a].flink = b /\ a \in Outer(m, t) /\ b \in Outer(m, t)
      BY <1>3, <1>4, <1>5, <2>2, <3>1, <3>2 DEF Gaps
    <3>4. /\ f[FALSE][Kid(q, k, TRUE)] = IF FALSE = o /\ a = old THEN leaf ELSE a
          /\ f[TRUE][Kid(q, k, FALSE)] = IF TRUE = o /\ b = old THEN leaf ELSE b
      BY <1>8, <2>2, <3>1, <3>2
    <3>5. CASE o = TRUE
      <4>1. a = m[old].blink <=> b = old
        BY <1>2, <1>11, <3>3
      <4>2. q[a].flink = IF b = old THEN leaf ELSE b
        BY <1>12, <1>14, <3>3, <3>5, <4>1
      <4> QED BY <3>4, <3>5, <4>2
    <3>6. CASE o = FALSE
      <4>1. a # old
        BY <1>2, <1>11, <1>14, <3>3, <3>6
      <4>2. q[a].flink = b
        BY <1>12, <1>14, <3>3, <3>6, <4>1
      <4> QED BY <3>4, <3>6, <4>1, <4>2
    <3> QED BY <1>1, <3>5, <3>6
  <2> QED BY <1>1, <2>1, <2>2
<1>16. q[t].flink = f[TRUE][q[t].parent] /\ q[t].blink = f[FALSE][q[t].parent]
  <2>1. PICK root : root = m[t].parent
    OBVIOUS
  <2>2. /\ root \in Below(m, t) /\ m[t].flink = e[TRUE][root] /\ m[t].blink = e[FALSE][root]
        /\ m[old].root <=> old = root
    <3>1. Below(m, t) # {}
      BY <1>1
    <3> QED BY <1>1, <1>3, <2>1, <3>1 DEF Shape, Links, RootOK, Gaps, Below
  <2>3. q[t].parent = IF old = root THEN new ELSE root
    <3>1. t \in DOMAIN m
      BY DEF Shape, Fine
    <3>2. q[t].parent = IF t = old THEN new ELSE IF m[old].root THEN new ELSE m[t].parent
      BY <3>1 DEF Grafted
    <3> QED BY <1>1, <2>1, <2>2, <3>2
  <2>4. ASSUME NEW s \in BOOLEAN
        PROVE  f[s][q[t].parent] = IF s = o /\ e[s][root] = old THEN leaf ELSE e[s][root]
    <3>1. root = old => e[s][root] = old
      BY <1>2, <1>4
    <3> QED BY <1>6, <2>2, <2>3, <3>1
  <2>5. CASE o = TRUE
    <3>1. t = m[old].blink <=> m[t].flink = old
      BY <1>2, <1>11
    <3> QED BY <1>1, <1>12, <1>14, <2>2, <2>4, <2>5, <3>1
  <2>6. CASE o = FALSE
    <3>1. t # m[t].blink
      BY <1>1, <1>14, <2>6
    <3> QED BY <1>1, <1>12, <1>14, <2>2, <2>4, <2>6, <3>1
  <2> QED BY <1>1, <2>5, <2>6
<1>17. Gaps(q, t, f)
  BY <1>15, <1>16 DEF Gaps
<1> QED BY <1>9, <1>10, <1>17 DEF Spread

(* A graft keeps the shape, but for that separator. *)
LEMMA GraftShape ==
  ASSUME NEW m, NEW q, NEW t, NEW old, NEW leaf, NEW new, NEW o, NEW n,
         Grafted(m, q, t, old, leaf, new, o), Enlisted(m, q, t, leaf, n),
         Beside(m, t, n, old, o), Shape(m, t, {})
  PROVE  Shape(q, t, {<<~o, leaf>>})
<1>1. Fine(q, t)
  BY GraftedFine
<1>2. Links(q, t)
  BY GraftedKids, GraftedParents, GraftedRoot DEF Links
<1>3. Rising(q, t)
  BY GraftedRising
<1>4. n \in Outer(m, t) \cup {t}
  BY DEF Beside
<1>5. Ring(q, t)
  BY <1>4, GraftedRing
<1>6. Spread(q, t, {<<~o, leaf>>})
  BY GraftedSpread
<1> QED BY <1>1, <1>2, <1>3, <1>5, <1>6 DEF Shape

-----------------------------------------------------------------------------
(* Two elements are a finite set. *)
LEMMA Pair == \A a, b : IsFiniteSet({a, b})
<1> TAKE a, b
<1>1. IsFiniteSet({a} \cup {b})
  BY FS_Singleton, FS_Union
<1> QED BY <1>1

(* A graft adds a red node, the only one that may have a red parent. *)
LEMMA GraftColoured ==
  ASSUME NEW m, NEW q, NEW t, NEW old, NEW leaf, NEW new, NEW o,
         Grafted(m, q, t, old, leaf, new, o), Sound(m, t, {})
  PROVE  Coloured(q, t, new, t) /\ q[new].red /\ new \in Inner(q, t)
<1>0. Shape(m, t, {}) /\ Fine(m, t) /\ Coloured(m, t, t, t)
  BY DEF Sound, Shape
<1>1. /\ Below(q, t) = Below(m, t) \cup {leaf, new} /\ Inner(q, t) = Inner(m, t) \cup {new}
      /\ Outer(q, t) = Outer(m, t) \cup {leaf}
      /\ old \in Below(m, t) /\ leaf # old /\ new # old /\ leaf # new
      /\ leaf # t /\ new # t /\ old # t
      /\ leaf \notin Below(m, t) /\ new \notin Below(m, t) /\ old \notin Inner(m, t)
  BY <1>0, GraftedSets
<1>2. PICK b : Blacks(m, t, b, t)
  BY <1>0 DEF Coloured
<1>3. /\ b \in [Below(m, t) -> Nat \ {0}] /\ \A k \in Outer(m, t) : ~m[k].red /\ b[k] = 1
  BY <1>2 DEF Blacks
<1>4. /\ old \in Outer(m, t)
      /\ \A k \in Below(m, t) : k \in DOMAIN m /\ q[k].red = m[k].red
      /\ q[leaf].red = FALSE /\ q[new].red = TRUE
      /\ \A s \in BOOLEAN : Kid(q, new, s) = leaf \/ Kid(q, new, s) = old
      /\ \A k \in Inner(m, t), s \in BOOLEAN :
           Kid(q, k, s) = IF Kid(m, k, s) = old THEN new ELSE Kid(m, k, s)
  BY DEF Grafted, Below
<1> DEFINE g == [k \in Below(q, t) |-> IF k = leaf \/ k = new THEN 1 ELSE b[k]]
<1>5. g[leaf] = 1 /\ g[new] = 1 /\ \A k \in Below(m, t) : g[k] = b[k]
  BY <1>1
<1>6. g \in [Below(q, t) -> Nat \ {0}]
  BY <1>1, <1>3
<1> HIDE DEF g
<1>7. \A k \in Outer(m, t) : k \in Below(m, t)
  BY DEF Outer
<1>8. \A k \in Outer(q, t) : ~q[k].red /\ g[k] = 1
  BY <1>1, <1>3, <1>4, <1>5, <1>7
<1>9. ASSUME NEW k \in Inner(q, t), NEW s \in BOOLEAN
      PROVE  /\ Kid(q, k, s) # t /\ g[k] = Own(q, k) + g[Kid(q, k, s)]
             /\ q[k].red /\ q[Kid(q, k, s)].red => Kid(q, k, s) = new
  <2>1. CASE k = new
    <3>1. Kid(q, k, s) = leaf \/ Kid(q, k, s) = old
      BY <1>4, <2>1
    <3>2. g[Kid(q, k, s)] = 1 /\ ~q[Kid(q, k, s)].red /\ Kid(q, k, s) # t
      BY <1>1, <1>8, <1>4, <3>1
    <3>3. Own(q, k) = 0 /\ g[k] = 1
      BY <1>4, <1>5, <2>1 DEF Own
    <3> QED BY <3>2, <3>3
  <2>2. CASE k \in Inner(m, t)
    <3>1. PICK d : d = Kid(m, k, s)
      OBVIOUS
    <3>2. d \in Below(m, t) /\ d # t /\ k \in Below(m, t) /\ m[d].parent = k
      BY <1>0, <2>2, <3>1, Kids
    <3>3. b[k] = Own(m, k) + b[d]
      BY <1>0, <1>2, <2>2, <3>1, <3>2, Counted
    <3>4. Own(q, k) = Own(m, k) /\ g[k] = b[k]
      BY <1>4, <1>5, <3>2 DEF Own
    <3>5. Kid(q, k, s) = IF d = old THEN new ELSE d
      BY <1>4, <2>2, <3>1
    <3>6. CASE d = old
      <4>1. b[old] = 1
        BY <1>3, <1>4
      <4> QED BY <1>1, <1>5, <3>3, <3>4, <3>5, <3>6, <4>1
    <3>7. CASE d # old
      <4>1. Kid(q, k, s) = d /\ g[d] = b[d] /\ q[d].red = m[d].red /\ q[k].red = m[k].red
        BY <1>4, <1>5, <3>2, <3>5, <3>7
      <4>2. ~(m[k].red /\ m[d].red)
        BY <1>0, <2>2, <3>1, <3>2 DEF Coloured, Apart
      <4> QED BY <3>2, <3>3, <3>4, <4>1, <4>2
    <3> QED BY <3>6, <3>7
  <2> QED BY <1>1, <2>1, <2>2
<1>10. ASSUME NEW k \in Inner(q, t), NEW s \in BOOLEAN
       PROVE  g[k] = Own(q, k) + g[Kid(q, k, s)] + IF Kid(q, k, s) = t THEN 1 ELSE 0
  <2>1. k \in Below(q, t) /\ g[k] \in Nat
    BY <1>6 DEF Inner
  <2>2. Kid(q, k, s) # t /\ g[k] = Own(q, k) + g[Kid(q, k, s)]
    BY <1>9
  <2>3. g[k] = g[k] + 0
    BY <2>1
  <2> QED BY <2>2, <2>3
<1>11. Blacks(q, t, g, t)
  BY <1>6, <1>8, <1>10 DEF Blacks
<1>12. Apart(q, t, new)
  BY <1>9 DEF Apart
<1> QED BY <1>1, <1>4, <1>11, <1>12 DEF Coloured

(* What an insertion leaves: a sound tree with one leaf more. *)
Planted(m, r, t, leaf, new, n, key, val) ==
  /\ DOMAIN r = DOMAIN m \cup {leaf, new} /\ Sound(r, t, {})
  /\ Outer(r, t) = Outer(m, t) \cup {leaf}
  /\ r[leaf].key = key /\ r[leaf].val = val
  /\ \A k \in Outer(m, t) \cup {t} : r[k].key = m[k].key /\ r[k].val = m[k].val
  /\ Enlisted(m, r, t, leaf, n)

(* The recolouring and the update of the split next to the new leaf. *)
LEMMA GraftedThenSound ==
  ASSUME NEW m, NEW q, NEW t, NEW old, NEW leaf, NEW new, NEW o, NEW n,
         Grafted(m, q, t, old, leaf, new, o), Enlisted(m, q, t, leaf, n),
         Beside(m, t, n, old, o), Sound(m, t, {}), IsFiniteSet(DOMAIN m),
         NEW c, c = recolor(q, new),
         NEW l \in BOOLEAN, l = ~o, NEW r, r = Refreshed(c, l, climb(c, l)[leaf], leaf)
  PROVE  Planted(m, r, t, leaf, new, n, q[leaf].key, q[leaf].val)
<1>0. Shape(m, t, {}) /\ Fine(m, t)
  BY DEF Sound, Shape
<1>1. Shape(q, t, {<<~o, leaf>>})
  BY <1>0, GraftShape
<1>2. Coloured(q, t, new, t) /\ q[new].red /\ new \in Inner(q, t)
  BY GraftColoured
<1>3. DOMAIN q = DOMAIN m \cup {leaf, new} /\ Outer(q, t) = Outer(m, t) \cup {leaf} /\ t \in DOMAIN q
  <2>1. Outer(q, t) = Outer(m, t) \cup {leaf}
    BY <1>0, GraftedSets
  <2> QED BY <1>0, <2>1 DEF Grafted, Fine
<1>4. IsFiniteSet(DOMAIN q)
  <2>1. IsFiniteSet({leaf, new})
    BY Pair
  <2>2. IsFiniteSet(DOMAIN m \cup {leaf, new})
    BY <2>1, FS_Union
  <2> QED BY <1>3, <2>2
<1>5. Sound(c, t, {<<~o, leaf>>}) /\ Same(q, c, t)
  BY <1>1, <1>2, <1>4, Recolor
<1>6. /\ Outer(c, t) = Outer(q, t) /\ DOMAIN c = DOMAIN q
      /\ \A k \in Outer(q, t) : k \in DOMAIN q
      /\ \A k \in DOMAIN q : c[k].key = q[k].key /\ c[k].val = q[k].val
      /\ \A k \in Outer(q, t) \cup {t} : c[k].flink = q[k].flink /\ c[k].blink = q[k].blink
  BY <1>5 DEF Same, Outer, Below
<1>7. leaf \in Outer(c, t) /\ leaf \in Below(c, t)
  BY <1>3, <1>6 DEF Outer
<1>8. Shape(c, t, {<<l, leaf>>})
  BY <1>5 DEF Sound
<1>9. \A e : Ends(c, t, e) => e[~l][leaf] = leaf
  BY <1>7 DEF Ends
<1>10. /\ Shape(r, t, {<<l, leaf>>} \ {<<l, leaf>>}) /\ Alike(c, r)
       /\ \A k \in DOMAIN c : r[k].red = c[k].red
       /\ \A k \in Outer(c, t) \cup {t} : r[k].key = c[k].key /\ r[k].val = c[k].val
  <2>1. Resplit(c, r, t, {<<l, leaf>>} \ {<<l, leaf>>})
    BY <1>7, <1>8, <1>9, RefreshSplit
  <2> QED BY <2>1 DEF Resplit
<1>11. {<<l, leaf>>} \ {<<l, leaf>>} = {}
  OBVIOUS
<1>12. Shape(r, t, {})
  BY <1>10, <1>11
<1>13. Coloured(c, t, t, t)
  BY <1>5 DEF Sound
<1>14. Coloured(r, t, t, t)
  BY <1>8, <1>10, <1>13, AlikeColoured
<1>15. Outer(r, t) = Outer(c, t) /\ DOMAIN r = DOMAIN c
  <2>1. Outer(r, t) = Outer(c, t)
    BY <1>10, AlikeSets
  <2> QED BY <1>10, <2>1 DEF Alike
<1>16. \A k \in Outer(q, t) \cup {t} : k \in DOMAIN q /\ r[k].flink = q[k].flink /\ r[k].blink = q[k].blink
  BY <1>3, <1>6, <1>10 DEF Alike
<1>17. Enlisted(m, r, t, leaf, n)
  <2>1. \A k \in Outer(m, t) \cup {t, leaf} : r[k].flink = q[k].flink /\ r[k].blink = q[k].blink
    BY <1>3, <1>16
  <2> QED BY <2>1 DEF Enlisted
<1>18. \A k \in Outer(m, t) \cup {t} : r[k].key = m[k].key /\ r[k].val = m[k].val
  <2>1. \A k \in Outer(m, t) \cup {t} : k \in DOMAIN m /\ k \in Outer(c, t) \cup {t}
    BY <1>0, <1>3, <1>6 DEF Outer, Below, Fine
  <2>2. \A k \in DOMAIN m : q[k].key = m[k].key /\ q[k].val = m[k].val /\ k \in DOMAIN q
    BY <1>3 DEF Grafted
  <2> QED BY <1>6, <1>10, <2>1, <2>2
<1>19. r[leaf].key = q[leaf].key /\ r[leaf].val = q[leaf].val
  BY <1>3, <1>6, <1>7, <1>10
<1> QED BY <1>3, <1>6, <1>12, <1>14, <1>15, <1>17, <1>18, <1>19 DEF Planted, Sound

(* insert_beside plants the new leaf in a sound tree. *)
LEMMA InsertBeside ==
  ASSUME NEW m, NEW t, Sound(m, t, {}), IsFiniteSet(DOMAIN m),
         NEW n \in Outer(m, t) \cup {t}, Below(m, t) # {},
         NEW leaf, NEW new, leaf \notin DOMAIN m, new \notin DOMAIN m, leaf # new,
         new = FreshAddr(mem_alloc(m, leaf)), NEW key, NEW val
  PROVE  Planted(m, insert_beside(m, n, leaf, key, val), t, leaf, new, n, key, val)
<1>0. Shape(m, t, {}) /\ Fine(m, t) /\ Ring(m, t)
  BY DEF Sound, Shape
<1>1. PICK o \in BOOLEAN : o = (n # t)
  OBVIOUS
<1>2. PICK old : old = IF o THEN n ELSE m[t].blink
  OBVIOUS
<1>3. m[t].blink \in Outer(m, t)
  <2>1. PICK e : Ends(m, t, e) /\ Gaps(m, t, e)
    BY <1>0 DEF Shape, Spread
  <2>2. m[t].blink = e[FALSE][m[t].parent]
    BY <2>1 DEF Gaps
  <2>3. m[t].parent \in Below(m, t)
    BY <1>0 DEF Shape, Links, RootOK, Below
  <2> QED BY <2>1, <2>2, <2>3 DEF Ends
<1>4. Beside(m, t, n, old, o)
  BY <1>1, <1>2, <1>3 DEF Beside
<1>5. PICK m3 : m3 = insert(mk_new_ext(mem_alloc(mem_alloc(m, leaf), new), leaf, key, val), leaf, n)
  OBVIOUS
<1>6. PICK m4 : m4 = [m3 EXCEPT ![old].root = FALSE]
  OBVIOUS
<1>7. PICK q : q = IF o THEN link_new_int(m4, new, leaf, old, m4[old].parent, m4[old].left)
                        ELSE link_new_int(m4, new, old, leaf, m4[old].parent, m4[old].left)
  OBVIOUS
<1>8. GraftSteps(m, n, old, o, leaf, new, key, val, m3, m4, q)
  BY <1>5, <1>6, <1>7 DEF GraftSteps
<1>9. /\ Grafted(m, q, t, old, leaf, new, o) /\ Enlisted(m, q, t, leaf, n)
      /\ q[leaf].key = key /\ q[leaf].val = val /\ m3[leaf].blink = m[n].blink
  BY <1>0, <1>4, <1>8, GraftWrites
<1>10. PICK c : c = recolor(q, new)
  OBVIOUS
<1>11. PICK l \in BOOLEAN : l = ~o
  OBVIOUS
<1>12. PICK r : r = Refreshed(c, l, climb(c, l)[leaf], leaf)
  OBVIOUS
<1>13. Planted(m, r, t, leaf, new, n, key, val)
  BY <1>4, <1>9, <1>10, <1>11, <1>12, GraftedThenSound
(* insert_beside goes through these memories *)
<1>14. ishead(m, n) <=> ~o
  BY <1>0, <1>1 DEF ishead, Fine, Outer, Below
<1>15. (IF ishead(m, n) THEN m3[leaf].blink ELSE n) = old
  BY <1>1, <1>2, <1>9, <1>14
<1>16. ~ishead(c, leaf)
  <2>1. /\ Shape(q, t, {<<~o, leaf>>}) /\ Coloured(q, t, new, t) /\ q[new].red /\ new \in Inner(q, t)
    BY <1>0, <1>4, <1>9, GraftShape, GraftColoured
  <2>2. DOMAIN q = DOMAIN m \cup {leaf, new} /\ q[leaf].head = FALSE
    BY <1>9 DEF Grafted
  <2>3. IsFiniteSet(DOMAIN q)
    <3>1. IsFiniteSet({leaf, new})
      BY Pair
    <3> QED BY <2>2, <3>1, FS_Union
  <2>4. Same(q, c, t)
    BY <1>10, <2>1, <2>3, Recolor
  <2> QED BY <2>2, <2>4 DEF Same, ishead
<1>17. insert_beside(m, n, leaf, key, val) = r
  <2>1. CASE o
    <3>1. ~ishead(m, n) /\ old = n /\ l = FALSE
      BY <1>2, <1>11, <1>14, <2>1
    <3>2. q = link_new_int(m4, new, leaf, old, m4[old].parent, m4[old].left)
      BY <1>7, <2>1
    <3>3. c = mk_new_int(m4, new, leaf, old, m4[old].parent, m4[old].left)
      BY <1>10, <3>2 DEF mk_new_int
    <3>4. r = setrext(c, lprev(c, leaf), leaf)
      BY <1>12, <1>16, <3>1 DEF Refreshed, lprev
    <3> HIDE <1>7, <1>10, <1>12
    <3>5. insert_beside(m, n, leaf, key, val) =
            LET m5 == mk_new_int(m4, new, leaf, old, m4[old].parent, m4[old].left)
            IN setrext(m5, lprev(m5, leaf), leaf)
      BY <1>5, <1>6, <3>1 DEF insert_beside
    <3> QED BY <3>3, <3>4, <3>5
  <2>2. CASE ~o
    <3>1. ishead(m, n) /\ old = m3[leaf].blink /\ l = TRUE
      BY <1>2, <1>11, <1>14, <1>15, <2>2
    <3>2. q = link_new_int(m4, new, old, leaf, m4[old].parent, m4[old].left)
      BY <1>7, <2>2
    <3>3. c = mk_new_int(m4, new, old, leaf, m4[old].parent, m4[old].left)
      BY <1>10, <3>2 DEF mk_new_int
    <3>4. r = setlext(c, rprev(c, leaf), leaf)
      BY <1>12, <1>16, <3>1 DEF Refreshed, rprev
    <3>5. insert_beside(m, n, leaf, key, val) =
            LET m5 == mk_new_int(m4, new, old, leaf, m4[old].parent, m4[old].left)
            IN setlext(m5, rprev(m5, leaf), leaf)
      BY <1>5, <1>6, <3>1 DEF insert_beside
    <3> QED BY <3>3, <3>4, <3>5
  <2> QED BY <2>1, <2>2
<1> QED BY <1>13, <1>17

-----------------------------------------------------------------------------
(* FreshAddr is a free address when there is one. *)
LEMMA FreshIsFree ==
  ASSUME NEW m, Addr \subseteq Nat, Addr \ DOMAIN m # {}
  PROVE  FreshAddr(m) \in Addr \ DOMAIN m
<1>1. \E a \in Addr \ DOMAIN m : \A b \in Addr \ DOMAIN m : a <= b
  BY LeastElement
<1> QED BY <1>1 DEF FreshAddr

(* The head alone. *)
Bare(m, t) ==
  /\ IsMem(m) /\ DOMAIN m = {t} /\ m[t].head = TRUE
  /\ m[t].flink = t /\ m[t].blink = t /\ m[t].parent = t

(* The head alone is a sound tree without leaves. *)
LEMMA BareSound ==
  ASSUME NEW m, NEW t, Bare(m, t)
  PROVE  Sound(m, t, {}) /\ Outer(m, t) = {}
<1>1. Below(m, t) = {} /\ Inner(m, t) = {} /\ Outer(m, t) = {}
  BY DEF Bare, Below, Inner, Outer
<1>2. Fine(m, t) /\ Links(m, t) /\ Ring(m, t)
  BY <1>1 DEF Bare, Fine, Links, KidsOK, ParentsOK, RootOK, Ring
<1>3. Ranked(m, t, 0, [k \in {} |-> 0])
  BY <1>1 DEF Ranked
<1>4. Rising(m, t)
  BY <1>3 DEF Rising
<1>5. Spread(m, t, {})
  <2> DEFINE e == [l \in BOOLEAN |-> [k \in {} |-> t]]
  <2>1. e \in [BOOLEAN -> [{} -> {}]]
    OBVIOUS
  <2> HIDE DEF e
  <2>2. Ends(m, t, e) /\ Gaps(m, t, e) /\ Seps(m, t, e, {})
    BY <1>1, <2>1 DEF Ends, Gaps, Seps
  <2> QED BY <2>2 DEF Spread
<1>6. Coloured(m, t, t, t)
  <2>1. Blacks(m, t, [k \in {} |-> 1], t)
    BY <1>1 DEF Blacks
  <2> QED BY <1>1, <2>1 DEF Coloured, Apart
<1> QED BY <1>1, <1>2, <1>4, <1>5, <1>6 DEF Sound, Shape

(* One leaf below the head. *)
Single(r, t, leaf) ==
  /\ IsMem(r) /\ DOMAIN r = {t, leaf} /\ t # leaf /\ r[t].head = TRUE
  /\ r[t].flink = leaf /\ r[t].blink = leaf /\ r[t].parent = leaf
  /\ r[leaf].flink = t /\ r[leaf].blink = t /\ r[leaf].parent = t
  /\ r[leaf].head = FALSE /\ r[leaf].root = TRUE /\ r[leaf].internal = FALSE /\ r[leaf].red = FALSE
  /\ r[leaf].left \in BOOLEAN \cup {Junk}

(* A root that is a leaf is a sound tree. *)
LEMMA SingleSound ==
  ASSUME NEW m, NEW t, NEW leaf, Single(m, t, leaf)
  PROVE  Sound(m, t, {}) /\ Outer(m, t) = {leaf}
<1>1. Below(m, t) = {leaf} /\ Inner(m, t) = {} /\ Outer(m, t) = {leaf}
  BY DEF Single, Below, Inner, Outer
<1>2. Fine(m, t)
  BY <1>1 DEF Single, Fine
<1>7. Links(m, t)
  BY <1>1 DEF Single, Links, KidsOK, ParentsOK, RootOK
<1>8. Ring(m, t)
  BY <1>1 DEF Single, Ring
<1>4. Rising(m, t)
  <2> DEFINE g == [k \in {leaf} |-> 0]
  <2>1. g \in [{leaf} -> 0..0]
    OBVIOUS
  <2>2. Ranked(m, t, 0, g)
    BY <1>1, <2>1 DEF Ranked
  <2> QED BY <2>2 DEF Rising
<1>5. Spread(m, t, {})
  <2> DEFINE e == [l \in BOOLEAN |-> [k \in {leaf} |-> leaf]]
  <2>1. e \in [BOOLEAN -> [{leaf} -> {leaf}]] /\ \A l \in BOOLEAN : e[l][leaf] = leaf
    OBVIOUS
  <2> HIDE DEF e
  <2>2. Ends(m, t, e)
    BY <1>1, <2>1 DEF Ends
  <2>3. Gaps(m, t, e) /\ Seps(m, t, e, {})
    BY <1>1, <2>1 DEF Gaps, Seps, Single
  <2> QED BY <2>2, <2>3 DEF Spread
<1>6. Coloured(m, t, t, t)
  <2> DEFINE g == [k \in {leaf} |-> 1]
  <2>1. g \in [{leaf} -> Nat \ {0}] /\ g[leaf] = 1
    OBVIOUS
  <2> HIDE DEF g
  <2>2. Blacks(m, t, g, t)
    BY <1>1, <2>1 DEF Blacks, Single
  <2> QED BY <1>1, <2>2 DEF Coloured, Apart
<1> QED BY <1>1, <1>2, <1>4, <1>5, <1>6, <1>7, <1>8 DEF Sound, Shape

(* The first leaf of a tree. *)
LEMMA InsertFirst ==
  ASSUME NEW m, NEW t, Sound(m, t, {}), m[t].parent = t,
         NEW leaf, leaf \notin DOMAIN m, NEW key, NEW val,
         NEW r, r = insert_first(m, t, leaf, key, val)
  PROVE  /\ DOMAIN m = {t} /\ Single(r, t, leaf)
         /\ r[leaf].key = key /\ r[leaf].val = val /\ r[t].key = m[t].key
<1>1. /\ IsMem(m) /\ t \in DOMAIN m /\ m[t].head = TRUE /\ Below(m, t) = {} /\ Ring(m, t)
  BY DEF Sound, Shape, Links, RootOK, Fine
<1>2. DOMAIN m = {t} /\ t # leaf
  BY <1>1 DEF Below
<1>3. m[t].flink = t /\ m[t].blink = t
  BY <1>1 DEF Ring, Outer
<1>4. PICK a : a = mem_alloc(m, leaf)
  OBVIOUS
<1>5. More(m, a, leaf)
  BY <1>1, <1>4, Allocated
<1>6. PICK b : b = mk_new_ext(a, leaf, key, val)
  OBVIOUS
<1>7. IsMem(a) /\ leaf \in DOMAIN a /\ a[leaf] = Unwritten /\ DOMAIN a = {t, leaf} /\ a[t] = m[t]
  BY <1>2, <1>5 DEF More
<1>8. ExtMade(a, b, leaf, key, val)
  BY <1>6, <1>7, NewExt
<1>9. /\ DOMAIN b = {t, leaf} /\ IsMem(b) /\ b[t] = m[t] /\ b[leaf].key = key /\ b[leaf].val = val
      /\ b[leaf].internal = FALSE /\ b[leaf].red = FALSE /\ b[leaf].root = FALSE /\ b[leaf].head = FALSE
      /\ b[leaf].left = Junk
  <2>1. b[leaf].left = Junk
    <3>1. b = [a EXCEPT ![leaf] = [Unwritten EXCEPT !.key = key, !.val = val, !.internal = FALSE,
                                     !.red = FALSE, !.root = FALSE, !.head = FALSE]]
      BY <1>6, <1>7 DEF mk_new_ext
    <3> QED BY <1>7, <3>1 DEF Unwritten
  <2> QED BY <1>2, <1>7, <1>8, <2>1 DEF ExtMade
<1>10. PICK c : c = insert(b, leaf, t)
  OBVIOUS
<1>11. leaf \in DOMAIN b /\ t \in DOMAIN b /\ b[t].blink = t /\ leaf # t /\ IsMem(b)
  BY <1>2, <1>3, <1>9
<1>12. Inserted(b, c, leaf, t, t)
  BY <1>10, <1>11, InsertWrites
<1>13. /\ DOMAIN c = {t, leaf} /\ IsMem(c) /\ c[t].flink = leaf /\ c[t].blink = leaf
       /\ c[leaf].flink = t /\ c[leaf].blink = t
       /\ c[t].head = TRUE /\ c[leaf].head = FALSE /\ c[leaf].internal = FALSE /\ c[leaf].red = FALSE
       /\ c[leaf].left = Junk /\ c[leaf].key = key /\ c[leaf].val = val /\ c[t].key = m[t].key
  BY <1>1, <1>9, <1>11, <1>12 DEF Inserted
<1>14. r = [c EXCEPT ![t].parent = leaf, ![leaf].parent = t, ![leaf].root = TRUE]
  BY <1>4, <1>6, <1>10 DEF insert_first
<1> DEFINE ct == [c[t] EXCEPT !.parent = leaf]
           cl == [c[leaf] EXCEPT !.parent = t, !.root = TRUE]
<1>15. r = [c EXCEPT ![t] = ct, ![leaf] = cl]
  BY <1>2, <1>14
<1>16. DOMAIN c[t] = Fields /\ DOMAIN c[leaf] = Fields
  BY <1>13 DEF IsMem
<1>17. /\ DOMAIN ct = Fields /\ ct.head = TRUE /\ ct.flink = leaf /\ ct.blink = leaf /\ ct.parent = leaf
       /\ ct.key = m[t].key
  BY <1>13, <1>16 DEF Fields
<1>18. /\ DOMAIN cl = Fields /\ cl.head = FALSE /\ cl.flink = t /\ cl.blink = t /\ cl.parent = t
       /\ cl.root = TRUE /\ cl.internal = FALSE /\ cl.red = FALSE /\ cl.left = Junk
       /\ cl.key = key /\ cl.val = val
  BY <1>13, <1>16 DEF Fields
<1> HIDE DEF ct, cl
<1>19. DOMAIN r = {t, leaf} /\ r[t] = ct /\ r[leaf] = cl
  BY <1>2, <1>13, <1>15
<1>20. IsMem(r)
  BY <1>17, <1>18, <1>19 DEF IsMem
<1> QED BY <1>2, <1>17, <1>18, <1>19, <1>20 DEF Single

-----------------------------------------------------------------------------
(* descend goes down by the comparison with the key before each split. *)
DescendsBy(m, t, key, d) ==
  \A x \in Below(m, t) :
    LET cmp == Compare(key, m[m[x].key].key)
    IN d[x] = IF ~m[x].internal THEN [node |-> x, found |-> FALSE]
              ELSE IF cmp = 0 THEN [node |-> m[x].key, found |-> TRUE]
              ELSE d[m[x][Side(cmp < 0)]]

(* The separator before a split is a leaf. *)
LEMMA SplitKey ==
  ASSUME NEW m, NEW t, KidsOK(m, t), NEW e, Ends(m, t, e), Seps(m, t, e, {}), NEW x \in Inner(m, t)
  PROVE  m[x].key = e[FALSE][Kid(m, x, TRUE)] /\ m[x].key \in Outer(m, t)
<1>1. m[x][Split(TRUE)] = e[~TRUE][Kid(m, x, TRUE)]
  BY DEF Seps
<1>2. m[x].key = e[FALSE][Kid(m, x, TRUE)] /\ Kid(m, x, TRUE) \in Below(m, t)
  BY <1>1, Sides DEF KidsOK
<1> QED BY <1>2 DEF Ends

(* The recursion of rbtree_find_greater is what its definition says. *)
LEMMA DescendIs ==
  ASSUME NEW m, NEW t, Shape(m, t, {}), NEW key
  PROVE  DescendsBy(m, t, key, descend(m, key))
<1>1. Fine(m, t) /\ Links(m, t) /\ Rising(m, t) /\ KidsOK(m, t)
  BY DEF Shape, Links
<1>2. PICK top, rk : Ranked(m, t, top, rk)
  BY <1>1 DEF Rising
<1>3. top \in Nat /\ rk \in [Below(m, t) -> 0..top]
  BY <1>2 DEF Ranked
<1> DEFINE S == Below(m, t)
           cmp(x) == Compare(key, m[m[x].key].key)
           Leaf(x) == [node |-> x, found |-> FALSE]
           Hit(x) == [node |-> m[x].key, found |-> TRUE]
           Stop == {x \in S : ~m[x].internal \/ cmp(x) = 0}
           N == [x \in S |-> m[x][Side(cmp(x) < 0)]]
           B == [x \in Stop |-> IF ~m[x].internal THEN Leaf(x) ELSE Hit(x)]
           V == [node : Outer(m, t), found : BOOLEAN]
           H == [z \in S \X V |-> z[2]]
<1>4. PICK e : Ends(m, t, e) /\ Seps(m, t, e, {})
  BY DEF Shape, Spread
<1>5. \A x \in S : ~m[x].internal => x \in Outer(m, t)
  BY DEF Outer
<1>6. \A x \in Inner(m, t) : m[x].key \in Outer(m, t)
  BY <1>1, <1>4, SplitKey
<1>7. \A x \in S : m[x].internal \in BOOLEAN /\ (m[x].internal => x \in Inner(m, t))
  BY <1>1 DEF Fine, Inner
<1>8. B \in [Stop -> V]
  BY <1>5, <1>6, <1>7
<1>9. H \in [S \X V -> V] /\ \A x \in S, v \in V : H[<<x, v>>] = v
  OBVIOUS
<1>10. ASSUME NEW x \in S \ Stop PROVE N[x] \in S /\ rk[N[x]] < rk[x]
  <2>1. x \in Inner(m, t)
    BY <1>7
  <2>2. PICK l \in BOOLEAN : Side(cmp(x) < 0) = Side(l)
    BY DEF Side
  <2>3. N[x] = Kid(m, x, l)
    BY <2>2 DEF Kid
  <2> QED BY <1>1, <1>2, <2>1, <2>3 DEF KidsOK, Ranked
<1>11. \A x \in Stop : B[x] = IF ~m[x].internal THEN Leaf(x) ELSE Hit(x)
  OBVIOUS
<1>12. \A x \in S : N[x] = m[x][Side(cmp(x) < 0)]
  OBVIOUS
<1>13. \A x \in S : x \in Stop <=> ~m[x].internal \/ cmp(x) = 0
  OBVIOUS
<1>14. \A v \in V : v.node \in Outer(m, t)
  OBVIOUS
<1> HIDE DEF Stop, N, B, V, H
<1>15. PICK f \in [S -> V] : Follows(f, S, Stop, N, B, H)
  BY <1>3, <1>8, <1>9, <1>10, FollowsExists
<1>16. ASSUME NEW x \in S
       PROVE  f[x] = IF ~m[x].internal THEN Leaf(x) ELSE IF cmp(x) = 0 THEN Hit(x)
                     ELSE f[m[x][Side(cmp(x) < 0)]]
  <2>1. f[x] = IF x \in Stop THEN B[x] ELSE H[<<x, f[N[x]]>>]
    BY <1>15 DEF Follows
  <2>2. x \notin Stop => H[<<x, f[N[x]]>>] = f[N[x]]
    BY <1>9, <1>10
  <2> HIDE DEF Leaf, Hit, cmp
  <2> QED BY <2>1, <2>2, <1>11, <1>12, <1>13
<1>17. f = [x \in S |-> f[x]]
  OBVIOUS
<1>18. f = [x \in S |-> IF ~m[x].internal THEN Leaf(x) ELSE IF cmp(x) = 0 THEN Hit(x)
                        ELSE f[m[x][Side(cmp(x) < 0)]]]
  BY <1>16, <1>17
<1>19. nodes(m) = S
  BY <1>1, NodesBelow
<1> DEFINE Fits(h) == h = [x \in S |-> IF ~m[x].internal THEN Leaf(x) ELSE IF cmp(x) = 0 THEN Hit(x)
                                       ELSE h[m[x][Side(cmp(x) < 0)]]]
<1>20. Fits(f)
  BY <1>18
<1>21. descend(m, key) = CHOOSE h : Fits(h)
  BY <1>19 DEF descend, isint
<1>22. Fits(CHOOSE h : Fits(h))
  <2> HIDE DEF Fits
  <2> QED BY <1>20, Zenon
<1>27. Fits(descend(m, key))
  <2> HIDE DEF Fits
  <2> QED BY <1>21, <1>22
<1> DEFINE d == descend(m, key)
<1>23. ASSUME NEW x \in S
       PROVE  d[x] = IF ~m[x].internal THEN Leaf(x) ELSE IF cmp(x) = 0 THEN Hit(x)
                     ELSE d[m[x][Side(cmp(x) < 0)]]
  BY <1>27
<1> HIDE DEF d, Fits
<1> QED BY <1>23 DEF d, DescendsBy

(* rbtree_find_greater reads nodes of the tree only and ends at a leaf.    *)
LEMMA Descends ==
  ASSUME NEW m, NEW t, Shape(m, t, {}), NEW key, NEW n \in Below(m, t)
  PROVE  descend(m, key)[n].node \in Outer(m, t)
<1>1. Fine(m, t) /\ Links(m, t) /\ Rising(m, t) /\ KidsOK(m, t)
  BY DEF Shape, Links
<1>2. PICK d : d = descend(m, key)
  OBVIOUS
<1>3. PICK e : Ends(m, t, e) /\ Seps(m, t, e, {})
  BY DEF Shape, Spread
<1> DEFINE S == Below(m, t)
           cmp(x) == Compare(key, m[m[x].key].key)
           Leaf(x) == [node |-> x, found |-> FALSE]
           Hit(x) == [node |-> m[x].key, found |-> TRUE]
           T == {x \in S : d[x].node \in Outer(m, t)}
<1>6. \A x \in Inner(m, t) : m[x].key \in Outer(m, t)
  BY <1>1, <1>3, SplitKey
<1>23. ASSUME NEW x \in S
       PROVE  d[x] = IF ~m[x].internal THEN Leaf(x) ELSE IF cmp(x) = 0 THEN Hit(x)
                     ELSE d[m[x][Side(cmp(x) < 0)]]
  BY <1>2, DescendIs DEF DescendsBy
<1>24. Outer(m, t) \subseteq T
  <2> SUFFICES ASSUME NEW x \in Outer(m, t) PROVE x \in S /\ d[x].node \in Outer(m, t)
    OBVIOUS
  <2>1. x \in S /\ ~m[x].internal
    BY DEF Outer
  <2>2. d[x] = Leaf(x)
    BY <1>23, <2>1
  <2> QED BY <2>1, <2>2
<1>25. ASSUME NEW x \in Inner(m, t), \A l \in BOOLEAN : Kid(m, x, l) \in T
       PROVE  x \in T
  <2>1. x \in S /\ m[x].internal
    BY DEF Inner
  <2>2. PICK l \in BOOLEAN : Side(cmp(x) < 0) = Side(l)
    BY DEF Side
  <2>3. m[x][Side(cmp(x) < 0)] = Kid(m, x, l)
    BY <2>2 DEF Kid
  <2>4. d[x] = Hit(x) \/ d[x] = d[Kid(m, x, l)]
    BY <1>23, <2>1, <2>3
  <2>5. Hit(x).node \in Outer(m, t)
    BY <1>6
  <2>6. d[Kid(m, x, l)].node \in Outer(m, t)
    BY <1>25
  <2> QED BY <2>1, <2>4, <2>5, <2>6
<1>26. S \subseteq T
  BY <1>1, <1>24, <1>25, FromLeaves
<1> QED BY <1>2, <1>26

(* rbtree_find_greater ends at a leaf or at the head. *)
LEMMA FindsGreater ==
  ASSUME NEW m, NEW t, Shape(m, t, {}), NEW key
  PROVE  rbtree_find_greater(m, t, key).node \in Outer(m, t) \cup {t}
<1> DEFINE f == rbtree_find_greater(m, t, key)
           cmp == Compare(key, m[m[t].blink].key)
<1>1. m[t].blink \in Outer(m, t) \cup {t}
  BY DEF Shape, Ring
<1>2. CASE m[t].parent = t
  <2>1. f = [node |-> t, found |-> FALSE]
    BY <1>2 DEF rbtree_find_greater
  <2> QED BY <2>1
<1>3. CASE m[t].parent # t
  <2>1. m[t].parent \in Below(m, t)
    BY <1>3 DEF Shape, Links, RootOK, Below
  <2>2. \/ f = [node |-> m[t].blink, found |-> TRUE]
        \/ f = [node |-> t, found |-> FALSE]
        \/ f = descend(m, key)[m[t].parent]
    BY <1>3 DEF rbtree_find_greater
  <2>3. descend(m, key)[m[t].parent].node \in Outer(m, t)
    BY <2>1, Descends
  <2> QED BY <1>1, <2>2, <2>3
<1> QED BY <1>2, <1>3

-----------------------------------------------------------------------------
(* 2n nodes for n leaves, or the head alone. *)
Counts(m, t) ==
  /\ IsFiniteSet(DOMAIN m)
  /\ Cardinality(DOMAIN m) = IF Outer(m, t) = {} THEN 1 ELSE 2 * Cardinality(Outer(m, t))

(* A tree between two calls of its client. *)
Good(m, t) ==
  /\ Sound(m, t, {}) /\ DOMAIN m \subseteq Addr /\ Counts(m, t)
  /\ m[t].key = 0 /\ \A n \in Outer(m, t) : m[n].key \in Key /\ m[n].val \in Val

(* The same nodes are the same tree. *)
LEMMA CopyGood ==
  ASSUME NEW m, NEW t, Good(m, t), NEW r, DOMAIN r = DOMAIN m, \A n \in DOMAIN m : r[n] = m[n]
  PROVE  Good(r, t)
<1>1. Shape(m, t, {}) /\ Coloured(m, t, t, t) /\ Fine(m, t)
  BY DEF Good, Sound, Shape
<1>2. Painted(m, r) /\ Alike(m, r)
  BY <1>1 DEF Painted, Alike, Fine, IsMem
<1>3. \A n \in Below(m, t) : r[n].red \in BOOLEAN
  BY <1>1 DEF Fine, Below
<1>4. Shape(r, t, {})
  BY <1>1, <1>2, <1>3, PaintedShape
<1>5. Coloured(r, t, t, t)
  BY <1>1, <1>2, AlikeColoured
<1>6. Outer(r, t) = Outer(m, t) /\ \A n \in Outer(m, t) : n \in DOMAIN m
  BY DEF Outer, Below
<1>7. t \in DOMAIN m
  BY <1>1 DEF Fine
<1> QED BY <1>4, <1>5, <1>6, <1>7 DEF Good, Sound, Counts

(* There are finitely many leaves. *)
LEMMA OuterFinite ==
  ASSUME NEW m, NEW t, IsFiniteSet(DOMAIN m)
  PROVE  IsFiniteSet(Outer(m, t)) /\ Cardinality(Outer(m, t)) \in Nat /\ Cardinality(DOMAIN m) \in Nat
<1>1. Outer(m, t) \in SUBSET DOMAIN m
  BY DEF Outer, Below
<1>2. IsFiniteSet(Outer(m, t))
  BY <1>1, FS_Subset
<1> QED BY <1>2, FS_CardinalityType

(* Planting the first leaf keeps the tree good. *)
LEMMA FirstGood ==
  ASSUME NEW m, NEW t, Good(m, t), m[t].parent = t, NEW leaf \in Addr \ DOMAIN m,
         NEW key \in Key, NEW val \in Val
  PROVE  Good(insert_first(m, t, leaf, key, val), t)
<1>1. PICK r : r = insert_first(m, t, leaf, key, val)
  OBVIOUS
<1>2. Sound(m, t, {}) /\ leaf \notin DOMAIN m
  BY DEF Good
<1>3. /\ DOMAIN m = {t} /\ Single(r, t, leaf) /\ r[leaf].key = key /\ r[leaf].val = val
      /\ r[t].key = m[t].key
  BY <1>1, <1>2, InsertFirst, SMTT(30)
<1>4. Sound(r, t, {}) /\ Outer(r, t) = {leaf}
  BY <1>3, SingleSound
<1>5. DOMAIN r = {t, leaf} /\ t # leaf
  BY <1>3 DEF Single
<1>6. IsFiniteSet({t}) /\ Cardinality({t}) = 1 /\ Cardinality({leaf}) = 1
  BY FS_Singleton
<1>7. IsFiniteSet({t} \cup {leaf}) /\ Cardinality({t} \cup {leaf}) = 2
  <2>1. Cardinality({t} \cup {leaf}) = IF leaf \in {t} THEN Cardinality({t}) ELSE Cardinality({t}) + 1
    BY <1>6, FS_AddElement
  <2>2. leaf \notin {t}
    BY <1>5
  <2> QED BY <1>6, <2>1, <2>2, FS_AddElement
<1>8. {t} \cup {leaf} = {t, leaf}
  OBVIOUS
<1>9. Counts(r, t)
  BY <1>4, <1>5, <1>6, <1>7, <1>8 DEF Counts
<1>10. DOMAIN r \subseteq Addr
  BY <1>3, <1>5 DEF Good
<1> QED BY <1>1, <1>3, <1>4, <1>9, <1>10 DEF Good

(* Planting a leaf keeps the tree good: there are two nodes more, one of   *)
(* them a leaf.                                                            *)
LEMMA PlantedGood ==
  ASSUME NEW m, NEW t, Good(m, t), NEW r, NEW leaf \in Addr \ DOMAIN m, NEW new \in Addr \ DOMAIN m,
         leaf # new, NEW n, NEW key \in Key, NEW val \in Val, Below(m, t) # {},
         Planted(m, r, t, leaf, new, n, key, val)
  PROVE  Good(r, t)
<1>1. /\ DOMAIN r = DOMAIN m \cup {leaf, new} /\ Sound(r, t, {}) /\ Outer(r, t) = Outer(m, t) \cup {leaf}
      /\ r[leaf].key = key /\ r[leaf].val = val
      /\ \A k \in Outer(m, t) \cup {t} : r[k].key = m[k].key /\ r[k].val = m[k].val
  BY DEF Planted
<1>2. IsFiniteSet(DOMAIN m) /\ Shape(m, t, {})
  BY DEF Good, Counts, Sound
<1>3. Outer(m, t) # {}
  <2>1. PICK e : Ends(m, t, e)
    BY <1>2 DEF Shape, Spread
  <2> QED BY <2>1 DEF Ends
<1>4. Cardinality(DOMAIN m) = 2 * Cardinality(Outer(m, t))
  BY <1>3 DEF Good, Counts
<1>5. IsFiniteSet(Outer(m, t)) /\ Cardinality(Outer(m, t)) \in Nat /\ Cardinality(DOMAIN m) \in Nat
  BY <1>2, OuterFinite
<1>6. leaf \notin Outer(m, t)
  BY DEF Outer, Below
<1>7. Cardinality(Outer(r, t)) = Cardinality(Outer(m, t)) + 1
  BY <1>1, <1>5, <1>6, FS_AddElement
<1>8. /\ IsFiniteSet(DOMAIN m \cup {leaf})
      /\ Cardinality(DOMAIN m \cup {leaf}) = Cardinality(DOMAIN m) + 1
  BY <1>2, FS_AddElement
<1>9. /\ IsFiniteSet((DOMAIN m \cup {leaf}) \cup {new})
      /\ Cardinality((DOMAIN m \cup {leaf}) \cup {new}) = Cardinality(DOMAIN m \cup {leaf}) + 1
  BY <1>8, FS_AddElement
<1>10. (DOMAIN m \cup {leaf}) \cup {new} = DOMAIN r
  BY <1>1
<1>11. IsFiniteSet(DOMAIN r) /\ Cardinality(DOMAIN r) = 2 * Cardinality(Outer(r, t)) /\ Outer(r, t) # {}
  <2>1. Cardinality(DOMAIN r) = 2 * Cardinality(Outer(m, t)) + 1 + 1 /\ IsFiniteSet(DOMAIN r)
    BY <1>4, <1>8, <1>9, <1>10
  <2>2. Outer(r, t) # {}
    BY <1>1
  <2> HIDE <1>1, <1>10
  <2> QED BY <1>5, <1>7, <2>1, <2>2
<1>12. Counts(r, t)
  BY <1>11 DEF Counts
<1> QED BY <1>1, <1>12 DEF Good

(* What an insertion before n does to the leaves: there is one more, or    *)
(* nothing changed.                                                        *)
Grown(m, r, t, n, key, val) ==
  \/ DOMAIN r = DOMAIN m /\ \A k \in DOMAIN m : r[k] = m[k]
  \/ \E leaf : /\ leaf \notin DOMAIN m /\ Outer(r, t) = Outer(m, t) \cup {leaf}
               /\ r[leaf].key = key /\ r[leaf].val = val
               /\ \A k \in Outer(m, t) : r[k].key = m[k].key /\ r[k].val = m[k].val
               /\ Enlisted(m, r, t, leaf, n)

(* The first leaf is one leaf more. *)
LEMMA FirstGrows ==
  ASSUME NEW m, NEW t, Good(m, t), m[t].parent = t, NEW leaf \in Addr \ DOMAIN m,
         NEW key, NEW val
  PROVE  Grown(m, insert_first(m, t, leaf, key, val), t, t, key, val)
<1>1. PICK r : r = insert_first(m, t, leaf, key, val)
  OBVIOUS
<1>2. Sound(m, t, {}) /\ leaf \notin DOMAIN m
  BY DEF Good
<1>3. DOMAIN m = {t} /\ Single(r, t, leaf) /\ r[leaf].key = key /\ r[leaf].val = val
  BY <1>1, <1>2, InsertFirst
<1>4. Outer(r, t) = {leaf}
  BY <1>3, SingleSound
<1>5. Outer(m, t) = {}
  BY <1>3 DEF Outer, Below
<1>6. m[t].blink = t
  BY <1>2, <1>5 DEF Sound, Shape, Ring
<1>7. Enlisted(m, r, t, leaf, t)
  BY <1>3, <1>5, <1>6 DEF Enlisted, Single
<1> QED BY <1>1, <1>2, <1>3, <1>4, <1>5, <1>7 DEF Grown

(* A planted leaf is one leaf more. *)
LEMMA PlantedGrows ==
  ASSUME NEW m, NEW t, NEW r, NEW leaf, leaf \notin DOMAIN m, NEW new, NEW n, NEW key, NEW val,
         Planted(m, r, t, leaf, new, n, key, val)
  PROVE  Grown(m, r, t, n, key, val)
  BY DEF Planted, Grown

(* What rbtree_insert_b promises its callers. *)
InsertedWell(m, t, n, key, val, r) == Good(r, t) /\ Grown(m, r, t, n, key, val)

(* rbtree_insert_b keeps the tree sound, however many of its allocations   *)
(* succeed.                                                                *)
LEMMA InsertGood ==
  ASSUME NEW m, NEW t, Good(m, t), Addr \subseteq Nat, IsFiniteSet(Addr),
         NEW n \in Outer(m, t) \cup {t}, NEW key \in Key, NEW val \in Val,
         NEW got \in 0..2, got <= Cardinality(Addr \ DOMAIN m)
  PROVE  InsertedWell(m, t, n, key, val, rbtree_insert_b(m, n, key, val, got))
<1>1. PICK leaf : leaf = FreshAddr(m)
  OBVIOUS
<1>2. PICK r : r = rbtree_insert_b(m, n, key, val, got)
  OBVIOUS
<1>3. /\ Sound(m, t, {}) /\ Fine(m, t) /\ RootOK(m, t) /\ IsFiniteSet(DOMAIN m) /\ IsMem(m)
  BY DEF Good, Sound, Shape, Links, Counts, Fine
<1>4. ishead(m, n) <=> n = t
  BY <1>3 DEF ishead, Fine, Outer, Below
<1>5. IsFiniteSet(Addr \ DOMAIN m)
  BY FS_Difference
<1>6. CASE got = 0
  <2>1. r = m
    BY <1>2, <1>6 DEF rbtree_insert_b
  <2>2. Grown(m, m, t, n, key, val)
    BY DEF Grown
  <2> QED BY <1>2, <2>1, <2>2 DEF InsertedWell
<1>7. CASE got > 0
  <2>1. Addr \ DOMAIN m # {}
    BY <1>7, FS_EmptySet
  <2>2. leaf \in Addr \ DOMAIN m
    BY <1>1, <2>1, FreshIsFree
  <2>3. CASE n = t /\ m[t].parent = t
    <3>1. r = insert_first(m, t, leaf, key, val)
      BY <1>1, <1>2, <1>4, <1>7, <2>3 DEF rbtree_insert_b
    <3>2. m[t].parent = t /\ n = t
      BY <2>3
    <3>3. Good(insert_first(m, t, leaf, key, val), t)
      BY <2>2, <3>2, FirstGood
    <3>4. Grown(m, insert_first(m, t, leaf, key, val), t, t, key, val)
      BY <2>2, <3>2, FirstGrows
    <3> QED BY <1>2, <3>1, <3>2, <3>3, <3>4 DEF InsertedWell
  <2>4. CASE ~(n = t /\ m[t].parent = t) /\ got = 1
    <3>1. r = mem_free(mem_alloc(m, leaf), leaf)
      BY <1>1, <1>2, <1>4, <1>7, <2>4 DEF rbtree_insert_b
    <3>2. PICK a : a = mem_alloc(m, leaf)
      OBVIOUS
    <3>3. More(m, a, leaf)
      BY <1>3, <2>2, <3>2, Allocated
    <3>4. r = [b \in DOMAIN a \ {leaf} |-> a[b]]
      BY <3>1, <3>2 DEF mem_free
    <3>5. DOMAIN r = DOMAIN m /\ \A k \in DOMAIN m : r[k] = m[k]
      BY <2>2, <3>3, <3>4 DEF More
    <3>6. Good(r, t)
      BY <3>5, CopyGood
    <3>7. Grown(m, r, t, n, key, val)
      BY <3>5 DEF Grown
    <3> QED BY <1>2, <3>6, <3>7 DEF InsertedWell
  <2>5. CASE ~(n = t /\ m[t].parent = t) /\ got # 1
    <3>1. r = insert_beside(m, n, leaf, key, val)
      BY <1>1, <1>2, <1>4, <1>7, <2>5 DEF rbtree_insert_b
    <3>2. PICK a : a = mem_alloc(m, leaf)
      OBVIOUS
    <3>3. DOMAIN a = DOMAIN m \cup {leaf}
      BY <1>3, <2>2, <3>2, Allocated DEF More
    <3>4. Addr \ DOMAIN a # {}
      <4>1. Addr \ DOMAIN a = (Addr \ DOMAIN m) \ {leaf}
        BY <3>3
      <4>2. Cardinality((Addr \ DOMAIN m) \ {leaf}) = Cardinality(Addr \ DOMAIN m) - 1
        BY <1>5, <2>2, FS_RemoveElement
      <4>3. Cardinality(Addr \ DOMAIN m) \in Nat
        BY <1>5, FS_CardinalityType
      <4>5. got # 1 /\ got \in 0..2
        <5> CASE n # t
          BY <2>5
        <5> QED BY <2>5
      <4>4. Cardinality(Addr \ DOMAIN a) # 0
        <5>1. got = 2
          BY <1>7, <2>5, <4>5
        <5>2. Cardinality(Addr \ DOMAIN m) >= 2
          BY <4>3, <5>1
        <5>3. Cardinality(Addr \ DOMAIN a) = Cardinality(Addr \ DOMAIN m) - 1
          BY <4>1, <4>2
        <5> HIDE <4>1, <4>2
        <5> QED BY <4>3, <5>2, <5>3
      <4> QED BY <4>4, FS_EmptySet
    <3>5. PICK new : new = FreshAddr(a)
      OBVIOUS
    <3>6. new \in Addr \ DOMAIN a
      BY <3>4, <3>5, FreshIsFree
    <3>7. new \in Addr \ DOMAIN m /\ leaf # new /\ leaf \notin DOMAIN m
      BY <2>2, <3>3, <3>6
    <3>8. Below(m, t) # {}
      <4>1. CASE n = t
        BY <1>3, <2>5, <4>1 DEF RootOK, Below
      <4>2. CASE n # t
        BY <4>2 DEF Outer
      <4> QED BY <4>1, <4>2
    <3>9. new = FreshAddr(mem_alloc(m, leaf))
      BY <3>2, <3>5
    <3> HIDE <1>1, <1>2
    <3>10. Planted(m, insert_beside(m, n, leaf, key, val), t, leaf, new, n, key, val)
      BY <1>3, <3>7, <3>8, <3>9, InsertBeside
    <3>11. Good(insert_beside(m, n, leaf, key, val), t)
      BY <2>2, <3>7, <3>8, <3>10, PlantedGood
    <3>12. Grown(m, insert_beside(m, n, leaf, key, val), t, n, key, val)
      BY <3>7, <3>10, PlantedGrows
    <3> QED BY <1>2, <3>1, <3>11, <3>12 DEF InsertedWell
  <2> QED BY <2>3, <2>4, <2>5
<1> QED BY <1>6, <1>7

-----------------------------------------------------------------------------
(* Weights added up along the path from a node to the head.                *)
PathSum(m, t, w, f) ==
  f = [n \in DOMAIN m |-> IF ishead(m, n) THEN 0 ELSE w[n] + f[m[n].parent]]

(* The sum along the path to the head exists, because parents are ranked   *)
(* higher.                                                                 *)
LEMMA PathSumExists ==
  ASSUME NEW m, NEW t, NEW X, Shape(m, t, X), NEW w \in [DOMAIN m -> Nat]
  PROVE  \E f \in [DOMAIN m -> Nat] : PathSum(m, t, w, f)
<1>1. Fine(m, t) /\ Rising(m, t) /\ RootOK(m, t) /\ ParentsOK(m, t) /\ t \in DOMAIN m
  BY DEF Shape, Links, Fine
<1>2. PICK top, rk : Ranked(m, t, top, rk)
  BY <1>1 DEF Rising
<1>3. top \in Nat /\ top + 1 \in Nat /\ \A n \in Below(m, t) : rk[n] \in 0..top
  BY <1>2 DEF Ranked
<1> DEFINE S == DOMAIN m
           Stop == {t}
           N == [n \in S |-> m[n].parent]
           B == [n \in Stop |-> 0]
           H == [z \in S \X Nat |-> w[z[1]] + z[2]]
           up == [n \in S |-> IF n = t THEN 0 ELSE (top + 1) - rk[n]]
<1>4. up \in [S -> 0..top + 1]
  <2>1. ASSUME NEW n \in S PROVE up[n] \in 0..top + 1
    <3>1. CASE n = t
      BY <1>3, <3>1
    <3>2. CASE n # t
      <4>1. rk[n] \in 0..top
        BY <1>3, <3>2 DEF Below
      <4> QED BY <1>3, <3>2, <4>1
    <3> QED BY <3>1, <3>2
  <2> QED BY <2>1
<1>5. B \in [Stop -> Nat]
  OBVIOUS
<1>6. H \in [S \X Nat -> Nat] /\ \A n \in S, v \in Nat : H[<<n, v>>] = w[n] + v
  <2>1. \A n \in S : w[n] \in Nat
    OBVIOUS
  <2>2. ASSUME NEW n \in S, NEW v \in Nat PROVE H[<<n, v>>] = w[n] + v /\ H[<<n, v>>] \in Nat
    BY <2>1
  <2>3. ASSUME NEW z \in S \X Nat PROVE H[z] \in Nat
    BY <2>1
  <2> QED BY <2>2, <2>3
<1>7. ASSUME NEW n \in S \ Stop PROVE N[n] \in S /\ up[N[n]] < up[n]
  <2>1. N[n] = m[n].parent /\ n \in Below(m, t) /\ n # t
    BY DEF Below
  <2>2. rk[n] \in 0..top /\ up[n] = (top + 1) - rk[n]
    BY <1>3, <2>1
  <2>3. CASE m[n].root
    <3>1. n = m[t].parent
      BY <1>1, <2>1, <2>3 DEF RootOK
    <3>2. N[n] = t
      BY <1>1, <2>1, <3>1 DEF RootOK
    <3>3. up[N[n]] = 0
      BY <1>1, <3>2
    <3> QED BY <1>1, <1>3, <2>2, <3>2, <3>3
  <2>4. CASE ~m[n].root
    <3>1. N[n] \in Inner(m, t) /\ m[n].left \in BOOLEAN /\ Kid(m, N[n], m[n].left) = n
      BY <1>1, <2>1, <2>4 DEF ParentsOK
    <3>2. N[n] \in Below(m, t) /\ rk[n] < rk[N[n]] /\ N[n] \in S /\ N[n] # t
      BY <1>2, <3>1 DEF Ranked, Inner, Below
    <3>3. rk[N[n]] \in 0..top /\ up[N[n]] = (top + 1) - rk[N[n]]
      BY <1>3, <3>2
    <3> QED BY <1>3, <2>2, <3>2, <3>3
  <2> QED BY <2>3, <2>4
<1>8. \A n \in S : N[n] = m[n].parent /\ (n \in Stop => B[n] = 0)
  OBVIOUS
<1>9. \A n \in S : n \in Stop <=> ishead(m, n)
  BY <1>1 DEF ishead, Fine, Below
<1> HIDE DEF Stop, N, B, H, up
<1>10. PICK f \in [S -> Nat] : Follows(f, S, Stop, N, B, H)
  BY <1>3, <1>4, <1>5, <1>6, <1>7, FollowsExists
<1>11. ASSUME NEW n \in S
       PROVE  f[n] = IF ishead(m, n) THEN 0 ELSE w[n] + f[m[n].parent]
  <2>1. f[n] = IF n \in Stop THEN B[n] ELSE H[<<n, f[N[n]]>>]
    BY <1>10 DEF Follows
  <2>2. n \notin Stop => H[<<n, f[N[n]]>>] = w[n] + f[N[n]]
    BY <1>6, <1>7
  <2> QED BY <2>1, <2>2, <1>8, <1>9
<1>12. f = [n \in S |-> f[n]]
  OBVIOUS
<1>13. f = [n \in S |-> IF ishead(m, n) THEN 0 ELSE w[n] + f[m[n].parent]]
  BY <1>11, <1>12
<1> QED BY <1>13 DEF PathSum

(* What the sums of a path are from one node to the next.                  *)
Sums(m, t, w, f) ==
  /\ f \in [DOMAIN m -> Nat]
  /\ \A n \in Below(m, t) :
       f[n] = IF m[n].root THEN w[n] ELSE w[n] + f[m[n].parent]

(* From a node to its parent the sum grows by the node's weight. *)
LEMMA PathSums ==
  ASSUME NEW m, NEW t, NEW X, Shape(m, t, X), NEW w \in [DOMAIN m -> Nat],
         NEW f, PathSum(m, t, w, f)
  PROVE  Sums(m, t, w, f)
<1>1. Fine(m, t) /\ RootOK(m, t) /\ Links(m, t) /\ Rising(m, t) /\ t \in DOMAIN m
  BY DEF Shape, Links, Fine
<1>2. \A n \in DOMAIN m : f[n] = IF ishead(m, n) THEN 0 ELSE w[n] + f[m[n].parent]
  BY DEF PathSum
<1>3. f[t] = 0
  BY <1>1, <1>2 DEF ishead, Fine
<1>4. ASSUME NEW n \in Below(m, t)
      PROVE  n \in DOMAIN m /\ w[n] \in Nat /\ f[n] = w[n] + f[m[n].parent]
             /\ (m[n].root => m[n].parent = t)
  <2>1. n \in DOMAIN m /\ ~ishead(m, n) /\ w[n] \in Nat
    BY <1>1 DEF ishead, Fine, Below
  <2>2. f[n] = w[n] + f[m[n].parent]
    BY <1>2, <2>1
  <2>3. m[n].root => m[n].parent = t
    BY <1>1 DEF RootOK
  <2> QED BY <2>1, <2>2, <2>3
<1> DEFINE T == {n \in Below(m, t) : f[n] \in Nat}
<1>5. \A n \in Below(m, t) : m[n].root => n \in T
  BY <1>3, <1>4
<1>6. ASSUME NEW n \in Inner(m, t), NEW l \in BOOLEAN, n \in T PROVE Kid(m, n, l) \in T
  <2>1. Kid(m, n, l) \in Below(m, t) /\ m[Kid(m, n, l)].parent = n
    BY <1>1 DEF Links, KidsOK
  <2> QED BY <1>4, <1>6, <2>1
<1>7. Below(m, t) \subseteq T
  <2> HIDE DEF T
  <2> QED BY <1>1, <1>5, <1>6, FromRoot
<1>8. ASSUME NEW n \in DOMAIN m PROVE f[n] \in Nat
  BY <1>3, <1>7 DEF Below
<1>9. f \in [DOMAIN m -> Nat]
  <2>1. f = [n \in DOMAIN m |-> IF ishead(m, n) THEN 0 ELSE w[n] + f[m[n].parent]]
    BY DEF PathSum
  <2>2. DOMAIN f = DOMAIN m /\ f = [n \in DOMAIN m |-> f[n]]
    <3> HIDE <1>2
    <3>1. f = [n \in DOMAIN m |-> f[n]]
      <4>1. \A g : g = [n \in DOMAIN m |-> IF ishead(m, n) THEN 0 ELSE w[n] + f[m[n].parent]]
                   => g = [n \in DOMAIN m |-> g[n]]
        OBVIOUS
      <4> QED BY <2>1, <4>1
    <3> QED BY <3>1
  <2> QED BY <1>8, <2>2
<1>10. \A n \in Below(m, t) : f[n] = IF m[n].root THEN w[n] ELSE w[n] + f[m[n].parent]
  BY <1>3, <1>4
<1> QED BY <1>9, <1>10 DEF Sums

(* The black nodes on the way up from a node and on the ways down from it  *)
(* are together those of a path through the root.                          *)
LEMMA BlackPaths ==
  ASSUME NEW m, NEW t, NEW X, Sound(m, t, X), NEW w \in [DOMAIN m -> Nat],
         \A n \in DOMAIN m : w[n] = Own(m, n), NEW f, Sums(m, t, w, f)
  PROVE  \E k \in Nat : \A n \in Outer(m, t) : f[n] = k
<1>1. Shape(m, t, X) /\ Fine(m, t) /\ Links(m, t) /\ Rising(m, t) /\ RootOK(m, t)
  BY DEF Sound, Shape, Links
<1>2. PICK b : Blacks(m, t, b, t)
  BY DEF Sound, Coloured
<1>3. CASE Below(m, t) = {}
  BY <1>3 DEF Outer
<1>4. CASE Below(m, t) # {}
  <2>1. PICK k : k = b[m[t].parent]
    OBVIOUS
  <2>2. m[t].parent \in Below(m, t)
    BY <1>1, <1>4 DEF RootOK, Below
  <2>3. k \in Nat \ {0}
    BY <1>2, <2>1, <2>2 DEF Blacks
  <2>4. \A n \in Below(m, t) : b[n] \in Nat /\ f[n] \in Nat /\ w[n] = Own(m, n) /\ Own(m, n) \in Nat
    BY <1>2 DEF Blacks, Sums, Below, Own
  <2> DEFINE T == {n \in Below(m, t) : f[n] + b[n] = k + Own(m, n)}
  <2>5. ASSUME NEW n \in Below(m, t), m[n].root PROVE n \in T
    <3>1. n = m[t].parent
      BY <1>1, <2>5 DEF RootOK
    <3>2. f[n] = w[n]
      BY <2>5 DEF Sums
    <3> QED BY <2>1, <2>3, <2>4, <3>1, <3>2
  <2>6. ASSUME NEW n \in Inner(m, t), NEW l \in BOOLEAN, n \in T PROVE Kid(m, n, l) \in T
    <3>1. PICK c : c = Kid(m, n, l)
      OBVIOUS
    <3>2. c \in Below(m, t) /\ c # t /\ m[c].parent = n /\ ~m[c].root
      BY <1>1, <3>1, Kids
    <3>3. f[c] = w[c] + f[n]
      BY <3>2 DEF Sums
    <3>4. b[n] = Own(m, n) + b[c]
      BY <1>1, <1>2, <3>1, <3>2, Counted
    <3>5. f[n] + b[n] = k + Own(m, n) /\ n \in Below(m, t)
      BY <2>6
    <3>6. f[c] + b[c] = k + Own(m, c)
      BY <2>3, <2>4, <3>2, <3>3, <3>4, <3>5
    <3> QED BY <3>1, <3>2, <3>6
  <2>7. Below(m, t) \subseteq T
    <3> HIDE DEF T
    <3> QED BY <1>1, <2>5, <2>6, FromRoot
  <2>8. ASSUME NEW n \in Outer(m, t) PROVE f[n] = k
    <3>1. n \in Below(m, t) /\ f[n] + b[n] = k + Own(m, n)
      BY <2>7 DEF Outer
    <3>2. b[n] = 1 /\ Own(m, n) = 1
      BY <1>2 DEF Blacks, Own
    <3> QED BY <2>3, <2>4, <3>1, <3>2
  <2> QED BY <2>3, <2>8
<1> QED BY <1>3, <1>4

(* No path has more red nodes than black ones.                             *)
LEMMA PathLengths ==
  ASSUME NEW m, NEW t, NEW X, Sound(m, t, X), NEW w \in [DOMAIN m -> Nat],
         \A n \in DOMAIN m : w[n] = Own(m, n), NEW f, Sums(m, t, w, f),
         NEW o \in [DOMAIN m -> Nat], \A n \in DOMAIN m : o[n] = 1, NEW g, Sums(m, t, o, g)
  PROVE  \A n \in Outer(m, t) : ~m[n].red /\ g[n] <= 2 * f[n]
<1>1. Shape(m, t, X) /\ Fine(m, t) /\ Links(m, t) /\ Rising(m, t)
  BY DEF Sound, Shape
<1>2. Apart(m, t, t) /\ \E b : Blacks(m, t, b, t)
  BY DEF Sound, Coloured
<1>3. \A n \in Outer(m, t) : ~m[n].red
  BY <1>2 DEF Blacks
<1>4. \A n \in Below(m, t) : /\ f[n] \in Nat /\ g[n] \in Nat /\ w[n] = Own(m, n) /\ o[n] = 1
                             /\ Own(m, n) = IF m[n].red THEN 0 ELSE 1
  BY DEF Sums, Below, Own
<1> DEFINE T == {n \in Below(m, t) : g[n] <= 2 * f[n] + IF m[n].red THEN 1 ELSE 0}
<1>5. ASSUME NEW n \in Below(m, t), m[n].root PROVE n \in T
  <2>1. f[n] = w[n] /\ g[n] = o[n]
    BY <1>5 DEF Sums
  <2> QED BY <1>4, <2>1
<1>6. ASSUME NEW n \in Inner(m, t), NEW l \in BOOLEAN, n \in T PROVE Kid(m, n, l) \in T
  <2>1. PICK c : c = Kid(m, n, l)
    OBVIOUS
  <2>2. c \in Below(m, t) /\ c # t /\ m[c].parent = n /\ ~m[c].root
    BY <1>1, <2>1, Kids
  <2>3. f[c] = w[c] + f[n] /\ g[c] = o[c] + g[n]
    BY <2>2 DEF Sums
  <2>4. m[n].red => ~m[c].red
    BY <1>2, <2>1, <2>2 DEF Apart
  <2>5. g[n] <= 2 * f[n] + (IF m[n].red THEN 1 ELSE 0) /\ n \in Below(m, t)
    BY <1>6
  <2>6. g[c] <= 2 * f[c] + (IF m[c].red THEN 1 ELSE 0)
    BY <1>4, <2>2, <2>3, <2>4, <2>5
  <2> QED BY <2>1, <2>2, <2>6
<1>7. Below(m, t) \subseteq T
  <2> HIDE DEF T
  <2> QED BY <1>1, <1>5, <1>6, FromRoot
<1>8. ASSUME NEW n \in Outer(m, t) PROVE g[n] <= 2 * f[n]
  <2>1. n \in Below(m, t)
    BY DEF Outer
  <2>2. g[n] <= 2 * f[n] + IF m[n].red THEN 1 ELSE 0
    BY <1>7, <2>1
  <2> QED BY <1>3, <1>4, <2>1, <2>2
<1> QED BY <1>3, <1>8

-----------------------------------------------------------------------------
(* The inductive invariant: no memory without a tree, and a good one with. *)
TreeInv ==
  /\ asserts = {}
  /\ tree = NULL => DOMAIN mem = {}
  /\ tree # NULL => tree \in Addr /\ Good(mem, tree)

(* The sets of the properties are those of the proofs.                     *)
LEMMA NodesAre ==
  ASSUME NEW t, Fine(mem, t)
  PROVE  Leaves = Outer(mem, t) /\ Internal = Inner(mem, t) /\ Nodes = Below(mem, t)
  BY DEF Fine, Leaves, Internal, Nodes, Outer, Inner, Below

(* The leaves at the two ends of a subtree.                                *)
LEMMA FirstLeafEnds ==
  ASSUME NEW t, NEW X, Shape(mem, t, X), NEW e, Ends(mem, t, e)
  PROVE  \A n \in Below(mem, t) : FirstLeaf[n] = e[TRUE][n]
<1>1. Fine(mem, t) /\ Links(mem, t) /\ KidsOK(mem, t) /\ Rising(mem, t)
  BY DEF Shape, Links
<1>2. PICK S : S = Below(mem, t)
  OBVIOUS
<1>3. Nodes = S
  BY <1>1, <1>2, NodesAre
<1>4. PICK d : d = e[TRUE]
  OBVIOUS
<1>5. d \in [S -> Outer(mem, t)] /\ (\A n \in Outer(mem, t) : d[n] = n)
      /\ \A n \in Inner(mem, t) : d[n] = d[Kid(mem, n, TRUE)]
  BY <1>2, <1>4 DEF Ends
<1>6. \A n : Kid(mem, n, TRUE) = mem[n].flink
  BY KidIs
<1>7. \A n \in S : /\ mem[n].internal => n \in Inner(mem, t)
                   /\ ~mem[n].internal => n \in Outer(mem, t)
  BY <1>2 DEF Inner, Outer
<1> DEFINE Fits(h) == h = [n \in S |-> IF isint(mem, n) THEN h[mem[n].flink] ELSE n]
<1>8. Fits(d)
  <2>1. \A n \in S : d[n] = IF isint(mem, n) THEN d[mem[n].flink] ELSE n
    BY <1>5, <1>6, <1>7 DEF isint
  <2>2. d = [n \in S |-> d[n]]
    BY <1>5
  <2> QED BY <2>1, <2>2
<1>9. FirstLeaf = CHOOSE h : Fits(h)
  BY <1>3 DEF FirstLeaf
<1>10. Fits(CHOOSE h : Fits(h))
  <2> HIDE DEF Fits
  <2> QED BY <1>8, Zenon
<1>11. Fits(FirstLeaf)
  <2> HIDE DEF Fits
  <2> QED BY <1>9, <1>10
<1>12. \A n \in S : FirstLeaf[n] = IF isint(mem, n) THEN FirstLeaf[mem[n].flink] ELSE n
  BY <1>11
<1> HIDE DEF Fits
<1> DEFINE T == {n \in S : FirstLeaf[n] = d[n]}
<1>13. Outer(mem, t) \subseteq T
  BY <1>2, <1>5, <1>12 DEF Outer, isint
<1>14. ASSUME NEW n \in Inner(mem, t), \A l \in BOOLEAN : Kid(mem, n, l) \in T PROVE n \in T
  <2>1. n \in S /\ isint(mem, n)
    BY <1>2 DEF Inner, isint
  <2>2. FirstLeaf[n] = FirstLeaf[Kid(mem, n, TRUE)]
    BY <1>6, <1>12, <2>1
  <2>3. Kid(mem, n, TRUE) \in T
    BY <1>14
  <2> QED BY <1>5, <2>1, <2>2, <2>3
<1>15. Below(mem, t) \subseteq T
  <2> HIDE DEF T
  <2> QED BY <1>1, <1>13, <1>14, FromLeaves
<1> QED BY <1>4, <1>15

(* The last leaf of a subtree, as the properties read it, is its end. *)
LEMMA LastLeafEnds ==
  ASSUME NEW t, NEW X, Shape(mem, t, X), NEW e, Ends(mem, t, e)
  PROVE  \A n \in Below(mem, t) : LastLeaf[n] = e[FALSE][n]
<1>1. Fine(mem, t) /\ Links(mem, t) /\ KidsOK(mem, t) /\ Rising(mem, t)
  BY DEF Shape, Links
<1>2. PICK S : S = Below(mem, t)
  OBVIOUS
<1>3. Nodes = S
  BY <1>1, <1>2, NodesAre
<1>4. PICK d : d = e[FALSE]
  OBVIOUS
<1>5. d \in [S -> Outer(mem, t)] /\ (\A n \in Outer(mem, t) : d[n] = n)
      /\ \A n \in Inner(mem, t) : d[n] = d[Kid(mem, n, FALSE)]
  BY <1>2, <1>4 DEF Ends
<1>6. \A n : Kid(mem, n, FALSE) = mem[n].blink
  BY KidIs
<1>7. \A n \in S : /\ mem[n].internal => n \in Inner(mem, t)
                   /\ ~mem[n].internal => n \in Outer(mem, t)
  BY <1>2 DEF Inner, Outer
<1> DEFINE Fits(h) == h = [n \in S |-> IF isint(mem, n) THEN h[mem[n].blink] ELSE n]
<1>8. Fits(d)
  <2>1. \A n \in S : d[n] = IF isint(mem, n) THEN d[mem[n].blink] ELSE n
    BY <1>5, <1>6, <1>7 DEF isint
  <2>2. d = [n \in S |-> d[n]]
    BY <1>5
  <2> QED BY <2>1, <2>2
<1>9. LastLeaf = CHOOSE h : Fits(h)
  BY <1>3 DEF LastLeaf
<1>10. Fits(CHOOSE h : Fits(h))
  <2> HIDE DEF Fits
  <2> QED BY <1>8, Zenon
<1>11. Fits(LastLeaf)
  <2> HIDE DEF Fits
  <2> QED BY <1>9, <1>10
<1>12. \A n \in S : LastLeaf[n] = IF isint(mem, n) THEN LastLeaf[mem[n].blink] ELSE n
  BY <1>11
<1> HIDE DEF Fits
<1> DEFINE T == {n \in S : LastLeaf[n] = d[n]}
<1>13. Outer(mem, t) \subseteq T
  BY <1>2, <1>5, <1>12 DEF Outer, isint
<1>14. ASSUME NEW n \in Inner(mem, t), \A l \in BOOLEAN : Kid(mem, n, l) \in T PROVE n \in T
  <2>1. n \in S /\ isint(mem, n)
    BY <1>2 DEF Inner, isint
  <2>2. LastLeaf[n] = LastLeaf[Kid(mem, n, FALSE)]
    BY <1>6, <1>12, <2>1
  <2>3. Kid(mem, n, FALSE) \in T
    BY <1>14
  <2> QED BY <1>5, <2>1, <2>2, <2>3
<1>15. Below(mem, t) \subseteq T
  <2> HIDE DEF T
  <2> QED BY <1>1, <1>13, <1>14, FromLeaves
<1> QED BY <1>4, <1>15

(* rbtree_nblack and rbtree_plength add up along the path to the head.     *)
LEMMA CountersAre ==
  ASSUME NEW t, NEW X, Shape(mem, t, X),
         NEW w \in [DOMAIN mem -> Nat], \A n \in DOMAIN mem : w[n] = Own(mem, n),
         NEW o \in [DOMAIN mem -> Nat], \A n \in DOMAIN mem : o[n] = 1
  PROVE  Sums(mem, t, w, rbtree_nblack) /\ Sums(mem, t, o, rbtree_plength)
<1> DEFINE Fits(h) == h = [n \in DOMAIN mem |-> IF ishead(mem, n) THEN 0
                                                 ELSE (IF mem[n].red THEN 0 ELSE 1) + h[mem[n].parent]]
           Adds(h) == h = [n \in DOMAIN mem |-> IF ishead(mem, n) THEN 0 ELSE 1 + h[mem[n].parent]]
<1>1. \A h : Fits(h) <=> PathSum(mem, t, w, h)
  <2>1. \A n \in DOMAIN mem : w[n] = IF mem[n].red THEN 0 ELSE 1
    BY DEF Own
  <2> QED BY <2>1 DEF PathSum
<1>2. \A h : Adds(h) <=> PathSum(mem, t, o, h)
  BY DEF PathSum
<1>3. rbtree_nblack = CHOOSE h : Fits(h)
  BY DEF rbtree_nblack
<1>4. rbtree_plength = CHOOSE h : Adds(h)
  BY DEF rbtree_plength
<1> HIDE DEF Fits, Adds
<1>5. PICK f \in [DOMAIN mem -> Nat] : PathSum(mem, t, w, f)
  BY PathSumExists
<1>6. PICK g \in [DOMAIN mem -> Nat] : PathSum(mem, t, o, g)
  BY PathSumExists
<1>7. Fits(f) /\ Adds(g)
  BY <1>1, <1>2, <1>5, <1>6
<1>8. Fits(CHOOSE h : Fits(h))
  BY <1>7, Zenon
<1>9. Adds(CHOOSE h : Adds(h))
  BY <1>7, Zenon
<1>10. PathSum(mem, t, w, rbtree_nblack)
  BY <1>1, <1>3, <1>8
<1>11. PathSum(mem, t, o, rbtree_plength)
  BY <1>2, <1>4, <1>9
<1> QED BY <1>10, <1>11, PathSums

-----------------------------------------------------------------------------
(* A good tree satisfies the type invariant. *)
LEMMA GoodTypes ==
  ASSUME ConstantsAssumption, tree \in Addr, Good(mem, tree)
  PROVE  TypeOK
<1>1. /\ Shape(mem, tree, {}) /\ Fine(mem, tree) /\ Ring(mem, tree) /\ Links(mem, tree)
      /\ ParentsOK(mem, tree) /\ DOMAIN mem \subseteq Addr /\ tree \in DOMAIN mem
  BY DEF Good, Sound, Shape, Links, Fine
<1>2. Leaves = Outer(mem, tree) /\ Internal = Inner(mem, tree) /\ Nodes = Below(mem, tree)
  BY <1>1, NodesAre
<1>3. tree # NULL
  BY DEF ConstantsAssumption, NULL
<1>4. ASSUME NEW n \in Below(mem, tree)
      PROVE  /\ mem[n].red \in BOOLEAN /\ mem[n].root \in BOOLEAN
             /\ mem[n].left \in BOOLEAN \cup (IF mem[n].root THEN {Junk} ELSE {})
             /\ {mem[n].flink, mem[n].blink, mem[n].parent} \subseteq DOMAIN mem
  <2>1. /\ mem[n].red \in BOOLEAN /\ mem[n].root \in BOOLEAN
        /\ mem[n].left \in BOOLEAN \cup {Junk} /\ mem[n].internal \in BOOLEAN
    BY <1>1 DEF Fine
  <2>2. mem[n].parent \in DOMAIN mem /\ (~mem[n].root => mem[n].left \in BOOLEAN)
    BY <1>1, ParentOfLeaf
  <2>3. CASE n \in Outer(mem, tree)
    <3>1. mem[n].flink \in Outer(mem, tree) \cup {tree} /\ mem[n].blink \in Outer(mem, tree) \cup {tree}
      BY <1>1, <2>3 DEF Ring
    <3>2. mem[n].flink \in DOMAIN mem /\ mem[n].blink \in DOMAIN mem
      BY <1>1, <3>1 DEF Outer, Below
    <3> QED BY <2>1, <2>2, <3>2
  <2>4. CASE n \in Inner(mem, tree)
    <3>1. \A l \in BOOLEAN : Kid(mem, n, l) \in DOMAIN mem
      BY <1>1, <2>4, Kids
    <3>2. Kid(mem, n, TRUE) = mem[n].flink /\ Kid(mem, n, FALSE) = mem[n].blink
      BY KidIs
    <3>3. mem[n].flink \in DOMAIN mem /\ mem[n].blink \in DOMAIN mem
      BY <3>1, <3>2
    <3> QED BY <2>1, <2>2, <3>3
  <2> QED BY <2>1, <2>3, <2>4 DEF Outer, Inner
<1>5. \A n \in Outer(mem, tree) : mem[n].key \in Key /\ mem[n].val \in Val
  BY DEF Good
<1>6. ASSUME NEW n \in Inner(mem, tree) PROVE {mem[n].key, mem[n].val} \subseteq Outer(mem, tree)
  <2>1. PICK e : Ends(mem, tree, e) /\ Seps(mem, tree, e, {})
    BY <1>1 DEF Shape, Spread
  <2>2. ASSUME NEW l \in BOOLEAN PROVE mem[n][Split(l)] \in Outer(mem, tree)
    <3>1. PICK k \in BOOLEAN : k = ~l
      OBVIOUS
    <3>2. mem[n][Split(l)] = e[k][Kid(mem, n, l)]
      BY <2>1, <3>1 DEF Seps
    <3>3. Kid(mem, n, l) \in Below(mem, tree)
      BY <1>1, Kids
    <3>4. e[k][Kid(mem, n, l)] \in Outer(mem, tree)
      BY <2>1, <3>3 DEF Ends
    <3> QED BY <3>2, <3>4
  <2>3. mem[n][Split(TRUE)] \in Outer(mem, tree) /\ mem[n][Split(FALSE)] \in Outer(mem, tree)
    BY <2>2
  <2> QED BY <2>3, Sides
<1>7. DOMAIN mem # {}
  BY <1>1
<1> QED BY <1>1, <1>2, <1>3, <1>4, <1>5, <1>6, <1>7 DEF TypeOK

(* In a good tree the links agree. *)
LEMMA GoodLinks ==
  ASSUME Good(mem, tree)
  PROVE  LinksAgree
<1>1. /\ Shape(mem, tree, {}) /\ Fine(mem, tree) /\ RootOK(mem, tree) /\ tree \in DOMAIN mem
  BY DEF Good, Sound, Shape, Links, Fine
<1>2. Internal = Inner(mem, tree) /\ Nodes = Below(mem, tree)
  BY <1>1, NodesAre
<1>3. \A n \in Below(mem, tree) : mem[n].root <=> mem[tree].parent = n
  BY <1>1 DEF RootOK
<1>4. Below(mem, tree) # {} => mem[mem[tree].parent].parent = tree
  BY <1>1 DEF RootOK
<1>5. Below(mem, tree) = {} => mem[tree].parent = tree
  BY <1>1 DEF RootOK, Below
<1>6. \A n \in Inner(mem, tree), l \in BOOLEAN :
        LET c == mem[n][Side(l)]
        IN mem[c].parent = n /\ mem[c].left = l /\ ~mem[c].root
  <2>1. \A n \in Inner(mem, tree), l \in BOOLEAN :
          LET c == Kid(mem, n, l)
          IN mem[c].parent = n /\ mem[c].left = l /\ ~mem[c].root
    BY <1>1 DEF Shape, Links, KidsOK
  <2> QED BY <2>1 DEF Kid
<1> QED BY <1>2, <1>3, <1>4, <1>5, <1>6 DEF LinksAgree

(* In a good tree the list visits the leaves in order and every separator is *)
(* fresh.                                                                    *)
LEMMA GoodList ==
  ASSUME Good(mem, tree)
  PROVE  ListIsTree /\ SeparatorsFresh
<1>1. /\ Shape(mem, tree, {}) /\ Fine(mem, tree) /\ Ring(mem, tree) /\ tree \in DOMAIN mem
      /\ RootOK(mem, tree)
  BY DEF Good, Sound, Shape, Fine, Links
<1>2. Leaves = Outer(mem, tree) /\ Internal = Inner(mem, tree) /\ Nodes = Below(mem, tree)
  BY <1>1, NodesAre
<1>3. PICK e : Ends(mem, tree, e) /\ Gaps(mem, tree, e) /\ Seps(mem, tree, e, {})
  BY <1>1 DEF Shape, Spread
<1>4. \A n \in Below(mem, tree) : FirstLeaf[n] = e[TRUE][n]
  BY <1>1, <1>3, FirstLeafEnds
<1>5. \A n \in Below(mem, tree) : LastLeaf[n] = e[FALSE][n]
  BY <1>1, <1>3, LastLeafEnds
<1>6. ASSUME NEW n \in Inner(mem, tree)
      PROVE  /\ mem[n].flink \in Below(mem, tree) /\ mem[n].blink \in Below(mem, tree)
             /\ Kid(mem, n, TRUE) = mem[n].flink /\ Kid(mem, n, FALSE) = mem[n].blink
  <2>1. \A l \in BOOLEAN : Kid(mem, n, l) \in Below(mem, tree)
    BY <1>1, Kids
  <2>2. Kid(mem, n, TRUE) = mem[n].flink /\ Kid(mem, n, FALSE) = mem[n].blink
    BY KidIs
  <2> QED BY <2>1, <2>2
<1>7. ASSUME NEW n \in Inner(mem, tree)
      PROVE  mem[LastLeaf[mem[n].flink]].flink = FirstLeaf[mem[n].blink]
  <2>1. mem[e[FALSE][Kid(mem, n, TRUE)]].flink = e[TRUE][Kid(mem, n, FALSE)]
    BY <1>3 DEF Gaps
  <2>2. mem[e[FALSE][mem[n].flink]].flink = e[TRUE][mem[n].blink]
    BY <1>6, <2>1
  <2>3. LastLeaf[mem[n].flink] = e[FALSE][mem[n].flink] /\ FirstLeaf[mem[n].blink] = e[TRUE][mem[n].blink]
    BY <1>4, <1>5, <1>6
  <2> QED BY <2>2, <2>3
<1>8. ASSUME NEW n \in Inner(mem, tree)
      PROVE  mem[n].key = LastLeaf[mem[n].flink] /\ mem[n].val = FirstLeaf[mem[n].blink]
  <2>1. \A l \in BOOLEAN : mem[n][Split(l)] = e[~l][Kid(mem, n, l)]
    BY <1>3 DEF Seps
  <2>2. mem[n].key = e[FALSE][Kid(mem, n, TRUE)]
    <3>1. mem[n][Split(TRUE)] = e[FALSE][Kid(mem, n, TRUE)]
      BY <2>1
    <3> QED BY <3>1, Sides
  <2>3. mem[n].val = e[TRUE][Kid(mem, n, FALSE)]
    <3>1. mem[n][Split(FALSE)] = e[TRUE][Kid(mem, n, FALSE)]
      BY <2>1
    <3> QED BY <3>1, Sides
  <2> QED BY <1>4, <1>5, <1>6, <2>2, <2>3
<1>9. ASSUME Below(mem, tree) # {}
      PROVE  mem[tree].flink = FirstLeaf[mem[tree].parent] /\ mem[tree].blink = LastLeaf[mem[tree].parent]
  <2>1. mem[tree].parent \in Below(mem, tree)
    BY <1>1, <1>9 DEF RootOK, Below
  <2> QED BY <1>3, <1>4, <1>5, <1>9, <2>1 DEF Gaps
<1>10. \A n \in Outer(mem, tree) \cup {tree} :
         mem[mem[n].flink].blink = n /\ mem[mem[n].blink].flink = n
  BY <1>1 DEF Ring
<1>11. ListIsTree
  BY <1>2, <1>7, <1>9, <1>10 DEF ListIsTree
<1>12. SeparatorsFresh
  BY <1>2, <1>8 DEF SeparatorsFresh
<1> QED BY <1>11, <1>12

(* In a good tree no red node has a red parent and all paths have equally  *)
(* many black nodes.                                                       *)
LEMMA GoodColours ==
  ASSUME Good(mem, tree)
  PROVE  RedBlack
<1>1. /\ Sound(mem, tree, {}) /\ Shape(mem, tree, {}) /\ Fine(mem, tree)
      /\ Apart(mem, tree, tree)
  BY DEF Good, Sound, Shape, Coloured
<1>2. Leaves = Outer(mem, tree) /\ Internal = Inner(mem, tree)
  BY <1>1, NodesAre
<1>3. PICK w \in [DOMAIN mem -> Nat] : \A n \in DOMAIN mem : w[n] = Own(mem, n)
  <2> DEFINE w == [n \in DOMAIN mem |-> Own(mem, n)]
  <2>1. w \in [DOMAIN mem -> Nat] /\ \A n \in DOMAIN mem : w[n] = Own(mem, n)
    BY DEF Own
  <2> QED BY <2>1
<1>4. PICK o \in [DOMAIN mem -> Nat] : \A n \in DOMAIN mem : o[n] = 1
  <2> DEFINE o == [n \in DOMAIN mem |-> 1]
  <2>1. o \in [DOMAIN mem -> Nat] /\ \A n \in DOMAIN mem : o[n] = 1
    OBVIOUS
  <2> QED BY <2>1
<1>5. Sums(mem, tree, w, rbtree_nblack) /\ Sums(mem, tree, o, rbtree_plength)
  BY <1>1, <1>3, <1>4, CountersAre
<1>6. PICK k \in Nat : \A n \in Outer(mem, tree) : rbtree_nblack[n] = k
  BY <1>1, <1>3, <1>5, BlackPaths
<1>7. Cardinality({rbtree_nblack[n] : n \in Leaves}) <= 1
  <2>1. PICK S : S = {rbtree_nblack[n] : n \in Leaves}
    OBVIOUS
  <2>2. S = {} \/ S = {k}
    BY <1>2, <1>6, <2>1
  <2>3. Cardinality(S) = 0 \/ Cardinality(S) = 1
    BY <2>2, FS_EmptySet, FS_Singleton
  <2>4. Cardinality(S) <= 1
    BY <2>3
  <2> QED BY <2>1, <2>4
<1>8. \A n \in Outer(mem, tree) : ~mem[n].red /\ rbtree_plength[n] <= 2 * rbtree_nblack[n]
  BY <1>1, <1>3, <1>4, <1>5, PathLengths
<1>9. ASSUME NEW n \in Inner(mem, tree), mem[n].red
      PROVE  ~mem[mem[n].flink].red /\ ~mem[mem[n].blink].red
  <2>1. ASSUME NEW l \in BOOLEAN PROVE ~mem[Kid(mem, n, l)].red
    <3>1. Kid(mem, n, l) # tree
      BY <1>1, Kids
    <3> QED BY <1>1, <1>9, <3>1 DEF Apart
  <2>2. ~mem[Kid(mem, n, TRUE)].red /\ ~mem[Kid(mem, n, FALSE)].red
    BY <2>1
  <2> QED BY <2>2, KidIs
<1> QED BY <1>2, <1>7, <1>8, <1>9 DEF RedBlack

(* The inductive invariant implies what the runs check. *)
LEMMA InvSound ==
  ASSUME ConstantsAssumption, TreeInv
  PROVE  TreeSound
<1>1. AssertsHold
  BY DEF TreeInv, AssertsHold
<1>2. CASE tree = NULL
  <2>1. DOMAIN mem = {}
    BY <1>2 DEF TreeInv
  <2>2. Leaves = {} /\ Internal = {} /\ Nodes = {}
    BY <2>1 DEF Leaves, Internal, Nodes
  <2>3. TypeOK
    BY <1>2, <2>1, <2>2 DEF TypeOK
  <2>4. LinksAgree /\ ListIsTree
    BY <1>2 DEF LinksAgree, ListIsTree
  <2>5. SeparatorsFresh
    BY <2>2 DEF SeparatorsFresh
  <2>6. RedBlack
    <3>1. {rbtree_nblack[n] : n \in Leaves} = {}
      BY <2>2
    <3>2. Cardinality({rbtree_nblack[n] : n \in Leaves}) <= 1
      BY <3>1, FS_EmptySet
    <3> QED BY <2>2, <3>2 DEF RedBlack
  <2>7. NothingLeaks
    BY <1>2, <2>1, FS_EmptySet DEF NothingLeaks
  <2> QED BY <1>1, <2>3, <2>4, <2>5, <2>6, <2>7 DEF TreeSound
<1>3. CASE tree # NULL
  <2>1. tree \in Addr /\ Good(mem, tree)
    BY <1>3 DEF TreeInv
  <2>2. TypeOK /\ LinksAgree /\ ListIsTree /\ SeparatorsFresh /\ RedBlack
    BY <2>1, GoodTypes, GoodLinks, GoodList, GoodColours
  <2>3. NothingLeaks
    <3>1. Leaves = Outer(mem, tree)
      BY <2>1, NodesAre DEF Good, Sound, Shape
    <3> QED BY <1>3, <2>1, <3>1 DEF NothingLeaks, Good, Counts
  <2> QED BY <1>1, <2>2, <2>3 DEF TreeSound
<1> QED BY <1>2, <1>3

-----------------------------------------------------------------------------
(* What rbtree_find_greater promises: a leaf with the key, or the place of  *)
(* a leaf with it, between a smaller and a greater key.                     *)
Answer(m, t, key, j) ==
  /\ j.found \in BOOLEAN
  /\ j.found => j.node \in Outer(m, t) /\ Compare(key, m[j.node].key) = 0
  /\ ~j.found =>
       /\ j.node \in Outer(m, t) \cup {t}
       /\ j.node # t => Compare(key, m[j.node].key) < 0
       /\ m[j.node].blink # t => Compare(key, m[m[j.node].blink].key) > 0

(* The key belongs below n: it is less than the last key there, and greater *)
(* than the one before the first.                                           *)
BelongsBelow(m, t, key, e, n) ==
  LET first == e[TRUE][n]
      last  == e[FALSE][n]
  IN /\ Compare(key, m[last].key) < 0
     /\ m[first].blink # t => Compare(key, m[m[first].blink].key) > 0

(* Comparisons are numbers. *)
LEMMA Comparable ==
  ASSUME NEW m, NEW t, \A n \in Outer(m, t) : m[n].key \in Key, NEW key \in Key, NEW n \in Outer(m, t)
  PROVE  Compare(key, m[n].key) \in Int
BY ComparisonAssumption

(* The descent keeps to where the key belongs. *)
LEMMA DescentStays ==
  ASSUME NEW m, NEW t, KidsOK(m, t), Ring(m, t), NEW e, Ends(m, t, e), Gaps(m, t, e), Seps(m, t, e, {}),
         \A n \in Outer(m, t) : m[n].key \in Key, NEW key \in Key,
         NEW n \in Inner(m, t), BelongsBelow(m, t, key, e, n), Compare(key, m[m[n].key].key) # 0,
         NEW l \in BOOLEAN, l <=> Compare(key, m[m[n].key].key) < 0
  PROVE  BelongsBelow(m, t, key, e, Kid(m, n, l))
<1>1. PICK x : x = m[n].key
  OBVIOUS
<1>2. x = e[FALSE][Kid(m, n, TRUE)] /\ x \in Outer(m, t)
  BY <1>1, SplitKey
<1>3. e[TRUE][n] = e[TRUE][Kid(m, n, TRUE)] /\ e[FALSE][n] = e[FALSE][Kid(m, n, FALSE)]
  BY DEF Ends
<1>4. m[x].flink = e[TRUE][Kid(m, n, FALSE)]
  BY <1>2 DEF Gaps
<1>5. m[m[x].flink].blink = x
  BY <1>2 DEF Ring
<1>6. Compare(key, m[x].key) \in Int
  BY <1>2, Comparable
<1>7. CASE l = TRUE
  <2>1. Compare(key, m[x].key) < 0
    BY <1>1, <1>7
  <2>2. BelongsBelow(m, t, key, e, Kid(m, n, TRUE))
    BY <1>2, <1>3, <2>1 DEF BelongsBelow
  <2> QED BY <1>7, <2>2
<1>8. CASE l = FALSE
  <2>3. ~(Compare(key, m[x].key) < 0) /\ Compare(key, m[x].key) # 0
    BY <1>1, <1>8
  <2>1. Compare(key, m[x].key) > 0
    BY <1>6, <2>3
  <2>2. BelongsBelow(m, t, key, e, Kid(m, n, FALSE))
    BY <1>3, <1>4, <1>5, <2>1 DEF BelongsBelow
  <2> QED BY <1>8, <2>2
<1> QED BY <1>7, <1>8

(* The descent ends with the right answer. *)
LEMMA DescentAnswers ==
  ASSUME NEW m, NEW t, Shape(m, t, {}), NEW e, Ends(m, t, e), Gaps(m, t, e), Seps(m, t, e, {}),
         \A n \in Outer(m, t) : m[n].key \in Key, NEW key \in Key,
         NEW n \in Below(m, t), BelongsBelow(m, t, key, e, n)
  PROVE  Answer(m, t, key, descend(m, key)[n])
<1>1. Fine(m, t) /\ Links(m, t) /\ Rising(m, t) /\ KidsOK(m, t) /\ Ring(m, t)
  BY DEF Shape, Links
<1>2. PICK d : d = descend(m, key)
  OBVIOUS
<1>3. DescendsBy(m, t, key, d)
  BY <1>2, DescendIs
<1> DEFINE T == {x \in Below(m, t) : BelongsBelow(m, t, key, e, x) => Answer(m, t, key, d[x])}
<1>4. ASSUME NEW x \in Outer(m, t) PROVE x \in T
  <2>1. x \in Below(m, t) /\ ~m[x].internal /\ e[TRUE][x] = x /\ e[FALSE][x] = x /\ x # t
    BY DEF Outer, Below, Ends
  <2>2. d[x] = [node |-> x, found |-> FALSE]
    BY <1>3, <2>1 DEF DescendsBy
  <2>3. PICK j : j = d[x]
    OBVIOUS
  <2>4. j.node = x /\ j.found = FALSE
    BY <2>2, <2>3
  <2>5. BelongsBelow(m, t, key, e, x) => Answer(m, t, key, j)
    BY <2>1, <2>4 DEF BelongsBelow, Answer
  <2> QED BY <2>1, <2>3, <2>5
<1>5. ASSUME NEW x \in Inner(m, t), \A l \in BOOLEAN : Kid(m, x, l) \in T PROVE x \in T
  <2>1. x \in Below(m, t) /\ m[x].internal
    BY DEF Inner
  <2>2. PICK l \in BOOLEAN : (l <=> Compare(key, m[m[x].key].key) < 0) /\ Side(Compare(key, m[m[x].key].key) < 0) = Side(l)
    <3>1. CASE Compare(key, m[m[x].key].key) < 0
      BY <3>1 DEF Side
    <3>2. CASE ~(Compare(key, m[m[x].key].key) < 0)
      BY <3>2 DEF Side
    <3> QED BY <3>1, <3>2
  <2>3. SUFFICES ASSUME BelongsBelow(m, t, key, e, x) PROVE Answer(m, t, key, d[x])
    BY <2>1
  <2>4. CASE Compare(key, m[m[x].key].key) = 0
    <3>1. d[x] = [node |-> m[x].key, found |-> TRUE]
      BY <1>3, <2>1, <2>4 DEF DescendsBy
    <3>2. m[x].key \in Outer(m, t)
      BY <1>1, SplitKey
    <3>3. PICK j : j = d[x]
      OBVIOUS
    <3>4. j.node = m[x].key /\ j.found = TRUE
      BY <3>1, <3>3
    <3>5. Answer(m, t, key, j)
      BY <2>4, <3>2, <3>4 DEF Answer
    <3> QED BY <3>3, <3>5
  <2>5. CASE Compare(key, m[m[x].key].key) # 0
    <3>1. d[x] = d[m[x][Side(l)]]
      BY <1>3, <2>1, <2>2, <2>5 DEF DescendsBy
    <3>2. d[x] = d[Kid(m, x, l)]
      BY <3>1 DEF Kid
    <3>3. BelongsBelow(m, t, key, e, Kid(m, x, l))
      BY <1>1, <2>2, <2>3, <2>5, DescentStays
    <3>4. Kid(m, x, l) \in T
      BY <1>5
    <3> QED BY <3>2, <3>3, <3>4
  <2> QED BY <2>4, <2>5
<1>6. Below(m, t) \subseteq T
  <2>1. Outer(m, t) \subseteq T
    BY <1>4
  <2> HIDE DEF T
  <2> QED BY <1>1, <1>5, <2>1, FromLeaves
<1> QED BY <1>2, <1>6

(* rbtree_find_greater finds a leaf with the key or the place for one. *)
LEMMA FindAnswers ==
  ASSUME NEW m, NEW t, Shape(m, t, {}), \A n \in Outer(m, t) : m[n].key \in Key, NEW key \in Key
  PROVE  Answer(m, t, key, rbtree_find_greater(m, t, key))
<1>1. Links(m, t) /\ Ring(m, t) /\ RootOK(m, t) /\ Spread(m, t, {})
  BY DEF Shape, Links
<1>2. PICK j : j = rbtree_find_greater(m, t, key)
  OBVIOUS
<1>3. PICK b, f : b = m[t].blink /\ f = m[t].flink
  OBVIOUS
<1>4. m[f].blink = t
  BY <1>1, <1>3 DEF Ring
<1>5. CASE m[t].parent = t
  <2>1. Outer(m, t) = {}
    BY <1>1, <1>5 DEF RootOK, Outer
  <2>2. j.node = t /\ j.found = FALSE
    BY <1>2, <1>5 DEF rbtree_find_greater
  <2>3. m[t].blink = t
    BY <1>1, <2>1 DEF Ring
  <2> QED BY <1>2, <2>2, <2>3 DEF Answer
<1>6. CASE m[t].parent # t
  <2>1. m[t].parent \in Below(m, t)
    BY <1>1, <1>6 DEF RootOK, Below
  <2>2. PICK e : Ends(m, t, e) /\ Gaps(m, t, e) /\ Seps(m, t, e, {})
    BY <1>1 DEF Spread
  <2>3. PICK a : a = m[t].parent
    OBVIOUS
  <2>4. b = e[FALSE][a] /\ f = e[TRUE][a] /\ b \in Outer(m, t)
    BY <1>3, <2>1, <2>2, <2>3 DEF Gaps, Ends
  <2>5. PICK c : c = Compare(key, m[b].key)
    OBVIOUS
  <2>6. c \in Int
    BY <2>4, <2>5, Comparable
  <2>7. CASE c = 0
    <3>1. j.node = b /\ j.found = TRUE
      BY <1>2, <1>3, <1>6, <2>5, <2>7 DEF rbtree_find_greater
    <3> QED BY <1>2, <2>4, <2>5, <2>7, <3>1 DEF Answer
  <2>8. CASE c > 0
    <3>1. j.node = t /\ j.found = FALSE
      BY <1>2, <1>3, <1>6, <2>5, <2>6, <2>8 DEF rbtree_find_greater
    <3> QED BY <1>2, <1>3, <2>5, <2>8, <3>1 DEF Answer
  <2>9. CASE c < 0
    <3>1. j = descend(m, key)[a]
      BY <1>2, <1>3, <1>6, <2>3, <2>5, <2>6, <2>9 DEF rbtree_find_greater
    <3>2. BelongsBelow(m, t, key, e, a)
      BY <1>4, <2>4, <2>5, <2>9 DEF BelongsBelow
    <3>3. Answer(m, t, key, descend(m, key)[a])
      BY <2>1, <2>2, <2>3, <3>2, DescentAnswers
    <3> QED BY <1>2, <3>1, <3>3
  <2> QED BY <2>6, <2>7, <2>8, <2>9
<1> QED BY <1>5, <1>6

-----------------------------------------------------------------------------
(* The i-th leaf of a row of N, and the head before and after them. *)
At(s, N, t, i) == IF i \in 1..N THEN s[i] ELSE t

(* The N leaves, each once, as the list has them. *)
Row(m, t, s, N) ==
  /\ N \in Nat /\ s \in [1..N -> Outer(m, t)]
  /\ \A n \in Outer(m, t) : \E i \in 1..N : s[i] = n
  /\ \A i, j \in 1..N : s[i] = s[j] => i = j
  /\ \A i \in 0..N : m[At(s, N, t, i)].flink = At(s, N, t, i + 1)

(* Their keys ascend. *)
Ascends(m, s, N) == \A i, j \in 1..N : i <= j => Compare(m[s[i]].key, m[s[j]].key) <= 0

(* A row with one leaf more. *)
Widen(s, N, i, a) == [j \in 1..N + 1 |-> IF j < i THEN s[j] ELSE IF j = i THEN a ELSE s[j - 1]]

(* A row with one leaf less. *)
Narrow(s, N, i) == [j \in 1..N - 1 |-> IF j < i THEN s[j] ELSE s[j + 1]]

(* The head is not a leaf. *)
LEMMA HeadApart == \A m, t : t \notin Outer(m, t)
BY DEF Outer, Below

(* No leaf is in two places. *)
LEMMA AtOnce ==
  ASSUME NEW m, NEW t, NEW s, NEW N, Row(m, t, s, N)
  PROVE  /\ \A i \in 0..N + 1 : At(s, N, t, i) \in Outer(m, t) \cup {t}
         /\ \A i, j \in 0..N : At(s, N, t, i) = At(s, N, t, j) => i = j
<1>1. N \in Nat /\ s \in [1..N -> Outer(m, t)] /\ \A i, j \in 1..N : s[i] = s[j] => i = j
  BY DEF Row
<1>2. \A i \in 1..N : s[i] \in Outer(m, t) /\ s[i] # t
  BY <1>1, HeadApart
<1>3. \A i \in 0..N + 1 : At(s, N, t, i) \in Outer(m, t) \cup {t}
  BY <1>2 DEF At
<1>4. ASSUME NEW i \in 0..N, NEW j \in 0..N, At(s, N, t, i) = At(s, N, t, j) PROVE i = j
  <2>1. CASE i \in 1..N /\ j \in 1..N
    BY <1>1, <1>4, <2>1 DEF At
  <2>2. CASE i \notin 1..N \/ j \notin 1..N
    BY <1>1, <1>2, <1>4, <2>2 DEF At
  <2> QED BY <2>1, <2>2
<1> QED BY <1>3, <1>4

(* Where a leaf, or the head after the last one, stands. *)
LEMMA RowPlace ==
  ASSUME NEW m, NEW t, Ring(m, t), NEW s, NEW N, Row(m, t, s, N), NEW n \in Outer(m, t) \cup {t}
  PROVE  \E i \in 1..N + 1 : n = At(s, N, t, i) /\ m[n].blink = At(s, N, t, i - 1)
<1>1. N \in Nat
  BY DEF Row
<1>2. PICK i \in 1..N + 1 : n = At(s, N, t, i)
  <2>1. CASE n = t
    BY <1>1, <2>1 DEF At
  <2>2. CASE n \in Outer(m, t)
    <3>1. PICK i \in 1..N : s[i] = n
      BY <2>2 DEF Row
    <3> QED BY <1>1, <3>1 DEF At
  <2> QED BY <2>1, <2>2
<1>3. i - 1 \in 0..N /\ (i - 1) + 1 = i
  BY <1>1
<1>4. PICK b : b = At(s, N, t, i - 1)
  OBVIOUS
<1>5. m[b].flink = n
  <2>1. m[At(s, N, t, i - 1)].flink = At(s, N, t, (i - 1) + 1)
    BY <1>3 DEF Row
  <2> QED BY <1>2, <1>3, <1>4, <2>1
<1>6. b \in Outer(m, t) \cup {t}
  BY <1>1, <1>3, <1>4, AtOnce
<1>7. m[n].blink = b
  BY <1>5, <1>6 DEF Ring
<1> QED BY <1>2, <1>4, <1>7

(* A leaf put before n in the list is put before n in the row. *)
LEMMA RowGrows ==
  ASSUME NEW m, NEW r, NEW t, NEW s, NEW N, Row(m, t, s, N), NEW leaf, leaf \notin Outer(m, t), leaf # t,
         NEW i \in 1..N + 1, NEW n, n = At(s, N, t, i), m[n].blink = At(s, N, t, i - 1),
         Enlisted(m, r, t, leaf, n), Outer(r, t) = Outer(m, t) \cup {leaf}
  PROVE  Row(r, t, Widen(s, N, i, leaf), N + 1)
<1>1. /\ N \in Nat /\ s \in [1..N -> Outer(m, t)]
      /\ \A k \in Outer(m, t) : \E j \in 1..N : s[j] = k
      /\ \A j, k \in 1..N : s[j] = s[k] => j = k
      /\ \A j \in 0..N : m[At(s, N, t, j)].flink = At(s, N, t, j + 1)
  BY DEF Row
<1>2. PICK z : z = Widen(s, N, i, leaf)
  OBVIOUS
<1>3. \A j \in 1..N + 1 : z[j] = IF j < i THEN s[j] ELSE IF j = i THEN leaf ELSE s[j - 1]
  BY <1>2 DEF Widen
<1>4. \A j \in 1..N : s[j] \in Outer(m, t) /\ s[j] # leaf
  BY <1>1
<1>5. z \in [1..N + 1 -> Outer(r, t)]
  <2>1. \A j \in 1..N + 1 : z[j] \in Outer(r, t)
    <3> SUFFICES ASSUME NEW j \in 1..N + 1 PROVE z[j] \in Outer(m, t) \cup {leaf}
      OBVIOUS
    <3>1. j < i => j \in 1..N
      BY <1>1
    <3>2. j > i => j - 1 \in 1..N
      BY <1>1
    <3> QED BY <1>1, <1>3, <1>4, <3>1, <3>2
  <2>2. z = [j \in 1..N + 1 |-> z[j]]
    BY <1>2 DEF Widen
  <2> QED BY <2>1, <2>2
<1>6. \A k \in Outer(r, t) : \E j \in 1..N + 1 : z[j] = k
  <2> SUFFICES ASSUME NEW k \in Outer(m, t) \cup {leaf} PROVE \E j \in 1..N + 1 : z[j] = k
    OBVIOUS
  <2>1. CASE k = leaf
    <3>1. z[i] = leaf
      BY <1>1, <1>3
    <3> QED BY <2>1, <3>1
  <2>2. CASE k \in Outer(m, t)
    <3>1. PICK j \in 1..N : s[j] = k
      BY <1>1, <2>2
    <3>2. CASE j < i
      <4>1. j \in 1..N + 1
        BY <1>1
      <4> QED BY <1>3, <3>1, <3>2, <4>1
    <3>3. CASE j >= i
      <4>1. j + 1 \in 1..N + 1 /\ ~(j + 1 < i) /\ j + 1 # i /\ (j + 1) - 1 = j
        BY <1>1, <3>3
      <4>2. z[j + 1] = s[j]
        BY <1>3, <4>1
      <4> QED BY <3>1, <4>1, <4>2
    <3> QED BY <1>1, <3>2, <3>3
  <2> QED BY <2>1, <2>2
<1>7. ASSUME NEW j \in 1..N + 1, NEW k \in 1..N + 1, z[j] = z[k] PROVE j = k
  <2>1. /\ z[j] = IF j < i THEN s[j] ELSE IF j = i THEN leaf ELSE s[j - 1]
        /\ z[k] = IF k < i THEN s[k] ELSE IF k = i THEN leaf ELSE s[k - 1]
    BY <1>3
  <2>2. /\ j < i => j \in 1..N
        /\ k < i => k \in 1..N
        /\ j > i => j - 1 \in 1..N
        /\ k > i => k - 1 \in 1..N
    BY <1>1
  <2>6. i \in Int /\ j \in Int /\ k \in Int
    BY <1>1
  <2>7. (j # i => z[j] # leaf) /\ (k # i => z[k] # leaf)
    BY <1>4, <2>1, <2>2, <2>6
  <2>3. CASE j = i
    <3>1. z[j] = leaf
      BY <2>1, <2>3, <2>6
    <3> QED BY <1>7, <2>3, <2>7, <3>1
  <2>4. CASE k = i
    <3>1. z[k] = leaf
      BY <2>1, <2>4, <2>6
    <3> QED BY <1>7, <2>4, <2>7, <3>1
  <2>5. CASE j # i /\ k # i
    <3> DEFINE j0 == IF j < i THEN j ELSE j - 1
               k0 == IF k < i THEN k ELSE k - 1
    <3>1. j0 \in 1..N /\ k0 \in 1..N
      BY <1>1, <2>2, <2>5
    <3>2. z[j] = s[j0] /\ z[k] = s[k0]
      BY <2>1, <2>5
    <3>3. j0 = k0
      <4> HIDE DEF j0, k0
      <4> QED BY <1>1, <1>7, <3>1, <3>2
    <3> QED BY <1>1, <2>5, <3>3
  <2> QED BY <2>3, <2>4, <2>5
<1>8. ASSUME NEW j \in 0..N + 1 PROVE r[At(z, N + 1, t, j)].flink = At(z, N + 1, t, j + 1)
  <2>1. \A k \in 0..N : At(s, N, t, k) \in Outer(m, t) \cup {t}
    BY <1>1, AtOnce
  <2>2. \A k \in 0..N : r[At(s, N, t, k)].flink = IF k = i - 1 THEN leaf ELSE At(s, N, t, k + 1)
    <3> SUFFICES ASSUME NEW k \in 0..N
                 PROVE  r[At(s, N, t, k)].flink = IF k = i - 1 THEN leaf ELSE At(s, N, t, k + 1)
      OBVIOUS
    <3>1. PICK a : a = At(s, N, t, k)
      OBVIOUS
    <3>2. r[a].flink = IF a = m[n].blink THEN leaf ELSE m[a].flink
      BY <2>1, <3>1 DEF Enlisted
    <3>3. i - 1 \in 0..N
      BY <1>1
    <3>4. a = m[n].blink <=> k = i - 1
      BY <3>1, <3>3, AtOnce
    <3>5. m[a].flink = At(s, N, t, k + 1)
      BY <1>1, <3>1
    <3> QED BY <3>1, <3>2, <3>4, <3>5
  <2>3. CASE j < i
    <3>1. j \in 0..N
      BY <1>1, <2>3
    <3>2. At(z, N + 1, t, j) = At(s, N, t, j)
      BY <1>1, <1>3, <2>3, <3>1 DEF At
    <3>3. CASE j = i - 1
      <4>1. At(z, N + 1, t, j + 1) = leaf
        BY <1>1, <1>3, <3>3 DEF At
      <4> QED BY <2>2, <3>1, <3>2, <3>3, <4>1
    <3>4. CASE j # i - 1
      <4>3. N \in Int /\ j \in Int /\ i \in Int /\ j >= 0 /\ i <= N + 1
        BY <1>1
      <4> HIDE <1>1
      <4>1. j + 1 < i /\ j + 1 \in 1..N
        BY <2>3, <3>4, <4>3
      <4>2. At(z, N + 1, t, j + 1) = At(s, N, t, j + 1)
        BY <1>1, <1>3, <4>1 DEF At
      <4> QED BY <2>2, <3>1, <3>2, <3>4, <4>2
    <3> QED BY <3>3, <3>4
  <2>4. CASE j = i
    <3>1. At(z, N + 1, t, j) = leaf
      BY <1>1, <1>3, <2>4 DEF At
    <3>2. r[leaf].flink = n
      BY DEF Enlisted
    <3>3. At(z, N + 1, t, j + 1) = n
      <4>1. CASE i = N + 1
        BY <1>1, <2>4, <4>1 DEF At
      <4>2. CASE i \in 1..N
        <5>1. i + 1 \in 1..N + 1 /\ ~(i + 1 < i) /\ i + 1 # i /\ (i + 1) - 1 = i
          BY <1>1, <4>2
        <5>2. z[i + 1] = s[i]
          BY <1>3, <5>1
        <5> QED BY <2>4, <4>2, <5>1, <5>2 DEF At
      <4> QED BY <1>1, <4>1, <4>2
    <3> QED BY <3>1, <3>2, <3>3
  <2>5. CASE j > i
    <3>1. j \in 1..N + 1 /\ j - 1 \in 1..N /\ j - 1 # i - 1 /\ ~(j < i) /\ j # i /\ (j - 1) + 1 = j /\ j - 1 \in 0..N
      BY <1>1, <2>5
    <3>2. At(z, N + 1, t, j) = At(s, N, t, j - 1)
      BY <1>3, <3>1 DEF At
    <3>3. r[At(z, N + 1, t, j)].flink = At(s, N, t, j)
      BY <2>2, <3>1, <3>2
    <3>4. At(z, N + 1, t, j + 1) = At(s, N, t, j)
      <4>1. CASE j = N + 1
        BY <1>1, <4>1 DEF At
      <4>2. CASE j # N + 1
        <5>1. j + 1 \in 1..N + 1 /\ ~(j + 1 < i) /\ j + 1 # i /\ (j + 1) - 1 = j /\ j \in 1..N
          BY <1>1, <2>5, <3>1, <4>2
        <5>2. z[j + 1] = s[j]
          BY <1>3, <5>1
        <5> QED BY <5>1, <5>2 DEF At
      <4> QED BY <4>1, <4>2
    <3> QED BY <3>3, <3>4
  <2> QED BY <1>1, <2>3, <2>4, <2>5
<1>9. N + 1 \in Nat
  BY <1>1
<1>10. Row(r, t, z, N + 1)
  BY <1>5, <1>6, <1>7, <1>8, <1>9 DEF Row
<1> QED BY <1>2, <1>10

-----------------------------------------------------------------------------
(* The turns of rbtree_find_value's walk.                                  *)
WalkOnce(m, n, value, c) == IF WalksOn(c) THEN value_turn(m, n, value, c) ELSE c

(* w[i] is the walk after i turns. *)
TurnsAre(m, n, value, C, w) ==
  w[0] = WalkAt(n, FALSE) /\ \A i \in 1..C : w[i] = WalkOnce(m, n, value, w[i - 1])

(* What the recursive function of the model gives for each turn. *)
LEMMA WalkTurns ==
  ASSUME NEW m, NEW n, NEW value, NEW C, C = 2 * Cardinality(DOMAIN m), C \in Nat
  PROVE  TurnsAre(m, n, value, C, value_turns(m, n, value))
<1> DEFINE s == WalkAt(n, FALSE)
           T == {j \in 0..C : \E f : f = [i \in 0..j |-> IF i = 0 THEN s ELSE WalkOnce(m, n, value, f[i - 1])]}
<1>1. 0 \in T
  <2> DEFINE f == [i \in 0..0 |-> s]
  <2>1. f = [i \in 0..0 |-> IF i = 0 THEN s ELSE WalkOnce(m, n, value, f[i - 1])]
    <3> HIDE DEF s
    <3>1. \A i \in 0..0 : i = 0
      OBVIOUS
    <3> QED BY <3>1
  <2> HIDE DEF f, s
  <2> QED BY <2>1
<1>2. ASSUME NEW j \in 0..C - 1, j \in T PROVE j + 1 \in T
  <2>1. PICK f : f = [i \in 0..j |-> IF i = 0 THEN s ELSE WalkOnce(m, n, value, f[i - 1])]
    BY <1>2
  <2> DEFINE g == [i \in 0..j + 1 |-> IF i = j + 1 THEN WalkOnce(m, n, value, f[j]) ELSE f[i]]
  <2> HIDE DEF s
  <2>2. \A i \in 0..j : f[i] = IF i = 0 THEN s ELSE WalkOnce(m, n, value, f[i - 1])
    BY <2>1
  <2>3. \A i \in 0..j : g[i] = f[i]
    OBVIOUS
  <2>4. g[j + 1] = WalkOnce(m, n, value, f[j])
    OBVIOUS
  <2>5. ASSUME NEW i \in 0..j + 1
        PROVE  g[i] = IF i = 0 THEN s ELSE WalkOnce(m, n, value, g[i - 1])
    <3> HIDE DEF g
    <3>1. CASE i = j + 1
      BY <3>1, <2>3, <2>4
    <3>2. CASE i \in 0..j
      <4>1. i # 0 => i - 1 \in 0..j
        BY <3>2
      <4> QED BY <3>2, <4>1, <2>2, <2>3
    <3> QED BY <3>1, <3>2
  <2>6. DOMAIN g = 0..j + 1 /\ g = [i \in 0..j + 1 |-> g[i]]
    OBVIOUS
  <2> HIDE DEF g
  <2>7. g = [i \in 0..j + 1 |-> IF i = 0 THEN s ELSE WalkOnce(m, n, value, g[i - 1])]
    BY <2>5, <2>6
  <2>8. j + 1 \in 0..C
    OBVIOUS
  <2> QED BY <2>7, <2>8
<1>3. C \in T
  <2> HIDE DEF T
  <2>1. 0..C \subseteq T
    BY <1>1, <1>2, UpTo
  <2> QED BY <2>1
<1>4. PICK f : f = [i \in 0..C |-> IF i = 0 THEN s ELSE WalkOnce(m, n, value, f[i - 1])]
  BY <1>3
<1>5. value_turns(m, n, value)
        = [i \in 0..C |-> IF i = 0 THEN s ELSE WalkOnce(m, n, value, value_turns(m, n, value)[i - 1])]
  BY <1>4 DEF value_turns, WalkOnce
<1>6. 0 \in 0..C /\ \A i \in 1..C : i \in 0..C /\ i # 0
  OBVIOUS
<1>7. PICK w : w = value_turns(m, n, value)
  OBVIOUS
<1>8. w[0] = s /\ \A i \in 1..C : w[i] = WalkOnce(m, n, value, w[i - 1])
  BY <1>5, <1>6, <1>7
<1> QED BY <1>7, <1>8 DEF TurnsAre

-----------------------------------------------------------------------------
(* The list from the j-th leaf on, past the head, to the leaf after it.    *)
Circle(s, N, t, j) == [q \in 0..N + 2 |-> At(s, N, t, IF j + q <= N + 1 THEN j + q ELSE j + q - N - 1)]

(* f goes once round the list, from n to the place after n.                *)
OnCircle(m, t, n, f, N) ==
  /\ N \in Nat \ {0} /\ f \in [0..N + 2 -> Outer(m, t) \cup {t}]
  /\ f[0] = n /\ f[N + 1] = n
  /\ \A x \in Outer(m, t) \cup {t} : \E q \in 1..N + 1 : f[q] = x
  /\ \A q \in 0..N + 1 : m[f[q]].flink = f[q + 1] /\ m[f[q + 1]].blink = f[q]

(* Which leaf of the row is at a place of the circle. *)
LEMMA CircleAt ==
  ASSUME NEW m, NEW t, NEW s, NEW N, Row(m, t, s, N), NEW j \in 1..N, NEW f, f = Circle(s, N, t, j)
  PROVE  /\ \A q \in 0..N + 2 : j + q <= N => f[q] = s[j + q]
         /\ \A q \in 0..N + 2 : j + q = N + 1 => f[q] = t
         /\ \A q \in 0..N + 2 : j + q > N + 1 /\ j + q - N - 1 <= N => f[q] = s[j + q - N - 1]
         /\ \A q \in 0..N + 2 : f[q] = At(s, N, t, IF j + q <= N + 1 THEN j + q ELSE j + q - N - 1)
<1>1. N \in Nat
  BY DEF Row
<1>2. \A q \in 0..N + 2 : f[q] = At(s, N, t, IF j + q <= N + 1 THEN j + q ELSE j + q - N - 1)
  BY <1>1 DEF Circle
<1>3. ASSUME NEW q \in 0..N + 2, j + q <= N PROVE f[q] = s[j + q]
  <2>1. j + q <= N + 1 /\ j + q \in 1..N
    BY <1>1, <1>3
  <2> QED BY <1>2, <2>1 DEF At
<1>4. ASSUME NEW q \in 0..N + 2, j + q = N + 1 PROVE f[q] = t
  <2>1. j + q <= N + 1 /\ j + q \notin 1..N
    BY <1>1, <1>4
  <2> QED BY <1>2, <2>1 DEF At
<1>5. ASSUME NEW q \in 0..N + 2, j + q > N + 1, j + q - N - 1 <= N PROVE f[q] = s[j + q - N - 1]
  <2>1. ~(j + q <= N + 1) /\ j + q - N - 1 \in 1..N
    BY <1>1, <1>5
  <2> QED BY <1>2, <2>1 DEF At
<1> QED BY <1>2, <1>3, <1>4, <1>5

(* From any leaf the list is a circle. *)
LEMMA CircleIs ==
  ASSUME NEW m, NEW t, Ring(m, t), NEW s, NEW N, Row(m, t, s, N), NEW j \in 1..N
  PROVE  OnCircle(m, t, s[j], Circle(s, N, t, j), N)
<1>1. N \in Nat \ {0} /\ s \in [1..N -> Outer(m, t)] /\ \A x \in Outer(m, t) : \E i \in 1..N : s[i] = x
  BY DEF Row
<1>2. PICK f : f = Circle(s, N, t, j)
  OBVIOUS
<1>3. DOMAIN f = 0..N + 2 /\ f = [q \in 0..N + 2 |-> f[q]]
  BY <1>2 DEF Circle
<1>4. /\ \A q \in 0..N + 2 : j + q <= N => f[q] = s[j + q]
      /\ \A q \in 0..N + 2 : j + q = N + 1 => f[q] = t
      /\ \A q \in 0..N + 2 : j + q > N + 1 /\ j + q - N - 1 <= N => f[q] = s[j + q - N - 1]
      /\ \A q \in 0..N + 2 : f[q] = At(s, N, t, IF j + q <= N + 1 THEN j + q ELSE j + q - N - 1)
  BY <1>2, CircleAt
<1>5. \A i \in 0..N + 1 : At(s, N, t, i) \in Outer(m, t) \cup {t}
  BY AtOnce
<1>6. \A q \in 0..N + 2 : f[q] \in Outer(m, t) \cup {t}
  <2> SUFFICES ASSUME NEW q \in 0..N + 2 PROVE f[q] \in Outer(m, t) \cup {t}
    OBVIOUS
  <2>1. PICK i : i = IF j + q <= N + 1 THEN j + q ELSE j + q - N - 1
    OBVIOUS
  <2>2. i \in 0..N + 1
    BY <1>1, <2>1
  <2>3. f[q] = At(s, N, t, i)
    BY <1>4, <2>1
  <2> QED BY <1>5, <2>2, <2>3
<1>7. f \in [0..N + 2 -> Outer(m, t) \cup {t}]
  BY <1>3, <1>6
<1>8. f[0] = s[j] /\ f[N + 1] = s[j]
  <2>1. 0 \in 0..N + 2 /\ N + 1 \in 0..N + 2 /\ j + 0 <= N /\ j + (N + 1) > N + 1 /\ j + (N + 1) - N - 1 = j
    BY <1>1
  <2> QED BY <1>1, <1>4, <2>1
<1>9. ASSUME NEW x \in Outer(m, t) \cup {t} PROVE \E q \in 1..N + 1 : f[q] = x
  <2>1. CASE x = t
    <3>1. N + 1 - j \in 1..N + 1 /\ N + 1 - j \in 0..N + 2 /\ j + (N + 1 - j) = N + 1
      BY <1>1
    <3> QED BY <1>4, <2>1, <3>1
  <2>2. CASE x \in Outer(m, t)
    <3>1. PICK i \in 1..N : s[i] = x
      BY <1>1, <2>2
    <3>2. CASE i > j
      <4>1. PICK q : q = i - j
        OBVIOUS
      <4>2. q \in 1..N + 1 /\ q \in 0..N + 2 /\ j + q = i /\ j + q <= N
        BY <1>1, <3>2, <4>1
      <4>3. f[q] = s[j + q]
        BY <1>4, <4>2
      <4> QED BY <3>1, <4>2, <4>3
    <3>3. CASE i <= j
      <4>1. PICK q : q = i - j + N + 1
        OBVIOUS
      <4>2. q \in 1..N + 1 /\ q \in 0..N + 2 /\ j + q - N - 1 = i /\ j + q > N + 1 /\ j + q - N - 1 <= N
        BY <1>1, <3>3, <4>1
      <4>3. f[q] = s[j + q - N - 1]
        BY <1>4, <4>2
      <4> QED BY <3>1, <4>2, <4>3
    <3> QED BY <1>1, <3>2, <3>3
  <2> QED BY <2>1, <2>2
<1>10. ASSUME NEW q \in 0..N + 1 PROVE m[f[q]].flink = f[q + 1] /\ m[f[q + 1]].blink = f[q]
  <2>1. q \in 0..N + 2 /\ q + 1 \in 0..N + 2 /\ q \in Int
    BY <1>1
  <2>2. \A i \in 0..N : m[At(s, N, t, i)].flink = At(s, N, t, i + 1)
    BY DEF Row
  <2>3. PICK i \in 0..N : f[q] = At(s, N, t, i) /\ f[q + 1] = At(s, N, t, i + 1)
    <3>1. CASE j + q <= N
      <4>1. j + q \in 0..N /\ j + q <= N + 1 /\ j + (q + 1) = (j + q) + 1 /\ j + (q + 1) <= N + 1
        BY <1>1, <3>1
      <4>2. f[q] = At(s, N, t, j + q)
        BY <1>4, <2>1, <3>1, <4>1
      <4>3. f[q + 1] = At(s, N, t, j + (q + 1))
        BY <1>4, <2>1, <4>1
      <4> QED BY <4>1, <4>2, <4>3
    <3>2. CASE j + q = N + 1
      <4>1. j + (q + 1) - N - 1 = 1 /\ ~(j + (q + 1) <= N + 1)
        BY <1>1, <3>2
      <4>2. f[q] = t /\ t = At(s, N, t, 0)
        BY <1>4, <2>1, <3>2 DEF At
      <4>3. f[q + 1] = At(s, N, t, 1)
        BY <1>4, <2>1, <4>1
      <4> QED BY <1>1, <4>2, <4>3
    <3>3. CASE j + q > N + 1
      <4>1. /\ j + q - N - 1 \in 0..N /\ j + (q + 1) - N - 1 = (j + q - N - 1) + 1
            /\ ~(j + (q + 1) <= N + 1) /\ ~(j + q <= N + 1)
        BY <1>1, <3>3
      <4> QED BY <1>4, <2>1, <4>1
    <3> QED BY <1>1, <3>1, <3>2, <3>3
  <2>4. m[f[q]].flink = f[q + 1]
    BY <2>2, <2>3
  <2>5. f[q] \in Outer(m, t) \cup {t}
    BY <1>6, <2>1
  <2> QED BY <2>4, <2>5 DEF Ring
<1> QED BY <1>1, <1>2, <1>7, <1>8, <1>9, <1>10 DEF OnCircle

-----------------------------------------------------------------------------
(* What the walk knows of the places a to b: the value is not there, and   *)
(* the key is n's.                                                         *)
Misses(m, f, value, a, b) == \A q \in a..b : m[f[q]].val # value

(* n's key is at every place from a to b. *)
Like(m, f, a, b) == \A q \in a..b : m[f[q]].key = m[f[0]].key

(* The places behind b were looked at on the way back, those up to k on    *)
(* the way forward.                                                        *)
TurnedAt(m, f, N, value, b) ==
  /\ b \in 1..N /\ m[f[b]].key # m[f[0]].key
  /\ Misses(m, f, value, b + 1, N + 1) /\ Like(m, f, b + 1, N + 1)

(* On the way forward the walk came to place k and ended at none before. *)
PassedTo(m, f, N, value, k) ==
  /\ k \in 1..N + 1 /\ Misses(m, f, value, 1, k - 1) /\ Like(m, f, 2, k)

(* The walk is on the way back after i turns. *)
GoesBack(m, f, N, value, c, i) ==
  /\ i <= N /\ c = WalkAt(f[N + 1 - i], FALSE)
  /\ Misses(m, f, value, N + 2 - i, N + 1) /\ Like(m, f, N + 1 - i, N + 1)

(* It is on the way forward. *)
GoesForward(m, f, N, value, c, i) ==
  \E b, k : /\ TurnedAt(m, f, N, value, b) /\ PassedTo(m, f, N, value, k)
            /\ c = WalkAt(f[k], TRUE) /\ i = N - b + k

(* It ended at a leaf with the value. *)
HasFound(m, f, N, value, c) ==
  \E q \in 1..N + 1 : /\ c.result = f[q] /\ m[f[q]].val = value
                      /\ q = 1 \/ m[f[q]].key = m[f[0]].key

(* It ended where the key changes in both directions. *)
HasMissed(m, f, N, value, c) ==
  /\ c.result = NULL
  /\ \E b, k : /\ TurnedAt(m, f, N, value, b) /\ PassedTo(m, f, N, value, k)
               /\ m[f[k]].val # value /\ m[f[k + 1]].key # m[f[0]].key

(* The walk after i turns. *)
Walks(m, f, N, value, c, i) ==
  \/ GoesBack(m, f, N, value, c, i) \/ GoesForward(m, f, N, value, c, i)
  \/ HasFound(m, f, N, value, c) \/ HasMissed(m, f, N, value, c)

(* Some place stops the walk. *)
Stops(m, f, N, value) == ~(Misses(m, f, value, 1, N + 1) /\ Like(m, f, 1, N + 1))

(* A turn on the way back. At the last place of the circle it does not go  *)
(* on: something would have stopped it.                                    *)
LEMMA WalkBack ==
  ASSUME NEW m, NEW t, NEW n, NEW f, NEW N, OnCircle(m, t, n, f, N), NEW value,
         Stops(m, f, N, value), NEW c, NEW i \in Nat, GoesBack(m, f, N, value, c, i)
  PROVE  Walks(m, f, N, value, WalkOnce(m, n, value, c), i + 1)
<1>1. /\ N \in Nat \ {0} /\ f[0] = n /\ f[N + 1] = n
      /\ \A q \in 0..N + 1 : m[f[q]].flink = f[q + 1] /\ m[f[q + 1]].blink = f[q]
  BY DEF OnCircle
<1>2. PICK p : p = N + 1 - i
  OBVIOUS
<1>3. p \in 1..N + 1 /\ p - 1 \in 0..N /\ N + 2 - i = p + 1 /\ i = N + 1 - p /\ (p - 1) + 1 = p
  BY <1>1, <1>2 DEF GoesBack
<1>4. c = WalkAt(f[p], FALSE) /\ Misses(m, f, value, p + 1, N + 1) /\ Like(m, f, p, N + 1)
  BY <1>2, <1>3 DEF GoesBack
<1>5. c.ptr = f[p] /\ ~c.next /\ WalksOn(c)
  BY <1>4 DEF WalkAt, WalksOn
<1>6. m[f[p]].blink = f[p - 1] /\ m[n].flink = f[1]
  BY <1>1, <1>3
<1>7. CASE m[f[p]].val = value
  <2>1. WalkOnce(m, n, value, c).result = f[p]
    BY <1>4, <1>5, <1>7 DEF WalkOnce, value_turn, WalkEnded, WalkAt
  <2>2. m[f[p]].key = m[f[0]].key
    BY <1>3, <1>4 DEF Like
  <2> QED BY <1>3, <1>7, <2>1, <2>2 DEF Walks, HasFound
<1>8. CASE m[f[p]].val # value /\ m[f[p - 1]].key # m[n].key
  <2>1. WalkOnce(m, n, value, c) = WalkAt(f[1], TRUE)
    BY <1>5, <1>6, <1>8 DEF WalkOnce, value_turn
  <2>2. PICK b : b = p - 1
    OBVIOUS
  <2>3. b \in 1..N /\ b + 1 = p /\ i + 1 = N - b + 1
    BY <1>1, <1>3, <1>8, <2>2
  <2>4. TurnedAt(m, f, N, value, b)
    <3>1. Misses(m, f, value, p, N + 1)
      BY <1>1, <1>3, <1>4, <1>8 DEF Misses
    <3> QED BY <1>1, <1>4, <1>8, <2>2, <2>3, <3>1 DEF TurnedAt
  <2>5. PassedTo(m, f, N, value, 1)
    BY <1>1 DEF PassedTo, Misses, Like
  <2>6. GoesForward(m, f, N, value, WalkOnce(m, n, value, c), i + 1)
    BY <2>1, <2>3, <2>4, <2>5 DEF GoesForward
  <2> QED BY <2>6 DEF Walks
<1>9. CASE m[f[p]].val # value /\ m[f[p - 1]].key = m[n].key
  <2>1. WalkOnce(m, n, value, c) = WalkAt(f[p - 1], FALSE)
    BY <1>5, <1>6, <1>9 DEF WalkOnce, value_turn
  <2>2. Misses(m, f, value, p, N + 1)
    BY <1>1, <1>3, <1>4, <1>9 DEF Misses
  <2>3. p # 1
    BY <1>4, <2>2 DEF Stops
  <2>4. N + 1 - (i + 1) = p - 1 /\ N + 2 - (i + 1) = p /\ i + 1 <= N
    BY <1>1, <1>3, <2>3
  <2>5. Like(m, f, p - 1, N + 1)
    BY <1>1, <1>3, <1>4, <1>9 DEF Like
  <2>6. GoesBack(m, f, N, value, WalkOnce(m, n, value, c), i + 1)
    BY <2>1, <2>2, <2>4, <2>5 DEF GoesBack
  <2> QED BY <2>6 DEF Walks
<1> QED BY <1>7, <1>8, <1>9

(* A turn on the way forward. It does not pass n again: the leaf where it  *)
(* turned has another key.                                                 *)
LEMMA WalkForward ==
  ASSUME NEW m, NEW t, NEW n, NEW f, NEW N, OnCircle(m, t, n, f, N), NEW value,
         NEW c, NEW i \in Nat, GoesForward(m, f, N, value, c, i)
  PROVE  Walks(m, f, N, value, WalkOnce(m, n, value, c), i + 1)
<1>1. /\ N \in Nat \ {0} /\ f[0] = n /\ f[N + 1] = n
      /\ \A q \in 0..N + 1 : m[f[q]].flink = f[q + 1] /\ m[f[q + 1]].blink = f[q]
  BY DEF OnCircle
<1>2. PICK b, k : /\ TurnedAt(m, f, N, value, b) /\ PassedTo(m, f, N, value, k)
                  /\ c = WalkAt(f[k], TRUE) /\ i = N - b + k
  BY DEF GoesForward
<1>3. /\ b \in 1..N /\ k \in 1..N + 1 /\ m[f[b]].key # m[f[0]].key
      /\ Misses(m, f, value, 1, k - 1) /\ Like(m, f, 2, k)
  BY <1>2 DEF TurnedAt, PassedTo
<1>4. c.ptr = f[k] /\ c.next /\ WalksOn(c)
  BY <1>2 DEF WalkAt, WalksOn
<1>5. m[f[k]].flink = f[k + 1]
  BY <1>1, <1>3
<1>6. CASE m[f[k]].val = value
  <2>1. WalkOnce(m, n, value, c).result = f[k]
    BY <1>2, <1>4, <1>6 DEF WalkOnce, value_turn, WalkEnded, WalkAt
  <2>2. k = 1 \/ m[f[k]].key = m[f[0]].key
    BY <1>1, <1>3 DEF Like
  <2> QED BY <1>3, <1>6, <2>1, <2>2 DEF Walks, HasFound
<1>7. CASE m[f[k]].val # value /\ m[f[k + 1]].key # m[n].key
  <2>1. WalkOnce(m, n, value, c).result = NULL
    BY <1>2, <1>4, <1>5, <1>7 DEF WalkOnce, value_turn, WalkEnded, WalkAt
  <2> QED BY <1>1, <1>2, <1>7, <2>1 DEF Walks, HasMissed
<1>8. CASE m[f[k]].val # value /\ m[f[k + 1]].key = m[n].key
  <2>1. WalkOnce(m, n, value, c) = WalkAt(f[k + 1], TRUE)
    BY <1>4, <1>5, <1>8 DEF WalkOnce, value_turn
  <2>2. Like(m, f, 2, k + 1)
    BY <1>1, <1>3, <1>8 DEF Like
  <2>3. k # N + 1
    <3>1. ASSUME k = N + 1 PROVE FALSE
      <4>1. f[N + 2] = f[1]
        <5>1. 0 \in 0..N + 1 /\ N + 1 \in 0..N + 1 /\ 0 + 1 = 1 /\ (N + 1) + 1 = N + 2
          BY <1>1
        <5> QED BY <1>1, <5>1
      <4>2. m[f[1]].key = m[f[0]].key
        BY <1>1, <1>8, <3>1, <4>1
      <4>3. m[f[b]].key = m[f[0]].key
        BY <1>1, <1>3, <2>2, <3>1, <4>2 DEF Like
      <4> QED BY <1>3, <4>3
    <3> QED BY <3>1
  <2>4. PassedTo(m, f, N, value, k + 1)
    <3>1. Misses(m, f, value, 1, (k + 1) - 1)
      BY <1>1, <1>3, <1>8 DEF Misses
    <3>2. k + 1 \in 1..N + 1
      BY <1>1, <1>3, <2>3
    <3> QED BY <2>2, <3>1, <3>2 DEF PassedTo
  <2>5. i + 1 = N - b + (k + 1)
    BY <1>1, <1>2, <1>3
  <2>6. GoesForward(m, f, N, value, WalkOnce(m, n, value, c), i + 1)
    BY <1>2, <2>1, <2>4, <2>5 DEF GoesForward
  <2> QED BY <2>6 DEF Walks
<1> QED BY <1>6, <1>7, <1>8

(* A turn of the walk; the addresses are not those of the two answers.     *)
LEMMA WalkStep ==
  ASSUME NEW m, NEW t, NEW n, NEW f, NEW N, OnCircle(m, t, n, f, N), NEW value,
         Stops(m, f, N, value), NEW c, NEW i \in Nat, Walks(m, f, N, value, c, i),
         \A q \in 1..N + 1 : f[q] \in Nat \ {0}
  PROVE  Walks(m, f, N, value, WalkOnce(m, n, value, c), i + 1)
<1>1. CASE GoesBack(m, f, N, value, c, i)
  BY <1>1, WalkBack
<1>2. CASE GoesForward(m, f, N, value, c, i)
  BY <1>2, WalkForward
<1>3. CASE HasFound(m, f, N, value, c)
  <2>1. c.result \in Nat
    BY <1>3 DEF HasFound
  <2>2. WalkOnce(m, n, value, c) = c
    BY <2>1 DEF WalkOnce, WalksOn, Endless
  <2> QED BY <1>3, <2>2 DEF Walks
<1>4. CASE HasMissed(m, f, N, value, c)
  <2>1. c.result = 0
    BY <1>4 DEF HasMissed, NULL
  <2>2. WalkOnce(m, n, value, c) = c
    BY <2>1 DEF WalkOnce, WalksOn, Endless
  <2> QED BY <1>4, <2>2 DEF Walks
<1> QED BY <1>1, <1>2, <1>3, <1>4 DEF Walks

-----------------------------------------------------------------------------
(* What rbtree_find_value answers when some place stops it.                *)
LEMMA WalkEnds ==
  ASSUME NEW m, NEW t, NEW n, NEW f, NEW N, OnCircle(m, t, n, f, N), NEW value,
         Stops(m, f, N, value), \A q \in 1..N + 1 : f[q] \in Nat \ {0},
         NEW C, C = 2 * Cardinality(DOMAIN m), C = 4 * N,
         NEW c, c = value_turns(m, n, value)[C]
  PROVE  HasFound(m, f, N, value, c) \/ HasMissed(m, f, N, value, c)
<1> DEFINE w == value_turns(m, n, value)
           T == {i \in 0..C : Walks(m, f, N, value, w[i], i)}
<1>1. N \in Nat \ {0} /\ C \in Nat /\ f[0] = n /\ f[N + 1] = n
  BY DEF OnCircle
<1>2. w[0] = WalkAt(n, FALSE) /\ \A i \in 1..C : w[i] = WalkOnce(m, n, value, w[i - 1])
  <2>1. TurnsAre(m, n, value, C, value_turns(m, n, value))
    BY <1>1, WalkTurns
  <2> QED BY <2>1 DEF TurnsAre
<1> HIDE DEF w
<1>3. 0 \in T
  <2>1. GoesBack(m, f, N, value, w[0], 0)
    <3>1. N + 1 - 0 = N + 1 /\ N + 2 - 0 = N + 2 /\ 0 <= N
      BY <1>1
    <3>2. Misses(m, f, value, N + 2, N + 1) /\ Like(m, f, N + 1, N + 1)
      BY <1>1 DEF Misses, Like
    <3> QED BY <1>1, <1>2, <3>1, <3>2 DEF GoesBack
  <2> QED BY <1>1, <2>1 DEF Walks
<1>4. ASSUME NEW i \in 0..C - 1, i \in T PROVE i + 1 \in T
  <2>1. i \in Nat /\ i + 1 \in 1..C /\ i + 1 \in 0..C /\ (i + 1) - 1 = i
    BY <1>1
  <2>2. w[i + 1] = WalkOnce(m, n, value, w[i])
    BY <1>2, <2>1
  <2>3. Walks(m, f, N, value, w[i], i)
    BY <1>4
  <2>4. Walks(m, f, N, value, WalkOnce(m, n, value, w[i]), i + 1)
    BY <2>1, <2>3, WalkStep
  <2> QED BY <2>1, <2>2, <2>4
<1>5. C \in T
  <2> HIDE DEF T
  <2>1. 0..C \subseteq T
    BY <1>1, <1>3, <1>4, UpTo
  <2> QED BY <1>1, <2>1
<1>6. Walks(m, f, N, value, c, C)
  BY <1>5 DEF w
<1>7. ~GoesBack(m, f, N, value, c, C)
  <2>1. ~(C <= N)
    BY <1>1
  <2> QED BY <2>1 DEF GoesBack
<1>8. ~GoesForward(m, f, N, value, c, C)
  <2>1. ASSUME NEW b \in 1..N, NEW k \in 1..N + 1, C = N - b + k PROVE FALSE
    BY <1>1, <2>1
  <2> QED BY <2>1 DEF GoesForward, TurnedAt, PassedTo
<1> QED BY <1>6, <1>7, <1>8 DEF Walks

(* It goes round for ever when no place does.                              *)
LEMMA WalkRound ==
  ASSUME NEW m, NEW S, NEW n \in S, NEW value, \A x \in S : m[x].blink \in S,
         \A x \in S : m[x].key = m[n].key /\ m[x].val # value,
         NEW C \in Nat, C = 2 * Cardinality(DOMAIN m)
  PROVE  rbtree_find_value(m, n, value) = Endless
<1> DEFINE w == value_turns(m, n, value)
           T == {i \in 0..C : \E x \in S : w[i] = WalkAt(x, FALSE)}
<1>1. w[0] = WalkAt(n, FALSE) /\ \A i \in 1..C : w[i] = WalkOnce(m, n, value, w[i - 1])
  <2>1. TurnsAre(m, n, value, C, value_turns(m, n, value))
    BY WalkTurns
  <2> QED BY <2>1 DEF TurnsAre
<1>2. rbtree_find_value(m, n, value) = w[C].result
  BY DEF rbtree_find_value
<1> HIDE DEF w
<1>3. 0 \in T
  <2>1. 0 \in 0..C
    OBVIOUS
  <2> QED BY <1>1, <2>1
<1>4. ASSUME NEW i \in 0..C - 1, i \in T PROVE i + 1 \in T
  <2>1. i + 1 \in 1..C /\ i + 1 \in 0..C /\ (i + 1) - 1 = i
    OBVIOUS
  <2>2. PICK x \in S : w[i] = WalkAt(x, FALSE)
    BY <1>4
  <2>3. w[i + 1] = WalkOnce(m, n, value, w[i])
    BY <1>1, <2>1
  <2>4. w[i + 1] = WalkAt(m[x].blink, FALSE)
    BY <2>2, <2>3 DEF WalkOnce, WalksOn, WalkAt, value_turn
  <2> QED BY <2>1, <2>4
<1>5. C \in T
  <2> HIDE DEF T
  <2>1. 0..C \subseteq T
    BY <1>3, <1>4, UpTo
  <2> QED BY <2>1
<1>6. PICK x \in S : w[C] = WalkAt(x, FALSE)
  BY <1>5
<1> QED BY <1>2, <1>6 DEF WalkAt

-----------------------------------------------------------------------------
(* As many leaves as places in the row.                                    *)
LEMMA RowCounts ==
  ASSUME NEW m, NEW t, NEW s, NEW N, Row(m, t, s, N)
  PROVE  Cardinality(Outer(m, t)) = N
<1>1. N \in Nat /\ s \in Bijection(1..N, Outer(m, t))
  <2>1. N \in Nat /\ s \in [1..N -> Outer(m, t)] /\ DOMAIN s = 1..N
    BY DEF Row
  <2>2. s \in Injection(1..N, Outer(m, t))
    BY <2>1 DEF Row, Injection, IsInjective
  <2>3. s \in Surjection(1..N, Outer(m, t))
    BY <2>1 DEF Row, Surjection
  <2> QED BY <2>1, <2>2, <2>3 DEF Bijection
<1>2. ExistsBijection(1..N, Outer(m, t))
  BY <1>1 DEF ExistsBijection
<1> QED BY <1>1, <1>2, FS_CountingElements
=============================================================================
