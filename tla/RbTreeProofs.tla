---------------------------- MODULE RbTreeProofs ----------------------------
(***************************************************************************)
(* Theorems about RbTree, for any calls on trees of any size: deletion     *)
(* keeps the tree in shape, all memory is given back, an insertion that    *)
(* fails leaves the tree as it was, every key and value there is found,    *)
(* and the calls are those of a sorted sequence.                           *)
(***************************************************************************)
EXTENDS RbTreeInsertProofs, SequenceTheorems

(* The same nodes, internal and external. *)
SameSets(m, r, t) ==
  Below(r, t) = Below(m, t) /\ Inner(r, t) = Inner(m, t) /\ Outer(r, t) = Outer(m, t)

(* The children after a rotation at y over x and its child c. *)
Rehung(m, r, t, y, x, c, l) ==
  /\ SameSets(m, r, t)
  /\ Kid(r, y, l) = c /\ Kid(r, y, ~l) = Kid(m, y, ~l)
  /\ Kid(r, x, ~l) = y /\ Kid(r, x, l) = Kid(m, x, l)
  /\ \A k \in Inner(m, t), s \in BOOLEAN :
       k # y /\ k # x => /\ Kid(m, k, s) # x
                         /\ Kid(r, k, s) = IF Kid(m, k, s) = y THEN x ELSE Kid(m, k, s)

(* What a rotation does to the children of all nodes. *)
LEMMA RotationRehangs ==
  ASSUME NEW m, NEW t, NEW X, NEW y, NEW x, NEW c, NEW l,
         Shape(m, t, X), Turns(m, t, y, x, c, l),
         NEW r, r = single_rotate(m, y, l)
  PROVE  /\ Shape(r, t, X) /\ Same(m, r, t) /\ Rehung(m, r, t, y, x, c, l)
         /\ \A k \in DOMAIN m : r[k].red = m[k].red
         /\ IsMem(r) /\ DOMAIN r = DOMAIN m
         /\ x # y /\ c # x /\ c # y
<1> DEFINE yp == m[y].parent
<1>1. Shape(r, t, X) /\ Same(m, r, t) /\ Rotation(m, r, t, y, x, c, yp, l)
  BY RotationKeepsShape
<1> HIDE DEF yp
<1>2. /\ Turned(m, r, y, x, c, yp, l) /\ x # y /\ c # x /\ c # y /\ yp # y /\ yp # x /\ l \in BOOLEAN
      /\ y \in Inner(m, t) /\ x \in Inner(m, t) /\ x = Kid(m, y, l)
  BY <1>1 DEF Rotation, Turns
<1>3. SameSets(m, r, t)
  BY <1>2, TurnedSets DEF SameSets
<1>4. y \in DOMAIN m /\ x \in DOMAIN m /\ y \in Below(m, t) /\ \A k \in Inner(m, t) : k \in DOMAIN m
  BY <1>2 DEF Inner, Below
<1>5. \A k \in DOMAIN m, s \in BOOLEAN :
         Kid(r, k, s) = IF k = y /\ s = l THEN c ELSE IF k = x /\ s = ~l THEN y
                        ELSE IF k = yp /\ ~m[y].root /\ s = m[y].left THEN x ELSE Kid(m, k, s)
  BY <1>2 DEF Turned
<1>6. (~l) \in BOOLEAN /\ (~l) # l
  BY <1>2
<1>7. Kid(r, y, l) = c /\ Kid(r, y, ~l) = Kid(m, y, ~l) /\ Kid(r, x, ~l) = y /\ Kid(r, x, l) = Kid(m, x, l)
  BY <1>2, <1>4, <1>5, <1>6
<1>8. ASSUME NEW k \in Inner(m, t), NEW s \in BOOLEAN, k # y, k # x
      PROVE  /\ Kid(m, k, s) # x
             /\ Kid(r, k, s) = IF Kid(m, k, s) = y THEN x ELSE Kid(m, k, s)
  <2>1. m[Kid(m, k, s)].parent = k /\ m[Kid(m, k, s)].left = s /\ ~m[Kid(m, k, s)].root
    BY Kids
  <2>2. m[x].parent = y
    BY <1>2, Kids
  <2>3. ~m[y].root => Kid(m, yp, m[y].left) = y
    BY <1>4, Family DEF yp
  <2>4. Kid(m, k, s) = y => k = yp /\ ~m[y].root /\ s = m[y].left
    BY <2>1 DEF yp
  <2>5. Kid(r, k, s) = IF k = yp /\ ~m[y].root /\ s = m[y].left THEN x ELSE Kid(m, k, s)
    BY <1>4, <1>5, <1>8
  <2> QED BY <1>8, <2>1, <2>2, <2>3, <2>4, <2>5
<1>9. Rehung(m, r, t, y, x, c, l)
  BY <1>3, <1>7, <1>8 DEF Rehung
<1> QED BY <1>1, <1>2, <1>9 DEF Turned

(* Recolouring does not undo it. *)
LEMMA PaintedRehung ==
  ASSUME NEW m, NEW q, NEW r, NEW t, NEW y \in Inner(m, t), NEW x \in Inner(m, t), NEW c, NEW l \in BOOLEAN,
         Rehung(m, q, t, y, x, c, l), Painted(q, r)
  PROVE  Rehung(m, r, t, y, x, c, l)
<1>1. SameSets(m, q, t)
  BY DEF Rehung
<1>2. /\ Below(r, t) = Below(q, t) /\ Inner(r, t) = Inner(q, t) /\ Outer(r, t) = Outer(q, t)
      /\ \A k \in Below(q, t), s \in BOOLEAN : Kid(r, k, s) = Kid(q, k, s)
  BY PaintedSets
<1>3. \A k \in Inner(m, t) : k \in Below(q, t)
  BY <1>1 DEF SameSets, Inner
<1>4. \A k \in Inner(m, t), s \in BOOLEAN : Kid(r, k, s) = Kid(q, k, s)
  BY <1>2, <1>3
<1>5. SameSets(m, r, t)
  BY <1>1, <1>2 DEF SameSets
<1>6. (~l) \in BOOLEAN
  OBVIOUS
<1>7. /\ Kid(r, y, l) = Kid(q, y, l) /\ Kid(r, y, ~l) = Kid(q, y, ~l)
      /\ Kid(r, x, l) = Kid(q, x, l) /\ Kid(r, x, ~l) = Kid(q, x, ~l)
  BY <1>4, <1>6
<1> QED BY <1>4, <1>5, <1>7 DEF Rehung

-----------------------------------------------------------------------------
(* What a subtree lacks when it is the short one. *)
Short(c, z) == IF c = z THEN 1 ELSE 0

(* The count b of m becomes d where only the nodes of S change their       *)
(* colour, their children or their count.                                  *)
Patch(m, r, t, S, b, z, d, w) ==
  /\ SameSets(m, r, t) /\ S \subseteq Inner(m, t)
  /\ d \in [Below(m, t) -> Nat \ {0}]
  /\ \A k \in Below(m, t) : k \notin S => d[k] = b[k] /\ r[k].red = m[k].red
  /\ \A k \in Inner(m, t), s \in BOOLEAN :
       k \notin S => /\ Kid(r, k, s) \in Below(m, t)
                     /\ d[Kid(r, k, s)] + Short(Kid(r, k, s), w) = b[Kid(m, k, s)] + Short(Kid(m, k, s), z)
                     /\ r[Kid(r, k, s)].red => m[Kid(m, k, s)].red
  /\ \A k \in S, s \in BOOLEAN :
       /\ d[k] = Own(r, k) + d[Kid(r, k, s)] + Short(Kid(r, k, s), w)
       /\ ~(r[k].red /\ r[Kid(r, k, s)].red)

(* If a patch of nodes is recounted right and the rest of the tree sees the *)
(* same counts, all of it is in order.                                      *)
LEMMA Patched ==
  ASSUME NEW m, NEW r, NEW t, NEW X, NEW S, NEW b, NEW z, NEW d, NEW w, Shape(m, t, X),
         Blacks(m, t, b, z), Apart(m, t, t), Patch(m, r, t, S, b, z, d, w)
  PROVE  Coloured(r, t, t, w)
<1>1. /\ Below(r, t) = Below(m, t) /\ Inner(r, t) = Inner(m, t) /\ Outer(r, t) = Outer(m, t)
      /\ S \subseteq Inner(m, t) /\ d \in [Below(m, t) -> Nat \ {0}]
  BY DEF Patch, SameSets
<1>2. \A k \in Outer(m, t) : k \in Below(m, t) /\ k \notin Inner(m, t)
  BY DEF Outer, Inner
<1>3. \A k \in Outer(m, t) : ~r[k].red /\ d[k] = 1
  BY <1>1, <1>2 DEF Patch, Blacks
<1>4. ASSUME NEW k \in Inner(m, t), NEW s \in BOOLEAN
      PROVE  /\ d[k] = Own(r, k) + d[Kid(r, k, s)] + Short(Kid(r, k, s), w)
             /\ ~(r[k].red /\ r[Kid(r, k, s)].red)
  <2>1. CASE k \in S
    BY <2>1 DEF Patch
  <2>2. CASE k \notin S
    <3>1. k \in Below(m, t)
      BY DEF Inner
    <3>2. d[k] = b[k] /\ r[k].red = m[k].red /\ Own(r, k) = Own(m, k)
      BY <2>2, <3>1 DEF Patch, Own
    <3>3. /\ d[Kid(r, k, s)] + Short(Kid(r, k, s), w) = b[Kid(m, k, s)] + Short(Kid(m, k, s), z)
          /\ r[Kid(r, k, s)].red => m[Kid(m, k, s)].red
      BY <2>2 DEF Patch
    <3>4. b[k] = Own(m, k) + b[Kid(m, k, s)] + Short(Kid(m, k, s), z)
      BY DEF Blacks, Short
    <3>5. ~(m[k].red /\ m[Kid(m, k, s)].red)
      <4>1. Kid(m, k, s) # t
        BY Kids
      <4> QED BY <4>1 DEF Apart
    <3>6. b[k] \in Nat \ {0} /\ Own(m, k) \in Nat /\ Short(Kid(m, k, s), z) \in Nat
      BY <3>1 DEF Blacks, Own, Short
    <3>7. b[Kid(m, k, s)] \in Nat
      BY Kids DEF Blacks
    <3>10. d[Kid(r, k, s)] \in Nat /\ Short(Kid(r, k, s), w) \in Nat
      BY <1>1, <2>2 DEF Patch, Short
    <3>8. d[k] = Own(m, k) + (d[Kid(r, k, s)] + Short(Kid(r, k, s), w))
      <4>1. d[k] = Own(m, k) + (b[Kid(m, k, s)] + Short(Kid(m, k, s), z))
        BY <3>2, <3>4, <3>6, <3>7
      <4> QED BY <3>3, <4>1
    <3>9. d[k] = Own(m, k) + d[Kid(r, k, s)] + Short(Kid(r, k, s), w)
      BY <3>6, <3>8, <3>10
    <3> QED BY <3>2, <3>3, <3>5, <3>9
  <2> QED BY <2>1, <2>2
<1>5. Blacks(r, t, d, w)
  BY <1>1, <1>3, <1>4 DEF Blacks, Short
<1>6. Apart(r, t, t)
  BY <1>1, <1>4 DEF Apart
<1> QED BY <1>5, <1>6 DEF Coloured

-----------------------------------------------------------------------------
(* The list without node. *)
Unlisted(m, r, node) ==
  /\ DOMAIN r = DOMAIN m /\ IsMem(r)
  /\ \A k \in DOMAIN m :
       /\ r[k].red = m[k].red /\ r[k].internal = m[k].internal /\ r[k].left = m[k].left
       /\ r[k].root = m[k].root /\ r[k].head = m[k].head /\ r[k].parent = m[k].parent
       /\ r[k].key = m[k].key /\ r[k].val = m[k].val
       /\ r[k].flink = IF k = m[node].blink THEN m[node].flink ELSE m[k].flink
       /\ r[k].blink = IF k = m[node].flink THEN m[node].blink ELSE m[k].blink

(* delete_item joins the neighbours of the leaf. *)
LEMMA DeleteItemWrites ==
  ASSUME NEW m, IsMem(m), NEW node, m[node].flink \in DOMAIN m, m[node].blink \in DOMAIN m,
         NEW r, r = delete_item(m, node)
  PROVE  Unlisted(m, r, node)
<1> DEFINE f == m[node].flink
           g == m[node].blink
           a == [m EXCEPT ![f].blink = g]
           b == [a EXCEPT ![g].flink = f]
<1>1. r = b
  BY DEF delete_item
<1>2. /\ DOMAIN a = DOMAIN m /\ a[f] = [m[f] EXCEPT !.blink = g]
      /\ \A k \in DOMAIN m : k # f => a[k] = m[k]
  OBVIOUS
<1> HIDE DEF a
<1>3. /\ DOMAIN b = DOMAIN a /\ b[g] = [a[g] EXCEPT !.flink = f]
      /\ \A k \in DOMAIN a : k # g => b[k] = a[k]
  BY <1>2
<1> HIDE DEF b
<1>4. \A k \in DOMAIN m : DOMAIN m[k] = Fields
  BY DEF IsMem
<1>5. ASSUME NEW k \in DOMAIN m
      PROVE  /\ DOMAIN a[k] = Fields
             /\ a[k].red = m[k].red /\ a[k].internal = m[k].internal /\ a[k].left = m[k].left
             /\ a[k].root = m[k].root /\ a[k].head = m[k].head /\ a[k].parent = m[k].parent
             /\ a[k].key = m[k].key /\ a[k].val = m[k].val /\ a[k].flink = m[k].flink
             /\ a[k].blink = IF k = f THEN g ELSE m[k].blink
  <2> HIDE DEF f, g
  <2>1. CASE k = f
    BY <1>2, <1>4, <2>1 DEF Fields
  <2>2. CASE k # f
    BY <1>2, <1>4, <2>2
  <2> QED BY <2>1, <2>2
<1>6. ASSUME NEW k \in DOMAIN m
      PROVE  /\ DOMAIN b[k] = Fields
             /\ b[k].red = m[k].red /\ b[k].internal = m[k].internal /\ b[k].left = m[k].left
             /\ b[k].root = m[k].root /\ b[k].head = m[k].head /\ b[k].parent = m[k].parent
             /\ b[k].key = m[k].key /\ b[k].val = m[k].val
             /\ b[k].flink = IF k = g THEN f ELSE m[k].flink
             /\ b[k].blink = IF k = f THEN g ELSE m[k].blink
  <2> HIDE DEF f, g
  <2>1. CASE k = g
    BY <1>2, <1>3, <1>5, <2>1 DEF Fields
  <2>2. CASE k # g
    BY <1>2, <1>3, <1>5, <2>2
  <2> QED BY <2>1, <2>2
<1>7. DOMAIN b = DOMAIN m
  BY <1>2, <1>3
<1>8. IsMem(b)
  BY <1>6, <1>7 DEF IsMem
<1>9. \A k \in DOMAIN m :
       /\ b[k].red = m[k].red /\ b[k].internal = m[k].internal /\ b[k].left = m[k].left
       /\ b[k].root = m[k].root /\ b[k].head = m[k].head /\ b[k].parent = m[k].parent
       /\ b[k].key = m[k].key /\ b[k].val = m[k].val
       /\ b[k].flink = IF k = m[node].blink THEN m[node].flink ELSE m[k].flink
       /\ b[k].blink = IF k = m[node].flink THEN m[node].blink ELSE m[k].blink
  BY <1>6
<1> QED BY <1>1, <1>7, <1>8, <1>9 DEF Unlisted

(* Two nodes freed. *)
Without(m, r, a, b) ==
  /\ DOMAIN r = DOMAIN m \ {a, b} /\ IsMem(r)
  /\ \A k \in DOMAIN m \ {a, b} : r[k] = m[k]

(* Freeing two nodes leaves the others alone. *)
LEMMA FreeTwo ==
  ASSUME NEW m, IsMem(m), NEW a, NEW b, NEW r, r = mem_free(mem_free(m, a), b)
  PROVE  Without(m, r, a, b)
<1>1. PICK x : x = mem_free(m, a)
  OBVIOUS
<1>2. DOMAIN x = DOMAIN m \ {a} /\ \A k \in DOMAIN m \ {a} : x[k] = m[k]
  BY <1>1 DEF mem_free
<1>3. r = mem_free(x, b)
  BY <1>1
<1>4. DOMAIN r = DOMAIN x \ {b} /\ \A k \in DOMAIN x \ {b} : r[k] = x[k]
  BY <1>3 DEF mem_free
<1>5. DOMAIN r = DOMAIN m \ {a, b} /\ \A k \in DOMAIN m \ {a, b} : r[k] = m[k]
  BY <1>2, <1>4
<1>6. IsMem(r)
  BY <1>5 DEF IsMem
<1> QED BY <1>5, <1>6 DEF Without

(* s in the place of its parent p, whose other child was the leaf node. *)
Lifted(m, q, t, node, p, s) ==
  /\ DOMAIN q = DOMAIN m \ {node, p} /\ IsMem(q)
  /\ \A k \in DOMAIN m \ {node, p} :
       /\ q[k].head = m[k].head /\ q[k].internal = m[k].internal /\ q[k].red = m[k].red
       /\ q[k].key = m[k].key /\ q[k].val = m[k].val
       /\ q[k].root = IF k = s THEN m[p].root ELSE m[k].root
       /\ q[k].left = IF k = s /\ ~m[p].root THEN m[p].left ELSE m[k].left
       /\ q[k].parent = IF k = s THEN m[p].parent ELSE IF k = t /\ m[p].root THEN s ELSE m[k].parent
  /\ \A k \in Inner(m, t), l \in BOOLEAN :
       k # p => Kid(q, k, l) = IF Kid(m, k, l) = p THEN s ELSE Kid(m, k, l)
  /\ \A k \in Outer(m, t) \cup {t} :
       k # node => /\ q[k].flink = IF k = m[node].blink THEN m[node].flink ELSE m[k].flink
                   /\ q[k].blink = IF k = m[node].flink THEN m[node].blink ELSE m[k].blink

(* The leaf, its parent and its sibling. *)
Trio(m, t, node, p, s, o) ==
  /\ node \in Outer(m, t) /\ ~m[node].root /\ o \in BOOLEAN
  /\ p = m[node].parent /\ o = m[node].left /\ s = Kid(m, p, ~o)

(* The three nodes are different, and how they are linked. *)
LEMMA TrioIs ==
  ASSUME NEW m, NEW t, NEW X, Shape(m, t, X), NEW node, NEW p, NEW s, NEW o, Trio(m, t, node, p, s, o)
  PROVE  /\ o \in BOOLEAN /\ (~o) \in BOOLEAN /\ o # (~o)
         /\ node \in Outer(m, t) /\ node \in Below(m, t) /\ node \in DOMAIN m /\ node # t
         /\ p \in Inner(m, t) /\ p \in Below(m, t) /\ p \in DOMAIN m /\ p # t /\ p # node
         /\ s \in Below(m, t) /\ s \in DOMAIN m /\ s # t /\ s # p /\ s # node
         /\ Kid(m, p, o) = node /\ Kid(m, p, ~o) = s
         /\ m[node].parent = p /\ m[node].left = o /\ ~m[node].root
         /\ m[s].parent = p /\ m[s].left = ~o /\ ~m[s].root
         /\ sibling(m, node) = s
<1>1. node \in Below(m, t) /\ node \in DOMAIN m /\ node # t /\ node \in Outer(m, t)
  BY DEF Trio, Outer, Below
<1>2. ~m[node].root /\ p = m[node].parent /\ o = m[node].left /\ o \in BOOLEAN /\ s = Kid(m, p, ~o)
  BY DEF Trio
<1>3. /\ p \in Inner(m, t) /\ p # node /\ p \in Below(m, t) /\ Kid(m, p, o) = node
      /\ Kid(m, p, ~o) = sibling(m, node)
      /\ s \in Below(m, t) /\ s # node /\ s # p
      /\ m[s].parent = p /\ m[s].left = ~o /\ ~m[s].root
  BY <1>1, <1>2, Family
<1> QED BY <1>1, <1>2, <1>3 DEF Below

(* u is the memory a with s linked below its grandparent. *)
LiftSteps(m, p, s, a, u) ==
  LET gp == a[p].parent
      l  == a[p].left
  IN \/ /\ m[p].root
        /\ u = [a EXCEPT ![s] = [a[s] EXCEPT !.parent = gp, !.root = TRUE], ![gp] = [a[gp] EXCEPT !.parent = s]]
     \/ /\ ~m[p].root
        /\ u = [a EXCEPT ![s] = [a[s] EXCEPT !.parent = gp, !.left = l], ![gp] = [a[gp] EXCEPT ![Side(l)] = s]]

(* rbtree_delete_node, up to its recolouring, lifts the sibling into the   *)
(* parent's place.                                                         *)
LEMMA LiftWrites ==
  ASSUME NEW m, NEW t, Shape(m, t, {}), NEW node, NEW p, NEW s, NEW o, Trio(m, t, node, p, s, o),
         NEW a, a = delete_item(m, node), NEW u, NEW q, q = mem_free(mem_free(u, p), node),
         LiftSteps(m, p, s, a, u)
  PROVE  Lifted(m, q, t, node, p, s)
<1>1. /\ Fine(m, t) /\ IsMem(m) /\ Ring(m, t) /\ Links(m, t)
      /\ node \in Outer(m, t) /\ node \in DOMAIN m /\ node # t /\ node # p
      /\ p \in Inner(m, t) /\ p \in Below(m, t) /\ p \in DOMAIN m /\ p # t
      /\ s \in Below(m, t) /\ s \in DOMAIN m /\ s # t /\ s # p /\ s # node
      /\ m[s].parent = p /\ ~m[s].root
  <2>1. Fine(m, t) /\ IsMem(m) /\ Ring(m, t) /\ Links(m, t)
    BY DEF Shape, Fine
  <2>2. /\ node \in Outer(m, t) /\ node \in DOMAIN m /\ node # t /\ node # p
        /\ p \in Inner(m, t) /\ p \in Below(m, t) /\ p \in DOMAIN m /\ p # t
        /\ s \in Below(m, t) /\ s \in DOMAIN m /\ s # t /\ s # p /\ s # node
        /\ m[s].parent = p /\ ~m[s].root
    BY TrioIs
  <2> QED BY <2>1, <2>2
<1>2. /\ \A k \in Outer(m, t) \cup {t} : k \in DOMAIN m /\ k \notin Inner(m, t)
      /\ \A k \in Inner(m, t) : k \in DOMAIN m /\ k # t
  BY <1>1 DEF Fine, Outer, Inner, Below
<1>3. m[node].flink \in Outer(m, t) \cup {t} /\ m[node].blink \in Outer(m, t) \cup {t}
  BY <1>1 DEF Ring
<1>4. Unlisted(m, a, node)
  BY <1>1, <1>2, <1>3, DeleteItemWrites
<1>5. /\ DOMAIN a = DOMAIN m /\ IsMem(a)
      /\ \A k \in DOMAIN m :
           /\ a[k].red = m[k].red /\ a[k].internal = m[k].internal /\ a[k].left = m[k].left
           /\ a[k].root = m[k].root /\ a[k].head = m[k].head /\ a[k].parent = m[k].parent
           /\ a[k].key = m[k].key /\ a[k].val = m[k].val
           /\ a[k].flink = IF k = m[node].blink THEN m[node].flink ELSE m[k].flink
           /\ a[k].blink = IF k = m[node].flink THEN m[node].blink ELSE m[k].blink
  BY <1>4 DEF Unlisted
<1> HIDE <1>4
<1>6. PICK gp : gp = m[p].parent
  OBVIOUS
<1>7. PICK il : il = m[p].left
  OBVIOUS
<1>8. a[p].parent = gp /\ a[p].left = il
  BY <1>1, <1>5, <1>6, <1>7
<1>9. PICK top \in BOOLEAN : top <=> m[p].root
  OBVIOUS
<1>10. /\ top => gp = t
       /\ ~top => gp \in Inner(m, t) /\ il \in BOOLEAN /\ Kid(m, gp, il) = p
       /\ gp \in DOMAIN m /\ gp # s /\ gp # p /\ gp # node
  <2>1. CASE top
    BY <1>1, <1>6, <1>9, <2>1 DEF Links, RootOK, Fine
  <2>2. CASE ~top
    <3>1. gp \in Inner(m, t) /\ il \in BOOLEAN /\ Kid(m, gp, il) = p /\ gp # p
      BY <1>1, <1>6, <1>7, <1>9, <2>2, Family
    <3>2. gp # node
      BY <1>1, <3>1 DEF Outer, Inner
    <3>3. gp # s
      <4>1. PICK rank, rk : Ranked(m, t, rank, rk)
        BY DEF Shape, Rising
      <4>2. gp \in Below(m, t) /\ rk[p] < rk[gp] /\ rk[s] < rk[p]
        <5>1. s = Kid(m, p, ~o) /\ (~o) \in BOOLEAN
          BY TrioIs
        <5> QED BY <1>1, <3>1, <4>1, <5>1 DEF Ranked, Inner
      <4>3. rk[p] \in 0..rank /\ rk[gp] \in 0..rank /\ rk[s] \in 0..rank /\ rank \in Nat
        BY <1>1, <4>1, <4>2 DEF Ranked
      <4> QED BY <4>2, <4>3
    <3> QED BY <1>2, <2>2, <3>1, <3>2, <3>3
  <2> QED BY <2>1, <2>2
<1>11. PICK up : up = IF top THEN "parent" ELSE Side(il)
  OBVIOUS
<1>12. /\ up \in {"parent", "flink", "blink"} /\ (top => up = "parent")
       /\ ~top => up = IF il THEN "flink" ELSE "blink"
  BY <1>11 DEF Side
<1> DEFINE es == IF top THEN [a[s] EXCEPT !.parent = gp, !.root = TRUE]
                 ELSE [a[s] EXCEPT !.parent = gp, !.left = il]
           eg == [a[gp] EXCEPT ![up] = s]
<1>13. u = [a EXCEPT ![s] = es, ![gp] = eg]
  <2>1. CASE top
    <3> DEFINE xs == [a[s] EXCEPT !.parent = gp, !.root = TRUE]
               xg == [a[gp] EXCEPT !.parent = s]
    <3>2. u = [a EXCEPT ![s] = xs, ![gp] = xg]
      BY <1>8, <1>9, <2>1 DEF LiftSteps
    <3>3. eg = xg /\ es = xs
      BY <1>12, <2>1
    <3> HIDE DEF eg, es, xs, xg
    <3> QED BY <3>2, <3>3
  <2>2. CASE ~top
    <3> DEFINE xs == [a[s] EXCEPT !.parent = gp, !.left = il]
               xg == [a[gp] EXCEPT ![Side(il)] = s]
    <3>2. u = [a EXCEPT ![s] = xs, ![gp] = xg]
      BY <1>8, <1>9, <2>2 DEF LiftSteps
    <3>3. eg = xg /\ es = xs
      BY <1>11, <2>2
    <3> HIDE DEF eg, es, xs, xg
    <3> QED BY <3>2, <3>3
  <2> QED BY <2>1, <2>2
<1>14. DOMAIN a[s] = Fields /\ DOMAIN a[gp] = Fields
  BY <1>1, <1>5, <1>10 DEF IsMem
<1>15. /\ DOMAIN es = Fields /\ es.parent = gp
       /\ es.root = (IF top THEN TRUE ELSE a[s].root) /\ es.left = (IF top THEN a[s].left ELSE il)
       /\ es.red = a[s].red /\ es.internal = a[s].internal /\ es.head = a[s].head
       /\ es.key = a[s].key /\ es.val = a[s].val /\ es.flink = a[s].flink /\ es.blink = a[s].blink
  BY <1>14 DEF Fields
<1>16. /\ DOMAIN eg = Fields /\ eg.left = a[gp].left /\ eg.root = a[gp].root
       /\ eg.parent = (IF top THEN s ELSE a[gp].parent)
       /\ eg.flink = (IF ~top /\ il THEN s ELSE a[gp].flink)
       /\ eg.blink = (IF ~top /\ ~il THEN s ELSE a[gp].blink)
       /\ eg.red = a[gp].red /\ eg.internal = a[gp].internal /\ eg.head = a[gp].head
       /\ eg.key = a[gp].key /\ eg.val = a[gp].val
  BY <1>12, <1>14 DEF Fields
<1> HIDE DEF es, eg
<1>17. /\ DOMAIN u = DOMAIN m /\ u[s] = es /\ u[gp] = eg
       /\ \A k \in DOMAIN m : k # s /\ k # gp => u[k] = a[k]
  BY <1>1, <1>5, <1>10, <1>13
<1>18. IsMem(u)
  <2>1. DOMAIN u[s] = Fields /\ DOMAIN u[gp] = Fields
    BY <1>15, <1>16, <1>17
  <2>2. \A k \in DOMAIN m : DOMAIN a[k] = Fields
    BY <1>5 DEF IsMem
  <2> QED BY <1>17, <2>1, <2>2 DEF IsMem
<1>19. /\ DOMAIN q = DOMAIN m \ {node, p} /\ IsMem(q)
       /\ \A k \in DOMAIN m \ {node, p} : q[k] = u[k]
  <2>1. Without(u, q, p, node)
    BY <1>18, FreeTwo
  <2> QED BY <1>17, <2>1 DEF Without
<1>20. ASSUME NEW k \in DOMAIN m \ {node, p}
       PROVE  /\ q[k].head = m[k].head /\ q[k].internal = m[k].internal /\ q[k].red = m[k].red
              /\ q[k].key = m[k].key /\ q[k].val = m[k].val
              /\ q[k].root = (IF k = s /\ top THEN TRUE ELSE m[k].root)
              /\ q[k].left = (IF k = s /\ ~top THEN il ELSE m[k].left)
              /\ q[k].parent = (IF k = s THEN gp ELSE IF k = gp /\ top THEN s ELSE m[k].parent)
              /\ q[k].flink = (IF k = gp /\ ~top /\ il THEN s ELSE a[k].flink)
              /\ q[k].blink = (IF k = gp /\ ~top /\ ~il THEN s ELSE a[k].blink)
  <2>1. CASE k = s
    <3>1. q[k] = es /\ k # gp
      BY <1>10, <1>17, <1>19, <2>1
    <3>2. /\ a[s].red = m[s].red /\ a[s].internal = m[s].internal /\ a[s].left = m[s].left
          /\ a[s].root = m[s].root /\ a[s].head = m[s].head
          /\ a[s].key = m[s].key /\ a[s].val = m[s].val
      BY <1>1, <1>5
    <3> HIDE <1>5
    <3> QED BY <1>15, <2>1, <3>1, <3>2
  <2>2. CASE k = gp
    <3>1. q[k] = eg /\ k # s
      BY <1>10, <1>17, <1>19, <2>2
    <3> QED BY <1>5, <1>16, <2>2, <3>1
  <2>3. CASE k # s /\ k # gp
    BY <1>5, <1>17, <1>19, <2>3
  <2> QED BY <2>1, <2>2, <2>3
<1>21. ASSUME NEW k \in DOMAIN m \ {node, p}
       PROVE  /\ q[k].root = IF k = s THEN m[p].root ELSE m[k].root
              /\ q[k].left = IF k = s /\ ~m[p].root THEN m[p].left ELSE m[k].left
              /\ q[k].parent = IF k = s THEN m[p].parent ELSE IF k = t /\ m[p].root THEN s ELSE m[k].parent
  <2>1. m[p].root \in BOOLEAN /\ m[s].root \in BOOLEAN
    BY <1>1 DEF Fine
  <2>2. q[k].root = IF k = s THEN m[p].root ELSE m[k].root
    <3>1. q[k].root = (IF k = s /\ top THEN TRUE ELSE m[k].root)
      BY <1>20
    <3>2. CASE k = s
      BY <1>1, <1>9, <2>1, <3>1, <3>2
    <3>3. CASE k # s
      BY <3>1, <3>3
    <3> QED BY <3>2, <3>3
  <2>3. q[k].left = IF k = s /\ ~m[p].root THEN m[p].left ELSE m[k].left
    BY <1>7, <1>9, <1>20
  <2>4. top => (k = gp <=> k = t)
    BY <1>10
  <2>5. q[k].parent = IF k = s THEN m[p].parent ELSE IF k = t /\ m[p].root THEN s ELSE m[k].parent
    <3>1. q[k].parent = (IF k = s THEN gp ELSE IF k = gp /\ top THEN s ELSE m[k].parent)
      BY <1>20
    <3>2. (k = gp /\ top) <=> (k = t /\ m[p].root)
      BY <1>9, <2>4
    <3> QED BY <1>6, <3>1, <3>2
  <2> QED BY <2>2, <2>3, <2>5
<1>22. ASSUME NEW k \in Inner(m, t), NEW l \in BOOLEAN, k # p
       PROVE  Kid(q, k, l) = IF Kid(m, k, l) = p THEN s ELSE Kid(m, k, l)
  <2>1. k \in DOMAIN m \ {node, p} /\ k # m[node].flink /\ k # m[node].blink
    BY <1>1, <1>2, <1>3, <1>22
  <2>2. a[k].flink = m[k].flink /\ a[k].blink = m[k].blink
    BY <1>5, <2>1
  <2>3. Kid(q, k, l) = IF k = gp /\ ~top /\ l = il THEN s ELSE Kid(m, k, l)
    <3>1. /\ q[k].flink = (IF k = gp /\ ~top /\ il THEN s ELSE m[k].flink)
          /\ q[k].blink = (IF k = gp /\ ~top /\ ~il THEN s ELSE m[k].blink)
      BY <1>20, <2>1, <2>2
    <3>2. ~top => il \in BOOLEAN
      BY <1>10
    <3> QED BY <3>1, <3>2 DEF Kid, Side
  <2>4. Kid(m, k, l) = p => k = gp /\ ~top /\ l = il
    BY <1>6, <1>7, <1>9, Kids
  <2>5. k = gp /\ ~top /\ l = il => Kid(m, k, l) = p
    BY <1>10
  <2> QED BY <2>3, <2>4, <2>5
<1>23. ASSUME NEW k \in Outer(m, t) \cup {t}, k # node
       PROVE  /\ q[k].flink = IF k = m[node].blink THEN m[node].flink ELSE m[k].flink
              /\ q[k].blink = IF k = m[node].flink THEN m[node].blink ELSE m[k].blink
  <2>1. k \in DOMAIN m \ {node, p} /\ (~top => k # gp)
    BY <1>1, <1>2, <1>10, <1>23
  <2>2. q[k].flink = a[k].flink /\ q[k].blink = a[k].blink
    BY <1>20, <2>1
  <2> QED BY <1>5, <2>1, <2>2
<1> QED BY <1>19, <1>20, <1>21, <1>22, <1>23 DEF Lifted

-----------------------------------------------------------------------------
(* What the splice does to the sets of nodes, and whose child s was. *)
LiftedParts(m, q, t, node, p, s) ==
  /\ Below(q, t) = Below(m, t) \ {node, p}
  /\ Inner(q, t) = Inner(m, t) \ {p} /\ Outer(q, t) = Outer(m, t) \ {node}
  /\ s \in Below(q, t) /\ t \in DOMAIN q
  /\ \A k \in Inner(m, t), l \in BOOLEAN : k # p => Kid(m, k, l) # s /\ Kid(m, k, l) # node

(* The nodes after the splice. *)
LEMMA LiftedSets ==
  ASSUME NEW m, NEW q, NEW t, Shape(m, t, {}), NEW node, NEW p, NEW s, NEW o,
         Trio(m, t, node, p, s, o), Lifted(m, q, t, node, p, s)
  PROVE  LiftedParts(m, q, t, node, p, s)
<1>1. /\ node \in Outer(m, t) /\ node # t /\ p \in Inner(m, t) /\ p # t
      /\ s \in Below(m, t) /\ s # p /\ s # node /\ m[node].parent = p /\ m[s].parent = p
  BY TrioIs
<1>2. t \in DOMAIN m
  BY DEF Shape, Fine
<1>3. Below(q, t) = Below(m, t) \ {node, p} /\ t \in DOMAIN q
  BY <1>1, <1>2 DEF Lifted, Below
<1>4. \A k \in Below(q, t) : q[k].internal = m[k].internal
  BY DEF Lifted, Below
<1>5. \A k \in Below(m, t) : (k \in Inner(m, t) <=> m[k].internal) /\ (k \in Outer(m, t) <=> ~m[k].internal)
  BY DEF Inner, Outer
<1>6. /\ \A k \in Below(q, t) : (k \in Inner(q, t) <=> q[k].internal) /\ (k \in Outer(q, t) <=> ~q[k].internal)
      /\ Inner(q, t) \subseteq Below(q, t) /\ Outer(q, t) \subseteq Below(q, t)
      /\ Inner(m, t) \subseteq Below(m, t) /\ Outer(m, t) \subseteq Below(m, t)
  BY DEF Inner, Outer
<1>7. Inner(q, t) = Inner(m, t) \ {p} /\ Outer(q, t) = Outer(m, t) \ {node}
  <2>1. node \notin Inner(m, t) /\ p \notin Outer(m, t)
    BY <1>1, <1>5, <1>6
  <2> HIDE <1>1
  <2> QED BY <1>3, <1>4, <1>5, <1>6, <2>1
<1>8. ASSUME NEW k \in Inner(m, t), NEW l \in BOOLEAN, k # p
      PROVE  Kid(m, k, l) # s /\ Kid(m, k, l) # node
  <2>1. m[Kid(m, k, l)].parent = k
    BY Kids
  <2> QED BY <1>1, <1>8, <2>1
<1> QED BY <1>1, <1>3, <1>7, <1>8 DEF LiftedParts

(* The splice keeps the fields fine. *)
LEMMA LiftedFine ==
  ASSUME NEW m, NEW q, NEW t, Shape(m, t, {}), NEW node, NEW p, NEW s, NEW o,
         Trio(m, t, node, p, s, o), Lifted(m, q, t, node, p, s)
  PROVE  Fine(q, t)
<1>0. LiftedParts(m, q, t, node, p, s)
  BY LiftedSets
<1>1. Fine(m, t)
  BY DEF Shape
<1>2. Below(q, t) = Below(m, t) \ {node, p} /\ t \in DOMAIN q
  BY <1>0 DEF LiftedParts
<1>3. IsMem(q) /\ DOMAIN q = DOMAIN m \ {node, p}
  BY DEF Lifted
<1>4. q[t].head = TRUE
  BY <1>1, <1>2, <1>3 DEF Lifted, Fine
<1>5. p \in Below(m, t)
  BY TrioIs
<1>6. m[p].root \in BOOLEAN /\ m[p].left \in BOOLEAN \cup {Junk}
  BY <1>1, <1>5 DEF Fine
<1>7. ASSUME NEW k \in Below(q, t)
      PROVE  /\ q[k].head = FALSE /\ q[k].internal \in BOOLEAN /\ q[k].red \in BOOLEAN
             /\ q[k].root \in BOOLEAN /\ q[k].left \in BOOLEAN \cup {Junk}
  <2>1. k \in DOMAIN m \ {node, p} /\ k \in Below(m, t)
    BY <1>2, <1>3 DEF Below
  <2>2. /\ m[k].head = FALSE /\ m[k].internal \in BOOLEAN /\ m[k].red \in BOOLEAN
        /\ m[k].root \in BOOLEAN /\ m[k].left \in BOOLEAN \cup {Junk}
    BY <1>1, <2>1 DEF Fine
  <2>3. /\ q[k].head = m[k].head /\ q[k].internal = m[k].internal /\ q[k].red = m[k].red
        /\ q[k].root = (IF k = s THEN m[p].root ELSE m[k].root)
        /\ q[k].left = (IF k = s /\ ~m[p].root THEN m[p].left ELSE m[k].left)
    BY <2>1 DEF Lifted
  <2> QED BY <1>6, <2>2, <2>3
<1> QED BY <1>2, <1>3, <1>4, <1>7 DEF Fine

(* After the splice children know their parents. *)
LEMMA LiftedKids ==
  ASSUME NEW m, NEW q, NEW t, Shape(m, t, {}), NEW node, NEW p, NEW s, NEW o,
         Trio(m, t, node, p, s, o), Lifted(m, q, t, node, p, s)
  PROVE  KidsOK(q, t)
<1>0. LiftedParts(m, q, t, node, p, s)
  BY LiftedSets
<1>1. Below(q, t) = Below(m, t) \ {node, p} /\ Inner(q, t) = Inner(m, t) \ {p} /\ s \in Below(q, t)
  BY <1>0 DEF LiftedParts
<1>2. \A k \in Inner(m, t), l \in BOOLEAN : k # p => Kid(m, k, l) # s /\ Kid(m, k, l) # node
  BY <1>0 DEF LiftedParts
<1>3. p # t /\ p \in Below(m, t) /\ s \in DOMAIN m /\ s # p /\ s # node /\ s # t
  BY TrioIs
<1> SUFFICES ASSUME NEW k \in Inner(q, t), NEW l \in BOOLEAN, NEW c, c = Kid(q, k, l)
             PROVE  c \in Below(q, t) /\ q[c].parent = k /\ q[c].left = l /\ ~q[c].root
  BY DEF KidsOK
<1>4. k \in Inner(m, t) /\ k # p
  BY <1>1
<1>5. PICK d : d = Kid(m, k, l)
  OBVIOUS
<1>6. d \in Below(m, t) /\ m[d].parent = k /\ m[d].left = l /\ ~m[d].root /\ d \in DOMAIN m /\ d # t
  BY <1>4, <1>5, Kids
<1>7. c = IF d = p THEN s ELSE d
  BY <1>4, <1>5 DEF Lifted
<1>8. d # s /\ d # node
  BY <1>2, <1>4, <1>5
<1>9. CASE d = p
  <2>1. q[s].root = m[p].root /\ q[s].left = (IF ~m[p].root THEN m[p].left ELSE m[s].left) /\ q[s].parent = m[p].parent
    BY <1>3 DEF Lifted
  <2> QED BY <1>1, <1>6, <1>7, <1>9, <2>1
<1>10. CASE d # p
  <2>1. q[d].root = m[d].root /\ q[d].left = m[d].left /\ q[d].parent = m[d].parent
    BY <1>6, <1>8, <1>10 DEF Lifted
  <2> QED BY <1>1, <1>6, <1>7, <1>8, <1>10, <2>1
<1> QED BY <1>9, <1>10

(* After the splice parents know their children. *)
LEMMA LiftedParents ==
  ASSUME NEW m, NEW q, NEW t, Shape(m, t, {}), NEW node, NEW p, NEW s, NEW o,
         Trio(m, t, node, p, s, o), Lifted(m, q, t, node, p, s)
  PROVE  ParentsOK(q, t)
<1>0. LiftedParts(m, q, t, node, p, s)
  BY LiftedSets
<1>1. Below(q, t) = Below(m, t) \ {node, p} /\ Inner(q, t) = Inner(m, t) \ {p}
  BY <1>0 DEF LiftedParts
<1>2. p # t /\ p \in Below(m, t) /\ s \in DOMAIN m /\ s # p /\ s # node /\ s # t
  BY TrioIs
<1>3. /\ \A l \in BOOLEAN : Kid(m, p, l) = node \/ Kid(m, p, l) = s
      /\ \A k \in Inner(m, t), l \in BOOLEAN : k # p => Kid(q, k, l) = IF Kid(m, k, l) = p THEN s ELSE Kid(m, k, l)
  <2>1. Kid(m, p, o) = node /\ Kid(m, p, ~o) = s /\ o \in BOOLEAN
    BY TrioIs
  <2> QED BY <2>1 DEF Lifted
<1> SUFFICES ASSUME NEW k \in Below(q, t), ~q[k].root
             PROVE  /\ q[k].parent \in Inner(q, t) /\ q[k].left \in BOOLEAN
                    /\ Kid(q, q[k].parent, q[k].left) = k
  BY DEF ParentsOK
<1>4. k \in Below(m, t) /\ k # node /\ k # p /\ k \in DOMAIN m /\ k # t
  BY <1>1 DEF Below
<1>5. CASE k = s
  <2>1. ~m[p].root /\ q[s].parent = m[p].parent /\ q[s].left = m[p].left
    BY <1>2, <1>5 DEF Lifted
  <2>2. m[p].parent \in Inner(m, t) /\ m[p].parent # p /\ m[p].left \in BOOLEAN /\ Kid(m, m[p].parent, m[p].left) = p
    BY <1>2, <2>1, Family
  <2> QED BY <1>1, <1>3, <1>5, <2>1, <2>2
<1>6. CASE k # s
  <2>1. ~m[k].root /\ q[k].parent = m[k].parent /\ q[k].left = m[k].left
    BY <1>4, <1>6 DEF Lifted
  <2>2. m[k].parent \in Inner(m, t) /\ m[k].left \in BOOLEAN /\ Kid(m, m[k].parent, m[k].left) = k
    BY <1>4, <2>1, Family
  <2>3. m[k].parent # p
    BY <1>3, <1>4, <1>6, <2>2
  <2> QED BY <1>1, <1>3, <1>4, <2>1, <2>2, <2>3
<1> QED BY <1>5, <1>6

(* After the splice the root is right. *)
LEMMA LiftedRoot ==
  ASSUME NEW m, NEW q, NEW t, Shape(m, t, {}), NEW node, NEW p, NEW s, NEW o,
         Trio(m, t, node, p, s, o), Lifted(m, q, t, node, p, s)
  PROVE  RootOK(q, t)
<1>0. LiftedParts(m, q, t, node, p, s)
  BY LiftedSets
<1>1. Below(q, t) = Below(m, t) \ {node, p} /\ s \in Below(q, t) /\ t \in DOMAIN q
      /\ DOMAIN q = DOMAIN m \ {node, p}
  BY <1>0 DEF LiftedParts, Lifted
<1>2. /\ p # t /\ p \in Below(m, t) /\ s \in DOMAIN m /\ s # p /\ s # node /\ s # t
      /\ s \in Below(m, t) /\ ~m[s].root /\ ~m[node].root /\ node \in Below(m, t)
  BY TrioIs
<1>3. /\ m[t].parent \in DOMAIN m /\ m[t].parent # t /\ m[m[t].parent].parent = t
      /\ \A k \in Below(m, t) : m[k].root <=> k = m[t].parent
      /\ \A k \in Below(m, t) : m[k].root \in BOOLEAN
  BY <1>2 DEF Shape, Links, RootOK, Fine
<1>4. q[t].parent = IF m[p].root THEN s ELSE m[t].parent
  BY <1>1, <1>2 DEF Lifted
<1>5. \A k \in Below(q, t) : /\ q[k].root = (IF k = s THEN m[p].root ELSE m[k].root)
                             /\ q[k].parent = (IF k = s THEN m[p].parent ELSE m[k].parent)
  <2> SUFFICES ASSUME NEW k \in Below(q, t)
               PROVE  /\ q[k].root = (IF k = s THEN m[p].root ELSE m[k].root)
                      /\ q[k].parent = (IF k = s THEN m[p].parent ELSE m[k].parent)
    OBVIOUS
  <2>1. k \in DOMAIN m \ {node, p} /\ k # t
    BY <1>1 DEF Below
  <2> QED BY <2>1 DEF Lifted
<1>6. CASE m[p].root
  <2>1. m[t].parent = p
    BY <1>2, <1>3, <1>6
  <2>2. q[t].parent = s /\ q[s].parent = t
    BY <1>1, <1>3, <1>4, <1>5, <1>6, <2>1
  <2>3. \A k \in Below(q, t) : q[k].root <=> k = s
    BY <1>1, <1>3, <1>5, <1>6, <2>1
  <2> QED BY <1>1, <1>2, <2>2, <2>3 DEF RootOK, Below
<1>7. CASE ~m[p].root
  <2>1. m[t].parent # p /\ m[t].parent # s /\ m[t].parent # node
    BY <1>2, <1>3, <1>7
  <2>2. q[t].parent = m[t].parent /\ m[t].parent \in Below(q, t)
    BY <1>1, <1>3, <1>4, <1>7, <2>1 DEF Below
  <2>3. q[m[t].parent].parent = t
    BY <1>3, <1>5, <2>1, <2>2
  <2>4. \A k \in Below(q, t) : q[k].root <=> k = m[t].parent
    BY <1>1, <1>3, <1>5, <1>7, <2>1
  <2> QED BY <1>1, <1>3, <2>2, <2>3, <2>4 DEF RootOK, Below
<1> QED BY <1>2, <1>3, <1>6, <1>7

(* The splice leaves no cycle. *)
LEMMA LiftedRising ==
  ASSUME NEW m, NEW q, NEW t, Shape(m, t, {}), NEW node, NEW p, NEW s, NEW o,
         Trio(m, t, node, p, s, o), Lifted(m, q, t, node, p, s)
  PROVE  Rising(q, t)
<1>0. LiftedParts(m, q, t, node, p, s)
  BY LiftedSets
<1>1. Below(q, t) = Below(m, t) \ {node, p} /\ Inner(q, t) = Inner(m, t) \ {p} /\ s \in Below(q, t)
  BY <1>0 DEF LiftedParts
<1>2. Kid(m, p, ~o) = s /\ (~o) \in BOOLEAN /\ p \in Inner(m, t)
  BY TrioIs
<1>3. PICK top, rk : Ranked(m, t, top, rk)
  BY DEF Shape, Rising
<1>4. /\ top \in Nat /\ \A k \in Below(m, t) : rk[k] \in 0..top
      /\ \A k \in Inner(m, t), l \in BOOLEAN : rk[Kid(m, k, l)] < rk[k]
  BY <1>3 DEF Ranked
<1> DEFINE g == [k \in Below(q, t) |-> rk[k]]
<1>5. g \in [Below(q, t) -> 0..top] /\ \A k \in Below(q, t) : g[k] = rk[k]
  BY <1>1, <1>4
<1> HIDE DEF g
<1>6. ASSUME NEW k \in Inner(q, t), NEW l \in BOOLEAN
      PROVE  g[Kid(q, k, l)] < g[k]
  <2>1. k \in Inner(m, t) /\ k # p /\ k \in Below(q, t)
    BY <1>1 DEF Inner
  <2>2. PICK d : d = Kid(m, k, l)
    OBVIOUS
  <2>3. d \in Below(m, t) /\ rk[d] < rk[k] /\ d # node
    BY <1>0, <1>4, <2>1, <2>2, Kids DEF LiftedParts
  <2>4. Kid(q, k, l) = IF d = p THEN s ELSE d
    BY <2>1, <2>2 DEF Lifted
  <2>5. CASE d = p
    <3>1. rk[s] < rk[p]
      BY <1>2, <1>4
    <3>2. rk[s] \in 0..top /\ rk[p] \in 0..top /\ rk[k] \in 0..top
      BY <1>1, <1>4, <2>1, <2>3, <2>5
    <3> QED BY <1>1, <1>4, <1>5, <2>1, <2>3, <2>4, <2>5, <3>1, <3>2
  <2>6. CASE d # p
    BY <1>1, <1>5, <2>1, <2>3, <2>4, <2>6
  <2> QED BY <2>5, <2>6
<1>7. Ranked(q, t, top, g)
  BY <1>4, <1>5, <1>6 DEF Ranked
<1> QED BY <1>7 DEF Rising

-----------------------------------------------------------------------------
(* The deleted leaf is the end of the subtrees it is at the outside of:    *)
(* its own on the side away from it, and not the sibling's on any side.    *)
AtEnd(m, t, e, node, p, s, o) ==
  /\ \A y \in Below(m, t) : e[~o][y] = node => y = node
  /\ \A k \in BOOLEAN : e[k][s] # node /\ e[k][s] \in Outer(m, t)
  /\ e[o][p] = node /\ e[~o][p] = e[~o][s]
  /\ o => m[node].flink = e[TRUE][s]
  /\ ~o => m[node].blink = e[FALSE][s]
  /\ m[node].flink # node /\ m[node].blink # node

(* The deleted leaf is next to its sibling's subtree in the list. *)
LEMMA LeafAtEnd ==
  ASSUME NEW m, NEW t, Shape(m, t, {}), NEW node, NEW p, NEW s, NEW o,
         Trio(m, t, node, p, s, o), NEW e, Ends(m, t, e), Gaps(m, t, e)
  PROVE  AtEnd(m, t, e, node, p, s, o)
<1>0. /\ o \in BOOLEAN /\ (~o) \in BOOLEAN
      /\ node \in Outer(m, t) /\ node \in Below(m, t) /\ p \in Inner(m, t) /\ p \in Below(m, t)
      /\ s \in Below(m, t) /\ s # node /\ s # p /\ p # node
      /\ Kid(m, p, o) = node /\ Kid(m, p, ~o) = s
      /\ m[node].parent = p /\ m[node].left = o
  BY TrioIs
<1>1. KidsOK(m, t) /\ Rising(m, t) /\ Ring(m, t)
  BY DEF Shape, Links
<1>2. /\ \A k \in BOOLEAN, y \in Below(m, t) : e[k][y] \in Outer(m, t)
      /\ \A k \in BOOLEAN, y \in Outer(m, t) : e[k][y] = y
      /\ \A k \in BOOLEAN, y \in Inner(m, t) : e[k][y] = e[k][Kid(m, y, k)]
  BY DEF Ends
<1>3. \A y \in Below(m, t) : e[~o][y] = node => y = node
  <2> DEFINE T == {y \in Below(m, t) : e[~o][y] = node => y = node}
  <2>1. Outer(m, t) \subseteq T
    BY <1>0, <1>2 DEF Outer
  <2>2. ASSUME NEW n \in Inner(m, t), \A l \in BOOLEAN : Kid(m, n, l) \in T
        PROVE  n \in T
    <3>1. e[~o][n] = e[~o][Kid(m, n, ~o)] /\ Kid(m, n, ~o) \in T
      BY <1>0, <1>2, <2>2
    <3>2. PICK l \in BOOLEAN : l = ~o
      BY <1>0
    <3>4. m[Kid(m, n, l)].left = l
      BY Kids
    <3>3. Kid(m, n, ~o) # node
      BY <1>0, <3>2, <3>4
    <3> QED BY <3>1, <3>3 DEF Inner
  <2> HIDE DEF T
  <2>3. Below(m, t) \subseteq T
    BY <1>1, <2>1, <2>2, FromLeaves
  <2> QED BY <2>3 DEF T
<1>4. e[o][s] # node
  <2>1. PICK top, rk : Ranked(m, t, top, rk)
    BY <1>1 DEF Rising
  <2>2. /\ top \in Nat /\ \A k \in Below(m, t) : rk[k] \in 0..top
        /\ \A k \in Inner(m, t), l \in BOOLEAN : rk[Kid(m, k, l)] < rk[k]
    BY <2>1 DEF Ranked
  <2> DEFINE T == {y \in Below(m, t) : e[o][y] = node /\ y # node => rk[p] <= rk[y]}
  <2>3. Outer(m, t) \subseteq T
    BY <1>0, <1>2 DEF Outer
  <2>4. ASSUME NEW n \in Inner(m, t), \A l \in BOOLEAN : Kid(m, n, l) \in T
        PROVE  n \in T
    <3>1. PICK c : c = Kid(m, n, o)
      OBVIOUS
    <3>2. e[o][n] = e[o][c] /\ c \in T /\ rk[c] < rk[n] /\ c \in Below(m, t) /\ m[c].parent = n /\ n \in Below(m, t)
      BY <1>0, <1>2, <2>2, <2>4, <3>1, Kids
    <3>3. rk[c] \in 0..top /\ rk[n] \in 0..top /\ rk[p] \in 0..top
      BY <1>0, <2>2, <3>2
    <3>4. CASE c = node
      BY <1>0, <3>2, <3>3, <3>4
    <3>5. CASE c # node
      <4>1. e[o][c] = node => rk[p] <= rk[c]
        BY <3>2, <3>5
      <4> QED BY <3>2, <3>3, <4>1
    <3> QED BY <3>4, <3>5
  <2> HIDE DEF T
  <2>5. Below(m, t) \subseteq T
    BY <1>1, <2>3, <2>4, FromLeaves
  <2>6. e[o][s] = node => rk[p] <= rk[s]
    BY <1>0, <2>5 DEF T
  <2>7. rk[s] < rk[p] /\ rk[s] \in 0..top /\ rk[p] \in 0..top
    BY <1>0, <2>2
  <2> QED BY <2>6, <2>7
<1>5. \A k \in BOOLEAN : e[k][s] # node /\ e[k][s] \in Outer(m, t)
  <2>1. \A k \in BOOLEAN : k = o \/ k = ~o
    BY <1>0
  <2> QED BY <1>0, <1>2, <1>3, <1>4, <2>1
<1>6. e[o][p] = node /\ e[~o][p] = e[~o][s]
  BY <1>0, <1>2
<1>7. m[e[FALSE][Kid(m, p, TRUE)]].flink = e[TRUE][Kid(m, p, FALSE)]
  BY <1>0 DEF Gaps
<1>8. o => m[node].flink = e[TRUE][s]
  <2> SUFFICES ASSUME o PROVE m[node].flink = e[TRUE][s]
    OBVIOUS
  <2>1. o = TRUE /\ ~o = FALSE
    BY <1>0
  <2>2. Kid(m, p, TRUE) = node /\ Kid(m, p, FALSE) = s
    BY <1>0, <2>1
  <2>3. e[FALSE][node] = node
    BY <1>0, <1>2
  <2> QED BY <1>7, <2>2, <2>3
<1>9. ~o => m[e[FALSE][s]].flink = node
  <2> SUFFICES ASSUME ~o PROVE m[e[FALSE][s]].flink = node
    OBVIOUS
  <2>1. o = FALSE /\ ~o = TRUE
    BY <1>0
  <2>2. Kid(m, p, FALSE) = node /\ Kid(m, p, TRUE) = s
    BY <1>0, <2>1
  <2>3. e[TRUE][node] = node
    BY <1>0, <1>2
  <2> QED BY <1>7, <2>2, <2>3
<1>10. /\ m[m[node].flink].blink = node /\ m[m[node].blink].flink = node
       /\ \A k \in Outer(m, t) : m[m[k].flink].blink = k
  BY <1>0, <1>1 DEF Ring
<1>11. ~o => m[node].blink = e[FALSE][s]
  BY <1>5, <1>9, <1>10
<1>12. m[node].flink # node /\ m[node].blink # node
  <2>1. m[node].flink = node <=> m[node].blink = node
    BY <1>10
  <2> QED BY <1>5, <1>8, <1>11, <2>1
<1> QED BY <1>3, <1>5, <1>6, <1>8, <1>11, <1>12 DEF AtEnd

(* After the splice the leaves form a ring. *)
LEMMA LiftedRing ==
  ASSUME NEW m, NEW q, NEW t, Shape(m, t, {}), NEW node, NEW p, NEW s, NEW o,
         Trio(m, t, node, p, s, o), Lifted(m, q, t, node, p, s)
  PROVE  Ring(q, t)
<1>0. LiftedParts(m, q, t, node, p, s)
  BY LiftedSets
<1>1. Outer(q, t) = Outer(m, t) \ {node}
  BY <1>0 DEF LiftedParts
<1>2. PICK e : Ends(m, t, e) /\ Gaps(m, t, e)
  BY DEF Shape, Spread
<1>3. AtEnd(m, t, e, node, p, s, o)
  BY <1>2, LeafAtEnd
<1>4. m[node].flink # node /\ m[node].blink # node
  BY <1>3 DEF AtEnd
<1>5. node \in Outer(m, t) /\ node # t
  BY TrioIs
<1>6. \A n \in Outer(m, t) \cup {t} :
        /\ m[n].flink \in Outer(m, t) \cup {t} /\ m[m[n].flink].blink = n
        /\ m[n].blink \in Outer(m, t) \cup {t} /\ m[m[n].blink].flink = n
  BY DEF Shape, Ring
<1>7. \A k \in Outer(m, t) \cup {t} :
        k # node => /\ q[k].flink = (IF k = m[node].blink THEN m[node].flink ELSE m[k].flink)
                    /\ q[k].blink = (IF k = m[node].flink THEN m[node].blink ELSE m[k].blink)
  BY DEF Lifted
<1> SUFFICES ASSUME NEW n \in Outer(q, t) \cup {t}
             PROVE  /\ q[n].flink \in Outer(q, t) \cup {t} /\ q[q[n].flink].blink = n
                    /\ q[n].blink \in Outer(q, t) \cup {t} /\ q[q[n].blink].flink = n
  BY DEF Ring
<1>8. n \in Outer(m, t) \cup {t} /\ n # node
  BY <1>1, <1>5
<1>9. q[n].flink \in Outer(q, t) \cup {t} /\ q[q[n].flink].blink = n
  BY <1>1, <1>4, <1>5, <1>6, <1>7, <1>8
<1>10. q[n].blink \in Outer(q, t) \cup {t} /\ q[q[n].blink].flink = n
  BY <1>1, <1>4, <1>5, <1>6, <1>7, <1>8
<1> QED BY <1>9, <1>10

-----------------------------------------------------------------------------
(* The ends of the subtrees once the leaf is gone. *)
EndsLifted(m, q, t, e, node, s) ==
  [k \in BOOLEAN |-> [x \in Below(q, t) |-> IF e[k][x] = node THEN e[k][s] ELSE e[k][x]]]

(* The last leaf of the subtree that ended at node. *)
SwapLast(e, s, node, v) == IF v = node THEN e[FALSE][s] ELSE v

(* The same at the first leaf. *)
SwapFirst(e, s, node, v) == IF v = node THEN e[TRUE][s] ELSE v

(* The subtree on side l of y ends where it did, unless that was the leaf. *)
Replaced(m, q, t, e, f, node, s) ==
  /\ \A k \in BOOLEAN, y \in Inner(q, t), l \in BOOLEAN :
       f[k][Kid(q, y, l)] = IF e[k][Kid(m, y, l)] = node THEN e[k][s] ELSE e[k][Kid(m, y, l)]
  /\ \A k \in BOOLEAN :
       f[k][q[t].parent] = IF e[k][m[t].parent] = node THEN e[k][s] ELSE e[k][m[t].parent]

(* The leaves at the ends of the subtrees after the splice. *)
LEMMA LiftedEnds ==
  ASSUME NEW m, NEW q, NEW t, Shape(m, t, {}), NEW node, NEW p, NEW s, NEW o,
         Trio(m, t, node, p, s, o), Lifted(m, q, t, node, p, s),
         NEW e, Ends(m, t, e), Gaps(m, t, e), NEW f, f = EndsLifted(m, q, t, e, node, s)
  PROVE  Ends(q, t, f) /\ Replaced(m, q, t, e, f, node, s)
<1>0. LiftedParts(m, q, t, node, p, s)
  BY LiftedSets
<1>1. /\ Below(q, t) = Below(m, t) \ {node, p} /\ Inner(q, t) = Inner(m, t) \ {p}
      /\ Outer(q, t) = Outer(m, t) \ {node} /\ s \in Below(q, t)
      /\ \A k \in Inner(m, t), l \in BOOLEAN : k # p => Kid(m, k, l) # s /\ Kid(m, k, l) # node
  BY <1>0 DEF LiftedParts
<1>2. AtEnd(m, t, e, node, p, s, o)
  BY LeafAtEnd
<1>3. /\ \A k \in BOOLEAN : e[k][s] # node /\ e[k][s] \in Outer(m, t)
      /\ e[o][p] = node /\ e[~o][p] = e[~o][s]
  BY <1>2 DEF AtEnd
<1>4. /\ o \in BOOLEAN /\ (~o) \in BOOLEAN /\ p # t /\ p \in Below(m, t) /\ node # t /\ p # node
      /\ p \in Inner(m, t) /\ node \in Outer(m, t) /\ ~m[node].root /\ node \in Below(m, t)
  BY TrioIs
<1>5. /\ \A k \in BOOLEAN, y \in Below(m, t) : e[k][y] \in Outer(m, t)
      /\ \A k \in BOOLEAN, y \in Outer(m, t) : e[k][y] = y
      /\ \A k \in BOOLEAN, y \in Inner(m, t) : e[k][y] = e[k][Kid(m, y, k)]
  BY DEF Ends
<1>6. \A k \in BOOLEAN, x \in Below(q, t) : f[k][x] = IF e[k][x] = node THEN e[k][s] ELSE e[k][x]
  BY DEF EndsLifted
<1>7. f \in [BOOLEAN -> [Below(q, t) -> Outer(q, t)]]
  <2>1. \A k \in BOOLEAN, x \in Below(q, t) : (IF e[k][x] = node THEN e[k][s] ELSE e[k][x]) \in Outer(q, t)
    BY <1>1, <1>3, <1>5
  <2> QED BY <2>1 DEF EndsLifted
<1>8. \A k \in BOOLEAN : f[k][s] = IF e[k][p] = node THEN e[k][s] ELSE e[k][p]
  <2> SUFFICES ASSUME NEW k \in BOOLEAN
               PROVE  f[k][s] = IF e[k][p] = node THEN e[k][s] ELSE e[k][p]
    OBVIOUS
  <2>1. f[k][s] = e[k][s]
    BY <1>1, <1>3, <1>6
  <2>2. k = o \/ k = ~o
    BY <1>4
  <2> QED BY <1>3, <2>1, <2>2
<1>9. ASSUME NEW k \in BOOLEAN, NEW y \in Inner(q, t), NEW l \in BOOLEAN
      PROVE  f[k][Kid(q, y, l)] = IF e[k][Kid(m, y, l)] = node THEN e[k][s] ELSE e[k][Kid(m, y, l)]
  <2>1. y \in Inner(m, t) /\ y # p
    BY <1>1
  <2>2. PICK d : d = Kid(m, y, l)
    OBVIOUS
  <2>3. d \in Below(m, t) /\ d # node /\ d # s
    BY <1>1, <2>1, <2>2, Kids
  <2>4. Kid(q, y, l) = IF d = p THEN s ELSE d
    BY <2>1, <2>2 DEF Lifted
  <2>5. CASE d = p
    BY <1>8, <2>2, <2>4, <2>5
  <2>6. CASE d # p
    <3>1. d \in Below(q, t)
      BY <1>1, <2>3, <2>6
    <3> QED BY <1>6, <2>2, <2>4, <2>6, <3>1
  <2> QED BY <2>5, <2>6
<1>10. ASSUME NEW k \in BOOLEAN
       PROVE  f[k][q[t].parent] = IF e[k][m[t].parent] = node THEN e[k][s] ELSE e[k][m[t].parent]
  <2>1. t \in DOMAIN m \ {node, p} /\ s # t
    BY <1>4, TrioIs DEF Shape, Fine
  <2>2. q[t].parent = IF m[p].root THEN s ELSE m[t].parent
    BY <2>1 DEF Lifted
  <2>3. /\ m[t].parent \in DOMAIN m /\ m[t].parent # t
        /\ \A x \in Below(m, t) : m[x].root <=> x = m[t].parent
    BY <1>4 DEF Shape, Links, RootOK
  <2>4. CASE m[p].root
    BY <1>4, <1>8, <2>2, <2>3, <2>4
  <2>5. CASE ~m[p].root
    <3>1. m[t].parent \in Below(q, t)
      BY <1>1, <1>4, <2>3, <2>5 DEF Below
    <3> QED BY <1>6, <2>2, <2>5, <3>1
  <2> QED BY <2>4, <2>5
<1>11. Replaced(m, q, t, e, f, node, s)
  BY <1>9, <1>10 DEF Replaced
<1>12. ASSUME NEW k \in BOOLEAN, NEW y \in Outer(q, t)
       PROVE  f[k][y] = y
  BY <1>1, <1>5, <1>6 DEF Outer
<1>13. ASSUME NEW k \in BOOLEAN, NEW y \in Inner(q, t)
       PROVE  f[k][y] = f[k][Kid(q, y, k)]
  <2>1. y \in Inner(m, t) /\ y \in Below(q, t)
    BY <1>1 DEF Inner
  <2>2. e[k][y] = e[k][Kid(m, y, k)]
    BY <1>5, <2>1
  <2> QED BY <1>6, <1>9, <2>1, <2>2
<1> QED BY <1>7, <1>11, <1>12, <1>13 DEF Ends

(* A is the leaf before B, and which of them may be the deleted one. *)
Meets(m, t, A, B, node) ==
  /\ A \in Outer(m, t) \cup {t} /\ B \in Outer(m, t) \cup {t} /\ m[A].flink = B
  /\ A = node => m[node].left = FALSE
  /\ B = node => m[node].left = TRUE

(* After the splice the leaves are in order, and one separator is to be    *)
(* refreshed, if there is one: the one that held the deleted leaf.         *)
LEMMA LiftedSpread ==
  ASSUME NEW m, NEW q, NEW t, Shape(m, t, {}), NEW node, NEW p, NEW s, NEW o,
         Trio(m, t, node, p, s, o), Lifted(m, q, t, node, p, s), NEW X,
         m[p].root \/ \A e : Ends(m, t, e) => <<~o, e[o][s]>> \in X
  PROVE  Spread(q, t, X)
<1>0. LiftedParts(m, q, t, node, p, s)
  BY LiftedSets
<1>1. /\ Inner(q, t) = Inner(m, t) \ {p} /\ Outer(q, t) = Outer(m, t) \ {node}
      /\ Below(q, t) \subseteq Below(m, t)
  BY <1>0 DEF LiftedParts
<1>2. PICK e : Ends(m, t, e) /\ Gaps(m, t, e) /\ Seps(m, t, e, {})
  BY DEF Shape, Spread
<1>3. AtEnd(m, t, e, node, p, s, o)
  BY <1>2, LeafAtEnd
<1>4. /\ \A y \in Below(m, t) : e[~o][y] = node => y = node
      /\ \A k \in BOOLEAN : e[k][s] # node /\ e[k][s] \in Outer(m, t)
      /\ o => m[node].flink = e[TRUE][s]
      /\ ~o => m[node].blink = e[FALSE][s]
      /\ m[node].flink # node /\ m[node].blink # node
  BY <1>3 DEF AtEnd
<1>5. /\ o \in BOOLEAN /\ (~o) \in BOOLEAN /\ p # t /\ p # node /\ p \in Below(m, t)
      /\ node \in Outer(m, t) /\ node \in Below(m, t) /\ ~m[node].root /\ node # t
      /\ m[node].left = o /\ m[node].parent = p
  BY TrioIs
<1>6. PICK f : f = EndsLifted(m, q, t, e, node, s)
  OBVIOUS
<1>7. Ends(q, t, f) /\ Replaced(m, q, t, e, f, node, s)
  BY <1>2, <1>6, LiftedEnds
<1>8. /\ \A k \in BOOLEAN, y \in Inner(q, t), l \in BOOLEAN :
           f[k][Kid(q, y, l)] = IF e[k][Kid(m, y, l)] = node THEN e[k][s] ELSE e[k][Kid(m, y, l)]
      /\ \A k \in BOOLEAN :
           f[k][q[t].parent] = IF e[k][m[t].parent] = node THEN e[k][s] ELSE e[k][m[t].parent]
  BY <1>7 DEF Replaced
<1>9. \A n \in Outer(m, t) \cup {t} :
        /\ m[n].flink \in Outer(m, t) \cup {t} /\ m[m[n].flink].blink = n
        /\ m[n].blink \in Outer(m, t) \cup {t} /\ m[m[n].blink].flink = n
  BY DEF Shape, Ring
<1>10. \A k \in Outer(m, t) \cup {t} :
         k # node => /\ q[k].flink = (IF k = m[node].blink THEN m[node].flink ELSE m[k].flink)
                     /\ q[k].blink = (IF k = m[node].flink THEN m[node].blink ELSE m[k].blink)
  BY DEF Lifted
<1>11. \A k \in BOOLEAN, y \in Below(m, t) : e[k][y] \in Outer(m, t)
  BY <1>2 DEF Ends
(* Only on its own side is the leaf at the end of a larger subtree. *)
<1>12. /\ \A y \in Below(m, t) : y # node /\ e[TRUE][y] = node => o = TRUE
       /\ \A y \in Below(m, t) : y # node /\ e[FALSE][y] = node => o = FALSE
  <2>1. CASE o
    <3>1. (~o) = FALSE /\ o = TRUE
      BY <2>1, <1>5
    <3> QED BY <1>4, <2>1, <3>1
  <2>2. CASE ~o
    <3>1. (~o) = TRUE /\ o = FALSE
      BY <2>2, <1>5
    <3> QED BY <1>4, <2>2, <3>1
  <2> QED BY <2>1, <2>2
<1>13. ASSUME NEW y \in Inner(q, t), NEW l \in BOOLEAN
       PROVE  /\ Kid(m, y, l) \in Below(m, t) /\ Kid(m, y, l) # node
              /\ y \in Inner(m, t) /\ y # t
  <2>1. y \in Inner(m, t) /\ y # p
    BY <1>1
  <2>2. Kid(m, y, l) \in Below(m, t) /\ m[Kid(m, y, l)].parent = y /\ y # t
    BY <2>1, Kids
  <2> QED BY <1>5, <2>1, <2>2
(* The leaf before and the leaf after a place still are neighbours. *)
<1>14. ASSUME NEW A, NEW B, Meets(m, t, A, B, node), NEW A2, A2 = SwapLast(e, s, node, A),
              NEW B2, B2 = SwapFirst(e, s, node, B)
       PROVE  q[A2].flink = B2 /\ q[B2].blink = A2
  <2>0. /\ A \in Outer(m, t) \cup {t} /\ B \in Outer(m, t) \cup {t} /\ m[A].flink = B
        /\ (A = node => o = FALSE) /\ (B = node => o = TRUE)
    BY <1>5, <1>14 DEF Meets
  <2>1. m[B].blink = A
    BY <1>9, <2>0
  <2>2. CASE A = node
    <3>1. B = m[node].flink /\ B # node /\ A2 = m[node].blink /\ B2 = B /\ A2 # node
      BY <1>4, <1>14, <2>0, <2>2 DEF SwapLast, SwapFirst
    <3>2. A2 \in Outer(m, t) \cup {t}
      BY <1>5, <1>9, <3>1
    <3> QED BY <1>10, <2>0, <3>1, <3>2
  <2>3. CASE A # node /\ B = node
    <3>1. A = m[node].blink /\ B2 = m[node].flink /\ A2 = A /\ B2 # node
      BY <1>4, <1>14, <2>0, <2>1, <2>3 DEF SwapLast, SwapFirst
    <3>2. B2 \in Outer(m, t) \cup {t}
      BY <1>5, <1>9, <3>1
    <3> QED BY <1>10, <2>0, <2>3, <3>1, <3>2
  <2>4. CASE A # node /\ B # node
    <3>1. A # m[node].blink /\ B # m[node].flink
      BY <1>5, <1>9, <1>14, <2>0, <2>1, <2>4
    <3> QED BY <1>10, <1>14, <2>0, <2>1, <2>4, <3>1 DEF SwapLast, SwapFirst
  <2> QED BY <2>2, <2>3, <2>4
<1>15. ASSUME NEW y \in Inner(q, t)
       PROVE  q[f[FALSE][Kid(q, y, TRUE)]].flink = f[TRUE][Kid(q, y, FALSE)]
  <2>1. PICK A : A = e[FALSE][Kid(m, y, TRUE)]
    OBVIOUS
  <2>2. PICK B : B = e[TRUE][Kid(m, y, FALSE)]
    OBVIOUS
  <2>3. m[A].flink = B
    BY <1>2, <1>13, <2>1, <2>2 DEF Gaps
  <2>4. A \in Outer(m, t) /\ B \in Outer(m, t) /\ (A = node => o = FALSE) /\ (B = node => o = TRUE)
    BY <1>11, <1>12, <1>13, <2>1, <2>2
  <2>5. PICK A2 : A2 = f[FALSE][Kid(q, y, TRUE)]
    OBVIOUS
  <2>6. PICK B2 : B2 = f[TRUE][Kid(q, y, FALSE)]
    OBVIOUS
  <2>7. A2 = SwapLast(e, s, node, A)
    BY <1>8, <2>1, <2>5 DEF SwapLast, SwapFirst
  <2>8. B2 = SwapFirst(e, s, node, B)
    BY <1>8, <2>2, <2>6 DEF SwapLast, SwapFirst
  <2>9. q[A2].flink = B2
    <3>1. Meets(m, t, A, B, node)
      BY <1>5, <2>3, <2>4 DEF Meets
    <3> QED BY <1>14, <2>7, <2>8, <3>1
  <2> QED BY <2>5, <2>6, <2>9
<1>16. q[t].flink = f[TRUE][q[t].parent] /\ q[t].blink = f[FALSE][q[t].parent]
  <2>1. /\ Below(m, t) # {} /\ m[t].flink = e[TRUE][m[t].parent] /\ m[t].blink = e[FALSE][m[t].parent]
    BY <1>2, <1>5 DEF Gaps
  <2>2. m[t].parent \in Below(m, t) /\ m[t].parent # node
    BY <1>5 DEF Shape, Links, RootOK, Below
  <2>3. PICK A : A = e[FALSE][m[t].parent]
    OBVIOUS
  <2>4. PICK B : B = e[TRUE][m[t].parent]
    OBVIOUS
  <2>5. A \in Outer(m, t) /\ B \in Outer(m, t) /\ (A = node => o = FALSE) /\ (B = node => o = TRUE)
    BY <1>11, <1>12, <2>2, <2>3, <2>4
  <2>6. f[FALSE][q[t].parent] = SwapLast(e, s, node, A)
    BY <1>8, <2>3 DEF SwapLast, SwapFirst
  <2>7. f[TRUE][q[t].parent] = SwapFirst(e, s, node, B)
    BY <1>8, <2>4 DEF SwapLast, SwapFirst
  <2>8. m[t].flink = B /\ m[A].flink = t /\ t = SwapLast(e, s, node, t)
        /\ t = SwapFirst(e, s, node, t)
    BY <1>5, <1>9, <2>1, <2>3, <2>4 DEF SwapLast, SwapFirst
  <2>11. Meets(m, t, t, B, node) /\ Meets(m, t, A, t, node)
    BY <1>5, <2>5, <2>8 DEF Meets
  <2>9. q[t].flink = f[TRUE][q[t].parent]
    <3>1. PICK B2 : B2 = f[TRUE][q[t].parent]
      OBVIOUS
    <3>2. B2 = SwapFirst(e, s, node, B)
      BY <2>7, <3>1
    <3>3. q[t].flink = B2
      BY <1>14, <2>8, <2>11, <3>2
    <3> QED BY <3>1, <3>3
  <2>10. q[t].blink = f[FALSE][q[t].parent]
    <3>1. PICK A2 : A2 = f[FALSE][q[t].parent]
      OBVIOUS
    <3>2. A2 = SwapLast(e, s, node, A)
      BY <2>6, <3>1
    <3>3. q[t].blink = A2
      BY <1>14, <2>8, <2>11, <3>2
    <3> QED BY <3>1, <3>3
  <2> QED BY <2>9, <2>10
<1>17. Gaps(q, t, f)
  BY <1>15, <1>16 DEF Gaps
<1>18. ASSUME NEW y \in Inner(q, t), NEW l \in BOOLEAN
       PROVE  \/ q[y][Split(l)] = f[~l][Kid(q, y, l)]
              \/ <<l, f[~l][Kid(q, y, l)]>> \in X
  <2>0. PICK k \in BOOLEAN : k = ~l
    OBVIOUS
  <2>1. PICK V : V = e[k][Kid(m, y, l)]
    OBVIOUS
  <2>2. m[y][Split(l)] = V
    BY <1>2, <1>13, <2>0, <2>1 DEF Seps
  <2>3. q[y][Split(l)] = m[y][Split(l)]
    <3>1. y \in DOMAIN m \ {node, p}
      BY <1>0, <1>13, <1>5 DEF LiftedParts, Inner, Outer, Below
    <3>2. q[y].key = m[y].key /\ q[y].val = m[y].val
      BY <3>1 DEF Lifted
    <3> QED BY <3>2 DEF Split
  <2>4. f[k][Kid(q, y, l)] = IF V = node THEN e[k][s] ELSE V
    BY <1>8, <2>1
  <2>5. CASE V # node
    BY <2>0, <2>2, <2>3, <2>4, <2>5
  <2>6. CASE V = node
    <3>1. k = o
      <4>1. k = o \/ k = ~o
        BY <1>5
      <4> QED BY <1>4, <1>13, <2>1, <2>6, <4>1
    <3>2. e[o][Kid(m, y, l)] = e[o][node] /\ l = (~o) /\ (~l) = o
      <4>1. e[o][node] = node
        BY <1>2, <1>5 DEF Ends
      <4> QED BY <1>5, <2>0, <2>1, <2>6, <3>1, <4>1
    <3>3. y = climb(m, l)[node]
      <4>3. \A n \in Inner(m, t) : e[~l][Kid(m, n, l)] = e[~l][node] => n = climb(m, l)[node]
        BY <1>2, <1>5, ClimbFinds
      <4>1. \A n \in Inner(m, t) : e[k][Kid(m, n, l)] = e[k][node] => n = climb(m, l)[node]
        BY <2>0, <4>3
      <4>2. e[k][Kid(m, y, l)] = e[k][node] /\ y \in Inner(m, t)
        BY <1>13, <3>1, <3>2
      <4> HIDE <3>2, <2>6
      <4> QED BY <4>1, <4>2
    <3>4. ~m[p].root
      <4>1. climb(m, l) = [n \in Below(m, t) |->
                          IF m[n].root \/ m[n].left = l THEN m[n].parent
                          ELSE climb(m, l)[m[n].parent]]
        BY Climbs
      <4>2. climb(m, l)[node] = climb(m, l)[p]
        <5>1. m[node].left # l
          BY <1>5, <3>2
        <5> HIDE <3>3
        <5> QED BY <1>5, <4>1, <5>1
      <4>3. m[p].root => climb(m, l)[p] = m[p].parent
        BY <1>5, <4>1
      <4>4. m[p].root => m[p].parent = t
        BY <1>5 DEF Shape, Links, RootOK
      <4> QED BY <1>13, <3>3, <4>2, <4>3, <4>4
    <3>5. <<~o, e[o][s]>> \in X
      BY <1>2, <3>4
    <3> QED BY <2>0, <2>4, <2>6, <3>1, <3>2, <3>5
  <2> QED BY <2>5, <2>6
<1>19. Seps(q, t, f, X)
  BY <1>18 DEF Seps
<1> QED BY <1>7, <1>17, <1>19 DEF Spread

(* The splice keeps the shape, but for that separator. *)
LEMMA LiftShape ==
  ASSUME NEW m, NEW q, NEW t, Shape(m, t, {}), NEW node, NEW p, NEW s, NEW o,
         Trio(m, t, node, p, s, o), Lifted(m, q, t, node, p, s), NEW X,
         m[p].root \/ \A e : Ends(m, t, e) => <<~o, e[o][s]>> \in X
  PROVE  Shape(q, t, X)
<1>1. Fine(q, t)
  BY LiftedFine
<1>2. KidsOK(q, t)
  BY LiftedKids
<1>3. ParentsOK(q, t)
  BY LiftedParents
<1>4. RootOK(q, t)
  BY LiftedRoot
<1>5. Rising(q, t)
  BY LiftedRising
<1>6. Ring(q, t)
  BY LiftedRing
<1>7. Spread(q, t, X)
  BY LiftedSpread
<1> QED BY <1>1, <1>2, <1>3, <1>4, <1>5, <1>6, <1>7 DEF Shape, Links

-----------------------------------------------------------------------------
(* What the colours say of the leaf's parent and sibling: a leaf next to   *)
(* an internal node has a red sibling over two leaves, and no other.       *)
Spliced(m, q, t, p, s) ==
  /\ s \in Outer(m, t) \/ (s \in Inner(m, t) /\ m[s].red /\ \A l \in BOOLEAN : Kid(m, s, l) \in Outer(m, t))
  /\ m[p].red => s \in Outer(m, t)
  /\ m[p].root \/ m[p].red => Coloured(q, t, t, t)
  /\ ~m[p].root /\ ~m[p].red => Coloured(q, t, s, s)
  /\ ~m[p].root /\ ~m[p].red /\ s \in Outer(m, t) => Coloured(q, t, t, s)

(* The splice leaves the colours in order, one node red that ought to be   *)
(* black, or one subtree short.                                            *)
LEMMA SpliceColours ==
  ASSUME NEW m, NEW q, NEW t, Shape(m, t, {}), Coloured(m, t, t, t), NEW node, NEW p, NEW s, NEW o,
         Trio(m, t, node, p, s, o), Lifted(m, q, t, node, p, s)
  PROVE  Spliced(m, q, t, p, s)
<1>0. LiftedParts(m, q, t, node, p, s)
  BY LiftedSets
<1>1. /\ Below(q, t) = Below(m, t) \ {node, p} /\ Inner(q, t) = Inner(m, t) \ {p}
      /\ Outer(q, t) = Outer(m, t) \ {node} /\ s \in Below(q, t)
      /\ \A k \in Inner(m, t), l \in BOOLEAN : k # p => Kid(m, k, l) # s
  BY <1>0 DEF LiftedParts
<1>2. /\ o \in BOOLEAN /\ (~o) \in BOOLEAN /\ p \in Inner(m, t) /\ node \in Outer(m, t)
      /\ s \in Below(m, t) /\ s # t /\ Kid(m, p, o) = node /\ Kid(m, p, ~o) = s
  BY TrioIs
<1>3. PICK b : Blacks(m, t, b, t)
  BY DEF Coloured
<1>4. Apart(m, t, t)
  BY DEF Coloured
<1>5. /\ \A n \in Below(m, t) : b[n] \in Nat \ {0}
      /\ \A n \in Outer(m, t) : ~m[n].red /\ b[n] = 1
  BY <1>3 DEF Blacks, Outer
<1>6. \A n \in Inner(m, t), l \in BOOLEAN :
        /\ b[n] = Own(m, n) + b[Kid(m, n, l)]
        /\ ~(m[n].red /\ m[Kid(m, n, l)].red)
        /\ Kid(m, n, l) \in Below(m, t) /\ Kid(m, n, l) \in Inner(m, t) \cup Outer(m, t)
        /\ ~m[Kid(m, n, l)].root /\ Kid(m, n, l) # t
        /\ n \in Below(m, t) /\ n # t
  <2> SUFFICES ASSUME NEW n \in Inner(m, t), NEW l \in BOOLEAN
               PROVE  /\ b[n] = Own(m, n) + b[Kid(m, n, l)]
                      /\ ~(m[n].red /\ m[Kid(m, n, l)].red)
                      /\ Kid(m, n, l) \in Below(m, t) /\ Kid(m, n, l) \in Inner(m, t) \cup Outer(m, t)
                      /\ ~m[Kid(m, n, l)].root /\ Kid(m, n, l) # t
                      /\ n \in Below(m, t) /\ n # t
    OBVIOUS
  <2>1. PICK c : c = Kid(m, n, l)
    OBVIOUS
  <2>2. c \in Below(m, t) /\ c # t /\ c \in Inner(m, t) \cup Outer(m, t) /\ ~m[c].root /\ n \in Below(m, t) /\ n # t
    BY <2>1, Kids
  <2>3. c # t => b[n] = Own(m, n) + b[c]
    BY <1>3, <2>1, Counted
  <2>4. m[n].red /\ m[c].red => c = t
    BY <1>4, <2>1 DEF Apart
  <2> QED BY <2>1, <2>2, <2>3, <2>4
<1>7. /\ b[s] = 1 /\ b[p] = Own(m, p) + 1
      /\ m[p].red => ~m[s].red
  <2>1. b[p] = Own(m, p) + b[node] /\ b[p] = Own(m, p) + b[s] /\ (m[p].red => ~m[s].red)
    BY <1>2, <1>6
  <2>2. b[node] = 1 /\ b[s] \in Nat
    BY <1>2, <1>5
  <2>3. Own(m, p) \in Nat
    BY DEF Own
  <2> QED BY <2>1, <2>2, <2>3
<1>8. ASSUME NEW n \in Inner(m, t), b[n] = 1
      PROVE  m[n].red /\ \A l \in BOOLEAN : Kid(m, n, l) \in Below(m, t) /\ b[Kid(m, n, l)] = 1
  <2>1. \A l \in BOOLEAN : /\ 1 = Own(m, n) + b[Kid(m, n, l)] /\ b[Kid(m, n, l)] \in Nat \ {0}
                           /\ Kid(m, n, l) \in Below(m, t)
    BY <1>5, <1>6, <1>8
  <2>2. (m[n].red /\ Own(m, n) = 0) \/ Own(m, n) = 1
    BY DEF Own
  <2>3. Own(m, n) # 1
    <3>1. Kid(m, n, TRUE) \in Below(m, t) /\ 1 = Own(m, n) + b[Kid(m, n, TRUE)] /\ b[Kid(m, n, TRUE)] \in Nat \ {0}
      BY <2>1
    <3>2. PICK x \in Nat : x = b[Kid(m, n, TRUE)] /\ x # 0
      BY <3>1
    <3>3. 1 = Own(m, n) + x
      BY <3>1, <3>2
    <3> HIDE <3>1
    <3>4. \A z \in Nat : z # 0 => 1 # 1 + z
      OBVIOUS
    <3> QED BY <3>2, <3>3, <3>4
  <2>4. \A l \in BOOLEAN : b[Kid(m, n, l)] = 1
    BY <2>1, <2>2, <2>3
  <2> QED BY <2>1, <2>2, <2>3, <2>4
<1>9. s \in Outer(m, t) \/ (s \in Inner(m, t) /\ m[s].red /\ \A l \in BOOLEAN : Kid(m, s, l) \in Outer(m, t))
  <2>1. s \in Inner(m, t) \/ s \in Outer(m, t)
    BY <1>2, <1>6
  <2>2. CASE s \in Inner(m, t)
    <3>1. m[s].red /\ \A l \in BOOLEAN : b[Kid(m, s, l)] = 1
      BY <1>7, <1>8, <2>2
    <3>2. \A l \in BOOLEAN : ~m[Kid(m, s, l)].red /\ Kid(m, s, l) \in Inner(m, t) \cup Outer(m, t)
      BY <1>6, <2>2, <3>1
    <3>3. \A l \in BOOLEAN : Kid(m, s, l) \notin Inner(m, t)
      BY <1>8, <3>1, <3>2
    <3> QED BY <2>2, <3>1, <3>2, <3>3
  <2> QED BY <2>1, <2>2
<1>10. m[p].red => s \in Outer(m, t)
  BY <1>7, <1>9
<1> DEFINE d == [k \in Below(q, t) |-> b[k]]
<1>11. d \in [Below(q, t) -> Nat \ {0}] /\ \A k \in Below(q, t) : d[k] = b[k]
  BY <1>1, <1>5
<1> HIDE DEF d
<1>12. \A k \in Below(q, t) : q[k].red = m[k].red /\ Own(q, k) = Own(m, k)
  <2>1. Below(q, t) \subseteq DOMAIN m \ {node, p}
    BY <1>1 DEF Below
  <2> QED BY <2>1 DEF Lifted, Own
<1>13. \A n \in Outer(q, t) : ~q[n].red /\ d[n] = 1
  BY <1>1, <1>5, <1>11, <1>12 DEF Outer
<1>14. ASSUME NEW k \in Inner(q, t), NEW l \in BOOLEAN
       PROVE  /\ k \in Below(q, t) /\ k \in Inner(m, t) /\ k # p
              /\ Kid(q, k, l) = (IF Kid(m, k, l) = p THEN s ELSE Kid(m, k, l))
              /\ Kid(q, k, l) \in Below(q, t) /\ Kid(m, k, l) # s
              /\ Kid(q, k, l) # t
  <2>1. k \in Below(q, t) /\ k \in Inner(m, t) /\ k # p
    BY <1>1 DEF Inner
  <2>2. Kid(m, k, l) # s /\ Kid(m, k, l) # node /\ Kid(m, k, l) \in Below(m, t) /\ Kid(m, k, l) # t
    BY <1>0, <1>6, <2>1 DEF LiftedParts
  <2>3. Kid(q, k, l) = (IF Kid(m, k, l) = p THEN s ELSE Kid(m, k, l))
    BY <2>1 DEF Lifted
  <2> QED BY <1>1, <1>2, <2>1, <2>2, <2>3
<1>15. ASSUME m[p].root \/ m[p].red
       PROVE  Coloured(q, t, t, t)
  <2>1. ASSUME NEW k \in Inner(q, t), NEW l \in BOOLEAN
        PROVE  /\ d[k] = Own(q, k) + d[Kid(q, k, l)] + IF Kid(q, k, l) = t THEN 1 ELSE 0
               /\ ~(q[k].red /\ q[Kid(q, k, l)].red)
    <3>1. CASE Kid(m, k, l) = p
      <4>1. ~m[p].root /\ m[p].red
        BY <1>6, <1>14, <1>15, <2>1, <3>1
      <4>2. b[p] = b[s] /\ ~m[s].red
        BY <1>7, <4>1 DEF Own
      <4>3. Kid(q, k, l) = s /\ k \in Inner(m, t) /\ k \in Below(q, t) /\ s # t
        BY <1>2, <1>14, <2>1, <3>1
      <4>4. b[k] = Own(m, k) + b[p] /\ b[s] \in Nat /\ Own(m, k) \in Nat
        BY <1>2, <1>5, <1>6, <2>1, <3>1, <4>3 DEF Own
      <4> QED BY <1>1, <1>11, <1>12, <4>2, <4>3, <4>4
    <3>2. CASE Kid(m, k, l) # p
      <4>1. PICK c : c = Kid(m, k, l)
        OBVIOUS
      <4>2. Kid(q, k, l) = c /\ k \in Inner(m, t) /\ k \in Below(q, t) /\ c \in Below(q, t) /\ c # t
        BY <1>14, <2>1, <3>2, <4>1
      <4>3. b[k] = Own(m, k) + b[c] /\ ~(m[k].red /\ m[c].red)
        BY <1>6, <2>1, <4>1, <4>2
      <4>4. b[c] \in Nat /\ Own(m, k) \in Nat
        BY <1>1, <1>5, <4>2 DEF Own
      <4> QED BY <1>11, <1>12, <4>2, <4>3, <4>4
    <3> QED BY <3>1, <3>2
  <2>2. Blacks(q, t, d, t)
    BY <1>11, <1>13, <2>1 DEF Blacks
  <2>3. Apart(q, t, t)
    BY <2>1 DEF Apart
  <2> QED BY <2>2, <2>3 DEF Coloured
<1>16. ASSUME ~m[p].red
       PROVE  /\ Coloured(q, t, s, s)
              /\ s \in Outer(m, t) => Coloured(q, t, t, s)
  <2>1. ASSUME NEW k \in Inner(q, t), NEW l \in BOOLEAN
        PROVE  /\ d[k] = Own(q, k) + d[Kid(q, k, l)] + IF Kid(q, k, l) = s THEN 1 ELSE 0
               /\ q[k].red /\ q[Kid(q, k, l)].red => Kid(q, k, l) = s
    <3>1. CASE Kid(m, k, l) = p
      <4>1. b[p] = b[s] + 1
        BY <1>7, <1>16 DEF Own
      <4>3. Kid(q, k, l) = s /\ k \in Inner(m, t) /\ k \in Below(q, t)
        BY <1>2, <1>14, <2>1, <3>1
      <4>4. b[k] = Own(m, k) + b[p] /\ b[s] \in Nat /\ Own(m, k) \in Nat
        BY <1>2, <1>5, <1>6, <2>1, <3>1, <4>3 DEF Own
      <4> QED BY <1>1, <1>11, <1>12, <4>1, <4>3, <4>4
    <3>2. CASE Kid(m, k, l) # p
      <4>1. PICK c : c = Kid(m, k, l)
        OBVIOUS
      <4>2. Kid(q, k, l) = c /\ k \in Inner(m, t) /\ k \in Below(q, t) /\ c \in Below(q, t) /\ c # s
        BY <1>14, <2>1, <3>2, <4>1
      <4>3. b[k] = Own(m, k) + b[c] /\ ~(m[k].red /\ m[c].red)
        BY <1>6, <2>1, <4>1, <4>2
      <4>4. b[c] \in Nat /\ Own(m, k) \in Nat
        BY <1>1, <1>5, <4>2 DEF Own
      <4> QED BY <1>11, <1>12, <4>2, <4>3, <4>4
    <3> QED BY <3>1, <3>2
  <2>2. Blacks(q, t, d, s)
    BY <1>11, <1>13, <2>1 DEF Blacks
  <2>3. Apart(q, t, s)
    BY <2>1 DEF Apart
  <2>4. s \in Outer(m, t) => Apart(q, t, t)
    <3>1. s \in Outer(m, t) => ~q[s].red
      BY <1>1, <1>5, <1>12
    <3> QED BY <2>1, <3>1 DEF Apart
  <2> QED BY <2>2, <2>3, <2>4 DEF Coloured
<1> QED BY <1>9, <1>10, <1>15, <1>16 DEF Spliced

(* The red node that took a black one's place turns black. *)
LEMMA Blacken ==
  ASSUME NEW m, NEW t, NEW X, Shape(m, t, X), NEW s \in Inner(m, t), Coloured(m, t, s, s), m[s].red
  PROVE  Sound(setblack(m, s), t, X) /\ Painted(m, setblack(m, s))
<1>1. PICK r : r = setblack(m, s)
  OBVIOUS
<1>2. IsMem(m) /\ s \in DOMAIN m /\ s # t /\ s \in Below(m, t) /\ t \in DOMAIN m
  BY DEF Shape, Fine, Inner, Below
<1>3. Painted(m, r) /\ \A n \in DOMAIN m : r[n].red = IF n = s THEN FALSE ELSE m[n].red
  <2>1. /\ Painted(m, setblack(m, s))
        /\ \A n \in DOMAIN m : setblack(m, s)[n].red = IF n = s THEN FALSE ELSE m[n].red
    BY <1>2, PaintBlack
  <2> QED BY <1>1, <2>1
<1>4. \A n \in Below(m, t) : m[n].red \in BOOLEAN /\ n \in DOMAIN m
  BY DEF Shape, Fine, Below
<1>5. Shape(r, t, X)
  BY <1>3, <1>4, PaintedShape
<1>6. /\ Below(r, t) = Below(m, t) /\ Inner(r, t) = Inner(m, t) /\ Outer(r, t) = Outer(m, t)
      /\ \A n \in Below(m, t), l \in BOOLEAN : Kid(r, n, l) = Kid(m, n, l)
  BY <1>3, PaintedSets
<1>7. PICK b : Blacks(m, t, b, s)
  BY DEF Coloured
<1>8. b \in [Below(m, t) -> Nat \ {0}] /\ \A n \in Outer(m, t) : ~m[n].red /\ b[n] = 1
  BY <1>7 DEF Blacks
<1> DEFINE d == [k \in Below(m, t) |-> IF k = s THEN b[s] + 1 ELSE b[k]]
<1>9. d \in [Below(m, t) -> Nat \ {0}] /\ \A k \in Below(m, t) : d[k] = IF k = s THEN b[s] + 1 ELSE b[k]
  BY <1>8
<1> HIDE DEF d
<1>10. s \notin Outer(m, t)
  BY DEF Inner, Outer
<1>11. ASSUME NEW k \in Inner(m, t), NEW l \in BOOLEAN
       PROVE  /\ d[k] = Own(r, k) + d[Kid(m, k, l)] + IF Kid(m, k, l) = t THEN 1 ELSE 0
              /\ ~(r[k].red /\ r[Kid(m, k, l)].red)
  <2>1. PICK c : c = Kid(m, k, l)
    OBVIOUS
  <2>2. c \in Below(m, t) /\ c # t /\ c # k /\ k \in Below(m, t)
    BY <2>1, Kids
  <2>3. /\ b[k] \in Nat \ {0} /\ b[c] \in Nat \ {0}
        /\ c # s => b[k] = Own(m, k) + b[c]
        /\ c = s => b[k] = Own(m, k) + b[c] + 1
    BY <1>7, <2>1, Counted
  <2>4. m[k].red /\ m[c].red => c = s
    BY <2>1 DEF Coloured, Apart
  <2>5. /\ r[k].red = (IF k = s THEN FALSE ELSE m[k].red) /\ r[c].red = (IF c = s THEN FALSE ELSE m[c].red)
    BY <1>3, <1>4, <2>2
  <2>6. ~(r[k].red /\ r[c].red)
    BY <2>4, <2>5
  <2>7. Own(m, k) \in Nat /\ (k # s => Own(r, k) = Own(m, k)) /\ (k = s => Own(m, k) = 0 /\ Own(r, k) = 1)
    BY <2>5 DEF Own
  <2>8. d[k] = (IF k = s THEN b[s] + 1 ELSE b[k]) /\ d[c] = (IF c = s THEN b[s] + 1 ELSE b[c])
    BY <1>9, <2>2
  <2>9. d[k] = Own(r, k) + d[c]
    <3>1. CASE k = s
      BY <2>2, <2>3, <2>7, <2>8, <3>1
    <3>2. CASE k # s /\ c = s
      BY <2>2, <2>3, <2>7, <2>8, <3>2
    <3>3. CASE k # s /\ c # s
      BY <2>2, <2>3, <2>7, <2>8, <3>3
    <3> QED BY <3>1, <3>2, <3>3
  <2>10. d[k] \in Nat /\ d[c] \in Nat /\ Own(r, k) \in Nat
    BY <1>9, <2>2 DEF Own
  <2> QED BY <2>1, <2>2, <2>6, <2>9, <2>10
<1>12. \A n \in Inner(m, t), l \in BOOLEAN : Kid(r, n, l) = Kid(m, n, l)
  BY <1>6 DEF Inner
<1>13. \A n \in Outer(m, t) : ~r[n].red /\ d[n] = 1
  BY <1>3, <1>4, <1>8, <1>9, <1>10 DEF Outer
<1>14. Blacks(r, t, d, t)
  BY <1>6, <1>9, <1>11, <1>12, <1>13 DEF Blacks
<1>15. Apart(r, t, t)
  BY <1>6, <1>11, <1>12 DEF Apart
<1> QED BY <1>1, <1>3, <1>5, <1>14, <1>15 DEF Sound, Coloured

-----------------------------------------------------------------------------
(* The leaves at the two ends of a subtree that is a leaf, or an internal  *)
(* node over two.                                                          *)
TopLeaves(m, t, s, first, last) ==
  \/ s \in Outer(m, t) /\ first = s /\ last = s
  \/ /\ s \in Inner(m, t) /\ first = Kid(m, s, TRUE) /\ last = Kid(m, s, FALSE)
     /\ first \in Outer(m, t) /\ last \in Outer(m, t)

(* The ends of such a subtree are those leaves. *)
LEMMA TopEnds ==
  ASSUME NEW m, NEW t, NEW s, NEW first, NEW last, TopLeaves(m, t, s, first, last),
         NEW e, Ends(m, t, e)
  PROVE  e[TRUE][s] = first /\ e[FALSE][s] = last
<1>1. /\ \A k \in BOOLEAN, y \in Outer(m, t) : e[k][y] = y
      /\ \A k \in BOOLEAN, y \in Inner(m, t) : e[k][y] = e[k][Kid(m, y, k)]
  BY DEF Ends
<1>2. CASE s \in Outer(m, t) /\ first = s /\ last = s
  BY <1>1, <1>2
<1>3. CASE /\ s \in Inner(m, t) /\ first = Kid(m, s, TRUE) /\ last = Kid(m, s, FALSE)
           /\ first \in Outer(m, t) /\ last \in Outer(m, t)
  BY <1>1, <1>3
<1> QED BY <1>2, <1>3 DEF TopLeaves

(* refresh_ext: the splits on both sides of s learn the leaves of s.       *)
LEMMA RefreshExt ==
  ASSUME NEW m, NEW t, NEW X, Shape(m, t, X), NEW s \in Below(m, t), NEW first, NEW last,
         TopLeaves(m, t, s, first, last), X \subseteq {<<FALSE, first>>, <<TRUE, last>>},
         NEW r, r = refresh_ext(m, s, first, last)
  PROVE  Resplit(m, r, t, {})
<1>1. Fine(m, t) /\ s # t /\ ~ishead(m, s) /\ s \in DOMAIN m
  BY DEF Shape, Fine, ishead, Below
<1>2. PICK q : q = setrext(m, climb(m, FALSE)[s], first)
  OBVIOUS
<1>3. lprev(m, s) = climb(m, FALSE)[s]
  BY <1>1 DEF lprev
<1>4. Resplit(m, q, t, X \ {<<FALSE, first>>})
  <2>1. PICK l \in BOOLEAN : l = FALSE
    OBVIOUS
  <2>2. \A e : Ends(m, t, e) => e[~l][s] = first
    BY <2>1, TopEnds
  <2>3. q = Refreshed(m, l, climb(m, l)[s], first)
    BY <1>2, <2>1 DEF Refreshed
  <2>4. Resplit(m, q, t, X \ {<<l, first>>})
    BY <2>2, <2>3, RefreshSplit
  <2> QED BY <2>1, <2>4
<1>5. /\ Shape(q, t, X \ {<<FALSE, first>>}) /\ Alike(m, q) /\ DOMAIN q = DOMAIN m
      /\ \A n \in DOMAIN m : q[n].red = m[n].red
      /\ \A n \in Outer(m, t) \cup {t} : q[n].key = m[n].key /\ q[n].val = m[n].val
  BY <1>4 DEF Resplit, Alike
<1>6. /\ Below(q, t) = Below(m, t) /\ Inner(q, t) = Inner(m, t) /\ Outer(q, t) = Outer(m, t)
      /\ \A n \in Below(m, t), l \in BOOLEAN : Kid(q, n, l) = Kid(m, n, l)
  BY <1>5, AlikeSets
<1>7. TopLeaves(q, t, s, first, last)
  BY <1>6 DEF TopLeaves
<1>8. ~ishead(q, s)
  BY <1>1, <1>5 DEF Alike, ishead
<1>9. rprev(q, s) = climb(q, TRUE)[s]
  BY <1>8 DEF rprev
<1>10. r = setlext(q, climb(q, TRUE)[s], last)
  <2>1. r = setlext(q, rprev(q, s), last)
    BY <1>2, <1>3 DEF refresh_ext
  <2> QED BY <1>9, <2>1
<1>11. Resplit(q, r, t, (X \ {<<FALSE, first>>}) \ {<<TRUE, last>>})
  <2>1. PICK l \in BOOLEAN : l = TRUE
    OBVIOUS
  <2>2. \A e : Ends(q, t, e) => e[~l][s] = last
    BY <1>7, <2>1, TopEnds
  <2>3. r = Refreshed(q, l, climb(q, l)[s], last)
    BY <1>10, <2>1 DEF Refreshed
  <2>4. Resplit(q, r, t, (X \ {<<FALSE, first>>}) \ {<<l, last>>})
    BY <1>5, <1>6, <2>2, <2>3, RefreshSplit
  <2> QED BY <2>1, <2>4
<1>12. (X \ {<<FALSE, first>>}) \ {<<TRUE, last>>} = {}
  OBVIOUS
<1>13. /\ Shape(r, t, {}) /\ Alike(q, r)
       /\ \A n \in DOMAIN q : r[n].red = q[n].red
       /\ \A n \in Outer(q, t) \cup {t} : r[n].key = q[n].key /\ r[n].val = q[n].val
  <2>1. Resplit(q, r, t, {})
    BY <1>11, <1>12
  <2> QED BY <2>1 DEF Resplit
<1>14. Alike(m, r)
  BY <1>5, <1>13 DEF Alike
<1> QED BY <1>5, <1>6, <1>13, <1>14 DEF Resplit

-----------------------------------------------------------------------------
(* Nobody is below a node and above it.                                    *)
LEMMA Descent ==
  ASSUME NEW m, NEW t, NEW X, Shape(m, t, X), NEW x \in Inner(m, t), NEW y \in Inner(m, t),
         NEW l \in BOOLEAN, y = Kid(m, x, l), NEW k \in BOOLEAN
  PROVE  /\ Kid(m, y, k) # x
         /\ Kid(m, y, k) \in Inner(m, t) => \A j \in BOOLEAN : Kid(m, Kid(m, y, k), j) # x
<1>1. PICK top, rk : Ranked(m, t, top, rk)
  BY DEF Shape, Rising
<1>2. /\ top \in Nat /\ \A n \in Below(m, t) : rk[n] \in 0..top
      /\ \A n \in Inner(m, t), j \in BOOLEAN : rk[Kid(m, n, j)] < rk[n]
      /\ Inner(m, t) \subseteq Below(m, t)
  BY <1>1 DEF Ranked, Inner
<1>3. PICK z : z = Kid(m, y, k)
  OBVIOUS
<1>4. z \in Below(m, t) /\ rk[z] < rk[y] /\ rk[y] < rk[x]
  BY <1>2, <1>3, Kids
<1>5. rk[z] \in 0..top /\ rk[y] \in 0..top /\ rk[x] \in 0..top
  BY <1>2, <1>4
<1>6. z # x
  BY <1>4, <1>5
<1>7. ASSUME z \in Inner(m, t), NEW j \in BOOLEAN
      PROVE  Kid(m, z, j) # x
  <2>1. PICK g : g = Kid(m, z, j)
    OBVIOUS
  <2>2. g \in Below(m, t) /\ rk[g] < rk[z]
    BY <1>2, <1>7, <2>1, Kids
  <2>3. rk[g] \in 0..top
    BY <1>2, <2>2
  <2>4. g # x
    BY <1>4, <1>5, <2>2, <2>3
  <2> QED BY <2>1, <2>4
<1> QED BY <1>3, <1>6, <1>7

(* top takes the place of p, and only the nodes of S know.                 *)
Topped(m, r, t, S, p, top) ==
  /\ SameSets(m, r, t) /\ S \subseteq Inner(m, t) /\ p \in S /\ top \in S
  /\ \A k \in Inner(m, t), s \in BOOLEAN :
       k \notin S => /\ Kid(m, k, s) = p \/ Kid(m, k, s) \notin S
                     /\ Kid(r, k, s) = IF Kid(m, k, s) = p THEN top ELSE Kid(m, k, s)
  /\ \A k \in Below(m, t) : k \notin S => r[k].red = m[k].red

(* The counts below the nodes of S, and their colours, are right.          *)
Filled(r, S, d, w) ==
  \A k \in S, s \in BOOLEAN :
    /\ d[k] = Own(r, k) + d[Kid(r, k, s)] + Short(Kid(r, k, s), w)
    /\ ~(r[k].red /\ r[Kid(r, k, s)].red)

(* If the node on top of the patch brings the count its predecessor had, the *)
(* rest of the tree is in order.                                             *)
LEMMA ToppedColoured ==
  ASSUME NEW m, NEW r, NEW t, NEW X, NEW b, NEW n \in Below(m, t), NEW p, NEW top, NEW S, NEW d, NEW w,
         Shape(m, t, X), Blacks(m, t, b, n), Apart(m, t, t), m[n].parent = p, ~m[n].root,
         Topped(m, r, t, S, p, top),
         d \in [Below(m, t) -> Nat \ {0}], \A k \in Below(m, t) : k \notin S => d[k] = b[k],
         d[top] + Short(top, w) = b[p], r[top].red => m[p].red,
         w = top \/ w = t \/ w = n, Filled(r, S, d, w)
  PROVE  Coloured(r, t, t, w)
<1>1. /\ SameSets(m, r, t) /\ S \subseteq Inner(m, t) /\ p \in S /\ top \in S
      /\ \A k \in Below(m, t) : k \notin S => r[k].red = m[k].red
  BY DEF Topped
<1>2. p # n
  BY Family
<1>3. Inner(m, t) \subseteq Below(m, t)
  BY DEF Inner
<1>4. ASSUME NEW k \in Inner(m, t), NEW s \in BOOLEAN, k \notin S
      PROVE  /\ Kid(r, k, s) \in Below(m, t)
             /\ d[Kid(r, k, s)] + Short(Kid(r, k, s), w) = b[Kid(m, k, s)] + Short(Kid(m, k, s), n)
             /\ r[Kid(r, k, s)].red => m[Kid(m, k, s)].red
  <2>1. PICK c : c = Kid(m, k, s)
    OBVIOUS
  <2>2. (c = p \/ c \notin S) /\ Kid(r, k, s) = IF c = p THEN top ELSE c
    BY <1>4, <2>1 DEF Topped
  <2>3. c \in Below(m, t) /\ m[c].parent = k /\ c # t
    BY <2>1, Kids
  <2>4. CASE c = p
    <3>1. Short(c, n) = 0
      BY <1>2, <2>4 DEF Short
    <3>2. b[p] \in Nat
      BY <1>1, <1>3 DEF Blacks
    <3> QED BY <1>1, <1>3, <2>1, <2>2, <2>4, <3>1, <3>2
  <2>5. CASE c # p
    <3>1. c # n /\ c # w
      BY <1>1, <1>4, <2>2, <2>3, <2>5
    <3>2. Short(c, n) = 0 /\ Short(c, w) = 0
      BY <3>1 DEF Short
    <3>3. d[c] = b[c] /\ r[c].red = m[c].red
      BY <1>1, <2>2, <2>3, <2>5
    <3> QED BY <2>1, <2>2, <2>3, <2>5, <3>2, <3>3
  <2> QED BY <2>4, <2>5
<1>5. Patch(m, r, t, S, b, n, d, w)
  BY <1>1, <1>4 DEF Patch, Filled
<1> QED BY <1>5, Patched

-----------------------------------------------------------------------------
(* Below n, on side o of p, there is one black node too few.               *)
Lacks(m, t, X, n, p, s, o, b) ==
  /\ Shape(m, t, X) /\ Blacks(m, t, b, n) /\ Apart(m, t, t)
  /\ n \in Below(m, t) /\ ~m[n].root /\ ~m[n].red
  /\ p = m[n].parent /\ s = sibling(m, n) /\ o = m[n].left

(* Its sibling has one more than n, and so is no leaf.                     *)
Lacking(m, t, n, p, s, o, b, c, f) ==
  /\ o \in BOOLEAN /\ (~o) \in BOOLEAN /\ o # (~o) /\ (~~o) = o
  /\ p \in Inner(m, t) /\ s \in Inner(m, t) /\ n \in Below(m, t)
  /\ p \in Below(m, t) /\ s \in Below(m, t)
  /\ Kid(m, p, o) = n /\ Kid(m, p, ~o) = s /\ Kid(m, s, o) = c /\ Kid(m, s, ~o) = f
  /\ c \in Below(m, t) /\ f \in Below(m, t)
  /\ m[n].parent = p /\ m[s].parent = p /\ m[c].parent = s /\ m[f].parent = s
  /\ ~m[n].root /\ ~m[s].root /\ ~m[n].red /\ m[n].left = o /\ m[c].left = o
  /\ n # p /\ n # s /\ n # c /\ n # f /\ p # s /\ p # c /\ p # f /\ s # c /\ s # f /\ c # f
  /\ n # t /\ p # t /\ s # t /\ c # t /\ f # t
  /\ b[n] \in Nat \ {0} /\ b[p] = Own(m, p) + b[n] + 1 /\ b[s] = b[n] + 1
  /\ b[s] = Own(m, s) + b[c] /\ b[s] = Own(m, s) + b[f]
  /\ b[c] \in Nat \ {0} /\ b[f] \in Nat \ {0}
  /\ m[p].red => ~m[s].red
  /\ m[s].red => ~m[c].red /\ ~m[f].red

(* Around a node that lacks a black one: its sibling has children, and how *)
(* the counts and colours of these nodes are.                              *)
LEMMA LackingIs ==
  ASSUME NEW m, NEW t, NEW X, NEW n, NEW p, NEW s, NEW o, NEW b, Lacks(m, t, X, n, p, s, o, b),
         NEW c, c = Kid(m, s, o), NEW f, f = Kid(m, s, ~o)
  PROVE  Lacking(m, t, n, p, s, o, b, c, f)
<1>1. /\ Shape(m, t, X) /\ Blacks(m, t, b, n) /\ Apart(m, t, t)
      /\ n \in Below(m, t) /\ ~m[n].root /\ ~m[n].red
      /\ p = m[n].parent /\ s = sibling(m, n) /\ o = m[n].left
  BY DEF Lacks
<1>2. /\ p \in Inner(m, t) /\ o \in BOOLEAN /\ p # n /\ p \in Below(m, t)
      /\ Kid(m, p, o) = n /\ Kid(m, p, ~o) = s
      /\ s \in Below(m, t) /\ s # n /\ s # p
      /\ m[s].parent = p /\ ~m[s].root
  BY <1>1, Family
<1>3. (~o) \in BOOLEAN /\ o # (~o) /\ (~~o) = o
  BY <1>2
<1>4. \A k \in Inner(m, t), l \in BOOLEAN : ~(m[k].red /\ m[Kid(m, k, l)].red)
  <2>1. \A k \in Inner(m, t), l \in BOOLEAN : Kid(m, k, l) # t
    BY <1>1, Kids
  <2> QED BY <1>1, <2>1 DEF Apart
<1>5. /\ b \in [Below(m, t) -> Nat \ {0}] /\ \A k \in Outer(m, t) : b[k] = 1
      /\ \A k \in Inner(m, t), l \in BOOLEAN :
           b[k] = Own(m, k) + b[Kid(m, k, l)] + IF Kid(m, k, l) = n THEN 1 ELSE 0
  BY <1>1 DEF Blacks
<1>6. b[n] \in Nat \ {0} /\ b[s] \in Nat \ {0} /\ b[p] \in Nat \ {0} /\ Own(m, p) \in Nat /\ Own(m, s) \in Nat
  BY <1>1, <1>2, <1>5 DEF Own
<1>7. b[p] = Own(m, p) + b[n] + 1 /\ b[p] = Own(m, p) + b[s]
  <2>1. b[p] = Own(m, p) + b[n] + 1
    BY <1>2, <1>5
  <2>2. b[p] = Own(m, p) + b[s] + 0
    BY <1>2, <1>3, <1>5
  <2> QED BY <1>6, <2>1, <2>2
<1>8. b[s] = b[n] + 1
  BY <1>6, <1>7
<1>9. s \in Inner(m, t)
  <2>1. s \notin Outer(m, t)
    BY <1>5, <1>6, <1>8
  <2> QED BY <1>2, <2>1 DEF Inner, Outer
<1>10. /\ c \in Below(m, t) /\ c # t /\ c # s /\ m[c].parent = s
       /\ f \in Below(m, t) /\ f # t /\ f # s /\ m[f].parent = s /\ s # t /\ p # t
       /\ m[c].left = o /\ m[f].left = (~o)
  <2>1. \A l \in BOOLEAN : LET k == Kid(m, s, l)
                           IN k \in Below(m, t) /\ k # t /\ k # s /\ m[k].parent = s /\ m[k].left = l
    BY <1>1, <1>9, Kids
  <2>2. s # t /\ p # t
    BY <1>2 DEF Below
  <2> QED BY <1>2, <1>3, <2>1, <2>2
<1>11. c # p /\ f # p
  <2>0. PICK l \in BOOLEAN : s = Kid(m, p, l)
    BY <1>2, <1>3
  <2>1. \A k \in BOOLEAN : Kid(m, s, k) # p
    BY <1>1, <1>2, <1>9, <2>0, Descent
  <2> QED BY <1>2, <1>3, <2>1
<1>12. c # n /\ f # n /\ c # f
  BY <1>1, <1>2, <1>3, <1>10
<1>13. b[s] = Own(m, s) + b[c] /\ b[s] = Own(m, s) + b[f] /\ b[c] \in Nat \ {0} /\ b[f] \in Nat \ {0}
  <2>1. b[s] = Own(m, s) + b[c] + 0 /\ b[s] = Own(m, s) + b[f] + 0
    BY <1>2, <1>3, <1>5, <1>9, <1>12
  <2>2. b[c] \in Nat \ {0} /\ b[f] \in Nat \ {0}
    BY <1>5, <1>10
  <2> QED BY <1>6, <2>1, <2>2
<1>14. (m[p].red => ~m[s].red) /\ (m[s].red => ~m[c].red /\ ~m[f].red)
  BY <1>2, <1>3, <1>4, <1>9
<1>15. n # t
  BY <1>1 DEF Below
<1> QED BY <1>1, <1>2, <1>3, <1>6, <1>7, <1>8, <1>9, <1>10, <1>11, <1>12, <1>13, <1>14, <1>15 DEF Lacking

-----------------------------------------------------------------------------
(* The shortage passed on from n to its parent p. *)
Passed(m, t, X, n, p, o, r) ==
  /\ Painted(m, r) /\ Shape(r, t, X) /\ Same(m, r, t) /\ Coloured(r, t, t, p) /\ ~r[p].red
  /\ delete_turn(m, n).n = p /\ p \in Inner(m, t) /\ Kid(m, p, o) = n /\ o \in BOOLEAN

(* While everything around n is black its sibling turns red, and p is short. *)
LEMMA DeleteTurn ==
  ASSUME NEW m, NEW t, NEW X, NEW n, NEW p, NEW s, NEW o, NEW b, Lacks(m, t, X, n, p, s, o, b),
         delete_goes_on(m, n), NEW r, r = delete_turn(m, n).mem
  PROVE  Passed(m, t, X, n, p, o, r)
<1> DEFINE c == Kid(m, s, o)
           f == Kid(m, s, ~o)
<1>1. Lacking(m, t, n, p, s, o, b, c, f)
  BY LackingIs
<1>2. /\ o \in BOOLEAN /\ (~o) \in BOOLEAN /\ o # (~o)
      /\ p \in Inner(m, t) /\ s \in Inner(m, t) /\ n \in Below(m, t)
      /\ p \in Below(m, t) /\ s \in Below(m, t)
      /\ Kid(m, p, o) = n /\ Kid(m, p, ~o) = s /\ Kid(m, s, o) = c /\ Kid(m, s, ~o) = f
      /\ c \in Below(m, t) /\ f \in Below(m, t) /\ m[s].parent = p /\ m[n].parent = p /\ ~m[n].root /\ ~m[n].red
      /\ n # p /\ n # s /\ p # s /\ p # c /\ p # f /\ s # c /\ s # f /\ n # c /\ n # f
      /\ b[n] \in Nat \ {0} /\ b[p] = Own(m, p) + b[n] + 1 /\ b[s] = b[n] + 1
      /\ b[s] = Own(m, s) + b[c] /\ b[s] = Own(m, s) + b[f]
      /\ b[c] \in Nat \ {0} /\ b[f] \in Nat \ {0}
  BY <1>1 DEF Lacking
<1>3. Shape(m, t, X) /\ Blacks(m, t, b, n) /\ Apart(m, t, t) /\ s = sibling(m, n) /\ p = m[n].parent
  BY DEF Lacks
<1>4. ~m[p].red /\ ~m[s].red /\ ~m[c].red /\ ~m[f].red
  <2>1. ~m[p].red /\ ~m[s].red /\ ~m[m[s].flink].red /\ ~m[m[s].blink].red
    BY <1>3 DEF delete_goes_on
  <2>4. \A l \in BOOLEAN : Kid(m, s, l) = m[s].flink \/ Kid(m, s, l) = m[s].blink
    <3>1. Kid(m, s, TRUE) = m[s].flink /\ Kid(m, s, FALSE) = m[s].blink
      BY KidIs
    <3> QED BY <3>1
  <2>2. c = m[s].flink \/ c = m[s].blink
    BY <1>2, <2>4
  <2>3. f = m[s].flink \/ f = m[s].blink
    BY <1>2, <2>4
  <2> QED BY <2>1, <2>2, <2>3
<1> HIDE DEF c, f
<1>5. r = setcolor(m, s, TRUE) /\ delete_turn(m, n).n = p
  BY <1>3 DEF delete_turn, setred
<1>6. IsMem(m) /\ (\A k \in Below(m, t) : k \in DOMAIN m /\ m[k].red \in BOOLEAN)
  BY <1>3 DEF Shape, Fine, Below
<1>7. Painted(m, r) /\ \A k \in DOMAIN m : r[k].red = IF k = s THEN TRUE ELSE m[k].red
  <2>1. PICK v : v = TRUE
    OBVIOUS
  <2>2. s \in DOMAIN m
    BY <1>2, <1>6
  <2>3. /\ Painted(m, setcolor(m, s, v))
        /\ \A k \in DOMAIN m : setcolor(m, s, v)[k].red = IF k = s THEN v ELSE m[k].red
    BY <1>6, <2>2, PaintOne
  <2> QED BY <1>5, <2>1, <2>3
<1>8. Shape(r, t, X) /\ Same(m, r, t)
  BY <1>3, <1>6, <1>7, PaintedShape
<1>9. SameSets(m, r, t) /\ \A k \in Below(m, t), l \in BOOLEAN : Kid(r, k, l) = Kid(m, k, l)
  BY <1>7, PaintedSets DEF SameSets
<1>10. ~r[p].red /\ ~r[n].red /\ r[s].red /\ ~r[c].red /\ ~r[f].red
  BY <1>2, <1>4, <1>6, <1>7
<1> DEFINE S == {p, s}
           d == [k \in Below(m, t) |-> IF k = p THEN b[n] + 1 ELSE IF k = s THEN b[n] ELSE b[k]]
<1>11. \A k \in Below(m, t) : b[k] \in Nat \ {0}
  BY <1>3 DEF Blacks
<1>12. /\ d \in [Below(m, t) -> Nat \ {0}]
       /\ d[p] = b[n] + 1 /\ d[s] = b[n] /\ d[n] = b[n] /\ d[c] = b[c] /\ d[f] = b[f]
       /\ \A k \in Below(m, t) : k \notin S => d[k] = b[k]
  BY <1>2, <1>11
<1> HIDE DEF d
<1>13. Topped(m, r, t, S, p, p)
  <2>1. ASSUME NEW k \in Inner(m, t), NEW l \in BOOLEAN, k \notin S
        PROVE  /\ Kid(m, k, l) = p \/ Kid(m, k, l) \notin S
               /\ Kid(r, k, l) = IF Kid(m, k, l) = p THEN p ELSE Kid(m, k, l)
    <3>1. m[Kid(m, k, l)].parent = k /\ k \in Below(m, t)
      BY <1>3, Kids
    <3> QED BY <1>2, <1>9, <2>1, <3>1
  <2> QED BY <1>2, <1>6, <1>7, <1>9, <2>1 DEF Topped
<1>14. Filled(r, S, d, p)
  <2>1. b[c] = b[n] /\ b[f] = b[n]
    BY <1>2, <1>4 DEF Own
  <2>2. Own(r, p) = 1 /\ Own(r, s) = 0
    BY <1>10 DEF Own
  <2>3. Short(n, p) = 0 /\ Short(s, p) = 0 /\ Short(c, p) = 0 /\ Short(f, p) = 0
    BY <1>2 DEF Short
  <2>4. \A l \in BOOLEAN : (Kid(r, p, l) = n \/ Kid(r, p, l) = s) /\ (Kid(r, s, l) = c \/ Kid(r, s, l) = f)
    BY <1>2, <1>9
  <2>5. ASSUME NEW l \in BOOLEAN
        PROVE  /\ d[p] = Own(r, p) + d[Kid(r, p, l)] + Short(Kid(r, p, l), p)
               /\ d[s] = Own(r, s) + d[Kid(r, s, l)] + Short(Kid(r, s, l), p)
    <3>1. d[Kid(r, p, l)] = b[n] /\ Short(Kid(r, p, l), p) = 0
      BY <1>12, <2>3, <2>4
    <3>2. d[Kid(r, s, l)] = b[n] /\ Short(Kid(r, s, l), p) = 0
      BY <1>12, <2>1, <2>3, <2>4
    <3> QED BY <1>2, <1>12, <2>2, <3>1, <3>2
  <2> QED BY <1>10, <2>4, <2>5 DEF Filled
<1>15. d[p] + Short(p, p) = b[p]
  BY <1>2, <1>4, <1>12 DEF Own, Short
<1>16. Coloured(r, t, t, p)
  <2> HIDE DEF S
  <2> QED BY <1>2, <1>3, <1>4, <1>10, <1>12, <1>13, <1>14, <1>15, ToppedColoured
<1> QED BY <1>2, <1>5, <1>7, <1>8, <1>10, <1>16 DEF Passed

-----------------------------------------------------------------------------
(* After the rotation at p over its sibling s, and recolouring.            *)
Hoisted(m, r, t, X, n, p, s, o, c, f) ==
  /\ Shape(r, t, X) /\ Same(m, r, t) /\ SameSets(m, r, t)
  /\ Kid(r, p, o) = n /\ Kid(r, p, ~o) = c /\ Kid(r, s, o) = p /\ Kid(r, s, ~o) = f
  /\ \A k \in Inner(m, t), l \in BOOLEAN :
       k # p /\ k # s => /\ Kid(m, k, l) # s
                         /\ Kid(r, k, l) = IF Kid(m, k, l) = p THEN s ELSE Kid(m, k, l)

(* The rotation q, whatever is recoloured after it. *)
Hoisting(m, q, t, X, n, p, s, o, c, f) ==
  /\ IsMem(q) /\ DOMAIN q = DOMAIN m /\ \A k \in DOMAIN m : q[k].red = m[k].red
  /\ \A r : Painted(q, r) /\ (\A k \in Below(m, t) : r[k].red \in BOOLEAN)
              => Hoisted(m, r, t, X, n, p, s, o, c, f)

(* One rotation lifts the sibling over the parent. *)
LEMMA Hoist ==
  ASSUME NEW m, NEW t, NEW X, NEW n, NEW p, NEW s, NEW o, NEW b, Shape(m, t, X),
         NEW c, NEW f, Lacking(m, t, n, p, s, o, b, c, f), NEW q, q = single_rotate(m, p, ~o)
  PROVE  Hoisting(m, q, t, X, n, p, s, o, c, f)
<1>1. /\ o \in BOOLEAN /\ (~o) \in BOOLEAN /\ o # (~o) /\ (~~o) = o
      /\ p \in Inner(m, t) /\ s \in Inner(m, t) /\ c \in Below(m, t)
      /\ Kid(m, p, o) = n /\ Kid(m, p, ~o) = s /\ Kid(m, s, o) = c /\ Kid(m, s, ~o) = f
  BY DEF Lacking
<1>2. PICK l \in BOOLEAN : l = ~o
  BY <1>1
<1>3. (~l) = o /\ Kid(m, p, l) = s /\ Kid(m, p, ~l) = n /\ Kid(m, s, ~l) = c /\ Kid(m, s, l) = f
  BY <1>1, <1>2
<1>4. Turns(m, t, p, s, c, l)
  BY <1>1, <1>3 DEF Turns
<1>5. q = single_rotate(m, p, l)
  BY <1>2
<1>6. /\ Shape(q, t, X) /\ Same(m, q, t) /\ Rehung(m, q, t, p, s, c, l)
      /\ \A k \in DOMAIN m : q[k].red = m[k].red
      /\ IsMem(q) /\ DOMAIN q = DOMAIN m
  BY <1>4, <1>5, RotationRehangs
<1>7. ASSUME NEW r, Painted(q, r), \A k \in Below(m, t) : r[k].red \in BOOLEAN
      PROVE  Hoisted(m, r, t, X, n, p, s, o, c, f)
  <2>1. Rehung(m, r, t, p, s, c, l)
    BY <1>1, <1>6, <1>7, PaintedRehung
  <2>2. Below(q, t) = Below(m, t) /\ t \in DOMAIN m
    BY <1>6 DEF Below, Shape, Fine
  <2>3. Shape(r, t, X) /\ Same(q, r, t)
    BY <1>6, <1>7, <2>2, PaintedShape
  <2>4. Same(m, r, t)
    BY <1>6, <2>2, <2>3, SameAgain
  <2>5. /\ SameSets(m, r, t) /\ Kid(r, p, l) = c /\ Kid(r, p, ~l) = Kid(m, p, ~l)
        /\ Kid(r, s, ~l) = p /\ Kid(r, s, l) = Kid(m, s, l)
        /\ \A k \in Inner(m, t), j \in BOOLEAN :
             k # p /\ k # s => /\ Kid(m, k, j) # s
                               /\ Kid(r, k, j) = IF Kid(m, k, j) = p THEN s ELSE Kid(m, k, j)
    BY <2>1 DEF Rehung
  <2>6. Kid(r, p, o) = n /\ Kid(r, p, ~o) = c /\ Kid(r, s, o) = p /\ Kid(r, s, ~o) = f
    BY <1>2, <1>3, <2>5
  <2> QED BY <2>3, <2>4, <2>5, <2>6 DEF Hoisted
<1> QED BY <1>6, <1>7 DEF Hoisting

-----------------------------------------------------------------------------
(* A red sibling s is rotated up, so that n gets a black one, c.           *)
LEMMA RedSibling ==
  ASSUME NEW m, NEW t, NEW X, NEW n, NEW p, NEW s, NEW o, NEW b, Lacks(m, t, X, n, p, s, o, b),
         ~m[p].red, m[s].red, NEW c, c = Kid(m, s, o),
         NEW r, r = setblack(setred(single_rotate(m, p, ~o), p), s)
  PROVE  /\ \E d : Lacks(r, t, X, n, p, c, o, d)
         /\ Same(m, r, t) /\ r[p].red /\ ~r[c].red
<1> DEFINE f == Kid(m, s, ~o)
<1>1. Lacking(m, t, n, p, s, o, b, c, f)
  BY LackingIs
<1> HIDE DEF f
<1>2. /\ o \in BOOLEAN /\ (~o) \in BOOLEAN /\ o # (~o) /\ (~~o) = o
      /\ p \in Inner(m, t) /\ s \in Inner(m, t) /\ n \in Below(m, t)
      /\ p \in Below(m, t) /\ s \in Below(m, t)
      /\ Kid(m, p, o) = n /\ Kid(m, p, ~o) = s /\ Kid(m, s, o) = c /\ Kid(m, s, ~o) = f
      /\ c \in Below(m, t) /\ f \in Below(m, t) /\ m[s].parent = p /\ m[n].parent = p /\ ~m[n].root /\ ~m[n].red
      /\ n # p /\ n # s /\ p # s /\ p # c /\ p # f /\ s # c /\ s # f /\ n # c /\ n # f
      /\ n # t /\ p # t /\ s # t
      /\ b[n] \in Nat \ {0} /\ b[p] = Own(m, p) + b[n] + 1 /\ b[s] = b[n] + 1
      /\ b[s] = Own(m, s) + b[c] /\ b[s] = Own(m, s) + b[f]
      /\ b[c] \in Nat \ {0} /\ b[f] \in Nat \ {0} /\ ~m[c].red /\ ~m[f].red
  BY <1>1 DEF Lacking
<1>3. Shape(m, t, X) /\ Blacks(m, t, b, n) /\ Apart(m, t, t)
  BY DEF Lacks
<1>4. \A k \in Below(m, t) : k \in DOMAIN m /\ m[k].red \in BOOLEAN /\ b[k] \in Nat \ {0}
  BY <1>3 DEF Shape, Fine, Below, Blacks
<1>5. PICK q : q = single_rotate(m, p, ~o)
  OBVIOUS
<1>6. /\ IsMem(q) /\ DOMAIN q = DOMAIN m /\ \A k \in DOMAIN m : q[k].red = m[k].red
      /\ \A g : Painted(q, g) /\ (\A k \in Below(m, t) : g[k].red \in BOOLEAN)
                  => Hoisted(m, g, t, X, n, p, s, o, c, f)
  <2>1. Hoisting(m, q, t, X, n, p, s, o, c, f)
    BY <1>1, <1>3, <1>5, Hoist
  <2> QED BY <2>1 DEF Hoisting
<1>7. /\ Painted(q, r) /\ r[p].red = TRUE /\ r[s].red = FALSE
      /\ \A k \in DOMAIN m : k # p /\ k # s => r[k].red = m[k].red
  <2>1. PICK v : v = TRUE
    OBVIOUS
  <2>2. PICK w : w = FALSE
    OBVIOUS
  <2>3. p \in DOMAIN q /\ s \in DOMAIN q
    BY <1>2, <1>4, <1>6
  <2>4. /\ Painted(q, setcolor(setcolor(q, p, v), s, w))
        /\ \A k \in DOMAIN q : setcolor(setcolor(q, p, v), s, w)[k].red =
             IF k = p THEN v ELSE IF k = s THEN w ELSE q[k].red
    BY <1>2, <1>6, <2>3, PaintTwo
  <2>5. r = setcolor(setcolor(q, p, v), s, w)
    BY <1>5, <2>1, <2>2 DEF setred, setblack
  <2>6. /\ Painted(q, r) /\ r[p].red = v /\ r[s].red = w
        /\ \A k \in DOMAIN m : k # p /\ k # s => r[k].red = m[k].red
    <3> HIDE <2>1, <2>2
    <3> QED BY <1>2, <1>6, <2>3, <2>4, <2>5
  <2> QED BY <2>1, <2>2, <2>6
<1>71. r[p].red /\ ~r[s].red /\ \A k \in DOMAIN m : k # p /\ k # s => r[k].red = m[k].red
  BY <1>7
<1>72. \A k \in Below(m, t) : r[k].red \in BOOLEAN
  BY <1>4, <1>7
<1>8. Hoisted(m, r, t, X, n, p, s, o, c, f)
  BY <1>6, <1>7, <1>72
<1>9. /\ Shape(r, t, X) /\ Same(m, r, t) /\ SameSets(m, r, t)
      /\ Kid(r, p, o) = n /\ Kid(r, p, ~o) = c /\ Kid(r, s, o) = p /\ Kid(r, s, ~o) = f
      /\ \A k \in Inner(m, t), l \in BOOLEAN :
           k # p /\ k # s => /\ Kid(m, k, l) # s
                             /\ Kid(r, k, l) = IF Kid(m, k, l) = p THEN s ELSE Kid(m, k, l)
  BY <1>8 DEF Hoisted
<1>10. r[p].red /\ ~r[s].red /\ ~r[c].red /\ ~r[f].red /\ ~r[n].red
  BY <1>2, <1>4, <1>71
<1> DEFINE S == {p, s}
           d == [k \in Below(m, t) |-> IF k = p THEN b[n] + 1 ELSE IF k = s THEN b[n] + 2 ELSE b[k]]
<1>11. /\ d \in [Below(m, t) -> Nat \ {0}]
       /\ d[p] = b[n] + 1 /\ d[s] = b[n] + 2 /\ d[n] = b[n] /\ d[c] = b[c] /\ d[f] = b[f]
       /\ \A k \in Below(m, t) : k \notin S => d[k] = b[k]
  BY <1>2, <1>4
<1> HIDE DEF d
<1>12. Topped(m, r, t, S, p, s)
  <2>1. \A k \in Below(m, t) : k \notin S => r[k].red = m[k].red
    BY <1>4, <1>71
  <2>2. S \subseteq Inner(m, t) /\ p \in S /\ s \in S /\ SameSets(m, r, t)
    BY <1>2, <1>9
  <2>3. ASSUME NEW k \in Inner(m, t), NEW l \in BOOLEAN, k \notin S
        PROVE  /\ Kid(m, k, l) = p \/ Kid(m, k, l) \notin S
               /\ Kid(r, k, l) = IF Kid(m, k, l) = p THEN s ELSE Kid(m, k, l)
    BY <1>9, <2>3
  <2> HIDE DEF S
  <2> QED BY <2>1, <2>2, <2>3 DEF Topped
<1>13. b[c] = b[n] + 1 /\ b[f] = b[n] + 1
  BY <1>2 DEF Own
<1>14. Filled(r, S, d, n)
  <2>1. Own(r, p) = 0 /\ Own(r, s) = 1
    BY <1>10 DEF Own
  <2>2. Short(n, n) = 1 /\ Short(c, n) = 0 /\ Short(p, n) = 0 /\ Short(f, n) = 0
    BY <1>2 DEF Short
  <2>3. \A l \in BOOLEAN : (Kid(r, p, l) = n \/ Kid(r, p, l) = c) /\ (Kid(r, s, l) = p \/ Kid(r, s, l) = f)
    BY <1>2, <1>9
  <2>4. ASSUME NEW l \in BOOLEAN
        PROVE  /\ d[p] = Own(r, p) + d[Kid(r, p, l)] + Short(Kid(r, p, l), n)
               /\ d[s] = Own(r, s) + d[Kid(r, s, l)] + Short(Kid(r, s, l), n)
    <3>1. d[Kid(r, p, l)] + Short(Kid(r, p, l), n) = b[n] + 1 /\ d[Kid(r, p, l)] \in Nat /\ Short(Kid(r, p, l), n) \in Nat
      BY <1>2, <1>11, <1>13, <2>2, <2>3
    <3>2. d[Kid(r, s, l)] = b[n] + 1 /\ Short(Kid(r, s, l), n) = 0
      BY <1>11, <1>13, <2>2, <2>3
    <3> QED BY <1>2, <1>11, <2>1, <3>1, <3>2
  <2>5. \A l \in BOOLEAN : ~r[Kid(r, p, l)].red
    BY <1>10, <2>3
  <2> QED BY <1>10, <2>4, <2>5 DEF Filled
<1>15. d[s] + Short(s, n) = b[p]
  BY <1>2, <1>11 DEF Own, Short
<1>16. Coloured(r, t, t, n)
  <2> HIDE DEF S
  <2> QED BY <1>2, <1>3, <1>10, <1>11, <1>12, <1>14, <1>15, ToppedColoured
<1>17. PICK e : Blacks(r, t, e, n)
  BY <1>16 DEF Coloured
<1>18. r[n].parent = p /\ r[n].left = o /\ ~r[n].root
  <2>1. p \in Inner(r, t)
    BY <1>2, <1>9 DEF SameSets
  <2> QED BY <1>2, <1>9, <2>1, Kids
<1>19. c = sibling(r, n)
  BY <1>9, <1>18 DEF sibling, Kid
<1>20. n \in Below(r, t) /\ Apart(r, t, t)
  BY <1>2, <1>9, <1>16 DEF SameSets, Coloured
<1>21. Lacks(r, t, X, n, p, c, o, e)
  BY <1>9, <1>10, <1>17, <1>18, <1>19, <1>20 DEF Lacks
<1> QED BY <1>9, <1>10, <1>21

-----------------------------------------------------------------------------
(* A red nephew f on the far side: one rotation, and s takes p's colour.   *)
LEMMA FarRed ==
  ASSUME NEW m, NEW t, NEW X, NEW n, NEW p, NEW s, NEW o, NEW b, Lacks(m, t, X, n, p, s, o, b),
         ~m[s].red, NEW f, f = Kid(m, s, ~o), m[f].red,
         NEW r, r = setblack(setcolor(setblack(single_rotate(m, p, ~o), f), s, m[p].red), p)
  PROVE  Sound(r, t, X) /\ Same(m, r, t)
<1> DEFINE c == Kid(m, s, o)
<1>1. Lacking(m, t, n, p, s, o, b, c, f)
  BY LackingIs
<1> HIDE DEF c
<1>2. /\ o \in BOOLEAN /\ (~o) \in BOOLEAN /\ o # (~o) /\ (~~o) = o
      /\ p \in Inner(m, t) /\ s \in Inner(m, t) /\ n \in Below(m, t)
      /\ p \in Below(m, t) /\ s \in Below(m, t)
      /\ Kid(m, p, o) = n /\ Kid(m, p, ~o) = s /\ Kid(m, s, o) = c /\ Kid(m, s, ~o) = f
      /\ c \in Below(m, t) /\ f \in Below(m, t) /\ m[s].parent = p /\ m[n].parent = p /\ ~m[n].root /\ ~m[n].red
      /\ n # p /\ n # s /\ p # s /\ p # c /\ p # f /\ s # c /\ s # f /\ n # c /\ n # f /\ c # f
      /\ n # t /\ p # t /\ s # t /\ c # t /\ f # t
      /\ b[n] \in Nat \ {0} /\ b[p] = Own(m, p) + b[n] + 1 /\ b[s] = b[n] + 1
      /\ b[s] = Own(m, s) + b[c] /\ b[s] = Own(m, s) + b[f]
      /\ b[c] \in Nat \ {0} /\ b[f] \in Nat \ {0} /\ m[f].parent = s
  BY <1>1 DEF Lacking
<1>3. Shape(m, t, X) /\ Blacks(m, t, b, n) /\ Apart(m, t, t)
  BY DEF Lacks
<1>4. \A k \in Below(m, t) : k \in DOMAIN m /\ m[k].red \in BOOLEAN /\ b[k] \in Nat \ {0}
  BY <1>3 DEF Shape, Fine, Below, Blacks
<1>5. PICK q : q = single_rotate(m, p, ~o)
  OBVIOUS
<1>6. /\ IsMem(q) /\ DOMAIN q = DOMAIN m /\ \A k \in DOMAIN m : q[k].red = m[k].red
      /\ \A g : Painted(q, g) /\ (\A k \in Below(m, t) : g[k].red \in BOOLEAN)
                  => Hoisted(m, g, t, X, n, p, s, o, c, f)
  <2>1. Hoisting(m, q, t, X, n, p, s, o, c, f)
    BY <1>1, <1>3, <1>5, Hoist
  <2> QED BY <2>1 DEF Hoisting
<1>7. /\ Painted(q, r) /\ r[p].red = FALSE /\ r[s].red = m[p].red /\ r[f].red = FALSE
      /\ \A k \in DOMAIN m : k # p /\ k # s /\ k # f => r[k].red = m[k].red
  <2>1. PICK v : v = m[p].red
    OBVIOUS
  <2>2. PICK w : w = FALSE
    OBVIOUS
  <2>3. p \in DOMAIN q /\ s \in DOMAIN q /\ f \in DOMAIN q
    BY <1>2, <1>4, <1>6
  <2>4. /\ Painted(q, setcolor(setcolor(setcolor(q, f, w), s, v), p, w))
        /\ \A k \in DOMAIN q : setcolor(setcolor(setcolor(q, f, w), s, v), p, w)[k].red =
             IF k = f THEN w ELSE IF k = s THEN v ELSE IF k = p THEN w ELSE q[k].red
    BY <1>2, <1>6, <2>3, PaintThree
  <2>5. r = setcolor(setcolor(setcolor(q, f, w), s, v), p, w)
    BY <1>5, <2>1, <2>2 DEF setblack
  <2>6. /\ Painted(q, r) /\ r[p].red = w /\ r[s].red = v /\ r[f].red = w
        /\ \A k \in DOMAIN m : k # p /\ k # s /\ k # f => r[k].red = m[k].red
    <3> HIDE <2>1, <2>2
    <3> QED BY <1>2, <1>6, <2>3, <2>4, <2>5
  <2> QED BY <2>1, <2>2, <2>6
<1>71. /\ ~r[p].red /\ r[s].red = m[p].red /\ ~r[f].red
       /\ \A k \in DOMAIN m : k # p /\ k # s /\ k # f => r[k].red = m[k].red
  BY <1>7
<1>72. \A k \in Below(m, t) : r[k].red \in BOOLEAN
  <2> SUFFICES ASSUME NEW k \in Below(m, t) PROVE r[k].red \in BOOLEAN
    OBVIOUS
  <2>1. k \in DOMAIN m /\ m[k].red \in BOOLEAN /\ m[p].red \in BOOLEAN
    BY <1>2, <1>4
  <2>2. CASE k = p \/ k = f
    BY <1>2, <1>7, <2>1, <2>2
  <2>3. CASE k = s
    BY <1>71, <2>1, <2>3
  <2>4. CASE k # p /\ k # s /\ k # f
    BY <1>71, <2>1, <2>4
  <2> QED BY <2>2, <2>3, <2>4
<1>8. Hoisted(m, r, t, X, n, p, s, o, c, f)
  BY <1>6, <1>7, <1>72
<1>9. /\ Shape(r, t, X) /\ Same(m, r, t) /\ SameSets(m, r, t)
      /\ Kid(r, p, o) = n /\ Kid(r, p, ~o) = c /\ Kid(r, s, o) = p /\ Kid(r, s, ~o) = f
      /\ \A k \in Inner(m, t), l \in BOOLEAN :
           k # p /\ k # s => /\ Kid(m, k, l) # s
                             /\ Kid(r, k, l) = IF Kid(m, k, l) = p THEN s ELSE Kid(m, k, l)
  BY <1>8 DEF Hoisted
<1>10. ~r[p].red /\ r[s].red = m[p].red /\ ~r[f].red
  BY <1>71
<1>20. f \in Inner(m, t)
  <2>1. f \notin Outer(m, t)
    BY <1>3 DEF Blacks
  <2> QED BY <1>2, <2>1 DEF Inner, Outer
<1>21. \A l \in BOOLEAN : /\ Kid(m, f, l) \in Below(m, t) /\ Kid(m, f, l) # f /\ Kid(m, f, l) # s /\ Kid(m, f, l) # p
                          /\ Kid(m, f, l) # n /\ Kid(m, f, l) # t
  <2> SUFFICES ASSUME NEW l \in BOOLEAN
               PROVE  /\ Kid(m, f, l) \in Below(m, t) /\ Kid(m, f, l) # f /\ Kid(m, f, l) # s /\ Kid(m, f, l) # p
                      /\ Kid(m, f, l) # n /\ Kid(m, f, l) # t
    OBVIOUS
  <2>1. PICK g : g = Kid(m, f, l)
    OBVIOUS
  <2>2. g \in Below(m, t) /\ g # f /\ m[g].parent = f /\ g # t
    BY <1>3, <1>20, <2>1, Kids
  <2>3. PICK k \in BOOLEAN : k = ~o
    BY <1>2
  <2>4. s = Kid(m, p, k) /\ f = Kid(m, s, k)
    BY <1>2, <2>3
  <2>5. g # p
    BY <1>2, <1>3, <1>20, <2>1, <2>4, Descent
  <2>6. g # s /\ g # n
    BY <1>2, <1>20, <2>2
  <2> QED BY <2>1, <2>2, <2>5, <2>6
<1> DEFINE S == {p, s, f}
           d == [k \in Below(m, t) |-> IF k = p THEN b[n] + 1 ELSE IF k = s THEN b[p]
                                       ELSE IF k = f THEN b[n] + 1 ELSE b[k]]
<1>11. /\ d \in [Below(m, t) -> Nat \ {0}]
       /\ d[p] = b[n] + 1 /\ d[s] = b[p] /\ d[f] = b[n] + 1 /\ d[n] = b[n] /\ d[c] = b[c]
       /\ \A k \in Below(m, t) : k \notin S => d[k] = b[k]
  BY <1>2, <1>4
<1> HIDE DEF d
<1>12. Topped(m, r, t, S, p, s)
  <2>1. ASSUME NEW k \in Inner(m, t), NEW l \in BOOLEAN, k \notin S
        PROVE  /\ Kid(m, k, l) = p \/ Kid(m, k, l) \notin S
               /\ Kid(r, k, l) = IF Kid(m, k, l) = p THEN s ELSE Kid(m, k, l)
    <3>1. m[Kid(m, k, l)].parent = k
      BY <1>3, Kids
    <3>2. Kid(m, k, l) # f
      BY <1>2, <2>1, <3>1
    <3> QED BY <1>9, <2>1, <3>2
  <2>2. \A k \in Below(m, t) : k \notin S => r[k].red = m[k].red
    BY <1>4, <1>71
  <2>3. S \subseteq Inner(m, t) /\ p \in S /\ s \in S /\ SameSets(m, r, t)
    BY <1>2, <1>9, <1>20
  <2> HIDE DEF S
  <2> QED BY <2>1, <2>2, <2>3 DEF Topped
<1>13. b[c] = b[n] /\ b[f] = b[n]
  BY <1>2 DEF Own
<1>14. Filled(r, S, d, t)
  <2>1. Own(r, p) = 1 /\ Own(r, s) = Own(m, p) /\ Own(r, f) = 1 /\ Own(m, p) \in Nat
    BY <1>10 DEF Own
  <2>2. Short(n, t) = 0 /\ Short(c, t) = 0 /\ Short(p, t) = 0 /\ Short(f, t) = 0
    BY <1>2 DEF Short
  <2>3. \A l \in BOOLEAN : (Kid(r, p, l) = n \/ Kid(r, p, l) = c) /\ (Kid(r, s, l) = p \/ Kid(r, s, l) = f)
    BY <1>2, <1>9
  <2>4. ASSUME NEW l \in BOOLEAN
        PROVE  /\ d[p] = Own(r, p) + d[Kid(r, p, l)] + Short(Kid(r, p, l), t)
               /\ d[s] = Own(r, s) + d[Kid(r, s, l)] + Short(Kid(r, s, l), t)
               /\ d[f] = Own(r, f) + d[Kid(r, f, l)] + Short(Kid(r, f, l), t)
    <3>1. d[Kid(r, p, l)] = b[n] /\ Short(Kid(r, p, l), t) = 0
      BY <1>11, <1>13, <2>2, <2>3
    <3>2. d[Kid(r, s, l)] = b[n] + 1 /\ Short(Kid(r, s, l), t) = 0
      BY <1>11, <2>2, <2>3
    <3>3. d[Kid(r, f, l)] = b[n] /\ Short(Kid(r, f, l), t) = 0
      <4>1. PICK g : g = Kid(m, f, l)
        OBVIOUS
      <4>2. Kid(r, f, l) = g
        BY <1>2, <1>9, <1>20, <1>21, <4>1
      <4>3. d[g] = b[g] /\ Short(g, t) = 0 /\ g # n
        BY <1>11, <1>21, <4>1 DEF Short
      <4>4. b[f] = Own(m, f) + b[g] /\ b[g] \in Nat
        BY <1>3, <1>4, <1>20, <1>21, <4>1, <4>3, Counted
      <4>5. Own(m, f) = 0
        BY DEF Own
      <4> QED BY <1>13, <4>2, <4>3, <4>4, <4>5
    <3> QED BY <1>2, <1>11, <2>1, <3>1, <3>2, <3>3
  <2>5. \A l \in BOOLEAN : ~r[Kid(r, s, l)].red
    BY <1>10, <2>3
  <2> QED BY <1>10, <2>4, <2>5 DEF Filled
<1>15. d[s] + Short(s, t) = b[p]
  <2>1. Short(s, t) = 0 /\ b[p] \in Nat
    BY <1>2, <1>4 DEF Short
  <2> QED BY <1>11, <2>1
<1>16. Coloured(r, t, t, t)
  <2> HIDE DEF S
  <2> QED BY <1>2, <1>3, <1>10, <1>11, <1>12, <1>14, <1>15, ToppedColoured
<1> QED BY <1>9, <1>16 DEF Sound

(* No red nephew, but p is red: p and s change colours.                    *)
LEMMA RedParent ==
  ASSUME NEW m, NEW t, NEW X, NEW n, NEW p, NEW s, NEW o, NEW b, Lacks(m, t, X, n, p, s, o, b),
         ~m[s].red, m[p].red, NEW c, c = Kid(m, s, o), NEW f, f = Kid(m, s, ~o), ~m[f].red, ~m[c].red,
         NEW r, r = setred(setblack(m, p), s)
  PROVE  Sound(r, t, X) /\ Same(m, r, t)
<1>1. Lacking(m, t, n, p, s, o, b, c, f)
  BY LackingIs
<1>2. /\ o \in BOOLEAN /\ (~o) \in BOOLEAN /\ o # (~o) /\ (~~o) = o
      /\ p \in Inner(m, t) /\ s \in Inner(m, t) /\ n \in Below(m, t)
      /\ p \in Below(m, t) /\ s \in Below(m, t)
      /\ Kid(m, p, o) = n /\ Kid(m, p, ~o) = s
      /\ c \in Below(m, t) /\ f \in Below(m, t) /\ m[s].parent = p /\ m[n].parent = p /\ ~m[n].root /\ ~m[n].red
      /\ n # p /\ n # s /\ p # s /\ p # c /\ p # f /\ s # c /\ s # f /\ n # c /\ n # f /\ c # f
      /\ n # t /\ p # t /\ s # t /\ c # t /\ f # t
      /\ b[n] \in Nat \ {0} /\ b[p] = Own(m, p) + b[n] + 1 /\ b[s] = b[n] + 1
      /\ b[s] = Own(m, s) + b[c] /\ b[s] = Own(m, s) + b[f]
      /\ b[c] \in Nat \ {0} /\ b[f] \in Nat \ {0}
  BY <1>1 DEF Lacking
<1>3. Shape(m, t, X) /\ Blacks(m, t, b, n) /\ Apart(m, t, t)
  BY DEF Lacks
<1>4. \A k \in Below(m, t) : k \in DOMAIN m /\ m[k].red \in BOOLEAN /\ b[k] \in Nat \ {0}
  BY <1>3 DEF Shape, Fine, Below, Blacks
<1>7. Painted(m, r) /\ \A k \in DOMAIN m : r[k].red = IF k = p THEN FALSE ELSE IF k = s THEN TRUE ELSE m[k].red
  <2>1. PICK v : v = TRUE
    OBVIOUS
  <2>2. PICK w : w = FALSE
    OBVIOUS
  <2>3. p \in DOMAIN m /\ s \in DOMAIN m /\ IsMem(m)
    BY <1>2, <1>3, <1>4 DEF Shape, Fine
  <2>4. /\ Painted(m, setcolor(setcolor(m, p, w), s, v))
        /\ \A k \in DOMAIN m : setcolor(setcolor(m, p, w), s, v)[k].red =
             IF k = p THEN w ELSE IF k = s THEN v ELSE m[k].red
    BY <1>2, <2>3, PaintTwo
  <2>5. r = setcolor(setcolor(m, p, w), s, v)
    BY <2>1, <2>2 DEF setred, setblack
  <2> QED BY <2>1, <2>2, <2>4, <2>5
<1>8. Shape(r, t, X) /\ Same(m, r, t)
  BY <1>3, <1>4, <1>7, PaintedShape
<1>9. SameSets(m, r, t) /\ \A k \in Below(m, t), l \in BOOLEAN : Kid(r, k, l) = Kid(m, k, l)
  BY <1>7, PaintedSets DEF SameSets
<1>10. ~r[p].red /\ r[s].red /\ ~r[c].red /\ ~r[f].red
  <2>1. p \in DOMAIN m /\ s \in DOMAIN m /\ c \in DOMAIN m /\ f \in DOMAIN m
    BY <1>2, <1>4
  <2>2. p # s /\ c # p /\ c # s /\ f # p /\ f # s
    BY <1>2
  <2> QED BY <1>7, <2>1, <2>2
<1> DEFINE S == {p, s}
           d == [k \in Below(m, t) |-> IF k = s THEN b[n] ELSE b[k]]
<1>11. /\ d \in [Below(m, t) -> Nat \ {0}]
       /\ d[p] = b[p] /\ d[s] = b[n] /\ d[n] = b[n] /\ d[c] = b[c] /\ d[f] = b[f]
       /\ \A k \in Below(m, t) : k \notin S => d[k] = b[k]
  BY <1>2, <1>4
<1> HIDE DEF d
<1>12. Topped(m, r, t, S, p, p)
  <2>1. ASSUME NEW k \in Inner(m, t), NEW l \in BOOLEAN, k \notin S
        PROVE  /\ Kid(m, k, l) = p \/ Kid(m, k, l) \notin S
               /\ Kid(r, k, l) = IF Kid(m, k, l) = p THEN p ELSE Kid(m, k, l)
    <3>1. m[Kid(m, k, l)].parent = k /\ k \in Below(m, t)
      BY <1>3, Kids
    <3> QED BY <1>2, <1>9, <2>1, <3>1
  <2>2. \A k \in Below(m, t) : k \notin S => r[k].red = m[k].red
    <3>1. ASSUME NEW k \in Below(m, t), k \notin S PROVE r[k].red = m[k].red
      <4>1. k \in DOMAIN m /\ k # p /\ k # s
        BY <1>4, <3>1
      <4> QED BY <1>7, <4>1
    <3> QED BY <3>1
  <2>3. SameSets(m, r, t) /\ S \subseteq Inner(m, t) /\ p \in S
    BY <1>2, <1>9
  <2> HIDE DEF S
  <2> QED BY <2>1, <2>2, <2>3 DEF Topped
<1>13. b[c] = b[n] /\ b[f] = b[n] /\ b[p] = b[n] + 1
  BY <1>2 DEF Own
<1>14. Filled(r, S, d, t)
  <2>1. Own(r, p) = 1 /\ Own(r, s) = 0
    BY <1>10 DEF Own
  <2>2. Short(n, t) = 0 /\ Short(s, t) = 0 /\ Short(c, t) = 0 /\ Short(f, t) = 0
    BY <1>2 DEF Short
  <2>3. \A l \in BOOLEAN : (Kid(r, p, l) = n \/ Kid(r, p, l) = s) /\ (Kid(r, s, l) = c \/ Kid(r, s, l) = f)
    <3>1. \A l \in BOOLEAN : l = o \/ l = (~o)
      BY <1>2
    <3> QED BY <1>2, <1>9, <3>1
  <2>4. ASSUME NEW l \in BOOLEAN
        PROVE  /\ d[p] = Own(r, p) + d[Kid(r, p, l)] + Short(Kid(r, p, l), t)
               /\ d[s] = Own(r, s) + d[Kid(r, s, l)] + Short(Kid(r, s, l), t)
    <3>1. d[Kid(r, p, l)] = b[n] /\ Short(Kid(r, p, l), t) = 0
      BY <1>11, <2>2, <2>3
    <3>2. d[Kid(r, s, l)] = b[n] /\ Short(Kid(r, s, l), t) = 0
      BY <1>11, <1>13, <2>2, <2>3
    <3> QED BY <1>2, <1>11, <1>13, <2>1, <3>1, <3>2
  <2>5. \A l \in BOOLEAN : ~r[Kid(r, s, l)].red
    BY <1>10, <2>3
  <2> QED BY <1>10, <2>4, <2>5 DEF Filled
<1>15. d[p] + Short(p, t) = b[p]
  <2>1. Short(p, t) = 0 /\ b[p] \in Nat
    BY <1>2, <1>4 DEF Short
  <2> QED BY <1>11, <2>1
<1>16. Coloured(r, t, t, t)
  <2> HIDE DEF S
  <2> QED BY <1>2, <1>3, <1>10, <1>11, <1>12, <1>14, <1>15, ToppedColoured
<1> QED BY <1>8, <1>16 DEF Sound

-----------------------------------------------------------------------------
(* After the rotation at s over c and the one at p over c, and recolouring. *)
Raised(m, r, t, X, n, p, s, o, c, f) ==
  /\ Shape(r, t, X) /\ Same(m, r, t) /\ SameSets(m, r, t)
  /\ Kid(r, p, o) = n /\ Kid(r, p, ~o) = Kid(m, c, o)
  /\ Kid(r, s, o) = Kid(m, c, ~o) /\ Kid(r, s, ~o) = f
  /\ Kid(r, c, o) = p /\ Kid(r, c, ~o) = s
  /\ \A k \in Inner(m, t), l \in BOOLEAN :
       k # p /\ k # s /\ k # c =>
         /\ Kid(m, k, l) # s /\ Kid(m, k, l) # c
         /\ Kid(r, k, l) = IF Kid(m, k, l) = p THEN c ELSE Kid(m, k, l)

(* The two rotations q, whatever is recoloured after them. *)
Raising(m, q, t, X, n, p, s, o, c, f) ==
  /\ IsMem(q) /\ DOMAIN q = DOMAIN m /\ \A k \in DOMAIN m : q[k].red = m[k].red
  /\ \A r : Painted(q, r) /\ (\A k \in Below(m, t) : r[k].red \in BOOLEAN)
              => Raised(m, r, t, X, n, p, s, o, c, f)

(* Two rotations lift the near nephew over the sibling and the parent. *)
LEMMA Raise ==
  ASSUME NEW m, NEW t, NEW X, NEW n, NEW p, NEW s, NEW o, NEW b, Shape(m, t, X),
         NEW c, NEW f, Lacking(m, t, n, p, s, o, b, c, f), c \in Inner(m, t),
         NEW q, q = single_rotate(single_rotate(m, s, o), p, ~o)
  PROVE  Raising(m, q, t, X, n, p, s, o, c, f)
<1>1. /\ o \in BOOLEAN /\ (~o) \in BOOLEAN /\ o # (~o) /\ (~~o) = o
      /\ p \in Inner(m, t) /\ s \in Inner(m, t) /\ p # s /\ p # c /\ s # c /\ f # p
      /\ m[s].parent = p
      /\ Kid(m, p, o) = n /\ Kid(m, p, ~o) = s /\ Kid(m, s, o) = c /\ Kid(m, s, ~o) = f
      /\ n # s /\ n # p
  BY DEF Lacking
<1>2. PICK l \in BOOLEAN : l = ~o
  BY <1>1
<1>3. (~l) = o /\ Kid(m, p, l) = s /\ Kid(m, p, ~l) = n /\ Kid(m, s, ~l) = c /\ Kid(m, s, l) = f
      /\ s = Kid(m, p, l)
  BY <1>1, <1>2
<1>4. PICK x1 : x1 = Kid(m, c, o)
  OBVIOUS
<1>5. PICK x2 : x2 = Kid(m, c, l)
  OBVIOUS
<1>6. x1 \in Below(m, t) /\ x2 \in Below(m, t) /\ x2 # p /\ x1 # p
  <2>1. \A k \in BOOLEAN : Kid(m, c, k) \in Below(m, t)
    BY Kids
  <2>2. Kid(m, s, o) \in Inner(m, t) => \A j \in BOOLEAN : Kid(m, Kid(m, s, o), j) # p
    BY <1>1, <1>3, Descent
  <2>3. \A j \in BOOLEAN : Kid(m, c, j) # p
    BY <1>1, <2>2
  <2> QED BY <1>1, <1>4, <1>5, <2>1, <2>3
<1>7. PICK u : u = single_rotate(m, s, o)
  OBVIOUS
<1>8. Turns(m, t, s, c, x2, o)
  BY <1>1, <1>2, <1>5, <1>6 DEF Turns
<1>9. /\ Shape(u, t, X) /\ Same(m, u, t) /\ Rehung(m, u, t, s, c, x2, o)
      /\ \A k \in DOMAIN m : u[k].red = m[k].red
      /\ IsMem(u) /\ DOMAIN u = DOMAIN m
  BY <1>7, <1>8, RotationRehangs
<1>10. /\ SameSets(m, u, t)
       /\ Kid(u, s, o) = x2 /\ Kid(u, s, ~o) = Kid(m, s, ~o)
       /\ Kid(u, c, ~o) = s /\ Kid(u, c, o) = Kid(m, c, o)
       /\ \A k \in Inner(m, t), j \in BOOLEAN :
            k # s /\ k # c => /\ Kid(m, k, j) # c
                              /\ Kid(u, k, j) = IF Kid(m, k, j) = s THEN c ELSE Kid(m, k, j)
  BY <1>9 DEF Rehung
<1>11. Inner(u, t) = Inner(m, t) /\ Below(u, t) = Below(m, t)
  BY <1>10 DEF SameSets
<1>12. Kid(u, p, l) = c /\ Kid(u, p, o) = n
  BY <1>1, <1>3, <1>10
<1>13. Turns(u, t, p, c, x1, l)
  BY <1>1, <1>3, <1>4, <1>6, <1>10, <1>11, <1>12 DEF Turns
<1>14. q = single_rotate(u, p, l)
  BY <1>2, <1>7
<1>15. /\ Shape(q, t, X) /\ Same(u, q, t) /\ Rehung(u, q, t, p, c, x1, l)
       /\ \A k \in DOMAIN u : q[k].red = u[k].red
       /\ IsMem(q) /\ DOMAIN q = DOMAIN u
  BY <1>9, <1>13, <1>14, RotationRehangs
<1>16. t \in DOMAIN m
  BY DEF Shape, Fine
<1>17. Same(m, q, t)
  BY <1>9, <1>15, <1>16, SameAgain
<1>18. ASSUME NEW r, Painted(q, r), \A k \in Below(m, t) : r[k].red \in BOOLEAN
       PROVE  Raised(m, r, t, X, n, p, s, o, c, f)
  <2>1. Rehung(u, r, t, p, c, x1, l)
    BY <1>1, <1>11, <1>15, <1>18, PaintedRehung
  <2>2. Below(q, t) = Below(m, t)
    BY <1>17 DEF Below, Same
  <2>3. Shape(r, t, X) /\ Same(q, r, t)
    BY <1>15, <1>18, <2>2, PaintedShape
  <2>4. Same(m, r, t)
    BY <1>16, <1>17, <2>3, SameAgain
  <2>5. /\ SameSets(u, r, t) /\ Kid(r, p, l) = x1 /\ Kid(r, p, ~l) = Kid(u, p, ~l)
        /\ Kid(r, c, ~l) = p /\ Kid(r, c, l) = Kid(u, c, l)
        /\ \A k \in Inner(u, t), j \in BOOLEAN :
             k # p /\ k # c => Kid(r, k, j) = IF Kid(u, k, j) = p THEN c ELSE Kid(u, k, j)
    BY <2>1 DEF Rehung
  <2>6. SameSets(m, r, t)
    BY <1>10, <2>5 DEF SameSets
  <2>7. Kid(r, p, o) = n /\ Kid(r, p, ~o) = Kid(m, c, o)
    BY <1>2, <1>3, <1>4, <1>12, <2>5
  <2>8. Kid(r, c, o) = p /\ Kid(r, c, ~o) = s
    BY <1>2, <1>3, <1>10, <2>5
  <2>9. Kid(r, s, o) = Kid(m, c, ~o) /\ Kid(r, s, ~o) = f
    <3>1. Kid(u, s, o) = Kid(m, c, ~o) /\ Kid(u, s, ~o) = f /\ Kid(u, s, o) # p
      BY <1>1, <1>2, <1>5, <1>6, <1>10
    <3> QED BY <1>1, <1>11, <2>5, <3>1
  <2>10. ASSUME NEW k \in Inner(m, t), NEW j \in BOOLEAN, k # p, k # s, k # c
         PROVE  /\ Kid(m, k, j) # s /\ Kid(m, k, j) # c
                /\ Kid(r, k, j) = IF Kid(m, k, j) = p THEN c ELSE Kid(m, k, j)
    <3>1. m[Kid(m, k, j)].parent = k
      BY Kids
    <3>2. Kid(m, k, j) # s
      BY <1>1, <2>10, <3>1
    <3> QED BY <1>10, <1>11, <2>5, <2>10, <3>2
  <2> QED BY <2>3, <2>4, <2>6, <2>7, <2>8, <2>9, <2>10 DEF Raised
<1> QED BY <1>9, <1>15, <1>18 DEF Raising

(* A red nephew c on n's side only: two rotations, and c is on top.        *)
LEMMA NearRed ==
  ASSUME NEW m, NEW t, NEW X, NEW n, NEW p, NEW s, NEW o, NEW b, Lacks(m, t, X, n, p, s, o, b),
         ~m[s].red, NEW c, c = Kid(m, s, o), m[c].red, NEW f, f = Kid(m, s, ~o), ~m[f].red,
         NEW u, u = setblack(single_rotate(single_rotate(m, s, o), p, ~o), c),
         NEW r, (m[p].red /\ r = setred(u, s)) \/ (~m[p].red /\ r = u)
  PROVE  Sound(r, t, X) /\ Same(m, r, t)
<1>1. Lacking(m, t, n, p, s, o, b, c, f)
  BY LackingIs
<1>2. /\ o \in BOOLEAN /\ (~o) \in BOOLEAN /\ o # (~o) /\ (~~o) = o
      /\ p \in Inner(m, t) /\ s \in Inner(m, t) /\ n \in Below(m, t)
      /\ p \in Below(m, t) /\ s \in Below(m, t)
      /\ Kid(m, p, o) = n /\ Kid(m, p, ~o) = s /\ Kid(m, s, o) = c /\ Kid(m, s, ~o) = f
      /\ c \in Below(m, t) /\ f \in Below(m, t) /\ m[s].parent = p /\ m[n].parent = p /\ ~m[n].root /\ ~m[n].red
      /\ n # p /\ n # s /\ p # s /\ p # c /\ p # f /\ s # c /\ s # f /\ n # c /\ n # f /\ c # f
      /\ n # t /\ p # t /\ s # t /\ c # t /\ f # t
      /\ b[n] \in Nat \ {0} /\ b[p] = Own(m, p) + b[n] + 1 /\ b[s] = b[n] + 1
      /\ b[s] = Own(m, s) + b[c] /\ b[s] = Own(m, s) + b[f]
      /\ b[c] \in Nat \ {0} /\ b[f] \in Nat \ {0}
  BY <1>1 DEF Lacking
<1>3. Shape(m, t, X) /\ Blacks(m, t, b, n) /\ Apart(m, t, t)
  BY DEF Lacks
<1>4. \A k \in Below(m, t) : k \in DOMAIN m /\ m[k].red \in BOOLEAN /\ b[k] \in Nat \ {0}
  BY <1>3 DEF Shape, Fine, Below, Blacks
<1>5. c \in Inner(m, t)
  <2>1. c \notin Outer(m, t)
    BY <1>3 DEF Blacks
  <2> QED BY <1>2, <2>1 DEF Inner, Outer
<1>6. PICK q : q = single_rotate(single_rotate(m, s, o), p, ~o)
  OBVIOUS
<1>7. /\ IsMem(q) /\ DOMAIN q = DOMAIN m /\ \A k \in DOMAIN m : q[k].red = m[k].red
      /\ \A g : Painted(q, g) /\ (\A k \in Below(m, t) : g[k].red \in BOOLEAN)
                  => Raised(m, g, t, X, n, p, s, o, c, f)
  <2>1. Raising(m, q, t, X, n, p, s, o, c, f)
    BY <1>1, <1>3, <1>5, <1>6, Raise
  <2> QED BY <2>1 DEF Raising
<1>8. /\ Painted(q, r) /\ r[c].red = FALSE /\ r[s].red = m[p].red
      /\ \A k \in DOMAIN m : k # c /\ k # s => r[k].red = m[k].red
  <2>1. PICK v : v = TRUE
    OBVIOUS
  <2>2. PICK w : w = FALSE
    OBVIOUS
  <2>3. c \in DOMAIN q /\ s \in DOMAIN q /\ s \in DOMAIN m /\ c \in DOMAIN m
    BY <1>2, <1>4, <1>7
  <2>4. CASE m[p].red /\ r = setred(u, s)
    <3>1. /\ Painted(q, setcolor(setcolor(q, c, w), s, v))
          /\ \A k \in DOMAIN q : setcolor(setcolor(q, c, w), s, v)[k].red =
               IF k = c THEN w ELSE IF k = s THEN v ELSE q[k].red
      BY <1>2, <1>7, <2>3, PaintTwo
    <3>2. r = setcolor(setcolor(q, c, w), s, v)
      BY <1>6, <2>1, <2>2, <2>4 DEF setred, setblack
    <3>3. /\ Painted(q, r) /\ r[c].red = w /\ r[s].red = v
          /\ \A k \in DOMAIN m : k # c /\ k # s => r[k].red = m[k].red
      <4> HIDE <2>1, <2>2
      <4> QED BY <1>2, <1>7, <2>3, <3>1, <3>2
    <3>4. m[p].red = TRUE
      BY <1>2, <1>4, <2>4
    <3> QED BY <2>1, <2>2, <3>3, <3>4
  <2>5. CASE ~m[p].red /\ r = u
    <3>1. /\ Painted(q, setcolor(q, c, w))
          /\ \A k \in DOMAIN q : setcolor(q, c, w)[k].red = IF k = c THEN w ELSE q[k].red
      BY <1>7, <2>3, PaintOne
    <3>2. r = setcolor(q, c, w)
      BY <1>6, <2>2, <2>5 DEF setblack
    <3>3. /\ Painted(q, r) /\ r[c].red = w
          /\ \A k \in DOMAIN m : k # c => r[k].red = m[k].red
      <4> HIDE <2>1, <2>2
      <4> QED BY <1>2, <1>7, <2>3, <3>1, <3>2
    <3>4. m[p].red = FALSE /\ m[s].red = FALSE /\ r[s].red = m[s].red
      BY <1>2, <1>4, <2>3, <2>5, <3>3
    <3> QED BY <2>2, <3>3, <3>4
  <2> QED BY <2>4, <2>5
<1>9. \A k \in Below(m, t) : r[k].red \in BOOLEAN
  <2> SUFFICES ASSUME NEW k \in Below(m, t) PROVE r[k].red \in BOOLEAN
    OBVIOUS
  <2>1. k \in DOMAIN m /\ m[k].red \in BOOLEAN /\ m[p].red \in BOOLEAN
    BY <1>2, <1>4
  <2>2. CASE k = c
    BY <1>8, <2>2
  <2>3. CASE k = s
    BY <1>8, <2>1, <2>3
  <2>4. CASE k # c /\ k # s
    BY <1>8, <2>1, <2>4
  <2> QED BY <2>2, <2>3, <2>4
<1>10. Raised(m, r, t, X, n, p, s, o, c, f)
  BY <1>7, <1>8, <1>9
<1>11. PICK x1 : x1 = Kid(m, c, o)
  OBVIOUS
<1>12. PICK x2 : x2 = Kid(m, c, ~o)
  OBVIOUS
<1>13. /\ Shape(r, t, X) /\ Same(m, r, t) /\ SameSets(m, r, t)
       /\ Kid(r, p, o) = n /\ Kid(r, p, ~o) = x1 /\ Kid(r, s, o) = x2 /\ Kid(r, s, ~o) = f
       /\ Kid(r, c, o) = p /\ Kid(r, c, ~o) = s
       /\ \A k \in Inner(m, t), l \in BOOLEAN :
            k # p /\ k # s /\ k # c =>
              /\ Kid(m, k, l) # s /\ Kid(m, k, l) # c
              /\ Kid(r, k, l) = IF Kid(m, k, l) = p THEN c ELSE Kid(m, k, l)
  BY <1>10, <1>11, <1>12 DEF Raised
<1>14. ASSUME NEW x, x = x1 \/ x = x2
       PROVE  /\ x \in Below(m, t) /\ x # p /\ x # s /\ x # c /\ x # t /\ x # n /\ ~m[x].red
              /\ b[c] = Own(m, c) + b[x]
  <2>1. PICK k \in BOOLEAN : x = Kid(m, c, k)
    BY <1>2, <1>11, <1>12, <1>14
  <2>2. x \in Below(m, t) /\ x # c /\ m[x].parent = c /\ x # t
    BY <1>3, <1>5, <2>1, Kids
  <2>3. PICK l \in BOOLEAN : l = ~o
    BY <1>2
  <2>4. s = Kid(m, p, l)
    BY <1>2, <2>3
  <2>5. Kid(m, s, o) \in Inner(m, t) => \A j \in BOOLEAN : Kid(m, Kid(m, s, o), j) # p
    BY <1>2, <1>3, <2>4, Descent
  <2>6. x # p
    BY <1>2, <1>5, <2>1, <2>5
  <2>7. x # s /\ x # n
    BY <1>2, <2>2
  <2>8. ~m[x].red
    BY <1>3, <1>5, <2>1, <2>2 DEF Apart
  <2>9. b[c] = Own(m, c) + b[x]
    BY <1>3, <1>5, <2>1, <2>7, Counted
  <2> QED BY <2>2, <2>6, <2>7, <2>8, <2>9
<1>15. b[c] = b[n] /\ b[f] = b[n] /\ b[x1] = b[n] /\ b[x2] = b[n]
  <2>1. b[c] = b[n] /\ b[f] = b[n]
    BY <1>2 DEF Own
  <2>2. Own(m, c) = 0
    BY DEF Own
  <2>3. ASSUME NEW x, x = x1 \/ x = x2 PROVE b[x] = b[n]
    <3>1. x \in Below(m, t) /\ b[c] = Own(m, c) + b[x]
      BY <1>14, <2>3
    <3>2. b[x] \in Nat
      BY <1>4, <3>1
    <3> QED BY <2>1, <2>2, <3>1, <3>2
  <2> QED BY <2>1, <2>3
<1>16. Own(m, p) \in Nat /\ Own(r, p) = Own(m, p) /\ Own(r, s) = Own(m, p) /\ Own(r, c) = 1
  <2>1. r[p].red = m[p].red
    BY <1>2, <1>4, <1>8
  <2> QED BY <1>8, <2>1 DEF Own
<1> DEFINE S == {p, s, c}
           d == [k \in Below(m, t) |-> IF k = p \/ k = s THEN Own(m, p) + b[n] ELSE IF k = c THEN b[p] ELSE b[k]]
<1>17. /\ d \in [Below(m, t) -> Nat \ {0}]
       /\ d[p] = Own(m, p) + b[n] /\ d[s] = Own(m, p) + b[n] /\ d[c] = b[p]
       /\ \A k \in Below(m, t) : k \notin S => d[k] = b[k]
  BY <1>2, <1>4, <1>16
<1>18. d[n] = b[n] /\ d[f] = b[n] /\ d[x1] = b[n] /\ d[x2] = b[n]
  <2> HIDE DEF d
  <2> QED BY <1>2, <1>14, <1>15, <1>17
<1> HIDE DEF d
<1>19. Topped(m, r, t, S, p, c)
  <2>1. ASSUME NEW k \in Inner(m, t), NEW l \in BOOLEAN, k \notin S
        PROVE  /\ Kid(m, k, l) = p \/ Kid(m, k, l) \notin S
               /\ Kid(r, k, l) = IF Kid(m, k, l) = p THEN c ELSE Kid(m, k, l)
    BY <1>13, <2>1
  <2>2. \A k \in Below(m, t) : k \notin S => r[k].red = m[k].red
    BY <1>4, <1>8
  <2>3. S \subseteq Inner(m, t) /\ p \in S /\ c \in S /\ SameSets(m, r, t)
    BY <1>2, <1>5, <1>13
  <2> HIDE DEF S
  <2> QED BY <2>1, <2>2, <2>3 DEF Topped
<1>20. Filled(r, S, d, t)
  <2>1. \A l \in BOOLEAN : /\ Kid(r, p, l) = n \/ Kid(r, p, l) = x1
                           /\ Kid(r, s, l) = x2 \/ Kid(r, s, l) = f
                           /\ Kid(r, c, l) = p \/ Kid(r, c, l) = s
    <3>1. \A l \in BOOLEAN : l = o \/ l = (~o)
      BY <1>2
    <3> QED BY <1>13, <3>1
  <2>2. \A x : x # t => Short(x, t) = 0
    BY DEF Short
  <2>3. /\ Short(n, t) = 0 /\ Short(x1, t) = 0 /\ Short(x2, t) = 0
        /\ Short(f, t) = 0 /\ Short(p, t) = 0 /\ Short(s, t) = 0
    BY <1>2, <1>14, <2>2
  <2>4. ASSUME NEW l \in BOOLEAN
        PROVE  /\ d[p] = Own(r, p) + d[Kid(r, p, l)] + Short(Kid(r, p, l), t)
               /\ d[s] = Own(r, s) + d[Kid(r, s, l)] + Short(Kid(r, s, l), t)
               /\ d[c] = Own(r, c) + d[Kid(r, c, l)] + Short(Kid(r, c, l), t)
    <3>1. d[Kid(r, p, l)] = b[n] /\ Short(Kid(r, p, l), t) = 0
      BY <1>18, <2>1, <2>3
    <3>2. d[Kid(r, s, l)] = b[n] /\ Short(Kid(r, s, l), t) = 0
      BY <1>18, <2>1, <2>3
    <3>3. d[Kid(r, c, l)] = Own(m, p) + b[n] /\ Short(Kid(r, c, l), t) = 0
      BY <1>17, <2>1, <2>3
    <3> QED BY <1>2, <1>16, <1>17, <3>1, <3>2, <3>3
  <2>5. ~r[n].red /\ ~r[x1].red /\ ~r[x2].red /\ ~r[f].red /\ ~r[c].red
    <3>1. ~m[x1].red /\ ~m[x2].red /\ x1 \in Below(m, t) /\ x2 \in Below(m, t)
          /\ x1 # c /\ x1 # s /\ x2 # c /\ x2 # s
      BY <1>14
    <3> QED BY <1>2, <1>4, <1>8, <3>1
  <2>6. \A l \in BOOLEAN : ~r[Kid(r, p, l)].red /\ ~r[Kid(r, s, l)].red
    BY <2>1, <2>5
  <2>7. ASSUME NEW k \in S, NEW l \in BOOLEAN
        PROVE  /\ d[k] = Own(r, k) + d[Kid(r, k, l)] + Short(Kid(r, k, l), t)
               /\ ~(r[k].red /\ r[Kid(r, k, l)].red)
    BY <2>4, <2>5, <2>6
  <2> HIDE DEF S
  <2> QED BY <2>7 DEF Filled
<1>21. d[c] + Short(c, t) = b[p]
  <2>1. Short(c, t) = 0 /\ b[p] \in Nat
    BY <1>2, <1>4 DEF Short
  <2> QED BY <1>17, <2>1
<1>22. Coloured(r, t, t, t)
  <2>1. p = m[n].parent /\ ~m[n].root /\ ~r[c].red
    BY <1>2, <1>8
  <2> HIDE DEF S
  <2> QED BY <1>2, <1>3, <1>17, <1>19, <1>20, <1>21, <2>1, ToppedColoured
<1> QED BY <1>13, <1>22 DEF Sound

-----------------------------------------------------------------------------
(* A result without a failed ASSERT, of a sound tree with the same leaves. *)
EndedWell(m, t, X, res) == res.asserts = {} /\ Sound(res.mem, t, X) /\ Same(m, res.mem, t)

(* rotate_delete repairs the shortage, whichever of the nodes around is red, *)
(* and its ASSERT holds.                                                     *)
LEMMA RotateDelete ==
  ASSUME NEW m, NEW t, NEW X, NEW n, NEW p, NEW s, NEW o, NEW b, Lacks(m, t, X, n, p, s, o, b),
         ~m[s].red, m[p].red \/ m[Kid(m, s, o)].red \/ m[Kid(m, s, ~o)].red
  PROVE  EndedWell(m, t, X, rotate_delete(m, n, p, s))
<1> DEFINE c == Kid(m, s, o)
           f == Kid(m, s, ~o)
           u == setblack(single_rotate(single_rotate(m, s, o), p, ~o), c)
           v == setblack(setcolor(setblack(single_rotate(m, p, ~o), f), s, m[p].red), p)
           w == setred(setblack(m, p), s)
<1>1. Lacking(m, t, n, p, s, o, b, c, f)
  BY LackingIs
<1>2. /\ o = m[n].left /\ o \in BOOLEAN /\ m[c].parent = s /\ m[c].left = o /\ p \in Below(m, t)
      /\ c \in Below(m, t) /\ f \in Below(m, t)
  BY <1>1 DEF Lacking
<1>3. m[p].red \in BOOLEAN /\ m[c].red \in BOOLEAN /\ m[f].red \in BOOLEAN
  BY <1>2 DEF Lacks, Shape, Fine
<1>4. m[s][Side(o)] = c /\ sibling(m, c) = f
  BY <1>2 DEF Kid, sibling
<1>5. rotate_delete(m, n, p, s) =
        CASE m[f].red -> Done(v)
          [] ~m[f].red /\ ~m[c].red -> IF m[s].red \/ ~m[p].red THEN Failed(m, 548) ELSE Done(w)
          [] ~m[f].red /\ m[c].red /\ m[p].red -> Done(setred(u, s))
          [] OTHER -> Done(u)
  <2>1. m[n].left = o
    BY <1>2
  <2> HIDE DEF c, f
  <2> QED BY <1>4, <2>1 DEF rotate_delete, u, v, w
<1>6. ASSUME NEW r, Sound(r, t, X) /\ Same(m, r, t)
      PROVE  EndedWell(m, t, X, Done(r))
  BY <1>6 DEF EndedWell, Done
<1>7. CASE m[f].red
  <2>1. PICK r : r = v
    OBVIOUS
  <2>2. Sound(r, t, X) /\ Same(m, r, t)
    BY <1>7, <2>1, FarRed
  <2>3. rotate_delete(m, n, p, s) = Done(r)
    <3> HIDE DEF f, v, c, u, w
    <3> QED BY <1>5, <1>7, <2>1
  <2> QED BY <1>6, <2>2, <2>3
<1>8. CASE ~m[f].red /\ ~m[c].red
  <2>1. PICK r : r = w
    OBVIOUS
  <2>2. Sound(r, t, X) /\ Same(m, r, t)
    BY <1>8, <2>1, RedParent
  <2>3. rotate_delete(m, n, p, s) = Done(r)
    <3>1. m[p].red
      BY <1>8
    <3> HIDE DEF f, v, c, u, w
    <3> QED BY <1>5, <1>8, <2>1, <3>1
  <2> QED BY <1>6, <2>2, <2>3
<1>9. CASE ~m[f].red /\ m[c].red /\ m[p].red
  <2>1. PICK r : r = setred(u, s)
    OBVIOUS
  <2>2. Sound(r, t, X) /\ Same(m, r, t)
    BY <1>9, <2>1, NearRed
  <2>3. rotate_delete(m, n, p, s) = Done(r)
    <3> HIDE DEF f, v, c, u, w
    <3> QED BY <1>5, <1>9, <2>1
  <2> QED BY <1>6, <2>2, <2>3
<1>10. CASE ~m[f].red /\ m[c].red /\ ~m[p].red
  <2>1. PICK r : r = u
    OBVIOUS
  <2>2. Sound(r, t, X) /\ Same(m, r, t)
    BY <1>10, <2>1, NearRed
  <2>3. rotate_delete(m, n, p, s) = Done(r)
    <3> HIDE DEF f, v, c, u, w
    <3> QED BY <1>5, <1>10, <2>1
  <2> QED BY <1>6, <2>2, <2>3
<1> QED BY <1>7, <1>8, <1>9, <1>10

(* Above the root nothing lacks a black node. *)
LEMMA RootLacks ==
  ASSUME NEW m, NEW t, NEW X, NEW n \in Below(m, t), Shape(m, t, X), Coloured(m, t, t, n), m[n].root
  PROVE  Coloured(m, t, t, t)
<1>1. PICK b : Blacks(m, t, b, n)
  BY DEF Coloured
<1>2. \A k \in Inner(m, t), l \in BOOLEAN : Kid(m, k, l) # n /\ Kid(m, k, l) # t
  BY Kids
<1>3. Blacks(m, t, b, t)
  BY <1>1, <1>2 DEF Blacks
<1> QED BY <1>3 DEF Coloured

(* What follows the loop of a deletion repairs the shortage, and no ASSERT *)
(* fails.                                                                  *)
LEMMA DeleteEnd ==
  ASSUME NEW m, NEW t, NEW X, NEW n \in Below(m, t), Shape(m, t, X), Coloured(m, t, t, n),
         ~m[n].red, ~delete_goes_on(m, n)
  PROVE  EndedWell(m, t, X, delete_end(m, n))
<1>1. CASE m[n].root
  <2>1. delete_end(m, n) = Done(m)
    BY <1>1 DEF delete_end
  <2>2. Same(m, m, t)
    BY DEF Same
  <2>3. Coloured(m, t, t, t)
    BY <1>1, RootLacks
  <2> QED BY <2>1, <2>2, <2>3 DEF EndedWell, Done, Sound
<1>2. CASE ~m[n].root
  <2>1. PICK b : Blacks(m, t, b, n)
    BY DEF Coloured
  <2>2. PICK p : p = m[n].parent
    OBVIOUS
  <2>3. PICK s : s = sibling(m, n)
    OBVIOUS
  <2>4. PICK o : o = m[n].left
    OBVIOUS
  <2>5. Lacks(m, t, X, n, p, s, o, b)
    BY <1>2, <2>1, <2>2, <2>3, <2>4 DEF Lacks, Coloured
  <2>6. PICK c : c = Kid(m, s, o)
    OBVIOUS
  <2>7. PICK f : f = Kid(m, s, ~o)
    OBVIOUS
  <2>8. Lacking(m, t, n, p, s, o, b, c, f)
    BY <2>5, <2>6, <2>7, LackingIs
  <2>9. o \in BOOLEAN /\ s \in Inner(m, t) /\ p \in Below(m, t) /\ s \in Below(m, t) /\ (m[p].red => ~m[s].red)
    BY <2>8 DEF Lacking
  <2>10. CASE ~m[p].red /\ m[s].red
    <3>1. PICK r : r = setblack(setred(single_rotate(m, p, ~o), p), s)
      OBVIOUS
    <3>2. (\E d : Lacks(r, t, X, n, p, c, o, d)) /\ Same(m, r, t) /\ r[p].red /\ ~r[c].red
      BY <2>5, <2>6, <2>10, <3>1, RedSibling
    <3>3. PICK d : Lacks(r, t, X, n, p, c, o, d)
      BY <3>2
    <3>4. PICK cc : cc = Kid(r, c, o)
      OBVIOUS
    <3>5. PICK ff : ff = Kid(r, c, ~o)
      OBVIOUS
    <3>6. Lacking(r, t, n, p, c, o, d, cc, ff)
      BY <3>3, <3>4, <3>5, LackingIs
    <3>7. isint(r, c)
      BY <3>6 DEF Lacking, Inner, isint
    <3>8. sibling(r, n) = c
      BY <3>3 DEF Lacks
    <3>9. EndedWell(r, t, X, rotate_delete(r, n, p, c))
      BY <3>2, <3>3, RotateDelete
    <3>10. delete_end(m, n) = rotate_delete(r, n, p, c)
      <4> HIDE <2>6
      <4> QED BY <1>2, <2>2, <2>3, <2>4, <2>10, <3>1, <3>7, <3>8 DEF delete_end
    <3>11. Same(m, rotate_delete(r, n, p, c).mem, t)
      <4>1. Same(r, rotate_delete(r, n, p, c).mem, t) /\ t \in DOMAIN m
        BY <3>9 DEF EndedWell, Shape, Fine
      <4> QED BY <3>2, <4>1, SameAgain
    <3> QED BY <3>9, <3>10, <3>11 DEF EndedWell
  <2>11. CASE ~(~m[p].red /\ m[s].red)
    <3>1. ~m[s].red
      BY <2>9, <2>11
    <3>2. isint(m, s)
      BY <2>9 DEF Inner, isint
    <3>3. m[p].red \/ m[c].red \/ m[f].red
      <4>1. m[p].red \/ m[m[s].flink].red \/ m[m[s].blink].red
        BY <1>2, <2>2, <2>3, <3>1, <3>2 DEF delete_goes_on
      <4>2. \A l \in BOOLEAN : l = o \/ l = (~o)
        BY <2>9
      <4>3. Kid(m, s, TRUE) = m[s].flink /\ Kid(m, s, FALSE) = m[s].blink
        BY KidIs
      <4>4. (m[s].flink = c \/ m[s].flink = f) /\ (m[s].blink = c \/ m[s].blink = f)
        BY <2>6, <2>7, <4>2, <4>3
      <4> QED BY <4>1, <4>4
    <3>4. EndedWell(m, t, X, rotate_delete(m, n, p, s))
      BY <2>5, <2>6, <2>7, <3>1, <3>3, RotateDelete
    <3>5. delete_end(m, n) = rotate_delete(m, n, p, s)
      BY <1>2, <2>2, <2>3, <2>11, <3>2 DEF delete_end
    <3> QED BY <3>4, <3>5
  <2> QED BY <2>10, <2>11
<1> QED BY <1>1, <1>2

-----------------------------------------------------------------------------
(* The turns of the loop of a deletion, one after the other. *)
DeleteOnce(c) == IF delete_goes_on(c.mem, c.n) THEN delete_turn(c.mem, c.n) ELSE c

(* The turns of the loop are the model's, one by one. *)
LEMMA DeleteTurns ==
  ASSUME NEW m, NEW n, Cardinality(DOMAIN m) \in Nat
  PROVE  /\ delete_turns(m, n)[0] = [mem |-> m, n |-> n]
         /\ \A i \in 1..Cardinality(DOMAIN m) :
              delete_turns(m, n)[i] = DeleteOnce(delete_turns(m, n)[i - 1])
<1> DEFINE C == Cardinality(DOMAIN m)
           s == [mem |-> m, n |-> n]
           T == {j \in 0..C : \E f : f = [i \in 0..j |-> IF i = 0 THEN s ELSE DeleteOnce(f[i - 1])]}
<1>1. 0 \in T
  <2> DEFINE f == [i \in 0..0 |-> s]
  <2>1. f = [i \in 0..0 |-> IF i = 0 THEN s ELSE DeleteOnce(f[i - 1])]
    <3> HIDE DEF s
    <3>1. \A i \in 0..0 : i = 0
      OBVIOUS
    <3> QED BY <3>1
  <2> HIDE DEF f, s
  <2> QED BY <2>1
<1>2. ASSUME NEW j \in 0..C - 1, j \in T PROVE j + 1 \in T
  <2>1. PICK f : f = [i \in 0..j |-> IF i = 0 THEN s ELSE DeleteOnce(f[i - 1])]
    BY <1>2
  <2> DEFINE g == [i \in 0..j + 1 |-> IF i = j + 1 THEN DeleteOnce(f[j]) ELSE f[i]]
  <2> HIDE DEF s
  <2>2. \A i \in 0..j : f[i] = IF i = 0 THEN s ELSE DeleteOnce(f[i - 1])
    BY <2>1
  <2>3. \A i \in 0..j : g[i] = f[i]
    OBVIOUS
  <2>4. g[j + 1] = DeleteOnce(f[j])
    OBVIOUS
  <2>5. ASSUME NEW i \in 0..j + 1
        PROVE  g[i] = IF i = 0 THEN s ELSE DeleteOnce(g[i - 1])
    <3> HIDE DEF g
    <3>1. CASE i = j + 1
      BY <3>1, <2>3, <2>4
    <3>2. CASE i \in 0..j
      <4>1. i # 0 => i - 1 \in 0..j
        BY <3>2
      <4> QED BY <3>2, <4>1, <2>2, <2>3
    <3> QED BY <3>1, <3>2
  <2>6. DOMAIN g = 0..j + 1 /\ g = [i \in 0..j + 1 |-> g[i]]
    OBVIOUS
  <2> HIDE DEF g
  <2>7. g = [i \in 0..j + 1 |-> IF i = 0 THEN s ELSE DeleteOnce(g[i - 1])]
    BY <2>5, <2>6
  <2>8. j + 1 \in 0..C
    OBVIOUS
  <2> QED BY <2>7, <2>8
<1>3. C \in T
  <2> HIDE DEF T
  <2>1. 0..C \subseteq T
    BY <1>1, <1>2, UpTo
  <2> QED BY <2>1
<1>4. PICK f : f = [i \in 0..C |-> IF i = 0 THEN s ELSE DeleteOnce(f[i - 1])]
  BY <1>3
<1>5. delete_turns(m, n) = [i \in 0..C |-> IF i = 0 THEN s ELSE DeleteOnce(delete_turns(m, n)[i - 1])]
  BY <1>4 DEF delete_turns, DeleteOnce
<1>6. 0 \in 0..C /\ \A i \in 1..C : i \in 0..C /\ i # 0
  OBVIOUS
<1> QED
  BY <1>5, <1>6

(* Below n, and only there, one black node is missing. *)
Shortage(m, r, t, X, n) ==
  /\ Shape(r, t, X) /\ Same(m, r, t)
  /\ n \in Below(r, t) /\ ~r[n].red /\ Coloured(r, t, t, n)

(* The loop of a deletion ends, within as many turns as there are nodes, at *)
(* a node where it may stop.                                                *)
LEMMA DeleteLoop ==
  ASSUME NEW m, NEW t, NEW X, NEW n \in Below(m, t), IsFiniteSet(DOMAIN m),
         Shape(m, t, X), Coloured(m, t, t, n), ~m[n].red
  PROVE  /\ Shortage(m, delete_loop(m, n).mem, t, X, delete_loop(m, n).n)
         /\ ~delete_goes_on(delete_loop(m, n).mem, delete_loop(m, n).n)
<1> DEFINE C == Cardinality(DOMAIN m)
           f == delete_turns(m, n)
<1>1. t \in DOMAIN m /\ Rising(m, t) /\ KidsOK(m, t) /\ IsMem(m)
  BY DEF Shape, Links, Fine
<1>2. C \in Nat /\ \E rk : /\ Ranked(m, t, C, rk)
                            /\ \A k \in Below(m, t) : rk[k] \in Nat /\ rk[k] < C
  BY <1>1, SmallRanks
<1>3. PICK rk : Ranked(m, t, C, rk) /\ \A k \in Below(m, t) : rk[k] \in Nat /\ rk[k] < C
  BY <1>2
<1>4. /\ f[0] = [mem |-> m, n |-> n]
      /\ \A i \in 1..C : f[i] = DeleteOnce(f[i - 1])
  BY <1>2, DeleteTurns
<1> HIDE DEF C, f
<1> DEFINE Links2(r) == \A k \in Below(m, t), l \in BOOLEAN : Kid(r, k, l) = Kid(m, k, l)
           T == {i \in 0..C : /\ Shortage(m, f[i].mem, t, X, f[i].n)
                              /\ Links2(f[i].mem)
                              /\ delete_goes_on(f[i].mem, f[i].n) => rk[f[i].n] >= i}
<1>5. 0 \in T
  <2>1. Same(m, m, t)
    BY DEF Same
  <2> QED BY <1>2, <1>3, <1>4, <2>1 DEF Shortage
<1>6. ASSUME NEW i \in 0..C - 1, i \in T PROVE i + 1 \in T
  <2>1. i + 1 \in 1..C /\ (i + 1) - 1 = i /\ i \in Nat
    BY <1>2
  <2>2. f[i + 1] = DeleteOnce(f[i])
    BY <1>4, <2>1
  <2>3. CASE ~delete_goes_on(f[i].mem, f[i].n)
    <3>1. f[i + 1] = f[i]
      BY <2>2, <2>3 DEF DeleteOnce
    <3> QED BY <1>6, <2>1, <2>3, <3>1
  <2>4. CASE delete_goes_on(f[i].mem, f[i].n)
    <3> DEFINE q == f[i].mem
               k == f[i].n
               p == q[k].parent
               r == delete_turn(q, k).mem
    <3>1. f[i + 1].mem = r /\ f[i + 1].n = delete_turn(q, k).n
      BY <2>2, <2>4 DEF DeleteOnce
    <3>2. Shortage(m, q, t, X, k) /\ Links2(q) /\ rk[k] >= i
      BY <1>6, <2>4
    <3>a. PICK b : Blacks(q, t, b, k)
      BY <3>2 DEF Shortage, Coloured
    <3>b. PICK s, o : s = sibling(q, k) /\ o = q[k].left
      OBVIOUS
    <3>c. ~q[k].root
      BY <2>4 DEF delete_goes_on
    <3>d. Lacks(q, t, X, k, p, s, o, b)
      BY <3>2, <3>a, <3>b, <3>c DEF Lacks, Shortage, Coloured
    <3>3. /\ Painted(q, r) /\ Shape(r, t, X) /\ Same(q, r, t) /\ Coloured(r, t, t, p) /\ ~r[p].red
          /\ delete_turn(q, k).n = p /\ p \in Inner(q, t) /\ Kid(q, p, o) = k /\ o \in BOOLEAN
      <4>1. Passed(q, t, X, k, p, o, r)
        BY <2>4, <3>d, DeleteTurn
      <4> QED BY <4>1 DEF Passed
    <3> HIDE DEF r, p, q, k
    <3>5. Same(m, r, t) /\ Inner(q, t) = Inner(m, t)
      BY <1>1, <3>2, <3>3, SameAgain DEF Shortage
    <3>6. Below(r, t) = Below(q, t) /\ Below(q, t) = Below(m, t)
          /\ \A j \in Below(q, t), l \in BOOLEAN : Kid(r, j, l) = Kid(q, j, l)
      <4>1. Below(q, t) = Below(m, t)
        BY <3>2 DEF Shortage, Same, Below
      <4> QED BY <3>3, <4>1, PaintedSets
    <3>e. p \in Below(r, t) /\ p \in Below(m, t)
      BY <3>3, <3>6 DEF Inner
    <3>7. Shortage(m, r, t, X, p)
      BY <3>3, <3>e, <3>5 DEF Shortage
    <3>8. Links2(r)
      BY <3>2, <3>6
    <3>9. rk[p] >= i + 1
      <4>1. k \in Below(m, t)
        BY <3>2, <3>6 DEF Shortage
      <4>2. Kid(m, p, o) = k
        BY <3>2, <3>3, <3>e
      <4>3. rk[k] < rk[p]
        BY <1>3, <3>3, <3>5, <4>2 DEF Ranked
      <4>4. rk[k] \in Nat /\ rk[p] \in Nat
        BY <1>3, <4>1, <3>e
      <4> QED BY <2>1, <3>2, <4>3, <4>4
    <3> QED BY <2>1, <3>1, <3>3, <3>7, <3>8, <3>9
  <2> QED BY <2>3, <2>4
<1>7. C \in T
  <2> HIDE DEF T
  <2>1. 0..C \subseteq T
    BY <1>2, <1>5, <1>6, UpTo
  <2> QED BY <1>2, <2>1
<1>8. Shortage(m, f[C].mem, t, X, f[C].n)
  BY <1>7
<1>9. f[C].n \in Below(m, t)
  BY <1>8 DEF Shortage, Same, Below
<1>10. ~delete_goes_on(f[C].mem, f[C].n)
  <2>1. rk[f[C].n] \in Nat /\ rk[f[C].n] < C
    BY <1>3, <1>9
  <2> QED BY <1>2, <1>7, <2>1
<1> QED BY <1>8, <1>10 DEF delete_loop, f, C

(* recolor_delete turns a tree that lacks a black node below n into a sound *)
(* one, and no ASSERT fails.                                                *)
LEMMA RecolorDelete ==
  ASSUME NEW m, NEW t, NEW X, NEW n \in Below(m, t), IsFiniteSet(DOMAIN m),
         Shape(m, t, X), Coloured(m, t, t, n), ~m[n].red
  PROVE  EndedWell(m, t, X, recolor_delete(m, n))
<1> DEFINE q == delete_loop(m, n).mem
           k == delete_loop(m, n).n
<1>1. Shortage(m, q, t, X, k) /\ ~delete_goes_on(q, k)
  BY DeleteLoop
<1>2. recolor_delete(m, n) = delete_end(q, k)
  BY DEF recolor_delete
<1> HIDE DEF q, k
<1>3. PICK res : res = delete_end(q, k)
  OBVIOUS
<1>4. EndedWell(q, t, X, delete_end(q, k))
  BY <1>1, DeleteEnd DEF Shortage
<1>5. EndedWell(q, t, X, res)
  BY <1>3, <1>4
<1>6. t \in DOMAIN m
  BY DEF Shape, Fine
<1>7. Same(m, q, t) /\ Same(q, res.mem, t)
  BY <1>1, <1>5 DEF Shortage, EndedWell
<1>8. Same(m, res.mem, t)
  BY <1>6, <1>7, SameAgain
<1> QED BY <1>2, <1>3, <1>5, <1>8 DEF EndedWell

-----------------------------------------------------------------------------
(* The list of r is that of m without node. *)
Dropped(m, r, t, node) ==
  \A k \in (Outer(m, t) \cup {t}) \ {node} :
    r[k].flink = IF k = m[node].blink THEN m[node].flink ELSE m[k].flink

(* What a deletion leaves: a sound tree without the leaf, gone are its     *)
(* nodes that were freed.                                                  *)
Deleted(m, t, node, gone, res) ==
  /\ res.asserts = {} /\ Sound(res.mem, t, {})
  /\ DOMAIN res.mem = DOMAIN m \ gone
  /\ Outer(res.mem, t) = Outer(m, t) \ {node}
  /\ \A n \in (Outer(m, t) \cup {t}) \ {node} : res.mem[n].key = m[n].key /\ res.mem[n].val = m[n].val
  /\ Dropped(m, res.mem, t, node)

(* The last leaf.                                                          *)
LEMMA DeleteLast ==
  ASSUME NEW m, NEW t, Sound(m, t, {}), NEW node \in Outer(m, t), m[node].root
  PROVE  Deleted(m, t, node, {node}, rbtree_delete_node(m, node))
<1>1. /\ Shape(m, t, {}) /\ Fine(m, t) /\ Links(m, t) /\ RootOK(m, t) /\ Ring(m, t)
      /\ Spread(m, t, {}) /\ Rising(m, t) /\ IsMem(m)
  BY DEF Sound, Shape, Links, Fine
<1>2. node \in Below(m, t) /\ node \in DOMAIN m /\ node # t /\ t \in DOMAIN m /\ ~m[node].internal
  BY <1>1 DEF Outer, Below, Fine
<1>3. m[t].parent = node
  BY <1>1, <1>2 DEF RootOK
<1>4. m[node].parent = t
  BY <1>1, <1>2, <1>3 DEF RootOK
<1>5. Below(m, t) = {node}
  <2>1. \A n \in Below(m, t) : m[n].root => n \in {node}
    BY <1>1, <1>3 DEF RootOK
  <2>2. \A n \in Inner(m, t), l \in BOOLEAN : n \in {node} => Kid(m, n, l) \in {node}
    BY <1>2 DEF Inner
  <2>3. Below(m, t) \subseteq {node}
    BY <1>1, <2>1, <2>2, FromRoot
  <2> QED BY <1>2, <2>3
<1>6. DOMAIN m = {t, node}
  BY <1>2, <1>5 DEF Below
<1>7. Outer(m, t) = {node}
  BY <1>5 DEF Outer
<1>8. m[t].flink = node /\ m[t].blink = node
  <2>1. PICK e : Ends(m, t, e) /\ Gaps(m, t, e)
    BY <1>1 DEF Spread
  <2>2. e[TRUE][node] = node /\ e[FALSE][node] = node
    BY <2>1 DEF Ends
  <2> QED BY <1>2, <1>3, <2>1, <2>2 DEF Gaps
<1>9. m[node].flink = t /\ m[node].blink = t
  <2>1. m[m[t].flink].blink = t /\ m[m[t].blink].flink = t
    BY <1>1 DEF Ring
  <2> QED BY <1>8, <2>1
<1>10. PICK a : a = delete_item(m, node)
  OBVIOUS
<1>11. Unlisted(m, a, node)
  BY <1>1, <1>2, <1>9, <1>10, DeleteItemWrites
<1>12. a[node].parent = t /\ DOMAIN a = {t, node} /\ IsMem(a)
       /\ a[t].flink = t /\ a[t].blink = t /\ a[t].head = TRUE
       /\ a[t].key = m[t].key /\ a[t].val = m[t].val
  BY <1>1, <1>2, <1>4, <1>6, <1>9, <1>11 DEF Unlisted, Fine
<1>13. PICK r : r = mem_free([a EXCEPT ![t].parent = t], node)
  OBVIOUS
<1>14. rbtree_delete_node(m, node) = Done(r)
  BY <1>10, <1>12, <1>13 DEF rbtree_delete_node
<1>15. Bare(r, t)
  <2>1. r = [b \in {t} |-> [a EXCEPT ![t].parent = t][b]]
    BY <1>2, <1>12, <1>13 DEF mem_free
  <2>2. DOMAIN r = {t} /\ r[t] = [a[t] EXCEPT !.parent = t]
    BY <1>12, <2>1
  <2>3. DOMAIN a[t] = Fields /\ "parent" \in Fields
    BY <1>12 DEF IsMem, Fields
  <2>4. DOMAIN r[t] = Fields /\ r[t].parent = t /\ r[t].flink = t /\ r[t].blink = t /\ r[t].head = TRUE
    BY <1>12, <2>2, <2>3
  <2> QED BY <2>2, <2>4 DEF Bare, IsMem
<1>16. Sound(r, t, {}) /\ Outer(r, t) = {}
  BY <1>15, BareSound
<1>17. DOMAIN r = DOMAIN m \ {node}
  BY <1>2, <1>6, <1>15 DEF Bare
<1>19. r[t].key = m[t].key /\ r[t].val = m[t].val
  <2>1. r = [b \in {t} |-> [a EXCEPT ![t].parent = t][b]]
    BY <1>2, <1>12, <1>13 DEF mem_free
  <2>2. r[t] = [a[t] EXCEPT !.parent = t]
    BY <1>12, <2>1
  <2>3. DOMAIN a[t] = Fields
    BY <1>12 DEF IsMem
  <2> QED BY <1>12, <2>2, <2>3 DEF Fields
<1>18. Dropped(m, r, t, node)
  BY <1>7, <1>9, <1>15 DEF Dropped, Bare
<1> QED BY <1>7, <1>14, <1>16, <1>17, <1>18, <1>19 DEF Deleted, Done

-----------------------------------------------------------------------------
(* What rbtree_delete_node reads after the leaf left the list.             *)
Family2(m, a, t, node, p, s) ==
  /\ a[node].parent = p /\ sibling(a, node) = s
  /\ a[p].parent = m[p].parent /\ a[p].left = m[p].left /\ a[p].red = m[p].red
  /\ m[node].parent = p /\ ~m[node].root

(* Once the leaf has left the list, the memory still has its parent and its *)
(* sibling where they were.                                                 *)
LEMMA UnlistedFamily ==
  ASSUME NEW m, NEW t, Shape(m, t, {}), NEW node, NEW p, NEW s, NEW o, Trio(m, t, node, p, s, o),
         NEW a, a = delete_item(m, node)
  PROVE  Family2(m, a, t, node, p, s)
<1>1. /\ o \in BOOLEAN /\ (~o) \in BOOLEAN
      /\ node \in Outer(m, t) /\ node \in DOMAIN m /\ p \in Inner(m, t) /\ p \in DOMAIN m /\ p # t
      /\ Kid(m, p, ~o) = s /\ m[node].parent = p /\ m[node].left = o /\ ~m[node].root
  BY TrioIs
<1>2. IsMem(m) /\ Ring(m, t) /\ t \in DOMAIN m
  BY DEF Shape, Fine
<1>3. m[node].flink \in Outer(m, t) \cup {t} /\ m[node].blink \in Outer(m, t) \cup {t}
  BY <1>1, <1>2 DEF Ring
<1>4. \A k \in Outer(m, t) \cup {t} : k \in DOMAIN m /\ k # p
  BY <1>1, <1>2 DEF Outer, Inner, Below
<1>5. m[node].flink \in DOMAIN m /\ m[node].blink \in DOMAIN m
      /\ m[node].flink # p /\ m[node].blink # p
  BY <1>3, <1>4
<1>6. Unlisted(m, a, node)
  BY <1>2, <1>5, DeleteItemWrites
<1>7. /\ a[node].parent = p /\ a[node].left = o
      /\ a[p].parent = m[p].parent /\ a[p].left = m[p].left /\ a[p].red = m[p].red
      /\ a[p].flink = m[p].flink /\ a[p].blink = m[p].blink
  BY <1>1, <1>5, <1>6 DEF Unlisted
<1>8. Kid(a, p, ~o) = Kid(m, p, ~o)
  <2>1. Kid(a, p, TRUE) = a[p].flink /\ Kid(a, p, FALSE) = a[p].blink
    BY KidIs
  <2>2. Kid(m, p, TRUE) = m[p].flink /\ Kid(m, p, FALSE) = m[p].blink
    BY KidIs
  <2>3. \A l \in BOOLEAN : Kid(a, p, l) = Kid(m, p, l)
    BY <1>7, <2>1, <2>2
  <2> QED BY <1>1, <2>3
<1>9. sibling(a, node) = Kid(a, p, ~o)
  BY <1>7 DEF sibling, Kid
<1> QED BY <1>1, <1>7, <1>8, <1>9 DEF Family2

(* The list is the same. *)
SameList(m, r, t) == \A k \in Outer(m, t) \cup {t} : r[k].flink = m[k].flink

(* The leaves of the spliced tree are those of the old one but node.       *)
LEMMA LiftedLeaves ==
  ASSUME NEW m, NEW q, NEW r, NEW t, Shape(m, t, {}), NEW node, NEW p, NEW s, NEW o,
         Trio(m, t, node, p, s, o), Lifted(m, q, t, node, p, s), Sound(r, t, {}),
         DOMAIN r = DOMAIN q, Outer(r, t) = Outer(q, t),
         \A n \in Outer(q, t) \cup {t} : r[n].key = q[n].key /\ r[n].val = q[n].val,
         SameList(q, r, t), NEW res, res = Done(r)
  PROVE  Deleted(m, t, node, {node, p}, res)
<1>1. LiftedParts(m, q, t, node, p, s)
  BY LiftedSets
<1>2. Outer(q, t) = Outer(m, t) \ {node}
  BY <1>1 DEF LiftedParts
<1>3. p \in Inner(m, t)
  BY TrioIs
<1>4. DOMAIN q = DOMAIN m \ {node, p}
  BY DEF Lifted
<1>5. ASSUME NEW n \in (Outer(m, t) \cup {t}) \ {node}
      PROVE  r[n].key = m[n].key /\ r[n].val = m[n].val
  <2>1. n \in DOMAIN m \ {node, p}
    BY <1>3 DEF Outer, Inner, Below, Shape, Fine
  <2>2. q[n].key = m[n].key /\ q[n].val = m[n].val
    BY <2>1 DEF Lifted
  <2> QED BY <1>2, <2>2
<1>6. Dropped(m, r, t, node)
  <2> SUFFICES ASSUME NEW k \in (Outer(m, t) \cup {t}) \ {node}
               PROVE  r[k].flink = IF k = m[node].blink THEN m[node].flink ELSE m[k].flink
    BY DEF Dropped
  <2>1. k \in Outer(q, t) \cup {t}
    BY <1>2
  <2>2. r[k].flink = q[k].flink
    BY <2>1 DEF SameList
  <2>3. q[k].flink = IF k = m[node].blink THEN m[node].flink ELSE m[k].flink
    BY DEF Lifted
  <2> QED BY <2>2, <2>3
<1> QED BY <1>2, <1>4, <1>5, <1>6 DEF Deleted, Done

(* The sibling is a leaf.                                                  *)
LEMMA SpliceLeaf ==
  ASSUME NEW m, NEW q, NEW t, Sound(m, t, {}), NEW node, NEW p, NEW s, NEW o,
         Trio(m, t, node, p, s, o), Lifted(m, q, t, node, p, s), IsFiniteSet(DOMAIN m),
         ~m[p].root, s \in Outer(m, t), NEW x, x = refresh_ext(q, s, s, s),
         NEW res, res = IF m[p].red THEN Done(x) ELSE recolor_delete(x, s)
  PROVE  Deleted(m, t, node, {node, p}, res)
<1>1. Shape(m, t, {}) /\ Coloured(m, t, t, t)
  BY DEF Sound
<1>2. LiftedParts(m, q, t, node, p, s)
  BY <1>1, LiftedSets
<1>3. Spliced(m, q, t, p, s)
  BY <1>1, SpliceColours
<1>4. o \in BOOLEAN /\ (~o) \in BOOLEAN
  BY <1>1, TrioIs
<1> DEFINE X == {<<FALSE, s>>, <<TRUE, s>>}
<1>5. ASSUME NEW e, Ends(m, t, e) PROVE <<~o, e[o][s]>> \in X
  <2>1. e[o][s] = s
    BY <1>4, <1>5 DEF Ends
  <2> QED BY <1>4, <2>1
<1> HIDE DEF X
<1>6. Shape(q, t, X)
  BY <1>1, <1>5, LiftShape
<1>7. s \in Below(q, t) /\ s \in Outer(q, t)
  BY <1>2, <1>1, TrioIs DEF LiftedParts
<1>8. TopLeaves(q, t, s, s, s)
  BY <1>7 DEF TopLeaves
<1>9. X \subseteq {<<FALSE, s>>, <<TRUE, s>>}
  BY DEF X
<1>10. Resplit(q, x, t, {})
  BY <1>6, <1>7, <1>8, <1>9, RefreshExt
<1>11. /\ Shape(x, t, {}) /\ Alike(q, x) /\ \A n \in DOMAIN q : x[n].red = q[n].red
       /\ \A n \in Outer(q, t) \cup {t} : x[n].key = q[n].key /\ x[n].val = q[n].val
  BY <1>10 DEF Resplit
<1>12. \A v, z : Coloured(q, t, v, z) => Coloured(x, t, v, z)
  BY <1>6, <1>11, AlikeColoured
<1>13. DOMAIN x = DOMAIN q /\ Outer(x, t) = Outer(q, t) /\ Below(x, t) = Below(q, t)
  BY <1>11, AlikeSets DEF Alike
<1>16. SameList(q, x, t)
  <2>1. t \in DOMAIN q /\ \A n \in Outer(q, t) : n \in DOMAIN q
    BY <1>6 DEF Shape, Fine, Outer, Below
  <2>2. \A n \in DOMAIN q : x[n].flink = q[n].flink
    BY <1>11 DEF Alike
  <2> QED BY <2>1, <2>2 DEF SameList
<1>14. CASE m[p].red
  <2>1. Coloured(q, t, t, t)
    BY <1>3, <1>14 DEF Spliced
  <2>2. Sound(x, t, {})
    BY <1>11, <1>12, <2>1 DEF Sound
  <2>3. res = Done(x)
    BY <1>14
  <2> QED BY <1>1, <1>11, <1>13, <1>16, <2>2, <2>3, LiftedLeaves
<1>15. CASE ~m[p].red
  <2>1. Coloured(q, t, t, s)
    BY <1>3, <1>15 DEF Spliced
  <2>2. Coloured(x, t, t, s)
    BY <1>12, <2>1
  <2>3. s \in Below(x, t) /\ s \in Outer(x, t)
    BY <1>7, <1>13
  <2>4. ~x[s].red
    BY <2>2, <2>3 DEF Coloured, Blacks
  <2>5. IsFiniteSet(DOMAIN x)
    <3>1. DOMAIN x \subseteq DOMAIN m
      BY <1>13 DEF Lifted
    <3> QED BY <3>1, FS_Subset
  <2>6. EndedWell(x, t, {}, recolor_delete(x, s))
    BY <1>11, <2>2, <2>3, <2>4, <2>5, RecolorDelete
  <2>7. EndedWell(x, t, {}, res)
    BY <1>15, <2>6
  <2>8. PICK r : r = res.mem
    OBVIOUS
  <2>9. Sound(r, t, {}) /\ Same(x, r, t) /\ res.asserts = {}
    BY <2>7, <2>8 DEF EndedWell
  <2>10. DOMAIN r = DOMAIN q
    BY <1>13, <2>9 DEF Same
  <2>11. Outer(r, t) = Outer(q, t)
    BY <1>13, <2>9 DEF Same, Outer, Below
  <2>12. \A n \in Outer(q, t) \cup {t} : r[n].key = q[n].key /\ r[n].val = q[n].val
    <3>1. \A n \in Outer(q, t) \cup {t} : n \in DOMAIN x
      BY <1>11, <1>13 DEF Outer, Below, Shape, Fine
    <3> QED BY <1>11, <2>9, <3>1 DEF Same
  <2>14. SameList(q, r, t)
    BY <1>13, <1>16, <2>9 DEF Same, SameList
  <2>13. Deleted(m, t, node, {node, p}, Done(r))
    BY <1>1, <2>9, <2>10, <2>11, <2>12, <2>14, LiftedLeaves
  <2> QED BY <2>8, <2>9, <2>13 DEF Deleted, Done
<1> QED BY <1>14, <1>15

(* The sibling is a red node over two leaves.                              *)
LEMMA SpliceRed ==
  ASSUME NEW m, NEW q, NEW t, Sound(m, t, {}), NEW node, NEW p, NEW s, NEW o,
         Trio(m, t, node, p, s, o), Lifted(m, q, t, node, p, s),
         ~m[p].root, s \in Inner(m, t),
         NEW x, x = refresh_ext(q, s, q[s].flink, q[s].blink), NEW res, res = Done(setblack(x, s))
  PROVE  Deleted(m, t, node, {node, p}, res)
<1>1. Shape(m, t, {}) /\ Coloured(m, t, t, t)
  BY DEF Sound
<1>2. LiftedParts(m, q, t, node, p, s)
  BY <1>1, LiftedSets
<1>3. Spliced(m, q, t, p, s)
  BY <1>1, SpliceColours
<1>4. o \in BOOLEAN /\ (~o) \in BOOLEAN /\ s # p /\ p \in Inner(m, t)
  BY <1>1, TrioIs
<1>5. /\ m[s].red /\ (\A l \in BOOLEAN : Kid(m, s, l) \in Outer(m, t)) /\ s \notin Outer(m, t)
  <2>1. s \notin Outer(m, t)
    BY DEF Inner, Outer
  <2> QED BY <1>3, <2>1 DEF Spliced
<1>6. \A l \in BOOLEAN : Kid(q, s, l) = Kid(m, s, l) /\ Kid(q, s, l) \in Outer(q, t)
  <2>1. ASSUME NEW l \in BOOLEAN PROVE Kid(q, s, l) = Kid(m, s, l) /\ Kid(q, s, l) \in Outer(q, t)
    <3>1. Kid(m, s, l) # node
      BY <1>2, <1>4 DEF LiftedParts
    <3>2. Kid(m, s, l) # p
      BY <1>4, <1>5 DEF Inner, Outer
    <3>3. Kid(q, s, l) = Kid(m, s, l)
      BY <1>4, <3>2 DEF Lifted
    <3> QED BY <1>2, <1>5, <3>1, <3>3 DEF LiftedParts
  <2> QED BY <2>1
<1>7. PICK first, last : first = Kid(m, s, TRUE) /\ last = Kid(m, s, FALSE)
  OBVIOUS
<1>8. /\ first = Kid(q, s, TRUE) /\ last = Kid(q, s, FALSE)
      /\ first \in Outer(q, t) /\ last \in Outer(q, t) /\ first \in Outer(m, t) /\ last \in Outer(m, t)
      /\ first = q[s].flink /\ last = q[s].blink
  BY <1>5, <1>6, <1>7, KidIs
<1>9. s \in Inner(q, t) /\ s \in Below(q, t)
  BY <1>2, <1>4 DEF LiftedParts
<1>10. TopLeaves(m, t, s, first, last) /\ TopLeaves(q, t, s, first, last)
  BY <1>7, <1>8, <1>9 DEF TopLeaves
<1> DEFINE X == {<<FALSE, first>>, <<TRUE, last>>}
<1>11. ASSUME NEW e, Ends(m, t, e) PROVE <<~o, e[o][s]>> \in X
  <2>1. e[TRUE][s] = first /\ e[FALSE][s] = last
    BY <1>10, <1>11, TopEnds
  <2>2. CASE o = TRUE
    BY <2>1, <2>2
  <2>3. CASE o = FALSE
    BY <2>1, <2>3
  <2> QED BY <1>4, <2>2, <2>3
<1> HIDE DEF X
<1>12. Shape(q, t, X)
  BY <1>1, <1>11, LiftShape
<1>13. X \subseteq {<<FALSE, first>>, <<TRUE, last>>}
  BY DEF X
<1>14. x = refresh_ext(q, s, first, last)
  BY <1>8
<1>15. Resplit(q, x, t, {})
  BY <1>9, <1>10, <1>12, <1>13, <1>14, RefreshExt
<1>16. /\ Shape(x, t, {}) /\ Alike(q, x) /\ \A n \in DOMAIN q : x[n].red = q[n].red
       /\ \A n \in Outer(q, t) \cup {t} : x[n].key = q[n].key /\ x[n].val = q[n].val
  BY <1>15 DEF Resplit
<1>17. Coloured(q, t, s, s)
  BY <1>3, <1>5 DEF Spliced
<1>18. Coloured(x, t, s, s)
  BY <1>12, <1>16, <1>17, AlikeColoured
<1>19. DOMAIN x = DOMAIN q /\ Outer(x, t) = Outer(q, t) /\ Inner(x, t) = Inner(q, t)
  BY <1>16, AlikeSets DEF Alike
<1>20. x[s].red
  <2>1. q[s].red = m[s].red /\ s \in DOMAIN q
    BY <1>2, <1>9 DEF Lifted, Below
  <2> QED BY <1>5, <1>16, <2>1
<1>21. PICK r : r = setblack(x, s)
  OBVIOUS
<1>22. Sound(r, t, {}) /\ Painted(x, r)
  BY <1>9, <1>16, <1>18, <1>19, <1>20, <1>21, Blacken
<1>23. DOMAIN r = DOMAIN q /\ Outer(r, t) = Outer(q, t)
  <2>1. Outer(r, t) = Outer(x, t)
    BY <1>22, PaintedSets
  <2> QED BY <1>19, <1>22, <2>1 DEF Painted
<1>24. \A n \in Outer(q, t) \cup {t} : r[n].key = q[n].key /\ r[n].val = q[n].val
  <2>1. \A n \in Outer(q, t) \cup {t} : n \in DOMAIN x
    BY <1>16, <1>19 DEF Outer, Below, Shape, Fine
  <2> QED BY <1>16, <1>22, <2>1 DEF Painted
<1>25. SameList(q, r, t)
  <2>1. t \in DOMAIN q /\ \A n \in Outer(q, t) : n \in DOMAIN q
    BY <1>12 DEF Shape, Fine, Outer, Below
  <2>2. \A n \in DOMAIN q : x[n].flink = q[n].flink
    BY <1>16 DEF Alike
  <2>3. \A n \in DOMAIN q : r[n].flink = x[n].flink
    BY <1>19, <1>22 DEF Painted
  <2> QED BY <2>1, <2>2, <2>3 DEF SameList
<1> QED BY <1>1, <1>21, <1>22, <1>23, <1>24, <1>25, LiftedLeaves

-----------------------------------------------------------------------------
(* The leaf's parent is the root.                                          *)
LEMMA DeleteAtRoot ==
  ASSUME NEW m, NEW t, Sound(m, t, {}), NEW node, NEW p, NEW s, NEW o, Trio(m, t, node, p, s, o),
         m[p].root
  PROVE  Deleted(m, t, node, {node, p}, rbtree_delete_node(m, node))
<1>1. Shape(m, t, {}) /\ Coloured(m, t, t, t)
  BY DEF Sound
<1>2. PICK a : a = delete_item(m, node)
  OBVIOUS
<1>3. Family2(m, a, t, node, p, s)
  BY <1>1, <1>2, UnlistedFamily
<1>4. PICK h : h = a[p].parent
  OBVIOUS
<1>5. PICK u : u = [a EXCEPT ![s] = [a[s] EXCEPT !.parent = h, !.root = TRUE],
                         ![h] = [a[h] EXCEPT !.parent = s]]
  OBVIOUS
<1>6. PICK q : q = mem_free(mem_free(u, p), node)
  OBVIOUS
<1>7. rbtree_delete_node(m, node) = Done(q)
  BY <1>2, <1>3, <1>4, <1>5, <1>6 DEF rbtree_delete_node, Family2
<1>8a. LiftSteps(m, p, s, a, u)
  BY <1>4, <1>5 DEF LiftSteps
<1>9. Lifted(m, q, t, node, p, s)
  BY <1>1, <1>2, <1>6, <1>8a, LiftWrites
<1>10. Shape(q, t, {})
  BY <1>1, <1>9, LiftShape
<1>11. Spliced(m, q, t, p, s)
  BY <1>1, <1>9, SpliceColours
<1>12. Sound(q, t, {})
  BY <1>10, <1>11 DEF Spliced, Sound
<1>14. SameList(q, q, t)
  BY DEF SameList
<1>13. Deleted(m, t, node, {node, p}, Done(q))
  BY <1>1, <1>9, <1>12, <1>14, LiftedLeaves
<1> QED BY <1>7, <1>13

(* It is another node.                                                     *)
LEMMA DeleteBelowRoot ==
  ASSUME NEW m, NEW t, Sound(m, t, {}), NEW node, NEW p, NEW s, NEW o, Trio(m, t, node, p, s, o),
         ~m[p].root, IsFiniteSet(DOMAIN m)
  PROVE  Deleted(m, t, node, {node, p}, rbtree_delete_node(m, node))
<1>1. Shape(m, t, {}) /\ Coloured(m, t, t, t)
  BY DEF Sound
<1>2. PICK a : a = delete_item(m, node)
  OBVIOUS
<1>3. Family2(m, a, t, node, p, s)
  BY <1>1, <1>2, UnlistedFamily
<1>4. PICK u : u = [a EXCEPT ![s] = [a[s] EXCEPT !.parent = a[p].parent, !.left = a[p].left],
                         ![a[p].parent] = [a[a[p].parent] EXCEPT ![Side(a[p].left)] = s]]
  OBVIOUS
<1>5. PICK q : q = mem_free(mem_free(u, p), node)
  OBVIOUS
<1>6. PICK res : res = rbtree_delete_node(m, node)
  OBVIOUS
<1>7. res = splice_out(a, node, p, s)
  BY <1>2, <1>3, <1>6 DEF rbtree_delete_node, Family2
<1>8. Lifted(m, q, t, node, p, s)
  <2>1. LiftSteps(m, p, s, a, u)
    BY <1>4 DEF LiftSteps
  <2> QED BY <1>1, <1>2, <1>5, <2>1, LiftWrites
<1>9. Spliced(m, q, t, p, s)
  BY <1>1, <1>8, SpliceColours
<1>10. LiftedParts(m, q, t, node, p, s)
  BY <1>1, <1>8, LiftedSets
<1>11. s \in Below(q, t) /\ s \in DOMAIN q
  BY <1>10 DEF LiftedParts, Below
<1>12. q[s].internal = m[s].internal /\ q[s].red = m[s].red
  BY <1>8, <1>11 DEF Lifted
<1>13. a[p].red = m[p].red
  BY <1>3 DEF Family2
<1>14. CASE s \in Outer(m, t)
  <2>1. ~isint(q, s)
    BY <1>12, <1>14 DEF Outer, isint
  <2>2. PICK x : x = refresh_ext(q, s, s, s)
    OBVIOUS
  <2>3. res = IF m[p].red THEN Done(x) ELSE recolor_delete(x, s)
    BY <1>4, <1>5, <1>7, <1>13, <2>1, <2>2 DEF splice_out
  <2> HIDE <1>7
  <2>4. Deleted(m, t, node, {node, p}, res)
    BY <1>8, <1>14, <2>2, <2>3, SpliceLeaf
  <2> QED BY <1>6, <2>4
<1>15. CASE s \notin Outer(m, t)
  <2>1. s \in Inner(m, t) /\ m[s].red
    BY <1>9, <1>15 DEF Spliced
  <2>2. isint(q, s) /\ q[s].red
    BY <1>12, <2>1 DEF Inner, isint
  <2>3. PICK x : x = refresh_ext(q, s, q[s].flink, q[s].blink)
    OBVIOUS
  <2>4. res = Done(setblack(x, s))
    BY <1>4, <1>5, <1>7, <2>2, <2>3 DEF splice_out
  <2> HIDE <1>7
  <2>5. Deleted(m, t, node, {node, p}, res)
    BY <1>8, <2>1, <2>3, <2>4, SpliceRed
  <2> QED BY <1>6, <2>5
<1> QED BY <1>14, <1>15

(* Deleting a leaf keeps the tree good, and no ASSERT of it fails.         *)
DeletedWell(m, t, node, res) ==
  /\ res.asserts = {} /\ Good(res.mem, t)
  /\ Outer(res.mem, t) = Outer(m, t) \ {node}
  /\ Cardinality(Outer(res.mem, t)) = Cardinality(Outer(m, t)) - 1
  /\ \A n \in Outer(m, t) \ {node} : res.mem[n].key = m[n].key /\ res.mem[n].val = m[n].val
  /\ Dropped(m, res.mem, t, node)

(* rbtree_delete_node keeps the tree good, whichever leaf it deletes. *)
LEMMA DeleteGood ==
  ASSUME NEW m, NEW t, Good(m, t), NEW node \in Outer(m, t)
  PROVE  DeletedWell(m, t, node, rbtree_delete_node(m, node))
<1>1. PICK res : res = rbtree_delete_node(m, node)
  OBVIOUS
<1>2. PICK r : r = res.mem
  OBVIOUS
<1>3. Sound(m, t, {}) /\ Shape(m, t, {}) /\ IsFiniteSet(DOMAIN m) /\ Counts(m, t) /\ DOMAIN m \subseteq Addr
  BY DEF Good, Sound, Counts
<1>4. PICK C : C = Cardinality(Outer(m, t))
  OBVIOUS
<1>5. IsFiniteSet(Outer(m, t)) /\ C \in Nat /\ Cardinality(Outer(m, t) \ {node}) = C - 1
      /\ Cardinality(Outer(m, t) \ {node}) \in Nat
  <2>1. IsFiniteSet(Outer(m, t)) /\ Cardinality(Outer(m, t)) \in Nat
    BY <1>3, OuterFinite
  <2>2. Cardinality(Outer(m, t) \ {node}) = Cardinality(Outer(m, t)) - 1 /\ IsFiniteSet(Outer(m, t) \ {node})
    BY <2>1, FS_RemoveElement
  <2>3. Cardinality(Outer(m, t) \ {node}) \in Nat
    BY <2>2, FS_CardinalityType
  <2> QED BY <1>4, <2>1, <2>2, <2>3
<1>6. Cardinality(DOMAIN m) = 2 * C
  <2>1. Outer(m, t) # {}
    OBVIOUS
  <2> QED BY <1>3, <1>4, <2>1 DEF Counts
<1>7. node \in DOMAIN m /\ node # t /\ t \in DOMAIN m
  BY <1>3 DEF Outer, Below, Shape, Fine
<1>8. ASSUME NEW gone, Deleted(m, t, node, gone, rbtree_delete_node(m, node)), Counts(r, t)
      PROVE  DeletedWell(m, t, node, res)
  <2>1. /\ res.asserts = {} /\ Sound(r, t, {})
        /\ DOMAIN r = DOMAIN m \ gone
        /\ Outer(r, t) = Outer(m, t) \ {node}
        /\ \A n \in (Outer(m, t) \cup {t}) \ {node} : r[n].key = m[n].key /\ r[n].val = m[n].val
        /\ Dropped(m, r, t, node)
    BY <1>1, <1>2, <1>8 DEF Deleted
  <2>2. m[t].key = 0 /\ \A n \in Outer(m, t) : m[n].key \in Key /\ m[n].val \in Val
    BY DEF Good
  <2>3. Good(r, t)
    BY <1>3, <1>7, <1>8, <2>1, <2>2 DEF Good
  <2> QED BY <1>2, <1>4, <1>5, <2>1, <2>3 DEF DeletedWell
<1>9. CASE m[node].root
  <2>1. Deleted(m, t, node, {node}, rbtree_delete_node(m, node))
    BY <1>3, <1>9, DeleteLast
  <2>2. DOMAIN r = DOMAIN m \ {node} /\ Outer(r, t) = Outer(m, t) \ {node}
    BY <1>1, <1>2, <2>1 DEF Deleted
  <2>3. Outer(m, t) = {node}
    <3>1. \A n \in Below(m, t) : m[n].root => n \in {node}
      BY <1>3, <1>9 DEF Shape, Links, RootOK, Outer
    <3>2. \A n \in Inner(m, t), l \in BOOLEAN : n \in {node} => Kid(m, n, l) \in {node}
      BY DEF Inner, Outer
    <3>3. Links(m, t) /\ Rising(m, t)
      BY <1>3 DEF Shape
    <3>4. Below(m, t) \subseteq {node}
      BY <3>1, <3>2, <3>3, FromRoot
    <3> QED BY <3>4 DEF Outer
  <2>4. C = 1
    BY <1>4, <2>3, FS_Singleton
  <2>5. Cardinality(DOMAIN m \ {node}) = Cardinality(DOMAIN m) - 1 /\ IsFiniteSet(DOMAIN m \ {node})
    BY <1>3, <1>7, FS_RemoveElement
  <2>6. Cardinality(DOMAIN r) = 1 /\ IsFiniteSet(DOMAIN r) /\ Outer(r, t) = {}
    BY <1>6, <2>2, <2>3, <2>4, <2>5
  <2>7. Counts(r, t)
    BY <2>6 DEF Counts
  <2> QED BY <1>1, <1>8, <2>1, <2>7
<1>10. CASE ~m[node].root
  <2>1. PICK p, s, o : Trio(m, t, node, p, s, o)
    <3>1. m[node].left \in BOOLEAN
      BY <1>3, <1>10, Family DEF Outer
    <3> QED BY <1>10, <3>1 DEF Trio
  <2>2. p \in DOMAIN m /\ p # node /\ s \in Below(m, t) /\ s # node /\ s # p
    BY <1>3, <2>1, TrioIs
  <2>3. Deleted(m, t, node, {node, p}, rbtree_delete_node(m, node))
    BY <1>3, <2>1, DeleteAtRoot, DeleteBelowRoot
  <2>4. DOMAIN r = DOMAIN m \ {node, p} /\ Outer(r, t) = Outer(m, t) \ {node} /\ Sound(r, t, {})
    BY <1>1, <1>2, <2>3 DEF Deleted
  <2>5. Cardinality(DOMAIN m \ {node}) = Cardinality(DOMAIN m) - 1 /\ IsFiniteSet(DOMAIN m \ {node})
    BY <1>3, <1>7, FS_RemoveElement
  <2>6. p \in DOMAIN m \ {node}
    BY <2>2
  <2>7. Cardinality((DOMAIN m \ {node}) \ {p}) = Cardinality(DOMAIN m \ {node}) - 1 /\ IsFiniteSet((DOMAIN m \ {node}) \ {p})
    BY <2>5, <2>6, FS_RemoveElement
  <2>8. (DOMAIN m \ {node}) \ {p} = DOMAIN r
    BY <2>4
  <2>9. Cardinality(DOMAIN r) = 2 * (C - 1) /\ IsFiniteSet(DOMAIN r)
    <3>1. Cardinality(DOMAIN r) = 2 * C - 1 - 1 /\ IsFiniteSet(DOMAIN r)
      BY <1>6, <2>5, <2>7, <2>8
    <3> HIDE <2>4, <2>8
    <3> QED BY <1>5, <3>1
  <2>10. Outer(r, t) # {}
    <3>1. s \in Below(r, t)
      BY <2>2, <2>4 DEF Below
    <3>2. KidsOK(r, t) /\ Rising(r, t)
      BY <2>4 DEF Sound, Shape, Links
    <3>3. ASSUME Outer(r, t) = {} PROVE FALSE
      <4>1. Outer(r, t) \subseteq {}
        BY <3>3
      <4>2. \A n \in Inner(r, t) : (\A l \in BOOLEAN : Kid(r, n, l) \in {}) => n \in {}
        OBVIOUS
      <4>3. Below(r, t) \subseteq {}
        BY <3>2, <4>1, <4>2, FromLeaves
      <4> QED BY <3>1, <4>3
    <3> QED BY <3>3
  <2>11. Cardinality(Outer(r, t)) = C - 1
    BY <1>5, <2>4
  <2>12. Counts(r, t)
    BY <2>9, <2>10, <2>11 DEF Counts
  <2> QED BY <1>1, <1>8, <2>3, <2>12
<1> QED BY <1>1, <1>9, <1>10

-----------------------------------------------------------------------------
(* The turns of rbtree_free's loop. *)
FreeOnce(t, r) ==
  IF r.mem[t].flink = t THEN r
  ELSE LET d == rbtree_delete_node(r.mem, r.mem[t].flink)
       IN [mem |-> d.mem, asserts |-> d.asserts \cup r.asserts]

(* The turns of rbtree_free are the model's, one by one. *)
LEMMA FreeTurns ==
  ASSUME NEW m, NEW t, Cardinality(DOMAIN m) \in Nat
  PROVE  /\ free_turns(m, t)[0] = Done(m)
         /\ \A i \in 1..Cardinality(DOMAIN m) :
              free_turns(m, t)[i] = FreeOnce(t, free_turns(m, t)[i - 1])
<1> DEFINE C == Cardinality(DOMAIN m)
           s == Done(m)
           T == {j \in 0..C : \E f : f = [i \in 0..j |-> IF i = 0 THEN s ELSE FreeOnce(t, f[i - 1])]}
<1>1. 0 \in T
  <2> DEFINE f == [i \in 0..0 |-> s]
  <2>1. f = [i \in 0..0 |-> IF i = 0 THEN s ELSE FreeOnce(t, f[i - 1])]
    <3> HIDE DEF s
    <3>1. \A i \in 0..0 : i = 0
      OBVIOUS
    <3> QED BY <3>1
  <2> HIDE DEF f, s
  <2> QED BY <2>1
<1>2. ASSUME NEW j \in 0..C - 1, j \in T PROVE j + 1 \in T
  <2>1. PICK f : f = [i \in 0..j |-> IF i = 0 THEN s ELSE FreeOnce(t, f[i - 1])]
    BY <1>2
  <2> DEFINE g == [i \in 0..j + 1 |-> IF i = j + 1 THEN FreeOnce(t, f[j]) ELSE f[i]]
  <2> HIDE DEF s
  <2>2. \A i \in 0..j : f[i] = IF i = 0 THEN s ELSE FreeOnce(t, f[i - 1])
    BY <2>1
  <2>3. \A i \in 0..j : g[i] = f[i]
    OBVIOUS
  <2>4. g[j + 1] = FreeOnce(t, f[j])
    OBVIOUS
  <2>5. ASSUME NEW i \in 0..j + 1
        PROVE  g[i] = IF i = 0 THEN s ELSE FreeOnce(t, g[i - 1])
    <3> HIDE DEF g
    <3>1. CASE i = j + 1
      BY <3>1, <2>3, <2>4
    <3>2. CASE i \in 0..j
      <4>1. i # 0 => i - 1 \in 0..j
        BY <3>2
      <4> QED BY <3>2, <4>1, <2>2, <2>3
    <3> QED BY <3>1, <3>2
  <2>6. DOMAIN g = 0..j + 1 /\ g = [i \in 0..j + 1 |-> g[i]]
    OBVIOUS
  <2> HIDE DEF g
  <2>7. g = [i \in 0..j + 1 |-> IF i = 0 THEN s ELSE FreeOnce(t, g[i - 1])]
    BY <2>5, <2>6
  <2>8. j + 1 \in 0..C
    OBVIOUS
  <2> QED BY <2>7, <2>8
<1>3. C \in T
  <2> HIDE DEF T
  <2>1. 0..C \subseteq T
    BY <1>1, <1>2, UpTo
  <2> QED BY <2>1
<1>4. PICK f : f = [i \in 0..C |-> IF i = 0 THEN s ELSE FreeOnce(t, f[i - 1])]
  BY <1>3
<1>5. free_turns(m, t) = [i \in 0..C |-> IF i = 0 THEN s ELSE FreeOnce(t, free_turns(m, t)[i - 1])]
  BY <1>4 DEF free_turns, FreeOnce
<1>6. 0 \in 0..C /\ \A i \in 1..C : i \in 0..C /\ i # 0
  OBVIOUS
<1> QED
  BY <1>5, <1>6

(* The head is the first leaf's place when and only when there is none.    *)
LEMMA FirstLeafIs ==
  ASSUME NEW m, NEW t, Good(m, t)
  PROVE  /\ m[t].flink # t => m[t].flink \in Outer(m, t)
         /\ m[t].flink = t => DOMAIN m = {t}
<1>1. Fine(m, t) /\ Ring(m, t) /\ RootOK(m, t) /\ Spread(m, t, {})
  BY DEF Good, Sound, Shape, Links
<1>2. m[t].flink \in Outer(m, t) \cup {t} /\ t \in DOMAIN m
  BY <1>1 DEF Ring, Fine
<1>3. ASSUME Below(m, t) # {} PROVE m[t].flink # t
  <2>1. PICK e : Ends(m, t, e) /\ Gaps(m, t, e)
    BY <1>1 DEF Spread
  <2>2. m[t].flink = e[TRUE][m[t].parent]
    BY <1>3, <2>1 DEF Gaps
  <2>3. m[t].parent \in Below(m, t)
    BY <1>1, <1>3 DEF RootOK, Below
  <2>4. e[TRUE][m[t].parent] \in Outer(m, t)
    BY <2>1, <2>3 DEF Ends
  <2> QED BY <2>2, <2>4 DEF Outer, Below
<1> QED BY <1>2, <1>3 DEF Below

(* rbtree_free leaves the head alone.                                      *)
FreedWell(m, t, res) == res.asserts = {} /\ Good(res.mem, t) /\ DOMAIN res.mem = {t}

(* rbtree_free keeps the tree good, and leaves nothing but the head. *)
LEMMA FreeGood ==
  ASSUME NEW m, NEW t, Good(m, t)
  PROVE  FreedWell(m, t, rbtree_free(m, t))
<1> DEFINE C == Cardinality(DOMAIN m)
           f == free_turns(m, t)
<1>1. IsFiniteSet(DOMAIN m) /\ C \in Nat /\ Cardinality(Outer(m, t)) \in Nat /\ Cardinality(Outer(m, t)) <= C
  <2>1. IsFiniteSet(DOMAIN m)
    BY DEF Good, Counts
  <2>2. Outer(m, t) \subseteq DOMAIN m
    BY DEF Outer, Below
  <2>3. Cardinality(Outer(m, t)) <= Cardinality(DOMAIN m)
    BY <2>1, <2>2, FS_Subset
  <2> QED BY <2>1, <2>3, OuterFinite
<1>2. f[0] = Done(m) /\ \A i \in 1..C : f[i] = FreeOnce(t, f[i - 1])
  BY <1>1, FreeTurns
<1>3. rbtree_free(m, t) = f[C]
  BY DEF rbtree_free
<1> HIDE DEF C, f
<1> DEFINE Left(r) == Cardinality(Outer(r, t))
           T == {i \in 0..C : /\ f[i].asserts = {} /\ Good(f[i].mem, t)
                              /\ f[i].mem[t].flink # t => Left(f[i].mem) + i <= C}
<1>4. 0 \in T
  BY <1>1, <1>2 DEF Done
<1>5. ASSUME NEW i \in 0..C - 1, i \in T PROVE i + 1 \in T
  <2>1. i + 1 \in 1..C /\ (i + 1) - 1 = i /\ i \in Nat /\ i + 1 \in 0..C
    BY <1>1
  <2>2. f[i + 1] = FreeOnce(t, f[i])
    BY <1>2, <2>1
  <2>3. PICK q : q = f[i].mem
    OBVIOUS
  <2>4. f[i].asserts = {} /\ Good(q, t) /\ (q[t].flink # t => Left(q) + i <= C)
    BY <1>5, <2>3
  <2>5. CASE q[t].flink = t
    <3>1. f[i + 1] = f[i]
      BY <2>2, <2>3, <2>5 DEF FreeOnce
    <3>2. f[i + 1].asserts = {} /\ Good(f[i + 1].mem, t) /\ f[i + 1].mem[t].flink = t
      BY <2>3, <2>4, <2>5, <3>1
    <3> QED BY <2>1, <3>2
  <2>6. CASE q[t].flink # t
    <3>1. PICK d : d = rbtree_delete_node(q, q[t].flink)
      OBVIOUS
    <3>2. f[i + 1].mem = d.mem /\ f[i + 1].asserts = d.asserts \cup f[i].asserts
      BY <2>2, <2>3, <2>6, <3>1 DEF FreeOnce
    <3>3. q[t].flink \in Outer(q, t)
      BY <2>4, <2>6, FirstLeafIs
    <3>4. DeletedWell(q, t, q[t].flink, rbtree_delete_node(q, q[t].flink))
      BY <2>4, <3>3, DeleteGood
    <3>5. PICK r : r = d.mem
      OBVIOUS
    <3>6. d.asserts = {} /\ Good(r, t) /\ Left(r) = Left(q) - 1
      BY <3>1, <3>4, <3>5 DEF DeletedWell
    <3>7. Left(q) \in Nat
      BY <2>4, OuterFinite DEF Good, Counts
    <3> HIDE DEF Left
    <3>8. Left(r) + (i + 1) <= C
      BY <1>1, <2>1, <2>4, <2>6, <3>6, <3>7
    <3>9. f[i + 1].asserts = {} /\ f[i + 1].mem = r
      BY <2>4, <3>2, <3>5, <3>6
    <3> QED BY <2>1, <3>6, <3>8, <3>9
  <2> QED BY <2>5, <2>6
<1>6. C \in T
  <2> HIDE DEF T
  <2>1. 0..C \subseteq T
    BY <1>1, <1>4, <1>5, UpTo
  <2> QED BY <1>1, <2>1
<1>7. PICK r : r = f[C].mem
  OBVIOUS
<1>8. f[C].asserts = {} /\ Good(r, t) /\ (r[t].flink # t => Left(r) + C <= C)
  BY <1>6, <1>7
<1>9. r[t].flink = t
  <2>1. ASSUME r[t].flink # t PROVE FALSE
    <3>1. r[t].flink \in Outer(r, t) /\ IsFiniteSet(Outer(r, t)) /\ Left(r) \in Nat
      BY <1>8, <2>1, FirstLeafIs, OuterFinite DEF Good, Counts
    <3>2. Left(r) # 0
      BY <3>1, FS_EmptySet
    <3> HIDE DEF Left
    <3> QED BY <1>1, <1>8, <2>1, <3>1, <3>2
  <2> QED BY <2>1
<1>10. DOMAIN r = {t}
  BY <1>8, <1>9, FirstLeafIs
<1> QED BY <1>3, <1>7, <1>8, <1>10 DEF FreedWell

-----------------------------------------------------------------------------
(* make_rbtree keeps the invariant. *)
LEMMA CreateKeeps ==
  ASSUME ConstantsAssumption, TreeInv, Create
  PROVE  TreeInv'
<1>1. tree = NULL /\ DOMAIN mem = {} /\ asserts = {} /\ asserts' = asserts
  BY DEF Create, TreeInv
<1>2. PICK head : head = FreshAddr(mem)
  OBVIOUS
<1>3. PICK g \in Gotten, garbage \in HeadVals :
        IF g = 0 THEN UNCHANGED <<mem, tree>>
        ELSE /\ tree' = head
             /\ mem' = [mem_alloc(mem, head) EXCEPT
                          ![head].flink = head, ![head].blink = head,
                          ![head].parent = head, ![head].key = 0,
                          ![head].head = TRUE, ![head].val = garbage]
  BY <1>2 DEF Create
<1>4. CASE g = 0
  BY <1>1, <1>3, <1>4 DEF TreeInv
<1>5. CASE g # 0
  <2>1. Addr \subseteq Nat /\ IsFiniteSet(Addr) /\ NULL \notin Addr
    BY DEF ConstantsAssumption, NULL
  <2>2. Addr \ DOMAIN mem # {}
    <3>1. g \in 0..2 /\ g <= Cardinality(Addr \ DOMAIN mem)
      BY DEF Gotten
    <3>2. IsFiniteSet(Addr \ DOMAIN mem)
      BY <2>1, FS_Difference
    <3>3. Cardinality(Addr \ DOMAIN mem) # 0
      BY <1>5, <3>1
    <3> QED BY <3>3, FS_EmptySet
  <2>3. head \in Addr
    BY <1>2, <2>1, <2>2, FreshIsFree
  <2>4. PICK a : a = mem_alloc(mem, head)
    OBVIOUS
  <2>5. DOMAIN a = {head} /\ a[head] = Unwritten
    BY <1>1, <2>4 DEF mem_alloc
  <2>6. PICK r : r = mem'
    OBVIOUS
  <2>7. r = [a EXCEPT ![head].flink = head, ![head].blink = head,
                      ![head].parent = head, ![head].key = 0,
                      ![head].head = TRUE, ![head].val = garbage]
    BY <1>3, <1>5, <2>4, <2>6
  <2>8. DOMAIN r = {head} /\ r[head] = [Unwritten EXCEPT !.flink = head, !.blink = head,
                      !.parent = head, !.key = 0, !.head = TRUE, !.val = garbage]
    BY <2>5, <2>7
  <2>9. DOMAIN Unwritten = Fields
    BY DEF Unwritten, Fields
  <2>10. DOMAIN r[head] = Fields /\ r[head].flink = head /\ r[head].blink = head
         /\ r[head].parent = head /\ r[head].head = TRUE /\ r[head].key = 0
    BY <2>8, <2>9 DEF Fields
  <2>11. Bare(r, head)
    BY <2>8, <2>10 DEF Bare, IsMem
  <2>12. Sound(r, head, {}) /\ Outer(r, head) = {}
    BY <2>11, BareSound
  <2>13. Counts(r, head)
    <3>1. IsFiniteSet({head}) /\ Cardinality({head}) = 1
      BY FS_Singleton
    <3> QED BY <2>8, <2>12, <3>1 DEF Counts
  <2>14. Good(r, head)
    BY <2>3, <2>8, <2>10, <2>12, <2>13 DEF Good
  <2>15. tree' = head
    BY <1>3, <1>5
  <2> QED BY <1>1, <2>1, <2>3, <2>6, <2>14, <2>15 DEF TreeInv
<1> QED BY <1>4, <1>5

(* rbtree_insert and rbtree_insert_unique keep the invariant. *)
LEMMA InsertKeeps ==
  ASSUME ConstantsAssumption, TreeInv, NEW key \in Key, NEW val \in Val,
         rbtree_insert(key, val) \/ rbtree_insert_unique(key, val)
  PROVE  TreeInv'
<1>1. tree # NULL /\ tree \in Addr /\ Good(mem, tree) /\ asserts = {}
      /\ tree' = tree /\ asserts' = asserts
  BY DEF TreeInv, rbtree_insert, rbtree_insert_unique
<1>2. PICK n : n = rbtree_find_greater(mem, tree, key)
  OBVIOUS
<1>3. n.node \in Outer(mem, tree) \cup {tree}
  BY <1>1, <1>2, FindsGreater DEF Good, Sound
<1>4. \/ mem' = mem
      \/ \E got \in Gotten : mem' = rbtree_insert_b(mem, n.node, key, val, got)
  BY <1>2 DEF rbtree_insert, rbtree_insert_unique
<1>5. Addr \subseteq Nat /\ IsFiniteSet(Addr)
  BY DEF ConstantsAssumption
<1>6. ASSUME NEW got \in Gotten PROVE Good(rbtree_insert_b(mem, n.node, key, val, got), tree)
  <2>1. got \in 0..2 /\ got <= Cardinality(Addr \ DOMAIN mem)
    BY DEF Gotten
  <2>2. InsertedWell(mem, tree, n.node, key, val, rbtree_insert_b(mem, n.node, key, val, got))
    BY <1>1, <1>3, <1>5, <2>1, InsertGood
  <2> QED BY <2>2 DEF InsertedWell
<1>7. PICK r : r = mem'
  OBVIOUS
<1>8. Good(r, tree)
  BY <1>1, <1>4, <1>6, <1>7
<1> QED BY <1>1, <1>7, <1>8 DEF TreeInv

(* rbtree_delete_node keeps the invariant, and no ASSERT fails. *)
LEMMA DeleteKeeps ==
  ASSUME ConstantsAssumption, TreeInv, NEW node \in Leaves, Delete(node)
  PROVE  TreeInv'
<1>1. tree # NULL /\ tree \in Addr /\ Good(mem, tree) /\ asserts = {} /\ tree' = tree
  BY DEF TreeInv, Leaves, Delete
<1>2. node \in Outer(mem, tree)
  <2>1. Fine(mem, tree)
    BY <1>1 DEF Good, Sound, Shape
  <2> QED BY <2>1, NodesAre
<1>3. DeletedWell(mem, tree, node, rbtree_delete_node(mem, node))
  BY <1>1, <1>2, DeleteGood
<1>4. PICK res : res = rbtree_delete_node(mem, node)
  OBVIOUS
<1>5. mem' = res.mem /\ asserts' = asserts \cup res.asserts
  BY <1>4 DEF Delete
<1>6. Good(res.mem, tree) /\ res.asserts = {}
  BY <1>3, <1>4 DEF DeletedWell
<1>7. PICK r : r = mem'
  OBVIOUS
<1>8. Good(r, tree) /\ asserts' = {}
  BY <1>1, <1>5, <1>6, <1>7
<1> QED BY <1>1, <1>7, <1>8 DEF TreeInv

(* rbtree_free and rbtree_destroy keep the invariant. *)
LEMMA FreeKeeps ==
  ASSUME ConstantsAssumption, TreeInv, Free \/ rbtree_destroy
  PROVE  TreeInv'
<1>1. tree # NULL /\ tree \in Addr /\ Good(mem, tree) /\ asserts = {}
  BY DEF TreeInv, Free, rbtree_destroy
<1>2. PICK res : res = rbtree_free(mem, tree)
  OBVIOUS
<1>3. FreedWell(mem, tree, rbtree_free(mem, tree))
  BY <1>1, FreeGood
<1>4. res.asserts = {} /\ Good(res.mem, tree) /\ DOMAIN res.mem = {tree}
  BY <1>2, <1>3 DEF FreedWell
<1>5. PICK r : r = mem'
  OBVIOUS
<1>6. CASE Free
  <2>1. r = res.mem /\ asserts' = asserts \cup res.asserts /\ tree' = tree
    BY <1>2, <1>5, <1>6 DEF Free
  <2>2. Good(r, tree) /\ asserts' = {}
    BY <1>1, <1>4, <2>1
  <2> QED BY <1>1, <1>5, <2>1, <2>2 DEF TreeInv
<1>7. CASE rbtree_destroy
  <2>1. r = mem_free(res.mem, tree) /\ asserts' = asserts \cup res.asserts /\ tree' = NULL
    BY <1>2, <1>5, <1>7 DEF rbtree_destroy
  <2>2. DOMAIN r = {} /\ asserts' = {}
    BY <1>1, <1>4, <2>1 DEF mem_free
  <2> QED BY <1>5, <2>1, <2>2 DEF TreeInv
<1> QED BY <1>6, <1>7

(* Every step keeps the invariant. *)
LEMMA TreeStep ==
  ASSUME TreeInv, [Next]_vars
  PROVE  TreeInv'
<1> USE ConstantsAssumption
<1>1. CASE Create
  BY <1>1, CreateKeeps
<1>2. CASE Free \/ rbtree_destroy
  BY <1>2, FreeKeeps
<1>3. ASSUME NEW key \in Key, NEW val \in Val,
             rbtree_insert(key, val) \/ rbtree_insert_unique(key, val)
      PROVE  TreeInv'
  BY <1>3, InsertKeeps
<1>4. ASSUME NEW node \in Leaves, Delete(node) PROVE TreeInv'
  BY <1>4, DeleteKeeps
<1>5. CASE UNCHANGED vars
  BY <1>5 DEF TreeInv, vars
<1> QED BY <1>1, <1>2, <1>3, <1>4, <1>5 DEF Next

(* The inductive invariant holds in every reachable state: whatever calls   *)
(* the client makes, the memory holds a good tree or nothing, and no ASSERT *)
(* of rbtree.c fails.                                                       *)
THEOREM TreeInvariance == Spec => []TreeInv
<1>1. Init => TreeInv
  BY DEF Init, TreeInv
<1> QED BY <1>1, TreeStep, PTL DEF Spec

(* Whatever is inserted, deleted and freed, however many allocations fail,   *)
(* between two calls the tree is linked in both directions, its leaves form  *)
(* one list in the order of the tree, every separator is the leaf next to    *)
(* its split, colours balance all paths, every node that was allocated is in *)
(* the tree, and no ASSERT has failed.                                       *)
THEOREM TreeStaysSound == Spec => []TreeSound
<1>1. TreeInv => TreeSound
  BY ConstantsAssumption, InvSound
<1> QED BY <1>1, TreeInvariance, PTL

-----------------------------------------------------------------------------
(* A memory is a function, whatever operation wrote it.                    *)
IsFun(m) == m = [n \in DOMAIN m |-> m[n]]

(* The writes of rbtree.c leave a memory a function. *)
LEMMA WritesAreFuns ==
  ASSUME NEW m, IsFun(m)
  PROVE  /\ \A a, v : IsFun(setcolor(m, a, v)) /\ IsFun(setred(m, a)) /\ IsFun(setblack(m, a))
         /\ \A a, v : IsFun(setrext(m, a, v)) /\ IsFun(setlext(m, a, v))
         /\ \A y, l : IsFun(single_rotate(m, y, l))
         /\ \A a : IsFun(mem_free(m, a))
         /\ \A new, l, r, p, il : IsFun(link_new_int(m, new, l, r, p, il))
         /\ \A n, leaf, key, val : IsFun(insert_first(m, n, leaf, key, val))
<1>1. \A a, v : IsFun(setcolor(m, a, v)) /\ IsFun(setred(m, a)) /\ IsFun(setblack(m, a))
  BY DEF IsFun, setcolor, setred, setblack
<1>2. \A a, v : IsFun(setrext(m, a, v)) /\ IsFun(setlext(m, a, v))
  BY DEF IsFun, setrext, setlext
<1>3. \A y, l : IsFun(single_rotate(m, y, l))
  <2>1. \A f, a, v : IsFun([f EXCEPT ![a] = v])
    BY DEF IsFun
  <2> SUFFICES ASSUME NEW y, NEW l PROVE IsFun(single_rotate(m, y, l))
    OBVIOUS
  <2> DEFINE x == m[y][Side(l)]
             c == m[x][Side(~l)]
             yp == m[y].parent
             up == IF m[y].root THEN "parent" ELSE Side(m[y].left)
  <2>2. PICK A : A = [m[y] EXCEPT ![Side(l)] = c, !.left = ~l, !.parent = x, !.root = FALSE]
    OBVIOUS
  <2>3. PICK B : B = [m[c] EXCEPT !.left = l, !.parent = y]
    OBVIOUS
  <2>4. PICK C : C = [m[x] EXCEPT ![Side(~l)] = y, !.parent = yp, !.root = m[y].root,
                          !.left = IF m[y].root THEN m[x].left ELSE m[y].left]
    OBVIOUS
  <2>5. PICK D : D = [m[yp] EXCEPT ![up] = x]
    OBVIOUS
  <2>6. PICK g : g = [m EXCEPT ![y] = A, ![c] = B, ![x] = C]
    OBVIOUS
  <2>7. single_rotate(m, y, l) = [g EXCEPT ![yp] = D]
    BY <2>2, <2>3, <2>4, <2>5, <2>6 DEF single_rotate
  <2> HIDE DEF x, c, yp, up
  <2> QED BY <2>1, <2>7
<1>4. \A a : IsFun(mem_free(m, a))
  BY DEF IsFun, mem_free
<1>5. \A new, l, r, p, il : IsFun(link_new_int(m, new, l, r, p, il))
  BY DEF IsFun, link_new_int
<1>6. \A n, leaf, key, val : IsFun(insert_first(m, n, leaf, key, val))
  <2>1. \A f, a, v : IsFun([f EXCEPT ![a] = v])
    BY DEF IsFun
  <2> SUFFICES ASSUME NEW n, NEW leaf, NEW key, NEW val PROVE IsFun(insert_first(m, n, leaf, key, val))
    OBVIOUS
  <2>2. PICK e : e = insert(mk_new_ext(mem_alloc(m, leaf), leaf, key, val), leaf, n)
    OBVIOUS
  <2>3. PICK g : g = [e EXCEPT ![n].parent = leaf, ![leaf].parent = n]
    OBVIOUS
  <2>4. PICK D : D = [g[leaf] EXCEPT !.root = TRUE]
    OBVIOUS
  <2>5. insert_first(m, n, leaf, key, val) = [g EXCEPT ![leaf] = D]
    BY <2>2, <2>3, <2>4 DEF insert_first
  <2>6. IsFun([g EXCEPT ![leaf] = D])
    BY <2>1
  <2> QED BY <2>5, <2>6, Zenon
<1> QED BY <1>1, <1>2, <1>3, <1>4, <1>5, <1>6

(* So does recolor's loop. *)
LEMMA RecolorLoopFun ==
  ASSUME NEW m, NEW n, IsFun(m), IsFiniteSet(DOMAIN m)
  PROVE  IsFun(recolor_loop(m, n).mem)
<1> DEFINE C == Cardinality(DOMAIN m)
           f == recolor_turns(m, n)
           T == {i \in 0..C : IsFun(f[i].mem)}
<1>1. C \in Nat
  BY FS_CardinalityType
<1>2. f[0] = [mem |-> m, n |-> n] /\ \A i \in 1..C : f[i] = RecolorOnce(f[i - 1])
  BY <1>1, RecolorTurns
<1> HIDE DEF C, f
<1>3. 0 \in T
  BY <1>1, <1>2
<1>4. ASSUME NEW i \in 0..C - 1, i \in T PROVE i + 1 \in T
  <2>1. i + 1 \in 1..C /\ (i + 1) - 1 = i
    BY <1>1
  <2>2. PICK c : c = f[i]
    OBVIOUS
  <2>3. f[i + 1] = RecolorOnce(c) /\ IsFun(c.mem)
    BY <1>2, <1>4, <2>1, <2>2
  <2>4. IsFun(RecolorOnce(c).mem)
    <3>1. CASE ~recolor_goes_on(c.mem, c.n)
      BY <2>3, <3>1 DEF RecolorOnce
    <3>2. CASE recolor_goes_on(c.mem, c.n)
      <4>1. RecolorOnce(c) = recolor_turn(c.mem, c.n)
        BY <3>2 DEF RecolorOnce
      <4>2. IsFun(recolor_turn(c.mem, c.n).mem)
        BY <2>3, WritesAreFuns DEF recolor_turn
      <4> QED BY <4>1, <4>2
    <3> QED BY <3>1, <3>2
  <2> QED BY <2>1, <2>3, <2>4
<1>5. C \in T
  <2> HIDE DEF T
  <2>1. 0..C \subseteq T
    BY <1>1, <1>3, <1>4, UpTo
  <2> QED BY <1>1, <2>1
<1>6. IsFun(f[C].mem)
  BY <1>5
<1> QED BY <1>6 DEF recolor_loop, f, C

(* So does the loop of a deletion. *)
LEMMA DeleteLoopFun ==
  ASSUME NEW m, NEW n, IsFun(m), IsFiniteSet(DOMAIN m)
  PROVE  IsFun(delete_loop(m, n).mem)
<1> DEFINE C == Cardinality(DOMAIN m)
           f == delete_turns(m, n)
           T == {i \in 0..C : IsFun(f[i].mem)}
<1>1. C \in Nat
  BY FS_CardinalityType
<1>2. f[0] = [mem |-> m, n |-> n] /\ \A i \in 1..C : f[i] = DeleteOnce(f[i - 1])
  BY <1>1, DeleteTurns
<1> HIDE DEF C, f
<1>3. 0 \in T
  BY <1>1, <1>2
<1>4. ASSUME NEW i \in 0..C - 1, i \in T PROVE i + 1 \in T
  <2>1. i + 1 \in 1..C /\ (i + 1) - 1 = i
    BY <1>1
  <2>2. PICK c : c = f[i]
    OBVIOUS
  <2>3. f[i + 1] = DeleteOnce(c) /\ IsFun(c.mem)
    BY <1>2, <1>4, <2>1, <2>2
  <2>4. IsFun(DeleteOnce(c).mem)
    <3>1. CASE ~delete_goes_on(c.mem, c.n)
      BY <2>3, <3>1 DEF DeleteOnce
    <3>2. CASE delete_goes_on(c.mem, c.n)
      <4>1. DeleteOnce(c) = delete_turn(c.mem, c.n)
        BY <3>2 DEF DeleteOnce
      <4>2. IsFun(delete_turn(c.mem, c.n).mem)
        BY <2>3, WritesAreFuns DEF delete_turn
      <4> QED BY <4>1, <4>2
    <3> QED BY <3>1, <3>2
  <2> QED BY <2>1, <2>3, <2>4
<1>5. C \in T
  <2> HIDE DEF T
  <2>1. 0..C \subseteq T
    BY <1>1, <1>3, <1>4, UpTo
  <2> QED BY <1>1, <2>1
<1>6. IsFun(f[C].mem)
  BY <1>5
<1> QED BY <1>6 DEF delete_loop, f, C

(* So does recolor. *)
LEMMA RecolorFun ==
  ASSUME NEW m, NEW n, IsFun(m), IsFiniteSet(DOMAIN m)
  PROVE  IsFun(recolor(m, n))
<1>1. PICK c : c = recolor_loop(m, n)
  OBVIOUS
<1>2. IsFun(c.mem)
  BY <1>1, RecolorLoopFun
<1>3. ASSUME NEW q, NEW k, IsFun(q) PROVE IsFun(recolor_end(q, k))
  <2> DEFINE p == q[k].parent
             gp == q[p].parent
             l == q[k].left
  <2>1. CASE q[k].root
    BY <1>3, <2>1, WritesAreFuns DEF recolor_end
  <2>2. CASE ~q[k].root /\ ~q[p].red
    BY <1>3, <2>2 DEF recolor_end
  <2>3. CASE ~q[k].root /\ q[p].red /\ q[p].root
    BY <1>3, <2>3, WritesAreFuns DEF recolor_end
  <2>4. CASE ~q[k].root /\ q[p].red /\ ~q[p].root
    <3>1. ASSUME NEW r, IsFun(r), NEW a, NEW b, NEW y, NEW d
          PROVE  IsFun(setred(setblack(single_rotate(r, y, d), a), b))
      <4>1. IsFun(single_rotate(r, y, d))
        BY <3>1, WritesAreFuns
      <4>2. IsFun(setblack(single_rotate(r, y, d), a))
        BY <4>1, WritesAreFuns
      <4> QED BY <4>2, WritesAreFuns
    <3>2. CASE l = q[p].left
      <4>1. recolor_end(q, k) = setred(setblack(single_rotate(q, gp, l), p), gp)
        BY <2>4, <3>2 DEF recolor_end
      <4> QED BY <1>3, <3>1, <4>1
    <3>3. CASE l # q[p].left
      <4>1. PICK r : r = single_rotate(q, p, l)
        OBVIOUS
      <4>2. recolor_end(q, k) = setred(setblack(single_rotate(r, gp, r[k].left), k), gp)
        BY <2>4, <3>3, <4>1 DEF recolor_end
      <4>3. IsFun(r)
        BY <1>3, <4>1, WritesAreFuns
      <4> QED BY <3>1, <4>2, <4>3
    <3> QED BY <3>2, <3>3
  <2> QED BY <2>1, <2>2, <2>3, <2>4
<1> QED BY <1>1, <1>2, <1>3 DEF recolor

-----------------------------------------------------------------------------
(* The memory insert_beside returns is a function. *)
LEMMA InsertBesideFun ==
  ASSUME NEW m, NEW n, NEW leaf, NEW key, NEW val, IsFiniteSet(DOMAIN m)
  PROVE  IsFun(insert_beside(m, n, leaf, key, val))
<1>1. PICK m1 : m1 = mem_alloc(m, leaf)
  OBVIOUS
<1>2. PICK new : new = FreshAddr(m1)
  OBVIOUS
<1>3. PICK m2 : m2 = mk_new_ext(mem_alloc(m1, new), leaf, key, val)
  OBVIOUS
<1>4. PICK m3 : m3 = insert(m2, leaf, n)
  OBVIOUS
<1>5. PICK old : old = IF ishead(m, n) THEN m3[leaf].blink ELSE n
  OBVIOUS
<1>5a. PICK last : last = ishead(m, n)
  OBVIOUS
<1>6. PICK m4 : m4 = [m3 EXCEPT ![old].root = FALSE]
  OBVIOUS
<1>7. PICK p : p = m4[old].parent
  OBVIOUS
<1>8. PICK il : il = m4[old].left
  OBVIOUS
<1>9. PICK a : a = mk_new_int(m4, new, old, leaf, p, il)
  OBVIOUS
<1>10. PICK b : b = mk_new_int(m4, new, leaf, old, p, il)
  OBVIOUS
<1>11. PICK r : r = insert_beside(m, n, leaf, key, val)
  OBVIOUS
<1>11a. r = setlext(a, rprev(a, leaf), leaf) \/ r = setrext(b, lprev(b, leaf), leaf)
  <2>1. CASE last
    BY <1>1, <1>2, <1>3, <1>4, <1>5, <1>5a, <1>6, <1>7, <1>8, <1>9, <1>11, <2>1 DEF insert_beside
  <2>2. CASE ~last
    BY <1>1, <1>2, <1>3, <1>4, <1>5, <1>5a, <1>6, <1>7, <1>8, <1>10, <1>11, <2>2 DEF insert_beside
  <2> QED BY <2>1, <2>2
<1>12. IsFiniteSet(DOMAIN m4)
  <2>1. DOMAIN m1 = DOMAIN m \cup {leaf}
    BY <1>1 DEF mem_alloc
  <2>2. DOMAIN m4 = (DOMAIN m \cup {leaf}) \cup {new}
    <3>1. DOMAIN mem_alloc(m1, new) = DOMAIN m1 \cup {new}
      BY DEF mem_alloc
    <3>2. DOMAIN m2 = DOMAIN mem_alloc(m1, new)
      BY <1>3 DEF mk_new_ext
    <3>3. DOMAIN m3 = DOMAIN m2
      BY <1>4 DEF insert
    <3>4. DOMAIN m4 = DOMAIN m3
      BY <1>6
    <3> QED BY <2>1, <3>1, <3>2, <3>3, <3>4
  <2>3. IsFiniteSet(DOMAIN m \cup {leaf})
    BY FS_AddElement
  <2>4. IsFiniteSet((DOMAIN m \cup {leaf}) \cup {new})
    BY <2>3, FS_AddElement
  <2> QED BY <2>2, <2>4
<1>13. IsFun(m4)
  BY <1>6 DEF IsFun
<1> HIDE <1>1, <1>2, <1>3, <1>4, <1>5, <1>6
<1>14. ASSUME NEW x, NEW y PROVE IsFun(mk_new_int(m4, new, x, y, p, il))
  <2>1. PICK q : q = link_new_int(m4, new, x, y, p, il)
    OBVIOUS
  <2>2. IsFun(q)
    BY <1>13, <2>1, WritesAreFuns
  <2>3. DOMAIN q = DOMAIN m4
    BY <2>1 DEF link_new_int
  <2>4. IsFun(recolor(q, new))
    BY <1>12, <2>2, <2>3, RecolorFun
  <2> QED BY <2>1, <2>4 DEF mk_new_int
<1>15. IsFun(a) /\ IsFun(b)
  BY <1>9, <1>10, <1>14
<1>16. IsFun(setlext(a, rprev(a, leaf), leaf)) /\ IsFun(setrext(b, lprev(b, leaf), leaf))
  BY <1>15, WritesAreFuns
<1> QED BY <1>11, <1>11a, <1>16

(* So is the one rbtree_insert_b returns. *)
LEMMA InsertFun ==
  ASSUME NEW m, IsFun(m), IsFiniteSet(DOMAIN m), NEW n, NEW key, NEW val, NEW got \in 0..2
  PROVE  IsFun(rbtree_insert_b(m, n, key, val, got))
<1>1. PICK leaf : leaf = FreshAddr(m)
  OBVIOUS
<1>2. PICK r : r = rbtree_insert_b(m, n, key, val, got)
  OBVIOUS
<1>3. \/ r = m \/ r = insert_first(m, n, leaf, key, val)
      \/ r = mem_free(mem_alloc(m, leaf), leaf)
      \/ r = insert_beside(m, n, leaf, key, val)
  BY <1>1, <1>2 DEF rbtree_insert_b
<1>4. IsFun(insert_first(m, n, leaf, key, val))
  BY WritesAreFuns
<1>5. IsFun(mem_free(mem_alloc(m, leaf), leaf))
  BY DEF IsFun, mem_free
<1>6. IsFun(insert_beside(m, n, leaf, key, val))
  BY InsertBesideFun
<1>7. IsFun(r)
  BY <1>3, <1>4, <1>5, <1>6
<1> QED BY <1>2, <1>7

(* The operations of a deletion.                                           *)
LEMMA DeleteEndFun ==
  ASSUME NEW m, NEW n, IsFun(m)
  PROVE  IsFun(delete_end(m, n).mem)
<1>1. ASSUME NEW q, IsFun(q), NEW p, NEW s PROVE IsFun(rotate_delete(q, n, p, s).mem)
  <2> DEFINE il == q[n].left
             x == q[s][Side(il)]
             z == sibling(q, x)
  <2>1. PICK a : a = single_rotate(single_rotate(q, s, il), p, ~il)
    OBVIOUS
  <2>2. IsFun(a)
    <3>1. PICK b : b = single_rotate(q, s, il)
      OBVIOUS
    <3>2. IsFun(b)
      BY <1>1, <3>1, WritesAreFuns
    <3>3. PICK k : k = ~il
      OBVIOUS
    <3>4. a = single_rotate(b, p, k)
      BY <2>1, <3>1, <3>3
    <3> QED BY <3>2, <3>4, WritesAreFuns
  <2>3. PICK rx : rx = setblack(a, x)
    OBVIOUS
  <2>4. IsFun(rx) /\ IsFun(setred(rx, s))
    BY <2>2, <2>3, WritesAreFuns
  <2>5. PICK u : u = single_rotate(q, p, ~il)
    OBVIOUS
  <2>6. IsFun(u)
    <3>1. PICK k : k = ~il
      OBVIOUS
    <3>2. u = single_rotate(q, p, k)
      BY <2>5, <3>1
    <3> QED BY <1>1, <3>2, WritesAreFuns
  <2>7. PICK r : r = setblack(u, z)
    OBVIOUS
  <2>8. IsFun(r)
    BY <2>6, <2>7, WritesAreFuns
  <2>9. PICK v : v = setcolor(r, s, q[p].red)
    OBVIOUS
  <2>10. IsFun(v)
    BY <2>8, <2>9, WritesAreFuns
  <2>11. IsFun(setblack(v, p))
    BY <2>10, WritesAreFuns
  <2>12. IsFun(setblack(q, p))
    BY <1>1, WritesAreFuns
  <2>13. IsFun(setred(setblack(q, p), s))
    BY <2>12, WritesAreFuns
  <2>14. PICK res : res = rotate_delete(q, n, p, s)
    OBVIOUS
  <2>15. \/ res = Done(setblack(v, p)) \/ res = Failed(q, 548)
         \/ res = Done(setred(setblack(q, p), s)) \/ res = Done(setred(rx, s)) \/ res = Done(rx)
    BY <2>1, <2>3, <2>5, <2>7, <2>9, <2>14, ZenonT(30) DEF rotate_delete
  <2> HIDE <2>1, <2>3, <2>5, <2>7, <2>9
  <2>16. IsFun(res.mem)
    BY <1>1, <2>4, <2>11, <2>13, <2>15 DEF Done, Failed
  <2> QED BY <2>14, <2>16
<1>2. PICK p, s : p = m[n].parent /\ s = sibling(m, n)
  OBVIOUS
<1>3. PICK u : u = setblack(setred(single_rotate(m, p, ~m[n].left), p), s)
  OBVIOUS
<1>4. IsFun(u)
  <2>0. PICK l : l = ~m[n].left
    OBVIOUS
  <2>1. PICK a : a = single_rotate(m, p, l)
    OBVIOUS
  <2>2. IsFun(a)
    BY <2>1, WritesAreFuns
  <2>3. IsFun(setred(a, p))
    BY <2>2, WritesAreFuns
  <2>4. IsFun(setblack(setred(a, p), s))
    BY <2>3, WritesAreFuns
  <2> QED BY <1>3, <2>0, <2>1, <2>4
<1>5. PICK mr : mr = IF ~m[p].red /\ m[s].red THEN u ELSE m
  OBVIOUS
<1>6. IsFun(mr)
  BY <1>4, <1>5
<1>7. PICK sr : sr = sibling(mr, n)
  OBVIOUS
<1>8. PICK res : res = delete_end(m, n)
  OBVIOUS
<1>9. res = Done(m) \/ res = rotate_delete(mr, n, p, sr) \/ res = Failed(mr, 529)
  BY <1>2, <1>3, <1>5, <1>7, <1>8, ZenonT(60) DEF delete_end
<1> HIDE <1>2, <1>3, <1>5, <1>7
<1>10. IsFun(rotate_delete(mr, n, p, sr).mem)
  BY <1>1, <1>6
<1>11. IsFun(res.mem)
  BY <1>6, <1>9, <1>10 DEF Done, Failed
<1> QED BY <1>8, <1>11

(* So is the one rbtree_delete_node returns. *)
LEMMA DeleteFun ==
  ASSUME NEW m, NEW node, IsFiniteSet(DOMAIN m)
  PROVE  IsFun(rbtree_delete_node(m, node).mem)
<1>1. PICK a : a = delete_item(m, node)
  OBVIOUS
<1>2. DOMAIN a = DOMAIN m
  BY <1>1 DEF delete_item
<1>3. \A u, k : IsFun(mem_free(u, k))
  BY DEF IsFun, mem_free
<1>4. PICK p, s : p = a[node].parent /\ s = sibling(a, node)
  OBVIOUS
<1>5. ASSUME NEW x, NEW first, NEW last, IsFun(x) PROVE IsFun(refresh_ext(x, s, first, last))
  <2>1. PICK v : v = setrext(x, lprev(x, s), first)
    OBVIOUS
  <2>2. IsFun(v)
    BY <1>5, <2>1, WritesAreFuns
  <2>3. IsFun(setlext(v, rprev(v, s), last))
    BY <2>2, WritesAreFuns
  <2> QED BY <2>1, <2>3 DEF refresh_ext
<1>6. IsFun(splice_out(a, node, p, s).mem)
  <2>1. PICK u : u = [a EXCEPT ![s] = [a[s] EXCEPT !.parent = a[p].parent, !.left = a[p].left],
                               ![a[p].parent] = [a[a[p].parent] EXCEPT ![Side(a[p].left)] = s]]
    OBVIOUS
  <2>2. PICK q : q = mem_free(mem_free(u, p), node)
    OBVIOUS
  <2>3. IsFun(q) /\ IsFiniteSet(DOMAIN q)
    <3>1. IsFun(q)
      BY <1>3, <2>2
    <3>2. DOMAIN q = (DOMAIN u \ {p}) \ {node}
      BY <2>2 DEF mem_free
    <3>3. DOMAIN u = DOMAIN a
      BY <2>1
    <3>4. DOMAIN q \subseteq DOMAIN m
      BY <1>2, <3>2, <3>3
    <3> QED BY <3>1, <3>4, FS_Subset
  <2>4. PICK x : x = refresh_ext(q, s, s, s)
    OBVIOUS
  <2>5. IsFun(x) /\ DOMAIN x = DOMAIN q
    BY <1>5, <2>3, <2>4 DEF refresh_ext, setrext, setlext
  <2>6. PICK y : y = refresh_ext(q, s, q[s].flink, q[s].blink)
    OBVIOUS
  <2>7. IsFun(y)
    BY <1>5, <2>3, <2>6
  <2>8. IsFun(setblack(y, s))
    BY <2>7, WritesAreFuns
  <2>9. IsFun(recolor_delete(x, s).mem)
    <3>1. PICK c : c = delete_loop(x, s)
      OBVIOUS
    <3>2. IsFun(c.mem)
      BY <2>3, <2>5, <3>1, DeleteLoopFun
    <3>3. recolor_delete(x, s) = delete_end(c.mem, c.n)
      BY <3>1 DEF recolor_delete
    <3> QED BY <3>2, <3>3, DeleteEndFun
  <2>10. PICK res : res = splice_out(a, node, p, s)
    OBVIOUS
  <2>11. \/ res = Done(x) \/ res = recolor_delete(x, s) \/ res = Done(setblack(y, s))
         \/ res = Failed(q, 486)
    BY <2>1, <2>2, <2>4, <2>6, <2>10, ZenonT(60) DEF splice_out
  <2> HIDE <2>1, <2>2, <2>4, <2>6
  <2>12. IsFun(res.mem)
    BY <2>3, <2>5, <2>8, <2>9, <2>11 DEF Done, Failed
  <2> QED BY <2>10, <2>12
<1>7. PICK h : h = a[p].parent
  OBVIOUS
<1>8. PICK u : u = mem_free([a EXCEPT ![p].parent = p], node)
  OBVIOUS
<1>9. PICK w : w = mem_free(mem_free([a EXCEPT ![s] = [a[s] EXCEPT !.parent = h, !.root = TRUE],
                                               ![h] = [a[h] EXCEPT !.parent = s]], p), node)
  OBVIOUS
<1>10. IsFun(u) /\ IsFun(w)
  BY <1>3, <1>8, <1>9
<1>11. PICK res : res = rbtree_delete_node(m, node)
  OBVIOUS
<1>12. res = Done(u) \/ res = Done(w) \/ res = splice_out(a, node, p, s)
  BY <1>1, <1>4, <1>7, <1>8, <1>9, <1>11 DEF rbtree_delete_node
<1> HIDE <1>1, <1>4, <1>7, <1>8, <1>9
<1>13. IsFun(res.mem)
  BY <1>6, <1>10, <1>12 DEF Done
<1> QED BY <1>11, <1>13

-----------------------------------------------------------------------------
(* So is the one rbtree_free returns. *)
LEMMA FreeFun ==
  ASSUME NEW m, NEW t, Good(m, t), IsFun(m)
  PROVE  IsFun(rbtree_free(m, t).mem)
<1> DEFINE C == Cardinality(DOMAIN m)
           f == free_turns(m, t)
           T == {i \in 0..C : Good(f[i].mem, t) /\ IsFun(f[i].mem)}
<1>1. C \in Nat
  BY OuterFinite DEF Good, Counts
<1>2. f[0] = Done(m) /\ \A i \in 1..C : f[i] = FreeOnce(t, f[i - 1])
  BY <1>1, FreeTurns
<1>3. rbtree_free(m, t) = f[C]
  BY DEF rbtree_free
<1> HIDE DEF C, f
<1>4. 0 \in T
  BY <1>1, <1>2 DEF Done
<1>5. ASSUME NEW i \in 0..C - 1, i \in T PROVE i + 1 \in T
  <2>1. i + 1 \in 1..C /\ (i + 1) - 1 = i /\ i + 1 \in 0..C
    BY <1>1
  <2>2. f[i + 1] = FreeOnce(t, f[i])
    BY <1>2, <2>1
  <2>3. PICK q : q = f[i].mem
    OBVIOUS
  <2>4. Good(q, t) /\ IsFun(q)
    BY <1>5, <2>3
  <2>5. CASE q[t].flink = t
    <3>1. f[i + 1] = f[i]
      BY <2>2, <2>3, <2>5 DEF FreeOnce
    <3> QED BY <2>1, <2>3, <2>4, <3>1
  <2>6. CASE q[t].flink # t
    <3>1. PICK node : node = q[t].flink
      OBVIOUS
    <3>2. f[i + 1].mem = rbtree_delete_node(q, node).mem
      BY <2>2, <2>3, <2>6, <3>1 DEF FreeOnce
    <3>3. node \in Outer(q, t)
      BY <2>4, <2>6, <3>1, FirstLeafIs
    <3>4. DeletedWell(q, t, node, rbtree_delete_node(q, node))
      BY <2>4, <3>3, DeleteGood
    <3>5. Good(rbtree_delete_node(q, node).mem, t)
      BY <3>4 DEF DeletedWell
    <3>6. IsFun(rbtree_delete_node(q, node).mem)
      BY <2>4, DeleteFun DEF Good, Counts
    <3> QED BY <2>1, <3>2, <3>5, <3>6
  <2> QED BY <2>5, <2>6
<1>6. C \in T
  <2> HIDE DEF T
  <2>1. 0..C \subseteq T
    BY <1>1, <1>4, <1>5, UpTo
  <2> QED BY <1>1, <2>1
<1> QED BY <1>3, <1>6

(* The invariant, and that the memory is a function. *)
FunInv == TreeInv /\ IsFun(mem)

(* Every step leaves the memory a function. *)
LEMMA FunStep ==
  ASSUME ConstantsAssumption, FunInv, [Next]_vars
  PROVE  IsFun(mem')
<1>0. TreeInv /\ IsFun(mem)
  BY DEF FunInv
<1>1. CASE Create
  <2>1. PICK head : head = FreshAddr(mem)
    OBVIOUS
  <2>2. \/ mem' = mem
        \/ \E garbage : mem' = [mem_alloc(mem, head) EXCEPT
                                 ![head].flink = head, ![head].blink = head,
                                 ![head].parent = head, ![head].key = 0,
                                 ![head].head = TRUE, ![head].val = garbage]
    BY <1>1, <2>1 DEF Create
  <2>3. PICK a : a = mem_alloc(mem, head)
    OBVIOUS
  <2>4. ASSUME NEW garbage PROVE IsFun([a EXCEPT
                                 ![head].flink = head, ![head].blink = head,
                                 ![head].parent = head, ![head].key = 0,
                                 ![head].head = TRUE, ![head].val = garbage])
    <3>1. PICK c : c = [a EXCEPT ![head].flink = head, ![head].blink = head,
                                 ![head].parent = head, ![head].key = 0, ![head].head = TRUE]
      OBVIOUS
    <3>2. IsFun([c EXCEPT ![head].val = garbage])
      BY DEF IsFun
    <3> QED BY <3>1, <3>2
  <2> QED BY <1>0, <2>2, <2>3, <2>4, ZenonT(30)
<1>2. ASSUME NEW key \in Key, NEW val \in Val,
             rbtree_insert(key, val) \/ rbtree_insert_unique(key, val)
      PROVE  IsFun(mem')
  <2>1. Good(mem, tree)
    BY <1>0, <1>2 DEF TreeInv, rbtree_insert, rbtree_insert_unique
  <2>2. IsFiniteSet(DOMAIN mem)
    BY <2>1 DEF Good, Counts
  <2>3. \/ mem' = mem
        \/ \E n : \E got \in 0..2 : mem' = rbtree_insert_b(mem, n, key, val, got)
    BY <1>2 DEF rbtree_insert, rbtree_insert_unique, Gotten
  <2> QED BY <1>0, <2>2, <2>3, InsertFun
<1>3. ASSUME NEW node \in Leaves, Delete(node) PROVE IsFun(mem')
  <2>1. Good(mem, tree)
    BY <1>0, <1>3 DEF TreeInv, Leaves
  <2>2. IsFiniteSet(DOMAIN mem)
    BY <2>1 DEF Good, Counts
  <2>3. mem' = rbtree_delete_node(mem, node).mem
    BY <1>3 DEF Delete
  <2> QED BY <2>2, <2>3, DeleteFun
<1>4. CASE Free \/ rbtree_destroy
  <2>1. Good(mem, tree)
    BY <1>0, <1>4 DEF TreeInv, Free, rbtree_destroy
  <2>2. PICK r : r = rbtree_free(mem, tree).mem
    OBVIOUS
  <2>3. IsFun(r)
    BY <1>0, <2>1, <2>2, FreeFun
  <2>4. mem' = r \/ mem' = mem_free(r, tree)
    BY <1>4, <2>2 DEF Free, rbtree_destroy
  <2> QED BY <2>3, <2>4, WritesAreFuns
<1>5. CASE UNCHANGED vars
  BY <1>0, <1>5 DEF vars
<1> QED BY <1>1, <1>2, <1>3, <1>4, <1>5 DEF Next

(* The memory is a function in every reachable state. *)
LEMMA FunInvariance == Spec => []FunInv
<1>1. Init => FunInv
  <2>1. Init => TreeInv
    BY DEF Init, TreeInv
  <2>2. Init => IsFun(mem)
    BY DEF Init, IsFun
  <2> QED BY <2>1, <2>2 DEF FunInv
<1>2. FunInv /\ [Next]_vars => FunInv'
  <2>1. FunInv /\ [Next]_vars => TreeInv'
    BY TreeStep DEF FunInv
  <2>2. FunInv /\ [Next]_vars => IsFun(mem)'
    BY ConstantsAssumption, FunStep
  <2> QED BY <2>1, <2>2 DEF FunInv
<1> QED BY <1>1, <1>2, PTL DEF Spec

(* An insertion adds a leaf or changes nothing.                            *)
LEMMA InsertHarmless ==
  ASSUME ConstantsAssumption, FunInv, FunInv', NEW key \in Key, NEW val \in Val,
         rbtree_insert(key, val) \/ rbtree_insert_unique(key, val),
         Cardinality(Leaves') = Cardinality(Leaves)
  PROVE  UNCHANGED mem
<1>1. tree # NULL /\ tree \in Addr /\ Good(mem, tree) /\ tree' = tree /\ IsFun(mem) /\ IsFun(mem')
  BY DEF FunInv, TreeInv, rbtree_insert, rbtree_insert_unique
<1>2. PICK n : n = rbtree_find_greater(mem, tree, key)
  OBVIOUS
<1>3. n.node \in Outer(mem, tree) \cup {tree}
  BY <1>1, <1>2, FindsGreater DEF Good, Sound
<1>4. \/ mem' = mem
      \/ \E got \in Gotten : mem' = rbtree_insert_b(mem, n.node, key, val, got)
  BY <1>2 DEF rbtree_insert, rbtree_insert_unique
<1>5. Addr \subseteq Nat /\ IsFiniteSet(Addr)
  BY DEF ConstantsAssumption
<1>6. ASSUME NEW got \in Gotten
      PROVE  InsertedWell(mem, tree, n.node, key, val, rbtree_insert_b(mem, n.node, key, val, got))
  <2>1. got \in 0..2 /\ got <= Cardinality(Addr \ DOMAIN mem)
    BY DEF Gotten
  <2> QED BY <1>1, <1>3, <1>5, <2>1, InsertGood
<1>7. PICK r : r = mem'
  OBVIOUS
<1>8. r = mem \/ InsertedWell(mem, tree, n.node, key, val, r)
  BY <1>4, <1>6, <1>7
<1>9. Leaves = Outer(mem, tree)
  BY <1>1, NodesAre DEF Good, Sound, Shape
<1>10. CASE InsertedWell(mem, tree, n.node, key, val, r)
  <2>1. Good(r, tree) /\ Grown(mem, r, tree, n.node, key, val)
    BY <1>10 DEF InsertedWell
  <2>2. Leaves' = Outer(r, tree)
    <3>1. Fine(r, tree)
      BY <2>1 DEF Good, Sound, Shape
    <3> QED BY <1>7, <3>1 DEF Leaves, Fine, Outer, Below
  <2>3. CASE DOMAIN r = DOMAIN mem /\ \A k \in DOMAIN mem : r[k] = mem[k]
    <3>1. r = [k \in DOMAIN r |-> r[k]] /\ mem = [k \in DOMAIN mem |-> mem[k]]
      BY <1>1, <1>7 DEF IsFun
    <3>2. r = mem
      BY <2>3, <3>1
    <3> QED BY <1>7, <3>2
  <2>4. CASE \E leaf : leaf \notin DOMAIN mem /\ Outer(r, tree) = Outer(mem, tree) \cup {leaf}
    <3>1. PICK leaf : leaf \notin DOMAIN mem /\ Outer(r, tree) = Outer(mem, tree) \cup {leaf}
      BY <2>4
    <3>2. IsFiniteSet(Outer(mem, tree)) /\ Cardinality(Outer(mem, tree)) \in Nat
      BY <1>1, OuterFinite DEF Good, Counts
    <3>3. leaf \notin Outer(mem, tree)
      BY <3>1 DEF Outer, Below
    <3>4. Cardinality(Outer(mem, tree) \cup {leaf}) = Cardinality(Outer(mem, tree)) + 1
      BY <3>2, <3>3, FS_AddElement
    <3>5. Cardinality(Outer(r, tree)) = Cardinality(Outer(mem, tree))
      BY <1>9, <2>2
    <3>6. \A z \in Nat : z # z + 1
      OBVIOUS
    <3> QED BY <3>1, <3>2, <3>4, <3>5, <3>6
  <2> QED BY <2>1, <2>3, <2>4 DEF Grown
<1> QED BY <1>7, <1>8, <1>10

(* An insertion that finds no memory leaves the tree as it was: the leaf     *)
(* that was allocated before the second allocation failed is given back, and *)
(* nothing was linked to it.                                                 *)
THEOREM FailedInsertsHarmless == Spec => FailedInsertHarmless
<1>1. FunInv /\ FunInv' /\ [Next]_vars =>
        [\A key \in Key, val \in Val :
           /\ rbtree_insert(key, val) \/ rbtree_insert_unique(key, val)
           /\ Cardinality(Leaves') = Cardinality(Leaves)
           => UNCHANGED mem]_vars
  BY ConstantsAssumption, InsertHarmless
<1> QED BY <1>1, FunInvariance, PTL DEF Spec, FailedInsertHarmless

-----------------------------------------------------------------------------
(* A leaf taken out of the list is taken out of the row. *)
LEMMA RowShrinks ==
  ASSUME NEW m, NEW r, NEW t, Ring(m, t), NEW s, NEW N, Row(m, t, s, N),
         NEW i \in 1..N, NEW node, node = s[i],
         Dropped(m, r, t, node), Outer(r, t) = Outer(m, t) \ {node}
  PROVE  Row(r, t, Narrow(s, N, i), N - 1)
<1>1. /\ N \in Nat /\ s \in [1..N -> Outer(m, t)]
      /\ \A k \in Outer(m, t) : \E j \in 1..N : s[j] = k
      /\ \A j, k \in 1..N : s[j] = s[k] => j = k
      /\ \A j \in 0..N : m[At(s, N, t, j)].flink = At(s, N, t, j + 1)
  BY DEF Row
<1>2. PICK z : z = Narrow(s, N, i)
  OBVIOUS
<1>3. \A j \in 1..N - 1 : z[j] = IF j < i THEN s[j] ELSE s[j + 1]
  BY <1>2 DEF Narrow
<1>4. i \in Int /\ N \in Int /\ 1 <= i /\ i <= N /\ i - 1 \in 0..N /\ i \in 0..N
  BY <1>1
<1>5. node \in Outer(m, t) /\ node # t /\ At(s, N, t, i) = node
  BY <1>1, HeadApart DEF At
<1>6. m[node].blink = At(s, N, t, i - 1) /\ m[node].flink = At(s, N, t, i + 1)
  <2>1. m[node].flink = At(s, N, t, i + 1)
    BY <1>1, <1>4, <1>5
  <2>2. PICK j \in 1..N + 1 : node = At(s, N, t, j) /\ m[node].blink = At(s, N, t, j - 1)
    BY <1>5, RowPlace
  <2>3. j \in 1..N
    BY <1>5, <2>2 DEF At
  <2>4. j = i
    BY <1>1, <2>2, <2>3 DEF At
  <2> QED BY <2>1, <2>2, <2>4
<1>7. \A j \in 1..N - 1 : /\ j \in 1..N /\ j + 1 \in 1..N
                          /\ j < i => j # i
                          /\ ~(j < i) => j + 1 # i
  BY <1>4
<1>8. z \in [1..N - 1 -> Outer(r, t)]
  <2>1. \A j \in 1..N - 1 : z[j] \in Outer(m, t) /\ z[j] # node
    <3> SUFFICES ASSUME NEW j \in 1..N - 1 PROVE z[j] \in Outer(m, t) /\ z[j] # node
      OBVIOUS
    <3>1. CASE j < i
      <4>1. z[j] = s[j] /\ j \in 1..N /\ j # i
        BY <1>3, <1>7, <3>1
      <4> QED BY <1>1, <4>1
    <3>2. CASE ~(j < i)
      <4>1. z[j] = s[j + 1] /\ j + 1 \in 1..N /\ j + 1 # i
        BY <1>3, <1>7, <3>2
      <4> QED BY <1>1, <4>1
    <3> QED BY <3>1, <3>2
  <2>2. z = [j \in 1..N - 1 |-> z[j]]
    BY <1>2 DEF Narrow
  <2> QED BY <2>1, <2>2
<1>9. \A k \in Outer(r, t) : \E j \in 1..N - 1 : z[j] = k
  <2> SUFFICES ASSUME NEW k \in Outer(m, t), k # node PROVE \E j \in 1..N - 1 : z[j] = k
    OBVIOUS
  <2>1. PICK j \in 1..N : s[j] = k
    BY <1>1
  <2>2. j # i
    BY <2>1
  <2>3. CASE j < i
    <3>1. j \in 1..N - 1
      BY <1>4, <2>3
    <3> QED BY <1>3, <2>1, <2>3, <3>1
  <2>4. CASE j > i
    <3>1. j - 1 \in 1..N - 1 /\ ~(j - 1 < i) /\ (j - 1) + 1 = j
      BY <1>4, <2>4
    <3>2. z[j - 1] = s[j]
      BY <1>3, <3>1
    <3> QED BY <2>1, <3>1, <3>2
  <2> QED BY <1>4, <2>2, <2>3, <2>4
<1>10. ASSUME NEW j \in 1..N - 1, NEW k \in 1..N - 1, z[j] = z[k] PROVE j = k
  <2> DEFINE j0 == IF j < i THEN j ELSE j + 1
             k0 == IF k < i THEN k ELSE k + 1
  <2>1. j0 \in 1..N /\ k0 \in 1..N
    BY <1>7
  <2>2. z[j] = s[j0] /\ z[k] = s[k0]
    BY <1>3
  <2>3. j0 = k0
    <3> HIDE DEF j0, k0
    <3> QED BY <1>1, <1>10, <2>1, <2>2
  <2> QED BY <1>4, <2>3
<1>11. ASSUME NEW j \in 0..N - 1 PROVE r[At(z, N - 1, t, j)].flink = At(z, N - 1, t, j + 1)
  <2>1. \A k \in 0..N : At(s, N, t, k) \in Outer(m, t) \cup {t}
    BY <1>4, AtOnce
  <2>2. \A k \in 0..N : k # i => r[At(s, N, t, k)].flink = IF k = i - 1 THEN At(s, N, t, i + 1) ELSE At(s, N, t, k + 1)
    <3> SUFFICES ASSUME NEW k \in 0..N, k # i
                 PROVE  r[At(s, N, t, k)].flink = IF k = i - 1 THEN At(s, N, t, i + 1) ELSE At(s, N, t, k + 1)
      OBVIOUS
    <3>1. PICK a : a = At(s, N, t, k)
      OBVIOUS
    <3>2. a # node
      BY <1>4, <1>5, <3>1, AtOnce
    <3>3. r[a].flink = IF a = m[node].blink THEN m[node].flink ELSE m[a].flink
      BY <2>1, <3>1, <3>2 DEF Dropped
    <3>4. a = m[node].blink <=> k = i - 1
      BY <1>4, <1>6, <3>1, AtOnce
    <3>5. m[a].flink = At(s, N, t, k + 1)
      BY <1>1, <3>1
    <3> QED BY <1>6, <3>1, <3>3, <3>4, <3>5
  <2>3. CASE j < i
    <3>1. j \in 0..N /\ j # i /\ (j # 0 => j \in 1..N - 1 /\ j \in 1..N)
      BY <1>4, <2>3
    <3>2. At(z, N - 1, t, j) = At(s, N, t, j)
      BY <1>3, <2>3, <3>1 DEF At
    <3>3. CASE j = i - 1
      <4>1. At(z, N - 1, t, j + 1) = At(s, N, t, i + 1)
        <5>1. j + 1 = i
          BY <1>4, <3>3
        <5>2. CASE i = N
          <6>1. i \notin 1..N - 1 /\ i + 1 \notin 1..N
            BY <1>4, <5>2
          <6> QED BY <5>1, <6>1 DEF At
        <5>3. CASE i # N
          <6>1. i \in 1..N - 1 /\ i + 1 \in 1..N /\ ~(i < i)
            BY <1>4, <5>3
          <6> QED BY <1>3, <5>1, <6>1 DEF At
        <5> QED BY <5>2, <5>3
      <4> QED BY <2>2, <3>1, <3>2, <3>3, <4>1
    <3>4. CASE j # i - 1
      <4>1. j + 1 < i /\ j + 1 \in 1..N - 1 /\ j + 1 \in 1..N
        BY <1>4, <2>3, <3>4
      <4>2. At(z, N - 1, t, j + 1) = At(s, N, t, j + 1)
        BY <1>3, <4>1 DEF At
      <4> QED BY <2>2, <3>1, <3>2, <3>4, <4>2
    <3> QED BY <3>3, <3>4
  <2>4. CASE j >= i
    <3>1. /\ j \in 1..N - 1 /\ ~(j < i) /\ j + 1 \in 0..N /\ j + 1 \in 1..N /\ j + 1 # i /\ j + 1 # i - 1
          /\ (j + 1) + 1 = j + 2
      BY <1>4, <2>4
    <3>2. At(z, N - 1, t, j) = At(s, N, t, j + 1)
      BY <1>3, <3>1 DEF At
    <3>3. r[At(z, N - 1, t, j)].flink = At(s, N, t, j + 2)
      BY <2>2, <3>1, <3>2
    <3>4. At(z, N - 1, t, j + 1) = At(s, N, t, j + 2)
      <4>1. CASE j = N - 1
        <5>1. j + 1 \notin 1..N - 1 /\ j + 2 \notin 1..N
          BY <1>4, <4>1
        <5> QED BY <5>1 DEF At
      <4>2. CASE j # N - 1
        <5>1. j + 1 \in 1..N - 1 /\ ~(j + 1 < i) /\ j + 2 \in 1..N /\ (j + 1) + 1 = j + 2
          BY <1>4, <2>4, <4>2
        <5>2. z[j + 1] = s[j + 2]
          BY <1>3, <5>1
        <5> QED BY <5>1, <5>2 DEF At
      <4> QED BY <4>1, <4>2
    <3> QED BY <3>3, <3>4
  <2> QED BY <1>4, <2>3, <2>4
<1>12. N - 1 \in Nat
  BY <1>4
<1>13. \A j, k \in 1..N - 1 : z[j] = z[k] => j = k
  BY <1>10
<1>14. \A j \in 0..N - 1 : r[At(z, N - 1, t, j)].flink = At(z, N - 1, t, j + 1)
  BY <1>11
<1>15. Row(r, t, z, N - 1)
  BY <1>8, <1>9, <1>12, <1>13, <1>14 DEF Row
<1> QED BY <1>2, <1>15

(* The keys keep ascending without the one leaf. *)
LEMMA NarrowAscends ==
  ASSUME NEW m, NEW r, NEW t, NEW s, NEW N, Row(m, t, s, N), Ascends(m, s, N), NEW i \in 1..N,
         \A n \in Outer(m, t) \ {s[i]} : r[n].key = m[n].key
  PROVE  Ascends(r, Narrow(s, N, i), N - 1)
<1>1. PICK z : z = Narrow(s, N, i)
  OBVIOUS
<1>2. /\ N \in Nat /\ s \in [1..N -> Outer(m, t)]
      /\ \A j, k \in 1..N : s[j] = s[k] => j = k
  BY DEF Row
<1>3. \A j \in 1..N - 1 : z[j] = IF j < i THEN s[j] ELSE s[j + 1]
  BY <1>1 DEF Narrow
<1>4. \A j \in 1..N : j # i => r[s[j]].key = m[s[j]].key
  BY <1>2
<1>5. ASSUME NEW j \in 1..N - 1, NEW k \in 1..N - 1, j <= k PROVE Compare(r[z[j]].key, r[z[k]].key) <= 0
  <2> DEFINE j0 == IF j < i THEN j ELSE j + 1
             k0 == IF k < i THEN k ELSE k + 1
  <2>1. j0 \in 1..N /\ k0 \in 1..N /\ j0 # i /\ k0 # i /\ j0 <= k0
    BY <1>2, <1>5
  <2>2. z[j] = s[j0] /\ z[k] = s[k0]
    BY <1>3
  <2> HIDE DEF j0, k0
  <2>3. Compare(m[s[j0]].key, m[s[k0]].key) <= 0
    BY <2>1 DEF Ascends
  <2>4. r[s[j0]].key = m[s[j0]].key /\ r[s[k0]].key = m[s[k0]].key
    BY <1>4, <2>1
  <2> QED BY <2>2, <2>3, <2>4
<1>6. Ascends(r, z, N - 1)
  BY <1>5 DEF Ascends
<1> QED BY <1>1, <1>6

(* The key belongs between the leaves before i and those from i on. *)
Between(m, s, N, i, key) ==
  \A j \in 1..N : /\ j < i => Compare(m[s[j]].key, key) <= 0
                  /\ j >= i => Compare(key, m[s[j]].key) <= 0

(* The keys keep ascending with one more leaf where its key belongs. *)
LEMMA WidenAscends ==
  ASSUME NEW m, NEW r, NEW t, NEW s, NEW N, Row(m, t, s, N), Ascends(m, s, N), NEW i \in 1..N + 1,
         NEW key \in Key, Between(m, s, N, i, key), NEW leaf, r[leaf].key = key,
         \A n \in Outer(m, t) : r[n].key = m[n].key
  PROVE  Ascends(r, Widen(s, N, i, leaf), N + 1)
<1>1. PICK z : z = Widen(s, N, i, leaf)
  OBVIOUS
<1>2. N \in Nat /\ s \in [1..N -> Outer(m, t)]
  BY DEF Row
<1>3. \A j \in 1..N + 1 : z[j] = IF j < i THEN s[j] ELSE IF j = i THEN leaf ELSE s[j - 1]
  BY <1>1 DEF Widen
<1>4. \A j \in 1..N : r[s[j]].key = m[s[j]].key
  BY <1>2
<1>5. Compare(key, key) <= 0
  BY ComparisonAssumption
<1>6. ASSUME NEW j \in 1..N + 1, NEW k \in 1..N + 1, j <= k PROVE Compare(r[z[j]].key, r[z[k]].key) <= 0
  <2>1. i \in Int /\ j \in Int /\ k \in Int /\ N \in Int
    BY <1>2
  <2>2. /\ j < i => j \in 1..N /\ z[j] = s[j]
        /\ j > i => j - 1 \in 1..N /\ j - 1 >= i /\ z[j] = s[j - 1]
        /\ j = i => z[j] = leaf
    BY <1>3, <2>1
  <2>3. /\ k < i => k \in 1..N /\ z[k] = s[k]
        /\ k > i => k - 1 \in 1..N /\ k - 1 >= i /\ z[k] = s[k - 1]
        /\ k = i => z[k] = leaf
    BY <1>3, <2>1
  <2>4. CASE j = i /\ k = i
    BY <1>5, <2>2, <2>3, <2>4
  <2>5. CASE j = i /\ k > i
    <3>1. Compare(key, m[s[k - 1]].key) <= 0
      BY <2>3, <2>5 DEF Between
    <3>2. r[s[k - 1]].key = m[s[k - 1]].key
      BY <1>4, <2>3, <2>5
    <3> QED BY <2>2, <2>3, <2>5, <3>1, <3>2
  <2>6. CASE j < i /\ k = i
    <3>1. Compare(m[s[j]].key, key) <= 0
      BY <2>2, <2>6 DEF Between
    <3>2. r[s[j]].key = m[s[j]].key
      BY <1>4, <2>2, <2>6
    <3> QED BY <2>2, <2>3, <2>6, <3>1, <3>2
  <2>7. CASE j # i /\ k # i
    <3> DEFINE j0 == IF j < i THEN j ELSE j - 1
               k0 == IF k < i THEN k ELSE k - 1
    <3>1. j0 \in 1..N /\ k0 \in 1..N /\ j0 <= k0
      BY <1>6, <2>1, <2>2, <2>3, <2>7
    <3>2. z[j] = s[j0] /\ z[k] = s[k0]
      BY <2>1, <2>2, <2>3, <2>7
    <3> HIDE DEF j0, k0
    <3>3. Compare(m[s[j0]].key, m[s[k0]].key) <= 0
      BY <3>1 DEF Ascends
    <3>4. r[s[j0]].key = m[s[j0]].key /\ r[s[k0]].key = m[s[k0]].key
      BY <1>4, <3>1
    <3> QED BY <3>2, <3>3, <3>4
  <2> QED BY <1>6, <2>1, <2>4, <2>5, <2>6, <2>7
<1>7. Ascends(r, z, N + 1)
  BY <1>6 DEF Ascends
<1> QED BY <1>1, <1>7

-----------------------------------------------------------------------------
(* What follows for a comparison that is an order. *)
LEMMA CompareFlips ==
  ASSUME NEW a \in Key, NEW b \in Key
  PROVE  /\ Compare(a, b) \in Int /\ Compare(b, a) \in Int
         /\ Compare(a, b) > 0 <=> Compare(b, a) < 0
         /\ Compare(a, b) = 0 <=> Compare(b, a) = 0
<1>1. Compare(a, b) \in Int /\ Compare(b, a) \in Int
  BY ComparisonAssumption
<1>2. Compare(a, b) < 0 <=> Compare(b, a) > 0
  BY ComparisonAssumption
<1>3. Compare(b, a) < 0 <=> Compare(a, b) > 0
  BY ComparisonAssumption
<1> QED BY <1>1, <1>2, <1>3

(* Comparisons go together. *)
LEMMA CompareJoins ==
  ASSUME NEW a \in Key, NEW b \in Key, NEW c \in Key, Compare(a, b) <= 0, Compare(b, c) <= 0
  PROVE  Compare(a, c) <= 0
BY ComparisonAssumption

(* Where rbtree_find_greater's answer stands in the row: a leaf with the    *)
(* key may go there, and if none was found there is none.                   *)
AnswerAt(m, t, s, N, key, j, i) ==
  /\ j.node = At(s, N, t, i) /\ m[j.node].blink = At(s, N, t, i - 1)
  /\ Between(m, s, N, i, key)
  /\ ~j.found => \A k \in 1..N : Compare(key, m[s[k]].key) # 0

(* In an ascending row, the neighbours of the place tell about all leaves. *)
LEMMA AnswerPlace ==
  ASSUME NEW m, NEW t, Ring(m, t), NEW s, NEW N, Row(m, t, s, N), Ascends(m, s, N),
         \A n \in Outer(m, t) : m[n].key \in Key, NEW key \in Key, NEW j, Answer(m, t, key, j)
  PROVE  \E i \in 1..N + 1 : AnswerAt(m, t, s, N, key, j, i)
<1>1. N \in Nat /\ s \in [1..N -> Outer(m, t)]
  BY DEF Row
<1>2. \A k \in 1..N : s[k] \in Outer(m, t) /\ m[s[k]].key \in Key /\ s[k] # t
  BY <1>1, HeadApart
<1>3. j.node \in Outer(m, t) \cup {t}
  BY DEF Answer
<1>4. PICK i \in 1..N + 1 : j.node = At(s, N, t, i) /\ m[j.node].blink = At(s, N, t, i - 1)
  BY <1>3, RowPlace
<1> DEFINE K(k) == m[s[k]].key
<1>5. i \in Int /\ N \in Int /\ 1 <= i /\ i <= N + 1
  BY <1>1
<1>6. i <= N => i \in 1..N /\ j.node = s[i] /\ j.node # t
  BY <1>2, <1>4, <1>5 DEF At
<1>7. i > 1 => i - 1 \in 1..N /\ m[j.node].blink = s[i - 1] /\ m[j.node].blink # t
  BY <1>2, <1>4, <1>5 DEF At
<1>8. \A k \in 1..N : K(k) \in Key
  BY <1>2
<1>9. \A k, l \in 1..N : k <= l => Compare(K(k), K(l)) <= 0
  BY DEF Ascends
<1> HIDE DEF K
<1>10. CASE j.found
  <2>1. j.node \in Outer(m, t) /\ Compare(key, m[j.node].key) = 0 /\ j.node # t
    BY <1>10, HeadApart DEF Answer
  <2>2. i \in 1..N
    BY <1>4, <1>5, <2>1 DEF At
  <2>3. Compare(key, K(i)) = 0 /\ Compare(K(i), key) = 0
    <3>1. j.node = s[i]
      BY <1>4, <2>2 DEF At
    <3>2. Compare(key, K(i)) = 0
      BY <2>1, <3>1 DEF K
    <3> QED BY <1>8, <2>2, <3>2, CompareFlips
  <2>4. ASSUME NEW k \in 1..N, k < i PROVE Compare(K(k), key) <= 0
    <3>1. Compare(K(k), K(i)) <= 0
      BY <1>9, <2>2, <2>4
    <3>2. Compare(K(i), key) <= 0
      BY <2>3
    <3> QED BY <1>8, <2>2, <3>1, <3>2, CompareJoins
  <2>5. ASSUME NEW k \in 1..N, k >= i PROVE Compare(key, K(k)) <= 0
    <3>1. Compare(K(i), K(k)) <= 0
      BY <1>9, <2>2, <2>5
    <3>2. Compare(key, K(i)) <= 0
      BY <2>3
    <3> QED BY <1>8, <2>2, <3>1, <3>2, CompareJoins
  <2>6. Between(m, s, N, i, key)
    BY <2>4, <2>5 DEF Between, K
  <2> QED BY <1>4, <1>10, <2>6 DEF AnswerAt
<1>11. CASE ~j.found
  <2>1. i <= N => Compare(key, K(i)) < 0
    BY <1>6, <1>11 DEF Answer, K
  <2>2. i > 1 => Compare(key, K(i - 1)) > 0
    BY <1>7, <1>11 DEF Answer, K
  <2>3. ASSUME NEW k \in 1..N, k < i PROVE Compare(K(k), key) < 0
    <3>1. i - 1 \in 1..N /\ k <= i - 1
      BY <1>5, <1>7, <2>3
    <3>2. Compare(K(k), K(i - 1)) <= 0
      BY <1>9, <3>1
    <3>3. Compare(key, K(i - 1)) > 0
      BY <1>5, <2>2, <2>3
    <3>4. ~(Compare(key, K(k)) <= 0)
      <4>1. ASSUME Compare(key, K(k)) <= 0 PROVE FALSE
        <5>1. Compare(key, K(i - 1)) <= 0
          BY <1>8, <3>1, <3>2, <4>1, CompareJoins
        <5>2. Compare(key, K(i - 1)) \in Int
          BY <1>8, <3>1, CompareFlips
        <5> QED BY <3>3, <5>1, <5>2
      <4> QED BY <4>1
    <3>5. Compare(key, K(k)) \in Int /\ (Compare(key, K(k)) > 0 <=> Compare(K(k), key) < 0)
      BY <1>8, CompareFlips
    <3> QED BY <3>4, <3>5
  <2>4. ASSUME NEW k \in 1..N, k >= i PROVE Compare(key, K(k)) < 0
    <3>1. i \in 1..N
      BY <1>5, <2>4
    <3>2. Compare(K(i), K(k)) <= 0
      BY <1>9, <2>4, <3>1
    <3>3. Compare(key, K(i)) < 0 /\ Compare(key, K(i)) \in Int
      BY <1>8, <2>1, <3>1, CompareFlips
    <3>4. ~(Compare(K(k), key) <= 0)
      <4>1. ASSUME Compare(K(k), key) <= 0 PROVE FALSE
        <5>1. Compare(K(i), key) <= 0
          BY <1>8, <3>1, <3>2, <4>1, CompareJoins
        <5>2. Compare(K(i), key) > 0
          BY <1>8, <3>1, <3>3, CompareFlips
        <5>3. Compare(K(i), key) \in Int
          BY <1>8, <3>1, CompareFlips
        <5> QED BY <5>1, <5>2, <5>3
      <4> QED BY <4>1
    <3>5. Compare(K(k), key) \in Int /\ (Compare(K(k), key) > 0 <=> Compare(key, K(k)) < 0)
      BY <1>8, CompareFlips
    <3> QED BY <3>4, <3>5
  <2>5. \A k \in 1..N : Compare(K(k), key) \in Int /\ Compare(key, K(k)) \in Int
    BY <1>8, CompareFlips
  <2>6. Between(m, s, N, i, key)
    <3>1. \A k \in 1..N : /\ k < i => Compare(K(k), key) <= 0
                          /\ k >= i => Compare(key, K(k)) <= 0
      BY <2>3, <2>4, <2>5
    <3> QED BY <3>1 DEF Between, K
  <2>7. ASSUME NEW k \in 1..N PROVE Compare(key, K(k)) # 0
    <3>1. CASE k < i
      <4>1. Compare(K(k), key) < 0
        BY <2>3, <3>1
      <4>2. Compare(K(k), key) # 0
        BY <2>5, <4>1
      <4> QED BY <1>8, <4>2, CompareFlips
    <3>2. CASE k >= i
      BY <2>4, <2>5, <3>2
    <3> QED BY <1>5, <3>1, <3>2
  <2> QED BY <1>4, <2>6, <2>7 DEF AnswerAt, K
<1> QED BY <1>10, <1>11

-----------------------------------------------------------------------------
(* The leaves in the order of the list, which is that of their keys. *)
SortedRow(m, t, s, N) == Row(m, t, s, N) /\ Ascends(m, s, N)

(* Their keys and values. *)
Pairs(m, s, N) == [i \in 1..N |-> <<m[s[i]].key, m[s[i]].val>>]

(* One pair more, in its place, or none. *)
PutIn(m, r, t, s, N, key, val) ==
  \/ SortedRow(r, t, s, N) /\ Pairs(r, s, N) = Pairs(m, s, N)
  \/ \E i \in 1..N + 1 : \E leaf :
       /\ SortedRow(r, t, Widen(s, N, i, leaf), N + 1)
       /\ Pairs(r, Widen(s, N, i, leaf), N + 1) = Widen(Pairs(m, s, N), N, i, <<key, val>>)

(* One pair less. *)
TakenOut(m, r, t, s, N) ==
  \E i \in 1..N :
    /\ SortedRow(r, t, Narrow(s, N, i), N - 1)
    /\ Pairs(r, Narrow(s, N, i), N - 1) = Narrow(Pairs(m, s, N), N, i)

(* The leaves in S keep their keys and values. *)
Kept(m, r, S) == \A n \in S : r[n].key = m[n].key /\ r[n].val = m[n].val

(* The pairs of a row with one leaf more are those of the old one and one more. *)
PairsGrow(m, r, s, N, i, leaf) ==
  Pairs(r, Widen(s, N, i, leaf), N + 1) = Widen(Pairs(m, s, N), N, i, <<r[leaf].key, r[leaf].val>>)

(* The pairs of a wider row. *)
LEMMA PairsWiden ==
  ASSUME NEW m, NEW r, NEW t, NEW s, NEW N, Row(m, t, s, N), NEW i \in 1..N + 1, NEW leaf,
         Kept(m, r, Outer(m, t))
  PROVE  PairsGrow(m, r, s, N, i, leaf)
<1>1. N \in Nat /\ s \in [1..N -> Outer(m, t)]
  BY DEF Row
<1>2. PICK z : z = Widen(s, N, i, leaf)
  OBVIOUS
<1>3. PICK p : p = Pairs(m, s, N)
  OBVIOUS
<1>4. PICK x : x = <<r[leaf].key, r[leaf].val>>
  OBVIOUS
<1>5. \A j \in 1..N + 1 : z[j] = IF j < i THEN s[j] ELSE IF j = i THEN leaf ELSE s[j - 1]
  BY <1>2 DEF Widen
<1>6. \A j \in 1..N : p[j] = <<r[s[j]].key, r[s[j]].val>>
  BY <1>1, <1>3 DEF Pairs, Kept
<1>7. ASSUME NEW j \in 1..N + 1
      PROVE  <<r[z[j]].key, r[z[j]].val>> = IF j < i THEN p[j] ELSE IF j = i THEN x ELSE p[j - 1]
  <2>1. i \in Int /\ j \in Int /\ N \in Int
    BY <1>1
  <2>2. CASE j < i
    <3>1. j \in 1..N /\ z[j] = s[j]
      BY <1>5, <2>1, <2>2
    <3> QED BY <1>6, <2>2, <3>1
  <2>3. CASE j = i
    <3>1. z[j] = leaf
      BY <1>5, <2>1, <2>3
    <3> QED BY <1>4, <2>1, <2>3, <3>1
  <2>4. CASE j > i
    <3>1. j - 1 \in 1..N /\ z[j] = s[j - 1] /\ ~(j < i) /\ j # i
      BY <1>5, <2>1, <2>4
    <3> QED BY <1>6, <3>1
  <2> QED BY <2>1, <2>2, <2>3, <2>4
<1>8. Pairs(r, z, N + 1) = [j \in 1..N + 1 |-> IF j < i THEN p[j] ELSE IF j = i THEN x ELSE p[j - 1]]
  BY <1>7 DEF Pairs
<1> QED BY <1>2, <1>3, <1>4, <1>8 DEF Widen, PairsGrow

(* The pairs of a narrower row. *)
LEMMA PairsNarrow ==
  ASSUME NEW m, NEW r, NEW t, NEW s, NEW N, Row(m, t, s, N), NEW i \in 1..N,
         \A n \in Outer(m, t) \ {s[i]} : r[n].key = m[n].key /\ r[n].val = m[n].val
  PROVE  Pairs(r, Narrow(s, N, i), N - 1) = Narrow(Pairs(m, s, N), N, i)
<1>1. N \in Nat /\ s \in [1..N -> Outer(m, t)] /\ \A j, k \in 1..N : s[j] = s[k] => j = k
  BY DEF Row
<1>2. PICK z : z = Narrow(s, N, i)
  OBVIOUS
<1>3. PICK p : p = Pairs(m, s, N)
  OBVIOUS
<1>5. \A j \in 1..N - 1 : z[j] = IF j < i THEN s[j] ELSE s[j + 1]
  BY <1>2 DEF Narrow
<1>6. \A j \in 1..N : j # i => p[j] = <<r[s[j]].key, r[s[j]].val>>
  <2>1. \A j \in 1..N : j # i => s[j] \in Outer(m, t) \ {s[i]}
    BY <1>1
  <2> QED BY <1>1, <1>3, <2>1 DEF Pairs
<1>7. ASSUME NEW j \in 1..N - 1
      PROVE  <<r[z[j]].key, r[z[j]].val>> = IF j < i THEN p[j] ELSE p[j + 1]
  <2>1. i \in Int /\ j \in Int /\ N \in Int
    BY <1>1
  <2>2. CASE j < i
    <3>1. j \in 1..N /\ z[j] = s[j] /\ j # i
      BY <1>5, <2>1, <2>2
    <3> QED BY <1>6, <2>2, <3>1
  <2>4. CASE ~(j < i)
    <3>1. j + 1 \in 1..N /\ z[j] = s[j + 1] /\ j + 1 # i
      BY <1>5, <2>1, <2>4
    <3> QED BY <1>6, <2>4, <3>1
  <2> QED BY <2>2, <2>4
<1>8. Pairs(r, z, N - 1) = [j \in 1..N - 1 |-> IF j < i THEN p[j] ELSE p[j + 1]]
  BY <1>7 DEF Pairs
<1> QED BY <1>2, <1>3, <1>8 DEF Narrow

(* A memory with the same nodes has the same row. *)
LEMMA SameRow ==
  ASSUME NEW m, NEW r, NEW t, t \in DOMAIN m, NEW s, NEW N, SortedRow(m, t, s, N),
         DOMAIN r = DOMAIN m, \A k \in DOMAIN m : r[k] = m[k]
  PROVE  SortedRow(r, t, s, N) /\ Pairs(r, s, N) = Pairs(m, s, N)
<1>1. Row(m, t, s, N) /\ Ascends(m, s, N) /\ N \in Nat /\ s \in [1..N -> Outer(m, t)]
  BY DEF SortedRow, Row
<1>2. Outer(r, t) = Outer(m, t) /\ \A n \in Outer(m, t) \cup {t} : r[n] = m[n]
  BY DEF Outer, Below
<1>3. \A i \in 0..N : At(s, N, t, i) \in Outer(m, t) \cup {t}
  BY <1>1, AtOnce
<1>4. Row(r, t, s, N)
  BY <1>1, <1>2, <1>3 DEF Row
<1>5. \A i \in 1..N : r[s[i]] = m[s[i]]
  BY <1>1, <1>2
<1>6. Ascends(r, s, N)
  BY <1>1, <1>5 DEF Ascends
<1>7. Pairs(r, s, N) = Pairs(m, s, N)
  BY <1>5 DEF Pairs
<1> QED BY <1>4, <1>6, <1>7 DEF SortedRow

(* What rbtree_insert and rbtree_insert_unique do to the row. *)
LEMMA InsertPuts ==
  ASSUME NEW m, NEW t, Good(m, t), Addr \subseteq Nat, IsFiniteSet(Addr),
         NEW s, NEW N, SortedRow(m, t, s, N), NEW key \in Key, NEW val \in Val,
         NEW got \in 0..2, got <= Cardinality(Addr \ DOMAIN m),
         NEW n, n = rbtree_find_greater(m, t, key).node,
         NEW r, r = rbtree_insert_b(m, n, key, val, got)
  PROVE  PutIn(m, r, t, s, N, key, val)
<1>1. PICK j : j = rbtree_find_greater(m, t, key)
  OBVIOUS
<1>2. Shape(m, t, {}) /\ Ring(m, t) /\ t \in DOMAIN m /\ \A k \in Outer(m, t) : m[k].key \in Key
  BY DEF Good, Sound, Shape, Fine
<1>3. Row(m, t, s, N) /\ Ascends(m, s, N) /\ N \in Nat
  BY DEF SortedRow, Row
<1>4. Answer(m, t, key, j)
  BY <1>1, <1>2, FindAnswers
<1>5. PICK i \in 1..N + 1 : AnswerAt(m, t, s, N, key, j, i)
  BY <1>2, <1>3, <1>4, AnswerPlace
<1>6. n = j.node /\ n = At(s, N, t, i) /\ m[n].blink = At(s, N, t, i - 1) /\ Between(m, s, N, i, key)
  BY <1>1, <1>5 DEF AnswerAt
<1>7. n \in Outer(m, t) \cup {t}
  BY <1>1, <1>2, FindsGreater
<1>8. InsertedWell(m, t, n, key, val, rbtree_insert_b(m, n, key, val, got))
  BY <1>7, InsertGood
<1>9. Grown(m, r, t, n, key, val)
  BY <1>8 DEF InsertedWell
<1>10. CASE DOMAIN r = DOMAIN m /\ \A k \in DOMAIN m : r[k] = m[k]
  BY <1>2, <1>10, SameRow DEF PutIn
<1>11. ASSUME NEW leaf, leaf \notin DOMAIN m, Outer(r, t) = Outer(m, t) \cup {leaf},
              r[leaf].key = key, r[leaf].val = val,
              \A k \in Outer(m, t) : r[k].key = m[k].key /\ r[k].val = m[k].val,
              Enlisted(m, r, t, leaf, n)
       PROVE  PutIn(m, r, t, s, N, key, val)
  <2>1. leaf \notin Outer(m, t) /\ leaf # t
    BY <1>2, <1>11 DEF Outer, Below
  <2>2. Row(r, t, Widen(s, N, i, leaf), N + 1)
    BY <1>3, <1>6, <1>11, <2>1, RowGrows
  <2>3. Ascends(r, Widen(s, N, i, leaf), N + 1)
    BY <1>3, <1>6, <1>11, WidenAscends
  <2>4. Pairs(r, Widen(s, N, i, leaf), N + 1) = Widen(Pairs(m, s, N), N, i, <<r[leaf].key, r[leaf].val>>)
    <3>1. Kept(m, r, Outer(m, t))
      BY <1>11 DEF Kept
    <3>2. Row(m, t, s, N)
      BY <1>3
    <3>3. PairsGrow(m, r, s, N, i, leaf)
      BY <3>1, <3>2, PairsWiden
    <3> QED BY <3>3 DEF PairsGrow
  <2> QED BY <1>11, <2>2, <2>3, <2>4 DEF PutIn, SortedRow
<1> QED BY <1>9, <1>10, <1>11 DEF Grown

(* What rbtree_delete_node does to it. *)
LEMMA DeleteTakes ==
  ASSUME NEW m, NEW t, Good(m, t), NEW s, NEW N, SortedRow(m, t, s, N), NEW node \in Outer(m, t),
         NEW r, r = rbtree_delete_node(m, node).mem
  PROVE  TakenOut(m, r, t, s, N)
<1>1. Ring(m, t) /\ Row(m, t, s, N) /\ Ascends(m, s, N)
  BY DEF Good, Sound, Shape, SortedRow
<1>2. DeletedWell(m, t, node, rbtree_delete_node(m, node))
  BY DeleteGood
<1>3. /\ Outer(r, t) = Outer(m, t) \ {node} /\ Dropped(m, r, t, node)
      /\ \A n \in Outer(m, t) \ {node} : r[n].key = m[n].key /\ r[n].val = m[n].val
  BY <1>2 DEF DeletedWell
<1>4. PICK i \in 1..N : node = s[i]
  BY <1>1 DEF Row
<1>5. Row(r, t, Narrow(s, N, i), N - 1)
  BY <1>1, <1>3, <1>4, RowShrinks
<1>6. Ascends(r, Narrow(s, N, i), N - 1)
  BY <1>1, <1>3, <1>4, NarrowAscends
<1>7. Pairs(r, Narrow(s, N, i), N - 1) = Narrow(Pairs(m, s, N), N, i)
  BY <1>1, <1>3, <1>4, PairsNarrow
<1> QED BY <1>5, <1>6, <1>7 DEF TakenOut, SortedRow

(* A tree without leaves has an empty row. *)
LEMMA EmptyRow ==
  ASSUME NEW m, NEW t, Ring(m, t), Outer(m, t) = {}
  PROVE  SortedRow(m, t, [i \in 1..0 |-> t], 0)
<1>1. PICK s : s = [i \in 1..0 |-> t]
  OBVIOUS
<1>2. 1..0 = {}
  OBVIOUS
<1>3. s \in [1..0 -> {}]
  BY <1>1, <1>2
<1>4. m[t].flink = t
  BY DEF Ring
<1>5. \A i \in 0..0 : m[At(s, 0, t, i)].flink = At(s, 0, t, i + 1)
  <2>1. \A i : At(s, 0, t, i) = t
    BY <1>2 DEF At
  <2> QED BY <1>4, <2>1
<1>6. Row(m, t, s, 0)
  BY <1>2, <1>3, <1>5 DEF Row
<1>7. Ascends(m, s, 0)
  BY <1>2 DEF Ascends
<1> QED BY <1>1, <1>6, <1>7 DEF SortedRow

-----------------------------------------------------------------------------
(* The inductive invariant with the order: there is a sorted row of leaves. *)
SortInv == TreeInv /\ (tree # NULL => \E s, N : SortedRow(mem, tree, s, N))

(* No leaves. *)
NoRow(m, t) == SortedRow(m, t, [i \in 1..0 |-> t], 0)

(* The head alone has no leaves. *)
LEMMA HeadAlone ==
  ASSUME NEW m, NEW t, Good(m, t), DOMAIN m = {t}
  PROVE  NoRow(m, t)
<1>1. Ring(m, t)
  BY DEF Good, Sound, Shape
<1>2. Outer(m, t) = {}
  BY DEF Outer, Below
<1> QED BY <1>1, <1>2, EmptyRow DEF NoRow

(* make_rbtree makes a tree without leaves, or none. *)
LEMMA CreateEmpty ==
  ASSUME ConstantsAssumption, TreeInv, Create
  PROVE  (mem' = mem /\ tree' = tree) \/ (tree' # NULL /\ NoRow(mem', tree'))
<1>1. tree = NULL /\ DOMAIN mem = {}
  BY DEF Create, TreeInv
<1>2. PICK head : head = FreshAddr(mem)
  OBVIOUS
<1>3. PICK g \in Gotten, garbage \in HeadVals :
        IF g = 0 THEN UNCHANGED <<mem, tree>>
        ELSE /\ tree' = head
             /\ mem' = [mem_alloc(mem, head) EXCEPT
                          ![head].flink = head, ![head].blink = head,
                          ![head].parent = head, ![head].key = 0,
                          ![head].head = TRUE, ![head].val = garbage]
  BY <1>2 DEF Create
<1>4. CASE g = 0
  BY <1>3, <1>4
<1>5. CASE g # 0
  <2>1. tree' = head
    BY <1>3, <1>5
  <2>2. DOMAIN mem_alloc(mem, head) = {head}
    BY <1>1 DEF mem_alloc
  <2>3. PICK r : r = mem'
    OBVIOUS
  <2>4. DOMAIN r = {head}
    BY <1>3, <1>5, <2>2, <2>3
  <2>5. TreeInv'
    BY CreateKeeps
  <2>6. head # NULL
    BY <2>1, <2>3, <2>4, <2>5 DEF TreeInv
  <2>7. Good(r, head)
    BY <2>1, <2>3, <2>5, <2>6 DEF TreeInv
  <2>8. NoRow(r, head)
    BY <2>4, <2>7, HeadAlone
  <2> QED BY <2>1, <2>3, <2>6, <2>8
<1> QED BY <1>4, <1>5

(* An insertion puts one pair into the row, or none. *)
LEMMA InsertRow ==
  ASSUME ConstantsAssumption, TreeInv, NEW key \in Key, NEW val \in Val,
         rbtree_insert(key, val) \/ rbtree_insert_unique(key, val),
         NEW s, NEW N, SortedRow(mem, tree, s, N)
  PROVE  tree # NULL /\ tree' = tree /\ PutIn(mem, mem', tree, s, N, key, val)
<1>1. tree # NULL /\ tree' = tree /\ Good(mem, tree)
  BY DEF TreeInv, rbtree_insert, rbtree_insert_unique
<1>2. PICK n : n = rbtree_find_greater(mem, tree, key).node
  OBVIOUS
<1>3. \/ mem' = mem
      \/ \E got \in Gotten : mem' = rbtree_insert_b(mem, n, key, val, got)
  BY <1>2 DEF rbtree_insert, rbtree_insert_unique
<1>4. Addr \subseteq Nat /\ IsFiniteSet(Addr)
  BY DEF ConstantsAssumption
<1>5. PICK r : r = mem'
  OBVIOUS
<1>6. CASE mem' = mem
  <2>1. Pairs(mem, s, N) = Pairs(mem, s, N)
    OBVIOUS
  <2> QED BY <1>1, <1>6, <2>1 DEF PutIn
<1>7. ASSUME NEW got \in Gotten, mem' = rbtree_insert_b(mem, n, key, val, got)
      PROVE  PutIn(mem, r, tree, s, N, key, val)
  <2>1. got \in 0..2 /\ got <= Cardinality(Addr \ DOMAIN mem)
    BY DEF Gotten
  <2>2. r = rbtree_insert_b(mem, n, key, val, got)
    BY <1>5, <1>7
  <2> QED BY <1>1, <1>2, <1>4, <2>1, <2>2, InsertPuts
<1> QED BY <1>1, <1>3, <1>5, <1>6, <1>7

(* A deletion takes one pair out of it. *)
LEMMA DeleteRow ==
  ASSUME TreeInv, NEW node \in Leaves, Delete(node),
         NEW s, NEW N, SortedRow(mem, tree, s, N)
  PROVE  tree # NULL /\ tree' = tree /\ TakenOut(mem, mem', tree, s, N)
<1>1. tree # NULL /\ Good(mem, tree) /\ tree' = tree
  BY DEF TreeInv, Leaves, Delete
<1>2. node \in Outer(mem, tree)
  <2>1. Fine(mem, tree)
    BY <1>1 DEF Good, Sound, Shape
  <2> QED BY <2>1, NodesAre
<1>3. PICK r : r = mem'
  OBVIOUS
<1>4. r = rbtree_delete_node(mem, node).mem
  BY <1>3 DEF Delete
<1>5. TakenOut(mem, r, tree, s, N)
  BY <1>1, <1>2, <1>4, DeleteTakes
<1> QED BY <1>1, <1>3, <1>5

(* rbtree_free leaves nothing in it. *)
LEMMA FreeEmpty ==
  ASSUME TreeInv, Free
  PROVE  tree # NULL /\ tree' = tree /\ NoRow(mem', tree)
<1>1. tree # NULL /\ Good(mem, tree) /\ tree' = tree
  BY DEF TreeInv, Free
<1>2. FreedWell(mem, tree, rbtree_free(mem, tree))
  BY <1>1, FreeGood
<1>3. PICK r : r = mem'
  OBVIOUS
<1>4. r = rbtree_free(mem, tree).mem
  BY <1>3 DEF Free
<1>5. Good(r, tree) /\ DOMAIN r = {tree}
  BY <1>2, <1>4 DEF FreedWell
<1>6. NoRow(r, tree)
  BY <1>5, HeadAlone
<1> QED BY <1>1, <1>3, <1>6

(* There is a row after a step of each kind. *)
LEMMA PutInRow ==
  ASSUME NEW m, NEW r, NEW t, NEW s, NEW N, NEW key, NEW val, PutIn(m, r, t, s, N, key, val)
  PROVE  \E z, M : SortedRow(r, t, z, M)
BY DEF PutIn

(* Every step keeps the row of leaves sorted. *)
LEMMA SortStep ==
  ASSUME SortInv, [Next]_vars
  PROVE  SortInv'
<1> USE ConstantsAssumption
<1>1. TreeInv
  BY DEF SortInv
<1>2. TreeInv'
  BY <1>1, TreeStep
<1>3. ASSUME NEW r, r = mem', NEW t, t = tree', t # NULL PROVE \E s, N : SortedRow(r, t, s, N)
  <2>1. CASE Create
    <3>1. (mem' = mem /\ tree' = tree) \/ NoRow(mem', tree')
      BY <1>1, <2>1, CreateEmpty
    <3>2. CASE mem' = mem /\ tree' = tree
      BY <1>3, <3>2 DEF SortInv
    <3>3. CASE NoRow(mem', tree')
      <4>1. NoRow(r, t)
        BY <1>3, <3>3
      <4> QED BY <4>1 DEF NoRow
    <3> QED BY <3>1, <3>2, <3>3
  <2>2. CASE Free
    <3>1. tree' = tree /\ NoRow(mem', tree)
      BY <1>1, <2>2, FreeEmpty
    <3>2. NoRow(r, t)
      BY <1>3, <3>1
    <3> QED BY <3>2 DEF NoRow
  <2>3. CASE rbtree_destroy
    BY <1>3, <2>3 DEF rbtree_destroy
  <2>4. ASSUME NEW key \in Key, NEW val \in Val,
               rbtree_insert(key, val) \/ rbtree_insert_unique(key, val)
        PROVE  \E s, N : SortedRow(r, t, s, N)
    <3>1. tree # NULL
      BY <2>4 DEF rbtree_insert, rbtree_insert_unique
    <3>2. PICK s, N : SortedRow(mem, tree, s, N)
      BY <3>1 DEF SortInv
    <3>3. tree' = tree /\ PutIn(mem, mem', tree, s, N, key, val)
      BY <1>1, <2>4, <3>2, InsertRow
    <3>4. PutIn(mem, r, t, s, N, key, val)
      BY <1>3, <3>3
    <3> QED BY <3>4, PutInRow
  <2>5. ASSUME NEW node \in Leaves, Delete(node) PROVE \E s, N : SortedRow(r, t, s, N)
    <3>1. tree # NULL
      BY <1>1 DEF TreeInv, Leaves
    <3>2. PICK s, N : SortedRow(mem, tree, s, N)
      BY <3>1 DEF SortInv
    <3>3. tree' = tree /\ TakenOut(mem, mem', tree, s, N)
      BY <1>1, <2>5, <3>2, DeleteRow
    <3>4. TakenOut(mem, r, t, s, N)
      BY <1>3, <3>3
    <3> QED BY <3>4 DEF TakenOut
  <2>6. CASE UNCHANGED vars
    BY <1>3, <2>6 DEF SortInv, vars
  <2> QED BY <2>1, <2>2, <2>3, <2>4, <2>5, <2>6 DEF Next
<1>4. tree' # NULL => \E s, N : SortedRow(mem', tree', s, N)
  BY <1>3
<1> QED BY <1>2, <1>4 DEF SortInv

(* In every reachable state the list is sorted. *)
THEOREM SortInvariance == Spec => []SortInv
<1>1. Init => SortInv
  BY DEF Init, TreeInv, SortInv
<1> QED BY <1>1, SortStep, PTL DEF Spec

(* A sorted tree finds what it holds. *)
LEMMA RowFinds ==
  ASSUME SortInv
  PROVE  FindCorrect
<1>1. SUFFICES ASSUME tree # NULL, NEW key \in Key
               PROVE  LET n == rbtree_find(mem, tree, key)
                      IN IF \E o \in Leaves : Compare(key, mem[o].key) = 0
                           THEN n \in Leaves /\ Compare(key, mem[n].key) = 0
                           ELSE n = tree
  BY DEF FindCorrect
<1>2. Good(mem, tree) /\ Shape(mem, tree, {}) /\ Ring(mem, tree)
  BY <1>1 DEF SortInv, TreeInv, Good, Sound, Shape
<1>3. Leaves = Outer(mem, tree) /\ \A k \in Outer(mem, tree) : mem[k].key \in Key
  BY <1>2, NodesAre DEF Good, Shape
<1>4. PICK s, N : SortedRow(mem, tree, s, N)
  BY <1>1 DEF SortInv
<1>5. Row(mem, tree, s, N) /\ Ascends(mem, s, N)
  BY <1>4 DEF SortedRow
<1>6. PICK j : j = rbtree_find_greater(mem, tree, key)
  OBVIOUS
<1>7. Answer(mem, tree, key, j)
  BY <1>2, <1>3, <1>6, FindAnswers
<1>8. PICK i \in 1..N + 1 : AnswerAt(mem, tree, s, N, key, j, i)
  BY <1>2, <1>3, <1>5, <1>7, AnswerPlace
<1>9. rbtree_find(mem, tree, key) = IF j.found THEN j.node ELSE tree
  BY <1>6 DEF rbtree_find
<1>10. CASE j.found
  <2>1. j.node \in Leaves /\ Compare(key, mem[j.node].key) = 0
    BY <1>3, <1>7, <1>10 DEF Answer
  <2> QED BY <1>9, <1>10, <2>1
<1>11. CASE ~j.found
  <2>1. \A o \in Outer(mem, tree) : Compare(key, mem[o].key) # 0
    BY <1>5, <1>8, <1>11 DEF AnswerAt, Row
  <2> QED BY <1>3, <1>9, <1>11, <2>1
<1> QED BY <1>10, <1>11

(* rbtree_find finds a leaf with the key when and only when there is one.  *)
THEOREM FindsEveryKey == Spec => []FindCorrect
BY SortInvariance, RowFinds, PTL

-----------------------------------------------------------------------------
(* What is left of N pairs from the i-th on. *)
Rest(p, N, i) == [k \in 1..N - i + 1 |-> p[i + k - 1]]

(* The first pair left and the rest. *)
LEMMA RestOnce ==
  ASSUME NEW P, NEW N \in Nat, NEW p \in [1..N -> P], NEW i \in 1..N
  PROVE  Rest(p, N, i) = <<p[i]>> \o Rest(p, N, i + 1)
<1>1. i \in Int /\ N \in Int /\ N - i + 1 \in Nat /\ N - (i + 1) + 1 = N - i /\ N - i \in Nat
  OBVIOUS
<1>2. \A k \in 1..N - i + 1 : i + k - 1 \in 1..N
  OBVIOUS
<1>3. \A k \in 1..N - i : (i + 1) + k - 1 \in 1..N /\ (i + 1) + k - 1 = i + (k + 1) - 1
  OBVIOUS
<1>4. Rest(p, N, i) \in Seq(P) /\ Len(Rest(p, N, i)) = N - i + 1
  BY <1>1, <1>2 DEF Rest
<1>5. PICK q : q = Rest(p, N, i + 1)
  OBVIOUS
<1>6. q = [k \in 1..N - i |-> p[(i + 1) + k - 1]]
  BY <1>1, <1>5 DEF Rest
<1>7. q \in Seq(P) /\ Len(q) = N - i
  BY <1>1, <1>3, <1>6
<1>8. PICK a : a = <<p[i]>>
  OBVIOUS
<1>9. a \in Seq(P) /\ Len(a) = 1 /\ a[1] = p[i]
  BY <1>8
<1>10. PICK b : b = a \o q
  OBVIOUS
<1>11. /\ b \in Seq(P) /\ Len(b) = 1 + (N - i)
       /\ \A k \in 1..1 + (N - i) : b[k] = IF k <= 1 THEN a[k] ELSE q[k - 1]
  <2>1. /\ b \in Seq(P) /\ Len(b) = Len(a) + Len(q)
        /\ \A k \in 1..Len(a) + Len(q) : b[k] = IF k <= Len(a) THEN a[k] ELSE q[k - Len(a)]
    BY <1>7, <1>9, <1>10, ConcatProperties
  <2> QED BY <1>7, <1>9, <2>1
<1>12. ASSUME NEW k \in 1..N - i + 1 PROVE Rest(p, N, i)[k] = b[k]
  <2>1. Rest(p, N, i)[k] = p[i + k - 1]
    BY DEF Rest
  <2>2. CASE k = 1
    BY <1>1, <1>9, <1>11, <2>1, <2>2
  <2>3. CASE k # 1
    <3>1. k - 1 \in 1..N - i /\ ~(k <= 1) /\ (i + 1) + (k - 1) - 1 = i + k - 1 /\ k \in 1..1 + (N - i)
      BY <1>1, <2>3
    <3>2. b[k] = q[k - 1]
      BY <1>11, <3>1
    <3>3. q[k - 1] = p[i + k - 1]
      BY <1>6, <3>1
    <3> QED BY <2>1, <3>2, <3>3
  <2> QED BY <2>2, <2>3
<1>13. Rest(p, N, i) = b
  BY <1>1, <1>4, <1>11, <1>12, SeqEqual
<1> QED BY <1>5, <1>8, <1>10, <1>13

(* Nothing is left after the last pair, and everything from the first on. *)
LEMMA RestEnds ==
  ASSUME NEW P, NEW N \in Nat, NEW p \in [1..N -> P]
  PROVE  Rest(p, N, N + 1) = <<>> /\ Rest(p, N, 1) = p
<1>1. N - (N + 1) + 1 = 0 /\ N - 1 + 1 = N /\ 1..0 = {}
  OBVIOUS
<1>2. Rest(p, N, N + 1) = <<>>
  <2>1. Rest(p, N, N + 1) = [k \in 1..0 |-> p[N + 1 + k - 1]]
    BY <1>1 DEF Rest
  <2>2. Rest(p, N, N + 1) \in [1..0 -> P]
    BY <1>1, <2>1
  <2>3. Rest(p, N, N + 1) \in Seq(P)
    BY <2>2, SeqDef
  <2>4. DOMAIN Rest(p, N, N + 1) = {}
    BY <1>1, <2>1
  <2>5. Len(Rest(p, N, N + 1)) = 0
    BY <1>1, <2>3, <2>4, LenProperties
  <2> QED BY <2>3, <2>5, EmptySeq
<1>3. Rest(p, N, 1) = p
  <2>1. Rest(p, N, 1) = [k \in 1..N |-> p[1 + k - 1]]
    BY <1>1 DEF Rest
  <2>2. \A k \in 1..N : 1 + k - 1 = k
    OBVIOUS
  <2>3. Rest(p, N, 1) = [k \in 1..N |-> p[k]]
    BY <2>1, <2>2
  <2> QED BY <2>3
<1> QED BY <1>2, <1>3

(* An inserted element is where Widen has it. *)
LEMMA InsertWidens ==
  ASSUME NEW P, NEW N \in Nat, NEW p \in [1..N -> P], NEW x \in P, NEW i \in 1..N + 1
  PROVE  SubSeq(p, 1, i - 1) \o <<x>> \o SubSeq(p, i, N) = Widen(p, N, i, x)
<1>1. i \in Int /\ N \in Int /\ 1 \in Int /\ i - 1 \in Int /\ 1 <= i /\ i <= N + 1
  OBVIOUS
<1>2. PICK a : a = SubSeq(p, 1, i - 1)
  OBVIOUS
<1>3. a \in Seq(P) /\ Len(a) = i - 1 /\ \A k \in 1..i - 1 : a[k] = p[k]
  <2>1. \A k \in 1..i - 1 : p[k] \in P
    BY <1>1
  <2>2. /\ a \in Seq(P) /\ Len(a) = IF 1 <= i - 1 THEN (i - 1) - 1 + 1 ELSE 0
        /\ \A k \in 1..(i - 1) - 1 + 1 : a[k] = p[1 + k - 1]
    BY <1>1, <1>2, <2>1, SubSeqProperties
  <2>3. (i - 1) - 1 + 1 = i - 1 /\ \A k \in 1..i - 1 : 1 + k - 1 = k
    BY <1>1
  <2> QED BY <1>1, <2>2, <2>3
<1>4. PICK b : b = SubSeq(p, i, N)
  OBVIOUS
<1>5. b \in Seq(P) /\ Len(b) = N - i + 1 /\ \A k \in 1..N - i + 1 : b[k] = p[i + k - 1]
  <2>1. \A k \in i..N : p[k] \in P
    BY <1>1
  <2>2. /\ b \in Seq(P) /\ Len(b) = IF i <= N THEN N - i + 1 ELSE 0
        /\ \A k \in 1..N - i + 1 : b[k] = p[i + k - 1]
    BY <1>1, <1>4, <2>1, SubSeqProperties
  <2> QED BY <1>1, <2>2
<1>6. PICK c : c = a \o <<x>>
  OBVIOUS
<1>7. /\ c \in Seq(P) /\ Len(c) = i
      /\ \A k \in 1..i : c[k] = IF k <= i - 1 THEN p[k] ELSE x
  <2>1. PICK y : y = <<x>>
    OBVIOUS
  <2>2. y \in Seq(P) /\ Len(y) = 1 /\ y[1] = x
    BY <2>1
  <2>3. /\ c \in Seq(P) /\ Len(c) = (i - 1) + 1
        /\ \A k \in 1..(i - 1) + 1 : c[k] = IF k <= i - 1 THEN a[k] ELSE y[k - (i - 1)]
    BY <1>3, <1>6, <2>1, <2>2, ConcatProperties
  <2>4. (i - 1) + 1 = i /\ \A k \in 1..i : ~(k <= i - 1) => k - (i - 1) = 1
    BY <1>1
  <2>5. \A k \in 1..i : k <= i - 1 => k \in 1..i - 1
    BY <1>1
  <2> QED BY <1>3, <2>2, <2>3, <2>4, <2>5
<1>8. PICK d : d = c \o b
  OBVIOUS
<1>9. /\ d \in Seq(P) /\ Len(d) = N + 1
      /\ \A k \in 1..N + 1 : d[k] = IF k <= i THEN c[k] ELSE b[k - i]
  <2>1. /\ d \in Seq(P) /\ Len(d) = i + (N - i + 1)
        /\ \A k \in 1..i + (N - i + 1) : d[k] = IF k <= i THEN c[k] ELSE b[k - i]
    <3>1. /\ d \in Seq(P) /\ Len(d) = Len(c) + Len(b)
          /\ \A k \in 1..Len(c) + Len(b) : d[k] = IF k <= Len(c) THEN c[k] ELSE b[k - Len(c)]
      BY <1>5, <1>7, <1>8, ConcatProperties
    <3> QED BY <1>5, <1>7, <3>1
  <2>2. i + (N - i + 1) = N + 1
    BY <1>1
  <2> QED BY <2>1, <2>2
<1>10. PICK w : w = Widen(p, N, i, x)
  OBVIOUS
<1>11. w = [k \in 1..N + 1 |-> IF k < i THEN p[k] ELSE IF k = i THEN x ELSE p[k - 1]]
  BY <1>10 DEF Widen
<1>12. ASSUME NEW k \in 1..N + 1 PROVE w[k] = d[k] /\ w[k] \in P
  <2>1. k \in Int
    OBVIOUS
  <2>2. CASE k < i
    <3>1. k \in 1..i /\ k <= i - 1 /\ k <= i /\ k \in 1..N
      BY <1>1, <2>2
    <3> QED BY <1>7, <1>9, <1>11, <2>2, <3>1
  <2>3. CASE k = i
    <3>1. k \in 1..i /\ ~(k <= i - 1) /\ k <= i /\ ~(k < i)
      BY <1>1, <2>3
    <3> QED BY <1>7, <1>9, <1>11, <2>3, <3>1
  <2>4. CASE k > i
    <3>1. ~(k <= i) /\ ~(k < i) /\ k # i /\ k - i \in 1..N - i + 1 /\ i + (k - i) - 1 = k - 1 /\ k - 1 \in 1..N
      BY <1>1, <2>4
    <3> QED BY <1>5, <1>9, <1>11, <3>1
  <2> QED BY <1>1, <2>1, <2>2, <2>3, <2>4
<1>13. w \in Seq(P) /\ Len(w) = N + 1
  <2>1. w = [k \in 1..N + 1 |-> w[k]]
    BY <1>11
  <2>2. w \in [1..N + 1 -> P] /\ N + 1 \in Nat
    BY <1>12, <2>1
  <2> QED BY <2>1, <2>2
<1>14. d = w
  BY <1>9, <1>12, <1>13, SeqEqual
<1> QED BY <1>2, <1>4, <1>6, <1>8, <1>10, <1>14

(* Narrow removes an element. *)
LEMMA RemoveNarrows ==
  ASSUME NEW P, NEW N \in Nat, NEW p \in [1..N -> P], NEW i \in 1..N
  PROVE  SubSeq(p, 1, i - 1) \o SubSeq(p, i + 1, N) = Narrow(p, N, i)
<1>1. i \in Int /\ N \in Int /\ 1 \in Int /\ i - 1 \in Int /\ i + 1 \in Int /\ 1 <= i /\ i <= N
  OBVIOUS
<1>2. PICK a : a = SubSeq(p, 1, i - 1)
  OBVIOUS
<1>3. a \in Seq(P) /\ Len(a) = i - 1 /\ \A k \in 1..i - 1 : a[k] = p[k]
  <2>1. \A k \in 1..i - 1 : p[k] \in P
    BY <1>1
  <2>2. /\ a \in Seq(P) /\ Len(a) = IF 1 <= i - 1 THEN (i - 1) - 1 + 1 ELSE 0
        /\ \A k \in 1..(i - 1) - 1 + 1 : a[k] = p[1 + k - 1]
    BY <1>1, <1>2, <2>1, SubSeqProperties
  <2>3. (i - 1) - 1 + 1 = i - 1 /\ \A k \in 1..i - 1 : 1 + k - 1 = k
    BY <1>1
  <2> QED BY <1>1, <2>2, <2>3
<1>4. PICK b : b = SubSeq(p, i + 1, N)
  OBVIOUS
<1>5. b \in Seq(P) /\ Len(b) = N - i /\ \A k \in 1..N - i : b[k] = p[i + k]
  <2>1. \A k \in i + 1..N : p[k] \in P
    BY <1>1
  <2>2. /\ b \in Seq(P) /\ Len(b) = IF i + 1 <= N THEN N - (i + 1) + 1 ELSE 0
        /\ \A k \in 1..N - (i + 1) + 1 : b[k] = p[(i + 1) + k - 1]
    BY <1>1, <1>4, <2>1, SubSeqProperties
  <2>3. N - (i + 1) + 1 = N - i /\ \A k \in 1..N - i : (i + 1) + k - 1 = i + k
    BY <1>1
  <2> QED BY <1>1, <2>2, <2>3
<1>8. PICK d : d = a \o b
  OBVIOUS
<1>9. /\ d \in Seq(P) /\ Len(d) = N - 1
      /\ \A k \in 1..N - 1 : d[k] = IF k <= i - 1 THEN a[k] ELSE b[k - (i - 1)]
  <2>1. /\ d \in Seq(P) /\ Len(d) = (i - 1) + (N - i)
        /\ \A k \in 1..(i - 1) + (N - i) : d[k] = IF k <= i - 1 THEN a[k] ELSE b[k - (i - 1)]
    <3>1. /\ d \in Seq(P) /\ Len(d) = Len(a) + Len(b)
          /\ \A k \in 1..Len(a) + Len(b) : d[k] = IF k <= Len(a) THEN a[k] ELSE b[k - Len(a)]
      BY <1>3, <1>5, <1>8, ConcatProperties
    <3> QED BY <1>3, <1>5, <3>1
  <2>2. (i - 1) + (N - i) = N - 1
    BY <1>1
  <2> QED BY <2>1, <2>2
<1>10. PICK w : w = Narrow(p, N, i)
  OBVIOUS
<1>11. w = [k \in 1..N - 1 |-> IF k < i THEN p[k] ELSE p[k + 1]]
  BY <1>10 DEF Narrow
<1>12. ASSUME NEW k \in 1..N - 1 PROVE w[k] = d[k] /\ w[k] \in P
  <2>1. k \in Int
    OBVIOUS
  <2>2. CASE k < i
    <3>1. k \in 1..i - 1 /\ k <= i - 1 /\ k \in 1..N
      BY <1>1, <2>2
    <3> QED BY <1>3, <1>9, <1>11, <2>2, <3>1
  <2>4. CASE ~(k < i)
    <3>1. ~(k <= i - 1) /\ k - (i - 1) \in 1..N - i /\ i + (k - (i - 1)) = k + 1 /\ k + 1 \in 1..N
      BY <1>1, <2>4
    <3> QED BY <1>5, <1>9, <1>11, <2>4, <3>1
  <2> QED BY <2>2, <2>4
<1>13. w \in Seq(P) /\ Len(w) = N - 1
  <2>1. w = [k \in 1..N - 1 |-> w[k]]
    BY <1>11
  <2>2. w \in [1..N - 1 -> P] /\ N - 1 \in Nat
    BY <1>1, <1>12, <2>1
  <2> QED BY <2>1, <2>2
<1>14. d = w
  BY <1>9, <1>12, <1>13, SeqEqual
<1> QED BY <1>2, <1>4, <1>8, <1>10, <1>14

(* What Listed reads off the list, from each leaf on. *)
Listing(m, t, h) ==
  \A n \in Outer(m, t) \cup {t} :
    h[n] = IF n = t THEN <<>> ELSE << <<m[n].key, m[n].val>> >> \o h[m[n].flink]

(* The function it is defined to be. *)
Lists(m, t, h) ==
  h = [n \in Outer(m, t) \cup {t} |->
         IF n = t THEN <<>> ELSE << <<m[n].key, m[n].val>> >> \o h[m[n].flink]]

(* The pairs of a row are a sequence. *)
LEMMA PairsSequence ==
  ASSUME NEW m, NEW t, NEW s, NEW N, Row(m, t, s, N)
  PROVE  N \in Nat /\ Pairs(m, s, N) \in [1..N -> {<<m[n].key, m[n].val>> : n \in Outer(m, t)}]
<1>1. N \in Nat /\ s \in [1..N -> Outer(m, t)]
  BY DEF Row
<1> QED BY <1>1 DEF Pairs

(* There is such a function ... *)
LEMMA ListingExists ==
  ASSUME NEW m, NEW t, NEW s, NEW N, Row(m, t, s, N)
  PROVE  \E f : Lists(m, t, f)
<1>1. /\ N \in Nat /\ s \in [1..N -> Outer(m, t)]
      /\ \A k \in Outer(m, t) : \E j \in 1..N : s[j] = k
      /\ \A j, k \in 1..N : s[j] = s[k] => j = k
      /\ \A j \in 0..N : m[At(s, N, t, j)].flink = At(s, N, t, j + 1)
  BY DEF Row
<1>2. PICK p : p = Pairs(m, s, N)
  OBVIOUS
<1>3. PICK P : p \in [1..N -> P]
  BY <1>2, PairsSequence
<1> DEFINE place == [n \in Outer(m, t) |-> CHOOSE j \in 1..N : s[j] = n]
           S == Outer(m, t) \cup {t}
           f == [n \in S |-> IF n = t THEN <<>> ELSE Rest(p, N, place[n])]
<1>4. \A n \in Outer(m, t) : place[n] \in 1..N /\ s[place[n]] = n
  BY <1>1
<1>5. \A j \in 1..N : place[s[j]] = j
  BY <1>1, <1>4
<1>6. t \notin Outer(m, t)
  BY HeadApart
<1>7. \A n \in S : f[n] = IF n = t THEN <<>> ELSE Rest(p, N, place[n])
  OBVIOUS
<1> HIDE DEF place
<1>8. \A j \in 1..N + 1 : At(s, N, t, j) \in S /\ f[At(s, N, t, j)] = Rest(p, N, j)
  <2> SUFFICES ASSUME NEW j \in 1..N + 1
               PROVE  At(s, N, t, j) \in S /\ f[At(s, N, t, j)] = Rest(p, N, j)
    OBVIOUS
  <2> HIDE DEF f
  <2>1. CASE j \in 1..N
    <3>1. At(s, N, t, j) = s[j] /\ s[j] \in Outer(m, t) /\ s[j] # t
      BY <1>1, <1>6, <2>1 DEF At
    <3>2. f[s[j]] = Rest(p, N, place[s[j]])
      BY <1>7, <3>1
    <3> QED BY <1>5, <2>1, <3>1, <3>2
  <2>2. CASE j = N + 1
    <3>1. At(s, N, t, j) = t
      BY <1>1, <2>2 DEF At
    <3>2. f[t] = <<>>
      BY <1>7
    <3>3. Rest(p, N, N + 1) = <<>>
      <4>1. N \in Nat
        BY <1>1
      <4> QED BY <1>3, <4>1, RestEnds
    <3> QED BY <2>2, <3>1, <3>2, <3>3
  <2> QED BY <1>1, <2>1, <2>2
<1>9. ASSUME NEW n \in S
      PROVE  f[n] = IF n = t THEN <<>> ELSE << <<m[n].key, m[n].val>> >> \o f[m[n].flink]
  <2> HIDE DEF f
  <2>1. CASE n = t
    BY <1>7, <2>1
  <2>2. CASE n # t
    <3>1. n \in Outer(m, t)
      BY <2>2
    <3>2. PICK j : j = place[n]
      OBVIOUS
    <3>3. j \in 1..N /\ s[j] = n /\ j \in 0..N /\ j + 1 \in 1..N + 1
      BY <1>1, <1>4, <3>1, <3>2
    <3>4. m[n].flink = At(s, N, t, j + 1)
      <4>1. At(s, N, t, j) = n
        BY <3>3 DEF At
      <4> QED BY <1>1, <3>3, <4>1
    <3>5. f[m[n].flink] = Rest(p, N, j + 1)
      BY <1>8, <3>3, <3>4
    <3>6. f[n] = Rest(p, N, j)
      BY <1>7, <2>2, <3>2
    <3>7. Rest(p, N, j) = <<p[j]>> \o Rest(p, N, j + 1)
      <4>1. N \in Nat /\ j \in 1..N
        BY <1>1, <3>3
      <4> QED BY <1>3, <4>1, RestOnce
    <3>8. p[j] = <<m[n].key, m[n].val>>
      BY <1>2, <3>3 DEF Pairs
    <3> QED BY <2>2, <3>5, <3>6, <3>7, <3>8
  <2> QED BY <2>1, <2>2
<1>10. f = [n \in S |-> f[n]]
  OBVIOUS
<1>11. f = [n \in S |-> IF n = t THEN <<>> ELSE << <<m[n].key, m[n].val>> >> \o f[m[n].flink]]
  <2> HIDE DEF f
  <2> QED BY <1>9, <1>10
<1> HIDE DEF f
<1>12. Lists(m, t, f)
  BY <1>11 DEF Lists
<1> QED BY <1>12

(* ... and what it has for the first leaf is the pairs of the row. *)
LEMMA ListingIs ==
  ASSUME NEW m, NEW t, NEW s, NEW N, Row(m, t, s, N), NEW h, Listing(m, t, h)
  PROVE  h[m[t].flink] = Pairs(m, s, N)
<1>1. /\ N \in Nat /\ s \in [1..N -> Outer(m, t)]
      /\ \A j \in 0..N : m[At(s, N, t, j)].flink = At(s, N, t, j + 1)
  BY DEF Row
<1>2. PICK p : p = Pairs(m, s, N)
  OBVIOUS
<1>3. PICK P : p \in [1..N -> P]
  BY <1>2, PairsSequence
<1>4. t \notin Outer(m, t)
  BY HeadApart
<1> DEFINE T == {k \in 0..N : h[At(s, N, t, N + 1 - k)] = Rest(p, N, N + 1 - k)}
<1>5. 0 \in T
  <2>1. At(s, N, t, N + 1) = t /\ N + 1 - 0 = N + 1 /\ 0 \in 0..N
    BY <1>1 DEF At
  <2>2. h[t] = <<>>
    BY DEF Listing
  <2>3. Rest(p, N, N + 1) = <<>>
    BY <1>1, <1>3, RestEnds
  <2> QED BY <2>1, <2>2, <2>3
<1>6. ASSUME NEW k \in 0..N - 1, k \in T PROVE k + 1 \in T
  <2>1. PICK j : j = N - k
    OBVIOUS
  <2>2. j \in 1..N /\ j \in 0..N /\ N + 1 - k = j + 1 /\ N + 1 - (k + 1) = j /\ k + 1 \in 0..N
    BY <1>1, <2>1
  <2>3. h[At(s, N, t, j + 1)] = Rest(p, N, j + 1)
    BY <1>6, <2>2
  <2>4. At(s, N, t, j) = s[j] /\ s[j] \in Outer(m, t) /\ s[j] # t
    BY <1>1, <1>4, <2>2 DEF At
  <2>5. m[s[j]].flink = At(s, N, t, j + 1)
    BY <1>1, <2>2, <2>4
  <2>6. h[s[j]] = << <<m[s[j]].key, m[s[j]].val>> >> \o h[m[s[j]].flink]
    BY <2>4 DEF Listing
  <2>7. p[j] = <<m[s[j]].key, m[s[j]].val>>
    BY <1>2, <2>2 DEF Pairs
  <2>8. Rest(p, N, j) = <<p[j]>> \o Rest(p, N, j + 1)
    BY <1>1, <1>3, <2>2, RestOnce
  <2>9. h[At(s, N, t, j)] = Rest(p, N, j)
    BY <2>3, <2>4, <2>5, <2>6, <2>7, <2>8
  <2> QED BY <2>2, <2>9
<1>7. 0..N \subseteq T
  <2> HIDE DEF T
  <2> QED BY <1>1, <1>5, <1>6, UpTo
<1>8. N \in T /\ N + 1 - N = 1
  <2> HIDE DEF T
  <2>1. N \in 0..N /\ N + 1 - N = 1
    BY <1>1
  <2> QED BY <1>7, <2>1
<1>9. h[At(s, N, t, 1)] = Rest(p, N, 1)
  BY <1>8
<1>10. m[t].flink = At(s, N, t, 1)
  <2>1. At(s, N, t, 0) = t /\ 0 \in 0..N /\ 0 + 1 = 1
    BY <1>1 DEF At
  <2> QED BY <1>1, <2>1
<1>11. Rest(p, N, 1) = p
  BY <1>1, <1>3, RestEnds
<1> QED BY <1>2, <1>9, <1>10, <1>11

-----------------------------------------------------------------------------
(* The items of the tree are the pairs of its row. *)
ItemsAre ==
  tree # NULL =>
    \A s, N : SortedRow(mem, tree, s, N) => Listed[mem[tree].flink] = Pairs(mem, s, N)

(* The definition of Listed has a solution. *)
LEMMA ListedIs ==
  ASSUME Leaves = Outer(mem, tree), NEW s, NEW N, Row(mem, tree, s, N)
  PROVE  Listing(mem, tree, Listed)
<1>1. \E f : Lists(mem, tree, f)
  BY ListingExists
<1>2. Listed = CHOOSE h : Lists(mem, tree, h)
  BY DEF Listed, Lists
<1>3. Lists(mem, tree, CHOOSE h : Lists(mem, tree, h))
  BY <1>1, Zenon
<1> DEFINE L == Listed
<1>4. Lists(mem, tree, L)
  BY <1>2, <1>3
<1> HIDE DEF L
<1>5. Listing(mem, tree, L)
  BY <1>4 DEF Lists, Listing
<1> QED BY <1>5 DEF L

(* Whatever the row. *)
LEMMA ItemsPairs ==
  ASSUME SortInv
  PROVE  ItemsAre
<1> SUFFICES ASSUME tree # NULL, NEW s, NEW N, SortedRow(mem, tree, s, N)
             PROVE  Listed[mem[tree].flink] = Pairs(mem, s, N)
  BY DEF ItemsAre
<1>1. Row(mem, tree, s, N)
  BY DEF SortedRow
<1>2. Fine(mem, tree)
  BY DEF SortInv, TreeInv, Good, Sound, Shape
<1>3. Leaves = Outer(mem, tree)
  BY <1>2, NodesAre
<1>4. Listing(mem, tree, Listed)
  BY <1>1, <1>3, ListedIs
<1> QED BY <1>1, <1>4, ListingIs

(* A sorted row is read as pairs in order. *)
LEMMA PairsOrdered ==
  ASSUME NEW m, NEW t, NEW s, NEW N, SortedRow(m, t, s, N)
  PROVE  Sorted!InOrder(Pairs(m, s, N)) /\ Len(Pairs(m, s, N)) = N
<1>1. N \in Nat /\ Row(m, t, s, N) /\ Ascends(m, s, N)
  BY DEF SortedRow, Row
<1>2. PICK p : p = Pairs(m, s, N)
  OBVIOUS
<1>3. p = [i \in 1..N |-> <<m[s[i]].key, m[s[i]].val>>]
  BY <1>2 DEF Pairs
<1>4. Len(p) = N
  BY <1>1, <1>3
<1>5. ASSUME NEW i \in 1..N - 1 PROVE Compare(p[i][1], p[i + 1][1]) <= 0
  <2>1. i \in 1..N /\ i + 1 \in 1..N /\ i <= i + 1
    BY <1>1
  <2>2. p[i][1] = m[s[i]].key /\ p[i + 1][1] = m[s[i + 1]].key
    BY <1>3, <2>1
  <2>3. Compare(m[s[i]].key, m[s[i + 1]].key) <= 0
    BY <1>1, <2>1 DEF Ascends
  <2> QED BY <2>2, <2>3
<1>6. Sorted!InOrder(p)
  BY <1>4, <1>5 DEF Sorted!InOrder
<1> QED BY <1>2, <1>4, <1>6

(* The items are read off any row there is. *)
RowsRead(m, t, q) == \A z, M : SortedRow(m, t, z, M) => q = Pairs(m, z, M)

(* A pair put into the row is inserted into the sequence. *)
LEMMA PutInInserts ==
  ASSUME NEW m, NEW r, NEW t, NEW s, NEW N, SortedRow(m, t, s, N), NEW key, NEW val,
         PutIn(m, r, t, s, N, key, val),
         NEW p, p = Pairs(m, s, N), NEW q, RowsRead(r, t, q)
  PROVE  \/ q = p
         \/ (\E i \in 1..Len(p) + 1 : q = Sorted!InsertAt(p, i, <<key, val>>)) /\ Sorted!InOrder(q)
<1>1. CASE SortedRow(r, t, s, N) /\ Pairs(r, s, N) = Pairs(m, s, N)
  BY <1>1 DEF RowsRead
<1>2. ASSUME NEW i \in 1..N + 1, NEW leaf, SortedRow(r, t, Widen(s, N, i, leaf), N + 1),
             Pairs(r, Widen(s, N, i, leaf), N + 1) = Widen(Pairs(m, s, N), N, i, <<key, val>>)
      PROVE  (\E j \in 1..Len(p) + 1 : q = Sorted!InsertAt(p, j, <<key, val>>)) /\ Sorted!InOrder(q)
  <2>1. q = Pairs(r, Widen(s, N, i, leaf), N + 1)
    BY <1>2 DEF RowsRead
  <2>2. Sorted!InOrder(q)
    BY <1>2, <2>1, PairsOrdered
  <2>3. PICK x : x = <<key, val>>
    OBVIOUS
  <2>4. q = Widen(p, N, i, x)
    BY <1>2, <2>1, <2>3
  <2>5. Row(m, t, s, N)
    BY DEF SortedRow
  <2>6. N \in Nat /\ Len(p) = N
    BY <2>5, PairsSequence, PairsOrdered
  <2>7. PICK P : p \in [1..N -> P]
    BY <2>5, PairsSequence
  <2>8. PICK R : p \in [1..N -> R] /\ x \in R
    <3>1. p \in [1..N -> P \cup {x}] /\ x \in P \cup {x}
      BY <2>7
    <3> QED BY <3>1
  <2>9. SubSeq(p, 1, i - 1) \o <<x>> \o SubSeq(p, i, N) = Widen(p, N, i, x)
    <3>1. N \in Nat /\ p \in [1..N -> R] /\ x \in R /\ i \in 1..N + 1
      BY <2>6, <2>8
    <3> QED BY <3>1, InsertWidens
  <2>10. q = Sorted!InsertAt(p, i, x)
    BY <2>4, <2>6, <2>9 DEF Sorted!InsertAt
  <2> QED BY <2>2, <2>3, <2>6, <2>10
<1> QED BY <1>1, <1>2 DEF PutIn

(* A pair taken out of the row is taken out of the sequence. *)
LEMMA TakenOutTakes ==
  ASSUME NEW m, NEW r, NEW t, NEW s, NEW N, SortedRow(m, t, s, N), TakenOut(m, r, t, s, N),
         NEW p, p = Pairs(m, s, N), NEW q, RowsRead(r, t, q)
  PROVE  \E i \in 1..Len(p) : q = Sorted!RemoveAt(p, i)
<1>1. PICK i \in 1..N : /\ SortedRow(r, t, Narrow(s, N, i), N - 1)
                        /\ Pairs(r, Narrow(s, N, i), N - 1) = Narrow(Pairs(m, s, N), N, i)
  BY DEF TakenOut
<1>2. q = Narrow(p, N, i)
  BY <1>1 DEF RowsRead
<1>3. Row(m, t, s, N)
  BY DEF SortedRow
<1>4. N \in Nat /\ Len(p) = N
  BY <1>3, PairsSequence, PairsOrdered
<1>5. PICK P : p \in [1..N -> P]
  BY <1>3, PairsSequence
<1>6. SubSeq(p, 1, i - 1) \o SubSeq(p, i + 1, N) = Narrow(p, N, i)
  BY <1>4, <1>5, RemoveNarrows
<1>7. q = Sorted!RemoveAt(p, i)
  BY <1>2, <1>4, <1>6 DEF Sorted!RemoveAt
<1> QED BY <1>4, <1>7

(* Without a row there is no pair. *)
LEMMA NoRowNoPairs ==
  ASSUME NEW r, NEW t, NoRow(r, t), NEW q, RowsRead(r, t, q)
  PROVE  q = <<>>
<1>1. PICK z : z = [i \in 1..0 |-> t]
  OBVIOUS
<1>2. SortedRow(r, t, z, 0)
  BY <1>1 DEF NoRow
<1>3. q = Pairs(r, z, 0)
  BY <1>2 DEF RowsRead
<1>4. Len(q) = 0
  BY <1>2, <1>3, PairsOrdered
<1>5. \E P : q \in [1..0 -> P]
  <2>1. Row(r, t, z, 0)
    BY <1>2 DEF SortedRow
  <2> QED BY <1>3, <2>1, PairsSequence
<1>6. PICK P : q \in Seq(P)
  BY <1>5, SeqDef
<1> QED BY <1>4, <1>6, EmptySeq

-----------------------------------------------------------------------------
(* The refinement mapping, by name. *)
Items == IF tree = NULL THEN <<>> ELSE Listed[mem[tree].flink]

(* So they are in every state with a tree. *)
LEMMA ItemsRead ==
  ASSUME ItemsAre, tree # NULL
  PROVE  RowsRead(mem, tree, Items)
BY DEF ItemsAre, RowsRead, Items

(* And after the step. *)
LEMMA ItemsReadNext ==
  ASSUME ItemsAre', tree' # NULL
  PROVE  RowsRead(mem', tree', Items')
BY DEF ItemsAre, RowsRead, Items

(* An insertion inserts one pair, or none. *)
LEMMA InsertRefines ==
  ASSUME ConstantsAssumption, SortInv, ItemsAre, ItemsAre', NEW key \in Key, NEW val \in Val,
         rbtree_insert(key, val) \/ rbtree_insert_unique(key, val)
  PROVE  /\ tree # NULL /\ tree' = tree
         /\ \/ Items' = Items
            \/ /\ \E i \in 1..Len(Items) + 1 : Items' = Sorted!InsertAt(Items, i, <<key, val>>)
               /\ Sorted!InOrder(Items')
<1>1. tree # NULL
  BY DEF rbtree_insert, rbtree_insert_unique
<1>2. PICK s, N : SortedRow(mem, tree, s, N)
  BY <1>1 DEF SortInv
<1>3. TreeInv
  BY DEF SortInv
<1>4. tree' = tree /\ PutIn(mem, mem', tree, s, N, key, val)
  BY <1>2, <1>3, InsertRow
<1>5. PICK r : r = mem'
  OBVIOUS
<1>6. PICK p : p = Items
  OBVIOUS
<1>7. PICK q : q = Items'
  OBVIOUS
<1>8. RowsRead(r, tree, q)
  <2>1. RowsRead(mem', tree', Items')
    BY <1>1, <1>4, ItemsReadNext
  <2> QED BY <1>4, <1>5, <1>7, <2>1
<1>9. p = Pairs(mem, s, N)
  <2>1. RowsRead(mem, tree, Items)
    BY <1>1, ItemsRead
  <2> QED BY <1>2, <1>6, <2>1 DEF RowsRead
<1>11. PutIn(mem, r, tree, s, N, key, val)
  BY <1>4, <1>5
<1>12. \/ q = p
       \/ (\E i \in 1..Len(p) + 1 : q = Sorted!InsertAt(p, i, <<key, val>>)) /\ Sorted!InOrder(q)
  BY <1>2, <1>8, <1>9, <1>11, PutInInserts
<1> QED BY <1>1, <1>4, <1>6, <1>7, <1>12

(* A deletion takes one pair out. *)
LEMMA DeleteRefines ==
  ASSUME SortInv, ItemsAre, ItemsAre', NEW node \in Leaves, Delete(node)
  PROVE  tree # NULL /\ tree' = tree /\ \E i \in 1..Len(Items) : Items' = Sorted!RemoveAt(Items, i)
<1>1. tree # NULL
  BY DEF SortInv, TreeInv, Leaves
<1>2. PICK s, N : SortedRow(mem, tree, s, N)
  BY <1>1 DEF SortInv
<1>3. TreeInv
  BY DEF SortInv
<1>4. tree' = tree /\ TakenOut(mem, mem', tree, s, N)
  BY <1>2, <1>3, DeleteRow
<1>5. PICK r : r = mem'
  OBVIOUS
<1>6. PICK p : p = Items
  OBVIOUS
<1>7. PICK q : q = Items'
  OBVIOUS
<1>8. RowsRead(r, tree, q)
  <2>1. RowsRead(mem', tree', Items')
    BY <1>1, <1>4, ItemsReadNext
  <2> QED BY <1>4, <1>5, <1>7, <2>1
<1>9. p = Pairs(mem, s, N)
  <2>1. RowsRead(mem, tree, Items)
    BY <1>1, ItemsRead
  <2> QED BY <1>2, <1>6, <2>1 DEF RowsRead
<1>11. TakenOut(mem, r, tree, s, N)
  BY <1>4, <1>5
<1>12. \E i \in 1..Len(p) : q = Sorted!RemoveAt(p, i)
  BY <1>2, <1>8, <1>9, <1>11, TakenOutTakes
<1> QED BY <1>1, <1>4, <1>6, <1>7, <1>12

(* make_rbtree opens an empty sequence, rbtree_free leaves one. *)
LEMMA EmptyRefines ==
  ASSUME ConstantsAssumption, SortInv, ItemsAre', Create \/ Free
  PROVE  (mem' = mem /\ tree' = tree) \/ (tree' # NULL /\ Items' = <<>>)
<1>1. TreeInv
  BY DEF SortInv
<1>2. (mem' = mem /\ tree' = tree) \/ (tree' # NULL /\ NoRow(mem', tree'))
  <2>1. CASE Create
    BY <1>1, <2>1, CreateEmpty
  <2>2. CASE Free
    <3>1. tree # NULL /\ tree' = tree /\ NoRow(mem', tree)
      BY <1>1, <2>2, FreeEmpty
    <3> QED BY <3>1
  <2> QED BY <2>1, <2>2
<1>3. ASSUME tree' # NULL, NoRow(mem', tree') PROVE Items' = <<>>
  <2>1. RowsRead(mem', tree', Items')
    BY <1>3, ItemsReadNext
  <2>2. PICK r : r = mem'
    OBVIOUS
  <2>3. PICK t : t = tree'
    OBVIOUS
  <2>4. PICK q : q = Items'
    OBVIOUS
  <2>5. NoRow(r, t) /\ RowsRead(r, t, q)
    BY <1>3, <2>1, <2>2, <2>3, <2>4
  <2>6. q = <<>>
    BY <2>5, NoRowNoPairs
  <2> QED BY <2>4, <2>6
<1> QED BY <1>2, <1>3

(* Without a tree there are no items. *)
LEMMA NoItems == (tree = NULL => Items = <<>>) /\ (tree' = NULL => Items' = <<>>)
BY DEF Items

(* A step that changes neither memory nor tree leaves the items. *)
LEMMA ItemsStay ==
  ASSUME mem' = mem, tree' = tree
  PROVE  Items' = Items
BY DEF Items, Listed, Leaves

(* Every step of the tree is one of the sequence, or none. *)
LEMMA SortedStep ==
  ASSUME ConstantsAssumption, SortInv, ItemsAre, ItemsAre', [Next]_vars
  PROVE  [Sorted!AbsNext]_(Sorted!absVars)
<1>1. (IF tree = NULL THEN <<>> ELSE Listed[mem[tree].flink]) = Items
  BY DEF Items
<1>2. (IF tree = NULL THEN <<>> ELSE Listed[mem[tree].flink])' = Items'
  BY DEF Items
<1>3. CASE mem' = mem /\ tree' = tree
  BY <1>1, <1>2, <1>3, ItemsStay DEF Sorted!absVars
<1>4. CASE Create
  <2>1. tree = NULL
    BY <1>4 DEF Create
  <2>2. CASE tree' # NULL /\ Items' = <<>>
    BY <1>2, <2>1, <2>2 DEF Sorted!AbsNext, Sorted!Open
  <2> QED BY <1>3, <1>4, <2>2, EmptyRefines
<1>5. CASE Free
  <2>1. tree # NULL /\ tree' = tree
    BY <1>5 DEF Free
  <2>2. CASE Items' = <<>>
    BY <1>2, <2>1, <2>2 DEF Sorted!AbsNext, Sorted!Clear
  <2> QED BY <1>3, <1>5, <2>2, EmptyRefines
<1>6. CASE rbtree_destroy
  <2>1. tree # NULL /\ tree' = NULL
    BY <1>6 DEF rbtree_destroy
  <2>2. Items' = <<>>
    BY <2>1, NoItems
  <2> QED BY <1>2, <2>1, <2>2 DEF Sorted!AbsNext, Sorted!Close
<1>7. ASSUME NEW key \in Key, NEW val \in Val,
             rbtree_insert(key, val) \/ rbtree_insert_unique(key, val)
      PROVE  [Sorted!AbsNext]_(Sorted!absVars)
  <2>1. tree # NULL /\ tree' = tree
    BY <1>7, InsertRefines
  <2>2. CASE Items' = Items
    BY <1>1, <1>2, <2>1, <2>2 DEF Sorted!absVars
  <2>3. CASE /\ \E i \in 1..Len(Items) + 1 : Items' = Sorted!InsertAt(Items, i, <<key, val>>)
             /\ Sorted!InOrder(Items')
    <3>1. Sorted!Insert(key, val)
      BY <1>1, <1>2, <2>1, <2>3 DEF Sorted!Insert
    <3> QED BY <3>1 DEF Sorted!AbsNext
  <2> QED BY <1>7, <2>2, <2>3, InsertRefines
<1>8. ASSUME NEW node \in Leaves, Delete(node)
      PROVE  [Sorted!AbsNext]_(Sorted!absVars)
  <2>1. tree # NULL /\ tree' = tree /\ \E i \in 1..Len(Items) : Items' = Sorted!RemoveAt(Items, i)
    BY <1>8, DeleteRefines
  <2>2. Sorted!Take
    BY <1>1, <1>2, <2>1 DEF Sorted!Take
  <2> QED BY <2>2 DEF Sorted!AbsNext
<1>9. CASE UNCHANGED vars
  BY <1>3, <1>9 DEF vars
<1> QED BY <1>4, <1>5, <1>6, <1>7, <1>8, <1>9 DEF Next

(* The tree is a sorted sequence: an insertion puts one pair in its place   *)
(* or, for want of memory, changes nothing, a deletion takes one out.      *)
THEOREM TreeImplementsSequence == Spec => ImplementsSortedSequence
<1> USE ConstantsAssumption
<1>1. Init => Sorted!AbsInit
  BY DEF Init, Sorted!AbsInit
<1>2. SortInv => ItemsAre
  BY ItemsPairs
<1>3. SortInv /\ ItemsAre /\ ItemsAre' /\ [Next]_vars => [Sorted!AbsNext]_(Sorted!absVars)
  BY SortedStep
<1> QED BY <1>1, <1>2, <1>3, SortInvariance, PTL DEF Spec, ImplementsSortedSequence, Sorted!AbsSpec

-----------------------------------------------------------------------------
(* Every place of the list has the key 0 and not the value.                *)
AllZero(m, t, value) == \A o \in Outer(m, t) \cup {t} : m[o].key = 0 /\ m[o].val # value

(* The leaves with n's key and the value.                                  *)
SameKey(m, t, n, value) == {o \in Outer(m, t) : m[o].key = m[n].key /\ m[o].val = value}

(* r is what the property asks for. *)
Answers(m, t, n, value, r) ==
  IF r = NULL THEN SameKey(m, t, n, value) = {}
  ELSE m[r].val = value /\ r \in SameKey(m, t, n, value) \cup {m[n].flink}

(* A leaf has a place in the circle. *)
LEMMA LeafCircle ==
  ASSUME NEW m, NEW t, Good(m, t), NEW s, NEW N, Row(m, t, s, N), NEW j \in 1..N, NEW n, n = s[j],
         NEW f, f = Circle(s, N, t, j), ConstantsAssumption
  PROVE  /\ OnCircle(m, t, n, f, N)
         /\ 2 * Cardinality(DOMAIN m) = 4 * N
         /\ \A q \in 1..N + 1 : f[q] \in Nat \ {0}
<1>1. Ring(m, t) /\ Fine(m, t) /\ Counts(m, t) /\ DOMAIN m \subseteq Addr
  BY DEF Good, Sound, Shape
<1>2. OnCircle(m, t, n, f, N)
  BY <1>1, CircleIs
<1>3. N \in Nat \ {0} /\ Outer(m, t) # {}
  BY DEF Row
<1>4. Cardinality(DOMAIN m) = 2 * N
  BY <1>1, <1>3, RowCounts DEF Counts
<1>5. \A x \in Outer(m, t) \cup {t} : x \in DOMAIN m
  BY <1>1 DEF Outer, Below, Fine
<1>6. \A q \in 1..N + 1 : q \in 0..N + 2
  BY <1>3
<1>7. \A q \in 1..N + 1 : f[q] \in Outer(m, t) \cup {t}
  BY <1>2, <1>6 DEF OnCircle
<1>8. \A q \in 1..N + 1 : f[q] \in Nat \ {0}
  BY <1>1, <1>5, <1>7 DEF ConstantsAssumption
<1> QED BY <1>2, <1>3, <1>4, <1>8

(* When the walk ends. *)
LEMMA EndlessWhen ==
  ASSUME NEW m, NEW t, Good(m, t), NEW n \in Outer(m, t), NEW f, NEW N, OnCircle(m, t, n, f, N),
         2 * Cardinality(DOMAIN m) = 4 * N, \A q \in 1..N + 1 : f[q] \in Nat \ {0}, NEW value
  PROVE  rbtree_find_value(m, n, value) = Endless <=> AllZero(m, t, value)
<1>1. N \in Nat \ {0} /\ f[0] = n /\ \A x \in Outer(m, t) \cup {t} : \E q \in 1..N + 1 : f[q] = x
  BY DEF OnCircle
<1>2. m[t].key = 0 /\ Ring(m, t)
  BY DEF Good, Sound, Shape
<1>3. CASE Stops(m, f, N, value)
  <2>1. PICK c : c = value_turns(m, n, value)[2 * Cardinality(DOMAIN m)]
    OBVIOUS
  <2>2. HasFound(m, f, N, value, c) \/ HasMissed(m, f, N, value, c)
    BY <1>3, <2>1, WalkEnds
  <2>3. c.result # Endless
    BY <2>2 DEF HasFound, HasMissed, NULL, Endless
  <2>4. ASSUME AllZero(m, t, value) PROVE FALSE
    <3>1. \A q \in 0..N + 1 : f[q] \in Outer(m, t) \cup {t}
      BY <1>1 DEF OnCircle
    <3>2. \A q \in 0..N + 1 : m[f[q]].key = 0 /\ m[f[q]].val # value
      BY <2>4, <3>1 DEF AllZero
    <3>3. \A q \in 1..N + 1 : q \in 0..N + 1
      BY <1>1
    <3>4. 0 \in 0..N + 1
      BY <1>1
    <3>5. Misses(m, f, value, 1, N + 1) /\ Like(m, f, 1, N + 1)
      BY <3>2, <3>3, <3>4 DEF Misses, Like
    <3> QED BY <1>3, <3>5 DEF Stops
  <2> QED BY <2>1, <2>3, <2>4 DEF rbtree_find_value
<1>4. CASE ~Stops(m, f, N, value)
  <2>1. \A q \in 1..N + 1 : m[f[q]].key = m[n].key /\ m[f[q]].val # value
    BY <1>1, <1>4 DEF Stops, Misses, Like
  <2>2. \A x \in Outer(m, t) \cup {t} : m[x].key = m[n].key /\ m[x].val # value
    BY <1>1, <2>1
  <2>3. AllZero(m, t, value)
    BY <1>2, <2>2 DEF AllZero
  <2>4. PICK S : S = Outer(m, t) \cup {t}
    OBVIOUS
  <2>5. \A x \in S : m[x].blink \in S
    BY <1>2, <2>4 DEF Ring
  <2>6. n \in S /\ \A x \in S : m[x].key = m[n].key /\ m[x].val # value
    BY <2>2, <2>4
  <2>7. 2 * Cardinality(DOMAIN m) \in Nat
    BY <1>1
  <2>8. rbtree_find_value(m, n, value) = Endless
    BY <2>5, <2>6, <2>7, WalkRound
  <2> QED BY <2>3, <2>8
<1> QED BY <1>3, <1>4

(* The comparison tells different keys apart, as compare_local does.       *)
TellsApart == \A a, b \in Key : Compare(a, b) = 0 => a = b

(* In a sorted row the keys between two equal ones are equal to them. *)
LEMMA Sandwich ==
  ASSUME ComparisonAssumption, TellsApart, NEW m, NEW t, \A x \in Outer(m, t) : m[x].key \in Key,
         NEW s, NEW N, Row(m, t, s, N), Ascends(m, s, N),
         NEW a \in 1..N, NEW b \in 1..N, NEW d \in 1..N, a <= b, b <= d, m[s[a]].key = m[s[d]].key
  PROVE  m[s[b]].key = m[s[a]].key
<1>1. s[a] \in Outer(m, t) /\ s[b] \in Outer(m, t) /\ s[d] \in Outer(m, t)
  BY DEF Row
<1>2. PICK x, y : x = m[s[a]].key /\ y = m[s[b]].key
  OBVIOUS
<1>3. x \in Key /\ y \in Key
  BY <1>1, <1>2
<1>4. Compare(x, y) <= 0 /\ Compare(y, x) <= 0
  BY <1>2 DEF Ascends
<1>5. Compare(x, y) \in Int /\ Compare(y, x) \in Int /\ (Compare(x, y) < 0 <=> Compare(y, x) > 0)
  BY <1>3 DEF ComparisonAssumption
<1>6. Compare(x, y) = 0
  BY <1>4, <1>5
<1> QED BY <1>2, <1>3, <1>6 DEF TellsApart

(* Nothing was found: then there is nothing.                               *)
LEMMA MissedAll ==
  ASSUME ComparisonAssumption, TellsApart, NEW m, NEW t, \A x \in Outer(m, t) : m[x].key \in Key,
         m[t].key = 0, NEW s, NEW N, Row(m, t, s, N), Ascends(m, s, N), NEW j \in 1..N,
         NEW f, f = Circle(s, N, t, j), f[0] = s[j], m[s[j]].key # 0, NEW value, NEW c,
         HasMissed(m, f, N, value, c)
  PROVE  SameKey(m, t, s[j], value) = {}
<1>1. N \in Nat \ {0} /\ \A x \in Outer(m, t) : \E i \in 1..N : s[i] = x
  BY DEF Row
<1>2. PICK b, k : /\ TurnedAt(m, f, N, value, b) /\ PassedTo(m, f, N, value, k)
                  /\ m[f[k]].val # value /\ m[f[k + 1]].key # m[f[0]].key
  BY DEF HasMissed
<1>3. /\ b \in 1..N /\ k \in 1..N + 1
      /\ m[f[b]].key # m[s[j]].key
      /\ \A q \in b + 1..N + 1 : m[f[q]].val # value /\ m[f[q]].key = m[s[j]].key
      /\ \A q \in 1..k - 1 : m[f[q]].val # value
      /\ m[f[k + 1]].key # m[s[j]].key
  BY <1>2 DEF TurnedAt, PassedTo, Misses, Like
<1>4. /\ \A q \in 0..N + 2 : j + q <= N => f[q] = s[j + q]
      /\ \A q \in 0..N + 2 : j + q = N + 1 => f[q] = t
      /\ \A q \in 0..N + 2 : j + q > N + 1 /\ j + q - N - 1 <= N => f[q] = s[j + q - N - 1]
  BY CircleAt
<1>5. N + 1 - j <= b
  <2>1. PICK q : q = N + 1 - j
    OBVIOUS
  <2>2. q \in 0..N + 2 /\ q \in 1..N + 1 /\ j + q = N + 1
    BY <1>1, <2>1
  <2>3. f[q] = t
    BY <1>4, <2>2
  <2>4. q \notin b + 1..N + 1
    BY <1>3, <2>3
  <2> QED BY <1>1, <1>3, <2>1, <2>2, <2>4
<1>6. ASSUME NEW p \in 1..N, m[s[p]].key = m[s[j]].key, m[s[p]].val = value PROVE FALSE
  <2>1. CASE p <= j
    <3>1. PICK q : q = p + N + 1 - j
      OBVIOUS
    <3>2. q \in 0..N + 2 /\ j + q > N + 1 /\ j + q - N - 1 = p /\ q <= N + 1 /\ p <= N /\ q \in Int
      BY <1>1, <2>1, <3>1
    <3>3. f[q] = s[p]
      BY <1>4, <3>2
    <3>4. q <= b
      BY <1>3, <1>6, <3>2, <3>3
    <3>5. PICK d : d = j + b - N - 1
      OBVIOUS
    <3>6. d \in 1..N /\ p <= d /\ d <= j /\ b \in 0..N + 2 /\ j + b > N + 1
      BY <1>1, <1>3, <3>1, <3>2, <3>4, <3>5
    <3>7. f[b] = s[d]
      BY <1>4, <3>5, <3>6
    <3>8. m[s[d]].key = m[s[p]].key
      BY <1>6, <3>6, Sandwich
    <3> QED BY <1>3, <1>6, <3>7, <3>8
  <2>2. CASE p > j
    <3>1. PICK q : q = p - j
      OBVIOUS
    <3>2. q \in 0..N + 2 /\ j + q = p /\ j + q <= N /\ q >= 1 /\ q \in Int
      BY <1>1, <2>2, <3>1
    <3>3. f[q] = s[p]
      BY <1>4, <3>2
    <3>4. q > k
      <4>1. q \notin 1..k - 1 /\ q # k
        BY <1>2, <1>3, <1>6, <3>3
      <4> QED BY <1>1, <1>3, <3>2, <4>1
    <3>5. PICK d : d = j + (k + 1)
      OBVIOUS
    <3>6. d \in 1..N /\ j <= d /\ d <= p /\ k + 1 \in 0..N + 2 /\ j + (k + 1) <= N
      BY <1>1, <1>3, <3>2, <3>4, <3>5
    <3>7. f[k + 1] = s[d]
      BY <1>4, <3>5, <3>6
    <3>8. m[s[d]].key = m[s[j]].key
      BY <1>6, <3>6, Sandwich
    <3> QED BY <1>3, <3>7, <3>8
  <2> QED BY <1>1, <2>1, <2>2
<1> QED BY <1>1, <1>6 DEF SameKey

(* rbtree_find_value for a leaf with a key that is not the head's.         *)
LEMMA ValueAnswers ==
  ASSUME ConstantsAssumption, ComparisonAssumption, TellsApart, NEW m, NEW t, Good(m, t),
         NEW s, NEW N, SortedRow(m, t, s, N), NEW n \in Outer(m, t), m[n].key # 0, NEW value
  PROVE  Answers(m, t, n, value, rbtree_find_value(m, n, value))
<1>1. Row(m, t, s, N) /\ Ascends(m, s, N) /\ m[t].key = 0 /\ \A x \in Outer(m, t) : m[x].key \in Key
  BY DEF SortedRow, Good
<1>2. PICK j \in 1..N : n = s[j]
  BY <1>1 DEF Row
<1>3. PICK f : f = Circle(s, N, t, j)
  OBVIOUS
<1>4. /\ OnCircle(m, t, n, f, N) /\ 2 * Cardinality(DOMAIN m) = 4 * N
      /\ \A q \in 1..N + 1 : f[q] \in Nat \ {0}
  BY <1>1, <1>2, <1>3, LeafCircle
<1>5. PICK c : c = value_turns(m, n, value)[2 * Cardinality(DOMAIN m)]
  OBVIOUS
<1>6. rbtree_find_value(m, n, value) = c.result
  BY <1>5 DEF rbtree_find_value
<1>7. /\ N \in Nat \ {0} /\ f[0] = n /\ f[N + 1] = n
      /\ \A x \in Outer(m, t) \cup {t} : \E q \in 1..N + 1 : f[q] = x
      /\ \A q \in 0..N + 1 : m[f[q]].flink = f[q + 1]
      /\ \A q \in 1..N + 1 : f[q] \in Outer(m, t) \cup {t}
  <2>1. N \in Nat \ {0} /\ f \in [0..N + 2 -> Outer(m, t) \cup {t}]
    BY <1>4 DEF OnCircle
  <2>2. \A q \in 1..N + 1 : q \in 0..N + 2
    BY <2>1
  <2> QED BY <1>4, <2>1, <2>2 DEF OnCircle
<1>8. Stops(m, f, N, value)
  <2>1. PICK q \in 1..N + 1 : f[q] = t
    BY <1>7
  <2>2. m[f[q]].key # m[f[0]].key
    BY <1>1, <1>7, <2>1
  <2> QED BY <2>2 DEF Stops, Like
<1>9. HasFound(m, f, N, value, c) \/ HasMissed(m, f, N, value, c)
  BY <1>4, <1>5, <1>8, WalkEnds
<1>10. CASE HasFound(m, f, N, value, c)
  <2>1. PICK q \in 1..N + 1 : c.result = f[q] /\ m[f[q]].val = value /\ (q = 1 \/ m[f[q]].key = m[f[0]].key)
    BY <1>10 DEF HasFound
  <2>2. c.result # NULL /\ m[c.result].val = value
    BY <1>4, <2>1 DEF NULL
  <2>3. CASE q = 1
    <3>1. 0 \in 0..N + 1 /\ 0 + 1 = 1
      BY <1>7
    <3>2. f[1] = m[n].flink
      BY <1>7, <3>1
    <3> QED BY <1>6, <2>1, <2>2, <2>3, <3>2 DEF Answers
  <2>4. CASE m[f[q]].key = m[f[0]].key
    <3>1. f[q] \in Outer(m, t)
      BY <1>1, <1>7, <2>4
    <3>2. f[q] \in SameKey(m, t, n, value)
      BY <1>7, <2>1, <2>4, <3>1 DEF SameKey
    <3> QED BY <1>6, <2>1, <2>2, <3>2 DEF Answers
  <2> QED BY <2>1, <2>3, <2>4
<1>11. CASE HasMissed(m, f, N, value, c)
  <2>1. SameKey(m, t, n, value) = {}
    <3>1. f[0] = s[j] /\ m[s[j]].key # 0
      BY <1>2, <1>7
    <3>2. SameKey(m, t, s[j], value) = {}
      BY <1>1, <1>3, <1>11, <3>1, MissedAll
    <3> QED BY <1>2, <3>2
  <2> QED BY <1>6, <1>11, <2>1 DEF Answers, HasMissed
<1> QED BY <1>9, <1>10, <1>11

-----------------------------------------------------------------------------
(* In a sorted tree the walk finds what is there. *)
LEMMA RowValues ==
  ASSUME ConstantsAssumption, ComparisonAssumption, TellsApart, SortInv
  PROVE  FindValueSound
<1>1. SUFFICES ASSUME NEW n \in Leaves, NEW val \in Val
      PROVE  LET r    == rbtree_find_value(mem, n, val)
                 like == {o \in Leaves : mem[o].key = mem[n].key /\ mem[o].val = val}
             IN /\ r = Endless <=>
                     \A o \in Leaves \cup {tree} : mem[o].key = 0 /\ mem[o].val # val
                /\ mem[n].key # 0 =>
                     IF r = NULL THEN like = {}
                                 ELSE mem[r].val = val /\ r \in like \cup {mem[n].flink}
  BY DEF FindValueSound
<1>2. tree # NULL
  BY DEF SortInv, TreeInv, Leaves
<1>3. Good(mem, tree)
  BY <1>2 DEF SortInv, TreeInv
<1>4. Leaves = Outer(mem, tree)
  BY <1>3, NodesAre DEF Good, Sound, Shape
<1>5. PICK s, N : SortedRow(mem, tree, s, N)
  BY <1>2 DEF SortInv
<1>6. PICK r : r = rbtree_find_value(mem, n, val)
  OBVIOUS
<1>7. r = Endless <=> AllZero(mem, tree, val)
  <2>1. Row(mem, tree, s, N)
    BY <1>5 DEF SortedRow
  <2>2. PICK j \in 1..N : n = s[j]
    BY <1>4, <2>1 DEF Row
  <2>3. PICK f : f = Circle(s, N, tree, j)
    OBVIOUS
  <2>4. /\ OnCircle(mem, tree, n, f, N) /\ 2 * Cardinality(DOMAIN mem) = 4 * N
        /\ \A q \in 1..N + 1 : f[q] \in Nat \ {0}
    BY <1>3, <2>1, <2>2, <2>3, LeafCircle
  <2> QED BY <1>3, <1>4, <1>6, <2>4, EndlessWhen
<1>8. mem[n].key # 0 => Answers(mem, tree, n, val, r)
  BY <1>3, <1>4, <1>5, <1>6, ValueAnswers
<1> QED BY <1>4, <1>6, <1>7, <1>8 DEF AllZero, Answers, SameKey

(* With a comparison that tells different keys apart rbtree_find_value     *)
(* finds what the leaves hold.                                             *)
THEOREM FindsValues ==
  ASSUME TellsApart
  PROVE  Spec => []FindValueSound
<1>1. SortInv => FindValueSound
  BY RowValues, ConstantsAssumption, ComparisonAssumption
<1> QED BY <1>1, SortInvariance, PTL
=============================================================================
