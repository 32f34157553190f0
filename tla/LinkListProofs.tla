--------------------------- MODULE LinkListProofs ---------------------------
(***************************************************************************)
(* Proofs about LinkList and LinkListLoops, for any heads and entries:     *)
(* every operation of src/link_list.c leaves every element that is in use  *)
(* on a well-formed ring, which IInv says and which is inductive as it     *)
(* stands; the rings are the lists of Lists, which needs the lists         *)
(* themselves as a part of the invariant, ListInv; and a loop visits the   *)
(* list it began with, LoopInv.                                            *)
(***************************************************************************)
EXTENDS LinkListLoops, Induction, FiniteSetTheorems, SequenceTheorems

-----------------------------------------------------------------------------
(* The rings. *)

(* Linking entry in between two neighbours on a ring: the two of list_add  *)
(* and list_add_tail, which differ only in which side the head is on.      *)
LEMMA LinkedIn ==
  ASSUME IInv,
         NEW entry \in Node, Free(entry),
         NEW before \in Node \ off, before # entry,
         NEW after \in Node \ off, after # entry,
         next[before] = after,
         __list_add(entry, before, after)
  PROVE  IInv'
<1>1. TypeOK'
  BY DEF IInv, TypeOK, __list_add
<1>2. RingsOK'
  BY DEF IInv, TypeOK, RingsOK, Free, list_empty, __list_add
<1> QED BY <1>1, <1>2 DEF IInv

(* Both ways to add an entry. *)
LEMMA Added ==
  ASSUME IInv, NEW entry \in Entry, NEW head \in ListHead,
         list_add(entry, head) \/ list_add_tail(entry, head)
  PROVE  IInv'
<1>1. /\ entry \in Node /\ head \in Node \ off /\ head # entry
      /\ Free(entry)
  BY ConstantsAssumption DEF Node, list_add, list_add_tail
<1>2. /\ next[head] \in Node \ off /\ prev[next[head]] = head
      /\ prev[head] \in Node \ off /\ next[prev[head]] = head
  BY <1>1 DEF IInv, RingsOK
<1>3. next[head] # entry /\ prev[head] # entry
  BY <1>1, <1>2 DEF IInv, RingsOK, Free, list_empty
<1>4. CASE list_add(entry, head)
  BY <1>1, <1>2, <1>3, <1>4, LinkedIn DEF list_add
<1>5. CASE list_add_tail(entry, head)
  BY <1>1, <1>2, <1>3, <1>5, LinkedIn DEF list_add_tail
<1> QED BY <1>4, <1>5

(* Both ways to delete one. *)
LEMMA Deleted ==
  ASSUME IInv, NEW entry \in Node, list_del(entry) \/ list_del_init(entry)
  PROVE  IInv'
<1>1. TypeOK'
  BY DEF IInv, TypeOK, RingsOK, list_del, list_del_init
<1>2. ASSUME list_del(entry) PROVE RingsOK'
  BY <1>2 DEF IInv, TypeOK, RingsOK, list_del
<1>3. ASSUME list_del_init(entry) PROVE RingsOK'
  BY <1>3 DEF IInv, TypeOK, RingsOK, list_del_init
<1> QED BY <1>1, <1>2, <1>3 DEF IInv

(* A splice of an empty list, and of one with entries. *)
LEMMA Spliced ==
  ASSUME IInv, NEW list \in ListHead, NEW head \in ListHead, list_splice(list, head)
  PROVE  IInv'
<1>1. list \in Node /\ head \in Node
  BY DEF Node
<1>2. CASE next[list] = list
  BY <1>2 DEF IInv, TypeOK, RingsOK, list_splice, links
<1>3. CASE next[list] # list
  <2>1. TypeOK'
    BY <1>1, <1>3 DEF IInv, TypeOK, RingsOK, list_splice
  <2>2. RingsOK'
    BY <1>1, <1>3 DEF IInv, TypeOK, RingsOK, list_splice
  <2> QED BY <2>1, <2>2 DEF IInv
<1> QED BY <1>2, <1>3

(* Both ways to replace, of an element alone on its ring too. *)
LEMMA ReplacedOK ==
  ASSUME IInv, NEW old \in Node, NEW new \in Node,
         list_replace(old, new) \/ list_replace_init(old, new)
  PROVE  IInv'
<1>1. TypeOK'
  BY DEF IInv, TypeOK, RingsOK, Replaced, list_replace, list_replace_init
<1>2. ASSUME list_replace(old, new) PROVE RingsOK'
  BY <1>2 DEF IInv, TypeOK, RingsOK, Free, list_empty, Replaced, list_replace
<1>3. ASSUME list_replace_init(old, new) PROVE RingsOK'
  BY <1>3 DEF IInv, TypeOK, RingsOK, Free, list_empty, Replaced, list_replace_init
<1> QED BY <1>1, <1>2, <1>3 DEF IInv

(* The rings stay well formed: whatever calls the client makes, in any     *)
(* order, a walk along a list meets only elements that are in use, and     *)
(* every link has its counterpart.                                         *)
THEOREM RingsStay == Spec => []IInv
<1>1. Init => IInv
  BY ConstantsAssumption DEF Init, IInv, TypeOK, RingsOK, Node
<1>2. IInv /\ [Change]_links => IInv'
  <2> SUFFICES ASSUME IInv, [Change]_links PROVE IInv'
    OBVIOUS
  <2>1. CASE \E x \in Node : INIT_LIST_HEAD(x)
    BY <2>1 DEF IInv, TypeOK, RingsOK, INIT_LIST_HEAD
  <2>2. CASE \E entry \in Entry, head \in ListHead :
               list_add(entry, head) \/ list_add_tail(entry, head)
    BY <2>2, Added
  <2>3. CASE \E entry \in Entry : list_del(entry) \/ list_del_init(entry)
    BY <2>3, Deleted DEF Node
  <2>4. CASE \E list, head \in ListHead : list_splice(list, head)
    BY <2>4, Spliced
  <2>5. CASE \E old, new \in Node : list_replace(old, new) \/ list_replace_init(old, new)
    BY <2>5, ReplacedOK
  <2>6. CASE UNCHANGED links
    BY <2>6 DEF links, IInv, TypeOK, RingsOK
  <2> QED BY <2>1, <2>2, <2>3, <2>4, <2>5, <2>6 DEF Change
<1> QED BY <1>1, <1>2, PTL DEF Spec

-----------------------------------------------------------------------------
(* Walks along next. *)

LEMMA HeadsApart == \A h \in ListHead, e \in Entry : h # e
BY ConstantsAssumption

(* Two walks from the same element are the same walk. *)
LEMMA RunsMeet ==
  ASSUME NEW nx, NEW e, NEW g \in ListHead, NEW h \in ListHead,
         NEW s \in Seq(Entry), NEW t \in Seq(Entry), Run(nx, e, s, g), Run(nx, e, t, h)
  PROVE  s = t /\ g = h
<1> DEFINE T == {i \in 0..Len(s) : i <= Len(t) /\ Met(s, g, i + 1) = Met(t, h, i + 1)}
<1>1. /\ Len(s) \in Nat /\ Len(t) \in Nat
      /\ \A i \in 1..Len(s) : s[i] \in Entry
      /\ \A i \in 1..Len(t) : t[i] \in Entry
  OBVIOUS
<1>2. 0 \in T
  BY <1>1 DEF Run
<1>3. ASSUME NEW i \in 0..Len(s) - 1, i \in T PROVE i + 1 \in T
  <2>1. i + 1 \in 1..Len(s) /\ Met(s, g, i + 1) = s[i + 1] /\ s[i + 1] \in Entry
    BY <1>1 DEF Met
  <2>2. i + 1 <= Len(t) /\ t[i + 1] = s[i + 1]
    BY <1>1, <1>3, <2>1, HeadsApart DEF Met
  <2>3. Met(s, g, i + 1 + 1) = nx[s[i + 1]] /\ Met(t, h, i + 1 + 1) = nx[t[i + 1]]
    BY <1>1, <2>1, <2>2 DEF Run
  <2> QED BY <1>1, <2>1, <2>2, <2>3
<1>4. 0..Len(s) \subseteq T
  <2> HIDE DEF T
  <2> QED BY <1>1, <1>2, <1>3, UpTo
<1>5. Len(s) = Len(t) /\ g = h
  <2>1. Len(s) \in T
    BY <1>1, <1>4
  <2>2. Met(s, g, Len(s) + 1) = g
    BY <1>1 DEF Met
  <2> QED BY <1>1, <2>1, <2>2, HeadsApart DEF Met
<1>6. ASSUME NEW i \in 1..Len(s) PROVE s[i] = t[i]
  <2>1. i - 1 \in T /\ i - 1 + 1 = i
    <3>1. i - 1 \in 0..Len(s) /\ i - 1 + 1 = i
      BY <1>1
    <3> HIDE DEF T
    <3> QED BY <1>4, <3>1
  <2> QED BY <1>1, <1>5, <2>1 DEF Met
<1> QED
  BY <1>5, <1>6

(* The walk from the i-th element on. *)
From(s, i) == [k \in 1..Len(s) - i + 1 |-> s[i + k - 1]]

(* It leads to the same head. *)
LEMMA RunGoesOn ==
  ASSUME NEW nx, NEW e, NEW h, NEW s \in Seq(Entry), Run(nx, e, s, h), NEW i \in 1..Len(s)
  PROVE  /\ From(s, i) \in Seq(Entry) /\ Len(From(s, i)) = Len(s) - i + 1
         /\ Run(nx, s[i], From(s, i), h)
<1>1. /\ Len(s) \in Nat /\ Len(s) - i + 1 \in Nat
      /\ \A k \in 1..Len(s) : s[k] \in Entry
  OBVIOUS
<1>2. From(s, i) \in Seq(Entry) /\ Len(From(s, i)) = Len(s) - i + 1
  BY <1>1 DEF From
<1>3. ASSUME NEW k \in 1..Len(s) - i + 1
      PROVE  From(s, i)[k] = s[i + k - 1] /\ Met(From(s, i), h, k + 1) = Met(s, h, i + k)
  <2>1. i + (k + 1) - 1 = i + k /\ (k + 1 <= Len(s) - i + 1 <=> i + k <= Len(s))
    BY <1>1
  <2> QED BY <1>1, <1>2, <2>1 DEF Met, From
<1>4. ASSUME NEW k \in 1..Len(s) - i + 1
      PROVE  nx[From(s, i)[k]] = Met(From(s, i), h, k + 1)
  <2>1. i + k - 1 \in 1..Len(s) /\ i + k - 1 + 1 = i + k
    BY <1>1
  <2>2. nx[s[i + k - 1]] = Met(s, h, i + k)
    BY <2>1 DEF Run
  <2> QED BY <1>3, <2>1, <2>2
<1>5. s[i] = Met(From(s, i), h, 1)
  BY <1>1, <1>2 DEF Met, From
<1> QED
  BY <1>2, <1>4, <1>5 DEF Run

(* No walk meets an element twice, nor do two walks to different heads. *)
LEMMA RunOnce ==
  ASSUME NEW nx, NEW e, NEW h \in ListHead, NEW s \in Seq(Entry), Run(nx, e, s, h),
         NEW i \in 1..Len(s), NEW j \in 1..Len(s), s[i] = s[j]
  PROVE  i = j
<1>1. From(s, i) \in Seq(Entry) /\ Len(From(s, i)) = Len(s) - i + 1 /\ Run(nx, s[i], From(s, i), h)
  BY RunGoesOn
<1>2. From(s, j) \in Seq(Entry) /\ Len(From(s, j)) = Len(s) - j + 1 /\ Run(nx, s[i], From(s, j), h)
  BY RunGoesOn
<1>3. From(s, i) = From(s, j) /\ Len(s) \in Nat
  BY <1>1, <1>2, RunsMeet
<1> QED
  BY <1>1, <1>2, <1>3

(* Walks to different heads have no entry in common. *)
LEMMA RunsApart ==
  ASSUME NEW nx, NEW e, NEW f, NEW g \in ListHead, NEW h \in ListHead,
         NEW s \in Seq(Entry), NEW t \in Seq(Entry), Run(nx, e, s, g), Run(nx, f, t, h),
         NEW i \in 1..Len(s), NEW j \in 1..Len(t), s[i] = t[j]
  PROVE  g = h
<1>1. From(s, i) \in Seq(Entry) /\ Run(nx, s[i], From(s, i), g)
  BY RunGoesOn
<1>2. From(t, j) \in Seq(Entry) /\ Run(nx, s[i], From(t, j), h)
  BY RunGoesOn
<1> QED
  BY <1>1, <1>2, RunsMeet

-----------------------------------------------------------------------------
(* The lists that the links stand for. *)
ListsAre(nx, gone, L) ==
  /\ L \in [ListHead -> Seq(Entry)]
  /\ \A h \in ListHead : IF h \in gone THEN L[h] = <<>> ELSE Run(nx, nx[h], L[h], h)

(* An entry is on one list only, and once. *)
LEMMA EachOnce ==
  ASSUME NEW nx, NEW gone, NEW L, ListsAre(nx, gone, L)
  PROVE  /\ \A h \in ListHead : \A i, j \in 1..Len(L[h]) : L[h][i] = L[h][j] => i = j
         /\ \A g, h \in ListHead : \A i \in 1..Len(L[g]), j \in 1..Len(L[h]) :
              L[g][i] = L[h][j] => g = h
<1>1. ASSUME NEW h \in ListHead, NEW i \in 1..Len(L[h])
      PROVE  L[h] \in Seq(Entry) /\ Run(nx, nx[h], L[h], h)
  <2>1. L[h] \in Seq(Entry)
    BY DEF ListsAre
  <2>2. L[h] # <<>>
    OBVIOUS
  <2> QED BY <2>1, <2>2 DEF ListsAre
<1>2. ASSUME NEW h \in ListHead, NEW i \in 1..Len(L[h]), NEW j \in 1..Len(L[h]), L[h][i] = L[h][j]
      PROVE  i = j
  BY <1>1, <1>2, RunOnce
<1>3. ASSUME NEW g \in ListHead, NEW h \in ListHead,
             NEW i \in 1..Len(L[g]), NEW j \in 1..Len(L[h]), L[g][i] = L[h][j]
      PROVE  g = h
  BY <1>1, <1>3, RunsApart
<1> QED
  BY <1>2, <1>3

(* So the entries of a list are one of the sequences that EntriesFrom looks at. *)
LEMMA LinesFit ==
  ASSUME NEW s \in Seq(Entry), \A i, j \in 1..Len(s) : s[i] = s[j] => i = j
  PROVE  s \in Lines
<1>1. Len(s) \in Nat /\ s \in [1..Len(s) -> Entry]
  OBVIOUS
<1>2. s \in Injection(1..Len(s), Entry)
  BY <1>1 DEF Injection, IsInjective
<1>3. IsFiniteSet(1..Len(s)) /\ Cardinality(1..Len(s)) = Len(s)
  <2>1. 1 \in Int /\ Len(s) \in Int
    BY <1>1
  <2>2. IsFiniteSet(1..Len(s)) /\ Cardinality(1..Len(s)) = IF 1 > Len(s) THEN 0 ELSE Len(s) - 1 + 1
    BY <2>1, FS_Interval
  <2> QED BY <1>1, <2>2
<1>4. Cardinality(1..Len(s)) <= Cardinality(Entry)
  BY <1>2, FS_Injection, ConstantsAssumption
<1>5. Cardinality(Entry) \in Nat
  BY FS_CardinalityType, ConstantsAssumption
<1> QED
  BY <1>1, <1>2, <1>3, <1>4, <1>5 DEF Lines

(* Those are sequences of entries. *)
LEMMA LinesAre ==
  ASSUME NEW s \in Lines
  PROVE  s \in Seq(Entry)
<1>1. PICK k \in 0..Cardinality(Entry) : s \in Injection(1..k, Entry)
  BY DEF Lines
<1>2. k \in Nat
  BY FS_CardinalityType, ConstantsAssumption
<1> QED
  BY <1>1, <1>2 DEF Injection

(* They are the ones that a walk along the links finds. *)
LEMMA ListsFound ==
  ASSUME NEW nx, NEW gone, NEW L, ListsAre(nx, gone, L)
  PROVE  ListsOf(nx, gone) = L
<1>1. L \in [ListHead -> Seq(Entry)]
  BY DEF ListsAre
<1>2. ASSUME NEW h \in ListHead, h \notin gone
      PROVE  EntriesFrom(nx, nx[h], h) = L[h] /\ L[h] \in Lines
  <2>1. L[h] \in Seq(Entry) /\ Run(nx, nx[h], L[h], h)
    BY <1>2 DEF ListsAre
  <2>2. L[h] \in Lines
    BY <2>1, EachOnce, LinesFit
  <2>3. EntriesFrom(nx, nx[h], h) \in Lines
        /\ Run(nx, nx[h], EntriesFrom(nx, nx[h], h), h)
    BY <2>1, <2>2 DEF EntriesFrom
  <2> QED BY <2>1, <2>2, <2>3, LinesAre, RunsMeet
<1>3. \A h \in ListHead : h \in gone => L[h] = <<>>
  BY DEF ListsAre
<1> QED
  BY <1>1, <1>2, <1>3 DEF ListsOf

-----------------------------------------------------------------------------
(* How writes to next change the lists. *)

(* Links that a list does not use may change. *)
LEMMA RunStays ==
  ASSUME NEW nx, NEW nx2, NEW e, NEW h, NEW s, Run(nx, e, s, h),
         \A i \in 1..Len(s) : nx2[s[i]] = nx[s[i]]
  PROVE  Run(nx2, e, s, h)
BY DEF Run

Untouched(nx, nx2, gone, L, h) ==
  h \notin gone => nx2[h] = nx[h] /\ \A i \in 1..Len(L[h]) : nx2[L[h][i]] = nx[L[h][i]]

(* When the links of no list change, the lists stay. *)
LEMMA ListsStay ==
  ASSUME NEW nx, NEW gone, NEW L, ListsAre(nx, gone, L), NEW nx2, NEW gone2,
         \A h \in ListHead : (h \in gone2 <=> h \in gone) /\ Untouched(nx, nx2, gone, L, h)
  PROVE  ListsAre(nx2, gone2, L)
<1> SUFFICES ASSUME NEW h \in ListHead, h \notin gone PROVE Run(nx2, nx2[h], L[h], h)
  BY DEF ListsAre
<1>1. Run(nx, nx[h], L[h], h)
  BY DEF ListsAre
<1> QED
  BY <1>1, RunStays DEF Untouched

(* When the links of the other lists do not change, one list does. *)
LEMMA ListChanges ==
  ASSUME NEW nx, NEW gone, NEW L, ListsAre(nx, gone, L), NEW nx2, NEW gone2,
         NEW h \in ListHead, NEW s \in Seq(Entry), h \notin gone2, Run(nx2, nx2[h], s, h),
         \A g \in ListHead \ {h} : (g \in gone2 <=> g \in gone) /\ Untouched(nx, nx2, gone, L, g)
  PROVE  ListsAre(nx2, gone2, [L EXCEPT ![h] = s])
<1> DEFINE M == [L EXCEPT ![h] = s]
<1>1. M \in [ListHead -> Seq(Entry)] /\ M[h] = s /\ \A g \in ListHead \ {h} : M[g] = L[g]
  BY DEF ListsAre
<1> HIDE DEF M
<1>2. ASSUME NEW g \in ListHead \ {h}
      PROVE  IF g \in gone2 THEN M[g] = <<>> ELSE Run(nx2, nx2[g], M[g], g)
  <2>1. CASE g \in gone
    BY <1>1, <2>1 DEF ListsAre
  <2>2. CASE g \notin gone
    <3>1. Run(nx, nx[g], L[g], g)
      BY <2>2 DEF ListsAre
    <3>2. Run(nx2, nx2[g], L[g], g)
      BY <2>2, <3>1, RunStays DEF Untouched
    <3> QED BY <1>1, <2>2, <3>2
  <2> QED BY <2>1, <2>2
<1>3. ListsAre(nx2, gone2, M)
  BY <1>1, <1>2 DEF ListsAre
<1> QED
  BY <1>3 DEF M

(* e is on no list. *)
Nowhere(L, e) == \A h \in ListHead : \A i \in 1..Len(L[h]) : L[h][i] # e

(* The links of all elements. *)
LinkTypes(nx) == nx \in [Node -> Node \cup {Garbage}]

(* What the lists consist of. *)
LEMMA EntriesAre ==
  ASSUME NEW nx, NEW gone, NEW L, ListsAre(nx, gone, L), NEW h \in ListHead
  PROVE  /\ L[h] \in Seq(Entry) /\ Len(L[h]) \in Nat
         /\ \A i \in 1..Len(L[h]) : L[h][i] \in Entry /\ L[h][i] \in Node /\ L[h][i] \notin ListHead
         /\ h \in Node /\ h \notin Entry
         /\ h \notin gone => Run(nx, nx[h], L[h], h)
BY ConstantsAssumption DEF ListsAre, Node

-----------------------------------------------------------------------------
(* An entry comes before the others. *)
LEMMA PutFirst ==
  ASSUME NEW nx, NEW gone, NEW L, ListsAre(nx, gone, L), LinkTypes(nx),
         NEW e \in Entry, Nowhere(L, e), NEW h \in ListHead \ gone,
         NEW nx2, nx2 = [nx EXCEPT ![e] = nx[h], ![h] = e]
  PROVE  ListsAre(nx2, gone \ {e}, [L EXCEPT ![h] = <<e>> \o L[h]])
<1> DEFINE s == L[h]
           t == <<e>> \o s
<1>1. e \in Node /\ e \notin ListHead /\ e # h
  BY ConstantsAssumption DEF Node
<1>2. nx2[e] = nx[h] /\ nx2[h] = e /\ \A x \in Node \ {e, h} : nx2[x] = nx[x]
  BY <1>1 DEF LinkTypes, Node
<1>3. /\ s \in Seq(Entry) /\ Len(s) \in Nat /\ Run(nx, nx[h], s, h)
      /\ \A i \in 1..Len(s) : s[i] \in Node \ {e, h}
  BY EntriesAre DEF Nowhere
<1>4. t \in Seq(Entry) /\ Len(t) = Len(s) + 1 /\ t[1] = e /\ \A i \in 1..Len(s) : t[i + 1] = s[i]
  BY <1>3
<1> HIDE DEF s, t
<1>5. \A i \in 1..Len(s) + 1 : Met(t, h, i + 1) = Met(s, h, i)
  BY <1>3, <1>4 DEF Met
<1>6. ASSUME NEW i \in 1..Len(t) PROVE nx2[t[i]] = Met(t, h, i + 1)
  <2>1. CASE i = 1
    BY <1>2, <1>3, <1>4, <1>5, <2>1 DEF Run
  <2>2. CASE i # 1
    <3>1. i - 1 \in 1..Len(s) /\ i - 1 + 1 = i
      BY <1>3, <1>4, <2>2
    <3>2. t[i] = s[i - 1] /\ nx2[s[i - 1]] = nx[s[i - 1]]
      BY <1>2, <1>3, <1>4, <3>1
    <3>3. nx[s[i - 1]] = Met(s, h, i)
      BY <1>3, <3>1 DEF Run
    <3> QED BY <1>3, <1>4, <1>5, <3>2, <3>3
  <2> QED BY <2>1, <2>2
<1>7. Run(nx2, nx2[h], t, h)
  <2>1. nx2[h] = Met(t, h, 1)
    BY <1>2, <1>3, <1>4 DEF Met
  <2> QED BY <1>6, <2>1 DEF Run
<1>8. ASSUME NEW g \in ListHead \ {h}
      PROVE  (g \in gone \ {e} <=> g \in gone) /\ Untouched(nx, nx2, gone, L, g)
  <2>1. g \in Node \ {e, h} /\ \A i \in 1..Len(L[g]) : L[g][i] \in Node \ {e, h}
    BY <1>1, EntriesAre DEF Nowhere
  <2> QED BY <1>1, <1>2, <2>1 DEF Untouched
<1>9. ListsAre(nx2, gone \ {e}, [L EXCEPT ![h] = t])
  BY <1>4, <1>7, <1>8, ListChanges
<1> QED
  BY <1>9 DEF s, t

(* The last of a list, the head itself when there is none. *)
Last(s, h) == IF Len(s) = 0 THEN h ELSE s[Len(s)]

(* An entry comes after the others. *)
LEMMA PutLast ==
  ASSUME NEW nx, NEW gone, NEW L, ListsAre(nx, gone, L), LinkTypes(nx),
         NEW e \in Entry, Nowhere(L, e), NEW h \in ListHead \ gone,
         NEW nx2, nx2 = [nx EXCEPT ![e] = h, ![Last(L[h], h)] = e]
  PROVE  ListsAre(nx2, gone \ {e}, [L EXCEPT ![h] = Append(L[h], e)])
<1> DEFINE s == L[h]
           t == Append(s, e)
           b == Last(s, h)
<1>1. e \in Node /\ e \notin ListHead /\ e # h
  BY ConstantsAssumption DEF Node
<1>2. /\ s \in Seq(Entry) /\ Len(s) \in Nat /\ Run(nx, nx[h], s, h)
      /\ \A i \in 1..Len(s) : s[i] \in Node \ {e, h}
  BY EntriesAre DEF Nowhere
<1>3. b \in Node /\ b # e
  BY <1>1, <1>2, EntriesAre DEF Last
<1>4. nx2[e] = h /\ nx2[b] = e /\ \A x \in Node \ {e, b} : nx2[x] = nx[x]
  <2> HIDE DEF b, s
  <2>1. nx2 = [nx EXCEPT ![e] = h, ![b] = e]
    BY DEF b, s
  <2> QED BY <1>1, <1>3, <2>1 DEF LinkTypes
<1>5. t \in Seq(Entry) /\ Len(t) = Len(s) + 1 /\ t[Len(s) + 1] = e
      /\ \A i \in 1..Len(s) : t[i] = s[i]
  BY <1>2
<1>6. \A i, j \in 1..Len(s) : s[i] = s[j] => i = j
  BY EachOnce
<1> HIDE DEF s, t
<1>7. ASSUME NEW i \in 1..Len(t) PROVE nx2[t[i]] = Met(t, h, i + 1)
  <2>1. CASE i = Len(s) + 1
    BY <1>2, <1>4, <1>5, <2>1 DEF Met
  <2>2. CASE i = Len(s)
    <3>1. s[i] = b
      BY <1>2, <1>5, <2>2 DEF Last
    <3> QED BY <1>2, <1>4, <1>5, <2>2, <3>1 DEF Met
  <2>3. CASE i < Len(s)
    <3>1. i \in 1..Len(s) /\ Len(s) \in 1..Len(s) /\ b = s[Len(s)]
      BY <1>2, <1>5, <2>3 DEF Last
    <3>2. s[i] \in Node \ {e, b}
      BY <1>2, <1>6, <2>3, <3>1
    <3>3. nx2[s[i]] = nx[s[i]] /\ nx[s[i]] = Met(s, h, i + 1)
      BY <1>2, <1>4, <3>1, <3>2 DEF Run
    <3> QED BY <1>2, <1>5, <2>3, <3>1, <3>3 DEF Met
  <2> QED BY <1>2, <1>5, <2>1, <2>2, <2>3
<1>8. nx2[h] = Met(t, h, 1)
  <2>1. CASE Len(s) = 0
    BY <1>2, <1>4, <1>5, <2>1 DEF Met, Last
  <2>2. CASE Len(s) # 0
    <3>1. h \in Node \ {e, b}
      BY <1>1, <1>2, <2>2, EntriesAre DEF Last
    <3>2. nx2[h] = Met(s, h, 1)
      BY <1>2, <1>4, <3>1 DEF Run
    <3> QED BY <1>2, <1>5, <2>2, <3>2 DEF Met
  <2> QED BY <2>1, <2>2
<1>9. Run(nx2, nx2[h], t, h)
  BY <1>7, <1>8 DEF Run
<1>10. ASSUME NEW g \in ListHead \ {h}
       PROVE  (g \in gone \ {e} <=> g \in gone) /\ Untouched(nx, nx2, gone, L, g)
  <2>1. ASSUME NEW i \in 1..Len(L[g]) PROVE L[g][i] \in Node \ {e, b}
    <3>1. L[g][i] \in Node \ {e} /\ L[g][i] # h
      BY EntriesAre DEF Nowhere
    <3>2. \A j \in 1..Len(s) : L[g][i] # s[j]
      BY EachOnce DEF s
    <3> QED BY <1>2, <3>1, <3>2 DEF Last
  <2>2. g \in Node \ {e, b}
    <3>1. g \in Node /\ g # e /\ g # h
      BY <1>1, EntriesAre
    <3>2. \A j \in 1..Len(s) : s[j] # g
      BY EntriesAre DEF s
    <3> QED BY <1>2, <3>1, <3>2 DEF Last
  <2> QED BY <1>1, <1>4, <2>1, <2>2 DEF Untouched
<1>11. ListsAre(nx2, gone \ {e}, [L EXCEPT ![h] = t])
  BY <1>5, <1>9, <1>10, ListChanges
<1> QED
  BY <1>11 DEF s, t

(* What comes before an entry that is on no list is on none either. *)
LEMMA NowhereBefore ==
  ASSUME NEW nx, NEW gone, NEW L, ListsAre(nx, gone, L), NEW e \in Entry, Nowhere(L, e),
         NEW p, p \notin gone, nx[p] = e
  PROVE  Nowhere(L, p) /\ p \notin ListHead
<1>1. ASSUME NEW h \in ListHead, h \notin gone, NEW k \in 1..Len(L[h]) + 1
      PROVE  Met(L[h], h, k) # e
  BY <1>1, EntriesAre DEF Met, Nowhere
<1>2. p \notin ListHead
  <2> SUFFICES ASSUME p \in ListHead PROVE FALSE
    OBVIOUS
  <2>1. Len(L[p]) \in Nat /\ Run(nx, nx[p], L[p], p)
    BY EntriesAre
  <2>2. nx[p] = Met(L[p], p, 1) /\ 1 \in 1..Len(L[p]) + 1
    BY <2>1 DEF Run
  <2> QED BY <1>1, <2>2
<1>3. ASSUME NEW h \in ListHead, NEW i \in 1..Len(L[h]), L[h][i] = p PROVE FALSE
  <2>1. h \notin gone /\ Len(L[h]) \in Nat
    <3>1. Len(L[h]) # 0
      OBVIOUS
    <3>2. h \in gone => L[h] = <<>>
      BY DEF ListsAre
    <3> QED BY <3>1, <3>2, EntriesAre
  <2>2. nx[L[h][i]] = Met(L[h], h, i + 1) /\ i + 1 \in 1..Len(L[h]) + 1
    BY <2>1, EntriesAre DEF Run
  <2> QED BY <1>1, <1>3, <2>1, <2>2
<1> QED
  BY <1>2, <1>3 DEF Nowhere

(* What comes before the i-th entry of a list. *)
Before(s, h, i) == IF i = 1 THEN h ELSE s[i - 1]

(* It leads there, and is on the same list. *)
LEMMA BeforeIs ==
  ASSUME NEW nx, NEW gone, NEW L, ListsAre(nx, gone, L),
         NEW h \in ListHead, NEW i \in 1..Len(L[h])
  PROVE  /\ h \notin gone /\ Before(L[h], h, i) \in Node
         /\ nx[Before(L[h], h, i)] = L[h][i] /\ Before(L[h], h, i) # L[h][i]
         /\ \A g \in ListHead \ {h} : g # Before(L[h], h, i)
                                      /\ \A k \in 1..Len(L[g]) : L[g][k] # Before(L[h], h, i)
<1> DEFINE s == L[h]
           p == Before(s, h, i)
<1>1. h \notin gone
  <2>1. Len(L[h]) # 0
    OBVIOUS
  <2>2. h \in gone => L[h] = <<>>
    BY DEF ListsAre
  <2> QED BY <2>1, <2>2
<1>2. /\ Len(s) \in Nat /\ Run(nx, nx[h], s, h) /\ h \in Node
      /\ \A k \in 1..Len(s) : s[k] \in Node /\ s[k] \notin ListHead
  BY <1>1, EntriesAre
<1>3. CASE i = 1
  <2>1. p = h /\ nx[h] = s[1]
    BY <1>2, <1>3 DEF Before, Run, Met
  <2>2. \A g \in ListHead \ {h} : \A k \in 1..Len(L[g]) : L[g][k] # h
    BY EntriesAre
  <2> QED BY <1>1, <1>2, <1>3, <2>1, <2>2
<1>4. CASE i # 1
  <2>1. i - 1 \in 1..Len(s) /\ p = s[i - 1] /\ i - 1 + 1 = i
    BY <1>2, <1>4 DEF Before
  <2>2. nx[s[i - 1]] = s[i]
    <3>1. nx[s[i - 1]] = Met(s, h, i - 1 + 1)
      BY <1>2, <2>1 DEF Run
    <3> QED BY <2>1, <3>1 DEF Met
  <2>3. s[i - 1] # s[i]
    BY <2>1, EachOnce
  <2>4. \A g \in ListHead \ {h} : g # s[i - 1] /\ \A k \in 1..Len(L[g]) : L[g][k] # s[i - 1]
    BY <1>2, <2>1, EachOnce
  <2> QED BY <1>1, <1>2, <2>1, <2>2, <2>3, <2>4
<1> QED
  BY <1>3, <1>4

(* An entry is taken out: its neighbours follow each other. *)
LEMMA TakenOut ==
  ASSUME NEW nx, NEW gone, NEW L, ListsAre(nx, gone, L),
         NEW h \in ListHead, NEW i \in 1..Len(L[h]),
         NEW p, p = Before(L[h], h, i),
         NEW nx2, nx2[p] = nx[L[h][i]], \A x \in Node \ {L[h][i], p} : nx2[x] = nx[x],
         NEW gone2, \A g \in ListHead : g \in gone2 <=> g \in gone
  PROVE  ListsAre(nx2, gone2, [L EXCEPT ![h] = Abs!Without(L[h], i)])
<1> DEFINE s == L[h]
           e == s[i]
           t == Abs!Without(s, i)
<1>1. /\ s \in Seq(Entry) /\ Len(s) \in Nat /\ Run(nx, nx[h], s, h) /\ h \in Node
      /\ \A k \in 1..Len(s) : s[k] \in Entry /\ s[k] \in Node /\ s[k] \notin ListHead
  BY EntriesAre, BeforeIs
<1>2. \A j, k \in 1..Len(s) : s[j] = s[k] => j = k
  BY EachOnce
<1>3. /\ t \in Seq(Entry) /\ Len(t) = Len(s) - 1
      /\ \A k \in 1..Len(s) - 1 : t[k] = IF k < i THEN s[k] ELSE s[k + 1]
  BY <1>1 DEF Abs!Without
<1>4. /\ i \in 1..Len(s) /\ e = s[i] /\ p = Before(s, h, i)
      /\ nx2[p] = nx[e] /\ \A x \in Node \ {e, p} : nx2[x] = nx[x]
  OBVIOUS
<1>5. \A g \in ListHead \ {h} : \A k \in 1..Len(L[g]) : L[g][k] # e
  BY EachOnce
<1> HIDE DEF s, t, e
<1>6. \A k \in 1..Len(s) : Met(t, h, k) = IF k < i THEN Met(s, h, k) ELSE Met(s, h, k + 1)
  BY <1>1, <1>3, <1>4 DEF Met
<1>7. ASSUME NEW k \in 1..Len(t) PROVE nx2[t[k]] = Met(t, h, k + 1)
  <2>1. k \in 1..Len(s) - 1 /\ k + 1 \in 1..Len(s)
    BY <1>1, <1>3
  <2>2. CASE k + 1 < i
    <3>1. k \in 1..Len(s) /\ k < i /\ k + 1 \in 1..Len(s) + 1
      BY <1>1, <1>4, <2>1, <2>2
    <3>2. t[k] = s[k]
      BY <1>3, <2>1, <3>1
    <3>3. Met(t, h, k + 1) = Met(s, h, k + 1)
      BY <1>6, <2>1, <2>2
    <3>4. s[k] # e /\ s[k] # p
      <4>1. s[k] # e
        BY <1>2, <1>4, <3>1
      <4>2. s[k] # p
        BY <1>1, <1>2, <1>4, <2>2, <3>1 DEF Before
      <4> QED BY <4>1, <4>2
    <3>5. nx[s[k]] = Met(s, h, k + 1) /\ s[k] \in Node
      BY <1>1, <3>1 DEF Run
    <3> QED BY <1>4, <3>4, <3>2, <3>3, <3>5
  <2>3. CASE k + 1 = i
    <3>1. t[k] = s[k] /\ s[k] = p /\ Met(t, h, k + 1) = Met(s, h, i + 1)
      BY <1>1, <1>3, <1>4, <1>6, <2>1, <2>3 DEF Before
    <3>2. nx[e] = Met(s, h, i + 1)
      BY <1>1, <1>4 DEF Run
    <3> QED BY <1>4, <3>1, <3>2
  <2>4. CASE k + 1 > i
    <3>1. t[k] = s[k + 1] /\ Met(t, h, k + 1) = Met(s, h, k + 1 + 1)
      <4>1. ~(k < i) /\ ~(k + 1 < i)
        BY <1>1, <1>4, <2>1, <2>4
      <4>2. t[k] = s[k + 1]
        BY <1>3, <2>1, <4>1
      <4>3. Met(t, h, k + 1) = Met(s, h, k + 1 + 1)
        BY <1>6, <2>1, <4>1
      <4> QED BY <4>2, <4>3
    <3>2. s[k + 1] # e /\ s[k + 1] # p
      <4>1. s[k + 1] # e
        BY <1>1, <1>2, <1>4, <2>1, <2>4
      <4>2. CASE i = 1
        BY <1>1, <1>4, <2>1, <4>1, <4>2 DEF Before
      <4>3. CASE i # 1
        <5>1. i - 1 \in 1..Len(s) /\ p = s[i - 1] /\ i - 1 # k + 1
          BY <1>1, <1>4, <2>1, <2>4, <4>3 DEF Before
        <5> QED BY <1>2, <2>1, <4>1, <5>1
      <4> QED BY <4>1, <4>2, <4>3
    <3>3. nx2[s[k + 1]] = nx[s[k + 1]]
      BY <1>1, <1>4, <2>1, <3>2
    <3>4. nx[s[k + 1]] = Met(s, h, k + 1 + 1)
      BY <1>1, <2>1 DEF Run
    <3> QED BY <3>1, <3>3, <3>4
  <2> QED BY <1>1, <1>4, <2>1, <2>2, <2>3, <2>4
<1>8. nx2[h] = Met(t, h, 1)
  <2>1. CASE i = 1
    <3>1. p = h /\ Met(t, h, 1) = Met(s, h, 2)
      BY <1>1, <1>4, <1>6, <2>1 DEF Before
    <3>2. nx[e] = Met(s, h, 2)
      BY <1>1, <1>4, <2>1 DEF Run
    <3> QED BY <1>4, <3>1, <3>2
  <2>2. CASE i # 1
    <3>1. 1 \in 1..Len(s) /\ 1 < i /\ i - 1 \in 1..Len(s) /\ p = s[i - 1]
      BY <1>1, <1>4, <2>2 DEF Before
    <3>2. h # e /\ h # p
      BY <1>1, <1>4, <3>1
    <3>3. Met(t, h, 1) = Met(s, h, 1)
      BY <1>6, <3>1
    <3>4. nx[h] = Met(s, h, 1)
      BY <1>1 DEF Run
    <3> QED BY <1>1, <1>4, <3>2, <3>3, <3>4
  <2> QED BY <2>1, <2>2
<1>9. Run(nx2, nx2[h], t, h)
  BY <1>7, <1>8 DEF Run
<1>10. ASSUME NEW g \in ListHead \ {h}
      PROVE  (g \in gone2 <=> g \in gone) /\ Untouched(nx, nx2, gone, L, g)
  <2>1. g \in Node \ {e, p}
    <3>1. g \in Node /\ g \notin Entry
      BY EntriesAre
    <3>2. e \in Entry
      BY <1>1, <1>4
    <3>3. g # p
      BY BeforeIs
    <3> QED BY <3>1, <3>2, <3>3
  <2>2. ASSUME NEW k \in 1..Len(L[g]) PROVE L[g][k] \in Node \ {e, p}
    BY <1>5, EntriesAre, BeforeIs
  <2> QED BY <1>4, <2>1, <2>2 DEF Untouched
<1>11. h \notin gone2
  BY BeforeIs
<1>12. ListsAre(nx2, gone2, [L EXCEPT ![h] = t])
  BY <1>3, <1>9, <1>10, <1>11, ListChanges
<1> QED
  BY <1>12 DEF s, t

(* Another entry takes the place of one. *)
LEMMA PutInPlace ==
  ASSUME NEW nx, NEW gone, NEW L, ListsAre(nx, gone, L),
         NEW h \in ListHead, NEW i \in 1..Len(L[h]),
         NEW p, p = Before(L[h], h, i), NEW f \in Entry, Nowhere(L, f),
         NEW nx2, nx2[p] = f, nx2[f] = nx[L[h][i]],
         \A x \in Node \ {L[h][i], f, p} : nx2[x] = nx[x],
         NEW gone2, \A g \in ListHead : g \in gone2 <=> g \in gone
  PROVE  ListsAre(nx2, gone2, [L EXCEPT ![h] = [L[h] EXCEPT ![i] = f]])
<1> DEFINE s == L[h]
           e == s[i]
           t == [s EXCEPT ![i] = f]
<1>1. /\ s \in Seq(Entry) /\ Len(s) \in Nat /\ Run(nx, nx[h], s, h) /\ h \in Node
      /\ \A k \in 1..Len(s) : s[k] \in Entry /\ s[k] \in Node /\ s[k] \notin ListHead /\ s[k] # f
  BY EntriesAre, BeforeIs DEF Nowhere
<1>2. \A j, k \in 1..Len(s) : s[j] = s[k] => j = k
  BY EachOnce
<1>3. /\ t \in Seq(Entry) /\ Len(t) = Len(s) /\ t[i] = f
      /\ \A k \in 1..Len(s) : k # i => t[k] = s[k]
  BY <1>1
<1>4. /\ i \in 1..Len(s) /\ e = s[i] /\ p = Before(s, h, i) /\ f # h /\ f # e
      /\ nx2[f] = nx[e] /\ \A x \in Node \ {e, f, p} : nx2[x] = nx[x]
  BY <1>1, HeadsApart
<1>5. \A g \in ListHead \ {h} : \A k \in 1..Len(L[g]) : L[g][k] # e
  BY EachOnce
<1> HIDE DEF s, t, e
<1>6. \A k \in 1..Len(s) + 1 : k # i => Met(t, h, k) = Met(s, h, k)
  BY <1>1, <1>3 DEF Met
<1>7. ASSUME NEW k \in 1..Len(t) PROVE nx2[t[k]] = Met(t, h, k + 1)
  <2>1. k \in 1..Len(s) /\ k + 1 \in 1..Len(s) + 1
    BY <1>1, <1>3
  <2>2. CASE k = i
    <3>1. nx[e] = Met(s, h, i + 1) /\ i + 1 # i
      BY <1>1, <1>4 DEF Run
    <3> QED BY <1>4, <1>3, <1>6, <2>1, <2>2, <3>1
  <2>3. CASE k + 1 = i
    <3>1. t[k] = p /\ Met(t, h, k + 1) = f
      BY <1>1, <1>3, <1>4, <2>1, <2>3 DEF Before, Met
    <3> QED BY <3>1
  <2>4. CASE k # i /\ k + 1 # i
    <3>1. t[k] = s[k] /\ Met(t, h, k + 1) = Met(s, h, k + 1)
      BY <1>3, <1>6, <2>1, <2>4
    <3>2. s[k] # e /\ s[k] # p /\ s[k] # f
      <4>1. s[k] # e /\ s[k] # f
        BY <1>1, <1>2, <1>4, <2>1, <2>4
      <4>2. CASE i = 1
        BY <1>1, <1>4, <2>1, <4>1, <4>2 DEF Before
      <4>3. CASE i # 1
        <5>1. i - 1 \in 1..Len(s) /\ p = s[i - 1] /\ i - 1 # k
          BY <1>1, <1>4, <2>1, <2>4, <4>3 DEF Before
        <5> QED BY <1>2, <2>1, <4>1, <5>1
      <4> QED BY <4>2, <4>3
    <3>3. nx2[s[k]] = nx[s[k]]
      BY <1>1, <1>4, <2>1, <3>2
    <3>4. nx[s[k]] = Met(s, h, k + 1)
      BY <1>1, <2>1 DEF Run
    <3> QED BY <3>1, <3>3, <3>4
  <2> QED BY <2>2, <2>3, <2>4
<1>8. nx2[h] = Met(t, h, 1)
  <2>1. CASE i = 1
    BY <1>1, <1>3, <1>4, <2>1 DEF Before, Met
  <2>2. CASE i # 1
    <3>1. h # e /\ h # p /\ h # f /\ Met(t, h, 1) = Met(s, h, 1)
      BY <1>1, <1>4, <1>6, <2>2 DEF Before
    <3> QED BY <1>1, <1>4, <3>1 DEF Run
  <2> QED BY <2>1, <2>2
<1>9. Run(nx2, nx2[h], t, h)
  BY <1>7, <1>8 DEF Run
<1>10. ASSUME NEW g \in ListHead \ {h}
      PROVE  (g \in gone2 <=> g \in gone) /\ Untouched(nx, nx2, gone, L, g)
  <2>1. g \in Node \ {e, f, p}
    <3>1. g \in Node /\ g \notin Entry
      BY EntriesAre
    <3>2. e \in Entry
      BY <1>1, <1>4
    <3>3. g # p
      BY BeforeIs
    <3> QED BY <3>1, <3>2, <3>3
  <2>2. ASSUME NEW k \in 1..Len(L[g]) PROVE L[g][k] \in Node \ {e, f, p}
    BY <1>5, EntriesAre, BeforeIs DEF Nowhere
  <2> QED BY <1>4, <2>1, <2>2 DEF Untouched
<1>11. h \notin gone2
  BY BeforeIs
<1>12. ListsAre(nx2, gone2, [L EXCEPT ![h] = t])
  BY <1>3, <1>9, <1>10, <1>11, ListChanges
<1> QED
  BY <1>12 DEF s, t

(* An element that starts on its own ring. *)
LEMMA Initialised ==
  ASSUME NEW nx, NEW gone, NEW L, ListsAre(nx, gone, L), LinkTypes(nx), NEW x \in Node,
         IF x \in ListHead THEN x \in gone ELSE Nowhere(L, x)
  PROVE  ListsAre([nx EXCEPT ![x] = x], gone \ {x}, L)
<1> DEFINE nx2 == [nx EXCEPT ![x] = x]
<1>1. nx2[x] = x /\ \A m \in Node \ {x} : nx2[m] = nx[m]
  BY DEF LinkTypes
<1> HIDE DEF nx2
<1>2. ASSUME NEW g \in ListHead \ {x}, g \notin gone
      PROVE  nx2[g] = nx[g] /\ \A i \in 1..Len(L[g]) : nx2[L[g][i]] = nx[L[g][i]]
  <2>1. g \in Node \ {x}
    BY EntriesAre
  <2>2. ASSUME NEW i \in 1..Len(L[g]) PROVE L[g][i] \in Node \ {x}
    BY EntriesAre DEF Nowhere
  <2> QED BY <1>1, <2>1, <2>2
<1>3. CASE x \in ListHead
  <2>1. L[x] = <<>> /\ L \in [ListHead -> Seq(Entry)]
    BY <1>3 DEF ListsAre
  <2>2. Run(nx2, nx2[x], <<>>, x)
    BY <1>1 DEF Run, Met
  <2>3. [L EXCEPT ![x] = <<>>] = L
    BY <1>3, <2>1
  <2>4. \A g \in ListHead \ {x} : (g \in gone \ {x} <=> g \in gone) /\ Untouched(nx, nx2, gone, L, g)
    BY <1>2 DEF Untouched
  <2>5. <<>> \in Seq(Entry) /\ x \notin gone \ {x}
    OBVIOUS
  <2>6. ListsAre(nx2, gone \ {x}, [L EXCEPT ![x] = <<>>])
    BY <1>3, <2>2, <2>4, <2>5, ListChanges
  <2> QED BY <2>3, <2>6 DEF nx2
<1>4. CASE x \notin ListHead
  <2>1. \A g \in ListHead : (g \in gone \ {x} <=> g \in gone) /\ Untouched(nx, nx2, gone, L, g)
    BY <1>2, <1>4 DEF Untouched
  <2> QED BY <2>1, ListsStay DEF nx2
<1> QED
  BY <1>3, <1>4

(* A head goes out of use. *)
LEMMA HeadGone ==
  ASSUME NEW nx, NEW gone, NEW L, ListsAre(nx, gone, L), NEW g \in ListHead
  PROVE  ListsAre(nx, gone \cup {g}, [L EXCEPT ![g] = <<>>])
<1> DEFINE M == [L EXCEPT ![g] = <<>>]
<1>1. M \in [ListHead -> Seq(Entry)] /\ M[g] = <<>> /\ \A h \in ListHead \ {g} : M[h] = L[h]
  BY DEF ListsAre
<1> HIDE DEF M
<1>2. ASSUME NEW h \in ListHead
      PROVE  IF h \in gone \cup {g} THEN M[h] = <<>> ELSE Run(nx, nx[h], M[h], h)
  BY <1>1 DEF ListsAre
<1>3. ListsAre(nx, gone \cup {g}, M)
  BY <1>1, <1>2 DEF ListsAre
<1> QED
  BY <1>3 DEF M

(* All entries of g go to the front of the list of h. *)
LEMMA SplicedIn ==
  ASSUME NEW nx, NEW gone, NEW L, ListsAre(nx, gone, L), LinkTypes(nx),
         NEW g \in ListHead \ gone, NEW h \in ListHead \ gone, g # h, Len(L[g]) # 0,
         NEW nx2, nx2 = [nx EXCEPT ![h] = nx[g], ![Last(L[g], g)] = nx[h]]
  PROVE  ListsAre(nx2, gone \cup {g}, [L EXCEPT ![h] = L[g] \o L[h], ![g] = <<>>])
<1> DEFINE s == L[g]
           r == L[h]
           t == s \o r
           b == s[Len(s)]
           L0 == [L EXCEPT ![g] = <<>>]
<1>1. /\ s \in Seq(Entry) /\ Len(s) \in Nat /\ Run(nx, nx[g], s, g)
      /\ r \in Seq(Entry) /\ Len(r) \in Nat /\ Run(nx, nx[h], r, h)
      /\ \A i \in 1..Len(s) : s[i] \in Node \ {h} /\ s[i] \notin ListHead
      /\ \A i \in 1..Len(r) : r[i] \in Node \ {h}
      /\ h \in Node
  BY EntriesAre
<1>2. /\ \A i, j \in 1..Len(s) : s[i] = s[j] => i = j
      /\ \A i \in 1..Len(s), j \in 1..Len(r) : s[i] # r[j]
  <2>1. \A i, j \in 1..Len(s) : s[i] = s[j] => i = j
    BY EachOnce
  <2>2. \A i \in 1..Len(s), j \in 1..Len(r) : s[i] = r[j] => g = h
    BY EachOnce
  <2> QED BY <2>1, <2>2
<1>3. Len(s) # 0 /\ Len(s) \in 1..Len(s) /\ Last(L[g], g) = b
  BY <1>1 DEF Last
<1>4. b \in Node \ {h} /\ b \notin ListHead
  BY <1>1, <1>3
<1>5. nx2[h] = nx[g] /\ nx2[b] = nx[h] /\ \A x \in Node \ {h, b} : nx2[x] = nx[x]
  <2> HIDE DEF b
  <2>1. nx2 = [nx EXCEPT ![h] = nx[g], ![b] = nx[h]]
    BY <1>3
  <2> QED BY <1>1, <1>4, <2>1 DEF LinkTypes
<1>6. /\ t \in Seq(Entry) /\ Len(t) = Len(s) + Len(r)
      /\ \A i \in 1..Len(s) : t[i] = s[i]
      /\ \A i \in 1..Len(r) : t[Len(s) + i] = r[i]
  <2>1. s \in Seq(Entry) /\ r \in Seq(Entry)
    BY <1>1
  <2> HIDE DEF s, r
  <2>2. t \in Seq(Entry) /\ Len(t) = Len(s) + Len(r)
    BY <2>1
  <2>3. \A i \in 1..Len(s) : t[i] = s[i]
    BY <2>1
  <2>4. \A i \in 1..Len(r) : t[Len(s) + i] = r[i]
    BY <2>1
  <2> QED BY <2>2, <2>3, <2>4
<1>7. L0 \in [ListHead -> Seq(Entry)] /\ ListsAre(nx, gone \cup {g}, L0)
      /\ \A f \in ListHead \ {g} : L0[f] = L[f]
  BY HeadGone DEF ListsAre
<1>8. [L0 EXCEPT ![h] = t] = [L EXCEPT ![h] = L[g] \o L[h], ![g] = <<>>]
  <2>1. L \in [ListHead -> Seq(Entry)]
    BY DEF ListsAre
  <2> HIDE DEF t
  <2>2. [[L EXCEPT ![g] = <<>>] EXCEPT ![h] = t] = [L EXCEPT ![h] = t, ![g] = <<>>]
    BY <2>1
  <2> QED BY <2>2 DEF t
<1>9. \A k \in 1..Len(r) + 1 : Met(t, h, Len(s) + k) = Met(r, h, k)
  <2> SUFFICES ASSUME NEW k \in 1..Len(r) + 1 PROVE Met(t, h, Len(s) + k) = Met(r, h, k)
    OBVIOUS
  <2> HIDE DEF s, r, t
  <2>1. Len(s) + k <= Len(t) <=> k <= Len(r)
    BY <1>1, <1>6
  <2> QED BY <1>1, <1>6, <2>1 DEF Met
<1>10. \A k \in 1..Len(s) : Met(t, h, k) = s[k]
  <2> HIDE DEF s, r, t
  <2> QED BY <1>1, <1>6 DEF Met
<1> HIDE DEF s, r, t, b, L0
<1>11. ASSUME NEW i \in 1..Len(t) PROVE nx2[t[i]] = Met(t, h, i + 1)
  <2>1. CASE i < Len(s)
    <3>1. i \in 1..Len(s) /\ i + 1 \in 1..Len(s)
      BY <1>1, <2>1
    <3>2. s[i] \in Node \ {h, b}
      BY <1>1, <1>2, <1>3, <2>1, <3>1 DEF b
    <3>3. nx[s[i]] = s[i + 1]
      BY <1>1, <3>1 DEF Run, Met
    <3> QED BY <1>5, <1>6, <1>10, <3>1, <3>2, <3>3
  <2>2. CASE i = Len(s)
    <3>1. t[i] = b
      BY <1>3, <1>6, <2>2 DEF b
    <3>2. nx[h] = Met(r, h, 1) /\ 1 \in 1..Len(r) + 1
      BY <1>1 DEF Run
    <3> QED BY <1>5, <1>9, <2>2, <3>1, <3>2
  <2>3. CASE i > Len(s)
    <3> DEFINE j == i - Len(s)
    <3>1. j \in 1..Len(r) /\ j + 1 \in 1..Len(r) + 1 /\ i = Len(s) + j /\ i + 1 = Len(s) + (j + 1)
      BY <1>1, <1>6, <2>3
    <3> HIDE DEF j
    <3>2. r[j] \in Node \ {h, b}
      BY <1>1, <1>2, <1>3, <3>1 DEF b
    <3>3. nx[r[j]] = Met(r, h, j + 1)
      BY <1>1, <3>1 DEF Run
    <3>4. t[i] = r[j] /\ Met(t, h, i + 1) = Met(r, h, j + 1)
      BY <1>6, <1>9, <3>1
    <3> QED BY <1>5, <3>2, <3>3, <3>4
  <2> QED BY <1>1, <1>6, <2>1, <2>2, <2>3
<1>12. Run(nx2, nx2[h], t, h)
  <2>1. nx2[h] = Met(t, h, 1)
    <3>1. 1 \in 1..Len(s)
      BY <1>1, <1>3
    <3>2. nx[g] = s[1]
      BY <1>1, <3>1 DEF Run, Met
    <3> QED BY <1>5, <1>10, <3>1, <3>2
  <2> QED BY <1>11, <2>1 DEF Run
<1>13. ASSUME NEW f \in ListHead \ {h}
       PROVE  Untouched(nx, nx2, gone \cup {g}, L0, f)
  <2>1. CASE f = g
    BY <2>1 DEF Untouched
  <2>2. CASE f # g
    <3>1. f \in Node \ {h, b} /\ L0[f] = L[f]
      BY <1>4, <1>7, <2>2, EntriesAre
    <3>2. ASSUME NEW i \in 1..Len(L[f]) PROVE L[f][i] \in Node \ {h, b}
      <4>1. L[f][i] \in Node /\ L[f][i] # h
        BY EntriesAre
      <4>2. L[f][i] # b
        BY <1>3, <2>2, EachOnce DEF b, s
      <4> QED BY <4>1, <4>2
    <3> QED BY <1>5, <3>1, <3>2 DEF Untouched
  <2> QED BY <2>1, <2>2
<1>14. ListsAre(nx2, gone \cup {g}, [L0 EXCEPT ![h] = t])
  <2>1. h \notin gone \cup {g}
    OBVIOUS
  <2> QED BY <1>6, <1>7, <1>12, <1>13, <2>1, ListChanges
<1> QED
  BY <1>8, <1>14

(* Another head for the entries of g. *)
LEMMA HeadMoved ==
  ASSUME NEW nx, NEW gone, NEW L, ListsAre(nx, gone, L), LinkTypes(nx),
         NEW g \in ListHead \ gone, NEW h \in ListHead, g # h, L[h] = <<>>,
         NEW nx2, nx2 = [nx EXCEPT ![h] = nx[g],
                                   ![IF L[g] = <<>> THEN h ELSE Last(L[g], g)] = h]
  PROVE  ListsAre(nx2, (gone \ {h}) \cup {g}, [L EXCEPT ![h] = L[g], ![g] = <<>>])
<1> DEFINE s == L[g]
           b == IF s = <<>> THEN h ELSE Last(s, g)
           L0 == [L EXCEPT ![g] = <<>>]
           gone2 == (gone \ {h}) \cup {g}
<1>1. /\ s \in Seq(Entry) /\ Len(s) \in Nat /\ Run(nx, nx[g], s, g)
      /\ \A i \in 1..Len(s) : s[i] \in Node \ {h} /\ s[i] \notin ListHead
      /\ h \in Node
  BY EntriesAre
<1>2. \A i, j \in 1..Len(s) : s[i] = s[j] => i = j
  BY EachOnce
<1>3. b \in Node /\ (Len(s) # 0 => b = s[Len(s)] /\ b # h /\ Len(s) \in 1..Len(s))
                 /\ (Len(s) = 0 => b = h)
  BY <1>1 DEF Last
<1>4. /\ \A x \in Node \ {h, b} : nx2[x] = nx[x]
      /\ nx2[b] = h /\ (Len(s) # 0 => nx2[h] = nx[g])
  <2>1. nx2 = [nx EXCEPT ![h] = nx[g], ![b] = h]
    OBVIOUS
  <2> HIDE DEF b, s
  <2> QED BY <1>1, <1>3, <2>1 DEF LinkTypes
<1>5. L0 \in [ListHead -> Seq(Entry)] /\ ListsAre(nx, gone \cup {g}, L0)
      /\ \A f \in ListHead \ {g} : L0[f] = L[f]
  BY HeadGone DEF ListsAre
<1>6. [L0 EXCEPT ![h] = s] = [L EXCEPT ![h] = L[g], ![g] = <<>>]
  <2>1. L \in [ListHead -> Seq(Entry)]
    BY DEF ListsAre
  <2> HIDE DEF s
  <2>2. [[L EXCEPT ![g] = <<>>] EXCEPT ![h] = s] = [L EXCEPT ![h] = s, ![g] = <<>>]
    BY <2>1
  <2> QED BY <2>2 DEF s
<1> HIDE DEF s, b, L0
<1>7. ASSUME NEW i \in 1..Len(s) PROVE nx2[s[i]] = Met(s, h, i + 1)
  <2>1. CASE i = Len(s)
    BY <1>1, <1>3, <1>4, <2>1 DEF Met
  <2>2. CASE i < Len(s)
    <3>1. i + 1 <= Len(s) /\ Len(s) # 0
      BY <1>1, <2>2
    <3>2. s[i] \in Node \ {h, b}
      BY <1>1, <1>2, <1>3, <2>2, <3>1
    <3>3. nx[s[i]] = s[i + 1]
      BY <1>1, <3>1 DEF Run, Met
    <3> QED BY <1>4, <3>1, <3>2, <3>3 DEF Met
  <2> QED BY <1>1, <2>1, <2>2
<1>8. Run(nx2, nx2[h], s, h)
  <2>1. nx2[h] = Met(s, h, 1)
    <3>1. CASE Len(s) = 0
      BY <1>1, <1>3, <1>4, <3>1 DEF Met
    <3>2. CASE Len(s) # 0
      BY <1>1, <1>3, <1>4, <3>2 DEF Met, Run
    <3> QED BY <3>1, <3>2
  <2> QED BY <1>7, <2>1 DEF Run
<1>9. ASSUME NEW f \in ListHead \ {h}
       PROVE  Untouched(nx, nx2, gone \cup {g}, L0, f)
  <2>1. CASE f = g
    BY <2>1 DEF Untouched
  <2>2. CASE f # g
    <3>1. f \in Node \ {h, b} /\ L0[f] = L[f]
      BY <1>1, <1>3, <1>5, <2>2, EntriesAre
    <3>2. ASSUME NEW i \in 1..Len(L[f]) PROVE L[f][i] \in Node \ {h, b}
      <4>1. L[f][i] \in Node /\ L[f][i] # h
        BY EntriesAre
      <4>2. Len(s) # 0 => L[f][i] # s[Len(s)]
        BY <1>3, <2>2, EachOnce DEF s
      <4> QED BY <1>3, <4>1, <4>2
    <3> QED BY <1>4, <3>1, <3>2 DEF Untouched
  <2> QED BY <2>1, <2>2
<1>10. ListsAre(nx2, gone2, [L0 EXCEPT ![h] = s])
  <2>1. h \notin gone2 /\ \A f \in ListHead \ {h} : f \in gone2 <=> f \in gone \cup {g}
    OBVIOUS
  <2> HIDE DEF gone2
  <2> QED BY <1>1, <1>5, <1>8, <1>9, <2>1, ListChanges
<1> QED
  BY <1>6, <1>10

-----------------------------------------------------------------------------
(* The lists and the rings. *)

(* The entries of a list are in use, and prev leads back along them. *)
LEMMA OnRing ==
  ASSUME IInv, NEW L, ListsAre(next, off, L), NEW h \in ListHead, NEW i \in 1..Len(L[h])
  PROVE  /\ L[h][i] \in Entry /\ L[h][i] \in Node \ off
         /\ prev[L[h][i]] = Before(L[h], h, i) /\ Before(L[h], h, i) \in Node \ off
         /\ next[L[h][i]] # L[h][i]
<1> DEFINE s == L[h]
           B(k) == IF k = 0 THEN h ELSE s[k]
           T == {k \in 0..Len(s) : B(k) \in Node \ off}
<1>1. /\ Len(s) \in Nat /\ h \in Node \ off
      /\ \A k \in 1..Len(s) : s[k] \in Entry /\ s[k] \in Node
      /\ \A k \in 1..Len(s) : next[s[k]] = Met(s, h, k + 1)
  BY EntriesAre, BeforeIs DEF Run
<1>2. \A k \in 1..Len(s) : next[Before(s, h, k)] = s[k]
  BY BeforeIs
<1> HIDE DEF s
<1>3. 0 \in T
  BY <1>1
<1>4. ASSUME NEW k \in 0..Len(s) - 1, k \in T PROVE k + 1 \in T
  <2>1. k + 1 \in 1..Len(s) /\ Before(s, h, k + 1) = B(k)
    BY <1>1 DEF Before
  <2>2. next[B(k)] = s[k + 1]
    BY <1>2, <2>1
  <2>3. s[k + 1] \in Node \ off
    BY <1>4, <2>2 DEF IInv, RingsOK
  <2>4. B(k + 1) = s[k + 1] /\ k + 1 \in 0..Len(s)
    BY <2>1
  <2> QED BY <2>3, <2>4
<1>5. 0..Len(s) \subseteq T
  <2> HIDE DEF T
  <2> QED BY <1>1, <1>3, <1>4, UpTo
<1>6. i \in 1..Len(s)
  BY DEF s
<1>7. s[i] \in Node \ off /\ Before(s, h, i) \in Node \ off
  <2>1. i \in 0..Len(s) /\ i - 1 \in 0..Len(s) /\ i # 0
    BY <1>1, <1>6
  <2>2. B(i) \in Node \ off /\ B(i - 1) \in Node \ off
    BY <1>5, <2>1
  <2>3. B(i - 1) = Before(s, h, i) /\ B(i) = s[i]
    BY <1>6, <2>1 DEF Before
  <2> QED BY <2>2, <2>3
<1>8. prev[s[i]] = Before(s, h, i)
  BY <1>2, <1>6, <1>7 DEF IInv, RingsOK
<1>9. next[s[i]] # s[i]
  <2>1. CASE i = Len(s)
    BY <1>1, <1>6, <2>1, HeadsApart DEF Met
  <2>2. CASE i # Len(s)
    <3>1. i + 1 \in 1..Len(s) /\ i + 1 # i
      BY <1>1, <1>6, <2>2
    <3>2. \A j, k \in 1..Len(s) : s[j] = s[k] => j = k
      BY EachOnce DEF s
    <3> QED BY <1>1, <1>6, <3>1, <3>2 DEF Met
  <2> QED BY <2>1, <2>2
<1> QED
  BY <1>1, <1>6, <1>7, <1>8, <1>9 DEF s

(* The links of a head: to the first and to the last of its list. *)
LEMMA HeadLinks ==
  ASSUME IInv, NEW L, ListsAre(next, off, L), NEW h \in ListHead \ off
  PROVE  prev[h] = Last(L[h], h) /\ (next[h] = h <=> L[h] = <<>>)
<1> DEFINE s == L[h]
<1>1. Len(s) \in Nat /\ Run(next, next[h], s, h) /\ s \in Seq(Entry) /\ h \in Node \ off
      /\ \A k \in 1..Len(s) : s[k] \in Entry
  BY EntriesAre
<1>2. CASE s = <<>>
  <2>1. next[h] = h
    BY <1>1, <1>2 DEF Run, Met
  <2> QED BY <1>1, <1>2, <2>1 DEF Last, IInv, RingsOK
<1>3. CASE s # <<>>
  <2>1. Len(s) \in 1..Len(s) /\ 1 \in 1..Len(s) /\ Len(s) # 0
    BY <1>1, <1>3
  <2>2. next[s[Len(s)]] = h /\ s[Len(s)] \in Node \ off
    <3>1. s[Len(s)] \in Node \ off
      BY <2>1, OnRing
    <3>2. next[s[Len(s)]] = Met(s, h, Len(s) + 1)
      BY <1>1, <2>1 DEF Run
    <3> QED BY <1>1, <3>1, <3>2 DEF Met
  <2>3. prev[h] = s[Len(s)]
    BY <2>2 DEF IInv, RingsOK
  <2>4. next[h] = s[1]
    BY <1>1, <2>1 DEF Run, Met
  <2> QED BY <1>1, <1>3, <2>1, <2>3, <2>4, HeadsApart DEF Last
<1> QED
  BY <1>2, <1>3

(* An entry that the client may add is on no list. *)
LEMMA FreeEntry ==
  ASSUME IInv, NEW L, ListsAre(next, off, L), NEW e \in Entry, Free(e)
  PROVE  Nowhere(L, e)
BY OnRing DEF Nowhere, Free, list_empty

(* A head that the client may put in the place of another has no entries. *)
LEMMA FreeHead ==
  ASSUME IInv, NEW L, ListsAre(next, off, L), NEW h \in ListHead, Free(h)
  PROVE  L[h] = <<>>
BY HeadLinks DEF Free, list_empty, ListsAre

(* What IInv says of links that lead nowhere. *)
LEMMA NeighboursNowhere ==
  ASSUME IInv, NEW L, ListsAre(next, off, L), NEW e \in Entry \ off, Nowhere(L, e)
  PROVE  /\ prev[e] \in Entry \ off /\ Nowhere(L, prev[e]) /\ next[prev[e]] = e
         /\ next[e] \in Node \ off
<1>1. e \in Node \ off
  BY DEF Node
<1>2. prev[e] \in Node \ off /\ next[prev[e]] = e /\ next[e] \in Node \ off
  BY <1>1 DEF IInv, RingsOK
<1>3. Nowhere(L, prev[e]) /\ prev[e] \notin ListHead
  BY <1>2, NowhereBefore
<1> QED
  BY <1>2, <1>3 DEF Node

(* Elements that are on no list may be linked as they like. *)
LEMMA Elsewhere ==
  ASSUME NEW nx, NEW gone, NEW L, ListsAre(nx, gone, L), NEW nx2, NEW S,
         \A x \in S : x \in Entry /\ Nowhere(L, x),
         \A x \in Node \ S : nx2[x] = nx[x],
         NEW gone2, \A g \in ListHead : g \in gone2 <=> g \in gone
  PROVE  ListsAre(nx2, gone2, L)
<1>1. ASSUME NEW h \in ListHead PROVE Untouched(nx, nx2, gone, L, h)
  <2>1. h \in Node \ S
    BY EntriesAre
  <2>2. ASSUME NEW i \in 1..Len(L[h]) PROVE L[h][i] \in Node \ S
    BY EntriesAre DEF Nowhere
  <2> QED BY <2>1, <2>2 DEF Untouched
<1> QED
  BY <1>1, ListsStay

(* INIT_LIST_HEAD changes no list. *)
LEMMA InitKeepsLists ==
  ASSUME IInv, NEW L, ListsAre(next, off, L), NEW x \in Node, INIT_LIST_HEAD(x)
  PROVE  ListsAre(next', off', L)
<1>1. LinkTypes(next)
  BY DEF IInv, TypeOK, LinkTypes
<1>2. x \in off /\ next' = [next EXCEPT ![x] = x] /\ off' = off \ {x}
  BY DEF INIT_LIST_HEAD
<1>3. IF x \in ListHead THEN x \in off ELSE Nowhere(L, x)
  BY <1>2, FreeEntry DEF Free, Node
<1> QED
  BY <1>1, <1>2, <1>3, Initialised

(* list_add and list_add_tail add to the list of head only. *)
LEMMA AddedToLists ==
  ASSUME IInv, NEW L, ListsAre(next, off, L), NEW e \in Entry, NEW h \in ListHead
  PROVE  /\ list_add(e, h) =>
              Nowhere(L, e) /\ ListsAre(next', off', [L EXCEPT ![h] = <<e>> \o @])
         /\ list_add_tail(e, h) =>
              Nowhere(L, e) /\ ListsAre(next', off', [L EXCEPT ![h] = Append(@, e)])
<1>1. LinkTypes(next)
  BY DEF IInv, TypeOK, LinkTypes
<1>2. ASSUME list_add(e, h)
      PROVE  Nowhere(L, e) /\ ListsAre(next', off', [L EXCEPT ![h] = <<e>> \o L[h]])
  <2>1. h \in ListHead \ off /\ Nowhere(L, e)
    BY <1>2, FreeEntry DEF list_add
  <2>2. next' = [next EXCEPT ![e] = next[h], ![h] = e] /\ off' = off \ {e}
    BY <1>2 DEF list_add, __list_add
  <2> QED BY <1>1, <2>1, <2>2, PutFirst
<1>3. ASSUME list_add_tail(e, h)
      PROVE  Nowhere(L, e) /\ ListsAre(next', off', [L EXCEPT ![h] = Append(L[h], e)])
  <2>1. h \in ListHead \ off /\ Nowhere(L, e) /\ prev[h] = Last(L[h], h)
    BY <1>3, FreeEntry, HeadLinks DEF list_add_tail
  <2>2. next' = [next EXCEPT ![e] = h, ![Last(L[h], h)] = e] /\ off' = off \ {e}
    BY <1>3, <2>1 DEF list_add_tail, __list_add
  <2> QED BY <1>1, <2>1, <2>2, PutLast
<1> QED
  BY <1>2, <1>3

(* A deletion takes entry off the list it is on, if it is on one. *)
LEMMA TakenFromLists ==
  ASSUME IInv, NEW L, ListsAre(next, off, L), NEW e \in Entry,
         list_del(e) \/ list_del_init(e)
  PROVE  /\ \A h \in ListHead : \A i \in 1..Len(L[h]) : L[h][i] = e =>
              ListsAre(next', off', [L EXCEPT ![h] = Abs!Without(L[h], i)])
         /\ Nowhere(L, e) => ListsAre(next', off', L)
<1>1. next \in [Node -> Node \cup {Garbage}] /\ e \in Node \ off /\ prev[e] \in Node
  BY DEF IInv, TypeOK, RingsOK, list_del, list_del_init, Node
<1>2. /\ prev[e] # e => next'[prev[e]] = next[e]
      /\ \A x \in Node \ {e, prev[e]} : next'[x] = next[x]
  BY <1>1 DEF list_del, list_del_init
<1>3. \A g \in ListHead : g \in off' <=> g \in off
  BY HeadsApart DEF list_del, list_del_init
<1>4. ASSUME NEW h \in ListHead, NEW i \in 1..Len(L[h]), L[h][i] = e
      PROVE  ListsAre(next', off', [L EXCEPT ![h] = Abs!Without(L[h], i)])
  <2>1. prev[e] = Before(L[h], h, i) /\ prev[e] # e
    BY <1>4, OnRing, BeforeIs
  <2>2. next'[prev[e]] = next[e] /\ \A x \in Node \ {e, prev[e]} : next'[x] = next[x]
    BY <1>2, <2>1
  <2> DEFINE p == prev[e]
             nx2 == next'
             gone2 == off'
  <2>3. p = Before(L[h], h, i) /\ nx2[p] = next[L[h][i]]
        /\ (\A x \in Node \ {L[h][i], p} : nx2[x] = next[x])
        /\ \A g \in ListHead : g \in gone2 <=> g \in off
    BY <1>3, <1>4, <2>1, <2>2
  <2> HIDE DEF p, nx2, gone2
  <2>4. ListsAre(nx2, gone2, [L EXCEPT ![h] = Abs!Without(L[h], i)])
    BY <2>3, TakenOut
  <2> QED BY <2>4 DEF nx2, gone2
<1>5. ASSUME Nowhere(L, e) PROVE ListsAre(next', off', L)
  <2>1. \A x \in {e, prev[e]} : x \in Entry /\ Nowhere(L, x)
    BY <1>1, <1>5, NeighboursNowhere
  <2> DEFINE S == {e, prev[e]}
             nx2 == next'
             gone2 == off'
  <2>2. (\A x \in S : x \in Entry /\ Nowhere(L, x)) /\ (\A x \in Node \ S : nx2[x] = next[x])
        /\ \A g \in ListHead : g \in gone2 <=> g \in off
    BY <1>2, <1>3, <2>1
  <2> HIDE DEF S, nx2, gone2
  <2>3. ListsAre(nx2, gone2, L)
    BY <2>2, Elsewhere
  <2> QED BY <2>3 DEF nx2, gone2
<1> QED
  BY <1>4, <1>5

(* list_splice, also of an empty list. *)
LEMMA SplicedLists ==
  ASSUME IInv, NEW L, ListsAre(next, off, L), NEW g \in ListHead, NEW h \in ListHead,
         list_splice(g, h)
  PROVE  g # h /\ ListsAre(next', off', [L EXCEPT ![h] = L[g] \o @, ![g] = <<>>])
<1>1. g \in ListHead \ off /\ h \in ListHead \ off /\ g # h
  BY DEF list_splice
<1>2. prev[g] = Last(L[g], g) /\ (next[g] = g <=> L[g] = <<>>)
  BY <1>1, HeadLinks
<1>3. CASE next[g] = g
  <2>1. next' = next /\ off' = off
    BY <1>3 DEF list_splice, links
  <2>2. L \in [ListHead -> Seq(Entry)] /\ L[g] = <<>> /\ L[h] \in Seq(Entry)
    BY <1>2, <1>3 DEF ListsAre
  <2>3. [L EXCEPT ![h] = L[g] \o L[h], ![g] = <<>>] = L
    <3>1. L[g] \o L[h] = L[h]
      BY <2>2
    <3>2. [L EXCEPT ![h] = L[h], ![g] = L[g]] = L
      BY <2>2
    <3> QED BY <2>2, <3>1, <3>2
  <2> QED BY <1>1, <2>1, <2>3
<1>4. CASE next[g] # g
  <2>1. LinkTypes(next)
    BY DEF IInv, TypeOK, LinkTypes
  <2>2. Len(L[g]) # 0
    <3>1. L[g] \in Seq(Entry)
      BY DEF ListsAre
    <3> QED BY <1>2, <1>4, <3>1
  <2>3. next' = [next EXCEPT ![h] = next[g], ![Last(L[g], g)] = next[h]] /\ off' = off \cup {g}
    BY <1>2, <1>4 DEF list_splice, links
  <2>4. ListsAre(next', off', [L EXCEPT ![h] = L[g] \o L[h], ![g] = <<>>])
    BY <1>1, <2>1, <2>2, <2>3, SplicedIn
  <2> QED BY <1>1, <2>4
<1> QED
  BY <1>3, <1>4

(* Where list_replace writes. *)
LEMMA ReplacedLinks ==
  ASSUME IInv, NEW old \in Node \ off, NEW new \in Node, old # new
  PROVE  Replaced(old, new).next =
           [next EXCEPT ![new] = next[old], ![IF next[old] = old THEN new ELSE prev[old]] = new]
<1>1. next[old] \in Node /\ prev \in [Node -> Node \cup {Garbage}] /\ next \in [Node -> Node \cup {Garbage}]
  BY DEF IInv, TypeOK, RingsOK
<1> QED
  BY <1>1 DEF Replaced

(* An entry that is replaced is on a list, alone, or on a ring of entries only. *)
LEMMA ReplacedInLists ==
  ASSUME IInv, NEW L, ListsAre(next, off, L), NEW old \in Entry, NEW new \in Entry,
         list_replace(old, new) \/ list_replace_init(old, new)
  PROVE  /\ Nowhere(L, new)
         /\ \A h \in ListHead : \A i \in 1..Len(L[h]) : L[h][i] = old =>
              ListsAre(next', off', [L EXCEPT ![h] = [L[h] EXCEPT ![i] = new]])
         /\ Nowhere(L, old) => ListsAre(next', off', L)
<1> DEFINE q == IF next[old] = old THEN new ELSE prev[old]
<1>1. /\ next \in [Node -> Node \cup {Garbage}] /\ old \in Node \ off /\ new \in Node
      /\ Free(new) /\ old # new /\ prev[old] \in Node
  BY DEF IInv, TypeOK, RingsOK, list_replace, list_replace_init, Node
<1>2. Nowhere(L, new)
  BY <1>1, FreeEntry
<1>3. Replaced(old, new).next = [next EXCEPT ![new] = next[old], ![q] = new]
  BY <1>1, ReplacedLinks
<1> HIDE DEF q
<1>4. /\ q # old => next'[q] = new
      /\ q # new => next'[new] = next[old]
      /\ \A x \in Node \ {old, new, q} : next'[x] = next[x]
  <2>1. q \in Node
    BY <1>1 DEF q
  <2>2. CASE list_replace(old, new)
    BY <1>1, <1>3, <2>1, <2>2 DEF list_replace
  <2>3. CASE list_replace_init(old, new)
    BY <1>1, <1>3, <2>1, <2>3 DEF list_replace_init
  <2> QED BY <2>2, <2>3
<1>5. \A g \in ListHead : g \in off' <=> g \in off
  BY HeadsApart DEF list_replace, list_replace_init
<1>6. ASSUME NEW h \in ListHead, NEW i \in 1..Len(L[h]), L[h][i] = old
      PROVE  ListsAre(next', off', [L EXCEPT ![h] = [L[h] EXCEPT ![i] = new]])
  <2>1. q = Before(L[h], h, i) /\ q # old
    <3>1. prev[old] = Before(L[h], h, i) /\ next[old] # old /\ prev[old] # old
      BY <1>6, OnRing, BeforeIs
    <3> QED BY <3>1 DEF q
  <2>2. q # new
    <3>1. CASE i = 1
      BY <2>1, <3>1, HeadsApart DEF Before
    <3>2. CASE i # 1
      <4>1. i - 1 \in 1..Len(L[h]) /\ q = L[h][i - 1]
        BY <2>1, <3>2, EntriesAre DEF Before
      <4> QED BY <1>2, <4>1 DEF Nowhere
    <3> QED BY <3>1, <3>2
  <2>3. next'[q] = new /\ next'[new] = next[old] /\ \A x \in Node \ {old, new, q} : next'[x] = next[x]
    BY <1>4, <2>1, <2>2
  <2> DEFINE nx2 == next'
             gone2 == off'
  <2>4. q = Before(L[h], h, i) /\ nx2[q] = new /\ nx2[new] = next[L[h][i]]
        /\ (\A x \in Node \ {L[h][i], new, q} : nx2[x] = next[x])
        /\ \A g \in ListHead : g \in gone2 <=> g \in off
    BY <1>1, <1>5, <1>6, <2>1, <2>3
  <2> HIDE DEF nx2, gone2
  <2>5. ListsAre(nx2, gone2, [L EXCEPT ![h] = [L[h] EXCEPT ![i] = new]])
    BY <1>2, <2>4, PutInPlace
  <2> QED BY <2>5 DEF nx2, gone2
<1>7. ASSUME Nowhere(L, old) PROVE ListsAre(next', off', L)
  <2>1. \A x \in {old, new, q} : x \in Entry /\ Nowhere(L, x)
    BY <1>1, <1>2, <1>7, NeighboursNowhere DEF q
  <2> DEFINE S == {old, new, q}
             nx2 == next'
             gone2 == off'
  <2>2. (\A x \in S : x \in Entry /\ Nowhere(L, x)) /\ (\A x \in Node \ S : nx2[x] = next[x])
        /\ \A g \in ListHead : g \in gone2 <=> g \in off
    BY <1>4, <1>5, <2>1
  <2> HIDE DEF S, nx2, gone2
  <2>3. ListsAre(nx2, gone2, L)
    BY <2>2, Elsewhere
  <2> QED BY <2>3 DEF nx2, gone2
<1> QED
  BY <1>2, <1>6, <1>7

(* A head that is replaced leaves its entries to the new one. *)
LEMMA ReplacedHeads ==
  ASSUME IInv, NEW L, ListsAre(next, off, L), NEW old \in ListHead, NEW new \in ListHead,
         list_replace(old, new) \/ list_replace_init(old, new)
  PROVE  L[new] = <<>> /\ ListsAre(next', off', [L EXCEPT ![new] = L[old], ![old] = <<>>])
<1> DEFINE nx2 == Replaced(old, new).next
           gone2 == (off \ {new}) \cup {old}
           M == [L EXCEPT ![new] = L[old], ![old] = <<>>]
<1>1. /\ old \in Node \ off /\ old \in ListHead \ off /\ new \in Node /\ old # new /\ Free(new)
      /\ LinkTypes(next)
  BY DEF IInv, TypeOK, LinkTypes, list_replace, list_replace_init, Node
<1>2. L[new] = <<>>
  BY <1>1, FreeHead
<1>3. prev[old] = Last(L[old], old) /\ (next[old] = old <=> L[old] = <<>>)
  BY <1>1, HeadLinks
<1>4. nx2 = [next EXCEPT ![new] = next[old],
                         ![IF L[old] = <<>> THEN new ELSE Last(L[old], old)] = new]
  <2> HIDE DEF nx2
  <2>1. nx2 = [next EXCEPT ![new] = next[old], ![IF next[old] = old THEN new ELSE prev[old]] = new]
    BY <1>1, ReplacedLinks DEF nx2
  <2>2. (IF next[old] = old THEN new ELSE prev[old])
          = IF L[old] = <<>> THEN new ELSE Last(L[old], old)
    BY <1>3
  <2> QED BY <2>1, <2>2
<1>5. ListsAre(nx2, gone2, M)
  <2> HIDE DEF nx2
  <2> QED BY <1>1, <1>2, <1>4, HeadMoved
<1>6. CASE list_replace(old, new)
  <2>1. next' = nx2 /\ off' = gone2
    BY <1>6 DEF list_replace
  <2> HIDE DEF nx2, gone2, M
  <2>2. ListsAre(next', off', M)
    BY <1>5, <2>1
  <2> QED BY <1>2, <2>2 DEF M
<1>7. CASE list_replace_init(old, new)
  <2>1. next' = [nx2 EXCEPT ![old] = old] /\ off' = gone2 \ {old}
    BY <1>1, <1>7 DEF list_replace_init
  <2>2. LinkTypes(nx2)
    <3>1. next[old] \in Node \cup {Garbage}
      BY <1>1 DEF LinkTypes
    <3> HIDE DEF nx2
    <3> QED BY <1>1, <1>4, <3>1 DEF LinkTypes
  <2>3. old \in gone2
    OBVIOUS
  <2> HIDE DEF nx2, gone2, M
  <2>4. ListsAre(next', off', M)
    BY <1>1, <1>5, <2>1, <2>2, <2>3, Initialised
  <2> QED BY <1>2, <2>4 DEF M
<1> QED
  BY <1>6, <1>7

-----------------------------------------------------------------------------
(* The calls are those of Lists. *)

ListInv == IInv /\ ListsAre(next, off, ListsOf(next, off))

(* What Lists means by an entry on a list. *)
LEMMA OnAList ==
  ASSUME NEW L, L = ListsOf(next, off), ListsAre(next, off, L), NEW e, NEW h \in ListHead
  PROVE  Abs!On(e, h) <=> \E i \in 1..Len(L[h]) : L[h][i] = e
<1>1. DOMAIN L[h] = 1..Len(L[h])
  BY EntriesAre
<1>2. Abs!On(e, h) <=> e \in Abs!Range(L[h])
  BY DEF Abs!On
<1>3. e \in Abs!Range(L[h]) <=> \E i \in DOMAIN L[h] : L[h][i] = e
  BY Zenon DEF Abs!Range
<1> QED
  BY <1>1, <1>2, <1>3

(* The calls one by one: the invariant stays, and Lists has the step. *)
LEMMA CallsInit ==
  ASSUME ListInv, NEW x \in Node, INIT_LIST_HEAD(x)
  PROVE  ListInv' /\ UNCHANGED ListsOf(next, off)
<1> DEFINE L == ListsOf(next, off)
<1>1. IInv /\ ListsAre(next, off, L)
  BY DEF ListInv
<1> HIDE DEF L
<1>2. ListsAre(next', off', L)
  BY <1>1, InitKeepsLists
<1>3. ListsOf(next', off') = L
  BY <1>2, ListsFound
<1>4. IInv'
  BY <1>1 DEF IInv, TypeOK, RingsOK, INIT_LIST_HEAD
<1> QED
  BY <1>2, <1>3, <1>4 DEF ListInv, L

(* list_add pushes, list_add_tail appends. *)
LEMMA CallsAdd ==
  ASSUME ListInv, NEW e \in Entry, NEW h \in ListHead
  PROVE  /\ list_add(e, h) => ListInv' /\ Abs!AddFront(e, h)
         /\ list_add_tail(e, h) => ListInv' /\ Abs!AddBack(e, h)
<1> DEFINE L == ListsOf(next, off)
<1>1. IInv /\ ListsAre(next, off, L)
  BY DEF ListInv
<1> HIDE DEF L
<1>2. Nowhere(L, e) => \A g \in ListHead : ~ Abs!On(e, g)
  BY <1>1, OnAList DEF Nowhere, L
<1>3. ASSUME list_add(e, h) PROVE ListInv' /\ Abs!AddFront(e, h)
  <2>1. Nowhere(L, e) /\ ListsAre(next', off', [L EXCEPT ![h] = <<e>> \o @])
    BY <1>1, <1>3, AddedToLists
  <2>2. ListsOf(next', off') = [L EXCEPT ![h] = <<e>> \o @]
    BY <2>1, ListsFound
  <2>3. IInv'
    BY <1>1, <1>3, Added
  <2> QED BY <1>2, <2>1, <2>2, <2>3 DEF ListInv, Abs!AddFront, L
<1>4. ASSUME list_add_tail(e, h) PROVE ListInv' /\ Abs!AddBack(e, h)
  <2>1. Nowhere(L, e) /\ ListsAre(next', off', [L EXCEPT ![h] = Append(@, e)])
    BY <1>1, <1>4, AddedToLists
  <2>2. ListsOf(next', off') = [L EXCEPT ![h] = Append(@, e)]
    BY <2>1, ListsFound
  <2>3. IInv'
    BY <1>1, <1>4, Added
  <2> QED BY <1>2, <2>1, <2>2, <2>3 DEF ListInv, Abs!AddBack, L
<1> QED
  BY <1>3, <1>4

(* list_del and list_del_init take off one list or none. *)
LEMMA CallsTake ==
  ASSUME ListInv, NEW e \in Entry, list_del(e) \/ list_del_init(e)
  PROVE  /\ ListInv'
         /\ \A h \in ListHead : Abs!Take(e, h) \/ ~ Abs!On(e, h)
         /\ (\A h \in ListHead : ~ Abs!On(e, h)) => UNCHANGED ListsOf(next, off)
<1> DEFINE L == ListsOf(next, off)
<1>1. IInv /\ ListsAre(next, off, L)
  BY DEF ListInv
<1> HIDE DEF L
<1>2. IInv'
  BY <1>1, Deleted DEF Node
<1>3. ASSUME NEW h \in ListHead, Abs!On(e, h)
      PROVE  Abs!Take(e, h) /\ ListInv'
  <2>1. PICK i \in 1..Len(L[h]) : L[h][i] = e
    BY <1>1, <1>3, OnAList DEF L
  <2>2. i \in DOMAIN L[h]
    BY <1>1, EntriesAre
  <2>3. ListsAre(next', off', [L EXCEPT ![h] = Abs!Without(L[h], i)])
    BY <1>1, <2>1, TakenFromLists
  <2>4. ListsOf(next', off') = [L EXCEPT ![h] = Abs!Without(L[h], i)]
    BY <2>3, ListsFound
  <2> QED BY <1>2, <2>1, <2>2, <2>3, <2>4 DEF ListInv, Abs!Take, L
<1>4. ASSUME \A h \in ListHead : ~ Abs!On(e, h)
      PROVE  ListInv' /\ UNCHANGED ListsOf(next, off)
  <2>1. Nowhere(L, e)
    BY <1>1, <1>4, OnAList DEF Nowhere, L
  <2>2. ListsAre(next', off', L)
    BY <1>1, <2>1, TakenFromLists
  <2>3. ListsOf(next', off') = L
    BY <2>2, ListsFound
  <2> QED BY <1>2, <2>2, <2>3 DEF ListInv, L
<1> QED
  BY <1>3, <1>4

(* list_splice moves all entries. *)
LEMMA CallsSplice ==
  ASSUME ListInv, NEW g \in ListHead, NEW h \in ListHead, list_splice(g, h)
  PROVE  ListInv' /\ Abs!Splice(g, h)
<1> DEFINE L == ListsOf(next, off)
           M == [L EXCEPT ![h] = L[g] \o @, ![g] = <<>>]
<1>1. IInv /\ ListsAre(next, off, L)
  BY DEF ListInv
<1> HIDE DEF L
<1>2. g # h /\ ListsAre(next', off', M)
  BY <1>1, SplicedLists
<1>3. ListsOf(next', off') = M
  <2> HIDE DEF M
  <2> QED BY <1>2, ListsFound
<1>4. IInv'
  BY <1>1, Spliced
<1> QED
  BY <1>2, <1>3, <1>4 DEF ListInv, Abs!Splice, L

(* list_replace of entries. *)
LEMMA CallsReplace ==
  ASSUME ListInv, NEW old \in Entry, NEW new \in Entry,
         list_replace(old, new) \/ list_replace_init(old, new)
  PROVE  /\ ListInv'
         /\ \A h \in ListHead : Abs!Swap(old, new, h) \/ ~ Abs!On(old, h)
         /\ (\A h \in ListHead : ~ Abs!On(old, h)) => UNCHANGED ListsOf(next, off)
<1> DEFINE L == ListsOf(next, off)
<1>1. IInv /\ ListsAre(next, off, L)
  BY DEF ListInv
<1> HIDE DEF L
<1>2. IInv'
  BY <1>1, ReplacedOK DEF Node
<1>3. \A g \in ListHead : ~ Abs!On(new, g)
  BY <1>1, ReplacedInLists, OnAList DEF Nowhere, L
<1>4. ASSUME NEW h \in ListHead, Abs!On(old, h)
      PROVE  Abs!Swap(old, new, h) /\ ListInv'
  <2>1. PICK i \in 1..Len(L[h]) : L[h][i] = old
    BY <1>1, <1>4, OnAList DEF L
  <2>2. i \in DOMAIN L[h]
    BY <1>1, EntriesAre
  <2>3. ListsAre(next', off', [L EXCEPT ![h] = [L[h] EXCEPT ![i] = new]])
    BY <1>1, <2>1, ReplacedInLists
  <2>4. ListsOf(next', off') = [L EXCEPT ![h] = [L[h] EXCEPT ![i] = new]]
    BY <2>3, ListsFound
  <2> QED BY <1>2, <1>3, <2>1, <2>2, <2>3, <2>4 DEF ListInv, Abs!Swap, L
<1>5. ASSUME \A h \in ListHead : ~ Abs!On(old, h)
      PROVE  ListInv' /\ UNCHANGED ListsOf(next, off)
  <2>1. Nowhere(L, old)
    BY <1>1, <1>5, OnAList DEF Nowhere, L
  <2>2. ListsAre(next', off', L)
    BY <1>1, <2>1, ReplacedInLists
  <2>3. ListsOf(next', off') = L
    BY <2>2, ListsFound
  <2> QED BY <1>2, <2>2, <2>3 DEF ListInv, L
<1> QED
  BY <1>4, <1>5

(* list_replace of heads. *)
LEMMA CallsMove ==
  ASSUME ListInv, NEW old \in ListHead, NEW new \in ListHead,
         list_replace(old, new) \/ list_replace_init(old, new)
  PROVE  ListInv' /\ Abs!Move(old, new)
<1> DEFINE L == ListsOf(next, off)
           M == [L EXCEPT ![new] = L[old], ![old] = <<>>]
<1>1. IInv /\ ListsAre(next, off, L)
  BY DEF ListInv
<1> HIDE DEF L
<1>2. L[new] = <<>> /\ ListsAre(next', off', M)
  BY <1>1, ReplacedHeads
<1>3. ListsOf(next', off') = M
  <2> HIDE DEF M
  <2> QED BY <1>2, ListsFound
<1>4. IInv'
  BY <1>1, ReplacedOK DEF Node
<1> QED
  BY <1>2, <1>3, <1>4 DEF ListInv, Abs!Move, L

(* All lists are empty at first. *)
LEMMA ListsAtFirst ==
  ASSUME Init PROVE ListInv /\ Abs!AbsInit
<1> DEFINE L == [h \in ListHead |-> <<>>]
<1>1. IInv
  BY ConstantsAssumption DEF Init, IInv, TypeOK, RingsOK, Node
<1>2. ListsAre(next, off, L)
  <2>1. L \in [ListHead -> Seq(Entry)]
    OBVIOUS
  <2>2. ASSUME NEW h \in ListHead PROVE h \notin off /\ Run(next, next[h], L[h], h)
    BY HeadsApart DEF Init, Run, Met, Node
  <2> QED BY <2>1, <2>2 DEF ListsAre
<1> HIDE DEF L
<1>3. ListsOf(next, off) = L
  BY <1>2, ListsFound
<1> QED
  BY <1>1, <1>2, <1>3 DEF ListInv, Abs!AbsInit, L

(* Every call is what the lists expect or changes no list. *)
LEMMA CallsOnLists ==
  ASSUME ListInv, Change
  PROVE  ListInv' /\ [Abs!AbsNext]_(ListsOf(next, off))
<1>1. CASE \E x \in Node : INIT_LIST_HEAD(x)
  BY <1>1, CallsInit
<1>2. CASE \E entry \in Entry, head \in ListHead :
             list_add(entry, head) \/ list_add_tail(entry, head)
  BY <1>2, CallsAdd DEF Abs!AbsNext
<1>3. CASE \E entry \in Entry : list_del(entry) \/ list_del_init(entry)
  BY <1>3, CallsTake DEF Abs!AbsNext
<1>4. CASE \E list, head \in ListHead : list_splice(list, head)
  BY <1>4, CallsSplice DEF Abs!AbsNext
<1>5. CASE \E old, new \in Node : list_replace(old, new) \/ list_replace_init(old, new)
  <2>1. PICK old \in Node, new \in Node : list_replace(old, new) \/ list_replace_init(old, new)
    BY <1>5
  <2>2. (old \in ListHead /\ new \in ListHead) \/ (old \in Entry /\ new \in Entry)
    BY <2>1 DEF list_replace, list_replace_init, SameKind, Node
  <2>3. CASE old \in ListHead /\ new \in ListHead
    BY <2>1, <2>3, CallsMove DEF Abs!AbsNext
  <2>4. CASE old \in Entry /\ new \in Entry
    BY <2>1, <2>4, CallsReplace DEF Abs!AbsNext
  <2> QED BY <2>2, <2>3, <2>4
<1> QED
  BY <1>1, <1>2, <1>3, <1>4, <1>5 DEF Change

(* Without a write nothing changes. *)
LEMMA ListsUnchanged ==
  ASSUME ListInv, UNCHANGED links
  PROVE  ListInv' /\ UNCHANGED ListsOf(next, off)
<1>1. next' = next /\ prev' = prev /\ off' = off
  BY DEF links
<1> QED
  BY <1>1 DEF ListInv, IInv, TypeOK, RingsOK

(* The lists are what a walk from each head meets. *)
LEMMA ListsReturn == ASSUME ListInv PROVE WalksReturn
<1> DEFINE L == ListsOf(next, off)
<1>1. ListsAre(next, off, L)
  BY DEF ListInv
<1> HIDE DEF L
<1>2. ASSUME NEW h \in ListHead \ off PROVE \E s \in Lines : Run(next, next[h], s, h)
  <2>1. L[h] \in Seq(Entry) /\ Run(next, next[h], L[h], h)
    BY <1>1, EntriesAre
  <2>2. L[h] \in Lines
    BY <1>1, <2>1, EachOnce, LinesFit
  <2> QED BY <2>1, <2>2
<1> QED
  BY <1>2 DEF WalksReturn

(* Whatever calls the client makes: a walk from the head of a list meets   *)
(* entries, none of them twice, and comes back to that head (WalksReturn). *)
THEOREM WalksReturnAlways == Spec => []WalksReturn
<1>1. Init => ListInv
  BY ListsAtFirst
<1>2. ListInv /\ [Change]_links => ListInv'
  BY CallsOnLists, ListsUnchanged
<1>3. ListInv => WalksReturn
  BY ListsReturn
<1> QED BY <1>1, <1>2, <1>3, PTL DEF Spec

(* Whatever calls the client makes: the links stand for lists of entries,  *)
(* each entry on one at most, and every call is one of the operations of   *)
(* Lists or changes no list.                                               *)
THEOREM RingsImplementLists == Spec => ImplementsLists
<1>1. Init => ListInv /\ Abs!AbsInit
  BY ListsAtFirst
<1>2. ListInv /\ [Change]_links => ListInv' /\ [Abs!AbsNext]_(ListsOf(next, off))
  BY CallsOnLists, ListsUnchanged
<1> QED BY <1>1, <1>2, PTL DEF Spec, ImplementsLists, Abs!AbsSpec

(* And it is the operation that its name promises: list_add pushes,        *)
(* list_add_tail appends, list_del takes its entry and no other,           *)
(* list_splice puts the entries in front, list_replace keeps the place.    *)
THEOREM CallsKept == Spec => CallsKeepTheirPlace
<1> DEFINE Kept ==
  /\ \A entry \in Entry, head \in ListHead :
       /\ list_add(entry, head) => Abs!AddFront(entry, head)
       /\ list_add_tail(entry, head) => Abs!AddBack(entry, head)
       /\ list_del(entry) \/ list_del_init(entry) =>
            Abs!Take(entry, head) \/ ~Abs!On(entry, head)
  /\ \A list, head \in ListHead : list_splice(list, head) => Abs!Splice(list, head)
  /\ \A old, new \in Entry, head \in ListHead :
       list_replace(old, new) \/ list_replace_init(old, new) =>
         Abs!Swap(old, new, head) \/ ~Abs!On(old, head)
  /\ \A old, new \in ListHead :
       list_replace(old, new) \/ list_replace_init(old, new) => Abs!Move(old, new)
<1>1. Init => ListInv
  BY ListsAtFirst
<1>2. ListInv /\ [Change]_links => ListInv'
  BY CallsOnLists, ListsUnchanged
<1>3. ListInv => Kept
  BY CallsAdd, CallsTake, CallsSplice, CallsReplace, CallsMove
<1>4. ListInv /\ [Change]_links => [Kept]_links
  BY <1>3
<1> QED BY <1>1, <1>2, <1>4, PTL DEF Spec, CallsKeepTheirPlace

-----------------------------------------------------------------------------
(* The loops. *)

(* What a loop still has to visit after the entry it is at, and where it   *)
(* goes next.                                                              *)
Later == SubSeq(todo, 2, Len(todo))
GoesTo == IF safe THEN n ELSE next[pos]

(* What the rest of a loop depends on. *)
Ahead == {Later[i] : i \in 1..Len(Later)} \cup (IF safe THEN {} ELSE {pos})

LoopInv ==
  /\ ListInv
  /\ loop \in ListHead \cup {None}
  /\ loop # None =>
       /\ loop \notin off
       /\ todo \in Seq(Entry)
       /\ \A i, j \in 1..Len(todo) : todo[i] = todo[j] => i = j
       /\ pos # loop => Ahead \cap off = {}
  /\ LoopVisitsAll

(* A sequence without its first element. *)
LEMMA RestIs ==
  ASSUME NEW s \in Seq(Entry), s # <<>>, NEW t, t = SubSeq(s, 2, Len(s))
  PROVE  t \in Seq(Entry) /\ Len(t) = Len(s) - 1 /\ \A i \in 1..Len(t) : t[i] = s[i + 1]
<1>1. Len(s) \in Nat /\ Len(s) # 0 /\ 2 \in Int /\ Len(s) \in Int /\ \A i \in 2..Len(s) : s[i] \in Entry
  OBVIOUS
<1>2. /\ SubSeq(s, 2, Len(s)) \in Seq(Entry)
      /\ Len(SubSeq(s, 2, Len(s))) = IF 2 <= Len(s) THEN Len(s) - 2 + 1 ELSE 0
      /\ \A i \in 1..Len(s) - 2 + 1 : SubSeq(s, 2, Len(s))[i] = s[2 + i - 1]
  BY <1>1, SubSeqProperties
<1>3. t \in Seq(Entry) /\ Len(t) = Len(s) - 1
  <2>1. t \in Seq(Entry) /\ Len(t) = IF 2 <= Len(s) THEN Len(s) - 2 + 1 ELSE 0
    BY <1>2
  <2>2. \A k \in Nat : k # 0 => (IF 2 <= k THEN k - 2 + 1 ELSE 0) = k - 1
    OBVIOUS
  <2>3. (IF 2 <= Len(s) THEN Len(s) - 2 + 1 ELSE 0) = Len(s) - 1
    BY <1>1, <2>2
  <2> QED BY <2>1, <2>3
<1>4. ASSUME NEW i \in 1..Len(t) PROVE t[i] = s[i + 1]
  <2>1. i \in 1..Len(s) - 2 + 1 /\ 2 + i - 1 = i + 1
    BY <1>1, <1>3
  <2> QED BY <1>2, <2>1
<1> QED
  BY <1>3, <1>4

(* A walk goes on from its first entry along the others. *)
LEMMA RunTail ==
  ASSUME NEW nx, NEW e, NEW h, NEW s \in Seq(Entry), Run(nx, e, s, h), s # <<>>
  PROVE  e = s[1] /\ s[1] \in Entry /\ Run(nx, nx[s[1]], SubSeq(s, 2, Len(s)), h)
<1> DEFINE t == SubSeq(s, 2, Len(s))
<1>1. Len(s) \in Nat /\ Len(s) # 0 /\ s[1] \in Entry
  OBVIOUS
<1>2. t \in Seq(Entry) /\ Len(t) = Len(s) - 1 /\ \A i \in 1..Len(t) : t[i] = s[i + 1]
  BY RestIs
<1> HIDE DEF t
<1>3. \A i \in 1..Len(s) : Met(t, h, i) = Met(s, h, i + 1)
  BY <1>1, <1>2 DEF Met
<1>4. e = s[1] /\ nx[s[1]] = Met(t, h, 1)
  BY <1>1, <1>3 DEF Run, Met
<1>5. ASSUME NEW i \in 1..Len(t) PROVE nx[t[i]] = Met(t, h, i + 1)
  <2>1. i + 1 \in 1..Len(s)
    BY <1>1, <1>2
  <2>2. nx[s[i + 1]] = Met(s, h, i + 1 + 1)
    BY <2>1 DEF Run
  <2> QED BY <1>2, <1>3, <2>1, <2>2
<1>6. Run(nx, nx[s[1]], t, h)
  BY <1>4, <1>5 DEF Run
<1> QED
  BY <1>1, <1>4, <1>6 DEF t

(* Where the loop is. *)
LEMMA LoopAt ==
  ASSUME LoopInv, loop # None, pos # loop
  PROVE  /\ loop \in ListHead \ off /\ todo # <<>> /\ pos = todo[1] /\ pos \in Entry
         /\ Later \in Seq(Entry) /\ Len(Later) = Len(todo) - 1 /\ Len(Later) \in Nat
         /\ \A i \in 1..Len(Later) : Later[i] = todo[i + 1] /\ Later[i] # pos
         /\ \A i, j \in 1..Len(Later) : Later[i] = Later[j] => i = j
         /\ Run(next, GoesTo, Later, loop)
<1>1. /\ loop \in ListHead \ off /\ todo \in Seq(Entry)
      /\ \A i, j \in 1..Len(todo) : todo[i] = todo[j] => i = j
      /\ todo # <<>> /\ pos = todo[1] /\ Run(next, GoesTo, Later, loop)
  BY DEF LoopInv, LoopVisitsAll, Later, GoesTo
<1>2. Len(todo) \in Nat /\ Len(todo) # 0 /\ todo[1] \in Entry
  BY <1>1
<1>3. Later \in Seq(Entry) /\ Len(Later) = Len(todo) - 1 /\ \A i \in 1..Len(Later) : Later[i] = todo[i + 1]
  BY <1>1, RestIs DEF Later
<1> HIDE DEF Later
<1>4. ASSUME NEW i \in 1..Len(Later) PROVE Later[i] # pos
  <2>1. i + 1 \in 1..Len(todo) /\ 1 \in 1..Len(todo) /\ i + 1 # 1
    BY <1>2, <1>3
  <2> QED BY <1>1, <1>3, <2>1
<1>5. ASSUME NEW i \in 1..Len(Later), NEW j \in 1..Len(Later), Later[i] = Later[j] PROVE i = j
  <2>1. i + 1 \in 1..Len(todo) /\ j + 1 \in 1..Len(todo)
    BY <1>2, <1>3
  <2>2. i + 1 = j + 1
    BY <1>1, <1>3, <1>5, <2>1
  <2> QED BY <2>2
<1> QED
  BY <1>1, <1>2, <1>3, <1>4, <1>5

(* What the rest of the loop depends on leads on to each other. *)
LEMMA LoopAhead ==
  ASSUME LoopInv, loop # None, pos # loop, NEW x \in Ahead
  PROVE  /\ x \in Entry \ off /\ x \in Node /\ next[x] # x /\ next[x] # pos
         /\ next[x] \notin ListHead \ {loop}
<1>1. x \notin off
  BY DEF LoopInv
<1>2. \A k \in 1..Len(Later) + 1 :
        Met(Later, loop, k) # pos /\ Met(Later, loop, k) \notin ListHead \ {loop}
  <2> SUFFICES ASSUME NEW k \in 1..Len(Later) + 1
               PROVE  Met(Later, loop, k) # pos /\ Met(Later, loop, k) \notin ListHead \ {loop}
    OBVIOUS
  <2>1. CASE k <= Len(Later)
    <3>1. k \in 1..Len(Later) /\ Met(Later, loop, k) = Later[k]
      BY <2>1, LoopAt DEF Met
    <3>2. Later[k] \in Entry /\ Later[k] # pos
      BY <3>1, LoopAt
    <3> QED BY <3>1, <3>2, HeadsApart
  <2>2. CASE ~ (k <= Len(Later))
    BY <2>2 DEF Met
  <2> QED BY <2>1, <2>2
<1>3. CASE \E i \in 1..Len(Later) : x = Later[i]
  <2>1. PICK i \in 1..Len(Later) : x = Later[i]
    BY <1>3
  <2>2. i + 1 \in 1..Len(Later) + 1 /\ x \in Entry /\ next[x] = Met(Later, loop, i + 1)
    BY <2>1, LoopAt DEF Run
  <2>3. next[x] # x
    <3>1. CASE i = Len(Later)
      BY <2>2, <3>1, HeadsApart, LoopAt DEF Met
    <3>2. CASE i # Len(Later)
      <4>1. i + 1 \in 1..Len(Later) /\ i + 1 # i /\ Met(Later, loop, i + 1) = Later[i + 1]
        BY <3>2, LoopAt DEF Met
      <4> QED BY <2>1, <2>2, <4>1, LoopAt
    <3> QED BY <3>1, <3>2
  <2> QED BY <1>1, <1>2, <2>2, <2>3 DEF Node
<1>4. CASE ~ safe /\ x = pos
  <2>1. next[pos] = Met(Later, loop, 1) /\ pos \in Entry /\ 1 \in 1..Len(Later) + 1
    BY <1>4, LoopAt DEF Run, GoesTo
  <2> QED BY <1>1, <1>2, <1>4, <2>1 DEF Node
<1> QED
  BY <1>3, <1>4 DEF Ahead

(* The body of a loop leaves alone what the rest of it depends on. *)
LEMMA BodyLeavesAhead ==
  ASSUME LoopInv, Body
  PROVE  ListInv' /\ loop \notin off' /\ \A x \in Ahead : next'[x] = next[x] /\ x \notin off'
<1>1. loop # None /\ pos # loop /\ ListInv /\ IInv
  BY DEF Body, LoopInv, ListInv
<1>2. loop \in ListHead \ off /\ pos \in Entry
  BY <1>1, LoopAt
<1>3. /\ next \in [Node -> Node \cup {Garbage}]
      /\ \A x \in Node \ off : prev[x] \in Node \ off /\ next[prev[x]] = x
  BY <1>1 DEF IInv, TypeOK, RingsOK
<1>4. CASE safe /\ (list_del(pos) \/ list_del_init(pos))
  <2>1. ListInv'
    BY <1>1, <1>2, <1>4, CallsTake
  <2>2. pos \in Node \ off /\ prev[pos] \in Node /\ next[prev[pos]] = pos
    BY <1>2, <1>3, <1>4 DEF list_del, list_del_init, Node
  <2>3. \A x \in Node \ {pos, prev[pos]} : next'[x] = next[x] /\ (x \in off' => x \in off)
    BY <1>3, <1>4, <2>2 DEF list_del, list_del_init
  <2>4. loop \in Node /\ loop \notin off'
    BY <1>2, <1>4, HeadsApart DEF Node, list_del, list_del_init
  <2>5. ASSUME NEW x \in Ahead PROVE x \in Node \ {pos, prev[pos]} /\ x \notin off
    <3>1. x \in Node /\ x \notin off /\ x # prev[pos]
      BY <1>1, <2>2, LoopAhead
    <3>2. x # pos
      BY <1>1, <1>4, LoopAt DEF Ahead
    <3> QED BY <3>1, <3>2
  <2> QED BY <2>1, <2>3, <2>4, <2>5
<1>5. CASE \E entry \in Entry, head \in ListHead \ {loop} :
             list_add(entry, head) \/ list_add_tail(entry, head)
  <2>1. PICK e \in Entry, h \in ListHead \ {loop} : list_add(e, h) \/ list_add_tail(e, h)
    BY <1>5
  <2>2. ListInv'
    BY <1>1, <2>1, CallsAdd
  <2>3. h \in Node \ off /\ e \in Node /\ Free(e) /\ off' = off \ {e}
    BY <2>1 DEF list_add, list_add_tail, __list_add, Node
  <2>4. prev[h] \in Node /\ next[prev[h]] = h
    BY <1>3, <2>3
  <2>5. \A x \in Node \ {e, h, prev[h]} : next'[x] = next[x]
    BY <1>3, <2>1, <2>3, <2>4 DEF list_add, list_add_tail, __list_add
  <2>6. ASSUME NEW x \in Ahead PROVE x \in Node \ {e, h, prev[h]} /\ x \notin off
    <3>1. x \in Entry /\ x \notin off /\ x \in Node /\ next[x] # x /\ next[x] \notin ListHead \ {loop}
      BY <1>1, LoopAhead
    <3>2. x # e
      BY <2>3, <3>1 DEF Free, list_empty
    <3>3. x # h /\ x # prev[h]
      BY <2>4, <3>1, HeadsApart
    <3> QED BY <3>1, <3>2, <3>3
  <2> QED BY <1>2, <2>2, <2>3, <2>5, <2>6
<1> QED
  BY <1>4, <1>5 DEF Body

(* So the loop is where it was. *)
LEMMA BodyKeepsLoop ==
  ASSUME LoopInv, Body
  PROVE  LoopInv'
<1>1. loop # None /\ pos # loop /\ UNCHANGED loopVars
  BY DEF Body
<1>2. loop' = loop /\ safe' = safe /\ pos' = pos /\ n' = n /\ todo' = todo
  BY <1>1 DEF loopVars
<1>3. Later' = Later /\ Ahead' = Ahead
  BY <1>2 DEF Later, Ahead
<1>4. ListInv' /\ loop \notin off' /\ \A x \in Ahead : next'[x] = next[x] /\ x \notin off'
  BY BodyLeavesAhead
<1>5. GoesTo' = GoesTo
  BY <1>2, <1>4 DEF GoesTo, Ahead
<1>6. Run(next', GoesTo', Later', loop)
  <2>1. \A i \in 1..Len(Later) : next'[Later[i]] = next[Later[i]]
    BY <1>4 DEF Ahead
  <2>2. Run(next, GoesTo, Later, loop)
    BY <1>1, LoopAt
  <2>3. Run(next', GoesTo, Later, loop)
    BY <2>1, <2>2, RunStays
  <2> QED BY <1>3, <1>5, <2>3
<1>7. LoopVisitsAll'
  <2>1. todo # <<>> /\ pos = todo[1]
    BY <1>1, LoopAt
  <2> QED BY <1>1, <1>2, <1>6, <2>1 DEF LoopVisitsAll, GoesTo, Later
<1>8. Ahead' \cap off' = {}
  BY <1>3, <1>4
<1> QED
  BY <1>1, <1>2, <1>4, <1>7, <1>8 DEF LoopInv

(* A turn goes on to the next entry of the list, or to the head. *)
LEMMA LoopGoesOn ==
  ASSUME LoopInv, LoopTurn
  PROVE  LoopInv'
<1> DEFINE t == Later
           q == GoesTo
<1>1. /\ loop # None /\ pos # loop /\ ListInv /\ loop' = loop /\ safe' = safe /\ UNCHANGED links
      /\ pos' = q /\ n' = (IF safe THEN next[q] ELSE None) /\ todo' = t
  BY DEF LoopInv, LoopTurn, GoesTo, Later
<1>2. /\ t \in Seq(Entry) /\ Len(t) \in Nat /\ Run(next, q, t, loop) /\ loop \in ListHead \ off
      /\ \A i, j \in 1..Len(t) : t[i] = t[j] => i = j
      /\ \A i \in 1..Len(t) : t[i] \notin off
  BY <1>1, LoopAt, LoopAhead DEF Ahead
<1> HIDE DEF t, q
<1>3. next' = next /\ off' = off /\ ListInv'
  BY <1>1, ListsUnchanged DEF links
<1>4. CASE t = <<>>
  <2>1. q = loop
    BY <1>2, <1>4 DEF Run, Met
  <2> QED BY <1>1, <1>2, <1>3, <1>4, <2>1 DEF LoopInv, LoopVisitsAll
<1>5. CASE t # <<>>
  <2> DEFINE r == SubSeq(t, 2, Len(t))
  <2>1. /\ r \in Seq(Entry) /\ Len(r) = Len(t) - 1 /\ \A i \in 1..Len(r) : r[i] = t[i + 1]
        /\ q = t[1] /\ t[1] \in Entry /\ Run(next, next[q], r, loop)
    <3>1. r = SubSeq(t, 2, Len(t))
      OBVIOUS
    <3> HIDE DEF r
    <3>2. r \in Seq(Entry) /\ Len(r) = Len(t) - 1 /\ \A i \in 1..Len(r) : r[i] = t[i + 1]
      BY <1>2, <1>5, <3>1, RestIs
    <3>3. q = t[1] /\ t[1] \in Entry /\ Run(next, next[t[1]], r, loop)
      BY <1>2, <1>5, <3>1, RunTail
    <3> QED BY <3>2, <3>3
  <2>2. Later' = r /\ GoesTo' = next[q]
    BY <1>1, <1>3 DEF Later, GoesTo
  <2>3. LoopVisitsAll'
    <3>1. Run(next', IF safe' THEN n' ELSE next'[pos'], SubSeq(todo', 2, Len(todo')), loop')
      BY <1>1, <1>3, <2>1, <2>2 DEF Later, GoesTo
    <3>2. todo' # <<>> /\ pos' = todo'[1] /\ pos' # loop'
      BY <1>1, <1>2, <1>5, <2>1, HeadsApart
    <3> QED BY <3>1, <3>2 DEF LoopVisitsAll
  <2> HIDE DEF r
  <2>4. Ahead' \cap off' = {}
    <3>1. \A i \in 1..Len(r) : r[i] \notin off
      <4> SUFFICES ASSUME NEW i \in 1..Len(r) PROVE r[i] \notin off
        OBVIOUS
      <4>1. i + 1 \in 1..Len(t)
        BY <1>2, <2>1
      <4> QED BY <1>2, <2>1, <4>1
    <3>2. pos' \notin off
      <4>1. 1 \in 1..Len(t)
        BY <1>2, <1>5
      <4> QED BY <1>1, <1>2, <2>1, <4>1
    <3> QED BY <1>1, <1>3, <2>2, <3>1, <3>2 DEF Ahead
  <2> QED BY <1>1, <1>2, <1>3, <2>3, <2>4 DEF LoopInv
<1> QED
  BY <1>4, <1>5

(* A loop begins with the list as it is. *)
LEMMA LoopBegins ==
  ASSUME LoopInv, NEW h \in ListHead, NEW s \in BOOLEAN, LoopStart(h, s)
  PROVE  LoopInv'
<1> DEFINE L == ListsOf(next, off)
           t == L[h]
<1>1. IInv /\ ListsAre(next, off, L)
  BY DEF LoopInv, ListInv
<1>2. /\ h \notin off /\ loop' = h /\ safe' = s /\ pos' = next[h] /\ UNCHANGED links
      /\ n' = (IF s THEN next[next[h]] ELSE None) /\ todo' = t
  BY DEF LoopStart, ListsOf
<1> HIDE DEF L
<1>3. /\ t \in Seq(Entry) /\ Len(t) \in Nat /\ Run(next, next[h], t, h)
      /\ \A i, j \in 1..Len(t) : t[i] = t[j] => i = j
      /\ \A i \in 1..Len(t) : t[i] \notin off
  BY <1>1, <1>2, EntriesAre, EachOnce, OnRing
<1> HIDE DEF t
<1>4. next' = next /\ off' = off /\ ListInv'
  BY <1>2, ListsUnchanged DEF links, LoopInv
<1>5. CASE t = <<>>
  <2>1. next[h] = h
    BY <1>3, <1>5 DEF Run, Met
  <2> QED BY <1>2, <1>3, <1>4, <1>5, <2>1 DEF LoopInv, LoopVisitsAll
<1>6. CASE t # <<>>
  <2> DEFINE r == SubSeq(t, 2, Len(t))
  <2>1. /\ r \in Seq(Entry) /\ Len(r) = Len(t) - 1 /\ \A i \in 1..Len(r) : r[i] = t[i + 1]
        /\ next[h] = t[1] /\ t[1] \in Entry /\ Run(next, next[next[h]], r, h)
    <3>1. r = SubSeq(t, 2, Len(t))
      OBVIOUS
    <3> HIDE DEF r
    <3>2. r \in Seq(Entry) /\ Len(r) = Len(t) - 1 /\ \A i \in 1..Len(r) : r[i] = t[i + 1]
      BY <1>3, <1>6, <3>1, RestIs
    <3>3. next[h] = t[1] /\ t[1] \in Entry /\ Run(next, next[t[1]], r, h)
      BY <1>3, <1>6, <3>1, RunTail
    <3> QED BY <3>2, <3>3
  <2>2. Later' = r /\ GoesTo' = next[next[h]]
    BY <1>2, <1>4 DEF Later, GoesTo
  <2>3. LoopVisitsAll'
    <3>1. Run(next', IF safe' THEN n' ELSE next'[pos'], SubSeq(todo', 2, Len(todo')), loop')
      BY <1>2, <1>4, <2>1, <2>2 DEF Later, GoesTo
    <3>2. todo' # <<>> /\ pos' = todo'[1] /\ pos' # loop'
      BY <1>2, <1>6, <2>1, HeadsApart
    <3> QED BY <3>1, <3>2 DEF LoopVisitsAll
  <2> HIDE DEF r
  <2>4. Ahead' \cap off' = {}
    <3>1. \A i \in 1..Len(r) : r[i] \notin off
      <4> SUFFICES ASSUME NEW i \in 1..Len(r) PROVE r[i] \notin off
        OBVIOUS
      <4>1. i + 1 \in 1..Len(t)
        BY <1>3, <2>1
      <4> QED BY <1>3, <2>1, <4>1
    <3>2. pos' \notin off
      <4>1. 1 \in 1..Len(t)
        BY <1>3, <1>6
      <4> QED BY <1>2, <1>3, <2>1, <4>1
    <3> QED BY <1>4, <2>2, <3>1, <3>2 DEF Ahead
  <2> QED BY <1>2, <1>3, <1>4, <2>3, <2>4 DEF LoopInv
<1> QED
  BY <1>5, <1>6

(* The calls and the turns of a loop keep what the two properties need. *)
LEMMA LoopsKeepInv ==
  /\ LoopInit => LoopInv
  /\ LoopInv /\ [Next]_<<links, loopVars>> => LoopInv'
<1>1. LoopInit => LoopInv
  BY ListsAtFirst DEF LoopInit, LoopInv, LoopVisitsAll
<1>2. LoopInv /\ [Next]_<<links, loopVars>> => LoopInv'
  <2> SUFFICES ASSUME LoopInv, [Next]_<<links, loopVars>> PROVE LoopInv'
    OBVIOUS
  <2>1. CASE Outside
    BY <2>1, CallsOnLists DEF Outside, LoopInv, LoopVisitsAll, loopVars
  <2>2. CASE Body
    BY <2>2, BodyKeepsLoop
  <2>3. CASE LoopTurn
    BY <2>3, LoopGoesOn
  <2>4. CASE LoopExit
    BY <2>4, ListsUnchanged DEF LoopExit, LoopInv, LoopVisitsAll
  <2>5. CASE \E h \in ListHead, s \in BOOLEAN : LoopStart(h, s)
    BY <2>5, LoopBegins
  <2>6. CASE UNCHANGED <<links, loopVars>>
    <3>1. UNCHANGED links /\ next' = next /\ off' = off /\ loop' = loop /\ safe' = safe
          /\ pos' = pos /\ n' = n /\ todo' = todo
      BY <2>6 DEF links, loopVars
    <3>2. Ahead' = Ahead /\ LoopVisitsAll' = LoopVisitsAll
      BY <3>1 DEF Ahead, Later, LoopVisitsAll
    <3>3. ListInv'
      BY <3>1, ListsUnchanged DEF LoopInv
    <3> QED BY <3>1, <3>2, <3>3 DEF LoopInv
  <2> QED BY <2>1, <2>2, <2>3, <2>4, <2>5, <2>6 DEF Next
<1> QED BY <1>1, <1>2

(* However the body of a loop changes the lists, as far as it may, the     *)
(* loop visits the entries that were on its list, all of them, in order.   *)
THEOREM LoopsVisitAll == LoopSpec => []LoopVisitsAll
<1>1. LoopInv => LoopVisitsAll
  BY DEF LoopInv
<1> QED BY <1>1, LoopsKeepInv, PTL DEF LoopSpec

(* A loop itself only reads the lists, and its body changes them by calls: *)
(* whatever holds of the lists under every client, as the rings and the    *)
(* sequences they stand for, holds under the clients that loop.            *)
THEOREM LoopsOnlyCall == LoopSpec => Spec
<1>1. LoopInit => Init
  BY DEF LoopInit
<1>2. LoopInv /\ [Next]_<<links, loopVars>> => [Change]_links
  <2> SUFFICES ASSUME LoopInv, [Next]_<<links, loopVars>> PROVE [Change]_links
    OBVIOUS
  <2>1. CASE Outside
    BY <2>1 DEF Outside
  <2>2. CASE Body
    <3>1. pos \in Entry
      <4>1. todo # <<>> /\ pos = todo[1] /\ todo \in Seq(Entry)
        BY <2>2 DEF Body, LoopInv, LoopVisitsAll
      <4> QED BY <4>1
    <3> QED BY <2>2, <3>1 DEF Body, Change
  <2>3. CASE LoopTurn \/ LoopExit
    BY <2>3 DEF LoopTurn, LoopExit
  <2>4. CASE \E h \in ListHead, s \in BOOLEAN : LoopStart(h, s)
    BY <2>4 DEF LoopStart
  <2>5. CASE UNCHANGED <<links, loopVars>>
    BY <2>5
  <2> QED BY <2>1, <2>2, <2>3, <2>4, <2>5 DEF Next
<1> QED BY <1>1, <1>2, LoopsKeepInv, PTL DEF LoopSpec, Spec
=============================================================================
