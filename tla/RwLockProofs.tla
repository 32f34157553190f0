---------------------------- MODULE RwLockProofs ----------------------------
(***************************************************************************)
(* Proofs about RwLock, for any set of threads, any number of permits and  *)
(* any client behaviour the constants allow.                               *)
(***************************************************************************)
EXTENDS RwLock, FiniteSetTheorems, TLAPS

-----------------------------------------------------------------------------
(* Counting permits.  Units(h) has one pair per permit that h gives to a   *)
(* thread.                                                                 *)
Units(h) == UNION {{t} \X (1..h[t]) : t \in Thread}

(* The pairs of Units(h), without the union. *)
LEMMA UnitsMember ==
  ASSUME NEW h \in [Thread -> Nat], NEW s
  PROVE  s \in Units(h) <=> \E t \in Thread, i \in Nat : i \in 1..h[t] /\ s = <<t, i>>
BY DEF Units

(* One more permit for one thread is one more pair. *)
LEMMA UnitsAdd ==
  ASSUME NEW h \in [Thread -> Nat], NEW t \in Thread, IsFiniteSet(Units(h)),
         NEW g, g = [h EXCEPT ![t] = @ + 1]
  PROVE  /\ IsFiniteSet(Units(g))
         /\ Cardinality(Units(g)) = Cardinality(Units(h)) + 1
<1> DEFINE new == <<t, h[t] + 1>>
<1>1. g \in [Thread -> Nat]
  OBVIOUS
<1>2. Units(g) = Units(h) \cup {new}
  <2>1. ASSUME NEW s PROVE s \in Units(g) <=> s \in Units(h) \cup {new}
    <3>1. ASSUME s \in Units(g) PROVE s \in Units(h) \cup {new}
      <4>1. PICK u \in Thread, i \in Nat : i \in 1..g[u] /\ s = <<u, i>>
        BY <3>1, <1>1, UnitsMember
      <4>2. CASE u = t /\ i = h[t] + 1
        BY <4>1, <4>2
      <4>3. CASE ~(u = t /\ i = h[t] + 1)
        <5>1. i \in 1..h[u]
          BY <4>1, <4>3
        <5> QED BY <5>1, <4>1, UnitsMember
      <4> QED BY <4>2, <4>3
    <3>2. ASSUME s \in Units(h) \cup {new} PROVE s \in Units(g)
      <4>1. CASE s = new
        <5>1. h[t] + 1 \in 1..g[t]
          OBVIOUS
        <5> QED BY <4>1, <5>1, <1>1, UnitsMember
      <4>2. CASE s \in Units(h)
        <5>1. PICK u \in Thread, i \in Nat : i \in 1..h[u] /\ s = <<u, i>>
          BY <4>2, UnitsMember
        <5>2. i \in 1..g[u]
          BY <5>1
        <5> QED BY <5>1, <5>2, <1>1, UnitsMember
      <4> QED BY <3>2, <4>1, <4>2
    <3> QED BY <3>1, <3>2
  <2> QED BY <2>1
<1>3. new \notin Units(h)
  BY UnitsMember
<1>4. /\ IsFiniteSet(Units(h) \cup {new})
      /\ Cardinality(Units(h) \cup {new}) =
           IF new \in Units(h) THEN Cardinality(Units(h)) ELSE Cardinality(Units(h)) + 1
  BY FS_AddElement
<1> QED BY <1>2, <1>3, <1>4

(* One permit fewer is one pair fewer. *)
LEMMA UnitsRemove ==
  ASSUME NEW h \in [Thread -> Nat], NEW t \in Thread, h[t] > 0,
         IsFiniteSet(Units(h)), NEW g, g = [h EXCEPT ![t] = @ - 1]
  PROVE  /\ IsFiniteSet(Units(g))
         /\ Cardinality(Units(g)) = Cardinality(Units(h)) - 1
<1> DEFINE old == <<t, h[t]>>
<1>1. g \in [Thread -> Nat]
  OBVIOUS
<1>2. Units(g) = Units(h) \ {old}
  <2>1. ASSUME NEW s PROVE s \in Units(g) <=> s \in Units(h) \ {old}
    <3>1. ASSUME s \in Units(g) PROVE s \in Units(h) \ {old}
      <4>1. PICK u \in Thread, i \in Nat : i \in 1..g[u] /\ s = <<u, i>>
        BY <3>1, <1>1, UnitsMember
      <4>2. i \in 1..h[u] /\ ~(u = t /\ i = h[t])
        BY <4>1
      <4> QED BY <4>1, <4>2, UnitsMember
    <3>2. ASSUME s \in Units(h) \ {old} PROVE s \in Units(g)
      <4>1. PICK u \in Thread, i \in Nat : i \in 1..h[u] /\ s = <<u, i>>
        BY <3>2, UnitsMember
      <4>2. i \in 1..g[u]
        BY <3>2, <4>1
      <4> QED BY <4>1, <4>2, <1>1, UnitsMember
    <3> QED BY <3>1, <3>2
  <2> QED BY <2>1
<1>3. old \in Units(h)
  <2>1. h[t] \in 1..h[t]
    OBVIOUS
  <2> QED BY <2>1, UnitsMember
<1>4. /\ IsFiniteSet(Units(h) \ {old})
      /\ Cardinality(Units(h) \ {old}) =
           IF old \in Units(h) THEN Cardinality(Units(h)) - 1 ELSE Cardinality(Units(h))
  BY FS_RemoveElement
<1> QED BY <1>2, <1>3, <1>4

(* The permits of one thread are among all of them. *)
LEMMA UnitsOfOne ==
  ASSUME NEW h \in [Thread -> Nat], NEW t \in Thread, IsFiniteSet(Units(h))
  PROVE  /\ IsFiniteSet({t} \X (1..h[t]))
         /\ Cardinality({t} \X (1..h[t])) = h[t]
         /\ {t} \X (1..h[t]) \subseteq Units(h)
         /\ h[t] <= Cardinality(Units(h))
<1>1. {t} \X (1..h[t]) \subseteq Units(h)
  BY DEF Units
<1>2. IsFiniteSet({t}) /\ Cardinality({t}) = 1
  BY FS_Singleton, Zenon
<1>3. IsFiniteSet(1..h[t]) /\ Cardinality(1..h[t]) = h[t]
  <2>1. h[t] \in Int /\ h[t] >= 0
    OBVIOUS
  <2>2. /\ IsFiniteSet(1..h[t])
        /\ Cardinality(1..h[t]) = IF 1 > h[t] THEN 0 ELSE h[t] - 1 + 1
    BY <2>1, FS_Interval
  <2> QED BY <2>1, <2>2
<1>5. /\ IsFiniteSet({t} \X (1..h[t]))
      /\ Cardinality({t} \X (1..h[t])) = Cardinality({t}) * Cardinality(1..h[t])
  BY <1>2, <1>3, FS_Product, Zenon
<1>6. Cardinality({t} \X (1..h[t])) = h[t]
  BY <1>2, <1>3, <1>5
<1>4. Cardinality({t} \X (1..h[t])) <= Cardinality(Units(h))
  BY <1>1, FS_Subset
<1> QED BY <1>1, <1>4, <1>5, <1>6

(* Two threads with permits hold more together than either of them. *)
LEMMA UnitsOfTwo ==
  ASSUME NEW h \in [Thread -> Nat], NEW t \in Thread, NEW u \in Thread,
         t # u, h[u] > 0, IsFiniteSet(Units(h))
  PROVE  h[t] + 1 <= Cardinality(Units(h))
<1> DEFINE mine == {t} \X (1..h[t])
           his == <<u, 1>>
<1>1. /\ IsFiniteSet(mine) /\ Cardinality(mine) = h[t]
      /\ mine \subseteq Units(h)
  BY UnitsOfOne
<1>2. his \in Units(h) /\ his \notin mine
  <2>1. 1 \in 1..h[u]
    OBVIOUS
  <2> QED BY <2>1, UnitsMember
<1>3. /\ IsFiniteSet(mine \cup {his})
      /\ Cardinality(mine \cup {his}) = h[t] + 1
  BY <1>1, <1>2, FS_AddElement
<1>4. mine \cup {his} \subseteq Units(h)
  BY <1>1, <1>2
<1>5. Cardinality(mine \cup {his}) <= Cardinality(Units(h))
  BY <1>4, FS_Subset
<1> QED BY <1>3, <1>5

-----------------------------------------------------------------------------
(* Types and locals: no step takes a loop counter, the semaphore or a      *)
(* thread's read depth below zero.                                         *)
LEMMA TypeStep ==
  ASSUME TypeOK, LocalsOK, [Next]_vars
  PROVE  TypeOK' /\ LocalsOK'
<1> USE ConstantsAssumption DEF TypeOK, LocalsOK, PcValues
<1>1. CASE Create
  <2>1. live' \in BOOLEAN /\ mutexOk' \in BOOLEAN
    BY <1>1, Zenon DEF Create
  <2>2. count' = MaxPermits \/ count' = 0
    BY <1>1, Zenon DEF Create
  <2>3. UNCHANGED <<barrier, pc, left, depth, writers>>
    BY <1>1 DEF Create
  <2> QED BY <2>1, <2>2, <2>3
<1>2. CASE Destroy
  BY <1>2 DEF Destroy
<1>3. ASSUME NEW t \in Thread, DownReadCall(t) PROVE TypeOK' /\ LocalsOK'
  BY <1>3 DEF DownReadCall, Goto
<1>4. ASSUME NEW t \in Thread, DownReadLock(t) PROVE TypeOK' /\ LocalsOK'
  BY <1>4 DEF DownReadLock, Goto, OsalMutexLock
<1>5. ASSUME NEW t \in Thread, DownReadWait(t) PROVE TypeOK' /\ LocalsOK'
  BY <1>5 DEF DownReadWait, Goto, osal_sema_wait
<1>6. ASSUME NEW t \in Thread, DownReadUnlock(t) PROVE TypeOK' /\ LocalsOK'
  BY <1>6 DEF DownReadUnlock, Goto, OsalMutexUnlock
<1>7. ASSUME NEW t \in Thread, UpRead(t) PROVE TypeOK' /\ LocalsOK'
  BY <1>7 DEF UpRead, osal_sema_post
<1>8. ASSUME NEW t \in Thread, DownWriteCall(t) PROVE TypeOK' /\ LocalsOK'
  BY <1>8 DEF DownWriteCall, Goto
<1>9. ASSUME NEW t \in Thread, DownWriteLock(t) PROVE TypeOK' /\ LocalsOK'
  BY <1>9 DEF DownWriteLock, Goto, OsalMutexLock
<1>10. ASSUME NEW t \in Thread, DownWriteWait(t) PROVE TypeOK' /\ LocalsOK'
  BY <1>10 DEF DownWriteWait, Goto, osal_sema_wait
<1>11. ASSUME NEW t \in Thread, DownWriteUnlock(t) PROVE TypeOK' /\ LocalsOK'
  BY <1>11 DEF DownWriteUnlock, Goto, OsalMutexUnlock
<1>12. ASSUME NEW t \in Thread, UpWriteCall(t) PROVE TypeOK' /\ LocalsOK'
  BY <1>12 DEF UpWriteCall, Goto
<1>13. ASSUME NEW t \in Thread, UpWritePost(t) PROVE TypeOK' /\ LocalsOK'
  BY <1>13 DEF UpWritePost, Goto, osal_sema_post
<1>14. CASE UNCHANGED vars
  BY <1>14 DEF vars
<1> QED
  BY <1>1, <1>2, <1>3, <1>4, <1>5, <1>6, <1>7, <1>8, <1>9, <1>10, <1>11,
     <1>12, <1>13, <1>14 DEF Next, ThreadStep, Inside, Leave

LEMMA TypeInit == Init => TypeOK /\ LocalsOK
<1> SUFFICES ASSUME Init PROVE TypeOK /\ LocalsOK
  OBVIOUS
<1>1. live \in BOOLEAN /\ mutexOk \in BOOLEAN
  BY DEF Init
<1>2. /\ barrier \in Thread \cup {None}
      /\ count \in Nat
      /\ pc \in [Thread -> PcValues]
      /\ left \in [Thread -> 0..MaxPermits]
      /\ depth \in [Thread -> Nat]
      /\ writers \subseteq Thread
      /\ LocalsOK
  BY ConstantsAssumption DEF Init, LocalsOK, PcValues
<1> QED BY <1>1, <1>2 DEF TypeOK

(* The variables of the lock keep their types, whatever the clients do:    *)
(* the loops of down_write and up_write stop at zero, and no wait or post  *)
(* takes the semaphore out of range.                                       *)
THEOREM TypeCorrect == Spec => []TypeOK
<1>1. TypeOK /\ LocalsOK /\ [Next]_vars => (TypeOK /\ LocalsOK)'
  BY TypeStep
<1> QED BY <1>1, TypeInit, PTL DEF Spec

-----------------------------------------------------------------------------
(* The barrier.  Its owner is the one thread between OsalMutexLock and     *)
(* OsalMutexUnlock, and a lock that is not live is not used.               *)
LEMMA BarrierStep ==
  ASSUME TypeOK, UnusedUnlessLive, OneWaiter, [Next]_vars
  PROVE  UnusedUnlessLive' /\ OneWaiter'
<1> USE ConstantsAssumption
    DEF TypeOK, UnusedUnlessLive, OneWaiter, BehindBarrier, PcValues
<1>1. CASE Create
  <2>1. writers = {} /\ \A t \in Thread : pc[t] = "idle" /\ depth[t] = 0
    BY <1>1 DEF Create
  <2>2. barrier = None /\ UNCHANGED <<barrier, pc, left, depth, writers>>
    BY <1>1 DEF Create
  <2> QED BY <2>1, <2>2
<1>2. CASE Destroy
  <2>1. writers = {} /\ \A t \in Thread : pc[t] = "idle" /\ depth[t] = 0
    BY <1>2 DEF Destroy
  <2>2. barrier = None
    BY <2>1
  <2>3. ~mutexOk' /\ UNCHANGED <<barrier, pc, left, depth, writers>>
    BY <1>2 DEF Destroy
  <2> QED BY <2>1, <2>2, <2>3
<1>3. ASSUME NEW t \in Thread, DownReadCall(t)
      PROVE  UnusedUnlessLive' /\ OneWaiter'
  BY <1>3 DEF DownReadCall, Goto
<1>4. ASSUME NEW t \in Thread, DownReadLock(t)
      PROVE  UnusedUnlessLive' /\ OneWaiter'
  BY <1>4 DEF DownReadLock, Goto, OsalMutexLock
<1>5. ASSUME NEW t \in Thread, DownReadWait(t)
      PROVE  UnusedUnlessLive' /\ OneWaiter'
  BY <1>5 DEF DownReadWait, Goto
<1>6. ASSUME NEW t \in Thread, DownReadUnlock(t)
      PROVE  UnusedUnlessLive' /\ OneWaiter'
  BY <1>6 DEF DownReadUnlock, Goto, OsalMutexUnlock
<1>7. ASSUME NEW t \in Thread, UpRead(t)
      PROVE  UnusedUnlessLive' /\ OneWaiter'
  BY <1>7 DEF UpRead
<1>8. ASSUME NEW t \in Thread, DownWriteCall(t)
      PROVE  UnusedUnlessLive' /\ OneWaiter'
  BY <1>8 DEF DownWriteCall, Goto
<1>9. ASSUME NEW t \in Thread, DownWriteLock(t)
      PROVE  UnusedUnlessLive' /\ OneWaiter'
  BY <1>9 DEF DownWriteLock, Goto, OsalMutexLock
<1>10. ASSUME NEW t \in Thread, DownWriteWait(t)
       PROVE  UnusedUnlessLive' /\ OneWaiter'
  BY <1>10 DEF DownWriteWait, Goto
<1>11. ASSUME NEW t \in Thread, DownWriteUnlock(t)
       PROVE  UnusedUnlessLive' /\ OneWaiter'
  BY <1>11 DEF DownWriteUnlock, Goto, OsalMutexUnlock
<1>12. ASSUME NEW t \in Thread, UpWriteCall(t)
       PROVE  UnusedUnlessLive' /\ OneWaiter'
  BY <1>12 DEF UpWriteCall, Goto
<1>13. ASSUME NEW t \in Thread, UpWritePost(t)
       PROVE  UnusedUnlessLive' /\ OneWaiter'
  BY <1>13 DEF UpWritePost, Goto
<1>14. CASE UNCHANGED vars
  BY <1>14 DEF vars
<1> QED
  BY <1>1, <1>2, <1>3, <1>4, <1>5, <1>6, <1>7, <1>8, <1>9, <1>10, <1>11,
     <1>12, <1>13, <1>14 DEF Next, ThreadStep, Inside, Leave

-----------------------------------------------------------------------------
(* The permits.  HeldBy is Held as a function, and Taken lists its units. *)
HeldBy == [t \in Thread |-> Held(t)]

LEMMA HeldByType ==
  ASSUME TypeOK PROVE HeldBy \in [Thread -> Nat] /\ Taken = Units(HeldBy)
<1>1. \A t \in Thread : Held(t) \in Nat
  BY ConstantsAssumption DEF TypeOK, Held
<1>2. \A t \in Thread : HeldBy[t] = Held(t)
  BY DEF HeldBy
<1>3. Taken = Units(HeldBy)
  BY <1>2 DEF Taken, Units
<1> QED BY <1>1, <1>3 DEF HeldBy

(* What the count of the permits says about their holders. *)
LEMMA HeldFacts ==
  ASSUME IInv, live
  PROVE  /\ \A t \in Thread : Held(t) \in Nat /\ Held(t) <= MaxPermits - count
         /\ \A t, u \in Thread :
              t # u /\ Held(u) > 0 => Held(t) + 1 <= MaxPermits - count
         /\ \A t \in Thread :
              (\A u \in Thread : Held(u) > 0 => u = t) => Held(t) = MaxPermits - count
         /\ count \in Nat
<1>1. /\ HeldBy \in [Thread -> Nat] /\ Taken = Units(HeldBy)
      /\ IsFiniteSet(Units(HeldBy))
  BY HeldByType DEF IInv
<1>2. Cardinality(Units(HeldBy)) \in Nat /\ count \in Nat
  BY <1>1, FS_CardinalityType DEF IInv, TypeOK
<1>3. Cardinality(Units(HeldBy)) = MaxPermits - count
  BY <1>1, <1>2, ConstantsAssumption DEF IInv, PermitsConserved
<1>4. \A t \in Thread : HeldBy[t] = Held(t) /\ Held(t) \in Nat
  BY <1>1 DEF HeldBy
<1>5. ASSUME NEW t \in Thread PROVE Held(t) <= MaxPermits - count
  BY <1>1, <1>3, <1>4, UnitsOfOne
<1>6. ASSUME NEW t \in Thread, NEW u \in Thread, t # u, Held(u) > 0
      PROVE  Held(t) + 1 <= MaxPermits - count
  BY <1>1, <1>3, <1>4, <1>6, UnitsOfTwo
<1>7. ASSUME NEW t \in Thread, \A u \in Thread : Held(u) > 0 => u = t
      PROVE  Held(t) = MaxPermits - count
  <2>1. \A u \in Thread : u # t => HeldBy[u] = 0
    BY <1>4, <1>7
  <2>2. Units(HeldBy) = {t} \X (1..HeldBy[t])
    BY <1>1, <2>1 DEF Units
  <2> QED BY <1>1, <1>3, <1>4, <2>2, UnitsOfOne
<1> QED BY <1>2, <1>4, <1>5, <1>6, <1>7

(* While a permit is left nobody writes. *)
LEMMA NoWriterWhile ==
  ASSUME IInv, live, count > 0, NEW t \in Thread
  PROVE  t \notin writers
<1>1. Held(t) <= MaxPermits - count /\ count \in Nat
  BY HeldFacts
<1>2. depth[t] \in Nat /\ left[t] \in 0..MaxPermits
  BY DEF IInv, TypeOK
<1> QED BY <1>1, <1>2, ConstantsAssumption DEF Held

(* Every step of a thread leaves the permits alone, or moves one of them   *)
(* between the semaphore and that thread.                                  *)
TakesOne(t) ==
  count' = count - 1 /\ HeldBy' = [HeldBy EXCEPT ![t] = @ + 1]
GivesOne(t) ==
  HeldBy[t] > 0 /\ count' = count + 1 /\ HeldBy' = [HeldBy EXCEPT ![t] = @ - 1]
MovesNone == count' = count /\ HeldBy' = HeldBy

LEMMA HeldByChange ==
  ASSUME TypeOK, NEW t \in Thread
  PROVE  /\ (\A u \in Thread : Held(u)' = IF u = t THEN Held(t) + 1 ELSE Held(u))
              => HeldBy' = [HeldBy EXCEPT ![t] = @ + 1]
         /\ (\A u \in Thread : Held(u)' = IF u = t THEN Held(t) - 1 ELSE Held(u))
              => HeldBy' = [HeldBy EXCEPT ![t] = @ - 1]
         /\ (\A u \in Thread : Held(u)' = Held(u)) => HeldBy' = HeldBy
         /\ HeldBy[t] = Held(t)
BY DEF HeldBy

LEMMA PermitMoves ==
  ASSUME TypeOK, LocalsOK, NEW t \in Thread, ThreadStep(t),
         count > 0 /\ pc[t] = "wr_wait" => t \notin writers
  PROVE  TakesOne(t) \/ GivesOne(t) \/ MovesNone
<1> USE ConstantsAssumption DEF TypeOK, LocalsOK, Held, PcValues
<1>1. CASE DownReadCall(t)
  <2>1. count' = count /\ \A u \in Thread : Held(u)' = Held(u)
    BY <1>1 DEF DownReadCall, Goto
  <2> QED BY <2>1, HeldByChange, Zenon DEF MovesNone
<1>2. CASE DownReadLock(t)
  <2>1. count' = count /\ \A u \in Thread : Held(u)' = Held(u)
    BY <1>2 DEF DownReadLock, Goto
  <2> QED BY <2>1, HeldByChange, Zenon DEF MovesNone
<1>3. CASE DownReadWait(t)
  <2>1. /\ \A u \in Thread : Held(u)' = IF u = t THEN Held(t) + 1 ELSE Held(u)
        /\ count' = count - 1
    BY <1>3 DEF DownReadWait, Goto, osal_sema_wait
  <2> QED BY <2>1, HeldByChange, Zenon DEF TakesOne
<1>4. CASE DownReadUnlock(t)
  <2>1. count' = count /\ \A u \in Thread : Held(u)' = Held(u)
    BY <1>4 DEF DownReadUnlock, Goto
  <2> QED BY <2>1, HeldByChange, Zenon DEF MovesNone
<1>5. CASE UpRead(t)
  <2>1. /\ \A u \in Thread : Held(u)' = IF u = t THEN Held(t) - 1 ELSE Held(u)
        /\ Held(t) > 0 /\ count' = count + 1
    BY <1>5 DEF UpRead, osal_sema_post
  <2> QED BY <2>1, HeldByChange, Zenon DEF GivesOne
<1>6. CASE DownWriteCall(t)
  <2>1. count' = count /\ \A u \in Thread : Held(u)' = Held(u)
    BY <1>6 DEF DownWriteCall, Goto
  <2> QED BY <2>1, HeldByChange, Zenon DEF MovesNone
<1>7. CASE DownWriteLock(t)
  <2>1. count' = count /\ \A u \in Thread : Held(u)' = Held(u)
    BY <1>7 DEF DownWriteLock, Goto
  <2> QED BY <2>1, HeldByChange, Zenon DEF MovesNone
<1>8. CASE DownWriteWait(t)
  <2>1. /\ \A u \in Thread : Held(u)' = IF u = t THEN Held(t) + 1 ELSE Held(u)
        /\ count' = count - 1
    BY <1>8 DEF DownWriteWait, Goto, osal_sema_wait
  <2> QED BY <2>1, HeldByChange, Zenon DEF TakesOne
<1>9. CASE DownWriteUnlock(t)
  <2>1. count' = count /\ \A u \in Thread : Held(u)' = Held(u)
    BY <1>9 DEF DownWriteUnlock, Goto
  <2> QED BY <2>1, HeldByChange, Zenon DEF MovesNone
<1>10. CASE UpWriteCall(t)
  <2>1. count' = count /\ \A u \in Thread : Held(u)' = Held(u)
    BY <1>10 DEF UpWriteCall, Goto
  <2> QED BY <2>1, HeldByChange, Zenon DEF MovesNone
<1>11. CASE UpWritePost(t)
  <2>1. /\ \A u \in Thread : Held(u)' = IF u = t THEN Held(t) - 1 ELSE Held(u)
        /\ Held(t) > 0 /\ count' = count + 1
    BY <1>11 DEF UpWritePost, Goto, osal_sema_post
  <2> QED BY <2>1, HeldByChange, Zenon DEF GivesOne
<1> QED
  BY <1>1, <1>2, <1>3, <1>4, <1>5, <1>6, <1>7, <1>8, <1>9, <1>10, <1>11
  DEF ThreadStep, Inside, Leave

(* No permit is lost or made up by a step. *)
LEMMA AccountingStep ==
  ASSUME IInv, [Next]_vars
  PROVE  IsFiniteSet(Taken)' /\ PermitsConserved'
<1>1. TypeOK /\ LocalsOK /\ UnusedUnlessLive /\ IsFiniteSet(Taken) /\ PermitsConserved
  BY DEF IInv
<1>2. TypeOK' /\ LocalsOK'
  BY <1>1, TypeStep
<1>3. /\ HeldBy \in [Thread -> Nat] /\ Taken = Units(HeldBy)
      /\ IsFiniteSet(Units(HeldBy))
  BY <1>1, HeldByType
<1>4. HeldBy' \in [Thread -> Nat] /\ Taken' = Units(HeldBy')
  <2>1. ASSUME TypeOK' PROVE \A t \in Thread : Held(t)' \in Nat
    BY <2>1, ConstantsAssumption DEF TypeOK, Held
  <2>2. \A t \in Thread : HeldBy'[t] = Held(t)'
    BY DEF HeldBy
  <2>3. Taken' = Units(HeldBy')
    BY <2>2 DEF Taken, Units
  <2> QED BY <1>2, <2>1, <2>3 DEF HeldBy
<1>5. ASSUME HeldBy' = HeldBy, count' = count, live' = live
      PROVE  IsFiniteSet(Taken)' /\ PermitsConserved'
  BY <1>1, <1>3, <1>4, <1>5 DEF PermitsConserved
<1>6. CASE Create
  <2>1. /\ \A t \in Thread : depth'[t] = 0 /\ pc'[t] = "idle" /\ left'[t] = 0
        /\ writers' = {}
        /\ live' => count' = MaxPermits
    BY <1>1, <1>6 DEF Create, UnusedUnlessLive, LocalsOK
  <2>2. \A t \in Thread : HeldBy'[t] = 0
    BY <2>1 DEF HeldBy, Held
  <2>3. Taken' = {}
    BY <1>4, <2>2 DEF Units
  <2>4. IsFiniteSet(Taken') /\ Cardinality(Taken') = 0
    BY <2>3, FS_EmptySet, Zenon
  <2> QED BY <2>1, <2>4, ConstantsAssumption DEF PermitsConserved
<1>7. CASE Destroy
  <2>1. ~live' /\ \A t \in Thread : Held(t)' = Held(t)
    BY <1>7 DEF Destroy, Held
  <2>2. HeldBy' = HeldBy
    BY <2>1 DEF HeldBy
  <2> QED BY <1>3, <1>4, <2>1, <2>2 DEF PermitsConserved
<1>8. ASSUME NEW t \in Thread, ThreadStep(t)
      PROVE  IsFiniteSet(Taken)' /\ PermitsConserved'
  <2>1. live' = live
    BY <1>8 DEF ThreadStep, Inside, Leave, DownReadCall, DownReadLock,
       DownReadWait, DownReadUnlock, UpRead, DownWriteCall, DownWriteLock,
       DownWriteWait, DownWriteUnlock, UpWriteCall, UpWritePost
  <2>2. CASE TakesOne(t)
    <3>1. /\ IsFiniteSet(Units(HeldBy'))
          /\ Cardinality(Units(HeldBy')) = Cardinality(Units(HeldBy)) + 1
      BY <1>3, <2>2, UnitsAdd DEF TakesOne
    <3>2. Cardinality(Units(HeldBy)) \in Nat /\ count \in Nat
      BY <1>1, <1>3, FS_CardinalityType DEF TypeOK
    <3> QED
      BY <1>1, <1>3, <1>4, <2>1, <2>2, <3>1, <3>2 DEF PermitsConserved, TakesOne
  <2>3. CASE GivesOne(t)
    <3>1. /\ IsFiniteSet(Units(HeldBy'))
          /\ Cardinality(Units(HeldBy')) = Cardinality(Units(HeldBy)) - 1
      BY <1>3, <2>3, UnitsRemove DEF GivesOne
    <3>2. Cardinality(Units(HeldBy)) \in Nat /\ count \in Nat
      BY <1>1, <1>3, FS_CardinalityType DEF TypeOK
    <3> QED
      BY <1>1, <1>3, <1>4, <2>1, <2>3, <3>1, <3>2 DEF PermitsConserved, GivesOne
  <2>4. CASE MovesNone
    BY <1>5, <2>1, <2>4 DEF MovesNone
  <2>5. count > 0 /\ pc[t] = "wr_wait" => t \notin writers
    BY <1>1, NoWriterWhile DEF UnusedUnlessLive
  <2> QED BY <1>1, <1>8, <2>2, <2>3, <2>4, <2>5, PermitMoves
<1>9. CASE UNCHANGED vars
  <2>1. \A t \in Thread : Held(t)' = Held(t)
    BY <1>9 DEF vars, Held
  <2>2. HeldBy' = HeldBy
    BY <2>1 DEF HeldBy
  <2> QED BY <1>5, <1>9, <2>2 DEF vars
<1> QED BY <1>6, <1>7, <1>8, <1>9 DEF Next

-----------------------------------------------------------------------------
LEMMA IInvInit == Init => IInv
<1> SUFFICES ASSUME Init PROVE IInv
  OBVIOUS
<1>1. TypeOK /\ LocalsOK
  BY TypeInit
<1>2. UnusedUnlessLive /\ OneWaiter /\ PermitsConserved
  BY ConstantsAssumption
  DEF Init, UnusedUnlessLive, OneWaiter, BehindBarrier, PermitsConserved
<1>3. \A t \in Thread : HeldBy[t] = 0
  BY DEF Init, HeldBy, Held
<1>4. Taken = {}
  BY <1>1, <1>3, HeldByType DEF Units
<1> QED BY <1>1, <1>2, <1>4, FS_EmptySet DEF IInv

LEMMA IInvStep == IInv /\ [Next]_vars => IInv'
<1> SUFFICES ASSUME IInv, [Next]_vars PROVE IInv'
  OBVIOUS
<1>1. TypeOK' /\ LocalsOK'
  BY TypeStep DEF IInv
<1>2. UnusedUnlessLive' /\ OneWaiter'
  BY BarrierStep DEF IInv
<1>3. IsFiniteSet(Taken)' /\ PermitsConserved'
  BY AccountingStep
<1> QED BY <1>1, <1>2, <1>3 DEF IInv

(* The inductive invariant holds in every reachable state. *)
THEOREM Invariance == Spec => []IInv
BY IInvInit, IInvStep, PTL DEF Spec

(* Permits are conserved by every interleaving of down_read, up_read,      *)
(* down_write and up_write, for any number of permits and of threads.      *)
THEOREM Conservation == Spec => []PermitsConserved
<1>1. IInv => PermitsConserved
  BY DEF IInv
<1> QED BY <1>1, Invariance, PTL

(* At most one thread is between OsalMutexLock and OsalMutexUnlock. *)
THEOREM BarrierOwned == Spec => []OneWaiter
<1>1. IInv => OneWaiter
  BY DEF IInv
<1> QED BY <1>1, Invariance, PTL

-----------------------------------------------------------------------------
LEMMA ExclusionFromIInv == IInv => Exclusion
<1> SUFFICES ASSUME IInv, NEW w \in writers
             PROVE  writers = {w} /\ \A t \in Thread : depth[t] = 0
  BY DEF Exclusion
<1> USE ConstantsAssumption
<1>1. TypeOK /\ live /\ w \in Thread /\ writers \subseteq Thread
  BY DEF IInv, UnusedUnlessLive, TypeOK
<1>2. \A u \in Thread : depth[u] \in Nat /\ left[u] \in 0..MaxPermits
  BY <1>1 DEF TypeOK
<1>3. Held(w) <= MaxPermits - count /\ count \in Nat
  BY <1>1, HeldFacts
<1>4. depth[w] = 0 /\ Held(w) = MaxPermits
  BY <1>1, <1>2, <1>3 DEF Held
<1>5. ASSUME NEW t \in Thread, t # w PROVE depth[t] = 0 /\ t \notin writers
  <2>1. Held(t) \in Nat /\ (Held(t) > 0 => Held(w) + 1 <= MaxPermits - count)
    BY <1>1, <1>5, HeldFacts
  <2>2. Held(t) = 0
    BY <1>3, <1>4, <2>1
  <2> QED BY <1>2, <2>2 DEF Held
<1> QED BY <1>1, <1>4, <1>5

(* A writer is alone, for any number of permits and threads, whatever the  *)
(* clients nest and even when the barrier's creation failed unnoticed: the *)
(* exclusion is the semaphore's, the barrier has no part in it.            *)
THEOREM MutualExclusion == Spec => []Exclusion
BY ExclusionFromIInv, Invariance, PTL

LEMMA DeadlockFromIInv == IInv => DeadlockExplained
<1> SUFFICES ASSUME IInv, Deadlocked,
                    \A t \in Thread : ~(HasLock(t) /\ Blocked(t))
             PROVE  /\ ~mutexOk
                    /\ \E t, u \in Thread : /\ t # u
                                           /\ pc[t] = "wr_wait" /\ pc[u] = "wr_wait"
  BY DEF DeadlockExplained
<1> USE ConstantsAssumption
<1>1. PICK s \in Thread : AtSemaphore(s) /\ count = 0
  BY DEF Deadlocked
<1>2. TypeOK /\ LocalsOK /\ OneWaiter /\ live
  BY <1>1 DEF IInv, UnusedUnlessLive, AtSemaphore
<1>3. \A t \in Thread : Held(t) > 0 => pc[t] = "wr_wait" /\ Held(t) < MaxPermits
  <2> SUFFICES ASSUME NEW t \in Thread, Held(t) > 0
               PROVE  pc[t] = "wr_wait" /\ Held(t) < MaxPermits
    OBVIOUS
  <2>1. Blocked(t) /\ depth[t] = 0 /\ t \notin writers
    BY <1>2 DEF Deadlocked, TypeOK, HasLock
  <2>2. pc[t] \in {"rd_lock", "wr_lock", "rd_wait", "wr_wait"}
    BY <2>1 DEF Blocked, AtBarrier, AtSemaphore
  <2> QED BY <1>2, <2>1, <2>2 DEF Held, TypeOK, LocalsOK
<1>4. ASSUME NEW t \in Thread, Held(t) > 0
      PROVE  \E u \in Thread : u # t /\ Held(u) > 0
  <2>1. Held(t) < MaxPermits
    BY <1>3, <1>4
  <2> QED BY <1>1, <1>2, <2>1, HeldFacts
<1>5. \E t \in Thread : Held(t) > 0
  <2> SUFFICES ASSUME \A t \in Thread : ~(Held(t) > 0) PROVE FALSE
    OBVIOUS
  <2>1. Held(s) = MaxPermits - count
    BY <1>2, HeldFacts
  <2> QED BY <1>1, <2>1
<1>6. PICK t \in Thread, u \in Thread :
        t # u /\ pc[t] = "wr_wait" /\ pc[u] = "wr_wait"
  BY <1>3, <1>4, <1>5
<1>7. ~mutexOk
  BY <1>2, <1>6 DEF OneWaiter, BehindBarrier
<1> QED BY <1>6, <1>7

(* Every deadlock has a thread behind it that called the lock again while  *)
(* it reads or writes, or a barrier that was never created and two writers *)
(* that share out the permits, for any number of permits and threads.      *)
THEOREM OnlyMisuseDeadlocks == Spec => []DeadlockExplained
BY DeadlockFromIInv, Invariance, PTL

-----------------------------------------------------------------------------
(* The refinement.  A set of at most one writer chooses that one. *)
LEMMA OnlyWriter ==
  ASSUME NEW W, NEW t \in W, \A u \in W : u = t
  PROVE  (CHOOSE u \in W : TRUE) = t
OBVIOUS

(* A thread that writes is the abstract writer; with nobody writing there  *)
(* is none.                                                                *)
LEMMA WriterIs ==
  ASSUME Exclusion
  PROVE  /\ \A t \in writers : AbsWriter = t
         /\ writers = {} => AbsWriter = None
<1>1. ASSUME NEW t \in writers PROVE AbsWriter = t
  <2>1. (CHOOSE u \in writers : TRUE) = t
    BY OnlyWriter DEF Exclusion
  <2> QED BY <2>1 DEF AbsWriter
<1> QED BY <1>1 DEF AbsWriter

LEMMA WriterIsThen ==
  ASSUME Exclusion'
  PROVE  /\ \A t \in writers' : AbsWriter' = t
         /\ writers' = {} => AbsWriter' = None
<1>1. ASSUME NEW t \in writers' PROVE AbsWriter' = t
  <2>1. (CHOOSE u \in writers' : TRUE) = t
    BY OnlyWriter DEF Exclusion
  <2> QED BY <2>1 DEF AbsWriter
<1> QED BY <1>1 DEF AbsWriter

(* The read shares are some of the permits that are out. *)
LEMMA SharesAreTaken ==
  ASSUME IInv, live, count > 0
  PROVE  Cardinality(Abs!Shares) < MaxPermits
<1>1. \A t \in Thread : depth[t] \in Nat /\ Held(t) \in Nat /\ depth[t] <= Held(t)
  BY ConstantsAssumption DEF IInv, TypeOK, Held
<1>2. \A t \in Thread : 1..depth[t] \subseteq 1..Held(t)
  BY <1>1
<1>3. Abs!Shares \subseteq Taken
  BY <1>2 DEF Abs!Shares, Taken
<1>4. IsFiniteSet(Taken) /\ count + Cardinality(Taken) = MaxPermits /\ count \in Nat
  BY DEF IInv, PermitsConserved, TypeOK
<1>5. Cardinality(Abs!Shares) \in Nat /\ Cardinality(Taken) \in Nat
      /\ Cardinality(Abs!Shares) <= Cardinality(Taken)
  BY <1>3, <1>4, FS_Subset, FS_CardinalityType
<1> QED BY <1>4, <1>5, ConstantsAssumption

(* Every step of a thread is a step of the abstract lock, or changes       *)
(* nothing of it.                                                          *)
LEMMA ThreadImplements ==
  ASSUME IInv, Exclusion, IInv', Exclusion', NEW t \in Thread, ThreadStep(t)
  PROVE  Abs!AbsNext \/ UNCHANGED <<depth, AbsWriter>>
<1> USE DEF Goto
<1>1. depth \in [Thread -> Nat] /\ writers \subseteq Thread
  BY DEF IInv, TypeOK
<1>2. CASE UNCHANGED <<depth, writers>>
  BY <1>2 DEF AbsWriter
<1>3. CASE DownReadWait(t)
  <2>1. depth' = [depth EXCEPT ![t] = @ + 1] /\ writers' = writers /\ count > 0 /\ live
    BY <1>3 DEF DownReadWait, osal_sema_wait, IInv, UnusedUnlessLive
  <2>2. depth'[t] # 0
    BY <1>1, <2>1
  <2>3. writers = {}
    BY <2>1, <2>2 DEF Exclusion
  <2>4. AbsWriter = None /\ AbsWriter' = AbsWriter
    BY <2>1, <2>3 DEF AbsWriter
  <2>5. Abs!Cardinality(Abs!Shares) = Cardinality(Abs!Shares)
    BY DEF Cardinality, Abs!Cardinality
  <2>6. Abs!EnterRead(t)
    BY <2>1, <2>4, <2>5, SharesAreTaken DEF Abs!EnterRead
  <2> QED BY <2>6 DEF Abs!AbsNext
<1>4. CASE UpRead(t)
  <2>1. AbsWriter' = AbsWriter
    BY <1>4 DEF UpRead, AbsWriter
  <2>2. Abs!LeaveRead(t)
    BY <1>4, <2>1 DEF UpRead, Abs!LeaveRead
  <2> QED BY <2>2 DEF Abs!AbsNext
<1>5. CASE DownWriteWait(t)
  <2>1. depth' = depth /\ count > 0 /\ live
    BY <1>5 DEF DownWriteWait, osal_sema_wait, IInv, UnusedUnlessLive
  <2>2. writers = {}
    BY <1>1, <2>1, NoWriterWhile
  <2>3. CASE left[t] = 1
    <3>1. t \in writers' /\ \A u \in Thread : depth[u] = 0
      BY <1>5, <2>1, <2>3 DEF DownWriteWait, Exclusion
    <3>2. AbsWriter = None /\ AbsWriter' = t
      BY <2>2, <3>1, WriterIs, WriterIsThen
    <3>3. Abs!EnterWrite(t)
      BY <2>1, <3>1, <3>2 DEF Abs!EnterWrite
    <3> QED BY <3>3 DEF Abs!AbsNext
  <2>4. CASE left[t] # 1
    BY <1>2, <1>5, <2>4 DEF DownWriteWait
  <2> QED BY <2>3, <2>4
<1>6. CASE UpWriteCall(t)
  <2>1. depth' = depth /\ t \in writers /\ writers' = {}
    BY <1>6 DEF UpWriteCall, Exclusion
  <2>2. AbsWriter = t /\ AbsWriter' = None
    BY <2>1, WriterIs, WriterIsThen
  <2>3. Abs!LeaveWrite(t)
    BY <2>1, <2>2 DEF Abs!LeaveWrite
  <2> QED BY <2>3 DEF Abs!AbsNext
<1>7. CASE \/ DownReadCall(t) \/ DownReadLock(t) \/ DownReadUnlock(t)
           \/ DownWriteCall(t) \/ DownWriteLock(t) \/ DownWriteUnlock(t) \/ UpWritePost(t)
  BY <1>2, <1>7 DEF DownReadCall, DownReadLock, DownReadUnlock, DownWriteCall, DownWriteLock,
                    DownWriteUnlock, UpWritePost
<1> QED
  BY <1>3, <1>4, <1>5, <1>6, <1>7 DEF ThreadStep, Inside, Leave

LEMMA StepImplements ==
  ASSUME IInv, Exclusion, IInv', Exclusion', [Next]_vars
  PROVE  [Abs!AbsNext]_Abs!absVars
<1>1. CASE Create \/ Destroy \/ UNCHANGED vars
  <2>1. depth' = depth /\ writers' = writers
    BY <1>1 DEF Create, Destroy, vars
  <2>2. AbsWriter' = AbsWriter
    BY <2>1 DEF AbsWriter
  <2> QED BY <2>1, <2>2 DEF Abs!absVars
<1>2. CASE \E t \in Thread : ThreadStep(t)
  BY <1>2, ThreadImplements DEF Abs!absVars
<1> QED BY <1>1, <1>2 DEF Next

(* rw_lock.h is a readers-writer lock for any number of permits and of     *)
(* threads: whatever its clients can tell of it, they could see with       *)
(* ReadersWriter too.                                                      *)
THEOREM RefinesReadersWriter == Spec => ImplementsReadersWriter
<1>1. Init => Abs!AbsInit
  <2> SUFFICES ASSUME Init PROVE Abs!AbsInit
    OBVIOUS
  <2>1. AbsWriter = None
    BY DEF Init, AbsWriter
  <2> QED BY <2>1 DEF Init, Abs!AbsInit
<1>2. /\ IInv /\ Exclusion /\ IInv' /\ Exclusion' /\ [Next]_vars
      => [Abs!AbsNext]_Abs!absVars
  BY StepImplements
<1> QED BY <1>1, <1>2, Invariance, MutualExclusion, PTL
        DEF Spec, ImplementsReadersWriter, Abs!AbsSpec
=============================================================================
