------------------------------- MODULE RwLock -------------------------------
(***************************************************************************)
(* The read-write lock of src/rw_lock.h: a mutex, the barrier, in front of *)
(* a counting semaphore of MaxPermits permits (RW_LOCK_MAX_WAIT_THREAD).   *)
(* A reader takes one permit, a writer takes all of them one at a time     *)
(* while it keeps the barrier, and either gives its permits back without   *)
(* touching the barrier.  The lock does not know who has it: a thread that *)
(* reads or writes may call down_read and down_write again.                *)
(*                                                                         *)
(* The mutex and the semaphore are the OSAL's and are modelled from how    *)
(* the lock uses them.  Each OSAL call is one step, so that the steps of   *)
(* different threads interleave between any two of them.                   *)
(***************************************************************************)
EXTENDS Naturals, FiniteSets

CONSTANTS
  Thread,        \* the threads that share the lock
  None,          \* no thread: the barrier is free
  MaxPermits,    \* RW_LOCK_MAX_WAIT_THREAD
  MaxNest,       \* bound: how many reads one thread nests
  MutexResults   \* the outcomes OsalMutexCreate may have

ASSUME ConstantsAssumption ==
  /\ None \notin Thread
  /\ MaxPermits \in Nat \ {0}
  /\ MaxNest \in Nat
  /\ MutexResults \subseteq BOOLEAN

VARIABLES
  live,      \* rw_lock_create returned success and rw_lock_destroy did not run since
  mutexOk,   \* rw->barrier is a mutex that was really created
  barrier,   \* the thread that has rw->barrier locked, or None
  count,     \* the value of rw->count
  pc,        \* pc[t]: where t is in the lock's code, "idle" outside of it
  left,      \* left[t]: the local variable count of down_write and up_write
  depth,     \* depth[t]: the read permits t took with down_read and did not give back
  writers    \* the threads with the write lock: from the last wait of down_write to up_write

vars == <<live, mutexOk, barrier, count, pc, left, depth, writers>>

-----------------------------------------------------------------------------
(* The OSAL calls.  A mutex that was never created makes lock and unlock   *)
(* fail; the lock ignores their result, so they return and do nothing.     *)

OsalMutexLock(t) ==
  \/ mutexOk /\ barrier = None /\ barrier' = t
  \/ ~mutexOk /\ UNCHANGED barrier

OsalMutexUnlock == barrier' = IF mutexOk THEN None ELSE barrier

osal_sema_wait == count > 0 /\ count' = count - 1

osal_sema_post == count' = count + 1

Goto(t, from, to) == pc[t] = from /\ pc' = [pc EXCEPT ![t] = to]

-----------------------------------------------------------------------------
(* Slips of the loops and of the barrier.  Nothing below uses them: each   *)
(* is an action of the lock with one mistake in it, kept to show that the  *)
(* properties notice.                                                      *)

(* up_write with while(--count): one post too few. *)
UpWritePostOneFewer(t) ==
  /\ Goto(t, "wr_post", IF left[t] <= 2 THEN "idle" ELSE "wr_post")
  /\ osal_sema_post
  /\ left' = [left EXCEPT ![t] = @ - 1]
  /\ UNCHANGED <<live, mutexOk, barrier, depth, writers>>

(* down_write with while(--count): one permit stays with the readers. *)
DownWriteWaitOneFewer(t) ==
  /\ Goto(t, "wr_wait", IF left[t] <= 2 THEN "wr_unlock" ELSE "wr_wait")
  /\ osal_sema_wait
  /\ left' = [left EXCEPT ![t] = @ - 1]
  /\ writers' = IF left[t] <= 2 THEN writers \cup {t} ELSE writers
  /\ UNCHANGED <<live, mutexOk, barrier, depth>>

(* down_read that takes a permit past the barrier when there is one. *)
DownReadLockBarges(t) ==
  \/ /\ count > 0
     /\ Goto(t, "rd_lock", "idle")
     /\ osal_sema_wait
     /\ depth' = [depth EXCEPT ![t] = @ + 1]
     /\ UNCHANGED <<live, mutexOk, barrier, left, writers>>
  \/ /\ count = 0
     /\ Goto(t, "rd_lock", "rd_wait")
     /\ OsalMutexLock(t)
     /\ UNCHANGED <<live, mutexOk, count, left, depth, writers>>

(* down_write that goes straight to the semaphore. *)
DownWriteLockNoBarrier(t) ==
  /\ Goto(t, "wr_lock", "wr_wait")
  /\ UNCHANGED <<live, mutexOk, barrier, count, left, depth, writers>>

-----------------------------------------------------------------------------
Init ==
  /\ live = FALSE
  /\ mutexOk = FALSE
  /\ barrier = None
  /\ count = 0
  /\ pc = [t \in Thread |-> "idle"]
  /\ left = [t \in Thread |-> 0]
  /\ depth = [t \in Thread |-> 0]
  /\ writers = {}

(* rw_lock_create: the result of OsalMutexCreate is dropped, the result of *)
(* osal_sema_create is what the caller sees.                               *)
Create ==
  /\ ~live
  /\ mutexOk' \in MutexResults
  /\ \/ live' = TRUE /\ count' = MaxPermits
     \/ live' = FALSE /\ count' = 0
  /\ UNCHANGED <<barrier, pc, left, depth, writers>>

(* rw_lock_destroy.  The lock does not check that it is unused: that no    *)
(* thread is inside is the rule its callers must keep.                     *)
Destroy ==
  /\ live
  /\ writers = {} /\ \A t \in Thread : pc[t] = "idle" /\ depth[t] = 0
  /\ live' = FALSE
  /\ mutexOk' = FALSE
  /\ count' = 0
  /\ UNCHANGED <<barrier, pc, left, depth, writers>>

-----------------------------------------------------------------------------
(* down_read: lock the barrier, wait for one permit, unlock the barrier.   *)
DownReadCall(t) ==
  /\ live
  /\ depth[t] < MaxNest
  /\ Goto(t, "idle", "rd_lock")
  /\ UNCHANGED <<live, mutexOk, barrier, count, left, depth, writers>>

DownReadLock(t) ==
  /\ Goto(t, "rd_lock", "rd_wait")
  /\ OsalMutexLock(t)
  /\ UNCHANGED <<live, mutexOk, count, left, depth, writers>>

DownReadWait(t) ==
  /\ Goto(t, "rd_wait", "rd_unlock")
  /\ osal_sema_wait
  /\ depth' = [depth EXCEPT ![t] = @ + 1]
  /\ UNCHANGED <<live, mutexOk, barrier, left, writers>>

DownReadUnlock(t) ==
  /\ Goto(t, "rd_unlock", "idle")
  /\ OsalMutexUnlock
  /\ UNCHANGED <<live, mutexOk, count, left, depth, writers>>

(* up_read: one post. *)
UpRead(t) ==
  /\ pc[t] = "idle"
  /\ depth[t] > 0
  /\ osal_sema_post
  /\ depth' = [depth EXCEPT ![t] = @ - 1]
  /\ UNCHANGED <<live, mutexOk, barrier, pc, left, writers>>

-----------------------------------------------------------------------------
(* down_write: lock the barrier, wait count times, unlock the barrier. *)
DownWriteCall(t) ==
  /\ live
  /\ Goto(t, "idle", "wr_lock")
  /\ left' = [left EXCEPT ![t] = MaxPermits]
  /\ UNCHANGED <<live, mutexOk, barrier, count, depth, writers>>

DownWriteLock(t) ==
  /\ Goto(t, "wr_lock", "wr_wait")
  /\ OsalMutexLock(t)
  /\ UNCHANGED <<live, mutexOk, count, left, depth, writers>>

(* One turn of while (count--): the turn that takes the last permit leaves *)
(* the loop.                                                               *)
DownWriteWait(t) ==
  /\ Goto(t, "wr_wait", IF left[t] = 1 THEN "wr_unlock" ELSE "wr_wait")
  /\ osal_sema_wait
  /\ left' = [left EXCEPT ![t] = @ - 1]
  /\ writers' = IF left[t] = 1 THEN writers \cup {t} ELSE writers
  /\ UNCHANGED <<live, mutexOk, barrier, depth>>

DownWriteUnlock(t) ==
  /\ Goto(t, "wr_unlock", "idle")
  /\ OsalMutexUnlock
  /\ UNCHANGED <<live, mutexOk, count, left, depth, writers>>

(* up_write: count posts, without the barrier. *)
UpWriteCall(t) ==
  /\ t \in writers
  /\ Goto(t, "idle", "wr_post")
  /\ left' = [left EXCEPT ![t] = MaxPermits]
  /\ writers' = writers \ {t}
  /\ UNCHANGED <<live, mutexOk, barrier, count, depth>>

UpWritePost(t) ==
  /\ Goto(t, "wr_post", IF left[t] = 1 THEN "idle" ELSE "wr_post")
  /\ osal_sema_post
  /\ left' = [left EXCEPT ![t] = @ - 1]
  /\ UNCHANGED <<live, mutexOk, barrier, depth, writers>>

-----------------------------------------------------------------------------
(* The steps a thread takes on its own once it called the lock. *)
Inside(t) ==
  \/ DownReadLock(t) \/ DownReadWait(t) \/ DownReadUnlock(t)
  \/ DownWriteLock(t) \/ DownWriteWait(t) \/ DownWriteUnlock(t)
  \/ UpWritePost(t)

(* A client leaving its critical section. *)
Leave(t) == UpRead(t) \/ UpWriteCall(t)

ThreadStep(t) == DownReadCall(t) \/ DownWriteCall(t) \/ Inside(t) \/ Leave(t)

Next == Create \/ Destroy \/ \E t \in Thread : ThreadStep(t)

Spec == Init /\ [][Next]_vars

(* Threads keep running inside the lock, and clients do not stay in a      *)
(* critical section for ever.  The fairness is weak: nothing is assumed of *)
(* the order in which the mutex or the semaphore serves its waiters.       *)
FairSpec ==
  /\ Spec
  /\ \A t \in Thread : WF_vars(Inside(t)) /\ WF_vars(Leave(t))
-----------------------------------------------------------------------------
(* Permits thread t has taken and not posted back: those of its reads and  *)
(* of its write, and those of a loop that is under way, whose local count  *)
(* is what it still has to take, or to post.                               *)
Held(t) ==
  depth[t] + (IF t \in writers THEN MaxPermits ELSE 0) +
    (IF pc[t] \in {"wr_lock", "wr_wait"} THEN MaxPermits - left[t] ELSE left[t])

(* The permits that are out, each as a pair of its holder and a number. *)
Taken == UNION {{t} \X (1..Held(t)) : t \in Thread}

(* t reads or writes. *)
HasLock(t) == depth[t] > 0 \/ t \in writers

(* t is between OsalMutexLock and OsalMutexUnlock. *)
BehindBarrier(t) == pc[t] \in {"rd_wait", "rd_unlock", "wr_wait", "wr_unlock"}

AtBarrier(t) == pc[t] \in {"rd_lock", "wr_lock"}
AtSemaphore(t) == pc[t] \in {"rd_wait", "wr_wait"}

Blocked(t) ==
  \/ AtBarrier(t) /\ mutexOk /\ barrier # None
  \/ AtSemaphore(t) /\ count = 0

(* A thread waits for a permit and every thread that has one is blocked.   *)
Deadlocked ==
  /\ \E t \in Thread : AtSemaphore(t) /\ count = 0
  /\ \A t \in Thread : Held(t) > 0 => Blocked(t)

-----------------------------------------------------------------------------
PcValues == {"idle", "rd_lock", "rd_wait", "rd_unlock", "wr_lock", "wr_wait",
             "wr_unlock", "wr_post"}

(* Every variable keeps its type: count and the locals never go negative.  *)
TypeOK ==
  /\ live \in BOOLEAN
  /\ mutexOk \in BOOLEAN
  /\ barrier \in Thread \cup {None}
  /\ count \in Nat
  /\ pc \in [Thread -> PcValues]
  /\ left \in [Thread -> 0..MaxPermits]
  /\ depth \in [Thread -> Nat]
  /\ writers \subseteq Thread

(* No permit is lost or made up: between rw_lock_create and                *)
(* rw_lock_destroy the semaphore's value and the permits the threads hold  *)
(* add up to RW_LOCK_MAX_WAIT_THREAD after every single wait and post of   *)
(* down_read, down_write, up_read and up_write.                            *)
PermitsConserved == live => count + Cardinality(Taken) = MaxPermits

(* While a thread writes no thread reads, itself included, and no other    *)
(* thread writes.  It does not depend on the barrier: it also holds when   *)
(* OsalMutexCreate failed and rw_lock_create said nothing.                 *)
Exclusion ==
  \A w \in writers : writers = {w} /\ \A t \in Thread : depth[t] = 0

(* With a barrier that exists, the threads between OsalMutexLock and       *)
(* OsalMutexUnlock are exactly its holder: one thread at a time waits on   *)
(* the semaphore, the other ones queue on the mutex, so that two writers   *)
(* never share out the permits between them.                               *)
OneWaiter ==
  mutexOk => \A t \in Thread : BehindBarrier(t) <=> barrier = t

(* Every deadlock has one of two causes: a thread that has the lock called *)
(* it again and is blocked there (down_read in a read behind a writer that *)
(* waits, down_write in a read, or either of them in a write), or          *)
(* OsalMutexCreate failed unnoticed and two writers took part of the       *)
(* permits each.  So threads that give the lock back before they ask for   *)
(* it again never deadlock on a lock whose barrier was created.            *)
DeadlockExplained ==
  Deadlocked =>
    \/ \E t \in Thread : HasLock(t) /\ Blocked(t)
    \/ /\ ~mutexOk
       /\ \E t, u \in Thread : t # u /\ pc[t] = "wr_wait" /\ pc[u] = "wr_wait"

-----------------------------------------------------------------------------
(* The loop counters of down_write and up_write agree with the place their *)
(* thread is at.                                                           *)
LocalsOK ==
  \A t \in Thread :
    /\ pc[t] = "wr_lock" => left[t] = MaxPermits
    /\ pc[t] \in {"wr_wait", "wr_post"} => left[t] > 0
    /\ pc[t] \notin {"wr_lock", "wr_wait", "wr_post"} => left[t] = 0

(* A lock that does not exist is not used: calls start only on a live lock *)
(* and rw_lock_destroy waits for its users.                                *)
UnusedUnlessLive ==
  /\ ~live => writers = {} /\ \A t \in Thread : pc[t] = "idle" /\ depth[t] = 0
  /\ ~live \/ ~mutexOk => barrier = None

(* The inductive invariant behind the safety properties: the permits are   *)
(* accounted for, the barrier has one owner, and the locals say where each *)
(* thread is.                                                              *)
IInv ==
  /\ TypeOK
  /\ LocalsOK
  /\ UnusedUnlessLive
  /\ OneWaiter
  /\ IsFiniteSet(Taken)
  /\ PermitsConserved

-----------------------------------------------------------------------------
(* The lock implements the abstract readers-writer lock: a read share is   *)
(* taken by the wait of down_read and given back by the post of up_read,   *)
(* a thread writes from its last wait in down_write to its call of         *)
(* up_write, and every other step changes nothing the clients can tell.    *)
AbsWriter == IF writers = {} THEN None ELSE CHOOSE t \in writers : TRUE

Abs == INSTANCE ReadersWriter
         WITH Capacity <- MaxPermits, readers <- depth, writer <- AbsWriter

ImplementsReadersWriter == Abs!AbsSpec

-----------------------------------------------------------------------------
(* A thread that got past the barrier gets all the permits it asks for,    *)
(* however many readers keep coming, unless the lock deadlocks: those that *)
(* have permits leave, and nobody else passes the barrier to take what     *)
(* they give back.  This is what the barrier is for.                       *)
Admitted ==
  \A t \in Thread :
    mutexOk /\ AtSemaphore(t) ~> ~AtSemaphore(t) \/ Deadlocked
=============================================================================
