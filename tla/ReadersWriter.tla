---------------------------- MODULE ReadersWriter ----------------------------
(***************************************************************************)
(* What a readers-writer lock promises, without barrier, semaphore or      *)
(* program counters: up to Capacity read shares are out at any time, or    *)
(* one thread writes and no share is out.  A thread may take several read  *)
(* shares, one per nested read.                                            *)
(***************************************************************************)
EXTENDS Naturals, FiniteSets

CONSTANTS
  Thread,     \* the threads that use the lock
  Capacity,   \* how many read shares exist
  None        \* "no thread"

VARIABLES
  readers,    \* readers[t]: the read shares thread t has
  writer      \* the thread that writes, or None

absVars == <<readers, writer>>

(* The read shares that are out, each as a pair of its thread and a number. *)
Shares == UNION {{t} \X (1..readers[t]) : t \in Thread}

AbsInit ==
  /\ readers = [t \in Thread |-> 0]
  /\ writer = None

EnterRead(t) ==
  /\ writer = None
  /\ Cardinality(Shares) < Capacity
  /\ readers' = [readers EXCEPT ![t] = @ + 1]
  /\ UNCHANGED writer

LeaveRead(t) ==
  /\ readers[t] > 0
  /\ readers' = [readers EXCEPT ![t] = @ - 1]
  /\ UNCHANGED writer

EnterWrite(t) ==
  /\ writer = None
  /\ \A u \in Thread : readers[u] = 0
  /\ writer' = t
  /\ UNCHANGED readers

LeaveWrite(t) ==
  /\ writer = t
  /\ writer' = None
  /\ UNCHANGED readers

AbsNext ==
  \E t \in Thread : EnterRead(t) \/ LeaveRead(t) \/ EnterWrite(t) \/ LeaveWrite(t)

AbsSpec == AbsInit /\ [][AbsNext]_absVars
==============================================================================
