------------------------------ MODULE MCRwLock ------------------------------
(***************************************************************************)
(* An instance of RwLock for TLC.  The threads are interchangeable, but no *)
(* symmetry is declared: it is not sound for liveness.                     *)
(***************************************************************************)
EXTENDS RwLock

MutexMayFail == {TRUE, FALSE}
=============================================================================
