---------------------------- MODULE LinkListLoops ----------------------------
(***************************************************************************)
(* A client that walks a list of LinkList with the loops of                *)
(* src/link_list.h.  Each turn of list_for_each and list_for_each_safe is  *)
(* a step, the loop's body is any number of calls between two turns.       *)
(***************************************************************************)
EXTENDS LinkList

CONSTANT None     \* no loop runs

ASSUME LoopAssumption == None \notin ListHead

VARIABLES
  loop,    \* the head of the list that is walked, or None
  safe,    \* TRUE: by list_for_each_safe, FALSE: by list_for_each
  pos, n,  \* the loop's variables
  todo     \* the entries that were on the list and were not visited yet

loopVars == <<loop, safe, pos, n, todo>>

LoopInit ==
  /\ Init
  /\ loop = None /\ safe = FALSE /\ pos = None /\ n = None /\ todo = <<>>

(* Slip: n starts at the first entry, like pos. *)
LoopStartTwice(head, s) ==
  /\ loop = None
  /\ head \notin off
  /\ loop' = head
  /\ safe' = s
  /\ pos' = next[head]
  /\ n' = IF s THEN next[head] ELSE None
  /\ todo' = EntriesFrom(next, next[head], head)
  /\ UNCHANGED links

(* pos = (head)->next and, in the safe loop, n = pos->next. *)
LoopStart(head, s) ==
  /\ loop = None
  /\ head \notin off
  /\ loop' = head
  /\ safe' = s
  /\ pos' = next[head]
  /\ n' = IF s THEN next[next[head]] ELSE None
  /\ todo' = EntriesFrom(next, next[head], head)
  /\ UNCHANGED links

(* Slip: the safe loop advances like the other one. *)
LoopTurnUnsafe ==
  /\ loop # None
  /\ pos # loop
  /\ pos' = next[pos]
  /\ n' = IF safe THEN next[next[pos]] ELSE None
  /\ todo' = SubSeq(todo, 2, Len(todo))
  /\ UNCHANGED <<links, loop, safe>>

(* pos = pos->next, or pos = n and n = pos->next. *)
LoopTurn ==
  /\ loop # None
  /\ pos # loop
  /\ pos' = IF safe THEN n ELSE next[pos]
  /\ n' = IF safe THEN next[n] ELSE None
  /\ todo' = SubSeq(todo, 2, Len(todo))
  /\ UNCHANGED <<links, loop, safe>>

LoopExit ==
  /\ loop # None
  /\ pos = loop
  /\ loop' = None /\ safe' = FALSE /\ pos' = None /\ n' = None
  /\ UNCHANGED <<links, todo>>

(* What a body may do to the lists: delete the entry it is at, if the loop *)
(* is the safe one, and add entries to other lists.                        *)
Body ==
  /\ loop # None
  /\ pos # loop
  /\ \/ safe /\ (list_del(pos) \/ list_del_init(pos))
     \/ \E entry \in Entry, head \in ListHead \ {loop} :
          list_add(entry, head) \/ list_add_tail(entry, head)
  /\ UNCHANGED loopVars

Outside == loop = None /\ Change /\ UNCHANGED loopVars

Next ==
  \/ Outside \/ Body \/ LoopTurn \/ LoopExit
  \/ \E head \in ListHead, s \in BOOLEAN : LoopStart(head, s)

LoopSpec == LoopInit /\ [][Next]_<<links, loopVars>>

(* The client's loops go on: no body keeps the thread for ever. *)
FairLoopSpec == LoopSpec /\ WF_<<links, loopVars>>(LoopTurn \/ LoopExit)

-----------------------------------------------------------------------------
(* A loop visits exactly the entries that were on the list when it began,  *)
(* in their order, also when its body takes the entry it is at off the     *)
(* list, initialises it or puts it on another list: what it is still going *)
(* to visit is what is left of them.                                       *)
LoopVisitsAll ==
  loop # None =>
    IF pos = loop THEN todo = <<>>
    ELSE /\ todo # <<>> /\ pos = todo[1]
         /\ Run(next, IF safe THEN n ELSE next[pos], SubSeq(todo, 2, Len(todo)), loop)

(* A loop ends. *)
LoopEnds == loop # None ~> loop = None
=============================================================================
