------------------------- MODULE SocketServerProofs -------------------------
(***************************************************************************)
(* Proofs about SocketServer, for any number of clients and of commands.   *)
(***************************************************************************)
EXTENDS SocketServer, TLAPS

(* The descriptors of connections are above that of the listening socket. *)
LEMMA Descriptors == \A fd \in Fd : fd \in Int /\ listenfd < fd
BY DEF Fd, listenfd

(* While the scan is at a connection it has met the listening socket. *)
LEMMA PastListen ==
  ASSUME NEW fd \in Fd, Meets(fd)
  PROVE  listenfd \notin tmpfds /\ tmpfds' \subseteq tmpfds /\ pc = "scan"
<1>1. ~(fd <= listenfd)
  BY Descriptors DEF listenfd
<1> QED BY <1>1 DEF Meets

(* A step that accepts, closes and answers nothing. *)
LEMMA Quiet ==
  ASSUME ServerIInv, UNCHANGED <<readfds, connfd, peer, accepted, replies>>
  PROVE  Watched' /\ Acquainted' /\ AnswersGoForward'
<1>1. Watched /\ Acquainted /\ AnswersGoForward
  BY DEF ServerIInv, WatchesOpen
<1> QED BY <1>1 DEF Watched, Acquainted, AnswersGoForward, Open

-----------------------------------------------------------------------------
LEMMA ServerStart == Init => ServerIInv
<1> SUFFICES ASSUME Init PROVE ServerIInv
  OBVIOUS
<1>1. TypeOK
  BY DEF Init, TypeOK
<1>2. \A fd : ~Open(fd)
  BY DEF Init, Open
<1>3. Watched
  BY <1>2, Descriptors DEF Init, Watched, listenfd
<1>4. ScanInOrder /\ Acquainted /\ AnswersGoForward /\ ExitsExplained
  BY <1>2 DEF Init, ScanInOrder, Acquainted, AnswersGoForward, ExitsExplained
<1> QED BY <1>1, <1>3, <1>4 DEF ServerIInv, WatchesOpen

(* The clients: they only change what the server has not read. *)
LEMMA ClientKeeps ==
  ASSUME ServerIInv, NEW c \in Client,
         Connect(c) \/ Hangup(c) \/ \E command \in Commands : Send(c, command)
  PROVE  ServerIInv'
<1>1. /\ TypeOK /\ ScanInOrder /\ ExitsExplained
      /\ UNCHANGED <<pc, tmpfds, fd1, readfds, connfd, peer, accepted, replies>>
      /\ UNCHANGED buf
      /\ backlog' = backlog \/ backlog' = Append(backlog, c)
      /\ gone \subseteq gone'
  BY DEF ServerIInv, WatchesOpen, Connect, Hangup, Send, serverVars, clientVars
<1>2. backlog' \in Seq(Client) /\ (backlog # <<>> => backlog' # <<>>)
  BY <1>1 DEF TypeOK
<1>3. TypeOK'
  BY <1>1, <1>2 DEF TypeOK
<1>4. ScanInOrder' /\ ExitsExplained'
  BY <1>1, <1>2 DEF ScanInOrder, ExitsExplained, Open
<1> QED BY <1>1, <1>3, <1>4, Quiet DEF ServerIInv, WatchesOpen

LEMMA SelectKeeps == ASSUME ServerIInv, Select PROVE ServerIInv'
<1>1. /\ TypeOK /\ Watched /\ ScanInOrder /\ ExitsExplained /\ pc = "select"
      /\ UNCHANGED <<fd1, readfds, connfd, peer, accepted, replies, backlog, gone>>
  BY DEF ServerIInv, WatchesOpen, Select, clientVars
<1>2. CASE pc' = "exited" /\ UNCHANGED tmpfds /\ \E fd \in readfds \ {listenfd} : ~Open(fd)
  <2>1. PICK fd \in readfds \ {listenfd} : ~Open(fd)
    BY <1>2
  <2>2. fd \in readfds \cap Fd /\ fd = connfd
    BY <1>1, <2>1 DEF TypeOK, Watched
  <2>3. \A f \in readfds \ {listenfd} : Open(f) <=> f # connfd
    BY <1>1, <2>1, <2>2 DEF TypeOK, Watched
  <2>4. TypeOK' /\ ScanInOrder'
    BY <1>1, <1>2 DEF TypeOK, ScanInOrder, Ends
  <2>5. ExitsExplained'
    BY <1>1, <1>2, <2>2, <2>3 DEF ExitsExplained, Open
  <2> QED BY <1>1, <2>4, <2>5, Quiet DEF ServerIInv, WatchesOpen
<1>3. CASE /\ pc' = "scan" /\ tmpfds' = {fd \in readfds : Readable(fd)}
           /\ \A fd \in readfds \ {listenfd} : Open(fd)
  <2>1. TypeOK' /\ ExitsExplained'
    BY <1>1, <1>3 DEF TypeOK, ExitsExplained
  <2>2. listenfd \in tmpfds' => backlog # <<>>
    BY <1>3, Descriptors DEF Readable, Open, listenfd
  <2>3. \A fd \in readfds \cap Fd : Open(fd)
    BY <1>3, Descriptors DEF listenfd
  <2>4. ScanInOrder'
    BY <1>1, <1>3, <2>2, <2>3 DEF ScanInOrder, Open
  <2> QED BY <1>1, <2>1, <2>4, Quiet DEF ServerIInv, WatchesOpen
<1> QED BY <1>2, <1>3 DEF Select

(* The other steps that only read. *)
LEMMA ReadingKeeps ==
  ASSUME ServerIInv,
         \/ ScanDone \/ UploadRead
         \/ \E fd \in Fd : Text(fd) \/ Upload(fd) \/ ListFails(fd) \/ Killed(fd)
  PROVE  ServerIInv'
<1>1. /\ TypeOK /\ ScanInOrder /\ ExitsExplained
      /\ UNCHANGED <<readfds, connfd, peer, accepted, replies, backlog, gone>>
  BY DEF ServerIInv, WatchesOpen, ScanDone, UploadRead, Text, Upload, ListFails, Killed,
         serverVars, clientVars
<1>2. CASE ScanDone
  <2>1. TypeOK' /\ ScanInOrder' /\ ExitsExplained'
    BY <1>1, <1>2 DEF ScanDone, TypeOK, ScanInOrder, ExitsExplained
  <2> QED BY <1>1, <2>1, Quiet DEF ServerIInv, WatchesOpen
<1>3. CASE UploadRead
  <2>1. TypeOK' /\ ScanInOrder' /\ ExitsExplained'
    BY <1>1, <1>3 DEF UploadRead, serverVars, TypeOK, ScanInOrder, ExitsExplained, Open
  <2> QED BY <1>1, <2>1, Quiet DEF ServerIInv, WatchesOpen
<1>4. ASSUME NEW fd \in Fd, Text(fd) \/ Upload(fd) \/ ListFails(fd) \/ Killed(fd)
      PROVE  ServerIInv'
  <2>1. Meets(fd) /\ listenfd \notin tmpfds /\ tmpfds' \subseteq tmpfds
    BY <1>4, PastListen DEF Text, Upload, ListFails, Killed, Serves
  <2>2. fd1' \in Fd \cup {0}
    BY <1>1, <1>4 DEF Text, Upload, ListFails, Killed, TypeOK
  <2>3. /\ pc' \in {"scan", "upload", "killed", "crashed"}
        /\ pc' = "killed" => Open(connfd) /\ peer[connfd] \in gone
        /\ pc' = "crashed" => buf' = "ls"
    BY <1>4, <2>1 DEF Text, Upload, ListFails, Killed, Meets
  <2>4. TypeOK'
    BY <1>1, <2>1, <2>2, <2>3 DEF TypeOK, Ends
  <2>5. ScanInOrder' /\ ExitsExplained'
    BY <1>1, <2>1, <2>3 DEF ScanInOrder, ExitsExplained, Open
  <2> QED BY <1>1, <2>4, <2>5, Quiet DEF ServerIInv, WatchesOpen
<1> QED BY <1>2, <1>3, <1>4

-----------------------------------------------------------------------------
(* accept: every watched descriptor is open then, the new one is watched,  *)
(* and its client is the last that was accepted.                           *)
LEMMA AcceptKeeps == ASSUME ServerIInv, Accept PROVE ServerIInv'
<1>1. /\ TypeOK /\ Watched /\ ScanInOrder /\ Acquainted /\ AnswersGoForward
      /\ UNCHANGED <<pc, fd1, replies, gone>> /\ pc = "scan"
      /\ listenfd \in tmpfds /\ tmpfds' = tmpfds \ {listenfd}
  BY DEF ServerIInv, WatchesOpen, Accept, Meets, clientVars
<1>2. backlog # <<>> /\ \A fd \in readfds \cap Fd : Open(fd)
  BY <1>1 DEF ScanInOrder
<1>3. PICK new \in Fd :
        /\ ~Open(new) /\ connfd' = new
        /\ peer' = [peer EXCEPT ![new] = Head(backlog)]
        /\ readfds' = readfds \cup {new}
  BY DEF Accept
<1>4. backlog \in Seq(Client) /\ accepted \in Seq(Client) /\ peer \in [Fd -> Client \cup {None}]
  BY <1>1 DEF TypeOK
<1>5. Head(backlog) \in Client /\ Tail(backlog) \in Seq(Client)
  BY <1>2, <1>4
<1>6. Head(backlog) # None
  BY <1>5, ConstantsAssumption
<1>7. /\ backlog' = Tail(backlog) /\ accepted' = Append(accepted, Head(backlog))
      /\ accepted' \in Seq(Client)
  BY <1>4, <1>5 DEF Accept
<1>8. /\ accepted' # <<>> /\ Len(accepted') = Len(accepted) + 1
      /\ accepted'[Len(accepted')] = Head(backlog)
      /\ \A i \in DOMAIN accepted : i \in DOMAIN accepted' /\ accepted'[i] = accepted[i]
      /\ Len(accepted') \in DOMAIN accepted'
  BY <1>4, <1>5, <1>7
<1>9. /\ peer' \in [Fd -> Client \cup {None}] /\ peer'[new] = Head(backlog)
      /\ \A fd \in Fd : fd # new => peer'[fd] = peer[fd]
  BY <1>3, <1>4, <1>5
<1>10. Open(new)' /\ \A fd \in Fd : fd # new => (Open(fd)' <=> Open(fd))
  BY <1>6, <1>9 DEF Open
<1>11. TypeOK'
  BY <1>1, <1>3, <1>5, <1>7, <1>9 DEF TypeOK
<1>12. Watched'
  BY <1>1, <1>2, <1>3, <1>10 DEF Watched
<1>13. ScanInOrder' /\ ExitsExplained'
  BY <1>1 DEF ScanInOrder, ExitsExplained
<1>14. Acquainted'
  <2>1. ASSUME NEW fd \in Fd, Open(fd)'
        PROVE  \E i \in DOMAIN accepted' : accepted'[i] = peer'[fd]
    <3>1. CASE fd = new
      BY <1>8, <1>9, <3>1
    <3>2. CASE fd # new
      <4>1. PICK i \in DOMAIN accepted : accepted[i] = peer[fd]
        BY <1>1, <1>10, <2>1, <3>2 DEF Acquainted
      <4> QED BY <1>8, <1>9, <3>2, <4>1
    <3> QED BY <3>1, <3>2
  <2>2. peer'[connfd'] = accepted'[Len(accepted')]
    BY <1>3, <1>8, <1>9
  <2> QED BY <1>8, <2>1, <2>2 DEF Acquainted
<1>15. AnswersGoForward'
  <2> SUFFICES ASSUME NEW r \in replies
               PROVE  \E i, j \in DOMAIN accepted' :
                        i <= j /\ accepted'[i] = r[1] /\ accepted'[j] = r[2]
    BY <1>1 DEF AnswersGoForward
  <2>1. PICK i \in DOMAIN accepted, j \in DOMAIN accepted :
          i <= j /\ accepted[i] = r[1] /\ accepted[j] = r[2]
    BY <1>1 DEF AnswersGoForward
  <2> QED BY <1>8, <2>1
<1> QED BY <1>11, <1>12, <1>13, <1>14, <1>15 DEF ServerIInv, WatchesOpen

-----------------------------------------------------------------------------
(* The steps that close descriptors: fd, which is watched no longer, and   *)
(* perhaps connfd, which is.                                               *)
Closes(fd, closed) ==
  /\ closed \subseteq {fd, connfd} /\ fd \in closed
  /\ peer' = [f \in Fd |-> IF f \in closed THEN None ELSE peer[f]]
  /\ readfds' = readfds \ {fd}
  /\ pc' = "scan" /\ listenfd \notin tmpfds' /\ tmpfds' \subseteq tmpfds
  /\ UNCHANGED <<connfd, fd1, backlog, accepted>>

LEMMA ClosingKeeps ==
  ASSUME ServerIInv, NEW fd, NEW closed, Closes(fd, closed),
         \A r \in replies' : \/ r \in replies
                             \/ \E f \in Fd : /\ Open(f) /\ Open(connfd)
                                              /\ r = <<peer[f], peer[connfd]>>
  PROVE  ServerIInv'
<1>1. TypeOK /\ Watched /\ ScanInOrder /\ Acquainted /\ AnswersGoForward
  BY DEF ServerIInv, WatchesOpen
<1>2. peer' \in [Fd -> Client \cup {None}]
  BY <1>1 DEF Closes, TypeOK
<1>3. TypeOK'
  BY <1>1, <1>2 DEF Closes, TypeOK
<1>4. \A f \in Fd : (Open(f)' <=> Open(f) /\ f \notin closed)
                    /\ (Open(f)' => peer'[f] = peer[f])
  BY DEF Closes, Open
<1>5. Watched'
  BY <1>1, <1>4 DEF Closes, Watched
<1>6. ScanInOrder' /\ ExitsExplained'
  BY DEF Closes, ScanInOrder, ExitsExplained
<1>7. \A f : Open(f)' => f \in Fd
  BY DEF Open
<1>8. Acquainted'
  BY <1>1, <1>4, <1>7 DEF Closes, Acquainted
<1>9. AnswersGoForward'
  <2> SUFFICES ASSUME NEW r \in replies'
               PROVE  \E i, j \in DOMAIN accepted :
                        i <= j /\ accepted[i] = r[1] /\ accepted[j] = r[2]
    BY DEF AnswersGoForward, Closes
  <2>1. CASE r \in replies
    BY <1>1, <2>1 DEF AnswersGoForward
  <2>2. ASSUME NEW f \in Fd, Open(f), Open(connfd), r = <<peer[f], peer[connfd]>>
        PROVE  \E i, j \in DOMAIN accepted :
                 i <= j /\ accepted[i] = r[1] /\ accepted[j] = r[2]
    <3>1. PICK i \in DOMAIN accepted : accepted[i] = peer[f]
      BY <1>1, <2>2 DEF Acquainted
    <3>2. accepted # <<>> /\ peer[connfd] = accepted[Len(accepted)] /\ accepted \in Seq(Client)
      BY <1>1, <2>2 DEF Acquainted, TypeOK
    <3>3. Len(accepted) \in DOMAIN accepted /\ i <= Len(accepted)
      BY <3>1, <3>2
    <3>4. r[1] = peer[f] /\ r[2] = peer[connfd]
      BY <2>2
    <3> QED BY <3>1, <3>2, <3>3, <3>4
  <2> QED BY <2>1, <2>2
<1> QED BY <1>3, <1>5, <1>6, <1>8, <1>9 DEF ServerIInv, WatchesOpen

LEMMA CommandKeeps ==
  ASSUME ServerIInv, NEW fd \in Fd, Close(fd) \/ Get(fd) \/ List(fd)
  PROVE  ServerIInv'
<1>1. Meets(fd) /\ listenfd \notin tmpfds /\ tmpfds' \subseteq tmpfds /\ pc = "scan"
  BY PastListen DEF Close, Get, List, Serves
<1>2. peer \in [Fd -> Client \cup {None}]
  BY DEF ServerIInv, WatchesOpen, TypeOK
<1>3. \A r \in replies' : \/ r \in replies
                         \/ \E f \in Fd : /\ Open(f) /\ Open(connfd)
                                          /\ r = <<peer[f], peer[connfd]>>
  BY DEF Close, Get, List, Answered
<1>4. CASE Close(fd) \/ Get(fd)
  <2>1. peer' = [peer EXCEPT ![fd] = None]
    BY <1>4 DEF Close, Get
  <2>2. peer' = [f \in Fd |-> IF f \in {fd} THEN None ELSE peer[f]]
    BY <1>2, <2>1
  <2>3. Closes(fd, {fd})
    BY <1>1, <1>4, <2>2 DEF Close, Get, Closes
  <2> QED BY <1>3, <2>3, ClosingKeeps
<1>5. CASE List(fd)
  <2>1. Closes(fd, {fd, connfd})
    BY <1>1, <1>5 DEF List, Closes
  <2> QED BY <1>3, <2>1, ClosingKeeps
<1> QED BY <1>4, <1>5

LEMMA UploadEndKeeps == ASSUME ServerIInv, UploadEnd PROVE ServerIInv'
<1>1. /\ peer \in [Fd -> Client \cup {None}] /\ ScanInOrder /\ pc = "upload"
      /\ peer' = [peer EXCEPT ![fd1] = None]
      /\ UNCHANGED <<tmpfds, replies>>
  BY DEF ServerIInv, WatchesOpen, TypeOK, UploadEnd
<1>2. listenfd \notin tmpfds
  BY <1>1 DEF ScanInOrder
<1>3. peer' = [f \in Fd |-> IF f \in {fd1} THEN None ELSE peer[f]]
  BY <1>1
<1>4. Closes(fd1, {fd1})
  BY <1>1, <1>2, <1>3 DEF UploadEnd, Closes
<1> QED BY <1>1, <1>4, ClosingKeeps

-----------------------------------------------------------------------------
(* What the server knows of its connections, however its clients come, ask *)
(* and go (socket_main.c, main).                                           *)
THEOREM ServerInvariance == Spec => []ServerIInv
<1>1. ServerIInv /\ [Next]_vars => ServerIInv'
  <2> SUFFICES ASSUME ServerIInv, [Next]_vars PROVE ServerIInv'
    OBVIOUS
  <2>1. CASE UNCHANGED vars
    BY <2>1 DEF vars, serverVars, clientVars, ServerIInv, WatchesOpen, Watched, TypeOK, ScanInOrder,
                Acquainted, AnswersGoForward, ExitsExplained, Open
  <2>2. CASE Server
    BY <2>2, SelectKeeps, ReadingKeeps, AcceptKeeps, CommandKeeps, UploadEndKeeps DEF Server
  <2>3. CASE \E c \in Client :
               Connect(c) \/ Hangup(c) \/ \E command \in Commands : Send(c, command)
    BY <2>3, ClientKeeps
  <2> QED BY <2>1, <2>2, <2>3 DEF Next
<1> QED BY <1>1, ServerStart, PTL DEF Spec

(* Every open connection is watched, and at most the one accepted last is  *)
(* watched without being open.                                             *)
THEOREM ConnectionsWatched == Spec => []WatchesOpen
<1>1. ServerIInv => WatchesOpen
  BY DEF ServerIInv
<1> QED BY <1>1, ServerInvariance, PTL

(* No answer goes to a client that was accepted before the one that asked. *)
THEOREM AnswersForward == Spec => []AnswersGoForward
<1>1. ServerIInv => AnswersGoForward
  BY DEF ServerIInv
<1> QED BY <1>1, ServerInvariance, PTL

(* What is behind each of the three ends of the server, for any number of  *)
(* clients and whatever they ask for (socket_main.c:68, :109, :147).       *)
THEOREM ExitsKnown == Spec => []ExitsExplained
<1>1. ServerIInv => ExitsExplained
  BY DEF ServerIInv
<1> QED BY <1>1, ServerInvariance, PTL
=============================================================================
