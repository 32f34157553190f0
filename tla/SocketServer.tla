---------------------------- MODULE SocketServer ----------------------------
(***************************************************************************)
(* The file server of src/socket_main.c: one thread that multiplexes its   *)
(* listening socket and the connections it accepted with select.  The      *)
(* clients run at the same time, between any two steps of the server, and  *)
(* the kernel keeps what they sent until the server reads it.              *)
(*                                                                         *)
(* A command is one of "get", "up", "ls" and "text" (anything else); what  *)
(* follows its name, and the bytes that are copied, are left out.  A       *)
(* client's command arrives in one piece and fits the buffer.  accept does *)
(* not fail, and select only over a descriptor that is not open.           *)
(***************************************************************************)
EXTENDS Naturals, Sequences, FiniteSets, Functions

CONSTANTS
  Client,      \* the clients, each connects at most once
  None,        \* no client: the descriptor is closed
  Commands,    \* the commands that the clients send
  MaxSend      \* bound: how many commands a client sends

ASSUME ConstantsAssumption ==
  /\ IsFiniteSet(Client)
  /\ None \notin Client
  /\ Commands \subseteq {"get", "up", "ls", "text"}
  /\ MaxSend \in Nat

VARIABLES
  pc,         \* "select", "scan", "upload", or how the server ended
  readfds,    \* the descriptors that are watched
  tmpfds,     \* those of them that select reported and the scan has not met
  connfd,     \* the connection that was accepted last
  fd1,        \* the descriptor whose upload runs
  buf,        \* the command in the buffer
  nread,      \* TRUE: the last ioctl that succeeded found data
  peer,       \* peer[fd]: the client at the other end of fd, or None
  backlog,    \* the clients that connected and were not accepted
  sent,       \* sent[c]: the commands of c that nobody has read
  sends,      \* sends[c]: how many commands c sent
  gone,       \* the clients that closed their end
  accepted,   \* history: the clients that were accepted, in order
  replies     \* history: the clients that asked, each with the one that got

serverVars == <<pc, readfds, tmpfds, connfd, fd1, buf, nread>>
clientVars == <<sends, gone>>
vars == <<serverVars, clientVars, peer, backlog, sent, accepted, replies>>

listenfd == 3
Fd == 4..3 + Cardinality(Client)

Open(fd) == fd \in Fd /\ peer[fd] # None

(* exit(-1) after select failed, SIGPIPE, and SIGSEGV. *)
Ends == {"exited", "killed", "crashed"}

Ended == pc \in Ends

(* What select reports: a connection that waits to be accepted, data, or   *)
(* the end of what a client sends.                                         *)
Readable(fd) ==
  \/ fd = listenfd /\ backlog # <<>>
  \/ Open(fd) /\ (sent[peer[fd]] # <<>> \/ peer[fd] \in gone)

-----------------------------------------------------------------------------
(* A definition whose comment starts with "Slip" is the one after it with  *)
(* a mistake in it, which the properties must notice.                      *)

(* Slip: the listening socket is not watched. *)
InitUnwatched ==
  /\ pc = "select" /\ readfds = {} /\ tmpfds = {}
  /\ connfd = 0 /\ fd1 = 0 /\ buf = "text" /\ nread = FALSE
  /\ peer = [fd \in Fd |-> None]
  /\ backlog = <<>>
  /\ sent = [c \in Client |-> <<>>] /\ sends = [c \in Client |-> 0]
  /\ gone = {}
  /\ accepted = <<>> /\ replies = {}

(* Up to the loop: listen returned 0 into connfd. *)
Init ==
  /\ pc = "select" /\ readfds = {listenfd} /\ tmpfds = {}
  /\ connfd = 0 /\ fd1 = 0 /\ buf = "text" /\ nread = FALSE
  /\ peer = [fd \in Fd |-> None]
  /\ backlog = <<>>
  /\ sent = [c \in Client |-> <<>>] /\ sends = [c \in Client |-> 0]
  /\ gone = {}
  /\ accepted = <<>> /\ replies = {}

(* The clients. *)
Connected(c) == c \in Range(backlog) \cup Range(accepted)

Connect(c) ==
  /\ ~Ended
  /\ ~Connected(c) /\ c \notin gone
  /\ backlog' = Append(backlog, c)
  /\ UNCHANGED <<serverVars, clientVars, peer, sent, accepted, replies>>

Send(c, command) ==
  /\ Connected(c) /\ c \notin gone
  /\ sends[c] < MaxSend
  /\ sends' = [sends EXCEPT ![c] = @ + 1]
  /\ sent' = [sent EXCEPT ![c] = Append(@, command)]
  /\ UNCHANGED <<serverVars, gone, peer, backlog, accepted, replies>>

Hangup(c) ==
  /\ Connected(c) /\ c \notin gone
  /\ gone' = gone \cup {c}
  /\ UNCHANGED <<serverVars, sends, peer, backlog, sent, accepted, replies>>

-----------------------------------------------------------------------------
(* select fails, and the server exits, when a watched descriptor is not    *)
(* open.  Otherwise it waits until there is something to report.           *)
Select ==
  /\ pc = "select"
  /\ \/ /\ \E fd \in readfds \ {listenfd} : ~Open(fd)
        /\ pc' = "exited"
        /\ UNCHANGED tmpfds
     \/ /\ \A fd \in readfds \ {listenfd} : Open(fd)
        /\ tmpfds' = {fd \in readfds : Readable(fd)}
        /\ tmpfds' # {}
        /\ pc' = "scan"
  /\ UNCHANGED <<readfds, connfd, fd1, buf, nread, clientVars, peer, backlog,
                 sent, accepted, replies>>

ScanDone ==
  /\ pc = "scan" /\ tmpfds = {}
  /\ pc' = "select"
  /\ UNCHANGED <<readfds, tmpfds, connfd, fd1, buf, nread, clientVars, peer,
                 backlog, sent, accepted, replies>>

(* The scan meets the descriptors in increasing order. *)
Meets(fd) ==
  /\ pc = "scan"
  /\ fd \in tmpfds /\ \A other \in tmpfds : fd <= other
  /\ tmpfds' = tmpfds \ {fd}

(* Slip: the new connection is not watched. *)
AcceptUnwatched ==
  /\ Meets(listenfd)
  /\ \E fd \in Fd :
       /\ ~Open(fd) /\ \A other \in Fd : ~Open(other) => fd <= other
       /\ connfd' = fd
       /\ peer' = [peer EXCEPT ![fd] = Head(backlog)]
  /\ accepted' = Append(accepted, Head(backlog))
  /\ backlog' = Tail(backlog)
  /\ UNCHANGED <<pc, readfds, fd1, buf, nread, clientVars, sent, replies>>

(* Slip: connfd stays with the first connection. *)
AcceptKeepsConnfd ==
  /\ Meets(listenfd)
  /\ \E fd \in Fd :
       /\ ~Open(fd) /\ \A other \in Fd : ~Open(other) => fd <= other
       /\ connfd' = IF connfd = 0 THEN fd ELSE connfd
       /\ peer' = [peer EXCEPT ![fd] = Head(backlog)]
       /\ readfds' = readfds \cup {fd}
  /\ accepted' = Append(accepted, Head(backlog))
  /\ backlog' = Tail(backlog)
  /\ UNCHANGED <<pc, fd1, buf, nread, clientVars, sent, replies>>

(* accept gives the lowest free descriptor to the client that waits longest. *)
Accept ==
  /\ Meets(listenfd)
  /\ \E fd \in Fd :
       /\ ~Open(fd) /\ \A other \in Fd : ~Open(other) => fd <= other
       /\ connfd' = fd
       /\ peer' = [peer EXCEPT ![fd] = Head(backlog)]
       /\ readfds' = readfds \cup {fd}
  /\ accepted' = Append(accepted, Head(backlog))
  /\ backlog' = Tail(backlog)
  /\ UNCHANGED <<pc, fd1, buf, nread, clientVars, sent, replies>>

(* FIONREAD counts what fd has.  On a descriptor that was closed while it  *)
(* was in tmpfds the ioctl fails and nread keeps its value.                *)
FoundData(fd) == IF Open(fd) THEN sent[peer[fd]] # <<>> ELSE nread

(* read takes everything, and the first command is what the buffer starts  *)
(* with.  On a closed descriptor it fails and the buffer stays as it was:  *)
(* what buf[n] = 0 overwrites then lies outside of the buffer.             *)
Command(fd) == IF Open(fd) THEN Head(sent[peer[fd]]) ELSE buf

AfterRead(fd) == IF Open(fd) THEN [sent EXCEPT ![peer[fd]] = <<>>] ELSE sent

(* Slip: the descriptor stays in readfds. *)
CloseWatched(fd) ==
  /\ fd # listenfd /\ Meets(fd) /\ ~FoundData(fd)
  /\ nread' = FALSE
  /\ peer' = [peer EXCEPT ![fd] = None]
  /\ UNCHANGED <<pc, readfds, connfd, fd1, buf, clientVars, backlog, sent, accepted, replies>>

(* Nothing to read: the client hung up. *)
Close(fd) ==
  /\ fd # listenfd /\ Meets(fd) /\ ~FoundData(fd)
  /\ nread' = FALSE
  /\ peer' = [peer EXCEPT ![fd] = None]
  /\ readfds' = readfds \ {fd}
  /\ UNCHANGED <<pc, connfd, fd1, buf, clientVars, backlog, sent, accepted, replies>>

Serves(fd, command) ==
  /\ fd # listenfd /\ Meets(fd) /\ FoundData(fd)
  /\ Command(fd) = command
  /\ sent' = AfterRead(fd)
  /\ nread' = TRUE

(* Who gets what is written to connfd in answer to fd. *)
Answered(fd) == IF Open(fd) /\ Open(connfd) THEN {<<peer[fd], peer[connfd]>>} ELSE {}

Text(fd) ==
  /\ Serves(fd, "text")
  /\ buf' = "text"
  /\ UNCHANGED <<pc, readfds, connfd, fd1, clientVars, peer, backlog, accepted, replies>>

(* -get: the file, if there is one, goes to connfd and fd is closed.  The  *)
(* buffer is cleared.                                                      *)
Get(fd) ==
  /\ Serves(fd, "get")
  /\ replies' \in {replies, replies \cup Answered(fd)}
  /\ buf' = "text"
  /\ peer' = [peer EXCEPT ![fd] = None]
  /\ readfds' = readfds \ {fd}
  /\ UNCHANGED <<pc, connfd, fd1, clientVars, backlog, accepted>>

(* -ls: the names go to connfd, fd and connfd are closed, and only fd is   *)
(* no longer watched.  The buffer keeps the command.                       *)
List(fd) ==
  /\ Serves(fd, "ls")
  /\ replies' \in {replies, replies \cup Answered(fd)}
  /\ buf' = "ls"
  /\ peer' = [f \in Fd |-> IF f \in {fd, connfd} THEN None ELSE peer[f]]
  /\ readfds' = readfds \ {fd}
  /\ UNCHANGED <<pc, connfd, fd1, clientVars, backlog, accepted>>

(* opendir fails: perror says so, and the code goes on to readdir(NULL).   *)
ListFails(fd) ==
  /\ Serves(fd, "ls")
  /\ buf' = "ls"
  /\ pc' = "crashed"
  /\ UNCHANGED <<readfds, connfd, fd1, clientVars, peer, backlog, accepted, replies>>

(* Writing to a client that left raises SIGPIPE once the kernel knows, and *)
(* nothing catches it.                                                     *)
Killed(fd) ==
  /\ Serves(fd, "get") \/ Serves(fd, "ls")
  /\ Open(connfd) /\ peer[connfd] \in gone
  /\ pc' = "killed"
  /\ UNCHANGED <<readfds, connfd, fd1, buf, clientVars, peer, backlog, accepted, replies>>

(* -up: the server reads connfd, whoever that is, until its end ...        *)
Upload(fd) ==
  /\ Serves(fd, "up")
  /\ buf' = "up"
  /\ fd1' = fd
  /\ pc' = "upload"
  /\ UNCHANGED <<readfds, connfd, clientVars, peer, backlog, accepted, replies>>

UploadRead ==
  /\ pc = "upload"
  /\ Open(connfd) /\ sent[peer[connfd]] # <<>>
  /\ sent' = [sent EXCEPT ![peer[connfd]] = Tail(@)]
  /\ UNCHANGED <<serverVars, clientVars, peer, backlog, accepted, replies>>

(* ... and then closes fd1 and clears the buffer. *)
UploadEnd ==
  /\ pc = "upload"
  /\ Open(connfd) => sent[peer[connfd]] = <<>> /\ peer[connfd] \in gone
  /\ peer' = [peer EXCEPT ![fd1] = None]
  /\ readfds' = readfds \ {fd1}
  /\ buf' = "text"
  /\ pc' = "scan"
  /\ UNCHANGED <<tmpfds, connfd, fd1, nread, clientVars, backlog, sent, accepted, replies>>

-----------------------------------------------------------------------------
Server ==
  \/ Select \/ ScanDone \/ Accept \/ UploadRead \/ UploadEnd
  \/ \E fd \in Fd :
       \/ Close(fd) \/ Text(fd) \/ Get(fd) \/ List(fd) \/ Upload(fd)
       \/ ListFails(fd) \/ Killed(fd)

Next ==
  \/ Server
  \/ \E c \in Client :
       Connect(c) \/ Hangup(c) \/ \E command \in Commands : Send(c, command)

Spec == Init /\ [][Next]_vars

(* The server's thread runs, and the clients hang up some day. *)
FairSpec ==
  /\ Spec
  /\ WF_vars(Server)
  /\ \A c \in Client : WF_vars(Hangup(c))

-----------------------------------------------------------------------------
(* The scan only meets descriptors that exist. *)
TypeOK ==
  /\ pc \in {"select", "scan", "upload"} \cup Ends
  /\ readfds \subseteq Fd \cup {listenfd}
  /\ tmpfds \subseteq Fd \cup {listenfd}
  /\ connfd \in Fd \cup {0} /\ fd1 \in Fd \cup {0}
  /\ peer \in [Fd -> Client \cup {None}]
  /\ backlog \in Seq(Client) /\ accepted \in Seq(Client)

Watched ==
  /\ \A fd \in Fd : Open(fd) => fd \in readfds
  /\ \A fd \in readfds \cap Fd : ~Open(fd) => fd = connfd

(* No connection is forgotten: the server watches every one that is open.  *)
(* What it watches and is not open can only be the connection it accepted  *)
(* last, closed by an -ls of another one.                                  *)
WatchesOpen == TypeOK /\ Watched

(* An answer goes to the client that asked or to one accepted after it,    *)
(* never to an earlier one: with one connection at a time, to the one that *)
(* asked.                                                                  *)
AnswersGoForward ==
  \A r \in replies : \E i, j \in DOMAIN accepted :
    i <= j /\ accepted[i] = r[1] /\ accepted[j] = r[2]

(* The loop goes on for ever ("while(1)", listening in a loop): select is  *)
(* never called on a descriptor that the server itself has closed.         *)
LoopGoesOn ==
  pc = "select" => \A fd \in readfds \ {listenfd} : Open(fd)

(* What is behind each of the three ends of the loop.  select fails for    *)
(* one descriptor only, that of the connection accepted last, which        *)
(* another one's -ls closed.  A write kills the server when the client of  *)
(* that connection has left.  And readdir crashes in an -ls, on a          *)
(* directory that could not be opened.                                     *)
ExitsExplained ==
  /\ pc = "exited" =>
       connfd \in readfds /\ \A fd \in readfds \ {listenfd} : Open(fd) <=> fd # connfd
  /\ pc = "killed" => Open(connfd) /\ peer[connfd] \in gone
  /\ pc = "crashed" => buf = "ls"

(* The inductive invariant.  The scan meets the listening socket before    *)
(* any command closes a descriptor, so that a new connection never takes   *)
(* connfd away from one that is closed and watched.                        *)
ScanInOrder ==
  /\ pc = "select" => tmpfds = {}
  /\ listenfd \in tmpfds =>
       pc = "scan" /\ backlog # <<>> /\ \A fd \in readfds \cap Fd : Open(fd)

(* The clients of the open connections were accepted, that of connfd last. *)
Acquainted ==
  /\ \A fd \in Fd : Open(fd) => \E i \in DOMAIN accepted : accepted[i] = peer[fd]
  /\ Open(connfd) => accepted # <<>> /\ peer[connfd] = accepted[Len(accepted)]

ServerIInv == WatchesOpen /\ ScanInOrder /\ Acquainted /\ AnswersGoForward /\ ExitsExplained

(* Every client that connects is accepted, and what it sends is read       *)
(* unless its connection is closed first, if the clients hang up in the    *)
(* end: an upload may keep the server reading from another client than the *)
(* one that uploads, but not for ever.  ExitsExplained says when the       *)
(* server ends.                                                            *)
ClientsServed ==
  \A c \in Client :
    /\ c \in Range(backlog) ~> c \in Range(accepted) \/ Ended
    /\ c \in Range(accepted) /\ sent[c] # <<>>
         ~> \/ sent[c] = <<>>
            \/ \A fd \in Fd : peer[fd] # c
            \/ Ended
=============================================================================
