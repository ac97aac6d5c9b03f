----------------------------- MODULE TcpServers -----------------------------
(***************************************************************************)
(* The servers of tp_04_01 and tp_04_02 and their clients.  The first      *)
(* serves one connection after the other: it accepts, sends its message,   *)
(* sleeps and closes.  The second forks a child for each connection.       *)
(*                                                                         *)
(* Nothing is looked at that a call returns.  The second server never      *)
(* closes the descriptors it accepts and never waits for a child: without  *)
(* descriptors accept fails at once and it forks children that have        *)
(* nothing to serve, until there are no processes, fork fails, and it does *)
(* the child's work itself and exits.                                      *)
(***************************************************************************)
EXTENDS Integers, Sequences, SequencesExt

CONSTANTS
  Client,
  Nobody,    \* the descriptor -1
  FdMax,     \* descriptors a process may have for connections
  ProcMax,   \* children there may be, the ended ones included
  Backlog    \* connections that may wait to be accepted

VARIABLES
  forks,     \* whether it is the server of tp_04_02
  client,    \* what each client has come to
  backlog,   \* the connections that wait to be accepted
  server,    \* where the server is
  conn,      \* fdtSocket: the client at its other end
  fds,       \* the descriptors of connections that it has open
  child      \* the children: where each is, and its connection

clientVars == <<client, backlog>>
serverVars == <<server, conn, fds>>
vars == <<forks, clientVars, serverVars, child>>

Forked == 1 .. ProcMax

Init ==
  /\ forks \in BOOLEAN
  /\ client = [c \in Client |-> "out"] /\ backlog = << >>
  /\ server = "accept" /\ conn = Nobody /\ fds = 0
  /\ child = [i \in Forked |-> [state |-> "none", fd |-> Nobody]]

-----------------------------------------------------------------------------
(* Faulty variants.  No specification uses them. *)

\* fdtSocket keeps its value when accept fails
ConnKept == conn

-----------------------------------------------------------------------------
(* The clients.  The children inherit the socket that listens. *)

Listening ==
  server # "ended" \/ \E i \in Forked : child[i].state \in {"send", "sleep"}

\* connect; a full backlog lets it wait
Connect(c) ==
  /\ client[c] = "out"
  /\ Listening /\ Len(backlog) < Backlog
  /\ client' = [client EXCEPT ![c] = "reads"]
  /\ backlog' = Append(backlog, c)
  /\ UNCHANGED <<forks, serverVars, child>>

\* connect or read fails: the client shows what its buffer held
Fails(c) ==
  /\ client[c] = "out" \/ c \in ToSet(backlog)
  /\ ~Listening
  /\ client' = [client EXCEPT ![c] = "nothing"]
  /\ backlog' = RemoveFirst(backlog, c)
  /\ UNCHANGED <<forks, serverVars, child>>

\* send, and the client's read
Told(c) == IF c = Nobody THEN client ELSE [client EXCEPT ![c] = "told"]

-----------------------------------------------------------------------------
(* The servers *)

AfterAccept == IF forks THEN "fork" ELSE "send"

HasFd == fds < FdMax

Accept ==
  /\ server = "accept"
  /\ HasFd /\ backlog # << >>
  /\ conn' = Head(backlog) /\ backlog' = Tail(backlog)
  /\ fds' = fds + 1
  /\ server' = AfterAccept
  /\ UNCHANGED <<forks, client, child>>

NoConn == Nobody

AcceptFails ==
  /\ server = "accept"
  /\ ~HasFd
  /\ conn' = NoConn
  /\ server' = AfterAccept
  /\ UNCHANGED <<forks, clientVars, fds, child>>

Fork ==
  /\ server = "fork"
  /\ \E i \in Forked :
       /\ child[i].state = "none"
       /\ \A j \in Forked : j < i => child[j].state # "none"
       /\ child' = [child EXCEPT ![i] = [state |-> "send", fd |-> conn]]
  /\ server' = "accept"
  /\ UNCHANGED <<forks, clientVars, conn, fds>>

\* createChild runs childFunc in the server itself
ForkFailed == "send"

ForkFails ==
  /\ server = "fork"
  /\ server' = ForkFailed
  /\ UNCHANGED <<forks, clientVars, conn, fds, child>>

Send ==
  /\ server = "send"
  /\ client' = Told(conn)
  /\ server' = "sleep"
  /\ UNCHANGED <<forks, backlog, conn, fds, child>>

\* close of tp_04_01's server
Close == fds - 1

CloseAndGoOn ==
  /\ server = "sleep" /\ ~forks
  /\ fds' = Close
  /\ server' = "accept"
  /\ UNCHANGED <<forks, clientVars, conn, child>>
CloseAndExit ==
  /\ server = "sleep" /\ forks
  /\ server' = "ended" /\ fds' = 0
  /\ UNCHANGED <<forks, clientVars, conn, child>>

\* childFunc in a child
ChildSends(i) ==
  /\ child[i].state = "send"
  /\ client' = Told(child[i].fd)
  /\ child' = [child EXCEPT ![i].state = "sleep"]
  /\ UNCHANGED <<forks, backlog, serverVars>>
ChildExits(i) ==
  /\ child[i].state = "sleep"
  /\ child' = [child EXCEPT ![i].state = "zombie"]
  /\ UNCHANGED <<forks, clientVars, serverVars>>

-----------------------------------------------------------------------------

Server ==
  \/ Accept \/ AcceptFails \/ Fork \/ ForkFails
  \/ Send \/ CloseAndGoOn \/ CloseAndExit
ChildFunc(i) == ChildSends(i) \/ ChildExits(i)
Next ==
  \/ Server \/ \E i \in Forked : ChildFunc(i)
  \/ \E c \in Client : Connect(c) \/ Fails(c)

Spec == Init /\ [][Next]_vars

-----------------------------------------------------------------------------
(* Properties *)

TypeOK ==
  /\ client \in [Client -> {"out", "reads", "told", "nothing"}]
  /\ backlog \in Seq(Client) /\ Len(backlog) <= Backlog
  /\ server \in {"accept", "fork", "send", "sleep", "ended"}
  /\ conn \in Client \cup {Nobody}
  /\ fds \in 0 .. FdMax
  /\ child \in [Forked -> [state : {"none", "send", "sleep", "zombie"},
                          fd : Client \cup {Nobody}]]

\* No connection is served by two processes, also when accept fails, and when
\* the server does the work of the child that it could not fork.
OneServesEach ==
  /\ \A i, j \in Forked : i # j /\ child[i].fd = child[j].fd => child[i].fd = Nobody
  /\ forks /\ server \in {"send", "sleep"} =>
       \A i \in Forked : child[i].fd = conn => conn = Nobody

\* Every client that is connected gets the message: the first server gets to
\* each; of the second only those are left out that wait to be accepted when its
\* descriptors are all used or it has ended.
Served ==
  \A c \in Client :
    (client[c] = "reads") ~>
      \/ client[c] = "told"
      \/ forks /\ c \in ToSet(backlog) /\ (fds = FdMax \/ server = "ended")
      \/ forks /\ client[c] = "nothing"

\* When the second server has used all its descriptors it goes on forking until
\* it cannot, and ends itself.
LeakEnds == (forks /\ fds = FdMax) ~> (server = "ended")

\* Descriptors and children stay within their limits, and no connection has two
\* servers.
Safe == TypeOK /\ OneServesEach
=============================================================================
