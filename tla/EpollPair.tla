----------------------------- MODULE EpollPair ------------------------------
(***************************************************************************)
(* lib/epoll/epollclient.cpp and epollserver.cpp: the client's users send  *)
(* a message and wait for the answer in turns, each over a connection of   *)
(* its own; the server answers whatever it receives.  Both switch the      *)
(* registration of a socket between input and output, so that each waits   *)
(* for the other.                                                          *)
(*                                                                         *)
(* A message is Size bytes, and TCP may deliver any part of what is under  *)
(* way.  An event is handled by itself: the events of one epoll_wait are   *)
(* of different sockets.  A connection may break, after which both sides'  *)
(* calls fail.                                                             *)
(***************************************************************************)
EXTENDS Integers

CONSTANTS
    m_iUserCount,
    Size,           \* bytes of a message and of an answer
    MaxUnder,       \* bound: bytes under way in one direction
    MaxRounds       \* bound: messages of a user

VARIABLES
    connecting,     \* iuserid in the first loop of RunFun
    clobbered,      \* m_iEpollFd was overwritten
    iUserStatus,    \* of each user
    interest,       \* the events its socket is registered for, {} if it is not
    conn,           \* of its connection: "none", "backlog", "accepted" or "broken"
    served,         \* the events the server has registered its end for
    toServer, toClient,    \* bytes under way
    rounds                 \* messages sent

vars == <<connecting, clobbered, iUserStatus, interest, conn, served, toServer,
          toClient, rounds>>

Users == 0..(m_iUserCount - 1)

EPOLLIN == "in"
EPOLLOUT == "out"

\* The constructor of EpollClient.
Init ==
    /\ connecting = 0
    /\ clobbered = FALSE
    /\ iUserStatus = [u \in Users |-> "FREE"]
    /\ interest = [u \in Users |-> {}]
    /\ conn = [u \in Users |-> "none"]
    /\ served = [u \in Users |-> {}]
    /\ toServer = [u \in Users |-> 0]
    /\ toClient = [u \in Users |-> 0]
    /\ rounds = [u \in Users |-> 0]

-----------------------------------------------------------------------------
(* epollclient.cpp *)

\* A user's connect is begun and its socket registered; the connection may be
\* refused later.  If there is no socket, ConnectToServer returns -1, and
\* m_iSockFd_UserId[-1] is the member before that array, m_iEpollFd.
ConnectToServer ==
    /\ connecting < m_iUserCount
    /\ connecting' = connecting + 1
    /\ \/ /\ iUserStatus' = [iUserStatus EXCEPT ![connecting] = "CONNECT_OK"]
          /\ interest' = [interest EXCEPT ![connecting] = IF clobbered THEN {} ELSE {EPOLLIN, EPOLLOUT}]
          /\ \E s \in {"backlog", "broken"} : conn' = [conn EXCEPT ![connecting] = s]
          /\ UNCHANGED clobbered
       \/ clobbered' = TRUE /\ UNCHANGED <<iUserStatus, interest, conn>>
    /\ UNCHANGED <<served, toServer, toClient, rounds>>

\* What epoll_wait can report of the user's socket.
Ready(u) ==
    {e \in interest[u] : conn[u] = "broken" \/ e = EPOLLOUT \/ toClient[u] > 0}

Event(u) == connecting = m_iUserCount /\ ~clobbered /\ Ready(u) # {}

\* DelEpoll and CloseUser.  The server's end sees the end of the stream.
CloseUser(u) ==
    /\ iUserStatus' = [iUserStatus EXCEPT ![u] = "FREE"]
    /\ interest' = [interest EXCEPT ![u] = {}]
    /\ conn' = [conn EXCEPT ![u] = "broken"]
    /\ UNCHANGED <<toServer, toClient, rounds>>

SendToServerData(u) ==
    /\ Event(u) /\ EPOLLOUT \in Ready(u)
    /\ \/ /\ conn[u] # "broken"
          /\ iUserStatus[u] \in {"CONNECT_OK", "RECV_OK"}
          /\ rounds[u] < MaxRounds /\ toServer[u] + Size <= MaxUnder
          /\ rounds' = [rounds EXCEPT ![u] = @ + 1]
          /\ toServer' = [toServer EXCEPT ![u] = @ + Size]
          /\ iUserStatus' = [iUserStatus EXCEPT ![u] = "SEND_OK"]
          /\ interest' = [interest EXCEPT ![u] = {EPOLLIN}]
          /\ UNCHANGED <<conn, toClient>>
       \/ /\ conn[u] = "broken" \/ iUserStatus[u] \notin {"CONNECT_OK", "RECV_OK"}
          /\ CloseUser(u)
    /\ UNCHANGED <<connecting, clobbered, served>>

\* Any part of an answer lets the user send again.
RecvFromServer(u) ==
    /\ Event(u) /\ EPOLLOUT \notin Ready(u) /\ EPOLLIN \in Ready(u)
    /\ \/ /\ iUserStatus[u] = "SEND_OK"
          /\ \E n \in 1..toClient[u] : toClient' = [toClient EXCEPT ![u] = @ - n]
          /\ iUserStatus' = [iUserStatus EXCEPT ![u] = "RECV_OK"]
          /\ interest' = [interest EXCEPT ![u] = {EPOLLOUT}]
          /\ UNCHANGED <<conn, toServer, rounds>>
       \/ /\ conn[u] = "broken" \/ iUserStatus[u] # "SEND_OK"
          /\ CloseUser(u)
    /\ UNCHANGED <<connecting, clobbered, served>>

-----------------------------------------------------------------------------
(* epollserver.cpp *)

ListenThread(u) ==
    /\ conn[u] = "backlog"
    /\ conn' = [conn EXCEPT ![u] = "accepted"]
    /\ served' = [served EXCEPT ![u] = {EPOLLIN}]
    /\ UNCHANGED <<connecting, clobbered, iUserStatus, interest, toServer, toClient,
                   rounds>>

\* Mutant of RunRecv: the socket stays registered for input.
RunRecvStays(u) ==
    /\ EPOLLIN \in served[u]
    /\ \/ /\ \E n \in 1..toServer[u] : toServer' = [toServer EXCEPT ![u] = @ - n]
          /\ UNCHANGED served
       \/ /\ conn[u] = "broken"
          /\ served' = [served EXCEPT ![u] = {}]
          /\ UNCHANGED toServer
    /\ UNCHANGED <<connecting, clobbered, iUserStatus, interest, conn, toClient, rounds>>

\* Run, EPOLLIN: a part of what was sent is a message as good as any.  The
\* socket of a connection that failed leaves the epoll set and stays open.
RunRecv(u) ==
    /\ EPOLLIN \in served[u]
    /\ \/ /\ \E n \in 1..toServer[u] : toServer' = [toServer EXCEPT ![u] = @ - n]
          /\ served' = [served EXCEPT ![u] = {EPOLLOUT}]
       \/ /\ conn[u] = "broken"
          /\ served' = [served EXCEPT ![u] = {}]
          /\ UNCHANGED toServer
    /\ UNCHANGED <<connecting, clobbered, iUserStatus, interest, conn, toClient, rounds>>

\* Run, EPOLLOUT: the answer.
RunSend(u) ==
    /\ EPOLLOUT \in served[u]
    /\ \/ /\ conn[u] # "broken"
          /\ toClient[u] + Size <= MaxUnder
          /\ toClient' = [toClient EXCEPT ![u] = @ + Size]
          /\ served' = [served EXCEPT ![u] = {EPOLLIN}]
       \/ /\ conn[u] = "broken"
          /\ served' = [served EXCEPT ![u] = {}]
          /\ UNCHANGED toClient
    /\ UNCHANGED <<connecting, clobbered, iUserStatus, interest, conn, toServer, rounds>>

\* The network fails; what is under way may still arrive.
Break(u) ==
    /\ conn[u] = "accepted"
    /\ conn' = [conn EXCEPT ![u] = "broken"]
    /\ UNCHANGED <<connecting, clobbered, iUserStatus, interest, served, toServer,
                   toClient, rounds>>

-----------------------------------------------------------------------------
Client(u) == SendToServerData(u) \/ RecvFromServer(u)
Server(u) == ListenThread(u) \/ RunRecv(u) \/ RunSend(u)

Next ==
    \/ ConnectToServer
    \/ \E u \in Users : Client(u) \/ Server(u) \/ Break(u)

\* Both event loops go on and handle every socket that is reported.
Fairness ==
    /\ WF_vars(ConnectToServer)
    /\ \A u \in Users : WF_vars(Client(u)) /\ WF_vars(Server(u))

Spec == Init /\ [][Next]_vars /\ Fairness

-----------------------------------------------------------------------------
(* Properties *)

\* A user that has sent gets an answer, or its connection is given up: however
\* TCP divides messages, the two never both wait for input.  The exception is
\* a client whose m_iEpollFd was overwritten.
ExchangeGoesOn ==
    \A u \in Users :
        iUserStatus[u] = "SEND_OK" ~> iUserStatus[u] # "SEND_OK" \/ clobbered
=============================================================================
