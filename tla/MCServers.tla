----------------------------- MODULE MCServers ------------------------------
(***************************************************************************)
(* Servers that share no process, one in each behaviour: the EPOLLONESHOT  *)
(* server, the level- and edge-triggered readers, the epoll client and     *)
(* server that take turns, and the Paranoid Pirate, which is also in       *)
(* MCPatterns.  The fairness of a component is asked for where it runs.    *)
(***************************************************************************)
EXTENDS EpollOneshot

CONSTANTS PirateClient, W, READY, HEARTBEAT

VARIABLES
    server,      \* the one that runs
    \* LtEt
    mode, ltState, ltSent, ltUnread, ltEof, ltEdge, ltEvents,
    \* EpollPair
    connecting, clobbered, iUserStatus, interest, userConn, served, toServer,
    toClient, rounds,
    \* Pirate
    topology, clientPc, sequence, retries_left, socket, requests, replies, workers,
    inbox, outbox, alive, work, wsocket, liveness

ltVars == <<mode, ltState, ltSent, ltUnread, ltEof, ltEdge, ltEvents>>
pairVars == <<connecting, clobbered, iUserStatus, interest, userConn, served, toServer,
              toClient, rounds>>
pirateVars == <<topology, clientPc, sequence, retries_left, socket, requests, replies,
                workers, inbox, outbox, alive, work, wsocket, liveness>>

\* A client sends more than one recv takes.
Lt == INSTANCE LtEt WITH
        BUFFER_SIZE <- 2, state <- ltState, sent <- ltSent, unread <- ltUnread,
        eof <- ltEof, edge <- ltEdge, events <- ltEvents

\* A message may arrive in two parts.
Pair == INSTANCE EpollPair WITH
        m_iUserCount <- 1, Size <- 2, MaxUnder <- 6, MaxRounds <- 4, conn <- userConn

\* One worker, which may reconnect once, and a client that makes one request
\* with two tries.
Pirate == INSTANCE Pirate WITH
        Clients <- {PirateClient}, Workers <- {W}, Server <- W,
        REQUEST_RETRIES <- [lazy |-> 2, simple |-> 2, paranoid |-> 2],
        MaxSequence <- [lazy |-> 1, simple |-> 1, paranoid |-> 1],
        HEARTBEAT_LIVENESS <- 2, Expiry <- 2, MaxSocket <- 1, MaxInbox <- 1,
        pc <- clientPc

ServersInit ==
    /\ server \in {"oneshot", "ltet", "pair", "pirate"}
    /\ Init /\ Lt!Init /\ Pair!Init /\ Pirate!Init
    /\ server # "ltet" => mode = "lt"
    /\ topology = IF server = "pirate" THEN "paranoid" ELSE "lazy"

ServersNext ==
    /\ UNCHANGED server
    /\ \/ server = "oneshot" /\ Next /\ UNCHANGED <<ltVars, pairVars, pirateVars>>
       \/ server = "ltet" /\ Lt!Next /\ UNCHANGED <<vars, pairVars, pirateVars>>
       \/ server = "pair" /\ Pair!Next /\ UNCHANGED <<vars, ltVars, pirateVars>>
       \/ server = "pirate" /\ Pirate!Next /\ UNCHANGED <<vars, ltVars, pairVars>>

ServersFairness ==
    /\ WF_vars(server = "oneshot" /\ Main)
    /\ \A t \in Threads : WF_vars(server = "oneshot" /\ Worker(t))
    /\ WF_ltVars(server = "ltet" /\ Lt!Server)
    /\ WF_pairVars(server = "pair" /\ Pair!ConnectToServer)
    /\ \A u \in Pair!Users : /\ WF_pairVars(server = "pair" /\ Pair!Client(u))
                             /\ WF_pairVars(server = "pair" /\ Pair!Server(u))
    /\ WF_pirateVars(server = "pirate" /\ Pirate!Queue(Pirate!Identity(W), None))
    /\ WF_pirateVars(server = "pirate" /\ Pirate!Worker(W))
    /\ WF_pirateVars(server = "pirate" /\ Pirate!WorkerHeartbeat(W))

ServersSpec ==
    /\ ServersInit
    /\ [][ServersNext]_<<server, vars, ltVars, pairVars, pirateVars>>
    /\ ServersFairness

\* Both modes of diff_LT_ET.c read what arrives on an accepted connection.
ArrivalsRead == Lt!ArrivalsRead

\* The client and the server of epollclient.cpp and epollserver.cpp never both
\* wait for the other.
ExchangeGoesOn == Pair!ExchangeGoesOn

\* A live ppworker is never forgotten for good by ppqueue.
WorkerReturns == Pirate!WorkerReturns
=============================================================================
