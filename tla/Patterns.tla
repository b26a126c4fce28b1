------------------------------ MODULE Patterns ------------------------------
(***************************************************************************)
(* Three systems in which several participants exchange messages, one in   *)
(* each behaviour: the clone pattern of lib/zeromq/clone, the pirates of   *)
(* lib/zeromq/reliable, and the chat server of lib/pthread.  They share    *)
(* no state.                                                               *)
(***************************************************************************)
EXTENDS Clone

CONSTANTS
    \* Pirate
    PirateClients, Workers, PirateServer, None, READY, HEARTBEAT,
    REQUEST_RETRIES, HEARTBEAT_LIVENESS, Expiry, MaxSequence, MaxSocket, MaxInbox,
    \* ChatServer
    ChatClients, Fds, MAX_CLNT, MaxMessages

VARIABLES
    pattern,      \* the one that runs
    \* Pirate
    topology, pc, requestNo, retries_left, socket, requests, replies, workers,
    inbox, outbox, alive, work, wsocket, liveness,
    \* ChatServer
    mainAt, accepted, clnt_sock, clnt_socks, clnt_cnt, mutx, thread, sock, msg,
    writing, owner, gone, said, unread, printed, order, down

pirateVars == <<topology, pc, requestNo, retries_left, socket, requests, replies,
                workers, inbox, outbox, alive, work, wsocket, liveness>>
chatVars == <<mainAt, accepted, clnt_sock, clnt_socks, clnt_cnt, mutx, thread, sock,
              msg, writing, owner, gone, said, unread, printed, order, down>>

Pirate == INSTANCE Pirate WITH
    Clients <- PirateClients, Server <- PirateServer, sequence <- requestNo

Chat == INSTANCE ChatServer WITH Clients <- ChatClients, i <- writing

\* What the programs take for granted: bounds are numbers, the special values
\* of Pirate are not requests, 0, no thread, is not a client's number, and
\* chat_server.c's table, which it fills without looking, has room for all.
ASSUME PatternsAssumption ==
    /\ Pirate!PirateConstants
    /\ 0 \notin ChatClients
    /\ \A c \in ChatClients : c < MAX_CLNT

PatternsInit ==
    /\ pattern \in {"clone", "pirate", "chat"}
    /\ Init /\ Pirate!Init /\ Chat!Init
    /\ pattern # "clone" => model = 2
    /\ pattern # "pirate" => topology = "lazy"

PatternsNext ==
    /\ UNCHANGED pattern
    /\ \/ pattern = "clone" /\ Next /\ UNCHANGED <<pirateVars, chatVars>>
       \/ pattern = "pirate" /\ Pirate!Next /\ UNCHANGED <<vars, chatVars>>
       \/ pattern = "chat" /\ Chat!Next /\ UNCHANGED <<vars, pirateVars>>

PatternsSpec ==
    PatternsInit /\ [][PatternsNext]_<<pattern, vars, pirateVars, chatVars>>

\* The client of lpclient.c never gets a reply to another request than the
\* one it waits for, although it repeats requests.
NoStaleReply == Pirate!NoStaleReply

\* spqueue.c never sends a worker a request before its last one is answered.
OneAtATime == Pirate!OneAtATime

\* ppqueue.c's list of workers is in the order that its purge relies on.
ListInOrder == Pirate!ListInOrder

\* The clients of chat_server.c print the messages they get in one order.
SameOrder == Chat!SameOrder
=============================================================================
