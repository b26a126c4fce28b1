------------------------------- MODULE MdNet -------------------------------
(***************************************************************************)
(* What the parts of lib/zeromq/MDP (Majordomo protocol, mdp.h) share: the *)
(* processes, their sockets and the messages between them and the broker.  *)
(*                                                                         *)
(* ZeroMQ is external.  The broker owns one ROUTER socket, every worker    *)
(* and client one socket connected to it.  A connection is FIFO in both    *)
(* directions; the ROUTER knows a peer by an identity that is new for each *)
(* socket, here <<process, number>>, and silently drops what is sent to an *)
(* identity that is gone.                                                  *)
(***************************************************************************)
EXTENDS Integers, Sequences, SequencesExt, FiniteSets, FiniteSetsExt

CONSTANTS
    Workers,        \* processes that run mdworker.c
    Clients,        \* processes that run mdclient.c (mdcliapi.c)
    AsyncClients,   \* processes that run mdclient2.c (mdcliapi2.c)
    Services,       \* service names that workers offer
    MmiNames,       \* service names beginning with "mmi."
    None,           \* no service, no peer
    MaxSockets,     \* bound: sockets a process opens one after the other
    MaxQueue,       \* bound: messages unread in one direction of a connection
    MaxBeats        \* bound: heartbeats among them

Processes == Workers \cup Clients \cup AsyncClients

WorkerIds == Workers \X (1..MaxSockets)
ClientIds == (Clients \cup AsyncClients) \X (1..MaxSockets)
Ids == Processes \X (1..MaxSockets)

\* There are finitely many processes, each runs one program, "mmi." names are
\* the broker's own, and None is neither a service nor a socket.
ASSUME NetAssumption ==
    /\ IsFiniteSet(Processes)
    /\ Workers \cap (Clients \cup AsyncClients) = {}
    /\ Clients \cap AsyncClients = {}
    /\ Services \cap MmiNames = {}
    /\ None \notin Services
    /\ None \notin Ids
    /\ MaxSockets \in Nat

VARIABLES
    sock,    \* number of each process's open socket, 0 when it has none
    made,    \* number of sockets each process has made so far
    up       \* messages from each socket that the broker has not received

netVars == <<sock, made, up>>

Cur(p) == <<p, sock[p]>>

Connected(id) == sock[id[1]] = id[2]

\* Messages are records; the protocol frames (empty delimiter, MDPC01 or
\* MDPW01 header) are implied by the kind.
ClientMsg(service, body) == [kind |-> "CLIENT", service |-> service, body |-> body]
ReadyMsg(service)        == [kind |-> "READY", service |-> service]
ReplyMsg(client, body)   == [kind |-> "REPLY", client |-> client, body |-> body]
RequestMsg(client, body) == [kind |-> "REQUEST", client |-> client, body |-> body]
AnswerMsg(service, body) == [kind |-> "ANSWER", service |-> service, body |-> body]
HeartbeatMsg             == [kind |-> "HEARTBEAT"]
DisconnectMsg            == [kind |-> "DISCONNECT"]

BeatRoom(queue) ==
    /\ Len(queue) < MaxQueue
    /\ Cardinality({k \in DOMAIN queue : queue[k] = HeartbeatMsg}) < MaxBeats

NetInit ==
    /\ sock = [p \in Processes |-> 0]
    /\ made = [p \in Processes |-> 0]
    /\ up = [id \in Ids |-> <<>>]

\* The open socket of p sends messages to the broker.
SendUp(p, msgs) ==
    /\ Len(up[Cur(p)]) + Len(msgs) <= MaxQueue
    /\ up' = [up EXCEPT ![Cur(p)] = @ \o msgs]
    /\ UNCHANGED <<sock, made>>

\* p closes its socket, if it has one, opens the next and sends messages on
\* it.  What the old socket had not yet got through is lost (linger 0) or
\* still reaches the broker.
Reconnect(p, msgs) ==
    /\ made[p] < MaxSockets
    /\ made' = [made EXCEPT ![p] = @ + 1]
    /\ sock' = [sock EXCEPT ![p] = made[p] + 1]
    /\ \E rest \in {<<>>, IF sock[p] = 0 THEN <<>> ELSE up[Cur(p)]} :
          up' = [id \in Ids |-> IF id = <<p, made[p] + 1>> THEN msgs
                                ELSE IF id = Cur(p) THEN rest ELSE up[id]]

\* p closes its socket for good, or dies.
Close(p) ==
    /\ sock' = [sock EXCEPT ![p] = 0]
    /\ \E rest \in {<<>>, up[Cur(p)]} : up' = [up EXCEPT ![Cur(p)] = rest]
    /\ UNCHANGED made
=============================================================================
