------------------------------ MODULE MdBroker ------------------------------
(***************************************************************************)
(* lib/zeromq/MDP/mdbroker.c: the Majordomo broker.  Its state is the      *)
(* record broker:                                                          *)
(*   service   which service each registered worker offers (self->workers; *)
(*             None for an identity that is not in the hash)               *)
(*   waiting   self->waiting, all waiting workers                          *)
(*   idle      service->waiting of each service                            *)
(*   requests  service->requests of each service                           *)
(*   workers   service->workers of each service                            *)
(*   live      waiting workers whose expiry lies in the future, in the     *)
(*             order of their expiry; the clock is only ever compared with *)
(*             it, and all expiries are set HEARTBEAT_EXPIRY ahead         *)
(*   pipe      the ROUTER's queue of messages to each connected peer       *)
(* A service that does not exist and one that is empty and has no workers  *)
(* answer alike, so s_service_require is implicit.                         *)
(***************************************************************************)
EXTENDS MdNet

CONSTANTS
    MaxRestarts,    \* bound: crashes of the broker
    Timely          \* TRUE: messages take less time than the heartbeat
                    \* interval and processes are never delayed longer;
                    \* FALSE: any delay, so that any timeout may be early

VARIABLES broker, restarts

brokerVars == <<broker, restarts>>

s_broker_new ==
    [service  |-> [id \in Ids |-> None],
     waiting  |-> <<>>,
     idle     |-> [s \in Services |-> <<>>],
     requests |-> [s \in Services |-> <<>>],
     workers  |-> [s \in Services |-> 0],
     live     |-> <<>>,
     pipe     |-> [id \in Ids |-> <<>>]]

BrokerInit == broker = s_broker_new /\ restarts = 0

-----------------------------------------------------------------------------
(* The functions of mdbroker.c, from a broker record to the next one *)

\* zmsg_send on the ROUTER socket.
Route(b, id, msg) ==
    IF Connected(id) THEN [b EXCEPT !.pipe[id] = Append(@, msg)] ELSE b

\* Mutant of s_worker_delete: the worker stays in its service's list.
DeleteKeepsIdle(b, w, disconnect) ==
    LET b1 == IF disconnect THEN Route(b, w, DisconnectMsg) ELSE b
        s  == b.service[w]
        b2 == IF s = None THEN b1
              ELSE [b1 EXCEPT !.workers[s] = @ - 1]
    IN  [b2 EXCEPT !.waiting = RemoveFirst(@, w),
                   !.live = RemoveFirst(@, w),
                   !.service[w] = None]

s_worker_delete(b, w, disconnect) ==
    LET b1 == IF disconnect THEN Route(b, w, DisconnectMsg) ELSE b
        s  == b.service[w]
        b2 == IF s = None THEN b1
              ELSE [b1 EXCEPT !.idle[s] = RemoveFirst(@, w),
                              !.workers[s] = @ - 1]
    IN  [b2 EXCEPT !.waiting = RemoveFirst(@, w),
                   !.live = RemoveFirst(@, w),
                   !.service[w] = None]

\* Workers are deleted from the head of waiting up to the first one that
\* has not expired.
s_broker_purge(b) ==
    LET alive == {i \in DOMAIN b.waiting : Contains(b.live, b.waiting[i])}
        n     == IF alive = {} THEN Len(b.waiting) ELSE Min(alive) - 1
        after[k \in 0..n] ==
            IF k = 0 THEN b ELSE s_worker_delete(after[k - 1], b.waiting[k], FALSE)
    IN  after[n]

\* Mutant of DispatchOne: the request is read but not popped.
DispatchKeepsRequest(b, s) ==
    LET w == Head(b.idle[s])
        r == Head(b.requests[s])
        c == [b EXCEPT !.idle[s] = Tail(@),
                       !.waiting = RemoveFirst(@, w),
                       !.live = RemoveFirst(@, w)]
    IN  Route(c, w, RequestMsg(r.client, r.body))

\* One round of the while loop of s_service_dispatch.
DispatchOne(b, s) ==
    LET w == Head(b.idle[s])
        r == Head(b.requests[s])
        c == [b EXCEPT !.idle[s] = Tail(@),
                       !.waiting = RemoveFirst(@, w),
                       !.live = RemoveFirst(@, w),
                       !.requests[s] = Tail(@)]
    IN  Route(c, w, RequestMsg(r.client, r.body))

\* msgs is empty (NULL) or holds the one new request.
s_service_dispatch(b, s, msgs) ==
    LET b1 == s_broker_purge([b EXCEPT !.requests[s] = @ \o msgs])
        n  == Min({Len(b1.idle[s]), Len(b1.requests[s])})
        after[k \in 0..n] ==
            IF k = 0 THEN b1 ELSE DispatchOne(after[k - 1], s)
    IN  after[n]

\* Mutant of s_worker_waiting: the new waiting worker is not given what is
\* already queued.
WaitingWithoutDispatch(b, w) ==
    LET s == b.service[w]
    IN  [b EXCEPT !.waiting = Append(@, w),
                  !.idle[s] = Append(@, w),
                  !.live = Append(@, w)]

s_worker_waiting(b, w) ==
    LET s == b.service[w]
    IN  s_service_dispatch([b EXCEPT !.waiting = Append(@, w),
                                     !.idle[s] = Append(@, w),
                                     !.live = Append(@, w)], s, <<>>)

\* Mutant of s_broker_worker_msg: a heartbeat makes its sender available.
HeartbeatMakesWaiting(b, w, msg) ==
    LET ready == b.service[w] # None
    IN  CASE msg.kind = "READY" /\ ~ready ->
               s_worker_waiting([b EXCEPT !.service[w] = msg.service,
                                          !.workers[msg.service] = @ + 1], w)
          [] msg.kind = "REPLY" /\ ready ->
               s_worker_waiting(
                 Route(b, msg.client, AnswerMsg(b.service[w], msg.body)), w)
          [] msg.kind = "HEARTBEAT" /\ ready -> s_worker_waiting(b, w)
          [] msg.kind = "DISCONNECT" -> s_worker_delete(b, w, FALSE)
          [] OTHER -> s_worker_delete(b, w, TRUE)

\* s_worker_require registers an unknown sender first; every such sender
\* that does not say READY is deleted again at once.  Identities made by
\* ZeroMQ never begin with "mmi.".  The expiry of a worker that is not
\* waiting is never read before s_worker_waiting sets it.
s_broker_worker_msg(b, w, msg) ==
    LET ready == b.service[w] # None
    IN  CASE msg.kind = "READY" /\ ~ready ->
               s_worker_waiting([b EXCEPT !.service[w] = msg.service,
                                          !.workers[msg.service] = @ + 1], w)
          [] msg.kind = "REPLY" /\ ready ->
               s_worker_waiting(
                 Route(b, msg.client, AnswerMsg(b.service[w], msg.body)), w)
          [] msg.kind = "HEARTBEAT" /\ ready ->
               IF Contains(b.waiting, w)
               THEN [b EXCEPT !.live = Append(RemoveFirst(@, w), w)] ELSE b
          [] msg.kind = "DISCONNECT" -> s_worker_delete(b, w, FALSE)
          [] OTHER -> s_worker_delete(b, w, TRUE)

\* Requests for "mmi." services are answered by the broker itself: for
\* mmi.service, whose body names a service, whether it has workers.
s_broker_client_msg(b, c, msg) ==
    IF msg.service \in MmiNames
    THEN LET code == IF msg.service # "mmi.service" THEN "501"
                     ELSE IF b.workers[msg.body] > 0 THEN "200" ELSE "404"
         IN  Route(b, c, AnswerMsg(msg.service, code))
    ELSE s_service_dispatch(b, msg.service,
                            <<[client |-> c, body |-> msg.body]>>)

-----------------------------------------------------------------------------
(* The main loop *)

\* zmsg_recv and the handler of the message's header.
BrokerRecv(id) ==
    /\ up[id] # <<>>
    /\ up' = [up EXCEPT ![id] = Tail(@)]
    /\ broker' = IF Head(up[id]).kind = "CLIENT"
                 THEN s_broker_client_msg(broker, id, Head(up[id]))
                 ELSE s_broker_worker_msg(broker, id, Head(up[id]))
    /\ UNCHANGED <<sock, made, restarts>>

\* heartbeat_at has passed: purge, then one HEARTBEAT to each waiting worker
\* (none is in the list twice, see ListsAgree).
BrokerHeartbeat ==
    /\ broker.waiting # <<>>
    /\ \A id \in ToSet(broker.waiting) : BeatRoom(broker.pipe[id])
    /\ LET b == s_broker_purge(broker)
       IN  broker' = [b EXCEPT !.pipe = [id \in Ids |->
                         IF Contains(b.waiting, id) /\ Connected(id)
                         THEN Append(b.pipe[id], HeartbeatMsg) ELSE b.pipe[id]]]
    /\ UNCHANGED <<netVars, restarts>>

\* The clock passes the oldest expiry.  When the system is Timely, that
\* happens only to an identity whose socket is gone: a connected worker's
\* heartbeats, sent every interval, arrive within HEARTBEAT_LIVENESS of them.
TimePasses ==
    /\ broker.live # <<>>
    /\ Timely => ~Connected(Head(broker.live))
    /\ broker' = [broker EXCEPT !.live = Tail(@)]
    /\ UNCHANGED <<netVars, restarts>>

\* The broker is killed and started again: its tables and pipes are gone, and
\* so are the messages of some of the connections.
BrokerRestart ==
    /\ restarts < MaxRestarts
    /\ restarts' = restarts + 1
    /\ broker' = s_broker_new
    /\ \E lost \in SUBSET {id \in Ids : up[id] # <<>>} :
          up' = [id \in Ids |-> IF id \in lost THEN <<>> ELSE up[id]]
    /\ UNCHANGED <<sock, made>>
=============================================================================
