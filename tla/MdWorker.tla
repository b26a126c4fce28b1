------------------------------ MODULE MdWorker ------------------------------
(***************************************************************************)
(* lib/zeromq/MDP/mdwrkapi.c and mdworker.c: a worker that registers with  *)
(* the broker and echoes requests.  Per worker process: pc ("down" before  *)
(* it starts or after a crash, "recv" in the loop of mdwrk_recv, "busy"    *)
(* between the return of mdwrk_recv and the next call), the service it     *)
(* offers, reply_to with the request it is working on, and liveness.       *)
(***************************************************************************)
EXTENDS MdBroker

CONSTANTS
    HEARTBEAT_LIVENESS,
    MaxCrashes          \* bound: crashes and departures of workers

ASSUME WorkerAssumption == HEARTBEAT_LIVENESS \in Nat \ {0}

VARIABLES wrk, crashes

workerVars == <<wrk, crashes>>

NoRequest == [client |-> None, body |-> None]

WorkerInit ==
    /\ wrk = [w \in Workers |-> [pc |-> "down", service |-> None,
                                 reply_to |-> NoRequest,
                                 liveness |-> HEARTBEAT_LIVENESS]]
    /\ crashes = 0

\* The pipe of a socket disappears with it.
DropPipe(id) == broker' = [broker EXCEPT !.pipe[id] = <<>>]

ReadPipe(id) == broker' = [broker EXCEPT !.pipe[id] = Tail(@)]

\* A round of mdwrk_recv ends with a HEARTBEAT if heartbeat_at has passed.
MaybeHeartbeat(w) ==
    \/ BeatRoom(up[Cur(w)]) /\ SendUp(w, <<HeartbeatMsg>>)
    \/ UNCHANGED netVars

\* The network's part of s_mdwrk_connect_to_broker.
ConnectToBroker(w, service) == Reconnect(w, <<ReadyMsg(service)>>)

-----------------------------------------------------------------------------
\* mdwrk_new.
WorkerStart(w) ==
    /\ wrk[w].pc = "down"
    /\ \E s \in Services :
          /\ ConnectToBroker(w, s)
          /\ wrk' = [wrk EXCEPT ![w].pc = "recv", ![w].service = s,
                                ![w].liveness = HEARTBEAT_LIVENESS]
    /\ UNCHANGED <<brokerVars, crashes>>

\* mdwrk_recv gets a REQUEST and returns it.
WorkerRequest(w) ==
    /\ wrk[w].pc = "recv"
    /\ broker.pipe[Cur(w)] # <<>>
    /\ LET m == Head(broker.pipe[Cur(w)])
       IN  /\ m.kind = "REQUEST"
           /\ wrk' = [wrk EXCEPT
                        ![w].pc = "busy",
                        ![w].liveness = HEARTBEAT_LIVENESS,
                        ![w].reply_to = [client |-> m.client, body |-> m.body]]
    /\ ReadPipe(Cur(w))
    /\ UNCHANGED <<netVars, restarts, crashes>>

\* mdwrk_recv gets a HEARTBEAT.
WorkerHeartbeat(w) ==
    /\ wrk[w].pc = "recv"
    /\ broker.pipe[Cur(w)] # <<>>
    /\ Head(broker.pipe[Cur(w)]).kind = "HEARTBEAT"
    /\ wrk' = [wrk EXCEPT ![w].liveness = HEARTBEAT_LIVENESS]
    /\ ReadPipe(Cur(w))
    /\ MaybeHeartbeat(w)
    /\ UNCHANGED <<restarts, crashes>>

\* mdwrk_recv gets a DISCONNECT: a new socket, and READY on it.
WorkerDisconnect(w) ==
    /\ wrk[w].pc = "recv"
    /\ broker.pipe[Cur(w)] # <<>>
    /\ Head(broker.pipe[Cur(w)]).kind = "DISCONNECT"
    /\ ConnectToBroker(w, wrk[w].service)
    /\ wrk' = [wrk EXCEPT ![w].liveness = HEARTBEAT_LIVENESS]
    /\ DropPipe(Cur(w))
    /\ UNCHANGED <<restarts, crashes>>

\* When the system is Timely, a poll times out only if nothing is under way
\* on the connection, and the last one before giving up only if the broker
\* does not know the worker: to one it knows it sends heartbeats in time.
InTime(w) ==
    Timely => /\ up[Cur(w)] = <<>>
              /\ wrk[w].liveness = 1 => broker.service[Cur(w)] = None

\* Mutant of WorkerTimeout: liveness runs out and nothing is done about it.
TimeoutForEver(w) ==
    /\ wrk[w].pc = "recv"
    /\ broker.pipe[Cur(w)] = <<>>
    /\ InTime(w)
    /\ wrk[w].liveness > 1
    /\ wrk' = [wrk EXCEPT ![w].liveness = @ - 1]
    /\ MaybeHeartbeat(w)
    /\ UNCHANGED <<brokerVars, crashes>>

\* zmq_poll comes back empty-handed: the broker is given up for dead after
\* HEARTBEAT_LIVENESS rounds.
WorkerTimeout(w) ==
    /\ wrk[w].pc = "recv"
    /\ broker.pipe[Cur(w)] = <<>>
    /\ InTime(w)
    /\ IF wrk[w].liveness > 1
       THEN /\ wrk' = [wrk EXCEPT ![w].liveness = @ - 1]
            /\ MaybeHeartbeat(w)
       ELSE /\ wrk' = [wrk EXCEPT ![w].liveness = HEARTBEAT_LIVENESS]
            /\ ConnectToBroker(w, wrk[w].service)
    /\ UNCHANGED <<brokerVars, crashes>>

\* mdworker.c calls mdwrk_recv again, with the request as the reply.
WorkerReply(w) ==
    /\ wrk[w].pc = "busy"
    /\ SendUp(w, <<ReplyMsg(wrk[w].reply_to.client, wrk[w].reply_to.body)>>)
    /\ wrk' = [wrk EXCEPT ![w].pc = "recv", ![w].reply_to = NoRequest]
    /\ UNCHANGED <<brokerVars, crashes>>

WorkerCrash(w) ==
    /\ wrk[w].pc # "down"
    /\ crashes < MaxCrashes
    /\ crashes' = crashes + 1
    /\ Close(w)
    /\ DropPipe(Cur(w))
    /\ wrk' = [wrk EXCEPT ![w].pc = "down", ![w].reply_to = NoRequest]
    /\ UNCHANGED restarts
=============================================================================
