-------------------------------- MODULE Mdp --------------------------------
(***************************************************************************)
(* The Majordomo system of lib/zeromq/MDP: one broker, its workers and its *)
(* synchronous and asynchronous clients, with crashes of the broker and of *)
(* the workers.                                                            *)
(***************************************************************************)
EXTENDS MdClient2

vars == <<netVars, brokerVars, workerVars, cli, acli>>

Init ==
    /\ NetInit
    /\ BrokerInit
    /\ WorkerInit
    /\ ClientInit
    /\ AsyncInit

Broker ==
    /\ \/ \E id \in Ids : BrokerRecv(id)
       \/ BrokerHeartbeat
       \/ TimePasses
       \/ BrokerRestart
    /\ UNCHANGED <<workerVars, cli, acli>>

Worker(w) ==
    /\ \/ WorkerStart(w)
       \/ WorkerRequest(w)
       \/ WorkerHeartbeat(w)
       \/ WorkerDisconnect(w)
       \/ WorkerTimeout(w)
       \/ WorkerReply(w)
       \/ WorkerCrash(w)
    /\ UNCHANGED <<cli, acli>>

Client(c) ==
    /\ ClientStart(c) \/ ClientSend(c) \/ ClientReply(c) \/ ClientTimeout(c)
    /\ UNCHANGED acli

AsyncClient(a) == AsyncStart(a) \/ AsyncSend(a) \/ AsyncReply(a) \/ AsyncStop(a)

Next ==
    \/ Broker
    \/ \E w \in Workers : Worker(w)
    \/ \E c \in Clients : Client(c)
    \/ \E a \in AsyncClients : AsyncClient(a)

Spec == Init /\ [][Next]_vars

\* The loops of broker, workers and clients go on, the clock runs, and what
\* is in a socket's queue is eventually received.  A worker that crashed is
\* started again.  Nothing forces a crash, a new request or a heartbeat of a
\* worker.
WorkerRuns(w) ==
    /\ \/ WorkerStart(w)
       \/ WorkerRequest(w)
       \/ WorkerHeartbeat(w)
       \/ WorkerDisconnect(w)
       \/ WorkerTimeout(w)
       \/ WorkerReply(w)
    /\ UNCHANGED <<cli, acli>>

Fairness ==
    /\ \A id \in Ids :
          WF_vars(BrokerRecv(id) /\ UNCHANGED <<workerVars, cli, acli>>)
    /\ WF_vars(BrokerHeartbeat /\ UNCHANGED <<workerVars, cli, acli>>)
    /\ WF_vars(TimePasses /\ UNCHANGED <<workerVars, cli, acli>>)
    /\ \A w \in Workers : WF_vars(WorkerRuns(w))
    /\ \A c \in Clients :
          WF_vars((ClientReply(c) \/ ClientTimeout(c)) /\ UNCHANGED acli)

FairSpec == Spec /\ Fairness

-----------------------------------------------------------------------------
(* Properties *)

\* What is in a request or a reply: the client's number for it, the service
\* it asks mmi.service about, or the broker's code.
Bodies == (Processes \X Nat) \cup Services \cup {"200", "404", "501"}

Names == Services \cup MmiNames
Pending == [client : ClientIds, body : Bodies]
FromClient == [kind : {"CLIENT"}, service : Names, body : Bodies]
FromWorker == [kind : {"READY"}, service : Services]
              \cup [kind : {"REPLY"}, client : ClientIds, body : Bodies]
              \cup {HeartbeatMsg}
ToClient == [kind : {"ANSWER"}, service : Names, body : Bodies]
ToWorker == [kind : {"REQUEST"}, client : ClientIds, body : Bodies]
            \cup {HeartbeatMsg, DisconnectMsg}

Brokers ==
    [service  : [Ids -> Services \cup {None}],
     waiting  : Seq(WorkerIds),
     idle     : [Services -> Seq(WorkerIds)],
     requests : [Services -> Seq(Pending)],
     workers  : [Services -> Int],
     live     : Seq(WorkerIds),
     pipe     : [Ids -> Seq(ToClient \cup ToWorker)]]

\* Messages are those of the protocol, only workers are in the broker's lists,
\* and a worker's liveness never passes zero (mdwrkapi.c tests
\* --liveness == 0).
TypeOK ==
    /\ sock \in [Processes -> 0..MaxSockets]
    /\ made \in [Processes -> 0..MaxSockets]
    /\ up \in [Ids -> Seq(FromClient \cup FromWorker)]
    /\ broker \in Brokers
    /\ restarts \in Nat /\ crashes \in Nat
    /\ wrk \in [Workers -> [pc : {"down", "recv", "busy"},
                            service : Services \cup {None},
                            reply_to : Pending \cup {NoRequest},
                            liveness : 1..HEARTBEAT_LIVENESS]]
    /\ cli \in [Clients -> [pc : {"idle", "poll", "stopped"}, n : Nat,
                            service : Names \cup {None},
                            body : Bodies \cup {None}, retries_left : Nat]]
    /\ acli \in [AsyncClients -> [pc : {"new", "send", "recv", "stopped"},
                                  n : Nat, replies : Seq(Bodies)]]

Precedes(list, v, w) ==
    \E j, k \in DOMAIN list : j < k /\ list[j] = v /\ list[k] = w

\* The broker keeps every waiting worker in two lists and a counter.  They
\* agree whatever order of registrations, replies, expiries, disconnects and
\* crashes: no worker waits twice, each service's list is its part of the
\* common one, in the same order, and service->workers counts the workers
\* registered for it (it is unsigned: one decrement too many would make it
\* huge, and mmi.service answer 200 for ever).
ListsAgree ==
    /\ IsInjective(broker.waiting)
    /\ \A s \in Services :
          /\ ToSet(broker.idle[s]) =
               {w \in ToSet(broker.waiting) : broker.service[w] = s}
          /\ \A v, w \in ToSet(broker.idle[s]) :
                Precedes(broker.idle[s], v, w) => Precedes(broker.waiting, v, w)
          /\ broker.workers[s] = Cardinality({w \in Ids : broker.service[w] = s})
    /\ \A w \in ToSet(broker.waiting) : broker.service[w] # None

\* No request is left lying while a worker of its service waits.
NoIdleBacklog ==
    \A s \in Services : broker.idle[s] = <<>> \/ broker.requests[s] = <<>>

\* The queues and hands in which a request or its reply can be.
Places == ({"up", "pipe", "busy"} \X Ids) \cup ({"queue"} \X Services)

Hands(id) ==
    IF id[1] \in Workers /\ Connected(id) /\ wrk[id[1]].pc = "busy"
    THEN <<wrk[id[1]].reply_to>> ELSE <<>>

In(p) ==
    CASE p[1] = "up" -> up[p[2]]
      [] p[1] = "pipe" -> broker.pipe[p[2]]
      [] p[1] = "busy" -> Hands(p[2])
      [] p[1] = "queue" -> broker.requests[p[2]]

\* m, at p, is what the worker at socket id has been given and the broker has
\* not got back yet.
IsJob(p, m, id) ==
    /\ p[2] = id
    /\ \/ p[1] = "up" /\ m.kind = "REPLY"
       \/ p[1] = "pipe" /\ m.kind = "REQUEST"
       \/ p[1] = "busy"

Jobs(id) ==
    UNION {{<<p, k>> : k \in {k \in DOMAIN In(p) : IsJob(p, In(p)[k], id)}} :
             p \in Places}

\* The broker gives a worker one request at a time, and does not count it as
\* waiting before the reply has come back.
OneRequestPerWorker ==
    \A w \in Workers :
        sock[w] # 0 =>
            /\ Cardinality(Jobs(Cur(w))) <= 1
            /\ Jobs(Cur(w)) # {} => ~Contains(broker.waiting, Cur(w))

\* Whatever comes to a client that waits in mdcli_send answers the request
\* of this call, not one of an earlier call or a try that timed out: the two
\* assert()s on header and service hold, and an echo is the request's own.
RepliesMatch ==
    \A c \in Clients :
        cli[c].pc = "poll" =>
            \A m \in ToSet(broker.pipe[Cur(c)]) :
                /\ m.kind = "ANSWER"
                /\ m.service = cli[c].service
                /\ cli[c].service \notin MmiNames => m.body = cli[c].body

\* m, at p, is a request that the socket id has sent, or the reply to it.
IsCopy(p, m, id) ==
    CASE p[1] = "up" -> \/ m.kind = "CLIENT" /\ p[2] = id
                        \/ m.kind = "REPLY" /\ m.client = id
      [] p[1] = "pipe" -> \/ m.kind = "ANSWER" /\ p[2] = id
                          \/ m.kind = "REQUEST" /\ m.client = id
      [] OTHER -> m.client = id

Copies(id) ==
    UNION {{<<p, k>> : k \in {k \in DOMAIN In(p) : IsCopy(p, In(p)[k], id)}} :
             p \in Places}

\* A client waiting for a reply never has more than one copy of its current
\* try under way, and exactly one as long as nothing crashed and no worker
\* gave up its connection: the broker drops and duplicates nothing itself,
\* neither when it purges nor when it queues.
RequestConserved ==
    \A c \in Clients :
        cli[c].pc = "poll" =>
            /\ Cardinality(Copies(Cur(c))) <= 1
            /\ crashes = 0 /\ restarts = 0 /\ (\A w \in Workers : made[w] <= 1)
                 => Copies(Cur(c)) # {}

\* An asynchronous client gets each reply once, and only for what it sent,
\* in whatever order its workers finish.
AsyncRepliesDistinct ==
    \A a \in AsyncClients :
        /\ IsInjective(acli[a].replies)
        /\ ToSet(acli[a].replies) \subseteq {<<a, i>> : i \in 1..acli[a].n}

\* A broker that restarts has forgotten its workers, and a worker that
\* crashed is forgotten or taken for alive; yet every running worker is
\* registered again and again, by way of DISCONNECT or of its own liveness.
WorkerComesBack ==
    \A w \in Workers :
        []<>(wrk[w].pc = "down" \/ broker.service[Cur(w)] # None)

\* Requests do not stay queued for ever: a worker that comes back, or comes
\* new, is given them.
BacklogDrains == \A s \in Services : []<>(broker.requests[s] = <<>>)

\* Every call of mdcli_send returns, with a reply or with NULL.
ClientReturns == \A c \in Clients : cli[c].pc = "poll" ~> cli[c].pc # "poll"
=============================================================================
