------------------------------- MODULE Pirate -------------------------------
(***************************************************************************)
(* lib/zeromq/reliable: the Lazy Pirate client (lpclient.c), alone with a  *)
(* server (lpserver.c), or with one of the two queues that stand between   *)
(* it and workers: the Simple Pirate (spqueue.c, spworker.c) and the       *)
(* Paranoid Pirate (ppqueue.c, ppworker.c), which exchange heartbeats.     *)
(* The topology is chosen at the start.                                    *)
(*                                                                         *)
(* A socket is numbered per process; a client or a paranoid worker that    *)
(* reconnects gets the next number, and what is sent to an old socket is   *)
(* lost, as a ROUTER or a REP drops what it cannot route.  Time is not     *)
(* measured: a timeout, a timer or a sleep ends at any moment, so that     *)
(* cycles, interval and heartbeat_at are left out, and the first requests, *)
(* which the programs let pass, may end a server as the later ones may.    *)
(* The expiry of a queued worker is the number of ticks left.              *)
(*                                                                         *)
(* ppqueue.c and ppworker.c do not compile as they stand: zmq_poll gets    *)
(* HEARTBEAT_INTERVAL as its timeout, as its own loop needs, ZMQ_POLL is   *)
(* ZMQ_POLLIN, and worker in zlist_size is workers.  In s_worker_destroy,  *)
(* self is *self_p; with self_p, as it is written, the queue would free    *)
(* its own stack.                                                          *)
(***************************************************************************)
EXTENDS Integers, Sequences, SequencesExt

CONSTANTS
    Clients, Workers,
    Server,                \* the one of Workers that plays lpserver
    None,                  \* no request, no message
    READY, HEARTBEAT,      \* the messages of one frame
    REQUEST_RETRIES,       \* of the client, for each topology
    HEARTBEAT_LIVENESS,    \* of a paranoid worker,
    Expiry,                \* and of the queue: ticks that a worker may be silent
    MaxSequence,           \* bound: requests of a client, for each topology
    MaxSocket,             \* bound: sockets that paranoid workers give up
    MaxInbox               \* bound: messages of a worker on their way

VARIABLES
    topology,
    pc, sequence, retries_left, socket,   \* of each client
    requests,      \* sent by clients: client, socket, sequence
    replies,       \* on their way to the sockets that clients have open
    workers,       \* the queue's list, of identities with ticks to expiry
    inbox,         \* what the queue has not read yet, by identity
    outbox,        \* what it has sent and the worker not read, by identity
    alive, work,   \* of each worker: it runs, the request in its hands
    wsocket, liveness     \* its socket and, if paranoid, its liveness

clientVars == <<pc, sequence, retries_left, socket>>
queueVars == <<workers, inbox, outbox>>
workerVars == <<alive, work, wsocket, liveness>>
vars == <<topology, clientVars, requests, replies, queueVars, workerVars>>

\* A request as it travels: client, socket and sequence number.
Requests == Clients \X Nat \X Nat

Signs == {READY, HEARTBEAT}

Identities == Workers \X (0..MaxSocket)

\* Requests are told apart from everything else that travels.
PirateConstants ==
    /\ (Signs \cup {None}) \cap Requests = {}
    /\ None \notin Identities
    /\ Server \in Workers
    /\ MaxSocket \in Nat /\ Expiry \in Nat

Identity(w) == <<w, wsocket[w]>>

\* The reply to request r; a socket that is gone has it dropped.
Deliver(r) == IF r[2] = socket[r[1]] THEN replies \cup {r} ELSE replies

Init ==
    /\ topology \in {"lazy", "simple", "paranoid"}
    /\ pc = [c \in Clients |-> "send"]
    /\ sequence = [c \in Clients |-> 0]
    /\ retries_left = [c \in Clients |-> REQUEST_RETRIES[topology]]
    /\ socket = [c \in Clients |-> 0]
    /\ requests = {}
    /\ replies = {}
    /\ workers = <<>>
    /\ inbox = [id \in Identities |->
                  IF topology # "lazy" /\ id[2] = 0 THEN <<READY>> ELSE <<>>]
    /\ outbox = [id \in Identities |-> <<>>]
    /\ alive = [w \in Workers |-> topology = "lazy" => w = Server]
    /\ work = [w \in Workers |-> None]
    /\ wsocket = [w \in Workers |-> 0]
    /\ liveness = [w \in Workers |-> HEARTBEAT_LIVENESS]

-----------------------------------------------------------------------------
(* lpclient.c *)

ClientSend(c) ==
    /\ pc[c] = "send"
    /\ sequence[c] < MaxSequence[topology]
    /\ sequence' = [sequence EXCEPT ![c] = @ + 1]
    /\ requests' = requests \cup {<<c, socket[c], sequence'[c]>>}
    /\ pc' = [pc EXCEPT ![c] = "poll"]
    /\ UNCHANGED <<topology, retries_left, socket, replies, queueVars, workerVars>>

\* A reply that is not to the current request leaves the client waiting.
ClientRecv(c) ==
    /\ pc[c] = "poll"
    /\ \E r \in replies :
          /\ r[1] = c
          /\ replies' = replies \ {r}
          /\ IF r[3] = sequence[c]
             THEN /\ pc' = [pc EXCEPT ![c] = "send"]
                  /\ retries_left' = [retries_left EXCEPT ![c] = REQUEST_RETRIES[topology]]
             ELSE UNCHANGED <<pc, retries_left>>
    /\ UNCHANGED <<topology, sequence, socket, requests, queueVars, workerVars>>

\* Mutant of ClientTimeout: the request is sent again on the old socket.
TimeoutKeepsSocket(c) ==
    /\ pc[c] = "poll"
    /\ retries_left' = [retries_left EXCEPT ![c] = @ - 1]
    /\ IF retries_left'[c] = 0
       THEN /\ pc' = [pc EXCEPT ![c] = "abandoned"]
            /\ UNCHANGED requests
       ELSE /\ requests' = requests \cup {<<c, socket[c], sequence[c]>>}
            /\ UNCHANGED pc
    /\ UNCHANGED <<topology, sequence, socket, replies, queueVars, workerVars>>

\* The old socket is destroyed with what was sent to it, and perhaps before
\* its request has left.
ClientTimeout(c) ==
    /\ pc[c] = "poll"
    /\ retries_left' = [retries_left EXCEPT ![c] = @ - 1]
    /\ IF retries_left'[c] = 0
       THEN /\ pc' = [pc EXCEPT ![c] = "abandoned"]
            /\ UNCHANGED <<socket, requests, replies>>
       ELSE /\ socket' = [socket EXCEPT ![c] = @ + 1]
            /\ \E unsent \in SUBSET {<<c, socket[c], sequence[c]>>} :
                  requests' = (requests \ unsent)
                                 \cup {<<c, socket'[c], sequence[c]>>}
            /\ replies' = {r \in replies : r[1] # c}
            /\ UNCHANGED pc
    /\ UNCHANGED <<topology, sequence, queueVars, workerVars>>

-----------------------------------------------------------------------------
(* lpserver.c *)

ServerRecv ==
    /\ topology = "lazy"
    /\ alive[Server]
    /\ work[Server] = None
    /\ \E r \in requests :
          /\ requests' = requests \ {r}
          /\ \/ work' = [work EXCEPT ![Server] = r] /\ alive' = alive
             \/ alive' = [alive EXCEPT ![Server] = FALSE] /\ work' = work   \* crash
    /\ UNCHANGED <<topology, clientVars, replies, queueVars, wsocket, liveness>>

ServerReply ==
    /\ topology = "lazy"
    /\ work[Server] # None
    /\ replies' = Deliver(work[Server])
    /\ work' = [work EXCEPT ![Server] = None]
    /\ UNCHANGED <<topology, clientVars, requests, queueVars, alive, wsocket, liveness>>

-----------------------------------------------------------------------------
(* spqueue.c and ppqueue.c *)

Entry(id) == [id |-> id, expiry |-> Expiry]

\* Mutant of s_worker_ready: the worker keeps its place in the list.
ReadyInPlace(id, list) ==
    IF \E i \in 1..Len(list) : list[i].id = id
    THEN [i \in 1..Len(list) |-> IF list[i].id = id THEN Entry(id) ELSE list[i]]
    ELSE Append(list, Entry(id))

\* An entry of the same worker, the first that is found, is removed before.
s_worker_ready(id, list) ==
    LET same == {i \in 1..Len(list) : list[i].id = id}
        others == IF same = {} THEN list
                  ELSE RemoveAt(list, CHOOSE i \in same : \A j \in same : i <= j)
    IN  Append(others, Entry(id))

\* The worker at the head gets the request; this is the list without it.
s_workers_next(list) == Tail(list)

\* The expired workers at the head of the list, up to the first that is not.
s_workers_purge(list) ==
    LET live == {i \in 1..Len(list) : list[i].expiry > 0}
    IN  IF live = {} THEN <<>>
        ELSE SubSeq(list, CHOOSE i \in live : \A j \in live : i <= j, Len(list))

\* Mutant of ListWith: only a reply or a READY makes a worker ready.
ListWithoutHeartbeats(id) ==
    IF id = None \/ (id # None /\ Head(inbox[id]) = HEARTBEAT) THEN workers
    ELSE IF topology = "simple" THEN Append(workers, Entry(id))
    ELSE s_worker_ready(id, workers)

\* The list when the message of id, if there is one, has been read: whatever
\* a worker sends makes it ready.
ListWith(id) ==
    IF id = None THEN workers
    ELSE IF topology = "simple" THEN Append(workers, Entry(id))
    ELSE s_worker_ready(id, workers)

\* The message itself is a sign of life, or a reply that goes to its client.
FromBackend(id) ==
    IF id = None THEN UNCHANGED <<inbox, replies>>
    ELSE /\ inbox[id] # <<>>
         /\ inbox' = [inbox EXCEPT ![id] = Tail(@)]
         /\ replies' = IF Head(inbox[id]) \in {READY, HEARTBEAT} THEN replies
                       ELSE Deliver(Head(inbox[id]))

Reachable(id) == alive[id[1]] /\ id = Identity(id[1])

\* What the workers get: the request r goes to the head of the list, whether
\* that worker is still there or not, and a heartbeat to each of the rest.
Outbox(r, list, rest, due) ==
    [id \in Identities |->
        outbox[id]
        \o (IF r # None /\ list # <<>> /\ list[1].id = id /\ Reachable(id) THEN <<r>> ELSE <<>>)
        \o (IF due /\ Reachable(id) /\ \E i \in 1..Len(rest) : rest[i].id = id
            THEN <<HEARTBEAT>> ELSE <<>>)]

\* Mutant of SimpleQueue: the worker that gets a request stays in the list.
SimpleQueueKeeps(id, r) ==
    /\ topology = "simple"
    /\ id # None \/ r # None
    /\ r # None => workers # <<>>
    /\ FromBackend(id)
    /\ requests' = requests \ {r}
    /\ workers' = ListWith(id)
    /\ outbox' = Outbox(r, ListWith(id), <<>>, FALSE)
    /\ UNCHANGED <<topology, clientVars, workerVars>>

\* An iteration of spqueue's loop: a message of the worker id, a request r, or
\* both.  The frontend is polled only if the list has a worker before.
SimpleQueue(id, r) ==
    /\ topology = "simple"
    /\ id # None \/ r # None
    /\ r # None => workers # <<>>
    /\ FromBackend(id)
    /\ requests' = requests \ {r}
    /\ workers' = IF r = None THEN ListWith(id) ELSE Tail(ListWith(id))
    /\ outbox' = Outbox(r, ListWith(id), <<>>, FALSE)
    /\ UNCHANGED <<topology, clientVars, workerVars>>

\* An iteration of ppqueue's loop: the same, then the heartbeats to those who
\* wait, if they are due, and the purge.
ParanoidQueue(id, r, due) ==
    LET list == ListWith(id)
        rest == IF r = None THEN list ELSE s_workers_next(list)
    IN  /\ topology = "paranoid"
        /\ r # None => workers # <<>>
        /\ due => \A i \in Identities : Len(outbox[i]) < MaxInbox
        /\ FromBackend(id)
        /\ requests' = requests \ {r}
        /\ outbox' = Outbox(r, list, rest, due)
        /\ workers' = s_workers_purge(rest)
        /\ UNCHANGED <<topology, clientVars, workerVars>>

\* Time passes for the workers in the list.
Tick ==
    /\ topology = "paranoid"
    /\ \E i \in 1..Len(workers) : workers[i].expiry > 0
    /\ workers' = [i \in 1..Len(workers) |->
                     [workers[i] EXCEPT !.expiry = IF @ > 0 THEN @ - 1 ELSE 0]]
    /\ UNCHANGED <<topology, clientVars, requests, replies, inbox, outbox, workerVars>>

-----------------------------------------------------------------------------
(* spworker.c and ppworker.c *)

\* A request is taken, or the worker crashes on it; the processes that replace
\* crashed ones are new workers.
WorkerRequest(w) ==
    LET id == Identity(w)
    IN  /\ topology # "lazy"
        /\ alive[w] /\ work[w] = None
        /\ outbox[id] # <<>> /\ Head(outbox[id]) # HEARTBEAT
        /\ \/ /\ work' = [work EXCEPT ![w] = Head(outbox[id])]
              /\ outbox' = [outbox EXCEPT ![id] = Tail(@)]
              /\ alive' = alive
           \/ /\ alive' = [alive EXCEPT ![w] = FALSE]
              /\ outbox' = [outbox EXCEPT ![id] = <<>>]
              /\ work' = work
        /\ UNCHANGED <<topology, clientVars, requests, replies, workers, inbox,
                       wsocket, liveness>>

\* Its reply, after as long as the sleeps of an overload take.
WorkerReply(w) ==
    /\ topology # "lazy"
    /\ work[w] # None
    /\ inbox' = [inbox EXCEPT ![Identity(w)] = Append(@, work[w])]
    /\ work' = [work EXCEPT ![w] = None]
    /\ liveness' = [liveness EXCEPT ![w] = HEARTBEAT_LIVENESS]
    /\ UNCHANGED <<topology, clientVars, requests, replies, workers, outbox, alive,
                   wsocket>>

\* ppworker: a heartbeat of the queue.
WorkerAlive(w) ==
    LET id == Identity(w)
    IN  /\ alive[w] /\ work[w] = None
        /\ outbox[id] # <<>> /\ Head(outbox[id]) = HEARTBEAT
        /\ outbox' = [outbox EXCEPT ![id] = Tail(@)]
        /\ liveness' = [liveness EXCEPT ![w] = HEARTBEAT_LIVENESS]
        /\ UNCHANGED <<topology, clientVars, requests, replies, workers, inbox, alive,
                       work, wsocket>>

\* ppworker: an empty poll; at the last one the worker takes a new socket, and
\* what was sent to the old one is lost.
WorkerTimeout(w) ==
    /\ topology = "paranoid"
    /\ alive[w] /\ work[w] = None
    /\ IF liveness[w] > 1
       THEN /\ liveness' = [liveness EXCEPT ![w] = @ - 1]
            /\ UNCHANGED <<inbox, outbox, wsocket>>
       ELSE /\ \A v \in Workers : wsocket[v] < MaxSocket
            /\ wsocket' = [wsocket EXCEPT ![w] = @ + 1]
            /\ outbox' = [outbox EXCEPT ![Identity(w)] = <<>>]
            /\ inbox' = [inbox EXCEPT ![<<w, wsocket'[w]>>] = <<READY>>]
            /\ liveness' = [liveness EXCEPT ![w] = HEARTBEAT_LIVENESS]
    /\ UNCHANGED <<topology, clientVars, requests, replies, workers, alive, work>>

\* ppworker: its own heartbeat is due.
WorkerHeartbeat(w) ==
    /\ topology = "paranoid"
    /\ alive[w] /\ work[w] = None
    /\ Len(inbox[Identity(w)]) < MaxInbox
    /\ inbox' = [inbox EXCEPT ![Identity(w)] = Append(@, HEARTBEAT)]
    /\ UNCHANGED <<topology, clientVars, requests, replies, workers, outbox, workerVars>>

-----------------------------------------------------------------------------
Client(c) == ClientSend(c) \/ ClientRecv(c) \/ ClientTimeout(c)
Queue(id, r) == SimpleQueue(id, r) \/ \E due \in BOOLEAN : ParanoidQueue(id, r, due)
Worker(w) == WorkerRequest(w) \/ WorkerReply(w) \/ WorkerAlive(w)

Next ==
    \/ \E c \in Clients : Client(c)
    \/ ServerRecv \/ ServerReply
    \/ \E id \in Identities \cup {None}, r \in requests \cup {None} : Queue(id, r)
    \/ Tick
    \/ \E w \in Workers : Worker(w) \/ WorkerTimeout(w) \/ WorkerHeartbeat(w)

\* The queue reads from all workers that are connected, and a paranoid worker's
\* loop goes on and sends its heartbeats; nobody need ever time out or crash.
Fairness ==
    \A w \in Workers : /\ WF_vars(Queue(Identity(w), None))
                        /\ WF_vars(Worker(w))
                        /\ WF_vars(WorkerHeartbeat(w))

Spec == Init /\ [][Next]_vars /\ Fairness

-----------------------------------------------------------------------------
(* Properties *)

\* What reaches a client's socket answers the request it waits for: a late
\* answer to an earlier try or request cannot, because a retry takes a new
\* socket.  The branch of lpclient.c for a malformed reply is never taken.
NoStaleReply == \A r \in replies : r[3] = sequence[r[1]] /\ r[2] = socket[r[1]]

Places(w) ==
    LET here == {i \in 1..Len(workers) : workers[i].id[1] = w}
    IN  {<<"list", i>> : i \in here}
        \cup {<<"inbox", i>> : i \in 1..Len(inbox[Identity(w)])}
        \cup {<<"outbox", i>> : i \in 1..Len(outbox[Identity(w)])}
        \cup {<<"work", i>> : i \in {1} \ {j \in {1} : work[w] = None}}

\* A worker of the simple queue is in one place at a time: waiting in the
\* list, sent a request, working, or heard of.  Its REQ socket could neither
\* take a second request nor send a second reply.
OneAtATime ==
    topology = "simple" =>
        \A w \in Workers : \A p, q \in Places(w) : p = q

\* The paranoid queue's list holds no worker twice and is sorted by expiry:
\* s_workers_purge stops at the first worker that has not expired, so that
\* one out of order would hide dead ones.
ListInOrder ==
    topology = "paranoid" =>
        \A i, j \in 1..Len(workers) :
            i < j => /\ workers[i].id # workers[j].id
                     /\ workers[i].expiry <= workers[j].expiry

Listed(w) == \E i \in 1..Len(workers) : workers[i].id = Identity(w)

\* A live paranoid worker that the queue has purged or taken from its list,
\* or that has reconnected, is in the list again in the end, or has crashed.
WorkerReturns ==
    \A w \in Workers :
        topology = "paranoid" /\ alive[w] ~> Listed(w) \/ ~alive[w]
=============================================================================
