# A verification development for sweet-clib

sweet-clib is a collection of C and C++ programs: data structures, a thread
pool, a process pool, event-driven servers and ZeroMQ messaging patterns. This
directory holds TLA+ specifications of its core parts, TLC configurations that
check them on small instances, and TLAPS proofs of what matters most for
instances of any size. `PROJECT.json` maps every definition to the source lines
it models.

Much of the source does not compile as it stands (misspelt identifiers, a missing
`list_tail` macro, a superfluous `else`). Such code is modelled as its evident
intent, which the mirror-image function, the header or the neighbouring lines
fix; where a reading had to be chosen, the module's header comment says so. Slips
that do compile are modelled as they are.

## 1. Inventory

| Part | Source (`src/lib/`) | State | Operations | Talks to | What is hard |
|---|---|---|---|---|---|
| Thread pool | `threadpool/` | task queue, counter, mutex, condition, shutdown flag | init, add_worker, handle, destroy | tasks through function pointers; uses Queue | signal and broadcast without the lock, spurious wake-ups, shutdown racing a wait, malloc failing for a task |
| Majordomo | `zeromq/MDP/` | broker: registered and waiting workers, per-service queues; worker: socket, liveness, reply address; client: socket, retries | READY, REQUEST, REPLY, HEARTBEAT, DISCONNECT, client requests, purge, dispatch, timeouts | messages over ZeroMQ sockets | crashes of broker and workers, expiry while a message is under way, retries over new sockets, late replies |
| Line echo server | `libevent/lowlevel_libevent_server.c` | one buffer with three indices per connection, a write event | do_accept, do_read, do_write, free_fd_state | libevent callbacks, the socket | partial reads and writes, full buffer, EAGAIN between them |
| EPOLLONESHOT server | `epoll/test_epolloneshot.c` | epoll registrations, the thread argument on main's stack | main loop, worker, reset_oneshot | kernel, threads | two threads on one socket, an edge lost between EAGAIN and re-arming |
| Process pool | `processpool/processpool.h` | pids, turn, stop flags, signal pipes, edge-triggered registrations | constructor, setup_sig_pipe, run_parent, run_child | fork, signals, socket pairs, epoll | merged and early signals, edge-triggered events, children dying at any time |
| List, Stack, Queue | `_structs/list.c, stack.c, queue.c` (copies in `threadpool/`, `app/bns/`) | head, tail, size, linked elements | init, ins_next, rem_next, destroy, push, pop, enqueue, dequeue | used by thread pool, hash table, tree | redundant tail and size, malloc failing |
| AVL search tree | `_structs/bistree.c` | nodes with balance factors and hidden flags, size | insert, remove (hides), lookup, destroy | used by applications | factors adjusted and never measured; re-insertion of hidden keys |
| Chained hash table | `_structs/chtbl.c` | buckets of lists, size | init, insert, remove, lookup, find_kv, destroy | List | one list for many keys; size against the buckets; two interfaces |
| Binary tree, traversals | `_structs/bitree.c, traverse.c` | nodes, size | ins/rem left/right, merge, three traversals | BisTree, List | a recursion that stops by the size it decrements; merged sizes; traversals that run out of memory |
| Clone pattern | `zeromq/clone/` | key-value map and sequence number on both sides | publish, snapshot, update, codec | ZeroMQ PUB/SUB, ROUTER/DEALER, an inproc pipe | snapshot and updates overlap; sequence codec |
| Pirate patterns | `zeromq/reliable/` | waiting workers with expiries, liveness, sockets, retries | send, receive, retry; ready, dispatch, heartbeat, purge; reconnect | ZeroMQ | crashes, late answers, workers that are purged and come back under a new identity |
| Async server | `zeromq/async/async_server.c` | none of its own | clients, proxy, workers | ZeroMQ | replies in any order |
| Chat server and client | `pthread/chat_*.c` | table of client sockets under a mutex | accept, relay, remove | threads, sockets | argument passed by address, removal loop that goes one too far, broadcasts of several threads |
| Other epoll servers | `epoll/epollserver.cpp, diff_LT_ET.c, epollclient.cpp` | registrations, users' status | event loops, ConnectToServer, SendToServerData, RecvFromServer, Run | kernel, each other | level against edge trigger; two sides that take turns |
| bufferevent servers | `libevent/server_*.c` | libevent's | callbacks | libevent | - |
| Sort and strings | `sort/`, `util/` | none | issort, tokenisers | - | boundaries |
| Data programs | `app/bns/`, `app/test/` | tables read from files | load, look up, print | hash table | text formats |
| Demonstrations | `mysql, mongo, msgpack, regex, ...` | none | sequences of library calls | third-party libraries | - |

What makes the modelled parts correct:

* thread pool: every task is run once, in order, unless the pool is shut down or
  memory runs out;
  the pool is not freed under a running thread; `threadpool_destroy` returns;
* Majordomo: the broker's redundant lists agree; a worker has one request at a
  time; nobody gets another request's reply; workers find back after a crash;
* echo server: the indices stay in the buffer, what is echoed is what came in,
  and a complete line is not left behind;
* one-shot server: one thread per socket, and no arrival is missed;
* process pool: no ended child is forgotten, the parent leaves last, SIGTERM ends
  the whole pool, which also ends when its children are gone, and connections are
  handed out in turn to those that are left;
* list and tree: the pointers, counters and factors stay consistent, and the
  structure is the sequence or the map its interface promises;
* hash table and binary tree: the map, and the function from paths to data, that
  their interfaces promise, with nothing left behind or destroyed twice;
* pirates: no answer to another request, no second request for a busy worker, an
  expiry list that the purge can rely on, and no live worker forgotten;
* chat: one order of messages for everyone;
* epoll readers: what arrives on an accepted connection is read in either mode; a
  client and a server that take turns never both wait;
* clone: a client's map is the result of the updates up to its sequence number,
  except those the network dropped, and never goes back, as long as the numbers keep
  their order on the wire.

## 2. Plan

Modules in the order in which they are built, the most important behaviour first:

1. `ThreadPool`, with `ThreadPoolProofs` (done);
2. `MdNet`, `MdBroker`, `MdWorker`, `MdClient`, `MdClient2`, composed by `Mdp`;
   with `MdpProofs` (done);
3. `EchoServer`, with `EchoServerProofs` (done);
4. `EpollOneshot`, with `EpollOneshotProofs` (done);
5. `ListSpec`, `List`; `CHTblSpec`, `CHTbl`, beside the list in `Tables`; with
   `StructProofs` (done); `BisTreeSpec`, `BisTree`, `BiTreeSpec`, `BiTree` (done);
6. `ProcessPool`, with `ProcessPoolProofs` (done);
7. `Clone`, `Pirate`, `ChatServer`, composed by `Patterns`; with `PirateProofs` and
   `PatternsProofs` (done);
8. `LtEt`, `EpollPair` (done).

Every safety property that the runs check has its theorem, except those of the two
trees; section 6 says why.

Sequential structures are independent of each other, and so are the small servers
and patterns: three runs (`structs`, `servers`, `patterns`) explore them side by
side, one in each behaviour.

## 3. Modules and their code

Every module is parameterised by CONSTANTS; `MC<Module>` instantiates it for TLC.
`Tables`, `Patterns` and `MCServers` extend one module and instantiate others beside
it. `Tables` and `Patterns` keep all constants as parameters, so that what they state
is proved as well as checked; `MCStructs` adds the trees to `Tables` and gives the hash
function, `MCPatterns` gives the numbers of tries and requests. In `Patterns`,
`MCServers` and `MCStructs` a variable chosen at the start says which of the parts
runs, and the rest stay as they are. A property `X` of an instance is repeated there
under a name of its own.
A definition named "Mutant of X" is X with a plausible bug; no specification uses
it, and putting it in X's place must make a property fail.

**ThreadPool** (`threadpool.c`, `threadpool_main.c`). A thread's position in
`threadpool_handle` is `pc[w]`, main's is `main_pc`. What runs under `queue_lock`
is cut only where an unlocked access of another thread can fall: `shutdown` is
read twice (`TestQueue`, `CheckShutdown`), `CondWait` releases and blocks in one
step, and `Signal`, `DestroySetFlag` and `DestroyBroadcast` do not take the lock.
`SpuriousWakeup` is what POSIX allows. The queue is a sequence, which `List`
justifies, its failing malloc included: `AddWorker` stores the task or does not, and
counts it in either case, as the code does that ignores the result of `queue_enqueue`.
`AddWorkerCrashes` is the other malloc of the function, whose result is used unchecked.
A failed assertion or a NULL pointer ends all threads at once (`ProcessDies`).
`accepted` lists the tasks that were stored, and with `taken` and `done` is history.
`main` may destroy the pool at any time. That `threadpool_init` gets its memory and its
threads is taken for granted.

**MdNet, MdBroker, MdWorker, MdClient, MdClient2, Mdp** (`mdbroker.c`,
`mdwrkapi.c`, `mdworker.c`, `mdcliapi.c`, `mdclient.c`, `mdcliapi2.c`,
`mdclient2.c`). ZeroMQ is external: FIFO connections, a new identity for every
socket, a ROUTER that drops what it cannot route. Closing a socket loses what it
has not transmitted, or does not. The broker's functions map one broker record to
the next and keep the names of the source; the loops of the purge and of the
dispatch are recursive functions of the round. Time is abstracted to the order of
expiries (`live`): all of them are set the same distance ahead, so comparing with
the clock means to ask how many of the oldest have passed. With `Timely` FALSE any
expiry or timeout may happen at any moment; with `Timely` TRUE heartbeats arrive
in time, which is what liveness needs. Choices of the source that the model keeps:
the purge stops at the first worker that is not expired; a busy worker that dies
is never purged, so `mmi.service` goes on counting it; HEARTBEAT or REPLY from an
unknown worker is answered with DISCONNECT. No worker of the repository sends
DISCONNECT, an unknown command, or READY twice on one socket. A restart of the
broker loses, for each connection, what was under way, or keeps it. `BrokerHeartbeat`
with nobody waiting would change nothing and is not taken. A request or its reply is
always at one of `Places`: on a connection to the broker (`up`), in a pipe from it,
in a worker's hands, in a service's queue. `Jobs` and `Copies` are the positions, in all
of them, that hold what a worker was given or what a client's socket asked.

**EchoServer** (`lowlevel_libevent_server.c`). One connection; connections share
no state. The callbacks are cut into loop iterations, between which the peer acts.
Kept as written: `errno = EAGAIN` (line 107) is an assignment, so any error of
`recv` ends the callback without freeing the connection; end of file frees it with
lines unsent; bytes that do not fit are dropped, and a newline that does not fit
still asks for a write.

**EpollOneshot** (`test_epolloneshot.c`). epoll's ready list is `edge`, one-shot
disarming is `armed`, and `EPOLL_CTL_MOD` looks at the descriptor's state again.
The macros give false the value 2, so `addfd(.., false)` also registers
EPOLLONESHOT: see the finding. `fds` is the argument on main's stack that a thread
reads after main may have gone on.

**ProcessPool** (`processpool.h`). `at[p]` is where a process is, `edge[p]` its
ready list since the last `epoll_wait`, `events[p]` what the loop is working
through. Signals of a kind merge (`pending`), are written by the handler to
`sig_pipe` and read all at once; before `setup_sig_pipe` SIGTERM kills and SIGCHLD
is ignored. `sa.sa_handler |= SA_RESTART` is read as `sa_flags`. The listening
socket's O_NONBLOCK is shared, so a child's `accept` on an empty backlog fails at
once. A send to a child that is gone is lost. `Running` are the children in the table
as the search of `run_parent` passes them from `sub_process_counter` on; it ends at the
first (`NewConnection`) or, when there is none, where it began (`NobodyLeft`).

**ListSpec, List** (`list.c`, `stack.c`, `queue.c`). `List` has the pointers;
`cells` is an auxiliary variable that lists the elements in order, and the
refinement maps it to the items of `ListSpec`. malloc may fail at any call.
`list_destroy` is a loop of removals followed by the memset, which also clears the
destroy callback.

**BisTreeSpec, BisTree** (`bistree.c`). Subtrees are terms, operations the
recursive functions of the source. Removal hides a node; removing a hidden key
returns 0 like a first removal; inserting a hidden key again reuses its node and
destroys the old datum (`Unhidden`); `size` counts hidden nodes too. The data passed to
the destroy callback by one call are a bag, so that one passed twice shows. The leak of the AvlNode
when the second malloc fails is not visible at this level.

**CHTblSpec, CHTbl** (`chtbl.c`). Buckets are sequences of pairs of key and value;
`List` justifies that. `h` is a constant; `kv` records with which of its two
interfaces a table was made, and it is used with that one only. A new element goes
to the head of its bucket, an insertion of a key that is there returns 1, a removal
unlinks what follows `prev`, the element before the one that matched (`Prev`), and
`chtbl_destroy` walks all buckets and clears the structure. The abstract table is a
map with its size and the data that were handed to the destroy callback.

**BiTreeSpec, BiTree** (`bitree.c`, `traverse.c`). Subtrees are terms and a node
pointer is a path. The recursion of removal is `Rem`, with the size that it
decrements and that stops it. The traversals are the recursive functions of the
source, and the list they build may run out of memory at any element, after which
the caller has -1 and the beginning of the listing. The abstract trees are functions
from paths to data; their listings are defined by the order of paths, not by a
recursion. `bitree_merge` is used as its three trees allow: different ones, the
first empty.

**Pirate** (`lpclient.c`, `lpserver.c`, `spqueue.c`, `spworker.c`, `ppqueue.c`,
`ppworker.c`). One client program with three kinds of service, chosen at the start
(`topology`). A request carries the client's socket and its sequence number; every
retry has a new socket. An iteration of a queue's loop is one action: a message of a
worker, a request, or both, then, with the paranoid queue, heartbeats if they are due
and the purge. `s_worker_ready` removes the first entry of the same identity, where
its loop breaks. A crash is the simulated one of the programs; a worker that is
overloaded is one whose reply takes long. Time is an expiry that is counted down
(`Tick`). The words that keep `ppqueue.c` and `ppworker.c` from being built are read
as the module's header says.

**ChatServer** (`chat_server.c`, `chat_client.c`). main's `clnt_sock` is a variable
that threads read when they start (`Start`). Every write of a broadcast is a step
(`Write`) under the mutex. `Leave` is the removal as it is written: it closes the gap
one entry too far, so that the entry of the leaver stays and another is lost. A
broadcast is known by its number, and what a client prints by those numbers. A write
to a client that has gone may end the server (SIGPIPE). Nobody checks that the table
has an entry left; the model has fewer clients than entries.

**LtEt** (`diff_LT_ET.c`). `mode` says which of `lt` and `et` main calls. `edge` is
epoll's ready list of edge-triggered descriptors, the listening socket among them in
both modes.

**EpollPair** (`epollclient.cpp`, `epollserver.cpp`). `interest` and `served` are the
registrations of the two ends of a user's connection. Either end handles one
direction and then registers for the other. TCP may hand over any part of what is
under way, and each part counts as a message. A socket that could not be had gives
the index -1 (`clobbered`).

**Clone** (`clonesrv2.c`, `clonecli2.c`, `clonesrv1.c`, `clonecli1.c`, `kvsimple.c`).
`model` says which pair of programs runs; the first has no snapshots. An update is known by its
number, and a map's entry is the number of the update it came from. The server's
main thread publishes (`Publish`) and then passes on (`PassOn`); `state_manager`
takes one update (`Store`) or answers one request (`Snapshot`, in any order of the
hash table's entries). The client asks, and its subscription comes into force at
any moment after that (`Subscribe`, external), so that it may miss updates;
a queue at its high-water mark drops more (`missed` is history). Numbers travel as
eight bytes of `Base` values and are decoded as the code does it, with the shift
of byte 5 that is 26 bits where 16 are meant. That does no harm while decoding keeps
the order, and decoding twice, as for KTHXBAI, changes nothing more (`Trusted`). The
model goes on beyond: `RangeIsExact` says that the last such number is Base^3 - 1, which is
2^24 - 1 in the code. Update Base^3 arrives with the number of an earlier one, and from
then on `clonecli2.c` skips new updates and takes old ones, so that `ReplicaConsistent`
and `NeverBack` are guarded by `InRange`. `clonecli1.c` compares no numbers and needs
no guard.
A snapshot is assumed to fit the queues of its sockets. Left out are interruption
(both programs only clean up) and requests other than ICANHAZ?, which no client of the
repository sends.

## 4. Runs

| Run | Module, config | Instance | Shows |
|---|---|---|---|
| `threadpool` | MCThreadPool, ThreadPool.cfg | 3 threads, 3 tasks, any malloc of a task fails | `AssertsHoldWithMemory`, `QueueIsFifo`, `TakenExactlyOnce`, `FreedOnlyWhenAllExited`; with fairness `EveryTaskRuns` |
| `threadpool_destroy` | MCThreadPool, ThreadPool_destroy.cfg | 2 threads, 1 task | violation of `DestroyReturns` (finding 1) |
| `mdp_crash` | MCMdp, Mdp_crash.cfg | 1 worker, 1 client, 3 sockets each, broker restart, worker crash, any delay | `OneRequestPerWorker`, `RepliesMatch`, `RequestConserved` |
| `mdp_async` | MCMdp, Mdp_async.cfg | 2 workers, 2 services, asynchronous client, crash, any delay | `ListsAgree`, `NoIdleBacklog`, `AsyncRepliesDistinct` |
| `mdp_live` | MCMdp, Mdp_live.cfg | 1 worker, 1 client with mmi requests, broker restart, timely | `WorkerComesBack`, `BacklogDrains`, `ClientReturns` |
| `echo` | MCEchoServer, EchoServer.cfg | buffer of 3, stream of 5 | `IndicesOrdered`, `LinePendingHasEvent`, `EchoInOrder`; with fairness `LineIsSent` |
| `servers` | MCServers, Servers.cfg | EpollOneshot and LtEt: 2 clients, 3 bytes, 2 threads, buffer of 2; EpollPair: 1 user, 4 messages of 2 bytes; Pirate: paranoid, 1 worker | `OneThreadPerSocket`; with fairness `ArrivalIsRead`, `ArrivalsRead`, `ExchangeGoesOn`, `WorkerReturns` |
| `oneshot_listener` | MCEpollOneshot, EpollOneshot_listener.cfg | the same, 2 bytes | violation of `ListenerStaysArmed` (finding 2) |
| `structs` | MCStructs, Structs.cfg | list of 3 elements, 2 data, up to renaming of the elements; search tree of 6 keys, two of them with 2 values; hash table of 1 to 3 buckets, 4 keys, 2 values; 3 binary trees of 3 nodes in all | `ListSound`, `Refines`; `TreeShape`, `TreeRefines`; `TableRefines`; `BiTreeRefines` |
| `patterns` | MCPatterns, Patterns.cfg | Clone: 1 client, 5 updates of 2 keys or 8 of one, queue of 2, bytes of 2 values; Pirate: 1 client, 2 workers; ChatServer: 3 clients, 1 message each | `RangeIsExact`, `ReplicaConsistent`, `NeverBack`; `NoStaleReply`, `OneAtATime`, `ListInOrder`; `SameOrder` |
| `processpool` | MCProcessPool, ProcessPool.cfg | 3 children, 2 connections, one SIGTERM, one crash | `ParentLeavesLast`, `ZombieIsAnnounced`, `RoundRobin`; with fairness `ShutdownCompletes` |
| `processpool_accept` | MCProcessPool, ProcessPool_accept.cfg | 2 children, 2 connections, no accident | violation of `ConnectionIsAccepted` (finding 3) |

The `TypeOK` of the thread pool, the echo server, the list and Majordomo are parts of their
proofs; the runs spend their time on the other properties. `structs` gives TLC a
VIEW without the variables that hold what the last call returned: every call
overwrites them and none reads them, so that states which differ only there have the
same future, and the refinements are checked on every transition, also on one to a
state that was seen before. In all four structures and their abstract specifications
`result` names the call with its arguments: otherwise a call that does what another
call should do (a removal that unlinks its neighbour, an insertion that keeps the old
datum) would pass for that other call.

**Bounds.** Three threads give a signal a choice, a thread that steals the task
and one that sleeps on. One worker with three sockets meets every overlap of old
and new connection that a second worker would bring, and two workers with one
socket each meet the choices of dispatch. A buffer of three fills, holds a
complete and an incomplete line at once, and a stream of five wraps it. Three list
elements give head, middle and tail; six keys are the fewest for a double rotation
whose grandchild is not balanced, and a second value of an inner key and of an outer one
tells a datum from the one it replaces. A SIGTERM lets all children be gone, and of three
children a dead one may be before, between or behind the two whose turns are compared. The keys of the hash table are all in one bucket of three, and
of one, and spread over two, so that chains of four and empty buckets occur. Three
nodes make every shape with two levels below a root and a merge of two trees.
A pirate client with three tries meets the late answers of two, and two requests the
answer to an earlier one; two workers let one expire behind or before the other, and
one reconnection gives a worker two identities. Three chat clients let one leave, its
neighbour lose its entry and the third take the descriptor. One user of `EpollPair`
is enough, since users share nothing but the loops. Clients of the clone pattern do not influence each other, so one is
enough; five updates use byte 5 of the number, overflow the queue of two and leave
room for one update before, during and after the snapshot. Bytes of one bit end the range
of the codec at 8, so that eight updates pass it (`FewKeys` of `MCPatterns` is the bound). `MaxUpdates`, `MaxQueue`, `MaxBeats`, `MaxSockets`, `MaxRequests`, `MaxRestarts`,
`MaxCrashes`, `MaxSequence`, `MaxSocket`, `MaxInbox`, `MaxMessages`, `MaxRounds`,
`MaxUnder`, `MaxNodes`, `MaxKills`, `MaxConns`, `MaxBytes`, `MaxData` and `NumTasks` only
stop counters that the programs leave unbounded. Where they are used up the system
stops, so the runs of these servers do not check for deadlock; the runs of the thread pool,
the structures do.

**Fairness.** Threads and processes that can run are run (weak fairness of their
steps); contenders for the mutex get it in the end (strong fairness of `Lock`);
libevent's and epoll's loops go on; the paranoid queue reads from every worker that is
connected, and a worker's loop takes its messages and sends its heartbeats when they
are due; signals are delivered; what is in a socket is
received; in `mdp_live` a stopped worker is started again and messages are
timely. Nothing is assumed of users: nobody has to add a task, send a request,
connect, or destroy a pool, no worker has to time out, and no spurious wake-up ever has to come.

## 5. Findings

1. `threadpool_destroy` may never return. It sets `shutdown` and broadcasts
   without `queue_lock`; both can fall between a thread's test of the flag and its
   `pthread_cond_wait`, and the thread then sleeps for ever while main joins it.
2. The comment "no oneshot" in `test_epolloneshot.c` is not what happens: false is
   2, the listener is registered one-shot and disarmed by the first connection. No
   second client is ever accepted, which also hides the race on `fds`.
3. The process pool does not serve every connection: of two that arrive between
   two calls of `epoll_wait` only one is announced and accepted, until another
   client happens to connect.

Two more defects have no document to contradict and are part of the models, where the
properties say how far they reach. A task for which `queue_enqueue` has no memory is counted
and reported as added; the counter then announces a task that the queue does not have,
and a thread fails `assert(queue_peek(...) != NULL)` (`AssertFails`, a step of the run
`threadpool`). From update 2^24 on a clone client skips new updates and takes old ones
(`RangeIsExact`).

## 6. Proofs

TLAPS proves, for every value of the constants, 28 of the properties that the runs
check. All assumptions are named, stand beside the constants they are about, and are
evaluated by TLC in the runs:

* `ConstantsAssumption` of a module: bounds are naturals, there is a child and
  room in a buffer, special values are no members of the sets;
* `NullAssumption` (`List`): NULL is no element;
* `TableAssumption`: a hash value is a natural number and a table has a bucket;
* `CloneAssumption`: a byte has two values or more, a queue has room, bounds are naturals;
* `NetAssumption` (Majordomo): there are finitely many processes, each runs one
  program, the names that begin with "mmi." are no service of a worker, None is neither a
  service nor a socket; `WorkerAssumption` and `ClientAssumption`: HEARTBEAT_LIVENESS
  is at least 1 and the number of retries a natural;
* `PatternsAssumption`: `PirateConstants` (READY, HEARTBEAT and None are no requests,
  the lazy server is one of the workers, bounds are naturals), that 0 is no chat client,
  and that the chat server's table has more entries than there are clients.

Hardly any of the properties is inductive. For each module, the strengthening and why it is
needed:

* **ThreadPoolProofs**: `TypeCorrect`, `AssertsNeedMemory`, `QueueFifo`,
  `ExactlyOnce`, `SafeFree`, for any number of threads and tasks and with malloc failing
  at will. `AssertsNeedMemory` is what is left of the two assertions, see section 5: only a
  task that could not be stored makes one fail. That the first holds depends on who
  holds the mutex since the test, that the second does on the counter, which
  `QueueIsFifo` keeps at the length of the queue plus the tasks not stored.
  `Discipline` adds that: the mutex is held exactly
  in the locked positions, a thread past the test has seen a task or the shutdown,
  a thread has a task only while it runs it or when it was killed with it. `IInv` is `TypeOK`, `Discipline`,
  `QueueIsFifo` and `TakenExactlyOnce`; `StoreLast` and `TakeFirst` say what
  enqueue and dequeue do to the part of `accepted` that is not taken.
* **EchoServerProofs**: `TypeCorrect`, `BufferSafe`, `NoLineForgotten`,
  `EchoFaithful`, for any buffer size and stream. `IInv` adds `Callbacks` (what
  holds while a callback is in the middle of its loop); the lemmas about `SubSeq`
  and concatenation move a byte from the buffer to the output.
* **EpollOneshotProofs**: `TypeCorrect`, `SocketExclusive` (`OneThreadPerSocket`) and
  `OnlyFirstAccepted`, for any numbers of connections and threads. The first rests on
  finding 2: since the listener is disarmed by the first event, at most one connection
  is ever accepted, and `Phase` says who has it: epoll, main, a thread that has yet to
  read `fds`, or one that reads from it. Without that, two connections would race on
  `fds`. `OnlyFirstAccepted` states the consequence of finding 2 for every instance.
* **ProcessPoolProofs**: `TypeCorrect`, `LeavesLast`, `NoLostChild`, `FairTurns`, for
  any number of children. `IInv` is `TypeOK`, `Pids` (`m_pid` is set exactly for those
  forked and not reaped, the parent stops only when all are reaped), `Zombies` (a child
  that ended after the handler was installed has a SIGCHLD pending, in the pipe or in
  the array that the switch works through) and `Turns` (of the children left,
  those before `sub_process_counter` have had one notification more than the rest). `SignalledStep`
  and `TakeSignal` carry an announcement from one of these places to the next;
  `TurnOnto` and `TurnValue` show that the search of `run_parent` passes every child, and
  in which order, so that those it skips are exactly the dead ones in between.
* **StructProofs**, the list: `TypeCorrect`, `SoundKept` and
  `Implements`, the refinement `Spec => LS!Spec`, for any memory and data. `IInv` is
  `TypeOK`, `ListShape` (the pointers, tail and size describe one chain) and `NoLeak` (the
  allocated elements are those of the chain), of which `ListSound` consists; `InsertKeepsShape` and `RemoveKeepsShape` do the
  pointer reasoning once, with the item sequence they leave, and `InsertStep`,
  `RemoveStep` and `DestroyStep` turn that into steps of the abstract sequence.
* **StructProofs**, the hash table: `TableImplements`, the refinement
  `Table!Spec => TableRefines`, for any hash function, keys, values and numbers of
  buckets. `Placed` is needed: only when a datum is in the bucket of its key, and a key
  once in its bucket, does the walk through one bucket decide whether the key is in the
  table (`MatchDecides`), and is the set of stored data a map. `BucketAdd` and
  `BucketCut` say what insertion at the head and removal from the middle do to a
  bucket, `MapAdd` and `MapRemove` what that is for the map.
* **PirateProofs**: `RepliesFresh`, `WorkersAlone`, `ListOrdered`, for any clients,
  workers, retries and liveness. `PirateInv` is `PirateType`, `Traced`, `SimpleInv` and
  `ListInOrder`. `Traced`: a request or its reply is in one place only (`OnePlace`), and
  what carries the client's present socket carries its present sequence number (`Sent`);
  a retry takes a new socket, and so leaves all older copies behind. `SimpleInv`: a
  worker of the simple queue is in the list, or has one message on its way, or works
  (`Alone`). `ListInOrder` is inductive by itself because what is appended has the
  largest expiry; `ReadyInOrder`, `TailInOrder` and `PurgeInOrder` follow the list
  through the code.
* **PatternsProofs**: `RangeEnds`, `ReplicasRight` and `ValuesForward` about Clone, for any
  clients, keys, queue and number of values of a byte. `RangeEnds` is about the codec alone:
  `WireOrder` and `WireStable` show that it can be trusted below Base^3, by the three
  digits of such a number (`Digits`, `Decoded`), `WireBreaks` that Base^3 arrives as a
  smaller number. The other two hold as long as the sequence is in that
  range: `CloneGuarded` is `CloneInv` under `InRange`, and a step never leads back into
  the range (`SequenceGrows`). `CloneInv` says for the server
  that the manager's map is that of the updates before the pipe (`Server`), for the
  subscription that the queue is in order and newer than all that was read (`Queued`),
  and for the client what it has while it starts, while it loads a snapshot up to some
  update u, and afterwards (`Replica`); the snapshot and the updates that overlap it are
  reconciled in `ReadSnapshotStep` and `ReadUpdateStep`. `NeverBack` is an action
  property and follows from the same invariant. `OneOrder` about ChatServer: only the
  holder of the mutex is in a broadcast, which is the latest (`Exclusion`), and nobody
  has printed a later one (`PrintedBound`). The theorems of `PirateProofs` are restated
  for the instance in `Patterns`.

* **MdpProofs**: `TypeCorrect`, `TheListsAgree`, `NothingIdles`, `OneRequest`,
  `RepliesMatchRequests`, `RequestsConserved` and `RepliesOnce`, for any workers,
  clients, services, retries and bounds, with crashes, restarts and any delay. None of the
  properties is inductive; they follow together from `MdpInv`. The proof sees the system
  as a flow, a function from `Places` to queues of messages, and every statement about
  requests as: things of the kind T are `Nowhere` in the flow, or in `One` place at most.
  * `Base` is about processes, connections and workers. `Rest` has the types and ties
    sockets to positions in the programs. `Sound` is `ListsAgree` and `NoIdleBacklog` of
    any broker record. `Seen` says what the connections carry: messages of their kind
    (`Kinds`), nothing for sockets that are gone or not yet made (`Linked`), and, for a
    worker, one job at most, none while it waits, and READY only as its first message,
    while the broker does not know it (`Work`). Without the last part a second READY
    could put a worker into the lists twice.
  * `SyncAt`: the copies of what a client's open socket has sent are in one place at most,
    and each fits: it is for the service of the present call, has its body, and a worker
    that holds one is registered for that service or not at all (`Misfits` are nowhere).
    That is what the answer's service depends on, which the broker takes from the
    worker's registration and not from the request. `AsyncAt` says the same of each
    request that is still `Due`, and `Unmade` that nothing belongs to later sockets,
    so that a retry, which takes a new one, starts from nothing.
  * The functions of `mdbroker.c` are treated first, for any broker record
    (`DeleteLists`, `PurgeFacts`, `DispatchFacts`, `WaitingFacts`): the loops by
    `LoopExists` and `LoopKeeps`. `DispatchFacts` shows that one round of the loop of
    `s_service_dispatch` empties the queue or the list, since a request or a worker is
    added only where the other list is empty.
  * `Tame` and `Loyal` sets of messages are those that a request enters, or leaves, only
    where the protocol passes it on in another form; copies are both, misfits are tame.
    `RecvFacts` shows that whatever the broker does with a message, a tame set gains
    nothing, and a loyal one loses nothing unless something failed (`Moved`). The steps of
    workers (`Delivers`) and clients (`Spares`) are reduced to the same, and `InvDelivers`
    and `InvSpares` carry the clients' parts of the invariant over.
  * `JobsFound` and `CopiesFound` turn the flow back into the counts that the runs check.

  Before it was proved, the invariant was checked by TLC on the three Majordomo
  configurations, with its unbounded quantifiers (over bodies and kinds) replaced by
  finite ones.

tlapm 1.4.5 tells its SMT solver that every value has a length, not just every sequence,
which is harmless for most obligations and wrong for a function whose domain is not an
interval from 1. The leaves are cut so that none depends on it: all of them are also
proved when those two axioms are restricted to sequences.

Only model-checked:

* all liveness properties (`EveryTaskRuns`, `LineIsSent`, `ArrivalIsRead`,
  `ArrivalsRead`, `ExchangeGoesOn`, `WorkerReturns`, `WorkerComesBack`, `BacklogDrains`,
  `ClientReturns`, `ShutdownCompletes`), since fairness is out of the proof system's
  reach; `LtEt` and `EpollPair` have no others;
* `TreeShape`, `TreeRefines` and `BiTreeRefines`: the trees are recursive operators,
  which the prover does not handle, and their proofs are inductions over data.

## 7. Not modelled

* The asynchronous server: each worker thread holds one request, and queues and
  routing are those of `zmq_proxy`.
* The bufferevent servers, whose state is libevent's, and the demonstrations of
  third-party libraries, which have none.
* The data programs of `app/`: they read text, fill the hash table and print. Their
  line loops end only at a newline, so that a last line without one has no defined
  outcome. `hashpjw` is one of the hash functions that `h` stands for; that a table is
  used with the other interface than the one it was made with is outside the model.
* issort and the string helpers, which are sequential loops over their argument.
* In the modelled parts: a dead worker that `mmi.service` goes on counting, the
  AvlNode that is lost when the second malloc of an insertion fails, a snapshot that
  exceeds its queue, connections that wait in the backlog of the edge-triggered
  listener of `diff_LT_ET.c`, chat clients that miss messages after another has left, a
  chat client for whom the table has no entry, which is written behind it, replicas of
  `clonecli2.c` beyond update 2^24 - 1.
  These happen in the code, and nothing in the repository says that they should not.

Logging, printing and the contents of messages are abstracted everywhere.
