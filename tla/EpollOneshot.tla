---------------------------- MODULE EpollOneshot ----------------------------
(***************************************************************************)
(* lib/epoll/test_epolloneshot.c: one thread waits in epoll_wait, accepts  *)
(* connections and starts a thread for every readable socket.  Sockets are *)
(* registered EPOLLIN | EPOLLET | EPOLLONESHOT, and the thread that has    *)
(* drained a socket arms it again, so that no two threads read it.         *)
(*                                                                         *)
(* The kernel is external: armed[fd] says that fd can be reported, edge[fd]*)
(* that it is on epoll's ready list.  Reporting an edge takes it off the   *)
(* list, and disarms the descriptor if it is EPOLLONESHOT.                 *)
(***************************************************************************)
EXTENDS Integers, Sequences, SequencesExt, FiniteSets

CONSTANTS
    Conns,        \* connections that clients make
    Threads,      \* bound: threads that exist at one time
    MaxData,      \* bound: bytes a client sends
    listenfd,
    None

ASSUME ConstantsAssumption ==
    /\ MaxData \in Nat
    /\ listenfd \notin Conns
    /\ None \notin Conns

\* typedef enum {true=1,false=2} bool
true == 1
false == 2

Fds == Conns \cup {listenfd}

VARIABLES
    conn,       \* "none", "queued", "open" or "closed", for each connection
    data,       \* unread bytes of each connection
    sent,       \* bytes its client has sent so far
    eof,        \* its client has closed
    registered, armed, oneshot, edge,   \* epoll's view of each descriptor
    events,     \* descriptors that epoll_wait returned and main has to serve
    fds,        \* fds_for_new_worker.sockfd, on main's stack
    pc,         \* each thread: "none", "started", "recv" or "reset"
    sockfd      \* the descriptor each thread has read from its argument

vars == <<conn, data, sent, eof, registered, armed, oneshot, edge, events,
          fds, pc, sockfd>>

epollVars == <<registered, armed, oneshot, edge>>
clientVars == <<conn, data, sent, eof>>
threadVars == <<pc, sockfd>>

Queued == {c \in Conns : conn[c] = "queued"}

\* Whether a read of the descriptor would not block.
Readable(fd) ==
    IF fd = listenfd THEN Queued # {} ELSE data[fd] > 0 \/ eof[fd]

\* addfd before any client: every non-zero flag means EPOLLONESHOT.
Init ==
    /\ conn = [c \in Conns |-> "none"]
    /\ data = [c \in Conns |-> 0]
    /\ sent = [c \in Conns |-> 0]
    /\ eof = [c \in Conns |-> FALSE]
    /\ registered = [fd \in Fds |-> fd = listenfd]
    /\ armed = [fd \in Fds |-> fd = listenfd]
    /\ oneshot = [fd \in Fds |-> fd = listenfd /\ false # 0]
    /\ edge = [fd \in Fds |-> FALSE]
    /\ events = <<>>
    /\ fds = None
    /\ pc = [t \in Threads |-> "none"]
    /\ sockfd = [t \in Threads |-> None]

-----------------------------------------------------------------------------
(* Clients and the kernel *)

\* Something arrived for fd: an armed descriptor goes on the ready list.
Arrived(fd) == edge' = [edge EXCEPT ![fd] = @ \/ (registered[fd] /\ armed[fd])]

Connect(c) ==
    /\ conn[c] = "none"
    /\ conn' = [conn EXCEPT ![c] = "queued"]
    /\ Arrived(listenfd)
    /\ UNCHANGED <<data, sent, eof, registered, armed, oneshot, events, fds,
                   threadVars>>

ClientSends(c) ==
    /\ conn[c] \in {"queued", "open"}
    /\ ~eof[c]
    /\ sent[c] < MaxData
    /\ data' = [data EXCEPT ![c] = @ + 1]
    /\ sent' = [sent EXCEPT ![c] = @ + 1]
    /\ Arrived(c)
    /\ UNCHANGED <<conn, eof, registered, armed, oneshot, events, fds,
                   threadVars>>

ClientCloses(c) ==
    /\ conn[c] \in {"queued", "open"}
    /\ ~eof[c]
    /\ eof' = [eof EXCEPT ![c] = TRUE]
    /\ Arrived(c)
    /\ UNCHANGED <<conn, data, sent, registered, armed, oneshot, events, fds,
                   threadVars>>

-----------------------------------------------------------------------------
(* main *)

\* epoll_wait returns every descriptor on the ready list.
EpollWait ==
    /\ events = <<>>
    /\ LET ready == {fd \in Fds : edge[fd] /\ armed[fd] /\ Readable(fd)}
       IN  /\ ready # {}
           /\ \E s \in SetToSeqs(ready) : events' = s
           /\ edge' = [fd \in Fds |-> edge[fd] /\ fd \notin ready]
           /\ armed' = [fd \in Fds |-> armed[fd] /\ ~(fd \in ready /\ oneshot[fd])]
    /\ UNCHANGED <<clientVars, registered, oneshot, fds, threadVars>>

\* Mutant of Accept: the connection is not registered EPOLLONESHOT.
AcceptWithoutOneshot ==
    /\ events # <<>>
    /\ Head(events) = listenfd
    /\ events' = Tail(events)
    /\ \E c \in Queued :
          /\ conn' = [conn EXCEPT ![c] = "open"]
          /\ registered' = [registered EXCEPT ![c] = TRUE]
          /\ armed' = [armed EXCEPT ![c] = TRUE]
          /\ edge' = [edge EXCEPT ![c] = Readable(c)]
    /\ UNCHANGED <<data, sent, eof, oneshot, fds, threadVars>>

\* One connection is accepted and registered with addfd(.., true).
Accept ==
    /\ events # <<>>
    /\ Head(events) = listenfd
    /\ events' = Tail(events)
    /\ \E c \in Queued :
          /\ conn' = [conn EXCEPT ![c] = "open"]
          /\ registered' = [registered EXCEPT ![c] = TRUE]
          /\ armed' = [armed EXCEPT ![c] = TRUE]
          /\ oneshot' = [oneshot EXCEPT ![c] = true # 0]
          /\ edge' = [edge EXCEPT ![c] = Readable(c)]
    /\ UNCHANGED <<data, sent, eof, fds, threadVars>>

\* A thread is created for a readable connection; its argument points to a
\* variable of main that the next round overwrites.
StartThread ==
    /\ events # <<>>
    /\ Head(events) # listenfd
    /\ events' = Tail(events)
    /\ fds' = Head(events)
    /\ \E t \in Threads :
          /\ pc[t] = "none"
          /\ pc' = [pc EXCEPT ![t] = "started"]
    /\ UNCHANGED <<clientVars, epollVars, sockfd>>

-----------------------------------------------------------------------------
(* worker *)

ReadArgument(t) ==
    /\ pc[t] = "started"
    /\ pc' = [pc EXCEPT ![t] = "recv"]
    /\ sockfd' = [sockfd EXCEPT ![t] = fds]
    /\ UNCHANGED <<clientVars, epollVars, events, fds>>

\* recv returns some bytes.
Recv(t) ==
    /\ pc[t] = "recv"
    /\ \E k \in 1..data[sockfd[t]] :
          data' = [data EXCEPT ![sockfd[t]] = @ - k]
    /\ UNCHANGED <<conn, sent, eof, epollVars, events, fds, threadVars>>

Ends(t) ==
    /\ pc' = [pc EXCEPT ![t] = "none"]
    /\ sockfd' = [sockfd EXCEPT ![t] = None]

\* recv returns 0: close, which also removes the descriptor from epoll.
RecvEof(t) ==
    /\ pc[t] = "recv"
    /\ data[sockfd[t]] = 0
    /\ eof[sockfd[t]]
    /\ conn' = [conn EXCEPT ![sockfd[t]] = "closed"]
    /\ registered' = [registered EXCEPT ![sockfd[t]] = FALSE]
    /\ armed' = [armed EXCEPT ![sockfd[t]] = FALSE]
    /\ edge' = [edge EXCEPT ![sockfd[t]] = FALSE]
    /\ Ends(t)
    /\ UNCHANGED <<data, sent, eof, oneshot, events, fds>>

\* recv fails with EAGAIN.  More may arrive before reset_oneshot is called.
RecvAgain(t) ==
    /\ pc[t] = "recv"
    /\ data[sockfd[t]] = 0
    /\ ~eof[sockfd[t]]
    /\ pc' = [pc EXCEPT ![t] = "reset"]
    /\ UNCHANGED <<clientVars, epollVars, events, fds, sockfd>>

\* Mutant of ResetOneshot: the descriptor is armed, but what has arrived in
\* the meantime is not looked at, as if the old mask had stayed in force.
ResetMissesArrival(t) ==
    /\ pc[t] = "reset"
    /\ armed' = [armed EXCEPT ![sockfd[t]] = TRUE]
    /\ Ends(t)
    /\ UNCHANGED <<clientVars, registered, oneshot, edge, events, fds>>

\* reset_oneshot: EPOLL_CTL_MOD arms the descriptor and looks at its state.
ResetOneshot(t) ==
    /\ pc[t] = "reset"
    /\ armed' = [armed EXCEPT ![sockfd[t]] = TRUE]
    /\ edge' = [edge EXCEPT ![sockfd[t]] = Readable(sockfd[t])]
    /\ Ends(t)
    /\ UNCHANGED <<clientVars, registered, oneshot, events, fds>>

-----------------------------------------------------------------------------
Worker(t) ==
    ReadArgument(t) \/ Recv(t) \/ RecvEof(t) \/ RecvAgain(t) \/ ResetOneshot(t)

Main == EpollWait \/ Accept \/ StartThread

Next ==
    \/ \E c \in Conns : Connect(c) \/ ClientSends(c) \/ ClientCloses(c)
    \/ Main
    \/ \E t \in Threads : Worker(t)

Spec == Init /\ [][Next]_vars

\* main and the threads keep running.
Fairness == WF_vars(Main) /\ \A t \in Threads : WF_vars(Worker(t))

FairSpec == Spec /\ Fairness

-----------------------------------------------------------------------------
(* Properties *)

\* Descriptors, connections and threads are in known states; recv never takes
\* more than has arrived.
TypeOK ==
    /\ conn \in [Conns -> {"none", "queued", "open", "closed"}]
    /\ data \in [Conns -> 0..MaxData]
    /\ armed \in [Fds -> BOOLEAN]
    /\ edge \in [Fds -> BOOLEAN]
    /\ events \in Seq(Fds)
    /\ pc \in [Threads -> {"none", "started", "recv", "reset"}]
    /\ sockfd \in [Threads -> Conns \cup {None}]

\* What EPOLLONESHOT is used for: a connection is never in the hands of two
\* threads, nor of a thread while it is still armed, closed or announced to
\* main, so no two threads read it and none reads a descriptor that another
\* has closed.
OneThreadPerSocket ==
    \A t \in Threads :
        sockfd[t] # None =>
            /\ conn[sockfd[t]] = "open"
            /\ ~armed[sockfd[t]]
            /\ ~Contains(events, sockfd[t])
            /\ \A u \in Threads : sockfd[u] = sockfd[t] => u = t

\* Nothing that arrives on an accepted connection is left unread for ever,
\* also if it arrives between the recv that finds nothing and the
\* reset_oneshot that follows it.
ArrivalIsRead ==
    \A c \in Conns :
        (conn[c] = "open" /\ Readable(c)) ~> (~Readable(c) \/ conn[c] = "closed")

\* "no oneshot" (the comment above addfd for the listener): a report of the
\* listener does not disarm it.
ListenerStaysArmed == armed[listenfd]
=============================================================================
