------------------------- MODULE EpollOneshotProofs -------------------------
(***************************************************************************)
(* TLAPS proofs about test_epolloneshot.c, for any connections and         *)
(* threads: no two threads have the same connection.  The invariant also   *)
(* says why, and it is not only EPOLLONESHOT on the connection: the        *)
(* listener is one-shot too, and never armed again, so that one connection *)
(* is all there is.                                                        *)
(***************************************************************************)
EXTENDS EpollOneshot, FiniteSetTheorems, SequenceTheorems, TLAPS

-----------------------------------------------------------------------------
(* test_epolloneshot.c *)

\* Who has the one connection that is accepted: nobody, because epoll may
\* report it; main, which has been told of it; a thread that has yet to read
\* its argument; a thread that reads it; or nobody, because it is closed.
Quiet == \A t \in Threads : pc[t] = "none"

Alone(t) == \A u \in Threads : u # t => pc[u] = "none"

Watched(c) == conn[c] = "open" /\ armed[c] /\ events = <<>> /\ Quiet

Announced(c) == conn[c] = "open" /\ ~armed[c] /\ events = <<c>> /\ Quiet

Handed(c, t) ==
    /\ conn[c] = "open" /\ ~armed[c] /\ events = <<>>
    /\ pc[t] = "started" /\ fds = c /\ Alone(t)

Read(c, t) ==
    /\ conn[c] = "open" /\ ~armed[c] /\ events = <<>>
    /\ pc[t] \in {"recv", "reset"} /\ sockfd[t] = c /\ Alone(t)

Closed(c) == conn[c] = "closed" /\ ~armed[c] /\ events = <<>> /\ Quiet

Fresh(c) == conn[c] \in {"none", "queued"} /\ ~armed[c]

\* The listener, registered one-shot, waits for the first connection.
Listening ==
    /\ armed[listenfd] /\ oneshot[listenfd] /\ events = <<>> /\ Quiet
    /\ \A c \in Conns : Fresh(c)

\* It has been reported.
Arriving ==
    /\ ~armed[listenfd] /\ events = <<listenfd>> /\ Quiet
    /\ \A c \in Conns : Fresh(c)

\* c has been accepted, and no other connection ever will be.
Serving(c) ==
    /\ ~armed[listenfd] /\ oneshot[c]
    /\ \A d \in Conns : d # c => Fresh(d)
    /\ \/ Watched(c)
       \/ Announced(c)
       \/ \E t \in Threads : Handed(c, t)
       \/ \E t \in Threads : Read(c, t)
       \/ Closed(c)

\* What is left of the types, and a thread has a socket once it has read its
\* argument.
Counters ==
    /\ sent \in [Conns -> 0..MaxData]
    /\ eof \in [Conns -> BOOLEAN]
    /\ oneshot \in [Fds -> BOOLEAN]
    /\ registered \in [Fds -> BOOLEAN]
    /\ fds \in Conns \cup {None}
    /\ \A c \in Conns : data[c] <= sent[c]
    /\ \A t \in Threads : pc[t] \in {"none", "started"} <=> sockfd[t] = None

\* How far the server has come.
Phase == Listening \/ Arriving \/ \E c \in Conns : Serving(c)

OneshotInv == TypeOK /\ Counters /\ Phase

\* The only order in which epoll_wait can return one descriptor.
LEMMA SingletonSeqs ==
    ASSUME NEW x, NEW s \in SetToSeqs({x})
    PROVE  s = <<x>>
<1>1. Cardinality({x}) = 1
  BY FS_Singleton
<1>2. s \in [1..1 -> {x}]
  BY <1>1 DEF SetToSeqs
<1>3. 1..1 = {1}
  OBVIOUS
<1> QED
  BY <1>2, <1>3

\* What the clients do, and what a thread does to the bytes of its socket,
\* leaves the phase as it is.
LEMMA PhaseKept ==
    ASSUME OneshotInv,
           UNCHANGED <<armed, oneshot, events, fds, sockfd>>,
           pc' \in [Threads -> {"none", "started", "recv", "reset"}],
           \A t \in Threads : pc'[t] = pc[t]
                                \/ (pc[t] \in {"recv", "reset"} /\ pc'[t] \in {"recv", "reset"}),
           \A c \in Conns : \/ conn'[c] = conn[c]
                            \/ conn[c] = "none" /\ conn'[c] = "queued"
    PROVE  Phase'
<1>1. CASE Listening
  BY <1>1 DEF Phase, Listening, Quiet, Fresh
<1>2. CASE Arriving
  BY <1>2 DEF Phase, Arriving, Quiet, Fresh
<1>3. ASSUME NEW c \in Conns, Serving(c) PROVE Phase'
  <2>0. conn[c] # "none" => conn'[c] = conn[c]
    OBVIOUS
  <2>1. \A d \in Conns : d # c => Fresh(d)'
    BY <1>3 DEF Serving, Fresh
  <2>2. CASE Watched(c)
    <3>1. Watched(c)'
      BY <2>0, <2>2 DEF Watched, Quiet
    <3> QED
      BY <1>3, <2>1, <3>1 DEF Phase, Serving
  <2>3. CASE Announced(c)
    <3>1. Announced(c)'
      BY <2>0, <2>3 DEF Announced, Quiet
    <3> QED
      BY <1>3, <2>1, <3>1 DEF Phase, Serving
  <2>4. ASSUME NEW t \in Threads, Handed(c, t) PROVE Phase'
    <3>1. Handed(c, t)'
      BY <2>0, <2>4 DEF Handed, Alone
    <3> QED
      BY <1>3, <2>1, <3>1 DEF Phase, Serving
  <2>5. ASSUME NEW t \in Threads, Read(c, t) PROVE Phase'
    <3>1. Read(c, t)'
      BY <2>0, <2>5 DEF Read, Alone
    <3> QED
      BY <1>3, <2>1, <3>1 DEF Phase, Serving
  <2>6. CASE Closed(c)
    <3>1. Closed(c)'
      BY <2>0, <2>6 DEF Closed, Quiet
    <3> QED
      BY <1>3, <2>1, <3>1 DEF Phase, Serving
  <2> QED
    BY <1>3, <2>2, <2>3, <2>4, <2>5, <2>6 DEF Serving
<1> QED
  BY <1>1, <1>2, <1>3 DEF OneshotInv, Phase

\* A thread that has read its argument has the accepted connection, and is
\* the only thread.
LEMMA ReaderHasConn ==
    ASSUME OneshotInv, NEW t \in Threads, pc[t] \in {"recv", "reset"}
    PROVE  \E c \in Conns : Serving(c) /\ Read(c, t)
<1>1. ~Listening /\ ~Arriving
  BY DEF Listening, Arriving, Quiet
<1>2. PICK c \in Conns : Serving(c)
  BY <1>1 DEF OneshotInv, Phase
<1>3. ~Watched(c) /\ ~Announced(c) /\ ~Closed(c)
  BY DEF Watched, Announced, Closed, Quiet
<1>4. PICK u \in Threads : Handed(c, u) \/ Read(c, u)
  BY <1>2, <1>3 DEF Serving
<1>5. u = t
  BY <1>4 DEF Handed, Read, Alone
<1> QED
  BY <1>2, <1>4, <1>5 DEF Handed

\* So has one that was started.
LEMMA StarterHasConn ==
    ASSUME OneshotInv, NEW t \in Threads, pc[t] = "started"
    PROVE  \E c \in Conns : Serving(c) /\ Handed(c, t)
<1>1. ~Listening /\ ~Arriving
  BY DEF Listening, Arriving, Quiet
<1>2. PICK c \in Conns : Serving(c)
  BY <1>1 DEF OneshotInv, Phase
<1>3. ~Watched(c) /\ ~Announced(c) /\ ~Closed(c)
  BY DEF Watched, Announced, Closed, Quiet
<1>4. PICK u \in Threads : Handed(c, u) \/ Read(c, u)
  BY <1>2, <1>3 DEF Serving
<1>5. u = t
  BY <1>4 DEF Handed, Read, Alone
<1> QED
  BY <1>2, <1>4, <1>5 DEF Read

\* Before the first client nothing is accepted.
LEMMA OneshotInit == Init => OneshotInv
<1> SUFFICES ASSUME Init PROVE OneshotInv
  OBVIOUS
<1>1. TypeOK /\ Counters
  BY ConstantsAssumption DEF Init, TypeOK, Counters, Fds
<1>2. Listening
  <2>1. armed[listenfd] /\ oneshot[listenfd]
    <3>1. false # 0
      BY DEF false
    <3> QED
      BY <3>1 DEF Init, Fds
  <2>2. \A c \in Conns : Fresh(c)
    BY ConstantsAssumption DEF Init, Fresh, Fds
  <2> QED
    BY <2>1, <2>2 DEF Init, Listening, Quiet
<1> QED
  BY <1>1, <1>2 DEF OneshotInv, Phase

\* Every step of clients, epoll, main and threads preserves the invariant.
LEMMA OneshotNext == OneshotInv /\ [Next]_vars => OneshotInv'
<1> SUFFICES ASSUME OneshotInv, [Next]_vars PROVE OneshotInv'
  OBVIOUS
<1> USE ConstantsAssumption
<1>t. TypeOK /\ Counters /\ Phase
  BY DEF OneshotInv
<1>1. ASSUME NEW c \in Conns, Connect(c) PROVE OneshotInv'
  <2>1. TypeOK' /\ Counters'
    BY <1>1, <1>t DEF Connect, Arrived, TypeOK, Counters, threadVars, Fds
  <2>2. Phase'
    BY <1>1, <1>t, PhaseKept DEF Connect, TypeOK, threadVars
  <2> QED
    BY <2>1, <2>2 DEF OneshotInv
<1>2. ASSUME NEW c \in Conns, ClientSends(c) PROVE OneshotInv'
  <2>1. TypeOK' /\ Counters'
    BY <1>2, <1>t DEF ClientSends, Arrived, TypeOK, Counters, threadVars, Fds
  <2>2. Phase'
    BY <1>2, <1>t, PhaseKept DEF ClientSends, TypeOK, threadVars
  <2> QED
    BY <2>1, <2>2 DEF OneshotInv
<1>3. ASSUME NEW c \in Conns, ClientCloses(c) PROVE OneshotInv'
  <2>1. TypeOK' /\ Counters'
    BY <1>3, <1>t DEF ClientCloses, Arrived, TypeOK, Counters, threadVars, Fds
  <2>2. Phase'
    BY <1>3, <1>t, PhaseKept DEF ClientCloses, TypeOK, threadVars
  <2> QED
    BY <2>1, <2>2 DEF OneshotInv
<1>4. CASE EpollWait
  <2> DEFINE ready == {fd \in Fds : edge[fd] /\ armed[fd] /\ Readable(fd)}
  <2>1. /\ events = <<>> /\ ready # {} /\ events' \in SetToSeqs(ready)
        /\ edge' = [fd \in Fds |-> edge[fd] /\ fd \notin ready]
        /\ armed' = [fd \in Fds |-> armed[fd] /\ ~(fd \in ready /\ oneshot[fd])]
        /\ UNCHANGED <<clientVars, registered, oneshot, fds, threadVars>>
    BY <1>4 DEF EpollWait
  <2>2. ready \subseteq Fds /\ \A fd \in ready : armed[fd]
    OBVIOUS
  <2> HIDE DEF ready
  <2>3. ASSUME NEW x \in Fds, ready = {x}
        PROVE  TypeOK' /\ Counters' /\ events' = <<x>>
    <3>1. events' = <<x>>
      BY <2>1, <2>3, SingletonSeqs
    <3> QED
      BY <2>1, <3>1, <1>t DEF TypeOK, Counters, clientVars, threadVars
  <2>4. CASE Listening
    <3>1. ready = {listenfd}
      BY <2>1, <2>2, <2>4 DEF Listening, Fresh, Fds
    <3>2. Arriving'
      BY <2>1, <2>3, <2>4, <3>1, <1>t
      DEF Listening, Arriving, Quiet, Fresh, Fds, clientVars, threadVars, TypeOK
    <3> QED
      BY <2>3, <3>1, <3>2 DEF OneshotInv, Phase, Fds
  <2>5. CASE Arriving
    BY <2>1, <2>5 DEF Arriving
  <2>6. ASSUME NEW c \in Conns, Serving(c) PROVE OneshotInv'
    <3>1. armed[c]
      BY <2>1, <2>2, <2>6 DEF Serving, Fresh, Fds
    <3>2. Watched(c)
      BY <3>1, <2>6 DEF Serving, Announced, Handed, Read, Closed
    <3>3. ready = {c}
      BY <2>1, <2>2, <2>6 DEF Serving, Fresh, Fds
    <3>4. Announced(c)'
      BY <2>1, <2>3, <2>6, <3>2, <3>3
      DEF Watched, Announced, Serving, Quiet, clientVars, threadVars, Fds
    <3>5. Serving(c)'
      BY <2>1, <2>6, <3>4
      DEF Serving, Fresh, clientVars, threadVars, Fds
    <3> QED
      BY <2>3, <3>3, <3>5 DEF OneshotInv, Phase, Fds
  <2> QED
    BY <1>t, <2>4, <2>5, <2>6 DEF Phase
<1>5. CASE Accept
  <2>1. CASE Listening
    BY <1>5, <2>1 DEF Accept, Listening
  <2>2. CASE Arriving
    <3>1. PICK c \in Queued :
             /\ conn' = [conn EXCEPT ![c] = "open"]
             /\ registered' = [registered EXCEPT ![c] = TRUE]
             /\ armed' = [armed EXCEPT ![c] = TRUE]
             /\ oneshot' = [oneshot EXCEPT ![c] = true # 0]
             /\ edge' = [edge EXCEPT ![c] = Readable(c)]
      BY <1>5 DEF Accept
    <3>2. c \in Conns /\ Readable(c) \in BOOLEAN
      BY <3>1, <1>t DEF Queued, Readable, TypeOK, Counters
    <3>3. events' = <<>> /\ UNCHANGED <<data, sent, eof, fds, threadVars>>
      <4>1. Tail(<<listenfd>>) = <<>>
        OBVIOUS
      <4> QED
        BY <1>5, <2>2, <4>1 DEF Accept, Arriving
    <3>4. TypeOK' /\ Counters'
      BY <1>t, <3>1, <3>2, <3>3 DEF TypeOK, Counters, threadVars, Fds, true
    <3>5. Watched(c)'
      BY <1>t, <2>2, <3>1, <3>2, <3>3
      DEF Watched, Arriving, Quiet, TypeOK, threadVars, Fds
    <3>6. ~armed'[listenfd] /\ \A d \in Conns : d # c => Fresh(d)'
      BY <1>t, <2>2, <3>1, <3>2 DEF Arriving, Fresh, TypeOK, Fds
    <3>7. oneshot'[c]
      <4>1. true # 0
        BY DEF true
      <4> QED
        BY <1>t, <3>1, <3>2, <4>1 DEF Counters, Fds
    <3>8. Serving(c)'
      BY <3>5, <3>6, <3>7 DEF Serving
    <3> QED
      BY <3>2, <3>4, <3>8 DEF OneshotInv, Phase
  <2>3. ASSUME NEW c \in Conns, Serving(c) PROVE OneshotInv'
    BY <1>5, <2>3 DEF Accept, Serving, Watched, Announced, Handed, Read, Closed
  <2> QED
    BY <1>t, <2>1, <2>2, <2>3 DEF Phase
<1>6. CASE StartThread
  <2>1. ~Listening /\ ~Arriving
    BY <1>6 DEF StartThread, Listening, Arriving
  <2>2. PICK c \in Conns : Serving(c)
    BY <1>t, <2>1 DEF Phase
  <2>3. Announced(c)
    BY <1>6, <2>2 DEF StartThread, Serving, Watched, Handed, Read, Closed
  <2>4. PICK t \in Threads : pc[t] = "none" /\ pc' = [pc EXCEPT ![t] = "started"]
    BY <1>6 DEF StartThread
  <2>5. events' = <<>> /\ fds' = c /\ UNCHANGED <<clientVars, epollVars, sockfd>>
    BY <1>6, <2>3 DEF StartThread, Announced
  <2>6. TypeOK' /\ Counters'
    BY <1>t, <2>4, <2>5 DEF TypeOK, Counters, clientVars, epollVars
  <2>7. Handed(c, t)'
    BY <1>t, <2>3, <2>4, <2>5
    DEF TypeOK, Announced, Handed, Quiet, Alone, clientVars, epollVars
  <2>8. Serving(c)'
    BY <2>2, <2>5, <2>7 DEF Serving, Fresh, clientVars, epollVars
  <2> QED
    BY <2>6, <2>8 DEF OneshotInv, Phase
<1>7. ASSUME NEW t \in Threads, ReadArgument(t) PROVE OneshotInv'
  <2>1. PICK c \in Conns : Serving(c) /\ Handed(c, t)
    BY <1>7, StarterHasConn DEF ReadArgument
  <2>2. fds = c
    BY <2>1 DEF Handed
  <2>3. TypeOK' /\ Counters'
    BY <1>7, <1>t, <2>2 DEF ReadArgument, TypeOK, Counters, clientVars, epollVars
  <2>4. Read(c, t)'
    BY <1>7, <1>t, <2>1
    DEF ReadArgument, TypeOK, Handed, Read, Alone, clientVars, epollVars
  <2>5. Serving(c)'
    BY <1>7, <2>1, <2>4 DEF ReadArgument, Serving, Fresh, clientVars, epollVars
  <2> QED
    BY <2>3, <2>5 DEF OneshotInv, Phase
<1>8. ASSUME NEW t \in Threads, Recv(t) PROVE OneshotInv'
  <2>1. PICK c \in Conns : Serving(c) /\ Read(c, t)
    BY <1>8, ReaderHasConn DEF Recv
  <2>2. PICK k \in 1..data[c] : data' = [data EXCEPT ![c] = @ - k]
    BY <1>8, <2>1 DEF Recv, Read
  <2>3. UNCHANGED <<conn, sent, eof, epollVars, events, fds, threadVars>>
    BY <1>8 DEF Recv
  <2>4. data' \in [Conns -> 0..MaxData] /\ \A d \in Conns : data'[d] <= data[d]
    BY <1>t, <2>1, <2>2 DEF TypeOK
  <2>5. TypeOK' /\ Counters'
    BY <1>t, <2>3, <2>4 DEF TypeOK, Counters, epollVars, threadVars
  <2>6. Phase'
    BY <1>t, <2>3, PhaseKept DEF TypeOK, epollVars, threadVars
  <2> QED
    BY <2>5, <2>6 DEF OneshotInv
<1>9. ASSUME NEW t \in Threads, RecvEof(t) PROVE OneshotInv'
  <2>1. PICK c \in Conns : Serving(c) /\ Read(c, t)
    BY <1>9, ReaderHasConn DEF RecvEof
  <2>2. sockfd[t] = c /\ events = <<>> /\ Alone(t)
    BY <2>1 DEF Read
  <2>3. TypeOK' /\ Counters'
    BY <1>9, <1>t, <2>2 DEF RecvEof, Ends, TypeOK, Counters, Fds
  <2>4. Closed(c)'
    BY <1>9, <1>t, <2>2 DEF RecvEof, Ends, TypeOK, Closed, Quiet, Alone, Fds
  <2>5. Serving(c)'
    BY <1>9, <1>t, <2>1, <2>2, <2>4 DEF RecvEof, Serving, Fresh, TypeOK, Fds
  <2> QED
    BY <2>3, <2>5 DEF OneshotInv, Phase
<1>10. ASSUME NEW t \in Threads, RecvAgain(t) PROVE OneshotInv'
  <2>1. TypeOK' /\ Counters'
    BY <1>10, <1>t DEF RecvAgain, TypeOK, Counters, clientVars, epollVars
  <2>2. Phase'
    BY <1>10, <1>t, PhaseKept DEF RecvAgain, TypeOK, clientVars, epollVars
  <2> QED
    BY <2>1, <2>2 DEF OneshotInv
<1>11. ASSUME NEW t \in Threads, ResetOneshot(t) PROVE OneshotInv'
  <2>1. PICK c \in Conns : Serving(c) /\ Read(c, t)
    BY <1>11, ReaderHasConn DEF ResetOneshot
  <2>2. sockfd[t] = c /\ events = <<>> /\ Alone(t) /\ Readable(c) \in BOOLEAN
    BY <2>1, <1>t DEF Read, Readable, TypeOK, Counters
  <2>3. TypeOK' /\ Counters'
    BY <1>11, <1>t, <2>2
    DEF ResetOneshot, Ends, TypeOK, Counters, Fds, clientVars
  <2>4. Watched(c)'
    BY <1>11, <1>t, <2>1, <2>2
    DEF ResetOneshot, Ends, TypeOK, Watched, Read, Quiet, Alone, Fds, clientVars
  <2>5. Serving(c)'
    BY <1>11, <1>t, <2>1, <2>2, <2>4
    DEF ResetOneshot, Serving, Fresh, TypeOK, Fds, clientVars
  <2> QED
    BY <2>3, <2>5 DEF OneshotInv, Phase
<1>12. CASE UNCHANGED vars
  <2>1. TypeOK' /\ Counters'
    BY <1>12, <1>t DEF vars, TypeOK, Counters
  <2>2. Phase'
    BY <1>12, <1>t, PhaseKept DEF vars, TypeOK
  <2> QED
    BY <2>1, <2>2 DEF OneshotInv
<1> QED
  BY <1>1, <1>2, <1>3, <1>4, <1>5, <1>6, <1>7, <1>8, <1>9, <1>10, <1>11, <1>12
  DEF Next, Main, Worker

\* The invariant of test_epolloneshot.c.
THEOREM OneshotInvariance == Spec => []OneshotInv
<1> QED
  BY OneshotInit, OneshotNext, PTL DEF Spec

\* recv never takes more than has arrived, and a thread's argument is a
\* connection when it reads it.
THEOREM TypeCorrect == Spec => []TypeOK
<1>1. OneshotInv => TypeOK
  BY DEF OneshotInv
<1> QED
  BY <1>1, OneshotInvariance, PTL

\* No two threads of test_epolloneshot.c have the same socket, and none has
\* one that epoll may report, that main is to serve or that is closed.
THEOREM SocketExclusive == Spec => []OneThreadPerSocket
<1>1. ASSUME OneshotInv PROVE OneThreadPerSocket
  <2> SUFFICES ASSUME NEW t \in Threads, sockfd[t] # None
               PROVE  /\ conn[sockfd[t]] = "open"
                      /\ ~armed[sockfd[t]]
                      /\ ~Contains(events, sockfd[t])
                      /\ \A u \in Threads : sockfd[u] = sockfd[t] => u = t
    BY DEF OneThreadPerSocket
  <2>1. pc[t] \in {"recv", "reset"}
    BY <1>1 DEF OneshotInv, TypeOK, Counters
  <2>2. PICK c \in Conns : Read(c, t)
    BY <1>1, <2>1, ReaderHasConn
  <2>3. \A u \in Threads : u # t => sockfd[u] = None
    BY <1>1, <2>2 DEF Read, Alone, OneshotInv, Counters
  <2> QED
    BY <2>2, <2>3 DEF Read, Contains
<1> QED
  BY <1>1, OneshotInvariance, PTL

\* One connection is accepted in the life of the server, although main calls
\* accept whenever the listener is reported: addfd(epollfd, listenfd, false)
\* makes it one-shot, because false is 2, and nothing arms it again.
AcceptsOnce ==
    \A c, d \in Conns :
        conn[c] \in {"open", "closed"} /\ conn[d] \in {"open", "closed"} => c = d

\* The second client of test_epolloneshot.c is never accepted.
THEOREM OnlyFirstAccepted == Spec => []AcceptsOnce
<1>1. OneshotInv => AcceptsOnce
  BY DEF OneshotInv, Phase, AcceptsOnce, Listening, Arriving, Serving, Fresh
<1> QED
  BY <1>1, OneshotInvariance, PTL
=============================================================================
