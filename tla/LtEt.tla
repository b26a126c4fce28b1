-------------------------------- MODULE LtEt --------------------------------
(***************************************************************************)
(* lib/epoll/diff_LT_ET.c: one thread that reads its connections           *)
(* level-triggered (lt) or edge-triggered (et).  main calls lt and has the *)
(* call of et in a comment; the mode is chosen at the start.  The kernel   *)
(* is external: a descriptor registered edge-triggered is reported once    *)
(* for each arrival, one registered level-triggered as long as a read      *)
(* would not block.                                                        *)
(***************************************************************************)
EXTENDS Integers, FiniteSets

CONSTANTS
    Conns,
    listenfd,
    BUFFER_SIZE,    \* a recv takes at most one less
    MaxData         \* bound: what a client sends

VARIABLES
    mode,           \* "lt" or "et"
    state,          \* of each connection: "none", "backlog", "open", "closed"
    sent, unread,   \* of each: bytes sent, and bytes the server has not read
    eof,            \* connections whose client has closed
    edge,           \* descriptors with an event that was not reported yet
    events          \* what epoll_wait returned and the loop has not handled

vars == <<mode, state, sent, unread, eof, edge, events>>

Init ==
    /\ mode \in {"lt", "et"}
    /\ state = [c \in Conns |-> "none"]
    /\ sent = [c \in Conns |-> 0]
    /\ unread = [c \in Conns |-> 0]
    /\ eof = {}
    /\ edge = {}
    /\ events = {}

Readable(c) == unread[c] > 0 \/ c \in eof

-----------------------------------------------------------------------------
(* The clients *)

Connect(c) ==
    /\ state[c] = "none"
    /\ state' = [state EXCEPT ![c] = "backlog"]
    /\ edge' = edge \cup {listenfd}
    /\ UNCHANGED <<mode, sent, unread, eof, events>>

Send(c) ==
    /\ state[c] \in {"backlog", "open"} /\ c \notin eof
    /\ sent[c] < MaxData
    /\ sent' = [sent EXCEPT ![c] = @ + 1]
    /\ unread' = [unread EXCEPT ![c] = @ + 1]
    /\ edge' = edge \cup {c}
    /\ UNCHANGED <<mode, state, eof, events>>

Shutdown(c) ==
    /\ state[c] \in {"backlog", "open"} /\ c \notin eof
    /\ eof' = eof \cup {c}
    /\ edge' = edge \cup {c}
    /\ UNCHANGED <<mode, state, sent, unread, events>>

-----------------------------------------------------------------------------
(* The server *)

\* What epoll_wait reports: addfd registers the listening socket
\* edge-triggered, a connection as the mode says.
Ready ==
    (edge \cap {listenfd})
    \cup {c \in Conns : /\ state[c] = "open"
                        /\ IF mode = "et" THEN c \in edge ELSE Readable(c)}

epoll_wait ==
    /\ events = {}
    /\ Ready # {}
    /\ events' = Ready
    /\ edge' = edge \ Ready
    /\ UNCHANGED <<mode, state, sent, unread, eof>>

\* One connection is accepted for one event, and registered by addfd; what
\* has arrived on it before is reported then.
Accept ==
    /\ listenfd \in events
    /\ events' = events \ {listenfd}
    /\ \/ /\ \A c \in Conns : state[c] # "backlog"
          /\ UNCHANGED <<state, edge>>
       \/ \E c \in Conns :
             /\ state[c] = "backlog"
             /\ state' = [state EXCEPT ![c] = "open"]
             /\ edge' = IF Readable(c) THEN edge \cup {c} ELSE edge
    /\ UNCHANGED <<mode, sent, unread, eof>>

\* The recv of both modes takes what is there, up to the size of the buffer.
Recv(c) ==
    unread' = [unread EXCEPT ![c] =
                 IF @ > BUFFER_SIZE - 1 THEN @ - (BUFFER_SIZE - 1) ELSE 0]

\* lt reads once for each event and closes when nothing is to be read.
lt(c) ==
    /\ mode = "lt"
    /\ c \in events
    /\ events' = events \ {c}
    /\ IF unread[c] > 0 THEN Recv(c) /\ state' = state
       ELSE state' = [state EXCEPT ![c] = "closed"] /\ unread' = unread
    /\ UNCHANGED <<mode, sent, eof, edge>>

\* Mutant of et: one recv for each event, as in lt.
EtReadsOnce(c) ==
    /\ mode = "et"
    /\ c \in events
    /\ events' = events \ {c}
    /\ IF unread[c] > 0 THEN Recv(c) /\ state' = state
       ELSE /\ state' = IF c \in eof THEN [state EXCEPT ![c] = "closed"] ELSE state
            /\ unread' = unread
    /\ UNCHANGED <<mode, sent, eof, edge>>

\* et reads until recv would block; the client may send between two recvs.
\* At the end of the stream it closes and goes on to a recv that fails.
et(c) ==
    /\ mode = "et"
    /\ c \in events
    /\ \/ /\ unread[c] > 0
          /\ Recv(c)
          /\ UNCHANGED <<state, events>>
       \/ /\ unread[c] = 0
          /\ events' = events \ {c}
          /\ state' = IF c \in eof THEN [state EXCEPT ![c] = "closed"] ELSE state
          /\ UNCHANGED unread
    /\ UNCHANGED <<mode, sent, eof, edge>>

Server == epoll_wait \/ Accept \/ \E c \in Conns : lt(c) \/ et(c)

Next == Server \/ \E c \in Conns : Connect(c) \/ Send(c) \/ Shutdown(c)

Spec == Init /\ [][Next]_vars /\ WF_vars(Server)

-----------------------------------------------------------------------------
(* Properties *)

\* Everything that arrives on an accepted connection is read in either mode,
\* and its end noticed: lt is called again while bytes are left, and et,
\* which is not, reads until nothing is left.
ArrivalsRead ==
    \A c \in Conns :
        state[c] = "open" /\ Readable(c) ~> ~(state[c] = "open" /\ Readable(c))
=============================================================================
