----------------------------- MODULE ChatServer -----------------------------
(***************************************************************************)
(* lib/pthread/chat_server.c and chat_client.c: one thread for each client *)
(* reads its messages and writes them to every socket of a table, which a  *)
(* mutex protects.                                                         *)
(*                                                                         *)
(* Two things go wrong in the code and are modelled as they are.  main     *)
(* passes every thread the address of the same variable clnt_sock, so that *)
(* a thread that starts late gets the socket of a later client.  And the   *)
(* loop that closes the gap of a client that leaves starts one too late:   *)
(* the client behind it is removed, and its own descriptor, which will be  *)
(* used again, stays.                                                      *)
(*                                                                         *)
(* A write to a client that has gone is answered by a reset, and the next  *)
(* one raises SIGPIPE, which ends the server.  A thread whose descriptor   *)
(* another thread has closed reads the end of the stream, if it was        *)
(* waiting for it, or fails to read for ever, which changes nothing.       *)
(* Nobody checks that the table has an entry left: the model has fewer     *)
(* clients than that.                                                      *)
(***************************************************************************)
EXTENDS Integers, Sequences

CONSTANTS
    Clients,       \* 1..n, numbered in the order in which they are accepted
    Fds,           \* descriptors, numbers from 1
    MAX_CLNT,      \* entries of the table, more than there are clients
    MaxMessages    \* bound: messages of a client

VARIABLES
    mainAt,        \* main: "accept", "add" (to the table), "create"
    accepted,      \* clients accepted so far
    clnt_sock,     \* main's variable
    clnt_socks, clnt_cnt,    \* the table
    mutx,          \* the thread that holds the mutex, 0 for none
    thread,        \* of each thread: "none", "new", "read", "locked", "eof", "done"
    sock,          \* its own clnt_sock
    msg,           \* the message in its hands, and i, the next index to write
    i,
    owner,         \* the client at the other end of a descriptor, 0 if closed
    gone,          \* clients that have quit
    said,          \* messages each client has written
    unread,        \* and how many of them the server has not read
    printed,       \* what each client has printed: the numbers of broadcasts
    order,         \* history: broadcasts begun
    down           \* the server has died

mainVars == <<mainAt, accepted, clnt_sock>>
tableVars == <<clnt_socks, clnt_cnt, mutx>>
threadVars == <<thread, sock, msg, i>>
clientVars == <<gone, said, unread, printed>>
vars == <<mainVars, tableVars, threadVars, owner, clientVars, order, down>>

Init ==
    /\ mainAt = "accept"
    /\ accepted = 0
    /\ clnt_sock = 0
    /\ clnt_socks = [k \in 0..(MAX_CLNT - 1) |-> 0]
    /\ clnt_cnt = 0
    /\ mutx = 0
    /\ thread = [c \in Clients |-> "none"]
    /\ sock = [c \in Clients |-> 0]
    /\ msg = [c \in Clients |-> 0]
    /\ i = [c \in Clients |-> 0]
    /\ owner = [f \in Fds |-> 0]
    /\ gone = {}
    /\ said = [c \in Clients |-> 0]
    /\ unread = [c \in Clients |-> 0]
    /\ printed = [c \in Clients |-> <<>>]
    /\ order = 0
    /\ down = FALSE

-----------------------------------------------------------------------------
(* main of chat_server.c *)

\* accept gives the lowest free descriptor to the next client.
Accept ==
    /\ mainAt = "accept"
    /\ accepted + 1 \in Clients
    /\ \E f \in Fds :
          /\ owner[f] = 0
          /\ \A g \in Fds : g < f => owner[g] # 0
          /\ owner' = [owner EXCEPT ![f] = accepted + 1]
          /\ clnt_sock' = f
    /\ accepted' = accepted + 1
    /\ mainAt' = "add"
    /\ UNCHANGED <<tableVars, threadVars, clientVars, order, down>>

Add ==
    /\ mainAt = "add"
    /\ mutx = 0
    /\ clnt_socks' = [clnt_socks EXCEPT ![clnt_cnt] = clnt_sock]
    /\ clnt_cnt' = clnt_cnt + 1
    /\ mainAt' = "create"
    /\ UNCHANGED <<accepted, clnt_sock, mutx, threadVars, owner, clientVars, order, down>>

Create ==
    /\ mainAt = "create"
    /\ thread' = [thread EXCEPT ![accepted] = "new"]
    /\ mainAt' = "accept"
    /\ UNCHANGED <<accepted, clnt_sock, tableVars, sock, msg, i, owner, clientVars,
                   order, down>>

-----------------------------------------------------------------------------
(* handle_clnt and send_msg of chat_server.c *)

\* *((int*)arg) is whatever main's clnt_sock holds when the thread runs.
Start(t) ==
    /\ thread[t] = "new"
    /\ thread' = [thread EXCEPT ![t] = "read"]
    /\ sock' = [sock EXCEPT ![t] = clnt_sock]
    /\ UNCHANGED <<mainVars, tableVars, msg, i, owner, clientVars, order, down>>

\* Mutant of Lock: send_msg does not take the mutex.
LockMissing(t) ==
    LET c == owner[sock[t]]
    IN  /\ thread[t] = "read"
        /\ c # 0 /\ unread[c] > 0
        /\ unread' = [unread EXCEPT ![c] = @ - 1]
        /\ order' = order + 1
        /\ msg' = [msg EXCEPT ![t] = order + 1]
        /\ i' = [i EXCEPT ![t] = 0]
        /\ thread' = [thread EXCEPT ![t] = "locked"]
        /\ UNCHANGED <<mainVars, tableVars, sock, owner, gone, said, printed, down>>

\* read, then send_msg locks the mutex: here the broadcast gets its number.
Lock(t) ==
    LET c == owner[sock[t]]
    IN  /\ thread[t] = "read"
        /\ c # 0 /\ unread[c] > 0
        /\ mutx = 0
        /\ mutx' = t
        /\ unread' = [unread EXCEPT ![c] = @ - 1]
        /\ order' = order + 1
        /\ msg' = [msg EXCEPT ![t] = order + 1]
        /\ i' = [i EXCEPT ![t] = 0]
        /\ thread' = [thread EXCEPT ![t] = "locked"]
        /\ UNCHANGED <<mainVars, clnt_socks, clnt_cnt, sock, owner, gone, said, printed,
                       down>>

\* The thread of chat_client.c that receives prints what is written to its
\* socket, in that order.
recv_msg(c, n) == printed' = [printed EXCEPT ![c] = Append(@, n)]

\* One write of send_msg, to the client at the other end, if there is one.
Write(t) ==
    LET f == clnt_socks[i[t]]
        c == IF f = 0 THEN 0 ELSE owner[f]
    IN  /\ thread[t] = "locked"
        /\ i[t] < clnt_cnt
        /\ i' = [i EXCEPT ![t] = @ + 1]
        /\ IF c = 0 THEN UNCHANGED <<printed, down>>
           ELSE IF c \in gone THEN down' \in BOOLEAN /\ UNCHANGED printed
           ELSE recv_msg(c, msg[t]) /\ UNCHANGED down
        /\ UNCHANGED <<mainVars, tableVars, thread, sock, msg, owner, gone, said, unread,
                       order>>

Unlock(t) ==
    /\ thread[t] = "locked"
    /\ i[t] >= clnt_cnt
    /\ mutx' = 0
    /\ thread' = [thread EXCEPT ![t] = "read"]
    /\ UNCHANGED <<mainVars, clnt_socks, clnt_cnt, sock, msg, i, owner, clientVars, order,
                   down>>

\* read returns 0: the client has closed, or another thread that read from
\* the same socket has left.
ReadEnd(t) ==
    LET c == owner[sock[t]]
    IN  /\ thread[t] = "read"
        /\ c # 0 => c \in gone /\ unread[c] = 0
        /\ thread' = [thread EXCEPT ![t] = "eof"]
        /\ UNCHANGED <<mainVars, tableVars, sock, msg, i, owner, clientVars, order, down>>

\* The loop that should remove the client: from the index behind its own on,
\* every entry becomes the next one.  The descriptor is closed, whoever has it.
Leave(t) ==
    LET here == {k \in 0..(clnt_cnt - 1) : clnt_socks[k] = sock[t]}
    IN  /\ thread[t] = "eof"
        /\ mutx = 0
        /\ clnt_socks' = [k \in DOMAIN clnt_socks |->
                            IF (\E h \in here : h < k) /\ k < clnt_cnt
                            THEN clnt_socks[k + 1] ELSE clnt_socks[k]]
        /\ clnt_cnt' = clnt_cnt - 1
        /\ owner' = [owner EXCEPT ![sock[t]] = 0]
        /\ thread' = [thread EXCEPT ![t] = "done"]
        /\ UNCHANGED <<mainVars, mutx, sock, msg, i, clientVars, order, down>>

-----------------------------------------------------------------------------
(* chat_client.c: the thread that sends, and its quit *)

Say(c) ==
    /\ c <= accepted /\ c \notin gone
    /\ said[c] < MaxMessages
    /\ said' = [said EXCEPT ![c] = @ + 1]
    /\ unread' = [unread EXCEPT ![c] = @ + 1]
    /\ UNCHANGED <<mainVars, tableVars, threadVars, owner, gone, printed, order, down>>

Quit(c) ==
    /\ c <= accepted /\ c \notin gone
    /\ gone' = gone \cup {c}
    /\ UNCHANGED <<mainVars, tableVars, threadVars, owner, said, unread, printed, order,
                   down>>

-----------------------------------------------------------------------------
Next ==
    /\ ~down
    /\ \/ Accept \/ Add \/ Create
       \/ \E t \in Clients : Start(t) \/ Lock(t) \/ Write(t) \/ Unlock(t)
                            \/ ReadEnd(t) \/ Leave(t)
       \/ \E c \in Clients : Say(c) \/ Quit(c)

Spec == Init /\ [][Next]_vars

-----------------------------------------------------------------------------
(* Properties *)

\* All clients see the conversation in one order: whatever the table holds,
\* each prints broadcasts in the order in which send_msg began them, because
\* the mutex is held from the first write of a broadcast to the last.
SameOrder ==
    \A c \in Clients :
        \A j, k \in 1..Len(printed[c]) : j < k => printed[c][j] <= printed[c][k]
=============================================================================
