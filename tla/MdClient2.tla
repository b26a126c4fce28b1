----------------------------- MODULE MdClient2 -----------------------------
(***************************************************************************)
(* lib/zeromq/MDP/mdcliapi2.c and mdclient2.c: an asynchronous client that *)
(* sends all its requests over a DEALER socket without waiting and then    *)
(* collects as many replies, giving up at the first timeout.  Per client   *)
(* process: pc ("new", "send", "recv", "stopped"), n requests sent and     *)
(* the replies received so far.                                            *)
(***************************************************************************)
EXTENDS MdClient

VARIABLE acli

AsyncInit == acli = [a \in AsyncClients |-> [pc |-> "new", n |-> 0, replies |-> <<>>]]

AsyncStart(a) ==
    /\ acli[a].pc = "new"
    /\ Reconnect(a, <<>>)
    /\ acli' = [acli EXCEPT ![a].pc = "send"]
    /\ UNCHANGED <<brokerVars, workerVars, cli>>

\* mdcli_send; after the last one mdclient2.c goes on to collect.
AsyncSend(a) ==
    /\ acli[a].pc = "send"
    /\ \E s \in Services : SendUp(a, <<ClientMsg(s, <<a, acli[a].n + 1>>)>>)
    /\ acli' = [acli EXCEPT ![a].n = @ + 1,
                            ![a].pc = IF acli[a].n + 1 = MaxRequests
                                      THEN "recv" ELSE "send"]
    /\ UNCHANGED <<brokerVars, workerVars, cli>>

\* mdcli_recv returns a reply.
AsyncReply(a) ==
    /\ acli[a].pc = "recv"
    /\ Len(acli[a].replies) < MaxRequests
    /\ broker.pipe[Cur(a)] # <<>>
    /\ acli' = [acli EXCEPT ![a].replies =
                  Append(@, Head(broker.pipe[Cur(a)]).body)]
    /\ ReadPipe(Cur(a))
    /\ UNCHANGED <<netVars, restarts, workerVars, cli>>

\* mdclient2.c is done: it has all replies, or mdcli_recv has timed out.
AsyncStop(a) ==
    /\ acli[a].pc = "recv"
    /\ \/ Len(acli[a].replies) = MaxRequests
       \/ broker.pipe[Cur(a)] = <<>>
    /\ acli' = [acli EXCEPT ![a].pc = "stopped"]
    /\ Close(a)
    /\ DropPipe(Cur(a))
    /\ UNCHANGED <<restarts, workerVars, cli>>
=============================================================================
