------------------------------ MODULE MdClient ------------------------------
(***************************************************************************)
(* lib/zeromq/MDP/mdcliapi.c and mdclient.c: a client that sends one       *)
(* request at a time over a REQ socket, reconnects and sends it again when *)
(* no reply comes, and gives up after a number of retries.  Per client     *)
(* process: pc ("idle", "poll" in mdcli_send, "stopped"), n the number of  *)
(* its current request, service the name it asked for, and retries_left.   *)
(***************************************************************************)
EXTENDS MdWorker

CONSTANTS
    Retries,        \* self->retries
    MaxRequests     \* bound: requests of one client

ASSUME ClientAssumption == Retries \in Nat

VARIABLE cli

ClientInit ==
    cli = [c \in Clients |-> [pc |-> "idle", n |-> 0, service |-> None,
                              body |-> None, retries_left |-> 0]]

\* The request that a client sends for a service: the broker answers "mmi."
\* services from a service name, a worker echoes the request itself.
BodiesFor(c, n, s) == IF s \in MmiNames THEN Services ELSE {<<c, n>>}

\* mdcli_new.
ClientStart(c) ==
    /\ cli[c].pc = "idle"
    /\ sock[c] = 0
    /\ Reconnect(c, <<>>)
    /\ UNCHANGED <<brokerVars, workerVars, cli>>

\* mdclient.c calls mdcli_send, which sends the request and polls.
ClientSend(c) ==
    /\ cli[c].pc = "idle"
    /\ sock[c] # 0
    /\ cli[c].n < MaxRequests
    /\ \E s \in Services \cup MmiNames :
       \E body \in BodiesFor(c, cli[c].n + 1, s) :
          /\ SendUp(c, <<ClientMsg(s, body)>>)
          /\ cli' = [cli EXCEPT ![c] =
                       [pc |-> "poll", n |-> @.n + 1, service |-> s,
                        body |-> body, retries_left |-> Retries]]
    /\ UNCHANGED <<brokerVars, workerVars>>

\* A reply ends mdcli_send.
ClientReply(c) ==
    /\ cli[c].pc = "poll"
    /\ broker.pipe[Cur(c)] # <<>>
    /\ ReadPipe(Cur(c))
    /\ cli' = [cli EXCEPT ![c].pc = "idle"]
    /\ UNCHANGED <<netVars, restarts, workerVars>>

\* Mutant of ClientTimeout: the request is sent again on the old socket.
TimeoutKeepsSocket(c) ==
    /\ cli[c].pc = "poll"
    /\ broker.pipe[Cur(c)] = <<>>
    /\ cli[c].retries_left > 1
    /\ cli' = [cli EXCEPT ![c].retries_left = @ - 1]
    /\ SendUp(c, <<ClientMsg(cli[c].service, cli[c].body)>>)
    /\ UNCHANGED <<brokerVars, workerVars>>

\* Mutant of ClientTimeout: the retries are not counted down.
TimeoutNeverAbandons(c) ==
    /\ cli[c].pc = "poll"
    /\ broker.pipe[Cur(c)] = <<>>
    /\ Reconnect(c, <<ClientMsg(cli[c].service, cli[c].body)>>)
    /\ DropPipe(Cur(c))
    /\ UNCHANGED <<restarts, workerVars, cli>>

\* No reply within the timeout: a new socket and the same request on it, or,
\* after the last retry, NULL, whereupon mdclient.c stops.
ClientTimeout(c) ==
    /\ cli[c].pc = "poll"
    /\ broker.pipe[Cur(c)] = <<>>
    /\ IF cli[c].retries_left > 1
       THEN /\ cli' = [cli EXCEPT ![c].retries_left = @ - 1]
            /\ Reconnect(c, <<ClientMsg(cli[c].service, cli[c].body)>>)
       ELSE /\ cli' = [cli EXCEPT ![c].pc = "stopped", ![c].retries_left = 0]
            /\ Close(c)
    /\ DropPipe(Cur(c))
    /\ UNCHANGED <<restarts, workerVars>>
=============================================================================
