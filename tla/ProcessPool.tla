---------------------------- MODULE ProcessPool ----------------------------
(***************************************************************************)
(* lib/processpool: a parent that watches the listening socket and tells   *)
(* its children, in turn and over one socket pair each, to accept a        *)
(* connection.  Signals are made events: a handler writes the signal's     *)
(* number to a pipe that the same epoll loop reads.  All descriptors are   *)
(* registered edge-triggered.                                              *)
(*                                                                         *)
(* What the template parameter T does with a connection is left out.  A    *)
(* return of epoll_wait with EINTR changes nothing.                        *)
(***************************************************************************)
EXTENDS Integers, Sequences, FiniteSets

CONSTANTS
    m_process_number,
    Parent,         \* the parent process
    MaxConns,       \* bound: connections of clients
    MaxKills,       \* bound: SIGTERM or SIGINT from outside
    MaxCrashes      \* bound: children that die by themselves

ASSUME ConstantsAssumption ==
    /\ m_process_number \in Nat \ {0}
    /\ Parent \notin Nat
    /\ MaxConns \in Nat /\ MaxKills \in Nat /\ MaxCrashes \in Nat

Child == 0..(m_process_number - 1)
Procs == Child \cup {Parent}
Sources == {"listen", "pipe", "sig"}

VARIABLES
    at,         \* each process: "unborn", "create" (the constructor), "start"
                \* (before setup_sig_pipe), "loop", "left" (run returned) or
                \* "killed"
    m_pid,      \* whether m_sub_process[i].m_pid # -1
    m_stop,
    sub_process_counter,
    pipe,       \* notifications in the pair of each child
    backlog,    \* connections that nobody has accepted
    pending,    \* signals sent to a process; two of a kind are one
    sig_pipe,   \* signals in sig_pipefd
    signals,    \* signals read from it and not handled
    edge,       \* epoll: descriptors with news since the last epoll_wait
    events,     \* what the last epoll_wait returned and is not handled
    reaped,     \* children waitpid has returned
    early,      \* history: children gone while the parent had no handler
    sent,       \* history: notifications made to each child
    arrived, kills, crashes     \* counters for the bounds

poolVars == <<m_pid, sub_process_counter, reaped, sent>>
sigVars == <<pending, sig_pipe, signals>>
envVars == <<arrived, kills, crashes>>
vars == <<at, m_pid, m_stop, sub_process_counter, pipe, backlog, pending,
          sig_pipe, signals, edge, events, reaped, early, sent, arrived,
          kills, crashes>>

Gone == {i \in Child : at[i] \in {"left", "killed"}}

Init ==
    /\ at = [p \in Procs |-> IF p = Parent THEN "create" ELSE "unborn"]
    /\ m_pid = [i \in Child |-> FALSE]
    /\ m_stop = [p \in Procs |-> FALSE]
    /\ sub_process_counter = 0
    /\ pipe = [i \in Child |-> 0]
    /\ backlog = 0
    /\ pending = [p \in Procs |-> {}]
    /\ sig_pipe = [p \in Procs |-> <<>>]
    /\ signals = [p \in Procs |-> <<>>]
    /\ edge = [p \in Procs |-> {}]
    /\ events = [p \in Procs |-> {}]
    /\ reaped = {}
    /\ early = {}
    /\ sent = [i \in Child |-> 0]
    /\ arrived = 0 /\ kills = 0 /\ crashes = 0

-----------------------------------------------------------------------------
(* Signals *)

\* The processes of the set dying end, with where as their last position, and
\* the kernel sends SIGCHLD to the parent, which ignores it until it has a
\* handler; the processes of the set termed have a SIGTERM pending.
Signalled(dying, where, termed) ==
    LET orphans == dying \ {Parent}
        heard == orphans # {} /\ at[Parent] = "loop"
    IN  /\ at' = [p \in Procs |-> IF p \in dying THEN where ELSE at[p]]
        /\ early' = IF heard THEN early ELSE early \cup orphans
        /\ pending' = [p \in Procs |->
              pending[p] \cup (IF p = Parent /\ heard THEN {"CHLD"} ELSE {})
                         \cup (IF p \in termed THEN {"TERM"} ELSE {})]

\* kill(pid, SIGTERM): by default it ends a process that has not come to
\* setup_sig_pipe.
Kill(targets) ==
    Signalled({p \in targets : at[p] \in {"create", "start"}}, "killed",
              {p \in targets : at[p] = "loop"})

\* sig_handler
Deliver(p) ==
    /\ at[p] = "loop"
    /\ \E s \in pending[p] :
          /\ pending' = [pending EXCEPT ![p] = @ \ {s}]
          /\ sig_pipe' = [sig_pipe EXCEPT ![p] = Append(@, s)]
    /\ edge' = [edge EXCEPT ![p] = @ \cup {"sig"}]
    /\ UNCHANGED <<at, poolVars, m_stop, pipe, backlog, signals, events,
                   early, envVars>>

-----------------------------------------------------------------------------
(* Construction and the common part of run_parent and run_child *)

\* One round of the constructor's loop.
Fork(i) ==
    /\ at[Parent] = "create"
    /\ at[i] = "unborn"
    /\ \A j \in Child : j < i => at[j] # "unborn"
    /\ at' = [at EXCEPT ![i] = "start",
                        ![Parent] = IF i = m_process_number - 1
                                    THEN "start" ELSE "create"]
    /\ m_pid' = [m_pid EXCEPT ![i] = TRUE]
    /\ UNCHANGED <<m_stop, sub_process_counter, pipe, backlog, sigVars, edge,
                   events, reaped, early, sent, envVars>>

\* setup_sig_pipe and addfd: a descriptor that is readable when it is added
\* is reported.
Setup(p) ==
    /\ at[p] = "start"
    /\ at' = [at EXCEPT ![p] = "loop"]
    /\ edge' = [edge EXCEPT ![p] =
          IF p = Parent THEN {s \in {"listen"} : backlog > 0}
                        ELSE {s \in {"pipe"} : pipe[p] > 0}]
    /\ UNCHANGED <<poolVars, m_stop, pipe, backlog, sigVars, events, early,
                   envVars>>

Idle(p) == at[p] = "loop" /\ events[p] = {} /\ signals[p] = <<>>

EpollWait(p) ==
    /\ Idle(p)
    /\ ~m_stop[p]
    /\ edge[p] # {}
    /\ events' = [events EXCEPT ![p] = edge[p]]
    /\ edge' = [edge EXCEPT ![p] = {}]
    /\ UNCHANGED <<at, poolVars, m_stop, pipe, backlog, sigVars, early,
                   envVars>>

\* The loop ends with m_stop, run returns and the process exits.
Leave(p) ==
    /\ Idle(p)
    /\ m_stop[p]
    /\ Signalled({p}, "left", {})
    /\ UNCHANGED <<poolVars, m_stop, pipe, backlog, sig_pipe, signals, edge,
                   events, envVars>>

Event(p, s) ==
    /\ at[p] = "loop"
    /\ signals[p] = <<>>
    /\ s \in events[p]

\* recv(sig_pipefd[0], signals): everything that is in the pipe.
ReadSignals(p) ==
    /\ Event(p, "sig")
    /\ events' = [events EXCEPT ![p] = @ \ {"sig"}]
    /\ signals' = [signals EXCEPT ![p] = sig_pipe[p]]
    /\ sig_pipe' = [sig_pipe EXCEPT ![p] = <<>>]
    /\ UNCHANGED <<at, poolVars, m_stop, pipe, backlog, pending, edge, early,
                   envVars>>

Signal(p, s) ==
    /\ at[p] = "loop"
    /\ signals[p] # <<>>
    /\ Head(signals[p]) = s
    /\ signals' = [signals EXCEPT ![p] = Tail(@)]

-----------------------------------------------------------------------------
(* run_parent *)

\* The children as seen from sub_process_counter, the next in turn first.
Turn(k) == (sub_process_counter + k) % m_process_number

Running == {k \in Child : m_pid[Turn(k)]}

\* Mutant of NewConnection: sub_process_counter++, as in the line that is
\* commented out, although dead children were skipped.
NewConnectionNextEntry ==
    /\ Event(Parent, "listen")
    /\ Running # {}
    /\ events' = [events EXCEPT ![Parent] = @ \ {"listen"}]
    /\ LET i == Turn(CHOOSE k \in Running : \A j \in Running : k <= j)
       IN  /\ sub_process_counter' = Turn(1)
           /\ sent' = [sent EXCEPT ![i] = @ + 1]
           /\ IF i \in Gone THEN UNCHANGED <<pipe, edge>>
              ELSE /\ pipe' = [pipe EXCEPT ![i] = @ + 1]
                   /\ edge' = [edge EXCEPT ![i] =
                         IF at[i] = "loop" THEN @ \cup {"pipe"} ELSE @]
    /\ UNCHANGED <<at, m_pid, m_stop, reaped, backlog, sigVars, early,
                   envVars>>

\* The listening socket is reported: the next running child is told.  What is
\* sent to a child that is gone and not reaped yet is lost (SIGPIPE is
\* ignored).
NewConnection ==
    /\ Event(Parent, "listen")
    /\ Running # {}
    /\ events' = [events EXCEPT ![Parent] = @ \ {"listen"}]
    /\ LET i == Turn(CHOOSE k \in Running : \A j \in Running : k <= j)
       IN  /\ sub_process_counter' = (i + 1) % m_process_number
           /\ sent' = [sent EXCEPT ![i] = @ + 1]
           /\ IF i \in Gone THEN UNCHANGED <<pipe, edge>>
              ELSE /\ pipe' = [pipe EXCEPT ![i] = @ + 1]
                   /\ edge' = [edge EXCEPT ![i] =
                         IF at[i] = "loop" THEN @ \cup {"pipe"} ELSE @]
    /\ UNCHANGED <<at, m_pid, m_stop, reaped, backlog, sigVars, early,
                   envVars>>

\* Mutant of NobodyLeft: the search does not end.
SearchGoesOn ==
    /\ Event(Parent, "listen")
    /\ Running = {}
    /\ UNCHANGED vars

\* It is reported when no child is left: break, with the other events lost.
NobodyLeft ==
    /\ Event(Parent, "listen")
    /\ Running = {}
    /\ m_stop' = [m_stop EXCEPT ![Parent] = TRUE]
    /\ events' = [events EXCEPT ![Parent] = {}]
    /\ UNCHANGED <<at, poolVars, pipe, backlog, sigVars, edge, early, envVars>>

\* Mutant of ParentChild: one waitpid for one SIGCHLD.
ReapOne ==
    /\ Signal(Parent, "CHLD")
    /\ \E i \in Gone \ reaped :
          /\ reaped' = reaped \cup {i}
          /\ m_pid' = [m_pid EXCEPT ![i] = FALSE]
    /\ m_stop' = [m_stop EXCEPT ![Parent] = \A i \in Child : ~m_pid'[i]]
    /\ UNCHANGED <<at, sub_process_counter, sent, pipe, backlog, pending,
                   sig_pipe, edge, events, early, envVars>>

\* Mutant of ParentChild: m_stop is not reset when a child still runs.
StopTooEarly ==
    /\ Signal(Parent, "CHLD")
    /\ reaped' = Gone
    /\ m_pid' = [i \in Child |-> m_pid[i] /\ i \notin Gone]
    /\ m_stop' = [m_stop EXCEPT ![Parent] = TRUE]
    /\ UNCHANGED <<at, sub_process_counter, sent, pipe, backlog, pending,
                   sig_pipe, edge, events, early, envVars>>

\* case SIGCHLD: waitpid until there is no zombie left.
ParentChild ==
    /\ Signal(Parent, "CHLD")
    /\ reaped' = Gone
    /\ m_pid' = [i \in Child |-> m_pid[i] /\ i \notin Gone]
    /\ m_stop' = [m_stop EXCEPT ![Parent] = \A i \in Child : ~m_pid'[i]]
    /\ UNCHANGED <<at, sub_process_counter, sent, pipe, backlog, pending,
                   sig_pipe, edge, events, early, envVars>>

\* case SIGTERM, SIGINT: all children are killed; the parent goes on.
ParentTerm ==
    /\ Signal(Parent, "TERM")
    /\ Kill({i \in Child : m_pid[i]})
    /\ UNCHANGED <<poolVars, m_stop, pipe, backlog, sig_pipe, edge, events,
                   envVars>>

-----------------------------------------------------------------------------
(* run_child *)

\* A notification is read (or EAGAIN, which is taken for one) and a
\* connection accepted if there is one; a single one of each for one report.
ChildAccept(i) ==
    /\ Event(i, "pipe")
    /\ events' = [events EXCEPT ![i] = @ \ {"pipe"}]
    /\ pipe' = [pipe EXCEPT ![i] = IF @ > 0 THEN @ - 1 ELSE 0]
    /\ backlog' = IF backlog > 0 THEN backlog - 1 ELSE 0
    /\ UNCHANGED <<at, poolVars, m_stop, sigVars, edge, early, envVars>>

ChildTerm(i) ==
    /\ Signal(i, "TERM")
    /\ m_stop' = [m_stop EXCEPT ![i] = TRUE]
    /\ UNCHANGED <<at, poolVars, pipe, backlog, pending, sig_pipe, edge,
                   events, early, envVars>>

-----------------------------------------------------------------------------
(* Clients, operator and accidents *)

Connect ==
    /\ arrived < MaxConns
    /\ arrived' = arrived + 1
    /\ backlog' = backlog + 1
    /\ edge' = [edge EXCEPT ![Parent] =
          IF at[Parent] = "loop" THEN @ \cup {"listen"} ELSE @]
    /\ UNCHANGED <<at, poolVars, m_stop, pipe, sigVars, events, early, kills,
                   crashes>>

Terminate(p) ==
    /\ kills < MaxKills
    /\ at[p] \in {"create", "start", "loop"}
    /\ kills' = kills + 1
    /\ Kill({p})
    /\ UNCHANGED <<poolVars, m_stop, pipe, backlog, sig_pipe, signals, edge,
                   events, arrived, crashes>>

Crash(i) ==
    /\ crashes < MaxCrashes
    /\ at[i] \in {"start", "loop"}
    /\ crashes' = crashes + 1
    /\ Signalled({i}, "killed", {})
    /\ UNCHANGED <<poolVars, m_stop, pipe, backlog, sig_pipe, signals, edge,
                   events, arrived, kills>>

-----------------------------------------------------------------------------
RunParent ==
    \/ \E i \in Child : Fork(i)
    \/ NewConnection \/ NobodyLeft \/ ParentChild \/ ParentTerm

RunChild(i) == ChildAccept(i) \/ ChildTerm(i)

RunLoop(p) == Setup(p) \/ EpollWait(p) \/ ReadSignals(p) \/ Leave(p)

Next ==
    \/ RunParent
    \/ \E i \in Child : RunChild(i) \/ Crash(i)
    \/ \E p \in Procs : RunLoop(p) \/ Deliver(p) \/ Terminate(p)
    \/ Connect

Spec == Init /\ [][Next]_vars

\* Processes are scheduled and signals delivered; nobody has to connect, to
\* terminate or to crash.
Fairness ==
    /\ WF_vars(RunParent \/ RunLoop(Parent))
    /\ \A i \in Child : WF_vars(RunChild(i) \/ RunLoop(i))
    /\ \A p \in Procs : WF_vars(Deliver(p))

FairSpec == Spec /\ Fairness

-----------------------------------------------------------------------------
(* Properties *)

\* The variables of the processes, the queues and the ready lists have their
\* types; in particular the turn always names a child.
TypeOK ==
    /\ at \in [Procs -> {"unborn", "create", "start", "loop", "left", "killed"}]
    /\ m_pid \in [Child -> BOOLEAN]
    /\ m_stop \in [Procs -> BOOLEAN]
    /\ sub_process_counter \in Child
    /\ pipe \in [Child -> Nat]
    /\ backlog \in Nat
    /\ pending \in [Procs -> SUBSET {"CHLD", "TERM"}]
    /\ sig_pipe \in [Procs -> Seq({"CHLD", "TERM"})]
    /\ signals \in [Procs -> Seq({"CHLD", "TERM"})]
    /\ edge \in [Procs -> SUBSET Sources]
    /\ events \in [Procs -> SUBSET Sources]
    /\ reaped \in SUBSET Child
    /\ early \in SUBSET Child
    /\ sent \in [Child -> Nat]
    /\ arrived \in 0..MaxConns /\ kills \in 0..MaxKills
    /\ crashes \in 0..MaxCrashes

\* run_parent returns only when no child is left, neither running nor as a
\* zombie, and a pid in the table is never that of a reaped child, which the
\* system may have given to another process by the time it is killed.
ParentLeavesLast ==
    /\ at[Parent] = "left" => reaped = Child
    /\ reaped \subseteq Gone
    /\ \A i \in reaped : ~m_pid[i]

\* Although signals of a kind merge and are read late, a child that has ended
\* is reaped or a SIGCHLD for it is still on the way to the parent's switch.
\* Only one that ended before setup_sig_pipe goes unannounced.
ZombieIsAnnounced ==
    at[Parent] = "loop" =>
        \A i \in Gone \ (reaped \cup early) :
            \/ "CHLD" \in pending[Parent]
            \/ \E k \in 1..Len(sig_pipe[Parent]) : sig_pipe[Parent][k] = "CHLD"
            \/ \E k \in 1..Len(signals[Parent]) : signals[Parent][k] = "CHLD"

\* Connections are handed out in turn among the children that are left: no two
\* of them differ by more than one notification, however many others have died
\* and were skipped, before, between or after them in the table.
RoundRobin ==
    \A i, j \in Child : m_pid[i] /\ m_pid[j] => sent[i] - sent[j] <= 1

\* A SIGTERM that reaches the parent's switch while a child runs ends the
\* whole pool: all children go and the parent, which waits for them, returns.
\* So does a pool whose children are all reaped, also when the report of a new
\* connection is handled before run_parent looks at m_stop: the search for a
\* child comes round to where it began and gives up.
ShutdownCompletes ==
    (\/ /\ signals[Parent] # <<>>
        /\ Head(signals[Parent]) = "TERM"
        /\ Gone # Child
     \/ at[Parent] = "loop" /\ reaped = Child)
        ~> (at[Parent] = "left" /\ Gone = Child)

\* "If a new connection arrives, it is assigned to a child": no connection
\* stays unaccepted for ever.
ConnectionIsAccepted == backlog > 0 ~> backlog = 0
=============================================================================
