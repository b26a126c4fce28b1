-------------------------- MODULE ProcessPoolProofs --------------------------
(***************************************************************************)
(* TLAPS proofs about ProcessPool, for any number of children and any      *)
(* bounds: the parent leaves after its children, an ended child that is    *)
(* not reaped is announced, and connections are handed out in turn.        *)
(*                                                                         *)
(* None of these is inductive.  Pids ties m_pid to the life of a child,    *)
(* Zombies follows a SIGCHLD from the kernel through the pipe to the       *)
(* switch, and Turns counts notifications against sub_process_counter.     *)
(***************************************************************************)
EXTENDS ProcessPool, SequenceTheorems, WellFoundedInduction, TLAPS

\* A SIGCHLD is on its way to the parent's switch.
Announced ==
    \/ "CHLD" \in pending[Parent]
    \/ \E k \in 1..Len(sig_pipe[Parent]) : sig_pipe[Parent][k] = "CHLD"
    \/ \E k \in 1..Len(signals[Parent]) : signals[Parent][k] = "CHLD"

\* m_pid is set exactly for the children that were forked and not reaped, and
\* the constructor has forked all when it ends; the parent stops only when
\* all are reaped.
Pids ==
    /\ \A i \in Child : m_pid[i] <=> at[i] # "unborn" /\ i \notin reaped
    /\ at[Parent] \in {"start", "loop", "left"} => \A i \in Child : at[i] # "unborn"
    /\ reaped \subseteq Gone
    /\ m_stop[Parent] => reaped = Child
    /\ at[Parent] = "left" => m_stop[Parent]
    /\ at[Parent] # "unborn"

\* Children that ended before the parent had a handler are all in early; a
\* later one is announced.
Zombies ==
    /\ at[Parent] \in {"create", "start"} => Gone \subseteq early
    /\ at[Parent] = "loop" => \A i \in Gone \ (reaped \cup early) : Announced

\* Of the children that are left, those before sub_process_counter are one
\* notification ahead of the others.
Turns ==
    /\ at[Parent] = "create" => sub_process_counter = 0 /\ \A i \in Child : sent[i] = 0
    /\ \E b \in Nat : \A i \in Child :
          m_pid[i] => sent[i] = IF i < sub_process_counter THEN b + 1 ELSE b

IInv == TypeOK /\ Pids /\ Zombies /\ Turns

-----------------------------------------------------------------------------
\* Counting modulo the number of children.
LEMMA Modulo ==
    ASSUME NEW a \in Nat
    PROVE  /\ a % m_process_number \in Child
           /\ a < m_process_number => a % m_process_number = a
           /\ a = m_process_number => a % m_process_number = 0
  BY ConstantsAssumption DEF Child

\* Counting once past the last child.
LEMMA ModuloOnce ==
    ASSUME NEW a \in Nat, ~(a < m_process_number),
           a < m_process_number + m_process_number
    PROVE  a % m_process_number = a - m_process_number
<1>1. m_process_number \in Nat \ {0}
  BY ConstantsAssumption
<1>2. PICK r \in Nat : a = r + m_process_number /\ r < m_process_number
  BY <1>1
<1>3. (r + m_process_number) % m_process_number = r
  BY <1>1, <1>2
<1> QED
  BY <1>1, <1>2, <1>3

\* A turn goes on past the last child with the first.
LEMMA TurnValue ==
    ASSUME sub_process_counter \in Child, NEW k \in Child
    PROVE  Turn(k) = IF sub_process_counter + k < m_process_number
                     THEN sub_process_counter + k
                     ELSE (sub_process_counter + k) - m_process_number
<1>1. /\ m_process_number \in Nat /\ sub_process_counter \in Nat /\ k \in Nat
      /\ sub_process_counter + k < m_process_number + m_process_number
  BY ConstantsAssumption DEF Child
<1>2. PICK a \in Nat : a = sub_process_counter + k
  BY <1>1
<1>3. Turn(k) = a % m_process_number
  BY <1>2, Zenon DEF Turn
<1>4. a % m_process_number =
         IF a < m_process_number THEN a ELSE a - m_process_number
  BY <1>1, <1>2, Modulo, ModuloOnce
<1>5. Turn(k) = IF a < m_process_number THEN a ELSE a - m_process_number
  BY <1>3, <1>4, Zenon
<1> QED
  BY <1>2, <1>5, Zenon

\* Seen from any child, every child has its turn.
LEMMA TurnOnto ==
    ASSUME sub_process_counter \in Child, NEW i \in Child
    PROVE  \E k \in Child : Turn(k) = i
<1> DEFINE n == m_process_number
           c == sub_process_counter
           k == IF i >= c THEN i - c ELSE i + n - c
<1>1. n \in Nat \ {0} /\ i \in 0..(n - 1) /\ c \in 0..(n - 1)
  BY ConstantsAssumption DEF Child
<1>2. k \in Child
  BY <1>1 DEF Child
<1>3. CASE i >= c
  <2>1. c + k = i
    BY <1>1, <1>3
  <2>2. i \in Nat /\ i < n
    BY <1>1
  <2> HIDE DEF k, n, c
  <2>3. i % n = i
    BY <2>2, Modulo DEF n
  <2> QED
    BY <1>2, <2>1, <2>3 DEF Turn, n, c
<1>4. CASE ~(i >= c)
  <2>1. c + k = i + n
    BY <1>1, <1>4
  <2>2. (i + n) % n = i
    BY <1>1
  <2> QED
    BY <1>2, <2>1, <2>2 DEF Turn
<1> QED
  BY <1>3, <1>4

\* A set of child numbers that is not empty has a smallest.
LEMMA SmallestExists ==
    ASSUME NEW S \in SUBSET Nat, S # {}
    PROVE  \E k \in S : \A j \in S : k <= j
<1>1. \E x \in S : \A y \in S : ~(<<y, x>> \in OpToRel(<, Nat))
  BY NatLessThanWellFounded, WFMin
<1>2. PICK x \in S : \A y \in S : ~(y < x)
  BY <1>1 DEF OpToRel
<1> QED
  BY <1>2

\* The parent is not one of its children.
LEMMA ParentIsNoChild == Parent \in Procs /\ Parent \notin Child
  BY ConstantsAssumption DEF Child, Procs

\* What leaves the pids, the reaped and the positions alone leaves Pids alone.
LEMMA PidsFrame ==
    ASSUME Pids, UNCHANGED <<at, m_pid, reaped, m_stop>>
    PROVE  Pids'
  BY DEF Pids, Gone

\* Only a step that takes a SIGCHLD from the parent's switch needs care.
LEMMA ZombiesFrame ==
    ASSUME Zombies, UNCHANGED <<at, reaped, early>>, Announced => Announced'
    PROVE  Zombies'
  BY DEF Zombies, Gone

\* The turn changes only with a notification, a fork or a reaping.
LEMMA TurnsFrame ==
    ASSUME Turns, UNCHANGED <<m_pid, sub_process_counter, sent>>,
           at'[Parent] = "create" => at[Parent] = "create"
    PROVE  Turns'
  BY DEF Turns

\* Processes that end: a child that ends is announced if the parent listens,
\* and counted in early if it does not yet.
LEMMA SignalledStep ==
    ASSUME TypeOK, Pids, Zombies, Turns,
           NEW dying \in SUBSET Procs, NEW where \in {"left", "killed"},
           NEW termed \in SUBSET Procs,
           Signalled(dying, where, termed),
           \A p \in dying : at[p] \in {"create", "start", "loop"},
           Parent \in dying /\ where = "left" => m_stop[Parent],
           UNCHANGED <<m_pid, sub_process_counter, reaped, sent, m_stop, sig_pipe>>,
           (\E k \in 1..Len(signals[Parent]) : signals[Parent][k] = "CHLD")
              => (\E k \in 1..Len(signals'[Parent]) : signals'[Parent][k] = "CHLD")
    PROVE  /\ at' \in [Procs -> {"unborn", "create", "start", "loop", "left", "killed"}]
           /\ pending' \in [Procs -> SUBSET {"CHLD", "TERM"}]
           /\ early' \in SUBSET Child
           /\ Pids' /\ Zombies' /\ Turns'
<1> USE ParentIsNoChild
<1> DEFINE orphans == dying \ {Parent}
           heard == orphans # {} /\ at[Parent] = "loop"
<1>0. Procs = Child \cup {Parent} /\ orphans \subseteq Child
  BY DEF Procs
<1>1. at' = [p \in Procs |-> IF p \in dying THEN where ELSE at[p]]
  BY DEF Signalled
<1>2. early' = IF heard THEN early ELSE early \cup orphans
  BY DEF Signalled
<1>3. pending' = [p \in Procs |->
              pending[p] \cup (IF p = Parent /\ heard THEN {"CHLD"} ELSE {})
                         \cup (IF p \in termed THEN {"TERM"} ELSE {})]
  BY DEF Signalled
<1>4. at' \in [Procs -> {"unborn", "create", "start", "loop", "left", "killed"}]
  BY <1>1 DEF TypeOK
<1>5. pending' \in [Procs -> SUBSET {"CHLD", "TERM"}]
  <2>1. \A p \in Procs : pending[p] \subseteq {"CHLD", "TERM"}
    BY DEF TypeOK
  <2> HIDE DEF heard
  <2>2. \A p \in Procs : pending'[p] \subseteq {"CHLD", "TERM"}
    BY <1>3, <2>1
  <2> QED
    BY <1>3, <2>2
<1>6. early' \in SUBSET Child
  BY <1>0, <1>2 DEF TypeOK
<1>7. Gone' = Gone \cup orphans
  BY <1>0, <1>1 DEF Gone
<1>8. Pids'
  <2>1. \A i \in Child : (at'[i] = "unborn") <=> (at[i] = "unborn")
    BY <1>0, <1>1
  <2>2. at'[Parent] = IF Parent \in dying THEN where ELSE at[Parent]
    BY <1>1
  <2>3. reaped' \subseteq Gone'
    BY <1>7 DEF Pids
  <2> QED
    <3>1. m_stop[Parent] => \A i \in Child : at[i] # "unborn"
      BY DEF Pids, Gone
    <3>2. \A i \in Child : m_pid'[i] <=> at'[i] # "unborn" /\ i \notin reaped'
      BY <2>1 DEF Pids
    <3>3. at'[Parent] \in {"start", "loop", "left"} => \A i \in Child : at'[i] # "unborn"
      BY <2>1, <2>2, <3>1 DEF Pids
    <3>4. m_stop'[Parent] => reaped' = Child
      BY DEF Pids
    <3>5. (at'[Parent] = "left" => m_stop'[Parent]) /\ at'[Parent] # "unborn"
      BY <2>2 DEF Pids
    <3> QED
      BY <2>3, <3>2, <3>3, <3>4, <3>5 DEF Pids
<1>9. Zombies'
  <2>1. at'[Parent] = IF Parent \in dying THEN where ELSE at[Parent]
    BY <1>1
  <2>2. CASE at'[Parent] \in {"create", "start"}
    <3>1. at[Parent] \in {"create", "start"} /\ ~heard
      BY <2>1, <2>2
    <3>2. Gone \subseteq early /\ early' = early \cup orphans
      BY <1>2, <3>1 DEF Zombies
    <3>3. Gone' \subseteq early'
      BY <1>7, <3>2
    <3> QED
      BY <2>2, <3>3 DEF Zombies
  <2>3. CASE at'[Parent] = "loop"
    <3>1. at[Parent] = "loop"
      BY <2>1, <2>3
    <3>2. "CHLD" \in pending[Parent] => "CHLD" \in pending'[Parent]
      BY <1>3
    <3>3. Announced => Announced'
      BY <3>2 DEF Announced
    <3>4. CASE orphans = {}
      <4>1. Gone' = Gone /\ early' = early
        BY <1>2, <1>7, <3>4
      <4> QED
        BY <2>3, <3>1, <3>3, <4>1 DEF Zombies
    <3>5. CASE orphans # {}
      <4>1. "CHLD" \in pending'[Parent]
        BY <1>3, <3>1, <3>5
      <4> QED
        BY <2>3, <4>1 DEF Zombies, Announced
    <3> QED
      BY <3>4, <3>5
  <2> QED
    BY <2>2, <2>3 DEF Zombies
<1>10. Turns'
  BY <1>1, TurnsFrame
<1> QED
  BY <1>4, <1>5, <1>6, <1>8, <1>9, <1>10

\* The processes that the parent, or somebody else, kills.
LEMMA KillStep ==
    ASSUME TypeOK, Pids, Zombies, Turns,
           NEW targets \in SUBSET Procs, Kill(targets),
           UNCHANGED <<m_pid, sub_process_counter, reaped, sent, m_stop, sig_pipe>>,
           (\E k \in 1..Len(signals[Parent]) : signals[Parent][k] = "CHLD")
              => (\E k \in 1..Len(signals'[Parent]) : signals'[Parent][k] = "CHLD")
    PROVE  /\ at' \in [Procs -> {"unborn", "create", "start", "loop", "left", "killed"}]
           /\ pending' \in [Procs -> SUBSET {"CHLD", "TERM"}]
           /\ early' \in SUBSET Child
           /\ Pids' /\ Zombies' /\ Turns'
<1> DEFINE dying == {p \in targets : at[p] \in {"create", "start"}}
           termed == {p \in targets : at[p] = "loop"}
<1>1. Signalled(dying, "killed", termed)
  BY DEF Kill
<1>2. /\ dying \in SUBSET Procs /\ termed \in SUBSET Procs
      /\ \A p \in dying : at[p] \in {"create", "start", "loop"}
  OBVIOUS
<1> HIDE DEF dying, termed
<1> QED
  BY <1>1, <1>2, SignalledStep

\* The first of a sequence of signals is taken; the others stay.
LEMMA TakeSignal ==
    ASSUME TypeOK, NEW p \in Procs, NEW s, Signal(p, s)
    PROVE  /\ signals' \in [Procs -> Seq({"CHLD", "TERM"})]
           /\ at[p] = "loop"
           /\ p # Parent => signals'[Parent] = signals[Parent]
           /\ s # "CHLD" =>
                 ((\E k \in 1..Len(signals[Parent]) : signals[Parent][k] = "CHLD")
                  => (\E k \in 1..Len(signals'[Parent]) : signals'[Parent][k] = "CHLD"))
<1>1. /\ signals[p] \in Seq({"CHLD", "TERM"}) /\ signals[p] # <<>>
      /\ Head(signals[p]) = s /\ at[p] = "loop"
      /\ signals' = [signals EXCEPT ![p] = Tail(@)]
  BY DEF Signal, TypeOK
<1>2. /\ Tail(signals[p]) \in Seq({"CHLD", "TERM"})
      /\ Len(Tail(signals[p])) = Len(signals[p]) - 1
      /\ \A k \in 1..(Len(signals[p]) - 1) : Tail(signals[p])[k] = signals[p][k + 1]
      /\ signals[p][1] = s /\ Len(signals[p]) \in Nat \ {0}
  BY <1>1
<1>3. signals' \in [Procs -> Seq({"CHLD", "TERM"})]
  BY <1>1, <1>2 DEF TypeOK
<1>4. p # Parent => signals'[Parent] = signals[Parent]
  BY <1>1, ParentIsNoChild DEF TypeOK
<1>5. ASSUME s # "CHLD", p = Parent,
             NEW k \in 1..Len(signals[p]), signals[p][k] = "CHLD"
      PROVE  \E j \in 1..Len(signals'[p]) : signals'[p][j] = "CHLD"
  <2>1. signals'[p] = Tail(signals[p])
    BY <1>1, <1>5 DEF TypeOK
  <2>2. k # 1 /\ k - 1 \in 1..Len(Tail(signals[p]))
    BY <1>2, <1>5
  <2>3. Tail(signals[p])[k - 1] = "CHLD"
    BY <1>2, <1>5, <2>2
  <2> QED
    BY <2>1, <2>2, <2>3
<1> QED
  BY <1>1, <1>3, <1>4, <1>5

\* The state before the constructor.
LEMMA InitIInv == Init => IInv
<1> SUFFICES ASSUME Init PROVE IInv
  OBVIOUS
<1> USE ConstantsAssumption, ParentIsNoChild DEF Init
<1>1. TypeOK
  BY DEF TypeOK, Child
<1>2. Pids /\ Zombies
  BY DEF Pids, Zombies, Gone, Procs
<1>3. Turns
  BY DEF Turns, Child
<1> QED
  BY <1>1, <1>2, <1>3 DEF IInv

\* Every step of the processes, of signals and of their surroundings
\* preserves the invariant.
LEMMA NextIInv == IInv /\ [Next]_vars => IInv'
<1> SUFFICES ASSUME IInv, [Next]_vars PROVE IInv'
  OBVIOUS
<1> USE ParentIsNoChild
<1>t. TypeOK /\ Pids /\ Zombies /\ Turns
  BY DEF IInv
<1>c. Child \subseteq Procs
  BY DEF Procs
<1>1. ASSUME NEW p \in Procs, Deliver(p) PROVE IInv'
  <2>1. PICK s \in pending[p] : /\ pending' = [pending EXCEPT ![p] = @ \ {s}]
                                /\ sig_pipe' = [sig_pipe EXCEPT ![p] = Append(@, s)]
    BY <1>1 DEF Deliver
  <2>2. /\ s \in {"CHLD", "TERM"} /\ sig_pipe[p] \in Seq({"CHLD", "TERM"})
        /\ edge' = [edge EXCEPT ![p] = @ \cup {"sig"}]
        /\ UNCHANGED <<at, poolVars, m_stop, pipe, backlog, signals, events, early, envVars>>
    BY <1>1, <1>t, <2>1 DEF Deliver, TypeOK
  <2>3. TypeOK'
    BY <1>t, <2>1, <2>2 DEF TypeOK, poolVars, envVars, Sources
  <2>4. Announced => Announced'
    <3>1. /\ Append(sig_pipe[p], s)[Len(sig_pipe[p]) + 1] = s
          /\ \A k \in 1..Len(sig_pipe[p]) : Append(sig_pipe[p], s)[k] = sig_pipe[p][k]
          /\ Len(Append(sig_pipe[p], s)) = Len(sig_pipe[p]) + 1 /\ Len(sig_pipe[p]) \in Nat
      BY <2>2
    <3>2. signals' = signals
      BY <2>2
    <3>3. CASE p # Parent
      BY <1>t, <2>1, <3>2, <3>3 DEF Announced, TypeOK
    <3>4. CASE p = Parent
      <4>1. sig_pipe'[Parent] = Append(sig_pipe[p], s) /\ pending'[Parent] = pending[p] \ {s}
        BY <1>t, <2>1, <3>4 DEF TypeOK
      <4> QED
        BY <3>1, <3>2, <3>4, <4>1 DEF Announced
    <3> QED
      BY <3>3, <3>4
  <2>5. Pids' /\ Zombies' /\ Turns'
    BY <1>t, <2>2, <2>4, PidsFrame, ZombiesFrame, TurnsFrame DEF poolVars
  <2> QED
    BY <2>3, <2>5 DEF IInv
<1>2. ASSUME NEW i \in Child, Fork(i) PROVE IInv'
  <2>1. /\ at[Parent] = "create" /\ at[i] = "unborn"
        /\ \A j \in Child : j < i => at[j] # "unborn"
        /\ m_pid' = [m_pid EXCEPT ![i] = TRUE]
        /\ UNCHANGED <<m_stop, sub_process_counter, pipe, backlog, sigVars, edge,
                   events, reaped, early, sent, envVars>>
    BY <1>2 DEF Fork
  <2>2. /\ at' \in [Procs -> {"unborn", "create", "start", "loop", "left", "killed"}]
        /\ at'[i] = "start"
        /\ at'[Parent] = IF i = m_process_number - 1 THEN "start" ELSE "create"
        /\ \A j \in Child : j # i => at'[j] = at[j]
    BY <1>2, <1>t, <1>c DEF Fork, TypeOK
  <2>3. TypeOK'
    BY <1>t, <1>c, <2>1, <2>2 DEF TypeOK, sigVars, envVars
  <2>4. i \notin reaped /\ Gone' = Gone
    BY <1>t, <2>1, <2>2 DEF Pids, Gone
  <2>5. Pids'
    <3>1. \A j \in Child : m_pid'[j] <=> at'[j] # "unborn" /\ j \notin reaped'
      BY <1>t, <2>1, <2>2, <2>4 DEF Pids, TypeOK
    <3>2. at'[Parent] = "start" => \A j \in Child : at'[j] # "unborn"
      <4>1. i = m_process_number - 1 => \A j \in Child : j = i \/ j < i
        BY ConstantsAssumption DEF Child
      <4> QED
        BY <2>1, <2>2, <4>1
    <3>3. at'[Parent] \in {"start", "create"}
      BY <2>2
    <3> QED
      BY <1>t, <2>1, <2>4, <3>1, <3>2, <3>3 DEF Pids
  <2>6. Zombies'
    BY <1>t, <2>1, <2>2, <2>4 DEF Zombies
  <2>7. Turns'
    <3>1. sub_process_counter' = 0 /\ \A j \in Child : sent'[j] = 0
      BY <1>t, <2>1 DEF Turns
    <3>2. \A j \in Child : sent'[j] = IF j < sub_process_counter' THEN 0 + 1 ELSE 0
      BY <3>1 DEF Child
    <3> QED
      BY <3>1, <3>2 DEF Turns
  <2> QED
    BY <2>3, <2>5, <2>6, <2>7 DEF IInv
<1>3. ASSUME NEW p \in Procs, Setup(p) PROVE IInv'
  <2>1. /\ at[p] = "start" /\ at' = [at EXCEPT ![p] = "loop"]
        /\ UNCHANGED <<poolVars, m_stop, pipe, backlog, sigVars, events, early, envVars>>
        /\ edge' = [edge EXCEPT ![p] =
              IF p = Parent THEN {s \in {"listen"} : backlog > 0}
                            ELSE {s \in {"pipe"} : pipe[p] > 0}]
    BY <1>3 DEF Setup
  <2>2. TypeOK'
    BY <1>t, <2>1 DEF TypeOK, poolVars, sigVars, envVars, Sources
  <2>3. Gone' = Gone /\ \A i \in Child : (at'[i] = "unborn") <=> (at[i] = "unborn")
    BY <1>t, <1>c, <2>1 DEF TypeOK, Gone
  <2>4. at'[Parent] = IF p = Parent THEN "loop" ELSE at[Parent]
    BY <1>t, <2>1 DEF TypeOK
  <2>5. Pids'
    BY <1>t, <2>1, <2>3, <2>4 DEF Pids, poolVars
  <2>6. Zombies'
    <3>1. Announced => Announced'
      BY <2>1 DEF Announced, sigVars
    <3> QED
      BY <1>t, <2>1, <2>3, <2>4, <3>1 DEF Zombies, poolVars
  <2>7. Turns'
    BY <1>t, <2>1, <2>4, TurnsFrame DEF poolVars
  <2> QED
    BY <2>2, <2>5, <2>6, <2>7 DEF IInv
<1>4. ASSUME NEW p \in Procs, EpollWait(p) PROVE IInv'
  <2>1. TypeOK'
    BY <1>4, <1>t DEF EpollWait, TypeOK, poolVars, sigVars, envVars
  <2>2. Announced => Announced'
    BY <1>4 DEF EpollWait, Announced, sigVars
  <2>3. Pids' /\ Zombies' /\ Turns'
    BY <1>4, <1>t, <2>2, PidsFrame, ZombiesFrame, TurnsFrame DEF EpollWait, poolVars
  <2> QED
    BY <2>1, <2>3 DEF IInv
<1>5. ASSUME NEW p \in Procs, Leave(p) PROVE IInv'
  <2>1. /\ at[p] = "loop" /\ m_stop[p] /\ Signalled({p}, "left", {})
        /\ UNCHANGED <<poolVars, m_stop, pipe, backlog, sig_pipe, signals, edge, events, envVars>>
    BY <1>5 DEF Leave, Idle
  <2>2. /\ at' \in [Procs -> {"unborn", "create", "start", "loop", "left", "killed"}]
        /\ pending' \in [Procs -> SUBSET {"CHLD", "TERM"}]
        /\ early' \in SUBSET Child
        /\ Pids' /\ Zombies' /\ Turns'
    <3>1. /\ {p} \in SUBSET Procs /\ {} \in SUBSET Procs /\ "left" \in {"left", "killed"}
          /\ \A q \in {p} : at[q] \in {"create", "start", "loop"}
          /\ Parent \in {p} => m_stop[Parent]
          /\ UNCHANGED <<m_pid, sub_process_counter, reaped, sent, m_stop, sig_pipe, signals>>
      BY <2>1 DEF poolVars
    <3> QED
      BY <1>t, <2>1, <3>1, SignalledStep
  <2>3. TypeOK'
    BY <1>t, <2>1, <2>2 DEF TypeOK, poolVars, envVars
  <2> QED
    BY <2>2, <2>3 DEF IInv
<1>6. ASSUME NEW p \in Procs, ReadSignals(p) PROVE IInv'
  <2>1. /\ signals[p] = <<>> /\ signals' = [signals EXCEPT ![p] = sig_pipe[p]]
        /\ sig_pipe' = [sig_pipe EXCEPT ![p] = <<>>]
        /\ UNCHANGED <<at, poolVars, m_stop, pipe, backlog, pending, edge, early, envVars>>
        /\ events' = [events EXCEPT ![p] = @ \ {"sig"}]
    BY <1>6 DEF ReadSignals, Event
  <2>2. TypeOK'
    BY <1>t, <2>1 DEF TypeOK, poolVars, envVars
  <2>3. Announced => Announced'
    <3>1. CASE p # Parent
      BY <1>t, <2>1, <3>1 DEF Announced, TypeOK
    <3>2. CASE p = Parent
      <4>1. signals'[Parent] = sig_pipe[Parent] /\ signals[Parent] = <<>>
        BY <1>t, <2>1, <3>2 DEF TypeOK
      <4> QED
        BY <2>1, <4>1 DEF Announced
    <3> QED
      BY <3>1, <3>2
  <2>4. Pids' /\ Zombies' /\ Turns'
    BY <1>t, <2>1, <2>3, PidsFrame, ZombiesFrame, TurnsFrame DEF poolVars
  <2> QED
    BY <2>2, <2>4 DEF IInv
<1>7. CASE NewConnection
  <2> DEFINE k0 == CHOOSE k \in Running : \A j \in Running : k <= j
             i0 == Turn(k0)
  <2>1. /\ at[Parent] = "loop" /\ Running # {}
        /\ events' = [events EXCEPT ![Parent] = @ \ {"listen"}]
        /\ sub_process_counter' = (i0 + 1) % m_process_number
        /\ sent' = [sent EXCEPT ![i0] = @ + 1]
        /\ IF i0 \in Gone THEN UNCHANGED <<pipe, edge>>
           ELSE /\ pipe' = [pipe EXCEPT ![i0] = @ + 1]
                /\ edge' = [edge EXCEPT ![i0] =
                              IF at[i0] = "loop" THEN @ \cup {"pipe"} ELSE @]
        /\ UNCHANGED <<at, m_pid, m_stop, reaped, backlog, sigVars, early, envVars>>
    BY <1>7 DEF NewConnection, Event
  <2>2. sub_process_counter \in Nat /\ Child \subseteq Nat
        /\ sub_process_counter < m_process_number /\ 0 \in Child
    BY <1>t, ConstantsAssumption DEF TypeOK, Child
  <2>3. \A k \in Child : Turn(k) \in Child
    BY <2>2, Modulo DEF Turn
  <2>4. k0 \in Running /\ \A j \in Running : k0 <= j
    <3>1. \E k \in Running : \A j \in Running : k <= j
      <4>1. Running \subseteq Nat
        BY <2>2 DEF Running
      <4> QED
        BY <2>1, <4>1, SmallestExists
    <3> QED
      BY <3>1
  <2>5. i0 \in Child /\ k0 \in Child /\ m_pid[i0]
    BY <2>3, <2>4 DEF Running
  <2> HIDE DEF i0, k0
  <2>6. sub_process_counter' \in Child
    <3>1. i0 + 1 \in Nat
      BY <2>2, <2>5
    <3> QED
      BY <2>1, <3>1, Modulo
  \* The children between the counter and i0 are the dead ones skipped.
  <2>7. ASSUME NEW i \in Child, m_pid[i]
        PROVE  IF i0 >= sub_process_counter
               THEN i >= i0 \/ i < sub_process_counter
               ELSE i >= i0 /\ i < sub_process_counter
    <3>1. PICK k \in Child : Turn(k) = i
      BY <1>t, TurnOnto DEF TypeOK
    <3>2. k0 <= k
      BY <2>4, <2>7, <3>1 DEF Running
    <3>3. i = IF sub_process_counter + k < m_process_number
              THEN sub_process_counter + k
              ELSE (sub_process_counter + k) - m_process_number
      BY <1>t, <3>1, TurnValue DEF TypeOK
    <3>4. i0 = IF sub_process_counter + k0 < m_process_number
               THEN sub_process_counter + k0
               ELSE (sub_process_counter + k0) - m_process_number
      BY <1>t, <2>5, TurnValue DEF TypeOK, i0
    <3>5. /\ k \in 0..(m_process_number - 1) /\ k0 \in 0..(m_process_number - 1)
          /\ m_process_number \in Nat
      BY <2>5, ConstantsAssumption DEF Child
    <3> QED
      BY <2>2, <3>2, <3>3, <3>4, <3>5
  <2>8. TypeOK'
    <3>1. sent' \in [Child -> Nat]
      BY <1>t, <2>1, <2>5 DEF TypeOK
    <3>2. pipe' \in [Child -> Nat]
      <4>1. pipe' = pipe \/ pipe' = [pipe EXCEPT ![i0] = @ + 1]
        BY <2>1
      <4>2. pipe \in [Child -> Nat]
        BY <1>t DEF TypeOK
      <4>3. [pipe EXCEPT ![i0] = @ + 1] \in [Child -> Nat]
        BY <2>5, <4>2
      <4> QED
        BY <4>1, <4>2, <4>3
    <3>3. edge' \in [Procs -> SUBSET Sources]
      <4>1. CASE i0 \in Gone
        BY <1>t, <2>1, <4>1 DEF TypeOK
      <4>2. CASE i0 \notin Gone
        <5>1. edge[i0] \cup {"pipe"} \in SUBSET Sources /\ edge[i0] \in SUBSET Sources
          BY <1>t, <1>c, <2>5 DEF TypeOK, Sources
        <5> QED
          BY <1>t, <2>1, <4>2, <5>1 DEF TypeOK
      <4> QED
        BY <4>1, <4>2
    <3>4. events' \in [Procs -> SUBSET Sources]
      BY <1>t, <2>1 DEF TypeOK
    <3> QED
      BY <1>t, <2>1, <2>6, <3>1, <3>2, <3>3, <3>4 DEF TypeOK, sigVars, envVars
  <2>9. Pids' /\ Zombies'
    <3>1. Announced => Announced'
      BY <2>1 DEF Announced, sigVars
    <3> QED
      BY <1>t, <2>1, <3>1, PidsFrame, ZombiesFrame
  <2>10. Turns'
    <3> DEFINE c == sub_process_counter
               n == m_process_number
    <3> SUFFICES \E b \in Nat : \A i \in Child :
                    m_pid[i] => sent'[i] = IF i < c' THEN b + 1 ELSE b
      BY <2>1 DEF Turns
    <3>1. PICK b \in Nat : \A i \in Child :
             m_pid[i] => sent[i] = IF i < c THEN b + 1 ELSE b
      BY <1>t DEF Turns
    <3>2. \A i \in Child : sent'[i] = IF i = i0 THEN sent[i] + 1 ELSE sent[i]
      BY <1>t, <2>1, <2>5 DEF TypeOK
    <3>3. /\ n \in Nat /\ i0 \in Nat /\ i0 < n
          /\ \A i \in Child : i \in Nat /\ i < n
      BY <2>5, ConstantsAssumption DEF Child
    <3>4. \/ i0 + 1 < n /\ c' = i0 + 1
          \/ i0 + 1 = n /\ c' = 0
      <4>1. i0 + 1 \in Nat /\ (i0 + 1 < n \/ i0 + 1 = n)
        BY <3>3
      <4> QED
        BY <2>1, <4>1, Modulo
    <3>5. c \in Nat /\ c < n
      BY <2>2
    <3>6. CASE i0 >= c /\ i0 + 1 < n
      <4>1. \A i \in Child : m_pid[i] => sent'[i] = IF i < c' THEN b + 1 ELSE b
        BY <2>5, <2>7, <3>1, <3>2, <3>3, <3>4, <3>5, <3>6
      <4> QED
        BY <4>1
    <3>7. CASE ~(i0 >= c /\ i0 + 1 < n)
      \* The round is over: everyone left has had b + 1.
      <4>1. \A i \in Child : m_pid[i] => sent'[i] = IF i < c' THEN (b + 1) + 1 ELSE b + 1
        BY <2>5, <2>7, <3>1, <3>2, <3>3, <3>4, <3>5, <3>7
      <4> QED
        BY <4>1
    <3> QED
      BY <3>6, <3>7
  <2> QED
    BY <2>8, <2>9, <2>10 DEF IInv
<1>8. CASE NobodyLeft
  <2>1. /\ at[Parent] = "loop" /\ Running = {}
        /\ m_stop' = [m_stop EXCEPT ![Parent] = TRUE]
        /\ events' = [events EXCEPT ![Parent] = {}]
        /\ UNCHANGED <<at, poolVars, pipe, backlog, sigVars, edge, early, envVars>>
    BY <1>8 DEF NobodyLeft, Event
  <2>2. TypeOK'
    BY <1>t, <2>1 DEF TypeOK, poolVars, sigVars, envVars
  <2>3. reaped = Child
    <3>1. ASSUME NEW i \in Child PROVE i \in reaped
      <4>1. \E k \in Child : Turn(k) = i
        BY <1>t, TurnOnto DEF TypeOK
      <4>2. ~m_pid[i]
        BY <2>1, <4>1 DEF Running
      <4> QED
        BY <1>t, <2>1, <4>2 DEF Pids
    <3> QED
      BY <1>t, <3>1 DEF TypeOK
  <2>4. Pids'
    BY <1>t, <2>1, <2>3 DEF Pids, Gone, poolVars
  <2>5. Zombies' /\ Turns'
    <3>1. Announced => Announced'
      BY <2>1 DEF Announced, sigVars
    <3> QED
      BY <1>t, <2>1, <3>1, ZombiesFrame, TurnsFrame DEF poolVars
  <2> QED
    BY <2>2, <2>4, <2>5 DEF IInv
<1>9. CASE ParentChild
  <2>1. /\ Signal(Parent, "CHLD") /\ reaped' = Gone
        /\ m_pid' = [i \in Child |-> m_pid[i] /\ i \notin Gone]
        /\ m_stop' = [m_stop EXCEPT ![Parent] = \A i \in Child : ~m_pid'[i]]
        /\ UNCHANGED <<at, sub_process_counter, sent, pipe, backlog, pending,
                   sig_pipe, edge, events, early, envVars>>
    BY <1>9 DEF ParentChild
  <2>2. signals' \in [Procs -> Seq({"CHLD", "TERM"})] /\ at[Parent] = "loop"
    BY <1>t, <2>1, TakeSignal
  <2>3. Gone' = Gone /\ Gone \subseteq Child
    BY <2>1 DEF Gone
  <2>4. TypeOK'
    BY <1>t, <2>1, <2>2, <2>3 DEF TypeOK, envVars
  <2>5. \A i \in Child : m_pid'[i] <=> at[i] # "unborn" /\ i \notin Gone
    BY <1>t, <2>1 DEF Pids
  <2>6. m_stop'[Parent] <=> \A i \in Child : ~m_pid'[i]
    BY <1>t, <2>1 DEF TypeOK
  <2>7. Pids'
    BY <1>t, <2>1, <2>2, <2>3, <2>5, <2>6 DEF Pids
  <2>8. Zombies'
    BY <2>1, <2>2, <2>3 DEF Zombies
  <2>9. Turns'
    BY <1>t, <2>1, <2>2 DEF Turns
  <2> QED
    BY <2>4, <2>7, <2>8, <2>9 DEF IInv
<1>10. CASE ParentTerm
  <2>1. /\ Signal(Parent, "TERM") /\ Kill({i \in Child : m_pid[i]})
        /\ UNCHANGED <<poolVars, m_stop, pipe, backlog, sig_pipe, edge, events, envVars>>
    BY <1>10 DEF ParentTerm
  <2>2. /\ signals' \in [Procs -> Seq({"CHLD", "TERM"})]
        /\ (\E k \in 1..Len(signals[Parent]) : signals[Parent][k] = "CHLD")
             => (\E k \in 1..Len(signals'[Parent]) : signals'[Parent][k] = "CHLD")
    BY <1>t, <2>1, TakeSignal
  <2>3. {i \in Child : m_pid[i]} \in SUBSET Procs
    BY <1>c
  <2>4. /\ at' \in [Procs -> {"unborn", "create", "start", "loop", "left", "killed"}]
        /\ pending' \in [Procs -> SUBSET {"CHLD", "TERM"}]
        /\ early' \in SUBSET Child
        /\ Pids' /\ Zombies' /\ Turns'
    BY <1>t, <2>1, <2>2, <2>3, KillStep DEF poolVars
  <2>5. TypeOK'
    BY <1>t, <2>1, <2>2, <2>4 DEF TypeOK, poolVars, envVars
  <2> QED
    BY <2>4, <2>5 DEF IInv
<1>11. ASSUME NEW i \in Child, ChildAccept(i) PROVE IInv'
  <2>1. TypeOK'
    BY <1>11, <1>t, <1>c DEF ChildAccept, TypeOK, poolVars, sigVars, envVars
  <2>2. Announced => Announced'
    BY <1>11 DEF ChildAccept, Announced, sigVars
  <2>3. Pids' /\ Zombies' /\ Turns'
    BY <1>11, <1>t, <2>2, PidsFrame, ZombiesFrame, TurnsFrame DEF ChildAccept, poolVars
  <2> QED
    BY <2>1, <2>3 DEF IInv
<1>12. ASSUME NEW i \in Child, ChildTerm(i) PROVE IInv'
  <2>1. /\ Signal(i, "TERM") /\ m_stop' = [m_stop EXCEPT ![i] = TRUE]
        /\ UNCHANGED <<at, poolVars, pipe, backlog, pending, sig_pipe, edge, events,
                   early, envVars>>
    BY <1>12 DEF ChildTerm
  <2>2. /\ signals' \in [Procs -> Seq({"CHLD", "TERM"})]
        /\ signals'[Parent] = signals[Parent]
    BY <1>t, <1>c, <2>1, TakeSignal
  <2>3. m_stop'[Parent] = m_stop[Parent]
    BY <1>t, <2>1 DEF TypeOK
  <2>4. TypeOK'
    BY <1>t, <1>c, <2>1, <2>2 DEF TypeOK, poolVars, envVars
  <2>5. Pids'
    BY <1>t, <2>1, <2>3 DEF Pids, Gone, poolVars
  <2>6. Zombies' /\ Turns'
    <3>1. Announced => Announced'
      BY <2>1, <2>2 DEF Announced
    <3> QED
      BY <1>t, <2>1, <3>1, ZombiesFrame, TurnsFrame DEF poolVars
  <2> QED
    BY <2>4, <2>5, <2>6 DEF IInv
<1>13. CASE Connect
  <2>1. TypeOK'
    BY <1>13, <1>t, ConstantsAssumption
    DEF Connect, TypeOK, poolVars, sigVars, Sources
  <2>2. Announced => Announced'
    BY <1>13 DEF Connect, Announced, sigVars
  <2>3. Pids' /\ Zombies' /\ Turns'
    BY <1>13, <1>t, <2>2, PidsFrame, ZombiesFrame, TurnsFrame DEF Connect, poolVars
  <2> QED
    BY <2>1, <2>3 DEF IInv
<1>14. ASSUME NEW p \in Procs, Terminate(p) PROVE IInv'
  <2>1. /\ kills < MaxKills /\ kills' = kills + 1 /\ Kill({p})
        /\ UNCHANGED <<poolVars, m_stop, pipe, backlog, sig_pipe, signals, edge,
                   events, arrived, crashes>>
    BY <1>14 DEF Terminate
  <2>2. /\ at' \in [Procs -> {"unborn", "create", "start", "loop", "left", "killed"}]
        /\ pending' \in [Procs -> SUBSET {"CHLD", "TERM"}]
        /\ early' \in SUBSET Child
        /\ Pids' /\ Zombies' /\ Turns'
    BY <1>t, <2>1, KillStep DEF poolVars
  <2>3. TypeOK'
    BY <1>t, <2>1, <2>2, ConstantsAssumption DEF TypeOK, poolVars
  <2> QED
    BY <2>2, <2>3 DEF IInv
<1>15. ASSUME NEW i \in Child, Crash(i) PROVE IInv'
  <2>1. /\ crashes < MaxCrashes /\ crashes' = crashes + 1
        /\ at[i] \in {"start", "loop"} /\ Signalled({i}, "killed", {})
        /\ UNCHANGED <<poolVars, m_stop, pipe, backlog, sig_pipe, signals, edge,
                   events, arrived, kills>>
    BY <1>15 DEF Crash
  <2>2. /\ at' \in [Procs -> {"unborn", "create", "start", "loop", "left", "killed"}]
        /\ pending' \in [Procs -> SUBSET {"CHLD", "TERM"}]
        /\ early' \in SUBSET Child
        /\ Pids' /\ Zombies' /\ Turns'
    <3>1. /\ {i} \in SUBSET Procs /\ {} \in SUBSET Procs /\ "killed" \in {"left", "killed"}
          /\ \A q \in {i} : at[q] \in {"create", "start", "loop"}
          /\ UNCHANGED <<m_pid, sub_process_counter, reaped, sent, m_stop, sig_pipe, signals>>
      BY <1>c, <2>1 DEF poolVars
    <3> QED
      BY <1>t, <2>1, <3>1, SignalledStep
  <2>3. TypeOK'
    BY <1>t, <2>1, <2>2, ConstantsAssumption DEF TypeOK, poolVars
  <2> QED
    BY <2>2, <2>3 DEF IInv
<1>16. CASE UNCHANGED vars
  <2>1. TypeOK'
    BY <1>16, <1>t DEF vars, TypeOK
  <2>2. Announced => Announced'
    BY <1>16 DEF vars, Announced
  <2>3. Pids' /\ Zombies' /\ Turns'
    BY <1>16, <1>t, <2>2, PidsFrame, ZombiesFrame, TurnsFrame DEF vars
  <2> QED
    BY <2>1, <2>3 DEF IInv
<1> QED
  BY <1>1, <1>2, <1>3, <1>4, <1>5, <1>6, <1>7, <1>8, <1>9, <1>10, <1>11, <1>12,
     <1>13, <1>14, <1>15, <1>16
  DEF Next, RunParent, RunChild, RunLoop

\* The invariant of the process pool.
THEOREM Invariance == Spec => []IInv
<1> QED
  BY InitIInv, NextIInv, PTL DEF Spec

\* The state of the pool has its types; sub_process_counter names a child.
THEOREM TypeCorrect == Spec => []TypeOK
<1>1. IInv => TypeOK
  BY DEF IInv
<1> QED
  BY <1>1, Invariance, PTL

\* run_parent returns only after waitpid has returned all children, and never
\* keeps the pid of one that was reaped.
THEOREM LeavesLast == Spec => []ParentLeavesLast
<1>1. IInv => ParentLeavesLast
  BY DEF IInv, Pids, ParentLeavesLast, TypeOK
<1> QED
  BY <1>1, Invariance, PTL

\* No child that ends while the parent has its handler is forgotten, although
\* signals of one kind merge.
THEOREM NoLostChild == Spec => []ZombieIsAnnounced
<1>1. IInv => ZombieIsAnnounced
  BY DEF IInv, Zombies, Announced, ZombieIsAnnounced
<1> QED
  BY <1>1, Invariance, PTL

\* No child gets two connections more than another that is left, also when
\* dead children are skipped between them.
THEOREM FairTurns == Spec => []RoundRobin
<1>1. ASSUME IInv PROVE RoundRobin
  <2> SUFFICES ASSUME NEW i \in Child, NEW j \in Child, m_pid[i], m_pid[j]
               PROVE  sent[i] - sent[j] <= 1
    BY DEF RoundRobin
  <2>1. PICK b \in Nat : \A k \in Child :
           m_pid[k] => sent[k] = IF k < sub_process_counter THEN b + 1 ELSE b
    BY <1>1 DEF IInv, Turns
  <2> QED
    BY <2>1
<1> QED
  BY <1>1, Invariance, PTL
=============================================================================
