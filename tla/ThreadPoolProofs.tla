-------------------------- MODULE ThreadPoolProofs --------------------------
(***************************************************************************)
(* TLAPS proofs about ThreadPool, for any set of threads and any number of *)
(* tasks: IInv is inductive, and the safety properties follow from it.     *)
(***************************************************************************)
EXTENDS ThreadPool, SequenceTheorems, TLAPS

\* A task that is stored comes behind those that wait (queue_enqueue).
LEMMA StoreLast ==
    ASSUME NEW S, NEW s \in Seq(S), NEW k \in 0..Len(s), NEW t \in S
    PROVE  Append(SubSeq(s, k + 1, Len(s)), t)
              = SubSeq(Append(s, t), k + 1, Len(Append(s, t)))
<1> DEFINE q == SubSeq(s, k + 1, Len(s))
           a == Append(s, t)
<1>1. a \in Seq(S) /\ Len(a) = Len(s) + 1 /\ Len(s) \in Nat
  OBVIOUS
<1>2. q \in Seq(S) /\ Len(q) = Len(s) - k /\ \A i \in 1..Len(q) : q[i] = s[k + i]
  BY <1>1, SubSeqProperties
<1>3. /\ SubSeq(a, k + 1, Len(a)) \in Seq(S)
      /\ Len(SubSeq(a, k + 1, Len(a))) = Len(s) + 1 - k
      /\ \A i \in 1..(Len(s) + 1 - k) : SubSeq(a, k + 1, Len(a))[i] = a[k + i]
  BY <1>1, SubSeqProperties
<1>4. Append(q, t) \in Seq(S) /\ Len(Append(q, t)) = Len(s) + 1 - k
  BY <1>1, <1>2
<1>5. \A i \in 1..(Len(s) + 1 - k) : Append(q, t)[i] = a[k + i]
  <2> SUFFICES ASSUME NEW i \in 1..(Len(s) + 1 - k) PROVE Append(q, t)[i] = a[k + i]
    OBVIOUS
  <2>1. CASE i <= Len(s) - k
    <3>1. Append(q, t)[i] = q[i] /\ a[k + i] = s[k + i]
      BY <1>1, <1>2, <2>1
    <3> QED
      BY <1>1, <1>2, <2>1, <3>1
  <2>2. CASE i = Len(s) - k + 1
    <3>1. Append(q, t)[i] = t
      BY <1>1, <1>2, <2>2
    <3>2. a[k + i] = t
      BY <1>1, <2>2
    <3> QED
      BY <3>1, <3>2
  <2> QED
    BY <1>1, <2>1, <2>2
<1>6. Append(q, t) = SubSeq(a, k + 1, Len(a))
  BY <1>3, <1>4, <1>5, SeqEqual
<1> QED
  BY <1>6

\* Of the tasks that wait, the one that was stored first is taken, and the
\* others stay in their order (queue_peek and queue_dequeue).
LEMMA TakeFirst ==
    ASSUME NEW S, NEW s \in Seq(S), NEW k \in 0..Len(s), k < Len(s)
    PROVE  /\ SubSeq(s, k + 1, Len(s)) # <<>>
           /\ Head(SubSeq(s, k + 1, Len(s))) = s[k + 1]
           /\ Tail(SubSeq(s, k + 1, Len(s))) = SubSeq(s, k + 2, Len(s))
           /\ Len(SubSeq(s, k + 2, Len(s))) = Len(SubSeq(s, k + 1, Len(s))) - 1
<1> DEFINE q == SubSeq(s, k + 1, Len(s))
           r == SubSeq(s, k + 2, Len(s))
<1>1. q \in Seq(S) /\ Len(q) = Len(s) - k /\ \A i \in 1..Len(q) : q[i] = s[k + i]
  BY SubSeqProperties
<1>2. /\ r \in Seq(S) /\ Len(r) = Len(s) - k - 1
      /\ \A i \in 1..(Len(s) - k - 1) : r[i] = s[k + 1 + i]
  BY SubSeqProperties
<1>3. q # <<>> /\ Head(q) = s[k + 1]
  BY <1>1
<1>4. Tail(q) \in Seq(S) /\ Len(Tail(q)) = Len(s) - k - 1
  BY <1>1, <1>3
<1>5. \A i \in 1..(Len(s) - k - 1) : Tail(q)[i] = r[i]
  BY <1>1, <1>2, <1>3
<1>6. Tail(q) = r
  BY <1>2, <1>4, <1>5, SeqEqual
<1> QED
  BY <1>1, <1>2, <1>3, <1>6

\* The queue is a sequence of tasks as long as what is left of the history.
LEMMA WaitingType ==
    ASSUME NEW S, NEW s \in Seq(S), NEW k \in 0..Len(s)
    PROVE  /\ SubSeq(s, k + 1, Len(s)) \in Seq(S)
           /\ Len(SubSeq(s, k + 1, Len(s))) = Len(s) - k
  BY SubSeqProperties

-----------------------------------------------------------------------------
\* The state threadpool_init starts from satisfies the invariant.
LEMMA InitIInv == Init => IInv
<1> SUFFICES ASSUME Init PROVE IInv
  OBVIOUS
<1> USE ConstantsAssumption DEF Init
<1>1. TypeOK
  <2>1. work_queue \in Seq(Tasks) /\ accepted \in Seq(Tasks)
    OBVIOUS
  <2>2. pc \in [Workers -> HandlePC] /\ worker \in [Workers -> Tasks \cup {None}]
    BY DEF HandlePC
  <2>3. /\ queue_lock \in Workers \cup {None}
        /\ queue_ready \in SUBSET Workers
        /\ done \in SUBSET Tasks
        /\ main_pc \in MainPC
    BY DEF MainPC
  <2>4. cur_queue_size \in Nat /\ added \in 0..NumTasks /\ taken \in 0..NumTasks
    OBVIOUS
  <2>5. shutdown \in BOOLEAN /\ freed \in BOOLEAN
    OBVIOUS
  <2> QED
    BY <2>1, <2>2, <2>3, <2>4, <2>5 DEF TypeOK
<1>2. Discipline
  BY DEF Discipline, LockedPC, Died, Unstored
<1>3. QueueIsFifo
  BY DEF QueueIsFifo, Unstored
<1>4. TakenExactlyOnce
  BY DEF TakenExactlyOnce
<1> QED
  BY <1>1, <1>2, <1>3, <1>4 DEF IInv

\* Each operation of the pool preserves the invariant.
LEMMA NextIInv == IInv /\ [Next]_vars => IInv'
<1> SUFFICES ASSUME IInv, [Next]_vars PROVE IInv'
  OBVIOUS
<1> USE ConstantsAssumption
<1>t. TypeOK /\ Discipline /\ QueueIsFifo /\ TakenExactlyOnce
  BY DEF IInv
<1>1. ASSUME NEW w \in Workers, CreateThread(w) PROVE IInv'
  <2>1. TypeOK'
    BY <1>1, <1>t DEF CreateThread, TypeOK, HandlePC
  <2>2. Discipline'
    BY <1>1, <1>t DEF CreateThread, TypeOK, Discipline, LockedPC, HandlePC, Died, Unstored
  <2>3. QueueIsFifo' /\ TakenExactlyOnce'
    BY <1>1, <1>t DEF CreateThread, QueueIsFifo, TakenExactlyOnce, Unstored
  <2> QED
    BY <2>1, <2>2, <2>3 DEF IInv
<1>2. CASE InitReturns
  <2>1. TypeOK'
    BY <1>2, <1>t DEF InitReturns, TypeOK, MainPC, threadVars
  <2>2. Discipline'
    BY <1>2, <1>t DEF InitReturns, TypeOK, Discipline, threadVars, Died, Unstored
  <2>3. QueueIsFifo' /\ TakenExactlyOnce'
    BY <1>2, <1>t DEF InitReturns, QueueIsFifo, TakenExactlyOnce, Unstored, threadVars
  <2> QED
    BY <2>1, <2>2, <2>3 DEF IInv
<1>3. CASE AddWorker
  <2>0. /\ ~freed /\ added + 1 \in Tasks /\ added \in Nat /\ Len(accepted) \in Nat
        /\ accepted \in Seq(Tasks) /\ taken \in 0..Len(accepted)
    BY <1>3, <1>t DEF AddWorker, TypeOK, Discipline, Tasks
  <2>a. CASE work_queue' = Append(work_queue, added + 1)
             /\ accepted' = Append(accepted, added + 1)
    <3>0. /\ accepted' \in Seq(Tasks) /\ Len(accepted') = Len(accepted) + 1
          /\ \A i \in 1..Len(accepted) : accepted'[i] = accepted[i]
          /\ accepted'[Len(accepted) + 1] = added + 1
          /\ Len(work_queue') = Len(work_queue) + 1 /\ work_queue' \in Seq(Tasks)
      BY <1>t, <2>0, <2>a DEF TypeOK
    <3>1. TypeOK'
      BY <1>3, <1>t, <2>0, <3>0 DEF AddWorker, TypeOK, MainPC, threadVars
    <3>2. Discipline'
      <4>1. \A i \in 1..Len(accepted') : accepted'[i] <= added'
        <5>1. \A i \in 1..Len(accepted) : accepted[i] <= added /\ accepted[i] \in Int
          BY <1>t, <2>0 DEF Discipline, Tasks
        <5>2. added' = added + 1
          BY <1>3 DEF AddWorker
        <5>3. \A i \in 1..Len(accepted') : i \in 1..Len(accepted) \/ i = Len(accepted) + 1
          BY <2>0, <3>0
        <5> QED
          BY <2>0, <3>0, <5>1, <5>2, <5>3
      <4>2. done' \subseteq {accepted'[i] : i \in 1..taken'}
        <5>1. done' = done /\ taken' = taken /\ done \subseteq {accepted[i] : i \in 1..taken}
          BY <1>3, <1>t DEF AddWorker, Discipline, threadVars
        <5>2. \A i \in 1..taken : accepted'[i] = accepted[i]
          BY <2>0, <3>0
        <5> QED
          BY <5>1, <5>2
      <4>3. taken' <= Len(accepted') /\ Len(accepted') <= added' /\ added' \in Nat
        BY <1>3, <1>t, <2>0, <3>0 DEF AddWorker, Discipline, threadVars
      <4> QED
        BY <1>3, <1>t, <4>1, <4>2, <4>3
        DEF AddWorker, TypeOK, Discipline, threadVars, Died, Unstored
    <3>3. QueueIsFifo'
      <4>1. work_queue' = SubSeq(accepted', taken' + 1, Len(accepted'))
        BY <1>3, <1>t, <2>0, <2>a, StoreLast DEF AddWorker, QueueIsFifo, threadVars
      <4>2. cur_queue_size' = Len(work_queue') + Unstored'
        BY <1>3, <1>t, <2>0, <3>0 DEF AddWorker, QueueIsFifo, Unstored, TypeOK
      <4>3. \A i, j \in 1..Len(accepted') : i < j => accepted'[i] < accepted'[j]
        <5>1. \A i \in 1..Len(accepted) : accepted[i] <= added /\ accepted[i] \in Int
          BY <1>t, <2>0 DEF Discipline, Tasks
        <5>2. \A i, j \in 1..Len(accepted) : i < j => accepted[i] < accepted[j]
          BY <1>t DEF QueueIsFifo
        <5>3. \A i \in 1..Len(accepted') : i \in 1..Len(accepted) \/ i = Len(accepted) + 1
          BY <2>0, <3>0
        <5> QED
          BY <2>0, <3>0, <5>1, <5>2, <5>3
      <4> QED
        BY <4>1, <4>2, <4>3 DEF QueueIsFifo
    <3>4. TakenExactlyOnce'
      <4>1. \A i \in 1..taken : accepted'[i] = accepted[i]
        BY <2>0, <3>0
      <4> QED
        BY <1>3, <1>t, <4>1 DEF AddWorker, TakenExactlyOnce, threadVars
    <3> QED
      BY <3>1, <3>2, <3>3, <3>4 DEF IInv
  <2>b. CASE UNCHANGED <<work_queue, accepted>>
    <3>1. TypeOK'
      BY <1>3, <1>t, <2>0, <2>b DEF AddWorker, TypeOK, MainPC, threadVars
    <3>2. Discipline'
      BY <1>3, <1>t, <2>0, <2>b
      DEF AddWorker, TypeOK, Discipline, threadVars, Died, Unstored, Tasks
    <3>3. QueueIsFifo'
      <4>1. /\ cur_queue_size = Len(work_queue) + Unstored
            /\ work_queue = SubSeq(accepted, taken + 1, Len(accepted))
            /\ Len(work_queue) \in Nat
        BY <1>t, <2>0 DEF QueueIsFifo, TypeOK
      <4>2. Unstored' = Unstored + 1 /\ Unstored \in Int
        BY <1>3, <2>0, <2>b DEF AddWorker, Unstored
      <4>0. /\ work_queue' = work_queue /\ accepted' = accepted /\ taken' = taken
            /\ cur_queue_size' = cur_queue_size + 1
        BY <1>3, <2>b DEF AddWorker, threadVars
      <4>3. cur_queue_size' = Len(work_queue') + Unstored'
        <5>1. Len(work_queue') = Len(work_queue) /\ Len(accepted') = Len(accepted)
          BY <4>0
        <5>2. cur_queue_size = Len(work_queue) + added - Len(accepted)
          BY <2>0, <4>1 DEF Unstored
        <5>3. added' = added + 1 /\ cur_queue_size' = cur_queue_size + 1
          BY <1>3 DEF AddWorker
        <5>4. cur_queue_size' = Len(work_queue) + (added' - Len(accepted))
          <6>1. Len(work_queue) \in Nat /\ Len(accepted) \in Nat /\ added \in Nat
            BY <2>0, <4>1
          <6>2. \A q, a, n \in Int : (q + n - a) + 1 = q + ((n + 1) - a)
            OBVIOUS
          <6> QED
            BY <5>2, <5>3, <6>1, <6>2
        <5> QED
          BY <5>1, <5>4 DEF Unstored
      <4>4. work_queue' = SubSeq(accepted', taken' + 1, Len(accepted'))
        BY <4>0, <4>1
      <4> QED
        <5>1. \A i, j \in 1..Len(accepted) : i < j => accepted[i] < accepted[j]
          BY <1>t DEF QueueIsFifo
        <5>2. accepted' = accepted
          BY <2>b
        <5> QED
          BY <4>3, <4>4, <5>1, <5>2 DEF QueueIsFifo
    <3>4. TakenExactlyOnce'
      BY <1>3, <1>t, <2>b DEF AddWorker, TakenExactlyOnce, threadVars
    <3> QED
      BY <3>1, <3>2, <3>3, <3>4 DEF IInv
  <2> QED
    BY <1>3, <2>a, <2>b DEF AddWorker
<1>16. ASSUME NEW how \in {"aborted", "crashed"}, ProcessDies(how),
              main_pc \in {"ready", "signal", "broadcast", "join", "create"},
              how = "aborted" => Unstored > 0
       PROVE  IInv'
  <2>1. TypeOK'
    BY <1>16, <1>t DEF ProcessDies, TypeOK, MainPC, HandlePC
  <2>2. Discipline'
    BY <1>16, <1>t DEF ProcessDies, TypeOK, Discipline, LockedPC, Died, Unstored
  <2>3. QueueIsFifo' /\ TakenExactlyOnce'
    BY <1>16, <1>t DEF ProcessDies, QueueIsFifo, TakenExactlyOnce, Unstored
  <2> QED
    BY <2>1, <2>2, <2>3 DEF IInv
<1>17. CASE AddWorkerCrashes
  BY <1>16, <1>17 DEF AddWorkerCrashes
<1>18. ASSUME NEW w \in Workers, AssertFails(w) PROVE IInv'
  <2>1. /\ ~freed /\ cur_queue_size # 0 /\ work_queue = <<>>
        /\ main_pc \in {"ready", "signal", "broadcast", "join", "create"}
    BY <1>18, <1>t DEF AssertFails, Asserts, Discipline, TypeOK, MainPC, Died
  <2>2. Unstored > 0
    BY <1>t, <2>1 DEF QueueIsFifo, TypeOK, Unstored
  <2> QED
    BY <1>16, <1>18, <2>1, <2>2 DEF AssertFails
<1>4. CASE Signal
  <2>1. TypeOK'
    BY <1>4, <1>t DEF Signal, TypeOK, MainPC, HandlePC
  <2>2. Discipline'
    BY <1>4, <1>t DEF Signal, TypeOK, Discipline, LockedPC, HandlePC, Died, Unstored
  <2>3. QueueIsFifo' /\ TakenExactlyOnce'
    BY <1>4, <1>t DEF Signal, QueueIsFifo, TakenExactlyOnce, Unstored
  <2> QED
    BY <2>1, <2>2, <2>3 DEF IInv
<1>5. CASE DestroySetFlag
  <2>1. TypeOK'
    BY <1>5, <1>t DEF DestroySetFlag, TypeOK, MainPC, threadVars
  <2>2. Discipline'
    BY <1>5, <1>t DEF DestroySetFlag, TypeOK, Discipline, threadVars, Died, Unstored
  <2>3. QueueIsFifo' /\ TakenExactlyOnce'
    BY <1>5, <1>t DEF DestroySetFlag, QueueIsFifo, TakenExactlyOnce, Unstored, threadVars
  <2> QED
    BY <2>1, <2>2, <2>3 DEF IInv
<1>6. CASE DestroyBroadcast
  <2>1. TypeOK'
    BY <1>6, <1>t DEF DestroyBroadcast, TypeOK, MainPC, HandlePC
  <2>2. Discipline'
    BY <1>6, <1>t DEF DestroyBroadcast, TypeOK, Discipline, LockedPC, HandlePC, Died, Unstored
  <2>3. QueueIsFifo' /\ TakenExactlyOnce'
    BY <1>6, <1>t DEF DestroyBroadcast, QueueIsFifo, TakenExactlyOnce, Unstored
  <2> QED
    BY <2>1, <2>2, <2>3 DEF IInv
<1>7. CASE DestroyJoinAndFree
  <2>1. TypeOK'
    BY <1>7, <1>t DEF DestroyJoinAndFree, TypeOK, MainPC, threadVars
  <2>2. Discipline'
    BY <1>7, <1>t DEF DestroyJoinAndFree, TypeOK, Discipline, threadVars, Died, Unstored
  <2>3. QueueIsFifo' /\ TakenExactlyOnce'
    BY <1>7, <1>t
    DEF DestroyJoinAndFree, QueueIsFifo, TakenExactlyOnce, Unstored, threadVars
  <2> QED
    BY <2>1, <2>2, <2>3 DEF IInv
<1>8. ASSUME NEW w \in Workers, Lock(w) PROVE IInv'
  <2>1. TypeOK'
    BY <1>8, <1>t DEF Lock, TypeOK, HandlePC
  <2>2. Discipline'
    BY <1>8, <1>t DEF Lock, TypeOK, Discipline, LockedPC, HandlePC, Died, Unstored
  <2>3. QueueIsFifo' /\ TakenExactlyOnce'
    BY <1>8, <1>t DEF Lock, QueueIsFifo, TakenExactlyOnce, Unstored
  <2> QED
    BY <2>1, <2>2, <2>3 DEF IInv
<1>9. ASSUME NEW w \in Workers, TestQueue(w) PROVE IInv'
  <2>1. TypeOK'
    BY <1>9, <1>t DEF TestQueue, TypeOK, HandlePC
  <2>2. Discipline'
    BY <1>9, <1>t DEF TestQueue, TypeOK, Discipline, LockedPC, HandlePC, Died, Unstored
  <2>3. QueueIsFifo' /\ TakenExactlyOnce'
    BY <1>9, <1>t DEF TestQueue, QueueIsFifo, TakenExactlyOnce, Unstored
  <2> QED
    BY <2>1, <2>2, <2>3 DEF IInv
<1>10. ASSUME NEW w \in Workers, CondWait(w) PROVE IInv'
  <2>1. TypeOK'
    BY <1>10, <1>t DEF CondWait, TypeOK, HandlePC
  <2>2. Discipline'
    BY <1>10, <1>t DEF CondWait, TypeOK, Discipline, LockedPC, HandlePC, Died, Unstored
  <2>3. QueueIsFifo' /\ TakenExactlyOnce'
    BY <1>10, <1>t DEF CondWait, QueueIsFifo, TakenExactlyOnce, Unstored
  <2> QED
    BY <2>1, <2>2, <2>3 DEF IInv
<1>11. ASSUME NEW w \in Workers, SpuriousWakeup(w) PROVE IInv'
  <2>1. TypeOK'
    BY <1>11, <1>t DEF SpuriousWakeup, TypeOK, HandlePC
  <2>2. Discipline'
    BY <1>11, <1>t DEF SpuriousWakeup, TypeOK, Discipline, LockedPC, HandlePC, Died, Unstored
  <2>3. QueueIsFifo' /\ TakenExactlyOnce'
    BY <1>11, <1>t DEF SpuriousWakeup, QueueIsFifo, TakenExactlyOnce, Unstored
  <2> QED
    BY <2>1, <2>2, <2>3 DEF IInv
<1>12. ASSUME NEW w \in Workers, CheckShutdown(w) PROVE IInv'
  <2>1. TypeOK'
    BY <1>12, <1>t DEF CheckShutdown, TypeOK, HandlePC
  <2>2. Discipline'
    BY <1>12, <1>t DEF CheckShutdown, TypeOK, Discipline, LockedPC, HandlePC, Died, Unstored
  <2>3. QueueIsFifo' /\ TakenExactlyOnce'
    BY <1>12, <1>t DEF CheckShutdown, QueueIsFifo, TakenExactlyOnce, Unstored
  <2> QED
    BY <2>1, <2>2, <2>3 DEF IInv
<1>13. ASSUME NEW w \in Workers, TakeTask(w) PROVE IInv'
  <2>0. /\ ~freed /\ taken \in Nat /\ accepted \in Seq(Tasks) /\ Len(accepted) \in Nat
        /\ taken \in 0..Len(accepted) /\ Len(accepted) <= NumTasks
    BY <1>13, <1>t DEF TakeTask, TypeOK, Discipline
  <2>1. taken < Len(accepted)
    BY <1>13, <1>t, <2>0, WaitingType DEF TakeTask, Asserts, QueueIsFifo
  <2>2. /\ Head(work_queue) = accepted[taken + 1]
        /\ Tail(work_queue) = SubSeq(accepted, taken + 2, Len(accepted))
        /\ Len(Tail(work_queue)) = Len(work_queue) - 1
    BY <1>t, <2>0, <2>1, TakeFirst DEF QueueIsFifo
  <2>3. /\ Tail(work_queue) \in Seq(Tasks) /\ accepted[taken + 1] \in Tasks
        /\ Len(work_queue) = Len(accepted) - taken
    BY <1>13, <1>t, <2>0, <2>1, WaitingType DEF TakeTask, Asserts, TypeOK, QueueIsFifo
  <2>4. TypeOK'
    <3>1. cur_queue_size' \in Nat /\ taken' \in 0..NumTasks
      BY <1>13, <1>t, <2>0, <2>1 DEF TakeTask, Asserts, TypeOK
    <3> QED
      BY <1>13, <1>t, <2>2, <2>3, <3>1 DEF TakeTask, TypeOK, HandlePC
  <2>5. Discipline'
    <3>1. taken' <= Len(accepted') /\ done' \subseteq {accepted'[i] : i \in 1..taken'}
      BY <1>13, <1>t, <2>0, <2>1 DEF TakeTask, Discipline
    <3>2. accepted[taken + 1] # None
      BY <2>3 DEF Tasks
    <3> QED
      BY <1>13, <1>t, <2>2, <2>3, <3>1, <3>2
      DEF TakeTask, TypeOK, Discipline, LockedPC, HandlePC, Died, Unstored
  <2>6. QueueIsFifo'
    <3>1. /\ cur_queue_size = Len(work_queue) + Unstored
          /\ Unstored \in Int /\ Len(work_queue) \in Nat
      BY <1>t, <2>0, <2>3 DEF QueueIsFifo, Unstored, TypeOK
    <3>2. /\ cur_queue_size' = cur_queue_size - 1 /\ taken' = taken + 1
          /\ work_queue' = Tail(work_queue) /\ accepted' = accepted
          /\ Unstored' = Unstored
      BY <1>13 DEF TakeTask, Unstored
    <3>3. work_queue' = SubSeq(accepted', taken' + 1, Len(accepted'))
      <4>1. taken' + 1 = taken + 2
        BY <2>0, <3>2
      <4> QED
        BY <2>2, <3>2, <4>1
    <3>4. cur_queue_size' = Len(work_queue') + Unstored'
      BY <2>2, <3>1, <3>2
    <3> QED
      BY <1>t, <3>2, <3>3, <3>4 DEF QueueIsFifo
  <2>7. TakenExactlyOnce'
    <3>1. /\ worker' = [worker EXCEPT ![w] = accepted[taken + 1]]
          /\ pc[w] = "take" /\ taken' = taken + 1 /\ done' = done /\ accepted' = accepted
      BY <1>13, <2>2 DEF TakeTask
    <3>2. /\ worker \in [Workers -> Tasks \cup {None}]
          /\ pc \in [Workers -> HandlePC] /\ worker[w] = None
      BY <1>t, <3>1 DEF TypeOK, Discipline
    <3>3. \A i \in 1..taken : accepted[i] # accepted[taken + 1]
      <4>1. \A i \in 1..Len(accepted) : accepted[i] \in Int
        BY <2>0 DEF Tasks
      <4> QED
        BY <1>t, <2>0, <2>1, <4>1 DEF QueueIsFifo
    <3>4. accepted[taken + 1] \notin done
      BY <1>t, <3>3 DEF Discipline
    <3>5. \A i \in 1..taken' : i \in 1..taken \/ i = taken + 1
      BY <2>0, <3>1
    <3>6. taken + 1 \in 1..taken' /\ \A i \in 1..taken : i \in 1..taken'
      BY <2>0, <3>1
    <3>7. \A v \in Workers : v # w => worker'[v] = worker[v]
      BY <3>1, <3>2
    <3>8. worker'[w] = accepted[taken + 1]
      BY <3>1, <3>2
    <3>9. \A v \in Workers : v # w => worker[v] # accepted[taken + 1] \/ worker[v] = None
      BY <1>t, <3>3 DEF TakenExactlyOnce
    <3>10. ASSUME NEW i \in 1..taken', accepted'[i] \notin done'
           PROVE  \E v \in Workers : worker'[v] = accepted'[i]
      <4>1. CASE i = taken + 1
        BY <3>1, <3>8, <4>1
      <4>2. CASE i \in 1..taken
        <5>1. PICK v \in Workers : worker[v] = accepted[i]
          BY <1>t, <3>1, <3>10, <4>2 DEF TakenExactlyOnce
        <5>2. worker[v] # None
          <6>1. accepted[i] \in Tasks
            BY <2>0, <4>2
          <6> QED
            BY <5>1, <6>1 DEF Tasks
        <5> QED
          BY <3>1, <3>2, <3>7, <5>1, <5>2
      <4> QED
        BY <3>5, <4>1, <4>2
    <3>11. ASSUME NEW v \in Workers, worker'[v] # None
           PROVE  /\ worker'[v] \notin done'
                  /\ \E i \in 1..taken' : worker'[v] = accepted'[i]
      <4>1. CASE v = w
        BY <3>1, <3>4, <3>6, <3>8, <4>1
      <4>2. CASE v # w
        BY <1>t, <3>1, <3>6, <3>7, <3>11, <4>2 DEF TakenExactlyOnce
      <4> QED
        BY <4>1, <4>2
    <3>12. ASSUME NEW u \in Workers, NEW v \in Workers, u # v, worker'[u] # None
           PROVE  worker'[u] # worker'[v]
      <4>1. CASE u = w
        BY <3>7, <3>8, <3>9, <3>12, <4>1
      <4>2. CASE v = w
        BY <3>7, <3>8, <3>9, <3>12, <4>2
      <4>3. CASE u # w /\ v # w
        BY <1>t, <3>7, <3>12, <4>3 DEF TakenExactlyOnce
      <4> QED
        BY <4>1, <4>2, <4>3
    <3> QED
      BY <3>10, <3>11, <3>12 DEF TakenExactlyOnce
  <2> QED
    BY <2>4, <2>5, <2>6, <2>7 DEF IInv
<1>14. ASSUME NEW w \in Workers, RunTask(w) PROVE IInv'
  <2>1. worker[w] \in Tasks /\ \E i \in 1..taken : worker[w] = accepted[i]
    BY <1>14, <1>t DEF RunTask, TypeOK, Discipline, TakenExactlyOnce
  <2>2. TypeOK'
    BY <1>14, <1>t, <2>1 DEF RunTask, TypeOK, HandlePC
  <2>3. Discipline'
    BY <1>14, <1>t, <2>1
    DEF RunTask, TypeOK, Discipline, LockedPC, HandlePC, Died, Unstored
  <2>4. QueueIsFifo'
    BY <1>14, <1>t DEF RunTask, QueueIsFifo, Unstored
  <2>5. TakenExactlyOnce'
    BY <1>14, <1>t, <2>1 DEF RunTask, TypeOK, TakenExactlyOnce
  <2> QED
    BY <2>2, <2>3, <2>4, <2>5 DEF IInv
<1>15. CASE UNCHANGED vars
  BY <1>15, <1>t DEF vars, IInv, TypeOK, Discipline, QueueIsFifo,
                     TakenExactlyOnce, Died, Unstored
<1> QED
  BY <1>1, <1>2, <1>3, <1>4, <1>5, <1>6, <1>7, <1>8, <1>9, <1>10, <1>11,
     <1>12, <1>13, <1>14, <1>15, <1>17, <1>18
  DEF Next, Main, Handle, Finished

-----------------------------------------------------------------------------
\* The invariant holds in every reachable state of the pool.
THEOREM Invariance == Spec => []IInv
  BY InitIInv, NextIInv, PTL DEF Spec

\* The variables of the pool and of its threads keep their types; in
\* particular cur_queue_size never becomes negative.
THEOREM TypeCorrect == Spec => []TypeOK
<1>1. IInv => TypeOK
  BY DEF IInv
<1> QED
  BY <1>1, Invariance, PTL

\* An assertion of threadpool_handle fails only after a queue_enqueue that
\* found no memory: the first never does, and the second holds as long as
\* every task was stored.
THEOREM AssertsNeedMemory == Spec => []AssertsHoldWithMemory
<1>1. IInv => AssertsHoldWithMemory
  <2> SUFFICES ASSUME IInv PROVE AssertsHoldWithMemory
    OBVIOUS
  <2>1. ASSUME NEW w \in Workers, pc[w] = "take"
        PROVE  cur_queue_size # 0 /\ (Unstored = 0 => work_queue # <<>>)
    <3>1. cur_queue_size # 0 /\ ~freed
      BY <2>1, ConstantsAssumption DEF IInv, Discipline, TypeOK, LockedPC
    <3>2. work_queue = <<>> => Len(work_queue) = 0
      OBVIOUS
    <3>3. cur_queue_size = Len(work_queue) + Unstored
      BY <3>1 DEF IInv, QueueIsFifo
    <3> QED
      BY <3>1, <3>2, <3>3
  <2>2. main_pc = "aborted" => Unstored > 0
    BY DEF IInv, Discipline
  <2> QED
    BY <2>1, <2>2 DEF AssertsHoldWithMemory
<1> QED
  BY <1>1, Invariance, PTL

\* The work queue is FIFO, and cur_queue_size exceeds it by the tasks that
\* could not be stored.
THEOREM QueueFifo == Spec => []QueueIsFifo
<1>1. IInv => QueueIsFifo
  BY DEF IInv
<1> QED
  BY <1>1, Invariance, PTL

\* No task that left the queue is lost or run twice.
THEOREM ExactlyOnce == Spec => []TakenExactlyOnce
<1>1. IInv => TakenExactlyOnce
  BY DEF IInv
<1> QED
  BY <1>1, Invariance, PTL

\* The pool is freed only after its threads are gone.
THEOREM SafeFree == Spec => []FreedOnlyWhenAllExited
<1>1. IInv => FreedOnlyWhenAllExited
  BY ConstantsAssumption
  DEF IInv, TypeOK, Discipline, LockedPC, FreedOnlyWhenAllExited
<1> QED
  BY <1>1, Invariance, PTL
=============================================================================
