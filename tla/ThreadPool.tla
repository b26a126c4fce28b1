----------------------------- MODULE ThreadPool -----------------------------
(***************************************************************************)
(* lib/threadpool: a fixed set of POSIX threads that take tasks from one   *)
(* FIFO queue under a mutex (queue_lock) and sleep on a condition variable *)
(* (queue_ready).  The main thread creates the threads, adds tasks and     *)
(* finally destroys the pool.                                              *)
(*                                                                         *)
(* Tasks are numbered in the order in which they are added, so that task n *)
(* is the n-th call of threadpool_add_worker.  The code that a thread runs *)
(* while it holds queue_lock is cut only where another thread can          *)
(* interfere without the lock: threadpool_destroy writes pool->shutdown    *)
(* and broadcasts, and threadpool_add_worker signals, all unlocked.        *)
(*                                                                         *)
(* malloc may fail whenever a task is added.  A task that queue_enqueue    *)
(* could not store is counted all the same, and a thread that later finds  *)
(* the queue empty fails its assertion, which ends the process.  That      *)
(* threadpool_init gets its memory and its threads is taken for granted.   *)
(***************************************************************************)
EXTENDS Integers, Sequences, FiniteSets

CONSTANTS
    Workers,    \* the pool's threads; max_thread_num = Cardinality(Workers)
    NumTasks,   \* bound on the number of tasks main adds
    None        \* no thread, no task

ASSUME ConstantsAssumption ==
    /\ NumTasks \in Nat
    /\ None \notin Workers
    /\ None \notin Nat

VARIABLES
    queue_lock,      \* the thread that holds the mutex, or None
    queue_ready,     \* the threads blocked in pthread_cond_wait
    work_queue,      \* tasks added and not yet dequeued
    cur_queue_size,
    shutdown,
    pc,              \* where each pool thread is in threadpool_handle
    worker,          \* the task each thread has dequeued and not finished
    main_pc,         \* where main is
    added,           \* number of calls of threadpool_add_worker
    accepted,        \* history: the tasks queue_enqueue stored, in order
    taken,           \* history: number of tasks dequeued by the threads
    done,            \* history: tasks whose process function has returned
    freed            \* free(pool) has been executed

vars == <<queue_lock, queue_ready, work_queue, cur_queue_size, shutdown, pc,
          worker, main_pc, added, accepted, taken, done, freed>>

threadVars == <<pc, worker, taken, done>>

Tasks == 1..NumTasks

\* Positions in threadpool_handle.  "unborn": not created yet; "lock": about
\* to lock; "test": at the while condition; "sleep": condition seen true,
\* about to enter pthread_cond_wait; "waiting": blocked; "relock": woken and
\* taking the mutex back; "check": past the loop, at if (pool->shutdown);
\* "take": about to dequeue; "run": running the task; "exited"; "killed":
\* the process has died.
HandlePC == {"unborn", "lock", "test", "sleep", "waiting", "relock",
             "check", "take", "run", "exited", "killed"}

\* The positions in which a pool thread owns queue_lock.
LockedPC == {"test", "sleep", "check", "take"}

\* "aborted": an assertion failed; "crashed": a NULL pointer was used.
MainPC == {"create", "ready", "signal", "broadcast", "join", "done",
           "aborted", "crashed"}

Died == main_pc \in {"aborted", "crashed"}

\* Tasks that were reported as added and are in no queue.
Unstored == added - Len(accepted)

Init ==
    /\ queue_lock = None
    /\ queue_ready = {}
    /\ work_queue = <<>>
    /\ cur_queue_size = 0
    /\ shutdown = FALSE
    /\ pc = [w \in Workers |-> "unborn"]
    /\ worker = [w \in Workers |-> None]
    /\ main_pc = "create"
    /\ added = 0
    /\ accepted = <<>>
    /\ taken = 0
    /\ done = {}
    /\ freed = FALSE

-----------------------------------------------------------------------------
(* Main thread *)

\* One round of the loop of threadpool_init; a created thread runs at once,
\* while the others are still to be created.
CreateThread(w) ==
    /\ main_pc = "create"
    /\ pc[w] = "unborn"
    /\ pc' = [pc EXCEPT ![w] = "lock"]
    /\ UNCHANGED <<queue_lock, queue_ready, work_queue, cur_queue_size,
                   shutdown, worker, main_pc, added, accepted, taken, done, freed>>

\* threadpool_init returns.
InitReturns ==
    /\ main_pc = "create"
    /\ \A w \in Workers : pc[w] # "unborn"
    /\ main_pc' = "ready"
    /\ UNCHANGED <<queue_lock, queue_ready, work_queue, cur_queue_size,
                   shutdown, threadVars, added, accepted, freed>>

\* Mutant of AddWorker: the task goes to the front of the list.
AddWorkerAtHead ==
    /\ main_pc = "ready"
    /\ added < NumTasks
    /\ queue_lock = None
    /\ \/ /\ work_queue' = <<added + 1>> \o work_queue
          /\ accepted' = Append(accepted, added + 1)
       \/ UNCHANGED <<work_queue, accepted>>
    /\ cur_queue_size' = cur_queue_size + 1
    /\ added' = added + 1
    /\ main_pc' = "signal"
    /\ UNCHANGED <<queue_lock, queue_ready, shutdown, threadVars, freed>>

\* threadpool_add_worker up to pthread_mutex_unlock.  queue_enqueue returns
\* -1 when it has no memory for the list element, which nobody looks at.
AddWorker ==
    /\ main_pc = "ready"
    /\ added < NumTasks
    /\ queue_lock = None
    /\ \/ /\ work_queue' = Append(work_queue, added + 1)
          /\ accepted' = Append(accepted, added + 1)
       \/ UNCHANGED <<work_queue, accepted>>
    /\ cur_queue_size' = cur_queue_size + 1
    /\ added' = added + 1
    /\ main_pc' = "signal"
    /\ UNCHANGED <<queue_lock, queue_ready, shutdown, threadVars, freed>>

\* All threads end at once, with what they have in their hands.
ProcessDies(how) ==
    /\ main_pc' = how
    /\ pc' = [w \in Workers |-> "killed"]
    /\ queue_lock' = None
    /\ queue_ready' = {}
    /\ UNCHANGED <<work_queue, cur_queue_size, shutdown, worker, added, accepted,
                   taken, done, freed>>

\* threadpool_add_worker: malloc returns NULL and the task is written there.
AddWorkerCrashes ==
    /\ main_pc = "ready"
    /\ added < NumTasks
    /\ ProcessDies("crashed")

\* Mutant of Signal: the call is missing.
SignalMissing ==
    /\ main_pc = "signal"
    /\ main_pc' = "ready"
    /\ UNCHANGED <<queue_lock, queue_ready, work_queue, cur_queue_size,
                   shutdown, threadVars, added, accepted, freed>>

\* pthread_cond_signal, after the unlock: wakes one blocked thread, if any.
Signal ==
    /\ main_pc = "signal"
    /\ IF queue_ready = {}
       THEN UNCHANGED <<queue_ready, pc>>
       ELSE \E w \in queue_ready :
               /\ queue_ready' = queue_ready \ {w}
               /\ pc' = [pc EXCEPT ![w] = "relock"]
    /\ main_pc' = "ready"
    /\ UNCHANGED <<queue_lock, work_queue, cur_queue_size, shutdown, worker,
                   added, accepted, taken, done, freed>>

\* threadpool_destroy: the unlocked write of pool->shutdown.  main may call
\* it while tasks are still queued or running (it only sleeps 5 s first).
DestroySetFlag ==
    /\ main_pc = "ready"
    /\ ~shutdown
    /\ shutdown' = TRUE
    /\ main_pc' = "broadcast"
    /\ UNCHANGED <<queue_lock, queue_ready, work_queue, cur_queue_size,
                   threadVars, added, accepted, freed>>

\* threadpool_destroy: pthread_cond_broadcast, also unlocked.
DestroyBroadcast ==
    /\ main_pc = "broadcast"
    /\ pc' = [w \in Workers |-> IF w \in queue_ready THEN "relock" ELSE pc[w]]
    /\ queue_ready' = {}
    /\ main_pc' = "join"
    /\ UNCHANGED <<queue_lock, work_queue, cur_queue_size, shutdown, worker,
                   added, accepted, taken, done, freed>>

\* Mutant of DestroyJoinAndFree: the pthread_join loop is missing.
DestroyWithoutJoin ==
    /\ main_pc = "join"
    /\ work_queue' = <<>>
    /\ freed' = TRUE
    /\ main_pc' = "done"
    /\ UNCHANGED <<queue_lock, queue_ready, cur_queue_size, shutdown,
                   threadVars, added, accepted>>

\* threadpool_destroy: every pthread_join has returned; the queue is drained
\* without running what it holds, and the pool is freed.
DestroyJoinAndFree ==
    /\ main_pc = "join"
    /\ \A w \in Workers : pc[w] = "exited"
    /\ work_queue' = <<>>
    /\ freed' = TRUE
    /\ main_pc' = "done"
    /\ UNCHANGED <<queue_lock, queue_ready, cur_queue_size, shutdown,
                   threadVars, added, accepted>>

-----------------------------------------------------------------------------
(* Pool threads: threadpool_handle *)

\* Mutant of Lock: pthread_cond_wait under an if instead of a while.
LockWithoutRetest(w) ==
    /\ pc[w] \in {"lock", "relock"}
    /\ queue_lock = None
    /\ queue_lock' = w
    /\ pc' = [pc EXCEPT ![w] = IF @ = "lock" THEN "test" ELSE "check"]
    /\ UNCHANGED <<queue_ready, work_queue, cur_queue_size, shutdown, worker,
                   main_pc, added, accepted, taken, done, freed>>

\* pthread_mutex_lock at the top of the loop, or the one that ends a
\* pthread_cond_wait.
Lock(w) ==
    /\ pc[w] \in {"lock", "relock"}
    /\ queue_lock = None
    /\ queue_lock' = w
    /\ pc' = [pc EXCEPT ![w] = "test"]
    /\ UNCHANGED <<queue_ready, work_queue, cur_queue_size, shutdown, worker,
                   main_pc, added, accepted, taken, done, freed>>

\* while (pool->cur_queue_size == 0 && !pool->shutdown)
TestQueue(w) ==
    /\ pc[w] = "test"
    /\ pc' = [pc EXCEPT ![w] = IF cur_queue_size = 0 /\ ~shutdown
                               THEN "sleep" ELSE "check"]
    /\ UNCHANGED <<queue_lock, queue_ready, work_queue, cur_queue_size,
                   shutdown, worker, main_pc, added, accepted, taken, done, freed>>

\* pthread_cond_wait releases the mutex and blocks in one step.
CondWait(w) ==
    /\ pc[w] = "sleep"
    /\ queue_lock' = None
    /\ queue_ready' = queue_ready \cup {w}
    /\ pc' = [pc EXCEPT ![w] = "waiting"]
    /\ UNCHANGED <<work_queue, cur_queue_size, shutdown, worker, main_pc,
                   added, accepted, taken, done, freed>>

\* POSIX lets pthread_cond_wait return without a signal.
SpuriousWakeup(w) ==
    /\ pc[w] = "waiting"
    /\ queue_ready' = queue_ready \ {w}
    /\ pc' = [pc EXCEPT ![w] = "relock"]
    /\ UNCHANGED <<queue_lock, work_queue, cur_queue_size, shutdown, worker,
                   main_pc, added, accepted, taken, done, freed>>

\* if (pool->shutdown): a second, separate read of the unlocked flag.
CheckShutdown(w) ==
    /\ pc[w] = "check"
    /\ IF shutdown
       THEN /\ queue_lock' = None
            /\ pc' = [pc EXCEPT ![w] = "exited"]
       ELSE /\ pc' = [pc EXCEPT ![w] = "take"]
            /\ UNCHANGED queue_lock
    /\ UNCHANGED <<queue_ready, work_queue, cur_queue_size, shutdown, worker,
                   main_pc, added, accepted, taken, done, freed>>

\* assert(cur_queue_size != 0) and assert(queue_peek(...) != NULL).
Asserts == cur_queue_size # 0 /\ work_queue # <<>>

AssertFails(w) ==
    /\ pc[w] = "take"
    /\ ~Asserts
    /\ ProcessDies("aborted")

\* cur_queue_size--, queue_peek, queue_dequeue, unlock.
TakeTask(w) ==
    /\ pc[w] = "take"
    /\ Asserts
    /\ cur_queue_size' = cur_queue_size - 1
    /\ worker' = [worker EXCEPT ![w] = Head(work_queue)]
    /\ work_queue' = Tail(work_queue)
    /\ taken' = taken + 1
    /\ queue_lock' = None
    /\ pc' = [pc EXCEPT ![w] = "run"]
    /\ UNCHANGED <<queue_ready, shutdown, main_pc, added, accepted, done, freed>>

\* Mutant of RunTask: the task is freed and its function never called.
RunTaskDropped(w) ==
    /\ pc[w] = "run"
    /\ worker' = [worker EXCEPT ![w] = None]
    /\ pc' = [pc EXCEPT ![w] = "lock"]
    /\ UNCHANGED <<queue_lock, queue_ready, work_queue, cur_queue_size,
                   shutdown, main_pc, added, accepted, taken, done, freed>>

\* (*(worker->process))(worker->arg); free(worker).
RunTask(w) ==
    /\ pc[w] = "run"
    /\ done' = done \cup {worker[w]}
    /\ worker' = [worker EXCEPT ![w] = None]
    /\ pc' = [pc EXCEPT ![w] = "lock"]
    /\ UNCHANGED <<queue_lock, queue_ready, work_queue, cur_queue_size,
                   shutdown, main_pc, added, accepted, taken, freed>>

-----------------------------------------------------------------------------
Main ==
    \/ \E w \in Workers : CreateThread(w)
    \/ InitReturns
    \/ AddWorker
    \/ AddWorkerCrashes
    \/ Signal
    \/ DestroySetFlag
    \/ DestroyBroadcast
    \/ DestroyJoinAndFree

\* What a thread does when the scheduler runs it; a spurious wake-up is the
\* system's doing and never guaranteed.
Handle(w) ==
    \/ Lock(w)
    \/ TestQueue(w)
    \/ CondWait(w)
    \/ CheckShutdown(w)
    \/ AssertFails(w)
    \/ TakeTask(w)
    \/ RunTask(w)

\* main returns after threadpool_destroy, or has died; the process is over.
Finished == (main_pc = "done" \/ Died) /\ UNCHANGED vars

Next ==
    \/ Main
    \/ \E w \in Workers : Handle(w) \/ SpuriousWakeup(w)
    \/ Finished

\* Every thread that can run is eventually run, and the mutex is handed to
\* each contender eventually (strong fairness of Lock).  Nothing forces main
\* to add another task or to destroy the pool, and malloc need not ever fail.
Fairness ==
    /\ WF_vars(\E w \in Workers : CreateThread(w))
    /\ WF_vars(InitReturns)
    /\ WF_vars(Signal)
    /\ WF_vars(DestroyBroadcast)
    /\ WF_vars(DestroyJoinAndFree)
    /\ \A w \in Workers : WF_vars(Handle(w)) /\ SF_vars(Lock(w))

Spec == Init /\ [][Next]_vars

FairSpec == Spec /\ Fairness

-----------------------------------------------------------------------------
(* Properties *)

\* The mutex has one holder, the counters stay in range (cur_queue_size, an
\* int in the code, never goes below zero) and threads are at known places.
TypeOK ==
    /\ queue_lock \in Workers \cup {None}
    /\ queue_ready \in SUBSET Workers
    /\ work_queue \in Seq(Tasks)
    /\ cur_queue_size \in Nat
    /\ shutdown \in BOOLEAN
    /\ pc \in [Workers -> HandlePC]
    /\ worker \in [Workers -> Tasks \cup {None}]
    /\ main_pc \in MainPC
    /\ added \in 0..NumTasks
    /\ accepted \in Seq(Tasks)
    /\ taken \in 0..NumTasks
    /\ done \in SUBSET Tasks
    /\ freed \in BOOLEAN

\* The two assertions of threadpool_handle, assert(cur_queue_size != 0) and
\* assert(queue_peek(...) != NULL).  Whatever is signalled, broadcast or woken
\* spuriously, a thread that gets to them finds the counter positive, and a
\* task in the queue unless an earlier queue_enqueue failed for want of
\* memory.  Nothing but that makes the pool abort.
AssertsHoldWithMemory ==
    /\ \A w \in Workers : pc[w] = "take" => /\ cur_queue_size # 0
                                            /\ Unstored = 0 => work_queue # <<>>
    /\ main_pc = "aborted" => Unstored > 0

\* Queue and history agree: what is queued is exactly the tasks stored and
\* not yet taken, in the order in which they were added, so that none of them
\* is lost, duplicated or overtaken in the queue until the final drain; and
\* cur_queue_size is larger than their number by exactly the tasks that could
\* not be stored.  The difference is never made good.
QueueIsFifo ==
    /\ ~freed => /\ work_queue = SubSeq(accepted, taken + 1, Len(accepted))
                 /\ cur_queue_size = Len(work_queue) + Unstored
    /\ \A i, j \in 1..Len(accepted) : i < j => accepted[i] < accepted[j]

\* Every task that left the queue is held by exactly one thread or has been
\* run to its end, never both: a task is run at most once and none vanishes
\* between queue_dequeue and its process function.
TakenExactlyOnce ==
    /\ \A i \in 1..taken :
          accepted[i] \notin done => \E w \in Workers : worker[w] = accepted[i]
    /\ \A w \in Workers :
          worker[w] # None => /\ worker[w] \notin done
                              /\ \E i \in 1..taken : worker[w] = accepted[i]
    /\ \A v, w \in Workers :
          v # w /\ worker[v] # None => worker[v] # worker[w]

\* free(pool), mutex and condition destruction happen only when no thread
\* can touch them any more, and no thread exits while it holds a task or
\* the mutex.
FreedOnlyWhenAllExited ==
    /\ freed => /\ queue_lock = None
                /\ \A w \in Workers : pc[w] = "exited"
    /\ \A w \in Workers :
          pc[w] = "exited" => worker[w] = None /\ queue_lock # w

\* What the properties above rest on.  The mutex is held exactly in the
\* locked positions, the condition variable's wait set is exactly the
\* blocked threads, a thread holds a task exactly while it runs it, a thread
\* past the while loop has seen a non-empty queue or the shutdown flag, and
\* main's position tells how far creation and destruction have come.
Discipline ==
    /\ \A w \in Workers :
          /\ pc[w] \in LockedPC <=> queue_lock = w
          /\ w \in queue_ready <=> pc[w] = "waiting"
          /\ pc[w] = "run" => worker[w] # None
          /\ worker[w] # None => pc[w] \in {"run", "killed"}
          /\ pc[w] = "killed" <=> Died
          /\ pc[w] = "check" => cur_queue_size # 0 \/ shutdown
          /\ pc[w] = "take" => cur_queue_size # 0
          /\ pc[w] = "unborn" => main_pc = "create"
          /\ pc[w] = "exited" => shutdown
          /\ main_pc = "done" => pc[w] = "exited"
    /\ main_pc \in {"broadcast", "join", "done"} => shutdown
    /\ shutdown => Died \/ main_pc \in {"broadcast", "join", "done"}
    /\ freed <=> main_pc = "done"
    /\ main_pc = "aborted" => Unstored > 0
    /\ taken <= Len(accepted) /\ Len(accepted) <= added
    /\ \A i \in 1..Len(accepted) : accepted[i] <= added
    /\ done \subseteq {accepted[i] : i \in 1..taken}

\* The inductive invariant of the proofs in ThreadPoolProofs.
IInv == TypeOK /\ Discipline /\ QueueIsFifo /\ TakenExactlyOnce

\* A signal is never lost: every task that was added is eventually run,
\* unless main shuts the pool down first or the process dies.  Even a task that
\* was not stored does not just go missing: the threads come to its assertion.
EveryTaskRuns ==
    \A t \in Tasks : (t <= added) ~> (t \in done \/ shutdown \/ Died)

\* threadpool_destroy comes back once it was called, as threadpool_main.c
\* relies on before free(workingnum) and return 0, unless the process dies.
DestroyReturns == shutdown ~> (freed \/ Died)
=============================================================================
