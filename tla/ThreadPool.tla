----------------------------- MODULE ThreadPool -----------------------------
(***************************************************************************)
(* The thread pool of TCPIP_programing/threadpool/threadpool.cpp: worker    *)
(* threads, the admin thread that grows and shrinks the pool, callers of    *)
(* threadpool_add, and the thread that calls threadpool_destroy.            *)
(*                                                                          *)
(* Reading of the file.  It does not compile as it stands; the model takes  *)
(* the least repair of each such line: the lock the workers take at         *)
(* &busy_thr_num (191, 200) is a mutex of its own, not the one the admin    *)
(* takes around its read (221); is_thread_alive (235) is an external        *)
(* function; the tests of lines 94, 104 and 301 are comparisons.            *)
(*                                                                          *)
(* Grain.  A stretch of code under pool->lock is one action unless a        *)
(* variable that is also touched without the lock (shutdown, the wait sets  *)
(* of the condition variables) can tell its steps apart.                    *)
(***************************************************************************)
EXTENDS Integers, FiniteSets

CONSTANTS
  Callers,         \* threads that call threadpool_add
  Tasks,           \* tasks they submit, each at most once
  NoTask,          \* no task: an unused ring entry or local variable
  MinThr, MaxThr,  \* min_thr_num, max_thr_num
  QueueMax,        \* queue_max_size
  MinWaitTaskNum,  \* MIN_WAIT_TASK_NUM
  ThreadVary       \* DEFAULT_THREAD_VARY

ASSUME PoolAssumption ==
  /\ MinThr \in Nat \ {0} /\ MaxThr \in Nat /\ MinThr <= MaxThr
  /\ QueueMax \in Nat \ {0}
  /\ MinWaitTaskNum \in Nat /\ ThreadVary \in Nat \ {0}
  /\ NoTask \notin Tasks

Slots == 0 .. MaxThr - 1     \* indices of threads[]; a worker is its slot
Ring == 0 .. QueueMax - 1    \* indices of task_queue[]
Unlocked == -1               \* pool->lock is free, or held by a slot, or by
MainThread == -2             \* the thread in threadpool_free

VARIABLES
  task_queue, queue_front, queue_rear, queue_size,
  live_thr_num, busy_thr_num, wait_exit_thr_num,
  shutdown,
  lock,          \* holder of pool->lock
  wpc, wtask,    \* each worker: where it is, its local variable task
  cpc, ctask,    \* each caller: where it is, the task it waits to add
  todo,          \* tasks no caller has submitted yet
  apc, seen,     \* the admin: where it is, the locals of its loop body
  signals,       \* the admin's i in its signal loop
  dpc, di,       \* threadpool_destroy: where it is, its i
  done           \* history: tasks whose function has run

ring == <<task_queue, queue_front, queue_rear, queue_size>>
counters == <<live_thr_num, busy_thr_num, wait_exit_thr_num>>
worker == <<wpc, wtask>>
caller == <<cpc, ctask, todo>>
admin == <<apc, seen, signals>>
destroyer == <<dpc, di>>
vars == <<ring, counters, shutdown, lock, worker, caller, admin, destroyer, done>>

At(pcs) == {w \in Slots : wpc[w] \in pcs}
NothingSeen == [queue_size |-> 0, live |-> 0, busy |-> 0]

Init ==
  /\ task_queue = [i \in Ring |-> NoTask]
  /\ queue_front = 0 /\ queue_rear = 0 /\ queue_size = 0
  /\ live_thr_num = MinThr /\ busy_thr_num = 0 /\ wait_exit_thr_num = 0
  /\ shutdown = FALSE
  /\ lock = Unlocked
  /\ wpc = [w \in Slots |-> IF w < MinThr THEN "start" ELSE "none"]
  /\ wtask = [w \in Slots |-> NoTask]
  /\ cpc = [c \in Callers |-> "idle"]
  /\ ctask = [c \in Callers |-> NoTask]
  /\ todo = Tasks
  /\ apc = "loop" /\ seen = NothingSeen /\ signals = 0
  /\ dpc = "idle" /\ di = 0
  /\ done = {}
-----------------------------------------------------------------------------
(* Condition variables.  A waiting thread is at "waiting"; a signal moves   *)
(* one of them, a broadcast all, to "woken", where it wants the lock back.  *)

WakeWorkers(W) == wpc' = [w \in Slots |-> IF w \in W THEN "woken" ELSE wpc[w]]
SignalNobody == UNCHANGED wpc   \* mutant of SignalNotEmpty
SignalIfWasEmpty ==             \* mutant of SignalNotEmpty
  IF queue_size > 0 \/ At({"waiting"}) = {} THEN UNCHANGED wpc
  ELSE \E w \in At({"waiting"}) : WakeWorkers({w})
SignalNotEmpty ==
  IF At({"waiting"}) = {} THEN UNCHANGED wpc
                          ELSE \E w \in At({"waiting"}) : WakeWorkers({w})
BroadcastNotEmpty == WakeWorkers(At({"waiting"}))
NotFullNotSignalled == UNCHANGED cpc   \* mutant of BroadcastNotFull
BroadcastNotFull ==
  cpc' = [c \in Callers |-> IF cpc[c] = "waiting" THEN "woken" ELSE cpc[c]]

(* POSIX lets pthread_cond_wait return without a signal.                    *)
SpuriousWake ==
  /\ \/ \E w \in At({"waiting"}) : WakeWorkers({w}) /\ UNCHANGED cpc
     \/ \E c \in Callers : /\ cpc[c] = "waiting"
                           /\ cpc' = [cpc EXCEPT ![c] = "woken"]
                           /\ UNCHANGED wpc
  /\ UNCHANGED <<ring, counters, shutdown, lock, wtask, ctask, todo, admin,
                 destroyer, done>>
-----------------------------------------------------------------------------
(* Worker threads.                                                          *)

NextIndexUnwrapped(i) == i + 1          \* mutant of NextIndex
NextIndex(i) == (i + 1) % QueueMax
MustSleep == queue_size = 0 /\ ~shutdown
CanLeaveUnbounded == wait_exit_thr_num > 0   \* mutant of CanLeave
CanLeave == wait_exit_thr_num > 0 /\ live_thr_num > MinThr
Step(w, from, to) == wpc[w] = from /\ wpc' = [wpc EXCEPT ![w] = to]

(* Lock the pool at the top of the loop. *)
Acquire(w) ==
  /\ lock = Unlocked
  /\ Step(w, "start", "check")
  /\ lock' = w
  /\ UNCHANGED <<ring, counters, shutdown, wtask, caller, admin, destroyer, done>>

(* The loop condition holds.  shutdown, written without the lock, may be    *)
(* set between this test and the wait.                                      *)
DecideToWait(w) ==
  /\ MustSleep
  /\ Step(w, "check", "towait")
  /\ UNCHANGED <<ring, counters, shutdown, lock, wtask, caller, admin, destroyer, done>>

(* pthread_cond_wait releases the lock and joins the wait set at once.      *)
Wait(w) ==
  /\ Step(w, "towait", "waiting")
  /\ lock' = Unlocked
  /\ UNCHANGED <<ring, counters, shutdown, wtask, caller, admin, destroyer, done>>

(* Mutant of WakeAndLeave: the leaving worker stays in live_thr_num.        *)
LeaveUncounted(w) ==
  /\ lock = Unlocked /\ CanLeave
  /\ Step(w, "woken", "leaving")
  /\ wait_exit_thr_num' = wait_exit_thr_num - 1
  /\ UNCHANGED <<ring, live_thr_num, busy_thr_num, shutdown, lock, wtask, caller, admin,
                 destroyer, done>>

(* Back from the wait with the lock: the worker is to be destroyed, ...     *)
WakeAndLeave(w) ==
  /\ lock = Unlocked
  /\ CanLeave
  /\ Step(w, "woken", "leaving")
  /\ wait_exit_thr_num' = wait_exit_thr_num - 1
  /\ live_thr_num' = live_thr_num - 1
  /\ UNCHANGED <<ring, busy_thr_num, shutdown, lock, wtask, caller, admin, destroyer, done>>

(* ... or evaluates the loop condition again.                               *)
WakeAndCheck(w) ==
  /\ lock = Unlocked
  /\ ~CanLeave
  /\ Step(w, "woken", "check")
  /\ lock' = w
  /\ wait_exit_thr_num' = IF wait_exit_thr_num > 0 THEN wait_exit_thr_num - 1
                                                   ELSE wait_exit_thr_num
  /\ UNCHANGED <<ring, live_thr_num, busy_thr_num, shutdown, wtask, caller, admin,
                 destroyer, done>>

Leave(w) ==
  /\ Step(w, "leaving", "gone")
  /\ UNCHANGED <<ring, counters, shutdown, lock, wtask, caller, admin, destroyer, done>>

(* The pool is shutting down: unlock, detach, exit.  live_thr_num stays.    *)
Quit(w) ==
  /\ shutdown
  /\ Step(w, "check", "quit")
  /\ lock' = Unlocked
  /\ UNCHANGED <<ring, counters, shutdown, wtask, caller, admin, destroyer, done>>

Stop(w) ==
  /\ Step(w, "quit", "stopped")
  /\ UNCHANGED <<ring, counters, shutdown, lock, wtask, caller, admin, destroyer, done>>

(* Take the task at the head of the ring, tell blocked callers, unlock.     *)
TakeTask(w) ==
  /\ ~MustSleep /\ ~shutdown
  /\ Step(w, "check", "got")
  /\ wtask' = [wtask EXCEPT ![w] = task_queue[queue_front]]
  /\ queue_front' = NextIndex(queue_front)
  /\ queue_size' = queue_size - 1
  /\ BroadcastNotFull
  /\ lock' = Unlocked
  /\ UNCHANGED <<task_queue, queue_rear, counters, shutdown, ctask, todo, admin,
                 destroyer, done>>

StartWork(w) ==
  /\ Step(w, "got", "run")
  /\ busy_thr_num' = busy_thr_num + 1
  /\ UNCHANGED <<ring, live_thr_num, wait_exit_thr_num, shutdown, lock, wtask, caller,
                 admin, destroyer, done>>

RunTask(w) ==
  /\ Step(w, "run", "ran")
  /\ done' = done \cup {wtask[w]}
  /\ UNCHANGED <<ring, counters, shutdown, lock, wtask, caller, admin, destroyer>>

(* Mutant of EndWork: the count is not taken back.                          *)
EndWorkUncounted(w) ==
  /\ Step(w, "ran", "start")
  /\ wtask' = [wtask EXCEPT ![w] = NoTask]
  /\ UNCHANGED <<ring, counters, shutdown, lock, caller, admin, destroyer, done>>

EndWork(w) ==
  /\ Step(w, "ran", "start")
  /\ busy_thr_num' = busy_thr_num - 1
  /\ wtask' = [wtask EXCEPT ![w] = NoTask]
  /\ UNCHANGED <<ring, live_thr_num, wait_exit_thr_num, shutdown, lock, caller, admin,
                 destroyer, done>>

Reacquire(w) == WakeAndLeave(w) \/ WakeAndCheck(w)
WorkerLocks(w) == Acquire(w) \/ Reacquire(w)
WorkerRuns(w) ==
  \/ DecideToWait(w) \/ Wait(w) \/ Leave(w) \/ Quit(w) \/ Stop(w)
  \/ TakeTask(w) \/ StartWork(w) \/ RunTask(w) \/ EndWork(w)
-----------------------------------------------------------------------------
(* Callers of threadpool_add.  A caller that holds the lock either has just *)
(* entered with a new task or is back from its wait with the one it had.    *)

Freed == dpc \in {"freeing", "done"}
Enters(c, t) == cpc[c] = "idle" /\ t \in todo /\ ~Freed
Resumes(c, t) == cpc[c] = "woken" /\ t = ctask[c]
QueueOverfull == queue_size > QueueMax   \* mutant of QueueFull
QueueFull == queue_size = QueueMax
Returns(c, t) ==
  /\ cpc' = [cpc EXCEPT ![c] = "idle"]
  /\ ctask' = [ctask EXCEPT ![c] = NoTask]
  /\ todo' = todo \ {t}

AddWait(c, t) ==
  /\ lock = Unlocked
  /\ Enters(c, t) \/ Resumes(c, t)
  /\ QueueFull /\ ~shutdown
  /\ cpc' = [cpc EXCEPT ![c] = "waiting"]
  /\ ctask' = [ctask EXCEPT ![c] = t]
  /\ todo' = todo \ {t}
  /\ UNCHANGED <<ring, counters, shutdown, lock, worker, admin, destroyer, done>>

(* Refused because of shutdown; the caller gets 0, as for success.          *)
AddRefused(c, t) ==
  /\ lock = Unlocked
  /\ Enters(c, t) \/ Resumes(c, t)
  /\ shutdown
  /\ BroadcastNotEmpty
  /\ Returns(c, t)
  /\ UNCHANGED <<ring, counters, shutdown, lock, wtask, admin, destroyer, done>>

AddTask(c, t) ==
  /\ lock = Unlocked
  /\ Enters(c, t) \/ Resumes(c, t)
  /\ ~QueueFull /\ ~shutdown
  /\ task_queue' = [task_queue EXCEPT ![queue_rear] = t]
  /\ queue_rear' = NextIndex(queue_rear)
  /\ queue_size' = queue_size + 1
  /\ SignalNotEmpty
  /\ Returns(c, t)
  /\ UNCHANGED <<queue_front, counters, shutdown, lock, wtask, admin, destroyer, done>>

Add(c) == \E t \in Tasks : AddWait(c, t) \/ AddRefused(c, t) \/ AddTask(c, t)
-----------------------------------------------------------------------------
(* The admin thread.                                                        *)

AdminStep(from, to) == apc = from /\ apc' = to

AdminLoop ==
  /\ ~shutdown
  /\ AdminStep("loop", "sleep")
  /\ UNCHANGED <<ring, counters, shutdown, lock, worker, caller, seen, signals,
                 destroyer, done>>

AdminExit ==
  /\ shutdown
  /\ AdminStep("loop", "exited")
  /\ UNCHANGED <<ring, counters, shutdown, lock, worker, caller, seen, signals,
                 destroyer, done>>

(* After the sleep: queue_size and live_thr_num, read under the lock.       *)
Snapshot ==
  /\ lock = Unlocked
  /\ AdminStep("sleep", "count")
  /\ seen' = [queue_size |-> queue_size, live |-> live_thr_num, busy |-> 0]
  /\ UNCHANGED <<ring, counters, shutdown, lock, worker, caller, signals, destroyer, done>>

(* busy_thr_num, read under a lock the workers do not take.                 *)
ReadBusy ==
  /\ AdminStep("count", "grow")
  /\ seen' = [queue_size |-> seen.queue_size, live |-> seen.live, busy |-> busy_thr_num]
  /\ UNCHANGED <<ring, counters, shutdown, lock, worker, caller, signals, destroyer, done>>

WantsMore == seen.queue_size >= MinWaitTaskNum /\ seen.live < MaxThr
WantsFewer == seen.busy * 2 < seen.live /\ seen.live > MinThr

(* The slots that are 0 or that is_thread_alive calls dead.  The id of a    *)
(* detached thread that has exited may name anything: either answer.        *)
Vacancies == {At({"none", "gone"}) \cup D : D \in SUBSET At({"stopped"})}

(* The loop of 233 fills the lowest vacant slots until it has added         *)
(* ThreadVary, the pool is full, or the array ends.                         *)
Fills(vacant, F) ==
  /\ \A i \in F, j \in vacant \ F : i < j
  /\ Cardinality(F) <= ThreadVary
  /\ live_thr_num + Cardinality(F) <= MaxThr
  /\ \/ F = vacant
     \/ Cardinality(F) = ThreadVary
     \/ live_thr_num + Cardinality(F) = MaxThr

Grow ==
  /\ lock = Unlocked
  /\ WantsMore
  /\ AdminStep("grow", "shrink")
  /\ \E vacant \in Vacancies : \E F \in SUBSET vacant :
       /\ Fills(vacant, F)
       /\ wpc' = [w \in Slots |-> IF w \in F THEN "start" ELSE wpc[w]]
       /\ live_thr_num' = live_thr_num + Cardinality(F)
  /\ UNCHANGED <<ring, busy_thr_num, wait_exit_thr_num, shutdown, lock, wtask, caller,
                 seen, signals, destroyer, done>>

SkipGrow ==
  /\ ~WantsMore
  /\ AdminStep("grow", "shrink")
  /\ UNCHANGED <<ring, counters, shutdown, lock, worker, caller, seen, signals,
                 destroyer, done>>

Shrink ==
  /\ lock = Unlocked
  /\ WantsFewer
  /\ AdminStep("shrink", "signal")
  /\ wait_exit_thr_num' = ThreadVary
  /\ signals' = 0
  /\ seen' = NothingSeen
  /\ UNCHANGED <<ring, live_thr_num, busy_thr_num, shutdown, lock, worker, caller,
                 destroyer, done>>

SkipShrink ==
  /\ ~WantsFewer
  /\ AdminStep("shrink", "loop")
  /\ seen' = NothingSeen
  /\ UNCHANGED <<ring, counters, shutdown, lock, worker, caller, signals, destroyer, done>>

(* The signals are sent without the lock.                                   *)
AdminSignal ==
  /\ apc = "signal" /\ signals < ThreadVary
  /\ SignalNotEmpty
  /\ signals' = signals + 1
  /\ UNCHANGED <<ring, counters, shutdown, lock, wtask, caller, apc, seen, destroyer, done>>

SignalsSent ==
  /\ signals = ThreadVary
  /\ AdminStep("signal", "loop")
  /\ signals' = 0
  /\ UNCHANGED <<ring, counters, shutdown, lock, worker, caller, seen, destroyer, done>>

AdminLocks == Snapshot \/ Grow \/ Shrink
AdminRuns ==
  \/ AdminLoop \/ AdminExit \/ ReadBusy \/ SkipGrow \/ SkipShrink
  \/ AdminSignal \/ SignalsSent
-----------------------------------------------------------------------------
(* threadpool_destroy and threadpool_free, called once.  Nothing here takes *)
(* the lock before the very end.                                            *)

DestroyStep(from, to) == dpc = from /\ dpc' = to

SetShutdown ==
  /\ DestroyStep("idle", "admin")
  /\ shutdown' = TRUE
  /\ UNCHANGED <<ring, counters, lock, worker, caller, admin, di, done>>

JoinAdmin ==
  /\ apc = "exited"
  /\ DestroyStep("admin", "notify")
  /\ UNCHANGED <<ring, counters, shutdown, lock, worker, caller, admin, di, done>>

NotifyIdle ==
  /\ dpc = "notify" /\ di < live_thr_num
  /\ BroadcastNotEmpty
  /\ di' = di + 1
  /\ UNCHANGED <<ring, counters, shutdown, lock, wtask, caller, admin, dpc, done>>

AllNotified ==
  /\ di >= live_thr_num
  /\ DestroyStep("notify", "join")
  /\ di' = 0
  /\ UNCHANGED <<ring, counters, shutdown, lock, worker, caller, admin, done>>

(* The join of a worker returns once it has exited, or has detached itself. *)
JoinWorker ==
  /\ dpc = "join" /\ di < live_thr_num
  /\ wpc[di] \in {"gone", "stopped"}
  /\ di' = di + 1
  /\ UNCHANGED <<ring, counters, shutdown, lock, worker, caller, admin, dpc, done>>

(* Joining id 0, or the id of a thread that had detached itself, is         *)
(* undefined and may bring the process down.                                *)
JoinCrashes ==
  /\ di < live_thr_num
  /\ wpc[di] \in {"none", "stopped"}
  /\ DestroyStep("join", "crashed")
  /\ UNCHANGED <<ring, counters, shutdown, lock, worker, caller, admin, di, done>>

(* Mutant of AllJoined: the last worker is not joined.                      *)
AllButOneJoined ==
  /\ di + 1 >= live_thr_num
  /\ DestroyStep("join", "freeing")
  /\ di' = 0
  /\ UNCHANGED <<ring, counters, shutdown, lock, worker, caller, admin, done>>

AllJoined ==
  /\ di >= live_thr_num
  /\ DestroyStep("join", "freeing")
  /\ di' = 0
  /\ UNCHANGED <<ring, counters, shutdown, lock, worker, caller, admin, done>>

(* The arrays are gone; lock the pool, destroy the lock while holding it,   *)
(* free the rest.                                                           *)
FreePool ==
  /\ lock = Unlocked
  /\ DestroyStep("freeing", "done")
  /\ lock' = MainThread
  /\ UNCHANGED <<ring, counters, shutdown, worker, caller, admin, di, done>>

DestroyRuns ==
  \/ JoinAdmin \/ NotifyIdle \/ AllNotified \/ JoinWorker \/ JoinCrashes
  \/ AllJoined \/ FreePool
-----------------------------------------------------------------------------
Next ==   \* nothing happens after a crash
  /\ dpc # "crashed"
  /\ \/ \E w \in Slots : WorkerLocks(w) \/ WorkerRuns(w)
     \/ \E c \in Callers : Add(c)
     \/ AdminLocks \/ AdminRuns
     \/ SetShutdown \/ DestroyRuns
     \/ SpuriousWake

Spec == Init /\ [][Next]_vars

(* A thread that can run gets to run (WF); one that wants a lock that is    *)
(* free again and again gets it (SF).  Nobody has to add a new task, to     *)
(* destroy the pool, or to be woken without a signal.                       *)
Running(A) == dpc # "crashed" /\ A
Fairness ==
  /\ \A w \in Slots : /\ SF_vars(Running(WorkerLocks(w)))
                      /\ WF_vars(Running(WorkerRuns(w)))
  /\ \A c \in Callers : SF_vars(Running(cpc[c] = "woken" /\ Add(c)))
  /\ SF_vars(Running(AdminLocks)) /\ WF_vars(Running(AdminRuns))
  /\ WF_vars(Running(DestroyRuns))

FairSpec == Spec /\ Fairness
-----------------------------------------------------------------------------
(* Properties.                                                              *)

WorkerPcs == {"none", "start", "check", "towait", "waiting", "woken", "got", "run",
              "ran", "leaving", "gone", "quit", "stopped"}

(* The values each variable takes.  wait_exit_thr_num is a count of signals *)
(* to come; queue_front and queue_rear index task_queue.                    *)
TypeOK ==
  /\ task_queue \in [Ring -> Tasks \cup {NoTask}]
  /\ queue_front \in Ring /\ queue_rear \in Ring /\ queue_size \in 0 .. QueueMax
  /\ live_thr_num \in Nat /\ busy_thr_num \in Int
  /\ wait_exit_thr_num \in 0 .. ThreadVary
  /\ shutdown \in BOOLEAN
  /\ lock \in Slots \cup {Unlocked, MainThread}
  /\ wpc \in [Slots -> WorkerPcs] /\ wtask \in [Slots -> Tasks \cup {NoTask}]
  /\ cpc \in [Callers -> {"idle", "waiting", "woken"}]
  /\ ctask \in [Callers -> Tasks \cup {NoTask}]
  /\ todo \in SUBSET Tasks
  /\ apc \in {"loop", "sleep", "count", "grow", "shrink", "signal", "exited"}
  /\ seen \in [queue_size : Nat, live : Nat, busy : Int]
  /\ signals \in 0 .. ThreadVary
  /\ dpc \in {"idle", "admin", "notify", "join", "freeing", "done", "crashed"}
  /\ di \in Nat
  /\ done \subseteq Tasks \cup {NoTask}

(* The admin and the leaving workers keep live_thr_num within the bounds    *)
(* threadpool_create was given, whatever stale numbers the admin acts on.   *)
LiveBounds == live_thr_num \in MinThr .. MaxThr

(* Until the pool is shut down, live_thr_num counts the threads that are    *)
(* neither to be created nor on their way out.                              *)
LiveThreads == Slots \ At({"none", "leaving", "gone"})
LiveCount == ~shutdown => live_thr_num = Cardinality(LiveThreads)

(* busy_thr_num counts the workers between lines 192 and 201, and never     *)
(* exceeds live_thr_num, which the admin compares it with.                  *)
BusyAmongLive ==
  /\ busy_thr_num = Cardinality(At({"run", "ran"}))
  /\ busy_thr_num <= live_thr_num

(* No caller sleeps in threadpool_add while the queue has room: every take  *)
(* wakes all callers.                                                       *)
BlockedMeansFull == (\E c \in Callers : cpc[c] = "waiting") => QueueFull

(* The ring, the workers' locals and the history behave as a bounded FIFO   *)
(* queue from which every task is taken once.                               *)
Pending == [i \in 1 .. queue_size |-> task_queue[(queue_front + i - 1) % QueueMax]]
Taken == {wtask[w] : w \in At({"got", "run"})}
Queue == INSTANCE TaskQueue WITH Capacity <- QueueMax, pending <- Pending,
                                 running <- Taken
RunsInOrder == Queue!Spec

(* In a pool that cannot shrink no task waits for a wake-up that was lost:  *)
(* while a worker sleeps, each queued task has a worker on its way to it.   *)
OnTheWay == At({"start", "check", "woken"})
NoStrandedTask ==
  ~shutdown /\ At({"waiting"}) # {} => queue_size <= Cardinality(OnTheWay)

(* threadpool_free runs only when no worker will touch the pool again.      *)
FreeAfterWorkersStop ==
  Freed => At(WorkerPcs) = At({"none", "leaving", "gone", "quit", "stopped"})

(* A task in the queue is run, unless the pool is shut down first.          *)
QueuedTaskRuns ==
  \A t \in Tasks :
    (\E i \in 1 .. queue_size : Pending[i] = t) ~> (t \in done \/ shutdown)

(* A caller blocked on a full queue returns, unless the pool is shut down.  *)
BlockedCallerReturns ==
  \A c \in Callers : (cpc[c] = "waiting") ~> (cpc[c] = "idle" \/ shutdown)

(* Once destroy is called the workers exit (or the process has crashed).    *)
ShutdownStopsWorkers ==
  shutdown ~> (dpc = "crashed" \/ At({"none", "gone", "stopped"}) = Slots)
=============================================================================
