-------------------------- MODULE ThreadPoolProofs --------------------------
(***************************************************************************)
(* Theorems about ThreadPool, for every pool size, queue size and number   *)
(* of callers and tasks; at the end, that it implements TaskQueue.          *)
(***************************************************************************)
EXTENDS ThreadPool, FiniteSetTheorems, SequenceTheorems, TLAPS

(* The successor of an index of the ring is one, with the wrap spelt out.  *)
LEMMA NextIndexInRing ==
  ASSUME NEW i \in Ring
  PROVE  /\ NextIndex(i) \in Ring
         /\ NextIndex(i) = IF i + 1 = QueueMax THEN 0 ELSE i + 1
BY PoolAssumption DEF Ring, NextIndex

(* Sets of slots are finite.                                               *)
LEMMA SlotSets ==
  ASSUME NEW W \in SUBSET Slots
  PROVE  IsFiniteSet(W) /\ Cardinality(W) \in Nat
<1>1. IsFiniteSet(Slots)
  BY PoolAssumption, FS_Interval DEF Slots
<1>2. IsFiniteSet(W)
  BY <1>1, FS_Subset
<1> QED
  BY <1>2, FS_CardinalityType

(* Every variable keeps to its values.                                     *)
THEOREM Typing == Spec => []TypeOK
<1> USE PoolAssumption
<1> USE DEF Slots, Ring, Unlocked, MainThread, WorkerPcs
<1>1. Init => TypeOK
  <2> SUFFICES ASSUME Init PROVE TypeOK
    OBVIOUS
  <2>1. wpc \in [Slots -> WorkerPcs]
    BY DEF Init
  <2>2. seen \in [queue_size : Nat, live : Nat, busy : Int]
    BY DEF Init, NothingSeen
  <2>3. /\ task_queue \in [Ring -> Tasks \cup {NoTask}]
        /\ wtask \in [Slots -> Tasks \cup {NoTask}]
        /\ cpc \in [Callers -> {"idle", "waiting", "woken"}]
        /\ ctask \in [Callers -> Tasks \cup {NoTask}]
    BY DEF Init
  <2>4. /\ queue_front \in Ring /\ queue_rear \in Ring /\ queue_size \in 0 .. QueueMax
        /\ live_thr_num \in Nat /\ busy_thr_num \in Int
        /\ wait_exit_thr_num \in 0 .. ThreadVary /\ signals \in 0 .. ThreadVary
        /\ di \in Nat
    BY DEF Init
  <2> QED
    BY <2>1, <2>2, <2>3, <2>4 DEF Init, TypeOK
<1>2. TypeOK /\ [Next]_vars => TypeOK'
  <2> SUFFICES ASSUME TypeOK, [Next]_vars PROVE TypeOK'
    OBVIOUS
  <2> USE DEF TypeOK, NothingSeen, ring, counters, worker, caller, admin, destroyer, At, Step,
              AdminStep, DestroyStep, WakeWorkers, BroadcastNotEmpty
  <2>1. ASSUME NEW w \in Slots, Acquire(w) PROVE TypeOK'
    BY <2>1 DEF Acquire
  <2>2. ASSUME NEW w \in Slots, DecideToWait(w) PROVE TypeOK'
    BY <2>2 DEF DecideToWait
  <2>3. ASSUME NEW w \in Slots, Wait(w) PROVE TypeOK'
    BY <2>3 DEF Wait
  <2>4. ASSUME NEW w \in Slots, WakeAndLeave(w) PROVE TypeOK'
    BY <2>4 DEF WakeAndLeave, CanLeave
  <2>5. ASSUME NEW w \in Slots, WakeAndCheck(w) PROVE TypeOK'
    BY <2>5 DEF WakeAndCheck
  <2>6. ASSUME NEW w \in Slots, Leave(w) PROVE TypeOK'
    BY <2>6 DEF Leave
  <2>7. ASSUME NEW w \in Slots, Quit(w) PROVE TypeOK'
    BY <2>7 DEF Quit
  <2>8. ASSUME NEW w \in Slots, Stop(w) PROVE TypeOK'
    BY <2>8 DEF Stop
  <2>9. ASSUME NEW w \in Slots, TakeTask(w) PROVE TypeOK'
    BY <2>9, NextIndexInRing DEF TakeTask, MustSleep, BroadcastNotFull
  <2>10. ASSUME NEW w \in Slots, StartWork(w) PROVE TypeOK'
    BY <2>10 DEF StartWork
  <2>11. ASSUME NEW w \in Slots, RunTask(w) PROVE TypeOK'
    BY <2>11 DEF RunTask
  <2>12. ASSUME NEW w \in Slots, EndWork(w) PROVE TypeOK'
    BY <2>12 DEF EndWork
  <2>13. ASSUME NEW c \in Callers, NEW t \in Tasks, AddWait(c, t) PROVE TypeOK'
    BY <2>13 DEF AddWait, Returns
  <2>14. ASSUME NEW c \in Callers, NEW t \in Tasks, AddRefused(c, t) PROVE TypeOK'
    BY <2>14 DEF AddRefused, Returns
  <2>15. ASSUME NEW c \in Callers, NEW t \in Tasks, AddTask(c, t) PROVE TypeOK'
    BY <2>15, NextIndexInRing DEF AddTask, Returns, QueueFull, SignalNotEmpty
  <2>16. CASE AdminLoop
    BY <2>16 DEF AdminLoop
  <2>17. CASE AdminExit
    BY <2>17 DEF AdminExit
  <2>18. CASE Snapshot
    BY <2>18 DEF Snapshot
  <2>19. CASE ReadBusy
    BY <2>19 DEF ReadBusy
  <2>20. CASE Grow
    <3>1. PICK F \in SUBSET Slots :
             /\ wpc' = [w \in Slots |-> IF w \in F THEN "start" ELSE wpc[w]]
             /\ live_thr_num' = live_thr_num + Cardinality(F)
      BY <2>20 DEF Grow, Vacancies
    <3>2. Cardinality(F) \in Nat
      BY SlotSets
    <3>3. live_thr_num' \in Nat /\ wpc' \in [Slots -> WorkerPcs]
      BY <3>1, <3>2
    <3> QED
      BY <2>20, <3>3 DEF Grow
  <2>21. CASE SkipGrow
    BY <2>21 DEF SkipGrow
  <2>22. CASE Shrink
    BY <2>22 DEF Shrink
  <2>23. CASE SkipShrink
    BY <2>23 DEF SkipShrink
  <2>24. CASE AdminSignal
    BY <2>24 DEF AdminSignal, SignalNotEmpty
  <2>25. CASE SignalsSent
    BY <2>25 DEF SignalsSent
  <2>26. CASE SetShutdown
    BY <2>26 DEF SetShutdown
  <2>27. CASE JoinAdmin
    BY <2>27 DEF JoinAdmin
  <2>28. CASE NotifyIdle
    BY <2>28 DEF NotifyIdle
  <2>29. CASE AllNotified
    BY <2>29 DEF AllNotified
  <2>30. CASE JoinWorker
    BY <2>30 DEF JoinWorker
  <2>31. CASE JoinCrashes
    BY <2>31 DEF JoinCrashes
  <2>32. CASE AllJoined
    BY <2>32 DEF AllJoined
  <2>33. CASE FreePool
    BY <2>33 DEF FreePool
  <2>34. CASE SpuriousWake
    BY <2>34 DEF SpuriousWake
  <2>35. CASE UNCHANGED vars
    BY <2>35 DEF vars
  <2> QED
    BY <2>1, <2>2, <2>3, <2>4, <2>5, <2>6, <2>7, <2>8, <2>9, <2>10, <2>11, <2>12, <2>13, <2>14, <2>15, <2>16, <2>17, <2>18, <2>19, <2>20, <2>21, <2>22, <2>23, <2>24, <2>25, <2>26, <2>27, <2>28, <2>29, <2>30, <2>31, <2>32, <2>33, <2>34, <2>35
    DEF Next, WorkerLocks, WorkerRuns, Reacquire, Add, AdminLocks, AdminRuns, DestroyRuns
<1> QED
  BY <1>1, <1>2, PTL DEF Spec
-----------------------------------------------------------------------------
(* Only a worker that leaves and the admin that grows change live_thr_num.  *)
LEMMA LiveChanges ==
  ASSUME [Next]_vars
  PROVE  \/ \E w \in Slots : WakeAndLeave(w)
         \/ Grow
         \/ UNCHANGED live_thr_num
<1>1. ASSUME NEW w \in Slots, WorkerLocks(w) \/ WorkerRuns(w)
      PROVE  WakeAndLeave(w) \/ UNCHANGED live_thr_num
  BY <1>1 DEF WorkerLocks, WorkerRuns, Reacquire, Acquire, DecideToWait, Wait,
     WakeAndCheck, Leave, Quit, Stop, TakeTask, StartWork, RunTask, EndWork, counters
<1>2. ASSUME NEW c \in Callers, Add(c) PROVE UNCHANGED live_thr_num
  BY <1>2 DEF Add, AddWait, AddRefused, AddTask, counters
<1>3. ASSUME AdminLocks \/ AdminRuns PROVE Grow \/ UNCHANGED live_thr_num
  BY <1>3 DEF AdminLocks, AdminRuns, AdminLoop, AdminExit, Snapshot, ReadBusy, SkipGrow,
     Shrink, SkipShrink, AdminSignal, SignalsSent, counters
<1>4. ASSUME SetShutdown \/ DestroyRuns \/ SpuriousWake PROVE UNCHANGED live_thr_num
  BY <1>4 DEF DestroyRuns, SetShutdown, JoinAdmin, NotifyIdle, AllNotified, JoinWorker,
     JoinCrashes, AllJoined, FreePool, SpuriousWake, counters
<1> QED
  BY <1>1, <1>2, <1>3, <1>4 DEF Next, vars, counters

(* However stale the numbers the admin decides on, live_thr_num stays       *)
(* between min_thr_num and max_thr_num: both ends are tested again under    *)
(* the lock, by the leaving worker (155) and by the admin's loop (233).     *)
THEOREM LiveStaysInBounds == Spec => []LiveBounds
<1> USE PoolAssumption
<1>1. Init => LiveBounds
  BY DEF Init, LiveBounds
<1>2. TypeOK /\ LiveBounds /\ [Next]_vars => LiveBounds'
  <2> SUFFICES ASSUME TypeOK, LiveBounds, [Next]_vars PROVE LiveBounds'
    OBVIOUS
  <2>1. ASSUME NEW w \in Slots, WakeAndLeave(w) PROVE LiveBounds'
    BY <2>1 DEF WakeAndLeave, CanLeave, LiveBounds
  <2>2. CASE Grow
    <3>1. PICK F \in SUBSET Slots : /\ live_thr_num + Cardinality(F) <= MaxThr
                                    /\ live_thr_num' = live_thr_num + Cardinality(F)
      BY <2>2 DEF Grow, Vacancies, Fills, At
    <3> QED
      BY <3>1, SlotSets DEF LiveBounds
  <2>3. CASE UNCHANGED live_thr_num
    BY <2>3 DEF LiveBounds
  <2> QED
    BY <2>1, <2>2, <2>3, LiveChanges
<1> QED
  BY <1>1, <1>2, Typing, PTL DEF Spec
-----------------------------------------------------------------------------
(* Only these steps change the length of the queue or put a caller to sleep. *)
LEMMA QueueChanges ==
  ASSUME TypeOK, [Next]_vars
  PROVE  \/ \E w \in Slots : TakeTask(w)
         \/ \E c \in Callers, t \in Tasks : AddTask(c, t) \/ AddWait(c, t)
         \/ /\ UNCHANGED queue_size
            /\ \A c \in Callers : cpc'[c] = "waiting" => cpc[c] = "waiting"
<1>1. ASSUME NEW w \in Slots, WorkerLocks(w) \/ WorkerRuns(w)
      PROVE  TakeTask(w) \/ (UNCHANGED <<queue_size, cpc>>)
  BY <1>1 DEF WorkerLocks, WorkerRuns, Reacquire, Acquire, DecideToWait, Wait, WakeAndLeave,
     WakeAndCheck, Leave, Quit, Stop, StartWork, RunTask, EndWork, ring, caller
<1>2. ASSUME NEW c \in Callers, NEW t \in Tasks, AddRefused(c, t)
      PROVE  /\ UNCHANGED queue_size
             /\ \A d \in Callers : cpc'[d] = "waiting" => cpc[d] = "waiting"
  BY <1>2 DEF AddRefused, Returns, TypeOK, ring
<1>3. ASSUME AdminLocks \/ AdminRuns PROVE UNCHANGED <<queue_size, cpc>>
  BY <1>3 DEF AdminLocks, AdminRuns, AdminLoop, AdminExit, Snapshot, ReadBusy, Grow, SkipGrow,
     Shrink, SkipShrink, AdminSignal, SignalsSent, ring, caller
<1>4. ASSUME SetShutdown \/ DestroyRuns PROVE UNCHANGED <<queue_size, cpc>>
  BY <1>4 DEF DestroyRuns, SetShutdown, JoinAdmin, NotifyIdle, AllNotified, JoinWorker,
     JoinCrashes, AllJoined, FreePool, ring, caller
<1>5. ASSUME SpuriousWake
      PROVE  /\ UNCHANGED queue_size
             /\ \A d \in Callers : cpc'[d] = "waiting" => cpc[d] = "waiting"
  BY <1>5 DEF SpuriousWake, TypeOK, ring
<1> QED
  BY <1>1, <1>2, <1>3, <1>4, <1>5 DEF Next, Add, vars, ring, caller

(* A caller that sleeps in threadpool_add does so on a full queue.          *)
THEOREM BlockedOnlyWhenFull == Spec => []BlockedMeansFull
<1>1. Init => BlockedMeansFull
  BY DEF Init, BlockedMeansFull
<1>2. TypeOK /\ BlockedMeansFull /\ [Next]_vars => BlockedMeansFull'
  <2> SUFFICES ASSUME TypeOK, BlockedMeansFull, [Next]_vars PROVE BlockedMeansFull'
    OBVIOUS
  <2> USE DEF BlockedMeansFull, QueueFull
  <2>1. ASSUME NEW w \in Slots, TakeTask(w) PROVE BlockedMeansFull'
    BY <2>1 DEF TakeTask, BroadcastNotFull
  <2>2. ASSUME NEW c \in Callers, NEW t \in Tasks, AddTask(c, t) PROVE BlockedMeansFull'
    BY <2>2 DEF AddTask, Returns, TypeOK
  <2>3. ASSUME NEW c \in Callers, NEW t \in Tasks, AddWait(c, t) PROVE BlockedMeansFull'
    BY <2>3 DEF AddWait, ring
  <2>4. CASE /\ UNCHANGED queue_size
             /\ \A c \in Callers : cpc'[c] = "waiting" => cpc[c] = "waiting"
    BY <2>4
  <2> QED
    BY <2>1, <2>2, <2>3, <2>4, QueueChanges
<1> QED
  BY <1>1, <1>2, Typing, PTL DEF Spec
-----------------------------------------------------------------------------
(* A worker's step changes the set of workers at given places by that worker, *)
(* and so its size by at most one.                                           *)
LEMMA StepMoves ==
  ASSUME TypeOK, NEW w \in Slots, NEW from, NEW to, Step(w, from, to), NEW P
  PROVE  /\ At(P)' = IF to \in P THEN At(P) \cup {w} ELSE At(P) \ {w}
         /\ from \in P /\ to \notin P => Cardinality(At(P)') = Cardinality(At(P)) - 1
         /\ from \notin P /\ to \in P => Cardinality(At(P)') = Cardinality(At(P)) + 1
         /\ (from \in P <=> to \in P) => At(P)' = At(P)
<1>1. At(P)' = IF to \in P THEN At(P) \cup {w} ELSE At(P) \ {w}
  BY DEF At, Step, TypeOK
<1>2. IsFiniteSet(At(P)) /\ (w \in At(P) <=> from \in P)
  BY SlotSets DEF At, Step
<1>3. /\ Cardinality(At(P) \cup {w}) = IF w \in At(P) THEN Cardinality(At(P)) ELSE Cardinality(At(P)) + 1
      /\ Cardinality(At(P) \ {w}) = IF w \in At(P) THEN Cardinality(At(P)) - 1 ELSE Cardinality(At(P))
  BY <1>2, FS_AddElement, FS_RemoveElement
<1>4. (from \in P <=> to \in P) => At(P)' = At(P)
  BY <1>1, <1>2
<1> QED
  BY <1>1, <1>2, <1>3, <1>4

(* Who changes the sets that busy_thr_num and live_thr_num count.           *)
Working == At({"run", "ran"})
Present == At({"start", "check", "towait", "waiting", "woken", "got", "run", "ran",
               "quit", "stopped"})
Ended == At({"quit", "stopped"})
LEMMA CountChanges ==
  ASSUME TypeOK, [Next]_vars
  PROVE  \/ \E w \in Slots : StartWork(w) \/ EndWork(w) \/ WakeAndLeave(w)
         \/ Grow
         \/ /\ UNCHANGED <<live_thr_num, busy_thr_num, Working, Present>>
            /\ Ended' # {} => shutdown \/ Ended # {}
            /\ shutdown => shutdown'
<1> USE DEF TypeOK, Working, Present, Ended, At, counters, worker
<1>1. ASSUME NEW w \in Slots, WorkerLocks(w) \/ WorkerRuns(w)
      PROVE  \/ StartWork(w) \/ EndWork(w) \/ WakeAndLeave(w)
             \/ /\ UNCHANGED <<live_thr_num, busy_thr_num, Working, Present, shutdown>>
                /\ Ended' # {} => shutdown \/ Ended # {}
  <2> USE DEF Step
  <2>1. ASSUME Acquire(w) \/ DecideToWait(w) \/ Wait(w) \/ WakeAndCheck(w)
        PROVE  /\ UNCHANGED <<live_thr_num, busy_thr_num, Working, Present, shutdown>>
               /\ Ended' # {} => shutdown \/ Ended # {}
    BY <2>1 DEF Acquire, DecideToWait, Wait, WakeAndCheck
  <2>2. ASSUME Leave(w) \/ Quit(w) \/ Stop(w) \/ TakeTask(w) \/ RunTask(w)
        PROVE  /\ UNCHANGED <<live_thr_num, busy_thr_num, Working, Present, shutdown>>
               /\ Ended' # {} => shutdown \/ Ended # {}
    BY <2>2 DEF Leave, Quit, Stop, TakeTask, RunTask
  <2> QED
    BY <1>1, <2>1, <2>2 DEF WorkerLocks, WorkerRuns, Reacquire
<1>2. ASSUME NEW c \in Callers, NEW t \in Tasks, AddWait(c, t) \/ AddRefused(c, t) \/ AddTask(c, t)
      PROVE  UNCHANGED <<live_thr_num, busy_thr_num, Working, Present, Ended, shutdown>>
  <2>1. CASE AddWait(c, t)
    BY <2>1 DEF AddWait
  <2>2. CASE AddRefused(c, t)
    BY <2>2 DEF AddRefused, BroadcastNotEmpty, WakeWorkers
  <2>3. CASE AddTask(c, t)
    BY <2>3 DEF AddTask, SignalNotEmpty, WakeWorkers
  <2> QED
    BY <1>2, <2>1, <2>2, <2>3
<1>3. ASSUME AdminLocks \/ AdminRuns
      PROVE  Grow \/ UNCHANGED <<live_thr_num, busy_thr_num, Working, Present, Ended, shutdown>>
  BY <1>3 DEF AdminLocks, AdminRuns, AdminLoop, AdminExit, Snapshot, ReadBusy, SkipGrow,
     Shrink, SkipShrink, AdminSignal, SignalsSent, SignalNotEmpty, WakeWorkers
<1>4. ASSUME SetShutdown \/ DestroyRuns \/ SpuriousWake
      PROVE  /\ UNCHANGED <<live_thr_num, busy_thr_num, Working, Present, Ended>>
             /\ shutdown => shutdown'
  BY <1>4 DEF DestroyRuns, SetShutdown, JoinAdmin, NotifyIdle, AllNotified, JoinWorker,
     JoinCrashes, AllJoined, FreePool, SpuriousWake, BroadcastNotEmpty, WakeWorkers
<1>5. CASE UNCHANGED vars
  BY <1>5 DEF vars
<1> QED
  BY <1>1, <1>2, <1>3, <1>4, <1>5 DEF Next, Add

(* The counters and the threads.  After shutdown live_thr_num may only be   *)
(* too high: a worker that quits is not taken off it.                       *)
CountInv ==
  /\ busy_thr_num = Cardinality(Working)
  /\ Cardinality(Present) <= live_thr_num
  /\ ~shutdown => Ended = {} /\ Cardinality(Present) = live_thr_num

LEMMA CountingStep == TypeOK /\ CountInv /\ [Next]_vars => CountInv'
<1> SUFFICES ASSUME TypeOK, CountInv, [Next]_vars PROVE CountInv'
  OBVIOUS
<1> USE DEF CountInv
<1>0. Cardinality(Working) \in Nat /\ Cardinality(Present) \in Nat
  BY SlotSets DEF Working, Present, At
<1>1. ASSUME NEW w \in Slots, StartWork(w) PROVE CountInv'
  <2>1. Cardinality(Working') = Cardinality(Working) + 1 /\ UNCHANGED <<Present, Ended>>
    BY <1>1, StepMoves DEF StartWork, Working, Present, Ended
  <2> QED
    BY <1>1, <2>1 DEF StartWork
<1>2. ASSUME NEW w \in Slots, EndWork(w) PROVE CountInv'
  <2>1. Cardinality(Working') = Cardinality(Working) - 1 /\ UNCHANGED <<Present, Ended>>
    BY <1>2, StepMoves DEF EndWork, Working, Present, Ended
  <2> QED
    BY <1>2, <2>1 DEF EndWork
<1>3. ASSUME NEW w \in Slots, WakeAndLeave(w) PROVE CountInv'
  <2>1. Cardinality(Present') = Cardinality(Present) - 1 /\ UNCHANGED <<Working, Ended>>
    BY <1>3, StepMoves DEF WakeAndLeave, Working, Present, Ended
  <2> QED
    BY <1>3, <2>1, <1>0 DEF WakeAndLeave, TypeOK
<1>4. CASE Grow
  <2>1. PICK F \in SUBSET At({"none", "gone", "stopped"}) :
          /\ ~shutdown => F \cap Present = {}
          /\ wpc' = [w \in Slots |-> IF w \in F THEN "start" ELSE wpc[w]]
          /\ live_thr_num' = live_thr_num + Cardinality(F)
    BY <1>4 DEF Grow, Vacancies, At, Ended, Present
  <2>2. /\ Present' = Present \cup F /\ Working' = Working
        /\ Ended' \subseteq Ended
    BY <2>1 DEF Present, Working, Ended, At, TypeOK
  <2>3. /\ IsFiniteSet(F) /\ Cardinality(F) \in Nat
        /\ IsFiniteSet(Present)
    BY SlotSets, F \subseteq Slots, Present \subseteq Slots DEF At, Present
  <2>4. Cardinality(Present') = Cardinality(Present) + Cardinality(F) - Cardinality(Present \cap F)
    BY <2>2, <2>3, FS_Union
  <2>5. Cardinality(Present \cap F) \in Nat
    BY SlotSets DEF Present, At
  <2>6. ~shutdown => Cardinality(Present \cap F) = 0
    BY <2>1, FS_EmptySet
  <2> QED
    BY <1>0, <1>4, <2>1, <2>2, <2>3, <2>4, <2>5, <2>6 DEF Grow, TypeOK
<1>5. CASE /\ UNCHANGED <<live_thr_num, busy_thr_num, Working, Present>>
           /\ Ended' # {} => shutdown \/ Ended # {}
           /\ shutdown => shutdown'
  BY <1>5
<1> QED
  BY <1>1, <1>2, <1>3, <1>4, <1>5, CountChanges

THEOREM Counting == Spec => []CountInv
<1>1. Init => CountInv
  <2> SUFFICES ASSUME Init PROVE CountInv
    OBVIOUS
  <2>1. Working = {} /\ Ended = {}
    BY DEF Init, Working, Ended, At
  <2>2. Present = 0 .. MinThr - 1
    BY PoolAssumption DEF Init, Present, At, Slots
  <2>3. Cardinality(0 .. MinThr - 1) = MinThr
    BY PoolAssumption, FS_Interval
  <2> QED
    BY PoolAssumption, <2>1, <2>2, <2>3, FS_EmptySet DEF Init, CountInv
<1> QED
  BY <1>1, CountingStep, Typing, PTL DEF Spec

(* Until shutdown live_thr_num is the number of live threads.               *)
THEOREM LiveThrNumCounts == Spec => []LiveCount
<1>1. TypeOK /\ CountInv => LiveCount
  <2>1. TypeOK => LiveThreads = Present
    BY DEF TypeOK, WorkerPcs, LiveThreads, Present, At
  <2> QED
    BY <2>1 DEF CountInv, LiveCount
<1> QED
  BY <1>1, Counting, Typing, PTL

(* busy_thr_num counts the busy workers, and stays within live_thr_num.     *)
THEOREM BusyThrNumCounts == Spec => []BusyAmongLive
<1>1. TypeOK /\ CountInv => BusyAmongLive
  <2> SUFFICES ASSUME TypeOK, CountInv PROVE BusyAmongLive
    OBVIOUS
  <2>1. Working \subseteq Present /\ IsFiniteSet(Present) /\ IsFiniteSet(Working)
    BY SlotSets DEF Working, Present, At
  <2>2. /\ Cardinality(Working) <= Cardinality(Present)
        /\ Cardinality(Working) \in Nat /\ Cardinality(Present) \in Nat
    BY <2>1, FS_Subset, FS_CardinalityType
  <2> QED
    BY <2>2 DEF CountInv, BusyAmongLive, Working, TypeOK
<1> QED
  BY <1>1, Counting, Typing, PTL
-----------------------------------------------------------------------------
(* No lost wake-up in a pool of fixed size.  The count of workers on their  *)
(* way is inductive once two facts about pool->lock are added: a worker     *)
(* between its test and its wait holds it, so the queue stays empty there.  *)
Holding == At({"check", "towait"})
Parking == At({"towait"})
Asleep == At({"waiting"})
WakeInv ==
  /\ \A w \in Holding : lock = w
  /\ Parking # {} => queue_size = 0 \/ shutdown
  /\ ~shutdown /\ Asleep # {} => queue_size <= Cardinality(OnTheWay)

LEMMA StepSets ==
  ASSUME TypeOK, NEW w \in Slots, NEW from, NEW to, Step(w, from, to)
  PROVE  /\ Holding' = IF to \in {"check", "towait"} THEN Holding \cup {w} ELSE Holding \ {w}
         /\ Parking' = IF to = "towait" THEN Parking \cup {w} ELSE Parking \ {w}
         /\ Asleep' = IF to = "waiting" THEN Asleep \cup {w} ELSE Asleep \ {w}
         /\ from \in {"check", "towait"} => w \in Holding
         /\ from = "towait" => w \in Parking
BY DEF Holding, Parking, Asleep, At, Step, TypeOK

LEMMA StepOnTheWay ==
  ASSUME TypeOK, NEW w \in Slots, NEW from, NEW to, Step(w, from, to)
  PROVE  LET way == {"start", "check", "woken"}
         IN  /\ from \in way /\ to \notin way => Cardinality(OnTheWay') = Cardinality(OnTheWay) - 1
             /\ from \notin way /\ to \in way => Cardinality(OnTheWay') = Cardinality(OnTheWay) + 1
             /\ (from \in way <=> to \in way) => OnTheWay' = OnTheWay
BY StepMoves DEF OnTheWay

(* Moving sleeping workers to "woken" can only help.                        *)
LEMMA WakingHelps ==
  ASSUME TypeOK, WakeInv, NEW W \in SUBSET Asleep, WakeWorkers(W),
         UNCHANGED <<queue_size, lock>>, shutdown => shutdown'
  PROVE  WakeInv'
<1> USE DEF WakeInv, TypeOK
<1>1. /\ OnTheWay \subseteq OnTheWay'
      /\ Asleep' \subseteq Asleep
      /\ Holding' = Holding /\ Parking' = Parking
  BY DEF WakeWorkers, OnTheWay, Asleep, Holding, Parking, At
<1>2. OnTheWay' \subseteq Slots
  BY DEF OnTheWay, At
<1>3. Cardinality(OnTheWay) <= Cardinality(OnTheWay')
  BY <1>1, <1>2, SlotSets, FS_Subset
<1>4. Cardinality(OnTheWay) \in Nat /\ Cardinality(OnTheWay') \in Nat
  BY <1>1, <1>2, SlotSets
<1> QED
  BY <1>1, <1>3, <1>4

(* Steps that leave workers, queue and lock alone.                          *)
QuietForWorkers == UNCHANGED <<wpc, queue_size, lock>> /\ (shutdown => shutdown')

LEMMA QuietSteps ==
  \/ \E c \in Callers, t \in Tasks : AddWait(c, t)
  \/ AdminLoop \/ AdminExit \/ Snapshot \/ ReadBusy \/ SkipGrow \/ Shrink \/ SkipShrink
  \/ SignalsSent \/ SetShutdown \/ JoinAdmin \/ AllNotified \/ JoinWorker
  \/ JoinCrashes \/ AllJoined \/ UNCHANGED vars
  => QuietForWorkers
BY DEF QuietForWorkers, AddWait, AdminLoop, AdminExit, Snapshot, ReadBusy, SkipGrow, Shrink,
  SkipShrink, SignalsSent, SetShutdown, JoinAdmin, AllNotified, JoinWorker, JoinCrashes,
  AllJoined, vars, ring, worker

LEMMA WakeInvStep ==
  ASSUME MinThr = MaxThr, TypeOK, LiveBounds, WakeInv, [Next]_vars
  PROVE  WakeInv'
<1> USE DEF WakeInv
<1>0. /\ Cardinality(OnTheWay) \in Nat
      /\ ~CanLeave
  BY SlotSets, PoolAssumption DEF OnTheWay, At, CanLeave, LiveBounds
<1>a. /\ lock = Unlocked \/ lock = MainThread => Holding = {} /\ Parking = {}
      /\ \A w \in Holding : Holding = {w} /\ Parking \subseteq {w}
  BY PoolAssumption DEF Slots, Unlocked, MainThread, Holding, Parking, At
<1>1. ASSUME NEW w \in Slots, Acquire(w) PROVE WakeInv'
  <2>1. /\ Holding' = Holding \cup {w} /\ Parking' = Parking \ {w} /\ Asleep' = Asleep \ {w}
        /\ OnTheWay' = OnTheWay
    BY <1>1, StepSets, StepOnTheWay DEF Acquire
  <2> QED
    BY <1>1, <1>a, <2>1 DEF Acquire, ring
<1>2. ASSUME NEW w \in Slots, DecideToWait(w) PROVE WakeInv'
  <2>1. /\ Holding' = Holding \cup {w} /\ w \in Holding /\ Asleep' = Asleep \ {w}
        /\ Cardinality(OnTheWay') = Cardinality(OnTheWay) - 1
    BY <1>2, StepSets, StepOnTheWay DEF DecideToWait
  <2>2. Cardinality(OnTheWay') \in Nat
    BY SlotSets DEF OnTheWay, At
  <2> QED
    BY <1>0, <1>2, <2>1, <2>2 DEF DecideToWait, ring, MustSleep
<1>3. ASSUME NEW w \in Slots, Wait(w) PROVE WakeInv'
  BY <1>3, <1>0, StepSets, StepOnTheWay DEF Wait, ring
<1>4. ASSUME NEW w \in Slots, WakeAndCheck(w) PROVE WakeInv'
  <2>1. /\ Holding' = Holding \cup {w} /\ Parking' = Parking \ {w} /\ Asleep' = Asleep \ {w}
        /\ OnTheWay' = OnTheWay
    BY <1>4, StepSets, StepOnTheWay DEF WakeAndCheck
  <2> QED
    BY <1>4, <1>a, <2>1 DEF WakeAndCheck, ring
<1>5. ASSUME NEW w \in Slots, Leave(w) \/ Stop(w) \/ StartWork(w) \/ RunTask(w) PROVE WakeInv'
  BY <1>5, <1>0, StepSets, StepOnTheWay DEF Leave, Stop, StartWork, RunTask, ring
<1>6. ASSUME NEW w \in Slots, Quit(w) PROVE WakeInv'
  BY <1>6, <1>0, StepSets, StepOnTheWay DEF Quit, ring
<1>7. ASSUME NEW w \in Slots, TakeTask(w) PROVE WakeInv'
  <2>1. /\ Holding' = Holding \ {w} /\ w \in Holding
        /\ Parking' = Parking \ {w} /\ Asleep' = Asleep \ {w}
        /\ Cardinality(OnTheWay') = Cardinality(OnTheWay) - 1
    BY <1>7, StepSets, StepOnTheWay DEF TakeTask
  <2>2. queue_size \in Nat /\ queue_size' = queue_size - 1
    BY <1>7, PoolAssumption DEF TakeTask, TypeOK
  <2> QED
    BY <1>0, <1>7, <1>a, <2>1, <2>2 DEF TakeTask
<1>8. ASSUME NEW w \in Slots, EndWork(w) PROVE WakeInv'
  <2>1. /\ Holding' = Holding \ {w} /\ Parking' = Parking \ {w} /\ Asleep' = Asleep \ {w}
        /\ Cardinality(OnTheWay') = Cardinality(OnTheWay) + 1
    BY <1>8, StepSets, StepOnTheWay DEF EndWork
  <2>2. queue_size \in Nat
    BY PoolAssumption DEF TypeOK
  <2> QED
    BY <1>0, <1>8, <2>1, <2>2 DEF EndWork, ring
<1>9. ASSUME NEW c \in Callers, NEW t \in Tasks, AddTask(c, t) PROVE WakeInv'
  <2>1. CASE Asleep = {}
    <3>1. UNCHANGED <<Asleep, Holding, Parking>>
      BY <1>9, <2>1 DEF AddTask, SignalNotEmpty, Asleep, Holding, Parking, At
    <3> QED
      BY <1>9, <1>a, <2>1, <3>1 DEF AddTask
  <2>2. CASE Asleep # {}
    <3>1. PICK w \in Asleep : WakeWorkers({w})
      BY <1>9, <2>2 DEF AddTask, SignalNotEmpty, Asleep
    <3>2. /\ w \in Slots /\ Step(w, "waiting", "woken")
      BY <3>1 DEF WakeWorkers, Asleep, At, Step, TypeOK
    <3>3. /\ Holding' = Holding \ {w} /\ Parking' = Parking \ {w} /\ Asleep' = Asleep \ {w}
          /\ Cardinality(OnTheWay') = Cardinality(OnTheWay) + 1
      BY <3>2, StepSets, StepOnTheWay
    <3>4. queue_size \in Nat
      BY PoolAssumption DEF TypeOK
    <3> QED
      BY <1>0, <1>9, <1>a, <2>2, <3>3, <3>4 DEF AddTask
  <2> QED
    BY <2>1, <2>2
<1>10. ASSUME NEW c \in Callers, NEW t \in Tasks, AddRefused(c, t) PROVE WakeInv'
  BY <1>10, WakingHelps DEF Asleep, AddRefused, BroadcastNotEmpty, ring
<1>11. CASE Grow
  <2>1. PICK F \in SUBSET At({"none", "gone", "stopped"}) :
          wpc' = [w \in Slots |-> IF w \in F THEN "start" ELSE wpc[w]]
    BY <1>11 DEF Grow, Vacancies, At
  <2>2. /\ UNCHANGED <<Holding, Parking, Asleep>>
        /\ OnTheWay \subseteq OnTheWay' /\ OnTheWay' \subseteq Slots
    BY <2>1 DEF Holding, Parking, Asleep, OnTheWay, At, TypeOK
  <2>3. Cardinality(OnTheWay) <= Cardinality(OnTheWay') /\ Cardinality(OnTheWay') \in Nat
    BY <2>2, SlotSets, FS_Subset
  <2>4. queue_size \in Nat
    BY PoolAssumption DEF TypeOK
  <2> QED
    BY <1>0, <1>11, <1>a, <2>2, <2>3, <2>4 DEF Grow, ring
<1>12. CASE AdminSignal
  <2>1. PICK W \in SUBSET Asleep : WakeWorkers(W)
    <3>1. CASE Asleep = {}
      BY <1>12, <3>1 DEF AdminSignal, SignalNotEmpty, Asleep, WakeWorkers, TypeOK
    <3>2. CASE Asleep # {}
      BY <1>12, <3>2 DEF AdminSignal, SignalNotEmpty, Asleep
    <3> QED
      BY <3>1, <3>2
  <2> QED
    BY <1>12, <2>1, WakingHelps DEF AdminSignal, ring
<1>13. CASE NotifyIdle
  BY <1>13, WakingHelps DEF Asleep, NotifyIdle, BroadcastNotEmpty, ring
<1>14. CASE FreePool
  BY <1>14, <1>a DEF FreePool, ring, worker, Holding, Parking, Asleep, OnTheWay, At
<1>15. CASE SpuriousWake
  <2>1. PICK W \in SUBSET Asleep : WakeWorkers(W)
    <3>1. CASE UNCHANGED wpc
      <4>1. WakeWorkers({})
        BY <3>1 DEF WakeWorkers, TypeOK
      <4> QED
        BY <4>1
    <3>2. CASE \E w \in Asleep : WakeWorkers({w})
      BY <3>2
    <3> QED
      BY <1>15, <3>1, <3>2 DEF SpuriousWake, Asleep
  <2> QED
    BY <1>15, <2>1, WakingHelps DEF SpuriousWake, ring
<1>16. CASE QuietForWorkers
  BY <1>16 DEF QuietForWorkers, Holding, Parking, Asleep, OnTheWay, At
<1> QED
  BY <1>0, <1>1, <1>2, <1>3, <1>4, <1>5, <1>6, <1>7, <1>8, <1>9, <1>10, <1>11, <1>12, <1>13,
     <1>14, <1>15, <1>16, QuietSteps
  DEF Next, WorkerLocks, WorkerRuns, Reacquire, WakeAndLeave, Add, AdminLocks, AdminRuns,
      DestroyRuns

(* In a pool of fixed size a task never waits in the queue while workers    *)
(* sleep, unless as many workers are on their way as tasks wait: every add  *)
(* signals, and a worker that gives up its turn has seen the queue empty.   *)
THEOREM FixedPoolStrandsNoTask ==
  ASSUME MinThr = MaxThr PROVE Spec => []NoStrandedTask
<1>1. Init => WakeInv
  BY DEF Init, WakeInv, Holding, Parking, Asleep, At
<1>2. TypeOK /\ LiveBounds /\ WakeInv /\ [Next]_vars => WakeInv'
  BY WakeInvStep
<1>3. WakeInv => NoStrandedTask
  BY DEF WakeInv, NoStrandedTask, Asleep
<1> QED
  BY <1>1, <1>2, <1>3, Typing, LiveStaysInBounds, PTL DEF Spec
-----------------------------------------------------------------------------
(* What threadpool_destroy may rely on in a pool of fixed size: the admin,  *)
(* which could refill a slot, is gone before the first join, and a worker   *)
(* that has been joined stays gone.                                         *)
JoinInv ==
  /\ dpc \in {"notify", "join", "freeing", "done"} => apc = "exited"
  /\ dpc = "join" => \A w \in Slots : w < di => wpc[w] \in {"gone", "stopped"}
  /\ dpc \in {"freeing", "done"} => At({"gone", "stopped"}) = Slots

LEMMA JoinInvStep ==
  ASSUME MinThr = MaxThr, TypeOK, LiveBounds, JoinInv, [Next]_vars
  PROVE  JoinInv'
<1> USE DEF JoinInv, At
<1>1. ASSUME NEW w \in Slots, WorkerLocks(w) \/ WorkerRuns(w) PROVE JoinInv'
  <2>1. UNCHANGED <<dpc, di, apc>>
    BY <1>1 DEF WorkerLocks, WorkerRuns, Reacquire, Acquire, DecideToWait, Wait, WakeAndLeave,
       WakeAndCheck, Leave, Quit, Stop, TakeTask, StartWork, RunTask, EndWork, admin, destroyer
  <2>2. \A v \in Slots : wpc[v] \in {"gone", "stopped"} => wpc'[v] \in {"gone", "stopped"}
    BY <1>1 DEF WorkerLocks, WorkerRuns, Reacquire, Acquire, DecideToWait, Wait, WakeAndLeave,
       WakeAndCheck, Leave, Quit, Stop, TakeTask, StartWork, RunTask, EndWork, Step, TypeOK
  <2> QED
    BY <2>1, <2>2
<1>2. ASSUME NEW c \in Callers, NEW t \in Tasks, AddWait(c, t) \/ AddRefused(c, t) \/ AddTask(c, t)
      PROVE  JoinInv'
  BY <1>2 DEF AddWait, AddRefused, AddTask, SignalNotEmpty, BroadcastNotEmpty, WakeWorkers,
     worker, admin, destroyer
<1>3. CASE AdminLocks \/ AdminRuns
  BY <1>3 DEF AdminLocks, AdminRuns, AdminLoop, AdminExit, Snapshot, ReadBusy, Grow, SkipGrow,
     Shrink, SkipShrink, AdminSignal, SignalsSent, AdminStep, worker, destroyer
<1>4. CASE SetShutdown \/ JoinAdmin \/ NotifyIdle \/ AllNotified \/ JoinCrashes \/ FreePool
  <2> USE DEF DestroyStep, worker, admin
  <2>1. CASE SetShutdown \/ JoinAdmin \/ JoinCrashes \/ FreePool
    BY <2>1 DEF SetShutdown, JoinAdmin, JoinCrashes, FreePool
  <2>2. CASE NotifyIdle
    BY <2>2 DEF NotifyIdle
  <2>3. CASE AllNotified
    BY <2>3 DEF AllNotified, Slots
  <2> QED
    BY <1>4, <2>1, <2>2, <2>3
<1>5. CASE JoinWorker
  BY <1>5 DEF JoinWorker, worker, admin, TypeOK, Slots
<1>6. CASE AllJoined
  BY <1>6, PoolAssumption DEF AllJoined, DestroyStep, LiveBounds, worker, admin, TypeOK, Slots
<1>7. CASE SpuriousWake
  BY <1>7 DEF SpuriousWake, WakeWorkers, admin, destroyer
<1>8. CASE UNCHANGED vars
  BY <1>8 DEF vars, worker, admin, destroyer
<1> QED
  BY <1>1, <1>2, <1>3, <1>4, <1>5, <1>6, <1>7, <1>8 DEF Next, Add, DestroyRuns

(* In a pool of fixed size the pool is freed only after its last use by a   *)
(* worker.                                                                  *)
THEOREM FixedPoolIsFreedLast ==
  ASSUME MinThr = MaxThr PROVE Spec => []FreeAfterWorkersStop
<1>1. Init => JoinInv
  BY DEF Init, JoinInv
<1>2. TypeOK /\ LiveBounds /\ JoinInv /\ [Next]_vars => JoinInv'
  BY JoinInvStep
<1>3. TypeOK /\ JoinInv => FreeAfterWorkersStop
  BY DEF TypeOK, JoinInv, FreeAfterWorkersStop, Freed, At, WorkerPcs
<1> QED
  BY <1>1, <1>2, <1>3, Typing, LiveStaysInBounds, PTL DEF Spec
-----------------------------------------------------------------------------
(* ThreadPool implements TaskQueue.                                         *)

(* queue_rear is queue_size entries behind queue_front in the ring.        *)
Wrapped(i) == IF i < QueueMax THEN i ELSE i - QueueMax
RearIsBehind == queue_rear = Wrapped(queue_front + queue_size)

(* No task is in two places: the caller that holds it, the queue, or the   *)
(* worker that has taken it; and what has run is in none of the first two. *)
Holds(c) == cpc[c] # "idle"
Takers == At({"got", "run"})
CallersApart ==
  /\ \A c \in Callers : Holds(c) => ctask[c] \in Tasks \ todo
  /\ \A c, d \in Callers : Holds(c) /\ Holds(d) /\ ctask[c] = ctask[d] => c = d
QueueApart ==
  /\ \A i \in 1 .. queue_size : Pending[i] \in Tasks
  /\ \A i, j \in 1 .. queue_size : Pending[i] = Pending[j] => i = j
WorkersApart ==
  /\ \A w \in Takers : wtask[w] \in Tasks
  /\ \A w, v \in Takers : wtask[w] = wtask[v] => w = v
  /\ \A w \in Takers : \A i \in 1 .. queue_size : Pending[i] # wtask[w]
IsNew(t) ==
  /\ t \notin done
  /\ \A i \in 1 .. queue_size : Pending[i] # t
  /\ \A w \in Takers : wtask[w] # t
NewOnesAreNew ==
  /\ \A t \in todo : IsNew(t)
  /\ \A c \in Callers : Holds(c) => IsNew(ctask[c])

OnePlace ==
  /\ RearIsBehind
  /\ CallersApart /\ QueueApart /\ WorkersApart /\ NewOnesAreNew
-----------------------------------------------------------------------------
(* The ring.                                                               *)

LEMMA WrappedIsMod ==
  ASSUME NEW i \in 0 .. 2 * QueueMax - 1
  PROVE  i % QueueMax = Wrapped(i) /\ Wrapped(i) \in Ring
BY PoolAssumption DEF Wrapped, Ring

(* What is pending, with the wrap spelt out.                               *)
LEMMA PendingAt ==
  ASSUME TypeOK, NEW i \in 1 .. queue_size
  PROVE  Pending[i] = task_queue[Wrapped(queue_front + i - 1)]
<1>1. queue_front + i - 1 \in 0 .. 2 * QueueMax - 1
  BY PoolAssumption DEF TypeOK, Ring
<1> QED
  BY <1>1, WrappedIsMod DEF Pending

LEMMA FunctionIsSeq ==
  ASSUME NEW S, NEW n \in Nat, NEW f \in [1 .. n -> S] PROVE f \in Seq(S) /\ Len(f) = n
OBVIOUS

LEMMA PendingIsSeq ==
  ASSUME TypeOK, QueueApart PROVE Pending \in Seq(Tasks) /\ Len(Pending) = queue_size
<1>1. Pending \in [1 .. queue_size -> Tasks] /\ queue_size \in Nat
  BY DEF Pending, QueueApart, TypeOK
<1> QED
  BY <1>1

(* An entry written at queue_rear is behind all others, ...                *)
LEMMA RingGrows ==
  ASSUME TypeOK, RearIsBehind, queue_size < QueueMax, NEW t \in Tasks,
         task_queue' = [task_queue EXCEPT ![queue_rear] = t],
         queue_rear' = NextIndex(queue_rear), queue_size' = queue_size + 1,
         queue_front' = queue_front
  PROVE  /\ RearIsBehind'
         /\ Pending' = [i \in 1 .. queue_size + 1 |->
                          IF i = queue_size + 1 THEN t ELSE Pending[i]]
<1>1. queue_front \in Ring /\ queue_rear \in Ring /\ queue_size \in 0 .. QueueMax
      /\ task_queue \in [Ring -> Tasks \cup {NoTask}]
  BY DEF TypeOK
<1>2. RearIsBehind'
  BY <1>1, NextIndexInRing, PoolAssumption DEF RearIsBehind, Wrapped, Ring
<1>3. ASSUME NEW i \in 1 .. queue_size + 1
      PROVE  /\ (queue_front + i - 1) % QueueMax = Wrapped(queue_front + i - 1)
             /\ Wrapped(queue_front + i - 1) \in Ring
  <2>1. queue_front + i - 1 \in 0 .. 2 * QueueMax - 1
    BY <1>1, PoolAssumption DEF Ring
  <2> QED
    BY <2>1, WrappedIsMod
<1>4. ASSUME NEW i \in 1 .. queue_size + 1
      PROVE  task_queue'[(queue_front + i - 1) % QueueMax]
               = IF i = queue_size + 1 THEN t ELSE Pending[i]
  <2>1. CASE i = queue_size + 1
    <3>1. Wrapped(queue_front + i - 1) = queue_rear
      BY <1>1, <2>1 DEF RearIsBehind, Ring
    <3> QED
      BY <1>1, <1>3, <2>1, <3>1
  <2>2. CASE i \in 1 .. queue_size
    <3>1. Wrapped(queue_front + i - 1) # queue_rear
      BY <1>1, <2>2, PoolAssumption DEF RearIsBehind, Wrapped, Ring
    <3>2. Pending[i] = task_queue[Wrapped(queue_front + i - 1)]
      BY <2>2, PendingAt
    <3>3. i # queue_size + 1
      BY <1>1, <2>2
    <3> QED
      BY <1>1, <1>3, <3>1, <3>2, <3>3
  <2> QED
    BY <1>1, <2>1, <2>2
<1> QED
  BY <1>2, <1>4 DEF Pending

(* ... and the one at queue_front is before all others.                    *)
LEMMA RingShrinks ==
  ASSUME TypeOK, RearIsBehind, queue_size > 0,
         queue_front' = NextIndex(queue_front), queue_size' = queue_size - 1,
         UNCHANGED <<task_queue, queue_rear>>
  PROVE  /\ RearIsBehind'
         /\ Pending' = [i \in 1 .. queue_size - 1 |-> Pending[i + 1]]
         /\ task_queue[queue_front] = Pending[1]
<1>1. queue_front \in Ring /\ queue_rear \in Ring /\ queue_size \in 1 .. QueueMax
  BY DEF TypeOK
<1>2. /\ NextIndex(queue_front) \in Ring
      /\ NextIndex(queue_front) = IF queue_front + 1 = QueueMax THEN 0 ELSE queue_front + 1
  BY <1>1, NextIndexInRing
<1>3. RearIsBehind'
  BY <1>1, <1>2, PoolAssumption DEF RearIsBehind, Wrapped, Ring
<1>4. task_queue[queue_front] = Pending[1]
  <2>1. Wrapped(queue_front + 1 - 1) = queue_front
    BY <1>1, PoolAssumption DEF Wrapped, Ring
  <2>2. 1 \in 1 .. queue_size
    BY <1>1
  <2> QED
    BY <2>1, <2>2, PendingAt
<1>5. ASSUME NEW i \in 1 .. queue_size - 1
      PROVE  task_queue[(queue_front' + i - 1) % QueueMax] = Pending[i + 1]
  <2>1. i + 1 \in 1 .. queue_size /\ i \in Nat
    BY <1>1
  <2>2. Pending[i + 1] = task_queue[Wrapped(queue_front + (i + 1) - 1)]
    BY <2>1, PendingAt
  <2>3. queue_front' + i - 1 \in 0 .. 2 * QueueMax - 1
    BY <1>1, <1>2, PoolAssumption DEF Ring
  <2>4. Wrapped(queue_front' + i - 1) = Wrapped(queue_front + (i + 1) - 1)
    BY <1>1, <1>2, PoolAssumption DEF Wrapped, Ring
  <2> QED
    BY <2>2, <2>3, <2>4, WrappedIsMod
<1> QED
  BY <1>3, <1>4, <1>5 DEF Pending
-----------------------------------------------------------------------------
(* Steps.                                                                  *)

LEMMA InitOnePlace == Init => OnePlace /\ Queue!Init
<1> SUFFICES ASSUME Init PROVE OnePlace /\ Queue!Init
  OBVIOUS
<1>2. queue_size = 0 /\ 1 .. queue_size = {} /\ Takers = {}
  BY PoolAssumption DEF Init, Takers, At
<1>3. RearIsBehind
  BY PoolAssumption DEF Init, RearIsBehind, Wrapped
<1>4. CallersApart /\ QueueApart /\ WorkersApart /\ NewOnesAreNew
  BY <1>2 DEF Init, CallersApart, QueueApart, WorkersApart, NewOnesAreNew, IsNew, Holds
<1>5. Pending = <<>>
  BY <1>2 DEF Pending
<1>6. Taken = {} /\ done = {}
  BY <1>2 DEF Taken, Takers, Init
<1> QED
  BY <1>3, <1>4, <1>5, <1>6 DEF OnePlace, Queue!Init

(* A step that touches neither the tasks in the ring nor those of workers. *)
QueueStays ==
  /\ UNCHANGED <<ring, done>> /\ Takers' = Takers
  /\ \A w \in Takers : wtask'[w] = wtask[w]

LEMMA StaysIsStutter == ASSUME QueueStays PROVE UNCHANGED Queue!vars
<1>1. Pending' = Pending
  BY DEF QueueStays, ring, Pending
<1>2. Taken' = Taken
  BY DEF QueueStays, Taken, Takers
<1> QED
  BY <1>1, <1>2 DEF QueueStays, Queue!vars

LEMMA StaysApart ==
  ASSUME OnePlace, QueueStays
  PROVE  RearIsBehind' /\ QueueApart' /\ WorkersApart' /\ \A t : IsNew(t) => IsNew(t)'
<1>1. Pending' = Pending /\ queue_size' = queue_size
  BY DEF QueueStays, ring, Pending
<1> QED
  BY <1>1 DEF OnePlace, RearIsBehind, QueueApart, WorkersApart, IsNew, QueueStays, ring

(* Nor those of callers.                                                   *)
CallersStay ==
  /\ UNCHANGED <<ctask, todo>>
  /\ \A c \in Callers : Holds(c)' = Holds(c)

LEMMA NothingMoves ==
  ASSUME OnePlace, QueueStays, CallersStay PROVE OnePlace'
<1>1. CallersApart'
  BY DEF OnePlace, CallersApart, CallersStay
<1>2. NewOnesAreNew'
  BY StaysApart DEF OnePlace, NewOnesAreNew, CallersStay
<1> QED
  BY <1>1, <1>2, StaysApart DEF OnePlace

(* The caller that submits t is the only one that has it.                  *)
LEMMA OfferedIsNew ==
  ASSUME OnePlace, NEW c \in Callers, NEW t \in Tasks, Enters(c, t) \/ Resumes(c, t)
  PROVE  /\ IsNew(t)
         /\ \A d \in Callers : d # c /\ Holds(d) => ctask[d] # t
<1>1. CASE Enters(c, t)
  BY <1>1 DEF Enters, OnePlace, NewOnesAreNew, CallersApart
<1>2. CASE Resumes(c, t)
  BY <1>2 DEF Resumes, OnePlace, NewOnesAreNew, CallersApart, Holds
<1> QED
  BY <1>1, <1>2

(* Adding.                                                                 *)
LEMMA AddWaitSteps ==
  ASSUME TypeOK, OnePlace, NEW c \in Callers, NEW t \in Tasks, AddWait(c, t)
  PROVE  OnePlace' /\ UNCHANGED Queue!vars
<1>1. QueueStays
  BY DEF AddWait, QueueStays, worker, Takers, At
<1>2. /\ cpc' = [cpc EXCEPT ![c] = "waiting"] /\ ctask' = [ctask EXCEPT ![c] = t]
      /\ todo' = todo \ {t}
  BY DEF AddWait
<1>3. IsNew(t) /\ \A d \in Callers : d # c /\ Holds(d) => ctask[d] # t
  BY OfferedIsNew DEF AddWait
<1>4. /\ Holds(c)' /\ ctask'[c] = t
      /\ \A d \in Callers : d # c => Holds(d)' = Holds(d) /\ ctask'[d] = ctask[d]
  BY <1>2 DEF Holds, TypeOK
<1>5. CallersApart'
  BY <1>2, <1>3, <1>4 DEF OnePlace, CallersApart
<1>6. NewOnesAreNew'
  BY <1>1, <1>2, <1>3, <1>4, StaysApart DEF OnePlace, NewOnesAreNew
<1> QED
  BY <1>1, <1>5, <1>6, StaysApart, StaysIsStutter DEF OnePlace

(* A caller that returns has nothing to submit any more.                   *)
LEMMA ReturnsApart ==
  ASSUME TypeOK, OnePlace, NEW c \in Callers, NEW t \in Tasks,
         Enters(c, t) \/ Resumes(c, t), Returns(c, t)
  PROVE  /\ CallersApart'
         /\ \A u \in todo' : u # t /\ IsNew(u)
         /\ \A d \in Callers : Holds(d)' => ctask'[d] # t /\ IsNew(ctask'[d])
<1>1. ~Holds(c)' /\ todo' = todo \ {t}
      /\ \A d \in Callers : d # c => Holds(d)' = Holds(d) /\ ctask'[d] = ctask[d]
  BY DEF Returns, Holds, TypeOK
<1>2. \A d \in Callers : d # c /\ Holds(d) => ctask[d] # t
  BY OfferedIsNew
<1> QED
  BY <1>1, <1>2 DEF OnePlace, CallersApart, NewOnesAreNew

LEMMA AddRefusedSteps ==
  ASSUME TypeOK, OnePlace, NEW c \in Callers, NEW t \in Tasks, AddRefused(c, t)
  PROVE  OnePlace' /\ UNCHANGED Queue!vars
<1>1. QueueStays
  BY DEF AddRefused, BroadcastNotEmpty, WakeWorkers, QueueStays, Takers, At, TypeOK
<1>2. /\ CallersApart'
      /\ \A u \in todo' : IsNew(u)
      /\ \A d \in Callers : Holds(d)' => IsNew(ctask'[d])
  BY ReturnsApart DEF AddRefused
<1>3. NewOnesAreNew'
  BY <1>1, <1>2, StaysApart DEF NewOnesAreNew
<1> QED
  BY <1>1, <1>2, <1>3, StaysApart, StaysIsStutter DEF OnePlace

LEMMA AddTaskSteps ==
  ASSUME TypeOK, OnePlace, NEW c \in Callers, NEW t \in Tasks, AddTask(c, t)
  PROVE  OnePlace' /\ Queue!Accept(t)
<1>1. queue_size \in Nat /\ queue_size < QueueMax
  <2>1. queue_size \in 0 .. QueueMax /\ queue_size # QueueMax
    BY DEF AddTask, QueueFull, TypeOK
  <2> QED
    BY <2>1, PoolAssumption
<1>2. /\ Takers' = Takers /\ UNCHANGED <<wtask, done>> /\ Taken' = Taken
  BY DEF AddTask, SignalNotEmpty, WakeWorkers, Takers, Taken, At, TypeOK
<1>3. /\ RearIsBehind'
      /\ Pending' = [i \in 1 .. queue_size + 1 |->
                       IF i = queue_size + 1 THEN t ELSE Pending[i]]
      /\ queue_size' = queue_size + 1
  BY <1>1, RingGrows DEF AddTask, OnePlace
<1>4. IsNew(t)
  BY OfferedIsNew DEF AddTask
<1>5. /\ Pending'[queue_size + 1] = t
      /\ \A i \in 1 .. queue_size : Pending'[i] = Pending[i]
      /\ \A i \in 1 .. queue_size' : i \in 1 .. queue_size \/ i = queue_size + 1
  BY <1>1, <1>3
<1>6. QueueApart'
  BY <1>4, <1>5 DEF OnePlace, QueueApart, IsNew
<1>7. WorkersApart'
  BY <1>2, <1>4, <1>5 DEF OnePlace, WorkersApart, IsNew
<1>8. \A u : u # t /\ IsNew(u) => IsNew(u)'
  BY <1>2, <1>5 DEF IsNew
<1>9. CallersApart' /\ NewOnesAreNew'
  BY <1>8, ReturnsApart DEF AddTask, NewOnesAreNew
<1>10. Queue!Accept(t)
  <2>1. Pending \in Seq(Tasks) /\ Len(Pending) = queue_size
    BY PendingIsSeq DEF OnePlace
  <2>2. Pending' = Append(Pending, t)
    <3>1. Pending' \in [1 .. queue_size + 1 -> Tasks] /\ queue_size + 1 \in Nat
      BY <1>1, <1>3 DEF OnePlace, QueueApart
    <3>2. Pending' \in Seq(Tasks) /\ Len(Pending') = queue_size + 1
      BY <3>1, FunctionIsSeq
    <3>3. /\ Append(Pending, t) \in Seq(Tasks) /\ Len(Append(Pending, t)) = queue_size + 1
          /\ \A i \in 1 .. queue_size : Append(Pending, t)[i] = Pending[i]
          /\ Append(Pending, t)[queue_size + 1] = t
      BY <2>1, AppendProperties
    <3>4. \A i \in 1 .. queue_size + 1 : Pending'[i] = Append(Pending, t)[i]
      BY <1>3, <1>5, <3>3
    <3> QED
      BY <3>2, <3>3, <3>4, SeqEqual
  <2>3. t \notin Queue!Seen
    BY <1>4, <2>1 DEF IsNew, Queue!Seen, Taken, Takers
  <2> QED
    BY <1>1, <1>2, <2>1, <2>2, <2>3 DEF Queue!Accept
<1> QED
  BY <1>3, <1>6, <1>7, <1>9, <1>10 DEF OnePlace

(* Taking and running.                                                     *)
LEMMA TakeTaskSteps ==
  ASSUME TypeOK, OnePlace, NEW w \in Slots, TakeTask(w)
  PROVE  OnePlace' /\ Queue!Take
<1>1. queue_size \in Nat /\ queue_size > 0
  BY DEF TakeTask, MustSleep, TypeOK
<1>2. /\ RearIsBehind'
      /\ Pending' = [i \in 1 .. queue_size - 1 |-> Pending[i + 1]]
      /\ task_queue[queue_front] = Pending[1] /\ queue_size' = queue_size - 1
  BY <1>1, RingShrinks DEF TakeTask, OnePlace
<1>3. /\ w \notin Takers /\ Takers' = Takers \cup {w} /\ wtask'[w] = Pending[1]
      /\ \A v \in Takers : wtask'[v] = wtask[v]
  BY <1>2 DEF TakeTask, Step, Takers, At, TypeOK
<1>4. /\ 1 \in 1 .. queue_size
      /\ \A i \in 1 .. queue_size' :
           /\ i + 1 \in 1 .. queue_size /\ i + 1 # 1 /\ i \in Nat
           /\ Pending'[i] = Pending[i + 1]
  BY <1>1, <1>2
<1>5. QueueApart'
  <2>1. ASSUME NEW i \in 1 .. queue_size', NEW j \in 1 .. queue_size', Pending'[i] = Pending'[j]
        PROVE  i = j
    <3>1. i + 1 = j + 1
      BY <1>4, <2>1 DEF OnePlace, QueueApart
    <3> QED
      BY <1>4, <3>1
  <2> QED
    BY <1>4, <2>1 DEF OnePlace, QueueApart
<1>6. WorkersApart'
  BY <1>3, <1>4 DEF OnePlace, WorkersApart, QueueApart
<1>7. \A u : IsNew(u) => IsNew(u)'
  BY <1>3, <1>4 DEF IsNew, TakeTask
<1>8. /\ UNCHANGED <<ctask, todo>>
      /\ \A c \in Callers : Holds(c)' = Holds(c)
  BY DEF TakeTask, BroadcastNotFull, Holds, TypeOK
<1>9. CallersApart' /\ NewOnesAreNew'
  BY <1>7, <1>8 DEF OnePlace, CallersApart, NewOnesAreNew
<1>10. Queue!Take
  <2>1. Pending \in Seq(Tasks) /\ Len(Pending) = queue_size /\ Pending # <<>>
    BY <1>1, PendingIsSeq DEF OnePlace
  <2>2. Head(Pending) = Pending[1]
    BY <2>1
  <2>3. Tail(Pending) = Pending'
    <3>1. Pending' \in [1 .. queue_size - 1 -> Tasks] /\ queue_size - 1 \in Nat
      BY <1>1, <1>2, <1>4 DEF OnePlace, QueueApart
    <3>2. Pending' \in Seq(Tasks) /\ Len(Pending') = queue_size - 1
      BY <3>1, FunctionIsSeq
    <3>3. /\ Tail(Pending) \in Seq(Tasks) /\ Len(Tail(Pending)) = queue_size - 1
          /\ \A i \in 1 .. queue_size - 1 : Tail(Pending)[i] = Pending[i + 1]
      BY <2>1, HeadTailProperties
    <3> QED
      BY <1>2, <3>2, <3>3, SeqEqual
  <2>4. Taken' = Taken \cup {Pending[1]}
    BY <1>3 DEF Taken, Takers
  <2> QED
    BY <2>1, <2>2, <2>3, <2>4 DEF Queue!Take, TakeTask
<1> QED
  BY <1>2, <1>5, <1>6, <1>9, <1>10 DEF OnePlace

LEMMA RunTaskSteps ==
  ASSUME TypeOK, OnePlace, NEW w \in Slots, RunTask(w)
  PROVE  OnePlace' /\ wtask[w] \in Tasks /\ Queue!Finish(wtask[w])
<1>1. /\ w \in Takers /\ Takers' = Takers \ {w} /\ UNCHANGED <<ring, wtask, caller>>
      /\ done' = done \cup {wtask[w]}
  BY DEF RunTask, Step, Takers, At, TypeOK
<1>2. Pending' = Pending /\ UNCHANGED <<queue_front, queue_rear, queue_size, cpc, ctask, todo>>
  BY <1>1 DEF ring, caller, Pending
<1>3. RearIsBehind' /\ QueueApart' /\ WorkersApart' /\ CallersApart'
  BY <1>1, <1>2 DEF OnePlace, RearIsBehind, QueueApart, WorkersApart, CallersApart, Holds
<1>4. \A u : IsNew(u) => IsNew(u)'
  BY <1>1, <1>2 DEF IsNew
<1>5. NewOnesAreNew'
  BY <1>2, <1>4 DEF OnePlace, NewOnesAreNew, Holds
<1>6. wtask[w] \in Tasks /\ Queue!Finish(wtask[w])
  <2>1. Taken' = Taken \ {wtask[w]} /\ wtask[w] \in Taken /\ wtask[w] \in Tasks
    BY <1>1 DEF Taken, Takers, OnePlace, WorkersApart
  <2> QED
    BY <1>1, <1>2, <2>1 DEF Queue!Finish
<1> QED
  BY <1>3, <1>5, <1>6 DEF OnePlace
-----------------------------------------------------------------------------
(* No other step moves a task.                                             *)
LEMMA OtherWorkerSteps ==
  ASSUME TypeOK, NEW w \in Slots,
         WorkerLocks(w) \/ DecideToWait(w) \/ Wait(w) \/ Leave(w) \/ Quit(w) \/ Stop(w)
           \/ StartWork(w) \/ EndWork(w)
  PROVE  QueueStays /\ CallersStay
<1> USE DEF TypeOK, Step, Takers, At, QueueStays, CallersStay, caller, Holds
<1>1. CASE Acquire(w)
  BY <1>1 DEF Acquire
<1>2. CASE WakeAndLeave(w)
  BY <1>2 DEF WakeAndLeave
<1>3. CASE WakeAndCheck(w)
  BY <1>3 DEF WakeAndCheck
<1>4. CASE DecideToWait(w)
  BY <1>4 DEF DecideToWait
<1>5. CASE Wait(w)
  BY <1>5 DEF Wait
<1>6. CASE Leave(w)
  BY <1>6 DEF Leave
<1>7. CASE Quit(w)
  BY <1>7 DEF Quit
<1>8. CASE Stop(w)
  BY <1>8 DEF Stop
<1>9. CASE StartWork(w)
  BY <1>9 DEF StartWork
<1>10. CASE EndWork(w)
  BY <1>10 DEF EndWork
<1> QED
  BY <1>1, <1>2, <1>3, <1>4, <1>5, <1>6, <1>7, <1>8, <1>9, <1>10 DEF WorkerLocks, Reacquire

LEMMA AdminSteps ==
  ASSUME TypeOK, AdminLocks \/ AdminRuns PROVE QueueStays /\ CallersStay
<1> USE DEF TypeOK, QueueStays, CallersStay, caller, Holds
<1>1. CASE Grow
  <2>1. PICK F \in SUBSET At({"none", "gone", "stopped"}) :
          wpc' = [w \in Slots |-> IF w \in F THEN "start" ELSE wpc[w]]
    BY <1>1 DEF Grow, Vacancies, At
  <2>2. Takers' = Takers
    BY <2>1 DEF Takers, At
  <2> QED
    BY <1>1, <2>2 DEF Grow
<1>2. CASE AdminSignal
  <2>1. Takers' = Takers
    BY <1>2 DEF AdminSignal, SignalNotEmpty, WakeWorkers, Takers, At
  <2> QED
    BY <1>2, <2>1 DEF AdminSignal
<1>3. CASE AdminLoop \/ AdminExit \/ Snapshot \/ ReadBusy
  BY <1>3 DEF AdminLoop, AdminExit, Snapshot, ReadBusy, worker, Takers, At
<1>4. CASE SkipGrow \/ Shrink \/ SkipShrink \/ SignalsSent
  BY <1>4 DEF SkipGrow, Shrink, SkipShrink, SignalsSent, worker, Takers, At
<1> QED
  BY <1>1, <1>2, <1>3, <1>4 DEF AdminLocks, AdminRuns

LEMMA DestroyerSteps ==
  ASSUME TypeOK, SetShutdown \/ DestroyRuns PROVE QueueStays /\ CallersStay
<1> USE DEF QueueStays, CallersStay, caller, Holds
<1>1. CASE NotifyIdle
  <2>1. Takers' = Takers
    BY <1>1 DEF TypeOK, NotifyIdle, BroadcastNotEmpty, WakeWorkers, Takers, At
  <2> QED
    BY <1>1, <2>1 DEF NotifyIdle
<1>2. CASE SetShutdown \/ JoinAdmin \/ AllNotified \/ JoinWorker
  BY <1>2 DEF SetShutdown, JoinAdmin, AllNotified, JoinWorker, worker, Takers, At
<1>3. CASE JoinCrashes \/ AllJoined \/ FreePool
  BY <1>3 DEF JoinCrashes, AllJoined, FreePool, worker, Takers, At
<1> QED
  BY <1>1, <1>2, <1>3 DEF DestroyRuns

LEMMA SpuriousSteps == ASSUME TypeOK, SpuriousWake PROVE QueueStays /\ CallersStay
<1>1. Takers' = Takers
  BY DEF TypeOK, SpuriousWake, WakeWorkers, Takers, At
<1>2. \A c \in Callers : Holds(c)' = Holds(c)
  BY DEF TypeOK, SpuriousWake, Holds
<1> QED
  BY <1>1, <1>2 DEF SpuriousWake, QueueStays, CallersStay

LEMMA StepImplements ==
  ASSUME TypeOK, OnePlace, [Next]_vars PROVE OnePlace' /\ [Queue!Next]_(Queue!vars)
<1>1. CASE QueueStays /\ CallersStay
  BY <1>1, NothingMoves, StaysIsStutter
<1>2. CASE UNCHANGED vars
  <2>1. QueueStays /\ CallersStay
    BY <1>2 DEF vars, worker, caller, QueueStays, CallersStay, Takers, At, Holds
  <2> QED
    BY <1>1, <2>1
<1>3. ASSUME NEW w \in Slots, WorkerLocks(w) \/ WorkerRuns(w)
      PROVE  OnePlace' /\ [Queue!Next]_(Queue!vars)
  <2>1. CASE TakeTask(w)
    BY <2>1, TakeTaskSteps DEF Queue!Next
  <2>2. CASE RunTask(w)
    BY <2>2, RunTaskSteps DEF Queue!Next
  <2>3. CASE ~TakeTask(w) /\ ~RunTask(w)
    BY <1>1, <1>3, <2>3, OtherWorkerSteps DEF WorkerRuns
  <2> QED
    BY <2>1, <2>2, <2>3
<1>4. ASSUME NEW c \in Callers, Add(c) PROVE OnePlace' /\ [Queue!Next]_(Queue!vars)
  <2>1. PICK t \in Tasks : AddWait(c, t) \/ AddRefused(c, t) \/ AddTask(c, t)
    BY <1>4 DEF Add
  <2>2. CASE AddTask(c, t)
    BY <2>2, AddTaskSteps DEF Queue!Next
  <2> QED
    BY <2>1, <2>2, AddWaitSteps, AddRefusedSteps
<1>5. CASE AdminLocks \/ AdminRuns
  BY <1>1, <1>5, AdminSteps
<1>6. CASE SetShutdown \/ DestroyRuns
  BY <1>1, <1>6, DestroyerSteps
<1>7. CASE SpuriousWake
  BY <1>1, <1>7, SpuriousSteps
<1> QED
  BY <1>2, <1>3, <1>4, <1>5, <1>6, <1>7 DEF Next

(* Whatever the threads do, the ring, the workers' locals and the history  *)
(* of what has run behave as the bounded queue of TaskQueue: tasks leave in *)
(* the order in which add accepted them and each is run at most once.      *)
THEOREM PoolImplementsQueue == Spec => RunsInOrder
<1>1. Init => OnePlace /\ Queue!Init
  BY InitOnePlace
<1>2. TypeOK /\ OnePlace /\ [Next]_vars => OnePlace' /\ [Queue!Next]_(Queue!vars)
  BY StepImplements
<1>3. Spec => []TypeOK
  BY Typing
<1> QED
  BY <1>1, <1>2, <1>3, PTL DEF Spec, RunsInOrder, Queue!Spec
=============================================================================
