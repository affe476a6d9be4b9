---------------------------- MODULE ChildReaper ----------------------------
(***************************************************************************)
(* The children of a forking server and its SIGCHLD handler read_childProc, *)
(* the same code in Processes/concurrent_server.cpp, pipesavemsg_server.cpp *)
(* and sig.cpp.  The handler calls waitpid(-1, &status, WNOHANG) once and   *)
(* looks at status without looking at waitpid's result.                     *)
(*                                                                          *)
(* External: the kernel keeps one pending SIGCHLD however many children     *)
(* make it send one and delivers it when the handler is not already         *)
(* running.  sa_flags has no SA_NOCLDSTOP, so a child that is stopped or    *)
(* continued by somebody's signal sends it as an exit does; waitpid without *)
(* WUNTRACED reports exits only.                                            *)
(***************************************************************************)
EXTENDS Naturals, FiniteSets

CONSTANTS
  Kids,              \* the processes the server may fork
  MaxJobs            \* bound on the stops and continues of children

ASSUME ReaperAssumption == IsFiniteSet(Kids) /\ MaxJobs \in Nat

VARIABLES
  kid,               \* Kids -> "unborn", "running", "stopped", "zombie" or "reaped"
  pending,           \* SIGCHLD is pending in the server
  hpc,               \* the handler: "out", "wait" (waitpid), "print"
  jobs,              \* history: stops and continues so far
  blanks             \* history: runs of the handler that found status unset

reaper == <<kid, pending, hpc, jobs, blanks>>

Zombies == {k \in Kids : kid[k] = "zombie"}

ReaperInit ==
  /\ kid = [k \in Kids |-> "unborn"]
  /\ pending = FALSE
  /\ hpc = "out"
  /\ jobs = 0 /\ blanks = 0

Forks(k) ==
  /\ kid[k] = "unborn"
  /\ kid' = [kid EXCEPT ![k] = "running"]
  /\ UNCHANGED <<pending, hpc, jobs, blanks>>

Exits(k) ==
  /\ kid[k] = "running"
  /\ kid' = [kid EXCEPT ![k] = "zombie"]
  /\ pending' = TRUE
  /\ UNCHANGED <<hpc, jobs, blanks>>

JobStep(k, from, to) ==
  /\ jobs < MaxJobs /\ jobs' = jobs + 1
  /\ kid[k] = from /\ kid' = [kid EXCEPT ![k] = to]
  /\ pending' = TRUE
  /\ UNCHANGED <<hpc, blanks>>

Stops(k) == JobStep(k, "running", "stopped")
Continues(k) == JobStep(k, "stopped", "running")

DeliverNested ==   \* mutant of Deliver: SA_NODEFER, the signal stays pending
  /\ pending /\ hpc = "out"
  /\ hpc' = "wait"
  /\ UNCHANGED <<kid, pending, jobs, blanks>>

(* The signal interrupts the server; accept, if the server is in it,        *)
(* returns -1 and is called again.                                          *)
Deliver ==
  /\ pending /\ hpc = "out"
  /\ pending' = FALSE
  /\ hpc' = "wait"
  /\ UNCHANGED <<kid, jobs, blanks>>

(* With no zombie waitpid returns 0 or -1 and never sets status, which the  *)
(* next line looks at all the same.                                         *)
Reap ==
  /\ hpc = "wait"
  /\ kid' \in IF Zombies = {} THEN {kid}
                              ELSE {[kid EXCEPT ![k] = "reaped"] : k \in Zombies}
  /\ blanks' = IF Zombies = {} THEN blanks + 1 ELSE blanks
  /\ hpc' = "print"
  /\ UNCHANGED <<pending, jobs>>

HandlerReturns ==
  /\ hpc = "print"
  /\ hpc' = "out"
  /\ UNCHANGED <<kid, pending, jobs, blanks>>

HandlerRuns == Deliver \/ Reap \/ HandlerReturns

ReaperTypeOK ==
  /\ kid \in [Kids -> {"unborn", "running", "stopped", "zombie", "reaped"}]
  /\ pending \in BOOLEAN
  /\ hpc \in {"out", "wait", "print"}
  /\ jobs \in 0 .. MaxJobs /\ blanks \in Nat

(* The handler looks at a status that waitpid did not set (line 31) no more *)
(* often than children have been stopped or continued; if none ever is,     *)
(* waitpid finds a child each time.  However exits, stops and continues     *)
(* fall together, behind every other run of the handler stands an exit of   *)
(* its own that nothing has reaped.                                         *)
BlankOnlyByJobControl == blanks <= jobs
=============================================================================
