----------------------------- MODULE TaskQueue -----------------------------
(***************************************************************************)
(* What a thread pool promises about the tasks handed to it, with no       *)
(* threads, locks or ring buffer in sight: tasks that were accepted wait   *)
(* in the order of their acceptance, never more than Capacity of them; a   *)
(* task leaves the head of the queue to be run, and is run once.           *)
(***************************************************************************)
EXTENDS Naturals, Sequences

CONSTANTS Tasks,      \* the tasks that can be submitted
          Capacity    \* the most tasks that wait at any time

VARIABLES pending,    \* accepted tasks in the order of their acceptance
          running,    \* tasks taken from the queue and not run yet
          done        \* tasks that have been run

vars == <<pending, running, done>>

Init ==
  /\ pending = <<>>
  /\ running = {}
  /\ done = {}

Seen == {pending[i] : i \in 1..Len(pending)} \cup running \cup done

Accept(t) ==
  /\ t \notin Seen
  /\ Len(pending) < Capacity
  /\ pending' = Append(pending, t)
  /\ UNCHANGED <<running, done>>

Take ==
  /\ pending # <<>>
  /\ running' = running \cup {Head(pending)}
  /\ pending' = Tail(pending)
  /\ UNCHANGED done

Finish(t) ==
  /\ t \in running
  /\ running' = running \ {t}
  /\ done' = done \cup {t}
  /\ UNCHANGED pending

Next == Take \/ \E t \in Tasks : Accept(t) \/ Finish(t)

Spec == Init /\ [][Next]_vars
=============================================================================
