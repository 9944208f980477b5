------------------------------- MODULE TaskPool -------------------------------
(***************************************************************************)
(* What the runtime process promises about tasks, whatever its tables look *)
(* like: ids are handed out in order, a task is started once, in id order, *)
(* on a least loaded worker that has capacity left, and finishes once.     *)
(***************************************************************************)
EXTENDS Integers, FiniteSets

CONSTANTS Worker, Capacity, MaxTask

Task == 0 .. MaxTask

VARIABLES
  phase,   \* where each task is in its life
  host     \* the worker a task was started on, 0 before

vars == <<phase, host>>

Running(w) == {t \in Task : phase[t] = "running" /\ host[t] = w}
Load(w) == Cardinality(Running(w))

Init ==
  /\ phase = [t \in Task |-> "absent"]
  /\ host = [t \in Task |-> 0]

(* The root task appears by itself, any other one while a task is running. *)
Spawn(t) ==
  /\ \A u \in Task : phase[u] = "absent" <=> u >= t
  /\ t # 0 => \E p \in Task : phase[p] = "running"
  /\ phase' = [phase EXCEPT ![t] = "ready"]
  /\ UNCHANGED host

Start(t, w) ==
  /\ phase[t] = "ready"
  /\ \A u \in Task : phase[u] = "ready" => t <= u
  /\ Load(w) < Capacity
  /\ \A v \in Worker : Load(w) <= Load(v)
  /\ phase' = [phase EXCEPT ![t] = "running"]
  /\ host' = [host EXCEPT ![t] = w]

Finish(t) ==
  /\ phase[t] = "running"
  /\ phase' = [phase EXCEPT ![t] = "done"]
  /\ UNCHANGED host

Next ==
  \/ \E t \in Task : Spawn(t) \/ Finish(t)
  \/ \E t \in Task, w \in Worker : Start(t, w)

Spec == Init /\ [][Next]_vars
=============================================================================
