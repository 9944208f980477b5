-------------------------------- MODULE Tasks --------------------------------
(***************************************************************************)
(* The names every module shares: worker ranks and task ids.  A task is    *)
(* its task_id; 0 is the root task, the one that runs __main__.            *)
(***************************************************************************)
EXTENDS Integers, FiniteSets

CONSTANTS
  Worker,      \* the ranks of the worker processes
  MaxTask,     \* bound: the largest task_id a program reaches
  Creators     \* the tasks whose code creates tasks; {Root} is a flat program

ASSUME WorkerAssumption == Worker \subseteq Nat \ {0} /\ IsFiniteSet(Worker)
ASSUME MaxTaskAssumption == MaxTask \in Nat

Root == 0
Task == 0 .. MaxTask

ASSUME CreatorsAssumption == Creators \subseteq Task
=============================================================================
