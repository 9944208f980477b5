------------------------------ MODULE MCRuntime ------------------------------
(***************************************************************************)
(* Small instances of Runtime: two workers with the capacity 1 of the code *)
(* or 2.  The root task's parent_id may be negative, the root task itself, *)
(* another task's id, or an id that is never given to a task.              *)
(***************************************************************************)
EXTENDS Runtime

MCWorker == {1, 2}
MCGarbage == {-1, 0, 1, MaxTask + 1}
MCFlat == {Root}
MCNested == Task
=============================================================================
