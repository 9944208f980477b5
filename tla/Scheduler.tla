------------------------------ MODULE Scheduler ------------------------------
(***************************************************************************)
(* The task table, the ready queue and the capacity table of the runtime   *)
(* process (rank 0): runtime/src/Scheduler.{h,cpp}.                        *)
(*                                                                         *)
(* Tasks are never removed from created_tasks, so the weak pointers of     *)
(* Task::children never expire and children is the set of table entries    *)
(* that name the task as their parent.                                     *)
(***************************************************************************)
EXTENDS Tasks, Sequences

CONSTANT Capacity    \* what each worker reports (Worker.h:39 says 1)

ASSUME CapacityAssumption == Capacity \in Nat \ {0}

VARIABLES
  created_tasks,      \* the task_ids in the table
  parent_id,          \* Task::parent_id
  finished,           \* Task::finished
  children_finished,  \* Task::children_finished
  ready_tasks,        \* the ready queue
  free_capacity       \* workers[w]->free_capacity

schedulerVars == <<created_tasks, parent_id, finished, children_finished,
                   ready_tasks, free_capacity>>

SchedulerTypeOK ==
  /\ created_tasks \subseteq Task
  /\ parent_id \in [Task -> Int]
  /\ finished \in [Task -> BOOLEAN]
  /\ children_finished \in [Task -> BOOLEAN]
  /\ ready_tasks \in Seq(Task)
  /\ free_capacity \in [Worker -> Int]

(* The empty table, with the field values of a freshly constructed Task.   *)
SchedulerInit ==
  /\ created_tasks = {}
  /\ parent_id = [t \in Task |-> -1]
  /\ finished = [t \in Task |-> FALSE]
  /\ children_finished = [t \in Task |-> FALSE]
  /\ ready_tasks = << >>
  /\ free_capacity = [w \in Worker |-> 0]

------------------------------------------------------------------------------
(* Enters t, with parent p, in the table and in the ready queue:           *)
(* can_run_task is constantly true.                                        *)
EnqueueParent(t, p) ==                             \* mutation of enqueue
  /\ created_tasks' = created_tasks \cup {t}
  /\ parent_id' = [parent_id EXCEPT ![t] = p]
  /\ ready_tasks' = Append(ready_tasks, p)

EnqueueAtFront(t, p) ==                            \* mutation of enqueue
  /\ created_tasks' = created_tasks \cup {t}
  /\ parent_id' = [parent_id EXCEPT ![t] = p]
  /\ ready_tasks' = <<t>> \o ready_tasks

enqueue(t, p) ==
  /\ created_tasks' = created_tasks \cup {t}
  /\ parent_id' = [parent_id EXCEPT ![t] = p]
  /\ ready_tasks' = Append(ready_tasks, t)

work_available ==
  /\ \E w \in Worker : free_capacity[w] > 0
  /\ ready_tasks # << >>

(* The worker with the most free capacity, the lowest rank among equals:   *)
(* the map is scanned in rank order and a later one must be strictly more. *)
AnyFreeWorker(w) == free_capacity[w] >= 0          \* mutation of MostFree

MostFree(w) ==
  /\ free_capacity[w] > 0
  /\ \A v \in Worker : \/ free_capacity[v] < free_capacity[w]
                       \/ free_capacity[v] = free_capacity[w] /\ w <= v

(* Takes the first ready task off the queue and a unit of capacity off w.  *)
get_next_node_and_task(w) ==
  /\ MostFree(w)
  /\ ready_tasks' = Tail(ready_tasks)
  /\ free_capacity' = [free_capacity EXCEPT ![w] = @ - 1]

------------------------------------------------------------------------------
children(t) == {c \in created_tasks \ {Root} : parent_id[c] = t}

(* The loop of set_finished: the conjunction of the children's flags.      *)
SomeChildDone(flags, t) ==                         \* mutation of ChildrenDone
  children(t) = {} \/ \E c \in children(t) : flags[c]

ChildrenDone(flags, t) == \A c \in children(t) : flags[c]

(* The lookup of the parent in set_finished meets an entry: a negative     *)
(* parent_id is skipped, and created_tasks[k] of an unknown k is null.     *)
ParentLookupSafe(t) == parent_id[t] < 0 \/ parent_id[t] \in created_tasks

(* children_finished after set_finished(t): recomputed for t and for its   *)
(* parent, for no other ancestor.                                          *)
FlagsAfterOwnOnly(t) ==                            \* mutation of FlagsAfter
  [children_finished EXCEPT ![t] = ChildrenDone(children_finished, t)]

FlagsAfter(t) ==
  LET own == [children_finished EXCEPT ![t] = ChildrenDone(children_finished, t)]
  IN  IF parent_id[t] \in created_tasks
      THEN [own EXCEPT ![parent_id[t]] = ChildrenDone(own, parent_id[t])]
      ELSE own

set_finished(t) ==
  /\ finished' = [finished EXCEPT ![t] = TRUE]
  /\ children_finished' = FlagsAfter(t)
=============================================================================
