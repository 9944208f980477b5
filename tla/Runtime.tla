------------------------------- MODULE Runtime -------------------------------
(***************************************************************************)
(* The runtime process of rank 0 (runtime/src/Runtime.{h,cpp}) around its  *)
(* Scheduler, against workers that may create a task from, or finish, any  *)
(* task they have been given.  Tasking replaces that environment by the    *)
(* worker processes and the messages.                                      *)
(***************************************************************************)
EXTENDS Scheduler

CONSTANT UninitParent   \* what the uninitialised parent_id of the root may hold

ASSUME UninitParentAssumption == UninitParent \subseteq Int

VARIABLES
  next_task_id,  \* Runtime::next_task_id
  node,          \* the worker run_task_on_node sent the task to, 0 before
  loop           \* where Runtime::run is

runtimeVars == <<created_tasks, parent_id, finished, children_finished,
                 ready_tasks, free_capacity, next_task_id, node, loop>>

RuntimeTypeOK ==
  /\ SchedulerTypeOK
  /\ next_task_id \in 0 .. MaxTask + 1
  /\ node \in [Task -> Worker \cup {0}]
  /\ loop \in {"setup", "run", "exit", "crash"}

RuntimeInit ==
  /\ SchedulerInit
  /\ next_task_id = 0
  /\ node = [t \in Task |-> 0]
  /\ loop = "setup"

Given(t) == node[t] # 0 /\ ~finished[t]
RunningOn(w) == {t \in Task : node[t] = w /\ ~finished[t]}

------------------------------------------------------------------------------
(* Every worker has reported its capacity; the root task is enqueued.  Its *)
(* parent_id is never assigned: there is no current_task in this process.  *)
setup ==
  /\ loop = "setup"
  /\ \E p \in UninitParent : enqueue(Root, p)
  /\ free_capacity' = [w \in Worker |-> Capacity]
  /\ next_task_id' = next_task_id + 1
  /\ loop' = "run"
  /\ UNCHANGED <<finished, children_finished, node>>

(* The inner loop of run: hand out work while there is some.               *)
run_task_on_node ==
  /\ loop = "run" /\ ~children_finished[Root]
  /\ work_available
  /\ \E w \in Worker :
       /\ get_next_node_and_task(w)
       /\ node' = [node EXCEPT ![Head(ready_tasks)] = w]
  /\ UNCHANGED <<created_tasks, parent_id, finished, children_finished,
                 next_task_id, loop>>

(* handle_message is reached once no more work can be handed out.          *)
Receiving == loop = "run" /\ ~children_finished[Root] /\ ~work_available

handle_create_task(p) ==
  /\ Receiving
  /\ next_task_id <= MaxTask                       \* bound
  /\ enqueue(next_task_id, p)
  /\ next_task_id' = next_task_id + 1
  /\ UNCHANGED <<finished, children_finished, free_capacity, node, loop>>

(* used_capacity is Task::capacity, which is 1 (Task.cpp:27, Worker.cpp:105). *)
FinishKeepingCapacity(t, source) ==                \* mutation of handle_finish_task
  /\ Receiving
  /\ ParentLookupSafe(t)
  /\ set_finished(t)
  /\ UNCHANGED <<created_tasks, parent_id, ready_tasks, free_capacity,
                 next_task_id, node, loop>>

handle_finish_task(t, source) ==
  /\ Receiving
  /\ ParentLookupSafe(t)
  /\ set_finished(t)
  /\ free_capacity' = [free_capacity EXCEPT ![source] = @ + 1]
  /\ UNCHANGED <<created_tasks, parent_id, ready_tasks, next_task_id, node, loop>>

(* The uninitialised parent_id of the root task names no task: the lookup  *)
(* yields a null pointer, which set_finished dereferences.                 *)
finish_crashes(t) ==
  /\ Receiving
  /\ ~ParentLookupSafe(t)
  /\ loop' = "crash"
  /\ UNCHANGED <<schedulerVars, next_task_id, node>>

shutdown ==
  /\ loop = "run" /\ children_finished[Root]
  /\ loop' = "exit"
  /\ UNCHANGED <<schedulerVars, next_task_id, node>>

------------------------------------------------------------------------------
Create(p) == p \in Creators /\ Given(p) /\ handle_create_task(p)
Finish(t) == Given(t) /\ handle_finish_task(t, node[t])
Crash(t) == Given(t) /\ finish_crashes(t)

RuntimeNext ==
  \/ setup
  \/ run_task_on_node
  \/ \E p \in Task : Create(p)
  \/ \E t \in Task : Finish(t)
  \/ \E t \in Task : Crash(t)
  \/ shutdown

RuntimeSpec == RuntimeInit /\ [][RuntimeNext]_runtimeVars

(* run never rests while it has work or a message, and a task that was     *)
(* handed out comes to its end; nothing obliges a task to create another.  *)
RuntimeFairness ==
  /\ WF_runtimeVars(setup)
  /\ WF_runtimeVars(run_task_on_node)
  /\ WF_runtimeVars(shutdown)
  /\ \A t \in Task : WF_runtimeVars(Finish(t) \/ Crash(t))

RuntimeFairSpec == RuntimeSpec /\ RuntimeFairness

------------------------------------------------------------------------------
(* The shape of the tables between two steps of run: ids are a prefix, the *)
(* queue is the tail of the ids, a task has a node once it left the queue. *)
TablesAgree ==
  /\ loop = "setup" <=> next_task_id = 0
  /\ created_tasks = 0 .. next_task_id - 1
  /\ Len(ready_tasks) <= next_task_id
  /\ \A i \in 1 .. Len(ready_tasks) :
       ready_tasks[i] = next_task_id - Len(ready_tasks) + i - 1
  /\ \A t \in Task : node[t] # 0 <=> t < next_task_id - Len(ready_tasks)
  /\ \A t \in Task : finished[t] => node[t] # 0
  /\ \A t \in created_tasks \ {Root} :
       parent_id[t] \in Creators /\ parent_id[t] < t /\ node[parent_id[t]] # 0

(* Capacity is neither lost nor invented over any number of dispatches and *)
(* completions: what a worker has free is what its running tasks leave of  *)
(* its report, so it is never given more than it offered.                  *)
CapacityConserved ==
  \A w \in Worker :
    /\ loop # "setup" => free_capacity[w] = Capacity - Cardinality(RunningOn(w))
    /\ free_capacity[w] >= 0

(* The uninitialised parent_id of the root task happens to name a task.    *)
RootHasParent == parent_id[Root] \in created_tasks \ {Root}

(* children_finished never becomes true out of nothing: behind it is the   *)
(* end of the task itself or of one of its children; and the flag of the   *)
(* root task, which ends run, covers the flags of all of its children.     *)
FlagsFounded ==
  /\ loop = "exit" => children_finished[Root]
  /\ ~RootHasParent =>
       /\ \A t \in Task : children_finished[t] =>
            finished[t] \/ \E c \in children(t) : finished[c]
       /\ children_finished[Root] => ChildrenDone(children_finished, Root)

RuntimeInv ==
  /\ RuntimeTypeOK
  /\ TablesAgree
  /\ CapacityConserved
  /\ FlagsFounded

(* The most that shutdown may rely on: no child of the root task is then   *)
(* still waiting for a worker or running, unless a child of its own ended. *)
ExitSound ==
  loop = "exit" /\ ~RootHasParent =>
    \A c \in children(Root) : finished[c] \/ \E d \in children(c) : finished[d]

(* The end of the last task is noticed: with every task finished, run does *)
(* not go on waiting for messages that nobody will send ...                *)
EndDetected ==
  loop = "run" /\ (\A t \in created_tasks : finished[t]) => children_finished[Root]

(* ... which can be relied on as long as only the root task has created    *)
(* tasks: the flags of the root task are recomputed with each completion.  *)
FlatSoFar == \A t \in created_tasks \ {Root} : parent_id[t] = Root

FlatEndDetected == FlatSoFar => EndDetected

(* After do_tasking the results of all tasks can be looked at.             *)
ExitMeansAllDone == loop = "exit" => \A t \in created_tasks : finished[t]

(* The runtime process of a flat program does not wait for ever.           *)
Termination == <>(loop \in {"exit", "crash"} \/ ~FlatSoFar)

(* The tables implement the abstract pool of tasks.                        *)
PhaseOf(t) ==
  CASE t \notin created_tasks -> "absent"
    [] finished[t]            -> "done"
    [] Given(t)               -> "running"
    [] OTHER                  -> "ready"

Pool == INSTANCE TaskPool WITH phase <- [t \in Task |-> PhaseOf(t)], host <- node

(* Every run of the runtime process is a run of the task pool: a task is   *)
(* started once, in id order, on a least loaded worker with capacity left. *)
ImplementsTaskPool == Pool!Spec
=============================================================================
