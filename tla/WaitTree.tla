------------------------------ MODULE WaitTree ------------------------------
(***************************************************************************)
(* The runtime process of the previous runtime: the wait tree              *)
(* (runtime-old/RuntimeTask.{h,cpp}) and the tables of RuntimeNode         *)
(* (runtime-old/Runtime.{h,cpp}), one operator for each handler.           *)
(*                                                                         *)
(* Unlike the current runtime it supports taskwait: a task suspends itself *)
(* and is woken when its children, or all its descendants, have finished.  *)
(***************************************************************************)
EXTENDS Tasks, Sequences

CONSTANT Capacity    \* default_capacity, 4 in defaults.h

ASSUME CapacityAssumption == Capacity \in Nat \ {0}

VARIABLES
  id_counter,             \* the next task_id; smaller ones are in waittree_map
  above,                  \* the chain of RuntimeTask::parent, as a set
  execution_finished,     \* RuntimeTask::execution_finished
  running_children,       \* RuntimeTask::running_children
  not_finished_children,  \* RuntimeTask::not_finished_children
  waiting,                \* task_waiting, all_waiting or neither
  waiting_node,           \* RuntimeTask::waiting_node
  queued_tasks,           \* tasks no worker has been told to run
  free_workers,           \* the workers to hand them to, in this order
  offered                 \* Worker::capacity as the runtime accounts for it

treeVars == <<id_counter, above, execution_finished, running_children,
              not_finished_children, waiting, waiting_node>>
poolVars == <<queued_tasks, free_workers, offered>>

WaitTreeTypeOK ==
  /\ id_counter \in 1 .. MaxTask + 1
  /\ above \in [Task -> SUBSET Task]
  /\ execution_finished \in [Task -> BOOLEAN]
  /\ running_children \in [Task -> Nat]
  /\ not_finished_children \in [Task -> Nat]
  /\ waiting \in [Task -> {"no", "task", "all"}]
  /\ waiting_node \in [Task -> Worker \cup {-1}]
  /\ queued_tasks \in Seq(Task)
  /\ free_workers \in Seq(Worker)
  /\ offered \in [Worker -> Int]

(* setup: every worker is free, in rank order, and the root task queued.   *)
WaitTreeInit ==
  /\ id_counter = 1
  /\ above = [t \in Task |-> {}]
  /\ execution_finished = [t \in Task |-> FALSE]
  /\ running_children = [t \in Task |-> 0]
  /\ not_finished_children = [t \in Task |-> 0]
  /\ waiting = [t \in Task |-> "no"]
  /\ waiting_node = [t \in Task |-> -1]
  /\ queued_tasks = <<Root>>
  /\ free_workers \in [1 .. Cardinality(Worker) -> Worker]
  /\ \A i, j \in DOMAIN free_workers : i < j => free_workers[i] < free_workers[j]
  /\ offered = [w \in Worker |-> Capacity]

Created == 0 .. id_counter - 1

(* A parent has a smaller id than its children: the nearest of the chain.  *)
parent(t) == CHOOSE p \in above[t] : \A q \in above[t] : q <= p
children(t) == {c \in Created \ {Root} : parent(c) = t}
Below(t) == {c \in Created : t \in above[c]}

------------------------------------------------------------------------------
(* handle_create_task, with add_child.                                     *)
CreateUncounted(p) ==                          \* mutation of handle_create_task
  /\ id_counter' = id_counter + 1
  /\ above' = [above EXCEPT ![id_counter] = above[p] \cup {p}]
  /\ not_finished_children' = [not_finished_children EXCEPT ![p] = @ + 1]
  /\ queued_tasks' = Append(queued_tasks, id_counter)
  /\ UNCHANGED <<execution_finished, running_children, waiting, waiting_node,
                 free_workers, offered>>

handle_create_task(p) ==
  /\ id_counter' = id_counter + 1
  /\ above' = [above EXCEPT ![id_counter] = above[p] \cup {p}]
  /\ running_children' = [running_children EXCEPT ![p] = @ + 1]
  /\ not_finished_children' = [not_finished_children EXCEPT ![p] = @ + 1]
  /\ queued_tasks' = Append(queued_tasks, id_counter)
  /\ UNCHANGED <<execution_finished, waiting, waiting_node, free_workers, offered>>

(* Whose child_finished is called when t finishes: the parent's if t has   *)
(* no unfinished child, and from there on upwards as long as that call     *)
(* takes the counter of a task whose execution is finished to 0.           *)
ToldParent(t) ==                               \* mutation of Told
  {a \in above[t] : not_finished_children[t] = 0 /\ a = parent(t)}

Told(t) ==
  {a \in above[t] :
     /\ not_finished_children[t] = 0
     /\ \A x \in above[t] :
          a \in above[x] => execution_finished[x] /\ not_finished_children[x] = 1}

(* Who is woken then: the parent, if it waits for its children and t was   *)
(* the last one running; a task that waits for all tasks below it, if the  *)
(* last one has finished.                                                  *)
WokenEarly(t) ==                               \* mutation of Woken
  {a \in above[t] :
     \/ a = parent(t) /\ waiting[a] # "no" /\ running_children[a] = 1
     \/ a \in Told(t) /\ waiting[a] = "all" /\ not_finished_children[a] = 1}

WokenByAny(t) ==                               \* mutation of Woken
  {a \in above[t] :
     \/ a = parent(t) /\ waiting[a] = "task"
     \/ a \in Told(t) /\ waiting[a] = "all" /\ not_finished_children[a] = 1}

Woken(t) ==
  {a \in above[t] :
     \/ a = parent(t) /\ waiting[a] = "task" /\ running_children[a] = 1
     \/ a \in Told(t) /\ waiting[a] = "all" /\ not_finished_children[a] = 1}

(* finished_execution with the calls it makes up the tree.  The report at  *)
(* RuntimeTask.cpp:25, from inside child_finished_execution, is left out:  *)
(* it needs a parent that counts no unfinished child when one of them ends *)
(* its execution, and CountersExact says that the parent counts that one.  *)
handle_finish_task(t) ==
  /\ execution_finished' = [execution_finished EXCEPT ![t] = TRUE]
  /\ running_children' =
       [a \in Task |-> running_children[a] - (IF t # Root /\ a = parent(t) THEN 1 ELSE 0)]
  /\ not_finished_children' =
       [a \in Task |-> not_finished_children[a] - (IF a \in Told(t) THEN 1 ELSE 0)]
  /\ waiting' = [a \in Task |-> IF a \in Woken(t) THEN "no" ELSE waiting[a]]
  /\ waiting_node' = [a \in Task |-> IF a \in Woken(t) THEN -1 ELSE waiting_node[a]]
  /\ UNCHANGED <<id_counter, above, poolVars>>

(* Nobody looks at the counters when a task starts to wait.                *)
handle_wait_message(t, kind, source) ==
  /\ waiting' = [waiting EXCEPT ![t] = kind]
  /\ waiting_node' = [waiting_node EXCEPT ![t] = source]
  /\ UNCHANGED <<id_counter, above, execution_finished, running_children,
                 not_finished_children, poolVars>>

FreeAssigned(amount, source) ==                \* mutation of handle_free_capacity
  /\ free_workers' = IF offered[source] = 0 THEN Append(free_workers, source)
                     ELSE free_workers
  /\ offered' = [offered EXCEPT ![source] = amount]
  /\ UNCHANGED <<treeVars, queued_tasks>>

(* A worker that comes back to some capacity is free again, the code says; *)
(* it appends it whenever a report finds 0, a negative amount included.    *)
handle_free_capacity(amount, source) ==
  /\ free_workers' = IF offered[source] = 0 THEN Append(free_workers, source)
                     ELSE free_workers
  /\ offered' = [offered EXCEPT ![source] = @ + amount]
  /\ UNCHANGED <<treeVars, queued_tasks>>

CanRunTask == free_workers # << >> /\ queued_tasks # << >>

handle_run_task ==
  LET w == Head(free_workers) IN
    /\ queued_tasks' = Tail(queued_tasks)
    /\ offered' = [offered EXCEPT ![w] = @ - 1]
    /\ free_workers' = IF offered[w] = 1 THEN Tail(free_workers) ELSE free_workers
    /\ UNCHANGED treeVars

CompleteEarly ==                               \* mutation of check_completion
  execution_finished[Root] /\ running_children[Root] = 0

check_completion == execution_finished[Root] /\ not_finished_children[Root] = 0

------------------------------------------------------------------------------
(* The counters, kept up by calls from child to parent, are what they are  *)
(* called: the children whose execution has not finished, and those below  *)
(* or at which something has not.                                          *)
Subtree(t) == {t} \cup Below(t)

CountersExact ==
  \A t \in Created :
    /\ running_children[t] = Cardinality({c \in children(t) : ~execution_finished[c]})
    /\ not_finished_children[t] =
         Cardinality({c \in children(t) : \E d \in Subtree(c) : ~execution_finished[d]})
=============================================================================
