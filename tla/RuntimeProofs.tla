---------------------------- MODULE RuntimeProofs ----------------------------
(***************************************************************************)
(* RuntimeInv is an inductive invariant of Runtime, and what follows from  *)
(* it, for any workers, any capacity and any number of tasks.              *)
(***************************************************************************)
EXTENDS Runtime, FiniteSetTheorems, SequenceTheorems, TLAPS

USE DEF Root, Task

------------------------------------------------------------------------------
(* The tasks a worker runs are finitely many, so their number is one.      *)
LEMMA RunningFinite ==
  ASSUME NEW w
  PROVE  /\ IsFiniteSet(RunningOn(w))
         /\ Cardinality(RunningOn(w)) \in Nat
<1>1. IsFiniteSet(0 .. MaxTask)
  BY MaxTaskAssumption, FS_Interval, 0 \in Int, MaxTask \in Int
<1>2. RunningOn(w) \subseteq 0 .. MaxTask
  BY DEF RunningOn
<1>3. IsFiniteSet(RunningOn(w))
  BY <1>1, <1>2, FS_Subset
<1> QED BY <1>3, FS_CardinalityType

(* The types, one fact per variable, for the steps below to cite.          *)
LEMMA TypeFacts ==
  ASSUME RuntimeTypeOK
  PROVE  /\ created_tasks \subseteq Task
         /\ parent_id \in [Task -> Int]
         /\ finished \in [Task -> BOOLEAN]
         /\ children_finished \in [Task -> BOOLEAN]
         /\ ready_tasks \in Seq(Task)
         /\ free_capacity \in [Worker -> Int]
         /\ next_task_id \in 0 .. MaxTask + 1
         /\ node \in [Task -> Worker \cup {0}]
         /\ loop \in {"setup", "run", "exit", "crash"}
BY DEF RuntimeTypeOK, SchedulerTypeOK

(* What a dispatch does to the queue, the node and the capacity table.     *)
LEMMA DispatchEffect ==
  ASSUME RuntimeTypeOK, run_task_on_node
  PROVE  \E w \in Worker :
           LET h == Head(ready_tasks) IN
             /\ h \in Task
             /\ Len(ready_tasks) \in Nat \ {0}
             /\ h = ready_tasks[1]
             /\ ready_tasks' \in Seq(Task)
             /\ Len(ready_tasks') = Len(ready_tasks) - 1
             /\ \A i \in 1 .. Len(ready_tasks') : ready_tasks'[i] = ready_tasks[i + 1]
             /\ node' = [node EXCEPT ![h] = w]
             /\ free_capacity' = [free_capacity EXCEPT ![w] = @ - 1]
             /\ MostFree(w)
             /\ UNCHANGED <<created_tasks, parent_id, finished, children_finished,
                            next_task_id, loop>>
<1>1. ready_tasks \in Seq(Task) /\ ready_tasks # << >>
  BY TypeFacts DEF run_task_on_node, work_available
<1>2. PICK w \in Worker : /\ get_next_node_and_task(w)
                          /\ node' = [node EXCEPT ![Head(ready_tasks)] = w]
  BY DEF run_task_on_node
<1>3. ready_tasks' = Tail(ready_tasks)
  BY <1>2 DEF get_next_node_and_task
<1>4. /\ Len(ready_tasks) \in Nat \ {0}
      /\ Head(ready_tasks) = ready_tasks[1]
      /\ Head(ready_tasks) \in Task
  <2>1. Len(ready_tasks) \in Nat /\ Len(ready_tasks) # 0
    BY <1>1, EmptySeq
  <2>2. Head(ready_tasks) = ready_tasks[1]
    BY <1>1, <2>1
  <2>3. Head(ready_tasks) \in Task
    BY <1>1, HeadTailProperties
  <2> QED BY <2>1, <2>2, <2>3
<1>5. /\ ready_tasks' \in Seq(Task)
      /\ Len(ready_tasks') = Len(ready_tasks) - 1
      /\ \A i \in 1 .. Len(ready_tasks') : ready_tasks'[i] = ready_tasks[i + 1]
  BY <1>1, <1>3
<1>6. UNCHANGED <<created_tasks, parent_id, finished, children_finished,
                  next_task_id, loop>>
  BY DEF run_task_on_node
<1> QED BY <1>2, <1>4, <1>5, <1>6 DEF get_next_node_and_task

(* What a creation does to the table and the queue.                        *)
LEMMA CreateEffect ==
  ASSUME RuntimeTypeOK, NEW p \in Task, Create(p)
  PROVE  /\ p \in Creators /\ node[p] # 0 /\ ~finished[p]
         /\ loop = "run" /\ ~children_finished[Root]
         /\ next_task_id \in Task /\ next_task_id' = next_task_id + 1
         /\ created_tasks' = created_tasks \cup {next_task_id}
         /\ parent_id' = [parent_id EXCEPT ![next_task_id] = p]
         /\ ready_tasks' \in Seq(Task)
         /\ Len(ready_tasks) \in Nat /\ Len(ready_tasks') = Len(ready_tasks) + 1
         /\ \A i \in 1 .. Len(ready_tasks) : ready_tasks'[i] = ready_tasks[i]
         /\ ready_tasks'[Len(ready_tasks) + 1] = next_task_id
         /\ UNCHANGED <<finished, children_finished, free_capacity, node, loop>>
<1>1. ready_tasks \in Seq(Task) /\ next_task_id \in 0 .. MaxTask + 1
  BY TypeFacts
<1>2. /\ p \in Creators /\ node[p] # 0 /\ ~finished[p]
      /\ loop = "run" /\ ~children_finished[Root]
      /\ next_task_id <= MaxTask /\ next_task_id' = next_task_id + 1
      /\ created_tasks' = created_tasks \cup {next_task_id}
      /\ parent_id' = [parent_id EXCEPT ![next_task_id] = p]
      /\ ready_tasks' = Append(ready_tasks, next_task_id)
      /\ UNCHANGED <<finished, children_finished, free_capacity, node, loop>>
  BY DEF Create, Given, handle_create_task, Receiving, enqueue
<1>3. next_task_id \in Task
  BY <1>1, <1>2, MaxTaskAssumption
<1>4. /\ ready_tasks' \in Seq(Task)
      /\ Len(ready_tasks) \in Nat /\ Len(ready_tasks') = Len(ready_tasks) + 1
      /\ \A i \in 1 .. Len(ready_tasks) : ready_tasks'[i] = ready_tasks[i]
      /\ ready_tasks'[Len(ready_tasks) + 1] = next_task_id
  BY <1>1, <1>2, <1>3
<1> QED BY <1>2, <1>3, <1>4

(* What a completion does, its flags left aside.                           *)
LEMMA FinishEffect ==
  ASSUME RuntimeTypeOK, NEW t \in Task, Finish(t)
  PROVE  /\ node[t] \in Worker /\ ~finished[t]
         /\ loop = "run" /\ ~children_finished[Root]
         /\ finished' = [finished EXCEPT ![t] = TRUE]
         /\ children_finished' = FlagsAfter(t)
         /\ free_capacity' = [free_capacity EXCEPT ![node[t]] = @ + 1]
         /\ UNCHANGED <<created_tasks, parent_id, ready_tasks, next_task_id, node, loop>>
BY TypeFacts DEF Finish, Given, handle_finish_task, set_finished, Receiving

------------------------------------------------------------------------------
(* The initial tables satisfy every part of the invariant.                 *)
LEMMA InitInv == RuntimeInit => RuntimeInv
<1>0. SUFFICES ASSUME RuntimeInit PROVE RuntimeInv
  OBVIOUS
<1>1. RuntimeTypeOK
  BY <1>0, MaxTaskAssumption
     DEF RuntimeInit, SchedulerInit, RuntimeTypeOK, SchedulerTypeOK
<1>2. TablesAgree
  BY <1>0, MaxTaskAssumption DEF RuntimeInit, SchedulerInit, TablesAgree
<1>3. CapacityConserved
  BY <1>0 DEF RuntimeInit, SchedulerInit, CapacityConserved
<1>4. FlagsFounded
  BY <1>0, MaxTaskAssumption DEF RuntimeInit, SchedulerInit, FlagsFounded
<1> QED BY <1>1, <1>2, <1>3, <1>4 DEF RuntimeInv

(* Every action keeps the types.                                           *)
LEMMA TypeStep == RuntimeInv /\ [RuntimeNext]_runtimeVars => RuntimeTypeOK'
<1>0. SUFFICES ASSUME RuntimeInv, [RuntimeNext]_runtimeVars PROVE RuntimeTypeOK'
  OBVIOUS
<1>t. RuntimeTypeOK
  BY <1>0 DEF RuntimeInv
<1>f. /\ created_tasks \subseteq Task
      /\ parent_id \in [Task -> Int]
      /\ finished \in [Task -> BOOLEAN]
      /\ children_finished \in [Task -> BOOLEAN]
      /\ ready_tasks \in Seq(Task)
      /\ free_capacity \in [Worker -> Int]
      /\ next_task_id \in 0 .. MaxTask + 1
      /\ node \in [Task -> Worker \cup {0}]
      /\ loop \in {"setup", "run", "exit", "crash"}
  BY <1>t, TypeFacts
<1>1. CASE setup
  <2>1. next_task_id = 0
    BY <1>0, <1>1 DEF RuntimeInv, setup, TablesAgree
  <2>2. PICK p \in UninitParent : enqueue(Root, p)
    BY <1>1 DEF setup
  <2>3. p \in Int
    BY UninitParentAssumption
  <2>4. created_tasks' \subseteq Task
    BY <1>f, <2>2, MaxTaskAssumption DEF enqueue
  <2>5. parent_id' \in [Task -> Int]
    BY <1>f, <2>2, <2>3 DEF enqueue
  <2>6. ready_tasks' \in Seq(Task)
    BY <1>f, <2>2, MaxTaskAssumption DEF enqueue
  <2>7. free_capacity' \in [Worker -> Int]
    BY <1>1, CapacityAssumption DEF setup
  <2>8. next_task_id' \in 0 .. MaxTask + 1
    BY <1>1, <2>1, MaxTaskAssumption DEF setup
  <2> QED BY <1>1, <1>f, <2>4, <2>5, <2>6, <2>7, <2>8
             DEF setup, RuntimeTypeOK, SchedulerTypeOK
<1>2. CASE run_task_on_node
  <2>1. PICK w \in Worker :
          /\ Head(ready_tasks) \in Task
          /\ ready_tasks' \in Seq(Task)
          /\ node' = [node EXCEPT ![Head(ready_tasks)] = w]
          /\ free_capacity' = [free_capacity EXCEPT ![w] = @ - 1]
          /\ UNCHANGED <<created_tasks, parent_id, finished, children_finished,
                         next_task_id, loop>>
    BY <1>t, <1>2, DispatchEffect
  <2>2. free_capacity' \in [Worker -> Int]
    BY <1>f, <2>1
  <2>3. node' \in [Task -> Worker \cup {0}]
    BY <1>f, <2>1
  <2> QED BY <1>f, <2>1, <2>2, <2>3 DEF RuntimeTypeOK, SchedulerTypeOK
<1>3. ASSUME NEW p \in Task, Create(p) PROVE RuntimeTypeOK'
  <2>1. /\ next_task_id \in Task /\ next_task_id' = next_task_id + 1
        /\ created_tasks' = created_tasks \cup {next_task_id}
        /\ parent_id' = [parent_id EXCEPT ![next_task_id] = p]
        /\ ready_tasks' \in Seq(Task)
        /\ UNCHANGED <<finished, children_finished, free_capacity, node, loop>>
    BY <1>t, <1>3, CreateEffect
  <2>2. parent_id' \in [Task -> Int]
    BY <1>f, <2>1
  <2>3. created_tasks' \subseteq Task /\ next_task_id' \in 0 .. MaxTask + 1
    BY <1>f, <2>1, MaxTaskAssumption
  <2> QED BY <1>f, <2>1, <2>2, <2>3 DEF RuntimeTypeOK, SchedulerTypeOK
<1>4. ASSUME NEW t \in Task, Finish(t) PROVE RuntimeTypeOK'
  <2>1. /\ node[t] \in Worker
        /\ finished' = [finished EXCEPT ![t] = TRUE]
        /\ children_finished' = FlagsAfter(t)
        /\ free_capacity' = [free_capacity EXCEPT ![node[t]] = @ + 1]
        /\ UNCHANGED <<created_tasks, parent_id, ready_tasks, next_task_id, node, loop>>
    BY <1>t, <1>4, FinishEffect
  <2>2. children_finished' \in [Task -> BOOLEAN]
    BY <1>f, <2>1 DEF FlagsAfter, ChildrenDone
  <2>3. free_capacity' \in [Worker -> Int]
    BY <1>f, <2>1
  <2>4. finished' \in [Task -> BOOLEAN]
    BY <1>f, <2>1
  <2> QED BY <1>f, <2>1, <2>2, <2>3, <2>4 DEF RuntimeTypeOK, SchedulerTypeOK
<1>5. ASSUME NEW t \in Task, Crash(t) PROVE RuntimeTypeOK'
  BY <1>5, <1>f DEF Crash, finish_crashes, schedulerVars, RuntimeTypeOK, SchedulerTypeOK
<1>6. CASE shutdown
  BY <1>6, <1>f DEF shutdown, schedulerVars, RuntimeTypeOK, SchedulerTypeOK
<1>7. CASE UNCHANGED runtimeVars
  BY <1>7, <1>f DEF runtimeVars, RuntimeTypeOK, SchedulerTypeOK
<1> QED BY <1>0, <1>1, <1>2, <1>3, <1>4, <1>5, <1>6, <1>7 DEF RuntimeNext

(* Every action keeps the shape of the tables.                             *)
LEMMA AgreeStep == RuntimeInv /\ [RuntimeNext]_runtimeVars => TablesAgree'
<1>0. SUFFICES ASSUME RuntimeInv, [RuntimeNext]_runtimeVars PROVE TablesAgree'
  OBVIOUS
<1>t. RuntimeTypeOK
  BY <1>0 DEF RuntimeInv
<1>f. /\ parent_id \in [Task -> Int]
      /\ finished \in [Task -> BOOLEAN]
      /\ ready_tasks \in Seq(Task) /\ Len(ready_tasks) \in Nat
      /\ next_task_id \in 0 .. MaxTask + 1
      /\ node \in [Task -> Worker \cup {0}]
  BY <1>t, TypeFacts
<1>a. /\ loop = "setup" <=> next_task_id = 0
      /\ created_tasks = 0 .. next_task_id - 1
      /\ Len(ready_tasks) <= next_task_id
      /\ \A i \in 1 .. Len(ready_tasks) :
           ready_tasks[i] = next_task_id - Len(ready_tasks) + i - 1
      /\ \A t \in Task : node[t] # 0 <=> t < next_task_id - Len(ready_tasks)
      /\ \A t \in Task : finished[t] => node[t] # 0
      /\ \A t \in created_tasks \ {Root} :
           parent_id[t] \in Creators /\ parent_id[t] < t /\ node[parent_id[t]] # 0
  BY <1>0 DEF RuntimeInv, TablesAgree
<1>m. MaxTask \in Nat
  BY MaxTaskAssumption
<1>1. CASE setup
  <2>1. next_task_id = 0 /\ created_tasks = {} /\ Len(ready_tasks) = 0
    BY <1>1, <1>a, <1>f DEF setup
  <2>2. created_tasks' = {0} /\ ready_tasks' = Append(ready_tasks, 0)
    BY <1>1, <2>1 DEF setup, enqueue
  <2>3. Len(ready_tasks') = 1 /\ ready_tasks'[1] = 0
    BY <1>f, <2>1, <2>2
  <2>4. next_task_id' = 1 /\ loop' # "setup" /\ UNCHANGED <<finished, node>>
    BY <1>1, <2>1 DEF setup
  <2>5. \A t \in Task : node[t] # 0 <=> t < 0
    BY <1>a, <2>1
  <2>6. \A t \in Task : node'[t] # 0 <=> t < next_task_id' - Len(ready_tasks')
    BY <2>3, <2>4, <2>5
  <2>7. \A t \in Task : finished'[t] => node'[t] # 0
    BY <1>a, <2>4
  <2>8. \A i \in 1 .. Len(ready_tasks') :
          ready_tasks'[i] = next_task_id' - Len(ready_tasks') + i - 1
    BY <2>3, <2>4
  <2> QED BY <2>2, <2>3, <2>4, <2>6, <2>7, <2>8 DEF TablesAgree
<1>2. CASE run_task_on_node
  <2> DEFINE h == Head(ready_tasks)
  <2>1. PICK w \in Worker :
          /\ h \in Task
          /\ Len(ready_tasks) \in Nat \ {0}
          /\ h = ready_tasks[1]
          /\ Len(ready_tasks') = Len(ready_tasks) - 1
          /\ \A i \in 1 .. Len(ready_tasks') : ready_tasks'[i] = ready_tasks[i + 1]
          /\ node' = [node EXCEPT ![h] = w]
          /\ UNCHANGED <<created_tasks, parent_id, finished, next_task_id, loop>>
    BY <1>t, <1>2, DispatchEffect
  <2> HIDE DEF h
  <2>2. h = next_task_id - Len(ready_tasks)
    BY <1>a, <1>f, <2>1
  <2>3. w # 0
    BY WorkerAssumption
  <2>4. \A t \in Task : node'[t] # 0 <=> t < next_task_id' - Len(ready_tasks')
    <3>1. SUFFICES ASSUME NEW t \in Task
                   PROVE  node'[t] # 0 <=> t < next_task_id - Len(ready_tasks) + 1
      BY <1>f, <2>1
    <3>2. CASE t = h
      BY <3>2, <1>f, <2>1, <2>2, <2>3, <1>m
    <3>3. CASE t # h
      <4>1. node'[t] = node[t]
        BY <3>3, <1>f, <2>1
      <4>2. node[t] # 0 <=> t < next_task_id - Len(ready_tasks)
        BY <1>a
      <4>3. t # next_task_id - Len(ready_tasks)
        BY <3>3, <2>2
      <4>4. t \in Int /\ next_task_id \in Int /\ Len(ready_tasks) \in Int
        BY <1>f, <1>m
      <4>5. t < next_task_id - Len(ready_tasks) <=> t < next_task_id - Len(ready_tasks) + 1
        BY <4>3, <4>4
      <4> QED BY <4>1, <4>2, <4>5
    <3> QED BY <3>2, <3>3
  <2>5. \A i \in 1 .. Len(ready_tasks') :
          ready_tasks'[i] = next_task_id' - Len(ready_tasks') + i - 1
    <3>1. SUFFICES ASSUME NEW i \in 1 .. Len(ready_tasks) - 1
                   PROVE  ready_tasks[i + 1] = next_task_id - (Len(ready_tasks) - 1) + i - 1
      BY <2>1
    <3>2. i + 1 \in 1 .. Len(ready_tasks)
      BY <2>1
    <3>3. ready_tasks[i + 1] = next_task_id - Len(ready_tasks) + (i + 1) - 1
      BY <1>a, <3>2
    <3> QED BY <3>3, <1>f, <1>m
  <2>6. \A t \in Task : node[t] # 0 => node'[t] # 0
    BY <1>f, <2>1, <2>3
  <2>7. \A t \in created_tasks \ {Root} : node'[parent_id[t]] # 0
    BY <1>a, <2>6, CreatorsAssumption
  <2>8. Len(ready_tasks') <= next_task_id'
    BY <1>a, <1>f, <2>1
  <2> QED BY <1>a, <2>1, <2>4, <2>5, <2>6, <2>7, <2>8 DEF TablesAgree
<1>3. ASSUME NEW p \in Task, Create(p) PROVE TablesAgree'
  <2>1. /\ p \in Creators /\ node[p] # 0
        /\ loop = "run"
        /\ next_task_id \in Task /\ next_task_id' = next_task_id + 1
        /\ created_tasks' = created_tasks \cup {next_task_id}
        /\ parent_id' = [parent_id EXCEPT ![next_task_id] = p]
        /\ Len(ready_tasks') = Len(ready_tasks) + 1
        /\ \A i \in 1 .. Len(ready_tasks) : ready_tasks'[i] = ready_tasks[i]
        /\ ready_tasks'[Len(ready_tasks) + 1] = next_task_id
        /\ UNCHANGED <<finished, node, loop>>
    BY <1>t, <1>3, CreateEffect
  <2>2. created_tasks' = 0 .. next_task_id' - 1
    BY <1>a, <2>1
  <2>3. Len(ready_tasks') <= next_task_id'
    BY <1>a, <1>f, <2>1
  <2>4. next_task_id' - Len(ready_tasks') = next_task_id - Len(ready_tasks)
    BY <1>f, <2>1
  <2>5. \A i \in 1 .. Len(ready_tasks') :
          ready_tasks'[i] = next_task_id' - Len(ready_tasks') + i - 1
    <3>1. SUFFICES ASSUME NEW i \in 1 .. Len(ready_tasks) + 1
                   PROVE  ready_tasks'[i] = next_task_id - Len(ready_tasks) + i - 1
      BY <2>1, <2>4
    <3>2. CASE i = Len(ready_tasks) + 1
      BY <3>2, <1>f, <2>1
    <3>3. CASE i # Len(ready_tasks) + 1
      <4>1. i \in 1 .. Len(ready_tasks)
        BY <3>3, <1>f
      <4> QED BY <4>1, <1>a, <2>1
    <3> QED BY <3>2, <3>3
  <2>6. p < next_task_id
    BY <1>a, <1>f, <2>1
  <2>7. \A t \in created_tasks' \ {Root} :
          parent_id'[t] \in Creators /\ parent_id'[t] < t /\ node'[parent_id'[t]] # 0
    <3>1. SUFFICES ASSUME NEW t \in created_tasks \cup {next_task_id}, t # Root
                   PROVE  /\ parent_id'[t] \in Creators /\ parent_id'[t] < t
                          /\ node[parent_id'[t]] # 0
      BY <2>1
    <3>2. CASE t = next_task_id
      <4>1. parent_id'[t] = p
        BY <3>2, <1>f, <2>1
      <4> QED BY <4>1, <3>2, <2>1, <2>6
    <3>3. CASE t # next_task_id
      <4>1. t \in created_tasks \ {Root} /\ t \in Task
        BY <3>1, <3>3, <1>t, TypeFacts
      <4>2. parent_id'[t] = parent_id[t]
        BY <3>3, <4>1, <1>f, <2>1
      <4> QED BY <4>1, <4>2, <1>a
    <3> QED BY <3>2, <3>3
  <2> QED BY <1>a, <2>1, <2>2, <2>3, <2>4, <2>5, <2>7 DEF TablesAgree
<1>4. ASSUME NEW t \in Task, Finish(t) PROVE TablesAgree'
  <2>1. /\ node[t] \in Worker
        /\ finished' = [finished EXCEPT ![t] = TRUE]
        /\ UNCHANGED <<created_tasks, parent_id, ready_tasks, next_task_id, node, loop>>
    BY <1>t, <1>4, FinishEffect
  <2>2. \A u \in Task : finished'[u] => node'[u] # 0
    BY <1>a, <1>f, <2>1, WorkerAssumption
  <2> QED BY <1>a, <2>1, <2>2 DEF TablesAgree
<1>5. ASSUME NEW t \in Task, Crash(t) PROVE TablesAgree'
  BY <1>5, <1>a DEF Crash, finish_crashes, schedulerVars, Receiving, TablesAgree
<1>6. CASE shutdown
  BY <1>6, <1>a DEF shutdown, schedulerVars, TablesAgree
<1>7. CASE UNCHANGED runtimeVars
  BY <1>7, <1>a DEF runtimeVars, TablesAgree
<1> QED BY <1>0, <1>1, <1>2, <1>3, <1>4, <1>5, <1>6, <1>7 DEF RuntimeNext

(* Every action keeps free_capacity equal to what the running tasks leave. *)
LEMMA CapacityStep == RuntimeInv /\ [RuntimeNext]_runtimeVars => CapacityConserved'
<1>0. SUFFICES ASSUME RuntimeInv, [RuntimeNext]_runtimeVars, NEW w \in Worker
               PROVE  /\ loop' # "setup" =>
                           free_capacity'[w] = Capacity - Cardinality(RunningOn(w)')
                      /\ free_capacity'[w] >= 0
  BY DEF CapacityConserved
<1>t. RuntimeTypeOK
  BY <1>0 DEF RuntimeInv
<1>f. /\ finished \in [Task -> BOOLEAN]
      /\ free_capacity \in [Worker -> Int]
      /\ node \in [Task -> Worker \cup {0}]
  BY <1>t, TypeFacts
<1>c. /\ loop # "setup" => free_capacity[w] = Capacity - Cardinality(RunningOn(w))
      /\ free_capacity[w] >= 0
  BY <1>0 DEF RuntimeInv, CapacityConserved
<1>n. Capacity \in Nat \ {0}
  BY CapacityAssumption
<1>w. w \in Worker /\ w # 0
  BY <1>0, WorkerAssumption
<1>r. IsFiniteSet(RunningOn(w)) /\ Cardinality(RunningOn(w)) \in Nat
  BY RunningFinite
<1>s. RunningOn(w) = {t \in Task : node[t] = w /\ ~finished[t]}
      /\ RunningOn(w)' = {t \in Task : node'[t] = w /\ ~finished'[t]}
  BY DEF RunningOn
<1>1. CASE setup
  <2>1. \A t \in Task : node[t] = 0
    BY <1>0, <1>1, <1>t, TypeFacts, MaxTaskAssumption
       DEF RuntimeInv, TablesAgree, setup
  <2>2. RunningOn(w)' = {}
    BY <1>1, <1>s, <1>w, <2>1 DEF setup
  <2>3. free_capacity'[w] = Capacity
    BY <1>1, <1>w DEF setup
  <2> QED BY <1>n, <2>2, <2>3, FS_EmptySet
<1>2. CASE run_task_on_node
  <2> DEFINE h == Head(ready_tasks)
  <2>1. PICK v \in Worker :
          /\ h \in Task
          /\ Len(ready_tasks) \in Nat \ {0}
          /\ h = ready_tasks[1]
          /\ node' = [node EXCEPT ![h] = v]
          /\ free_capacity' = [free_capacity EXCEPT ![v] = @ - 1]
          /\ MostFree(v)
          /\ UNCHANGED <<created_tasks, parent_id, finished, next_task_id, loop>>
    BY <1>t, <1>2, DispatchEffect
  <2> HIDE DEF h
  <2>2. h = next_task_id - Len(ready_tasks)
    BY <1>0, <1>t, <2>1, TypeFacts DEF RuntimeInv, TablesAgree
  <2>3. node[h] = 0
    BY <1>0, <1>t, <2>1, <2>2, TypeFacts, MaxTaskAssumption DEF RuntimeInv, TablesAgree
  <2>4. ~finished[h]
    BY <1>0, <2>1, <2>3 DEF RuntimeInv, TablesAgree
  <2>5. loop # "setup"
    BY <1>2 DEF run_task_on_node
  <2>6. CASE v = w
    <3>1. RunningOn(w)' = RunningOn(w) \cup {h} /\ h \notin RunningOn(w)
      BY <1>f, <1>s, <1>w, <2>1, <2>3, <2>4, <2>6
    <3>2. Cardinality(RunningOn(w)') = Cardinality(RunningOn(w)) + 1
      BY <1>r, <3>1, FS_AddElement
    <3>3. free_capacity'[w] = free_capacity[w] - 1 /\ free_capacity[w] > 0
      BY <1>f, <1>w, <2>1, <2>6 DEF MostFree
    <3>4. free_capacity[w] \in Int
      BY <1>f, <1>w
    <3> QED BY <1>c, <1>n, <1>r, <2>5, <3>2, <3>3, <3>4
  <2>7. CASE v # w
    <3>1. RunningOn(w)' = RunningOn(w)
      BY <1>f, <1>s, <1>w, <2>1, <2>3, <2>7
    <3>2. free_capacity'[w] = free_capacity[w]
      BY <1>f, <1>w, <2>1, <2>7
    <3> QED BY <1>c, <2>5, <3>1, <3>2
  <2> QED BY <2>6, <2>7
<1>3. ASSUME NEW p \in Task, Create(p)
      PROVE  /\ loop' # "setup" =>
                  free_capacity'[w] = Capacity - Cardinality(RunningOn(w)')
             /\ free_capacity'[w] >= 0
  <2>1. UNCHANGED <<finished, free_capacity, node, loop>>
    BY <1>t, <1>3, CreateEffect
  <2> QED BY <1>c, <1>s, <2>1
<1>4. ASSUME NEW t \in Task, Finish(t)
      PROVE  /\ loop' # "setup" =>
                  free_capacity'[w] = Capacity - Cardinality(RunningOn(w)')
             /\ free_capacity'[w] >= 0
  <2>1. /\ node[t] \in Worker /\ ~finished[t] /\ loop = "run"
        /\ finished' = [finished EXCEPT ![t] = TRUE]
        /\ free_capacity' = [free_capacity EXCEPT ![node[t]] = @ + 1]
        /\ UNCHANGED <<node, loop>>
    BY <1>t, <1>4, FinishEffect
  <2>2. CASE node[t] = w
    <3>1. RunningOn(w)' = RunningOn(w) \ {t} /\ t \in RunningOn(w)
      BY <1>f, <1>s, <2>1, <2>2
    <3>2. Cardinality(RunningOn(w)') = Cardinality(RunningOn(w)) - 1
      BY <1>r, <3>1, FS_RemoveElement
    <3>3. free_capacity'[w] = free_capacity[w] + 1 /\ free_capacity[w] \in Int
      BY <1>f, <1>w, <2>1, <2>2
    <3> QED BY <1>c, <1>n, <1>r, <2>1, <3>2, <3>3
  <2>3. CASE node[t] # w
    <3>1. RunningOn(w)' = RunningOn(w)
      BY <1>f, <1>s, <2>1, <2>3
    <3>2. free_capacity'[w] = free_capacity[w]
      BY <1>f, <1>w, <2>1, <2>3
    <3> QED BY <1>c, <2>1, <3>1, <3>2
  <2> QED BY <2>2, <2>3
<1>5. ASSUME NEW t \in Task, Crash(t)
      PROVE  /\ loop' # "setup" =>
                  free_capacity'[w] = Capacity - Cardinality(RunningOn(w)')
             /\ free_capacity'[w] >= 0
  BY <1>5, <1>c, <1>s DEF Crash, finish_crashes, schedulerVars, Receiving
<1>6. CASE shutdown
  BY <1>6, <1>c, <1>s DEF shutdown, schedulerVars
<1>7. CASE UNCHANGED runtimeVars
  BY <1>7, <1>c, <1>s DEF runtimeVars
<1> QED BY <1>0, <1>1, <1>2, <1>3, <1>4, <1>5, <1>6, <1>7 DEF RuntimeNext

(* The children of a task are what the table says.                         *)
LEMMA ChildrenSame ==
  ASSUME UNCHANGED <<created_tasks, parent_id>>, NEW t
  PROVE  children(t)' = children(t)
BY DEF children

(* Only a task in the table has been given to a worker.                    *)
LEMMA StartedIsCreated ==
  ASSUME RuntimeInv, NEW t \in Task, node[t] # 0
  PROVE  t \in created_tasks
<1>1. t < next_task_id - Len(ready_tasks) /\ created_tasks = 0 .. next_task_id - 1
  BY DEF RuntimeInv, TablesAgree
<1>2. Len(ready_tasks) \in Nat /\ next_task_id \in 0 .. MaxTask + 1
  BY TypeFacts DEF RuntimeInv
<1> QED BY <1>1, <1>2, MaxTaskAssumption

(* Every action keeps the flags founded.                                   *)
LEMMA FlagsStep == RuntimeInv /\ [RuntimeNext]_runtimeVars => FlagsFounded'
<1>0. SUFFICES ASSUME RuntimeInv, [RuntimeNext]_runtimeVars PROVE FlagsFounded'
  OBVIOUS
<1>t. RuntimeTypeOK
  BY <1>0 DEF RuntimeInv
<1>f. /\ created_tasks \subseteq Task
      /\ parent_id \in [Task -> Int]
      /\ finished \in [Task -> BOOLEAN]
      /\ children_finished \in [Task -> BOOLEAN]
      /\ Root \in Task
  BY <1>t, TypeFacts, MaxTaskAssumption
<1>e. loop = "exit" => children_finished[Root]
  BY <1>0 DEF RuntimeInv, FlagsFounded
<1>a. ~RootHasParent =>
        /\ \A t \in Task : children_finished[t] =>
             finished[t] \/ \E c \in children(t) : finished[c]
        /\ children_finished[Root] => ChildrenDone(children_finished, Root)
  BY <1>0 DEF RuntimeInv, FlagsFounded
<1>s. ASSUME UNCHANGED <<created_tasks, parent_id, finished, children_finished>>,
             loop' = "exit" => children_finished[Root]
      PROVE  FlagsFounded'
  BY <1>s, <1>a DEF FlagsFounded, RootHasParent, ChildrenDone, children
<1>1. CASE setup
  <2>1. created_tasks = {} /\ loop' = "run" /\ UNCHANGED <<finished, children_finished>>
    BY <1>0, <1>1, <1>t, TypeFacts DEF RuntimeInv, TablesAgree, setup
  <2>2. \A t \in Task : ~finished[t]
    BY <1>0, <2>1, StartedIsCreated DEF RuntimeInv, TablesAgree
  <2>3. ~RootHasParent /\ \A t \in Task : children(t) = {}
    BY <2>1 DEF RootHasParent, children
  <2>4. \A t \in Task : ~children_finished[t]
    BY <1>a, <2>2, <2>3
  <2> QED BY <1>f, <2>1, <2>4 DEF FlagsFounded
<1>2. CASE run_task_on_node
  BY <1>2, <1>e, <1>s DEF run_task_on_node
<1>3. ASSUME NEW p \in Task, Create(p) PROVE FlagsFounded'
  <2>1. /\ loop = "run" /\ ~children_finished[Root]
        /\ next_task_id \in Task
        /\ created_tasks' = created_tasks \cup {next_task_id}
        /\ parent_id' = [parent_id EXCEPT ![next_task_id] = p]
        /\ UNCHANGED <<finished, children_finished, loop>>
    BY <1>t, <1>3, CreateEffect
  <2>2. next_task_id \notin created_tasks /\ next_task_id # Root
    BY <1>0, <2>1 DEF RuntimeInv, TablesAgree
  <2>3. \A t \in Task : children(t) \subseteq children(t)'
    BY <1>f, <2>1, <2>2 DEF children
  <2>4. RootHasParent => RootHasParent'
    BY <1>f, <2>1, <2>2 DEF RootHasParent
  <2>5. ASSUME ~RootHasParent', NEW t \in Task, children_finished'[t]
        PROVE  finished'[t] \/ \E c \in children(t)' : finished'[c]
    BY <1>a, <2>1, <2>3, <2>4, <2>5
  <2> QED BY <2>1, <2>5 DEF FlagsFounded
<1>4. ASSUME NEW t \in Task, Finish(t) PROVE FlagsFounded'
  <2>1. /\ node[t] \in Worker /\ loop = "run" /\ ~children_finished[Root]
        /\ finished' = [finished EXCEPT ![t] = TRUE]
        /\ children_finished' = FlagsAfter(t)
        /\ UNCHANGED <<created_tasks, parent_id, loop>>
    BY <1>t, <1>4, FinishEffect
  <2>2. SUFFICES ASSUME ~RootHasParent
                 PROVE  /\ \A u \in Task : children_finished'[u] =>
                             finished'[u] \/ \E c \in children(u) : finished'[c]
                        /\ children_finished'[Root] => ChildrenDone(children_finished', Root)
    BY <2>1, ChildrenSame DEF FlagsFounded, RootHasParent, ChildrenDone
  <2>3. t \in created_tasks
    BY <1>0, <2>1, StartedIsCreated, WorkerAssumption
  <2> DEFINE P == parent_id[t]
             own == [children_finished EXCEPT ![t] = ChildrenDone(children_finished, t)]
  <2>4. children_finished' = IF P \in created_tasks
                             THEN [own EXCEPT ![P] = ChildrenDone(own, P)] ELSE own
    BY <2>1 DEF FlagsAfter
  <2>5. own \in [Task -> BOOLEAN]
    BY <1>f DEF ChildrenDone
  <2>6. t = Root => P \notin created_tasks \ {Root}
    BY <2>2 DEF RootHasParent
  <2>7. ASSUME NEW u \in Task, children_finished'[u]
        PROVE  finished'[u] \/ \E c \in children(u) : finished'[c]
    <3>1. CASE u = t
      BY <3>1, <1>f, <2>1
    <3>2. CASE u # t /\ u = P /\ P \in created_tasks
      <4>1. t \in children(u)
        BY <3>2, <2>3, <2>6 DEF children
      <4> QED BY <4>1, <1>f, <2>1
    <3>3. CASE u # t /\ ~(u = P /\ P \in created_tasks)
      <4>1. children_finished[u]
        BY <3>3, <1>f, <2>4, <2>5, <2>7
      <4>2. finished[u] \/ \E c \in children(u) : finished[c]
        BY <4>1, <1>a, <2>2
      <4>3. children(u) \subseteq Task
        BY <1>f DEF children
      <4> QED BY <4>2, <4>3, <1>f, <2>1
    <3> QED BY <3>1, <3>2, <3>3
  <2>8. ASSUME children_finished'[Root]
        PROVE  ChildrenDone(children_finished', Root)
    <3>1. Root \notin children(Root) /\ children(Root) \subseteq Task
      BY <1>f DEF children
    <3>2. CASE P = Root /\ P \in created_tasks
      <4>1. children_finished' = [own EXCEPT ![Root] = ChildrenDone(own, Root)]
        BY <3>2, <2>4
      <4>2. ChildrenDone(own, Root)
        BY <4>1, <1>f, <2>5, <2>8
      <4>3. \A c \in children(Root) : children_finished'[c] = own[c]
        BY <4>1, <3>1, <2>5
      <4> QED BY <4>2, <4>3 DEF ChildrenDone
    <3>3. CASE ~(P = Root /\ P \in created_tasks)
      <4>1. t = Root
        BY <3>3, <1>f, <2>1, <2>4, <2>5, <2>8
      <4>2. children_finished' = own
        BY <4>1, <3>3, <2>4, <2>6
      <4>3. ChildrenDone(children_finished, Root)
        BY <4>1, <4>2, <1>f, <2>8
      <4>4. \A c \in children(Root) : children_finished'[c] = children_finished[c]
        BY <4>1, <4>2, <3>1, <1>f
      <4> QED BY <4>3, <4>4 DEF ChildrenDone
    <3> QED BY <3>2, <3>3
  <2> QED BY <2>7, <2>8
<1>5. ASSUME NEW t \in Task, Crash(t) PROVE FlagsFounded'
  BY <1>5, <1>s DEF Crash, finish_crashes, schedulerVars
<1>6. CASE shutdown
  BY <1>6, <1>s DEF shutdown, schedulerVars
<1>7. CASE UNCHANGED runtimeVars
  BY <1>7, <1>e, <1>s DEF runtimeVars
<1> QED BY <1>0, <1>1, <1>2, <1>3, <1>4, <1>5, <1>6, <1>7 DEF RuntimeNext

------------------------------------------------------------------------------
(* The tables keep their types, their shape, the capacity account and the  *)
(* foundation of the flags whatever the tasks create and however they end. *)
THEOREM RuntimeInvariance == RuntimeSpec => []RuntimeInv
<1>1. RuntimeInv /\ [RuntimeNext]_runtimeVars => RuntimeInv'
  BY TypeStep, AgreeStep, CapacityStep, FlagsStep DEF RuntimeInv
<1> QED BY InitInv, <1>1, PTL DEF RuntimeSpec

(* No worker is given more tasks at a time than it reported capacity for,  *)
(* and the capacity of a finished task is available again.                 *)
THEOREM CapacityTheorem == RuntimeSpec => []CapacityConserved
<1>1. RuntimeInv => CapacityConserved
  BY DEF RuntimeInv
<1> QED BY <1>1, RuntimeInvariance, PTL

(* At shutdown every child of the root task has ended or has a child that  *)
(* has: what is left of the intention that everything has.                 *)
THEOREM ExitTheorem == RuntimeSpec => []ExitSound
<1>1. RuntimeInv => ExitSound
  <2>1. SUFFICES ASSUME RuntimeInv, loop = "exit", ~RootHasParent,
                        NEW c \in children(Root)
                 PROVE  finished[c] \/ \E d \in children(c) : finished[d]
    BY DEF ExitSound
  <2>2. c \in Task
    BY <2>1, TypeFacts DEF children, RuntimeInv
  <2>3. children_finished[c]
    BY <2>1 DEF RuntimeInv, FlagsFounded, ChildrenDone
  <2> QED BY <2>1, <2>2, <2>3 DEF RuntimeInv, FlagsFounded
<1> QED BY <1>1, RuntimeInvariance, PTL

------------------------------------------------------------------------------
(* In a flat program only the root task has children: the flag of any      *)
(* other task is set when it finishes and is not taken back.               *)
LeafFlags ==
  FlatSoFar =>
    /\ \A t \in created_tasks \ {Root} : finished[t] => children_finished[t]
    /\ EndDetected

(* No task but the root task has a child in a flat program.                 *)
LEMMA FlatChildren ==
  ASSUME FlatSoFar, NEW t \in Task, t # Root
  PROVE  children(t) = {}
BY DEF children, FlatSoFar

(* A program that is still flat after a step was flat before it.           *)
LEMMA FlatBefore ==
  ASSUME RuntimeInv, [RuntimeNext]_runtimeVars, FlatSoFar'
  PROVE  FlatSoFar
<1>t. RuntimeTypeOK
  BY DEF RuntimeInv
<1>f. parent_id \in [Task -> Int] /\ created_tasks \subseteq Task
  BY <1>t, TypeFacts
<1>1. CASE setup
  BY <1>1 DEF RuntimeInv, TablesAgree, setup, FlatSoFar
<1>2. ASSUME NEW p \in Task, Create(p) PROVE FlatSoFar
  <2>1. /\ created_tasks' = created_tasks \cup {next_task_id}
        /\ parent_id' = [parent_id EXCEPT ![next_task_id] = p]
        /\ next_task_id \in Task
    BY <1>t, <1>2, CreateEffect
  <2>2. next_task_id \notin created_tasks
    BY <2>1 DEF RuntimeInv, TablesAgree
  <2> QED BY <1>f, <2>1, <2>2 DEF FlatSoFar
<1>3. ASSUME UNCHANGED <<created_tasks, parent_id>> PROVE FlatSoFar
  BY <1>3 DEF FlatSoFar
<1> QED BY <1>1, <1>2, <1>3
           DEF RuntimeNext, runtimeVars, run_task_on_node, Finish, handle_finish_task,
               Crash, finish_crashes, shutdown, schedulerVars

(* Every action keeps the flags of a flat program.                         *)
LEMMA LeafFlagsStep ==
  RuntimeInv /\ LeafFlags /\ [RuntimeNext]_runtimeVars => LeafFlags'
<1>0. SUFFICES ASSUME RuntimeInv, LeafFlags, [RuntimeNext]_runtimeVars, FlatSoFar'
               PROVE  LeafFlags'
  BY DEF LeafFlags
<1>t. RuntimeTypeOK
  BY <1>0 DEF RuntimeInv
<1>b. FlatSoFar
  BY <1>0, FlatBefore
<1>f. /\ created_tasks \subseteq Task
      /\ parent_id \in [Task -> Int]
      /\ finished \in [Task -> BOOLEAN]
      /\ children_finished \in [Task -> BOOLEAN]
      /\ Root \in Task
  BY <1>t, TypeFacts, MaxTaskAssumption
<1>l. \A t \in created_tasks \ {Root} : finished[t] => children_finished[t]
  BY <1>0, <1>b DEF LeafFlags
<1>c. loop = "run" /\ (\A t \in created_tasks : finished[t]) => children_finished[Root]
  BY <1>0, <1>b DEF LeafFlags, EndDetected
<1>s. ASSUME UNCHANGED <<created_tasks, finished, children_finished>>,
             loop' = "run" => loop = "run"
      PROVE  LeafFlags'
  BY <1>s, <1>l, <1>c DEF LeafFlags, EndDetected
<1>n. ASSUME NEW t \in Task, t \notin created_tasks PROVE ~finished[t]
  BY <1>0, <1>n, StartedIsCreated DEF RuntimeInv, TablesAgree
<1>1. CASE setup
  <2>1. created_tasks = {}
    BY <1>0, <1>1, <1>t, TypeFacts DEF RuntimeInv, TablesAgree, setup
  <2>2. created_tasks' = {Root} /\ finished' = finished
    BY <1>1, <2>1 DEF setup, enqueue
  <2>3. ~finished[Root]
    BY <1>f, <1>n, <2>1
  <2> QED BY <2>2, <2>3 DEF LeafFlags, EndDetected
<1>2. CASE run_task_on_node
  BY <1>2, <1>s DEF run_task_on_node
<1>3. ASSUME NEW p \in Task, Create(p) PROVE LeafFlags'
  <2>1. /\ next_task_id \in Task
        /\ created_tasks' = created_tasks \cup {next_task_id}
        /\ UNCHANGED <<finished, children_finished, loop>>
    BY <1>t, <1>3, CreateEffect
  <2>2. next_task_id \notin created_tasks
    BY <1>0, <2>1 DEF RuntimeInv, TablesAgree
  <2>3. ~finished[next_task_id]
    BY <1>n, <2>1, <2>2
  <2> QED BY <1>l, <2>1, <2>3 DEF LeafFlags, EndDetected
<1>4. ASSUME NEW t \in Task, Finish(t) PROVE LeafFlags'
  <2>1. /\ node[t] \in Worker
        /\ finished' = [finished EXCEPT ![t] = TRUE]
        /\ children_finished' = FlagsAfter(t)
        /\ UNCHANGED <<created_tasks, parent_id, loop>>
    BY <1>t, <1>4, FinishEffect
  <2>2. t \in created_tasks
    BY <1>0, <2>1, StartedIsCreated, WorkerAssumption
  <2> DEFINE P == parent_id[t]
             own == [children_finished EXCEPT ![t] = ChildrenDone(children_finished, t)]
  <2>3. children_finished' = IF P \in created_tasks
                             THEN [own EXCEPT ![P] = ChildrenDone(own, P)] ELSE own
    BY <2>1 DEF FlagsAfter
  <2>4. own \in [Task -> BOOLEAN]
    BY <1>f DEF ChildrenDone
  <2>5. ASSUME NEW u \in Task, u # Root, NEW flags PROVE ChildrenDone(flags, u) = TRUE
    BY <1>b, <2>5, FlatChildren DEF ChildrenDone
  <2>6. t # Root => P = Root /\ P \in created_tasks
    BY <1>0, <1>b, <2>2, <1>t, TypeFacts DEF RuntimeInv, TablesAgree, FlatSoFar
  <2>7. ASSUME NEW u \in created_tasks \ {Root}, finished'[u]
        PROVE  own[u] /\ children_finished'[u]
    <3>1. u \in Task /\ u # Root
      BY <1>f
    <3>2. own[u]
      <4>1. CASE u = t
        BY <4>1, <1>f, <2>5, <3>1
      <4>2. CASE u # t
        BY <4>2, <1>f, <1>l, <2>1, <2>7, <3>1
      <4> QED BY <4>1, <4>2
    <3> QED BY <1>f, <2>3, <2>4, <2>5, <3>1, <3>2
  <2>8. ASSUME \A u \in created_tasks : finished'[u]
        PROVE  children_finished'[Root]
    <3>1. children(Root) \subseteq created_tasks \ {Root}
      BY DEF children
    <3>2. ChildrenDone(own, Root)
      BY <2>7, <2>8, <3>1 DEF ChildrenDone
    <3>3. CASE P = Root /\ P \in created_tasks
      BY <3>2, <3>3, <1>f, <2>3, <2>4
    <3>4. CASE ~(P = Root /\ P \in created_tasks)
      <4>1. t = Root
        BY <3>4, <2>6
      <4>2. \A u \in children(Root) : own[u] = children_finished[u]
        BY <4>1, <3>1, <1>f
      <4>3. ChildrenDone(children_finished, Root)
        BY <4>2, <3>2 DEF ChildrenDone
      <4>4. own[Root]
        BY <4>1, <4>3, <1>f
      <4> QED BY <4>4, <3>4, <1>f, <2>3, <2>4
    <3> QED BY <3>3, <3>4
  <2> QED BY <2>1, <2>7, <2>8 DEF LeafFlags, EndDetected
<1>5. ASSUME NEW t \in Task, Crash(t) PROVE LeafFlags'
  BY <1>5, <1>s DEF Crash, finish_crashes, schedulerVars
<1>6. CASE shutdown
  BY <1>6, <1>s DEF shutdown, schedulerVars
<1>7. CASE UNCHANGED runtimeVars
  BY <1>7, <1>s DEF runtimeVars
<1> QED BY <1>0, <1>1, <1>2, <1>3, <1>4, <1>5, <1>6, <1>7 DEF RuntimeNext

(* As long as only the root task has created tasks, the end of the last    *)
(* task sets the flag that ends run.                                       *)
THEOREM FlatEndTheorem == RuntimeSpec => []FlatEndDetected
<1>1. RuntimeInit => LeafFlags
  BY DEF RuntimeInit, SchedulerInit, LeafFlags, EndDetected
<1>2. LeafFlags => FlatEndDetected
  BY DEF LeafFlags, FlatEndDetected
<1> QED BY <1>1, LeafFlagsStep, <1>2, RuntimeInvariance, PTL DEF RuntimeSpec

------------------------------------------------------------------------------
(* How the tables show the phase of a task.                                *)
LEMMA PhaseFacts ==
  ASSUME RuntimeInv, NEW t \in Task
  PROVE  /\ PhaseOf(t) = "absent" <=> t >= next_task_id
         /\ PhaseOf(t) = "ready" <=> t < next_task_id /\ node[t] = 0
         /\ PhaseOf(t) = "running" <=> node[t] # 0 /\ ~finished[t]
<1>1. /\ next_task_id \in 0 .. MaxTask + 1
      /\ t \in Nat
  BY TypeFacts, MaxTaskAssumption DEF RuntimeInv
<1>2. t \in created_tasks <=> t < next_task_id
  BY <1>1 DEF RuntimeInv, TablesAgree
<1>3. finished[t] => node[t] # 0
  BY DEF RuntimeInv, TablesAgree
<1>4. node[t] # 0 => t \in created_tasks
  BY StartedIsCreated
<1> QED BY <1>1, <1>2, <1>3, <1>4 DEF PhaseOf, Given

(* The tasks the pool sees running on a worker are those of the tables.    *)
LEMMA PoolLoad ==
  ASSUME RuntimeInv, NEW w \in Worker, loop # "setup"
  PROVE  Pool!Load(w) = Capacity - free_capacity[w]
<1>1. \A t \in Task : node[t] = w => node[t] # 0
  BY WorkerAssumption
<1>2. Pool!Running(w) = RunningOn(w)
  BY <1>1, PhaseFacts DEF Pool!Running, Pool!Task, RunningOn
<1>3. free_capacity[w] = Capacity - Cardinality(RunningOn(w))
  BY DEF RuntimeInv, CapacityConserved
<1>4. Cardinality(RunningOn(w)) \in Nat /\ Capacity \in Nat
  BY RunningFinite, CapacityAssumption
<1>5. Cardinality(RunningOn(w)) = Capacity - free_capacity[w]
  BY <1>3, <1>4
<1>6. Pool!Load(w) = Cardinality(RunningOn(w))
  BY <1>2, Zenon DEF Pool!Load, Pool!Cardinality, Cardinality
<1> QED BY <1>5, <1>6

(* The phases after a step that changes the phase of one task.             *)
LEMMA PhaseChange ==
  ASSUME NEW t \in Task, NEW v, PhaseOf(t)' = v,
         \A u \in Task : u # t => PhaseOf(u)' = PhaseOf(u)
  PROVE  [u \in Task |-> PhaseOf(u)]' = [[u \in Task |-> PhaseOf(u)] EXCEPT ![t] = v]
OBVIOUS

(* Every step of the runtime process is a step of the pool or changes      *)
(* nothing the pool shows.                                                 *)
LEMMA PoolStep ==
  RuntimeInv /\ RuntimeInv' /\ [RuntimeNext]_runtimeVars => [Pool!Next]_(Pool!vars)
<1>0. SUFFICES ASSUME RuntimeInv, RuntimeInv', [RuntimeNext]_runtimeVars
               PROVE  [Pool!Next]_(Pool!vars)
  OBVIOUS
<1> DEFINE phase == [t \in Task |-> PhaseOf(t)]
<1>t. RuntimeTypeOK
  BY <1>0 DEF RuntimeInv
<1>f. /\ next_task_id \in 0 .. MaxTask + 1
      /\ node \in [Task -> Worker \cup {0}]
      /\ finished \in [Task -> BOOLEAN]
      /\ Len(ready_tasks) \in Nat
      /\ free_capacity \in [Worker -> Int]
      /\ MaxTask \in Nat
  BY <1>t, TypeFacts, MaxTaskAssumption
<1>p. ASSUME NEW t \in Task
      PROVE  /\ phase[t] = PhaseOf(t)
             /\ PhaseOf(t) \in {"absent", "ready", "running", "done"}
             /\ phase[t] = "absent" <=> t >= next_task_id
             /\ phase[t] = "ready" <=> t < next_task_id /\ node[t] = 0
             /\ phase[t] = "running" <=> node[t] # 0 /\ ~finished[t]
  BY <1>0, PhaseFacts DEF PhaseOf
<1>s. ASSUME UNCHANGED <<created_tasks, finished, node>>
      PROVE  UNCHANGED Pool!vars
  BY <1>s DEF Pool!vars, PhaseOf, Given
<1>1. CASE setup
  <2>1. next_task_id = 0 /\ created_tasks = {}
    BY <1>0, <1>1, <1>f DEF RuntimeInv, TablesAgree, setup
  <2>2. created_tasks' = {0} /\ UNCHANGED <<finished, node>>
    BY <1>1, <2>1 DEF setup, enqueue
  <2>3. 0 \in Task /\ \A u \in Task : phase[u] = "absent" <=> u >= 0
    BY <1>p, <1>f, <2>1
  <2>4. node[0] = 0 /\ ~finished[0]
    BY <1>0, <2>1, <2>3, StartedIsCreated DEF RuntimeInv, TablesAgree
  <2>5. PhaseOf(0)' = "ready"
    BY <2>2, <2>4 DEF PhaseOf, Given
  <2>6. \A u \in Task : u # 0 => PhaseOf(u)' = PhaseOf(u)
    <3>1. SUFFICES ASSUME NEW u \in Task, u # 0 PROVE PhaseOf(u)' = PhaseOf(u)
      OBVIOUS
    <3>2. node[u] = 0 /\ ~finished[u]
      BY <1>0, <2>1, StartedIsCreated DEF RuntimeInv, TablesAgree
    <3> QED BY <2>1, <2>2, <3>1, <3>2 DEF PhaseOf, Given
  <2>7. phase' = [phase EXCEPT ![0] = "ready"]
    BY <2>3, <2>5, <2>6, PhaseChange
  <2>8. Pool!Spawn(0)
    BY <2>2, <2>3, <2>7 DEF Pool!Spawn, Pool!Task
  <2> QED BY <2>3, <2>8 DEF Pool!Next, Pool!Task
<1>2. CASE run_task_on_node
  <2>1. PICK h \in Task, w \in Worker :
          /\ Len(ready_tasks) \in Nat \ {0}
          /\ h = ready_tasks[1]
          /\ node' = [node EXCEPT ![h] = w]
          /\ MostFree(w)
          /\ UNCHANGED <<created_tasks, parent_id, finished, next_task_id, loop>>
    BY <1>t, <1>2, DispatchEffect
  <2>2. h = next_task_id - Len(ready_tasks) /\ Len(ready_tasks) <= next_task_id
    BY <1>0, <1>f, <2>1 DEF RuntimeInv, TablesAgree
  <2>3. \A t \in Task : node[t] # 0 <=> t < h
    BY <1>0, <2>2 DEF RuntimeInv, TablesAgree
  <2>4. h < next_task_id /\ node[h] = 0
    BY <1>f, <2>1, <2>2, <2>3
  <2>5. phase[h] = "ready" /\ \A u \in Task : phase[u] = "ready" => h <= u
    BY <1>p, <1>f, <2>1, <2>3, <2>4
  <2>6. loop # "setup"
    BY <1>2 DEF run_task_on_node
  <2>7. \A v \in Worker : Pool!Load(v) = Capacity - free_capacity[v]
    BY <1>0, <2>6, PoolLoad
  <2>8. Pool!Load(w) < Capacity /\ \A v \in Worker : Pool!Load(w) <= Pool!Load(v)
    <3>1. free_capacity[w] > 0 /\ \A v \in Worker : free_capacity[v] <= free_capacity[w]
      BY <1>f, <2>1 DEF MostFree
    <3>2. Capacity \in Int
      BY CapacityAssumption
    <3> HIDE DEF Pool!Load
    <3> QED BY <1>f, <2>7, <3>1, <3>2
  <2>9. ~finished[h] /\ w # 0 /\ h \in created_tasks
    BY <1>0, <1>f, <2>1, <2>4, WorkerAssumption DEF RuntimeInv, TablesAgree
  <2>10. PhaseOf(h)' = "running"
    BY <1>f, <2>1, <2>9 DEF PhaseOf, Given
  <2>11. \A u \in Task : u # h => PhaseOf(u)' = PhaseOf(u)
    BY <1>f, <2>1 DEF PhaseOf, Given
  <2>12. phase' = [phase EXCEPT ![h] = "running"]
    BY <2>10, <2>11, PhaseChange
  <2>13. Pool!Start(h, w)
    BY <2>1, <2>5, <2>8, <2>12 DEF Pool!Start, Pool!Task
  <2> QED BY <2>1, <2>13 DEF Pool!Next, Pool!Task
<1>3. ASSUME NEW p \in Task, Create(p) PROVE Pool!Next
  <2>n. PICK n \in Task : n = next_task_id
    BY <1>t, <1>3, CreateEffect
  <2>1. /\ node[p] # 0 /\ ~finished[p]
        /\ loop = "run" /\ n \in Task
        /\ created_tasks' = created_tasks \cup {n}
        /\ UNCHANGED <<finished, node>>
    BY <1>t, <1>3, <2>n, CreateEffect
  <2>2. phase[p] = "running" /\ n # 0
    BY <1>0, <1>p, <2>n, <2>1 DEF RuntimeInv, TablesAgree
  <2>3. \A u \in Task : phase[u] = "absent" <=> u >= n
    BY <1>p, <2>n
  <2>4. n \notin created_tasks /\ node[n] = 0 /\ ~finished[n]
    BY <1>0, <1>f, <2>n, <2>1, StartedIsCreated DEF RuntimeInv, TablesAgree
  <2>5. PhaseOf(n)' = "ready"
    BY <2>1, <2>4 DEF PhaseOf, Given
  <2>6. \A u \in Task : u # n => PhaseOf(u)' = PhaseOf(u)
    BY <2>1 DEF PhaseOf, Given
  <2>7. phase' = [phase EXCEPT ![n] = "ready"]
    BY <2>5, <2>6, PhaseChange
  <2>8. Pool!Spawn(n)
    BY <2>1, <2>2, <2>3, <2>7 DEF Pool!Spawn, Pool!Task
  <2> QED BY <2>1, <2>8 DEF Pool!Next, Pool!Task
<1>4. ASSUME NEW t \in Task, Finish(t) PROVE Pool!Next
  <2>1. /\ node[t] \in Worker /\ ~finished[t]
        /\ finished' = [finished EXCEPT ![t] = TRUE]
        /\ UNCHANGED <<created_tasks, node>>
    BY <1>t, <1>4, FinishEffect
  <2>2. phase[t] = "running" /\ t \in created_tasks
    BY <1>0, <1>p, <2>1, StartedIsCreated, WorkerAssumption
  <2>3. PhaseOf(t)' = "done"
    BY <1>f, <2>1, <2>2 DEF PhaseOf, Given
  <2>4. \A u \in Task : u # t => PhaseOf(u)' = PhaseOf(u)
    BY <1>f, <2>1 DEF PhaseOf, Given
  <2>5. phase' = [phase EXCEPT ![t] = "done"]
    BY <2>3, <2>4, PhaseChange
  <2>6. Pool!Finish(t)
    BY <2>1, <2>2, <2>5 DEF Pool!Finish
  <2> QED BY <2>6 DEF Pool!Next, Pool!Task
<1>5. ASSUME NEW t \in Task, Crash(t) PROVE UNCHANGED Pool!vars
  BY <1>5, <1>s DEF Crash, finish_crashes, schedulerVars
<1>6. CASE shutdown
  BY <1>6, <1>s DEF shutdown, schedulerVars
<1>7. CASE UNCHANGED runtimeVars
  BY <1>7, <1>s DEF runtimeVars
<1> QED BY <1>0, <1>1, <1>2, <1>3, <1>4, <1>5, <1>6, <1>7 DEF RuntimeNext

(* The task table, the queue and the capacity table implement the pool:    *)
(* each task is started once, in id order, on a least loaded worker.       *)
THEOREM PoolTheorem == RuntimeSpec => ImplementsTaskPool
<1>1. RuntimeInit => Pool!Init
  <2>1. SUFFICES ASSUME RuntimeInit PROVE Pool!Init
    OBVIOUS
  <2>2. \A t \in Task : PhaseOf(t) = "absent"
    BY <2>1 DEF RuntimeInit, SchedulerInit, PhaseOf, Given
  <2>3. node = [t \in Task |-> 0]
    BY <2>1 DEF RuntimeInit
  <2> QED BY <2>2, <2>3 DEF Pool!Init, Pool!Task
<1> QED BY <1>1, PoolStep, RuntimeInvariance, PTL
           DEF RuntimeSpec, ImplementsTaskPool, Pool!Spec
=============================================================================
