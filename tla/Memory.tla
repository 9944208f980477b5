-------------------------------- MODULE Memory --------------------------------
(***************************************************************************)
(* The contents of the variables tasks share: how they get to the worker a *)
(* task runs on and how its changes get back, in runtime/src/Task.cpp and  *)
(* the memory transfers of Worker.cpp.                                     *)
(*                                                                         *)
(* The program is the one the tests run, with nesting: a task captures an  *)
(* array by its pointer and the loop variable of its creator by a copy,    *)
(* and its code assigns to the element that the loop variable selects.     *)
(* Element t is the one selected when task t is created.                   *)
(***************************************************************************)
EXTENDS Tasks

CONSTANT Value   \* what an element can hold

ASSUME ValueAssumption == Value \subseteq Nat /\ 0 \in Value

Element == Task \ {Root}
Contents == [Element -> Value]

VARIABLES
  stage,     \* how far each task has come
  parent,    \* the task that created it
  selected,  \* the element that a task's copy of the loop variable selects
  place,     \* the task whose copy of the array task->memory points to
  memory,    \* the copies of the array; that of Root is the original
  backup,    \* the backup of request_memory
  changes,   \* the changes on their way back: the buffer of write_memory
  written,   \* history: the last value the code of each task assigned
  in_time    \* history: the tasks done before their parent wrote back

vars == <<stage, parent, selected, place, memory, backup, changes,
          written, in_time>>

Nothing == -1

Stage == {"new", "created", "running", "sent", "done"}

(* Changes are the indices and new values of some elements.                *)
Changes == UNION {[d -> Value] : d \in SUBSET Element}

MemoryTypeOK ==
  /\ stage \in [Task -> Stage]
  /\ parent \in [Task -> Task]
  /\ selected \in [Task -> Task]
  /\ place \in [Task -> Task]
  /\ memory \in [Task -> Contents]
  /\ backup \in [Task -> Contents]
  /\ changes \in [Task -> Changes]
  /\ written \in [Task -> Value \cup {Nothing}]
  /\ in_time \subseteq Task

Zeroes == [e \in Element |-> 0]

Init ==
  /\ stage = [t \in Task |-> IF t = Root THEN "running" ELSE "new"]
  /\ parent = [t \in Task |-> Root]
  /\ selected = [t \in Task |-> Root]
  /\ place = [t \in Task |-> Root]
  /\ memory = [t \in Task |-> Zeroes]
  /\ backup = [t \in Task |-> Zeroes]
  /\ changes = [t \in Task |-> [e \in {} |-> 0]]
  /\ written = [t \in Task |-> Nothing]
  /\ in_time = {}

(* Where the pointers of a task's variables point: into its parent's copy. *)
home(t) == place[parent[t]]

------------------------------------------------------------------------------
(* The next round of a loop in the code of p: the loop variable is t, and  *)
(* Task::prepare copies it, for it goes on changing while t waits.         *)
PastEnd(p, t) ==                                   \* mutation of handle_create_task
  /\ p \in Creators
  /\ stage[p] = "running"
  /\ stage[t] = "new" /\ \A u \in Task : stage[u] = "new" => t <= u
  /\ stage' = [stage EXCEPT ![t] = "created"]
  /\ parent' = [parent EXCEPT ![t] = p]
  /\ selected' = [selected EXCEPT ![t] = t + 1]
  /\ UNCHANGED <<place, memory, backup, changes, written, in_time>>

AliasLoopVar(p, t) ==                              \* mutation of handle_create_task
  /\ p \in Creators
  /\ stage[p] = "running"
  /\ stage[t] = "new" /\ \A u \in Task : stage[u] = "new" => t <= u
  /\ stage' = [stage EXCEPT ![t] = "created"]
  /\ parent' = [parent EXCEPT ![t] = p]
  /\ selected' = [u \in Task |-> IF u = t \/ (stage[u] = "created" /\ parent[u] = p)
                                 THEN t ELSE selected[u]]
  /\ UNCHANGED <<place, memory, backup, changes, written, in_time>>

handle_create_task(p, t) ==
  /\ p \in Creators
  /\ stage[p] = "running"
  /\ stage[t] = "new" /\ \A u \in Task : stage[u] = "new" => t <= u
  /\ stage' = [stage EXCEPT ![t] = "created"]
  /\ parent' = [parent EXCEPT ![t] = p]
  /\ selected' = [selected EXCEPT ![t] = t]
  /\ UNCHANGED <<place, memory, backup, changes, written, in_time>>

(* On the worker that created the task, it works on the variables where    *)
(* they are.                                                               *)
run_local(t) ==
  /\ stage[t] = "created"
  /\ stage' = [stage EXCEPT ![t] = "running"]
  /\ place' = [place EXCEPT ![t] = home(t)]
  /\ UNCHANGED <<parent, selected, memory, backup, changes, written, in_time>>

(* On another worker, it works on a copy, and a second copy is kept.       *)
request_memory(t) ==
  /\ stage[t] = "created"
  /\ stage' = [stage EXCEPT ![t] = "running"]
  /\ place' = [place EXCEPT ![t] = t]
  /\ memory' = [memory EXCEPT ![t] = memory[home(t)]]
  /\ backup' = [backup EXCEPT ![t] = memory[home(t)]]
  /\ UNCHANGED <<parent, selected, changes, written, in_time>>

(* The code of the task assigns to its element.                            *)
assign(t, v) ==
  /\ stage[t] = "running" /\ t # Root
  /\ memory' = [memory EXCEPT ![place[t]][selected[t]] = v]
  /\ written' = [written EXCEPT ![t] = v]
  /\ UNCHANGED <<stage, parent, selected, place, backup, changes, in_time>>

------------------------------------------------------------------------------
(* The children of t that can still be part of what t writes back.         *)
Returned(t) == {c \in Task \ {Root} : parent[c] = t /\ stage[c] = "done"}

(* What has changed since the copy was made.                               *)
WholeArray(t) == memory[t]                         \* mutation of changed

changed(t) ==
  [e \in {e \in Element : memory[t][e] # backup[t][e]} |-> memory[t][e]]

write_memory(t) ==
  /\ stage[t] = "running" /\ t # Root
  /\ IF place[t] = home(t)
     THEN /\ stage' = [stage EXCEPT ![t] = "done"]
          /\ UNCHANGED changes
     ELSE /\ stage' = [stage EXCEPT ![t] = "sent"]
          /\ changes' = [changes EXCEPT ![t] = changed(t)]
  /\ in_time' = in_time \cup Returned(t)
  /\ UNCHANGED <<parent, selected, place, memory, backup, written>>

(* The changes are applied one by one to what the variable holds by then.  *)
OntoBackup(t) ==                                   \* mutation of handle_write_memory
  /\ stage[t] = "sent"
  /\ stage' = [stage EXCEPT ![t] = "done"]
  /\ memory' = [memory EXCEPT ![home(t)] = 
                  [e \in Element |-> IF e \in DOMAIN changes[t] THEN changes[t][e]
                                                               ELSE backup[t][e]]]
  /\ UNCHANGED <<parent, selected, place, backup, changes, written, in_time>>

handle_write_memory(t) ==
  /\ stage[t] = "sent"
  /\ stage' = [stage EXCEPT ![t] = "done"]
  /\ memory' = [memory EXCEPT ![home(t)] =
                  [e \in Element |-> IF e \in DOMAIN changes[t] THEN changes[t][e] ELSE @[e]]]
  /\ UNCHANGED <<parent, selected, place, backup, changes, written, in_time>>

Next ==
  \/ \E p, t \in Task : handle_create_task(p, t)
  \/ \E t \in Task :
       \/ run_local(t)
       \/ request_memory(t)
       \/ \E v \in Value : assign(t, v)
       \/ write_memory(t)
       \/ handle_write_memory(t)

Spec == Init /\ [][Next]_vars

------------------------------------------------------------------------------
(* What a task assigned is at its origin once it has been written back,    *)
(* whatever its siblings, its children and its parent write before, at the *)
(* same time and after: no write-back undoes another one.                  *)
ResultAtOrigin ==
  \A t \in Element :
    stage[t] = "done" /\ written[t] # Nothing => memory[home(t)][t] = written[t]

(* It goes on to the origin of its parent with the changes of the parent,  *)
(* if it was there in time.  (A task that is done after its parent has     *)
(* written back leaves its result in a copy that nobody looks at.)         *)
ResultHandedOn ==
  \A t \in Element :
    t \in in_time /\ stage[parent[t]] = "done" /\ written[t] # Nothing =>
      memory[home(parent[t])][t] = written[t]

(* An element nobody has assigned to is nowhere disturbed.                 *)
Undisturbed ==
  \A t, u \in Element : written[t] = Nothing => memory[u][t] = 0 /\ memory[Root][t] = 0
=============================================================================
