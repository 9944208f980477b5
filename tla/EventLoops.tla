----------------------------- MODULE EventLoops -----------------------------
(***************************************************************************)
(* The previous runtime as a whole: the event loop of the runtime process  *)
(* around the WaitTree (runtime-old/Runtime.cpp), the event loops of the   *)
(* workers (runtime-old/Worker.cpp) and the threads of the tasks they run  *)
(* (runtime-old/WorkerTask.cpp).                                           *)
(*                                                                         *)
(* A task in Creators may create tasks and wait.  In this version run_task *)
(* only calls the main program, the code of task 0; the operations are     *)
(* there for every task, and the tree is made for any depth.               *)
(*                                                                         *)
(* The request for a task's memory is left out: transfer_memory is empty,  *)
(* so receiving one is a turn of the loop that finds no message.           *)
(***************************************************************************)
EXTENDS WaitTree, SequencesExt

CONSTANT UninitCapacity   \* what the uninitialised waiting_capacity may hold

ASSUME UninitCapacityAssumption == UninitCapacity \subseteq Int

VARIABLES
  phase,             \* where RuntimeNode::event_loop is
  to_runtime,        \* messages of each worker to rank 0
  to_worker,         \* messages of rank 0 to each worker
  capacity,          \* WorkerNode::capacity
  waiting_capacity,  \* WorkerNode::waiting_capacity
  runnable_tasks,    \* WorkerNode::runnable_tasks
  waiting_tasks,     \* WorkerNode::waiting_tasks
  to_report,         \* free_capacity of the current turn, not yet sent
  quit_loop,         \* WorkerNode::quit_loop
  thread,            \* where the thread of each task is
  host               \* the worker whose tasks table has the task, 0 before

loopVars == <<capacity, waiting_capacity, runnable_tasks, waiting_tasks, to_report,
              quit_loop, thread, host>>
vars == <<treeVars, poolVars, phase, to_runtime, to_worker, loopVars>>

UpTag == {"CREATE", "COMMAND", "WAITTASK", "WAITALL", "FREECAPACITY"}
DownTag == {"COMMAND", "WAKEUPTASK", "SHUTDOWN"}
ThreadPC == {"none", "body", "taskwait", "allwait", "blocked", "woken", "sent",
             "finish_flag", "joined"}

EventLoopsTypeOK ==
  /\ WaitTreeTypeOK
  /\ phase \in {"first", "loop", "exit"}
  /\ to_runtime \in [Worker -> Seq([tag : UpTag, task : Task, amount : Int])]
  /\ to_worker \in [Worker -> Seq([tag : DownTag, task : Task])]
  /\ capacity \in [Worker -> Int]
  /\ waiting_capacity \in [Worker -> Int]
  /\ runnable_tasks \in [Worker -> Seq(Task)]
  /\ waiting_tasks \in [Worker -> SUBSET Task]
  /\ to_report \in [Worker -> Int]
  /\ quit_loop \in [Worker -> BOOLEAN]
  /\ thread \in [Task -> ThreadPC]
  /\ host \in [Task -> Worker \cup {0}]

Init ==
  /\ WaitTreeInit
  /\ phase = "first"
  /\ to_runtime = [w \in Worker |-> << >>]
  /\ to_worker = [w \in Worker |-> << >>]
  /\ capacity = [w \in Worker |-> Capacity]
  /\ waiting_capacity \in [Worker -> UninitCapacity]
  /\ runnable_tasks = [w \in Worker |-> << >>]
  /\ waiting_tasks = [w \in Worker |-> {}]
  /\ to_report = [w \in Worker |-> 0]
  /\ quit_loop = [w \in Worker |-> FALSE]
  /\ thread = [t \in Task |-> "none"]
  /\ host = [t \in Task |-> 0]

Up(tag, t, n) == [tag |-> tag, task |-> t, amount |-> n]
Down(tag, t) == [tag |-> tag, task |-> t]

------------------------------------------------------------------------------
(* The event loop of rank 0: receive a message if there is one, hand out   *)
(* tasks while there are free workers, and look whether all is done.  Only *)
(* the first round can receive a message while there is a task to run.     *)
Receiving == phase = "first" \/ (phase = "loop" /\ ~CanRunTask /\ ~check_completion)

Incoming(w, tag) ==
  /\ Receiving
  /\ to_runtime[w] # << >>
  /\ Head(to_runtime[w]).tag = tag
  /\ to_runtime' = [to_runtime EXCEPT ![w] = Tail(@)]
  /\ phase' = "loop"

receive_create(w) ==
  /\ Incoming(w, "CREATE")
  /\ handle_create_task(Head(to_runtime[w]).task)
  /\ UNCHANGED <<to_worker, loopVars>>

(* One finished task wakes at most one other, so the order does not matter. *)
WakeupsTo(w, t) == SetToSeq({Down("WAKEUPTASK", a) : a \in {b \in Woken(t) : waiting_node[b] = w}})

receive_finish(w) ==
  /\ Incoming(w, "COMMAND")
  /\ LET t == Head(to_runtime[w]).task IN
       /\ handle_finish_task(t)
       /\ to_worker' = [v \in Worker |-> to_worker[v] \o WakeupsTo(v, t)]
  /\ UNCHANGED loopVars

receive_taskwait(w) ==
  /\ Incoming(w, "WAITTASK")
  /\ handle_wait_message(Head(to_runtime[w]).task, "task", w)
  /\ UNCHANGED <<to_worker, loopVars>>

receive_allwait(w) ==
  /\ Incoming(w, "WAITALL")
  /\ handle_wait_message(Head(to_runtime[w]).task, "all", w)
  /\ UNCHANGED <<to_worker, loopVars>>

receive_free_capacity(w) ==
  /\ Incoming(w, "FREECAPACITY")
  /\ handle_free_capacity(Head(to_runtime[w]).amount, w)
  /\ UNCHANGED <<to_worker, loopVars>>

receive_nothing ==
  /\ phase = "first"
  /\ phase' = "loop"
  /\ UNCHANGED <<treeVars, poolVars, to_runtime, to_worker, loopVars>>

run_task ==
  /\ phase = "loop" /\ CanRunTask
  /\ handle_run_task
  /\ to_worker' = [to_worker EXCEPT ![Head(free_workers)] =
                     Append(@, Down("COMMAND", Head(queued_tasks)))]
  /\ UNCHANGED <<phase, to_runtime, loopVars>>

shutdown ==
  /\ phase = "loop" /\ ~CanRunTask /\ check_completion
  /\ phase' = "exit"
  /\ to_worker' = [w \in Worker |-> Append(to_worker[w], Down("SHUTDOWN", Root))]
  /\ UNCHANGED <<treeVars, poolVars, to_runtime, loopVars>>

------------------------------------------------------------------------------
(* The event loop of a worker.  A turn receives a message if there is one, *)
(* takes the capacity of suspended and of finished tasks back, starts or   *)
(* continues tasks while it has capacity, and reports the difference.      *)
Hosted(w) == {t \in Task : host[t] = w}
Reaped(w) == {t \in Hosted(w) : thread[t] = "finish_flag"}

Smaller(m, n) == IF m < n THEN m ELSE n
TakenButOne(queue, n) == IF n > 1 THEN Smaller(Len(queue), n - 1) ELSE 0    \* mutation of Taken
Taken(queue, n) == IF n > 0 THEN Smaller(Len(queue), n) ELSE 0

ReapedOnly(w) == capacity[w] + Cardinality(Reaped(w))   \* mutation of Available
Available(w) == capacity[w] + waiting_capacity[w] + Cardinality(Reaped(w))

Turn(w, queue, quit) ==
  LET n == Taken(queue, Available(w))
      taken == {queue[i] : i \in 1 .. n}
  IN
    /\ capacity' = [capacity EXCEPT ![w] = Available(w) - n]
    /\ waiting_capacity' = [waiting_capacity EXCEPT ![w] = 0]
    /\ runnable_tasks' = [runnable_tasks EXCEPT ![w] = SubSeq(queue, n + 1, Len(queue))]
    /\ thread' = [t \in Task |->
         CASE t \in Reaped(w)                      -> "joined"
           [] t \in taken /\ thread[t] = "blocked" -> "woken"
           [] t \in taken /\ thread[t] = "none"    -> "body"
           [] OTHER                                -> thread[t]]
    /\ to_report' = [to_report EXCEPT ![w] = IF quit THEN 0 ELSE Available(w) - n - capacity[w]]

Looping(w) == ~quit_loop[w] /\ to_report[w] = 0

Received(w, tag) ==
  /\ Looping(w)
  /\ to_worker[w] # << >>
  /\ Head(to_worker[w]).tag = tag
  /\ to_worker' = [to_worker EXCEPT ![w] = Tail(@)]

turn(w) ==
  /\ Looping(w)
  /\ Turn(w, runnable_tasks[w], FALSE)
  /\ UNCHANGED <<treeVars, poolVars, phase, to_runtime, to_worker, waiting_tasks, quit_loop, host>>

turn_run_task(w) ==
  /\ Received(w, "COMMAND")
  /\ LET t == Head(to_worker[w]).task IN
       /\ host' = [host EXCEPT ![t] = w]
       /\ Turn(w, Append(runnable_tasks[w], t), FALSE)
  /\ UNCHANGED <<treeVars, poolVars, phase, to_runtime, waiting_tasks, quit_loop>>

turn_wakeup(w) ==
  /\ Received(w, "WAKEUPTASK")
  /\ LET t == Head(to_worker[w]).task IN
       /\ waiting_tasks' = [waiting_tasks EXCEPT ![w] = @ \ {t}]
       /\ Turn(w, Append(runnable_tasks[w], t), FALSE)
  /\ UNCHANGED <<treeVars, poolVars, phase, to_runtime, quit_loop, host>>

(* The turn in which the message arrives is completed, but nothing is joined *)
(* that has not set its finish_flag by then.                               *)
turn_shutdown(w) ==
  /\ Received(w, "SHUTDOWN")
  /\ quit_loop' = [quit_loop EXCEPT ![w] = TRUE]
  /\ Turn(w, runnable_tasks[w], TRUE)
  /\ UNCHANGED <<treeVars, poolVars, phase, to_runtime, waiting_tasks, host>>

report_free_capacity(w) ==
  /\ to_report[w] # 0
  /\ to_runtime' = [to_runtime EXCEPT ![w] = Append(@, Up("FREECAPACITY", Root, to_report[w]))]
  /\ to_report' = [to_report EXCEPT ![w] = 0]
  /\ UNCHANGED <<treeVars, poolVars, phase, to_worker, capacity, waiting_capacity,
                 runnable_tasks, waiting_tasks, quit_loop, thread, host>>

------------------------------------------------------------------------------
(* The thread of a task.  It creates tasks, waits for them, and finishes.  *)

Tell(t, tag) == to_runtime' = [to_runtime EXCEPT ![host[t]] = Append(@, Up(tag, t, 0))]
MoveTo(t, pc) == thread' = [thread EXCEPT ![t] = pc]

(* The tasks asked for and not created, by the place of the message.       *)
Uncreated ==
  UNION {{w} \X {i \in DOMAIN to_runtime[w] : to_runtime[w][i].tag = "CREATE"} : w \in Worker}

handle_create(t) ==
  /\ thread[t] = "body" /\ t \in Creators
  /\ id_counter + Cardinality(Uncreated) <= MaxTask     \* bound
  /\ Tell(t, "CREATE")
  /\ UNCHANGED <<treeVars, poolVars, phase, to_worker, loopVars>>

(* The task suspends itself before it tells the runtime.                   *)
CapacityOnly(t) ==                                     \* mutation of add_to_waiting
  /\ waiting_capacity' = [waiting_capacity EXCEPT ![host[t]] = @ + 1]
  /\ UNCHANGED waiting_tasks

add_to_waiting(t) ==
  /\ waiting_tasks' = [waiting_tasks EXCEPT ![host[t]] = @ \cup {t}]
  /\ waiting_capacity' = [waiting_capacity EXCEPT ![host[t]] = @ + 1]

suspend(t, kind) ==
  /\ thread[t] = "body" /\ t \in Creators
  /\ MoveTo(t, kind)
  /\ add_to_waiting(t)
  /\ UNCHANGED <<treeVars, poolVars, phase, to_runtime, to_worker, capacity,
                 runnable_tasks, to_report, quit_loop, host>>

tell_wait(t, kind, tag) ==
  /\ thread[t] = kind
  /\ Tell(t, tag)
  /\ MoveTo(t, "blocked")
  /\ UNCHANGED <<treeVars, poolVars, phase, to_worker, capacity, waiting_capacity,
                 runnable_tasks, waiting_tasks, to_report, quit_loop, host>>

(* continueable has been set by the main thread.                           *)
continue(t) ==
  /\ thread[t] = "woken"
  /\ MoveTo(t, "body")
  /\ UNCHANGED <<treeVars, poolVars, phase, to_runtime, to_worker, capacity, waiting_capacity,
                 runnable_tasks, waiting_tasks, to_report, quit_loop, host>>

handle_finish(t) ==
  /\ thread[t] = "body"
  /\ Tell(t, "COMMAND")
  /\ MoveTo(t, "sent")
  /\ UNCHANGED <<treeVars, poolVars, phase, to_worker, capacity, waiting_capacity,
                 runnable_tasks, waiting_tasks, to_report, quit_loop, host>>

set_finish_flag(t) ==
  /\ thread[t] = "sent"
  /\ MoveTo(t, "finish_flag")
  /\ UNCHANGED <<treeVars, poolVars, phase, to_runtime, to_worker, capacity, waiting_capacity,
                 runnable_tasks, waiting_tasks, to_report, quit_loop, host>>

------------------------------------------------------------------------------
RuntimeStep ==
  \/ \E w \in Worker :
       \/ receive_create(w) \/ receive_finish(w)
       \/ receive_taskwait(w) \/ receive_allwait(w) \/ receive_free_capacity(w)
  \/ receive_nothing \/ run_task \/ shutdown

WorkerStep(w) ==
  \/ turn(w) \/ turn_run_task(w) \/ turn_wakeup(w) \/ turn_shutdown(w)
  \/ report_free_capacity(w)

ThreadStep(t) ==
  \/ handle_create(t)
  \/ suspend(t, "taskwait") \/ suspend(t, "allwait")
  \/ tell_wait(t, "taskwait", "WAITTASK") \/ tell_wait(t, "allwait", "WAITALL")
  \/ continue(t) \/ handle_finish(t) \/ set_finish_flag(t)

Next ==
  \/ RuntimeStep
  \/ \E w \in Worker : WorkerStep(w)
  \/ \E t \in Task : ThreadStep(t)

Spec == Init /\ [][Next]_vars

(* Loops that poll for ever, and tasks whose code comes to its end.        *)
FairSpec ==
  /\ Spec
  /\ WF_vars(RuntimeStep)
  /\ \A w \in Worker : WF_vars(WorkerStep(w))
  /\ \A t \in Task : WF_vars(ThreadStep(t))

------------------------------------------------------------------------------
HasEnded(t) == thread[t] \in {"sent", "finish_flag", "joined"}

(* The runtime process leaves its loop only when every task has ended and  *)
(* no task has anything left to say to it.                                 *)
ExitWhenAllEnded ==
  phase = "exit" =>
    /\ \A t \in Created : HasEnded(t)
    /\ \A w \in Worker : \A i \in DOMAIN to_runtime[w] : to_runtime[w][i].tag = "FREECAPACITY"

(* A wake-up finds its task among the suspended ones of that worker: an    *)
(* entry that is missing would be a null pointer in the event loop.        *)
WakeupFindsTask ==
  \A w \in Worker : \A i \in DOMAIN to_worker[w] :
    to_worker[w][i].tag = "WAKEUPTASK" =>
      LET t == to_worker[w][i].task IN t \in waiting_tasks[w] /\ thread[t] = "blocked"

(* A task that has been, or is being, woken waited long enough: all its    *)
(* children have ended, and for an allwait all tasks below it.             *)
BeingWoken(t) ==
  \/ thread[t] = "woken"
  \/ \E w \in Worker : \E i \in DOMAIN to_worker[w] : to_worker[w][i] = Down("WAKEUPTASK", t)
  \/ \E w \in Worker : t \in ToSet(runnable_tasks[w]) /\ thread[t] = "blocked"

ChildrenWaitedFor == \A t \in Created : BeingWoken(t) => \A c \in children(t) : HasEnded(c)

(* ... an allwait leaves nothing running below, whoever created it.        *)
AllWaitedFor ==
  [][\A t \in Task : waiting[t] = "all" /\ waiting'[t] = "no" => \A d \in Below(t) : HasEnded(d)]_vars

(* Suspending, waking, starting and reaping neither lose nor invent        *)
(* capacity of a worker, garbage in waiting_capacity included.             *)
Holding(w) ==
  {t \in Hosted(w) : thread[t] \in {"body", "woken", "sent", "finish_flag"}}
Offer(w) == capacity[w] + waiting_capacity[w] + Cardinality(Holding(w))

CapacityKept == [][\A w \in Worker : Offer(w)' = Offer(w)]_vars

(* The account of the runtime is off by one for every task ever handed to  *)
(* a worker: the runtime counts a task when it hands it out, and the       *)
(* worker, which reports every change of its capacity, once more when it   *)
(* starts it.  Nothing else gets lost, reports under way considered.       *)
HandedTo(w) ==
  Hosted(w) \cup {m.task : m \in {x \in ToSet(to_worker[w]) : x.tag = "COMMAND"}}

AmountOf(q) ==
  LET sum[i \in 0 .. Len(q)] == IF i = 0 THEN 0 ELSE sum[i - 1] + q[i].amount
  IN  sum[Len(q)]

ReportedBy(w) == to_report[w] + AmountOf(to_runtime[w])

AccountDrifts ==
  \A w \in Worker : ~quit_loop[w] =>
    offered[w] + ReportedBy(w) = capacity[w] - Cardinality(HandedTo(w))

(* The only ways not to come to an end: a task began to wait after the     *)
(* last task it waits for had been reported, so that no report will wake   *)
(* it, or the garbage left a worker without any capacity.                  *)
WaitsInVain(t) ==
  \/ waiting[t] = "task" /\ running_children[t] = 0
  \/ waiting[t] = "all" /\ not_finished_children[t] = 0

AllDown == phase = "exit" /\ \A w \in Worker : quit_loop[w]

EndsOrWaitsInVain ==
  <>[](AllDown \/ (\E t \in Task : WaitsInVain(t)) \/ \E w \in Worker : Offer(w) <= 0)
=============================================================================
