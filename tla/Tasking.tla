------------------------------- MODULE Tasking -------------------------------
(***************************************************************************)
(* The whole program: the runtime process of module Runtime, the worker    *)
(* processes of module WorkerProcess, and the messages between them.  The  *)
(* handlers of Runtime take their messages off the network here, and send  *)
(* what the code sends.                                                    *)
(***************************************************************************)
EXTENDS Runtime, WorkerProcess

VARIABLE awaiting   \* the worker whose acknowledgement handle_create_task awaits

vars == <<created_tasks, parent_id, finished, children_finished, ready_tasks,
          free_capacity, next_task_id, node, loop, net, main, mutex, known,
          thread, merged, awaiting>>

TaskingTypeOK ==
  /\ RuntimeTypeOK
  /\ WorkerTypeOK
  /\ awaiting \in Node

Init ==
  /\ RuntimeInit
  /\ WorkerInit
  /\ awaiting = 0

(* A task is created on the worker its parent runs on.                     *)
origin_id(t) == IF t = Root THEN 0 ELSE node[parent_id[t]]

------------------------------------------------------------------------------
(* The runtime process: one thread, which probes and receives in one step  *)
(* because nobody else receives there.                                     *)

RuntimeSetup ==
  /\ setup
  /\ \A w \in Worker : Arrived(w, 0, "REPORT_CAPACITY")
  /\ net' = [sd \in DOMAIN net |->
               IF sd[2] = 0 /\ sd[1] # 0 THEN Without(sd[1], 0, "REPORT_CAPACITY")
                                         ELSE net[sd]]
  /\ UNCHANGED <<workerVars, awaiting>>

RuntimeDispatch ==
  /\ awaiting = 0
  /\ run_task_on_node
  /\ LET t == Head(ready_tasks) IN
       Send(0, node'[t], [Msg("RUN_TASK", "task", t) EXCEPT !.origin = origin_id(t)])
  /\ UNCHANGED <<workerVars, awaiting>>

(* The next message from w is of this tag, and run has come to receive it. *)
NextIs(w, tag) ==
  /\ awaiting = 0
  /\ Receiving
  /\ net[<<w, 0>>] # << >>
  /\ Head(net[<<w, 0>>]).tag = tag

(* The reply carries the id; then run waits until the task is set up.      *)
NoWait(w) ==                                       \* mutation of RuntimeCreateTask
  /\ NextIs(w, "CREATE_TASK")
  /\ handle_create_task(Head(net[<<w, 0>>]).task)
  /\ ReceiveAndSend(w, 0, "CREATE_TASK", w, <<Msg("CREATE_TASK", "id", next_task_id)>>)
  /\ UNCHANGED <<workerVars, awaiting>>

RuntimeCreateTask(w) ==
  /\ NextIs(w, "CREATE_TASK")
  /\ handle_create_task(Head(net[<<w, 0>>]).task)
  /\ ReceiveAndSend(w, 0, "CREATE_TASK", w, <<Msg("CREATE_TASK", "id", next_task_id)>>)
  /\ awaiting' = w
  /\ UNCHANGED workerVars

RuntimeTaskSetUp ==
  /\ awaiting # 0
  /\ Arrived(awaiting, 0, "CREATE_TASK")
  /\ Receive(awaiting, 0, "CREATE_TASK")
  /\ awaiting' = 0
  /\ UNCHANGED <<runtimeVars, workerVars>>

RuntimeFinishTask(w) ==
  /\ NextIs(w, "FINISH_TASK")
  /\ LET t == Head(net[<<w, 0>>]).task IN
       handle_finish_task(t, w) \/ finish_crashes(t)
  /\ Receive(w, 0, "FINISH_TASK")
  /\ UNCHANGED <<workerVars, awaiting>>

(* A later report is received and ignored.                                 *)
RuntimeReportCapacity(w) ==
  /\ NextIs(w, "REPORT_CAPACITY")
  /\ Receive(w, 0, "REPORT_CAPACITY")
  /\ UNCHANGED <<runtimeVars, workerVars, awaiting>>

RuntimeShutdown ==
  /\ awaiting = 0
  /\ shutdown
  /\ net' = [sd \in DOMAIN net |->
               IF sd[1] = 0 /\ sd[2] # 0
               THEN Append(net[sd], Msg("SHUTDOWN", "none", Root)) ELSE net[sd]]
  /\ UNCHANGED <<workerVars, awaiting>>

RuntimeStep ==
  \/ RuntimeSetup
  \/ RuntimeDispatch
  \/ RuntimeTaskSetUp
  \/ RuntimeShutdown
  \/ \E w \in Worker :
       \/ RuntimeCreateTask(w)
       \/ RuntimeFinishTask(w)
       \/ RuntimeReportCapacity(w)

------------------------------------------------------------------------------
(* mpirun ends every process when one of them crashes.                     *)
Alive == loop # "crash" /\ \A t \in Task : thread[t].pc # "crash"

MainThreadStep(w) == Alive /\ MainStep(w) /\ UNCHANGED <<runtimeVars, awaiting>>

(* The creations under way, so that no more than MaxTask are asked for.    *)
UnderWay == {u \in Task : thread[u].pc \in {"lock", "reply"}}
CreationLeft == next_task_id + Cardinality(UnderWay) <= MaxTask       \* bound

TaskCreates(t) ==
  /\ Alive
  /\ CreateStep(t)
  /\ thread[t].pc = "body" => CreationLeft
  /\ UNCHANGED <<runtimeVars, awaiting>>

TaskFinishes(t) == Alive /\ FinishStep(t) /\ UNCHANGED <<runtimeVars, awaiting>>

Next ==
  \/ Alive /\ RuntimeStep
  \/ \E w \in Worker : MainThreadStep(w)
  \/ \E t \in Task : TaskCreates(t) \/ TaskFinishes(t)

Spec == Init /\ [][Next]_vars

(* The operating system runs every process and every thread; run and the   *)
(* main threads poll for ever, and the code of a task comes to its end, as *)
(* long as the process is not about to exit.                               *)
UpOn(t) == \A w \in Worker : thread[t].host = w => main[w].pc # "down"

Fairness ==
  /\ WF_vars(Alive /\ RuntimeStep)
  /\ \A w \in Worker : WF_vars(MainThreadStep(w))
  /\ \A t \in Task : WF_vars(UpOn(t) /\ (TaskCreates(t) \/ TaskFinishes(t)))

FairSpec == Spec /\ Fairness

------------------------------------------------------------------------------
(* The capacity account of the runtime bounds what really happens on the   *)
(* workers: started and not yet finished tasks, those waiting for their    *)
(* variables, and those whose start is still on its way.                   *)
Busy(w) ==
  {t \in Task : thread[t].host = w /\ thread[t].pc # "ended"}
    \cup (IF main[w].pc \in {"req_lock", "req_count", "req_data"} THEN {main[w].task} ELSE {})
    \cup {net[<<0, w>>][i].task : i \in Tagged(0, w, "RUN_TASK")}

CapacityRespected == \A w \in Worker : Cardinality(Busy(w)) <= Capacity

(* No task is handed out before the worker it was created on knows it:     *)
(* whoever asks that worker for its variables, or writes them back, finds  *)
(* an entry in created_tasks (a missing one would be a null pointer).      *)
OriginKnowsTask ==
  \A t \in Task \ {Root} : node[t] # 0 => t \in known[origin_id(t)]

(* What handle_create_task takes for the acknowledgement of the task it    *)
(* just created is not the next request of another thread of that worker.  *)
AckMatches ==
  awaiting # 0 /\ Arrived(awaiting, 0, "CREATE_TASK") =>
    LET m == Matched(awaiting, 0, "CREATE_TASK") IN
      m.part = "ack" /\ m.task = next_task_id - 1

(* The reply to a thread that creates a task is never taken by the main    *)
(* thread, which would not know what to do with it.                        *)
ReplyReachesThread ==
  \A w \in Worker : ~Received(w, "CREATE_TASK")

(* The id a thread is given is that of the task it asked for.              *)
IdReachesCreator ==
  \A t \in Task :
    thread[t].pc = "reply" /\ Arrived(0, thread[t].host, "CREATE_TASK") =>
      parent_id[Matched(0, thread[t].host, "CREATE_TASK").task] = t

(* The write-backs of a worker do not run into each other: each head is    *)
(* followed by the changes of the same task, so they are applied to the    *)
(* memory they are meant for.  WriteBacks(s, d) are those of s which d has *)
(* not applied, by their places in the channel; 0 is the one whose head    *)
(* the main thread of d has taken.                                         *)
HeadTaken(s, d) == main[d].pc \in {"wb_lock", "wb_recv"} /\ main[d].peer = s

WriteBacks(s, d) ==
  Tagged(s, d, "WRITE_MEMORY") \cup (IF HeadTaken(s, d) THEN {0} ELSE {})

WriteBack(s, d, i) ==
  IF i = 0 THEN Msg("WRITE_MEMORY", "task", main[d].task) ELSE net[<<s, d>>][i]

Follows(s, d, i, j) == i < j /\ \A k \in WriteBacks(s, d) : k <= i \/ j <= k

WriteBackIntact ==
  \A s, d \in Worker : \A j \in WriteBacks(s, d) :
    LET m == WriteBack(s, d, j) IN
      IF m.part = "task"
      THEN \A i \in WriteBacks(s, d) : Follows(s, d, i, j) =>
             WriteBack(s, d, i).part = "data" \/ WriteBack(s, d, i).task \notin Captures
      ELSE \E i \in WriteBacks(s, d) :
             Follows(s, d, i, j) /\ WriteBack(s, d, i) = [m EXCEPT !.part = "task"]

(* The answer to a request of variables is the answer to that request.     *)
ReplyMatches ==
  \A w \in Worker :
    main[w].pc \in {"req_count", "req_data"} /\ Arrived(main[w].peer, w, "REQUEST_MEMORY") =>
      LET m == Matched(main[w].peer, w, "REQUEST_MEMORY") IN
        m.part = (IF main[w].pc = "req_count" THEN "count" ELSE "data") /\ m.task = main[w].task

(* A task the runtime counts as finished has its results at its origin, or *)
(* on the way there; if MPI does not buffer them they are at the origin.   *)
HasResults(t) == t \in Captures /\ Remote(t)

OnTheWay(t) ==
  LET s == thread[t].host
      d == thread[t].origin
  IN  \E i \in WriteBacks(s, d) : WriteBack(s, d, i).task = t

ResultsKept ==
  \A t \in Task : finished[t] /\ HasResults(t) =>
    t \in merged \/ (t \notin Synchronous /\ OnTheWay(t))

------------------------------------------------------------------------------
AllDown == loop = "exit" /\ \A w \in Worker : main[w].pc = "down"

(* How a worker can be stuck.  A task thread took the message that the     *)
(* main thread had seen before it got the lock:                            *)
ProbeLost(w) == main[w].pc = "recv" /\ ~Arrived(main[w].peer, w, main[w].tag)

(* a task thread holds the lock, waiting for an answer of a runtime that   *)
(* has already shut down:                                                  *)
CreatorStranded(w) ==
  loop = "exit" /\ \E t \in Task : thread[t].pc = "reply" /\ thread[t].host = w

(* two main threads wait for variables of each other:                      *)
RequestsCross(w) ==
  /\ main[w].pc \in {"req_count", "req_data"}
  /\ main[main[w].peer].pc \in {"req_count", "req_data"}
  /\ main[main[w].peer].peer = w

(* or a main thread waits for variables, or for the rest of a write-back,  *)
(* of a process that is down.                                              *)
PeerGone(w) ==
  /\ main[w].pc \in {"req_count", "req_data", "wb_recv"}
  /\ main[main[w].peer].pc = "down"
  /\ ~Arrived(main[w].peer, w, main[w].tag)

(* And how the runtime process can be: it missed the end of the last task. *)
EndMissed ==
  loop = "run" /\ ~children_finished[Root] /\ \A t \in created_tasks : finished[t]

(* A flat program comes to its end unless a worker is stuck in one of the  *)
(* first two ways: nothing else can stop it.                               *)
EndsOrStuck ==
  <>[](AllDown \/ ~Alive \/ \E w \in Worker : ProbeLost(w) \/ CreatorStranded(w))

(* For a nested program the others add to them, and there is no more.      *)
NestedEndsOrStuck ==
  <>[](\/ AllDown \/ ~Alive \/ EndMissed
       \/ \E w \in Worker :
            ProbeLost(w) \/ CreatorStranded(w) \/ RequestsCross(w) \/ PeerGone(w))

(* The runtime process never waits in vain for an acknowledgement.         *)
AckArrives == (awaiting # 0) ~> (awaiting = 0 \/ ~Alive)

(* A message that the main thread has seen is there when it receives.      *)
ProbeHolds == \A w \in Worker : ~ProbeLost(w)

(* When the program has ended, the results of the finished tasks are where *)
(* the root task looks for them.                                           *)
ResultsArrive ==
  AllDown => \A t \in Task : finished[t] /\ HasResults(t) => t \in merged
=============================================================================
