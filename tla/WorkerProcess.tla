---------------------------- MODULE WorkerProcess ----------------------------
(***************************************************************************)
(* A worker process: its main thread, which polls for messages             *)
(* (runtime/src/Receiver.cpp, Worker.cpp), the threads of the tasks it     *)
(* runs, and mpi_receive_lock between them.                                *)
(*                                                                         *)
(* A task's thread does what its code asks of the Worker: create tasks,    *)
(* then handle_finish_task.  A process whose main thread has left run may  *)
(* exit at any moment, and until then its task threads may go on.          *)
(***************************************************************************)
EXTENDS Network

CONSTANTS
  Captures,     \* the tasks that have variables to transfer
  Synchronous   \* those whose variables are too large for MPI to buffer

ASSUME CapturesAssumption == Captures \subseteq Task \ {Root}
ASSUME SynchronousAssumption == Synchronous \subseteq Captures

VARIABLES
  main,       \* the main thread of each worker
  mutex,      \* who holds mpi_receive_lock of each worker
  known,      \* Worker::created_tasks
  thread,     \* the thread of each task
  merged      \* history: the tasks whose changes were written at their origin

workerVars == <<main, mutex, known, thread, merged>>

Free == -1
MainThread == -2

MainPC == {"setup", "poll", "lock", "recv", "req_lock", "req_count", "req_data",
           "answer", "wb_lock", "wb_recv", "down"}
ThreadPC == {"none", "body", "lock", "reply", "data", "sending", "free", "finish",
             "ended", "crash"}

WorkerTypeOK ==
  /\ NetworkTypeOK
  /\ main \in [Worker -> [pc : MainPC, peer : Node, tag : Tag \cup {"NO_MESSAGE"},
                          task : Task]]
  /\ mutex \in [Worker -> Task \cup {Free, MainThread}]
  /\ known \in [Worker -> SUBSET Task]
  /\ thread \in [Task -> [pc : ThreadPC, host : Node, origin : Node]]
  /\ merged \subseteq Task

At(pc) == [pc |-> pc, peer |-> 0, tag |-> "NO_MESSAGE", task |-> Root]

WorkerInit ==
  /\ NetworkInit
  /\ main = [w \in Worker |-> At("setup")]
  /\ mutex = [w \in Worker |-> Free]
  /\ known = [w \in Worker |-> {}]
  /\ thread = [t \in Task |-> [pc |-> "none", host |-> 0, origin |-> 0]]
  /\ merged = {}

------------------------------------------------------------------------------
(* The main thread.                                                        *)

WorkerSetup(w) ==
  /\ main[w].pc = "setup"
  /\ main' = [main EXCEPT ![w] = At("poll")]
  /\ Send(w, 0, Msg("REPORT_CAPACITY", "none", Root))
  /\ UNCHANGED <<mutex, known, thread, merged>>

(* receive_message looks for a message before it takes the lock ...        *)
Probe(w) ==
  /\ main[w].pc = "poll"
  /\ \E s \in Node :
       /\ net[<<s, w>>] # << >>
       /\ main' = [main EXCEPT ![w] = [pc |-> "lock", peer |-> s,
                                       tag |-> Head(net[<<s, w>>]).tag, task |-> Root]]
  /\ UNCHANGED <<net, mutex, known, thread, merged>>

(* ... and posts the receive of the source and tag it saw once it has it.  *)
LockAndPost(w) ==
  /\ main[w].pc = "lock"
  /\ mutex[w] = Free
  /\ mutex' = [mutex EXCEPT ![w] = MainThread]
  /\ main' = [main EXCEPT ![w].pc = "recv"]
  /\ UNCHANGED <<net, known, thread, merged>>

(* The posted receive completes, the lock is released, and the handler of  *)
(* the message takes over.                                                 *)
Received(w, tag) ==
  /\ main[w].pc = "recv"
  /\ main[w].tag = tag
  /\ Arrived(main[w].peer, w, tag)

incoming(w) == Matched(main[w].peer, w, main[w].tag)

Consume(w) == Receive(main[w].peer, w, main[w].tag)

Unlock(w) == mutex' = [mutex EXCEPT ![w] = Free]

(* The thread is created, then the capacity is reported to the runtime,    *)
(* which ignores it.                                                       *)
start_thread(w, t, origin) ==
  /\ thread' = [thread EXCEPT ![t] = [pc |-> "body", host |-> w, origin |-> origin]]
  /\ main' = [main EXCEPT ![w] = At("poll")]
  /\ ReceiveAndSend(main[w].peer, w, main[w].tag, 0,
                    <<Msg("REPORT_CAPACITY", "none", Root)>>)

(* The root task, a task without variables and a task created here start   *)
(* at once; for any other one, the variables are requested first.          *)
handle_run_task(w) ==
  /\ Received(w, "RUN_TASK")
  /\ Unlock(w)
  /\ LET m == incoming(w) IN
       IF m.task \notin Captures \/ m.origin = w
       THEN start_thread(w, m.task, m.origin)
       ELSE /\ main' = [main EXCEPT ![w] = [pc |-> "req_lock", peer |-> m.origin,
                                            tag |-> "REQUEST_MEMORY", task |-> m.task]]
            /\ Consume(w)
            /\ UNCHANGED thread
  /\ UNCHANGED <<known, merged>>

request_memory_lock(w) ==
  /\ main[w].pc = "req_lock"
  /\ mutex[w] = Free
  /\ mutex' = [mutex EXCEPT ![w] = MainThread]
  /\ main' = [main EXCEPT ![w].pc = "req_count"]
  /\ Send(w, main[w].peer, Msg("REQUEST_MEMORY", "task", main[w].task))
  /\ UNCHANGED <<known, thread, merged>>

(* The number of variables, then their sizes and contents as one part.     *)
request_memory_count(w) ==
  /\ main[w].pc = "req_count"
  /\ Arrived(main[w].peer, w, "REQUEST_MEMORY")
  /\ main' = [main EXCEPT ![w].pc = "req_data"]
  /\ Consume(w)
  /\ UNCHANGED <<mutex, known, thread, merged>>

request_memory_data(w) ==
  /\ main[w].pc = "req_data"
  /\ Arrived(main[w].peer, w, "REQUEST_MEMORY")
  /\ Unlock(w)
  /\ start_thread(w, main[w].task, main[w].peer)
  /\ UNCHANGED <<known, merged>>

DataBeforeCount(w) ==                              \* mutation of handle_request_memory
  /\ Received(w, "REQUEST_MEMORY")
  /\ Unlock(w)
  /\ LET t == incoming(w).task IN
       ReceiveAndSend(main[w].peer, w, "REQUEST_MEMORY", main[w].peer,
                      <<Msg("REQUEST_MEMORY", "data", t), Msg("REQUEST_MEMORY", "count", t)>>)
  /\ main' = [main EXCEPT ![w] = At("poll")]
  /\ UNCHANGED <<known, thread, merged>>

handle_request_memory(w) ==
  /\ Received(w, "REQUEST_MEMORY")
  /\ Unlock(w)
  /\ LET t == incoming(w).task IN
       /\ ReceiveAndSend(main[w].peer, w, "REQUEST_MEMORY", main[w].peer,
            <<Msg("REQUEST_MEMORY", "count", t), Msg("REQUEST_MEMORY", "data", t)>>)
       /\ main' = [main EXCEPT ![w] = IF t \in Synchronous
                                      THEN [@ EXCEPT !.pc = "answer", !.task = t]
                                      ELSE At("poll")]
  /\ UNCHANGED <<known, thread, merged>>

(* A send that MPI does not buffer returns when its message is received.   *)
Taken(s, d, m) == \A i \in 1 .. Len(net[<<s, d>>]) : net[<<s, d>>][i] # m

handle_request_memory_return(w) ==
  /\ main[w].pc = "answer"
  /\ Taken(w, main[w].peer, Msg("REQUEST_MEMORY", "data", main[w].task))
  /\ main' = [main EXCEPT ![w] = At("poll")]
  /\ UNCHANGED <<net, mutex, known, thread, merged>>

(* The head of a write-back names the task ...                             *)
handle_write_memory(w) ==
  /\ Received(w, "WRITE_MEMORY")
  /\ Unlock(w)
  /\ main' = [main EXCEPT ![w] = [pc |-> "wb_lock", peer |-> main[w].peer,
                                  tag |-> "WRITE_MEMORY", task |-> incoming(w).task]]
  /\ Consume(w)
  /\ UNCHANGED <<known, thread, merged>>

(* ... and the changes of its variables, if it has any, follow.            *)
write_memory_lock(w) ==
  /\ main[w].pc = "wb_lock"
  /\ mutex[w] = Free
  /\ IF main[w].task \in Captures
     THEN /\ mutex' = [mutex EXCEPT ![w] = MainThread]
          /\ main' = [main EXCEPT ![w].pc = "wb_recv"]
     ELSE /\ main' = [main EXCEPT ![w] = At("poll")]
          /\ UNCHANGED mutex
  /\ UNCHANGED <<net, known, thread, merged>>

write_memory_apply(w) ==
  /\ main[w].pc = "wb_recv"
  /\ Arrived(main[w].peer, w, "WRITE_MEMORY")
  /\ Consume(w)
  /\ Unlock(w)
  /\ merged' = merged \cup {main[w].task}
  /\ main' = [main EXCEPT ![w] = At("poll")]
  /\ UNCHANGED <<known, thread>>

handle_shutdown(w) ==
  /\ Received(w, "SHUTDOWN")
  /\ Consume(w)
  /\ Unlock(w)
  /\ main' = [main EXCEPT ![w] = At("down")]
  /\ UNCHANGED <<known, thread, merged>>

------------------------------------------------------------------------------
(* The thread of a task.                                                   *)

Steps(t, pc) == thread[t].pc = pc
Becomes(t, pc) == thread' = [thread EXCEPT ![t].pc = pc]

(* The code of the task reaches a point where it creates another one.      *)
create_task(t) ==
  /\ Steps(t, "body")
  /\ t \in Creators
  /\ Becomes(t, "lock")
  /\ UNCHANGED <<net, main, mutex, known, merged>>

CreateUnlocked(t) ==                               \* mutation of handle_create_task_send
  /\ Steps(t, "lock")
  /\ Becomes(t, "reply")
  /\ Send(thread[t].host, 0, Msg("CREATE_TASK", "task", t))
  /\ UNCHANGED <<main, mutex, known, merged>>

handle_create_task_send(t) ==
  /\ Steps(t, "lock")
  /\ mutex[thread[t].host] = Free
  /\ mutex' = [mutex EXCEPT ![thread[t].host] = t]
  /\ Becomes(t, "reply")
  /\ Send(thread[t].host, 0, Msg("CREATE_TASK", "task", t))
  /\ UNCHANGED <<main, known, merged>>

(* The new task gets its id, is entered in created_tasks, and the runtime  *)
(* is told so.                                                             *)
ReplyWithoutAck(t) ==                              \* mutation of handle_create_task_reply
  LET w == thread[t].host IN
  /\ Steps(t, "reply")
  /\ Arrived(0, w, "CREATE_TASK")
  /\ known' = [known EXCEPT ![w] = @ \cup {Matched(0, w, "CREATE_TASK").task}]
  /\ Receive(0, w, "CREATE_TASK")
  /\ mutex' = [mutex EXCEPT ![w] = Free]
  /\ Becomes(t, "body")
  /\ UNCHANGED <<main, merged>>

handle_create_task_reply(t) ==
  LET w  == thread[t].host
      id == Matched(0, w, "CREATE_TASK").task
  IN
  /\ Steps(t, "reply")
  /\ Arrived(0, w, "CREATE_TASK")
  /\ known' = [known EXCEPT ![w] = @ \cup {id}]
  /\ ReceiveAndSend(0, w, "CREATE_TASK", 0, <<Msg("CREATE_TASK", "ack", id)>>)
  /\ mutex' = [mutex EXCEPT ![w] = Free]
  /\ Becomes(t, "body")
  /\ UNCHANGED <<main, merged>>

(* The root task and a task that ran where it was created have nothing to  *)
(* write back.                                                             *)
Remote(t) == t # Root /\ thread[t].origin # thread[t].host

DataFirst(t) ==                                    \* mutation of write_memory_head
  /\ Steps(t, "body")
  /\ Remote(t)
  /\ Becomes(t, IF t \in Captures THEN "data" ELSE "free")
  /\ Send(thread[t].host, thread[t].origin, Msg("WRITE_MEMORY", "data", t))
  /\ UNCHANGED <<main, mutex, known, merged>>

write_memory_head(t) ==
  /\ Steps(t, "body")
  /\ Remote(t)
  /\ Becomes(t, IF t \in Captures THEN "data" ELSE "free")
  /\ Send(thread[t].host, thread[t].origin, Msg("WRITE_MEMORY", "task", t))
  /\ UNCHANGED <<main, mutex, known, merged>>

write_memory_data(t) ==
  /\ Steps(t, "data")
  /\ Becomes(t, IF t \in Synchronous THEN "sending" ELSE "free")
  /\ Send(thread[t].host, thread[t].origin, Msg("WRITE_MEMORY", "data", t))
  /\ UNCHANGED <<main, mutex, known, merged>>

write_memory_return(t) ==
  /\ Steps(t, "sending")
  /\ Taken(thread[t].host, thread[t].origin, Msg("WRITE_MEMORY", "data", t))
  /\ Becomes(t, "free")
  /\ UNCHANGED <<net, main, mutex, known, merged>>

(* The memory of a task that has variables was allocated for this run; for *)
(* one that has none the pointer was never assigned, and to free it may    *)
(* abort the process.                                                      *)
WithoutWriteBack(t) ==                             \* mutation of WrittenBack
  t # Root /\ thread[t].pc \in {"body", "free"}

WrittenBack(t) ==
  Steps(t, "free") \/ (Steps(t, "body") /\ t # Root /\ ~Remote(t))

free_after_run(t) ==
  /\ WrittenBack(t)
  /\ \/ Becomes(t, "finish")
     \/ t \notin Captures /\ Becomes(t, "crash")
  /\ UNCHANGED <<net, main, mutex, known, merged>>

FinishesNext(t) == Steps(t, "finish") \/ (Steps(t, "body") /\ t = Root)

FinishTwice(t) ==                                  \* mutation of handle_finish_task_send
  /\ FinishesNext(t)
  /\ Becomes(t, IF thread[t].pc = "body" THEN "finish" ELSE "ended")
  /\ Send(thread[t].host, 0, Msg("FINISH_TASK", "task", t))
  /\ UNCHANGED <<main, mutex, known, merged>>

handle_finish_task_send(t) ==
  /\ FinishesNext(t)
  /\ Becomes(t, "ended")
  /\ Send(thread[t].host, 0, Msg("FINISH_TASK", "task", t))
  /\ UNCHANGED <<main, mutex, known, merged>>

------------------------------------------------------------------------------
MainStep(w) ==
  \/ WorkerSetup(w)
  \/ Probe(w)
  \/ LockAndPost(w)
  \/ handle_run_task(w)
  \/ request_memory_lock(w)
  \/ request_memory_count(w)
  \/ request_memory_data(w)
  \/ handle_request_memory(w)
  \/ handle_request_memory_return(w)
  \/ handle_write_memory(w)
  \/ write_memory_lock(w)
  \/ write_memory_apply(w)
  \/ handle_shutdown(w)

CreateStep(t) ==
  \/ create_task(t)
  \/ handle_create_task_send(t)
  \/ handle_create_task_reply(t)

FinishStep(t) ==
  \/ write_memory_head(t)
  \/ write_memory_data(t)
  \/ write_memory_return(t)
  \/ free_after_run(t)
  \/ handle_finish_task_send(t)
=============================================================================
