---------------------------- MODULE TaskingProofs ----------------------------
(***************************************************************************)
(* The whole program implements the runtime process with arbitrary         *)
(* workers, and its protocol of task creation and termination is right:    *)
(* for any workers, capacity, number of tasks and any program.             *)
(***************************************************************************)
EXTENDS Tasking, RuntimeProofs, NetworkProofs

Requesting == {"req_lock", "req_count", "req_data"}
Locking == {"recv", "req_count", "req_data", "wb_recv"}
Active == {"body", "lock", "data", "sending", "free", "finish", "crash"}

(* The lock is held by whoever is where only its holder can be: the main   *)
(* thread in a receive, or the one task that waits for the reply.          *)
LockInv ==
  \A w \in Worker :
    /\ mutex[w] = MainThread <=> main[w].pc \in Locking
    /\ \A t \in Task : mutex[w] = t <=> thread[t].pc = "reply" /\ thread[t].host = w

(* A thread runs on the worker its task was handed to, and the runtime     *)
(* takes no task for finished whose thread has not ended.                  *)
ThreadInv ==
  \A t \in Task :
    /\ IF thread[t].pc = "none" THEN thread[t].host = 0
       ELSE node[t] = thread[t].host /\ node[t] # 0
    /\ finished[t] => thread[t].pc = "ended"
    /\ thread[t].pc \in {"lock", "reply"} => t \in Creators

(* In an exchange of several messages the main thread receives their tag.  *)
TagKept(w) ==
  /\ main[w].pc \in Requesting => main[w].tag = "REQUEST_MEMORY"
  /\ main[w].pc \in {"wb_lock", "wb_recv"} => main[w].tag = "WRITE_MEMORY"

(* A main thread requests variables for a task that was handed to its      *)
(* worker and has no thread yet.                                           *)
RequestInv ==
  \A w \in Worker :
    /\ TagKept(w)
    /\ main[w].pc \in Requesting =>
         node[main[w].task] = w /\ thread[main[w].task].pc = "none"

(* What each counted message says is true as long as it is under way:      *)
(* the order to run a task, the report of its end,                         *)
RunTrue(s, d, m) ==
  /\ s = 0 /\ d # 0 /\ m.part = "task"
  /\ node[m.task] = d
  /\ thread[m.task].pc = "none"
  /\ main[d].pc \in Requesting => main[d].task # m.task

FinishTrue(s, d, m) ==
  /\ s # 0 /\ d = 0 /\ m.part = "task"
  /\ thread[m.task].pc = "ended" /\ thread[m.task].host = s
  /\ ~finished[m.task]

(* the request of the task that holds the lock, the acknowledgement of the *)
(* task last created, and the reply that carries its id.                   *)
RequestTrue(s, d, m) ==
  s # 0 /\ d = 0 /\ m.part = "task" /\ mutex[s] = m.task

AckTrue(s, d, m) ==
  /\ s # 0 /\ d = 0 /\ m.part = "ack"
  /\ awaiting = s /\ m.task = next_task_id - 1 /\ m.task \in known[s]

ReplyTrue(s, d, m) ==
  /\ s = 0 /\ d # 0 /\ m.part = "id"
  /\ awaiting = d /\ m.task = next_task_id - 1
  /\ mutex[d] \in Task /\ parent_id[m.task] = mutex[d]

MessageTrue(s, d, m) ==
  /\ m.tag = "RUN_TASK" => RunTrue(s, d, m)
  /\ m.tag = "FINISH_TASK" => FinishTrue(s, d, m)
  /\ m.tag = "CREATE_TASK" => RequestTrue(s, d, m) \/ AckTrue(s, d, m) \/ ReplyTrue(s, d, m)

MessageInv ==
  \A s, d \in Node : \A m \in CountedIn(net[<<s, d>>]) : MessageTrue(s, d, m)

OrderInv == \A s, d \in Node : Ordered(net[<<s, d>>])

(* While the runtime process awaits an acknowledgement, either the reply   *)
(* is under way and nobody at the worker asks for a task, or the           *)
(* acknowledgement is under way.                                           *)
Creating(s, d) == \E m \in CountedIn(net[<<s, d>>]) : m.tag = "CREATE_TASK"
Acknowledged(s, d) == \E m \in CountedIn(net[<<s, d>>]) : IsAck(m)

AwaitInv ==
  awaiting # 0 =>
    /\ loop = "run"
    /\ next_task_id > 1 /\ node[next_task_id - 1] = 0
    /\ \/ Creating(0, awaiting) /\ ~Creating(awaiting, 0)
       \/ ~Creating(0, awaiting) /\ Acknowledged(awaiting, 0)

(* Every task but the one whose creation is under way is known where it    *)
(* was created.                                                            *)
KnownInv ==
  \A t \in created_tasks \ {Root} :
    \/ t \in known[node[parent_id[t]]]
    \/ awaiting = node[parent_id[t]] /\ t = next_task_id - 1

ProtocolInv ==
  /\ LockInv /\ ThreadInv /\ RequestInv /\ MessageInv /\ OrderInv
  /\ AwaitInv /\ KnownInv

TaskingInv == RuntimeInv /\ TaskingTypeOK /\ ProtocolInv

------------------------------------------------------------------------------
(* Facts about names and types, for the steps below to cite.               *)
LEMMA Names ==
  /\ Root \in Task /\ 0 \in Node /\ 0 \notin Worker
  /\ \A w \in Worker : w \in Node /\ w # 0
  /\ \A n \in Node : n # 0 => n \in Worker
  /\ Free \notin Task /\ MainThread \notin Task /\ Free # MainThread
BY WorkerAssumption, MaxTaskAssumption DEF Root, Task, Node, Free, MainThread

(* The types, one fact per variable of the workers.                        *)
LEMMA WorkerTypes ==
  ASSUME WorkerTypeOK
  PROVE  /\ NetworkTypeOK
         /\ main \in [Worker -> [pc : MainPC, peer : Node, tag : Tag \cup {"NO_MESSAGE"},
                                 task : Task]]
         /\ mutex \in [Worker -> Task \cup {Free, MainThread}]
         /\ known \in [Worker -> SUBSET Task]
         /\ thread \in [Task -> [pc : ThreadPC, host : Node, origin : Node]]
         /\ merged \subseteq Task
BY DEF WorkerTypeOK

(* A message without an origin is a message, with the fields it was given. *)
LEMMA MsgType ==
  ASSUME NEW tag \in Tag, NEW part \in Part, NEW t \in Task
  PROVE  /\ Msg(tag, part, t) \in Message
         /\ Msg(tag, part, t).tag = tag /\ Msg(tag, part, t).part = part
         /\ Msg(tag, part, t).task = t
BY Names DEF Msg, Message

(* The types of the fields of a message.                                   *)
LEMMA MessageFields ==
  ASSUME NEW m \in Message
  PROVE  m.tag \in Tag /\ m.part \in Part /\ m.task \in Task /\ m.origin \in Node
BY DEF Message

(* A counted message of a channel is a message.                            *)
LEMMA CountedAreMessages ==
  ASSUME NetworkTypeOK, NEW s \in Node, NEW d \in Node, NEW m \in CountedIn(net[<<s, d>>])
  PROVE  m \in Message /\ m.task \in Task
<1>1. net[<<s, d>>] \in Seq(Message)
  BY DEF NetworkTypeOK
<1>2. m \in Message
  BY <1>1, ElementOfSeq DEF CountedIn, InChannel
<1> QED BY <1>2, MessageFields

------------------------------------------------------------------------------
(* Most steps of the workers do not concern the protocol: no counted       *)
(* message is sent or received, the holder of a lock changes only together *)
(* with the place of the main thread, and a task's thread goes on with its *)
(* code.                                                                   *)
QuietThread(t) ==
  /\ thread'[t].host = thread[t].host
  /\ thread'[t].pc = thread[t].pc \/ {thread[t].pc, thread'[t].pc} \subseteq Active
  /\ thread'[t].pc = "lock" => thread[t].pc = "lock" \/ t \in Creators

QuietMain(w) ==
  /\ TagKept(w)'
  /\ main'[w].pc \in Requesting => main[w].pc \in Requesting /\ main'[w].task = main[w].task
  /\ mutex'[w] = MainThread <=> main'[w].pc \in Locking
  /\ \A t \in Task : mutex'[w] = t <=> mutex[w] = t

Quiet ==
  /\ UNCHANGED <<created_tasks, parent_id, finished, node, next_task_id, awaiting, known>>
  /\ awaiting # 0 => loop' = loop
  /\ \A s, d \in Node : Unseen(net[<<s, d>>], net'[<<s, d>>])
  /\ \A t \in Task : QuietThread(t)
  /\ \A w \in Worker : QuietMain(w)

(* A quiet step keeps every part of the protocol.                          *)
LEMMA QuietStep ==
  ASSUME TaskingInv, Quiet
  PROVE  ProtocolInv'
<1>0. /\ LockInv /\ ThreadInv /\ RequestInv /\ MessageInv /\ OrderInv
      /\ AwaitInv /\ KnownInv /\ WorkerTypeOK /\ NetworkTypeOK /\ awaiting \in Node
  BY WorkerTypes DEF TaskingInv, ProtocolInv, TaskingTypeOK
<1>1. /\ node' = node /\ finished' = finished /\ parent_id' = parent_id
      /\ awaiting # 0 => loop' = loop
      /\ next_task_id' = next_task_id /\ created_tasks' = created_tasks
      /\ awaiting' = awaiting /\ known' = known
  BY DEF Quiet
<1>2. \A s, d \in Node : Unseen(net[<<s, d>>], net'[<<s, d>>])
  BY DEF Quiet
<1>3. \A t \in Task : QuietThread(t)
  BY DEF Quiet
<1>4. \A w \in Worker : QuietMain(w)
  BY DEF Quiet
<1>5. LockInv'
  <2> SUFFICES ASSUME NEW w \in Worker
               PROVE  /\ mutex'[w] = MainThread <=> main'[w].pc \in Locking
                      /\ \A t \in Task : mutex'[w] = t
                           <=> thread'[t].pc = "reply" /\ thread'[t].host = w
    BY DEF LockInv
  <2>1. mutex'[w] = MainThread <=> main'[w].pc \in Locking
    BY <1>4 DEF QuietMain
  <2>2. ASSUME NEW t \in Task
        PROVE  mutex'[w] = t <=> thread'[t].pc = "reply" /\ thread'[t].host = w
    BY <1>0, <1>3, <1>4 DEF LockInv, QuietThread, QuietMain, Active
  <2> QED BY <2>1, <2>2
<1>6. ThreadInv'
  BY <1>0, <1>1, <1>3 DEF ThreadInv, QuietThread, Active
<1>7. RequestInv'
  BY <1>0, <1>1, <1>3, <1>4, WorkerTypes DEF RequestInv, QuietThread, QuietMain, Active
<1>8. \A s, d \in Node : CountedIn(net'[<<s, d>>]) = CountedIn(net[<<s, d>>])
  BY <1>2 DEF Unseen
<1>9. MessageInv'
  <2> SUFFICES ASSUME NEW s \in Node, NEW d \in Node, NEW m \in CountedIn(net[<<s, d>>])
               PROVE  MessageTrue(s, d, m)'
    BY <1>8 DEF MessageInv
  <2>1. MessageTrue(s, d, m) /\ m.task \in Task
    BY <1>0, CountedAreMessages DEF MessageInv
  <2>2. RunTrue(s, d, m) => RunTrue(s, d, m)'
    BY <1>1, <1>3, <1>4, <2>1, Names DEF RunTrue, QuietThread, QuietMain, Active
  <2>3. FinishTrue(s, d, m) => FinishTrue(s, d, m)'
    BY <1>1, <1>3, <2>1 DEF FinishTrue, QuietThread, Active
  <2>4. RequestTrue(s, d, m) => RequestTrue(s, d, m)'
    BY <1>4, <2>1, Names DEF RequestTrue, QuietMain
  <2>5. AckTrue(s, d, m) => AckTrue(s, d, m)'
    BY <1>1 DEF AckTrue
  <2>6. ReplyTrue(s, d, m) => ReplyTrue(s, d, m)'
    BY <1>1, <1>4, Names DEF ReplyTrue, QuietMain
  <2> QED BY <2>1, <2>2, <2>3, <2>4, <2>5, <2>6 DEF MessageTrue
<1>10. OrderInv'
  BY <1>0, <1>2 DEF OrderInv, Unseen
<1>11. AwaitInv'
  BY <1>0, <1>1, <1>8, Names DEF AwaitInv, Creating, Acknowledged
<1>12. KnownInv'
  BY <1>0, <1>1 DEF KnownInv
<1> QED BY <1>5, <1>6, <1>7, <1>9, <1>10, <1>11, <1>12 DEF ProtocolInv

(* No counted message moves where the channels are not touched.            *)
LEMMA NetUnchanged ==
  ASSUME NetworkTypeOK, net' = net
  PROVE  NetworkTypeOK' /\ \A s, d \in Node : Unseen(net[<<s, d>>], net'[<<s, d>>])
BY DEF NetworkTypeOK, Unseen

(* The quiet steps of a main thread.                                       *)
QuietMainStep(w) ==
  \/ WorkerSetup(w) \/ Probe(w) \/ LockAndPost(w)
  \/ request_memory_lock(w) \/ request_memory_count(w)
  \/ handle_request_memory(w) \/ handle_request_memory_return(w)
  \/ handle_write_memory(w) \/ write_memory_lock(w) \/ write_memory_apply(w)
  \/ handle_shutdown(w)

(* What a main thread has received is a message of the tag it posted for.  *)
LEMMA IncomingType ==
  ASSUME WorkerTypeOK, NEW w \in Worker, NEW tag, Received(w, tag)
  PROVE  /\ main[w].pc = "recv" /\ main[w].tag = tag /\ main[w].peer \in Node
         /\ Arrived(main[w].peer, w, tag)
         /\ incoming(w) = Matched(main[w].peer, w, tag)
         /\ incoming(w) \in Message /\ incoming(w).task \in Task /\ incoming(w).origin \in Node
<1>1. main[w].peer \in Node /\ NetworkTypeOK
  BY WorkerTypes
<1>2. main[w].pc = "recv" /\ main[w].tag = tag /\ Arrived(main[w].peer, w, tag)
  BY DEF Received
<1>3. Matched(main[w].peer, w, tag) \in Message
  BY <1>1, <1>2, Names, WithoutEffect
<1> QED BY <1>1, <1>2, <1>3, MessageFields DEF incoming

(* The quiet steps of a main thread move no counted message.               *)
LEMMA QuietMainNet ==
  ASSUME WorkerTypeOK, RequestInv, NEW w \in Worker, QuietMainStep(w)
  PROVE  NetworkTypeOK' /\ \A s, d \in Node : Unseen(net[<<s, d>>], net'[<<s, d>>])
<1> DEFINE Goal == NetworkTypeOK' /\ \A s, d \in Node : Unseen(net[<<s, d>>], net'[<<s, d>>])
<1>0. /\ NetworkTypeOK /\ w \in Node /\ 0 \in Node /\ Root \in Task
      /\ main[w].peer \in Node /\ main[w].task \in Task
  BY WorkerTypes, Names
<1> HIDE DEF Goal
<1>1. ASSUME WorkerSetup(w) PROVE Goal
  <2>1. /\ Msg("REPORT_CAPACITY", "none", Root) \in Message
        /\ Msg("REPORT_CAPACITY", "none", Root).tag \notin Counted
    BY <1>0, MsgType DEF Tag, Part, Counted
  <2> QED BY <1>0, <1>1, <2>1, SendEffect DEF WorkerSetup, Goal
<1>2. ASSUME UNCHANGED net PROVE Goal
  BY <1>0, <1>2, NetUnchanged DEF Goal
<1>3. ASSUME request_memory_lock(w) PROVE Goal
  <2>1. /\ Msg("REQUEST_MEMORY", "task", main[w].task) \in Message
        /\ Msg("REQUEST_MEMORY", "task", main[w].task).tag \notin Counted
    BY <1>0, MsgType DEF Tag, Part, Counted
  <2> QED BY <1>0, <1>3, <2>1, SendEffect DEF request_memory_lock, Goal
<1>4. ASSUME NEW tag, tag \notin Counted, Arrived(main[w].peer, w, tag),
             Receive(main[w].peer, w, tag)
      PROVE  Goal
  BY <1>0, <1>4, ReceiveEffect DEF Goal
<1>5. ASSUME handle_request_memory(w) PROVE Goal
  <2> DEFINE t == incoming(w).task
             m == Msg("REQUEST_MEMORY", "count", t)
             n == Msg("REQUEST_MEMORY", "data", t)
  <2>1. /\ main[w].peer \in Node /\ Arrived(main[w].peer, w, "REQUEST_MEMORY") /\ t \in Task
        /\ ReceiveAndSend(main[w].peer, w, "REQUEST_MEMORY", main[w].peer, <<m, n>>)
    BY <1>5, IncomingType DEF handle_request_memory
  <2>2. m \in Message /\ n \in Message /\ m.tag = "REQUEST_MEMORY" /\ n.tag = "REQUEST_MEMORY"
    BY <2>1, MsgType DEF Tag, Part
  <2>3. {"REQUEST_MEMORY", m.tag, n.tag} \cap Counted = {}
    BY <2>2 DEF Counted
  <2> HIDE DEF m, n, t
  <2> QED BY <1>0, <2>1, <2>2, <2>3, AnswerUnseen DEF Goal
<1>6. ASSUME request_memory_count(w) PROVE Goal
  <2>1. main[w].tag = "REQUEST_MEMORY"
    BY <1>6 DEF RequestInv, TagKept, Requesting, request_memory_count
  <2> QED BY <1>4, <1>6, <2>1 DEF request_memory_count, Consume, Counted
<1>7. ASSUME write_memory_apply(w) PROVE Goal
  <2>1. main[w].tag = "WRITE_MEMORY"
    BY <1>7 DEF RequestInv, TagKept, write_memory_apply
  <2> QED BY <1>4, <1>7, <2>1 DEF write_memory_apply, Consume, Counted
<1>8. ASSUME handle_write_memory(w) \/ handle_shutdown(w) PROVE Goal
  <2>1. \E tag \in {"WRITE_MEMORY", "SHUTDOWN"} : Received(w, tag) /\ Consume(w)
    BY <1>8 DEF handle_write_memory, handle_shutdown
  <2> QED BY <1>4, <2>1 DEF Received, Consume, Counted
<1>9. ASSUME \/ Probe(w) \/ LockAndPost(w) \/ handle_request_memory_return(w)
           \/ write_memory_lock(w) PROVE Goal
  BY <1>2, <1>9 DEF Probe, LockAndPost, handle_request_memory_return, write_memory_lock
<1> QED
  BY <1>1, <1>3, <1>5, <1>6, <1>7, <1>8, <1>9 DEF QuietMainStep, Goal

MainState == [pc : MainPC, peer : Node, tag : Tag \cup {"NO_MESSAGE"}, task : Task]

(* A main thread that goes on to r and leaves the lock to h, as it must.   *)
LEMMA MainGoesOn ==
  ASSUME WorkerTypeOK, LockInv, RequestInv, NEW w \in Worker,
         NEW r \in MainState, NEW h,
         main' = [main EXCEPT ![w] = r], mutex' = [mutex EXCEPT ![w] = h],
         \/ h = mutex[w]
         \/ h \in {Free, MainThread} /\ mutex[w] \in {Free, MainThread},
         h = MainThread <=> r.pc \in Locking,
         r.pc \in Requesting => r.tag = "REQUEST_MEMORY",
         r.pc \in {"wb_lock", "wb_recv"} => r.tag = "WRITE_MEMORY",
         r.pc \in Requesting => main[w].pc \in Requesting /\ r.task = main[w].task
  PROVE  /\ \A v \in Worker : QuietMain(v)
         /\ main' \in [Worker -> MainState]
         /\ mutex' \in [Worker -> Task \cup {Free, MainThread}]
<1>1. /\ main \in [Worker -> MainState]
      /\ mutex \in [Worker -> Task \cup {Free, MainThread}]
  BY WorkerTypes DEF MainState
<1>2. /\ main'[w] = r /\ mutex'[w] = h
      /\ \A v \in Worker : v # w => main'[v] = main[v] /\ mutex'[v] = mutex[v]
  BY <1>1
<1>3. main' \in [Worker -> MainState]
  BY <1>1
<1>4. mutex' \in [Worker -> Task \cup {Free, MainThread}]
  BY <1>1
<1>5. ASSUME NEW v \in Worker, v # w PROVE QuietMain(v)
  BY <1>2, <1>5 DEF QuietMain, LockInv, RequestInv, TagKept
<1>6. QuietMain(w)
  <2>1. TagKept(w)'
    BY <1>2 DEF TagKept
  <2>2. \A t \in Task : t # Free /\ t # MainThread
    BY Names
  <2> QED BY <1>2, <2>1, <2>2 DEF QuietMain
<1> QED BY <1>3, <1>4, <1>5, <1>6

(* The lock and the place of the main thread in the quiet steps.           *)
LEMMA QuietMainLock ==
  ASSUME TaskingInv, NEW w \in Worker, QuietMainStep(w)
  PROVE  /\ UNCHANGED <<known, thread>>
         /\ \A v \in Worker : QuietMain(v)
         /\ WorkerTypeOK'
<1>0. /\ WorkerTypeOK /\ LockInv /\ RequestInv /\ NetworkTypeOK
      /\ main \in [Worker -> MainState]
      /\ mutex \in [Worker -> Task \cup {Free, MainThread}]
      /\ merged \subseteq Task
  BY WorkerTypes DEF TaskingInv, ProtocolInv, TaskingTypeOK, MainState
<1>p. /\ main[w].pc \in MainPC /\ main[w].peer \in Node /\ main[w].task \in Task
      /\ main[w].tag \in Tag \cup {"NO_MESSAGE"}
      /\ mutex[w] = MainThread <=> main[w].pc \in Locking
      /\ main[w].pc \in Requesting => main[w].tag = "REQUEST_MEMORY"
      /\ main[w].pc \in {"wb_lock", "wb_recv"} => main[w].tag = "WRITE_MEMORY"
      /\ Free # MainThread
  BY <1>0, Names DEF MainState, LockInv, RequestInv, TagKept
<1>a. /\ \A pc \in MainPC : At(pc) \in MainState /\ At(pc).pc = pc
      /\ \A pc \in MainPC : [main[w] EXCEPT !.pc = pc] \in MainState
      /\ \A pc, peer, tag, task :
           pc \in MainPC /\ peer \in Node /\ tag \in Tag /\ task \in Task =>
             [pc |-> pc, peer |-> peer, tag |-> tag, task |-> task] \in MainState
  BY <1>0, Names DEF At, MainState
<1>m. main' = main => main' = [main EXCEPT ![w] = main[w]]
  BY <1>0
<1>k. mutex' = mutex => mutex' = [mutex EXCEPT ![w] = mutex[w]]
  BY <1>0
<1>1. UNCHANGED <<known, thread>>
  BY DEF QuietMainStep, WorkerSetup, Probe, LockAndPost, request_memory_lock,
     request_memory_count, handle_request_memory, handle_request_memory_return,
     handle_write_memory, write_memory_lock, write_memory_apply, handle_shutdown
<1> DEFINE Goal == /\ \A v \in Worker : QuietMain(v)
                   /\ main' \in [Worker -> MainState]
                   /\ mutex' \in [Worker -> Task \cup {Free, MainThread}]
                   /\ merged' \subseteq Task
(* The record the main thread goes on with, and the holder of its lock.    *)
<1> DEFINE Fits(r, h) ==
             /\ r \in MainState
             /\ main' = [main EXCEPT ![w] = r] /\ mutex' = [mutex EXCEPT ![w] = h]
             /\ \/ h = mutex[w]
                \/ h \in {Free, MainThread} /\ mutex[w] \in {Free, MainThread}
             /\ h = MainThread <=> r.pc \in Locking
             /\ r.pc \in Requesting => r.tag = "REQUEST_MEMORY"
             /\ r.pc \in {"wb_lock", "wb_recv"} => r.tag = "WRITE_MEMORY"
             /\ r.pc \in Requesting => main[w].pc \in Requesting /\ r.task = main[w].task
             /\ merged' \subseteq Task
<1>g. ASSUME NEW r, NEW h, Fits(r, h) PROVE Goal
  BY <1>0, <1>g, MainGoesOn
<1> HIDE DEF Goal, Fits
<1>2. ASSUME WorkerSetup(w) PROVE Goal
  <2>1. Fits(At("poll"), mutex[w])
    BY <1>0, <1>p, <1>a, <1>k, <1>2 DEF Fits, WorkerSetup, MainPC, Locking, Requesting
  <2> QED BY <1>g, <2>1
<1>3. ASSUME Probe(w) PROVE Goal
  <2>1. PICK s \in Node : net[<<s, w>>] # << >> /\
          main' = [main EXCEPT ![w] = [pc |-> "lock", peer |-> s,
                                       tag |-> Head(net[<<s, w>>]).tag, task |-> Root]]
    BY <1>3 DEF Probe
  <2>2. net[<<s, w>>] \in Seq(Message)
    BY <1>0, Names DEF NetworkTypeOK
  <2>3. Head(net[<<s, w>>]).tag \in Tag
    BY <2>1, <2>2, HeadTailProperties, MessageFields
  <2> DEFINE r == [pc |-> "lock", peer |-> s, tag |-> Head(net[<<s, w>>]).tag, task |-> Root]
  <2>4. r \in MainState
    BY <1>a, <2>3, Names DEF MainPC
  <2>5. Fits(r, mutex[w])
    BY <1>0, <1>p, <1>k, <1>3, <2>1, <2>4 DEF Fits, Probe, Locking, Requesting
  <2> QED BY <1>g, <2>5
<1>4. ASSUME LockAndPost(w) PROVE Goal
  <2>1. Fits([main[w] EXCEPT !.pc = "recv"], MainThread)
    BY <1>0, <1>p, <1>a, <1>4 DEF Fits, LockAndPost, MainPC, Locking, Requesting, MainState
  <2> QED BY <1>g, <2>1
<1>5. ASSUME request_memory_lock(w) PROVE Goal
  <2>1. Fits([main[w] EXCEPT !.pc = "req_count"], MainThread)
    BY <1>0, <1>p, <1>a, <1>5 DEF Fits, request_memory_lock, MainPC, Locking, Requesting, MainState
  <2> QED BY <1>g, <2>1
<1>6. ASSUME request_memory_count(w) PROVE Goal
  <2>1. Fits([main[w] EXCEPT !.pc = "req_data"], mutex[w])
    BY <1>0, <1>p, <1>a, <1>k, <1>6
       DEF Fits, request_memory_count, MainPC, Locking, Requesting, MainState
  <2> QED BY <1>g, <2>1
<1>7. ASSUME handle_request_memory(w) PROVE Goal
  <2>1. incoming(w).task \in Task /\ main[w].pc = "recv"
    BY <1>0, <1>7, IncomingType DEF handle_request_memory
  <2> DEFINE t == incoming(w).task
             r == IF t \in Synchronous THEN [main[w] EXCEPT !.pc = "answer", !.task = t]
                                       ELSE At("poll")
  <2>2. r \in MainState /\ r.pc \in {"answer", "poll"}
    BY <1>0, <1>a, <2>1 DEF MainPC, MainState
  <2>3. main' = [main EXCEPT ![w] = r] /\ mutex' = [mutex EXCEPT ![w] = Free]
    BY <1>0, <1>7 DEF handle_request_memory, Unlock
  <2>4. merged' \subseteq Task
    BY <1>0, <1>7 DEF handle_request_memory
  <2> HIDE DEF r
  <2>5. Fits(r, Free)
    BY <1>p, <2>1, <2>2, <2>3, <2>4 DEF Fits, Locking, Requesting
  <2> QED BY <1>g, <2>5
<1>8. ASSUME handle_request_memory_return(w) PROVE Goal
  <2>1. Fits(At("poll"), mutex[w])
    BY <1>0, <1>p, <1>a, <1>k, <1>8
       DEF Fits, handle_request_memory_return, MainPC, Locking, Requesting
  <2> QED BY <1>g, <2>1
<1>9. ASSUME handle_write_memory(w) PROVE Goal
  <2>1. incoming(w).task \in Task /\ main[w].pc = "recv"
    BY <1>0, <1>9, IncomingType DEF handle_write_memory
  <2> DEFINE r == [pc |-> "wb_lock", peer |-> main[w].peer,
                   tag |-> "WRITE_MEMORY", task |-> incoming(w).task]
  <2>2. r \in MainState
    BY <1>a, <1>p, <2>1 DEF MainPC, Tag
  <2>3. Fits(r, Free)
    BY <1>0, <1>p, <1>9, <2>1, <2>2 DEF Fits, handle_write_memory, Unlock, Locking, Requesting
  <2> QED BY <1>g, <2>3
<1>10. ASSUME write_memory_lock(w) /\ main[w].task \in Captures PROVE Goal
  <2>1. Fits([main[w] EXCEPT !.pc = "wb_recv"], MainThread)
    BY <1>0, <1>p, <1>a, <1>10 DEF Fits, write_memory_lock, MainPC, Locking, Requesting, MainState
  <2> QED BY <1>g, <2>1
<1>11. ASSUME write_memory_lock(w) /\ main[w].task \notin Captures PROVE Goal
  <2>1. Fits(At("poll"), mutex[w])
    BY <1>0, <1>p, <1>a, <1>k, <1>11 DEF Fits, write_memory_lock, MainPC, Locking, Requesting
  <2> QED BY <1>g, <2>1
<1>12. ASSUME write_memory_apply(w) PROVE Goal
  <2>1. Fits(At("poll"), Free)
    BY <1>0, <1>p, <1>a, <1>12 DEF Fits, write_memory_apply, Unlock, MainPC, Locking, Requesting
  <2> QED BY <1>g, <2>1
<1>13. ASSUME handle_shutdown(w) PROVE Goal
  <2>1. Fits(At("down"), Free)
    BY <1>0, <1>p, <1>a, <1>13
    DEF Fits, handle_shutdown, Received, Unlock, MainPC, Locking, Requesting
  <2> QED BY <1>g, <2>1
<1>14. Goal
  BY <1>2, <1>3, <1>4, <1>5, <1>6, <1>7, <1>8, <1>9, <1>10, <1>11, <1>12, <1>13
     DEF QuietMainStep
<1>15. NetworkTypeOK'
  BY <1>0, QuietMainNet
<1>16. /\ known' \in [Worker -> SUBSET Task]
       /\ thread' \in [Task -> [pc : ThreadPC, host : Node, origin : Node]]
  BY <1>0, <1>1, WorkerTypes
<1> QED
  BY <1>1, <1>14, <1>15, <1>16 DEF WorkerTypeOK, Goal, MainState

(* The quiet steps of a task's thread.                                     *)
QuietTaskStep(t) ==
  \/ create_task(t)
  \/ write_memory_head(t) \/ write_memory_data(t) \/ write_memory_return(t)
  \/ free_after_run(t)

(* The types of the fields of a thread.                                    *)
LEMMA ThreadTypes ==
  ASSUME WorkerTypeOK, NEW t \in Task
  PROVE  thread[t].pc \in ThreadPC /\ thread[t].host \in Node /\ thread[t].origin \in Node
BY WorkerTypes

(* The thread of one task goes on, those of the others stay where they     *)
(* are.                                                                    *)
LEMMA BecomesEffect ==
  ASSUME WorkerTypeOK, NEW t \in Task, NEW pc \in ThreadPC, Becomes(t, pc)
  PROVE  /\ thread' \in [Task -> [pc : ThreadPC, host : Node, origin : Node]]
         /\ thread'[t].pc = pc /\ thread'[t].host = thread[t].host
         /\ \A u \in Task : u # t => thread'[u] = thread[u]
<1>1. thread \in [Task -> [pc : ThreadPC, host : Node, origin : Node]]
  BY WorkerTypes
<1>2. thread' = [thread EXCEPT ![t] = [thread[t] EXCEPT !.pc = pc]]
  BY DEF Becomes
<1> QED BY <1>1, <1>2

(* They are quiet: no counted message, no lock, and the thread stays on    *)
(* its worker.                                                             *)
LEMMA QuietTask ==
  ASSUME TaskingInv, NEW t \in Task, QuietTaskStep(t), UNCHANGED <<runtimeVars, awaiting>>
  PROVE  Quiet /\ WorkerTypeOK'
<1>0. /\ WorkerTypeOK /\ LockInv /\ RequestInv /\ NetworkTypeOK
  BY WorkerTypes DEF TaskingInv, ProtocolInv, TaskingTypeOK
<1>1. UNCHANGED <<main, mutex, known, merged>>
  BY DEF QuietTaskStep, create_task, write_memory_head, write_memory_data,
         write_memory_return, free_after_run
<1>2. NetworkTypeOK' /\ \A s, d \in Node : Unseen(net[<<s, d>>], net'[<<s, d>>])
  <2>1. \/ UNCHANGED net
        \/ \E part \in {"task", "data"} :
             Send(thread[t].host, thread[t].origin, Msg("WRITE_MEMORY", part, t))
    BY DEF QuietTaskStep, create_task, write_memory_head, write_memory_data,
           write_memory_return, free_after_run
  <2>2. CASE UNCHANGED net
    BY <1>0, <2>2, NetUnchanged
  <2>3. ASSUME NEW part \in {"task", "data"},
               Send(thread[t].host, thread[t].origin, Msg("WRITE_MEMORY", part, t))
        PROVE  NetworkTypeOK' /\ \A s, d \in Node : Unseen(net[<<s, d>>], net'[<<s, d>>])
    <3>1. /\ Msg("WRITE_MEMORY", part, t) \in Message
          /\ Msg("WRITE_MEMORY", part, t).tag \notin Counted
      BY MsgType DEF Tag, Part, Counted
    <3>2. thread[t].host \in Node /\ thread[t].origin \in Node
      BY <1>0, ThreadTypes
    <3> QED BY <1>0, <2>3, <3>1, <3>2, SendEffect
  <2> QED BY <2>1, <2>2, <2>3
<1>3. /\ thread' \in [Task -> [pc : ThreadPC, host : Node, origin : Node]]
      /\ \A u \in Task : QuietThread(u)
  <2>1. \E pc \in {"lock", "data", "sending", "free", "finish", "crash"} :
           /\ Becomes(t, pc) /\ thread[t].pc \in Active
           /\ pc = "lock" => t \in Creators
    BY DEF QuietTaskStep, create_task, write_memory_head, write_memory_data,
           write_memory_return, free_after_run, WrittenBack, Steps, Active
  <2>2. PICK pc \in {"lock", "data", "sending", "free", "finish", "crash"} :
           /\ Becomes(t, pc) /\ thread[t].pc \in Active
           /\ pc = "lock" => t \in Creators
    BY <2>1
  <2>3. pc \in ThreadPC
    BY DEF ThreadPC
  <2>4. /\ thread' \in [Task -> [pc : ThreadPC, host : Node, origin : Node]]
        /\ thread'[t].pc = pc /\ thread'[t].host = thread[t].host
        /\ \A u \in Task : u # t => thread'[u] = thread[u]
    BY <1>0, <2>2, <2>3, BecomesEffect
  <2> QED BY <2>2, <2>4 DEF QuietThread, Active
<1>4. \A w \in Worker : QuietMain(w)
  BY <1>0, <1>1 DEF QuietMain, LockInv, RequestInv, TagKept
<1>5. WorkerTypeOK'
  BY <1>0, <1>1, <1>2, <1>3, WorkerTypes DEF WorkerTypeOK
<1> QED BY <1>1, <1>2, <1>3, <1>4, <1>5 DEF Quiet, runtimeVars

------------------------------------------------------------------------------
(* The parts of the invariant, for the steps below to cite.                *)
LEMMA Parts ==
  ASSUME TaskingInv
  PROVE  /\ RuntimeInv /\ RuntimeTypeOK /\ TablesAgree
         /\ WorkerTypeOK /\ NetworkTypeOK /\ awaiting \in Node
         /\ LockInv /\ ThreadInv /\ RequestInv /\ MessageInv /\ OrderInv
         /\ AwaitInv /\ KnownInv
BY WorkerTypes DEF TaskingInv, ProtocolInv, TaskingTypeOK, RuntimeInv

Msgs(s, d) == CountedIn(net[<<s, d>>])

(* The counted messages after one of them was sent,                        *)
LEMMA CountedSend ==
  ASSUME NetworkTypeOK, OrderInv, NEW s \in Node, NEW d \in Node, NEW m \in Message,
         Send(s, d, m), m.tag \in Counted,
         \A x \in Msgs(s, d) : ~SameSubject(x, m),
         IsAck(m) => \A x \in Msgs(s, d) : ~IsRequest(x)
  PROVE  /\ NetworkTypeOK' /\ OrderInv'
         /\ Msgs(s, d)' = Msgs(s, d) \cup {m}
         /\ \A x, y \in Node : <<x, y>> # <<s, d>> => Msgs(x, y)' = Msgs(x, y)
<1>1. /\ NetworkTypeOK'
      /\ net'[<<s, d>>] = Append(net[<<s, d>>], m)
      /\ \A x, y \in Node : <<x, y>> # <<s, d>> => net'[<<x, y>>] = net[<<x, y>>]
  BY SendEffect
<1>2. net[<<s, d>>] \in Seq(Message)
  BY DEF NetworkTypeOK
<1>3. /\ CountedIn(net'[<<s, d>>]) = CountedIn(net[<<s, d>>]) \cup {m}
      /\ Ordered(net'[<<s, d>>])
  BY <1>1, <1>2, AppendOne DEF OrderInv, Msgs
<1>4. OrderInv'
  BY <1>1, <1>3 DEF OrderInv
<1> QED BY <1>1, <1>3, <1>4 DEF Msgs

(* after the first of a tag was received,                                  *)
LEMMA CountedWithout ==
  ASSUME NetworkTypeOK, OrderInv, NEW s \in Node, NEW d \in Node, NEW tag \in Counted,
         Arrived(s, d, tag)
  PROVE  /\ Matched(s, d, tag) \in Msgs(s, d) /\ Matched(s, d, tag).tag = tag
         /\ Ordered(Without(s, d, tag)) /\ Without(s, d, tag) \in Seq(Message)
         /\ CountedIn(Without(s, d, tag)) \subseteq Msgs(s, d)
         /\ \A x \in Msgs(s, d) : x # Matched(s, d, tag) => x \in CountedIn(Without(s, d, tag))
         /\ \A x \in CountedIn(Without(s, d, tag)) : ~SameSubject(x, Matched(s, d, tag))
<1> DEFINE q == net[<<s, d>>]
           m == Matched(s, d, tag)
           r == Without(s, d, tag)
<1>1. /\ q \in Seq(Message) /\ r \in Seq(Message)
      /\ m \in Message /\ m.tag = tag /\ m \in InChannel(q)
      /\ InChannel(r) \subseteq InChannel(q)
      /\ \A x \in InChannel(q) : x # m => x \in InChannel(r)
      /\ Ordered(q) => Ordered(r)
      /\ Ordered(q) /\ tag \in Counted => \A x \in CountedIn(r) : ~SameSubject(x, m)
  BY WithoutEffect
<1>2. Ordered(q)
  BY DEF OrderInv
<1> HIDE DEF q, m, r
<1> QED BY <1>1, <1>2 DEF q, m, r, Msgs, CountedIn

(* After a receive of a counted message no other of its subject is left.   *)
LEMMA CountedReceive ==
  ASSUME NetworkTypeOK, OrderInv, NEW s \in Node, NEW d \in Node, NEW tag \in Counted,
         Arrived(s, d, tag), Receive(s, d, tag)
  PROVE  /\ NetworkTypeOK' /\ OrderInv'
         /\ Msgs(s, d)' \subseteq Msgs(s, d)
         /\ \A x \in Msgs(s, d) : x # Matched(s, d, tag) => x \in Msgs(s, d)'
         /\ \A x \in Msgs(s, d)' : ~SameSubject(x, Matched(s, d, tag))
         /\ \A x, y \in Node : <<x, y>> # <<s, d>> => Msgs(x, y)' = Msgs(x, y)
<1>1. /\ NetworkTypeOK'
      /\ net'[<<s, d>>] = Without(s, d, tag)
      /\ \A x, y \in Node : <<x, y>> # <<s, d>> => net'[<<x, y>>] = net[<<x, y>>]
  BY ReceiveEffect
<1>2. /\ Ordered(Without(s, d, tag))
      /\ CountedIn(Without(s, d, tag)) \subseteq Msgs(s, d)
      /\ \A x \in Msgs(s, d) : x # Matched(s, d, tag) => x \in CountedIn(Without(s, d, tag))
      /\ \A x \in CountedIn(Without(s, d, tag)) : ~SameSubject(x, Matched(s, d, tag))
  BY CountedWithout
<1>3. OrderInv'
  BY <1>1, <1>2 DEF OrderInv
<1> HIDE DEF Msgs
<1>4. Msgs(s, d)' = CountedIn(Without(s, d, tag))
  BY <1>1 DEF Msgs
<1>5. \A x, y \in Node : <<x, y>> # <<s, d>> => Msgs(x, y)' = Msgs(x, y)
  BY <1>1 DEF Msgs
<1> QED BY <1>1, <1>2, <1>3, <1>4, <1>5

(* and after it was answered.                                              *)
LEMMA CountedAnswer ==
  ASSUME NetworkTypeOK, OrderInv, NEW s \in Node, NEW d \in Node, NEW tag \in Counted,
         Arrived(s, d, tag), NEW r \in Node, NEW m \in Message, <<s, d>> # <<d, r>>,
         ReceiveAndSend(s, d, tag, r, <<m>>),
         m.tag \in Counted => \A x \in Msgs(d, r) : ~SameSubject(x, m),
         IsAck(m) => \A x \in Msgs(d, r) : ~IsRequest(x)
  PROVE  /\ NetworkTypeOK' /\ OrderInv'
         /\ Msgs(s, d)' \subseteq Msgs(s, d)
         /\ \A x \in Msgs(s, d) : x # Matched(s, d, tag) => x \in Msgs(s, d)'
         /\ \A x \in Msgs(s, d)' : ~SameSubject(x, Matched(s, d, tag))
         /\ Msgs(d, r)' = Msgs(d, r) \cup (IF m.tag \in Counted THEN {m} ELSE {})
         /\ \A x, y \in Node : <<x, y>> \notin {<<s, d>>, <<d, r>>} =>
              Msgs(x, y)' = Msgs(x, y)
<1>1. /\ NetworkTypeOK'
      /\ net'[<<s, d>>] = Without(s, d, tag)
      /\ net'[<<d, r>>] = Append(net[<<d, r>>], m)
      /\ \A x, y \in Node : <<x, y>> \notin {<<s, d>>, <<d, r>>} =>
           net'[<<x, y>>] = net[<<x, y>>]
  BY AnswerEffect
<1>2. /\ Ordered(Without(s, d, tag))
      /\ CountedIn(Without(s, d, tag)) \subseteq Msgs(s, d)
      /\ \A x \in Msgs(s, d) : x # Matched(s, d, tag) => x \in CountedIn(Without(s, d, tag))
      /\ \A x \in CountedIn(Without(s, d, tag)) : ~SameSubject(x, Matched(s, d, tag))
  BY CountedWithout
<1>3. net[<<d, r>>] \in Seq(Message)
  BY DEF NetworkTypeOK
<1>4. /\ CountedIn(net'[<<d, r>>]) =
           CountedIn(net[<<d, r>>]) \cup (IF m.tag \in Counted THEN {m} ELSE {})
      /\ Ordered(net'[<<d, r>>])
  BY <1>1, <1>3, AppendOne DEF OrderInv, Msgs
<1>5. OrderInv'
  BY <1>1, <1>2, <1>4 DEF OrderInv
<1>6. Msgs(s, d)' = CountedIn(Without(s, d, tag))
  BY <1>1 DEF Msgs
<1>7. Msgs(d, r)' = Msgs(d, r) \cup (IF m.tag \in Counted THEN {m} ELSE {})
  BY <1>4 DEF Msgs
<1>8. \A x, y \in Node : <<x, y>> \notin {<<s, d>>, <<d, r>>} => Msgs(x, y)' = Msgs(x, y)
  BY <1>1 DEF Msgs
<1> QED BY <1>1, <1>2, <1>5, <1>6, <1>7, <1>8

------------------------------------------------------------------------------
(* A step that loses no message of task creation keeps the acknowledgement *)
(* coming.                                                                 *)
LEMMA AwaitKept ==
  ASSUME AwaitInv, awaiting \in Node, UNCHANGED <<loop, next_task_id, node, awaiting>>,
         \A x, y \in Node : \A m \in Msgs(x, y) : m.tag # "RUN_TASK" => m \in Msgs(x, y)',
         \A x, y \in Node : \A m \in Msgs(x, y)' : m.tag = "CREATE_TASK" => m \in Msgs(x, y)
  PROVE  AwaitInv'
<1>1. 0 \in Node
  BY Names
<1>2. \A x, y \in Node : Creating(x, y)' <=> Creating(x, y)
  BY DEF Creating, Msgs
<1>3. \A x, y \in Node : Acknowledged(x, y)' <=> Acknowledged(x, y)
  BY DEF Acknowledged, Msgs, IsAck
<1> QED BY <1>1, <1>2, <1>3 DEF AwaitInv

(* The thread of a task starts on the worker the task was handed to, which *)
(* holds the lock, with the order to run it received.                      *)
LEMMA StartKeeps ==
  ASSUME TaskingInv, NEW w \in Worker, NEW t \in Task, NEW o \in Node,
         node[t] = w, thread[t].pc = "none", mutex[w] = MainThread,
         thread' = [thread EXCEPT ![t] = [pc |-> "body", host |-> w, origin |-> o]],
         main' = [main EXCEPT ![w] = At("poll")], mutex' = [mutex EXCEPT ![w] = Free],
         UNCHANGED <<runtimeVars, awaiting, known, merged>>,
         NetworkTypeOK', OrderInv',
         \A x, y \in Node : Msgs(x, y)' \subseteq Msgs(x, y),
         \A x, y \in Node : \A m \in Msgs(x, y) : m.tag # "RUN_TASK" => m \in Msgs(x, y)',
         \A m \in Msgs(0, w)' : ~(m.tag = "RUN_TASK" /\ m.task = t)
  PROVE  ProtocolInv' /\ WorkerTypeOK'
<1>0. /\ WorkerTypeOK /\ NetworkTypeOK /\ LockInv /\ ThreadInv /\ RequestInv /\ MessageInv
      /\ AwaitInv /\ KnownInv /\ awaiting \in Node
  BY Parts
<1>t. /\ main \in [Worker -> MainState]
      /\ mutex \in [Worker -> Task \cup {Free, MainThread}]
      /\ thread \in [Task -> [pc : ThreadPC, host : Node, origin : Node]]
  BY <1>0, WorkerTypes DEF MainState
<1>r. UNCHANGED <<created_tasks, parent_id, finished, node, next_task_id, loop, awaiting, known>>
  BY DEF runtimeVars
<1>n. At("poll") \in MainState /\ At("poll").pc = "poll" /\ w \in Node /\ w # 0
  BY Names DEF At, MainState, MainPC
<1>1. /\ thread'[t].pc = "body" /\ thread'[t].host = w
      /\ \A u \in Task : u # t => thread'[u] = thread[u]
      /\ thread' \in [Task -> [pc : ThreadPC, host : Node, origin : Node]]
  BY <1>t, <1>n DEF ThreadPC
<1>2. /\ main'[w].pc = "poll" /\ mutex'[w] = Free
      /\ \A v \in Worker : v # w => main'[v] = main[v] /\ mutex'[v] = mutex[v]
      /\ main' \in [Worker -> MainState]
      /\ mutex' \in [Worker -> Task \cup {Free, MainThread}]
  BY <1>t, <1>n
<1>3. WorkerTypeOK'
  BY <1>0, <1>1, <1>2, WorkerTypes DEF WorkerTypeOK, MainState
<1>4. LockInv'
  <2> SUFFICES ASSUME NEW v \in Worker
               PROVE  /\ mutex'[v] = MainThread <=> main'[v].pc \in Locking
                      /\ \A u \in Task : mutex'[v] = u
                           <=> thread'[u].pc = "reply" /\ thread'[u].host = v
    BY DEF LockInv
  <2>1. mutex'[v] = MainThread <=> main'[v].pc \in Locking
    BY <1>0, <1>2, Names DEF LockInv, Locking
  <2>2. ASSUME NEW u \in Task
        PROVE  mutex'[v] = u <=> thread'[u].pc = "reply" /\ thread'[u].host = v
    <3>1. mutex[v] = u <=> thread[u].pc = "reply" /\ thread[u].host = v
      BY <1>0 DEF LockInv
    <3>2. mutex[w] # u /\ Free # u
      BY Names
    <3> QED BY <3>1, <3>2, <1>1, <1>2
  <2> QED BY <2>1, <2>2
<1>5. ThreadInv'
  BY <1>0, <1>1, <1>r, <1>n DEF ThreadInv
<1>6. RequestInv'
  <2> SUFFICES ASSUME NEW v \in Worker
               PROVE  /\ TagKept(v)'
                      /\ main'[v].pc \in Requesting =>
                           node[main'[v].task] = v /\ thread'[main'[v].task].pc = "none"
    BY <1>r DEF RequestInv
  <2>1. CASE v = w
    BY <2>1, <1>2 DEF TagKept, Requesting
  <2>2. CASE v # w
    BY <2>2, <1>0, <1>1, <1>2, <1>t DEF RequestInv, TagKept, MainState
  <2> QED BY <2>1, <2>2
<1>7. MessageInv'
  <2> SUFFICES ASSUME NEW s \in Node, NEW d \in Node, NEW m \in Msgs(s, d), m \in Msgs(s, d)'
               PROVE  MessageTrue(s, d, m)'
    BY DEF MessageInv, Msgs
  <2>1. MessageTrue(s, d, m) /\ m.task \in Task
    BY <1>0, CountedAreMessages DEF MessageInv, Msgs
  <2>2. m.tag = "RUN_TASK" /\ RunTrue(s, d, m) => RunTrue(s, d, m)'
    BY <1>1, <1>2, <1>r, <2>1, Names DEF RunTrue, Requesting
  <2>3. FinishTrue(s, d, m) => FinishTrue(s, d, m)'
    BY <1>1, <1>r, <2>1 DEF FinishTrue
  <2>4. RequestTrue(s, d, m) => RequestTrue(s, d, m)'
    BY <1>2, <2>1, Names DEF RequestTrue
  <2>5. AckTrue(s, d, m) => AckTrue(s, d, m)'
    BY <1>r DEF AckTrue
  <2>6. ReplyTrue(s, d, m) => ReplyTrue(s, d, m)'
    BY <1>2, <1>r, Names DEF ReplyTrue
  <2> QED BY <2>1, <2>2, <2>3, <2>4, <2>5, <2>6 DEF MessageTrue
<1>8. AwaitInv'
  BY <1>0, <1>r, AwaitKept
<1>9. KnownInv'
  BY <1>0, <1>r DEF KnownInv
<1> QED BY <1>3, <1>4, <1>5, <1>6, <1>7, <1>8, <1>9 DEF ProtocolInv

(* The order to run a task, received by the main thread that posted for    *)
(* it, comes from the runtime process.                                     *)
LEMMA RunOrder ==
  ASSUME TaskingInv, NEW w \in Worker, Received(w, "RUN_TASK")
  PROVE  /\ main[w].peer = 0 /\ mutex[w] = MainThread /\ Arrived(0, w, "RUN_TASK")
         /\ incoming(w) = Matched(0, w, "RUN_TASK") /\ main[w].tag = "RUN_TASK"
         /\ incoming(w) \in Msgs(0, w) /\ incoming(w).tag = "RUN_TASK"
         /\ incoming(w).part = "task"
         /\ incoming(w).task \in Task /\ incoming(w).origin \in Node
         /\ node[incoming(w).task] = w /\ thread[incoming(w).task].pc = "none"
<1>0. WorkerTypeOK /\ NetworkTypeOK /\ LockInv /\ MessageInv /\ OrderInv /\ w \in Node
  BY Parts, Names
<1>1. /\ main[w].pc = "recv" /\ main[w].tag = "RUN_TASK" /\ main[w].peer \in Node
      /\ Arrived(main[w].peer, w, "RUN_TASK")
      /\ incoming(w) = Matched(main[w].peer, w, "RUN_TASK")
      /\ incoming(w).task \in Task /\ incoming(w).origin \in Node
  BY <1>0, IncomingType
<1>2. incoming(w) \in Msgs(main[w].peer, w) /\ incoming(w).tag = "RUN_TASK"
  BY <1>0, <1>1, CountedWithout DEF Counted
<1>3. RunTrue(main[w].peer, w, incoming(w))
  BY <1>0, <1>1, <1>2 DEF MessageInv, Msgs, MessageTrue
<1> QED BY <1>0, <1>1, <1>2, <1>3 DEF RunTrue, LockInv, Locking

(* The handler of that order.                                              *)
LEMMA RunTaskStep ==
  ASSUME TaskingInv, NEW w \in Worker, handle_run_task(w), UNCHANGED <<runtimeVars, awaiting>>
  PROVE  ProtocolInv' /\ WorkerTypeOK'
<1> DEFINE m == incoming(w)
<1>0. /\ WorkerTypeOK /\ NetworkTypeOK /\ LockInv /\ ThreadInv /\ RequestInv /\ MessageInv
      /\ OrderInv /\ AwaitInv /\ KnownInv /\ awaiting \in Node
      /\ w \in Node /\ 0 \in Node /\ Root \in Task /\ w # 0
  BY Parts, Names
<1>1. /\ main[w].peer = 0 /\ mutex[w] = MainThread /\ Arrived(0, w, "RUN_TASK")
      /\ m = Matched(0, w, "RUN_TASK") /\ main[w].tag = "RUN_TASK"
      /\ m \in Msgs(0, w) /\ m.tag = "RUN_TASK" /\ m.part = "task"
      /\ m.task \in Task /\ m.origin \in Node
      /\ node[m.task] = w /\ thread[m.task].pc = "none"
  BY RunOrder DEF handle_run_task
<1>2. mutex' = [mutex EXCEPT ![w] = Free] /\ UNCHANGED <<known, merged>>
  BY DEF handle_run_task, Unlock
<1> HIDE DEF m
<1>s. ASSUME NEW x \in Msgs(0, w), x.tag = "RUN_TASK", x.task = m.task PROVE SameSubject(x, m)
  BY <1>0, <1>s, <1>1 DEF MessageInv, MessageTrue, RunTrue, SameSubject, Msgs
<1>3. ASSUME start_thread(w, m.task, m.origin) PROVE ProtocolInv' /\ WorkerTypeOK'
  <2> DEFINE r == Msg("REPORT_CAPACITY", "none", Root)
  <2>1. r \in Message /\ r.tag = "REPORT_CAPACITY"
    BY <1>0, MsgType DEF Tag, Part
  <2>2. ReceiveAndSend(0, w, "RUN_TASK", 0, <<r>>) /\ <<0, w>> # <<w, 0>>
    BY <1>0, <1>1, <1>3 DEF start_thread
  <2> HIDE DEF r
  <2>3. /\ NetworkTypeOK' /\ OrderInv'
        /\ Msgs(0, w)' \subseteq Msgs(0, w)
        /\ \A x \in Msgs(0, w) : x # m => x \in Msgs(0, w)'
        /\ \A x \in Msgs(0, w)' : ~SameSubject(x, m)
        /\ Msgs(w, 0)' = Msgs(w, 0)
        /\ \A x, y \in Node : <<x, y>> \notin {<<0, w>>, <<w, 0>>} => Msgs(x, y)' = Msgs(x, y)
    <3>1. r.tag \notin Counted /\ ~IsAck(r) /\ "RUN_TASK" \in Counted
      BY <2>1 DEF Counted, IsAck
    <3>2. /\ NetworkTypeOK' /\ OrderInv'
          /\ Msgs(0, w)' \subseteq Msgs(0, w)
          /\ \A x \in Msgs(0, w) : x # Matched(0, w, "RUN_TASK") => x \in Msgs(0, w)'
          /\ \A x \in Msgs(0, w)' : ~SameSubject(x, Matched(0, w, "RUN_TASK"))
          /\ Msgs(w, 0)' = Msgs(w, 0) \cup (IF r.tag \in Counted THEN {r} ELSE {})
          /\ \A x, y \in Node : <<x, y>> \notin {<<0, w>>, <<w, 0>>} => Msgs(x, y)' = Msgs(x, y)
      BY <1>0, <1>1, <2>1, <2>2, <3>1, CountedAnswer
    <3> QED BY <1>1, <3>1, <3>2
  <2>4. \A x, y \in Node : Msgs(x, y)' \subseteq Msgs(x, y)
    BY <2>3
  <2>5. \A x, y \in Node : \A n \in Msgs(x, y) : n.tag # "RUN_TASK" => n \in Msgs(x, y)'
    BY <1>1, <2>3
  <2>6. \A n \in Msgs(0, w)' : ~(n.tag = "RUN_TASK" /\ n.task = m.task)
    BY <1>s, <2>3
  <2>7. /\ thread' = [thread EXCEPT ![m.task] = [pc |-> "body", host |-> w, origin |-> m.origin]]
        /\ main' = [main EXCEPT ![w] = At("poll")]
    BY <1>3 DEF start_thread
  <2> QED BY <1>1, <1>2, <2>3, <2>4, <2>5, <2>6, <2>7, StartKeeps
<1>4. ASSUME main' = [main EXCEPT ![w] = [pc |-> "req_lock", peer |-> m.origin,
                                          tag |-> "REQUEST_MEMORY", task |-> m.task]],
             Consume(w), UNCHANGED thread
      PROVE  ProtocolInv' /\ WorkerTypeOK'
  <2>1. Receive(0, w, "RUN_TASK")
    BY <1>1, <1>4 DEF Consume
  <2>2. /\ NetworkTypeOK' /\ OrderInv'
        /\ Msgs(0, w)' \subseteq Msgs(0, w)
        /\ \A x \in Msgs(0, w) : x # m => x \in Msgs(0, w)'
        /\ \A x \in Msgs(0, w)' : ~SameSubject(x, m)
        /\ \A x, y \in Node : <<x, y>> # <<0, w>> => Msgs(x, y)' = Msgs(x, y)
    BY <1>0, <1>1, <2>1, CountedReceive DEF Counted
  <2>3. /\ main \in [Worker -> MainState]
        /\ mutex \in [Worker -> Task \cup {Free, MainThread}]
    BY <1>0, WorkerTypes DEF MainState
  <2>4. /\ main'[w].pc = "req_lock" /\ main'[w].tag = "REQUEST_MEMORY" /\ main'[w].task = m.task
        /\ mutex'[w] = Free
        /\ \A v \in Worker : v # w => main'[v] = main[v] /\ mutex'[v] = mutex[v]
        /\ main' \in [Worker -> MainState]
        /\ mutex' \in [Worker -> Task \cup {Free, MainThread}]
    <3>1. [pc |-> "req_lock", peer |-> m.origin,
           tag |-> "REQUEST_MEMORY", task |-> m.task] \in MainState
      BY <1>1 DEF MainState, MainPC, Tag
    <3> QED BY <1>2, <1>4, <2>3, <3>1
  <2>5. UNCHANGED <<created_tasks, parent_id, finished, node, next_task_id, loop, awaiting,
                    known, thread, merged>>
    BY <1>2, <1>4 DEF runtimeVars
  <2>6. WorkerTypeOK'
    BY <1>0, <2>2, <2>4, <2>5, WorkerTypes DEF WorkerTypeOK, MainState
  <2>7. LockInv'
    BY <1>0, <1>1, <2>4, <2>5, Names DEF LockInv, Locking
  <2>8. ThreadInv'
    BY <1>0, <2>5 DEF ThreadInv
  <2>9. RequestInv'
    BY <1>0, <1>1, <2>4, <2>5 DEF RequestInv, TagKept, Requesting
  <2>10. MessageInv'
    <3>0. \A x, y \in Node : Msgs(x, y)' \subseteq Msgs(x, y)
      BY <2>2
    <3> SUFFICES ASSUME NEW s \in Node, NEW d \in Node, NEW n \in Msgs(s, d), n \in Msgs(s, d)'
                 PROVE  MessageTrue(s, d, n)'
      BY <3>0 DEF MessageInv, Msgs
    <3>1. MessageTrue(s, d, n) /\ n.task \in Task
      BY <1>0, CountedAreMessages DEF MessageInv, Msgs
    <3>2. n.tag = "RUN_TASK" /\ RunTrue(s, d, n) => RunTrue(s, d, n)'
      <4>1. n.tag = "RUN_TASK" /\ s = 0 /\ d = w => n.task # m.task
        BY <1>s, <2>2
      <4> QED BY <4>1, <2>4, <2>5, Names DEF RunTrue
    <3>3. FinishTrue(s, d, n) => FinishTrue(s, d, n)'
      BY <2>5 DEF FinishTrue
    <3>4. RequestTrue(s, d, n) => RequestTrue(s, d, n)'
      BY <1>1, <2>4, <3>1, Names DEF RequestTrue
    <3>5. AckTrue(s, d, n) => AckTrue(s, d, n)'
      BY <2>5 DEF AckTrue
    <3>6. ReplyTrue(s, d, n) => ReplyTrue(s, d, n)'
      BY <1>1, <2>4, <2>5, Names DEF ReplyTrue
    <3> QED BY <3>1, <3>2, <3>3, <3>4, <3>5, <3>6 DEF MessageTrue
  <2>11. AwaitInv'
    <3>1. \A x, y \in Node : \A n \in Msgs(x, y) : n.tag # "RUN_TASK" => n \in Msgs(x, y)'
      BY <1>1, <2>2
    <3>2. \A x, y \in Node : \A n \in Msgs(x, y)' : n.tag = "CREATE_TASK" => n \in Msgs(x, y)
      BY <2>2
    <3> QED BY <1>0, <2>5, <3>1, <3>2, AwaitKept
  <2>12. KnownInv'
    BY <1>0, <2>5 DEF KnownInv
  <2> QED BY <2>2, <2>6, <2>7, <2>8, <2>9, <2>10, <2>11, <2>12 DEF ProtocolInv
<1> QED BY <1>3, <1>4 DEF handle_run_task, m

(* Where no channel shows a change, no counted message moves.              *)
LEMMA UnseenMsgs ==
  ASSUME OrderInv, \A x, y \in Node : Unseen(net[<<x, y>>], net'[<<x, y>>])
  PROVE  OrderInv' /\ \A x, y \in Node : Msgs(x, y)' = Msgs(x, y)
BY DEF OrderInv, Unseen, Msgs

(* The variables have arrived: the thread starts.                          *)
LEMMA RequestDataStep ==
  ASSUME TaskingInv, NEW w \in Worker, request_memory_data(w), UNCHANGED <<runtimeVars, awaiting>>
  PROVE  ProtocolInv' /\ WorkerTypeOK'
<1> DEFINE t == main[w].task
           p == main[w].peer
           r == Msg("REPORT_CAPACITY", "none", Root)
<1>0. /\ WorkerTypeOK /\ NetworkTypeOK /\ LockInv /\ RequestInv /\ MessageInv /\ OrderInv
      /\ w \in Node /\ 0 \in Node /\ Root \in Task /\ w # 0
  BY Parts, Names
<1>1. t \in Task /\ p \in Node /\ mutex[w] = MainThread
  BY <1>0, WorkerTypes DEF request_memory_data, LockInv, Locking
<1>2. /\ main[w].tag = "REQUEST_MEMORY" /\ node[t] = w /\ thread[t].pc = "none"
      /\ main[w].pc \in Requesting
  BY <1>0 DEF RequestInv, TagKept, request_memory_data, Requesting
<1>3. /\ thread' = [thread EXCEPT ![t] = [pc |-> "body", host |-> w, origin |-> p]]
      /\ main' = [main EXCEPT ![w] = At("poll")] /\ mutex' = [mutex EXCEPT ![w] = Free]
      /\ ReceiveAndSend(p, w, "REQUEST_MEMORY", 0, <<r>>)
      /\ Arrived(p, w, "REQUEST_MEMORY")
      /\ UNCHANGED <<known, merged>>
  BY <1>2 DEF request_memory_data, start_thread, Unlock
<1>4. r \in Message /\ r.tag \notin Counted
  BY <1>0, MsgType DEF Tag, Part, Counted
<1> HIDE DEF t, p, r
<1>5. /\ NetworkTypeOK'
      /\ net'[<<p, w>>] = Without(p, w, "REQUEST_MEMORY")
      /\ net'[<<w, 0>>] = Append(net[<<w, 0>>], r)
      /\ \A x, y \in Node : <<x, y>> \notin {<<p, w>>, <<w, 0>>} =>
           net'[<<x, y>>] = net[<<x, y>>]
  BY <1>0, <1>1, <1>3, <1>4, AnswerEffect
<1>6. Unseen(net[<<p, w>>], Without(p, w, "REQUEST_MEMORY"))
  BY <1>0, <1>1, <1>3, WithoutEffect DEF Counted
<1>7. Unseen(net[<<w, 0>>], Append(net[<<w, 0>>], r))
  <2>1. net[<<w, 0>>] \in Seq(Message)
    BY <1>0 DEF NetworkTypeOK
  <2> QED BY <2>1, <1>4, AppendOne
<1>8. ASSUME NEW x \in Node, NEW y \in Node PROVE Unseen(net[<<x, y>>], net'[<<x, y>>])
  <2>1. CASE <<x, y>> \notin {<<p, w>>, <<w, 0>>}
    BY <2>1, <1>5 DEF Unseen
  <2>2. CASE <<x, y>> = <<p, w>>
    BY <2>2, <1>5, <1>6
  <2>3. CASE <<x, y>> = <<w, 0>>
    BY <2>3, <1>5, <1>7
  <2> QED BY <2>1, <2>2, <2>3
<1>9. OrderInv' /\ \A x, y \in Node : Msgs(x, y)' = Msgs(x, y)
  BY <1>0, <1>8, UnseenMsgs
<1>10. \A m \in Msgs(0, w)' : ~(m.tag = "RUN_TASK" /\ m.task = t)
  BY <1>0, <1>2, <1>9 DEF MessageInv, MessageTrue, RunTrue, Msgs, t
<1> QED BY <1>1, <1>2, <1>3, <1>5, <1>9, <1>10, StartKeeps

------------------------------------------------------------------------------
(* A worker asks for a task: the lock is taken, and while it is, the       *)
(* request is the only one of that worker.                                 *)
LEMMA SendRequestStep ==
  ASSUME TaskingInv, NEW t \in Task, handle_create_task_send(t), UNCHANGED <<runtimeVars, awaiting>>
  PROVE  ProtocolInv' /\ WorkerTypeOK'
<1>w. PICK w, m : w = thread[t].host /\ m = Msg("CREATE_TASK", "task", t)
  OBVIOUS
<1>0. /\ WorkerTypeOK /\ NetworkTypeOK /\ LockInv /\ ThreadInv /\ RequestInv /\ MessageInv
      /\ OrderInv /\ AwaitInv /\ KnownInv /\ awaiting \in Node /\ 0 \in Node
  BY Parts, Names
<1>1. /\ thread[t].pc = "lock" /\ mutex[w] = Free /\ mutex' = [mutex EXCEPT ![w] = t]
      /\ Becomes(t, "reply") /\ Send(w, 0, m) /\ UNCHANGED <<main, known, merged>>
  BY <1>w DEF handle_create_task_send, Steps
<1>2. w \in Worker /\ w \in Node /\ w # 0
  <2>1. w \in Node /\ w # 0
    BY <1>w, <1>0, <1>1, ThreadTypes DEF ThreadInv
  <2> QED BY <2>1, Names
<1>3. m \in Message /\ m.tag = "CREATE_TASK" /\ m.part = "task" /\ m.task = t /\ ~IsAck(m)
  BY <1>w, MsgType DEF Tag, Part, IsAck
<1>4. /\ thread' \in [Task -> [pc : ThreadPC, host : Node, origin : Node]]
      /\ thread'[t].pc = "reply" /\ thread'[t].host = w
      /\ \A u \in Task : u # t => thread'[u] = thread[u]
  BY <1>w, <1>0, <1>1, BecomesEffect DEF ThreadPC
<1>5. /\ mutex'[w] = t /\ \A v \in Worker : v # w => mutex'[v] = mutex[v]
      /\ mutex' \in [Worker -> Task \cup {Free, MainThread}]
  BY <1>0, <1>1, <1>2, WorkerTypes
<1>r. UNCHANGED <<created_tasks, parent_id, finished, node, next_task_id, loop, awaiting, known>>
  BY <1>1 DEF runtimeVars
<1>f. t # Free /\ t # MainThread /\ Free # MainThread /\ \A u \in Task : u # Free
  BY Names
<1>6. \A x \in Msgs(w, 0) : ~SameSubject(x, m)
  BY <1>0, <1>1, <1>2, <1>3, <1>f
     DEF MessageInv, MessageTrue, Msgs, RequestTrue, AckTrue, ReplyTrue, SameSubject
<1>7. /\ NetworkTypeOK' /\ OrderInv'
      /\ Msgs(w, 0)' = Msgs(w, 0) \cup {m}
      /\ \A x, y \in Node : <<x, y>> # <<w, 0>> => Msgs(x, y)' = Msgs(x, y)
  BY <1>0, <1>1, <1>2, <1>3, <1>6, CountedSend DEF Counted
<1>8. WorkerTypeOK'
  BY <1>0, <1>1, <1>4, <1>5, <1>7, WorkerTypes DEF WorkerTypeOK
<1>9. LockInv'
  <2> SUFFICES ASSUME NEW v \in Worker
               PROVE  /\ mutex'[v] = MainThread <=> main'[v].pc \in Locking
                      /\ \A u \in Task : mutex'[v] = u
                           <=> thread'[u].pc = "reply" /\ thread'[u].host = v
    BY DEF LockInv
  <2>1. mutex'[v] = MainThread <=> main'[v].pc \in Locking
    BY <1>0, <1>1, <1>5, <1>f DEF LockInv
  <2>2. ASSUME NEW u \in Task
        PROVE  mutex'[v] = u <=> thread'[u].pc = "reply" /\ thread'[u].host = v
    <3>1. /\ mutex[v] = u <=> thread[u].pc = "reply" /\ thread[u].host = v
          /\ mutex[w] # u
      BY <1>0, <1>1, <1>f DEF LockInv
    <3> QED BY <3>1, <1>1, <1>4, <1>5
  <2> QED BY <2>1, <2>2
<1>10. ThreadInv'
  BY <1>w, <1>0, <1>1, <1>4, <1>r DEF ThreadInv
<1>11. RequestInv'
  BY <1>0, <1>1, <1>4, <1>r, WorkerTypes DEF RequestInv, TagKept
<1>12. MessageInv'
  <2>1. ASSUME NEW s \in Node, NEW d \in Node, NEW n \in Msgs(s, d)
        PROVE  MessageTrue(s, d, n)'
    <3>1. MessageTrue(s, d, n) /\ n.task \in Task
      BY <1>0, CountedAreMessages DEF MessageInv, Msgs
    <3>2. RunTrue(s, d, n) => RunTrue(s, d, n)'
      BY <1>1, <1>4, <1>r, <3>1 DEF RunTrue
    <3>3. FinishTrue(s, d, n) => FinishTrue(s, d, n)'
      BY <1>1, <1>4, <1>r, <3>1 DEF FinishTrue
    <3>4. RequestTrue(s, d, n) => RequestTrue(s, d, n)'
      BY <1>1, <1>5, <1>f, <3>1, Names DEF RequestTrue
    <3>5. AckTrue(s, d, n) => AckTrue(s, d, n)'
      BY <1>r DEF AckTrue
    <3>6. ReplyTrue(s, d, n) => ReplyTrue(s, d, n)'
      BY <1>1, <1>5, <1>f, <1>r, Names DEF ReplyTrue
    <3> QED BY <3>1, <3>2, <3>3, <3>4, <3>5, <3>6 DEF MessageTrue
  <2>2. MessageTrue(w, 0, m)'
    BY <1>2, <1>3, <1>5 DEF MessageTrue, RequestTrue
  <2>3. ASSUME NEW s \in Node, NEW d \in Node, NEW n \in Msgs(s, d)'
        PROVE  MessageTrue(s, d, n)'
    BY <1>7, <2>1, <2>2, <2>3
  <2> QED BY <2>3 DEF MessageInv, Msgs
<1>13. AwaitInv'
  <2>1. \A x, y \in Node : <<x, y>> # <<w, 0>> => (Creating(x, y)' <=> Creating(x, y))
    BY <1>7 DEF Creating, Msgs
  <2>2. \A x, y \in Node : Acknowledged(x, y) => Acknowledged(x, y)'
    BY <1>7 DEF Acknowledged, Msgs
  <2>3. ~Creating(0, w)
    BY <1>0, <1>1, <1>2, <1>f
       DEF Creating, MessageInv, MessageTrue, RequestTrue, AckTrue, ReplyTrue
  <2> QED BY <1>0, <1>2, <1>r, <2>1, <2>2, <2>3 DEF AwaitInv
<1>14. KnownInv'
  BY <1>0, <1>r DEF KnownInv
<1> QED BY <1>7, <1>8, <1>9, <1>10, <1>11, <1>12, <1>13, <1>14 DEF ProtocolInv

(* What a thread that waits for the reply finds there.                     *)
LEMMA ReplyFacts ==
  ASSUME TaskingInv, NEW t \in Task, thread[t].pc = "reply",
         Arrived(0, thread[t].host, "CREATE_TASK")
  PROVE  LET w == thread[t].host
             m == Matched(0, w, "CREATE_TASK")
         IN  /\ w \in Worker /\ mutex[w] = t
             /\ m \in Msgs(0, w) /\ m.tag = "CREATE_TASK" /\ m.part = "id"
             /\ m.task \in Task /\ m.task = next_task_id - 1
             /\ awaiting = w /\ parent_id[m.task] = t
<1> DEFINE w == thread[t].host
           m == Matched(0, w, "CREATE_TASK")
<1>0. /\ WorkerTypeOK /\ NetworkTypeOK /\ LockInv /\ ThreadInv /\ MessageInv /\ OrderInv
      /\ 0 \in Node
  BY Parts, Names
<1>1. w \in Worker /\ w \in Node
  <2>1. w \in Node /\ w # 0
    BY <1>0, ThreadTypes DEF ThreadInv
  <2> QED BY <2>1, Names
<1>2. mutex[w] = t
  BY <1>0, <1>1 DEF LockInv
<1> HIDE DEF w, m
<1>3. m \in Msgs(0, w) /\ m.tag = "CREATE_TASK"
  BY <1>0, <1>1, CountedWithout DEF Counted, w, m
<1>4. ReplyTrue(0, w, m) /\ m.task \in Task
  BY <1>0, <1>1, <1>3, CountedAreMessages
     DEF MessageInv, MessageTrue, RequestTrue, AckTrue, Msgs
<1>5. m.part = "id" /\ m.task = next_task_id - 1 /\ awaiting = w /\ parent_id[m.task] = t
  BY <1>2, <1>4 DEF ReplyTrue
<1> QED BY <1>1, <1>2, <1>3, <1>4, <1>5 DEF w, m

(* The reply is taken, and the acknowledgement sent: no request and no     *)
(* other acknowledgement of that worker is under way.                      *)
LEMMA TakeReplyStep ==
  ASSUME TaskingInv, NEW t \in Task, handle_create_task_reply(t),
         UNCHANGED <<runtimeVars, awaiting>>
  PROVE  ProtocolInv' /\ WorkerTypeOK'
<1>w. PICK w, m, a : /\ w = thread[t].host /\ m = Matched(0, w, "CREATE_TASK")
                     /\ a = Msg("CREATE_TASK", "ack", m.task)
  OBVIOUS
<1>0. /\ WorkerTypeOK /\ NetworkTypeOK /\ LockInv /\ ThreadInv /\ RequestInv /\ MessageInv
      /\ OrderInv /\ AwaitInv /\ KnownInv /\ awaiting \in Node /\ 0 \in Node
  BY Parts, Names
<1>1. /\ thread[t].pc = "reply" /\ Arrived(0, w, "CREATE_TASK")
      /\ known' = [known EXCEPT ![w] = @ \cup {m.task}]
      /\ ReceiveAndSend(0, w, "CREATE_TASK", 0, <<a>>)
      /\ mutex' = [mutex EXCEPT ![w] = Free]
      /\ Becomes(t, "body") /\ UNCHANGED <<main, merged>>
  BY <1>w DEF handle_create_task_reply, Steps
<1>2. /\ w \in Worker /\ mutex[w] = t
      /\ m \in Msgs(0, w) /\ m.tag = "CREATE_TASK" /\ m.part = "id"
      /\ m.task \in Task /\ m.task = next_task_id - 1
      /\ awaiting = w /\ parent_id[m.task] = t
  BY <1>w, <1>1, ReplyFacts
<1>3. w \in Node /\ w # 0 /\ <<0, w>> # <<w, 0>>
  BY <1>2, Names
<1>4. a \in Message /\ a.tag = "CREATE_TASK" /\ a.part = "ack" /\ a.task = m.task /\ IsAck(a)
  BY <1>w, <1>2, MsgType DEF Tag, Part, IsAck
<1>5. /\ thread' \in [Task -> [pc : ThreadPC, host : Node, origin : Node]]
      /\ thread'[t].pc = "body" /\ thread'[t].host = w
      /\ \A u \in Task : u # t => thread'[u] = thread[u]
  BY <1>w, <1>0, <1>1, BecomesEffect DEF ThreadPC
<1>6. /\ mutex'[w] = Free /\ \A v \in Worker : v # w => mutex'[v] = mutex[v]
      /\ mutex' \in [Worker -> Task \cup {Free, MainThread}]
  BY <1>0, <1>1, <1>2, WorkerTypes
<1>7. /\ known' \in [Worker -> SUBSET Task] /\ m.task \in known'[w]
      /\ \A v \in Worker : known[v] \subseteq known'[v]
  BY <1>0, <1>1, <1>2, WorkerTypes
<1>r. UNCHANGED <<created_tasks, parent_id, finished, node, next_task_id, loop, awaiting>>
  BY DEF runtimeVars
<1>f. t # Free /\ t # MainThread /\ Free # MainThread /\ \A u \in Task : u # Free
  BY Names
<1>8. ~Creating(w, 0)
  BY <1>0, <1>2, <1>3 DEF AwaitInv, Creating, Msgs
<1>9. \A x \in Msgs(w, 0) : x.tag # "CREATE_TASK"
  BY <1>8 DEF Creating, Msgs
<1>10. /\ \A x \in Msgs(w, 0) : ~SameSubject(x, a)
       /\ \A x \in Msgs(w, 0) : ~IsRequest(x)
  BY <1>9, <1>4 DEF SameSubject, IsRequest
<1>11. /\ NetworkTypeOK' /\ OrderInv'
       /\ Msgs(0, w)' \subseteq Msgs(0, w)
       /\ \A x \in Msgs(0, w) : x # m => x \in Msgs(0, w)'
       /\ \A x \in Msgs(0, w)' : ~SameSubject(x, m)
       /\ Msgs(w, 0)' = Msgs(w, 0) \cup {a}
       /\ \A x, y \in Node : <<x, y>> \notin {<<0, w>>, <<w, 0>>} => Msgs(x, y)' = Msgs(x, y)
  <2>1. "CREATE_TASK" \in Counted
    BY DEF Counted
  <2>2. /\ NetworkTypeOK' /\ OrderInv'
        /\ Msgs(0, w)' \subseteq Msgs(0, w)
        /\ \A x \in Msgs(0, w) : x # Matched(0, w, "CREATE_TASK") => x \in Msgs(0, w)'
        /\ \A x \in Msgs(0, w)' : ~SameSubject(x, Matched(0, w, "CREATE_TASK"))
        /\ Msgs(w, 0)' = Msgs(w, 0) \cup (IF a.tag \in Counted THEN {a} ELSE {})
        /\ \A x, y \in Node : <<x, y>> \notin {<<0, w>>, <<w, 0>>} => Msgs(x, y)' = Msgs(x, y)
    BY <1>0, <1>1, <1>3, <1>4, <1>10, <2>1, CountedAnswer
  <2>3. a.tag \in Counted
    BY <1>4, <2>1
  <2> QED BY <1>w, <2>2, <2>3
<1>12. WorkerTypeOK'
  BY <1>0, <1>1, <1>5, <1>6, <1>7, <1>11, WorkerTypes DEF WorkerTypeOK
<1>13. LockInv'
  <2> SUFFICES ASSUME NEW v \in Worker
               PROVE  /\ mutex'[v] = MainThread <=> main'[v].pc \in Locking
                      /\ \A u \in Task : mutex'[v] = u
                           <=> thread'[u].pc = "reply" /\ thread'[u].host = v
    BY DEF LockInv
  <2>1. mutex'[v] = MainThread <=> main'[v].pc \in Locking
    BY <1>0, <1>1, <1>2, <1>6, <1>f DEF LockInv
  <2>2. ASSUME NEW u \in Task
        PROVE  mutex'[v] = u <=> thread'[u].pc = "reply" /\ thread'[u].host = v
    <3>1. mutex[v] = u <=> thread[u].pc = "reply" /\ thread[u].host = v
      BY <1>0 DEF LockInv
    <3>2. thread[t].host = w
      BY <1>w
    <3> QED BY <3>1, <3>2, <1>2, <1>5, <1>6, <1>f
  <2> QED BY <2>1, <2>2
<1>14. ThreadInv'
  BY <1>w, <1>0, <1>1, <1>5, <1>r DEF ThreadInv
<1>15. RequestInv'
  BY <1>0, <1>1, <1>5, <1>r, WorkerTypes DEF RequestInv, TagKept
<1>16. MessageInv'
  <2>1. ASSUME NEW s \in Node, NEW d \in Node, NEW n \in Msgs(s, d), n \in Msgs(s, d)'
        PROVE  MessageTrue(s, d, n)'
    <3>1. MessageTrue(s, d, n) /\ n.task \in Task
      BY <1>0, CountedAreMessages DEF MessageInv, Msgs
    <3>2. RunTrue(s, d, n) => RunTrue(s, d, n)'
      BY <1>1, <1>5, <1>r, <3>1 DEF RunTrue
    <3>3. FinishTrue(s, d, n) => FinishTrue(s, d, n)'
      BY <1>1, <1>5, <1>r, <3>1 DEF FinishTrue
    <3>4. n.tag = "CREATE_TASK" /\ RequestTrue(s, d, n) => RequestTrue(s, d, n)'
      <4>1. n.tag = "CREATE_TASK" /\ d = 0 => s # w
        BY <1>9
      <4> QED BY <4>1, <1>6, Names DEF RequestTrue
    <3>5. AckTrue(s, d, n) => AckTrue(s, d, n)'
      BY <1>7, <1>r, Names DEF AckTrue
    <3>6. n.tag = "CREATE_TASK" => ~ReplyTrue(s, d, n)
      BY <1>2, <1>11, <2>1 DEF ReplyTrue, SameSubject
    <3> QED BY <3>1, <3>2, <3>3, <3>4, <3>5, <3>6 DEF MessageTrue
  <2>2. MessageTrue(w, 0, a)'
    BY <1>2, <1>3, <1>4, <1>7, <1>r DEF MessageTrue, AckTrue
  <2>3. ASSUME NEW s \in Node, NEW d \in Node, NEW n \in Msgs(s, d)'
        PROVE  MessageTrue(s, d, n)'
    <3>1. n \in Msgs(s, d) \/ (<<s, d>> = <<w, 0>> /\ n = a)
      BY <1>3, <1>11, <2>3
    <3> QED BY <3>1, <2>1, <2>2, <2>3
  <2> QED BY <2>3 DEF MessageInv, Msgs
<1>17. AwaitInv'
  <2>1. Acknowledged(w, 0)'
    BY <1>4, <1>11 DEF Acknowledged, Msgs
  <2>2. ~Creating(0, w)'
    <3>1. \A n \in Msgs(0, w) : n.tag = "CREATE_TASK" => SameSubject(n, m)
      BY <1>0, <1>2, <1>3
         DEF MessageInv, MessageTrue, RequestTrue, AckTrue, ReplyTrue, SameSubject, Msgs
    <3>2. \A n \in Msgs(0, w)' : n.tag # "CREATE_TASK"
      BY <3>1, <1>11
    <3> QED BY <3>2 DEF Creating, Msgs
  <2> QED BY <1>0, <1>2, <1>r, <2>1, <2>2 DEF AwaitInv
<1>18. KnownInv'
  <2> SUFFICES ASSUME NEW u \in created_tasks \ {Root}
               PROVE  \/ u \in known'[node[parent_id[u]]]
                      \/ awaiting = node[parent_id[u]] /\ u = next_task_id - 1
    BY <1>r DEF KnownInv
  <2>1. CASE u \in known[node[parent_id[u]]]
    <3>1. node[parent_id[u]] \in Worker
      <4>1. parent_id[u] \in Creators /\ node[parent_id[u]] # 0
        BY Parts DEF TablesAgree
      <4>2. parent_id[u] \in Task
        BY <4>1, CreatorsAssumption
      <4> QED BY <4>1, <4>2, Parts, TypeFacts
    <3> QED BY <2>1, <3>1, <1>7
  <2> QED BY <1>0, <2>1 DEF KnownInv
<1> QED BY <1>11, <1>12, <1>13, <1>14, <1>15, <1>16, <1>17, <1>18 DEF ProtocolInv

------------------------------------------------------------------------------
(* The thread of a task ends with the report of its end, the only one.     *)
LEMMA SendFinishStep ==
  ASSUME TaskingInv, NEW t \in Task, handle_finish_task_send(t), UNCHANGED <<runtimeVars, awaiting>>
  PROVE  ProtocolInv' /\ WorkerTypeOK'
<1>w. PICK w, m : w = thread[t].host /\ m = Msg("FINISH_TASK", "task", t)
  OBVIOUS
<1>0. /\ WorkerTypeOK /\ NetworkTypeOK /\ LockInv /\ ThreadInv /\ RequestInv /\ MessageInv
      /\ OrderInv /\ AwaitInv /\ KnownInv /\ awaiting \in Node /\ 0 \in Node
  BY Parts, Names
<1>1. /\ thread[t].pc \in {"finish", "body"} /\ Becomes(t, "ended") /\ Send(w, 0, m)
      /\ UNCHANGED <<main, mutex, known, merged>>
  BY <1>w DEF handle_finish_task_send, FinishesNext, Steps
<1>2. w \in Worker /\ w \in Node /\ w # 0
  <2>1. w \in Node /\ w # 0
    BY <1>w, <1>0, <1>1, ThreadTypes DEF ThreadInv
  <2> QED BY <2>1, Names
<1>3. m \in Message /\ m.tag = "FINISH_TASK" /\ m.part = "task" /\ m.task = t /\ ~IsAck(m)
  BY <1>w, MsgType DEF Tag, Part, IsAck
<1>4. /\ thread' \in [Task -> [pc : ThreadPC, host : Node, origin : Node]]
      /\ thread'[t].pc = "ended" /\ thread'[t].host = w
      /\ \A u \in Task : u # t => thread'[u] = thread[u]
  BY <1>w, <1>0, <1>1, BecomesEffect DEF ThreadPC
<1>r. UNCHANGED <<created_tasks, parent_id, finished, node, next_task_id, loop, awaiting, known>>
  BY <1>1 DEF runtimeVars
<1>6. \A x \in Msgs(w, 0) : ~SameSubject(x, m)
  BY <1>0, <1>1, <1>2, <1>3 DEF MessageInv, MessageTrue, Msgs, FinishTrue, SameSubject
<1>7. /\ NetworkTypeOK' /\ OrderInv'
      /\ Msgs(w, 0)' = Msgs(w, 0) \cup {m}
      /\ \A x, y \in Node : <<x, y>> # <<w, 0>> => Msgs(x, y)' = Msgs(x, y)
  BY <1>0, <1>1, <1>2, <1>3, <1>6, CountedSend DEF Counted
<1>8. WorkerTypeOK'
  BY <1>0, <1>1, <1>4, <1>7, WorkerTypes DEF WorkerTypeOK
<1>9. LockInv'
  BY <1>0, <1>1, <1>4 DEF LockInv
<1>10. ThreadInv'
  BY <1>w, <1>0, <1>1, <1>4, <1>r DEF ThreadInv
<1>11. RequestInv'
  BY <1>0, <1>1, <1>4, <1>r, WorkerTypes DEF RequestInv, TagKept
<1>12. MessageInv'
  <2>1. ASSUME NEW s \in Node, NEW d \in Node, NEW n \in Msgs(s, d)
        PROVE  MessageTrue(s, d, n)'
    <3>1. MessageTrue(s, d, n) /\ n.task \in Task
      BY <1>0, CountedAreMessages DEF MessageInv, Msgs
    <3>2. RunTrue(s, d, n) => RunTrue(s, d, n)'
      BY <1>1, <1>4, <1>r, <3>1 DEF RunTrue
    <3>3. FinishTrue(s, d, n) => FinishTrue(s, d, n)'
      BY <1>1, <1>4, <1>r, <3>1 DEF FinishTrue
    <3>4. RequestTrue(s, d, n) => RequestTrue(s, d, n)'
      BY <1>1 DEF RequestTrue
    <3>5. AckTrue(s, d, n) => AckTrue(s, d, n)'
      BY <1>r DEF AckTrue
    <3>6. ReplyTrue(s, d, n) => ReplyTrue(s, d, n)'
      BY <1>1, <1>r DEF ReplyTrue
    <3> QED BY <3>1, <3>2, <3>3, <3>4, <3>5, <3>6 DEF MessageTrue
  <2>2. MessageTrue(w, 0, m)'
    <3>1. ~finished[t]
      BY <1>0, <1>1 DEF ThreadInv
    <3> QED BY <3>1, <1>2, <1>3, <1>4, <1>r DEF MessageTrue, FinishTrue
  <2>3. ASSUME NEW s \in Node, NEW d \in Node, NEW n \in Msgs(s, d)'
        PROVE  MessageTrue(s, d, n)'
    BY <1>7, <2>1, <2>2, <2>3
  <2> QED BY <2>3 DEF MessageInv, Msgs
<1>13. AwaitInv'
  <2>1. \A x, y \in Node : \A n \in Msgs(x, y) : n.tag # "RUN_TASK" => n \in Msgs(x, y)'
    BY <1>7
  <2>2. \A x, y \in Node : \A n \in Msgs(x, y)' : n.tag = "CREATE_TASK" => n \in Msgs(x, y)
    BY <1>3, <1>7
  <2> QED BY <1>0, <1>r, <2>1, <2>2, AwaitKept
<1>14. KnownInv'
  BY <1>0, <1>r DEF KnownInv
<1> QED BY <1>7, <1>8, <1>9, <1>10, <1>11, <1>12, <1>13, <1>14 DEF ProtocolInv

------------------------------------------------------------------------------
(* The runtime process.  What stands first in a channel is what a receive  *)
(* of its tag takes.                                                       *)
LEMMA FirstIsMatched ==
  ASSUME NetworkTypeOK, NEW s \in Node, NEW d \in Node, net[<<s, d>>] # << >>
  PROVE  LET m == Head(net[<<s, d>>])
         IN  Arrived(s, d, m.tag) /\ Matched(s, d, m.tag) = m
<1> DEFINE q == net[<<s, d>>]
           m == Head(q)
<1>1. q \in Seq(Message) /\ q # << >>
  BY DEF NetworkTypeOK
<1>2. Len(q) \in Nat /\ Len(q) # 0 /\ m = q[1]
  BY <1>1, EmptySeq
<1>3. 1 \in Tagged(s, d, m.tag)
  BY <1>2 DEF Tagged
<1>4. Arrived(s, d, m.tag)
  BY <1>3 DEF Arrived
<1>5. PICK i \in 1 .. Len(q) :
        /\ \A j \in 1 .. Len(q) : q[j].tag = m.tag => i <= j
        /\ Matched(s, d, m.tag) = q[i]
  BY <1>4, FirstMatch
<1>6. i = 1
  BY <1>2, <1>5
<1> QED BY <1>2, <1>4, <1>5, <1>6

(* The message run has come to receive.                                    *)
LEMMA NextMessage ==
  ASSUME TaskingInv, NEW w \in Worker, NEW tag, NextIs(w, tag)
  PROVE  /\ awaiting = 0 /\ Receiving /\ w \in Node /\ 0 \in Node /\ w # 0
         /\ Arrived(w, 0, tag) /\ Matched(w, 0, tag) = Head(net[<<w, 0>>])
<1>1. NetworkTypeOK /\ w \in Node /\ 0 \in Node /\ w # 0
  BY Parts, Names
<1>2. awaiting = 0 /\ Receiving /\ net[<<w, 0>>] # << >> /\ Head(net[<<w, 0>>]).tag = tag
  BY DEF NextIs
<1> QED BY <1>1, <1>2, FirstIsMatched

(* A worker's request for a task, which only a task handed to that worker  *)
(* and not finished makes.                                                 *)
LEMMA CreateRequest ==
  ASSUME TaskingInv, NEW w \in Worker, NextIs(w, "CREATE_TASK")
  PROVE  LET m == Head(net[<<w, 0>>])
         IN  /\ m \in Msgs(w, 0) /\ m.tag = "CREATE_TASK" /\ m.part = "task"
             /\ m.task \in Task /\ m.task \in Creators
             /\ mutex[w] = m.task /\ node[m.task] = w /\ Given(m.task)
<1>m. PICK m : m = Head(net[<<w, 0>>])
  OBVIOUS
<1>0. /\ WorkerTypeOK /\ NetworkTypeOK /\ LockInv /\ ThreadInv /\ MessageInv /\ OrderInv
  BY Parts
<1>1. /\ awaiting = 0 /\ w \in Node /\ 0 \in Node /\ w # 0
      /\ Arrived(w, 0, "CREATE_TASK") /\ Matched(w, 0, "CREATE_TASK") = m
  BY <1>m, NextMessage
<1>2. m \in Msgs(w, 0) /\ m.tag = "CREATE_TASK"
  BY <1>0, <1>1, CountedWithout DEF Counted
<1>3. RequestTrue(w, 0, m) /\ m.task \in Task
  BY <1>0, <1>1, <1>2, CountedAreMessages DEF MessageInv, MessageTrue, Msgs, AckTrue, ReplyTrue
<1>4. m.part = "task" /\ thread[m.task].pc = "reply" /\ thread[m.task].host = w
      /\ mutex[w] = m.task
  BY <1>0, <1>3 DEF RequestTrue, LockInv
<1>5. m.task \in Creators /\ node[m.task] = w /\ node[m.task] # 0 /\ ~finished[m.task]
  BY <1>0, <1>3, <1>4 DEF ThreadInv
<1> QED BY <1>m, <1>2, <1>3, <1>4, <1>5 DEF Given

(* The report of the end of a task, from the worker it was handed to, the  *)
(* first and only one.                                                     *)
LEMMA FinishReport ==
  ASSUME TaskingInv, NEW w \in Worker, NextIs(w, "FINISH_TASK")
  PROVE  LET m == Head(net[<<w, 0>>])
         IN  /\ m \in Msgs(w, 0) /\ m.tag = "FINISH_TASK" /\ m.part = "task"
             /\ m.task \in Task /\ node[m.task] = w /\ Given(m.task)
             /\ thread[m.task].pc = "ended" /\ thread[m.task].host = w
<1>m. PICK m : m = Head(net[<<w, 0>>])
  OBVIOUS
<1>0. /\ WorkerTypeOK /\ NetworkTypeOK /\ ThreadInv /\ MessageInv /\ OrderInv
  BY Parts
<1>1. /\ awaiting = 0 /\ w \in Node /\ 0 \in Node /\ w # 0
      /\ Arrived(w, 0, "FINISH_TASK") /\ Matched(w, 0, "FINISH_TASK") = m
  BY <1>m, NextMessage
<1>2. m \in Msgs(w, 0) /\ m.tag = "FINISH_TASK"
  BY <1>0, <1>1, CountedWithout DEF Counted
<1>3. FinishTrue(w, 0, m) /\ m.task \in Task
  BY <1>0, <1>1, <1>2, CountedAreMessages DEF MessageInv, MessageTrue, Msgs
<1>4. node[m.task] = w /\ node[m.task] # 0 /\ ~finished[m.task]
  BY <1>0, <1>3 DEF FinishTrue, ThreadInv
<1> QED BY <1>m, <1>2, <1>3, <1>4 DEF Given, FinishTrue

(* Every step of the program is a step of the runtime process, or leaves   *)
(* it alone.                                                               *)
LEMMA RuntimeStepMaps ==
  TaskingInv /\ [Next]_vars => [RuntimeNext]_runtimeVars
<1> SUFFICES ASSUME TaskingInv, Next PROVE RuntimeNext \/ UNCHANGED runtimeVars
  BY DEF vars, runtimeVars
<1>1. CASE RuntimeStep
  <2>1. CASE RuntimeSetup
    BY <2>1 DEF RuntimeSetup, RuntimeNext
  <2>2. CASE RuntimeDispatch
    BY <2>2 DEF RuntimeDispatch, RuntimeNext
  <2>3. CASE RuntimeTaskSetUp
    BY <2>3 DEF RuntimeTaskSetUp
  <2>4. CASE RuntimeShutdown
    BY <2>4 DEF RuntimeShutdown, RuntimeNext
  <2>5. ASSUME NEW w \in Worker, RuntimeCreateTask(w) PROVE RuntimeNext
    <3>m. PICK m : m = Head(net[<<w, 0>>])
      OBVIOUS
    <3>1. NextIs(w, "CREATE_TASK") /\ handle_create_task(m.task)
      BY <2>5, <3>m DEF RuntimeCreateTask
    <3>2. m.task \in Task /\ m.task \in Creators /\ Given(m.task)
      BY <3>1, <3>m, CreateRequest
    <3>3. Create(m.task)
      BY <3>1, <3>2 DEF Create
    <3> QED BY <3>2, <3>3 DEF RuntimeNext
  <2>6. ASSUME NEW w \in Worker, RuntimeFinishTask(w) PROVE RuntimeNext
    <3>m. PICK m : m = Head(net[<<w, 0>>])
      OBVIOUS
    <3>1. NextIs(w, "FINISH_TASK") /\ (handle_finish_task(m.task, w) \/ finish_crashes(m.task))
      BY <2>6, <3>m DEF RuntimeFinishTask
    <3>2. m.task \in Task /\ node[m.task] = w /\ Given(m.task)
      BY <3>1, <3>m, FinishReport
    <3>3. Finish(m.task) \/ Crash(m.task)
      BY <3>1, <3>2 DEF Finish, Crash
    <3> QED BY <3>2, <3>3 DEF RuntimeNext
  <2>7. ASSUME NEW w \in Worker, RuntimeReportCapacity(w) PROVE UNCHANGED runtimeVars
    BY <2>7 DEF RuntimeReportCapacity
  <2> QED BY <1>1, <2>1, <2>2, <2>3, <2>4, <2>5, <2>6, <2>7 DEF RuntimeStep
<1>2. CASE \/ \E w \in Worker : MainThreadStep(w)
           \/ \E t \in Task : TaskCreates(t) \/ TaskFinishes(t)
  BY <1>2 DEF MainThreadStep, TaskCreates, TaskFinishes
<1> QED BY <1>1, <1>2 DEF Next

------------------------------------------------------------------------------
(* The steps of the runtime process.                                       *)

(* The reports of the capacity are received, and the root task enqueued.   *)
LEMMA SetupStep ==
  ASSUME TaskingInv, RuntimeSetup
  PROVE  ProtocolInv' /\ WorkerTypeOK' /\ awaiting' \in Node
<1>0. /\ WorkerTypeOK /\ NetworkTypeOK /\ LockInv /\ ThreadInv /\ RequestInv /\ MessageInv
      /\ OrderInv /\ AwaitInv /\ KnownInv /\ awaiting \in Node /\ 0 \in Node
      /\ TablesAgree /\ RuntimeTypeOK
  BY Parts, Names
<1>1. /\ loop = "setup" /\ created_tasks' = created_tasks \cup {Root}
      /\ next_task_id' = next_task_id + 1 /\ UNCHANGED <<finished, node>>
      /\ UNCHANGED <<main, mutex, known, thread, merged, awaiting>>
  BY DEF RuntimeSetup, setup, enqueue, workerVars
<1>2. awaiting = 0 /\ created_tasks' \ {Root} = {}
  <2>1. awaiting = 0
    BY <1>0, <1>1 DEF AwaitInv
  <2>2. created_tasks = {}
    BY <1>0, <1>1 DEF TablesAgree
  <2> QED BY <1>1, <2>1, <2>2
<1>3. /\ NetworkTypeOK' /\ \A s, d \in Node : Unseen(net[<<s, d>>], net'[<<s, d>>])
  <2>1. DOMAIN net = Node \X Node /\ \A s, d \in Node : net[<<s, d>>] \in Seq(Message)
    BY <1>0 DEF NetworkTypeOK
  <2>2. net' = [sd \in Node \X Node |->
                  IF sd[2] = 0 /\ sd[1] # 0 THEN Without(sd[1], 0, "REPORT_CAPACITY")
                                            ELSE net[sd]]
    BY <2>1 DEF RuntimeSetup
  <2>3. ASSUME NEW s \in Node, NEW d \in Node
        PROVE  net'[<<s, d>>] \in Seq(Message) /\ Unseen(net[<<s, d>>], net'[<<s, d>>])
    <3>1. CASE d = 0 /\ s # 0
      <4>1. Arrived(s, 0, "REPORT_CAPACITY")
        BY <3>1, Names DEF RuntimeSetup
      <4>2. /\ Without(s, 0, "REPORT_CAPACITY") \in Seq(Message)
            /\ Unseen(net[<<s, 0>>], Without(s, 0, "REPORT_CAPACITY"))
        BY <4>1, <1>0, WithoutEffect DEF Counted
      <4>3. net'[<<s, d>>] = Without(s, 0, "REPORT_CAPACITY")
        BY <2>2, <3>1
      <4> QED BY <3>1, <4>2, <4>3
    <3>2. CASE ~(d = 0 /\ s # 0)
      <4>1. net'[<<s, d>>] = net[<<s, d>>]
        BY <2>2, <3>2
      <4> QED BY <2>1, <4>1 DEF Unseen
    <3> QED BY <3>1, <3>2
  <2>4. \A sd \in Node \X Node : net'[sd] \in Seq(Message)
    BY <2>3
  <2> QED BY <2>2, <2>3, <2>4 DEF NetworkTypeOK
<1>4. OrderInv' /\ \A x, y \in Node : Msgs(x, y)' = Msgs(x, y)
  BY <1>0, <1>3, UnseenMsgs
<1>5. WorkerTypeOK'
  BY <1>0, <1>1, <1>3, WorkerTypes DEF WorkerTypeOK
<1>6. LockInv' /\ ThreadInv'
  BY <1>0, <1>1 DEF LockInv, ThreadInv
<1>7. RequestInv'
  BY <1>0, <1>1 DEF RequestInv, TagKept
<1>8. MessageInv'
  <2>1. ASSUME NEW s \in Node, NEW d \in Node, NEW n \in Msgs(s, d)
        PROVE  MessageTrue(s, d, n)'
    <3>1. MessageTrue(s, d, n)
      BY <1>0 DEF MessageInv, Msgs
    <3>2. RunTrue(s, d, n) => RunTrue(s, d, n)'
      BY <1>1 DEF RunTrue
    <3>3. FinishTrue(s, d, n) => FinishTrue(s, d, n)'
      BY <1>1 DEF FinishTrue
    <3>4. RequestTrue(s, d, n) => RequestTrue(s, d, n)'
      BY <1>1 DEF RequestTrue
    <3>5. ~AckTrue(s, d, n) /\ ~ReplyTrue(s, d, n)
      BY <1>2 DEF AckTrue, ReplyTrue
    <3> QED BY <3>1, <3>2, <3>3, <3>4, <3>5 DEF MessageTrue
  <2> QED BY <1>4, <2>1 DEF MessageInv, Msgs
<1>9. AwaitInv' /\ KnownInv'
  BY <1>1, <1>2 DEF AwaitInv, KnownInv
<1> QED BY <1>0, <1>1, <1>4, <1>5, <1>6, <1>7, <1>8, <1>9 DEF ProtocolInv

(* A task is handed to a worker, which has no thread of it yet.            *)
LEMMA DispatchStep ==
  ASSUME TaskingInv, RuntimeDispatch
  PROVE  ProtocolInv' /\ WorkerTypeOK' /\ awaiting' \in Node
<1>0. /\ WorkerTypeOK /\ NetworkTypeOK /\ LockInv /\ ThreadInv /\ RequestInv /\ MessageInv
      /\ OrderInv /\ AwaitInv /\ KnownInv /\ awaiting \in Node /\ 0 \in Node
      /\ TablesAgree /\ RuntimeTypeOK
  BY Parts, Names
<1>1. /\ awaiting = 0 /\ run_task_on_node
      /\ UNCHANGED <<main, mutex, known, thread, merged, awaiting>>
  BY DEF RuntimeDispatch, workerVars
<1>2. PICK h \in Task, w \in Worker :
        /\ h = Head(ready_tasks) /\ Len(ready_tasks) \in Nat \ {0} /\ h = ready_tasks[1]
        /\ node' = [node EXCEPT ![h] = w]
        /\ UNCHANGED <<created_tasks, parent_id, finished, children_finished,
                       next_task_id, loop>>
  BY <1>0, <1>1, DispatchEffect
<1>3. w \in Node /\ w # 0
  BY Names
<1>q. h = next_task_id - Len(ready_tasks) /\ next_task_id \in Int /\ h \in Nat
  <2>1. next_task_id \in Int
    BY <1>0, TypeFacts, MaxTaskAssumption
  <2>2. h \in Nat
    BY MaxTaskAssumption DEF Task
  <2>3. 1 \in 1 .. Len(ready_tasks)
    BY <1>2
  <2>4. ready_tasks[1] = next_task_id - Len(ready_tasks) + 1 - 1
    BY <1>0, <2>3 DEF TablesAgree
  <2> QED BY <1>2, <2>1, <2>2, <2>4
<1>4. node[h] = 0
  BY <1>0, <1>q DEF TablesAgree
<1>5. /\ node'[h] = w /\ \A t \in Task : t # h => node'[t] = node[t]
  BY <1>0, <1>2, TypeFacts
<1>6. PICK o, m : o = origin_id(h) /\ m = [Msg("RUN_TASK", "task", h) EXCEPT !.origin = o]
  OBVIOUS
<1>7. m \in Message /\ m.tag = "RUN_TASK" /\ m.part = "task" /\ m.task = h /\ ~IsAck(m)
  <2>1. origin_id(h) \in Node
    <3>1. CASE h = Root
      BY <3>1, Names DEF origin_id
    <3>2. CASE h # Root
      <4>1. h \in created_tasks \ {Root}
        BY <1>0, <1>2, <1>q, <3>2 DEF TablesAgree
      <4>2. parent_id[h] \in Task
        BY <1>0, <4>1, CreatorsAssumption DEF TablesAgree
      <4>3. node[parent_id[h]] \in Node
        BY <1>0, <4>2, TypeFacts DEF Node
      <4> QED BY <3>2, <4>3 DEF origin_id
    <3> QED BY <3>1, <3>2
  <2>2. Msg("RUN_TASK", "task", h) \in Message
    BY MsgType DEF Tag, Part
  <2>3. Msg("RUN_TASK", "task", h) = [tag |-> "RUN_TASK", part |-> "task", task |-> h, origin |-> 0]
    BY DEF Msg
  <2> QED BY <1>6, <2>1, <2>2, <2>3 DEF Message, IsAck
<1>8. Send(0, w, m)
  BY <1>2, <1>5, <1>6 DEF RuntimeDispatch
<1>9. \A x \in Msgs(0, w) : ~SameSubject(x, m)
  BY <1>0, <1>3, <1>4, <1>7 DEF MessageInv, MessageTrue, RunTrue, SameSubject, Msgs
<1>10. /\ NetworkTypeOK' /\ OrderInv'
       /\ Msgs(0, w)' = Msgs(0, w) \cup {m}
       /\ \A x, y \in Node : <<x, y>> # <<0, w>> => Msgs(x, y)' = Msgs(x, y)
  BY <1>0, <1>3, <1>7, <1>8, <1>9, CountedSend DEF Counted
<1>11. WorkerTypeOK'
  BY <1>0, <1>1, <1>10, WorkerTypes DEF WorkerTypeOK
<1>12. LockInv'
  BY <1>0, <1>1 DEF LockInv
<1>13. ThreadInv'
  BY <1>0, <1>1, <1>2, <1>4, <1>5 DEF ThreadInv
<1>14. RequestInv'
  <2> SUFFICES ASSUME NEW v \in Worker
               PROVE  /\ TagKept(v)
                      /\ main[v].pc \in Requesting =>
                           node'[main[v].task] = v /\ thread[main[v].task].pc = "none"
    BY <1>1 DEF RequestInv, TagKept
  <2>1. main[v].task \in Task /\ v # 0
    BY <1>0, WorkerTypes, Names
  <2> QED BY <1>0, <1>4, <1>5, <2>1 DEF RequestInv
<1>15. MessageInv'
  <2>1. ASSUME NEW s \in Node, NEW d \in Node, NEW n \in Msgs(s, d)
        PROVE  MessageTrue(s, d, n)'
    <3>1. MessageTrue(s, d, n) /\ n.task \in Task
      BY <1>0, CountedAreMessages DEF MessageInv, Msgs
    <3>2. RunTrue(s, d, n) => RunTrue(s, d, n)'
      BY <1>1, <1>4, <1>5, <3>1 DEF RunTrue
    <3>3. FinishTrue(s, d, n) => FinishTrue(s, d, n)'
      BY <1>1, <1>2 DEF FinishTrue
    <3>4. RequestTrue(s, d, n) => RequestTrue(s, d, n)'
      BY <1>1 DEF RequestTrue
    <3>5. ~AckTrue(s, d, n) /\ ~ReplyTrue(s, d, n)
      BY <1>1 DEF AckTrue, ReplyTrue
    <3> QED BY <3>1, <3>2, <3>3, <3>4, <3>5 DEF MessageTrue
  <2>2. MessageTrue(0, w, m)'
    <3>1. thread[h].pc = "none"
      BY <1>0, <1>4 DEF ThreadInv
    <3>2. main[w].pc \in Requesting => main[w].task # h
      BY <1>0, <1>3, <1>4 DEF RequestInv
    <3> QED BY <3>1, <3>2, <1>1, <1>3, <1>5, <1>7 DEF MessageTrue, RunTrue
  <2>3. ASSUME NEW s \in Node, NEW d \in Node, NEW n \in Msgs(s, d)'
        PROVE  MessageTrue(s, d, n)'
    BY <1>10, <2>1, <2>2, <2>3
  <2> QED BY <2>3 DEF MessageInv, Msgs
<1>16. AwaitInv'
  BY <1>1 DEF AwaitInv
<1>17. KnownInv'
  <2> SUFFICES ASSUME NEW t \in created_tasks \ {Root}
               PROVE  t \in known[node'[parent_id[t]]]
    BY <1>1, <1>2 DEF KnownInv
  <2>1. parent_id[t] \in Task /\ node[parent_id[t]] # 0
    BY <1>0, CreatorsAssumption DEF TablesAgree
  <2> QED BY <1>0, <1>1, <1>4, <1>5, <2>1 DEF KnownInv
<1> QED BY <1>0, <1>1, <1>10, <1>11, <1>12, <1>13, <1>14, <1>15, <1>16, <1>17 DEF ProtocolInv

(* A request is answered with the next id, and the acknowledgement of that *)
(* worker awaited.                                                         *)
LEMMA CreateTaskStep ==
  ASSUME TaskingInv, NEW w \in Worker, RuntimeCreateTask(w)
  PROVE  ProtocolInv' /\ WorkerTypeOK' /\ awaiting' \in Node
<1>0. /\ WorkerTypeOK /\ NetworkTypeOK /\ LockInv /\ ThreadInv /\ RequestInv /\ MessageInv
      /\ OrderInv /\ AwaitInv /\ KnownInv /\ awaiting \in Node /\ 0 \in Node
      /\ TablesAgree /\ RuntimeTypeOK /\ w \in Node /\ w # 0 /\ <<w, 0>> # <<0, w>>
  BY Parts, Names
<1>m. PICK m, r, id : /\ m = Head(net[<<w, 0>>]) /\ id = next_task_id
                      /\ r = Msg("CREATE_TASK", "id", id)
  OBVIOUS
<1>1. /\ NextIs(w, "CREATE_TASK") /\ handle_create_task(m.task)
      /\ ReceiveAndSend(w, 0, "CREATE_TASK", w, <<r>>)
      /\ awaiting' = w /\ UNCHANGED <<main, mutex, known, thread, merged>>
  BY <1>m DEF RuntimeCreateTask, workerVars
<1>2. /\ m \in Msgs(w, 0) /\ m.tag = "CREATE_TASK" /\ m.part = "task"
      /\ m.task \in Task /\ m.task \in Creators
      /\ mutex[w] = m.task /\ node[m.task] = w /\ Given(m.task)
  BY <1>m, <1>1, CreateRequest
<1>3. awaiting = 0 /\ Arrived(w, 0, "CREATE_TASK") /\ Matched(w, 0, "CREATE_TASK") = m
  BY <1>m, <1>1, NextMessage
<1>4. /\ id \in Task /\ next_task_id' = id + 1 /\ loop = "run"
      /\ created_tasks' = created_tasks \cup {id}
      /\ parent_id' = [parent_id EXCEPT ![id] = m.task]
      /\ UNCHANGED <<finished, node, loop>>
  <2>1. Create(m.task)
    BY <1>1, <1>2 DEF Create
  <2> QED BY <1>0, <1>m, <1>2, <2>1, CreateEffect
<1>5. id \in Nat /\ id > 0 /\ id \notin created_tasks /\ node[id] = 0
  <2>1. id \in Nat
    BY <1>4, MaxTaskAssumption DEF Task
  <2>2. Len(ready_tasks) \in Nat
    BY <1>0, TypeFacts
  <2> QED BY <1>0, <1>m, <1>4, <2>1, <2>2 DEF TablesAgree
<1>6. /\ parent_id'[id] = m.task
      /\ \A t \in Task : t # id => parent_id'[t] = parent_id[t]
  BY <1>0, <1>4, TypeFacts
<1>7. r \in Message /\ r.tag = "CREATE_TASK" /\ r.part = "id" /\ r.task = id /\ ~IsAck(r)
  BY <1>m, <1>4, MsgType DEF Tag, Part, IsAck
<1>8. \A x \in Msgs(0, w) : ~SameSubject(x, r)
  BY <1>0, <1>3, <1>7
     DEF MessageInv, MessageTrue, RequestTrue, AckTrue, ReplyTrue, SameSubject, Msgs
<1>9. /\ NetworkTypeOK' /\ OrderInv'
      /\ Msgs(w, 0)' \subseteq Msgs(w, 0)
      /\ \A x \in Msgs(w, 0)' : ~SameSubject(x, m)
      /\ Msgs(0, w)' = Msgs(0, w) \cup {r}
      /\ \A x, y \in Node : <<x, y>> \notin {<<w, 0>>, <<0, w>>} => Msgs(x, y)' = Msgs(x, y)
  <2>1. "CREATE_TASK" \in Counted /\ r.tag \in Counted
    BY <1>7 DEF Counted
  <2>2. /\ NetworkTypeOK' /\ OrderInv'
        /\ Msgs(w, 0)' \subseteq Msgs(w, 0)
        /\ \A x \in Msgs(w, 0)' : ~SameSubject(x, Matched(w, 0, "CREATE_TASK"))
        /\ Msgs(0, w)' = Msgs(0, w) \cup (IF r.tag \in Counted THEN {r} ELSE {})
        /\ \A x, y \in Node : <<x, y>> \notin {<<w, 0>>, <<0, w>>} => Msgs(x, y)' = Msgs(x, y)
    BY <1>0, <1>1, <1>3, <1>7, <1>8, <2>1, CountedAnswer
  <2> QED BY <1>3, <2>1, <2>2
<1>10. WorkerTypeOK'
  BY <1>0, <1>1, <1>9, WorkerTypes DEF WorkerTypeOK
<1>11. LockInv'
  BY <1>0, <1>1 DEF LockInv
<1>12. ThreadInv'
  BY <1>0, <1>1, <1>4 DEF ThreadInv
<1>13. RequestInv'
  BY <1>0, <1>1, <1>4 DEF RequestInv, TagKept
<1>14. MessageInv'
  <2>1. ASSUME NEW s \in Node, NEW d \in Node, NEW n \in Msgs(s, d)
        PROVE  MessageTrue(s, d, n)'
    <3>1. MessageTrue(s, d, n)
      BY <1>0 DEF MessageInv, Msgs
    <3>2. RunTrue(s, d, n) => RunTrue(s, d, n)'
      BY <1>1, <1>4 DEF RunTrue
    <3>3. FinishTrue(s, d, n) => FinishTrue(s, d, n)'
      BY <1>1, <1>4 DEF FinishTrue
    <3>4. RequestTrue(s, d, n) => RequestTrue(s, d, n)'
      BY <1>1 DEF RequestTrue
    <3>5. ~AckTrue(s, d, n) /\ ~ReplyTrue(s, d, n)
      BY <1>3 DEF AckTrue, ReplyTrue
    <3> QED BY <3>1, <3>2, <3>3, <3>4, <3>5 DEF MessageTrue
  <2>2. MessageTrue(0, w, r)'
    <3>1. id = next_task_id' - 1 /\ mutex'[w] \in Task /\ parent_id'[id] = mutex'[w]
      BY <1>1, <1>2, <1>4, <1>5, <1>6
    <3> QED BY <3>1, <1>0, <1>1, <1>7 DEF MessageTrue, ReplyTrue
  <2>3. ASSUME NEW s \in Node, NEW d \in Node, NEW n \in Msgs(s, d)'
        PROVE  MessageTrue(s, d, n)'
    <3>1. n \in Msgs(s, d) \/ (<<s, d>> = <<0, w>> /\ n = r)
      BY <1>9, <2>3
    <3> QED BY <3>1, <2>1, <2>2, <2>3
  <2> QED BY <2>3 DEF MessageInv, Msgs
<1>15. AwaitInv'
  <2>1. Creating(0, w)'
    BY <1>7, <1>9 DEF Creating, Msgs
  <2>2. ~Creating(w, 0)'
    <3>1. \A n \in Msgs(w, 0) : n.tag = "CREATE_TASK" => SameSubject(n, m)
      BY <1>0, <1>2, <1>3
         DEF MessageInv, MessageTrue, RequestTrue, AckTrue, ReplyTrue, SameSubject, Msgs
    <3>2. \A n \in Msgs(w, 0)' : n.tag # "CREATE_TASK"
      BY <3>1, <1>9
    <3> QED BY <3>2 DEF Creating, Msgs
  <2>3. next_task_id' - 1 = id /\ next_task_id' > 1
    BY <1>4, <1>5
  <2> QED BY <1>1, <1>4, <1>5, <2>1, <2>2, <2>3 DEF AwaitInv
<1>16. KnownInv'
  <2> SUFFICES ASSUME NEW t \in created_tasks' \ {Root}
               PROVE  \/ t \in known'[node'[parent_id'[t]]]
                      \/ awaiting' = node'[parent_id'[t]] /\ t = next_task_id' - 1
    BY DEF KnownInv
  <2>1. CASE t = id
    BY <2>1, <1>1, <1>2, <1>4, <1>5, <1>6
  <2>2. CASE t # id
    <3>1. t \in created_tasks \ {Root} /\ t \in Task
      BY <2>2, <1>0, <1>4, TypeFacts
    <3> QED BY <3>1, <2>2, <1>0, <1>1, <1>3, <1>4, <1>6, Names, WorkerTypes
            DEF KnownInv, TablesAgree
  <2> QED BY <2>1, <2>2
<1> QED BY <1>0, <1>1, <1>9, <1>10, <1>11, <1>12, <1>13, <1>14, <1>15, <1>16 DEF ProtocolInv

(* What the runtime process takes for the acknowledgement it awaits is the *)
(* acknowledgement of the task last created: a request that another thread *)
(* of that worker has sent since is behind it.                             *)
LEMMA AwaitedAck ==
  ASSUME TaskingInv, awaiting # 0, Arrived(awaiting, 0, "CREATE_TASK")
  PROVE  LET m == Matched(awaiting, 0, "CREATE_TASK")
         IN  /\ m \in Msgs(awaiting, 0) /\ m.tag = "CREATE_TASK" /\ m.part = "ack"
             /\ m.task = next_task_id - 1 /\ m.task \in known[awaiting]
             /\ ~Creating(0, awaiting)
<1>w. PICK w, m : w = awaiting /\ m = Matched(w, 0, "CREATE_TASK")
  OBVIOUS
<1>0. /\ WorkerTypeOK /\ NetworkTypeOK /\ MessageInv /\ OrderInv /\ AwaitInv
      /\ 0 \in Node /\ w \in Node /\ w # 0
  BY <1>w, Parts, Names
<1>1. m \in Msgs(w, 0) /\ m.tag = "CREATE_TASK"
  BY <1>w, <1>0, CountedWithout DEF Counted
<1>2. ~Creating(0, w) /\ Acknowledged(w, 0)
  BY <1>w, <1>0, <1>1 DEF AwaitInv, Creating, Msgs
<1> DEFINE q == net[<<w, 0>>]
<1>3. PICK i \in 1 .. Len(q) :
        /\ \A j \in 1 .. Len(q) : q[j].tag = "CREATE_TASK" => i <= j
        /\ m = q[i]
  BY <1>w, <1>0, FirstMatch
<1>4. PICK j \in 1 .. Len(q) : IsAck(q[j])
  BY <1>2 DEF Acknowledged, CountedIn, InChannel
<1>5. q[j].tag = "CREATE_TASK" /\ i <= j /\ Len(q) \in Nat
  <2>1. q \in Seq(Message)
    BY <1>0 DEF NetworkTypeOK
  <2> QED BY <2>1, <1>3, <1>4 DEF IsAck
<1>6. m.part = "ack"
  <2> SUFFICES ASSUME m.part # "ack" PROVE FALSE
    OBVIOUS
  <2>1. IsRequest(q[i])
    BY <1>1, <1>3 DEF IsRequest
  <2>2. j < i
    BY <1>0, <1>4, <2>1 DEF OrderInv, Ordered, AckFirst
  <2> QED BY <1>5, <2>2
<1>7. AckTrue(w, 0, m)
  BY <1>0, <1>1, <1>6 DEF MessageInv, MessageTrue, RequestTrue, ReplyTrue, Msgs
<1> QED BY <1>w, <1>1, <1>2, <1>6, <1>7 DEF AckTrue

(* It is received: the task is known where it was created.                 *)
LEMMA TaskSetUpStep ==
  ASSUME TaskingInv, RuntimeTaskSetUp
  PROVE  ProtocolInv' /\ WorkerTypeOK' /\ awaiting' \in Node
<1>w. PICK w, m : w = awaiting /\ m = Matched(w, 0, "CREATE_TASK")
  OBVIOUS
<1>0. /\ WorkerTypeOK /\ NetworkTypeOK /\ LockInv /\ ThreadInv /\ RequestInv /\ MessageInv
      /\ OrderInv /\ AwaitInv /\ KnownInv /\ 0 \in Node
      /\ w \in Node /\ w # 0
  BY <1>w, Parts, Names DEF RuntimeTaskSetUp
<1>1. /\ awaiting' = 0 /\ Arrived(w, 0, "CREATE_TASK") /\ Receive(w, 0, "CREATE_TASK")
      /\ UNCHANGED <<main, mutex, known, thread, merged>>
      /\ UNCHANGED <<created_tasks, parent_id, finished, node, next_task_id, loop>>
  BY <1>w DEF RuntimeTaskSetUp, workerVars, runtimeVars
<1>2. /\ m \in Msgs(w, 0) /\ m.tag = "CREATE_TASK" /\ m.part = "ack"
      /\ m.task = next_task_id - 1 /\ m.task \in known[w] /\ ~Creating(0, w)
  BY <1>w, <1>0, <1>1, AwaitedAck
<1>3. /\ NetworkTypeOK' /\ OrderInv'
      /\ Msgs(w, 0)' \subseteq Msgs(w, 0)
      /\ \A x \in Msgs(w, 0)' : ~SameSubject(x, m)
      /\ \A x, y \in Node : <<x, y>> # <<w, 0>> => Msgs(x, y)' = Msgs(x, y)
  BY <1>w, <1>0, <1>1, CountedReceive DEF Counted
<1>4. WorkerTypeOK'
  BY <1>0, <1>1, <1>3, WorkerTypes DEF WorkerTypeOK
<1>5. LockInv' /\ ThreadInv'
  BY <1>0, <1>1 DEF LockInv, ThreadInv
<1>6. RequestInv'
  BY <1>0, <1>1 DEF RequestInv, TagKept
<1>7. MessageInv'
  <2>1. ASSUME NEW s \in Node, NEW d \in Node, NEW n \in Msgs(s, d), n \in Msgs(s, d)'
        PROVE  MessageTrue(s, d, n)'
    <3>1. MessageTrue(s, d, n)
      BY <1>0 DEF MessageInv, Msgs
    <3>2. RunTrue(s, d, n) => RunTrue(s, d, n)'
      BY <1>1 DEF RunTrue
    <3>3. FinishTrue(s, d, n) => FinishTrue(s, d, n)'
      BY <1>1 DEF FinishTrue
    <3>4. RequestTrue(s, d, n) => RequestTrue(s, d, n)'
      BY <1>1 DEF RequestTrue
    <3>5. n.tag = "CREATE_TASK" => ~AckTrue(s, d, n)
      BY <1>w, <1>2, <1>3, <2>1 DEF AckTrue, SameSubject
    <3>6. n.tag = "CREATE_TASK" => ~ReplyTrue(s, d, n)
      BY <1>w, <1>2, <2>1 DEF ReplyTrue, Creating, Msgs
    <3> QED BY <3>1, <3>2, <3>3, <3>4, <3>5, <3>6 DEF MessageTrue
  <2>2. \A x, y \in Node : Msgs(x, y)' \subseteq Msgs(x, y)
    BY <1>3
  <2> QED BY <2>1, <2>2 DEF MessageInv, Msgs
<1>8. AwaitInv'
  BY <1>1 DEF AwaitInv
<1>9. KnownInv'
  BY <1>w, <1>0, <1>1, <1>2 DEF KnownInv
<1> QED BY <1>0, <1>1, <1>3, <1>4, <1>5, <1>6, <1>7, <1>8, <1>9 DEF ProtocolInv

(* The report of the end of a task is received.                            *)
LEMMA FinishTaskStep ==
  ASSUME TaskingInv, NEW w \in Worker, RuntimeFinishTask(w)
  PROVE  ProtocolInv' /\ WorkerTypeOK' /\ awaiting' \in Node
<1>m. PICK m : m = Head(net[<<w, 0>>])
  OBVIOUS
<1>0. /\ WorkerTypeOK /\ NetworkTypeOK /\ LockInv /\ ThreadInv /\ RequestInv /\ MessageInv
      /\ OrderInv /\ AwaitInv /\ KnownInv /\ 0 \in Node /\ RuntimeTypeOK
      /\ w \in Node /\ w # 0
  BY Parts, Names
<1>1. /\ NextIs(w, "FINISH_TASK") /\ Receive(w, 0, "FINISH_TASK")
      /\ handle_finish_task(m.task, w) \/ finish_crashes(m.task)
      /\ UNCHANGED <<main, mutex, known, thread, merged, awaiting>>
  BY <1>m DEF RuntimeFinishTask, workerVars
<1>2. /\ m \in Msgs(w, 0) /\ m.tag = "FINISH_TASK" /\ m.part = "task"
      /\ m.task \in Task /\ thread[m.task].pc = "ended" /\ thread[m.task].host = w
  BY <1>m, <1>1, FinishReport
<1>3. awaiting = 0 /\ Arrived(w, 0, "FINISH_TASK") /\ Matched(w, 0, "FINISH_TASK") = m
  BY <1>m, <1>1, NextMessage
<1>4. /\ UNCHANGED <<created_tasks, parent_id, node, next_task_id>>
      /\ \A t \in Task : t # m.task => finished'[t] = finished[t]
  <2>1. finished' \in {finished, [finished EXCEPT ![m.task] = TRUE]}
    BY <1>1 DEF handle_finish_task, set_finished, finish_crashes, schedulerVars
  <2> QED BY <1>0, <1>1, <2>1, TypeFacts DEF handle_finish_task, finish_crashes, schedulerVars
<1>5. /\ NetworkTypeOK' /\ OrderInv'
      /\ Msgs(w, 0)' \subseteq Msgs(w, 0)
      /\ \A x \in Msgs(w, 0)' : ~SameSubject(x, m)
      /\ \A x, y \in Node : <<x, y>> # <<w, 0>> => Msgs(x, y)' = Msgs(x, y)
  BY <1>0, <1>1, <1>3, CountedReceive DEF Counted
<1>6. WorkerTypeOK'
  BY <1>0, <1>1, <1>5, WorkerTypes DEF WorkerTypeOK
<1>7. LockInv'
  BY <1>0, <1>1 DEF LockInv
<1>8. ThreadInv'
  BY <1>0, <1>1, <1>2, <1>4 DEF ThreadInv
<1>9. RequestInv'
  BY <1>0, <1>1, <1>4 DEF RequestInv, TagKept
<1>10. MessageInv'
  <2>1. ASSUME NEW s \in Node, NEW d \in Node, NEW n \in Msgs(s, d), n \in Msgs(s, d)'
        PROVE  MessageTrue(s, d, n)'
    <3>1. MessageTrue(s, d, n) /\ n.task \in Task
      BY <1>0, CountedAreMessages DEF MessageInv, Msgs
    <3>2. RunTrue(s, d, n) => RunTrue(s, d, n)'
      BY <1>1, <1>4 DEF RunTrue
    <3>3. n.tag = "FINISH_TASK" /\ FinishTrue(s, d, n) => FinishTrue(s, d, n)'
      BY <1>1, <1>2, <1>4, <1>5, <2>1, <3>1 DEF FinishTrue, SameSubject
    <3>4. RequestTrue(s, d, n) => RequestTrue(s, d, n)'
      BY <1>1 DEF RequestTrue
    <3>5. ~AckTrue(s, d, n) /\ ~ReplyTrue(s, d, n)
      BY <1>3 DEF AckTrue, ReplyTrue
    <3> QED BY <3>1, <3>2, <3>3, <3>4, <3>5 DEF MessageTrue
  <2>2. \A x, y \in Node : Msgs(x, y)' \subseteq Msgs(x, y)
    BY <1>5
  <2> QED BY <2>1, <2>2 DEF MessageInv, Msgs
<1>11. AwaitInv'
  BY <1>1, <1>3 DEF AwaitInv
<1>12. KnownInv'
  BY <1>0, <1>1, <1>4 DEF KnownInv
<1> QED BY <1>0, <1>1, <1>3, <1>5, <1>6, <1>7, <1>8, <1>9, <1>10, <1>11, <1>12 DEF ProtocolInv

(* The two steps of the runtime process that the protocol does not see.    *)
LEMMA QuietRuntime ==
  ASSUME TaskingInv, RuntimeShutdown \/ \E w \in Worker : RuntimeReportCapacity(w)
  PROVE  Quiet /\ WorkerTypeOK' /\ awaiting' \in Node
<1>0. /\ WorkerTypeOK /\ NetworkTypeOK /\ LockInv /\ RequestInv /\ awaiting \in Node /\ 0 \in Node
  BY Parts, Names
<1>1. /\ UNCHANGED <<main, mutex, known, thread, merged, awaiting>>
      /\ UNCHANGED <<created_tasks, parent_id, finished, node, next_task_id>>
      /\ awaiting # 0 => loop' = loop
  BY DEF RuntimeShutdown, RuntimeReportCapacity, shutdown, schedulerVars, workerVars, runtimeVars
<1>2. NetworkTypeOK' /\ \A s, d \in Node : Unseen(net[<<s, d>>], net'[<<s, d>>])
  <2>1. ASSUME NEW w \in Worker, RuntimeReportCapacity(w)
        PROVE  NetworkTypeOK' /\ \A s, d \in Node : Unseen(net[<<s, d>>], net'[<<s, d>>])
    <3>1. w \in Node /\ Arrived(w, 0, "REPORT_CAPACITY") /\ Receive(w, 0, "REPORT_CAPACITY")
      BY <2>1, NextMessage DEF RuntimeReportCapacity
    <3>2. "REPORT_CAPACITY" \notin Counted
      BY DEF Counted
    <3>3. /\ NetworkTypeOK'
          /\ \A x, y \in Node : Unseen(net[<<x, y>>], net'[<<x, y>>])
      BY <1>0, <3>1, <3>2, ReceiveEffect
    <3> QED BY <3>3
  <2>2. ASSUME RuntimeShutdown
        PROVE  NetworkTypeOK' /\ \A s, d \in Node : Unseen(net[<<s, d>>], net'[<<s, d>>])
    <3>m. PICK m : m = Msg("SHUTDOWN", "none", Root)
      OBVIOUS
    <3>1. m \in Message /\ m.tag \notin Counted
      BY <3>m, MsgType, Names DEF Tag, Part, Counted
    <3>2. /\ net' = [sd \in Node \X Node |->
                       IF sd[1] = 0 /\ sd[2] # 0 THEN Append(net[sd], m) ELSE net[sd]]
          /\ \A s, d \in Node : net[<<s, d>>] \in Seq(Message)
      BY <1>0, <2>2, <3>m DEF RuntimeShutdown, NetworkTypeOK
    <3>3. ASSUME NEW s \in Node, NEW d \in Node
          PROVE  net'[<<s, d>>] \in Seq(Message) /\ Unseen(net[<<s, d>>], net'[<<s, d>>])
      <4>1. CASE s = 0 /\ d # 0
        <5>1. net'[<<s, d>>] = Append(net[<<s, d>>], m)
          BY <3>2, <4>1
        <5> QED BY <3>1, <3>2, <5>1, AppendOne
      <4>2. CASE ~(s = 0 /\ d # 0)
        <5>1. net'[<<s, d>>] = net[<<s, d>>]
          BY <3>2, <4>2
        <5> QED BY <3>2, <5>1 DEF Unseen
      <4> QED BY <4>1, <4>2
    <3>4. \A sd \in Node \X Node : net'[sd] \in Seq(Message)
      BY <3>3
    <3>5. NetworkTypeOK'
      BY <3>2, <3>4 DEF NetworkTypeOK
    <3> QED BY <3>3, <3>5
  <2> QED BY <2>1, <2>2
<1>3. \A t \in Task : QuietThread(t)
  BY <1>1 DEF QuietThread
<1>4. \A w \in Worker : QuietMain(w)
  BY <1>0, <1>1 DEF QuietMain, LockInv, RequestInv, TagKept
<1>5. WorkerTypeOK'
  BY <1>0, <1>1, <1>2, WorkerTypes DEF WorkerTypeOK
<1> QED BY <1>0, <1>1, <1>2, <1>3, <1>4, <1>5 DEF Quiet

------------------------------------------------------------------------------
(* Every step of the program keeps the protocol part of the invariant.     *)
LEMMA ProtocolStep ==
  ASSUME TaskingInv, [Next]_vars
  PROVE  ProtocolInv' /\ WorkerTypeOK' /\ awaiting' \in Node
<1> DEFINE Goal == ProtocolInv' /\ WorkerTypeOK' /\ awaiting' \in Node
<1>0. awaiting \in Node /\ WorkerTypeOK /\ NetworkTypeOK /\ LockInv /\ RequestInv
  BY Parts
<1>q. ASSUME Quiet, WorkerTypeOK' PROVE Goal
  BY <1>0, <1>q, QuietStep DEF Quiet
<1> SUFFICES Goal
  OBVIOUS
<1> HIDE DEF Goal
<1>1. ASSUME RuntimeStep PROVE Goal
  <2>1. CASE RuntimeShutdown \/ \E w \in Worker : RuntimeReportCapacity(w)
    BY <2>1, QuietRuntime, <1>q
  <2>2. CASE RuntimeSetup
    BY <2>2, SetupStep DEF Goal
  <2>3. CASE RuntimeDispatch
    BY <2>3, DispatchStep DEF Goal
  <2>4. CASE RuntimeTaskSetUp
    BY <2>4, TaskSetUpStep DEF Goal
  <2>5. ASSUME NEW w \in Worker, RuntimeCreateTask(w) PROVE Goal
    BY <2>5, CreateTaskStep DEF Goal
  <2>6. ASSUME NEW w \in Worker, RuntimeFinishTask(w) PROVE Goal
    BY <2>6, FinishTaskStep DEF Goal
  <2> QED BY <1>1, <2>1, <2>2, <2>3, <2>4, <2>5, <2>6 DEF RuntimeStep
<1>2. ASSUME NEW w \in Worker, MainThreadStep(w) PROVE Goal
  <2>0. UNCHANGED <<runtimeVars, awaiting>> /\ MainStep(w)
    BY <1>2 DEF MainThreadStep
  <2>1. CASE QuietMainStep(w)
    <3>1. \A s, d \in Node : Unseen(net[<<s, d>>], net'[<<s, d>>])
      BY <1>0, <2>1, QuietMainNet
    <3>2. /\ UNCHANGED <<known, thread>> /\ WorkerTypeOK'
          /\ \A v \in Worker : QuietMain(v)
      BY <2>1, QuietMainLock
    <3>3. \A t \in Task : QuietThread(t)
      BY <3>2 DEF QuietThread
    <3>4. Quiet
      BY <2>0, <3>1, <3>2, <3>3 DEF Quiet, runtimeVars
    <3> QED BY <3>2, <3>4, <1>q
  <2>2. CASE handle_run_task(w)
    BY <1>0, <2>0, <2>2, RunTaskStep DEF Goal
  <2>3. CASE request_memory_data(w)
    BY <1>0, <2>0, <2>3, RequestDataStep DEF Goal
  <2> QED BY <2>0, <2>1, <2>2, <2>3 DEF MainStep, QuietMainStep
<1>3. ASSUME NEW t \in Task, TaskCreates(t) \/ TaskFinishes(t) PROVE Goal
  <2>0. UNCHANGED <<runtimeVars, awaiting>> /\ (CreateStep(t) \/ FinishStep(t))
    BY <1>3 DEF TaskCreates, TaskFinishes
  <2>1. CASE QuietTaskStep(t)
    BY <2>0, <2>1, QuietTask, <1>q
  <2>2. CASE handle_create_task_send(t)
    BY <1>0, <2>0, <2>2, SendRequestStep DEF Goal
  <2>3. CASE handle_create_task_reply(t)
    BY <1>0, <2>0, <2>3, TakeReplyStep DEF Goal
  <2>4. CASE handle_finish_task_send(t)
    BY <1>0, <2>0, <2>4, SendFinishStep DEF Goal
  <2> QED BY <2>0, <2>1, <2>2, <2>3, <2>4 DEF CreateStep, FinishStep, QuietTaskStep
<1>4. ASSUME UNCHANGED vars PROVE Goal
  <2>1. /\ UNCHANGED <<main, mutex, known, thread, merged, awaiting, net>>
        /\ UNCHANGED <<created_tasks, parent_id, finished, node, next_task_id, loop>>
    BY <1>4 DEF vars
  <2>2. NetworkTypeOK' /\ \A s, d \in Node : Unseen(net[<<s, d>>], net'[<<s, d>>])
    BY <1>0, <2>1, NetUnchanged
  <2>3. Quiet
    BY <1>0, <2>1, <2>2
       DEF Quiet, QuietThread, QuietMain, LockInv, RequestInv, TagKept
  <2>4. WorkerTypeOK'
    BY <1>0, <2>1, <2>2, WorkerTypes DEF WorkerTypeOK
  <2> QED BY <2>3, <2>4, <1>q
<1> QED BY <1>1, <1>2, <1>3, <1>4 DEF Next

(* The initial state satisfies the invariant: there are no messages.       *)
LEMMA TaskingInit == Init => TaskingInv
<1> SUFFICES ASSUME Init PROVE TaskingInv
  OBVIOUS
<1>1. RuntimeInit /\ WorkerInit /\ awaiting = 0
  BY DEF Init
<1>2. RuntimeInv
  BY <1>1, InitInv
<1>3. /\ net = [sd \in Node \X Node |-> << >>] /\ main = [w \in Worker |-> At("setup")]
      /\ mutex = [w \in Worker |-> Free] /\ known = [w \in Worker |-> {}]
      /\ thread = [t \in Task |-> [pc |-> "none", host |-> 0, origin |-> 0]] /\ merged = {}
  BY <1>1 DEF WorkerInit, NetworkInit
<1>4. TaskingTypeOK
  <2>1. NetworkTypeOK
    BY <1>3 DEF NetworkTypeOK
  <2>2. WorkerTypeOK
    BY <1>3, <2>1, Names DEF WorkerTypeOK, At, MainPC, ThreadPC
  <2> QED BY <1>1, <1>2, <2>2, Names DEF TaskingTypeOK, RuntimeInv
<1>5. LockInv
  BY <1>3, Names DEF LockInv, At, Locking
<1>6. ThreadInv
  <2>1. finished = [t \in Task |-> FALSE]
    BY <1>1 DEF RuntimeInit, SchedulerInit
  <2> QED BY <1>3, <2>1 DEF ThreadInv
<1>7. RequestInv
  BY <1>3 DEF RequestInv, TagKept, At, Requesting
<1>8. \A s, d \in Node : net[<<s, d>>] = << >>
  BY <1>3
<1>9. MessageInv /\ OrderInv
  BY <1>8 DEF MessageInv, OrderInv, CountedIn, InChannel, Ordered, NoneTwice, AckFirst
<1>10. AwaitInv
  BY <1>1 DEF AwaitInv
<1>11. KnownInv
  BY <1>1 DEF KnownInv, RuntimeInit, SchedulerInit
<1> QED BY <1>2, <1>4, <1>5, <1>6, <1>7, <1>9, <1>10, <1>11 DEF TaskingInv, ProtocolInv

(* The invariant is inductive.                                             *)
LEMMA TaskingStep == TaskingInv /\ [Next]_vars => TaskingInv'
<1> SUFFICES ASSUME TaskingInv, [Next]_vars PROVE TaskingInv'
  OBVIOUS
<1>1. [RuntimeNext]_runtimeVars
  BY RuntimeStepMaps
<1>2. RuntimeInv
  BY Parts
<1>3. RuntimeInv'
  BY <1>1, <1>2, TypeStep, AgreeStep, CapacityStep, FlagsStep DEF RuntimeInv
<1>4. ProtocolInv' /\ WorkerTypeOK' /\ awaiting' \in Node
  BY ProtocolStep
<1>5. TaskingTypeOK'
  BY <1>3, <1>4 DEF TaskingTypeOK, RuntimeInv, Node
<1> QED BY <1>3, <1>4, <1>5 DEF TaskingInv

(* TaskingInv holds of every reachable state.                              *)
THEOREM TaskingInvariance == Spec => []TaskingInv
BY TaskingInit, TaskingStep, PTL DEF Spec


(* Every variable of the program keeps its type.                           *)
THEOREM TaskingTypes == Spec => []TaskingTypeOK
<1>1. TaskingInv => TaskingTypeOK
  BY DEF TaskingInv
<1> QED BY <1>1, TaskingInvariance, PTL

------------------------------------------------------------------------------
(* With the worker processes and the messages between, the runtime process *)
(* is the one of module Runtime: workers never ask for more than its       *)
(* environment may, only a task that was handed out and is not finished    *)
(* creates another or ends, and it ends once.                              *)
THEOREM ImplementsRuntime == Spec => RuntimeSpec
<1>1. Init => RuntimeInit
  BY DEF Init
<1> QED BY <1>1, RuntimeStepMaps, TaskingInvariance, PTL DEF Spec, RuntimeSpec

(* So what is true of the tables is true of the whole program: ids, queue  *)
(* and nodes agree, no capacity is lost or invented, and run does not end  *)
(* for a reason other than a finished child.                               *)
THEOREM ProgramKeepsTables == Spec => []RuntimeInv
BY ImplementsRuntime, RuntimeInvariance, PTL

(* The whole program implements the abstract pool of tasks: each task is   *)
(* started once, in id order, on a least loaded worker with capacity left. *)
THEOREM ProgramIsTaskPool == Spec => ImplementsTaskPool
BY ImplementsRuntime, PoolTheorem, PTL

(* What the end of run means in Runtime it means in the program: every     *)
(* child of the root task has finished or has a finished child, and the    *)
(* end of a flat program is noticed.                                       *)
THEOREM ProgramEnds == Spec => []ExitSound /\ []FlatEndDetected
BY ImplementsRuntime, ExitTheorem, FlatEndTheorem, PTL

------------------------------------------------------------------------------
(* What handle_create_task takes for the acknowledgement of the task it    *)
(* just created is that acknowledgement.                                   *)
THEOREM AckTheorem == Spec => []AckMatches
<1>1. TaskingInv => AckMatches
  BY AwaitedAck DEF AckMatches
<1> QED BY <1>1, TaskingInvariance, PTL

(* The main thread, which holds the lock when it receives, never takes the *)
(* reply to a thread that creates a task: that thread holds the lock then. *)
THEOREM ReplyTheorem == Spec => []ReplyReachesThread
<1>1. TaskingInv => ReplyReachesThread
  <2> SUFFICES ASSUME TaskingInv, NEW w \in Worker, Received(w, "CREATE_TASK") PROVE FALSE
    BY DEF ReplyReachesThread
  <2>0. /\ WorkerTypeOK /\ NetworkTypeOK /\ LockInv /\ MessageInv /\ OrderInv
        /\ w \in Node /\ w # 0
    BY Parts, Names
  <2>p. PICK p, m : p = main[w].peer /\ m = Matched(p, w, "CREATE_TASK")
    OBVIOUS
  <2>1. p \in Node /\ main[w].pc = "recv" /\ Arrived(p, w, "CREATE_TASK")
    BY <2>0, <2>p, IncomingType
  <2>2. m \in Msgs(p, w) /\ m.tag = "CREATE_TASK"
    BY <2>0, <2>p, <2>1, CountedWithout DEF Counted
  <2>3. mutex[w] \in Task
    BY <2>0, <2>1, <2>2
       DEF MessageInv, MessageTrue, RequestTrue, AckTrue, ReplyTrue, Msgs
  <2>4. mutex[w] = MainThread
    BY <2>0, <2>1 DEF LockInv, Locking
  <2> QED BY <2>3, <2>4, Names
<1> QED BY <1>1, TaskingInvariance, PTL

(* The id a thread is given is that of the task it asked for.              *)
THEOREM IdTheorem == Spec => []IdReachesCreator
<1>1. TaskingInv => IdReachesCreator
  BY ReplyFacts DEF IdReachesCreator
<1> QED BY <1>1, TaskingInvariance, PTL

(* No task is handed out before the worker it was created on knows it.     *)
THEOREM OriginTheorem == Spec => []OriginKnowsTask
<1>1. TaskingInv => OriginKnowsTask
  <2> SUFFICES ASSUME TaskingInv, NEW t \in Task \ {Root}, node[t] # 0
               PROVE  t \in known[origin_id(t)]
    BY DEF OriginKnowsTask
  <2>0. TablesAgree /\ RuntimeInv /\ RuntimeTypeOK /\ AwaitInv /\ KnownInv
    BY Parts
  <2>1. t \in created_tasks
    BY <2>0, StartedIsCreated
  <2>2. node[parent_id[t]] # 0
    BY <2>0, <2>1 DEF TablesAgree
  <2>3. ~(awaiting = node[parent_id[t]] /\ t = next_task_id - 1)
    BY <2>0, <2>2 DEF AwaitInv
  <2> QED BY <2>0, <2>1, <2>3 DEF KnownInv, origin_id
<1> QED BY <1>1, TaskingInvariance, PTL

(* What really happens on a worker, the orders still on their way to it    *)
(* included, is covered by its account in the runtime process.             *)
LEMMA BusyIsAccounted ==
  ASSUME TaskingInv, NEW w \in Worker
  PROVE  Busy(w) \subseteq RunningOn(w)
<1>0. /\ WorkerTypeOK /\ NetworkTypeOK /\ ThreadInv /\ RequestInv /\ MessageInv
      /\ 0 \in Node /\ w \in Node /\ w # 0
  BY Parts, Names
<1>1. ASSUME NEW t \in Task, node[t] = w, thread[t].pc # "ended" PROVE t \in RunningOn(w)
  BY <1>0, <1>1 DEF ThreadInv, RunningOn
<1>2. ASSUME NEW t \in Task, thread[t].host = w, thread[t].pc # "ended"
      PROVE  t \in RunningOn(w)
  BY <1>0, <1>1, <1>2 DEF ThreadInv
<1>3. ASSUME main[w].pc \in Requesting PROVE main[w].task \in RunningOn(w)
  <2>1. main[w].task \in Task
    BY <1>0, WorkerTypes
  <2>2. node[main[w].task] = w /\ thread[main[w].task].pc = "none"
    BY <1>0, <1>3 DEF RequestInv
  <2> QED BY <1>1, <2>1, <2>2
<1>4. ASSUME NEW i \in Tagged(0, w, "RUN_TASK") PROVE net[<<0, w>>][i].task \in RunningOn(w)
  <2>m. PICK m : m = net[<<0, w>>][i]
    OBVIOUS
  <2>1. m \in CountedIn(net[<<0, w>>]) /\ m.tag = "RUN_TASK"
    BY <2>m DEF Tagged, CountedIn, InChannel, Counted
  <2>2. m.task \in Task /\ RunTrue(0, w, m)
    BY <1>0, <2>1, CountedAreMessages DEF MessageInv, MessageTrue
  <2>3. m.task \in RunningOn(w)
    BY <1>1, <2>2 DEF RunTrue
  <2> QED BY <2>m, <2>3
<1> QED BY <1>2, <1>3, <1>4 DEF Busy, Requesting

(* So they are no more than the capacity of the worker.                    *)
LEMMA BusyBounded ==
  ASSUME TaskingInv, NEW w \in Worker
  PROVE  Cardinality(Busy(w)) <= Capacity
<1>0. RuntimeInv /\ TablesAgree /\ RuntimeTypeOK /\ w # 0
  BY Parts, Names
<1>1. /\ IsFiniteSet(RunningOn(w)) /\ Cardinality(RunningOn(w)) \in Nat
      /\ Capacity \in Nat
  BY RunningFinite, CapacityAssumption
<1>2. Cardinality(RunningOn(w)) <= Capacity
  <2>1. CASE loop = "setup"
    <3>1. \A t \in Task : node[t] = 0
      <4>1. \A t \in Task : t \in Nat
        BY MaxTaskAssumption DEF Task
      <4>2. next_task_id = 0 /\ Len(ready_tasks) \in Nat
        BY <1>0, <2>1, TypeFacts DEF TablesAgree
      <4> QED BY <1>0, <4>1, <4>2 DEF TablesAgree
    <3>2. RunningOn(w) = {}
      BY <1>0, <3>1 DEF RunningOn
    <3> QED BY <1>1, <3>2, FS_EmptySet
  <2>2. CASE loop # "setup"
    <3>1. /\ free_capacity[w] = Capacity - Cardinality(RunningOn(w))
          /\ free_capacity[w] >= 0
      BY <1>0, <2>2 DEF RuntimeInv, CapacityConserved
    <3> QED BY <1>1, <3>1
  <2> QED BY <2>1, <2>2
<1>3. Cardinality(Busy(w)) \in Nat /\ Cardinality(Busy(w)) <= Cardinality(RunningOn(w))
  BY <1>1, BusyIsAccounted, FS_Subset, FS_CardinalityType
<1> QED BY <1>1, <1>2, <1>3

(* No worker is ever given more than it offered: started and unfinished    *)
(* tasks, the one waiting for its variables and those still on their way   *)
(* stay within its capacity.                                               *)
THEOREM BusyTheorem == Spec => []CapacityRespected
<1>1. TaskingInv => CapacityRespected
  BY BusyBounded DEF CapacityRespected
<1> QED BY <1>1, TaskingInvariance, PTL

------------------------------------------------------------------------------
(* Which messages of the transfer protocols a step moves: of each tag only *)
(* those that its own handlers send or receive.                            *)
WriteMoves ==
  \/ \E w \in Worker : handle_write_memory(w) \/ write_memory_apply(w)
  \/ \E t \in Task : write_memory_head(t) \/ write_memory_data(t)

RequestMoves ==
  \E w \in Worker : \/ request_memory_lock(w) \/ request_memory_count(w)
                    \/ request_memory_data(w) \/ handle_request_memory(w)

RunMoves == RuntimeDispatch \/ \E w \in Worker : handle_run_task(w)

Moves(tag) ==
  \/ tag = "WRITE_MEMORY" /\ WriteMoves
  \/ tag = "REQUEST_MEMORY" /\ RequestMoves
  \/ tag = "RUN_TASK" /\ RunMoves

Transferred == {"WRITE_MEMORY", "REQUEST_MEMORY", "RUN_TASK"}

(* The order that a dispatch sends: to the worker the task is handed to,   *)
(* with the worker it was created on.                                      *)
LEMMA DispatchSends ==
  ASSUME TaskingInv, RuntimeDispatch
  PROVE  \E h \in Task, w \in Worker, m \in Message :
           /\ m.tag = "RUN_TASK" /\ m.task = h /\ m.origin = origin_id(h)
           /\ Send(0, w, m) /\ node[h] = 0
           /\ h \in created_tasks
           /\ node' = [node EXCEPT ![h] = w]
           /\ UNCHANGED <<created_tasks, parent_id, main, mutex, thread, merged>>
<1>0. TablesAgree /\ RuntimeTypeOK /\ 0 \in Node
  BY Parts, Names
<1>1. run_task_on_node /\ UNCHANGED <<main, mutex, known, thread, merged, awaiting>>
  BY DEF RuntimeDispatch, workerVars
<1>2. PICK h \in Task, w \in Worker :
        /\ h = Head(ready_tasks) /\ Len(ready_tasks) \in Nat \ {0} /\ h = ready_tasks[1]
        /\ node' = [node EXCEPT ![h] = w]
        /\ UNCHANGED <<created_tasks, parent_id, finished, children_finished,
                       next_task_id, loop>>
  BY <1>0, <1>1, DispatchEffect
<1>3. w \in Node /\ w # 0
  BY Names
<1>q. h = next_task_id - Len(ready_tasks) /\ next_task_id \in Int /\ h \in Nat
  <2>1. next_task_id \in Int
    BY <1>0, TypeFacts, MaxTaskAssumption
  <2>2. h \in Nat
    BY MaxTaskAssumption DEF Task
  <2>3. 1 \in 1 .. Len(ready_tasks)
    BY <1>2
  <2>4. ready_tasks[1] = next_task_id - Len(ready_tasks) + 1 - 1
    BY <1>0, <2>3 DEF TablesAgree
  <2> QED BY <1>2, <2>1, <2>2, <2>4
<1>4. node[h] = 0 /\ h \in created_tasks
  BY <1>0, <1>2, <1>q DEF TablesAgree
<1>5. node'[h] = w
  BY <1>0, <1>2, TypeFacts
<1>6. PICK o, m : o = origin_id(h) /\ m = [Msg("RUN_TASK", "task", h) EXCEPT !.origin = o]
  OBVIOUS
<1>7. m \in Message /\ m.tag = "RUN_TASK" /\ m.task = h /\ m.origin = o
  <2>1. origin_id(h) \in Node
    <3>1. CASE h = Root
      BY <3>1, Names DEF origin_id
    <3>2. CASE h # Root
      <4>1. h \in created_tasks \ {Root}
        BY <1>4, <3>2
      <4>2. parent_id[h] \in Task
        BY <1>0, <4>1, CreatorsAssumption DEF TablesAgree
      <4>3. node[parent_id[h]] \in Node
        BY <1>0, <4>2, TypeFacts DEF Node
      <4> QED BY <3>2, <4>3 DEF origin_id
    <3> QED BY <3>1, <3>2
  <2>2. Msg("RUN_TASK", "task", h) \in Message
    BY MsgType DEF Tag, Part
  <2>3. Msg("RUN_TASK", "task", h) = [tag |-> "RUN_TASK", part |-> "task", task |-> h, origin |-> 0]
    BY DEF Msg
  <2> QED BY <1>6, <2>1, <2>2, <2>3 DEF Message
<1>8. Send(0, w, m)
  BY <1>2, <1>5, <1>6 DEF RuntimeDispatch
<1> QED BY <1>1, <1>2, <1>4, <1>6, <1>7, <1>8

(* The runtime process only sends the orders.                              *)
LEMMA RuntimeKeeps ==
  ASSUME TaskingInv, RuntimeStep, NEW tag \in Transferred
  PROVE  Kept(tag) \/ Moves(tag)
<1>0. NetworkTypeOK /\ 0 \in Node /\ awaiting \in Node /\ WorkerTypeOK
  BY Parts, Names
<1>t. tag \notin {"REPORT_CAPACITY", "CREATE_TASK", "FINISH_TASK", "SHUTDOWN"}
  BY DEF Transferred
<1> DEFINE Goal == Kept(tag) \/ Moves(tag)
<1> SUFFICES Goal
  OBVIOUS
<1> HIDE DEF Goal
<1>1. ASSUME RuntimeSetup PROVE Goal
  <2>1. net' = [sd \in Node \X Node |->
                  IF sd[2] = 0 /\ sd[1] # 0 THEN Without(sd[1], 0, "REPORT_CAPACITY")
                                            ELSE net[sd]]
    BY <1>0, <1>1 DEF RuntimeSetup, NetworkTypeOK
  <2>2. ASSUME NEW s \in Node, NEW d \in Node PROVE SameOf(tag, net[<<s, d>>], net'[<<s, d>>])
    <3>1. CASE d = 0 /\ s # 0
      <4>1. Arrived(s, 0, "REPORT_CAPACITY")
        BY <3>1, <1>1, Names DEF RuntimeSetup
      <4>2. SameOf(tag, net[<<s, 0>>], Without(s, 0, "REPORT_CAPACITY"))
        BY <4>1, <1>0, <1>t, WithoutSame
      <4>3. net'[<<s, d>>] = Without(s, 0, "REPORT_CAPACITY")
        BY <2>1, <3>1
      <4> QED BY <3>1, <4>2, <4>3
    <3>2. CASE ~(d = 0 /\ s # 0)
      <4>1. net'[<<s, d>>] = net[<<s, d>>]
        BY <2>1, <3>2
      <4> QED BY <4>1 DEF SameOf
    <3> QED BY <3>1, <3>2
  <2> QED BY <2>2 DEF Kept, Goal
<1>2. ASSUME RuntimeDispatch PROVE Goal
  <2>1. CASE tag = "RUN_TASK"
    BY <2>1, <1>2 DEF Moves, RunMoves, Goal
  <2>2. CASE tag # "RUN_TASK"
    <3>1. \E v \in Node, m \in Message : m.tag = "RUN_TASK" /\ Send(0, v, m)
      BY <1>2, DispatchSends, Names
    <3> QED BY <1>0, <2>2, <3>1, SendKeeps DEF Goal
  <2> QED BY <2>1, <2>2
<1>3. ASSUME NEW w \in Worker, RuntimeCreateTask(w) PROVE Goal
  <2>m. PICK r : r = Msg("CREATE_TASK", "id", next_task_id)
    OBVIOUS
  <2>1. /\ w \in Node /\ w # 0 /\ Arrived(w, 0, "CREATE_TASK")
        /\ ReceiveAndSend(w, 0, "CREATE_TASK", w, <<r>>)
    BY <1>3, <2>m, NextMessage DEF RuntimeCreateTask
  <2>2. r \in Message /\ r.tag = "CREATE_TASK"
    <3>1. next_task_id \in Task
      <4>1. next_task_id <= MaxTask
        BY <1>3 DEF RuntimeCreateTask, handle_create_task
      <4>2. next_task_id \in 0 .. MaxTask + 1
        BY Parts DEF RuntimeTypeOK
      <4> QED BY <4>1, <4>2, MaxTaskAssumption DEF Task
    <3> QED BY <2>m, <3>1, MsgType DEF Tag, Part
  <2>3. <<w, 0>> # <<0, w>>
    BY <2>1
  <2>4. Kept(tag)
    BY <1>0, <1>t, <2>1, <2>2, <2>3, AnswerKeeps
  <2> QED BY <2>4 DEF Goal
<1>4. ASSUME RuntimeTaskSetUp PROVE Goal
  <2>1. /\ Arrived(awaiting, 0, "CREATE_TASK") /\ Receive(awaiting, 0, "CREATE_TASK")
    BY <1>4 DEF RuntimeTaskSetUp
  <2> QED BY <1>0, <1>t, <2>1, ReceiveKeeps DEF Goal
<1>5. ASSUME NEW w \in Worker, NEW t \in {"FINISH_TASK", "REPORT_CAPACITY"}, NextIs(w, t),
             Receive(w, 0, t)
      PROVE  Goal
  <2>1. w \in Node /\ Arrived(w, 0, t)
    BY <1>5, NextMessage
  <2> QED BY <1>0, <1>t, <1>5, <2>1, ReceiveKeeps DEF Goal
<1>6. ASSUME RuntimeShutdown PROVE Goal
  <2>m. PICK m : m = Msg("SHUTDOWN", "none", Root)
    OBVIOUS
  <2>1. m \in Message /\ m.tag = "SHUTDOWN"
    BY <2>m, MsgType, Names DEF Tag, Part
  <2>2. /\ net' = [sd \in Node \X Node |->
                     IF sd[1] = 0 /\ sd[2] # 0 THEN Append(net[sd], m) ELSE net[sd]]
        /\ \A s, d \in Node : net[<<s, d>>] \in Seq(Message)
    BY <1>0, <1>6, <2>m DEF RuntimeShutdown, NetworkTypeOK
  <2>3. ASSUME NEW s \in Node, NEW d \in Node PROVE SameOf(tag, net[<<s, d>>], net'[<<s, d>>])
    <3>1. CASE s = 0 /\ d # 0
      <4>1. net'[<<s, d>>] = Append(net[<<s, d>>], m)
        BY <2>2, <3>1
      <4> QED BY <1>t, <2>1, <2>2, <4>1, AppendSame
    <3>2. CASE ~(s = 0 /\ d # 0)
      <4>1. net'[<<s, d>>] = net[<<s, d>>]
        BY <2>2, <3>2
      <4> QED BY <4>1 DEF SameOf
    <3> QED BY <3>1, <3>2
  <2> QED BY <2>3 DEF Kept, Goal
<1> QED BY <1>1, <1>2, <1>3, <1>4, <1>5, <1>6
        DEF RuntimeStep, RuntimeFinishTask, RuntimeReportCapacity

(* The main threads.                                                       *)
LEMMA MainKeeps ==
  ASSUME TaskingInv, NEW w \in Worker, MainStep(w), NEW tag \in Transferred
  PROVE  Kept(tag) \/ Moves(tag)
<1>0. NetworkTypeOK /\ 0 \in Node /\ w \in Node /\ WorkerTypeOK /\ w # 0 /\ Root \in Task
  BY Parts, Names
<1>t. tag \notin {"REPORT_CAPACITY", "CREATE_TASK", "FINISH_TASK", "SHUTDOWN"}
  BY DEF Transferred
<1>p. /\ main[w].peer \in Node /\ main[w].task \in Task
      /\ main[w].pc \in {"req_lock", "req_count", "req_data"} => main[w].tag = "REQUEST_MEMORY"
      /\ main[w].pc \in {"wb_lock", "wb_recv"} => main[w].tag = "WRITE_MEMORY"
  BY <1>0, Parts, WorkerTypes DEF RequestInv, TagKept, Requesting
<1>m. PICK report : report = Msg("REPORT_CAPACITY", "none", Root)
  OBVIOUS
<1>r. report \in Message /\ report.tag = "REPORT_CAPACITY"
  BY <1>0, <1>m, MsgType DEF Tag, Part
<1> DEFINE Goal == Kept(tag) \/ Moves(tag)
<1> SUFFICES Goal
  OBVIOUS
<1> HIDE DEF Goal
<1>1. ASSUME UNCHANGED net PROVE Goal
  BY <1>1, NetKept DEF Goal
<1>2. ASSUME WorkerSetup(w) PROVE Goal
  <2>1. Send(w, 0, report)
    BY <1>2, <1>m DEF WorkerSetup
  <2> QED BY <1>0, <1>t, <1>r, <2>1, SendKeeps DEF Goal
<1>3. ASSUME NEW t, main[w].tag = t, Consume(w), Arrived(main[w].peer, w, t), tag # t
      PROVE  Goal
  BY <1>0, <1>p, <1>3, ReceiveKeeps DEF Consume, Goal
<1>4. ASSUME NEW t, main[w].tag = t, Arrived(main[w].peer, w, t), tag # t,
             ReceiveAndSend(main[w].peer, w, main[w].tag, 0, <<report>>)
      PROVE  Goal
  <2>1. <<main[w].peer, w>> # <<w, 0>>
    BY <1>0
  <2> QED BY <1>0, <1>p, <1>t, <1>r, <1>4, <2>1, AnswerKeeps DEF Goal
<1>5. ASSUME handle_run_task(w) PROVE Goal
  <2>1. CASE tag = "RUN_TASK"
    BY <1>5, <2>1 DEF Moves, RunMoves, Goal
  <2>2. CASE tag # "RUN_TASK"
    <3>1. main[w].tag = "RUN_TASK" /\ Arrived(main[w].peer, w, "RUN_TASK")
      BY <1>5 DEF handle_run_task, Received
    <3>2. \/ Consume(w)
          \/ ReceiveAndSend(main[w].peer, w, main[w].tag, 0, <<report>>)
      BY <1>5, <1>m DEF handle_run_task, start_thread
    <3> QED BY <1>3, <1>4, <2>2, <3>1, <3>2
  <2> QED BY <2>1, <2>2
<1>6. CASE tag = "REQUEST_MEMORY"
  <2>1. ASSUME \/ request_memory_lock(w) \/ request_memory_count(w)
               \/ request_memory_data(w) \/ handle_request_memory(w)
        PROVE  Goal
    BY <1>6, <2>1 DEF Moves, RequestMoves, Goal
  <2>2. ASSUME handle_write_memory(w) \/ write_memory_apply(w) \/ handle_shutdown(w) PROVE Goal
    <3>1. \E t \in {"WRITE_MEMORY", "SHUTDOWN"} :
            main[w].tag = t /\ Consume(w) /\ Arrived(main[w].peer, w, t)
      BY <1>p, <2>2 DEF handle_write_memory, write_memory_apply, handle_shutdown, Received
    <3> QED BY <1>3, <1>6, <3>1
  <2> QED BY <1>1, <1>2, <1>5, <2>1, <2>2
          DEF MainStep, Probe, LockAndPost, handle_request_memory_return, write_memory_lock
<1>7. CASE tag # "REQUEST_MEMORY"
  <2>1. ASSUME request_memory_lock(w) PROVE Goal
    <3>1. PICK m : m = Msg("REQUEST_MEMORY", "task", main[w].task)
      OBVIOUS
    <3>2. m \in Message /\ m.tag = "REQUEST_MEMORY" /\ Send(w, main[w].peer, m)
      BY <1>p, <2>1, <3>1, MsgType DEF Tag, Part, request_memory_lock
    <3> QED BY <1>0, <1>p, <1>7, <3>2, SendKeeps DEF Goal
  <2>2. ASSUME request_memory_count(w) PROVE Goal
    BY <1>p, <1>3, <1>7, <2>2 DEF request_memory_count
  <2>3. ASSUME request_memory_data(w) PROVE Goal
    <3>1. ReceiveAndSend(main[w].peer, w, main[w].tag, 0, <<report>>)
      BY <1>m, <2>3 DEF request_memory_data, start_thread
    <3>2. main[w].tag = "REQUEST_MEMORY" /\ Arrived(main[w].peer, w, "REQUEST_MEMORY")
      BY <1>p, <2>3 DEF request_memory_data
    <3> QED BY <1>4, <1>7, <3>1, <3>2
  <2>4. ASSUME handle_request_memory(w) PROVE Goal
    <3>1. PICK t, m, n : /\ t = incoming(w).task
                         /\ m = Msg("REQUEST_MEMORY", "count", t)
                         /\ n = Msg("REQUEST_MEMORY", "data", t)
      OBVIOUS
    <3>2. /\ t \in Task /\ Arrived(main[w].peer, w, "REQUEST_MEMORY")
          /\ ReceiveAndSend(main[w].peer, w, "REQUEST_MEMORY", main[w].peer, <<m, n>>)
      BY <1>0, <2>4, <3>1, IncomingType DEF handle_request_memory
    <3>3. m \in Message /\ n \in Message /\ m.tag = "REQUEST_MEMORY" /\ n.tag = "REQUEST_MEMORY"
      BY <3>1, <3>2, MsgType DEF Tag, Part
    <3> QED BY <1>0, <1>p, <1>7, <3>2, <3>3, AnswerTwiceKeeps DEF Goal
  <2>5. ASSUME handle_write_memory(w) \/ write_memory_apply(w) \/ handle_shutdown(w) PROVE Goal
    <3>1. \E t \in {"WRITE_MEMORY", "SHUTDOWN"} :
            main[w].tag = t /\ Consume(w) /\ Arrived(main[w].peer, w, t)
            /\ (t = "WRITE_MEMORY" => handle_write_memory(w) \/ write_memory_apply(w))
      BY <1>p, <2>5 DEF handle_write_memory, write_memory_apply, handle_shutdown, Received
    <3>2. CASE tag = "WRITE_MEMORY" /\ (handle_write_memory(w) \/ write_memory_apply(w))
      BY <3>2 DEF Moves, WriteMoves, Goal
    <3> QED BY <1>3, <1>t, <3>1, <3>2
  <2> QED BY <1>1, <1>2, <1>5, <2>1, <2>2, <2>3, <2>4, <2>5
          DEF MainStep, Probe, LockAndPost, handle_request_memory_return, write_memory_lock
<1> QED BY <1>6, <1>7

(* The threads of the tasks.                                               *)
LEMMA TaskKeeps ==
  ASSUME TaskingInv, NEW t \in Task, CreateStep(t) \/ FinishStep(t), NEW tag \in Transferred
  PROVE  Kept(tag) \/ Moves(tag)
<1>0. NetworkTypeOK /\ 0 \in Node /\ WorkerTypeOK
  BY Parts, Names
<1>t. tag \notin {"REPORT_CAPACITY", "CREATE_TASK", "FINISH_TASK", "SHUTDOWN"}
  BY DEF Transferred
<1>h. thread[t].host \in Node /\ thread[t].origin \in Node
  BY <1>0, ThreadTypes
<1> DEFINE Goal == Kept(tag) \/ Moves(tag)
<1> SUFFICES Goal
  OBVIOUS
<1> HIDE DEF Goal
<1>1. ASSUME UNCHANGED net PROVE Goal
  BY <1>1, NetKept DEF Goal
<1>2. ASSUME NEW d \in Node, NEW g \in Tag, NEW part \in Part, g # tag,
             Send(thread[t].host, d, Msg(g, part, t))
      PROVE  Goal
  <2>1. PICK m : m = Msg(g, part, t)
    OBVIOUS
  <2>2. m \in Message /\ m.tag = g
    BY <2>1, MsgType
  <2> QED BY <1>0, <1>h, <1>2, <2>1, <2>2, SendKeeps DEF Goal
<1>3. ASSUME handle_create_task_send(t) \/ handle_finish_task_send(t) PROVE Goal
  <2>1. \E g \in {"CREATE_TASK", "FINISH_TASK"} : Send(thread[t].host, 0, Msg(g, "task", t))
    BY <1>3 DEF handle_create_task_send, handle_finish_task_send
  <2> QED BY <1>0, <1>t, <1>2, <2>1 DEF Tag, Part
<1>4. ASSUME handle_create_task_reply(t) PROVE Goal
  <2>w. PICK w, m, a : /\ w = thread[t].host /\ m = Matched(0, w, "CREATE_TASK")
                       /\ a = Msg("CREATE_TASK", "ack", m.task)
    OBVIOUS
  <2>1. /\ thread[t].pc = "reply" /\ Arrived(0, w, "CREATE_TASK")
        /\ ReceiveAndSend(0, w, "CREATE_TASK", 0, <<a>>)
    BY <1>4, <2>w DEF handle_create_task_reply, Steps
  <2>2. w \in Node /\ w # 0 /\ m.task \in Task
    BY <2>w, <2>1, ReplyFacts, Names
  <2>3. a \in Message /\ a.tag = "CREATE_TASK"
    BY <2>w, <2>2, MsgType DEF Tag, Part
  <2>4. <<0, w>> # <<w, 0>>
    BY <2>2
  <2> QED BY <1>0, <1>t, <2>1, <2>2, <2>3, <2>4, AnswerKeeps DEF Goal
<1>5. ASSUME write_memory_head(t) \/ write_memory_data(t) PROVE Goal
  <2>1. CASE tag = "WRITE_MEMORY"
    BY <1>5, <2>1 DEF Moves, WriteMoves, Goal
  <2>2. CASE tag # "WRITE_MEMORY"
    <3>1. \E part \in {"task", "data"} :
            Send(thread[t].host, thread[t].origin, Msg("WRITE_MEMORY", part, t))
      BY <1>5 DEF write_memory_head, write_memory_data
    <3> QED BY <1>h, <1>2, <2>2, <3>1 DEF Tag, Part
  <2> QED BY <2>1, <2>2
<1> QED BY <1>1, <1>3, <1>4, <1>5
        DEF CreateStep, FinishStep, create_task, write_memory_return, free_after_run

(* Together: a step moves messages of a transfer only as its handlers do.  *)
LEMMA StepKeeps ==
  ASSUME TaskingInv, [Next]_vars, NEW tag \in Transferred
  PROVE  Kept(tag) \/ Moves(tag)
<1>1. CASE UNCHANGED vars
  BY <1>1, NetKept DEF vars
<1> QED BY <1>1, RuntimeKeeps, MainKeeps, TaskKeeps
        DEF Next, MainThreadStep, TaskCreates, TaskFinishes

------------------------------------------------------------------------------
(* In the middle of an exchange: a main thread that requests variables, or *)
(* that takes a write-back, goes on with the same task and process, and    *)
(* only the two orders start such an exchange.                             *)
Merging == {"wb_lock", "wb_recv"}

GoesOn(w) ==
  /\ main'[w].task = main[w].task /\ main'[w].peer = main[w].peer
  /\ \/ main[w].pc \in Requesting /\ main'[w].pc \in Requesting
     \/ main[w].pc \in Merging /\ main'[w].pc \in Merging
  /\ main'[w].pc = "wb_recv" => main[w].pc = "wb_recv" \/ main[w].task \in Captures

StartsRequest(w) ==
  /\ handle_run_task(w) /\ main'[w].pc = "req_lock"
  /\ main'[w].task = incoming(w).task /\ main'[w].peer = incoming(w).origin
  /\ incoming(w).task \in Captures /\ incoming(w).origin # w

StartsMerge(w) ==
  /\ handle_write_memory(w) /\ main'[w].pc = "wb_lock"
  /\ main'[w].task = incoming(w).task /\ main'[w].peer = main[w].peer

(* A step of a main thread changes no other, and one that is in the middle *)
(* of an exchange went on with it or has just started it.                  *)
LEMMA MainExchange ==
  ASSUME WorkerTypeOK, NEW w \in Worker, MainStep(w)
  PROVE  /\ \A v \in Worker : v # w => main'[v] = main[v]
         /\ main'[w].pc \in Requesting \cup Merging =>
              GoesOn(w) \/ StartsRequest(w) \/ StartsMerge(w)
<1>0. main \in [Worker -> MainState]
  BY WorkerTypes DEF MainState
<1> DEFINE Goal == /\ \A v \in Worker : v # w => main'[v] = main[v]
                   /\ main'[w].pc \in Requesting \cup Merging =>
                        GoesOn(w) \/ StartsRequest(w) \/ StartsMerge(w)
<1>1. ASSUME NEW pc \in MainPC \ (Requesting \cup Merging), main' = [main EXCEPT ![w] = At(pc)]
      PROVE  Goal
  BY <1>0, <1>1 DEF At
<1>2. ASSUME NEW r, main' = [main EXCEPT ![w] = r], r.pc \notin Requesting \cup Merging
      PROVE  Goal
  BY <1>0, <1>2
<1>3. ASSUME NEW pc, main' = [main EXCEPT ![w].pc = pc],
             \/ main[w].pc \in Requesting /\ pc \in Requesting
             \/ main[w].pc \in Merging /\ pc = "wb_recv" /\ main[w].task \in Captures
      PROVE  Goal
  <2>1. main'[w].pc = pc /\ main'[w].task = main[w].task /\ main'[w].peer = main[w].peer
    BY <1>0, <1>3 DEF MainState
  <2>2. GoesOn(w)
    BY <1>3, <2>1 DEF GoesOn, Requesting, Merging
  <2> QED BY <1>0, <1>3, <2>2
<1> HIDE DEF Goal
<1>4. ASSUME \/ WorkerSetup(w) \/ handle_request_memory_return(w) \/ write_memory_apply(w)
             \/ handle_shutdown(w) \/ (write_memory_lock(w) /\ main[w].task \notin Captures)
             \/ request_memory_data(w)
      PROVE  Goal
  <2>1. \E pc \in {"poll", "down"} : main' = [main EXCEPT ![w] = At(pc)]
    BY <1>4 DEF WorkerSetup, handle_request_memory_return, write_memory_apply, handle_shutdown,
                write_memory_lock, request_memory_data, start_thread
  <2> QED BY <1>1, <2>1 DEF MainPC, Requesting, Merging
<1>5. ASSUME Probe(w) PROVE Goal
  <2>1. \E s : main' = [main EXCEPT ![w] = [pc |-> "lock", peer |-> s,
                                            tag |-> Head(net[<<s, w>>]).tag, task |-> Root]]
    BY <1>5 DEF Probe
  <2> QED BY <1>2, <2>1 DEF Requesting, Merging
<1>6. ASSUME LockAndPost(w) PROVE Goal
  <2>1. main' = [main EXCEPT ![w] = [main[w] EXCEPT !.pc = "recv"]]
    BY <1>6 DEF LockAndPost
  <2>2. [main[w] EXCEPT !.pc = "recv"].pc = "recv"
    BY <1>0 DEF MainState
  <2> QED BY <1>2, <2>1, <2>2 DEF Requesting, Merging
<1>7. ASSUME request_memory_lock(w) \/ request_memory_count(w) PROVE Goal
  <2>1. \E pc \in {"req_count", "req_data"} :
           main' = [main EXCEPT ![w].pc = pc] /\ main[w].pc \in Requesting
    BY <1>7 DEF request_memory_lock, request_memory_count, Requesting
  <2> QED BY <1>3, <2>1 DEF Requesting
<1>8. ASSUME handle_request_memory(w) PROVE Goal
  <2>1. PICK t : t = incoming(w).task
    OBVIOUS
  <2>2. \/ main' = [main EXCEPT ![w] = [main[w] EXCEPT !.pc = "answer", !.task = t]]
        \/ main' = [main EXCEPT ![w] = At("poll")]
    BY <1>8, <2>1 DEF handle_request_memory
  <2>3. [main[w] EXCEPT !.pc = "answer", !.task = t].pc = "answer"
    BY <1>0 DEF MainState
  <2> QED BY <1>1, <1>2, <2>2, <2>3 DEF MainPC, Requesting, Merging
<1>9. ASSUME write_memory_lock(w), main[w].task \in Captures PROVE Goal
  BY <1>3, <1>9 DEF write_memory_lock, Merging
<1>10. ASSUME handle_run_task(w) PROVE Goal
  <2>1. CASE start_thread(w, incoming(w).task, incoming(w).origin)
    BY <1>1, <2>1 DEF start_thread, MainPC, Requesting, Merging
  <2>2. CASE ~start_thread(w, incoming(w).task, incoming(w).origin)
    <3>1. PICK t, o : t = incoming(w).task /\ o = incoming(w).origin
      OBVIOUS
    <3>2. /\ t \in Captures /\ o # w
          /\ main' = [main EXCEPT ![w] = [pc |-> "req_lock", peer |-> o,
                                          tag |-> "REQUEST_MEMORY", task |-> t]]
      BY <1>10, <2>2, <3>1 DEF handle_run_task
    <3>3. main'[w].pc = "req_lock" /\ main'[w].task = t /\ main'[w].peer = o
      BY <1>0, <3>2
    <3>4. StartsRequest(w)
      BY <1>10, <3>1, <3>2, <3>3 DEF StartsRequest
    <3> QED BY <1>0, <3>2, <3>4 DEF Goal
  <2> QED BY <2>1, <2>2
<1>11. ASSUME handle_write_memory(w) PROVE Goal
  <2>1. PICK t : t = incoming(w).task
    OBVIOUS
  <2>2. main' = [main EXCEPT ![w] = [pc |-> "wb_lock", peer |-> main[w].peer,
                                     tag |-> "WRITE_MEMORY", task |-> t]]
    BY <1>11, <2>1 DEF handle_write_memory
  <2>3. main'[w].pc = "wb_lock" /\ main'[w].task = t /\ main'[w].peer = main[w].peer
    BY <1>0, <2>2
  <2>4. StartsMerge(w)
    BY <1>11, <2>1, <2>3 DEF StartsMerge
  <2> QED BY <1>0, <2>2, <2>4 DEF Goal
<1> QED BY <1>4, <1>5, <1>6, <1>7, <1>8, <1>9, <1>10, <1>11 DEF MainStep, Goal

(* Only the main thread of its worker starts a thread, for a task whose    *)
(* order or whose variables it has received.                               *)
LEMMA ThreadStart ==
  ASSUME TaskingInv, NEW w \in Worker, MainStep(w), NEW t \in Task, thread'[t] # thread[t]
  PROVE  /\ thread[t].pc = "none" /\ thread'[t].pc = "body" /\ thread'[t].host = w
         /\ \/ handle_run_task(w) /\ t = incoming(w).task /\ thread'[t].origin = incoming(w).origin
            \/ request_memory_data(w) /\ t = main[w].task /\ thread'[t].origin = main[w].peer
<1>0. /\ WorkerTypeOK /\ RequestInv
      /\ thread \in [Task -> [pc : ThreadPC, host : Node, origin : Node]]
      /\ main[w].task \in Task
  BY Parts, WorkerTypes
<1>1. ASSUME NEW u \in Task, NEW o, start_thread(w, u, o)
      PROVE  t = u /\ thread'[t].pc = "body" /\ thread'[t].host = w /\ thread'[t].origin = o
  <2>1. thread' = [thread EXCEPT ![u] = [pc |-> "body", host |-> w, origin |-> o]]
    BY <1>1 DEF start_thread
  <2> QED BY <1>0, <2>1
<1>2. CASE handle_run_task(w)
  <2>1. PICK u, o : u = incoming(w).task /\ o = incoming(w).origin
    OBVIOUS
  <2>2. u \in Task /\ thread[u].pc = "none"
    BY <1>2, <2>1, RunOrder DEF handle_run_task
  <2>3. start_thread(w, u, o)
    BY <1>2, <2>1 DEF handle_run_task
  <2> QED BY <1>1, <1>2, <2>1, <2>2, <2>3
<1>3. CASE request_memory_data(w)
  <2>1. start_thread(w, main[w].task, main[w].peer) /\ thread[main[w].task].pc = "none"
    BY <1>0, <1>3 DEF request_memory_data, RequestInv, Requesting
  <2> QED BY <1>0, <1>1, <1>3, <2>1
<1>4. CASE QuietMainStep(w)
  BY <1>4, QuietMainLock
<1> QED BY <1>2, <1>3, <1>4 DEF MainStep, QuietMainStep

------------------------------------------------------------------------------
(* Where a task was created is known from its creation on, and it is what  *)
(* the order to run the task, the main thread that requests its variables  *)
(* and its thread say.                                                     *)
OriginInv ==
  /\ \A w \in Worker :
       /\ \A m \in InChannel(net[<<0, w>>]) : m.tag = "RUN_TASK" => m.origin = origin_id(m.task)
       /\ main[w].pc \in Requesting =>
            main[w].task \in Captures /\ main[w].peer = origin_id(main[w].task) /\ main[w].peer # w
  /\ \A t \in Task : thread[t].pc # "none" => thread[t].origin = origin_id(t)

(* The origin of a task in the table does not change.                      *)
LEMMA OriginStable ==
  ASSUME TaskingInv, [Next]_vars, NEW t \in Task, t \in created_tasks
  PROVE  origin_id(t)' = origin_id(t)
<1>0. RuntimeInv /\ TablesAgree /\ RuntimeTypeOK
  BY Parts
<1>1. [RuntimeNext]_runtimeVars
  BY RuntimeStepMaps
<1>p. t # Root => parent_id[t] \in Task /\ node[parent_id[t]] # 0
  BY <1>0, CreatorsAssumption DEF TablesAgree
<1> SUFFICES ASSUME t # Root PROVE node'[parent_id'[t]] = node[parent_id[t]]
  BY DEF origin_id
<1>2. ASSUME UNCHANGED <<parent_id, node>> PROVE node'[parent_id'[t]] = node[parent_id[t]]
  BY <1>2
<1>3. ASSUME setup PROVE FALSE
  <2>1. created_tasks = {}
    BY <1>0, <1>3 DEF setup, TablesAgree
  <2> QED BY <2>1
<1>4. ASSUME run_task_on_node PROVE node'[parent_id'[t]] = node[parent_id[t]]
  <2>1. PICK h \in Task, w \in Worker :
          /\ h = ready_tasks[1] /\ Len(ready_tasks) \in Nat \ {0}
          /\ node' = [node EXCEPT ![h] = w] /\ parent_id' = parent_id
    BY <1>0, <1>4, DispatchEffect
  <2>2. node[h] = 0
    <3>1. next_task_id \in Int /\ h \in Nat /\ 1 \in 1 .. Len(ready_tasks)
      BY <1>0, <2>1, TypeFacts, MaxTaskAssumption DEF Task
    <3>2. ready_tasks[1] = next_task_id - Len(ready_tasks) + 1 - 1
      BY <1>0, <3>1 DEF TablesAgree
    <3> QED BY <1>0, <2>1, <3>1, <3>2 DEF TablesAgree
  <2> QED BY <1>0, <1>p, <2>1, <2>2, TypeFacts
<1>5. ASSUME NEW p \in Task, Create(p) PROVE node'[parent_id'[t]] = node[parent_id[t]]
  <2>1. /\ next_task_id \in Task
        /\ parent_id' = [parent_id EXCEPT ![next_task_id] = p] /\ node' = node
    BY <1>0, <1>5, CreateEffect
  <2>2. next_task_id # t
    <3>1. next_task_id \in Nat /\ created_tasks = 0 .. next_task_id - 1
      BY <1>0, <2>1, MaxTaskAssumption DEF Task, TablesAgree
    <3> QED BY <3>1
  <2> QED BY <1>0, <2>1, <2>2, TypeFacts
<1>6. ASSUME NEW u \in Task, Finish(u) \/ Crash(u) \/ shutdown
      PROVE  node'[parent_id'[t]] = node[parent_id[t]]
  BY <1>2, <1>6 DEF Finish, Crash, shutdown, handle_finish_task, finish_crashes, schedulerVars
<1>7. Root \in Task
  BY Names
<1> QED BY <1>1, <1>2, <1>3, <1>4, <1>5, <1>6, <1>7 DEF RuntimeNext, runtimeVars

(* A worker's order, the task a main thread works on and the task of a     *)
(* thread are in the table.                                                *)
LEMMA InTable ==
  ASSUME TaskingInv
  PROVE  /\ \A t \in Task : thread[t].pc # "none" => t \in created_tasks
         /\ \A w \in Worker :
              /\ main[w].pc \in Requesting => main[w].task \in Task /\ main[w].task \in created_tasks
              /\ \A m \in InChannel(net[<<0, w>>]) :
                   m.tag = "RUN_TASK" => m.task \in Task /\ m.task \in created_tasks
<1>0. /\ RuntimeInv /\ WorkerTypeOK /\ NetworkTypeOK /\ ThreadInv /\ RequestInv /\ MessageInv
      /\ 0 \in Node
  BY Parts, Names
<1>1. \A t \in Task : thread[t].pc # "none" => t \in created_tasks
  BY <1>0, StartedIsCreated DEF ThreadInv
<1>2. ASSUME NEW w \in Worker, main[w].pc \in Requesting
      PROVE  main[w].task \in Task /\ main[w].task \in created_tasks
  <2>1. main[w].task \in Task /\ node[main[w].task] = w /\ w # 0
    BY <1>0, <1>2, WorkerTypes, Names DEF RequestInv
  <2> QED BY <1>0, <2>1, StartedIsCreated
<1>3. ASSUME NEW w \in Worker, NEW m \in InChannel(net[<<0, w>>]), m.tag = "RUN_TASK"
      PROVE  m.task \in Task /\ m.task \in created_tasks
  <2>1. m \in CountedIn(net[<<0, w>>]) /\ w \in Node /\ w # 0
    BY <1>3, Names DEF CountedIn, Counted
  <2>2. m.task \in Task /\ node[m.task] = w
    BY <1>0, <1>3, <2>1, CountedAreMessages DEF MessageInv, MessageTrue, RunTrue
  <2> QED BY <1>0, <2>1, <2>2, StartedIsCreated
<1> QED BY <1>1, <1>2, <1>3

(* Every message in a channel is a message.                                *)
LEMMA ChannelType ==
  ASSUME NetworkTypeOK, NEW s \in Node, NEW d \in Node, NEW m \in InChannel(net[<<s, d>>])
  PROVE  m \in Message /\ m.task \in Task
<1>1. net[<<s, d>>] \in Seq(Message)
  BY DEF NetworkTypeOK
<1>2. m \in Message
  BY <1>1, ElementOfSeq DEF InChannel
<1> QED BY <1>2, MessageFields

(* Only a dispatch adds an order to the channels, and it names the origin. *)
LEMMA OrderOrigin ==
  ASSUME TaskingInv, TaskingInv', OriginInv, [Next]_vars, NEW w \in Worker,
         NEW m \in InChannel(net'[<<0, w>>]), m.tag = "RUN_TASK"
  PROVE  m.origin = origin_id(m.task) /\ m.task \in Task /\ m.task \in created_tasks
<1>0. NetworkTypeOK /\ NetworkTypeOK' /\ w \in Node /\ 0 \in Node /\ w # 0 /\ WorkerTypeOK
  <2>1. TaskingInv' => NetworkTypeOK'
    BY DEF TaskingInv, TaskingTypeOK, WorkerTypeOK
  <2> QED BY <2>1, Parts, Names
<1>m. m \in Message
  <2>1. net'[<<0, w>>] \in Seq(Message)
    BY <1>0 DEF NetworkTypeOK
  <2> QED BY <2>1, ElementOfSeq DEF InChannel
<1>1. CASE m \in InChannel(net[<<0, w>>])
  BY <1>1, InTable DEF OriginInv
<1>2. ASSUME Kept("RUN_TASK") PROVE m \in InChannel(net[<<0, w>>])
  BY <1>0, <1>2, <1>m DEF Kept, SameOf
<1>3. ASSUME RuntimeDispatch, m \notin InChannel(net[<<0, w>>])
      PROVE  m.origin = origin_id(m.task) /\ m.task \in Task /\ m.task \in created_tasks
  <2>1. PICK h \in Task, v \in Worker, n \in Message :
          /\ n.tag = "RUN_TASK" /\ n.task = h /\ n.origin = origin_id(h)
          /\ Send(0, v, n) /\ h \in created_tasks
    BY <1>3, DispatchSends
  <2>2. /\ v \in Node /\ net'[<<0, v>>] = Append(net[<<0, v>>], n)
        /\ \A x, y \in Node : <<x, y>> # <<0, v>> => net'[<<x, y>>] = net[<<x, y>>]
        /\ net[<<0, v>>] \in Seq(Message)
    BY <1>0, <2>1, SendEffect, Names DEF NetworkTypeOK
  <2>3. InChannel(net'[<<0, v>>]) = InChannel(net[<<0, v>>]) \cup {n}
    BY <2>2, AppendOne
  <2>4. v # w => net'[<<0, w>>] = net[<<0, w>>]
    <3>1. v # w => <<0, w>> # <<0, v>>
      OBVIOUS
    <3> QED BY <1>0, <2>2, <3>1
  <2>5. m = n
    BY <1>3, <2>3, <2>4
  <2> QED BY <2>1, <2>5
<1>4. ASSUME NEW v \in Worker, handle_run_task(v) PROVE m \in InChannel(net[<<0, w>>])
  <2>1. /\ main[v].peer = 0 /\ Arrived(0, v, "RUN_TASK") /\ main[v].tag = "RUN_TASK"
        /\ v \in Node /\ v # 0
    BY <1>4, RunOrder, Names DEF handle_run_task
  <2>r. PICK r : r = Msg("REPORT_CAPACITY", "none", Root)
    OBVIOUS
  <2>2. Receive(0, v, "RUN_TASK") \/ ReceiveAndSend(0, v, "RUN_TASK", 0, <<r>>)
    BY <1>4, <2>1, <2>r DEF handle_run_task, start_thread, Consume
  <2>3. r \in Message
    BY <2>r, MsgType, Names DEF Tag, Part
  <2>4. /\ net'[<<0, v>>] = Without(0, v, "RUN_TASK")
        /\ \A x, y \in Node : <<x, y>> \notin {<<0, v>>, <<v, 0>>} => net'[<<x, y>>] = net[<<x, y>>]
    <3>1. <<0, v>> # <<v, 0>>
      BY <2>1
    <3>2. CASE Receive(0, v, "RUN_TASK")
      BY <1>0, <2>1, <3>2, ReceiveEffect
    <3>3. CASE ReceiveAndSend(0, v, "RUN_TASK", 0, <<r>>)
      <4>1. PICK z : z = 0
        OBVIOUS
      <4>2. /\ NetworkTypeOK /\ z \in Node /\ v \in Node /\ Arrived(z, v, "RUN_TASK")
            /\ <<z, v>> # <<v, z>> /\ ReceiveAndSend(z, v, "RUN_TASK", z, <<r>>)
        BY <1>0, <2>1, <3>1, <3>3, <4>1
      <4>3. /\ NetworkTypeOK'
            /\ net'[<<z, v>>] = Without(z, v, "RUN_TASK")
            /\ net'[<<v, z>>] = Append(net[<<v, z>>], r)
            /\ \A x, y \in Node : <<x, y>> \notin {<<z, v>>, <<v, z>>} =>
                 net'[<<x, y>>] = net[<<x, y>>]
        BY <2>3, <4>2, AnswerEffect
      <4> QED BY <4>1, <4>3
    <3> QED BY <2>2, <3>2, <3>3
  <2>5. w # v => net'[<<0, w>>] = net[<<0, w>>]
    <3>1. w # v => <<0, w>> \notin {<<0, v>>, <<v, 0>>}
      BY <2>1
    <3> QED BY <1>0, <2>4, <3>1
  <2>6. InChannel(Without(0, v, "RUN_TASK")) \subseteq InChannel(net[<<0, v>>])
    BY <1>0, <2>1, WithoutEffect
  <2> QED BY <2>4, <2>5, <2>6
<1>5. Kept("RUN_TASK") \/ RunMoves
  BY StepKeeps DEF Transferred, Moves
<1> QED BY <1>1, <1>2, <1>3, <1>4, <1>5 DEF RunMoves

(* Every step keeps it.                                                    *)
LEMMA OriginStep ==
  ASSUME TaskingInv, TaskingInv', OriginInv, [Next]_vars
  PROVE  OriginInv'
<1>0. WorkerTypeOK /\ NetworkTypeOK /\ 0 \in Node /\ 0 \notin Worker
  BY Parts, Names
<1>1. ASSUME NEW w \in Worker, NEW m \in InChannel(net'[<<0, w>>]), m.tag = "RUN_TASK"
      PROVE  m.origin = origin_id(m.task)'
  <2>1. m.origin = origin_id(m.task) /\ m.task \in Task /\ m.task \in created_tasks
    BY <1>1, OrderOrigin
  <2> QED BY <2>1, OriginStable
<1>o. ASSUME NEW w \in Worker, handle_run_task(w)
      PROVE  /\ incoming(w).task \in Task /\ incoming(w).task \in created_tasks
             /\ incoming(w).origin = origin_id(incoming(w).task)
  <2>1. incoming(w) \in InChannel(net[<<0, w>>]) /\ incoming(w).tag = "RUN_TASK"
    BY <1>o, RunOrder DEF handle_run_task, Msgs, CountedIn
  <2> QED BY <2>1, InTable DEF OriginInv
<1>2. ASSUME NEW w \in Worker, main'[w].pc \in Requesting
      PROVE  /\ main'[w].task \in Captures /\ main'[w].peer = origin_id(main[w].task)'
             /\ main'[w].peer # w
  <2>1. CASE main'[w] = main[w]
    <3>1. main[w].task \in Task /\ main[w].task \in created_tasks
      BY <1>2, <2>1, InTable
    <3>3. PICK t : t = main[w].task
      OBVIOUS
    <3>4. origin_id(t)' = origin_id(t)
      BY <3>1, <3>3, OriginStable
    <3> QED BY <1>2, <2>1, <3>3, <3>4 DEF OriginInv, origin_id
  <2>2. CASE main'[w] # main[w]
    <3>1. MainStep(w)
      <4>1. ASSUME NEW v \in Worker, MainStep(v) PROVE v = w
        BY <1>0, <2>2, <4>1, MainExchange
      <4>2. ASSUME NEW t \in Task, CreateStep(t) \/ FinishStep(t) PROVE main' = main
        BY <4>2 DEF CreateStep, FinishStep, create_task, handle_create_task_send,
             handle_create_task_reply, write_memory_head, write_memory_data,
             write_memory_return, free_after_run, handle_finish_task_send
      <4>3. ASSUME RuntimeStep PROVE main' = main
        BY <4>3 DEF RuntimeStep, RuntimeSetup, RuntimeDispatch, RuntimeTaskSetUp,
             RuntimeShutdown, RuntimeCreateTask, RuntimeFinishTask, RuntimeReportCapacity, workerVars
      <4> QED BY <2>2, <4>1, <4>2, <4>3
              DEF Next, vars, MainThreadStep, TaskCreates, TaskFinishes
    <3>2. GoesOn(w) \/ StartsRequest(w) \/ StartsMerge(w)
      BY <1>0, <1>2, <3>1, MainExchange
    <3>3. PICK t : t = main'[w].task
      OBVIOUS
    <3>4. CASE GoesOn(w)
      <4>1. main[w].pc \in Requesting /\ main[w].task = t /\ main'[w].peer = main[w].peer
        BY <1>2, <3>3, <3>4 DEF GoesOn, Requesting, Merging
      <4>2. t \in Task /\ t \in created_tasks
        BY <4>1, InTable
      <4>3. origin_id(t)' = origin_id(t)
        BY <4>2, OriginStable
      <4> QED BY <3>3, <4>1, <4>3 DEF OriginInv, origin_id
    <3>5. CASE StartsRequest(w)
      <4>1. /\ t = incoming(w).task /\ main'[w].peer = incoming(w).origin /\ t \in Captures
            /\ incoming(w).origin # w /\ handle_run_task(w)
        BY <3>3, <3>5 DEF StartsRequest
      <4>2. t \in Task /\ t \in created_tasks /\ main'[w].peer = origin_id(t)
        BY <1>o, <4>1
      <4>3. origin_id(t)' = origin_id(t)
        BY <4>2, OriginStable
      <4> QED BY <3>3, <4>1, <4>2, <4>3 DEF origin_id
    <3> QED BY <1>2, <3>2, <3>4, <3>5 DEF StartsMerge, Requesting
  <2> QED BY <2>1, <2>2
<1>3. ASSUME NEW t \in Task, thread'[t].pc # "none"
      PROVE  thread'[t].origin = origin_id(t)'
  <2>1. ASSUME thread'[t].origin = thread[t].origin, thread[t].pc # "none"
        PROVE  thread'[t].origin = origin_id(t)'
    BY <2>1, InTable, OriginStable DEF OriginInv
  <2>2. ASSUME NEW w \in Worker, MainStep(w), thread'[t] # thread[t]
        PROVE  thread'[t].origin = origin_id(t)'
    <3>1. \/ handle_run_task(w) /\ t = incoming(w).task /\ thread'[t].origin = incoming(w).origin
          \/ request_memory_data(w) /\ t = main[w].task /\ thread'[t].origin = main[w].peer
      BY <2>2, ThreadStart
    <3>2. CASE handle_run_task(w) /\ t = incoming(w).task /\ thread'[t].origin = incoming(w).origin
      BY <1>o, <3>2, OriginStable
    <3>3. CASE request_memory_data(w) /\ t = main[w].task /\ thread'[t].origin = main[w].peer
      <4>1. main[w].pc \in Requesting
        BY <3>3 DEF request_memory_data, Requesting
      <4>2. t \in created_tasks /\ thread'[t].origin = origin_id(t)
        BY <3>3, <4>1, InTable DEF OriginInv
      <4> QED BY <4>2, OriginStable
    <3> QED BY <3>1, <3>2, <3>3
  <2>3. ASSUME NEW u \in Task, CreateStep(u) \/ FinishStep(u)
        PROVE  thread'[t].origin = thread[t].origin /\ thread[t].pc # "none"
    <3>1. PICK pc \in ThreadPC : thread' = [thread EXCEPT ![u].pc = pc] /\ thread[u].pc # "none"
      BY <2>3 DEF CreateStep, FinishStep, create_task, handle_create_task_send,
           handle_create_task_reply, write_memory_head, write_memory_data,
           write_memory_return, free_after_run, handle_finish_task_send, Steps, Becomes,
           WrittenBack, FinishesNext, ThreadPC
    <3>2. thread \in [Task -> [pc : ThreadPC, host : Node, origin : Node]]
      BY <1>0, WorkerTypes
    <3> QED BY <1>3, <3>1, <3>2
  <2>4. ASSUME RuntimeStep PROVE thread' = thread
    BY <2>4 DEF RuntimeStep, RuntimeSetup, RuntimeDispatch, RuntimeTaskSetUp,
         RuntimeShutdown, RuntimeCreateTask, RuntimeFinishTask, RuntimeReportCapacity, workerVars
  <2> QED BY <1>3, <2>1, <2>2, <2>3, <2>4
          DEF Next, vars, MainThreadStep, TaskCreates, TaskFinishes
<1> QED BY <1>1, <1>2, <1>3 DEF OriginInv

(* It holds at first, when no task has been created.                       *)
LEMMA OriginInit == Init => OriginInv
<1> SUFFICES ASSUME Init PROVE OriginInv
  OBVIOUS
<1>1. /\ net = [sd \in Node \X Node |-> << >>] /\ main = [w \in Worker |-> At("setup")]
      /\ thread = [t \in Task |-> [pc |-> "none", host |-> 0, origin |-> 0]]
  BY DEF Init, WorkerInit, NetworkInit
<1>2. ASSUME NEW w \in Worker PROVE InChannel(net[<<0, w>>]) = {} /\ main[w].pc = "setup"
  BY <1>1, Names DEF InChannel, At
<1>3. \A t \in Task : thread[t].pc = "none"
  BY <1>1
<1> QED BY <1>2, <1>3 DEF OriginInv, Requesting

(* The thread of a task other than the root runs on a worker, and so does  *)
(* that of its parent.                                                     *)
LEMMA ThreadWorkers ==
  ASSUME TaskingInv, OriginInv, NEW t \in Task, thread[t].pc # "none"
  PROVE  /\ thread[t].host \in Worker
         /\ t # Root => thread[t].origin \in Worker
<1>0. WorkerTypeOK /\ ThreadInv /\ TablesAgree /\ RuntimeTypeOK
  BY Parts
<1>1. thread[t].host \in Worker
  BY <1>0, ThreadTypes, Names DEF ThreadInv
<1>2. ASSUME t # Root PROVE thread[t].origin \in Worker
  <2>1. t \in created_tasks /\ thread[t].origin = origin_id(t)
    BY InTable DEF OriginInv
  <2>2. parent_id[t] \in Task /\ node[parent_id[t]] # 0
    BY <1>0, <1>2, <2>1, CreatorsAssumption DEF TablesAgree
  <2> QED BY <1>0, <1>2, <2>1, <2>2, ThreadTypes, Names DEF origin_id
<1> QED BY <1>1, <1>2

------------------------------------------------------------------------------
(* The write-backs between two workers that the receiver has not applied,  *)
(* as a set of messages and their order; the head that the main thread of  *)
(* d has taken comes first.                                                *)
HeadOf(t) == Msg("WRITE_MEMORY", "task", t)
ChangesOf(t) == Msg("WRITE_MEMORY", "data", t)

OnChannel(s, d) == {m \in InChannel(net[<<s, d>>]) : m.tag = "WRITE_MEMORY"}
TakenHead(s, d) == IF HeadTaken(s, d) THEN {HeadOf(main[d].task)} ELSE {}
Backlog(s, d) == OnChannel(s, d) \cup TakenHead(s, d)

Order(s, d, m, n) ==
  n \in OnChannel(s, d) /\ (m \in TakenHead(s, d) \/ Precedes(net[<<s, d>>], m, n))

(* What a write-back says is true: it is that of a task which ran on the   *)
(* sender, was created on the receiver, and has sent it.                   *)
Written == {"sending", "free", "finish", "ended", "crash"}

WriteTrue(s, d, m) ==
  /\ m = HeadOf(m.task) \/ m = ChangesOf(m.task)
  /\ m.task \in Task /\ Remote(m.task)
  /\ thread[m.task].host = s /\ thread[m.task].origin = d
  /\ thread[m.task].pc \in Written \cup {"data"}
  /\ m.part = "data" => m.task \in Captures /\ thread[m.task].pc # "data"

BacklogTrue(s, d) == \A m \in Backlog(s, d) : WriteTrue(s, d, m)

(* Changes follow their head; a head of a task that has variables has its  *)
(* changes behind it, or is the last one and its task is about to send     *)
(* them.                                                                   *)
BacklogPaired(s, d) ==
  \A m \in Backlog(s, d) :
    /\ m.part = "data" =>
         HeadOf(m.task) \in Backlog(s, d) /\ ~Order(s, d, m, HeadOf(m.task))
    /\ m.part = "task" /\ m.task \in Captures /\ thread[m.task].pc # "data" =>
         ChangesOf(m.task) \in Backlog(s, d)
    /\ m.part = "task" /\ thread[m.task].pc = "data" =>
         \A n \in Backlog(s, d) : ~Order(s, d, m, n)

(* No message is there twice, and none is between two of another task.     *)
BacklogOrdered(s, d) ==
  /\ \A m \in Backlog(s, d) : ~Order(s, d, m, m)
  /\ \A m, n \in Backlog(s, d) : m = n \/ Order(s, d, m, n) \/ Order(s, d, n, m)
  /\ \A l, m, n \in Backlog(s, d) :
       Order(s, d, l, m) /\ Order(s, d, m, n) /\ l.task = n.task => m.task = l.task

BacklogInv(s, d) == BacklogTrue(s, d) /\ BacklogPaired(s, d) /\ BacklogOrdered(s, d)

WriteInv == \A s, d \in Worker : BacklogInv(s, d)

(* The main thread waits for changes only of a task that has variables;    *)
(* the head of a task that is about to send its changes is under way; and  *)
(* the changes it has sent are under way or applied, the latter if the     *)
(* send has returned without being buffered.                               *)
TakenInv == \A d \in Worker : main[d].pc = "wb_recv" => main[d].task \in Captures

DataInv ==
  \A t \in Task : thread[t].pc = "data" =>
    /\ t \in Captures /\ Remote(t)
    /\ \A s, d \in Worker :
         thread[t].host = s /\ thread[t].origin = d => HeadOf(t) \in Backlog(s, d)

MergedInv ==
  \A t \in Captures, s, d \in Worker :
    Remote(t) /\ thread[t].pc \in Written /\ thread[t].host = s /\ thread[t].origin = d =>
      \/ t \in merged
      \/ (thread[t].pc = "sending" \/ t \notin Synchronous) /\ ChangesOf(t) \in Backlog(s, d)

XferInv == WriteInv /\ TakenInv /\ DataInv /\ MergedInv

(* The messages of a backlog are messages.                                 *)
LEMMA BacklogType ==
  ASSUME WorkerTypeOK, NEW s \in Worker, NEW d \in Worker
  PROVE  /\ OnChannel(s, d) \subseteq Message /\ TakenHead(s, d) \subseteq Message
         /\ \A m \in Backlog(s, d) : m \in Message /\ m.tag = "WRITE_MEMORY"
         /\ \A m \in TakenHead(s, d) : m.part = "task"
<1>1. s \in Node /\ d \in Node /\ NetworkTypeOK /\ main[d].task \in Task
  BY WorkerTypes, Names
<1>2. OnChannel(s, d) \subseteq Message /\ \A m \in OnChannel(s, d) : m.tag = "WRITE_MEMORY"
  BY <1>1, ChannelType DEF OnChannel
<1>3. \A m \in TakenHead(s, d) : m \in Message /\ m.tag = "WRITE_MEMORY" /\ m.part = "task"
  <2>1. HeadOf(main[d].task) \in Message /\ HeadOf(main[d].task).tag = "WRITE_MEMORY"
        /\ HeadOf(main[d].task).part = "task"
    BY <1>1, MsgType DEF HeadOf, Tag, Part
  <2> QED BY <2>1 DEF TakenHead
<1> QED BY <1>2, <1>3 DEF Backlog

------------------------------------------------------------------------------
(* How a backlog changes: not at all, by one message at its end, or by the *)
(* write-back of a task, which is applied or has nothing to apply.         *)
SameBacklog(s, d) ==
  /\ Backlog(s, d)' = Backlog(s, d)
  /\ \A m, n \in Backlog(s, d) : Order(s, d, m, n)' <=> Order(s, d, m, n)

GrowsBy(s, d, l) ==
  /\ l \notin Backlog(s, d)
  /\ Backlog(s, d)' = Backlog(s, d) \cup {l}
  /\ \A m, n \in Backlog(s, d) \cup {l} :
       Order(s, d, m, n)' <=> Order(s, d, m, n) \/ (m \in Backlog(s, d) /\ n = l)

Shrinks(s, d, t) ==
  /\ Backlog(s, d)' = Backlog(s, d) \ {HeadOf(t), ChangesOf(t)}
  /\ \A m, n \in Backlog(s, d)' : Order(s, d, m, n)' <=> Order(s, d, m, n)

(* It stays if no message of it moves and the head that was taken stays.   *)
LEMMA KeptBacklog ==
  ASSUME WorkerTypeOK, WorkerTypeOK', NEW s \in Worker, NEW d \in Worker,
         SameOf("WRITE_MEMORY", net[<<s, d>>], net'[<<s, d>>]),
         TakenHead(s, d)' = TakenHead(s, d)
  PROVE  SameBacklog(s, d)
<1>1. /\ \A m \in OnChannel(s, d) : m \in Message /\ m.tag = "WRITE_MEMORY"
      /\ \A m \in TakenHead(s, d) : m \in Message /\ m.tag = "WRITE_MEMORY"
  BY BacklogType DEF Backlog
<1>2. \A m \in OnChannel(s, d)' : m \in Message /\ m.tag = "WRITE_MEMORY"
  <2>1. s \in Node /\ d \in Node /\ net' \in [Node \X Node -> Seq(Message)]
    BY WorkerTypes, Names DEF NetworkTypeOK, WorkerTypeOK
  <2>2. net'[<<s, d>>] \in Seq(Message)
    BY <2>1
  <2> QED BY <2>2, ElementOfSeq DEF OnChannel, InChannel
<1>3. OnChannel(s, d)' = OnChannel(s, d)
  BY <1>1, <1>2 DEF OnChannel, SameOf
<1>4. \A m, n : m \in Backlog(s, d) /\ n \in OnChannel(s, d) =>
        (Precedes(net'[<<s, d>>], m, n) <=> Precedes(net[<<s, d>>], m, n))
  BY <1>1 DEF SameOf, Backlog
<1> QED BY <1>3, <1>4 DEF SameBacklog, Backlog, Order

(* A write-back message sent on it comes last.                             *)
LEMMA SentBacklog ==
  ASSUME WorkerTypeOK, NEW s \in Worker, NEW d \in Worker, NEW l \in Message,
         l.tag = "WRITE_MEMORY", net'[<<s, d>>] = Append(net[<<s, d>>], l),
         TakenHead(s, d)' = TakenHead(s, d), l \notin Backlog(s, d)
  PROVE  GrowsBy(s, d, l)
<1>1. net[<<s, d>>] \in Seq(Message)
  BY WorkerTypes, Names DEF NetworkTypeOK
<1>2. InChannel(net'[<<s, d>>]) = InChannel(net[<<s, d>>]) \cup {l}
  BY <1>1, AppendOne
<1>3. ASSUME NEW m, NEW n
      PROVE  Precedes(net'[<<s, d>>], m, n)
                <=> Precedes(net[<<s, d>>], m, n) \/ (m \in InChannel(net[<<s, d>>]) /\ n = l)
  BY <1>1, AppendPrecedes
<1>4. OnChannel(s, d)' = OnChannel(s, d) \cup {l}
  BY <1>2 DEF OnChannel
<1>5. ASSUME NEW m, NEW n, Precedes(net[<<s, d>>], m, n)
      PROVE  m \in InChannel(net[<<s, d>>]) /\ n \in InChannel(net[<<s, d>>])
  BY <1>5 DEF Precedes, InChannel
<1>6. ASSUME NEW m \in Backlog(s, d) \cup {l}, NEW n \in Backlog(s, d) \cup {l}
      PROVE  Order(s, d, m, n)' <=> Order(s, d, m, n) \/ (m \in Backlog(s, d) /\ n = l)
  <2>1. m.tag = "WRITE_MEMORY"
    BY BacklogType
  <2>2. m \in Backlog(s, d) => m \in TakenHead(s, d) \/ m \in InChannel(net[<<s, d>>])
    BY DEF Backlog, OnChannel
  <2>3. m \in InChannel(net[<<s, d>>]) => m \in Backlog(s, d)
    BY <2>1 DEF Backlog, OnChannel
  <2>4. l \notin OnChannel(s, d) /\ l \notin TakenHead(s, d)
    BY DEF Backlog
  <2>5. l \notin InChannel(net[<<s, d>>])
    BY <2>4 DEF OnChannel
  <2>6. CASE n = l
    <3>1. Order(s, d, m, n)' <=> m \in TakenHead(s, d) \/ m \in InChannel(net[<<s, d>>])
      BY <1>3, <1>4, <1>5, <2>5, <2>6 DEF Order
    <3>2. ~Order(s, d, m, n)
      BY <2>4, <2>6 DEF Order
    <3> QED BY <2>2, <2>3, <2>6, <3>1, <3>2 DEF Backlog
  <2>7. CASE n # l
    BY <1>3, <1>4, <2>7 DEF Order
  <2> QED BY <2>6, <2>7
<1>7. Backlog(s, d)' = Backlog(s, d) \cup {l}
  BY <1>4 DEF Backlog
<1> QED BY <1>6, <1>7 DEF GrowsBy

(* A receive takes the first of a backlog that is on the channel.          *)
LEMMA FirstOfBacklog ==
  ASSUME WorkerTypeOK, WriteInv, NEW s \in Worker, NEW d \in Worker,
         Arrived(s, d, "WRITE_MEMORY")
  PROVE  LET q == net[<<s, d>>]
             m == Matched(s, d, "WRITE_MEMORY")
             r == Without(s, d, "WRITE_MEMORY")
         IN  /\ m \in OnChannel(s, d)
             /\ {x \in InChannel(r) : x.tag = "WRITE_MEMORY"} = OnChannel(s, d) \ {m}
             /\ \A x \in OnChannel(s, d) : ~Precedes(q, x, m) /\ (x # m => Precedes(q, m, x))
             /\ \A x, y \in OnChannel(s, d) \ {m} : Precedes(r, x, y) <=> Precedes(q, x, y)
<1>1. NetworkTypeOK /\ s \in Node /\ d \in Node
  BY WorkerTypes, Names
<1> DEFINE q == net[<<s, d>>]
           m == Matched(s, d, "WRITE_MEMORY")
           r == Without(s, d, "WRITE_MEMORY")
<1>2. /\ m.tag = "WRITE_MEMORY" /\ m \in InChannel(q) /\ InChannel(r) \subseteq InChannel(q)
      /\ \A x \in InChannel(q) : x # m => x \in InChannel(r)
  BY <1>1, WithoutEffect
<1>3. /\ \A x, y : Precedes(r, x, y) => Precedes(q, x, y)
      /\ \A x, y : Precedes(q, x, y) /\ x # m /\ y # m => Precedes(r, x, y)
      /\ ~Precedes(q, m, m) =>
           /\ m \notin InChannel(r)
           /\ \A x \in InChannel(q) :
                x.tag = "WRITE_MEMORY" => ~Precedes(q, x, m) /\ (x # m => Precedes(q, m, x))
  BY <1>1, WithoutPrecedes
<1>4. OnChannel(s, d) = {x \in InChannel(q) : x.tag = "WRITE_MEMORY"}
  BY DEF OnChannel
<1>5. BacklogOrdered(s, d)
  BY DEF WriteInv, BacklogInv
<1>6. q = net[<<s, d>>]
  OBVIOUS
<1> HIDE DEF q, m, r
<1>7. m \in OnChannel(s, d) /\ ~Precedes(q, m, m)
  BY <1>2, <1>4, <1>5, <1>6 DEF BacklogOrdered, Backlog, Order
<1>8. {x \in InChannel(r) : x.tag = "WRITE_MEMORY"} = OnChannel(s, d) \ {m}
  BY <1>2, <1>3, <1>4, <1>7
<1>9. \A x \in OnChannel(s, d) : ~Precedes(q, x, m) /\ (x # m => Precedes(q, m, x))
  BY <1>3, <1>4, <1>7
<1>10. \A x, y \in OnChannel(s, d) \ {m} : Precedes(r, x, y) <=> Precedes(q, x, y)
  BY <1>3
<1> QED BY <1>7, <1>8, <1>9, <1>10 DEF q, m, r

(* handle_write_memory: the first message is a head, and it stays first.   *)
LEMMA HeadStays ==
  ASSUME WorkerTypeOK, WorkerTypeOK', WriteInv, NEW w \in Worker, handle_write_memory(w),
         NEW s \in Worker, NEW d \in Worker
  PROVE  SameBacklog(s, d)
<1>1. /\ main[w].pc = "recv" /\ main[w].peer \in Node /\ Arrived(main[w].peer, w, "WRITE_MEMORY")
      /\ incoming(w) = Matched(main[w].peer, w, "WRITE_MEMORY") /\ main[w].tag = "WRITE_MEMORY"
      /\ incoming(w) \in Message
  BY IncomingType DEF handle_write_memory
<1>p. PICK p, m : p = main[w].peer /\ m = incoming(w)
  OBVIOUS
<1>2. /\ main' = [main EXCEPT ![w] = [pc |-> "wb_lock", peer |-> p,
                                      tag |-> "WRITE_MEMORY", task |-> m.task]]
      /\ Receive(p, w, "WRITE_MEMORY")
  BY <1>1, <1>p DEF handle_write_memory, Consume
<1>3. /\ \A v \in Worker : v # w => main'[v] = main[v]
      /\ main'[w].pc = "wb_lock" /\ main'[w].peer = p /\ main'[w].task = m.task
  BY <1>2, WorkerTypes
<1>4. /\ net'[<<p, w>>] = Without(p, w, "WRITE_MEMORY")
      /\ \A x, y \in Node : <<x, y>> # <<p, w>> => net'[<<x, y>>] = net[<<x, y>>]
  <2>1. NetworkTypeOK /\ p \in Node /\ w \in Node /\ Arrived(p, w, "WRITE_MEMORY")
    BY <1>1, <1>p, WorkerTypes, Names
  <2> QED BY <1>2, <2>1, ReceiveEffect
<1>5. CASE <<s, d>> # <<p, w>>
  <2>1. net'[<<s, d>>] = net[<<s, d>>]
    BY <1>4, <1>5, Names
  <2>2. TakenHead(s, d)' = TakenHead(s, d)
    BY <1>1, <1>3, <1>p, <1>5 DEF TakenHead, HeadTaken
  <2> QED BY <2>1, <2>2, KeptBacklog DEF SameOf
<1>6. CASE s = p /\ d = w
  <2> DEFINE q == net[<<s, d>>]
             r == Without(s, d, "WRITE_MEMORY")
  <2>1. /\ m \in OnChannel(s, d)
        /\ {x \in InChannel(r) : x.tag = "WRITE_MEMORY"} = OnChannel(s, d) \ {m}
        /\ \A x \in OnChannel(s, d) : ~Precedes(q, x, m) /\ (x # m => Precedes(q, m, x))
        /\ \A x, y \in OnChannel(s, d) \ {m} : Precedes(r, x, y) <=> Precedes(q, x, y)
    BY <1>1, <1>p, <1>6, FirstOfBacklog
  <2>2. net'[<<s, d>>] = r
    BY <1>4, <1>6
  <2>3. q = net[<<s, d>>]
    OBVIOUS
  <2> HIDE DEF q, r
  <2>4. TakenHead(s, d) = {} /\ TakenHead(s, d)' = {HeadOf(m.task)}
    BY <1>1, <1>3, <1>6 DEF TakenHead, HeadTaken
  <2>5. m = HeadOf(m.task)
    <3>1. BacklogTrue(s, d) /\ BacklogPaired(s, d)
      BY DEF WriteInv, BacklogInv
    <3>2. m \in Backlog(s, d) /\ (m = HeadOf(m.task) \/ m = ChangesOf(m.task))
      BY <2>1, <3>1 DEF Backlog, BacklogTrue, WriteTrue
    <3> SUFFICES ASSUME m = ChangesOf(m.task), m # HeadOf(m.task) PROVE FALSE
      BY <3>2
    <3>3. m.part = "data"
      <4>1. ChangesOf(m.task).part = "data"
        BY DEF ChangesOf, Msg
      <4> QED BY <4>1
    <3>4. HeadOf(m.task) \in OnChannel(s, d) /\ ~Order(s, d, m, HeadOf(m.task))
      BY <2>4, <3>1, <3>2, <3>3 DEF BacklogPaired, Backlog
    <3> QED BY <2>1, <2>3, <3>4 DEF Order
  <2>6. OnChannel(s, d)' = OnChannel(s, d) \ {m}
    BY <2>1, <2>2 DEF OnChannel
  <2>7. Backlog(s, d)' = Backlog(s, d)
    BY <2>1, <2>4, <2>5, <2>6 DEF Backlog
  <2>8. ASSUME NEW x \in Backlog(s, d), NEW y \in Backlog(s, d)
        PROVE  Order(s, d, x, y)' <=> Order(s, d, x, y)
    <3>1. x \in OnChannel(s, d) /\ y \in OnChannel(s, d)
      BY <2>4 DEF Backlog
    <3>2. Order(s, d, x, y) <=> Precedes(q, x, y)
      BY <2>3, <2>4, <3>1 DEF Order
    <3>3. Order(s, d, x, y)' <=> y # m /\ (x = m \/ Precedes(r, x, y))
      BY <2>2, <2>4, <2>5, <2>6, <3>1 DEF Order
    <3>4. x # m /\ y # m => (Precedes(r, x, y) <=> Precedes(q, x, y))
      BY <2>1, <3>1
    <3> QED BY <2>1, <3>1, <3>2, <3>3, <3>4
  <2> QED BY <2>7, <2>8 DEF SameBacklog
<1> QED BY <1>5, <1>6

(* The head that the main thread of d has taken is not on the channel.     *)
LEMMA TakenIsOff ==
  ASSUME WriteInv, NEW s \in Worker, NEW d \in Worker, HeadTaken(s, d)
  PROVE  /\ TakenHead(s, d) = {HeadOf(main[d].task)}
         /\ HeadOf(main[d].task) \in Backlog(s, d)
         /\ HeadOf(main[d].task) \notin OnChannel(s, d)
<1>1. TakenHead(s, d) = {HeadOf(main[d].task)}
  BY DEF TakenHead
<1>2. \A m \in Backlog(s, d) : ~Order(s, d, m, m)
  BY DEF WriteInv, BacklogInv, BacklogOrdered
<1> QED BY <1>1, <1>2 DEF Backlog, Order

(* write_memory_lock: a task without variables has no more than its head.  *)
LEMMA HeadDropped ==
  ASSUME WorkerTypeOK, WorkerTypeOK', WriteInv, NEW w \in Worker, write_memory_lock(w),
         main[w].task \notin Captures, NEW s \in Worker, NEW d \in Worker
  PROVE  IF s = main[w].peer /\ d = w THEN Shrinks(s, d, main[w].task) ELSE SameBacklog(s, d)
<1>1. /\ main[w].pc = "wb_lock" /\ net' = net /\ main' = [main EXCEPT ![w] = At("poll")]
  BY DEF write_memory_lock
<1>2. /\ \A v \in Worker : v # w => main'[v] = main[v]
      /\ main'[w].pc = "poll"
  BY <1>1, WorkerTypes DEF At
<1>3. CASE ~(s = main[w].peer /\ d = w)
  <2>1. TakenHead(s, d)' = TakenHead(s, d)
    BY <1>1, <1>2, <1>3 DEF TakenHead, HeadTaken
  <2>2. SameBacklog(s, d)
    BY <1>1, <2>1, KeptBacklog DEF SameOf
  <2> QED BY <1>3, <2>2
<1>4. CASE s = main[w].peer /\ d = w
  <2>t. PICK t : t = main[w].task
    OBVIOUS
  <2>1. /\ TakenHead(s, d) = {HeadOf(t)} /\ HeadOf(t) \notin OnChannel(s, d)
        /\ HeadOf(t) \in Backlog(s, d)
    BY <1>1, <1>4, <2>t, TakenIsOff DEF HeadTaken
  <2>2. TakenHead(s, d)' = {} /\ OnChannel(s, d)' = OnChannel(s, d)
    BY <1>1, <1>2, <1>4 DEF TakenHead, HeadTaken, OnChannel
  <2>3. ChangesOf(t) \notin Backlog(s, d)
    <3>1. BacklogTrue(s, d)
      BY DEF WriteInv, BacklogInv
    <3>2. ChangesOf(t).part = "data" /\ ChangesOf(t).task = t
      BY DEF ChangesOf, Msg
    <3> QED BY <2>t, <3>1, <3>2 DEF BacklogTrue, WriteTrue
  <2>4. Backlog(s, d)' = OnChannel(s, d)
    BY <2>2 DEF Backlog
  <2>5. Backlog(s, d)' = Backlog(s, d) \ {HeadOf(t), ChangesOf(t)}
    BY <2>1, <2>3, <2>4 DEF Backlog
  <2>6. \A m, n \in Backlog(s, d)' : Order(s, d, m, n)' <=> Order(s, d, m, n)
    BY <1>1, <2>1, <2>2, <2>4 DEF Order
  <2>7. Shrinks(s, d, t)
    BY <2>5, <2>6 DEF Shrinks
  <2> QED BY <1>4, <2>t, <2>7
<1> QED BY <1>3, <1>4

(* write_memory_apply: what comes first are the changes of the task whose  *)
(* head was taken.                                                         *)
LEMMA ChangesApplied ==
  ASSUME TaskingInv, WorkerTypeOK', WriteInv, TakenInv, NEW w \in Worker, write_memory_apply(w),
         NEW s \in Worker, NEW d \in Worker
  PROVE  IF s = main[w].peer /\ d = w
         THEN Shrinks(s, d, main[w].task) /\ thread[main[w].task].pc # "data"
         ELSE SameBacklog(s, d)
<1>0. WorkerTypeOK /\ RequestInv
  BY Parts
<1>p. PICK p, t : p = main[w].peer /\ t = main[w].task
  OBVIOUS
<1>1. /\ main[w].pc = "wb_recv" /\ main' = [main EXCEPT ![w] = At("poll")]
      /\ Arrived(p, w, "WRITE_MEMORY") /\ Receive(p, w, "WRITE_MEMORY")
      /\ p \in Node /\ t \in Task /\ t \in Captures
  BY <1>0, <1>p, WorkerTypes DEF write_memory_apply, Consume, RequestInv, TagKept, TakenInv
<1>2. /\ \A v \in Worker : v # w => main'[v] = main[v]
      /\ main'[w].pc = "poll"
  BY <1>0, <1>1, WorkerTypes DEF At
<1>3. /\ net'[<<p, w>>] = Without(p, w, "WRITE_MEMORY")
      /\ \A x, y \in Node : <<x, y>> # <<p, w>> => net'[<<x, y>>] = net[<<x, y>>]
  <2>1. NetworkTypeOK /\ p \in Node /\ w \in Node
    BY <1>0, <1>1, WorkerTypes, Names
  <2> QED BY <1>1, <2>1, ReceiveEffect
<1>4. CASE ~(s = p /\ d = w)
  <2>1. net'[<<s, d>>] = net[<<s, d>>]
    BY <1>3, <1>4, Names
  <2>2. TakenHead(s, d)' = TakenHead(s, d)
    BY <1>2, <1>4, <1>p DEF TakenHead, HeadTaken
  <2>3. SameBacklog(s, d)
    BY <1>0, <2>1, <2>2, KeptBacklog DEF SameOf
  <2> QED BY <1>4, <1>p, <2>3
<1>5. CASE s = p /\ d = w
  <2>1. /\ TakenHead(s, d) = {HeadOf(t)} /\ HeadOf(t) \in Backlog(s, d)
        /\ HeadOf(t) \notin OnChannel(s, d)
    BY <1>1, <1>5, <1>p, TakenIsOff DEF HeadTaken
  <2>m. PICK m : m = Matched(s, d, "WRITE_MEMORY")
    OBVIOUS
  <2> DEFINE q == net[<<s, d>>]
             r == Without(s, d, "WRITE_MEMORY")
  <2>2. /\ m \in OnChannel(s, d)
        /\ {x \in InChannel(r) : x.tag = "WRITE_MEMORY"} = OnChannel(s, d) \ {m}
        /\ \A x \in OnChannel(s, d) : ~Precedes(q, x, m) /\ (x # m => Precedes(q, m, x))
        /\ \A x, y \in OnChannel(s, d) \ {m} : Precedes(r, x, y) <=> Precedes(q, x, y)
    BY <1>0, <1>1, <1>5, <2>m, FirstOfBacklog
  <2>3. net'[<<s, d>>] = r
    BY <1>3, <1>5
  <2>4. q = net[<<s, d>>]
    OBVIOUS
  <2> HIDE DEF q, r
  <2>h. /\ HeadOf(t).part = "task" /\ HeadOf(t).task = t
        /\ ChangesOf(t).part = "data" /\ ChangesOf(t).task = t
    BY DEF HeadOf, ChangesOf, Msg
  <2>5. BacklogTrue(s, d) /\ BacklogPaired(s, d) /\ BacklogOrdered(s, d)
    BY DEF WriteInv, BacklogInv
  <2>6. Order(s, d, HeadOf(t), m)
    BY <2>1, <2>2 DEF Order
  <2>d. thread[t].pc # "data"
    BY <2>1, <2>2, <2>5, <2>6, <2>h DEF BacklogPaired, Backlog
  <2>7. ChangesOf(t) \in OnChannel(s, d)
    <3>1. ChangesOf(t) \in Backlog(s, d)
      BY <1>1, <2>1, <2>5, <2>d, <2>h DEF BacklogPaired
    <3>2. ChangesOf(t) # HeadOf(t)
      BY <2>h
    <3> QED BY <2>1, <3>1, <3>2 DEF Backlog
  <2>8. m = ChangesOf(t)
    <3> SUFFICES ASSUME m # ChangesOf(t) PROVE FALSE
      OBVIOUS
    <3>1. Order(s, d, m, ChangesOf(t))
      BY <2>2, <2>4, <2>7 DEF Order
    <3>2. m \in Backlog(s, d) /\ ChangesOf(t) \in Backlog(s, d)
      BY <2>2, <2>7 DEF Backlog
    <3>3. m.task = t
      BY <2>1, <2>5, <2>6, <2>h, <3>1, <3>2 DEF BacklogOrdered
    <3>4. m = HeadOf(t)
      BY <2>5, <3>2, <3>3 DEF BacklogTrue, WriteTrue
    <3> QED BY <2>1, <2>2, <3>4
  <2>9. TakenHead(s, d)' = {} /\ OnChannel(s, d)' = OnChannel(s, d) \ {m}
    BY <1>2, <1>5, <2>2, <2>3 DEF TakenHead, HeadTaken, OnChannel
  <2>10. Backlog(s, d)' = Backlog(s, d) \ {HeadOf(t), ChangesOf(t)}
    BY <2>1, <2>8, <2>9 DEF Backlog
  <2>11. ASSUME NEW x \in Backlog(s, d)', NEW y \in Backlog(s, d)'
         PROVE  Order(s, d, x, y)' <=> Order(s, d, x, y)
    <3>1. x \in OnChannel(s, d) \ {m} /\ y \in OnChannel(s, d) \ {m} /\ x # HeadOf(t)
      BY <2>1, <2>9 DEF Backlog
    <3>2. Order(s, d, x, y) <=> Precedes(q, x, y)
      BY <2>1, <2>4, <3>1 DEF Order
    <3>3. Order(s, d, x, y)' <=> Precedes(r, x, y)
      BY <2>3, <2>9, <3>1 DEF Order
    <3> QED BY <2>2, <3>1, <3>2, <3>3
  <2>12. Shrinks(s, d, t)
    BY <2>10, <2>11 DEF Shrinks
  <2> QED BY <1>5, <1>p, <2>12, <2>d
<1> QED BY <1>4, <1>5

------------------------------------------------------------------------------
(* The thread of a task whose write-back has begun stays where it is; it   *)
(* got there by sending the head; and a send that is not buffered returns  *)
(* by itself.                                                              *)
WritesBack(t) == thread[t].pc \in Written \cup {"data"}

ThreadStays(t) ==
  /\ WritesBack(t) =>
       /\ WritesBack(t)'
       /\ thread'[t].host = thread[t].host /\ thread'[t].origin = thread[t].origin
       /\ thread'[t].pc = "data" <=> thread[t].pc = "data"
  /\ WritesBack(t)' /\ Remote(t)' => WritesBack(t)
  /\ thread[t].pc = "sending" => thread'[t].pc = "sending" \/ write_memory_return(t)
  /\ thread'[t].pc \in {"data", "sending"} => thread[t].pc = thread'[t].pc

(* Only its two sends change what a thread has to write back.              *)
LEMMA ThreadsStay ==
  ASSUME TaskingInv, [Next]_vars, NEW t \in Task, ~write_memory_head(t), ~write_memory_data(t)
  PROVE  ThreadStays(t)
<1>0. WorkerTypeOK
  BY Parts
<1>1. ASSUME thread'[t] = thread[t] PROVE ThreadStays(t)
  BY <1>1 DEF ThreadStays, WritesBack, Remote
<1>2. ASSUME NEW w \in Worker, MainStep(w) PROVE ThreadStays(t)
  <2>1. thread'[t] # thread[t] => thread[t].pc = "none" /\ thread'[t].pc = "body"
    BY <1>2, ThreadStart
  <2> QED BY <1>1, <2>1 DEF ThreadStays, WritesBack, Written
<1>3. ASSUME NEW u \in Task, CreateStep(u) \/ FinishStep(u), u # t PROVE ThreadStays(t)
  <2>1. \E pc : thread' = [thread EXCEPT ![u].pc = pc]
    BY <1>3 DEF CreateStep, FinishStep, create_task, handle_create_task_send,
         handle_create_task_reply, write_memory_head, write_memory_data,
         write_memory_return, free_after_run, handle_finish_task_send, Becomes
  <2>2. thread'[t] = thread[t]
    BY <1>0, <1>3, <2>1, WorkerTypes
  <2> QED BY <1>1, <2>2
<1>4. ASSUME NEW pc \in ThreadPC, Becomes(t, pc)
      PROVE  /\ thread'[t].pc = pc /\ thread'[t].host = thread[t].host
             /\ thread'[t].origin = thread[t].origin
  BY <1>0, <1>4, WorkerTypes DEF Becomes
<1>5. ASSUME CreateStep(t) PROVE ThreadStays(t)
  <2>1. \E pc \in {"lock", "reply", "body"} :
          Becomes(t, pc) /\ thread[t].pc \in {"body", "lock", "reply"}
    BY <1>5 DEF CreateStep, create_task, handle_create_task_send, handle_create_task_reply, Steps
  <2>2. thread'[t].pc \in {"lock", "reply", "body"}
    BY <1>4, <2>1 DEF ThreadPC
  <2> QED BY <2>1, <2>2 DEF ThreadStays, WritesBack, Written
<1>6. ASSUME write_memory_return(t) PROVE ThreadStays(t)
  <2>1. thread[t].pc = "sending" /\ Becomes(t, "free")
    BY <1>6 DEF write_memory_return, Steps
  <2>2. /\ thread'[t].pc = "free" /\ thread'[t].host = thread[t].host
        /\ thread'[t].origin = thread[t].origin
    BY <1>4, <2>1 DEF ThreadPC
  <2> QED BY <1>6, <2>1, <2>2 DEF ThreadStays, WritesBack, Written
<1>7. ASSUME free_after_run(t) \/ handle_finish_task_send(t) PROVE ThreadStays(t)
  <2>1. /\ \E pc \in {"finish", "crash", "ended"} : Becomes(t, pc)
        /\ \/ thread[t].pc \in {"free", "finish"}
           \/ thread[t].pc = "body" /\ ~Remote(t)
    BY <1>7 DEF free_after_run, handle_finish_task_send, WrittenBack, FinishesNext, Steps, Remote
  <2>2. /\ thread'[t].pc \in {"finish", "crash", "ended"} /\ thread'[t].host = thread[t].host
        /\ thread'[t].origin = thread[t].origin
    BY <1>4, <2>1 DEF ThreadPC
  <2> QED BY <2>1, <2>2 DEF ThreadStays, WritesBack, Written, Remote
<1>8. ASSUME RuntimeStep \/ UNCHANGED vars PROVE thread' = thread
  BY <1>8 DEF RuntimeStep, RuntimeSetup, RuntimeDispatch, RuntimeTaskSetUp,
       RuntimeShutdown, RuntimeCreateTask, RuntimeFinishTask, RuntimeReportCapacity, workerVars, vars
<1> QED BY <1>1, <1>2, <1>3, <1>5, <1>6, <1>7, <1>8
        DEF Next, MainThreadStep, TaskCreates, TaskFinishes, FinishStep

(* Changes that were written at their origin stay there.                   *)
LEMMA MergedStays ==
  ASSUME TaskingInv, [Next]_vars
  PROVE  merged \subseteq merged'
BY DEF Next, MainThreadStep, MainStep, TaskCreates, TaskFinishes, CreateStep, FinishStep,
  create_task, handle_create_task_send, handle_create_task_reply, write_memory_head,
  write_memory_data, write_memory_return, free_after_run, handle_finish_task_send,
  RuntimeStep, RuntimeSetup, RuntimeDispatch, RuntimeTaskSetUp, RuntimeShutdown,
  RuntimeCreateTask, RuntimeFinishTask, RuntimeReportCapacity, workerVars, vars,
  WorkerSetup, Probe, LockAndPost, handle_run_task, request_memory_lock,
  request_memory_count, request_memory_data, handle_request_memory,
  handle_request_memory_return, handle_write_memory, write_memory_lock,
  write_memory_apply, handle_shutdown, start_thread

(* With a capacity of one, a worker runs one task at a time.               *)
LEMMA OneTask ==
  ASSUME TaskingInv, Capacity = 1, NEW t \in Task, NEW u \in Task,
         thread[t].pc \notin {"none", "ended"}, thread[u].pc \notin {"none", "ended"},
         thread[t].host = thread[u].host
  PROVE  t = u
<1>w. PICK w : w = thread[t].host
  OBVIOUS
<1>0. WorkerTypeOK /\ ThreadInv
  BY Parts
<1>1. w \in Worker
  BY <1>0, <1>w, ThreadTypes, Names DEF ThreadInv
<1>2. Cardinality(Busy(w)) <= 1
  BY <1>1, BusyBounded
<1>3. {t, u} \subseteq Busy(w)
  BY <1>w DEF Busy
<1>4. IsFiniteSet(Busy(w))
  <2>1. Busy(w) \subseteq Task
    <3>1. \A i \in Tagged(0, w, "RUN_TASK") : net[<<0, w>>][i].task \in Task
      <4>1. net[<<0, w>>] \in Seq(Message)
        BY <1>0, <1>1, WorkerTypes, Names DEF NetworkTypeOK
      <4>2. \A i \in 1 .. Len(net[<<0, w>>]) : net[<<0, w>>][i] \in Message
        BY <4>1, ElementOfSeq
      <4> QED BY <4>2, MessageFields DEF Tagged
    <3>2. main[w].task \in Task
      BY <1>0, <1>1, WorkerTypes
    <3> QED BY <3>1, <3>2 DEF Busy
  <2>2. IsFiniteSet(Task)
    BY MaxTaskAssumption, FS_Interval DEF Task
  <2> QED BY <2>1, <2>2, FS_Subset
<1>5. Cardinality({t, u}) <= Cardinality(Busy(w)) /\ IsFiniteSet({t, u})
  BY <1>3, <1>4, FS_Subset
<1>6. t # u => Cardinality({t, u}) = 2
  <2>1. Cardinality({t}) = 1 /\ IsFiniteSet({t})
    BY FS_Singleton
  <2>2. t # u => Cardinality({t} \cup {u}) = Cardinality({t}) + 1
    BY <2>1, FS_AddElement
  <2>3. {t} \cup {u} = {t, u}
    OBVIOUS
  <2> QED BY <2>1, <2>2, <2>3
<1>7. Cardinality({t, u}) \in Nat /\ Cardinality(Busy(w)) \in Nat
  BY <1>4, <1>5, FS_CardinalityType
<1> QED BY <1>2, <1>5, <1>6, <1>7

------------------------------------------------------------------------------
(* What is true of a backlog stays true if it does not change,             *)
LEMMA SameKeeps ==
  ASSUME NEW s, NEW d, BacklogInv(s, d), SameBacklog(s, d),
         \A m \in Backlog(s, d) : ThreadStays(m.task)
  PROVE  BacklogInv(s, d)'
<1>1. /\ Backlog(s, d)' = Backlog(s, d)
      /\ \A m, n \in Backlog(s, d) : Order(s, d, m, n)' <=> Order(s, d, m, n)
  BY DEF SameBacklog
<1>2. BacklogTrue(s, d)'
  BY <1>1 DEF BacklogInv, BacklogTrue, WriteTrue, ThreadStays, WritesBack, Remote
<1>3. ASSUME NEW m \in Backlog(s, d)
      PROVE  thread'[m.task].pc = "data" <=> thread[m.task].pc = "data"
  BY DEF BacklogInv, BacklogTrue, WriteTrue, ThreadStays, WritesBack
<1>4. BacklogPaired(s, d)'
  BY <1>1, <1>3 DEF BacklogInv, BacklogPaired
<1>5. BacklogOrdered(s, d)'
  BY <1>1 DEF BacklogInv, BacklogOrdered
<1> QED BY <1>2, <1>4, <1>5 DEF BacklogInv

(* if the write-back of one task leaves it,                                *)
LEMMA ShrinkKeeps ==
  ASSUME NEW s, NEW d, NEW t, BacklogInv(s, d), Shrinks(s, d, t),
         \A m \in Backlog(s, d) : ThreadStays(m.task)
  PROVE  BacklogInv(s, d)'
<1>1. /\ Backlog(s, d)' = Backlog(s, d) \ {HeadOf(t), ChangesOf(t)}
      /\ \A m, n \in Backlog(s, d)' : Order(s, d, m, n)' <=> Order(s, d, m, n)
  BY DEF Shrinks
<1>2. BacklogTrue(s, d)'
  BY <1>1 DEF BacklogInv, BacklogTrue, WriteTrue, ThreadStays, WritesBack, Remote
<1>3. ASSUME NEW m \in Backlog(s, d)
      PROVE  thread'[m.task].pc = "data" <=> thread[m.task].pc = "data"
  BY DEF BacklogInv, BacklogTrue, WriteTrue, ThreadStays, WritesBack
<1>4. ASSUME NEW m \in Backlog(s, d), NEW u, m = HeadOf(u) \/ m = ChangesOf(u)
      PROVE  m.task = u
  BY <1>4 DEF HeadOf, ChangesOf, Msg
<1>5. \A m \in Backlog(s, d)' : m \in Backlog(s, d) /\ m.task # t
  <2>1. \A m \in Backlog(s, d) : m = HeadOf(m.task) \/ m = ChangesOf(m.task)
    BY DEF BacklogInv, BacklogTrue, WriteTrue
  <2> QED BY <1>1, <2>1
<1>6. ASSUME NEW u, u # t, HeadOf(u) \in Backlog(s, d) PROVE HeadOf(u) \in Backlog(s, d)'
  <2>1. HeadOf(u) # HeadOf(t) /\ HeadOf(u) # ChangesOf(t)
    BY <1>6 DEF HeadOf, ChangesOf, Msg
  <2> QED BY <1>1, <1>6, <2>1
<1>7. ASSUME NEW u, u # t, ChangesOf(u) \in Backlog(s, d) PROVE ChangesOf(u) \in Backlog(s, d)'
  <2>1. ChangesOf(u) # HeadOf(t) /\ ChangesOf(u) # ChangesOf(t)
    BY <1>7 DEF HeadOf, ChangesOf, Msg
  <2> QED BY <1>1, <1>7, <2>1
<1>8. BacklogPaired(s, d)'
  BY <1>1, <1>3, <1>5, <1>6, <1>7 DEF BacklogInv, BacklogPaired
<1>9. BacklogOrdered(s, d)'
  BY <1>1, <1>5 DEF BacklogInv, BacklogOrdered
<1> QED BY <1>2, <1>8, <1>9 DEF BacklogInv

(* if a head comes to it while no other task is about to send its changes, *)
LEMMA HeadKeeps ==
  ASSUME NEW s, NEW d, NEW t \in Task, BacklogInv(s, d), GrowsBy(s, d, HeadOf(t)),
         \A m \in Backlog(s, d) : m.task # t /\ thread[m.task].pc # "data",
         \A u \in Task : u # t => thread'[u] = thread[u],
         Remote(t)', thread'[t].host = s, thread'[t].origin = d,
         thread'[t].pc = IF t \in Captures THEN "data" ELSE "free"
  PROVE  BacklogInv(s, d)'
<1>l. PICK l : l = HeadOf(t)
  OBVIOUS
<1>h. l.task = t /\ l.part = "task"
  BY <1>l DEF HeadOf, Msg
<1>1. /\ l \notin Backlog(s, d) /\ Backlog(s, d)' = Backlog(s, d) \cup {l}
      /\ \A m, n \in Backlog(s, d) \cup {l} :
           Order(s, d, m, n)' <=> Order(s, d, m, n) \/ (m \in Backlog(s, d) /\ n = l)
  BY <1>l DEF GrowsBy
<1>3. \A m : ~Order(s, d, m, l)
  BY <1>1 DEF Order, Backlog
<1>4. \A n \in Backlog(s, d) : ~Order(s, d, l, n)
  <2> SUFFICES ASSUME NEW n, Order(s, d, l, n) PROVE FALSE
    OBVIOUS
  <2>1. l \notin TakenHead(s, d)
    BY <1>1 DEF Backlog
  <2>2. Precedes(net[<<s, d>>], l, n)
    BY <2>1 DEF Order
  <2>3. l \in InChannel(net[<<s, d>>]) /\ l.tag = "WRITE_MEMORY"
    BY <2>2, <1>l DEF Precedes, InChannel, HeadOf, Msg
  <2> QED BY <1>1, <2>3 DEF Backlog, OnChannel
<1>5. \A m \in Backlog(s, d) : m.task \in Task /\ thread'[m.task] = thread[m.task]
  BY DEF BacklogInv, BacklogTrue, WriteTrue
<1>6. BacklogTrue(s, d)'
  <2>1. \A m \in Backlog(s, d) : WriteTrue(s, d, m)'
    BY <1>5 DEF BacklogInv, BacklogTrue, WriteTrue, Remote
  <2>2. WriteTrue(s, d, l)'
    BY <1>l, <1>h DEF WriteTrue, Written
  <2> QED BY <1>1, <2>1, <2>2 DEF BacklogTrue
<1>7. BacklogPaired(s, d)'
  <2>1. ASSUME NEW m \in Backlog(s, d), m.part = "data"
        PROVE  HeadOf(m.task) \in Backlog(s, d)' /\ ~Order(s, d, m, HeadOf(m.task))'
    <3>1. HeadOf(m.task) \in Backlog(s, d) /\ ~Order(s, d, m, HeadOf(m.task))
      BY <2>1 DEF BacklogInv, BacklogPaired
    <3> QED BY <1>1, <3>1
  <2>2. ASSUME NEW m \in Backlog(s, d), m.part = "task", m.task \in Captures
        PROVE  ChangesOf(m.task) \in Backlog(s, d)'
    BY <1>1, <2>2 DEF BacklogInv, BacklogPaired
  <2>3. ASSUME NEW m \in Backlog(s, d) PROVE thread'[m.task].pc # "data"
    BY <1>5
  <2>4. \A n \in Backlog(s, d)' : ~Order(s, d, l, n)'
    BY <1>1, <1>3, <1>4
  <2>5. l.task \in Captures => thread'[l.task].pc = "data"
    BY <1>h
  <2> QED BY <1>1, <1>h, <2>1, <2>2, <2>3, <2>4, <2>5 DEF BacklogPaired
<1>8. BacklogOrdered(s, d)'
  <2>1. \A m \in Backlog(s, d)' : ~Order(s, d, m, m)'
    BY <1>1, <1>3 DEF BacklogInv, BacklogOrdered
  <2>2. \A m, n \in Backlog(s, d)' : m = n \/ Order(s, d, m, n)' \/ Order(s, d, n, m)'
    BY <1>1 DEF BacklogInv, BacklogOrdered
  <2>3. ASSUME NEW k \in Backlog(s, d)', NEW m \in Backlog(s, d)', NEW n \in Backlog(s, d)',
               Order(s, d, k, m)', Order(s, d, m, n)', k.task = n.task
        PROVE  m.task = k.task
    <3>1. k # l /\ m # l
      BY <1>1, <1>3, <1>4, <2>3
    <3>2. k \in Backlog(s, d) /\ m \in Backlog(s, d)
      BY <1>1, <3>1
    <3>3. n # l
      BY <1>h, <2>3, <3>2
    <3> QED BY <1>1, <2>3, <3>1, <3>2, <3>3 DEF BacklogInv, BacklogOrdered
  <2> QED BY <2>1, <2>2, <2>3 DEF BacklogOrdered
<1> QED BY <1>6, <1>7, <1>8 DEF BacklogInv

(* and if the changes of its last head come.                               *)
LEMMA ChangesKeep ==
  ASSUME NEW s, NEW d, NEW t \in Captures, t \in Task,
         BacklogInv(s, d), GrowsBy(s, d, ChangesOf(t)),
         HeadOf(t) \in Backlog(s, d), thread[t].pc = "data",
         \A m \in Backlog(s, d) : thread[m.task].pc = "data" => m.task = t,
         \A u \in Task : u # t => thread'[u] = thread[u],
         Remote(t)', thread'[t].host = s, thread'[t].origin = d,
         thread'[t].pc \in {"sending", "free"}
  PROVE  BacklogInv(s, d)'
<1>l. PICK l, h : l = ChangesOf(t) /\ h = HeadOf(t)
  OBVIOUS
<1>h. l.task = t /\ l.part = "data" /\ h.task = t /\ h.part = "task" /\ h \in Backlog(s, d)
  BY <1>l DEF HeadOf, ChangesOf, Msg
<1>1. /\ l \notin Backlog(s, d) /\ Backlog(s, d)' = Backlog(s, d) \cup {l}
      /\ \A m, n \in Backlog(s, d) \cup {l} :
           Order(s, d, m, n)' <=> Order(s, d, m, n) \/ (m \in Backlog(s, d) /\ n = l)
  BY <1>l DEF GrowsBy
<1>3. \A m : ~Order(s, d, m, l)
  BY <1>1 DEF Order, Backlog
<1>4. \A n \in Backlog(s, d) : ~Order(s, d, l, n)
  <2> SUFFICES ASSUME NEW n, Order(s, d, l, n) PROVE FALSE
    OBVIOUS
  <2>1. l \notin TakenHead(s, d)
    BY <1>1 DEF Backlog
  <2>2. Precedes(net[<<s, d>>], l, n)
    BY <2>1 DEF Order
  <2>3. l \in InChannel(net[<<s, d>>]) /\ l.tag = "WRITE_MEMORY"
    BY <2>2, <1>l DEF Precedes, InChannel, ChangesOf, Msg
  <2> QED BY <1>1, <2>3 DEF Backlog, OnChannel
<1>5. \A m \in Backlog(s, d) : m.task \in Task /\ (m.task # t => thread'[m.task] = thread[m.task])
  BY DEF BacklogInv, BacklogTrue, WriteTrue
<1>6. \A m \in Backlog(s, d) : m.task = t => m = h
  BY <1>l DEF BacklogInv, BacklogTrue, WriteTrue, ChangesOf, Msg
<1>7. \A n \in Backlog(s, d) : ~Order(s, d, h, n)
  BY <1>h DEF BacklogInv, BacklogPaired
<1>8. BacklogTrue(s, d)'
  <2>1. ASSUME NEW m \in Backlog(s, d), m.task # t PROVE WriteTrue(s, d, m)'
    BY <1>5, <2>1 DEF BacklogInv, BacklogTrue, WriteTrue, Remote
  <2>2. WriteTrue(s, d, l)'
    BY <1>l, <1>h DEF WriteTrue, Written
  <2>3. WriteTrue(s, d, h)'
    BY <1>l, <1>h DEF WriteTrue, Written
  <2> QED BY <1>1, <1>6, <2>1, <2>2, <2>3 DEF BacklogTrue
<1>9. BacklogPaired(s, d)'
  <2>1. ASSUME NEW m \in Backlog(s, d), m.part = "data"
        PROVE  HeadOf(m.task) \in Backlog(s, d)' /\ ~Order(s, d, m, HeadOf(m.task))'
    <3>1. HeadOf(m.task) \in Backlog(s, d) /\ ~Order(s, d, m, HeadOf(m.task))
      BY <2>1 DEF BacklogInv, BacklogPaired
    <3> QED BY <1>1, <3>1
  <2>2. ASSUME NEW m \in Backlog(s, d), m.part = "task", m.task \in Captures
        PROVE  ChangesOf(m.task) \in Backlog(s, d)'
    <3>1. CASE m.task = t
      BY <1>1, <1>l, <3>1
    <3>2. CASE m.task # t
      BY <1>1, <2>2, <3>2 DEF BacklogInv, BacklogPaired
    <3> QED BY <3>1, <3>2
  <2>3. ASSUME NEW m \in Backlog(s, d) PROVE thread'[m.task].pc # "data"
    BY <1>5
  <2>4. HeadOf(l.task) \in Backlog(s, d)' /\ ~Order(s, d, l, HeadOf(l.task))'
    <3>1. HeadOf(l.task) = h /\ h # l
      BY <1>l, <1>h
    <3> QED BY <1>1, <1>4, <1>h, <3>1
  <2> QED BY <1>1, <1>h, <2>1, <2>2, <2>3, <2>4 DEF BacklogPaired
<1>10. BacklogOrdered(s, d)'
  <2>1. \A m \in Backlog(s, d)' : ~Order(s, d, m, m)'
    BY <1>1, <1>3 DEF BacklogInv, BacklogOrdered
  <2>2. \A m, n \in Backlog(s, d)' : m = n \/ Order(s, d, m, n)' \/ Order(s, d, n, m)'
    BY <1>1 DEF BacklogInv, BacklogOrdered
  <2>3. ASSUME NEW k \in Backlog(s, d)', NEW m \in Backlog(s, d)', NEW n \in Backlog(s, d)',
               Order(s, d, k, m)', Order(s, d, m, n)', k.task = n.task
        PROVE  m.task = k.task
    <3>1. k # l /\ m # l
      BY <1>1, <1>3, <1>4, <2>3
    <3>2. k \in Backlog(s, d) /\ m \in Backlog(s, d) /\ Order(s, d, k, m)
      BY <1>1, <2>3, <3>1
    <3>3. n # l
      <4> SUFFICES ASSUME n = l PROVE FALSE
        OBVIOUS
      <4>1. k = h
        BY <1>6, <1>h, <2>3, <3>2
      <4> QED BY <1>7, <3>2, <4>1
    <3> QED BY <1>1, <2>3, <3>1, <3>2, <3>3 DEF BacklogInv, BacklogOrdered
  <2> QED BY <2>1, <2>2, <2>3 DEF BacklogOrdered
<1> QED BY <1>8, <1>9, <1>10 DEF BacklogInv

------------------------------------------------------------------------------
(* The main threads and the write-backs they take.                         *)
LEMMA MainUnchanged ==
  ASSUME [Next]_vars, \A w \in Worker : ~MainStep(w)
  PROVE  main' = main
BY DEF Next, vars, MainThreadStep, TaskCreates, TaskFinishes, CreateStep, FinishStep,
  create_task, handle_create_task_send, handle_create_task_reply, write_memory_head,
  write_memory_data, write_memory_return, free_after_run, handle_finish_task_send,
  RuntimeStep, RuntimeSetup, RuntimeDispatch, RuntimeTaskSetUp, RuntimeShutdown,
  RuntimeCreateTask, RuntimeFinishTask, RuntimeReportCapacity, workerVars

(* A main thread waits for the changes of a task with variables only.      *)
LEMMA TakenStep ==
  ASSUME TaskingInv, TakenInv, [Next]_vars
  PROVE  TakenInv'
<1>0. WorkerTypeOK
  BY Parts
<1> SUFFICES ASSUME NEW d \in Worker, main'[d].pc = "wb_recv" PROVE main'[d].task \in Captures
  BY DEF TakenInv
<1>1. CASE main'[d] = main[d]
  BY <1>1 DEF TakenInv
<1>2. ASSUME NEW w \in Worker, MainStep(w), main'[d] # main[d] PROVE main'[d].task \in Captures
  <2>1. d = w /\ GoesOn(d)
    BY <1>0, <1>2, MainExchange DEF StartsRequest, StartsMerge, Merging
  <2> QED BY <2>1 DEF GoesOn, TakenInv
<1> QED BY <1>1, <1>2, MainUnchanged

(* Other steps do not touch the head that was taken.                       *)
LEMMA QuietTaken ==
  ASSUME TaskingInv, NEW w \in Worker, MainStep(w), ~handle_write_memory(w),
         ~write_memory_lock(w), ~write_memory_apply(w), NEW s \in Worker, NEW d \in Worker
  PROVE  TakenHead(s, d)' = TakenHead(s, d)
<1>0. WorkerTypeOK
  BY Parts
<1>1. main[w].pc \notin Merging
  BY DEF MainStep, WorkerSetup, Probe, LockAndPost, handle_run_task, request_memory_lock,
     request_memory_count, request_memory_data, handle_request_memory, Received,
     handle_request_memory_return, handle_shutdown, Merging
<1>2. main'[w].pc \notin Merging
  BY <1>0, <1>1, MainExchange DEF GoesOn, StartsRequest, StartsMerge, Requesting, Merging
<1>3. \A v \in Worker : v # w => main'[v] = main[v]
  BY <1>0, MainExchange
<1> QED BY <1>1, <1>2, <1>3 DEF TakenHead, HeadTaken, Merging

(* The invariant of the write-backs over a step in which threads stay and  *)
(* backlogs stay or lose a write-back that is applied.                     *)
LEMMA XferQuiet ==
  ASSUME TaskingInv, OriginInv, XferInv, [Next]_vars,
         \A t \in Task : ThreadStays(t),
         \A s, d \in Worker :
           \/ SameBacklog(s, d)
           \/ \E u \in Task : /\ Shrinks(s, d, u) /\ thread[u].pc # "data"
                              /\ u \in Captures => u \in merged'
  PROVE  XferInv'
<1>0. WorkerTypeOK /\ Captures \subseteq Task /\ Root \notin Captures
  BY Parts, CapturesAssumption
<1>1. WriteInv'
  <2> SUFFICES ASSUME NEW s \in Worker, NEW d \in Worker PROVE BacklogInv(s, d)'
    BY DEF WriteInv
  <2>1. BacklogInv(s, d) /\ \A m \in Backlog(s, d) : ThreadStays(m.task)
    BY DEF XferInv, WriteInv, BacklogInv, BacklogTrue, WriteTrue
  <2> QED BY <2>1, SameKeeps, ShrinkKeeps
<1>2. TakenInv'
  BY TakenStep DEF XferInv
<1>r. ASSUME NEW t \in Task, WritesBack(t)', Remote(t)'
      PROVE  /\ WritesBack(t) /\ Remote(t)
             /\ thread'[t].host = thread[t].host /\ thread'[t].origin = thread[t].origin
             /\ thread'[t].pc = "data" <=> thread[t].pc = "data"
             /\ thread[t].pc = "sending" => thread'[t].pc = "sending" \/ write_memory_return(t)
  <2>1. WritesBack(t) /\ ThreadStays(t)
    BY <1>r DEF ThreadStays
  <2>2. thread'[t].host = thread[t].host /\ thread'[t].origin = thread[t].origin
    BY <2>1 DEF ThreadStays
  <2> QED BY <1>r, <2>1, <2>2 DEF ThreadStays, Remote
<1>3. DataInv'
  <2> SUFFICES ASSUME NEW t \in Task, thread'[t].pc = "data"
               PROVE  /\ t \in Captures /\ Remote(t)'
                      /\ \A s, d \in Worker : thread'[t].host = s /\ thread'[t].origin = d =>
                           HeadOf(t) \in Backlog(s, d)'
    BY DEF DataInv
  <2>1. thread[t].pc = "data" /\ ThreadStays(t)
    BY DEF ThreadStays
  <2>2. thread'[t].host = thread[t].host /\ thread'[t].origin = thread[t].origin
    BY <2>1 DEF ThreadStays, WritesBack
  <2>3. t \in Captures /\ Remote(t)
    BY <2>1 DEF XferInv, DataInv
  <2>4. Remote(t)'
    BY <2>2, <2>3 DEF Remote
  <2>5. ASSUME NEW s \in Worker, NEW d \in Worker, thread'[t].host = s, thread'[t].origin = d
        PROVE  HeadOf(t) \in Backlog(s, d)'
    <3>1. HeadOf(t) \in Backlog(s, d)
      BY <2>1, <2>2, <2>5 DEF XferInv, DataInv
    <3>2. ASSUME NEW u \in Task, Shrinks(s, d, u), thread[u].pc # "data"
          PROVE  HeadOf(t) \in Backlog(s, d)'
      <4>1. HeadOf(t) # HeadOf(u) /\ HeadOf(t) # ChangesOf(u)
        BY <2>1, <3>2 DEF HeadOf, ChangesOf, Msg
      <4> QED BY <3>1, <3>2, <4>1 DEF Shrinks
    <3> QED BY <3>1, <3>2 DEF SameBacklog
  <2> QED BY <2>3, <2>4, <2>5
<1>4. MergedInv'
  <2> SUFFICES ASSUME NEW t \in Captures, NEW s \in Worker, NEW d \in Worker,
                      Remote(t)', thread'[t].pc \in Written,
                      thread'[t].host = s, thread'[t].origin = d, t \notin merged'
               PROVE  /\ thread'[t].pc = "sending" \/ t \notin Synchronous
                      /\ ChangesOf(t) \in Backlog(s, d)'
    BY DEF MergedInv
  <2>1. t \in Task /\ t \notin merged
    BY <1>0, MergedStays
  <2>2. WritesBack(t)' /\ thread'[t].pc # "data"
    BY DEF WritesBack, Written
  <2>3. /\ thread[t].pc \in Written /\ Remote(t) /\ thread[t].host = s /\ thread[t].origin = d
        /\ thread[t].pc = "sending" => thread'[t].pc = "sending" \/ write_memory_return(t)
    BY <1>r, <2>1, <2>2 DEF WritesBack
  <2>4. (thread[t].pc = "sending" \/ t \notin Synchronous) /\ ChangesOf(t) \in Backlog(s, d)
    BY <2>1, <2>3 DEF XferInv, MergedInv
  <2>5. ChangesOf(t).part = "data" /\ ChangesOf(t).tag = "WRITE_MEMORY" /\ ChangesOf(t).task = t
    BY DEF ChangesOf, Msg
  <2>6. ~write_memory_return(t)
    <3>1. ChangesOf(t) \in InChannel(net[<<s, d>>])
      BY <1>0, <2>4, <2>5, BacklogType DEF Backlog, OnChannel
    <3> QED BY <2>3, <3>1 DEF write_memory_return, Taken, InChannel, ChangesOf
  <2>7. ASSUME NEW u \in Task, Shrinks(s, d, u), u \in Captures => u \in merged'
        PROVE  ChangesOf(t) \in Backlog(s, d)'
    <3>1. ChangesOf(t) # HeadOf(u) /\ ChangesOf(t) # ChangesOf(u)
      BY <2>7 DEF HeadOf, ChangesOf, Msg
    <3> QED BY <2>4, <2>7, <3>1 DEF Shrinks
  <2>8. ChangesOf(t) \in Backlog(s, d)'
    BY <2>1, <2>4, <2>7 DEF SameBacklog
  <2> QED BY <2>3, <2>4, <2>6, <2>8
<1> QED BY <1>1, <1>2, <1>3, <1>4 DEF XferInv

(* A step in which the backlogs grow: those of the other pairs stay.       *)
LEMMA OthersStay ==
  ASSUME TaskingInv, TaskingInv', NEW s \in Node, NEW d \in Node, NEW l,
         Send(s, d, l), main' = main,
         NEW x \in Worker, NEW y \in Worker
  PROVE  /\ TakenHead(x, y)' = TakenHead(x, y)
         /\ <<x, y>> = <<s, d>> => net'[<<x, y>>] = Append(net[<<x, y>>], l)
         /\ <<x, y>> # <<s, d>> => SameBacklog(x, y)
<1>0. WorkerTypeOK /\ WorkerTypeOK' /\ net \in [Node \X Node -> Seq(Message)] /\ x \in Node /\ y \in Node
  BY Parts, Names DEF NetworkTypeOK, TaskingInv, TaskingTypeOK
<1>1. TakenHead(x, y)' = TakenHead(x, y)
  BY DEF TakenHead, HeadTaken
<1>2. <<x, y>> = <<s, d>> => net'[<<x, y>>] = Append(net[<<x, y>>], l)
  BY <1>0 DEF Send
<1>3. ASSUME <<x, y>> # <<s, d>> PROVE SameBacklog(x, y)
  <2>1. net'[<<x, y>>] = net[<<x, y>>]
    BY <1>0, <1>3 DEF Send
  <2> QED BY <1>0, <1>1, <2>1, KeptBacklog DEF SameOf
<1> QED BY <1>1, <1>2, <1>3

(* write_memory_head: no other task of the worker writes back.             *)
LEMMA HeadStep ==
  ASSUME TaskingInv, TaskingInv', OriginInv, XferInv, Capacity = 1, [Next]_vars,
         NEW t \in Task, write_memory_head(t)
  PROVE  XferInv'
<1>0. WorkerTypeOK /\ WorkerTypeOK' /\ Captures \subseteq Task /\ thread[t].host \in Node
      /\ thread[t].origin \in Node
  BY Parts, CapturesAssumption, ThreadTypes DEF TaskingInv, TaskingTypeOK
<1>p. PICK p, o, h : p = thread[t].host /\ o = thread[t].origin /\ h = HeadOf(t)
  OBVIOUS
<1>1. /\ thread[t].pc = "body" /\ t # Root /\ o # p /\ main' = main /\ merged' = merged
      /\ Becomes(t, IF t \in Captures THEN "data" ELSE "free")
      /\ Send(p, o, h)
  BY <1>p DEF write_memory_head, Steps, Remote, HeadOf
<1>2. p \in Worker /\ o \in Worker /\ p \in Node /\ o \in Node
  BY <1>0, <1>1, <1>p, ThreadWorkers
<1>3. /\ thread'[t].pc = (IF t \in Captures THEN "data" ELSE "free")
      /\ thread'[t].host = p /\ thread'[t].origin = o
      /\ \A u \in Task : u # t => thread'[u] = thread[u]
  <2>1. (IF t \in Captures THEN "data" ELSE "free") \in ThreadPC
    BY DEF ThreadPC
  <2> QED BY <1>0, <1>1, <1>p, <2>1, WorkerTypes DEF Becomes
<1>4. Remote(t)'
  BY <1>1, <1>3 DEF Remote
<1>h. h \in Message /\ h.tag = "WRITE_MEMORY" /\ h.task = t /\ h.part = "task"
  BY <1>p, MsgType DEF HeadOf, Tag, Part
<1>5. ASSUME NEW s \in Worker, NEW d \in Worker
      PROVE  \A m \in Backlog(s, d) : m.task \in Task /\ m.task # t /\ thread[m.task].host = s
                                      /\ thread[m.task].pc \in Written \cup {"data"}
  BY <1>1 DEF XferInv, WriteInv, BacklogInv, BacklogTrue, WriteTrue, Written
<1>o. ASSUME NEW x \in Worker, NEW y \in Worker
      PROVE  /\ TakenHead(x, y)' = TakenHead(x, y)
             /\ <<x, y>> = <<p, o>> => net'[<<x, y>>] = Append(net[<<x, y>>], h)
             /\ <<x, y>> # <<p, o>> => SameBacklog(x, y)
  BY <1>1, <1>2, OthersStay
<1>6. GrowsBy(p, o, h)
  <2>1. h \notin Backlog(p, o)
    BY <1>2, <1>5, <1>h
  <2>2. TakenHead(p, o)' = TakenHead(p, o) /\ net'[<<p, o>>] = Append(net[<<p, o>>], h)
    BY <1>2, <1>o
  <2> QED BY <1>0, <1>2, <1>h, <2>1, <2>2, SentBacklog
<1>7. ASSUME NEW s \in Worker, NEW d \in Worker, <<s, d>> # <<p, o>>
      PROVE  SameBacklog(s, d)
  BY <1>7, <1>o
<1>8. WriteInv'
  <2> SUFFICES ASSUME NEW s \in Worker, NEW d \in Worker PROVE BacklogInv(s, d)'
    BY DEF WriteInv
  <2>0. BacklogInv(s, d)
    BY DEF XferInv, WriteInv
  <2>1. CASE <<s, d>> # <<p, o>>
    <3>1. \A m \in Backlog(s, d) : ThreadStays(m.task)
      <4> SUFFICES ASSUME NEW m \in Backlog(s, d) PROVE ThreadStays(m.task)
        OBVIOUS
      <4>1. m.task \in Task /\ thread'[m.task] = thread[m.task]
        BY <1>3, <1>5
      <4> QED BY <4>1 DEF ThreadStays, WritesBack, Remote
    <3> QED BY <1>7, <2>0, <2>1, <3>1, SameKeeps
  <2>2. CASE s = p /\ d = o
    <3>1. \A m \in Backlog(s, d) : m.task # t /\ thread[m.task].pc # "data"
      <4> SUFFICES ASSUME NEW m \in Backlog(s, d), thread[m.task].pc = "data" PROVE FALSE
        BY <1>5
      <4>1. m.task \in Task /\ m.task # t /\ thread[m.task].host = thread[t].host
        BY <1>5, <1>p, <2>2
      <4> QED BY <1>1, <4>1, OneTask
    <3>2. GrowsBy(s, d, HeadOf(t)) /\ thread'[t].host = s /\ thread'[t].origin = d
      BY <1>3, <1>6, <1>p, <2>2
    <3> QED BY <1>3, <1>4, <2>0, <3>1, <3>2, HeadKeeps
  <2> QED BY <2>1, <2>2
<1>9. TakenInv'
  BY TakenStep DEF XferInv
<1>10. \A s, d \in Worker : Backlog(s, d) \subseteq Backlog(s, d)'
  <2> SUFFICES ASSUME NEW s \in Worker, NEW d \in Worker PROVE Backlog(s, d) \subseteq Backlog(s, d)'
    OBVIOUS
  <2>1. CASE <<s, d>> # <<p, o>>
    BY <1>7, <2>1 DEF SameBacklog
  <2>2. CASE s = p /\ d = o
    BY <1>6, <2>2 DEF GrowsBy
  <2> QED BY <2>1, <2>2
<1>11. DataInv'
  <2> SUFFICES ASSUME NEW u \in Task, thread'[u].pc = "data"
               PROVE  /\ u \in Captures /\ Remote(u)'
                      /\ \A s, d \in Worker : thread'[u].host = s /\ thread'[u].origin = d =>
                           HeadOf(u) \in Backlog(s, d)'
    BY DEF DataInv
  <2>1. CASE u = t
    <3>1. thread'[u].host = p /\ thread'[u].origin = o /\ t \in Captures
      BY <1>3, <2>1
    <3>2. HeadOf(t) \in Backlog(p, o)'
      BY <1>6, <1>p DEF GrowsBy
    <3> QED BY <1>4, <2>1, <3>1, <3>2
  <2>2. CASE u # t
    <3>1. thread'[u] = thread[u]
      BY <1>3, <2>2
    <3> QED BY <1>10, <3>1 DEF XferInv, DataInv, Remote
  <2> QED BY <2>1, <2>2
<1>12. MergedInv'
  <2> SUFFICES ASSUME NEW u \in Captures, NEW s \in Worker, NEW d \in Worker,
                      Remote(u)', thread'[u].pc \in Written,
                      thread'[u].host = s, thread'[u].origin = d, u \notin merged
               PROVE  /\ thread'[u].pc = "sending" \/ u \notin Synchronous
                      /\ ChangesOf(u) \in Backlog(s, d)'
    BY <1>1 DEF MergedInv
  <2>1. u # t /\ u \in Task
    BY <1>0, <1>3 DEF Written
  <2>2. thread'[u] = thread[u]
    BY <1>3, <2>1
  <2> QED BY <1>10, <2>2 DEF XferInv, MergedInv, Remote
<1> QED BY <1>8, <1>9, <1>11, <1>12 DEF XferInv

(* write_memory_data: the head is the last one sent.                       *)
LEMMA ChangesStep ==
  ASSUME TaskingInv, TaskingInv', OriginInv, XferInv, Capacity = 1, [Next]_vars,
         NEW t \in Task, write_memory_data(t)
  PROVE  XferInv'
<1>0. WorkerTypeOK /\ WorkerTypeOK' /\ Captures \subseteq Task /\ Root \notin Captures
  BY Parts, CapturesAssumption DEF TaskingInv, TaskingTypeOK
<1>p. PICK p, o, l : p = thread[t].host /\ o = thread[t].origin /\ l = ChangesOf(t)
  OBVIOUS
<1>1. /\ thread[t].pc = "data" /\ main' = main /\ merged' = merged
      /\ Becomes(t, IF t \in Synchronous THEN "sending" ELSE "free")
      /\ Send(p, o, l)
  BY <1>p DEF write_memory_data, Steps, ChangesOf
<1>2. p \in Worker /\ o \in Worker /\ p \in Node /\ o \in Node /\ t \in Captures /\ Remote(t)
  <2>1. t \in Captures /\ Remote(t) /\ t # Root
    BY <1>0, <1>1 DEF XferInv, DataInv
  <2> QED BY <1>1, <1>p, <2>1, ThreadWorkers, Names
<1>3. /\ thread'[t].pc = (IF t \in Synchronous THEN "sending" ELSE "free")
      /\ thread'[t].host = p /\ thread'[t].origin = o
      /\ \A u \in Task : u # t => thread'[u] = thread[u]
  <2>1. (IF t \in Synchronous THEN "sending" ELSE "free") \in ThreadPC
    BY DEF ThreadPC
  <2> QED BY <1>0, <1>1, <1>p, <2>1, WorkerTypes DEF Becomes
<1>4. Remote(t)'
  BY <1>2, <1>3, <1>p DEF Remote
<1>l. l \in Message /\ l.tag = "WRITE_MEMORY" /\ l.task = t /\ l.part = "data"
  BY <1>p, MsgType DEF ChangesOf, Tag, Part
<1>h. HeadOf(t) \in Backlog(p, o)
  BY <1>1, <1>2, <1>p DEF XferInv, DataInv
<1>5. ASSUME NEW s \in Worker, NEW d \in Worker
      PROVE  \A m \in Backlog(s, d) :
               /\ m.task \in Task /\ thread[m.task].host = s /\ thread[m.task].origin = d
               /\ m.part = "data" => thread[m.task].pc # "data"
  BY DEF XferInv, WriteInv, BacklogInv, BacklogTrue, WriteTrue
<1>o. ASSUME NEW x \in Worker, NEW y \in Worker
      PROVE  /\ TakenHead(x, y)' = TakenHead(x, y)
             /\ <<x, y>> = <<p, o>> => net'[<<x, y>>] = Append(net[<<x, y>>], l)
             /\ <<x, y>> # <<p, o>> => SameBacklog(x, y)
  BY <1>1, <1>2, OthersStay
<1>6. GrowsBy(p, o, l)
  <2>1. l \notin Backlog(p, o)
    BY <1>1, <1>2, <1>5, <1>l
  <2>2. TakenHead(p, o)' = TakenHead(p, o) /\ net'[<<p, o>>] = Append(net[<<p, o>>], l)
    BY <1>2, <1>o
  <2> QED BY <1>0, <1>2, <1>l, <2>1, <2>2, SentBacklog
<1>7. ASSUME NEW s \in Worker, NEW d \in Worker, <<s, d>> # <<p, o>>
      PROVE  SameBacklog(s, d)
  BY <1>7, <1>o
<1>8. WriteInv'
  <2> SUFFICES ASSUME NEW s \in Worker, NEW d \in Worker PROVE BacklogInv(s, d)'
    BY DEF WriteInv
  <2>0. BacklogInv(s, d)
    BY DEF XferInv, WriteInv
  <2>1. CASE <<s, d>> # <<p, o>>
    <3>1. \A m \in Backlog(s, d) : ThreadStays(m.task)
      <4> SUFFICES ASSUME NEW m \in Backlog(s, d) PROVE ThreadStays(m.task)
        OBVIOUS
      <4>1. m.task \in Task /\ m.task # t
        BY <1>5, <1>p, <2>1
      <4>2. thread'[m.task] = thread[m.task]
        BY <1>3, <4>1
      <4> QED BY <4>2 DEF ThreadStays, WritesBack, Remote
    <3> QED BY <1>7, <2>0, <2>1, <3>1, SameKeeps
  <2>2. CASE s = p /\ d = o
    <3>1. \A m \in Backlog(s, d) : thread[m.task].pc = "data" => m.task = t
      <4> SUFFICES ASSUME NEW m \in Backlog(s, d), thread[m.task].pc = "data" PROVE m.task = t
        OBVIOUS
      <4>1. m.task \in Task /\ thread[m.task].host = thread[t].host
        BY <1>5, <1>p, <2>2
      <4> QED BY <1>1, <4>1, OneTask
    <3>2. /\ GrowsBy(s, d, ChangesOf(t)) /\ thread'[t].host = s /\ thread'[t].origin = d
          /\ HeadOf(t) \in Backlog(s, d) /\ thread'[t].pc \in {"sending", "free"}
      BY <1>3, <1>6, <1>h, <1>p, <2>2
    <3> QED BY <1>1, <1>2, <1>3, <1>4, <2>0, <3>1, <3>2, ChangesKeep
  <2> QED BY <2>1, <2>2
<1>9. TakenInv'
  BY TakenStep DEF XferInv
<1>10. \A s, d \in Worker : Backlog(s, d) \subseteq Backlog(s, d)'
  <2> SUFFICES ASSUME NEW s \in Worker, NEW d \in Worker PROVE Backlog(s, d) \subseteq Backlog(s, d)'
    OBVIOUS
  <2>1. CASE <<s, d>> # <<p, o>>
    BY <1>7, <2>1 DEF SameBacklog
  <2>2. CASE s = p /\ d = o
    BY <1>6, <2>2 DEF GrowsBy
  <2> QED BY <2>1, <2>2
<1>11. DataInv'
  <2> SUFFICES ASSUME NEW u \in Task, thread'[u].pc = "data"
               PROVE  /\ u \in Captures /\ Remote(u)'
                      /\ \A s, d \in Worker : thread'[u].host = s /\ thread'[u].origin = d =>
                           HeadOf(u) \in Backlog(s, d)'
    BY DEF DataInv
  <2>1. thread'[u] = thread[u]
    BY <1>3
  <2> QED BY <1>10, <2>1 DEF XferInv, DataInv, Remote
<1>12. MergedInv'
  <2> SUFFICES ASSUME NEW u \in Captures, NEW s \in Worker, NEW d \in Worker,
                      Remote(u)', thread'[u].pc \in Written,
                      thread'[u].host = s, thread'[u].origin = d, u \notin merged
               PROVE  /\ thread'[u].pc = "sending" \/ u \notin Synchronous
                      /\ ChangesOf(u) \in Backlog(s, d)'
    BY <1>1 DEF MergedInv
  <2>1. CASE u = t
    <3>1. s = p /\ d = o /\ (thread'[u].pc = "sending" \/ u \notin Synchronous)
      BY <1>3, <2>1
    <3>2. ChangesOf(t) \in Backlog(p, o)'
      BY <1>6, <1>p DEF GrowsBy
    <3> QED BY <2>1, <3>1, <3>2
  <2>2. CASE u # t
    <3>1. thread'[u] = thread[u]
      BY <1>0, <1>3, <2>2
    <3> QED BY <1>10, <3>1 DEF XferInv, MergedInv, Remote
  <2> QED BY <2>1, <2>2
<1> QED BY <1>8, <1>9, <1>11, <1>12 DEF XferInv

(* Every step keeps the invariant of the write-backs if a worker runs one  *)
(* task at a time.                                                         *)
LEMMA XferStep ==
  ASSUME TaskingInv, TaskingInv', OriginInv, XferInv, Capacity = 1, [Next]_vars
  PROVE  XferInv'
<1>0. WorkerTypeOK /\ WorkerTypeOK' /\ NetworkTypeOK
  BY Parts DEF TaskingInv, TaskingTypeOK
<1>1. CASE \E t \in Task : write_memory_head(t)
  BY <1>1, HeadStep
<1>2. CASE \E t \in Task : write_memory_data(t)
  BY <1>2, ChangesStep
<1>3. CASE \A t \in Task : ~write_memory_head(t) /\ ~write_memory_data(t)
  <2>1. \A t \in Task : ThreadStays(t)
    BY <1>3, ThreadsStay
  <2>2. WriteInv /\ TakenInv /\ DataInv
    BY DEF XferInv
  <2>3. ASSUME NEW w \in Worker, handle_write_memory(w)
        PROVE  \A s, d \in Worker : SameBacklog(s, d)
    BY <1>0, <2>2, <2>3, HeadStays
  <2>4. ASSUME NEW w \in Worker, write_memory_lock(w), main[w].task \notin Captures
        PROVE  \A s, d \in Worker :
                 \/ SameBacklog(s, d)
                 \/ \E u \in Task : /\ Shrinks(s, d, u) /\ thread[u].pc # "data"
                                    /\ u \in Captures => u \in merged'
    <3>1. main[w].task \in Task /\ thread[main[w].task].pc # "data"
      BY <1>0, <2>2, <2>4, WorkerTypes DEF DataInv
    <3>2. ASSUME NEW s \in Worker, NEW d \in Worker
          PROVE  SameBacklog(s, d) \/ Shrinks(s, d, main[w].task)
      BY <1>0, <2>2, <2>4, HeadDropped
    <3> QED BY <2>4, <3>1, <3>2
  <2>5. ASSUME NEW w \in Worker, write_memory_apply(w)
        PROVE  \A s, d \in Worker :
                 \/ SameBacklog(s, d)
                 \/ \E u \in Task : /\ Shrinks(s, d, u) /\ thread[u].pc # "data"
                                    /\ u \in Captures => u \in merged'
    <3>1. main[w].task \in Task /\ main[w].task \in merged'
      BY <1>0, <2>5, WorkerTypes DEF write_memory_apply
    <3>2. ASSUME NEW s \in Worker, NEW d \in Worker
          PROVE  \/ SameBacklog(s, d)
                 \/ Shrinks(s, d, main[w].task) /\ thread[main[w].task].pc # "data"
      BY <1>0, <2>2, <2>5, ChangesApplied
    <3> QED BY <3>1, <3>2
  <2>6. ASSUME \A w \in Worker : ~handle_write_memory(w) /\ ~write_memory_apply(w),
               NEW s \in Worker, NEW d \in Worker,
               \A w \in Worker : write_memory_lock(w) => main[w].task \in Captures
        PROVE  SameBacklog(s, d)
    <3>1. Kept("WRITE_MEMORY")
      BY <1>3, <2>6, StepKeeps DEF Transferred, Moves, WriteMoves
    <3>2. SameOf("WRITE_MEMORY", net[<<s, d>>], net'[<<s, d>>])
      BY <3>1, Names DEF Kept
    <3>3. TakenHead(s, d)' = TakenHead(s, d)
      <4>1. CASE \E w \in Worker : MainStep(w) /\ ~write_memory_lock(w)
        BY <2>6, <4>1, QuietTaken
      <4>2. ASSUME NEW w \in Worker, write_memory_lock(w)
            PROVE  TakenHead(s, d)' = TakenHead(s, d)
        <5>1. main[w].pc = "wb_lock" /\ main' = [main EXCEPT ![w].pc = "wb_recv"]
          BY <2>6, <4>2 DEF write_memory_lock
        <5>2. /\ main'[w].pc = "wb_recv" /\ main'[w].peer = main[w].peer
              /\ main'[w].task = main[w].task
              /\ \A v \in Worker : v # w => main'[v] = main[v]
          BY <1>0, <5>1, WorkerTypes
        <5> QED BY <5>1, <5>2 DEF TakenHead, HeadTaken
      <4>3. CASE \A w \in Worker : ~MainStep(w)
        <5>1. main' = main
          BY <4>3, MainUnchanged
        <5> QED BY <5>1 DEF TakenHead, HeadTaken
      <4> QED BY <4>1, <4>2, <4>3
    <3> QED BY <1>0, <3>2, <3>3, KeptBacklog
  <2> QED BY <2>1, <2>3, <2>4, <2>5, <2>6, XferQuiet
<1> QED BY <1>1, <1>2, <1>3

(* No write-back is under way when the program starts.                     *)
LEMMA XferInit == Init => XferInv
<1> SUFFICES ASSUME Init PROVE XferInv
  OBVIOUS
<1>1. /\ net = [sd \in Node \X Node |-> << >>] /\ main = [w \in Worker |-> At("setup")]
      /\ thread = [t \in Task |-> [pc |-> "none", host |-> 0, origin |-> 0]]
  BY DEF Init, WorkerInit, NetworkInit
<1>2. ASSUME NEW s \in Worker, NEW d \in Worker PROVE Backlog(s, d) = {}
  BY <1>1, Names DEF Backlog, OnChannel, TakenHead, HeadTaken, InChannel, At
<1>3. /\ \A t \in Task : thread[t].pc = "none"
      /\ \A w \in Worker : main[w].pc = "setup"
  BY <1>1 DEF At
<1>4. WriteInv
  BY <1>2 DEF WriteInv, BacklogInv, BacklogTrue, BacklogPaired, BacklogOrdered
<1>5. TakenInv /\ DataInv /\ MergedInv
  BY <1>3, CapturesAssumption DEF TakenInv, DataInv, MergedInv, Written
<1> QED BY <1>4, <1>5 DEF XferInv

------------------------------------------------------------------------------
(* The write-backs by their places in the channel, in terms of the backlog. *)
LEMMA Places ==
  ASSUME WorkerTypeOK, NEW s \in Worker, NEW d \in Worker
  PROVE  /\ WriteBacks(s, d) \subseteq Nat
         /\ \A i \in WriteBacks(s, d) : WriteBack(s, d, i) \in Backlog(s, d)
         /\ \A m \in Backlog(s, d) : \E i \in WriteBacks(s, d) : WriteBack(s, d, i) = m
         /\ \A i, j \in WriteBacks(s, d) :
              i < j => Order(s, d, WriteBack(s, d, i), WriteBack(s, d, j))
<1>q. PICK q : q = net[<<s, d>>]
  OBVIOUS
<1>1. q \in Seq(Message) /\ Len(q) \in Nat
  <2>1. q \in Seq(Message)
    BY <1>q, WorkerTypes, Names DEF NetworkTypeOK
  <2> QED BY <2>1, LenProperties
<1>2. /\ \A i \in Tagged(s, d, "WRITE_MEMORY") :
           i \in 1 .. Len(q) /\ q[i] \in OnChannel(s, d) /\ i # 0 /\ i \in Nat
      /\ \A m \in OnChannel(s, d) : \E i \in Tagged(s, d, "WRITE_MEMORY") : q[i] = m
  BY <1>q, <1>1 DEF Tagged, OnChannel, InChannel
<1>3. /\ \A i \in Tagged(s, d, "WRITE_MEMORY") : WriteBack(s, d, i) = q[i]
      /\ WriteBack(s, d, 0) = HeadOf(main[d].task)
  BY <1>2, <1>q DEF WriteBack, HeadOf
<1>4. WriteBacks(s, d) = Tagged(s, d, "WRITE_MEMORY") \cup (IF HeadTaken(s, d) THEN {0} ELSE {})
  BY DEF WriteBacks
<1>5. WriteBacks(s, d) \subseteq Nat
  BY <1>2, <1>4
<1>6. \A i \in WriteBacks(s, d) : WriteBack(s, d, i) \in Backlog(s, d)
  BY <1>2, <1>3, <1>4 DEF Backlog, TakenHead
<1>7. \A m \in Backlog(s, d) : \E i \in WriteBacks(s, d) : WriteBack(s, d, i) = m
  BY <1>2, <1>3, <1>4 DEF Backlog, TakenHead
<1>8. ASSUME NEW i \in WriteBacks(s, d), NEW j \in WriteBacks(s, d), i < j
      PROVE  Order(s, d, WriteBack(s, d, i), WriteBack(s, d, j))
  <2>1. j \in Tagged(s, d, "WRITE_MEMORY")
    BY <1>4, <1>5, <1>8
  <2>2. CASE i \in Tagged(s, d, "WRITE_MEMORY")
    <3>1. Precedes(q, q[i], q[j])
      BY <1>2, <1>8, <2>1, <2>2 DEF Precedes
    <3> QED BY <1>q, <1>2, <1>3, <2>1, <2>2, <3>1 DEF Order
  <2>3. CASE i = 0 /\ HeadTaken(s, d)
    BY <1>2, <1>3, <2>1, <2>3 DEF Order, TakenHead
  <2> QED BY <1>4, <2>2, <2>3
<1> QED BY <1>5, <1>6, <1>7, <1>8

(* A head comes right after the changes of another task or after the head  *)
(* of a task without variables, and changes right after their head.        *)
LEMMA IntactBacklogs ==
  ASSUME WorkerTypeOK, WriteInv
  PROVE  WriteBackIntact
<1> SUFFICES ASSUME NEW s \in Worker, NEW d \in Worker, NEW j \in WriteBacks(s, d)
             PROVE  LET m == WriteBack(s, d, j) IN
                      IF m.part = "task"
                      THEN \A i \in WriteBacks(s, d) : Follows(s, d, i, j) =>
                             \/ WriteBack(s, d, i).part = "data"
                             \/ WriteBack(s, d, i).task \notin Captures
                      ELSE \E i \in WriteBacks(s, d) :
                             /\ Follows(s, d, i, j)
                             /\ WriteBack(s, d, i) = [m EXCEPT !.part = "task"]
  BY DEF WriteBackIntact
<1>m. PICK m : m = WriteBack(s, d, j)
  OBVIOUS
<1>0. BacklogTrue(s, d) /\ BacklogPaired(s, d) /\ BacklogOrdered(s, d)
  BY DEF WriteInv, BacklogInv
<1>1. /\ WriteBacks(s, d) \subseteq Nat
      /\ \A i \in WriteBacks(s, d) : WriteBack(s, d, i) \in Backlog(s, d)
      /\ \A n \in Backlog(s, d) : \E i \in WriteBacks(s, d) : WriteBack(s, d, i) = n
      /\ \A i, k \in WriteBacks(s, d) :
           i < k => Order(s, d, WriteBack(s, d, i), WriteBack(s, d, k))
  BY Places
<1>2. \A n \in Backlog(s, d) :
        (n = HeadOf(n.task) /\ n.part = "task") \/ (n = ChangesOf(n.task) /\ n.part = "data")
  <2> SUFFICES ASSUME NEW n \in Backlog(s, d)
               PROVE  \/ n = HeadOf(n.task) /\ n.part = "task"
                      \/ n = ChangesOf(n.task) /\ n.part = "data"
    OBVIOUS
  <2>u. PICK u : u = n.task
    OBVIOUS
  <2>1. n = HeadOf(u) \/ n = ChangesOf(u)
    BY <1>0, <2>u DEF BacklogTrue, WriteTrue
  <2>2. HeadOf(u).part = "task" /\ ChangesOf(u).part = "data"
    BY DEF HeadOf, ChangesOf, Msg
  <2> QED BY <2>u, <2>1, <2>2
<1>f. \A u : /\ HeadOf(u).task = u /\ ChangesOf(u).task = u
             /\ HeadOf(u).part = "task" /\ ChangesOf(u).part = "data"
             /\ HeadOf(u) = [ChangesOf(u) EXCEPT !.part = "task"]
  BY DEF HeadOf, ChangesOf, Msg
<1>3. ASSUME m.part = "task", NEW i \in WriteBacks(s, d), Follows(s, d, i, j)
      PROVE  WriteBack(s, d, i).part = "data" \/ WriteBack(s, d, i).task \notin Captures
  <2>n. PICK n : n = WriteBack(s, d, i)
    OBVIOUS
  <2> SUFFICES ASSUME n.part # "data", n.task \in Captures PROVE FALSE
    BY <2>n
  <2>1. n \in Backlog(s, d) /\ n.part = "task" /\ n = HeadOf(n.task) /\ m \in Backlog(s, d)
    BY <1>1, <1>2, <1>m, <2>n
  <2>2. Order(s, d, n, m)
    BY <1>1, <1>3, <1>m, <2>n DEF Follows
  <2>3. ChangesOf(n.task) \in Backlog(s, d)
    BY <1>0, <2>1, <2>2 DEF BacklogPaired
  <2>4. PICK k \in WriteBacks(s, d) : WriteBack(s, d, k) = ChangesOf(n.task)
    BY <1>1, <2>3
  <2>5. ~Order(s, d, ChangesOf(n.task), n)
    BY <1>0, <1>f, <2>1, <2>3 DEF BacklogPaired
  <2>6. k # i /\ k # j /\ ~(k < i)
    BY <1>1, <1>3, <1>f, <1>m, <2>1, <2>4, <2>5, <2>n
  <2>7. j < k
    BY <1>1, <1>3, <2>6 DEF Follows
  <2>8. Order(s, d, m, ChangesOf(n.task))
    BY <1>1, <1>m, <2>4, <2>7
  <2>9. m.task = n.task
    BY <1>0, <1>f, <2>1, <2>2, <2>3, <2>8 DEF BacklogOrdered
  <2>10. m = n
    BY <1>2, <1>3, <2>1, <2>9
  <2> QED BY <1>0, <2>1, <2>2, <2>10 DEF BacklogOrdered
<1>4. ASSUME m.part # "task"
      PROVE  \E i \in WriteBacks(s, d) :
               Follows(s, d, i, j) /\ WriteBack(s, d, i) = [m EXCEPT !.part = "task"]
  <2>1. m \in Backlog(s, d) /\ m = ChangesOf(m.task) /\ m.part = "data"
    BY <1>1, <1>2, <1>4, <1>m
  <2>h. PICK h : h = HeadOf(m.task)
    OBVIOUS
  <2>2. h \in Backlog(s, d) /\ ~Order(s, d, m, h)
    BY <1>0, <2>1, <2>h DEF BacklogPaired
  <2>3. PICK i \in WriteBacks(s, d) : WriteBack(s, d, i) = h
    BY <1>1, <2>2
  <2>4. i < j
    BY <1>1, <1>f, <1>m, <2>1, <2>2, <2>3, <2>h
  <2>5. ASSUME NEW k \in WriteBacks(s, d), i < k, k < j PROVE FALSE
    <3>n. PICK n : n = WriteBack(s, d, k)
      OBVIOUS
    <3>1. n \in Backlog(s, d) /\ Order(s, d, h, n) /\ Order(s, d, n, m)
      BY <1>1, <1>m, <2>3, <2>5, <3>n
    <3>2. n.task = m.task
      BY <1>0, <1>f, <2>1, <2>2, <2>h, <3>1 DEF BacklogOrdered
    <3>3. n = h \/ n = m
      BY <1>2, <2>1, <2>h, <3>1, <3>2
    <3> QED BY <1>0, <3>1, <3>3 DEF BacklogOrdered
  <2>6. Follows(s, d, i, j)
    BY <1>1, <2>4, <2>5 DEF Follows
  <2>7. h = [m EXCEPT !.part = "task"]
    BY <1>f, <2>1, <2>h
  <2> QED BY <2>3, <2>6, <2>7
<1> QED BY <1>3, <1>4, <1>m

(* A finished task has its results at its origin or on the way.            *)
LEMMA ResultsUnderWay ==
  ASSUME TaskingInv, OriginInv, MergedInv
  PROVE  ResultsKept
<1> SUFFICES ASSUME NEW t \in Task, finished[t], t \in Captures, Remote(t), t \notin merged
             PROVE  t \notin Synchronous /\ OnTheWay(t)
  BY DEF ResultsKept, HasResults
<1>0. ThreadInv /\ WorkerTypeOK
  BY Parts
<1>p. PICK s, d : s = thread[t].host /\ d = thread[t].origin
  OBVIOUS
<1>1. thread[t].pc = "ended" /\ t # Root
  BY <1>0 DEF ThreadInv, Remote
<1>2. s \in Worker /\ d \in Worker
  BY <1>1, <1>p, ThreadWorkers
<1>3. t \notin Synchronous /\ ChangesOf(t) \in Backlog(s, d)
  BY <1>1, <1>2, <1>p DEF MergedInv, Written
<1>4. PICK i \in WriteBacks(s, d) : WriteBack(s, d, i) = ChangesOf(t)
  BY <1>0, <1>2, <1>3, Places
<1>5. ChangesOf(t).task = t
  BY DEF ChangesOf, Msg
<1>6. OnTheWay(t)
  BY <1>4, <1>5, <1>p DEF OnTheWay
<1> QED BY <1>3, <1>6

(* With the capacity the code gives a worker, the inductive invariant of   *)
(* the write-backs.                                                        *)
WriteBackInv == TaskingInv /\ OriginInv /\ (Capacity = 1 => XferInv)

(* It holds in every state: initially, and after each step if before it.   *)
THEOREM WriteBackInvariance == Spec => []WriteBackInv
<1>1. Init => WriteBackInv
  BY TaskingInit, OriginInit, XferInit DEF WriteBackInv
<1>2. WriteBackInv /\ [Next]_vars => WriteBackInv'
  <2> SUFFICES ASSUME WriteBackInv, [Next]_vars PROVE WriteBackInv'
    OBVIOUS
  <2>1. TaskingInv'
    BY TaskingStep DEF WriteBackInv
  <2>2. OriginInv'
    BY <2>1, OriginStep DEF WriteBackInv
  <2>3. Capacity = 1 => XferInv'
    BY <2>1, XferStep DEF WriteBackInv
  <2> QED BY <2>1, <2>2, <2>3 DEF WriteBackInv
<1> QED BY <1>1, <1>2, PTL DEF Spec

(* The write-backs of a worker do not run into each other.                 *)
THEOREM WriteBackIntactInvariance == Spec => [](Capacity = 1 => WriteBackIntact)
<1>1. WriteBackInv => (Capacity = 1 => WriteBackIntact)
  BY Parts, IntactBacklogs DEF WriteBackInv, XferInv
<1> QED BY <1>1, WriteBackInvariance, PTL

(* No result of a finished task is lost on its way to the origin.          *)
THEOREM ResultsKeptInvariance == Spec => [](Capacity = 1 => ResultsKept)
<1>1. WriteBackInv => (Capacity = 1 => ResultsKept)
  BY ResultsUnderWay DEF WriteBackInv, XferInv
<1> QED BY <1>1, WriteBackInvariance, PTL

------------------------------------------------------------------------------
(* The exchange of variables in a flat program.  The messages of it on a   *)
(* channel, and what each says: who asks waits for the answer, which comes *)
(* when the question is gone, the number of variables before the rest.     *)
Asked(s, d) == {m \in InChannel(net[<<s, d>>]) : m.tag = "REQUEST_MEMORY"}
Ask(part, t) == Msg("REQUEST_MEMORY", part, t)
Asking == {"req_count", "req_data"}

QuestionTrue(s, d, m) ==
  m.part = "task" =>
    s \in Worker /\ main[s].pc = "req_count" /\ main[s].peer = d /\ main[s].task = m.task

AnswerTrue(s, d, m) ==
  m.part # "task" =>
    /\ d \in Worker /\ main[d].pc \in Asking /\ main[d].peer = s /\ main[d].task = m.task
    /\ \A n \in Asked(d, s) : n.part # "task"
    /\ m.part = "count" => main[d].pc = "req_count"
    /\ m.part = "data" /\ main[d].pc = "req_count" =>
         Precedes(net[<<s, d>>], Ask("count", m.task), m)

AskedTrue(s, d) ==
  \A m \in Asked(s, d) :
    /\ m.part \in {"task", "count", "data"} /\ m = Ask(m.part, m.task)
    /\ ~Precedes(net[<<s, d>>], m, m)
    /\ QuestionTrue(s, d, m) /\ AnswerTrue(s, d, m)

FlatInv == \A s, d \in Node : AskedTrue(s, d)

(* In a flat program every task was created by the root, so everybody asks *)
(* the same worker, which asks nobody.                                     *)
LEMMA AskTheRoot ==
  ASSUME TaskingInv, OriginInv, Creators \subseteq {Root}, NEW w \in Worker,
         main[w].pc \in Requesting
  PROVE  main[w].peer = node[Root] /\ main[w].peer # w /\ main[w].peer \in Worker
<1>0. TablesAgree /\ RuntimeTypeOK /\ Root \notin Captures
  BY Parts, CapturesAssumption
<1>1. /\ main[w].task \in Task /\ main[w].task \in created_tasks /\ main[w].task \in Captures
      /\ main[w].peer = origin_id(main[w].task) /\ main[w].peer # w
  BY InTable DEF OriginInv
<1>2. parent_id[main[w].task] = Root /\ node[Root] # 0
  BY <1>0, <1>1 DEF TablesAgree
<1>3. node[Root] \in Worker
  BY <1>0, <1>2, TypeFacts, Names
<1> QED BY <1>0, <1>1, <1>2, <1>3 DEF origin_id

(* So who is asked has nothing to ask in the other direction.              *)
LEMMA NobodyAsksBack ==
  ASSUME TaskingInv, OriginInv, FlatInv, Creators \subseteq {Root}, NEW w \in Worker,
         main[w].pc \in Requesting, NEW p, p = main[w].peer
  PROVE  /\ p \in Worker /\ p # w /\ p \in Node /\ w \in Node
         /\ \A m \in Asked(p, w) : m.part # "task"
         /\ \A m \in Asked(w, p) : m.part = "task"
<1>1. p \in Worker /\ p # w /\ p \in Node /\ w \in Node /\ p = node[Root]
  BY AskTheRoot, Names
<1>2. main[p].pc \notin Requesting
  BY <1>1, AskTheRoot
<1>3. Asking \subseteq Requesting /\ "req_count" \in Requesting
  BY DEF Asking, Requesting
<1> QED BY <1>1, <1>2, <1>3 DEF FlatInv, AskedTrue, QuestionTrue, AnswerTrue

(* The messages of the exchange are messages.                              *)
LEMMA AskedType ==
  ASSUME NetworkTypeOK, NEW s \in Node, NEW d \in Node
  PROVE  \A m \in Asked(s, d) : m \in Message /\ m.tag = "REQUEST_MEMORY" /\ m.task \in Task
BY ChannelType DEF Asked

(* Nothing changes on a channel where no such message moves, if those who  *)
(* take part in the exchange stay and no question comes the other way.     *)
LEMMA AskedKept ==
  ASSUME NetworkTypeOK, NetworkTypeOK', NEW s \in Node, NEW d \in Node, AskedTrue(s, d),
         SameOf("REQUEST_MEMORY", net[<<s, d>>], net'[<<s, d>>]),
         \A m \in Asked(s, d) : IF m.part = "task" THEN main'[s] = main[s]
                                                   ELSE main'[d] = main[d],
         \A m \in Asked(s, d) : m.part # "task" =>
           \A n \in Asked(d, s)' : n.part = "task" => n \in Asked(d, s)
  PROVE  AskedTrue(s, d)'
<1>1. \A m \in Asked(s, d) : m \in Message /\ m.tag = "REQUEST_MEMORY" /\ m.task \in Task
  BY AskedType
<1>2. \A m \in Asked(s, d)' : m \in Message /\ m.tag = "REQUEST_MEMORY"
  <2>1. net'[<<s, d>>] \in Seq(Message)
    BY DEF NetworkTypeOK
  <2> QED BY <2>1, ElementOfSeq DEF Asked, InChannel
<1>3. Asked(s, d)' = Asked(s, d)
  BY <1>1, <1>2 DEF Asked, SameOf
<1>4. ASSUME NEW m \in Asked(s, d), NEW n, n \in Message, n.tag = "REQUEST_MEMORY"
      PROVE  Precedes(net'[<<s, d>>], n, m) <=> Precedes(net[<<s, d>>], n, m)
  BY <1>1, <1>4 DEF SameOf
<1>5. ASSUME NEW m \in Asked(s, d)'
      PROVE  /\ m.part \in {"task", "count", "data"} /\ m = Ask(m.part, m.task)
             /\ ~Precedes(net'[<<s, d>>], m, m)
             /\ QuestionTrue(s, d, m)' /\ AnswerTrue(s, d, m)'
  <2>1. /\ m \in Asked(s, d) /\ m \in Message /\ m.tag = "REQUEST_MEMORY" /\ m.task \in Task
        /\ m.part \in {"task", "count", "data"} /\ m = Ask(m.part, m.task)
        /\ ~Precedes(net[<<s, d>>], m, m) /\ QuestionTrue(s, d, m) /\ AnswerTrue(s, d, m)
    BY <1>1, <1>3 DEF AskedTrue
  <2>2. ~Precedes(net'[<<s, d>>], m, m)
    BY <1>4, <2>1
  <2>3. QuestionTrue(s, d, m)'
    BY <2>1 DEF QuestionTrue
  <2>4. ASSUME m.part # "task" PROVE AnswerTrue(s, d, m)'
    <3>1. main'[d] = main[d]
      BY <2>1, <2>4
    <3>2. \A n \in Asked(d, s)' : n.part # "task"
      BY <2>1, <2>4 DEF AnswerTrue
    <3>3. Ask("count", m.task) \in Message /\ Ask("count", m.task).tag = "REQUEST_MEMORY"
      BY <2>1, MsgType DEF Ask, Tag, Part
    <3>4. Precedes(net'[<<s, d>>], Ask("count", m.task), m)
            <=> Precedes(net[<<s, d>>], Ask("count", m.task), m)
      BY <1>4, <2>1, <3>3
    <3> QED BY <2>1, <2>4, <3>1, <3>2, <3>4 DEF AnswerTrue
  <2> QED BY <2>1, <2>2, <2>3, <2>4 DEF AnswerTrue
<1> QED BY <1>5 DEF AskedTrue

(* The first answer is the one that is waited for.                         *)
LEMMA FirstAnswer ==
  ASSUME TaskingInv, OriginInv, FlatInv, Creators \subseteq {Root}, NEW w \in Worker,
         main[w].pc \in Asking, NEW p, p = main[w].peer, Arrived(p, w, "REQUEST_MEMORY")
  PROVE  LET m == Matched(p, w, "REQUEST_MEMORY")
         IN  /\ m.part = (IF main[w].pc = "req_count" THEN "count" ELSE "data")
             /\ m.task = main[w].task
             /\ {x \in InChannel(Without(p, w, "REQUEST_MEMORY")) : x.tag = "REQUEST_MEMORY"}
                  = Asked(p, w) \ {m}
             /\ m \in Asked(p, w)
             /\ \A x \in Asked(p, w) \ {m} :
                  Precedes(Without(p, w, "REQUEST_MEMORY"), x, x) => Precedes(net[<<p, w>>], x, x)
<1>0. NetworkTypeOK /\ WorkerTypeOK
  BY Parts
<1>1. main[w].pc \in Requesting
  BY DEF Asking, Requesting
<1>2. /\ p \in Worker /\ p # w /\ p \in Node /\ w \in Node
      /\ \A m \in Asked(p, w) : m.part # "task"
  BY <1>1, NobodyAsksBack
<1> DEFINE q == net[<<p, w>>]
           m == Matched(p, w, "REQUEST_MEMORY")
           r == Without(p, w, "REQUEST_MEMORY")
<1>3. /\ m.tag = "REQUEST_MEMORY" /\ m \in InChannel(q) /\ InChannel(r) \subseteq InChannel(q)
      /\ \A x \in InChannel(q) : x # m => x \in InChannel(r)
  BY <1>0, <1>2, WithoutEffect
<1>4. /\ \A x, y : Precedes(r, x, y) => Precedes(q, x, y)
      /\ ~Precedes(q, m, m) =>
           /\ m \notin InChannel(r)
           /\ \A x \in InChannel(q) :
                x.tag = "REQUEST_MEMORY" => ~Precedes(q, x, m) /\ (x # m => Precedes(q, m, x))
  BY <1>0, <1>2, WithoutPrecedes
<1>5. Asked(p, w) = {x \in InChannel(q) : x.tag = "REQUEST_MEMORY"}
  BY DEF Asked
<1>6. q = net[<<p, w>>]
  OBVIOUS
<1> HIDE DEF q, m, r
<1>7. m \in Asked(p, w)
  BY <1>3, <1>5
<1>8. /\ m.part \in {"count", "data"} /\ ~Precedes(q, m, m)
      /\ m.task = main[w].task /\ AnswerTrue(p, w, m) /\ m.part # "task"
  BY <1>2, <1>6, <1>7 DEF FlatInv, AskedTrue, AnswerTrue
<1>9. {x \in InChannel(r) : x.tag = "REQUEST_MEMORY"} = Asked(p, w) \ {m}
  BY <1>3, <1>4, <1>5, <1>8
<1>10. m.part = (IF main[w].pc = "req_count" THEN "count" ELSE "data")
  <2>1. CASE main[w].pc = "req_data"
    BY <1>8, <2>1 DEF AnswerTrue
  <2>2. CASE main[w].pc = "req_count"
    <3> SUFFICES ASSUME m.part = "data" PROVE FALSE
      BY <1>8, <2>2
    <3>1. Precedes(q, Ask("count", m.task), m)
      BY <1>6, <1>8, <2>2 DEF AnswerTrue
    <3>2. Ask("count", m.task) \in InChannel(q)
      BY <3>1 DEF Precedes, InChannel
    <3>3. Ask("count", m.task).tag = "REQUEST_MEMORY"
      BY DEF Ask, Msg
    <3> QED BY <1>4, <1>8, <3>1, <3>2, <3>3
  <2> QED BY <2>1, <2>2 DEF Asking
<1> QED BY <1>4, <1>6, <1>7, <1>8, <1>9, <1>10 DEF q, m, r

(* The channels between others do not change when w and p talk.            *)
LEMMA OthersTalk ==
  ASSUME NetworkTypeOK, NetworkTypeOK', FlatInv, NEW w \in Node, NEW p \in Node,
         \A v \in Worker : v # w => main'[v] = main[v],
         main[w].pc \in Asking => main[w].peer = p,
         \A x, y \in Node : <<x, y>> \notin {<<p, w>>, <<w, p>>} =>
           SameOf("REQUEST_MEMORY", net[<<x, y>>], net'[<<x, y>>]),
         NEW s \in Node, NEW d \in Node, <<s, d>> \notin {<<p, w>>, <<w, p>>}
  PROVE  AskedTrue(s, d)'
<1>1. AskedTrue(s, d)
  BY DEF FlatInv
<1>2. <<d, s>> \notin {<<p, w>>, <<w, p>>}
  OBVIOUS
<1>3. /\ SameOf("REQUEST_MEMORY", net[<<s, d>>], net'[<<s, d>>])
      /\ SameOf("REQUEST_MEMORY", net[<<d, s>>], net'[<<d, s>>])
  BY <1>2
<1>4. ASSUME NEW m \in Asked(s, d)
      PROVE  IF m.part = "task" THEN main'[s] = main[s] ELSE main'[d] = main[d]
  <2>1. CASE m.part = "task"
    <3>1. s \in Worker /\ main[s].pc \in Asking /\ main[s].peer = d
      BY <1>1, <2>1 DEF AskedTrue, QuestionTrue, Asking
    <3> QED BY <2>1, <3>1
  <2>2. CASE m.part # "task"
    <3>1. d \in Worker /\ main[d].pc \in Asking /\ main[d].peer = s
      BY <1>1, <2>2 DEF AskedTrue, AnswerTrue
    <3> QED BY <2>2, <3>1
  <2> QED BY <2>1, <2>2
<1>5. Asked(d, s)' \subseteq Asked(d, s)
  <2>1. \A m \in Asked(d, s)' : m \in Message /\ m.tag = "REQUEST_MEMORY"
    <3>1. net'[<<d, s>>] \in Seq(Message)
      BY DEF NetworkTypeOK
    <3> QED BY <3>1, ElementOfSeq DEF Asked, InChannel
  <2> QED BY <1>3, <2>1 DEF SameOf, Asked
<1> QED BY <1>1, <1>3, <1>4, <1>5, AskedKept

(* A step that moves no such message leaves those who take part alone.     *)
LEMMA QuietExchange ==
  ASSUME TaskingInv, TaskingInv', FlatInv, [Next]_vars, Kept("REQUEST_MEMORY"),
         \A w \in Worker : main[w].pc \in Asking => main'[w] = main[w]
  PROVE  FlatInv'
<1>0. NetworkTypeOK /\ NetworkTypeOK'
  BY Parts DEF TaskingInv, TaskingTypeOK, WorkerTypeOK
<1> SUFFICES ASSUME NEW s \in Node, NEW d \in Node PROVE AskedTrue(s, d)'
  BY DEF FlatInv
<1>1. AskedTrue(s, d)
  BY DEF FlatInv
<1>2. /\ SameOf("REQUEST_MEMORY", net[<<s, d>>], net'[<<s, d>>])
      /\ SameOf("REQUEST_MEMORY", net[<<d, s>>], net'[<<d, s>>])
  BY DEF Kept
<1>3. \A m \in Asked(s, d) : IF m.part = "task" THEN main'[s] = main[s] ELSE main'[d] = main[d]
  BY <1>1 DEF AskedTrue, QuestionTrue, AnswerTrue, Asking
<1>4. Asked(d, s)' \subseteq Asked(d, s)
  <2>1. \A m \in Asked(d, s)' : m \in Message /\ m.tag = "REQUEST_MEMORY"
    <3>1. net'[<<d, s>>] \in Seq(Message)
      BY <1>0 DEF NetworkTypeOK
    <3> QED BY <3>1, ElementOfSeq DEF Asked, InChannel
  <2> QED BY <1>2, <2>1 DEF SameOf, Asked
<1> QED BY <1>0, <1>1, <1>2, <1>3, <1>4, AskedKept

(* A question is the only message of the exchange between the two.         *)
LEMMA QuestionSent ==
  ASSUME TaskingInv, TaskingInv', OriginInv, FlatInv, Creators \subseteq {Root},
         NEW w \in Worker, request_memory_lock(w)
  PROVE  FlatInv'
<1>0. NetworkTypeOK /\ NetworkTypeOK' /\ WorkerTypeOK
  BY Parts DEF TaskingInv, TaskingTypeOK, WorkerTypeOK
<1>p. PICK p, t, m : p = main[w].peer /\ t = main[w].task /\ m = Ask("task", t)
  OBVIOUS
<1>1. /\ main[w].pc = "req_lock" /\ main' = [main EXCEPT ![w].pc = "req_count"]
      /\ Send(w, p, m) /\ t \in Task
  BY <1>0, <1>p, WorkerTypes DEF request_memory_lock, Ask
<1>2. /\ \A v \in Worker : v # w => main'[v] = main[v]
      /\ main'[w].pc = "req_count" /\ main'[w].peer = p /\ main'[w].task = t
  BY <1>0, <1>1, <1>p, WorkerTypes
<1>3. /\ p \in Worker /\ p # w /\ p \in Node /\ w \in Node
      /\ \A n \in Asked(p, w) : n.part # "task"
      /\ \A n \in Asked(w, p) : n.part = "task"
  BY <1>1, <1>p, NobodyAsksBack DEF Requesting
<1>4. Asked(p, w) = {} /\ Asked(w, p) = {}
  <2>1. AskedTrue(p, w) /\ AskedTrue(w, p)
    BY <1>3 DEF FlatInv
  <2>2. ASSUME NEW n \in Asked(p, w) PROVE FALSE
    <3>1. n.part # "task" /\ AnswerTrue(p, w, n) /\ n.part \in {"task", "count", "data"}
      BY <1>3, <2>1, <2>2 DEF AskedTrue
    <3>2. main[w].pc \in Asking
      BY <3>1 DEF AnswerTrue
    <3> QED BY <1>1, <3>2 DEF Asking
  <2>3. ASSUME NEW n \in Asked(w, p) PROVE FALSE
    <3>1. n.part = "task" /\ QuestionTrue(w, p, n)
      BY <1>3, <2>1, <2>3 DEF AskedTrue
    <3>2. main[w].pc = "req_count"
      BY <3>1 DEF QuestionTrue
    <3> QED BY <1>1, <3>2
  <2> QED BY <2>2, <2>3
<1>m. m \in Message /\ m.tag = "REQUEST_MEMORY" /\ m.part = "task" /\ m.task = t
  BY <1>1, <1>p, MsgType DEF Ask, Tag, Part
<1>5. /\ net'[<<w, p>>] = Append(net[<<w, p>>], m)
      /\ \A x, y \in Node : <<x, y>> # <<w, p>> => net'[<<x, y>>] = net[<<x, y>>]
  BY <1>0, <1>1, <1>3, <1>m, SendEffect
<1>6. AskedTrue(w, p)'
  <2>1. net[<<w, p>>] \in Seq(Message)
    BY <1>0, <1>3 DEF NetworkTypeOK
  <2>2. InChannel(net'[<<w, p>>]) = InChannel(net[<<w, p>>]) \cup {m}
    BY <1>5, <1>m, <2>1, AppendOne
  <2>3. Asked(w, p)' = {m}
    BY <1>4, <1>m, <2>2 DEF Asked
  <2>4. m \notin InChannel(net[<<w, p>>])
    BY <1>4, <1>m DEF Asked
  <2>5. ~Precedes(net'[<<w, p>>], m, m)
    <3>1. Precedes(net'[<<w, p>>], m, m)
             <=> Precedes(net[<<w, p>>], m, m) \/ (m \in InChannel(net[<<w, p>>]) /\ m = m)
      BY <1>5, <1>m, <2>1, AppendPrecedes
    <3> QED BY <2>4, <3>1 DEF Precedes, InChannel
  <2>6. QuestionTrue(w, p, m)' /\ AnswerTrue(w, p, m)'
    BY <1>2, <1>m DEF QuestionTrue, AnswerTrue
  <2> QED BY <1>m, <1>p, <2>3, <2>5, <2>6 DEF AskedTrue
<1>7. AskedTrue(p, w)'
  <2>1. <<p, w>> # <<w, p>>
    BY <1>3
  <2>2. net'[<<p, w>>] = net[<<p, w>>]
    BY <1>3, <1>5, <2>1
  <2>3. Asked(p, w)' = {}
    BY <1>4, <2>2 DEF Asked
  <2> QED BY <2>3 DEF AskedTrue
<1>8. ASSUME NEW s \in Node, NEW d \in Node, <<s, d>> \notin {<<p, w>>, <<w, p>>}
      PROVE  AskedTrue(s, d)'
  <2>1. \A x, y \in Node : <<x, y>> \notin {<<p, w>>, <<w, p>>} =>
          SameOf("REQUEST_MEMORY", net[<<x, y>>], net'[<<x, y>>])
    BY <1>5 DEF SameOf
  <2>2. main[w].pc \in Asking => main[w].peer = p
    BY <1>p
  <2> QED BY <1>0, <1>2, <1>3, <1>8, <2>1, <2>2, OthersTalk
<1> QED BY <1>6, <1>7, <1>8 DEF FlatInv

(* The answer comes to a question that is gone then.                       *)
LEMMA QuestionAnswered ==
  ASSUME TaskingInv, TaskingInv', OriginInv, FlatInv, Creators \subseteq {Root},
         NEW w \in Worker, handle_request_memory(w)
  PROVE  FlatInv'
<1>0. NetworkTypeOK /\ NetworkTypeOK' /\ WorkerTypeOK
  BY Parts DEF TaskingInv, TaskingTypeOK, WorkerTypeOK
<1>1. /\ main[w].pc = "recv" /\ main[w].peer \in Node /\ w \in Node
      /\ Arrived(main[w].peer, w, "REQUEST_MEMORY")
      /\ incoming(w) = Matched(main[w].peer, w, "REQUEST_MEMORY")
      /\ incoming(w) \in Message /\ incoming(w).task \in Task
  BY <1>0, IncomingType, Names DEF handle_request_memory
<1>p. PICK p, m, t, a, b : /\ p = main[w].peer /\ m = incoming(w) /\ t = m.task
                           /\ a = Ask("count", t) /\ b = Ask("data", t)
  OBVIOUS
<1>2. /\ ReceiveAndSend(p, w, "REQUEST_MEMORY", p, <<a, b>>)
      /\ \E r : main' = [main EXCEPT ![w] = r]
  <2>1. ReceiveAndSend(p, w, "REQUEST_MEMORY", p, <<a, b>>)
    BY <1>p DEF handle_request_memory, Ask
  <2>2. main' = [main EXCEPT ![w] = main'[w]]
    BY <1>0, WorkerTypes DEF handle_request_memory
  <2> QED BY <2>1, <2>2
<1>3. \A v \in Worker : v # w => main'[v] = main[v]
  BY <1>0, <1>2, WorkerTypes
<1>4. m \in Asked(p, w) /\ m.tag = "REQUEST_MEMORY"
  <2>1. m.tag = "REQUEST_MEMORY" /\ m \in InChannel(net[<<p, w>>])
    BY <1>0, <1>1, <1>p, WithoutEffect
  <2> QED BY <2>1 DEF Asked
<1>5. /\ m.part = "task" /\ p \in Worker /\ p \in Node /\ main[p].pc = "req_count"
      /\ main[p].peer = w /\ main[p].task = t /\ m = Ask("task", t)
      /\ ~Precedes(net[<<p, w>>], m, m)
  BY <1>1, <1>4, <1>p DEF FlatInv, AskedTrue, QuestionTrue, AnswerTrue, Asking
<1>6. /\ w # p /\ \A n \in Asked(w, p) : n.part # "task"
      /\ \A n \in Asked(p, w) : n.part = "task"
  BY <1>5, NobodyAsksBack DEF Requesting
<1>7. Asked(p, w) = {m} /\ Asked(w, p) = {}
  <2>1. \A n \in Asked(p, w) : n = m
    BY <1>1, <1>5, <1>6 DEF FlatInv, AskedTrue, QuestionTrue
  <2>2. ASSUME NEW n \in Asked(w, p) PROVE FALSE
    <3>1. AskedTrue(w, p)
      BY <1>1, <1>5 DEF FlatInv
    <3>2. n.part # "task" /\ AnswerTrue(w, p, n)
      BY <1>6, <2>2, <3>1 DEF AskedTrue
    <3>3. \A x \in Asked(p, w) : x.part # "task"
      BY <3>2 DEF AnswerTrue
    <3> QED BY <1>4, <1>5, <3>3
  <2> QED BY <1>4, <2>1, <2>2
<1>m. /\ a \in Message /\ a.tag = "REQUEST_MEMORY" /\ a.part = "count" /\ a.task = t
      /\ b \in Message /\ b.tag = "REQUEST_MEMORY" /\ b.part = "data" /\ b.task = t
  BY <1>1, <1>p, MsgType DEF Ask, Tag, Part
<1>8. /\ net'[<<p, w>>] = Without(p, w, "REQUEST_MEMORY")
      /\ net'[<<w, p>>] = Append(Append(net[<<w, p>>], a), b)
      /\ net[<<w, p>>] \in Seq(Message) /\ Append(net[<<w, p>>], a) \in Seq(Message)
      /\ \A x, y \in Node : <<x, y>> \notin {<<p, w>>, <<w, p>>} =>
           net'[<<x, y>>] = net[<<x, y>>]
  <2>1. /\ NetworkTypeOK /\ p \in Node /\ w \in Node /\ a \in Message /\ b \in Message
        /\ p # w /\ Arrived(p, w, "REQUEST_MEMORY")
        /\ ReceiveAndSend(p, w, "REQUEST_MEMORY", p, <<a, b>>)
    BY <1>0, <1>1, <1>2, <1>5, <1>6, <1>m, <1>p
  <2> QED BY <2>1, AnswerTwice
<1>9. AskedTrue(p, w)' /\ Asked(p, w)' = {}
  <2>1. /\ InChannel(Without(p, w, "REQUEST_MEMORY")) \subseteq InChannel(net[<<p, w>>])
        /\ m \notin InChannel(Without(p, w, "REQUEST_MEMORY"))
    BY <1>0, <1>1, <1>5, <1>p, WithoutEffect, WithoutPrecedes
  <2>2. Asked(p, w)' = {}
    BY <1>7, <1>8, <2>1 DEF Asked
  <2> QED BY <2>2 DEF AskedTrue
<1>10. AskedTrue(w, p)'
  <2>q. PICK q, r : q = net[<<w, p>>] /\ r = Append(q, a)
    OBVIOUS
  <2>1. /\ q \in Seq(Message) /\ r \in Seq(Message) /\ net'[<<w, p>>] = Append(r, b)
        /\ InChannel(r) = InChannel(q) \cup {a}
        /\ InChannel(Append(r, b)) = InChannel(r) \cup {b}
    BY <1>8, <1>m, <2>q, AppendOne
  <2>2. \A x, y : /\ Precedes(r, x, y) <=> Precedes(q, x, y) \/ (x \in InChannel(q) /\ y = a)
                  /\ Precedes(Append(r, b), x, y)
                       <=> Precedes(r, x, y) \/ (x \in InChannel(r) /\ y = b)
    <3> SUFFICES ASSUME NEW x, NEW y
                 PROVE  /\ Precedes(r, x, y)
                             <=> Precedes(q, x, y) \/ (x \in InChannel(q) /\ y = a)
                        /\ Precedes(Append(r, b), x, y)
                             <=> Precedes(r, x, y) \/ (x \in InChannel(r) /\ y = b)
      OBVIOUS
    <3>1. /\ q \in Seq(Message) /\ a \in Message /\ r = Append(q, a)
          /\ r \in Seq(Message) /\ b \in Message
      BY <1>m, <2>1, <2>q
    <3>2. Precedes(Append(q, a), x, y) <=> Precedes(q, x, y) \/ (x \in InChannel(q) /\ y = a)
      BY <3>1, AppendPrecedes
    <3>4. r \in Seq(Message) /\ b \in Message
      BY <3>1
    <3>3. Precedes(Append(r, b), x, y) <=> Precedes(r, x, y) \/ (x \in InChannel(r) /\ y = b)
      BY <3>4, AppendPrecedes
    <3> QED BY <3>1, <3>2, <3>3
  <2>3. a \notin InChannel(q) /\ b \notin InChannel(q) /\ a # b
    BY <1>7, <1>m, <2>q DEF Asked
  <2>4. \A x, y : Precedes(q, x, y) => x \in InChannel(q) /\ y \in InChannel(q)
    BY DEF Precedes, InChannel
  <2>5. /\ ~Precedes(Append(r, b), a, a) /\ ~Precedes(Append(r, b), b, b)
        /\ Precedes(Append(r, b), a, b)
    BY <2>1, <2>2, <2>3, <2>4
  <2>6. Asked(w, p)' = {a, b}
    BY <1>7, <1>m, <2>1, <2>q DEF Asked
  <2>7. /\ AnswerTrue(w, p, a)' /\ AnswerTrue(w, p, b)'
        /\ QuestionTrue(w, p, a)' /\ QuestionTrue(w, p, b)'
    <3>1. main'[p] = main[p]
      BY <1>3, <1>5, <1>6
    <3>2. main'[p].pc \in Asking
      BY <1>5, <3>1 DEF Asking
    <3> QED BY <1>5, <1>9, <1>m, <1>p, <2>1, <2>5, <3>1, <3>2 DEF AnswerTrue, QuestionTrue
  <2> QED BY <1>m, <1>p, <2>1, <2>5, <2>6, <2>7 DEF AskedTrue
<1>11. ASSUME NEW s \in Node, NEW d \in Node, <<s, d>> \notin {<<p, w>>, <<w, p>>}
       PROVE  AskedTrue(s, d)'
  <2>1. \A x, y \in Node : <<x, y>> \notin {<<p, w>>, <<w, p>>} =>
          SameOf("REQUEST_MEMORY", net[<<x, y>>], net'[<<x, y>>])
    BY <1>8 DEF SameOf
  <2>2. main[w].pc \in Asking => main[w].peer = p
    BY <1>p
  <2> QED BY <1>0, <1>1, <1>3, <1>5, <1>11, <2>1, <2>2, OthersTalk
<1> QED BY <1>9, <1>10, <1>11 DEF FlatInv

(* An answer taken leaves the exchange true: after the number the rest is  *)
(* awaited, and after the rest nothing of the exchange is left.            *)
LEMMA AnswerTaken ==
  ASSUME TaskingInv, TaskingInv', OriginInv, FlatInv, Creators \subseteq {Root},
         NEW w \in Worker, NEW p, p = main[w].peer, main[w].pc \in Asking,
         Arrived(p, w, "REQUEST_MEMORY"), net'[<<p, w>>] = Without(p, w, "REQUEST_MEMORY"),
         \A x, y \in Node : <<x, y>> # <<p, w>> =>
           SameOf("REQUEST_MEMORY", net[<<x, y>>], net'[<<x, y>>]),
         \A v \in Worker : v # w => main'[v] = main[v],
         main[w].pc = "req_count" =>
           main'[w].pc = "req_data" /\ main'[w].peer = p /\ main'[w].task = main[w].task
  PROVE  FlatInv'
<1>0. NetworkTypeOK /\ NetworkTypeOK'
  BY Parts DEF TaskingInv, TaskingTypeOK, WorkerTypeOK
<1>1. /\ p \in Worker /\ p # w /\ p \in Node /\ w \in Node
      /\ \A x \in Asked(p, w) : x.part # "task"
      /\ \A x \in Asked(w, p) : x.part = "task"
  BY NobodyAsksBack DEF Asking, Requesting
<1>m. PICK m : m = Matched(p, w, "REQUEST_MEMORY")
  OBVIOUS
<1>2. /\ m.part = (IF main[w].pc = "req_count" THEN "count" ELSE "data")
      /\ m.task = main[w].task /\ m \in Asked(p, w)
      /\ Asked(p, w)' = Asked(p, w) \ {m}
      /\ \A x \in Asked(p, w) \ {m} :
           Precedes(net'[<<p, w>>], x, x) => Precedes(net[<<p, w>>], x, x)
  <2>1. /\ m.part = (IF main[w].pc = "req_count" THEN "count" ELSE "data")
        /\ m.task = main[w].task
        /\ {x \in InChannel(Without(p, w, "REQUEST_MEMORY")) : x.tag = "REQUEST_MEMORY"}
             = Asked(p, w) \ {m}
        /\ m \in Asked(p, w)
        /\ \A x \in Asked(p, w) \ {m} :
             Precedes(Without(p, w, "REQUEST_MEMORY"), x, x) => Precedes(net[<<p, w>>], x, x)
    BY <1>m, FirstAnswer
  <2> QED BY <2>1 DEF Asked
<1>3. /\ AskedTrue(p, w)
      /\ \A x \in Asked(p, w) : /\ x.part \in {"count", "data"} /\ x = Ask(x.part, x.task)
                                /\ ~Precedes(net[<<p, w>>], x, x) /\ AnswerTrue(p, w, x)
  BY <1>1 DEF FlatInv, AskedTrue
<1>4. Asked(w, p) = {}
  BY <1>1, <1>2, <1>3 DEF AnswerTrue
<1>5. <<w, p>> # <<p, w>>
  BY <1>1
<1>6. Asked(w, p)' = {}
  <2>1. SameOf("REQUEST_MEMORY", net[<<w, p>>], net'[<<w, p>>])
    BY <1>1, <1>5
  <2>2. \A n \in Asked(w, p)' : n \in Message /\ n.tag = "REQUEST_MEMORY"
    <3>1. net'[<<w, p>>] \in Seq(Message)
      BY <1>0, <1>1 DEF NetworkTypeOK
    <3> QED BY <3>1, ElementOfSeq DEF Asked, InChannel
  <2>3. Asked(w, p)' \subseteq Asked(w, p)
    BY <2>1, <2>2 DEF SameOf, Asked
  <2> QED BY <1>4, <2>3
<1>7. \A x \in Asked(p, w)' : main[w].pc = "req_count" /\ x.part = "data"
  <2> SUFFICES ASSUME NEW x \in Asked(p, w)' PROVE main[w].pc = "req_count" /\ x.part = "data"
    OBVIOUS
  <2>1. /\ x \in Asked(p, w) /\ x # m /\ x.part \in {"count", "data"}
        /\ x = Ask(x.part, x.task) /\ AnswerTrue(p, w, x)
    BY <1>2, <1>3
  <2>2. x.task = main[w].task /\ (x.part = "count" => main[w].pc = "req_count")
    BY <1>1, <2>1 DEF AnswerTrue
  <2>3. m = Ask(m.part, m.task)
    BY <1>2, <1>3
  <2>4. x.part # m.part
    BY <1>2, <2>1, <2>2, <2>3
  <2> QED BY <1>2, <2>1, <2>2, <2>4
<1>8. AskedTrue(p, w)'
  <2> SUFFICES ASSUME NEW x \in Asked(p, w)'
               PROVE  /\ x.part \in {"task", "count", "data"} /\ x = Ask(x.part, x.task)
                      /\ ~Precedes(net'[<<p, w>>], x, x)
                      /\ QuestionTrue(p, w, x)' /\ AnswerTrue(p, w, x)'
    BY DEF AskedTrue
  <2>1. /\ x \in Asked(p, w) \ {m} /\ x = Ask(x.part, x.task)
        /\ ~Precedes(net[<<p, w>>], x, x) /\ AnswerTrue(p, w, x)
        /\ main[w].pc = "req_count" /\ x.part = "data"
    BY <1>2, <1>3, <1>7
  <2>2. x.task = main[w].task
    BY <2>1 DEF AnswerTrue
  <2>3. QuestionTrue(p, w, x)' /\ AnswerTrue(p, w, x)'
    BY <1>6, <2>1, <2>2 DEF QuestionTrue, AnswerTrue, Asking
  <2> QED BY <1>2, <2>1, <2>3
<1>9. AskedTrue(w, p)'
  BY <1>6 DEF AskedTrue
<1>10. ASSUME NEW s \in Node, NEW d \in Node, <<s, d>> \notin {<<p, w>>, <<w, p>>}
       PROVE  AskedTrue(s, d)'
  BY <1>0, <1>1, <1>10, OthersTalk
<1> QED BY <1>8, <1>9, <1>10 DEF FlatInv

(* The number of variables is received,                                    *)
LEMMA CountTaken ==
  ASSUME TaskingInv, TaskingInv', OriginInv, FlatInv, Creators \subseteq {Root},
         NEW w \in Worker, request_memory_count(w)
  PROVE  FlatInv'
<1>0. NetworkTypeOK /\ WorkerTypeOK /\ TagKept(w)
  BY Parts DEF RequestInv
<1>p. PICK p : p = main[w].peer
  OBVIOUS
<1>1. /\ main[w].pc = "req_count" /\ Arrived(p, w, "REQUEST_MEMORY")
      /\ main[w].pc \in Requesting /\ main[w].pc \in Asking
      /\ main' = [main EXCEPT ![w].pc = "req_data"] /\ main[w].tag = "REQUEST_MEMORY"
  BY <1>0, <1>p DEF request_memory_count, Requesting, Asking, TagKept
<1>2. p \in Node /\ w \in Node
  BY <1>1, <1>p, AskTheRoot, Names
<1>3. net' = [net EXCEPT ![<<p, w>>] = Without(p, w, "REQUEST_MEMORY")]
  BY <1>1, <1>p DEF request_memory_count, Consume, Receive
<1>4. /\ net'[<<p, w>>] = Without(p, w, "REQUEST_MEMORY")
      /\ \A x, y \in Node : <<x, y>> # <<p, w>> => net'[<<x, y>>] = net[<<x, y>>]
  BY <1>0, <1>2, <1>3 DEF NetworkTypeOK
<1>5. \A x, y \in Node : <<x, y>> # <<p, w>> =>
        SameOf("REQUEST_MEMORY", net[<<x, y>>], net'[<<x, y>>])
  BY <1>4 DEF SameOf
<1>6. /\ \A v \in Worker : v # w => main'[v] = main[v]
      /\ main'[w].pc = "req_data" /\ main'[w].peer = p /\ main'[w].task = main[w].task
  BY <1>0, <1>1, <1>p, WorkerTypes
<1> QED BY <1>1, <1>p, <1>4, <1>5, <1>6, AnswerTaken

(* and the rest of them, with which the task starts.                       *)
LEMMA DataTaken ==
  ASSUME TaskingInv, TaskingInv', OriginInv, FlatInv, Creators \subseteq {Root},
         NEW w \in Worker, request_memory_data(w)
  PROVE  FlatInv'
<1>0. NetworkTypeOK /\ WorkerTypeOK /\ TagKept(w)
  BY Parts DEF RequestInv
<1>p. PICK p, m : p = main[w].peer /\ m = Msg("REPORT_CAPACITY", "none", Root)
  OBVIOUS
<1>1. /\ main[w].pc = "req_data" /\ Arrived(p, w, "REQUEST_MEMORY")
      /\ main[w].pc \in Requesting /\ main[w].pc \in Asking
      /\ main' = [main EXCEPT ![w] = At("poll")] /\ main[w].tag = "REQUEST_MEMORY"
  BY <1>0, <1>p DEF request_memory_data, start_thread, Requesting, Asking, TagKept
<1>2. p \in Node /\ w \in Node /\ p \in Worker /\ p # w /\ 0 \in Node /\ w # 0 /\ p # 0
  BY <1>1, <1>p, AskTheRoot, Names
<1>3. ReceiveAndSend(p, w, "REQUEST_MEMORY", 0, <<m>>)
  BY <1>1, <1>p DEF request_memory_data, start_thread
<1>m. m \in Message /\ m.tag = "REPORT_CAPACITY"
  BY <1>p, MsgType, Names DEF Tag, Part, Task
<1>4. /\ NetworkTypeOK'
      /\ net'[<<p, w>>] = Without(p, w, "REQUEST_MEMORY")
      /\ net'[<<w, 0>>] = Append(net[<<w, 0>>], m)
      /\ \A x, y \in Node : <<x, y>> \notin {<<p, w>>, <<w, 0>>} =>
           net'[<<x, y>>] = net[<<x, y>>]
  <2>1. <<p, w>> # <<w, 0>>
    BY <1>2
  <2> QED BY <1>0, <1>1, <1>2, <1>3, <1>m, <2>1, AnswerEffect
<1>5. \A x, y \in Node : <<x, y>> # <<p, w>> =>
        SameOf("REQUEST_MEMORY", net[<<x, y>>], net'[<<x, y>>])
  <2>1. SameOf("REQUEST_MEMORY", net[<<w, 0>>], net'[<<w, 0>>])
    <3>1. net[<<w, 0>>] \in Seq(Message)
      BY <1>0, <1>2 DEF NetworkTypeOK
    <3>2. SameOf("REQUEST_MEMORY", net[<<w, 0>>], Append(net[<<w, 0>>], m))
      BY <1>m, <3>1, AppendSame
    <3> QED BY <1>4, <3>2
  <2>2. ASSUME NEW x \in Node, NEW y \in Node, <<x, y>> \notin {<<p, w>>, <<w, 0>>}
        PROVE  SameOf("REQUEST_MEMORY", net[<<x, y>>], net'[<<x, y>>])
    BY <1>4, <2>2 DEF SameOf
  <2> QED BY <2>1, <2>2
<1>6. \A v \in Worker : v # w => main'[v] = main[v]
  BY <1>0, <1>1, WorkerTypes
<1> QED BY <1>1, <1>p, <1>4, <1>5, <1>6, AnswerTaken

(* Every step leaves the exchange true.                                    *)
LEMMA FlatStep ==
  ASSUME TaskingInv, TaskingInv', OriginInv, FlatInv, Creators \subseteq {Root}, [Next]_vars
  PROVE  FlatInv'
<1>0. WorkerTypeOK /\ "REQUEST_MEMORY" \in Transferred
  BY Parts DEF Transferred
<1>1. CASE \E w \in Worker : \/ request_memory_lock(w) \/ request_memory_count(w)
                             \/ request_memory_data(w) \/ handle_request_memory(w)
  BY <1>1, QuestionSent, CountTaken, DataTaken, QuestionAnswered
<1>2. CASE ~ \E w \in Worker : \/ request_memory_lock(w) \/ request_memory_count(w)
                               \/ request_memory_data(w) \/ handle_request_memory(w)
  <2>1. Kept("REQUEST_MEMORY")
    BY <1>0, <1>2, StepKeeps DEF Moves, RequestMoves, RunMoves, WriteMoves
  <2>2. ASSUME NEW w \in Worker, main[w].pc \in Asking PROVE main'[w] = main[w]
    <3>1. ~MainStep(w)
      BY <1>2, <2>2
         DEF Asking, MainStep, WorkerSetup, Probe, LockAndPost, handle_run_task, Received,
             handle_request_memory_return, handle_write_memory, write_memory_lock,
             write_memory_apply, handle_shutdown
    <3>2. CASE \A v \in Worker : ~MainStep(v)
      BY <3>2, MainUnchanged
    <3>3. CASE \E v \in Worker : MainStep(v)
      BY <1>0, <3>1, <3>3, MainExchange
    <3> QED BY <3>2, <3>3
  <2> QED BY <2>1, <2>2, QuietExchange
<1> QED BY <1>1, <1>2

(* No message is under way when the program starts.                        *)
LEMMA FlatInit == Init => FlatInv
<1> SUFFICES ASSUME Init, NEW s \in Node, NEW d \in Node PROVE AskedTrue(s, d)
  BY DEF FlatInv
<1>1. net[<<s, d>>] = << >>
  BY DEF Init, WorkerInit, NetworkInit
<1>2. Asked(s, d) = {}
  BY <1>1 DEF Asked, InChannel
<1> QED BY <1>2 DEF AskedTrue

(* In a flat program, the answer to a request of variables is the answer   *)
(* to that request.                                                        *)
THEOREM ReplyMatchesInvariance == Spec => [](Creators \subseteq {Root} => ReplyMatches)
<1> DEFINE Inv == TaskingInv /\ OriginInv /\ (Creators \subseteq {Root} => FlatInv)
<1>1. Init => Inv
  BY TaskingInit, OriginInit, FlatInit
<1>2. Inv /\ [Next]_vars => Inv'
  <2> SUFFICES ASSUME Inv, [Next]_vars PROVE Inv'
    OBVIOUS
  <2>1. TaskingInv'
    BY TaskingStep
  <2>2. OriginInv'
    BY <2>1, OriginStep
  <2>3. Creators \subseteq {Root} => FlatInv'
    BY <2>1, FlatStep
  <2> QED BY <2>1, <2>2, <2>3
<1>3. Inv => (Creators \subseteq {Root} => ReplyMatches)
  <2> SUFFICES ASSUME Inv, Creators \subseteq {Root}, NEW w \in Worker,
                      main[w].pc \in {"req_count", "req_data"}, NEW p, p = main[w].peer,
                      Arrived(p, w, "REQUEST_MEMORY")
               PROVE  LET m == Matched(p, w, "REQUEST_MEMORY")
                      IN  /\ m.part = (IF main[w].pc = "req_count" THEN "count" ELSE "data")
                          /\ m.task = main[w].task
    BY DEF ReplyMatches
  <2> QED BY FirstAnswer DEF Asking
<1> QED BY <1>1, <1>2, <1>3, PTL DEF Spec
=============================================================================
