# Verification of the OpenMP tasking runtime

TLA+ models of the distributed tasking runtime in `runtime/` (C++ over MPI),
model-checked with TLC on small instances, and theorems about the whole program, the merging
of its results, its start, the processor that writes it and the previous runtime, proved with
TLAPS for every value of the constants: every invariant and every action property that a run
checks and that holds, and both refinements. Paths below are relative to the repository.

## The system

A program whose `#pragma omp task` blocks were rewritten by `processor/` is
started on several MPI ranks. Rank 0 is the *runtime process*, every other rank a
*worker process* (`runtime/include/tasking.h:31-40`).

| Part | State | Operations |
|---|---|---|
| Scheduler (`Scheduler.cpp`) | task table `created_tasks`, `ready_tasks`, `free_capacity` of each worker; `finished`, `children_finished`, `parent_id`, `children` of each task | `enqueue`, `work_available`, `get_next_node_and_task`, `set_finished` |
| Runtime process (`Runtime.cpp`) | `next_task_id`, the scheduler | `setup`, `run`, `handle_create_task`, `handle_finish_task`, `run_task_on_node`, `shutdown` |
| Receiver (`Receiver.cpp`) | `mpi_receive_lock`, a posted receive | `receive_message` |
| Worker process (`Worker.cpp`) | `created_tasks`, `running_tasks`, one thread for each task | `handle_run_task`, `request_memory`, `handle_request_memory`, `write_memory`, `handle_write_memory`, `handle_create_task`, `handle_finish_task` |
| Task (`Task.cpp`) | captured variables, their copies and backups | `prepare`, `serialize`, `update`, `free_after_run` |
| Previous runtime process (`runtime-old/Runtime.cpp`, `RuntimeTask.cpp`) | wait tree with `running_children`, `not_finished_children`, `waiting`; `queued_tasks`, `free_workers` | `handle_create_task`, `handle_finish_task`, `handle_taskwait`, `handle_allwait`, `handle_free_capacity`, `handle_run_task`, `check_completion` |
| Previous worker (`runtime-old/Worker.cpp`, `WorkerTask.cpp`) | `capacity`, `waiting_capacity`, `runnable_tasks`, `waiting_tasks`, a thread for each task | `event_loop`, `handle_run_task`, `handle_wakeup`, `add_to_waiting`, `handle_wait`, `handle_finish` |
| Program entry (`tasking.h`) | rank, number of ranks | `do_tasking`, `taskwait` |
| Processor (`processor/`) | the text of a compilation unit, `generated_ids`, `handled_vars`, `needsHeader`, `header_added` | `HandleTopLevelDecl`, the visits of both visitors, `finalize`; offline, sequential |

How they interact. The processor moves the code of each task into a function of a generated
header, which enters it in `tasking_function_map`, and writes the creation of a `Task` with
a `Var` for each captured variable where the directive was; the creator's `Task::prepare` finds the
sizes that the processor could not (`functions.h`). At run time a worker reports its capacity; the runtime sends `RUN_TASK` to
the least loaded worker. The worker requests the task's variables from the worker
the task was created on (its *origin*), starts a thread, and goes on polling. The
thread creates tasks (`CREATE_TASK` to the runtime, reply with the id, then an
acknowledgement the runtime waits for), sends the bytes it changed back to the
origin (`WRITE_MEMORY`), and reports `FINISH_TASK`. When `children_finished` of the
root task is set the runtime sends `SHUTDOWN`. Main thread and task threads of a
worker share one MPI endpoint, kept apart by `mpi_receive_lock`, which the probe
and most sends do not take.

The previous runtime is not part of the build any more, but is the only implementation
of `taskwait`. There a task that waits enters itself among the suspended tasks of its
worker, gives its capacity back and tells the runtime; the report of its last child makes
the runtime send a wake-up, and the worker continues the task when it has capacity.

What is hard here: receives of several threads on one endpoint, messages of
different senders that overtake each other, blocking receives inside handlers,
flags that summarise a growing tree of tasks, and the merging of concurrent
write-backs. There are no retries, timeouts or restarts: a process that crashes
ends the program (`mpirun`), and nothing is persisted.

What makes each part correct: every worker is known to the runtime; a directive is replaced where
it is executed, and both pieces of code generated for a variable mean the same object; the scheduler dispatches each task once and accounts
for capacity exactly; `run` ends if and only if everything has finished; each
message reaches the thread that waits for it; ids, acknowledgements, variables and
write-backs are those of the task they are taken for; results are at the origin
when the program ends; concurrent write-backs do not undo each other; nobody waits
for ever. Several of these do not hold of the code; see *Findings*.

## Modules

| Module | Models |
|---|---|
| `Tasks` | names and constants every module shares |
| `Scheduler` | `Scheduler.cpp`: tables, queue, capacity, `set_finished` |
| `TaskPool` | abstract specification: what the runtime process promises about tasks |
| `Runtime` | `Runtime.cpp` around the scheduler, against arbitrary workers |
| `RuntimeProofs` | theorems about `Runtime` |
| `Network` | MPI as the code uses it (external) |
| `NetworkProofs` | lemmas about channels: what a send adds, what a receive takes out |
| `WorkerProcess` | `Worker.cpp` and `Receiver.cpp`: main thread, task threads, the lock |
| `Tasking` | the whole program: `Runtime` and `WorkerProcess` over `Network` |
| `TaskingProofs` | theorems about `Tasking` |
| `Memory` | contents of the captured variables: copies, changes, merging |
| `MemoryProofs` | theorems about `Memory` |
| `WaitTree` | previous runtime process: wait tree, queue and account of the workers |
| `WaitTreeProofs` | lemmas about `WaitTree`: chains of parents, exact counters |
| `EventLoops` | previous runtime as a whole: `WaitTree`, workers, threads, messages |
| `EventLoopsProofs` | theorems about `EventLoops` |
| `Startup` | `do_tasking`, `Runtime::setup`: which ranks find each other |
| `StartupProofs` | theorems about `Startup` |
| `Captures` | a captured variable in generated caller and callee; `get_allocated_size` |
| `Processor` | both visitors over a compilation unit, and `prepare` in the program written |
| `ProcessorProofs` | theorems about `Processor` |
| `MCRuntime`, `MCTasking`, `MCMemory`, `MCEventLoops`, `MCStartup`, `MCProcessor` | constants for TLC |

Definitions carry the names of the functions they model; `PROJECT.json` gives the
lines of each. Operators marked *mutation of* are plausible bugs in a definition,
used to show that each property notices something.

**Scheduler and Runtime.** A task is its id. `parent_id`, `finished` and
`children_finished` are functions over ids. `children(t)` is derived: tasks never
leave the table, so the weak pointers never expire. `FlagsAfter` is `set_finished`
line for line: the flag of the task, then that of its parent, and no other. `loop`
is the position of `run`; `Receiving` is the state in which `handle_message` is
reached. The root task's `parent_id` is uninitialised (`Task.cpp:30` finds no
`current_task`), so `setup` chooses it from `UninitParent`; if it names no task,
`set_finished` dereferences null and `loop` becomes `crash`. In `Runtime` a worker may
create from or finish any task it was given; `node` records who was given what.

**WorkerProcess and Tasking.** `main[w].pc` follows the main thread through
`receive_message` (`poll`, `lock`, `recv`), `request_memory` and `handle_write_memory`;
`thread[t].pc` follows a task. The lock is taken where the code takes it: after the
probe, in `handle_create_task`, `request_memory` and `handle_write_memory`. A channel
`net[s, d]` is a sequence; a receive takes the first message of its source and tag.
The variables of a task travel as two messages, a count or head and one for
everything that follows it: the sizes and contents follow in the same order under
the same tag and are received under the same lock. `RuntimeCreateTask` and
`RuntimeTaskSetUp` are two steps because the runtime blocks in between. A task
without variables may abort the program in `free_after_run` (`Task.cpp:131` frees a
pointer nobody assigned). After `SHUTDOWN` a worker's threads may go on, but nothing
makes them. A standard send of a large buffer does not return before it is received:
the variables and changes of a task in `Synchronous` are sent that way, which keeps a main thread in
`answer` and a task's thread in `sending` until the message has been taken.

**Memory.** `place[t]` says which copy of the array `task->memory` points to: its own
after `request_memory`, its parent's when it runs where it was created. `changed(t)`
is the comparison of backup and memory, `handle_write_memory` applies only the
changes. The code of a task is that of the tests: it assigns to the element its
copy of the loop variable selects.

**WaitTree and EventLoops.** The calls from a finished task up the tree are the sets
`Told` (whose `child_finished` runs) and `Woken`. `above[t]` is the chain of parents. One
turn of a worker's loop is one action, with the message it received if any, and the
report at its end another, so that threads it has started may speak first. `thread[t]` is
the position of a task's thread; `woken` stands for `continueable`. A worker that reports
the same message late behaves as one that receives it late, so a receive is one step.
`waiting_capacity` is uninitialised (`main.cpp:21` has the worker on the stack) and starts
with a value of `UninitCapacity`.

**Startup.** A worker sends its report to a rank computed from its own (`Worker.cpp:44`), the runtime
process waits for ranks computed from the number of ranks (`Runtime.cpp:58`). `mail` is the set of
reports under way; a worker that receives one drops it.

**Captures and Processor.** The text is abstracted to the directives replaced in it: `replaced` in the
edited text, `main_text` in what has been moved out of `main`, `code[x].text` in the function of the task
`x`. Clang's rewriter maps an edit inside text already removed to an offset elsewhere; the directive
is then `misplaced`, and the output does not compile. `todo` is the set of the visits that the two traversals
of a declaration have left, numbered in the order they are made (`Visits`); the next one is the least.
`UnitAssumption` says what clang's tree guarantees: task directives lie in each other properly. An edit in an included file goes to a buffer that is never written. `sent`
is the result of `prepare` for the tasks that the program creates. A variable is a record with the
form of its type and the layers of pointers around its object; the chain `name_pointer_L`, ...,
`name_pointer_0` of the callee is followed symbolically.

## Runs

| Run | Result | Question |
|---|---|---|
| `RuntimeTables` | holds | Are the tables consistent, is capacity exact, what can exit rely on, is this a task pool, does a flat program's runtime process end? |
| `TaskingFlat` | holds | Do transfers match and results survive; how can a flat program stop? |
| `TaskingNested` | holds | The same with several creators on two workers; are ids, acknowledgements and capacity right across processes? |
| `TaskingLocal` | holds | Does the lock keep two task threads of one worker apart? |
| `Memory` | holds | Does merging lose or undo anything? |
| `EventLoops` | holds | Previous runtime: do the counters of the wait tree, the waits, the wake-ups, the end and the capacity of workers agree with what happens? |
| `EventLoopsEnd` | holds | How can a program under the previous runtime fail to end? |
| `Startup` | holds | Does the runtime process know its workers, and does the program start, for any number of ranks? |
| `Processor` | holds | What does the processor replace, does the result compile, do caller and callee agree on variables, how many bytes are sent? |
| `RuntimeExit`, `TaskingProbe`, `TaskingResults` | violated | see *Findings* |

Properties by what they relate:

* `RuntimeInv` (with `TablesAgree`, `CapacityConserved`, `FlagsFounded`): ids are a
  prefix, the queue is the tail of the ids, what left the queue has a worker, free
  capacity is the report less the unfinished tasks, and a set flag is founded on the
  end of the task or of a child.
* `ExitSound`, `FlatEndDetected`: the part of "exit means all done" and "all done
  means exit" that does hold.
* `ImplementsTaskPool`: `Runtime` refines `TaskPool`; `RuntimeSpec` as a property of the
  `Tasking` runs: the whole program refines `Runtime`, so what is proved of `Runtime` with
  its arbitrary workers holds of the runtime process among the real ones.
* `CapacityRespected`: the account bounds what really happens on a worker,
  messages under way included.
* `OriginKnowsTask`, `AckMatches`, `ReplyReachesThread`, `IdReachesCreator`, `ReplyMatches`,
  `WriteBackIntact`: each receive gets the message it is meant for.
* `ResultsKept`: a finished task's results are at its origin or on their way, and those that MPI does
  not buffer are at the origin. What has not been applied are the places `WriteBacks` of the channel, and 0 for
  a head the main thread has taken. That the runtime may shut the origin down first is the finding `TaskingResults`.
* `AckArrives`, `EndsOrStuck`, `NestedEndsOrStuck`: the last two list every way in which a
  program can stop for ever. In a flat program: the lost probe, and a creator
  waiting for a runtime that has shut down; that a send may wait for its receive adds none, as
  flat programs have one origin. In a nested one also two workers that
  request variables from each other, a worker that waits for the rest of a
  write-back (or, with a third worker, for variables) of a process that is down, and
  an end that is not noticed. Each way named is needed; without it TLC finds a
  counterexample.
* `ResultAtOrigin`, `ResultHandedOn`, `Undisturbed`: write-backs neither lose nor undo
  assignments, and pass a child's results on if it was done in time.

* `CountersExact`: the counters kept by calls up the tree are the numbers
  of children they are named for; so a parent counts the child that ends, and the second place that
  reports a task to its parent (`RuntimeTask.cpp:25`) is never reached.
* `ExitWhenAllEnded`: unlike the current runtime, the previous one stops after the last task.
* `WakeupFindsTask`, `ChildrenWaitedFor`, `AllWaitedFor`: waits end when they may, and the
  task is there to be woken.
* `CapacityKept`, `AccountDrifts`: a worker keeps its capacity through any order of suspending,
  waking and finishing; the account of the runtime is off by one for each task ever handed out.
* `EndsOrWaitsInVain`: a program ends unless a task starts to wait after the report of the
  last task it waits for (nobody looks at the counters then), or garbage in
  `waiting_capacity` leaves a worker without capacity. Both are needed.
* `EveryOrNoWorkerKnown`, `StartsIfOneRuntime`: with fewer ranks than `worker_per_runtime` every worker is
  known and the program starts; with as many or more none is, and it never starts.
* `WhatIsReplaced`: an edit is misplaced exactly if `main` has a directive or a task lies in another
  (`ExtractorVisitor.h:67` says so of tasks in tasks); otherwise every directive of the file, and none of
  an included file, is replaced where it is executed, a `taskwait` inside a task in the task's function.
* `HeaderPrecedesUse`: the includes are late or missing exactly if they went to an included file or to
  `main`, which depends on the units and on the uninitialised `needsHeader`.
* `VariablesReached`: following the layers of a variable in a task's function ends at the object
  that the caller's entry with the same index was made from; each task created is registered.
  As a name means one variable where a directive is (`VariableAssumption`), it is the same variable.
* `SizesFit`: bytes are missing only in three named cases, and the size of a heap block is not exceeded.

### Bounds

`MaxTask` bounds the ids, and the only guards that mention it are those of task
creation. `RuntimeTables`: two workers of capacity 2 and six tasks, so that four run, two queue,
and grandchildren occur. The code's capacity is 1 (`Worker.h:39`); `setup.cpp:39`
expects 4, and capacity 2 makes the choice of the least loaded worker matter. `UninitParent` covers a negative value, the
root itself, another task and an id never used. `TaskingFlat`: four tasks over three
workers, so that a task may be anywhere relative to two others; of the two with variables one is sent
synchronously, and one task has none. `TaskingNested`: four tasks suffice for
two workers that are origins of each other's tasks and for a grandchild that ends last; a cycle of
requests among three workers needs more. `Synchronous` is one task with variables there.
`TaskingLocal`: one worker of capacity 2, the smallest with two task threads on one
lock. `Memory`: four tasks give siblings and a chain of three, two values distinguish a
changed from an unchanged element. `EventLoops`: three tasks on two workers of capacity 1
are a chain or two siblings, with messages of different senders in any order;
`EventLoopsEnd` has one worker, since what it asks is between a task, its worker and the tree,
and garbage 0 or -1. `Startup`: up to eight ranks with
`worker_per_runtime` 3, 4, 8 and 9 (100 in the code) are one, two and three groups, full and not.
`Processor`: up to three declarations, the empty unit included, one of them `main` at most, before and after declarations of the
file or of an included one, each with up to three directives; eleven kinds of variables at the start of
a block, inside one, in static data, on the stack and at the start of a region; `Garbage` is what
`malloc_usable_size` may find inside a block, `AddressSpace` the modulus of `size_t`. Deadlock is not checked: programs end, and the
properties above say how they can be stuck.

### Fairness

Weak fairness of the runtime process (current or previous), of each main thread and of each task's
thread: the operating system runs every thread, `run` and `receive_message` poll for
ever, and a task's code comes to its end. Task creation has no fairness of its own.
A thread of a worker that has received `SHUTDOWN` has none, as the process may exit.
The lock gets none beyond this: who waits for it forever is exactly what
`EndsOrStuck` accounts for.

## Findings

* `RuntimeExit` (`Scheduler.cpp:81`): a task that ends before its parent creates the next
  one sets the parent's `children_finished`; the runtime exits while the root task runs.
* `TaskingProbe` (`Receiver.cpp:27`): the message the main thread has probed may be
  received by a task thread that holds the lock; the main thread then waits for
  ever with the lock held.
* `TaskingResults` (`Runtime.cpp:107`): `SHUTDOWN` overtakes a write-back, results are lost.

Without a run of their own, but part of a property that holds:

* Flags are recomputed one level up (`Scheduler.cpp:81`): if a grandchild ends last the runtime waits for
  ever. `EndMissed` in `NestedEndsOrStuck`; `FlatEndDetected` says when it cannot happen.
* Previous runtime: the runtime and the worker both take a started task off the account
  (`runtime-old/Worker.cpp:136`, `runtime-old/Runtime.cpp:138`). `AccountDrifts` says by how much; a worker whose account reaches 0
  by a report stays in `free_workers` and is handed tasks without limit (against `runtime-old/Runtime.h:33`).
* With 100 ranks or more no program starts (`Runtime.cpp:58`). `StartsIfOneRuntime`.
* A `taskwait` or task directive in `main`, and a task in a task, is not replaced, and its edits
  damage other text (against `RewriterVisitor.h:27`, "Visit each OpenMP taskwait directive and rewrite
  it"). `WhatIsReplaced`. If the first declaration that needs them is `main`, or needs nothing and is
  in an included file (uninitialised `needsHeader`), the includes come too late. `HeaderPrecedesUse`.
* The last byte of a full heap block is never sent, nor more than 20 bytes of static data; a copy of
  an object on the main stack whose size the processor does not know reads beyond the stack
  (`functions.h:46`, `Task.cpp:47`) and faults. `SizesFit` and `Faults`.

Not a run: nobody acts on `if_clause` (against `Task.h:48`); in the previous runtime `finish_flag`
is set after the message that may lead to shutdown, so that a thread may be left
unjoined (against `Worker.h:42`).

## Proofs

Every theorem is about every value of the constants that the named assumptions allow: finite sets of
workers, any capacity from 1, any number of tasks, any set of creators, any units. `WorkerAssumption` keeps
rank 0 for the runtime process, `UnitAssumption` is the nesting of directives. `VariableAssumption` is the scope of
names where a directive is; `shared(a::x, b::x)` is outside it. `ObjectAssumption` says that
objects lie in the memory that holds them, and that an array passed as a parameter has the size its parameter
declares, which C++ leaves to the caller. TLC evaluates each of them. Three theorems have a hypothesis, part of their statement.

Induction over data is not available to these provers. Where an argument goes up a tree it uses, instead,
sets that a first-order formula can define: the least or greatest element of a set of naturals
(`LeastNatural`, `Greatest`, from finite sets being well founded), or the least set closed under `parent`
(`LineOf`). Of a recursive function the same argument shows that it exists (there is no least length without
one) and what it computes (there is no least place at which it fails): `SumsExist`, `SumsFacts` for sums over
a channel, `CapturingExists`, `CapturingMatches` for the loop over the variables of a task.

**RuntimeProofs** (about `Runtime`, with arbitrary workers)

* `RuntimeInvariance`: `RuntimeSpec => []RuntimeInv`
* `CapacityTheorem`, `ExitTheorem`, `FlatEndTheorem`: `CapacityConserved`, `ExitSound`, `FlatEndDetected`
* `PoolTheorem`: `RuntimeSpec => ImplementsTaskPool`

`RuntimeInv` is inductive as it stands. Its parts
need each other: `TablesAgree` says that the head of the queue has no worker yet, so
a dispatch adds exactly one running task to a worker and `CapacityConserved` is kept; the
capacity part needs that a finished task was running; `FlagsFounded` needs that
a new task's id is not in the table and that its flags are still false. One
lemma per part shows that every action keeps it (`TypeStep`, `AgreeStep`, `CapacityStep`,
`FlagsStep`), on top of lemmas that say what a dispatch, a creation and a completion do to the tables.
`ExitSound` follows from `FlagsFounded`. `FlatEndDetected` is not inductive: it is proved
together with `LeafFlags`, that a finished child of a flat program keeps its flag, since
nothing recomputes the flag of a task without children to false. `PoolTheorem` maps each step: `PhaseChange` gives
the phases after a step that moves one task, `PoolLoad` equates the pool's load with the running
tasks, and the least loaded worker is the one with the most free capacity because
`CapacityConserved` makes the two sums constant.

**TaskingProofs** (the whole program, over `NetworkProofs`)

* `TaskingInvariance`: `Spec => []TaskingInv`; `TaskingTypes`: `Spec => []TaskingTypeOK`
* `ImplementsRuntime`: `Spec => RuntimeSpec`. The environment of `Runtime`, where a worker may create from
  or finish any task it holds, covers what worker processes do through messages.
* `ProgramKeepsTables`, `ProgramIsTaskPool`, `ProgramEnds`: hence `RuntimeInv`, `ImplementsTaskPool`,
  `ExitSound` and `FlatEndDetected` of the whole program
* `AckTheorem`, `ReplyTheorem`, `IdTheorem`: `AckMatches`, `ReplyReachesThread`, `IdReachesCreator`
* `OriginTheorem`: `OriginKnowsTask`; `BusyTheorem`: `CapacityRespected`
* `WriteBackIntactInvariance`, `ResultsKeptInvariance`: `WriteBackIntact` and `ResultsKept` if `Capacity = 1`, as in
  the code (`Worker.h:39`), in programs with any creators
* `ReplyMatchesInvariance`: `ReplyMatches` if `Creators \subseteq {Root}`, for any capacity

`TaskingInv` is `RuntimeInv`, the types and `ProtocolInv`, whose parts hold each other up:

* `LockInv`: who holds `mpi_receive_lock` is exactly who is where only its holder can be. At most one
  thread of a worker therefore waits for an id, and the main thread is then not in a receive.
* `ThreadInv`, `RequestInv`: a thread runs where its task was sent, and the runtime takes no task for
  finished whose thread has not ended.
* `MessageInv`: what each message under way says is true when it is sent and stays so; in particular
  a `CREATE_TASK` is the request of the thread that holds the lock, the reply with the id last given, or its
  acknowledgement.
* `OrderInv`: no such message is under way twice, so that receiving one takes what it says away; and an
  acknowledgement precedes the next request of its worker. The second is what keeps `handle_create_task` from
  taking a request for the acknowledgement, since both have the same tag.
* `AwaitInv`, `KnownInv`: while the runtime waits for an acknowledgement either the reply or the
  acknowledgement is under way; every task but that one is known to its creator's worker. This is why
  the wait in `Runtime::handle_create_task` is needed: `OriginKnowsTask` follows from it.

`ImplementsRuntime` needs the invariant in each step that receives a message: it says that the task of a
`CREATE_TASK` or `FINISH_TASK` has been handed out and has not finished. `BusyTheorem` adds that the tasks of a
worker are an injective image of the runtime's running tasks, which `CapacityConserved` counts.

The last three theorems are about the order of a channel. `NetworkProofs` states it without places,
which a receive shifts: `Precedes(q, x, y)`, and what an append and a removal do to it; `Kept(tag)` says that a step
leaves the messages of a tag as they are. All three need `OriginInv`: where a task was created is
what the order to run it, the main thread that requests its variables and its thread say.

* Write-backs (`WriteBackInvariance`). The backlog of two workers is what one has written and the other has not applied,
  the head already taken included. `XferInv` says that it is true (`BacklogTrue`), that the changes of a task follow its
  head, or are about to be sent and nothing comes after the head (`BacklogPaired`), that nothing is between two
  of one task (`BacklogOrdered`), and that the changes of a task whose thread has sent them are in it or applied
  (`MergedInv`). With a capacity of one, a second task of the worker cannot write in between (`OneTask`, from
  the argument of `BusyTheorem`). With two task threads on one worker it can: changes are received in the order
  of their arrival and go to the wrong task.
* Requests. In a flat program every request goes to the worker of the root task, which asks nobody itself
  (`AskTheRoot`, `NobodyAsksBack`), so all messages of the tag on a channel are questions or all are answers. `FlatInv`
  says of each what it stands for. With more creators two workers may ask each other, and
  one takes the other's question for its answer: `RequestsCross`, one of the ways to be stuck in `NestedEndsOrStuck`.

**MemoryProofs**

* `MemoryInvariance`: `Spec => []MemoryInv`; `MemoryTypes`: `MemoryTypeOK`
* `OriginKeepsResult`, `ParentHandsOn`, `OthersUndisturbed`: `ResultAtOrigin`, `ResultHandedOn`, `Undisturbed`

An assignment travels up the line of its task (`Line(t)`: the task, its creator, and so on). `TreeInv` and
`PlaceInv` say that the copies lie on that line, `NearestInv` that a task works on the first copy up its line.
`UntouchedInv`, `CopyInv` and `UnseenInv` say that an element differs from its backup only on the line of the
task that assigns to it, and nowhere beyond a copy not written back: so no other write-back carries
an old value of it, which is what would undo the assignment. `OwnInv` and `CarriedInv` follow the value itself until it is
at the origin.

**WaitTreeProofs, EventLoopsProofs** (the previous runtime)

* `EventLoopsInvariance`: `Spec => []EventLoopsInv`; `EventLoopsTypes`: `EventLoopsTypeOK`
* `CountersTheorem`, `ExitAtEnd`, `WakeupTheorem`, `WaitTheorem`: `CountersExact`, `ExitWhenAllEnded`,
  `WakeupFindsTask`, `ChildrenWaitedFor`
* `AllWaitTheorem`, `CapacityTheorem`: the action properties `AllWaitedFor` and `CapacityKept`
* `AccountTheorem`: `AccountDrifts`

The parts of `EventLoopsInv`:

* `TreeInv`, `CountersInv`: the tasks above one are a chain up to the root, and both counters are
  cardinalities. A report changes the counters of all tasks above; whether a call goes on to the parent
  depends on a counter being 0, and the lemmas of `WaitTreeProofs` show that this reaches exactly the tasks whose
  subtree the report has completed.
* `SpeechInv`: what is under way to the runtime process is true, and a thread says nothing after its last word
  (that it waits or has finished) until it is woken. Messages of one sender do not overtake each other, so all creations
  of a task arrive before its wait does.
* `OrderInv`, `PlaceInv`: a task is in the queue, ordered, or at one worker, and each once.
* `WaitInv`: a task that waits is silent and is not being woken; one being woken has only ended children and
  cannot create any before it goes on.
* `BoundInv`, `ExitInv`: the ids of creations under way are free; the loop is left when all have ended.

Three lemmas carry most steps: `CalmStep` (steps that say nothing about tasks), `SpeakStep` (a thread says
something), `TurnStep` (a turn of a worker, whatever it received). `CapacityKept` is by counting: in a turn the threads
that hold capacity become fewer by those reaped and more by those taken from the queue, and `capacity` changes by
the same numbers.

`AccountDrifts` is the invariance of `Balance`: account, reports under way and tasks handed over, less the
capacity. A report sent moves an amount into the channel, one received moves it to the account (`AmountAppend`,
`AmountTail`), a turn adds to the report what it adds to the capacity, and an order takes one off the account and adds one
task to those handed over, which stays there for good. `AmountInv` adds that only reports of capacity carry an
amount.

**ProcessorProofs**

* `ProcessorInvariance`: `Spec => []ProcessorInv`
* `ReplacedTheorem`, `HeaderTheorem`: `WhatIsReplaced`, `HeaderPrecedesUse`
* `TypesTheorem`: `ProcessorTypeOK`; `VariablesTheorem`: `VariablesReached`; `SizesTheorem`: `SizesFit`

`OrderInv` says that the visits left are a suffix of each of the two passes; without it nothing would exclude
that a `taskwait` is replaced after the code around it has been read. `EditInv` then gives the edits as a
function of the visits made, `TextInv` the text read back, and `HeaderInv` relates `needsHeader` to what the
edits so far need.

`CodeInv` says that the code of a task is what `Captured` gives for its clauses, that no id is entered twice, and that
sizes are sent of the variables in it. `Matched` is the invariant of the loop in `Captured`: every name is
handled once, at the same place in caller and callee, and none is missing unless the processor has given up;
`CaptureMatches` is its step. `ValueBehind` follows the pointers of a callee through any number of layers.
`SizesTheorem` goes through the kinds of memory (`AllocatedFacts`): regions do not overlap, and at the start of a block
the walk back has no step and takes one off.

**StartupProofs**

* `WorkersKnownTheorem`: `Spec => []EveryOrNoWorkerKnown`
* `NoStartTheorem`: `Spec => [](world_size >= worker_per_runtime => root = 0)`

The inductive invariant `StartupInv` adds that every report under way goes to the rank its sender
computes, that the workers known are the ranks waited for, and that none has been waited for when there are
`worker_per_runtime` ranks or more: a rank the runtime process waits for is then at least
`worker_per_runtime`, and the rank it computes is not 0 (`NoReport`). The lemmas `Quotient` and `Group`
state the arithmetic of the integer division.

**Model-checked only**

* All liveness, as fairness is out of the prover's reach: `Termination`, `AckArrives`, `EndsOrStuck`, `NestedEndsOrStuck`,
  `EndsOrWaitsInVain`, `StartsIfOneRuntime`.

The bounds of the runs apply to these only.

## Not modelled

* Sends of more than one level of buffering: a send is buffered, or returns when received, by task; that
  the small messages, heads and counts are buffered is assumed.
* Data races inside `std::map` (`Worker.cpp:34` against `257`, `68` against `86`), the dangling
  reference of `Scheduler.cpp:52`, the unsynchronised `free_capacity` of a worker.
* MPI calls of task threads after `MPI_Finalize`.
* The release of memory of tasks with variables.
* Previous runtime: `claim_capacity` and `return_capacity`, which nobody calls, the data race on
  `tasks`, and what a process does with threads it has not joined.
* Processor: the fields that the clauses `if`, `final`, `untied`, `default`, `mergeable`, `priority` and
  `depend` set (nothing reads them, but that a `depend` clause may make the processor exit is modelled), local
  arrays and their declarations in the generated function, collisions of ids, qualified names that end alike, several compilation
  units sharing `all.hpp`, the set-up of the compiler in `main.cpp`.
* `experiments/` (a Clang tutorial), `samples/`.

## Plan

1. Done: `Scheduler`, `Runtime`, `TaskPool`, their proofs; `Network`, `WorkerProcess`,
   `Tasking`; `Memory`.
2. Done: `WaitTree`, `EventLoops`.
3. Done: `Captures`, `Processor`; `Startup` and its proofs; sends that are not buffered.
4. Done: proofs about `Tasking` with its refinement of `Runtime`, `Memory`, `WaitTree` and
   `EventLoops`, `Processor`.
5. Done: the order of transfers in `Tasking`, the account of `EventLoops`, the variables and sizes of `Processor`.
