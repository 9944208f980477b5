------------------------------- MODULE Startup -------------------------------
(***************************************************************************)
(* How a program starts: do_tasking of runtime/include/tasking.h makes     *)
(* rank 0 the runtime process and every other rank a worker.  A worker     *)
(* reports its capacity to the rank it takes for its runtime process, and  *)
(* the runtime process waits for the reports of the ranks it takes for its *)
(* workers.  Each works out these ranks on its own.                        *)
(***************************************************************************)
EXTENDS Integers

CONSTANTS
  WorldSize,    \* the numbers of processes a program is started with
  PerRuntime    \* the values of worker_per_runtime; 100 in the code

ASSUME WorldSizeAssumption == WorldSize \subseteq Nat \ {0}
ASSUME PerRuntimeAssumption == PerRuntime \subseteq Nat \ {0}

VARIABLES
  world_size,
  worker_per_runtime,
  mail,       \* the reports of capacity on their way: <<from, to>>
  polling,    \* the workers that have reported
  waits_for,  \* the rank whose report Runtime::setup receives next
  workers,    \* Scheduler::workers
  loop,       \* the runtime process
  root        \* the rank the root task was given to, 0 when it was not yet

vars == <<world_size, worker_per_runtime, mail, polling, waits_for, workers, loop, root>>

Rank == 0 .. world_size - 1

(* What a worker computes from its own rank ...                            *)
runtime_node_id(r) == (r \div worker_per_runtime) * worker_per_runtime

(* ... and the runtime process from the number of ranks.                   *)
own_id == (world_size \div worker_per_runtime) * worker_per_runtime

Itself == own_id                                   \* mutation of first
first == own_id + 1

OneShort ==                                        \* mutation of end
  IF world_size > own_id + worker_per_runtime
  THEN own_id + worker_per_runtime ELSE world_size - 1

end ==
  IF world_size >= own_id + worker_per_runtime
  THEN own_id + worker_per_runtime ELSE world_size

StartupTypeOK ==
  /\ world_size \in WorldSize
  /\ worker_per_runtime \in PerRuntime
  /\ mail \subseteq Rank \X Rank
  /\ polling \subseteq Rank \ {0}
  /\ waits_for \in Nat
  /\ workers \subseteq Rank \ {0}
  /\ loop \in {"setup", "run", "exit"}
  /\ root \in Rank

Init ==
  /\ world_size \in WorldSize
  /\ worker_per_runtime \in PerRuntime
  /\ mail = {}
  /\ polling = {}
  /\ waits_for = first
  /\ workers = {}
  /\ loop = IF world_size < 2 THEN "exit" ELSE "setup"
  /\ root = 0

WorkerSetup(r) ==
  /\ loop # "exit"
  /\ r \notin polling
  /\ polling' = polling \cup {r}
  /\ mail' = mail \cup {<<r, runtime_node_id(r)>>}
  /\ UNCHANGED <<world_size, worker_per_runtime, waits_for, workers, loop, root>>

(* A worker that polls drops a report, as it knows no such message.        *)
DropReport(r) ==
  /\ r \in polling
  /\ \E m \in mail : m[2] = r /\ mail' = mail \ {m}
  /\ UNCHANGED <<world_size, worker_per_runtime, polling, waits_for, workers, loop, root>>

RuntimeSetup ==
  /\ loop = "setup"
  /\ IF waits_for < end
     THEN /\ <<waits_for, 0>> \in mail
          /\ mail' = mail \ {<<waits_for, 0>>}
          /\ workers' = workers \cup {waits_for}
          /\ waits_for' = waits_for + 1
          /\ UNCHANGED loop
     ELSE /\ loop' = "run"
          /\ UNCHANGED <<mail, workers, waits_for>>
  /\ UNCHANGED <<world_size, worker_per_runtime, polling, root>>

(* run hands the root task out as soon as it knows a worker with capacity, *)
(* and ignores reports.                                                    *)
RunRoot ==
  /\ loop = "run"
  /\ root = 0
  /\ \E w \in workers : root' = w
  /\ UNCHANGED <<world_size, worker_per_runtime, mail, polling, waits_for, workers, loop>>

IgnoreReport ==
  /\ loop = "run"
  /\ \E m \in mail : m[2] = 0 /\ mail' = mail \ {m}
  /\ UNCHANGED <<world_size, worker_per_runtime, polling, waits_for, workers, loop, root>>

RuntimeStep == RuntimeSetup \/ RunRoot \/ IgnoreReport
WorkerStep(r) == WorkerSetup(r) \/ DropReport(r)

Next == RuntimeStep \/ \E r \in Rank \ {0} : WorkerStep(r)

Spec == Init /\ [][Next]_vars

(* MPI lets every process run.                                             *)
FairSpec ==
  Spec /\ WF_vars(RuntimeStep) /\ WF_vars(\E r \in Rank \ {0} : WorkerStep(r))

------------------------------------------------------------------------------
(* Once the runtime process is set up it knows every worker, so that none  *)
(* idles for the whole run of the program, or, with worker_per_runtime     *)
(* ranks or more, none at all: it is then set up only if the last group of *)
(* ranks has no report for it to wait for.                                 *)
EveryOrNoWorkerKnown ==
  loop = "run" =>
    IF world_size < worker_per_runtime
    THEN workers = Rank \ {0}
    ELSE workers = {} /\ world_size % worker_per_runtime <= 1

(* The program starts to run its root task if and only if it has fewer     *)
(* ranks than worker_per_runtime; with more, the runtime process waits for *)
(* reports that go to another rank, or has no worker.                      *)
StartsIfOneRuntime ==
  IF 2 <= world_size /\ world_size < worker_per_runtime
  THEN <>(root # 0) ELSE [](root = 0)
=============================================================================
