---------------------------- MODULE StartupProofs ----------------------------
(***************************************************************************)
(* What the runtime process knows when it has set itself up, for every     *)
(* number of ranks and every value of worker_per_runtime.                  *)
(***************************************************************************)
EXTENDS Startup, TLAPS

(* The quotient n \div m, times m, is n less a remainder below m.          *)
LEMMA Quotient ==
  ASSUME NEW n \in Nat, NEW m \in Nat \ {0}
  PROVE  /\ n \div m \in Nat
         /\ (n \div m) * m \in Nat
         /\ (n \div m) * m <= n
         /\ n < (n \div m) * m + m
         /\ n % m = n - (n \div m) * m
<1>1. n \div m \in Nat
  BY Z3
<1>2. (n \div m) * m \in Nat
  BY <1>1, Z3
<1>3. (n \div m) * m <= n /\ n < (n \div m) * m + m
  BY Z3
<1>4. n % m = n - (n \div m) * m
  BY Z3
<1> QED
  BY <1>1, <1>2, <1>3, <1>4

(* The quotient is 0 below m, and its product m or more from m on.         *)
LEMMA Group ==
  ASSUME NEW n \in Nat, NEW m \in Nat \ {0}
  PROVE  IF n < m THEN (n \div m) * m = 0 ELSE (n \div m) * m >= m
<1>1. CASE n < m
  <2>1. n \div m = 0
    BY <1>1, Z3
  <2> QED
    BY <1>1, <2>1
<1>2. CASE n >= m
  <2>1. n \div m \in Nat /\ n \div m >= 1
    BY <1>2, Z3
  <2>2. (n \div m) * m >= m
    BY <2>1, Z3
  <2> QED
    BY <1>2, <2>2
<1> QED
  BY <1>1, <1>2

(* Every report goes to the rank its sender computes, and the workers the  *)
(* runtime process knows are those it has waited for, which are none when  *)
(* worker_per_runtime ranks or more have been started.                     *)
Reports ==
  /\ mail \subseteq {<<r, runtime_node_id(r)>> : r \in Rank \ {0}}
  /\ waits_for >= first
  /\ workers = first .. waits_for - 1
  /\ waits_for > first => waits_for <= end
  /\ loop = "run" => waits_for >= end
  /\ root \in workers \cup {0}

NoneKnown == world_size >= worker_per_runtime => waits_for = first

StartupInv == StartupTypeOK /\ Reports /\ NoneKnown

(* No report of a worker the runtime process waits for comes to it when    *)
(* worker_per_runtime ranks or more have been started.                     *)
LEMMA NoReport ==
  ASSUME StartupInv, world_size >= worker_per_runtime, <<waits_for, 0>> \in mail
  PROVE  FALSE
<1>0. /\ world_size \in Nat /\ worker_per_runtime \in Nat \ {0}
      /\ waits_for \in Nat
  BY WorldSizeAssumption, PerRuntimeAssumption DEF StartupInv, StartupTypeOK
<1>1. PICK r \in Rank \ {0} : <<waits_for, 0>> = <<r, runtime_node_id(r)>>
  BY DEF StartupInv, Reports
<1>2. waits_for \in Rank /\ runtime_node_id(waits_for) = 0
  BY <1>1
<1>3. own_id >= worker_per_runtime
  BY <1>0, Group DEF own_id
<1>4. own_id \in Nat
  BY <1>0, Quotient DEF own_id
<1>5. waits_for >= worker_per_runtime
  BY <1>0, <1>3, <1>4 DEF StartupInv, Reports, first
<1>6. runtime_node_id(waits_for) >= worker_per_runtime
  <2>1. ~(waits_for < worker_per_runtime)
    BY <1>0, <1>5
  <2> QED
    BY <1>0, <2>1, Group DEF runtime_node_id
<1> QED
  BY <1>0, <1>2, <1>6

(* The invariant holds when the processes start ...                        *)
LEMMA StartupInit == Init => StartupInv
<1> SUFFICES ASSUME Init PROVE StartupInv
  OBVIOUS
<1>1. world_size \in Nat \ {0} /\ worker_per_runtime \in Nat \ {0}
  BY WorldSizeAssumption, PerRuntimeAssumption DEF Init
<1>2. own_id \in Nat
  BY <1>1, Quotient DEF own_id
<1>3. StartupTypeOK
  BY <1>1, <1>2 DEF Init, StartupTypeOK, Rank, first
<1>4. Reports
  BY <1>1, <1>2 DEF Init, Reports, first
<1> QED
  BY <1>3, <1>4 DEF Init, StartupInv, NoneKnown

(* ... and is kept by every step.                                          *)
LEMMA StartupStep == StartupInv /\ [Next]_vars => StartupInv'
<1> SUFFICES ASSUME StartupInv, [Next]_vars PROVE StartupInv'
  OBVIOUS
<1>0. /\ world_size \in Nat \ {0} /\ worker_per_runtime \in Nat \ {0}
      /\ own_id \in Nat /\ end \in Nat
  <2>1. world_size \in Nat \ {0} /\ worker_per_runtime \in Nat \ {0}
    BY WorldSizeAssumption, PerRuntimeAssumption DEF StartupInv, StartupTypeOK
  <2>2. own_id \in Nat
    BY <2>1, Quotient DEF own_id
  <2> QED
    BY <2>1, <2>2 DEF end
<1>n. ASSUME <<waits_for, 0>> \in mail PROVE world_size < worker_per_runtime
  BY <1>0, <1>n, NoReport
<1> USE DEF StartupInv, StartupTypeOK, Reports, NoneKnown
<1>1. ASSUME NEW r \in Rank \ {0}, WorkerSetup(r) PROVE StartupInv'
  <2>1. world_size' = world_size /\ worker_per_runtime' = worker_per_runtime
    BY <1>1 DEF WorkerSetup
  <2>2. own_id' = own_id /\ first' = first /\ end' = end /\ Rank' = Rank
    BY <2>1 DEF own_id, first, end, Rank
  <2>3. runtime_node_id(r) \in Rank
    <3>1. r \in Nat /\ r < world_size
      BY <1>0 DEF Rank
    <3>2. runtime_node_id(r) \in Nat /\ runtime_node_id(r) <= r
      BY <1>0, <3>1, Quotient DEF runtime_node_id
    <3> QED
      BY <1>0, <3>1, <3>2 DEF Rank
  <2>4. mail' = mail \cup {<<r, runtime_node_id(r)>>}
    BY <1>1 DEF WorkerSetup
  <2>5. \A s : runtime_node_id(s)' = runtime_node_id(s)
    BY <2>1 DEF runtime_node_id
  <2>6. StartupTypeOK'
    BY <1>1, <2>1, <2>2, <2>3, <2>4 DEF WorkerSetup, Rank
  <2>7. (mail \subseteq {<<s, runtime_node_id(s)>> : s \in Rank \ {0}})'
    BY <2>2, <2>4, <2>5, <2>1 DEF runtime_node_id
  <2>8. Reports'
    BY <1>1, <2>1, <2>2, <2>7 DEF WorkerSetup
  <2>9. NoneKnown'
    BY <1>1, <2>1, <2>2 DEF WorkerSetup
  <2> QED
    BY <2>6, <2>8, <2>9
<1>2. CASE RuntimeSetup
  <2>1. world_size' = world_size /\ worker_per_runtime' = worker_per_runtime
    BY <1>2 DEF RuntimeSetup
  <2>2. own_id' = own_id /\ first' = first /\ end' = end /\ Rank' = Rank
    BY <2>1 DEF own_id, first, end, Rank
  <2>3. CASE waits_for < end
    <3>1. /\ <<waits_for, 0>> \in mail
          /\ mail' = mail \ {<<waits_for, 0>>}
          /\ workers' = workers \cup {waits_for}
          /\ waits_for' = waits_for + 1
          /\ loop' = loop /\ loop = "setup"
          /\ polling' = polling /\ root' = root
      BY <1>2, <2>3 DEF RuntimeSetup
    <3>2. waits_for \in Rank \ {0}
      BY <3>1 DEF Rank
    <3>3. workers' = first .. waits_for' - 1
      BY <1>0, <3>1, <3>2 DEF first
    <3>4. StartupTypeOK'
      BY <2>1, <2>2, <3>1, <3>2
    <3>5. (mail \subseteq {<<s, runtime_node_id(s)>> : s \in Rank \ {0}})'
      BY <2>1, <2>2, <3>1 DEF runtime_node_id
    <3>6. Reports'
      BY <1>0, <2>2, <2>3, <3>1, <3>3, <3>5 DEF first
    <3>7. NoneKnown'
      BY <1>0, <1>n, <2>1, <3>1
    <3> QED
      BY <3>4, <3>6, <3>7
  <2>4. CASE ~(waits_for < end)
    <3>1. /\ mail' = mail /\ workers' = workers /\ waits_for' = waits_for
          /\ loop' = "run" /\ polling' = polling /\ root' = root
      BY <1>2, <2>4 DEF RuntimeSetup
    <3>2. (mail \subseteq {<<s, runtime_node_id(s)>> : s \in Rank \ {0}})'
      BY <2>1, <2>2, <3>1 DEF runtime_node_id
    <3> QED
      BY <1>0, <2>1, <2>2, <2>4, <3>1, <3>2
  <2> QED
    BY <2>3, <2>4
<1>3. CASE \/ RunRoot \/ IgnoreReport
           \/ \E r \in Rank \ {0} : DropReport(r)
           \/ UNCHANGED vars
  <2>1. /\ world_size' = world_size /\ worker_per_runtime' = worker_per_runtime
        /\ mail' \subseteq mail
        /\ waits_for' = waits_for /\ workers' = workers
        /\ polling' = polling /\ loop' = loop
        /\ root' \in workers \cup {root}
    BY <1>3 DEF RunRoot, IgnoreReport, DropReport, vars
  <2>2. own_id' = own_id /\ first' = first /\ end' = end /\ Rank' = Rank
    BY <2>1 DEF own_id, first, end, Rank
  <2>3. (mail \subseteq {<<s, runtime_node_id(s)>> : s \in Rank \ {0}})'
    BY <2>1, <2>2 DEF runtime_node_id
  <2> QED
    BY <2>1, <2>2, <2>3
<1> QED
  BY <1>1, <1>2, <1>3 DEF Next, RuntimeStep, WorkerStep

(* Its instance at the end of setup is the property.                       *)
LEMMA StartupSafe == StartupInv => EveryOrNoWorkerKnown
<1> SUFFICES ASSUME StartupInv, loop = "run"
             PROVE  IF world_size < worker_per_runtime
                    THEN workers = Rank \ {0}
                    ELSE workers = {} /\ world_size % worker_per_runtime <= 1
  BY DEF EveryOrNoWorkerKnown
<1>0. /\ world_size \in Nat \ {0} /\ worker_per_runtime \in Nat \ {0}
      /\ waits_for \in Nat
  BY WorldSizeAssumption, PerRuntimeAssumption DEF StartupInv, StartupTypeOK
<1>1. /\ own_id \in Nat /\ own_id <= world_size
      /\ world_size < own_id + worker_per_runtime
      /\ world_size % worker_per_runtime = world_size - own_id
  BY <1>0, Quotient DEF own_id
<1>2. end = world_size
  BY <1>0, <1>1 DEF end
<1>3. workers = first .. waits_for - 1 /\ waits_for >= end
  BY DEF StartupInv, Reports
<1>4. CASE world_size < worker_per_runtime
  <2>1. first = 1
    BY <1>0, <1>4, Group DEF first, own_id
  <2>2. waits_for = world_size
    BY <1>0, <1>2, <1>3, <2>1 DEF StartupInv, Reports
  <2>3. workers = 1 .. world_size - 1
    BY <1>3, <2>1, <2>2
  <2> QED
    BY <1>0, <1>4, <2>3 DEF Rank
<1>5. CASE world_size >= worker_per_runtime
  <2>1. waits_for = own_id + 1
    BY <1>5 DEF StartupInv, NoneKnown, first
  <2>2. workers = {}
    BY <1>1, <1>3, <2>1 DEF first
  <2>3. world_size % worker_per_runtime <= 1
    BY <1>0, <1>1, <1>2, <1>3, <2>1
  <2> QED
    BY <1>0, <1>5, <2>2, <2>3
<1> QED
  BY <1>0, <1>4, <1>5

(* With worker_per_runtime ranks or more the root task is given to nobody. *)
NoStart == world_size >= worker_per_runtime => root = 0

(* Without a known worker it is given to none.                             *)
LEMMA StartupIdle == StartupInv => NoStart
<1> SUFFICES ASSUME StartupInv, world_size >= worker_per_runtime PROVE root = 0
  BY DEF NoStart
<1>1. /\ world_size \in Nat /\ worker_per_runtime \in Nat \ {0}
  BY WorldSizeAssumption, PerRuntimeAssumption DEF StartupInv, StartupTypeOK
<1>2. first \in Nat
  BY <1>1, Quotient DEF first, own_id
<1>3. workers = first .. first - 1
  BY DEF StartupInv, Reports, NoneKnown
<1>4. workers = {}
  BY <1>2, <1>3
<1> QED
  BY <1>4 DEF StartupInv, Reports

(* For every number of ranks and every worker_per_runtime: the runtime     *)
(* process leaves Runtime::setup knowing every worker, or, with            *)
(* worker_per_runtime ranks or more, none.                                 *)
THEOREM WorkersKnownTheorem == Spec => []EveryOrNoWorkerKnown
<1> QED
  BY StartupInit, StartupStep, StartupSafe, PTL DEF Spec

(* With so many ranks the program never starts its root task, whatever the *)
(* order in which the reports arrive.                                      *)
THEOREM NoStartTheorem == Spec => []NoStart
<1> QED
  BY StartupInit, StartupStep, StartupIdle, PTL DEF Spec
=============================================================================
