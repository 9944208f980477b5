---------------------------- MODULE WaitTreeProofs ----------------------------
(***************************************************************************)
(* The wait tree of the previous runtime counts right: for any number of   *)
(* tasks and any tree of them, the counters kept by calls from child to    *)
(* parent are the numbers of children they are named for.                  *)
(***************************************************************************)
EXTENDS WaitTree, FiniteSetTheorems, WellFoundedInduction, TLAPS

USE DEF Root, Task

(* The tasks above one are a chain up to Root, in the order of their ids.  *)
TreeInv ==
  /\ id_counter \in 1 .. MaxTask + 1
  /\ above \in [Task -> SUBSET Task]
  /\ \A t \in Task :
       /\ t = Root \/ t \notin Created => above[t] = {}
       /\ t # Root /\ t \in Created => Root \in above[t]
       /\ \A u \in above[t] : u < t /\ above[u] \subseteq above[t]
       /\ \A u, v \in above[t] : u < v => u \in above[v]

(* The children the counters of a task are about.                          *)
Running(t) == {c \in children(t) : ~execution_finished[c]}
Unended(c) == \E d \in Subtree(c) : ~execution_finished[d]
Open(t) == {c \in children(t) : Unended(c)}

CountersInv ==
  /\ execution_finished \in [Task -> BOOLEAN]
  /\ running_children \in [Task -> Nat]
  /\ not_finished_children \in [Task -> Nat]
  /\ \A t \in Task \ Created :
       ~execution_finished[t] /\ running_children[t] = 0 /\ not_finished_children[t] = 0
  /\ CountersExact

------------------------------------------------------------------------------
(* A set of tasks has a greatest member: the strict supersets ...          *)
LEMMA Greatest ==
  ASSUME NEW S \in SUBSET Task, S # {}
  PROVE  \E x \in S : \A y \in S : y <= x
<1> DEFINE F == {x .. MaxTask : x \in S}
<1>0. MaxTask \in Nat
  BY MaxTaskAssumption
<1>1. IsWellFoundedOn(StrictSubsetOrdering(Nat), FiniteSubsetsOf(Nat))
  BY FS_StrictSubsetOrderingWellFounded
<1>2. F \subseteq FiniteSubsetsOf(Nat) /\ F # {}
  <2>1. \A x \in S : IsFiniteSet(x .. MaxTask) /\ x .. MaxTask \in SUBSET Nat
    BY <1>0, FS_Interval
  <2> QED BY <2>1 DEF FiniteSubsetsOf
<1>3. \E x \in F : \A y \in F : <<y, x>> \notin StrictSubsetOrdering(Nat)
  BY <1>1, <1>2, WFMin, Zenon
<1>4. PICK m \in S : \A y \in F : <<y, m .. MaxTask>> \notin StrictSubsetOrdering(Nat)
  BY <1>3
<1>5. \A y \in S : ~(m < y)
  <2> SUFFICES ASSUME NEW y \in S, m < y PROVE FALSE
    OBVIOUS
  <2>1. /\ y .. MaxTask \subseteq m .. MaxTask /\ y .. MaxTask # m .. MaxTask
        /\ y .. MaxTask \in SUBSET Nat /\ m .. MaxTask \in SUBSET Nat
    <3>1. m \in m .. MaxTask /\ m \notin y .. MaxTask
      BY <1>0
    <3> QED BY <3>1, <1>0
  <2> DEFINE A == y .. MaxTask
             B == m .. MaxTask
  <2>2. A \subseteq B /\ A # B /\ A \in SUBSET Nat /\ B \in SUBSET Nat
    BY <2>1
  <2> HIDE DEF A, B
  <2>3. <<A, B>> \in StrictSubsetOrdering(Nat)
    BY <2>2 DEF StrictSubsetOrdering
  <2>4. <<y .. MaxTask, m .. MaxTask>> \in StrictSubsetOrdering(Nat)
    BY <2>3 DEF A, B
  <2> QED BY <1>4, <2>4
<1> QED BY <1>5

(* ... and a least one.                                                    *)
LEMMA Least ==
  ASSUME NEW S \in SUBSET Task, S # {}
  PROVE  \E x \in S : \A y \in S : x <= y
<1> DEFINE M == {MaxTask - x : x \in S}
<1>0. MaxTask \in Nat /\ \A x \in S : x \in Nat /\ x <= MaxTask
  BY MaxTaskAssumption
<1>1. M \in SUBSET Task /\ M # {}
  <2>1. \A x \in S : MaxTask - x \in Task
    BY <1>0
  <2>2. M \in SUBSET Task
    BY <2>1
  <2> QED BY <2>2
<1>2. PICK m \in M : \A y \in M : y <= m
  BY <1>1, Greatest
<1>3. PICK x \in S : m = MaxTask - x
  OBVIOUS
<1>4. \A y \in S : MaxTask - y <= MaxTask - x
  BY <1>2, <1>3
<1>5. \A y \in S : x <= y
  BY <1>0, <1>4
<1> QED BY <1>5

(* The parent is the nearest of the chain, and the rest its parent's.      *)
LEMMA ParentFacts ==
  ASSUME TreeInv, NEW t \in Created \ {Root}
  PROVE  /\ t \in Task
         /\ parent(t) \in above[t] /\ \A q \in above[t] : q <= parent(t)
         /\ parent(t) \in Created /\ parent(t) < t
         /\ above[t] = above[parent(t)] \cup {parent(t)}
<1>1. t \in Task /\ Created \subseteq Task
  BY MaxTaskAssumption DEF Created, TreeInv
<1>2. above[t] \in SUBSET Task /\ above[t] # {}
  BY <1>1 DEF TreeInv
<1>3. parent(t) \in above[t] /\ \A q \in above[t] : q <= parent(t)
  BY <1>2, Greatest DEF parent
<1>4. parent(t) < t /\ parent(t) \in Created
  BY <1>1, <1>2, <1>3 DEF TreeInv, Created
<1>5. above[parent(t)] \subseteq above[t]
  BY <1>1, <1>3 DEF TreeInv
<1>6. ASSUME NEW q \in above[t], q # parent(t) PROVE q \in above[parent(t)]
  <2>1. q < parent(t)
    BY <1>2, <1>3, <1>6
  <2> QED BY <2>1, <1>1, <1>3 DEF TreeInv
<1> QED BY <1>1, <1>3, <1>4, <1>5, <1>6

(* What is below a task is below, or is, one of its children.              *)
LEMMA BelowFacts ==
  ASSUME TreeInv, NEW a \in Task
  PROVE  /\ \A c \in children(a) : c \in Created \ {Root} /\ a \in above[c] /\ a < c
         /\ \A c \in children(a) : Subtree(c) \subseteq Below(a)
         /\ \A d \in Created : a \in above[d] => \E c \in children(a) : d \in Subtree(c)
         /\ \A c, e \in children(a), d \in Created : d \in Subtree(c) /\ d \in Subtree(e) => c = e
<1>0. /\ Created \subseteq Task /\ Root \in Task /\ a \in Nat
      /\ \A t \in Task : t \in Nat /\ above[t] \in SUBSET Task
  BY MaxTaskAssumption DEF Created, TreeInv
<1>1. ASSUME NEW c \in children(a)
      PROVE  c \in Created \ {Root} /\ a \in above[c] /\ a < c /\ parent(c) = a
  <2>1. c \in Created \ {Root} /\ parent(c) = a
    BY DEF children
  <2> QED BY <2>1, ParentFacts
<1>2. ASSUME NEW c \in children(a), NEW d \in Subtree(c) PROVE d \in Below(a)
  <2>1. d = c \/ (d \in Created /\ c \in above[d])
    BY DEF Subtree, Below
  <2>2. d \in Created /\ a \in above[d]
    BY <2>1, <1>0, <1>1 DEF TreeInv
  <2> QED BY <2>2 DEF Below
<1>3. ASSUME NEW d \in Created, a \in above[d] PROVE \E c \in children(a) : d \in Subtree(c)
  <2> DEFINE X == {x \in {d} \cup above[d] : a \in above[x]}
  <2>1. X \in SUBSET Task /\ X # {}
    BY <1>0, <1>3
  <2>2. PICK x \in X : \A y \in X : x <= y
    BY <2>1, Least
  <2>3. x \in Task /\ a \in above[x] /\ x \in Created \ {Root}
    BY <1>0, <1>3, <2>1, <2>2 DEF TreeInv, Created
  <2>4. ASSUME NEW q \in above[x], a < q PROVE FALSE
    <3>1. q \in above[d]
      BY <1>0, <2>2, <2>3, <2>4 DEF TreeInv
    <3>2. a \in above[q]
      BY <1>0, <1>3, <2>4, <3>1 DEF TreeInv
    <3>3. q < x
      BY <2>3, <2>4 DEF TreeInv
    <3>4. q \in Nat /\ x \in Nat
      BY <1>0, <2>3
    <3> QED BY <2>2, <3>1, <3>2, <3>3, <3>4
  <2>5. parent(x) = a
    <3>1. parent(x) \in above[x] /\ a <= parent(x) /\ parent(x) \in Nat
      BY <1>0, <2>3, ParentFacts
    <3> QED BY <1>0, <2>4, <3>1
  <2>6. x \in children(a) /\ d \in Subtree(x)
    BY <2>2, <2>3, <2>5 DEF children, Subtree, Below
  <2> QED BY <2>6
<1>4. ASSUME NEW c \in children(a), NEW e \in children(a), NEW d \in Created,
             d \in Subtree(c), d \in Subtree(e), c < e
      PROVE  FALSE
  <2>1. (c = d \/ c \in above[d]) /\ (e = d \/ e \in above[d])
    BY <1>4 DEF Subtree, Below
  <2>2. c \in above[e]
    BY <1>0, <1>4, <2>1 DEF TreeInv
  <2>3. c <= a
    BY <1>1, <2>2, ParentFacts
  <2>4. c \in Nat /\ a < c
    BY <1>0, <1>1
  <2> QED BY <1>0, <2>3, <2>4
<1>5. \A c, e \in children(a), d \in Created : d \in Subtree(c) /\ d \in Subtree(e) => c = e
  <2> SUFFICES ASSUME NEW c \in children(a), NEW e \in children(a), NEW d \in Created,
                      d \in Subtree(c), d \in Subtree(e)
               PROVE  c = e
    OBVIOUS
  <2>1. c \in Nat /\ e \in Nat
    BY <1>0, <1>1
  <2> QED BY <2>1, <1>4
<1> QED BY <1>1, <1>2, <1>3, <1>5

(* Sets of tasks are finite.                                               *)
LEMMA FiniteTasks ==
  ASSUME NEW S \in SUBSET Task
  PROVE  IsFiniteSet(S) /\ Cardinality(S) \in Nat
<1>1. IsFiniteSet(Task)
  BY MaxTaskAssumption, FS_Interval
<1> QED BY <1>1, FS_Subset, FS_CardinalityType

(* The sets that are counted.                                              *)
LEMMA CountedSets ==
  ASSUME TreeInv, CountersInv, NEW t \in Created
  PROVE  /\ t \in Task
         /\ Running(t) \subseteq Task /\ Open(t) \subseteq Task
         /\ running_children[t] = Cardinality(Running(t))
         /\ not_finished_children[t] = Cardinality(Open(t))
<1>1. Created \subseteq Task
  BY MaxTaskAssumption DEF Created, TreeInv
<1>2. children(t) \subseteq Task
  BY <1>1 DEF children
<1> QED BY <1>1, <1>2 DEF Running, Open, Unended, CountersInv, CountersExact

(* A task that counts no unfinished child has nothing unfinished below it. *)
LEMMA NothingOpen ==
  ASSUME TreeInv, CountersInv, NEW t \in Created
  PROVE  not_finished_children[t] = 0 <=> \A d \in Below(t) : execution_finished[d]
<1>1. t \in Task /\ (not_finished_children[t] = 0 <=> Open(t) = {})
  BY CountedSets, FiniteTasks, FS_EmptySet
<1>2. Open(t) = {} <=> \A c \in children(t) : ~Unended(c)
  BY DEF Open
<1>3. ASSUME \A c \in children(t) : ~Unended(c), NEW d \in Below(t) PROVE execution_finished[d]
  <2>1. d \in Created /\ t \in above[d]
    BY DEF Below
  <2>2. PICK c \in children(t) : d \in Subtree(c)
    BY <2>1, <1>1, CountedSets, BelowFacts
  <2> QED BY <2>2, <1>3 DEF Unended
<1>4. ASSUME \A d \in Below(t) : execution_finished[d], NEW c \in children(t) PROVE ~Unended(c)
  <2>1. Subtree(c) \subseteq Below(t)
    BY CountedSets, BelowFacts
  <2> QED BY <2>1, <1>4 DEF Unended
<1> QED BY <1>1, <1>2, <1>3, <1>4

(* Whom the calls up the tree reach: the tasks above t of which t is the   *)
(* last unfinished task in the subtree of the child it is in.              *)
LEMMA ToldFacts ==
  ASSUME TreeInv, CountersInv, NEW t \in Created, ~execution_finished[t],
         NEW a \in above[t], NEW c \in children(a), t \in Subtree(c)
  PROVE  a \in Told(t) <=> \A d \in Subtree(c) \ {t} : execution_finished[d]
<1>0. /\ Created \subseteq Task
      /\ \A x \in Created : above[x] \subseteq Created /\ x \in Nat
      /\ \A x \in Created : x \notin above[x]
      /\ \A x, y, z \in Created : x \in above[y] /\ y \in above[z] => x \in above[z]
  <2>1. Created \subseteq Task /\ \A x \in Created : x \in Nat
    BY MaxTaskAssumption DEF Created, TreeInv
  <2>2. \A x \in Created : above[x] \subseteq Created
    <3> SUFFICES ASSUME NEW x \in Created, NEW u \in above[x] PROVE u \in Created
      OBVIOUS
    <3>1. u \in Task /\ u < x
      BY <2>1 DEF TreeInv
    <3> QED BY <3>1 DEF Created, TreeInv
  <2>3. \A x \in Created : x \notin above[x]
    BY <2>1 DEF TreeInv
  <2>4. \A x, y, z \in Created : x \in above[y] /\ y \in above[z] => x \in above[z]
    BY <2>1 DEF TreeInv
  <2> QED BY <2>1, <2>2, <2>3, <2>4
<1>1. /\ a \in Created /\ c \in Created /\ a \in above[c] /\ a < c
      /\ c = t \/ c \in above[t]
  BY <1>0, BelowFacts DEF Subtree, Below
<1>2. ASSUME \A d \in Subtree(c) \ {t} : execution_finished[d] PROVE a \in Told(t)
  <2>1. not_finished_children[t] = 0
    <3>1. ASSUME NEW d \in Below(t) PROVE execution_finished[d]
      <4>1. d \in Created /\ t \in above[d] /\ d # t
        BY <1>0 DEF Below
      <4>2. d \in Subtree(c)
        BY <1>0, <1>1, <4>1 DEF Subtree, Below
      <4> QED BY <4>1, <4>2, <1>2
    <3> QED BY <3>1, NothingOpen
  <2>2. ASSUME NEW x \in above[t], a \in above[x]
        PROVE  execution_finished[x] /\ not_finished_children[x] = 1
    <3>1. x \in Created /\ x # t
      BY <1>0
    <3>2. PICK e \in children(a) : x \in Subtree(e)
      BY <3>1, <1>0, <1>1, <2>2, BelowFacts
    <3>3. e \in Created /\ t \in Subtree(e)
      BY <3>1, <3>2, <1>0, <1>1, BelowFacts DEF Subtree, Below
    <3>4. e = c
      BY <3>3, <1>0, <1>1, BelowFacts
    <3>5. execution_finished[x]
      BY <3>1, <3>2, <3>4, <1>2
    <3>6. PICK y \in children(x) : t \in Subtree(y)
      BY <3>1, <1>0, BelowFacts
    <3>7. y \in Open(x)
      BY <3>6 DEF Open, Unended
    <3>8. ASSUME NEW z \in Open(x) PROVE z = y
      <4>1. z \in children(x)
        BY DEF Open
      <4>2. PICK d \in Subtree(z) : ~execution_finished[d]
        BY DEF Open, Unended
      <4>3. d \in Below(x)
        BY <4>1, <4>2, <3>1, <1>0, BelowFacts
      <4>4. d \in Subtree(c)
        BY <4>3, <3>1, <3>2, <3>4, <1>0, <1>1 DEF Subtree, Below
      <4>5. d = t
        BY <4>2, <4>4, <1>2
      <4> QED BY <4>1, <4>2, <4>5, <3>1, <3>6, <1>0, BelowFacts
    <3>9. Open(x) = {y}
      BY <3>7, <3>8
    <3> QED BY <3>1, <3>5, <3>9, CountedSets, FS_Singleton
  <2> QED BY <2>1, <2>2 DEF Told
<1>3. ASSUME a \in Told(t), NEW d \in Subtree(c), d # t, ~execution_finished[d] PROVE FALSE
  <2>1. /\ not_finished_children[t] = 0
        /\ \A x \in above[t] :
             a \in above[x] => execution_finished[x] /\ not_finished_children[x] = 1
    BY <1>3 DEF Told
  <2> DEFINE X == {x \in {t} \cup above[t] : d \in Subtree(x)}
  <2>2. X \in SUBSET Task /\ c \in X
    BY <1>0, <1>1, <1>3
  <2>3. PICK x \in X : \A y \in X : y <= x
    BY <2>2, Greatest
  <2>4. x \in Created /\ d \in Created /\ x # t
    <3>1. x \in Created /\ d \in Created
      BY <1>0, <1>1, <1>3 DEF Subtree, Below
    <3>2. d \notin Below(t)
      BY <1>3, <2>1, NothingOpen
    <3> QED BY <3>1, <3>2, <1>3 DEF Subtree
  <2>5. x \in above[t]
    BY <2>4
  <2>6. a \in above[x]
    <3>1. c <= x /\ c \in Nat /\ x \in Nat
      BY <1>0, <1>1, <2>2, <2>3, <2>4
    <3>2. CASE c = x
      BY <3>2, <1>1
    <3>3. CASE c < x
      <4>1. c \in above[t]
        <5>1. x < t /\ t \in Nat
          BY <1>0, <2>5 DEF TreeInv
        <5> QED BY <5>1, <3>3, <3>1, <1>1
      <4>2. c \in above[x]
        BY <4>1, <1>0, <2>5, <3>3 DEF TreeInv
      <4> QED BY <4>2, <1>0, <1>1, <2>4
    <3> QED BY <3>1, <3>2, <3>3
  <2>7. execution_finished[x] /\ not_finished_children[x] = 1
    BY <2>1, <2>5, <2>6
  <2>8. d \in Below(x) /\ x \in above[d]
    BY <1>3, <2>3, <2>7 DEF Subtree, Below
  <2>9. PICK y \in children(x) : t \in Subtree(y)
    BY <1>0, <2>4, <2>5, BelowFacts
  <2>10. PICK z \in children(x) : d \in Subtree(z)
    BY <1>0, <2>4, <2>8, BelowFacts
  <2>11. y \in Open(x) /\ z \in Open(x)
    BY <2>9, <2>10, <1>3 DEF Open, Unended
  <2>12. y = z
    <3>1. Cardinality(Open(x)) = 1 /\ IsFiniteSet(Open(x))
      BY <2>4, <2>7, CountedSets, FiniteTasks
    <3>2. \E s : Open(x) = {s}
      BY <3>1, FS_Singleton
    <3> QED BY <3>2, <2>11
  <2>13. y \in X /\ x < y /\ y \in Nat /\ x \in Nat
    <3>1. y \in Created /\ x < y
      BY <1>0, <2>4, BelowFacts
    <3>2. y = t \/ y \in above[t]
      BY <2>9 DEF Subtree, Below
    <3> QED BY <3>1, <3>2, <1>0, <2>4, <2>10, <2>12
  <2> QED BY <2>3, <2>13
<1> QED BY <1>2, <1>3

------------------------------------------------------------------------------
(* What the end of a task changes: the parent has one running child less,  *)
(* and whoever is told has one child less with something unfinished.       *)
LEMMA FinishSets ==
  ASSUME TreeInv, CountersInv, NEW t \in Created, ~execution_finished[t],
         handle_finish_task(t), NEW a \in Created
  PROVE  /\ execution_finished' = [execution_finished EXCEPT ![t] = TRUE]
         /\ children(a)' = children(a) /\ Below(a)' = Below(a)
         /\ Running(a)' = Running(a) \ {t}
         /\ t \in Running(a) <=> t # Root /\ a = parent(t)
         /\ a \in Told(t) => \E c \in Open(a) : Open(a)' = Open(a) \ {c}
         /\ a \notin Told(t) => Open(a)' = Open(a)
<1>0. /\ Created \subseteq Task /\ a \in Task /\ t \in Task
      /\ \A x \in Created : above[x] \subseteq Created
  <2>1. Created \subseteq Task /\ \A x \in Created : x \in Nat
    BY MaxTaskAssumption DEF Created, TreeInv
  <2> SUFFICES ASSUME NEW x \in Created, NEW u \in above[x] PROVE u \in Created
    BY <2>1
  <2>2. u \in Task /\ u < x
    BY <2>1 DEF TreeInv
  <2> QED BY <2>2 DEF Created, TreeInv
<1>1. /\ execution_finished' = [execution_finished EXCEPT ![t] = TRUE]
      /\ above' = above /\ Created' = Created
  BY DEF handle_finish_task, Created
<1>2. /\ execution_finished'[t]
      /\ \A d \in Task \ {t} : execution_finished'[d] = execution_finished[d]
  BY <1>0, <1>1 DEF CountersInv
<1>3. children(a)' = children(a) /\ Below(a)' = Below(a)
      /\ \A c : Subtree(c)' = Subtree(c)
  BY <1>1 DEF children, Below, Subtree, parent
<1>4. children(a) \subseteq Created /\ \A c \in children(a) : Subtree(c) \subseteq Created
  BY DEF children, Subtree, Below
<1>5. Running(a)' = Running(a) \ {t}
  BY <1>0, <1>2, <1>3, <1>4 DEF Running
<1>6. t \in Running(a) <=> t # Root /\ a = parent(t)
  BY DEF Running, children
<1>7. \A c \in children(a) : t \notin Subtree(c) => (Unended(c)' <=> Unended(c))
  BY <1>0, <1>2, <1>3, <1>4 DEF Unended
<1>8. CASE a \notin above[t]
  <2>1. a \notin Told(t)
    BY <1>8 DEF Told
  <2>2. \A c \in children(a) : t \notin Subtree(c)
    BY <1>0, <1>8, BelowFacts DEF Below
  <2>3. Open(a)' = Open(a)
    BY <1>3, <1>7, <2>2 DEF Open
  <2> QED BY <1>1, <1>3, <1>5, <1>6, <2>1, <2>3
<1>9. CASE a \in above[t]
  <2>1. PICK c \in children(a) : t \in Subtree(c)
    BY <1>0, <1>9, BelowFacts
  <2>2. \A e \in children(a) : e # c => (Unended(e)' <=> Unended(e))
    BY <1>0, <1>7, <2>1, BelowFacts
  <2>3. c \in Open(a)
    BY <2>1 DEF Open, Unended
  <2>4. a \in Told(t) <=> \A d \in Subtree(c) \ {t} : execution_finished[d]
    BY <1>9, <2>1, ToldFacts
  <2>5. Unended(c)' <=> a \notin Told(t)
    <3>1. Unended(c)' <=> \E d \in Subtree(c) : ~execution_finished'[d]
      BY <1>3 DEF Unended
    <3>2. Subtree(c) \subseteq Task
      BY <1>0, <1>4
    <3> QED BY <3>1, <3>2, <1>2, <2>4
  <2>6. a \in Told(t) => Open(a)' = Open(a) \ {c}
    BY <1>3, <2>2, <2>5 DEF Open
  <2>7. a \notin Told(t) => Open(a)' = Open(a)
    BY <1>3, <2>2, <2>3, <2>5 DEF Open
  <2> QED BY <1>1, <1>3, <1>5, <1>6, <2>3, <2>6, <2>7
<1> QED BY <1>8, <1>9

(* The calls up the tree keep the counters exact.                          *)
LEMMA FinishCounts ==
  ASSUME TreeInv, CountersInv, NEW t \in Created, ~execution_finished[t],
         handle_finish_task(t)
  PROVE  TreeInv' /\ CountersInv'
<1>0. Created \subseteq Task /\ t \in Task
  BY MaxTaskAssumption DEF Created, TreeInv
<1>1. TreeInv' /\ Created' = Created
  BY DEF handle_finish_task, TreeInv, Created
<1>2. /\ execution_finished' = [execution_finished EXCEPT ![t] = TRUE]
      /\ running_children' =
           [a \in Task |-> running_children[a] - (IF t # Root /\ a = parent(t) THEN 1 ELSE 0)]
      /\ not_finished_children' =
           [a \in Task |-> not_finished_children[a] - (IF a \in Told(t) THEN 1 ELSE 0)]
  BY DEF handle_finish_task
<1>3. ASSUME NEW a \in Created
      PROVE  /\ running_children'[a] = Cardinality(Running(a)')
             /\ not_finished_children'[a] = Cardinality(Open(a)')
             /\ running_children'[a] \in Nat /\ not_finished_children'[a] \in Nat
  <2>1. /\ a \in Task /\ Running(a) \subseteq Task /\ Open(a) \subseteq Task
        /\ running_children[a] = Cardinality(Running(a))
        /\ not_finished_children[a] = Cardinality(Open(a))
    BY CountedSets
  <2>2. /\ IsFiniteSet(Running(a)) /\ Cardinality(Running(a)) \in Nat
        /\ IsFiniteSet(Open(a)) /\ Cardinality(Open(a)) \in Nat
    BY <2>1, FiniteTasks
  <2>3. /\ Running(a)' = Running(a) \ {t}
        /\ t \in Running(a) <=> t # Root /\ a = parent(t)
        /\ a \in Told(t) => \E c \in Open(a) : Open(a)' = Open(a) \ {c}
        /\ a \notin Told(t) => Open(a)' = Open(a)
    BY FinishSets
  <2>4. Running(a)' \subseteq Task /\ Open(a)' \subseteq Task
    BY <2>1, <2>3
  <2>5. Cardinality(Running(a)') \in Nat /\ Cardinality(Open(a)') \in Nat
    BY <2>4, FiniteTasks
  <2>6. running_children'[a] = Cardinality(Running(a)')
    <3>1. Cardinality(Running(a)') =
            IF t \in Running(a) THEN Cardinality(Running(a)) - 1 ELSE Cardinality(Running(a))
      BY <2>2, <2>3, FS_RemoveElement
    <3> QED BY <3>1, <1>2, <2>1, <2>2, <2>3
  <2>7. not_finished_children'[a] = Cardinality(Open(a)')
    <3>1. CASE a \in Told(t)
      <4>1. PICK c \in Open(a) : Open(a)' = Open(a) \ {c}
        BY <2>3, <3>1
      <4>2. Cardinality(Open(a)') = Cardinality(Open(a)) - 1
        BY <4>1, <2>2, FS_RemoveElement
      <4> QED BY <4>2, <1>2, <2>1, <3>1
    <3>2. CASE a \notin Told(t)
      BY <3>2, <1>2, <2>1, <2>2, <2>3
    <3> QED BY <3>1, <3>2
  <2> QED BY <2>5, <2>6, <2>7
<1>4. ASSUME NEW a \in Task \ Created
      PROVE  ~execution_finished'[a] /\ running_children'[a] = 0 /\ not_finished_children'[a] = 0
  <2>1. a # parent(t) \/ t = Root
    BY ParentFacts
  <2>2. a \notin Told(t)
    <3>1. \A u \in above[t] : u \in Task /\ u < t
      BY <1>0 DEF TreeInv
    <3>2. \A u \in above[t] : u \in Created
      BY <3>1 DEF Created, TreeInv
    <3> QED BY <3>2 DEF Told
  <2> QED BY <1>0, <1>2, <2>1, <2>2 DEF CountersInv
<1>5. CountersExact'
  BY <1>1, <1>3 DEF CountersExact, Running, Open, Unended
<1>6. running_children' \in [Task -> Nat] /\ not_finished_children' \in [Task -> Nat]
  <2>1. \A a \in Task : running_children'[a] \in Nat /\ not_finished_children'[a] \in Nat
    BY <1>3, <1>4
  <2> QED BY <1>2, <2>1
<1>7. execution_finished' \in [Task -> BOOLEAN]
  BY <1>0, <1>2 DEF CountersInv
<1> QED BY <1>1, <1>4, <1>5, <1>6, <1>7 DEF CountersInv

------------------------------------------------------------------------------
(* A new task is a leaf of the tree, below its parent and what that is     *)
(* below.                                                                  *)
LEMMA CreateTree ==
  ASSUME TreeInv, NEW p \in Created, NEW c \in Task, c = id_counter, handle_create_task(p)
  PROVE  /\ TreeInv'
         /\ c \notin Created /\ c # Root
         /\ Created' = Created \cup {c}
         /\ above'[c] = above[p] \cup {p}
         /\ \A t \in Task : t # c => above'[t] = above[t]
         /\ \A x \in Created : parent(x)' = parent(x)
         /\ parent(c)' = p
<1>0. /\ c \in Task \ Created /\ c # Root /\ c \in Nat /\ Created \subseteq Task /\ p \in Task
      /\ MaxTask \in Nat /\ \A x \in Task : x \in Nat
      /\ \A x \in Created : x < c
  BY MaxTaskAssumption DEF Created, TreeInv
<1>1. id_counter' = c + 1 /\ above' = [above EXCEPT ![c] = above[p] \cup {p}]
  BY DEF handle_create_task
<1>2. Created' = Created \cup {c}
  BY <1>0, <1>1 DEF Created, TreeInv
<1>3. /\ above'[c] = above[p] \cup {p}
      /\ \A t \in Task : t # c => above'[t] = above[t]
      /\ above[p] \subseteq Task
  BY <1>0, <1>1 DEF TreeInv
<1>4. above' \in [Task -> SUBSET Task] /\ id_counter' \in 1 .. MaxTask + 1
  BY <1>0, <1>1, <1>3 DEF TreeInv
<1>5. \A t \in Task : \A u \in above[t] : u \in Task /\ u < t /\ u # c
  <2> SUFFICES ASSUME NEW t \in Task, NEW u \in above[t] PROVE u \in Task /\ u < t /\ u # c
    OBVIOUS
  <2>1. u \in Task /\ u < t
    BY DEF TreeInv
  <2>2. t \in Created
    BY DEF TreeInv
  <2> QED BY <2>1, <2>2, <1>0
<1>6. ASSUME NEW t \in Task
      PROVE  /\ t = Root \/ t \notin Created' => above'[t] = {}
             /\ t # Root /\ t \in Created' => Root \in above'[t]
             /\ \A u \in above'[t] : u < t /\ above'[u] \subseteq above'[t]
             /\ \A u, v \in above'[t] : u < v => u \in above'[v]
  <2>1. CASE t # c
    <3>1. above'[t] = above[t] /\ \A u \in above[t] : above'[u] = above[u]
      BY <2>1, <1>3, <1>5
    <3> QED BY <3>1, <2>1, <1>2 DEF TreeInv
  <2>2. CASE t = c
    <3>1. /\ Root \in above'[c]
      BY <1>0, <1>3 DEF TreeInv
    <3>2. \A u \in above'[c] : above'[u] = above[u] /\ u \in Task
      BY <1>0, <1>3, <1>5
    <3>3. \A u \in above'[c] : u < c
      <4> SUFFICES ASSUME NEW u \in above'[c] PROVE u < c
        OBVIOUS
      <4>1. u = p \/ (u \in Task /\ u < p)
        BY <1>0, <1>3, <1>5
      <4>2. p < c /\ p \in Nat /\ u \in Nat
        BY <1>0, <3>2
      <4> QED BY <4>1, <4>2, <1>0
    <3>4. \A u \in above'[c] : above'[u] \subseteq above'[c]
      BY <1>0, <1>3, <3>2 DEF TreeInv
    <3>5. \A u, v \in above'[c] : u < v => u \in above'[v]
      <4> SUFFICES ASSUME NEW u \in above'[c], NEW v \in above'[c], u < v PROVE u \in above[v]
        BY <3>2
      <4>1. CASE v = p
        BY <4>1, <1>0, <1>3
      <4>2. CASE v # p
        <5>1. v \in above[p] /\ v < p /\ u # p
          BY <4>2, <1>0, <1>3, <1>5, <3>2
        <5> QED BY <5>1, <1>0, <1>3 DEF TreeInv
      <4> QED BY <4>1, <4>2
    <3> QED BY <2>2, <1>0, <3>1, <3>3, <3>4, <3>5, <1>2
  <2> QED BY <2>1, <2>2
<1>7. TreeInv'
  BY <1>4, <1>6 DEF TreeInv
<1>8. \A x \in Created : parent(x)' = parent(x)
  BY <1>0, <1>3 DEF parent
<1>9. parent(c)' = p
  <2>1. \A q \in above'[c] : q <= p
    <3> SUFFICES ASSUME NEW q \in above'[c] PROVE q <= p
      OBVIOUS
    <3>1. q = p \/ (q \in Task /\ q < p)
      BY <1>0, <1>3, <1>5
    <3> QED BY <3>1, <1>0
  <2>2. p \in above'[c]
    BY <1>3
  <2>3. \A q \in above'[c] : q \in Nat
    BY <1>0, <1>3
  <2>4. \A r \in above'[c] : (\A q \in above'[c] : q <= r) => r = p
    BY <2>1, <2>2, <2>3
  <2>5. parent(c)' = CHOOSE r \in above'[c] : \A q \in above'[c] : q <= r
    BY DEF parent
  <2> QED BY <2>1, <2>2, <2>4, <2>5
<1> QED BY <1>0, <1>2, <1>3, <1>7, <1>8, <1>9

(* ... and counted by its parent, and by its parent only.                  *)
LEMMA CreateCounts ==
  ASSUME TreeInv, CountersInv, NEW p \in Created, ~execution_finished[p],
         NEW c \in Task, c = id_counter, handle_create_task(p)
  PROVE  /\ CountersInv'
         /\ \A a \in Created : a # p => children(a)' = children(a)
         /\ children(p)' = children(p) \cup {c}
         /\ children(c)' = {}
<1>0. /\ Created \subseteq Task /\ p \in Task /\ \A x \in Created : x < c /\ x \in Nat
      /\ c \in Nat
  BY MaxTaskAssumption DEF Created, TreeInv
<1>1. /\ TreeInv'
      /\ c \in Task \ Created /\ c # Root
      /\ Created' = Created \cup {c}
      /\ above'[c] = above[p] \cup {p}
      /\ \A t \in Task : t # c => above'[t] = above[t]
      /\ \A x \in Created : parent(x)' = parent(x)
      /\ parent(c)' = p
  BY CreateTree
<1>2. /\ execution_finished' = execution_finished
      /\ running_children' = [running_children EXCEPT ![p] = running_children[p] + 1]
      /\ not_finished_children' =
           [not_finished_children EXCEPT ![p] = not_finished_children[p] + 1]
  BY DEF handle_create_task
<1>3. /\ \A a \in Created : a # p => children(a)' = children(a)
      /\ children(p)' = children(p) \cup {c}
      /\ children(c)' = {}
  <2>1. \A a : children(a)' = {x \in Created' \ {Root} : parent(x)' = a}
    BY DEF children
  <2>2. \A x \in Created : parent(x) # c \/ x = Root
    BY <1>1, ParentFacts
  <2> QED BY <1>1, <2>1, <2>2 DEF children
<1>4. ASSUME NEW a \in Task, a # c
      PROVE  Below(a)' = Below(a) \cup (IF a \in above[p] \cup {p} THEN {c} ELSE {})
  <2>1. Below(a)' = {x \in Created' : a \in above'[x]}
    BY DEF Below
  <2>2. \A x \in Created : above'[x] = above[x]
    BY <1>0, <1>1
  <2> QED BY <1>1, <2>1, <2>2 DEF Below
<1>5. ~execution_finished[c] /\ running_children[c] = 0 /\ not_finished_children[c] = 0
  BY <1>1 DEF CountersInv
<1>6. ASSUME NEW e \in Created PROVE Unended(e)' <=> Unended(e)
  <2>1. e # c /\ e \in Task
    BY <1>0, <1>1
  <2>2. Unended(e)' <=> \E d \in Subtree(e)' : ~execution_finished[d]
    BY <1>2 DEF Unended
  <2>3. Subtree(e)' = Subtree(e) \cup (IF e \in above[p] \cup {p} THEN {c} ELSE {})
    BY <2>1, <1>4 DEF Subtree
  <2>4. e \in above[p] \cup {p} => p \in Subtree(e)
    BY DEF Subtree, Below
  <2> QED BY <2>2, <2>3, <2>4 DEF Unended
<1>7. Unended(c)'
  <2>1. c \in Subtree(c)' /\ ~execution_finished'[c]
    BY <1>2, <1>5 DEF Subtree
  <2> QED BY <2>1 DEF Unended
<1>8. ASSUME NEW a \in Created, a # p
      PROVE  Running(a)' = Running(a) /\ Open(a)' = Open(a)
  <2>1. children(a)' = children(a) /\ children(a) \subseteq Created
    BY <1>3, <1>8 DEF children
  <2> QED BY <2>1, <1>2, <1>6 DEF Running, Open
<1>9. Running(p)' = Running(p) \cup {c} /\ Open(p)' = Open(p) \cup {c}
  <2>1. children(p)' = children(p) \cup {c} /\ children(p) \subseteq Created
    BY <1>3 DEF children
  <2> QED BY <2>1, <1>2, <1>5, <1>6, <1>7 DEF Running, Open
<1>10. Running(c)' = {} /\ Open(c)' = {}
  BY <1>3 DEF Running, Open
<1>11. \A a \in Created :
         /\ Running(a) \subseteq Task /\ Open(a) \subseteq Task
         /\ running_children[a] = Cardinality(Running(a))
         /\ not_finished_children[a] = Cardinality(Open(a))
  BY CountedSets
<1>12. ASSUME NEW a \in Created'
       PROVE  /\ running_children'[a] = Cardinality(Running(a)')
              /\ not_finished_children'[a] = Cardinality(Open(a)')
  <2>1. CASE a = c
    BY <2>1, <1>0, <1>1, <1>2, <1>5, <1>10, FS_EmptySet DEF CountersInv
  <2>2. CASE a = p
    <3>1. IsFiniteSet(Running(p)) /\ IsFiniteSet(Open(p))
      BY <1>11, FiniteTasks
    <3>2. c \notin Running(p) /\ c \notin Open(p)
      BY <1>1 DEF Running, Open, children
    <3>3. /\ Cardinality(Running(p)') = Cardinality(Running(p)) + 1
          /\ Cardinality(Open(p)') = Cardinality(Open(p)) + 1
      BY <3>1, <3>2, <1>9, FS_AddElement
    <3>4. /\ running_children'[p] = running_children[p] + 1
          /\ not_finished_children'[p] = not_finished_children[p] + 1
      BY <1>0, <1>2 DEF CountersInv
    <3> QED BY <2>2, <3>3, <3>4, <1>11
  <2>3. CASE a # c /\ a # p
    <3>1. a \in Created
      BY <2>3, <1>1
    <3>2. running_children'[a] = running_children[a]
          /\ not_finished_children'[a] = not_finished_children[a]
      BY <2>3, <3>1, <1>0, <1>2 DEF CountersInv
    <3> QED BY <2>3, <3>1, <3>2, <1>8, <1>11
  <2> QED BY <2>1, <2>2, <2>3
<1>13. CountersExact'
  BY <1>12 DEF CountersExact, Running, Open, Unended
<1>14. running_children' \in [Task -> Nat] /\ not_finished_children' \in [Task -> Nat]
  BY <1>0, <1>2 DEF CountersInv
<1>15. \A t \in Task \ Created' :
         ~execution_finished'[t] /\ running_children'[t] = 0 /\ not_finished_children'[t] = 0
  BY <1>0, <1>1, <1>2 DEF CountersInv
<1> QED BY <1>2, <1>3, <1>13, <1>14, <1>15 DEF CountersInv

------------------------------------------------------------------------------
(* Who is woken has waited long enough: its children have ended, and for   *)
(* an allwait everything below it.                                         *)
LEMMA WokenFacts ==
  ASSUME TreeInv, CountersInv, NEW t \in Created, ~execution_finished[t],
         handle_finish_task(t), NEW a \in Woken(t)
  PROVE  /\ a \in Created /\ children(a)' = children(a) /\ Below(a)' = Below(a)
         /\ \A c \in children(a) : execution_finished'[c]
         /\ waiting[a] = "all" => \A d \in Below(a) : execution_finished'[d]
<1>0. /\ a \in above[t] /\ a \in Created /\ a \in Task /\ t # Root
  <2>1. a \in above[t] /\ t \in Task /\ \A u \in Created : u \in Nat
    BY MaxTaskAssumption DEF Woken, Created, TreeInv
  <2>2. a \in Task /\ a < t /\ t # Root
    BY <2>1 DEF TreeInv
  <2>3. a \in Nat /\ t \in Nat /\ a <= id_counter - 1
    BY <2>1, <2>2 DEF Created, TreeInv
  <2> QED BY <2>1, <2>2, <2>3 DEF Created, TreeInv
<1>1. /\ children(a)' = children(a) /\ Below(a)' = Below(a)
      /\ Running(a)' = Running(a) \ {t}
      /\ t \in Running(a) <=> t # Root /\ a = parent(t)
      /\ a \in Told(t) => \E c \in Open(a) : Open(a)' = Open(a) \ {c}
  BY <1>0, FinishSets
<1>2. /\ IsFiniteSet(Running(a)) /\ IsFiniteSet(Open(a))
      /\ running_children[a] = Cardinality(Running(a))
      /\ not_finished_children[a] = Cardinality(Open(a))
  BY <1>0, CountedSets, FiniteTasks
<1>3. CASE a = parent(t) /\ waiting[a] = "task" /\ running_children[a] = 1
  <2>1. \E s : Running(a) = {s}
    BY <1>2, <1>3, FS_Singleton
  <2>2. Running(a)' = {}
    BY <2>1, <1>0, <1>1, <1>3
  <2>3. \A c \in children(a) : execution_finished'[c]
    BY <2>2, <1>1 DEF Running
  <2> QED BY <2>3, <1>0, <1>1, <1>3
<1>4. CASE a \in Told(t) /\ waiting[a] = "all" /\ not_finished_children[a] = 1
  <2>1. \E s : Open(a) = {s}
    BY <1>2, <1>4, FS_Singleton
  <2>2. Open(a)' = {}
    BY <2>1, <1>1, <1>4
  <2>3. \A c \in children(a) : ~Unended(c)'
    BY <2>2, <1>1 DEF Open
  <2>4. \A c \in children(a) : \A d \in Subtree(c)' : execution_finished'[d]
    BY <2>3 DEF Unended
  <2>5. \A c : Subtree(c)' = Subtree(c)
    BY DEF handle_finish_task, Subtree, Below, Created
  <2>6. \A c \in children(a) : execution_finished'[c]
    BY <2>4, <2>5 DEF Subtree
  <2>7. \A d \in Below(a) : execution_finished'[d]
    BY <2>4, <2>5, <1>0, BelowFacts DEF Below
  <2> QED BY <2>6, <2>7, <1>0, <1>1
<1> QED BY <1>3, <1>4 DEF Woken

(* When the runtime process finds the root task complete, every task has   *)
(* ended.                                                                  *)
LEMMA CompletionFacts ==
  ASSUME TreeInv, CountersInv, check_completion
  PROVE  \A t \in Created : execution_finished[t]
<1>1. Root \in Created /\ Created \subseteq Task
  BY MaxTaskAssumption DEF Created, TreeInv
<1>2. \A d \in Below(Root) : execution_finished[d]
  BY <1>1, NothingOpen DEF check_completion
<1>3. \A t \in Created : t = Root \/ t \in Below(Root)
  BY <1>1 DEF TreeInv, Below
<1> QED BY <1>2, <1>3 DEF check_completion

(* The tree and its counters at the start.                                 *)
LEMMA TreeStart ==
  ASSUME WaitTreeInit
  PROVE  TreeInv /\ CountersInv
<1>1. id_counter = 1 /\ Created = {Root} /\ MaxTask \in Nat
  BY MaxTaskAssumption DEF WaitTreeInit, Created
<1>2. TreeInv
  BY <1>1 DEF WaitTreeInit, TreeInv
<1>3. \A t \in Created : children(t) = {}
  BY <1>1 DEF children
<1>4. CountersExact
  <2> SUFFICES ASSUME NEW t \in Created
               PROVE  /\ running_children[t] = Cardinality({c \in children(t) : ~execution_finished[c]})
                      /\ not_finished_children[t] =
                           Cardinality({c \in children(t) : \E d \in Subtree(c) : ~execution_finished[d]})
    BY DEF CountersExact
  <2>1. t \in Task /\ children(t) = {}
    BY <1>1, <1>3
  <2> QED BY <2>1, FS_EmptySet DEF WaitTreeInit
<1>5. CountersInv
  BY <1>4 DEF CountersInv, WaitTreeInit
<1> QED BY <1>2, <1>5
===============================================================================
