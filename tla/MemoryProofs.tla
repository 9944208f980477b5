----------------------------- MODULE MemoryProofs -----------------------------
(***************************************************************************)
(* MemoryInv is an inductive invariant of Memory: no write-back loses or   *)
(* undoes an assignment, for any number of tasks, however they are nested  *)
(* and wherever they run.                                                  *)
(*                                                                         *)
(* Changes of an element travel up: from the copy its task works on to the *)
(* copy that one was made from, and so on.  The argument is about the line *)
(* of a task: itself, the task that created it, and so on up to Root.      *)
(***************************************************************************)
EXTENDS Memory, TLAPS

USE DEF Root, Task

(* u is in every set with t that contains the parents of its members.      *)
LineOf(up, t) ==
  {u \in Task : \A S \in SUBSET Task : t \in S /\ (\A x \in S : up[x] \in S) => u \in S}

Line(t) == LineOf(parent, t)

Begun(t) == stage[t] \in {"running", "sent", "done"}

(* u has a copy of its own and has not yet given its changes back.         *)
Unreturned(u) == place[u] = u /\ stage[u] \in {"running", "sent"}

(* Ids are given in order, to children of tasks that are running, and a    *)
(* task's copy of the loop variable selects its own element.               *)
TreeInv ==
  /\ stage[Root] = "running" /\ parent[Root] = Root /\ place[Root] = Root
  /\ \A t, u \in Task : stage[t] = "new" /\ t <= u => stage[u] = "new"
  /\ \A t \in Element :
       /\ parent[t] < t /\ Begun(parent[t])
       /\ stage[t] = "new" => parent[t] = Root
       /\ stage[t] # "new" => selected[t] = t

(* A task works on a copy of its own or on that of its parent, and only    *)
(* its own copy is written back; what is in time is done.                  *)
PlaceInv ==
  /\ \A t \in Element :
       /\ ~Begun(t) => place[t] = Root /\ written[t] = Nothing
       /\ stage[t] = "sent" => place[t] = t
  /\ \A t \in Task :
       Begun(t) => /\ place[t] \in {t, home(t)} \cap Line(t)
                   /\ Begun(place[t]) /\ place[place[t]] = place[t]
  /\ \A t \in in_time : t \in Element /\ stage[t] = "done"

(* The copy a task works on is the first one up its line.                  *)
NearestInv ==
  \A t \in Task : \A u \in Line(t) \ {Root} :
    Begun(t) /\ place[u] = u => u \in Line(place[t])

(* An element nobody has assigned to is zero and unchanged everywhere.     *)
UntouchedInv ==
  \A t \in Element : written[t] = Nothing =>
    \A u \in Task : memory[u][t] = 0 /\ backup[u][t] = 0 /\ t \notin DOMAIN changes[u]

(* A task's copy was made before it or what it creates assigned anything,  *)
(* and nothing else changes in the copy.                                   *)
CopyInv ==
  \A t, u \in Element :
    /\ place[u] = u =>
         /\ u \in Line(t) => backup[u][t] = 0
         /\ memory[u][t] # backup[u][t] => u \in Line(t)
    /\ t \in DOMAIN changes[u] => u \in Line(t)

(* What a task and those it creates assign is seen by no one else until    *)
(* the task writes back.                                                   *)
UnseenInv ==
  \A t, u \in Element : u \in Line(t) /\ Unreturned(u) =>
    \A w \in Task : u \notin Line(w) =>
      memory[w][t] = 0 /\ backup[w][t] = 0 /\ t \notin DOMAIN changes[w]

(* While a task runs, its result is where it works.                        *)
OwnInv ==
  \A t \in Element : stage[t] = "running" /\ written[t] # Nothing =>
    memory[place[t]][t] = written[t]

(* What a task sends has its result and those of its children in time; a   *)
(* zero needs no sending.                                                  *)
CarriedInv ==
  \A t, u \in Element :
    /\ stage[u] = "sent" /\ written[t] # Nothing
    /\ t = u \/ (t \in in_time /\ parent[t] = u)
    => IF t \in DOMAIN changes[u] THEN changes[u][t] = written[t] ELSE written[t] = 0

MemoryInv ==
  /\ MemoryTypeOK
  /\ TreeInv
  /\ PlaceInv
  /\ NearestInv
  /\ UntouchedInv
  /\ CopyInv
  /\ UnseenInv
  /\ OwnInv
  /\ CarriedInv
  /\ ResultAtOrigin
  /\ ResultHandedOn

------------------------------------------------------------------------------
(* A task is on its own line, and the rest of it is its parent's.          *)
LEMMA LineStep ==
  ASSUME NEW up \in [Task -> Task], NEW t \in Task
  PROVE  LineOf(up, t) = {t} \cup LineOf(up, up[t])
<1> DEFINE Closed(S) == \A x \in S : up[x] \in S
<1>1. t \in LineOf(up, t)
  BY DEF LineOf
<1>2. ASSUME NEW u \in LineOf(up, up[t])  PROVE u \in LineOf(up, t)
  <2>1. u \in Task
    BY <1>2 DEF LineOf
  <2>2. ASSUME NEW S \in SUBSET Task, t \in S, Closed(S)  PROVE u \in S
    BY <1>2, <2>2 DEF LineOf
  <2> QED BY <2>1, <2>2 DEF LineOf
<1>3. ASSUME NEW u \in LineOf(up, t), u # t  PROVE u \in LineOf(up, up[t])
  <2>1. u \in Task
    BY <1>3 DEF LineOf
  <2>2. ASSUME NEW S \in SUBSET Task, up[t] \in S, Closed(S)  PROVE u \in S
    <3>1. /\ S \cup {t} \in SUBSET Task
          /\ t \in S \cup {t}
          /\ Closed(S \cup {t})
      BY <2>2
    <3>2. u \in S \cup {t}
      BY <1>3, <3>1 DEF LineOf
    <3> QED BY <1>3, <3>2
  <2> QED BY <2>1, <2>2 DEF LineOf
<1> QED BY <1>1, <1>2, <1>3

(* The line of a task on the line of another is part of it.                *)
LEMMA LineOfLine ==
  ASSUME NEW up \in [Task -> Task], NEW t \in Task, NEW u \in LineOf(up, t)
  PROVE  LineOf(up, u) \subseteq LineOf(up, t) /\ u \in Task
<1> DEFINE Closed(S) == \A x \in S : up[x] \in S
<1>1. u \in Task
  BY DEF LineOf
<1>2. ASSUME NEW w \in LineOf(up, u)  PROVE w \in LineOf(up, t)
  <2>1. w \in Task
    BY <1>2 DEF LineOf
  <2>2. ASSUME NEW S \in SUBSET Task, t \in S, Closed(S)  PROVE w \in S
    <3>1. u \in S
      BY <2>2 DEF LineOf
    <3> QED BY <1>2, <2>2, <3>1 DEF LineOf
  <2> QED BY <2>1, <2>2 DEF LineOf
<1> QED BY <1>1, <1>2

(* Where parents have smaller ids, so has everyone on a task's line.       *)
LEMMA LineOlder ==
  ASSUME NEW up \in [Task -> Task], \A x \in Task : up[x] <= x,
         NEW t \in Task, NEW u \in LineOf(up, t)
  PROVE  u <= t
<1>1. 0 .. t \in SUBSET Task /\ t \in 0 .. t
  BY MaxTaskAssumption
<1>2. \A x \in 0 .. t : up[x] \in 0 .. t
  BY MaxTaskAssumption
<1>3. u \in 0 .. t
  BY <1>1, <1>2 DEF LineOf
<1> QED BY <1>3

(* Who is nobody's parent is on no line but its own.                       *)
LEMMA LineChildless ==
  ASSUME NEW up \in [Task -> Task], NEW u \in Task, \A x \in Task : up[x] # u,
         NEW t \in Task, u \in LineOf(up, t)
  PROVE  u = t
<1> SUFFICES ASSUME u # t  PROVE FALSE
  OBVIOUS
<1>1. /\ Task \ {u} \in SUBSET Task
      /\ t \in Task \ {u}
      /\ \A x \in Task \ {u} : up[x] \in Task \ {u}
  OBVIOUS
<1> QED BY <1>1 DEF LineOf

(* A new parent of a task without children changes no line but its own.    *)
LEMMA LineCreate ==
  ASSUME NEW up \in [Task -> Task], NEW t \in Task, \A x \in Task : up[x] # t,
         NEW p \in Task, p # t,
         NEW x \in Task, x # t
  PROVE  LineOf([up EXCEPT ![t] = p], x) = LineOf(up, x)
<1> DEFINE new == [up EXCEPT ![t] = p]
<1>1. /\ new \in [Task -> Task]
      /\ \A y \in Task : new[y] # t
      /\ \A y \in Task : new[y] = IF y = t THEN p ELSE up[y]
  OBVIOUS
<1> HIDE DEF new
<1>2. ASSUME NEW f \in [Task -> Task], NEW g \in [Task -> Task],
             \A y \in Task : f[y] # t,
             \A y \in Task : y # t => f[y] = g[y],
             NEW u \in LineOf(g, x)
      PROVE  u \in LineOf(f, x)
  <2>1. u \in Task
    BY DEF LineOf
  <2>2. ASSUME NEW S \in SUBSET Task, x \in S, \A y \in S : f[y] \in S
        PROVE  u \in S
    <3>1. /\ S \ {t} \in SUBSET Task
          /\ x \in S \ {t}
          /\ \A y \in S \ {t} : g[y] \in S \ {t}
      BY <1>2, <2>2
    <3>2. u \in S \ {t}
      BY <1>2, <3>1 DEF LineOf
    <3> QED BY <3>2
  <2> QED BY <2>1, <2>2 DEF LineOf
<1>3. LineOf(new, x) \subseteq LineOf(up, x)
  BY <1>1, <1>2
<1>4. LineOf(up, x) \subseteq LineOf(new, x)
  BY <1>1, <1>2
<1> QED BY <1>3, <1>4 DEF new

------------------------------------------------------------------------------
(* The types, one fact per variable, for the steps below to cite.          *)
LEMMA TypeFacts ==
  ASSUME MemoryTypeOK
  PROVE  /\ stage \in [Task -> Stage]
         /\ parent \in [Task -> Task]
         /\ selected \in [Task -> Task]
         /\ place \in [Task -> Task]
         /\ memory \in [Task -> [Element -> Value]]
         /\ backup \in [Task -> [Element -> Value]]
         /\ changes \in [Task -> Changes]
         /\ written \in [Task -> Value \cup {Nothing}]
         /\ in_time \subseteq Task
         /\ Element \subseteq Task /\ Root \in Task /\ Root \notin Element
         /\ Task = Element \cup {Root}
         /\ Task \subseteq Nat
<1>1. /\ Element \subseteq Task /\ Root \in Task /\ Root \notin Element
      /\ Task = Element \cup {Root}
      /\ Task \subseteq Nat
  BY MaxTaskAssumption DEF Element
<1> QED BY <1>1 DEF MemoryTypeOK, Contents

(* What the line of a task is, in the states of the program.               *)
LEMMA LineFacts ==
  ASSUME MemoryTypeOK, TreeInv, PlaceInv
  PROVE  /\ \A t \in Task : Line(t) = {t} \cup Line(parent[t])
         /\ \A t \in Task : \A u \in Line(t) : u \in Task /\ Line(u) \subseteq Line(t)
         /\ \A t \in Task : \A u \in Line(t) : u <= t
         /\ \A u, t \in Task : u \in Line(t) /\ ~Begun(u) => u = t
         /\ \A t \in Element : home(t) \in Line(parent[t]) /\ home(t) < t /\ home(t) \in Task
         /\ \A t \in Element : t \notin Line(home(t)) /\ t \notin Line(parent[t])
<1>0. /\ parent \in [Task -> Task] /\ place \in [Task -> Task]
      /\ Element \subseteq Task /\ Task = Element \cup {Root} /\ Task \subseteq Nat
  BY TypeFacts
<1>1. \A t \in Task : Line(t) = {t} \cup Line(parent[t])
  BY <1>0, LineStep DEF Line
<1>2. \A t \in Task : \A u \in Line(t) : u \in Task /\ Line(u) \subseteq Line(t)
  BY <1>0, LineOfLine DEF Line
<1>3. \A t \in Task : \A u \in Line(t) : u <= t
  <2>1. \A x \in Task : parent[x] <= x
    <3>1. parent[Root] <= Root
      BY DEF TreeInv
    <3>2. \A x \in Element : parent[x] <= x
      BY <1>0 DEF TreeInv
    <3> QED BY <1>0, <3>1, <3>2
  <2> QED BY <1>0, <2>1, LineOlder DEF Line
<1>4. \A u, t \in Task : u \in Line(t) /\ ~Begun(u) => u = t
  <2>1. \A x \in Task : Begun(parent[x])
    BY <1>0 DEF TreeInv, Begun
  <2>2. ASSUME NEW u \in Task, NEW t \in Task, u \in Line(t), ~Begun(u)  PROVE u = t
    <3>1. \A x \in Task : parent[x] # u
      BY <2>1, <2>2
    <3> QED BY <1>0, <2>2, <3>1, LineChildless DEF Line
  <2> QED BY <2>2
<1>5. ASSUME NEW t \in Element
      PROVE  /\ home(t) \in Line(parent[t]) /\ home(t) < t /\ home(t) \in Task
             /\ t \notin Line(home(t)) /\ t \notin Line(parent[t])
  <2>1. parent[t] \in Task /\ parent[t] < t /\ Begun(parent[t])
    BY <1>0 DEF TreeInv
  <2>2. home(t) \in Line(parent[t])
    BY <2>1 DEF PlaceInv, home
  <2>3. home(t) \in Task /\ home(t) <= parent[t]
    BY <1>0, <1>2, <1>3, <2>1, <2>2
  <2>4. t \notin Line(parent[t])
    BY <1>0, <1>3, <2>1
  <2> QED BY <1>0, <1>2, <2>1, <2>2, <2>3, <2>4
<1> QED BY <1>1, <1>2, <1>3, <1>4, <1>5

------------------------------------------------------------------------------
(* A new task is nobody's parent yet, and only its own line changes.       *)
LEMMA CreateEffect ==
  ASSUME MemoryTypeOK, TreeInv, PlaceInv,
         NEW p \in Task, NEW t \in Task, handle_create_task(p, t)
  PROVE  /\ t \in Element /\ p < t /\ stage[p] = "running" /\ stage[t] = "new"
         /\ \A x \in Task : parent[x] # t /\ (Begun(x) => x # t)
         /\ \A x \in Task : stage'[x] = IF x = t THEN "created" ELSE stage[x]
         /\ \A x \in Task : parent'[x] = IF x = t THEN p ELSE parent[x]
         /\ \A x \in Task : selected'[x] = IF x = t THEN t ELSE selected[x]
         /\ UNCHANGED <<place, memory, backup, changes, written, in_time>>
         /\ \A x \in Task : x # t => Line(x)' = Line(x)
         /\ Line(t)' = {t} \cup Line(p)
         /\ Line(t) = {t, Root}
         /\ written[t] = Nothing
<1>0. /\ stage \in [Task -> Stage] /\ parent \in [Task -> Task]
      /\ selected \in [Task -> Task] /\ Task = Element \cup {Root} /\ Task \subseteq Nat
      /\ Root \notin Element
  BY TypeFacts
<1>1. /\ stage[p] = "running" /\ stage[t] = "new"
      /\ stage' = [stage EXCEPT ![t] = "created"]
      /\ parent' = [parent EXCEPT ![t] = p]
      /\ selected' = [selected EXCEPT ![t] = t]
      /\ UNCHANGED <<place, memory, backup, changes, written, in_time>>
  BY DEF handle_create_task
<1>2. t \in Element
  BY <1>0, <1>1 DEF TreeInv
<1>3. p < t
  <2>1. ~(t <= p)
    BY <1>1 DEF TreeInv
  <2> QED BY <1>0, <2>1
<1>4. \A x \in Task : parent[x] # t /\ (Begun(x) => x # t)
  <2>1. \A x \in Task : Begun(parent[x])
    BY <1>0 DEF TreeInv, Begun
  <2>2. ~Begun(t)
    BY <1>1 DEF Begun
  <2> QED BY <2>1, <2>2
<1>5. \A x \in Task : x # t => Line(x)' = Line(x)
  <2>1. p # t /\ \A x \in Task : parent[x] # t
    BY <1>0, <1>3, <1>4
  <2>2. \A x \in Task : x # t => LineOf([parent EXCEPT ![t] = p], x) = LineOf(parent, x)
    BY <1>0, <2>1, LineCreate
  <2> QED BY <1>1, <2>2 DEF Line
<1>6. Line(t)' = {t} \cup Line(p)
  <2>1. parent' \in [Task -> Task] /\ parent'[t] = p
    BY <1>0, <1>1
  <2>2. Line(t)' = {t} \cup LineOf(parent', p)
    BY <2>1, LineStep DEF Line
  <2>3. LineOf(parent', p) = Line(p)
    BY <1>0, <1>3, <1>5 DEF Line
  <2> QED BY <2>2, <2>3
<1>7. Line(t) = {t, Root}
  <2>1. parent[t] = Root
    BY <1>1, <1>2 DEF TreeInv
  <2>2. Line(t) = {t} \cup Line(Root)
    BY <2>1, LineFacts
  <2>3. Root \in Line(Root) /\ \A u \in Line(Root) : u \in Task /\ u <= Root
    BY <1>0, LineFacts
  <2>4. Line(Root) = {Root}
    BY <1>0, <2>3
  <2> QED BY <2>2, <2>4
<1>8. written[t] = Nothing
  BY <1>1, <1>2 DEF PlaceInv, Begun
<1>9. /\ \A x \in Task : stage'[x] = IF x = t THEN "created" ELSE stage[x]
      /\ \A x \in Task : parent'[x] = IF x = t THEN p ELSE parent[x]
      /\ \A x \in Task : selected'[x] = IF x = t THEN t ELSE selected[x]
  BY <1>0, <1>1
<1> QED BY <1>1, <1>2, <1>3, <1>4, <1>5, <1>6, <1>7, <1>8, <1>9

(* The creation of a task keeps the invariant.                             *)
LEMMA CreateKeeps ==
  ASSUME MemoryInv, NEW p \in Task, NEW t \in Task, handle_create_task(p, t)
  PROVE  MemoryInv'
<1>0. /\ stage \in [Task -> Stage] /\ parent \in [Task -> Task]
      /\ place \in [Task -> Task] /\ in_time \subseteq Task
      /\ Task = Element \cup {Root} /\ Element \subseteq Task
      /\ Task \subseteq Nat /\ Root \notin Element
  BY TypeFacts DEF MemoryInv
<1>1. /\ t \in Element /\ p < t /\ stage[p] = "running" /\ stage[t] = "new"
      /\ \A x \in Task : parent[x] # t /\ (Begun(x) => x # t)
      /\ \A x \in Task : stage'[x] = IF x = t THEN "created" ELSE stage[x]
      /\ \A x \in Task : parent'[x] = IF x = t THEN p ELSE parent[x]
      /\ \A x \in Task : selected'[x] = IF x = t THEN t ELSE selected[x]
      /\ UNCHANGED <<place, memory, backup, changes, written, in_time>>
      /\ \A x \in Task : x # t => Line(x)' = Line(x)
      /\ Line(t)' = {t} \cup Line(p)
      /\ Line(t) = {t, Root}
      /\ written[t] = Nothing
  BY CreateEffect DEF MemoryInv
<1>2. /\ \A x \in Task : Begun(x)' <=> Begun(x)
      /\ \A x \in Task : Unreturned(x)' <=> Unreturned(x)
      /\ \A x \in Task : Begun(x) => home(x)' = home(x)
      /\ \A x \in Task : Begun(parent[x])
      /\ Begun(p)
  <2>1. \A x \in Task : Begun(x)' <=> Begun(x)
    BY <1>1 DEF Begun
  <2>2. \A x \in Task : Unreturned(x)' <=> Unreturned(x)
    BY <1>1 DEF Unreturned
  <2>3. \A x \in Task : Begun(x) => home(x)' = home(x)
    BY <1>1 DEF home
  <2>4. \A x \in Task : Begun(parent[x])
    BY <1>0 DEF MemoryInv, TreeInv, Begun
  <2>5. Begun(p)
    BY <1>1 DEF Begun
  <2> QED BY <2>1, <2>2, <2>3, <2>4, <2>5
<1>3. \A u \in Task : memory[u][t] = 0 /\ backup[u][t] = 0 /\ t \notin DOMAIN changes[u]
  BY <1>1 DEF MemoryInv, UntouchedInv
<1>4. MemoryTypeOK'
  <2>1. "created" \in Stage
    BY DEF Stage
  <2> QED BY <2>1 DEF MemoryInv, MemoryTypeOK, handle_create_task
<1>5. TreeInv'
  <2>1. stage'[Root] = "running" /\ parent'[Root] = Root /\ place'[Root] = Root
    BY <1>0, <1>1 DEF MemoryInv, TreeInv
  <2>2. ASSUME NEW x \in Task, NEW u \in Task, stage'[x] = "new", x <= u
        PROVE  stage'[u] = "new"
    <3>1. stage[x] = "new" /\ x # t /\ stage[u] = "new"
      BY <1>1, <2>2 DEF MemoryInv, TreeInv
    <3>2. \A y \in Task : stage[y] = "new" => t <= y
      BY DEF handle_create_task
    <3>3. u # t
      BY <1>0, <1>1, <2>2, <3>1, <3>2
    <3> QED BY <1>1, <3>1, <3>3
  <2>3. ASSUME NEW x \in Element
        PROVE  /\ parent'[x] < x /\ Begun(parent[x])'
               /\ stage'[x] = "new" => parent'[x] = Root
               /\ stage'[x] # "new" => selected'[x] = x
    <3>1. CASE x = t
      BY <1>0, <1>1, <1>2, <3>1 DEF Begun
    <3>2. CASE x # t
      BY <1>0, <1>1, <1>2, <3>2 DEF MemoryInv, TreeInv, Begun
    <3> QED BY <3>1, <3>2
  <2> QED BY <2>1, <2>2, <2>3 DEF TreeInv
<1>6. PlaceInv'
  <2>1. ASSUME NEW x \in Element
        PROVE  /\ ~Begun(x)' => place'[x] = Root /\ written'[x] = Nothing
               /\ stage'[x] = "sent" => place'[x] = x
    <3>1. x \in Task /\ (Begun(x)' <=> Begun(x)) /\ (stage'[x] = "sent" => stage[x] = "sent")
      BY <1>0, <1>1, <1>2
    <3>2. place' = place /\ written' = written
      BY <1>1
    <3> QED BY <3>1, <3>2 DEF MemoryInv, PlaceInv
  <2>2. ASSUME NEW x \in Task, Begun(x)'
        PROVE  /\ place'[x] \in {x, home(x)'} \cap Line(x)'
               /\ Begun(place[x])' /\ place'[place'[x]] = place'[x]
    <3>1. Begun(x) /\ x # t /\ place[x] \in Task
      BY <1>0, <1>1, <1>2, <2>2
    <3>2. /\ place[x] \in {x, home(x)} \cap Line(x)
          /\ Begun(place[x]) /\ place[place[x]] = place[x]
      BY <3>1 DEF MemoryInv, PlaceInv
    <3>3. Begun(place[x])'
      BY <1>1, <3>1, <3>2 DEF Begun
    <3> QED BY <1>1, <1>2, <3>1, <3>2, <3>3
  <2>3. ASSUME NEW x \in in_time'  PROVE x \in Element /\ stage'[x] = "done"
    <3>1. x \in in_time /\ x \in Element /\ stage[x] = "done"
      BY <1>1, <2>3 DEF MemoryInv, PlaceInv
    <3> QED BY <1>0, <1>1, <3>1
  <2> QED BY <2>1, <2>2, <2>3 DEF PlaceInv
<1>7. NearestInv'
  <2> SUFFICES ASSUME NEW x \in Task, NEW u \in Line(x)' \ {Root},
                      Begun(x)', place'[u] = u
               PROVE  u \in Line(place[x])'
    BY DEF NearestInv
  <2>1. Begun(x) /\ x # t /\ Begun(place[x]) /\ place[x] \in Task
    BY <1>0, <1>1, <1>2 DEF MemoryInv, PlaceInv
  <2>2. u \in Line(place[x])
    BY <1>1, <2>1 DEF MemoryInv, NearestInv
  <2>3. Line(place[x])' = Line(place[x])
    <3>1. place[x] # t
      BY <1>1, <2>1
    <3>2. PICK w \in Task : w = place[x]
      BY <2>1
    <3> QED BY <1>1, <3>1, <3>2 DEF Line
  <2> QED BY <2>2, <2>3
<1>8. UntouchedInv'
  BY <1>1 DEF MemoryInv, UntouchedInv
<1>9. CopyInv'
  <2> SUFFICES ASSUME NEW e \in Element, NEW u \in Element
               PROVE  /\ place'[u] = u =>
                           /\ u \in Line(e)' => backup'[u][e] = 0
                           /\ memory'[u][e] # backup'[u][e] => u \in Line(e)'
                      /\ e \in DOMAIN changes'[u] => u \in Line(e)'
    BY DEF CopyInv
  <2>1. CASE e = t
    BY <1>0, <1>1, <1>3, <2>1
  <2>2. CASE e # t
    BY <1>0, <1>1, <2>2 DEF MemoryInv, CopyInv
  <2> QED BY <2>1, <2>2
<1>10. UnseenInv'
  <2> SUFFICES ASSUME NEW e \in Element, NEW u \in Element, NEW w \in Task,
                      u \in Line(e)', Unreturned(u)', u \notin Line(w)'
               PROVE  memory'[w][e] = 0 /\ backup'[w][e] = 0 /\ e \notin DOMAIN changes'[w]
    BY DEF UnseenInv
  <2>1. CASE e = t
    BY <1>0, <1>1, <1>3, <2>1
  <2>2. CASE e # t
    <3>1. u \in Line(e) /\ Unreturned(u)
      BY <1>0, <1>1, <1>2, <2>2
    <3>2. u # t
      BY <1>1, <3>1 DEF Unreturned
    <3>3. u \notin Line(w)
      BY <1>0, <1>1, <3>2
    <3> QED BY <1>1, <3>1, <3>3 DEF MemoryInv, UnseenInv
  <2> QED BY <2>1, <2>2
<1>11. OwnInv'
  BY <1>0, <1>1 DEF MemoryInv, OwnInv
<1>12. CarriedInv'
  <2> SUFFICES ASSUME NEW e \in Element, NEW u \in Element,
                      stage'[u] = "sent", written'[e] # Nothing,
                      e = u \/ (e \in in_time' /\ parent'[e] = u)
               PROVE  IF e \in DOMAIN changes'[u] THEN changes'[u][e] = written'[e]
                                                  ELSE written'[e] = 0
    BY DEF CarriedInv
  <2>1. e # t /\ stage[u] = "sent"
    BY <1>0, <1>1
  <2>2. parent'[e] = parent[e]
    BY <1>0, <1>1, <2>1
  <2> QED BY <1>1, <2>1, <2>2 DEF MemoryInv, CarriedInv
<1>13. ResultAtOrigin'
  <2> SUFFICES ASSUME NEW e \in Element, stage'[e] = "done", written'[e] # Nothing
               PROVE  memory'[home(e)'][e] = written'[e]
    BY DEF ResultAtOrigin
  <2>1. stage[e] = "done" /\ written[e] # Nothing
    BY <1>0, <1>1
  <2>2. home(e)' = home(e)
    BY <1>0, <1>2, <2>1 DEF Begun
  <2> QED BY <1>1, <2>1, <2>2 DEF MemoryInv, ResultAtOrigin
<1>14. ResultHandedOn'
  <2> SUFFICES ASSUME NEW e \in Element, e \in in_time', stage'[parent'[e]] = "done",
                      written'[e] # Nothing
               PROVE  memory'[home(parent[e])'][e] = written'[e]
    BY DEF ResultHandedOn
  <2>1. e \in in_time /\ e # t /\ parent'[e] = parent[e] /\ parent[e] \in Task
    BY <1>0, <1>1
  <2>2. stage[parent[e]] = "done"
    BY <1>1, <2>1
  <2>3. memory[home(parent[e])][e] = written[e]
    BY <1>1, <2>1, <2>2 DEF MemoryInv, ResultHandedOn
  <2>4. home(parent[e])' = home(parent[e])
    <3>1. parent'[parent[e]] = parent[parent[e]]
      BY <1>1, <2>1, <2>2
    <3> QED BY <1>1, <2>1, <3>1 DEF home
  <2> QED BY <1>1, <2>3, <2>4
<1> QED
  BY <1>4, <1>5, <1>6, <1>7, <1>8, <1>9, <1>10, <1>11, <1>12, <1>13, <1>14 DEF MemoryInv

------------------------------------------------------------------------------
(* In every other step nobody's parent changes, and lines do not either.   *)
LEMMA SameLines ==
  ASSUME UNCHANGED parent
  PROVE  \A x : Line(x)' = Line(x)
BY DEF Line

(* Task t begins to run and works on the copy of task at.                  *)
Begins(t, at) ==
  /\ at \in {t, home(t)}
  /\ stage[t] = "created"
  /\ stage' = [stage EXCEPT ![t] = "running"]
  /\ place' = [place EXCEPT ![t] = at]
  /\ UNCHANGED <<parent, selected, changes, written, in_time>>

(* What holds of every task that begins, wherever it works.                *)
LEMMA BeginEffect ==
  ASSUME MemoryInv, NEW t \in Task, NEW at, Begins(t, at)
  PROVE  /\ t \in Element /\ ~Begun(t) /\ place[t] = Root /\ written[t] = Nothing
         /\ at \in {t, home(t)} /\ at \in Task /\ at \in Line(t)
         /\ home(t) \in Task /\ home(t) < t /\ Begun(home(t)) /\ home(t) # t
         /\ home(t) \in Line(parent[t]) /\ place[home(t)] = home(t)
         /\ \A x \in Task : stage'[x] = IF x = t THEN "running" ELSE stage[x]
         /\ \A x \in Task : place'[x] = IF x = t THEN at ELSE place[x]
         /\ \A x \in Task : Begun(x)' <=> Begun(x) \/ x = t
         /\ \A x \in Task : Begun(parent[x]) /\ parent[x] # t
         /\ \A x \in Task : home(x)' = home(x)
         /\ \A x : Line(x)' = Line(x)
         /\ \A x \in Task : t \in Line(x) => x = t
         /\ UNCHANGED <<parent, selected, changes, written, in_time>>
         /\ stage[t] = "created"
<1>0. /\ stage \in [Task -> Stage] /\ parent \in [Task -> Task]
      /\ place \in [Task -> Task] /\ Task = Element \cup {Root} /\ Element \subseteq Task
      /\ Task \subseteq Nat /\ Root \notin Element
  BY TypeFacts DEF MemoryInv
<1>a. /\ at \in {t, home(t)}
      /\ stage[t] = "created"
      /\ stage' = [stage EXCEPT ![t] = "running"]
      /\ place' = [place EXCEPT ![t] = at]
      /\ UNCHANGED <<parent, selected, changes, written, in_time>>
  BY DEF Begins
<1>1. t \in Element /\ ~Begun(t)
  BY <1>0, <1>a DEF MemoryInv, TreeInv, Begun
<1>2. place[t] = Root /\ written[t] = Nothing
  BY <1>1 DEF MemoryInv, PlaceInv
<1>3. \A x \in Task : Begun(parent[x]) /\ parent[x] # t
  BY <1>0, <1>1 DEF MemoryInv, TreeInv, Begun
<1>4. /\ home(t) \in Line(parent[t]) /\ home(t) < t /\ home(t) \in Task
      /\ home(t) \in Line(t) /\ t \in Line(t)
  <2>1. Line(t) = {t} \cup Line(parent[t])
    BY LineFacts DEF MemoryInv
  <2> QED BY <1>1, <2>1, LineFacts DEF MemoryInv
<1>5. Begun(home(t)) /\ place[home(t)] = home(t)
  <2>1. parent[t] \in Task /\ Begun(parent[t])
    BY <1>0, <1>3
  <2> QED BY <2>1 DEF MemoryInv, PlaceInv, home
<1>6. /\ \A x \in Task : stage'[x] = IF x = t THEN "running" ELSE stage[x]
      /\ \A x \in Task : place'[x] = IF x = t THEN at ELSE place[x]
  BY <1>0, <1>a
<1>7. \A x \in Task : Begun(x)' <=> Begun(x) \/ x = t
  BY <1>6 DEF Begun
<1>8. \A x \in Task : home(x)' = home(x)
  BY <1>0, <1>3, <1>6, <1>a DEF home
<1>9. \A x \in Task : t \in Line(x) => x = t
  BY <1>1, LineFacts DEF MemoryInv
<1>10. at \in Task /\ at \in Line(t)
  BY <1>4, <1>a
<1>11. home(t) # t
  BY <1>0, <1>4
<1> QED
  BY <1>1, <1>2, <1>3, <1>4, <1>5, <1>6, <1>7, <1>8, <1>9, <1>10, <1>11, <1>a, SameLines

(* The tree and the places of a task that begins.                          *)
LEMMA BeginKeepsPlaces ==
  ASSUME MemoryInv, NEW t \in Task, NEW at, Begins(t, at)
  PROVE  TreeInv' /\ PlaceInv' /\ NearestInv' /\ CarriedInv'
<1>0. /\ stage \in [Task -> Stage] /\ parent \in [Task -> Task] /\ in_time \subseteq Task
      /\ place \in [Task -> Task] /\ Task = Element \cup {Root} /\ Element \subseteq Task
      /\ Task \subseteq Nat /\ Root \notin Element
  BY TypeFacts DEF MemoryInv
<1>1. /\ t \in Element /\ ~Begun(t) /\ place[t] = Root /\ written[t] = Nothing
      /\ at \in {t, home(t)} /\ at \in Task /\ at \in Line(t)
      /\ home(t) \in Task /\ home(t) < t /\ Begun(home(t)) /\ home(t) # t
      /\ home(t) \in Line(parent[t]) /\ place[home(t)] = home(t)
      /\ \A x \in Task : stage'[x] = IF x = t THEN "running" ELSE stage[x]
      /\ \A x \in Task : place'[x] = IF x = t THEN at ELSE place[x]
      /\ \A x \in Task : Begun(x)' <=> Begun(x) \/ x = t
      /\ \A x \in Task : Begun(parent[x]) /\ parent[x] # t
      /\ \A x \in Task : home(x)' = home(x)
      /\ \A x : Line(x)' = Line(x)
      /\ \A x \in Task : t \in Line(x) => x = t
      /\ UNCHANGED <<parent, selected, changes, written, in_time>>
      /\ stage[t] = "created"
  BY BeginEffect
<1>2. TreeInv'
  <2>1. stage'[Root] = "running" /\ parent'[Root] = Root /\ place'[Root] = Root
    BY <1>0, <1>1 DEF MemoryInv, TreeInv
  <2>2. ASSUME NEW x \in Task, NEW u \in Task, stage'[x] = "new", x <= u
        PROVE  stage'[u] = "new"
    <3>1. stage[x] = "new" /\ stage[u] = "new"
      BY <1>1, <2>2 DEF MemoryInv, TreeInv
    <3> QED BY <1>1, <3>1
  <2>3. ASSUME NEW x \in Element
        PROVE  /\ parent'[x] < x /\ Begun(parent[x])'
               /\ stage'[x] = "new" => parent'[x] = Root
               /\ stage'[x] # "new" => selected'[x] = x
    <3>1. stage'[x] = "new" <=> stage[x] = "new"
      BY <1>0, <1>1
    <3>2. Begun(parent[x])'
      BY <1>0, <1>1 DEF Begun
    <3> QED BY <1>1, <3>1, <3>2 DEF MemoryInv, TreeInv
  <2> QED BY <2>1, <2>2, <2>3 DEF TreeInv
<1>3. PlaceInv'
  <2>1. ASSUME NEW x \in Element
        PROVE  /\ ~Begun(x)' => place'[x] = Root /\ written'[x] = Nothing
               /\ stage'[x] = "sent" => place'[x] = x
    <3>1. CASE x = t
      BY <1>0, <1>1, <3>1
    <3>2. CASE x # t
      <4>1. /\ x \in Task /\ (Begun(x)' <=> Begun(x)) /\ stage'[x] = stage[x]
            /\ place'[x] = place[x] /\ written' = written
        BY <1>0, <1>1, <3>2
      <4> QED BY <4>1 DEF MemoryInv, PlaceInv
    <3> QED BY <3>1, <3>2
  <2>2. ASSUME NEW x \in Task, Begun(x)'
        PROVE  /\ place'[x] \in {x, home(x)'} \cap Line(x)'
               /\ Begun(place[x])' /\ place'[place'[x]] = place'[x]
    <3>1. CASE x = t
      <4>1. place'[x] = at /\ at \in Line(x)'
        BY <1>1, <3>1
      <4>2. stage'[at] \in {"running", "sent", "done"}
        BY <1>1 DEF Begun
      <4>3. place'[at] = at
        BY <1>1
      <4>4. at \in {x, home(x)'}
        BY <1>1, <3>1
      <4> QED BY <4>1, <4>2, <4>3, <4>4 DEF Begun
    <3>2. CASE x # t
      <4>1. /\ place[x] \in {x, home(x)} \cap Line(x) /\ place[x] \in Task
            /\ Begun(place[x]) /\ place[place[x]] = place[x]
        BY <1>0, <1>1, <2>2, <3>2 DEF MemoryInv, PlaceInv
      <4>2. place'[x] = place[x] /\ place[x] # t
        BY <1>1, <3>2, <4>1
      <4>3. stage'[place[x]] \in {"running", "sent", "done"}
        BY <1>1, <4>1 DEF Begun
      <4> QED BY <1>1, <4>1, <4>2, <4>3 DEF Begun
    <3> QED BY <3>1, <3>2
  <2>3. ASSUME NEW x \in in_time'  PROVE x \in Element /\ stage'[x] = "done"
    <3>1. x \in Element /\ stage[x] = "done"
      BY <1>1, <2>3 DEF MemoryInv, PlaceInv
    <3> QED BY <1>0, <1>1, <3>1
  <2> QED BY <2>1, <2>2, <2>3 DEF PlaceInv
<1>4. NearestInv'
  <2> SUFFICES ASSUME NEW x \in Task, NEW u \in Line(x)' \ {Root},
                      Begun(x)', place'[u] = u
               PROVE  u \in Line(place[x])'
    BY DEF NearestInv
  <2>0. u \in Line(x) /\ u \in Task /\ u # Root
    BY <1>1, LineFacts DEF MemoryInv
  <2> SUFFICES u \in Line(place'[x])
    BY <1>1 DEF Line
  <2>1. CASE x = t /\ at = t
    BY <1>1, <2>0, <2>1
  <2>2. CASE x = t /\ at # t
    <3>1. place'[x] = home(t) /\ u # t
      BY <1>1, <2>2
    <3>2. u \in Line(parent[t])
      <4>1. Line(t) = {t} \cup Line(parent[t])
        BY LineFacts DEF MemoryInv
      <4> QED BY <2>0, <2>2, <3>1, <4>1
    <3>3. place[u] = u
      BY <1>1, <2>0, <3>1
    <3>4. parent[t] \in Task
      BY <1>0
    <3> QED BY <1>1, <2>0, <3>1, <3>2, <3>3, <3>4 DEF MemoryInv, NearestInv, home
  <2>3. CASE x # t
    <3>1. Begun(x) /\ place'[x] = place[x] /\ u # t
      BY <1>1, <2>0, <2>3
    <3>2. place[u] = u
      BY <1>1, <2>0, <3>1
    <3> QED BY <2>0, <3>1, <3>2 DEF MemoryInv, NearestInv
  <2> QED BY <2>1, <2>2, <2>3
<1>5. CarriedInv'
  <2> SUFFICES ASSUME NEW e \in Element, NEW u \in Element,
                      stage'[u] = "sent", written'[e] # Nothing,
                      e = u \/ (e \in in_time' /\ parent'[e] = u)
               PROVE  IF e \in DOMAIN changes'[u] THEN changes'[u][e] = written'[e]
                                                  ELSE written'[e] = 0
    BY DEF CarriedInv
  <2>1. stage[u] = "sent"
    BY <1>0, <1>1
  <2> QED BY <1>1, <2>1 DEF MemoryInv, CarriedInv
<1> QED BY <1>2, <1>3, <1>4, <1>5

(* A task that begins keeps the invariant: where its creator runs ...      *)
LEMMA RunLocalKeeps ==
  ASSUME MemoryInv, NEW t \in Task, run_local(t)
  PROVE  MemoryInv'
<1>0. /\ Task = Element \cup {Root} /\ Element \subseteq Task
      /\ stage \in [Task -> Stage] /\ place \in [Task -> Task]
      /\ parent \in [Task -> Task] /\ in_time \subseteq Task
  BY TypeFacts DEF MemoryInv
<1>b. Begins(t, home(t)) /\ UNCHANGED <<memory, backup>>
  BY DEF Begins, run_local
<1>1. /\ t \in Element /\ ~Begun(t) /\ written[t] = Nothing
      /\ home(t) \in Task /\ home(t) # t
      /\ \A x \in Task : stage'[x] = IF x = t THEN "running" ELSE stage[x]
      /\ \A x \in Task : place'[x] = IF x = t THEN home(t) ELSE place[x]
      /\ \A x \in Task : Begun(parent[x]) /\ parent[x] # t
      /\ \A x \in Task : home(x)' = home(x)
      /\ \A x : Line(x)' = Line(x)
      /\ UNCHANGED <<parent, selected, memory, backup, changes, written, in_time>>
      /\ stage[t] = "created"
  BY <1>b, BeginEffect
<1>2. MemoryTypeOK'
  <2>1. "running" \in Stage
    BY DEF Stage
  <2> QED BY <1>1, <2>1 DEF MemoryInv, MemoryTypeOK, run_local
<1>3. TreeInv' /\ PlaceInv' /\ NearestInv' /\ CarriedInv'
  BY <1>b, BeginKeepsPlaces
<1>4. UntouchedInv'
  BY <1>1 DEF MemoryInv, UntouchedInv
<1>5. CopyInv'
  <2> SUFFICES ASSUME NEW e \in Element, NEW u \in Element
               PROVE  /\ place'[u] = u =>
                           /\ u \in Line(e)' => backup'[u][e] = 0
                           /\ memory'[u][e] # backup'[u][e] => u \in Line(e)'
                      /\ e \in DOMAIN changes'[u] => u \in Line(e)'
    BY DEF CopyInv
  <2>1. place'[u] = u => place[u] = u
    BY <1>0, <1>1
  <2> QED BY <1>1, <2>1 DEF MemoryInv, CopyInv
<1>6. UnseenInv'
  <2> SUFFICES ASSUME NEW e \in Element, NEW u \in Element, NEW w \in Task,
                      u \in Line(e)', Unreturned(u)', u \notin Line(w)'
               PROVE  memory'[w][e] = 0 /\ backup'[w][e] = 0 /\ e \notin DOMAIN changes'[w]
    BY DEF UnseenInv
  <2>1. place'[u] = u /\ stage'[u] \in {"running", "sent"}
    BY DEF Unreturned
  <2>2. Unreturned(u)
    BY <1>0, <1>1, <2>1 DEF Unreturned
  <2> QED BY <1>1, <2>2 DEF MemoryInv, UnseenInv
<1>7. OwnInv'
  <2> SUFFICES ASSUME NEW e \in Element, stage'[e] = "running", written'[e] # Nothing
               PROVE  memory'[place'[e]][e] = written'[e]
    BY DEF OwnInv
  <2>1. e # t /\ stage[e] = "running" /\ place'[e] = place[e]
    BY <1>0, <1>1
  <2> QED BY <1>1, <2>1 DEF MemoryInv, OwnInv
<1>8. ResultAtOrigin'
  <2> SUFFICES ASSUME NEW e \in Element, stage'[e] = "done", written'[e] # Nothing
               PROVE  memory'[home(e)'][e] = written'[e]
    BY DEF ResultAtOrigin
  <2>1. stage[e] = "done" /\ written[e] # Nothing /\ home(e)' = home(e)
    BY <1>0, <1>1
  <2> QED BY <1>1, <2>1 DEF MemoryInv, ResultAtOrigin
<1>9. ResultHandedOn'
  <2> SUFFICES ASSUME NEW e \in Element, e \in in_time', stage'[parent'[e]] = "done",
                      written'[e] # Nothing
               PROVE  memory'[home(parent[e])'][e] = written'[e]
    BY DEF ResultHandedOn
  <2>1. e \in in_time /\ written[e] # Nothing /\ stage[parent[e]] = "done"
    BY <1>0, <1>1
  <2>2. home(parent[e])' = home(parent[e])
    <3>1. place'[parent[parent[e]]] = place[parent[parent[e]]]
      BY <1>0, <1>1
    <3> QED BY <1>1, <3>1 DEF home
  <2> QED BY <1>1, <2>1, <2>2 DEF MemoryInv, ResultHandedOn
<1> QED BY <1>2, <1>3, <1>4, <1>5, <1>6, <1>7, <1>8, <1>9 DEF MemoryInv

(* ... and on another worker, with a copy.                                 *)
LEMMA RequestKeeps ==
  ASSUME MemoryInv, NEW t \in Task, request_memory(t)
  PROVE  MemoryInv'
<1>0. /\ Task = Element \cup {Root} /\ Element \subseteq Task
      /\ stage \in [Task -> Stage] /\ place \in [Task -> Task]
      /\ parent \in [Task -> Task] /\ in_time \subseteq Task
      /\ memory \in [Task -> [Element -> Value]] /\ backup \in [Task -> [Element -> Value]]
  BY TypeFacts DEF MemoryInv
<1>b. Begins(t, t)
  BY DEF Begins, request_memory
<1>1. /\ t \in Element /\ ~Begun(t) /\ written[t] = Nothing
      /\ home(t) \in Task /\ home(t) # t /\ home(t) \in Line(parent[t])
      /\ \A x \in Task : stage'[x] = IF x = t THEN "running" ELSE stage[x]
      /\ \A x \in Task : place'[x] = IF x = t THEN t ELSE place[x]
      /\ \A x \in Task : Begun(parent[x]) /\ parent[x] # t
      /\ \A x \in Task : home(x)' = home(x)
      /\ \A x : Line(x)' = Line(x)
      /\ \A x \in Task : t \in Line(x) => x = t
      /\ UNCHANGED <<parent, selected, changes, written, in_time>>
      /\ stage[t] = "created"
  BY <1>b, BeginEffect
<1>c. \A x \in Task : /\ memory'[x] = IF x = t THEN memory[home(t)] ELSE memory[x]
                      /\ backup'[x] = IF x = t THEN memory[home(t)] ELSE backup[x]
  BY <1>0 DEF request_memory
<1>d. ASSUME NEW x \in Task, Begun(x)  PROVE place[x] # t
  <2>1. Begun(place[x])
    BY <1>d DEF MemoryInv, PlaceInv
  <2> QED BY <1>1, <2>1
<1>e. \A x \in Task : home(x) # t
  <2>1. \A x \in Task : parent[x] \in Task
    BY <1>0
  <2> QED BY <1>1, <1>d, <2>1 DEF home
<1>2. MemoryTypeOK'
  <2>1. "running" \in Stage
    BY DEF Stage
  <2>2. memory[home(t)] \in Contents
    BY <1>0, <1>1 DEF Contents
  <2> QED BY <1>1, <2>1, <2>2 DEF MemoryInv, MemoryTypeOK, request_memory
<1>3. TreeInv' /\ PlaceInv' /\ NearestInv' /\ CarriedInv'
  BY <1>b, BeginKeepsPlaces
<1>4. UntouchedInv'
  <2> SUFFICES ASSUME NEW e \in Element, written'[e] = Nothing, NEW u \in Task
               PROVE  memory'[u][e] = 0 /\ backup'[u][e] = 0 /\ e \notin DOMAIN changes'[u]
    BY DEF UntouchedInv
  <2>1. \A w \in Task : memory[w][e] = 0 /\ backup[w][e] = 0 /\ e \notin DOMAIN changes[w]
    BY <1>1 DEF MemoryInv, UntouchedInv
  <2> QED BY <1>1, <1>c, <2>1
<1>5. CopyInv'
  <2> SUFFICES ASSUME NEW e \in Element, NEW u \in Element
               PROVE  /\ place'[u] = u =>
                           /\ u \in Line(e)' => backup'[u][e] = 0
                           /\ memory'[u][e] # backup'[u][e] => u \in Line(e)'
                      /\ e \in DOMAIN changes'[u] => u \in Line(e)'
    BY DEF CopyInv
  <2>1. \A w \in Task : memory[w][t] = 0 /\ backup[w][t] = 0 /\ t \notin DOMAIN changes[w]
    BY <1>1 DEF MemoryInv, UntouchedInv
  <2>2. CASE u = t
    <3>1. memory'[u][e] = backup'[u][e]
      BY <1>c, <1>0, <2>2
    <3>2. u \in Line(e) => backup'[u][e] = 0
      BY <1>0, <1>1, <1>c, <2>1, <2>2
    <3>3. changes'[u] = changes[u] /\ Line(e)' = Line(e)
      BY <1>1
    <3>4. e \in DOMAIN changes[u] => u \in Line(e)
      BY DEF MemoryInv, CopyInv
    <3> QED BY <3>1, <3>2, <3>3, <3>4
  <2>3. CASE u # t
    <3>1. place'[u] = place[u] /\ memory'[u] = memory[u] /\ backup'[u] = backup[u]
      BY <1>0, <1>1, <1>c, <2>3
    <3> QED BY <1>1, <3>1 DEF MemoryInv, CopyInv
  <2> QED BY <2>2, <2>3
<1>6. UnseenInv'
  <2> SUFFICES ASSUME NEW e \in Element, NEW u \in Element, NEW w \in Task,
                      u \in Line(e)', Unreturned(u)', u \notin Line(w)'
               PROVE  memory'[w][e] = 0 /\ backup'[w][e] = 0 /\ e \notin DOMAIN changes'[w]
    BY DEF UnseenInv
  <2>1. \A x \in Task : memory[x][t] = 0 /\ backup[x][t] = 0 /\ t \notin DOMAIN changes[x]
    BY <1>1 DEF MemoryInv, UntouchedInv
  <2>2. u \in Line(e) /\ u \notin Line(w)
    BY <1>1
  <2>3. CASE u = t
    <3>1. e = t
      BY <1>0, <1>1, <2>2, <2>3
    <3> QED BY <1>0, <1>1, <1>c, <2>1, <3>1
  <2>4. CASE u # t
    <3>1. place'[u] = u /\ stage'[u] \in {"running", "sent"}
      BY DEF Unreturned
    <3>2. Unreturned(u)
      BY <1>0, <1>1, <2>4, <3>1 DEF Unreturned
    <3>3. \A x \in Task : u \notin Line(x) =>
            memory[x][e] = 0 /\ backup[x][e] = 0 /\ e \notin DOMAIN changes[x]
      BY <2>2, <3>2 DEF MemoryInv, UnseenInv
    <3>4. u \notin Line(t) => u \notin Line(home(t))
      <4>1. Line(t) = {t} \cup Line(parent[t]) /\ parent[t] \in Task
        BY <1>0, LineFacts DEF MemoryInv
      <4>2. Line(home(t)) \subseteq Line(parent[t])
        BY <1>1, <4>1, LineFacts DEF MemoryInv
      <4> QED BY <4>1, <4>2
    <3> QED BY <1>1, <1>c, <2>2, <3>3, <3>4
  <2> QED BY <2>3, <2>4
<1>7. OwnInv'
  <2> SUFFICES ASSUME NEW e \in Element, stage'[e] = "running", written'[e] # Nothing
               PROVE  memory'[place'[e]][e] = written'[e]
    BY DEF OwnInv
  <2>1. e # t /\ stage[e] = "running" /\ place'[e] = place[e]
    BY <1>0, <1>1
  <2>2. place[e] # t /\ place[e] \in Task
    BY <1>0, <1>d, <2>1 DEF Begun
  <2> QED BY <1>1, <1>c, <2>1, <2>2 DEF MemoryInv, OwnInv
<1>8. ResultAtOrigin'
  <2> SUFFICES ASSUME NEW e \in Element, stage'[e] = "done", written'[e] # Nothing
               PROVE  memory'[home(e)'][e] = written'[e]
    BY DEF ResultAtOrigin
  <2>1. stage[e] = "done" /\ written[e] # Nothing /\ home(e)' = home(e)
    BY <1>0, <1>1
  <2>2. home(e) # t /\ home(e) \in Task
    BY <1>0, <1>e DEF home
  <2> QED BY <1>1, <1>c, <2>1, <2>2 DEF MemoryInv, ResultAtOrigin
<1>9. ResultHandedOn'
  <2> SUFFICES ASSUME NEW e \in Element, e \in in_time', stage'[parent'[e]] = "done",
                      written'[e] # Nothing
               PROVE  memory'[home(parent[e])'][e] = written'[e]
    BY DEF ResultHandedOn
  <2>1. e \in in_time /\ written[e] # Nothing /\ stage[parent[e]] = "done"
    BY <1>0, <1>1
  <2>2. home(parent[e])' = home(parent[e])
    <3>1. place'[parent[parent[e]]] = place[parent[parent[e]]]
      BY <1>0, <1>1
    <3> QED BY <1>1, <3>1 DEF home
  <2>3. home(parent[e]) # t /\ home(parent[e]) \in Task
    BY <1>0, <1>e DEF home
  <2> QED BY <1>1, <1>c, <2>1, <2>2, <2>3 DEF MemoryInv, ResultHandedOn
<1> QED BY <1>2, <1>3, <1>4, <1>5, <1>6, <1>7, <1>8, <1>9 DEF MemoryInv

------------------------------------------------------------------------------
(* An assignment changes one element where the task works.                 *)
LEMMA AssignEffect ==
  ASSUME MemoryTypeOK, TreeInv, NEW t \in Task, NEW v \in Value, assign(t, v)
  PROVE  /\ t \in Element /\ stage[t] = "running"
         /\ memory' \in [Task -> Contents]
         /\ \A x \in Task : \A e \in Element :
              memory'[x][e] = IF x = place[t] /\ e = t THEN v ELSE memory[x][e]
         /\ \A e \in Element : written'[e] = IF e = t THEN v ELSE written[e]
         /\ UNCHANGED <<stage, parent, selected, place, backup, changes, in_time>>
<1>0. /\ Task = Element \cup {Root} /\ Element \subseteq Task
      /\ memory \in [Task -> [Element -> Value]] /\ place \in [Task -> Task]
      /\ written \in [Task -> Value \cup {Nothing}]
  BY TypeFacts
<1>1. t \in Element /\ stage[t] = "running"
  BY <1>0 DEF assign
<1>2. selected[t] = t
  BY <1>1 DEF TreeInv
<1>3. place[t] \in Task
  BY <1>0
<1>4. memory' = [memory EXCEPT ![place[t]] = [memory[place[t]] EXCEPT ![t] = v]]
  BY <1>2 DEF assign
<1>5. memory[place[t]] \in [Element -> Value]
  BY <1>0, <1>3
<1>6. [memory[place[t]] EXCEPT ![t] = v] \in [Element -> Value]
  BY <1>5
<1>7. memory' \in [Task -> [Element -> Value]]
  BY <1>0, <1>4, <1>6
<1>8. \A x \in Task : \A e \in Element :
        memory'[x][e] = IF x = place[t] /\ e = t THEN v ELSE memory[x][e]
  BY <1>0, <1>1, <1>3, <1>4, <1>5
<1>9. \A e \in Element : written'[e] = IF e = t THEN v ELSE written[e]
  BY <1>0, <1>1 DEF assign
<1> QED BY <1>1, <1>7, <1>8, <1>9 DEF assign, Contents

(* An assignment keeps the invariant.                                      *)
LEMMA AssignKeeps ==
  ASSUME MemoryInv, NEW t \in Task, NEW v \in Value, assign(t, v)
  PROVE  MemoryInv'
<1>0. /\ Task = Element \cup {Root} /\ Element \subseteq Task /\ Task \subseteq Nat
      /\ stage \in [Task -> Stage] /\ place \in [Task -> Task] /\ parent \in [Task -> Task]
      /\ written \in [Task -> Value \cup {Nothing}]
  BY TypeFacts DEF MemoryInv
<1>1. /\ t \in Element /\ stage[t] = "running"
      /\ memory' \in [Task -> Contents]
      /\ \A x \in Task : \A e \in Element :
           memory'[x][e] = IF x = place[t] /\ e = t THEN v ELSE memory[x][e]
      /\ \A e \in Element : written'[e] = IF e = t THEN v ELSE written[e]
      /\ UNCHANGED <<stage, parent, selected, place, backup, changes, in_time>>
  BY AssignEffect DEF MemoryInv
<1>2. /\ \A x : Line(x)' = Line(x)
      /\ \A x : Begun(x)' <=> Begun(x)
      /\ \A x : Unreturned(x)' <=> Unreturned(x)
      /\ \A x : home(x)' = home(x)
  BY <1>1 DEF Line, Begun, Unreturned, home
<1>3. /\ Begun(t) /\ place[t] \in Task /\ place[t] \in Line(t)
      /\ \A u \in Line(t) \ {Root} : place[u] = u => u \in Line(place[t])
      /\ \A x \in Task : \A u \in Line(x) : u \in Task
  <2>1. Begun(t)
    BY <1>1 DEF Begun
  <2>2. place[t] \in Task /\ place[t] \in Line(t)
    BY <1>0, <2>1 DEF MemoryInv, PlaceInv
  <2>3. \A u \in Line(t) \ {Root} : place[u] = u => u \in Line(place[t])
    BY <2>1 DEF MemoryInv, NearestInv
  <2> QED BY <2>1, <2>2, <2>3, LineFacts DEF MemoryInv
<1>4. MemoryTypeOK'
  <2>1. written' \in [Task -> Value \cup {Nothing}]
    BY <1>0 DEF assign
  <2> QED BY <1>1, <2>1 DEF MemoryInv, MemoryTypeOK
<1>5. TreeInv'
  <2>1. /\ stage' = stage /\ parent' = parent /\ place' = place /\ selected' = selected
        /\ \A x : Begun(parent[x])' <=> Begun(parent[x])
    BY <1>1 DEF Begun
  <2> QED BY <2>1 DEF MemoryInv, TreeInv
<1>6. PlaceInv'
  <2>1. ASSUME NEW x \in Element
        PROVE  /\ ~Begun(x)' => place'[x] = Root /\ written'[x] = Nothing
               /\ stage'[x] = "sent" => place'[x] = x
    <3>1. ~Begun(x) => x # t
      BY <1>3
    <3> QED BY <1>1, <1>2, <3>1 DEF MemoryInv, PlaceInv
  <2>2. ASSUME NEW x \in Task, Begun(x)'
        PROVE  /\ place'[x] \in {x, home(x)'} \cap Line(x)'
               /\ Begun(place[x])' /\ place'[place'[x]] = place'[x]
    <3>1. Begun(place[x])' <=> Begun(place[x])
      BY <1>1 DEF Begun
    <3> QED BY <1>1, <1>2, <2>2, <3>1 DEF MemoryInv, PlaceInv
  <2>3. ASSUME NEW x \in in_time'  PROVE x \in Element /\ stage'[x] = "done"
    BY <1>1, <2>3 DEF MemoryInv, PlaceInv
  <2> QED BY <2>1, <2>2, <2>3 DEF PlaceInv
<1>7. NearestInv'
  <2> SUFFICES ASSUME NEW x \in Task, NEW u \in Line(x)' \ {Root},
                      Begun(x)', place'[u] = u
               PROVE  u \in Line(place[x])'
    BY DEF NearestInv
  <2>1. u \in Line(place[x])
    BY <1>1, <1>2 DEF MemoryInv, NearestInv
  <2> QED BY <1>1, <2>1 DEF Line
<1>8. UntouchedInv'
  <2> SUFFICES ASSUME NEW e \in Element, written'[e] = Nothing, NEW u \in Task
               PROVE  memory'[u][e] = 0 /\ backup'[u][e] = 0 /\ e \notin DOMAIN changes'[u]
    BY DEF UntouchedInv
  <2>1. e # t
    BY <1>0, <1>1, ValueAssumption DEF Nothing
  <2> QED BY <1>1, <2>1 DEF MemoryInv, UntouchedInv
<1>9. CopyInv'
  <2> SUFFICES ASSUME NEW e \in Element, NEW u \in Element
               PROVE  /\ place'[u] = u =>
                           /\ u \in Line(e)' => backup'[u][e] = 0
                           /\ memory'[u][e] # backup'[u][e] => u \in Line(e)'
                      /\ e \in DOMAIN changes'[u] => u \in Line(e)'
    BY DEF CopyInv
  <2>1. CASE e = t /\ u = place[t]
    BY <1>1, <1>2, <1>3, <2>1 DEF MemoryInv, CopyInv
  <2>2. CASE ~(e = t /\ u = place[t])
    <3>1. memory'[u][e] = memory[u][e]
      BY <1>0, <1>1, <2>2
    <3> QED BY <1>1, <1>2, <3>1 DEF MemoryInv, CopyInv
  <2> QED BY <2>1, <2>2
<1>10. UnseenInv'
  <2> SUFFICES ASSUME NEW e \in Element, NEW u \in Element, NEW w \in Task,
                      u \in Line(e)', Unreturned(u)', u \notin Line(w)'
               PROVE  memory'[w][e] = 0 /\ backup'[w][e] = 0 /\ e \notin DOMAIN changes'[w]
    BY DEF UnseenInv
  <2>1. u \in Line(e) /\ Unreturned(u) /\ u \notin Line(w) /\ place[u] = u
    BY <1>2 DEF Unreturned
  <2>2. ~(e = t /\ w = place[t])
    <3>1. u # Root
      BY DEF Element
    <3> QED BY <1>3, <2>1, <3>1
  <2> QED BY <1>1, <2>1, <2>2 DEF MemoryInv, UnseenInv
<1>11. OwnInv'
  <2> SUFFICES ASSUME NEW e \in Element, stage'[e] = "running", written'[e] # Nothing
               PROVE  memory'[place'[e]][e] = written'[e]
    BY DEF OwnInv
  <2>1. place[e] \in Task
    BY <1>0
  <2> QED BY <1>1, <2>1 DEF MemoryInv, OwnInv
<1>12. CarriedInv'
  <2> SUFFICES ASSUME NEW e \in Element, NEW u \in Element,
                      stage'[u] = "sent", written'[e] # Nothing,
                      e = u \/ (e \in in_time' /\ parent'[e] = u)
               PROVE  IF e \in DOMAIN changes'[u] THEN changes'[u][e] = written'[e]
                                                  ELSE written'[e] = 0
    BY DEF CarriedInv
  <2>1. e # t
    <3>1. e \in in_time => stage[e] = "done"
      BY DEF MemoryInv, PlaceInv
    <3> QED BY <1>1, <3>1
  <2> QED BY <1>1, <2>1 DEF MemoryInv, CarriedInv
<1>13. ResultAtOrigin'
  <2> SUFFICES ASSUME NEW e \in Element, stage'[e] = "done", written'[e] # Nothing
               PROVE  memory'[home(e)'][e] = written'[e]
    BY DEF ResultAtOrigin
  <2>1. e # t /\ home(e) \in Task
    BY <1>0, <1>1 DEF home
  <2> QED BY <1>1, <1>2, <2>1 DEF MemoryInv, ResultAtOrigin
<1>14. ResultHandedOn'
  <2> SUFFICES ASSUME NEW e \in Element, e \in in_time', stage'[parent'[e]] = "done",
                      written'[e] # Nothing
               PROVE  memory'[home(parent[e])'][e] = written'[e]
    BY DEF ResultHandedOn
  <2>1. e \in in_time /\ stage[parent[e]] = "done" /\ stage[e] = "done"
    BY <1>1 DEF MemoryInv, PlaceInv
  <2>2. e # t /\ home(parent[e]) \in Task
    BY <1>0, <1>1, <2>1 DEF home
  <2>3. home(parent[e])' = home(parent[e])
    BY <1>1 DEF home
  <2>4. written[e] # Nothing /\ written'[e] = written[e]
    BY <1>1, <2>2
  <2>5. memory[home(parent[e])][e] = written[e]
    BY <2>1, <2>4 DEF MemoryInv, ResultHandedOn
  <2>6. memory'[home(parent[e])][e] = memory[home(parent[e])][e]
    BY <1>1, <2>2
  <2> QED BY <2>3, <2>4, <2>5, <2>6
<1> QED
  BY <1>4, <1>5, <1>6, <1>7, <1>8, <1>9, <1>10, <1>11, <1>12, <1>13, <1>14 DEF MemoryInv

------------------------------------------------------------------------------
(* A task that ends where it has a copy sends what differs from its        *)
(* backup, and its children that are done by then are in time.             *)
LEMMA WriteEffect ==
  ASSUME MemoryTypeOK, TreeInv, PlaceInv, NEW t \in Task, write_memory(t)
  PROVE  /\ t \in Element /\ stage[t] = "running" /\ Begun(t)
         /\ changes' \in [Task -> Changes]
         /\ \A x \in Task : x # t => stage'[x] = stage[x] /\ changes'[x] = changes[x]
         /\ \/ place[t] = home(t) /\ place[t] # t /\ stage'[t] = "done" /\ changes' = changes
            \/ /\ place[t] = t /\ stage'[t] = "sent"
               /\ DOMAIN changes'[t] = {e \in Element : memory[t][e] # backup[t][e]}
               /\ \A e \in DOMAIN changes'[t] : changes'[t][e] = memory[t][e]
         /\ in_time \subseteq in_time'
         /\ \A x \in in_time' :
              x \in in_time \/ (x \in Element /\ parent[x] = t /\ stage[x] = "done")
         /\ UNCHANGED <<parent, selected, place, memory, backup, written>>
<1>0. /\ Task = Element \cup {Root} /\ Element \subseteq Task /\ Task \subseteq Nat
      /\ stage \in [Task -> Stage] /\ changes \in [Task -> Changes]
      /\ memory \in [Task -> [Element -> Value]]
  BY TypeFacts
<1>1. /\ t \in Element /\ stage[t] = "running"
      /\ in_time' = in_time \cup Returned(t)
      /\ UNCHANGED <<parent, selected, place, memory, backup, written>>
  BY <1>0 DEF write_memory
<1>2. Begun(t)
  BY <1>1 DEF Begun
<1>3. place[t] \in {t, home(t)} /\ home(t) # t
  <2>1. home(t) < t /\ home(t) \in Task
    BY <1>1, LineFacts
  <2> QED BY <1>0, <1>2, <2>1 DEF PlaceInv
<1>4. in_time \subseteq in_time' /\
      \A x \in in_time' : x \in in_time \/ (x \in Element /\ parent[x] = t /\ stage[x] = "done")
  BY <1>1 DEF Returned, Element
<1>5. CASE place[t] = home(t)
  <2>1. stage' = [stage EXCEPT ![t] = "done"] /\ changes' = changes
    BY <1>5 DEF write_memory
  <2> QED BY <1>0, <1>1, <1>2, <1>3, <1>4, <1>5, <2>1
<1>6. CASE place[t] # home(t)
  <2>1. stage' = [stage EXCEPT ![t] = "sent"] /\ changes' = [changes EXCEPT ![t] = changed(t)]
    BY <1>6 DEF write_memory
  <2>2. /\ DOMAIN changed(t) = {e \in Element : memory[t][e] # backup[t][e]}
        /\ \A e \in DOMAIN changed(t) : changed(t)[e] = memory[t][e]
    BY DEF changed
  <2>3. changed(t) \in Changes
    <3>1. changed(t) \in [{e \in Element : memory[t][e] # backup[t][e]} -> Value]
      BY <1>0 DEF changed
    <3>2. {e \in Element : memory[t][e] # backup[t][e]} \in SUBSET Element
      OBVIOUS
    <3> QED BY <3>1, <3>2 DEF Changes
  <2>4. changes' \in [Task -> Changes] /\ changes'[t] = changed(t)
    BY <1>0, <2>1, <2>3
  <2>5. \A x \in Task : x # t => stage'[x] = stage[x] /\ changes'[x] = changes[x]
    BY <1>0, <2>1
  <2>6. stage'[t] = "sent" /\ place[t] = t
    BY <1>0, <1>3, <1>6, <2>1
  <2> QED BY <1>1, <1>2, <1>4, <2>2, <2>4, <2>5, <2>6
<1> QED BY <1>5, <1>6

(* The end of a task's code keeps the invariant.                           *)
LEMMA WriteKeeps ==
  ASSUME MemoryInv, NEW t \in Task, write_memory(t)
  PROVE  MemoryInv'
<1>0. /\ Task = Element \cup {Root} /\ Element \subseteq Task /\ Task \subseteq Nat
      /\ stage \in [Task -> Stage] /\ place \in [Task -> Task] /\ parent \in [Task -> Task]
      /\ in_time \subseteq Task
  BY TypeFacts DEF MemoryInv
<1>1. /\ t \in Element /\ stage[t] = "running" /\ Begun(t)
      /\ changes' \in [Task -> Changes]
      /\ \A x \in Task : x # t => stage'[x] = stage[x] /\ changes'[x] = changes[x]
      /\ \/ place[t] = home(t) /\ place[t] # t /\ stage'[t] = "done" /\ changes' = changes
         \/ /\ place[t] = t /\ stage'[t] = "sent"
            /\ DOMAIN changes'[t] = {e \in Element : memory[t][e] # backup[t][e]}
            /\ \A e \in DOMAIN changes'[t] : changes'[t][e] = memory[t][e]
      /\ in_time \subseteq in_time'
      /\ \A x \in in_time' :
           x \in in_time \/ (x \in Element /\ parent[x] = t /\ stage[x] = "done")
      /\ UNCHANGED <<parent, selected, place, memory, backup, written>>
  BY WriteEffect DEF MemoryInv
<1>2. /\ \A x : Line(x)' = Line(x)
      /\ \A x \in Task : Begun(x)' <=> Begun(x)
      /\ \A x \in Task : Unreturned(x)' => Unreturned(x)
      /\ \A x : home(x)' = home(x)
  <2>1. \A x : Line(x)' = Line(x) /\ home(x)' = home(x)
    BY <1>1 DEF Line, home
  <2>2. \A x \in Task : Begun(x)' <=> Begun(x)
    BY <1>1 DEF Begun
  <2>3. \A x \in Task : Unreturned(x)' => Unreturned(x)
    BY <1>1 DEF Unreturned
  <2> QED BY <2>1, <2>2, <2>3
<1>3. MemoryTypeOK'
  <2>1. stage' \in [Task -> Stage]
    BY <1>0 DEF write_memory, Stage
  <2>2. in_time' \subseteq Task
    BY <1>0, <1>1
  <2> QED BY <1>1, <2>1, <2>2 DEF MemoryInv, MemoryTypeOK
<1>c. \A x \in Task : \A e \in DOMAIN changes'[x] :
        e \in DOMAIN changes[x] \/ (place[x] = x /\ memory[x][e] # backup[x][e])
  <2> SUFFICES ASSUME NEW x \in Task, NEW e \in DOMAIN changes'[x]
               PROVE  e \in DOMAIN changes[x] \/ (place[x] = x /\ memory[x][e] # backup[x][e])
    OBVIOUS
  <2>1. CASE x # t
    BY <1>1, <2>1
  <2>2. CASE x = t /\ changes' = changes
    BY <2>2
  <2>3. CASE x = t /\ place[t] = t /\ e \in {f \in Element : memory[t][f] # backup[t][f]}
    BY <2>3
  <2> QED BY <1>1, <2>1, <2>2, <2>3
<1>4. TreeInv'
  <2>1. stage'[Root] = "running" /\ parent'[Root] = Root /\ place'[Root] = Root
    BY <1>0, <1>1 DEF MemoryInv, TreeInv, Element
  <2>2. \A x \in Task : stage'[x] = "new" <=> stage[x] = "new"
    BY <1>1
  <2>3. ASSUME NEW x \in Element
        PROVE  /\ parent'[x] < x /\ Begun(parent[x])'
               /\ stage'[x] = "new" => parent'[x] = Root
               /\ stage'[x] # "new" => selected'[x] = x
    <3>1. parent[x] \in Task /\ Begun(parent[x])
      BY <1>0 DEF MemoryInv, TreeInv
    <3>2. Begun(parent[x])'
      BY <1>1, <3>1 DEF Begun
    <3> QED BY <1>0, <1>1, <2>2, <3>2 DEF MemoryInv, TreeInv
  <2>4. \A x, u \in Task : stage'[x] = "new" /\ x <= u => stage'[u] = "new"
    BY <2>2 DEF MemoryInv, TreeInv
  <2> QED BY <2>1, <2>3, <2>4 DEF TreeInv
<1>5. PlaceInv'
  <2>1. ASSUME NEW x \in Element
        PROVE  /\ ~Begun(x)' => place'[x] = Root /\ written'[x] = Nothing
               /\ stage'[x] = "sent" => place'[x] = x
    <3>1. Begun(x)' <=> Begun(x)
      BY <1>0, <1>2
    <3>2. stage'[x] = "sent" => stage[x] = "sent" \/ place[x] = x
      BY <1>0, <1>1
    <3> QED BY <1>1, <3>1, <3>2 DEF MemoryInv, PlaceInv
  <2>2. ASSUME NEW x \in Task, Begun(x)'
        PROVE  /\ place'[x] \in {x, home(x)'} \cap Line(x)'
               /\ Begun(place[x])' /\ place'[place'[x]] = place'[x]
    <3>1. /\ place[x] \in {x, home(x)} \cap Line(x) /\ place[x] \in Task
          /\ Begun(place[x]) /\ place[place[x]] = place[x]
      BY <1>0, <1>2, <2>2 DEF MemoryInv, PlaceInv
    <3>2. Begun(place[x])'
      BY <1>1, <3>1 DEF Begun
    <3> QED BY <1>1, <1>2, <3>1, <3>2
  <2>3. ASSUME NEW x \in in_time'  PROVE x \in Element /\ stage'[x] = "done"
    <3>1. x \in Element /\ stage[x] = "done"
      BY <1>1, <2>3 DEF MemoryInv, PlaceInv
    <3> QED BY <1>0, <1>1, <3>1
  <2> QED BY <2>1, <2>2, <2>3 DEF PlaceInv
<1>6. NearestInv'
  <2> SUFFICES ASSUME NEW x \in Task, NEW u \in Line(x)' \ {Root},
                      Begun(x)', place'[u] = u
               PROVE  u \in Line(place[x])'
    BY DEF NearestInv
  <2>1. u \in Line(place[x])
    BY <1>1, <1>2 DEF MemoryInv, NearestInv
  <2> QED BY <1>1, <2>1 DEF Line
<1>7. UntouchedInv'
  <2> SUFFICES ASSUME NEW e \in Element, written'[e] = Nothing, NEW u \in Task
               PROVE  memory'[u][e] = 0 /\ backup'[u][e] = 0 /\ e \notin DOMAIN changes'[u]
    BY DEF UntouchedInv
  <2>1. memory[u][e] = 0 /\ backup[u][e] = 0 /\ e \notin DOMAIN changes[u]
    BY <1>1 DEF MemoryInv, UntouchedInv
  <2>2. e \notin DOMAIN changes'[u]
    BY <1>c, <2>1
  <2> QED BY <1>1, <2>1, <2>2
<1>8. CopyInv'
  <2> SUFFICES ASSUME NEW e \in Element, NEW u \in Element
               PROVE  /\ place'[u] = u =>
                           /\ u \in Line(e)' => backup'[u][e] = 0
                           /\ memory'[u][e] # backup'[u][e] => u \in Line(e)'
                      /\ e \in DOMAIN changes'[u] => u \in Line(e)'
    BY DEF CopyInv
  <2>1. /\ place[u] = u =>
             /\ u \in Line(e) => backup[u][e] = 0
             /\ memory[u][e] # backup[u][e] => u \in Line(e)
        /\ e \in DOMAIN changes[u] => u \in Line(e)
    BY DEF MemoryInv, CopyInv
  <2>2. e \in DOMAIN changes'[u] =>
          e \in DOMAIN changes[u] \/ (place[u] = u /\ memory[u][e] # backup[u][e])
    BY <1>0, <1>c
  <2> QED BY <1>1, <1>2, <2>1, <2>2
<1>9. UnseenInv'
  <2> SUFFICES ASSUME NEW e \in Element, NEW u \in Element, NEW w \in Task,
                      u \in Line(e)', Unreturned(u)', u \notin Line(w)'
               PROVE  memory'[w][e] = 0 /\ backup'[w][e] = 0 /\ e \notin DOMAIN changes'[w]
    BY DEF UnseenInv
  <2>1. memory[w][e] = 0 /\ backup[w][e] = 0 /\ e \notin DOMAIN changes[w]
    BY <1>0, <1>2 DEF MemoryInv, UnseenInv
  <2>2. e \notin DOMAIN changes'[w]
    BY <1>c, <2>1
  <2> QED BY <1>1, <2>1, <2>2
<1>10. OwnInv'
  BY <1>0, <1>1 DEF MemoryInv, OwnInv
<1>11. CarriedInv'
  <2> SUFFICES ASSUME NEW e \in Element, NEW u \in Element,
                      stage'[u] = "sent", written'[e] # Nothing,
                      e = u \/ (e \in in_time' /\ parent'[e] = u)
               PROVE  IF e \in DOMAIN changes'[u] THEN changes'[u][e] = written'[e]
                                                  ELSE written'[e] = 0
    BY DEF CarriedInv
  <2>1. CASE u = t
    <3>1. place[t] = t /\ written[e] # Nothing /\ (e = t \/ parent[e] = t)
      BY <1>1, <2>1
    <3>2. memory[t][e] = written[e]
      <4>1. CASE e = t
        BY <1>1, <3>1, <4>1 DEF MemoryInv, OwnInv
      <4>2. CASE e # t
        <5>1. stage[e] = "done" /\ parent[e] = t
          BY <1>1, <2>1, <4>2 DEF MemoryInv, PlaceInv
        <5> QED BY <3>1, <5>1 DEF MemoryInv, ResultAtOrigin, home
      <4> QED BY <4>1, <4>2
    <3>3. t \in Line(e)
      <4>1. Line(e) = {e} \cup Line(parent[e]) /\ t \in Line(t)
        BY <1>0, LineFacts DEF MemoryInv
      <4> QED BY <3>1, <4>1
    <3>4. backup[t][e] = 0
      BY <1>1, <3>1, <3>3 DEF MemoryInv, CopyInv
    <3> QED BY <1>1, <2>1, <3>1, <3>2, <3>4
  <2>2. CASE u # t
    <3>1. stage[u] = "sent" /\ changes'[u] = changes[u] /\ written[e] # Nothing
      BY <1>0, <1>1, <2>2
    <3>2. e = u \/ (e \in in_time /\ parent[e] = u)
      BY <1>1, <2>2
    <3> QED BY <1>1, <3>1, <3>2 DEF MemoryInv, CarriedInv
  <2> QED BY <2>1, <2>2
<1>12. ResultAtOrigin'
  <2> SUFFICES ASSUME NEW e \in Element, stage'[e] = "done", written'[e] # Nothing
               PROVE  memory'[home(e)'][e] = written'[e]
    BY DEF ResultAtOrigin
  <2>1. CASE e = t
    <3>1. place[t] = home(t)
      BY <1>1, <2>1
    <3>2. memory[place[t]][t] = written[t]
      BY <1>1, <2>1 DEF MemoryInv, OwnInv
    <3> QED BY <1>1, <1>2, <2>1, <3>1, <3>2
  <2>2. CASE e # t
    <3>1. stage[e] = "done"
      BY <1>0, <1>1, <2>2
    <3> QED BY <1>1, <1>2, <3>1 DEF MemoryInv, ResultAtOrigin
  <2> QED BY <2>1, <2>2
<1>13. ResultHandedOn'
  <2> SUFFICES ASSUME NEW e \in Element, e \in in_time', stage'[parent'[e]] = "done",
                      written'[e] # Nothing
               PROVE  memory'[home(parent[e])'][e] = written'[e]
    BY DEF ResultHandedOn
  <2>0. home(parent[e])' = home(parent[e])
    BY <1>1 DEF home
  <2>1. written[e] # Nothing /\ memory' = memory /\ written' = written /\ parent[e] \in Task
    BY <1>0, <1>1
  <2>2. CASE parent[e] = t
    <3>1. stage[e] = "done" /\ place[t] = home(t)
      BY <1>1, <2>2 DEF MemoryInv, PlaceInv
    <3>2. memory[home(e)][e] = written[e]
      BY <2>1, <3>1 DEF MemoryInv, ResultAtOrigin
    <3> QED BY <2>0, <2>1, <2>2, <3>1, <3>2 DEF home
  <2>3. CASE parent[e] # t
    <3>1. e \in in_time /\ stage[parent[e]] = "done"
      BY <1>1, <2>1, <2>3
    <3>2. memory[home(parent[e])][e] = written[e]
      BY <2>1, <3>1 DEF MemoryInv, ResultHandedOn
    <3> QED BY <2>0, <2>1, <3>2
  <2> QED BY <2>2, <2>3
<1> QED
  BY <1>3, <1>4, <1>5, <1>6, <1>7, <1>8, <1>9, <1>10, <1>11, <1>12, <1>13 DEF MemoryInv

------------------------------------------------------------------------------
(* The changes of a task are applied where its copy was made from, and     *)
(* nothing else is touched.                                                *)
LEMMA HandleEffect ==
  ASSUME MemoryTypeOK, TreeInv, PlaceInv, NEW t \in Task, handle_write_memory(t)
  PROVE  /\ t \in Element /\ stage[t] = "sent" /\ Begun(t) /\ place[t] = t
         /\ \A x \in Task : stage'[x] = IF x = t THEN "done" ELSE stage[x]
         /\ memory' \in [Task -> Contents]
         /\ \A x \in Task : \A e \in Element :
              memory'[x][e] = IF x = home(t) /\ e \in DOMAIN changes[t]
                              THEN changes[t][e] ELSE memory[x][e]
         /\ UNCHANGED <<parent, selected, place, backup, changes, written, in_time>>
<1>0. /\ Task = Element \cup {Root} /\ Element \subseteq Task
      /\ stage \in [Task -> Stage] /\ changes \in [Task -> Changes]
      /\ memory \in [Task -> [Element -> Value]]
  BY TypeFacts
<1>1. /\ stage[t] = "sent"
      /\ stage' = [stage EXCEPT ![t] = "done"]
      /\ UNCHANGED <<parent, selected, place, backup, changes, written, in_time>>
  BY DEF handle_write_memory
<1>2. t \in Element
  BY <1>0, <1>1 DEF TreeInv
<1>3. Begun(t) /\ place[t] = t
  BY <1>1, <1>2 DEF PlaceInv, Begun
<1>4. home(t) \in Task
  BY <1>2, LineFacts
<1>5. PICK d \in SUBSET Element : changes[t] \in [d -> Value]
  BY <1>0 DEF Changes
<1> DEFINE new == [e \in Element |-> IF e \in DOMAIN changes[t] THEN changes[t][e]
                                                           ELSE memory[home(t)][e]]
<1>6. new \in [Element -> Value]
  BY <1>0, <1>4, <1>5
<1>7. memory' = [memory EXCEPT ![home(t)] = new]
  BY <1>0, <1>4 DEF handle_write_memory
<1>8. \A e \in Element : new[e] = IF e \in DOMAIN changes[t] THEN changes[t][e]
                                                        ELSE memory[home(t)][e]
  OBVIOUS
<1> HIDE DEF new
<1>9. memory' \in [Task -> [Element -> Value]]
  BY <1>0, <1>6, <1>7
<1>10. \A x \in Task : \A e \in Element :
         memory'[x][e] = IF x = home(t) /\ e \in DOMAIN changes[t]
                         THEN changes[t][e] ELSE memory[x][e]
  BY <1>0, <1>4, <1>7, <1>8
<1>11. \A x \in Task : stage'[x] = IF x = t THEN "done" ELSE stage[x]
  BY <1>0, <1>1
<1> QED BY <1>1, <1>2, <1>3, <1>9, <1>10, <1>11 DEF Contents

(* A write-back keeps the invariant: it changes what its task and those on *)
(* whose line it is assigned, and who is done is not among them.           *)
LEMMA HandleKeeps ==
  ASSUME MemoryInv, NEW t \in Task, handle_write_memory(t)
  PROVE  MemoryInv'
<1>0. /\ Task = Element \cup {Root} /\ Element \subseteq Task /\ Task \subseteq Nat
      /\ stage \in [Task -> Stage] /\ place \in [Task -> Task] /\ parent \in [Task -> Task]
      /\ in_time \subseteq Task
  BY TypeFacts DEF MemoryInv
<1>1. /\ t \in Element /\ stage[t] = "sent" /\ Begun(t) /\ place[t] = t
      /\ \A x \in Task : stage'[x] = IF x = t THEN "done" ELSE stage[x]
      /\ memory' \in [Task -> Contents]
      /\ \A x \in Task : \A e \in Element :
           memory'[x][e] = IF x = home(t) /\ e \in DOMAIN changes[t]
                           THEN changes[t][e] ELSE memory[x][e]
      /\ UNCHANGED <<parent, selected, place, backup, changes, written, in_time>>
  BY HandleEffect DEF MemoryInv
<1>2. /\ \A x : Line(x)' = Line(x)
      /\ \A x \in Task : Begun(x)' <=> Begun(x)
      /\ \A x \in Task : Unreturned(x)' => Unreturned(x) /\ x # t
      /\ \A x : home(x)' = home(x)
  <2>1. \A x : Line(x)' = Line(x) /\ home(x)' = home(x)
    BY <1>1 DEF Line, home
  <2>2. \A x \in Task : Begun(x)' <=> Begun(x)
    BY <1>1 DEF Begun
  <2>3. \A x \in Task : Unreturned(x)' => Unreturned(x) /\ x # t
    BY <1>1 DEF Unreturned
  <2> QED BY <2>1, <2>2, <2>3
<1>3. /\ Unreturned(t) /\ t # Root
      /\ home(t) \in Task /\ home(t) < t /\ home(t) \in Line(parent[t])
      /\ t \notin Line(home(t))
      /\ \A x \in Element : Line(x) = {x} \cup Line(parent[x])
      /\ \A x \in Task : \A u \in Line(x) : u \in Task /\ Line(u) \subseteq Line(x)
      /\ t \in Line(t)
      /\ \A x \in Task : parent[x] \in Task /\ Begun(parent[x])
  <2>1. Unreturned(t) /\ t # Root
    BY <1>1 DEF Unreturned, Element
  <2>2. \A x \in Task : parent[x] \in Task /\ Begun(parent[x])
    BY <1>0 DEF MemoryInv, TreeInv, Begun
  <2>3. /\ \A x \in Task : Line(x) = {x} \cup Line(parent[x])
        /\ \A x \in Task : \A u \in Line(x) : u \in Task /\ Line(u) \subseteq Line(x)
    BY LineFacts DEF MemoryInv
  <2>4. /\ home(t) \in Task /\ home(t) < t /\ home(t) \in Line(parent[t])
        /\ t \notin Line(home(t))
    BY <1>1, LineFacts DEF MemoryInv
  <2> QED BY <1>0, <2>1, <2>2, <2>3, <2>4
(* What is sent was assigned by tasks t is on the line of.                 *)
<1>4. \A e \in Element : e \in DOMAIN changes[t] => t \in Line(e)
  BY <1>1 DEF MemoryInv, CopyInv
(* And none of those works on the copy the changes are applied to.         *)
<1>5. \A x \in Task : Begun(x) /\ t \in Line(x) => place[x] # home(t)
  <2> SUFFICES ASSUME NEW x \in Task, Begun(x), t \in Line(x)  PROVE place[x] # home(t)
    OBVIOUS
  <2>1. t \in Line(place[x])
    BY <1>1, <1>3 DEF MemoryInv, NearestInv
  <2> QED BY <1>3, <2>1
<1>6. \A e \in Element : e \in DOMAIN changes[t] /\ e # t => home(e) # home(t)
  <2> SUFFICES ASSUME NEW e \in Element, e \in DOMAIN changes[t], e # t
               PROVE  home(e) # home(t)
    OBVIOUS
  <2>1. t \in Line(parent[e])
    BY <1>3, <1>4
  <2> QED BY <1>0, <1>3, <1>5, <2>1 DEF home
<1>7. \A e \in Element : t \in Line(e) => memory[home(t)][e] = 0
  BY <1>1, <1>3 DEF MemoryInv, UnseenInv
<1>8. MemoryTypeOK'
  <2>1. stage' \in [Task -> Stage]
    BY <1>0 DEF handle_write_memory, Stage
  <2> QED BY <1>1, <2>1 DEF MemoryInv, MemoryTypeOK
<1>9. TreeInv'
  <2>1. stage'[Root] = "running" /\ parent'[Root] = Root /\ place'[Root] = Root
    BY <1>0, <1>1, <1>3 DEF MemoryInv, TreeInv
  <2>2. \A x \in Task : stage'[x] = "new" <=> stage[x] = "new"
    BY <1>1
  <2>3. ASSUME NEW x \in Element
        PROVE  /\ parent'[x] < x /\ Begun(parent[x])'
               /\ stage'[x] = "new" => parent'[x] = Root
               /\ stage'[x] # "new" => selected'[x] = x
    <3>1. Begun(parent[x])'
      BY <1>0, <1>1, <1>3 DEF Begun
    <3> QED BY <1>0, <1>1, <2>2, <3>1 DEF MemoryInv, TreeInv
  <2>4. \A x, u \in Task : stage'[x] = "new" /\ x <= u => stage'[u] = "new"
    BY <2>2 DEF MemoryInv, TreeInv
  <2> QED BY <2>1, <2>3, <2>4 DEF TreeInv
<1>10. PlaceInv'
  <2>1. ASSUME NEW x \in Element
        PROVE  /\ ~Begun(x)' => place'[x] = Root /\ written'[x] = Nothing
               /\ stage'[x] = "sent" => place'[x] = x
    <3>1. (Begun(x)' <=> Begun(x)) /\ (stage'[x] = "sent" => stage[x] = "sent")
      BY <1>0, <1>1, <1>2
    <3> QED BY <1>1, <3>1 DEF MemoryInv, PlaceInv
  <2>2. ASSUME NEW x \in Task, Begun(x)'
        PROVE  /\ place'[x] \in {x, home(x)'} \cap Line(x)'
               /\ Begun(place[x])' /\ place'[place'[x]] = place'[x]
    <3>1. /\ place[x] \in {x, home(x)} \cap Line(x) /\ place[x] \in Task
          /\ Begun(place[x]) /\ place[place[x]] = place[x]
      BY <1>0, <1>2, <2>2 DEF MemoryInv, PlaceInv
    <3>2. Begun(place[x])'
      BY <1>1, <3>1 DEF Begun
    <3> QED BY <1>1, <1>2, <3>1, <3>2
  <2>3. ASSUME NEW x \in in_time'  PROVE x \in Element /\ stage'[x] = "done"
    <3>1. x \in Element /\ stage[x] = "done"
      BY <1>1, <2>3 DEF MemoryInv, PlaceInv
    <3> QED BY <1>0, <1>1, <3>1
  <2> QED BY <2>1, <2>2, <2>3 DEF PlaceInv
<1>11. NearestInv'
  <2> SUFFICES ASSUME NEW x \in Task, NEW u \in Line(x)' \ {Root},
                      Begun(x)', place'[u] = u
               PROVE  u \in Line(place[x])'
    BY DEF NearestInv
  <2>1. u \in Line(place[x])
    BY <1>1, <1>2 DEF MemoryInv, NearestInv
  <2> QED BY <1>1, <2>1 DEF Line
<1>12. UntouchedInv'
  <2> SUFFICES ASSUME NEW e \in Element, written'[e] = Nothing, NEW u \in Task
               PROVE  memory'[u][e] = 0 /\ backup'[u][e] = 0 /\ e \notin DOMAIN changes'[u]
    BY DEF UntouchedInv
  <2>1. \A w \in Task : memory[w][e] = 0 /\ backup[w][e] = 0 /\ e \notin DOMAIN changes[w]
    BY <1>1 DEF MemoryInv, UntouchedInv
  <2> QED BY <1>1, <2>1
<1>13. CopyInv'
  <2> SUFFICES ASSUME NEW e \in Element, NEW u \in Element
               PROVE  /\ place'[u] = u =>
                           /\ u \in Line(e)' => backup'[u][e] = 0
                           /\ memory'[u][e] # backup'[u][e] => u \in Line(e)'
                      /\ e \in DOMAIN changes'[u] => u \in Line(e)'
    BY DEF CopyInv
  <2>1. /\ place[u] = u =>
             /\ u \in Line(e) => backup[u][e] = 0
             /\ memory[u][e] # backup[u][e] => u \in Line(e)
        /\ e \in DOMAIN changes[u] => u \in Line(e)
    BY DEF MemoryInv, CopyInv
  <2>2. CASE u = home(t) /\ e \in DOMAIN changes[t]
    <3>1. home(t) \in Line(t) /\ Line(t) \subseteq Line(e)
      BY <1>0, <1>1, <1>3, <1>4, <2>2
    <3> QED BY <1>1, <1>2, <2>1, <2>2, <3>1
  <2>3. CASE ~(u = home(t) /\ e \in DOMAIN changes[t])
    <3>1. memory'[u][e] = memory[u][e]
      BY <1>0, <1>1, <2>3
    <3> QED BY <1>1, <1>2, <2>1, <3>1
  <2> QED BY <2>2, <2>3
<1>14. UnseenInv'
  <2> SUFFICES ASSUME NEW e \in Element, NEW u \in Element, NEW w \in Task,
                      u \in Line(e)', Unreturned(u)', u \notin Line(w)'
               PROVE  memory'[w][e] = 0 /\ backup'[w][e] = 0 /\ e \notin DOMAIN changes'[w]
    BY DEF UnseenInv
  <2>1. /\ u \in Line(e) /\ Unreturned(u) /\ u # t /\ u \notin Line(w)
        /\ place[u] = u /\ u # Root
    BY <1>0, <1>2 DEF Unreturned, Element
  <2>2. \A x \in Task : u \notin Line(x) =>
          memory[x][e] = 0 /\ backup[x][e] = 0 /\ e \notin DOMAIN changes[x]
    BY <2>1 DEF MemoryInv, UnseenInv
  <2>3. ~(w = home(t) /\ e \in DOMAIN changes[t])
    <3> SUFFICES ASSUME w = home(t), e \in DOMAIN changes[t]  PROVE FALSE
      OBVIOUS
    <3>1. u \in Line(parent[t])
      <4>1. u \in Line(t)
        BY <1>0, <2>2
      <4>2. Line(t) = {t} \cup Line(parent[t])
        BY <1>1, <1>3
      <4> QED BY <2>1, <4>1, <4>2
    <3>2. parent[t] \in Task /\ Begun(parent[t])
      BY <1>3
    <3>3. u \in Line(place[parent[t]])
      BY <2>1, <3>1, <3>2 DEF MemoryInv, NearestInv
    <3> QED BY <2>1, <3>3 DEF home
  <2> QED BY <1>1, <2>1, <2>2, <2>3
<1>15. OwnInv'
  <2> SUFFICES ASSUME NEW e \in Element, stage'[e] = "running", written'[e] # Nothing
               PROVE  memory'[place'[e]][e] = written'[e]
    BY DEF OwnInv
  <2>1. stage[e] = "running" /\ Begun(e) /\ place[e] \in Task
    BY <1>0, <1>1 DEF Begun
  <2>2. memory[place[e]][e] = written[e]
    BY <1>1, <2>1 DEF MemoryInv, OwnInv
  <2>3. ~(place[e] = home(t) /\ e \in DOMAIN changes[t])
    BY <1>0, <1>4, <1>5, <2>1
  <2> QED BY <1>1, <2>1, <2>2, <2>3
<1>16. CarriedInv'
  <2> SUFFICES ASSUME NEW e \in Element, NEW u \in Element,
                      stage'[u] = "sent", written'[e] # Nothing,
                      e = u \/ (e \in in_time' /\ parent'[e] = u)
               PROVE  IF e \in DOMAIN changes'[u] THEN changes'[u][e] = written'[e]
                                                  ELSE written'[e] = 0
    BY DEF CarriedInv
  <2>1. stage[u] = "sent"
    BY <1>0, <1>1
  <2> QED BY <1>1, <2>1 DEF MemoryInv, CarriedInv
<1>17. ResultAtOrigin'
  <2> SUFFICES ASSUME NEW e \in Element, stage'[e] = "done", written'[e] # Nothing
               PROVE  memory'[home(e)'][e] = written'[e]
    BY DEF ResultAtOrigin
  <2>0. home(e)' = home(e) /\ home(e) \in Task /\ written'[e] = written[e] /\ written[e] # Nothing
    BY <1>0, <1>1, <1>2 DEF home
  <2>1. CASE e = t
    <3>1. IF t \in DOMAIN changes[t] THEN changes[t][t] = written[t] ELSE written[t] = 0
      BY <1>1, <2>0, <2>1 DEF MemoryInv, CarriedInv
    <3>2. memory[home(t)][t] = 0
      BY <1>1, <1>3, <1>7
    <3> QED BY <1>1, <2>0, <2>1, <3>1, <3>2
  <2>2. CASE e # t
    <3>1. memory[home(e)][e] = written[e]
      BY <1>0, <1>1, <2>0, <2>2 DEF MemoryInv, ResultAtOrigin
    <3>2. ~(home(e) = home(t) /\ e \in DOMAIN changes[t])
      BY <1>6, <2>2
    <3> QED BY <1>1, <2>0, <3>1, <3>2
  <2> QED BY <2>1, <2>2
<1>18. ResultHandedOn'
  <2> SUFFICES ASSUME NEW e \in Element, e \in in_time', stage'[parent'[e]] = "done",
                      written'[e] # Nothing
               PROVE  memory'[home(parent[e])'][e] = written'[e]
    BY DEF ResultHandedOn
  <2>0. /\ home(parent[e])' = home(parent[e]) /\ home(parent[e]) \in Task
        /\ written'[e] = written[e] /\ written[e] # Nothing
        /\ e \in in_time /\ stage[e] = "done" /\ parent[e] \in Task /\ e # t
    BY <1>0, <1>1 DEF home, MemoryInv, PlaceInv
  <2>1. CASE parent[e] = t
    <3>1. IF e \in DOMAIN changes[t] THEN changes[t][e] = written[e] ELSE written[e] = 0
      BY <1>1, <2>0, <2>1 DEF MemoryInv, CarriedInv
    <3>2. memory[home(t)][e] = 0
      BY <1>0, <1>3, <1>7, <2>1
    <3> QED BY <1>1, <2>0, <2>1, <3>1, <3>2
  <2>2. CASE parent[e] # t
    <3>1. stage[parent[e]] = "done" /\ parent[e] \in Element
      BY <1>0, <1>1, <2>0, <2>2 DEF MemoryInv, TreeInv
    <3>2. memory[home(parent[e])][e] = written[e]
      BY <2>0, <3>1 DEF MemoryInv, ResultHandedOn
    <3>3. ~(home(parent[e]) = home(t) /\ e \in DOMAIN changes[t])
      <4> SUFFICES ASSUME e \in DOMAIN changes[t]  PROVE home(parent[e]) # home(t)
        OBVIOUS
      <4>1. t \in Line(parent[e])
        BY <1>3, <1>4, <2>0
      <4>2. t \in Line(parent[parent[e]])
        BY <1>3, <2>2, <3>1, <4>1
      <4>3. parent[parent[e]] \in Task /\ Begun(parent[parent[e]])
        BY <1>3, <2>0
      <4> QED BY <1>5, <4>2, <4>3 DEF home
    <3> QED BY <1>1, <2>0, <3>2, <3>3
  <2> QED BY <2>1, <2>2
<1> QED
  BY <1>8, <1>9, <1>10, <1>11, <1>12, <1>13, <1>14, <1>15, <1>16, <1>17, <1>18 DEF MemoryInv

------------------------------------------------------------------------------
(* MemoryInv holds at first, when there is only Root.                      *)
LEMMA MemoryInit ==
  ASSUME Init
  PROVE  MemoryInv
<1>0. /\ Task = Element \cup {Root} /\ Element \subseteq Task /\ Task \subseteq Nat
      /\ Root \in Task /\ Root \notin Element
  BY MaxTaskAssumption DEF Element
<1>1. MemoryTypeOK
  <2>1. Zeroes \in Contents
    BY ValueAssumption DEF Zeroes, Contents
  <2>2. [e \in {} |-> 0] \in Changes
    <3>1. [e \in {} |-> 0] \in [{} -> Value]
      OBVIOUS
    <3>2. {} \in SUBSET Element
      OBVIOUS
    <3> QED BY <3>1, <3>2 DEF Changes
  <2>3. stage \in [Task -> Stage]
    BY DEF Init, Stage
  <2> QED BY <1>0, <2>1, <2>2, <2>3 DEF Init, MemoryTypeOK
<1>2. /\ \A t \in Task : (Begun(t) <=> t = Root) /\ ~(stage[t] \in {"sent", "done"})
      /\ \A t \in Task : parent[t] = Root /\ place[t] = Root
      /\ \A t \in Task : stage[t] = IF t = Root THEN "running" ELSE "new"
      /\ \A t \in Task : written[t] = Nothing /\ changes[t] = [e \in {} |-> 0]
      /\ \A u \in Task : \A t \in Element : memory[u][t] = 0 /\ backup[u][t] = 0
      /\ in_time = {}
  BY <1>0 DEF Init, Begun, Zeroes
<1>3. TreeInv
  BY <1>0, <1>2 DEF TreeInv
<1>4. Line(Root) = {Root}
  <2>1. Line(Root) = {Root} \cup Line(parent[Root])
    BY <1>0, <1>1, LineStep, TypeFacts DEF Line
  <2>2. \A x \in Task : parent[x] <= x
    BY <1>0, <1>2
  <2>3. \A u \in Line(Root) : u \in Task /\ u <= Root
    BY <1>0, <1>1, <2>2, LineOlder, LineOfLine, TypeFacts DEF Line
  <2> QED BY <1>0, <2>1, <2>3
<1>5. PlaceInv
  BY <1>0, <1>2, <1>4 DEF PlaceInv, home
<1>6. NearestInv
  BY <1>0, <1>2, <1>4 DEF NearestInv
<1>7. UntouchedInv
  BY <1>0, <1>2 DEF UntouchedInv
<1>8. CopyInv
  BY <1>0, <1>2 DEF CopyInv
<1>9. UnseenInv
  BY <1>0, <1>2 DEF UnseenInv
<1>10. OwnInv /\ CarriedInv /\ ResultAtOrigin /\ ResultHandedOn
  BY <1>0, <1>2 DEF OwnInv, CarriedInv, ResultAtOrigin, ResultHandedOn
<1> QED BY <1>1, <1>3, <1>5, <1>6, <1>7, <1>8, <1>9, <1>10 DEF MemoryInv

(* Every step keeps MemoryInv.                                             *)
LEMMA MemoryStep ==
  ASSUME MemoryInv, [Next]_vars
  PROVE  MemoryInv'
<1>1. ASSUME NEW p \in Task, NEW t \in Task, handle_create_task(p, t)  PROVE MemoryInv'
  BY <1>1, CreateKeeps
<1>2. ASSUME NEW t \in Task, run_local(t)  PROVE MemoryInv'
  BY <1>2, RunLocalKeeps
<1>3. ASSUME NEW t \in Task, request_memory(t)  PROVE MemoryInv'
  BY <1>3, RequestKeeps
<1>4. ASSUME NEW t \in Task, NEW v \in Value, assign(t, v)  PROVE MemoryInv'
  BY <1>4, AssignKeeps
<1>5. ASSUME NEW t \in Task, write_memory(t)  PROVE MemoryInv'
  BY <1>5, WriteKeeps
<1>6. ASSUME NEW t \in Task, handle_write_memory(t)  PROVE MemoryInv'
  BY <1>6, HandleKeeps
<1>7. CASE UNCHANGED vars
  <2>1. /\ stage' = stage /\ parent' = parent /\ selected' = selected /\ place' = place
        /\ memory' = memory /\ backup' = backup /\ changes' = changes
        /\ written' = written /\ in_time' = in_time
    BY <1>7 DEF vars
  <2>2. MemoryTypeOK'
    BY <2>1 DEF MemoryInv, MemoryTypeOK
  <2>3. TreeInv'
    BY <2>1 DEF MemoryInv, TreeInv, Begun
  <2>4. PlaceInv' /\ NearestInv'
    BY <2>1 DEF MemoryInv, PlaceInv, NearestInv, Begun, Line, home
  <2>5. UntouchedInv' /\ CopyInv' /\ UnseenInv'
    BY <2>1 DEF MemoryInv, UntouchedInv, CopyInv, UnseenInv, Unreturned, Line
  <2>6. OwnInv' /\ CarriedInv' /\ ResultAtOrigin' /\ ResultHandedOn'
    BY <2>1 DEF MemoryInv, OwnInv, CarriedInv, ResultAtOrigin, ResultHandedOn, home
  <2> QED BY <2>2, <2>3, <2>4, <2>5, <2>6 DEF MemoryInv
<1> QED BY <1>1, <1>2, <1>3, <1>4, <1>5, <1>6, <1>7 DEF Next

(* MemoryInv is an invariant of the transfers of shared variables.         *)
THEOREM MemoryInvariance == Spec => []MemoryInv
<1>1. Init => MemoryInv
  BY MemoryInit
<1>2. MemoryInv /\ [Next]_vars => MemoryInv'
  BY MemoryStep
<1> QED BY <1>1, <1>2, PTL DEF Spec

(* Every variable has its type; no element outside the array is selected.  *)
THEOREM MemoryTypes == Spec => []MemoryTypeOK
<1>1. MemoryInv => MemoryTypeOK
  BY DEF MemoryInv
<1> QED BY <1>1, MemoryInvariance, PTL

(* No write-back undoes another one: what a task assigned stays where its  *)
(* variables came from, whoever else writes back, in whatever order.       *)
THEOREM OriginKeepsResult == Spec => []ResultAtOrigin
<1>1. MemoryInv => ResultAtOrigin
  BY DEF MemoryInv
<1> QED BY <1>1, MemoryInvariance, PTL

(* The results a parent finds when it writes back reach its own origin,    *)
(* the zeroes among them, which are not sent, included.                    *)
THEOREM ParentHandsOn == Spec => []ResultHandedOn
<1>1. MemoryInv => ResultHandedOn
  BY DEF MemoryInv
<1> QED BY <1>1, MemoryInvariance, PTL

(* No transfer changes an element nobody has assigned to.                  *)
THEOREM OthersUndisturbed == Spec => []Undisturbed
<1>1. MemoryInv => Undisturbed
  BY TypeFacts DEF MemoryInv, UntouchedInv, Undisturbed
<1> QED BY <1>1, MemoryInvariance, PTL
=============================================================================
