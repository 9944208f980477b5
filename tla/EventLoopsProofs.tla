--------------------------- MODULE EventLoopsProofs ---------------------------
(***************************************************************************)
(* The previous runtime as a whole: every task is in one place at a time,  *)
(* what a thread says arrives in the order it was said, and so waits end   *)
(* when they may, and the end is the end of all tasks.                     *)
(***************************************************************************)
EXTENDS EventLoops, WaitTreeProofs, SequenceTheorems

(* A thread says nothing after it has said that it waits or has finished   *)
(* until it is woken.                                                      *)
Speaks(m) == m.tag # "FREECAPACITY"
Final(m) == m.tag \in {"COMMAND", "WAITTASK", "WAITALL"}

LastWord(q) ==
  \A i, j \in 1 .. Len(q) : i < j /\ Final(q[i]) /\ Speaks(q[j]) => q[j].task # q[i].task

Silent(t) == \A w \in Worker : \A m \in ToSet(to_runtime[w]) : Speaks(m) => m.task # t

Once(q) == \A i, j \in 1 .. Len(q) : q[i] = q[j] => i = j
OnceEach(q) == \A i, j \in 1 .. Len(q) : q[i] = q[j] /\ q[i].tag # "SHUTDOWN" => i = j

(* What is under way to the runtime process is true.                       *)
SpokenTrue(w, m) ==
  /\ host[m.task] = w /\ ~execution_finished[m.task]
  /\ m.tag = "COMMAND" => HasEnded(m.task)
  /\ m.tag \in {"WAITTASK", "WAITALL"} =>
       thread[m.task] = "blocked" /\ m.task \in waiting_tasks[w]

SpeechInv ==
  \A w \in Worker :
    /\ LastWord(to_runtime[w])
    /\ \A m \in ToSet(to_runtime[w]) : Speaks(m) => SpokenTrue(w, m)

(* What is under way to the workers is true: a task to be started is not   *)
(* yet at any worker, one to be woken is suspended and not about to go on. *)
Ordered(w, t) == Down("COMMAND", t) \in ToSet(to_worker[w])
Called(w, t) == Down("WAKEUPTASK", t) \in ToSet(to_worker[w])
Runnable(w, t) == t \in ToSet(runnable_tasks[w])

OrderInv ==
  \A w \in Worker :
    /\ OnceEach(to_worker[w])
    /\ \A t \in Task :
         /\ Ordered(w, t) =>
              t \in Created /\ host[t] = 0 /\ \A v \in Worker : Ordered(v, t) => v = w
         /\ Called(w, t) =>
              /\ host[t] = w /\ thread[t] = "blocked" /\ t \in waiting_tasks[w]
              /\ ~Runnable(w, t)

(* A task is in the queue, ordered, or at a worker.                        *)
PlaceInv ==
  /\ Once(queued_tasks)
  /\ \A t \in ToSet(queued_tasks) :
       t \in Created /\ host[t] = 0 /\ \A w \in Worker : ~Ordered(w, t)
  /\ \A t \in Task :
       /\ host[t] = 0 => thread[t] = "none"
       /\ host[t] # 0 => t \in Created
       /\ execution_finished[t] => HasEnded(t)
       /\ thread[t] \in {"taskwait", "allwait"} => t \in waiting_tasks[host[t]]
  /\ \A w \in Worker :
       /\ Once(runnable_tasks[w])
       /\ \A t \in ToSet(runnable_tasks[w]) : host[t] = w /\ thread[t] \in {"none", "blocked"}

(* A task that waits is suspended where the runtime process believes, has  *)
(* nothing more to say, and is not being woken; one that is being woken    *)
(* has no child that runs.                                                 *)
WaitInv ==
  \A t \in Task :
    /\ waiting[t] # "no" =>
         /\ thread[t] = "blocked" /\ host[t] = waiting_node[t]
         /\ t \in waiting_tasks[host[t]]
         /\ Silent(t) /\ ~BeingWoken(t)
    /\ BeingWoken(t) => Silent(t) /\ \A c \in children(t) : execution_finished[c]

(* Task creations under way are within the bound.                          *)
BoundInv ==
  IsFiniteSet(Uncreated) /\ id_counter + Cardinality(Uncreated) <= MaxTask + 1

ExitInv == phase = "exit" => \A t \in Created : execution_finished[t]

EventLoopsInv ==
  /\ EventLoopsTypeOK
  /\ TreeInv /\ CountersInv
  /\ SpeechInv /\ OrderInv /\ PlaceInv /\ WaitInv /\ BoundInv /\ ExitInv

UpMsg == [tag : UpTag, task : Task, amount : Int]
DownMsg == [tag : DownTag, task : Task]

------------------------------------------------------------------------------
(* What is in a sequence after Append, Tail, SubSeq and \o.                *)
LEMMA AppendFacts ==
  ASSUME NEW S, NEW q \in Seq(S), NEW e \in S
  PROVE  /\ Append(q, e) \in Seq(S)
         /\ ToSet(Append(q, e)) = ToSet(q) \cup {e}
         /\ Once(q) /\ e \notin ToSet(q) => Once(Append(q, e))
<1> DEFINE r == Append(q, e)
<1>1. /\ r \in Seq(S) /\ Len(q) \in Nat /\ Len(r) = Len(q) + 1
      /\ \A i \in 1 .. Len(q) : r[i] = q[i]
      /\ r[Len(q) + 1] = e
      /\ DOMAIN q = 1 .. Len(q) /\ DOMAIN r = 1 .. Len(r)
  BY AppendProperties, LenProperties
<1> HIDE DEF r
<1>2. \A i \in 1 .. Len(r) : i \in 1 .. Len(q) \/ i = Len(q) + 1
  BY <1>1
<1>3. Len(q) + 1 \in 1 .. Len(r) /\ \A i \in 1 .. Len(q) : i \in 1 .. Len(r)
  BY <1>1
<1>4. ToSet(r) = ToSet(q) \cup {e}
  BY <1>1, <1>2, <1>3 DEF ToSet
<1>5. ASSUME Once(q), e \notin ToSet(q) PROVE Once(r)
  <2>1. \A i \in 1 .. Len(q) : q[i] # e
    BY <1>1, <1>5 DEF ToSet
  <2> QED BY <1>1, <1>2, <1>5, <2>1 DEF Once
<1> QED BY <1>1, <1>4, <1>5 DEF r

(* The head is in the sequence; the rest is in the tail.                   *)
LEMMA TailFacts ==
  ASSUME NEW S, NEW q \in Seq(S), q # << >>
  PROVE  /\ Head(q) \in S /\ Tail(q) \in Seq(S)
         /\ ToSet(q) = ToSet(Tail(q)) \cup {Head(q)}
         /\ Once(q) => Once(Tail(q)) /\ Head(q) \notin ToSet(Tail(q))
<1> DEFINE r == Tail(q)
<1>1. /\ Head(q) \in S /\ r \in Seq(S) /\ Len(r) = Len(q) - 1
      /\ \A i \in 1 .. Len(r) : r[i] = q[i + 1]
      /\ Len(q) \in Nat \ {0}
      /\ DOMAIN q = 1 .. Len(q) /\ DOMAIN r = 1 .. Len(r)
      /\ Head(q) = q[1]
  BY HeadTailProperties, LenProperties, EmptySeq
<1> HIDE DEF r
<1>2. \A i \in 1 .. Len(r) : i + 1 \in 1 .. Len(q) /\ i + 1 # 1
  BY <1>1
<1>3. \A i \in 1 .. Len(q) : i # 1 => i - 1 \in 1 .. Len(r) /\ r[i - 1] = q[i]
  BY <1>1
<1>4. 1 \in 1 .. Len(q)
  BY <1>1
<1>5. ToSet(q) = ToSet(r) \cup {Head(q)}
  <2>1. ToSet(r) \cup {q[1]} \subseteq ToSet(q)
    BY <1>1, <1>2, <1>4 DEF ToSet
  <2>2. ToSet(q) \subseteq ToSet(r) \cup {q[1]}
    BY <1>1, <1>3 DEF ToSet
  <2> QED BY <1>1, <2>1, <2>2
<1>6. ASSUME Once(q) PROVE Once(r) /\ Head(q) \notin ToSet(r)
  <2>1. Once(r)
    <3> SUFFICES ASSUME NEW i \in 1 .. Len(r), NEW j \in 1 .. Len(r), r[i] = r[j] PROVE i = j
      BY DEF Once
    <3>1. i + 1 = j + 1
      BY <1>1, <1>2, <1>6 DEF Once
    <3> QED BY <3>1, <1>1
  <2>2. \A i \in 1 .. Len(r) : r[i] # q[1]
    BY <1>1, <1>2, <1>4, <1>6 DEF Once
  <2> QED BY <1>1, <2>1, <2>2 DEF ToSet
<1> QED BY <1>1, <1>5, <1>6 DEF r

(* The first n elements taken from a sequence, and what is left.           *)
First(q, n) == {q[i] : i \in 1 .. n}
Rest(q, n) == SubSeq(q, n + 1, Len(q))

(* Both parts of a sequence without repetition, and the number taken.      *)
LEMMA DropFacts ==
  ASSUME NEW S, NEW q \in Seq(S), NEW n \in 0 .. Len(q), Once(q)
  PROVE  /\ Rest(q, n) \in Seq(S) /\ Once(Rest(q, n))
         /\ ToSet(q) = First(q, n) \cup ToSet(Rest(q, n))
         /\ First(q, n) \cap ToSet(Rest(q, n)) = {}
         /\ IsFiniteSet(First(q, n)) /\ Cardinality(First(q, n)) = n
<1> DEFINE r == SubSeq(q, n + 1, Len(q))
           taken == {q[i] : i \in 1 .. n}
<1>0. /\ Len(q) \in Nat /\ n \in Nat /\ n <= Len(q) /\ DOMAIN q = 1 .. Len(q)
      /\ \A i \in 1 .. Len(q) : q[i] \in S
  BY LenProperties
<1>a. /\ r \in Seq(S)
      /\ Len(r) = IF n + 1 <= Len(q) THEN Len(q) - (n + 1) + 1 ELSE 0
      /\ \A i \in 1 .. Len(q) - (n + 1) + 1 : r[i] = q[n + 1 + i - 1]
      /\ DOMAIN r = 1 .. Len(r)
  <2>1. \A i \in n + 1 .. Len(q) : q[i] \in S
    BY <1>0
  <2>2. /\ r \in Seq(S)
        /\ Len(r) = IF n + 1 <= Len(q) THEN Len(q) - (n + 1) + 1 ELSE 0
        /\ \A i \in 1 .. Len(q) - (n + 1) + 1 : r[i] = q[n + 1 + i - 1]
    BY <1>0, <2>1, SubSeqProperties
  <2> QED BY <2>2, LenProperties
<1> HIDE DEF r
<1>1. /\ r \in Seq(S) /\ Len(r) = Len(q) - n
      /\ \A i \in 1 .. Len(r) : r[i] = q[n + i]
      /\ DOMAIN r = 1 .. Len(r)
  <2>1. Len(r) = Len(q) - n
    <3>1. Len(r) = IF n + 1 <= Len(q) THEN Len(q) - (n + 1) + 1 ELSE 0
      BY <1>a
    <3>2. \A k, m \in Nat : k <= m =>
            IF k + 1 <= m THEN m - (k + 1) + 1 = m - k ELSE m - k = 0
      OBVIOUS
    <3>3. n \in Nat /\ Len(q) \in Nat /\ n <= Len(q)
      BY <1>0
    <3> QED BY <3>1, <3>2, <3>3
  <2>2. ASSUME NEW i \in 1 .. Len(r) PROVE r[i] = q[n + i]
    <3>1. i \in 1 .. Len(q) - (n + 1) + 1 /\ n + 1 + i - 1 = n + i
      BY <1>0, <2>1
    <3> QED BY <1>a, <3>1
  <2> QED BY <1>a, <2>1, <2>2
<1>2. \A i \in 1 .. Len(r) : n + i \in 1 .. Len(q) /\ n + i \notin 1 .. n
  BY <1>0, <1>1
<1>3. \A i \in 1 .. Len(q) : i \in 1 .. n \/ (i - n \in 1 .. Len(r) /\ r[i - n] = q[i])
  BY <1>0, <1>1
<1>4. \A i \in 1 .. n : i \in 1 .. Len(q)
  BY <1>0
<1>5. Once(r)
  <2> SUFFICES ASSUME NEW i \in 1 .. Len(r), NEW j \in 1 .. Len(r), r[i] = r[j] PROVE i = j
    BY DEF Once
  <2>1. n + i = n + j
    BY <1>1, <1>2 DEF Once
  <2> QED BY <2>1, <1>0
<1>6. ToSet(q) = taken \cup ToSet(r)
  <2>1. taken \subseteq ToSet(q)
    BY <1>0, <1>4 DEF ToSet
  <2>2. ToSet(r) \subseteq ToSet(q)
    BY <1>0, <1>1, <1>2 DEF ToSet
  <2>3. ToSet(q) \subseteq taken \cup ToSet(r)
    BY <1>0, <1>1, <1>3 DEF ToSet
  <2> QED BY <2>1, <2>2, <2>3
<1>7. taken \cap ToSet(r) = {}
  <2> SUFFICES ASSUME NEW i \in 1 .. n, NEW j \in 1 .. Len(r), q[i] = r[j] PROVE FALSE
    BY <1>1 DEF ToSet
  <2>1. i = n + j
    BY <1>1, <1>2, <1>4 DEF Once
  <2> QED BY <2>1, <1>0, <1>2
<1>8. IsFiniteSet(taken) /\ Cardinality(taken) = n
  <2> DEFINE f == [i \in 1 .. n |-> q[i]]
  <2>1. \A i, j \in 1 .. n : q[i] = q[j] => i = j
    BY <1>4 DEF Once
  <2>2. f \in Bijection(1 .. n, taken)
    BY <2>1 DEF Bijection, Injection, Surjection, IsInjective
  <2>3. IsFiniteSet(1 .. n) /\ Cardinality(1 .. n) = n
    BY <1>0, FS_Interval
  <2> QED BY <2>2, <2>3, FS_Bijection DEF ExistsBijection
<1> QED BY <1>1, <1>5, <1>6, <1>7, <1>8 DEF r, First, Rest

(* A set written as a sequence.                                            *)
LEMMA SetToSeqFacts ==
  ASSUME NEW S, IsFiniteSet(S)
  PROVE  SetToSeq(S) \in Seq(S) /\ Once(SetToSeq(S)) /\ ToSet(SetToSeq(S)) \subseteq S
<1> DEFINE n == Cardinality(S)
           q == SetToSeq(S)
<1>1. n \in Nat /\ ExistsBijection(1 .. n, S)
  BY FS_CardinalityType
<1>2. \E f \in [1 .. n -> S] : IsInjective(f)
  BY <1>1 DEF ExistsBijection, Bijection, Injection
<1>3. q \in [1 .. n -> S] /\ IsInjective(q)
  BY <1>2 DEF SetToSeq
<1> HIDE DEF q
<1>4. q \in Seq(S) /\ Len(q) = n /\ DOMAIN q = 1 .. n
  <2>1. q \in UNION {[1 .. m -> S] : m \in Nat}
    BY <1>1, <1>3
  <2>2. q \in Seq(S)
    BY <2>1, SeqDef
  <2>3. DOMAIN q = 1 .. Len(q) /\ Len(q) \in Nat
    BY <2>2, LenProperties
  <2>4. 1 .. n = 1 .. Len(q)
    BY <1>3, <2>3
  <2>5. n = Len(q)
    BY <1>1, <2>3, <2>4
  <2> QED BY <2>2, <2>5, <1>3
<1> QED BY <1>3, <1>4 DEF Once, IsInjective, ToSet, q

------------------------------------------------------------------------------
(* The channels: what sends and receives keep of the order of messages.    *)
LEMMA UpAppend ==
  ASSUME NEW q \in Seq(UpMsg), NEW m \in UpMsg, LastWord(q),
         Speaks(m) => \A x \in ToSet(q) : Final(x) => x.task # m.task
  PROVE  LastWord(Append(q, m))
<1> DEFINE r == Append(q, m)
<1>1. /\ Len(q) \in Nat /\ Len(r) = Len(q) + 1
      /\ \A i \in 1 .. Len(q) : r[i] = q[i]
      /\ r[Len(q) + 1] = m
      /\ DOMAIN q = 1 .. Len(q)
  BY AppendProperties, LenProperties
<1> HIDE DEF r
<1>2. \A i, j \in 1 .. Len(r) : i < j => i \in 1 .. Len(q) /\ (j \in 1 .. Len(q) \/ j = Len(q) + 1)
  BY <1>1
<1>3. \A i \in 1 .. Len(q) : q[i] \in ToSet(q)
  BY <1>1 DEF ToSet
<1>4. LastWord(r)
  <2> SUFFICES ASSUME NEW i \in 1 .. Len(r), NEW j \in 1 .. Len(r),
                      i < j, Final(r[i]), Speaks(r[j])
               PROVE  r[j].task # r[i].task
    BY DEF LastWord
  <2>1. i \in 1 .. Len(q) /\ r[i] = q[i]
    BY <1>1, <1>2
  <2>2. CASE j \in 1 .. Len(q)
    BY <2>1, <2>2, <1>1 DEF LastWord
  <2>3. CASE j = Len(q) + 1
    BY <2>1, <2>3, <1>1, <1>3
  <2> QED BY <2>2, <2>3, <1>2
<1> QED BY <1>4 DEF r

(* After a last word has been received nothing of the same thread is left. *)
LEMMA UpTail ==
  ASSUME NEW q \in Seq(UpMsg), q # << >>, LastWord(q)
  PROVE  /\ LastWord(Tail(q))
         /\ Final(Head(q)) => \A m \in ToSet(Tail(q)) : Speaks(m) => m.task # Head(q).task
<1> DEFINE r == Tail(q)
<1>1. /\ r \in Seq(UpMsg) /\ Len(r) = Len(q) - 1 /\ Len(q) \in Nat \ {0}
      /\ \A i \in 1 .. Len(r) : r[i] = q[i + 1]
      /\ DOMAIN r = 1 .. Len(r) /\ Head(q) = q[1]
  BY HeadTailProperties, LenProperties, EmptySeq
<1> HIDE DEF r
<1>2. \A i \in 1 .. Len(r) : i + 1 \in 1 .. Len(q) /\ 1 < i + 1 /\ 1 \in 1 .. Len(q)
  BY <1>1
<1>3. LastWord(r)
  <2> SUFFICES ASSUME NEW i \in 1 .. Len(r), NEW j \in 1 .. Len(r),
                      i < j, Final(r[i]), Speaks(r[j])
               PROVE  r[j].task # r[i].task
    BY DEF LastWord
  <2>1. i + 1 < j + 1
    BY <1>1
  <2> QED BY <1>1, <1>2, <2>1 DEF LastWord
<1>4. ASSUME Final(Head(q)), NEW m \in ToSet(r), Speaks(m) PROVE m.task # Head(q).task
  <2>1. PICK i \in 1 .. Len(r) : m = r[i]
    BY <1>1 DEF ToSet
  <2> QED BY <1>1, <1>2, <1>4, <2>1 DEF LastWord
<1> QED BY <1>3, <1>4 DEF r

(* An order or a wake-up stays the only one of its kind.                   *)
LEMMA DownTail ==
  ASSUME NEW q \in Seq(DownMsg), q # << >>, OnceEach(q)
  PROVE  /\ OnceEach(Tail(q))
         /\ Head(q).tag # "SHUTDOWN" => Head(q) \notin ToSet(Tail(q))
<1> DEFINE r == Tail(q)
<1>1. /\ r \in Seq(DownMsg) /\ Len(r) = Len(q) - 1 /\ Len(q) \in Nat \ {0}
      /\ \A i \in 1 .. Len(r) : r[i] = q[i + 1]
      /\ DOMAIN r = 1 .. Len(r) /\ Head(q) = q[1]
  BY HeadTailProperties, LenProperties, EmptySeq
<1> HIDE DEF r
<1>2. \A i \in 1 .. Len(r) : i + 1 \in 1 .. Len(q) /\ 1 # i + 1 /\ 1 \in 1 .. Len(q)
  BY <1>1
<1>3. OnceEach(r)
  <2> SUFFICES ASSUME NEW i \in 1 .. Len(r), NEW j \in 1 .. Len(r),
                      r[i] = r[j], r[i].tag # "SHUTDOWN"
               PROVE  i = j
    BY DEF OnceEach
  <2>1. i + 1 = j + 1
    BY <1>1, <1>2 DEF OnceEach
  <2> QED BY <1>1, <2>1
<1>4. ASSUME Head(q).tag # "SHUTDOWN" PROVE Head(q) \notin ToSet(r)
  <2>1. \A i \in 1 .. Len(r) : r[i] # q[1]
    BY <1>1, <1>2, <1>4 DEF OnceEach
  <2> QED BY <1>1, <2>1 DEF ToSet
<1> QED BY <1>3, <1>4 DEF r

(* Messages appended to a channel that are not in it yet.                  *)
LEMMA DownConcat ==
  ASSUME NEW q \in Seq(DownMsg), NEW r \in Seq(DownMsg)
  PROVE  /\ q \o r \in Seq(DownMsg)
         /\ ToSet(q \o r) = ToSet(q) \cup ToSet(r)
         /\ OnceEach(q) /\ Once(r) /\ (\A m \in ToSet(r) : m.tag = "SHUTDOWN" \/ m \notin ToSet(q))
              => OnceEach(q \o r)
<1> DEFINE s == q \o r
<1>1. /\ s \in Seq(DownMsg) /\ Len(s) = Len(q) + Len(r)
      /\ \A i \in 1 .. Len(s) : s[i] = IF i <= Len(q) THEN q[i] ELSE r[i - Len(q)]
      /\ Len(q) \in Nat /\ Len(r) \in Nat
      /\ DOMAIN q = 1 .. Len(q) /\ DOMAIN r = 1 .. Len(r) /\ DOMAIN s = 1 .. Len(s)
  BY ConcatProperties, LenProperties
<1> HIDE DEF s
<1>2. \A i \in 1 .. Len(s) : \/ i \in 1 .. Len(q) /\ s[i] = q[i]
                             \/ i - Len(q) \in 1 .. Len(r) /\ s[i] = r[i - Len(q)]
  BY <1>1
<1>3. \A i \in 1 .. Len(q) : i \in 1 .. Len(s) /\ s[i] = q[i]
  BY <1>1
<1>4. \A i \in 1 .. Len(r) : i + Len(q) \in 1 .. Len(s) /\ s[i + Len(q)] = r[i]
  <2> SUFFICES ASSUME NEW i \in 1 .. Len(r)
               PROVE  i + Len(q) \in 1 .. Len(s) /\ s[i + Len(q)] = r[i]
    OBVIOUS
  <2>1. i + Len(q) \in 1 .. Len(s) /\ ~(i + Len(q) <= Len(q)) /\ i + Len(q) - Len(q) = i
    BY <1>1
  <2> QED BY <1>1, <2>1
<1>5. ToSet(s) = ToSet(q) \cup ToSet(r)
  <2>0. \A i \in 1 .. Len(s) : s[i] \in ToSet(s)
    BY <1>1 DEF ToSet
  <2>1. (\A i \in 1 .. Len(q) : q[i] \in ToSet(s)) /\ (\A i \in 1 .. Len(r) : r[i] \in ToSet(s))
    BY <2>0, <1>3, <1>4
  <2>3. ToSet(q) \subseteq ToSet(s) /\ ToSet(r) \subseteq ToSet(s)
    BY <2>1, <1>1 DEF ToSet
  <2>2. ToSet(s) \subseteq ToSet(q) \cup ToSet(r)
    BY <1>1, <1>2 DEF ToSet
  <2> QED BY <2>2, <2>3
<1>6. ASSUME OnceEach(q), Once(r), \A m \in ToSet(r) : m.tag = "SHUTDOWN" \/ m \notin ToSet(q)
      PROVE  OnceEach(s)
  <2> SUFFICES ASSUME NEW i \in 1 .. Len(s), NEW j \in 1 .. Len(s),
                      s[i] = s[j], s[i].tag # "SHUTDOWN"
               PROVE  i = j
    BY DEF OnceEach
  <2>1. CASE i \in 1 .. Len(q) /\ s[i] = q[i] /\ j \in 1 .. Len(q) /\ s[j] = q[j]
    BY <2>1, <1>6 DEF OnceEach
  <2>2. CASE /\ i - Len(q) \in 1 .. Len(r) /\ s[i] = r[i - Len(q)]
             /\ j - Len(q) \in 1 .. Len(r) /\ s[j] = r[j - Len(q)]
    <3>1. i - Len(q) = j - Len(q)
      BY <2>2, <1>6 DEF Once
    <3> QED BY <3>1, <1>1
  <2>3. CASE i \in 1 .. Len(q) /\ s[i] = q[i] /\ j - Len(q) \in 1 .. Len(r) /\ s[j] = r[j - Len(q)]
    BY <2>3, <1>1, <1>6 DEF ToSet
  <2>4. CASE j \in 1 .. Len(q) /\ s[j] = q[j] /\ i - Len(q) \in 1 .. Len(r) /\ s[i] = r[i - Len(q)]
    BY <2>4, <1>1, <1>6 DEF ToSet
  <2> QED BY <1>2, <2>1, <2>2, <2>3, <2>4
<1> QED BY <1>1, <1>5, <1>6 DEF s

(* ... and one message.                                                    *)
LEMMA DownAppend ==
  ASSUME NEW q \in Seq(DownMsg), NEW m \in DownMsg
  PROVE  /\ Append(q, m) \in Seq(DownMsg)
         /\ ToSet(Append(q, m)) = ToSet(q) \cup {m}
         /\ OnceEach(q) /\ (m.tag = "SHUTDOWN" \/ m \notin ToSet(q)) => OnceEach(Append(q, m))
<1>1. <<m>> \in Seq(DownMsg) /\ Once(<<m>>) /\ ToSet(<<m>>) = {m}
  BY DEF Once, ToSet
<1>2. Append(q, m) = q \o <<m>>
  BY AppendIsConcat
<1> QED BY <1>1, <1>2, DownConcat

------------------------------------------------------------------------------
(* What a send to the runtime process does to the channels and to the      *)
(* creations under way.                                                    *)
LEMMA UncreatedMembers ==
  \A x : x \in Uncreated <=>
    \E v \in Worker : \E i \in DOMAIN to_runtime[v] :
      to_runtime[v][i].tag = "CREATE" /\ x = <<v, i>>
BY DEF Uncreated

(* A worker's message is put behind those it has sent; only a request to   *)
(* create a task adds to the creations under way.                          *)
LEMMA UpSend ==
  ASSUME to_runtime \in [Worker -> Seq(UpMsg)], NEW w \in Worker, NEW m \in UpMsg,
         to_runtime' = [to_runtime EXCEPT ![w] = Append(to_runtime[w], m)]
  PROVE  /\ to_runtime' \in [Worker -> Seq(UpMsg)]
         /\ \A v \in Worker : v # w => to_runtime'[v] = to_runtime[v]
         /\ to_runtime'[w] = Append(to_runtime[w], m)
         /\ ToSet(to_runtime'[w]) = ToSet(to_runtime[w]) \cup {m}
         /\ IsFiniteSet(Uncreated) =>
              /\ IsFiniteSet(Uncreated')
              /\ Cardinality(Uncreated') =
                   Cardinality(Uncreated) + (IF m.tag = "CREATE" THEN 1 ELSE 0)
<1> DEFINE q == to_runtime[w]
           r == Append(q, m)
           x0 == <<w, Len(q) + 1>>
<1>1. /\ q \in Seq(UpMsg) /\ r \in Seq(UpMsg) /\ Len(q) \in Nat
      /\ DOMAIN q = 1 .. Len(q) /\ DOMAIN r = 1 .. Len(q) + 1
      /\ \A i \in 1 .. Len(q) : r[i] = q[i]
      /\ r[Len(q) + 1] = m
  <2>1. q \in Seq(UpMsg)
    OBVIOUS
  <2> HIDE DEF q
  <2> QED BY <2>1, AppendProperties, LenProperties
<1>2. /\ to_runtime' \in [Worker -> Seq(UpMsg)]
      /\ \A v \in Worker : v # w => to_runtime'[v] = to_runtime[v]
      /\ to_runtime'[w] = r
  BY <1>1
<1>3. ToSet(r) = ToSet(q) \cup {m}
  BY <1>1, AppendFacts
<1> DEFINE New == IF m.tag = "CREATE" THEN {x0} ELSE {}
<1>4. Uncreated' = Uncreated \cup New
  <2>1. \A x : x \in Uncreated' <=>
          \E v \in Worker : \E i \in DOMAIN to_runtime'[v] :
            to_runtime'[v][i].tag = "CREATE" /\ x = <<v, i>>
    BY DEF Uncreated
  <2> HIDE DEF r, q
  <2>2. \A i : i \in DOMAIN r <=> i \in DOMAIN q \/ i = Len(q) + 1
    BY <1>1
  <2>3. \A i \in DOMAIN q : r[i] = q[i]
    BY <1>1
  <2>4. \A v \in Worker : \A i : \A x :
           (i \in DOMAIN to_runtime'[v] /\ to_runtime'[v][i].tag = "CREATE" /\ x = <<v, i>>)
           <=> \/ i \in DOMAIN to_runtime[v] /\ to_runtime[v][i].tag = "CREATE" /\ x = <<v, i>>
               \/ v = w /\ i = Len(q) + 1 /\ m.tag = "CREATE" /\ x = <<v, i>>
    <3> SUFFICES ASSUME NEW v \in Worker, NEW i
                 PROVE  i \in DOMAIN to_runtime'[v] /\ to_runtime'[v][i].tag = "CREATE"
                        <=> \/ i \in DOMAIN to_runtime[v] /\ to_runtime[v][i].tag = "CREATE"
                            \/ v = w /\ i = Len(q) + 1 /\ m.tag = "CREATE"
      OBVIOUS
    <3>1. CASE v = w
      <4>1. to_runtime[v] = q /\ to_runtime'[v] = r
        BY <3>1, <1>2 DEF q
      <4>2. Len(q) + 1 \notin DOMAIN q
        BY <1>1
      <4> QED BY <3>1, <4>1, <4>2, <2>2, <2>3, <1>1
    <3>2. CASE v # w
      BY <3>2, <1>2
    <3> QED BY <3>1, <3>2
  <2>5. ASSUME NEW x
        PROVE  x \in Uncreated' <=> x \in Uncreated \/ (m.tag = "CREATE" /\ x = x0)
    <3>1. x \in Uncreated' <=> \E v \in Worker : \E i :
            i \in DOMAIN to_runtime'[v] /\ to_runtime'[v][i].tag = "CREATE" /\ x = <<v, i>>
      BY <2>1
    <3>2. x \in Uncreated <=> \E v \in Worker : \E i :
            i \in DOMAIN to_runtime[v] /\ to_runtime[v][i].tag = "CREATE" /\ x = <<v, i>>
      BY UncreatedMembers
    <3>3. m.tag = "CREATE" /\ x = x0 <=> \E v \in Worker : \E i :
            v = w /\ i = Len(q) + 1 /\ m.tag = "CREATE" /\ x = <<v, i>>
      OBVIOUS
    <3> HIDE DEF x0
    <3> QED BY <2>4, <3>1, <3>2, <3>3, Zenon
  <2> QED BY <2>5
<1>5. x0 \notin Uncreated
  <2>1. Len(q) + 1 \notin DOMAIN q
    BY <1>1
  <2>2. \A v \in Worker : \A i \in DOMAIN to_runtime[v] : <<v, i>> # x0
    BY <2>1
  <2> QED BY <2>2, UncreatedMembers
<1>6. ASSUME IsFiniteSet(Uncreated)
      PROVE  /\ IsFiniteSet(Uncreated')
             /\ Cardinality(Uncreated') =
                  Cardinality(Uncreated) + (IF m.tag = "CREATE" THEN 1 ELSE 0)
  <2> HIDE DEF x0
  <2>1. CASE m.tag = "CREATE"
    <3>1. Uncreated' = Uncreated \cup {x0}
      BY <1>4, <2>1
    <3> QED BY <1>5, <1>6, <2>1, <3>1, FS_AddElement
  <2>2. CASE m.tag # "CREATE"
    <3>1. Uncreated' = Uncreated
      BY <1>4, <2>2
    <3>2. Cardinality(Uncreated) \in Nat
      BY <1>6, FS_CardinalityType
    <3> QED BY <1>6, <2>2, <3>1, <3>2
  <2> QED BY <2>1, <2>2
<1> QED BY <1>1, <1>2, <1>3, <1>6

(* A receive takes the first message, and moves the others up.             *)
LEMMA UpReceive ==
  ASSUME to_runtime \in [Worker -> Seq(UpMsg)], NEW w \in Worker, to_runtime[w] # << >>,
         to_runtime' = [to_runtime EXCEPT ![w] = Tail(to_runtime[w])]
  PROVE  /\ to_runtime' \in [Worker -> Seq(UpMsg)]
         /\ Head(to_runtime[w]) \in UpMsg
         /\ \A v \in Worker : v # w => to_runtime'[v] = to_runtime[v]
         /\ to_runtime'[w] = Tail(to_runtime[w])
         /\ ToSet(to_runtime[w]) = ToSet(to_runtime'[w]) \cup {Head(to_runtime[w])}
         /\ IsFiniteSet(Uncreated) =>
              /\ IsFiniteSet(Uncreated')
              /\ Cardinality(Uncreated) =
                   Cardinality(Uncreated') + (IF Head(to_runtime[w]).tag = "CREATE" THEN 1 ELSE 0)
<1> DEFINE q == to_runtime[w]
           r == Tail(q)
           x0 == <<w, 1>>
<1>1. /\ q \in Seq(UpMsg) /\ r \in Seq(UpMsg) /\ Head(q) \in UpMsg /\ Head(q) = q[1]
      /\ Len(q) \in Nat \ {0} /\ DOMAIN q = 1 .. Len(q) /\ DOMAIN r = 1 .. Len(q) - 1
      /\ \A i \in 1 .. Len(q) - 1 : r[i] = q[i + 1]
      /\ ToSet(q) = ToSet(r) \cup {Head(q)}
  <2>1. q \in Seq(UpMsg) /\ q # << >>
    OBVIOUS
  <2> HIDE DEF q
  <2> QED BY <2>1, HeadTailProperties, LenProperties, EmptySeq, TailFacts
<1>2. /\ to_runtime' \in [Worker -> Seq(UpMsg)]
      /\ \A v \in Worker : v # w => to_runtime'[v] = to_runtime[v]
      /\ to_runtime'[w] = r
  BY <1>1
<1> DEFINE S == Uncreated \ {x0}
           T == Uncreated'
           f == [x \in S |-> IF x[1] = w THEN <<w, x[2] - 1>> ELSE x]
<1>3. \A x : x \in T <=>
        \E v \in Worker : \E i \in DOMAIN to_runtime'[v] :
          to_runtime'[v][i].tag = "CREATE" /\ x = <<v, i>>
  BY DEF Uncreated
<1>4. x0 \in Uncreated <=> Head(q).tag = "CREATE"
  <2>1. 1 \in DOMAIN q
    BY <1>1
  <2> QED BY <1>1, <2>1, UncreatedMembers
<1> HIDE DEF r, q
<1>5. ASSUME NEW x \in S, x[1] = w PROVE x[2] \in 2 .. Len(q) /\ x = <<w, x[2]>> /\ <<w, x[2] - 1>> \in T
  <2>0. PICK v \in Worker : \E i \in DOMAIN to_runtime[v] :
          to_runtime[v][i].tag = "CREATE" /\ x = <<v, i>>
    BY UncreatedMembers
  <2>1. PICK i \in DOMAIN to_runtime[v] : to_runtime[v][i].tag = "CREATE" /\ x = <<v, i>>
    BY <2>0
  <2>2. v = w /\ i = x[2] /\ i # 1
    BY <2>1, <1>5
  <2>3. i \in 2 .. Len(q) /\ i - 1 \in DOMAIN r /\ r[i - 1] = q[i] /\ q[i].tag = "CREATE"
    <3>1. i \in 1 .. Len(q) /\ q[i].tag = "CREATE"
      BY <2>1, <2>2, <1>1 DEF q
    <3>2. i - 1 \in 1 .. Len(q) - 1 /\ i - 1 + 1 = i
      BY <3>1, <2>2, <1>1
    <3> QED BY <3>1, <3>2, <1>1
  <2> QED BY <2>1, <2>2, <2>3, <1>2, <1>3
<1>6. ASSUME NEW x \in S, x[1] # w PROVE x \in T
  <2>0. PICK v \in Worker : \E i \in DOMAIN to_runtime[v] :
          to_runtime[v][i].tag = "CREATE" /\ x = <<v, i>>
    BY UncreatedMembers
  <2>1. PICK i \in DOMAIN to_runtime[v] : to_runtime[v][i].tag = "CREATE" /\ x = <<v, i>>
    BY <2>0
  <2> QED BY <2>1, <1>2, <1>3, <1>6
<1>7. \A x \in S : x[1] = w \/ x[1] # w
  OBVIOUS
<1>8. f \in [S -> T]
  BY <1>5, <1>6
<1>9. ASSUME NEW x \in S, NEW y \in S, f[x] = f[y] PROVE x = y
  <2>1. CASE x[1] = w /\ y[1] = w
    <3>1. f[x] = <<w, x[2] - 1>> /\ f[y] = <<w, y[2] - 1>>
      BY <2>1
    <3>2. x[2] - 1 = y[2] - 1
      BY <3>1, <1>9
    <3>3. x[2] \in 2 .. Len(q) /\ y[2] \in 2 .. Len(q) /\ Len(q) \in Nat
      BY <2>1, <1>1, <1>5
    <3>4. \A i, j \in 2 .. Len(q) : i - 1 = j - 1 => i = j
      BY <3>3
    <3>5. x[2] = y[2]
      BY <3>2, <3>3, <3>4
    <3> QED BY <3>5, <2>1, <1>5
  <2>2. CASE x[1] # w /\ y[1] # w
    BY <2>2, <1>9
  <2>3. CASE x[1] = w /\ y[1] # w
    BY <2>3, <1>9
  <2>4. CASE x[1] # w /\ y[1] = w
    BY <2>4, <1>9
  <2> QED BY <2>1, <2>2, <2>3, <2>4
<1>10. ASSUME NEW y \in T PROVE \E x \in S : f[x] = y
  <2>0. PICK v \in Worker : \E i \in DOMAIN to_runtime'[v] :
          to_runtime'[v][i].tag = "CREATE" /\ y = <<v, i>>
    BY <1>3
  <2>1. PICK i \in DOMAIN to_runtime'[v] : to_runtime'[v][i].tag = "CREATE" /\ y = <<v, i>>
    BY <2>0
  <2>2. CASE v = w
    <3>0. i \in 1 .. Len(q) - 1 /\ r[i].tag = "CREATE"
      BY <2>1, <2>2, <1>1, <1>2
    <3>1. i \in Nat /\ i + 1 \in DOMAIN q /\ i + 1 # 1 /\ q[i + 1].tag = "CREATE"
          /\ i + 1 - 1 = i
      BY <3>0, <1>1
    <3>2. <<w, i + 1>> \in Uncreated
      BY <3>1, UncreatedMembers DEF q
    <3>3. <<w, i + 1>> \in S
      BY <3>1, <3>2
    <3>4. f[<<w, i + 1>>] = <<w, i>>
      BY <3>1, <3>3
    <3> QED BY <3>3, <3>4, <2>1, <2>2
  <2>3. CASE v # w
    <3>1. y \in S
      BY <2>1, <2>3, <1>2, UncreatedMembers
    <3> QED BY <3>1, <2>1, <2>3
  <2> QED BY <2>2, <2>3
<1>11. f \in Bijection(S, T)
  <2> HIDE DEF f, S, T
  <2> QED BY <1>8, <1>9, <1>10 DEF Bijection, Injection, Surjection, IsInjective
<1> HIDE DEF f
<1>12. ASSUME IsFiniteSet(Uncreated)
       PROVE  /\ IsFiniteSet(Uncreated')
              /\ Cardinality(Uncreated) =
                   Cardinality(Uncreated') + (IF Head(q).tag = "CREATE" THEN 1 ELSE 0)
  <2>1. /\ IsFiniteSet(S)
        /\ Cardinality(S) = IF x0 \in Uncreated THEN Cardinality(Uncreated) - 1
                            ELSE Cardinality(Uncreated)
    BY <1>12, FS_RemoveElement
  <2>2. IsFiniteSet(T) /\ Cardinality(T) = Cardinality(S)
    BY <1>11, <2>1, FS_Bijection DEF ExistsBijection
  <2>3. Cardinality(Uncreated) \in Nat
    BY <1>12, FS_CardinalityType
  <2> QED BY <2>1, <2>2, <2>3, <1>4
<1> QED BY <1>1, <1>2, <1>12 DEF q, r

------------------------------------------------------------------------------
(* The types, one fact per variable.                                       *)
LEMMA LoopTypes ==
  ASSUME EventLoopsTypeOK
  PROVE  /\ to_runtime \in [Worker -> Seq(UpMsg)] /\ to_worker \in [Worker -> Seq(DownMsg)]
         /\ capacity \in [Worker -> Int] /\ waiting_capacity \in [Worker -> Int]
         /\ runnable_tasks \in [Worker -> Seq(Task)] /\ waiting_tasks \in [Worker -> SUBSET Task]
         /\ to_report \in [Worker -> Int] /\ quit_loop \in [Worker -> BOOLEAN]
         /\ thread \in [Task -> ThreadPC] /\ host \in [Task -> Worker \cup {0}]
         /\ queued_tasks \in Seq(Task) /\ free_workers \in Seq(Worker)
         /\ offered \in [Worker -> Int]
         /\ waiting \in [Task -> {"no", "task", "all"}]
         /\ waiting_node \in [Task -> Worker \cup {-1}]
         /\ 0 \notin Worker /\ -1 \notin Worker
         /\ phase \in {"first", "loop", "exit"}
<1>1. 0 \notin Worker /\ -1 \notin Worker
  BY WorkerAssumption
<1>2. /\ to_runtime \in [Worker -> Seq([tag : UpTag, task : Task, amount : Int])]
      /\ to_worker \in [Worker -> Seq([tag : DownTag, task : Task])]
      /\ WaitTreeTypeOK
  BY Zenon DEF EventLoopsTypeOK
<1>3. /\ to_runtime \in [Worker -> Seq(UpMsg)] /\ to_worker \in [Worker -> Seq(DownMsg)]
  BY <1>2, Zenon DEF UpMsg, DownMsg
<1>4. /\ capacity \in [Worker -> Int] /\ waiting_capacity \in [Worker -> Int]
      /\ runnable_tasks \in [Worker -> Seq(Task)] /\ waiting_tasks \in [Worker -> SUBSET Task]
      /\ to_report \in [Worker -> Int] /\ quit_loop \in [Worker -> BOOLEAN]
      /\ thread \in [Task -> ThreadPC] /\ host \in [Task -> Worker \cup {0}]
      /\ phase \in {"first", "loop", "exit"}
  BY Zenon DEF EventLoopsTypeOK
<1>5. /\ queued_tasks \in Seq(Task) /\ free_workers \in Seq(Worker)
      /\ offered \in [Worker -> Int]
      /\ waiting \in [Task -> {"no", "task", "all"}]
      /\ waiting_node \in [Task -> Worker \cup {-1}]
  BY <1>2, Zenon DEF WaitTreeTypeOK
<1> QED BY <1>1, <1>3, <1>4, <1>5

(* Tasks that exist are tasks.                                             *)
LEMMA CreatedTasks ==
  ASSUME TreeInv
  PROVE  Created \subseteq Task /\ Root \in Created /\ \A t \in Task : children(t) \subseteq Created
<1>1. Created \subseteq Task /\ Root \in Created
  BY MaxTaskAssumption DEF Created, TreeInv, Root, Task
<1>2. \A t \in Task : children(t) \subseteq Created
  BY DEF children
<1> QED BY <1>1, <1>2

(* What messages are made of.                                              *)
LEMMA MessageNames ==
  /\ \A tag \in UpTag, t \in Task, n \in Int :
       /\ Up(tag, t, n) \in UpMsg
       /\ Up(tag, t, n).tag = tag /\ Up(tag, t, n).task = t /\ Up(tag, t, n).amount = n
  /\ \A tag \in DownTag, t \in Task :
       /\ Down(tag, t) \in DownMsg /\ Down(tag, t).tag = tag /\ Down(tag, t).task = t
  /\ \A m \in DownMsg : m.tag \in DownTag /\ m.task \in Task /\ m = Down(m.tag, m.task)
  /\ \A m \in UpMsg : m.tag \in UpTag /\ m.task \in Task /\ m.amount \in Int
BY DEF Up, Down, UpMsg, DownMsg

(* What is in a channel is a message.                                      *)
LEMMA InChannels ==
  ASSUME EventLoopsTypeOK, NEW w \in Worker
  PROVE  /\ ToSet(to_runtime[w]) \subseteq UpMsg
         /\ ToSet(to_worker[w]) \subseteq DownMsg
         /\ ToSet(runnable_tasks[w]) \subseteq Task
<1>1. \A S : \A q \in Seq(S) : ToSet(q) \subseteq S
  <2> SUFFICES ASSUME NEW S, NEW q \in Seq(S) PROVE ToSet(q) \subseteq S
    OBVIOUS
  <2>1. q \in [1 .. Len(q) -> S] /\ DOMAIN q = 1 .. Len(q)
    BY LenProperties
  <2> QED BY <2>1 DEF ToSet
<1>2. to_runtime[w] \in Seq(UpMsg) /\ to_worker[w] \in Seq(DownMsg) /\ runnable_tasks[w] \in Seq(Task)
  BY LoopTypes
<1> QED BY <1>1, <1>2

(* A task is being woken that is woken, called, or runnable and suspended. *)
LEMMA WokenForms ==
  ASSUME NEW t \in Task
  PROVE  BeingWoken(t) <=>
           \/ thread[t] = "woken"
           \/ \E w \in Worker : Called(w, t)
           \/ \E w \in Worker : Runnable(w, t) /\ thread[t] = "blocked"
<1>1. \A w \in Worker : Called(w, t) <=>
        \E i \in DOMAIN to_worker[w] : to_worker[w][i] = Down("WAKEUPTASK", t)
  BY DEF Called, ToSet
<1> QED BY <1>1 DEF BeingWoken, Runnable

(* A task is being woken in three ways, and so it is after a step.         *)
LEMMA WokenFormsNext ==
  ASSUME NEW t \in Task
  PROVE  BeingWoken(t)' <=>
           \/ thread'[t] = "woken"
           \/ \E w \in Worker : Called(w, t)'
           \/ \E w \in Worker : Runnable(w, t)' /\ thread'[t] = "blocked"
<1>1. \A w \in Worker : Called(w, t)' <=>
        \E i \in DOMAIN to_worker'[w] : to_worker'[w][i] = Down("WAKEUPTASK", t)
  BY DEF Called, ToSet
<1> QED BY <1>1 DEF BeingWoken, Runnable

(* Most steps say nothing that a thread could say, hand out nothing and    *)
(* leave the threads that wait or have not begun where they are.           *)
SameSpeech(q, r) ==
  /\ LastWord(q) => LastWord(r)
  /\ \A m : Speaks(m) => (m \in ToSet(q) <=> m \in ToSet(r))

Calm ==
  /\ UNCHANGED <<treeVars, queued_tasks, to_worker, runnable_tasks, host>>
  /\ phase' = "exit" => phase = "exit"
  /\ \A w \in Worker : SameSpeech(to_runtime[w], to_runtime'[w])
  /\ \A w \in Worker : waiting_tasks[w] \subseteq waiting_tasks'[w]
  /\ \A t \in Task :
       /\ thread[t] \in {"none", "blocked"} \/ thread'[t] \in {"none", "blocked"} =>
            thread'[t] = thread[t]
       /\ thread'[t] = "woken" => thread[t] = "woken"
       /\ HasEnded(t) => HasEnded(t)'
       /\ thread'[t] \in {"taskwait", "allwait"} => t \in waiting_tasks'[host[t]]

(* A step that leaves the tree, the queue, the orders and what is said of  *)
(* tasks as they are, and no thread newly woken, keeps the invariant.      *)
LEMMA CalmStep ==
  ASSUME EventLoopsInv, EventLoopsTypeOK', Calm
  PROVE  /\ TreeInv' /\ CountersInv' /\ SpeechInv' /\ OrderInv' /\ PlaceInv' /\ WaitInv' /\ ExitInv'
<1>0. /\ EventLoopsTypeOK /\ TreeInv /\ CountersInv
      /\ SpeechInv /\ OrderInv /\ PlaceInv /\ WaitInv /\ BoundInv /\ ExitInv
  BY DEF EventLoopsInv
<1>1. /\ id_counter' = id_counter /\ above' = above /\ execution_finished' = execution_finished
      /\ running_children' = running_children
      /\ not_finished_children' = not_finished_children
      /\ waiting' = waiting /\ waiting_node' = waiting_node
      /\ queued_tasks' = queued_tasks /\ to_worker' = to_worker
      /\ runnable_tasks' = runnable_tasks /\ host' = host
  BY DEF Calm, treeVars
<1>2. /\ Created' = Created /\ \A t : children(t)' = children(t)
      /\ TreeInv' /\ CountersInv'
  <2>1. Created' = Created /\ \A t : children(t)' = children(t)
    BY <1>1 DEF Created, children, parent
  <2>2. TreeInv'
    BY <1>0, <1>1, <2>1 DEF TreeInv
  <2>3. CountersInv'
    BY <1>0, <1>1, <2>1 DEF CountersInv, CountersExact, Subtree, Below
  <2> QED BY <2>1, <2>2, <2>3
<1>3. \A w \in Worker : \A m \in ToSet(to_runtime'[w]) :
        Speaks(m) => m \in ToSet(to_runtime[w]) /\ SpokenTrue(w, m) /\ m \in UpMsg /\ m.task \in Task
  BY <1>0, InChannels, MessageNames DEF Calm, SameSpeech, SpeechInv
<1>4. SpeechInv'
  <2>1. \A w \in Worker : LastWord(to_runtime'[w])
    BY <1>0 DEF Calm, SameSpeech, SpeechInv
  <2>2. ASSUME NEW w \in Worker, NEW m \in ToSet(to_runtime'[w]), Speaks(m)
        PROVE  SpokenTrue(w, m)'
    <3>1. SpokenTrue(w, m) /\ m.task \in Task
      BY <1>3, <2>2
    <3> QED BY <3>1, <1>1 DEF SpokenTrue, Calm
  <2> QED BY <2>1, <2>2 DEF SpeechInv
<1>5. \A w \in Worker, t \in Task :
        /\ Ordered(w, t)' <=> Ordered(w, t)
        /\ Called(w, t)' <=> Called(w, t)
        /\ Runnable(w, t)' <=> Runnable(w, t)
  BY <1>1 DEF Ordered, Called, Runnable, Down
<1>6. OrderInv'
  <2>1. \A w \in Worker : OnceEach(to_worker'[w])
    BY <1>0, <1>1 DEF OrderInv
  <2>2. ASSUME NEW w \in Worker, NEW t \in Task, Ordered(w, t)
        PROVE  t \in Created /\ host[t] = 0 /\ \A v \in Worker : Ordered(v, t) => v = w
    BY <1>0, <2>2 DEF OrderInv
  <2>3. ASSUME NEW w \in Worker, NEW t \in Task, Called(w, t)
        PROVE  host[t] = w /\ thread'[t] = "blocked" /\ t \in waiting_tasks'[w] /\ ~Runnable(w, t)
    BY <1>0, <2>3 DEF OrderInv, Calm
  <2> QED BY <1>1, <1>2, <1>5, <2>1, <2>2, <2>3 DEF OrderInv
<1>7. PlaceInv'
  <2>1. \A t \in ToSet(queued_tasks) : t \in Task
    BY <1>0, CreatedTasks DEF PlaceInv
  <2>2. Once(queued_tasks') /\ \A t \in ToSet(queued_tasks') :
          t \in Created' /\ host'[t] = 0 /\ \A w \in Worker : ~Ordered(w, t)'
    BY <1>0, <1>1, <1>2, <1>5, <2>1 DEF PlaceInv
  <2>3. \A t \in Task :
          /\ host'[t] = 0 => thread'[t] = "none"
          /\ host'[t] # 0 => t \in Created'
          /\ execution_finished'[t] => HasEnded(t)'
          /\ thread'[t] \in {"taskwait", "allwait"} => t \in waiting_tasks'[host'[t]]
    BY <1>0, <1>1, <1>2 DEF PlaceInv, Calm
  <2>4. \A w \in Worker :
          /\ Once(runnable_tasks'[w])
          /\ \A t \in ToSet(runnable_tasks'[w]) : host'[t] = w /\ thread'[t] \in {"none", "blocked"}
    BY <1>0, <1>1, InChannels DEF PlaceInv, Calm
  <2> QED BY <2>2, <2>3, <2>4 DEF PlaceInv
<1>8. WaitInv'
  <2> SUFFICES ASSUME NEW t \in Task
               PROVE  /\ waiting'[t] # "no" =>
                           /\ thread'[t] = "blocked" /\ host'[t] = waiting_node'[t]
                           /\ t \in waiting_tasks'[host'[t]]
                           /\ Silent(t)' /\ ~BeingWoken(t)'
                      /\ BeingWoken(t)' => Silent(t)' /\ \A c \in children(t)' : execution_finished'[c]
    BY DEF WaitInv
  <2>1. Silent(t) => Silent(t)'
    BY <1>3 DEF Silent
  <2>2. BeingWoken(t)' => BeingWoken(t)
    BY <1>5, WokenForms, WokenFormsNext DEF Calm
  <2>3. waiting[t] # "no" => host[t] \in Worker
    BY <1>0, LoopTypes DEF WaitInv, PlaceInv
  <2>4. waiting'[t] # "no" =>
          /\ thread'[t] = "blocked" /\ host'[t] = waiting_node'[t]
          /\ t \in waiting_tasks'[host'[t]]
    BY <1>0, <1>1, <2>3 DEF WaitInv, Calm
  <2> QED BY <1>0, <1>1, <1>2, <2>1, <2>2, <2>4 DEF WaitInv
<1>9. ExitInv'
  BY <1>0, <1>1, <1>2 DEF ExitInv, Calm
<1> QED BY <1>2, <1>4, <1>6, <1>7, <1>8, <1>9

------------------------------------------------------------------------------
(* A turn of a worker: the finished are joined, and as many tasks as there *)
(* is capacity for are taken from the front of the queue.                  *)
LEMMA TurnFacts ==
  ASSUME EventLoopsTypeOK, NEW w \in Worker, NEW queue \in Seq(Task), Once(queue),
         NEW quit, Turn(w, queue, quit),
         \A t \in ToSet(queue) : thread[t] \in {"none", "blocked"}
  PROVE  \E taken \in SUBSET Task :
           /\ ToSet(queue) = taken \cup ToSet(runnable_tasks'[w])
           /\ taken \cap ToSet(runnable_tasks'[w]) = {}
           /\ IsFiniteSet(taken) /\ Cardinality(taken) \in Nat
           /\ Once(runnable_tasks'[w])
           /\ \A v \in Worker : v # w => runnable_tasks'[v] = runnable_tasks[v]
           /\ runnable_tasks' \in [Worker -> Seq(Task)]
           /\ capacity' = [capacity EXCEPT ![w] = Available(w) - Cardinality(taken)]
           /\ capacity' \in [Worker -> Int]
           /\ waiting_capacity' = [waiting_capacity EXCEPT ![w] = 0]
           /\ waiting_capacity' \in [Worker -> Int]
           /\ to_report' \in [Worker -> Int]
           /\ thread' \in [Task -> ThreadPC]
           /\ \A t \in Task :
                /\ t \in Reaped(w) => thread'[t] = "joined"
                /\ t \in taken /\ thread[t] = "blocked" => thread'[t] = "woken"
                /\ t \in taken /\ thread[t] = "none" => thread'[t] = "body"
                /\ t \notin Reaped(w) /\ t \notin taken => thread'[t] = thread[t]
<1> DEFINE n == Taken(queue, Available(w))
           taken == First(queue, n)
<1>0. Len(queue) \in Nat /\ \A i \in 1 .. Len(queue) : queue[i] \in Task /\ i \in DOMAIN queue
  BY LenProperties
<1>1. IsFiniteSet(Reaped(w)) /\ Cardinality(Reaped(w)) \in Nat
  BY FiniteTasks DEF Reaped, Hosted
<1>2. Available(w) \in Int
  BY <1>1, LoopTypes DEF Available
<1>3. n \in 0 .. Len(queue)
  BY <1>0, <1>2 DEF Taken, Smaller
<1> DEFINE left == Rest(queue, n)
<1>4. /\ left \in Seq(Task) /\ Once(left)
      /\ ToSet(queue) = taken \cup ToSet(left) /\ taken \cap ToSet(left) = {}
      /\ IsFiniteSet(taken) /\ Cardinality(taken) = n
  <2> HIDE DEF n
  <2> QED BY <1>3, DropFacts
<1>5. taken \subseteq ToSet(queue) /\ taken \subseteq Task
  <2> HIDE DEF n, taken, left
  <2>1. ToSet(queue) \subseteq Task
    <3>1. DOMAIN queue = 1 .. Len(queue)
      BY LenProperties
    <3> QED BY <1>0, <3>1 DEF ToSet
  <2> QED BY <1>4, <2>1
<1>6. /\ capacity' = [capacity EXCEPT ![w] = Available(w) - n]
      /\ waiting_capacity' = [waiting_capacity EXCEPT ![w] = 0]
      /\ runnable_tasks' = [runnable_tasks EXCEPT ![w] = left]
      /\ thread' = [t \in Task |->
           CASE t \in Reaped(w)                      -> "joined"
             [] t \in taken /\ thread[t] = "blocked" -> "woken"
             [] t \in taken /\ thread[t] = "none"    -> "body"
             [] OTHER                                -> thread[t]]
      /\ to_report' = [to_report EXCEPT ![w] = IF quit THEN 0 ELSE Available(w) - n - capacity[w]]
  BY Zenon DEF Turn, First, Rest
<1> HIDE DEF n, taken, left
<1>7. /\ capacity' \in [Worker -> Int] /\ waiting_capacity' \in [Worker -> Int]
      /\ to_report' \in [Worker -> Int]
      /\ runnable_tasks' \in [Worker -> Seq(Task)] /\ runnable_tasks'[w] = left
      /\ \A v \in Worker : v # w => runnable_tasks'[v] = runnable_tasks[v]
  <2>1. capacity[w] \in Int /\ n \in Int
    BY <1>3, LoopTypes
  <2>2. Available(w) - n \in Int /\ Available(w) - n - capacity[w] \in Int
    BY <1>2, <2>1
  <2>3. capacity' \in [Worker -> Int] /\ waiting_capacity' \in [Worker -> Int]
    BY <1>6, <2>2, LoopTypes
  <2>4. to_report' \in [Worker -> Int]
    <3>1. (IF quit THEN 0 ELSE Available(w) - n - capacity[w]) \in Int
      BY <2>2
    <3> QED BY <1>6, <3>1, LoopTypes
  <2>5. /\ runnable_tasks' \in [Worker -> Seq(Task)] /\ runnable_tasks'[w] = left
        /\ \A v \in Worker : v # w => runnable_tasks'[v] = runnable_tasks[v]
    BY <1>4, <1>6, LoopTypes
  <2> QED BY <2>3, <2>4, <2>5
<1>8. ASSUME NEW t \in Task
      PROVE  /\ t \in Reaped(w) => thread'[t] = "joined"
             /\ t \in taken /\ thread[t] = "blocked" => thread'[t] = "woken"
             /\ t \in taken /\ thread[t] = "none" => thread'[t] = "body"
             /\ t \notin Reaped(w) /\ t \notin taken => thread'[t] = thread[t]
             /\ thread'[t] \in ThreadPC
  <2>1. t \in Reaped(w) => thread[t] = "finish_flag"
    BY DEF Reaped
  <2>2. thread[t] \in ThreadPC
    BY LoopTypes
  <2>3. t \in taken => thread[t] \in {"none", "blocked"}
    BY <1>5
  <2>4. thread'[t] =
          CASE t \in Reaped(w)                      -> "joined"
            [] t \in taken /\ thread[t] = "blocked" -> "woken"
            [] t \in taken /\ thread[t] = "none"    -> "body"
            [] OTHER                                -> thread[t]
    BY <1>6
  <2> QED BY <2>1, <2>2, <2>3, <2>4 DEF ThreadPC
<1>9. thread' \in [Task -> ThreadPC]
  <2>1. DOMAIN thread' = Task
    BY <1>6
  <2> QED BY <1>6, <1>8, <2>1
<1> taken \in SUBSET Task
  BY <1>5
<1> WITNESS taken \in SUBSET Task
<1>10. Cardinality(taken) \in Nat
  BY <1>3, <1>4
<1> QED BY <1>4, <1>6, <1>7, <1>8, <1>9, <1>10

(* What the four kinds of turn have in common: nothing happens at rank 0,  *)
(* the tasks in the queue are this worker's, and wait to begin or to go    *)
(* on, and no message about them is left.                                  *)
QueueReady(w, queue) ==
  /\ UNCHANGED <<treeVars, poolVars, phase, to_runtime>>
  /\ queue \in Seq(Task) /\ Once(queue)
  /\ \A t \in ToSet(queue) :
       /\ t \in Created /\ host'[t] = w
       /\ thread[t] = "none" \/ (thread[t] = "blocked" /\ BeingWoken(t))
       /\ \A v \in Worker : ~Ordered(v, t)' /\ ~Called(v, t)'
  /\ ToSet(runnable_tasks[w]) \subseteq ToSet(queue)
  /\ \A t \in Task : host'[t] = host[t] \/ (Ordered(w, t) /\ t \in ToSet(queue))
  /\ \A v \in Worker :
       OnceEach(to_worker'[v]) /\ ToSet(to_worker'[v]) \subseteq ToSet(to_worker[v])
  /\ \A v \in Worker : \A t \in waiting_tasks[v] :
       t \in waiting_tasks'[v] \/ (t \in ToSet(queue) /\ thread[t] = "blocked")
  /\ to_worker' \in [Worker -> Seq(DownMsg)]
  /\ waiting_tasks' \in [Worker -> SUBSET Task]
  /\ host' \in [Task -> Worker \cup {0}]
  /\ quit_loop' \in [Worker -> BOOLEAN]

(* A turn of a worker's loop: threads that have ended are reaped, a task   *)
(* is started or resumed if there is capacity, free capacity is to be      *)
(* reported.                                                               *)
LEMMA TurnStep ==
  ASSUME EventLoopsInv, NEW w \in Worker, NEW queue, NEW quit,
         QueueReady(w, queue), Turn(w, queue, quit)
  PROVE  EventLoopsInv'
<1>0. /\ EventLoopsTypeOK /\ TreeInv /\ CountersInv
      /\ SpeechInv /\ OrderInv /\ PlaceInv /\ WaitInv /\ BoundInv /\ ExitInv
  BY DEF EventLoopsInv
<1>1. /\ id_counter' = id_counter /\ above' = above /\ execution_finished' = execution_finished
      /\ running_children' = running_children
      /\ not_finished_children' = not_finished_children
      /\ waiting' = waiting /\ waiting_node' = waiting_node
      /\ queued_tasks' = queued_tasks /\ free_workers' = free_workers /\ offered' = offered
      /\ phase' = phase /\ to_runtime' = to_runtime
  BY DEF QueueReady, treeVars, poolVars
<1>2. /\ Created' = Created /\ \A t : children(t)' = children(t)
      /\ TreeInv' /\ CountersInv' /\ BoundInv' /\ ExitInv'
  <2>1. Created' = Created /\ \A t : children(t)' = children(t)
    BY <1>1 DEF Created, children, parent
  <2>2. TreeInv'
    BY <1>0, <1>1, <2>1 DEF TreeInv
  <2>3. CountersInv'
    BY <1>0, <1>1, <2>1 DEF CountersInv, CountersExact, Subtree, Below
  <2>4. BoundInv' /\ ExitInv'
    BY <1>0, <1>1, <2>1 DEF BoundInv, Uncreated, ExitInv
  <2> QED BY <2>1, <2>2, <2>3, <2>4
<1>3. /\ queue \in Seq(Task) /\ Once(queue)
      /\ \A t \in ToSet(queue) :
           /\ t \in Created /\ t \in Task /\ host'[t] = w
           /\ thread[t] \in {"none", "blocked"} /\ (thread[t] = "blocked" => BeingWoken(t))
           /\ \A v \in Worker : ~Ordered(v, t)' /\ ~Called(v, t)'
  BY <1>0, CreatedTasks DEF QueueReady
<1>4. PICK taken \in SUBSET Task :
        /\ ToSet(queue) = taken \cup ToSet(runnable_tasks'[w])
        /\ taken \cap ToSet(runnable_tasks'[w]) = {}
        /\ IsFiniteSet(taken) /\ Cardinality(taken) \in Nat
        /\ Once(runnable_tasks'[w])
        /\ \A v \in Worker : v # w => runnable_tasks'[v] = runnable_tasks[v]
        /\ runnable_tasks' \in [Worker -> Seq(Task)]
        /\ capacity' = [capacity EXCEPT ![w] = Available(w) - Cardinality(taken)]
        /\ capacity' \in [Worker -> Int]
        /\ waiting_capacity' = [waiting_capacity EXCEPT ![w] = 0]
        /\ waiting_capacity' \in [Worker -> Int]
        /\ to_report' \in [Worker -> Int]
        /\ thread' \in [Task -> ThreadPC]
        /\ \A t \in Task :
             /\ t \in Reaped(w) => thread'[t] = "joined"
             /\ t \in taken /\ thread[t] = "blocked" => thread'[t] = "woken"
             /\ t \in taken /\ thread[t] = "none" => thread'[t] = "body"
             /\ t \notin Reaped(w) /\ t \notin taken => thread'[t] = thread[t]
  <2>1. /\ EventLoopsTypeOK /\ queue \in Seq(Task) /\ Once(queue) /\ Turn(w, queue, quit)
        /\ \A t \in ToSet(queue) : thread[t] \in {"none", "blocked"}
    BY <1>0, <1>3
  <2> QED BY <2>1, TurnFacts, Zenon
<1>5. EventLoopsTypeOK'
  <2>1. WaitTreeTypeOK'
    BY <1>0, <1>1 DEF EventLoopsTypeOK, WaitTreeTypeOK
  <2>2. to_runtime' \in [Worker -> Seq([tag : UpTag, task : Task, amount : Int])]
    BY <1>0, <1>1, Zenon DEF EventLoopsTypeOK
  <2>3. to_worker' \in [Worker -> Seq([tag : DownTag, task : Task])]
    BY Zenon DEF QueueReady, DownMsg
  <2>4. phase' \in {"first", "loop", "exit"}
    BY <1>0, <1>1, Zenon DEF EventLoopsTypeOK
  <2>5. /\ waiting_tasks' \in [Worker -> SUBSET Task] /\ host' \in [Task -> Worker \cup {0}]
        /\ quit_loop' \in [Worker -> BOOLEAN]
    BY Zenon DEF QueueReady
  <2> QED BY <1>4, <2>1, <2>2, <2>3, <2>4, <2>5, Zenon DEF EventLoopsTypeOK
(* What a turn does to a task.                                             *)
<1>6. \A t \in Task :
        /\ thread[t] \in ThreadPC
        /\ t \in Reaped(w) => thread[t] = "finish_flag" /\ thread'[t] = "joined"
        /\ t \in taken => t \in ToSet(queue)
        /\ t \notin ToSet(queue) /\ thread[t] # "finish_flag" => thread'[t] = thread[t]
        /\ thread'[t] # thread[t] => thread'[t] \in {"joined", "woken", "body"}
        /\ HasEnded(t) => HasEnded(t)'
        /\ t \in ToSet(queue) /\ t \notin taken => thread'[t] = thread[t]
        /\ t \in taken => thread'[t] \in {"woken", "body"}
        /\ thread'[t] = "woken" => thread[t] = "woken" \/ (t \in ToSet(queue) /\ thread[t] = "blocked")
  <2> SUFFICES ASSUME NEW t \in Task
      PROVE /\ thread[t] \in ThreadPC
            /\ t \in Reaped(w) => thread[t] = "finish_flag" /\ thread'[t] = "joined"
            /\ t \in taken => t \in ToSet(queue)
            /\ t \notin ToSet(queue) /\ thread[t] # "finish_flag" => thread'[t] = thread[t]
            /\ thread'[t] # thread[t] => thread'[t] \in {"joined", "woken", "body"}
            /\ HasEnded(t) => HasEnded(t)'
            /\ t \in ToSet(queue) /\ t \notin taken => thread'[t] = thread[t]
            /\ t \in taken => thread'[t] \in {"woken", "body"}
            /\ thread'[t] = "woken" => thread[t] = "woken" \/ (t \in ToSet(queue) /\ thread[t] = "blocked")
    OBVIOUS
  <2>1. thread[t] \in ThreadPC
    BY <1>0, LoopTypes
  <2>2. t \in Reaped(w) => thread[t] = "finish_flag"
    BY DEF Reaped
  <2>3. t \in taken => t \in ToSet(queue)
    BY <1>4
  <2>4. t \in ToSet(queue) => thread[t] \in {"none", "blocked"}
    BY <1>3
  <2>5. /\ t \in Reaped(w) => thread'[t] = "joined"
        /\ t \in taken /\ thread[t] = "blocked" => thread'[t] = "woken"
        /\ t \in taken /\ thread[t] = "none" => thread'[t] = "body"
        /\ t \notin Reaped(w) /\ t \notin taken => thread'[t] = thread[t]
    BY <1>4
  <2>6. HasEnded(t) => HasEnded(t)'
    BY <2>2, <2>3, <2>4, <2>5 DEF HasEnded
  <2> QED BY <2>1, <2>2, <2>3, <2>4, <2>5, <2>6
<1>7. \A v \in Worker, t \in Task :
        /\ Ordered(v, t)' => Ordered(v, t) /\ t \notin ToSet(queue)
        /\ Called(v, t)' => Called(v, t) /\ t \notin ToSet(queue)
        /\ Runnable(v, t)' => Runnable(v, t) \/ (v = w /\ t \in ToSet(queue))
  <2> SUFFICES ASSUME NEW v \in Worker, NEW t \in Task
               PROVE  /\ Ordered(v, t)' => Ordered(v, t) /\ t \notin ToSet(queue)
                      /\ Called(v, t)' => Called(v, t) /\ t \notin ToSet(queue)
                      /\ Runnable(v, t)' => Runnable(v, t) \/ (v = w /\ t \in ToSet(queue))
    OBVIOUS
  <2>1. ToSet(to_worker'[v]) \subseteq ToSet(to_worker[v])
    BY DEF QueueReady
  <2>2. Ordered(v, t)' => Ordered(v, t)
    BY <2>1 DEF Ordered, Down
  <2>3. Called(v, t)' => Called(v, t)
    BY <2>1 DEF Called, Down
  <2>4. Runnable(v, t)' => Runnable(v, t) \/ (v = w /\ t \in ToSet(queue))
    BY <1>4 DEF Runnable
  <2> QED BY <1>3, <2>2, <2>3, <2>4
<1>8. \A t \in Task :
        /\ host'[t] = host[t] \/ (host[t] = 0 /\ t \in ToSet(queue) /\ Ordered(w, t))
        /\ host[t] # 0 => host'[t] = host[t]
        /\ t \notin ToSet(queue) => host'[t] = host[t]
  BY <1>0 DEF QueueReady, OrderInv
<1>9. \A v \in Worker : \A t \in waiting_tasks[v] :
        t \in waiting_tasks'[v] \/ (t \in ToSet(queue) /\ thread[t] = "blocked")
  BY DEF QueueReady
<1>10. w # 0 /\ 0 \notin Worker /\ host \in [Task -> Worker \cup {0}]
  BY <1>0, LoopTypes
<1>11. SpeechInv'
  <2>1. \A v \in Worker : LastWord(to_runtime'[v])
    BY <1>0, <1>1 DEF SpeechInv
  <2>2. ASSUME NEW v \in Worker, NEW m \in ToSet(to_runtime[v]), Speaks(m)
        PROVE  SpokenTrue(v, m)'
    <3>1. m.task \in Task /\ SpokenTrue(v, m) /\ ~Silent(m.task)
      BY <1>0, <2>2, InChannels, MessageNames DEF SpeechInv, Silent
    <3>2. host[m.task] = v /\ host'[m.task] = v
      BY <1>8, <1>10, <3>1 DEF SpokenTrue
    <3>3. m.tag = "COMMAND" => HasEnded(m.task)'
      BY <1>6, <3>1 DEF SpokenTrue
    <3>4. m.tag \in {"WAITTASK", "WAITALL"} =>
            thread'[m.task] = "blocked" /\ m.task \in waiting_tasks'[v]
      <4> SUFFICES ASSUME m.tag \in {"WAITTASK", "WAITALL"}
                   PROVE  thread'[m.task] = "blocked" /\ m.task \in waiting_tasks'[v]
        OBVIOUS
      <4>1. thread[m.task] = "blocked" /\ m.task \in waiting_tasks[v]
        BY <3>1 DEF SpokenTrue
      <4>2. m.task \notin ToSet(queue)
        BY <1>0, <1>3, <3>1, <4>1 DEF WaitInv
      <4> QED BY <1>6, <1>9, <3>1, <4>1, <4>2
    <3> QED BY <1>1, <3>1, <3>2, <3>3, <3>4 DEF SpokenTrue
  <2> QED BY <1>1, <2>1, <2>2 DEF SpeechInv
<1>12. OrderInv'
  <2>1. \A v \in Worker : OnceEach(to_worker'[v])
    BY DEF QueueReady
  <2>2. ASSUME NEW v \in Worker, NEW t \in Task, Ordered(v, t)'
        PROVE  t \in Created' /\ host'[t] = 0 /\ \A u \in Worker : Ordered(u, t)' => u = v
    BY <1>0, <1>2, <1>7, <1>8, <2>2 DEF OrderInv
  <2>3. ASSUME NEW v \in Worker, NEW t \in Task, Called(v, t)'
        PROVE  /\ host'[t] = v /\ thread'[t] = "blocked" /\ t \in waiting_tasks'[v]
               /\ ~Runnable(v, t)'
    <3>1. Called(v, t) /\ t \notin ToSet(queue)
      BY <1>7, <2>3
    <3>2. host[t] = v /\ thread[t] = "blocked" /\ t \in waiting_tasks[v] /\ ~Runnable(v, t)
      BY <1>0, <3>1 DEF OrderInv
    <3> QED BY <1>6, <1>7, <1>8, <1>9, <3>1, <3>2
  <2> QED BY <2>1, <2>2, <2>3 DEF OrderInv
<1>13. PlaceInv'
  <2>1. ASSUME NEW t \in ToSet(queued_tasks)
        PROVE  t \in Created' /\ host'[t] = 0 /\ \A v \in Worker : ~Ordered(v, t)'
    <3>1. t \in Created /\ t \in Task /\ host[t] = 0 /\ \A v \in Worker : ~Ordered(v, t)
      BY <1>0, CreatedTasks DEF PlaceInv
    <3> QED BY <1>2, <1>7, <1>8, <3>1
  <2>2. ASSUME NEW t \in Task
        PROVE  /\ host'[t] = 0 => thread'[t] = "none"
               /\ host'[t] # 0 => t \in Created'
               /\ execution_finished'[t] => HasEnded(t)'
               /\ thread'[t] \in {"taskwait", "allwait"} => t \in waiting_tasks'[host'[t]]
    <3>1. /\ host[t] = 0 => thread[t] = "none"
          /\ host[t] # 0 => t \in Created
          /\ execution_finished[t] => HasEnded(t)
          /\ thread[t] \in {"taskwait", "allwait"} => t \in waiting_tasks[host[t]]
      BY <1>0 DEF PlaceInv
    <3>2. host'[t] = 0 => host[t] = 0 /\ t \notin ToSet(queue)
      BY <1>3, <1>8, <1>10
    <3>3. host'[t] = 0 => thread'[t] = "none"
      BY <1>6, <3>1, <3>2
    <3>4. host'[t] # 0 => t \in Created'
      BY <1>2, <1>3, <1>8, <3>1
    <3>5. thread'[t] \in {"taskwait", "allwait"} => t \in waiting_tasks'[host'[t]]
      <4> SUFFICES ASSUME thread'[t] \in {"taskwait", "allwait"}
                   PROVE  t \in waiting_tasks'[host'[t]]
        OBVIOUS
      <4>1. thread[t] = thread'[t] /\ host[t] # 0
        BY <1>6, <3>1
      <4>2. host'[t] = host[t] /\ host[t] \in Worker
        BY <1>8, <1>10, <4>1
      <4> QED BY <1>9, <3>1, <4>1, <4>2
    <3> QED BY <1>1, <1>6, <3>1, <3>3, <3>4, <3>5
  <2>3. ASSUME NEW v \in Worker
        PROVE  /\ Once(runnable_tasks'[v])
               /\ \A t \in ToSet(runnable_tasks'[v]) :
                    host'[t] = v /\ thread'[t] \in {"none", "blocked"}
    <3>1. CASE v = w
      <4>1. \A t \in ToSet(runnable_tasks'[w]) : t \in ToSet(queue) /\ t \notin taken /\ t \in Task
        BY <1>3, <1>4
      <4> QED BY <1>3, <1>4, <1>6, <3>1, <4>1
    <3>2. CASE v # w
      <4>1. runnable_tasks'[v] = runnable_tasks[v] /\ Once(runnable_tasks[v])
        BY <1>0, <1>4, <3>2 DEF PlaceInv
      <4>2. ASSUME NEW t \in ToSet(runnable_tasks[v])
            PROVE  host'[t] = v /\ thread'[t] \in {"none", "blocked"}
        <5>1. t \in Task /\ host[t] = v /\ thread[t] \in {"none", "blocked"}
          BY <1>0, InChannels DEF PlaceInv
        <5>2. host'[t] = v /\ t \notin ToSet(queue)
          BY <1>3, <1>8, <1>10, <3>2, <5>1
        <5> QED BY <1>6, <5>1, <5>2
      <4> QED BY <4>1, <4>2
    <3> QED BY <3>1, <3>2
  <2> QED BY <1>0, <1>1, <2>1, <2>2, <2>3 DEF PlaceInv
<1>14. WaitInv'
  <2> SUFFICES ASSUME NEW t \in Task
               PROVE  /\ waiting'[t] # "no" =>
                           /\ thread'[t] = "blocked" /\ host'[t] = waiting_node'[t]
                           /\ t \in waiting_tasks'[host'[t]]
                           /\ Silent(t)' /\ ~BeingWoken(t)'
                      /\ BeingWoken(t)' => Silent(t)' /\ \A c \in children(t)' : execution_finished'[c]
    BY DEF WaitInv
  <2>1. Silent(t) => Silent(t)'
    BY <1>1 DEF Silent
  <2>2. BeingWoken(t)' => BeingWoken(t)
    <3>1. thread'[t] = "woken" => BeingWoken(t)
      BY <1>3, <1>6, WokenForms
    <3>2. ASSUME NEW v \in Worker, Called(v, t)' PROVE BeingWoken(t)
      BY <1>7, <3>2, WokenForms
    <3>3. ASSUME NEW v \in Worker, Runnable(v, t)', thread'[t] = "blocked" PROVE BeingWoken(t)
      <4>1. thread[t] = "blocked"
        BY <1>6, <3>3
      <4> QED BY <1>3, <1>7, <3>3, <4>1, WokenForms
    <3> QED BY <3>1, <3>2, <3>3, WokenFormsNext
  <2>3. ASSUME waiting[t] # "no"
        PROVE  /\ thread'[t] = "blocked" /\ host'[t] = waiting_node'[t]
               /\ t \in waiting_tasks'[host'[t]]
    <3>1. /\ thread[t] = "blocked" /\ host[t] = waiting_node[t]
          /\ t \in waiting_tasks[host[t]] /\ ~BeingWoken(t)
      BY <1>0, <2>3 DEF WaitInv
    <3>2. t \notin ToSet(queue) /\ host[t] \in Worker
      BY <1>0, <1>3, <1>10, <3>1 DEF PlaceInv
    <3> QED BY <1>1, <1>6, <1>8, <1>9, <3>1, <3>2
  <2> QED BY <1>0, <1>1, <1>2, <2>1, <2>2, <2>3 DEF WaitInv
<1> QED BY <1>2, <1>5, <1>11, <1>12, <1>13, <1>14 DEF EventLoopsInv

------------------------------------------------------------------------------
(* Steps that leave the tree alone leave it right.                         *)
LEMMA TreeSame ==
  ASSUME TreeInv, CountersInv, UNCHANGED treeVars
  PROVE  /\ Created' = Created /\ \A t : children(t)' = children(t)
         /\ TreeInv' /\ CountersInv'
         /\ id_counter' = id_counter /\ above' = above /\ execution_finished' = execution_finished
         /\ waiting' = waiting /\ waiting_node' = waiting_node
<1>1. /\ id_counter' = id_counter /\ above' = above /\ execution_finished' = execution_finished
      /\ running_children' = running_children
      /\ not_finished_children' = not_finished_children
      /\ waiting' = waiting /\ waiting_node' = waiting_node
  BY DEF treeVars
<1>2. Created' = Created /\ \A t : children(t)' = children(t)
  BY <1>1 DEF Created, children, parent
<1>3. TreeInv'
  BY <1>1, <1>2 DEF TreeInv
<1>4. CountersInv'
  BY <1>1, <1>2 DEF CountersInv, CountersExact, Subtree, Below
<1> QED BY <1>1, <1>2, <1>3, <1>4

(* A task that is being woken is at a worker, and waits there.             *)
LEMMA WokenPlaced ==
  ASSUME EventLoopsInv, NEW t \in Task, BeingWoken(t)
  PROVE  /\ host[t] \in Worker /\ t \in Created
         /\ thread[t] \in {"woken", "blocked"}
<1>0. EventLoopsTypeOK /\ OrderInv /\ PlaceInv /\ host[t] \in Worker \cup {0}
  BY LoopTypes DEF EventLoopsInv
<1>1. CASE thread[t] = "woken"
  BY <1>0, <1>1 DEF PlaceInv
<1>2. ASSUME NEW w \in Worker, Called(w, t) PROVE host[t] \in Worker /\ thread[t] = "blocked"
  BY <1>0, <1>2 DEF OrderInv
<1>3. ASSUME NEW w \in Worker, Runnable(w, t), thread[t] = "blocked" PROVE host[t] \in Worker
  BY <1>0, <1>3 DEF PlaceInv, Runnable
<1>4. host[t] \in Worker => t \in Created
  BY <1>0, LoopTypes DEF PlaceInv
<1> QED BY <1>1, <1>2, <1>3, <1>4, WokenForms

(* A thread that is in its body says something, and what it has then to be *)
(* is in line with it.                                                     *)
Says(t, tag) ==
  \/ tag = "CREATE" /\ thread[t] = "body" /\ thread'[t] = "body"
  \/ tag = "COMMAND" /\ thread[t] = "body" /\ thread'[t] = "sent"
  \/ /\ tag \in {"WAITTASK", "WAITALL"} /\ thread[t] \in {"taskwait", "allwait"}
     /\ thread'[t] = "blocked"

(* A thread sends a message about its task: what it says is true, and it   *)
(* has said nothing final before.                                          *)
LEMMA SpeakStep ==
  ASSUME EventLoopsInv, EventLoopsTypeOK', NEW t \in Task,
         NEW tag \in {"CREATE", "COMMAND", "WAITTASK", "WAITALL"},
         Tell(t, tag), Says(t, tag),
         \A x \in Task \ {t} : thread'[x] = thread[x],
         UNCHANGED <<treeVars, queued_tasks, phase, to_worker, runnable_tasks, waiting_tasks, host>>
  PROVE  /\ TreeInv' /\ CountersInv' /\ SpeechInv' /\ OrderInv' /\ PlaceInv' /\ WaitInv' /\ ExitInv'
         /\ id_counter' = id_counter
         /\ IsFiniteSet(Uncreated')
         /\ Cardinality(Uncreated') = Cardinality(Uncreated) + (IF tag = "CREATE" THEN 1 ELSE 0)
<1>0. /\ EventLoopsTypeOK /\ TreeInv /\ CountersInv
      /\ SpeechInv /\ OrderInv /\ PlaceInv /\ WaitInv /\ BoundInv /\ ExitInv
  BY DEF EventLoopsInv
<1>1. /\ phase' = phase /\ queued_tasks' = queued_tasks /\ to_worker' = to_worker
      /\ runnable_tasks' = runnable_tasks /\ waiting_tasks' = waiting_tasks /\ host' = host
  OBVIOUS
<1>2. /\ Created' = Created /\ \A x : children(x)' = children(x)
      /\ TreeInv' /\ CountersInv'
      /\ id_counter' = id_counter /\ execution_finished' = execution_finished
      /\ waiting' = waiting /\ waiting_node' = waiting_node
  BY <1>0, TreeSame
<1>3. /\ thread[t] \in {"body", "taskwait", "allwait"}
      /\ thread'[t] \in {"body", "sent", "blocked"}
      /\ host[t] \in Worker /\ ~HasEnded(t) /\ ~execution_finished[t] /\ waiting[t] = "no"
  <2>1. thread[t] \in {"body", "taskwait", "allwait"} /\ thread'[t] \in {"body", "sent", "blocked"}
    BY DEF Says
  <2>2. host[t] # 0 /\ ~HasEnded(t) /\ ~execution_finished[t] /\ waiting[t] = "no"
    BY <1>0, <2>1 DEF PlaceInv, WaitInv, HasEnded
  <2> QED BY <1>0, <2>1, <2>2, LoopTypes
<1>4. ~BeingWoken(t)
  BY <1>3, WokenPlaced
<1> DEFINE w == host[t]
           m == Up(tag, t, 0)
<1>5. /\ m \in UpMsg /\ m.tag = tag /\ m.task = t /\ w \in Worker
      /\ to_runtime \in [Worker -> Seq(UpMsg)]
      /\ to_runtime' = [to_runtime EXCEPT ![w] = Append(to_runtime[w], m)]
  BY <1>0, <1>3, LoopTypes, MessageNames DEF UpTag, Tell
<1> HIDE DEF w, m
<1>6. /\ to_runtime' \in [Worker -> Seq(UpMsg)]
      /\ \A v \in Worker : v # w => to_runtime'[v] = to_runtime[v]
      /\ to_runtime'[w] = Append(to_runtime[w], m)
      /\ ToSet(to_runtime'[w]) = ToSet(to_runtime[w]) \cup {m}
      /\ IsFiniteSet(Uncreated) =>
           /\ IsFiniteSet(Uncreated')
           /\ Cardinality(Uncreated') =
                Cardinality(Uncreated) + (IF m.tag = "CREATE" THEN 1 ELSE 0)
  BY <1>5, UpSend
<1>7. \A v \in Worker : \A x \in ToSet(to_runtime'[v]) :
        (x \in ToSet(to_runtime[v]) /\ x \in UpMsg) \/ (x = m /\ v = w)
  BY <1>0, <1>6, InChannels
<1>8. ASSUME NEW v \in Worker, NEW x \in ToSet(to_runtime[v]), x.task = t
      PROVE  ~Final(x)
  <2> SUFFICES ASSUME Final(x) PROVE FALSE
    OBVIOUS
  <2>1. SpokenTrue(v, x)
    BY <1>0 DEF SpeechInv, Final, Speaks
  <2> QED BY <1>3, <1>8, <2>1 DEF SpokenTrue, Final
<1>9. SpeechInv'
  <2>1. ASSUME NEW v \in Worker PROVE LastWord(to_runtime'[v])
    <3>1. CASE v = w
      <4>1. to_runtime[w] \in Seq(UpMsg) /\ LastWord(to_runtime[w])
        BY <1>0, <1>5 DEF SpeechInv
      <4>2. \A x \in ToSet(to_runtime[w]) : Final(x) => x.task # m.task
        BY <1>5, <1>8
      <4> QED BY <1>5, <1>6, <3>1, <4>1, <4>2, UpAppend
    <3>2. CASE v # w
      BY <1>0, <1>6, <3>2 DEF SpeechInv
    <3> QED BY <3>1, <3>2
  <2>2. ASSUME NEW v \in Worker, NEW x \in ToSet(to_runtime'[v]), Speaks(x)
        PROVE  SpokenTrue(v, x)'
    <3>1. CASE x \in ToSet(to_runtime[v]) /\ x \in UpMsg
      <4>1. SpokenTrue(v, x) /\ x.task \in Task
        BY <1>0, <2>2, <3>1, MessageNames DEF SpeechInv
      <4>2. CASE x.task # t
        BY <1>1, <1>2, <4>1, <4>2 DEF SpokenTrue, HasEnded
      <4>3. CASE x.task = t
        <5>1. x.tag \notin {"COMMAND", "WAITTASK", "WAITALL"}
          BY <1>8, <3>1, <4>3 DEF Final
        <5> QED BY <1>1, <1>2, <4>1, <5>1 DEF SpokenTrue
      <4> QED BY <4>2, <4>3
    <3>2. CASE x = m /\ v = w
      <4>1. host'[t] = w /\ ~execution_finished'[t]
        BY <1>1, <1>2, <1>3 DEF w
      <4>2. tag = "COMMAND" => HasEnded(t)'
        BY DEF Says, HasEnded
      <4>3. tag \in {"WAITTASK", "WAITALL"} => thread'[t] = "blocked" /\ t \in waiting_tasks'[w]
        BY <1>0, <1>1 DEF Says, PlaceInv, w
      <4> QED BY <1>5, <3>2, <4>1, <4>2, <4>3 DEF SpokenTrue
    <3> QED BY <1>7, <3>1, <3>2
  <2> QED BY <2>1, <2>2 DEF SpeechInv
<1>10. \A v \in Worker, x \in Task :
        /\ Ordered(v, x)' <=> Ordered(v, x)
        /\ Called(v, x)' <=> Called(v, x)
        /\ Runnable(v, x)' <=> Runnable(v, x)
  BY <1>1 DEF Ordered, Called, Runnable, Down
<1>11. OrderInv'
  <2>1. \A v \in Worker : OnceEach(to_worker'[v])
    BY <1>0, <1>1 DEF OrderInv
  <2>2. ASSUME NEW v \in Worker, NEW x \in Task, Ordered(v, x)
        PROVE  x \in Created /\ host[x] = 0 /\ \A u \in Worker : Ordered(u, x) => u = v
    BY <1>0, <2>2 DEF OrderInv
  <2>3. ASSUME NEW v \in Worker, NEW x \in Task, Called(v, x)
        PROVE  /\ host[x] = v /\ thread'[x] = "blocked" /\ x \in waiting_tasks[v]
               /\ ~Runnable(v, x)
    <3>1. x # t
      BY <1>4, <2>3, WokenForms
    <3> QED BY <1>0, <2>3, <3>1 DEF OrderInv
  <2> QED BY <1>1, <1>2, <1>10, <2>1, <2>2, <2>3 DEF OrderInv
<1>12. PlaceInv'
  <2>1. \A x \in ToSet(queued_tasks) : x \in Task
    BY <1>0, CreatedTasks DEF PlaceInv
  <2>2. Once(queued_tasks') /\ \A x \in ToSet(queued_tasks') :
          x \in Created' /\ host'[x] = 0 /\ \A v \in Worker : ~Ordered(v, x)'
    BY <1>0, <1>1, <1>2, <1>10, <2>1 DEF PlaceInv
  <2>3. ASSUME NEW x \in Task
        PROVE  /\ host'[x] = 0 => thread'[x] = "none"
               /\ host'[x] # 0 => x \in Created'
               /\ execution_finished'[x] => HasEnded(x)'
               /\ thread'[x] \in {"taskwait", "allwait"} => x \in waiting_tasks'[host'[x]]
    <3>1. CASE x = t
      BY <1>0, <1>1, <1>2, <1>3, <3>1, LoopTypes DEF PlaceInv
    <3>2. CASE x # t
      BY <1>0, <1>1, <1>2, <3>2 DEF PlaceInv, HasEnded
    <3> QED BY <3>1, <3>2
  <2>4. ASSUME NEW v \in Worker
        PROVE  /\ Once(runnable_tasks'[v])
               /\ \A x \in ToSet(runnable_tasks'[v]) :
                    host'[x] = v /\ thread'[x] \in {"none", "blocked"}
    <3>1. \A x \in ToSet(runnable_tasks[v]) :
            x \in Task /\ host[x] = v /\ thread[x] \in {"none", "blocked"} /\ x # t
      BY <1>0, <1>3, InChannels DEF PlaceInv
    <3> QED BY <1>0, <1>1, <3>1 DEF PlaceInv
  <2> QED BY <2>2, <2>3, <2>4 DEF PlaceInv
<1>13. WaitInv'
  <2> SUFFICES ASSUME NEW x \in Task
               PROVE  /\ waiting'[x] # "no" =>
                           /\ thread'[x] = "blocked" /\ host'[x] = waiting_node'[x]
                           /\ x \in waiting_tasks'[host'[x]]
                           /\ Silent(x)' /\ ~BeingWoken(x)'
                      /\ BeingWoken(x)' => Silent(x)' /\ \A c \in children(x)' : execution_finished'[c]
    BY DEF WaitInv
  <2>1. CASE x # t
    <3>1. Silent(x) => Silent(x)'
      BY <1>5, <1>7, <2>1 DEF Silent
    <3>2. BeingWoken(x)' <=> BeingWoken(x)
      BY <1>10, <2>1, WokenForms, WokenFormsNext
    <3> QED BY <1>0, <1>1, <1>2, <2>1, <3>1, <3>2 DEF WaitInv
  <2>2. CASE x = t
    <3>1. \A v \in Worker : ~Called(v, t) /\ ~Runnable(v, t)
      BY <1>0, <1>3, <1>4, WokenForms DEF PlaceInv, Runnable
    <3>2. ~BeingWoken(t)'
      BY <1>3, <1>10, <3>1, WokenFormsNext
    <3> QED BY <1>2, <1>3, <2>2, <3>2
  <2> QED BY <2>1, <2>2
<1>14. ExitInv'
  BY <1>0, <1>1, <1>2 DEF ExitInv
<1> QED BY <1>0, <1>2, <1>5, <1>6, <1>9, <1>11, <1>12, <1>13, <1>14 DEF BoundInv

------------------------------------------------------------------------------
(* What the runtime process knows when it has received a message.          *)
LEMMA IncomingFacts ==
  ASSUME EventLoopsInv, NEW w \in Worker, NEW tag \in UpTag, Incoming(w, tag),
         NEW m, m = Head(to_runtime[w])
  PROVE  /\ to_runtime' \in [Worker -> Seq(UpMsg)]
         /\ \A v \in Worker :
              LastWord(to_runtime'[v]) /\ ToSet(to_runtime'[v]) \subseteq ToSet(to_runtime[v])
         /\ m.tag = tag /\ m.task \in Task /\ m.amount \in Int
         /\ tag # "FREECAPACITY" =>
              /\ SpokenTrue(w, m) /\ m.task \in Created
              /\ ~Silent(m.task) /\ ~BeingWoken(m.task)
         /\ tag \in {"COMMAND", "WAITTASK", "WAITALL"} => Silent(m.task)'
         /\ \A t \in Task : Silent(t) => Silent(t)'
         /\ IsFiniteSet(Uncreated') /\ Cardinality(Uncreated') \in Nat
         /\ Cardinality(Uncreated) =
              Cardinality(Uncreated') + (IF tag = "CREATE" THEN 1 ELSE 0)
         /\ phase # "exit" /\ phase' = "loop"
<1>0. /\ EventLoopsTypeOK /\ SpeechInv /\ PlaceInv /\ WaitInv /\ BoundInv
  BY DEF EventLoopsInv
<1>1. /\ to_runtime \in [Worker -> Seq(UpMsg)] /\ to_runtime[w] # << >> /\ m.tag = tag
      /\ to_runtime' = [to_runtime EXCEPT ![w] = Tail(to_runtime[w])]
      /\ phase' = "loop" /\ phase # "exit"
  BY <1>0, LoopTypes DEF Incoming, Receiving
<1>2. /\ to_runtime' \in [Worker -> Seq(UpMsg)]
      /\ m \in UpMsg
      /\ \A v \in Worker : v # w => to_runtime'[v] = to_runtime[v]
      /\ to_runtime'[w] = Tail(to_runtime[w])
      /\ ToSet(to_runtime[w]) = ToSet(to_runtime'[w]) \cup {m}
      /\ IsFiniteSet(Uncreated) =>
           /\ IsFiniteSet(Uncreated')
           /\ Cardinality(Uncreated) =
                Cardinality(Uncreated') + (IF m.tag = "CREATE" THEN 1 ELSE 0)
  BY <1>1, UpReceive
<1>3. m.task \in Task /\ m.amount \in Int
  BY <1>2, MessageNames
<1>4. \A v \in Worker : to_runtime[v] \in Seq(UpMsg) /\ LastWord(to_runtime[v])
  BY <1>0, <1>1 DEF SpeechInv
<1>5. /\ LastWord(Tail(to_runtime[w]))
      /\ Final(m) => \A x \in ToSet(Tail(to_runtime[w])) : Speaks(x) => x.task # m.task
  BY <1>1, <1>4, UpTail
<1>6. \A v \in Worker :
        LastWord(to_runtime'[v]) /\ ToSet(to_runtime'[v]) \subseteq ToSet(to_runtime[v])
  <2> SUFFICES ASSUME NEW v \in Worker
               PROVE  /\ LastWord(to_runtime'[v])
                      /\ ToSet(to_runtime'[v]) \subseteq ToSet(to_runtime[v])
    OBVIOUS
  <2>1. CASE v = w
    BY <1>2, <1>5, <2>1
  <2>2. CASE v # w
    BY <1>2, <1>4, <2>2
  <2> QED BY <2>1, <2>2
<1>7. ASSUME tag # "FREECAPACITY"
      PROVE  /\ SpokenTrue(w, m) /\ m.task \in Created
             /\ ~Silent(m.task) /\ ~BeingWoken(m.task)
  <2>1. Speaks(m) /\ m \in ToSet(to_runtime[w])
    BY <1>1, <1>2, <1>7 DEF Speaks
  <2>2. SpokenTrue(w, m) /\ ~Silent(m.task)
    BY <1>0, <2>1 DEF SpeechInv, Silent
  <2>3. m.task \in Created
    BY <1>0, <1>3, <2>2, LoopTypes DEF SpokenTrue, PlaceInv
  <2>4. ~BeingWoken(m.task)
    BY <1>0, <1>3, <2>2 DEF WaitInv
  <2> QED BY <2>2, <2>3, <2>4
<1>8. \A t \in Task : Silent(t) => Silent(t)'
  BY <1>6 DEF Silent
<1>9. ASSUME tag \in {"COMMAND", "WAITTASK", "WAITALL"} PROVE Silent(m.task)'
  <2>1. ASSUME NEW v \in Worker, NEW x \in ToSet(to_runtime'[v]), Speaks(x), x.task = m.task
        PROVE  FALSE
    <3>1. SpokenTrue(v, x) /\ SpokenTrue(w, m)
      BY <1>0, <1>6, <1>7, <1>9, <2>1 DEF SpeechInv
    <3>2. v = w
      BY <2>1, <3>1 DEF SpokenTrue
    <3> QED BY <1>1, <1>2, <1>5, <1>9, <2>1, <3>2 DEF Final
  <2> QED BY <2>1 DEF Silent
<1>10. /\ IsFiniteSet(Uncreated') /\ Cardinality(Uncreated') \in Nat
       /\ Cardinality(Uncreated) =
            Cardinality(Uncreated') + (IF tag = "CREATE" THEN 1 ELSE 0)
  BY <1>0, <1>1, <1>2, FS_CardinalityType DEF BoundInv
<1> QED BY <1>1, <1>2, <1>3, <1>6, <1>7, <1>8, <1>9, <1>10

(* What a receive leaves true of the messages that are left.               *)
LEMMA StillSpoken ==
  ASSUME EventLoopsInv, NEW w \in Worker, NEW tag \in UpTag, Incoming(w, tag),
         UNCHANGED <<host, thread, waiting_tasks>>,
         \A v \in Worker : \A m \in ToSet(to_runtime'[v]) :
           Speaks(m) => execution_finished'[m.task] = execution_finished[m.task]
  PROVE  SpeechInv'
<1>1. SpeechInv
  BY DEF EventLoopsInv
<1>2. \A v \in Worker :
        LastWord(to_runtime'[v]) /\ ToSet(to_runtime'[v]) \subseteq ToSet(to_runtime[v])
  BY IncomingFacts
<1>3. ASSUME NEW v \in Worker, NEW m \in ToSet(to_runtime'[v]), Speaks(m)
      PROVE  SpokenTrue(v, m)'
  <2>1. SpokenTrue(v, m)
    BY <1>1, <1>2, <1>3 DEF SpeechInv
  <2> QED BY <1>3, <2>1 DEF SpokenTrue, HasEnded
<1> QED BY <1>2, <1>3 DEF SpeechInv

(* A creation is received: the new task is nowhere yet.                    *)
LEMMA CreateStep ==
  ASSUME EventLoopsInv, NEW w \in Worker, receive_create(w)
  PROVE  EventLoopsInv'
<1>0. /\ EventLoopsTypeOK /\ TreeInv /\ CountersInv
      /\ SpeechInv /\ OrderInv /\ PlaceInv /\ WaitInv /\ BoundInv /\ ExitInv
  BY DEF EventLoopsInv
<1> DEFINE m == Head(to_runtime[w])
           p == m.task
<1>1. /\ Incoming(w, "CREATE") /\ handle_create_task(p)
      /\ to_worker' = to_worker /\ runnable_tasks' = runnable_tasks
      /\ waiting_tasks' = waiting_tasks /\ thread' = thread /\ host' = host
      /\ capacity' = capacity /\ waiting_capacity' = waiting_capacity
      /\ to_report' = to_report /\ quit_loop' = quit_loop
  BY DEF receive_create, loopVars
<1>2. /\ to_runtime' \in [Worker -> Seq(UpMsg)]
      /\ p \in Task /\ p \in Created /\ SpokenTrue(w, m) /\ ~Silent(p) /\ ~BeingWoken(p)
      /\ \A t \in Task : Silent(t) => Silent(t)'
      /\ IsFiniteSet(Uncreated') /\ Cardinality(Uncreated') \in Nat
      /\ Cardinality(Uncreated) = Cardinality(Uncreated') + 1
      /\ phase' = "loop"
  <2>1. "CREATE" \in UpTag
    BY DEF UpTag
  <2> QED BY <1>1, <2>1, IncomingFacts
<1> HIDE DEF m
<1>3. PICK c \in Task : c = id_counter
  <2>1. id_counter \in Task /\ id_counter + 1 + Cardinality(Uncreated') <= MaxTask + 1
    <3>1. id_counter \in 1 .. MaxTask + 1 /\ MaxTask \in Nat
      BY <1>0, MaxTaskAssumption DEF TreeInv
    <3> QED BY <1>0, <1>2, <3>1 DEF BoundInv, Task
  <2> QED BY <2>1
<1>4. /\ TreeInv' /\ CountersInv'
      /\ c \notin Created /\ c # Root /\ Created' = Created \cup {c}
      /\ \A a \in Created : a # p => children(a)' = children(a)
      /\ children(c)' = {}
  <2>1. ~execution_finished[p]
    BY <1>2 DEF SpokenTrue
  <2> QED BY <1>0, <1>1, <1>2, <1>3, <2>1, CreateTree, CreateCounts
<1>5. /\ id_counter' = c + 1 /\ queued_tasks' = Append(queued_tasks, c)
      /\ execution_finished' = execution_finished /\ waiting' = waiting
      /\ waiting_node' = waiting_node /\ free_workers' = free_workers /\ offered' = offered
  BY <1>1, <1>3 DEF handle_create_task
<1>6. host[c] = 0 /\ thread[c] = "none" /\ \A v \in Worker : ~Ordered(v, c)
  <2>1. host[c] = 0
    BY <1>0, <1>4 DEF PlaceInv
  <2> QED BY <1>0, <1>4, <2>1 DEF PlaceInv, OrderInv
<1>7. \A v \in Worker, t \in Task :
        /\ Ordered(v, t)' <=> Ordered(v, t)
        /\ Called(v, t)' <=> Called(v, t)
        /\ Runnable(v, t)' <=> Runnable(v, t)
  BY <1>1 DEF Ordered, Called, Runnable, Down
<1>8. /\ queued_tasks' \in Seq(Task) /\ ToSet(queued_tasks') = ToSet(queued_tasks) \cup {c}
      /\ Once(queued_tasks')
  <2>1. queued_tasks \in Seq(Task) /\ c \notin ToSet(queued_tasks) /\ Once(queued_tasks)
    BY <1>0, <1>4, LoopTypes DEF PlaceInv
  <2> QED BY <1>5, <2>1, AppendFacts
<1>9. EventLoopsTypeOK'
  <2>1. WaitTreeTypeOK'
    <3>1. /\ id_counter' \in 1 .. MaxTask + 1 /\ above' \in [Task -> SUBSET Task]
          /\ running_children' \in [Task -> Nat] /\ not_finished_children' \in [Task -> Nat]
          /\ execution_finished' \in [Task -> BOOLEAN]
      BY <1>4 DEF TreeInv, CountersInv
    <3> QED BY <1>0, <1>5, <1>8, <3>1 DEF EventLoopsTypeOK, WaitTreeTypeOK
  <2>2. to_runtime' \in [Worker -> Seq([tag : UpTag, task : Task, amount : Int])]
    BY <1>2, Zenon DEF UpMsg
  <2> QED BY <1>0, <1>1, <1>2, <2>1, <2>2 DEF EventLoopsTypeOK
<1>10. SpeechInv'
  <2>1. "CREATE" \in UpTag
    BY DEF UpTag
  <2> QED BY <1>1, <1>5, <2>1, StillSpoken
<1>11. OrderInv'
  <2>1. \A v \in Worker : OnceEach(to_worker'[v])
    BY <1>0, <1>1 DEF OrderInv
  <2>2. ASSUME NEW v \in Worker, NEW t \in Task
        PROVE  /\ Ordered(v, t)' =>
                    t \in Created' /\ host'[t] = 0 /\ \A u \in Worker : Ordered(u, t)' => u = v
               /\ Called(v, t)' =>
                    /\ host'[t] = v /\ thread'[t] = "blocked" /\ t \in waiting_tasks'[v]
                    /\ ~Runnable(v, t)'
    BY <1>0, <1>1, <1>4, <1>7 DEF OrderInv
  <2> QED BY <2>1, <2>2 DEF OrderInv
<1>12. PlaceInv'
  <2>1. ASSUME NEW t \in ToSet(queued_tasks')
        PROVE  t \in Created' /\ host'[t] = 0 /\ \A v \in Worker : ~Ordered(v, t)'
    <3>1. t = c \/ (t \in ToSet(queued_tasks) /\ t \in Task)
      BY <1>0, <1>8, CreatedTasks DEF PlaceInv
    <3> QED BY <1>0, <1>1, <1>4, <1>6, <1>7, <3>1 DEF PlaceInv
  <2>2. ASSUME NEW t \in Task
        PROVE  /\ host'[t] = 0 => thread'[t] = "none"
               /\ host'[t] # 0 => t \in Created'
               /\ execution_finished'[t] => HasEnded(t)'
               /\ thread'[t] \in {"taskwait", "allwait"} => t \in waiting_tasks'[host'[t]]
    BY <1>0, <1>1, <1>4, <1>5 DEF PlaceInv, HasEnded
  <2>3. ASSUME NEW v \in Worker
        PROVE  /\ Once(runnable_tasks'[v])
               /\ \A t \in ToSet(runnable_tasks'[v]) :
                    host'[t] = v /\ thread'[t] \in {"none", "blocked"}
    BY <1>0, <1>1 DEF PlaceInv
  <2> QED BY <1>8, <2>1, <2>2, <2>3 DEF PlaceInv
<1>13. WaitInv'
  <2> SUFFICES ASSUME NEW t \in Task
               PROVE  /\ waiting'[t] # "no" =>
                           /\ thread'[t] = "blocked" /\ host'[t] = waiting_node'[t]
                           /\ t \in waiting_tasks'[host'[t]]
                           /\ Silent(t)' /\ ~BeingWoken(t)'
                      /\ BeingWoken(t)' => Silent(t)' /\ \A x \in children(t)' : execution_finished'[x]
    BY DEF WaitInv
  <2>1. BeingWoken(t)' <=> BeingWoken(t)
    BY <1>1, <1>7, WokenForms, WokenFormsNext
  <2>2. BeingWoken(t) => t \in Created /\ t # p
    BY <1>2, WokenPlaced
  <2>3. BeingWoken(t) => children(t)' = children(t)
    BY <1>4, <2>2
  <2> QED BY <1>0, <1>1, <1>2, <1>5, <2>1, <2>3 DEF WaitInv
<1>14. BoundInv' /\ ExitInv'
  <2>1. id_counter' + Cardinality(Uncreated') <= MaxTask + 1
    <3>1. c + (Cardinality(Uncreated') + 1) <= MaxTask + 1
      BY <1>0, <1>2, <1>3 DEF BoundInv
    <3>2. c \in Nat /\ MaxTask \in Nat
      BY MaxTaskAssumption DEF Task
    <3> QED BY <1>2, <1>5, <3>1, <3>2
  <2> QED BY <1>2, <2>1 DEF BoundInv, ExitInv
<1> QED BY <1>4, <1>9, <1>10, <1>11, <1>12, <1>13, <1>14 DEF EventLoopsInv

(* The messages that wake the tasks whose wait is over.                    *)
LEMMA WakeupFacts ==
  ASSUME NEW t \in Task, TreeInv, NEW v \in Worker
  PROVE  /\ WakeupsTo(v, t) \in Seq(DownMsg) /\ Once(WakeupsTo(v, t))
         /\ \A x \in ToSet(WakeupsTo(v, t)) :
              \E a \in Woken(t) : waiting_node[a] = v /\ x = Down("WAKEUPTASK", a)
<1> DEFINE A == {b \in Woken(t) : waiting_node[b] = v}
           S == {Down("WAKEUPTASK", a) : a \in A}
<1>1. A \subseteq Task
  BY DEF Woken, TreeInv
<1>2. IsFiniteSet(A)
  BY <1>1, FiniteTasks
<1>3. S \subseteq DownMsg
  BY <1>1, MessageNames DEF DownTag
<1>4. IsFiniteSet(S)
  <2> DEFINE f == [a \in A |-> Down("WAKEUPTASK", a)]
  <2>1. S = {f[a] : a \in A}
    OBVIOUS
  <2>2. f \in Surjection(A, S)
    BY <2>1 DEF Surjection
  <2> HIDE DEF f, A, S
  <2> QED BY <1>2, <2>2, FS_Surjection
<1>5. SetToSeq(S) \in Seq(S) /\ Once(SetToSeq(S)) /\ ToSet(SetToSeq(S)) \subseteq S
  <2> HIDE DEF S
  <2> QED BY <1>4, SetToSeqFacts
<1>6. WakeupsTo(v, t) = SetToSeq(S)
  BY DEF WakeupsTo
<1>7. SetToSeq(S) \in Seq(DownMsg)
  <2> HIDE DEF S
  <2> QED BY <1>3, <1>5
<1> QED BY <1>5, <1>6, <1>7

(* The end of a task is received, and the tasks whose wait is over called. *)
LEMMA FinishStep ==
  ASSUME EventLoopsInv, NEW w \in Worker, receive_finish(w)
  PROVE  EventLoopsInv'
<1>0. /\ EventLoopsTypeOK /\ TreeInv /\ CountersInv
      /\ SpeechInv /\ OrderInv /\ PlaceInv /\ WaitInv /\ BoundInv /\ ExitInv
  BY DEF EventLoopsInv
<1>a. PICK m : m = Head(to_runtime[w])
  OBVIOUS
<1> DEFINE t == m.task
<1>1. /\ Incoming(w, "COMMAND") /\ handle_finish_task(t)
      /\ to_worker' = [v \in Worker |-> to_worker[v] \o WakeupsTo(v, t)]
      /\ runnable_tasks' = runnable_tasks
      /\ waiting_tasks' = waiting_tasks /\ thread' = thread /\ host' = host
      /\ capacity' = capacity /\ waiting_capacity' = waiting_capacity
      /\ to_report' = to_report /\ quit_loop' = quit_loop
  BY <1>a DEF receive_finish, loopVars
<1>2. /\ to_runtime' \in [Worker -> Seq(UpMsg)]
      /\ m.tag = "COMMAND"
      /\ t \in Task /\ t \in Created /\ SpokenTrue(w, m) /\ Silent(t)'
      /\ \A x \in Task : Silent(x) => Silent(x)'
      /\ \A v \in Worker : ToSet(to_runtime'[v]) \subseteq ToSet(to_runtime[v])
      /\ IsFiniteSet(Uncreated') /\ Cardinality(Uncreated') \in Nat
      /\ Cardinality(Uncreated) = Cardinality(Uncreated')
      /\ phase' = "loop"
  <2>1. "COMMAND" \in UpTag
    BY DEF UpTag
  <2>2. Cardinality(Uncreated) \in Nat
    BY <1>0, FS_CardinalityType DEF BoundInv
  <2>3. /\ IsFiniteSet(Uncreated') /\ Cardinality(Uncreated') \in Nat
        /\ Cardinality(Uncreated) = Cardinality(Uncreated') + 0
    BY <1>1, <1>a, <2>1, IncomingFacts
  <2>4. /\ to_runtime' \in [Worker -> Seq(UpMsg)]
        /\ m.tag = "COMMAND"
        /\ t \in Task /\ t \in Created /\ SpokenTrue(w, m) /\ Silent(t)'
        /\ \A x \in Task : Silent(x) => Silent(x)'
        /\ \A v \in Worker : ToSet(to_runtime'[v]) \subseteq ToSet(to_runtime[v])
        /\ phase' = "loop"
    BY <1>1, <1>a, <2>1, IncomingFacts
  <2> QED BY <2>3, <2>4
<1>3. ~execution_finished[t] /\ HasEnded(t)
  BY <1>2 DEF SpokenTrue
<1>4. TreeInv' /\ CountersInv'
  BY <1>0, <1>1, <1>2, <1>3, FinishCounts
<1>5. /\ id_counter' = id_counter /\ queued_tasks' = queued_tasks
      /\ free_workers' = free_workers /\ offered' = offered
      /\ execution_finished' = [execution_finished EXCEPT ![t] = TRUE]
      /\ waiting' = [a \in Task |-> IF a \in Woken(t) THEN "no" ELSE waiting[a]]
      /\ waiting_node' = [a \in Task |-> IF a \in Woken(t) THEN -1 ELSE waiting_node[a]]
      /\ Created' = Created /\ \A a : children(a)' = children(a)
  <2>1. handle_finish_task(t)
    BY <1>1
  <2>2. id_counter' = id_counter /\ above' = above
    BY <2>1 DEF handle_finish_task
  <2>3. Created' = Created /\ \A a : children(a)' = children(a)
    BY <2>2 DEF Created, children, parent
  <2> QED BY <2>1, <2>2, <2>3, Zenon DEF handle_finish_task, poolVars
<1>6. \A a \in Woken(t) :
        /\ a \in Task /\ waiting[a] # "no" /\ thread[a] = "blocked" /\ host[a] = waiting_node[a]
        /\ a \in waiting_tasks[host[a]] /\ Silent(a) /\ ~BeingWoken(a)
        /\ \A c \in children(a) : execution_finished'[c]
  <2> SUFFICES ASSUME NEW a \in Woken(t)
      PROVE /\ a \in Task /\ waiting[a] # "no" /\ thread[a] = "blocked" /\ host[a] = waiting_node[a]
            /\ a \in waiting_tasks[host[a]] /\ Silent(a) /\ ~BeingWoken(a)
            /\ \A c \in children(a) : execution_finished'[c]
    OBVIOUS
  <2>1. a \in Created /\ \A c \in children(a) : execution_finished'[c]
    BY <1>0, <1>1, <1>2, <1>3, WokenFacts
  <2>2. a \in Task /\ waiting[a] # "no"
    BY <1>0, <2>1, CreatedTasks DEF Woken
  <2> QED BY <1>0, <2>1, <2>2 DEF WaitInv
<1>7. \A v \in Worker :
        /\ WakeupsTo(v, t) \in Seq(DownMsg) /\ Once(WakeupsTo(v, t))
        /\ \A x \in ToSet(WakeupsTo(v, t)) :
             \E a \in Woken(t) : waiting_node[a] = v /\ x = Down("WAKEUPTASK", a)
  BY <1>0, <1>2, WakeupFacts
<1>8. ASSUME NEW v \in Worker
      PROVE  /\ to_worker'[v] \in Seq(DownMsg) /\ OnceEach(to_worker'[v])
             /\ ToSet(to_worker'[v]) = ToSet(to_worker[v]) \cup ToSet(WakeupsTo(v, t))
  <2>1. to_worker[v] \in Seq(DownMsg) /\ OnceEach(to_worker[v])
    BY <1>0, LoopTypes DEF OrderInv
  <2>2. \A x \in ToSet(WakeupsTo(v, t)) : x \notin ToSet(to_worker[v])
    BY <1>6, <1>7, WokenForms DEF Called
  <2>3. to_worker'[v] = to_worker[v] \o WakeupsTo(v, t)
    BY <1>1
  <2> QED BY <1>7, <2>1, <2>2, <2>3, DownConcat
<1>9. \A v \in Worker, x \in Task :
        /\ Ordered(v, x)' <=> Ordered(v, x)
        /\ Called(v, x)' => Called(v, x) \/ (x \in Woken(t) /\ waiting_node[x] = v)
        /\ Runnable(v, x)' <=> Runnable(v, x)
  <2> SUFFICES ASSUME NEW v \in Worker, NEW x \in Task
      PROVE /\ Ordered(v, x)' <=> Ordered(v, x)
            /\ Called(v, x)' => Called(v, x) \/ (x \in Woken(t) /\ waiting_node[x] = v)
            /\ Runnable(v, x)' <=> Runnable(v, x)
    OBVIOUS
  <2>1. \A y \in ToSet(WakeupsTo(v, t)) :
          \E a \in Woken(t) : a \in Task /\ waiting_node[a] = v /\ y = Down("WAKEUPTASK", a)
    BY <1>6, <1>7
  <2>2. /\ Down("COMMAND", x).tag = "COMMAND" /\ Down("COMMAND", x)' = Down("COMMAND", x)
        /\ Down("WAKEUPTASK", x)' = Down("WAKEUPTASK", x)
        /\ \A a \in Task : Down("WAKEUPTASK", a).tag = "WAKEUPTASK" /\ Down("WAKEUPTASK", a).task = a
    BY DEF Down
  <2>3. Down("COMMAND", x) \notin ToSet(WakeupsTo(v, t))
    BY <2>1, <2>2
  <2>4. Ordered(v, x)' <=> Ordered(v, x)
    BY <1>8, <2>2, <2>3 DEF Ordered
  <2>5. Called(v, x)' => Called(v, x) \/ (x \in Woken(t) /\ waiting_node[x] = v)
    BY <1>8, <2>1, <2>2 DEF Called
  <2> QED BY <1>1, <2>4, <2>5 DEF Runnable
<1>10. EventLoopsTypeOK'
  <2>1. WaitTreeTypeOK'
    <3>1. /\ id_counter' \in 1 .. MaxTask + 1 /\ above' \in [Task -> SUBSET Task]
          /\ running_children' \in [Task -> Nat] /\ not_finished_children' \in [Task -> Nat]
          /\ execution_finished' \in [Task -> BOOLEAN]
      BY <1>4 DEF TreeInv, CountersInv
    <3>2. /\ waiting' \in [Task -> {"no", "task", "all"}]
          /\ waiting_node' \in [Task -> Worker \cup {-1}]
      BY <1>0, <1>5, LoopTypes
    <3> QED BY <1>0, <1>5, <3>1, <3>2 DEF EventLoopsTypeOK, WaitTreeTypeOK
  <2>2. to_runtime' \in [Worker -> Seq([tag : UpTag, task : Task, amount : Int])]
    BY <1>2, Zenon DEF UpMsg
  <2>3. to_worker' \in [Worker -> Seq([tag : DownTag, task : Task])]
    <3>1. to_worker' \in [Worker -> Seq(DownMsg)]
      BY <1>1, <1>8
    <3> QED BY <3>1, Zenon DEF DownMsg
  <2> QED BY <1>0, <1>1, <1>2, <2>1, <2>2, <2>3 DEF EventLoopsTypeOK
<1>11. SpeechInv'
  <2>1. "COMMAND" \in UpTag
    BY DEF UpTag
  <2>2. \A v \in Worker : \A x \in ToSet(to_runtime'[v]) :
          Speaks(x) => execution_finished'[x.task] = execution_finished[x.task]
    <3> SUFFICES ASSUME NEW v \in Worker, NEW x \in ToSet(to_runtime'[v]), Speaks(x)
                 PROVE  execution_finished'[x.task] = execution_finished[x.task]
      OBVIOUS
    <3>1. x \in UpMsg
      BY <1>0, <1>2, InChannels
    <3>2. x.task \in Task /\ x.task # t
      BY <1>2, <3>1, MessageNames DEF Silent
    <3> QED BY <1>0, <1>5, <3>2 DEF CountersInv
  <2> QED BY <1>1, <2>1, <2>2, StillSpoken
<1>12. OrderInv'
  <2>1. ASSUME NEW v \in Worker, NEW x \in Task, Ordered(v, x)'
        PROVE  x \in Created' /\ host'[x] = 0 /\ \A u \in Worker : Ordered(u, x)' => u = v
    BY <1>0, <1>1, <1>5, <1>9, <2>1 DEF OrderInv
  <2>2. ASSUME NEW v \in Worker, NEW x \in Task, Called(v, x)'
        PROVE  /\ host'[x] = v /\ thread'[x] = "blocked" /\ x \in waiting_tasks'[v]
               /\ ~Runnable(v, x)'
    <3>1. CASE Called(v, x)
      BY <1>0, <1>1, <1>9, <3>1 DEF OrderInv
    <3>2. CASE x \in Woken(t) /\ waiting_node[x] = v
      BY <1>1, <1>6, <1>9, <3>2, WokenForms
    <3> QED BY <1>9, <2>2, <3>1, <3>2
  <2> QED BY <1>8, <2>1, <2>2 DEF OrderInv
<1>13. PlaceInv'
  <2>1. ASSUME NEW x \in ToSet(queued_tasks')
        PROVE  x \in Created' /\ host'[x] = 0 /\ \A v \in Worker : ~Ordered(v, x)'
    BY <1>0, <1>1, <1>5, <1>9, CreatedTasks DEF PlaceInv
  <2>2. ASSUME NEW x \in Task
        PROVE  /\ host'[x] = 0 => thread'[x] = "none"
               /\ host'[x] # 0 => x \in Created'
               /\ execution_finished'[x] => HasEnded(x)'
               /\ thread'[x] \in {"taskwait", "allwait"} => x \in waiting_tasks'[host'[x]]
    <3>1. execution_finished'[x] => HasEnded(x)
      BY <1>0, <1>3, <1>5 DEF PlaceInv
    <3> QED BY <1>0, <1>1, <1>5, <3>1 DEF PlaceInv, HasEnded
  <2>3. ASSUME NEW v \in Worker
        PROVE  /\ Once(runnable_tasks'[v])
               /\ \A x \in ToSet(runnable_tasks'[v]) :
                    host'[x] = v /\ thread'[x] \in {"none", "blocked"}
    BY <1>0, <1>1 DEF PlaceInv
  <2>4. Once(queued_tasks')
    BY <1>0, <1>5 DEF PlaceInv
  <2> QED BY <2>1, <2>2, <2>3, <2>4 DEF PlaceInv
<1>14. WaitInv'
  <2> SUFFICES ASSUME NEW x \in Task
               PROVE  /\ waiting'[x] # "no" =>
                           /\ thread'[x] = "blocked" /\ host'[x] = waiting_node'[x]
                           /\ x \in waiting_tasks'[host'[x]]
                           /\ Silent(x)' /\ ~BeingWoken(x)'
                      /\ BeingWoken(x)' => Silent(x)' /\ \A c \in children(x)' : execution_finished'[c]
    BY DEF WaitInv
  <2>1. BeingWoken(x)' => BeingWoken(x) \/ x \in Woken(t)
    BY <1>1, <1>9, WokenForms, WokenFormsNext
  <2>2. children(x)' = children(x) /\ children(x) \subseteq Task
    BY <1>0, <1>5, CreatedTasks
  <2>3. \A c \in Task : execution_finished[c] => execution_finished'[c]
    BY <1>0, <1>5 DEF CountersInv
  <2>4. waiting'[x] # "no" =>
          x \notin Woken(t) /\ waiting[x] # "no" /\ waiting_node'[x] = waiting_node[x]
    BY <1>5
  <2>5. BeingWoken(x)' => Silent(x)' /\ \A c \in children(x)' : execution_finished'[c]
    BY <1>0, <1>2, <1>6, <2>1, <2>2, <2>3 DEF WaitInv
  <2> QED BY <1>0, <1>1, <1>2, <2>1, <2>4, <2>5 DEF WaitInv
<1>15. BoundInv' /\ ExitInv'
  BY <1>0, <1>2, <1>5 DEF BoundInv, ExitInv
<1> QED BY <1>4, <1>10, <1>11, <1>12, <1>13, <1>14, <1>15 DEF EventLoopsInv

(* A wait is received: the task is suspended and will say nothing.         *)
LEMMA WaitStep ==
  ASSUME EventLoopsInv, NEW w \in Worker, NEW kind \in {"task", "all"},
         NEW tag \in {"WAITTASK", "WAITALL"}, Incoming(w, tag),
         handle_wait_message(Head(to_runtime[w]).task, kind, w),
         UNCHANGED <<to_worker, loopVars>>
  PROVE  EventLoopsInv'
<1>0. /\ EventLoopsTypeOK /\ TreeInv /\ CountersInv
      /\ SpeechInv /\ OrderInv /\ PlaceInv /\ WaitInv /\ BoundInv /\ ExitInv
  BY DEF EventLoopsInv
<1>a. PICK m : m = Head(to_runtime[w])
  OBVIOUS
<1> DEFINE t == m.task
<1>1. /\ to_worker' = to_worker /\ runnable_tasks' = runnable_tasks
      /\ waiting_tasks' = waiting_tasks /\ thread' = thread /\ host' = host
      /\ capacity' = capacity /\ waiting_capacity' = waiting_capacity
      /\ to_report' = to_report /\ quit_loop' = quit_loop
  BY DEF loopVars
<1>2. /\ to_runtime' \in [Worker -> Seq(UpMsg)]
      /\ m.tag = tag /\ t \in Task /\ SpokenTrue(w, m) /\ ~BeingWoken(t) /\ Silent(t)'
      /\ \A x \in Task : Silent(x) => Silent(x)'
      /\ IsFiniteSet(Uncreated') /\ Cardinality(Uncreated') \in Nat
      /\ Cardinality(Uncreated) = Cardinality(Uncreated')
      /\ phase' = "loop" /\ phase # "exit"
  <2>1. tag \in UpTag
    BY DEF UpTag
  <2>2. /\ IsFiniteSet(Uncreated') /\ Cardinality(Uncreated') \in Nat
        /\ Cardinality(Uncreated) = Cardinality(Uncreated') + 0
    BY <1>a, <2>1, IncomingFacts
  <2>3. /\ to_runtime' \in [Worker -> Seq(UpMsg)]
        /\ m.tag = tag /\ t \in Task /\ SpokenTrue(w, m) /\ ~BeingWoken(t) /\ Silent(t)'
        /\ \A x \in Task : Silent(x) => Silent(x)'
        /\ phase' = "loop" /\ phase # "exit"
    BY <1>a, <2>1, IncomingFacts
  <2> QED BY <2>2, <2>3
<1>3. /\ host[t] = w /\ thread[t] = "blocked" /\ t \in waiting_tasks[w]
  BY <1>2 DEF SpokenTrue
<1>4. /\ id_counter' = id_counter /\ above' = above /\ execution_finished' = execution_finished
      /\ running_children' = running_children
      /\ not_finished_children' = not_finished_children
      /\ waiting' = [waiting EXCEPT ![t] = kind]
      /\ waiting_node' = [waiting_node EXCEPT ![t] = w]
      /\ queued_tasks' = queued_tasks /\ free_workers' = free_workers /\ offered' = offered
  BY <1>a DEF handle_wait_message, poolVars
<1>5. /\ Created' = Created /\ \A x : children(x)' = children(x)
      /\ TreeInv' /\ CountersInv'
  <2>1. Created' = Created /\ \A x : children(x)' = children(x)
    BY <1>4 DEF Created, children, parent
  <2>2. TreeInv'
    BY <1>0, <1>4, <2>1 DEF TreeInv
  <2>3. CountersInv'
    BY <1>0, <1>4, <2>1 DEF CountersInv, CountersExact, Subtree, Below
  <2> QED BY <2>1, <2>2, <2>3
<1>6. \A v \in Worker, x \in Task :
        /\ Ordered(v, x)' <=> Ordered(v, x)
        /\ Called(v, x)' <=> Called(v, x)
        /\ Runnable(v, x)' <=> Runnable(v, x)
  BY <1>1 DEF Ordered, Called, Runnable, Down
<1>7. EventLoopsTypeOK'
  <2>1. WaitTreeTypeOK'
    <3>1. /\ waiting' \in [Task -> {"no", "task", "all"}]
          /\ waiting_node' \in [Task -> Worker \cup {-1}]
      BY <1>0, <1>4, LoopTypes
    <3> QED BY <1>0, <1>4, <3>1 DEF EventLoopsTypeOK, WaitTreeTypeOK
  <2>2. to_runtime' \in [Worker -> Seq([tag : UpTag, task : Task, amount : Int])]
    BY <1>2, Zenon DEF UpMsg
  <2> QED BY <1>0, <1>1, <1>2, <2>1, <2>2 DEF EventLoopsTypeOK
<1>8. SpeechInv'
  <2>1. tag \in UpTag
    BY DEF UpTag
  <2> QED BY <1>1, <1>4, <2>1, StillSpoken
<1>9. OrderInv'
  BY <1>0, <1>1, <1>5, <1>6 DEF OrderInv
<1>10. PlaceInv'
  <2>1. \A x \in ToSet(queued_tasks) : x \in Task
    BY <1>0, CreatedTasks DEF PlaceInv
  <2> QED BY <1>0, <1>1, <1>4, <1>5, <1>6, <2>1 DEF PlaceInv, HasEnded
<1>11. WaitInv'
  <2> SUFFICES ASSUME NEW x \in Task
               PROVE  /\ waiting'[x] # "no" =>
                           /\ thread'[x] = "blocked" /\ host'[x] = waiting_node'[x]
                           /\ x \in waiting_tasks'[host'[x]]
                           /\ Silent(x)' /\ ~BeingWoken(x)'
                      /\ BeingWoken(x)' => Silent(x)' /\ \A c \in children(x)' : execution_finished'[c]
    BY DEF WaitInv
  <2>1. BeingWoken(x)' <=> BeingWoken(x)
    BY <1>1, <1>6, WokenForms, WokenFormsNext
  <2>2. CASE x = t
    <3>1. waiting_node'[t] = w
      BY <1>0, <1>2, <1>4, LoopTypes
    <3> QED BY <1>1, <1>2, <1>3, <2>1, <2>2, <3>1
  <2>3. CASE x # t
    <3>1. waiting'[x] = waiting[x] /\ waiting_node'[x] = waiting_node[x]
      BY <1>0, <1>4, <2>3, LoopTypes
    <3> QED BY <1>0, <1>1, <1>2, <1>4, <1>5, <2>1, <3>1 DEF WaitInv
  <2> QED BY <2>2, <2>3
<1>12. BoundInv' /\ ExitInv'
  BY <1>0, <1>2, <1>4 DEF BoundInv, ExitInv
<1> QED BY <1>5, <1>7, <1>8, <1>9, <1>10, <1>11, <1>12 DEF EventLoopsInv

(* A task is handed out: it leaves the queue and is under way to a worker. *)
LEMMA RunStep ==
  ASSUME EventLoopsInv, run_task
  PROVE  EventLoopsInv'
<1>0. /\ EventLoopsTypeOK /\ TreeInv /\ CountersInv
      /\ SpeechInv /\ OrderInv /\ PlaceInv /\ WaitInv /\ BoundInv /\ ExitInv
  BY DEF EventLoopsInv
<1>a. PICK w, t, m : w = Head(free_workers) /\ t = Head(queued_tasks) /\ m = Down("COMMAND", t)
  OBVIOUS
<1>1. /\ queued_tasks \in Seq(Task) /\ queued_tasks # << >> /\ w \in Worker /\ t \in Task
      /\ free_workers \in Seq(Worker) /\ free_workers # << >>
      /\ phase = "loop" /\ phase' = phase /\ UNCHANGED treeVars
      /\ queued_tasks' = Tail(queued_tasks)
      /\ to_worker' = [to_worker EXCEPT ![w] = Append(@, m)]
      /\ to_runtime' = to_runtime /\ runnable_tasks' = runnable_tasks
      /\ waiting_tasks' = waiting_tasks /\ thread' = thread /\ host' = host
      /\ capacity' = capacity /\ waiting_capacity' = waiting_capacity
      /\ to_report' = to_report /\ quit_loop' = quit_loop
  <2>1. /\ queued_tasks \in Seq(Task) /\ queued_tasks # << >>
        /\ free_workers \in Seq(Worker) /\ free_workers # << >>
    BY <1>0, LoopTypes DEF run_task, CanRunTask
  <2>2. w \in Worker /\ t \in Task
    BY <1>a, <2>1, TailFacts
  <2> QED BY <1>a, <2>1, <2>2 DEF run_task, handle_run_task, loopVars
<1>2. /\ Created' = Created /\ \A x : children(x)' = children(x)
      /\ TreeInv' /\ CountersInv'
      /\ id_counter' = id_counter /\ execution_finished' = execution_finished
      /\ waiting' = waiting /\ waiting_node' = waiting_node
  BY <1>0, <1>1, TreeSame
<1>3. /\ queued_tasks' \in Seq(Task) /\ Once(queued_tasks')
      /\ ToSet(queued_tasks) = ToSet(queued_tasks') \cup {t} /\ t \notin ToSet(queued_tasks')
  BY <1>0, <1>a, <1>1, TailFacts DEF PlaceInv
<1>4. t \in Created /\ host[t] = 0 /\ \A v \in Worker : ~Ordered(v, t)
  BY <1>0, <1>3 DEF PlaceInv
<1>5. m \in DownMsg /\ m.tag = "COMMAND" /\ m.task = t
  BY <1>a, <1>1, MessageNames DEF DownTag
<1>6. /\ to_worker \in [Worker -> Seq(DownMsg)] /\ to_worker' \in [Worker -> Seq(DownMsg)]
      /\ to_worker'[w] = Append(to_worker[w], m)
      /\ ToSet(to_worker'[w]) = ToSet(to_worker[w]) \cup {m} /\ OnceEach(to_worker'[w])
      /\ \A v \in Worker : v # w => to_worker'[v] = to_worker[v]
  <2>1. /\ to_worker \in [Worker -> Seq(DownMsg)] /\ to_worker[w] \in Seq(DownMsg)
        /\ OnceEach(to_worker[w]) /\ m \notin ToSet(to_worker[w])
    BY <1>0, <1>a, <1>1, <1>4, LoopTypes DEF OrderInv, Ordered
  <2>2. /\ Append(to_worker[w], m) \in Seq(DownMsg) /\ OnceEach(Append(to_worker[w], m))
        /\ ToSet(Append(to_worker[w], m)) = ToSet(to_worker[w]) \cup {m}
    BY <1>5, <2>1, DownAppend
  <2>3. to_worker' = [to_worker EXCEPT ![w] = Append(to_worker[w], m)]
    BY <1>1
  <2> QED BY <1>1, <2>1, <2>2, <2>3
<1>7. \A v \in Worker, x \in Task :
        /\ Ordered(v, x)' <=> Ordered(v, x) \/ (v = w /\ x = t)
        /\ Called(v, x)' <=> Called(v, x)
        /\ Runnable(v, x)' <=> Runnable(v, x)
  <2> SUFFICES ASSUME NEW v \in Worker, NEW x \in Task
      PROVE /\ Ordered(v, x)' <=> Ordered(v, x) \/ (v = w /\ x = t)
            /\ Called(v, x)' <=> Called(v, x)
            /\ Runnable(v, x)' <=> Runnable(v, x)
    OBVIOUS
  <2>1. /\ Down("COMMAND", x)' = Down("COMMAND", x) /\ Down("WAKEUPTASK", x)' = Down("WAKEUPTASK", x)
        /\ Down("COMMAND", x) = m <=> x = t
        /\ Down("WAKEUPTASK", x) # m
    BY <1>a DEF Down
  <2> QED BY <1>1, <1>6, <2>1 DEF Ordered, Called, Runnable
<1>8. EventLoopsTypeOK'
  <2>1. WaitTreeTypeOK'
    <3>1. offered' \in [Worker -> Int] /\ free_workers' \in Seq(Worker)
      <4>1. /\ offered' = [offered EXCEPT ![w] = @ - 1]
            /\ free_workers' = IF offered[w] = 1 THEN Tail(free_workers) ELSE free_workers
        BY <1>a DEF run_task, handle_run_task
      <4>2. Tail(free_workers) \in Seq(Worker)
        BY <1>1, TailFacts
      <4>3. offered \in [Worker -> Int] /\ offered[w] \in Int
        BY <1>0, <1>1, LoopTypes
      <4> QED BY <1>1, <4>1, <4>2, <4>3
    <3>2. /\ id_counter' = id_counter /\ above' = above
          /\ running_children' = running_children
          /\ not_finished_children' = not_finished_children
      BY <1>1 DEF treeVars
    <3> QED BY <1>0, <1>2, <1>3, <3>1, <3>2 DEF EventLoopsTypeOK, WaitTreeTypeOK
  <2>2. to_worker' \in [Worker -> Seq([tag : DownTag, task : Task])]
    BY <1>6, Zenon DEF DownMsg
  <2> QED BY <1>0, <1>1, <2>1, <2>2 DEF EventLoopsTypeOK
<1>9. SpeechInv'
  BY <1>0, <1>1, <1>2 DEF SpeechInv, SpokenTrue, HasEnded
<1>10. OrderInv'
  <2>1. ASSUME NEW v \in Worker PROVE OnceEach(to_worker'[v])
    BY <1>0, <1>6 DEF OrderInv
  <2>2. ASSUME NEW v \in Worker, NEW x \in Task, Ordered(v, x)'
        PROVE  x \in Created' /\ host'[x] = 0 /\ \A u \in Worker : Ordered(u, x)' => u = v
    <3>1. CASE x = t
      BY <1>1, <1>2, <1>4, <1>7, <2>2, <3>1
    <3>2. CASE x # t
      BY <1>0, <1>1, <1>2, <1>7, <2>2, <3>2 DEF OrderInv
    <3> QED BY <3>1, <3>2
  <2>3. ASSUME NEW v \in Worker, NEW x \in Task, Called(v, x)'
        PROVE  /\ host'[x] = v /\ thread'[x] = "blocked" /\ x \in waiting_tasks'[v]
               /\ ~Runnable(v, x)'
    BY <1>0, <1>1, <1>7, <2>3 DEF OrderInv
  <2> QED BY <2>1, <2>2, <2>3 DEF OrderInv
<1>11. PlaceInv'
  <2>1. ASSUME NEW x \in ToSet(queued_tasks')
        PROVE  x \in Created' /\ host'[x] = 0 /\ \A v \in Worker : ~Ordered(v, x)'
    <3>1. x \in Task /\ x # t /\ x \in ToSet(queued_tasks)
      BY <1>0, <1>3, CreatedTasks DEF PlaceInv
    <3> QED BY <1>0, <1>1, <1>2, <1>7, <3>1 DEF PlaceInv
  <2>2. ASSUME NEW x \in Task
        PROVE  /\ host'[x] = 0 => thread'[x] = "none"
               /\ host'[x] # 0 => x \in Created'
               /\ execution_finished'[x] => HasEnded(x)'
               /\ thread'[x] \in {"taskwait", "allwait"} => x \in waiting_tasks'[host'[x]]
    BY <1>0, <1>1, <1>2 DEF PlaceInv, HasEnded
  <2>3. ASSUME NEW v \in Worker
        PROVE  /\ Once(runnable_tasks'[v])
               /\ \A x \in ToSet(runnable_tasks'[v]) :
                    host'[x] = v /\ thread'[x] \in {"none", "blocked"}
    BY <1>0, <1>1 DEF PlaceInv
  <2> QED BY <1>3, <2>1, <2>2, <2>3 DEF PlaceInv
<1>12. WaitInv'
  <2>1. \A x \in Task : BeingWoken(x)' <=> BeingWoken(x)
    BY <1>1, <1>7, WokenForms, WokenFormsNext
  <2>2. \A x \in Task : Silent(x)' <=> Silent(x)
    BY <1>1 DEF Silent
  <2> QED BY <1>0, <1>1, <1>2, <2>1, <2>2 DEF WaitInv
<1>13. BoundInv' /\ ExitInv'
  BY <1>0, <1>1, <1>2 DEF BoundInv, Uncreated, ExitInv
<1> QED BY <1>2, <1>8, <1>9, <1>10, <1>11, <1>12, <1>13 DEF EventLoopsInv

(* The end is announced: every task has ended.                             *)
LEMMA ShutdownStep ==
  ASSUME EventLoopsInv, shutdown
  PROVE  EventLoopsInv'
<1>0. /\ EventLoopsTypeOK /\ TreeInv /\ CountersInv
      /\ SpeechInv /\ OrderInv /\ PlaceInv /\ WaitInv /\ BoundInv /\ ExitInv
  BY DEF EventLoopsInv
<1>a. PICK m : m = Down("SHUTDOWN", Root)
  OBVIOUS
<1>1. /\ check_completion /\ phase' = "exit" /\ UNCHANGED treeVars
      /\ queued_tasks' = queued_tasks /\ free_workers' = free_workers /\ offered' = offered
      /\ to_worker' = [w \in Worker |-> Append(to_worker[w], m)]
      /\ to_runtime' = to_runtime /\ runnable_tasks' = runnable_tasks
      /\ waiting_tasks' = waiting_tasks /\ thread' = thread /\ host' = host
      /\ capacity' = capacity /\ waiting_capacity' = waiting_capacity
      /\ to_report' = to_report /\ quit_loop' = quit_loop
  BY <1>a DEF shutdown, loopVars, poolVars
<1>2. /\ Created' = Created /\ \A x : children(x)' = children(x)
      /\ TreeInv' /\ CountersInv'
      /\ id_counter' = id_counter /\ execution_finished' = execution_finished
      /\ waiting' = waiting /\ waiting_node' = waiting_node
  BY <1>0, <1>1, TreeSame
<1>3. m \in DownMsg /\ m.tag = "SHUTDOWN"
  <2>1. Root \in Task
    BY <1>0, CreatedTasks
  <2> QED BY <1>a, <2>1, MessageNames DEF DownTag
<1>4. \A v \in Worker :
        /\ to_worker'[v] \in Seq(DownMsg) /\ OnceEach(to_worker'[v])
        /\ ToSet(to_worker'[v]) = ToSet(to_worker[v]) \cup {m}
  <2> SUFFICES ASSUME NEW v \in Worker
               PROVE  /\ to_worker'[v] \in Seq(DownMsg) /\ OnceEach(to_worker'[v])
                      /\ ToSet(to_worker'[v]) = ToSet(to_worker[v]) \cup {m}
    OBVIOUS
  <2>1. /\ to_worker[v] \in Seq(DownMsg) /\ OnceEach(to_worker[v])
        /\ to_worker'[v] = Append(to_worker[v], m)
    BY <1>0, <1>1, LoopTypes DEF OrderInv
  <2> QED BY <1>3, <2>1, DownAppend
<1>5. \A v \in Worker, x \in Task :
        /\ Ordered(v, x)' <=> Ordered(v, x)
        /\ Called(v, x)' <=> Called(v, x)
        /\ Runnable(v, x)' <=> Runnable(v, x)
  <2>1. \A x : /\ Down("COMMAND", x)' = Down("COMMAND", x)
               /\ Down("WAKEUPTASK", x)' = Down("WAKEUPTASK", x)
               /\ Down("COMMAND", x) # m /\ Down("WAKEUPTASK", x) # m
    BY <1>3 DEF Down
  <2> QED BY <1>1, <1>4, <2>1 DEF Ordered, Called, Runnable
<1>6. EventLoopsTypeOK'
  <2>1. WaitTreeTypeOK'
    BY <1>0, <1>1 DEF EventLoopsTypeOK, WaitTreeTypeOK, treeVars
  <2>2. to_worker' \in [Worker -> Seq([tag : DownTag, task : Task])]
    <3>1. to_worker' \in [Worker -> Seq(DownMsg)]
      BY <1>1, <1>4
    <3> QED BY <3>1, Zenon DEF DownMsg
  <2> QED BY <1>0, <1>1, <2>1, <2>2 DEF EventLoopsTypeOK
<1>7. SpeechInv'
  BY <1>0, <1>1, <1>2 DEF SpeechInv, SpokenTrue, HasEnded
<1>8. OrderInv'
  <2>1. ASSUME NEW v \in Worker, NEW x \in Task
        PROVE  /\ Ordered(v, x)' =>
                    x \in Created' /\ host'[x] = 0 /\ \A u \in Worker : Ordered(u, x)' => u = v
               /\ Called(v, x)' =>
                    /\ host'[x] = v /\ thread'[x] = "blocked" /\ x \in waiting_tasks'[v]
                    /\ ~Runnable(v, x)'
    BY <1>0, <1>1, <1>2, <1>5 DEF OrderInv
  <2> QED BY <1>4, <2>1 DEF OrderInv
<1>9. PlaceInv'
  <2>1. \A x \in ToSet(queued_tasks) : x \in Task
    BY <1>0, CreatedTasks DEF PlaceInv
  <2> QED BY <1>0, <1>1, <1>2, <1>5, <2>1 DEF PlaceInv, HasEnded
<1>10. WaitInv'
  <2>1. \A x \in Task : BeingWoken(x)' <=> BeingWoken(x)
    BY <1>1, <1>5, WokenForms, WokenFormsNext
  <2>2. \A x \in Task : Silent(x)' <=> Silent(x)
    BY <1>1 DEF Silent
  <2> QED BY <1>0, <1>1, <1>2, <2>1, <2>2 DEF WaitInv
<1>11. BoundInv'
  BY <1>0, <1>1, <1>2 DEF BoundInv, Uncreated
<1>12. ExitInv'
  BY <1>0, <1>1, <1>2, CompletionFacts DEF ExitInv
<1> QED BY <1>2, <1>6, <1>7, <1>8, <1>9, <1>10, <1>11, <1>12 DEF EventLoopsInv

------------------------------------------------------------------------------
(* The steps that are calm.                                                *)
LEMMA CapacityStep ==
  ASSUME EventLoopsInv, NEW w \in Worker, receive_free_capacity(w)
  PROVE  EventLoopsInv'
<1>0. EventLoopsTypeOK /\ TreeInv /\ CountersInv /\ PlaceInv /\ BoundInv
  BY DEF EventLoopsInv
<1>a. PICK m : m = Head(to_runtime[w])
  OBVIOUS
<1>1. /\ Incoming(w, "FREECAPACITY") /\ handle_free_capacity(m.amount, w)
      /\ to_worker' = to_worker /\ runnable_tasks' = runnable_tasks
      /\ waiting_tasks' = waiting_tasks /\ thread' = thread /\ host' = host
      /\ capacity' = capacity /\ waiting_capacity' = waiting_capacity
      /\ to_report' = to_report /\ quit_loop' = quit_loop
  BY <1>a DEF receive_free_capacity, loopVars
<1>2. /\ UNCHANGED treeVars /\ queued_tasks' = queued_tasks
      /\ free_workers' = IF offered[w] = 0 THEN Append(free_workers, w) ELSE free_workers
      /\ offered' = [offered EXCEPT ![w] = @ + m.amount]
  BY <1>1 DEF handle_free_capacity
<1>3. "FREECAPACITY" \in UpTag
  BY DEF UpTag
<1>4. /\ to_runtime' \in [Worker -> Seq(UpMsg)]
      /\ m.tag = "FREECAPACITY" /\ m.amount \in Int
      /\ \A v \in Worker : LastWord(to_runtime'[v])
      /\ IsFiniteSet(Uncreated') /\ Cardinality(Uncreated') \in Nat
      /\ Cardinality(Uncreated) = Cardinality(Uncreated') + 0
      /\ phase' = "loop"
  BY <1>1, <1>3, <1>a, IncomingFacts
<1>5. \A v \in Worker : SameSpeech(to_runtime[v], to_runtime'[v])
  <2>1. /\ \A v \in Worker : v # w => to_runtime'[v] = to_runtime[v]
        /\ ToSet(to_runtime[w]) = ToSet(to_runtime'[w]) \cup {m}
    BY <1>0, <1>1, <1>a, UpReceive, LoopTypes DEF Incoming
  <2> QED BY <1>4, <2>1 DEF SameSpeech, Speaks
<1>6. EventLoopsTypeOK'
  <2>1. WaitTreeTypeOK'
    <3>1. offered' \in [Worker -> Int] /\ free_workers' \in Seq(Worker)
      <4>1. /\ offered \in [Worker -> Int] /\ offered[w] \in Int /\ free_workers \in Seq(Worker)
            /\ Append(free_workers, w) \in Seq(Worker)
        BY <1>0, LoopTypes, AppendFacts
      <4> QED BY <1>2, <1>4, <4>1
    <3> QED BY <1>0, <1>2, <3>1 DEF EventLoopsTypeOK, WaitTreeTypeOK, treeVars
  <2>2. to_runtime' \in [Worker -> Seq([tag : UpTag, task : Task, amount : Int])]
    BY <1>4, Zenon DEF UpMsg
  <2> QED BY <1>0, <1>1, <1>4, <2>1, <2>2 DEF EventLoopsTypeOK
<1>7. Calm
  BY <1>0, <1>1, <1>2, <1>4, <1>5 DEF Calm, HasEnded, PlaceInv
<1>8. BoundInv'
  BY <1>0, <1>2, <1>4 DEF BoundInv, treeVars
<1> QED BY <1>6, <1>7, <1>8, CalmStep DEF EventLoopsInv

(* The runtime process goes on without a message.                          *)
LEMMA NothingStep ==
  ASSUME EventLoopsInv, receive_nothing
  PROVE  EventLoopsInv'
<1>0. EventLoopsTypeOK /\ PlaceInv /\ BoundInv
  BY DEF EventLoopsInv
<1>1. /\ UNCHANGED treeVars /\ UNCHANGED poolVars
      /\ to_runtime' = to_runtime /\ phase' = "loop"
      /\ to_worker' = to_worker /\ runnable_tasks' = runnable_tasks
      /\ waiting_tasks' = waiting_tasks /\ thread' = thread /\ host' = host
      /\ capacity' = capacity /\ waiting_capacity' = waiting_capacity
      /\ to_report' = to_report /\ quit_loop' = quit_loop
  BY DEF receive_nothing, loopVars
<1>2. EventLoopsTypeOK'
  BY <1>0, <1>1 DEF EventLoopsTypeOK, WaitTreeTypeOK, treeVars, poolVars
<1>3. Calm
  BY <1>0, <1>1 DEF Calm, SameSpeech, HasEnded, PlaceInv, poolVars
<1>4. BoundInv'
  BY <1>0, <1>1 DEF BoundInv, Uncreated, treeVars
<1> QED BY <1>2, <1>3, <1>4, CalmStep DEF EventLoopsInv

(* A worker's report of capacity says nothing of any task.                 *)
LEMMA ReportStep ==
  ASSUME EventLoopsInv, NEW w \in Worker, report_free_capacity(w)
  PROVE  EventLoopsInv'
<1>0. EventLoopsTypeOK /\ TreeInv /\ SpeechInv /\ PlaceInv /\ BoundInv
  BY DEF EventLoopsInv
<1>a. PICK m : m = Up("FREECAPACITY", Root, to_report[w])
  OBVIOUS
<1>1. /\ UNCHANGED treeVars /\ UNCHANGED poolVars
      /\ to_runtime' = [to_runtime EXCEPT ![w] = Append(to_runtime[w], m)]
      /\ to_report' = [to_report EXCEPT ![w] = 0] /\ phase' = phase
      /\ to_worker' = to_worker /\ runnable_tasks' = runnable_tasks
      /\ waiting_tasks' = waiting_tasks /\ thread' = thread /\ host' = host
      /\ capacity' = capacity /\ waiting_capacity' = waiting_capacity
      /\ quit_loop' = quit_loop
  BY <1>a DEF report_free_capacity
<1>2. /\ m \in UpMsg /\ m.tag = "FREECAPACITY"
      /\ to_runtime \in [Worker -> Seq(UpMsg)] /\ to_report \in [Worker -> Int]
  <2>1. Root \in Task /\ to_report[w] \in Int /\ "FREECAPACITY" \in UpTag
    BY <1>0, CreatedTasks, LoopTypes DEF UpTag
  <2> QED BY <1>0, <1>a, <2>1, LoopTypes, MessageNames
<1>3. /\ to_runtime' \in [Worker -> Seq(UpMsg)]
      /\ \A v \in Worker : v # w => to_runtime'[v] = to_runtime[v]
      /\ to_runtime'[w] = Append(to_runtime[w], m)
      /\ ToSet(to_runtime'[w]) = ToSet(to_runtime[w]) \cup {m}
      /\ IsFiniteSet(Uncreated) =>
           /\ IsFiniteSet(Uncreated')
           /\ Cardinality(Uncreated') =
                Cardinality(Uncreated) + (IF m.tag = "CREATE" THEN 1 ELSE 0)
  BY <1>1, <1>2, UpSend
<1>4. \A v \in Worker : SameSpeech(to_runtime[v], to_runtime'[v])
  <2>1. ~Speaks(m)
    BY <1>2 DEF Speaks
  <2>2. LastWord(to_runtime[w]) => LastWord(to_runtime'[w])
    BY <1>2, <1>3, <2>1, UpAppend
  <2> QED BY <1>3, <2>1, <2>2 DEF SameSpeech
<1>5. EventLoopsTypeOK'
  <2>1. to_runtime' \in [Worker -> Seq([tag : UpTag, task : Task, amount : Int])]
    BY <1>3, Zenon DEF UpMsg
  <2>2. to_report' \in [Worker -> Int]
    BY <1>1, <1>2
  <2> QED BY <1>0, <1>1, <2>1, <2>2 DEF EventLoopsTypeOK, WaitTreeTypeOK, treeVars, poolVars
<1>6. Calm
  BY <1>0, <1>1, <1>4 DEF Calm, HasEnded, PlaceInv, poolVars
<1>7. BoundInv'
  <2>1. Cardinality(Uncreated') = Cardinality(Uncreated) + 0 /\ Cardinality(Uncreated) \in Nat
    BY <1>0, <1>2, <1>3, FS_CardinalityType DEF BoundInv
  <2> QED BY <1>0, <1>1, <1>3, <2>1 DEF BoundInv, treeVars
<1> QED BY <1>5, <1>6, <1>7, CalmStep DEF EventLoopsInv

(* A task that is about to wait enters itself among the suspended tasks    *)
(* before it says so.                                                      *)
LEMMA SuspendStep ==
  ASSUME EventLoopsInv, NEW t \in Task, NEW kind \in {"taskwait", "allwait"}, suspend(t, kind)
  PROVE  EventLoopsInv'
<1>0. EventLoopsTypeOK /\ PlaceInv /\ BoundInv
  BY DEF EventLoopsInv
<1>1. /\ UNCHANGED treeVars /\ UNCHANGED poolVars /\ thread[t] = "body"
      /\ waiting_tasks' = [waiting_tasks EXCEPT ![host[t]] = @ \cup {t}]
      /\ waiting_capacity' = [waiting_capacity EXCEPT ![host[t]] = @ + 1]
      /\ thread' = [thread EXCEPT ![t] = kind]
      /\ to_runtime' = to_runtime /\ phase' = phase
      /\ to_worker' = to_worker /\ runnable_tasks' = runnable_tasks /\ host' = host
      /\ capacity' = capacity /\ to_report' = to_report /\ quit_loop' = quit_loop
  BY DEF suspend, add_to_waiting, MoveTo
<1>2. /\ host[t] \in Worker /\ thread \in [Task -> ThreadPC]
      /\ waiting_tasks \in [Worker -> SUBSET Task] /\ waiting_capacity \in [Worker -> Int]
  BY <1>0, <1>1, LoopTypes DEF PlaceInv
<1>3. EventLoopsTypeOK'
  <2>1. thread' \in [Task -> ThreadPC] /\ waiting_tasks' \in [Worker -> SUBSET Task]
    BY <1>1, <1>2 DEF ThreadPC
  <2>2. waiting_capacity' \in [Worker -> Int]
    BY <1>1, <1>2
  <2> QED BY <1>0, <1>1, <2>1, <2>2 DEF EventLoopsTypeOK, WaitTreeTypeOK, treeVars, poolVars
<1>4. Calm
  <2>1. /\ thread'[t] = kind /\ \A x \in Task : x # t => thread'[x] = thread[x]
        /\ \A v \in Worker : waiting_tasks[v] \subseteq waiting_tasks'[v]
        /\ t \in waiting_tasks'[host[t]]
    BY <1>1, <1>2
  <2>2. ASSUME NEW x \in Task
        PROVE  /\ thread[x] \in {"none", "blocked"} \/ thread'[x] \in {"none", "blocked"} =>
                    thread'[x] = thread[x]
               /\ thread'[x] = "woken" => thread[x] = "woken"
               /\ HasEnded(x) => HasEnded(x)'
               /\ thread'[x] \in {"taskwait", "allwait"} => x \in waiting_tasks'[host[x]]
    <3>1. CASE x = t
      BY <1>1, <2>1, <3>1 DEF HasEnded
    <3>2. CASE x # t
      <4>1. thread[x] \in {"taskwait", "allwait"} => x \in waiting_tasks[host[x]] /\ host[x] \in Worker
        BY <1>0, LoopTypes DEF PlaceInv
      <4> QED BY <2>1, <3>2, <4>1 DEF HasEnded
    <3> QED BY <3>1, <3>2
  <2> QED BY <1>1, <2>1, <2>2 DEF Calm, SameSpeech, poolVars
<1>5. BoundInv'
  BY <1>0, <1>1 DEF BoundInv, Uncreated, treeVars
<1> QED BY <1>3, <1>4, <1>5, CalmStep DEF EventLoopsInv

(* A thread that goes on, after it was woken or at its end.                *)
LEMMA MoveStep ==
  ASSUME EventLoopsInv, NEW t \in Task, NEW pc,
         \/ thread[t] = "woken" /\ pc = "body"
         \/ thread[t] = "sent" /\ pc = "finish_flag",
         MoveTo(t, pc),
         UNCHANGED <<treeVars, poolVars, phase, to_runtime, to_worker, capacity,
                     waiting_capacity, runnable_tasks, waiting_tasks, to_report, quit_loop, host>>
  PROVE  EventLoopsInv'
<1>0. EventLoopsTypeOK /\ PlaceInv /\ BoundInv
  BY DEF EventLoopsInv
<1>1. /\ thread \in [Task -> ThreadPC] /\ thread' = [thread EXCEPT ![t] = pc]
      /\ thread'[t] = pc /\ \A x \in Task : x # t => thread'[x] = thread[x]
  BY <1>0, LoopTypes DEF MoveTo
<1>2. EventLoopsTypeOK'
  <2>1. thread' \in [Task -> ThreadPC]
    BY <1>1 DEF ThreadPC
  <2> QED BY <1>0, <2>1 DEF EventLoopsTypeOK, WaitTreeTypeOK, treeVars, poolVars
<1>3. Calm
  <2>1. ASSUME NEW x \in Task
        PROVE  /\ thread[x] \in {"none", "blocked"} \/ thread'[x] \in {"none", "blocked"} =>
                    thread'[x] = thread[x]
               /\ thread'[x] = "woken" => thread[x] = "woken"
               /\ HasEnded(x) => HasEnded(x)'
               /\ thread'[x] \in {"taskwait", "allwait"} => x \in waiting_tasks'[host[x]]
    <3>1. CASE x = t
      BY <1>1, <3>1 DEF HasEnded
    <3>2. CASE x # t
      BY <1>0, <1>1, <3>2 DEF HasEnded, PlaceInv
    <3> QED BY <3>1, <3>2
  <2> QED BY <2>1 DEF Calm, SameSpeech, poolVars
<1>4. BoundInv'
  BY <1>0 DEF BoundInv, Uncreated, treeVars
<1> QED BY <1>2, <1>3, <1>4, CalmStep DEF EventLoopsInv

------------------------------------------------------------------------------
(* A thread asks for a task, says that it waits, or that it has finished.  *)
LEMMA SaysStep ==
  ASSUME EventLoopsInv, NEW t \in Task,
         handle_create(t) \/ handle_finish(t)
           \/ tell_wait(t, "taskwait", "WAITTASK") \/ tell_wait(t, "allwait", "WAITALL")
  PROVE  EventLoopsInv'
<1>0. EventLoopsTypeOK /\ PlaceInv /\ BoundInv
  BY DEF EventLoopsInv
<1>1. PICK tag \in {"CREATE", "COMMAND", "WAITTASK", "WAITALL"} :
        /\ Tell(t, tag) /\ Says(t, tag)
        /\ \A x \in Task \ {t} : thread'[x] = thread[x]
        /\ thread' \in [Task -> ThreadPC]
        /\ UNCHANGED <<treeVars, poolVars, phase, to_worker, capacity, waiting_capacity,
                       runnable_tasks, waiting_tasks, to_report, quit_loop, host>>
        /\ tag = "CREATE" => id_counter + Cardinality(Uncreated) <= MaxTask
  <2>0. thread \in [Task -> ThreadPC]
    BY <1>0, LoopTypes
  <2>1. CASE handle_create(t)
    <3>1. Tell(t, "CREATE") /\ Says(t, "CREATE") /\ thread' = thread
      BY <2>1 DEF handle_create, Says, loopVars
    <3> QED BY <2>0, <2>1, <3>1 DEF handle_create, loopVars
  <2>2. CASE handle_finish(t)
    <3>1. /\ thread' = [thread EXCEPT ![t] = "sent"] /\ "sent" \in ThreadPC
          /\ thread[t] = "body" /\ Tell(t, "COMMAND")
      BY <2>2 DEF handle_finish, MoveTo, ThreadPC
    <3>2. /\ thread' \in [Task -> ThreadPC] /\ Says(t, "COMMAND")
          /\ \A x \in Task \ {t} : thread'[x] = thread[x]
      BY <2>0, <3>1 DEF Says
    <3> QED BY <2>2, <3>1, <3>2 DEF handle_finish
  <2>3. ASSUME NEW kind \in {"taskwait", "allwait"}, NEW tag \in {"WAITTASK", "WAITALL"},
               tell_wait(t, kind, tag)
        PROVE  /\ Tell(t, tag) /\ Says(t, tag)
               /\ \A x \in Task \ {t} : thread'[x] = thread[x]
               /\ thread' \in [Task -> ThreadPC]
               /\ UNCHANGED <<treeVars, poolVars, phase, to_worker, capacity, waiting_capacity,
                              runnable_tasks, waiting_tasks, to_report, quit_loop, host>>
    <3>1. /\ thread' = [thread EXCEPT ![t] = "blocked"] /\ "blocked" \in ThreadPC
          /\ thread[t] = kind /\ Tell(t, tag)
      BY <2>3 DEF tell_wait, MoveTo, ThreadPC
    <3>2. /\ thread' \in [Task -> ThreadPC] /\ Says(t, tag)
          /\ \A x \in Task \ {t} : thread'[x] = thread[x]
      BY <2>0, <3>1 DEF Says
    <3> QED BY <2>3, <3>1, <3>2 DEF tell_wait
  <2> QED BY <2>1, <2>2, <2>3
<1>2. EventLoopsTypeOK'
  <2>1. to_runtime' \in [Worker -> Seq([tag : UpTag, task : Task, amount : Int])]
    <3>1. PICK m : m = Up(tag, t, 0)
      OBVIOUS
    <3>2. m \in UpMsg /\ host[t] \in Worker
      <4>1. tag \in UpTag /\ thread[t] # "none"
        BY <1>1 DEF UpTag, Says
      <4> QED BY <1>0, <3>1, <4>1, MessageNames, LoopTypes DEF PlaceInv
    <3>3. to_runtime \in [Worker -> Seq(UpMsg)]
          /\ to_runtime' = [to_runtime EXCEPT ![host[t]] = Append(to_runtime[host[t]], m)]
      BY <1>0, <1>1, <3>1, LoopTypes DEF Tell
    <3>4. to_runtime' \in [Worker -> Seq(UpMsg)]
      BY <3>2, <3>3, UpSend
    <3> QED BY <3>4, Zenon DEF UpMsg
  <2> QED BY <1>0, <1>1, <2>1 DEF EventLoopsTypeOK, WaitTreeTypeOK, treeVars, poolVars
<1>3. /\ TreeInv' /\ CountersInv' /\ SpeechInv' /\ OrderInv' /\ PlaceInv' /\ WaitInv' /\ ExitInv'
      /\ id_counter' = id_counter
      /\ IsFiniteSet(Uncreated')
      /\ Cardinality(Uncreated') = Cardinality(Uncreated) + (IF tag = "CREATE" THEN 1 ELSE 0)
  <2>1. UNCHANGED <<treeVars, queued_tasks, phase, to_worker, runnable_tasks, waiting_tasks, host>>
    BY <1>1 DEF poolVars
  <2> QED BY <1>1, <1>2, <2>1, SpeakStep
<1>4. BoundInv'
  <2>1. Cardinality(Uncreated) \in Nat /\ id_counter \in Nat /\ MaxTask \in Nat
    <3>1. id_counter \in 1 .. MaxTask + 1
      BY DEF EventLoopsInv, TreeInv
    <3> QED BY <1>0, <3>1, FS_CardinalityType, MaxTaskAssumption DEF BoundInv
  <2>2. CASE tag = "CREATE"
    <3>1. Cardinality(Uncreated') = Cardinality(Uncreated) + 1
      BY <1>3, <2>2
    <3> QED BY <1>1, <1>3, <2>1, <2>2, <3>1 DEF BoundInv
  <2>3. CASE tag # "CREATE"
    <3>1. Cardinality(Uncreated') = Cardinality(Uncreated) + 0
      BY <1>3, <2>3
    <3> QED BY <1>0, <1>3, <2>1, <3>1 DEF BoundInv
  <2> QED BY <2>2, <2>3
<1> QED BY <1>2, <1>3, <1>4 DEF EventLoopsInv

(* The queue a turn begins with holds tasks that wait to begin or go on.   *)
LEMMA RunnableReady ==
  ASSUME EventLoopsInv, NEW w \in Worker
  PROVE  /\ runnable_tasks[w] \in Seq(Task) /\ Once(runnable_tasks[w])
         /\ \A t \in ToSet(runnable_tasks[w]) :
              /\ t \in Task /\ t \in Created /\ host[t] = w
              /\ thread[t] = "none" \/ (thread[t] = "blocked" /\ BeingWoken(t))
              /\ \A v \in Worker : ~Ordered(v, t) /\ ~Called(v, t)
<1>0. EventLoopsTypeOK /\ OrderInv /\ PlaceInv /\ 0 \notin Worker
  BY LoopTypes DEF EventLoopsInv
<1>1. runnable_tasks[w] \in Seq(Task) /\ Once(runnable_tasks[w])
  BY <1>0, LoopTypes DEF PlaceInv
<1>2. ASSUME NEW t \in ToSet(runnable_tasks[w])
      PROVE  /\ t \in Task /\ t \in Created /\ host[t] = w
             /\ thread[t] = "none" \/ (thread[t] = "blocked" /\ BeingWoken(t))
             /\ \A v \in Worker : ~Ordered(v, t) /\ ~Called(v, t)
  <2>1. t \in Task /\ host[t] = w /\ thread[t] \in {"none", "blocked"} /\ Runnable(w, t)
    BY <1>0, InChannels DEF PlaceInv, Runnable
  <2>2. host[t] # 0 /\ t \in Created
    BY <1>0, <2>1 DEF PlaceInv
  <2>3. \A v \in Worker : ~Ordered(v, t)
    BY <1>0, <2>1, <2>2 DEF OrderInv
  <2>4. \A v \in Worker : ~Called(v, t)
    BY <1>0, <2>1 DEF OrderInv
  <2> QED BY <2>1, <2>2, <2>3, <2>4, WokenForms
<1> QED BY <1>1, <1>2

(* A turn that finds no message, or the one to shut down.                  *)
LEMMA QuietTurn ==
  ASSUME EventLoopsInv, NEW w \in Worker, turn(w) \/ turn_shutdown(w)
  PROVE  QueueReady(w, runnable_tasks[w])
<1>0. EventLoopsTypeOK /\ OrderInv
  BY DEF EventLoopsInv
<1>1. /\ UNCHANGED <<treeVars, poolVars, phase, to_runtime>>
      /\ waiting_tasks' = waiting_tasks /\ host' = host
      /\ quit_loop' \in [Worker -> BOOLEAN]
  BY <1>0, LoopTypes DEF turn, turn_shutdown
<1>2. /\ to_worker' \in [Worker -> Seq(DownMsg)]
      /\ \A v \in Worker :
           OnceEach(to_worker'[v]) /\ ToSet(to_worker'[v]) \subseteq ToSet(to_worker[v])
  <2>0. to_worker \in [Worker -> Seq(DownMsg)] /\ \A v \in Worker : OnceEach(to_worker[v])
    BY <1>0, LoopTypes DEF OrderInv
  <2>1. CASE to_worker' = to_worker
    BY <2>0, <2>1
  <2>2. CASE to_worker[w] # << >> /\ to_worker' = [to_worker EXCEPT ![w] = Tail(to_worker[w])]
    <3>1. /\ Tail(to_worker[w]) \in Seq(DownMsg) /\ OnceEach(Tail(to_worker[w]))
          /\ ToSet(Tail(to_worker[w])) \subseteq ToSet(to_worker[w])
      <4>1. to_worker[w] \in Seq(DownMsg) /\ OnceEach(to_worker[w]) /\ to_worker[w] # << >>
        BY <2>0, <2>2
      <4> QED BY <4>1, TailFacts, DownTail
    <3> QED BY <2>0, <2>2, <3>1
  <2> QED BY <2>1, <2>2 DEF turn, turn_shutdown, Received
<1>3. \A v \in Worker, t \in Task : (Ordered(v, t)' => Ordered(v, t)) /\ (Called(v, t)' => Called(v, t))
  BY <1>2 DEF Ordered, Called, Down
<1> QED BY <1>0, <1>1, <1>2, <1>3, RunnableReady, LoopTypes DEF QueueReady

(* A turn that receives a task to run or to wake.                          *)
LEMMA BusyTurn ==
  ASSUME EventLoopsInv, NEW w \in Worker, turn_run_task(w) \/ turn_wakeup(w),
         NEW t, t = Head(to_worker[w]).task
  PROVE  QueueReady(w, Append(runnable_tasks[w], t))
<1>0. EventLoopsTypeOK /\ OrderInv /\ PlaceInv /\ 0 \notin Worker
  BY LoopTypes DEF EventLoopsInv
<1>a. PICK m : m = Head(to_worker[w])
  OBVIOUS
<1>1. /\ to_worker[w] \in Seq(DownMsg) /\ to_worker[w] # << >> /\ OnceEach(to_worker[w])
      /\ to_worker \in [Worker -> Seq(DownMsg)]
      /\ to_worker' = [to_worker EXCEPT ![w] = Tail(to_worker[w])]
      /\ m.tag \in {"COMMAND", "WAKEUPTASK"}
  BY <1>0, <1>a, LoopTypes DEF turn_run_task, turn_wakeup, Received, OrderInv
<1>2. /\ m \in DownMsg /\ t \in Task /\ m = Down(m.tag, t)
      /\ Tail(to_worker[w]) \in Seq(DownMsg) /\ OnceEach(Tail(to_worker[w]))
      /\ ToSet(to_worker[w]) = ToSet(Tail(to_worker[w])) \cup {m}
      /\ m \notin ToSet(Tail(to_worker[w]))
  BY <1>a, <1>1, TailFacts, DownTail, MessageNames
<1>3. /\ to_worker' \in [Worker -> Seq(DownMsg)]
      /\ \A v \in Worker :
           OnceEach(to_worker'[v]) /\ ToSet(to_worker'[v]) \subseteq ToSet(to_worker[v])
      /\ ToSet(to_worker'[w]) = ToSet(to_worker[w]) \ {m}
  BY <1>0, <1>1, <1>2 DEF OrderInv
<1>4. \A v \in Worker, x \in Task :
        (Ordered(v, x)' => Ordered(v, x)) /\ (Called(v, x)' => Called(v, x))
  BY <1>3 DEF Ordered, Called, Down
<1>5. /\ runnable_tasks[w] \in Seq(Task) /\ Once(runnable_tasks[w])
      /\ \A x \in ToSet(runnable_tasks[w]) :
           /\ x \in Task /\ x \in Created /\ host[x] = w
           /\ thread[x] = "none" \/ (thread[x] = "blocked" /\ BeingWoken(x))
           /\ \A v \in Worker : ~Ordered(v, x) /\ ~Called(v, x)
  BY RunnableReady
<1>6. t \notin ToSet(runnable_tasks[w])
  BY <1>1, <1>2, <1>5 DEF Ordered, Called
<1>7. /\ Append(runnable_tasks[w], t) \in Seq(Task) /\ Once(Append(runnable_tasks[w], t))
      /\ ToSet(Append(runnable_tasks[w], t)) = ToSet(runnable_tasks[w]) \cup {t}
  BY <1>2, <1>5, <1>6, AppendFacts
<1> DEFINE queue == Append(runnable_tasks[w], t)
<1> HIDE DEF queue
<1>8. /\ UNCHANGED <<treeVars, poolVars, phase, to_runtime, quit_loop>>
      /\ quit_loop' \in [Worker -> BOOLEAN]
  BY <1>0, LoopTypes DEF turn_run_task, turn_wakeup
<1>9. \/ /\ host' = [host EXCEPT ![t] = w] /\ waiting_tasks' = waiting_tasks
         /\ m.tag = "COMMAND"
      \/ /\ host' = host /\ waiting_tasks' = [waiting_tasks EXCEPT ![w] = @ \ {t}]
         /\ m.tag = "WAKEUPTASK"
  BY <1>a DEF turn_run_task, turn_wakeup, Received
<1>10. CASE m.tag = "COMMAND"
  <2>1. /\ host' = [host EXCEPT ![t] = w] /\ waiting_tasks' = waiting_tasks
        /\ host \in [Task -> Worker \cup {0}]
    BY <1>0, <1>9, <1>10, LoopTypes
  <2>2. Ordered(w, t)
    BY <1>2, <1>10 DEF Ordered
  <2>3. t \in Created /\ host[t] = 0 /\ thread[t] = "none" /\ \A v \in Worker : Ordered(v, t) => v = w
    BY <1>0, <1>2, <2>2 DEF OrderInv, PlaceInv
  <2>4. /\ host'[t] = w /\ \A x \in Task : x # t => host'[x] = host[x]
        /\ host' \in [Task -> Worker \cup {0}]
    BY <1>2, <2>1
  <2>5. \A v \in Worker : ~Ordered(v, t)' /\ ~Called(v, t)'
    <3>1. \A v \in Worker : ~Called(v, t)
      BY <1>0, <1>2, <2>3 DEF OrderInv
    <3>2. ~Ordered(w, t)'
      BY <1>2, <1>3, <1>10 DEF Ordered, Down
    <3> QED BY <1>2, <1>4, <2>3, <3>1, <3>2
  <2>6. \A x \in ToSet(runnable_tasks[w]) : x # t /\ host'[x] = w
    BY <1>5, <1>6, <2>4
  <2>7. ASSUME NEW x \in ToSet(runnable_tasks[w]) \cup {t}
        PROVE  /\ x \in Created /\ host'[x] = w
               /\ thread[x] = "none" \/ (thread[x] = "blocked" /\ BeingWoken(x))
               /\ \A v \in Worker : ~Ordered(v, x)' /\ ~Called(v, x)'
    <3>1. CASE x = t
      BY <2>3, <2>4, <2>5, <3>1
    <3>2. CASE x \in ToSet(runnable_tasks[w])
      BY <1>4, <1>5, <2>6, <3>2
    <3> QED BY <3>1, <3>2
  <2>8. waiting_tasks' \in [Worker -> SUBSET Task]
    BY <1>0, <2>1, LoopTypes
  <2> QED BY <1>3, <1>7, <1>8, <2>1, <2>2, <2>4, <2>7, <2>8 DEF QueueReady, queue
<1>11. CASE m.tag = "WAKEUPTASK"
  <2>1. /\ host' = host /\ waiting_tasks' = [waiting_tasks EXCEPT ![w] = @ \ {t}]
        /\ host \in [Task -> Worker \cup {0}] /\ waiting_tasks \in [Worker -> SUBSET Task]
    BY <1>0, <1>9, <1>11, LoopTypes
  <2>2. Called(w, t)
    BY <1>2, <1>11 DEF Called
  <2>3. /\ host[t] = w /\ thread[t] = "blocked" /\ BeingWoken(t) /\ t \in Created
    BY <1>0, <1>2, <2>2, WokenForms DEF OrderInv, PlaceInv
  <2>4. \A v \in Worker : ~Ordered(v, t)' /\ ~Called(v, t)'
    <3>1. \A v \in Worker : ~Ordered(v, t) /\ (Called(v, t) => v = w)
      BY <1>0, <1>2, <2>3 DEF OrderInv
    <3>2. ~Called(w, t)'
      BY <1>2, <1>3, <1>11 DEF Called, Down
    <3> QED BY <1>2, <1>4, <3>1, <3>2
  <2>5. ASSUME NEW x \in ToSet(runnable_tasks[w]) \cup {t}
        PROVE  /\ x \in Created /\ host'[x] = w
               /\ thread[x] = "none" \/ (thread[x] = "blocked" /\ BeingWoken(x))
               /\ \A v \in Worker : ~Ordered(v, x)' /\ ~Called(v, x)'
    <3>1. CASE x = t
      BY <2>1, <2>3, <2>4, <3>1
    <3>2. CASE x \in ToSet(runnable_tasks[w])
      BY <1>4, <1>5, <2>1, <3>2
    <3> QED BY <3>1, <3>2
  <2>6. /\ waiting_tasks' \in [Worker -> SUBSET Task]
        /\ \A v \in Worker : \A x \in waiting_tasks[v] :
             x \in waiting_tasks'[v] \/ (x = t /\ thread[x] = "blocked")
    BY <2>1, <2>3
  <2> QED BY <1>3, <1>7, <1>8, <2>1, <2>5, <2>6 DEF QueueReady, queue
<1> QED BY <1>1, <1>10, <1>11

(* The four turns.                                                         *)
LEMMA TurnSteps ==
  ASSUME EventLoopsInv, NEW w \in Worker,
         turn(w) \/ turn_run_task(w) \/ turn_wakeup(w) \/ turn_shutdown(w)
  PROVE  \E queue, quit : QueueReady(w, queue) /\ Turn(w, queue, quit)
<1>1. CASE turn(w) \/ turn_shutdown(w)
  <2>1. \E quit : Turn(w, runnable_tasks[w], quit)
    BY <1>1 DEF turn, turn_shutdown
  <2> QED BY <1>1, <2>1, QuietTurn
<1>2. CASE turn_run_task(w) \/ turn_wakeup(w)
  <2>1. PICK t : t = Head(to_worker[w]).task
    OBVIOUS
  <2>2. Turn(w, Append(runnable_tasks[w], t), FALSE)
    BY <1>2, <2>1 DEF turn_run_task, turn_wakeup
  <2> QED BY <1>2, <2>1, <2>2, BusyTurn
<1> QED BY <1>1, <1>2

------------------------------------------------------------------------------
(* The invariant holds at the start ...                                    *)
LEMMA EventLoopsStart == Init => EventLoopsInv
<1> SUFFICES ASSUME Init PROVE EventLoopsInv
  OBVIOUS
<1>1. /\ WaitTreeInit /\ phase = "first"
      /\ to_runtime = [w \in Worker |-> << >>] /\ to_worker = [w \in Worker |-> << >>]
      /\ capacity = [w \in Worker |-> Capacity] /\ waiting_capacity \in [Worker -> UninitCapacity]
      /\ runnable_tasks = [w \in Worker |-> << >>] /\ waiting_tasks = [w \in Worker |-> {}]
      /\ to_report = [w \in Worker |-> 0] /\ quit_loop = [w \in Worker |-> FALSE]
      /\ thread = [t \in Task |-> "none"] /\ host = [t \in Task |-> 0]
  BY DEF Init
<1>2. TreeInv /\ CountersInv /\ Created = {Root} /\ Root \in Task
  <2>1. TreeInv /\ CountersInv
    BY <1>1, TreeStart
  <2>2. Created = {Root}
    BY <1>1 DEF WaitTreeInit, Created, Root
  <2> QED BY <2>1, <2>2, CreatedTasks
<1>3. << >> \in Seq(UpMsg) /\ << >> \in Seq(DownMsg) /\ << >> \in Seq(Task)
      /\ ToSet(<< >>) = {} /\ LastWord(<< >>) /\ OnceEach(<< >>) /\ Once(<< >>)
  BY DEF ToSet, LastWord, OnceEach, Once
<1>4. /\ queued_tasks = <<Root>> /\ queued_tasks \in Seq(Task)
      /\ ToSet(queued_tasks) = {Root} /\ Once(queued_tasks)
  <2>1. queued_tasks = <<Root>>
    BY <1>1 DEF WaitTreeInit
  <2> QED BY <1>2, <2>1 DEF ToSet, Once
<1>5. /\ \A t \in Task : ~execution_finished[t] /\ waiting[t] = "no"
  BY <1>1 DEF WaitTreeInit
<1>6. \A w \in Worker, t \in Task : ~Ordered(w, t) /\ ~Called(w, t) /\ ~Runnable(w, t)
  BY <1>1, <1>3 DEF Ordered, Called, Runnable
<1>7. EventLoopsTypeOK
  <2>1. WaitTreeTypeOK
    <3>1. free_workers \in Seq(Worker) /\ offered \in [Worker -> Int]
      <4>1. Cardinality(Worker) \in Nat
        BY WorkerAssumption, FS_CardinalityType
      <4>2. free_workers \in [1 .. Cardinality(Worker) -> Worker]
        BY <1>1 DEF WaitTreeInit
      <4>3. free_workers \in Seq(Worker)
        BY <4>1, <4>2, SeqDef
      <4>4. offered = [w \in Worker |-> Capacity]
        BY <1>1 DEF WaitTreeInit
      <4> QED BY <4>3, <4>4, CapacityAssumption
    <3>2. /\ id_counter \in 1 .. MaxTask + 1 /\ above \in [Task -> SUBSET Task]
          /\ running_children \in [Task -> Nat] /\ not_finished_children \in [Task -> Nat]
          /\ execution_finished \in [Task -> BOOLEAN]
      BY <1>2 DEF TreeInv, CountersInv
    <3>3. /\ waiting \in [Task -> {"no", "task", "all"}] /\ waiting_node \in [Task -> Worker \cup {-1}]
      BY <1>1 DEF WaitTreeInit
    <3> QED BY <1>4, <3>1, <3>2, <3>3 DEF WaitTreeTypeOK
  <2>2. to_runtime \in [Worker -> Seq([tag : UpTag, task : Task, amount : Int])]
    <3>1. to_runtime \in [Worker -> Seq(UpMsg)]
      BY <1>1, <1>3
    <3> QED BY <3>1, Zenon DEF UpMsg
  <2>3. to_worker \in [Worker -> Seq([tag : DownTag, task : Task])]
    <3>1. to_worker \in [Worker -> Seq(DownMsg)]
      BY <1>1, <1>3
    <3> QED BY <3>1, Zenon DEF DownMsg
  <2>4. capacity \in [Worker -> Int] /\ waiting_capacity \in [Worker -> Int]
    <3>1. Capacity \in Int /\ UninitCapacity \subseteq Int
      BY CapacityAssumption, UninitCapacityAssumption
    <3>2. waiting_capacity \in [Worker -> Int]
      BY <1>1, <3>1
    <3> QED BY <1>1, <3>1, <3>2
  <2>5. /\ runnable_tasks \in [Worker -> Seq(Task)] /\ waiting_tasks \in [Worker -> SUBSET Task]
        /\ to_report \in [Worker -> Int] /\ quit_loop \in [Worker -> BOOLEAN]
        /\ thread \in [Task -> ThreadPC] /\ host \in [Task -> Worker \cup {0}]
        /\ phase \in {"first", "loop", "exit"}
    BY <1>1, <1>3 DEF ThreadPC
  <2> QED BY <2>1, <2>2, <2>3, <2>4, <2>5, Zenon DEF EventLoopsTypeOK
<1>8. SpeechInv /\ OrderInv
  BY <1>1, <1>3, <1>6 DEF SpeechInv, OrderInv
<1>9. PlaceInv
  BY <1>1, <1>2, <1>3, <1>4, <1>5, <1>6 DEF PlaceInv
<1>10. WaitInv
  <2>1. \A t \in Task : ~BeingWoken(t)
    BY <1>1, <1>6, WokenForms
  <2> QED BY <1>5, <2>1 DEF WaitInv
<1>11. BoundInv
  <2>1. Uncreated = {}
    BY <1>1, UncreatedMembers
  <2>2. id_counter = 1 /\ MaxTask \in Nat
    BY <1>1, MaxTaskAssumption DEF WaitTreeInit
  <2> QED BY <2>1, <2>2, FS_EmptySet DEF BoundInv
<1>12. ExitInv
  BY <1>1 DEF ExitInv
<1> QED BY <1>2, <1>7, <1>8, <1>9, <1>10, <1>11, <1>12 DEF EventLoopsInv

(* ... and after every step, of which there are those of the runtime       *)
(* process, of a worker and of a thread.                                   *)
LEMMA EventLoopsKept == EventLoopsInv /\ [Next]_vars => EventLoopsInv'
<1> SUFFICES ASSUME EventLoopsInv, [Next]_vars PROVE EventLoopsInv'
  OBVIOUS
<1>1. CASE UNCHANGED vars
  <2>1. /\ UNCHANGED treeVars /\ UNCHANGED poolVars /\ UNCHANGED loopVars
        /\ phase' = phase /\ to_runtime' = to_runtime /\ to_worker' = to_worker
    BY <1>1 DEF vars
  <2>2. EventLoopsTypeOK' /\ BoundInv'
    <3>1. EventLoopsTypeOK /\ BoundInv
      BY DEF EventLoopsInv
    <3>2. WaitTreeTypeOK'
      BY <2>1, <3>1 DEF EventLoopsTypeOK, WaitTreeTypeOK, treeVars, poolVars
    <3>3. EventLoopsTypeOK'
      BY <2>1, <3>1, <3>2 DEF EventLoopsTypeOK, loopVars
    <3>4. BoundInv'
      BY <2>1, <3>1 DEF BoundInv, Uncreated, treeVars
    <3> QED BY <3>3, <3>4
  <2>3. Calm
    BY <2>1 DEF EventLoopsInv, PlaceInv, Calm, SameSpeech, HasEnded, poolVars, loopVars
  <2> QED BY <2>2, <2>3, CalmStep DEF EventLoopsInv
<1>2. CASE RuntimeStep
  <2>1. ASSUME NEW w \in Worker, receive_taskwait(w) PROVE EventLoopsInv'
    BY <2>1, WaitStep DEF receive_taskwait
  <2>2. ASSUME NEW w \in Worker, receive_allwait(w) PROVE EventLoopsInv'
    BY <2>2, WaitStep DEF receive_allwait
  <2> QED BY <1>2, <2>1, <2>2, CreateStep, FinishStep, CapacityStep, NothingStep, RunStep,
             ShutdownStep DEF RuntimeStep
<1>3. ASSUME NEW w \in Worker, WorkerStep(w) PROVE EventLoopsInv'
  BY <1>3, TurnSteps, TurnStep, ReportStep DEF WorkerStep
<1>4. ASSUME NEW t \in Task, ThreadStep(t) PROVE EventLoopsInv'
  <2>1. CASE continue(t)
    BY <2>1, MoveStep DEF continue
  <2>2. CASE set_finish_flag(t)
    BY <2>2, MoveStep DEF set_finish_flag
  <2> QED BY <1>4, <2>1, <2>2, SaysStep, SuspendStep DEF ThreadStep
<1> QED BY <1>1, <1>2, <1>3, <1>4 DEF Next

(* EventLoopsInv holds of every reachable state of the previous runtime,   *)
(* its workers and the messages between them.                              *)
THEOREM EventLoopsInvariance == Spec => []EventLoopsInv
BY EventLoopsStart, EventLoopsKept, PTL DEF Spec

(* Every variable of the two event loops, the threads and the tree keeps   *)
(* its type; a counter that would go below 0 would leave it.               *)
THEOREM EventLoopsTypes == Spec => []EventLoopsTypeOK
<1>1. EventLoopsInv => EventLoopsTypeOK
  BY DEF EventLoopsInv
<1> QED BY <1>1, EventLoopsInvariance, PTL

(* The two counters of a task are the number of its children that run and  *)
(* the number of those below or at which something has not ended.          *)
THEOREM CountersTheorem == Spec => []CountersExact
<1>1. EventLoopsInv => CountersExact
  BY DEF EventLoopsInv, CountersInv
<1> QED BY <1>1, EventLoopsInvariance, PTL

(* The runtime process leaves its loop when all tasks have ended, and no   *)
(* message but reports of capacity is left for it.                         *)
THEOREM ExitAtEnd == Spec => []ExitWhenAllEnded
<1>1. EventLoopsInv => ExitWhenAllEnded
  <2> SUFFICES ASSUME EventLoopsInv, phase = "exit"
               PROVE  /\ \A t \in Created : HasEnded(t)
                      /\ \A w \in Worker : \A i \in DOMAIN to_runtime[w] :
                           to_runtime[w][i].tag = "FREECAPACITY"
    BY DEF ExitWhenAllEnded
  <2>0. EventLoopsTypeOK /\ TreeInv /\ SpeechInv /\ PlaceInv /\ ExitInv
    BY DEF EventLoopsInv
  <2>1. \A t \in Created : execution_finished[t] /\ t \in Task /\ HasEnded(t)
    BY <2>0, CreatedTasks DEF ExitInv, PlaceInv
  <2>2. ASSUME NEW w \in Worker, NEW m \in ToSet(to_runtime[w]), m.tag # "FREECAPACITY"
        PROVE  FALSE
    <3>1. SpokenTrue(w, m) /\ m.task \in Task
      BY <2>0, <2>2, InChannels, MessageNames DEF SpeechInv, Speaks
    <3>2. m.task \in Created
      BY <2>0, <3>1, LoopTypes DEF SpokenTrue, PlaceInv
    <3> QED BY <2>1, <3>1, <3>2 DEF SpokenTrue
  <2>3. \A w \in Worker : \A i \in DOMAIN to_runtime[w] : to_runtime[w][i] \in ToSet(to_runtime[w])
    BY DEF ToSet
  <2> QED BY <2>1, <2>2, <2>3
<1> QED BY <1>1, EventLoopsInvariance, PTL

(* The entry a wake-up looks for in waiting_tasks is there, and its task   *)
(* is suspended.                                                           *)
THEOREM WakeupTheorem == Spec => []WakeupFindsTask
<1>1. EventLoopsInv => WakeupFindsTask
  <2> SUFFICES ASSUME EventLoopsInv, NEW w \in Worker, NEW i \in DOMAIN to_worker[w],
                      to_worker[w][i].tag = "WAKEUPTASK",
                      NEW t, t = to_worker[w][i].task
               PROVE  t \in waiting_tasks[w] /\ thread[t] = "blocked"
    BY DEF WakeupFindsTask
  <2>0. EventLoopsTypeOK /\ OrderInv
    BY DEF EventLoopsInv
  <2>1. to_worker[w][i] \in ToSet(to_worker[w])
    BY DEF ToSet
  <2>2. to_worker[w][i] = Down("WAKEUPTASK", t) /\ t \in Task
    BY <2>0, <2>1, InChannels, MessageNames
  <2>3. Called(w, t)
    BY <2>1, <2>2 DEF Called
  <2> QED BY <2>0, <2>2, <2>3 DEF OrderInv
<1> QED BY <1>1, EventLoopsInvariance, PTL

(* Whoever is woken from a wait has waited for its children: they have all *)
(* ended, and none was created since.                                      *)
THEOREM WaitTheorem == Spec => []ChildrenWaitedFor
<1>1. EventLoopsInv => ChildrenWaitedFor
  <2> SUFFICES ASSUME EventLoopsInv, NEW t \in Created, BeingWoken(t), NEW c \in children(t)
               PROVE  HasEnded(c)
    BY DEF ChildrenWaitedFor
  <2>0. TreeInv /\ PlaceInv /\ WaitInv
    BY DEF EventLoopsInv
  <2>1. t \in Task /\ c \in Task
    BY <2>0, CreatedTasks
  <2> QED BY <2>0, <2>1 DEF WaitInv, PlaceInv
<1> QED BY <1>1, EventLoopsInvariance, PTL

(* Only the end of a task ends waits.                                      *)
LEMMA WaitsEnd ==
  ASSUME EventLoopsInv, [Next]_vars, NEW t \in Task,
         waiting[t] = "all", waiting'[t] = "no"
  PROVE  \E w \in Worker : receive_finish(w)
<1>0. waiting \in [Task -> {"no", "task", "all"}]
  BY LoopTypes DEF EventLoopsInv
<1>1. waiting' # waiting
  OBVIOUS
<1>2. ASSUME NEW w \in Worker, NEW x, NEW kind \in {"task", "all"},
             handle_wait_message(x, kind, w)
      PROVE  FALSE
  <2>1. waiting' = [waiting EXCEPT ![x] = kind]
    BY <1>2 DEF handle_wait_message
  <2> QED BY <1>0, <2>1
<1>3. ~UNCHANGED vars /\ Next
  BY <1>1 DEF vars, treeVars
<1>4. ASSUME NEW w \in Worker, WorkerStep(w) PROVE FALSE
  BY <1>1, <1>4 DEF WorkerStep, turn, turn_run_task, turn_wakeup, turn_shutdown,
                    report_free_capacity, treeVars
<1>5. ASSUME NEW x \in Task, ThreadStep(x) PROVE FALSE
  BY <1>1, <1>5 DEF ThreadStep, handle_create, suspend, tell_wait, continue, handle_finish,
                    set_finish_flag, treeVars
<1>6. CASE RuntimeStep
  BY <1>1, <1>2, <1>6 DEF RuntimeStep, receive_create, handle_create_task, receive_taskwait,
       receive_allwait, receive_free_capacity, handle_free_capacity, receive_nothing, run_task,
       handle_run_task, shutdown, treeVars
<1> QED BY <1>3, <1>4, <1>5, <1>6 DEF Next

(* An allwait ends when everything below the task has ended.               *)
THEOREM AllWaitTheorem == Spec => AllWaitedFor
<1>1. EventLoopsInv /\ [Next]_vars =>
        [\A t \in Task : waiting[t] = "all" /\ waiting'[t] = "no" => \A d \in Below(t) : HasEnded(d)]_vars
  <2> SUFFICES ASSUME EventLoopsInv, [Next]_vars, NEW a \in Task,
                      waiting[a] = "all", waiting'[a] = "no", NEW d \in Below(a)
               PROVE  HasEnded(d)
    OBVIOUS
  <2>0. TreeInv /\ CountersInv /\ PlaceInv /\ EventLoopsTypeOK
    BY DEF EventLoopsInv
  <2>1. PICK w \in Worker : receive_finish(w)
    BY WaitsEnd
  <2>2. PICK m : m = Head(to_runtime[w])
    OBVIOUS
  <2>3. /\ Incoming(w, "COMMAND") /\ handle_finish_task(m.task)
    BY <2>1, <2>2 DEF receive_finish
  <2>4. m.task \in Task /\ m.task \in Created /\ SpokenTrue(w, m) /\ m.tag = "COMMAND"
    <3>1. "COMMAND" \in UpTag
      BY DEF UpTag
    <3> QED BY <2>2, <2>3, <3>1, IncomingFacts
  <2>5. ~execution_finished[m.task] /\ HasEnded(m.task)
    BY <2>4 DEF SpokenTrue
  <2>6. a \in Woken(m.task)
    BY <2>3 DEF handle_finish_task
  <2>7. execution_finished'[d]
    BY <2>0, <2>3, <2>4, <2>5, <2>6, WokenFacts
  <2>8. d \in Task
    BY <2>0, CreatedTasks DEF Below
  <2>9. execution_finished' = [execution_finished EXCEPT ![m.task] = TRUE]
        /\ execution_finished \in [Task -> BOOLEAN]
    BY <2>0, <2>3 DEF handle_finish_task, CountersInv
  <2>10. d = m.task \/ execution_finished[d]
    BY <2>4, <2>7, <2>8, <2>9
  <2> QED BY <2>0, <2>5, <2>8, <2>10 DEF PlaceInv
<1> QED BY <1>1, EventLoopsInvariance, PTL DEF Spec, AllWaitedFor

------------------------------------------------------------------------------
(* The threads that take up capacity.                                      *)
Held == {"body", "woken", "sent", "finish_flag"}

(* Who takes up capacity of a worker, and whose thread it is about to      *)
(* reap: both are finite sets.                                             *)
LEMMA HoldingFacts ==
  ASSUME NEW w \in Worker
  PROVE  /\ \A t : t \in Holding(w) <=> t \in Task /\ host[t] = w /\ thread[t] \in Held
         /\ \A t : t \in Holding(w)' <=> t \in Task /\ host'[t] = w /\ thread'[t] \in Held
         /\ \A t : t \in Reaped(w) <=> t \in Task /\ host[t] = w /\ thread[t] = "finish_flag"
         /\ IsFiniteSet(Holding(w)) /\ Cardinality(Holding(w)) \in Nat
         /\ IsFiniteSet(Holding(w)') /\ Cardinality(Holding(w)') \in Nat
         /\ IsFiniteSet(Reaped(w)) /\ Cardinality(Reaped(w)) \in Nat
<1>1. /\ \A t : t \in Holding(w) <=> t \in Task /\ host[t] = w /\ thread[t] \in Held
      /\ \A t : t \in Holding(w)' <=> t \in Task /\ host'[t] = w /\ thread'[t] \in Held
      /\ \A t : t \in Reaped(w) <=> t \in Task /\ host[t] = w /\ thread[t] = "finish_flag"
  BY DEF Holding, Reaped, Hosted, Held
<1>2. Holding(w) \subseteq Task /\ Holding(w)' \subseteq Task /\ Reaped(w) \subseteq Task
  BY <1>1
<1> QED BY <1>1, <1>2, FiniteTasks

(* A step that lets no thread take up capacity, or give it up.             *)
LEMMA OfferSame ==
  ASSUME NEW w \in Worker, host' = host,
         \A t \in Task : thread[t] \in Held <=> thread'[t] \in Held,
         capacity' = capacity, waiting_capacity' = waiting_capacity
  PROVE  Offer(w)' = Offer(w)
<1>1. Holding(w)' = Holding(w)
  BY HoldingFacts
<1> QED BY <1>1 DEF Offer

(* A turn takes back what the finished took up, and gives it to those it   *)
(* starts or lets go on.                                                   *)
LEMMA TurnOffer ==
  ASSUME EventLoopsInv, NEW w \in Worker, NEW queue, NEW quit,
         QueueReady(w, queue), Turn(w, queue, quit), NEW v \in Worker
  PROVE  Offer(v)' = Offer(v)
<1>0. /\ EventLoopsTypeOK /\ OrderInv /\ PlaceInv /\ w # 0
      /\ capacity \in [Worker -> Int] /\ waiting_capacity \in [Worker -> Int]
  BY LoopTypes DEF EventLoopsInv
<1>1. /\ queue \in Seq(Task) /\ Once(queue)
      /\ \A t \in ToSet(queue) : host'[t] = w /\ thread[t] \in {"none", "blocked"}
  BY DEF QueueReady
<1>2. PICK taken \in SUBSET Task :
        /\ ToSet(queue) = taken \cup ToSet(runnable_tasks'[w])
        /\ taken \cap ToSet(runnable_tasks'[w]) = {}
        /\ IsFiniteSet(taken) /\ Cardinality(taken) \in Nat
        /\ Once(runnable_tasks'[w])
        /\ \A u \in Worker : u # w => runnable_tasks'[u] = runnable_tasks[u]
        /\ runnable_tasks' \in [Worker -> Seq(Task)]
        /\ capacity' = [capacity EXCEPT ![w] = Available(w) - Cardinality(taken)]
        /\ capacity' \in [Worker -> Int]
        /\ waiting_capacity' = [waiting_capacity EXCEPT ![w] = 0]
        /\ waiting_capacity' \in [Worker -> Int]
        /\ to_report' \in [Worker -> Int]
        /\ thread' \in [Task -> ThreadPC]
        /\ \A t \in Task :
             /\ t \in Reaped(w) => thread'[t] = "joined"
             /\ t \in taken /\ thread[t] = "blocked" => thread'[t] = "woken"
             /\ t \in taken /\ thread[t] = "none" => thread'[t] = "body"
             /\ t \notin Reaped(w) /\ t \notin taken => thread'[t] = thread[t]
  BY <1>0, <1>1, TurnFacts, Zenon
<1>3. \A t \in Task :
        /\ host'[t] = host[t] \/ (host[t] = 0 /\ thread[t] = "none" /\ t \in ToSet(queue) /\ host'[t] = w)
        /\ t \in taken => host'[t] = w /\ thread[t] \in {"none", "blocked"} /\ thread'[t] \in Held
        /\ t \in Reaped(w) => thread'[t] \notin Held
        /\ t \notin Reaped(w) /\ t \notin taken => thread'[t] = thread[t]
  <2> SUFFICES ASSUME NEW t \in Task
      PROVE /\ host'[t] = host[t] \/ (host[t] = 0 /\ thread[t] = "none" /\ t \in ToSet(queue) /\ host'[t] = w)
            /\ t \in taken => host'[t] = w /\ thread[t] \in {"none", "blocked"} /\ thread'[t] \in Held
            /\ t \in Reaped(w) => thread'[t] \notin Held
            /\ t \notin Reaped(w) /\ t \notin taken => thread'[t] = thread[t]
    OBVIOUS
  <2>1. Ordered(w, t) => host[t] = 0 /\ thread[t] = "none"
    BY <1>0 DEF OrderInv, PlaceInv
  <2>2. host'[t] = host[t] \/ (Ordered(w, t) /\ t \in ToSet(queue))
    BY DEF QueueReady
  <2>3. t \in taken => t \in ToSet(queue)
    BY <1>2
  <2>4. /\ t \in Reaped(w) => thread'[t] = "joined"
        /\ t \in taken /\ thread[t] = "blocked" => thread'[t] = "woken"
        /\ t \in taken /\ thread[t] = "none" => thread'[t] = "body"
        /\ t \notin Reaped(w) /\ t \notin taken => thread'[t] = thread[t]
    BY <1>2
  <2> QED BY <1>1, <2>1, <2>2, <2>3, <2>4 DEF Held
<1>4. CASE v # w
  <2>1. Holding(v)' = Holding(v)
    <3>1. ASSUME NEW t \in Task
          PROVE  (host'[t] = v /\ thread'[t] \in Held) <=> (host[t] = v /\ thread[t] \in Held)
      <4>1. t \in Reaped(w) => host[t] = w
        BY HoldingFacts
      <4>2. v # 0
        BY <1>0, LoopTypes
      <4> QED BY <1>3, <1>4, <4>1, <4>2
    <3> QED BY <3>1, HoldingFacts
  <2>2. capacity'[v] = capacity[v] /\ waiting_capacity'[v] = waiting_capacity[v]
    BY <1>0, <1>2, <1>4
  <2> QED BY <2>1, <2>2 DEF Offer
<1>5. CASE v = w
  <2> DEFINE H == Holding(w)
             R == Reaped(w)
  <2>1. /\ IsFiniteSet(H) /\ Cardinality(H) \in Nat /\ IsFiniteSet(R) /\ Cardinality(R) \in Nat
        /\ Cardinality(Holding(w)') \in Nat
    BY HoldingFacts
  <2>2. R \subseteq H /\ taken \cap (H \ R) = {}
    BY <1>3, HoldingFacts DEF Held
  <2>3. Holding(w)' = (H \ R) \cup taken
    <3>1. ASSUME NEW t \in Task
          PROVE  (host'[t] = w /\ thread'[t] \in Held) <=> (t \in H /\ t \notin R) \/ t \in taken
      <4>1. t \in R => host[t] = w /\ thread[t] = "finish_flag"
        BY HoldingFacts
      <4>2. t \in H <=> host[t] = w /\ thread[t] \in Held
        BY HoldingFacts
      <4> QED BY <1>0, <1>3, <4>1, <4>2 DEF Held
    <3> QED BY <3>1, HoldingFacts
  <2> HIDE DEF H, R
  <2>4. IsFiniteSet(H \ R) /\ Cardinality(H \ R) = Cardinality(H) - Cardinality(R)
    <3>1. /\ IsFiniteSet(H \ R) /\ Cardinality(H \ R) = Cardinality(H) - Cardinality(H \cap R)
      BY <2>1, FS_Difference
    <3>2. H \cap R = R
      BY <2>2
    <3> QED BY <3>1, <3>2
  <2>5. Cardinality((H \ R) \cup taken) = Cardinality(H) - Cardinality(R) + Cardinality(taken)
    <3>1. Cardinality((H \ R) \cup taken) =
            Cardinality(H \ R) + Cardinality(taken) - Cardinality((H \ R) \cap taken)
      BY <1>2, <2>4, FS_Union
    <3>2. (H \ R) \cap taken = {}
      BY <2>2
    <3>3. Cardinality((H \ R) \cap taken) = 0
      BY <3>2, FS_EmptySet
    <3> QED BY <1>2, <2>1, <2>4, <3>1, <3>3
  <2>6. /\ capacity'[w] = capacity[w] + waiting_capacity[w] + Cardinality(R) - Cardinality(taken)
        /\ waiting_capacity'[w] = 0
        /\ capacity[w] \in Int /\ waiting_capacity[w] \in Int
    <3>1. capacity[w] \in Int /\ waiting_capacity[w] \in Int
      BY <1>0
    <3>2. capacity'[w] = Available(w) - Cardinality(taken)
      BY <1>0, <1>2
    <3>3. waiting_capacity'[w] = 0
      BY <1>0, <1>2
    <3>4. Available(w) = capacity[w] + waiting_capacity[w] + Cardinality(R)
      BY DEF Available, R
    <3>5. capacity'[w] = capacity[w] + waiting_capacity[w] + Cardinality(R) - Cardinality(taken)
      BY <1>2, <2>1, <3>1, <3>2, <3>4
    <3> QED BY <3>1, <3>3, <3>5
  <2>7. Offer(w)' = capacity'[w] + waiting_capacity'[w] + Cardinality(Holding(w)')
    BY DEF Offer
  <2>8. Offer(w) = capacity[w] + waiting_capacity[w] + Cardinality(H)
    BY DEF Offer, H
  <2>9. Cardinality(Holding(w)') = Cardinality(H) - Cardinality(R) + Cardinality(taken)
    BY <2>3, <2>5
  <2>10. /\ Cardinality(H) \in Int /\ Cardinality(R) \in Int /\ Cardinality(taken) \in Int
    BY <1>2, <2>1
  <2>11. capacity'[w] + waiting_capacity'[w] + Cardinality(Holding(w)')
           = capacity[w] + waiting_capacity[w] + Cardinality(H)
    BY <2>6, <2>9, <2>10
  <2> QED BY <1>5, <2>7, <2>8, <2>11, Zenon
<1> QED BY <1>4, <1>5

(* Suspending a task lends its capacity out until it is woken.             *)
LEMMA SuspendOffer ==
  ASSUME EventLoopsInv, NEW t \in Task, NEW kind \in {"taskwait", "allwait"}, suspend(t, kind),
         NEW v \in Worker
  PROVE  Offer(v)' = Offer(v)
<1>0. /\ EventLoopsTypeOK /\ PlaceInv
      /\ capacity \in [Worker -> Int] /\ waiting_capacity \in [Worker -> Int]
      /\ thread \in [Task -> ThreadPC] /\ host \in [Task -> Worker \cup {0}]
  BY LoopTypes DEF EventLoopsInv
<1>1. /\ thread[t] = "body" /\ thread' = [thread EXCEPT ![t] = kind] /\ host' = host
      /\ waiting_capacity' = [waiting_capacity EXCEPT ![host[t]] = @ + 1] /\ capacity' = capacity
  BY DEF suspend, MoveTo, add_to_waiting
<1>2. host[t] \in Worker
  BY <1>0, <1>1 DEF PlaceInv
<1>3. thread'[t] = kind /\ \A x \in Task : x # t => thread'[x] = thread[x]
  BY <1>0, <1>1
<1>4. CASE v # host[t]
  <2>1. Holding(v)' = Holding(v)
    BY <1>1, <1>3, <1>4, HoldingFacts
  <2>2. waiting_capacity'[v] = waiting_capacity[v]
    BY <1>0, <1>1, <1>4
  <2> QED BY <1>1, <2>1, <2>2 DEF Offer
<1>5. CASE v = host[t]
  <2>1. Holding(v)' = Holding(v) \ {t}
    BY <1>1, <1>3, HoldingFacts DEF Held
  <2>2. t \in Holding(v)
    BY <1>1, <1>5, HoldingFacts DEF Held
  <2>3. IsFiniteSet(Holding(v)) /\ Cardinality(Holding(v)) \in Nat
    BY HoldingFacts
  <2>4. Cardinality(Holding(v)') = Cardinality(Holding(v)) - 1
    BY <2>1, <2>2, <2>3, FS_RemoveElement
  <2>5. /\ waiting_capacity'[v] = waiting_capacity[v] + 1 /\ capacity'[v] = capacity[v]
        /\ waiting_capacity[v] \in Int /\ capacity[v] \in Int
    BY <1>0, <1>1, <1>2, <1>5
  <2>6. Offer(v)' = capacity'[v] + waiting_capacity'[v] + Cardinality(Holding(v)')
    BY DEF Offer
  <2>7. capacity'[v] + waiting_capacity'[v] + Cardinality(Holding(v)')
           = capacity[v] + waiting_capacity[v] + Cardinality(Holding(v))
    BY <2>3, <2>4, <2>5
  <2> QED BY <2>6, <2>7, Zenon DEF Offer
<1> QED BY <1>4, <1>5

(* Suspending, waking, starting and joining neither lose nor invent        *)
(* capacity: what a worker has, has lent out and has in use stays what it  *)
(* was at the start, whatever waiting_capacity held then.                  *)
THEOREM CapacityTheorem == Spec => CapacityKept
<1>1. ASSUME EventLoopsInv, [Next]_vars, NEW v \in Worker
      PROVE  Offer(v)' = Offer(v)
  <2>0. thread \in [Task -> ThreadPC]
    BY <1>1, LoopTypes DEF EventLoopsInv
  <2>1. CASE UNCHANGED <<capacity, waiting_capacity, thread, host>>
    <3>1. /\ host' = host /\ capacity' = capacity /\ waiting_capacity' = waiting_capacity
          /\ \A t \in Task : thread[t] \in Held <=> thread'[t] \in Held
      BY <2>1
    <3> QED BY <1>1, <3>1, OfferSame
  <2>2. UNCHANGED vars => UNCHANGED <<capacity, waiting_capacity, thread, host>>
    BY DEF vars, loopVars
  <2>3. RuntimeStep => UNCHANGED <<capacity, waiting_capacity, thread, host>>
    BY DEF RuntimeStep, receive_create, receive_finish, receive_taskwait, receive_allwait,
           receive_free_capacity, receive_nothing, run_task, shutdown, loopVars
  <2>4. ASSUME NEW w \in Worker, WorkerStep(w) PROVE Offer(v)' = Offer(v)
    <3>1. CASE report_free_capacity(w)
      BY <1>1, <2>1, <3>1 DEF report_free_capacity
    <3> QED BY <1>1, <2>4, <3>1, TurnSteps, TurnOffer DEF WorkerStep
  <2>5. ASSUME NEW t \in Task, ThreadStep(t) PROVE Offer(v)' = Offer(v)
    <3>1. CASE handle_create(t)
      BY <1>1, <2>1, <3>1 DEF handle_create, loopVars
    <3>2. ASSUME NEW pc, thread' = [thread EXCEPT ![t] = pc], thread[t] \in Held <=> pc \in Held,
                 UNCHANGED <<capacity, waiting_capacity, host>>
          PROVE  Offer(v)' = Offer(v)
      <4>1. \A x \in Task : thread[x] \in Held <=> thread'[x] \in Held
        BY <2>0, <3>2
      <4> QED BY <1>1, <3>2, <4>1, OfferSame
    <3>3. ASSUME NEW kind \in {"taskwait", "allwait"}, NEW tag, tell_wait(t, kind, tag)
          PROVE  Offer(v)' = Offer(v)
      BY <3>2, <3>3 DEF tell_wait, MoveTo, Held
    <3>4. CASE continue(t)
      BY <3>2, <3>4 DEF continue, MoveTo, Held
    <3>5. CASE handle_finish(t)
      BY <3>2, <3>5 DEF handle_finish, MoveTo, Held
    <3>6. CASE set_finish_flag(t)
      BY <3>2, <3>6 DEF set_finish_flag, MoveTo, Held
    <3> QED BY <1>1, <2>5, <3>1, <3>3, <3>4, <3>5, <3>6, SuspendOffer DEF ThreadStep
  <2> QED BY <1>1, <2>1, <2>2, <2>3, <2>4, <2>5 DEF Next
<1>2. EventLoopsInv /\ [Next]_vars => [\A w \in Worker : Offer(w)' = Offer(w)]_vars
  BY <1>1
<1> QED BY <1>2, EventLoopsInvariance, PTL DEF Spec, CapacityKept

------------------------------------------------------------------------------
(* Every nonempty set of places has a least one.                           *)
LEMMA LeastPlace ==
  ASSUME NEW P \in SUBSET Nat, P # {}
  PROVE  \E x \in P : \A y \in P : x <= y
<1> DEFINE F == {0 .. n : n \in P}
<1>1. IsWellFoundedOn(StrictSubsetOrdering(Nat), FiniteSubsetsOf(Nat))
  BY FS_StrictSubsetOrderingWellFounded
<1>2. F \subseteq FiniteSubsetsOf(Nat) /\ F # {}
  <2>1. \A n \in P : IsFiniteSet(0 .. n) /\ 0 .. n \in SUBSET Nat
    BY FS_Interval
  <2> QED BY <2>1 DEF FiniteSubsetsOf
<1>3. \E x \in F : \A y \in F : <<y, x>> \notin StrictSubsetOrdering(Nat)
  BY <1>1, <1>2, WFMin, Zenon
<1>4. PICK m \in P : \A y \in F : <<y, 0 .. m>> \notin StrictSubsetOrdering(Nat)
  BY <1>3
<1>5. \A y \in P : ~(y < m)
  <2> SUFFICES ASSUME NEW y \in P, y < m PROVE FALSE
    OBVIOUS
  <2>1. 0 .. y \subseteq 0 .. m /\ 0 .. y # 0 .. m /\ 0 .. y \in SUBSET Nat /\ 0 .. m \in SUBSET Nat
    <3>1. m \in 0 .. m /\ m \notin 0 .. y
      OBVIOUS
    <3> QED BY <3>1
  <2>2. <<0 .. y, 0 .. m>> \in StrictSubsetOrdering(Nat)
    BY <2>1, SMT DEF StrictSubsetOrdering
  <2> QED BY <1>4, <2>2
<1> QED BY <1>5

(* The amounts in a channel.  Sums(n, f, q): f sums up the first n.        *)
Sums(n, f, q) == f = [i \in 0 .. n |-> IF i = 0 THEN 0 ELSE f[i - 1] + q[i].amount]

(* What such a function is, one place after the other.                     *)
LEMMA SumsFacts ==
  ASSUME NEW n \in Nat, NEW q, NEW f, Sums(n, f, q), \A i \in 1 .. n : q[i].amount \in Int
  PROVE  /\ f[0] = 0 /\ \A i \in 1 .. n : f[i] = f[i - 1] + q[i].amount
         /\ f \in [0 .. n -> Int]
<1>1. f[0] = 0 /\ \A i \in 1 .. n : f[i] = f[i - 1] + q[i].amount
  <2>1. \A i \in 0 .. n : f[i] = IF i = 0 THEN 0 ELSE f[i - 1] + q[i].amount
    BY DEF Sums
  <2> QED BY <2>1
<1> DEFINE Bad == {i \in 0 .. n : f[i] \notin Int}
<1>2. Bad = {}
  <2>0. Bad \in SUBSET Nat
    OBVIOUS
  <2> SUFFICES ASSUME Bad # {} PROVE FALSE
    OBVIOUS
  <2>1. PICK i \in Bad : \A y \in Bad : i <= y
    BY <2>0, LeastPlace
  <2>2. i \in 1 .. n
    BY <1>1, <2>1
  <2>3. i - 1 \in 0 .. n /\ i - 1 \notin Bad
    BY <2>1, <2>2
  <2> QED BY <1>1, <2>1, <2>2, <2>3
<1>3. \A i \in 0 .. n : f[i] \in Int
  BY <1>2
<1>4. f = [i \in 0 .. n |-> f[i]]
  BY DEF Sums
<1> QED BY <1>1, <1>3, <1>4

(* There is one for every n: the least n without one is neither 0 nor a    *)
(* successor.                                                              *)
LEMMA SumsExist ==
  ASSUME NEW n \in Nat, NEW q, \A i \in 1 .. n : q[i].amount \in Int
  PROVE  \E f : Sums(n, f, q)
<1> DEFINE Bad == {i \in 0 .. n : ~ \E f : Sums(i, f, q)}
<1>1. Bad = {}
  <2>0. Bad \in SUBSET Nat
    OBVIOUS
  <2> SUFFICES ASSUME Bad # {} PROVE FALSE
    OBVIOUS
  <2>1. PICK i \in Bad : \A y \in Bad : i <= y
    BY <2>0, LeastPlace
  <2>2. i # 0
    <3>1. Sums(0, [j \in 0 .. 0 |-> 0], q)
      BY DEF Sums
    <3> QED BY <2>1, <3>1
  <2>3. i - 1 \in 0 .. n /\ i - 1 \notin Bad
    BY <2>1, <2>2
  <2>4. PICK f : Sums(i - 1, f, q)
    BY <2>3
  <2>5. i \in 1 .. n /\ i - 1 \in Nat
    BY <2>1, <2>2
  <2> PICK g : g = [j \in 0 .. i |-> IF j = i THEN f[i - 1] + q[i].amount ELSE f[j]]
    OBVIOUS
  <2>6. Sums(i, g, q)
    <3>1. f[0] = 0 /\ \A j \in 1 .. i - 1 : f[j] = f[j - 1] + q[j].amount
      BY <2>4, <2>5 DEF Sums
    <3>2. \A j \in 0 .. i : g[j] = IF j = 0 THEN 0 ELSE g[j - 1] + q[j].amount
      <4> SUFFICES ASSUME NEW j \in 0 .. i
                   PROVE  g[j] = IF j = 0 THEN 0 ELSE g[j - 1] + q[j].amount
        OBVIOUS
      <4>1. CASE j = 0
        BY <2>5, <3>1, <4>1
      <4>2. CASE j = i
        BY <2>5, <4>2
      <4>3. CASE j \in 1 .. i - 1
        BY <2>5, <3>1, <4>3
      <4> QED BY <2>5, <4>1, <4>2, <4>3
    <3> QED BY <3>2 DEF Sums
  <2> QED BY <2>1, <2>6
<1> QED BY <1>1

(* AmountOf sums up the amounts of all messages of a channel.              *)
LEMMA AmountSums ==
  ASSUME NEW q \in Seq(UpMsg)
  PROVE  \E f : /\ Len(q) \in Nat /\ f \in [0 .. Len(q) -> Int]
                /\ f[0] = 0 /\ \A i \in 1 .. Len(q) : f[i] = f[i - 1] + q[i].amount
                /\ AmountOf(q) = f[Len(q)]
<1>0. Len(q) \in Nat /\ \A i \in 1 .. Len(q) : q[i].amount \in Int
  <2>1. Len(q) \in Nat /\ \A i \in 1 .. Len(q) : q[i] \in UpMsg
    BY LenProperties
  <2> QED BY <2>1, MessageNames
<1> DEFINE sum[i \in 0 .. Len(q)] == IF i = 0 THEN 0 ELSE sum[i - 1] + q[i].amount
<1>1. sum = [i \in 0 .. Len(q) |-> IF i = 0 THEN 0 ELSE sum[i - 1] + q[i].amount]
  <2>1. \E f : f = [i \in 0 .. Len(q) |-> IF i = 0 THEN 0 ELSE f[i - 1] + q[i].amount]
    BY <1>0, SumsExist DEF Sums
  <2> QED BY <2>1, Zenon
<1>2. AmountOf(q) = sum[Len(q)]
  BY Zenon DEF AmountOf
<1> HIDE DEF sum
<1>3. Sums(Len(q), sum, q)
  BY <1>1, Zenon DEF Sums
<1> QED BY <1>0, <1>2, <1>3, SumsFacts

(* What does not change from one place to the next does not change at all. *)
LEMMA SameThroughout ==
  ASSUME NEW n \in Nat, NEW d, \A i \in 1 .. n : d[i] = d[i - 1]
  PROVE  d[n] = d[0]
<1> DEFINE Bad == {i \in 0 .. n : d[i] # d[0]}
<1>1. Bad = {}
  <2>0. Bad \in SUBSET Nat
    OBVIOUS
  <2> SUFFICES ASSUME Bad # {} PROVE FALSE
    OBVIOUS
  <2>1. PICK i \in Bad : \A y \in Bad : i <= y
    BY <2>0, LeastPlace
  <2>2. i \in 1 .. n
    BY <2>1
  <2>3. i - 1 \in 0 .. n /\ i - 1 \notin Bad
    BY <2>1, <2>2
  <2> QED BY <2>1, <2>2, <2>3
<1> QED BY <1>1

(* A message more, or one less, adds or takes away what it says.           *)
LEMMA AmountAppend ==
  ASSUME NEW q \in Seq(UpMsg), NEW m \in UpMsg
  PROVE  /\ AmountOf(q) \in Int
         /\ AmountOf(Append(q, m)) = AmountOf(q) + m.amount
<1> DEFINE r == Append(q, m)
<1>1. /\ r \in Seq(UpMsg) /\ Len(q) \in Nat /\ Len(r) = Len(q) + 1
      /\ \A i \in 1 .. Len(q) : r[i] = q[i]
      /\ r[Len(q) + 1] = m
  BY AppendProperties, LenProperties
<1> HIDE DEF r
<1>2. PICK f : /\ f \in [0 .. Len(q) -> Int]
               /\ f[0] = 0 /\ \A i \in 1 .. Len(q) : f[i] = f[i - 1] + q[i].amount
               /\ AmountOf(q) = f[Len(q)]
  BY AmountSums
<1>3. PICK g : /\ g \in [0 .. Len(r) -> Int]
               /\ g[0] = 0 /\ \A i \in 1 .. Len(r) : g[i] = g[i - 1] + r[i].amount
               /\ AmountOf(r) = g[Len(r)]
  BY <1>1, AmountSums
<1>4. \A i \in 1 .. Len(q) : q[i].amount \in Int
  BY LenProperties, MessageNames
<1> DEFINE d == [i \in 0 .. Len(q) |-> g[i] - f[i]]
<1>5. \A i \in 1 .. Len(q) : d[i] = d[i - 1]
  <2> SUFFICES ASSUME NEW i \in 1 .. Len(q) PROVE d[i] = d[i - 1]
    OBVIOUS
  <2>1. /\ i \in 0 .. Len(q) /\ i - 1 \in 0 .. Len(q) /\ i \in 1 .. Len(r)
        /\ i \in 0 .. Len(r) /\ i - 1 \in 0 .. Len(r)
    BY <1>1
  <2>2. f[i] = f[i - 1] + q[i].amount /\ g[i] = g[i - 1] + q[i].amount
    BY <1>1, <1>2, <1>3, <2>1
  <2>3. f[i - 1] \in Int /\ g[i - 1] \in Int /\ q[i].amount \in Int
    BY <1>2, <1>3, <1>4, <2>1
  <2>4. g[i] - f[i] = g[i - 1] - f[i - 1]
    BY <2>2, <2>3
  <2> QED BY <2>1, <2>4
<1>6. d[0] = 0 /\ d[Len(q)] = g[Len(q)] - f[Len(q)]
  BY <1>1, <1>2, <1>3
<1> HIDE DEF d
<1>7. g[Len(q)] - f[Len(q)] = 0
  BY <1>1, <1>5, <1>6, SameThroughout
<1>8. /\ g[Len(q)] \in Int /\ f[Len(q)] \in Int /\ m.amount \in Int
      /\ g[Len(r)] = g[Len(q)] + m.amount
  <2>1. Len(r) \in 1 .. Len(r) /\ Len(q) \in 0 .. Len(r) /\ Len(q) \in 0 .. Len(q) /\ Len(r) - 1 = Len(q)
    BY <1>1
  <2>2. g[Len(r)] = g[Len(q)] + r[Len(r)].amount
    BY <1>3, <2>1
  <2> QED BY <1>1, <1>2, <1>3, <2>1, <2>2, MessageNames
<1>9. AmountOf(q) \in Int /\ AmountOf(r) = AmountOf(q) + m.amount
  BY <1>2, <1>3, <1>7, <1>8
<1> QED BY <1>9 DEF r

(* A receive takes the amount of the first message away.                   *)
LEMMA AmountTail ==
  ASSUME NEW q \in Seq(UpMsg), q # << >>
  PROVE  /\ AmountOf(q) \in Int /\ AmountOf(Tail(q)) \in Int
         /\ AmountOf(q) = AmountOf(Tail(q)) + Head(q).amount
<1> DEFINE r == Tail(q)
<1>1. /\ r \in Seq(UpMsg) /\ Len(r) \in Nat /\ Len(r) = Len(q) - 1 /\ Len(q) \in Nat \ {0}
      /\ \A i \in 1 .. Len(r) : r[i] = q[i + 1]
      /\ Head(q) = q[1] /\ Head(q) \in UpMsg
  BY HeadTailProperties, LenProperties, EmptySeq
<1> HIDE DEF r
<1>2. PICK f : /\ f \in [0 .. Len(q) -> Int]
               /\ f[0] = 0 /\ \A i \in 1 .. Len(q) : f[i] = f[i - 1] + q[i].amount
               /\ AmountOf(q) = f[Len(q)]
  BY AmountSums
<1>3. PICK g : /\ g \in [0 .. Len(r) -> Int]
               /\ g[0] = 0 /\ \A i \in 1 .. Len(r) : g[i] = g[i - 1] + r[i].amount
               /\ AmountOf(r) = g[Len(r)]
  BY <1>1, AmountSums
<1>4. \A i \in 1 .. Len(r) : r[i].amount \in Int
  BY <1>1, LenProperties, MessageNames
<1> DEFINE d == [i \in 0 .. Len(r) |-> f[i + 1] - g[i]]
<1>5. \A i \in 1 .. Len(r) : d[i] = d[i - 1]
  <2> SUFFICES ASSUME NEW i \in 1 .. Len(r) PROVE d[i] = d[i - 1]
    OBVIOUS
  <2>1. /\ i \in 0 .. Len(r) /\ i - 1 \in 0 .. Len(r) /\ i + 1 \in 1 .. Len(q) /\ i \in 0 .. Len(q)
        /\ i + 1 - 1 = i /\ i - 1 + 1 = i
    BY <1>1
  <2>2. f[i + 1] = f[i] + r[i].amount /\ g[i] = g[i - 1] + r[i].amount
    BY <1>1, <1>2, <1>3, <2>1
  <2>3. f[i] \in Int /\ g[i - 1] \in Int /\ r[i].amount \in Int
    BY <1>2, <1>3, <1>4, <2>1
  <2>4. f[i + 1] - g[i] = f[i] - g[i - 1]
    BY <2>2, <2>3
  <2> QED BY <2>1, <2>4
<1>6. d[0] = f[1] - g[0] /\ d[Len(r)] = f[Len(q)] - g[Len(r)]
  <2>1. 0 \in 0 .. Len(r) /\ Len(r) \in 0 .. Len(r) /\ Len(r) + 1 = Len(q) /\ 0 + 1 = 1
    BY <1>1
  <2> QED BY <2>1
<1> HIDE DEF d
<1>7. f[Len(q)] - g[Len(r)] = f[1] - g[0]
  BY <1>1, <1>5, <1>6, SameThroughout
<1>8. /\ f[1] = Head(q).amount /\ g[0] = 0 /\ Head(q).amount \in Int
      /\ f[Len(q)] \in Int /\ g[Len(r)] \in Int
  <2>1. 1 \in 1 .. Len(q) /\ Len(q) \in 0 .. Len(q) /\ Len(r) \in 0 .. Len(r) /\ 1 - 1 = 0
    BY <1>1
  <2>2. f[1] = f[0] + q[1].amount
    BY <1>2, <2>1
  <2>3. Head(q).amount \in Int
    BY <1>1, MessageNames
  <2> QED BY <1>1, <1>2, <1>3, <2>1, <2>2, <2>3
<1>9. AmountOf(q) \in Int /\ AmountOf(r) \in Int /\ AmountOf(q) = AmountOf(r) + Head(q).amount
  BY <1>2, <1>3, <1>7, <1>8
<1> QED BY <1>9 DEF r

------------------------------------------------------------------------------
(* Only reports of capacity say an amount.                                 *)
AmountInv ==
  \A w \in Worker : \A m \in ToSet(to_runtime[w]) : Speaks(m) => m.amount = 0

Balance(w) == offered[w] + ReportedBy(w) - capacity[w] + Cardinality(HandedTo(w))

(* Who was handed to a worker: the tasks there and those ordered there.    *)
LEMMA HandedFacts ==
  ASSUME EventLoopsTypeOK, NEW w \in Worker
  PROVE  /\ \A t : t \in HandedTo(w) <=> t \in Task /\ (host[t] = w \/ Ordered(w, t))
         /\ IsFiniteSet(HandedTo(w)) /\ Cardinality(HandedTo(w)) \in Nat
<1> DEFINE O == {m.task : m \in {x \in ToSet(to_worker[w]) : x.tag = "COMMAND"}}
<1>1. ToSet(to_worker[w]) \subseteq DownMsg
  BY InChannels
<1>2. \A t : t \in O <=> t \in Task /\ Ordered(w, t)
  <2>1. ASSUME NEW m \in ToSet(to_worker[w]), m.tag = "COMMAND"
        PROVE  m.task \in Task /\ Ordered(w, m.task)
    <3>1. m \in DownMsg /\ m = Down(m.tag, m.task) /\ m.task \in Task
      BY <1>1, <2>1, MessageNames
    <3> QED BY <2>1, <3>1 DEF Ordered
  <2>2. ASSUME NEW t \in Task, Ordered(w, t) PROVE t \in O
    <3>1. /\ Down("COMMAND", t) \in ToSet(to_worker[w])
          /\ Down("COMMAND", t).tag = "COMMAND" /\ Down("COMMAND", t).task = t
      BY <2>2, MessageNames DEF Ordered, DownTag
    <3> QED BY <3>1
  <2> QED BY <2>1, <2>2
<1>3. HandedTo(w) = Hosted(w) \cup O
  BY DEF HandedTo
<1> HIDE DEF O
<1>4. \A t : t \in HandedTo(w) <=> t \in Task /\ (host[t] = w \/ Ordered(w, t))
  BY <1>2, <1>3 DEF Hosted
<1>5. HandedTo(w) \subseteq Task
  BY <1>4
<1> QED BY <1>4, <1>5, FiniteTasks

(* What the balance is made of.                                            *)
LEMMA BalanceTypes ==
  ASSUME EventLoopsTypeOK, NEW w \in Worker
  PROVE  /\ offered[w] \in Int /\ to_report[w] \in Int /\ capacity[w] \in Int
         /\ to_runtime[w] \in Seq(UpMsg) /\ AmountOf(to_runtime[w]) \in Int
         /\ Cardinality(HandedTo(w)) \in Nat
<1>1. /\ to_runtime \in [Worker -> Seq(UpMsg)] /\ to_report \in [Worker -> Int]
      /\ capacity \in [Worker -> Int] /\ offered \in [Worker -> Int]
  BY LoopTypes
<1>2. to_runtime[w] \in Seq(UpMsg)
  BY <1>1
<1>3. AmountOf(to_runtime[w]) \in Int
  <2>1. PICK f : /\ Len(to_runtime[w]) \in Nat /\ f \in [0 .. Len(to_runtime[w]) -> Int]
                 /\ AmountOf(to_runtime[w]) = f[Len(to_runtime[w])]
    BY <1>2, AmountSums
  <2> QED BY <2>1
<1> QED BY <1>1, <1>2, <1>3, HandedFacts

AccountFacts ==
  \A w \in Worker :
    /\ offered[w] \in Int /\ to_report[w] \in Int /\ capacity[w] \in Int
    /\ to_runtime[w] \in Seq(UpMsg) /\ AmountOf(to_runtime[w]) \in Int
    /\ \A t : t \in HandedTo(w) <=> t \in Task /\ (host[t] = w \/ Ordered(w, t))
    /\ IsFiniteSet(HandedTo(w)) /\ Cardinality(HandedTo(w)) \in Nat

(* So it is in every state, before and after a step.                       *)
LEMMA AccountAlways == EventLoopsTypeOK => AccountFacts
BY HandedFacts, BalanceTypes DEF AccountFacts

(* The same facts of the next state.                                       *)
LEMMA AccountNext == EventLoopsTypeOK' => AccountFacts'
BY AccountAlways, PTL

(* A step that hands no task to a worker, and takes away what it adds.     *)
LEMMA BalanceSame ==
  ASSUME EventLoopsTypeOK, EventLoopsTypeOK', NEW v \in Worker,
         \A t \in Task : (host'[t] = v \/ Ordered(v, t)') <=> (host[t] = v \/ Ordered(v, t)),
         offered'[v] + to_report'[v] + AmountOf(to_runtime'[v]) - capacity'[v]
           = offered[v] + to_report[v] + AmountOf(to_runtime[v]) - capacity[v]
  PROVE  Balance(v)' = Balance(v)
<1>1. /\ \A t : t \in HandedTo(v) <=> t \in Task /\ (host[t] = v \/ Ordered(v, t))
      /\ Cardinality(HandedTo(v)) \in Nat
      /\ offered[v] \in Int /\ to_report[v] \in Int /\ capacity[v] \in Int
      /\ AmountOf(to_runtime[v]) \in Int
  BY AccountAlways DEF AccountFacts
<1>2. /\ \A t : t \in HandedTo(v)' <=> t \in Task /\ (host'[t] = v \/ Ordered(v, t)')
      /\ offered'[v] \in Int /\ to_report'[v] \in Int /\ capacity'[v] \in Int
      /\ AmountOf(to_runtime'[v]) \in Int
  BY AccountNext DEF AccountFacts
<1>3. HandedTo(v)' = HandedTo(v)
  BY <1>1, <1>2
<1>4. /\ Balance(v) = offered[v] + (to_report[v] + AmountOf(to_runtime[v])) - capacity[v]
                        + Cardinality(HandedTo(v))
      /\ Balance(v)' = offered'[v] + (to_report'[v] + AmountOf(to_runtime'[v])) - capacity'[v]
                         + Cardinality(HandedTo(v)')
  BY DEF Balance, ReportedBy
<1> QED BY <1>1, <1>2, <1>3, <1>4

------------------------------------------------------------------------------
(* A step keeps the balance of every worker that goes on.                  *)
AccountKept(v) == ~quit_loop'[v] => ~quit_loop[v] /\ Balance(v)' = Balance(v)
Balanced == AmountInv' /\ \A v \in Worker : AccountKept(v)

(* No balance changes if nothing it is made of does.                       *)
LEMMA QuietAccount ==
  ASSUME EventLoopsInv, EventLoopsInv', AmountInv, offered' = offered, capacity' = capacity,
         to_report' = to_report, to_runtime' = to_runtime, quit_loop' = quit_loop,
         \A v \in Worker, t \in Task :
           (host'[t] = v \/ Ordered(v, t)') <=> (host[t] = v \/ Ordered(v, t))
  PROVE  Balanced
<1>1. EventLoopsTypeOK /\ EventLoopsTypeOK'
  BY DEF EventLoopsInv
<1>2. ASSUME NEW v \in Worker PROVE AccountKept(v)
  BY <1>1, BalanceSame DEF AccountKept
<1>3. AmountInv'
  BY DEF AmountInv
<1> QED BY <1>2, <1>3 DEF Balanced

(* What is said takes its own amount off the channel.                      *)
LEMMA HeardAmount ==
  ASSUME EventLoopsInv, NEW w \in Worker, NEW tag \in UpTag, Incoming(w, tag), NEW m,
         m = Head(to_runtime[w])
  PROVE  /\ m.tag = tag /\ m \in ToSet(to_runtime[w]) /\ m.amount \in Int
         /\ AmountOf(to_runtime[w]) \in Int /\ AmountOf(to_runtime'[w]) \in Int
         /\ AmountOf(to_runtime[w]) = AmountOf(to_runtime'[w]) + m.amount
         /\ \A v \in Worker : v # w => to_runtime'[v] = to_runtime[v]
         /\ AmountInv => AmountInv'
<1>1. /\ to_runtime \in [Worker -> Seq(UpMsg)] /\ to_runtime[w] # << >> /\ m.tag = tag
      /\ to_runtime' = [to_runtime EXCEPT ![w] = Tail(to_runtime[w])]
  BY LoopTypes DEF Incoming, EventLoopsInv
<1>2. /\ to_runtime[w] \in Seq(UpMsg) /\ to_runtime'[w] = Tail(to_runtime[w])
      /\ \A v \in Worker : v # w => to_runtime'[v] = to_runtime[v]
  BY <1>1
<1>3. m \in UpMsg /\ m \in ToSet(to_runtime[w]) /\ ToSet(to_runtime'[w]) \subseteq ToSet(to_runtime[w])
  BY <1>1, <1>2, TailFacts
<1>4. m.amount \in Int
  BY <1>3, MessageNames
<1>5. /\ AmountOf(to_runtime[w]) \in Int /\ AmountOf(Tail(to_runtime[w])) \in Int
      /\ AmountOf(to_runtime[w]) = AmountOf(Tail(to_runtime[w])) + Head(to_runtime[w]).amount
  BY <1>1, <1>2, AmountTail
<1>6. AmountInv => AmountInv'
  BY <1>2, <1>3 DEF AmountInv
<1> QED BY <1>1, <1>2, <1>3, <1>4, <1>5, <1>6

(* A message of a task says no amount,                                     *)
LEMMA HeardAccount ==
  ASSUME EventLoopsInv, EventLoopsInv', AmountInv, NEW w \in Worker, NEW tag \in UpTag,
         tag # "FREECAPACITY", Incoming(w, tag), offered' = offered, capacity' = capacity,
         to_report' = to_report, quit_loop' = quit_loop, host' = host,
         \A v \in Worker, t \in Task : Ordered(v, t)' <=> Ordered(v, t)
  PROVE  Balanced
<1>0. EventLoopsTypeOK /\ EventLoopsTypeOK'
  BY DEF EventLoopsInv
<1>m. PICK m : m = Head(to_runtime[w])
  OBVIOUS
<1>1. /\ m.tag = tag /\ m \in ToSet(to_runtime[w]) /\ m.amount \in Int
      /\ AmountOf(to_runtime[w]) \in Int /\ AmountOf(to_runtime'[w]) \in Int
      /\ AmountOf(to_runtime[w]) = AmountOf(to_runtime'[w]) + m.amount
      /\ \A v \in Worker : v # w => to_runtime'[v] = to_runtime[v]
      /\ AmountInv => AmountInv'
  BY <1>m, HeardAmount
<1>2. m.amount = 0
  BY <1>1 DEF AmountInv, Speaks
<1>3. \A v \in Worker : AmountOf(to_runtime'[v]) = AmountOf(to_runtime[v])
  BY <1>1, <1>2
<1>4. ASSUME NEW v \in Worker PROVE AccountKept(v)
  BY <1>0, <1>3, BalanceSame DEF AccountKept
<1> QED BY <1>1, <1>4 DEF Balanced

(* a report of capacity the amount it adds to what the runtime offers.     *)
LEMMA CapacityAccount ==
  ASSUME EventLoopsInv, EventLoopsInv', AmountInv, NEW w \in Worker, receive_free_capacity(w)
  PROVE  Balanced
<1>0. EventLoopsTypeOK /\ EventLoopsTypeOK'
  BY DEF EventLoopsInv
<1>m. PICK m : m = Head(to_runtime[w])
  OBVIOUS
<1>1. /\ Incoming(w, "FREECAPACITY") /\ offered' = [offered EXCEPT ![w] = @ + m.amount]
      /\ to_worker' = to_worker /\ host' = host /\ capacity' = capacity
      /\ to_report' = to_report /\ quit_loop' = quit_loop /\ "FREECAPACITY" \in UpTag
  BY <1>m DEF receive_free_capacity, handle_free_capacity, loopVars, UpTag
<1>2. /\ m.amount \in Int
      /\ AmountOf(to_runtime[w]) \in Int /\ AmountOf(to_runtime'[w]) \in Int
      /\ AmountOf(to_runtime[w]) = AmountOf(to_runtime'[w]) + m.amount
      /\ \A v \in Worker : v # w => to_runtime'[v] = to_runtime[v]
      /\ AmountInv => AmountInv'
  BY <1>1, <1>m, HeardAmount
<1>3. /\ offered \in [Worker -> Int] /\ offered'[w] = offered[w] + m.amount
      /\ \A v \in Worker : v # w => offered'[v] = offered[v]
  BY <1>0, <1>1, LoopTypes
<1>4. ASSUME NEW v \in Worker PROVE AccountKept(v)
  <2>1. \A t \in Task : (host'[t] = v \/ Ordered(v, t)') <=> (host[t] = v \/ Ordered(v, t))
    BY <1>1 DEF Ordered, Down
  <2>2. offered'[v] + to_report'[v] + AmountOf(to_runtime'[v]) - capacity'[v]
          = offered[v] + to_report[v] + AmountOf(to_runtime[v]) - capacity[v]
    <3>1. /\ offered[v] \in Int /\ to_report[v] \in Int /\ capacity[v] \in Int
          /\ AmountOf(to_runtime[v]) \in Int
      BY <1>0, BalanceTypes
    <3>2. CASE v = w
      BY <1>1, <1>2, <1>3, <3>1, <3>2
    <3>3. CASE v # w
      BY <1>1, <1>2, <1>3, <3>3
    <3> QED BY <3>2, <3>3
  <2> QED BY <1>0, <1>1, <2>1, <2>2, BalanceSame DEF AccountKept
<1> QED BY <1>2, <1>4 DEF Balanced

(* A task handed out costs what it adds to those handed out.               *)
LEMMA RunAccount ==
  ASSUME EventLoopsInv, EventLoopsInv', AmountInv, run_task
  PROVE  Balanced
<1>0. EventLoopsTypeOK /\ EventLoopsTypeOK' /\ PlaceInv /\ 0 \notin Worker
  BY LoopTypes DEF EventLoopsInv
<1>a. PICK w, t, m : w = Head(free_workers) /\ t = Head(queued_tasks) /\ m = Down("COMMAND", t)
  OBVIOUS
<1>1. /\ queued_tasks \in Seq(Task) /\ queued_tasks # << >> /\ w \in Worker /\ t \in Task
      /\ offered' = [offered EXCEPT ![w] = @ - 1]
      /\ to_worker' = [to_worker EXCEPT ![w] = Append(@, m)]
      /\ to_runtime' = to_runtime /\ host' = host /\ capacity' = capacity
      /\ to_report' = to_report /\ quit_loop' = quit_loop
  <2>1. /\ queued_tasks \in Seq(Task) /\ queued_tasks # << >>
        /\ free_workers \in Seq(Worker) /\ free_workers # << >>
    BY <1>0, LoopTypes DEF run_task, CanRunTask
  <2>2. w \in Worker /\ t \in Task
    BY <1>a, <2>1, TailFacts
  <2> QED BY <1>a, <2>1, <2>2 DEF run_task, handle_run_task, loopVars
<1>2. host[t] = 0 /\ \A v \in Worker : ~Ordered(v, t)
  <2>1. t \in ToSet(queued_tasks)
    BY <1>a, <1>1, TailFacts
  <2> QED BY <1>0, <2>1 DEF PlaceInv
<1>3. m \in DownMsg
  BY <1>a, <1>1, MessageNames DEF DownTag
<1>4. /\ ToSet(to_worker'[w]) = ToSet(to_worker[w]) \cup {m}
      /\ \A v \in Worker : v # w => to_worker'[v] = to_worker[v]
  <2>1. to_worker \in [Worker -> Seq(DownMsg)] /\ to_worker[w] \in Seq(DownMsg)
    BY <1>0, <1>1, LoopTypes
  <2>2. to_worker'[w] = Append(to_worker[w], m)
    BY <1>1, <2>1
  <2>3. ToSet(Append(to_worker[w], m)) = ToSet(to_worker[w]) \cup {m}
    BY <1>3, <2>1, DownAppend
  <2> QED BY <1>1, <2>1, <2>2, <2>3
<1>5. \A v \in Worker, x \in Task : Ordered(v, x)' <=> Ordered(v, x) \/ (v = w /\ x = t)
  <2> SUFFICES ASSUME NEW v \in Worker, NEW x \in Task
               PROVE  Ordered(v, x)' <=> Ordered(v, x) \/ (v = w /\ x = t)
    OBVIOUS
  <2>1. Down("COMMAND", x)' = Down("COMMAND", x) /\ (Down("COMMAND", x) = m <=> x = t)
    BY <1>a DEF Down
  <2> QED BY <1>4, <2>1 DEF Ordered
<1>6. /\ offered \in [Worker -> Int] /\ offered[w] \in Int /\ offered'[w] = offered[w] - 1
      /\ \A v \in Worker : v # w => offered'[v] = offered[v]
  BY <1>0, <1>1, LoopTypes
<1>7. Balance(w)' = Balance(w)
  <2>1. /\ \A x : x \in HandedTo(w) <=> x \in Task /\ (host[x] = w \/ Ordered(w, x))
        /\ IsFiniteSet(HandedTo(w)) /\ Cardinality(HandedTo(w)) \in Nat
        /\ to_report[w] \in Int /\ capacity[w] \in Int /\ AmountOf(to_runtime[w]) \in Int
    BY <1>0, <1>1, AccountAlways DEF AccountFacts
  <2>2. \A x : x \in HandedTo(w)' <=> x \in Task /\ (host'[x] = w \/ Ordered(w, x)')
    BY <1>0, <1>1, AccountNext DEF AccountFacts
  <2>3. HandedTo(w)' = HandedTo(w) \cup {t} /\ t \notin HandedTo(w)
    BY <1>0, <1>1, <1>2, <1>5, <2>1, <2>2
  <2>4. Cardinality(HandedTo(w)') = Cardinality(HandedTo(w)) + 1
    <3>1. Cardinality(HandedTo(w) \cup {t}) = Cardinality(HandedTo(w)) + 1
      BY <2>1, <2>3, FS_AddElement
    <3> QED BY <2>3, <3>1, Zenon
  <2>5. /\ Balance(w) = offered[w] + (to_report[w] + AmountOf(to_runtime[w])) - capacity[w]
                          + Cardinality(HandedTo(w))
        /\ Balance(w)' = offered'[w] + (to_report'[w] + AmountOf(to_runtime'[w])) - capacity'[w]
                           + Cardinality(HandedTo(w)')
    BY DEF Balance, ReportedBy
  <2>6. to_report'[w] = to_report[w] /\ to_runtime'[w] = to_runtime[w] /\ capacity'[w] = capacity[w]
    BY <1>1
  <2> QED BY <1>6, <2>1, <2>4, <2>5, <2>6
<1>8. ASSUME NEW v \in Worker, v # w PROVE Balance(v)' = Balance(v)
  BY <1>0, <1>1, <1>5, <1>6, <1>8, BalanceSame
<1>9. AmountInv'
  BY <1>1 DEF AmountInv
<1> QED BY <1>1, <1>7, <1>8, <1>9 DEF Balanced, AccountKept

(* A turn says of its capacity what it changes.                            *)
LEMMA TurnAccount ==
  ASSUME EventLoopsInv, EventLoopsInv', AmountInv, NEW w \in Worker, NEW queue, NEW quit,
         Looping(w), QueueReady(w, queue), Turn(w, queue, quit),
         IF quit THEN quit_loop' = [quit_loop EXCEPT ![w] = TRUE] ELSE quit_loop' = quit_loop,
         \A v \in Worker, t \in Task :
           (host'[t] = v \/ Ordered(v, t)') <=> (host[t] = v \/ Ordered(v, t))
  PROVE  Balanced
<1>0. EventLoopsTypeOK /\ EventLoopsTypeOK'
  BY DEF EventLoopsInv
<1>1. /\ to_runtime' = to_runtime /\ offered' = offered
      /\ to_report[w] = 0 /\ ~quit_loop[w]
  BY DEF QueueReady, poolVars, Looping
<1>a. PICK a : a = Available(w) - Taken(queue, Available(w))
  OBVIOUS
<1>2. /\ capacity' = [capacity EXCEPT ![w] = a]
      /\ to_report' = [to_report EXCEPT ![w] = IF quit THEN 0 ELSE a - capacity[w]]
  BY <1>a DEF Turn
<1>3. /\ capacity \in [Worker -> Int] /\ to_report \in [Worker -> Int]
      /\ quit_loop \in [Worker -> BOOLEAN]
  BY <1>0, LoopTypes
<1>4. /\ \A v \in Worker : v # w => capacity'[v] = capacity[v] /\ to_report'[v] = to_report[v]
      /\ capacity'[w] = a /\ to_report'[w] = IF quit THEN 0 ELSE a - capacity[w]
  BY <1>2, <1>3
<1>5. a \in Int
  BY <1>0, <1>4, AccountNext DEF AccountFacts
<1>6. ASSUME NEW v \in Worker PROVE AccountKept(v)
  <2>1. /\ offered[v] \in Int /\ AmountOf(to_runtime[v]) \in Int /\ capacity[v] \in Int
        /\ to_report[v] \in Int
    BY <1>0, BalanceTypes
  <2>2. CASE v = w /\ quit
    BY <1>3, <2>2 DEF AccountKept
  <2>3. CASE v # w \/ ~quit
    <3>1. offered'[v] + to_report'[v] + AmountOf(to_runtime'[v]) - capacity'[v]
            = offered[v] + to_report[v] + AmountOf(to_runtime[v]) - capacity[v]
      <4>1. CASE v # w
        BY <1>1, <1>4, <4>1
      <4>2. CASE v = w /\ ~quit
        BY <1>1, <1>4, <1>5, <2>1, <4>2
      <4> QED BY <2>3, <4>1, <4>2
    <3>2. Balance(v)' = Balance(v)
      BY <1>0, <3>1, BalanceSame
    <3>3. quit_loop'[v] = quit_loop[v]
      BY <1>3, <2>3
    <3> QED BY <3>2, <3>3 DEF AccountKept
  <2> QED BY <2>2, <2>3
<1>7. AmountInv'
  BY <1>1 DEF AmountInv
<1> QED BY <1>6, <1>7 DEF Balanced

(* A turn takes a task over from the channel, and loses none.              *)
LEMMA TurnHanded ==
  ASSUME EventLoopsInv, NEW w \in Worker,
         turn(w) \/ turn_run_task(w) \/ turn_wakeup(w) \/ turn_shutdown(w)
  PROVE  \A v \in Worker, t \in Task :
           (host'[t] = v \/ Ordered(v, t)') <=> (host[t] = v \/ Ordered(v, t))
<1>0. EventLoopsTypeOK /\ OrderInv /\ 0 \notin Worker
  BY LoopTypes DEF EventLoopsInv
<1>1. CASE turn(w)
  BY <1>1 DEF turn, Ordered, Down
<1>2. CASE turn_run_task(w) \/ turn_wakeup(w) \/ turn_shutdown(w)
  <2>m. PICK m, t : m = Head(to_worker[w]) /\ t = m.task
    OBVIOUS
  <2>1. /\ to_worker \in [Worker -> Seq(DownMsg)] /\ to_worker[w] \in Seq(DownMsg)
        /\ to_worker[w] # << >> /\ OnceEach(to_worker[w])
        /\ to_worker' = [to_worker EXCEPT ![w] = Tail(to_worker[w])]
        /\ host \in [Task -> Worker \cup {0}]
    BY <1>0, <1>2, LoopTypes DEF turn_run_task, turn_wakeup, turn_shutdown, Received, OrderInv
  <2>2. /\ m \in DownMsg /\ t \in Task /\ m = Down(m.tag, t)
        /\ ToSet(to_worker[w]) = ToSet(Tail(to_worker[w])) \cup {m}
        /\ m.tag # "SHUTDOWN" => m \notin ToSet(Tail(to_worker[w]))
    BY <2>m, <2>1, TailFacts, DownTail, MessageNames
  <2>3. /\ to_worker'[w] = Tail(to_worker[w])
        /\ \A v \in Worker : v # w => to_worker'[v] = to_worker[v]
    BY <2>1
  <2>4. CASE turn_wakeup(w) \/ turn_shutdown(w)
    <3>1. host' = host /\ m.tag # "COMMAND"
      BY <2>m, <2>4 DEF turn_wakeup, turn_shutdown, Received
    <3>2. \A x \in Task : Down("COMMAND", x) # m
      BY <3>1, MessageNames DEF DownTag
    <3>3. \A v \in Worker, x \in Task : Ordered(v, x)' <=> Ordered(v, x)
      BY <2>2, <2>3, <3>2 DEF Ordered, Down
    <3> QED BY <3>1, <3>3
  <2>5. CASE turn_run_task(w)
    <3>1. host' = [host EXCEPT ![t] = w] /\ m.tag = "COMMAND"
      BY <2>m, <2>5 DEF turn_run_task, Received
    <3>2. \A x \in Task : Down("COMMAND", x) = m <=> x = t
      BY <2>2, <3>1 DEF Down
    <3>3. Ordered(w, t)
      BY <2>2, <3>1 DEF Ordered
    <3>4. host[t] = 0 /\ \A v \in Worker : Ordered(v, t) => v = w
      BY <1>0, <2>2, <3>3 DEF OrderInv
    <3>5. \A v \in Worker, x \in Task : Ordered(v, x)' <=> Ordered(v, x) /\ (v # w \/ x # t)
      BY <2>2, <2>3, <3>1, <3>2 DEF Ordered, Down
    <3>6. host'[t] = w /\ \A x \in Task : x # t => host'[x] = host[x]
      BY <2>1, <2>2, <3>1
    <3> QED BY <1>0, <3>3, <3>4, <3>5, <3>6
  <2> QED BY <1>2, <2>4, <2>5
<1> QED BY <1>1, <1>2

(* So no turn of a worker that goes on changes its balance.                *)
LEMMA TurnsAccount ==
  ASSUME EventLoopsInv, EventLoopsInv', AmountInv, NEW w \in Worker,
         turn(w) \/ turn_run_task(w) \/ turn_wakeup(w) \/ turn_shutdown(w)
  PROVE  Balanced
<1>1. \A v \in Worker, t \in Task :
        (host'[t] = v \/ Ordered(v, t)') <=> (host[t] = v \/ Ordered(v, t))
  BY TurnHanded
<1>2. \E queue, quit :
        /\ Looping(w) /\ QueueReady(w, queue) /\ Turn(w, queue, quit)
        /\ IF quit THEN quit_loop' = [quit_loop EXCEPT ![w] = TRUE] ELSE quit_loop' = quit_loop
  <2>1. CASE turn(w) \/ turn_shutdown(w)
    <3>1. QueueReady(w, runnable_tasks[w])
      BY <2>1, QuietTurn
    <3> QED BY <2>1, <3>1 DEF turn, turn_shutdown, Received
  <2>2. CASE turn_run_task(w) \/ turn_wakeup(w)
    <3>t. PICK t : t = Head(to_worker[w]).task
      OBVIOUS
    <3>1. QueueReady(w, Append(runnable_tasks[w], t))
      BY <2>2, <3>t, BusyTurn
    <3>2. /\ Looping(w) /\ Turn(w, Append(runnable_tasks[w], t), FALSE)
          /\ quit_loop' = quit_loop
      BY <2>2, <3>t DEF turn_run_task, turn_wakeup, Received
    <3> QED BY <3>1, <3>2
  <2> QED BY <2>1, <2>2
<1> QED BY <1>1, <1>2, TurnAccount

(* A message sent moves an amount from the report to be sent to the        *)
(* channel; one of a thread carries none.                                  *)
LEMMA SentAccount ==
  ASSUME EventLoopsInv, EventLoopsInv', AmountInv, NEW w \in Worker, NEW m \in UpMsg,
         to_runtime' = [to_runtime EXCEPT ![w] = Append(@, m)],
         to_report'[w] = to_report[w] - m.amount, Speaks(m) => m.amount = 0,
         \A v \in Worker : v # w => to_report'[v] = to_report[v],
         offered' = offered, capacity' = capacity, quit_loop' = quit_loop, host' = host,
         to_worker' = to_worker
  PROVE  Balanced
<1>0. EventLoopsTypeOK /\ EventLoopsTypeOK' /\ to_runtime \in [Worker -> Seq(UpMsg)]
  BY LoopTypes DEF EventLoopsInv
<1>1. /\ to_runtime[w] \in Seq(UpMsg) /\ to_runtime'[w] = Append(to_runtime[w], m)
      /\ \A v \in Worker : v # w => to_runtime'[v] = to_runtime[v]
  BY <1>0
<1>2. /\ AmountOf(to_runtime[w]) \in Int
      /\ AmountOf(Append(to_runtime[w], m)) = AmountOf(to_runtime[w]) + m.amount
  BY <1>1, AmountAppend
<1>3. ASSUME NEW v \in Worker PROVE AccountKept(v)
  <2>1. /\ offered[v] \in Int /\ to_report[v] \in Int /\ capacity[v] \in Int
        /\ AmountOf(to_runtime[v]) \in Int /\ m.amount \in Int
    BY <1>0, BalanceTypes, MessageNames
  <2>2. offered'[v] + to_report'[v] + AmountOf(to_runtime'[v]) - capacity'[v]
          = offered[v] + to_report[v] + AmountOf(to_runtime[v]) - capacity[v]
    <3>1. CASE v = w
      BY <1>1, <1>2, <2>1, <3>1
    <3>2. CASE v # w
      BY <1>1, <3>2
    <3> QED BY <3>1, <3>2
  <2>3. \A t \in Task : (host'[t] = v \/ Ordered(v, t)') <=> (host[t] = v \/ Ordered(v, t))
    BY DEF Ordered, Down
  <2> QED BY <1>0, <2>2, <2>3, BalanceSame DEF AccountKept
<1>4. AmountInv'
  <2>1. ToSet(Append(to_runtime[w], m)) = ToSet(to_runtime[w]) \cup {m}
    BY <1>1, AppendFacts
  <2> SUFFICES ASSUME NEW v \in Worker, NEW x \in ToSet(to_runtime'[v]), Speaks(x)
               PROVE  x.amount = 0
    BY DEF AmountInv, Speaks
  <2>2. x \in ToSet(to_runtime[v]) \/ x = m
    BY <1>1, <2>1
  <2> QED BY <2>2 DEF AmountInv
<1> QED BY <1>3, <1>4 DEF Balanced

(* What a thread does, and says, leaves every balance alone,               *)
LEMMA ThreadAccount ==
  ASSUME EventLoopsInv, EventLoopsInv', AmountInv, NEW t \in Task, ThreadStep(t)
  PROVE  Balanced
<1>0. /\ EventLoopsTypeOK /\ PlaceInv /\ host \in [Task -> Worker \cup {0}]
      /\ to_report \in [Worker -> Int]
  BY LoopTypes DEF EventLoopsInv
<1>1. ASSUME NEW tag \in UpTag, Tell(t, tag), thread[t] # "none",
             UNCHANGED <<poolVars, to_worker, capacity, to_report, quit_loop, host>>
      PROVE  Balanced
  <2>1. host[t] \in Worker
    BY <1>0, <1>1 DEF PlaceInv
  <2>2. PICK w, m : w = host[t] /\ m = Up(tag, t, 0)
    OBVIOUS
  <2>3. m \in UpMsg /\ m.amount = 0
    BY <2>2, MessageNames
  <2>4. to_report'[w] = to_report[w] - m.amount
    BY <1>0, <1>1, <2>1, <2>2, <2>3
  <2>5. to_runtime' = [to_runtime EXCEPT ![w] = Append(@, m)]
    BY <1>1, <2>2 DEF Tell
  <2>6. w \in Worker /\ offered' = offered
    BY <1>1, <2>1, <2>2 DEF poolVars
  <2> QED BY <1>1, <2>3, <2>4, <2>5, <2>6, SentAccount
<1>2. ASSUME UNCHANGED <<poolVars, to_runtime, to_worker, capacity, to_report, quit_loop, host>>
      PROVE  Balanced
  <2>1. \A v \in Worker, x \in Task :
          (host'[x] = v \/ Ordered(v, x)') <=> (host[x] = v \/ Ordered(v, x))
    BY <1>2 DEF Ordered, Down
  <2> QED BY <1>2, <2>1, QuietAccount DEF poolVars
<1>3. CASE handle_create(t) \/ handle_finish(t)
  <2>1. \E tag \in UpTag : Tell(t, tag) /\ thread[t] # "none"
    BY <1>3 DEF handle_create, handle_finish, UpTag
  <2>2. UNCHANGED <<poolVars, to_worker, capacity, to_report, quit_loop, host>>
    BY <1>3 DEF handle_create, handle_finish, loopVars
  <2> QED BY <1>1, <2>1, <2>2
<1>4. ASSUME NEW kind \in {"taskwait", "allwait"}, NEW tag \in UpTag, tell_wait(t, kind, tag)
      PROVE  Balanced
  BY <1>1, <1>4 DEF tell_wait
<1>5. ASSUME NEW kind, suspend(t, kind) PROVE Balanced
  BY <1>2, <1>5 DEF suspend
<1>6. CASE continue(t) \/ set_finish_flag(t)
  BY <1>2, <1>6 DEF continue, set_finish_flag
<1>7. "WAITTASK" \in UpTag /\ "WAITALL" \in UpTag
  BY DEF UpTag
<1> QED BY <1>3, <1>4, <1>5, <1>6, <1>7 DEF ThreadStep

(* and so does what the runtime process hears and does otherwise.          *)
LEMMA RuntimeAccount ==
  ASSUME EventLoopsInv, EventLoopsInv', AmountInv, RuntimeStep
  PROVE  Balanced
<1>0. /\ EventLoopsTypeOK /\ TreeInv /\ to_worker \in [Worker -> Seq(DownMsg)]
  BY LoopTypes DEF EventLoopsInv
<1>1. ASSUME NEW w \in Worker, NEW tag \in {"CREATE", "WAITTASK", "WAITALL"},
             Incoming(w, tag), offered' = offered, to_worker' = to_worker, UNCHANGED loopVars
      PROVE  Balanced
  <2>1. \A v \in Worker, x \in Task : Ordered(v, x)' <=> Ordered(v, x)
    BY <1>1 DEF Ordered, Down
  <2> QED BY <1>1, <2>1, HeardAccount DEF loopVars, UpTag
<1>2. ASSUME NEW w \in Worker, receive_create(w) \/ receive_taskwait(w) \/ receive_allwait(w)
      PROVE  Balanced
  BY <1>1, <1>2 DEF receive_create, receive_taskwait, receive_allwait, handle_create_task,
                    handle_wait_message, poolVars
<1>3. ASSUME NEW w \in Worker, receive_finish(w) PROVE Balanced
  <2>m. PICK m, t : m = Head(to_runtime[w]) /\ t = m.task
    OBVIOUS
  <2>1. /\ Incoming(w, "COMMAND") /\ offered' = offered /\ UNCHANGED loopVars
        /\ to_worker' = [v \in Worker |-> to_worker[v] \o WakeupsTo(v, t)]
    BY <1>3, <2>m DEF receive_finish, handle_finish_task, poolVars
  <2>2. "COMMAND" \in UpTag
    BY DEF UpTag
  <2>3. t \in Task
    BY <2>1, <2>2, <2>m, IncomingFacts
  <2>4. ASSUME NEW v \in Worker, NEW x \in Task PROVE Ordered(v, x)' <=> Ordered(v, x)
    <3>1. /\ WakeupsTo(v, t) \in Seq(DownMsg)
          /\ \A y \in ToSet(WakeupsTo(v, t)) : \E a \in Woken(t) : y = Down("WAKEUPTASK", a)
      BY <1>0, <2>3, WakeupFacts
    <3>2. Down("COMMAND", x) \notin ToSet(WakeupsTo(v, t))
      BY <3>1 DEF Down
    <3>3. to_worker'[v] = to_worker[v] \o WakeupsTo(v, t) /\ to_worker[v] \in Seq(DownMsg)
      BY <1>0, <2>1
    <3>4. ToSet(to_worker'[v]) = ToSet(to_worker[v]) \cup ToSet(WakeupsTo(v, t))
      BY <3>1, <3>3, DownConcat
    <3> QED BY <3>2, <3>4 DEF Ordered, Down
  <2> QED BY <2>1, <2>2, <2>4, HeardAccount DEF loopVars
<1>4. CASE receive_nothing
  <2>1. \A v \in Worker, x \in Task :
          (host'[x] = v \/ Ordered(v, x)') <=> (host[x] = v \/ Ordered(v, x))
    BY <1>4 DEF receive_nothing, loopVars, Ordered, Down
  <2> QED BY <1>4, <2>1, QuietAccount DEF receive_nothing, poolVars, loopVars
<1>5. CASE shutdown
  <2>m. PICK m : m = Down("SHUTDOWN", Root)
    OBVIOUS
  <2>1. m \in DownMsg /\ \A x \in Task : Down("COMMAND", x) # m
    BY <2>m, CreatedTasks, <1>0, MessageNames DEF DownTag, Down
  <2>2. ASSUME NEW v \in Worker, NEW x \in Task PROVE Ordered(v, x)' <=> Ordered(v, x)
    <3>1. to_worker'[v] = Append(to_worker[v], m) /\ to_worker[v] \in Seq(DownMsg)
      BY <1>0, <1>5, <2>m DEF shutdown
    <3>2. ToSet(to_worker'[v]) = ToSet(to_worker[v]) \cup {m}
      BY <2>1, <3>1, DownAppend
    <3> QED BY <2>1, <3>2 DEF Ordered, Down
  <2>3. /\ UNCHANGED <<poolVars, to_runtime, loopVars>>
    BY <1>5 DEF shutdown
  <2> QED BY <2>2, <2>3, QuietAccount DEF poolVars, loopVars
<1> QED BY <1>2, <1>3, <1>4, <1>5, CapacityAccount, RunAccount DEF RuntimeStep

(* Every step keeps the balance of the workers that go on.                 *)
LEMMA AccountStep ==
  ASSUME EventLoopsInv, EventLoopsInv', AmountInv, [Next]_vars
  PROVE  Balanced
<1>1. CASE UNCHANGED vars
  <2>1. UNCHANGED <<poolVars, to_runtime, to_worker, loopVars>>
    BY <1>1 DEF vars
  <2>2. \A v \in Worker, x \in Task :
          (host'[x] = v \/ Ordered(v, x)') <=> (host[x] = v \/ Ordered(v, x))
    BY <2>1 DEF loopVars, Ordered, Down
  <2> QED BY <2>1, <2>2, QuietAccount DEF poolVars, loopVars
<1>2. ASSUME NEW w \in Worker, report_free_capacity(w) PROVE Balanced
  <2>0. EventLoopsTypeOK /\ TreeInv /\ to_report \in [Worker -> Int]
    BY LoopTypes DEF EventLoopsInv
  <2>m. PICK m : m = Up("FREECAPACITY", Root, to_report[w])
    OBVIOUS
  <2>1. m \in UpMsg /\ m.tag = "FREECAPACITY" /\ m.amount = to_report[w]
    <3>1. Root \in Task /\ to_report[w] \in Int /\ "FREECAPACITY" \in UpTag
      BY <2>0, CreatedTasks DEF UpTag
    <3> QED BY <2>m, <3>1, MessageNames
  <2>2. /\ to_report'[w] = to_report[w] - m.amount
        /\ \A v \in Worker : v # w => to_report'[v] = to_report[v]
    <3>1. to_report' = [to_report EXCEPT ![w] = 0]
      BY <1>2 DEF report_free_capacity
    <3> QED BY <2>0, <2>1, <3>1
  <2>3. ~Speaks(m)
    BY <2>1 DEF Speaks
  <2>4. /\ to_runtime' = [to_runtime EXCEPT ![w] = Append(@, m)]
        /\ UNCHANGED <<poolVars, to_worker, capacity, quit_loop, host>>
    BY <1>2, <2>m DEF report_free_capacity
  <2> QED BY <2>1, <2>2, <2>3, <2>4, SentAccount DEF poolVars
<1> QED BY <1>1, <1>2, RuntimeAccount, TurnsAccount, ThreadAccount DEF Next, WorkerStep

(* Nothing was handed out or reported when the program starts.             *)
LEMMA AccountStart ==
  ASSUME Init, NEW w \in Worker
  PROVE  Balance(w) = 0 /\ AmountInv
<1>0. EventLoopsTypeOK
  BY EventLoopsStart DEF EventLoopsInv
<1>1. /\ to_runtime[w] = << >> /\ to_worker[w] = << >> /\ capacity[w] = Capacity
      /\ offered[w] = Capacity /\ to_report[w] = 0 /\ \A t \in Task : host[t] = 0
      /\ \A v \in Worker : to_runtime[v] = << >>
  BY DEF Init, WaitTreeInit
<1>2. HandedTo(w) = {}
  <2>1. ~ \E t \in Task : host[t] = w \/ Ordered(w, t)
    BY <1>1, WorkerAssumption DEF Ordered, ToSet
  <2> QED BY <1>0, <2>1, HandedFacts
<1>3. AmountOf(<< >>) = 0
  <2>1. << >> \in Seq(UpMsg) /\ Len(<< >>) = 0
    OBVIOUS
  <2> QED BY <2>1, AmountSums
<1>4. Cardinality(HandedTo(w)) = 0
  BY <1>2, FS_EmptySet
<1>5. capacity[w] \in Int
  BY <1>0, LoopTypes
<1>6. Balance(w) = 0
  BY <1>1, <1>3, <1>4, <1>5 DEF Balance, ReportedBy
<1>7. AmountInv
  BY <1>1 DEF AmountInv, ToSet
<1> QED BY <1>6, <1>7

(* The account the runtime process keeps of a worker is what the worker    *)
(* has left, reports under way included, less one for every task it was    *)
(* ever handed: the drift is exactly that of counting each task twice.     *)
THEOREM AccountTheorem == Spec => []AccountDrifts
<1> DEFINE Inv == /\ EventLoopsInv /\ AmountInv
                  /\ \A w \in Worker : ~quit_loop[w] => Balance(w) = 0
<1>1. Init => Inv
  <2>1. Init => AmountInv
    BY DEF Init, AmountInv, ToSet
  <2> QED BY <2>1, EventLoopsStart, AccountStart
<1>2. Inv /\ [Next]_vars => Inv'
  <2> SUFFICES ASSUME Inv, [Next]_vars PROVE Inv'
    OBVIOUS
  <2>1. EventLoopsInv'
    BY EventLoopsKept
  <2>2. Balanced
    BY <2>1, AccountStep
  <2> QED BY <2>1, <2>2 DEF Balanced, AccountKept
<1>3. Inv => AccountDrifts
  <2> SUFFICES ASSUME Inv, NEW w \in Worker, ~quit_loop[w]
               PROVE  offered[w] + ReportedBy(w) = capacity[w] - Cardinality(HandedTo(w))
    BY DEF AccountDrifts
  <2>1. /\ offered[w] \in Int /\ to_report[w] \in Int /\ capacity[w] \in Int
        /\ AmountOf(to_runtime[w]) \in Int /\ Cardinality(HandedTo(w)) \in Nat
    BY BalanceTypes DEF EventLoopsInv
  <2>2. Balance(w) = 0
    OBVIOUS
  <2> QED BY <2>1, <2>2 DEF Balance, ReportedBy
<1> QED BY <1>1, <1>2, <1>3, PTL DEF Spec
===============================================================================
