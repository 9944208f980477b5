---------------------------- MODULE NetworkProofs ----------------------------
(***************************************************************************)
(* What sends and receives do to the channels of Network: facts about      *)
(* sequences of messages from which one of a given tag is taken out, and   *)
(* about what the protocol of task creation asks of them.                  *)
(***************************************************************************)
EXTENDS Network, FiniteSetTheorems, SequenceTheorems, WellFoundedInduction, TLAPS

(* Every nonempty set of naturals has a least element.  (The induction     *)
(* theorems take operators; this follows from finite sets being well       *)
(* founded.)                                                               *)
LEMMA LeastNatural ==
  ASSUME NEW T \in SUBSET Nat, T # {}
  PROVE  \E x \in T : \A y \in T : x <= y
<1> DEFINE F == {0 .. n : n \in T}
<1>1. IsWellFoundedOn(StrictSubsetOrdering(Nat), FiniteSubsetsOf(Nat))
  BY FS_StrictSubsetOrderingWellFounded
<1>2. F \subseteq FiniteSubsetsOf(Nat) /\ F # {}
  <2>1. \A n \in T : IsFiniteSet(0 .. n) /\ 0 .. n \in SUBSET Nat
    BY FS_Interval
  <2> QED BY <2>1 DEF FiniteSubsetsOf
<1>3. \E x \in F : \A y \in F : <<y, x>> \notin StrictSubsetOrdering(Nat)
  BY <1>1, <1>2, WFMin, Zenon
<1>4. PICK m \in T : \A y \in F : <<y, 0 .. m>> \notin StrictSubsetOrdering(Nat)
  BY <1>3
<1>5. \A y \in T : ~(y < m)
  <2> SUFFICES ASSUME NEW y \in T, y < m PROVE FALSE
    OBVIOUS
  <2>1. 0 .. y \subseteq 0 .. m /\ 0 .. y # 0 .. m /\ 0 .. y \in SUBSET Nat /\ 0 .. m \in SUBSET Nat
    <3>1. m \in 0 .. m /\ m \notin 0 .. y
      OBVIOUS
    <3> QED BY <3>1
  <2>2. <<0 .. y, 0 .. m>> \in StrictSubsetOrdering(Nat)
    BY <2>1, SMT DEF StrictSubsetOrdering
  <2> QED BY <1>4, <2>2
<1> QED BY <1>5

------------------------------------------------------------------------------
(* The sequence q without its element at i.                                *)
RemoveAt(q, i) == SubSeq(q, 1, i - 1) \o SubSeq(q, i + 1, Len(q))

(* Without the element at i, what was before it stays and what was behind  *)
(* moves up by one.                                                        *)
LEMMA RemoveElement ==
  ASSUME NEW q \in Seq(Message), NEW i \in 1 .. Len(q)
  PROVE  /\ RemoveAt(q, i) \in Seq(Message)
         /\ Len(RemoveAt(q, i)) = Len(q) - 1
         /\ \A j \in 1 .. Len(q) - 1 :
              RemoveAt(q, i)[j] = IF j < i THEN q[j] ELSE q[j + 1]
<1> DEFINE a == SubSeq(q, 1, i - 1)
           b == SubSeq(q, i + 1, Len(q))
<1>0. Len(q) \in Nat
  OBVIOUS
<1>1. /\ a \in Seq(Message) /\ Len(a) = i - 1
      /\ \A j \in 1 .. i - 1 : a[j] = q[j]
  <2>1. \A j \in 1 .. i - 1 : q[j] \in Message
    BY <1>0, ElementOfSeq
  <2>2. 1 \in Int /\ i - 1 \in Int
    OBVIOUS
  <2>3. /\ a \in Seq(Message)
        /\ Len(a) = IF 1 <= i - 1 THEN i - 1 - 1 + 1 ELSE 0
        /\ \A j \in 1 .. i - 1 - 1 + 1 : a[j] = q[1 + j - 1]
    BY <2>1, <2>2, SubSeqProperties
  <2> QED BY <2>3
<1>2. /\ b \in Seq(Message) /\ Len(b) = Len(q) - i
      /\ \A j \in 1 .. Len(q) - i : b[j] = q[i + j]
  <2>1. \A j \in i + 1 .. Len(q) : q[j] \in Message
    BY <1>0, ElementOfSeq
  <2>2. i + 1 \in Int /\ Len(q) \in Int
    BY <1>0
  <2>3. /\ b \in Seq(Message)
        /\ Len(b) = IF i + 1 <= Len(q) THEN Len(q) - (i + 1) + 1 ELSE 0
        /\ \A j \in 1 .. Len(q) - (i + 1) + 1 : b[j] = q[i + 1 + j - 1]
    BY <2>1, <2>2, SubSeqProperties
  <2> QED BY <2>3, <1>0
<1> HIDE DEF a, b
<1>3. /\ a \o b \in Seq(Message)
      /\ Len(a \o b) = Len(q) - 1
      /\ \A j \in 1 .. Len(q) - 1 : (a \o b)[j] = IF j <= i - 1 THEN a[j] ELSE b[j - (i - 1)]
  <2>1. /\ a \o b \in Seq(Message)
        /\ Len(a \o b) = Len(a) + Len(b)
        /\ \A j \in 1 .. Len(a) + Len(b) :
             (a \o b)[j] = IF j <= Len(a) THEN a[j] ELSE b[j - Len(a)]
    BY <1>1, <1>2, ConcatProperties
  <2>2. Len(a) + Len(b) = Len(q) - 1
    BY <1>0, <1>1, <1>2
  <2> QED BY <1>1, <2>1, <2>2
<1>4. ASSUME NEW j \in 1 .. Len(q) - 1
      PROVE  (a \o b)[j] = IF j < i THEN q[j] ELSE q[j + 1]
  <2>1. CASE j < i
    BY <2>1, <1>0, <1>1, <1>3
  <2>2. CASE ~(j < i)
    <3>1. (a \o b)[j] = b[j - (i - 1)] /\ j - (i - 1) \in 1 .. Len(q) - i
      BY <2>2, <1>0, <1>3
    <3>2. b[j - (i - 1)] = q[i + (j - (i - 1))]
      BY <3>1, <1>2
    <3>3. i + (j - (i - 1)) = j + 1
      BY <1>0
    <3> QED BY <3>1, <3>2, <3>3, <2>2
  <2> QED BY <2>1, <2>2
<1>5. RemoveAt(q, i) = a \o b
  BY DEF RemoveAt, a, b
<1> QED BY <1>3, <1>4, <1>5

(* What a receive matches, and what it leaves in the channel.              *)
LEMMA FirstMatch ==
  ASSUME NetworkTypeOK, NEW s \in Node, NEW d \in Node, NEW tag, Arrived(s, d, tag)
  PROVE  \E i \in 1 .. Len(net[<<s, d>>]) :
           /\ FirstIndex(s, d, tag) = i
           /\ net[<<s, d>>][i].tag = tag
           /\ \A j \in 1 .. Len(net[<<s, d>>]) : net[<<s, d>>][j].tag = tag => i <= j
           /\ Matched(s, d, tag) = net[<<s, d>>][i]
           /\ Without(s, d, tag) = RemoveAt(net[<<s, d>>], i)
<1> DEFINE q == net[<<s, d>>]
<1>1. q \in Seq(Message)
  BY DEF NetworkTypeOK
<1>2. Tagged(s, d, tag) \in SUBSET Nat /\ Tagged(s, d, tag) # {}
  BY <1>1 DEF Tagged, Arrived
<1>3. \E i \in Tagged(s, d, tag) : \A j \in Tagged(s, d, tag) : i <= j
  BY <1>2, LeastNatural
<1>4. /\ FirstIndex(s, d, tag) \in Tagged(s, d, tag)
      /\ \A j \in Tagged(s, d, tag) : FirstIndex(s, d, tag) <= j
  BY <1>3 DEF FirstIndex
<1> QED BY <1>4 DEF Tagged, Matched, Without, RemoveAt

------------------------------------------------------------------------------
(* The messages in a channel, and those the life of a task hangs on, which *)
(* must not be there twice.                                                *)
InChannel(q) == {q[i] : i \in 1 .. Len(q)}

Counted == {"CREATE_TASK", "FINISH_TASK", "RUN_TASK"}
CountedIn(q) == {m \in InChannel(q) : m.tag \in Counted}

SameSubject(m, n) == m.tag = n.tag /\ m.part = n.part /\ m.task = n.task

NoneTwice(q) ==
  \A i, j \in 1 .. Len(q) : q[i].tag \in Counted /\ SameSubject(q[i], q[j]) => i = j

(* An acknowledgement is received before a request that was sent later.    *)
IsAck(m) == m.tag = "CREATE_TASK" /\ m.part = "ack"
IsRequest(m) == m.tag = "CREATE_TASK" /\ m.part # "ack"

AckFirst(q) == \A i, j \in 1 .. Len(q) : IsAck(q[i]) /\ IsRequest(q[j]) => i < j

Ordered(q) == NoneTwice(q) /\ AckFirst(q)

(* A change of the channel q to r that none of this can see.               *)
Unseen(q, r) == CountedIn(r) = CountedIn(q) /\ (Ordered(q) => Ordered(r))

(* A message appended to a channel: what the channel holds, and when it    *)
(* stays ordered.                                                          *)
LEMMA AppendOne ==
  ASSUME NEW q \in Seq(Message), NEW m \in Message
  PROVE  /\ Append(q, m) \in Seq(Message)
         /\ InChannel(Append(q, m)) = InChannel(q) \cup {m}
         /\ CountedIn(Append(q, m)) =
              CountedIn(q) \cup (IF m.tag \in Counted THEN {m} ELSE {})
         /\ Ordered(q)
            /\ (m.tag \in Counted => \A x \in CountedIn(q) : ~SameSubject(x, m))
            /\ (IsAck(m) => \A x \in CountedIn(q) : ~IsRequest(x))
            => Ordered(Append(q, m))
         /\ m.tag \notin Counted => Unseen(q, Append(q, m))
<1> DEFINE r == Append(q, m)
<1>1. /\ r \in Seq(Message) /\ Len(q) \in Nat /\ Len(r) = Len(q) + 1
      /\ \A i \in 1 .. Len(q) : r[i] = q[i]
      /\ r[Len(q) + 1] = m
  BY AppendProperties
<1> HIDE DEF r
<1>2. InChannel(r) = InChannel(q) \cup {m}
  <2>1. \A i \in 1 .. Len(r) : i \in 1 .. Len(q) \/ i = Len(q) + 1
    BY <1>1
  <2>2. \A i \in 1 .. Len(q) : i \in 1 .. Len(r)
    BY <1>1
  <2>3. Len(q) + 1 \in 1 .. Len(r)
    BY <1>1
  <2> QED BY <1>1, <2>1, <2>2, <2>3 DEF InChannel
<1>3. CountedIn(r) = CountedIn(q) \cup (IF m.tag \in Counted THEN {m} ELSE {})
  BY <1>2 DEF CountedIn
<1>4. ASSUME Ordered(q), m.tag \in Counted => \A x \in CountedIn(q) : ~SameSubject(x, m),
             IsAck(m) => \A x \in CountedIn(q) : ~IsRequest(x)
      PROVE  Ordered(r)
  <2>1. \A i \in 1 .. Len(r) : i \in 1 .. Len(q) \/ i = Len(q) + 1
    BY <1>1
  <2>2. \A i \in 1 .. Len(q) : q[i].tag \in Counted => q[i] \in CountedIn(q)
    BY DEF CountedIn, InChannel
  <2>3. NoneTwice(r)
    <3> SUFFICES ASSUME NEW i \in 1 .. Len(r), NEW j \in 1 .. Len(r),
                        r[i].tag \in Counted, SameSubject(r[i], r[j])
                 PROVE  i = j
      BY DEF NoneTwice
    <3>1. CASE i \in 1 .. Len(q) /\ j \in 1 .. Len(q)
      BY <3>1, <1>1, <1>4 DEF Ordered, NoneTwice
    <3>2. CASE i \in 1 .. Len(q) /\ j = Len(q) + 1
      BY <3>2, <1>1, <1>4, <2>2 DEF SameSubject
    <3>3. CASE i = Len(q) + 1 /\ j \in 1 .. Len(q)
      BY <3>3, <1>1, <1>4, <2>2 DEF SameSubject
    <3> QED BY <2>1, <3>1, <3>2, <3>3
  <2>4. AckFirst(r)
    <3> SUFFICES ASSUME NEW i \in 1 .. Len(r), NEW j \in 1 .. Len(r),
                        IsAck(r[i]), IsRequest(r[j])
                 PROVE  i < j
      BY DEF AckFirst
    <3>1. CASE i \in 1 .. Len(q) /\ j \in 1 .. Len(q)
      BY <3>1, <1>1, <1>4 DEF Ordered, AckFirst
    <3>2. CASE i \in 1 .. Len(q) /\ j = Len(q) + 1
      BY <3>2, <1>1
    <3>3. CASE i = Len(q) + 1 /\ j \in 1 .. Len(q)
      BY <3>3, <1>1, <1>4, <2>2 DEF IsAck, IsRequest, Counted
    <3>4. CASE i = Len(q) + 1 /\ j = Len(q) + 1
      BY <3>4 DEF IsAck, IsRequest
    <3> QED BY <2>1, <3>1, <3>2, <3>3, <3>4
  <2> QED BY <2>3, <2>4 DEF Ordered
<1>5. m.tag \notin Counted => Unseen(q, r)
  BY <1>3, <1>4 DEF Unseen, IsAck, Counted
<1> QED BY <1>1, <1>2, <1>3, <1>4, <1>5 DEF r

(* A message taken out of a channel: what is left, and that the order is   *)
(* kept.                                                                   *)
LEMMA RemoveOne ==
  ASSUME NEW q \in Seq(Message), NEW i \in 1 .. Len(q)
  PROVE  LET r == RemoveAt(q, i) IN
         /\ r \in Seq(Message)
         /\ InChannel(r) \subseteq InChannel(q)
         /\ \A x \in InChannel(q) : x # q[i] => x \in InChannel(r)
         /\ Ordered(q) => Ordered(r)
         /\ Ordered(q) /\ q[i].tag \in Counted =>
              \A x \in CountedIn(r) : ~SameSubject(x, q[i])
         /\ q[i].tag \notin Counted => Unseen(q, r)
<1> DEFINE r == RemoveAt(q, i)
<1>1. /\ r \in Seq(Message) /\ Len(q) \in Nat /\ Len(r) = Len(q) - 1
      /\ \A j \in 1 .. Len(q) - 1 : r[j] = IF j < i THEN q[j] ELSE q[j + 1]
  BY RemoveElement
<1> HIDE DEF r
<1> DEFINE at(j) == IF j < i THEN j ELSE j + 1
<1>2. \A j \in 1 .. Len(r) : at(j) \in 1 .. Len(q) /\ at(j) # i /\ r[j] = q[at(j)]
  BY <1>1
<1>3. \A j, k \in 1 .. Len(r) : (at(j) = at(k) => j = k) /\ (at(j) < at(k) => j < k)
  BY <1>1
<1>4. \A k \in 1 .. Len(q) : k # i => \E j \in 1 .. Len(r) : at(j) = k
  <2> SUFFICES ASSUME NEW k \in 1 .. Len(q), k # i
               PROVE  \E j \in 1 .. Len(r) : at(j) = k
    OBVIOUS
  <2>1. CASE k < i
    <3>1. k \in 1 .. Len(r) /\ at(k) = k
      BY <2>1, <1>1
    <3> QED BY <3>1
  <2>2. CASE ~(k < i)
    <3>1. k - 1 \in 1 .. Len(r) /\ at(k - 1) = k
      BY <2>2, <1>1
    <3> QED BY <3>1
  <2> QED BY <2>1, <2>2
<1> HIDE DEF at
<1>5. InChannel(r) \subseteq InChannel(q)
  BY <1>2 DEF InChannel
<1>6. ASSUME NEW x \in InChannel(q), x # q[i] PROVE x \in InChannel(r)
  <2>1. PICK k \in 1 .. Len(q) : x = q[k]
    BY DEF InChannel
  <2>2. PICK j \in 1 .. Len(r) : at(j) = k
    BY <2>1, <1>4, <1>6
  <2>3. x = r[j]
    BY <2>1, <2>2, <1>2
  <2> QED BY <2>3 DEF InChannel
<1>7. ASSUME Ordered(q) PROVE Ordered(r)
  <2>1. NoneTwice(r)
    BY <1>2, <1>3, <1>7 DEF Ordered, NoneTwice
  <2>2. AckFirst(r)
    BY <1>2, <1>3, <1>7 DEF Ordered, AckFirst
  <2> QED BY <2>1, <2>2 DEF Ordered
<1>8. ASSUME Ordered(q), q[i].tag \in Counted, NEW x \in CountedIn(r)
      PROVE  ~SameSubject(x, q[i])
  <2>1. PICK j \in 1 .. Len(r) : x = r[j]
    BY DEF CountedIn, InChannel
  <2>2. x = q[at(j)] /\ at(j) # i /\ at(j) \in 1 .. Len(q)
    BY <2>1, <1>2
  <2>3. x.tag \in Counted
    BY DEF CountedIn
  <2> QED BY <2>2, <2>3, <1>8 DEF Ordered, NoneTwice
<1>9. ASSUME q[i].tag \notin Counted PROVE Unseen(q, r)
  <2>1. CountedIn(r) = CountedIn(q)
    BY <1>5, <1>6, <1>9 DEF CountedIn
  <2> QED BY <2>1, <1>7 DEF Unseen
<1> QED BY <1>1, <1>5, <1>6, <1>7, <1>8, <1>9 DEF r

------------------------------------------------------------------------------
(* Sends and receives, channel by channel.                                 *)
LEMMA UnseenTwice ==
  ASSUME NEW q, NEW r, NEW s, Unseen(q, r), Unseen(r, s)
  PROVE  Unseen(q, s)
BY DEF Unseen

(* A send appends to its channel and leaves the others alone.              *)
LEMMA SendEffect ==
  ASSUME NetworkTypeOK, NEW s \in Node, NEW d \in Node, NEW m \in Message, Send(s, d, m)
  PROVE  /\ NetworkTypeOK'
         /\ net'[<<s, d>>] = Append(net[<<s, d>>], m)
         /\ \A x, y \in Node : <<x, y>> # <<s, d>> => net'[<<x, y>>] = net[<<x, y>>]
         /\ m.tag \notin Counted =>
              \A x, y \in Node : Unseen(net[<<x, y>>], net'[<<x, y>>])
<1>1. net[<<s, d>>] \in Seq(Message) /\ <<s, d>> \in Node \X Node
  BY DEF NetworkTypeOK
<1>2. net' = [net EXCEPT ![<<s, d>>] = Append(net[<<s, d>>], m)]
  BY DEF Send
<1>3. net'[<<s, d>>] = Append(net[<<s, d>>], m)
  BY <1>1, <1>2 DEF NetworkTypeOK
<1>4. \A x, y \in Node : <<x, y>> # <<s, d>> => net'[<<x, y>>] = net[<<x, y>>]
  BY <1>2 DEF NetworkTypeOK
<1>5. NetworkTypeOK'
  BY <1>1, <1>2, AppendOne DEF NetworkTypeOK
<1>6. ASSUME m.tag \notin Counted, NEW x \in Node, NEW y \in Node
      PROVE  Unseen(net[<<x, y>>], net'[<<x, y>>])
  <2>1. CASE <<x, y>> = <<s, d>>
    BY <2>1, <1>1, <1>3, <1>6, AppendOne
  <2>2. CASE <<x, y>> # <<s, d>>
    BY <2>2, <1>4 DEF Unseen
  <2> QED BY <2>1, <2>2
<1> QED BY <1>3, <1>4, <1>5, <1>6

(* A receive takes the first message of its tag out of the channel.        *)
LEMMA WithoutEffect ==
  ASSUME NetworkTypeOK, NEW s \in Node, NEW d \in Node, NEW tag, Arrived(s, d, tag)
  PROVE  LET q == net[<<s, d>>]
             m == Matched(s, d, tag)
             r == Without(s, d, tag)
         IN  /\ q \in Seq(Message) /\ r \in Seq(Message)
             /\ m \in Message /\ m.tag = tag /\ m \in InChannel(q)
             /\ InChannel(r) \subseteq InChannel(q)
             /\ \A x \in InChannel(q) : x # m => x \in InChannel(r)
             /\ Ordered(q) => Ordered(r)
             /\ Ordered(q) /\ tag \in Counted => \A x \in CountedIn(r) : ~SameSubject(x, m)
             /\ tag \notin Counted => Unseen(q, r)
<1>1. PICK i \in 1 .. Len(net[<<s, d>>]) :
        /\ net[<<s, d>>][i].tag = tag
        /\ Matched(s, d, tag) = net[<<s, d>>][i]
        /\ Without(s, d, tag) = RemoveAt(net[<<s, d>>], i)
  BY FirstMatch
<1>2. net[<<s, d>>] \in Seq(Message)
  BY DEF NetworkTypeOK
<1>3. net[<<s, d>>][i] \in Message
  BY <1>2, ElementOfSeq
<1> DEFINE q == net[<<s, d>>]
           r == RemoveAt(q, i)
<1>4. /\ r \in Seq(Message)
      /\ InChannel(r) \subseteq InChannel(q)
      /\ \A x \in InChannel(q) : x # q[i] => x \in InChannel(r)
      /\ Ordered(q) => Ordered(r)
      /\ Ordered(q) /\ q[i].tag \in Counted => \A x \in CountedIn(r) : ~SameSubject(x, q[i])
      /\ q[i].tag \notin Counted => Unseen(q, r)
  BY <1>2, RemoveOne
<1>5. q[i] \in InChannel(q)
  BY DEF InChannel
<1> QED BY <1>1, <1>2, <1>3, <1>4, <1>5

(* A receive takes its message out of its channel and leaves the others    *)
(* alone.                                                                  *)
LEMMA ReceiveEffect ==
  ASSUME NetworkTypeOK, NEW s \in Node, NEW d \in Node, NEW tag, Arrived(s, d, tag),
         Receive(s, d, tag)
  PROVE  /\ NetworkTypeOK'
         /\ net'[<<s, d>>] = Without(s, d, tag)
         /\ \A x, y \in Node : <<x, y>> # <<s, d>> => net'[<<x, y>>] = net[<<x, y>>]
         /\ tag \notin Counted =>
              \A x, y \in Node : Unseen(net[<<x, y>>], net'[<<x, y>>])
<1>1. /\ Without(s, d, tag) \in Seq(Message) /\ <<s, d>> \in Node \X Node
      /\ tag \notin Counted => Unseen(net[<<s, d>>], Without(s, d, tag))
  BY WithoutEffect
<1>2. net' = [net EXCEPT ![<<s, d>>] = Without(s, d, tag)]
  BY DEF Receive
<1>3. net'[<<s, d>>] = Without(s, d, tag)
  BY <1>1, <1>2 DEF NetworkTypeOK
<1>4. \A x, y \in Node : <<x, y>> # <<s, d>> => net'[<<x, y>>] = net[<<x, y>>]
  BY <1>2 DEF NetworkTypeOK
<1>5. NetworkTypeOK'
  BY <1>1, <1>2 DEF NetworkTypeOK
<1>6. ASSUME tag \notin Counted, NEW x \in Node, NEW y \in Node
      PROVE  Unseen(net[<<x, y>>], net'[<<x, y>>])
  <2>1. CASE <<x, y>> = <<s, d>>
    BY <2>1, <1>1, <1>3, <1>6
  <2>2. CASE <<x, y>> # <<s, d>>
    BY <2>2, <1>4 DEF Unseen
  <2> QED BY <2>1, <2>2
<1> QED BY <1>3, <1>4, <1>5, <1>6

(* A receive answered by one message on another channel.                   *)
LEMMA AnswerEffect ==
  ASSUME NetworkTypeOK, NEW s \in Node, NEW d \in Node, NEW tag, Arrived(s, d, tag),
         NEW r \in Node, NEW m \in Message, <<s, d>> # <<d, r>>,
         ReceiveAndSend(s, d, tag, r, <<m>>)
  PROVE  /\ NetworkTypeOK'
         /\ net'[<<s, d>>] = Without(s, d, tag)
         /\ net'[<<d, r>>] = Append(net[<<d, r>>], m)
         /\ \A x, y \in Node : <<x, y>> \notin {<<s, d>>, <<d, r>>} =>
              net'[<<x, y>>] = net[<<x, y>>]
<1>1. /\ Without(s, d, tag) \in Seq(Message) /\ <<s, d>> \in Node \X Node
      /\ net[<<d, r>>] \in Seq(Message) /\ <<d, r>> \in Node \X Node
  BY WithoutEffect DEF NetworkTypeOK
<1>2. net[<<d, r>>] \o <<m>> = Append(net[<<d, r>>], m)
  BY <1>1, AppendIsConcat
<1>3. net' = [[net EXCEPT ![<<s, d>>] = Without(s, d, tag)]
                   EXCEPT ![<<d, r>>] = net[<<d, r>>] \o <<m>>]
  <2>1. [net EXCEPT ![<<s, d>>] = Without(s, d, tag)][<<d, r>>] = net[<<d, r>>]
    BY <1>1 DEF NetworkTypeOK
  <2> QED BY <2>1 DEF ReceiveAndSend
<1>4. Append(net[<<d, r>>], m) \in Seq(Message)
  BY <1>1, AppendOne
<1> QED BY <1>1, <1>2, <1>3, <1>4 DEF NetworkTypeOK

(* ... by two messages, none of which is counted.                          *)
LEMMA AnswerUnseen ==
  ASSUME NetworkTypeOK, NEW s \in Node, NEW d \in Node, NEW tag, Arrived(s, d, tag),
         NEW r \in Node, NEW m \in Message, NEW n \in Message,
         {tag, m.tag, n.tag} \cap Counted = {},
         ReceiveAndSend(s, d, tag, r, <<m, n>>)
  PROVE  /\ NetworkTypeOK'
         /\ \A x, y \in Node : Unseen(net[<<x, y>>], net'[<<x, y>>])
<1> DEFINE mid == [net EXCEPT ![<<s, d>>] = Without(s, d, tag)]
           both(q) == Append(Append(q, m), n)
<1>1. /\ Without(s, d, tag) \in Seq(Message) /\ <<s, d>> \in Node \X Node
      /\ <<d, r>> \in Node \X Node
      /\ Unseen(net[<<s, d>>], Without(s, d, tag))
  BY WithoutEffect
<1>2. /\ mid \in [Node \X Node -> Seq(Message)]
      /\ \A x, y \in Node : Unseen(net[<<x, y>>], mid[<<x, y>>])
  <2>1. mid \in [Node \X Node -> Seq(Message)]
    BY <1>1 DEF NetworkTypeOK
  <2>2. ASSUME NEW x \in Node, NEW y \in Node
        PROVE  Unseen(net[<<x, y>>], mid[<<x, y>>])
    <3>1. CASE <<x, y>> = <<s, d>>
      <4>1. mid[<<x, y>>] = Without(s, d, tag)
        BY <3>1, <1>1 DEF NetworkTypeOK
      <4> QED BY <4>1, <3>1, <1>1
    <3>2. CASE <<x, y>> # <<s, d>>
      <4>1. mid[<<x, y>>] = net[<<x, y>>]
        BY <3>2 DEF NetworkTypeOK
      <4> QED BY <4>1 DEF Unseen
    <3> QED BY <3>1, <3>2
  <2> QED BY <2>1, <2>2
<1>3. net' = [mid EXCEPT ![<<d, r>>] = mid[<<d, r>>] \o <<m, n>>]
  BY DEF ReceiveAndSend
<1> HIDE DEF mid
<1>4. mid[<<d, r>>] \in Seq(Message)
  BY <1>1, <1>2
<1>5. mid[<<d, r>>] \o <<m, n>> = both(mid[<<d, r>>])
  BY <1>4
<1>6. /\ both(mid[<<d, r>>]) \in Seq(Message)
      /\ Unseen(mid[<<d, r>>], both(mid[<<d, r>>]))
  <2>1. Append(mid[<<d, r>>], m) \in Seq(Message) /\ Unseen(mid[<<d, r>>], Append(mid[<<d, r>>], m))
    BY <1>4, AppendOne
  <2>2. /\ both(mid[<<d, r>>]) \in Seq(Message)
        /\ Unseen(Append(mid[<<d, r>>], m), both(mid[<<d, r>>]))
    BY <2>1, AppendOne
  <2> QED BY <2>1, <2>2, UnseenTwice
<1> HIDE DEF both
<1>7. NetworkTypeOK'
  BY <1>2, <1>3, <1>5, <1>6 DEF NetworkTypeOK
<1>8. ASSUME NEW x \in Node, NEW y \in Node
      PROVE  Unseen(net[<<x, y>>], net'[<<x, y>>])
  <2>1. Unseen(net[<<x, y>>], mid[<<x, y>>])
    BY <1>2
  <2>2. CASE <<x, y>> = <<d, r>>
    <3>1. net'[<<x, y>>] = both(mid[<<x, y>>])
      BY <2>2, <1>1, <1>2, <1>3, <1>5
    <3> QED BY <2>1, <2>2, <3>1, <1>6, UnseenTwice
  <2>3. CASE <<x, y>> # <<d, r>>
    <3>1. net'[<<x, y>>] = mid[<<x, y>>]
      BY <2>3, <1>2, <1>3
    <3> QED BY <2>1, <3>1
  <2> QED BY <2>2, <2>3
<1> QED BY <1>7, <1>8

------------------------------------------------------------------------------
(* Of the messages of a channel, x was sent before y.                      *)
Precedes(q, x, y) ==
  \E i, j \in 1 .. Len(q) : i < j /\ q[i] = x /\ q[j] = y

(* A message appended comes after all others.                              *)
LEMMA AppendPrecedes ==
  ASSUME NEW q \in Seq(Message), NEW m \in Message, NEW x, NEW y
  PROVE  Precedes(Append(q, m), x, y) <=> Precedes(q, x, y) \/ (x \in InChannel(q) /\ y = m)
<1> DEFINE r == Append(q, m)
<1>1. /\ r \in Seq(Message) /\ Len(q) \in Nat /\ Len(r) = Len(q) + 1
      /\ \A i \in 1 .. Len(q) : r[i] = q[i]
      /\ r[Len(q) + 1] = m
  BY AppendProperties
<1> HIDE DEF r
<1>2. \A i \in 1 .. Len(r) : i \in 1 .. Len(q) \/ i = Len(q) + 1
  BY <1>1
<1>3. ASSUME Precedes(r, x, y) PROVE Precedes(q, x, y) \/ (x \in InChannel(q) /\ y = m)
  <2>1. PICK i, j \in 1 .. Len(r) : i < j /\ r[i] = x /\ r[j] = y
    BY <1>3 DEF Precedes
  <2>2. i \in 1 .. Len(q) /\ x = q[i]
    BY <2>1, <1>1
  <2>3. CASE j \in 1 .. Len(q)
    BY <2>1, <2>2, <2>3, <1>1 DEF Precedes
  <2>4. CASE j = Len(q) + 1
    BY <2>1, <2>2, <2>4, <1>1 DEF InChannel
  <2> QED BY <1>2, <2>3, <2>4
<1>4. ASSUME Precedes(q, x, y) PROVE Precedes(r, x, y)
  <2>1. PICK i, j \in 1 .. Len(q) : i < j /\ q[i] = x /\ q[j] = y
    BY <1>4 DEF Precedes
  <2>2. i \in 1 .. Len(r) /\ j \in 1 .. Len(r) /\ r[i] = x /\ r[j] = y
    BY <2>1, <1>1
  <2> QED BY <2>1, <2>2 DEF Precedes
<1>5. ASSUME x \in InChannel(q), y = m PROVE Precedes(r, x, y)
  <2>1. PICK i \in 1 .. Len(q) : x = q[i]
    BY <1>5 DEF InChannel
  <2>2. /\ i \in 1 .. Len(r) /\ Len(q) + 1 \in 1 .. Len(r) /\ i < Len(q) + 1
        /\ r[i] = x /\ r[Len(q) + 1] = y
    BY <2>1, <1>1, <1>5
  <2> QED BY <2>2 DEF Precedes
<1> QED BY <1>3, <1>4, <1>5 DEF r

(* The first message of its tag taken out: the others keep their order,    *)
(* and if it was there once, it is gone and came before all of its tag.    *)
LEMMA RemovePrecedes ==
  ASSUME NEW q \in Seq(Message), NEW i \in 1 .. Len(q),
         \A j \in 1 .. Len(q) : q[j].tag = q[i].tag => i <= j
  PROVE  LET r == RemoveAt(q, i)
             m == q[i]
         IN  /\ \A x, y : Precedes(r, x, y) => Precedes(q, x, y)
             /\ \A x, y : Precedes(q, x, y) /\ x # m /\ y # m => Precedes(r, x, y)
             /\ ~Precedes(q, m, m) =>
                  /\ m \notin InChannel(r)
                  /\ \A x \in InChannel(q) :
                       x.tag = m.tag => ~Precedes(q, x, m) /\ (x # m => Precedes(q, m, x))
<1> DEFINE r == RemoveAt(q, i)
           m == q[i]
<1>1. /\ r \in Seq(Message) /\ Len(q) \in Nat /\ Len(r) = Len(q) - 1
      /\ \A j \in 1 .. Len(q) - 1 : r[j] = IF j < i THEN q[j] ELSE q[j + 1]
  BY RemoveElement
<1> HIDE DEF r
<1>2. ASSUME NEW x, NEW y, Precedes(r, x, y) PROVE Precedes(q, x, y)
  <2>1. PICK j, k \in 1 .. Len(r) : j < k /\ r[j] = x /\ r[k] = y
    BY <1>2 DEF Precedes
  <2>2. PICK a, b \in 1 .. Len(q) : a < b /\ q[a] = r[j] /\ q[b] = r[k]
    <3> DEFINE at(n) == IF n < i THEN n ELSE n + 1
    <3>1. at(j) \in 1 .. Len(q) /\ at(k) \in 1 .. Len(q) /\ at(j) < at(k)
      BY <1>1, <2>1
    <3>2. q[at(j)] = r[j] /\ q[at(k)] = r[k]
      BY <1>1, <2>1
    <3> QED BY <3>1, <3>2
  <2> QED BY <2>1, <2>2 DEF Precedes
<1>3. ASSUME NEW x, NEW y, Precedes(q, x, y), x # m, y # m PROVE Precedes(r, x, y)
  <2>1. PICK j, k \in 1 .. Len(q) : j < k /\ q[j] = x /\ q[k] = y
    BY <1>3 DEF Precedes
  <2> DEFINE to(n) == IF n < i THEN n ELSE n - 1
  <2>2. j # i /\ k # i
    BY <2>1, <1>3
  <2>3. to(j) \in 1 .. Len(r) /\ to(k) \in 1 .. Len(r) /\ to(j) < to(k)
    BY <1>1, <2>1, <2>2
  <2>4. r[to(j)] = x /\ r[to(k)] = y
    BY <1>1, <2>1, <2>2
  <2> QED BY <2>3, <2>4 DEF Precedes
<1>4. ASSUME ~Precedes(q, m, m) PROVE m \notin InChannel(r)
  <2> SUFFICES ASSUME NEW j \in 1 .. Len(r), r[j] = m PROVE FALSE
    BY DEF InChannel
  <2>1. CASE j < i
    <3>1. j \in 1 .. Len(q) /\ q[j] = m /\ j < i
      BY <1>1, <2>1
    <3> QED BY <3>1, <1>4 DEF Precedes
  <2>2. CASE ~(j < i)
    <3>1. j + 1 \in 1 .. Len(q) /\ q[j + 1] = m /\ i < j + 1
      BY <1>1, <2>2
    <3> QED BY <3>1, <1>4 DEF Precedes
  <2> QED BY <2>1, <2>2
<1>5. ASSUME ~Precedes(q, m, m), NEW x \in InChannel(q), x.tag = m.tag
      PROVE  ~Precedes(q, x, m) /\ (x # m => Precedes(q, m, x))
  <2>1. PICK j \in 1 .. Len(q) : x = q[j]
    BY DEF InChannel
  <2>2. x # m => Precedes(q, m, x)
    <3>1. x # m => i < j
      BY <2>1, <1>1, <1>5
    <3> QED BY <2>1, <3>1 DEF Precedes
  <2>3. ~Precedes(q, x, m)
    <3> SUFFICES ASSUME NEW a \in 1 .. Len(q), NEW b \in 1 .. Len(q), a < b, q[a] = x, q[b] = m
                 PROVE  FALSE
      BY DEF Precedes
    <3>1. i <= a
      BY <1>5
    <3>2. i < b /\ q[i] = m
      BY <3>1
    <3> QED BY <3>2, <1>5 DEF Precedes
  <2> QED BY <2>2, <2>3
<1> QED BY <1>2, <1>3, <1>4, <1>5 DEF r

(* A receive of the first message of a tag, in these terms.                *)
LEMMA WithoutPrecedes ==
  ASSUME NetworkTypeOK, NEW s \in Node, NEW d \in Node, NEW tag, Arrived(s, d, tag)
  PROVE  LET q == net[<<s, d>>]
             m == Matched(s, d, tag)
             r == Without(s, d, tag)
         IN  /\ \A x, y : Precedes(r, x, y) => Precedes(q, x, y)
             /\ \A x, y : Precedes(q, x, y) /\ x # m /\ y # m => Precedes(r, x, y)
             /\ ~Precedes(q, m, m) =>
                  /\ m \notin InChannel(r)
                  /\ \A x \in InChannel(q) :
                       x.tag = tag => ~Precedes(q, x, m) /\ (x # m => Precedes(q, m, x))
<1>1. PICK i \in 1 .. Len(net[<<s, d>>]) :
        /\ net[<<s, d>>][i].tag = tag
        /\ \A j \in 1 .. Len(net[<<s, d>>]) : net[<<s, d>>][j].tag = tag => i <= j
        /\ Matched(s, d, tag) = net[<<s, d>>][i]
        /\ Without(s, d, tag) = RemoveAt(net[<<s, d>>], i)
  BY FirstMatch
<1> DEFINE q == net[<<s, d>>]
<1>2. q \in Seq(Message)
  BY DEF NetworkTypeOK
<1>3. i \in 1 .. Len(q) /\ \A j \in 1 .. Len(q) : q[j].tag = q[i].tag => i <= j
  BY <1>1
<1> HIDE DEF q
<1>4. LET r == RemoveAt(q, i)
          m == q[i]
      IN  /\ \A x, y : Precedes(r, x, y) => Precedes(q, x, y)
          /\ \A x, y : Precedes(q, x, y) /\ x # m /\ y # m => Precedes(r, x, y)
          /\ ~Precedes(q, m, m) =>
               /\ m \notin InChannel(r)
               /\ \A x \in InChannel(q) :
                    x.tag = m.tag => ~Precedes(q, x, m) /\ (x # m => Precedes(q, m, x))
  BY <1>2, <1>3, RemovePrecedes
<1>5. Matched(s, d, tag) = q[i] /\ Without(s, d, tag) = RemoveAt(q, i) /\ q[i].tag = tag
  BY <1>1 DEF q
<1>6. net[<<s, d>>] = q
  BY DEF q
<1> QED BY <1>4, <1>5, <1>6

------------------------------------------------------------------------------
(* A change of the channel q to r that moves no message of a tag.          *)
SameOf(tag, q, r) ==
  \A x, y \in Message : x.tag = tag /\ y.tag = tag =>
    /\ x \in InChannel(r) <=> x \in InChannel(q)
    /\ Precedes(r, x, y) <=> Precedes(q, x, y)

Kept(tag) == \A s, d \in Node : SameOf(tag, net[<<s, d>>], net'[<<s, d>>])

(* Nothing moves where the channels are not touched.                       *)
LEMMA NetKept == ASSUME net' = net, NEW tag PROVE Kept(tag)
BY DEF Kept, SameOf

(* One such change after another is one.                                   *)
LEMMA SameTwice ==
  ASSUME NEW tag, NEW q, NEW r, NEW s, SameOf(tag, q, r), SameOf(tag, r, s)
  PROVE  SameOf(tag, q, s)
BY DEF SameOf

(* A message appended moves none of another tag,                           *)
LEMMA AppendSame ==
  ASSUME NEW q \in Seq(Message), NEW m \in Message, NEW tag, tag # m.tag
  PROVE  SameOf(tag, q, Append(q, m))
<1>1. InChannel(Append(q, m)) = InChannel(q) \cup {m}
  BY AppendOne
<1>2. \A x, y : Precedes(Append(q, m), x, y)
                  <=> Precedes(q, x, y) \/ (x \in InChannel(q) /\ y = m)
  BY AppendPrecedes
<1> QED BY <1>1, <1>2 DEF SameOf

(* nor does one received.                                                  *)
LEMMA WithoutSame ==
  ASSUME NetworkTypeOK, NEW s \in Node, NEW d \in Node, NEW t, Arrived(s, d, t),
         NEW tag, tag # t
  PROVE  SameOf(tag, net[<<s, d>>], Without(s, d, t))
<1> DEFINE q == net[<<s, d>>]
           m == Matched(s, d, t)
           r == Without(s, d, t)
<1>1. /\ m.tag = t /\ InChannel(r) \subseteq InChannel(q)
      /\ \A x \in InChannel(q) : x # m => x \in InChannel(r)
  BY WithoutEffect
<1>2. /\ \A x, y : Precedes(r, x, y) => Precedes(q, x, y)
      /\ \A x, y : Precedes(q, x, y) /\ x # m /\ y # m => Precedes(r, x, y)
  BY WithoutPrecedes
<1> HIDE DEF q, m, r
<1>3. SameOf(tag, q, r)
  BY <1>1, <1>2 DEF SameOf
<1> QED BY <1>3 DEF q, r

(* The same of a send, a receive and a receive that is answered.           *)
LEMMA SendKeeps ==
  ASSUME NetworkTypeOK, NEW s \in Node, NEW d \in Node, NEW m \in Message, Send(s, d, m),
         NEW tag, tag # m.tag
  PROVE  Kept(tag)
<1>1. net[<<s, d>>] \in Seq(Message)
  BY DEF NetworkTypeOK
<1>2. /\ net'[<<s, d>>] = Append(net[<<s, d>>], m)
      /\ \A x, y \in Node : <<x, y>> # <<s, d>> => net'[<<x, y>>] = net[<<x, y>>]
  BY SendEffect
<1>3. SameOf(tag, net[<<s, d>>], net'[<<s, d>>])
  BY <1>1, <1>2, AppendSame
<1>4. \A x, y \in Node : <<x, y>> # <<s, d>> => SameOf(tag, net[<<x, y>>], net'[<<x, y>>])
  BY <1>2 DEF SameOf
<1> QED BY <1>3, <1>4 DEF Kept

(* A receive moves no message of another tag.                              *)
LEMMA ReceiveKeeps ==
  ASSUME NetworkTypeOK, NEW s \in Node, NEW d \in Node, NEW t, Arrived(s, d, t),
         Receive(s, d, t), NEW tag, tag # t
  PROVE  Kept(tag)
<1>1. /\ net'[<<s, d>>] = Without(s, d, t)
      /\ \A x, y \in Node : <<x, y>> # <<s, d>> => net'[<<x, y>>] = net[<<x, y>>]
  BY ReceiveEffect
<1>2. SameOf(tag, net[<<s, d>>], net'[<<s, d>>])
  BY <1>1, WithoutSame
<1>3. \A x, y \in Node : <<x, y>> # <<s, d>> => SameOf(tag, net[<<x, y>>], net'[<<x, y>>])
  BY <1>1 DEF SameOf
<1> QED BY <1>2, <1>3 DEF Kept

(* A receive answered by one message moves none of a third tag.            *)
LEMMA AnswerKeeps ==
  ASSUME NetworkTypeOK, NEW s \in Node, NEW d \in Node, NEW t, Arrived(s, d, t),
         NEW r \in Node, NEW m \in Message, <<s, d>> # <<d, r>>,
         ReceiveAndSend(s, d, t, r, <<m>>), NEW tag, tag \notin {t, m.tag}
  PROVE  Kept(tag)
<1>1. /\ net'[<<s, d>>] = Without(s, d, t)
      /\ net'[<<d, r>>] = Append(net[<<d, r>>], m)
      /\ \A x, y \in Node : <<x, y>> \notin {<<s, d>>, <<d, r>>} =>
           net'[<<x, y>>] = net[<<x, y>>]
  BY AnswerEffect
<1>2. net[<<d, r>>] \in Seq(Message)
  BY DEF NetworkTypeOK
<1>3. SameOf(tag, net[<<s, d>>], net'[<<s, d>>])
  BY <1>1, WithoutSame
<1>4. SameOf(tag, net[<<d, r>>], net'[<<d, r>>])
  BY <1>1, <1>2, AppendSame
<1>5. \A x, y \in Node : <<x, y>> \notin {<<s, d>>, <<d, r>>} =>
        SameOf(tag, net[<<x, y>>], net'[<<x, y>>])
  BY <1>1 DEF SameOf
<1>6. ASSUME NEW x \in Node, NEW y \in Node
      PROVE  SameOf(tag, net[<<x, y>>], net'[<<x, y>>])
  BY <1>3, <1>4, <1>5
<1> QED BY <1>6 DEF Kept

(* A receive answered by two messages moves none of another tag,           *)
LEMMA AnswerTwiceKeeps ==
  ASSUME NetworkTypeOK, NEW s \in Node, NEW d \in Node, NEW t, Arrived(s, d, t),
         NEW r \in Node, NEW m \in Message, NEW n \in Message,
         ReceiveAndSend(s, d, t, r, <<m, n>>), NEW tag, tag \notin {t, m.tag, n.tag}
  PROVE  Kept(tag)
<1> DEFINE mid == [net EXCEPT ![<<s, d>>] = Without(s, d, t)]
           both(q) == Append(Append(q, m), n)
<1>1. /\ Without(s, d, t) \in Seq(Message) /\ <<s, d>> \in Node \X Node
      /\ <<d, r>> \in Node \X Node
      /\ SameOf(tag, net[<<s, d>>], Without(s, d, t))
  BY WithoutEffect, WithoutSame
<1>2. mid \in [Node \X Node -> Seq(Message)]
  BY <1>1 DEF NetworkTypeOK
<1>3. ASSUME NEW x \in Node, NEW y \in Node PROVE SameOf(tag, net[<<x, y>>], mid[<<x, y>>])
  <2>1. CASE <<x, y>> = <<s, d>>
    <3>1. mid[<<x, y>>] = Without(s, d, t)
      BY <2>1, <1>1 DEF NetworkTypeOK
    <3> QED BY <3>1, <2>1, <1>1
  <2>2. CASE <<x, y>> # <<s, d>>
    <3>1. mid[<<x, y>>] = net[<<x, y>>]
      BY <2>2 DEF NetworkTypeOK
    <3> QED BY <3>1 DEF SameOf
  <2> QED BY <2>1, <2>2
<1>4. net' = [mid EXCEPT ![<<d, r>>] = mid[<<d, r>>] \o <<m, n>>]
  BY DEF ReceiveAndSend
<1> HIDE DEF mid
<1>5. mid[<<d, r>>] \in Seq(Message)
  BY <1>1, <1>2
<1>6. mid[<<d, r>>] \o <<m, n>> = both(mid[<<d, r>>])
  BY <1>5
<1>7. SameOf(tag, mid[<<d, r>>], both(mid[<<d, r>>]))
  <2>1. /\ Append(mid[<<d, r>>], m) \in Seq(Message)
        /\ SameOf(tag, mid[<<d, r>>], Append(mid[<<d, r>>], m))
    BY <1>5, AppendOne, AppendSame
  <2>2. SameOf(tag, Append(mid[<<d, r>>], m), both(mid[<<d, r>>]))
    BY <2>1, AppendSame
  <2> QED BY <2>1, <2>2, SameTwice
<1> HIDE DEF both
<1>8. ASSUME NEW x \in Node, NEW y \in Node PROVE SameOf(tag, net[<<x, y>>], net'[<<x, y>>])
  <2>1. SameOf(tag, net[<<x, y>>], mid[<<x, y>>])
    BY <1>3
  <2>2. CASE <<x, y>> = <<d, r>>
    <3>1. net'[<<x, y>>] = both(mid[<<x, y>>])
      BY <2>2, <1>1, <1>2, <1>4, <1>6
    <3> QED BY <2>1, <2>2, <3>1, <1>7, SameTwice
  <2>3. CASE <<x, y>> # <<d, r>>
    <3>1. net'[<<x, y>>] = mid[<<x, y>>]
      BY <2>3, <1>2, <1>4
    <3> QED BY <2>1, <3>1
  <2> QED BY <2>2, <2>3
<1> QED BY <1>8 DEF Kept

(* and on another channel it leaves them, in order, behind what was there. *)
LEMMA AnswerTwice ==
  ASSUME NetworkTypeOK, NEW s \in Node, NEW d \in Node, NEW t, Arrived(s, d, t),
         NEW m \in Message, NEW n \in Message, s # d,
         ReceiveAndSend(s, d, t, s, <<m, n>>)
  PROVE  /\ net'[<<s, d>>] = Without(s, d, t)
         /\ net'[<<d, s>>] = Append(Append(net[<<d, s>>], m), n)
         /\ net[<<d, s>>] \in Seq(Message) /\ Append(net[<<d, s>>], m) \in Seq(Message)
         /\ \A x, y \in Node : <<x, y>> \notin {<<s, d>>, <<d, s>>} =>
              net'[<<x, y>>] = net[<<x, y>>]
<1>q. PICK q : q = net[<<d, s>>]
  OBVIOUS
<1>1. /\ Without(s, d, t) \in Seq(Message) /\ <<s, d>> \in Node \X Node
      /\ q \in Seq(Message) /\ <<d, s>> \in Node \X Node
  BY <1>q, WithoutEffect DEF NetworkTypeOK
<1>2. q \o <<m, n>> = Append(Append(q, m), n)
  BY <1>1
<1>3. net' = [[net EXCEPT ![<<s, d>>] = Without(s, d, t)] EXCEPT ![<<d, s>>] = q \o <<m, n>>]
  <2>1. [net EXCEPT ![<<s, d>>] = Without(s, d, t)][<<d, s>>] = q
    BY <1>1, <1>q DEF NetworkTypeOK
  <2> QED BY <2>1 DEF ReceiveAndSend
<1>4. Append(q, m) \in Seq(Message)
  BY <1>1, AppendOne
<1> QED BY <1>1, <1>2, <1>3, <1>4, <1>q DEF NetworkTypeOK
==============================================================================
