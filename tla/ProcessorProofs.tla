---------------------------- MODULE ProcessorProofs ----------------------------
(***************************************************************************)
(* ProcessorInv is an inductive invariant of Processor: which edits of the *)
(* two visitors arrive, and where the includes go, for any compilation     *)
(* units.  CodeInv adds what is generated for the variables of each task,  *)
(* and the sizes that are sent of them: what Captured and Behind compute   *)
(* is shown by the least step of theirs at which it would fail.            *)
(***************************************************************************)
EXTENDS Processor, FiniteSetTheorems, WellFoundedInduction, SequenceTheorems, TLAPS

(* x has been visited; its edit does not arrive.                           *)
Visited(x) == x[1] < decl \/ (x[1] = decl /\ x[2] \notin todo)
Moved(x) == InMain(x) \/ (IsTask(x) /\ Around(x) # {})

UnitInv ==
  /\ unit \in Unit
  /\ decl \in Nat \ {0} /\ decl <= Len(unit) + 1
  /\ todo \subseteq Visits(decl)
  /\ stage \in {"crash", "written", "abort"} => decl = Len(unit) + 1

(* The visits of a declaration are made in order: what one still has to    *)
(* make, it has to make with all that follow.                              *)
OrderInv ==
  decl \in DOMAIN unit =>
    \A n \in todo :
      /\ n \in RewriterPass(decl) => ExtractorPass(decl) \subseteq todo
      /\ \A m \in RewriterPass(decl) : n \in RewriterPass(decl) /\ n <= m => m \in todo
      /\ \A m \in ExtractorPass(decl) : n \in ExtractorPass(decl) /\ n <= m => m \in todo

(* What has been visited is replaced or misplaced, and a task has code.    *)
EditInv ==
  /\ replaced \cup misplaced \cup DOMAIN code \subseteq Directives
  /\ \A x \in Directives :
       /\ x \in replaced <=> Visited(x) /\ ~Moved(x)
       /\ x \in misplaced <=> Visited(x) /\ Moved(x)
       /\ x \in DOMAIN code <=> Visited(x) /\ IsTask(x)

(* The code of a task is read when the taskwaits in it are replaced.       *)
TextInv ==
  \A y \in DOMAIN code : \A x \in Within(y) :
    ~IsTask(x) /\ ~InMain(x) => x \in code[y].text

(* d needs the includes so far.                                            *)
Needs(d) == (unit[d].main /\ (d = decl => 0 \notin todo)) \/ \E x \in replaced : x[1] = d

(* The includes are no later than the first declaration that needs them.   *)
HeaderInv ==
  /\ needsHeader \in [rewriter : BOOLEAN, extractor : BOOLEAN]
  /\ header \in Nat /\ header < decl
  /\ \A d \in DOMAIN unit : d < decl /\ Needs(d) => header # 0 /\ header <= d
  /\ decl \in DOMAIN unit /\ Needs(decl) => needsHeader.rewriter \/ needsHeader.extractor

ProcessorInv == UnitInv /\ OrderInv /\ EditInv /\ TextInv /\ HeaderInv

------------------------------------------------------------------------------
(* What UnitAssumption says of the declarations ...                        *)
LEMMA DeclFacts ==
  ASSUME unit \in Unit
  PROVE  /\ Len(unit) \in Nat
         /\ \A d : d \in DOMAIN unit <=> d \in Nat \ {0} /\ d <= Len(unit)
         /\ \A d \in DOMAIN unit : /\ unit[d].main \in BOOLEAN /\ unit[d].included \in BOOLEAN
                                   /\ DOMAIN unit[d].nodes \subseteq Nat \ {0}
<1>1. /\ Len(unit) \in Nat /\ DOMAIN unit = 1 .. Len(unit)
      /\ \A d \in DOMAIN unit : /\ {unit[d].included, unit[d].main} \subseteq BOOLEAN
                                /\ DOMAIN unit[d].nodes \subseteq Nat \ {0}
  BY UnitAssumption
<1> QED BY <1>1

(* ... of the directives in them ...                                       *)
LEMMA DirectiveFacts ==
  ASSUME unit \in Unit
  PROVE  /\ \A x \in Directives : /\ x = <<x[1], x[2]>> /\ x[1] \in DOMAIN unit
                                  /\ x[2] \in DOMAIN unit[x[1]].nodes
         /\ \A d \in DOMAIN unit : \A n \in DOMAIN unit[d].nodes : <<d, n>> \in Directives
<1>1. ASSUME NEW x \in Directives
      PROVE  /\ x = <<x[1], x[2]>> /\ x[1] \in DOMAIN unit
             /\ x[2] \in DOMAIN unit[x[1]].nodes
  <2>1. PICK d \in DOMAIN unit : x \in {d} \X DOMAIN unit[d].nodes
    BY DEF Directives
  <2> QED BY <2>1
<1>2. ASSUME NEW d \in DOMAIN unit, NEW n \in DOMAIN unit[d].nodes
      PROVE  <<d, n>> \in Directives
  <2>1. <<d, n>> \in {d} \X DOMAIN unit[d].nodes
    OBVIOUS
  <2> QED BY <2>1 DEF Directives
<1> QED BY <1>1, <1>2

(* ... of the visits that are made of them ...                             *)
LEMMA VisitFacts ==
  ASSUME unit \in Unit
  PROVE  /\ \A x \in Directives : /\ x[2] \in Nat \ {0} /\ x[2] \in Visits(x[1])
                                  /\ IsTask(x) <=> x[2] \in ExtractorPass(x[1])
                                  /\ ~IsTask(x) <=> x[2] \in RewriterPass(x[1])
         /\ \A d \in DOMAIN unit :
              /\ Visits(d) = RewriterPass(d) \cup ExtractorPass(d)
              /\ RewriterPass(d) \cap ExtractorPass(d) = {}
              /\ Visits(d) \subseteq Nat
              /\ 0 \in RewriterPass(d) <=> unit[d].main
              /\ 0 \notin ExtractorPass(d)
              /\ \A n \in Visits(d) \ {0} : <<d, n>> \in Directives
         /\ Visits(Len(unit) + 1) = {}
<1>1. ASSUME NEW d \in DOMAIN unit
      PROVE  /\ Visits(d) = RewriterPass(d) \cup ExtractorPass(d)
             /\ RewriterPass(d) \cap ExtractorPass(d) = {}
             /\ Visits(d) \subseteq Nat
             /\ 0 \in RewriterPass(d) <=> unit[d].main
             /\ 0 \notin ExtractorPass(d)
             /\ \A n \in Visits(d) \ {0} : <<d, n>> \in Directives
  <2>1. DOMAIN unit[d].nodes \subseteq Nat \ {0}
    BY DeclFacts
  <2>2. /\ ExtractorPass(d) = {n \in DOMAIN unit[d].nodes : unit[d].nodes[n].kind = "task"}
        /\ RewriterPass(d) = (IF unit[d].main THEN {0} ELSE {})
             \cup {n \in DOMAIN unit[d].nodes : unit[d].nodes[n].kind = "taskwait"}
    BY DEF ExtractorPass, RewriterPass, Numbers
  <2>3. Visits(d) = RewriterPass(d) \cup ExtractorPass(d)
    BY DEF Visits
  <2>4. \A n \in Visits(d) \ {0} : <<d, n>> \in Directives
    BY <2>2, <2>3, DirectiveFacts
  <2> QED BY <2>1, <2>2, <2>3, <2>4
<1>2. ASSUME NEW x \in Directives
      PROVE  /\ x[2] \in Nat \ {0} /\ x[2] \in Visits(x[1])
             /\ IsTask(x) <=> x[2] \in ExtractorPass(x[1])
             /\ ~IsTask(x) <=> x[2] \in RewriterPass(x[1])
  <2>1. x[1] \in DOMAIN unit /\ x[2] \in DOMAIN unit[x[1]].nodes
    BY DirectiveFacts
  <2>2. x[2] \in Nat \ {0}
    BY <2>1, DeclFacts
  <2>3. Node(x).kind \in {"task", "taskwait"}
    BY <2>1, UnitAssumption DEF Node
  <2>4. IsTask(x) <=> x[2] \in ExtractorPass(x[1])
    BY <2>1 DEF IsTask, Node, ExtractorPass, Numbers
  <2>5. ~IsTask(x) <=> x[2] \in RewriterPass(x[1])
    BY <2>1, <2>2, <2>3 DEF IsTask, Node, RewriterPass, Numbers
  <2>6. Visits(x[1]) = RewriterPass(x[1]) \cup ExtractorPass(x[1])
    BY <1>1, <2>1
  <2> QED BY <2>2, <2>4, <2>5, <2>6
<1>3. Visits(Len(unit) + 1) = {}
  BY DeclFacts DEF Visits
<1> QED BY <1>1, <1>2, <1>3

(* ... and of the tasks a directive lies within.                           *)
LEMMA AroundFacts ==
  ASSUME unit \in Unit, NEW x \in Directives, NEW y \in Around(x)
  PROVE  /\ y \in Directives /\ y[1] = x[1] /\ y[2] < x[2] /\ IsTask(y)
         /\ Around(y) \subseteq Around(x)
<1>1. x[1] \in DOMAIN unit /\ x[2] \in DOMAIN unit[x[1]].nodes
  BY DirectiveFacts
<1>2. PICK m \in Node(x).within : y = <<x[1], m>>
  BY DEF Around
<1>3. /\ m \in DOMAIN unit[x[1]].nodes /\ m < x[2]
      /\ unit[x[1]].nodes[m].kind = "task"
      /\ unit[x[1]].nodes[m].within \subseteq unit[x[1]].nodes[x[2]].within
  BY <1>1, <1>2, UnitAssumption DEF Node
<1>4. y \in Directives /\ y[1] = x[1] /\ y[2] = m
  BY <1>1, <1>2, <1>3, DirectiveFacts
<1>5. IsTask(y)
  BY <1>3, <1>4 DEF IsTask, Node
<1>6. Around(y) \subseteq Around(x)
  BY <1>3, <1>4 DEF Around, Node
<1> QED BY <1>3, <1>4, <1>5, <1>6

------------------------------------------------------------------------------
(* Whose turn it is: the first of the rewriter's visits, and when there    *)
(* are none left the first of the extractor's.                             *)
LEMMA TurnFacts ==
  ASSUME UnitInv, OrderInv, NEW x, Visiting(x)
  PROVE  /\ stage = "visit" /\ decl \in DOMAIN unit
         /\ x[1] = decl /\ x[2] \in todo /\ x[2] \in Visits(decl)
         /\ x[2] \in RewriterPass(decl) =>
              /\ ExtractorPass(decl) \subseteq todo
              /\ \A m \in todo \cap RewriterPass(decl) : x[2] <= m
         /\ x[2] \in ExtractorPass(decl) =>
              /\ todo \cap RewriterPass(decl) = {}
              /\ \A m \in todo : x[2] <= m
<1>1. /\ stage = "visit" /\ todo # {} /\ x[1] = decl
      /\ x[2] \in Traversal /\ \A n \in Traversal : x[2] <= n
  BY DEF Visiting
<1>2. decl \in DOMAIN unit
  BY <1>1 DEF UnitInv, Visits
<1>3. /\ todo \subseteq RewriterPass(decl) \cup ExtractorPass(decl)
      /\ RewriterPass(decl) \cap ExtractorPass(decl) = {}
      /\ Visits(decl) = RewriterPass(decl) \cup ExtractorPass(decl)
  BY <1>2, VisitFacts DEF UnitInv
<1>4. CASE todo \cap RewriterPass(decl) # {}
  <2>1. Traversal = todo \cap RewriterPass(decl)
    BY <1>4 DEF Traversal
  <2>2. ExtractorPass(decl) \subseteq todo
    BY <1>1, <1>2, <2>1 DEF OrderInv
  <2> QED BY <1>1, <1>2, <1>3, <2>1, <2>2
<1>5. CASE todo \cap RewriterPass(decl) = {}
  <2>1. Traversal = todo \cap ExtractorPass(decl)
    BY <1>5 DEF Traversal
  <2> QED BY <1>1, <1>2, <1>3, <1>5, <2>1
<1> QED BY <1>4, <1>5

(* A visit keeps the order, and it is the only one that has been made.     *)
LEMMA VisitKeepsOrder ==
  ASSUME UnitInv, OrderInv, NEW x, Visiting(x),
         todo' = todo \ {x[2]}, UNCHANGED <<unit, decl, stage>>
  PROVE  /\ UnitInv' /\ OrderInv'
         /\ \A y \in Directives : Visited(y)' <=> Visited(y) \/ (y[1] = decl /\ y[2] = x[2])
<1>1. /\ stage = "visit" /\ decl \in DOMAIN unit
      /\ x[1] = decl /\ x[2] \in todo /\ x[2] \in Visits(decl)
      /\ x[2] \in RewriterPass(decl) =>
           /\ ExtractorPass(decl) \subseteq todo
           /\ \A m \in todo \cap RewriterPass(decl) : x[2] <= m
      /\ x[2] \in ExtractorPass(decl) =>
           /\ todo \cap RewriterPass(decl) = {}
           /\ \A m \in todo : x[2] <= m
  BY TurnFacts
<1>2. /\ Visits(decl) = RewriterPass(decl) \cup ExtractorPass(decl)
      /\ RewriterPass(decl) \cap ExtractorPass(decl) = {}
      /\ Visits(decl) \subseteq Nat
  BY <1>1, VisitFacts DEF UnitInv
<1>3. UnitInv'
  BY DEF UnitInv, Visits, RewriterPass, ExtractorPass, Numbers
<1>4. RewriterPass(decl)' = RewriterPass(decl) /\ ExtractorPass(decl)' = ExtractorPass(decl)
  BY DEF RewriterPass, ExtractorPass, Numbers
<1>5. OrderInv'
  <2> SUFFICES ASSUME NEW n \in todo'
               PROVE  /\ n \in RewriterPass(decl) => ExtractorPass(decl) \subseteq todo'
                      /\ \A m \in RewriterPass(decl) :
                           n \in RewriterPass(decl) /\ n <= m => m \in todo'
                      /\ \A m \in ExtractorPass(decl) :
                           n \in ExtractorPass(decl) /\ n <= m => m \in todo'
    BY <1>4 DEF OrderInv
  <2>1. n \in todo /\ n # x[2] /\ todo \subseteq Visits(decl)
    BY DEF UnitInv
  <2>2. /\ n \in RewriterPass(decl) => ExtractorPass(decl) \subseteq todo
        /\ \A m \in RewriterPass(decl) :
             n \in RewriterPass(decl) /\ n <= m => m \in todo
        /\ \A m \in ExtractorPass(decl) :
             n \in ExtractorPass(decl) /\ n <= m => m \in todo
    BY <1>1, <2>1 DEF OrderInv
  <2>3. n \in RewriterPass(decl) => ExtractorPass(decl) \subseteq todo'
    BY <1>1, <2>1, <2>2
  <2>4. ASSUME NEW m \in RewriterPass(decl), n \in RewriterPass(decl), n <= m
        PROVE  m \in todo'
    <3>1. m \in todo /\ n \in Nat /\ m \in Nat
      BY <1>2, <2>2, <2>4
    <3>2. m # x[2]
      BY <1>1, <2>1, <2>4, <3>1
    <3> QED BY <3>1, <3>2
  <2>5. ASSUME NEW m \in ExtractorPass(decl), n \in ExtractorPass(decl), n <= m
        PROVE  m \in todo'
    <3>1. m \in todo /\ n \in Nat /\ m \in Nat
      BY <1>2, <2>2, <2>5
    <3>2. m # x[2]
      BY <1>1, <2>1, <2>5, <3>1
    <3> QED BY <3>1, <3>2
  <2> QED BY <2>3, <2>4, <2>5
<1>6. \A y \in Directives : Visited(y)' <=> Visited(y) \/ (y[1] = decl /\ y[2] = x[2])
  <2>1. decl \in Nat /\ \A y \in Directives : y[1] \in Nat
    BY DirectiveFacts, DeclFacts DEF UnitInv
  <2> QED BY <2>1 DEF Visited
<1> QED BY <1>3, <1>5, <1>6

(* The edit of a directive in main, or of a task in a task, is addressed   *)
(* to removed text, and no other.                                          *)
LEMMA RemovedIfMoved ==
  ASSUME UnitInv, OrderInv, EditInv, NEW x \in Directives, Visiting(x)
  PROVE  /\ Removed(x) <=> Moved(x)
         /\ ~Visited(x)
<1>1. /\ decl \in DOMAIN unit
      /\ x[1] = decl /\ x[2] \in todo
      /\ x[2] \in RewriterPass(decl) =>
           /\ ExtractorPass(decl) \subseteq todo
           /\ \A m \in todo \cap RewriterPass(decl) : x[2] <= m
      /\ x[2] \in ExtractorPass(decl) =>
           /\ todo \cap RewriterPass(decl) = {}
           /\ \A m \in todo : x[2] <= m
  BY TurnFacts
<1>2. /\ x[2] \in Nat \ {0}
      /\ IsTask(x) <=> x[2] \in ExtractorPass(decl)
      /\ ~IsTask(x) <=> x[2] \in RewriterPass(decl)
      /\ 0 \in RewriterPass(decl) <=> unit[decl].main
      /\ decl \in Nat
  BY <1>1, VisitFacts, DeclFacts DEF UnitInv
<1>3. ~Visited(x)
  BY <1>1, <1>2 DEF Visited
<1>4. BodyMoved(x[1]) <=> InMain(x)
  BY <1>1, <1>2 DEF BodyMoved, InMain
<1>5. \A y \in Around(x) : /\ y \in Directives /\ y[1] = decl /\ y[2] < x[2] /\ IsTask(y)
                           /\ y[2] \in ExtractorPass(decl) /\ y[2] \in Nat
  <2> SUFFICES ASSUME NEW y \in Around(x)
               PROVE  /\ y \in Directives /\ y[1] = decl /\ y[2] < x[2] /\ IsTask(y)
                      /\ y[2] \in ExtractorPass(decl) /\ y[2] \in Nat
    OBVIOUS
  <2>1. y \in Directives /\ y[1] = decl /\ y[2] < x[2] /\ IsTask(y)
    BY <1>1, AroundFacts DEF UnitInv
  <2> QED BY <2>1, VisitFacts DEF UnitInv
<1>6. CASE IsTask(x)
  <2>1. \A y \in Around(x) : y \in DOMAIN code
    BY <1>1, <1>2, <1>5, <1>6 DEF EditInv, Visited
  <2> QED BY <1>3, <1>4, <1>6, <2>1 DEF Removed, Moved
<1>7. CASE ~IsTask(x)
  <2>1. \A y \in Around(x) : y \notin DOMAIN code
    BY <1>1, <1>2, <1>5, <1>7 DEF EditInv, Visited
  <2> QED BY <1>3, <1>4, <1>7, <2>1 DEF Removed, Moved
<1> QED BY <1>6, <1>7

------------------------------------------------------------------------------
(* What is a fact about the unit does not change.                          *)
LEMMA SameUnit ==
  ASSUME UNCHANGED unit
  PROVE  /\ Directives' = Directives
         /\ \A x : /\ IsTask(x)' <=> IsTask(x)
                   /\ InMain(x)' <=> InMain(x)
                   /\ Around(x)' = Around(x)
                   /\ Within(x)' = Within(x)
                   /\ Moved(x)' <=> Moved(x)
         /\ \A d : Visits(d)' = Visits(d)
<1>1. Directives' = Directives
  BY DEF Directives
<1>2. \A x : /\ IsTask(x)' <=> IsTask(x)
             /\ InMain(x)' <=> InMain(x)
             /\ Around(x)' = Around(x)
  BY DEF IsTask, InMain, Around, Node
<1>3. \A x : Within(x)' = Within(x)
  BY <1>1, <1>2 DEF Within
<1>4. \A x : Moved(x)' <=> Moved(x)
  BY <1>2 DEF Moved
<1>5. \A d : Visits(d)' = Visits(d)
  BY DEF Visits, RewriterPass, ExtractorPass, Numbers
<1> QED BY <1>1, <1>2, <1>3, <1>4, <1>5

(* The visit of a directive keeps EditInv.                                 *)
LEMMA VisitKeepsEdits ==
  ASSUME UnitInv, OrderInv, EditInv, NEW x \in Directives, Visiting(x), Edit(x),
         todo' = todo \ {x[2]}, UNCHANGED <<unit, decl, stage>>,
         DOMAIN code' = IF IsTask(x) THEN DOMAIN code \cup {x} ELSE DOMAIN code
  PROVE  EditInv'
<1>1. (Removed(x) <=> Moved(x)) /\ ~Visited(x)
  BY RemovedIfMoved
<1>2. /\ Directives' = Directives
      /\ \A y : (IsTask(y)' <=> IsTask(y)) /\ (Moved(y)' <=> Moved(y))
  BY SameUnit
<1>3. \A y \in Directives : Visited(y)' <=> Visited(y) \/ y = x
  <2>1. x[1] = decl
    BY TurnFacts
  <2>2. \A y \in Directives : y = <<y[1], y[2]>>
    BY DirectiveFacts DEF UnitInv
  <2>3. \A y \in Directives : y[1] = decl /\ y[2] = x[2] <=> y = x
    BY <2>1, <2>2
  <2> QED BY <2>3, VisitKeepsOrder
<1>4. /\ replaced' = IF Moved(x) THEN replaced ELSE replaced \cup {x}
      /\ misplaced' = IF Moved(x) THEN misplaced \cup {x} ELSE misplaced
  BY <1>1 DEF Edit
<1>5. replaced' \cup misplaced' \cup DOMAIN code' \subseteq Directives'
  BY <1>2, <1>4 DEF EditInv
<1>6. ASSUME NEW y \in Directives
      PROVE  /\ y \in replaced' <=> Visited(y)' /\ ~Moved(y)'
             /\ y \in misplaced' <=> Visited(y)' /\ Moved(y)'
             /\ y \in DOMAIN code' <=> Visited(y)' /\ IsTask(y)'
  <2>1. /\ y \in replaced <=> Visited(y) /\ ~Moved(y)
        /\ y \in misplaced <=> Visited(y) /\ Moved(y)
        /\ y \in DOMAIN code <=> Visited(y) /\ IsTask(y)
    BY DEF EditInv
  <2>2. CASE y = x
    BY <1>1, <1>2, <1>3, <1>4, <2>1, <2>2
  <2>3. CASE y # x
    BY <1>2, <1>3, <1>4, <2>1, <2>3
  <2> QED BY <2>2, <2>3
<1> QED BY <1>2, <1>5, <1>6 DEF EditInv

(* A visit that asks for the header keeps HeaderInv.                       *)
LEMMA VisitKeepsHeader ==
  ASSUME UnitInv, HeaderInv, decl \in DOMAIN unit,
         UNCHANGED <<unit, decl, header>>,
         needsHeader' \in [rewriter : BOOLEAN, extractor : BOOLEAN],
         needsHeader'.rewriter \/ needsHeader'.extractor,
         \A y \in replaced' : y \in replaced \/ y[1] = decl
  PROVE  HeaderInv'
<1>1. \A d \in DOMAIN unit : d < decl => d # decl
  BY DeclFacts DEF UnitInv
<1>2. \A d \in DOMAIN unit : d < decl /\ Needs(d)' => Needs(d)
  BY <1>1 DEF Needs
<1> QED BY <1>2 DEF HeaderInv

------------------------------------------------------------------------------
(* Each step keeps ProcessorInv: the visit of main, which edits no         *)
(* directive ...                                                           *)
LEMMA FunctionKeeps ==
  ASSUME ProcessorInv, VisitFunctionDecl
  PROVE  ProcessorInv'
<1>1. /\ Visiting(<<decl, 0>>)
      /\ todo' = todo \ {<<decl, 0>>[2]}
      /\ needsHeader' = [needsHeader EXCEPT !.rewriter = TRUE]
      /\ UNCHANGED <<unit, decl, replaced, misplaced, code, header, stage>>
  BY DEF VisitFunctionDecl
<1>2. decl \in DOMAIN unit
  BY <1>1, TurnFacts DEF ProcessorInv
<1>3. /\ UnitInv' /\ OrderInv'
      /\ \A y \in Directives : Visited(y)' <=> Visited(y) \/ (y[1] = decl /\ y[2] = 0)
  BY <1>1, VisitKeepsOrder DEF ProcessorInv
<1>4. EditInv'
  <2>1. \A y \in Directives : Visited(y)' <=> Visited(y)
    BY <1>3, VisitFacts DEF ProcessorInv, UnitInv
  <2>2. /\ Directives' = Directives
        /\ \A y : (IsTask(y)' <=> IsTask(y)) /\ (Moved(y)' <=> Moved(y))
    BY <1>1, SameUnit
  <2> QED BY <1>1, <2>1, <2>2 DEF ProcessorInv, EditInv
<1>5. TextInv'
  <2>1. \A y : (IsTask(y)' <=> IsTask(y)) /\ (InMain(y)' <=> InMain(y)) /\ Within(y)' = Within(y)
    BY <1>1, SameUnit
  <2> QED BY <1>1, <2>1 DEF ProcessorInv, TextInv
<1>6. HeaderInv'
  BY <1>1, <1>2, VisitKeepsHeader DEF ProcessorInv, HeaderInv
<1> QED BY <1>3, <1>4, <1>5, <1>6 DEF ProcessorInv

(* A taskwait is replaced by a call that the header declares.              *)
LEMMA TaskwaitKeeps ==
  ASSUME ProcessorInv, NEW x \in Directives, VisitOMPTaskwaitDirective(x)
  PROVE  ProcessorInv'
<1>1. /\ Visiting(x) /\ Edit(x) /\ ~IsTask(x)
      /\ todo' = todo \ {x[2]}
      /\ needsHeader' = [needsHeader EXCEPT !.rewriter = TRUE]
      /\ UNCHANGED <<unit, decl, code, header, stage>>
  BY DEF VisitOMPTaskwaitDirective
<1>2. decl \in DOMAIN unit /\ x[1] = decl
  BY <1>1, TurnFacts DEF ProcessorInv
<1>3. UnitInv' /\ OrderInv'
  BY <1>1, VisitKeepsOrder DEF ProcessorInv
<1>4. EditInv'
  BY <1>1, VisitKeepsEdits DEF ProcessorInv
<1>5. TextInv'
  <2>1. \A y : (IsTask(y)' <=> IsTask(y)) /\ (InMain(y)' <=> InMain(y)) /\ Within(y)' = Within(y)
    BY <1>1, SameUnit
  <2> QED BY <1>1, <2>1 DEF ProcessorInv, TextInv
<1>6. HeaderInv'
  <2>1. \A y \in replaced' : y \in replaced \/ y[1] = decl
    BY <1>1, <1>2 DEF Edit
  <2> QED BY <1>1, <1>2, <2>1, VisitKeepsHeader DEF ProcessorInv, HeaderInv
<1> QED BY <1>3, <1>4, <1>5, <1>6 DEF ProcessorInv

(* When the processor gives up on a clause, nothing more happens.          *)
LEMMA TaskKeeps ==
  ASSUME ProcessorInv, NEW x \in Directives, VisitOMPTaskDirective(x)
  PROVE  ProcessorInv'
<1>1. /\ Visiting(x) /\ IsTask(x)
      /\ needsHeader' = [needsHeader EXCEPT !.extractor = TRUE]
      /\ UNCHANGED <<unit, decl, header>>
  BY DEF VisitOMPTaskDirective
<1>2. /\ stage = "visit" /\ decl \in DOMAIN unit /\ x[1] = decl
      /\ x[2] \in ExtractorPass(decl) => todo \cap RewriterPass(decl) = {}
  BY <1>1, TurnFacts DEF ProcessorInv
<1>3. /\ Directives' = Directives
      /\ \A y : /\ (IsTask(y)' <=> IsTask(y)) /\ (InMain(y)' <=> InMain(y))
                /\ Within(y)' = Within(y) /\ (Moved(y)' <=> Moved(y))
      /\ \A d : Visits(d)' = Visits(d)
  BY <1>1, SameUnit
<1>4. CASE stage' = "exit" /\ UNCHANGED <<todo, replaced, misplaced, code>>
  <2>1. UnitInv' /\ OrderInv'
    BY <1>1, <1>3, <1>4
       DEF ProcessorInv, UnitInv, OrderInv, RewriterPass, ExtractorPass, Numbers
  <2>2. EditInv'
    BY <1>1, <1>3, <1>4 DEF ProcessorInv, EditInv, Visited
  <2>3. TextInv'
    BY <1>3, <1>4 DEF ProcessorInv, TextInv
  <2>4. HeaderInv'
    BY <1>1, <1>2, <1>4, VisitKeepsHeader DEF ProcessorInv, HeaderInv
  <2> QED BY <2>1, <2>2, <2>3, <2>4 DEF ProcessorInv
<1>5. ASSUME NEW g,
             Edit(x),
             code' = [y \in DOMAIN code \cup {x} |->
                        IF y = x THEN [text |-> getSourceCode(Within(x)),
                                       caller |-> g.caller, callee |-> g.callee]
                                 ELSE code[y]],
             todo' = todo \ {x[2]},
             UNCHANGED stage
      PROVE  ProcessorInv'
  <2>1. UnitInv' /\ OrderInv'
    BY <1>1, <1>5, VisitKeepsOrder DEF ProcessorInv
  <2>2. DOMAIN code' = DOMAIN code \cup {x}
    BY <1>5
  <2>3. EditInv'
    BY <1>1, <1>5, <2>2, VisitKeepsEdits DEF ProcessorInv
  <2>4. TextInv'
    <3> SUFFICES ASSUME NEW y \in DOMAIN code', NEW z \in Within(y)',
                        ~IsTask(z)', ~InMain(z)'
                 PROVE  z \in code'[y].text
      BY DEF TextInv
    <3>1. z \in Within(y) /\ ~IsTask(z) /\ ~InMain(z)
      BY <1>3
    <3>2. CASE y = x
      <4>1. code'[y].text = replaced \cap Within(x)
        BY <1>5, <2>2, <3>2 DEF getSourceCode
      <4>2. z \in Directives /\ x \in Around(z)
        BY <3>1, <3>2 DEF Within
      <4>3. z[1] = decl
        BY <1>2, <4>2, AroundFacts DEF ProcessorInv, UnitInv
      <4>4. z[2] \in RewriterPass(decl) /\ x[2] \in ExtractorPass(decl)
        BY <1>1, <1>2, <3>1, <4>2, <4>3, VisitFacts DEF ProcessorInv, UnitInv
      <4>5. Visited(z) /\ ~Moved(z)
        BY <1>2, <3>1, <4>3, <4>4 DEF Visited, Moved
      <4> QED BY <3>1, <3>2, <4>1, <4>2, <4>5 DEF ProcessorInv, EditInv
    <3>3. CASE y # x
      <4>1. y \in DOMAIN code /\ code'[y] = code[y]
        BY <1>5, <2>2, <3>3
      <4> QED BY <3>1, <4>1 DEF ProcessorInv, TextInv
    <3> QED BY <3>2, <3>3
  <2>5. HeaderInv'
    <3>1. \A y \in replaced' : y \in replaced \/ y[1] = decl
      BY <1>2, <1>5 DEF Edit
    <3> QED BY <1>1, <1>2, <3>1, VisitKeepsHeader DEF ProcessorInv, HeaderInv
  <2> QED BY <2>1, <2>3, <2>4, <2>5 DEF ProcessorInv
<1> QED BY <1>4, <1>5 DEF VisitOMPTaskDirective

(* The next declaration starts with all its visits to make.                *)
LEMMA DeclKeeps ==
  ASSUME ProcessorInv, HandleTopLevelDecl
  PROVE  ProcessorInv'
<1>1. /\ stage = "visit" /\ decl <= Len(unit) /\ todo = {}
      /\ header' = IF header = 0 /\ (needsHeader.rewriter \/ needsHeader.extractor)
                   THEN decl ELSE header
      /\ decl' = decl + 1 /\ todo' = Visits(decl + 1)
      /\ UNCHANGED <<unit, replaced, misplaced, code, needsHeader, stage>>
  BY DEF HandleTopLevelDecl
<1>2. /\ decl \in Nat \ {0} /\ decl \in DOMAIN unit /\ unit \in Unit /\ Len(unit) \in Nat
      /\ \A d \in DOMAIN unit : d \in Nat \ {0}
  BY <1>1, DeclFacts DEF ProcessorInv, UnitInv
<1>3. /\ Directives' = Directives
      /\ \A y : /\ (IsTask(y)' <=> IsTask(y)) /\ (InMain(y)' <=> InMain(y))
                /\ Within(y)' = Within(y) /\ (Moved(y)' <=> Moved(y))
      /\ \A d : Visits(d)' = Visits(d)
  BY <1>1, SameUnit
<1>4. UnitInv'
  <2>1. Visits(decl)' = Visits(decl + 1)
    BY <1>1 DEF Visits, RewriterPass, ExtractorPass, Numbers
  <2> QED BY <1>1, <1>2, <2>1 DEF UnitInv
<1>5. OrderInv'
  <2> SUFFICES ASSUME decl' \in DOMAIN unit
               PROVE  RewriterPass(decl)' \cup ExtractorPass(decl)' \subseteq todo'
    BY <1>1 DEF OrderInv
  <2>1. todo' = RewriterPass(decl + 1) \cup ExtractorPass(decl + 1)
    BY <1>1 DEF Visits
  <2> QED BY <1>1, <2>1 DEF RewriterPass, ExtractorPass, Numbers
<1>6. \A y \in Directives : Visited(y)' <=> Visited(y)
  <2> SUFFICES ASSUME NEW y \in Directives  PROVE Visited(y)' <=> Visited(y)
    OBVIOUS
  <2>1. y[1] \in Nat /\ y[2] \in Visits(y[1])
    BY <1>2, DirectiveFacts, VisitFacts
  <2>2. Visited(y) <=> y[1] <= decl
    BY <1>1, <1>2, <2>1 DEF Visited
  <2>3. Visited(y)' <=> y[1] <= decl
    BY <1>1, <1>2, <2>1 DEF Visited
  <2> QED BY <2>2, <2>3
<1>7. EditInv'
  BY <1>1, <1>3, <1>6 DEF ProcessorInv, EditInv
<1>8. TextInv'
  BY <1>1, <1>3 DEF ProcessorInv, TextInv
<1>9. HeaderInv'
  <2>1. /\ needsHeader' \in [rewriter : BOOLEAN, extractor : BOOLEAN]
        /\ header' \in Nat /\ header' < decl'
    BY <1>1, <1>2 DEF ProcessorInv, HeaderInv
  <2>2. ASSUME NEW d \in DOMAIN unit, d < decl + 1, Needs(d)'
        PROVE  header' # 0 /\ header' <= d
    <3>1. Needs(d)
      BY <1>1, <2>2 DEF Needs
    <3>2. CASE d = decl
      <4>1. needsHeader.rewriter \/ needsHeader.extractor
        BY <1>2, <3>1, <3>2 DEF ProcessorInv, HeaderInv
      <4> QED BY <1>1, <1>2, <3>2, <4>1 DEF ProcessorInv, HeaderInv
    <3>3. CASE d < decl
      <4>1. header # 0 /\ header <= d
        BY <3>1, <3>3 DEF ProcessorInv, HeaderInv
      <4> QED BY <1>1, <4>1
    <3> QED BY <1>2, <2>2, <3>2, <3>3
  <2>3. ASSUME decl' \in DOMAIN unit  PROVE ~Needs(decl)'
    <3>1. unit[decl + 1].main => 0 \in todo'
      BY <1>1, <1>2, <2>3, VisitFacts
    <3>2. \A x \in replaced : x[1] # decl + 1
      <4>1. \A x \in replaced : x \in Directives /\ Visited(x)
        BY DEF ProcessorInv, EditInv
      <4> QED BY <1>2, <4>1, DirectiveFacts DEF Visited
    <3> QED BY <1>1, <3>1, <3>2 DEF Needs
  <2> QED BY <1>1, <2>1, <2>2, <2>3 DEF HeaderInv
<1> QED BY <1>4, <1>5, <1>7, <1>8, <1>9 DEF ProcessorInv

(* The end of the processor and the program it has written edit nothing.   *)
LEMMA RestKeeps ==
  ASSUME ProcessorInv,
         UNCHANGED <<unit, decl, todo, replaced, misplaced, code, needsHeader, header>>,
         stage' \in {"crash", "written", "abort"} => decl = Len(unit) + 1
  PROVE  ProcessorInv'
<1>1. /\ Directives' = Directives
      /\ \A y : /\ (IsTask(y)' <=> IsTask(y)) /\ (InMain(y)' <=> InMain(y))
                /\ Within(y)' = Within(y) /\ (Moved(y)' <=> Moved(y))
      /\ \A d : Visits(d)' = Visits(d)
  BY SameUnit
<1>2. UnitInv' /\ OrderInv'
  BY <1>1 DEF ProcessorInv, UnitInv, OrderInv, RewriterPass, ExtractorPass, Numbers
<1>3. EditInv'
  BY <1>1 DEF ProcessorInv, EditInv, Visited
<1>4. TextInv'
  BY <1>1 DEF ProcessorInv, TextInv
<1>5. HeaderInv'
  BY DEF ProcessorInv, HeaderInv, Needs
<1> QED BY <1>2, <1>3, <1>4, <1>5 DEF ProcessorInv

------------------------------------------------------------------------------
(* ProcessorInv holds before the first declaration.                        *)
LEMMA ProcessorInit ==
  ASSUME Init
  PROVE  ProcessorInv
<1>1. /\ unit \in Unit /\ decl = 1 /\ todo = Visits(1)
      /\ replaced = {} /\ misplaced = {} /\ DOMAIN code = {}
      /\ needsHeader \in [rewriter : BOOLEAN, extractor : BOOLEAN]
      /\ header = 0 /\ stage = "visit"
  BY DEF Init
<1>2. /\ Len(unit) \in Nat
      /\ \A d \in DOMAIN unit : d \in Nat \ {0}
  BY <1>1, DeclFacts
<1>3. UnitInv
  BY <1>1, <1>2 DEF UnitInv
<1>4. OrderInv
  BY <1>1 DEF OrderInv, Visits
<1>5. \A y \in Directives : ~Visited(y)
  BY <1>1, <1>2, DirectiveFacts, VisitFacts DEF Visited
<1>6. EditInv
  BY <1>1, <1>5 DEF EditInv
<1>7. TextInv
  BY <1>1 DEF TextInv
<1>8. HeaderInv
  <2>1. \A d \in DOMAIN unit : ~(d < 1)
    BY <1>2
  <2>2. decl \in DOMAIN unit => ~Needs(decl)
    BY <1>1, VisitFacts DEF Needs
  <2> QED BY <1>1, <2>1, <2>2 DEF HeaderInv
<1> QED BY <1>3, <1>4, <1>6, <1>7, <1>8 DEF ProcessorInv

(* ProcessorInv is an invariant of the processor and what it writes.       *)
THEOREM ProcessorInvariance == Spec => []ProcessorInv
<1>1. Init => ProcessorInv
  BY ProcessorInit
<1>2. ASSUME ProcessorInv, [Next]_vars  PROVE ProcessorInv'
  <2>1. CASE VisitFunctionDecl
    BY <1>2, <2>1, FunctionKeeps
  <2>2. ASSUME NEW x \in Directives, VisitOMPTaskwaitDirective(x)  PROVE ProcessorInv'
    BY <1>2, <2>2, TaskwaitKeeps
  <2>3. ASSUME NEW x \in Directives, VisitOMPTaskDirective(x)  PROVE ProcessorInv'
    BY <1>2, <2>3, TaskKeeps
  <2>4. CASE HandleTopLevelDecl
    BY <1>2, <2>4, DeclKeeps
  <2>5. CASE finalize
    <3>1. /\ UNCHANGED <<unit, decl, todo, replaced, misplaced, code, needsHeader, header>>
          /\ decl > Len(unit)
      BY <2>5 DEF finalize
    <3>2. decl = Len(unit) + 1
      BY <1>2, <3>1, DeclFacts DEF ProcessorInv, UnitInv
    <3> QED BY <1>2, <3>1, <3>2, RestKeeps
  <2>6. ASSUME NEW x \in Directives, prepare(x) \/ taskwait(x)  PROVE ProcessorInv'
    <3>1. /\ UNCHANGED <<unit, decl, todo, replaced, misplaced, code, needsHeader, header>>
          /\ stage = "written"
      BY <2>6 DEF prepare, taskwait
    <3> QED BY <1>2, <3>1, RestKeeps DEF ProcessorInv, UnitInv
  <2>7. CASE UNCHANGED vars
    BY <1>2, <2>7, RestKeeps DEF ProcessorInv, UnitInv, vars
  <2> QED BY <1>2, <2>1, <2>2, <2>3, <2>4, <2>5, <2>6, <2>7 DEF Next, Visit
<1> QED BY <1>1, <1>2, PTL DEF Spec

(* Which directives are edited where they are executed, and which edits go *)
(* to text that has been removed, does not depend on anything else in the  *)
(* unit.                                                                   *)
THEOREM ReplacedTheorem == Spec => []WhatIsReplaced
<1>1. ASSUME ProcessorInv, stage = "written"
      PROVE  /\ misplaced = {} <=>
                  \A x \in Directives : ~InMain(x) /\ ~(IsTask(x) /\ Around(x) # {})
             /\ misplaced = {} => \A x \in Directives : ReplacedWhereExecuted(x) <=> InFile(x)
  <2>1. unit \in Unit /\ decl = Len(unit) + 1
    BY <1>1 DEF ProcessorInv, UnitInv
  <2>2. \A x \in Directives : Visited(x)
    BY <2>1, DirectiveFacts, DeclFacts DEF Visited
  <2>3. misplaced = {} <=> \A x \in Directives : ~Moved(x)
    BY <1>1, <2>2 DEF ProcessorInv, EditInv
  <2>4. ASSUME misplaced = {}, NEW x \in Directives
        PROVE  ReplacedWhereExecuted(x) <=> InFile(x)
    <3>1. /\ ~InMain(x) /\ (Around(x) # {} => ~IsTask(x))
          /\ x \in replaced
      BY <1>1, <2>2, <2>3, <2>4 DEF ProcessorInv, EditInv, Moved
    <3>2. CASE Around(x) = {}
      BY <3>1, <3>2 DEF ReplacedWhereExecuted
    <3>3. CASE Around(x) # {}
      <4>1. ReplacedWhereExecuted(x) <=>
              \E y \in Around(x) : Created(y) /\ Around(y) = {} /\ x \in code[y].text
        BY <3>1, <3>3 DEF ReplacedWhereExecuted
      <4>2. \A y \in Around(x) : y \in Directives /\ IsTask(y) /\ (InFile(y) <=> InFile(x))
        BY <2>1, AroundFacts DEF InFile
      <4>3. \A y \in Around(x) : /\ y \in replaced /\ Around(y) = {}
                                 /\ y \in DOMAIN code /\ x \in Within(y)
        BY <1>1, <2>2, <2>3, <2>4, <4>2 DEF ProcessorInv, EditInv, Moved, Within
      <4>4. \A y \in Around(x) : x \in code[y].text
        BY <1>1, <3>1, <3>3, <4>3 DEF ProcessorInv, TextInv
      <4> QED BY <3>3, <4>1, <4>2, <4>3, <4>4 DEF Created
    <3> QED BY <3>2, <3>3
  <2> QED BY <2>3, <2>4 DEF Moved
<1>2. ProcessorInv => WhatIsReplaced
  BY <1>1 DEF WhatIsReplaced
<1> QED BY <1>2, ProcessorInvariance, PTL

(* The includes precede everything that needs them if and only if they did *)
(* not go to an included file or to main, whatever needsHeader was before  *)
(* the first visit.                                                        *)
THEOREM HeaderTheorem == Spec => []HeaderPrecedesUse
<1>1. ASSUME ProcessorInv, stage = "written", UsesHeader # {}
      PROVE  /\ header # 0
             /\ HeaderInTime <=> ~unit[header].included /\ ~unit[header].main
  <2>1. unit \in Unit /\ decl = Len(unit) + 1 /\ header \in Nat /\ header < decl
    BY <1>1 DEF ProcessorInv, UnitInv, HeaderInv
  <2>2. /\ Len(unit) \in Nat
        /\ \A d : d \in DOMAIN unit <=> d \in Nat \ {0} /\ d <= Len(unit)
    BY <2>1, DeclFacts
  <2>3. \A d \in UsesHeader : d \in DOMAIN unit /\ Needs(d)
    <3> SUFFICES ASSUME NEW d \in UsesHeader  PROVE d \in DOMAIN unit /\ Needs(d)
      OBVIOUS
    <3>1. CASE d \in DOMAIN unit /\ unit[d].main
      BY <2>1, <2>2, <3>1 DEF Needs
    <3>2. CASE \E x \in replaced : d = x[1]
      BY <1>1, <2>1, <3>2, DirectiveFacts DEF ProcessorInv, EditInv, Needs
    <3> QED BY <3>1, <3>2 DEF UsesHeader
  <2>4. \A d \in UsesHeader : header # 0 /\ header <= d /\ d \in Nat
    BY <1>1, <2>1, <2>2, <2>3 DEF ProcessorInv, HeaderInv
  <2>5. header # 0 /\ header \in DOMAIN unit
    BY <1>1, <2>1, <2>2, <2>4
  <2>6. ASSUME ~unit[header].included, ~unit[header].main  PROVE HeaderInTime
    BY <2>1, <2>4, <2>6 DEF HeaderInTime
  <2>7. ASSUME HeaderInTime  PROVE ~unit[header].included /\ ~unit[header].main
    <3>1. ~unit[header].included
      BY <1>1, <2>7 DEF HeaderInTime
    <3>2. unit[header].main => header \in UsesHeader
      BY <2>5 DEF UsesHeader
    <3>3. ~unit[header].main
      BY <2>1, <2>7, <3>2 DEF HeaderInTime
    <3> QED BY <3>1, <3>3
  <2> QED BY <2>5, <2>6, <2>7
<1>2. ProcessorInv => HeaderPrecedesUse
  BY <1>1 DEF HeaderPrecedesUse
<1> QED BY <1>2, ProcessorInvariance, PTL

------------------------------------------------------------------------------
(* Every nonempty set of places has a least one.                           *)
LEMMA LeastPlace ==
  ASSUME NEW P \in SUBSET Nat, P # {}
  PROVE  \E x \in P : \A y \in P : x <= y
<1> DEFINE F == {0 .. n : n \in P}
<1>1. IsWellFoundedOn(StrictSubsetOrdering(Nat), FiniteSubsetsOf(Nat))
  BY FS_StrictSubsetOrderingWellFounded
<1>2. F \subseteq FiniteSubsetsOf(Nat) /\ F # {}
  <2>1. \A n \in P : IsFiniteSet(0 .. n) /\ 0 .. n \in SUBSET Nat
    BY FS_Interval
  <2> QED BY <2>1 DEF FiniteSubsetsOf
<1>3. \E x \in F : \A y \in F : <<y, x>> \notin StrictSubsetOrdering(Nat)
  BY <1>1, <1>2, WFMin, Zenon
<1>4. PICK m \in P : \A y \in F : <<y, 0 .. m>> \notin StrictSubsetOrdering(Nat)
  BY <1>3
<1>5. \A y \in P : ~(y < m)
  <2> SUFFICES ASSUME NEW y \in P, y < m PROVE FALSE
    OBVIOUS
  <2>1. /\ 0 .. y \subseteq 0 .. m /\ 0 .. y # 0 .. m
        /\ 0 .. y \in SUBSET Nat /\ 0 .. m \in SUBSET Nat
    <3>1. m \in 0 .. m /\ m \notin 0 .. y
      OBVIOUS
    <3> QED BY <3>1
  <2>2. <<0 .. y, 0 .. m>> \in StrictSubsetOrdering(Nat)
    BY <2>1, SMT DEF StrictSubsetOrdering
  <2> QED BY <1>4, <2>2
<1> QED BY <1>5

(* What VariableAssumption says of the variables of a task.                *)
Named(q) ==
  /\ Len(q) \in Nat /\ DOMAIN q = 1 .. Len(q)
  /\ \A i \in DOMAIN q : q[i].layers \in Nat /\ q[i].trivial \in BOOLEAN
  /\ \A i, j \in DOMAIN q : q[i].name = q[j].name => q[i] = q[j]

(* The variables of a task are such.                                       *)
LEMMA VariableFacts ==
  ASSUME unit \in Unit, NEW x \in Directives, IsTask(x)
  PROVE  Named(Requested(Node(x).clauses))
<1>1. x[1] \in DOMAIN unit /\ x[2] \in DOMAIN unit[x[1]].nodes
  BY DirectiveFacts
<1> DEFINE q == Requested(Node(x).clauses)
<1>2. q = Requested(unit[x[1]].nodes[x[2]].clauses) /\ unit[x[1]].nodes[x[2]].kind = "task"
  BY DEF Node, IsTask
<1> HIDE DEF q
<1>3. /\ Len(q) \in Nat /\ DOMAIN q = 1 .. Len(q)
      /\ \A v \in ToSet(q) : v.layers \in Nat /\ v.trivial \in BOOLEAN
      /\ \A v, w \in ToSet(q) : v.name = w.name => v = w
  BY <1>1, <1>2, VariableAssumption
<1>4. \A i \in DOMAIN q : q[i] \in ToSet(q)
  BY DEF ToSet
<1>5. Named(q)
  BY <1>3, <1>4 DEF Named
<1> QED BY <1>5 DEF q

(* What is generated for one variable in the caller and in the callee.     *)
InCaller(v) == [var |-> v, derefs |-> v.layers, size |-> getVarSize(v), copy |-> v.layers = 0]
InCallee(v, place) == [name |-> v.name, layers |-> v.layers, argument |-> place]

Names(q) == {q[i].name : i \in DOMAIN q}
Callers(q) == {InCaller(q[i]) : i \in DOMAIN q}
Callees(q) == {InCallee(q[i], place) : i \in DOMAIN q, place \in Nat \ {0}}

(* After the first n of the variables q every name is handled once, what   *)
(* is generated for it stands at the same place in caller and callee, and  *)
(* unless the processor has given up none of the n is missing.             *)
Matched(g, q, n) ==
  /\ g \in [exit : BOOLEAN, handled : Seq(Names(q)), caller : Seq(Callers(q)),
            callee : Seq(Callees(q))]
  /\ Len(g.caller) = Len(g.handled) /\ Len(g.callee) = Len(g.handled)
  /\ \A i, j \in 1 .. Len(g.handled) : g.handled[i] = g.handled[j] => i = j
  /\ \A i \in 1 .. Len(g.handled) : \E k \in 1 .. n :
       /\ g.handled[i] = q[k].name
       /\ g.caller[i] = InCaller(q[k]) /\ g.callee[i] = InCallee(q[k], i)
  /\ ~g.exit => \A k \in 1 .. n : \E i \in 1 .. Len(g.handled) : g.handled[i] = q[k].name

(* Nothing has been handled.                                               *)
LEMMA MatchedAtFirst ==
  ASSUME NEW q, NEW b \in BOOLEAN, NEW n, n = 0 \/ b
  PROVE  Matched([Handled(<< >>) EXCEPT !.exit = b], q, n)
<1> DEFINE g == [Handled(<< >>) EXCEPT !.exit = b]
<1>1. g = [exit |-> b, handled |-> << >>, caller |-> << >>, callee |-> << >>]
  BY DEF Handled
<1>2. << >> \in Seq(Names(q)) /\ << >> \in Seq(Callers(q)) /\ << >> \in Seq(Callees(q))
  OBVIOUS
<1>3. g \in [exit : BOOLEAN, handled : Seq(Names(q)), caller : Seq(Callers(q)),
             callee : Seq(Callees(q))]
  BY <1>1, <1>2
<1>4. /\ g.exit = b /\ Len(g.handled) = 0 /\ Len(g.caller) = 0 /\ Len(g.callee) = 0
      /\ 1 .. 0 = {}
  BY <1>1
<1>5. n = 0 => 1 .. n = {}
  OBVIOUS
<1> HIDE DEF g
<1>6. Matched(g, q, n)
  BY <1>3, <1>4, <1>5 DEF Matched
<1> QED BY <1>6 DEF g

(* A capture leaves everything matched.                                    *)
LEMMA CaptureMatches ==
  ASSUME NEW q, Named(q), NEW n \in 1 .. Len(q), NEW g, Matched(g, q, n - 1)
  PROVE  Matched(insertVarCapture(g, q[n]), q, n)
<1> DEFINE v == q[n]
           h == insertVarCapture(g, v)
<1>1. /\ g \in [exit : BOOLEAN, handled : Seq(Names(q)), caller : Seq(Callers(q)),
               callee : Seq(Callees(q))]
      /\ Len(g.caller) = Len(g.handled) /\ Len(g.callee) = Len(g.handled)
      /\ \A i, j \in 1 .. Len(g.handled) : g.handled[i] = g.handled[j] => i = j
      /\ \A i \in 1 .. Len(g.handled) : \E k \in 1 .. n - 1 :
           /\ g.handled[i] = q[k].name
           /\ g.caller[i] = InCaller(q[k]) /\ g.callee[i] = InCallee(q[k], i)
      /\ ~g.exit =>
           \A k \in 1 .. n - 1 : \E i \in 1 .. Len(g.handled) : g.handled[i] = q[k].name
  BY DEF Matched
<1>2. /\ n \in DOMAIN q /\ v.layers \in Nat /\ v.trivial \in BOOLEAN
      /\ n \in Nat /\ Len(q) \in Nat
      /\ \A k : k \in 1 .. n <=> k \in 1 .. n - 1 \/ k = n
  BY DEF Named
<1>3. Len(g.handled) \in Nat /\ DOMAIN g.handled = 1 .. Len(g.handled)
  BY <1>1, LenProperties
<1>4. Known(g, v) <=> \E i \in 1 .. Len(g.handled) : g.handled[i] = v.name
  BY <1>3 DEF Known, ToSet
<1> HIDE DEF v
<1>5. CASE g.exit
  <2>1. h = g
    BY <1>5 DEF insertVarCapture
  <2> QED BY <1>1, <1>2, <1>5, <2>1 DEF Matched, v
<1>6. CASE ~g.exit /\ ~v.trivial
  <2>1. h = [g EXCEPT !.exit = TRUE]
    BY <1>6 DEF insertVarCapture
  <2>2. /\ h \in [exit : BOOLEAN, handled : Seq(Names(q)), caller : Seq(Callers(q)),
                  callee : Seq(Callees(q))]
        /\ h.exit /\ h.handled = g.handled /\ h.caller = g.caller /\ h.callee = g.callee
    BY <1>1, <2>1
  <2> HIDE DEF h
  <2>3. Matched(h, q, n)
    BY <1>1, <1>2, <2>2 DEF Matched
  <2> QED BY <2>3 DEF h, v
<1>7. CASE ~g.exit /\ v.trivial /\ Known(g, v)
  <2>1. h = g
    BY <1>7 DEF insertVarCapture
  <2>2. \A k \in 1 .. n : \E i \in 1 .. Len(g.handled) : g.handled[i] = q[k].name
    BY <1>1, <1>2, <1>4, <1>7 DEF v
  <2>3. \A i \in 1 .. Len(g.handled) : \E k \in 1 .. n :
          /\ g.handled[i] = q[k].name
          /\ g.caller[i] = InCaller(q[k]) /\ g.callee[i] = InCallee(q[k], i)
    BY <1>1, <1>2
  <2>4. Matched(g, q, n)
    BY <1>1, <2>2, <2>3 DEF Matched
  <2> QED BY <2>1, <2>4 DEF v
<1>8. CASE ~g.exit /\ v.trivial /\ ~Known(g, v)
  <2> DEFINE place == Len(g.handled) + 1
             b == v.type = "open array parameter"
  <2>1. h = [exit |-> b, handled |-> Append(g.handled, v.name),
             caller |-> Append(g.caller, InCaller(v)),
             callee |-> Append(g.callee, InCallee(v, place))]
    BY <1>8 DEF insertVarCapture, InCaller, InCallee
  <2> HIDE DEF h, b
  <2>2. /\ v.name \in Names(q) /\ InCaller(v) \in Callers(q)
        /\ place \in Nat \ {0} /\ InCallee(v, place) \in Callees(q)
    BY <1>2, <1>3 DEF Names, Callers, Callees, v
  <2>3. /\ h.exit = b
        /\ h.handled = Append(g.handled, v.name)
        /\ h.caller = Append(g.caller, InCaller(v))
        /\ h.callee = Append(g.callee, InCallee(v, place))
    BY <2>1
  <2>4. /\ h.handled \in Seq(Names(q)) /\ Len(h.handled) = place
        /\ h.handled[place] = v.name
        /\ \A i \in 1 .. Len(g.handled) : h.handled[i] = g.handled[i]
    BY <1>1, <2>2, <2>3, AppendProperties
  <2>5. /\ h.caller \in Seq(Callers(q)) /\ Len(h.caller) = place
        /\ h.caller[place] = InCaller(v)
        /\ \A i \in 1 .. Len(g.handled) : h.caller[i] = g.caller[i]
    BY <1>1, <2>2, <2>3, AppendProperties
  <2>6. /\ h.callee \in Seq(Callees(q)) /\ Len(h.callee) = place
        /\ h.callee[place] = InCallee(v, place)
        /\ \A i \in 1 .. Len(g.handled) : h.callee[i] = g.callee[i]
    BY <1>1, <2>2, <2>3, AppendProperties
  <2>7. h \in [exit : BOOLEAN, handled : Seq(Names(q)), caller : Seq(Callers(q)),
               callee : Seq(Callees(q))]
    <3>1. b \in BOOLEAN
      BY DEF b
    <3> QED BY <2>1, <2>3, <2>4, <2>5, <2>6, <3>1
  <2>8. \A i : i \in 1 .. place <=> i \in 1 .. Len(g.handled) \/ i = place
    BY <1>3
  <2> HIDE DEF place
  <2>9. \A i, j \in 1 .. place : h.handled[i] = h.handled[j] => i = j
    <3>1. \A i \in 1 .. Len(g.handled) : h.handled[i] # h.handled[place]
      BY <1>4, <1>8, <2>4
    <3>2. \A i, j \in 1 .. Len(g.handled) : h.handled[i] = h.handled[j] => i = j
      BY <1>1, <2>4
    <3> QED BY <2>8, <3>1, <3>2
  <2>10. \A i \in 1 .. place : \E k \in 1 .. n :
           /\ h.handled[i] = q[k].name
           /\ h.caller[i] = InCaller(q[k]) /\ h.callee[i] = InCallee(q[k], i)
    <3> SUFFICES ASSUME NEW i \in 1 .. place
                 PROVE  \E k \in 1 .. n :
                          /\ h.handled[i] = q[k].name
                          /\ h.caller[i] = InCaller(q[k]) /\ h.callee[i] = InCallee(q[k], i)
      OBVIOUS
    <3>1. CASE i = place
      BY <2>4, <2>5, <2>6, <3>1 DEF v
    <3>2. CASE i \in 1 .. Len(g.handled)
      <4>1. PICK k \in 1 .. n - 1 :
              /\ g.handled[i] = q[k].name
              /\ g.caller[i] = InCaller(q[k]) /\ g.callee[i] = InCallee(q[k], i)
        BY <1>1, <3>2
      <4> QED BY <1>2, <2>4, <2>5, <2>6, <3>2, <4>1
    <3> QED BY <2>8, <3>1, <3>2
  <2>11. \A k \in 1 .. n : \E i \in 1 .. place : h.handled[i] = q[k].name
    <3> SUFFICES ASSUME NEW k \in 1 .. n PROVE \E i \in 1 .. place : h.handled[i] = q[k].name
      OBVIOUS
    <3>1. CASE k = n
      BY <2>4, <2>8, <3>1 DEF v
    <3>2. CASE k \in 1 .. n - 1
      <4>1. PICK i \in 1 .. Len(g.handled) : g.handled[i] = q[k].name
        BY <1>1, <1>8, <3>2
      <4> QED BY <2>4, <2>8, <4>1
    <3> QED BY <1>2, <3>1, <3>2
  <2>12. Matched(h, q, n)
    BY <2>4, <2>5, <2>6, <2>7, <2>9, <2>10, <2>11 DEF Matched
  <2> QED BY <2>12 DEF h, v
<1>9. (g.exit \/ ~g.exit) /\ (Known(g, v) \/ ~Known(g, v))
  OBVIOUS
<1> QED BY <1>2, <1>5, <1>6, <1>7, <1>8, <1>9
(* Captured goes through the variables one by one: f[i] is what has been   *)
(* generated after i of them.                                              *)
Capturing(n, f, q) ==
  f = [i \in 0 .. n |-> IF i = 0 THEN Handled(<< >>) ELSE insertVarCapture(f[i - 1], q[i])]

(* Every step leaves everything matched: the least that does not is        *)
(* neither 0 nor a successor.                                              *)
LEMMA CapturingMatches ==
  ASSUME NEW q, Named(q), NEW f, Capturing(Len(q), f, q)
  PROVE  \A i \in 0 .. Len(q) : Matched(f[i], q, i)
<1>1. /\ Len(q) \in Nat /\ f[0] = Handled(<< >>)
      /\ \A i \in 1 .. Len(q) : f[i] = insertVarCapture(f[i - 1], q[i])
  <2>1. \A i \in 0 .. Len(q) :
          f[i] = IF i = 0 THEN Handled(<< >>) ELSE insertVarCapture(f[i - 1], q[i])
    BY DEF Capturing
  <2> QED BY <2>1 DEF Named
<1> DEFINE Bad == {i \in 0 .. Len(q) : ~Matched(f[i], q, i)}
<1>2. Bad = {}
  <2>0. Bad \in SUBSET Nat
    OBVIOUS
  <2> SUFFICES ASSUME Bad # {} PROVE FALSE
    OBVIOUS
  <2>1. PICK i \in Bad : \A y \in Bad : i <= y
    BY <2>0, LeastPlace
  <2>2. i # 0
    <3>1. Handled(<< >>) = [Handled(<< >>) EXCEPT !.exit = FALSE]
      <4>1. Handled(<< >>) \in [exit : {FALSE}, handled : {<< >>}, caller : {<< >>},
                                  callee : {<< >>}]
        BY DEF Handled
      <4> QED BY <4>1
    <3>2. Matched([Handled(<< >>) EXCEPT !.exit = FALSE], q, 0)
      BY MatchedAtFirst
    <3> QED BY <1>1, <2>1, <3>1, <3>2
  <2>3. i \in 1 .. Len(q) /\ i - 1 \in 0 .. Len(q) /\ i - 1 \notin Bad
    BY <1>1, <2>1, <2>2
  <2>4. Matched(f[i - 1], q, i - 1)
    BY <2>3
  <2>5. Matched(insertVarCapture(f[i - 1], q[i]), q, i)
    BY <2>3, <2>4, CaptureMatches
  <2> QED BY <1>1, <2>1, <2>3, <2>5
<1> QED BY <1>2

(* There is such a function for any number of variables.                   *)
LEMMA CapturingExists ==
  ASSUME NEW n \in Nat, NEW q
  PROVE  \E f : Capturing(n, f, q)
<1> DEFINE Bad == {i \in 0 .. n : ~ \E f : Capturing(i, f, q)}
<1>1. Bad = {}
  <2>0. Bad \in SUBSET Nat
    OBVIOUS
  <2> SUFFICES ASSUME Bad # {} PROVE FALSE
    OBVIOUS
  <2>1. PICK i \in Bad : \A y \in Bad : i <= y
    BY <2>0, LeastPlace
  <2>2. i # 0
    <3>1. Capturing(0, [j \in 0 .. 0 |-> Handled(<< >>)], q)
      BY DEF Capturing
    <3> QED BY <2>1, <3>1
  <2>3. i - 1 \in 0 .. n /\ i - 1 \notin Bad
    BY <2>1, <2>2
  <2>4. PICK f : Capturing(i - 1, f, q)
    BY <2>3
  <2>5. i \in 1 .. n /\ i - 1 \in Nat
    BY <2>1, <2>2
  <2> PICK g : g = [j \in 0 .. i |-> IF j = i THEN insertVarCapture(f[i - 1], q[i]) ELSE f[j]]
    OBVIOUS
  <2>6. Capturing(i, g, q)
    <3>1. /\ f[0] = Handled(<< >>)
          /\ \A j \in 1 .. i - 1 : f[j] = insertVarCapture(f[j - 1], q[j])
      BY <2>4, <2>5 DEF Capturing
    <3>2. \A j \in 0 .. i :
            g[j] = IF j = 0 THEN Handled(<< >>) ELSE insertVarCapture(g[j - 1], q[j])
      <4> SUFFICES ASSUME NEW j \in 0 .. i
                   PROVE  g[j] = IF j = 0 THEN Handled(<< >>)
                                 ELSE insertVarCapture(g[j - 1], q[j])
        OBVIOUS
      <4>1. CASE j = 0
        BY <2>5, <3>1, <4>1
      <4>2. CASE j = i
        <5>1. g[i] = insertVarCapture(f[i - 1], q[i]) /\ g[i - 1] = f[i - 1] /\ i # 0
          BY <2>5
        <5> QED BY <4>2, <5>1
      <4>3. CASE j \in 1 .. i - 1
        <5>1. g[j] = f[j] /\ g[j - 1] = f[j - 1] /\ j # 0
          BY <2>5, <4>3
        <5> QED BY <3>1, <4>3, <5>1
      <4> QED BY <2>5, <4>1, <4>2, <4>3
    <3>3. g = [j \in 0 .. i |-> g[j]]
      OBVIOUS
    <3> QED BY <3>2, <3>3 DEF Capturing
  <2> QED BY <2>1, <2>6
<1> QED BY <1>1

(* What is generated for a task is matched.                                *)
LEMMA CapturedMatches ==
  ASSUME NEW c, Named(Requested(c))
  PROVE  Matched(Captured(c, << >>), Requested(c), Len(Requested(c)))
<1> DEFINE q == Requested(c)
<1>1. CASE c.expression
  <2>1. Captured(c, << >>) = [Handled(<< >>) EXCEPT !.exit = TRUE]
    BY <1>1 DEF Captured
  <2>2. Matched([Handled(<< >>) EXCEPT !.exit = TRUE], q, Len(q))
    BY MatchedAtFirst
  <2> QED BY <2>1, <2>2
<1>2. CASE ~c.expression
  <2> DEFINE after[i \in 0 .. Len(q)] ==
               IF i = 0 THEN Handled(<< >>) ELSE insertVarCapture(after[i - 1], q[i])
  <2>1. Captured(c, << >>) = after[Len(q)]
    BY <1>2, Zenon DEF Captured
  <2>2. Len(q) \in Nat
    BY DEF Named
  <2> HIDE DEF q
  <2>3. after = [i \in 0 .. Len(q) |->
                  IF i = 0 THEN Handled(<< >>) ELSE insertVarCapture(after[i - 1], q[i])]
    <3>1. \E f : f = [i \in 0 .. Len(q) |->
                  IF i = 0 THEN Handled(<< >>) ELSE insertVarCapture(f[i - 1], q[i])]
      BY <2>2, CapturingExists DEF Capturing
    <3> QED BY <3>1, Zenon
  <2> HIDE DEF after
  <2>4. Capturing(Len(q), after, q)
    BY <2>3, Zenon DEF Capturing
  <2>5. Named(q)
    BY DEF q
  <2>6. Matched(after[Len(q)], q, Len(q))
    BY <2>2, <2>4, <2>5, CapturingMatches
  <2> QED BY <2>1, <2>6 DEF q
<1> QED BY <1>1, <1>2

------------------------------------------------------------------------------
(* Behind k of its layers a variable of the callee finds the next pointer, *)
(* behind all but one the object, and behind all the value.                *)
Found(n, f, c) ==
  f = [k \in 0 .. n |-> Content(c, IF k = 0 THEN pointer(c)[0] ELSE f[k - 1])]

Place(c, k) == CASE k + 1 < c.layers -> k + 2
                 [] k + 1 = c.layers -> Object
                 [] k = c.layers     -> Value

(* Place says what is found, one layer after the other.                    *)
LEMMA PointerFacts ==
  ASSUME NEW c, c.layers \in Nat, NEW k \in 0 .. c.layers
  PROVE  Content(c, IF k = 0 THEN pointer(c)[0] ELSE Place(c, k - 1)) = Place(c, k)
<1>1. \A j \in 0 .. c.layers : pointer(c)[j] = IF j = c.layers THEN Object ELSE j + 1
  BY DEF pointer
<1>2. Content(c, Object) = Value
  BY DEF Content
<1>3. \A j \in 0 .. c.layers : Content(c, j) = IF j = c.layers THEN Object ELSE j + 1
  BY <1>1 DEF Content, Object, Value
<1>4. CASE k = 0 /\ c.layers = 0
  BY <1>1, <1>2, <1>4 DEF Place
<1>5. CASE k = 0 /\ c.layers # 0
  <2>1. pointer(c)[0] = 1 /\ Content(c, 1) = IF 1 = c.layers THEN Object ELSE 2
    BY <1>1, <1>3, <1>5
  <2> QED BY <1>5, <2>1 DEF Place
<1>6. CASE k # 0 /\ k = c.layers
  <2>1. Place(c, k - 1) = Object
    BY <1>6 DEF Place
  <2> QED BY <1>2, <1>6, <2>1 DEF Place
<1>7. CASE k # 0 /\ k < c.layers
  <2>1. Place(c, k - 1) = k + 1 /\ k + 1 \in 0 .. c.layers
    BY <1>7 DEF Place
  <2>2. Content(c, k + 1) = IF k + 1 = c.layers THEN Object ELSE k + 2
    BY <1>3, <2>1
  <2> QED BY <1>7, <2>1, <2>2 DEF Place
<1> QED BY <1>4, <1>5, <1>6, <1>7

(* The variable a callee declares has the value of its object.             *)
LEMMA ValueBehind ==
  ASSUME NEW c, c.layers \in Nat
  PROVE  Behind(c)[c.layers] = Value
<1> DEFINE n == c.layers
           found[k \in 0 .. n] == Content(c, IF k = 0 THEN pointer(c)[0] ELSE found[k - 1])
<1>1. Behind(c) = found
  BY Zenon DEF Behind
<1>2. \E f : Found(n, f, c)
  <2> PICK g : g = [k \in 0 .. n |-> Place(c, k)]
    OBVIOUS
  <2>1. \A k \in 0 .. n : g[k] = Content(c, IF k = 0 THEN pointer(c)[0] ELSE g[k - 1])
    <3> SUFFICES ASSUME NEW k \in 0 .. n
                 PROVE  g[k] = Content(c, IF k = 0 THEN pointer(c)[0] ELSE g[k - 1])
      OBVIOUS
    <3>1. k # 0 => k - 1 \in 0 .. n /\ g[k - 1] = Place(c, k - 1)
      OBVIOUS
    <3>2. g[k] = Place(c, k)
      OBVIOUS
    <3> QED BY <3>1, <3>2, PointerFacts
  <2>2. g = [k \in 0 .. n |-> g[k]]
    OBVIOUS
  <2>3. g = [k \in 0 .. n |-> Content(c, IF k = 0 THEN pointer(c)[0] ELSE g[k - 1])]
    BY <2>1, <2>2
  <2> QED BY <2>3 DEF Found
<1>3. found = [k \in 0 .. n |-> Content(c, IF k = 0 THEN pointer(c)[0] ELSE found[k - 1])]
  BY <1>2, Zenon DEF Found
<1> HIDE DEF found
<1>4. \A k \in 0 .. n : found[k] = Content(c, IF k = 0 THEN pointer(c)[0] ELSE found[k - 1])
  <2> DEFINE e(k) == Content(c, IF k = 0 THEN pointer(c)[0] ELSE found[k - 1])
  <2>1. found = [k \in 0 .. n |-> e(k)]
    BY <1>3
  <2> HIDE DEF e
  <2>2. \A k \in 0 .. n : found[k] = e(k)
    BY <2>1
  <2> QED BY <2>2 DEF e
<1> DEFINE Bad == {k \in 0 .. n : found[k] # Place(c, k)}
<1>5. Bad = {}
  <2>0. Bad \in SUBSET Nat
    OBVIOUS
  <2> SUFFICES ASSUME Bad # {} PROVE FALSE
    OBVIOUS
  <2>1. PICK k \in Bad : \A y \in Bad : k <= y
    BY <2>0, LeastPlace
  <2>2. k # 0 => k - 1 \in 0 .. n /\ k - 1 \notin Bad
    BY <2>1
  <2>3. k # 0 => found[k - 1] = Place(c, k - 1)
    BY <2>2
  <2>4. k \in 0 .. n /\ found[k] = Content(c, IF k = 0 THEN pointer(c)[0] ELSE found[k - 1])
    BY <1>4, <2>1
  <2>5. found[k] = Place(c, k)
    BY <2>3, <2>4, PointerFacts
  <2> QED BY <2>1, <2>5
<1>6. found[n] = Place(c, n)
  BY <1>5
<1>7. Place(c, n) = Value
  BY DEF Place
<1> QED BY <1>1, <1>6, <1>7

------------------------------------------------------------------------------
(* The code of a task is what is generated for its variables, and is not   *)
(* entered twice; a program sends sizes of the variables of its tasks.     *)
Generated(x) == Captured(Node(x).clauses, << >>)

CodeInv ==
  /\ main_text \subseteq Directives
  /\ stage \in {"visit", "exit", "crash", "written", "abort"}
  /\ \A x \in DOMAIN code :
       /\ code[x].text \subseteq Within(x)
       /\ ~Generated(x).exit
       /\ code[x].caller = Generated(x).caller /\ code[x].callee = Generated(x).callee
  /\ generated_ids \in Seq(Directives)
  /\ \A i, j \in 1 .. Len(generated_ids) : generated_ids[i] = generated_ids[j] => i = j
  /\ \A x : x \in DOMAIN code <=> \E i \in 1 .. Len(generated_ids) : generated_ids[i] = x
  /\ handled_vars = << >> \/ \E x \in Directives : IsTask(x) /\ handled_vars = Generated(x).handled
  /\ \A x \in DOMAIN sent :
       /\ x \in DOMAIN code /\ DOMAIN sent[x] = DOMAIN code[x].caller
       /\ \A i \in DOMAIN sent[x] : sent[x][i] \in Sizes(code[x].caller[i])

(* What a task has generated does not change.                              *)
LEMMA GeneratedSame ==
  ASSUME UNCHANGED unit
  PROVE  /\ \A x : Generated(x)' = Generated(x)
         /\ Directives' = Directives
         /\ \A x : Within(x)' = Within(x) /\ (IsTask(x)' <=> IsTask(x))
<1>1. \A x : Generated(x)' = Generated(x)
  BY DEF Generated, Node
<1> QED BY <1>1, SameUnit

(* The visit of a task keeps CodeInv.                                      *)
LEMMA TaskKeepsCode ==
  ASSUME ProcessorInv, CodeInv, NEW x \in Directives, VisitOMPTaskDirective(x)
  PROVE  CodeInv'
<1> DEFINE g == Captured(Node(x).clauses, HandledAtFirst)
<1>1. /\ Visiting(x) /\ IsTask(x)
      /\ handled_vars' = g.handled
      /\ UNCHANGED <<unit, decl, main_text, header, sent>>
  BY DEF VisitOMPTaskDirective
<1>2. g = Generated(x)
  BY DEF Generated, HandledAtFirst
<1>3. /\ \A y : Generated(y)' = Generated(y)
      /\ Directives' = Directives
      /\ \A y : Within(y)' = Within(y) /\ (IsTask(y)' <=> IsTask(y))
  BY <1>1, GeneratedSame
<1>4. CASE g.exit
  <2>1. stage' = "exit" /\ UNCHANGED <<code, generated_ids>>
    BY <1>4 DEF VisitOMPTaskDirective
  <2> HIDE DEF g
  <2> QED BY <1>1, <1>2, <1>3, <2>1 DEF CodeInv, Sizes
<1>5. CASE ~g.exit
  <2>1. /\ code' = [y \in DOMAIN code \cup {x} |->
                     IF y = x THEN [text |-> getSourceCode(Within(x)),
                                    caller |-> g.caller, callee |-> g.callee]
                              ELSE code[y]]
        /\ generated_ids' = Append(generated_ids, x)
        /\ UNCHANGED stage
    BY <1>5 DEF VisitOMPTaskDirective
  <2> HIDE DEF g
  <2>2. x \notin DOMAIN code
    BY <1>1, RemovedIfMoved DEF ProcessorInv, EditInv
  <2>3. /\ DOMAIN code' = DOMAIN code \cup {x}
        /\ \A y \in DOMAIN code : code'[y] = code[y]
        /\ code'[x].text = getSourceCode(Within(x))
        /\ code'[x].caller = g.caller /\ code'[x].callee = g.callee
    BY <2>1, <2>2
  <2>4. getSourceCode(Within(x)) \subseteq Within(x)
    BY DEF getSourceCode
  <2>5. /\ generated_ids \in Seq(Directives) /\ Len(generated_ids) \in Nat
        /\ \A i, j \in 1 .. Len(generated_ids) : generated_ids[i] = generated_ids[j] => i = j
        /\ \A y : y \in DOMAIN code <=> \E i \in 1 .. Len(generated_ids) : generated_ids[i] = y
    BY LenProperties DEF CodeInv
  <2>6. /\ generated_ids' \in Seq(Directives) /\ Len(generated_ids') = Len(generated_ids) + 1
        /\ \A i \in 1 .. Len(generated_ids) : generated_ids'[i] = generated_ids[i]
        /\ generated_ids'[Len(generated_ids) + 1] = x
    BY <2>1, <2>5, AppendProperties
  <2>7. \A i : i \in 1 .. Len(generated_ids') <=>
                 i \in 1 .. Len(generated_ids) \/ i = Len(generated_ids')
    BY <2>5, <2>6
  <2>8. \A i, j \in 1 .. Len(generated_ids') : generated_ids'[i] = generated_ids'[j] => i = j
    <3>1. \A i \in 1 .. Len(generated_ids) : generated_ids'[i] # x
      BY <2>2, <2>5, <2>6
    <3> QED BY <2>5, <2>6, <2>7, <3>1
  <2>9. \A y : y \in DOMAIN code' <=> \E i \in 1 .. Len(generated_ids') : generated_ids'[i] = y
    BY <2>3, <2>5, <2>6, <2>7
  <2>10. \A y \in DOMAIN code' :
           /\ code'[y].text \subseteq Within(y)
           /\ ~Generated(y).exit
           /\ code'[y].caller = Generated(y).caller /\ code'[y].callee = Generated(y).callee
    BY <1>2, <1>5, <2>3, <2>4 DEF CodeInv
  <2>11. \A y \in DOMAIN sent :
           /\ y \in DOMAIN code' /\ DOMAIN sent[y] = DOMAIN code'[y].caller
           /\ \A i \in DOMAIN sent[y] : sent[y][i] \in Sizes(code'[y].caller[i])
    BY <2>3 DEF CodeInv
  <2>12. /\ main_text \subseteq Directives
         /\ stage \in {"visit", "exit", "crash", "written", "abort"}
    BY DEF CodeInv
  <2>13. \E y \in Directives : IsTask(y) /\ handled_vars' = Generated(y).handled
    BY <1>1, <1>2
  <2>14. \A c : Sizes(c)' = Sizes(c)
    BY DEF Sizes
  <2> QED BY <1>1, <1>3, <2>1, <2>6, <2>8, <2>9, <2>10, <2>11, <2>12, <2>13, <2>14 DEF CodeInv
<1> QED BY <1>4, <1>5

(* The creation of a task keeps CodeInv.                                   *)
LEMMA PrepareKeepsCode ==
  ASSUME ProcessorInv, CodeInv, NEW x \in Directives, prepare(x)
  PROVE  CodeInv'
<1>1. /\ stage = "written" /\ Created(x) /\ x \notin DOMAIN sent
      /\ UNCHANGED <<unit, decl, todo, replaced, misplaced, main_text, code, generated_ids,
                     handled_vars, needsHeader, header>>
  BY DEF prepare
<1>2. /\ \A y : Generated(y)' = Generated(y)
      /\ Directives' = Directives
      /\ \A y : Within(y)' = Within(y) /\ (IsTask(y)' <=> IsTask(y))
  BY <1>1, GeneratedSame
<1>3. x \in DOMAIN code
  BY <1>1 DEF Created, ProcessorInv, EditInv
<1>4. CASE stage' = "abort" /\ UNCHANGED sent
  BY <1>1, <1>2, <1>4 DEF CodeInv, Sizes
<1>5. ASSUME NEW s, DOMAIN s = DOMAIN code[x].caller,
             \A i \in DOMAIN code[x].caller : s[i] \in Sizes(code[x].caller[i]),
             sent' = [y \in DOMAIN sent \cup {x} |-> IF y = x THEN s ELSE sent[y]],
             UNCHANGED stage
      PROVE  CodeInv'
  <2>1. \A y \in DOMAIN sent' :
          /\ y \in DOMAIN code /\ DOMAIN sent'[y] = DOMAIN code[y].caller
          /\ \A i \in DOMAIN sent'[y] : sent'[y][i] \in Sizes(code[y].caller[i])
    <3> SUFFICES ASSUME NEW y \in DOMAIN sent'
                 PROVE  /\ y \in DOMAIN code /\ DOMAIN sent'[y] = DOMAIN code[y].caller
                        /\ \A i \in DOMAIN sent'[y] : sent'[y][i] \in Sizes(code[y].caller[i])
      OBVIOUS
    <3>1. CASE y = x
      BY <1>3, <1>5, <3>1
    <3>2. CASE y # x
      <4>1. y \in DOMAIN sent /\ sent'[y] = sent[y]
        BY <1>5, <3>2
      <4> QED BY <4>1 DEF CodeInv
    <3> QED BY <3>1, <3>2
  <2>2. \A y \in DOMAIN code :
          /\ code[y].text \subseteq Within(y)
          /\ ~Generated(y).exit
          /\ code[y].caller = Generated(y).caller /\ code[y].callee = Generated(y).callee
    BY DEF CodeInv
  <2>3. /\ main_text \subseteq Directives
        /\ stage \in {"visit", "exit", "crash", "written", "abort"}
        /\ generated_ids \in Seq(Directives)
        /\ \A i, j \in 1 .. Len(generated_ids) : generated_ids[i] = generated_ids[j] => i = j
        /\ \A y : y \in DOMAIN code <=> \E i \in 1 .. Len(generated_ids) : generated_ids[i] = y
        /\ \/ handled_vars = << >>
           \/ \E y \in Directives : IsTask(y) /\ handled_vars = Generated(y).handled
    BY DEF CodeInv
  <2>4. \A c : Sizes(c)' = Sizes(c)
    BY DEF Sizes
  <2> QED BY <1>1, <1>2, <1>5, <2>1, <2>2, <2>3, <2>4 DEF CodeInv
<1>6. \/ stage' = "abort" /\ UNCHANGED sent
      \/ \E s \in [DOMAIN code[x].caller ->
                    UNION {Sizes(code[x].caller[i]) : i \in DOMAIN code[x].caller}] :
           /\ \A i \in DOMAIN code[x].caller : s[i] \in Sizes(code[x].caller[i])
           /\ sent' = [y \in DOMAIN sent \cup {x} |-> IF y = x THEN s ELSE sent[y]]
           /\ UNCHANGED stage
  BY DEF prepare
<1> QED BY <1>4, <1>5, <1>6

(* All other steps leave alone what CodeInv is about.                      *)
LEMMA RestKeepsCode ==
  ASSUME CodeInv, UNCHANGED <<unit, code, generated_ids, handled_vars, sent>>,
         main_text' \subseteq Directives,
         stage' \in {"visit", "exit", "crash", "written", "abort"}
  PROVE  CodeInv'
<1>1. /\ \A y : Generated(y)' = Generated(y)
      /\ Directives' = Directives
      /\ \A y : Within(y)' = Within(y) /\ (IsTask(y)' <=> IsTask(y))
  BY GeneratedSame
<1> QED BY <1>1 DEF CodeInv, Sizes

(* CodeInv is an invariant.                                                *)
LEMMA CodeInvariance == Spec => []CodeInv
<1>1. Init => CodeInv
  <2> SUFFICES ASSUME Init PROVE CodeInv
    OBVIOUS
  <2>1. /\ main_text = {} /\ stage = "visit" /\ DOMAIN code = {} /\ generated_ids = << >>
        /\ handled_vars = << >> /\ DOMAIN sent = {}
    BY DEF Init
  <2>2. generated_ids \in Seq(Directives) /\ Len(generated_ids) = 0 /\ 1 .. 0 = {}
    BY <2>1
  <2> QED BY <2>1, <2>2 DEF CodeInv
<1>2. ASSUME ProcessorInv, CodeInv, [Next]_vars  PROVE CodeInv'
  <2>1. CASE VisitFunctionDecl
    <3>1. /\ main_text' \subseteq Directives
          /\ UNCHANGED <<unit, code, generated_ids, handled_vars, sent, stage>>
      BY <2>1 DEF VisitFunctionDecl, getSourceCode
    <3> QED BY <1>2, <3>1, RestKeepsCode DEF CodeInv
  <2>2. ASSUME NEW x \in Directives, VisitOMPTaskwaitDirective(x) \/ taskwait(x)  PROVE CodeInv'
    <3>1. /\ UNCHANGED <<unit, main_text, code, generated_ids, handled_vars, sent>>
          /\ stage' = "abort" \/ UNCHANGED stage
      BY <2>2 DEF VisitOMPTaskwaitDirective, taskwait
    <3> QED BY <1>2, <3>1, RestKeepsCode DEF CodeInv
  <2>3. ASSUME NEW x \in Directives, VisitOMPTaskDirective(x)  PROVE CodeInv'
    BY <1>2, <2>3, TaskKeepsCode
  <2>4. ASSUME NEW x \in Directives, prepare(x)  PROVE CodeInv'
    BY <1>2, <2>4, PrepareKeepsCode
  <2>5. CASE HandleTopLevelDecl \/ finalize \/ UNCHANGED vars
    <3>1. /\ UNCHANGED <<unit, main_text, code, generated_ids, handled_vars, sent>>
          /\ stage' \in {"crash", "written"} \/ UNCHANGED stage
      BY <2>5 DEF HandleTopLevelDecl, finalize, vars
    <3> QED BY <1>2, <3>1, RestKeepsCode DEF CodeInv
  <2> QED BY <1>2, <2>1, <2>2, <2>3, <2>4, <2>5 DEF Next, Visit
<1> QED BY <1>1, <1>2, ProcessorInvariance, PTL DEF Spec

(* Types, and in every state: no directive is edited twice, no task is     *)
(* entered in the table twice, no variable is declared twice in a function *)
(* and no size is sent of a task without a function.                       *)
THEOREM TypesTheorem == Spec => []ProcessorTypeOK
<1>1. ASSUME ProcessorInv, CodeInv  PROVE ProcessorTypeOK
  <2>1. /\ unit \in Unit /\ decl \in Nat \ {0} /\ decl <= Len(unit) + 1
        /\ Len(unit) \in Nat /\ todo \subseteq Visits(decl)
    BY <1>1, DeclFacts DEF ProcessorInv, UnitInv
  <2>2. /\ decl \in 1 .. Len(unit) + 1 /\ header \in 0 .. Len(unit)
        /\ needsHeader \in [rewriter : BOOLEAN, extractor : BOOLEAN]
    BY <1>1, <2>1 DEF ProcessorInv, HeaderInv
  <2>3. /\ replaced \cup misplaced \subseteq Directives /\ replaced \cap misplaced = {}
        /\ \A x \in DOMAIN code : x \in Directives /\ IsTask(x)
    BY <1>1 DEF ProcessorInv, EditInv
  <2>4. /\ main_text \subseteq Directives
        /\ \A x \in DOMAIN code : code[x].text \subseteq Within(x)
        /\ stage \in {"visit", "exit", "crash", "written", "abort"}
    BY <1>1 DEF CodeInv
  <2>5. /\ DOMAIN generated_ids = 1 .. Len(generated_ids)
        /\ \A i, j \in 1 .. Len(generated_ids) : generated_ids[i] = generated_ids[j] => i = j
        /\ \A x : x \in DOMAIN code <=> \E i \in 1 .. Len(generated_ids) : generated_ids[i] = x
    BY <1>1, LenProperties DEF CodeInv
  <2>6. IsInjective(generated_ids)
    BY <2>5 DEF IsInjective
  <2>7. ToSet(generated_ids) = DOMAIN code
    <3>1. \A y : y \in ToSet(generated_ids) <=> \E i \in DOMAIN generated_ids : y = generated_ids[i]
      BY DEF ToSet
    <3>2. \A y : y \in ToSet(generated_ids) <=> y \in DOMAIN code
      BY <2>5, <3>1
    <3> QED BY <3>2
  <2>8. IsInjective(handled_vars)
    <3>1. CASE handled_vars = << >>
      BY <3>1 DEF IsInjective
    <3>2. ASSUME NEW x \in Directives, IsTask(x), handled_vars = Generated(x).handled
          PROVE  IsInjective(handled_vars)
      <4> DEFINE q == Requested(Node(x).clauses)
      <4>1. Matched(Generated(x), q, Len(q))
        BY <2>1, <3>2, VariableFacts, CapturedMatches DEF Generated
      <4> HIDE DEF q
      <4>2. /\ Generated(x).handled \in Seq(Names(q))
            /\ \A i, j \in 1 .. Len(Generated(x).handled) :
                 Generated(x).handled[i] = Generated(x).handled[j] => i = j
        BY <4>1 DEF Matched
      <4>3. DOMAIN handled_vars = 1 .. Len(handled_vars)
        BY <3>2, <4>2, LenProperties
      <4> QED BY <3>2, <4>2, <4>3 DEF IsInjective
    <3> QED BY <1>1, <3>1, <3>2 DEF CodeInv
  <2>9. DOMAIN sent \subseteq ToSet(generated_ids)
    BY <1>1, <2>7 DEF CodeInv
  <2> QED BY <2>1, <2>2, <2>3, <2>4, <2>6, <2>7, <2>8, <2>9 DEF ProcessorTypeOK
<1> QED BY <1>1, ProcessorInvariance, CodeInvariance, PTL

(* What is at one place of the code of a task: a variable of the task, the *)
(* same in caller and callee; and every variable of the task is at one.    *)
LEMMA CodeFacts ==
  ASSUME ProcessorInv, CodeInv, NEW x \in DOMAIN code
  PROVE  LET q == Requested(Node(x).clauses) IN
           /\ Named(q)
           /\ DOMAIN code[x].caller = 1 .. Len(code[x].caller)
           /\ DOMAIN code[x].callee = DOMAIN code[x].caller
           /\ \A i \in DOMAIN code[x].caller : \E k \in DOMAIN q :
                code[x].caller[i] = InCaller(q[k]) /\ code[x].callee[i] = InCallee(q[k], i)
           /\ \A k \in DOMAIN q : \E i \in DOMAIN code[x].caller :
                code[x].caller[i] = InCaller(q[k]) /\ code[x].callee[i] = InCallee(q[k], i)
<1> DEFINE q == Requested(Node(x).clauses)
           g == Generated(x)
<1>1. unit \in Unit /\ x \in Directives /\ IsTask(x)
  BY DEF ProcessorInv, UnitInv, EditInv
<1>2. Named(q)
  BY <1>1, VariableFacts
<1>3. Matched(g, q, Len(q))
  BY <1>2, CapturedMatches DEF Generated
<1>4. ~g.exit /\ code[x].caller = g.caller /\ code[x].callee = g.callee
  BY DEF CodeInv
<1> HIDE DEF q, g
<1>5. Len(q) \in Nat /\ DOMAIN q = 1 .. Len(q)
      /\ \A i, j \in DOMAIN q : q[i].name = q[j].name => q[i] = q[j]
  BY <1>2 DEF Named
<1>6. /\ g.caller \in Seq(Callers(q)) /\ g.callee \in Seq(Callees(q))
      /\ g.handled \in Seq(Names(q))
      /\ Len(g.caller) = Len(g.handled) /\ Len(g.callee) = Len(g.handled)
      /\ \A i \in 1 .. Len(g.handled) : \E k \in 1 .. Len(q) :
           /\ g.handled[i] = q[k].name
           /\ g.caller[i] = InCaller(q[k]) /\ g.callee[i] = InCallee(q[k], i)
      /\ \A k \in 1 .. Len(q) : \E i \in 1 .. Len(g.handled) : g.handled[i] = q[k].name
  BY <1>3, <1>4 DEF Matched
<1>7. DOMAIN g.caller = 1 .. Len(g.handled) /\ DOMAIN g.callee = 1 .. Len(g.handled)
  BY <1>6, LenProperties
<1>8. ASSUME NEW k \in DOMAIN q
      PROVE  \E i \in DOMAIN g.caller :
               g.caller[i] = InCaller(q[k]) /\ g.callee[i] = InCallee(q[k], i)
  <2>1. PICK i \in 1 .. Len(g.handled) : g.handled[i] = q[k].name
    BY <1>5, <1>6
  <2>2. PICK j \in 1 .. Len(q) : /\ g.handled[i] = q[j].name
                                 /\ g.caller[i] = InCaller(q[j]) /\ g.callee[i] = InCallee(q[j], i)
    BY <1>6
  <2>3. q[j] = q[k]
    BY <1>5, <2>1, <2>2
  <2> QED BY <1>7, <2>2, <2>3
<1>9. \A i \in DOMAIN g.caller : \E k \in DOMAIN q :
        g.caller[i] = InCaller(q[k]) /\ g.callee[i] = InCallee(q[k], i)
  BY <1>5, <1>6, <1>7
<1>10. /\ Named(q)
       /\ DOMAIN code[x].caller = 1 .. Len(code[x].caller)
       /\ DOMAIN code[x].callee = DOMAIN code[x].caller
       /\ \A i \in DOMAIN code[x].caller : \E k \in DOMAIN q :
            code[x].caller[i] = InCaller(q[k]) /\ code[x].callee[i] = InCallee(q[k], i)
       /\ \A k \in DOMAIN q : \E i \in DOMAIN code[x].caller :
            code[x].caller[i] = InCaller(q[k]) /\ code[x].callee[i] = InCallee(q[k], i)
  BY <1>2, <1>4, <1>6, <1>7, <1>8, <1>9
<1> QED BY <1>10 DEF q

(* In the function of a task every variable of its clauses and of its code *)
(* leads to the object it has where the task is created, whatever names    *)
(* were handled before, in whatever order and however often it is named.   *)
THEOREM VariablesTheorem == Spec => []VariablesReached
<1>1. ASSUME ProcessorInv, CodeInv, stage = "written", NEW x \in Directives, Created(x)
      PROVE  /\ x \in tasking_function_map
             /\ \A v \in ToSet(Requested(Node(x).clauses)) :
                  \E c \in ToSet(code[x].callee) : StandsFor(c, code[x].caller, v)
  <2> DEFINE q == Requested(Node(x).clauses)
  <2>1. x \in DOMAIN code
    BY <1>1 DEF Created, ProcessorInv, EditInv
  <2>2. x \in tasking_function_map
    <3>1. PICK i \in 1 .. Len(generated_ids) : generated_ids[i] = x
      BY <1>1, <2>1 DEF CodeInv
    <3>2. generated_ids \in Seq(Directives) /\ DOMAIN generated_ids = 1 .. Len(generated_ids)
      BY <1>1, LenProperties DEF CodeInv
    <3> QED BY <3>1, <3>2 DEF tasking_function_map, ToSet
  <2>3. /\ Named(q)
        /\ DOMAIN code[x].callee = DOMAIN code[x].caller
        /\ \A k \in DOMAIN q : \E i \in DOMAIN code[x].caller :
             code[x].caller[i] = InCaller(q[k]) /\ code[x].callee[i] = InCallee(q[k], i)
    BY <1>1, <2>1, CodeFacts
  <2> HIDE DEF q
  <2>4. ASSUME NEW v \in ToSet(q)
        PROVE  \E c \in ToSet(code[x].callee) : StandsFor(c, code[x].caller, v)
    <3>1. PICK k \in DOMAIN q : v = q[k]
      BY DEF ToSet
    <3>2. PICK i \in DOMAIN code[x].caller :
            code[x].caller[i] = InCaller(v) /\ code[x].callee[i] = InCallee(v, i)
      BY <2>3, <3>1
    <3> DEFINE c == code[x].callee[i]
    <3>3. c \in ToSet(code[x].callee)
      BY <2>3 DEF ToSet
    <3>4. /\ c.name = v.name /\ c.layers = v.layers /\ c.argument = i
          /\ code[x].caller[i].var = v /\ code[x].caller[i].derefs = v.layers
          /\ v.layers \in Nat
      BY <2>3, <3>1, <3>2 DEF InCaller, InCallee, Named
    <3> HIDE DEF c
    <3>5. Behind(c)[v.layers] = Value
      BY <3>4, ValueBehind
    <3>6. StandsFor(c, code[x].caller, v)
      BY <3>4, <3>5 DEF StandsFor
    <3> QED BY <3>3, <3>6
  <2> QED BY <2>2, <2>4 DEF q
<1>2. ProcessorInv /\ CodeInv => VariablesReached
  BY <1>1 DEF VariablesReached
<1> QED BY <1>2, ProcessorInvariance, CodeInvariance, PTL

(* The size of an object at the start of a block is the size of the block  *)
(* less one: no step back is made, and one is subtracted.                  *)
LEMMA SizeAtStart ==
  ASSUME NEW p \in DOMAIN Block, NEW s \in HeapSizes(p)
  PROVE  s = Block[p] - 1
<1>1. p \in Nat /\ Block[p] \in Nat \ {0} /\ Block[p] < AddressSpace /\ AddressSpace \in Nat \ {0}
  BY BlockAssumption, ObjectAssumption, SizeAssumption
<1>2. BlockOf(p) = p
  <2> DEFINE IsBlockOf(a) == a <= p /\ \A b \in DOMAIN Block : b <= p => b <= a
  <2>1. BlockOf(p) = CHOOSE a \in DOMAIN Block : IsBlockOf(a)
    BY DEF BlockOf
  <2>2. IsBlockOf(p)
    BY <1>1
  <2>3. \A a \in DOMAIN Block : IsBlockOf(a) => a = p
    BY <1>1, BlockAssumption
  <2> HIDE DEF IsBlockOf
  <2> QED BY <2>1, <2>2, <2>3
<1>3. PICK t \in BlockOf(p) .. p :
        s \in {(size - (p - t + 1)) % AddressSpace : size \in malloc_usable_size(t) \ {0}}
  BY DEF HeapSizes
<1>4. t = p
  BY <1>1, <1>2
<1>5. PICK size \in malloc_usable_size(p) \ {0} : s = (size - (p - p + 1)) % AddressSpace
  BY <1>3, <1>4
<1>6. size = Block[p]
  BY <1>5 DEF malloc_usable_size
<1>7. s = (Block[p] - 1) % AddressSpace
  <2>1. size - (p - p + 1) = Block[p] - 1
    BY <1>1, <1>6
  <2> QED BY <1>5, <2>1
<1>8. Block[p] - 1 \in 0 .. AddressSpace - 1
  BY <1>1
<1> QED BY <1>7, <1>8, <1>1

(* A point of memory is in one region.                                     *)
LEMMA OneRegion ==
  ASSUME NEW p \in Nat, NEW r \in RegionsOf(p)
  PROVE  \A o \in RegionsOf(p) : o = r
<1>1. \A o \in RegionsOf(p) : /\ o \in ToSet(Region) /\ o.start < p /\ p < o.end
                              /\ o.start \in Nat /\ o.end \in Nat
  BY RegionAssumption DEF RegionsOf
<1> SUFFICES ASSUME NEW o \in RegionsOf(p), o # r  PROVE FALSE
  OBVIOUS
<1>2. r.end <= o.start \/ o.end <= r.start
  BY <1>1, ObjectAssumption
<1> QED BY <1>1, <1>2

(* The bytes sent of a variable, where the processor does not know them,   *)
(* depend on the kind of memory its object is in.                          *)
LEMMA AllocatedFacts ==
  ASSUME NEW p \in Nat, NEW s \in get_allocated_size(p)
  PROVE  \E r \in RegionsOf(p) :
           /\ {o.kind : o \in RegionsOf(p)} = {r.kind}
           /\ \/ r.kind = "heap" /\ (p \in DOMAIN Block => s = Block[p] - 1)
              \/ r.kind = "stack" /\ s = StackLimit
              \/ r.kind = "other" /\ s = 20
<1>1. PICK r \in RegionsOf(p) :
        s \in CASE r.kind = "heap"  -> HeapSizes(p)
                [] r.kind = "stack" -> {StackLimit}
                [] r.kind = "other" -> {20}
  BY DEF get_allocated_size
<1>2. r.kind \in {"heap", "stack", "other"}
  BY RegionAssumption DEF RegionsOf
<1>3. {o.kind : o \in RegionsOf(p)} = {r.kind}
  BY OneRegion
<1>4. \/ r.kind = "heap" /\ s \in HeapSizes(p)
      \/ r.kind = "stack" /\ s = StackLimit
      \/ r.kind = "other" /\ s = 20
  BY <1>1, <1>2
<1>5. \/ r.kind = "heap" /\ (p \in DOMAIN Block => s = Block[p] - 1)
      \/ r.kind = "stack" /\ s = StackLimit
      \/ r.kind = "other" /\ s = 20
  BY <1>4, SizeAtStart
<1> QED BY <1>3, <1>5

(* What ObjectAssumption says of the variables of a task.                  *)
LEMMA ObjectFacts ==
  ASSUME unit \in Unit, NEW x \in Directives, IsTask(x),
         NEW v \in ToSet(Requested(Node(x).clauses))
  PROVE  /\ v.at \in Nat /\ v.bytes \in Nat
         /\ v.type \in {"builtin", "array parameter"} => v.declared = v.bytes
         /\ v.at \in DOMAIN Block => v.bytes <= Block[v.at]
         /\ \A r \in RegionsOf(v.at) : r.kind = "stack" => v.bytes <= StackLimit
<1>1. x[1] \in DOMAIN unit /\ x[2] \in DOMAIN unit[x[1]].nodes
  BY DirectiveFacts
<1>2. /\ unit[x[1]].nodes[x[2]].kind = "task"
      /\ v \in ToSet(Requested(unit[x[1]].nodes[x[2]].clauses))
  BY DEF Node, IsTask
<1>3. /\ v.at \in Nat /\ v.bytes \in Nat
      /\ v.type \in {"builtin", "array parameter"} => v.declared = v.bytes
      /\ v.at \in DOMAIN Block => v.bytes <= Block[v.at]
      /\ (\E r \in RegionsOf(v.at) : r.kind = "stack") => v.bytes <= StackLimit
  BY <1>1, <1>2, ObjectAssumption
<1> QED BY <1>3

(* Whatever the memory looks like, bytes are missing in the three cases    *)
(* only, and a block is not exceeded at its start.                         *)
THEOREM SizesTheorem == Spec => []SizesFit
<1>1. ASSUME ProcessorInv, CodeInv, NEW x \in DOMAIN sent, NEW i \in DOMAIN sent[x],
             NEW v, v = code[x].caller[i].var, NEW s, s = sent[x][i],
             NEW kinds, kinds = {r.kind : r \in RegionsOf(v.at)}
      PROVE  /\ s < v.bytes =>
                  \/ kinds = {"heap"} /\ v.at \in DOMAIN Block /\ v.bytes = Block[v.at]
                       /\ s = v.bytes - 1
                  \/ kinds = {"other"} /\ s = 20
                  \/ kinds = {"heap"} /\ v.at \notin DOMAIN Block
             /\ kinds = {"heap"} /\ v.at \in DOMAIN Block => s <= Block[v.at]
  <2> DEFINE q == Requested(Node(x).clauses)
             c == code[x].caller[i]
  <2>1. /\ x \in DOMAIN code /\ i \in DOMAIN code[x].caller /\ s \in Sizes(c)
        /\ unit \in Unit /\ x \in Directives /\ IsTask(x)
    BY <1>1 DEF CodeInv, ProcessorInv, UnitInv, EditInv
  <2>2. PICK k \in DOMAIN q : c = InCaller(q[k])
    BY <1>1, <2>1, CodeFacts
  <2>3. v = q[k] /\ c.size = getVarSize(v) /\ c.var = v /\ v \in ToSet(q)
    BY <1>1, <2>2 DEF InCaller, ToSet
  <2>4. /\ v.at \in Nat /\ v.bytes \in Nat
        /\ v.type \in {"builtin", "array parameter"} => v.declared = v.bytes
        /\ v.at \in DOMAIN Block => v.bytes <= Block[v.at]
        /\ \A r \in RegionsOf(v.at) : r.kind = "stack" => v.bytes <= StackLimit
    BY <2>1, <2>3, ObjectFacts
  <2>5. v.at \in DOMAIN Block => Block[v.at] \in Nat \ {0}
    BY BlockAssumption
  <2> HIDE DEF c, q
  <2>6. v.bytes \in Nat
    BY <2>4
  <2>7. CASE c.size # 0
    <3>1. s = v.bytes
      BY <2>1, <2>3, <2>4, <2>7 DEF Sizes, getVarSize
    <3>2. ~(s < v.bytes)
      BY <2>6, <3>1
    <3>3. v.at \in DOMAIN Block => s <= Block[v.at]
      BY <2>4, <3>1
    <3> QED BY <3>2, <3>3, Zenon
  <2>8. CASE c.size = 0
    <3>1. s \in get_allocated_size(v.at)
      BY <2>1, <2>3, <2>8 DEF Sizes
    <3>2. PICK r \in RegionsOf(v.at) :
            /\ {o.kind : o \in RegionsOf(v.at)} = {r.kind}
            /\ \/ r.kind = "heap" /\ (v.at \in DOMAIN Block => s = Block[v.at] - 1)
               \/ r.kind = "stack" /\ s = StackLimit
               \/ r.kind = "other" /\ s = 20
      BY <2>4, <3>1, AllocatedFacts
    <3>3. kinds = {r.kind}
      BY <1>1, <3>2
    <3>4. CASE r.kind = "heap" /\ v.at \in DOMAIN Block
      <4>1. s = Block[v.at] - 1
        BY <3>2, <3>4
      <4>2. /\ s <= Block[v.at]
            /\ s < v.bytes => v.bytes = Block[v.at] /\ s = v.bytes - 1
        <5>1. v.bytes <= Block[v.at] /\ Block[v.at] \in Nat
          BY <2>4, <2>5, <3>4
        <5> QED BY <2>6, <4>1, <5>1
      <4> QED BY <3>3, <3>4, <4>2, Zenon
    <3>5. CASE r.kind = "heap" /\ v.at \notin DOMAIN Block
      BY <3>3, <3>5
    <3>6. CASE r.kind = "stack"
      <4>1. s = StackLimit /\ StackLimit \in Nat /\ v.bytes <= StackLimit
        BY <2>4, <3>2, <3>6, SizeAssumption
      <4>2. kinds # {"heap"}
        BY <3>3, <3>6
      <4>3. ~(s < v.bytes)
        BY <2>6, <4>1
      <4> QED BY <4>2, <4>3, Zenon
    <3>7. CASE r.kind = "other"
      BY <3>2, <3>3, <3>7
    <3> QED BY <3>2, <3>4, <3>5, <3>6, <3>7
  <2> QED BY <2>7, <2>8
<1>2. ProcessorInv /\ CodeInv => SizesFit
  BY <1>1 DEF SizesFit
<1> QED BY <1>2, ProcessorInvariance, CodeInvariance, PTL
=============================================================================
