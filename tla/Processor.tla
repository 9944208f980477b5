----------------------------- MODULE Processor -----------------------------
(***************************************************************************)
(* The source-to-source processor (src/processor): it runs over the top    *)
(* level declarations of one compilation unit, moves the body of main into *)
(* a function of its own, replaces taskwait directives by calls, and task  *)
(* directives by the creation of a task whose code becomes a function in a *)
(* generated header.  Both visitors edit the same text and both read it    *)
(* back as edited so far, so that the result depends on their order.       *)
(*                                                                         *)
(* A unit is a sequence of declarations: whether it is main, whether it    *)
(* comes from an included file, and its directives in the order of the     *)
(* text, each with the numbers of the task directives it lies within.      *)
(* The text is abstracted to which directives in it have been replaced.    *)
(***************************************************************************)
EXTENDS Captures

CONSTANT Unit    \* the compilation units considered

(* A directive lies within task directives that precede it and that lie    *)
(* within each other.                                                      *)
ASSUME UnitAssumption ==
  \A u \in Unit :
    /\ Len(u) \in Nat /\ DOMAIN u = 1 .. Len(u)
    /\ \A d \in DOMAIN u :
         LET nodes == u[d].nodes IN
           /\ {u[d].included, u[d].main} \subseteq BOOLEAN
           /\ DOMAIN nodes \subseteq Nat \ {0}
           /\ \A n \in DOMAIN nodes :
                /\ nodes[n].kind \in {"task", "taskwait"}
                /\ \A m \in nodes[n].within :
                     /\ m \in DOMAIN nodes /\ m < n
                     /\ nodes[m].kind = "task" /\ nodes[m].within \subseteq nodes[n].within

(* Where a directive is, a name means one variable.  Two qualified names   *)
(* that end alike are left out: the processor drops their qualifiers.      *)
ASSUME VariableAssumption ==
  \A u \in Unit : \A d \in DOMAIN u : \A n \in DOMAIN u[d].nodes :
    u[d].nodes[n].kind = "task" =>
      LET requested == Requested(u[d].nodes[n].clauses) IN
        /\ Len(requested) \in Nat /\ DOMAIN requested = 1 .. Len(requested)
        /\ \A v \in ToSet(requested) : v.layers \in Nat /\ v.trivial \in BOOLEAN
        /\ \A v, w \in ToSet(requested) : v.name = w.name => v = w

(* Regions do not overlap.  An object lies in memory that is large enough  *)
(* for it: it does not exceed a block it starts, nor the stack, and one of *)
(* a built-in type, or passed as an array, is as large as it is declared.  *)
ASSUME ObjectAssumption ==
  /\ \A r, s \in ToSet(Region) : r = s \/ r.end <= s.start \/ s.end <= r.start
  /\ \A a \in DOMAIN Block : Block[a] < AddressSpace
  /\ \A u \in Unit : \A d \in DOMAIN u : \A n \in DOMAIN u[d].nodes :
       u[d].nodes[n].kind = "task" =>
         \A v \in ToSet(Requested(u[d].nodes[n].clauses)) :
           /\ v.at \in Nat /\ v.bytes \in Nat
           /\ v.type \in {"builtin", "array parameter"} => v.declared = v.bytes
           /\ v.at \in DOMAIN Block => v.bytes <= Block[v.at]
           /\ (\E r \in RegionsOf(v.at) : r.kind = "stack") => v.bytes <= StackLimit

VARIABLES
  unit,
  decl,          \* the declaration HandleTopLevelDecl is called with
  todo,          \* the visits the traversals of decl have left
  replaced,      \* directives replaced in the text
  misplaced,     \* directives whose edits went to text already removed
  main_text,     \* directives replaced in the text moved out of main
  code,          \* task directive -> the code generated for it
  generated_ids,
  handled_vars,
  needsHeader,   \* of either visitor
  header,        \* the declaration the includes are inserted at; 0: none yet
  stage,         \* of the processor, then of the program it has written
  sent           \* task created -> bytes sent for each of its variables

vars == <<unit, decl, todo, replaced, misplaced, main_text, code, generated_ids,
          handled_vars, needsHeader, header, stage, sent>>

Directives == UNION {{d} \X DOMAIN unit[d].nodes : d \in DOMAIN unit}
Node(x) == unit[x[1]].nodes[x[2]]
InMain(x) == unit[x[1]].main
InFile(x) == ~unit[x[1]].included
IsTask(x) == Node(x).kind = "task"
Around(x) == {<<x[1], n>> : n \in Node(x).within}
Within(x) == {y \in Directives : x \in Around(y)}

(* A visit is the number of a directive, or 0: the function.               *)
Numbers(d, kind) == {n \in DOMAIN unit[d].nodes : unit[d].nodes[n].kind = kind}

RewriterPass(d) == (IF unit[d].main THEN {0} ELSE {}) \cup Numbers(d, "taskwait")
ExtractorPass(d) == Numbers(d, "task")

Visits(d) == IF d \in DOMAIN unit THEN RewriterPass(d) \cup ExtractorPass(d) ELSE {}

(* HandleTopLevelDecl runs one visitor over the whole declaration, then    *)
(* the other, and each visits in the order of the text.                    *)
ExtractorFirst ==                                 \* mutation of Traversal
  IF todo \cap ExtractorPass(decl) # {} THEN todo \cap ExtractorPass(decl)
                                        ELSE todo \cap RewriterPass(decl)

Traversal ==
  IF todo \cap RewriterPass(decl) # {} THEN todo \cap RewriterPass(decl)
                                       ELSE todo \cap ExtractorPass(decl)

(* Types; no directive is edited twice, no task registered twice, and no   *)
(* variable declared twice in the function of a task.                      *)
ProcessorTypeOK ==
  /\ decl \in 1 .. Len(unit) + 1
  /\ todo \subseteq Visits(decl)
  /\ replaced \cup misplaced \subseteq Directives /\ replaced \cap misplaced = {}
  /\ main_text \subseteq Directives
  /\ \A x \in DOMAIN code : IsTask(x) /\ code[x].text \subseteq Within(x)
  /\ IsInjective(generated_ids)
  /\ ToSet(generated_ids) = DOMAIN code
  /\ IsInjective(handled_vars)
  /\ needsHeader \in [rewriter : BOOLEAN, extractor : BOOLEAN]
  /\ header \in 0 .. Len(unit)
  /\ stage \in {"visit", "exit", "crash", "written", "abort"}
  /\ DOMAIN sent \subseteq ToSet(generated_ids)

(* The constructors leave needsHeader uninitialised.                       *)
Init ==
  /\ unit \in Unit
  /\ decl = 1
  /\ todo = Visits(1)
  /\ replaced = {}
  /\ misplaced = {}
  /\ main_text = {}
  /\ code = <<>>
  /\ generated_ids = <<>>
  /\ handled_vars = <<>>
  /\ needsHeader \in [rewriter : BOOLEAN, extractor : BOOLEAN]
  /\ header = 0
  /\ stage = "visit"
  /\ sent = <<>>

Visiting(x) ==
  /\ stage = "visit" /\ todo # {}
  /\ x[1] = decl /\ x[2] \in Traversal
  /\ \A n \in Traversal : x[2] <= n

(* The text of a directive in main, or of a task in a task that has been   *)
(* replaced, is no longer where the edit is addressed to.                  *)
BodyMoved(d) == unit[d].main /\ 0 \notin todo
Removed(x) == BodyMoved(x[1]) \/ Around(x) \cap DOMAIN code # {}

Edit(x) ==
  IF Removed(x)
  THEN misplaced' = misplaced \cup {x} /\ UNCHANGED replaced
  ELSE replaced' = replaced \cup {x} /\ UNCHANGED misplaced

(* Source text is read as edited so far, not as written.                   *)
getSourceCode(directives) == replaced \cap directives

VisitFunctionDecl ==
  /\ Visiting(<<decl, 0>>)
  /\ main_text' = getSourceCode({x \in Directives : x[1] = decl})
  /\ needsHeader' = [needsHeader EXCEPT !.rewriter = TRUE]
  /\ todo' = todo \ {0}
  /\ UNCHANGED <<unit, decl, replaced, misplaced, code, generated_ids, handled_vars,
                 header, stage, sent>>

WithoutHeader(x) ==                     \* mutation of VisitOMPTaskwaitDirective
  /\ Visiting(x) /\ x[2] # 0 /\ ~IsTask(x)
  /\ Edit(x)
  /\ todo' = todo \ {x[2]}
  /\ UNCHANGED <<unit, decl, main_text, code, generated_ids, handled_vars, needsHeader,
                 header, stage, sent>>

VisitOMPTaskwaitDirective(x) ==
  /\ Visiting(x) /\ x[2] # 0 /\ ~IsTask(x)
  /\ Edit(x)
  /\ needsHeader' = [needsHeader EXCEPT !.rewriter = TRUE]
  /\ todo' = todo \ {x[2]}
  /\ UNCHANGED <<unit, decl, main_text, code, generated_ids, handled_vars, header,
                 stage, sent>>

NotCleared == handled_vars                         \* mutation of HandledAtFirst
HandledAtFirst == <<>>

(* The code of the task is read back from the edited text before it is     *)
(* replaced.                                                               *)
VisitOMPTaskDirective(x) ==
  /\ Visiting(x) /\ x[2] # 0 /\ IsTask(x)
  /\ LET g == Captured(Node(x).clauses, HandledAtFirst)
     IN  /\ handled_vars' = g.handled
         /\ needsHeader' = [needsHeader EXCEPT !.extractor = TRUE]
         /\ IF g.exit
            THEN /\ stage' = "exit"
                 /\ UNCHANGED <<todo, replaced, misplaced, code, generated_ids>>
            ELSE /\ Edit(x)
                 /\ code' = [y \in DOMAIN code \cup {x} |->
                              IF y = x THEN [text |-> getSourceCode(Within(x)),
                                             caller |-> g.caller, callee |-> g.callee]
                                       ELSE code[y]]
                 /\ generated_ids' = Append(generated_ids, x)
                 /\ todo' = todo \ {x[2]}
                 /\ UNCHANGED stage
  /\ UNCHANGED <<unit, decl, main_text, header, sent>>

(* After both passes the includes go in front of the declaration, once.    *)
HandleTopLevelDecl ==
  /\ stage = "visit" /\ decl <= Len(unit) /\ todo = {}
  /\ header' = IF header = 0 /\ (needsHeader.rewriter \/ needsHeader.extractor)
               THEN decl ELSE header
  /\ decl' = decl + 1
  /\ todo' = Visits(decl + 1)
  /\ UNCHANGED <<unit, replaced, misplaced, main_text, code, generated_ids, handled_vars,
                 needsHeader, stage, sent>>

(* Only the edits of the main file are written, and there is no buffer to  *)
(* write when there are none.                                              *)
EditedFile ==
  \/ header # 0 /\ ~unit[header].included
  \/ \E d \in DOMAIN unit : unit[d].main
  \/ \E x \in replaced \cup misplaced : InFile(x)

(* The table the generated header fills before main starts.                *)
tasking_function_map == ToSet(generated_ids)

finalize ==
  /\ stage = "visit" /\ decl > Len(unit)
  /\ stage' = IF EditedFile THEN "written" ELSE "crash"
  /\ UNCHANGED <<unit, decl, todo, replaced, misplaced, main_text, code, generated_ids,
                 handled_vars, needsHeader, header, sent>>

------------------------------------------------------------------------------
(* The includes precede what needs them, unless they went to another file, *)
(* or behind the code moved out of main, which is inserted at main too.    *)
UsesHeader ==
  {d \in DOMAIN unit : unit[d].main} \cup {x[1] : x \in {y \in replaced : InFile(y)}}

HeaderInTime ==
  \A d \in UsesHeader :
    /\ header # 0 /\ ~unit[header].included
    /\ header < d \/ (header = d /\ ~unit[d].main)

(* The program written can be compiled.                                    *)
Compiles == misplaced = {} /\ HeaderInTime

Created(x) == IsTask(x) /\ x \in replaced /\ InFile(x)

(* Task::prepare, called where the task is created.  A copy of more bytes  *)
(* than there are in the region faults.                                    *)
Sizes(c) == IF c.size # 0 THEN {c.size} ELSE get_allocated_size(c.var.at)
Faults(c, s) ==
  c.copy /\ ~\E r \in ToSet(Region) : r.start <= c.var.at /\ c.var.at + s <= r.end

prepare(x) ==
  /\ stage = "written" /\ Compiles
  /\ Created(x) /\ x \notin DOMAIN sent
  /\ LET c == code[x].caller
     IN  \/ /\ \E i \in DOMAIN c : Sizes(c[i]) = {} \/ \E s \in Sizes(c[i]) : Faults(c[i], s)
            /\ stage' = "abort"
            /\ UNCHANGED sent
         \/ \E s \in [DOMAIN c -> UNION {Sizes(c[i]) : i \in DOMAIN c}] :
              /\ \A i \in DOMAIN c : s[i] \in Sizes(c[i]) /\ ~Faults(c[i], s[i])
              /\ sent' = [y \in DOMAIN sent \cup {x} |-> IF y = x THEN s ELSE sent[y]]
              /\ UNCHANGED stage
  /\ UNCHANGED <<unit, decl, todo, replaced, misplaced, main_text, code, generated_ids,
                 handled_vars, needsHeader, header>>

(* What the call of taskwait in the program does so far: it throws.        *)
taskwait(x) ==
  /\ stage = "written" /\ Compiles
  /\ ~IsTask(x) /\ x \in replaced /\ InFile(x)
  /\ stage' = "abort"
  /\ UNCHANGED <<unit, decl, todo, replaced, misplaced, main_text, code, generated_ids,
                 handled_vars, needsHeader, header, sent>>

Visit(x) == VisitOMPTaskwaitDirective(x) \/ VisitOMPTaskDirective(x)

Next ==
  \/ VisitFunctionDecl
  \/ \E x \in Directives : Visit(x) \/ prepare(x) \/ taskwait(x)
  \/ HandleTopLevelDecl
  \/ finalize

Spec == Init /\ [][Next]_vars

------------------------------------------------------------------------------
(* Where the directive x is executed, it has been replaced.                *)
ReplacedWhereExecuted(x) ==
  CASE InMain(x) -> x \in main_text
    [] ~InMain(x) /\ Around(x) # {} ->
         \E y \in Around(x) : Created(y) /\ Around(y) = {} /\ x \in code[y].text
    [] OTHER -> x \in replaced /\ InFile(x)

(* No edit goes to text that has been removed, and every directive of the  *)
(* file is replaced where it is executed, a taskwait in a task, which is   *)
(* text of two functions, included -- unless main has a directive or a     *)
(* task another task.  One in an included file never is.                   *)
WhatIsReplaced ==
  stage = "written" =>
    /\ misplaced = {} <=>
         \A x \in Directives : ~InMain(x) /\ ~(IsTask(x) /\ Around(x) # {})
    /\ misplaced = {} => \A x \in Directives : ReplacedWhereExecuted(x) <=> InFile(x)

(* The includes come too late, or not at all, if they went to an included  *)
(* file or to main, and only then.                                         *)
HeaderPrecedesUse ==
  stage = "written" /\ UsesHeader # {} =>
    /\ header # 0
    /\ HeaderInTime <=> ~unit[header].included /\ ~unit[header].main

(* Each task the program creates has its function in the table, and in it  *)
(* every variable of the task's clauses and of its code leads, behind all  *)
(* its layers of pointers, to the object it has where the task is created. *)
VariablesReached ==
  stage = "written" =>
    \A x \in Directives : Created(x) =>
      /\ x \in tasking_function_map
      /\ \A v \in ToSet(Requested(Node(x).clauses)) :
           \E c \in ToSet(code[x].callee) : StandsFor(c, code[x].caller, v)

(* The bytes sent for a variable are the bytes of its object, or more of   *)
(* its block and not beyond it.  They are fewer in three cases only: a     *)
(* block filled to its last byte lacks that byte; an object that is        *)
(* neither on the heap nor on the stack lacks what exceeds 20 bytes; and   *)
(* inside a block malloc_usable_size is not defined.                       *)
SizesFit ==
  \A x \in DOMAIN sent : \A i \in DOMAIN sent[x] :
    LET v == code[x].caller[i].var
        s == sent[x][i]
        kinds == {r.kind : r \in RegionsOf(v.at)}
        heap == kinds = {"heap"}
        start == v.at \in DOMAIN Block
    IN  /\ s < v.bytes =>
             \/ heap /\ start /\ v.bytes = Block[v.at] /\ s = v.bytes - 1
             \/ kinds = {"other"} /\ s = 20
             \/ heap /\ ~start
        /\ heap /\ start => s <= Block[v.at]
=============================================================================
