----------------------------- MODULE MCProcessor -----------------------------
(***************************************************************************)
(* Small instances of Processor: units of up to three declarations, one of *)
(* them main at most.  The heap has a block of 248 bytes and one of 24.    *)
(***************************************************************************)
EXTENDS Processor

MCRegion == << [start |-> 100,  end |-> 700,  kind |-> "heap"],
               [start |-> 800,  end |-> 900,  kind |-> "other"],
               [start |-> 1000, end |-> 1100, kind |-> "stack"] >>
MCBlock == [a \in {200, 456} |-> IF a = 200 THEN 248 ELSE 24]
MCGarbage == {5}

Variable(name, type, layers, declared, at, bytes) ==
  [name |-> name, type |-> type, layers |-> layers, trivial |-> TRUE,
   declared |-> declared, at |-> at, bytes |-> bytes]

i == Variable("i", "builtin", 0, 4, 1040, 4)            \* a loop variable
a == Variable("a", "array parameter", 1, 40, 200, 40)
p == Variable("p", "pointer", 1, 8, 456, 24)            \* fills its block
r == Variable("r", "pointer", 1, 8, 200, 240)
q == Variable("q", "pointer", 2, 8, 208, 16)            \* inside a block
s == Variable("s", "other", 0, 32, 840, 32)             \* a static structure
g == Variable("g", "pointer", 1, 4, 860, 4)
z == Variable("z", "pointer", 1, 4, 800, 4)             \* where a region starts
o == Variable("o", "other", 0, 8, 1060, 8)              \* a structure on the stack
k == Variable("k", "pointer", 1, 4, 1060, 4)
n == [Variable("n", "other", 0, 24, 1060, 24) EXCEPT !.trivial = FALSE]
u == Variable("u", "open array parameter", 1, 0, 200, 40)

Clauses(private, firstprivate, shared, captures, expression) ==
  [private |-> private, firstprivate |-> firstprivate, shared |-> shared,
   captures |-> captures, expression |-> expression]

Plain == Clauses(<<>>, <<>>, <<>>, <<i, p>>, FALSE)
ClauseSets ==
  { Plain,
    Clauses(<<>>, <<i>>, <<a>>, <<i, a, r>>, FALSE),
    Clauses(<<s>>, <<>>, <<>>, <<g>>, FALSE),
    Clauses(<<>>, <<>>, <<q>>, <<p, q>>, FALSE),
    Clauses(<<>>, <<>>, <<>>, <<i, z>>, FALSE),
    Clauses(<<>>, <<>>, <<>>, <<o>>, FALSE),
    Clauses(<<>>, <<k>>, <<>>, <<a, k>>, FALSE),
    Clauses(<<>>, <<>>, <<>>, <<i, n>>, FALSE),
    Clauses(<<>>, <<>>, <<u>>, <<u>>, FALSE),
    Clauses(<<>>, <<>>, <<>>, <<i>>, TRUE) }

Task(within, clauses) == [kind |-> "task", within |-> within, clauses |-> clauses]
Wait(within) == [kind |-> "taskwait", within |-> within]
Decl(included, main, nodes) == [included |-> included, main |-> main, nodes |-> nodes]

Shapes ==
  {<<>>, <<Wait({})>>, <<Task({}, Plain), Wait({})>>,
   <<Task({}, Plain), Wait({1}), Task({}, Plain)>>,
   <<Task({}, Plain), Task({1}, Plain), Wait({1, 2})>>}

Decls ==
  {Decl(FALSE, FALSE, <<Task({}, c)>>) : c \in ClauseSets}
  \cup {Decl(included, main, nodes) : included \in BOOLEAN, main \in BOOLEAN, nodes \in Shapes}

MCUnit ==
  {unit_ \in UNION {[1 .. length -> Decls] : length \in 0 .. 3} :
     /\ \A d \in DOMAIN unit_ : unit_[d].main => ~unit_[d].included
     /\ \A d, e \in DOMAIN unit_ : unit_[d].main /\ unit_[e].main => d = e}
=============================================================================
