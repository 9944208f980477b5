------------------------------ MODULE Captures ------------------------------
(***************************************************************************)
(* How the variables of a task get from its creator to the function that   *)
(* executes it: the two pieces of code ExtractorVisitor generates for each *)
(* of them, and the number of bytes the runtime sends when the processor   *)
(* cannot tell (functions.h).                                              *)
(*                                                                         *)
(* A variable is a record: its name, the form of its type, the layers of   *)
(* pointers around the object it leads to, whether that object is          *)
(* trivially copyable, the bytes its type declares, and, where the task is *)
(* created, the address of the object and the bytes it has there.          *)
(***************************************************************************)
EXTENDS Integers, SequencesExt

CONSTANTS
  Region,        \* the lines of /proc/self/maps: [start, end, kind]
  Block,         \* the heap: address of each block -> its usable size
  Garbage,       \* what malloc_usable_size may make of data before its argument
  StackLimit,    \* RLIMIT_STACK
  AddressSpace   \* 2^64 in the code

ASSUME RegionAssumption ==
  \A r \in ToSet(Region) :
    /\ r.start \in Nat /\ r.end \in Nat
    /\ r.kind \in {"heap", "stack", "other"}
ASSUME BlockAssumption == \A a \in DOMAIN Block : a \in Nat /\ Block[a] \in Nat \ {0}
ASSUME SizeAssumption == Garbage \cup {StackLimit, AddressSpace} \subseteq Nat \ {0}

RegionsOf(p) == {r \in ToSet(Region) : r.start < p /\ p < r.end}

BlockOf(p) ==
  CHOOSE a \in DOMAIN Block : a <= p /\ \A b \in DOMAIN Block : b <= p => b <= a

(* At the start of a block the result is its usable size.  At any other    *)
(* address it is undefined: 0, or what the data before it is taken for.    *)
malloc_usable_size(a) ==
  IF a \in DOMAIN Block THEN {Block[a]} ELSE {0} \cup Garbage

(* get_allocated_size goes back from p until malloc_usable_size is not 0,  *)
(* and takes the number of its steps off the result.                       *)
HeapSizes(p) ==
  UNION { {(size - (p - t + 1)) % AddressSpace : size \in malloc_usable_size(t) \ {0}}
          : t \in BlockOf(p) .. p }

(* The sizes get_allocated_size may return; none if it throws.             *)
get_allocated_size(p) ==
  UNION { CASE r.kind = "heap"  -> HeapSizes(p)
            [] r.kind = "stack" -> {StackLimit}
            [] r.kind = "other" -> {20}
          : r \in RegionsOf(p) }

------------------------------------------------------------------------------
(* The bytes the processor writes into the program; 0: the runtime decides.*)
PointeeSize(v) == v.declared                       \* mutation of getVarSize
getVarSize(v) ==
  IF v.type \in {"builtin", "array parameter"} THEN v.declared ELSE 0

(* What the processor generates for one task: the variables in its caller, *)
(* in the order of Task::vars, and the declarations in its function.       *)
Handled(names) == [exit |-> FALSE, handled |-> names, caller |-> <<>>, callee |-> <<>>]

NeverKnown(g, v) == FALSE                          \* mutation of Known
Known(g, v) == v.name \in ToSet(g.handled)

(* A type that is not trivially copyable makes the processor exit even if  *)
(* the variable was handled before, an open array only if it was not.      *)
insertVarCapture(g, v) ==
  CASE g.exit -> g
    [] ~g.exit /\ ~v.trivial -> [g EXCEPT !.exit = TRUE]
    [] ~g.exit /\ v.trivial /\ Known(g, v) -> g
    [] OTHER ->
         [exit    |-> v.type = "open array parameter",
          handled |-> Append(g.handled, v.name),
          caller  |-> Append(g.caller, [var |-> v, derefs |-> v.layers,
                                        size |-> getVarSize(v), copy |-> v.layers = 0]),
          callee  |-> Append(g.callee, [name |-> v.name, layers |-> v.layers,
                                        argument |-> Len(g.handled) + 1])]

(* The clauses come first, then everything the code captures.  Clauses of  *)
(* access and dependency may hold names of variables only.                 *)
Requested(c) == c.private \o c.firstprivate \o c.shared \o c.captures

Captured(c, names) ==
  IF c.expression THEN [Handled(names) EXCEPT !.exit = TRUE]
  ELSE LET requested == Requested(c)
           after[i \in 0 .. Len(requested)] ==
             IF i = 0 THEN Handled(names) ELSE insertVarCapture(after[i - 1], requested[i])
       IN  after[Len(requested)]

------------------------------------------------------------------------------
(* The function rebuilds a variable behind layers of pointers from its     *)
(* argument: pointer_layers is the argument, every pointer_k below it the  *)
(* address of pointer_(k + 1), and the variable is what pointer_0 points   *)
(* to.  The address of pointer_k is k; the argument points to Object.      *)
Object == -1
Value == -2

pointer(c) == [k \in 0 .. c.layers |-> IF k = c.layers THEN Object ELSE k + 1]

Content(c, a) == IF a = Object THEN Value ELSE IF a = Value THEN a ELSE pointer(c)[a]

(* What the code of the task finds behind n of the variable's layers.      *)
Behind(c) ==
  LET found[n \in 0 .. c.layers] ==
        Content(c, IF n = 0 THEN pointer(c)[0] ELSE found[n - 1])
  IN  found

(* The declaration c, executed with the variables of caller, stands for v. *)
StandsFor(c, caller, v) ==
  /\ c.name = v.name
  /\ c.argument \in DOMAIN caller
  /\ caller[c.argument].var = v
  /\ caller[c.argument].derefs = v.layers
  /\ Behind(c)[v.layers] = Value
=============================================================================
