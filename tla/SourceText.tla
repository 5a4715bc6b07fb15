----------------------------- MODULE SourceText -----------------------------
(***************************************************************************)
(* What the Python parser makes of the text of a file                      *)
(* (languages/python/parser.py), and the metrics of its functions          *)
(* (metrics/complexity.py, metrics/halstead.py, metrics/oo.py).            *)
(*                                                                         *)
(* A text is the sequence of its statements, handlers and cases, each a    *)
(* record: kind; up and slot, the statement it belongs to (0, the file)    *)
(* and its block there; name, params and decorators, of a definition; and  *)
(* the expressions it has itself: ands, the operands of a boolean operator *)
(* (0: none); ternaries; filters, their number for each clause of a        *)
(* comprehension; uses, the attribute chains with their role; numbers.     *)
(* Every block but an "else" begins with a "pass", which is not listed.    *)
(***************************************************************************)
EXTENDS ProjectMetrics

CONSTANTS Receivers, Benign   \* "self", "cls"; the numbers that are not magic

Slots == [file |-> <<"body">>, def |-> <<"body">>, class |-> <<"body">>, with |-> <<"body">>,
          handler |-> <<"body">>, case |-> <<"body">>, match |-> <<"parts">>,
          if |-> <<"body", "orelse">>, loop |-> <<"body", "orelse">>,
          try |-> <<"body", "parts", "orelse", "final">>]

(* The expressions of a statement are finite, and a chain has a root. *)
IsStatement(s) ==
  /\ s.kind # "file"
  /\ DOMAIN s = {"kind", "up", "slot", "name", "params", "decorators",
                 "ands", "ternaries", "filters", "uses", "numbers"}
  /\ s.ands \in Nat /\ s.ternaries \in Nat
  /\ s.filters \in Seq(Nat)
  /\ s.params \in Seq(ToSet(s.params)) /\ s.decorators \in Seq(ToSet(s.decorators))
  /\ s.numbers \in Seq(ToSet(s.numbers)) /\ s.uses \in Seq(ToSet(s.uses))
  /\ \A u \in ToSet(s.uses) : u.chain \in Seq(ToSet(u.chain)) \ {<<>>}

Kind(text, i) == IF i = 0 THEN "file" ELSE text[i].kind

Kids(text, i, slot) == {j \in DOMAIN text : text[j].up = i /\ text[j].slot = slot}

Above(text) ==
  LET above[i \in 0..Len(text)] == IF i = 0 THEN {} ELSE {text[i].up} \cup above[text[i].up]
  IN above

(* ast.walk *)
Walk(text, i) ==
  LET above == Above(text) IN {j \in DOMAIN text : j = i \/ i \in above[j]}

(* Where a statement can be written next, after all that are there.        *)
(* Handlers and cases are parts of their statements; the "else" of a try   *)
(* follows a handler.                                                      *)
Places(text, kind) ==
  LET n    == Len(text)
      path == {0, n} \cup Above(text)[n]
      Rank(i, slot) == CHOOSE r \in DOMAIN Slots[Kind(text, i)] : Slots[Kind(text, i)][r] = slot
  IN {p \in UNION {{i} \X ToSet(Slots[Kind(text, i)]) : i \in {j \in path : Kind(text, j) \in DOMAIN Slots}} :
        /\ \A k \in path \ {0} : text[k].up = p[1] => Rank(p[1], text[k].slot) <= Rank(p[1], p[2])
        /\ (p[2] = "parts") = (kind \in {"handler", "case"})
        /\ kind = "handler" => Kind(text, p[1]) = "try"
        /\ kind = "case" => Kind(text, p[1]) = "match"
        /\ p[2] = "orelse" /\ Kind(text, p[1]) = "try" => Kids(text, p[1], "parts") # {}}

(* Otherwise ast.parse raises. *)
Parses(text) ==
  \A i \in DOMAIN text :
    /\ text[i].kind = "match" => Kids(text, i, "parts") # {}
    /\ text[i].kind = "try" => Kids(text, i, "parts") \cup Kids(text, i, "final") # {}

-----------------------------------------------------------------------------
(* Entities: the definitions that are in nothing but definitions. *)

Definitions == {"def", "class"}

Entities(text) ==
  LET above == Above(text)
  IN {i \in DOMAIN text : \A j \in {i} \cup above[i] : Kind(text, j) \in Definitions \cup {"file"}}

(* Their qualified names, and thereby their ids. *)
Path(text) ==
  LET path[i \in 0..Len(text)] ==
        IF i = 0 THEN <<>> ELSE Append(path[text[i].up], text[i].name)
  IN path

(* The node and the facts of an entity are those of the last with its id. *)
Recorded(text, i) == Max({j \in Entities(text) : Path(text)[j] = Path(text)[i]})

(* Children are found by the name of the parent: methods, nested classes, and what *)
(* is in a function of that name.                                                  *)
ChildrenOf(text, c) ==
  LET path == Path(text)
  IN {i \in Entities(text) : path[text[i].up] = path[c]}

MethodsOf(text, c) ==
  LET entities == Entities(text)
      path == Path(text)
  IN {i \in entities : /\ text[i].kind = "def"
                       /\ Kind(text, text[i].up) = "class"
                       /\ path[text[i].up] = path[c]}

Uses(text, i) == UNION {ToSet(text[j].uses) : j \in Walk(text, i)}

ReferencedNames(text, i) ==
  (UNION {ToSet(u.chain) : u \in Uses(text, i)})
    \cup UNION {ToSet(text[j].decorators) : j \in Walk(text, i)}

CalledNames(text, i) == {Last(u.chain) : u \in {v \in Uses(text, i) : v.role = "call"}}

OnReceiver(u) == Len(u.chain) >= 2 /\ u.chain[1] \in Receivers

SelfAttributes(text, i) == {u.chain[2] : u \in {v \in Uses(text, i) : OnReceiver(v)}}

AssignedSelfAttributes(text, i) ==
  {u.chain[2] : u \in {v \in Uses(text, i) : OnReceiver(v) /\ Len(v.chain) = 2 /\ v.role = "store"}}

(* What the class assigns itself, and what its functions assign to self. *)
ClassFields(text, c) ==
  LET body == Kids(text, c, "body")
      own  == UNION {ToSet(text[i].uses) : i \in {j \in body : text[j].kind = "assign"}}
  IN {u.chain[1] : u \in {v \in own : v.role = "store" /\ Len(v.chain) = 1}}
       \cup UNION {AssignedSelfAttributes(text, i) : i \in {j \in body : text[j].kind = "def"}}

-----------------------------------------------------------------------------
(* Complexity. *)

Branches(s) ==
  (IF s.kind \in {"if", "loop", "handler", "assert", "case"} THEN 1 ELSE 0)
    + s.ternaries + Max({s.ands - 1, 0}) + Total([k \in DOMAIN s.filters |-> 1 + s.filters[k]])

CyclomaticComplexity(text, i) == 1 + Total([j \in Walk(text, i) |-> Branches(text[j])])

(* Boolean operators and ternaries of one statement, or of its header. *)
Expressions(s, nesting) == (IF s.ands > 0 THEN 1 ELSE 0) + s.ternaries * (1 + nesting)

(* Statement, by statement, depth and whether it is an "elif"; cost is that *)
(* of the statements inside.                                               *)
Block(text, cost, i, slot, n) == Total([j \in Kids(text, i, slot) |-> cost[<<j, n, FALSE>>]])

\* Mutant of IfChain: what begins with an "if" is a chain.
IfChainAnyway(text, cost, i, n) ==
  LET rest == Kids(text, i, "orelse")
  IN 1 + Expressions(text[i], n) + Block(text, cost, i, "body", n + 1)
       + CASE rest = {} -> 0
           [] rest # {} /\ text[Min(rest)].kind = "if" -> cost[<<Min(rest), n, TRUE>>]
           [] OTHER -> 1 + Block(text, cost, i, "orelse", n + 1)

(* A branch, and what is chained to it: an "elif" is a lone "if" in "else". *)
IfChain(text, cost, i, n) ==
  LET rest == Kids(text, i, "orelse")
  IN 1 + Expressions(text[i], n) + Block(text, cost, i, "body", n + 1)
       + CASE rest = {} -> 0
           [] Cardinality(rest) = 1 /\ text[Min(rest)].kind = "if" -> cost[<<Min(rest), n, TRUE>>]
           [] OTHER -> 1 + Block(text, cost, i, "orelse", n + 1)

Statement(text, cost, i, n) ==
  LET Inside(slot, depth) == Block(text, cost, i, slot, depth)
      Parts(points) ==
        Total([j \in Kids(text, i, "parts") |-> points + Block(text, cost, j, "body", n + 1)])
      kind == text[i].kind
  IN CASE kind = "if"    -> n + IfChain(text, cost, i, n)
       [] kind = "loop"  -> 1 + n + Inside("body", n + 1) + Expressions(text[i], n)
                              + (IF Kids(text, i, "orelse") = {} THEN 0
                                 ELSE 1 + Inside("orelse", n + 1))
       [] kind = "try"   -> Inside("body", n) + Parts(1 + n)
                              + Inside("orelse", n) + Inside("final", n)
       [] kind = "match" -> 1 + n + Parts(0)
       [] kind \in Definitions -> Inside("body", n + 1)
       [] kind = "with"  -> Inside("body", n)
       [] OTHER          -> Expressions(text[i], n)

Costs(text) ==
  LET cost[a \in (DOMAIN text) \X Nat \X BOOLEAN] ==
        IF a[3] THEN IfChain(text, cost, a[1], a[2]) ELSE Statement(text, cost, a[1], a[2])
  IN cost

CognitiveComplexity(text, i) ==
  Block(text, Costs(text), i, "body", 0) + IF text[i].name \in CalledNames(text, i) THEN 1 ELSE 0

(* The statements in it: those of its handlers too, those of its cases not. *)
Inner(text, i) ==
  {j \in DOMAIN text :
     /\ text[j].kind \notin {"handler", "case"}
     /\ \/ text[j].up = i
        \/ Kind(text, text[j].up) = "handler" /\ text[text[j].up].up = i}

Deeper(s) == IF s.kind \in {"if", "loop", "try", "match"} THEN 1 ELSE 0

\* Mutant of Innermost: the last statement counts, not the deepest.
InnermostOfLast(text, nesting, i, here) ==
  IF Inner(text, i) = {} THEN here ELSE nesting[<<Max(Inner(text, i)), here>>]

Innermost(text, nesting, i, here) == Max({here} \cup {nesting[<<j, here>>] : j \in Inner(text, i)})

Nesting(text) ==
  LET nesting[a \in (DOMAIN text) \X Nat] ==
        Innermost(text, nesting, a[1], a[2] + Deeper(text[a[1]]))
  IN nesting

MaxNestingDepth(text, i) == Max({0} \cup {Nesting(text)[<<j, 0>>] : j \in Kids(text, i, "body")})

-----------------------------------------------------------------------------
(* Halstead: the operators, counted, and the operands. *)

CallsIn(s) == Cardinality({k \in DOMAIN s.uses : s.uses[k].role = "call"})

OperatorCounts(s) ==
  [keyword |-> IF s.kind \in {"if", "loop", "try", "handler", "with", "match",
                              "return", "assert", "assign"} THEN 1 ELSE 0,
   pass    |-> IF s.kind \in (DOMAIN Slots) \ {"match"} THEN 1 ELSE 0,
   and     |-> IF s.ands = 0 THEN 0 ELSE Max({s.ands - 1, 1}),
   ternary |-> s.ternaries,
   call    |-> CallsIn(s),
   dot     |-> Total([k \in DOMAIN s.uses |-> Len(s.uses[k].chain) - 1])]

OperatorsOf(s) ==
  LET counts == OperatorCounts(s)
  IN {IF o = "keyword" THEN s.kind ELSE o : o \in {p \in DOMAIN counts : counts[p] > 0}}

OperandCount(s) ==
  (IF s.kind \in Definitions THEN 1 ELSE 0) + Len(s.params) + Len(s.decorators)
    + Total([k \in DOMAIN s.uses |-> Len(s.uses[k].chain)]) + Len(s.numbers)

OperandsOf(s) ==
  (IF s.kind \in Definitions THEN {s.name} ELSE {}) \cup ToSet(s.params)
    \cup ToSet(s.decorators) \cup UNION {ToSet(u.chain) : u \in ToSet(s.uses)}

HalsteadLength(text, i) ==
  Total([j \in Walk(text, i) |-> Total(OperatorCounts(text[j])) + OperandCount(text[j])])

HalsteadVocabulary(text, i) ==
  LET walk == Walk(text, i)
  IN Cardinality(UNION {OperatorsOf(text[j]) : j \in walk})
       + Cardinality(UNION {OperandsOf(text[j]) : j \in walk})
       + Cardinality(UNION {ToSet(text[j].numbers) : j \in walk})

-----------------------------------------------------------------------------
(* The other metrics of a function. *)

LocalVariables(text, i) ==
  {u.chain[1] : u \in {v \in Uses(text, i) : v.role = "store" /\ Len(v.chain) = 1}}
    \ ToSet(text[i].params)

ReturnCount(text, i) == Cardinality({j \in Walk(text, i) : text[j].kind = "return"})

CallCount(text, i) == Total([j \in Walk(text, i) |-> CallsIn(text[j])])

MagicNumbers(text, i) ==
  LET Magic(s) == {k \in DOMAIN s.numbers : s.numbers[k] \notin Benign}
  IN Total([j \in Walk(text, i) |-> Cardinality(Magic(text[j]))])

MaxMessageChain(text, i) == Max({0} \cup {Len(u.chain) - 1 : u \in Uses(text, i)})

(* Each attribute of a chain counts, by the root of the chain. *)
ForeignAccessRatio(text, i) ==
  LET Of(s, mine) == {k \in DOMAIN s.uses : (s.uses[k].chain[1] \in Receivers) = mine}
      Accesses(mine) ==
        Total([j \in Walk(text, i) |->
          Total([k \in Of(text[j], mine) |-> Len(text[j].uses[k].chain) - 1])])
      foreign == Accesses(FALSE)
      own     == Accesses(TRUE)
  IN IF own + foreign = 0 THEN <<0, 1>> ELSE <<foreign, own + foreign>>

ParametersWithoutSelf(s) ==
  Len(s.params) - IF s.params # <<>> /\ s.params[1] \in Receivers THEN 1 ELSE 0

FunctionMetrics(text, i) ==
  [cyclomatic_complexity |-> CyclomaticComplexity(text, i),
   cognitive_complexity  |-> CognitiveComplexity(text, i),
   max_nesting_depth     |-> MaxNestingDepth(text, i),
   halstead_length       |-> HalsteadLength(text, i),
   halstead_vocabulary   |-> HalsteadVocabulary(text, i),
   parameter_count       |-> Len(text[i].params),
   parameter_count_excluding_self |-> ParametersWithoutSelf(text[i]),
   local_variable_count  |-> Cardinality(LocalVariables(text, i)),
   return_count          |-> ReturnCount(text, i),
   call_count            |-> CallCount(text, i),
   distinct_call_count   |-> Cardinality(CalledNames(text, i)),
   max_message_chain     |-> MaxMessageChain(text, i),
   magic_number_count    |-> MagicNumbers(text, i),
   accessed_field_count  |-> Cardinality(SelfAttributes(text, i)),
   decorator_count       |-> Len(text[i].decorators)]

-----------------------------------------------------------------------------
(* The file as a code base of ProjectMetrics. *)
Parsed(text) ==
  LET MethodOf(i) == [fields |-> SelfAttributes(text, i), calls |-> CalledNames(text, i),
                      complexity |-> CyclomaticComplexity(text, i)]
      ClassOf(i) ==
        [name |-> text[i].name, module |-> "m",
         bases |-> [k \in DOMAIN text[i].uses |-> Last(text[i].uses[k].chain)],
         refs |-> ReferencedNames(text, i), decorators |-> ToSet(text[i].decorators),
         methods |-> [j \in MethodsOf(text, i) |-> MethodOf(Recorded(text, j))],
         children |-> ChildrenOf(text, i), fields |-> ClassFields(text, i)]
  IN [order |-> [i \in DOMAIN text |-> i],
      class |-> [i \in {j \in Entities(text) : text[j].kind = "class"} |-> ClassOf(i)],
      imports |-> [m \in {"m"} |-> <<>>],
      broken |-> IF Parses(text) THEN {} ELSE {"m"}, odd |-> {}]

=============================================================================
