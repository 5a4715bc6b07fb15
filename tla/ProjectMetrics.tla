--------------------------- MODULE ProjectMetrics ---------------------------
(***************************************************************************)
(* What the metrics engine computes from the classes of a project, of      *)
(* src/codesmell/metrics: the cross-file index of context.py, the CK       *)
(* metrics of oo.py and the two passes of engine.py.                       *)
(*                                                                         *)
(* A code base is a record: order, what is parsed, one after another;      *)
(* class, what the parser reports of each class (its name, module, base    *)
(* names, referenced names, decorators, fields, and its methods, each with *)
(* the fields it touches, the names it calls and its cyclomatic            *)
(* complexity); imports, for each module the names it binds and the path   *)
(* <<module, name>> of each; broken, the modules that cannot be read or    *)
(* parsed; odd, the classes on which a calculator raises.  Numbers are     *)
(* rationals <<n, d>> with d > 0.                                          *)
(***************************************************************************)
EXTENDS Integers, Sequences, SequencesExt

CONSTANTS None, MaxDepth

Metrics == {"wmc", "methods", "fields", "dit", "noc", "cbo", "fan_in", "rfc",
            "lcom1", "lcom_hs", "complexity", "bases"}

Rat(n) == <<n, 1>>

Number == Int \X (Nat \ {0})
Ratio  == Nat \X (Nat \ {0})

Leq(x, y) == x[1] * y[2] <= y[1] * x[2]
Less(x, y) == ~Leq(y, x)

Total(f) == FoldFunction(LAMBDA x, y : x + y, 0, f)

(* What the parser reports is finite, and every class has its turn. *)
IsCodeBase(code) ==
  /\ code.order \in Seq(ToSet(code.order))
  /\ IsFiniteSet(DOMAIN code.class) /\ None \notin DOMAIN code.class
  /\ DOMAIN code.class \subseteq ToSet(code.order)
  /\ \A c \in DOMAIN code.class :
       LET k == code.class[c]
       IN /\ k.bases \in Seq(ToSet(k.bases))
          /\ IsFiniteSet(k.refs) /\ IsFiniteSet(k.fields) /\ IsFiniteSet(DOMAIN k.methods)
          /\ IsFiniteSet(k.children)
          /\ \A i \in DOMAIN k.methods :
               IsFiniteSet(k.methods[i].calls) /\ k.methods[i].complexity \in Nat

-----------------------------------------------------------------------------
(* The index: what does not parse is not in it. *)

Classes(code) == {c \in DOMAIN code.class : code.class[c].module \notin code.broken}

Named(code, n) == {c \in Classes(code) : code.class[c].name = n}

Declared(code, m, n) == {c \in Named(code, n) : code.class[c].module = m}

(* The first of the classes to be parsed; the only one. *)
First(code, classes) ==
  LET at == {i \in DOMAIN code.order : code.order[i] \in classes}
  IN IF at = {} THEN None ELSE code.order[Min(at)]

Only(classes) == IF \E c \in classes : classes = {c} THEN CHOOSE c \in classes : TRUE ELSE None

Or(x, y) == IF x # None THEN x ELSE y

(* A base name: a class of the module, what the import binds, a class whose *)
(* name is unique in the project.  Otherwise it is not resolved.            *)
ResolveClass(code, n, origin) ==
  LET m        == code.class[origin].module
      bound    == code.imports[m]
      imported == IF n \notin DOMAIN bound THEN None
                  ELSE Or(First(code, Declared(code, bound[n][1], bound[n][2])),
                          Only(Named(code, bound[n][2])))
  IN Or(First(code, Declared(code, m, n)), Or(imported, Only(Named(code, n))))

(* What the bases of c are, or None for those the project cannot see. *)
Bases(code, c) ==
  [i \in DOMAIN code.class[c].bases |-> ResolveClass(code, code.class[c].bases[i], c)]

(* A class that names a base twice is listed twice. *)
Subclasses(code, c) ==
  Total([d \in Classes(code) |-> Cardinality({i \in DOMAIN Bases(code, d) : Bases(code, d)[i] = c})])

(* The classes that any name c mentions may mean, and those that mention c. *)
Referenced(code, c) ==
  (UNION {Named(code, n) : n \in code.class[c].refs}) \ {c}

Referencing(code, c) ==
  {d \in Classes(code) : d # c /\ code.class[c].name \in code.class[d].refs}

(* The longest path to a root.  The depths found on the way are kept in a  *)
(* cache; a class already on the path, or one too far from where the walk  *)
(* began, counts as a root.  The walk is by class, path, cache and number  *)
(* of bases that have been asked for theirs.                               *)
Depth(code, walk, c, seen, cache) ==
  LET found == walk[<<c, seen \cup {c}, cache, Len(Bases(code, c))>>]
  IN IF cache[c] # None THEN [depth |-> cache[c], cache |-> cache]
     ELSE IF c \in seen \/ Cardinality(seen) > MaxDepth THEN [depth |-> 0, cache |-> cache]
     ELSE [depth |-> found.depth, cache |-> [found.cache EXCEPT ![c] = found.depth]]

Deepest(code, walk, c, seen, cache, i) ==
  LET base == Bases(code, c)[i]
      best == walk[<<c, seen, cache, i - 1>>]
      up   == Depth(code, walk, base, seen, best.cache)
  IN IF i \notin DOMAIN Bases(code, c) THEN [depth |-> 0, cache |-> cache]
     ELSE IF base = None THEN best
     ELSE [depth |-> Max({best.depth, 1 + up.depth}), cache |-> up.cache]

Caches(code) == [Classes(code) -> Nat \cup {None}]

Walks(code) ==
  LET walk[a \in Classes(code) \X (SUBSET Classes(code)) \X Caches(code) \X Nat] ==
        Deepest(code, walk, a[1], a[2], a[3], a[4])
  IN walk

(* The metric pass asks for the depth of one class after the other. *)
Depths(code) ==
  LET walk == Walks(code)
      depths[i \in 0..Len(code.order)] ==
        IF i = 0 THEN [c \in Classes(code) |-> None]
        ELSE IF code.order[i] \notin Classes(code) \ code.odd THEN depths[i - 1]
        ELSE Depth(code, walk, code.order[i], {}, depths[i - 1]).cache
  IN depths[Len(code.order)]

-----------------------------------------------------------------------------
(* The metrics of a class. *)

Complexity(methods) == Total([i \in DOMAIN methods |-> methods[i].complexity])

Touches(methods, f) == Cardinality({i \in DOMAIN methods : f \in methods[i].fields})

\* Mutant of LcomHS: a class with one method is divided by zero.
LcomHSOfAll(methods, fields) ==
  LET m == Cardinality(DOMAIN methods)
      n == Cardinality(fields)
      lack == m * n - Total([f \in fields |-> Touches(methods, f)])
  IN IF n = 0 THEN Rat(0) ELSE <<Min({lack, (m - 1) * n}), (m - 1) * n>>

(* Henderson-Sellers: (m - mean number of methods that touch a field) / (m - 1), *)
(* at most 1: a field may be touched by none.                                    *)
LcomHS(methods, fields) ==
  LET m == Cardinality(DOMAIN methods)
      n == Cardinality(fields)
      lack == m * n - Total([f \in fields |-> Touches(methods, f)])
  IN IF m <= 1 \/ n = 0 THEN Rat(0) ELSE <<Min({lack, (m - 1) * n}), (m - 1) * n>>

(* Chidamber and Kemerer: pairs that share no field, minus those that do. *)
Lcom1(methods) ==
  LET pairs  == {p \in (DOMAIN methods) \X (DOMAIN methods) : p[1] < p[2]}
      shared == {p \in pairs : methods[p[1]].fields \cap methods[p[2]].fields # {}}
  IN Max({0, Cardinality(pairs) - 2 * Cardinality(shared)})

(* What ObjectOrientedCalculator computes. *)
Computed(code, depths, c) ==
  LET k == code.class[c]
  IN [wmc     |-> Rat(Complexity(k.methods)),
      methods |-> Rat(Cardinality(DOMAIN k.methods)),
      fields  |-> Rat(Cardinality(k.fields)),
      dit     |-> Rat(depths[c]),
      noc     |-> Rat(Subclasses(code, c)),
      cbo     |-> Rat(Cardinality(Referenced(code, c))),
      fan_in  |-> Rat(Cardinality(Referencing(code, c))),
      rfc     |-> Rat(Cardinality(DOMAIN k.methods)
                       + Cardinality(UNION {k.methods[i].calls : i \in DOMAIN k.methods})),
      lcom1   |-> Rat(Lcom1(k.methods)),
      lcom_hs |-> LcomHS(k.methods, k.fields),
      complexity |-> IF DOMAIN k.methods = {} THEN Rat(0)
                     ELSE <<Complexity(k.methods), Cardinality(DOMAIN k.methods)>>,
      bases   |-> Rat(Len(k.bases))]

(* What the engine puts in its place when a calculator raises. *)
Defaults(code, c) ==
  LET k == code.class[c]
  IN [m \in Metrics |-> CASE m = "wmc"     -> Rat(Max({1, Cardinality(k.children)}))
                          [] m = "methods" -> Rat(Cardinality(k.children))
                          [] m = "fields"  -> Rat(Cardinality(k.fields))
                          [] m = "cbo"     -> Rat(Cardinality(k.refs))
                          [] OTHER         -> Rat(0)]

(* The feature vectors of a project. *)
Analyse(code) ==
  LET depths == Depths(code)
  IN [c \in Classes(code) |->
        IF c \in code.odd THEN Defaults(code, c) ELSE Computed(code, depths, c)]

=============================================================================
