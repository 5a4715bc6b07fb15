------------------------------ MODULE MCStudy ------------------------------
(***************************************************************************)
(* A study of three projects for TLC, and the code bases that "detect" is  *)
(* run on: one family for names and inheritance, one for sizes.            *)
(***************************************************************************)
EXTENDS Study

CONSTANTS shop, bank, game, shop1, shop2, bank1, game1

Class(name, module, bases, refs, methods, fields) ==
  [name |-> name, module |-> module, bases |-> bases, refs |-> refs \cup ToSet(bases),
   decorators |-> {}, methods |-> methods, children |-> DOMAIN methods, fields |-> fields]

Method(fields, complexity) == [fields |-> fields, calls |-> {}, complexity |-> complexity]

NoImports == [m \in {"m", "n"} |-> <<>>]

-----------------------------------------------------------------------------
(* The study: Big is reported and Base is its control; the versions of the  *)
(* first project differ in a file that Big is referenced from.              *)

Two == <<Method({"x"}, 1), Method({"y"}, 1)>>

Project(refs) ==
  [order |-> <<"big", "base">>,
   class |-> [big  |-> Class("Big", "m", <<"Base">>, {}, Two, {"x", "y"}),
              base |-> Class("Base", "n", <<>>, refs, Two, {})],
   imports |-> NoImports, broken |-> {}, odd |-> {}]

Alone ==
  [order |-> <<"big">>,
   class |-> [big |-> Class("Big", "m", <<>>, {}, Two, {"x", "y"})],
   imports |-> NoImports, broken |-> {}, odd |-> {}]

MCContent == (shop1 :> Project({})) @@ (shop2 :> Project({"Big"}))
               @@ (bank1 :> Alone) @@ (game1 :> Alone)

MCCheckout == (shop :> shop1) @@ (bank :> bank1) @@ (game :> game1)

-----------------------------------------------------------------------------
(* Names: two modules, two classes that may have one name, cycles, a path  *)
(* longer than the limit, an import that says where the class is and one   *)
(* that does not, a module that does not parse, a calculator that raises.  *)

Names ==
  {[order |-> order,
    class |-> [k \in {"k1", "k2", "k3", "k4"} |->
                 CASE k = "k1" -> Class("A", "m", base1, {}, <<>>, {})
                   [] k = "k2" -> Class("B", m2, base2, {}, <<>>, {})
                   [] k = "k3" -> Class(n3, "n", base3, {}, <<>>, {})
                   [] k = "k4" -> Class("D", "n", base4, {}, <<>>, {})],
    imports |-> [NoImports EXCEPT !["n"] = bound],
    broken |-> flaw[1], odd |-> flaw[2]] :
     order \in {<<"k1", "k2", "k3", "k4">>, <<"k4", "k3", "k2", "k1">>},
     base1 \in {<<>>, <<"C">>}, m2 \in {"m", "n"}, base2 \in {<<>>, <<"A">>},
     n3 \in {"A", "C"}, base3 \in {<<>>, <<"A">>, <<"B">>, <<"A", "B">>},
     base4 \in {<<>>, <<"C">>, <<"B", "A">>, <<"X">>},
     bound \in {<<>>, "A" :> <<"m", "A">>, "X" :> <<"elsewhere", "A">>},
     flaw \in {<<{}, {}>>, <<{"m"}, {}>>, <<{}, {"k2"}>>}}

(* Sizes: three classes out of six, one of which is exempt. *)
Shapes ==
  {Class("S", "m", <<>>, {}, <<>>, {}),
   Class("S", "m", <<>>, {}, <<Method({"x"}, 1)>>, {"x"}),
   Class("S", "m", <<>>, {}, <<Method({"x"}, 2), Method({"y"}, 1)>>, {"x", "y"}),
   Class("S", "m", <<>>, {"T"}, <<Method({}, 4), Method({"y"}, 4)>>, {"y"}),
   Class("T", "m", <<>>, {"S"}, <<Method({"x"}, 3)>>, {"x", "y"}),
   Class("T", "m", <<"Enum">>, {"S"}, <<Method({"x"}, 9)>>, {"x", "y"})}

Sizes ==
  {[order |-> <<1, 2, 3>>, class |-> s, imports |-> NoImports, broken |-> {}, odd |-> {}] :
     s \in [1..3 -> Shapes]}

(* The statements of a file. *)
Use(role, chain) == [role |-> role, chain |-> chain]

Line(kind, ands, ternaries, filters, uses) ==
  [kind |-> kind, up |-> 0, slot |-> "body", name |-> "", params |-> <<>>, decorators |-> <<>>,
   ands |-> ands, ternaries |-> ternaries, filters |-> filters, uses |-> uses, numbers |-> <<>>]

Definition(kind, name, params, uses) ==
  [Line(kind, 0, 0, <<>>, uses) EXCEPT !.name = name, !.params = params]

MCLines ==
  {Definition("class", "K", <<>>, <<Use("load", <<"abc", "ABC">>)>>),
   Definition("def", "f", <<"self", "a">>, <<>>),
   [Definition("def", "g", <<>>, <<>>) EXCEPT !.decorators = <<"cache">>],
   Line("if", 3, 0, <<>>, <<Use("load", <<"a">>)>>),
   Line("loop", 0, 1, <<>>, <<Use("store", <<"x">>)>>),
   Line("try", 0, 0, <<>>, <<>>), Line("handler", 0, 0, <<>>, <<>>),
   Line("match", 2, 0, <<>>, <<>>), Line("case", 0, 1, <<>>, <<>>),
   Line("with", 0, 0, <<>>, <<Use("store", <<"y">>)>>),
   Line("assign", 0, 0, <<1>>, <<Use("store", <<"self", "x">>), Use("call", <<"a", "b", "g">>)>>),
   [Line("return", 2, 1, <<>>, <<Use("call", <<"f">>)>>) EXCEPT !.numbers = <<1, 7>>]}

MCSearched == Names \cup Sizes

-----------------------------------------------------------------------------

Cond(metric, op, absolute, percentile) ==
  [metric |-> metric, op |-> op, absolute |-> absolute, percentile |-> percentile]

Rule(smell, all, conditions) ==
  [smell |-> smell, all |-> all, conditions |-> conditions,
   exempt |-> [bases |-> {"Enum"}, decorators |-> {}, names |-> {}],
   bands |-> <<<<1, 1>>, <<3, 2>>, <<5, 2>>, <<4, 1>>>>]

MCRatio == <<1, 1>>

MCKinds == {<<"logistic", "forest">>, <<"forest", "boosting">>}

MCShares == {<<1, 5>>, <<9, 10>>}

MCRules ==
  {Rule("god_class", TRUE, <<Cond("wmc", ">=", Rat(2), 50), Cond("lcom_hs", ">", <<1, 2>>, 25)>>),
   Rule("lazy_class", TRUE, <<Cond("wmc", "<=", Rat(3), 0), Cond("methods", "<", Rat(2), 0)>>),
   Rule("large_class", FALSE, <<Cond("wmc", ">", Rat(2), 60), Cond("fields", ">", Rat(2), 60)>>)}

=============================================================================
