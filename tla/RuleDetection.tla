---------------------------- MODULE RuleDetection ----------------------------
(***************************************************************************)
(* The rule-based detector, of src/codesmell/detectors: conditions on      *)
(* metrics with absolute or project-relative thresholds, exemptions, and a *)
(* severity from how far past its threshold the weakest condition is.      *)
(*                                                                         *)
(* A rule is a record: smell; conditions, a sequence of [metric, op,       *)
(* absolute, percentile] (percentile 0: none); all, whether every one has  *)
(* to hold; exempt, the base names, decorators and class names it leaves   *)
(* alone; bands, the multiple at which a severity of 1..4 begins.          *)
(***************************************************************************)
EXTENDS ProjectMetrics

CONSTANTS Rules, MinEntities

Operators == {">", ">=", "<", "<="}

LoadedConditions(rule) ==
  /\ rule.conditions \in Seq(ToSet(rule.conditions)) \ {<<>>}
  /\ \A i \in DOMAIN rule.conditions :
       LET cond == rule.conditions[i]
       IN cond.metric \in Metrics /\ cond.op \in Operators
          /\ cond.absolute \in Number /\ cond.percentile \in 0..99

LoadedBands(rule) ==
  /\ DOMAIN rule.bands \in (SUBSET (1..4)) \ {{}}
  /\ rule.bands \in [DOMAIN rule.bands -> Number]

(* What load_rules accepts: one rule per smell, on metrics of the schema. *)
LoadedRules ==
  /\ \A rule \in Rules : LoadedConditions(rule) /\ LoadedBands(rule)
  /\ \A r, q \in Rules : r.smell = q.smell => r = q

ASSUME RulesAssumption == LoadedRules

Infinite == <<1, 0>>

Modes == {"absolute", "percentile"}

Falling(op) == op \in {"<", "<="}

Holds(op, v, t) == CASE op = ">"  -> Less(t, v)
                     [] op = ">=" -> Leq(t, v)
                     [] op = "<"  -> Less(v, t)
                     [] op = "<=" -> Leq(v, t)

\* Mutant of Excess: a zero below its threshold is not far past it.
ExcessOfZero(op, v, t) ==
  IF Falling(op)
  THEN IF ~Less(Rat(0), v) THEN Rat(1)
       ELSE IF Less(Rat(0), t) THEN <<t[1] * v[2], t[2] * v[1]>> ELSE Rat(0)
  ELSE IF ~Less(Rat(0), t) THEN <<v[1] + v[2], v[2]>>
       ELSE <<v[1] * t[2], v[2] * t[1]>>

(* How far past t the value is, as a multiple. *)
Excess(op, v, t) ==
  IF Falling(op)
  THEN IF ~Less(Rat(0), v) THEN IF Less(Rat(0), t) THEN Infinite ELSE Rat(1)
       ELSE IF Less(Rat(0), t) THEN <<t[1] * v[2], t[2] * v[1]>> ELSE Rat(0)
  ELSE IF ~Less(Rat(0), t) THEN <<v[1] + v[2], v[2]>>
       ELSE <<v[1] * t[2], v[2] * t[1]>>

-----------------------------------------------------------------------------
(* Thresholds *)

(* The q-th percentile of the sorted values, between two of them. *)
Percentile(sorted, q) ==
  LET last == Len(sorted) - 1
      rank == q * last
      low  == sorted[1 + (rank \div 100)]
      high == sorted[1 + Min({(rank \div 100) + 1, last})]
      w    == rank % 100
  IN <<low[1] * high[2] * (100 - w) + high[1] * low[2] * w, 100 * low[2] * high[2]>>

(* The k-th value, from 0: so many are less, and one more are not greater. *)
Ranked(features, metric, k) ==
  CHOOSE v \in {features[c][metric] : c \in DOMAIN features} :
    /\ Cardinality({c \in DOMAIN features : Less(features[c][metric], v)}) <= k
    /\ k < Cardinality({c \in DOMAIN features : Leq(features[c][metric], v)})

(* The values of the vectors, sorted. *)
Values(features, metric) ==
  [i \in 1..Cardinality(DOMAIN features) |-> Ranked(features, metric, i - 1)]

(* A project with too few classes has no percentiles. *)
Threshold(cond, mode, features) ==
  IF mode = "percentile" /\ cond.percentile # 0 /\ Cardinality(DOMAIN features) >= MinEntities
  THEN Percentile(Values(features, cond.metric), cond.percentile)
  ELSE cond.absolute

-----------------------------------------------------------------------------
(* One rule *)

Exempt(rule, k) ==
  \/ ToSet(k.bases) \cap rule.exempt.bases # {}
  \/ k.decorators \cap rule.exempt.decorators # {}
  \/ k.name \in rule.exempt.names

(* The band with the largest multiple that the excess reaches. *)
SeverityFor(rule, excess) ==
  LET reached == {s \in DOMAIN rule.bands : Leq(rule.bands[s], excess)}
  IN IF reached = {} THEN 1
     ELSE CHOOSE s \in reached : \A r \in reached : Leq(rule.bands[r], rule.bands[s])

Weakest(excesses) ==
  LET finite == excesses \ {Infinite}
  IN IF finite = {} THEN Rat(1)
     ELSE CHOOSE x \in finite : \A y \in finite : Leq(x, y)

(* The conditions of the rule that hold of c. *)
Satisfied(rule, mode, features, c) ==
  {i \in DOMAIN rule.conditions :
     LET cond == rule.conditions[i]
     IN Holds(cond.op, features[c][cond.metric], Threshold(cond, mode, features))}

Fires(rule, satisfied) ==
  IF rule.all THEN satisfied = DOMAIN rule.conditions ELSE satisfied # {}

Severity(rule, mode, features, c) ==
  SeverityFor(rule, Weakest(
    {LET cond == rule.conditions[i]
     IN Excess(cond.op, features[c][cond.metric], Threshold(cond, mode, features)) :
       i \in Satisfied(rule, mode, features, c)}))

(* Percentile mode skips a rule that has a condition without a percentile. *)
Supports(rule, mode) ==
  mode = "absolute" \/ \A i \in DOMAIN rule.conditions : rule.conditions[i].percentile # 0

(* The findings in a code base. *)
Findings(code, features, mode) ==
  LET Found(rule, c) == /\ Supports(rule, mode)
                        /\ ~Exempt(rule, code.class[c])
                        /\ Fires(rule, Satisfied(rule, mode, features, c))
  IN {[smell |-> f[1].smell, class |-> f[2], severity |-> Severity(f[1], mode, features, f[2])] :
        f \in {g \in Rules \X (DOMAIN features) : Found(g[1], g[2])}}

=============================================================================
