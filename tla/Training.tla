------------------------------ MODULE Training ------------------------------
(***************************************************************************)
(* How the classifiers of src/codesmell/ml come to be: the split by        *)
(* projects (splitting.py), the grouped inner folds of the tuning          *)
(* (tuning.py), the holdout (training.py) and leave-one-project-out        *)
(* (logo.py).  A row of the dataset is a record with project, smell and    *)
(* label.  What an estimator computes is left out; which rows each one is  *)
(* fitted on and which it scores is kept: a fit is [on, scores].           *)
(***************************************************************************)
EXTENDS Integers, FiniteSets, FiniteSetsExt

CONSTANTS NoSplit, MaxAttempts, MinSamples, MinProjects, Tunable

Projects(rows) == {r.project : r \in rows}
Of(rows, projects) == {r \in rows : r.project \in projects}
BothClasses(rows) == {r.label : r \in rows} = {0, 1}

-----------------------------------------------------------------------------
(* The split *)

(* round() of Python: a half goes to the even neighbour. *)
Round(n, d) ==
  LET down == n \div d
      rest == 2 * (n % d)
  IN IF rest > d \/ (rest = d /\ down % 2 = 1) THEN down + 1 ELSE down

(* How many of n projects the test partition gets, for a share of x[1]/x[2]. *)
TestCount(n, x) == Max({1, Min({n - 1, Round(n * x[1], x[2])})})

(* The shuffles of the projects give one test partition after the other.   *)
Attempts(rows, x) ==
  [1..MaxAttempts -> kSubset(TestCount(Cardinality(Projects(rows)), x), Projects(rows))]

(* The first with both classes in both partitions, else the first with     *)
(* both in the training partition.                                         *)
SplitOf(rows, attempts) ==
  LET Train(test) == Of(rows, Projects(rows) \ test)
      usable == {i \in DOMAIN attempts : BothClasses(Train(attempts[i]))}
      best   == {i \in usable : BothClasses(Of(rows, attempts[i]))}
      test   == attempts[Min(IF best = {} THEN usable ELSE best)]
  IN IF usable = {} THEN NoSplit
     ELSE [train |-> Train(test), test |-> Of(rows, test)]

-----------------------------------------------------------------------------
(* The tuning *)

(* GroupKFold: every project in one of the k validation parts. *)
Folds(projects, k) ==
  {parts \in SUBSET ((SUBSET projects) \ {{}}) :
     /\ Cardinality(parts) = k
     /\ UNION parts = projects
     /\ \A p, q \in parts : p = q \/ p \cap q = {}}

\* Mutant of InnerFits: folds of rows instead of projects.
InnerFitsByRow(rows, parts) ==
  {[on |-> rows \ {r}, scores |-> {r}] : r \in {q \in rows : BothClasses(rows \ {q})}}

(* The fits of the inner folds, for each parameter candidate the same. *)
InnerFits(rows, parts) ==
  {[on |-> Of(rows, Projects(rows) \ part), scores |-> Of(rows, part)] :
     part \in {p \in parts : BothClasses(Of(rows, Projects(rows) \ p))}}

(* What may be fitted to choose the parameters of a model for these rows.  *)
Tunings(rows) ==
  LET n == Cardinality(Projects(rows))
  IN IF n < 2 THEN {{}}
     ELSE {InnerFits(rows, parts) : parts \in Folds(Projects(rows), Min({3, n}))}

(* All fits of a model that is tuned and fitted on train and scores test. *)
Fits(train, test) ==
  {inner \cup {[on |-> train, scores |-> test]} : inner \in Tunings(train)}

-----------------------------------------------------------------------------
(* Leave one project out *)

Enough(rows) == Cardinality(rows) >= MinSamples /\ Cardinality(Projects(rows)) >= MinProjects

(* The folds of one smell: one for each project and kind of model, unless  *)
(* the other projects have one class only.                                 *)
LogoFolds(rows, kinds) ==
  LET Rest(held) == Of(rows, Projects(rows) \ {held})
      Fold(held, kind) ==
        [status |-> "evaluated", held |-> held, kind |-> kind,
         fits |-> CHOOSE f \in Fits(Rest(held), Of(rows, {held})) : TRUE]
      Skip(held) == [status |-> "skipped", held |-> held]
      valid == {held \in Projects(rows) : BothClasses(Rest(held))}
  IN {Fold(held, kind) : held \in valid, kind \in kinds}
       \cup {Skip(held) : held \in Projects(rows) \ valid}

=============================================================================
