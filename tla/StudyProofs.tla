---------------------------- MODULE StudyProofs ----------------------------
(***************************************************************************)
(* Proofs about Study and the modules it is made of, for any projects,     *)
(* rules, source text and models, any share for testing and any shuffles.  *)
(*                                                                         *)
(* First the splits and fits of Training and the files of a study: labels  *)
(* meet the code they were given for, nothing leaks, reports list what is  *)
(* there.  Then the operators of the metrics and of the detector: numbers, *)
(* sums and recursive walks have values, and the report of "detect" follows *)
(* them.                                                                   *)
(***************************************************************************)
EXTENDS Study, FiniteSetTheorems, SequenceTheorems, WellFoundedInduction, TLAPS

LEMMA LeastExists ==
  ASSUME NEW S \in SUBSET Nat, S # {}
  PROVE  Min(S) \in S /\ \A n \in S : Min(S) <= n
<1>. DEFINE less == OpToRel(<, Nat)
<1>1. \A m, n \in Nat : <<m, n>> \in less <=> m < n BY DEF OpToRel
<1>2. IsWellFoundedOn(less, Nat) BY NatLessThanWellFounded
<1>. HIDE DEF less
<1>3. PICK least \in S : \A n \in S : <<n, least>> \notin less BY <1>2, WFMin
<1>4. \A n \in S : least <= n
  <2>1. \A n \in S : n \in Nat /\ least \in Nat /\ ~(n < least) BY <1>1, <1>3
  <2>. QED BY <2>1
<1>. QED BY <1>3, <1>4 DEF Min

\* Of is by project, and so are all partitions.
LEMMA PartsOfRows ==
  ASSUME NEW rows, NEW P \in SUBSET Projects(rows)
  PROVE  /\ Projects(Of(rows, P)) = P
         /\ Of(rows, P) \subseteq rows
         /\ Of(rows, P) = {} <=> P = {}
         /\ rows = Of(rows, P) \cup Of(rows, Projects(rows) \ P)
BY DEF Projects, Of

-----------------------------------------------------------------------------
(***************************************************************************)
(* The split.                                                              *)
(***************************************************************************)
LEMMA RoundIsNatural ==
  ASSUME NEW n \in Nat, NEW d \in Nat \ {0}
  PROVE  Round(n, d) \in Nat
<1>1. n \div d \in Nat OBVIOUS
<1>. QED BY <1>1 DEF Round

\* Whatever the share rounds to, testing gets a project and training keeps one.
LEMMA TestCountIsProper ==
  ASSUME NEW n \in Nat, n >= 2, NEW a \in Nat, NEW d \in Nat \ {0}
  PROVE  TestCount(n, <<a, d>>) \in 1..n - 1
<1>. DEFINE r == Round(n * a, d)
            m == Min({n - 1, r})
<1>1. r \in Nat
  <2>1. n * a \in Nat OBVIOUS
  <2>. QED BY <2>1, RoundIsNatural
<1>. HIDE DEF r
<1>2. m \in {n - 1, r} /\ m <= n - 1
  <2>1. {n - 1, r} \in SUBSET Nat BY <1>1
  <2>. QED BY <2>1, LeastExists
<1>3. m \in Nat BY <1>1, <1>2
<1>. HIDE DEF m
<1>4. Max({1, m}) \in {1, m} /\ Max({1, m}) >= 1
  <2>1. \E x \in {1, m} : \A y \in {1, m} : x >= y BY <1>3
  <2>. QED BY <2>1 DEF Max
<1>5. Max({1, m}) \in 1..n - 1 BY <1>2, <1>3, <1>4
<1>. QED BY <1>5 DEF TestCount, r, m

\* splitting.py: whatever the shuffles are, both partitions have projects, no
\* row is lost and none is in both; the training partition has both classes, and
\* so has the test partition if one of the attempts gives it both.
THEOREM SplitIsProper ==
  ASSUME NEW rows, IsFiniteSet(Projects(rows)), Cardinality(Projects(rows)) >= 2,
         NEW a \in Nat, NEW d \in Nat \ {0},
         MaxAttempts \in Nat,
         NEW attempts \in Attempts(rows, <<a, d>>),
         SplitOf(rows, attempts) # NoSplit
  PROVE  LET split == SplitOf(rows, attempts) IN
         /\ split.train \cup split.test = rows
         /\ split.train # {} /\ split.test # {}
         /\ Projects(split.train) \cap Projects(split.test) = {}
         /\ BothClasses(split.train)
         /\ \/ BothClasses(split.test)
            \/ \A i \in DOMAIN attempts :
                 ~(/\ BothClasses(Of(rows, attempts[i]))
                   /\ BothClasses(Of(rows, Projects(rows) \ attempts[i])))
<1>. DEFINE Train(test) == Of(rows, Projects(rows) \ test)
            usable == {i \in DOMAIN attempts : BothClasses(Train(attempts[i]))}
            best   == {i \in usable : BothClasses(Of(rows, attempts[i]))}
            from   == IF best = {} THEN usable ELSE best
            n      == Cardinality(Projects(rows))
            k      == TestCount(n, <<a, d>>)
            test   == attempts[Min(from)]
<1>1. k \in 1..n - 1 /\ n \in Nat
  <2>1. n \in Nat BY FS_CardinalityType
  <2>. QED BY <2>1, TestCountIsProper
<1>2. attempts \in [1..MaxAttempts -> kSubset(k, Projects(rows))] BY DEF Attempts
<1>3. usable # {} BY DEF SplitOf
<1>4. Min(from) \in from
  <2>1. DOMAIN attempts \subseteq Nat BY <1>2
  <2>2. from \in SUBSET Nat /\ from # {} BY <2>1, <1>3
  <2>. HIDE DEF from
  <2>. QED BY <2>2, LeastExists
<1>5. SplitOf(rows, attempts) = [train |-> Train(test), test |-> Of(rows, test)]
  BY <1>3 DEF SplitOf
<1>6. Min(from) \in 1..MaxAttempts /\ BothClasses(Train(test)) BY <1>2, <1>4
<1>7. BothClasses(Of(rows, test)) \/ best = {} BY <1>4
<1>8. test \in SUBSET Projects(rows) /\ Cardinality(test) = k
  BY <1>2, <1>6 DEF kSubset
<1>. HIDE DEF k, n, test, from
<1>9. test # {} BY <1>1, <1>8, FS_EmptySet
<1>10. test # Projects(rows) BY <1>1, <1>8 DEF n
<1>11. /\ Projects(Train(test)) = Projects(rows) \ test /\ Projects(Of(rows, test)) = test
       /\ Train(test) # {} /\ Of(rows, test) # {}
       /\ Train(test) \cup Of(rows, test) = rows
  <2>1. Projects(rows) \ test # {} BY <1>8, <1>10
  <2>. QED BY <1>8, <1>9, <2>1, PartsOfRows
<1>12. BothClasses(Of(rows, test)) \/ \A i \in DOMAIN attempts :
         ~(BothClasses(Of(rows, attempts[i])) /\ BothClasses(Train(attempts[i])))
  BY <1>7
<1>. HIDE DEF Train
<1>13. LET split == SplitOf(rows, attempts) IN
         split.train = Train(test) /\ split.test = Of(rows, test)
  BY <1>5
<1>. QED BY <1>6, <1>11, <1>12, <1>13 DEF Train

-----------------------------------------------------------------------------
(***************************************************************************)
(* The tuning.                                                             *)
(***************************************************************************)

\* tuning.py: whatever the inner folds are, an estimator is fitted on rows of
\* both classes and scores projects it has not seen; none is fitted on a project
\* of the test partition, and only the last one scores them.
THEOREM FitsAreSound ==
  ASSUME NEW train, NEW test,
         BothClasses(train), Projects(train) \cap Projects(test) = {},
         NEW fits \in Fits(train, test), NEW f \in fits
  PROVE  /\ BothClasses(f.on)
         /\ Projects(f.on) \cap (Projects(f.scores) \cup Projects(test)) = {}
         /\ Projects(f.scores) \cap Projects(test) # {} => f.scores = test
<1>1. PICK inner \in Tunings(train) : f \in inner \cup {[on |-> train, scores |-> test]}
  BY DEF Fits
<1>2. CASE f = [on |-> train, scores |-> test] BY <1>2
<1>3. CASE f \in inner
  <2>1. PICK parts \in Folds(Projects(train), Min({3, Cardinality(Projects(train))})) :
          inner = InnerFits(train, parts)
    BY <1>3, <1>1 DEF Tunings
  <2>2. PICK part \in parts :
          /\ f = [on |-> Of(train, Projects(train) \ part), scores |-> Of(train, part)]
          /\ BothClasses(Of(train, Projects(train) \ part))
    BY <1>3, <2>1 DEF InnerFits
  <2>3. part \in SUBSET Projects(train) BY DEF Folds
  <2>4. Projects(f.on) = Projects(train) \ part /\ Projects(f.scores) = part
    BY <2>2, <2>3, PartsOfRows
  <2>. QED BY <2>2, <2>3, <2>4
<1>. QED BY <1>1, <1>2, <1>3

\* There are inner folds for any number of projects from two on.
LEMMA FoldsExist ==
  ASSUME NEW P, IsFiniteSet(P), Cardinality(P) >= 2
  PROVE  Folds(P, Min({3, Cardinality(P)})) # {}
<1>. DEFINE n == Cardinality(P)
<1>1. n \in Nat BY FS_CardinalityType
<1>2. PICK p : p \in P BY <1>1, FS_EmptySet
<1>3. IsFiniteSet(P \ {p}) /\ Cardinality(P \ {p}) = n - 1
  BY <1>2, FS_RemoveElement
<1>4. PICK q : q \in P \ {p} BY <1>1, <1>3, FS_EmptySet
<1>5. IsFiniteSet(P \ {p, q}) /\ Cardinality(P \ {p, q}) = n - 2
  <2>1. (P \ {p}) \ {q} = P \ {p, q} OBVIOUS
  <2>2. IsFiniteSet((P \ {p}) \ {q}) /\ Cardinality((P \ {p}) \ {q}) = n - 1 - 1
    BY <1>3, <1>4, FS_RemoveElement
  <2>. QED BY <1>1, <2>1, <2>2
<1>6. IsFiniteSet({{p}, {q}}) /\ Cardinality({{p}, {q}}) = 2
  <2>1. IsFiniteSet({{p}}) /\ Cardinality({{p}}) = 1 BY FS_Singleton
  <2>2. {q} \notin {{p}} /\ {{p}} \cup {{q}} = {{p}, {q}} BY <1>4
  <2>3. /\ IsFiniteSet({{p}} \cup {{q}})
        /\ Cardinality({{p}} \cup {{q}}) = Cardinality({{p}}) + 1
    BY <2>1, <2>2, FS_AddElement
  <2>. QED BY <2>1, <2>2, <2>3
<1>7. CASE n = 2
  <2>1. Min({3, n}) = 2
    <3>1. {3, n} \in SUBSET Nat /\ {3, n} # {} BY <1>1
    <3>. QED BY <1>7, <3>1, LeastExists
  <2>2. P \ {p, q} = {} BY <1>5, <1>7, FS_EmptySet
  <2>3. {{p}, {q}} \in Folds(P, 2)
    <3>1. UNION {{p}, {q}} = P BY <1>2, <1>4, <2>2
    <3>. QED BY <1>2, <1>4, <1>6, <3>1 DEF Folds
  <2>. QED BY <2>1, <2>3
<1>8. CASE n # 2
  <2>1. Min({3, n}) = 3
    <3>1. {3, n} \in SUBSET Nat /\ {3, n} # {} /\ n >= 3 BY <1>1, <1>8
    <3>. QED BY <3>1, LeastExists
  <2>2. P \ {p, q} # {}
    <3>1. Cardinality(P \ {p, q}) # 0 BY <1>1, <1>5, <1>8
    <3>. QED BY <3>1, FS_EmptySet
  <2>. DEFINE parts == {{p}, {q}} \cup {P \ {p, q}}
  <2>3. Cardinality(parts) = 3
    <3>1. P \ {p, q} \notin {{p}, {q}} OBVIOUS
    <3>2. Cardinality(parts) = Cardinality({{p}, {q}}) + 1 BY <1>6, <3>1, FS_AddElement
    <3>. QED BY <1>6, <3>2
  <2>4. parts \in Folds(P, 3)
    <3>1. UNION parts = P BY <1>2, <1>4
    <3>2. parts \in SUBSET ((SUBSET P) \ {{}}) BY <1>2, <1>4, <2>2
    <3>3. \A r, s \in parts : r = s \/ r \cap s = {} BY <1>4
    <3>. HIDE DEF parts
    <3>. QED BY <2>3, <3>1, <3>2, <3>3 DEF Folds
  <2>. QED BY <2>1, <2>4
<1>. QED BY <1>7, <1>8

LEMMA FitsExist ==
  ASSUME NEW train, NEW test, IsFiniteSet(Projects(train))
  PROVE  Fits(train, test) # {}
<1>1. Cardinality(Projects(train)) \in Nat BY FS_CardinalityType
<1>. DEFINE n == Cardinality(Projects(train))
            all == Folds(Projects(train), Min({3, n}))
<1>2. Tunings(train) = IF n < 2 THEN {{}} ELSE {InnerFits(train, parts) : parts \in all}
  BY DEF Tunings
<1>3. n < 2 \/ all # {} BY <1>1, FoldsExist
<1>. HIDE DEF all, n
<1>4. Tunings(train) # {} BY <1>2, <1>3
<1>. QED BY <1>4 DEF Fits

-----------------------------------------------------------------------------
(***************************************************************************)
(* Leave one project out.                                                  *)
(***************************************************************************)

\* logo.py: whatever is reported of a project has been measured by estimators
\* that were fitted on rows of both classes of other projects, and the project is
\* scored by the last one only.
THEOREM LogoIsSound ==
  ASSUME NEW rows, IsFiniteSet(Projects(rows)), NEW kinds,
         NEW fold \in LogoFolds(rows, kinds), fold.status = "evaluated",
         NEW f \in fold.fits
  PROVE  /\ fold.held \in Projects(rows)
         /\ BothClasses(f.on)
         /\ Projects(f.on) \cap (Projects(f.scores) \cup {fold.held}) = {}
         /\ fold.held \in Projects(f.scores) => f.scores = Of(rows, {fold.held})
<1>. DEFINE Rest(held) == Of(rows, Projects(rows) \ {held})
            Fold(held, kind) ==
              [status |-> "evaluated", held |-> held, kind |-> kind,
               fits |-> CHOOSE g \in Fits(Rest(held), Of(rows, {held})) : TRUE]
            Skip(held) == [status |-> "skipped", held |-> held]
            valid == {held \in Projects(rows) : BothClasses(Rest(held))}
<1>1. PICK held \in valid, kind \in kinds : fold = Fold(held, kind)
  <2>1. LogoFolds(rows, kinds) = {Fold(held, kind) : held \in valid, kind \in kinds}
                                   \cup {Skip(held) : held \in Projects(rows) \ valid}
    BY DEF LogoFolds
  <2>2. \A held : Skip(held).status = "skipped" OBVIOUS
  <2>. HIDE DEF Fold, Skip, valid
  <2>3. fold \notin {Skip(held) : held \in Projects(rows) \ valid} BY <2>2
  <2>. QED BY <2>1, <2>3
<1>2. fold.held = held /\ held \in Projects(rows) BY <1>1
<1>. DEFINE train == Rest(held)
            test  == Of(rows, {held})
<1>3. Projects(train) = Projects(rows) \ {held} /\ Projects(test) = {held}
  <2>1. Projects(rows) \ {held} \in SUBSET Projects(rows) /\ {held} \in SUBSET Projects(rows)
    BY <1>2
  <2>. QED BY <2>1, PartsOfRows
<1>4. fold.fits \in Fits(train, test)
  <2>1. IsFiniteSet(Projects(train)) BY <1>3, FS_RemoveElement
  <2>2. Fits(train, test) # {} BY <2>1, FitsExist
  <2>3. fold.fits = CHOOSE g \in Fits(train, test) : TRUE BY <1>1
  <2>. HIDE DEF train, test
  <2>. QED BY <2>2, <2>3
<1>. HIDE DEF train, test, Rest
<1>5. BothClasses(train) BY <1>1 DEF train, Rest
<1>6. /\ BothClasses(f.on)
      /\ Projects(f.on) \cap (Projects(f.scores) \cup Projects(test)) = {}
      /\ Projects(f.scores) \cap Projects(test) # {} => f.scores = test
  <2>1. Projects(train) \cap Projects(test) = {} BY <1>3
  <2>. QED BY <1>4, <1>5, <2>1, FitsAreSound
<1>. QED BY <1>1, <1>2, <1>3, <1>6 DEF test

\* Every project is held out once for each kind of model, or listed as skipped,
\* and then for no model.
THEOREM LogoIsComplete ==
  ASSUME NEW rows, NEW kinds, NEW kind \in kinds, NEW p \in Projects(rows)
  PROVE  Cardinality({f \in LogoFolds(rows, kinds) :
                        f.held = p /\ (f.status = "skipped" \/ f.kind = kind)}) = 1
<1>. DEFINE Rest(held) == Of(rows, Projects(rows) \ {held})
            Fold(held, k) ==
              [status |-> "evaluated", held |-> held, kind |-> k,
               fits |-> CHOOSE g \in Fits(Rest(held), Of(rows, {held})) : TRUE]
            Skip(held) == [status |-> "skipped", held |-> held]
            valid == {held \in Projects(rows) : BothClasses(Rest(held))}
            folds == {f \in LogoFolds(rows, kinds) :
                        f.held = p /\ (f.status = "skipped" \/ f.kind = kind)}
<1>1. LogoFolds(rows, kinds) = {Fold(held, k) : held \in valid, k \in kinds}
                                 \cup {Skip(held) : held \in Projects(rows) \ valid}
  BY DEF LogoFolds
<1>2. \A held, k : /\ Fold(held, k).held = held /\ Fold(held, k).kind = k
                   /\ Fold(held, k).status = "evaluated"
                   /\ Skip(held).held = held /\ Skip(held).status = "skipped"
  OBVIOUS
<1>. HIDE DEF Fold, Skip, valid
<1>3. CASE p \in valid
  <2>1. folds = {Fold(p, kind)} BY <1>1, <1>2, <1>3
  <2>. QED BY <2>1, FS_Singleton
<1>4. CASE p \notin valid
  <2>1. folds = {Skip(p)} BY <1>1, <1>2, <1>4
  <2>. QED BY <2>1, FS_Singleton
<1>. QED BY <1>3, <1>4

-----------------------------------------------------------------------------
(***************************************************************************)
(* The study.                                                              *)
(***************************************************************************)

\* The projects of the rows that are being labelled, of the labels and of the
\* dataset are those that some command was given.
TaskProjects    == {row[2].project : row \in DOMAIN sheet}
LabelProjects   == {l.task.project : l \in labels}
DatasetProjects == {r.task.project : r \in dataset}

ProjectsAreFew ==
  /\ sheet # None => IsFiniteSet(TaskProjects)
  /\ labels # None => IsFiniteSet(LabelProjects)
  /\ dataset # None => IsFiniteSet(DatasetProjects)

SoundSplit(split) ==
  /\ split.train # {} /\ split.test # {}
  /\ Projects(split.train) \cap Projects(split.test) = {}
  /\ BothClasses(split.train)

\* A model that was fitted on the training partition of its split.
SoundModel(file) ==
  /\ SoundSplit(file.split)
  /\ file.fits \in Fits(file.split.train, file.split.test)

ModelsAreSound ==
  \A key \in DOMAIN models :
    /\ models[key] = [file |-> models[key].file, card |-> models[key].card]
    /\ SoundModel(models[key].file)
    /\ models[key].card # None => SoundModel(models[key].card)

Current == <<Head(job.smells), Head(job.left)>>

\* What a training has left in the directory: its results, and the model that
\* still waits for its card.
JobIsSound ==
  job # None =>
    /\ trained = None
    /\ job = [smells |-> job.smells, kinds |-> job.kinds, share |-> job.share,
              split |-> job.split, left |-> job.left, dumped |-> job.dumped,
              results |-> job.results]
    /\ job.kinds \in Kinds /\ job.share \in Shares /\ dataset # None
    /\ job.left \in Seq(ToSet(job.kinds))
    /\ job.split # NoSplit => SoundSplit(job.split)
    /\ job.split # NoSplit <=> job.left # <<>>
    /\ job.dumped \in BOOLEAN
    /\ job.dumped => job.split # NoSplit
    /\ DOMAIN models = job.results \cup (IF job.dumped THEN {Current} ELSE {})
    /\ \A key \in DOMAIN models :
         models[key].card = models[key].file \/ (job.dumped /\ key = Current)

LogoIsOfRows ==
  logo # None =>
    /\ DOMAIN logo.rows = DOMAIN logo.folds
    /\ \A s \in DOMAIN logo.folds :
         /\ IsFiniteSet(Projects(logo.rows[s]))
         /\ logo.folds[s] = LogoFolds(logo.rows[s], logo.kinds)

StudyInv ==
  /\ ProjectsAreFew /\ ModelsAreSound /\ JobIsSound /\ LogoIsOfRows
  /\ RowsAreAsReviewed /\ ReportMatchesModels

\* What is not written to stays sound.
LEMMA StudyRests == StudyInv /\ UNCHANGED <<files, job>> => StudyInv'
<1>. SUFFICES ASSUME StudyInv, UNCHANGED <<files, job>> PROVE StudyInv' OBVIOUS
<1>. USE DEF StudyInv, files
<1>1. ProjectsAreFew'
  BY DEF ProjectsAreFew, TaskProjects, LabelProjects, DatasetProjects
<1>2. ModelsAreSound' BY DEF ModelsAreSound
<1>3. JobIsSound' BY DEF JobIsSound, Current
<1>4. LogoIsOfRows' BY DEF LogoIsOfRows
<1>5. RowsAreAsReviewed' /\ ReportMatchesModels' BY DEF RowsAreAsReviewed, ReportMatchesModels
<1>. QED BY <1>1, <1>2, <1>3, <1>4, <1>5

LEMMA TasksAreOfProject ==
  ASSUME NEW v, NEW t \in Tasks(v)
  PROVE  t.project = v
<1>. DEFINE features == Features[v]
            findings == Findings(Content[v], features, "absolute")
            OfSmell(smell) == {f.class : f \in {g \in findings : g.smell = smell}}
            Chosen(smell) == OfSmell(smell) \cup
              Controls((DOMAIN features) \ OfSmell(smell), Cardinality(OfSmell(smell)))
            chosen == {u \in (DOMAIN features) \X Smells : u[1] \in Chosen(u[2])}
<1>1. Tasks(v) = {[project |-> v, class |-> u[1], smell |-> u[2]] : u \in chosen} BY DEF Tasks
<1>. HIDE DEF chosen
<1>. QED BY <1>1

LEMMA FiniteImage ==
  ASSUME NEW S, IsFiniteSet(S), NEW f
  PROVE  IsFiniteSet({f[s] : s \in S})
<1>. DEFINE T == {f[s] : s \in S}
<1>1. [s \in S |-> f[s]] \in Surjection(S, T) BY DEF Surjection
<1>. QED BY <1>1, FS_Surjection

LEMMA CreateIsSound ==
  ASSUME StudyInv, NEW sources \in SourceSets, Create(sources)
  PROVE  StudyInv'
<1>. USE DEF StudyInv, Create
<1>1. ProjectsAreFew'
  <2>1. TaskProjects' \subseteq {tree[s] : s \in sources}
    <3>1. \A v : \A t \in Tasks(v) : t.project = v BY TasksAreOfProject
    <3>2. DOMAIN sheet' = UNION {{s} \X Tasks(tree[s]) : s \in sources} BY DEF Sheet
    <3>3. ASSUME NEW row \in DOMAIN sheet' PROVE \E s \in sources : row[2].project = tree[s]
      <4>1. PICK s \in sources : row \in {s} \X Tasks(tree[s]) BY <3>2
      <4>2. row[2] \in Tasks(tree[s]) BY <4>1
      <4>. QED BY <3>1, <4>2
    <3>. QED BY <3>3 DEF TaskProjects
  <2>2. IsFiniteSet({tree[s] : s \in sources}) BY StudyAssumption, FiniteImage
  <2>3. IsFiniteSet(TaskProjects') BY <2>1, <2>2, FS_Subset
  <2>. QED BY <2>3 DEF ProjectsAreFew, LabelProjects, DatasetProjects
<1>2. ModelsAreSound' BY DEF ModelsAreSound
<1>3. JobIsSound' BY DEF JobIsSound, Current
<1>4. LogoIsOfRows' BY DEF LogoIsOfRows
<1>5. RowsAreAsReviewed' /\ ReportMatchesModels' BY DEF RowsAreAsReviewed, ReportMatchesModels
<1>. QED BY <1>1, <1>2, <1>3, <1>4, <1>5

LEMMA ReviewIsSound ==
  ASSUME StudyInv, NEW label, Review(label)
  PROVE  StudyInv'
<1>. USE DEF StudyInv, Review
<1>1. ProjectsAreFew'
  <2>1. DOMAIN sheet' = DOMAIN sheet OBVIOUS
  <2>2. TaskProjects' = TaskProjects BY <2>1 DEF TaskProjects
  <2>. QED BY <2>2 DEF ProjectsAreFew, LabelProjects, DatasetProjects
<1>2. ModelsAreSound' BY DEF ModelsAreSound
<1>3. JobIsSound' BY DEF JobIsSound, Current
<1>4. LogoIsOfRows' BY DEF LogoIsOfRows
<1>5. RowsAreAsReviewed' /\ ReportMatchesModels' BY DEF RowsAreAsReviewed, ReportMatchesModels
<1>. QED BY <1>1, <1>2, <1>3, <1>4, <1>5

LEMMA FinalizeIsSound ==
  ASSUME StudyInv, Finalize
  PROVE  StudyInv'
<1>. USE DEF StudyInv, Finalize
<1>1. ProjectsAreFew'
  <2>1. LabelProjects' \subseteq TaskProjects BY DEF LabelProjects, TaskProjects
  <2>2. IsFiniteSet(LabelProjects') BY <2>1, FS_Subset DEF ProjectsAreFew
  <2>. QED BY <2>2 DEF ProjectsAreFew, TaskProjects, DatasetProjects
<1>2. ModelsAreSound' BY DEF ModelsAreSound
<1>3. JobIsSound' BY DEF JobIsSound, Current
<1>4. LogoIsOfRows' BY DEF LogoIsOfRows
<1>5. RowsAreAsReviewed' /\ ReportMatchesModels' BY DEF RowsAreAsReviewed, ReportMatchesModels
<1>. QED BY <1>1, <1>2, <1>3, <1>4, <1>5

\* The label meets the project as it was when the task was made.
LEMMA PrepareIsSound ==
  ASSUME StudyInv, NEW sources, Prepare(sources)
  PROVE  StudyInv'
<1>. USE DEF StudyInv, Prepare
<1>1. ProjectsAreFew'
  <2>1. DatasetProjects' \subseteq LabelProjects BY DEF DatasetProjects, LabelProjects
  <2>2. IsFiniteSet(DatasetProjects') BY <2>1, FS_Subset DEF ProjectsAreFew
  <2>. QED BY <2>2 DEF ProjectsAreFew, TaskProjects, LabelProjects
<1>2. ModelsAreSound' BY DEF ModelsAreSound
<1>3. JobIsSound' BY DEF JobIsSound, Current, Preparing
<1>4. LogoIsOfRows' BY DEF LogoIsOfRows
<1>5. RowsAreAsReviewed'
  <2>1. ASSUME NEW l \in labels PROVE tree[Origin(l.task, sources)] = l.task.project
    <3>1. Origin(l.task, sources) # None BY <2>1 DEF Verified
    <3>. QED BY <3>1 DEF Origin
  <2>2. \A r \in dataset' : r.features = Features[r.task.project][r.task.class]
    <3>. SUFFICES ASSUME NEW r \in dataset'
                  PROVE  r.features = Features[r.task.project][r.task.class]
      OBVIOUS
    <3>1. PICK l \in labels :
            r = [task |-> l.task, label |-> l.label,
                 features |-> Features[tree[Origin(l.task, sources)]][l.task.class]]
      OBVIOUS
    <3>. QED BY <2>1, <3>1
  <2>. QED BY <2>2 DEF RowsAreAsReviewed
<1>6. ReportMatchesModels' BY DEF ReportMatchesModels
<1>. QED BY <1>1, <1>2, <1>3, <1>4, <1>5, <1>6

LEMMA BeginTrainingIsSound ==
  ASSUME StudyInv, NEW kinds \in Kinds, NEW share \in Shares, BeginTraining(kinds, share)
  PROVE  StudyInv'
<1>. USE DEF StudyInv, BeginTraining
<1>1. ProjectsAreFew'
  BY DEF ProjectsAreFew, TaskProjects, LabelProjects, DatasetProjects
<1>2. DOMAIN models' = {} BY DEF Cleared
<1>3. ModelsAreSound' BY <1>2 DEF ModelsAreSound
<1>4. JobIsSound' BY <1>2 DEF JobIsSound, Current
<1>5. LogoIsOfRows' BY DEF LogoIsOfRows
<1>6. RowsAreAsReviewed' /\ ReportMatchesModels' BY DEF RowsAreAsReviewed, ReportMatchesModels
<1>. QED BY <1>1, <1>3, <1>4, <1>5, <1>6

LEMMA RowsAreOfProjects ==
  ASSUME ProjectsAreFew, dataset # None, NEW smell
  PROVE  IsFiniteSet(Projects(RowsOf(smell)))
<1>1. Projects(RowsOf(smell)) \subseteq DatasetProjects BY DEF Projects, RowsOf, DatasetProjects
<1>. QED BY <1>1, FS_Subset DEF ProjectsAreFew

LEMMA TakeSmellIsSound ==
  ASSUME StudyInv, TakeSmell
  PROVE  StudyInv'
<1>. USE DEF StudyInv
<1>. UNCHANGED <<files, changes>> /\ job # None /\ job.split = NoSplit BY DEF TakeSmell
<1>. USE DEF files
<1>1. ProjectsAreFew'
  BY DEF ProjectsAreFew, TaskProjects, LabelProjects, DatasetProjects
<1>2. ModelsAreSound' BY DEF ModelsAreSound
<1>3. LogoIsOfRows' BY DEF LogoIsOfRows
<1>4. RowsAreAsReviewed' /\ ReportMatchesModels' BY DEF RowsAreAsReviewed, ReportMatchesModels
<1>. DEFINE rows == RowsOf(Head(job.smells))
<1>5. PICK attempts \in Attempts(rows, job.share) :
        LET split == IF Enough(rows) /\ BothClasses(rows) THEN SplitOf(rows, attempts)
                     ELSE NoSplit
        IN job' = IF split = NoSplit THEN [job EXCEPT !.smells = Tail(@)]
                  ELSE [job EXCEPT !.split = split, !.left = job.kinds]
  BY DEF TakeSmell
<1>6. JobIsSound'
  <2>1. job.left = <<>> /\ ~job.dumped BY DEF JobIsSound
  <2>2. CASE job' = [job EXCEPT !.smells = Tail(@)]
    BY <2>1, <2>2 DEF JobIsSound, Current
  <2>3. CASE /\ job' = [job EXCEPT !.split = SplitOf(rows, attempts), !.left = job.kinds]
             /\ SplitOf(rows, attempts) # NoSplit /\ Enough(rows)
    <3>1. SoundSplit(SplitOf(rows, attempts))
      <4>1. IsFiniteSet(Projects(rows)) BY RowsAreOfProjects DEF JobIsSound
      <4>2. Cardinality(Projects(rows)) >= 2
        <5>1. Cardinality(Projects(rows)) \in Nat BY <4>1, FS_CardinalityType
        <5>. QED BY <2>3, <5>1, StudyAssumption DEF Enough
      <4>3. PICK a \in Nat, d \in Nat \ {0} : job.share = <<a, d>>
        BY StudyAssumption DEF JobIsSound
      <4>4. attempts \in Attempts(rows, <<a, d>>) BY <4>3
      <4>. HIDE DEF rows
      <4>. QED BY <2>3, <4>1, <4>2, <4>4, StudyAssumption, SplitIsProper DEF SoundSplit
    <3>2. job.kinds \in Seq(ToSet(job.kinds)) /\ job.kinds # <<>>
      BY StudyAssumption DEF JobIsSound
    <3>. HIDE DEF rows
    <3>. QED BY <2>1, <2>3, <3>1, <3>2 DEF JobIsSound, Current
  <2>. QED BY <1>5, <2>2, <2>3
<1>. QED BY <1>1, <1>2, <1>3, <1>4, <1>6

LEMMA DumpModelIsSound ==
  ASSUME StudyInv, DumpModel
  PROVE  StudyInv'
<1>. USE DEF StudyInv
<1>. /\ UNCHANGED <<text, tree, found, sheet, labels, dataset, trained, logo, changes>>
     /\ job # None /\ job.split # NoSplit /\ ~job.dumped
  BY DEF DumpModel
<1>1. ProjectsAreFew'
  BY DEF ProjectsAreFew, TaskProjects, LabelProjects, DatasetProjects
<1>2. LogoIsOfRows' BY DEF LogoIsOfRows
<1>3. RowsAreAsReviewed' BY DEF RowsAreAsReviewed
<1>4. ReportMatchesModels' BY DEF ReportMatchesModels, JobIsSound
<1>5. CASE Current[2] \notin Tunable
  <2>1. job' = None /\ UNCHANGED models BY <1>5 DEF DumpModel, Current
  <2>. QED BY <2>1, <1>1, <1>2, <1>3, <1>4 DEF ModelsAreSound, JobIsSound
<1>6. CASE Current[2] \in Tunable
  <2>1. PICK fits \in Fits(job.split.train, job.split.test) :
          LET file == [split |-> job.split, fits |-> fits]
              card == IF Current \in DOMAIN models THEN models[Current].card ELSE None
          IN models' = [k \in {Current} \cup DOMAIN models |->
                          IF k = Current THEN [file |-> file, card |-> card] ELSE models[k]]
    BY <1>6 DEF DumpModel, Current
  <2>0. job' = [job EXCEPT !.dumped = TRUE] BY <1>6 DEF DumpModel, Current
  <2>. DEFINE file == [split |-> job.split, fits |-> fits]
  <2>2. SoundModel(file) BY <2>1 DEF SoundModel, JobIsSound
  <2>3. /\ DOMAIN models' = {Current} \cup DOMAIN models
        /\ models'[Current].file = file
        /\ models'[Current] = [file |-> models'[Current].file, card |-> models'[Current].card]
        /\ models'[Current].card # None =>
             Current \in DOMAIN models /\ models'[Current].card = models[Current].card
        /\ \A key \in (DOMAIN models) \ {Current} : models'[key] = models[key]
    BY <2>1
  <2>. HIDE DEF file
  <2>4. ModelsAreSound' BY <2>2, <2>3 DEF ModelsAreSound
  <2>5. JobIsSound'
    <3>1. Current' = Current BY <2>0 DEF Current, JobIsSound
    <3>2. job.results \cup {Current} = {Current} \cup DOMAIN models BY DEF JobIsSound
    <3>. QED BY <2>0, <2>3, <3>1, <3>2 DEF JobIsSound
  <2>. QED BY <1>1, <1>2, <1>3, <1>4, <2>4, <2>5
<1>. QED BY <1>5, <1>6

LEMMA WriteCardIsSound ==
  ASSUME StudyInv, WriteCard
  PROVE  StudyInv'
<1>. USE DEF StudyInv
<1>. UNCHANGED <<text, tree, found, sheet, labels, dataset, trained, logo, changes>>
  BY DEF WriteCard
<1>1. ProjectsAreFew'
  BY DEF ProjectsAreFew, TaskProjects, LabelProjects, DatasetProjects
<1>2. LogoIsOfRows' BY DEF LogoIsOfRows
<1>3. RowsAreAsReviewed' BY DEF RowsAreAsReviewed
<1>4. /\ job # None /\ job.dumped /\ job.split # NoSplit /\ job.left # <<>>
      /\ Current \in DOMAIN models
  BY DEF WriteCard, JobIsSound
<1>5. ReportMatchesModels' BY <1>4 DEF ReportMatchesModels, JobIsSound
<1>6. models' = [models EXCEPT ![Current].card = models[Current].file]
  BY DEF WriteCard, Current
<1>7. ModelsAreSound'
  <2>1. models'[Current] = [file |-> models[Current].file, card |-> models[Current].file]
    BY <1>4, <1>6 DEF ModelsAreSound
  <2>2. /\ DOMAIN models' = DOMAIN models
        /\ \A key \in (DOMAIN models) \ {Current} : models'[key] = models[key]
    BY <1>6
  <2>. QED BY <1>4, <2>1, <2>2 DEF ModelsAreSound
<1>8. JobIsSound'
  <2>1. DOMAIN models' = DOMAIN models /\ models'[Current].card = models'[Current].file
    BY <1>4, <1>6 DEF ModelsAreSound
  <2>2. \A key \in (DOMAIN models) \ {Current} : models'[key] = models[key] BY <1>6
  <2>3. DOMAIN models = job.results \cup {Current} BY <1>4 DEF JobIsSound
  <2>4. \A key \in DOMAIN models : models'[key].card = models'[key].file
    BY <1>4, <2>1, <2>2 DEF JobIsSound
  <2>. DEFINE last == Len(job.left) = 1
  <2>5. job' = [job EXCEPT !.results = @ \cup {Current}, !.left = Tail(@), !.dumped = FALSE,
                           !.split = IF last THEN NoSplit ELSE @,
                           !.smells = IF last THEN Tail(@) ELSE @]
    BY DEF WriteCard, Current
  <2>6. Tail(job.left) \in Seq(ToSet(job.kinds)) /\ (last <=> Tail(job.left) = <<>>)
    <3>. DEFINE left == job.left
                S == ToSet(job.kinds)
    <3>1. left \in Seq(S) /\ left # <<>> BY <1>4 DEF JobIsSound
    <3>. HIDE DEF left, S
    <3>2. Tail(left) \in Seq(S) /\ Len(Tail(left)) = Len(left) - 1 /\ Len(left) \in Nat
      BY <3>1
    <3>3. Tail(left) = <<>> <=> Len(Tail(left)) = 0 BY <3>2, EmptySeq
    <3>. QED BY <3>2, <3>3 DEF left, S
  <2>. HIDE DEF last
  <2>7. /\ job'.results = DOMAIN models /\ job'.left = Tail(job.left) /\ ~job'.dumped
        /\ job'.kinds = job.kinds /\ job'.share = job.share
        /\ job'.split = IF last THEN NoSplit ELSE job.split
        /\ job' = [smells |-> job'.smells, kinds |-> job'.kinds, share |-> job'.share,
                   split |-> job'.split, left |-> job'.left, dumped |-> job'.dumped,
                   results |-> job'.results]
        /\ job'.dumped \in BOOLEAN
    BY <1>4, <2>3, <2>5 DEF JobIsSound
  <2>8. job'.split # NoSplit => SoundSplit(job'.split) BY <1>4, <2>7 DEF JobIsSound
  <2>9. job'.split # NoSplit <=> job'.left # <<>> BY <1>4, <2>6, <2>7
  <2>. QED BY <1>4, <2>1, <2>4, <2>6, <2>7, <2>8, <2>9 DEF JobIsSound
<1>. QED BY <1>1, <1>2, <1>3, <1>5, <1>7, <1>8

LEMMA EndTrainingIsSound ==
  ASSUME StudyInv, EndTraining
  PROVE  StudyInv'
<1>. USE DEF StudyInv, EndTraining
<1>1. ProjectsAreFew'
  BY DEF ProjectsAreFew, TaskProjects, LabelProjects, DatasetProjects
<1>2. ModelsAreSound' BY DEF ModelsAreSound
<1>3. JobIsSound' BY DEF JobIsSound
<1>4. LogoIsOfRows' BY DEF LogoIsOfRows
<1>5. RowsAreAsReviewed' BY DEF RowsAreAsReviewed
<1>6. ReportMatchesModels' BY DEF ReportMatchesModels, JobIsSound
<1>. QED BY <1>1, <1>2, <1>3, <1>4, <1>5, <1>6

LEMMA InterruptIsSound ==
  ASSUME StudyInv, Interrupt
  PROVE  StudyInv'
<1>. USE DEF StudyInv, Interrupt, files
<1>1. ProjectsAreFew'
  BY DEF ProjectsAreFew, TaskProjects, LabelProjects, DatasetProjects
<1>2. ModelsAreSound' BY DEF ModelsAreSound
<1>3. JobIsSound' BY DEF JobIsSound
<1>4. LogoIsOfRows' BY DEF LogoIsOfRows
<1>5. RowsAreAsReviewed' /\ ReportMatchesModels' BY DEF RowsAreAsReviewed, ReportMatchesModels
<1>. QED BY <1>1, <1>2, <1>3, <1>4, <1>5

LEMMA LogoStepIsSound ==
  ASSUME StudyInv, NEW kinds \in Kinds, Logo(kinds)
  PROVE  StudyInv'
<1>. USE DEF StudyInv
<1>. /\ UNCHANGED <<text, tree, found, sheet, labels, dataset, models, trained, job>>
     /\ job = None /\ dataset # None
  BY DEF Logo
<1>1. ProjectsAreFew'
  BY DEF ProjectsAreFew, TaskProjects, LabelProjects, DatasetProjects
<1>2. ModelsAreSound' BY DEF ModelsAreSound
<1>3. JobIsSound' BY DEF JobIsSound
<1>4. LogoIsOfRows'
  <2>1. CASE logo' = None BY <2>1 DEF LogoIsOfRows
  <2>2. CASE logo' # None
    <3>. DEFINE smells == {t \in DatasetSmells : Enough(RowsOf(t))}
                folds == [s \in smells |-> LogoFolds(RowsOf(s), ToSet(kinds))]
    <3>1. logo' = [kinds |-> ToSet(kinds), rows |-> [s \in smells |-> RowsOf(s)], folds |-> folds]
      BY <2>2 DEF Logo
    <3>2. \A s : IsFiniteSet(Projects(RowsOf(s))) BY RowsAreOfProjects
    <3>. HIDE DEF smells
    <3>. QED BY <3>1, <3>2 DEF LogoIsOfRows
  <2>. QED BY <2>1, <2>2
<1>5. RowsAreAsReviewed' /\ ReportMatchesModels' BY DEF RowsAreAsReviewed, ReportMatchesModels
<1>. QED BY <1>1, <1>2, <1>3, <1>4, <1>5

LEMMA StudyBegins == Init => StudyInv
BY DEF Init, StudyInv, ProjectsAreFew, ModelsAreSound, JobIsSound, LogoIsOfRows,
       RowsAreAsReviewed, ReportMatchesModels

LEMMA StudyStep == StudyInv /\ [Next]_vars => StudyInv'
<1>. SUFFICES ASSUME StudyInv, [Next]_vars PROVE StudyInv' OBVIOUS
<1>1. CASE UNCHANGED vars BY <1>1, StudyRests DEF vars
<1>2. CASE \E s \in Source : Edit(s) BY <1>2, StudyRests DEF Edit
<1>3. CASE Write BY <1>3, StudyRests DEF Write
<1>4. CASE Detect BY <1>4, StudyRests DEF Detect
<1>5. CASE \E sources \in SourceSets : Create(sources) \/ Prepare(sources)
  BY <1>5, CreateIsSound, PrepareIsSound
<1>6. CASE \E label \in {"present", "absent", "uncertain"} : Review(label)
  BY <1>6, ReviewIsSound
<1>7. CASE Finalize BY <1>7, FinalizeIsSound
<1>8. CASE \E kinds \in Kinds, share \in Shares : BeginTraining(kinds, share)
  BY <1>8, BeginTrainingIsSound
<1>9. CASE TakeSmell BY <1>9, TakeSmellIsSound
<1>10. CASE DumpModel BY <1>10, DumpModelIsSound
<1>11. CASE WriteCard BY <1>11, WriteCardIsSound
<1>12. CASE EndTraining BY <1>12, EndTrainingIsSound
<1>13. CASE Interrupt BY <1>13, InterruptIsSound
<1>14. CASE \E kinds \in Kinds : Logo(kinds) BY <1>14, LogoStepIsSound
<1>. QED BY <1>1, <1>2, <1>3, <1>4, <1>5, <1>6, <1>7, <1>8, <1>9, <1>10, <1>11, <1>12,
            <1>13, <1>14 DEF Next

THEOREM StudyIsSound == Spec => []StudyInv
BY StudyBegins, StudyStep, PTL DEF Spec

\* A label is joined to the metrics that its class had when it was reviewed, for any
\* projects, edits, repeated commands and choice of sources.
THEOREM LabelsMeetTheirCode == Spec => []RowsAreAsReviewed
<1>1. StudyInv => RowsAreAsReviewed BY DEF StudyInv
<1>. QED BY <1>1, StudyIsSound, PTL

\* The report of a training lists what is in the directory, with the cards of the
\* models that are there, however many trainings have ended before their end.
THEOREM ReportIsOfModels == Spec => []ReportMatchesModels
<1>1. StudyInv => ReportMatchesModels BY DEF StudyInv
<1>. QED BY <1>1, StudyIsSound, PTL

LEMMA ReportedIsSound ==
  ASSUME StudyInv, NEW x \in Reported, NEW f \in x[1]
  PROVE  /\ BothClasses(f.on)
         /\ Projects(f.on) \cap (Projects(f.scores) \cup x[2]) = {}
         /\ Projects(f.scores) \cap x[2] # {} => Projects(f.scores) = x[2]
<1>1. ASSUME NEW key \in DOMAIN models, models[key].card # None,
             x = <<models[key].card.fits, Projects(models[key].card.split.test)>>
      PROVE  /\ BothClasses(f.on)
             /\ Projects(f.on) \cap (Projects(f.scores) \cup x[2]) = {}
             /\ Projects(f.scores) \cap x[2] # {} => Projects(f.scores) = x[2]
  <2>. DEFINE split == models[key].card.split
              fits  == models[key].card.fits
  <2>1. SoundSplit(split) /\ fits \in Fits(split.train, split.test)
    BY <1>1 DEF StudyInv, ModelsAreSound, SoundModel
  <2>2. x[1] = fits /\ x[2] = Projects(split.test) BY <1>1
  <2>. HIDE DEF split, fits
  <2>3. BothClasses(split.train) /\ Projects(split.train) \cap Projects(split.test) = {}
    BY <2>1 DEF SoundSplit
  <2>4. /\ BothClasses(f.on)
        /\ Projects(f.on) \cap (Projects(f.scores) \cup Projects(split.test)) = {}
        /\ Projects(f.scores) \cap Projects(split.test) # {} => f.scores = split.test
    BY <2>1, <2>2, <2>3, FitsAreSound
  <2>. QED BY <2>2, <2>4
<1>2. ASSUME logo # None, NEW s \in DOMAIN logo.folds, NEW g \in logo.folds[s],
             g.status = "evaluated", x = <<g.fits, {g.held}>>
      PROVE  /\ BothClasses(f.on)
             /\ Projects(f.on) \cap (Projects(f.scores) \cup x[2]) = {}
             /\ Projects(f.scores) \cap x[2] # {} => Projects(f.scores) = x[2]
  <2>. DEFINE rows == logo.rows[s]
  <2>1. IsFiniteSet(Projects(rows)) /\ g \in LogoFolds(rows, logo.kinds)
    BY <1>2 DEF StudyInv, LogoIsOfRows
  <2>2. f \in g.fits /\ x[2] = {g.held} BY <1>2
  <2>. HIDE DEF rows
  <2>3. /\ g.held \in Projects(rows) /\ BothClasses(f.on)
        /\ Projects(f.on) \cap (Projects(f.scores) \cup {g.held}) = {}
        /\ g.held \in Projects(f.scores) => f.scores = Of(rows, {g.held})
    BY <1>2, <2>1, <2>2, LogoIsSound
  <2>4. Projects(Of(rows, {g.held})) = {g.held}
    <3>1. {g.held} \in SUBSET Projects(rows) BY <2>3
    <3>. QED BY <3>1, PartsOfRows
  <2>. QED BY <2>2, <2>3, <2>4
<1>. QED BY <1>1, <1>2 DEF Reported

\* Whatever is reported of a model, by a holdout or by leaving projects out, has been
\* measured on projects that no fit behind it has seen, by estimators fitted on both
\* classes; the split of each model is proper, and each project held out once.
THEOREM EvaluationsAreSound == Spec => []EvaluationIsSound
<1>1. StudyInv => EvaluationIsSound
  <2>. SUFFICES ASSUME StudyInv PROVE EvaluationIsSound OBVIOUS
  <2>1. NoLeakage BY ReportedIsSound DEF NoLeakage
  <2>2. FitsSeeBothClasses BY ReportedIsSound DEF FitsSeeBothClasses
  <2>3. SplitsAreProper
    BY DEF SplitsAreProper, StudyInv, ModelsAreSound, SoundModel, SoundSplit
  <2>4. HeldOutOnce
    <3>. SUFFICES ASSUME logo # None, NEW s \in DOMAIN logo.folds, NEW kind \in logo.kinds,
                         NEW p \in Projects(logo.rows[s])
                  PROVE  Cardinality({f \in logo.folds[s] :
                           f.held = p /\ (f.status = "skipped" \/ f.kind = kind)}) = 1
      BY DEF HeldOutOnce
    <3>1. logo.folds[s] = LogoFolds(logo.rows[s], logo.kinds) BY DEF StudyInv, LogoIsOfRows
    <3>. QED BY <3>1, LogoIsComplete
  <2>. QED BY <2>1, <2>2, <2>3, <2>4 DEF EvaluationIsSound
<1>. QED BY <1>1, StudyIsSound, PTL

-----------------------------------------------------------------------------
(***************************************************************************)
(* Induction, and the numbers: fractions with a denominator that is not 0, *)
(* compared by cross products.                                             *)
(***************************************************************************)
LEMMA SubsetInduction ==
  ASSUME NEW S, IsFiniteSet(S), NEW G,
         \A T \in SUBSET S : (\A x \in T : T \ {x} \in G) => T \in G
  PROVE  SUBSET S \subseteq G
<1>. DEFINE bad == (SUBSET S) \ G
<1>1. SUFFICES ASSUME bad # {} PROVE FALSE OBVIOUS
<1>2. IsWellFoundedOn(StrictSubsetOrdering(S), SUBSET S)
  BY FS_FiniteSubsetsOfFinite, FS_StrictSubsetOrderingWellFounded
<1>3. PICK T \in bad : \A U \in bad : <<U, T>> \notin StrictSubsetOrdering(S)
  <2>1. bad \subseteq SUBSET S OBVIOUS
  <2>. HIDE DEF bad
  <2>. QED BY <1>1, <1>2, <2>1, WFMin
<1>4. PICK x \in T : T \ {x} \notin G
  <2>1. T \in SUBSET S /\ T \notin G BY <1>3
  <2>. QED BY <2>1
<1>5. <<T \ {x}, T>> \in StrictSubsetOrdering(S)
  BY <1>4 DEF StrictSubsetOrdering
<1>. QED BY <1>3, <1>4, <1>5

LEMMA NaturalInduction ==
  ASSUME NEW G, 0 \in G, \A n \in Nat : n \in G => n + 1 \in G
  PROVE  Nat \subseteq G
<1>. DEFINE bad == Nat \ G
            less == OpToRel(<, Nat)
<1>1. SUFFICES ASSUME bad # {} PROVE FALSE OBVIOUS
<1>2. IsWellFoundedOn(less, Nat) BY NatLessThanWellFounded
<1>3. \A m, n \in Nat : <<m, n>> \in less <=> m < n BY DEF OpToRel
<1>4. PICK n \in bad : \A m \in bad : <<m, n>> \notin less
  <2>1. bad \subseteq Nat OBVIOUS
  <2>. HIDE DEF bad, less
  <2>. QED BY <1>1, <1>2, <2>1, WFMin
<1>5. n \in Nat /\ n # 0 /\ n - 1 \in Nat /\ n - 1 < n /\ n = (n - 1) + 1 OBVIOUS
<1>6. n - 1 \in G BY <1>3, <1>4, <1>5
<1>. QED BY <1>5, <1>6


(***************************************************************************)
(* Numbers.  They are ordered, up to equal ones that are written with      *)
(* different denominators, and of finitely many one is least, one greatest.*)
(***************************************************************************)
LEMMA TimesMonotone ==
  ASSUME NEW a \in Int, NEW b \in Int, NEW c \in Nat, a <= b
  PROVE  a * c <= b * c
<1>1. b - a \in Nat BY SMT
<1>2. \A m, n \in Nat : m * n >= 0 BY SMT
<1>3. (b - a) * c >= 0 BY <1>1, <1>2
<1>4. (b - a) * c = b * c - a * c BY SMT
<1>5. a * c \in Int /\ b * c \in Int BY SMT
<1>. QED BY <1>3, <1>4, <1>5

LEMMA TimesCancels ==
  ASSUME NEW a \in Int, NEW b \in Int, NEW c \in Nat \ {0}, a * c <= b * c
  PROVE  a <= b
<1>1. SUFFICES ASSUME b + 1 <= a PROVE FALSE BY SMT
<1>2. (b + 1) * c <= a * c BY <1>1, TimesMonotone
<1>3. (b + 1) * c = b * c + c BY SMT
<1>4. a * c \in Int /\ b * c \in Int BY SMT
<1>. QED BY <1>2, <1>3, <1>4

LEMMA LeqTotal ==
  ASSUME NEW x \in Number, NEW y \in Number
  PROVE  /\ Leq(x, x) /\ (Leq(x, y) \/ Leq(y, x))
         /\ Less(x, y) => Leq(x, y)
<1>. USE DEF Number
<1>1. x[1] * y[2] \in Int /\ y[1] * x[2] \in Int OBVIOUS
<1>2. x[1] * x[2] \in Int OBVIOUS
<1>. QED BY <1>1, <1>2 DEF Leq, Less

LEMMA LeqTransitive ==
  ASSUME NEW x \in Number, NEW y \in Number, NEW z \in Number, Leq(x, y), Leq(y, z)
  PROVE  Leq(x, z)
<1>. USE DEF Number
<1>0. /\ x[1] \in Int /\ y[1] \in Int /\ z[1] \in Int
      /\ x[2] \in Nat \ {0} /\ y[2] \in Nat \ {0} /\ z[2] \in Nat \ {0}
  OBVIOUS
<1>. DEFINE a == x[1]  b == x[2]  c == y[1]  d == y[2]  e == z[1]  f == z[2]
<1>1. a * d <= c * b /\ c * f <= e * d BY DEF Leq
<1>2. /\ a \in Int /\ c \in Int /\ e \in Int
      /\ b \in Nat \ {0} /\ d \in Nat \ {0} /\ f \in Nat \ {0} BY <1>0
<1>3. SUFFICES a * f <= e * b BY DEF Leq
<1>. HIDE DEF a, b, c, d, e, f
<1>4. (a * d) * f <= (c * b) * f BY <1>1, <1>2, TimesMonotone
<1>5. (c * f) * b <= (e * d) * b BY <1>1, <1>2, TimesMonotone
<1>6. /\ (a * d) * f = (a * f) * d /\ (c * b) * f = (c * f) * b
      /\ (e * d) * b = (e * b) * d
  BY <1>2
<1>7. /\ (a * f) * d \in Int /\ (c * f) * b \in Int /\ (e * b) * d \in Int
      /\ a * f \in Int /\ e * b \in Int
  BY <1>2
<1>8. (a * f) * d <= (e * b) * d BY <1>4, <1>5, <1>6, <1>7
<1>. QED BY <1>2, <1>7, <1>8, TimesCancels

LEMMA LessTransitive ==
  ASSUME NEW x \in Number, NEW y \in Number, NEW z \in Number
  PROVE  /\ Less(x, y) /\ Leq(y, z) => Less(x, z)
         /\ Leq(x, y) /\ Less(y, z) => Less(x, z)
BY LeqTransitive, LeqTotal DEF Less

LEMMA LeastNumber ==
  ASSUME NEW S, IsFiniteSet(S), S # {}, S \subseteq Number
  PROVE  /\ \E x \in S : \A y \in S : Leq(x, y)
         /\ \E x \in S : \A y \in S : Leq(y, x)
<1>. DEFINE Bounded(T) == /\ \E x \in T : \A y \in T : Leq(x, y)
                          /\ \E x \in T : \A y \in T : Leq(y, x)
            G == {T \in SUBSET S : T = {} \/ Bounded(T)}
<1>1. ASSUME NEW T \in SUBSET S, \A x \in T : T \ {x} \in G PROVE T \in G
  <2>1. CASE T = {} BY <2>1
  <2>2. CASE T # {}
    <3>1. PICK z \in T : TRUE BY <2>2
    <3>2. T \subseteq Number OBVIOUS
    <3>3. CASE T \ {z} = {}
      <4>1. \A y \in T : y = z BY <3>3
      <4>2. Leq(z, z) BY <3>1, <3>2, LeqTotal
      <4>. QED BY <3>1, <4>1, <4>2
    <3>4. CASE Bounded(T \ {z})
      <4>1. PICK x \in T \ {z} : \A y \in T \ {z} : Leq(x, y) BY <3>4
      <4>2. PICK u \in T \ {z} : \A y \in T \ {z} : Leq(y, u) BY <3>4
      <4>3. /\ Leq(x, z) \/ Leq(z, x)
            /\ Leq(z, z)
            /\ Leq(u, z) \/ Leq(z, u)
        BY <3>1, <3>2, LeqTotal
      <4>4. \E v \in T : \A y \in T : Leq(v, y)
        <5>1. CASE Leq(x, z) BY <4>1, <5>1
        <5>2. CASE Leq(z, x) BY <3>1, <3>2, <4>1, <4>3, <5>2, LeqTransitive
        <5>. QED BY <4>3, <5>1, <5>2
      <4>5. \E v \in T : \A y \in T : Leq(y, v)
        <5>0. Leq(z, z) BY <3>1, <3>2, LeqTotal
        <5>1. CASE Leq(z, u) BY <4>2, <5>1
        <5>2. CASE Leq(u, z) BY <3>1, <3>2, <4>2, <5>0, <5>2, LeqTransitive
        <5>. QED BY <4>3, <5>1, <5>2
      <4>. QED BY <4>4, <4>5
    <3>. QED BY <1>1, <3>1, <3>3, <3>4
  <2>. QED BY <2>1, <2>2
<1>2. SUBSET S \subseteq G
  <2>. HIDE DEF G
  <2>. QED BY <1>1, SubsetInduction
<1>. QED BY <1>2

-----------------------------------------------------------------------------
(***************************************************************************)
(* The detector.  One value is worse than another, for an operator, if it  *)
(* is further out in the direction the operator asks for.                  *)
(***************************************************************************)
Worse(op, v, w) == IF Falling(op) THEN Leq(w, v) ELSE Leq(v, w)

LEMMA Positive ==
  ASSUME NEW x \in Number
  PROVE  Less(Rat(0), x) <=> x[1] > 0
<1>1. x[1] \in Int /\ x[2] \in Nat \ {0} BY DEF Number
<1>. QED BY <1>1 DEF Less, Leq, Rat

\* What holds of a value holds of a worse one.
LEMMA HoldsOfWorse ==
  ASSUME NEW op \in Operators, NEW v \in Number, NEW w \in Number, NEW t \in Number,
         Worse(op, v, w), Holds(op, v, t)
  PROVE  Holds(op, w, t)
<1>1. CASE op = ">"
  BY <1>1, LessTransitive DEF Worse, Holds, Falling
<1>2. CASE op = ">="
  BY <1>2, LeqTransitive DEF Worse, Holds, Falling
<1>3. CASE op = "<"
  BY <1>3, LessTransitive DEF Worse, Holds, Falling
<1>4. CASE op = "<="
  BY <1>4, LeqTransitive DEF Worse, Holds, Falling
<1>. QED BY <1>1, <1>2, <1>3, <1>4 DEF Operators

\* A quotient grows with its numerator and falls with its denominator.
LEMMA QuotientGrows ==
  ASSUME NEW v \in Ratio, NEW w \in Ratio, NEW t \in Number, t[1] > 0, Leq(v, w)
  PROVE  /\ <<v[1] * t[2], v[2] * t[1]>> \in Number
         /\ <<w[1] * t[2], w[2] * t[1]>> \in Number
         /\ Leq(<<v[1] * t[2], v[2] * t[1]>>, <<w[1] * t[2], w[2] * t[1]>>)
<1>. DEFINE a == v[1]  b == v[2]  c == w[1]  d == w[2]  e == t[1]  f == t[2]
<1>1. /\ a \in Nat /\ c \in Nat /\ e \in Nat \ {0}
      /\ b \in Nat \ {0} /\ d \in Nat \ {0} /\ f \in Nat \ {0}
  BY DEF Ratio, Number
<1>2. a * d <= c * b BY DEF Leq
<1>. HIDE DEF a, b, c, d, e, f
<1>3. a * f \in Int /\ c * f \in Int BY <1>1
<1>4. b * e \in Nat \ {0} /\ d * e \in Nat \ {0} BY <1>1
<1>5. a * d \in Int /\ c * b \in Int /\ f * e \in Nat BY <1>1
<1>6. (a * d) * (f * e) <= (c * b) * (f * e) BY <1>2, <1>5, TimesMonotone
<1>7. /\ (a * f) * (d * e) = (a * d) * (f * e)
      /\ (c * f) * (b * e) = (c * b) * (f * e)
  BY <1>1
<1>8. (a * f) * (d * e) <= (c * f) * (b * e) BY <1>6, <1>7
<1>9. Leq(<<a * f, b * e>>, <<c * f, d * e>>) BY <1>8 DEF Leq
<1>10. <<a * f, b * e>> \in Number /\ <<c * f, d * e>> \in Number BY <1>3, <1>4 DEF Number
<1>. QED BY <1>9, <1>10 DEF a, b, c, d, e, f

LEMMA QuotientFalls ==
  ASSUME NEW v \in Ratio, NEW w \in Ratio, NEW t \in Number, t[1] > 0, w[1] > 0, Leq(w, v)
  PROVE  /\ <<t[1] * v[2], t[2] * v[1]>> \in Number
         /\ <<t[1] * w[2], t[2] * w[1]>> \in Number
         /\ v[1] > 0
         /\ Leq(<<t[1] * v[2], t[2] * v[1]>>, <<t[1] * w[2], t[2] * w[1]>>)
<1>. DEFINE a == v[1]  b == v[2]  c == w[1]  d == w[2]  e == t[1]  f == t[2]
<1>1. /\ a \in Nat /\ c \in Nat \ {0} /\ e \in Nat \ {0}
      /\ b \in Nat \ {0} /\ d \in Nat \ {0} /\ f \in Nat \ {0}
  BY DEF Ratio, Number
<1>2. c * b <= a * d BY DEF Leq
<1>. HIDE DEF a, b, c, d, e, f
<1>3. a # 0
  <2>. SUFFICES ASSUME a = 0 PROVE FALSE OBVIOUS
  <2>1. c * b \in Nat \ {0} BY <1>1
  <2>2. 0 * d = 0 BY <1>1
  <2>3. c * b <= 0 BY <1>2, <2>2
  <2>. QED BY <2>1, <2>3
<1>4. /\ e * b \in Int /\ e * d \in Int
      /\ f * a \in Nat \ {0} /\ f * c \in Nat \ {0} BY <1>1, <1>3
<1>5. c * b \in Int /\ a * d \in Int /\ e * f \in Nat BY <1>1
<1>6. (c * b) * (e * f) <= (a * d) * (e * f) BY <1>2, <1>5, TimesMonotone
<1>7. /\ (e * b) * (f * c) = (c * b) * (e * f)
      /\ (e * d) * (f * a) = (a * d) * (e * f)
  BY <1>1
<1>8. (e * b) * (f * c) <= (e * d) * (f * a) BY <1>6, <1>7
<1>9. Leq(<<e * b, f * a>>, <<e * d, f * c>>) BY <1>8 DEF Leq
<1>10. <<e * b, f * a>> \in Number /\ <<e * d, f * c>> \in Number BY <1>4 DEF Number
<1>11. a > 0 BY <1>1, <1>3
<1>. QED BY <1>9, <1>10, <1>11 DEF a, b, c, d, e, f

LEMMA ExcessIsNumber ==
  ASSUME NEW op, NEW v \in Ratio, NEW t \in Number
  PROVE  /\ Excess(op, v, t) \in Number \cup {Infinite}
         /\ Infinite \notin Number
<1>1. v \in Number BY DEF Ratio, Number
<1>2. Rat(0) \in Number /\ Rat(1) \in Number BY DEF Rat, Number
<1>3. Infinite \notin Number BY DEF Infinite, Number
<1>. SUFFICES Excess(op, v, t) \in Number \cup {Infinite} BY <1>3
<1>4. CASE Falling(op)
  <2>1. CASE ~Less(Rat(0), v) BY <1>2, <1>4, <2>1 DEF Excess
  <2>2. CASE Less(Rat(0), v) /\ ~Less(Rat(0), t) BY <1>2, <1>4, <2>2 DEF Excess
  <2>3. CASE Less(Rat(0), v) /\ Less(Rat(0), t)
    <3>1. v[1] > 0 /\ t[1] > 0 BY <1>1, <2>3, Positive
    <3>2. Leq(v, v) BY <1>1, LeqTotal
    <3>3. <<t[1] * v[2], t[2] * v[1]>> \in Number BY <3>1, <3>2, QuotientFalls
    <3>. QED BY <1>4, <2>3, <3>3 DEF Excess
  <2>. QED BY <2>1, <2>2, <2>3
<1>5. CASE ~Falling(op)
  <2>1. CASE ~Less(Rat(0), t)
    <3>1. v[1] + v[2] \in Int /\ v[2] \in Nat \ {0} BY DEF Ratio
    <3>2. <<v[1] + v[2], v[2]>> \in Number BY <3>1 DEF Number
    <3>. QED BY <1>5, <2>1, <3>2 DEF Excess
  <2>2. CASE Less(Rat(0), t)
    <3>1. t[1] > 0 BY <2>2, Positive
    <3>2. Leq(v, v) BY <1>1, LeqTotal
    <3>3. <<v[1] * t[2], v[2] * t[1]>> \in Number BY <3>1, <3>2, QuotientGrows
    <3>. QED BY <1>5, <2>2, <3>3 DEF Excess
  <2>. QED BY <2>1, <2>2
<1>. QED BY <1>4, <1>5

\* A worse value exceeds the threshold by more, if by anything finite.
LEMMA ExcessGrows ==
  ASSUME NEW op \in Operators, NEW v \in Ratio, NEW w \in Ratio, NEW t \in Number,
         Worse(op, v, w), Holds(op, v, t), Excess(op, w, t) # Infinite
  PROVE  Excess(op, v, t) # Infinite /\ Leq(Excess(op, v, t), Excess(op, w, t))
<1>1. v \in Number /\ w \in Number BY DEF Ratio, Number
<1>2. Rat(0) \in Number /\ Rat(1) \in Number BY DEF Rat, Number
<1>3. Rat(1) # Infinite /\ Leq(Rat(1), Rat(1)) BY <1>2, LeqTotal DEF Rat, Infinite
<1>4. CASE Falling(op)
  <2>0. Leq(w, v) BY <1>4 DEF Worse
  <2>1. Less(Rat(0), v) => Less(Rat(0), t)
    BY <1>1, <1>2, <1>4, LessTransitive, LeqTotal DEF Holds, Falling
  <2>2. CASE ~Less(Rat(0), w)
    <3>1. ~Less(Rat(0), t) BY <1>4, <2>2 DEF Excess
    <3>2. ~Less(Rat(0), v) BY <2>1, <3>1
    <3>. QED BY <1>3, <1>4, <2>2, <3>1, <3>2 DEF Excess
  <2>3. CASE Less(Rat(0), w)
    <3>1. Less(Rat(0), v) BY <1>1, <1>2, <2>0, <2>3, LessTransitive
    <3>2. Less(Rat(0), t) BY <2>1, <3>1
    <3>3. w[1] > 0 /\ t[1] > 0 BY <1>1, <2>3, <3>2, Positive
    <3>4. /\ Excess(op, v, t) = <<t[1] * v[2], t[2] * v[1]>>
          /\ Excess(op, w, t) = <<t[1] * w[2], t[2] * w[1]>>
      BY <1>4, <2>3, <3>1, <3>2 DEF Excess
    <3>. QED BY <2>0, <3>3, <3>4, QuotientFalls, ExcessIsNumber
  <2>. QED BY <2>2, <2>3
<1>5. CASE ~Falling(op)
  <2>0. Leq(v, w) BY <1>5 DEF Worse
  <2>1. CASE ~Less(Rat(0), t)
    <3>1. /\ Excess(op, v, t) = <<v[1] + v[2], v[2]>>
          /\ Excess(op, w, t) = <<w[1] + w[2], w[2]>>
      BY <1>5, <2>1 DEF Excess
    <3>2. /\ v[1] \in Nat /\ w[1] \in Nat /\ v[2] \in Nat \ {0} /\ w[2] \in Nat \ {0}
      BY DEF Ratio
    <3>3. v[1] * w[2] <= w[1] * v[2] BY <2>0 DEF Leq
    <3>4. (v[1] + v[2]) * w[2] <= (w[1] + w[2]) * v[2]
      <4>1. /\ (v[1] + v[2]) * w[2] = v[1] * w[2] + v[2] * w[2]
            /\ (w[1] + w[2]) * v[2] = w[1] * v[2] + v[2] * w[2]
        BY <3>2
      <4>2. v[1] * w[2] \in Int /\ w[1] * v[2] \in Int /\ v[2] * w[2] \in Int BY <3>2
      <4>. QED BY <3>3, <4>1, <4>2
    <3>5. Leq(<<v[1] + v[2], v[2]>>, <<w[1] + w[2], w[2]>>) BY <3>4 DEF Leq
    <3>6. <<v[1] + v[2], v[2]>> # Infinite BY <3>2 DEF Infinite
    <3>. QED BY <3>1, <3>5, <3>6
  <2>2. CASE Less(Rat(0), t)
    <3>1. t[1] > 0 BY <2>2, Positive
    <3>2. /\ Excess(op, v, t) = <<v[1] * t[2], v[2] * t[1]>>
          /\ Excess(op, w, t) = <<w[1] * t[2], w[2] * t[1]>>
      BY <1>5, <2>2 DEF Excess
    <3>. QED BY <2>0, <3>1, <3>2, QuotientGrows, ExcessIsNumber
  <2>. QED BY <2>1, <2>2
<1>. QED BY <1>4, <1>5

\* A severity is a band or the lowest, and rises with the excess if the bands do.
BandsRise(rule) ==
  \A r, s \in DOMAIN rule.bands : r < s => Less(rule.bands[r], rule.bands[s])

LEMMA GreatestReached ==
  ASSUME NEW rule, LoadedBands(rule), NEW x
  PROVE  LET reached == {s \in DOMAIN rule.bands : Leq(rule.bands[s], x)}
         IN /\ reached = {} => SeverityFor(rule, x) = 1
            /\ reached # {} => /\ SeverityFor(rule, x) \in reached
                               /\ \A r \in reached :
                                    Leq(rule.bands[r], rule.bands[SeverityFor(rule, x)])
<1>. DEFINE reached == {s \in DOMAIN rule.bands : Leq(rule.bands[s], x)}
            numbers == {rule.bands[s] : s \in reached}
<1>1. /\ DOMAIN rule.bands \in SUBSET (1..4)
      /\ \A s \in DOMAIN rule.bands : rule.bands[s] \in Number
  BY DEF LoadedBands
<1>2. IsFiniteSet(reached)
  <2>1. reached \in SUBSET (1..4) BY <1>1
  <2>2. IsFiniteSet(1..4)
    <3>1. 1 \in Int /\ 4 \in Int OBVIOUS
    <3>. QED BY <3>1, FS_Interval
  <2>. HIDE DEF reached
  <2>. QED BY <2>1, <2>2, FS_Subset
<1>3. ASSUME reached # {}
      PROVE  \E s \in reached : \A r \in reached : Leq(rule.bands[r], rule.bands[s])
  <2>1. numbers \subseteq Number BY <1>1
  <2>2. IsFiniteSet(numbers)
    <3>. HIDE DEF reached
    <3>. QED BY <1>2, FiniteImage
  <2>3. numbers # {} BY <1>3
  <2>4. PICK n \in numbers : \A m \in numbers : Leq(m, n)
    <3>. HIDE DEF numbers
    <3>. QED BY <2>1, <2>2, <2>3, LeastNumber
  <2>5. PICK s \in reached : n = rule.bands[s] BY <2>4
  <2>. QED BY <2>4, <2>5
<1>4. SeverityFor(rule, x) = IF reached = {} THEN 1
         ELSE CHOOSE s \in reached : \A r \in reached : Leq(rule.bands[r], rule.bands[s])
  BY DEF SeverityFor
<1>. HIDE DEF reached
<1>5. reached # {} => /\ SeverityFor(rule, x) \in reached
                      /\ \A r \in reached : Leq(rule.bands[r], rule.bands[SeverityFor(rule, x)])
  BY <1>3, <1>4
<1>6. reached = {} => SeverityFor(rule, x) = 1 BY <1>4
<1>. QED BY <1>5, <1>6 DEF reached

LEMMA SeverityIsBand ==
  ASSUME NEW rule, LoadedBands(rule), NEW x
  PROVE  SeverityFor(rule, x) \in 1..4
<1>. DEFINE reached == {s \in DOMAIN rule.bands : Leq(rule.bands[s], x)}
<1>1. \A s \in DOMAIN rule.bands : s \in 1..4 BY DEF LoadedBands
<1>2. reached # {} => SeverityFor(rule, x) \in reached BY GreatestReached
<1>3. reached = {} => SeverityFor(rule, x) = 1 BY GreatestReached
<1>. QED BY <1>1, <1>2, <1>3

LEMMA SeverityRises ==
  ASSUME NEW rule, LoadedBands(rule), BandsRise(rule),
         NEW x \in Number, NEW y \in Number, Leq(x, y)
  PROVE  SeverityFor(rule, x) <= SeverityFor(rule, y)
<1>. DEFINE below == {s \in DOMAIN rule.bands : Leq(rule.bands[s], x)}
            reached == {s \in DOMAIN rule.bands : Leq(rule.bands[s], y)}
            r == SeverityFor(rule, x)
            s == SeverityFor(rule, y)
<1>1. \A i \in DOMAIN rule.bands : i \in 1..4 /\ rule.bands[i] \in Number BY DEF LoadedBands
<1>2. r \in 1..4 /\ s \in 1..4 BY SeverityIsBand
<1>3. CASE below = {} BY <1>2, <1>3, GreatestReached
<1>4. CASE below # {}
  <2>1. r \in below BY <1>4, GreatestReached
  <2>2. r \in reached BY <1>1, <2>1, LeqTransitive
  <2>3. s \in reached /\ Leq(rule.bands[r], rule.bands[s]) BY <2>2, GreatestReached
  <2>4. ~Less(rule.bands[s], rule.bands[r]) BY <2>3 DEF Less
  <2>5. ~(s < r) BY <2>2, <2>3, <2>4 DEF BandsRise
  <2>. QED BY <1>2, <2>5
<1>. QED BY <1>3, <1>4

-----------------------------------------------------------------------------
(***************************************************************************)
(* Percentiles.                                                            *)
(***************************************************************************)
Below(features, metric, v)  == {c \in DOMAIN features : Less(features[c][metric], v)}
Within(features, metric, v) == {c \in DOMAIN features : Leq(features[c][metric], v)}

\* Finitely many vectors, of numbers.
AreVectors(features) ==
  /\ IsFiniteSet(DOMAIN features)
  /\ \A c \in DOMAIN features : \A metric \in Metrics : features[c][metric] \in Ratio

LEMMA RatiosAreNumbers == Ratio \subseteq Number BY DEF Ratio, Number

LEMMA CountsOf ==
  ASSUME NEW features, AreVectors(features), NEW metric, NEW v
  PROVE  /\ IsFiniteSet(Below(features, metric, v))
         /\ IsFiniteSet(Within(features, metric, v))
         /\ Cardinality(Below(features, metric, v)) \in Nat
         /\ Cardinality(Within(features, metric, v)) \in Nat
<1>1. Below(features, metric, v) \in SUBSET DOMAIN features BY DEF Below
<1>2. Within(features, metric, v) \in SUBSET DOMAIN features BY DEF Within
<1>3. IsFiniteSet(Below(features, metric, v)) /\ IsFiniteSet(Within(features, metric, v))
  BY <1>1, <1>2, FS_Subset DEF AreVectors
<1>. QED BY <1>3, FS_CardinalityType

\* For every rank there is a value of that rank: the least one with enough
\* values that are not greater.
LEMMA RankedExists ==
  ASSUME NEW features, AreVectors(features), NEW metric \in Metrics,
         NEW k \in Nat, k < Cardinality(DOMAIN features)
  PROVE  /\ Ranked(features, metric, k) \in Ratio
         /\ Cardinality(Below(features, metric, Ranked(features, metric, k))) <= k
         /\ k < Cardinality(Within(features, metric, Ranked(features, metric, k)))
<1>. DEFINE C == DOMAIN features
            values == {features[c][metric] : c \in C}
            enough == {v \in values : k < Cardinality(Within(features, metric, v))}
            value == [c \in C |-> features[c][metric]]
<1>1. IsFiniteSet(C) /\ \A c \in C : features[c][metric] \in Ratio BY DEF AreVectors
<1>2. values \subseteq Ratio /\ values \subseteq Number
  BY <1>1, RatiosAreNumbers
<1>3. IsFiniteSet(values)
  <2>1. value \in Surjection(C, values) BY DEF Surjection
  <2>. HIDE DEF value, values, C
  <2>. QED BY <1>1, <2>1, FS_Surjection
<1>4. C # {} BY FS_EmptySet
<1>5. enough # {}
  <2>1. values # {} BY <1>4
  <2>2. PICK v \in values : \A u \in values : Leq(u, v)
    <3>. HIDE DEF values
    <3>. QED BY <1>2, <1>3, <2>1, LeastNumber
  <2>3. Within(features, metric, v) = C BY <2>2 DEF Within
  <2>. QED BY <2>2, <2>3
<1>6. PICK v \in enough : \A u \in enough : Leq(v, u)
  <2>1. enough \in SUBSET values OBVIOUS
  <2>2. enough \subseteq Number BY <1>2
  <2>. HIDE DEF enough, values
  <2>3. IsFiniteSet(enough) BY <1>3, <2>1, FS_Subset
  <2>. QED BY <1>5, <2>2, <2>3, LeastNumber
<1>7. v \in values /\ v \in Number BY <1>2, <1>6
<1>8. Cardinality(Below(features, metric, v)) <= k
  <2>. DEFINE below == Below(features, metric, v)
              under == {features[c][metric] : c \in below}
  <2>. SUFFICES ASSUME Cardinality(below) > k PROVE FALSE BY CountsOf
  <2>1. below # {} BY FS_EmptySet
  <2>2. under \in SUBSET values /\ under # {} BY <2>1 DEF Below
  <2>3. PICK u \in under : \A w \in under : Leq(w, u)
    <3>. HIDE DEF under, values
    <3>1. IsFiniteSet(under) BY <1>3, <2>2, FS_Subset
    <3>. QED BY <1>2, <2>2, <3>1, LeastNumber
  <2>4. Less(u, v) /\ u \in values BY <2>2, <2>3 DEF Below
  <2>5. below \in SUBSET Within(features, metric, u) BY <2>3 DEF Within, Below
  <2>6. Cardinality(below) <= Cardinality(Within(features, metric, u))
    <3>. HIDE DEF below
    <3>. QED BY <2>5, CountsOf, FS_Subset
  <2>7. k < Cardinality(Within(features, metric, u)) BY <2>6, CountsOf
  <2>8. u \in enough BY <2>4, <2>7
  <2>. QED BY <1>6, <2>4, <2>8 DEF Less
<1>9. \E u \in values : /\ Cardinality(Below(features, metric, u)) <= k
                        /\ k < Cardinality(Within(features, metric, u))
  BY <1>6, <1>8
<1>10. Ranked(features, metric, k) =
         CHOOSE u \in values : /\ Cardinality(Below(features, metric, u)) <= k
                               /\ k < Cardinality(Within(features, metric, u))
  BY DEF Ranked, Below, Within
<1>. HIDE DEF values
<1>. QED BY <1>2, <1>9, <1>10

LEMMA RanksRise ==
  ASSUME NEW features, AreVectors(features), NEW metric \in Metrics,
         NEW i \in Nat, NEW k \in Nat, i <= k, k < Cardinality(DOMAIN features)
  PROVE  Leq(Ranked(features, metric, i), Ranked(features, metric, k))
<1>. DEFINE low == Ranked(features, metric, i)
            high == Ranked(features, metric, k)
<1>. SUFFICES ASSUME Less(high, low) PROVE FALSE BY DEF Less
<1>0. Cardinality(DOMAIN features) \in Nat BY FS_CardinalityType DEF AreVectors
<1>1. /\ low \in Ratio /\ Cardinality(Below(features, metric, low)) <= i
      /\ high \in Ratio /\ k < Cardinality(Within(features, metric, high))
  <2>1. i < Cardinality(DOMAIN features) BY <1>0
  <2>. QED BY <2>1, RankedExists
<1>. HIDE DEF low, high
<1>2. Within(features, metric, high) \in SUBSET Below(features, metric, low)
  BY <1>1, LessTransitive, RatiosAreNumbers DEF Within, Below, AreVectors
<1>3. Cardinality(Within(features, metric, high)) <= Cardinality(Below(features, metric, low))
  BY <1>2, CountsOf, FS_Subset
<1>. QED BY <1>1, <1>3, CountsOf

\* The number between low and high, w hundredths of the way.
Between(low, high, w) ==
  <<low[1] * high[2] * (100 - w) + high[1] * low[2] * w, 100 * low[2] * high[2]>>

LEMMA BetweenIsAbove ==
  ASSUME NEW low \in Ratio, NEW high \in Ratio, NEW w \in 0..99, Leq(low, high)
  PROVE  Between(low, high, w) \in Number /\ Leq(low, Between(low, high, w))
<1>. DEFINE a == low[1]  b == low[2]  c == high[1]  d == high[2]
<1>1. a \in Nat /\ c \in Nat /\ b \in Nat \ {0} /\ d \in Nat \ {0} BY DEF Ratio
<1>2. a * d <= c * b BY DEF Leq
<1>3. Between(low, high, w) = <<a * d * (100 - w) + c * b * w, 100 * b * d>> BY DEF Between
<1>. HIDE DEF a, b, c, d
<1>. DEFINE x == a * d  y == c * b
<1>4. x \in Nat /\ y \in Nat /\ x <= y BY <1>1, <1>2
<1>5. b * d \in Nat \ {0} BY <1>1
<1>6. 100 * b * d = 100 * (b * d) /\ 100 * (b * d) \in Nat \ {0} BY <1>1, <1>5
<1>7. a * (100 * b * d) = (100 * x) * b BY <1>1
<1>. HIDE DEF x, y
<1>8. x * w <= y * w BY <1>4, TimesMonotone
<1>9. /\ x * (100 - w) = 100 * x - x * w
      /\ x * w \in Int /\ y * w \in Int /\ x * (100 - w) + y * w \in Int
  BY <1>4
<1>10. 100 * x <= x * (100 - w) + y * w BY <1>4, <1>8, <1>9
<1>11. (100 * x) * b <= (x * (100 - w) + y * w) * b
  <2>1. 100 * x \in Int BY <1>4
  <2>. QED BY <1>1, <1>9, <1>10, <2>1, TimesMonotone
<1>12. Between(low, high, w) = <<x * (100 - w) + y * w, 100 * b * d>> BY <1>3 DEF x, y
<1>13. Between(low, high, w) \in Number BY <1>6, <1>9, <1>12 DEF Number
<1>14. a * (100 * b * d) <= (x * (100 - w) + y * w) * b BY <1>7, <1>11
<1>15. Leq(low, Between(low, high, w)) BY <1>12, <1>14 DEF Leq, a, b
<1>. QED BY <1>13, <1>15

\* A percentile is a number, and no smaller than the value at its rank.
LEMMA PercentileIsAbove ==
  ASSUME NEW features, AreVectors(features), NEW metric \in Metrics, NEW q \in 1..99,
         DOMAIN features # {}
  PROVE  LET n == Cardinality(DOMAIN features)
             k == (q * (n - 1)) \div 100
         IN /\ n \in Nat \ {0} /\ k \in 0..(n - 1)
            /\ Percentile(Values(features, metric), q) \in Number
            /\ Leq(Ranked(features, metric, k), Percentile(Values(features, metric), q))
<1>. DEFINE n == Cardinality(DOMAIN features)
            k == (q * (n - 1)) \div 100
            w == (q * (n - 1)) % 100
            sorted == Values(features, metric)
<1>1. n \in Nat \ {0} BY FS_CardinalityType, FS_EmptySet DEF AreVectors
<1>. HIDE DEF n
<1>2. q * (n - 1) \in Nat /\ q * (n - 1) <= 100 * (n - 1)
  <2>1. n - 1 \in Nat /\ q \in Int /\ q <= 100 BY <1>1
  <2>2. q * (n - 1) <= 100 * (n - 1) BY <2>1, TimesMonotone
  <2>3. q * (n - 1) \in Nat BY <2>1
  <2>. QED BY <2>2, <2>3
<1>3. k \in 0..(n - 1) /\ w \in 0..99
  <2>. DEFINE m == q * (n - 1)
  <2>1. m \in Nat /\ m <= 100 * (n - 1) BY <1>2
  <2>. HIDE DEF m
  <2>2. m \div 100 \in 0..(n - 1) /\ m % 100 \in 0..99 BY <1>1, <2>1
  <2>. QED BY <2>2 DEF m
<1>4. sorted = [i \in 1..n |-> Ranked(features, metric, i - 1)] BY DEF Values, n
<1>5. Len(sorted) = n BY <1>1, <1>4
<1>. DEFINE top == Min({k + 1, n - 1})
<1>6. top \in 0..(n - 1) /\ k <= top
  <2>1. {k + 1, n - 1} \in SUBSET Nat BY <1>1, <1>3
  <2>2. /\ top \in {k + 1, n - 1} /\ top <= k + 1 /\ top <= n - 1
    <3>. HIDE DEF k
    <3>. QED BY <2>1, LeastExists
  <2>. QED BY <1>1, <1>3, <2>2
<1>. DEFINE low == Ranked(features, metric, k)
            high == Ranked(features, metric, top)
<1>7. sorted[1 + k] = low /\ sorted[1 + top] = high
  <2>. HIDE DEF k, top, sorted
  <2>1. 1 + k \in 1..n /\ 1 + top \in 1..n /\ (1 + k) - 1 = k /\ (1 + top) - 1 = top
    BY <1>1, <1>3, <1>6
  <2>. QED BY <1>4, <2>1
<1>8. low \in Ratio /\ high \in Ratio /\ Leq(low, high)
  <2>. HIDE DEF k, top
  <2>1. k \in Nat /\ top \in Nat /\ k < n /\ top < n BY <1>1, <1>3, <1>6
  <2>. QED BY <1>6, <2>1, RankedExists, RanksRise DEF n
<1>9. Percentile(sorted, q) = Between(low, high, w)
  <2>1. Percentile(sorted, q) = Between(sorted[1 + k], sorted[1 + top], w)
    BY <1>5 DEF Percentile, Between
  <2>. QED BY <1>7, <2>1
<1>. HIDE DEF k, w, low, high, sorted
<1>10. Between(low, high, w) \in Number /\ Leq(low, Between(low, high, w))
  BY <1>3, <1>8, BetweenIsAbove
<1>. QED BY <1>1, <1>3, <1>9, <1>10 DEF n, k, low, sorted

-----------------------------------------------------------------------------
(***************************************************************************)
(* Findings.                                                               *)
(***************************************************************************)
LEMMA RulesAreLoaded ==
  ASSUME NEW rule \in Rules
  PROVE  /\ LoadedBands(rule)
         /\ IsFiniteSet(DOMAIN rule.conditions) /\ DOMAIN rule.conditions # {}
         /\ \A i \in DOMAIN rule.conditions :
              LET cond == rule.conditions[i]
              IN /\ cond.metric \in Metrics /\ cond.op \in Operators
                 /\ cond.absolute \in Number /\ cond.percentile \in 0..99
<1>1. LoadedConditions(rule) /\ LoadedBands(rule) BY RulesAssumption DEF LoadedRules
<1>. DEFINE conditions == rule.conditions
<1>2. conditions \in Seq(ToSet(conditions)) /\ conditions # <<>>
  BY <1>1 DEF LoadedConditions
<1>. HIDE DEF conditions
<1>3. Len(conditions) \in Nat /\ DOMAIN conditions = 1..Len(conditions) BY <1>2
<1>4. Len(conditions) # 0 BY <1>2, EmptySeq
<1>6. DOMAIN conditions # {} BY <1>3, <1>4
<1>5. IsFiniteSet(DOMAIN conditions) BY <1>3, FS_Interval
<1>. QED BY <1>1, <1>5, <1>6 DEF conditions, LoadedConditions

LEMMA ThresholdIsNumber ==
  ASSUME NEW features, AreVectors(features), DOMAIN features # {}, NEW mode,
         NEW rule \in Rules, NEW i \in DOMAIN rule.conditions
  PROVE  Threshold(rule.conditions[i], mode, features) \in Number
<1>. DEFINE cond == rule.conditions[i]
<1>1. cond.metric \in Metrics /\ cond.absolute \in Number /\ cond.percentile \in 0..99
  BY RulesAreLoaded
<1>. HIDE DEF cond
<1>2. CASE mode = "percentile" /\ cond.percentile # 0 /\ Cardinality(DOMAIN features) >= MinEntities
  <2>1. cond.percentile \in 1..99 BY <1>1, <1>2
  <2>2. Percentile(Values(features, cond.metric), cond.percentile) \in Number
    BY <1>1, <2>1, PercentileIsAbove
  <2>. QED BY <1>2, <2>2 DEF Threshold, cond
<1>3. CASE ~(mode = "percentile" /\ cond.percentile # 0 /\ Cardinality(DOMAIN features) >= MinEntities)
  BY <1>1, <1>3 DEF Threshold, cond
<1>. QED BY <1>2, <1>3

\* How far c is past its threshold on condition i.
Past(rule, mode, features, c, i) ==
  Excess(rule.conditions[i].op, features[c][rule.conditions[i].metric],
         Threshold(rule.conditions[i], mode, features))

Pasts(rule, mode, features, c) ==
  {Past(rule, mode, features, c, i) : i \in Satisfied(rule, mode, features, c)}

LEMMA SeverityIs ==
  ASSUME NEW rule, NEW mode, NEW features, NEW c
  PROVE  Severity(rule, mode, features, c)
           = SeverityFor(rule, Weakest(Pasts(rule, mode, features, c)))
BY DEF Severity, Pasts, Past

\* The weakest of the finite ones among finitely many excesses.
LEMMA WeakestIsLeast ==
  ASSUME NEW E, IsFiniteSet(E), E \subseteq Number \cup {Infinite}, E \ {Infinite} # {}
  PROVE  /\ Weakest(E) \in E \ {Infinite} /\ Weakest(E) \in Number
         /\ \A x \in E \ {Infinite} : Leq(Weakest(E), x)
<1>. DEFINE finite == E \ {Infinite}
<1>1. finite \subseteq Number /\ finite # {} OBVIOUS
<1>2. IsFiniteSet(finite) BY FS_RemoveElement
<1>3. Weakest(E) = CHOOSE x \in finite : \A y \in finite : Leq(x, y) BY DEF Weakest
<1>. HIDE DEF finite
<1>4. \E x \in finite : \A y \in finite : Leq(x, y) BY <1>1, <1>2, LeastNumber
<1>5. Weakest(E) \in finite /\ \A y \in finite : Leq(Weakest(E), y) BY <1>3, <1>4
<1>. QED BY <1>1, <1>5 DEF finite

LEMMA PastsAreFew ==
  ASSUME NEW features, AreVectors(features), NEW mode, NEW rule \in Rules,
         NEW c \in DOMAIN features
  PROVE  /\ IsFiniteSet(Pasts(rule, mode, features, c))
         /\ Pasts(rule, mode, features, c) \subseteq Number \cup {Infinite}
         /\ \A i \in DOMAIN rule.conditions :
              features[c][rule.conditions[i].metric] \in Ratio
<1>1. \A i \in DOMAIN rule.conditions : rule.conditions[i].metric \in Metrics
  BY RulesAreLoaded
<1>2. \A i \in DOMAIN rule.conditions : features[c][rule.conditions[i].metric] \in Ratio
  BY <1>1 DEF AreVectors
<1>. DEFINE S == Satisfied(rule, mode, features, c)
            past == [i \in S |-> Past(rule, mode, features, c, i)]
<1>3. S \in SUBSET DOMAIN rule.conditions BY DEF Satisfied
<1>4. IsFiniteSet(S)
  <2>. HIDE DEF S
  <2>. QED BY <1>3, RulesAreLoaded, FS_Subset
<1>5. \A i \in S : Past(rule, mode, features, c, i) \in Number \cup {Infinite}
  <2>. HIDE DEF S
  <2>. QED BY <1>2, <1>3, ThresholdIsNumber, ExcessIsNumber DEF Past
<1>6. past \in Surjection(S, Pasts(rule, mode, features, c))
  <2>1. Pasts(rule, mode, features, c) = {past[i] : i \in S} BY DEF Pasts
  <2>. HIDE DEF S
  <2>. QED BY <2>1 DEF Surjection
<1>7. IsFiniteSet(Pasts(rule, mode, features, c))
  <2>. HIDE DEF S, past
  <2>. QED BY <1>4, <1>6, FS_Surjection
<1>. QED BY <1>2, <1>5, <1>7 DEF Pasts

\* c is at least as far out as g on every condition.
AllWorse(rule, features, g, c) ==
  \A i \in DOMAIN rule.conditions :
    Worse(rule.conditions[i].op, features[g][rule.conditions[i].metric],
          features[c][rule.conditions[i].metric])

LEMMA WorseIsSatisfied ==
  ASSUME NEW features, AreVectors(features), NEW mode, NEW rule \in Rules,
         NEW g \in DOMAIN features, NEW c \in DOMAIN features,
         AllWorse(rule, features, g, c)
  PROVE  Satisfied(rule, mode, features, g) \subseteq Satisfied(rule, mode, features, c)
<1>. SUFFICES ASSUME NEW i \in Satisfied(rule, mode, features, g)
              PROVE  i \in Satisfied(rule, mode, features, c)
  OBVIOUS
<1>. DEFINE cond == rule.conditions[i]
            t == Threshold(cond, mode, features)
            v == features[g][cond.metric]
            w == features[c][cond.metric]
<1>1. i \in DOMAIN rule.conditions /\ Holds(cond.op, v, t) BY DEF Satisfied
<1>2. cond.op \in Operators BY <1>1, RulesAreLoaded
<1>3. v \in Number /\ w \in Number BY <1>1, PastsAreFew, RatiosAreNumbers
<1>4. t \in Number BY <1>1, ThresholdIsNumber
<1>5. Worse(cond.op, v, w) BY <1>1 DEF AllWorse
<1>. HIDE DEF cond, t, v, w
<1>6. Holds(cond.op, w, t) BY <1>1, <1>2, <1>3, <1>4, <1>5, HoldsOfWorse
<1>. QED BY <1>1, <1>6 DEF Satisfied, cond, t, w

LEMMA WorseIsPast ==
  ASSUME NEW features, AreVectors(features), NEW mode, NEW rule \in Rules,
         NEW g \in DOMAIN features, NEW c \in DOMAIN features,
         AllWorse(rule, features, g, c),
         Satisfied(rule, mode, features, g) = DOMAIN rule.conditions,
         NEW i \in DOMAIN rule.conditions, Past(rule, mode, features, c, i) # Infinite
  PROVE  /\ Past(rule, mode, features, g, i) \in Pasts(rule, mode, features, g) \ {Infinite}
         /\ Leq(Past(rule, mode, features, g, i), Past(rule, mode, features, c, i))
<1>. DEFINE cond == rule.conditions[i]
            t == Threshold(cond, mode, features)
            v == features[g][cond.metric]
            w == features[c][cond.metric]
<1>1. Holds(cond.op, v, t) BY DEF Satisfied
<1>2. cond.op \in Operators BY RulesAreLoaded
<1>3. v \in Ratio /\ w \in Ratio BY PastsAreFew
<1>4. t \in Number BY ThresholdIsNumber
<1>5. Worse(cond.op, v, w) BY DEF AllWorse
<1>6. /\ Past(rule, mode, features, c, i) = Excess(cond.op, w, t)
      /\ Past(rule, mode, features, g, i) = Excess(cond.op, v, t)
  BY DEF Past
<1>. HIDE DEF cond, t, v, w
<1>7. /\ Past(rule, mode, features, g, i) # Infinite
      /\ Leq(Past(rule, mode, features, g, i), Past(rule, mode, features, c, i))
  BY <1>1, <1>2, <1>3, <1>4, <1>5, <1>6, ExcessGrows
<1>. QED BY <1>7 DEF Pasts

\* If every condition holds of both, the weakest excess of the worse class is no
\* smaller, and so is its severity.
LEMMA WorseIsMoreSevere ==
  ASSUME NEW features, AreVectors(features), NEW mode, NEW rule \in Rules, BandsRise(rule),
         NEW g \in DOMAIN features, NEW c \in DOMAIN features,
         AllWorse(rule, features, g, c),
         Satisfied(rule, mode, features, g) = DOMAIN rule.conditions,
         Satisfied(rule, mode, features, c) = DOMAIN rule.conditions,
         \E i \in DOMAIN rule.conditions : Past(rule, mode, features, c, i) # Infinite
  PROVE  Severity(rule, mode, features, g) <= Severity(rule, mode, features, c)
<1>. DEFINE G == Pasts(rule, mode, features, g)
            C == Pasts(rule, mode, features, c)
<1>1. C \ {Infinite} # {} BY DEF Pasts
<1>2. G \ {Infinite} # {} BY WorseIsPast
<1>3. /\ IsFiniteSet(C) /\ C \subseteq Number \cup {Infinite}
      /\ IsFiniteSet(G) /\ G \subseteq Number \cup {Infinite}
  BY PastsAreFew
<1>4. /\ Weakest(C) \in C \ {Infinite} /\ Weakest(C) \in Number
      /\ Weakest(G) \in Number /\ \A x \in G \ {Infinite} : Leq(Weakest(G), x)
  <2>. HIDE DEF C, G
  <2>. QED BY <1>1, <1>2, <1>3, WeakestIsLeast
<1>5. PICK i \in DOMAIN rule.conditions : Weakest(C) = Past(rule, mode, features, c, i)
  BY <1>4 DEF Pasts
<1>6. LET x == Past(rule, mode, features, g, i)
      IN x \in G \ {Infinite} /\ Leq(x, Weakest(C))
  BY <1>4, <1>5, WorseIsPast
<1>7. Leq(Weakest(G), Weakest(C))
  <2>. DEFINE x == Past(rule, mode, features, g, i)
  <2>1. x \in G \ {Infinite} /\ Leq(x, Weakest(C)) BY <1>6
  <2>. HIDE DEF x, G, C
  <2>2. x \in Number BY <1>3, <2>1
  <2>. QED BY <1>4, <2>1, <2>2, LeqTransitive
<1>8. SeverityFor(rule, Weakest(G)) <= SeverityFor(rule, Weakest(C))
  <2>. HIDE DEF G, C
  <2>. QED BY <1>4, <1>7, RulesAreLoaded, SeverityRises
<1>. QED BY <1>8, SeverityIs

-----------------------------------------------------------------------------
(***************************************************************************)
(* Sums.  A sum is a fold that takes the members in an order nobody knows: *)
(* first, that it has a value.                                             *)
(***************************************************************************)
AnyOf(s) == CHOOSE x \in s : TRUE

\* What a fold over f makes of the set s, given what g has made of smaller ones.
Adding(f, g, s) == IF s = {} THEN 0 ELSE f[AnyOf(s)] + g[s \ {AnyOf(s)}]

\* Two functions that agree on the smaller sets do so on this one.
LEMMA AddingDepends ==
  ASSUME NEW f, NEW g, NEW h, NEW s, \A x \in s : g[s \ {x}] = h[s \ {x}]
  PROVE  Adding(f, g, s) = Adding(f, h, s)
<1>1. CASE s = {} BY <1>1 DEF Adding
<1>2. CASE s # {}
  <2>1. AnyOf(s) \in s BY <1>2 DEF AnyOf
  <2>. QED BY <1>2, <2>1 DEF Adding
<1>. QED BY <1>1, <1>2

LEMMA SumExists ==
  ASSUME NEW f, NEW S, IsFiniteSet(S)
  PROVE  \E g : g = [s \in SUBSET S |-> Adding(f, g, s)]
<1>. DEFINE Upto(n, g) == \A s \in SUBSET S : Cardinality(s) <= n => g[s] = Adding(f, g, s)
            G == {n \in Nat : \E g : Upto(n, g)}
<1>0. \A s \in SUBSET S : IsFiniteSet(s) /\ Cardinality(s) \in Nat
  BY FS_Subset, FS_CardinalityType
<1>1. 0 \in G
  <2>. DEFINE g == [s \in SUBSET S |-> 0]
  <2>1. Upto(0, g)
    <3>1. \A s \in SUBSET S : Cardinality(s) <= 0 => s = {} BY <1>0, FS_EmptySet
    <3>. QED BY <3>1 DEF Adding
  <2>. QED BY <2>1
<1>2. ASSUME NEW n \in Nat, n \in G PROVE n + 1 \in G
  <2>1. PICK g : Upto(n, g) BY <1>2
  <2>. DEFINE h == [s \in SUBSET S |-> Adding(f, g, s)]
  <2>2. ASSUME NEW s \in SUBSET S, Cardinality(s) <= n + 1
        PROVE  h[s] = Adding(f, h, s)
    <3>1. \A x \in s : Cardinality(s \ {x}) <= n BY <1>0, <2>2, FS_RemoveElement
    <3>2. \A x \in s : g[s \ {x}] = h[s \ {x}] BY <2>1, <3>1
    <3>. HIDE DEF h
    <3>3. Adding(f, g, s) = Adding(f, h, s) BY <3>2, AddingDepends
    <3>. QED BY <3>3 DEF h
  <2>3. Upto(n + 1, h) BY <2>2
  <2>. HIDE DEF Upto
  <2>. QED BY <2>3
<1>3. Cardinality(S) \in G
  <2>. HIDE DEF G
  <2>. QED BY <1>0, <1>1, <1>2, NaturalInduction
<1>4. PICK g : Upto(Cardinality(S), g) BY <1>3
<1>. DEFINE h == [s \in SUBSET S |-> g[s]]
<1>5. ASSUME NEW s \in SUBSET S PROVE g[s] = Adding(f, h, s)
  <2>1. Cardinality(s) <= Cardinality(S) BY FS_Subset
  <2>2. g[s] = Adding(f, g, s) BY <1>4, <2>1
  <2>3. \A x \in s : g[s \ {x}] = h[s \ {x}] OBVIOUS
  <2>. HIDE DEF h
  <2>4. Adding(f, g, s) = Adding(f, h, s) BY <2>3, AddingDepends
  <2>. QED BY <2>2, <2>4
<1>6. h = [s \in SUBSET S |-> Adding(f, h, s)]
  <2>. HIDE DEF Upto
  <2>. QED BY <1>5
<1>. QED BY <1>6

\* The function by which a sum is defined.
Sums(f) == CHOOSE g : g = [s \in SUBSET DOMAIN f |-> Adding(f, g, s)]

LEMMA SumsDefined ==
  ASSUME NEW f, IsFiniteSet(DOMAIN f)
  PROVE  /\ Total(f) = Sums(f)[DOMAIN f]
         /\ \A s \in SUBSET DOMAIN f : Sums(f)[s] = Adding(f, Sums(f), s)
<1>1. Sums(f) = [s \in SUBSET DOMAIN f |-> Adding(f, Sums(f), s)] BY SumExists DEF Sums
<1>2. Total(f) = Sums(f)[DOMAIN f]
  BY DEF Total, FoldFunction, FoldFunctionOnSet, MapThenFoldSet, Sums, Adding, AnyOf
<1>. QED BY <1>1, <1>2

\* A sum of natural numbers is one, and at most as many times their bound as
\* they are.
LEMMA TotalIsBounded ==
  ASSUME NEW f, IsFiniteSet(DOMAIN f), NEW b \in Nat, \A x \in DOMAIN f : f[x] \in 0..b
  PROVE  Total(f) \in Nat /\ Total(f) <= b * Cardinality(DOMAIN f)
<1>. DEFINE S == DOMAIN f
            G == {s \in SUBSET S : Sums(f)[s] \in Nat /\ Sums(f)[s] <= b * Cardinality(s)}
<1>1. ASSUME NEW s \in SUBSET S, \A x \in s : s \ {x} \in G PROVE s \in G
  <2>1. Sums(f)[s] = Adding(f, Sums(f), s) BY SumsDefined
  <2>2. CASE s = {}
    <3>1. Sums(f)[s] = 0 BY <2>1, <2>2 DEF Adding
    <3>2. b * Cardinality(s) = 0 BY <2>2, FS_EmptySet
    <3>. QED BY <3>1, <3>2
  <2>3. CASE s # {}
    <3>. DEFINE x == AnyOf(s)
                r == Sums(f)[s \ {x}]
    <3>1. x \in s BY <2>3 DEF AnyOf
    <3>2. Sums(f)[s] = f[x] + r BY <2>1, <2>3 DEF Adding
    <3>3. f[x] \in 0..b BY <3>1
    <3>4. r \in Nat /\ r <= b * Cardinality(s \ {x}) BY <1>1, <3>1
    <3>5. /\ IsFiniteSet(s) /\ Cardinality(s) \in Nat \ {0}
          /\ Cardinality(s \ {x}) = Cardinality(s) - 1
      <4>. HIDE DEF x
      <4>1. IsFiniteSet(s) BY FS_Subset
      <4>2. s # {} BY <3>1
      <4>. QED BY <3>1, <4>1, <4>2, FS_CardinalityType, FS_EmptySet, FS_RemoveElement
    <3>. HIDE DEF x, r
    <3>6. b * Cardinality(s \ {x}) = b * Cardinality(s) - b BY <3>5
    <3>7. b * Cardinality(s) \in Int BY <3>5
    <3>8. f[x] + r \in Nat /\ f[x] + r <= b * Cardinality(s) BY <3>3, <3>4, <3>6, <3>7
    <3>. QED BY <3>2, <3>8
  <2>. QED BY <2>2, <2>3
<1>2. SUBSET S \subseteq G
  <2>1. IsFiniteSet(S) OBVIOUS
  <2>. HIDE DEF G, S
  <2>. QED BY <1>1, <2>1, SubsetInduction
<1>. QED BY <1>2, SumsDefined

\* Any sum of natural numbers is one.
LEMMA TotalIsNatural ==
  ASSUME NEW f, IsFiniteSet(DOMAIN f), \A x \in DOMAIN f : f[x] \in Nat
  PROVE  Total(f) \in Nat
<1>. DEFINE S == DOMAIN f
            G == {s \in SUBSET S : Sums(f)[s] \in Nat}
<1>1. ASSUME NEW s \in SUBSET S, \A x \in s : s \ {x} \in G PROVE s \in G
  <2>1. Sums(f)[s] = Adding(f, Sums(f), s) BY SumsDefined
  <2>2. CASE s = {} BY <2>1, <2>2 DEF Adding
  <2>3. CASE s # {}
    <3>1. AnyOf(s) \in s BY <2>3 DEF AnyOf
    <3>2. Sums(f)[s] = f[AnyOf(s)] + Sums(f)[s \ {AnyOf(s)}] BY <2>1, <2>3 DEF Adding
    <3>3. f[AnyOf(s)] \in Nat /\ Sums(f)[s \ {AnyOf(s)}] \in Nat BY <1>1, <3>1
    <3>4. Sums(f)[s] \in Nat BY <3>2, <3>3
    <3>. QED BY <3>4
  <2>. QED BY <2>2, <2>3
<1>2. SUBSET S \subseteq G
  <2>1. IsFiniteSet(S) OBVIOUS
  <2>. HIDE DEF G, S
  <2>. QED BY <1>1, <2>1, SubsetInduction
<1>. QED BY <1>2, SumsDefined

-----------------------------------------------------------------------------
(***************************************************************************)
(* The class graph.  The depths are a recursive function of a class, the   *)
(* path to it, the cache and a number of bases: it has a value because     *)
(* every step has fewer classes to go to, or fewer bases to ask.           *)
(***************************************************************************)
LEMMA FirstIsOne ==
  ASSUME NEW code, IsCodeBase(code), NEW S
  PROVE  First(code, S) \in S \cup {None}
<1>. DEFINE order == code.order
            at == {i \in DOMAIN order : order[i] \in S}
<1>1. order \in Seq(ToSet(order)) BY DEF IsCodeBase
<1>2. DOMAIN order \subseteq Nat
  <2>. HIDE DEF order
  <2>. QED BY <1>1
<1>3. at \in SUBSET Nat BY <1>2
<1>4. First(code, S) = IF at = {} THEN None ELSE order[Min(at)] BY DEF First
<1>5. at # {} => Min(at) \in at
  <2>. HIDE DEF at
  <2>. QED BY <1>3, LeastExists
<1>6. \A i \in at : order[i] \in S OBVIOUS
<1>. HIDE DEF at
<1>. QED BY <1>4, <1>5, <1>6

LEMMA OnlyIsOne == \A S : Only(S) \in S \cup {None}
BY DEF Only

LEMMA ResolveIsClass ==
  ASSUME NEW code, IsCodeBase(code), NEW n, NEW c
  PROVE  ResolveClass(code, n, c) \in Classes(code) \cup {None}
<1>1. \A k : Named(code, k) \subseteq Classes(code) BY DEF Named
<1>2. \A m, k : Declared(code, m, k) \subseteq Classes(code) BY <1>1 DEF Declared
<1>3. \A k : Only(Named(code, k)) \in Classes(code) \cup {None} BY <1>1, OnlyIsOne
<1>4. \A m, k : First(code, Declared(code, m, k)) \in Classes(code) \cup {None}
  BY <1>2, FirstIsOne
<1>. DEFINE bound == code.imports[code.class[c].module]
            imported == IF n \notin DOMAIN bound THEN None
                        ELSE Or(First(code, Declared(code, bound[n][1], bound[n][2])),
                                Only(Named(code, bound[n][2])))
<1>5. imported \in Classes(code) \cup {None} BY <1>3, <1>4 DEF Or
<1>6. ResolveClass(code, n, c) =
        Or(First(code, Declared(code, code.class[c].module, n)), Or(imported, Only(Named(code, n))))
  BY DEF ResolveClass
<1>. HIDE DEF imported
<1>. QED BY <1>3, <1>4, <1>5, <1>6 DEF Or

LEMMA ClassesAreFew ==
  ASSUME NEW code, IsCodeBase(code)
  PROVE  IsFiniteSet(Classes(code)) /\ Cardinality(Classes(code)) \in Nat
<1>1. Classes(code) \in SUBSET DOMAIN code.class BY DEF Classes
<1>2. IsFiniteSet(Classes(code)) BY <1>1, FS_Subset DEF IsCodeBase
<1>. QED BY <1>2, FS_CardinalityType

LEMMA BasesAreClasses ==
  ASSUME NEW code, IsCodeBase(code), NEW c \in Classes(code)
  PROVE  /\ Len(Bases(code, c)) \in Nat /\ DOMAIN Bases(code, c) = 1..Len(Bases(code, c))
         /\ \A i \in DOMAIN Bases(code, c) : Bases(code, c)[i] \in Classes(code) \cup {None}
<1>. DEFINE bases == code.class[c].bases
<1>1. bases \in Seq(ToSet(bases)) BY DEF IsCodeBase, Classes
<1>2. Bases(code, c) = [i \in DOMAIN bases |-> ResolveClass(code, bases[i], c)] BY DEF Bases
<1>. HIDE DEF bases
<1>3. Len(bases) \in Nat /\ DOMAIN bases = 1..Len(bases) BY <1>1
<1>4. Len(Bases(code, c)) = Len(bases) BY <1>2, <1>3
<1>. QED BY <1>2, <1>3, <1>4, ResolveIsClass

\* A depth, and a cache in which no depth is forgotten.
Grown(code, cache, got) ==
  /\ got.depth \in Nat /\ got.cache \in Caches(code)
  /\ \A c \in Classes(code) : cache[c] # None => got.cache[c] # None

\* Two walks agree on what they find from c, whatever is in the cache.
Alike(code, v, w, c, seen, i) ==
  \A cache \in Caches(code) :
    /\ v[<<c, seen, cache, i>>] = w[<<c, seen, cache, i>>]
    /\ Grown(code, cache, w[<<c, seen, cache, i>>])

LEMMA DepthDepends ==
  ASSUME NEW code, IsCodeBase(code), NEW v, NEW w, NEW c \in Classes(code),
         NEW seen \in SUBSET Classes(code), NEW cache \in Caches(code),
         c \notin seen => Alike(code, v, w, c, seen \cup {c}, Len(Bases(code, c)))
  PROVE  /\ Depth(code, v, c, seen, cache) = Depth(code, w, c, seen, cache)
         /\ Grown(code, cache, Depth(code, w, c, seen, cache))
         /\ seen = {} => Depth(code, w, c, seen, cache).cache[c] # None
<1>0. /\ cache[c] \in Nat \cup {None} /\ DOMAIN cache = Classes(code)
      /\ None \notin Nat /\ MaxDepth \in Nat
  BY StudyAssumption DEF Caches
<1>. DEFINE got == w[<<c, seen \cup {c}, cache, Len(Bases(code, c))>>]
<1>1. CASE cache[c] # None
  <2>1. /\ Depth(code, v, c, seen, cache) = [depth |-> cache[c], cache |-> cache]
        /\ Depth(code, w, c, seen, cache) = [depth |-> cache[c], cache |-> cache]
    BY <1>1 DEF Depth
  <2>. QED BY <1>0, <1>1, <2>1 DEF Grown
<1>2. CASE cache[c] = None /\ (c \in seen \/ Cardinality(seen) > MaxDepth)
  <2>1. /\ Depth(code, v, c, seen, cache) = [depth |-> 0, cache |-> cache]
        /\ Depth(code, w, c, seen, cache) = [depth |-> 0, cache |-> cache]
    BY <1>2 DEF Depth
  <2>2. seen # {}
    <3>. SUFFICES ASSUME seen = {} PROVE FALSE OBVIOUS
    <3>1. Cardinality(seen) = 0 BY FS_EmptySet
    <3>. QED BY <1>0, <1>2, <3>1
  <2>. QED BY <2>1, <2>2 DEF Grown
<1>3. CASE cache[c] = None /\ ~(c \in seen \/ Cardinality(seen) > MaxDepth)
  <2>1. /\ v[<<c, seen \cup {c}, cache, Len(Bases(code, c))>>] = got
        /\ Grown(code, cache, got)
    BY <1>3 DEF Alike
  <2>. HIDE DEF got
  <2>2. /\ Depth(code, v, c, seen, cache)
             = [depth |-> got.depth, cache |-> [got.cache EXCEPT ![c] = got.depth]]
        /\ Depth(code, w, c, seen, cache)
             = [depth |-> got.depth, cache |-> [got.cache EXCEPT ![c] = got.depth]]
    BY <1>3, <2>1 DEF Depth, got
  <2>. DEFINE kept == [got.cache EXCEPT ![c] = got.depth]
  <2>3. /\ got.depth \in Nat /\ got.cache \in Caches(code)
        /\ \A d \in Classes(code) : cache[d] # None => got.cache[d] # None
    BY <2>1 DEF Grown
  <2>4. kept \in Caches(code) BY <2>3 DEF Caches
  <2>5. kept[c] # None /\ \A d \in Classes(code) : cache[d] # None => kept[d] # None
    BY <1>0, <2>3 DEF Caches
  <2>. HIDE DEF kept
  <2>6. Depth(code, w, c, seen, cache) = [depth |-> got.depth, cache |-> kept]
    BY <2>2 DEF kept
  <2>7. /\ Depth(code, w, c, seen, cache).depth = got.depth
        /\ Depth(code, w, c, seen, cache).cache = kept
    BY <2>6
  <2>. QED BY <2>2, <2>3, <2>4, <2>5, <2>7 DEF Grown
<1>. QED BY <1>1, <1>2, <1>3

LEMMA DeepestDepends ==
  ASSUME NEW code, IsCodeBase(code), NEW v, NEW w, NEW c \in Classes(code),
         NEW seen \in SUBSET Classes(code), NEW cache \in Caches(code), NEW i \in Nat,
         i \in DOMAIN Bases(code, c) => Alike(code, v, w, c, seen, i - 1),
         \A b \in Classes(code) \ seen :
           Alike(code, v, w, b, seen \cup {b}, Len(Bases(code, b)))
  PROVE  /\ Deepest(code, v, c, seen, cache, i) = Deepest(code, w, c, seen, cache, i)
         /\ Grown(code, cache, Deepest(code, w, c, seen, cache, i))
<1>. DEFINE base == Bases(code, c)[i]
            best == w[<<c, seen, cache, i - 1>>]
            up   == Depth(code, w, base, seen, best.cache)
<1>1. CASE i \notin DOMAIN Bases(code, c)
  <2>1. /\ Deepest(code, v, c, seen, cache, i) = [depth |-> 0, cache |-> cache]
        /\ Deepest(code, w, c, seen, cache, i) = [depth |-> 0, cache |-> cache]
    BY <1>1 DEF Deepest
  <2>. QED BY <2>1 DEF Grown
<1>2. CASE i \in DOMAIN Bases(code, c)
  <2>1. v[<<c, seen, cache, i - 1>>] = best /\ Grown(code, cache, best) BY <1>2 DEF Alike
  <2>2. base \in Classes(code) \cup {None} BY <1>2, BasesAreClasses
  <2>3. CASE base = None
    <3>1. /\ Deepest(code, v, c, seen, cache, i) = best
          /\ Deepest(code, w, c, seen, cache, i) = best
      BY <1>2, <2>1, <2>3 DEF Deepest
    <3>. QED BY <2>1, <3>1
  <2>4. CASE base # None
    <3>1. best.cache \in Caches(code) BY <2>1 DEF Grown
    <3>2. /\ Depth(code, v, base, seen, best.cache) = up
          /\ Grown(code, best.cache, up)
      <4>1. base \in Classes(code) BY <2>2, <2>4
      <4>2. base \notin seen => Alike(code, v, w, base, seen \cup {base}, Len(Bases(code, base)))
        BY <4>1
      <4>. HIDE DEF base, best
      <4>. QED BY <3>1, <4>1, <4>2, DepthDepends
    <3>3. /\ Deepest(code, v, c, seen, cache, i)
               = [depth |-> Max({best.depth, 1 + up.depth}), cache |-> up.cache]
          /\ Deepest(code, w, c, seen, cache, i)
               = [depth |-> Max({best.depth, 1 + up.depth}), cache |-> up.cache]
      BY <1>2, <2>1, <2>4, <3>2 DEF Deepest
    <3>. HIDE DEF best, up, base
    <3>4. best.depth \in Nat /\ up.depth \in Nat BY <2>1, <3>2 DEF Grown
    <3>5. Max({best.depth, 1 + up.depth}) \in Nat
      <4>1. \E x \in {best.depth, 1 + up.depth} : \A y \in {best.depth, 1 + up.depth} : x >= y
        BY <3>4
      <4>. QED BY <3>4, <4>1 DEF Max
    <3>. QED BY <2>1, <3>2, <3>3, <3>5 DEF Grown
  <2>. QED BY <2>3, <2>4
<1>. QED BY <1>1, <1>2

Arguments(code) == Classes(code) \X (SUBSET Classes(code)) \X Caches(code) \X Nat

Visit(code, w, a) == Deepest(code, w, a[1], a[2], a[3], a[4])

\* The bases that are left to ask, at most b of each class on a path.
Burden(code, b, a) == Cardinality(Classes(code) \ a[2]) * (b + 1) + a[4]

Settled(code, w, a) == w[a] = Visit(code, w, a) /\ Grown(code, a[3], w[a])

LEMMA BasesAreBounded ==
  ASSUME NEW code, IsCodeBase(code)
  PROVE  \E b \in Nat : \A c \in Classes(code) : Len(Bases(code, c)) <= b
<1>. DEFINE C == Classes(code)
            rank == [c \in C |-> Rat(Len(Bases(code, c)))]
            ranks == {rank[c] : c \in C}
<1>1. CASE C = {} BY <1>1
<1>2. CASE C # {}
  <2>1. ranks \subseteq Number /\ ranks # {}
    <3>1. \A c \in C : Len(Bases(code, c)) \in Nat BY BasesAreClasses
    <3>2. \A n \in Nat : Rat(n) \in Number BY DEF Rat, Number
    <3>3. \A c \in C : rank[c] \in Number BY <3>1, <3>2
    <3>. HIDE DEF rank, C
    <3>. QED BY <1>2, <3>3
  <2>2. IsFiniteSet(ranks)
    <3>1. IsFiniteSet(C) BY ClassesAreFew
    <3>. HIDE DEF C, rank
    <3>. QED BY <3>1, FiniteImage
  <2>3. PICK x \in ranks : \A y \in ranks : Leq(y, x)
    <3>. HIDE DEF ranks
    <3>. QED BY <2>1, <2>2, LeastNumber
  <2>4. PICK c \in C : x = Rat(Len(Bases(code, c))) BY <2>3
  <2>5. \A d \in C : Leq(Rat(Len(Bases(code, d))), Rat(Len(Bases(code, c)))) BY <2>3, <2>4
  <2>6. \A d \in C : Len(Bases(code, d)) \in Nat BY BasesAreClasses
  <2>7. \A d \in C : Len(Bases(code, d)) <= Len(Bases(code, c))
    BY <2>4, <2>5, <2>6 DEF Leq, Rat
  <2>. QED BY <2>4, <2>6, <2>7
<1>. QED BY <1>1, <1>2

\* What a visit needs is lighter: the bases before, of the same class, and all
\* those of a class that is not on the path yet.
LEMMA BurdenFalls ==
  ASSUME NEW code, IsCodeBase(code), NEW b \in Nat,
         \A c \in Classes(code) : Len(Bases(code, c)) <= b,
         NEW a \in Arguments(code), NEW cache \in Caches(code),
         a[4] \in DOMAIN Bases(code, a[1])
  PROVE  /\ Burden(code, b, a) \in Nat
         /\ <<a[1], a[2], cache, a[4] - 1>> \in Arguments(code)
         /\ Burden(code, b, <<a[1], a[2], cache, a[4] - 1>>) < Burden(code, b, a)
         /\ \A c \in Classes(code) \ a[2] :
              LET next == <<c, a[2] \cup {c}, cache, Len(Bases(code, c))>>
              IN next \in Arguments(code) /\ Burden(code, b, next) < Burden(code, b, a)
<1>. DEFINE C == Classes(code)
            left == Cardinality(C \ a[2])
            i == a[4]
<1>1. a[1] \in C /\ a[2] \in SUBSET C /\ i \in Nat BY DEF Arguments
<1>2. i >= 1
  <2>1. DOMAIN Bases(code, a[1]) = 1..Len(Bases(code, a[1])) /\ Len(Bases(code, a[1])) \in Nat
    BY <1>1, BasesAreClasses
  <2>. QED BY <2>1
<1>3. left \in Nat
  <2>1. C \ a[2] \in SUBSET C OBVIOUS
  <2>2. IsFiniteSet(C \ a[2]) BY <2>1, ClassesAreFew, FS_Subset
  <2>. QED BY <2>2, FS_CardinalityType
<1>4. left * (b + 1) \in Nat BY <1>3
<1>5. Burden(code, b, a) = left * (b + 1) + i BY DEF Burden
<1>6. Burden(code, b, <<a[1], a[2], cache, i - 1>>) = left * (b + 1) + (i - 1) BY DEF Burden
<1>7. <<a[1], a[2], cache, i - 1>> \in Arguments(code) BY <1>1, <1>2 DEF Arguments
<1>8. ASSUME NEW c \in C \ a[2]
      PROVE  LET next == <<c, a[2] \cup {c}, cache, Len(Bases(code, c))>>
             IN next \in Arguments(code) /\ Burden(code, b, next) < Burden(code, b, a)
  <2>. DEFINE next == <<c, a[2] \cup {c}, cache, Len(Bases(code, c))>>
              n == Len(Bases(code, c))
  <2>1. n \in Nat /\ n <= b BY BasesAreClasses
  <2>2. next \in Arguments(code) BY <1>1, <2>1 DEF Arguments
  <2>3. Cardinality(C \ (a[2] \cup {c})) = left - 1 /\ left # 0
    <3>1. C \ (a[2] \cup {c}) = (C \ a[2]) \ {c} OBVIOUS
    <3>2. IsFiniteSet(C \ a[2])
      <4>1. C \ a[2] \in SUBSET C OBVIOUS
      <4>. QED BY <4>1, ClassesAreFew, FS_Subset
    <3>3. Cardinality((C \ a[2]) \ {c}) = left - 1 BY <3>2, FS_RemoveElement
    <3>4. left # 0
      <4>1. C \ a[2] # {} OBVIOUS
      <4>. HIDE DEF C
      <4>. QED BY <3>2, <4>1, FS_EmptySet
    <3>. QED BY <3>1, <3>3, <3>4
  <2>4. Burden(code, b, next) = (left - 1) * (b + 1) + n BY <2>3 DEF Burden
  <2>5. (left - 1) * (b + 1) = left * (b + 1) - (b + 1) BY <1>3
  <2>. HIDE DEF left, n, i, next
  <2>6. Burden(code, b, next) < Burden(code, b, a)
    BY <1>1, <1>2, <1>4, <1>5, <2>1, <2>4, <2>5
  <2>. QED BY <2>2, <2>6 DEF next, n
<1>. HIDE DEF left
<1>9. Burden(code, b, a) \in Nat /\ left * (b + 1) + (i - 1) < left * (b + 1) + i
  BY <1>1, <1>4, <1>5
<1>. QED BY <1>5, <1>6, <1>7, <1>8, <1>9

\* Two walks agree on all that a visit can ask for.
Agree(code, b, v, w, a) ==
  a[4] \in DOMAIN Bases(code, a[1]) =>
    \A x \in Arguments(code) :
      Burden(code, b, x) < Burden(code, b, a) => v[x] = w[x] /\ Grown(code, x[3], w[x])

LEMMA VisitDepends ==
  ASSUME NEW code, IsCodeBase(code), NEW v, NEW w, NEW b \in Nat,
         \A c \in Classes(code) : Len(Bases(code, c)) <= b,
         NEW a \in Arguments(code), Agree(code, b, v, w, a)
  PROVE  Visit(code, v, a) = Visit(code, w, a) /\ Grown(code, a[3], Visit(code, w, a))
<1>1. a[1] \in Classes(code) /\ a[2] \in SUBSET Classes(code) /\ a[3] \in Caches(code) /\ a[4] \in Nat
  BY DEF Arguments
<1>2. CASE a[4] \notin DOMAIN Bases(code, a[1])
  BY <1>1, <1>2 DEF Visit, Deepest, Grown
<1>3. CASE a[4] \in DOMAIN Bases(code, a[1])
  <2>1. Alike(code, v, w, a[1], a[2], a[4] - 1)
    <3>. SUFFICES ASSUME NEW cache \in Caches(code)
                  PROVE  LET x == <<a[1], a[2], cache, a[4] - 1>>
                         IN v[x] = w[x] /\ Grown(code, cache, w[x])
      BY DEF Alike
    <3>. DEFINE x == <<a[1], a[2], cache, a[4] - 1>>
    <3>1. x \in Arguments(code) /\ Burden(code, b, x) < Burden(code, b, a) BY <1>3, BurdenFalls
    <3>2. x[3] = cache OBVIOUS
    <3>. HIDE DEF x
    <3>. QED BY <1>3, <3>1, <3>2 DEF x, Agree
  <2>2. ASSUME NEW c \in Classes(code) \ a[2]
        PROVE  Alike(code, v, w, c, a[2] \cup {c}, Len(Bases(code, c)))
    <3>. SUFFICES ASSUME NEW cache \in Caches(code)
                  PROVE  LET x == <<c, a[2] \cup {c}, cache, Len(Bases(code, c))>>
                         IN v[x] = w[x] /\ Grown(code, cache, w[x])
      BY DEF Alike
    <3>. DEFINE x == <<c, a[2] \cup {c}, cache, Len(Bases(code, c))>>
    <3>1. x \in Arguments(code) /\ Burden(code, b, x) < Burden(code, b, a) BY <1>3, BurdenFalls
    <3>2. x[3] = cache OBVIOUS
    <3>. HIDE DEF x
    <3>. QED BY <1>3, <3>1, <3>2 DEF x, Agree
  <2>. QED BY <1>1, <2>1, <2>2, DeepestDepends DEF Visit
<1>. QED BY <1>2, <1>3

\* The arguments that a visit of burden n at most may have, or that need no other.
Upto(code, b, n) ==
  {a \in Arguments(code) :
     a[4] \in DOMAIN Bases(code, a[1]) => Burden(code, b, a) <= n}

LEMMA BurdenIsBounded ==
  ASSUME NEW code, IsCodeBase(code), NEW b \in Nat,
         \A c \in Classes(code) : Len(Bases(code, c)) <= b
  PROVE  \E most \in Nat : \A a \in Arguments(code) : a \in Upto(code, b, most)
<1>. DEFINE most == Cardinality(Classes(code)) * (b + 1) + b
<1>1. most \in Nat
  <2>1. Cardinality(Classes(code)) * (b + 1) \in Nat BY ClassesAreFew
  <2>. QED BY <2>1
<1>2. ASSUME NEW a \in Arguments(code) PROVE a \in Upto(code, b, most)
  <2>. SUFFICES ASSUME a[4] \in DOMAIN Bases(code, a[1]) PROVE Burden(code, b, a) <= most
    BY DEF Upto
  <2>1. a[1] \in Classes(code) /\ a[2] \in SUBSET Classes(code) /\ a[4] \in Nat
    BY DEF Arguments
  <2>2. a[4] <= b
    <3>1. DOMAIN Bases(code, a[1]) = 1..Len(Bases(code, a[1])) /\ Len(Bases(code, a[1])) \in Nat
      BY <2>1, BasesAreClasses
    <3>2. Len(Bases(code, a[1])) <= b BY <2>1
    <3>. QED BY <2>1, <3>1, <3>2
  <2>. DEFINE left == Cardinality(Classes(code) \ a[2])
              all  == Cardinality(Classes(code))
  <2>3. left \in Nat /\ all \in Nat /\ left <= all
    <3>1. Classes(code) \ a[2] \in SUBSET Classes(code) OBVIOUS
    <3>. QED BY <3>1, ClassesAreFew, FS_Subset, FS_CardinalityType
  <2>4. Burden(code, b, a) = left * (b + 1) + a[4] BY DEF Burden
  <2>. HIDE DEF left, all
  <2>5. left * (b + 1) <= all * (b + 1)
    <3>1. b + 1 \in Nat OBVIOUS
    <3>. QED BY <2>3, <3>1, TimesMonotone
  <2>6. left * (b + 1) \in Nat /\ all * (b + 1) \in Nat BY <2>3
  <2>. QED BY <2>1, <2>2, <2>4, <2>5, <2>6 DEF all
<1>. HIDE DEF most
<1>. QED BY <1>1, <1>2

LEMMA WalkExists ==
  ASSUME NEW code, IsCodeBase(code)
  PROVE  \E w : w = [a \in Arguments(code) |-> Visit(code, w, a)]
<1>1. PICK b \in Nat : \A c \in Classes(code) : Len(Bases(code, c)) <= b BY BasesAreBounded
<1>. DEFINE Works(n, w) == \A a \in Upto(code, b, n) : Settled(code, w, a)
            G == {n \in Nat : \E w : Works(n, w)}
<1>2. ASSUME NEW n \in Nat, NEW w,
             \A a \in Arguments(code) : a[4] \in DOMAIN Bases(code, a[1]) =>
               \A x \in Arguments(code) : Burden(code, b, x) < Burden(code, b, a)
                                            /\ Burden(code, b, a) <= n
                 => Settled(code, w, x)
      PROVE  n \in G
  <2>. DEFINE h == [a \in Arguments(code) |-> Visit(code, w, a)]
  <2>1. ASSUME NEW a \in Upto(code, b, n) PROVE Settled(code, h, a)
    <3>1. a \in Arguments(code) BY DEF Upto
    <3>2. Agree(code, b, w, h, a) BY <1>2, <3>1 DEF Settled, Upto, Agree
    <3>3. h[a] = Visit(code, w, a) BY <3>1
    <3>. HIDE DEF h, G, Works
    <3>4. Visit(code, w, a) = Visit(code, h, a) /\ Grown(code, a[3], Visit(code, h, a))
      BY <1>1, <3>1, <3>2, VisitDepends
    <3>. QED BY <3>3, <3>4 DEF Settled
  <2>. HIDE DEF h
  <2>. QED BY <2>1
<1>3. 0 \in G
  <2>. DEFINE w == [a \in Arguments(code) |-> 0]
  <2>. HIDE DEF G, w
  <2>1. \A a \in Arguments(code) : a[4] \in DOMAIN Bases(code, a[1]) => Burden(code, b, a) > 0
    <3>. SUFFICES ASSUME NEW a \in Arguments(code), a[4] \in DOMAIN Bases(code, a[1])
                  PROVE  Burden(code, b, a) > 0
      OBVIOUS
    <3>. DEFINE x == <<a[1], a[2], a[3], a[4] - 1>>
    <3>1. a[3] \in Caches(code) BY DEF Arguments
    <3>2. Burden(code, b, x) < Burden(code, b, a) /\ Burden(code, b, a) \in Nat
      BY <1>1, <3>1, BurdenFalls
    <3>3. Burden(code, b, a) # 0
      <4>1. Cardinality(Classes(code) \ a[2]) \in Nat /\ a[4] \in Nat /\ a[4] # 0
        <5>1. a[1] \in Classes(code) /\ a[2] \in SUBSET Classes(code) /\ a[4] \in Nat
          BY DEF Arguments
        <5>2. DOMAIN Bases(code, a[1]) = 1..Len(Bases(code, a[1])) /\ Len(Bases(code, a[1])) \in Nat
          BY <5>1, BasesAreClasses
        <5>3. Classes(code) \ a[2] \in SUBSET Classes(code) OBVIOUS
        <5>4. IsFiniteSet(Classes(code) \ a[2]) BY <5>3, ClassesAreFew, FS_Subset
        <5>. QED BY <5>1, <5>2, <5>4, FS_CardinalityType
      <4>2. Cardinality(Classes(code) \ a[2]) * (b + 1) \in Nat BY <4>1
      <4>. QED BY <4>1, <4>2 DEF Burden
    <3>. QED BY <3>2, <3>3
  <2>2. \A a \in Arguments(code) : a[4] \in DOMAIN Bases(code, a[1]) =>
          ~(Burden(code, b, a) <= 0)
    <3>1. \A a \in Arguments(code) : a[4] \in DOMAIN Bases(code, a[1]) => Burden(code, b, a) \in Nat
      BY <1>1, BurdenFalls DEF Arguments
    <3>. QED BY <2>1, <3>1
  <2>. QED BY <1>2, <2>2
<1>4. ASSUME NEW n \in Nat, n \in G PROVE n + 1 \in G
  <2>1. PICK w : Works(n, w) BY <1>4
  <2>2. ASSUME NEW a \in Arguments(code), a[4] \in DOMAIN Bases(code, a[1]),
               NEW x \in Arguments(code),
               Burden(code, b, x) < Burden(code, b, a), Burden(code, b, a) <= n + 1
        PROVE  Settled(code, w, x)
    <3>1. Burden(code, b, a) \in Nat BY <1>1, <2>2, BurdenFalls DEF Arguments
    <3>2. x[4] \in DOMAIN Bases(code, x[1]) => Burden(code, b, x) \in Nat
      BY <1>1, BurdenFalls DEF Arguments
    <3>3. x \in Upto(code, b, n) BY <2>2, <3>1, <3>2 DEF Upto
    <3>. QED BY <2>1, <3>3
  <2>. HIDE DEF G, Works
  <2>. QED BY <1>2, <2>2
<1>5. Nat \subseteq G
  <2>. HIDE DEF G
  <2>. QED BY <1>3, <1>4, NaturalInduction
<1>6. PICK most \in Nat : \A a \in Arguments(code) : a \in Upto(code, b, most)
  BY <1>1, BurdenIsBounded
<1>8. PICK w : \A a \in Arguments(code) : Settled(code, w, a)
  <2>1. most \in G BY <1>5
  <2>. QED BY <1>6, <2>1
<1>. DEFINE h == [a \in Arguments(code) |-> w[a]]
<1>9. \A a \in Arguments(code) : h[a] = Visit(code, h, a)
  <2>. SUFFICES ASSUME NEW a \in Arguments(code) PROVE h[a] = Visit(code, h, a) OBVIOUS
  <2>1. Agree(code, b, w, h, a) BY <1>8 DEF Settled, Agree
  <2>2. h[a] = Visit(code, w, a) BY <1>8 DEF Settled
  <2>. HIDE DEF h
  <2>. QED BY <1>1, <2>1, <2>2, VisitDepends
<1>10. h = [a \in Arguments(code) |-> Visit(code, h, a)]
  BY <1>9
<1>. QED BY <1>10

\* What holds of arguments when it holds of all lighter ones holds of all.
LEMMA BurdenInduction ==
  ASSUME NEW code, IsCodeBase(code), NEW b \in Nat,
         \A c \in Classes(code) : Len(Bases(code, c)) <= b, NEW G,
         \A x \in Arguments(code) :
           (x[4] \in DOMAIN Bases(code, x[1]) =>
              \A y \in Arguments(code) : Burden(code, b, y) < Burden(code, b, x) => y \in G)
           => x \in G
  PROVE  \A x \in Arguments(code) : x \in G
<1>. DEFINE N == {n \in Nat : \A x \in Upto(code, b, n) : x \in G}
<1>1. \A x \in Arguments(code) : x[4] \in DOMAIN Bases(code, x[1]) => Burden(code, b, x) \in Nat
  BY BurdenFalls DEF Arguments
<1>2. 0 \in N
  <2>. SUFFICES ASSUME NEW x \in Upto(code, b, 0) PROVE x \in G OBVIOUS
  <2>1. x \in Arguments(code) BY DEF Upto
  <2>2. x[4] \notin DOMAIN Bases(code, x[1])
    <3>. SUFFICES ASSUME x[4] \in DOMAIN Bases(code, x[1]) PROVE FALSE OBVIOUS
    <3>. DEFINE y == <<x[1], x[2], x[3], x[4] - 1>>
    <3>1. x[3] \in Caches(code) BY <2>1 DEF Arguments
    <3>2. y \in Arguments(code) /\ Burden(code, b, y) < Burden(code, b, x)
      BY <2>1, <3>1, BurdenFalls
    <3>3. Burden(code, b, y) \in Int /\ Burden(code, b, y) >= 0
      <4>1. y[1] = x[1] /\ y[2] = x[2] /\ y[4] = x[4] - 1 OBVIOUS
      <4>2. x[4] - 1 \in Nat
        <5>1. x[1] \in Classes(code) /\ x[4] \in Nat BY <2>1 DEF Arguments
        <5>2. x[4] \in 1..Len(Bases(code, x[1])) BY <5>1, BasesAreClasses
        <5>. QED BY <5>1, <5>2
      <4>3. Cardinality(Classes(code) \ x[2]) \in Nat
        <5>1. Classes(code) \ x[2] \in SUBSET Classes(code) OBVIOUS
        <5>. QED BY <5>1, ClassesAreFew, FS_Subset, FS_CardinalityType
      <4>4. Cardinality(Classes(code) \ x[2]) * (b + 1) \in Nat BY <4>3
      <4>. HIDE DEF y
      <4>. QED BY <4>1, <4>2, <4>4 DEF Burden
    <3>4. Burden(code, b, x) <= 0 /\ Burden(code, b, x) \in Nat BY <1>1, <2>1 DEF Upto
    <3>. QED BY <3>2, <3>3, <3>4
  <2>. QED BY <2>1, <2>2
<1>3. ASSUME NEW n \in Nat, n \in N PROVE n + 1 \in N
  <2>. SUFFICES ASSUME NEW x \in Upto(code, b, n + 1) PROVE x \in G OBVIOUS
  <2>1. x \in Arguments(code) BY DEF Upto
  <2>2. ASSUME x[4] \in DOMAIN Bases(code, x[1]),
               NEW y \in Arguments(code), Burden(code, b, y) < Burden(code, b, x)
        PROVE  y \in G
    <3>1. y \in Upto(code, b, n) BY <1>1, <2>1, <2>2 DEF Upto
    <3>. QED BY <1>3, <3>1
  <2>. QED BY <2>1, <2>2
<1>4. Nat \subseteq N
  <2>. HIDE DEF N
  <2>. QED BY <1>2, <1>3, NaturalInduction
<1>5. PICK most \in Nat : \A x \in Arguments(code) : x \in Upto(code, b, most)
  BY BurdenIsBounded
<1>. QED BY <1>4, <1>5

LEMMA WalksSettle ==
  ASSUME NEW code, IsCodeBase(code), NEW a \in Arguments(code)
  PROVE  Settled(code, Walks(code), a)
<1>. DEFINE w == Walks(code)
            G == {x \in Arguments(code) : Settled(code, w, x)}
<1>1. w = [x \in Arguments(code) |-> Visit(code, w, x)]
  <2>1. w = CHOOSE v : v = [x \in Arguments(code) |-> Visit(code, v, x)]
    BY DEF Walks, Arguments, Visit
  <2>. HIDE DEF w
  <2>. QED BY <2>1, WalkExists
<1>2. \A x \in Arguments(code) : w[x] = Visit(code, w, x)
  <2>. HIDE DEF w
  <2>. QED BY <1>1
<1>. HIDE DEF w
<1>3. PICK b \in Nat : \A c \in Classes(code) : Len(Bases(code, c)) <= b BY BasesAreBounded
<1>4. ASSUME NEW x \in Arguments(code),
             x[4] \in DOMAIN Bases(code, x[1]) =>
               \A y \in Arguments(code) : Burden(code, b, y) < Burden(code, b, x) => y \in G
      PROVE  x \in G
  <2>1. Agree(code, b, w, w, x) BY <1>4 DEF Agree, Settled
  <2>2. Settled(code, w, x) BY <1>2, <1>3, <2>1, VisitDepends DEF Settled
  <2>. QED BY <2>2
<1>5. \A x \in Arguments(code) : x \in G
  <2>. HIDE DEF G
  <2>. QED BY <1>3, <1>4, BurdenInduction
<1>. QED BY <1>5 DEF w

\* A class asked for its depth has one, in the cache that its turn leaves.
LEMMA DepthIsFound ==
  ASSUME NEW code, IsCodeBase(code), NEW c \in Classes(code), NEW cache \in Caches(code)
  PROVE  LET got == Depth(code, Walks(code), c, {}, cache)
         IN Grown(code, cache, got) /\ got.cache[c] # None
<1>. DEFINE w == Walks(code)
<1>. HIDE DEF w
<1>1. ASSUME NEW kept \in Caches(code)
      PROVE  Grown(code, kept, w[<<c, {} \cup {c}, kept, Len(Bases(code, c))>>])
  <2>. DEFINE x == <<c, {} \cup {c}, kept, Len(Bases(code, c))>>
  <2>1. x \in Arguments(code) BY BasesAreClasses DEF Arguments
  <2>2. x[3] = kept OBVIOUS
  <2>. HIDE DEF x
  <2>3. Grown(code, kept, w[x]) BY <2>1, <2>2, WalksSettle DEF Settled, w
  <2>. QED BY <2>3 DEF x
<1>2. Alike(code, w, w, c, {} \cup {c}, Len(Bases(code, c))) BY <1>1 DEF Alike
<1>3. {} \in SUBSET Classes(code) OBVIOUS
<1>. QED BY <1>2, <1>3, DepthDepends DEF w

\* The cache after i of what is parsed have had their turn.
Turn(code, caches, i) ==
  IF i = 0 THEN [c \in Classes(code) |-> None]
  ELSE IF code.order[i] \notin Classes(code) \ code.odd THEN caches[i - 1]
  ELSE Depth(code, Walks(code), code.order[i], {}, caches[i - 1]).cache

LEMMA TurnsExist ==
  ASSUME NEW code, NEW n \in Nat
  PROVE  \E d : d = [i \in 0..n |-> Turn(code, d, i)]
<1>. DEFINE Upon(m, d) == \A i \in 0..n : i <= m => d[i] = Turn(code, d, i)
            G == {m \in Nat : \E d : Upon(m, d)}
<1>1. ASSUME NEW m \in Nat, NEW d, \A i \in 0..n : i < m => d[i] = Turn(code, d, i)
      PROVE  m \in G
  <2>. DEFINE h == [i \in 0..n |-> Turn(code, d, i)]
  <2>1. ASSUME NEW i \in 0..n, i <= m PROVE h[i] = Turn(code, h, i)
    <3>1. h[i] = Turn(code, d, i) OBVIOUS
    <3>2. i # 0 => h[i - 1] = d[i - 1]
      <4>. SUFFICES ASSUME i # 0 PROVE h[i - 1] = d[i - 1] OBVIOUS
      <4>1. i - 1 \in 0..n /\ i - 1 < m BY <2>1
      <4>. QED BY <1>1, <4>1
    <3>. HIDE DEF h
    <3>. QED BY <3>1, <3>2 DEF Turn
  <2>. HIDE DEF h
  <2>. QED BY <2>1
<1>2. 0 \in G
  <2>1. \A i \in 0..n : ~(i < 0) OBVIOUS
  <2>. HIDE DEF G
  <2>. QED BY <1>1, <2>1
<1>3. ASSUME NEW m \in Nat, m \in G PROVE m + 1 \in G
  <2>1. PICK d : Upon(m, d) BY <1>3
  <2>2. \A i \in 0..n : i < m + 1 => d[i] = Turn(code, d, i) BY <2>1
  <2>. HIDE DEF G
  <2>. QED BY <1>1, <2>2
<1>4. Nat \subseteq G
  <2>. HIDE DEF G
  <2>. QED BY <1>2, <1>3, NaturalInduction
<1>5. PICK d : Upon(n, d) BY <1>4
<1>. DEFINE h == [i \in 0..n |-> d[i]]
<1>6. ASSUME NEW i \in 0..n PROVE h[i] = Turn(code, h, i)
  <2>1. d[i] = Turn(code, d, i) BY <1>5
  <2>2. h[i] = d[i] OBVIOUS
  <2>3. i # 0 => h[i - 1] = d[i - 1] OBVIOUS
  <2>. HIDE DEF h
  <2>. QED BY <2>1, <2>2, <2>3 DEF Turn
<1>7. h = [i \in 0..n |-> Turn(code, h, i)] BY <1>6
<1>. QED BY <1>7

\* The last of the turns leaves the depths.
LEMMA DepthsAreTurns ==
  ASSUME NEW code, IsCodeBase(code)
  PROVE  /\ Len(code.order) \in Nat /\ DOMAIN code.order = 1..Len(code.order)
         /\ \E d : /\ \A i \in 0..Len(code.order) : d[i] = Turn(code, d, i)
                  /\ Depths(code) = d[Len(code.order)]
<1>. DEFINE n == Len(code.order)
            d == CHOOSE e : e = [i \in 0..n |-> Turn(code, e, i)]
<1>1. n \in Nat /\ DOMAIN code.order = 1..n
  <2>1. code.order \in Seq(ToSet(code.order)) BY DEF IsCodeBase
  <2>. QED BY <2>1
<1>2. Depths(code) = d[n] BY DEF Depths, Turn
<1>. HIDE DEF n
<1>3. d = [i \in 0..n |-> Turn(code, d, i)] BY <1>1, TurnsExist
<1>4. \A i \in 0..n : d[i] = Turn(code, d, i)
  <2>. HIDE DEF d
  <2>. QED BY <1>3
<1>. HIDE DEF d
<1>. QED BY <1>1, <1>2, <1>4 DEF n

LEMMA DepthsAreNumbers ==
  ASSUME NEW code, IsCodeBase(code), NEW c \in Classes(code), c \notin code.odd
  PROVE  Depths(code)[c] \in Nat
<1>. DEFINE n == Len(code.order)
<1>1. n \in Nat /\ DOMAIN code.order = 1..n BY DepthsAreTurns
<1>2. PICK d : (\A i \in 0..n : d[i] = Turn(code, d, i)) /\ Depths(code) = d[n]
  BY DepthsAreTurns
<1>. HIDE DEF n
<1>. DEFINE Due(i) == {x \in Classes(code) \ code.odd : \E j \in 1..i : code.order[j] = x}
            G == {i \in Nat : i <= n => d[i] \in Caches(code) /\ \A x \in Due(i) : d[i][x] # None}
<1>3. 0 \in G
  <2>1. d[0] = [x \in Classes(code) |-> None] BY <1>1, <1>2 DEF Turn
  <2>2. Due(0) = {} OBVIOUS
  <2>. QED BY <2>1, <2>2 DEF Caches
<1>4. ASSUME NEW m \in Nat, m \in G PROVE m + 1 \in G
  <2>. SUFFICES ASSUME m + 1 <= n
                PROVE  d[m + 1] \in Caches(code) /\ \A x \in Due(m + 1) : d[m + 1][x] # None
    OBVIOUS
  <2>. DEFINE x == code.order[m + 1]
  <2>1. d[m] \in Caches(code) /\ \A y \in Due(m) : d[m][y] # None BY <1>1, <1>4
  <2>2. d[m + 1] = IF x \notin Classes(code) \ code.odd THEN d[m]
                   ELSE Depth(code, Walks(code), x, {}, d[m]).cache
    <3>1. m + 1 \in 0..n /\ m + 1 # 0 /\ (m + 1) - 1 = m BY <1>1
    <3>2. d[m + 1] = Turn(code, d, m + 1) BY <1>2, <3>1
    <3>. QED BY <3>1, <3>2 DEF Turn
  <2>3. Due(m + 1) \subseteq Due(m) \cup ({x} \cap (Classes(code) \ code.odd))
    <3>1. 1..(m + 1) = (1..m) \cup {m + 1} OBVIOUS
    <3>. QED BY <3>1
  <2>. HIDE DEF Due
  <2>4. CASE x \notin Classes(code) \ code.odd BY <2>1, <2>2, <2>3, <2>4
  <2>5. CASE x \in Classes(code) \ code.odd
    <3>. DEFINE got == Depth(code, Walks(code), x, {}, d[m])
    <3>1. Grown(code, d[m], got) /\ got.cache[x] # None
      <4>. HIDE DEF x
      <4>. QED BY <2>1, <2>5, DepthIsFound
    <3>2. d[m + 1] = got.cache BY <2>2, <2>5
    <3>. HIDE DEF got, x
    <3>3. Due(m) \subseteq Classes(code) BY DEF Due
    <3>. QED BY <2>1, <2>3, <3>1, <3>2, <3>3 DEF Grown
  <2>. QED BY <2>4, <2>5
<1>5. n \in G
  <2>. HIDE DEF G
  <2>. QED BY <1>1, <1>3, <1>4, NaturalInduction
<1>6. c \in Due(n)
  <2>1. c \in ToSet(code.order) BY DEF Classes, IsCodeBase
  <2>2. PICK j \in DOMAIN code.order : code.order[j] = c BY <2>1 DEF ToSet
  <2>. QED BY <1>1, <2>2
<1>7. d[n] \in Caches(code) /\ d[n][c] # None
  <2>. HIDE DEF Due
  <2>. QED BY <1>1, <1>5, <1>6
<1>. QED BY <1>2, <1>7 DEF Caches

-----------------------------------------------------------------------------
(***************************************************************************)
(* The vectors of the metrics.                                             *)
(***************************************************************************)
LEMMA CountIsNatural ==
  ASSUME NEW S, IsFiniteSet(S), NEW T \in SUBSET S
  PROVE  IsFiniteSet(T) /\ Cardinality(T) \in Nat /\ Cardinality(T) <= Cardinality(S)
BY FS_Subset, FS_CardinalityType

LEMMA UnionIsFinite ==
  ASSUME NEW S, IsFiniteSet(S), NEW f, \A s \in S : IsFiniteSet(f[s])
  PROVE  IsFiniteSet(UNION {f[s] : s \in S})
<1>. DEFINE parts == {f[s] : s \in S}
<1>1. IsFiniteSet(parts) BY FiniteImage
<1>2. \A T \in parts : IsFiniteSet(T) OBVIOUS
<1>. HIDE DEF parts
<1>3. IsFiniteSet(UNION parts) BY <1>1, <1>2, FS_UNION
<1>. QED BY <1>3 DEF parts

LEMMA OfTwo ==
  ASSUME NEW a \in Int, NEW b \in Int
  PROVE  /\ Max({a, b}) \in {a, b} /\ Max({a, b}) >= a /\ Max({a, b}) >= b
         /\ Min({a, b}) \in {a, b} /\ Min({a, b}) <= a /\ Min({a, b}) <= b
<1>1. \E x \in {a, b} : \A y \in {a, b} : x >= y OBVIOUS
<1>2. \E x \in {a, b} : \A y \in {a, b} : x <= y OBVIOUS
<1>. QED BY <1>1, <1>2 DEF Max, Min

LEMMA WholesAreRatios == \A n \in Nat : Rat(n) \in Ratio BY DEF Rat, Ratio

LEMMA ComplexityIsNatural ==
  ASSUME NEW methods, IsFiniteSet(DOMAIN methods),
         \A i \in DOMAIN methods : methods[i].complexity \in Nat
  PROVE  Complexity(methods) \in Nat
<1>. DEFINE f == [i \in DOMAIN methods |-> methods[i].complexity]
<1>1. IsFiniteSet(DOMAIN f) /\ \A i \in DOMAIN f : f[i] \in Nat OBVIOUS
<1>2. Complexity(methods) = Total(f) BY DEF Complexity
<1>. HIDE DEF f
<1>. QED BY <1>1, <1>2, TotalIsNatural

\* A field is touched by no more methods than there are: the cohesion that
\* lacks is a share.
LEMMA CohesionIsShare ==
  ASSUME NEW methods, IsFiniteSet(DOMAIN methods), NEW fields, IsFiniteSet(fields)
  PROVE  LcomHS(methods, fields) \in Ratio /\ AtMostOne(LcomHS(methods, fields))
<1>. DEFINE m == Cardinality(DOMAIN methods)
            n == Cardinality(fields)
            touched == [f \in fields |-> Touches(methods, f)]
            lack == m * n - Total(touched)
<1>1. m \in Nat /\ n \in Nat BY FS_CardinalityType
<1>2. LcomHS(methods, fields) =
        IF m <= 1 \/ n = 0 THEN Rat(0) ELSE <<Min({lack, (m - 1) * n}), (m - 1) * n>>
  BY DEF LcomHS
<1>3. Total(touched) \in Nat /\ Total(touched) <= m * n
  <2>1. ASSUME NEW f \in fields PROVE touched[f] \in 0..m
    <3>1. {i \in DOMAIN methods : f \in methods[i].fields} \in SUBSET DOMAIN methods OBVIOUS
    <3>2. touched[f] \in Nat /\ touched[f] <= m BY <3>1, CountIsNatural DEF Touches
    <3>. HIDE DEF m, touched
    <3>. QED BY <1>1, <3>2
  <2>2. DOMAIN touched = fields OBVIOUS
  <2>. HIDE DEF m, touched
  <2>. QED BY <1>1, <2>1, <2>2, TotalIsBounded DEF n
<1>. HIDE DEF touched, m, n
<1>4. CASE m <= 1 \/ n = 0
  BY <1>2, <1>4, WholesAreRatios DEF AtMostOne, Leq, Rat
<1>5. CASE ~(m <= 1 \/ n = 0)
  <2>. DEFINE most == (m - 1) * n
  <2>1. m * n \in Nat /\ lack \in Nat BY <1>1, <1>3
  <2>2. most \in Nat \ {0}
    <3>1. m - 1 \in Nat \ {0} /\ n \in Nat \ {0} BY <1>1, <1>5
    <3>2. \A x, y \in Nat \ {0} : x * y \in Nat \ {0} BY SMT
    <3>. QED BY <3>1, <3>2
  <2>. HIDE DEF most, lack
  <2>3. Min({lack, most}) \in Nat /\ Min({lack, most}) <= most
    <3>1. lack \in Int /\ most \in Int BY <2>1, <2>2
    <3>2. Min({lack, most}) \in {lack, most} /\ Min({lack, most}) <= most BY <3>1, OfTwo
    <3>. QED BY <2>1, <2>2, <3>2
  <2>4. LcomHS(methods, fields) = <<Min({lack, most}), most>> BY <1>2, <1>5 DEF most
  <2>. QED BY <2>2, <2>3, <2>4 DEF AtMostOne, Leq, Rat, Ratio
<1>. QED BY <1>4, <1>5

LEMMA LcomIsNatural ==
  ASSUME NEW methods, IsFiniteSet(DOMAIN methods)
  PROVE  Lcom1(methods) \in Nat
<1>. DEFINE D == DOMAIN methods
            pairs == {p \in D \X D : p[1] < p[2]}
            shared == {p \in pairs : methods[p[1]].fields \cap methods[p[2]].fields # {}}
<1>1. IsFiniteSet(D \X D) BY FS_Product
<1>2. pairs \in SUBSET (D \X D) /\ shared \in SUBSET (D \X D) OBVIOUS
<1>3. Cardinality(pairs) \in Nat /\ Cardinality(shared) \in Nat
  <2>. HIDE DEF pairs, shared
  <2>. QED BY <1>1, <1>2, CountIsNatural
<1>4. Lcom1(methods) = Max({0, Cardinality(pairs) - 2 * Cardinality(shared)}) BY DEF Lcom1
<1>. DEFINE most == Cardinality(pairs) - 2 * Cardinality(shared)
<1>. HIDE DEF pairs, shared
<1>5. most \in Int /\ 0 \in Int BY <1>3
<1>. HIDE DEF most
<1>6. Max({0, most}) \in {0, most} /\ Max({0, most}) >= 0 BY <1>5, OfTwo
<1>. QED BY <1>4, <1>5, <1>6 DEF most

Called(code, c) ==
  LET methods == code.class[c].methods IN UNION {methods[i].calls : i \in DOMAIN methods}

LEMMA CountsAreNatural ==
  ASSUME NEW code, IsCodeBase(code), NEW c \in Classes(code)
  PROVE  /\ Subclasses(code, c) \in Nat
         /\ Cardinality(Referenced(code, c)) \in Nat
         /\ Cardinality(Referencing(code, c)) \in Nat
         /\ Cardinality(Called(code, c)) \in Nat
<1>0. IsFiniteSet(Classes(code)) BY ClassesAreFew
<1>1. Subclasses(code, c) \in Nat
  <2>. DEFINE f == [d \in Classes(code) |->
                      Cardinality({i \in DOMAIN Bases(code, d) : Bases(code, d)[i] = c})]
  <2>1. ASSUME NEW d \in Classes(code) PROVE f[d] \in Nat
    <3>1. IsFiniteSet(DOMAIN Bases(code, d)) BY BasesAreClasses, FS_Interval
    <3>2. {i \in DOMAIN Bases(code, d) : Bases(code, d)[i] = c} \in SUBSET DOMAIN Bases(code, d)
      OBVIOUS
    <3>. QED BY <3>1, <3>2, CountIsNatural
  <2>2. DOMAIN f = Classes(code) OBVIOUS
  <2>3. Subclasses(code, c) = Total(f) BY DEF Subclasses
  <2>. HIDE DEF f
  <2>. QED BY <1>0, <2>1, <2>2, <2>3, TotalIsNatural
<1>2. Referenced(code, c) \in SUBSET Classes(code) BY DEF Referenced, Named
<1>3. Referencing(code, c) \in SUBSET Classes(code) BY DEF Referencing
<1>4. Cardinality(Called(code, c)) \in Nat
  <2>. DEFINE k == code.class[c]
              f == [i \in DOMAIN k.methods |-> k.methods[i].calls]
              called == UNION {f[i] : i \in DOMAIN k.methods}
  <2>1. IsFiniteSet(DOMAIN k.methods) /\ \A i \in DOMAIN k.methods : IsFiniteSet(f[i])
    BY DEF IsCodeBase, Classes
  <2>2. called = Called(code, c) BY DEF Called
  <2>3. IsFiniteSet(called)
    <3>. HIDE DEF f, k
    <3>. QED BY <2>1, UnionIsFinite
  <2>. HIDE DEF called
  <2>4. Cardinality(called) \in Nat BY <2>3, FS_CardinalityType
  <2>. QED BY <2>2, <2>4
<1>. QED BY <1>0, <1>1, <1>2, <1>3, <1>4, CountIsNatural

LEMMA VectorIsTyped ==
  ASSUME NEW code, IsCodeBase(code), NEW c \in Classes(code)
  PROVE  /\ Analyse(code)[c] \in [Metrics -> Ratio]
         /\ AtMostOne(Analyse(code)[c].lcom_hs)
<1>. DEFINE k == code.class[c]
            m == Cardinality(DOMAIN k.methods)
            n == Cardinality(k.children)
<1>1. /\ IsFiniteSet(k.fields) /\ IsFiniteSet(DOMAIN k.methods) /\ IsFiniteSet(k.refs)
      /\ IsFiniteSet(k.children)
      /\ \A i \in DOMAIN k.methods : k.methods[i].complexity \in Nat
  BY DEF IsCodeBase, Classes
<1>2. /\ m \in Nat /\ n \in Nat
      /\ Cardinality(k.fields) \in Nat /\ Cardinality(k.refs) \in Nat
  BY <1>1, FS_CardinalityType
<1>3. Rat(0) \in Ratio /\ AtMostOne(Rat(0)) BY DEF Rat, Ratio, AtMostOne, Leq
<1>4. CASE c \in code.odd
  <2>1. Analyse(code)[c] = Defaults(code, c) BY <1>4 DEF Analyse
  <2>2. Max({1, n}) \in Nat
    <3>1. n \in Nat BY <1>2
    <3>. HIDE DEF n, m, k
    <3>. QED BY <3>1, OfTwo
  <2>. DEFINE wmc == Rat(Max({1, n}))
              methods == Rat(n)
              fields == Rat(Cardinality(k.fields))
              cbo == Rat(Cardinality(k.refs))
  <2>3. wmc \in Ratio /\ methods \in Ratio /\ fields \in Ratio /\ cbo \in Ratio
    <3>. HIDE DEF n, k
    <3>. QED BY <1>2, <2>2, WholesAreRatios
  <2>4. Defaults(code, c) =
          [x \in Metrics |-> CASE x = "wmc"     -> wmc
                               [] x = "methods" -> methods
                               [] x = "fields"  -> fields
                               [] x = "cbo"     -> cbo
                               [] OTHER         -> Rat(0)]
    BY DEF Defaults
  <2>. HIDE DEF wmc, methods, fields, cbo, n, k
  <2>5. \A x \in Metrics : Defaults(code, c)[x] \in Ratio
    BY <1>3, <2>3, <2>4 DEF Metrics
  <2>6. Defaults(code, c)["lcom_hs"] = Rat(0) BY <2>4 DEF Metrics
  <2>. QED BY <1>3, <2>1, <2>4, <2>5, <2>6
<1>5. CASE c \notin code.odd
  <2>. DEFINE vector == Computed(code, Depths(code), c)
              total == Complexity(k.methods)
              calls == Cardinality(UNION {k.methods[i].calls : i \in DOMAIN k.methods})
  <2>1. Analyse(code)[c] = vector BY <1>5 DEF Analyse
  <2>2. total \in Nat
    <3>. HIDE DEF k
    <3>. QED BY <1>1, ComplexityIsNatural
  <2>3. calls \in Nat
    <3>1. calls = Cardinality(Called(code, c)) BY DEF Called
    <3>. HIDE DEF calls
    <3>. QED BY <3>1, CountsAreNatural
  <2>4. Len(k.bases) \in Nat
    <3>1. k.bases \in Seq(ToSet(k.bases)) BY DEF IsCodeBase, Classes
    <3>. QED BY <3>1
  <2>5. LcomHS(k.methods, k.fields) \in Ratio /\ AtMostOne(LcomHS(k.methods, k.fields))
    <3>. HIDE DEF k
    <3>. QED BY <1>1, CohesionIsShare
  <2>6. Lcom1(k.methods) \in Nat
    <3>. HIDE DEF k
    <3>. QED BY <1>1, LcomIsNatural
  <2>7. /\ vector.wmc = Rat(total) /\ vector.methods = Rat(m)
        /\ vector.fields = Rat(Cardinality(k.fields))
        /\ vector.dit = Rat(Depths(code)[c]) /\ vector.noc = Rat(Subclasses(code, c))
        /\ vector.cbo = Rat(Cardinality(Referenced(code, c)))
        /\ vector.fan_in = Rat(Cardinality(Referencing(code, c)))
        /\ vector.rfc = Rat(m + calls) /\ vector.lcom1 = Rat(Lcom1(k.methods))
        /\ vector.lcom_hs = LcomHS(k.methods, k.fields)
        /\ vector.complexity = IF DOMAIN k.methods = {} THEN Rat(0) ELSE <<total, m>>
        /\ vector.bases = Rat(Len(k.bases))
    BY DEF Computed
  <2>8. vector = [x \in Metrics |-> vector[x]] BY DEF Computed, Metrics
  <2>9. (IF DOMAIN k.methods = {} THEN Rat(0) ELSE <<total, m>>) \in Ratio
    <3>1. DOMAIN k.methods # {} => m # 0 BY <1>1, FS_EmptySet
    <3>. HIDE DEF m, total, k
    <3>. QED BY <1>2, <1>3, <2>2, <3>1 DEF Ratio
  <2>10. /\ Rat(total) \in Ratio /\ Rat(m) \in Ratio /\ Rat(Cardinality(k.fields)) \in Ratio
         /\ Rat(Depths(code)[c]) \in Ratio /\ Rat(Subclasses(code, c)) \in Ratio
         /\ Rat(Cardinality(Referenced(code, c))) \in Ratio
         /\ Rat(Cardinality(Referencing(code, c))) \in Ratio
         /\ Rat(m + calls) \in Ratio /\ Rat(Lcom1(k.methods)) \in Ratio
         /\ Rat(Len(k.bases)) \in Ratio
    <3>1. m + calls \in Nat
      <4>. HIDE DEF m, calls
      <4>. QED BY <1>2, <2>3
    <3>. HIDE DEF m, calls, total, k
    <3>. QED BY <1>2, <1>5, <2>2, <2>4, <2>6, <3>1, CountsAreNatural, DepthsAreNumbers,
                WholesAreRatios
  <2>. HIDE DEF vector, m, calls, total, k
  <2>11. \A x \in Metrics : vector[x] \in Ratio
    BY <2>5, <2>7, <2>9, <2>10 DEF Metrics
  <2>. QED BY <2>1, <2>5, <2>7, <2>8, <2>11
<1>. QED BY <1>4, <1>5

LEMMA AnalyseIsTyped ==
  ASSUME NEW code, IsCodeBase(code)
  PROVE  /\ DOMAIN Analyse(code) = Classes(code) /\ AreVectors(Analyse(code))
         /\ Analyse(code) \in [Classes(code) -> [Metrics -> Ratio]]
         /\ \A c \in Classes(code) : AtMostOne(Analyse(code)[c].lcom_hs)
<1>1. DOMAIN Analyse(code) = Classes(code)
      /\ Analyse(code) = [c \in Classes(code) |-> Analyse(code)[c]]
  BY DEF Analyse
<1>. QED BY <1>1, VectorIsTyped, ClassesAreFew DEF AreVectors

-----------------------------------------------------------------------------
(***************************************************************************)
(* The parser.  A text grows by one statement at a time.                   *)
(***************************************************************************)
IsText(t) ==
  /\ t \in Seq(ToSet(t))
  /\ \A i \in DOMAIN t : IsStatement(t[i])

LEMMA SequenceIsFew ==
  ASSUME NEW s, s \in Seq(ToSet(s))
  PROVE  /\ Len(s) \in Nat /\ DOMAIN s = 1..Len(s)
         /\ IsFiniteSet(DOMAIN s) /\ IsFiniteSet(ToSet(s))
<1>1. Len(s) \in Nat /\ DOMAIN s = 1..Len(s) OBVIOUS
<1>2. IsFiniteSet(DOMAIN s) BY <1>1, FS_Interval
<1>3. ToSet(s) = {s[i] : i \in DOMAIN s} BY DEF ToSet
<1>. QED BY <1>1, <1>2, <1>3, FiniteImage

LEMMA SequenceOfMap ==
  ASSUME NEW s, s \in Seq(ToSet(s)), NEW f, f = [i \in DOMAIN s |-> f[i]]
  PROVE  f \in Seq(ToSet(f))
<1>1. DOMAIN s = 1..Len(s) /\ Len(s) \in Nat BY SequenceIsFew
<1>2. \A i \in DOMAIN s : f[i] \in ToSet(f) BY DEF ToSet
<1>3. f \in [1..Len(s) -> ToSet(f)] BY <1>1, <1>2
<1>. QED BY <1>1, <1>3

LEMMA BranchesAreNatural ==
  ASSUME NEW s, IsStatement(s)
  PROVE  Branches(s) \in Nat
<1>. DEFINE f == [k \in DOMAIN s.filters |-> 1 + s.filters[k]]
            more == Max({s.ands - 1, 0})
            one == IF s.kind \in {"if", "loop", "handler", "assert", "case"} THEN 1 ELSE 0
<1>1. s.ands \in Nat /\ s.ternaries \in Nat /\ s.filters \in Seq(Nat) BY DEF IsStatement
<1>2. more \in Nat
  <2>1. s.ands - 1 \in Int /\ 0 \in Int BY <1>1
  <2>2. more \in {s.ands - 1, 0} /\ more >= 0 BY <2>1, OfTwo
  <2>. HIDE DEF more
  <2>. QED BY <2>1, <2>2
<1>3. IsFiniteSet(DOMAIN f)
  <2>1. DOMAIN f = 1..Len(s.filters) /\ Len(s.filters) \in Nat BY <1>1
  <2>. HIDE DEF f
  <2>. QED BY <2>1, FS_Interval
<1>4. \A k \in DOMAIN f : f[k] \in Nat BY <1>1
<1>5. Branches(s) = one + s.ternaries + more + Total(f) BY DEF Branches
<1>. HIDE DEF f, more
<1>6. Total(f) \in Nat BY <1>3, <1>4, TotalIsNatural
<1>7. one \in Nat OBVIOUS
<1>. HIDE DEF one
<1>. QED BY <1>1, <1>2, <1>5, <1>6, <1>7

LEMMA WalkIsFew ==
  ASSUME NEW t, IsText(t), NEW i
  PROVE  Walk(t, i) \subseteq DOMAIN t /\ IsFiniteSet(Walk(t, i))
<1>1. Walk(t, i) \in SUBSET DOMAIN t BY DEF Walk
<1>2. IsFiniteSet(DOMAIN t) BY SequenceIsFew DEF IsText
<1>. QED BY <1>1, <1>2, FS_Subset

LEMMA CyclomaticIsNatural ==
  ASSUME NEW t, IsText(t), NEW i
  PROVE  CyclomaticComplexity(t, i) \in Nat
<1>. DEFINE f == [j \in Walk(t, i) |-> Branches(t[j])]
<1>1. DOMAIN f = Walk(t, i) /\ \A j \in DOMAIN f : f[j] \in Nat
  BY WalkIsFew, BranchesAreNatural DEF IsText
<1>2. CyclomaticComplexity(t, i) = 1 + Total(f) BY DEF CyclomaticComplexity
<1>. HIDE DEF f
<1>3. Total(f) \in Nat BY <1>1, WalkIsFew, TotalIsNatural
<1>. QED BY <1>2, <1>3

LEMMA UsesAreFew ==
  ASSUME NEW t, IsText(t), NEW S \in SUBSET DOMAIN t
  PROVE  /\ IsFiniteSet(S)
         /\ IsFiniteSet(UNION {ToSet(t[j].uses) : j \in S})
         /\ IsFiniteSet(UNION {ToSet(t[j].decorators) : j \in S})
         /\ \A u \in UNION {ToSet(t[j].uses) : j \in S} : u.chain \in Seq(ToSet(u.chain)) \ {<<>>}
<1>1. IsFiniteSet(S)
  <2>1. IsFiniteSet(DOMAIN t) BY SequenceIsFew DEF IsText
  <2>. QED BY <2>1, FS_Subset
<1>. DEFINE f == [j \in S |-> ToSet(t[j].uses)]
            g == [j \in S |-> ToSet(t[j].decorators)]
<1>2. \A j \in S : IsFiniteSet(f[j]) /\ IsFiniteSet(g[j])
  BY SequenceIsFew DEF IsText, IsStatement
<1>3. /\ UNION {ToSet(t[j].uses) : j \in S} = UNION {f[j] : j \in S}
      /\ UNION {ToSet(t[j].decorators) : j \in S} = UNION {g[j] : j \in S}
  OBVIOUS
<1>4. IsFiniteSet(UNION {f[j] : j \in S}) /\ IsFiniteSet(UNION {g[j] : j \in S})
  <2>. HIDE DEF f, g
  <2>. QED BY <1>1, <1>2, UnionIsFinite
<1>5. \A u \in UNION {ToSet(t[j].uses) : j \in S} : u.chain \in Seq(ToSet(u.chain)) \ {<<>>}
  BY DEF IsText, IsStatement
<1>6. /\ IsFiniteSet(UNION {ToSet(t[j].uses) : j \in S})
      /\ IsFiniteSet(UNION {ToSet(t[j].decorators) : j \in S})
  <2>. HIDE DEF f, g
  <2>. QED BY <1>3, <1>4
<1>. QED BY <1>1, <1>5, <1>6

LEMMA NamesAreFew ==
  ASSUME NEW t, IsText(t), NEW i
  PROVE  /\ IsFiniteSet(ReferencedNames(t, i))
         /\ IsFiniteSet(CalledNames(t, i))
         /\ IsFiniteSet(AssignedSelfAttributes(t, i))
<1>. DEFINE uses == Uses(t, i)
            decorators == UNION {ToSet(t[j].decorators) : j \in Walk(t, i)}
            chain == [u \in uses |-> ToSet(u.chain)]
            chains == UNION {chain[u] : u \in uses}
<1>1. /\ IsFiniteSet(uses) /\ IsFiniteSet(decorators)
      /\ \A u \in uses : u.chain \in Seq(ToSet(u.chain))
  <2>1. Walk(t, i) \in SUBSET DOMAIN t BY WalkIsFew
  <2>. QED BY <2>1, UsesAreFew DEF Uses
<1>2. ReferencedNames(t, i) = chains \cup decorators
  <2>1. ReferencedNames(t, i) = (UNION {ToSet(u.chain) : u \in uses}) \cup decorators
    BY DEF ReferencedNames
  <2>2. {ToSet(u.chain) : u \in uses} = {chain[u] : u \in uses}
    <3>. HIDE DEF uses
    <3>. QED OBVIOUS
  <2>. HIDE DEF uses, decorators, chain
  <2>. QED BY <2>1, <2>2
<1>3. \A u \in uses : IsFiniteSet(chain[u])
  <2>. HIDE DEF uses
  <2>. QED BY <1>1, SequenceIsFew
<1>. HIDE DEF decorators
<1>4. IsFiniteSet(chains)
  <2>. HIDE DEF chain, uses
  <2>. QED BY <1>1, <1>3, UnionIsFinite
<1>5. IsFiniteSet(ReferencedNames(t, i))
  <2>. HIDE DEF chains
  <2>. QED BY <1>1, <1>2, <1>4, FS_Union
<1>6. IsFiniteSet(CalledNames(t, i))
  <2>. DEFINE calls == {v \in uses : v.role = "call"}
              last == [u \in calls |-> Last(u.chain)]
  <2>1. calls \in SUBSET uses OBVIOUS
  <2>2. CalledNames(t, i) = {last[u] : u \in calls} BY DEF CalledNames
  <2>. HIDE DEF last, calls, uses
  <2>3. IsFiniteSet(calls) BY <1>1, <2>1, FS_Subset
  <2>. QED BY <2>2, <2>3, FiniteImage
<1>7. IsFiniteSet(AssignedSelfAttributes(t, i))
  <2>. DEFINE stores == {v \in uses : OnReceiver(v) /\ Len(v.chain) = 2 /\ v.role = "store"}
              name == [u \in stores |-> u.chain[2]]
  <2>1. stores \in SUBSET uses OBVIOUS
  <2>2. AssignedSelfAttributes(t, i) = {name[u] : u \in stores} BY DEF AssignedSelfAttributes
  <2>. HIDE DEF name, stores, uses
  <2>3. IsFiniteSet(stores) BY <1>1, <2>1, FS_Subset
  <2>. QED BY <2>2, <2>3, FiniteImage
<1>. QED BY <1>5, <1>6, <1>7

LEMMA FieldsAreFew ==
  ASSUME NEW t, IsText(t), NEW c
  PROVE  IsFiniteSet(ClassFields(t, c))
<1>. DEFINE body == Kids(t, c, "body")
            assigns == {j \in body : t[j].kind = "assign"}
            defs == {j \in body : t[j].kind = "def"}
            own == UNION {ToSet(t[i].uses) : i \in assigns}
            stores == {v \in own : v.role = "store" /\ Len(v.chain) = 1}
            name == [u \in stores |-> u.chain[1]]
            assigned == [i \in defs |-> AssignedSelfAttributes(t, i)]
<1>1. body \in SUBSET DOMAIN t BY DEF Kids
<1>2. ClassFields(t, c) = {name[u] : u \in stores} \cup UNION {assigned[i] : i \in defs}
  BY DEF ClassFields
<1>3. assigns \in SUBSET DOMAIN t /\ defs \in SUBSET DOMAIN t BY <1>1
<1>4. IsFiniteSet(own) /\ IsFiniteSet(defs)
  <2>. HIDE DEF assigns, defs
  <2>. QED BY <1>3, UsesAreFew
<1>5. \A i \in defs : IsFiniteSet(assigned[i])
  <2>1. \A i \in defs : IsFiniteSet(AssignedSelfAttributes(t, i)) BY NamesAreFew
  <2>. HIDE DEF defs
  <2>. QED BY <2>1
<1>6. stores \in SUBSET own OBVIOUS
<1>. HIDE DEF name, stores, own, defs, assigned
<1>7. IsFiniteSet(stores) BY <1>4, <1>6, FS_Subset
<1>8. IsFiniteSet({name[u] : u \in stores}) BY <1>7, FiniteImage
<1>9. IsFiniteSet(UNION {assigned[i] : i \in defs}) BY <1>4, <1>5, UnionIsFinite
<1>. QED BY <1>2, <1>8, <1>9, FS_Union

\* What the parser makes of a text is a code base.
LEMMA ParsedIsCodeBase ==
  ASSUME NEW t, IsText(t)
  PROVE  IsCodeBase(Parsed(t))
<1>. DEFINE code == Parsed(t)
            declared == {j \in Entities(t) : t[j].kind = "class"}
<1>1. t \in Seq(ToSet(t)) /\ IsFiniteSet(DOMAIN t) BY SequenceIsFew DEF IsText
<1>2. Entities(t) \subseteq DOMAIN t BY DEF Entities
<1>3. declared \in SUBSET DOMAIN t BY <1>2
<1>4. /\ code.order = [i \in DOMAIN t |-> i]
      /\ DOMAIN code.class = declared
  BY DEF Parsed
<1>5. ASSUME NEW c \in declared
      PROVE  LET k == code.class[c]
             IN /\ k.bases = [i \in DOMAIN t[c].uses |-> Last(t[c].uses[i].chain)]
                /\ k.refs = ReferencedNames(t, c) /\ k.fields = ClassFields(t, c)
                /\ k.children = ChildrenOf(t, c)
                /\ DOMAIN k.methods = MethodsOf(t, c)
                /\ \A j \in MethodsOf(t, c) :
                     /\ k.methods[j].calls = CalledNames(t, Recorded(t, j))
                     /\ k.methods[j].complexity = CyclomaticComplexity(t, Recorded(t, j))
  BY DEF Parsed
<1>. HIDE DEF code, declared
<1>6. code.order \in Seq(ToSet(code.order))
  <2>1. code.order = [i \in DOMAIN t |-> code.order[i]] BY <1>4
  <2>. QED BY <1>1, <2>1, SequenceOfMap
<1>7. IsFiniteSet(DOMAIN code.class) BY <1>1, <1>3, <1>4, FS_Subset
<1>8. DOMAIN code.class \subseteq ToSet(code.order)
  <2>1. ToSet(code.order) = DOMAIN t BY <1>4 DEF ToSet
  <2>. QED BY <1>3, <1>4, <2>1
<1>9. None \notin DOMAIN code.class
  <2>1. DOMAIN t \subseteq Nat BY <1>1
  <2>. QED BY <1>3, <1>4, <2>1, StudyAssumption
<1>10. ASSUME NEW c \in declared
      PROVE  LET k == code.class[c]
             IN /\ k.bases \in Seq(ToSet(k.bases))
                /\ IsFiniteSet(k.refs) /\ IsFiniteSet(k.fields) /\ IsFiniteSet(DOMAIN k.methods)
                /\ IsFiniteSet(k.children)
                /\ \A j \in DOMAIN k.methods :
                     IsFiniteSet(k.methods[j].calls) /\ k.methods[j].complexity \in Nat
  <2>. DEFINE k == code.class[c]
  <2>1. t[c].uses \in Seq(ToSet(t[c].uses)) BY <1>3 DEF IsText, IsStatement
  <2>2. k.bases = [i \in DOMAIN t[c].uses |-> k.bases[i]] BY <1>5
  <2>3. /\ k.refs = ReferencedNames(t, c) /\ k.fields = ClassFields(t, c)
        /\ k.children = ChildrenOf(t, c) /\ DOMAIN k.methods = MethodsOf(t, c)
        /\ \A j \in MethodsOf(t, c) :
             /\ k.methods[j].calls = CalledNames(t, Recorded(t, j))
             /\ k.methods[j].complexity = CyclomaticComplexity(t, Recorded(t, j))
    BY <1>5
  <2>. HIDE DEF k
  <2>4. k.bases \in Seq(ToSet(k.bases)) BY <2>1, <2>2, SequenceOfMap
  <2>5. IsFiniteSet(k.refs) /\ IsFiniteSet(k.fields) BY <2>3, NamesAreFew, FieldsAreFew
  <2>6. IsFiniteSet(DOMAIN k.methods) /\ IsFiniteSet(k.children)
    <3>1. MethodsOf(t, c) \in SUBSET DOMAIN t BY <1>2 DEF MethodsOf
    <3>2. ChildrenOf(t, c) \in SUBSET DOMAIN t BY <1>2 DEF ChildrenOf
    <3>. QED BY <1>1, <2>3, <3>1, <3>2, FS_Subset
  <2>7. \A j \in DOMAIN k.methods :
          IsFiniteSet(k.methods[j].calls) /\ k.methods[j].complexity \in Nat
    BY <2>3, NamesAreFew, CyclomaticIsNatural
  <2>. QED BY <2>4, <2>5, <2>6, <2>7 DEF k
<1>. QED BY <1>4, <1>6, <1>7, <1>8, <1>9, <1>10 DEF IsCodeBase, code

LEMMA ForeignIsShare ==
  ASSUME NEW t, IsText(t), NEW i
  PROVE  AtMostOne(ForeignAccessRatio(t, i))
<1>. DEFINE Reads(s, mine) == {k \in DOMAIN s.uses : (s.uses[k].chain[1] \in Receivers) = mine}
            Links(j, mine) == [k \in Reads(t[j], mine) |-> Len(t[j].uses[k].chain) - 1]
            sums(mine) == [j \in Walk(t, i) |-> Total(Links(j, mine))]
            foreign == Total(sums(FALSE))
            own == Total(sums(TRUE))
<1>1. ASSUME NEW mine \in BOOLEAN PROVE Total(sums(mine)) \in Nat
  <2>1. ASSUME NEW j \in Walk(t, i) PROVE Total(Links(j, mine)) \in Nat
    <3>. DEFINE f == Links(j, mine)
    <3>1. IsStatement(t[j]) BY WalkIsFew DEF IsText
    <3>2. t[j].uses \in Seq(ToSet(t[j].uses)) BY <3>1 DEF IsStatement
    <3>3. DOMAIN f \in SUBSET DOMAIN t[j].uses OBVIOUS
    <3>4. \A k \in DOMAIN f : f[k] \in Nat
      <4>1. \A k \in DOMAIN t[j].uses : t[j].uses[k] \in ToSet(t[j].uses) BY DEF ToSet
      <4>2. \A k \in DOMAIN f : t[j].uses[k].chain \in Seq(ToSet(t[j].uses[k].chain)) \ {<<>>}
        BY <3>1, <4>1 DEF IsStatement
      <4>3. \A k \in DOMAIN f : Len(t[j].uses[k].chain) \in Nat /\ Len(t[j].uses[k].chain) # 0
        BY <4>2, EmptySeq
      <4>. QED BY <4>3
    <3>. HIDE DEF f
    <3>5. IsFiniteSet(DOMAIN f) BY <3>2, <3>3, SequenceIsFew, FS_Subset
    <3>6. Total(f) \in Nat BY <3>4, <3>5, TotalIsNatural
    <3>. QED BY <3>6 DEF f
  <2>. DEFINE g == sums(mine)
  <2>2. DOMAIN g = Walk(t, i) OBVIOUS
  <2>3. \A j \in DOMAIN g : g[j] \in Nat
    <3>. HIDE DEF Links
    <3>. QED BY <2>1
  <2>. HIDE DEF g
  <2>4. Total(g) \in Nat BY <2>2, <2>3, WalkIsFew, TotalIsNatural
  <2>. QED BY <2>4 DEF g
<1>2. foreign \in Nat /\ own \in Nat
  <2>. HIDE DEF sums
  <2>. QED BY <1>1
<1>3. ForeignAccessRatio(t, i) =
        IF own + foreign = 0 THEN <<0, 1>> ELSE <<foreign, own + foreign>>
  BY DEF ForeignAccessRatio
<1>. HIDE DEF foreign, own
<1>4. CASE own + foreign = 0 BY <1>3, <1>4 DEF AtMostOne, Leq, Rat
<1>5. CASE own + foreign # 0 BY <1>2, <1>3, <1>5 DEF AtMostOne, Leq, Rat
<1>. QED BY <1>4, <1>5

LEMMA TextGrows ==
  ASSUME NEW t, IsText(t), NEW s, IsStatement(s), NEW up, NEW slot
  PROVE  IsText(Append(t, [s EXCEPT !.up = up, !.slot = slot]))
<1>. DEFINE new == [s EXCEPT !.up = up, !.slot = slot]
            S == ToSet(t) \cup {new}
            longer == Append(t, new)
<1>1. IsStatement(new)
  <2>1. /\ DOMAIN new = DOMAIN s /\ new.ands = s.ands /\ new.ternaries = s.ternaries
        /\ new.filters = s.filters /\ new.decorators = s.decorators /\ new.uses = s.uses
        /\ new.kind = s.kind /\ new.params = s.params /\ new.numbers = s.numbers
    BY DEF IsStatement
  <2>. HIDE DEF new
  <2>. QED BY <2>1 DEF IsStatement
<1>. HIDE DEF new
<1>2. t \in Seq(S)
  <2>1. t \in Seq(ToSet(t)) BY DEF IsText
  <2>2. ToSet(t) \subseteq S OBVIOUS
  <2>. HIDE DEF S
  <2>. QED BY <2>1, <2>2
<1>3. /\ longer \in Seq(S) /\ Len(longer) = Len(t) + 1 /\ Len(t) \in Nat
      /\ \A i \in 1..Len(t) : longer[i] = t[i]
      /\ longer[Len(t) + 1] = new
  <2>1. new \in S OBVIOUS
  <2>. HIDE DEF S
  <2>. QED BY <1>2, <2>1
<1>. HIDE DEF longer, S
<1>4. longer \in Seq(ToSet(longer))
  <2>1. longer = [i \in DOMAIN longer |-> longer[i]] /\ DOMAIN longer = 1..(Len(t) + 1) BY <1>3
  <2>2. \A i \in DOMAIN longer : longer[i] \in ToSet(longer) BY DEF ToSet
  <2>3. longer \in [1..(Len(t) + 1) -> ToSet(longer)] BY <2>1, <2>2
  <2>. QED BY <1>3, <2>3
<1>5. \A i \in DOMAIN longer : IsStatement(longer[i])
  <2>1. DOMAIN longer = 1..(Len(t) + 1) /\ DOMAIN t = 1..Len(t) BY <1>2, <1>3
  <2>2. \A i \in 1..(Len(t) + 1) : i \in 1..Len(t) \/ i = Len(t) + 1 BY <1>3
  <2>. QED BY <1>1, <1>3, <2>1, <2>2 DEF IsText
<1>. QED BY <1>4, <1>5 DEF IsText, longer, new

-----------------------------------------------------------------------------
(***************************************************************************)
(* Types.                                                                  *)
(***************************************************************************)
\* What is on the screen is what was made of the code base that is there.
FoundIsAnalysed ==
  found # None =>
    /\ IsCodeBase(found.code)
    /\ found.features = Analyse(found.code)
    /\ found.findings = Findings(found.code, found.features, found.mode)

LabelsAreTyped ==
  /\ sheet # None => \A row \in DOMAIN sheet :
       sheet[row] \in {"blank", "present", "absent", "uncertain"}
  /\ labels # None => \A l \in labels : l.label \in {0, 1}
  /\ dataset # None => \A r \in dataset : r.features \in [Metrics -> Ratio]

TypeInv ==
  /\ tree \in [Source -> DOMAIN Content] /\ changes \in 0..MaxChanges
  /\ IsText(text) /\ FoundIsAnalysed /\ LabelsAreTyped

LEMMA TypesBegin == Init => TypeInv
<1>. SUFFICES ASSUME Init PROVE TypeInv OBVIOUS
<1>1. IsText(<<>>)
  <2>1. <<>> \in Seq(ToSet(<<>>)) /\ DOMAIN <<>> = {} OBVIOUS
  <2>. QED BY <2>1 DEF IsText
<1>. QED BY <1>1, StudyAssumption DEF Init, TypeInv, FoundIsAnalysed, LabelsAreTyped

LEMMA ChangesAreCounted ==
  ASSUME changes \in 0..MaxChanges, Change \/ UNCHANGED changes
  PROVE  changes' \in 0..MaxChanges
BY StudyAssumption DEF Change

LEMMA TypesRest ==
  ASSUME TypeInv, UNCHANGED <<text, tree, found, sheet, labels, dataset>>,
         Change \/ UNCHANGED changes
  PROVE  TypeInv'
BY ChangesAreCounted DEF TypeInv, FoundIsAnalysed, LabelsAreTyped

LEMMA EditIsTyped ==
  ASSUME TypeInv, NEW s \in Source, Edit(s)
  PROVE  TypeInv'
<1>1. tree' \in [Source -> DOMAIN Content] BY DEF Edit, TypeInv
<1>2. changes' \in 0..MaxChanges BY ChangesAreCounted DEF Edit, TypeInv
<1>3. found' = None /\ UNCHANGED <<text, sheet, labels, dataset>> BY DEF Edit, files
<1>. QED BY <1>1, <1>2, <1>3 DEF TypeInv, FoundIsAnalysed, LabelsAreTyped

LEMMA WriteIsTyped ==
  ASSUME TypeInv, Write
  PROVE  TypeInv'
<1>1. PICK s \in Lines : \E p \in Places(text, s.kind) :
                           text' = Append(text, [s EXCEPT !.up = p[1], !.slot = p[2]])
  BY DEF Write
<1>2. PICK p \in Places(text, s.kind) :
        text' = Append(text, [s EXCEPT !.up = p[1], !.slot = p[2]])
  BY <1>1
<1>3. IsText(text) /\ IsStatement(s) BY StudyAssumption DEF TypeInv
<1>. DEFINE up == p[1]
            slot == p[2]
<1>4. text' = Append(text, [s EXCEPT !.up = up, !.slot = slot]) BY <1>2
<1>. HIDE DEF up, slot
<1>5. IsText(Append(text, [s EXCEPT !.up = up, !.slot = slot])) BY <1>3, TextGrows
<1>6. IsText(text') BY <1>4, <1>5
<1>7. UNCHANGED <<tree, found, sheet, labels, dataset, changes>> BY DEF Write, files
<1>8. IsText(text)' BY <1>6 DEF IsText
<1>. QED BY <1>7, <1>8 DEF TypeInv, FoundIsAnalysed, LabelsAreTyped

LEMMA DetectIsTyped ==
  ASSUME TypeInv, Detect
  PROVE  TypeInv'
<1>1. PICK code \in (IF text = <<>> THEN Searched ELSE {Parsed(text)}),
           mode \in (IF text = <<>> THEN Modes ELSE {"absolute"}) :
        found' = [code |-> code, mode |-> mode, features |-> Analyse(code),
                  findings |-> Findings(code, Analyse(code), mode)]
  BY DEF Detect
<1>2. IsCodeBase(code)
  <2>1. CASE text = <<>> BY <2>1, StudyAssumption
  <2>2. CASE text # <<>>
    <3>1. code = Parsed(text) BY <2>2
    <3>. QED BY <3>1, ParsedIsCodeBase DEF TypeInv
  <2>. QED BY <2>1, <2>2
<1>3. /\ found'.code = code /\ found'.features = Analyse(code)
      /\ found'.findings = Findings(code, Analyse(code), found'.mode)
  BY <1>1
<1>4. FoundIsAnalysed' BY <1>2, <1>3 DEF FoundIsAnalysed
<1>5. UNCHANGED <<text, tree, sheet, labels, dataset, changes>> BY DEF Detect, files
<1>. QED BY <1>4, <1>5 DEF TypeInv, LabelsAreTyped, IsText

LEMMA CreateIsTyped ==
  ASSUME TypeInv, NEW sources, Create(sources)
  PROVE  TypeInv'
<1>1. \A row \in DOMAIN sheet' : sheet'[row] = "blank" BY DEF Create, Sheet
<1>2. changes' \in 0..MaxChanges BY ChangesAreCounted DEF Create, Writes, TypeInv
<1>3. found' = None /\ UNCHANGED <<text, tree, labels, dataset>> BY DEF Create
<1>. QED BY <1>1, <1>2, <1>3 DEF TypeInv, FoundIsAnalysed, LabelsAreTyped

LEMMA PrepareIsTyped ==
  ASSUME TypeInv, NEW sources \in SourceSets, Prepare(sources)
  PROVE  TypeInv'
<1>1. ASSUME NEW r \in dataset' PROVE r.features \in [Metrics -> Ratio]
  <2>1. PICK l \in labels :
          r.features = Features[tree[Origin(l.task, sources)]][l.task.class]
    BY DEF Prepare
  <2>. DEFINE s == Origin(l.task, sources)
  <2>2. s # None /\ l.task.class \in Classes(Content[tree[s]]) BY DEF Prepare, Verified
  <2>3. s \in sources BY <2>2 DEF Origin
  <2>4. tree[s] \in DOMAIN Content
    <3>1. s \in Source BY <2>3, StudyAssumption
    <3>. QED BY <3>1 DEF TypeInv
  <2>. HIDE DEF s
  <2>5. IsCodeBase(Content[tree[s]]) BY <2>4, StudyAssumption
  <2>6. Analyse(Content[tree[s]])[l.task.class] \in [Metrics -> Ratio]
    BY <2>2, <2>5, AnalyseIsTyped
  <2>7. r.features = Features[tree[s]][l.task.class] BY <2>1 DEF s
  <2>8. Features[tree[s]] = Analyse(Content[tree[s]]) BY <2>4 DEF Features
  <2>. QED BY <2>6, <2>7, <2>8
<1>2. changes' \in 0..MaxChanges BY ChangesAreCounted DEF Prepare, Writes, TypeInv
<1>3. UNCHANGED <<text, tree, found, sheet, labels>> BY DEF Prepare
<1>. QED BY <1>1, <1>2, <1>3 DEF TypeInv, FoundIsAnalysed, LabelsAreTyped

LEMMA ReviewIsTyped ==
  ASSUME TypeInv, NEW label \in {"present", "absent", "uncertain"}, Review(label)
  PROVE  TypeInv'
<1>1. \A row \in DOMAIN sheet' :
        sheet'[row] \in {"blank", "present", "absent", "uncertain"}
  BY DEF Review, TypeInv, LabelsAreTyped
<1>2. UNCHANGED <<text, tree, found, labels, dataset, changes>> BY DEF Review
<1>. QED BY <1>1, <1>2 DEF TypeInv, FoundIsAnalysed, LabelsAreTyped

LEMMA FinalizeIsTyped ==
  ASSUME TypeInv, Finalize
  PROVE  TypeInv'
<1>1. \A l \in labels' : l.label \in {0, 1} BY DEF Finalize
<1>2. UNCHANGED <<text, tree, found, sheet, dataset, changes>> BY DEF Finalize
<1>. QED BY <1>1, <1>2 DEF TypeInv, FoundIsAnalysed, LabelsAreTyped

LEMMA TypeStep == TypeInv /\ [Next]_vars => TypeInv'
<1>. SUFFICES ASSUME TypeInv, [Next]_vars PROVE TypeInv' OBVIOUS
<1>1. CASE UNCHANGED vars BY <1>1, TypesRest DEF vars, files
<1>2. CASE \E s \in Source : Edit(s) BY <1>2, EditIsTyped
<1>3. CASE Write BY <1>3, WriteIsTyped
<1>4. CASE Detect BY <1>4, DetectIsTyped
<1>5. CASE \E sources \in SourceSets : Create(sources) \/ Prepare(sources)
  BY <1>5, CreateIsTyped, PrepareIsTyped
<1>6. CASE \E label \in {"present", "absent", "uncertain"} : Review(label)
  BY <1>6, ReviewIsTyped
<1>7. CASE Finalize BY <1>7, FinalizeIsTyped
<1>8. CASE \E kinds \in Kinds, share \in Shares : BeginTraining(kinds, share)
  BY <1>8, TypesRest DEF BeginTraining, Writes
<1>9. CASE TakeSmell BY <1>9, TypesRest DEF TakeSmell, files
<1>10. CASE DumpModel BY <1>10, TypesRest DEF DumpModel
<1>11. CASE WriteCard BY <1>11, TypesRest DEF WriteCard
<1>12. CASE EndTraining BY <1>12, TypesRest DEF EndTraining
<1>13. CASE Interrupt BY <1>13, TypesRest DEF Interrupt, files
<1>14. CASE \E kinds \in Kinds : Logo(kinds) BY <1>14, TypesRest DEF Logo, Writes
<1>. QED BY <1>1, <1>2, <1>3, <1>4, <1>5, <1>6, <1>7, <1>8, <1>9, <1>10, <1>11, <1>12,
            <1>13, <1>14 DEF Next

LEMMA TypesHold == Spec => []TypeInv
BY TypesBegin, TypeStep, PTL DEF Spec

LEMMA FindingsAreRated ==
  ASSUME NEW code, NEW features, NEW mode, NEW f \in Findings(code, features, mode)
  PROVE  f.severity \in 1..4
<1>1. PICK g \in Rules \X (DOMAIN features) :
        f = [smell |-> g[1].smell, class |-> g[2],
             severity |-> Severity(g[1], mode, features, g[2])]
  BY DEF Findings
<1>2. f.severity = Severity(g[1], mode, features, g[2]) /\ g[1] \in Rules BY <1>1
<1>. QED BY <1>2, RulesAreLoaded, SeverityIs, SeverityIsBand

\* Every metric is a number that is not negative and has a denominator, and every
\* share is at most one, for any code base the parser can report, cycles of bases,
\* names that are not unique and calculators that raise included.
THEOREM MetricsAreNumbers == Spec => []TypeOK
<1>1. StudyInv /\ TypeInv => TypeOK
  <2>. SUFFICES ASSUME StudyInv, TypeInv PROVE TypeOK OBVIOUS
  <2>1. ASSUME found # None
        PROVE  /\ found.features \in [DOMAIN found.features -> [Metrics -> Ratio]]
               /\ \A f \in found.findings : f.severity \in 1..4
               /\ \A c \in DOMAIN found.features : AtMostOne(found.features[c].lcom_hs)
    BY <2>1, AnalyseIsTyped, FindingsAreRated DEF TypeInv, FoundIsAnalysed
  <2>2. \A i \in DOMAIN text : AtMostOne(ForeignAccessRatio(text, i))
    BY ForeignIsShare DEF TypeInv
  <2>3. job # None => /\ job.results \subseteq DOMAIN models
                      /\ job.split # NoSplit <=> job.left # <<>>
    BY DEF StudyInv, JobIsSound
  <2>. QED BY <2>1, <2>2, <2>3 DEF TypeOK, TypeInv, LabelsAreTyped
<1>. QED BY <1>1, StudyIsSound, TypesHold, PTL

-----------------------------------------------------------------------------
(***************************************************************************)
(* The report of the detector.                                             *)
(***************************************************************************)
LEMMA FindingIsOfRule ==
  ASSUME NEW code, NEW features, NEW mode, NEW rule \in Rules,
         NEW g \in Findings(code, features, mode), g.smell = rule.smell
  PROVE  /\ g.class \in DOMAIN features
         /\ g.severity = Severity(rule, mode, features, g.class)
         /\ Supports(rule, mode)
         /\ Fires(rule, Satisfied(rule, mode, features, g.class))
<1>1. PICK f \in Rules \X (DOMAIN features) :
        /\ Supports(f[1], mode) /\ Fires(f[1], Satisfied(f[1], mode, features, f[2]))
        /\ g = [smell |-> f[1].smell, class |-> f[2],
                severity |-> Severity(f[1], mode, features, f[2])]
  BY DEF Findings
<1>2. f[1] \in Rules /\ f[2] \in DOMAIN features OBVIOUS
<1>3. g.smell = f[1].smell /\ g.class = f[2] /\ g.severity = Severity(f[1], mode, features, f[2])
  BY <1>1
<1>4. f[1] = rule BY <1>2, <1>3, RulesAssumption DEF LoadedRules
<1>. QED BY <1>1, <1>2, <1>3, <1>4

LEMMA FindingExists ==
  ASSUME NEW code, NEW features, NEW mode, NEW rule \in Rules, NEW c \in DOMAIN features,
         Supports(rule, mode), ~Exempt(rule, code.class[c]),
         Fires(rule, Satisfied(rule, mode, features, c))
  PROVE  [smell |-> rule.smell, class |-> c, severity |-> Severity(rule, mode, features, c)]
           \in Findings(code, features, mode)
<1>. DEFINE f == <<rule, c>>
<1>1. f \in Rules \X (DOMAIN features) /\ f[1] = rule /\ f[2] = c OBVIOUS
<1>. HIDE DEF f
<1>. QED BY <1>1 DEF Findings

LEMMA WorseIsReported ==
  ASSUME \A rule \in Rules : BandsRise(rule), found # None, FoundIsAnalysed,
         NEW rule \in Rules, rule.all, NEW g \in found.findings, NEW c \in DOMAIN found.features,
         g.smell = rule.smell, AllWorse(rule, found.features, g.class, c),
         ~Exempt(rule, found.code.class[c])
  PROVE  \E h \in found.findings :
           /\ h.smell = rule.smell /\ h.class = c
           /\ Measured(rule, c) => h.severity >= g.severity
<1>. DEFINE features == found.features
            mode == found.mode
            h == [smell |-> rule.smell, class |-> c, severity |-> Severity(rule, mode, features, c)]
<1>1. /\ AreVectors(features)
      /\ found.findings = Findings(found.code, features, mode)
  BY AnalyseIsTyped DEF FoundIsAnalysed
<1>2. /\ g.class \in DOMAIN features
      /\ g.severity = Severity(rule, mode, features, g.class)
      /\ Supports(rule, mode)
      /\ Fires(rule, Satisfied(rule, mode, features, g.class))
  BY <1>1, FindingIsOfRule
<1>3. Satisfied(rule, mode, features, g.class) = DOMAIN rule.conditions BY <1>2 DEF Fires
<1>4. Satisfied(rule, mode, features, c) = DOMAIN rule.conditions
  <2>1. Satisfied(rule, mode, features, g.class) \subseteq Satisfied(rule, mode, features, c)
    BY <1>1, <1>2, WorseIsSatisfied
  <2>2. Satisfied(rule, mode, features, c) \subseteq DOMAIN rule.conditions BY DEF Satisfied
  <2>. QED BY <1>3, <2>1, <2>2
<1>5. h \in found.findings
  <2>1. Fires(rule, Satisfied(rule, mode, features, c)) BY <1>4 DEF Fires
  <2>. HIDE DEF features, mode
  <2>. QED BY <1>1, <1>2, <2>1, FindingExists DEF features
<1>6. ASSUME Measured(rule, c) PROVE h.severity >= g.severity
  <2>1. \E i \in DOMAIN rule.conditions : Past(rule, mode, features, c, i) # Infinite
    BY <1>6 DEF Measured, Past
  <2>2. Severity(rule, mode, features, g.class) <= Severity(rule, mode, features, c)
    <3>1. BandsRise(rule) OBVIOUS
    <3>. HIDE DEF features, mode
    <3>. QED BY <1>1, <1>2, <1>3, <1>4, <2>1, <3>1, WorseIsMoreSevere DEF features
  <2>3. /\ Severity(rule, mode, features, g.class) \in 1..4
        /\ Severity(rule, mode, features, c) \in 1..4
    BY RulesAreLoaded, SeverityIs, SeverityIsBand
  <2>. QED BY <1>2, <2>2, <2>3
<1>. QED BY <1>5, <1>6

\* The values above the percentile are not within the rank below it.
LEMMA FewAreAbove ==
  ASSUME NEW features, AreVectors(features), NEW rule \in Rules,
         NEW i \in DOMAIN rule.conditions, rule.conditions[i].op = ">",
         rule.conditions[i].percentile # 0, Cardinality(DOMAIN features) >= MinEntities
  PROVE  LET n == Cardinality(DOMAIN features)
         IN Cardinality({c \in DOMAIN features : i \in Satisfied(rule, "percentile", features, c)})
              <= n - 1 - (rule.conditions[i].percentile * (n - 1)) \div 100
<1>. DEFINE C == DOMAIN features
            n == Cardinality(C)
            metric == rule.conditions[i].metric
            q == rule.conditions[i].percentile
            k == (q * (n - 1)) \div 100
            t == Percentile(Values(features, metric), q)
            low == Ranked(features, metric, k)
            above == {c \in C : i \in Satisfied(rule, "percentile", features, c)}
            within == Within(features, metric, low)
<1>1. metric \in Metrics /\ q \in 1..99
  <2>1. metric \in Metrics /\ q \in 0..99 BY RulesAreLoaded
  <2>. QED BY <2>1
<1>2. IsFiniteSet(C) /\ n \in Nat BY FS_CardinalityType DEF AreVectors
<1>3. CASE C = {}
  <2>1. n = 0 BY <1>3, FS_EmptySet
  <2>2. above = {} BY <1>3
  <2>3. Cardinality(above) = 0 BY <2>2, FS_EmptySet
  <2>4. k = -1
    <3>. HIDE DEF n, q
    <3>1. k = (-q) \div 100 BY <1>1, <2>1
    <3>. QED BY <1>1, <3>1
  <2>. HIDE DEF n, k, above
  <2>5. Cardinality(above) <= n - 1 - k BY <2>1, <2>3, <2>4
  <2>. QED BY <2>5 DEF above, k, n
<1>4. CASE C # {}
  <2>1. /\ n \in Nat \ {0} /\ k \in 0..(n - 1) /\ t \in Number /\ Leq(low, t)
    <3>. HIDE DEF metric, q
    <3>. QED BY <1>1, <1>4, PercentileIsAbove
  <2>2. low \in Ratio /\ k < Cardinality(within)
    <3>1. k \in Nat /\ k < n BY <2>1
    <3>. HIDE DEF k, metric
    <3>. QED BY <1>1, <3>1, RankedExists
  <2>3. within \in SUBSET C BY DEF Within
  <2>4. \A c \in above : c \notin within
    <3>. SUFFICES ASSUME NEW c \in above, c \in within PROVE FALSE OBVIOUS
    <3>. DEFINE v == features[c][metric]
    <3>1. Threshold(rule.conditions[i], "percentile", features) = t BY DEF Threshold
    <3>2. Holds(">", v, t) BY <3>1 DEF Satisfied
    <3>3. Less(t, v) BY <3>2 DEF Holds
    <3>4. Leq(v, low) BY DEF Within
    <3>5. v \in Number /\ low \in Number BY <1>1, <2>2, RatiosAreNumbers DEF AreVectors
    <3>. HIDE DEF v, t, low
    <3>6. Leq(v, t) BY <2>1, <3>4, <3>5, LeqTransitive
    <3>. QED BY <3>3, <3>6 DEF Less
  <2>5. above \in SUBSET (C \ within) BY <2>4
  <2>. HIDE DEF within, above, k
  <2>6. IsFiniteSet(C \ within) /\ Cardinality(C \ within) = n - Cardinality(within)
        /\ Cardinality(within) \in Nat
    <3>1. C \cap within = within BY <2>3
    <3>2. IsFiniteSet(within) /\ Cardinality(within) \in Nat
      BY <1>2, <2>3, CountIsNatural
    <3>3. IsFiniteSet(C \ within)
          /\ Cardinality(C \ within) = Cardinality(C) - Cardinality(C \cap within)
      BY <1>2, <3>2, FS_Difference
    <3>. QED BY <3>1, <3>2, <3>3
  <2>7. Cardinality(above) \in Nat /\ Cardinality(above) <= Cardinality(C \ within)
    BY <2>5, <2>6, CountIsNatural
  <2>. HIDE DEF n
  <2>8. Cardinality(above) <= n - 1 - k BY <2>1, <2>2, <2>6, <2>7
  <2>. QED BY <2>8 DEF above, k, n
<1>. QED BY <1>3, <1>4

\* Whatever the values, and however many tie: of two classes the one that is further
\* out is reported with the other and no milder, if the bands of the severities rise
\* with the severity, as those of the default and of the shipped rules do; and a
\* condition "> q-th percentile" is met by no more than the share above q.
THEOREM DetectionIsByValue ==
  (\A rule \in Rules : BandsRise(rule)) => (Spec => []DetectionFollowsValues)
<1>. SUFFICES ASSUME \A rule \in Rules : BandsRise(rule)
              PROVE  Spec => []DetectionFollowsValues
  OBVIOUS
<1>1. TypeInv => DetectionFollowsValues
  <2>. SUFFICES ASSUME TypeInv PROVE DetectionFollowsValues OBVIOUS
  <2>1. WorseIsNotMilder
    <3>. SUFFICES ASSUME found # None,
                         NEW rule \in {r \in Rules : r.all}, NEW g \in found.findings,
                         NEW c \in DOMAIN found.features,
                         g.smell = rule.smell, AllWorse(rule, found.features, g.class, c),
                         ~Exempt(rule, found.code.class[c])
                  PROVE  \E h \in found.findings :
                           /\ h.smell = rule.smell /\ h.class = c
                           /\ Measured(rule, c) => h.severity >= g.severity
      BY DEF WorseIsNotMilder, AllWorse, Worse
    <3>1. rule \in Rules /\ rule.all OBVIOUS
    <3>. QED BY <3>1, WorseIsReported DEF TypeInv
  <2>2. PercentileFlagsAShare
    <3>. SUFFICES ASSUME found # None, found.mode = "percentile",
                         Cardinality(DOMAIN found.features) >= MinEntities,
                         NEW rule \in Rules, NEW i \in DOMAIN rule.conditions,
                         rule.conditions[i].op = ">", rule.conditions[i].percentile # 0
                  PROVE  LET n == Cardinality(DOMAIN found.features)
                         IN Cardinality({c \in DOMAIN found.features :
                              i \in Satisfied(rule, "percentile", found.features, c)})
                              <= n - 1 - (rule.conditions[i].percentile * (n - 1)) \div 100
      BY DEF PercentileFlagsAShare
    <3>1. AreVectors(found.features) BY AnalyseIsTyped DEF TypeInv, FoundIsAnalysed
    <3>. QED BY <3>1, FewAreAbove
  <2>. QED BY <2>1, <2>2 DEF DetectionFollowsValues
<1>. QED BY <1>1, TypesHold, PTL

-----------------------------------------------------------------------------
(***************************************************************************)
(* Coupling: both metrics count the same pairs of classes.                 *)
(***************************************************************************)
Pairs(S, R) == {p \in S \X S : p[2] \in R[p[1]]}

LEMMA SizeOfOne ==
  ASSUME NEW x, NEW R, IsFiniteSet(R)
  PROVE  IsFiniteSet({x} \X R) /\ Cardinality({x} \X R) = Cardinality(R)
<1>1. IsFiniteSet({x}) /\ Cardinality({x}) = 1 BY FS_Singleton
<1>2. IsFiniteSet({x} \X R) /\ Cardinality({x} \X R) = 1 * Cardinality(R) BY <1>1, FS_Product
<1>3. Cardinality(R) \in Nat BY FS_CardinalityType
<1>. QED BY <1>2, <1>3

LEMMA TotalCountsPairs ==
  ASSUME NEW S, IsFiniteSet(S), NEW R \in [S -> SUBSET S],
         NEW f, f = [x \in S |-> Cardinality(R[x])]
  PROVE  Total(f) = Cardinality(Pairs(S, R)) /\ IsFiniteSet(Pairs(S, R))
<1>. DEFINE P(s) == {p \in s \X S : p[2] \in R[p[1]]}
            G == {s \in SUBSET S : Sums(f)[s] = Cardinality(P(s)) /\ IsFiniteSet(P(s))}
<1>0. DOMAIN f = S OBVIOUS
<1>1. ASSUME NEW s \in SUBSET S, \A x \in s : s \ {x} \in G PROVE s \in G
  <2>1. Sums(f)[s] = Adding(f, Sums(f), s) BY <1>0, SumsDefined
  <2>2. CASE s = {}
    <3>1. Sums(f)[s] = 0 BY <2>1, <2>2 DEF Adding
    <3>2. P(s) = {} BY <2>2
    <3>. QED BY <3>1, <3>2, FS_EmptySet
  <2>3. CASE s # {}
    <3>. DEFINE x == AnyOf(s)
                rest == P(s \ {x})
                new == {x} \X R[x]
    <3>1. x \in s /\ x \in S BY <2>3 DEF AnyOf
    <3>2. Sums(f)[s] = f[x] + Sums(f)[s \ {x}] BY <2>1, <2>3 DEF Adding
    <3>3. Sums(f)[s \ {x}] = Cardinality(rest) /\ IsFiniteSet(rest) BY <1>1, <3>1
    <3>4. f[x] = Cardinality(R[x]) /\ R[x] \in SUBSET S BY <3>1
    <3>5. IsFiniteSet(R[x]) BY <3>4, FS_Subset
    <3>6. IsFiniteSet(new) /\ Cardinality(new) = f[x]
      <4>. HIDE DEF x
      <4>. QED BY <3>4, <3>5, SizeOfOne
    <3>7. P(s) = rest \cup new /\ rest \cap new = {}
      <4>. HIDE DEF x
      <4>1. P(s) \subseteq rest \cup new OBVIOUS
      <4>2. rest \cup new \subseteq P(s) BY <3>1, <3>4
      <4>3. rest \cap new = {} OBVIOUS
      <4>. QED BY <4>1, <4>2, <4>3
    <3>. HIDE DEF rest, new, x, P
    <3>8. /\ IsFiniteSet(rest \cup new)
          /\ Cardinality(rest \cup new) = Cardinality(rest) + Cardinality(new) - Cardinality(rest \cap new)
      BY <3>3, <3>6, FS_Union
    <3>9. Cardinality(rest \cap new) = 0 BY <3>7, FS_EmptySet
    <3>10. Cardinality(rest) \in Nat /\ Cardinality(new) \in Nat BY <3>3, <3>6, FS_CardinalityType
    <3>11. Cardinality(P(s)) = f[x] + Sums(f)[s \ {x}] BY <3>3, <3>6, <3>7, <3>8, <3>9, <3>10
    <3>. QED BY <3>2, <3>7, <3>8, <3>11
  <2>. QED BY <2>2, <2>3
<1>2. SUBSET S \subseteq G
  <2>. HIDE DEF G
  <2>. QED BY <1>1, SubsetInduction
<1>3. S \in G BY <1>2
<1>4. P(S) = Pairs(S, R) BY DEF Pairs
<1>. QED BY <1>0, <1>3, <1>4, SumsDefined

\* Pairs, read from either side, are as many.
LEMMA PairsEitherWay ==
  ASSUME NEW S, NEW R, NEW Q, IsFiniteSet(Pairs(S, R)),
         \A x, y \in S : y \in R[x] <=> x \in Q[y]
  PROVE  Cardinality(Pairs(S, Q)) = Cardinality(Pairs(S, R))
<1>. DEFINE swap == [p \in Pairs(S, R) |-> <<p[2], p[1]>>]
<1>1. swap \in [Pairs(S, R) -> Pairs(S, Q)] BY DEF Pairs
<1>2. ASSUME NEW p \in Pairs(S, R), NEW q \in Pairs(S, R), swap[p] = swap[q] PROVE p = q
  BY <1>2 DEF Pairs
<1>3. ASSUME NEW q \in Pairs(S, Q) PROVE \E p \in Pairs(S, R) : swap[p] = q
  <2>1. <<q[2], q[1]>> \in Pairs(S, R) /\ q = <<q[1], q[2]>> BY DEF Pairs
  <2>2. swap[<<q[2], q[1]>>] = q BY <2>1
  <2>. QED BY <2>1, <2>2
<1>4. swap \in Bijection(Pairs(S, R), Pairs(S, Q))
  <2>. HIDE DEF swap
  <2>1. swap \in Injection(Pairs(S, R), Pairs(S, Q)) BY <1>1, <1>2 DEF Injection, IsInjective
  <2>2. swap \in Surjection(Pairs(S, R), Pairs(S, Q)) BY <1>1, <1>3 DEF Surjection
  <2>. QED BY <2>1, <2>2 DEF Bijection
<1>. HIDE DEF swap
<1>5. ExistsBijection(Pairs(S, R), Pairs(S, Q)) BY <1>4 DEF ExistsBijection
<1>. QED BY <1>5, FS_Bijection

\* What all classes reference is as much as what all are referenced by.
LEMMA CouplingBalances ==
  ASSUME NEW code, IsCodeBase(code), code.odd = {}
  PROVE  LET f == Analyse(code)
             All(metric) == Total([c \in DOMAIN f |-> f[c][metric][1]])
         IN All("cbo") = All("fan_in")
<1>. DEFINE S == Classes(code)
            R == [c \in S |-> Referenced(code, c)]
            Q == [c \in S |-> Referencing(code, c)]
            out == [c \in S |-> Cardinality(R[c])]
            in == [c \in S |-> Cardinality(Q[c])]
            f == Analyse(code)
<1>1. IsFiniteSet(S) BY ClassesAreFew
<1>2. R \in [S -> SUBSET S] BY DEF Referenced, Named
<1>3. Q \in [S -> SUBSET S] BY DEF Referencing
<1>4. \A x, y \in S : y \in R[x] <=> x \in Q[y]
  <2>. SUFFICES ASSUME NEW x \in S, NEW y \in S PROVE y \in R[x] <=> x \in Q[y] OBVIOUS
  <2>1. y \in R[x] <=> y # x /\ code.class[y].name \in code.class[x].refs
    BY DEF Referenced, Named
  <2>2. x \in Q[y] <=> x # y /\ code.class[y].name \in code.class[x].refs BY DEF Referencing
  <2>. QED BY <2>1, <2>2
<1>5. [c \in DOMAIN f |-> f[c]["cbo"][1]] = out /\ [c \in DOMAIN f |-> f[c]["fan_in"][1]] = in
  <2>1. DOMAIN f = S BY DEF Analyse
  <2>2. ASSUME NEW c \in S PROVE f[c]["cbo"][1] = out[c] /\ f[c]["fan_in"][1] = in[c]
    <3>1. f[c] = Computed(code, Depths(code), c) BY DEF Analyse
    <3>2. f[c].cbo = Rat(Cardinality(Referenced(code, c))) BY <3>1 DEF Computed
    <3>3. f[c].fan_in = Rat(Cardinality(Referencing(code, c))) BY <3>1 DEF Computed
    <3>. QED BY <3>2, <3>3 DEF Rat
  <2>. QED BY <2>1, <2>2
<1>6. Total(out) = Cardinality(Pairs(S, R)) /\ IsFiniteSet(Pairs(S, R))
  <2>1. out = [c \in S |-> Cardinality(R[c])] OBVIOUS
  <2>. HIDE DEF out, R, S
  <2>. QED BY <1>1, <1>2, <2>1, TotalCountsPairs
<1>7. Total(in) = Cardinality(Pairs(S, Q))
  <2>1. in = [c \in S |-> Cardinality(Q[c])] OBVIOUS
  <2>. HIDE DEF in, Q, S
  <2>. QED BY <1>1, <1>3, <2>1, TotalCountsPairs
<1>8. Cardinality(Pairs(S, Q)) = Cardinality(Pairs(S, R))
  <2>. HIDE DEF Q, R, S
  <2>. QED BY <1>4, <1>6, PairsEitherWay
<1>9. Total(out) = Total(in) BY <1>6, <1>7, <1>8
<1>10. Total([c \in DOMAIN f |-> f[c]["cbo"][1]]) = Total(out)
       /\ Total([c \in DOMAIN f |-> f[c]["fan_in"][1]]) = Total(in)
  <2>. HIDE DEF f, out, in
  <2>. QED BY <1>5
<1>. HIDE DEF out, in
<1>. QED BY <1>9, <1>10

-----------------------------------------------------------------------------
(***************************************************************************)
(* Paths in the class graph.  If it has no cycle, a path meets no class    *)
(* twice, and what a path can be lengthened to is one.                     *)
(***************************************************************************)
Acyclic(code) == \A p \in Paths(code) : p[1] \notin ToSet(Bases(code, p[Len(p)]))

Up(code) == [c \in Classes(code) |-> ToSet(Bases(code, c))]

\* A way of n classes, each a base of the one before.
Way(code, n, p) ==
  p \in [1..n -> Classes(code)] /\ \A i \in 1..(n - 1) : p[i + 1] \in Up(code)[p[i]]

LEMMA GreatestExists ==
  ASSUME NEW S, S \subseteq Nat, S # {}, NEW n \in Nat, \A x \in S : x <= n
  PROVE  Max(S) \in S /\ \A x \in S : x <= Max(S)
<1>. DEFINE T == {n - x : x \in S}
<1>1. T \in SUBSET Nat /\ T # {}
  <2>1. \A x \in S : x \in Nat /\ n - x \in Nat OBVIOUS
  <2>. QED BY <2>1
<1>2. \E y \in T : \A z \in T : y <= z
  <2>. HIDE DEF T
  <2>. QED BY <1>1, LeastExists
<1>3. PICK x \in S : \A z \in S : n - x <= n - z BY <1>2
<1>4. \A z \in S : x >= z BY <1>3
<1>. QED BY <1>4 DEF Max

LEMMA PathIsWay ==
  ASSUME NEW code, IsCodeBase(code), NEW p \in Paths(code)
  PROVE  /\ Len(p) \in 1..Cardinality(Classes(code)) /\ Way(code, Len(p), p)
         /\ DOMAIN p = 1..Len(p)
<1>1. Paths(code) = {q \in UNION {[1..n -> Classes(code)] : n \in 1..Cardinality(Classes(code))} :
                       \A i \in 1..(Len(q) - 1) : q[i + 1] \in Up(code)[q[i]]}
  BY DEF Paths, Up
<1>2. PICK n \in 1..Cardinality(Classes(code)) : p \in [1..n -> Classes(code)] BY <1>1
<1>3. n \in Nat BY ClassesAreFew
<1>4. Len(p) = n BY <1>2, <1>3
<1>. QED BY <1>1, <1>2, <1>4 DEF Way

LEMMA WayIsPath ==
  ASSUME NEW code, IsCodeBase(code), NEW n \in 1..Cardinality(Classes(code)),
         NEW p, Way(code, n, p)
  PROVE  p \in Paths(code) /\ Len(p) = n
<1>1. n \in Nat BY ClassesAreFew
<1>2. Len(p) = n BY <1>1 DEF Way
<1>. QED BY <1>2 DEF Way, Paths, Up

\* A part of a path is a path.
LEMMA PartOfPath ==
  ASSUME NEW code, IsCodeBase(code), NEW p \in Paths(code),
         NEW i \in 1..Len(p), NEW j \in i..Len(p)
  PROVE  \E q \in Paths(code) : Len(q) = j - i + 1 /\ q[1] = p[i] /\ q[Len(q)] = p[j]
<1>. DEFINE n == j - i + 1
            q == [k \in 1..n |-> p[k + i - 1]]
<1>1. Len(p) \in Nat /\ Way(code, Len(p), p) /\ Len(p) <= Cardinality(Classes(code))
  BY PathIsWay, ClassesAreFew
<1>2. n \in 1..Cardinality(Classes(code)) BY <1>1, ClassesAreFew
<1>3. Way(code, n, q)
  <2>1. \A k \in 1..n : k + i - 1 \in 1..Len(p) BY <1>1
  <2>2. q \in [1..n -> Classes(code)] BY <1>1, <2>1 DEF Way
  <2>3. ASSUME NEW k \in 1..(n - 1) PROVE q[k + 1] \in Up(code)[q[k]]
    <3>1. k + i - 1 \in 1..(Len(p) - 1) BY <1>1
    <3>2. p[(k + i - 1) + 1] \in Up(code)[p[k + i - 1]] BY <1>1, <3>1 DEF Way
    <3>3. k + 1 \in 1..n /\ k \in 1..n /\ (k + 1) + i - 1 = (k + i - 1) + 1 BY <1>1
    <3>. QED BY <3>2, <3>3
  <2>. HIDE DEF q, n
  <2>. QED BY <2>2, <2>3 DEF Way
<1>4. q \in Paths(code) /\ Len(q) = n
  <2>. HIDE DEF q, n
  <2>. QED BY <1>2, <1>3, WayIsPath
<1>5. q[1] = p[i] /\ q[n] = p[j]
  <2>1. 1 \in 1..n /\ n \in 1..n /\ 1 + i - 1 = i /\ n + i - 1 = j BY <1>1
  <2>. QED BY <2>1
<1>. QED BY <1>4, <1>5

LEMMA PathsMeetOnce ==
  ASSUME NEW code, IsCodeBase(code), Acyclic(code), NEW p \in Paths(code),
         NEW i \in 1..Len(p), NEW j \in 1..Len(p), i < j
  PROVE  p[i] # p[j]
<1>1. Len(p) \in Nat /\ Way(code, Len(p), p) BY PathIsWay, ClassesAreFew
<1>2. j - 1 \in i..Len(p) /\ j - 1 \in 1..(Len(p) - 1) BY <1>1
<1>. DEFINE k == j - 1
<1>. HIDE DEF k
<1>3. PICK q \in Paths(code) : q[1] = p[i] /\ q[Len(q)] = p[k]
  <2>1. k \in i..Len(p) BY <1>2 DEF k
  <2>. QED BY <2>1, PartOfPath
<1>4. p[i] \notin ToSet(Bases(code, p[j - 1])) BY <1>3 DEF Acyclic, k
<1>5. p[(j - 1) + 1] \in Up(code)[p[j - 1]] /\ p[j - 1] \in Classes(code)
  BY <1>1, <1>2 DEF Way
<1>6. p[j] \in ToSet(Bases(code, p[j - 1])) BY <1>5 DEF Up
<1>. QED BY <1>4, <1>6

\* A way that meets no class twice is a path.
LEMMA WayIsShort ==
  ASSUME NEW code, IsCodeBase(code), NEW n \in Nat \ {0}, NEW p, Way(code, n, p),
         \A i, j \in 1..n : i < j => p[i] # p[j]
  PROVE  p \in Paths(code) /\ Len(p) = n
<1>1. p \in Injection(1..n, Classes(code))
  <2>1. ASSUME NEW i \in 1..n, NEW j \in 1..n, p[i] = p[j] PROVE i = j
    <3>1. ~(i < j) /\ ~(j < i) BY <2>1
    <3>. QED BY <3>1
  <2>. QED BY <2>1 DEF Way, Injection, IsInjective
<1>2. IsFiniteSet(Classes(code)) /\ Cardinality(Classes(code)) \in Nat BY ClassesAreFew
<1>3. Cardinality(1..n) <= Cardinality(Classes(code)) BY <1>1, <1>2, FS_Injection
<1>4. Cardinality(1..n) = n
  <2>1. 1 \in Int /\ n \in Int /\ 1 <= n OBVIOUS
  <2>2. Cardinality(1..n) = n - 1 + 1 BY <2>1, FS_Interval
  <2>. QED BY <2>2
<1>5. n \in 1..Cardinality(Classes(code)) BY <1>2, <1>3, <1>4
<1>. QED BY <1>5, WayIsPath

LEMMA PathGrows ==
  ASSUME NEW code, IsCodeBase(code), Acyclic(code), NEW p \in Paths(code),
         NEW b \in Classes(code), b \in ToSet(Bases(code, p[Len(p)]))
  PROVE  \E q \in Paths(code) :
           /\ Len(q) = Len(p) + 1 /\ q[Len(q)] = b
           /\ \A i \in 1..Len(p) : q[i] = p[i]
<1>. DEFINE n == Len(p)
            q == [i \in 1..(n + 1) |-> IF i = n + 1 THEN b ELSE p[i]]
<1>1. n \in Nat \ {0} /\ Way(code, n, p) BY PathIsWay, ClassesAreFew
<1>2. Way(code, n + 1, q)
  <2>1. q \in [1..(n + 1) -> Classes(code)] BY <1>1 DEF Way
  <2>2. ASSUME NEW i \in 1..n PROVE q[i + 1] \in Up(code)[q[i]]
    <3>1. CASE i = n
      <4>1. q[i + 1] = b /\ q[i] = p[n] BY <1>1, <3>1
      <4>2. p[n] \in Classes(code) BY <1>1 DEF Way
      <4>. QED BY <4>1, <4>2 DEF Up
    <3>2. CASE i # n
      <4>1. i \in 1..(n - 1) BY <1>1, <3>2
      <4>2. q[i + 1] = p[i + 1] /\ q[i] = p[i] BY <1>1, <4>1
      <4>. QED BY <1>1, <4>1, <4>2 DEF Way
    <3>. QED BY <3>1, <3>2
  <2>3. (n + 1) - 1 = n BY <1>1
  <2>. HIDE DEF q, n
  <2>. QED BY <2>1, <2>2, <2>3 DEF Way
<1>3. ASSUME NEW i \in 1..(n + 1), NEW j \in 1..(n + 1), i < j PROVE q[i] # q[j]
  <2>1. i \in 1..n BY <1>1, <1>3
  <2>2. CASE j = n + 1
    <3>1. n \in i..n BY <1>1, <2>1
    <3>2. PICK r \in Paths(code) : r[1] = p[i] /\ r[Len(r)] = p[n] BY <2>1, <3>1, PartOfPath
    <3>3. p[i] \notin ToSet(Bases(code, p[n])) BY <3>2 DEF Acyclic
    <3>4. q[i] = p[i] /\ q[j] = b BY <1>1, <2>1, <2>2
    <3>. QED BY <3>3, <3>4
  <2>3. CASE j # n + 1
    <3>1. j \in 1..n BY <1>1, <2>3
    <3>2. q[i] = p[i] /\ q[j] = p[j] BY <1>1, <2>1, <3>1
    <3>. QED BY <1>3, <2>1, <3>1, <3>2, PathsMeetOnce
  <2>. QED BY <2>2, <2>3
<1>4. n + 1 \in Nat \ {0} BY <1>1
<1>5. q \in Paths(code) /\ Len(q) = n + 1
  <2>. HIDE DEF q, n
  <2>. QED BY <1>2, <1>3, <1>4, WayIsShort
<1>6. q[n + 1] = b /\ \A i \in 1..n : q[i] = p[i] BY <1>1
<1>. QED BY <1>5, <1>6

LEMMA PathStarts ==
  ASSUME NEW code, IsCodeBase(code), Acyclic(code), NEW p \in Paths(code),
         NEW c \in Classes(code), p[1] \in ToSet(Bases(code, c))
  PROVE  \E q \in Paths(code) : Len(q) = Len(p) + 1 /\ q[1] = c
<1>. DEFINE n == Len(p)
            q == [i \in 1..(n + 1) |-> IF i = 1 THEN c ELSE p[i - 1]]
<1>1. n \in Nat \ {0} /\ Way(code, n, p) BY PathIsWay, ClassesAreFew
<1>2. Way(code, n + 1, q)
  <2>1. q \in [1..(n + 1) -> Classes(code)]
    <3>1. \A i \in 1..(n + 1) : i # 1 => i - 1 \in 1..n BY <1>1
    <3>. QED BY <1>1, <3>1 DEF Way
  <2>2. ASSUME NEW i \in 1..n PROVE q[i + 1] \in Up(code)[q[i]]
    <3>1. i + 1 \in 1..(n + 1) /\ i \in 1..(n + 1) /\ i + 1 # 1 /\ (i + 1) - 1 = i BY <1>1
    <3>2. q[i + 1] = p[i] BY <3>1
    <3>3. CASE i = 1
      <4>1. q[i] = c BY <3>1, <3>3
      <4>. QED BY <3>2, <3>3, <4>1 DEF Up
    <3>4. CASE i # 1
      <4>1. i - 1 \in 1..(n - 1) /\ (i - 1) + 1 = i BY <1>1, <3>4
      <4>2. q[i] = p[i - 1] BY <3>1, <3>4
      <4>3. p[(i - 1) + 1] \in Up(code)[p[i - 1]] BY <1>1, <4>1 DEF Way
      <4>. QED BY <3>2, <4>1, <4>2, <4>3
    <3>. QED BY <3>3, <3>4
  <2>3. (n + 1) - 1 = n BY <1>1
  <2>. HIDE DEF q, n
  <2>. QED BY <2>1, <2>2, <2>3 DEF Way
<1>3. ASSUME NEW i \in 1..(n + 1), NEW j \in 1..(n + 1), i < j PROVE q[i] # q[j]
  <2>1. j - 1 \in 1..n /\ j # 1 BY <1>1, <1>3
  <2>2. q[j] = p[j - 1] BY <2>1
  <2>3. CASE i = 1
    <3>. DEFINE k == j - 1
    <3>1. 1 \in 1..Len(p) /\ k \in 1..Len(p) BY <1>1, <2>1
    <3>2. PICK r \in Paths(code) : r[1] = p[1] /\ r[Len(r)] = p[k]
      <4>. HIDE DEF k
      <4>. QED BY <3>1, PartOfPath
    <3>3. p[1] \notin ToSet(Bases(code, p[j - 1])) BY <3>2 DEF Acyclic
    <3>4. q[i] = c BY <2>3
    <3>. QED BY <2>2, <3>3, <3>4
  <2>4. CASE i # 1
    <3>1. i - 1 \in 1..n /\ i - 1 < j - 1 BY <1>1, <1>3, <2>4
    <3>2. q[i] = p[i - 1] BY <2>4
    <3>. QED BY <2>1, <2>2, <3>1, <3>2, PathsMeetOnce
  <2>. QED BY <2>3, <2>4
<1>4. n + 1 \in Nat \ {0} BY <1>1
<1>5. q \in Paths(code) /\ Len(q) = n + 1
  <2>. HIDE DEF q, n
  <2>. QED BY <1>2, <1>3, <1>4, WayIsShort
<1>6. q[1] = c BY <1>1
<1>. QED BY <1>5, <1>6

\* The length of the longest path from c.
Height(code, c) == Max({Len(p) - 1 : p \in {q \in Paths(code) : q[1] = c}})

LEMMA HeightIsLongest ==
  ASSUME NEW code, IsCodeBase(code), NEW c \in Classes(code)
  PROVE  /\ Height(code, c) \in Nat
         /\ \E p \in Paths(code) : p[1] = c /\ Len(p) = Height(code, c) + 1
         /\ \A p \in Paths(code) : p[1] = c => Len(p) <= Height(code, c) + 1
<1>. DEFINE S == {Len(p) - 1 : p \in {q \in Paths(code) : q[1] = c}}
            n == Cardinality(Classes(code))
            one == [i \in 1..1 |-> c]
<1>1. n \in Nat BY ClassesAreFew
<1>2. \A p \in Paths(code) : Len(p) - 1 \in Nat /\ Len(p) - 1 <= n /\ Len(p) \in Nat
  BY <1>1, PathIsWay
<1>3. S \subseteq Nat /\ \A x \in S : x <= n BY <1>2
<1>4. one \in Paths(code) /\ one[1] = c
  <2>1. Way(code, 1, one) BY DEF Way
  <2>2. 1 \in Nat \ {0} /\ \A i, j \in 1..1 : ~(i < j) OBVIOUS
  <2>. HIDE DEF one
  <2>3. one \in Paths(code) BY <2>1, <2>2, WayIsShort
  <2>. QED BY <2>3 DEF one
<1>5. S # {} BY <1>4
<1>. HIDE DEF n
<1>6. Max(S) \in S /\ \A x \in S : x <= Max(S)
  <2>. HIDE DEF S
  <2>. QED BY <1>1, <1>3, <1>5, GreatestExists
<1>7. Height(code, c) = Max(S) BY DEF Height
<1>8. Height(code, c) \in Nat BY <1>3, <1>6, <1>7
<1>9. \E p \in Paths(code) : p[1] = c /\ Len(p) = Height(code, c) + 1
  <2>1. PICK p \in Paths(code) : p[1] = c /\ Max(S) = Len(p) - 1 BY <1>6
  <2>2. Len(p) \in Nat BY <1>2
  <2>. HIDE DEF S
  <2>3. Len(p) = Height(code, c) + 1 BY <1>7, <2>1, <2>2
  <2>. QED BY <2>1, <2>3
<1>10. ASSUME NEW p \in Paths(code), p[1] = c PROVE Len(p) <= Height(code, c) + 1
  <2>1. Len(p) - 1 \in S BY <1>10
  <2>. HIDE DEF S
  <2>2. Len(p) - 1 <= Height(code, c) BY <1>6, <1>7, <2>1
  <2>. QED BY <1>2, <1>8, <2>2
<1>. QED BY <1>8, <1>9, <1>10

\* A class is one higher than its highest base, or a root.
LEMMA HeightIsOfBases ==
  ASSUME NEW code, IsCodeBase(code), Acyclic(code), NEW c \in Classes(code)
  PROVE  /\ \A b \in Classes(code) : b \in ToSet(Bases(code, c))
              => Height(code, c) >= 1 + Height(code, b)
         /\ Height(code, c) # 0 => \E b \in Classes(code) :
              b \in ToSet(Bases(code, c)) /\ Height(code, c) = 1 + Height(code, b)
<1>0. Height(code, c) \in Nat /\ \A b \in Classes(code) : Height(code, b) \in Nat
  BY HeightIsLongest
<1>1. ASSUME NEW b \in Classes(code), b \in ToSet(Bases(code, c))
      PROVE  Height(code, c) >= 1 + Height(code, b)
  <2>1. PICK p \in Paths(code) : p[1] = b /\ Len(p) = Height(code, b) + 1 BY HeightIsLongest
  <2>2. PICK q \in Paths(code) : Len(q) = Len(p) + 1 /\ q[1] = c BY <1>1, <2>1, PathStarts
  <2>3. Len(q) <= Height(code, c) + 1 BY <2>2, HeightIsLongest
  <2>. QED BY <1>0, <2>1, <2>2, <2>3
<1>2. ASSUME Height(code, c) # 0
      PROVE  \E b \in Classes(code) :
               b \in ToSet(Bases(code, c)) /\ Height(code, c) = 1 + Height(code, b)
  <2>1. PICK p \in Paths(code) : p[1] = c /\ Len(p) = Height(code, c) + 1 BY HeightIsLongest
  <2>. DEFINE n == Len(p)
  <2>2. n \in Nat /\ n >= 2 BY <1>0, <1>2, <2>1
  <2>3. 2 \in 1..n /\ n \in 2..n /\ 1 \in 1..(n - 1) /\ 1 + 1 = 2 BY <2>2
  <2>4. PICK q \in Paths(code) : Len(q) = n - 2 + 1 /\ q[1] = p[2]
    <3>1. 2 \in 1..Len(p) /\ n \in 2..Len(p) BY <2>3
    <3>. HIDE DEF n
    <3>. QED BY <3>1, PartOfPath
  <2>5. Way(code, n, p) BY PathIsWay
  <2>6. p[2] \in Classes(code) /\ p[1 + 1] \in Up(code)[p[1]] BY <2>3, <2>5 DEF Way
  <2>7. p[2] \in ToSet(Bases(code, c)) BY <2>1, <2>3, <2>6 DEF Up
  <2>8. Height(code, c) >= 1 + Height(code, p[2]) BY <1>1, <2>6, <2>7
  <2>9. Len(q) <= Height(code, p[2]) + 1 BY <2>4, <2>6, HeightIsLongest
  <2>10. Height(code, p[2]) \in Nat BY <1>0, <2>6
  <2>11. Height(code, c) = 1 + Height(code, p[2])
    BY <1>0, <2>1, <2>2, <2>4, <2>8, <2>9, <2>10
  <2>. QED BY <2>6, <2>7, <2>11
<1>. QED BY <1>1, <1>2

-----------------------------------------------------------------------------
(***************************************************************************)
(* The cached walk finds the height of a class, if the graph has no cycle  *)
(* and no path is longer than the limit: what a cache holds is true, and   *)
(* of a path so long that the walk is cut short, the last class is a root. *)
(***************************************************************************)
Near(code) == \A p \in Paths(code) : Len(p) <= MaxDepth + 2

IsTrue(code, cache) ==
  /\ cache \in Caches(code)
  /\ \A c \in Classes(code) : cache[c] # None => cache[c] = Height(code, c)

\* The highest of the first i bases of c is d - 1 high, or there is none.
Highest(code, c, i, d) ==
  /\ d \in Nat
  /\ \A j \in 1..i : Bases(code, c)[j] # None => d >= 1 + Height(code, Bases(code, c)[j])
  /\ d # 0 => \E j \in 1..i : /\ Bases(code, c)[j] # None
                              /\ d = 1 + Height(code, Bases(code, c)[j])

\* The classes of a path to c.
Seen(code, c, seen) ==
  \E p \in Paths(code) : p[Len(p)] = c /\ seen = {p[i] : i \in 1..Len(p)}

\* What the walk is asked, and what it should answer.
Asked(code, a) ==
  /\ a \in Arguments(code) /\ a[4] <= Len(Bases(code, a[1]))
  /\ Seen(code, a[1], a[2]) /\ IsTrue(code, a[3])

Right(code, a, got) == Highest(code, a[1], a[4], got.depth) /\ IsTrue(code, got.cache)

LEMMA NoClassIsNone == \A code : IsCodeBase(code) => None \notin Classes(code)
BY DEF IsCodeBase, Classes

LEMMA HighestIsHeight ==
  ASSUME NEW code, IsCodeBase(code), Acyclic(code), NEW c \in Classes(code), NEW d,
         Highest(code, c, Len(Bases(code, c)), d)
  PROVE  d = Height(code, c)
<1>. DEFINE B == Bases(code, c)
            h == Height(code, c)
<1>1. /\ DOMAIN B = 1..Len(B) /\ ToSet(B) = {B[i] : i \in DOMAIN B}
      /\ \A i \in DOMAIN B : B[i] \in Classes(code) \cup {None}
  BY BasesAreClasses DEF ToSet
<1>2. h \in Nat /\ d \in Nat BY HeightIsLongest DEF Highest
<1>3. \A i \in DOMAIN B : B[i] # None => Height(code, B[i]) \in Nat BY <1>1, HeightIsLongest
<1>4. d <= h
  <2>1. CASE d = 0 BY <1>2, <2>1
  <2>2. CASE d # 0
    <3>1. PICK j \in DOMAIN B : B[j] # None /\ d = 1 + Height(code, B[j])
      BY <1>1, <2>2 DEF Highest
    <3>2. B[j] \in Classes(code) /\ B[j] \in ToSet(B) BY <1>1, <3>1
    <3>3. h >= 1 + Height(code, B[j]) BY <3>2, HeightIsOfBases
    <3>. QED BY <1>2, <1>3, <3>1, <3>3
  <2>. QED BY <2>1, <2>2
<1>5. h <= d
  <2>1. CASE h = 0 BY <1>2, <2>1
  <2>2. CASE h # 0
    <3>1. PICK b \in Classes(code) : b \in ToSet(B) /\ h = 1 + Height(code, b)
      BY <2>2, HeightIsOfBases
    <3>2. PICK j \in DOMAIN B : B[j] = b BY <1>1, <3>1
    <3>3. b # None BY NoClassIsNone
    <3>4. d >= 1 + Height(code, B[j]) BY <1>1, <3>2, <3>3 DEF Highest
    <3>. QED BY <3>1, <3>2, <3>4
  <2>. QED BY <2>1, <2>2
<1>. QED BY <1>2, <1>4, <1>5

LEMMA ImageIsSmaller ==
  ASSUME NEW n \in Nat, NEW f, DOMAIN f = 1..n
  PROVE  Cardinality({f[i] : i \in 1..n}) <= n
<1>. DEFINE T == {f[i] : i \in 1..n}
<1>1. [i \in 1..n |-> f[i]] \in Surjection(1..n, T) BY DEF Surjection
<1>2. IsFiniteSet(1..n) /\ Cardinality(1..n) = n
  <2>1. 1 \in Int /\ n \in Int OBVIOUS
  <2>2. IsFiniteSet(1..n) /\ Cardinality(1..n) = IF 1 > n THEN 0 ELSE n - 1 + 1
    BY <2>1, FS_Interval
  <2>. QED BY <2>2
<1>. HIDE DEF T
<1>3. Cardinality(T) <= Cardinality(1..n) BY <1>1, <1>2, FS_Surjection
<1>. QED BY <1>2, <1>3 DEF T

\* The depth that a class reports to the class below it, or to the metric pass.
LEMMA DepthIsHeight ==
  ASSUME NEW code, IsCodeBase(code), Acyclic(code), Near(code),
         NEW c \in Classes(code), NEW seen \in SUBSET Classes(code), NEW cache, IsTrue(code, cache),
         \/ seen = {}
         \/ \E p \in Paths(code) : /\ seen = {p[i] : i \in 1..Len(p)}
                                  /\ c \in ToSet(Bases(code, p[Len(p)])),
         NEW walk,
         LET a == <<c, seen \cup {c}, cache, Len(Bases(code, c))>>
         IN c \notin seen => Right(code, a, walk[a])
  PROVE  LET got == Depth(code, walk, c, seen, cache)
         IN got.depth = Height(code, c) /\ IsTrue(code, got.cache)
<1>. DEFINE a == <<c, seen \cup {c}, cache, Len(Bases(code, c))>>
            h == Height(code, c)
            got == Depth(code, walk, c, seen, cache)
<1>0. h \in Nat /\ MaxDepth \in Nat /\ None \notin Nat BY HeightIsLongest, StudyAssumption
<1>1. CASE cache[c] # None
  <2>1. got = [depth |-> cache[c], cache |-> cache] BY <1>1 DEF Depth
  <2>. QED BY <1>1, <2>1 DEF IsTrue
<1>2. c \notin seen
  <2>. SUFFICES ASSUME c \in seen PROVE FALSE OBVIOUS
  <2>1. PICK p \in Paths(code) : seen = {p[i] : i \in 1..Len(p)}
                                  /\ c \in ToSet(Bases(code, p[Len(p)]))
    OBVIOUS
  <2>2. PICK i \in 1..Len(p) : c = p[i] BY <2>1
  <2>3. Len(p) \in i..Len(p) BY PathIsWay, ClassesAreFew
  <2>4. PICK q \in Paths(code) : q[1] = p[i] /\ q[Len(q)] = p[Len(p)] BY <2>3, PartOfPath
  <2>. QED BY <2>1, <2>2, <2>4 DEF Acyclic
<1>3. CASE cache[c] = None /\ Cardinality(seen) > MaxDepth
  <2>1. got = [depth |-> 0, cache |-> cache] BY <1>3 DEF Depth
  <2>2. h = 0
    <3>. SUFFICES ASSUME h # 0 PROVE FALSE OBVIOUS
    <3>1. seen # {}
      <4>. SUFFICES ASSUME seen = {} PROVE FALSE OBVIOUS
      <4>1. Cardinality(seen) = 0 BY FS_EmptySet
      <4>. QED BY <1>0, <1>3, <4>1
    <3>2. PICK p \in Paths(code) : seen = {p[i] : i \in 1..Len(p)}
                                    /\ c \in ToSet(Bases(code, p[Len(p)]))
      BY <3>1
    <3>3. Len(p) \in Nat /\ DOMAIN p = 1..Len(p) BY PathIsWay, ClassesAreFew
    <3>4. Cardinality(seen) <= Len(p) BY <3>2, <3>3, ImageIsSmaller
    <3>5. Cardinality(seen) \in Nat BY ClassesAreFew, CountIsNatural
    <3>6. Len(p) >= MaxDepth + 1 BY <1>0, <1>3, <3>3, <3>4, <3>5
    <3>7. PICK q \in Paths(code) : Len(q) = Len(p) + 1 /\ q[Len(q)] = c BY <3>2, PathGrows
    <3>8. PICK b \in Classes(code) : b \in ToSet(Bases(code, c)) BY HeightIsOfBases
    <3>9. PICK r \in Paths(code) : Len(r) = Len(q) + 1 BY <3>7, <3>8, PathGrows
    <3>10. Len(r) <= MaxDepth + 2 BY DEF Near
    <3>. QED BY <1>0, <3>3, <3>6, <3>7, <3>9, <3>10
  <2>. QED BY <2>1, <2>2
<1>4. CASE cache[c] = None /\ ~(Cardinality(seen) > MaxDepth)
  <2>. DEFINE best == walk[a]
  <2>1. got = [depth |-> best.depth, cache |-> [best.cache EXCEPT ![c] = best.depth]]
    BY <1>2, <1>4 DEF Depth
  <2>2. Right(code, a, best) BY <1>2
  <2>3. Highest(code, c, Len(Bases(code, c)), best.depth) /\ IsTrue(code, best.cache)
    BY <2>2 DEF Right
  <2>. HIDE DEF best, a
  <2>4. best.depth = h BY <2>3, HighestIsHeight
  <2>. DEFINE kept == [best.cache EXCEPT ![c] = best.depth]
  <2>5. IsTrue(code, kept) BY <1>0, <2>3, <2>4 DEF IsTrue, Caches
  <2>. QED BY <2>1, <2>4, <2>5
<1>. QED BY <1>1, <1>3, <1>4

LEMMA HigherOfBoth ==
  ASSUME NEW code, IsCodeBase(code), NEW c \in Classes(code),
         NEW i \in DOMAIN Bases(code, c), NEW d, Highest(code, c, i - 1, d)
  PROVE  LET b == Bases(code, c)[i]
         IN /\ b = None => Highest(code, c, i, d)
            /\ b # None => Highest(code, c, i, Max({d, 1 + Height(code, b)}))
<1>. DEFINE B == Bases(code, c)
            b == B[i]
            e == Max({d, 1 + Height(code, b)})
<1>1. i \in Nat \ {0} /\ DOMAIN B = 1..Len(B) /\ b \in Classes(code) \cup {None}
  BY BasesAreClasses
<1>2. 1..i = (1..(i - 1)) \cup {i} BY <1>1
<1>3. /\ d \in Nat
      /\ \A j \in 1..(i - 1) : B[j] # None => d >= 1 + Height(code, B[j])
      /\ d # 0 => \E j \in 1..(i - 1) : B[j] # None /\ d = 1 + Height(code, B[j])
  BY DEF Highest
<1>4. CASE b = None BY <1>2, <1>3, <1>4 DEF Highest
<1>5. CASE b # None
  <2>1. Height(code, b) \in Nat BY <1>1, <1>5, HeightIsLongest
  <2>2. /\ 1 + Height(code, b) \in Int /\ d \in Int BY <1>3, <2>1
  <2>3. e \in {d, 1 + Height(code, b)} /\ e >= d /\ e >= 1 + Height(code, b)
    BY <2>2, OfTwo
  <2>4. e \in Nat BY <1>3, <2>1, <2>3
  <2>. HIDE DEF e
  <2>5. ASSUME NEW j \in 1..i, B[j] # None PROVE e >= 1 + Height(code, B[j])
    <3>1. CASE j = i BY <2>3, <3>1
    <3>2. CASE j \in 1..(i - 1)
      <4>1. j \in DOMAIN B BY <1>1, <3>2
      <4>2. B[j] \in Classes(code) BY <2>5, <4>1, BasesAreClasses
      <4>3. Height(code, B[j]) \in Nat BY <4>2, HeightIsLongest
      <4>4. d >= 1 + Height(code, B[j]) BY <1>3, <2>5, <3>2
      <4>. QED BY <1>3, <2>3, <2>4, <4>3, <4>4
    <3>. QED BY <1>2, <3>1, <3>2
  <2>6. ASSUME e # 0 PROVE \E j \in 1..i : B[j] # None /\ e = 1 + Height(code, B[j])
    <3>1. CASE e = d BY <1>2, <1>3, <2>6, <3>1
    <3>2. CASE e = 1 + Height(code, b) BY <1>2, <1>5, <3>2
    <3>. QED BY <2>3, <3>1, <3>2
  <2>7. Highest(code, c, i, e) BY <2>4, <2>5, <2>6 DEF Highest
  <2>. QED BY <1>5, <2>7 DEF e
<1>. QED BY <1>4, <1>5

\* If lighter questions are answered well, so is this one.
LEMMA VisitIsRight ==
  ASSUME NEW code, IsCodeBase(code), Acyclic(code), Near(code), NEW w, NEW a, Asked(code, a),
         \A c \in Classes(code) \ a[2] : \A cache \in Caches(code) :
           LET y == <<c, a[2] \cup {c}, cache, Len(Bases(code, c))>>
           IN a[4] \in DOMAIN Bases(code, a[1]) /\ Asked(code, y) => Right(code, y, w[y]),
         LET x == <<a[1], a[2], a[3], a[4] - 1>>
         IN a[4] \in DOMAIN Bases(code, a[1]) => Right(code, x, w[x])
  PROVE  Right(code, a, Visit(code, w, a))
<1>. DEFINE c == a[1]
            seen == a[2]
            cache == a[3]
            i == a[4]
            B == Bases(code, c)
            x == <<c, seen, cache, i - 1>>
            best == w[x]
<1>1. /\ c \in Classes(code) /\ seen \in SUBSET Classes(code) /\ i \in Nat /\ i <= Len(B)
      /\ IsTrue(code, cache) /\ DOMAIN B = 1..Len(B) /\ Len(B) \in Nat
  BY BasesAreClasses DEF Asked, Arguments
<1>2. CASE i \notin DOMAIN B
  <2>1. Visit(code, w, a) = [depth |-> 0, cache |-> cache] BY <1>2 DEF Visit, Deepest
  <2>2. i = 0 BY <1>1, <1>2
  <2>3. Highest(code, c, i, 0) BY <2>2 DEF Highest
  <2>. QED BY <1>1, <2>1, <2>3 DEF Right
<1>3. CASE i \in DOMAIN B
  <2>1. Right(code, x, best) BY <1>3
  <2>2. Highest(code, c, i - 1, best.depth) /\ IsTrue(code, best.cache) BY <2>1 DEF Right
  <2>. DEFINE b == B[i]
              up == Depth(code, w, b, seen, best.cache)
  <2>3. b \in Classes(code) \cup {None} BY <1>1, <1>3, BasesAreClasses
  <2>4. CASE b = None
    <3>1. Visit(code, w, a) = best BY <1>3, <2>4 DEF Visit, Deepest
    <3>2. Highest(code, c, i, best.depth)
      <4>. HIDE DEF best
      <4>. QED BY <1>1, <1>3, <2>2, <2>4, HigherOfBoth
    <3>. QED BY <2>2, <3>1, <3>2 DEF Right
  <2>5. CASE b # None
    <3>1. Visit(code, w, a) = [depth |-> Max({best.depth, 1 + up.depth}), cache |-> up.cache]
      BY <1>3, <2>5 DEF Visit, Deepest
    <3>2. PICK p \in Paths(code) : p[Len(p)] = c /\ seen = {p[k] : k \in 1..Len(p)}
      BY DEF Asked, Seen
    <3>3. b \in Classes(code) BY <2>3, <2>5
    <3>4. b \in ToSet(Bases(code, p[Len(p)])) BY <1>3, <3>2 DEF ToSet
    <3>. DEFINE y == <<b, seen \cup {b}, best.cache, Len(Bases(code, b))>>
    <3>5. b \notin seen => Right(code, y, w[y])
      <4>. SUFFICES ASSUME b \notin seen PROVE Right(code, y, w[y]) OBVIOUS
      <4>1. y \in Arguments(code)
        <5>1. Len(Bases(code, b)) \in Nat BY <3>3, BasesAreClasses
        <5>2. best.cache \in Caches(code) BY <2>2 DEF IsTrue
        <5>. HIDE DEF best, b
        <5>. QED BY <1>1, <3>3, <5>1, <5>2 DEF Arguments
      <4>2. Seen(code, b, seen \cup {b})
        <5>1. PICK q \in Paths(code) : /\ Len(q) = Len(p) + 1 /\ q[Len(q)] = b
                                       /\ \A k \in 1..Len(p) : q[k] = p[k]
          <6>. HIDE DEF b
          <6>. QED BY <3>3, <3>4, PathGrows
        <5>2. Len(p) \in Nat BY PathIsWay, ClassesAreFew
        <5>3. 1..Len(q) = (1..Len(p)) \cup {Len(q)} BY <5>1, <5>2
        <5>4. {q[k] : k \in 1..Len(q)} = seen \cup {b} BY <3>2, <5>1, <5>3
        <5>. QED BY <5>1, <5>4 DEF Seen
      <4>3. Len(Bases(code, b)) <= Len(Bases(code, b)) BY <3>3, BasesAreClasses
      <4>4. Asked(code, y) BY <2>2, <4>1, <4>2, <4>3 DEF Asked
      <4>5. b \in Classes(code) \ seen /\ best.cache \in Caches(code)
        BY <2>2, <3>3 DEF IsTrue
      <4>. HIDE DEF best, b
      <4>. QED BY <1>3, <4>4, <4>5
    <3>6. up.depth = Height(code, b) /\ IsTrue(code, up.cache)
      <4>. HIDE DEF best, b
      <4>. QED BY <1>1, <2>2, <3>2, <3>3, <3>4, <3>5, DepthIsHeight
    <3>7. Highest(code, c, i, Max({best.depth, 1 + Height(code, b)}))
      <4>. HIDE DEF best
      <4>. QED BY <1>1, <1>3, <2>2, <2>5, HigherOfBoth
    <3>. HIDE DEF best, up, b
    <3>. QED BY <3>1, <3>6, <3>7 DEF Right
  <2>. QED BY <2>4, <2>5
<1>. QED BY <1>2, <1>3

LEMMA WalksAreRight ==
  ASSUME NEW code, IsCodeBase(code), Acyclic(code), Near(code), NEW a, Asked(code, a)
  PROVE  Right(code, a, Walks(code)[a])
<1>. DEFINE w == Walks(code)
            G == {x \in Arguments(code) : Asked(code, x) => Right(code, x, w[x])}
<1>. HIDE DEF w
<1>1. PICK b \in Nat : \A c \in Classes(code) : Len(Bases(code, c)) <= b BY BasesAreBounded
<1>2. ASSUME NEW x \in Arguments(code),
             x[4] \in DOMAIN Bases(code, x[1]) =>
               \A y \in Arguments(code) : Burden(code, b, y) < Burden(code, b, x) => y \in G
      PROVE  x \in G
  <2>. SUFFICES ASSUME Asked(code, x) PROVE Right(code, x, w[x]) OBVIOUS
  <2>1. w[x] = Visit(code, w, x) BY WalksSettle DEF Settled, w
  <2>2. x[3] \in Caches(code) BY DEF Arguments
  <2>3. ASSUME NEW c \in Classes(code) \ x[2], NEW cache \in Caches(code),
               x[4] \in DOMAIN Bases(code, x[1])
        PROVE  LET y == <<c, x[2] \cup {c}, cache, Len(Bases(code, c))>>
               IN Asked(code, y) => Right(code, y, w[y])
    <3>. DEFINE y == <<c, x[2] \cup {c}, cache, Len(Bases(code, c))>>
    <3>1. y \in Arguments(code) /\ Burden(code, b, y) < Burden(code, b, x)
      BY <1>1, <2>3, BurdenFalls
    <3>. HIDE DEF y
    <3>2. y \in G BY <1>2, <2>3, <3>1
    <3>. QED BY <3>2 DEF y
  <2>4. ASSUME x[4] \in DOMAIN Bases(code, x[1])
        PROVE  LET y == <<x[1], x[2], x[3], x[4] - 1>> IN Right(code, y, w[y])
    <3>. DEFINE y == <<x[1], x[2], x[3], x[4] - 1>>
    <3>1. y \in Arguments(code) /\ Burden(code, b, y) < Burden(code, b, x)
      BY <1>1, <2>2, <2>4, BurdenFalls
    <3>2. Asked(code, y)
      <4>1. y[1] = x[1] /\ y[2] = x[2] /\ y[3] = x[3] /\ y[4] = x[4] - 1 OBVIOUS
      <4>. HIDE DEF y
      <4>2. x[4] \in Nat /\ Len(Bases(code, x[1])) \in Nat
        BY BasesAreClasses DEF Arguments
      <4>3. y[4] <= Len(Bases(code, y[1])) BY <4>1, <4>2 DEF Asked
      <4>. QED BY <3>1, <4>1, <4>3 DEF Asked
    <3>. HIDE DEF y
    <3>3. y \in G BY <1>2, <2>4, <3>1
    <3>. QED BY <3>2, <3>3 DEF y
  <2>5. Right(code, x, Visit(code, w, x))
    <3>. HIDE DEF G
    <3>. QED BY <2>3, <2>4, VisitIsRight
  <2>. QED BY <2>1, <2>5
<1>3. \A x \in Arguments(code) : x \in G
  <2>. HIDE DEF G
  <2>. QED BY <1>1, <1>2, BurdenInduction
<1>4. a \in G BY <1>3 DEF Asked
<1>. QED BY <1>4 DEF w

LEMMA DepthsAreHeights ==
  ASSUME NEW code, IsCodeBase(code), Acyclic(code), Near(code),
         NEW c \in Classes(code), c \notin code.odd
  PROVE  Depths(code)[c] = Height(code, c)
<1>. DEFINE n == Len(code.order)
<1>1. n \in Nat /\ DOMAIN code.order = 1..n BY DepthsAreTurns
<1>2. PICK d : (\A i \in 0..n : d[i] = Turn(code, d, i)) /\ Depths(code) = d[n]
  BY DepthsAreTurns
<1>. HIDE DEF n
<1>. DEFINE G == {i \in Nat : i <= n => IsTrue(code, d[i])}
<1>3. 0 \in G
  <2>1. d[0] = [x \in Classes(code) |-> None] BY <1>1, <1>2 DEF Turn
  <2>. QED BY <2>1 DEF IsTrue, Caches
<1>4. ASSUME NEW m \in Nat, m \in G PROVE m + 1 \in G
  <2>. SUFFICES ASSUME m + 1 <= n PROVE IsTrue(code, d[m + 1]) OBVIOUS
  <2>. DEFINE x == code.order[m + 1]
  <2>1. IsTrue(code, d[m]) BY <1>1, <1>4
  <2>2. d[m + 1] = IF x \notin Classes(code) \ code.odd THEN d[m]
                   ELSE Depth(code, Walks(code), x, {}, d[m]).cache
    <3>1. m + 1 \in 0..n /\ m + 1 # 0 /\ (m + 1) - 1 = m BY <1>1
    <3>2. d[m + 1] = Turn(code, d, m + 1) BY <1>2, <3>1
    <3>. QED BY <3>1, <3>2 DEF Turn
  <2>. HIDE DEF x
  <2>3. CASE x \notin Classes(code) \ code.odd BY <2>1, <2>2, <2>3
  <2>4. CASE x \in Classes(code) \ code.odd
    <3>. DEFINE a == <<x, {} \cup {x}, d[m], Len(Bases(code, x))>>
    <3>1. Asked(code, a)
      <4>1. Len(Bases(code, x)) \in Nat BY <2>4, BasesAreClasses
      <4>2. d[m] \in Caches(code) BY <2>1 DEF IsTrue
      <4>3. a \in Arguments(code) BY <2>4, <4>1, <4>2 DEF Arguments
      <4>4. Seen(code, x, {} \cup {x})
        <5>. DEFINE one == [i \in 1..1 |-> x]
        <5>1. Way(code, 1, one) BY <2>4 DEF Way
        <5>2. 1 \in Nat \ {0} /\ \A i, j \in 1..1 : ~(i < j) OBVIOUS
        <5>. HIDE DEF one
        <5>3. one \in Paths(code) /\ Len(one) = 1 BY <5>1, <5>2, WayIsShort
        <5>4. one[1] = x /\ {one[i] : i \in 1..1} = {} \cup {x} BY DEF one
        <5>. QED BY <5>3, <5>4 DEF Seen
      <4>. QED BY <2>1, <4>1, <4>3, <4>4 DEF Asked
    <3>2. Right(code, a, Walks(code)[a])
      <4>. HIDE DEF a
      <4>. QED BY <3>1, WalksAreRight
    <3>3. IsTrue(code, Depth(code, Walks(code), x, {}, d[m]).cache)
      <4>1. {} \in SUBSET Classes(code) OBVIOUS
      <4>. QED BY <2>1, <2>4, <3>2, <4>1, DepthIsHeight
    <3>. QED BY <2>2, <2>4, <3>3
  <2>. QED BY <2>3, <2>4
<1>5. n \in G
  <2>. HIDE DEF G
  <2>. QED BY <1>1, <1>3, <1>4, NaturalInduction
<1>6. IsTrue(code, Depths(code)) BY <1>1, <1>2, <1>5
<1>7. Depths(code)[c] \in Nat BY DepthsAreNumbers
<1>8. Depths(code)[c] # None BY <1>7, StudyAssumption
<1>. QED BY <1>6, <1>8 DEF IsTrue

LEMMA DepthFollows == TypeInv => DepthIsLongestPath
<1>. SUFFICES ASSUME TypeInv, found # None,
                     Acyclic(found.code), Near(found.code),
                     NEW c \in (DOMAIN found.features) \ found.code.odd
              PROVE  found.features[c].dit = Rat(Height(found.code, c))
  <2>1. \A code : ~Acyclic(code) => \E p \in Paths(code) : p[1] \in ToSet(Bases(code, p[Len(p)]))
    BY DEF Acyclic
  <2>2. ASSUME TypeInv, found # None, ~Near(found.code)
        PROVE  \E p \in Paths(found.code) : Len(p) > MaxDepth + 2
    <3>1. PICK p \in Paths(found.code) : ~(Len(p) <= MaxDepth + 2) BY <2>2 DEF Near
    <3>2. IsCodeBase(found.code) BY <2>2 DEF TypeInv, FoundIsAnalysed
    <3>3. Len(p) \in Nat BY <3>2, PathIsWay, ClassesAreFew
    <3>. QED BY <3>1, <3>3, StudyAssumption
  <2>. QED BY <2>1, <2>2 DEF DepthIsLongestPath, Height
<1>. DEFINE code == found.code
<1>1. IsCodeBase(code) /\ found.features = Analyse(code) BY DEF TypeInv, FoundIsAnalysed
<1>2. c \in Classes(code) /\ c \notin code.odd BY <1>1, AnalyseIsTyped
<1>3. Acyclic(code) /\ Near(code) OBVIOUS
<1>4. found.features[c] = Analyse(code)[c] BY <1>1
<1>. HIDE DEF code
<1>5. Analyse(code)[c] = Computed(code, Depths(code), c) BY <1>2 DEF Analyse
<1>6. Computed(code, Depths(code), c).dit = Rat(Depths(code)[c]) BY DEF Computed
<1>7. Depths(code)[c] = Height(code, c) BY <1>1, <1>2, <1>3, DepthsAreHeights
<1>. QED BY <1>4, <1>5, <1>6, <1>7 DEF code

LEMMA CouplingFollows == TypeInv => CouplingIsBalanced
<1>. SUFFICES ASSUME TypeInv, found # None, found.code.odd = {} PROVE CouplingIsBalanced
  BY DEF CouplingIsBalanced
<1>. DEFINE code == found.code
            f == Analyse(code)
            All(metric) == Total([c \in DOMAIN f |-> f[c][metric][1]])
<1>1. IsCodeBase(code) /\ found.features = f BY DEF TypeInv, FoundIsAnalysed
<1>2. All("cbo") = All("fan_in") BY <1>1, CouplingBalances
<1>. QED BY <1>1, <1>2 DEF CouplingIsBalanced

-----------------------------------------------------------------------------
(***************************************************************************)
(* The tree of statements.  Each stands after the one it belongs to, in a  *)
(* block that this one has.                                                *)
(***************************************************************************)
IsTree(t) ==
  \A i \in DOMAIN t :
    LET up == t[i].up
    IN /\ up \in 0..(i - 1)
       /\ Kind(t, up) \in DOMAIN Slots
       /\ t[i].slot \in ToSet(Slots[Kind(t, up)])
       /\ (t[i].slot = "parts") = (t[i].kind \in {"handler", "case"})
       /\ t[i].kind = "handler" => Kind(t, up) = "try"
       /\ t[i].kind = "case" => Kind(t, up) = "match"

\* Each value is made of those where the rank is lower.
Descends(D, V, b, rank, step) ==
  /\ V # {} /\ b \in Nat /\ rank \in [D -> 0..b]
  /\ step \in [D \X [D -> V] -> V]
  /\ \A x \in D : \A f, g \in [D -> V] :
       (\A y \in D : rank[y] < rank[x] => f[y] = g[y]) => step[<<x, f>>] = step[<<x, g>>]

LEMMA RecursionExists ==
  ASSUME NEW D, NEW V, NEW b, NEW rank, NEW step, Descends(D, V, b, rank, step)
  PROVE  \E f \in [D -> V] : \A x \in D : f[x] = step[<<x, f>>]
<1>. DEFINE Recurs(n, f) == \A x \in D : rank[x] < n => f[x] = step[<<x, f>>]
            G == {n \in Nat : \E f \in [D -> V] : Recurs(n, f)}
<1>. USE DEF Descends
<1>1. 0 \in G
  <2>1. PICK v \in V : TRUE OBVIOUS
  <2>2. [x \in D |-> v] \in [D -> V] OBVIOUS
  <2>3. \A x \in D : ~(rank[x] < 0) OBVIOUS
  <2>. QED BY <2>2, <2>3
<1>2. ASSUME NEW n \in Nat, n \in G PROVE n + 1 \in G
  <2>1. PICK f \in [D -> V] : Recurs(n, f) BY <1>2
  <2>. DEFINE h == [x \in D |-> step[<<x, f>>]]
  <2>2. h \in [D -> V] OBVIOUS
  <2>3. ASSUME NEW x \in D, rank[x] < n + 1 PROVE h[x] = step[<<x, h>>]
    <3>1. \A y \in D : rank[y] < rank[x] => f[y] = h[y] BY <2>1, <2>3
    <3>2. h[x] = step[<<x, f>>] OBVIOUS
    <3>. HIDE DEF h
    <3>. QED BY <2>2, <3>1, <3>2
  <2>4. Recurs(n + 1, h) BY <2>3
  <2>. HIDE DEF Recurs, h
  <2>. QED BY <2>2, <2>4
<1>3. b + 1 \in G
  <2>. HIDE DEF G
  <2>. QED BY <1>1, <1>2, NaturalInduction
<1>4. PICK f \in [D -> V] : Recurs(b + 1, f) BY <1>3
<1>5. \A x \in D : rank[x] < b + 1 OBVIOUS
<1>. QED BY <1>4, <1>5

LEMMA TreeHasPlaces ==
  ASSUME NEW t, IsText(t), IsTree(t)
  PROVE  /\ Len(t) \in Nat /\ DOMAIN t = 1..Len(t)
         /\ \A i \in DOMAIN t : t[i].up \in 0..Len(t) /\ t[i].up < i /\ t[i].up \in 0..(i - 1)
BY SequenceIsFew DEF IsText, IsTree

LEMMA AboveIs ==
  ASSUME NEW t, IsText(t), IsTree(t)
  PROVE  /\ Above(t) \in [0..Len(t) -> SUBSET (0..Len(t))]
         /\ Above(t)[0] = {}
         /\ \A i \in DOMAIN t : Above(t)[i] = {t[i].up} \cup Above(t)[t[i].up]
<1>. DEFINE n == Len(t)
            D == 0..n
            V == SUBSET (0..n)
            rank == [x \in D |-> x]
            step == [a \in D \X [D -> V] |->
                       IF a[1] = 0 THEN {} ELSE {t[a[1]].up} \cup a[2][t[a[1]].up]]
<1>1. n \in Nat /\ DOMAIN t = 1..n BY TreeHasPlaces
<1>2. \A x \in D : x # 0 => x \in DOMAIN t /\ t[x].up \in D /\ t[x].up < x
  <2>1. \A x \in D : x # 0 => x \in DOMAIN t BY <1>1
  <2>. QED BY <2>1, TreeHasPlaces
<1>3. step \in [D \X [D -> V] -> V] BY <1>2
<1>4. \A x \in D : \A f, g \in [D -> V] :
        (\A y \in D : rank[y] < rank[x] => f[y] = g[y]) => step[<<x, f>>] = step[<<x, g>>]
  <2>. SUFFICES ASSUME NEW x \in D, NEW f \in [D -> V], NEW g \in [D -> V],
                       \A y \in D : rank[y] < rank[x] => f[y] = g[y]
                PROVE  step[<<x, f>>] = step[<<x, g>>]
    OBVIOUS
  <2>. QED BY <1>2
<1>5. rank \in [D -> 0..n] /\ V # {} BY <1>1
<1>6. \E f \in [D -> V] : \A x \in D : f[x] = step[<<x, f>>]
  <2>1. Descends(D, V, n, rank, step)
    <3>. HIDE DEF rank, step, D, V, n
    <3>. QED BY <1>1, <1>3, <1>4, <1>5 DEF Descends
  <2>. HIDE DEF rank, step, D, V, n
  <2>. QED BY <2>1, RecursionExists
<1>7. PICK f \in [D -> V] : \A x \in D : f[x] = step[<<x, f>>] BY <1>6
<1>8. f = [i \in 0..Len(t) |-> IF i = 0 THEN {} ELSE {t[i].up} \cup f[t[i].up]]
  BY <1>7
<1>. DEFINE Is(g) == g = [i \in 0..Len(t) |-> IF i = 0 THEN {} ELSE {t[i].up} \cup g[t[i].up]]
            above == CHOOSE g : Is(g)
<1>9. Is(above)
  <2>1. Is(f) BY <1>8
  <2>. HIDE DEF Is
  <2>. QED BY <2>1
<1>10. Above(t) = above BY DEF Above
<1>. HIDE DEF above
<1>11. Above(t) = [i \in 0..Len(t) |-> IF i = 0 THEN {} ELSE {t[i].up} \cup Above(t)[t[i].up]]
  BY <1>9, <1>10
<1>12. Above(t)[0] = {}
       /\ \A i \in DOMAIN t : Above(t)[i] = {t[i].up} \cup Above(t)[t[i].up]
  BY <1>1, <1>11
<1>. DEFINE G == {i \in Nat : i <= n => Above(t)[i] \in SUBSET (0..n)}
<1>13. \A i \in Nat : i <= n => Above(t)[i] \in SUBSET (0..n)
  <2>. SUFFICES Nat \subseteq {k \in Nat : \A i \in 0..k : i <= n => Above(t)[i] \in SUBSET (0..n)}
    <3>1. \A k \in Nat : k \in 0..k OBVIOUS
    <3>. QED BY <3>1
  <2>. DEFINE H == {k \in Nat : \A i \in 0..k : i <= n => Above(t)[i] \in SUBSET (0..n)}
  <2>1. 0 \in H BY <1>12
  <2>2. ASSUME NEW k \in Nat, k \in H PROVE k + 1 \in H
    <3>1. ASSUME NEW i \in 0..(k + 1), i <= n PROVE Above(t)[i] \in SUBSET (0..n)
      <4>1. CASE i \in 0..k BY <2>2, <3>1, <4>1
      <4>2. CASE i = k + 1
        <5>1. i \in D /\ i # 0 BY <1>1, <3>1, <4>2
        <5>2. i \in DOMAIN t /\ t[i].up \in 0..n /\ t[i].up < i BY <1>2, <5>1
        <5>3. t[i].up \in 0..k /\ t[i].up <= n BY <1>1, <4>2, <5>2
        <5>4. Above(t)[t[i].up] \in SUBSET (0..n) BY <2>2, <5>3
        <5>. QED BY <1>12, <5>2, <5>4
      <4>. QED BY <4>1, <4>2
    <3>. QED BY <3>1
  <2>. HIDE DEF H
  <2>3. Nat \subseteq H BY <2>1, <2>2, NaturalInduction
  <2>. QED BY <2>3 DEF H
<1>14. Above(t) \in [0..n -> SUBSET (0..n)]
  <2>1. \A i \in 0..n : Above(t)[i] \in SUBSET (0..n) BY <1>1, <1>13
  <2>. HIDE DEF n
  <2>. QED BY <1>11, <2>1 DEF n
<1>. QED BY <1>12, <1>14

LEMMA UpwardInduction ==
  ASSUME NEW n \in Nat, NEW G,
         \A i \in 1..n : (\A k \in 1..n : k < i => k \in G) => i \in G
  PROVE  1..n \subseteq G
<1>. DEFINE H == {m \in Nat : \A i \in 1..n : i <= m => i \in G}
<1>1. 0 \in H OBVIOUS
<1>2. ASSUME NEW m \in Nat, m \in H PROVE m + 1 \in H
  <2>1. ASSUME NEW i \in 1..n, i <= m + 1 PROVE i \in G
    <3>1. \A k \in 1..n : k < i => k <= m BY <2>1
    <3>. QED BY <1>2, <3>1
  <2>. QED BY <2>1
<1>3. n \in H
  <2>. HIDE DEF H
  <2>. QED BY <1>1, <1>2, NaturalInduction
<1>. QED BY <1>3

LEMMA DownwardInduction ==
  ASSUME NEW n \in Nat, NEW G,
         \A i \in 1..n : (\A k \in 1..n : i < k => k \in G) => i \in G
  PROVE  1..n \subseteq G
<1>. DEFINE H == {m \in Nat : \A i \in 1..n : n < i + m => i \in G}
<1>1. 0 \in H OBVIOUS
<1>2. ASSUME NEW m \in Nat, m \in H PROVE m + 1 \in H
  <2>1. ASSUME NEW i \in 1..n, n < i + (m + 1) PROVE i \in G
    <3>1. \A k \in 1..n : i < k => n < k + m BY <2>1
    <3>. QED BY <1>2, <3>1
  <2>. QED BY <2>1
<1>3. n \in H
  <2>. HIDE DEF H
  <2>. QED BY <1>1, <1>2, NaturalInduction
<1>4. \A i \in 1..n : n < i + n OBVIOUS
<1>. QED BY <1>3, <1>4

\* A statement and what it is in; what belongs to it directly.
Line(t, j) == {j} \cup Above(t)[j]

Children(t, i) == {j \in DOMAIN t : t[j].up = i}

LEMMA AboveIsBefore ==
  ASSUME NEW t, IsText(t), IsTree(t)
  PROVE  \A j \in DOMAIN t : Above(t)[j] \subseteq 0..(j - 1)
<1>. DEFINE G == {j \in DOMAIN t : Above(t)[j] \subseteq 0..(j - 1)}
<1>1. Len(t) \in Nat /\ DOMAIN t = 1..Len(t) BY TreeHasPlaces
<1>2. ASSUME NEW j \in 1..Len(t), \A k \in 1..Len(t) : k < j => k \in G PROVE j \in G
  <2>. DEFINE u == t[j].up
  <2>1. Above(t)[j] = {u} \cup Above(t)[u] /\ u \in 0..(j - 1)
    BY <1>1, AboveIs, TreeHasPlaces
  <2>. HIDE DEF u
  <2>2. CASE u = 0
    <3>1. Above(t)[0] = {} BY AboveIs
    <3>. QED BY <1>1, <2>1, <2>2, <3>1
  <2>3. CASE u # 0
    <3>1. u \in 1..Len(t) /\ u < j BY <1>1, <2>1, <2>3
    <3>2. Above(t)[u] \subseteq 0..(u - 1) BY <1>2, <3>1
    <3>3. 0..(u - 1) \subseteq 0..(j - 1) BY <2>1, <3>1
    <3>4. Above(t)[j] \subseteq 0..(j - 1) BY <2>1, <3>2, <3>3
    <3>. QED BY <1>1, <3>4
  <2>. QED BY <2>2, <2>3
<1>3. 1..Len(t) \subseteq G
  <2>. HIDE DEF G
  <2>. QED BY <1>1, <1>2, UpwardInduction
<1>. QED BY <1>1, <1>3

LEMMA AboveGrows ==
  ASSUME NEW t, IsText(t), IsTree(t), NEW i \in DOMAIN t
  PROVE  \A j \in DOMAIN t : i \in Above(t)[j] => Line(t, i) \subseteq Above(t)[j]
<1>. DEFINE G == {j \in DOMAIN t : i \in Above(t)[j] => Line(t, i) \subseteq Above(t)[j]}
<1>1. Len(t) \in Nat /\ DOMAIN t = 1..Len(t) BY TreeHasPlaces
<1>2. ASSUME NEW j \in 1..Len(t), \A k \in 1..Len(t) : k < j => k \in G PROVE j \in G
  <2>. DEFINE u == t[j].up
  <2>1. Above(t)[j] = {u} \cup Above(t)[u] /\ u \in 0..(j - 1) /\ Above(t)[0] = {}
    BY <1>1, AboveIs, TreeHasPlaces
  <2>. HIDE DEF u
  <2>2. ASSUME i \in Above(t)[j] PROVE Line(t, i) \subseteq Above(t)[j]
    <3>1. CASE u = i BY <2>1, <3>1 DEF Line
    <3>2. CASE u # i
      <4>1. i \in Above(t)[u] /\ u # 0 BY <2>1, <2>2, <3>2
      <4>2. u \in 1..Len(t) /\ u < j BY <1>1, <2>1, <4>1
      <4>3. Line(t, i) \subseteq Above(t)[u] BY <1>2, <4>1, <4>2
      <4>. QED BY <2>1, <4>3
    <3>. QED BY <3>1, <3>2
  <2>. QED BY <1>1, <2>2
<1>3. 1..Len(t) \subseteq G
  <2>. HIDE DEF G
  <2>. QED BY <1>1, <1>2, UpwardInduction
<1>. QED BY <1>1, <1>3

LEMMA ChildIsAfter ==
  ASSUME NEW t, IsText(t), IsTree(t), NEW i \in DOMAIN t, NEW m \in Children(t, i)
  PROVE  m \in DOMAIN t /\ i < m /\ Above(t)[m] = Line(t, i)
BY TreeHasPlaces, AboveIs DEF Children, Line

\* What is in a statement is in just one of its children, or is one.
LEMMA ChildExists ==
  ASSUME NEW t, IsText(t), IsTree(t), NEW i \in DOMAIN t
  PROVE  \A j \in DOMAIN t : i \in Above(t)[j] => \E m \in Children(t, i) : m \in Line(t, j)
<1>. DEFINE G == {j \in DOMAIN t : i \in Above(t)[j] => \E m \in Children(t, i) : m \in Line(t, j)}
<1>1. Len(t) \in Nat /\ DOMAIN t = 1..Len(t) BY TreeHasPlaces
<1>2. ASSUME NEW j \in 1..Len(t), \A k \in 1..Len(t) : k < j => k \in G PROVE j \in G
  <2>. DEFINE u == t[j].up
  <2>1. Above(t)[j] = {u} \cup Above(t)[u] /\ u \in 0..(j - 1) /\ Above(t)[0] = {}
    BY <1>1, AboveIs, TreeHasPlaces
  <2>2. u = i => j \in Children(t, i) BY <1>1 DEF Children
  <2>. HIDE DEF u
  <2>3. ASSUME i \in Above(t)[j] PROVE \E m \in Children(t, i) : m \in Line(t, j)
    <3>1. CASE u = i BY <2>2, <3>1 DEF Line
    <3>2. CASE u # i
      <4>1. i \in Above(t)[u] /\ u # 0 BY <2>1, <2>3, <3>2
      <4>2. u \in 1..Len(t) /\ u < j BY <1>1, <2>1, <4>1
      <4>3. PICK m \in Children(t, i) : m \in Line(t, u) BY <1>2, <4>1, <4>2
      <4>. QED BY <2>1, <4>3 DEF Line
    <3>. QED BY <3>1, <3>2
  <2>. QED BY <1>1, <2>3
<1>3. 1..Len(t) \subseteq G
  <2>. HIDE DEF G
  <2>. QED BY <1>1, <1>2, UpwardInduction
<1>. QED BY <1>1, <1>3

LEMMA ChildrenApart ==
  ASSUME NEW t, IsText(t), IsTree(t), NEW i \in DOMAIN t,
         NEW m \in Children(t, i), NEW k \in Children(t, i), m # k
  PROVE  \A j \in DOMAIN t : ~(m \in Line(t, j) /\ k \in Line(t, j))
<1>. DEFINE G == {j \in DOMAIN t : ~(m \in Line(t, j) /\ k \in Line(t, j))}
<1>1. Len(t) \in Nat /\ DOMAIN t = 1..Len(t) BY TreeHasPlaces
<1>2. /\ i \in Nat /\ m \in DOMAIN t /\ k \in DOMAIN t /\ i < m /\ i < k
      /\ Above(t)[m] = {i} \cup Above(t)[i] /\ Above(t)[k] = {i} \cup Above(t)[i]
      /\ Above(t)[i] \subseteq 0..(i - 1)
  BY <1>1, ChildIsAfter, AboveIsBefore DEF Line
<1>3. m \notin Above(t)[k] /\ k \notin Above(t)[m] BY <1>1, <1>2
<1>4. ASSUME NEW j \in 1..Len(t), \A x \in 1..Len(t) : x < j => x \in G PROVE j \in G
  <2>. DEFINE u == t[j].up
  <2>1. Above(t)[j] = {u} \cup Above(t)[u] /\ u \in 0..(j - 1) /\ Above(t)[0] = {}
    BY <1>1, AboveIs, TreeHasPlaces
  <2>. HIDE DEF u
  <2>2. ASSUME m \in Line(t, j), k \in Line(t, j) PROVE FALSE
    <3>1. j # m /\ j # k BY <1>3, <2>2 DEF Line
    <3>2. m \in Line(t, u) /\ k \in Line(t, u) BY <2>1, <2>2, <3>1 DEF Line
    <3>3. u # 0 BY <1>1, <1>2, <2>1, <3>2 DEF Line
    <3>4. u \in 1..Len(t) /\ u < j BY <1>1, <2>1, <3>3
    <3>. QED BY <1>4, <3>2, <3>4
  <2>. QED BY <1>1, <2>2
<1>5. 1..Len(t) \subseteq G
  <2>. HIDE DEF G
  <2>. QED BY <1>1, <1>4, UpwardInduction
<1>. QED BY <1>1, <1>5

LEMMA WalkIs ==
  ASSUME NEW t, NEW i
  PROVE  Walk(t, i) = {j \in DOMAIN t : i \in Line(t, j)}
BY DEF Walk, Line

\* A walk visits the statement, and then each of its children's walks.
LEMMA WalkSplits ==
  ASSUME NEW t, IsText(t), IsTree(t), NEW i \in DOMAIN t
  PROVE  /\ Walk(t, i) = {i} \cup UNION {Walk(t, m) : m \in Children(t, i)}
         /\ \A m \in Children(t, i) : i \notin Walk(t, m)
         /\ \A m, k \in Children(t, i) : m # k => Walk(t, m) \cap Walk(t, k) = {}
<1>1. ASSUME NEW j \in DOMAIN t
      PROVE  i \in Above(t)[j] <=> \E m \in Children(t, i) : m \in Line(t, j)
  <2>1. ASSUME NEW m \in Children(t, i), m \in Line(t, j) PROVE i \in Above(t)[j]
    <3>1. Above(t)[m] = Line(t, i) /\ m \in DOMAIN t BY ChildIsAfter
    <3>2. CASE m = j BY <3>1, <3>2 DEF Line
    <3>3. CASE m # j
      <4>1. m \in Above(t)[j] BY <2>1, <3>3 DEF Line
      <4>2. Line(t, m) \subseteq Above(t)[j] BY <3>1, <4>1, AboveGrows
      <4>. QED BY <3>1, <4>2 DEF Line
    <3>. QED BY <3>2, <3>3
  <2>. QED BY <2>1, ChildExists
<1>2. Walk(t, i) = {i} \cup UNION {Walk(t, m) : m \in Children(t, i)}
  <2>1. \A j : j \in Walk(t, i) <=> j \in DOMAIN t /\ (j = i \/ i \in Above(t)[j])
    BY WalkIs DEF Line
  <2>2. \A j, m : j \in Walk(t, m) <=> j \in DOMAIN t /\ m \in Line(t, j) BY WalkIs
  <2>. QED BY <1>1, <2>1, <2>2
<1>3. ASSUME NEW m \in Children(t, i) PROVE i \notin Walk(t, m)
  <2>1. i < m /\ i \in Nat /\ m \in Nat BY ChildIsAfter, TreeHasPlaces
  <2>2. Above(t)[i] \subseteq 0..(i - 1) BY AboveIsBefore
  <2>3. m \notin Line(t, i) BY <2>1, <2>2 DEF Line
  <2>. QED BY <2>3, WalkIs
<1>4. ASSUME NEW m \in Children(t, i), NEW k \in Children(t, i), m # k
      PROVE  Walk(t, m) \cap Walk(t, k) = {}
  <2>1. \A j \in DOMAIN t : ~(m \in Line(t, j) /\ k \in Line(t, j)) BY <1>4, ChildrenApart
  <2>. QED BY <2>1, WalkIs
<1>. QED BY <1>2, <1>3, <1>4

-----------------------------------------------------------------------------
(***************************************************************************)
(* Sums over parts of a set: in any order, and part by part.               *)
(***************************************************************************)
Over(w, A) == Total([x \in A |-> w[x]])

LEMMA SumsAgree ==
  ASSUME NEW f, NEW g, IsFiniteSet(DOMAIN f), IsFiniteSet(DOMAIN g),
         NEW A \in SUBSET DOMAIN f, A \subseteq DOMAIN g, \A x \in A : f[x] = g[x]
  PROVE  Sums(f)[A] = Sums(g)[A]
<1>. DEFINE G == {s \in SUBSET A : Sums(f)[s] = Sums(g)[s]}
<1>1. ASSUME NEW s \in SUBSET A, \A x \in s : s \ {x} \in G PROVE s \in G
  <2>1. Sums(f)[s] = Adding(f, Sums(f), s) /\ Sums(g)[s] = Adding(g, Sums(g), s)
    BY SumsDefined
  <2>2. CASE s = {} BY <2>1, <2>2 DEF Adding
  <2>3. CASE s # {}
    <3>1. AnyOf(s) \in s BY <2>3 DEF AnyOf
    <3>2. f[AnyOf(s)] = g[AnyOf(s)] /\ Sums(f)[s \ {AnyOf(s)}] = Sums(g)[s \ {AnyOf(s)}]
      BY <1>1, <3>1
    <3>. QED BY <2>1, <2>3, <3>2 DEF Adding
  <2>. QED BY <2>2, <2>3
<1>2. SUBSET A \subseteq G
  <2>1. IsFiniteSet(A) BY FS_Subset
  <2>. HIDE DEF G
  <2>. QED BY <1>1, <2>1, SubsetInduction
<1>. QED BY <1>2

LEMMA OverIs ==
  ASSUME NEW D, IsFiniteSet(D), NEW w \in [D -> Nat], NEW A \in SUBSET D
  PROVE  /\ Over(w, A) \in Nat /\ Over(w, A) = Sums(w)[A] /\ IsFiniteSet(A)
         /\ Over(w, {}) = 0
<1>. DEFINE f == [x \in A |-> w[x]]
            e == [x \in {} |-> w[x]]
<1>1. IsFiniteSet(A) BY FS_Subset
<1>2. DOMAIN f = A /\ (\A x \in A : f[x] = w[x] /\ f[x] \in Nat) /\ DOMAIN e = {} OBVIOUS
<1>3. Over(w, A) = Total(f) /\ Over(w, {}) = Total(e) BY DEF Over
<1>. HIDE DEF f, e
<1>4. Total(f) = Sums(f)[A] /\ Total(f) \in Nat BY <1>1, <1>2, SumsDefined, TotalIsNatural
<1>5. Sums(f)[A] = Sums(w)[A] BY <1>1, <1>2, SumsAgree
<1>6. Total(e) = 0
  <2>1. IsFiniteSet({}) /\ {} \in SUBSET DOMAIN e BY FS_EmptySet
  <2>2. Total(e) = Sums(e)[{}] /\ Sums(e)[{}] = Adding(e, Sums(e), {})
    BY <1>2, <2>1, SumsDefined
  <2>. QED BY <2>2 DEF Adding
<1>. QED BY <1>1, <1>3, <1>4, <1>5, <1>6

LEMMA OverTakes ==
  ASSUME NEW D, IsFiniteSet(D), NEW w \in [D -> Nat], NEW A \in SUBSET D, NEW x \in A
  PROVE  Over(w, A) = w[x] + Over(w, A \ {x})
<1>. DEFINE o == Sums(w)
            G == {s \in SUBSET D : \A y \in s : o[s] = w[y] + o[s \ {y}]}
<1>1. \A s \in SUBSET D : o[s] \in Nat BY OverIs
<1>2. ASSUME NEW s \in SUBSET D, \A y \in s : s \ {y} \in G PROVE s \in G
  <2>. SUFFICES ASSUME NEW y \in s PROVE o[s] = w[y] + o[s \ {y}] OBVIOUS
  <2>. DEFINE z == AnyOf(s)
  <2>1. z \in s BY DEF AnyOf
  <2>2. o[s] = w[z] + o[s \ {z}] BY SumsDefined DEF Adding
  <2>. HIDE DEF z, o
  <2>3. CASE z = y BY <2>2, <2>3
  <2>4. CASE z # y
    <3>. DEFINE q == o[(s \ {y}) \ {z}]
    <3>1. (s \ {z}) \ {y} = (s \ {y}) \ {z} /\ (s \ {y}) \ {z} \in SUBSET D OBVIOUS
    <3>2. o[s \ {z}] = w[y] + o[(s \ {z}) \ {y}] BY <1>2, <2>1, <2>4
    <3>3. o[s \ {z}] = w[y] + q BY <3>1, <3>2
    <3>4. o[s \ {y}] = w[z] + q BY <1>2, <2>1, <2>4
    <3>5. q \in Nat /\ w[y] \in Nat /\ w[z] \in Nat BY <1>1, <2>1, <3>1
    <3>. HIDE DEF q
    <3>. QED BY <2>2, <3>3, <3>4, <3>5
  <2>. QED BY <2>3, <2>4
<1>3. SUBSET D \subseteq G
  <2>. HIDE DEF G
  <2>. QED BY <1>2, SubsetInduction
<1>4. o[A] = w[x] + o[A \ {x}] BY <1>3
<1>5. A \ {x} \in SUBSET D OBVIOUS
<1>6. Over(w, A) = o[A] /\ Over(w, A \ {x}) = o[A \ {x}] BY <1>5, OverIs
<1>. QED BY <1>4, <1>6

LEMMA OverUnion ==
  ASSUME NEW D, IsFiniteSet(D), NEW w \in [D -> Nat],
         NEW A \in SUBSET D, NEW B \in SUBSET D, A \cap B = {}
  PROVE  Over(w, A \cup B) = Over(w, A) + Over(w, B)
<1>. DEFINE G == {s \in SUBSET B : Over(w, A \cup s) = Over(w, A) + Over(w, s)}
<1>1. \A s \in SUBSET B : Over(w, A) \in Nat /\ Over(w, s) \in Nat /\ Over(w, {}) = 0
  <2>1. \A s \in SUBSET B : s \in SUBSET D OBVIOUS
  <2>. QED BY <2>1, OverIs
<1>2. ASSUME NEW s \in SUBSET B, \A x \in s : s \ {x} \in G PROVE s \in G
  <2>1. CASE s = {}
    <3>1. A \cup s = A BY <2>1
    <3>. QED BY <1>1, <2>1, <3>1
  <2>2. CASE s # {}
    <3>1. PICK x \in s : TRUE BY <2>2
    <3>. DEFINE r == s \ {x}
    <3>2. r \in SUBSET B /\ s \in SUBSET D /\ A \cup s \in SUBSET D /\ x \in A \cup s OBVIOUS
    <3>3. (A \cup s) \ {x} = A \cup r BY <3>1
    <3>4. Over(w, A \cup s) = w[x] + Over(w, A \cup r) BY <3>2, <3>3, OverTakes
    <3>5. Over(w, s) = w[x] + Over(w, r) BY <3>2, OverTakes
    <3>6. Over(w, A \cup r) = Over(w, A) + Over(w, r) BY <1>2
    <3>7. Over(w, A) \in Nat /\ Over(w, r) \in Nat /\ w[x] \in Nat BY <1>1, <3>2
    <3>8. Over(w, A \cup s) = Over(w, A) + Over(w, s)
      <4>. HIDE DEF r
      <4>. QED BY <3>4, <3>5, <3>6, <3>7
    <3>. QED BY <3>8
  <2>. QED BY <2>1, <2>2
<1>3. SUBSET B \subseteq G
  <2>1. IsFiniteSet(B) BY FS_Subset
  <2>. HIDE DEF G
  <2>. QED BY <1>2, <2>1, SubsetInduction
<1>. QED BY <1>3

LEMMA OverParts ==
  ASSUME NEW D, IsFiniteSet(D), NEW w \in [D -> Nat], NEW I, IsFiniteSet(I),
         NEW P \in [I -> SUBSET D], \A i, k \in I : i # k => P[i] \cap P[k] = {}
  PROVE  Over(w, UNION {P[i] : i \in I}) = Total([i \in I |-> Over(w, P[i])])
<1>. DEFINE g == [i \in I |-> Over(w, P[i])]
            U(T) == UNION {P[i] : i \in T}
            G == {T \in SUBSET I : Over(w, U(T)) = Over(g, T)}
<1>1. g \in [I -> Nat] BY OverIs
<1>2. \A T \in SUBSET I : U(T) \in SUBSET D OBVIOUS
<1>3. ASSUME NEW T \in SUBSET I, \A x \in T : T \ {x} \in G PROVE T \in G
  <2>1. CASE T = {}
    <3>1. U(T) = {} BY <2>1
    <3>2. Over(w, {}) = 0 BY OverIs
    <3>3. Over(g, {}) = 0
      <4>. HIDE DEF g
      <4>. QED BY <1>1, OverIs
    <3>4. Over(w, U(T)) = Over(g, T)
      <4>. HIDE DEF U, g
      <4>. QED BY <2>1, <3>1, <3>2, <3>3
    <3>. QED BY <3>4
  <2>2. CASE T # {}
    <3>1. PICK x \in T : TRUE BY <2>2
    <3>. DEFINE R == T \ {x}
                rest == U(R)
                part == P[x]
    <3>2. R \in SUBSET I OBVIOUS
    <3>3. U(T) = rest \cup part BY <3>1
    <3>4. rest \cap part = {} OBVIOUS
    <3>5. Over(w, rest) = Over(g, R) BY <1>3
    <3>6. rest \in SUBSET D /\ part \in SUBSET D BY <1>2, <3>2
    <3>7. Over(w, part) = g[x] OBVIOUS
    <3>. HIDE DEF U, g, rest, part
    <3>8. Over(w, rest \cup part) = Over(w, rest) + Over(w, part) BY <3>4, <3>6, OverUnion
    <3>9. Over(g, T) = g[x] + Over(g, R) BY <1>1, OverTakes
    <3>10. Over(g, R) \in Nat /\ g[x] \in Nat BY <1>1, <3>2, OverIs
    <3>11. Over(w, U(T)) = Over(w, rest \cup part) BY <3>3
    <3>12. Over(w, U(T)) = Over(g, T)
      <4>. HIDE DEF R
      <4>. QED BY <3>5, <3>7, <3>8, <3>9, <3>10, <3>11
    <3>. QED BY <3>12
  <2>. QED BY <2>1, <2>2
<1>4. SUBSET I \subseteq G
  <2>. HIDE DEF G
  <2>. QED BY <1>3, SubsetInduction
<1>5. Over(w, U(I)) = Over(g, I) BY <1>4
<1>6. Over(g, I) = Total(g)
  <2>1. [i \in I |-> g[i]] = g OBVIOUS
  <2>. HIDE DEF g
  <2>. QED BY <2>1 DEF Over
<1>. QED BY <1>5, <1>6

-----------------------------------------------------------------------------
(***************************************************************************)
(* The text that is being written is a tree, and its report is of it.      *)
(***************************************************************************)
ClassesApart(t) ==
  \A i, j \in DOMAIN t :
    t[i].kind = "class" /\ t[j].kind = "class" /\ t[i].name = t[j].name => i = j

TextInv ==
  /\ IsTree(text) /\ ClassesApart(text)
  /\ found # None /\ text # <<>> => found.code = Parsed(text)

Placed(s, up, slot) == [s EXCEPT !.up = up, !.slot = slot]

LEMMA TextAppends ==
  ASSUME NEW t, IsText(t), NEW s, IsStatement(s), NEW up, NEW slot, NEW r,
         r = Append(t, Placed(s, up, slot))
  PROVE  /\ Len(t) \in Nat /\ DOMAIN t = 1..Len(t) /\ DOMAIN r = 1..(Len(t) + 1)
         /\ \A i \in DOMAIN t : r[i] = t[i]
         /\ r[Len(t) + 1].up = up /\ r[Len(t) + 1].slot = slot
         /\ r[Len(t) + 1].kind = s.kind /\ r[Len(t) + 1].name = s.name
<1>. DEFINE new == Placed(s, up, slot)
            S == ToSet(t) \cup {new}
<1>1. new.up = up /\ new.slot = slot /\ new.kind = s.kind /\ new.name = s.name
  BY DEF IsStatement, Placed
<1>2. t \in Seq(S) /\ new \in S
  <2>1. t \in Seq(ToSet(t)) BY DEF IsText
  <2>2. ToSet(t) \subseteq S /\ new \in S OBVIOUS
  <2>. HIDE DEF S
  <2>. QED BY <2>1, <2>2
<1>3. r = Append(t, new) OBVIOUS
<1>. HIDE DEF new, S
<1>4. r \in Seq(S) /\ Len(r) = Len(t) + 1 /\ Len(t) \in Nat /\ r[Len(t) + 1] = new
      /\ \A i \in 1..Len(t) : r[i] = t[i]
  BY <1>2, <1>3
<1>5. DOMAIN t = 1..Len(t) /\ DOMAIN r = 1..(Len(t) + 1) BY <1>2, <1>4
<1>. QED BY <1>1, <1>4, <1>5

LEMMA TreeGrows ==
  ASSUME NEW t, IsText(t), IsTree(t), NEW s, IsStatement(s), NEW up, NEW slot, NEW p, p[1] = up,
         p[2] = slot, p \in Places(t, s.kind), NEW r, r = Append(t, Placed(s, up, slot))
  PROVE  IsTree(r)
<1>. DEFINE n == Len(t)
            path == {0, n} \cup Above(t)[n]
            owners == {j \in path : Kind(t, j) \in DOMAIN Slots}
<1>1. /\ n \in Nat /\ DOMAIN t = 1..n /\ DOMAIN r = 1..(n + 1)
      /\ \A i \in DOMAIN t : r[i] = t[i]
      /\ r[n + 1].up = up /\ r[n + 1].slot = slot /\ r[n + 1].kind = s.kind
  BY TextAppends
<1>2. /\ \E i \in path : /\ Kind(t, i) \in DOMAIN Slots
                         /\ up = i /\ slot \in ToSet(Slots[Kind(t, i)])
      /\ (slot = "parts") = (s.kind \in {"handler", "case"})
      /\ s.kind = "handler" => Kind(t, up) = "try"
      /\ s.kind = "case" => Kind(t, up) = "match"
  <2>1. /\ p \in UNION {{i} \X ToSet(Slots[Kind(t, i)]) : i \in owners}
        /\ (p[2] = "parts") = (s.kind \in {"handler", "case"})
        /\ s.kind = "handler" => Kind(t, p[1]) = "try"
        /\ s.kind = "case" => Kind(t, p[1]) = "match"
    BY DEF Places
  <2>2. PICK i \in owners : p \in {i} \X ToSet(Slots[Kind(t, i)]) BY <2>1
  <2>. QED BY <2>1, <2>2
<1>3. path \subseteq 0..n
  <2>1. n \in 0..n BY <1>1
  <2>2. Above(t)[n] \in SUBSET (0..n) BY <2>1, AboveIs
  <2>. QED BY <1>1, <2>1, <2>2
<1>4. \A i \in 0..n : Kind(r, i) = Kind(t, i)
  <2>1. \A i \in 0..n : i = 0 \/ i \in DOMAIN t BY <1>1
  <2>. QED BY <1>1, <2>1 DEF Kind
<1>5. up \in 0..n /\ Kind(t, up) \in DOMAIN Slots /\ slot \in ToSet(Slots[Kind(t, up)])
  BY <1>2, <1>3
<1>6. (n + 1) - 1 = n BY <1>1
<1>. HIDE DEF path, n
<1>7. ASSUME NEW i \in DOMAIN r
      PROVE  LET u == r[i].up
             IN /\ u \in 0..(i - 1)
                /\ Kind(r, u) \in DOMAIN Slots
                /\ r[i].slot \in ToSet(Slots[Kind(r, u)])
                /\ (r[i].slot = "parts") = (r[i].kind \in {"handler", "case"})
                /\ r[i].kind = "handler" => Kind(r, u) = "try"
                /\ r[i].kind = "case" => Kind(r, u) = "match"
  <2>1. CASE i \in DOMAIN t
    <3>1. r[i] = t[i] BY <1>1, <2>1
    <3>2. t[i].up \in 0..n BY <2>1, TreeHasPlaces DEF n
    <3>3. Kind(r, t[i].up) = Kind(t, t[i].up) BY <1>4, <3>2
    <3>. QED BY <2>1, <3>1, <3>3 DEF IsTree
  <2>2. CASE i = n + 1
    <3>1. Kind(r, up) = Kind(t, up) BY <1>4, <1>5
    <3>. QED BY <1>1, <1>2, <1>5, <1>6, <2>2, <3>1
  <2>. QED BY <1>1, <2>1, <2>2
<1>. QED BY <1>7 DEF IsTree

LEMMA WriteIsTree ==
  ASSUME TypeInv, TextInv, Write
  PROVE  TextInv'
<1>0. PICK s \in Lines : \E p \in Places(text, s.kind) :
        /\ s.kind = "class" => \A i \in DOMAIN text : text[i].kind # "class" \/ text[i].name # s.name
        /\ text' = Append(text, [s EXCEPT !.up = p[1], !.slot = p[2]])
  BY DEF Write
<1>1. PICK p \in Places(text, s.kind) :
        /\ s.kind = "class" => \A i \in DOMAIN text : text[i].kind # "class" \/ text[i].name # s.name
        /\ text' = Append(text, [s EXCEPT !.up = p[1], !.slot = p[2]])
  BY <1>0
<1>2. IsText(text) /\ IsTree(text) /\ ClassesApart(text) /\ IsStatement(s)
  BY StudyAssumption DEF TypeInv, TextInv
<1>. DEFINE r == text'
            up == p[1]
            slot == p[2]
<1>3. r = Append(text, Placed(s, up, slot)) /\ p[1] = up /\ p[2] = slot BY <1>1 DEF Placed
<1>. HIDE DEF r, up, slot
<1>4. IsTree(r) BY <1>2, <1>3, TreeGrows
<1>5. ClassesApart(r)
  <2>1. /\ Len(text) \in Nat /\ DOMAIN text = 1..Len(text) /\ DOMAIN r = 1..(Len(text) + 1)
        /\ \A i \in DOMAIN text : r[i] = text[i]
        /\ r[Len(text) + 1].kind = s.kind /\ r[Len(text) + 1].name = s.name
    BY <1>2, <1>3, TextAppends
  <2>2. \A i \in DOMAIN r : i \in DOMAIN text \/ i = Len(text) + 1 BY <2>1
  <2>. QED BY <1>1, <1>2, <2>1, <2>2 DEF ClassesApart
<1>6. found' = None BY DEF Write
<1>. QED BY <1>4, <1>5, <1>6 DEF TextInv, IsTree, ClassesApart, Kind, r

LEMMA TextRests ==
  ASSUME TextInv, text' = text, found' \in {found, None}
  PROVE  TextInv'
<1>1. found' # None => found' = found OBVIOUS
<1>. QED BY <1>1 DEF TextInv, IsTree, ClassesApart, Kind

LEMMA TextStep == TypeInv /\ TextInv /\ [Next]_vars => TextInv'
<1>. SUFFICES ASSUME TypeInv, TextInv, [Next]_vars PROVE TextInv' OBVIOUS
<1>1. CASE UNCHANGED vars BY <1>1, TextRests DEF vars
<1>2. CASE \E s \in Source : Edit(s) BY <1>2, TextRests DEF Edit
<1>3. CASE Write BY <1>3, WriteIsTree
<1>4. CASE Detect
  <2>1. text' = text BY <1>4 DEF Detect
  <2>2. text # <<>> => found'.code = Parsed(text) BY <1>4 DEF Detect
  <2>3. Parsed(text)' = Parsed(text) BY <2>1
  <2>. QED BY <2>1, <2>2, <2>3 DEF TextInv, IsTree, ClassesApart, Kind
<1>5. CASE \E sources \in SourceSets : Create(sources) \/ Prepare(sources)
  BY <1>5, TextRests DEF Create, Prepare
<1>6. CASE \E label \in {"present", "absent", "uncertain"} : Review(label)
  BY <1>6, TextRests DEF Review
<1>7. CASE Finalize BY <1>7, TextRests DEF Finalize
<1>8. CASE \E kinds \in Kinds, share \in Shares : BeginTraining(kinds, share)
  BY <1>8, TextRests DEF BeginTraining
<1>9. CASE TakeSmell BY <1>9, TextRests DEF TakeSmell
<1>10. CASE DumpModel BY <1>10, TextRests DEF DumpModel
<1>11. CASE WriteCard BY <1>11, TextRests DEF WriteCard
<1>12. CASE EndTraining BY <1>12, TextRests DEF EndTraining
<1>13. CASE Interrupt BY <1>13, TextRests DEF Interrupt
<1>14. CASE \E kinds \in Kinds : Logo(kinds) BY <1>14, TextRests DEF Logo
<1>. QED BY <1>1, <1>2, <1>3, <1>4, <1>5, <1>6, <1>7, <1>8, <1>9, <1>10, <1>11, <1>12,
            <1>13, <1>14 DEF Next

LEMMA TextHolds == Spec => [](TypeInv /\ TextInv)
<1>1. Init => TextInv BY DEF Init, TextInv, IsTree, ClassesApart
<1>2. TypeInv /\ TextInv /\ [Next]_vars => TypeInv' /\ TextInv' BY TypeStep, TextStep
<1>. QED BY <1>1, <1>2, TypesBegin, PTL DEF Spec

-----------------------------------------------------------------------------
(***************************************************************************)
(* Methods.  They are found by the path of their class, which is its own.  *)
(***************************************************************************)
LEMMA PathIs ==
  ASSUME NEW t, IsText(t), IsTree(t)
  PROVE  LET names == {t[i].name : i \in DOMAIN t}
         IN /\ Path(t) \in [0..Len(t) -> Seq(names)]
            /\ \A i \in DOMAIN t : Path(t)[i] = Append(Path(t)[t[i].up], t[i].name)
<1>. DEFINE n == Len(t)
            D == 0..n
            names == {t[i].name : i \in DOMAIN t}
            V == Seq(names)
            rank == [x \in D |-> x]
            step == [a \in D \X [D -> V] |->
                       IF a[1] = 0 THEN <<>> ELSE Append(a[2][t[a[1]].up], t[a[1]].name)]
<1>1. n \in Nat /\ DOMAIN t = 1..n BY TreeHasPlaces
<1>2. \A x \in D : x # 0 => x \in DOMAIN t /\ t[x].up \in D /\ t[x].up < x /\ t[x].name \in names
  <2>1. \A x \in D : x # 0 => x \in DOMAIN t BY <1>1
  <2>. QED BY <2>1, TreeHasPlaces
<1>3. step \in [D \X [D -> V] -> V]
  <2>1. ASSUME NEW x \in D, NEW f \in [D -> V]
        PROVE  (IF x = 0 THEN <<>> ELSE Append(f[t[x].up], t[x].name)) \in V
    <3>1. CASE x = 0 BY <3>1
    <3>2. CASE x # 0
      <4>1. t[x].up \in D /\ t[x].name \in names BY <1>2, <3>2
      <4>. HIDE DEF names
      <4>. QED BY <3>2, <4>1
    <3>. QED BY <3>1, <3>2
  <2>. HIDE DEF V
  <2>. QED BY <2>1
<1>4. \A x \in D : \A f, g \in [D -> V] :
        (\A y \in D : rank[y] < rank[x] => f[y] = g[y]) => step[<<x, f>>] = step[<<x, g>>]
  <2>. SUFFICES ASSUME NEW x \in D, NEW f \in [D -> V], NEW g \in [D -> V],
                       \A y \in D : rank[y] < rank[x] => f[y] = g[y]
                PROVE  step[<<x, f>>] = step[<<x, g>>]
    OBVIOUS
  <2>. HIDE DEF V
  <2>. QED BY <1>2
<1>5. rank \in [D -> 0..n] /\ V # {}
  <2>1. <<>> \in V OBVIOUS
  <2>. QED BY <1>1, <2>1
<1>6. \E f \in [D -> V] : \A x \in D : f[x] = step[<<x, f>>]
  <2>1. Descends(D, V, n, rank, step)
    <3>. HIDE DEF rank, step, D, V, n
    <3>. QED BY <1>1, <1>3, <1>4, <1>5 DEF Descends
  <2>. HIDE DEF rank, step, D, V, n
  <2>. QED BY <2>1, RecursionExists
<1>7. PICK f \in [D -> V] : \A x \in D : f[x] = step[<<x, f>>] BY <1>6
<1>. DEFINE Is(g) == g = [i \in 0..Len(t) |->
                            IF i = 0 THEN <<>> ELSE Append(g[t[i].up], t[i].name)]
            path == CHOOSE g : Is(g)
<1>8. Is(f)
  <2>. HIDE DEF V
  <2>. QED BY <1>7
<1>9. Is(path)
  <2>. HIDE DEF Is
  <2>. QED BY <1>8
<1>10. Path(t) = path BY DEF Path
<1>. HIDE DEF path
<1>11. Path(t) = [i \in 0..Len(t) |-> IF i = 0 THEN <<>> ELSE Append(Path(t)[t[i].up], t[i].name)]
  BY <1>9, <1>10
<1>12. \A i \in DOMAIN t : Path(t)[i] = Append(Path(t)[t[i].up], t[i].name)
  <2>1. \A i \in DOMAIN t : i \in 0..n /\ i # 0 BY <1>1
  <2>. QED BY <1>11, <2>1
<1>. DEFINE H == {k \in Nat : \A i \in 0..k : i <= n => Path(t)[i] \in V}
<1>13. Nat \subseteq H
  <2>1. 0 \in H
    <3>1. Path(t)[0] = <<>> BY <1>1, <1>11
    <3>. QED BY <3>1
  <2>2. ASSUME NEW k \in Nat, k \in H PROVE k + 1 \in H
    <3>1. ASSUME NEW i \in 0..(k + 1), i <= n PROVE Path(t)[i] \in V
      <4>1. CASE i \in 0..k BY <2>2, <3>1, <4>1
      <4>2. CASE i = k + 1
        <5>1. i \in D /\ i # 0 BY <1>1, <3>1, <4>2
        <5>2. i \in DOMAIN t /\ t[i].up \in 0..n /\ t[i].up < i /\ t[i].name \in names
          BY <1>2, <5>1
        <5>3. t[i].up \in 0..k /\ t[i].up <= n BY <1>1, <4>2, <5>2
        <5>4. Path(t)[t[i].up] \in V BY <2>2, <5>3
        <5>5. Path(t)[i] = Append(Path(t)[t[i].up], t[i].name) BY <1>12, <5>2
        <5>6. \A p \in V : \A x \in names : Append(p, x) \in V
          <6>. HIDE DEF names
          <6>. QED OBVIOUS
        <5>. HIDE DEF V, names
        <5>. QED BY <5>2, <5>4, <5>5, <5>6
      <4>. QED BY <4>1, <4>2
    <3>. HIDE DEF V
    <3>. QED BY <3>1
  <2>. HIDE DEF H
  <2>. QED BY <2>1, <2>2, NaturalInduction
<1>14. \A i \in 0..n : Path(t)[i] \in V
  <2>. HIDE DEF V
  <2>1. \A i \in 0..n : i \in Nat /\ i \in 0..i /\ i <= n BY <1>1
  <2>. QED BY <1>13, <2>1
<1>15. Path(t) \in [0..n -> V]
  <2>. HIDE DEF V, n
  <2>. QED BY <1>11, <1>14 DEF n
<1>. QED BY <1>12, <1>15

\* The methods of a class are the functions it has itself.
LEMMA MethodsAreOwn ==
  ASSUME NEW t, IsText(t), IsTree(t), ClassesApart(t),
         NEW c \in Entities(t), t[c].kind = "class"
  PROVE  MethodsOf(t, c) = {i \in DOMAIN t : t[i].kind = "def" /\ t[i].up = c}
<1>. DEFINE names == {t[i].name : i \in DOMAIN t}
<1>1. /\ Path(t) \in [0..Len(t) -> Seq(names)]
      /\ \A i \in DOMAIN t : Path(t)[i] = Append(Path(t)[t[i].up], t[i].name)
  BY PathIs
<1>2. /\ Len(t) \in Nat /\ DOMAIN t = 1..Len(t) /\ c \in DOMAIN t
      /\ \A i \in DOMAIN t : t[i].up \in 0..Len(t) /\ t[i].up < i
  BY TreeHasPlaces DEF Entities
<1>3. ASSUME NEW d \in DOMAIN t, t[d].kind = "class", Path(t)[d] = Path(t)[c] PROVE d = c
  <2>1. /\ Path(t)[d] = Append(Path(t)[t[d].up], t[d].name)
        /\ Path(t)[c] = Append(Path(t)[t[c].up], t[c].name)
        /\ Path(t)[t[d].up] \in Seq(names) /\ Path(t)[t[c].up] \in Seq(names)
        /\ t[d].name \in names /\ t[c].name \in names
    BY <1>1, <1>2
  <2>2. \A p, q \in Seq(names) : \A x, y \in names : Append(p, x) = Append(q, y) => x = y
    <3>. HIDE DEF names
    <3>1. ASSUME NEW p \in Seq(names), NEW q \in Seq(names), NEW x \in names, NEW y \in names,
                 Append(p, x) = Append(q, y)
          PROVE  x = y
      <4>1. Len(p) + 1 = Len(q) + 1 /\ Len(p) \in Nat /\ Len(q) \in Nat BY <3>1, AppendProperties
      <4>2. Append(p, x)[Len(p) + 1] = x /\ Append(q, y)[Len(q) + 1] = y BY AppendProperties
      <4>. QED BY <3>1, <4>1, <4>2
    <3>. QED BY <3>1
  <2>3. t[d].name = t[c].name
    <3>. HIDE DEF names
    <3>. QED BY <1>3, <2>1, <2>2
  <2>. QED BY <1>2, <1>3, <2>3 DEF ClassesApart
<1>4. ASSUME NEW i \in MethodsOf(t, c) PROVE i \in DOMAIN t /\ t[i].kind = "def" /\ t[i].up = c
  <2>1. /\ i \in Entities(t) /\ t[i].kind = "def"
        /\ Kind(t, t[i].up) = "class" /\ Path(t)[t[i].up] = Path(t)[c]
    BY DEF MethodsOf
  <2>2. i \in DOMAIN t BY <2>1 DEF Entities
  <2>3. t[i].up # 0 /\ t[t[i].up].kind = "class" BY <2>1 DEF Kind
  <2>4. t[i].up \in DOMAIN t BY <1>2, <2>2, <2>3
  <2>. QED BY <1>3, <2>1, <2>2, <2>3, <2>4
<1>5. ASSUME NEW i \in DOMAIN t, t[i].kind = "def", t[i].up = c PROVE i \in MethodsOf(t, c)
  <2>1. Above(t)[i] = {c} \cup Above(t)[c] BY <1>5, AboveIs
  <2>2. \A j \in {c} \cup Above(t)[c] : Kind(t, j) \in Definitions \cup {"file"} BY DEF Entities
  <2>3. Kind(t, i) = "def" /\ Kind(t, c) = "class" BY <1>2, <1>5 DEF Kind
  <2>4. \A j \in {i} \cup Above(t)[i] : Kind(t, j) \in Definitions \cup {"file"}
    BY <2>1, <2>2, <2>3 DEF Definitions
  <2>5. i \in Entities(t) BY <2>4 DEF Entities
  <2>. QED BY <1>5, <2>3, <2>5 DEF MethodsOf
<1>. QED BY <1>4, <1>5

LEMMA RecordedIsItself ==
  ASSUME NEW t, IsText(t), NEW i \in Entities(t),
         \A j \in Entities(t) : Path(t)[i] = Path(t)[j] => i = j
  PROVE  Recorded(t, i) = i
<1>1. {j \in Entities(t) : Path(t)[j] = Path(t)[i]} = {i} OBVIOUS
<1>2. i \in Nat BY SequenceIsFew DEF IsText, Entities
<1>3. Recorded(t, i) = Max({i}) BY <1>1 DEF Recorded
<1>. QED BY <1>2, <1>3 DEF Max

LEMMA MethodsFollow == TypeInv /\ TextInv => MethodsCountOnce
<1>. SUFFICES ASSUME TypeInv, TextInv, found # None, text # <<>>,
                     NEW c \in DOMAIN found.features
              PROVE  LET own == {i \in Functions : text[i].up = c}
                     IN /\ found.features[c].methods = Rat(Cardinality(own))
                        /\ (\A i \in own, j \in Entities(text) :
                              Path(text)[i] = Path(text)[j] => i = j) =>
                             found.features[c].wmc
                               = Rat(Total([i \in own |-> CyclomaticComplexity(text, i)]))
  BY DEF MethodsCountOnce
<1>. DEFINE code == Parsed(text)
            own == {i \in Functions : text[i].up = c}
            methods == code.class[c].methods
            complexity == [i \in DOMAIN methods |-> methods[i].complexity]
            its == [i \in own |-> CyclomaticComplexity(text, i)]
<1>1. /\ IsText(text) /\ IsTree(text) /\ ClassesApart(text)
      /\ IsCodeBase(code) /\ found.features = Analyse(code)
  BY ParsedIsCodeBase DEF TypeInv, TextInv, FoundIsAnalysed
<1>2. c \in Classes(code) BY <1>1, AnalyseIsTyped
<1>3. /\ c \in Entities(text) /\ text[c].kind = "class" /\ code.odd = {}
      /\ DOMAIN methods = MethodsOf(text, c)
      /\ \A j \in MethodsOf(text, c) :
           methods[j].complexity = CyclomaticComplexity(text, Recorded(text, j))
  <2>1. DOMAIN code.class = {j \in Entities(text) : text[j].kind = "class"} /\ code.odd = {}
    BY DEF Parsed
  <2>2. c \in Entities(text) /\ text[c].kind = "class" BY <1>2, <2>1 DEF Classes
  <2>3. /\ DOMAIN methods = MethodsOf(text, c)
        /\ \A j \in MethodsOf(text, c) :
             methods[j].complexity = CyclomaticComplexity(text, Recorded(text, j))
    BY <2>2 DEF Parsed
  <2>. QED BY <2>1, <2>2, <2>3
<1>4. /\ found.features[c].methods = Rat(Cardinality(DOMAIN methods))
      /\ found.features[c].wmc = Rat(Total(complexity))
  <2>1. c \notin code.odd BY <1>3
  <2>. HIDE DEF code
  <2>2. Analyse(code)[c] = Computed(code, Depths(code), c) BY <1>2, <2>1 DEF Analyse
  <2>3. /\ Computed(code, Depths(code), c).methods = Rat(Cardinality(DOMAIN methods))
        /\ Computed(code, Depths(code), c).wmc = Rat(Total(complexity))
    BY DEF Computed, Complexity
  <2>. QED BY <1>1, <2>2, <2>3
<1>5. DOMAIN methods = own
  <2>1. MethodsOf(text, c) = {i \in DOMAIN text : text[i].kind = "def" /\ text[i].up = c}
    BY <1>1, <1>3, MethodsAreOwn
  <2>. HIDE DEF methods
  <2>. QED BY <1>3, <2>1 DEF Functions
<1>6. ASSUME \A i \in own, j \in Entities(text) : Path(text)[i] = Path(text)[j] => i = j
      PROVE  complexity = its
  <2>1. ASSUME NEW i \in own PROVE methods[i].complexity = CyclomaticComplexity(text, i)
    <3>1. i \in MethodsOf(text, c)
      <4>. HIDE DEF own, methods
      <4>. QED BY <1>3, <1>5
    <3>2. i \in Entities(text) BY <3>1 DEF MethodsOf
    <3>3. \A j \in Entities(text) : Path(text)[i] = Path(text)[j] => i = j BY <1>6
    <3>4. Recorded(text, i) = i BY <1>1, <3>2, <3>3, RecordedIsItself
    <3>. QED BY <1>3, <3>1, <3>4
  <2>. HIDE DEF methods, own
  <2>. QED BY <1>5, <2>1
<1>. HIDE DEF complexity, methods, code
<1>. QED BY <1>4, <1>5, <1>6

-----------------------------------------------------------------------------
(***************************************************************************)
(* Depth in a function: how many of the marked statements, inside of it, a *)
(* statement is in.                                                        *)
(***************************************************************************)
Inside(t, f) == Walk(t, f) \ {f}

Deep(t, f, M, j) == Cardinality({k \in Line(t, j) \cap Inside(t, f) : k \in M})

LEMMA HasGreatest ==
  ASSUME NEW S, IsFiniteSet(S), S \subseteq Nat, S # {}
  PROVE  Max(S) \in S /\ \A x \in S : x <= Max(S)
<1>. DEFINE G == {T \in SUBSET S : \E b \in Nat : \A x \in T : x <= b}
<1>1. ASSUME NEW T \in SUBSET S, \A x \in T : T \ {x} \in G PROVE T \in G
  <2>1. CASE T = {} BY <2>1
  <2>2. CASE T # {}
    <3>1. PICK x \in T : TRUE BY <2>2
    <3>2. PICK b \in Nat : \A y \in T \ {x} : y <= b BY <1>1, <3>1
    <3>3. \A y \in T : y <= b + x BY <3>1, <3>2
    <3>4. b + x \in Nat BY <3>1
    <3>. QED BY <3>3, <3>4
  <2>. QED BY <2>1, <2>2
<1>2. SUBSET S \subseteq G
  <2>. HIDE DEF G
  <2>. QED BY <1>1, SubsetInduction
<1>3. PICK b \in Nat : \A x \in S : x <= b BY <1>2
<1>. QED BY <1>3, GreatestExists

LEMMA InsideIs ==
  ASSUME NEW t, IsText(t), IsTree(t), NEW f \in DOMAIN t
  PROVE  /\ Inside(t, f) = {j \in DOMAIN t : f \in Above(t)[j]}
         /\ Inside(t, f) = {j \in DOMAIN t : f \in Line(t, j) /\ f # j}
         /\ Line(t, f) \cap Inside(t, f) = {}
         /\ \A j \in Inside(t, f) :
              /\ f < j /\ (t[j].up = f \/ t[j].up \in Inside(t, f))
              /\ Line(t, j) = {j} \cup Line(t, t[j].up)
              /\ j \notin Line(t, t[j].up)
<1>1. \A i \in DOMAIN t : Above(t)[i] \subseteq 0..(i - 1) BY AboveIsBefore
<1>2. Len(t) \in Nat /\ DOMAIN t = 1..Len(t) BY TreeHasPlaces
<1>3. \A i \in DOMAIN t : i \notin Above(t)[i] BY <1>1, <1>2
<1>4. Inside(t, f) = {j \in DOMAIN t : f \in Above(t)[j]}
  BY <1>3, WalkIs DEF Inside, Line
<1>5. Inside(t, f) = {j \in DOMAIN t : f \in Line(t, j) /\ f # j}
  BY <1>3, <1>4 DEF Line
<1>6. Line(t, f) \cap Inside(t, f) = {}
  <2>. SUFFICES ASSUME NEW k \in Line(t, f), k \in Inside(t, f) PROVE FALSE OBVIOUS
  <2>1. k \in DOMAIN t /\ f \in Above(t)[k] BY <1>4
  <2>2. f < k BY <1>1, <1>2, <2>1
  <2>3. k = f \/ k < f BY <1>1, <1>2 DEF Line
  <2>. QED BY <1>2, <2>1, <2>2, <2>3
<1>7. ASSUME NEW j \in Inside(t, f)
      PROVE  /\ f < j /\ (t[j].up = f \/ t[j].up \in Inside(t, f))
             /\ Line(t, j) = {j} \cup Line(t, t[j].up)
             /\ j \notin Line(t, t[j].up)
  <2>. DEFINE u == t[j].up
  <2>1. j \in DOMAIN t /\ f \in Above(t)[j] BY <1>4
  <2>2. Above(t)[j] = {u} \cup Above(t)[u] /\ Above(t)[0] = {} /\ u \in 0..Len(t) /\ u < j
    BY <2>1, AboveIs, TreeHasPlaces
  <2>3. Above(t)[j] = Line(t, u) BY <2>2 DEF Line
  <2>. HIDE DEF u
  <2>4. f < j BY <1>1, <1>2, <2>1
  <2>5. u = f \/ u \in Inside(t, f)
    <3>. SUFFICES ASSUME u # f PROVE u \in Inside(t, f) OBVIOUS
    <3>1. f \in Above(t)[u] BY <2>1, <2>2
    <3>2. u # 0 BY <2>2, <3>1
    <3>3. u \in DOMAIN t BY <1>2, <2>2, <3>2
    <3>. QED BY <1>4, <3>1, <3>3
  <2>6. j \notin Line(t, u) BY <1>3, <2>1, <2>3
  <2>. QED BY <2>3, <2>4, <2>5, <2>6 DEF Line, u
<1>. QED BY <1>4, <1>5, <1>6, <1>7

LEMMA LineIsFew ==
  ASSUME NEW t, IsText(t), IsTree(t), NEW f \in DOMAIN t, NEW M, NEW j
  PROVE  /\ IsFiniteSet({k \in Line(t, j) \cap Inside(t, f) : k \in M})
         /\ Deep(t, f, M, j) \in Nat
<1>1. IsFiniteSet(DOMAIN t) BY SequenceIsFew DEF IsText
<1>2. {k \in Line(t, j) \cap Inside(t, f) : k \in M} \in SUBSET DOMAIN t BY InsideIs
<1>3. IsFiniteSet({k \in Line(t, j) \cap Inside(t, f) : k \in M}) BY <1>1, <1>2, FS_Subset
<1>. QED BY <1>3, FS_CardinalityType DEF Deep

\* A statement is as deep as the one it belongs to, or one deeper.
LEMMA DeepOfChild ==
  ASSUME NEW t, IsText(t), IsTree(t), NEW f \in DOMAIN t, NEW M, NEW j \in Inside(t, f)
  PROVE  Deep(t, f, M, j) =
           (IF t[j].up = f THEN 0 ELSE Deep(t, f, M, t[j].up)) + (IF j \in M THEN 1 ELSE 0)
<1>. DEFINE u == t[j].up
            S == {k \in Line(t, j) \cap Inside(t, f) : k \in M}
            R == {k \in Line(t, u) \cap Inside(t, f) : k \in M}
<1>1. Line(t, j) = {j} \cup Line(t, u) /\ j \notin Line(t, u) BY InsideIs
<1>2. j \notin R BY <1>1
<1>3. S = IF j \in M THEN R \cup {j} ELSE R BY <1>1
<1>4. IsFiniteSet(R) /\ Cardinality(R) \in Nat /\ Deep(t, f, M, u) = Cardinality(R)
  BY LineIsFew DEF Deep
<1>5. Cardinality(R \cup {j}) = Cardinality(R) + 1
  <2>. HIDE DEF R
  <2>. QED BY <1>2, <1>4, FS_AddElement
<1>6. Cardinality(S) = Cardinality(R) + IF j \in M THEN 1 ELSE 0
  <2>. HIDE DEF R, S
  <2>. QED BY <1>3, <1>4, <1>5
<1>7. u = f => Cardinality(R) = 0
  <2>1. u = f => R = {} BY InsideIs
  <2>. HIDE DEF R
  <2>. QED BY <2>1, FS_EmptySet
<1>8. Deep(t, f, M, j) = Cardinality(S) BY DEF Deep
<1>. HIDE DEF R, S
<1>. QED BY <1>4, <1>6, <1>7, <1>8

\* A child of f, or of what is inside of f, is inside; and so is what is in it.
LEMMA InsideGrows ==
  ASSUME NEW t, IsText(t), IsTree(t), NEW f \in DOMAIN t
  PROVE  /\ Children(t, f) \subseteq Inside(t, f)
         /\ \A i \in Inside(t, f) : Walk(t, i) \subseteq Inside(t, f)
         /\ Inside(t, f) = UNION {Walk(t, m) : m \in Children(t, f)}
<1>1. \A m \in Children(t, f) : m \in DOMAIN t /\ Above(t)[m] = Line(t, f) BY ChildIsAfter
<1>2. Children(t, f) \subseteq Inside(t, f) BY <1>1, InsideIs DEF Line
<1>3. ASSUME NEW i \in Inside(t, f), NEW j \in Walk(t, i) PROVE j \in Inside(t, f)
  <2>1. i \in DOMAIN t /\ f \in Above(t)[i] BY InsideIs
  <2>2. j \in DOMAIN t /\ (j = i \/ i \in Above(t)[j]) BY WalkIs DEF Line
  <2>3. CASE j = i BY <2>3
  <2>4. CASE i \in Above(t)[j]
    <3>1. Line(t, i) \subseteq Above(t)[j] BY <2>1, <2>2, <2>4, AboveGrows
    <3>. QED BY <2>1, <2>2, <3>1, InsideIs DEF Line
  <2>. QED BY <2>2, <2>3, <2>4
<1>4. Inside(t, f) = UNION {Walk(t, m) : m \in Children(t, f)}
  BY WalkSplits DEF Inside
<1>. QED BY <1>2, <1>3, <1>4

-----------------------------------------------------------------------------
(***************************************************************************)
(* Nesting: the walk keeps the greatest depth, which it computes downwards.*)
(***************************************************************************)
LEMMA InnerIsLater ==
  ASSUME NEW t, IsText(t), IsTree(t), NEW i \in DOMAIN t
  PROVE  /\ Inner(t, i) \subseteq DOMAIN t /\ IsFiniteSet(Inner(t, i))
         /\ \A j \in Inner(t, i) : i < j
<1>1. Inner(t, i) \in SUBSET DOMAIN t BY DEF Inner
<1>2. IsFiniteSet(DOMAIN t) /\ Len(t) \in Nat /\ DOMAIN t = 1..Len(t)
  BY SequenceIsFew DEF IsText
<1>3. ASSUME NEW j \in Inner(t, i) PROVE i < j
  <2>1. j \in DOMAIN t /\ t[j].up \in 0..Len(t) /\ t[j].up < j BY <1>1, TreeHasPlaces
  <2>2. CASE t[j].up = i BY <2>1, <2>2
  <2>3. CASE t[j].up # i
    <3>1. Kind(t, t[j].up) = "handler" /\ t[t[j].up].up = i BY <2>3 DEF Inner
    <3>2. t[j].up # 0 BY <3>1 DEF Kind
    <3>3. t[j].up \in DOMAIN t BY <1>2, <2>1, <3>2
    <3>4. i < t[j].up BY <3>1, <3>3, TreeHasPlaces
    <3>. QED BY <1>2, <2>1, <3>3, <3>4
  <2>. QED BY <2>2, <2>3
<1>. QED BY <1>1, <1>2, <1>3, FS_Subset

LEMMA InnermostIs ==
  ASSUME NEW t, IsText(t), IsTree(t), NEW i \in DOMAIN t, NEW here \in Nat,
         NEW f, \A j \in Inner(t, i) : f[<<j, here>>] \in Nat
  PROVE  /\ Innermost(t, f, i, here) \in Nat
         /\ here <= Innermost(t, f, i, here)
         /\ \A j \in Inner(t, i) : f[<<j, here>>] <= Innermost(t, f, i, here)
         /\ \/ Innermost(t, f, i, here) = here
            \/ \E j \in Inner(t, i) : Innermost(t, f, i, here) = f[<<j, here>>]
<1>. DEFINE inner == [j \in Inner(t, i) |-> f[<<j, here>>]]
            values == {inner[j] : j \in Inner(t, i)}
            S == {here} \cup values
<1>1. IsFiniteSet(Inner(t, i)) BY InnerIsLater
<1>2. Innermost(t, f, i, here) = Max(S) BY DEF Innermost
<1>3. values \subseteq Nat OBVIOUS
<1>4. IsFiniteSet(values)
  <2>. HIDE DEF inner
  <2>. QED BY <1>1, FiniteImage
<1>5. IsFiniteSet(S) /\ S \subseteq Nat /\ S # {}
  <2>1. IsFiniteSet({here}) BY FS_Singleton
  <2>. HIDE DEF values
  <2>. QED BY <1>3, <1>4, <2>1, FS_Union
<1>6. Max(S) \in S /\ \A x \in S : x <= Max(S)
  <2>. HIDE DEF S
  <2>. QED BY <1>5, HasGreatest
<1>7. here \in S /\ \A j \in Inner(t, i) : f[<<j, here>>] \in S OBVIOUS
<1>8. \A x \in S : x = here \/ \E j \in Inner(t, i) : x = f[<<j, here>>] OBVIOUS
<1>. HIDE DEF S, values
<1>. QED BY <1>2, <1>5, <1>6, <1>7, <1>8

LEMMA NestingIs ==
  ASSUME NEW t, IsText(t), IsTree(t)
  PROVE  \A i \in DOMAIN t : \A d \in Nat :
           /\ Nesting(t)[<<i, d>>] \in Nat
           /\ Nesting(t)[<<i, d>>] = Innermost(t, Nesting(t), i, d + Deeper(t[i]))
<1>. DEFINE n == Len(t)
            D == (DOMAIN t) \X Nat
            Here(a) == a[2] + Deeper(t[a[1]])
            rank == [a \in D |-> n - a[1]]
            step == [x \in D \X [D -> Nat] |-> Innermost(t, x[2], x[1][1], Here(x[1]))]
<1>1. n \in Nat /\ DOMAIN t = 1..n BY TreeHasPlaces
<1>2. \A a \in D : a[1] \in DOMAIN t /\ a[2] \in Nat /\ Here(a) \in Nat BY DEF Deeper
<1>3. ASSUME NEW a \in D, NEW f \in [D -> Nat]
      PROVE  Innermost(t, f, a[1], Here(a)) \in Nat
  <2>. DEFINE i == a[1]
              here == Here(a)
  <2>1. i \in DOMAIN t /\ here \in Nat BY <1>2
  <2>2. \A j \in Inner(t, i) : f[<<j, here>>] \in Nat
    <3>1. \A j \in Inner(t, i) : j \in DOMAIN t BY DEF Inner
    <3>. HIDE DEF i, here
    <3>. QED BY <2>1, <3>1
  <2>. HIDE DEF i, here
  <2>3. Innermost(t, f, i, here) \in Nat BY <2>1, <2>2, InnermostIs
  <2>. QED BY <2>3 DEF i, here
<1>4. step \in [D \X [D -> Nat] -> Nat]
  <2>. HIDE DEF D, Here
  <2>. QED BY <1>3
<1>5. \A a \in D : \A f, g \in [D -> Nat] :
        (\A y \in D : rank[y] < rank[a] => f[y] = g[y]) => step[<<a, f>>] = step[<<a, g>>]
  <2>. SUFFICES ASSUME NEW a \in D, NEW f \in [D -> Nat], NEW g \in [D -> Nat],
                       \A y \in D : rank[y] < rank[a] => f[y] = g[y]
                PROVE  step[<<a, f>>] = step[<<a, g>>]
    OBVIOUS
  <2>. DEFINE i == a[1]
              here == Here(a)
  <2>1. i \in DOMAIN t /\ here \in Nat BY <1>2
  <2>2. ASSUME NEW j \in Inner(t, i) PROVE f[<<j, here>>] = g[<<j, here>>]
    <3>1. j \in DOMAIN t /\ i < j BY <2>1, InnerIsLater
    <3>2. <<j, here>> \in D BY <2>1, <3>1
    <3>3. rank[<<j, here>>] = n - j /\ rank[a] = n - i BY <3>2
    <3>4. n - j < n - i BY <1>1, <2>1, <3>1
    <3>. QED BY <3>2, <3>3, <3>4
  <2>3. {f[<<j, here>>] : j \in Inner(t, i)} = {g[<<j, here>>] : j \in Inner(t, i)}
    <3>. HIDE DEF i, here
    <3>. QED BY <2>2
  <2>4. Innermost(t, f, i, here) = Innermost(t, g, i, here)
    <3>. HIDE DEF i, here
    <3>. QED BY <2>3 DEF Innermost
  <2>5. step[<<a, f>>] = Innermost(t, f, i, here) /\ step[<<a, g>>] = Innermost(t, g, i, here)
    OBVIOUS
  <2>. QED BY <2>4, <2>5
<1>6. rank \in [D -> 0..n] BY <1>1
<1>7. \E f \in [D -> Nat] : \A x \in D : f[x] = step[<<x, f>>]
  <2>1. Nat # {} OBVIOUS
  <2>2. Descends(D, Nat, n, rank, step)
    <3>. HIDE DEF rank, step, D, n
    <3>. QED BY <1>1, <1>4, <1>5, <1>6, <2>1 DEF Descends
  <2>. HIDE DEF rank, step, D, n
  <2>. QED BY <2>2, RecursionExists
<1>8. PICK f \in [D -> Nat] : \A x \in D : f[x] = step[<<x, f>>] BY <1>7
<1>. DEFINE Is(g) == g = [a \in (DOMAIN t) \X Nat |->
                            Innermost(t, g, a[1], a[2] + Deeper(t[a[1]]))]
            nesting == CHOOSE g : Is(g)
<1>9. Is(f)
  <2>1. f = [a \in D |-> f[a]] OBVIOUS
  <2>2. \A a \in D : f[a] = Innermost(t, f, a[1], Here(a)) BY <1>8
  <2>. QED BY <2>1, <2>2
<1>10. Is(nesting)
  <2>. HIDE DEF Is
  <2>. QED BY <1>9
<1>11. Nesting(t) = nesting BY DEF Nesting
<1>. HIDE DEF nesting
<1>12. \A a \in D : Nesting(t)[a] = Innermost(t, Nesting(t), a[1], Here(a)) BY <1>10, <1>11
<1>13. \A i \in DOMAIN t : \A d \in Nat :
         Nesting(t)[<<i, d>>] = Innermost(t, Nesting(t), i, d + Deeper(t[i]))
  <2>. SUFFICES ASSUME NEW i \in DOMAIN t, NEW d \in Nat
                PROVE  Nesting(t)[<<i, d>>] = Innermost(t, Nesting(t), i, d + Deeper(t[i]))
    OBVIOUS
  <2>1. <<i, d>> \in D OBVIOUS
  <2>2. <<i, d>>[1] = i /\ <<i, d>>[2] = d OBVIOUS
  <2>. QED BY <1>12, <2>1, <2>2
<1>. DEFINE G == {i \in DOMAIN t : \A d \in Nat : Nesting(t)[<<i, d>>] \in Nat}
<1>14. 1..n \subseteq G
  <2>1. ASSUME NEW i \in 1..n, \A k \in 1..n : i < k => k \in G PROVE i \in G
    <3>1. ASSUME NEW d \in Nat PROVE Nesting(t)[<<i, d>>] \in Nat
      <4>. DEFINE here == d + Deeper(t[i])
      <4>1. here \in Nat /\ i \in DOMAIN t BY <1>1 DEF Deeper
      <4>2. \A j \in Inner(t, i) : j \in 1..n /\ i < j BY <1>1, <4>1, InnerIsLater
      <4>. HIDE DEF here
      <4>3. \A j \in Inner(t, i) : Nesting(t)[<<j, here>>] \in Nat BY <2>1, <4>1, <4>2
      <4>4. Innermost(t, Nesting(t), i, here) \in Nat BY <4>1, <4>3, InnermostIs
      <4>. QED BY <1>13, <4>1, <4>4 DEF here
    <3>. QED BY <1>1, <3>1
  <2>. HIDE DEF G
  <2>. QED BY <1>1, <2>1, DownwardInduction
<1>. QED BY <1>1, <1>13, <1>14

\* The control structures; how many of them, in f, are around a statement; the
\* statements that are in no case; that v is the greatest of their runs, in i.
Nests(t) == {k \in DOMAIN t : t[k].kind \in {"if", "loop", "try", "match"}}

Run(t, f, j) == Deep(t, f, Nests(t), j)

Open(t, f) == {j \in Inside(t, f) : \A k \in Line(t, j) \cap Inside(t, f) : t[k].kind # "case"}

IsDeepest(t, f, i, v) ==
  /\ \E j \in Walk(t, i) \cap Open(t, f) : v = Run(t, f, j)
  /\ \A j \in Walk(t, i) \cap Open(t, f) : Run(t, f, j) <= v

\* What a statement belongs to has a block for it.
LEMMA KindsFit ==
  ASSUME NEW t, IsText(t), IsTree(t), NEW i \in DOMAIN t, NEW m \in Children(t, i)
  PROVE  /\ t[m].slot \in ToSet(Slots[t[i].kind]) /\ t[i].kind \in DOMAIN Slots
         /\ t[m].kind \in {"handler", "case"} <=> t[m].slot = "parts"
         /\ t[m].kind = "handler" => t[i].kind = "try"
         /\ t[m].kind = "case" => t[i].kind = "match"
<1>1. i # 0 /\ m \in DOMAIN t /\ t[m].up = i BY TreeHasPlaces DEF Children
<1>. QED BY <1>1 DEF IsTree, Kind

LEMMA OpenGrows ==
  ASSUME NEW t, IsText(t), IsTree(t), NEW f \in DOMAIN t
  PROVE  /\ \A i \in Open(t, f) : \A m \in Children(t, i) :
              t[m].kind # "case" => m \in Open(t, f)
         /\ \A m \in Children(t, f) : t[m].kind # "case" => m \in Open(t, f)
         /\ \A j \in Open(t, f) : \A m \in Inside(t, f) :
              j \in Walk(t, m) => t[m].kind # "case"
<1>1. ASSUME NEW i, i = f \/ i \in Open(t, f), NEW m \in Children(t, i), t[m].kind # "case"
      PROVE  m \in Open(t, f)
  <2>1. i \in DOMAIN t BY <1>1, InsideIs DEF Open
  <2>2. m \in DOMAIN t /\ Above(t)[m] = Line(t, i) BY <2>1, ChildIsAfter
  <2>3. m \in Inside(t, f) BY <1>1, <2>2, InsideIs DEF Open, Line
  <2>4. Line(t, m) = {m} \cup Line(t, i) BY <2>2 DEF Line
  <2>5. \A k \in Line(t, i) \cap Inside(t, f) : t[k].kind # "case"
    BY <1>1, InsideIs DEF Open
  <2>. QED BY <1>1, <2>3, <2>4, <2>5 DEF Open
<1>2. ASSUME NEW j \in Open(t, f), NEW m \in Inside(t, f), j \in Walk(t, m)
      PROVE  t[m].kind # "case"
  BY <1>2, WalkIs DEF Open
<1>. QED BY <1>1, <1>2

\* How the run grows from a statement to those that the walk goes to.
LEMMA RunOfInner ==
  ASSUME NEW t, IsText(t), IsTree(t), NEW f \in DOMAIN t, NEW i \in Open(t, f),
         NEW j \in Inner(t, i)
  PROVE  /\ j \in Open(t, f) /\ t[j].kind # "handler" /\ Walk(t, j) \subseteq Walk(t, i)
         /\ Run(t, f, j) = Run(t, f, i) + Deeper(t[j]) /\ Run(t, f, i) \in Nat
<1>1. j \in DOMAIN t /\ t[j].kind \notin {"handler", "case"} BY DEF Inner
<1>2. i \in DOMAIN t /\ i \in Inside(t, f) /\ i # f BY InsideIs DEF Open
<1>3. \A x \in Open(t, f) : \A m \in Children(t, x) :
        /\ m \in Inside(t, f) /\ t[m].up = x /\ x # f /\ m \in DOMAIN t /\ x \in DOMAIN t
        /\ Run(t, f, m) = Run(t, f, x) + IF m \in Nests(t) THEN 1 ELSE 0
        /\ Walk(t, m) \subseteq Walk(t, x)
        /\ Run(t, f, x) \in Nat
  <2>. SUFFICES ASSUME NEW x \in Open(t, f), NEW m \in Children(t, x)
                PROVE  /\ m \in Inside(t, f) /\ t[m].up = x /\ x # f
                       /\ m \in DOMAIN t /\ x \in DOMAIN t
                       /\ Run(t, f, m) = Run(t, f, x) + IF m \in Nests(t) THEN 1 ELSE 0
                       /\ Walk(t, m) \subseteq Walk(t, x)
                       /\ Run(t, f, x) \in Nat
    OBVIOUS
  <2>1. x \in Inside(t, f) /\ x \in DOMAIN t /\ x # f BY InsideIs DEF Open
  <2>2. Walk(t, m) \subseteq Walk(t, x) BY <2>1, WalkSplits
  <2>3. m \in DOMAIN t /\ t[m].up = x BY DEF Children
  <2>4. m \in Walk(t, m) BY <2>3, WalkIs DEF Line
  <2>5. m \in Inside(t, f) BY <2>1, <2>2, <2>4, InsideGrows
  <2>6. Run(t, f, m) = Run(t, f, x) + IF m \in Nests(t) THEN 1 ELSE 0
    BY <2>1, <2>3, <2>5, DeepOfChild DEF Run
  <2>7. Run(t, f, x) \in Nat BY LineIsFew DEF Run
  <2>. QED BY <2>1, <2>2, <2>3, <2>5, <2>6, <2>7
<1>4. (IF j \in Nests(t) THEN 1 ELSE 0) = Deeper(t[j]) BY <1>1 DEF Nests, Deeper
<1>5. CASE t[j].up = i
  <2>1. j \in Children(t, i) BY <1>1, <1>5 DEF Children
  <2>2. j \in Open(t, f) BY <1>1, <2>1, OpenGrows
  <2>. QED BY <1>1, <1>3, <1>4, <2>1, <2>2
<1>6. CASE t[j].up # i
  <2>. DEFINE h == t[j].up
  <2>1. Kind(t, h) = "handler" /\ t[h].up = i BY <1>6 DEF Inner
  <2>2. h # 0 BY <2>1 DEF Kind
  <2>3. h \in DOMAIN t
    <3>1. DOMAIN t = 1..Len(t) /\ Len(t) \in Nat /\ t[j].up \in 0..Len(t) BY <1>1, TreeHasPlaces
    <3>. QED BY <2>2, <3>1
  <2>4. t[h].kind = "handler" BY <2>1, <2>2 DEF Kind
  <2>5. h \in Children(t, i) /\ j \in Children(t, h) BY <1>1, <2>1, <2>3 DEF Children
  <2>. HIDE DEF h
  <2>6. h \in Open(t, f) BY <2>4, <2>5, OpenGrows
  <2>7. j \in Open(t, f) BY <1>1, <2>5, <2>6, OpenGrows
  <2>8. h \notin Nests(t) BY <2>4 DEF Nests
  <2>9. Run(t, f, h) = Run(t, f, i) BY <1>3, <2>5, <2>8
  <2>. QED BY <1>1, <1>3, <1>4, <2>5, <2>6, <2>7, <2>9
<1>. QED BY <1>5, <1>6

LEMMA WalkFindsDeepest ==
  ASSUME NEW t, IsText(t), IsTree(t), NEW f \in DOMAIN t
  PROVE  \A i \in DOMAIN t : i \in Open(t, f) /\ t[i].kind # "handler" =>
           /\ Run(t, f, i) - Deeper(t[i]) \in Nat
           /\ IsDeepest(t, f, i, Nesting(t)[<<i, Run(t, f, i) - Deeper(t[i])>>])
<1>. DEFINE v(i) == Nesting(t)[<<i, Run(t, f, i) - Deeper(t[i])>>]
            G == {i \in DOMAIN t : i \in Open(t, f) /\ t[i].kind # "handler" =>
                    /\ Run(t, f, i) - Deeper(t[i]) \in Nat
                    /\ IsDeepest(t, f, i, v(i))}
<1>1. Len(t) \in Nat /\ DOMAIN t = 1..Len(t) BY TreeHasPlaces
<1>2. ASSUME NEW i \in 1..Len(t), \A k \in 1..Len(t) : i < k => k \in G PROVE i \in G
  <2>. SUFFICES ASSUME i \in Open(t, f), t[i].kind # "handler"
                PROVE  /\ Run(t, f, i) - Deeper(t[i]) \in Nat
                       /\ IsDeepest(t, f, i, v(i))
    BY <1>1
  <2>. DEFINE here == Run(t, f, i)
              d == here - Deeper(t[i])
  <2>1. i \in DOMAIN t /\ i \in Inside(t, f) BY <1>1 DEF Open
  <2>2. here \in Nat BY LineIsFew DEF Run
  <2>3. d \in Nat /\ d + Deeper(t[i]) = here
    <3>1. here = (IF t[i].up = f THEN 0 ELSE Run(t, f, t[i].up)) + Deeper(t[i])
      BY <2>1, DeepOfChild DEF Run, Nests, Deeper
    <3>2. (IF t[i].up = f THEN 0 ELSE Run(t, f, t[i].up)) \in Nat BY LineIsFew DEF Run
    <3>3. Deeper(t[i]) \in Nat BY DEF Deeper
    <3>. HIDE DEF here
    <3>. QED BY <3>1, <3>2, <3>3
  <2>4. v(i) = Nesting(t)[<<i, d>>] OBVIOUS
  <2>. HIDE DEF here, d
  <2>5. v(i) = Innermost(t, Nesting(t), i, here) BY <2>1, <2>3, <2>4, NestingIs
  <2>6. ASSUME NEW j \in Inner(t, i)
        PROVE  /\ Nesting(t)[<<j, here>>] \in Nat
               /\ IsDeepest(t, f, j, Nesting(t)[<<j, here>>])
    <3>1. j \in 1..Len(t) /\ i < j /\ j \in DOMAIN t BY <1>1, <2>1, InnerIsLater
    <3>2. j \in Open(t, f) /\ t[j].kind # "handler" /\ Run(t, f, j) = here + Deeper(t[j])
      BY RunOfInner DEF here
    <3>3. Run(t, f, j) - Deeper(t[j]) = here BY <2>2, <3>2 DEF Deeper
    <3>4. IsDeepest(t, f, j, v(j)) BY <1>2, <3>1, <3>2
    <3>5. v(j) = Nesting(t)[<<j, here>>] BY <3>3
    <3>6. Nesting(t)[<<j, here>>] \in Nat BY <2>2, <3>1, NestingIs
    <3>. QED BY <3>4, <3>5, <3>6
  <2>. DEFINE best == Innermost(t, Nesting(t), i, here)
  <2>7. /\ best \in Nat /\ here <= best
        /\ \A j \in Inner(t, i) : Nesting(t)[<<j, here>>] <= best
        /\ best = here \/ \E j \in Inner(t, i) : best = Nesting(t)[<<j, here>>]
    BY <2>1, <2>2, <2>6, InnermostIs
  <2>. HIDE DEF best, v
  <2>8. \E j \in Walk(t, i) \cap Open(t, f) : best = Run(t, f, j)
    <3>1. CASE best = here
      <4>1. i \in Walk(t, i) BY <2>1, WalkIs DEF Line
      <4>. QED BY <3>1, <4>1 DEF here
    <3>2. CASE \E j \in Inner(t, i) : best = Nesting(t)[<<j, here>>]
      <4>1. PICK j \in Inner(t, i) : best = Nesting(t)[<<j, here>>] BY <3>2
      <4>2. IsDeepest(t, f, j, best) BY <2>6, <4>1
      <4>3. PICK k \in Walk(t, j) \cap Open(t, f) : best = Run(t, f, k) BY <4>2 DEF IsDeepest
      <4>4. Walk(t, j) \subseteq Walk(t, i) BY RunOfInner
      <4>. QED BY <4>3, <4>4
    <3>. QED BY <2>7, <3>1, <3>2
  <2>9. ASSUME NEW k \in Walk(t, i) \cap Open(t, f) PROVE Run(t, f, k) <= best
    <3>0. Run(t, f, k) \in Nat BY LineIsFew DEF Run
    <3>1. ASSUME NEW j \in Inner(t, i), k \in Walk(t, j) PROVE Run(t, f, k) <= best
      <4>1. Nesting(t)[<<j, here>>] \in Nat /\ Nesting(t)[<<j, here>>] <= best BY <2>6, <2>7
      <4>2. Run(t, f, k) <= Nesting(t)[<<j, here>>] BY <2>6, <3>1 DEF IsDeepest
      <4>. QED BY <2>7, <3>0, <4>1, <4>2
    <3>2. CASE k = i BY <2>7, <3>2 DEF here
    <3>3. CASE k # i
      <4>1. PICK m \in Children(t, i) : k \in Walk(t, m) BY <2>1, <3>3, WalkSplits
      <4>2. m \in DOMAIN t /\ m \in Inside(t, f) /\ t[m].up = i
        <5>1. m \in DOMAIN t /\ t[m].up = i BY DEF Children
        <5>2. m \in Walk(t, m) BY <5>1, WalkIs DEF Line
        <5>3. Walk(t, m) \subseteq Walk(t, i) BY <2>1, WalkSplits
        <5>. QED BY <2>1, <5>1, <5>2, <5>3, InsideGrows
      <4>3. t[m].kind # "case" BY <4>1, <4>2, OpenGrows
      <4>4. CASE t[m].kind # "handler"
        <5>1. m \in Inner(t, i) BY <4>2, <4>3, <4>4 DEF Inner
        <5>. QED BY <3>1, <4>1, <5>1
      <4>5. CASE t[m].kind = "handler"
        <5>1. CASE k = m
          <6>1. i # f BY <2>1, InsideIs
          <6>2. Run(t, f, m) = here
            <7>1. m \notin Nests(t) BY <4>5 DEF Nests
            <7>2. Run(t, f, m) = here + 0 BY <4>2, <6>1, <7>1, DeepOfChild DEF Run, here
            <7>. QED BY <2>2, <7>2
          <6>. QED BY <2>7, <5>1, <6>2
        <5>2. CASE k # m
          <6>1. PICK x \in Children(t, m) : k \in Walk(t, x) BY <4>1, <4>2, <5>2, WalkSplits
          <6>2. t[x].kind \notin {"handler", "case"} BY <4>2, <4>5, KindsFit
          <6>3. x \in DOMAIN t /\ t[x].up = m BY DEF Children
          <6>4. Kind(t, m) = "handler"
            <7>1. m # 0 BY <1>1, <4>2
            <7>. QED BY <4>5, <7>1 DEF Kind
          <6>5. x \in Inner(t, i) BY <4>2, <6>2, <6>3, <6>4 DEF Inner
          <6>. QED BY <3>1, <6>1, <6>5
        <5>. QED BY <5>1, <5>2
      <4>. QED BY <4>4, <4>5
    <3>. QED BY <3>2, <3>3
  <2>10. IsDeepest(t, f, i, v(i)) BY <2>5, <2>8, <2>9 DEF IsDeepest, best
  <2>. QED BY <2>3, <2>10 DEF d, here
<1>3. 1..Len(t) \subseteq G
  <2>. HIDE DEF G
  <2>. QED BY <1>1, <1>2, DownwardInduction
<1>. QED BY <1>1, <1>3

LEMMA NestingIsGreatest ==
  ASSUME NEW t, IsText(t), IsTree(t), NEW f \in DOMAIN t, t[f].kind = "def"
  PROVE  MaxNestingDepth(t, f) = Max({0} \cup {Run(t, f, j) : j \in Open(t, f)})
<1>. DEFINE K == Kids(t, f, "body")
            deepest == [j \in K |-> Nesting(t)[<<j, 0>>]]
            run == [j \in Open(t, f) |-> Run(t, f, j)]
            A == {0} \cup {deepest[j] : j \in K}
            B == {0} \cup {run[j] : j \in Open(t, f)}
<1>1. Len(t) \in Nat /\ DOMAIN t = 1..Len(t) /\ IsFiniteSet(DOMAIN t)
  BY SequenceIsFew DEF IsText
<1>2. K = Children(t, f)
  <2>1. ToSet(Slots["def"]) = {"body"}
    <3>1. Slots["def"] = <<"body">> BY DEF Slots
    <3>. QED BY <3>1 DEF ToSet
  <2>2. \A m \in Children(t, f) : t[m].slot = "body" BY <2>1, KindsFit
  <2>. QED BY <2>2 DEF Children, Kids
<1>3. \A m \in K : m \in DOMAIN t /\ t[m].kind \notin {"handler", "case"}
        /\ m \in Inside(t, f) /\ m \in Open(t, f) /\ t[m].up = f
  <2>1. \A m \in Children(t, f) : t[m].kind \notin {"handler", "case"} BY KindsFit
  <2>2. \A m \in Children(t, f) : m \in Open(t, f) BY <2>1, OpenGrows
  <2>. QED BY <1>2, <2>1, <2>2, InsideGrows DEF Children
<1>4. ASSUME NEW m \in K
      PROVE  deepest[m] \in Nat /\ IsDeepest(t, f, m, deepest[m])
  <2>1. m \in DOMAIN t /\ m \in Inside(t, f) /\ m \in Open(t, f) /\ t[m].up = f
        /\ t[m].kind # "handler"
    BY <1>3
  <2>2. Run(t, f, m) = 0 + Deeper(t[m]) BY <2>1, DeepOfChild DEF Run, Nests, Deeper
  <2>3. Run(t, f, m) - Deeper(t[m]) = 0 BY <2>2 DEF Deeper
  <2>4. IsDeepest(t, f, m, Nesting(t)[<<m, 0>>]) BY <2>1, <2>3, WalkFindsDeepest
  <2>5. Nesting(t)[<<m, 0>>] \in Nat BY <2>1, NestingIs
  <2>. QED BY <2>4, <2>5
<1>5. \A j \in Open(t, f) : run[j] \in Nat /\ run[j] = Run(t, f, j) BY LineIsFew DEF Run
<1>6. IsFiniteSet(K) /\ IsFiniteSet(Open(t, f))
  <2>1. K \in SUBSET DOMAIN t /\ Open(t, f) \in SUBSET DOMAIN t
    BY InsideIs DEF Kids, Open
  <2>. HIDE DEF K
  <2>. QED BY <1>1, <2>1, FS_Subset
<1>. HIDE DEF deepest, run, K
<1>7. IsFiniteSet(A) /\ A \subseteq Nat /\ A # {}
  <2>1. IsFiniteSet({deepest[j] : j \in K}) BY <1>6, FiniteImage
  <2>2. IsFiniteSet({0}) BY FS_Singleton
  <2>3. IsFiniteSet(A) BY <2>1, <2>2, FS_Union
  <2>. QED BY <1>4, <2>3
<1>8. IsFiniteSet(B) /\ B \subseteq Nat /\ B # {}
  <2>1. IsFiniteSet({run[j] : j \in Open(t, f)}) BY <1>6, FiniteImage
  <2>2. IsFiniteSet({0}) BY FS_Singleton
  <2>3. IsFiniteSet(B) BY <2>1, <2>2, FS_Union
  <2>. QED BY <1>5, <2>3
<1>9. ASSUME NEW x \in A PROVE x \in B
  <2>1. CASE x = 0 BY <2>1
  <2>2. CASE x # 0
    <3>1. PICK m \in K : x = deepest[m] BY <2>2
    <3>2. PICK j \in Walk(t, m) \cap Open(t, f) : x = Run(t, f, j) BY <1>4, <3>1 DEF IsDeepest
    <3>. QED BY <1>5, <3>2
  <2>. QED BY <2>1, <2>2
<1>10. ASSUME NEW x \in B PROVE \E y \in A : x <= y
  <2>1. CASE x = 0 BY <2>1
  <2>2. CASE x # 0
    <3>1. PICK j \in Open(t, f) : x = Run(t, f, j) BY <1>5, <2>2
    <3>2. PICK m \in K : j \in Walk(t, m) BY <1>2, InsideGrows DEF Open
    <3>3. Run(t, f, j) <= deepest[m] BY <1>4, <3>2 DEF IsDeepest
    <3>. QED BY <3>1, <3>2, <3>3
  <2>. QED BY <2>1, <2>2
<1>11. MaxNestingDepth(t, f) = Max(A) BY DEF MaxNestingDepth, deepest, K
<1>12. {Run(t, f, j) : j \in Open(t, f)} = {run[j] : j \in Open(t, f)} BY <1>5
<1>. HIDE DEF A, B
<1>13. /\ Max(A) \in A /\ \A x \in A : x <= Max(A)
       /\ Max(B) \in B /\ \A x \in B : x <= Max(B)
  BY <1>7, <1>8, HasGreatest
<1>. DEFINE a == Max(A)
            b == Max(B)
<1>. HIDE DEF a, b
<1>14. a \in Nat /\ b \in Nat /\ a <= b BY <1>7, <1>8, <1>9, <1>13 DEF a, b
<1>15. b <= a
  <2>1. PICK y \in A : b <= y BY <1>10, <1>13 DEF b
  <2>2. y \in Nat /\ y <= a BY <1>7, <1>13 DEF a
  <2>. QED BY <1>14, <2>1, <2>2
<1>16. Max(A) = Max(B) BY <1>14, <1>15 DEF a, b
<1>. QED BY <1>11, <1>12, <1>16 DEF B

LEMMA NestingFollows == TypeInv /\ TextInv => NestingIsDeepest
<1>. SUFFICES ASSUME TypeInv, TextInv, NEW f \in Functions
              PROVE  LET inside == Walk(text, f) \ {f}
                         above  == Above(text)
                         run(j) == Cardinality({k \in ({j} \cup above[j]) \cap inside :
                                                  text[k].kind \in {"if", "loop", "try", "match"}})
                         seen == {j \in inside :
                                    ~\E k \in ({j} \cup above[j]) \cap inside : text[k].kind = "case"}
                     IN MaxNestingDepth(text, f) = Max({0} \cup {run(j) : j \in seen})
  BY DEF NestingIsDeepest
<1>. DEFINE inside == Walk(text, f) \ {f}
            above  == Above(text)
            run(j) == Cardinality({k \in ({j} \cup above[j]) \cap inside :
                                     text[k].kind \in {"if", "loop", "try", "match"}})
            seen == {j \in inside :
                       ~\E k \in ({j} \cup above[j]) \cap inside : text[k].kind = "case"}
<1>1. IsText(text) /\ IsTree(text) BY DEF TypeInv, TextInv
<1>2. f \in DOMAIN text /\ text[f].kind = "def" BY DEF Functions
<1>3. inside = Inside(text, f) /\ inside \subseteq DOMAIN text BY DEF Inside, Walk
<1>4. \A j : {j} \cup above[j] = Line(text, j) BY DEF Line
<1>5. seen = Open(text, f) BY <1>3, <1>4 DEF Open
<1>6. \A j : run(j) = Run(text, f, j)
  <2>1. ASSUME NEW j
        PROVE  {k \in ({j} \cup above[j]) \cap inside : text[k].kind \in {"if", "loop", "try", "match"}}
                 = {k \in Line(text, j) \cap Inside(text, f) : k \in Nests(text)}
    <3>1. {j} \cup above[j] = Line(text, j) BY <1>4
    <3>. HIDE DEF inside, above
    <3>. QED BY <1>3, <3>1 DEF Nests
  <2>. QED BY <2>1 DEF Run, Deep
<1>7. {run(j) : j \in seen} = {Run(text, f, j) : j \in Open(text, f)} BY <1>5, <1>6
<1>8. MaxNestingDepth(text, f) = Max({0} \cup {Run(text, f, j) : j \in Open(text, f)})
  BY <1>1, <1>2, NestingIsGreatest
<1>. QED BY <1>7, <1>8

-----------------------------------------------------------------------------
(***************************************************************************)
(* Cognitive complexity: the cost of a statement is that of its parts.     *)
(***************************************************************************)
LEMMA KidsAreChildren ==
  ASSUME NEW t, IsText(t), IsTree(t), NEW i \in DOMAIN t, NEW slot
  PROVE  /\ Kids(t, i, slot) \subseteq Children(t, i) /\ IsFiniteSet(Kids(t, i, slot))
         /\ \A j \in Kids(t, i, slot) : j \in DOMAIN t /\ i < j /\ t[j].up = i /\ t[j].slot = slot
<1>1. IsFiniteSet(DOMAIN t) BY SequenceIsFew DEF IsText
<1>2. Kids(t, i, slot) \in SUBSET DOMAIN t BY DEF Kids
<1>3. \A j \in Kids(t, i, slot) : j \in DOMAIN t /\ i < j /\ t[j].up = i /\ t[j].slot = slot
  BY TreeHasPlaces DEF Kids
<1>4. Kids(t, i, slot) \subseteq Children(t, i) BY DEF Kids, Children
<1>. QED BY <1>1, <1>2, <1>3, <1>4, FS_Subset

LEMMA BlockIsNatural ==
  ASSUME NEW t, IsText(t), IsTree(t), NEW i \in DOMAIN t, NEW slot, NEW n, NEW f,
         \A j \in Kids(t, i, slot) : f[<<j, n, FALSE>>] \in Nat
  PROVE  Block(t, f, i, slot, n) \in Nat
<1>. DEFINE g == [j \in Kids(t, i, slot) |-> f[<<j, n, FALSE>>]]
<1>1. IsFiniteSet(DOMAIN g) /\ \A j \in DOMAIN g : g[j] \in Nat BY KidsAreChildren
<1>2. Block(t, f, i, slot, n) = Total(g) BY DEF Block
<1>. HIDE DEF g
<1>. QED BY <1>1, <1>2, TotalIsNatural

LEMMA BlockDepends ==
  ASSUME NEW t, NEW i, NEW slot, NEW n, NEW f, NEW g,
         \A j \in Kids(t, i, slot) : f[<<j, n, FALSE>>] = g[<<j, n, FALSE>>]
  PROVE  Block(t, f, i, slot, n) = Block(t, g, i, slot, n)
<1>1. [j \in Kids(t, i, slot) |-> f[<<j, n, FALSE>>]] = [j \in Kids(t, i, slot) |-> g[<<j, n, FALSE>>]]
  OBVIOUS
<1>. QED BY <1>1 DEF Block

\* The least of some children is one.
LEMMA LeastKid ==
  ASSUME NEW t, IsText(t), IsTree(t), NEW i \in DOMAIN t, NEW slot, Kids(t, i, slot) # {}
  PROVE  Min(Kids(t, i, slot)) \in Kids(t, i, slot)
<1>1. Kids(t, i, slot) \in SUBSET Nat BY TreeHasPlaces DEF Kids
<1>2. \E j \in Kids(t, i, slot) : \A k \in Kids(t, i, slot) : j <= k BY <1>1, LeastExists
<1>. QED BY <1>2 DEF Min

LEMMA ExpressionsAreNatural ==
  ASSUME NEW s, IsStatement(s), NEW n \in Nat
  PROVE  Expressions(s, n) \in Nat
<1>1. s.ands \in Nat /\ s.ternaries \in Nat /\ 1 + n \in Nat BY DEF IsStatement
<1>2. \A a, b \in Nat : a * b \in Nat OBVIOUS
<1>3. s.ternaries * (1 + n) \in Nat BY <1>1, <1>2
<1>. QED BY <1>1, <1>3 DEF Expressions

\* The cost of the statements after i is a number.
CostsAfter(t, f, i) ==
  \A j \in DOMAIN t : \A n \in Nat : \A elif \in BOOLEAN : i < j => f[<<j, n, elif>>] \in Nat

CostsAgree(t, f, g, i) ==
  \A j \in DOMAIN t : \A n \in Nat : \A elif \in BOOLEAN :
    i < j => f[<<j, n, elif>>] = g[<<j, n, elif>>]

Parts(t, f, i, n, points) ==
  Total([j \in Kids(t, i, "parts") |-> points + Block(t, f, j, "body", n + 1)])

PartsAreNatural(t, f, i) ==
  /\ \A slot : \A n \in Nat : Block(t, f, i, slot, n) \in Nat
  /\ \A n, points \in Nat : Parts(t, f, i, n, points) \in Nat
  /\ \A n \in Nat : Kids(t, i, "orelse") # {} =>
       f[<<Min(Kids(t, i, "orelse")), n, TRUE>>] \in Nat

PartsAgree(t, f, g, i) ==
  /\ \A slot : \A n \in Nat : Block(t, f, i, slot, n) = Block(t, g, i, slot, n)
  /\ \A n, points \in Nat : Parts(t, f, i, n, points) = Parts(t, g, i, n, points)
  /\ \A n \in Nat : Kids(t, i, "orelse") # {} =>
       f[<<Min(Kids(t, i, "orelse")), n, TRUE>>] = g[<<Min(Kids(t, i, "orelse")), n, TRUE>>]

LEMMA BlocksAreNatural ==
  ASSUME NEW t, IsText(t), IsTree(t), NEW i \in DOMAIN t, NEW f, CostsAfter(t, f, i)
  PROVE  PartsAreNatural(t, f, i)
<1>0. \A j \in DOMAIN t : j \in Nat BY TreeHasPlaces
<1>1. ASSUME NEW k \in DOMAIN t, k = i \/ i < k, NEW slot, NEW n \in Nat
      PROVE  Block(t, f, k, slot, n) \in Nat
  <2>1. \A j \in Kids(t, k, slot) : j \in DOMAIN t /\ i < j BY <1>0, <1>1, KidsAreChildren
  <2>2. \A j \in Kids(t, k, slot) : f[<<j, n, FALSE>>] \in Nat BY <2>1 DEF CostsAfter
  <2>. QED BY <2>2, BlockIsNatural
<1>2. ASSUME NEW n \in Nat, NEW points \in Nat PROVE Parts(t, f, i, n, points) \in Nat
  <2>. DEFINE K == Kids(t, i, "parts")
              g == [j \in K |-> points + Block(t, f, j, "body", n + 1)]
  <2>1. IsFiniteSet(K) /\ \A j \in K : j \in DOMAIN t /\ i < j BY KidsAreChildren
  <2>2. \A j \in K : Block(t, f, j, "body", n + 1) \in Nat BY <1>1, <2>1
  <2>3. \A j \in K : g[j] \in Nat BY <2>2
  <2>4. DOMAIN g = K /\ Parts(t, f, i, n, points) = Total(g) BY DEF Parts
  <2>. HIDE DEF g, K
  <2>. QED BY <2>1, <2>3, <2>4, TotalIsNatural
<1>3. ASSUME NEW n \in Nat, Kids(t, i, "orelse") # {}
      PROVE  f[<<Min(Kids(t, i, "orelse")), n, TRUE>>] \in Nat
  <2>1. Min(Kids(t, i, "orelse")) \in Kids(t, i, "orelse") BY <1>3, LeastKid
  <2>. QED BY <2>1, KidsAreChildren DEF CostsAfter
<1>. QED BY <1>1, <1>2, <1>3 DEF PartsAreNatural

LEMMA BlocksDepend ==
  ASSUME NEW t, IsText(t), IsTree(t), NEW i \in DOMAIN t, NEW f, NEW g, CostsAgree(t, f, g, i)
  PROVE  PartsAgree(t, f, g, i)
<1>0. \A j \in DOMAIN t : j \in Nat BY TreeHasPlaces
<1>1. ASSUME NEW k \in DOMAIN t, k = i \/ i < k, NEW slot, NEW n \in Nat
      PROVE  Block(t, f, k, slot, n) = Block(t, g, k, slot, n)
  <2>1. \A j \in Kids(t, k, slot) : j \in DOMAIN t /\ i < j BY <1>0, <1>1, KidsAreChildren
  <2>2. \A j \in Kids(t, k, slot) : f[<<j, n, FALSE>>] = g[<<j, n, FALSE>>]
    BY <2>1 DEF CostsAgree
  <2>. QED BY <2>2, BlockDepends
<1>2. ASSUME NEW n \in Nat, NEW points \in Nat
      PROVE  Parts(t, f, i, n, points) = Parts(t, g, i, n, points)
  <2>. DEFINE K == Kids(t, i, "parts")
  <2>1. \A j \in K : j \in DOMAIN t /\ i < j BY KidsAreChildren
  <2>2. \A j \in K : Block(t, f, j, "body", n + 1) = Block(t, g, j, "body", n + 1)
    BY <1>1, <2>1
  <2>. HIDE DEF K
  <2>3. [j \in K |-> points + Block(t, f, j, "body", n + 1)]
          = [j \in K |-> points + Block(t, g, j, "body", n + 1)]
    BY <2>2
  <2>. QED BY <2>3 DEF Parts, K
<1>3. ASSUME NEW n \in Nat, Kids(t, i, "orelse") # {}
      PROVE  f[<<Min(Kids(t, i, "orelse")), n, TRUE>>] = g[<<Min(Kids(t, i, "orelse")), n, TRUE>>]
  <2>1. Min(Kids(t, i, "orelse")) \in Kids(t, i, "orelse") BY <1>3, LeastKid
  <2>. QED BY <2>1, KidsAreChildren DEF CostsAgree
<1>. QED BY <1>1, <1>2, <1>3 DEF PartsAgree

LEMMA StatementIs ==
  ASSUME NEW t, NEW f, NEW i, NEW n
  PROVE  LET kind == t[i].kind
             cost == Statement(t, f, i, n)
         IN /\ kind = "if" => cost = n + IfChain(t, f, i, n)
            /\ kind = "loop" =>
                 cost = 1 + n + Block(t, f, i, "body", n + 1) + Expressions(t[i], n)
                          + (IF Kids(t, i, "orelse") = {} THEN 0
                             ELSE 1 + Block(t, f, i, "orelse", n + 1))
            /\ kind = "try" =>
                 cost = Block(t, f, i, "body", n) + Parts(t, f, i, n, 1 + n)
                          + Block(t, f, i, "orelse", n) + Block(t, f, i, "final", n)
            /\ kind = "match" => cost = 1 + n + Parts(t, f, i, n, 0)
            /\ kind \in Definitions => cost = Block(t, f, i, "body", n + 1)
            /\ kind = "with" => cost = Block(t, f, i, "body", n)
            /\ kind \notin Definitions \cup {"if", "loop", "try", "match", "with"} =>
                 cost = Expressions(t[i], n)
<1>1. CASE t[i].kind = "if" BY <1>1 DEF Statement, Definitions
<1>2. CASE t[i].kind = "loop" BY <1>2 DEF Statement, Definitions
<1>3. CASE t[i].kind = "try" BY <1>3 DEF Statement, Parts, Definitions
<1>4. CASE t[i].kind = "match" BY <1>4 DEF Statement, Parts, Definitions
<1>5. CASE t[i].kind \in Definitions BY <1>5 DEF Statement, Definitions
<1>6. CASE t[i].kind = "with" BY <1>6 DEF Statement, Definitions
<1>7. CASE t[i].kind \notin Definitions \cup {"if", "loop", "try", "match", "with"}
  BY <1>7 DEF Statement, Definitions
<1>. QED BY <1>1, <1>2, <1>3, <1>4, <1>5, <1>6, <1>7

LEMMA ChainIs ==
  ASSUME NEW t, NEW f, NEW i, NEW n
  PROVE  LET rest == Kids(t, i, "orelse")
             own == 1 + Expressions(t[i], n) + Block(t, f, i, "body", n + 1)
             chained == Cardinality(rest) = 1 /\ t[Min(rest)].kind = "if"
         IN /\ rest = {} => IfChain(t, f, i, n) = own + 0
            /\ rest # {} /\ chained => IfChain(t, f, i, n) = own + f[<<Min(rest), n, TRUE>>]
            /\ rest # {} /\ ~chained =>
                 IfChain(t, f, i, n) = own + (1 + Block(t, f, i, "orelse", n + 1))
<1>. DEFINE rest == Kids(t, i, "orelse")
            own == 1 + Expressions(t[i], n) + Block(t, f, i, "body", n + 1)
            chained == Cardinality(rest) = 1 /\ t[Min(rest)].kind = "if"
            other == 1 + Block(t, f, i, "orelse", n + 1)
            elif == f[<<Min(rest), n, TRUE>>]
<1>1. rest = {} => ~chained BY FS_EmptySet
<1>2. IfChain(t, f, i, n) = own + (CASE rest = {} -> 0 [] chained -> elif [] OTHER -> other)
  BY DEF IfChain
<1>. HIDE DEF own, other, elif, rest, chained
<1>3. rest = {} => IfChain(t, f, i, n) = own + 0 BY <1>1, <1>2
<1>4. rest # {} /\ chained => IfChain(t, f, i, n) = own + elif BY <1>2
<1>5. rest # {} /\ ~chained => IfChain(t, f, i, n) = own + other BY <1>2
<1>. QED BY <1>3, <1>4, <1>5 DEF own, other, elif, rest, chained

LEMMA CostDepends ==
  ASSUME NEW t, IsText(t), IsTree(t), NEW i \in DOMAIN t, NEW n \in Nat,
         NEW f, CostsAfter(t, f, i), NEW g, CostsAgree(t, f, g, i)
  PROVE  /\ IfChain(t, f, i, n) \in Nat /\ Statement(t, f, i, n) \in Nat
         /\ IfChain(t, f, i, n) = IfChain(t, g, i, n)
         /\ Statement(t, f, i, n) = Statement(t, g, i, n)
<1>. DEFINE rest == Kids(t, i, "orelse")
            chained == Cardinality(rest) = 1 /\ t[Min(rest)].kind = "if"
            kind == t[i].kind
            e == Expressions(t[i], n)
<1>1. e \in Nat BY ExpressionsAreNatural DEF IsText
<1>. DEFINE m == n + 1
            p == 1 + n
<1>0. m \in Nat /\ p \in Nat /\ 0 \in Nat OBVIOUS
<1>. HIDE DEF m, p
<1>2. /\ \A slot : Block(t, f, i, slot, n) \in Nat /\ Block(t, f, i, slot, m) \in Nat
      /\ \A d \in Nat : Parts(t, f, i, n, d) \in Nat
      /\ rest # {} => f[<<Min(rest), n, TRUE>>] \in Nat
  <2>1. PartsAreNatural(t, f, i) BY BlocksAreNatural
  <2>. QED BY <1>0, <2>1 DEF PartsAreNatural
<1>3. /\ \A slot : /\ Block(t, f, i, slot, n) = Block(t, g, i, slot, n)
                   /\ Block(t, f, i, slot, m) = Block(t, g, i, slot, m)
      /\ \A d \in Nat : Parts(t, f, i, n, d) = Parts(t, g, i, n, d)
      /\ rest # {} => f[<<Min(rest), n, TRUE>>] = g[<<Min(rest), n, TRUE>>]
  <2>1. PartsAgree(t, f, g, i) BY BlocksDepend
  <2>. QED BY <1>0, <2>1 DEF PartsAgree
<1>4. IfChain(t, f, i, n) \in Nat /\ IfChain(t, f, i, n) = IfChain(t, g, i, n)
  <2>. DEFINE own == 1 + e + Block(t, f, i, "body", m)
  <2>1. own \in Nat /\ own = 1 + e + Block(t, g, i, "body", m) BY <1>1, <1>2, <1>3
  <2>. DEFINE other == 1 + Block(t, f, i, "orelse", m)
              elif == f[<<Min(rest), n, TRUE>>]
  <2>2. other \in Nat /\ other = 1 + Block(t, g, i, "orelse", m) BY <1>2, <1>3
  <2>3. /\ rest = {} => IfChain(t, f, i, n) = own + 0
        /\ rest # {} /\ chained => IfChain(t, f, i, n) = own + elif
        /\ rest # {} /\ ~chained => IfChain(t, f, i, n) = own + other
    BY ChainIs DEF m
  <2>4. /\ rest = {} => IfChain(t, g, i, n) = 1 + e + Block(t, g, i, "body", m) + 0
        /\ rest # {} /\ chained =>
             IfChain(t, g, i, n) = 1 + e + Block(t, g, i, "body", m) + g[<<Min(rest), n, TRUE>>]
        /\ rest # {} /\ ~chained =>
             IfChain(t, g, i, n) = 1 + e + Block(t, g, i, "body", m)
                                     + (1 + Block(t, g, i, "orelse", m))
    BY ChainIs DEF m
  <2>5. /\ rest = {} => IfChain(t, g, i, n) = own + 0
        /\ rest # {} /\ chained => IfChain(t, g, i, n) = own + elif
        /\ rest # {} /\ ~chained => IfChain(t, g, i, n) = own + other
    <3>. HIDE DEF chained, e
    <3>. QED BY <1>3, <2>1, <2>2, <2>4
  <2>6. rest # {} => elif \in Nat BY <1>2
  <2>. HIDE DEF own, other, elif, chained, rest
  <2>. QED BY <2>1, <2>2, <2>3, <2>5, <2>6
<1>5. CASE kind = "if" BY <1>4, <1>5, StatementIs DEF m, p
<1>6. CASE kind = "loop"
  <2>. DEFINE body == Block(t, f, i, "body", m)
              else == IF rest = {} THEN 0 ELSE 1 + Block(t, f, i, "orelse", m)
  <2>1. /\ Statement(t, f, i, n) = 1 + n + body + e + else
        /\ Statement(t, g, i, n) = 1 + n + Block(t, g, i, "body", m) + e
             + (IF rest = {} THEN 0 ELSE 1 + Block(t, g, i, "orelse", m))
    BY <1>6, StatementIs DEF m, p
  <2>2. body \in Nat /\ else \in Nat BY <1>2
  <2>3. Statement(t, f, i, n) = Statement(t, g, i, n) BY <1>2, <1>3, <2>1
  <2>. HIDE DEF body, else, e
  <2>4. Statement(t, f, i, n) \in Nat BY <1>1, <2>1, <2>2
  <2>. QED BY <1>4, <2>3, <2>4
<1>7. CASE kind = "try"
  <2>1. /\ Statement(t, f, i, n) = Block(t, f, i, "body", n) + Parts(t, f, i, n, p)
             + Block(t, f, i, "orelse", n) + Block(t, f, i, "final", n)
        /\ Statement(t, g, i, n) = Block(t, g, i, "body", n) + Parts(t, g, i, n, p)
             + Block(t, g, i, "orelse", n) + Block(t, g, i, "final", n)
    BY <1>7, StatementIs DEF m, p
  <2>2. /\ Block(t, f, i, "body", n) \in Nat /\ Parts(t, f, i, n, p) \in Nat
        /\ Block(t, f, i, "orelse", n) \in Nat /\ Block(t, f, i, "final", n) \in Nat
    BY <1>0, <1>2
  <2>. QED BY <1>0, <1>2, <1>3, <1>4, <2>1, <2>2
<1>8. CASE kind = "match"
  <2>1. /\ Statement(t, f, i, n) = 1 + n + Parts(t, f, i, n, 0)
        /\ Statement(t, g, i, n) = 1 + n + Parts(t, g, i, n, 0)
    BY <1>8, StatementIs DEF m, p
  <2>. QED BY <1>0, <1>2, <1>3, <1>4, <2>1
<1>9. CASE kind \in Definitions
  <2>1. /\ Statement(t, f, i, n) = Block(t, f, i, "body", m)
        /\ Statement(t, g, i, n) = Block(t, g, i, "body", m)
    BY <1>9, StatementIs DEF m, p
  <2>. QED BY <1>0, <1>2, <1>3, <1>4, <2>1
<1>10. CASE kind = "with"
  <2>1. /\ Statement(t, f, i, n) = Block(t, f, i, "body", n)
        /\ Statement(t, g, i, n) = Block(t, g, i, "body", n)
    BY <1>10, StatementIs DEF m, p
  <2>. QED BY <1>0, <1>2, <1>3, <1>4, <2>1
<1>11. CASE kind \notin Definitions \cup {"if", "loop", "try", "match", "with"}
  <2>1. Statement(t, f, i, n) = e /\ Statement(t, g, i, n) = e BY <1>11, StatementIs DEF m, p
  <2>. QED BY <1>1, <1>4, <2>1
<1>. QED BY <1>5, <1>6, <1>7, <1>8, <1>9, <1>10, <1>11

\* What the text says of the cost, from the statements after.
CostOf(t, f, a) == IF a[3] THEN IfChain(t, f, a[1], a[2]) ELSE Statement(t, f, a[1], a[2])

LEMMA CostOfDepends ==
  ASSUME NEW t, IsText(t), IsTree(t), NEW a \in (DOMAIN t) \X Nat \X BOOLEAN,
         NEW f, CostsAfter(t, f, a[1]), NEW g, CostsAgree(t, f, g, a[1])
  PROVE  CostOf(t, f, a) \in Nat /\ CostOf(t, f, a) = CostOf(t, g, a)
<1>. DEFINE i == a[1]
            n == a[2]
<1>1. i \in DOMAIN t /\ n \in Nat OBVIOUS
<1>. HIDE DEF i, n
<1>2. CostsAfter(t, f, i) /\ CostsAgree(t, f, g, i) BY DEF i
<1>3. /\ IfChain(t, f, i, n) \in Nat /\ Statement(t, f, i, n) \in Nat
      /\ IfChain(t, f, i, n) = IfChain(t, g, i, n)
      /\ Statement(t, f, i, n) = Statement(t, g, i, n)
  BY <1>1, <1>2, CostDepends
<1>. QED BY <1>3 DEF CostOf, i, n

LEMMA CostIs ==
  ASSUME NEW t, IsText(t), IsTree(t)
  PROVE  \A i \in DOMAIN t : \A n \in Nat :
           /\ Costs(t)[<<i, n, TRUE>>] = IfChain(t, Costs(t), i, n)
           /\ Costs(t)[<<i, n, FALSE>>] = Statement(t, Costs(t), i, n)
           /\ CostsAfter(t, Costs(t), i)
<1>. DEFINE n == Len(t)
            D == (DOMAIN t) \X Nat \X BOOLEAN
            rank == [a \in D |-> n - a[1]]
            step == [x \in D \X [D -> Nat] |-> CostOf(t, x[2], x[1])]
<1>1. n \in Nat /\ DOMAIN t = 1..n BY TreeHasPlaces
<1>2. \A f \in [D -> Nat] : \A a \in D : CostsAfter(t, f, a[1]) /\ CostsAgree(t, f, f, a[1])
  BY DEF CostsAfter, CostsAgree
<1>3. step \in [D \X [D -> Nat] -> Nat]
  <2>1. \A a \in D : \A f \in [D -> Nat] : CostOf(t, f, a) \in Nat BY <1>2, CostOfDepends
  <2>. HIDE DEF D
  <2>. QED BY <2>1
<1>4. \A a \in D : \A f, g \in [D -> Nat] :
        (\A y \in D : rank[y] < rank[a] => f[y] = g[y]) => step[<<a, f>>] = step[<<a, g>>]
  <2>. SUFFICES ASSUME NEW a \in D, NEW f \in [D -> Nat], NEW g \in [D -> Nat],
                       \A y \in D : rank[y] < rank[a] => f[y] = g[y]
                PROVE  step[<<a, f>>] = step[<<a, g>>]
    OBVIOUS
  <2>1. CostsAgree(t, f, g, a[1])
    <3>1. ASSUME NEW j \in DOMAIN t, NEW d \in Nat, NEW elif \in BOOLEAN, a[1] < j
          PROVE  f[<<j, d, elif>>] = g[<<j, d, elif>>]
      <4>. DEFINE y == <<j, d, elif>>
      <4>1. y \in D /\ rank[y] = n - j /\ rank[a] = n - a[1] OBVIOUS
      <4>2. n - j < n - a[1] BY <1>1, <3>1
      <4>. HIDE DEF y, rank
      <4>3. f[y] = g[y] BY <4>1, <4>2
      <4>. QED BY <4>3 DEF y
    <3>. QED BY <3>1 DEF CostsAgree
  <2>2. CostOf(t, f, a) = CostOf(t, g, a) BY <1>2, <2>1, CostOfDepends
  <2>3. step[<<a, f>>] = CostOf(t, f, a) /\ step[<<a, g>>] = CostOf(t, g, a)
    <3>. HIDE DEF D
    <3>. QED OBVIOUS
  <2>. QED BY <2>2, <2>3
<1>5. rank \in [D -> 0..n] BY <1>1
<1>6. \E f \in [D -> Nat] : \A x \in D : f[x] = step[<<x, f>>]
  <2>1. Nat # {} OBVIOUS
  <2>2. Descends(D, Nat, n, rank, step)
    <3>. HIDE DEF rank, step, D, n
    <3>. QED BY <1>1, <1>3, <1>4, <1>5, <2>1 DEF Descends
  <2>. HIDE DEF rank, step, D, n
  <2>. QED BY <2>2, RecursionExists
<1>7. PICK f \in [D -> Nat] : \A x \in D : f[x] = step[<<x, f>>] BY <1>6
<1>. DEFINE Is(g) == g = [a \in (DOMAIN t) \X Nat \X BOOLEAN |->
                            IF a[3] THEN IfChain(t, g, a[1], a[2]) ELSE Statement(t, g, a[1], a[2])]
            costs == CHOOSE g : Is(g)
<1>8. \A g : Is(g) <=> g = [a \in D |-> CostOf(t, g, a)] BY DEF CostOf
<1>9. Is(f)
  <2>1. \A a \in D : f[a] = CostOf(t, f, a)
    <3>. HIDE DEF D
    <3>. QED BY <1>7
  <2>2. f = [a \in D |-> CostOf(t, f, a)]
    <3>. HIDE DEF D
    <3>. QED BY <2>1
  <2>. HIDE DEF Is
  <2>. QED BY <1>8, <2>2
<1>10. Is(costs)
  <2>. HIDE DEF Is
  <2>. QED BY <1>9
<1>11. Costs(t) = costs BY DEF Costs
<1>. HIDE DEF costs, Is
<1>12. Costs(t) = [a \in D |-> CostOf(t, Costs(t), a)] BY <1>8, <1>10, <1>11
<1>13. \A a \in D : Costs(t)[a] = CostOf(t, Costs(t), a)
  <2>. HIDE DEF D
  <2>. QED BY <1>12
<1>. DEFINE G == {i \in DOMAIN t : \A d \in Nat : \A elif \in BOOLEAN :
                                     Costs(t)[<<i, d, elif>>] \in Nat}
<1>14. 1..n \subseteq G
  <2>1. ASSUME NEW i \in 1..n, \A k \in 1..n : i < k => k \in G PROVE i \in G
    <3>1. CostsAfter(t, Costs(t), i) BY <1>1, <2>1 DEF CostsAfter
    <3>2. CostsAgree(t, Costs(t), Costs(t), i) BY DEF CostsAgree
    <3>3. ASSUME NEW d \in Nat, NEW elif \in BOOLEAN PROVE Costs(t)[<<i, d, elif>>] \in Nat
      <4>. DEFINE a == <<i, d, elif>>
      <4>1. a \in D /\ a[1] = i BY <1>1
      <4>. HIDE DEF a
      <4>2. CostOf(t, Costs(t), a) \in Nat BY <3>1, <3>2, <4>1, CostOfDepends
      <4>. QED BY <1>13, <4>1, <4>2 DEF a
    <3>. QED BY <1>1, <3>3
  <2>. HIDE DEF G
  <2>. QED BY <1>1, <2>1, DownwardInduction
<1>15. ASSUME NEW i \in DOMAIN t, NEW d \in Nat
       PROVE  /\ Costs(t)[<<i, d, TRUE>>] = IfChain(t, Costs(t), i, d)
              /\ Costs(t)[<<i, d, FALSE>>] = Statement(t, Costs(t), i, d)
  <2>1. <<i, d, TRUE>> \in D /\ <<i, d, FALSE>> \in D OBVIOUS
  <2>2. /\ CostOf(t, Costs(t), <<i, d, TRUE>>) = IfChain(t, Costs(t), i, d)
        /\ CostOf(t, Costs(t), <<i, d, FALSE>>) = Statement(t, Costs(t), i, d)
    BY DEF CostOf
  <2>. HIDE DEF D
  <2>. QED BY <1>13, <2>1, <2>2
<1>16. \A i \in DOMAIN t : CostsAfter(t, Costs(t), i) BY <1>1, <1>14 DEF CostsAfter
<1>. QED BY <1>15, <1>16

-----------------------------------------------------------------------------
(***************************************************************************)
(* What each statement adds, by the blocks it is in; and what those add    *)
(* that a walk visits.                                                     *)
(***************************************************************************)
Elif(t, j) ==
  /\ t[j].kind = "if" /\ t[j].slot = "orelse"
  /\ Kind(t, t[j].up) = "if" /\ Cardinality(Kids(t, t[j].up, "orelse")) = 1

Deepening(t, f) ==
  {k \in DOMAIN t : /\ t[k].up # f /\ ~Elif(t, k)
                    /\ t[t[k].up].kind \in {"if", "loop", "handler", "case"} \cup Definitions}

Level(t, f, j) == Deep(t, f, Deepening(t, f), j)

HasElse(t, j) == IF \E k \in Kids(t, j, "orelse") : ~Elif(t, k) THEN 1 ELSE 0

Structure(t, j, n) ==
  CASE t[j].kind \in {"if", "loop"} -> HasElse(t, j) + 1 + IF Elif(t, j) THEN 0 ELSE n
    [] t[j].kind \in {"handler", "match"} -> 1 + n
    [] OTHER -> 0

Weight(t, f, j) ==
  Structure(t, j, Level(t, f, j))
    + IF t[j].kind \in Definitions \cup {"handler", "match", "case", "with", "try"} THEN 0
      ELSE Expressions(t[j], Level(t, f, j))

Weights(t, f) == [j \in Inside(t, f) |-> Weight(t, f, j)]

Load(t, f, i) == Over(Weights(t, f), Walk(t, i))

Loads(t, f) == [j \in Inside(t, f) |-> Load(t, f, j)]

LEMMA WeightIs ==
  ASSUME NEW t, NEW f, NEW j, NEW n, n = Level(t, f, j)
  PROVE  LET kind == t[j].kind
             own  == Expressions(t[j], n)
         IN /\ kind \in {"if", "loop"} =>
                 Weight(t, f, j) = HasElse(t, j) + 1 + (IF Elif(t, j) THEN 0 ELSE n) + own
            /\ kind \in {"handler", "match"} => Weight(t, f, j) = 1 + n + 0
            /\ kind \in Definitions \cup {"case", "with", "try"} => Weight(t, f, j) = 0 + 0
            /\ kind \notin Definitions \cup {"if", "loop", "handler", "match", "case", "with", "try"} =>
                 Weight(t, f, j) = 0 + own
<1>. DEFINE kind == t[j].kind
            own  == Expressions(t[j], n)
            else == HasElse(t, j)
            elif == Elif(t, j)
            plain == Definitions \cup {"handler", "match", "case", "with", "try"}
<1>1. Weight(t, f, j) = Structure(t, j, n) + (IF kind \in plain THEN 0 ELSE own) BY DEF Weight
<1>2. Structure(t, j, n) = CASE kind \in {"if", "loop"} -> else + 1 + (IF elif THEN 0 ELSE n)
                             [] kind \in {"handler", "match"} -> 1 + n
                             [] OTHER -> 0
  BY DEF Structure
<1>. HIDE DEF own, else, elif
<1>3. CASE kind \in {"if", "loop"} BY <1>1, <1>2, <1>3 DEF Definitions, own, else, elif
<1>4. CASE kind \in {"handler", "match"} BY <1>1, <1>2, <1>4 DEF Definitions
<1>5. CASE kind \in Definitions \cup {"case", "with", "try"} BY <1>1, <1>2, <1>5 DEF Definitions
<1>6. CASE kind \notin Definitions \cup {"if", "loop", "handler", "match", "case", "with", "try"}
  BY <1>1, <1>2, <1>6 DEF Definitions, own
<1>. QED BY <1>3, <1>4, <1>5, <1>6

LEMMA WeightIsNatural ==
  ASSUME NEW t, IsText(t), IsTree(t), NEW f \in DOMAIN t, NEW j \in DOMAIN t
  PROVE  Weight(t, f, j) \in Nat /\ Level(t, f, j) \in Nat
<1>. DEFINE n == Level(t, f, j)
            own == Expressions(t[j], n)
            else == HasElse(t, j)
            elif == IF Elif(t, j) THEN 0 ELSE n
<1>1. n \in Nat BY LineIsFew DEF Level
<1>. HIDE DEF n
<1>2. own \in Nat BY <1>1, ExpressionsAreNatural DEF IsText
<1>3. else \in Nat /\ elif \in Nat BY <1>1 DEF HasElse
<1>4. \/ Weight(t, f, j) = else + 1 + elif + own
      \/ Weight(t, f, j) = 1 + n + 0
      \/ Weight(t, f, j) = 0 + 0
      \/ Weight(t, f, j) = 0 + own
  BY WeightIs DEF n
<1>. HIDE DEF own, else, elif
<1>5. Weight(t, f, j) \in Nat BY <1>1, <1>2, <1>3, <1>4
<1>. QED BY <1>1, <1>5 DEF n

LEMMA LoadsAre ==
  ASSUME NEW t, IsText(t), IsTree(t), NEW f \in DOMAIN t
  PROVE  /\ IsFiniteSet(Inside(t, f)) /\ Inside(t, f) \subseteq DOMAIN t
         /\ Weights(t, f) \in [Inside(t, f) -> Nat]
         /\ Loads(t, f) \in [Inside(t, f) -> Nat]
         /\ \A i \in Inside(t, f) : Children(t, i) \subseteq Inside(t, f)
         /\ Children(t, f) \subseteq Inside(t, f)
<1>1. IsFiniteSet(DOMAIN t) BY SequenceIsFew DEF IsText
<1>2. Inside(t, f) \in SUBSET DOMAIN t BY InsideIs
<1>3. IsFiniteSet(Inside(t, f)) BY <1>1, <1>2, FS_Subset
<1>4. Weights(t, f) \in [Inside(t, f) -> Nat] BY <1>2, WeightIsNatural DEF Weights
<1>5. \A i \in Inside(t, f) : Load(t, f, i) \in Nat
  <2>1. \A i \in Inside(t, f) : Walk(t, i) \in SUBSET Inside(t, f) BY InsideGrows
  <2>. QED BY <1>3, <1>4, <2>1, OverIs DEF Load
<1>6. ASSUME NEW i \in Inside(t, f), NEW m \in Children(t, i) PROVE m \in Inside(t, f)
  <2>1. m \in DOMAIN t BY DEF Children
  <2>2. m \in Walk(t, m) BY <2>1, WalkIs DEF Line
  <2>3. Walk(t, m) \subseteq Walk(t, i) BY <1>2, WalkSplits
  <2>. QED BY <2>2, <2>3, InsideGrows
<1>. QED BY <1>2, <1>3, <1>4, <1>5, <1>6, InsideGrows DEF Loads

\* The load of the children is the sum of their loads.
LEMMA ChildrenAreLoads ==
  ASSUME NEW t, IsText(t), IsTree(t), NEW f \in DOMAIN t, NEW i \in DOMAIN t,
         i = f \/ i \in Inside(t, f)
  PROVE  Over(Weights(t, f), UNION {Walk(t, m) : m \in Children(t, i)})
           = Over(Loads(t, f), Children(t, i))
<1>. DEFINE D == Inside(t, f)
            w == Weights(t, f)
            I == Children(t, i)
            P == [m \in I |-> Walk(t, m)]
<1>1. IsFiniteSet(D) /\ w \in [D -> Nat] /\ I \in SUBSET D /\ IsFiniteSet(I)
  <2>1. I \in SUBSET D BY LoadsAre
  <2>. QED BY <2>1, LoadsAre, FS_Subset
<1>2. P \in [I -> SUBSET D] BY <1>1, InsideGrows
<1>3. \A m, k \in I : m # k => P[m] \cap P[k] = {} BY WalkSplits
<1>4. UNION {Walk(t, m) : m \in I} = UNION {P[m] : m \in I} OBVIOUS
<1>5. [m \in I |-> Over(w, P[m])] = [m \in I |-> Loads(t, f)[m]]
  BY <1>1 DEF Loads, Load
<1>. HIDE DEF D, w, I, P
<1>6. Over(w, UNION {P[m] : m \in I}) = Total([m \in I |-> Over(w, P[m])])
  BY <1>1, <1>2, <1>3, OverParts
<1>7. Over(Loads(t, f), I) = Total([m \in I |-> Loads(t, f)[m]]) BY DEF Over
<1>. QED BY <1>4, <1>5, <1>6, <1>7 DEF w, I

LEMMA LoadSplits ==
  ASSUME NEW t, IsText(t), IsTree(t), NEW f \in DOMAIN t
  PROVE  /\ \A i \in Inside(t, f) :
              Loads(t, f)[i] = Weight(t, f, i) + Over(Loads(t, f), Children(t, i))
         /\ Over(Weights(t, f), Inside(t, f)) = Over(Loads(t, f), Children(t, f))
<1>1. Over(Weights(t, f), Inside(t, f)) = Over(Loads(t, f), Children(t, f))
  <2>1. Inside(t, f) = UNION {Walk(t, m) : m \in Children(t, f)} BY InsideGrows
  <2>. QED BY <2>1, ChildrenAreLoads
<1>2. ASSUME NEW i \in Inside(t, f)
      PROVE  Loads(t, f)[i] = Weight(t, f, i) + Over(Loads(t, f), Children(t, i))
  <2>. DEFINE w == Weights(t, f)
              D == Inside(t, f)
              A == Walk(t, i)
              R == UNION {Walk(t, m) : m \in Children(t, i)}
  <2>1. i \in DOMAIN t /\ IsFiniteSet(D) /\ w \in [D -> Nat] BY LoadsAre
  <2>2. A \in SUBSET D BY InsideGrows
  <2>3. i \in A /\ A \ {i} = R BY <2>1, WalkSplits
  <2>4. w[i] = Weight(t, f, i) BY DEF Weights
  <2>5. Loads(t, f)[i] = Over(w, A) BY DEF Loads, Load
  <2>6. Over(w, R) = Over(Loads(t, f), Children(t, i)) BY <2>1, ChildrenAreLoads
  <2>. HIDE DEF w, D, A, R
  <2>7. Over(w, A) = w[i] + Over(w, A \ {i}) BY <2>1, <2>2, <2>3, OverTakes
  <2>. QED BY <2>3, <2>4, <2>5, <2>6, <2>7
<1>. QED BY <1>1, <1>2

\* The blocks of a statement: what is in one is in no other.
Share(t, f, i, slot) == Over(Loads(t, f), Kids(t, i, slot))

LEMMA SlotsAre ==
  ASSUME NEW t, IsText(t), IsTree(t), NEW i \in DOMAIN t
  PROVE  /\ \A m \in Children(t, i) : t[m].slot \in {"body", "parts", "orelse", "final"}
         /\ t[i].kind \in Definitions \cup {"with", "handler", "case"} =>
              \A m \in Children(t, i) : t[m].slot = "body"
         /\ t[i].kind = "match" => \A m \in Children(t, i) : t[m].slot = "parts"
         /\ t[i].kind \in {"if", "loop"} =>
              \A m \in Children(t, i) : t[m].slot \in {"body", "orelse"}
         /\ t[i].kind \notin Definitions
              \cup {"with", "handler", "case", "match", "if", "loop", "try"} => Children(t, i) = {}
<1>1. \A m \in Children(t, i) : t[m].slot \in ToSet(Slots[t[i].kind]) /\ t[i].kind \in DOMAIN Slots
  BY KindsFit
<1>2. t[i].kind # "file"
  <2>1. t[i] \in ToSet(t) BY DEF ToSet
  <2>. QED BY <2>1 DEF IsText, IsStatement
<1>3. DOMAIN Slots = {"file", "def", "class", "with", "handler", "case", "match", "if", "loop", "try"}
  BY DEF Slots
<1>4. /\ \A k \in {"def", "class", "with", "handler", "case"} : ToSet(Slots[k]) = {"body"}
      /\ ToSet(Slots["match"]) = {"parts"}
      /\ \A k \in {"if", "loop"} : ToSet(Slots[k]) = {"body", "orelse"}
      /\ ToSet(Slots["try"]) = {"body", "parts", "orelse", "final"}
  <2>1. \A a, b, c, d : /\ ToSet(<<a>>) = {a} /\ ToSet(<<a, b>>) = {a, b}
                        /\ ToSet(<<a, b, c, d>>) = {a, b, c, d}
    BY DEF ToSet
  <2>2. /\ \A k \in {"def", "class", "with", "handler", "case"} : Slots[k] = <<"body">>
        /\ Slots["match"] = <<"parts">>
        /\ \A k \in {"if", "loop"} : Slots[k] = <<"body", "orelse">>
        /\ Slots["try"] = <<"body", "parts", "orelse", "final">>
    BY DEF Slots
  <2>. QED BY <2>1, <2>2
<1>. QED BY <1>1, <1>2, <1>3, <1>4 DEF Definitions

LEMMA SharesAdd ==
  ASSUME NEW t, IsText(t), IsTree(t), NEW f \in DOMAIN t, NEW i \in DOMAIN t,
         i = f \/ i \in Inside(t, f)
  PROVE  /\ Over(Loads(t, f), Children(t, i)) = Share(t, f, i, "body") + Share(t, f, i, "parts")
                                                  + Share(t, f, i, "orelse") + Share(t, f, i, "final")
         /\ \A slot : /\ Share(t, f, i, slot) \in Nat
                      /\ (\A m \in Children(t, i) : t[m].slot # slot) =>
                           Share(t, f, i, slot) = 0 /\ Kids(t, i, slot) = {}
<1>. DEFINE D == Inside(t, f)
            w == Loads(t, f)
            K(slot) == Kids(t, i, slot)
            b == K("body")
            p == K("parts")
            o == K("orelse")
            l == K("final")
<1>1. IsFiniteSet(D) /\ w \in [D -> Nat] /\ Children(t, i) \in SUBSET D BY LoadsAre
<1>2. \A slot : K(slot) \in SUBSET D BY <1>1, KidsAreChildren
<1>3. Children(t, i) = ((b \cup p) \cup o) \cup l
  <2>1. \A m \in Children(t, i) : t[m].slot \in {"body", "parts", "orelse", "final"} BY SlotsAre
  <2>. QED BY <2>1 DEF Children, Kids
<1>4. b \cap p = {} /\ (b \cup p) \cap o = {} /\ ((b \cup p) \cup o) \cap l = {} BY DEF Kids
<1>5. \A slot : Share(t, f, i, slot) = Over(w, K(slot)) BY DEF Share
<1>6. \A slot : (\A m \in Children(t, i) : t[m].slot # slot) => K(slot) = {}
  BY DEF Kids, Children
<1>7. b \in SUBSET D /\ p \in SUBSET D /\ o \in SUBSET D /\ l \in SUBSET D BY <1>2
<1>. HIDE DEF D, w, K, b, p, o, l
<1>8. \A slot : Over(w, K(slot)) \in Nat /\ Over(w, {}) = 0 BY <1>1, <1>2, OverIs
<1>9. Over(w, b \cup p) = Over(w, b) + Over(w, p) BY <1>1, <1>4, <1>7, OverUnion
<1>10. Over(w, (b \cup p) \cup o) = Over(w, b \cup p) + Over(w, o)
  <2>1. b \cup p \in SUBSET D BY <1>7
  <2>. QED BY <1>1, <1>4, <1>7, <2>1, OverUnion
<1>11. Over(w, ((b \cup p) \cup o) \cup l) = Over(w, (b \cup p) \cup o) + Over(w, l)
  <2>1. (b \cup p) \cup o \in SUBSET D BY <1>7
  <2>. QED BY <1>1, <1>4, <1>7, <2>1, OverUnion
<1>12. Over(w, Children(t, i)) = Over(w, b) + Over(w, p) + Over(w, o) + Over(w, l)
  BY <1>3, <1>9, <1>10, <1>11
<1>. QED BY <1>5, <1>6, <1>8, <1>12 DEF w, K, b, p, o, l

\* The level is the number that cost is given.
LEMMA LevelOfChild ==
  ASSUME NEW t, IsText(t), IsTree(t), NEW f \in DOMAIN t
  PROVE  /\ \A m \in Children(t, f) : Level(t, f, m) = 0
         /\ \A i \in Inside(t, f) : \A m \in Children(t, i) :
              Level(t, f, m) =
                IF ~Elif(t, m) /\ t[i].kind \in {"if", "loop", "handler", "case"} \cup Definitions
                THEN Level(t, f, i) + 1 ELSE Level(t, f, i)
<1>. DEFINE M == Deepening(t, f)
<1>1. ASSUME NEW m \in Children(t, f) PROVE Level(t, f, m) = 0
  <2>1. m \in Inside(t, f) /\ t[m].up = f /\ m \notin M BY InsideGrows DEF Children, Deepening
  <2>2. Deep(t, f, M, m) = 0 + 0 BY <2>1, DeepOfChild
  <2>. QED BY <2>2 DEF Level
<1>2. ASSUME NEW i \in Inside(t, f), NEW m \in Children(t, i)
      PROVE  Level(t, f, m) =
                IF ~Elif(t, m) /\ t[i].kind \in {"if", "loop", "handler", "case"} \cup Definitions
                THEN Level(t, f, i) + 1 ELSE Level(t, f, i)
  <2>1. m \in Inside(t, f) /\ t[m].up = i /\ i # f /\ m \in DOMAIN t
    BY LoadsAre, InsideIs DEF Children
  <2>2. m \in M <=> ~Elif(t, m) /\ t[i].kind \in {"if", "loop", "handler", "case"} \cup Definitions
    BY <2>1 DEF Deepening
  <2>3. Deep(t, f, M, m) = Deep(t, f, M, i) + IF m \in M THEN 1 ELSE 0 BY <2>1, DeepOfChild
  <2>4. Deep(t, f, M, i) \in Nat BY LineIsFew
  <2>. HIDE DEF M
  <2>. QED BY <2>2, <2>3, <2>4 DEF Level, M
<1>. QED BY <1>1, <1>2

\* An "elif" is the only statement in the "else" of an "if".
LEMMA ElifIsAlone ==
  ASSUME NEW t, IsText(t), IsTree(t), NEW i \in DOMAIN t
  PROVE  /\ \A m \in Children(t, i) : Elif(t, m) =>
              /\ t[i].kind = "if" /\ t[m].kind = "if" /\ t[m].slot = "orelse"
              /\ Kids(t, i, "orelse") = {m} /\ Min(Kids(t, i, "orelse")) = m
              /\ Cardinality(Kids(t, i, "orelse")) = 1
         /\ t[i].kind = "if" /\ Cardinality(Kids(t, i, "orelse")) = 1
              /\ t[Min(Kids(t, i, "orelse"))].kind = "if" =>
              \E m \in Children(t, i) : Elif(t, m) /\ m = Min(Kids(t, i, "orelse"))
<1>. DEFINE rest == Kids(t, i, "orelse")
<1>1. i \in Nat /\ i # 0 BY TreeHasPlaces
<1>2. IsFiniteSet(rest) /\ rest \subseteq Children(t, i) BY KidsAreChildren
<1>3. Cardinality(rest) = 1 => \E m : rest = {m}
  <2>. HIDE DEF rest
  <2>. QED BY <1>2, FS_CountingElements, FS_Singleton
<1>4. ASSUME NEW m, rest = {m} PROVE Min(rest) = m
  <2>1. Kids(t, i, "orelse") # {} BY <1>4
  <2>2. Min(Kids(t, i, "orelse")) \in Kids(t, i, "orelse") BY <2>1, LeastKid
  <2>. QED BY <1>4, <2>2
<1>5. ASSUME NEW m \in Children(t, i), Elif(t, m)
      PROVE  /\ t[i].kind = "if" /\ t[m].kind = "if" /\ t[m].slot = "orelse"
             /\ rest = {m} /\ Min(rest) = m /\ Cardinality(rest) = 1
  <2>1. t[m].up = i /\ m \in DOMAIN t BY DEF Children
  <2>2. t[i].kind = "if" /\ t[m].kind = "if" /\ t[m].slot = "orelse" /\ Cardinality(rest) = 1
    BY <1>1, <1>5, <2>1 DEF Elif, Kind
  <2>3. m \in rest BY <2>1, <2>2 DEF Kids
  <2>4. rest = {m}
    <3>. HIDE DEF rest
    <3>. QED BY <1>3, <2>2, <2>3
  <2>5. Min(rest) = m BY <1>4, <2>4
  <2>. QED BY <2>2, <2>4, <2>5
<1>6. ASSUME t[i].kind = "if", Cardinality(rest) = 1, t[Min(rest)].kind = "if"
      PROVE  \E m \in Children(t, i) : Elif(t, m) /\ m = Min(rest)
  <2>1. PICK m : rest = {m} BY <1>3, <1>6
  <2>2. Min(rest) = m BY <1>4, <2>1
  <2>3. m \in Children(t, i) /\ t[m].up = i /\ t[m].slot = "orelse" /\ t[m].kind = "if"
    BY <1>2, <1>6, <2>1, <2>2 DEF Kids
  <2>4. Elif(t, m) BY <1>1, <1>6, <2>3 DEF Elif, Kind
  <2>. QED BY <2>2, <2>3, <2>4
<1>. QED BY <1>5, <1>6

\* The cost of a statement, at its level, is what its walk adds.
Costed(t, f, i) ==
  t[i].kind \notin {"handler", "case"} =>
    Costs(t)[<<i, Level(t, f, i), Elif(t, i)>>] = Loads(t, f)[i]

CostedAfter(t, f, i) == \A k \in Inside(t, f) : i < k => Costed(t, f, k)

LEMMA BlockIsShare ==
  ASSUME NEW t, IsText(t), IsTree(t), NEW f \in DOMAIN t, NEW i \in DOMAIN t,
         i = f \/ i \in Inside(t, f), CostedAfter(t, f, i),
         NEW slot, slot # "parts", NEW n,
         \A m \in Kids(t, i, slot) : ~Elif(t, m) /\ Level(t, f, m) = n
  PROVE  Block(t, Costs(t), i, slot, n) = Share(t, f, i, slot)
<1>1. ASSUME NEW m \in Kids(t, i, slot)
      PROVE  Costs(t)[<<m, n, FALSE>>] = Loads(t, f)[m]
  <2>1. m \in Children(t, i) /\ i < m /\ t[m].slot = slot BY KidsAreChildren
  <2>2. m \in Inside(t, f) BY <2>1, LoadsAre
  <2>3. t[m].kind \notin {"handler", "case"} BY <2>1, KindsFit
  <2>4. Costs(t)[<<m, Level(t, f, m), Elif(t, m)>>] = Loads(t, f)[m]
    BY <2>1, <2>2, <2>3 DEF CostedAfter, Costed
  <2>5. Elif(t, m) = FALSE BY DEF Elif
  <2>. QED BY <2>4, <2>5
<1>2. [m \in Kids(t, i, slot) |-> Costs(t)[<<m, n, FALSE>>]]
        = [m \in Kids(t, i, slot) |-> Loads(t, f)[m]]
  BY <1>1
<1>. QED BY <1>2 DEF Block, Share, Over

LEMMA PartsAreShare ==
  ASSUME NEW t, IsText(t), IsTree(t), NEW f \in DOMAIN t, NEW i \in Inside(t, f),
         t[i].kind \in {"try", "match"}, CostedAfter(t, f, i),
         NEW n, n = Level(t, f, i),
         NEW points, points = IF t[i].kind = "try" THEN 1 + n ELSE 0
  PROVE  Parts(t, Costs(t), i, n, points) = Share(t, f, i, "parts")
<1>1. i \in DOMAIN t /\ n \in Nat BY LoadsAre, WeightIsNatural
<1>2. ASSUME NEW h \in Kids(t, i, "parts")
      PROVE  points + Block(t, Costs(t), h, "body", n + 1) = Loads(t, f)[h]
  <2>1. h \in Children(t, i) /\ h \in DOMAIN t /\ i < h /\ t[h].slot = "parts"
    BY <1>1, KidsAreChildren
  <2>2. h \in Inside(t, f) BY <2>1, LoadsAre
  <2>3. /\ t[h].kind \in {"handler", "case"}
        /\ t[h].kind = "handler" => t[i].kind = "try"
        /\ t[h].kind = "case" => t[i].kind = "match"
    BY <1>1, <2>1, KindsFit
  <2>4. Level(t, f, h) = n
    <3>1. t[i].kind \notin {"if", "loop", "handler", "case"} \cup Definitions BY DEF Definitions
    <3>. QED BY <2>1, <3>1, LevelOfChild
  <2>5. Weight(t, f, h) = points + 0
    <3>1. CASE t[h].kind = "handler" BY <2>3, <2>4, <3>1, WeightIs
    <3>2. CASE t[h].kind = "case" BY <2>3, <2>4, <3>2, WeightIs
    <3>. QED BY <2>3, <3>1, <3>2
  <2>6. ASSUME NEW m \in Kids(t, h, "body") PROVE ~Elif(t, m) /\ Level(t, f, m) = n + 1
    <3>1. m \in Children(t, h) BY <2>1, KidsAreChildren
    <3>2. ~Elif(t, m) BY <2>1, <2>3, <3>1, ElifIsAlone
    <3>. QED BY <2>2, <2>3, <2>4, <3>1, <3>2, LevelOfChild
  <2>7. CostedAfter(t, f, h)
    <3>1. ASSUME NEW k \in Inside(t, f), h < k PROVE i < k
      <4>1. k \in DOMAIN t BY LoadsAre
      <4>2. k \in Nat /\ h \in Nat /\ i \in Nat BY <1>1, <2>1, <4>1, TreeHasPlaces
      <4>. QED BY <2>1, <3>1, <4>2
    <3>. QED BY <3>1 DEF CostedAfter
  <2>8. Block(t, Costs(t), h, "body", n + 1) = Share(t, f, h, "body")
    <3>. DEFINE d == n + 1
    <3>1. \A m \in Kids(t, h, "body") : ~Elif(t, m) /\ Level(t, f, m) = d BY <2>6
    <3>. HIDE DEF d
    <3>2. Block(t, Costs(t), h, "body", d) = Share(t, f, h, "body")
      BY <2>1, <2>2, <2>7, <3>1, BlockIsShare
    <3>. QED BY <3>2 DEF d
  <2>9. Over(Loads(t, f), Children(t, h)) = Share(t, f, h, "body")
    <3>1. \A m \in Children(t, h) : t[m].slot = "body" BY <2>1, <2>3, SlotsAre
    <3>2. /\ Share(t, f, h, "parts") = 0 /\ Share(t, f, h, "orelse") = 0
          /\ Share(t, f, h, "final") = 0 /\ Share(t, f, h, "body") \in Nat
      BY <2>1, <2>2, <3>1, SharesAdd
    <3>3. Over(Loads(t, f), Children(t, h)) = Share(t, f, h, "body") + Share(t, f, h, "parts")
                                               + Share(t, f, h, "orelse") + Share(t, f, h, "final")
      BY <2>1, <2>2, SharesAdd
    <3>. QED BY <3>2, <3>3
  <2>10. Loads(t, f)[h] = Weight(t, f, h) + Over(Loads(t, f), Children(t, h)) BY <2>2, LoadSplits
  <2>11. points \in Nat BY <1>1
  <2>. QED BY <2>5, <2>8, <2>9, <2>10, <2>11
<1>3. [h \in Kids(t, i, "parts") |-> points + Block(t, Costs(t), h, "body", n + 1)]
        = [h \in Kids(t, i, "parts") |-> Loads(t, f)[h]]
  BY <1>2
<1>. QED BY <1>3 DEF Parts, Share, Over

\* The blocks of a statement in which nothing is chained.
LEMMA BlocksAreShares ==
  ASSUME NEW t, IsText(t), IsTree(t), NEW f \in DOMAIN t, NEW i \in Inside(t, f),
         CostedAfter(t, f, i), NEW n, n = Level(t, f, i)
  PROVE  /\ t[i].kind \in {"if", "loop"} \cup Definitions =>
              Block(t, Costs(t), i, "body", n + 1) = Share(t, f, i, "body")
         /\ t[i].kind \in {"try", "with"} => \A slot \in {"body", "orelse", "final"} :
              Block(t, Costs(t), i, slot, n) = Share(t, f, i, slot)
         /\ t[i].kind = "loop" \/ (t[i].kind = "if" /\ \A m \in Kids(t, i, "orelse") : ~Elif(t, m)) =>
              Block(t, Costs(t), i, "orelse", n + 1) = Share(t, f, i, "orelse")
<1>1. i \in DOMAIN t /\ n \in Nat BY LoadsAre, WeightIsNatural
<1>2. \A slot : \A m \in Kids(t, i, slot) :
        /\ m \in Children(t, i) /\ t[m].slot = slot
        /\ Elif(t, m) => t[i].kind = "if" /\ slot = "orelse"
  BY <1>1, KidsAreChildren, ElifIsAlone
<1>. DEFINE d == n + 1
<1>3. \A m \in Children(t, i) :
        /\ ~Elif(t, m) /\ t[i].kind \in {"if", "loop"} \cup Definitions => Level(t, f, m) = d
        /\ t[i].kind \in {"try", "with"} => Level(t, f, m) = n
  BY LevelOfChild DEF Definitions
<1>. HIDE DEF d
<1>4. ASSUME NEW slot \in {"body", "orelse", "final"}, NEW e,
             \A m \in Kids(t, i, slot) : ~Elif(t, m) /\ Level(t, f, m) = e
      PROVE  Block(t, Costs(t), i, slot, e) = Share(t, f, i, slot)
  BY <1>1, <1>4, BlockIsShare
<1>5. t[i].kind \in {"if", "loop"} \cup Definitions =>
        Block(t, Costs(t), i, "body", d) = Share(t, f, i, "body")
  BY <1>2, <1>3, <1>4
<1>6. t[i].kind \in {"try", "with"} => \A slot \in {"body", "orelse", "final"} :
        Block(t, Costs(t), i, slot, n) = Share(t, f, i, slot)
  BY <1>2, <1>3, <1>4
<1>7. t[i].kind = "loop" \/ (t[i].kind = "if" /\ \A m \in Kids(t, i, "orelse") : ~Elif(t, m)) =>
        Block(t, Costs(t), i, "orelse", d) = Share(t, f, i, "orelse")
  BY <1>2, <1>3, <1>4
<1>. QED BY <1>5, <1>6, <1>7 DEF d

LEMMA ChainIsLoad ==
  ASSUME NEW t, IsText(t), IsTree(t), NEW f \in DOMAIN t, NEW i \in Inside(t, f),
         t[i].kind = "if", CostedAfter(t, f, i)
  PROVE  Costed(t, f, i)
<1>. DEFINE n == Level(t, f, i)
            c == Costs(t)
            rest == Kids(t, i, "orelse")
            own == Expressions(t[i], n)
            body == Share(t, f, i, "body")
            other == Share(t, f, i, "orelse")
            else == HasElse(t, i)
            chain == IfChain(t, c, i, n)
            load == Loads(t, f)[i]
<1>1. i \in DOMAIN t /\ n \in Nat BY LoadsAre, WeightIsNatural
<1>2. own \in Nat BY <1>1, ExpressionsAreNatural DEF IsText
<1>3. body \in Nat /\ other \in Nat /\ (rest = {} => other = 0) /\ else \in {0, 1}
  <2>1. rest = {} => \A m \in Children(t, i) : t[m].slot # "orelse" BY DEF Kids, Children
  <2>. QED BY <1>1, <2>1, SharesAdd DEF HasElse
<1>4. load = Weight(t, f, i) + (body + other)
  <2>1. \A m \in Children(t, i) : t[m].slot # "parts" /\ t[m].slot # "final" BY <1>1, SlotsAre
  <2>2. Share(t, f, i, "parts") = 0 /\ Share(t, f, i, "final") = 0 BY <1>1, <2>1, SharesAdd
  <2>3. Over(Loads(t, f), Children(t, i)) = body + Share(t, f, i, "parts") + other
                                              + Share(t, f, i, "final")
    BY <1>1, SharesAdd
  <2>4. load = Weight(t, f, i) + Over(Loads(t, f), Children(t, i)) BY LoadSplits
  <2>. HIDE DEF body, other
  <2>. QED BY <1>3, <2>2, <2>3, <2>4
<1>5. Weight(t, f, i) = else + 1 + (IF Elif(t, i) THEN 0 ELSE n) + own BY WeightIs
<1>6. Block(t, c, i, "body", n + 1) = body BY BlocksAreShares
<1>7. chain = 1 + own + body + (else + other)
  <2>1. CASE rest = {}
    <3>1. else = 0 BY <2>1 DEF HasElse
    <3>2. chain = 1 + own + Block(t, c, i, "body", n + 1) + 0 BY <2>1, ChainIs
    <3>. HIDE DEF own, body, other, else, chain, rest
    <3>. QED BY <1>2, <1>3, <1>6, <2>1, <3>1, <3>2
  <2>2. CASE rest # {} /\ Cardinality(rest) = 1 /\ t[Min(rest)].kind = "if"
    <3>1. PICK m \in Children(t, i) : Elif(t, m) /\ m = Min(rest) BY <1>1, <2>2, ElifIsAlone
    <3>2. rest = {m} /\ t[m].kind = "if" BY <1>1, <3>1, ElifIsAlone
    <3>3. else = 0 BY <3>1, <3>2 DEF HasElse
    <3>4. m \in Inside(t, f) /\ i < m BY <1>1, LoadsAre, ChildIsAfter
    <3>5. Level(t, f, m) = n BY <3>1, LevelOfChild
    <3>6. c[<<m, n, TRUE>>] = Loads(t, f)[m]
      <4>1. Elif(t, m) = TRUE BY <3>1 DEF Elif
      <4>. QED BY <3>2, <3>4, <3>5, <4>1 DEF CostedAfter, Costed
    <3>7. other = Loads(t, f)[m]
      <4>. DEFINE D == Inside(t, f)
                  w == Loads(t, f)
      <4>1. IsFiniteSet(D) /\ w \in [D -> Nat] /\ {m} \in SUBSET D /\ m \in {m}
            /\ {} \in SUBSET D /\ {m} \ {m} = {}
        BY <3>4, LoadsAre
      <4>2. other = Over(w, {m}) BY <3>2 DEF Share
      <4>. HIDE DEF D, w, other
      <4>3. Over(w, {m}) = w[m] + Over(w, {m} \ {m}) BY <4>1, OverTakes
      <4>4. Over(w, {}) = 0 BY <4>1, OverIs
      <4>5. w[m] \in Nat BY <4>1
      <4>6. other = w[m] BY <4>1, <4>2, <4>3, <4>4, <4>5
      <4>. QED BY <4>6 DEF w
    <3>8. chain = 1 + own + Block(t, c, i, "body", n + 1) + c[<<m, n, TRUE>>]
      BY <2>2, <3>1, ChainIs
    <3>. HIDE DEF own, body, other, else, chain, rest
    <3>. QED BY <1>2, <1>3, <1>6, <3>3, <3>6, <3>7, <3>8
  <2>3. CASE rest # {} /\ ~(Cardinality(rest) = 1 /\ t[Min(rest)].kind = "if")
    <3>1. \A m \in rest : ~Elif(t, m)
      <4>1. rest \subseteq Children(t, i) BY <1>1, KidsAreChildren
      <4>. QED BY <1>1, <2>3, <4>1, ElifIsAlone
    <3>2. else = 1 BY <2>3, <3>1 DEF HasElse
    <3>3. Block(t, c, i, "orelse", n + 1) = other BY <3>1, BlocksAreShares
    <3>4. chain = 1 + own + Block(t, c, i, "body", n + 1) + (1 + Block(t, c, i, "orelse", n + 1))
      BY <2>3, ChainIs
    <3>. HIDE DEF own, body, other, else, chain, rest
    <3>. QED BY <1>2, <1>3, <1>6, <3>2, <3>3, <3>4
  <2>. QED BY <2>1, <2>2, <2>3
<1>8. /\ c[<<i, n, TRUE>>] = chain
      /\ c[<<i, n, FALSE>>] = n + chain
  <2>1. c[<<i, n, TRUE>>] = chain /\ c[<<i, n, FALSE>>] = Statement(t, c, i, n) BY <1>1, CostIs
  <2>2. Statement(t, c, i, n) = n + chain BY StatementIs
  <2>. QED BY <2>1, <2>2
<1>9. c[<<i, n, Elif(t, i)>>] = load
  <2>1. CASE Elif(t, i)
    <3>1. c[<<i, n, Elif(t, i)>>] = chain
      <4>1. Elif(t, i) = TRUE BY <2>1 DEF Elif
      <4>. QED BY <1>8, <4>1
    <3>. HIDE DEF own, body, other, else, chain, load, n
    <3>. QED BY <1>1, <1>2, <1>3, <1>4, <1>5, <1>7, <2>1, <3>1
  <2>2. CASE ~Elif(t, i)
    <3>1. c[<<i, n, Elif(t, i)>>] = n + chain
      <4>1. Elif(t, i) = FALSE BY <2>2 DEF Elif
      <4>. QED BY <1>8, <4>1
    <3>. HIDE DEF own, body, other, else, chain, load, n
    <3>. QED BY <1>1, <1>2, <1>3, <1>4, <1>5, <1>7, <2>2, <3>1
  <2>. QED BY <2>1, <2>2
<1>. QED BY <1>9 DEF Costed

LEMMA StatementIsLoad ==
  ASSUME NEW t, IsText(t), IsTree(t), NEW f \in DOMAIN t, NEW i \in Inside(t, f),
         t[i].kind # "if", CostedAfter(t, f, i)
  PROVE  Costed(t, f, i)
<1>. SUFFICES ASSUME t[i].kind \notin {"handler", "case"}
              PROVE  Costs(t)[<<i, Level(t, f, i), Elif(t, i)>>] = Loads(t, f)[i]
  BY DEF Costed
<1>. DEFINE n == Level(t, f, i)
            c == Costs(t)
            rest == Kids(t, i, "orelse")
            own == Expressions(t[i], n)
            body == Share(t, f, i, "body")
            parts == Share(t, f, i, "parts")
            other == Share(t, f, i, "orelse")
            final == Share(t, f, i, "final")
            load == Loads(t, f)[i]
            cost == Statement(t, c, i, n)
            w == Weight(t, f, i)
            kind == t[i].kind
<1>1. i \in DOMAIN t /\ n \in Nat BY LoadsAre, WeightIsNatural
<1>2. own \in Nat BY <1>1, ExpressionsAreNatural DEF IsText
<1>3. /\ body \in Nat /\ parts \in Nat /\ other \in Nat /\ final \in Nat
      /\ \A slot : (\A m \in Children(t, i) : t[m].slot # slot) =>
           Share(t, f, i, slot) = 0 /\ Kids(t, i, slot) = {}
  BY <1>1, SharesAdd
<1>4. load = w + (body + parts + other + final)
  <2>1. Over(Loads(t, f), Children(t, i)) = body + parts + other + final BY <1>1, SharesAdd
  <2>. QED BY <2>1, LoadSplits
<1>5. Elif(t, i) = FALSE BY DEF Elif
<1>6. c[<<i, n, FALSE>>] = cost BY <1>1, CostIs
<1>. SUFFICES cost = load BY <1>5, <1>6
<1>7. CASE kind = "loop"
  <2>1. \A m \in Children(t, i) : t[m].slot # "parts" /\ t[m].slot # "final" BY <1>1, <1>7, SlotsAre
  <2>2. parts = 0 /\ final = 0 BY <1>3, <2>1
  <2>3. HasElse(t, i) = IF rest = {} THEN 0 ELSE 1
    <3>1. \A m \in rest : m \in Children(t, i) BY <1>1, KidsAreChildren
    <3>2. \A m \in rest : ~Elif(t, m) BY <1>1, <3>1, ElifIsAlone
    <3>. QED BY <3>2 DEF HasElse
  <2>4. w = HasElse(t, i) + 1 + n + own BY <1>5, <1>7, WeightIs
  <2>5. Block(t, c, i, "body", n + 1) = body /\ Block(t, c, i, "orelse", n + 1) = other
    <3>1. Block(t, c, i, "body", n + 1) = body BY <1>7, BlocksAreShares
    <3>2. Block(t, c, i, "orelse", n + 1) = other BY <1>7, BlocksAreShares
    <3>. QED BY <3>1, <3>2
  <2>6. cost = 1 + n + Block(t, c, i, "body", n + 1) + own
                 + (IF rest = {} THEN 0 ELSE 1 + Block(t, c, i, "orelse", n + 1))
    BY <1>7, StatementIs
  <2>7. rest = {} => other = 0
    <3>1. rest = {} => \A m \in Children(t, i) : t[m].slot # "orelse" BY DEF Kids, Children
    <3>. QED BY <1>3, <3>1
  <2>. HIDE DEF n, c, rest, own, body, parts, other, final, load, cost, w
  <2>8. CASE rest = {} BY <1>1, <1>2, <1>3, <1>4, <2>2, <2>3, <2>4, <2>5, <2>6, <2>7, <2>8
  <2>9. CASE rest # {} BY <1>1, <1>2, <1>3, <1>4, <2>2, <2>3, <2>4, <2>5, <2>6, <2>9
  <2>. QED BY <2>8, <2>9
<1>8. CASE kind = "try"
  <2>1. w = 0 + 0 BY <1>8, WeightIs
  <2>2. /\ Block(t, c, i, "body", n) = body /\ Block(t, c, i, "orelse", n) = other
        /\ Block(t, c, i, "final", n) = final
    BY <1>8, BlocksAreShares
  <2>3. Parts(t, c, i, n, 1 + n) = parts
    <3>. DEFINE p == 1 + n
    <3>1. p = IF t[i].kind = "try" THEN 1 + n ELSE 0 BY <1>8
    <3>. HIDE DEF p
    <3>2. Parts(t, c, i, n, p) = parts BY <1>8, <3>1, PartsAreShare
    <3>. QED BY <3>2 DEF p
  <2>4. cost = Block(t, c, i, "body", n) + Parts(t, c, i, n, 1 + n)
                 + Block(t, c, i, "orelse", n) + Block(t, c, i, "final", n)
    BY <1>8, StatementIs
  <2>. HIDE DEF n, c, own, body, parts, other, final, load, cost, w
  <2>. QED BY <1>3, <1>4, <2>1, <2>2, <2>3, <2>4
<1>9. CASE kind = "match"
  <2>1. \A m \in Children(t, i) : t[m].slot = "parts" BY <1>1, <1>9, SlotsAre
  <2>2. body = 0 /\ other = 0 /\ final = 0 BY <1>3, <2>1
  <2>3. w = 1 + n + 0 BY <1>9, WeightIs
  <2>4. Parts(t, c, i, n, 0) = parts
    <3>. DEFINE p == 0
    <3>1. p = IF t[i].kind = "try" THEN 1 + n ELSE 0 BY <1>9
    <3>. HIDE DEF p
    <3>2. Parts(t, c, i, n, p) = parts BY <1>9, <3>1, PartsAreShare
    <3>. QED BY <3>2 DEF p
  <2>5. cost = 1 + n + Parts(t, c, i, n, 0) BY <1>9, StatementIs
  <2>. HIDE DEF n, c, own, body, parts, other, final, load, cost, w
  <2>. QED BY <1>1, <1>3, <1>4, <2>2, <2>3, <2>4, <2>5
<1>10. CASE kind \in Definitions \/ kind = "with"
  <2>1. \A m \in Children(t, i) : t[m].slot = "body" BY <1>1, <1>10, SlotsAre
  <2>2. parts = 0 /\ other = 0 /\ final = 0 BY <1>3, <2>1
  <2>3. w = 0 + 0 BY <1>10, WeightIs
  <2>4. cost = body
    <3>1. CASE kind = "with"
      <4>1. cost = Block(t, c, i, "body", n) BY <3>1, StatementIs
      <4>. QED BY <3>1, <4>1, BlocksAreShares
    <3>2. CASE kind \in Definitions
      <4>1. cost = Block(t, c, i, "body", n + 1) BY <3>2, StatementIs
      <4>. QED BY <3>2, <4>1, BlocksAreShares
    <3>. QED BY <1>10, <3>1, <3>2
  <2>. HIDE DEF n, c, own, body, parts, other, final, load, cost, w
  <2>. QED BY <1>3, <1>4, <2>2, <2>3, <2>4
<1>11. CASE kind \notin Definitions \cup {"if", "loop", "try", "match", "with"}
  <2>1. Children(t, i) = {} BY <1>1, <1>11, SlotsAre
  <2>2. body = 0 /\ parts = 0 /\ other = 0 /\ final = 0 BY <1>3, <2>1
  <2>3. w = 0 + own BY <1>11, WeightIs
  <2>4. cost = own BY <1>11, StatementIs
  <2>. HIDE DEF n, c, own, body, parts, other, final, load, cost, w
  <2>. QED BY <1>2, <1>4, <2>2, <2>3, <2>4
<1>. QED BY <1>7, <1>8, <1>9, <1>10, <1>11

LEMMA AllAreCosted ==
  ASSUME NEW t, IsText(t), IsTree(t), NEW f \in DOMAIN t
  PROVE  \A i \in Inside(t, f) : Costed(t, f, i)
<1>. DEFINE G == {i \in DOMAIN t : i \in Inside(t, f) => Costed(t, f, i)}
<1>1. Len(t) \in Nat /\ DOMAIN t = 1..Len(t) /\ Inside(t, f) \subseteq DOMAIN t
  BY TreeHasPlaces, LoadsAre
<1>2. ASSUME NEW i \in 1..Len(t), \A k \in 1..Len(t) : i < k => k \in G PROVE i \in G
  <2>1. ASSUME i \in Inside(t, f) PROVE Costed(t, f, i)
    <3>1. CostedAfter(t, f, i) BY <1>1, <1>2 DEF CostedAfter
    <3>2. CASE t[i].kind = "if" BY <2>1, <3>1, <3>2, ChainIsLoad
    <3>3. CASE t[i].kind # "if" BY <2>1, <3>1, <3>3, StatementIsLoad
    <3>. QED BY <3>2, <3>3
  <2>. QED BY <1>1, <2>1
<1>3. 1..Len(t) \subseteq G
  <2>. HIDE DEF G
  <2>. QED BY <1>1, <1>2, DownwardInduction
<1>. QED BY <1>1, <1>3

LEMMA BlockOfFunction ==
  ASSUME NEW t, IsText(t), IsTree(t), NEW f \in DOMAIN t, t[f].kind = "def"
  PROVE  Block(t, Costs(t), f, "body", 0) = Over(Weights(t, f), Inside(t, f))
<1>1. CostedAfter(t, f, f) BY AllAreCosted DEF CostedAfter
<1>2. \A m \in Kids(t, f, "body") : ~Elif(t, m) /\ Level(t, f, m) = 0
  <2>1. \A m \in Kids(t, f, "body") : m \in Children(t, f) BY KidsAreChildren
  <2>. QED BY <2>1, ElifIsAlone, LevelOfChild
<1>3. Block(t, Costs(t), f, "body", 0) = Share(t, f, f, "body")
  <2>. DEFINE n == 0
  <2>1. \A m \in Kids(t, f, "body") : ~Elif(t, m) /\ Level(t, f, m) = n BY <1>2
  <2>. HIDE DEF n
  <2>2. Block(t, Costs(t), f, "body", n) = Share(t, f, f, "body") BY <1>1, <2>1, BlockIsShare
  <2>. QED BY <2>2 DEF n
<1>4. Over(Loads(t, f), Children(t, f)) = Share(t, f, f, "body")
  <2>1. \A m \in Children(t, f) : t[m].slot = "body" BY SlotsAre DEF Definitions
  <2>2. /\ Share(t, f, f, "parts") = 0 /\ Share(t, f, f, "orelse") = 0
        /\ Share(t, f, f, "final") = 0 /\ Share(t, f, f, "body") \in Nat
    BY <2>1, SharesAdd
  <2>3. Over(Loads(t, f), Children(t, f)) = Share(t, f, f, "body") + Share(t, f, f, "parts")
                                             + Share(t, f, f, "orelse") + Share(t, f, f, "final")
    BY SharesAdd
  <2>. QED BY <2>2, <2>3
<1>. QED BY <1>3, <1>4, LoadSplits

LEMMA CognitiveIs ==
  ASSUME NEW t, IsText(t), IsTree(t), NEW f \in DOMAIN t, t[f].kind = "def"
  PROVE  CognitiveComplexity(t, f)
           = Over(Weights(t, f), Inside(t, f)) + IF t[f].name \in CalledNames(t, f) THEN 1 ELSE 0
BY BlockOfFunction DEF CognitiveComplexity

LEMMA BurdenFollows == TypeInv /\ TextInv => BurdenIsByDepth
<1>. SUFFICES ASSUME TypeInv, TextInv, NEW f \in Functions
              PROVE  LET inside == Walk(text, f) \ {f}
                         above == Above(text)
                         elif(j) == /\ text[j].kind = "if" /\ text[j].slot = "orelse"
                                    /\ Kind(text, text[j].up) = "if"
                                    /\ Cardinality(Kids(text, text[j].up, "orelse")) = 1
                         deepens(j) == /\ text[j].up # f /\ ~elif(j)
                                       /\ text[text[j].up].kind
                                            \in {"if", "loop", "handler", "case"} \cup Definitions
                         level(j) == Cardinality({k \in ({j} \cup above[j]) \cap inside : deepens(k)})
                         else(j) == IF \E k \in Kids(text, j, "orelse") : ~elif(k) THEN 1 ELSE 0
                         burden(j) ==
                           LET kind == text[j].kind
                           IN (CASE kind \in {"if", "loop"} ->
                                      else(j) + 1 + IF elif(j) THEN 0 ELSE level(j)
                                 [] kind \in {"handler", "match"} -> 1 + level(j)
                                 [] OTHER -> 0)
                              + IF kind \in Definitions \cup {"handler", "match", "case", "with", "try"}
                                THEN 0
                                ELSE text[j].ternaries * (1 + level(j))
                                       + IF text[j].ands > 0 THEN 1 ELSE 0
                         recursive == \E u \in Uses(text, f) :
                                        u.role = "call" /\ Last(u.chain) = text[f].name
                     IN CognitiveComplexity(text, f)
                          = Total([j \in inside |-> burden(j)]) + IF recursive THEN 1 ELSE 0
  BY DEF BurdenIsByDepth
<1>. DEFINE inside == Walk(text, f) \ {f}
            above == Above(text)
            elif(j) == /\ text[j].kind = "if" /\ text[j].slot = "orelse"
                       /\ Kind(text, text[j].up) = "if"
                       /\ Cardinality(Kids(text, text[j].up, "orelse")) = 1
            deepens(j) == /\ text[j].up # f /\ ~elif(j)
                          /\ text[text[j].up].kind \in {"if", "loop", "handler", "case"} \cup Definitions
            level(j) == Cardinality({k \in ({j} \cup above[j]) \cap inside : deepens(k)})
            else(j) == IF \E k \in Kids(text, j, "orelse") : ~elif(k) THEN 1 ELSE 0
            first(j) == CASE text[j].kind \in {"if", "loop"} ->
                               else(j) + 1 + IF elif(j) THEN 0 ELSE level(j)
                          [] text[j].kind \in {"handler", "match"} -> 1 + level(j)
                          [] OTHER -> 0
            own(j) == text[j].ternaries * (1 + level(j)) + IF text[j].ands > 0 THEN 1 ELSE 0
            plain == Definitions \cup {"handler", "match", "case", "with", "try"}
            burden(j) == first(j) + IF text[j].kind \in plain THEN 0 ELSE own(j)
            recursive == \E u \in Uses(text, f) : u.role = "call" /\ Last(u.chain) = text[f].name
<1>1. IsText(text) /\ IsTree(text) /\ f \in DOMAIN text /\ text[f].kind = "def"
  BY DEF TypeInv, TextInv, Functions
<1>2. inside = Inside(text, f) /\ inside \subseteq DOMAIN text BY DEF Inside, Walk
<1>3. \A j : elif(j) <=> Elif(text, j) BY DEF Elif
<1>4. \A j : level(j) = Level(text, f, j)
  <2>1. ASSUME NEW j
        PROVE  {k \in ({j} \cup above[j]) \cap inside : deepens(k)}
                 = {k \in Line(text, j) \cap Inside(text, f) : k \in Deepening(text, f)}
    <3>1. {j} \cup above[j] = Line(text, j) BY DEF Line
    <3>2. \A k \in inside : deepens(k) <=> k \in Deepening(text, f) BY <1>2, <1>3 DEF Deepening
    <3>. HIDE DEF inside, above, deepens
    <3>. QED BY <1>2, <3>1, <3>2
  <2>. QED BY <2>1 DEF Level, Deep
<1>5. \A j : else(j) = HasElse(text, j) BY <1>3 DEF HasElse
<1>6. ASSUME NEW j \in inside PROVE own(j) = Expressions(text[j], Level(text, f, j))
  <2>. DEFINE n == level(j)
              a == text[j].ternaries * (1 + n)
              b == IF text[j].ands > 0 THEN 1 ELSE 0
  <2>1. n \in Nat
    <3>1. Level(text, f, j) \in Nat BY <1>1, <1>2, WeightIsNatural
    <3>. HIDE DEF level
    <3>. QED BY <1>4, <3>1
  <2>2. text[j].ternaries \in Nat
    <3>1. IsStatement(text[j]) BY <1>1, <1>2 DEF IsText, ToSet
    <3>. QED BY <3>1 DEF IsStatement
  <2>3. a \in Nat /\ b \in Nat
    <3>. HIDE DEF n
    <3>1. \A x, y \in Nat : x * y \in Nat OBVIOUS
    <3>2. 1 + n \in Nat BY <2>1
    <3>. QED BY <2>2, <3>1, <3>2
  <2>4. own(j) = a + b OBVIOUS
  <2>5. Expressions(text[j], n) = b + a BY DEF Expressions
  <2>6. a + b = b + a
    <3>. HIDE DEF a, b
    <3>. QED BY <2>3
  <2>. HIDE DEF a, b, level, own
  <2>. QED BY <1>4, <2>4, <2>5, <2>6
<1>7. \A j : first(j) = Structure(text, j, Level(text, f, j))
  <2>. HIDE DEF elif, level, else
  <2>. QED BY <1>3, <1>4, <1>5 DEF Structure
<1>8. \A j \in inside : burden(j) = Weight(text, f, j)
  <2>. HIDE DEF first, own, inside
  <2>. QED BY <1>6, <1>7 DEF Weight
<1>9. Total([j \in inside |-> burden(j)]) = Over(Weights(text, f), Inside(text, f))
  <2>1. \A j \in Inside(text, f) : Weights(text, f)[j] = Weight(text, f, j) BY DEF Weights
  <2>. HIDE DEF burden, inside
  <2>2. [j \in inside |-> burden(j)] = [j \in Inside(text, f) |-> Weights(text, f)[j]]
    BY <1>2, <1>8, <2>1
  <2>. QED BY <2>2 DEF Over
<1>10. recursive <=> text[f].name \in CalledNames(text, f) BY DEF CalledNames
<1>11. CognitiveComplexity(text, f) = Over(Weights(text, f), Inside(text, f))
                                        + IF recursive THEN 1 ELSE 0
  <2>. HIDE DEF recursive
  <2>. QED BY <1>1, <1>10, CognitiveIs
<1>12. CognitiveComplexity(text, f) = Total([j \in inside |-> burden(j)])
                                        + IF recursive THEN 1 ELSE 0
  <2>. HIDE DEF burden, recursive, inside
  <2>. QED BY <1>9, <1>11
<1>. QED BY <1>12

\* Whatever is written, and however the classes of a code base hang together: DIT is
\* the longest path to a base, what one class uses another is used by, the cognitive
\* complexity is the burden of each statement at its depth, the nesting is the deepest
\* run, and the methods of a class count once.
THEOREM MetricsFollowTheSource == Spec => []MetricsFollowSource
<1>1. TypeInv /\ TextInv => MetricsFollowSource
  BY DepthFollows, CouplingFollows, BurdenFollows, NestingFollows, MethodsFollow
  DEF MetricsFollowSource
<1>. QED BY <1>1, TextHolds, PTL

-----------------------------------------------------------------------------
(***************************************************************************)
(* More code: what is there stays where it is, and a sum, a count and a    *)
(* maximum over more are no less.                                          *)
(***************************************************************************)
Extends(r, t) ==
  /\ IsText(t) /\ IsTree(t) /\ IsText(r) /\ IsTree(r)
  /\ DOMAIN t \subseteq DOMAIN r /\ \A i \in DOMAIN t : r[i] = t[i]

LEMMA PlacesStay ==
  ASSUME NEW t, NEW r, Extends(r, t)
  PROVE  /\ \A i \in DOMAIN t : Line(r, i) = Line(t, i)
         /\ \A i \in 0..Len(t) : Kind(r, i) = Kind(t, i)
         /\ \A i : Walk(t, i) = Walk(r, i) \cap DOMAIN t
         /\ \A i : Inside(t, i) = Inside(r, i) \cap DOMAIN t
         /\ \A i, slot : Kids(t, i, slot) = Kids(r, i, slot) \cap DOMAIN t
<1>. DEFINE G == {i \in DOMAIN t : Above(r)[i] = Above(t)[i]}
<1>1. /\ IsText(t) /\ IsTree(t) /\ IsText(r) /\ IsTree(r)
      /\ Len(t) \in Nat /\ DOMAIN t = 1..Len(t) /\ Len(r) \in Nat /\ DOMAIN r = 1..Len(r)
      /\ DOMAIN t \subseteq DOMAIN r /\ \A i \in DOMAIN t : r[i] = t[i]
  BY TreeHasPlaces DEF Extends
<1>2. ASSUME NEW j \in 1..Len(t), \A k \in 1..Len(t) : k < j => k \in G PROVE j \in G
  <2>. DEFINE u == t[j].up
  <2>1. j \in DOMAIN t /\ j \in DOMAIN r /\ r[j].up = u BY <1>1
  <2>2. Above(t)[j] = {u} \cup Above(t)[u] /\ Above(r)[j] = {u} \cup Above(r)[u]
        /\ Above(t)[0] = {} /\ Above(r)[0] = {}
    BY <1>1, <2>1, AboveIs
  <2>3. u \in 0..(j - 1) BY <1>1, <2>1, TreeHasPlaces
  <2>. HIDE DEF u
  <2>4. CASE u = 0 BY <2>1, <2>2, <2>4
  <2>5. CASE u # 0
    <3>1. u \in 1..Len(t) /\ u < j BY <1>1, <2>3, <2>5
    <3>2. Above(r)[u] = Above(t)[u] BY <1>2, <3>1
    <3>. QED BY <2>1, <2>2, <3>2
  <2>. QED BY <2>4, <2>5
<1>3. 1..Len(t) \subseteq G
  <2>. HIDE DEF G
  <2>. QED BY <1>1, <1>2, UpwardInduction
<1>4. \A i \in DOMAIN t : Line(r, i) = Line(t, i) BY <1>1, <1>3 DEF Line
<1>5. \A i \in 0..Len(t) : Kind(r, i) = Kind(t, i)
  <2>1. \A i \in 0..Len(t) : i = 0 \/ i \in DOMAIN t BY <1>1
  <2>. QED BY <1>1, <2>1 DEF Kind
<1>6. \A i : Walk(t, i) = Walk(r, i) \cap DOMAIN t
  <2>1. \A i : /\ Walk(t, i) = {j \in DOMAIN t : i \in Line(t, j)}
               /\ Walk(r, i) = {j \in DOMAIN r : i \in Line(r, j)}
    BY WalkIs
  <2>. QED BY <1>1, <1>4, <2>1
<1>7. \A i : Inside(t, i) = Inside(r, i) \cap DOMAIN t BY <1>6 DEF Inside
<1>8. \A i, slot : Kids(t, i, slot) = Kids(r, i, slot) \cap DOMAIN t BY <1>1 DEF Kids
<1>. QED BY <1>4, <1>5, <1>6, <1>7, <1>8

LEMMA SumGrows ==
  ASSUME NEW E, IsFiniteSet(E), NEW D \in SUBSET E, NEW w \in [D -> Nat], NEW v \in [E -> Nat],
         \A x \in D : w[x] <= v[x]
  PROVE  Total(w) \in Nat /\ Total(v) \in Nat /\ Total(w) <= Total(v)
<1>. DEFINE G == {s \in SUBSET D : Over(w, s) <= Over(v, s)}
<1>1. IsFiniteSet(D) BY FS_Subset
<1>2. \A s \in SUBSET D : Over(w, s) \in Nat /\ Over(v, s) \in Nat /\ Over(w, {}) = 0
  <2>1. \A s \in SUBSET D : s \in SUBSET E OBVIOUS
  <2>. QED BY <1>1, <2>1, OverIs
<1>3. ASSUME NEW s \in SUBSET D, \A x \in s : s \ {x} \in G PROVE s \in G
  <2>1. CASE s = {} BY <1>2, <2>1
  <2>2. CASE s # {}
    <3>1. PICK x \in s : TRUE BY <2>2
    <3>. DEFINE q == s \ {x}
    <3>2. Over(w, q) <= Over(v, q) BY <1>3, <3>1
    <3>3. s \in SUBSET E /\ q \in SUBSET D OBVIOUS
    <3>4. Over(w, s) = w[x] + Over(w, q) /\ Over(v, s) = v[x] + Over(v, q)
      BY <1>1, <3>3, OverTakes
    <3>5. Over(w, q) \in Nat /\ Over(v, q) \in Nat BY <1>2, <3>3
    <3>6. w[x] \in Nat /\ v[x] \in Nat /\ w[x] <= v[x] OBVIOUS
    <3>. HIDE DEF q
    <3>. QED BY <3>2, <3>4, <3>5, <3>6
  <2>. QED BY <2>1, <2>2
<1>4. D \in G
  <2>1. SUBSET D \subseteq G
    <3>. HIDE DEF G
    <3>. QED BY <1>1, <1>3, SubsetInduction
  <2>. QED BY <2>1
<1>5. Over(v, E) = Over(v, D) + Over(v, E \ D)
  <2>1. E = D \cup (E \ D) /\ D \cap (E \ D) = {} /\ E \ D \in SUBSET E OBVIOUS
  <2>2. Over(v, D \cup (E \ D)) = Over(v, D) + Over(v, E \ D) BY <2>1, OverUnion
  <2>. QED BY <2>1, <2>2
<1>6. Over(v, E \ D) \in Nat BY OverIs
<1>7. Total(w) = Over(w, D) /\ Total(v) = Over(v, E)
  <2>1. w = [x \in D |-> w[x]] /\ v = [x \in E |-> v[x]] OBVIOUS
  <2>. QED BY <2>1 DEF Over
<1>8. Over(v, D) \in Nat /\ Over(w, D) \in Nat /\ Over(w, D) <= Over(v, D) BY <1>2, <1>4
<1>. QED BY <1>5, <1>6, <1>7, <1>8

LEMMA CountGrows ==
  ASSUME NEW T, IsFiniteSet(T), NEW S \in SUBSET T
  PROVE  Cardinality(S) \in Nat /\ Cardinality(T) \in Nat /\ Cardinality(S) <= Cardinality(T)
BY CountIsNatural, FS_CardinalityType

LEMMA GreatestGrows ==
  ASSUME NEW T, IsFiniteSet(T), T \subseteq Nat, NEW S \in SUBSET T, S # {}
  PROVE  Max(S) \in Nat /\ Max(T) \in Nat /\ Max(S) <= Max(T)
<1>1. IsFiniteSet(S) /\ T # {} BY FS_Subset
<1>2. Max(S) \in S /\ Max(T) \in T /\ \A x \in T : x <= Max(T) BY <1>1, HasGreatest
<1>. QED BY <1>2

LEMMA WalkGrows ==
  ASSUME NEW t, NEW r, Extends(r, t), NEW f
  PROVE  /\ Walk(t, f) \in SUBSET Walk(r, f) /\ IsFiniteSet(Walk(r, f))
         /\ \A j \in Walk(t, f) : j \in DOMAIN t /\ r[j] = t[j]
         /\ \A j \in Walk(r, f) : j \in DOMAIN r /\ IsStatement(r[j])
<1>1. IsText(r) /\ \A i \in DOMAIN t : r[i] = t[i] BY DEF Extends
<1>2. Walk(t, f) = Walk(r, f) \cap DOMAIN t BY PlacesStay
<1>3. Walk(r, f) \subseteq DOMAIN r /\ IsFiniteSet(Walk(r, f)) BY <1>1, WalkIsFew
<1>. QED BY <1>1, <1>2, <1>3 DEF IsText

\* What each statement adds, it adds to the more there is.
LEMMA WalkAdds ==
  ASSUME NEW t, NEW r, Extends(r, t), NEW f, NEW v \in [Walk(r, f) -> Nat]
  PROVE  /\ Total([j \in Walk(t, f) |-> v[j]]) \in Nat /\ Total(v) \in Nat
         /\ Total([j \in Walk(t, f) |-> v[j]]) <= Total(v)
<1>. DEFINE D == Walk(t, f)
            E == Walk(r, f)
            w == [j \in D |-> v[j]]
<1>1. D \in SUBSET E /\ IsFiniteSet(E) BY WalkGrows
<1>2. w \in [D -> Nat] /\ \A x \in D : w[x] <= v[x]
  <2>1. \A x \in D : v[x] \in Nat /\ w[x] = v[x] BY <1>1
  <2>. HIDE DEF w, D
  <2>2. \A x \in D : w[x] \in Nat /\ w[x] <= v[x] BY <2>1
  <2>3. w \in [D -> Nat] BY <2>2 DEF w
  <2>. QED BY <2>2, <2>3
<1>. HIDE DEF w, D
<1>. QED BY <1>1, <1>2, SumGrows DEF E, D, w

LEMMA CyclomaticGrows ==
  ASSUME NEW t, NEW r, Extends(r, t), NEW f
  PROVE  CyclomaticComplexity(t, f) <= CyclomaticComplexity(r, f)
<1>. DEFINE v == [j \in Walk(r, f) |-> Branches(r[j])]
            w == [j \in Walk(t, f) |-> Branches(t[j])]
<1>1. v \in [Walk(r, f) -> Nat] BY WalkGrows, BranchesAreNatural
<1>2. w = [j \in Walk(t, f) |-> v[j]] BY WalkGrows
<1>3. CyclomaticComplexity(t, f) = 1 + Total(w) /\ CyclomaticComplexity(r, f) = 1 + Total(v)
  BY DEF CyclomaticComplexity
<1>. HIDE DEF v, w
<1>4. Total(w) \in Nat /\ Total(v) \in Nat /\ Total(w) <= Total(v) BY <1>1, <1>2, WalkAdds
<1>. QED BY <1>3, <1>4

\* An "elif" stays one unless something follows it; then it is in an "else".
LEMMA DeepeningGrows ==
  ASSUME NEW t, NEW r, Extends(r, t), NEW f \in DOMAIN t
  PROVE  /\ \A j \in DOMAIN t : Elif(r, j) => Elif(t, j)
         /\ Deepening(t, f) \cap Inside(t, f) \subseteq Deepening(r, f)
         /\ \A j \in DOMAIN t : HasElse(t, j) \in {0, 1} /\ HasElse(r, j) \in {0, 1}
                                  /\ HasElse(t, j) <= HasElse(r, j)
         /\ \A j \in DOMAIN t : Elif(t, j) /\ ~Elif(r, j) => HasElse(r, t[j].up) = 1
<1>1. /\ IsText(t) /\ IsTree(t) /\ IsText(r) /\ IsTree(r)
      /\ DOMAIN t \subseteq DOMAIN r /\ \A i \in DOMAIN t : r[i] = t[i]
  BY DEF Extends
<1>2. /\ \A i \in 0..Len(t) : Kind(r, i) = Kind(t, i)
      /\ \A i, slot : Kids(t, i, slot) = Kids(r, i, slot) \cap DOMAIN t
  BY PlacesStay
<1>3. \A i \in DOMAIN t : t[i].up \in 0..Len(t) /\ t[i].up \in Int
  <2>1. Len(t) \in Nat /\ DOMAIN t = 1..Len(t) BY <1>1, TreeHasPlaces
  <2>2. \A i \in DOMAIN t : t[i].up \in 0..(i - 1) BY <1>1, TreeHasPlaces
  <2>. QED BY <2>1, <2>2
<1>4. ASSUME NEW j \in DOMAIN t, Elif(r, j) PROVE Elif(t, j)
  <2>. DEFINE old == Kids(t, t[j].up, "orelse")
              new == Kids(r, t[j].up, "orelse")
  <2>1. /\ t[j].kind = "if" /\ t[j].slot = "orelse" /\ Kind(t, t[j].up) = "if"
        /\ Cardinality(new) = 1
    BY <1>1, <1>2, <1>3, <1>4 DEF Elif
  <2>2. j \in old /\ old \subseteq new
    <3>1. j \in old BY <2>1 DEF Kids
    <3>2. old = new \cap DOMAIN t BY <1>2
    <3>. HIDE DEF old, new
    <3>. QED BY <3>1, <3>2
  <2>3. IsFiniteSet(new)
    <3>1. IsFiniteSet(DOMAIN r) BY <1>1, SequenceIsFew DEF IsText
    <3>2. new \in SUBSET DOMAIN r BY DEF Kids
    <3>. QED BY <3>1, <3>2, FS_Subset
  <2>. HIDE DEF old, new
  <2>4. Cardinality(old) \in Nat /\ Cardinality(old) <= 1 /\ IsFiniteSet(old)
    BY <2>1, <2>2, <2>3, CountIsNatural
  <2>5. Cardinality(old) # 0 BY <2>2, <2>4, FS_EmptySet
  <2>6. Cardinality(old) = 1 BY <2>4, <2>5
  <2>. QED BY <2>1, <2>6 DEF Elif, old
<1>5. ASSUME NEW k \in Deepening(t, f) \cap Inside(t, f) PROVE k \in Deepening(r, f)
  <2>1. k \in DOMAIN t /\ k \in DOMAIN r /\ r[k] = t[k] /\ t[k].up # f BY <1>1 DEF Deepening
  <2>2. ~Elif(r, k) BY <1>4, <2>1 DEF Deepening
  <2>3. t[t[k].up].kind \in {"if", "loop", "handler", "case"} \cup Definitions BY DEF Deepening
  <2>4. t[k].up \in DOMAIN t
    <3>1. t[k].up \in Inside(t, f) BY <1>1, <2>1, InsideIs
    <3>. QED BY <3>1, WalkGrows DEF Inside
  <2>5. r[r[k].up] = t[t[k].up] BY <1>1, <2>1, <2>4
  <2>. QED BY <2>1, <2>2, <2>3, <2>5 DEF Deepening
<1>6. ASSUME NEW j \in DOMAIN t
      PROVE  HasElse(t, j) \in {0, 1} /\ HasElse(r, j) \in {0, 1} /\ HasElse(t, j) <= HasElse(r, j)
  <2>1. HasElse(t, j) \in {0, 1} /\ HasElse(r, j) \in {0, 1} BY DEF HasElse
  <2>2. HasElse(t, j) = 1 => HasElse(r, j) = 1
    <3>1. \A k \in Kids(t, j, "orelse") : k \in Kids(r, j, "orelse") /\ k \in DOMAIN t
      BY <1>2
    <3>2. \A k \in Kids(t, j, "orelse") : ~Elif(t, k) => ~Elif(r, k) BY <1>4, <3>1
    <3>. QED BY <3>1, <3>2 DEF HasElse
  <2>. QED BY <2>1, <2>2
<1>7. ASSUME NEW j \in DOMAIN t, Elif(t, j), ~Elif(r, j) PROVE HasElse(r, t[j].up) = 1
  <2>1. j \in Kids(r, t[j].up, "orelse")
    <3>1. j \in Kids(t, t[j].up, "orelse") BY <1>7 DEF Elif, Kids
    <3>. QED BY <1>2, <3>1
  <2>. QED BY <1>7, <2>1 DEF HasElse
<1>. QED BY <1>4, <1>5, <1>6, <1>7

LEMMA LevelGrows ==
  ASSUME NEW t, NEW r, Extends(r, t), NEW f \in DOMAIN t, NEW j \in Inside(t, f)
  PROVE  /\ Level(t, f, j) \in Nat /\ Level(r, f, j) \in Nat
         /\ Level(t, f, j) <= Level(r, f, j)
<1>. DEFINE S == {k \in Line(t, j) \cap Inside(t, f) : k \in Deepening(t, f)}
            T == {k \in Line(r, j) \cap Inside(r, f) : k \in Deepening(r, f)}
<1>1. IsText(r) /\ IsTree(r) /\ f \in DOMAIN r BY DEF Extends
<1>2. Line(r, j) = Line(t, j) /\ Inside(t, f) \subseteq Inside(r, f)
  <2>1. j \in DOMAIN t BY WalkGrows DEF Inside
  <2>2. Inside(t, f) = Inside(r, f) \cap DOMAIN t BY PlacesStay
  <2>. QED BY <2>1, <2>2, PlacesStay
<1>3. S \in SUBSET T BY <1>2, DeepeningGrows
<1>4. IsFiniteSet(T) BY <1>1, LineIsFew
<1>5. Level(t, f, j) = Cardinality(S) /\ Level(r, f, j) = Cardinality(T) BY DEF Level, Deep
<1>. HIDE DEF S, T
<1>. QED BY <1>3, <1>4, <1>5, CountGrows

LEMMA ExpressionsGrow ==
  ASSUME NEW s, IsStatement(s), NEW n \in Nat, NEW m \in Nat, n <= m
  PROVE  /\ Expressions(s, n) \in Nat /\ Expressions(s, m) \in Nat
         /\ Expressions(s, n) <= Expressions(s, m)
<1>. DEFINE one == IF s.ands > 0 THEN 1 ELSE 0
            x == s.ternaries
            a == x * (1 + n)
            b == x * (1 + m)
<1>1. x \in Nat /\ one \in Nat BY DEF IsStatement
<1>2. a \in Int /\ b \in Int /\ a <= b
  <2>. HIDE DEF x
  <2>1. (1 + n) * x <= (1 + m) * x BY <1>1, TimesMonotone
  <2>2. \A y \in Nat : y * x = x * y /\ y * x \in Int BY <1>1
  <2>. QED BY <2>1, <2>2
<1>3. Expressions(s, n) = one + a /\ Expressions(s, m) = one + b BY DEF Expressions
<1>4. Expressions(s, n) \in Nat /\ Expressions(s, m) \in Nat BY ExpressionsAreNatural
<1>. HIDE DEF one, a, b
<1>. QED BY <1>1, <1>2, <1>3, <1>4

LEMMA WeightGrows ==
  ASSUME NEW t, NEW r, Extends(r, t), NEW f \in DOMAIN t, NEW j \in Inside(t, f)
  PROVE  Weight(t, f, j) <= Weight(r, f, j)
<1>. DEFINE n == Level(t, f, j)
            m == Level(r, f, j)
            s == t[j]
            a == Expressions(s, n)
            b == Expressions(s, m)
<1>1. j \in DOMAIN t /\ r[j] = s /\ IsStatement(s)
  <2>1. j \in Walk(t, f) BY DEF Inside
  <2>. QED BY <2>1, WalkGrows DEF Extends, IsText
<1>2. n \in Nat /\ m \in Nat /\ n <= m BY LevelGrows
<1>3. a \in Nat /\ b \in Nat /\ a <= b
  <2>. HIDE DEF n, m, s
  <2>. QED BY <1>1, <1>2, ExpressionsGrow
<1>4. /\ HasElse(t, j) \in {0, 1} /\ HasElse(r, j) \in {0, 1} /\ HasElse(t, j) <= HasElse(r, j)
      /\ Elif(r, j) => Elif(t, j)
  BY <1>1, DeepeningGrows
<1>5. CASE s.kind \in {"if", "loop"}
  <2>1. Weight(t, f, j) = HasElse(t, j) + 1 + (IF Elif(t, j) THEN 0 ELSE n) + a BY <1>5, WeightIs
  <2>2. Weight(r, f, j) = HasElse(r, j) + 1 + (IF Elif(r, j) THEN 0 ELSE m) + b
    BY <1>1, <1>5, WeightIs
  <2>. HIDE DEF n, m, s, a, b
  <2>. QED BY <1>2, <1>3, <1>4, <2>1, <2>2
<1>6. CASE s.kind \in {"handler", "match"}
  <2>1. Weight(t, f, j) = 1 + n + 0 BY <1>6, WeightIs
  <2>2. Weight(r, f, j) = 1 + m + 0 BY <1>1, <1>6, WeightIs
  <2>. HIDE DEF n, m
  <2>. QED BY <1>2, <2>1, <2>2
<1>7. CASE s.kind \in Definitions \cup {"case", "with", "try"}
  <2>1. Weight(t, f, j) = 0 + 0 BY <1>7, WeightIs
  <2>2. Weight(r, f, j) = 0 + 0 BY <1>1, <1>7, WeightIs
  <2>. QED BY <2>1, <2>2
<1>8. CASE s.kind \notin Definitions \cup {"if", "loop", "handler", "match", "case", "with", "try"}
  <2>1. Weight(t, f, j) = 0 + a BY <1>8, WeightIs
  <2>2. Weight(r, f, j) = 0 + b BY <1>1, <1>8, WeightIs
  <2>. HIDE DEF a, b
  <2>. QED BY <1>3, <2>1, <2>2
<1>. QED BY <1>5, <1>6, <1>7, <1>8

LEMMA NamesGrow ==
  ASSUME NEW t, NEW r, Extends(r, t), NEW f
  PROVE  /\ Uses(t, f) \subseteq Uses(r, f) /\ IsFiniteSet(Uses(r, f))
         /\ CalledNames(t, f) \subseteq CalledNames(r, f) /\ IsFiniteSet(CalledNames(r, f))
         /\ \A u \in Uses(r, f) : u.chain \in Seq(ToSet(u.chain)) \ {<<>>}
<1>1. /\ Walk(t, f) \in SUBSET Walk(r, f)
      /\ \A j \in Walk(t, f) : r[j] = t[j]
  BY WalkGrows
<1>2. IsText(r) BY DEF Extends
<1>3. Uses(t, f) \subseteq Uses(r, f) BY <1>1 DEF Uses
<1>4. CalledNames(t, f) \subseteq CalledNames(r, f) BY <1>3 DEF CalledNames
<1>5. IsFiniteSet(CalledNames(r, f)) BY <1>2, NamesAreFew
<1>6. /\ IsFiniteSet(Uses(r, f))
      /\ \A u \in Uses(r, f) : u.chain \in Seq(ToSet(u.chain)) \ {<<>>}
  <2>1. Walk(r, f) \in SUBSET DOMAIN r BY DEF Walk
  <2>. QED BY <1>2, <2>1, UsesAreFew DEF Uses
<1>. QED BY <1>3, <1>4, <1>5, <1>6

LEMMA CognitiveGrows ==
  ASSUME NEW t, NEW r, Extends(r, t), NEW f \in DOMAIN t, t[f].kind = "def"
  PROVE  CognitiveComplexity(t, f) <= CognitiveComplexity(r, f)
<1>. DEFINE w == Weights(t, f)
            v == Weights(r, f)
            a == IF t[f].name \in CalledNames(t, f) THEN 1 ELSE 0
            b == IF r[f].name \in CalledNames(r, f) THEN 1 ELSE 0
<1>1. /\ IsText(t) /\ IsTree(t) /\ IsText(r) /\ IsTree(r)
      /\ f \in DOMAIN r /\ r[f] = t[f]
  BY DEF Extends
<1>2. /\ CognitiveComplexity(t, f) = Over(w, Inside(t, f)) + a
      /\ CognitiveComplexity(r, f) = Over(v, Inside(r, f)) + b
  BY <1>1, CognitiveIs
<1>3. a \in {0, 1} /\ b \in {0, 1} /\ a <= b BY <1>1, NamesGrow
<1>4. /\ w \in [Inside(t, f) -> Nat] /\ v \in [Inside(r, f) -> Nat]
      /\ IsFiniteSet(Inside(r, f))
  BY <1>1, LoadsAre
<1>5. Inside(t, f) \in SUBSET Inside(r, f)
  <2>1. Inside(t, f) = Inside(r, f) \cap DOMAIN t BY PlacesStay
  <2>. QED BY <2>1
<1>6. \A j \in Inside(t, f) : w[j] <= v[j]
  <2>1. \A j \in Inside(t, f) : j \in Inside(r, f) BY <1>5
  <2>2. \A j \in Inside(t, f) : w[j] = Weight(t, f, j) /\ v[j] = Weight(r, f, j)
    BY <2>1 DEF Weights
  <2>3. \A j \in Inside(t, f) : Weight(t, f, j) <= Weight(r, f, j) BY WeightGrows
  <2>. HIDE DEF w, v
  <2>. QED BY <2>2, <2>3
<1>7. Over(w, Inside(t, f)) = Total(w) /\ Over(v, Inside(r, f)) = Total(v)
  BY DEF Over, Weights
<1>. HIDE DEF w, v, a, b
<1>8. Total(w) \in Nat /\ Total(v) \in Nat /\ Total(w) <= Total(v)
  BY <1>4, <1>5, <1>6, SumGrows
<1>. QED BY <1>2, <1>3, <1>7, <1>8

LEMMA NestingGrows ==
  ASSUME NEW t, NEW r, Extends(r, t), NEW f \in DOMAIN t, t[f].kind = "def"
  PROVE  MaxNestingDepth(t, f) <= MaxNestingDepth(r, f)
<1>. DEFINE S == {0} \cup {Run(t, f, j) : j \in Open(t, f)}
            runs == [j \in Open(r, f) |-> Run(r, f, j)]
            T == {0} \cup {Run(r, f, j) : j \in Open(r, f)}
<1>1. /\ IsText(t) /\ IsTree(t) /\ IsText(r) /\ IsTree(r)
      /\ f \in DOMAIN r /\ r[f] = t[f] /\ DOMAIN t \subseteq DOMAIN r
      /\ \A i \in DOMAIN t : r[i] = t[i]
  BY DEF Extends
<1>2. MaxNestingDepth(t, f) = Max(S) /\ MaxNestingDepth(r, f) = Max(T)
  BY <1>1, NestingIsGreatest
<1>3. \A j \in Inside(t, f) :
        /\ j \in DOMAIN t /\ j \in Inside(r, f) /\ Line(r, j) = Line(t, j)
        /\ Line(r, j) \cap Inside(r, f) = Line(t, j) \cap Inside(t, f)
  <2>. SUFFICES ASSUME NEW j \in Inside(t, f)
                PROVE  /\ j \in DOMAIN t /\ j \in Inside(r, f) /\ Line(r, j) = Line(t, j)
                       /\ Line(r, j) \cap Inside(r, f) = Line(t, j) \cap Inside(t, f)
    OBVIOUS
  <2>1. Inside(t, f) = Inside(r, f) \cap DOMAIN t BY PlacesStay
  <2>2. j \in DOMAIN t /\ j \in Inside(r, f) /\ Line(r, j) = Line(t, j) BY <2>1, PlacesStay
  <2>3. ASSUME NEW k \in Line(t, j) \cap Inside(r, f) PROVE k \in DOMAIN t
    <3>1. DOMAIN t = 1..Len(t) /\ Len(t) \in Nat /\ DOMAIN r = 1..Len(r) /\ Len(r) \in Nat
      BY <1>1, TreeHasPlaces
    <3>2. Above(t)[j] \subseteq 0..(j - 1) BY <1>1, <2>2, AboveIsBefore
    <3>3. k \in DOMAIN r BY <1>1, LoadsAre
    <3>4. k = j \/ k \in 0..(j - 1) BY <3>2 DEF Line
    <3>. QED BY <2>2, <3>1, <3>3, <3>4
  <2>. QED BY <2>1, <2>2, <2>3
<1>4. ASSUME NEW j \in Open(t, f) PROVE j \in Open(r, f) /\ Run(r, f, j) = Run(t, f, j)
  <2>1. /\ j \in Inside(t, f) /\ j \in Inside(r, f)
        /\ Line(r, j) \cap Inside(r, f) = Line(t, j) \cap Inside(t, f)
    BY <1>3 DEF Open
  <2>2. \A k \in Inside(t, f) : k \in DOMAIN t /\ k \in DOMAIN r /\ r[k] = t[k]
    BY <1>1, LoadsAre
  <2>3. j \in Open(r, f) BY <2>1, <2>2 DEF Open
  <2>4. {k \in Line(r, j) \cap Inside(r, f) : k \in Nests(r)}
          = {k \in Line(t, j) \cap Inside(t, f) : k \in Nests(t)}
    BY <2>1, <2>2 DEF Nests
  <2>. QED BY <2>3, <2>4 DEF Run, Deep
<1>5. S \in SUBSET T
  <2>1. \A j \in Open(t, f) : Run(t, f, j) \in T BY <1>4
  <2>. QED BY <2>1
<1>6. IsFiniteSet(T) /\ T \subseteq Nat
  <2>1. \A j \in Open(r, f) : runs[j] \in Nat BY <1>1, LineIsFew DEF Run
  <2>2. IsFiniteSet(Open(r, f))
    <3>1. IsFiniteSet(Inside(r, f)) BY <1>1, LoadsAre
    <3>. QED BY <3>1, FS_Subset DEF Open
  <2>3. T = {0} \cup {runs[j] : j \in Open(r, f)} OBVIOUS
  <2>. HIDE DEF runs
  <2>4. IsFiniteSet({runs[j] : j \in Open(r, f)}) BY <2>2, FiniteImage
  <2>5. IsFiniteSet({0}) BY FS_Singleton
  <2>6. T \subseteq Nat BY <2>1, <2>3
  <2>. HIDE DEF T
  <2>7. IsFiniteSet(T) BY <2>3, <2>4, <2>5, FS_Union
  <2>. QED BY <2>6, <2>7
<1>7. S # {} OBVIOUS
<1>. HIDE DEF S, T
<1>8. Max(S) <= Max(T) BY <1>5, <1>6, <1>7, GreatestGrows
<1>. QED BY <1>2, <1>8

\* What a statement has itself is finite.
LEMMA StatementCounts ==
  ASSUME NEW s, IsStatement(s)
  PROVE  /\ CallsIn(s) \in Nat
         /\ Total(OperatorCounts(s)) \in Nat /\ OperandCount(s) \in Nat
         /\ Cardinality({k \in DOMAIN s.numbers : s.numbers[k] \notin Benign}) \in Nat
         /\ Len(s.params) \in Nat /\ Len(s.decorators) \in Nat
<1>. DEFINE links == [k \in DOMAIN s.uses |-> Len(s.uses[k].chain) - 1]
            parts == [k \in DOMAIN s.uses |-> Len(s.uses[k].chain)]
            counts == OperatorCounts(s)
            magic == {k \in DOMAIN s.numbers : s.numbers[k] \notin Benign}
            calls == {k \in DOMAIN s.uses : s.uses[k].role = "call"}
<1>1. /\ IsFiniteSet(DOMAIN s.uses) /\ IsFiniteSet(DOMAIN s.numbers)
      /\ Len(s.params) \in Nat /\ Len(s.decorators) \in Nat /\ Len(s.numbers) \in Nat
      /\ s.ands \in Nat /\ s.ternaries \in Nat
  BY SequenceIsFew DEF IsStatement
<1>2. \A k \in DOMAIN s.uses : links[k] \in Nat /\ parts[k] \in Nat
  <2>1. \A k \in DOMAIN s.uses : s.uses[k] \in ToSet(s.uses) BY DEF ToSet
  <2>2. \A k \in DOMAIN s.uses : s.uses[k].chain \in Seq(ToSet(s.uses[k].chain)) \ {<<>>}
    BY <2>1 DEF IsStatement
  <2>3. \A k \in DOMAIN s.uses : Len(s.uses[k].chain) \in Nat /\ Len(s.uses[k].chain) # 0
    BY <2>2, EmptySeq
  <2>. QED BY <2>3
<1>3. Total(links) \in Nat /\ Total(parts) \in Nat
  <2>1. DOMAIN links = DOMAIN s.uses /\ DOMAIN parts = DOMAIN s.uses OBVIOUS
  <2>. HIDE DEF links, parts
  <2>2. Total(links) \in Nat BY <1>1, <1>2, <2>1, TotalIsNatural
  <2>3. Total(parts) \in Nat BY <1>1, <1>2, <2>1, TotalIsNatural
  <2>. QED BY <2>2, <2>3
<1>4. CallsIn(s) \in Nat /\ Cardinality(magic) \in Nat
  <2>1. calls \in SUBSET DOMAIN s.uses /\ magic \in SUBSET DOMAIN s.numbers OBVIOUS
  <2>2. CallsIn(s) = Cardinality(calls) BY DEF CallsIn
  <2>. HIDE DEF calls, magic
  <2>. QED BY <1>1, <2>1, <2>2, CountIsNatural
<1>5. Total(counts) \in Nat
  <2>. DEFINE and == IF s.ands = 0 THEN 0 ELSE Max({s.ands - 1, 1})
  <2>1. DOMAIN counts = {"keyword", "pass", "and", "ternary", "call", "dot"} BY DEF OperatorCounts
  <2>2. and \in Nat
    <3>. DEFINE more == Max({s.ands - 1, 1})
    <3>1. s.ands - 1 \in Int /\ 1 \in Int BY <1>1
    <3>2. more \in {s.ands - 1, 1} /\ more >= 1 BY <3>1, OfTwo
    <3>3. more \in Nat
      <4>. HIDE DEF more
      <4>. QED BY <3>1, <3>2
    <3>. HIDE DEF more
    <3>. QED BY <3>3 DEF more
  <2>3. /\ counts["keyword"] \in {0, 1} /\ counts["pass"] \in {0, 1} /\ counts["and"] = and
        /\ counts["ternary"] = s.ternaries /\ counts["call"] = CallsIn(s)
        /\ counts["dot"] = Total(links)
    BY DEF OperatorCounts
  <2>4. IsFiniteSet(DOMAIN counts)
    <3>1. IsFiniteSet({"keyword"} \cup {"pass"} \cup {"and"}) BY FS_Singleton, FS_Union
    <3>2. IsFiniteSet({"ternary"} \cup {"call"} \cup {"dot"}) BY FS_Singleton, FS_Union
    <3>3. IsFiniteSet(({"keyword"} \cup {"pass"} \cup {"and"})
                        \cup ({"ternary"} \cup {"call"} \cup {"dot"}))
      BY <3>1, <3>2, FS_Union
    <3>4. DOMAIN counts = ({"keyword"} \cup {"pass"} \cup {"and"})
                            \cup ({"ternary"} \cup {"call"} \cup {"dot"})
      BY <2>1
    <3>. QED BY <3>3, <3>4
  <2>. HIDE DEF counts, and, links
  <2>5. \A p \in DOMAIN counts : counts[p] \in Nat BY <1>1, <1>3, <1>4, <2>1, <2>2, <2>3
  <2>. QED BY <2>4, <2>5, TotalIsNatural
<1>6. OperandCount(s) \in Nat
  <2>. DEFINE own == IF s.kind \in Definitions THEN 1 ELSE 0
              a == Len(s.params)
              b == Len(s.decorators)
              c == Total(parts)
              d == Len(s.numbers)
  <2>1. OperandCount(s) = own + a + b + c + d BY DEF OperandCount
  <2>2. own \in Nat /\ a \in Nat /\ b \in Nat /\ c \in Nat /\ d \in Nat BY <1>1, <1>3
  <2>. HIDE DEF own, a, b, c, d
  <2>. QED BY <2>1, <2>2
<1>. QED BY <1>1, <1>4, <1>5, <1>6

LEMMA VocabularyIsFew ==
  ASSUME NEW s, IsStatement(s)
  PROVE  IsFiniteSet(OperatorsOf(s)) /\ IsFiniteSet(OperandsOf(s)) /\ IsFiniteSet(ToSet(s.numbers))
<1>. DEFINE counts == OperatorCounts(s)
            names == {"keyword", "pass", "and", "ternary", "call", "dot"}
            chain == [u \in ToSet(s.uses) |-> ToSet(u.chain)]
            own == IF s.kind \in Definitions THEN {s.name} ELSE {}
            chains == UNION {chain[u] : u \in ToSet(s.uses)}
<1>1. IsFiniteSet(ToSet(s.numbers)) /\ IsFiniteSet(ToSet(s.params))
      /\ IsFiniteSet(ToSet(s.decorators)) /\ IsFiniteSet(ToSet(s.uses))
  BY SequenceIsFew DEF IsStatement
<1>2. IsFiniteSet(OperatorsOf(s))
  <2>1. DOMAIN counts = names BY DEF OperatorCounts
  <2>2. OperatorsOf(s) \subseteq {s.kind} \cup names BY <2>1 DEF OperatorsOf
  <2>3. IsFiniteSet({s.kind} \cup names)
    <3>1. IsFiniteSet({"keyword"} \cup {"pass"} \cup {"and"}) BY FS_Singleton, FS_Union
    <3>2. IsFiniteSet({"ternary"} \cup {"call"} \cup {"dot"}) BY FS_Singleton, FS_Union
    <3>3. IsFiniteSet(({"keyword"} \cup {"pass"} \cup {"and"})
                        \cup ({"ternary"} \cup {"call"} \cup {"dot"}))
      BY <3>1, <3>2, FS_Union
    <3>4. names = ({"keyword"} \cup {"pass"} \cup {"and"})
                    \cup ({"ternary"} \cup {"call"} \cup {"dot"})
      OBVIOUS
    <3>5. IsFiniteSet({s.kind}) BY FS_Singleton
    <3>6. IsFiniteSet(names) BY <3>3, <3>4
    <3>. HIDE DEF names
    <3>. QED BY <3>5, <3>6, FS_Union
  <2>. QED BY <2>2, <2>3, FS_Subset
<1>3. IsFiniteSet(chains)
  <2>1. \A u \in ToSet(s.uses) : u.chain \in Seq(ToSet(u.chain)) BY DEF IsStatement
  <2>2. \A u \in ToSet(s.uses) : IsFiniteSet(chain[u]) BY <2>1, SequenceIsFew
  <2>. HIDE DEF chain
  <2>. QED BY <1>1, <2>2, UnionIsFinite
<1>4. OperandsOf(s) = ((own \cup ToSet(s.params)) \cup ToSet(s.decorators)) \cup chains
  <2>1. {ToSet(u.chain) : u \in ToSet(s.uses)} = {chain[u] : u \in ToSet(s.uses)} OBVIOUS
  <2>. HIDE DEF chain
  <2>. QED BY <2>1 DEF OperandsOf
<1>5. IsFiniteSet(own) BY FS_Singleton, FS_EmptySet
<1>. HIDE DEF own, chains
<1>6. IsFiniteSet(own \cup ToSet(s.params)) BY <1>1, <1>5, FS_Union
<1>7. IsFiniteSet((own \cup ToSet(s.params)) \cup ToSet(s.decorators)) BY <1>1, <1>6, FS_Union
<1>8. IsFiniteSet(OperandsOf(s)) BY <1>3, <1>4, <1>7, FS_Union
<1>. QED BY <1>1, <1>2, <1>8

Distinct(g, S) == Cardinality(UNION {g[j] : j \in S})

LEMMA UnionGrows ==
  ASSUME NEW t, NEW r, Extends(r, t), NEW f, NEW g, \A j \in Walk(r, f) : IsFiniteSet(g[j])
  PROVE  /\ Distinct(g, Walk(t, f)) \in Nat /\ Distinct(g, Walk(r, f)) \in Nat
         /\ Distinct(g, Walk(t, f)) <= Distinct(g, Walk(r, f))
<1>. DEFINE S == UNION {g[j] : j \in Walk(t, f)}
            T == UNION {g[j] : j \in Walk(r, f)}
<1>1. IsFiniteSet(T) BY WalkGrows, UnionIsFinite
<1>2. S \in SUBSET T BY WalkGrows
<1>3. Distinct(g, Walk(t, f)) = Cardinality(S) /\ Distinct(g, Walk(r, f)) = Cardinality(T)
  BY DEF Distinct
<1>. HIDE DEF S, T
<1>. QED BY <1>1, <1>2, <1>3, CountGrows

LEMMA HalsteadGrows ==
  ASSUME NEW t, NEW r, Extends(r, t), NEW f
  PROVE  /\ HalsteadLength(t, f) <= HalsteadLength(r, f)
         /\ HalsteadVocabulary(t, f) <= HalsteadVocabulary(r, f)
<1>. DEFINE E == Walk(r, f)
            D == Walk(t, f)
            v == [j \in E |-> Total(OperatorCounts(r[j])) + OperandCount(r[j])]
            ops == [j \in E |-> OperatorsOf(r[j])]
            names == [j \in E |-> OperandsOf(r[j])]
            numbers == [j \in E |-> ToSet(r[j].numbers)]
            a(S) == Distinct(ops, S)
            b(S) == Distinct(names, S)
            c(S) == Distinct(numbers, S)
<1>1. /\ D \in SUBSET E /\ \A j \in D : r[j] = t[j]
      /\ \A j \in E : IsStatement(r[j])
  BY WalkGrows
<1>2. HalsteadLength(t, f) <= HalsteadLength(r, f)
  <2>1. v \in [E -> Nat]
    <3>1. \A j \in E : /\ Total(OperatorCounts(r[j])) \in Nat /\ OperandCount(r[j]) \in Nat
      BY <1>1, StatementCounts
    <3>2. \A j \in E : Total(OperatorCounts(r[j])) + OperandCount(r[j]) \in Nat BY <3>1
    <3>. HIDE DEF E
    <3>. QED BY <3>2
  <2>2. HalsteadLength(r, f) = Total(v) BY DEF HalsteadLength
  <2>3. HalsteadLength(t, f) = Total([j \in D |-> v[j]])
    <3>1. \A j \in D : v[j] = Total(OperatorCounts(t[j])) + OperandCount(t[j]) BY <1>1
    <3>. HIDE DEF v
    <3>2. [j \in Walk(t, f) |-> Total(OperatorCounts(t[j])) + OperandCount(t[j])]
            = [j \in D |-> v[j]]
      BY <3>1
    <3>. QED BY <3>2 DEF HalsteadLength
  <2>. HIDE DEF v
  <2>. QED BY <2>1, <2>2, <2>3, WalkAdds
<1>3. /\ \A j \in E : IsFiniteSet(ops[j])
      /\ \A j \in E : IsFiniteSet(names[j])
      /\ \A j \in E : IsFiniteSet(numbers[j])
  BY <1>1, VocabularyIsFew
<1>4. a(D) \in Nat /\ a(E) \in Nat /\ a(D) <= a(E)
  <2>1. \A j \in Walk(r, f) : IsFiniteSet(ops[j]) BY <1>3
  <2>. HIDE DEF ops, names, numbers
  <2>. QED BY <2>1, UnionGrows
<1>5. b(D) \in Nat /\ b(E) \in Nat /\ b(D) <= b(E)
  <2>1. \A j \in Walk(r, f) : IsFiniteSet(names[j]) BY <1>3
  <2>. HIDE DEF ops, names, numbers
  <2>. QED BY <2>1, UnionGrows
<1>6. c(D) \in Nat /\ c(E) \in Nat /\ c(D) <= c(E)
  <2>1. \A j \in Walk(r, f) : IsFiniteSet(numbers[j]) BY <1>3
  <2>. HIDE DEF ops, names, numbers
  <2>. QED BY <2>1, UnionGrows
<1>7. HalsteadVocabulary(r, f) = a(E) + b(E) + c(E)
  <2>1. /\ {OperatorsOf(r[j]) : j \in E} = {ops[j] : j \in E}
        /\ {OperandsOf(r[j]) : j \in E} = {names[j] : j \in E}
        /\ {ToSet(r[j].numbers) : j \in E} = {numbers[j] : j \in E}
    OBVIOUS
  <2>. HIDE DEF ops, names, numbers
  <2>. QED BY <2>1 DEF HalsteadVocabulary, Distinct
<1>8. HalsteadVocabulary(t, f) = a(D) + b(D) + c(D)
  <2>1. /\ \A j \in D : OperatorsOf(t[j]) = ops[j]
        /\ \A j \in D : OperandsOf(t[j]) = names[j]
        /\ \A j \in D : ToSet(t[j].numbers) = numbers[j]
    BY <1>1
  <2>. HIDE DEF ops, names, numbers
  <2>2. {OperatorsOf(t[j]) : j \in D} = {ops[j] : j \in D} BY <2>1
  <2>3. {OperandsOf(t[j]) : j \in D} = {names[j] : j \in D} BY <2>1
  <2>4. {ToSet(t[j].numbers) : j \in D} = {numbers[j] : j \in D} BY <2>1
  <2>. QED BY <2>2, <2>3, <2>4 DEF HalsteadVocabulary, Distinct
<1>9. HalsteadVocabulary(t, f) <= HalsteadVocabulary(r, f)
  <2>. HIDE DEF a, b, c, D, E
  <2>. QED BY <1>4, <1>5, <1>6, <1>7, <1>8
<1>. QED BY <1>2, <1>9

LEMMA CallsGrow ==
  ASSUME NEW t, NEW r, Extends(r, t), NEW f
  PROVE  /\ CallCount(t, f) <= CallCount(r, f)
         /\ MagicNumbers(t, f) <= MagicNumbers(r, f)
         /\ ReturnCount(t, f) <= ReturnCount(r, f)
<1>. DEFINE Magic(s) == Cardinality({k \in DOMAIN s.numbers : s.numbers[k] \notin Benign})
            E == Walk(r, f)
            D == Walk(t, f)
            calls == [j \in E |-> CallsIn(r[j])]
            magic == [j \in E |-> Magic(r[j])]
<1>1. /\ D \in SUBSET E /\ IsFiniteSet(E) /\ \A j \in D : r[j] = t[j]
      /\ \A j \in E : IsStatement(r[j])
  BY WalkGrows
<1>2. calls \in [E -> Nat] /\ magic \in [E -> Nat]
  <2>1. \A j \in E : CallsIn(r[j]) \in Nat /\ Magic(r[j]) \in Nat BY <1>1, StatementCounts
  <2>. HIDE DEF Magic
  <2>. QED BY <2>1
<1>3. CallCount(t, f) <= CallCount(r, f)
  <2>1. CallCount(r, f) = Total(calls) BY DEF CallCount
  <2>2. [j \in D |-> CallsIn(t[j])] = [j \in D |-> calls[j]] BY <1>1
  <2>. HIDE DEF calls
  <2>. QED BY <1>2, <2>1, <2>2, WalkAdds DEF CallCount
<1>4. MagicNumbers(t, f) <= MagicNumbers(r, f)
  <2>1. MagicNumbers(r, f) = Total(magic) BY DEF MagicNumbers
  <2>2. [j \in D |-> Magic(t[j])] = [j \in D |-> magic[j]] BY <1>1
  <2>3. MagicNumbers(t, f) = Total([j \in D |-> Magic(t[j])]) BY DEF MagicNumbers
  <2>. HIDE DEF magic, Magic
  <2>. QED BY <1>2, <2>1, <2>2, <2>3, WalkAdds
<1>5. ReturnCount(t, f) <= ReturnCount(r, f)
  <2>. DEFINE S == {j \in D : t[j].kind = "return"}
              T == {j \in E : r[j].kind = "return"}
  <2>1. S \in SUBSET T BY <1>1
  <2>2. IsFiniteSet(T) BY <1>1, FS_Subset
  <2>3. ReturnCount(t, f) = Cardinality(S) /\ ReturnCount(r, f) = Cardinality(T) BY DEF ReturnCount
  <2>. HIDE DEF S, T
  <2>. QED BY <2>1, <2>2, <2>3, CountGrows
<1>. QED BY <1>3, <1>4, <1>5

\* The chains of a function, and the names in them.
LEMMA ChainsGrow ==
  ASSUME NEW t, NEW r, Extends(r, t), NEW f \in DOMAIN t
  PROVE  /\ Cardinality(LocalVariables(t, f)) <= Cardinality(LocalVariables(r, f))
         /\ Cardinality(CalledNames(t, f)) <= Cardinality(CalledNames(r, f))
         /\ Cardinality(SelfAttributes(t, f)) <= Cardinality(SelfAttributes(r, f))
         /\ MaxMessageChain(t, f) <= MaxMessageChain(r, f)
<1>. DEFINE uses == Uses(r, f)
            stores == {v \in uses : v.role = "store" /\ Len(v.chain) = 1}
            own == {v \in uses : OnReceiver(v)}
            first == [u \in stores |-> u.chain[1]]
            second == [u \in own |-> u.chain[2]]
            links == [u \in uses |-> Len(u.chain) - 1]
<1>1. /\ Uses(t, f) \subseteq uses /\ IsFiniteSet(uses) /\ r[f] = t[f]
      /\ \A u \in uses : u.chain \in Seq(ToSet(u.chain)) \ {<<>>}
  BY NamesGrow DEF Extends
<1>2. IsFiniteSet(stores) /\ IsFiniteSet(own)
  <2>1. stores \in SUBSET uses /\ own \in SUBSET uses OBVIOUS
  <2>. HIDE DEF stores, own, uses
  <2>. QED BY <1>1, <2>1, FS_Subset
<1>3. Cardinality(LocalVariables(t, f)) <= Cardinality(LocalVariables(r, f))
  <2>1. LocalVariables(r, f) = {u.chain[1] : u \in stores} \ ToSet(r[f].params)
    BY DEF LocalVariables
  <2>2. {u.chain[1] : u \in stores} = {first[u] : u \in stores}
    <3>. HIDE DEF stores
    <3>. QED OBVIOUS
  <2>3. IsFiniteSet({first[u] : u \in stores})
    <3>. HIDE DEF first, stores
    <3>. QED BY <1>2, FiniteImage
  <2>4. IsFiniteSet(LocalVariables(r, f))
    <3>1. LocalVariables(r, f) \in SUBSET {first[u] : u \in stores} BY <2>1, <2>2
    <3>. HIDE DEF first, stores
    <3>. QED BY <2>3, <3>1, FS_Subset
  <2>5. LocalVariables(t, f) \in SUBSET LocalVariables(r, f)
    <3>1. {u \in Uses(t, f) : u.role = "store" /\ Len(u.chain) = 1} \subseteq stores BY <1>1
    <3>2. LocalVariables(t, f)
            = {u.chain[1] : u \in {v \in Uses(t, f) : v.role = "store" /\ Len(v.chain) = 1}}
                \ ToSet(r[f].params)
      BY <1>1 DEF LocalVariables
    <3>. HIDE DEF stores
    <3>. QED BY <2>1, <3>1, <3>2
  <2>. QED BY <2>4, <2>5, CountGrows
<1>4. Cardinality(CalledNames(t, f)) <= Cardinality(CalledNames(r, f))
  <2>1. CalledNames(t, f) \in SUBSET CalledNames(r, f) /\ IsFiniteSet(CalledNames(r, f))
    BY NamesGrow
  <2>. QED BY <2>1, CountGrows
<1>5. Cardinality(SelfAttributes(t, f)) <= Cardinality(SelfAttributes(r, f))
  <2>1. SelfAttributes(r, f) = {second[u] : u \in own}
    <3>1. SelfAttributes(r, f) = {u.chain[2] : u \in own} BY DEF SelfAttributes
    <3>. HIDE DEF own
    <3>. QED BY <3>1
  <2>2. IsFiniteSet(SelfAttributes(r, f))
    <3>. HIDE DEF second, own
    <3>. QED BY <1>2, <2>1, FiniteImage
  <2>3. SelfAttributes(t, f) \in SUBSET SelfAttributes(r, f)
    <3>1. {v \in Uses(t, f) : OnReceiver(v)} \subseteq own BY <1>1
    <3>2. SelfAttributes(r, f) = {u.chain[2] : u \in own} BY DEF SelfAttributes
    <3>. HIDE DEF own
    <3>. QED BY <3>1, <3>2 DEF SelfAttributes
  <2>. QED BY <2>2, <2>3, CountGrows
<1>6. MaxMessageChain(t, f) <= MaxMessageChain(r, f)
  <2>. DEFINE S == {0} \cup {Len(u.chain) - 1 : u \in Uses(t, f)}
              T == {0} \cup {Len(u.chain) - 1 : u \in uses}
  <2>1. S \in SUBSET T /\ S # {}
    <3>. HIDE DEF uses
    <3>. QED BY <1>1
  <2>2. \A u \in uses : links[u] \in Nat
    <3>1. \A u \in uses : Len(u.chain) \in Nat /\ Len(u.chain) # 0
      <4>. HIDE DEF uses
      <4>. QED BY <1>1, EmptySeq
    <3>. QED BY <3>1
  <2>3. T = {0} \cup {links[u] : u \in uses}
    <3>. HIDE DEF uses
    <3>. QED OBVIOUS
  <2>4. T \subseteq Nat
    <3>. HIDE DEF links, uses, T
    <3>. QED BY <2>2, <2>3
  <2>5. IsFiniteSet(T)
    <3>. HIDE DEF links, uses, T
    <3>1. IsFiniteSet({links[u] : u \in uses}) BY <1>1, FiniteImage
    <3>2. IsFiniteSet({0}) BY FS_Singleton
    <3>. QED BY <2>3, <3>1, <3>2, FS_Union
  <2>6. MaxMessageChain(t, f) = Max(S) /\ MaxMessageChain(r, f) = Max(T) BY DEF MaxMessageChain
  <2>. HIDE DEF S, T
  <2>. QED BY <2>1, <2>4, <2>5, <2>6, GreatestGrows
<1>. QED BY <1>3, <1>4, <1>5, <1>6

LEMMA MetricsGrow ==
  ASSUME NEW t, NEW r, Extends(r, t), NEW f \in DOMAIN t, t[f].kind = "def"
  PROVE  \A m \in DOMAIN FunctionMetrics(t, f) : FunctionMetrics(t, f)[m] <= FunctionMetrics(r, f)[m]
<1>1. r[f] = t[f] /\ IsStatement(t[f]) BY DEF Extends, IsText
<1>2. /\ Len(t[f].params) <= Len(r[f].params)
      /\ Len(t[f].decorators) <= Len(r[f].decorators)
      /\ ParametersWithoutSelf(t[f]) <= ParametersWithoutSelf(r[f])
  <2>. DEFINE a == Len(t[f].params)
              b == Len(t[f].decorators)
              c == IF t[f].params # <<>> /\ t[f].params[1] \in Receivers THEN 1 ELSE 0
              d == ParametersWithoutSelf(t[f])
  <2>1. a \in Nat /\ b \in Nat /\ c \in Nat BY <1>1, StatementCounts
  <2>2. d = a - c BY DEF ParametersWithoutSelf
  <2>. HIDE DEF a, b, c, d
  <2>3. a <= a /\ b <= b /\ d <= d BY <2>1, <2>2
  <2>. QED BY <1>1, <2>3 DEF a, b, d
<1>. QED
  BY <1>2, CyclomaticGrows, CognitiveGrows, NestingGrows, HalsteadGrows, CallsGrow, ChainsGrow
  DEF FunctionMetrics

LEMMA OnlyWriteWrites == [Next]_vars => text' = text \/ Write
<1>. SUFFICES ASSUME [Next]_vars PROVE text' = text \/ Write OBVIOUS
<1>1. CASE UNCHANGED vars BY <1>1 DEF vars
<1>2. CASE \E s \in Source : Edit(s) BY <1>2 DEF Edit
<1>3. CASE Detect BY <1>3 DEF Detect
<1>4. CASE \E sources \in SourceSets : Create(sources) \/ Prepare(sources)
  BY <1>4 DEF Create, Prepare
<1>5. CASE \E label \in {"present", "absent", "uncertain"} : Review(label) BY <1>5 DEF Review
<1>6. CASE Finalize BY <1>6 DEF Finalize
<1>7. CASE \E kinds \in Kinds, share \in Shares : BeginTraining(kinds, share)
  BY <1>7 DEF BeginTraining
<1>8. CASE TakeSmell \/ DumpModel \/ WriteCard \/ EndTraining \/ Interrupt
  BY <1>8 DEF TakeSmell, DumpModel, WriteCard, EndTraining, Interrupt
<1>9. CASE \E kinds \in Kinds : Logo(kinds) BY <1>9 DEF Logo
<1>. QED BY <1>1, <1>2, <1>3, <1>4, <1>5, <1>6, <1>7, <1>8, <1>9 DEF Next

\* However the statements of a file are nested, a statement more takes nothing from any
\* of the fifteen counts of the functions it is in: an "elif" that becomes part of an
\* "else" costs more, and what it is in is not flatter for it.
THEOREM MoreIsNotSimpler == Spec => MoreCodeIsNotSimpler
<1>. DEFINE grows == Len(text') > Len(text) =>
                       \A f \in Functions \cap Above(text')[Len(text')] :
                         \A m \in DOMAIN FunctionMetrics(text, f) :
                           FunctionMetrics(text, f)[m] <= FunctionMetrics(text', f)[m]
<1>1. TypeInv /\ TextInv /\ TypeInv' /\ TextInv' /\ [Next]_vars => grows
  <2>. SUFFICES ASSUME TypeInv, TextInv, TypeInv', TextInv', [Next]_vars, Len(text') > Len(text)
                PROVE  \A f \in Functions : \A m \in DOMAIN FunctionMetrics(text, f) :
                         FunctionMetrics(text, f)[m] <= FunctionMetrics(text', f)[m]
    OBVIOUS
  <2>. DEFINE r == text'
  <2>1. IsText(text) /\ IsTree(text) /\ IsText(r) /\ IsTree(r)
    BY DEF TypeInv, TextInv, IsText, IsTree, Kind
  <2>2. Len(text) \in Nat BY <2>1, TreeHasPlaces
  <2>3. Write
    <3>1. r # text
      <4>. HIDE DEF r
      <4>1. Len(r) > Len(text) BY DEF r
      <4>. QED BY <2>2, <4>1
    <3>. QED BY <3>1, OnlyWriteWrites
  <2>4. PICK s \in Lines : \E p \in Places(text, s.kind) :
          r = Append(text, [s EXCEPT !.up = p[1], !.slot = p[2]])
    BY <2>3 DEF Write
  <2>5. PICK p \in Places(text, s.kind) : r = Append(text, [s EXCEPT !.up = p[1], !.slot = p[2]])
    BY <2>4
  <2>. DEFINE up == p[1]
              slot == p[2]
  <2>6. r = Append(text, Placed(s, up, slot)) /\ IsStatement(s)
    BY <2>5, StudyAssumption DEF Placed
  <2>. HIDE DEF r, up, slot
  <2>7. /\ DOMAIN text = 1..Len(text) /\ DOMAIN r = 1..(Len(text) + 1)
        /\ \A i \in DOMAIN text : r[i] = text[i]
    BY <2>1, <2>6, TextAppends
  <2>8. Extends(r, text) BY <2>1, <2>2, <2>7 DEF Extends
  <2>9. \A f \in Functions : \A m \in DOMAIN FunctionMetrics(text, f) :
          FunctionMetrics(text, f)[m] <= FunctionMetrics(r, f)[m]
    BY <2>8, MetricsGrow DEF Functions
  <2>. QED BY <2>9 DEF r
<1>2. grows => (Len(text') > Len(text) =>
         \A f \in Functions \cap Above(text')[Len(text')] :
           LET before == FunctionMetrics(text, f)
               after  == FunctionMetrics(text', f)
           IN \A m \in DOMAIN before : before[m] <= after[m])
  OBVIOUS
<1>. QED BY <1>1, <1>2, TextHolds, PTL DEF MoreCodeIsNotSimpler, Spec

=============================================================================
