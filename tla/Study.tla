------------------------------- MODULE Study -------------------------------
(***************************************************************************)
(* A study with the command line, of src/codesmell/cli.py: projects are    *)
(* searched for smells, a sheet of review tasks is created, a person       *)
(* labels it, the labels are joined to features computed anew from source, *)
(* and classifiers are trained and evaluated.  Meanwhile the projects may  *)
(* change, and commands be repeated.  A command that refuses changes       *)
(* nothing and is no step.                                                 *)
(*                                                                         *)
(* Content gives the code base of each version of a project.  The version  *)
(* stands for its fingerprint, what a file says of its classes for the     *)
(* hash of the file: no two contents have one hash.                        *)
(***************************************************************************)
EXTENDS RuleDetection, Training, SourceText

CONSTANTS
  Source,      \* the paths given to the commands
  Content,     \* the versions of the projects
  Checkout,    \* the version that each path holds when the study begins
  SourceSets,  \* which of them a command is given
  Searched,    \* the code bases that "detect" is run on (bound)
  Lines,       \* the statements that a file is written of
  MaxText,     \* how many (bound)
  ControlRatio, MinControls,
  Kinds,       \* the lists of models that training is asked for
  Shares,      \* the shares of the projects that testing may get
  MaxChanges   \* edits and repeated commands (bound)

ASSUME StudyAssumption ==
  /\ MaxAttempts \in Nat /\ MinProjects \in Nat /\ MinProjects >= 2
  /\ Shares \subseteq Nat \X (Nat \ {0})
  /\ \A kinds \in Kinds : kinds \in Seq(ToSet(kinds)) \ {<<>>}
  /\ \A sources \in SourceSets : sources \subseteq Source /\ IsFiniteSet(sources)
  /\ Checkout \in [Source -> DOMAIN Content]
  /\ \A v \in DOMAIN Content : IsCodeBase(Content[v])
  /\ \A code \in Searched : IsCodeBase(code)
  /\ \A s \in Lines : IsStatement(s)
  /\ MaxDepth \in Nat /\ MinEntities \in Nat /\ MaxChanges \in Nat
  /\ None \notin Nat

VARIABLES
  text,     \* a file that is being written
  tree,     \* the version that each source holds
  found,    \* the report of "detect", while it is on the screen
  sheet,    \* review_tasks.csv: the label of each row
  labels,   \* labels.csv
  dataset,  \* training_features.csv
  job,      \* the training that is running
  models,   \* the output directory: model.joblib and model_card.json of each model
  trained,  \* holdout_report.json
  logo,     \* logo_report.json
  changes

files == <<sheet, labels, dataset, models, trained, logo>>
vars == <<text, tree, found, files, job, changes>>

Smells == {rule.smell : rule \in Rules}

Init ==
  /\ text = <<>>
  /\ tree = Checkout
  /\ found = None
  /\ sheet = None /\ labels = None /\ dataset = None
  /\ job = None /\ models = <<>> /\ trained = None /\ logo = None
  /\ changes = 0

Change == changes < MaxChanges /\ changes' = changes + 1

(* An output that exists is only replaced with --overwrite. *)
Writes(there) == IF there THEN Change ELSE UNCHANGED changes

(* Sources, labels and dataset change only before the evaluation (bound):  *)
(* the models, once begun, hold the rows they come from.                   *)
Preparing == text = <<>> /\ job = None /\ models = <<>> /\ trained = None /\ logo = None

Edit(s) ==
  /\ Preparing
  /\ \E v \in (DOMAIN Content) \ {tree[s]} : tree' = [tree EXCEPT ![s] = v]
  /\ Change
  /\ found' = None
  /\ UNCHANGED <<text, files, job>>

(* The feature vectors of each version. *)
Features == [v \in DOMAIN Content |-> Analyse(Content[v])]

(* A file is written, statement by statement, the first of which defines   *)
(* something, and no class twice; before anything else (bounds).           *)
Write ==
  /\ found = None /\ sheet = None /\ changes = 0
  /\ Len(text) < MaxText
  /\ \E s \in Lines : \E p \in Places(text, s.kind) :
       /\ text = <<>> => s.kind \in Definitions
       /\ s.kind = "class" => \A i \in DOMAIN text : text[i].kind # "class" \/ text[i].name # s.name
       /\ text' = Append(text, [s EXCEPT !.up = p[1], !.slot = p[2]])
  /\ UNCHANGED <<tree, found, files, job, changes>>

(* codesmell detect, on that file, if it declares a class, or on another   *)
(* project (once, before anything else, and in one mode on the file, which *)
(* has too few classes for the other: bounds)                              *)
Detect ==
  /\ found = None /\ sheet = None /\ changes = 0
  /\ text # <<>> => \E i \in DOMAIN text : text[i].kind = "class"
  /\ \E code \in IF text = <<>> THEN Searched ELSE {Parsed(text)},
        mode \in IF text = <<>> THEN Modes ELSE {"absolute"} :
       LET features == Analyse(code)
       IN found' = [code |-> code, mode |-> mode, features |-> features,
                    findings |-> Findings(code, features, mode)]
  /\ UNCHANGED <<text, tree, files, job, changes>>

-----------------------------------------------------------------------------
(* Labels *)

FileHash(code, c) ==
  LET m == code.class[c].module
      declared == SelectSeq(code.order, LAMBDA d : code.class[d].module = m)
  IN <<code.imports[m], [i \in DOMAIN declared |-> code.class[declared[i]]]>>

(* The seed of the controls is the fingerprint: some sample, always the same. *)
Controls(negative, n) ==
  LET wanted == Max({MinControls, (n * ControlRatio[1] + ControlRatio[2] - 1) \div ControlRatio[2]})
  IN CHOOSE s \in kSubset(Min({wanted, Cardinality(negative)}), negative) : TRUE

(* The classes that rules report, and as many others for each smell. *)
Tasks(version) ==
  LET code     == Content[version]
      features == Features[version]
      findings == Findings(code, features, "absolute")
      Reported(smell) == {f.class : f \in {g \in findings : g.smell = smell}}
      Chosen(smell) == Reported(smell) \cup
        Controls((DOMAIN features) \ Reported(smell), Cardinality(Reported(smell)))
  IN {[project |-> version, class |-> t[1], smell |-> t[2]] :
        t \in {u \in (DOMAIN features) \X Smells : u[1] \in Chosen(u[2])}}

(* The rows that are written, of one project after the other. *)
Sheet(sources) == [row \in UNION {{s} \X Tasks(tree[s]) : s \in sources} |-> "blank"]

(* codesmell dataset create (not again once there are labels: bound) *)
Create(sources) ==
  /\ Preparing /\ labels = None
  /\ Writes(sheet # None)
  /\ sheet' = Sheet(sources)
  /\ found' = None
  /\ UNCHANGED <<text, tree, labels, dataset, models, trained, logo, job>>

Blank == {row \in DOMAIN sheet : sheet[row] = "blank"}

(* A person fills in the rows, in one order and once (bounds). *)
Review(label) ==
  /\ Preparing
  /\ sheet # None /\ Blank # {}
  /\ sheet' = [sheet EXCEPT ![CHOOSE row \in Blank : TRUE] = label]
  /\ UNCHANGED <<text, tree, found, labels, dataset, models, trained, logo, job, changes>>

(* No task twice, and no label missing. *)
Valid(rows) == \A r, q \in DOMAIN rows : rows[r] # "blank" /\ (r[2] = q[2] => r = q)

(* codesmell dataset finalize (once: bound) *)
Finalize ==
  /\ Preparing
  /\ labels = None
  /\ sheet # None /\ Valid(sheet)
  /\ labels' = {[task |-> row[2], label |-> IF sheet[row] = "present" THEN 1 ELSE 0] :
                  row \in {r \in DOMAIN sheet : sheet[r] # "uncertain"}}
  /\ UNCHANGED <<text, tree, found, sheet, dataset, models, trained, logo, job, changes>>

\* Mutant of Origin: any source with the file that was reviewed.
OriginByFile(task, sources) ==
  LET same == {s \in sources :
                 /\ task.class \in Classes(Content[tree[s]])
                 /\ FileHash(Content[tree[s]], task.class)
                      = FileHash(Content[task.project], task.class)}
  IN IF same = {} THEN None ELSE CHOOSE s \in same : TRUE

(* The source whose fingerprint is that of the label. *)
Origin(task, sources) ==
  LET same == {s \in sources : tree[s] = task.project}
  IN IF same = {} THEN None ELSE CHOOSE s \in same : TRUE

(* The class is there, and its file is the one that was reviewed. *)
Verified(task, source) ==
  /\ source # None
  /\ task.class \in Classes(Content[tree[source]])
  /\ FileHash(Content[tree[source]], task.class) = FileHash(Content[task.project], task.class)

(* codesmell ml prepare *)
Prepare(sources) ==
  /\ Preparing
  /\ labels \notin {None, {}}
  /\ \A s, t \in sources : tree[s] = tree[t] => s = t
  /\ \A l \in labels : Verified(l.task, Origin(l.task, sources))
  /\ Writes(dataset # None)
  /\ dataset' = {[task |-> l.task, label |-> l.label,
                  features |-> Features[tree[Origin(l.task, sources)]][l.task.class]] :
                    l \in labels}
  /\ UNCHANGED <<text, tree, found, sheet, labels, models, trained, logo, job>>

-----------------------------------------------------------------------------
(* Training *)

DatasetSmells == {r.task.smell : r \in dataset}

RowsOf(smell) == {[project |-> r.task.project, class |-> r.task.class, label |-> r.label] :
                    r \in {q \in dataset : q.task.smell = smell}}

\* Mutant of Cleared: what an earlier training has left stays.
NotCleared == models

(* The output directory, once it is prepared. *)
Cleared == <<>>

(* codesmell ml train: the directory is made ready (in a study without an  *)
(* evaluation by projects, which shares only the dataset with it: bound),  *)
BeginTraining(kinds, share) ==
  /\ job = None /\ logo = None
  /\ dataset # None
  /\ Writes(DOMAIN models # {} \/ trained # None)
  /\ models' = Cleared
  /\ trained' = None
  /\ job' = [smells |-> SetToSeq(DatasetSmells), kinds |-> kinds, share |-> share,
             split |-> NoSplit, left |-> <<>>, dumped |-> FALSE, results |-> {}]
  /\ UNCHANGED <<text, tree, found, sheet, labels, dataset, logo>>

(* a smell has its projects split, or is skipped, *)
TakeSmell ==
  LET rows == RowsOf(Head(job.smells))
  IN /\ job # None /\ job.split = NoSplit /\ job.smells # <<>>
     /\ \E attempts \in Attempts(rows, job.share) :
          LET split == IF Enough(rows) /\ BothClasses(rows) THEN SplitOf(rows, attempts)
                       ELSE NoSplit
          IN job' = IF split = NoSplit THEN [job EXCEPT !.smells = Tail(@)]
                    ELSE [job EXCEPT !.split = split, !.left = job.kinds]
     /\ UNCHANGED <<text, tree, found, files, changes>>

(* the model is written, unless it is of a kind without parameters to tune, *)
DumpModel ==
  /\ job # None /\ job.split # NoSplit /\ ~job.dumped
  /\ LET key == <<Head(job.smells), Head(job.left)>>
     IN IF key[2] \in Tunable
        THEN /\ \E fits \in Fits(job.split.train, job.split.test) :
                  LET file == [split |-> job.split, fits |-> fits]
                      card == IF key \in DOMAIN models THEN models[key].card ELSE None
                  IN models' = [k \in {key} \cup DOMAIN models |->
                                IF k = key THEN [file |-> file, card |-> card] ELSE models[k]]
             /\ job' = [job EXCEPT !.dumped = TRUE]
        ELSE job' = None /\ UNCHANGED models
  /\ UNCHANGED <<text, tree, found, sheet, labels, dataset, trained, logo, changes>>

(* its card is written, with the hash of the model, *)
WriteCard ==
  /\ job # None /\ job.dumped
  /\ LET key  == <<Head(job.smells), Head(job.left)>>
         last == Len(job.left) = 1
     IN /\ models' = [models EXCEPT ![key].card = models[key].file]
        /\ job' = [job EXCEPT !.results = @ \cup {key}, !.left = Tail(@), !.dumped = FALSE,
                              !.split = IF last THEN NoSplit ELSE @,
                              !.smells = IF last THEN Tail(@) ELSE @]
  /\ UNCHANGED <<text, tree, found, sheet, labels, dataset, trained, logo, changes>>

(* and the report is, at the end. *)
EndTraining ==
  /\ job # None /\ job.split = NoSplit /\ job.smells = <<>>
  /\ trained' = job.results
  /\ job' = None
  /\ UNCHANGED <<text, tree, found, sheet, labels, dataset, models, logo, changes>>

Interrupt ==
  /\ job # None
  /\ job' = None
  /\ UNCHANGED <<text, tree, found, files, changes>>

(* codesmell ml logo: a kind without parameters to tune ends it, with the  *)
(* old report gone.                                                        *)
Logo(kinds) ==
  /\ job = None /\ models = <<>> /\ trained = None
  /\ dataset # None
  /\ Writes(logo # None)
  /\ LET folds == [s \in {t \in DatasetSmells : Enough(RowsOf(t))} |->
                     LogoFolds(RowsOf(s), ToSet(kinds))]
         fails == /\ ~(ToSet(kinds) \subseteq Tunable)
                  /\ \E s \in DOMAIN folds : \E f \in folds[s] : f.status = "evaluated"
     IN logo' = IF fails THEN None ELSE
          [kinds |-> ToSet(kinds), rows |-> [s \in DOMAIN folds |-> RowsOf(s)], folds |-> folds]
  /\ UNCHANGED <<text, tree, found, sheet, labels, dataset, models, trained, job>>

-----------------------------------------------------------------------------

Next ==
  \/ \E s \in Source : Edit(s)
  \/ Write
  \/ Detect
  \/ \E sources \in SourceSets : Create(sources) \/ Prepare(sources)
  \/ \E label \in {"present", "absent", "uncertain"} : Review(label)
  \/ Finalize
  \/ \E kinds \in Kinds, share \in Shares : BeginTraining(kinds, share)
  \/ TakeSmell \/ DumpModel \/ WriteCard \/ EndTraining \/ Interrupt
  \/ \E kinds \in Kinds : Logo(kinds)

Spec == Init /\ [][Next]_vars

-----------------------------------------------------------------------------
(***************************************************************************)
(* Properties of the metrics and of the detector.                          *)
(***************************************************************************)

AtMostOne(x) == Leq(x, Rat(1))

\* The type invariant.  Metrics are finite numbers ("NaN and infinity survive
\* into a training matrix and poison it quietly"), shares are at most one.
TypeOK ==
  /\ tree \in [Source -> DOMAIN Content]
  /\ found # None => /\ found.features \in [DOMAIN found.features -> [Metrics -> Ratio]]
                     /\ \A f \in found.findings : f.severity \in 1..4
                     /\ \A c \in DOMAIN found.features : AtMostOne(found.features[c].lcom_hs)
  /\ \A i \in DOMAIN text : text[i].kind = "def" => AtMostOne(ForeignAccessRatio(text, i))
  /\ sheet # None => \A row \in DOMAIN sheet :
       sheet[row] \in {"blank", "present", "absent", "uncertain"}
  /\ labels # None => \A l \in labels : l.label \in {0, 1}
  /\ dataset # None => \A r \in dataset : r.features \in [Metrics -> Ratio]
  /\ job # None => /\ job.results \subseteq DOMAIN models
                   /\ job.split # NoSplit <=> job.left # <<>>
  /\ changes \in 0..MaxChanges

\* Every way from a class to a base, to a base of that, and so on.
Paths(code) ==
  LET all == Classes(code)
      up  == [c \in all |-> ToSet(Bases(code, c))]
  IN {p \in UNION {[1..n -> all] : n \in 1..Cardinality(all)} :
        \A i \in 1..(Len(p) - 1) : p[i + 1] \in up[p[i]]}

\* inheritance_depth: "Longest resolvable path from entity up to a project root
\* class".  The cache that is shared by the classes, in whatever order they are
\* asked for, changes nothing, if no class inherits from itself and no path is
\* longer than the limit.  (A class named as the base it imports from outside,
\* such as Handler(logging.Handler), is its own base to the index.)
DepthIsLongestPath ==
  found # None =>
    LET paths == Paths(found.code)
        Cyclic == \E p \in paths : p[1] \in ToSet(Bases(found.code, p[Len(p)]))
        Longest(c) == Max({Len(p) - 1 : p \in {q \in paths : q[1] = c}})
    IN Cyclic \/ (\E p \in paths : Len(p) > MaxDepth + 2)
         \/ \A c \in (DOMAIN found.features) \ found.code.odd :
              found.features[c].dit = Rat(Longest(c))

\* Coupling is counted twice, from the references of a class and from the
\* inverted index: what all classes reference is what all are referenced by,
\* also where several classes have the name.
CouplingIsBalanced ==
  found # None /\ found.code.odd = {} =>
    LET f == found.features
        All(metric) == Total([c \in DOMAIN f |-> f[c][metric][1]])
    IN All("cbo") = All("fan_in")

Functions == {i \in DOMAIN text : text[i].kind = "def"}

\* The statements of a function, each counted by what it is in: a branch costs one
\* and one for every block around it, but an "elif" and an "else" cost just one
\* ("without deepening nesting"), however chains, loops, handlers, cases and
\* inner definitions are nested and in whatever order they are visited.
BurdenIsByDepth ==
  \A f \in Functions :
    LET inside == Walk(text, f) \ {f}
        above == Above(text)
        Elif(j) == /\ text[j].kind = "if" /\ text[j].slot = "orelse"
                   /\ Kind(text, text[j].up) = "if"
                   /\ Cardinality(Kids(text, text[j].up, "orelse")) = 1
        Deepens(j) == /\ text[j].up # f /\ ~Elif(j)
                      /\ text[text[j].up].kind \in {"if", "loop", "handler", "case"} \cup Definitions
        Level(j) == Cardinality({k \in ({j} \cup above[j]) \cap inside : Deepens(k)})
        Else(j) == IF \E k \in Kids(text, j, "orelse") : ~Elif(k) THEN 1 ELSE 0
        Burden(j) ==
          LET kind == text[j].kind
          IN (CASE kind \in {"if", "loop"} -> Else(j) + 1 + IF Elif(j) THEN 0 ELSE Level(j)
                [] kind \in {"handler", "match"} -> 1 + Level(j)
                [] OTHER -> 0)
             + IF kind \in Definitions \cup {"handler", "match", "case", "with", "try"} THEN 0
               ELSE text[j].ternaries * (1 + Level(j)) + IF text[j].ands > 0 THEN 1 ELSE 0
        recursive == \E u \in Uses(text, f) : u.role = "call" /\ Last(u.chain) = text[f].name
    IN CognitiveComplexity(text, f)
         = Total([j \in inside |-> Burden(j)]) + IF recursive THEN 1 ELSE 0

\* "Deepest run of nested control structures" (of those outside of any case).
NestingIsDeepest ==
  \A f \in Functions :
    LET inside == Walk(text, f) \ {f}
        above  == Above(text)
        run(j) == Cardinality({k \in ({j} \cup above[j]) \cap inside :
                                 text[k].kind \in {"if", "loop", "try", "match"}})
        seen == {j \in inside : ~\E k \in ({j} \cup above[j]) \cap inside : text[k].kind = "case"}
    IN MaxNestingDepth(text, f) = Max({0} \cup {run(j) : j \in seen})

\* "WMC -- sum of the cyclomatic complexity of the class's direct methods": each
\* with its own, if none shares its path with another (as the getter and the setter
\* of a property do, of which the last is counted twice).
MethodsCountOnce ==
  found # None /\ text # <<>> =>
    \A c \in DOMAIN found.features :
      LET own == {i \in Functions : text[i].up = c}
      IN /\ found.features[c].methods = Rat(Cardinality(own))
         /\ (\A i \in own, j \in Entities(text) : Path(text)[i] = Path(text)[j] => i = j) =>
              found.features[c].wmc
                = Rat(Total([i \in own |-> CyclomaticComplexity(text, i)]))

\* All five: the metrics are what the text and the graph of the classes say, in
\* whatever order the tree is visited and the index, the caches and the inverted
\* references are filled in.
MetricsFollowSource ==
  /\ DepthIsLongestPath /\ CouplingIsBalanced
  /\ BurdenIsByDepth /\ NestingIsDeepest /\ MethodsCountOnce

\* A function does not get simpler by a statement more in it: no count goes down,
\* though an "elif" becomes an "else", and vocabulary and variables are sets.
MoreCodeIsNotSimpler ==
  [][Len(text') > Len(text) =>
       \A f \in Functions \cap Above(text')[Len(text')] :
         LET before == FunctionMetrics(text, f)
             after  == FunctionMetrics(text', f)
         IN \A m \in DOMAIN before : before[m] <= after[m]]_vars

\* The finite excess of a condition of the rule that c satisfies.
Measured(rule, c) ==
  \E i \in DOMAIN rule.conditions :
    LET cond == rule.conditions[i]
    IN Excess(cond.op, found.features[c][cond.metric],
              Threshold(cond, found.mode, found.features)) # Infinite

\* Severity "from how far past the threshold an entity sits": of two classes of
\* a project, the one that is at least as far out on every condition of a rule
\* is reported whenever the other is, with no milder severity.  (Not so for a
\* rule with "any"; nor where every value is zero and below its threshold,
\* which is an infinite excess and counts as none.)
WorseIsNotMilder ==
  found # None =>
    \A rule \in {r \in Rules : r.all}, g \in found.findings, c \in DOMAIN found.features :
      LET Worse(i) ==
            LET cond == rule.conditions[i]
                v == found.features[g.class][cond.metric]
                w == found.features[c][cond.metric]
            IN IF Falling(cond.op) THEN Leq(w, v) ELSE Leq(v, w)
      IN /\ g.smell = rule.smell
         /\ \A i \in DOMAIN rule.conditions : Worse(i)
         /\ ~Exempt(rule, found.code.class[c])
         => \E h \in found.findings :
              /\ h.smell = rule.smell /\ h.class = c
              /\ Measured(rule, c) => h.severity >= g.severity

\* thresholds.py: "A percentile threshold flags a fixed share of entities by
\* construction".  A condition "> q-th percentile" is met by at most the share
\* above q, however the values are distributed, ties included.
PercentileFlagsAShare ==
  found # None /\ found.mode = "percentile" =>
    LET n == Cardinality(DOMAIN found.features)
    IN n >= MinEntities =>
         \A rule \in Rules : \A i \in DOMAIN rule.conditions :
           LET cond == rule.conditions[i]
           IN cond.op = ">" /\ cond.percentile # 0 =>
                Cardinality({c \in DOMAIN found.features :
                               i \in Satisfied(rule, found.mode, found.features, c)})
                  <= n - 1 - (cond.percentile * (n - 1)) \div 100

\* Both: the report follows the values of the metrics.
DetectionFollowsValues == WorseIsNotMilder /\ PercentileFlagsAShare

-----------------------------------------------------------------------------
(***************************************************************************)
(* Properties of the study.                                                *)
(***************************************************************************)

\* features.py: "This prevents a reviewer label from silently attaching to a
\* changed entity or a different checkout".  A label is joined to the metrics
\* of the project as it was when the task was made, also those that depend on
\* files the reviewer has not seen, whatever has changed since.
RowsAreAsReviewed ==
  dataset # None =>
    \A r \in dataset : r.features = Features[r.task.project][r.task.class]

\* The fits that stand behind what is reported, with the projects held out.
Reported ==
  {<<models[key].card.fits, Projects(models[key].card.split.test)>> :
     key \in {k \in DOMAIN models : models[k].card # None}}
    \cup (IF logo = None THEN {}
          ELSE UNION {{<<f.fits, {f.held}>> :
                         f \in {g \in logo.folds[s] : g.status = "evaluated"}} :
                        s \in DOMAIN logo.folds})

\* docs/RESEARCH_EVALUATION.md: "Keep the outer test project completely
\* untouched during feature selection, hyperparameter selection and threshold
\* selection".  No estimator is fitted on a project it scores, nor on one that
\* is held out, and the held-out rows are scored by the last fit only.
NoLeakage ==
  \A x \in Reported : \A f \in x[1] :
    /\ Projects(f.on) \cap (Projects(f.scores) \cup x[2]) = {}
    /\ Projects(f.scores) \cap x[2] # {} => Projects(f.scores) = x[2]

\* An estimator is fitted on rows of both classes only: on one class, logistic
\* regression raises and a forest has no probability of the other.
FitsSeeBothClasses == \A x \in Reported : \A f \in x[1] : BothClasses(f.on)

\* The split of a model leaves no row out and no partition empty, for any
\* number of projects and any share.
SplitsAreProper ==
  \A key \in DOMAIN models :
    LET split == models[key].file.split
    IN /\ split.train # {} /\ split.test # {}
       /\ Projects(split.train) \cap Projects(split.test) = {}

\* README: "Every project becomes the outer test project once ... The report
\* includes per-project folds, skipped-fold reasons".  Of a smell that has
\* enough rows, each row is scored once per model, or its project is listed as
\* skipped.
HeldOutOnce ==
  logo # None => \A s \in DOMAIN logo.folds, kind \in logo.kinds :
    \A p \in Projects(logo.rows[s]) :
      Cardinality({f \in logo.folds[s] :
        f.held = p /\ (f.status = "skipped" \/ f.kind = kind)}) = 1

\* All four: what is reported of a model has been measured on projects it has
\* not seen, by estimators that could be fitted, and on all of them.
EvaluationIsSound == NoLeakage /\ FitsSeeBothClasses /\ SplitsAreProper /\ HeldOutOnce

\* The report of a training lists the models that are in the directory, and
\* each of these has the card of its own file, however many trainings were
\* interrupted or failed there before.
ReportMatchesModels ==
  trained # None => /\ trained = DOMAIN models
                    /\ \A key \in trained : models[key].card = models[key].file

=============================================================================
