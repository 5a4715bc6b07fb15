---------------------------- MODULE ResultStore ----------------------------
(***************************************************************************)
(* What the executions of a project's analyses leave in the database: the  *)
(* _persist, _clear and _run_ml_models steps of jobs/service.py.           *)
(*                                                                         *)
(* An execution may die, fail or be cancelled between any two of its       *)
(* transactions; its job may then be executed again, over whatever the     *)
(* first one has left.  Nothing here asks whether an execution of the job  *)
(* is still under way: the claim looks at the status only, and the status  *)
(* is what the last commit of a recovery, retry or cancellation made it,   *)
(* in any of the orders JobQueue has.  Jobs of the same project run side   *)
(* by side as well, and they share the inventory of the project.           *)
(*                                                                         *)
(* A snapshot of the source is the set of its paths, and a path stands for *)
(* the entities, findings and feature vectors found in it: the code writes *)
(* each of them in one row per entity.  A row carries the execution, or    *)
(* for the inventory the snapshot, that it was computed from.              *)
(***************************************************************************)
EXTENDS Naturals, FiniteSets

CONSTANTS
  Job,        \* the analyses of one project
  Kind,       \* "rule", "ml" or "hybrid", by job
  Path,       \* source files
  Trees,      \* the snapshots of the source an execution may fetch
  Model,      \* the registered models
  Attempts,   \* bound on the executions, by job
  Replicas,   \* bound on the executions at a time
  BatchSize,  \* metric rows per commit: 500 in the code
  NoTree      \* NULL in projects.fingerprint

Run == UNION {{j} \X (1..Attempts[j]) : j \in Job}
JobOf(r) == r[1]

ASSUME ResultStoreAssumption ==
  /\ Kind \in [Job -> {"rule", "ml", "hybrid"}]
  /\ Trees \subseteq SUBSET Path
  /\ NoTree \notin Trees
  /\ IsFiniteSet(Path) /\ IsFiniteSet(Job)
  /\ Attempts \in [Job -> Nat] /\ Replicas \in Nat /\ BatchSize \in Nat \ {0}

VARIABLES
  files,        \* the table source_files
  fingerprint,  \* the column of the project's row
  metrics,      \* the table entity_metrics, by job
  findings,     \* the table findings, by job
  predictions,  \* ml_predictions with their explanations and recommendations
  status,       \* of each job
  crowded,      \* history: the jobs two of whose last executions overlapped
  pc,           \* where each execution is
  tree,         \* the snapshot it has fetched
  known,        \* the fingerprint its session has loaded
  seen,         \* the inventory rows its open transaction deletes
  left          \* the metric rows, then the models, it has still to write

store == <<files, fingerprint, metrics, findings, predictions>>
run   == <<pc, tree, known, seen, left>>
vars  == <<store, status, crowded, run>>

Live == {"fetch", "inventory", "delete", "insert", "metrics", "batch", "findings",
         "ml", "models", "success"}

FileRow == Path \X Trees
ResultRow == Path \X Run

TypeOK ==
  /\ files \subseteq FileRow
  /\ fingerprint \in Trees \cup {NoTree}
  /\ metrics \in [Job -> SUBSET ResultRow]
  /\ findings \in [Job -> SUBSET ResultRow]
  /\ predictions \in [Job -> SUBSET (Model \X ResultRow)]
  /\ status \in [Job -> {"queued", "running", "succeeded", "failed"}]
  /\ crowded \subseteq Job
  /\ pc \in [Run -> Live \cup {"waiting", "ended"}]
  /\ tree \in [Run -> Trees \cup {NoTree}]
  /\ known \in [Run -> Trees \cup {NoTree}]
  /\ seen \in [Run -> SUBSET FileRow]
  /\ left \in [Run -> SUBSET (Path \cup Model)]
  /\ \A r \in Run : tree[r] = NoTree <=> pc[r] \in {"waiting", "fetch", "ended"}

Init ==
  /\ files = {} /\ fingerprint = NoTree
  /\ metrics = [j \in Job |-> {}]
  /\ findings = [j \in Job |-> {}]
  /\ predictions = [j \in Job |-> {}]
  /\ status = [j \in Job |-> "queued"] /\ crowded = {}
  /\ pc = [r \in Run |-> "waiting"]
  /\ tree = [r \in Run |-> NoTree]
  /\ known = [r \in Run |-> NoTree]
  /\ seen = [r \in Run |-> {}]
  /\ left = [r \in Run |-> {}]

Goto(r, from, to) == pc[r] = from /\ pc' = [pc EXCEPT ![r] = to]

-----------------------------------------------------------------------------
(***************************************************************************)
(* Executions, as the queue lets them happen.                              *)
(***************************************************************************)
Executed(j) == \E r \in Run : JobOf(r) = j /\ pc[r] \in Live

\* The executions of a job are numbered as they start.
Following(r) == \A s \in Run : JobOf(s) = JobOf(r) /\ s[2] < r[2] => pc[s] # "waiting"

\* The condition of claim_next_job, and the bound on the workers.
Startable(j) == /\ status[j] = "queued"
                /\ Cardinality({s \in Run : pc[s] \in Live}) < Replicas

Start(r) ==
  /\ Startable(JobOf(r)) /\ Following(r)
  /\ Goto(r, "waiting", "fetch")
  /\ status' = [status EXCEPT ![JobOf(r)] = "running"]
  /\ crowded' = IF Executed(JobOf(r)) THEN crowded \cup {JobOf(r)}
                                      ELSE crowded \ {JobOf(r)}
  /\ UNCHANGED <<store, tree, known, seen, left>>

\* The commit of a session that has read the row at some time before: a recovery,
\* which reads it without its condition once the job has run, whatever it is by
\* now; a retry after a failure; a cancellation.  "failed" stands for "cancelled".
Decree(j) ==
  /\ \/ status' = [status EXCEPT ![j] = "failed"]
     \/ /\ status[j] = "failed" \/ \E r \in Run : JobOf(r) = j /\ pc[r] # "waiting"
        /\ status' = [status EXCEPT ![j] = "queued"]
  /\ UNCHANGED <<store, crowded, run>>

\* Mutant of Forget: the workspace outlives the execution.
ForgetToClean(r) ==
  /\ pc' = [pc EXCEPT ![r] = "ended"]
  /\ UNCHANGED <<tree, known, seen, left>>

\* What is left of an execution when it is over: nothing.
Forget(r) ==
  /\ pc' = [pc EXCEPT ![r] = "ended"]
  /\ tree' = [tree EXCEPT ![r] = NoTree]
  /\ known' = [known EXCEPT ![r] = NoTree]
  /\ seen' = [seen EXCEPT ![r] = {}]
  /\ left' = [left EXCEPT ![r] = {}]

\* JobCancelled, or any error, an open transaction being rolled back.
Stop(r) ==
  /\ pc[r] \in Live
  /\ status' = [status EXCEPT ![JobOf(r)] = "failed"]
  /\ Forget(r)
  /\ UNCHANGED <<store, crowded>>

\* The worker dies; the row says what it said.
Crash(r) == pc[r] \in Live /\ Forget(r) /\ UNCHANGED <<store, status, crowded>>

-----------------------------------------------------------------------------
(***************************************************************************)
(* _persist_inventory: replaces the rows of the whole project in one       *)
(* transaction.  Rows that another session commits after the DELETE are    *)
(* not deleted; the unique constraint on (project_id, relative_path) then  *)
(* makes the INSERT fail.                                                  *)
(***************************************************************************)
Fetch(r) ==
  /\ Goto(r, "fetch", "inventory")
  /\ \E t \in Trees : tree' = [tree EXCEPT ![r] = t]
  /\ UNCHANGED <<store, status, crowded, known, seen, left>>

LoadProject(r) ==
  /\ Goto(r, "inventory", "delete")
  /\ known' = [known EXCEPT ![r] = fingerprint]
  /\ UNCHANGED <<store, status, crowded, tree, seen, left>>

\* PostgreSQL commits in between are seen by the DELETE (READ COMMITTED).
DeleteInventory(r) ==
  /\ Goto(r, "delete", "insert")
  /\ seen' = [seen EXCEPT ![r] = files]
  /\ UNCHANGED <<store, status, crowded, tree, known, left>>

\* Mutant of Violates: the constraint is missing.
ViolatesNothing(r) == FALSE

Violates(r) == \E row \in files \ seen[r] : row[1] \in tree[r]

\* The fingerprint is sent only if it differs from the loaded one.
CommitInventory(r) ==
  /\ Goto(r, "insert", "metrics")
  /\ ~Violates(r)
  /\ files' = (files \ seen[r]) \cup (tree[r] \X {tree[r]})
  /\ fingerprint' = IF tree[r] # known[r] THEN tree[r] ELSE fingerprint
  /\ known' = [known EXCEPT ![r] = NoTree]
  /\ seen' = [seen EXCEPT ![r] = {}]
  /\ UNCHANGED <<metrics, findings, predictions, status, crowded, tree, left>>

-----------------------------------------------------------------------------
(***************************************************************************)
(* The results of the job.                                                 *)
(***************************************************************************)

\* Mutant of Deleted: a _persist or _clear step does not delete.
NotDeleted(rows) == rows

\* DELETE ... WHERE job_id = :job_id.
Deleted(rows) == {}

\* _persist_metrics deletes in a transaction of its own ...
DeleteMetrics(r) ==
  /\ Goto(r, "metrics", "batch")
  /\ metrics' = [metrics EXCEPT ![JobOf(r)] = Deleted(@)]
  /\ left' = [left EXCEPT ![r] = tree[r]]
  /\ UNCHANGED <<files, fingerprint, findings, predictions, status, crowded, tree,
                 known, seen>>

\* ... and commits every BatchSize rows, and once more at the end.  A row of the
\* same entity makes the INSERT fail (unique job_id, entity_id): Stop.
InsertMetrics(r) ==
  \E batch \in SUBSET left[r] :
    /\ Cardinality(batch) = BatchSize \/ batch = left[r]
    /\ Cardinality(batch) <= BatchSize
    /\ \A row \in metrics[JobOf(r)] : row[1] \notin batch
    /\ Goto(r, "batch", IF batch = left[r] THEN "findings" ELSE "batch")
    /\ metrics' = [metrics EXCEPT ![JobOf(r)] = @ \cup (batch \X {r})]
    /\ left' = [left EXCEPT ![r] = @ \ batch]
    /\ UNCHANGED <<files, fingerprint, findings, predictions, status, crowded, tree,
                   known, seen>>

Rules(j) == Kind[j] \in {"rule", "hybrid"}
Learned(j) == Kind[j] \in {"ml", "hybrid"}

\* _persist_findings, or _clear_findings: one transaction.  Only executions of
\* the same job write to the rows; no constraint keeps those apart.
PersistFindings(r) ==
  LET j == JobOf(r) IN
  /\ Goto(r, "findings", "ml")
  /\ findings' = [findings EXCEPT ![j] =
       Deleted(@) \cup (IF Rules(j) THEN tree[r] \X {r} ELSE {})]
  /\ UNCHANGED <<files, fingerprint, metrics, predictions, status, crowded, tree,
                 known, seen, left>>

\* _clear_ml_results, which _run_ml_models calls too, and the query for the
\* enabled models; without one, _run_ml_models raises: Stop.
ClearPredictions(r) ==
  LET j == JobOf(r) IN
  /\ Goto(r, "ml", IF Learned(j) THEN "models" ELSE "success")
  /\ predictions' = [predictions EXCEPT ![j] = Deleted(@)]
  /\ \E enabled \in (SUBSET Model) \ {{}} :
       left' = [left EXCEPT ![r] = IF Learned(j) THEN enabled ELSE {}]
  /\ UNCHANGED <<files, fingerprint, metrics, findings, status, crowded, tree,
                 known, seen>>

\* One round of the loop in _run_ml_models: the rows of one model, unique by
\* job_id, model_id and entity_id.
RunModel(r) ==
  \E m \in left[r] :
    /\ \A row \in predictions[JobOf(r)] : row[1] = m => row[2][1] \notin tree[r]
    /\ Goto(r, "models", IF left[r] = {m} THEN "success" ELSE "models")
    /\ predictions' = [predictions EXCEPT ![JobOf(r)] =
                         @ \cup ({m} \X (tree[r] \X {r}))]
    /\ left' = [left EXCEPT ![r] = @ \ {m}]
    /\ UNCHANGED <<files, fingerprint, metrics, findings, status, crowded, tree,
                   known, seen>>

\* Mutant of Succeed: a model that cannot be loaded ends the loop.
SucceedEarly(r) ==
  /\ pc[r] \in {"models", "success"}
  /\ status' = [status EXCEPT ![JobOf(r)] = "succeeded"]
  /\ Forget(r)
  /\ UNCHANGED <<store, crowded>>

\* _mark_succeeded.
Succeed(r) ==
  /\ pc[r] = "success"
  /\ status' = [status EXCEPT ![JobOf(r)] = "succeeded"]
  /\ Forget(r)
  /\ UNCHANGED <<store, crowded>>

Next ==
  \/ \E j \in Job : Decree(j)
  \/ \E r \in Run :
       \/ Start(r) \/ Stop(r) \/ Crash(r)
       \/ Fetch(r) \/ LoadProject(r) \/ DeleteInventory(r) \/ CommitInventory(r)
       \/ DeleteMetrics(r) \/ InsertMetrics(r) \/ PersistFindings(r)
       \/ ClearPredictions(r) \/ RunModel(r) \/ Succeed(r)

Spec == Init /\ [][Next]_vars

-----------------------------------------------------------------------------
(***************************************************************************)
(* Properties.                                                             *)
(***************************************************************************)

Results(j) == [metrics |-> metrics[j], findings |-> findings[j],
               predictions |-> predictions[j]]

\* What execution r of its job computes from snapshot t with the models ms.
Computed(r, t, ms) ==
  [metrics     |-> t \X {r},
   findings    |-> IF Rules(JobOf(r)) THEN t \X {r} ELSE {},
   predictions |-> ms \X (t \X {r})]

CompleteResults(j) == {Computed(r, t, ms) :
  r \in {s \in Run : JobOf(s) = j}, t \in Trees,
  ms \in IF Learned(j) THEN (SUBSET Model) \ {{}} ELSE {{}}}

\* What a reader of finished analyses sees, of the jobs that are not crowded.
Shown(j) == status[j] = "succeeded" /\ j \notin crowded

\* The three tables of a succeeded job hold what one execution computed from
\* one snapshot, nothing of the executions that failed, were cancelled or died
\* half way before it, or went on while recoveries and retries wrote the status.
\* That the last executions did not overlap has to be said: nothing stops two of
\* them (QueueTwoRecoveries), and then one deletes what the other inserts.
ResultsOfOneRun == \A j \in Job : Shown(j) => Results(j) \in CompleteResults(j)

\* A reader who waits for "succeeded" sees the results appear at once, complete,
\* and the same until the job is put in the queue again, under the same
\* condition.
Visible == INSTANCE AtomicResults WITH
  Complete <- [j \in Job |-> CompleteResults(j)],
  NoResults <- NoTree,
  published <- [j \in Job |-> IF Shown(j) THEN Results(j) ELSE NoTree]

PublishedAtomically == Visible!Spec

\* The inventory is that of one snapshot, although several jobs of the project
\* replace it at the same time: the constraint stops the second of two
\* transactions that did not see each other, if their snapshots share a path.
InventoryOfOneTree ==
  (\A s, t \in Trees : s \cap t # {})
     => files = {} \/ \E t \in Trees : files = t \X {t}

=============================================================================
