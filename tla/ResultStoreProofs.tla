-------------------------- MODULE ResultStoreProofs -------------------------
(***************************************************************************)
(* Proofs about ResultStore, for any jobs, paths, snapshots, models, sizes *)
(* of a batch and number of executions.                                    *)
(*                                                                         *)
(* An execution that succeeds does not look at the tables again.  What it  *)
(* has left there, stage by stage, is therefore the invariant (Progress);  *)
(* nobody else writes to the tables of its job as long as it is the only   *)
(* execution of it (OneAtATime), and not after it has ended (ShownRests).  *)
(* The code does not make it the only one: both, and what follows from     *)
(* them, are about the jobs whose last executions did not overlap.         *)
(***************************************************************************)
EXTENDS ResultStore, TLAPS

OneAtATime ==
  \A r, s \in Run :
    /\ pc[r] \in Live /\ pc[s] \in Live /\ JobOf(r) = JobOf(s)
    /\ JobOf(r) \notin crowded
    => r = s

ShownRests == \A r \in Run : pc[r] \in Live => ~Shown(JobOf(r))

\* What an execution has still to write is of the kind its stage writes.
Work(r) ==
  /\ pc[r] = "batch" => left[r] \subseteq tree[r]
  /\ pc[r] = "models" => Learned(JobOf(r)) /\ left[r] # {} /\ left[r] \subseteq Model

\* What execution r has written of the findings and predictions of its job.
FindingsOf(r) == IF Rules(JobOf(r)) THEN tree[r] \X {r} ELSE {}

PredictionsOf(r, ms) == ms \X (tree[r] \X {r})

\* The stages that come after each of the three tables is complete.
Measured   == {"findings", "ml", "models", "success"}
Reported   == {"ml", "models", "success"}

Progress(r) ==
  LET j == JobOf(r) IN
  /\ pc[r] = "batch" => metrics[j] = (tree[r] \ left[r]) \X {r}
  /\ pc[r] \in Measured => metrics[j] = tree[r] \X {r}
  /\ pc[r] \in Reported => findings[j] = FindingsOf(r)
  /\ pc[r] = "models" => \E ms \in SUBSET Model : predictions[j] = PredictionsOf(r, ms)
  /\ pc[r] = "success" =>
       \E ms \in IF Learned(j) THEN (SUBSET Model) \ {{}} ELSE {{}} :
         predictions[j] = PredictionsOf(r, ms)

IInv ==
  /\ TypeOK /\ OneAtATime /\ ShownRests
  /\ \A r \in Run : Work(r) /\ (JobOf(r) \notin crowded => Progress(r))
  /\ ResultsOfOneRun

Step(r) ==
  \/ Start(r) \/ Stop(r) \/ Crash(r)
  \/ Fetch(r) \/ LoadProject(r) \/ DeleteInventory(r) \/ CommitInventory(r)
  \/ DeleteMetrics(r) \/ InsertMetrics(r) \/ PersistFindings(r)
  \/ ClearPredictions(r) \/ RunModel(r) \/ Succeed(r)

-----------------------------------------------------------------------------
LEMMA RunHasJob == ASSUME NEW r \in Run PROVE JobOf(r) \in Job
BY DEF Run, JobOf

\* A step of an execution touches the results and the status of its own job.
Elsewhere(r) ==
  /\ \A s \in Run \ {r} : pc'[s] = pc[s] /\ tree'[s] = tree[s] /\ left'[s] = left[s]
  /\ \A j \in Job \ {JobOf(r)} :
       /\ metrics'[j] = metrics[j] /\ findings'[j] = findings[j]
       /\ predictions'[j] = predictions[j] /\ status'[j] = status[j]
       /\ j \in crowded' <=> j \in crowded

LEMMA StepsAreLocal ==
  ASSUME TypeOK, NEW r \in Run, Step(r)
  PROVE  Elsewhere(r)
<1>. USE DEF Elsewhere, TypeOK, Goto
<1>1. CASE Start(r) BY <1>1 DEF Start, store
<1>2. CASE Stop(r) BY <1>2 DEF Stop, Forget, store
<1>3. CASE Crash(r) BY <1>3 DEF Crash, Forget, store
<1>4. CASE Fetch(r) BY <1>4 DEF Fetch, store
<1>5. CASE LoadProject(r) BY <1>5 DEF LoadProject, store
<1>13. CASE DeleteInventory(r) BY <1>13 DEF DeleteInventory, store
<1>6. CASE CommitInventory(r) BY <1>6 DEF CommitInventory
<1>7. CASE DeleteMetrics(r) BY <1>7 DEF DeleteMetrics
<1>8. CASE InsertMetrics(r) BY <1>8 DEF InsertMetrics
<1>9. CASE PersistFindings(r) BY <1>9 DEF PersistFindings
<1>10. CASE ClearPredictions(r) BY <1>10 DEF ClearPredictions
<1>11. CASE RunModel(r) BY <1>11 DEF RunModel
<1>12. CASE Succeed(r) BY <1>12 DEF Succeed, Forget, store
<1>. QED BY <1>1, <1>2, <1>3, <1>4, <1>5, <1>6, <1>7, <1>8, <1>9, <1>10, <1>11, <1>12, <1>13
         DEF Step

\* It is a live one's, whose job is not shown, or it starts one.
LEMMA StepsAreOwn ==
  ASSUME IInv, NEW r \in Run, Step(r)
  PROVE  /\ ~Shown(JobOf(r))
         /\ JobOf(r) \notin crowded' =>
              \A s \in Run \ {r} : pc[s] \in Live => JobOf(s) # JobOf(r)
         /\ pc'[r] \in Live => ~Shown(JobOf(r))'
         /\ pc[r] \in Live => crowded' = crowded
<1>. USE RunHasJob DEF IInv, TypeOK, OneAtATime, ShownRests, Shown, Goto, Live
<1>1. CASE Start(r)
  <2>1. /\ status[JobOf(r)] = "queued" /\ pc[r] = "waiting"
        /\ status'[JobOf(r)] = "running"
        /\ crowded' = IF Executed(JobOf(r)) THEN crowded \cup {JobOf(r)}
                                            ELSE crowded \ {JobOf(r)}
    BY <1>1 DEF Start, Startable
  <2>. QED BY <2>1 DEF Executed, JobOf
<1>2. CASE Stop(r) BY <1>2 DEF Stop, Forget, JobOf
<1>3. CASE Crash(r) BY <1>3 DEF Crash, Forget, JobOf
<1>4. CASE Fetch(r) BY <1>4 DEF Fetch, JobOf
<1>5. CASE LoadProject(r) BY <1>5 DEF LoadProject, JobOf
<1>13. CASE DeleteInventory(r) BY <1>13 DEF DeleteInventory, JobOf
<1>6. CASE CommitInventory(r) BY <1>6 DEF CommitInventory, JobOf
<1>7. CASE DeleteMetrics(r) BY <1>7 DEF DeleteMetrics, JobOf
<1>8. CASE InsertMetrics(r) BY <1>8 DEF InsertMetrics, JobOf
<1>9. CASE PersistFindings(r) BY <1>9 DEF PersistFindings, JobOf
<1>10. CASE ClearPredictions(r) BY <1>10 DEF ClearPredictions, JobOf
<1>11. CASE RunModel(r) BY <1>11 DEF RunModel, JobOf
<1>12. CASE Succeed(r) BY <1>12 DEF Succeed, Forget, JobOf
<1>. QED BY <1>1, <1>2, <1>3, <1>4, <1>5, <1>6, <1>7, <1>8, <1>9, <1>10, <1>11, <1>12, <1>13
         DEF Step

-----------------------------------------------------------------------------
LEMMA TypesFollow == ASSUME IInv, NEW r \in Run, Step(r) PROVE TypeOK'
<1>. TypeOK /\ Work(r) BY DEF IInv
<1>. USE RunHasJob, ResultStoreAssumption DEF TypeOK, Goto, Live, FileRow, ResultRow
<1>1. CASE Start(r) BY <1>1 DEF Start, store
<1>2. CASE Stop(r) BY <1>2 DEF Stop, Forget, store
<1>3. CASE Crash(r) BY <1>3 DEF Crash, Forget, store
<1>4. CASE Fetch(r) BY <1>4 DEF Fetch, store
<1>5. CASE LoadProject(r) BY <1>5 DEF LoadProject, store
<1>13. CASE DeleteInventory(r) BY <1>13 DEF DeleteInventory, store
<1>6. CASE CommitInventory(r)
  <2>1. tree[r] \in Trees /\ tree[r] \subseteq Path
    BY <1>6 DEF CommitInventory
  <2>. QED BY <1>6, <2>1 DEF CommitInventory
<1>7. CASE DeleteMetrics(r)
  <2>1. tree[r] \in SUBSET (Path \cup Model)
    BY <1>7 DEF DeleteMetrics
  <2>. QED BY <1>7, <2>1 DEF DeleteMetrics, Deleted
<1>8. CASE InsertMetrics(r)
  <2>1. PICK batch \in SUBSET left[r] :
          /\ Goto(r, "batch", IF batch = left[r] THEN "findings" ELSE "batch")
          /\ metrics' = [metrics EXCEPT ![JobOf(r)] = @ \cup (batch \X {r})]
          /\ left' = [left EXCEPT ![r] = @ \ batch]
          /\ UNCHANGED <<files, fingerprint, findings, predictions, status, crowded, tree,
                         known, seen>>
    BY <1>8 DEF InsertMetrics
  <2>2. batch \subseteq Path BY <2>1 DEF Work
  <2>3. metrics' \in [Job -> SUBSET ResultRow] BY <2>1, <2>2
  <2>. QED BY <2>1, <2>3
<1>9. CASE PersistFindings(r) BY <1>9 DEF PersistFindings, Deleted
<1>10. CASE ClearPredictions(r) BY <1>10 DEF ClearPredictions, Deleted
<1>11. CASE RunModel(r)
  <2>1. PICK m \in left[r] :
          /\ Goto(r, "models", IF left[r] = {m} THEN "success" ELSE "models")
          /\ predictions' = [predictions EXCEPT ![JobOf(r)] = @ \cup ({m} \X (tree[r] \X {r}))]
          /\ left' = [left EXCEPT ![r] = @ \ {m}]
          /\ UNCHANGED <<files, fingerprint, metrics, findings, status, crowded, tree,
                         known, seen>>
    BY <1>11 DEF RunModel
  <2>2. m \in Model /\ tree[r] \subseteq Path BY <2>1 DEF Work
  <2>3. predictions' \in [Job -> SUBSET (Model \X ResultRow)] BY <2>1, <2>2
  <2>. QED BY <2>1, <2>3
<1>12. CASE Succeed(r) BY <1>12 DEF Succeed, Forget, store
<1>. QED BY <1>1, <1>2, <1>3, <1>4, <1>5, <1>6, <1>7, <1>8, <1>9, <1>10, <1>11, <1>12, <1>13
         DEF Step

-----------------------------------------------------------------------------
\* An execution whose job is not crowded goes on alone.
LEMMA OthersWait ==
  ASSUME IInv, NEW r \in Run, Step(r)
  PROVE  /\ OneAtATime' /\ ShownRests'
         /\ \A s \in Run \ {r} :
              Work(s)' /\ (JobOf(s) \notin crowded' => Progress(s)')
<1>1. Elsewhere(r) BY StepsAreLocal DEF IInv
<1>2. /\ ~Shown(JobOf(r))
      /\ JobOf(r) \notin crowded' =>
           \A s \in Run \ {r} : pc[s] \in Live => JobOf(s) # JobOf(r)
      /\ pc'[r] \in Live => ~Shown(JobOf(r))'
  BY StepsAreOwn
<1>3. OneAtATime'
  <2>. SUFFICES ASSUME NEW s \in Run, NEW t \in Run, pc'[s] \in Live, pc'[t] \in Live,
                       JobOf(s) = JobOf(t), JobOf(s) \notin crowded', s # t
                PROVE  FALSE
    BY DEF OneAtATime, JobOf
  <2>1. CASE JobOf(s) = JobOf(r)
    <3>1. \A u \in Run \ {r} : pc[u] \in Live => JobOf(u) # JobOf(r) BY <1>2, <2>1
    <3>2. \A u \in Run \ {r} : pc'[u] = pc[u] BY <1>1 DEF Elsewhere
    <3>3. JobOf(t) = JobOf(r) BY <2>1
    <3>. QED BY <2>1, <3>1, <3>2, <3>3
  <2>2. CASE JobOf(s) # JobOf(r)
    <3>1. JobOf(s) \in Job /\ JobOf(s) \notin crowded BY <1>1, <2>2, RunHasJob DEF Elsewhere
    <3>2. pc[s] \in Live /\ pc[t] \in Live BY <1>1, <2>2 DEF Elsewhere
    <3>. QED BY <3>1, <3>2 DEF IInv, OneAtATime
  <2>. QED BY <2>1, <2>2
<1>4. ShownRests'
  <2>. SUFFICES ASSUME NEW s \in Run, pc'[s] \in Live, Shown(JobOf(s))' PROVE FALSE
    BY DEF ShownRests
  <2>1. CASE JobOf(s) # JobOf(r)
    <3>1. pc[s] \in Live /\ Shown(JobOf(s))
      BY <1>1, <2>1, RunHasJob DEF Elsewhere, Shown, JobOf
    <3>. QED BY <3>1 DEF IInv, ShownRests
  <2>2. CASE JobOf(s) = JobOf(r)
    <3>1. JobOf(r) \notin crowded' BY <2>2 DEF Shown, JobOf
    <3>2. s = r BY <1>1, <1>2, <2>2, <3>1 DEF Elsewhere
    <3>. QED BY <1>2, <3>2
  <2>. QED BY <2>1, <2>2
<1>5. ASSUME NEW s \in Run \ {r}, JobOf(s) \notin crowded' PROVE Progress(s)'
  <2>1. CASE pc[s] \in Live
    <3>1. JobOf(s) \in Job \ {JobOf(r)} BY <1>2, <1>5, <2>1, RunHasJob
    <3>2. Progress(s) BY <1>1, <1>5, <3>1 DEF IInv, Elsewhere
    <3>3. /\ pc'[s] = pc[s] /\ tree'[s] = tree[s] /\ left'[s] = left[s]
          /\ metrics'[JobOf(s)] = metrics[JobOf(s)]
          /\ findings'[JobOf(s)] = findings[JobOf(s)]
          /\ predictions'[JobOf(s)] = predictions[JobOf(s)]
      BY <3>1, <1>1 DEF Elsewhere
    <3>4. /\ FindingsOf(s)' = FindingsOf(s)
          /\ \A ms : PredictionsOf(s, ms)' = PredictionsOf(s, ms)
      BY <3>3 DEF FindingsOf, PredictionsOf, Rules, JobOf
    <3>. QED BY <3>2, <3>3, <3>4 DEF Progress, JobOf, Learned
  <2>2. CASE pc[s] \notin Live
    BY <2>2, <1>1 DEF Progress, Elsewhere, Live, Measured, Reported
  <2>. QED BY <2>1, <2>2
<1>6. ASSUME NEW s \in Run \ {r} PROVE Work(s)'
  BY <1>1 DEF IInv, Work, Elsewhere, Learned, JobOf
<1>. QED BY <1>3, <1>4, <1>5, <1>6

\* A stage leaves to the next ones what they are to write.
LEMMA WorkIsLeft == ASSUME IInv, NEW r \in Run, Step(r) PROVE Work(r)'
<1>. TypeOK /\ Work(r) BY DEF IInv
<1>. USE RunHasJob DEF Goto
<1>1. CASE Start(r) BY <1>1 DEF Start, Work, TypeOK
<1>2. CASE Stop(r) BY <1>2 DEF Stop, Forget, Work, TypeOK
<1>3. CASE Crash(r) BY <1>3 DEF Crash, Forget, Work, TypeOK
<1>4. CASE Fetch(r) BY <1>4 DEF Fetch, Work, TypeOK
<1>5. CASE LoadProject(r) BY <1>5 DEF LoadProject, Work, TypeOK
<1>13. CASE DeleteInventory(r) BY <1>13 DEF DeleteInventory, Work, TypeOK
<1>6. CASE CommitInventory(r) BY <1>6 DEF CommitInventory, Work, TypeOK
<1>7. CASE DeleteMetrics(r) BY <1>7 DEF DeleteMetrics, Work, TypeOK
<1>8. CASE InsertMetrics(r)
  <2>1. PICK batch \in SUBSET left[r] :
          /\ Goto(r, "batch", IF batch = left[r] THEN "findings" ELSE "batch")
          /\ left' = [left EXCEPT ![r] = @ \ batch]
          /\ UNCHANGED tree
    BY <1>8 DEF InsertMetrics
  <2>. QED BY <2>1 DEF Work, TypeOK
<1>9. CASE PersistFindings(r) BY <1>9 DEF PersistFindings, Work, TypeOK
<1>10. CASE ClearPredictions(r)
  <2>1. PICK enabled \in (SUBSET Model) \ {{}} :
          left' = [left EXCEPT ![r] = IF Learned(JobOf(r)) THEN enabled ELSE {}]
    BY <1>10 DEF ClearPredictions
  <2>2. /\ pc'[r] = IF Learned(JobOf(r)) THEN "models" ELSE "success"
        /\ left'[r] = IF Learned(JobOf(r)) THEN enabled ELSE {}
    BY <1>10, <2>1 DEF ClearPredictions, TypeOK
  <2>. QED BY <2>1, <2>2 DEF Work, Learned, JobOf
<1>11. CASE RunModel(r)
  <2>1. PICK m \in left[r] :
          /\ Goto(r, "models", IF left[r] = {m} THEN "success" ELSE "models")
          /\ left' = [left EXCEPT ![r] = @ \ {m}]
    BY <1>11 DEF RunModel
  <2>2. /\ pc'[r] = IF left[r] = {m} THEN "success" ELSE "models"
        /\ left'[r] = left[r] \ {m}
    BY <2>1 DEF TypeOK
  <2>3. left[r] # {m} => left'[r] # {} BY <2>2
  <2>. QED BY <2>1, <2>2, <2>3 DEF Work, Learned, JobOf
<1>12. CASE Succeed(r) BY <1>12 DEF Succeed, Forget, Work, TypeOK
<1>. QED BY <1>1, <1>2, <1>3, <1>4, <1>5, <1>6, <1>7, <1>8, <1>9, <1>10, <1>11, <1>12, <1>13
         DEF Step

\* A stage leaves what the next ones rely on.
LEMMA StagesAddUp ==
  ASSUME IInv, NEW r \in Run, Step(r), JobOf(r) \notin crowded'
  PROVE  Progress(r)'
<1>. TypeOK /\ Work(r) BY DEF IInv
<1>. Progress(r)
  <2>1. CASE pc[r] \in Live BY <2>1, StepsAreOwn DEF IInv
  <2>2. CASE pc[r] \notin Live BY <2>2 DEF Progress, Live, Measured, Reported
  <2>. QED BY <2>1, <2>2
<1>. USE RunHasJob DEF Goto, Measured, Reported
<1>1. CASE Start(r) BY <1>1 DEF Start, Progress, TypeOK
<1>2. CASE Stop(r) BY <1>2 DEF Stop, Forget, Progress, TypeOK
<1>3. CASE Crash(r) BY <1>3 DEF Crash, Forget, Progress, TypeOK
<1>4. CASE Fetch(r) BY <1>4 DEF Fetch, Progress, TypeOK
<1>5. CASE LoadProject(r) BY <1>5 DEF LoadProject, Progress, TypeOK
<1>13. CASE DeleteInventory(r) BY <1>13 DEF DeleteInventory, Progress, TypeOK
<1>6. CASE CommitInventory(r) BY <1>6 DEF CommitInventory, Progress, TypeOK
<1>7. CASE DeleteMetrics(r)
  <2>1. pc'[r] = "batch" /\ tree'[r] = tree[r] /\ left'[r] = tree[r] /\ metrics'[JobOf(r)] = {}
    BY <1>7 DEF DeleteMetrics, Deleted, TypeOK
  <2>. QED BY <2>1 DEF Progress, JobOf
<1>8. CASE InsertMetrics(r)
  <2>1. PICK batch \in SUBSET left[r] :
          /\ Goto(r, "batch", IF batch = left[r] THEN "findings" ELSE "batch")
          /\ metrics' = [metrics EXCEPT ![JobOf(r)] = @ \cup (batch \X {r})]
          /\ left' = [left EXCEPT ![r] = @ \ batch]
          /\ UNCHANGED tree
    BY <1>8 DEF InsertMetrics
  <2>2. left[r] \subseteq tree[r] /\ metrics[JobOf(r)] = (tree[r] \ left[r]) \X {r}
    BY <2>1 DEF Progress, Work
  <2>3. left'[r] = left[r] \ batch /\ metrics'[JobOf(r)] = metrics[JobOf(r)] \cup (batch \X {r})
    BY <2>1 DEF TypeOK
  <2>4. metrics'[JobOf(r)] = (tree[r] \ left'[r]) \X {r} /\ left'[r] \subseteq tree[r]
    BY <2>2, <2>3
  <2>5. pc'[r] = IF batch = left[r] THEN "findings" ELSE "batch" BY <2>1 DEF TypeOK
  <2>6. batch = left[r] => left'[r] = {} BY <2>3
  <2>. QED BY <2>1, <2>4, <2>5, <2>6 DEF Progress, JobOf
<1>9. CASE PersistFindings(r)
  BY <1>9 DEF PersistFindings, Deleted, Progress, FindingsOf, TypeOK, JobOf
<1>10. CASE ClearPredictions(r)
  <2>1. PICK enabled \in (SUBSET Model) \ {{}} :
          left' = [left EXCEPT ![r] = IF Learned(JobOf(r)) THEN enabled ELSE {}]
    BY <1>10 DEF ClearPredictions
  <2>2. /\ pc'[r] = IF Learned(JobOf(r)) THEN "models" ELSE "success"
        /\ predictions'[JobOf(r)] = {}
        /\ left'[r] = IF Learned(JobOf(r)) THEN enabled ELSE {}
        /\ UNCHANGED <<metrics, findings, tree>>
        /\ pc[r] = "ml"
    BY <1>10, <2>1 DEF ClearPredictions, Deleted, TypeOK
  <2>3. PredictionsOf(r, {})' = {} BY DEF PredictionsOf
  <2>4. metrics[JobOf(r)] = tree[r] \X {r} /\ findings[JobOf(r)] = FindingsOf(r)
    BY <2>2 DEF Progress
  <2>5. FindingsOf(r)' = FindingsOf(r) BY <2>2 DEF FindingsOf, Rules, JobOf
  <2>6. CASE Learned(JobOf(r))
    <3>1. pc'[r] = "models" /\ left'[r] \in (SUBSET Model) \ {{}} BY <2>1, <2>2, <2>6
    <3>. QED BY <3>1, <2>2, <2>3, <2>4, <2>5, <2>6 DEF Progress, JobOf, Learned
  <2>7. CASE ~Learned(JobOf(r))
    <3>1. pc'[r] = "success" BY <2>2, <2>7
    <3>. QED BY <3>1, <2>2, <2>3, <2>4, <2>5, <2>7 DEF Progress, JobOf, Learned
  <2>. QED BY <2>6, <2>7
<1>11. CASE RunModel(r)
  <2>1. PICK m \in left[r] :
          /\ Goto(r, "models", IF left[r] = {m} THEN "success" ELSE "models")
          /\ predictions' = [predictions EXCEPT ![JobOf(r)] = @ \cup ({m} \X (tree[r] \X {r}))]
          /\ left' = [left EXCEPT ![r] = @ \ {m}]
          /\ UNCHANGED <<metrics, findings, tree>>
    BY <1>11 DEF RunModel
  <2>2. PICK ms \in SUBSET Model : predictions[JobOf(r)] = PredictionsOf(r, ms)
    BY <2>1 DEF Progress
  <2>3. Learned(JobOf(r)) /\ left[r] \subseteq Model BY <2>1 DEF Work
  <2>4. ms \cup {m} \in (SUBSET Model) \ {{}} BY <2>1, <2>2, <2>3
  <2>5. predictions'[JobOf(r)] = PredictionsOf(r, ms) \cup ({m} \X (tree[r] \X {r}))
    BY <2>1, <2>2 DEF TypeOK
  <2>6. predictions'[JobOf(r)] = PredictionsOf(r, ms \cup {m})'
    BY <2>1, <2>5 DEF PredictionsOf
  <2>7. /\ pc'[r] = IF left[r] = {m} THEN "success" ELSE "models"
        /\ left'[r] = left[r] \ {m}
    BY <2>1 DEF TypeOK
  <2>8. left[r] # {m} => left'[r] # {} /\ left'[r] \subseteq Model BY <2>1, <2>3, <2>7
  <2>9. metrics[JobOf(r)] = tree[r] \X {r} /\ findings[JobOf(r)] = FindingsOf(r)
    BY <2>1 DEF Progress
  <2>. QED BY <2>1, <2>3, <2>4, <2>6, <2>7, <2>8, <2>9 DEF Progress, FindingsOf, JobOf
<1>12. CASE Succeed(r) BY <1>12 DEF Succeed, Forget, Progress, TypeOK
<1>. QED BY <1>1, <1>2, <1>3, <1>4, <1>5, <1>6, <1>7, <1>8, <1>9, <1>10, <1>11, <1>12, <1>13
         DEF Step

\* Only the execution that is last makes the results of its job visible, and
\* they are complete.
LEMMA SuccessIsComplete ==
  ASSUME IInv, NEW r \in Run, Step(r)
  PROVE  /\ \A j \in Job : Shown(j) => Shown(j)' /\ Results(j)' = Results(j)
         /\ \A j \in Job : ~Shown(j) /\ Shown(j)' =>
              j = JobOf(r) /\ Results(j)' \in CompleteResults(j)
<1>. TypeOK BY DEF IInv
<1>1. Elsewhere(r) /\ ~Shown(JobOf(r)) BY StepsAreLocal, StepsAreOwn
<1>2. ASSUME NEW j \in Job, Shown(j) PROVE Shown(j)' /\ Results(j)' = Results(j)
  BY <1>1, <1>2 DEF Elsewhere, Results, Shown
<1>3. ASSUME NEW j \in Job, ~Shown(j), Shown(j)'
      PROVE  j = JobOf(r) /\ Results(j)' \in CompleteResults(j)
  <2>1. j = JobOf(r) BY <1>1, <1>3 DEF Elsewhere, Shown
  <2>2. Succeed(r)
    <3>. USE RunHasJob, <1>3, <2>1 DEF TypeOK, Shown
    <3>1. ~Start(r) BY DEF Start
    <3>2. ~Stop(r) BY DEF Stop
    <3>3. ~Crash(r) BY DEF Crash
    <3>4. ~Fetch(r) /\ ~LoadProject(r) /\ ~DeleteInventory(r) /\ ~CommitInventory(r)
      BY DEF Fetch, LoadProject, DeleteInventory, CommitInventory
    <3>5. ~DeleteMetrics(r) /\ ~InsertMetrics(r) /\ ~PersistFindings(r)
      BY DEF DeleteMetrics, InsertMetrics, PersistFindings
    <3>6. ~ClearPredictions(r) /\ ~RunModel(r) BY DEF ClearPredictions, RunModel
    <3>. QED BY <3>1, <3>2, <3>3, <3>4, <3>5, <3>6 DEF Step
  <2>. Progress(r)
    <3>1. JobOf(r) \notin crowded BY <1>3, <2>1, <2>2 DEF Succeed, Shown
    <3>. QED BY <3>1 DEF IInv
  <2>3. PICK ms \in IF Learned(j) THEN (SUBSET Model) \ {{}} ELSE {{}} :
          /\ metrics[j] = tree[r] \X {r}
          /\ findings[j] = FindingsOf(r)
          /\ predictions[j] = PredictionsOf(r, ms)
    BY <2>1, <2>2 DEF Succeed, Progress, Measured, Reported
  <2>4. tree[r] \in Trees BY <2>2 DEF Succeed, TypeOK
  <2>5. Results(j)' = Computed(r, tree[r], ms)
    BY <2>1, <2>2, <2>3 DEF Succeed, store, Results, Computed, FindingsOf, PredictionsOf
  <2>. QED BY <2>1, <2>3, <2>4, <2>5 DEF CompleteResults
<1>. QED BY <1>2, <1>3

-----------------------------------------------------------------------------
\* A commit of a recovery, retry or cancellation writes a status that shows nothing.
LEMMA DecreesHide ==
  ASSUME TypeOK, NEW j \in Job, Decree(j)
  PROVE  /\ ~Shown(j)' /\ UNCHANGED <<store, crowded, run>>
         /\ \A k \in Job : Results(k)' = Results(k)
         /\ \A k \in Job \ {j} : Shown(k)' = Shown(k)
         /\ status' \in [Job -> {"queued", "running", "succeeded", "failed"}]
BY DEF Decree, TypeOK, Shown, Results, store

LEMMA Beginning == Init => IInv
<1>. SUFFICES ASSUME Init PROVE IInv OBVIOUS
<1>. USE RunHasJob, ResultStoreAssumption DEF Init
<1>1. TypeOK BY DEF TypeOK, Live
<1>2. OneAtATime /\ ShownRests BY DEF OneAtATime, ShownRests, Live
<1>3. \A r \in Run : Work(r) /\ Progress(r) BY DEF Progress, Work, Measured, Reported
<1>4. ResultsOfOneRun BY DEF ResultsOfOneRun, Shown
<1>. QED BY <1>1, <1>2, <1>3, <1>4 DEF IInv

\* What nobody but an execution does leaves everything but the status.
LEMMA StatusOnly ==
  ASSUME IInv, UNCHANGED <<store, crowded, run>>,
         status' \in [Job -> {"queued", "running", "succeeded", "failed"}],
         \A j \in Job : Shown(j)' => Shown(j)
  PROVE  IInv'
<1>1. TypeOK' BY DEF IInv, store, run, TypeOK
<1>2. OneAtATime' BY DEF IInv, run, OneAtATime
<1>3. ShownRests' BY RunHasJob DEF IInv, run, ShownRests, JobOf
<1>4. ASSUME NEW r \in Run
      PROVE  Work(r)' /\ (JobOf(r) \notin crowded' => Progress(r)')
  <2>1. Work(r) /\ (JobOf(r) \notin crowded => Progress(r)) BY DEF IInv
  <2>2. Work(r)' BY <2>1 DEF run, Work, Learned, JobOf
  <2>3. Progress(r)' = Progress(r)
    BY DEF store, run, Progress, FindingsOf, PredictionsOf, Rules, Learned, JobOf
  <2>. QED BY <2>1, <2>2, <2>3
<1>5. ResultsOfOneRun'
  <2>. SUFFICES ASSUME NEW j \in Job, Shown(j)' PROVE Results(j)' \in CompleteResults(j)
    BY DEF ResultsOfOneRun, CompleteResults, Computed, Rules, Learned, JobOf, Run
  <2>1. Results(j)' = Results(j) BY DEF store, Results
  <2>. QED BY <2>1 DEF IInv, ResultsOfOneRun
<1>. QED BY <1>1, <1>2, <1>3, <1>4, <1>5 DEF IInv

LEMMA Consecution == IInv /\ [Next]_vars => IInv'
<1>1. ASSUME IInv, NEW r \in Run, Step(r) PROVE IInv'
  <2>1. TypeOK' BY <1>1, TypesFollow
  <2>2. /\ OneAtATime' /\ ShownRests'
        /\ \A s \in Run : Work(s)' /\ (JobOf(s) \notin crowded' => Progress(s)')
    BY <1>1, OthersWait, WorkIsLeft, StagesAddUp
  <2>3. ResultsOfOneRun'
    <3>. SUFFICES ASSUME NEW j \in Job, Shown(j)'
                  PROVE  Results(j)' \in CompleteResults(j)
      BY DEF ResultsOfOneRun, CompleteResults, Computed, Rules, Learned, JobOf, Run
    <3>. QED BY <1>1, SuccessIsComplete DEF IInv, ResultsOfOneRun
  <2>. QED BY <2>1, <2>2, <2>3 DEF IInv
<1>2. ASSUME IInv, NEW j \in Job, Decree(j) PROVE IInv'
  BY <1>2, DecreesHide, StatusOnly DEF IInv
<1>3. ASSUME IInv, UNCHANGED vars PROVE IInv'
  BY <1>3, StatusOnly DEF vars, IInv, TypeOK, Shown
<1>. QED BY <1>1, <1>2, <1>3 DEF Next, Step

\* The tables hold what their columns are for, and executions are where the code
\* can be.
THEOREM TypesHold == Spec => []TypeOK
<1>1. IInv => TypeOK BY DEF IInv
<1>. QED BY Beginning, Consecution, <1>1, PTL DEF Spec

\* What a succeeded job shows was computed by one execution from one snapshot of
\* the source, whatever the executions before it have left and recoveries, retries
\* and cancellations have made of its status (jobs/service.py, jobs/queue.py), as
\* long as its last executions did not overlap.
THEOREM ResultsAreOfOneRun == Spec => []ResultsOfOneRun
<1>1. IInv => ResultsOfOneRun BY DEF IInv
<1>. QED BY Beginning, Consecution, <1>1, PTL DEF Spec

-----------------------------------------------------------------------------
\* The published results of the refinement.
Published == [j \in Job |-> IF Shown(j) THEN Results(j) ELSE NoTree]

LEMMA NothingPublishedYet == Init => Visible!Init
BY DEF Init, Visible!Init, Shown

LEMMA StepsPublish == IInv /\ [Next]_vars => [Visible!Next]_Published
<1>1. ASSUME IInv, NEW r \in Run, Step(r) PROVE [Visible!Next]_Published
  <2>. DEFINE mine == JobOf(r)
  <2>1. mine \in Job BY RunHasJob
  <2>2. /\ \A j \in Job : Shown(j) => Shown(j)' /\ Results(j)' = Results(j)
        /\ \A j \in Job : ~Shown(j) /\ Shown(j)' =>
             j = mine /\ Results(j)' \in CompleteResults(j)
    BY <1>1, SuccessIsComplete
  <2>. HIDE DEF mine
  <2>3. CASE Shown(mine)' /\ ~Shown(mine)
    <3>1. Published[mine] = NoTree BY <2>1, <2>3 DEF Published
    <3>2. Published' = [Published EXCEPT ![mine] = Results(mine)']
      BY <2>1, <2>2, <2>3 DEF Published
    <3>. QED BY <2>1, <2>2, <2>3, <3>1, <3>2 DEF Visible!Next, Visible!Publish, Published
  <2>4. CASE ~(Shown(mine)' /\ ~Shown(mine))
    <3>1. Published' = Published BY <2>1, <2>2, <2>4 DEF Published
    <3>. QED BY <3>1
  <2>. QED BY <2>3, <2>4
<1>2. ASSUME IInv, NEW j \in Job, Decree(j) PROVE [Visible!Next]_Published
  <2>1. Published' = [Published EXCEPT ![j] = NoTree]
    BY <1>2, DecreesHide DEF Published, IInv
  <2>. QED BY <1>2, <2>1 DEF Visible!Next, Visible!Withdraw, Published
<1>3. ASSUME UNCHANGED vars PROVE UNCHANGED Published
  BY <1>3 DEF vars, store, run, Published, Results, Shown
<1>. QED BY <1>1, <1>2, <1>3 DEF Next, Step

\* A reader who waits for "succeeded" sees the results of a job appear at once,
\* complete, and the same until the job is put in the queue again, as long as its
\* last executions did not overlap: ResultStore implements AtomicResults.
THEOREM ImplementsAtomicResults == Spec => PublishedAtomically
<1>. QED BY Beginning, Consecution, NothingPublishedYet, StepsPublish, PTL
         DEF Spec, PublishedAtomically, Visible!Spec, Published

-----------------------------------------------------------------------------
(***************************************************************************)
(* The inventory.  A transaction that deletes the rows it has seen and     *)
(* meets no other with a path of its own deletes all there are: what it    *)
(* has seen is the inventory of one snapshot (Sighted), and so is what is  *)
(* there, and these two share a row.                                       *)
(***************************************************************************)
Shared == \A s, t \in Trees : s \cap t # {}

OfOneTree(rows) == rows = {} \/ \E t \in Trees : rows = t \X {t}

Sighted == \A r \in Run : OfOneTree(seen[r])

Inventoried == Shared => OfOneTree(files) /\ Sighted

LEMMA CommitReplacesAll ==
  ASSUME TypeOK, Shared, OfOneTree(files), Sighted, NEW r \in Run, CommitInventory(r)
  PROVE  OfOneTree(files')
<1>1. tree[r] \in Trees /\ OfOneTree(seen[r]) BY DEF CommitInventory, Goto, TypeOK, Sighted
<1>2. files \ seen[r] = {}
  <2>. SUFFICES ASSUME files # {} PROVE files \subseteq seen[r] OBVIOUS
  <2>1. PICK t \in Trees : files = t \X {t} BY DEF OfOneTree
  <2>2. PICK p : p \in t /\ p \in tree[r] BY <1>1 DEF Shared
  <2>3. <<p, t>> \in files /\ <<p, t>>[1] = p BY <2>1, <2>2
  <2>4. <<p, t>> \in seen[r] BY <2>2, <2>3 DEF CommitInventory, Violates
  <2>5. PICK u \in Trees : seen[r] = u \X {u} BY <1>1, <2>4 DEF OfOneTree
  <2>6. t = u BY <2>4, <2>5
  <2>. QED BY <2>1, <2>5, <2>6
<1>3. files' = tree[r] \X {tree[r]} BY <1>2 DEF CommitInventory
<1>. QED BY <1>1, <1>3 DEF OfOneTree

LEMMA InventoryFollows == IInv /\ Inventoried /\ [Next]_vars => Inventoried'
<1>1. ASSUME IInv, Shared, OfOneTree(files), Sighted, NEW r \in Run, Step(r)
      PROVE  OfOneTree(files') /\ Sighted'
  <2>. TypeOK BY <1>1 DEF IInv
  <2>. USE <1>1 DEF Sighted, TypeOK
  <2>1. CASE Start(r) BY <2>1 DEF Start, store
  <2>2. CASE Stop(r) BY <2>2 DEF Stop, Forget, store, OfOneTree
  <2>3. CASE Crash(r) BY <2>3 DEF Crash, Forget, store, OfOneTree
  <2>4. CASE Fetch(r) BY <2>4 DEF Fetch, store
  <2>5. CASE LoadProject(r) BY <2>5 DEF LoadProject, store
  <2>13. CASE DeleteInventory(r) BY <2>13 DEF DeleteInventory, store
  <2>6. CASE CommitInventory(r)
    <3>1. OfOneTree(files') BY <2>6, CommitReplacesAll
    <3>2. \A s \in Run : OfOneTree(seen'[s])
      BY <2>6 DEF CommitInventory, OfOneTree
    <3>. QED BY <3>1, <3>2
  <2>7. CASE DeleteMetrics(r) BY <2>7 DEF DeleteMetrics
  <2>8. CASE InsertMetrics(r) BY <2>8 DEF InsertMetrics
  <2>9. CASE PersistFindings(r) BY <2>9 DEF PersistFindings
  <2>10. CASE ClearPredictions(r) BY <2>10 DEF ClearPredictions
  <2>11. CASE RunModel(r) BY <2>11 DEF RunModel
  <2>12. CASE Succeed(r) BY <2>12 DEF Succeed, Forget, store, OfOneTree
  <2>. QED BY <2>1, <2>2, <2>3, <2>4, <2>5, <2>6, <2>7, <2>8, <2>9, <2>10, <2>11, <2>12, <2>13
           DEF Step
<1>2. ASSUME UNCHANGED <<store, run>>, OfOneTree(files), Sighted
      PROVE  OfOneTree(files') /\ Sighted'
  BY <1>2 DEF store, run, Sighted
<1>3. ASSUME \/ UNCHANGED vars
             \/ \E j \in Job : Decree(j)
      PROVE  UNCHANGED <<store, run>>
  BY <1>3 DEF vars, Decree
<1>. QED BY <1>1, <1>2, <1>3 DEF Inventoried, Next, Step, Shared, OfOneTree

\* The inventory is that of one snapshot, if any two snapshots share a path,
\* whatever jobs of the project replace it at a time (_persist_inventory).
THEOREM InventoryIsOfOneTree == Spec => []InventoryOfOneTree
<1>1. Init => Inventoried BY DEF Init, Inventoried, Sighted, OfOneTree
<1>2. Inventoried => InventoryOfOneTree
  BY DEF Inventoried, InventoryOfOneTree, Shared, OfOneTree
<1>. QED BY <1>1, <1>2, Beginning, Consecution, InventoryFollows, PTL DEF Spec

=============================================================================
