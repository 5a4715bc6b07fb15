--------------------------- MODULE JobQueueProofs ---------------------------
(***************************************************************************)
(* Proofs about JobQueue, for any numbers of jobs, workers and requests,   *)
(* any stages and any bounds.                                              *)
(*                                                                         *)
(* The argument: a unit of work can be flushed onto a row other than the   *)
(* one it was computed from, so nothing is known of the old row when it    *)
(* commits.  Sound says what can be told of its columns all the same, and  *)
(* that is enough for the invariants about the table.                      *)
(***************************************************************************)
EXTENDS JobQueue, TLAPS

-----------------------------------------------------------------------------
(***************************************************************************)
(* Rows and updates have their types.                                      *)
(***************************************************************************)

\* A claimed row is a row.
LEMMA ClaimedType ==
  ASSUME NEW r \in Row, NEW w \in Worker PROVE Claimed(r, w) \in Row
<1> DEFINE n == r.attempts + 1
<1>1. n \in Nat BY DEF Row
<1> HIDE DEF n
<1>2. [r EXCEPT !.status = "running", !.attempts = n, !.locked_by = w,
                !.heartbeat_at = "fresh", !.completed_at = FALSE] \in Row
  BY <1>1 DEF Row, Status, Active, Terminal, Heartbeat
<1> QED BY <1>2 DEF Claimed, n

\* Dating a row leaves it a row.
LEMMA DatedType ==
  ASSUME NEW r \in Row, NEW h \in Heartbeat
  PROVE  [r EXCEPT !.heartbeat_at = h] \in Row
BY DEF Row

\* The empty row and the empty unit of work have their types.
LEMMA NoRowType == NoRow \in Row /\ NoUpdate \in Update
BY DEF NoRow, NoUpdate, Row, Update, Event, Status, Heartbeat

\* What each handler stages is a unit of work.
LEMMA EnqueueType ==
  ASSUME NEW limit \in Nat, NEW t \in Nat
  PROVE  EnqueueUpdate(limit, t) \in Update
<1>1. Enqueued(limit, t) \in Row
  BY NoRowType DEF Enqueued, Row, Status, Active
<1> QED BY <1>1, NoRowType DEF EnqueueUpdate, Update, Event

\* What recover_stale_jobs stages is a unit of work.
LEMMA RecoverType ==
  ASSUME NEW r \in Row, NEW t \in Nat
  PROVE  RecoverUpdate(r, t) \in Update
<1>1. Recovered(r, t) \in Row
  BY DEF Recovered, Row, Status, Active, Terminal, Heartbeat
<1> QED BY <1>1 DEF RecoverUpdate, Update, Event, Stampable

\* What request_cancel stages is a unit of work.
LEMMA CancelType ==
  ASSUME NEW r \in Row PROVE CancelUpdate(r) \in Update
<1>1. CancelRequested(r) \in Row
  BY DEF CancelRequested, Row, Status, Active, Terminal
<1> QED BY <1>1 DEF CancelUpdate, Update, Event, Stampable

\* What retry_job stages is a unit of work.
LEMMA RetryType ==
  ASSUME NEW r \in Row, NEW t \in Nat PROVE RetryUpdate(r, t) \in Update
<1> DEFINE m == IF OutOfAttempts(r) THEN r.attempts + RetryGrant
                                    ELSE r.max_attempts
<1>1. m \in Nat BY JobRowAssumption DEF Row
<1> HIDE DEF m
<1>2. [r EXCEPT !.max_attempts = m, !.attempts = 0, !.status = "queued",
                !.cancel_requested = FALSE, !.queued_at = t,
                !.completed_at = FALSE, !.locked_by = NoWorker,
                !.heartbeat_at = "none"] \in Row
  BY <1>1 DEF Row, Status, Active, Heartbeat
<1>3. Retried(r, t) \in Row BY <1>2 DEF Retried, m
<1> QED BY <1>3 DEF RetryUpdate, Update, Event

\* What the _mark functions stage is a unit of work.
LEMMA FinishType ==
  ASSUME NEW r \in Row, NEW result \in Terminal
  PROVE  FinishUpdate(r, result) \in Update
<1>1. Finished(r, result) \in Row
  BY DEF Finished, Row, Status, Terminal, Heartbeat
<1> QED BY <1>1 DEF FinishUpdate, Update, Event, Stampable, Terminal

\* A flushed row is a row: each column comes from one of two rows.
LEMMA FlushType ==
  ASSUME NEW r \in Row, NEW u \in Update PROVE Flush(r, u) \in Row
BY DEF Flush, Row, Update

\* A commit leaves the table and the sessions well typed.
CommitTypes(a) ==
  /\ jobs' \in [Job -> Row] /\ tickets' \in [Job -> Nat]
  /\ pending' \in [Actor -> [Job -> Update]]
  /\ starts' = starts /\ now' = now

\* A commit leaves rows, tickets and units of work of their types.
LEMMA CommitType ==
  ASSUME TypeOK, NEW a \in Actor, Commit(a) PROVE CommitTypes(a)
<1>1. ASSUME NEW j \in Job
      PROVE  (IF InFlight(a, j) THEN Flush(jobs[j], pending[a][j]) ELSE jobs[j])
               \in Row
  BY FlushType DEF TypeOK
<1>2. jobs' \in [Job -> Row] BY <1>1 DEF Commit
<1>3. tickets' \in [Job -> Nat] BY DEF Commit, TypeOK
<1>4. NothingPending \in [Job -> Update] BY NoRowType DEF NothingPending
<1>5. pending' \in [Actor -> [Job -> Update]] BY <1>4 DEF Commit, TypeOK
<1> QED BY <1>2, <1>3, <1>5 DEF CommitTypes, Commit

-----------------------------------------------------------------------------
(***************************************************************************)
(* Type correctness.                                                       *)
(***************************************************************************)

\* The steps of a worker that belong to the queue.
LEMMA QueueStepsType ==
  ASSUME TypeOK, StagesLeft, NEW w \in Worker,
         Boot(w) \/ ScanStale(w) \/ LoadStale(w) \/ CommitRecovery(w)
           \/ CandidateFound(w) \/ NoCandidate(w) \/ ClaimWon(w) \/ ClaimLost(w)
  PROVE  TypeOK'
<1> USE DEF Goto, table, threads, PC, Executing
<1>1. CASE Boot(w) BY <1>1 DEF TypeOK, Boot
<1>2. CASE ScanStale(w) BY <1>2 DEF TypeOK, ScanStale, StaleJobs
<1>3. CASE LoadStale(w)
  <2>1. PICK j \in todo[w] :
          /\ Goto(w, "load", IF todo[w] = {j} THEN "recover" ELSE "load")
          /\ todo' = [todo EXCEPT ![w] = @ \ {j}]
          /\ Stage(w, j, RecoverUpdate(jobs[j], now + 1))
          /\ now' = now + 1
          /\ UNCHANGED <<jobs, tickets, starts, cur, stage, outcome, beating,
                         beats, retries>>
    BY <1>3 DEF LoadStale
  <2>2. j \in Job /\ w \in Actor /\ jobs[j] \in Row /\ now + 1 \in Nat
    BY DEF TypeOK, Actor
  <2>3. RecoverUpdate(jobs[j], now + 1) \in Update BY <2>2, RecoverType
  <2>4. pending' \in [Actor -> [Job -> Update]]
    BY <2>1, <2>2, <2>3 DEF TypeOK, Stage
  <2> QED BY <2>1, <2>2, <2>4 DEF TypeOK
<1>4. CASE CommitRecovery(w)
  <2>1. w \in Actor BY DEF Actor
  <2>2. CommitTypes(w) BY <1>4, <2>1, CommitType DEF CommitRecovery
  <2> QED BY <1>4, <2>2 DEF TypeOK, CommitRecovery, CommitTypes
<1>5. CASE CandidateFound(w)
  <2>1. PICK j \in Candidates :
          /\ Goto(w, "select", "claim")
          /\ cur' = [cur EXCEPT ![w] = j]
          /\ UNCHANGED <<table, pending, todo, stage, outcome, beating, beats,
                         retries>>
    BY <1>5 DEF CandidateFound
  <2>2. j \in Job /\ j # NoJob
    BY JobQueueAssumption DEF Candidates, Eligible
  <2> QED BY <2>1, <2>2 DEF TypeOK
<1>6. CASE NoCandidate(w) BY <1>6 DEF TypeOK, NoCandidate
<1>7. CASE ClaimWon(w)
  <2>1. cur[w] \in Job BY <1>7, JobQueueAssumption DEF TypeOK, ClaimWon
  <2>2. Claimed(jobs[cur[w]], w) \in Row BY <2>1, ClaimedType DEF TypeOK
  <2>3. jobs' \in [Job -> Row] BY <1>7, <2>1, <2>2 DEF TypeOK, ClaimWon
  <2>4. starts' \in [Job -> Nat] BY <1>7, <2>1 DEF TypeOK, ClaimWon
  <2> QED BY <1>7, <2>1, <2>3, <2>4 DEF TypeOK, ClaimWon
<1>8. CASE ClaimLost(w) BY <1>8 DEF TypeOK, ClaimLost
<1> QED BY <1>1, <1>2, <1>3, <1>4, <1>5, <1>6, <1>7, <1>8

\* The steps of a worker's pipeline.
LEMMA PipelineStepsType ==
  ASSUME TypeOK, StagesLeft, NEW w \in Worker,
         Progress(w) \/ CheckCancel(w) \/ RaiseError(w) \/ LoadFinish(w)
           \/ CommitFinish(w)
  PROVE  TypeOK'
<1> USE DEF Goto, table, threads, PC, Executing
<1> w \in Actor BY DEF Actor
<1>1. CASE Progress(w)
  <2>1. cur[w] \in Job BY <1>1 DEF TypeOK, Progress
  <2>2. [jobs[cur[w]] EXCEPT !.heartbeat_at = "fresh"] \in Row
    BY <2>1, DatedType DEF TypeOK, Heartbeat
  <2>3. jobs' \in [Job -> Row] BY <1>1, <2>1, <2>2 DEF TypeOK, Progress
  <2>4. stage[w] + 1 \in 0..Stages
    BY <1>1, JobQueueAssumption DEF TypeOK, StagesLeft, Progress
  <2>5. stage' \in [Worker -> 0..Stages] BY <1>1, <2>4 DEF TypeOK, Progress
  <2> QED BY <1>1, <2>3, <2>5 DEF TypeOK, Progress
<1>2. CASE CheckCancel(w)
  BY <1>2 DEF TypeOK, CheckCancel, Finish, Terminal
<1>3. CASE RaiseError(w) BY <1>3 DEF TypeOK, RaiseError, Finish, Terminal
<1>4. CASE LoadFinish(w)
  <2>1. cur[w] \in Job BY <1>4 DEF TypeOK, LoadFinish
  <2>2. FinishUpdate(jobs[cur[w]], outcome[w]) \in Update
    BY <2>1, FinishType DEF TypeOK
  <2>3. pending' \in [Actor -> [Job -> Update]]
    BY <1>4, <2>1, <2>2 DEF TypeOK, LoadFinish, Stage
  <2> QED BY <1>4, <2>3 DEF TypeOK, LoadFinish
<1>5. CASE CommitFinish(w)
  <2>1. CommitTypes(w) BY <1>5, CommitType DEF CommitFinish
  <2>2. 0 \in 0..Stages /\ "failed" \in Terminal
    BY JobQueueAssumption DEF Terminal
  <2> QED BY <1>5, <2>1, <2>2 DEF TypeOK, CommitFinish, CommitTypes, ForgetRun
<1> QED BY <1>1, <1>2, <1>3, <1>4, <1>5

\* Heartbeats, time and crashes.
LEMMA OtherStepsType ==
  ASSUME TypeOK, StagesLeft,
         \/ \E w \in Worker : Crash(w) \/ ReadHeartbeat(w) \/ WriteHeartbeat(w)
         \/ \E j \in Job : Expire(j)
  PROVE  TypeOK'
<1> USE DEF table, threads, PC, Executing
<1>1. ASSUME NEW w \in Worker, Crash(w) PROVE TypeOK'
  <2>1. NothingPending \in [Job -> Update] BY NoRowType DEF NothingPending
  <2>2. 0 \in 0..Stages /\ "failed" \in Terminal
    BY JobQueueAssumption DEF Terminal
  <2> QED BY <1>1, <2>1, <2>2 DEF TypeOK, Crash, ForgetRun
<1>2. ASSUME NEW w \in Worker, ReadHeartbeat(w) PROVE TypeOK'
  <2>1. CASE beats' = beats BY <1>2, <2>1 DEF TypeOK, ReadHeartbeat
  <2>2. CASE beats' # beats
    <3>1. beating[w] /\ beats' = beats \cup {<<w, cur[w]>>} /\ beating' = beating
      BY <1>2, <2>2 DEF ReadHeartbeat
    <3>2. cur[w] \in Job BY <3>1 DEF TypeOK
    <3> QED BY <1>2, <3>1, <3>2 DEF TypeOK, ReadHeartbeat
  <2> QED BY <2>1, <2>2
<1>3. ASSUME NEW w \in Worker, WriteHeartbeat(w) PROVE TypeOK'
  <2>1. \A j \in Job : [jobs[j] EXCEPT !.heartbeat_at = "fresh"] \in Row
    BY DatedType DEF TypeOK, Heartbeat
  <2> QED BY <1>3, <2>1 DEF TypeOK, WriteHeartbeat
<1>4. ASSUME NEW j \in Job, Expire(j) PROVE TypeOK'
  <2>1. [jobs[j] EXCEPT !.heartbeat_at = "stale"] \in Row
    BY DatedType DEF TypeOK, Heartbeat
  <2> QED BY <1>4, <2>1 DEF TypeOK, Expire
<1> QED BY <1>1, <1>2, <1>3, <1>4

\* API requests.
LEMMA RequestStepsType ==
  ASSUME TypeOK, NEW c \in Client,
         \/ CommitRequest(c)
         \/ \E j \in Job : EnqueueJob(c, j) \/ RequestCancel(c, j) \/ RetryJob(c, j)
  PROVE  TypeOK'
<1> USE DEF table, threads
<1> c \in Actor BY DEF Actor
<1>1. CASE CommitRequest(c)
  <2>1. CommitTypes(c) BY <1>1, CommitType DEF CommitRequest
  <2> QED BY <1>1, <2>1 DEF TypeOK, CommitRequest, CommitTypes
<1>2. ASSUME NEW j \in Job, EnqueueJob(c, j) PROVE TypeOK'
  <2>1. PICK limit \in AttemptLimits : Stage(c, j, EnqueueUpdate(limit, now + 1))
    BY <1>2 DEF EnqueueJob
  <2>2. limit \in Nat /\ now + 1 \in Nat BY JobQueueAssumption DEF TypeOK
  <2>3. EnqueueUpdate(limit, now + 1) \in Update BY <2>2, EnqueueType
  <2>4. pending' \in [Actor -> [Job -> Update]]
    BY <2>1, <2>3 DEF TypeOK, Stage
  <2> QED BY <1>2, <2>2, <2>4 DEF TypeOK, EnqueueJob
<1>3. ASSUME NEW j \in Job, RequestCancel(c, j) PROVE TypeOK'
  <2>1. CancelUpdate(jobs[j]) \in Update BY CancelType DEF TypeOK
  <2>2. pending' \in [Actor -> [Job -> Update]]
    BY <1>3, <2>1 DEF TypeOK, Stage, RequestCancel
  <2> QED BY <1>3, <2>2 DEF TypeOK, RequestCancel
<1>4. ASSUME NEW j \in Job, RetryJob(c, j) PROVE TypeOK'
  <2>1. now + 1 \in Nat /\ retries + 1 \in Nat BY DEF TypeOK
  <2>2. RetryUpdate(jobs[j], now + 1) \in Update BY <2>1, RetryType DEF TypeOK
  <2>3. pending' \in [Actor -> [Job -> Update]]
    BY <1>4, <2>2 DEF TypeOK, Stage, RetryJob
  <2> QED BY <1>4, <2>1, <2>3 DEF TypeOK, RetryJob
<1> QED BY <1>1, <1>2, <1>3, <1>4

\* No stage is left when the pipeline has made all its calls.
LEMMA StagesStep ==
  ASSUME TypeOK, StagesLeft, [Next]_vars PROVE StagesLeft'
<1> USE DEF StagesLeft, Goto, threads, Executing, ForgetRun
<1>1. CASE UNCHANGED vars BY <1>1 DEF vars
<1>2. ASSUME NEW w \in Worker, MainThread(w) PROVE StagesLeft'
  <2>1. CASE ScanStale(w)
    <3>1. \/ pc' = [pc EXCEPT ![w] = "select"]
          \/ pc' = [pc EXCEPT ![w] = "load"]
      BY <2>1 DEF ScanStale
    <3>2. pc[w] = "idle" /\ stage' = stage BY <2>1 DEF ScanStale
    <3>3. pc \in [Worker -> PC] BY DEF TypeOK
    <3> QED BY <3>1, <3>2, <3>3
  <2>2. CASE LoadStale(w) BY <2>2 DEF LoadStale
  <2>3. CASE CommitRecovery(w) BY <2>3 DEF CommitRecovery
  <2>4. CASE CandidateFound(w) BY <2>4 DEF CandidateFound
  <2>5. CASE NoCandidate(w) BY <2>5 DEF NoCandidate
  <2>6. CASE ClaimWon(w)
    <3>1. 0 < Stages BY JobQueueAssumption
    <3>2. stage[w] = 0 BY <2>6 DEF ClaimWon
    <3>3. pc' = [pc EXCEPT ![w] = "work"] /\ stage' = stage BY <2>6 DEF ClaimWon
    <3>4. pc \in [Worker -> PC] BY DEF TypeOK
    <3> QED BY <3>1, <3>2, <3>3, <3>4
  <2>7. CASE ClaimLost(w) BY <2>7 DEF ClaimLost
  <2>8. CASE Progress(w)
    BY <2>8, JobQueueAssumption DEF Progress, TypeOK
  <2>9. CASE CheckCancel(w)
    <3>1. CASE pc' = [pc EXCEPT ![w] = "finish"] /\ stage' = stage
      BY <2>9, <3>1 DEF CheckCancel
    <3>2. CASE /\ pc' = [pc EXCEPT ![w] = "work"] /\ stage' = stage
               /\ stage[w] # Stages
      <4>1. stage[w] < Stages BY <3>2, JobQueueAssumption DEF TypeOK
      <4> QED BY <2>9, <3>2, <4>1 DEF CheckCancel
    <3> QED BY <2>9, <3>1, <3>2 DEF CheckCancel, Finish, LastStage
  <2>10. CASE RaiseError(w)
    <3>1. pc' = [pc EXCEPT ![w] = "finish"] /\ stage' = stage
      BY <2>10 DEF RaiseError, Finish
    <3> QED BY <3>1
  <2>11. CASE LoadFinish(w) BY <2>11 DEF LoadFinish
  <2>12. CASE CommitFinish(w) BY <2>12 DEF CommitFinish, TypeOK
  <2> QED BY <1>2, <2>1, <2>2, <2>3, <2>4, <2>5, <2>6, <2>7, <2>8, <2>9, <2>10,
             <2>11, <2>12 DEF MainThread
<1>3. ASSUME NEW w \in Worker,
             Boot(w) \/ Crash(w) \/ ReadHeartbeat(w) \/ WriteHeartbeat(w)
      PROVE  StagesLeft'
  BY <1>3 DEF Boot, Crash, ReadHeartbeat, WriteHeartbeat, TypeOK
<1>4. ASSUME NEW j \in Job, Expire(j)
      PROVE  StagesLeft'
  BY <1>4 DEF Expire
<1>5. ASSUME NEW c \in Client,
             \/ CommitRequest(c)
             \/ \E j \in Job : \/ EnqueueJob(c, j)
                               \/ RequestCancel(c, j)
                               \/ RetryJob(c, j)
      PROVE  StagesLeft'
  BY <1>5 DEF CommitRequest, EnqueueJob, RequestCancel, RetryJob
<1> QED BY <1>1, <1>2, <1>3, <1>4, <1>5 DEF Next

\* No step of a worker, of a request or of time leaves the types.
LEMMA TypeStep ==
  ASSUME TypeOK, StagesLeft, [Next]_vars PROVE TypeOK'
<1>1. CASE UNCHANGED vars
  BY <1>1 DEF vars, table, threads, TypeOK
<1>2. CASE Next
  BY <1>2, QueueStepsType, PipelineStepsType, OtherStepsType, RequestStepsType
  DEF Next, MainThread
<1> QED BY <1>1, <1>2

\* Every variable keeps its type and every worker's bookkeeping agrees: it has
\* a job exactly from its candidate query to the commit of the outcome, and a
\* heartbeat thread only within process(); no stage is asked for twice.
THEOREM TypeCorrect == Spec => []TypeOK
<1>1. Init => TypeOK /\ StagesLeft
  BY NoRowType, JobQueueAssumption
  DEF Init, TypeOK, StagesLeft, NothingPending, PC, Executing, Terminal
<1>2. TypeOK /\ StagesLeft /\ [Next]_vars => TypeOK' /\ StagesLeft'
  BY TypeStep, StagesStep
<1> QED BY <1>1, <1>2, PTL DEF Spec

-----------------------------------------------------------------------------
(***************************************************************************)
(* Units of work are sound.                                                *)
(***************************************************************************)

\* Staging a sound unit of work, or forgetting some, keeps them all sound.
LEMMA StageSound ==
  ASSUME TypeOK, PendingIsSound, NEW a \in Actor, NEW j \in Job, NEW u,
         Stage(a, j, u), Sound(u)
  PROVE  PendingIsSound'
BY DEF TypeOK, PendingIsSound, Stage

\* A session with nothing pending is sound.
LEMMA ForgetSound ==
  ASSUME TypeOK, PendingIsSound, NEW a \in Actor,
         pending' = [pending EXCEPT ![a] = NothingPending]
  PROVE  PendingIsSound'
<1>1. Sound(NoUpdate) BY DEF Sound, NoUpdate, NoRow, Terminal
<1>2. \A j \in Job : NothingPending[j] = NoUpdate BY DEF NothingPending
<1> QED BY <1>1, <1>2 DEF TypeOK, PendingIsSound

\* What each handler stages is sound.
LEMMA EnqueueSound ==
  ASSUME NEW limit \in Nat, NEW t \in Nat
  PROVE  Sound(EnqueueUpdate(limit, t))
BY DEF Sound, EnqueueUpdate, Enqueued, NoRow, Terminal

\* Recovery may be committed over any row: see Sound.
LEMMA RecoverSound ==
  ASSUME NEW r \in Row, NEW t \in Nat PROVE Sound(RecoverUpdate(r, t))
BY DEF Sound, RecoverUpdate, Recovered, Row, Terminal

\* So may a cancellation,
LEMMA CancelSound ==
  ASSUME NEW r \in Row, r.status \in Active PROVE Sound(CancelUpdate(r))
BY DEF Sound, CancelUpdate, CancelRequested, Row, Active, Terminal

\* a retry,
LEMMA RetrySound ==
  ASSUME NEW r \in Row, NEW t \in Nat, r.status \in Retryable
  PROVE  Sound(RetryUpdate(r, t))
BY DEF Sound, RetryUpdate, Retried, Retryable, Row, Terminal

\* and the outcome of an execution.
LEMMA FinishSound ==
  ASSUME NEW r \in Row, NEW result \in Terminal
  PROVE  Sound(FinishUpdate(r, result))
BY DEF Sound, FinishUpdate, Finished, Row, Terminal, Stampable

\* Every step leaves only sound units of work pending.
LEMMA SoundStep ==
  ASSUME TypeOK, PendingIsSound, [Next]_vars PROVE PendingIsSound'
<1> USE DEF table, threads
<1>1. CASE UNCHANGED pending BY <1>1 DEF PendingIsSound
<1>2. ASSUME NEW a \in Actor, Commit(a) PROVE PendingIsSound'
  BY <1>2, ForgetSound DEF Commit
<1>3. ASSUME NEW w \in Worker, LoadStale(w) PROVE PendingIsSound'
  <2>1. PICK j \in todo[w] : Stage(w, j, RecoverUpdate(jobs[j], now + 1))
    BY <1>3 DEF LoadStale
  <2>2. j \in Job /\ w \in Actor /\ jobs[j] \in Row /\ now + 1 \in Nat
    BY DEF TypeOK, Actor
  <2> QED BY <2>1, <2>2, RecoverSound, StageSound
<1>4. ASSUME NEW w \in Worker, LoadFinish(w) PROVE PendingIsSound'
  <2>1. w \in Actor /\ cur[w] \in Job /\ outcome[w] \in Terminal
    BY <1>4 DEF Actor, TypeOK, LoadFinish, Goto, Executing
  <2>2. Sound(FinishUpdate(jobs[cur[w]], outcome[w]))
    BY <2>1, FinishSound DEF TypeOK
  <2> QED BY <1>4, <2>1, <2>2, StageSound DEF LoadFinish
<1>5. ASSUME NEW w \in Worker, Crash(w) PROVE PendingIsSound'
  BY <1>5, ForgetSound DEF Crash, Actor
<1>6. ASSUME NEW c \in Client, NEW j \in Job, EnqueueJob(c, j)
      PROVE  PendingIsSound'
  <2>1. PICK limit \in AttemptLimits : Stage(c, j, EnqueueUpdate(limit, now + 1))
    BY <1>6 DEF EnqueueJob
  <2>2. limit \in Nat /\ now + 1 \in Nat BY JobQueueAssumption DEF TypeOK
  <2> QED BY <2>1, <2>2, EnqueueSound, StageSound DEF Actor
<1>7. ASSUME NEW c \in Client, NEW j \in Job, RequestCancel(c, j)
      PROVE  PendingIsSound'
  BY <1>7, CancelSound, StageSound DEF RequestCancel, Actor, TypeOK
<1>8. ASSUME NEW c \in Client, NEW j \in Job, RetryJob(c, j)
      PROVE  PendingIsSound'
  <2>1. Sound(RetryUpdate(jobs[j], now + 1))
    BY <1>8, RetrySound DEF RetryJob, TypeOK
  <2> QED BY <1>8, <2>1, StageSound DEF RetryJob, Actor
<1>9. CASE UNCHANGED vars BY <1>1, <1>9 DEF vars
<1>10. ASSUME NEW w \in Worker, MainThread(w) PROVE PendingIsSound'
  <2>1. ASSUME CommitRecovery(w) \/ CommitFinish(w) PROVE PendingIsSound'
    BY <1>2, <2>1 DEF CommitRecovery, CommitFinish, Actor
  <2>2. ASSUME \/ ScanStale(w) \/ CandidateFound(w) \/ NoCandidate(w)
               \/ ClaimWon(w) \/ ClaimLost(w) \/ Progress(w)
               \/ CheckCancel(w) \/ RaiseError(w)
        PROVE  PendingIsSound'
    BY <1>1, <2>2 DEF ScanStale, CandidateFound, NoCandidate, ClaimWon,
       ClaimLost, Progress, CheckCancel, RaiseError, Finish
  <2> QED BY <1>3, <1>4, <1>10, <2>1, <2>2 DEF MainThread
<1>11. ASSUME NEW w \in Worker, Boot(w) \/ ReadHeartbeat(w) \/ WriteHeartbeat(w)
       PROVE  PendingIsSound'
  BY <1>1, <1>11 DEF Boot, ReadHeartbeat, WriteHeartbeat
<1>12. ASSUME NEW j \in Job, Expire(j)
       PROVE  PendingIsSound'
  BY <1>1, <1>12 DEF Expire
<1>13. ASSUME NEW c \in Client, CommitRequest(c) PROVE PendingIsSound'
  BY <1>2, <1>13 DEF CommitRequest, Actor
<1> QED BY <1>5, <1>6, <1>7, <1>8, <1>9, <1>10, <1>11, <1>12, <1>13 DEF Next

-----------------------------------------------------------------------------
(***************************************************************************)
(* What a step does to the table.                                          *)
(***************************************************************************)

\* What the commit of a sound unit of work does to a row.
CommitMoves(j) ==
  /\ jobs'[j].status = "running" => jobs[j].status = "running"
  /\ jobs'[j].status = "queued" /\ jobs[j].status # "queued"
       => tickets'[j] = tickets[j] + 1
  /\ tickets'[j] \in {tickets[j], tickets[j] + 1}
  /\ (jobs[j].status \in Terminal => jobs[j].completed_at)
       => (jobs'[j].status \in Terminal => jobs'[j].completed_at)
  /\ jobs'[j].locked_by \in {NoWorker, jobs[j].locked_by}

\* Which status a commit can give a row, and what else it then did.
LEMMA FlushMoves ==
  ASSUME NEW r \in Row, NEW u \in Update, Sound(u)
  PROVE  LET s == Flush(r, u) IN
         /\ s.status = "running" => r.status = "running"
         /\ s.status = "queued" /\ r.status # "queued"
              => u.event \in {"queued", "requeued", "retried"}
         /\ (r.status \in Terminal => r.completed_at)
              => (s.status \in Terminal => s.completed_at)
         /\ s.locked_by \in {NoWorker, r.locked_by}
<1> DEFINE s == Flush(r, u)
<1>1. /\ s.status = IF u.new.status # u.old.status THEN u.new.status ELSE r.status
      /\ s.completed_at =
           IF \/ "completed_at" \in u.stamped
              \/ u.new.completed_at # u.old.completed_at
           THEN u.new.completed_at ELSE r.completed_at
      /\ s.locked_by = IF u.new.locked_by # u.old.locked_by
                       THEN u.new.locked_by ELSE r.locked_by
  BY DEF Flush, Row, Update, Stampable
<1>2. /\ u.new.completed_at \in BOOLEAN /\ u.old.completed_at \in BOOLEAN
      /\ r.completed_at \in BOOLEAN
  BY DEF Row, Update
<1>3. s.status = "running" => r.status = "running" BY <1>1 DEF Sound
<1>4. s.status = "queued" /\ r.status # "queued"
        => u.event \in {"queued", "requeued", "retried"}
  BY <1>1 DEF Sound
<1>5. ASSUME r.status \in Terminal => r.completed_at, s.status \in Terminal
      PROVE  s.completed_at
  <2>1. CASE u.new.status # u.old.status
    BY <1>1, <1>5, <2>1 DEF Sound
  <2>2. CASE u.new.status = u.old.status
    <3>1. r.completed_at BY <1>1, <1>5, <2>2
    <3>2. u.old.completed_at => u.new.completed_at BY <1>2, <2>2 DEF Sound
    <3>3. CASE u.new.completed_at BY <1>1, <3>1, <3>3
    <3>4. CASE ~u.new.completed_at
      BY <1>1, <1>2, <3>1, <3>2, <3>4 DEF Sound
    <3> QED BY <3>3, <3>4
  <2> QED BY <2>1, <2>2
<1>6. s.locked_by \in {NoWorker, r.locked_by} BY <1>1 DEF Sound
<1> QED BY <1>3, <1>4, <1>5, <1>6

\* How one commit may move one row.
LEMMA CommitRow ==
  ASSUME TypeOK, PendingIsSound, NEW a \in Actor, Commit(a), NEW j \in Job
  PROVE  CommitMoves(j)
<1>1. jobs[j] \in Row /\ pending[a][j] \in Update /\ Sound(pending[a][j])
  BY DEF TypeOK, PendingIsSound
<1>2. tickets'[j] = IF pending[a][j].event \in {"queued", "requeued", "retried"}
                    THEN tickets[j] + 1 ELSE tickets[j]
  BY DEF Commit
<1>3. CASE InFlight(a, j)
  <2>1. jobs'[j] = Flush(jobs[j], pending[a][j]) BY <1>3 DEF Commit
  <2> QED BY <1>1, <1>2, <2>1, FlushMoves DEF CommitMoves
<1>4. CASE ~InFlight(a, j)
  <2>1. jobs'[j] = jobs[j] BY <1>4 DEF Commit
  <2> QED BY <1>2, <2>1 DEF CommitMoves
<1> QED BY <1>3, <1>4

\* A step that only dates the row of one job.
Dates(j, h) == /\ jobs' = [jobs EXCEPT ![j].heartbeat_at = h]
               /\ UNCHANGED <<tickets, starts>>

TableSteps ==
  \/ UNCHANGED <<jobs, tickets, starts>>
  \/ \E j \in Job, h \in Heartbeat : Dates(j, h)
  \/ \E w \in Worker : ClaimWon(w)
  \/ \E a \in Actor : Commit(a)

\* So it does at every step: the table changes by claims and commits only.
LEMMA TableStep == ASSUME TypeOK, [Next]_vars PROVE TableSteps
<1> USE DEF table, threads, TableSteps
<1>1. CASE UNCHANGED vars BY <1>1 DEF vars
<1>2. ASSUME NEW w \in Worker, MainThread(w) PROVE TableSteps
  <2>1. CASE Progress(w)
    <3>1. cur[w] \in Job BY <2>1 DEF TypeOK, Progress, Goto, Executing
    <3>2. Dates(cur[w], "fresh") BY <2>1 DEF Progress, Dates
    <3> QED BY <3>1, <3>2 DEF Heartbeat
  <2>2. CASE CommitRecovery(w) \/ CommitFinish(w)
    BY <2>2 DEF CommitRecovery, CommitFinish, Actor
  <2> QED
    BY <1>2, <2>1, <2>2 DEF MainThread, ScanStale, LoadStale, CandidateFound,
       NoCandidate, ClaimLost, CheckCancel, RaiseError, Finish, LoadFinish
<1>3. ASSUME NEW w \in Worker, WriteHeartbeat(w) PROVE TableSteps
  <2>1. PICK j \in Job : Dates(j, "fresh") BY <1>3 DEF WriteHeartbeat, Dates
  <2> QED BY <2>1 DEF Heartbeat
<1>4. ASSUME NEW w \in Worker, Boot(w) \/ Crash(w) \/ ReadHeartbeat(w)
      PROVE  TableSteps
  BY <1>4 DEF Boot, Crash, ReadHeartbeat
<1>5. ASSUME NEW j \in Job, Expire(j)
      PROVE  TableSteps
  <2>1. Dates(j, "stale")
    BY <1>5 DEF Expire, Dates
  <2> QED BY <2>1 DEF Heartbeat
<1>6. ASSUME NEW c \in Client, CommitRequest(c) PROVE TableSteps
  BY <1>6 DEF CommitRequest, Actor
<1>7. ASSUME NEW c \in Client, NEW j \in Job,
             EnqueueJob(c, j) \/ RequestCancel(c, j) \/ RetryJob(c, j)
      PROVE  TableSteps
  BY <1>7 DEF EnqueueJob, RequestCancel, RetryJob
<1> QED BY <1>1, <1>2, <1>3, <1>4, <1>5, <1>6, <1>7 DEF Next

\* Dating a row changes nothing else, a claim what it says.
LEMMA DatesRow ==
  ASSUME TypeOK, NEW j \in Job, NEW h \in Heartbeat, Dates(j, h), NEW k \in Job
  PROVE  /\ jobs'[k].status = jobs[k].status
         /\ jobs'[k].completed_at = jobs[k].completed_at
         /\ jobs'[k].locked_by = jobs[k].locked_by
BY DEF TypeOK, Dates, Row

\* The conditional UPDATE takes its row out of the queue.
LEMMA ClaimRow ==
  ASSUME TypeOK, NEW w \in Worker, ClaimWon(w)
  PROVE  /\ cur[w] \in Job
         /\ jobs[cur[w]].status = "queued" /\ ~jobs[cur[w]].cancel_requested
         /\ jobs'[cur[w]].status = "running" /\ jobs'[cur[w]].locked_by = w
         /\ \A k \in Job : k # cur[w] => jobs'[k] = jobs[k]
<1>1. cur[w] \in Job BY DEF TypeOK, ClaimWon, Goto
<1>2. jobs[cur[w]] \in Row BY <1>1 DEF TypeOK
<1>3. /\ jobs'[cur[w]] = Claimed(jobs[cur[w]], w)
      /\ \A k \in Job : k # cur[w] => jobs'[k] = jobs[k]
  BY <1>1 DEF TypeOK, ClaimWon
<1>4. /\ Claimed(jobs[cur[w]], w).status = "running"
      /\ Claimed(jobs[cur[w]], w).locked_by = w
  BY <1>2 DEF Claimed, Row
<1> QED BY <1>1, <1>3, <1>4 DEF ClaimWon, Claimable

-----------------------------------------------------------------------------
(***************************************************************************)
(* Tickets, completion dates and locks.                                    *)
(***************************************************************************)

\* The number of executions stays behind the number of tickets.
LEMMA TicketStep ==
  ASSUME TypeOK, PendingIsSound, ClaimsAreTicketed, [Next]_vars
  PROVE  ClaimsAreTicketed'
<1> USE DEF ClaimsAreTicketed
<1>1. CASE UNCHANGED <<jobs, tickets, starts>> BY <1>1
<1>2. ASSUME NEW j \in Job, NEW h \in Heartbeat, Dates(j, h)
      PROVE  ClaimsAreTicketed'
  BY <1>2, DatesRow DEF Dates
<1>3. ASSUME NEW w \in Worker, ClaimWon(w) PROVE ClaimsAreTicketed'
  <2> SUFFICES ASSUME NEW k \in Job
               PROVE  IF jobs'[k].status = "queued" THEN starts'[k] < tickets'[k]
                                                   ELSE starts'[k] <= tickets'[k]
    OBVIOUS
  <2>1. /\ tickets' = tickets
        /\ starts' = [starts EXCEPT ![cur[w]] = @ + 1]
    BY <1>3 DEF ClaimWon
  <2>2. starts \in [Job -> Nat] /\ tickets \in [Job -> Nat] BY DEF TypeOK
  <2>3. CASE k = cur[w]
    <3>1. starts[k] < tickets[k] /\ starts'[k] = starts[k] + 1
      BY <1>3, <2>1, <2>2, <2>3, ClaimRow
    <3>2. jobs'[k].status # "queued" BY <1>3, <2>3, ClaimRow
    <3>3. starts[k] \in Nat /\ tickets[k] \in Nat BY <2>2
    <3> QED BY <2>1, <3>1, <3>2, <3>3
  <2>4. CASE k # cur[w]
    <3>1. jobs'[k] = jobs[k] BY <1>3, <2>4, ClaimRow
    <3>2. starts'[k] = starts[k] BY <2>1, <2>2, <2>4
    <3> QED BY <2>1, <3>1, <3>2
  <2> QED BY <2>3, <2>4
<1>4. ASSUME NEW a \in Actor, Commit(a) PROVE ClaimsAreTicketed'
  <2> SUFFICES ASSUME NEW k \in Job
               PROVE  IF jobs'[k].status = "queued" THEN starts'[k] < tickets'[k]
                                                   ELSE starts'[k] <= tickets'[k]
    OBVIOUS
  <2>1. CommitMoves(k) BY <1>4, CommitRow
  <2>2. starts'[k] = starts[k] BY <1>4 DEF Commit
  <2>3. starts[k] \in Nat /\ tickets[k] \in Nat BY DEF TypeOK
  <2>4. starts[k] <= tickets[k] /\ tickets[k] <= tickets'[k]
    BY <2>1, <2>3 DEF CommitMoves
  <2>5. CASE jobs'[k].status = "queued" /\ jobs[k].status # "queued"
    BY <2>1, <2>2, <2>3, <2>4, <2>5 DEF CommitMoves
  <2>6. CASE jobs'[k].status = "queued" /\ jobs[k].status = "queued"
    BY <2>1, <2>2, <2>3, <2>6 DEF CommitMoves
  <2>7. CASE jobs'[k].status # "queued"
    BY <2>1, <2>2, <2>3, <2>4, <2>7 DEF CommitMoves
  <2> QED BY <2>5, <2>6, <2>7
<1> QED BY <1>1, <1>2, <1>3, <1>4, TableStep DEF TableSteps

\* A row that becomes or stays terminal has its completion date.
LEMMA TerminalStep ==
  ASSUME TypeOK, PendingIsSound, TerminalRecord, [Next]_vars
  PROVE  TerminalRecord'
<1> USE DEF TerminalRecord
<1>1. CASE UNCHANGED <<jobs, tickets, starts>> BY <1>1
<1>2. ASSUME NEW j \in Job, NEW h \in Heartbeat, Dates(j, h)
      PROVE  TerminalRecord'
  BY <1>2, DatesRow
<1>3. ASSUME NEW w \in Worker, ClaimWon(w) PROVE TerminalRecord'
  BY <1>3, ClaimRow DEF Terminal
<1>4. ASSUME NEW a \in Actor, Commit(a) PROVE TerminalRecord'
  BY <1>4, CommitRow DEF CommitMoves
<1> QED BY <1>1, <1>2, <1>3, <1>4, TableStep DEF TableSteps

\* Only its own claim writes a worker's name into a row, and only its own
\* steps take it out of Executing.
LEMMA NewLock ==
  ASSUME TypeOK, PendingIsSound, [Next]_vars, NEW j \in Job, NEW w \in Worker,
         jobs'[j].locked_by = w
  PROVE  \/ jobs[j].locked_by = w
         \/ ClaimWon(w) /\ cur[w] = j
<1>1. w # NoWorker BY JobRowAssumption
<1>2. CASE UNCHANGED <<jobs, tickets, starts>> BY <1>2
<1>3. ASSUME NEW k \in Job, NEW h \in Heartbeat, Dates(k, h)
      PROVE  jobs[j].locked_by = w
  BY <1>3, DatesRow
<1>4. ASSUME NEW v \in Worker, ClaimWon(v)
      PROVE  jobs[j].locked_by = w \/ (v = w /\ cur[w] = j)
  <2>1. CASE cur[v] = j BY <1>4, <2>1, ClaimRow
  <2>2. CASE cur[v] # j BY <1>4, <2>2, ClaimRow
  <2> QED BY <2>1, <2>2
<1>5. ASSUME NEW a \in Actor, Commit(a) PROVE jobs[j].locked_by = w
  BY <1>1, <1>5, CommitRow DEF CommitMoves
<1> QED BY <1>2, <1>3, <1>4, <1>5, TableStep DEF TableSteps

\* A step of w is a step of no other worker, and an execution ends only with
\* its last commit or with the worker's death.
LEMMA WorkersStep ==
  ASSUME TypeOK, [Next]_vars, NEW w \in Worker, pc[w] \in Executing \cup {"dead"}
  PROVE  \/ pc'[w] = "dead"
         \/ CommitFinish(w)
         \/ pc[w] \in Executing /\ pc'[w] \in Executing /\ cur'[w] = cur[w]
<1> USE DEF Goto, table, threads, Executing
<1>1. CASE UNCHANGED <<pc, cur>> BY <1>1
<1>2. ASSUME NEW v \in Worker, Boot(v) PROVE UNCHANGED <<pc[w], cur>>
  BY <1>2 DEF Boot, TypeOK
<1>3. ASSUME NEW v \in Worker, Crash(v)
      PROVE  pc'[w] = "dead" \/ (pc'[w] = pc[w] /\ cur'[w] = cur[w])
  BY <1>3 DEF Crash, TypeOK
<1>4. ASSUME NEW v \in Worker, MainThread(v), v # w
      PROVE  pc'[w] = pc[w] /\ cur'[w] = cur[w]
  <2>1. CASE ScanStale(v) \/ LoadStale(v) \/ CommitRecovery(v)
    <3>1. PICK p : pc' = [pc EXCEPT ![v] = p]
      BY <2>1 DEF ScanStale, LoadStale, CommitRecovery
    <3> QED BY <1>4, <2>1, <3>1 DEF ScanStale, LoadStale, CommitRecovery, TypeOK
  <2>2. CASE CandidateFound(v) \/ NoCandidate(v) \/ ClaimWon(v) \/ ClaimLost(v)
    BY <1>4, <2>2 DEF CandidateFound, NoCandidate, ClaimWon, ClaimLost, TypeOK
  <2>3. CASE Progress(v)
    <3>1. PICK p : pc' = [pc EXCEPT ![v] = p] BY <2>3 DEF Progress
    <3> QED BY <1>4, <2>3, <3>1 DEF Progress, TypeOK
  <2>4. CASE CheckCancel(v) \/ RaiseError(v)
    BY <1>4, <2>4 DEF CheckCancel, RaiseError, Finish, TypeOK
  <2>5. CASE LoadFinish(v) \/ CommitFinish(v)
    BY <1>4, <2>5 DEF LoadFinish, CommitFinish, TypeOK
  <2> QED BY <1>4, <2>1, <2>2, <2>3, <2>4, <2>5 DEF MainThread
<1>5. ASSUME MainThread(w), ~CommitFinish(w)
      PROVE  pc[w] \in Executing /\ pc'[w] \in Executing /\ cur'[w] = cur[w]
  <2>1. CASE Progress(w)
    <3>1. /\ pc[w] = "work" /\ cur' = cur
          /\ \/ pc' = [pc EXCEPT ![w] = "check"]
             \/ pc' = [pc EXCEPT ![w] = "work"]
      BY <2>1 DEF Progress
    <3> QED BY <3>1 DEF TypeOK
  <2>2. CASE CheckCancel(w) \/ RaiseError(w)
    BY <2>2 DEF CheckCancel, RaiseError, Finish, TypeOK
  <2>3. CASE LoadFinish(w) BY <2>3 DEF LoadFinish, TypeOK
  <2> QED
    BY <1>5, <2>1, <2>2, <2>3 DEF MainThread, ScanStale, LoadStale,
       CommitRecovery, CandidateFound, NoCandidate, ClaimWon, ClaimLost
<1>6. ASSUME NEW v \in Worker, ReadHeartbeat(v) \/ WriteHeartbeat(v)
      PROVE  UNCHANGED <<pc, cur>>
  BY <1>6 DEF ReadHeartbeat, WriteHeartbeat
<1>7. ASSUME NEW j \in Job, Expire(j)
      PROVE  UNCHANGED <<pc, cur>>
  BY <1>7 DEF Expire
<1>8. ASSUME NEW c \in Client,
             \/ CommitRequest(c)
             \/ \E j \in Job : \/ EnqueueJob(c, j)
                               \/ RequestCancel(c, j)
                               \/ RetryJob(c, j)
      PROVE  UNCHANGED <<pc, cur>>
  BY <1>8 DEF CommitRequest, EnqueueJob, RequestCancel, RetryJob
<1>9. CASE UNCHANGED vars BY <1>1, <1>9 DEF vars
<1> QED BY <1>1, <1>2, <1>3, <1>4, <1>5, <1>6, <1>7, <1>8, <1>9 DEF Next

\* How a worker comes to, or stays at, its last commit.
LEMMA AtCommit ==
  ASSUME TypeOK, [Next]_vars, NEW w \in Worker, pc'[w] = "commit"
  PROVE  \/ LoadFinish(w)
         \/ /\ pc[w] = "commit" /\ cur'[w] = cur[w]
            /\ pending'[w] = pending[w]
<1> USE DEF Goto, table, threads
<1> DEFINE Stays == /\ pc[w] = "commit" /\ cur'[w] = cur[w]
                    /\ pending'[w] = pending[w]
<1>1. CASE UNCHANGED <<pc, cur, pending>> BY <1>1
<1>2. ASSUME NEW v \in Worker, Boot(v) PROVE Stays
  BY <1>2 DEF Boot, TypeOK
<1>3. ASSUME NEW v \in Worker, Crash(v) PROVE Stays
  BY <1>3 DEF Crash, TypeOK, Actor
<1>4. ASSUME NEW v \in Worker, MainThread(v) PROVE LoadFinish(w) \/ Stays
  <2>1. CASE ScanStale(v)
    <3>1. PICK p \in {"select", "load"} : pc' = [pc EXCEPT ![v] = p]
      BY <2>1 DEF ScanStale
    <3> QED BY <2>1, <3>1 DEF ScanStale, TypeOK
  <2>2. CASE LoadStale(v)
    <3>1. PICK p \in {"recover", "load"} : pc' = [pc EXCEPT ![v] = p]
      BY <2>2 DEF LoadStale
    <3>2. v # w BY <3>1 DEF TypeOK
    <3> QED BY <2>2, <3>1, <3>2 DEF LoadStale, Stage, TypeOK, Actor
  <2>3. CASE CommitRecovery(v) \/ CommitFinish(v)
    <3>1. v # w BY <2>3 DEF CommitRecovery, CommitFinish, TypeOK
    <3>2. pending'[w] = pending[w]
      BY <2>3, <3>1 DEF CommitRecovery, CommitFinish, Commit, TypeOK, Actor
    <3> QED BY <2>3, <3>1, <3>2 DEF CommitRecovery, CommitFinish, TypeOK
  <2>4. CASE CandidateFound(v) \/ NoCandidate(v) \/ ClaimWon(v) \/ ClaimLost(v)
    BY <2>4 DEF CandidateFound, NoCandidate, ClaimWon, ClaimLost, TypeOK
  <2>5. CASE Progress(v)
    <3>1. PICK p \in {"check", "work"} : pc' = [pc EXCEPT ![v] = p]
      BY <2>5 DEF Progress
    <3> QED BY <2>5, <3>1 DEF Progress, TypeOK
  <2>6. CASE CheckCancel(v) \/ RaiseError(v)
    BY <2>6 DEF CheckCancel, RaiseError, Finish, TypeOK
  <2>7. CASE LoadFinish(v)
    <3>1. CASE v = w BY <2>7, <3>1
    <3>2. CASE v # w BY <2>7, <3>2 DEF LoadFinish, Stage, TypeOK, Actor
    <3> QED BY <3>1, <3>2
  <2> QED BY <1>4, <2>1, <2>2, <2>3, <2>4, <2>5, <2>6, <2>7 DEF MainThread
<1>5. ASSUME NEW v \in Worker, ReadHeartbeat(v) \/ WriteHeartbeat(v) PROVE Stays
  BY <1>5 DEF ReadHeartbeat, WriteHeartbeat
<1>6. ASSUME NEW j \in Job, Expire(j) PROVE Stays
  BY <1>6 DEF Expire
<1>7. ASSUME NEW c \in Client,
             \/ CommitRequest(c)
             \/ \E j \in Job : \/ EnqueueJob(c, j)
                               \/ RequestCancel(c, j)
                               \/ RetryJob(c, j)
      PROVE  Stays
  <2>1. UNCHANGED <<pc, cur>>
    BY <1>7 DEF CommitRequest, EnqueueJob, RequestCancel, RetryJob
  <2>2. c # w BY JobQueueAssumption
  <2>3. pending'[w] = pending[w]
    BY <1>7, <2>2 DEF CommitRequest, Commit, EnqueueJob, RequestCancel, RetryJob,
       Stage, TypeOK, Actor
  <2> QED BY <2>1, <2>3
<1>8. CASE UNCHANGED vars BY <1>1, <1>8 DEF vars
<1> QED BY <1>2, <1>3, <1>4, <1>5, <1>6, <1>7, <1>8 DEF Next

\* The last commit of an execution goes on releasing the lock.
LEMMA ReleaseStep ==
  ASSUME TypeOK, PendingIsSound, FinishReleases, [Next]_vars
  PROVE  FinishReleases'
<1> SUFFICES ASSUME NEW w \in Worker, pc'[w] = "commit"
             PROVE  /\ InFlight(w, cur[w])'
                    /\ pending'[w][cur'[w]].new.locked_by = NoWorker
                    /\ jobs'[cur'[w]].locked_by = w
                         => pending'[w][cur'[w]].old.locked_by = w
  BY DEF FinishReleases
<1>1. CASE LoadFinish(w)
  <2>1. /\ cur[w] \in Job /\ w \in Actor /\ outcome[w] \in Terminal
        /\ jobs[cur[w]] \in Row
    BY <1>1 DEF LoadFinish, Goto, TypeOK, Executing, Actor
  <2>2. /\ cur' = cur /\ jobs' = jobs
        /\ pending'[w][cur[w]] = FinishUpdate(jobs[cur[w]], outcome[w])
    BY <1>1, <2>1 DEF LoadFinish, Stage, TypeOK, table, threads
  <2>3. LET u == FinishUpdate(jobs[cur[w]], outcome[w]) IN
        /\ u.event # "none"
        /\ u.new.locked_by = NoWorker /\ u.old.locked_by = jobs[cur[w]].locked_by
    BY <2>1 DEF FinishUpdate, Finished, Row, Terminal
  <2> QED BY <2>2, <2>3 DEF InFlight
<1>2. CASE pc[w] = "commit" /\ cur'[w] = cur[w] /\ pending'[w] = pending[w]
  <2>1. cur[w] \in Job BY <1>2 DEF TypeOK, Executing
  <2>2. ~ClaimWon(w) BY <1>2 DEF ClaimWon, Goto
  <2>3. jobs'[cur[w]].locked_by = w => jobs[cur[w]].locked_by = w
    BY <2>1, <2>2, NewLock
  <2> QED BY <1>2, <2>1, <2>3 DEF FinishReleases, InFlight
<1> QED BY <1>1, <1>2, AtCommit

\* A name in locked_by is that of a worker executing the row, or dead.
LEMMA LockStep ==
  ASSUME TypeOK, PendingIsSound, FinishReleases, LockIsHeld, [Next]_vars
  PROVE  LockIsHeld'
<1> SUFFICES ASSUME NEW j \in Job, NEW w \in Worker, jobs'[j].locked_by = w
             PROVE  pc'[w] = "dead" \/ (cur'[w] = j /\ pc'[w] \in Executing)
  BY DEF LockIsHeld
<1>1. CASE ClaimWon(w) /\ cur[w] = j
  BY <1>1 DEF ClaimWon, Goto, TypeOK, Executing
<1>2. CASE jobs[j].locked_by = w
  <2>1. pc[w] = "dead" \/ (cur[w] = j /\ pc[w] \in Executing)
    BY <1>2 DEF LockIsHeld
  <2>2. ~CommitFinish(w)
    <3> SUFFICES ASSUME CommitFinish(w) PROVE FALSE OBVIOUS
    <3>1. pc[w] = "commit" /\ cur[w] = j /\ w \in Actor
      BY <2>1 DEF CommitFinish, Goto, Actor
    <3>2. /\ InFlight(w, j) /\ pending[w][j].new.locked_by = NoWorker
          /\ pending[w][j].old.locked_by = w
      BY <1>2, <3>1 DEF FinishReleases
    <3>3. jobs'[j] = Flush(jobs[j], pending[w][j])
      BY <3>2 DEF CommitFinish, Commit
    <3>4. jobs[j] \in Row /\ w # NoWorker BY JobRowAssumption DEF TypeOK
    <3>5. Flush(jobs[j], pending[w][j]).locked_by = NoWorker
      BY <3>2, <3>4 DEF Flush, Row
    <3> QED BY <3>3, <3>4, <3>5
  <2> QED BY <2>1, <2>2, WorkersStep DEF Executing
<1> QED BY <1>1, <1>2, NewLock

-----------------------------------------------------------------------------
(***************************************************************************)
(* The theorems.                                                           *)
(***************************************************************************)

\* The parts together: every step preserves IInv.
LEMMA Inductive ==
  /\ Init => IInv
  /\ IInv /\ [Next]_vars => IInv'
<1>1. Init => IInv
  <2> SUFFICES ASSUME Init PROVE IInv OBVIOUS
  <2>1. TypeOK /\ StagesLeft
    BY NoRowType, JobQueueAssumption
    DEF Init, TypeOK, StagesLeft, NothingPending, PC, Executing, Terminal
  <2>2. PendingIsSound
    <3>1. Sound(NoUpdate) BY DEF Sound, NoUpdate, NoRow, Terminal
    <3> QED BY <3>1 DEF Init, PendingIsSound, NothingPending
  <2>3. FinishReleases BY DEF Init, FinishReleases
  <2>4. ClaimsAreTicketed BY DEF Init, ClaimsAreTicketed, NoRow
  <2>5. TerminalRecord BY DEF Init, TerminalRecord, NoRow, Terminal
  <2>6. LockIsHeld BY JobRowAssumption DEF Init, LockIsHeld, NoRow
  <2> QED BY <2>1, <2>2, <2>3, <2>4, <2>5, <2>6 DEF IInv
<1>2. IInv /\ [Next]_vars => IInv'
  BY TypeStep, StagesStep, SoundStep, ReleaseStep, TicketStep, TerminalStep,
     LockStep DEF IInv
<1> QED BY <1>1, <1>2

\* The inductive invariant.
THEOREM Invariance == Spec => []IInv
BY Inductive, PTL DEF Spec

\* Whatever the sessions interleave, a job is started at most once for each
\* time it was put in the queue.
THEOREM Ticketed == Spec => []ClaimsAreTicketed
<1>1. IInv => ClaimsAreTicketed BY DEF IInv
<1> QED BY <1>1, Invariance, PTL

\* Whatever the sessions interleave, a job in a terminal status is dated.
THEOREM Recorded == Spec => []TerminalRecord
<1>1. IInv => TerminalRecord BY DEF IInv
<1> QED BY <1>1, Invariance, PTL

\* Whatever the sessions interleave, a live worker's name is in no row but
\* that of the job it executes.
THEOREM LocksAreHeld == Spec => []LockIsHeld
<1>1. IInv => LockIsHeld BY DEF IInv
<1> QED BY <1>1, Invariance, PTL

\* Whatever the sessions interleave, no row becomes running while its
\* cancel_requested is set.
THEOREM CancelledStaysUnclaimed == Spec => NoClaimAfterCancel
<1> DEFINE A == \A j \in Job :
                  jobs[j].cancel_requested /\ jobs'[j].status = "running"
                    => jobs[j].status = "running"
<1>1. IInv /\ [Next]_vars => [A]_vars
  <2> SUFFICES ASSUME IInv, [Next]_vars PROVE A OBVIOUS
  <2> USE DEF IInv
  <2>1. CASE UNCHANGED <<jobs, tickets, starts>> BY <2>1
  <2>2. ASSUME NEW j \in Job, NEW h \in Heartbeat, Dates(j, h) PROVE A
    BY <2>2, DatesRow
  <2>3. ASSUME NEW w \in Worker, ClaimWon(w) PROVE A BY <2>3, ClaimRow
  <2>4. ASSUME NEW a \in Actor, Commit(a) PROVE A
    BY <2>4, CommitRow DEF CommitMoves
  <2> QED BY <2>1, <2>2, <2>3, <2>4, TableStep DEF TableSteps
<1> QED BY <1>1, Invariance, PTL DEF Spec, NoClaimAfterCancel

\* The queue implements the ledger of tickets: every commit administers, and
\* every claim starts a waiting job.
THEOREM ImplementsLedger == Spec => IsALedger
<1> DEFINE W == {j \in Job : jobs[j].status = "queued"}
<1>1. Init => Ledger!Init BY DEF Init, Ledger!Init, NoRow
<1>2. IInv /\ [Next]_vars => [Ledger!Next]_(Ledger!ledger)
  <2> SUFFICES ASSUME IInv, [Next]_vars PROVE [Ledger!Next]_(Ledger!ledger) OBVIOUS
  <2> USE DEF IInv, Ledger!ledger
  <2>1. UNCHANGED <<jobs, tickets, starts>> => UNCHANGED Ledger!ledger
    OBVIOUS
  <2>2. ASSUME NEW j \in Job, NEW h \in Heartbeat, Dates(j, h)
        PROVE  UNCHANGED Ledger!ledger
    BY <2>2, DatesRow DEF Dates
  <2>3. ASSUME NEW w \in Worker, ClaimWon(w) PROVE Ledger!Next
    <3>1. W' = W \ {cur[w]} BY <2>3, ClaimRow
    <3>2. Ledger!Start(cur[w])
      BY <2>3, <3>1, ClaimRow DEF ClaimWon, Ledger!Start
    <3> QED BY <2>3, <3>2, ClaimRow DEF Ledger!Next, Ledger!Start
  <2>4. ASSUME NEW a \in Actor, Commit(a) PROVE Ledger!Next
    <3> DEFINE S == {j \in Job : pending[a][j].event
                                   \in {"queued", "requeued", "retried"}}
    <3>1. tickets' = [j \in Job |-> IF j \in S THEN tickets[j] + 1 ELSE tickets[j]]
      BY <2>4 DEF Commit
    <3>2. \A j \in Job : j \in W' => j \in W \cup S
      <4> SUFFICES ASSUME NEW j \in Job, j \in W', j \notin W PROVE j \in S
        OBVIOUS
      <4>1. tickets'[j] = tickets[j] + 1 BY <2>4, CommitRow DEF CommitMoves
      <4>2. tickets[j] + 1 # tickets[j] BY DEF TypeOK
      <4> QED BY <3>1, <4>1, <4>2
    <3>3. Ledger!Administer(S) BY <2>4, <3>1, <3>2 DEF Commit, Ledger!Administer
    <3>4. S \in SUBSET Job OBVIOUS
    <3> HIDE DEF S, W
    <3> QED BY <3>3, <3>4 DEF Ledger!Next, Ledger!Administer
  <2> HIDE DEF Ledger!ledger
  <2>5. UNCHANGED Ledger!ledger \/ Ledger!Next
    BY <2>1, <2>2, <2>3, <2>4, TableStep DEF TableSteps
  <2> QED BY <2>5
<1> QED BY <1>1, <1>2, Invariance, PTL DEF Spec, IsALedger, Ledger!Spec

=============================================================================
