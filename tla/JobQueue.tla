------------------------------ MODULE JobQueue ------------------------------
(***************************************************************************)
(* The durable analysis queue: the worker processes of jobs/service.py,    *)
(* the API requests of api/routes/analyses.py, and the table they share.   *)
(*                                                                         *)
(* A step is one database statement or one commit.  claim_next_job's       *)
(* conditional UPDATE is therefore one step, and so is a write that does   *)
(* not depend on what was read; every handler that reads a row, decides,   *)
(* and commits is two steps, with anything in between.                     *)
(*                                                                         *)
(* API requests do not start work: _trigger_bg_worker asks for settings.db,*)
(* which Settings does not have, and its thread swallows the error.        *)
(***************************************************************************)
EXTENDS JobRow, FiniteSets

CONSTANTS
  Job,             \* the analyses that may be enqueued
  Client,          \* API requests that can be in flight at a time
  NoJob,           \* "no job claimed"
  AttemptLimits,   \* the max_attempts a request may ask for
  Stages,          \* how many times _run_pipeline calls _progress
  CheckedStages,   \* the calls it follows with _check_cancel
  Requests,        \* which of "cancel" and "retry" the clients send
  Replicas,        \* bound on the worker processes alive at a time
  MaxCrashes,      \* bound on the workers that die
  MaxRetries,      \* bound on the retry requests
  Timely           \* a live heartbeat thread always writes in time

ASSUME JobQueueAssumption ==
  /\ NoJob \notin Job
  /\ Worker \cap Client = {}
  /\ AttemptLimits \subseteq Nat \ {0}
  /\ Stages \in Nat \ {0}
  /\ CheckedStages \subseteq 1..Stages
  /\ Stages \in CheckedStages
  /\ Requests \subseteq {"cancel", "retry"}
  /\ Replicas \in Nat /\ MaxCrashes \in Nat /\ MaxRetries \in Nat
  /\ Timely \in BOOLEAN

Actor == Worker \cup Client

VARIABLES
  jobs,      \* the table analysis_jobs
  tickets,   \* job_events: how often each job was put in the queue
  starts,    \* job_events: how often each job was started
  now,       \* the clock behind queued_at
  pending,   \* the unit of work of each session, by job
  pc,        \* where the main thread of each worker is
  todo,      \* recover_stale_jobs: the ids still to load
  cur,       \* the candidate or claimed job of each worker
  stage,     \* how many _progress calls the worker has made for it
  outcome,   \* how the worker's pipeline ended
  beating,   \* is the worker's heartbeat thread alive
  beats,     \* heartbeat writes between their check and their commit
  retries    \* retry requests made so far

table   == <<jobs, tickets, starts, now>>
threads == <<pc, todo, cur, stage, outcome, beating, beats>>
vars    == <<table, pending, threads, retries>>

\* Between the claim and the commit of the outcome: the body of process().
Executing == {"work", "check", "finish", "commit"}
PC == {"off", "idle", "load", "recover", "select", "claim", "dead"}
        \cup Executing

TypeOK ==
  /\ jobs \in [Job -> Row]
  /\ tickets \in [Job -> Nat]
  /\ starts \in [Job -> Nat]
  /\ now \in Nat
  /\ pending \in [Actor -> [Job -> Update]]
  /\ pc \in [Worker -> PC]
  /\ todo \in [Worker -> SUBSET Job]
  /\ cur \in [Worker -> Job \cup {NoJob}]
  /\ stage \in [Worker -> 0..Stages]
  /\ outcome \in [Worker -> Terminal]
  /\ beating \in [Worker -> BOOLEAN]
  /\ beats \subseteq Worker \X Job
  /\ retries \in Nat
  /\ \A w \in Worker : /\ pc[w] \in Executing \cup {"claim"} <=> cur[w] # NoJob
                       /\ beating[w] => pc[w] \in Executing

NothingPending == [j \in Job |-> NoUpdate]

Init ==
  /\ jobs = [j \in Job |-> NoRow]
  /\ tickets = [j \in Job |-> 0]
  /\ starts = [j \in Job |-> 0]
  /\ now = 0
  /\ pending = [a \in Actor |-> NothingPending]
  /\ pc = [w \in Worker |-> "off"]
  /\ todo = [w \in Worker |-> {}]
  /\ cur = [w \in Worker |-> NoJob]
  /\ stage = [w \in Worker |-> 0]
  /\ outcome = [w \in Worker |-> "failed"]
  /\ beating = [w \in Worker |-> FALSE]
  /\ beats = {}
  /\ retries = 0

\* The locals of process() and _run_pipeline when they are not running.
ForgetRun(w) ==
  /\ stage' = [stage EXCEPT ![w] = 0]
  /\ outcome' = [outcome EXCEPT ![w] = "failed"]

Goto(w, from, to) == pc[w] = from /\ pc' = [pc EXCEPT ![w] = to]

-----------------------------------------------------------------------------
(***************************************************************************)
(* Sessions.                                                               *)
(***************************************************************************)
Stage(a, j, u) == pending' = [pending EXCEPT ![a][j] = u]

InFlight(a, j) == pending[a][j].event # "none"

\* Session a commits: every row it touched is flushed and the events are
\* added, in one transaction.
Commit(a) ==
  /\ jobs' = [j \in Job |-> IF InFlight(a, j)
                            THEN Flush(jobs[j], pending[a][j]) ELSE jobs[j]]
  /\ tickets' = [j \in Job |->
       IF pending[a][j].event \in {"queued", "requeued", "retried"}
       THEN tickets[j] + 1 ELSE tickets[j]]
  /\ pending' = [pending EXCEPT ![a] = NothingPending]
  /\ UNCHANGED <<starts, now>>

-----------------------------------------------------------------------------
(***************************************************************************)
(* Worker processes: run_once.                                             *)
(***************************************************************************)
Alive(w) == pc[w] \notin {"off", "dead"}

Boot(w) ==
  /\ Goto(w, "off", "idle")
  /\ Cardinality({v \in Worker : Alive(v)}) < Replicas
  /\ UNCHANGED <<table, pending, todo, cur, stage, outcome, beating, beats,
                 retries>>

\* recover_stale_jobs: the ids its query selects.
StaleJobs == {j \in Job : /\ jobs[j].status = "running"
                          /\ jobs[j].heartbeat_at = "stale"}

ScanStale(w) ==
  /\ IF StaleJobs = {} THEN Goto(w, "idle", "select")
                       ELSE Goto(w, "idle", "load")
  /\ todo' = [todo EXCEPT ![w] = StaleJobs]
  /\ UNCHANGED <<table, pending, cur, stage, outcome, beating, beats, retries>>

\* session.get on the next id and the assignments that follow: the row is
\* whatever it has become since the query.
LoadStale(w) ==
  \E j \in todo[w] :
    /\ Goto(w, "load", IF todo[w] = {j} THEN "recover" ELSE "load")
    /\ todo' = [todo EXCEPT ![w] = @ \ {j}]
    /\ Stage(w, j, RecoverUpdate(jobs[j], now + 1))
    /\ now' = now + 1
    /\ UNCHANGED <<jobs, tickets, starts, cur, stage, outcome, beating, beats,
                   retries>>

CommitRecovery(w) ==
  /\ Goto(w, "recover", "select")
  /\ Commit(w)
  /\ UNCHANGED <<todo, cur, stage, outcome, beating, beats, retries>>

\* claim_next_job: the candidate query, ORDER BY queued_at LIMIT 1.
Eligible == {j \in Job : /\ jobs[j].status = "queued"
                         /\ ~jobs[j].cancel_requested
                         /\ jobs[j].attempts < jobs[j].max_attempts}

\* Mutant of Candidates: newest first.
NewestCandidates == {j \in Eligible :
                       \A k \in Eligible : jobs[k].queued_at <= jobs[j].queued_at}

Candidates == {j \in Eligible :
                 \A k \in Eligible : jobs[j].queued_at <= jobs[k].queued_at}

CandidateFound(w) ==
  \E j \in Candidates :
    /\ Goto(w, "select", "claim")
    /\ cur' = [cur EXCEPT ![w] = j]
    /\ UNCHANGED <<table, pending, todo, stage, outcome, beating, beats, retries>>

NoCandidate(w) ==
  /\ Eligible = {}
  /\ Goto(w, "select", "idle")
  /\ UNCHANGED <<table, pending, todo, cur, stage, outcome, beating, beats,
                 retries>>

\* Mutants of Claimable: the UPDATE trusts what the query saw.
ClaimableById(j) == jobs[j].status # "absent"
ClaimableThoughCancelled(j) == jobs[j].status = "queued"

\* claim_next_job: the WHERE clause of the UPDATE, besides the id.  It does
\* not repeat the query's condition on attempts.
Claimable(j) == jobs[j].status = "queued" /\ ~jobs[j].cancel_requested

\* The conditional UPDATE: rowcount 1 commits the claim and process() starts
\* the heartbeat thread; rowcount 0 goes round the loop.
ClaimWon(w) ==
  /\ Goto(w, "claim", "work")
  /\ Claimable(cur[w])
  /\ jobs' = [jobs EXCEPT ![cur[w]] = Claimed(@, w)]
  /\ starts' = [starts EXCEPT ![cur[w]] = @ + 1]
  /\ beating' = [beating EXCEPT ![w] = TRUE]
  /\ UNCHANGED <<tickets, now, pending, todo, cur, stage, outcome, beats,
                 retries>>

ClaimLost(w) ==
  /\ Goto(w, "claim", "select")
  /\ ~Claimable(cur[w])
  /\ cur' = [cur EXCEPT ![w] = NoJob]
  /\ UNCHANGED <<table, pending, todo, stage, outcome, beating, beats, retries>>

-----------------------------------------------------------------------------
(***************************************************************************)
(* Worker processes: process and _run_pipeline.                            *)
(***************************************************************************)

\* The work up to the next _progress call, and the call: it dates heartbeat_at
\* whatever the row's status and owner.
Progress(w) ==
  /\ Goto(w, "work", IF stage[w] + 1 \in CheckedStages THEN "check" ELSE "work")
  /\ stage' = [stage EXCEPT ![w] = @ + 1]
  /\ jobs' = [jobs EXCEPT ![cur[w]].heartbeat_at = "fresh"]
  /\ UNCHANGED <<tickets, starts, now, pending, todo, cur, outcome, beating,
                 beats, retries>>

Finish(w, from, result) ==
  /\ Goto(w, from, "finish")
  /\ outcome' = [outcome EXCEPT ![w] = result]
  /\ UNCHANGED <<table, pending, todo, cur, stage, beating, beats, retries>>

\* Mutant of LastStage: off by one, the pipeline asks for one stage more.
PastLastStage(w) == stage[w] > Stages

LastStage(w) == stage[w] = Stages

\* _check_cancel; after the last one the pipeline has succeeded.
CheckCancel(w) ==
  /\ pc[w] = "check"
  /\ \/ /\ jobs[cur[w]].cancel_requested
        /\ Finish(w, "check", "cancelled")
     \/ /\ ~jobs[cur[w]].cancel_requested /\ LastStage(w)
        /\ Finish(w, "check", "succeeded")
     \/ /\ ~jobs[cur[w]].cancel_requested /\ ~LastStage(w)
        /\ Goto(w, "check", "work")
        /\ UNCHANGED <<table, pending, todo, cur, stage, outcome, beating, beats,
                       retries>>

\* Anything the pipeline calls may raise, _mark_succeeded included.
RaiseError(w) ==
  \/ \E from \in {"work", "check"} : Finish(w, from, "failed")
  \/ outcome[w] = "succeeded" /\ Finish(w, "finish", "failed")

\* _mark_succeeded, _mark_cancelled, _mark_failed: the read ...
LoadFinish(w) ==
  /\ Goto(w, "finish", "commit")
  /\ Stage(w, cur[w], FinishUpdate(jobs[cur[w]], outcome[w]))
  /\ UNCHANGED <<table, todo, cur, stage, outcome, beating, beats, retries>>

\* ... and the commit, after which process() stops its heartbeat thread.  A
\* heartbeat still in its commit may outlive the join's two seconds.
CommitFinish(w) ==
  /\ Goto(w, "commit", "idle")
  /\ Commit(w)
  /\ cur' = [cur EXCEPT ![w] = NoJob]
  /\ beating' = [beating EXCEPT ![w] = FALSE]
  /\ ForgetRun(w)
  /\ UNCHANGED <<todo, beats, retries>>

-----------------------------------------------------------------------------
(***************************************************************************)
(* The heartbeat thread, time, and crashes.                                *)
(***************************************************************************)

\* _heartbeat_loop: the thread returns once the row is not its own.
ReadHeartbeat(w) ==
  LET j == cur[w] IN
  /\ beating[w]
  /\ IF jobs[j].status = "running" /\ jobs[j].locked_by = w
     THEN /\ beats' = beats \cup {<<w, j>>}
          /\ UNCHANGED beating
     ELSE /\ beating' = [beating EXCEPT ![w] = FALSE]
          /\ UNCHANGED beats
  /\ UNCHANGED <<table, pending, pc, todo, cur, stage, outcome, retries>>

WriteHeartbeat(w) ==
  \E j \in Job :
    /\ <<w, j>> \in beats
    /\ beats' = beats \ {<<w, j>>}
    /\ jobs' = [jobs EXCEPT ![j].heartbeat_at = "fresh"]
    /\ UNCHANGED <<tickets, starts, now, pending, pc, todo, cur, stage, outcome,
                   beating, retries>>

Attended(j) == \E w \in Worker : beating[w] /\ cur[w] = j

\* stale_after_seconds pass without a heartbeat, because nobody sends any or
\* although somebody should: the process was suspended, the database was
\* locked, or the interval configured is longer.
Expire(j) ==
  /\ Attended(j) => ~Timely
  /\ jobs[j].heartbeat_at = "fresh"
  /\ jobs' = [jobs EXCEPT ![j].heartbeat_at = "stale"]
  /\ UNCHANGED <<tickets, starts, now, pending, threads, retries>>

Crash(w) ==
  /\ Alive(w)
  /\ Cardinality({v \in Worker : pc[v] = "dead"}) < MaxCrashes
  /\ pc' = [pc EXCEPT ![w] = "dead"]
  /\ todo' = [todo EXCEPT ![w] = {}]
  /\ cur' = [cur EXCEPT ![w] = NoJob]
  /\ beating' = [beating EXCEPT ![w] = FALSE]
  /\ beats' = {b \in beats : b[1] # w}
  /\ pending' = [pending EXCEPT ![w] = NothingPending]
  /\ ForgetRun(w)
  /\ UNCHANGED <<table, retries>>

-----------------------------------------------------------------------------
(***************************************************************************)
(* API requests.                                                           *)
(***************************************************************************)
Free(c) == \A j \in Job : ~InFlight(c, j)

\* create_analysis / enqueue_job up to its commit; ids are UUIDs, so no two
\* requests insert the same row.
EnqueueJob(c, j) ==
  /\ Free(c)
  /\ jobs[j].status = "absent"
  /\ \A d \in Client : ~InFlight(d, j)
  /\ \E limit \in AttemptLimits : Stage(c, j, EnqueueUpdate(limit, now + 1))
  /\ now' = now + 1
  /\ UNCHANGED <<jobs, tickets, starts, threads, retries>>

\* cancel_analysis / request_cancel up to its commit; a terminal job is
\* returned as it is.
RequestCancel(c, j) ==
  /\ "cancel" \in Requests
  /\ Free(c)
  /\ jobs[j].status \in Active
  /\ Stage(c, j, CancelUpdate(jobs[j]))
  /\ UNCHANGED <<table, threads, retries>>

\* retry_analysis / retry_job up to its commit; any other status is a 409.
RetryJob(c, j) ==
  /\ "retry" \in Requests
  /\ Free(c)
  /\ retries < MaxRetries
  /\ jobs[j].status \in Retryable
  /\ Stage(c, j, RetryUpdate(jobs[j], now + 1))
  /\ now' = now + 1
  /\ retries' = retries + 1
  /\ UNCHANGED <<jobs, tickets, starts, threads>>

CommitRequest(c) ==
  /\ ~Free(c)
  /\ Commit(c)
  /\ UNCHANGED <<threads, retries>>

-----------------------------------------------------------------------------
MainThread(w) ==
  \/ ScanStale(w) \/ LoadStale(w) \/ CommitRecovery(w)
  \/ CandidateFound(w) \/ NoCandidate(w) \/ ClaimWon(w) \/ ClaimLost(w)
  \/ Progress(w) \/ CheckCancel(w) \/ RaiseError(w)
  \/ LoadFinish(w) \/ CommitFinish(w)

Next ==
  \/ \E w \in Worker : \/ Boot(w) \/ MainThread(w) \/ Crash(w)
                       \/ ReadHeartbeat(w) \/ WriteHeartbeat(w)
  \/ \E j \in Job : Expire(j)
  \/ \E c \in Client :
       \/ CommitRequest(c)
       \/ \E j \in Job : \/ EnqueueJob(c, j)
                         \/ RequestCancel(c, j)
                         \/ RetryJob(c, j)

Spec == Init /\ [][Next]_vars

\* What the main thread does between two stages of a pipeline.
Outside(w) == pc[w] # "work" /\ MainThread(w)

\* The scheduler runs every thread that can run, Docker's restart policy
\* replaces dead workers, a request in flight completes, and time passes.
\* No fairness on requests, crashes, errors or late heartbeats; and none on the
\* stages of a pipeline: nothing limits the time of one, and a git that says
\* nothing is waited for (ingestion/git.py) while the heartbeat goes on.
Fairness ==
  /\ \A w \in Worker : /\ WF_vars(Boot(w))
                       /\ WF_vars(Outside(w))
                       /\ WF_vars(WriteHeartbeat(w))
  /\ \A j \in Job : WF_vars(~Attended(j) /\ Expire(j))
  /\ \A c \in Client : WF_vars(CommitRequest(c))

FairSpec == Spec /\ Fairness

-----------------------------------------------------------------------------
(***************************************************************************)
(* What holds whatever the sessions interleave: with any number of         *)
(* workers and requests, late heartbeats and crashes.                      *)
(***************************************************************************)

\* Every execution was paid for: a job is started at most as often as it was
\* put in the queue, by its enqueueing, a recovery or a retry, and a ticket is
\* left while it is waiting.  This is the promise of claim_next_job's
\* conditional UPDATE: however many workers saw a candidate, one starts it.
ClaimsAreTicketed ==
  \A j \in Job : IF jobs[j].status = "queued" THEN starts[j] < tickets[j]
                                              ELSE starts[j] <= tickets[j]

\* A job in a terminal status has its completion date, although the two
\* columns may have been written by different sessions (retry_job and the
\* claim clear it, the _mark functions, recovery and cancel set it).
TerminalRecord ==
  \A j \in Job : jobs[j].status \in Terminal => jobs[j].completed_at

\* No lock leaks: a row names a worker in locked_by only while that worker
\* executes it or is dead.  A live worker never returns to the queue leaving
\* its name behind, whoever requeued, cancelled or retried the row meanwhile.
LockIsHeld ==
  \A j \in Job, w \in Worker :
    jobs[j].locked_by = w =>
      pc[w] = "dead" \/ (cur[w] = j /\ pc[w] \in Executing)

\* A row whose cancel_requested is set never becomes running: not by a claim
\* whose candidate was cancelled after the query, and not by a commit that
\* writes back an older status.
NoClaimAfterCancel ==
  [][\A j \in Job : jobs[j].cancel_requested /\ jobs'[j].status = "running"
                     => jobs[j].status = "running"]_vars

(***************************************************************************)
(* Why those hold: the parts of the inductive invariant.                   *)
(***************************************************************************)

\* What a unit of work may write, whatever the row has become.
Sound(u) ==
  LET writesStatus == u.new.status # u.old.status IN
  /\ writesStatus => u.new.status # "running"
  /\ writesStatus /\ u.new.status = "queued"
       => u.event \in {"queued", "requeued", "retried"}
  /\ writesStatus /\ u.new.status \in Terminal => "completed_at" \in u.stamped
  /\ "completed_at" \in u.stamped => u.new.completed_at
  /\ u.old.completed_at /\ ~u.new.completed_at
       => writesStatus /\ u.new.status = "queued"
  /\ u.new.locked_by \in {NoWorker, u.old.locked_by}

PendingIsSound == \A a \in Actor, j \in Job : Sound(pending[a][j])

\* The last commit of an execution releases the lock if the worker has it:
\* it is computed after the claim and nobody else can write the name.
FinishReleases ==
  \A w \in Worker : pc[w] = "commit" =>
    LET u == pending[w][cur[w]] IN
    /\ InFlight(w, cur[w])
    /\ u.new.locked_by = NoWorker
    /\ jobs[cur[w]].locked_by = w => u.old.locked_by = w

\* The pipeline does not ask for a stage after the last one.
StagesLeft ==
  \A w \in Worker : /\ pc[w] = "work" => stage[w] < Stages
                    /\ pc[w] \notin Executing => stage[w] = 0

IInv == /\ TypeOK /\ StagesLeft /\ PendingIsSound /\ FinishReleases
        /\ ClaimsAreTicketed /\ TerminalRecord /\ LockIsHeld

(***************************************************************************)
(* What holds only in the circumstances each run states.                   *)
(***************************************************************************)

\* At most one live worker is in the pipeline of a job.  M6_EXECUTION_GUIDE:
\* "conditional atomic claims so two workers do not execute the same queued
\* job"; README: "Worker heartbeats prevent a long analysis being claimed
\* twice".
ExclusiveExecution ==
  \A v, w \in Worker :
    v # w /\ pc[v] \in Executing /\ pc[w] \in Executing => cur[v] # cur[w]

\* "deterministic oldest-job-first claiming": when a job starts, no other
\* eligible job has an older queued_at.
OldestFirst ==
  [][\A j \in Job : starts'[j] # starts[j] =>
       \A k \in Eligible : jobs[j].queued_at <= jobs[k].queued_at]_vars

\* A worker stays in one stage of a pipeline for ever.
Hangs == \E w \in Worker : <>[](pc[w] = "work")

\* "queued and cooperative running-job cancellation": a job with a
\* cancellation request ends, unless a stage of a pipeline does not.
CancelHonoured ==
  \/ \A j \in Job : jobs[j].cancel_requested ~> jobs[j].status \in Terminal
  \/ Hangs

\* Every job in the queue ends, whichever worker dies executing it, unless its
\* cancellation is requested (CancelHonoured) or a stage of a pipeline does not
\* end.  Heartbeats must be in time: a late one dates a row that waits again, and
\* a second recovery that read that date clears it after the claim, so that
\* recover_stale_jobs, which skips rows without a date, never finds the row.
EventuallyDone ==
  \/ \A j \in Job : jobs[j].status = "queued" ~>
       jobs[j].status \in Terminal \/ jobs[j].cancel_requested
  \/ Hangs

(***************************************************************************)
(* Refinement.                                                             *)
(***************************************************************************)

\* The queue as a ledger of tickets, whatever the sessions interleave.
Ledger == INSTANCE WorkLedger WITH
  waiting <- {j \in Job : jobs[j].status = "queued"},
  issued <- tickets, started <- starts

IsALedger == Ledger!Spec

\* One job as the state diagram of M6_EXECUTION_GUIDE has it, where a failed job
\* is retried "when attempts remain"; retry_job raises the limit of others.
Lifecycle == INSTANCE JobLifecycle WITH
  state <- [j \in Job |-> jobs[j].status],
  tries <- [j \in Job |-> jobs[j].attempts],
  limit <- [j \in Job |-> jobs[j].max_attempts]

FollowsLifecycle == Lifecycle!Spec

=============================================================================
