------------------------------- MODULE JobRow -------------------------------
(***************************************************************************)
(* One row of the table analysis_jobs and the ways the code rewrites it.   *)
(*                                                                         *)
(* Everything here is pure: a handler of jobs/queue.py or jobs/service.py  *)
(* becomes an operator from the row it read to the row it wants, and       *)
(* Flush says what COMMIT really does with the two.  SQLAlchemy sends only *)
(* the columns whose value differs from the one that was loaded, in an     *)
(* UPDATE ... WHERE id = :id that looks at nothing else.  So a write that  *)
(* was computed from an old copy of the row neither fails nor overwrites   *)
(* the whole row: it merges with whatever other sessions committed since.  *)
(*                                                                         *)
(* Columns the properties do not tell apart are left out: project and      *)
(* analysis options, progress, messages, error texts, summary, started_at. *)
(* locked_at is always written together with locked_by.                    *)
(***************************************************************************)
EXTENDS Naturals

CONSTANTS Worker,     \* worker processes; a restarted process is a new one
          NoWorker,   \* NULL in the column locked_by
          RetryGrant  \* attempts retry_job adds at the limit: 3 in the code

ASSUME JobRowAssumption == NoWorker \notin Worker /\ RetryGrant \in Nat \ {0}

Terminal == {"succeeded", "failed", "cancelled"}
Active   == {"queued", "running"}
Status   == {"absent"} \cup Active \cup Terminal

\* heartbeat_at is a timestamp in the code.  What recover_stale_jobs asks of
\* it is whether it is NULL and whether it is older than stale_after_seconds.
Heartbeat == {"none", "fresh", "stale"}

Row == [status           : Status,
        attempts         : Nat,
        max_attempts     : Nat,
        cancel_requested : BOOLEAN,
        locked_by        : Worker \cup {NoWorker},
        heartbeat_at     : Heartbeat,
        queued_at        : Nat,
        completed_at     : BOOLEAN]      \* TRUE: not NULL

\* No row yet: enqueue_job has not inserted it.
NoRow == [status |-> "absent", attempts |-> 0, max_attempts |-> 0,
          cancel_requested |-> FALSE, locked_by |-> NoWorker,
          heartbeat_at |-> "none", queued_at |-> 0, completed_at |-> FALSE]

-----------------------------------------------------------------------------
(***************************************************************************)
(* What each handler makes of a row r; t is the value utcnow() gives it.   *)
(***************************************************************************)

\* enqueue_job: the row it inserts, with limit as its max_attempts.
Enqueued(limit, t) ==
  [NoRow EXCEPT !.status = "queued", !.max_attempts = limit, !.queued_at = t]

\* Mutants of Claimed: the claim leaves heartbeat_at to the heartbeat thread.
ClaimedUndated(r, w) ==
  [r EXCEPT !.status = "running", !.attempts = @ + 1, !.locked_by = w,
            !.heartbeat_at = "none", !.completed_at = FALSE]

\* claim_next_job: the values of its conditional UPDATE.
Claimed(r, w) ==
  [r EXCEPT !.status = "running", !.attempts = @ + 1, !.locked_by = w,
            !.heartbeat_at = "fresh", !.completed_at = FALSE]

OutOfAttempts(r) == r.attempts >= r.max_attempts

\* recover_stale_jobs: out of attempts, or back to the queue's end.  The
\* limit branch leaves the lock columns as they are.
Recovered(r, t) ==
  IF OutOfAttempts(r)
  THEN [r EXCEPT !.status = "failed", !.completed_at = TRUE]
  ELSE [r EXCEPT !.status = "queued", !.queued_at = t,
                 !.locked_by = NoWorker, !.heartbeat_at = "none"]

\* request_cancel, past its return for a terminal job: a queued job is
\* cancelled on the spot, a running one only gets the flag.
CancelRequested(r) ==
  IF r.status = "queued"
  THEN [r EXCEPT !.cancel_requested = TRUE, !.status = "cancelled",
                 !.completed_at = TRUE]
  ELSE [r EXCEPT !.cancel_requested = TRUE]

\* retry_job: at the limit it raises the limit by RetryGrant.
Retryable == {"failed", "cancelled"}

Retried(r, t) ==
  [r EXCEPT !.max_attempts = IF OutOfAttempts(r)
                             THEN r.attempts + RetryGrant ELSE @,
            !.attempts = 0, !.status = "queued", !.cancel_requested = FALSE,
            !.queued_at = t, !.completed_at = FALSE,
            !.locked_by = NoWorker, !.heartbeat_at = "none"]

\* Mutants of Finished: the lock columns, or completed_at, are forgotten.
FinishedStillLocked(r, outcome) ==
  [r EXCEPT !.status = outcome, !.completed_at = TRUE,
            !.heartbeat_at = IF outcome = "succeeded" THEN "fresh" ELSE @]

FinishedUndated(r, outcome) ==
  [r EXCEPT !.status = outcome, !.locked_by = NoWorker,
            !.heartbeat_at = IF outcome = "succeeded" THEN "fresh" ELSE @]

\* _mark_succeeded, _mark_cancelled and _mark_failed, by their outcome.
Finished(r, outcome) ==
  [r EXCEPT !.status = outcome, !.completed_at = TRUE,
            !.locked_by = NoWorker,
            !.heartbeat_at = IF outcome = "succeeded" THEN "fresh" ELSE @]

-----------------------------------------------------------------------------
(***************************************************************************)
(* The unit of work: what a session holds between reading a row and        *)
(* committing.  event is the JobEvent it adds; stamped names the columns   *)
(* it assigned a timestamp to, which differ from the loaded value although *)
(* the model's two values may be equal.                                    *)
(***************************************************************************)
Event == {"queued", "requeued", "failed", "cancel_requested", "retried",
          "succeeded", "cancelled"}

Stampable == {"heartbeat_at", "completed_at"}

Update == [event : Event \cup {"none"}, old : Row, new : Row,
           stamped : SUBSET Stampable]

NoUpdate == [event |-> "none", old |-> NoRow, new |-> NoRow, stamped |-> {}]

EnqueueUpdate(limit, t) ==
  [event |-> "queued", old |-> NoRow, new |-> Enqueued(limit, t),
   stamped |-> {}]

RecoverUpdate(r, t) ==
  [event   |-> IF OutOfAttempts(r) THEN "failed" ELSE "requeued",
   old     |-> r,
   new     |-> Recovered(r, t),
   stamped |-> IF OutOfAttempts(r) THEN {"completed_at"} ELSE {}]

CancelUpdate(r) ==
  [event   |-> "cancel_requested",
   old     |-> r,
   new     |-> CancelRequested(r),
   stamped |-> IF r.status = "queued" THEN {"completed_at"} ELSE {}]

RetryUpdate(r, t) ==
  [event |-> "retried", old |-> r, new |-> Retried(r, t), stamped |-> {}]

FinishUpdate(r, outcome) ==
  [event   |-> outcome,
   old     |-> r,
   new     |-> Finished(r, outcome),
   stamped |-> IF outcome = "succeeded" THEN Stampable ELSE {"completed_at"}]

\* The row after the commit of u, when row is what the table holds then.
Flush(row, u) ==
  [c \in DOMAIN row |-> IF c \in u.stamped \/ u.new[c] # u.old[c]
                        THEN u.new[c] ELSE row[c]]

=============================================================================
