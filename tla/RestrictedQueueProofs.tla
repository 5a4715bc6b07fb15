----------------------- MODULE RestrictedQueueProofs -----------------------
(***************************************************************************)
(* What JobQueue promises only in some circumstances, for any numbers of   *)
(* jobs, workers and requests.  In quiet times heartbeats are in time, no  *)
(* worker dies and nobody retries: nothing is recovered, and a job is      *)
(* executed once, by one worker.  If requests also come one at a time,     *)
(* jobs start in the order in which they came.  And a single worker        *)
(* process, with one request at a time and no cancellations, takes each    *)
(* row along the state diagram, whatever is late or dies.                  *)
(***************************************************************************)
EXTENDS JobQueueProofs, FiniteSetTheorems

\* Quiet times.
Quiet == Timely /\ MaxCrashes = 0 /\ "retry" \notin Requests

Executes(w, j) == pc[w] \in Executing /\ cur[w] = j

\* Nobody dies, and nothing is recovered.
AllIsWell == \A w \in Worker : pc[w] \notin {"dead", "load", "recover"}

\* A row that is running has a heartbeat, which its owner sends.
RunningIsAttended ==
  \A j \in Job : jobs[j].status = "running" =>
    /\ jobs[j].heartbeat_at = "fresh"
    /\ \E w \in Worker : beating[w] /\ cur[w] = j /\ jobs[j].locked_by = w

\* What is executed does not wait in the queue again.
StartedIsOut ==
  \A w \in Worker, j \in Job :
    Executes(w, j) => jobs[j].status \in {"running"} \cup Terminal

\* A request enqueues a job that nobody else knows, or cancels one.
Enqueues(c, j) ==
  /\ jobs[j].status = "absent"
  /\ pending[c][j].old.status = "absent" /\ pending[c][j].new.status = "queued"
  /\ \A d \in Client : InFlight(d, j) => d = c

Cancels(c, j) ==
  LET u == pending[c][j] IN
  /\ jobs[j].status # "absent"
  /\ u.new.status \in {u.old.status, "cancelled"}
  /\ u.new.locked_by = u.old.locked_by
  /\ u.new.heartbeat_at = u.old.heartbeat_at /\ "heartbeat_at" \notin u.stamped

RequestsAreMild ==
  \A c \in Client, j \in Job : InFlight(c, j) => Enqueues(c, j) \/ Cancels(c, j)

\* The commit of an outcome leaves no running row.
FinishEnds ==
  \A w \in Worker, j \in Job : InFlight(w, j) =>
    /\ pc[w] = "commit" /\ cur[w] = j
    /\ pending[w][j].new.status \in Terminal
    /\ pending[w][j].old.status = "running" \/ jobs[j].status \in Terminal

QuietInv ==
  /\ AllIsWell /\ RunningIsAttended /\ StartedIsOut
  /\ RequestsAreMild /\ FinishEnds /\ ExclusiveExecution

-----------------------------------------------------------------------------
(***************************************************************************)
(* Steps that give no row another status or owner.                         *)
(***************************************************************************)

\* Nothing starts or stops being executed, and owners go on.
LEMMA NothingMoves ==
  ASSUME QuietInv, pending' = pending, AllIsWell',
         \A j \in Job : /\ jobs'[j].status = jobs[j].status
                        /\ jobs'[j].locked_by = jobs[j].locked_by
                        /\ jobs[j].status = "running" => jobs'[j].heartbeat_at = "fresh",
         \A w \in Worker :
           /\ pc[w] = "commit" => pc'[w] = "commit" /\ cur'[w] = cur[w]
           /\ pc'[w] \in Executing => pc[w] \in Executing /\ cur'[w] = cur[w]
           /\ beating[w] /\ jobs[cur[w]].status = "running" /\ jobs[cur[w]].locked_by = w
                => beating'[w] /\ cur'[w] = cur[w]
  PROVE  QuietInv'
<1>1. RunningIsAttended'
  <2>. SUFFICES ASSUME NEW j \in Job, jobs'[j].status = "running"
                PROVE  /\ jobs'[j].heartbeat_at = "fresh"
                       /\ \E w \in Worker : beating'[w] /\ cur'[w] = j /\ jobs'[j].locked_by = w
    BY DEF RunningIsAttended
  <2>1. jobs[j].status = "running" OBVIOUS
  <2>2. PICK w \in Worker : beating[w] /\ cur[w] = j /\ jobs[j].locked_by = w
    BY <2>1 DEF QuietInv, RunningIsAttended
  <2>3. beating'[w] /\ cur'[w] = j BY <2>1, <2>2
  <2>. QED BY <2>1, <2>2, <2>3
<1>2. StartedIsOut' BY DEF QuietInv, StartedIsOut, Executes
<1>3. RequestsAreMild'
  BY DEF QuietInv, RequestsAreMild, Enqueues, Cancels, InFlight
<1>4. FinishEnds' BY DEF QuietInv, FinishEnds, InFlight
<1>5. ExclusiveExecution' BY DEF QuietInv, ExclusiveExecution
<1>. QED BY <1>1, <1>2, <1>3, <1>4, <1>5 DEF QuietInv

\* Polling, checking and failing.
LEMMA PollingKeeps ==
  ASSUME TypeOK, QuietInv, NEW w \in Worker,
         \/ Boot(w) \/ ScanStale(w) \/ CandidateFound(w) \/ NoCandidate(w)
         \/ ClaimLost(w) \/ CheckCancel(w) \/ RaiseError(w)
  PROVE  QuietInv'
<1>1. jobs' = jobs /\ pending' = pending /\ beating' = beating
  BY DEF Boot, ScanStale, CandidateFound, NoCandidate, ClaimLost, CheckCancel,
         RaiseError, Finish, table
<1>2. pc \in [Worker -> PC] /\ cur \in [Worker -> Job \cup {NoJob}] BY DEF TypeOK
<1>3. \E to \in {"idle", "select", "claim", "work", "finish"} :
        /\ pc' = [pc EXCEPT ![w] = to]
        /\ \/ pc[w] \notin Executing /\ to \notin Executing
           \/ pc[w] \in {"work", "check", "finish"} /\ to \in Executing /\ cur' = cur
  <2>1. CASE Boot(w) BY <2>1 DEF Boot, Goto, Executing
  <2>2. CASE ScanStale(w)
    <3>1. StaleJobs = {} BY DEF StaleJobs, QuietInv, RunningIsAttended
    <3>. QED BY <2>2, <3>1 DEF ScanStale, Goto, Executing
  <2>3. CASE CandidateFound(w) BY <2>3 DEF CandidateFound, Goto, Executing
  <2>4. CASE NoCandidate(w) BY <2>4 DEF NoCandidate, Goto, Executing
  <2>5. CASE ClaimLost(w) BY <2>5 DEF ClaimLost, Goto, Executing
  <2>6. CASE CheckCancel(w) BY <2>6 DEF CheckCancel, Finish, Goto, Executing
  <2>7. CASE RaiseError(w)
    BY <2>7 DEF RaiseError, Finish, Goto, Executing
  <2>. QED BY <2>1, <2>2, <2>3, <2>4, <2>5, <2>6, <2>7
<1>4. \A v \in Worker : v # w => cur'[v] = cur[v]
  BY <1>2 DEF Boot, ScanStale, CandidateFound, NoCandidate, ClaimLost, CheckCancel,
              RaiseError, Finish
<1>5. PICK to \in {"idle", "select", "claim", "work", "finish"} :
        /\ pc' = [pc EXCEPT ![w] = to]
        /\ \/ pc[w] \notin Executing /\ to \notin Executing
           \/ pc[w] \in {"work", "check", "finish"} /\ to \in Executing /\ cur' = cur
  BY <1>3
<1>6. AllIsWell' BY <1>2, <1>5 DEF QuietInv, AllIsWell
<1>7. \A v \in Worker :
        /\ pc[v] = "commit" => pc'[v] = "commit" /\ cur'[v] = cur[v]
        /\ pc'[v] \in Executing => pc[v] \in Executing /\ cur'[v] = cur[v]
        /\ beating[v] => beating'[v] /\ cur'[v] = cur[v]
  <2>1. \A v \in Worker : v # w => pc'[v] = pc[v] /\ cur'[v] = cur[v] BY <1>2, <1>4, <1>5
  <2>2. pc'[w] = to BY <1>2, <1>5
  <2>3. beating[w] => pc[w] \in Executing BY DEF TypeOK
  <2>. QED BY <1>1, <1>5, <2>1, <2>2, <2>3 DEF Executing
<1>8. \A j \in Job : jobs[j].status = "running" => jobs[j].heartbeat_at = "fresh"
  BY DEF QuietInv, RunningIsAttended
<1>. QED BY <1>1, <1>6, <1>7, <1>8, NothingMoves

\* Heartbeats, of either thread, and rows that nobody dates.
LEMMA HeartbeatsKeep ==
  ASSUME TypeOK, QuietInv, Quiet,
         \/ \E w \in Worker : Progress(w) \/ ReadHeartbeat(w) \/ WriteHeartbeat(w)
         \/ \E j \in Job : Expire(j)
  PROVE  QuietInv'
<1>. USE DEF TypeOK
<1>1. \A j \in Job : jobs[j].status = "running" => jobs[j].heartbeat_at = "fresh"
  BY DEF QuietInv, RunningIsAttended
<1>2. \A j \in Job, h \in Heartbeat :
        /\ [jobs[j] EXCEPT !.heartbeat_at = h].status = jobs[j].status
        /\ [jobs[j] EXCEPT !.heartbeat_at = h].locked_by = jobs[j].locked_by
        /\ [jobs[j] EXCEPT !.heartbeat_at = h].heartbeat_at = h
  BY DEF Row
<1>3. ASSUME NEW w \in Worker, Progress(w) PROVE QuietInv'
  <2>1. /\ pc[w] = "work" /\ pc' \in {[pc EXCEPT ![w] = "check"], [pc EXCEPT ![w] = "work"]}
        /\ cur' = cur /\ beating' = beating /\ pending' = pending
        /\ jobs' = [jobs EXCEPT ![cur[w]].heartbeat_at = "fresh"]
    BY <1>3 DEF Progress, Goto
  <2>2. AllIsWell' BY <2>1 DEF QuietInv, AllIsWell
  <2>3. \A v \in Worker :
          /\ pc[v] = "commit" => pc'[v] = "commit" /\ cur'[v] = cur[v]
          /\ pc'[v] \in Executing => pc[v] \in Executing /\ cur'[v] = cur[v]
          /\ beating[v] => beating'[v] /\ cur'[v] = cur[v]
    BY <2>1 DEF Executing
  <2>4. \A j \in Job : /\ jobs'[j].status = jobs[j].status
                       /\ jobs'[j].locked_by = jobs[j].locked_by
                       /\ jobs[j].status = "running" => jobs'[j].heartbeat_at = "fresh"
    BY <1>1, <1>2, <2>1 DEF Heartbeat
  <2>. QED BY <2>1, <2>2, <2>3, <2>4, NothingMoves
<1>4. ASSUME NEW w \in Worker, ReadHeartbeat(w) PROVE QuietInv'
  <2>1. pc' = pc /\ cur' = cur /\ jobs' = jobs /\ pending' = pending
    BY <1>4 DEF ReadHeartbeat, table
  <2>2. AllIsWell' BY <2>1 DEF QuietInv, AllIsWell
  <2>3. \A v \in Worker :
          beating[v] /\ jobs[cur[v]].status = "running" /\ jobs[cur[v]].locked_by = v
            => beating'[v]
    BY <1>4 DEF ReadHeartbeat
  <2>. QED BY <1>1, <2>1, <2>2, <2>3, NothingMoves
<1>5. ASSUME NEW w \in Worker, WriteHeartbeat(w) PROVE QuietInv'
  <2>1. pc' = pc /\ cur' = cur /\ beating' = beating /\ pending' = pending
    BY <1>5 DEF WriteHeartbeat
  <2>2. AllIsWell' BY <2>1 DEF QuietInv, AllIsWell
  <2>3. PICK k \in Job : jobs' = [jobs EXCEPT ![k].heartbeat_at = "fresh"]
    BY <1>5 DEF WriteHeartbeat
  <2>4. \A j \in Job : /\ jobs'[j].status = jobs[j].status
                       /\ jobs'[j].locked_by = jobs[j].locked_by
                       /\ jobs[j].status = "running" => jobs'[j].heartbeat_at = "fresh"
    BY <1>1, <1>2, <2>3 DEF Heartbeat
  <2>. QED BY <2>1, <2>2, <2>4, NothingMoves
<1>6. ASSUME NEW k \in Job, Expire(k) PROVE QuietInv'
  <2>1. ~Attended(k) /\ Expire(k)
    BY <1>6 DEF Expire, Quiet
  <2>2. /\ pc' = pc /\ cur' = cur /\ beating' = beating /\ pending' = pending
        /\ jobs' = [jobs EXCEPT ![k].heartbeat_at = "stale"]
    BY <2>1 DEF Expire, threads
  <2>3. AllIsWell' BY <2>2 DEF QuietInv, AllIsWell
  <2>4. jobs[k].status # "running"
    BY <2>1 DEF Attended, QuietInv, RunningIsAttended
  <2>5. \A j \in Job : /\ jobs'[j].status = jobs[j].status
                       /\ jobs'[j].locked_by = jobs[j].locked_by
                       /\ jobs[j].status = "running" => jobs'[j].heartbeat_at = "fresh"
    BY <1>1, <1>2, <2>2, <2>4 DEF Heartbeat
  <2>. QED BY <2>2, <2>3, <2>5, NothingMoves
<1>. QED BY <1>3, <1>4, <1>5, <1>6

-----------------------------------------------------------------------------
(***************************************************************************)
(* An execution from its claim to its last commit.                         *)
(***************************************************************************)
LEMMA ClaimKeeps ==
  ASSUME TypeOK, QuietInv, NEW w \in Worker, ClaimWon(w)
  PROVE  QuietInv'
<1>. DEFINE j == cur[w]
<1>1. /\ j \in Job /\ jobs[j].status = "queued"
      /\ jobs'[j].status = "running" /\ jobs'[j].locked_by = w
      /\ \A k \in Job : k # j => jobs'[k] = jobs[k]
  BY ClaimRow
<1>2. jobs'[j].heartbeat_at = "fresh"
  BY <1>1 DEF ClaimWon, Claimed, TypeOK, Row
<1>3. /\ cur' = cur /\ pending' = pending
      /\ pc[w] = "claim" /\ pc'[w] = "work" /\ beating'[w]
      /\ \A v \in Worker : v # w => pc'[v] = pc[v] /\ beating'[v] = beating[v]
  BY DEF ClaimWon, Goto, TypeOK
<1>4. \A v \in Worker : ~Executes(v, j)
  BY <1>1 DEF QuietInv, StartedIsOut, Terminal
<1>. HIDE DEF j
<1>5. AllIsWell' BY <1>3 DEF QuietInv, AllIsWell
<1>6. RunningIsAttended'
  <2>. SUFFICES ASSUME NEW k \in Job, jobs'[k].status = "running"
                PROVE  /\ jobs'[k].heartbeat_at = "fresh"
                       /\ \E v \in Worker : beating'[v] /\ cur'[v] = k /\ jobs'[k].locked_by = v
    BY DEF RunningIsAttended
  <2>1. CASE k = j BY <1>1, <1>2, <1>3, <2>1 DEF j
  <2>2. CASE k # j
    BY <1>1, <1>3, <2>2 DEF QuietInv, RunningIsAttended
  <2>. QED BY <2>1, <2>2
<1>7. StartedIsOut'
  BY <1>1, <1>3, <1>4 DEF QuietInv, StartedIsOut, Executes, j
<1>8. RequestsAreMild'
  <2>. SUFFICES ASSUME NEW c \in Client, NEW k \in Job, InFlight(c, k)
                PROVE  (Enqueues(c, k) \/ Cancels(c, k))'
    BY <1>3 DEF RequestsAreMild, InFlight
  <2>1. CASE k = j BY <1>1, <1>3, <2>1 DEF QuietInv, RequestsAreMild, Enqueues, Cancels
  <2>2. CASE k # j
    BY <1>1, <1>3, <2>2 DEF QuietInv, RequestsAreMild, Enqueues, Cancels, InFlight
  <2>. QED BY <2>1, <2>2
<1>9. FinishEnds'
  <2>. SUFFICES ASSUME NEW v \in Worker, NEW k \in Job, InFlight(v, k)
                PROVE  /\ pc'[v] = "commit" /\ cur'[v] = k
                       /\ pending[v][k].new.status \in Terminal
                       /\ pending[v][k].old.status = "running" \/ jobs'[k].status \in Terminal
    BY <1>3 DEF FinishEnds, InFlight
  <2>1. /\ pc[v] = "commit" /\ cur[v] = k
        /\ pending[v][k].new.status \in Terminal
        /\ pending[v][k].old.status = "running" \/ jobs[k].status \in Terminal
    BY DEF QuietInv, FinishEnds
  <2>2. k # j /\ v # w BY <1>3, <1>4, <2>1 DEF Executes, Executing
  <2>. QED BY <1>1, <1>3, <2>1, <2>2
<1>10. ExclusiveExecution'
  BY <1>3, <1>4 DEF QuietInv, ExclusiveExecution, Executes, j
<1>. QED BY <1>5, <1>6, <1>7, <1>8, <1>9, <1>10 DEF QuietInv

LEMMA Outcomes ==
  ASSUME NEW r \in Row, NEW result \in Terminal
  PROVE  /\ FinishUpdate(r, result).old = r
         /\ FinishUpdate(r, result).new.status = result
<1>1. Finished(r, result).status = result BY DEF Finished, Row
<1>. QED BY <1>1 DEF FinishUpdate

LEMMA LoadFinishKeeps ==
  ASSUME TypeOK, QuietInv, NEW w \in Worker, LoadFinish(w)
  PROVE  QuietInv'
<1>. DEFINE j == cur[w]
<1>1. /\ pc[w] = "finish" /\ pc'[w] = "commit" /\ jobs' = jobs
      /\ cur' = cur /\ beating' = beating
      /\ \A v \in Worker : v # w => pc'[v] = pc[v]
  BY DEF LoadFinish, Goto, table, TypeOK
<1>2. j \in Job /\ outcome[w] \in Terminal /\ jobs[j] \in Row
  BY <1>1 DEF TypeOK, Executing
<1>3. jobs[j].status \in {"running"} \cup Terminal
  BY <1>1, <1>2 DEF QuietInv, StartedIsOut, Executes, Executing
<1>4. /\ pending'[w][j] = FinishUpdate(jobs[j], outcome[w])
      /\ \A a \in Actor, k \in Job : a # w \/ k # j => pending'[a][k] = pending[a][k]
  BY <1>2 DEF LoadFinish, Stage, TypeOK, Actor
<1>5. /\ pending'[w][j].new.status \in Terminal
      /\ pending'[w][j].old = jobs[j]
  <2>. HIDE DEF j
  <2>. QED BY <1>2, <1>4, Outcomes
<1>. HIDE DEF j
<1>6. AllIsWell' BY <1>1 DEF QuietInv, AllIsWell
<1>7. RunningIsAttended' BY <1>1 DEF QuietInv, RunningIsAttended
<1>8. StartedIsOut' BY <1>1 DEF QuietInv, StartedIsOut, Executes, Executing
<1>9. RequestsAreMild'
  <2>1. \A c \in Client, k \in Job : pending'[c][k] = pending[c][k]
    BY <1>4, JobQueueAssumption DEF Actor
  <2>. QED BY <1>1, <2>1 DEF QuietInv, RequestsAreMild, Enqueues, Cancels, InFlight
<1>10. FinishEnds'
  <2>. SUFFICES ASSUME NEW v \in Worker, NEW k \in Job, InFlight(v, k)'
                PROVE  /\ pc'[v] = "commit" /\ cur'[v] = k
                       /\ pending'[v][k].new.status \in Terminal
                       /\ pending'[v][k].old.status = "running" \/ jobs'[k].status \in Terminal
    BY DEF FinishEnds
  <2>1. CASE v = w /\ k = j BY <1>1, <1>3, <1>5, <2>1 DEF j
  <2>2. CASE v # w \/ k # j
    <3>1. pending'[v][k] = pending[v][k] BY <1>4, <2>2 DEF Actor
    <3>2. InFlight(v, k) BY <3>1 DEF InFlight
    <3>3. /\ pc[v] = "commit" /\ cur[v] = k
          /\ pending[v][k].new.status \in Terminal
          /\ pending[v][k].old.status = "running" \/ jobs[k].status \in Terminal
      BY <3>2 DEF QuietInv, FinishEnds
    <3>. QED BY <1>1, <3>1, <3>3
  <2>. QED BY <2>1, <2>2
<1>11. ExclusiveExecution' BY <1>1 DEF QuietInv, ExclusiveExecution, Executing
<1>. QED BY <1>6, <1>7, <1>8, <1>9, <1>10, <1>11 DEF QuietInv

LEMMA FlushedColumns ==
  ASSUME NEW r \in Row, NEW u \in Update
  PROVE  LET s == Flush(r, u) IN
         /\ s.status = IF u.new.status # u.old.status THEN u.new.status ELSE r.status
         /\ s.locked_by = IF u.new.locked_by # u.old.locked_by
                          THEN u.new.locked_by ELSE r.locked_by
         /\ u.new.heartbeat_at = u.old.heartbeat_at /\ "heartbeat_at" \notin u.stamped
              => s.heartbeat_at = r.heartbeat_at
BY DEF Flush, Row, Update, Stampable

LEMMA CommitFinishKeeps ==
  ASSUME IInv, QuietInv, NEW w \in Worker, CommitFinish(w)
  PROVE  QuietInv'
<1>. USE DEF IInv
<1>. DEFINE j == cur[w]
<1>1. /\ pc[w] = "commit" /\ pc'[w] = "idle" /\ Commit(w)
      /\ \A v \in Worker : v # w => /\ pc'[v] = pc[v] /\ cur'[v] = cur[v]
                                    /\ beating'[v] = beating[v]
  BY DEF CommitFinish, Goto, TypeOK
<1>2. j \in Job /\ w \in Actor /\ InFlight(w, j)
  BY <1>1 DEF TypeOK, Executing, Actor, FinishReleases
<1>3. \A k \in Job : k # j => jobs'[k] = jobs[k]
  BY <1>1 DEF Commit, QuietInv, FinishEnds
<1>4. jobs'[j].status \in Terminal
  <2>1. jobs'[j] = Flush(jobs[j], pending[w][j]) BY <1>1, <1>2 DEF Commit
  <2>2. /\ pending[w][j].new.status \in Terminal
        /\ pending[w][j].old.status = "running" \/ jobs[j].status \in Terminal
    BY <1>2 DEF QuietInv, FinishEnds
  <2>3. jobs[j] \in Row /\ pending[w][j] \in Update BY <1>2 DEF TypeOK
  <2>. QED BY <2>1, <2>2, <2>3, FlushedColumns DEF Terminal
<1>5. \A v \in Worker : v # w => ~Executes(v, j)
  BY <1>1 DEF QuietInv, ExclusiveExecution, Executes, Executing
<1>6. /\ \A k \in Job : ~InFlight(w, k)'
      /\ \A a \in Actor : a # w => pending'[a] = pending[a]
  BY <1>1, <1>2 DEF Commit, InFlight, NothingPending, NoUpdate, TypeOK
<1>. HIDE DEF j
<1>7. AllIsWell' BY <1>1 DEF QuietInv, AllIsWell
<1>8. RunningIsAttended'
  <2>. SUFFICES ASSUME NEW k \in Job, jobs'[k].status = "running"
                PROVE  /\ jobs'[k].heartbeat_at = "fresh"
                       /\ \E v \in Worker : beating'[v] /\ cur'[v] = k /\ jobs'[k].locked_by = v
    BY DEF RunningIsAttended
  <2>1. k # j /\ jobs'[k] = jobs[k] BY <1>3, <1>4 DEF Terminal
  <2>2. PICK v \in Worker : beating[v] /\ cur[v] = k /\ jobs[k].locked_by = v
    BY <2>1 DEF QuietInv, RunningIsAttended
  <2>3. v # w BY <2>1, <2>2 DEF j
  <2>. QED BY <1>1, <2>1, <2>2, <2>3 DEF QuietInv, RunningIsAttended
<1>9. StartedIsOut'
  <2>. SUFFICES ASSUME NEW v \in Worker, NEW k \in Job, Executes(v, k)'
                PROVE  jobs'[k].status \in {"running"} \cup Terminal
    BY DEF StartedIsOut
  <2>1. v # w BY <1>1 DEF Executes, Executing
  <2>2. Executes(v, k) BY <1>1, <2>1 DEF Executes
  <2>. QED BY <1>3, <1>5, <2>1, <2>2 DEF QuietInv, StartedIsOut
<1>10. RequestsAreMild'
  <2>1. \A c \in Client : pending'[c] = pending[c]
    BY <1>6, JobQueueAssumption DEF Actor
  <2>2. jobs[j].status # "absent"
    BY <1>1, <1>2 DEF QuietInv, StartedIsOut, Executes, Executing, Terminal, j
  <2>3. \A k \in Job : /\ jobs[k].status = "absent" => jobs'[k].status = "absent"
                       /\ jobs[k].status # "absent" => jobs'[k].status # "absent"
    BY <1>3, <1>4, <2>2 DEF Terminal
  <2>. QED BY <2>1, <2>3 DEF QuietInv, RequestsAreMild, Enqueues, Cancels, InFlight
<1>11. FinishEnds'
  <2>. SUFFICES ASSUME NEW v \in Worker, NEW k \in Job, InFlight(v, k)'
                PROVE  /\ pc'[v] = "commit" /\ cur'[v] = k
                       /\ pending'[v][k].new.status \in Terminal
                       /\ pending'[v][k].old.status = "running" \/ jobs'[k].status \in Terminal
    BY DEF FinishEnds
  <2>1. v # w /\ pending'[v] = pending[v] BY <1>6 DEF Actor
  <2>2. /\ pc[v] = "commit" /\ cur[v] = k
        /\ pending[v][k].new.status \in Terminal
        /\ pending[v][k].old.status = "running" \/ jobs[k].status \in Terminal
    BY <2>1 DEF QuietInv, FinishEnds, InFlight
  <2>3. k # j BY <1>5, <2>1, <2>2 DEF Executes, Executing
  <2>. QED BY <1>1, <1>3, <2>1, <2>2, <2>3
<1>12. ExclusiveExecution'
  BY <1>1 DEF QuietInv, ExclusiveExecution, Executing
<1>. QED BY <1>7, <1>8, <1>9, <1>10, <1>11, <1>12 DEF QuietInv

-----------------------------------------------------------------------------
(***************************************************************************)
(* Requests.                                                               *)
(***************************************************************************)
LEMMA Enqueuings ==
  ASSUME NEW limit, NEW t
  PROVE  /\ EnqueueUpdate(limit, t).old.status = "absent"
         /\ EnqueueUpdate(limit, t).new.status = "queued"
<1>1. NoRow.status = "absent" BY DEF NoRow
<1>2. Enqueued(limit, t).status = "queued" BY DEF Enqueued, NoRow
<1>. QED BY <1>1, <1>2 DEF EnqueueUpdate

LEMMA ReadsKeep ==
  ASSUME TypeOK, QuietInv, Quiet, NEW c \in Client, NEW j \in Job,
         EnqueueJob(c, j) \/ RequestCancel(c, j) \/ RetryJob(c, j)
  PROVE  QuietInv'
<1>1. EnqueueJob(c, j) \/ RequestCancel(c, j) BY DEF Quiet, RetryJob
<1>2. jobs' = jobs /\ pc' = pc /\ cur' = cur /\ beating' = beating
  BY <1>1 DEF EnqueueJob, RequestCancel, table, threads
<1>3. PICK u : Stage(c, j, u) BY <1>1 DEF EnqueueJob, RequestCancel
<1>4. /\ pending'[c][j] = u
      /\ \A a \in Actor, k \in Job : a # c \/ k # j => pending'[a][k] = pending[a][k]
  BY <1>3 DEF Stage, TypeOK, Actor
<1>5. \A w \in Worker, k \in Job : pending'[w][k] = pending[w][k]
  BY <1>4, JobQueueAssumption DEF Actor
<1>6. AllIsWell' /\ RunningIsAttended' /\ StartedIsOut' /\ ExclusiveExecution'
  BY <1>2 DEF QuietInv, AllIsWell, RunningIsAttended, StartedIsOut, ExclusiveExecution, Executes
<1>7. FinishEnds' BY <1>2, <1>5 DEF QuietInv, FinishEnds, InFlight
<1>8. RequestsAreMild'
  <2>. SUFFICES ASSUME NEW d \in Client, NEW k \in Job, InFlight(d, k)'
                PROVE  (Enqueues(d, k) \/ Cancels(d, k))'
    BY DEF RequestsAreMild
  <2>1. CASE (d # c \/ k # j) /\ EnqueueJob(c, j)
    <3>1. pending'[d][k] = pending[d][k] /\ InFlight(d, k) BY <1>4, <2>1 DEF Actor, InFlight
    <3>2. k # j BY <2>1, <3>1 DEF EnqueueJob
    <3>3. \A e \in Client : pending'[e][k] = pending[e][k] BY <1>4, <3>2 DEF Actor
    <3>. QED BY <1>2, <3>1, <3>3 DEF QuietInv, RequestsAreMild, Enqueues, Cancels, InFlight
  <2>2. CASE (d # c \/ k # j) /\ RequestCancel(c, j)
    <3>1. pending'[d][k] = pending[d][k] /\ InFlight(d, k) BY <1>4, <2>2 DEF Actor, InFlight
    <3>2. CASE Cancels(d, k) BY <1>2, <3>1, <3>2 DEF Cancels
    <3>3. CASE Enqueues(d, k)
      <4>1. k # j BY <2>2, <3>3 DEF Enqueues, RequestCancel, Active
      <4>2. \A e \in Client : pending'[e][k] = pending[e][k] BY <1>4, <4>1 DEF Actor
      <4>. QED BY <1>2, <3>3, <4>2 DEF Enqueues, InFlight
    <3>. QED BY <3>1, <3>2, <3>3 DEF QuietInv, RequestsAreMild
  <2>3. CASE d = c /\ k = j /\ EnqueueJob(c, j)
    <3>1. PICK limit \in AttemptLimits : Stage(c, j, EnqueueUpdate(limit, now + 1))
      BY <2>3 DEF EnqueueJob
    <3>2. pending'[c][j] = EnqueueUpdate(limit, now + 1)
      BY <3>1 DEF Stage, TypeOK, Actor
    <3>3. pending'[c][j].old.status = "absent" /\ pending'[c][j].new.status = "queued"
      BY <3>2, Enqueuings
    <3>4. \A e \in Client : InFlight(e, j)' => e = c
      BY <1>4, <2>3 DEF EnqueueJob, InFlight, Actor
    <3>5. jobs'[j].status = "absent" BY <1>2, <2>3 DEF EnqueueJob
    <3>. QED BY <2>3, <3>3, <3>4, <3>5 DEF Enqueues
  <2>4. CASE d = c /\ k = j /\ RequestCancel(c, j)
    <3>1. pending'[c][j] = CancelUpdate(jobs[j]) /\ jobs[j] \in Row
      BY <2>4 DEF RequestCancel, Stage, TypeOK, Actor
    <3>2. LET v == CancelUpdate(jobs[j]) IN
          /\ v.new.status \in {v.old.status, "cancelled"}
          /\ v.new.locked_by = v.old.locked_by
          /\ v.new.heartbeat_at = v.old.heartbeat_at /\ "heartbeat_at" \notin v.stamped
      BY <3>1 DEF CancelUpdate, CancelRequested, Row
    <3>3. jobs'[j].status # "absent" BY <1>2, <2>4 DEF RequestCancel, Active
    <3>. QED BY <2>4, <3>1, <3>2, <3>3 DEF Cancels
  <2>. QED BY <1>1, <2>1, <2>2, <2>3, <2>4
<1>. QED BY <1>6, <1>7, <1>8 DEF QuietInv

LEMMA RequestsKeep ==
  ASSUME TypeOK, QuietInv, NEW c \in Client, CommitRequest(c)
  PROVE  QuietInv'
<1>1. Commit(c) /\ pc' = pc /\ cur' = cur /\ beating' = beating /\ c \in Actor
  BY DEF CommitRequest, threads, Actor
<1>2. /\ \A k \in Job : ~InFlight(c, k)'
      /\ \A a \in Actor : a # c => pending'[a] = pending[a]
  BY <1>1 DEF Commit, InFlight, NothingPending, NoUpdate, TypeOK
<1>3. ASSUME NEW j \in Job
      PROVE  \/ /\ jobs'[j].status = jobs[j].status
                /\ jobs'[j].locked_by = jobs[j].locked_by
                /\ jobs'[j].heartbeat_at = jobs[j].heartbeat_at
             \/ /\ jobs[j].status = "absent" /\ jobs'[j].status = "queued"
                /\ InFlight(c, j) /\ Enqueues(c, j)
             \/ jobs[j].status # "absent" /\ jobs'[j].status = "cancelled"
  <2>1. CASE ~InFlight(c, j) BY <1>1, <2>1 DEF Commit
  <2>2. CASE InFlight(c, j)
    <3>1. jobs'[j] = Flush(jobs[j], pending[c][j]) BY <1>1, <2>2 DEF Commit
    <3>2. jobs[j] \in Row /\ pending[c][j] \in Update BY <1>1 DEF TypeOK
    <3>3. Enqueues(c, j) \/ Cancels(c, j) BY <2>2 DEF QuietInv, RequestsAreMild
    <3>4. CASE Enqueues(c, j)
      BY <2>2, <3>1, <3>2, <3>4, FlushedColumns DEF Enqueues
    <3>5. CASE Cancels(c, j)
      BY <3>1, <3>2, <3>5, FlushedColumns DEF Cancels
    <3>. QED BY <3>3, <3>4, <3>5
  <2>. QED BY <2>1, <2>2
<1>4. AllIsWell' /\ ExclusiveExecution' BY <1>1 DEF QuietInv, AllIsWell, ExclusiveExecution
<1>5. RunningIsAttended' BY <1>1, <1>3 DEF QuietInv, RunningIsAttended
<1>6. StartedIsOut' BY <1>1, <1>3 DEF QuietInv, StartedIsOut, Executes, Terminal
<1>7. RequestsAreMild'
  <2>. SUFFICES ASSUME NEW d \in Client, NEW k \in Job, InFlight(d, k)'
                PROVE  (Enqueues(d, k) \/ Cancels(d, k))'
    BY DEF RequestsAreMild
  <2>1. d # c /\ pending'[d] = pending[d] BY <1>2 DEF Actor
  <2>2. InFlight(d, k) BY <2>1 DEF InFlight
  <2>3. CASE Enqueues(d, k)
    <3>1. jobs'[k].status = "absent" BY <1>3, <2>1, <2>3 DEF Enqueues
    <3>2. \A e \in Client : InFlight(e, k)' => InFlight(e, k)
      BY <1>2 DEF Actor, InFlight
    <3>. QED BY <2>1, <2>3, <3>1, <3>2 DEF Enqueues
  <2>4. CASE Cancels(d, k)
    <3>1. jobs'[k].status # "absent" BY <1>3, <2>4 DEF Cancels
    <3>. QED BY <2>1, <2>4, <3>1 DEF Cancels
  <2>. QED BY <2>2, <2>3, <2>4 DEF QuietInv, RequestsAreMild
<1>8. FinishEnds'
  <2>1. \A w \in Worker : pending'[w] = pending[w]
    BY <1>2, JobQueueAssumption DEF Actor
  <2>2. \A j \in Job : jobs[j].status \in Terminal => jobs'[j].status \in Terminal
    BY <1>3 DEF Terminal
  <2>. QED BY <1>1, <2>1, <2>2 DEF QuietInv, FinishEnds, InFlight
<1>. QED BY <1>4, <1>5, <1>6, <1>7, <1>8 DEF QuietInv

-----------------------------------------------------------------------------
(***************************************************************************)
(* The theorem.                                                            *)
(***************************************************************************)
LEMMA QuietBegins == Init => QuietInv
<1>. SUFFICES ASSUME Init PROVE QuietInv OBVIOUS
<1>1. \A w \in Worker : pc[w] = "off" BY DEF Init
<1>2. \A j \in Job : jobs[j].status = "absent" BY DEF Init, NoRow
<1>3. \A a \in Actor, j \in Job : ~InFlight(a, j)
  BY DEF Init, InFlight, NothingPending, NoUpdate
<1>4. AllIsWell BY <1>1 DEF AllIsWell
<1>5. RunningIsAttended BY <1>2 DEF RunningIsAttended
<1>6. StartedIsOut /\ ExclusiveExecution
  BY <1>1 DEF StartedIsOut, ExclusiveExecution, Executes, Executing
<1>7. RequestsAreMild /\ FinishEnds BY <1>3 DEF RequestsAreMild, FinishEnds, Actor
<1>. QED BY <1>4, <1>5, <1>6, <1>7 DEF QuietInv

LEMMA QuietStep == Quiet /\ IInv /\ QuietInv /\ [Next]_vars => QuietInv'
<1>. SUFFICES ASSUME Quiet, IInv, QuietInv, [Next]_vars PROVE QuietInv' OBVIOUS
<1>. USE DEF IInv
<1>1. CASE UNCHANGED vars
  BY <1>1 DEF vars, table, threads, QuietInv, AllIsWell, RunningIsAttended, StartedIsOut,
              RequestsAreMild, Enqueues, Cancels, FinishEnds, ExclusiveExecution, Executes,
              InFlight
<1>2. ASSUME NEW w \in Worker, MainThread(w) PROVE QuietInv'
  <2>1. ~LoadStale(w) /\ ~CommitRecovery(w)
    BY DEF LoadStale, CommitRecovery, Goto, QuietInv, AllIsWell
  <2>. QED BY <1>2, <2>1, PollingKeeps, HeartbeatsKeep, ClaimKeeps, LoadFinishKeeps,
              CommitFinishKeeps DEF MainThread
<1>3. ASSUME NEW w \in Worker, Crash(w) PROVE QuietInv'
  <2>1. {v \in Worker : pc[v] = "dead"} = {} BY DEF QuietInv, AllIsWell
  <2>2. Cardinality({v \in Worker : pc[v] = "dead"}) = 0 BY <2>1, FS_EmptySet
  <2>. QED BY <1>3, <2>2 DEF Crash, Quiet
<1>4. ASSUME NEW w \in Worker, Boot(w) PROVE QuietInv' BY <1>4, PollingKeeps
<1>5. ASSUME \/ \E w \in Worker : ReadHeartbeat(w) \/ WriteHeartbeat(w)
             \/ \E j \in Job : Expire(j)
      PROVE  QuietInv'
  BY <1>5, HeartbeatsKeep
<1>6. ASSUME NEW c \in Client,
             \/ CommitRequest(c)
             \/ \E j \in Job : EnqueueJob(c, j) \/ RequestCancel(c, j) \/ RetryJob(c, j)
      PROVE  QuietInv'
  BY <1>6, ReadsKeep, RequestsKeep
<1>. QED BY <1>1, <1>2, <1>3, <1>4, <1>5, <1>6 DEF Next

\* As long as heartbeats are in time, no worker dies and nothing is retried, no
\* two workers execute one job, however many there are of workers, requests and
\* cancellations (M6_EXECUTION_GUIDE, "two workers do not execute the same queued
\* job").  QueueTwoRecoveries shows that the conditions are needed.
THEOREM ExecutionIsExclusive == Quiet => (Spec => []ExclusiveExecution)
<1>. SUFFICES ASSUME Quiet PROVE Spec => []ExclusiveExecution OBVIOUS
<1>1. QuietInv => ExclusiveExecution BY DEF QuietInv
<1>2. IInv /\ QuietInv /\ [Next]_vars => QuietInv' BY QuietStep
<1>. QED BY <1>1, <1>2, QuietBegins, Invariance, PTL DEF Spec

\* Nor is any job recovered then.
THEOREM NothingIsStale == Quiet => (Spec => [](StaleJobs = {}))
<1>. SUFFICES ASSUME Quiet PROVE Spec => [](StaleJobs = {}) OBVIOUS
<1>1. QuietInv => StaleJobs = {} BY DEF QuietInv, RunningIsAttended, StaleJobs
<1>2. IInv /\ QuietInv /\ [Next]_vars => QuietInv' BY QuietStep
<1>. QED BY <1>1, <1>2, QuietBegins, Invariance, PTL DEF Spec

-----------------------------------------------------------------------------
(***************************************************************************)
(* The order of claims.  With one request at a time, rows enter the queue  *)
(* in the order of their dates, so a candidate stays the oldest.           *)
(***************************************************************************)
OneClient == \A c, d \in Client : c = d

\* A unit of work that does not touch what the candidate query sorts and
\* filters by, but for the cancellation flag, which it may set.
KeepsDate(u) ==
  /\ u.new.queued_at = u.old.queued_at
  /\ u.new.attempts = u.old.attempts /\ u.new.max_attempts = u.old.max_attempts
  /\ u.new.cancel_requested = u.old.cancel_requested \/ u.new.cancel_requested

\* No row is dated in the future, and one that is being inserted is the newest.
RowsAreDated ==
  \A j \in Job : /\ jobs[j].queued_at <= now
                 /\ jobs[j].status = "absent" => jobs[j].queued_at = 0

WritesAreDated ==
  \A a \in Actor, j \in Job : InFlight(a, j) =>
    LET u == pending[a][j] IN
    IF jobs[j].status = "absent" THEN u.old.queued_at = 0 /\ u.new.queued_at = now
                                 ELSE KeepsDate(u)

OldestAtClaim ==
  \A w \in Worker : pc[w] = "claim" =>
    /\ jobs[cur[w]].status # "absent"
    /\ Claimable(cur[w]) =>
         \A k \in Eligible : jobs[cur[w]].queued_at <= jobs[k].queued_at

OrderInv == RowsAreDated /\ WritesAreDated /\ OldestAtClaim

\* A row keeps its date and gets no more eligible, or enters the queue now.
Calm(j) ==
  /\ jobs'[j].queued_at = jobs[j].queued_at
  /\ jobs'[j].status = "absent" <=> jobs[j].status = "absent"
  /\ Claimable(j)' => Claimable(j)
  /\ Claimable(j)' /\ jobs'[j].attempts < jobs'[j].max_attempts
       => jobs[j].attempts < jobs[j].max_attempts

Enters(j) ==
  /\ jobs[j].status = "absent" /\ jobs'[j].status = "queued"
  /\ jobs'[j].queued_at = now /\ now' = now
  /\ \A c \in Client : ~InFlight(c, j)'

LEMMA FlushedDates ==
  ASSUME NEW r \in Row, NEW u \in Update
  PROVE  LET s == Flush(r, u) IN
         /\ s.queued_at = IF u.new.queued_at # u.old.queued_at
                          THEN u.new.queued_at ELSE r.queued_at
         /\ s.attempts = IF u.new.attempts # u.old.attempts
                         THEN u.new.attempts ELSE r.attempts
         /\ s.max_attempts = IF u.new.max_attempts # u.old.max_attempts
                             THEN u.new.max_attempts ELSE r.max_attempts
         /\ s.cancel_requested = IF u.new.cancel_requested # u.old.cancel_requested
                                 THEN u.new.cancel_requested ELSE r.cancel_requested
BY DEF Flush, Row, Update, Stampable

\* Only clients write to a row that is not there.
LEMMA WorkersWriteRows ==
  ASSUME QuietInv, NEW w \in Worker, NEW j \in Job, InFlight(w, j)
  PROVE  jobs[j].status # "absent"
BY DEF QuietInv, FinishEnds, StartedIsOut, Executes, Executing, Terminal

LEMMA RowMoves ==
  ASSUME IInv, QuietInv, OrderInv, [Next]_vars, NEW j \in Job
  PROVE  Calm(j) \/ Enters(j)
<1>. USE DEF IInv
<1>1. CASE UNCHANGED <<jobs, tickets, starts>> BY <1>1 DEF Calm, Claimable
<1>2. ASSUME NEW k \in Job, NEW h \in Heartbeat, Dates(k, h) PROVE Calm(j)
  BY <1>2 DEF TypeOK, Dates, Row, Calm, Claimable
<1>3. ASSUME NEW w \in Worker, ClaimWon(w) PROVE Calm(j)
  <2>1. CASE j # cur[w] BY <1>3, <2>1, ClaimRow DEF Calm, Claimable
  <2>2. CASE j = cur[w]
    <3>1. jobs'[j] = Claimed(jobs[j], w) /\ jobs[j] \in Row
      BY <1>3, <2>2 DEF ClaimWon, TypeOK
    <3>2. jobs'[j].queued_at = jobs[j].queued_at BY <3>1 DEF Claimed, Row
    <3>. QED BY <1>3, <2>2, <3>2, ClaimRow DEF Calm, Claimable
  <2>. QED BY <2>1, <2>2
<1>4. ASSUME NEW a \in Actor, Commit(a) PROVE Calm(j) \/ Enters(j)
  <2>1. CASE ~InFlight(a, j)
    <3>1. jobs'[j] = jobs[j] BY <1>4, <2>1 DEF Commit
    <3>. QED BY <3>1 DEF Calm, Claimable
  <2>2. CASE InFlight(a, j)
    <3>. DEFINE u == pending[a][j]
    <3>1. jobs'[j] = Flush(jobs[j], u) /\ now' = now BY <1>4, <2>2 DEF Commit
    <3>2. jobs[j] \in Row /\ u \in Update BY DEF TypeOK
    <3>3. IF jobs[j].status = "absent" THEN u.old.queued_at = 0 /\ u.new.queued_at = now
                                       ELSE KeepsDate(u)
      BY <2>2 DEF OrderInv, WritesAreDated
    <3>4. a \in Worker =>
            /\ u.new.status \in Terminal
            /\ u.old.status = "running" \/ jobs[j].status \in Terminal
      BY <2>2 DEF QuietInv, FinishEnds
    <3>5. a \in Client => Enqueues(a, j) \/ Cancels(a, j)
      BY <2>2 DEF QuietInv, RequestsAreMild
    <3>6. CASE jobs[j].status = "absent"
      <4>1. a \in Client /\ Enqueues(a, j)
        BY <2>2, <3>5, <3>6, WorkersWriteRows DEF Actor, Cancels
      <4>2. jobs'[j].status = "queued" BY <3>1, <3>2, <3>6, <4>1, FlushedColumns DEF Enqueues
      <4>3. jobs[j].queued_at = 0 BY <3>6 DEF OrderInv, RowsAreDated
      <4>4. jobs'[j].queued_at = now BY <3>1, <3>2, <3>3, <3>6, <4>3, FlushedDates
      <4>5. \A c \in Client : ~InFlight(c, j)'
        <5>1. /\ ~InFlight(a, j)' /\ \A b \in Actor : b # a => pending'[b] = pending[b]
          BY <1>4 DEF Commit, InFlight, NothingPending, NoUpdate, TypeOK
        <5>. QED BY <4>1, <5>1 DEF Enqueues, InFlight, Actor
      <4>. QED BY <3>1, <3>6, <4>2, <4>4, <4>5 DEF Enters
    <3>7. CASE jobs[j].status # "absent"
      <4>1. jobs'[j].status \in {jobs[j].status} \cup Terminal
        <5>1. CASE a \in Worker BY <3>1, <3>2, <3>4, <5>1, FlushedColumns
        <5>2. CASE a \in Client
          <6>1. Cancels(a, j) BY <3>5, <3>7, <5>2 DEF Enqueues
          <6>. QED BY <3>1, <3>2, <6>1, FlushedColumns DEF Cancels, Terminal
        <5>. QED BY <5>1, <5>2 DEF Actor
      <4>2. /\ jobs'[j].queued_at = jobs[j].queued_at
            /\ jobs'[j].attempts = jobs[j].attempts
            /\ jobs'[j].max_attempts = jobs[j].max_attempts
        BY <3>1, <3>2, <3>3, <3>7, FlushedDates DEF KeepsDate
      <4>3. jobs'[j].cancel_requested = jobs[j].cancel_requested \/ jobs'[j].cancel_requested
        BY <3>1, <3>2, <3>3, <3>7, FlushedDates DEF KeepsDate
      <4>. QED BY <3>7, <4>1, <4>2, <4>3 DEF Calm, Claimable, Terminal
    <3>. QED BY <3>6, <3>7
  <2>. QED BY <2>1, <2>2
<1>. QED BY <1>1, <1>2, <1>3, <1>4, TableStep DEF TableSteps

\* What a step does to the clock and to the open sessions.
LEMMA SessionMoves ==
  ASSUME Quiet, QuietInv, [Next]_vars
  PROVE  \/ now' = now /\ pending' = pending
         \/ now' = now /\ \E a \in Actor : Commit(a)
         \/ \E w \in Worker : LoadFinish(w)
         \/ \E c \in Client, j \in Job : EnqueueJob(c, j) \/ RequestCancel(c, j)
<1>. USE DEF table, threads
<1>1. CASE UNCHANGED vars BY <1>1 DEF vars
<1>2. ASSUME NEW w \in Worker, MainThread(w)
      PROVE  \/ now' = now /\ pending' = pending
             \/ now' = now /\ Commit(w)
             \/ LoadFinish(w)
  <2>1. ~LoadStale(w) /\ ~CommitRecovery(w)
    BY DEF LoadStale, CommitRecovery, Goto, QuietInv, AllIsWell
  <2>2. CASE CommitFinish(w) BY <2>2 DEF CommitFinish, Commit
  <2>. QED
    BY <1>2, <2>1, <2>2 DEF MainThread, ScanStale, CandidateFound, NoCandidate, ClaimWon,
       ClaimLost, Progress, CheckCancel, RaiseError, Finish
<1>3. ASSUME NEW w \in Worker, Boot(w) \/ ReadHeartbeat(w) \/ WriteHeartbeat(w)
      PROVE  now' = now /\ pending' = pending
  BY <1>3 DEF Boot, ReadHeartbeat, WriteHeartbeat
<1>4. ASSUME NEW w \in Worker PROVE ~Crash(w)
  <2>1. {v \in Worker : pc[v] = "dead"} = {} BY DEF QuietInv, AllIsWell
  <2>2. Cardinality({v \in Worker : pc[v] = "dead"}) = 0 BY <2>1, FS_EmptySet
  <2>. QED BY <2>2 DEF Crash, Quiet
<1>5. ASSUME NEW j \in Job, Expire(j)
      PROVE  now' = now /\ pending' = pending
  BY <1>5 DEF Expire
<1>6. ASSUME NEW c \in Client, CommitRequest(c) PROVE now' = now /\ Commit(c)
  BY <1>6 DEF CommitRequest, Commit
<1>7. \A c \in Client, j \in Job : ~RetryJob(c, j) BY DEF RetryJob, Quiet
<1>. QED BY <1>1, <1>2, <1>3, <1>4, <1>5, <1>6, <1>7 DEF Next, Actor

LEMMA DatesStep ==
  ASSUME IInv, QuietInv, OrderInv, Quiet, [Next]_vars
  PROVE  RowsAreDated' /\ now' \in {now, now + 1}
<1>1. now' \in {now, now + 1}
  BY SessionMoves DEF LoadFinish, EnqueueJob, RequestCancel, table
<1>2. ASSUME NEW j \in Job
      PROVE  /\ jobs'[j].queued_at <= now'
             /\ jobs'[j].status = "absent" => jobs'[j].queued_at = 0
  <2>1. now \in Nat /\ jobs[j].queued_at \in Nat BY DEF IInv, TypeOK, Row
  <2>2. CASE Calm(j) BY <1>1, <2>1, <2>2 DEF Calm, OrderInv, RowsAreDated
  <2>3. CASE Enters(j) BY <2>1, <2>3 DEF Enters
  <2>. QED BY <2>2, <2>3, RowMoves
<1>. QED BY <1>1, <1>2 DEF RowsAreDated

\* Units of work that stay open stay what they are.
LEMMA OpenWrites ==
  ASSUME IInv, QuietInv, OrderInv, [Next]_vars, now' = now,
         NEW a \in Actor, NEW j \in Job,
         InFlight(a, j)', pending'[a][j] = pending[a][j]
  PROVE  LET u == pending'[a][j] IN
         IF jobs'[j].status = "absent" THEN u.old.queued_at = 0 /\ u.new.queued_at = now'
                                       ELSE KeepsDate(u)
<1>1. InFlight(a, j) BY DEF InFlight
<1>2. CASE Calm(j) BY <1>1, <1>2 DEF Calm, OrderInv, WritesAreDated
<1>3. CASE Enters(j) BY <1>1, <1>3, WorkersWriteRows DEF Enters, Actor
<1>. QED BY <1>2, <1>3, RowMoves

LEMMA FinishKeepsDate ==
  ASSUME NEW r \in Row, NEW result \in Terminal PROVE KeepsDate(FinishUpdate(r, result))
<1>1. /\ Finished(r, result).queued_at = r.queued_at
      /\ Finished(r, result).attempts = r.attempts
      /\ Finished(r, result).max_attempts = r.max_attempts
      /\ Finished(r, result).cancel_requested = r.cancel_requested
  BY DEF Finished, Row
<1>. QED BY <1>1 DEF KeepsDate, FinishUpdate

LEMMA CancelKeepsDate == ASSUME NEW r \in Row PROVE KeepsDate(CancelUpdate(r))
<1>1. /\ CancelRequested(r).queued_at = r.queued_at
      /\ CancelRequested(r).attempts = r.attempts
      /\ CancelRequested(r).max_attempts = r.max_attempts
      /\ CancelRequested(r).cancel_requested
  BY DEF CancelRequested, Row
<1>. QED BY <1>1 DEF KeepsDate, CancelUpdate

LEMMA EnqueueIsDated ==
  ASSUME NEW limit, NEW t
  PROVE  /\ EnqueueUpdate(limit, t).old.queued_at = 0
         /\ EnqueueUpdate(limit, t).new.queued_at = t
<1>1. NoRow.queued_at = 0 BY DEF NoRow
<1>2. Enqueued(limit, t).queued_at = t BY DEF Enqueued, NoRow
<1>. QED BY <1>1, <1>2 DEF EnqueueUpdate

LEMMA WritesStep ==
  ASSUME IInv, QuietInv, OrderInv, Quiet, OneClient, [Next]_vars
  PROVE  WritesAreDated'
<1>. USE DEF IInv
<1>. SUFFICES ASSUME NEW a \in Actor, NEW j \in Job, InFlight(a, j)'
              PROVE  LET u == pending'[a][j] IN
                     IF jobs'[j].status = "absent"
                     THEN u.old.queued_at = 0 /\ u.new.queued_at = now'
                     ELSE KeepsDate(u)
  BY DEF WritesAreDated, KeepsDate
<1>1. CASE now' = now /\ pending' = pending BY <1>1, OpenWrites
<1>2. ASSUME NEW b \in Actor, Commit(b), now' = now
      PROVE  pending'[a][j] = pending[a][j]
  BY <1>2 DEF Commit, InFlight, NothingPending, NoUpdate, TypeOK
<1>3. ASSUME NEW w \in Worker, LoadFinish(w)
      PROVE  \/ now' = now /\ pending'[a][j] = pending[a][j]
             \/ jobs'[j].status # "absent" /\ KeepsDate(pending'[a][j])
  <2>1. /\ cur[w] \in Job /\ outcome[w] \in Terminal /\ pc[w] = "finish"
        /\ jobs' = jobs /\ now' = now
        /\ Stage(w, cur[w], FinishUpdate(jobs[cur[w]], outcome[w]))
    BY <1>3 DEF LoadFinish, Goto, TypeOK, Executing, table
  <2>2. CASE a = w /\ j = cur[w]
    <3>1. pending'[a][j] = FinishUpdate(jobs[j], outcome[w])
      BY <2>1, <2>2 DEF Stage, TypeOK, Actor
    <3>2. jobs[j].status # "absent"
      BY <2>1, <2>2 DEF QuietInv, StartedIsOut, Executes, Executing, Terminal
    <3>3. jobs[j] \in Row BY DEF TypeOK
    <3>. QED BY <2>1, <3>1, <3>2, <3>3, FinishKeepsDate
  <2>3. CASE a # w \/ j # cur[w] BY <2>1, <2>3 DEF Stage, TypeOK, Actor
  <2>. QED BY <2>2, <2>3
<1>4. ASSUME NEW c \in Client, NEW k \in Job, RequestCancel(c, k)
      PROVE  \/ now' = now /\ pending'[a][j] = pending[a][j]
             \/ jobs'[j].status # "absent" /\ KeepsDate(pending'[a][j])
  <2>1. /\ jobs' = jobs /\ now' = now /\ jobs[k].status # "absent"
        /\ Stage(c, k, CancelUpdate(jobs[k]))
    BY <1>4 DEF RequestCancel, table, Active
  <2>2. CASE a = c /\ j = k
    <3>1. pending'[a][j] = CancelUpdate(jobs[j]) /\ jobs[j] \in Row
      BY <2>1, <2>2 DEF Stage, TypeOK
    <3>. QED BY <2>1, <2>2, <3>1, CancelKeepsDate
  <2>3. CASE a # c \/ j # k BY <2>1, <2>3 DEF Stage, TypeOK, Actor
  <2>. QED BY <2>2, <2>3
<1>5. ASSUME NEW c \in Client, NEW k \in Job, EnqueueJob(c, k)
      PROVE  LET u == pending'[a][j] IN
             IF jobs'[j].status = "absent"
             THEN u.old.queued_at = 0 /\ u.new.queued_at = now'
             ELSE KeepsDate(u)
  <2>1. PICK limit \in AttemptLimits : Stage(c, k, EnqueueUpdate(limit, now + 1))
    BY <1>5 DEF EnqueueJob
  <2>2. jobs' = jobs /\ now' = now + 1 /\ jobs[k].status = "absent" BY <1>5 DEF EnqueueJob
  <2>3. CASE a = c /\ j = k
    <3>1. pending'[a][j] = EnqueueUpdate(limit, now + 1)
      BY <2>1, <2>3 DEF Stage, TypeOK
    <3>. QED BY <2>2, <2>3, <3>1, EnqueueIsDated
  <2>4. CASE a # c \/ j # k
    <3>1. pending'[a][j] = pending[a][j] /\ InFlight(a, j)
      BY <2>1, <2>4 DEF Stage, TypeOK, Actor, InFlight
    <3>2. a \in Worker BY <1>5, <3>1 DEF EnqueueJob, Free, OneClient, Actor
    <3>3. jobs[j].status # "absent" BY <3>1, <3>2, WorkersWriteRows
    <3>. QED BY <2>2, <3>1, <3>3 DEF OrderInv, WritesAreDated
  <2>. QED BY <2>3, <2>4
<1>. QED BY <1>1, <1>2, <1>3, <1>4, <1>5, OpenWrites, SessionMoves

\* A worker about to claim found its candidate in this step or before it.
LEMMA ClaimMoves ==
  ASSUME TypeOK, [Next]_vars, NEW w \in Worker, pc'[w] = "claim"
  PROVE  \/ pc[w] = "claim" /\ cur'[w] = cur[w]
         \/ CandidateFound(w)
<1>. USE DEF threads
<1>1. CASE UNCHANGED <<pc, cur>> BY <1>1
<1>2. ASSUME NEW v \in Worker, MainThread(v) \/ Boot(v) \/ Crash(v), v # w
      PROVE  pc'[w] = pc[w] /\ cur'[w] = cur[w]
  BY <1>2 DEF MainThread, Boot, Crash, ScanStale, LoadStale, CommitRecovery, CandidateFound,
       NoCandidate, ClaimWon, ClaimLost, Progress, CheckCancel, RaiseError, LoadFinish,
       CommitFinish, Finish, Goto, TypeOK
<1>3. ASSUME MainThread(w) \/ Boot(w) \/ Crash(w), ~CandidateFound(w) PROVE pc'[w] # "claim"
  BY <1>3 DEF MainThread, Boot, Crash, ScanStale, LoadStale, CommitRecovery,
       NoCandidate, ClaimWon, ClaimLost, Progress, CheckCancel, RaiseError, LoadFinish,
       CommitFinish, Finish, Goto, TypeOK
<1>4. \/ UNCHANGED <<pc, cur>>
      \/ \E v \in Worker : MainThread(v) \/ Boot(v) \/ Crash(v)
  BY DEF Next, ReadHeartbeat, WriteHeartbeat, Expire,
         CommitRequest, EnqueueJob, RequestCancel, RetryJob, vars
<1>. QED BY <1>1, <1>2, <1>3, <1>4

LEMMA OldestStep ==
  ASSUME IInv, QuietInv, OrderInv, Quiet, [Next]_vars
  PROVE  OldestAtClaim'
<1>. SUFFICES ASSUME NEW w \in Worker, pc'[w] = "claim"
              PROVE  /\ jobs'[cur'[w]].status # "absent"
                     /\ Claimable(cur[w])' =>
                          \A k \in Eligible' : jobs'[cur'[w]].queued_at <= jobs'[k].queued_at
  BY DEF OldestAtClaim
<1>1. CASE CandidateFound(w)
  <2>1. jobs' = jobs /\ cur'[w] \in Candidates
    BY <1>1 DEF CandidateFound, table, IInv, TypeOK, Candidates, Eligible
  <2>. QED BY <2>1 DEF Candidates, Eligible
<1>2. CASE pc[w] = "claim" /\ cur'[w] = cur[w]
  <2>1. PICK j \in Job : j = cur[w] BY <1>2 DEF IInv, TypeOK
  <2>2. /\ jobs[j].status # "absent"
        /\ Claimable(j) => \A k \in Eligible : jobs[j].queued_at <= jobs[k].queued_at
    BY <1>2, <2>1 DEF OrderInv, OldestAtClaim
  <2>3. Calm(j) BY <2>1, <2>2, RowMoves DEF Enters
  <2>4. jobs[j].queued_at <= now BY <2>1 DEF OrderInv, RowsAreDated
  <2>5. ASSUME Claimable(j)', NEW k \in Eligible'
        PROVE  jobs'[j].queued_at <= jobs'[k].queued_at
    <3>1. k \in Job /\ Claimable(k)' /\ jobs'[k].attempts < jobs'[k].max_attempts
      BY <2>5 DEF Eligible, Claimable
    <3>2. CASE Calm(k)
      <4>1. k \in Eligible BY <3>1, <3>2 DEF Calm, Eligible, Claimable
      <4>. QED BY <2>2, <2>3, <2>5, <3>2, <4>1 DEF Calm
    <3>3. CASE Enters(k) BY <2>3, <2>4, <3>3 DEF Calm, Enters
    <3>. QED BY <3>1, <3>2, <3>3, RowMoves
  <2>6. cur'[w] = j BY <1>2, <2>1
  <2>. QED BY <2>2, <2>3, <2>5, <2>6 DEF Calm, Claimable
<1>. QED BY <1>1, <1>2, ClaimMoves DEF IInv

\* With one request at a time, and in good times as above, a job that starts is
\* the oldest that could have been started (M6_EXECUTION_GUIDE, "oldest-job-first
\* claiming"), although the query and the claim are two statements.
THEOREM ClaimsAreInOrder == Quiet /\ OneClient => (Spec => OldestFirst)
<1>. SUFFICES ASSUME Quiet, OneClient PROVE Spec => OldestFirst OBVIOUS
<1>. DEFINE Inv == IInv /\ QuietInv /\ OrderInv
<1>1. Init => OrderInv
  <2>. SUFFICES ASSUME Init PROVE OrderInv OBVIOUS
  <2>1. \A j \in Job : jobs[j].status = "absent" /\ jobs[j].queued_at = 0 BY DEF Init, NoRow
  <2>2. \A a \in Actor, j \in Job : ~InFlight(a, j)
    BY DEF Init, InFlight, NothingPending, NoUpdate
  <2>3. RowsAreDated BY <2>1 DEF Init, RowsAreDated
  <2>4. WritesAreDated BY <2>2 DEF WritesAreDated
  <2>5. OldestAtClaim BY DEF Init, OldestAtClaim
  <2>. QED BY <2>3, <2>4, <2>5 DEF OrderInv
<1>2. Inv /\ [Next]_vars => OrderInv'
  BY DatesStep, WritesStep, OldestStep DEF OrderInv, IInv
<1>3. IInv /\ QuietInv /\ [Next]_vars => QuietInv' BY QuietStep
<1>4. Inv /\ [Next]_vars =>
        [\A j \in Job : starts'[j] # starts[j] =>
           \A k \in Eligible : jobs[j].queued_at <= jobs[k].queued_at]_vars
  <2>. SUFFICES ASSUME Inv, [Next]_vars, NEW j \in Job, starts'[j] # starts[j],
                       NEW k \in Eligible
                PROVE  jobs[j].queued_at <= jobs[k].queued_at
    OBVIOUS
  <2>1. PICK w \in Worker : ClaimWon(w)
    BY TableStep DEF TableSteps, Dates, Commit, IInv
  <2>2. cur[w] = j BY <2>1 DEF ClaimWon, IInv, TypeOK
  <2>. QED BY <2>1, <2>2 DEF ClaimWon, Goto, OrderInv, OldestAtClaim
<1>. QED BY <1>1, <1>2, <1>3, <1>4, QuietBegins, Invariance, PTL DEF Spec, OldestFirst

-----------------------------------------------------------------------------
(***************************************************************************)
(* The life of a job.  With one worker at a time, one request at a time    *)
(* and no cancellations, whatever is read is still true when it is         *)
(* committed, although workers die and running jobs are recovered and      *)
(* retried: the rows move as the state diagram has it, but for the retries *)
(* of jobs without attempts left.                                          *)
(***************************************************************************)
Serial == Replicas = 1 /\ OneClient /\ "cancel" \notin Requests

SameCounts(r, s) == s.attempts = r.attempts /\ s.max_attempts = r.max_attempts

SameLife(r, s) == s.status = r.status /\ SameCounts(r, s)

\* retry_job at the limit: the guide refuses it, the code raises the limit.
RaisesLimit(r, s) ==
  /\ r.status \in Retryable /\ s.status = "queued"
  /\ r.attempts >= r.max_attempts
  /\ s.attempts = 0 /\ s.max_attempts = r.attempts + RetryGrant

\* The arrows of the diagram that a commit takes a row along, and that retry.
Arrow(r, s) ==
  \/ /\ r.status = "absent" /\ s.status = "queued"
     /\ s.attempts = r.attempts /\ s.max_attempts > 0
  \/ r.status = "running" /\ s.status \in Terminal /\ SameCounts(r, s)
  \/ /\ r.status = "running" /\ s.status = "queued"
     /\ r.attempts < r.max_attempts /\ SameCounts(r, s)
  \/ /\ r.status \in Retryable /\ s.status = "queued"
     /\ r.attempts < r.max_attempts
     /\ s.attempts = 0 /\ s.max_attempts = r.max_attempts
  \/ RaisesLimit(r, s)

OneAlive == \A v, w \in Worker : Alive(v) /\ Alive(w) => v = w

\* What the worker has seen of a row is still so.
ScannedRuns ==
  \A w \in Worker : \A j \in todo[w] : pc[w] = "load" /\ jobs[j].status = "running"

CandidateWaits ==
  \A w \in Worker : pc[w] = "claim" =>
    /\ jobs[cur[w]].status = "queued"
    /\ jobs[cur[w]].attempts < jobs[cur[w]].max_attempts

ExecutedRuns ==
  \A w \in Worker : pc[w] \in Executing => jobs[cur[w]].status = "running"

AbsentIsBlank ==
  \A j \in Job : jobs[j].status = "absent" =>
    jobs[j].attempts = 0 /\ jobs[j].max_attempts = 0

\* What is pending was computed from the row as it is; the worker writes to
\* running rows and the client to rows that are out of the worker's reach.
Fits(a, j) ==
  LET u == pending[a][j] IN
  /\ SameLife(u.old, jobs[j]) /\ Arrow(u.old, u.new)
  /\ a \in Worker => pc[a] \in {"load", "recover", "commit"} /\ jobs[j].status = "running"
  /\ a \in Client => jobs[j].status \notin Active

WritesFit == \A a \in Actor, j \in Job : InFlight(a, j) => Fits(a, j)

SerialInv ==
  /\ OneAlive /\ ScannedRuns /\ CandidateWaits /\ ExecutedRuns
  /\ AbsentIsBlank /\ WritesFit

\* What each handler makes of a row is one of the arrows.
LEMMA HandlersFollow ==
  ASSUME NEW r \in Row, NEW t \in Nat
  PROVE  /\ r.status = "running" => Arrow(r, RecoverUpdate(r, t).new)
         /\ r.status \in Retryable => Arrow(r, RetryUpdate(r, t).new)
         /\ \A result \in Terminal : r.status = "running" => Arrow(r, FinishUpdate(r, result).new)
<1>. USE DEF Row, SameCounts
<1>1. r.status = "running" => Arrow(r, Recovered(r, t))
  <2>1. CASE OutOfAttempts(r)
    BY <2>1 DEF Recovered, Arrow, Terminal
  <2>2. CASE ~OutOfAttempts(r)
    <3>1. r.attempts < r.max_attempts BY <2>2 DEF OutOfAttempts
    <3>. QED BY <2>2, <3>1 DEF Recovered, Arrow
  <2>. QED BY <2>1, <2>2
<1>2. r.status \in Retryable => Arrow(r, Retried(r, t))
  <2>. SUFFICES ASSUME r.status \in Retryable PROVE Arrow(r, Retried(r, t)) OBVIOUS
  <2>. DEFINE m == IF OutOfAttempts(r) THEN r.attempts + RetryGrant ELSE r.max_attempts
  <2>1. \/ r.attempts < r.max_attempts /\ m = r.max_attempts
        \/ r.attempts >= r.max_attempts /\ m = r.attempts + RetryGrant
    BY DEF OutOfAttempts
  <2>. HIDE DEF m
  <2>2. Retried(r, t) =
          [r EXCEPT !.max_attempts = m, !.attempts = 0, !.status = "queued",
                    !.cancel_requested = FALSE, !.queued_at = t, !.completed_at = FALSE,
                    !.locked_by = NoWorker, !.heartbeat_at = "none"]
    BY DEF Retried, m
  <2>3. /\ Retried(r, t).max_attempts = m /\ Retried(r, t).attempts = 0
        /\ Retried(r, t).status = "queued"
    BY <2>2
  <2>. QED BY <2>1, <2>3 DEF Arrow, RaisesLimit
<1>3. \A result \in Terminal : r.status = "running" => Arrow(r, Finished(r, result))
  BY DEF Finished, Arrow
<1>. QED BY <1>1, <1>2, <1>3 DEF RecoverUpdate, RetryUpdate, FinishUpdate

LEMMA EnqueueFollows ==
  ASSUME NEW limit \in AttemptLimits, NEW t \in Nat
  PROVE  /\ EnqueueUpdate(limit, t).old = NoRow
         /\ Arrow(NoRow, EnqueueUpdate(limit, t).new)
<1>1. /\ Enqueued(limit, t).status = "queued" /\ Enqueued(limit, t).attempts = 0
      /\ Enqueued(limit, t).max_attempts = limit
  BY DEF Enqueued, NoRow
<1>2. limit > 0 BY JobQueueAssumption
<1>3. NoRow.status = "absent" /\ NoRow.attempts = 0 BY DEF NoRow
<1>. QED BY <1>1, <1>2, <1>3 DEF EnqueueUpdate, Arrow

\* A commit takes its rows along their arrows.
LEMMA CommitFollows ==
  ASSUME TypeOK, WritesFit, NEW a \in Actor, Commit(a), NEW j \in Job
  PROVE  /\ ~InFlight(a, j) => jobs'[j] = jobs[j]
         /\ InFlight(a, j) => Fits(a, j) /\ Arrow(jobs[j], jobs'[j])
<1>1. CASE ~InFlight(a, j) BY <1>1 DEF Commit
<1>2. CASE InFlight(a, j)
  <2>. DEFINE u == pending[a][j]
  <2>1. jobs'[j] = Flush(jobs[j], u) BY <1>2 DEF Commit
  <2>2. Fits(a, j) BY <1>2 DEF WritesFit
  <2>3. jobs[j] \in Row /\ u \in Update BY DEF TypeOK
  <2>4. SameLife(u.old, jobs[j]) /\ Arrow(u.old, u.new) BY <2>2 DEF Fits
  <2>. HIDE DEF u
  <2>5. SameLife(u.new, jobs'[j])
    BY <2>1, <2>3, <2>4, FlushedColumns, FlushedDates DEF SameLife, SameCounts
  <2>6. Arrow(jobs[j], jobs'[j])
    BY <2>4, <2>5 DEF Arrow, RaisesLimit, SameLife, SameCounts
  <2>. QED BY <1>2, <2>2, <2>6
<1>. QED BY <1>1, <1>2

\* Nobody else has a row in hand that is committed.
LEMMA OthersKeepOff ==
  ASSUME Serial, OneAlive, WritesFit, NEW a \in Actor, NEW b \in Actor, NEW j \in Job,
         InFlight(a, j), InFlight(b, j)
  PROVE  a = b
<1>1. Fits(a, j) /\ Fits(b, j) BY DEF WritesFit
<1>2. ASSUME NEW w \in Worker, Fits(w, j)
      PROVE  Alive(w) /\ jobs[j].status \in Active
  BY <1>2 DEF Fits, Alive, Active
<1>3. CASE a \in Worker /\ b \in Worker BY <1>1, <1>2, <1>3 DEF OneAlive
<1>4. CASE a \in Client /\ b \in Client BY <1>4 DEF Serial, OneClient
<1>. QED BY <1>1, <1>2, <1>3, <1>4 DEF Actor, Fits

-----------------------------------------------------------------------------
\* A step of worker w that commits nothing.
LEMMA WorkerKeeps ==
  ASSUME TypeOK, SerialInv, NEW w \in Worker,
         \A j \in Job : SameLife(jobs[j], jobs'[j]),
         \A v \in Worker : v # w =>
           pc'[v] = pc[v] /\ cur'[v] = cur[v] /\ todo'[v] = todo[v],
         \A a \in Actor, j \in Job : InFlight(a, j)' =>
           \/ a # w /\ pending'[a][j] = pending[a][j]
           \/ a = w /\ Fits(a, j)',
         Alive(w)' => Alive(w) \/ \A v \in Worker : ~Alive(v),
         todo'[w] \subseteq Job,
         \A j \in todo'[w] : pc'[w] = "load" /\ jobs[j].status = "running",
         pc'[w] = "claim" =>
           /\ cur'[w] \in Job /\ jobs[cur'[w]].status = "queued"
           /\ jobs[cur'[w]].attempts < jobs[cur'[w]].max_attempts,
         pc'[w] \in Executing => cur'[w] \in Job /\ jobs[cur'[w]].status = "running"
  PROVE  SerialInv'
<1>. USE DEF SerialInv
<1>1. \A j \in Job : /\ jobs'[j].status = jobs[j].status
                     /\ jobs'[j].attempts = jobs[j].attempts
                     /\ jobs'[j].max_attempts = jobs[j].max_attempts
  BY DEF SameLife, SameCounts
<1>2. OneAlive' BY DEF OneAlive, Alive
<1>3. ScannedRuns'
  <2>1. \A v \in Worker : todo'[v] \subseteq Job BY DEF TypeOK
  <2>. QED BY <1>1, <2>1 DEF ScannedRuns
<1>4. CandidateWaits'
  <2>1. ASSUME NEW v \in Worker, pc'[v] = "claim" PROVE cur'[v] \in Job
    BY <2>1 DEF TypeOK
  <2>. QED BY <1>1, <2>1 DEF CandidateWaits
<1>5. ExecutedRuns'
  <2>1. ASSUME NEW v \in Worker, pc'[v] \in Executing PROVE cur'[v] \in Job
    BY <2>1 DEF TypeOK
  <2>. QED BY <1>1, <2>1 DEF ExecutedRuns
<1>6. AbsentIsBlank' BY <1>1 DEF AbsentIsBlank
<1>7. WritesFit'
  <2>. SUFFICES ASSUME NEW a \in Actor, NEW j \in Job, InFlight(a, j)', a # w
                PROVE  Fits(a, j)'
    BY DEF WritesFit
  <2>1. pending'[a][j] = pending[a][j] /\ InFlight(a, j) BY DEF InFlight
  <2>2. Fits(a, j) BY <2>1 DEF WritesFit
  <2>3. a \in Worker => pc'[a] = pc[a] OBVIOUS
  <2>. QED BY <1>1, <2>1, <2>2, <2>3 DEF Fits, SameLife, SameCounts
<1>. QED BY <1>2, <1>3, <1>4, <1>5, <1>6, <1>7

\* Dates, heartbeats and stuttering.
LEMMA StillKeeps ==
  ASSUME TypeOK, SerialInv, UNCHANGED <<pc, cur, todo, pending>>,
         \A j \in Job : SameLife(jobs[j], jobs'[j])
  PROVE  SerialInv'
<1>. USE DEF SerialInv
<1>1. \A j \in Job : /\ jobs'[j].status = jobs[j].status
                     /\ jobs'[j].attempts = jobs[j].attempts
                     /\ jobs'[j].max_attempts = jobs[j].max_attempts
  BY DEF SameLife, SameCounts
<1>2. OneAlive' BY DEF OneAlive, Alive
<1>3. ScannedRuns' BY <1>1 DEF ScannedRuns, TypeOK
<1>4. CandidateWaits' BY <1>1 DEF CandidateWaits, TypeOK
<1>5. ExecutedRuns' BY <1>1 DEF ExecutedRuns, TypeOK
<1>6. AbsentIsBlank' BY <1>1 DEF AbsentIsBlank
<1>7. WritesFit' BY <1>1 DEF WritesFit, InFlight, Fits, SameLife, SameCounts
<1>. QED BY <1>2, <1>3, <1>4, <1>5, <1>6, <1>7

LEMMA DatedLife ==
  ASSUME TypeOK, NEW k \in Job, NEW h, jobs' = [jobs EXCEPT ![k].heartbeat_at = h],
         NEW j \in Job
  PROVE  SameLife(jobs[j], jobs'[j])
BY DEF TypeOK, Row, SameLife, SameCounts

LEMMA SerialDates ==
  ASSUME TypeOK, SerialInv,
         \/ \E w \in Worker : ReadHeartbeat(w) \/ WriteHeartbeat(w)
         \/ \E j \in Job : Expire(j)
  PROVE  SerialInv'
<1>1. ASSUME NEW w \in Worker, ReadHeartbeat(w) PROVE SerialInv'
  BY <1>1, StillKeeps DEF ReadHeartbeat, table, SameLife, SameCounts
<1>2. ASSUME NEW w \in Worker, WriteHeartbeat(w) PROVE SerialInv'
  <2>1. PICK j \in Job : jobs' = [jobs EXCEPT ![j].heartbeat_at = "fresh"]
    BY <1>2 DEF WriteHeartbeat
  <2>. QED BY <1>2, <2>1, DatedLife, StillKeeps DEF WriteHeartbeat
<1>3. ASSUME NEW j \in Job, Expire(j) PROVE SerialInv'
  BY <1>3, DatedLife, StillKeeps DEF Expire, threads
<1>. QED BY <1>1, <1>2, <1>3

\* A worker that has nothing in hand.
LEMMA NothingInHand ==
  ASSUME SerialInv, NEW w \in Worker, pc[w] \notin {"load", "recover", "commit"}
  PROVE  \A j \in Job : ~InFlight(w, j)
BY DEF SerialInv, WritesFit, Fits, Actor

LEMMA SerialPolling ==
  ASSUME TypeOK, SerialInv, Serial, NEW w \in Worker,
         \/ Boot(w) \/ ScanStale(w) \/ CandidateFound(w) \/ NoCandidate(w)
         \/ ClaimLost(w) \/ Progress(w) \/ CheckCancel(w) \/ RaiseError(w)
  PROVE  SerialInv'
<1>. USE DEF TypeOK
<1>1. /\ pending' = pending /\ pc[w] \notin {"load", "recover", "commit"}
      /\ \E to \in PC : pc' = [pc EXCEPT ![w] = to]
  BY DEF Boot, ScanStale, CandidateFound, NoCandidate, ClaimLost, Progress, CheckCancel,
         RaiseError, Finish, Goto, PC, Executing
<1>2. \A a \in Actor, j \in Job : InFlight(a, j)' => a # w /\ pending'[a][j] = pending[a][j]
  BY <1>1, NothingInHand DEF InFlight
<1>3. \A j \in Job : SameLife(jobs[j], jobs'[j])
  <2>1. CASE jobs' = jobs BY <2>1 DEF SameLife, SameCounts
  <2>2. CASE Progress(w)
    <3>1. cur[w] \in Job /\ jobs' = [jobs EXCEPT ![cur[w]].heartbeat_at = "fresh"]
      BY <2>2 DEF Progress, Goto, Executing
    <3>. QED BY <3>1, DatedLife
  <2>. QED BY <2>1, <2>2 DEF Boot, ScanStale, CandidateFound, NoCandidate, ClaimLost,
                             CheckCancel, RaiseError, Finish, table
<1>4. \A v \in Worker : v # w =>
        pc'[v] = pc[v] /\ cur'[v] = cur[v] /\ todo'[v] = todo[v]
  BY <1>1 DEF Boot, ScanStale, CandidateFound, NoCandidate, ClaimLost, Progress, CheckCancel,
              RaiseError, Finish
<1>5. todo[w] = {} BY <1>1 DEF SerialInv, ScannedRuns
<1>6. CASE Boot(w)
  <2>1. /\ pc'[w] = "idle" /\ todo' = todo
        /\ Cardinality({v \in Worker : Alive(v)}) < 1
    BY <1>6 DEF Boot, Goto, Serial
  <2>2. \A v \in Worker : ~Alive(v)
    <3>1. SUFFICES ASSUME NEW v \in Worker, Alive(v) PROVE FALSE OBVIOUS
    <3>. DEFINE alive == {x \in Worker : Alive(x)}
    <3>2. alive = {v} BY <3>1 DEF SerialInv, OneAlive
    <3>3. Cardinality(alive) < 1 BY <2>1
    <3>. HIDE DEF alive
    <3>4. Cardinality(alive) = 1 BY <3>2, FS_Singleton
    <3>. QED BY <3>3, <3>4
  <2>. QED BY <1>2, <1>3, <1>4, <1>5, <2>1, <2>2, WorkerKeeps DEF Executing
<1>7. CASE ScanStale(w)
  <2>1. /\ pc[w] = "idle" /\ todo'[w] = StaleJobs
        /\ pc'[w] = IF StaleJobs = {} THEN "select" ELSE "load"
    BY <1>7 DEF ScanStale, Goto
  <2>2. /\ todo'[w] \subseteq Job
        /\ \A j \in todo'[w] : pc'[w] = "load" /\ jobs[j].status = "running"
    BY <2>1 DEF StaleJobs
  <2>3. Alive(w) BY <2>1 DEF Alive
  <2>4. pc'[w] # "claim" /\ pc'[w] \notin Executing BY <2>1 DEF Executing
  <2>. HIDE DEF TypeOK
  <2>. QED BY <1>2, <1>3, <1>4, <2>2, <2>3, <2>4, WorkerKeeps
<1>8. CASE CandidateFound(w)
  <2>1. /\ pc[w] = "select" /\ todo' = todo /\ pc'[w] = "claim" /\ cur'[w] \in Candidates
    BY <1>8 DEF CandidateFound, Goto, Candidates, Eligible
  <2>. QED BY <1>2, <1>3, <1>4, <1>5, <2>1, WorkerKeeps
           DEF Candidates, Eligible, Executing, Alive
<1>9. CASE NoCandidate(w) \/ ClaimLost(w)
  <2>1. /\ pc[w] \in {"select", "claim"} /\ todo' = todo /\ pc'[w] \in {"idle", "select"}
    BY <1>9 DEF NoCandidate, ClaimLost, Goto
  <2>. QED BY <1>2, <1>3, <1>4, <1>5, <2>1, WorkerKeeps DEF Executing, Alive
<1>10. CASE Progress(w) \/ CheckCancel(w) \/ RaiseError(w)
  <2>1. /\ pc[w] \in {"work", "check", "finish"} /\ pc'[w] \in {"work", "check", "finish"}
        /\ todo' = todo /\ cur' = cur
    BY <1>10 DEF Progress, CheckCancel, RaiseError, Finish, Goto
  <2>2. cur[w] \in Job /\ jobs[cur[w]].status = "running" /\ Alive(w)
    BY <2>1 DEF SerialInv, ExecutedRuns, Executing, Alive
  <2>. QED BY <1>2, <1>3, <1>4, <1>5, <2>1, <2>2, WorkerKeeps
<1>. QED BY <1>6, <1>7, <1>8, <1>9, <1>10

LEMMA SerialCrash ==
  ASSUME TypeOK, SerialInv, NEW w \in Worker, Crash(w)
  PROVE  SerialInv'
<1>1. /\ pc' = [pc EXCEPT ![w] = "dead"] /\ todo' = [todo EXCEPT ![w] = {}] /\ jobs' = jobs
      /\ cur' = [cur EXCEPT ![w] = NoJob]
      /\ pending' = [pending EXCEPT ![w] = NothingPending]
  BY DEF Crash, table
<1>2. \A a \in Actor, j \in Job : InFlight(a, j)' => a # w /\ pending'[a][j] = pending[a][j]
  BY <1>1 DEF InFlight, NothingPending, NoUpdate, TypeOK
<1>3. \A j \in Job : SameLife(jobs[j], jobs'[j]) BY <1>1 DEF SameLife, SameCounts
<1>4. \A v \in Worker : v # w =>
        pc'[v] = pc[v] /\ cur'[v] = cur[v] /\ todo'[v] = todo[v]
  BY <1>1 DEF TypeOK
<1>5. pc'[w] = "dead" /\ todo'[w] = {} BY <1>1 DEF TypeOK
<1>. QED BY <1>2, <1>3, <1>4, <1>5, WorkerKeeps DEF Alive, Executing

\* The two reads of a worker: a stale row, and the row whose execution ends.
LEMMA SerialReads ==
  ASSUME TypeOK, SerialInv, NEW w \in Worker, LoadStale(w) \/ LoadFinish(w)
  PROVE  SerialInv'
<1>. USE DEF TypeOK
<1>1. PICK j \in Job, u \in Update, to \in {"load", "recover", "commit"} :
        /\ jobs[j].status = "running" /\ jobs' = jobs
        /\ u.old = jobs[j] /\ Arrow(u.old, u.new)
        /\ pending' = [pending EXCEPT ![w][j] = u]
        /\ pc' = [pc EXCEPT ![w] = to] /\ cur' = cur
        /\ Alive(w)
  <2>1. CASE LoadStale(w)
    <3>1. PICK j \in todo[w] : Stage(w, j, RecoverUpdate(jobs[j], now + 1))
      BY <2>1 DEF LoadStale
    <3>2. jobs[j].status = "running" /\ jobs[j] \in Row /\ j \in Job
      BY DEF SerialInv, ScannedRuns
    <3>. DEFINE u == RecoverUpdate(jobs[j], now + 1)
    <3>3. u \in Update BY <3>2, RecoverType
    <3>4. u.old = jobs[j] /\ Arrow(jobs[j], u.new)
      <4>1. u.old = jobs[j] BY DEF RecoverUpdate
      <4>2. now + 1 \in Nat OBVIOUS
      <4>. QED BY <3>2, <4>1, <4>2, HandlersFollow
    <3>5. pending' = [pending EXCEPT ![w][j] = u] BY <3>1 DEF Stage
    <3>. HIDE DEF u
    <3>6. /\ jobs' = jobs /\ cur' = cur /\ Alive(w)
          /\ \E to \in {"load", "recover", "commit"} : pc' = [pc EXCEPT ![w] = to]
      BY <2>1 DEF LoadStale, Goto, Alive
    <3>. QED BY <3>2, <3>3, <3>4, <3>5, <3>6
  <2>2. CASE LoadFinish(w)
    <3>. DEFINE j == cur[w]
                u == FinishUpdate(jobs[j], outcome[w])
    <3>1. /\ pc[w] = "finish" /\ pc' = [pc EXCEPT ![w] = "commit"]
          /\ jobs' = jobs /\ cur' = cur /\ Alive(w)
          /\ pending' = [pending EXCEPT ![w][j] = u]
      BY <2>2 DEF LoadFinish, Goto, table, Stage, Alive
    <3>2. j \in Job /\ jobs[j] \in Row /\ outcome[w] \in Terminal /\ now \in Nat
          /\ jobs[j].status = "running"
      BY <3>1 DEF SerialInv, ExecutedRuns, Executing
    <3>3. u \in Update /\ u.old = jobs[j] /\ Arrow(jobs[j], u.new)
      <4>1. u \in Update BY <3>2, FinishType
      <4>2. u.old = jobs[j] BY DEF FinishUpdate
      <4>3. Arrow(jobs[j], u.new) BY <3>2, HandlersFollow
      <4>. QED BY <4>1, <4>2, <4>3
    <3>. HIDE DEF u, j
    <3>. QED BY <3>1, <3>2, <3>3
  <2>. QED BY <2>1, <2>2
<1>2. pc'[w] = to /\ \A v \in Worker : v # w => pc'[v] = pc[v] /\ cur'[v] = cur[v]
  BY <1>1
<1>3. /\ \A v \in Worker : v # w => todo'[v] = todo[v]
      /\ todo'[w] \subseteq todo[w]
      /\ todo'[w] # {} => pc'[w] = "load"
  <2>1. CASE LoadStale(w)
    <3>1. PICK k \in todo[w] :
            /\ pc' = [pc EXCEPT ![w] = IF todo[w] = {k} THEN "recover" ELSE "load"]
            /\ todo' = [todo EXCEPT ![w] = @ \ {k}]
      BY <2>1 DEF LoadStale, Goto
    <3>2. pc'[w] = (IF todo[w] = {k} THEN "recover" ELSE "load") /\ todo'[w] = todo[w] \ {k}
      BY <3>1
    <3>. QED BY <3>1, <3>2
  <2>2. CASE LoadFinish(w)
    <3>1. todo' = todo /\ pc[w] = "finish" BY <2>2 DEF LoadFinish, Goto
    <3>. QED BY <3>1 DEF SerialInv, ScannedRuns
  <2>. QED BY <2>1, <2>2
<1>4. \A k \in Job : SameLife(jobs[k], jobs'[k]) BY <1>1 DEF SameLife, SameCounts
<1>5. ASSUME NEW a \in Actor, NEW k \in Job, InFlight(a, k)'
      PROVE  \/ a # w /\ pending'[a][k] = pending[a][k]
             \/ a = w /\ Fits(a, k)'
  <2>1. CASE a # w BY <1>1, <2>1
  <2>2. CASE a = w /\ k = j
    <3>1. pending'[w][j] = u BY <1>1 DEF Actor
    <3>2. w \notin Client BY JobQueueAssumption
    <3>. QED BY <1>1, <1>2, <2>2, <3>1, <3>2 DEF Fits, SameLife, SameCounts
  <2>3. CASE a = w /\ k # j
    <3>1. pending'[a][k] = pending[a][k] BY <1>1, <2>3
    <3>2. InFlight(a, k) BY <1>5, <3>1 DEF InFlight
    <3>3. Fits(a, k) BY <3>2 DEF SerialInv, WritesFit
    <3>. QED BY <1>1, <1>2, <2>3, <3>1, <3>3 DEF Fits
  <2>. QED BY <2>1, <2>2, <2>3
<1>6. \A k \in todo'[w] : pc'[w] = "load" /\ jobs[k].status = "running"
  BY <1>3 DEF SerialInv, ScannedRuns
<1>7. pc'[w] \in Executing => cur'[w] \in Job /\ jobs[cur'[w]].status = "running"
  <2>1. CASE LoadFinish(w)
    <3>1. cur' = cur /\ pc[w] = "finish" BY <2>1 DEF LoadFinish, Goto
    <3>. QED BY <3>1 DEF SerialInv, ExecutedRuns, Executing
  <2>2. CASE LoadStale(w)
    <3>1. pc'[w] \in {"load", "recover"} BY <2>2 DEF LoadStale, Goto
    <3>. QED BY <3>1 DEF Executing
  <2>. QED BY <2>1, <2>2
<1>8. todo'[w] \subseteq Job /\ pc'[w] # "claim" /\ Alive(w) BY <1>1, <1>2, <1>3
<1>. HIDE DEF TypeOK
<1>. QED BY <1>2, <1>3, <1>4, <1>5, <1>6, <1>7, <1>8, WorkerKeeps

LEMMA SerialClaim ==
  ASSUME TypeOK, SerialInv, Serial, NEW w \in Worker, ClaimWon(w)
  PROVE  SerialInv'
<1>. USE DEF SerialInv, TypeOK
<1>. DEFINE j == cur[w]
<1>1. /\ j \in Job /\ jobs[j].status = "queued" /\ jobs'[j].status = "running"
      /\ \A k \in Job : k # j => jobs'[k] = jobs[k]
  BY ClaimRow
<1>2. /\ pc[w] = "claim" /\ pc' = [pc EXCEPT ![w] = "work"]
      /\ UNCHANGED <<todo, cur, pending>>
  BY DEF ClaimWon, Goto
<1>. HIDE DEF j
<1>3. OneAlive' BY <1>2 DEF OneAlive, Alive
<1>4. ScannedRuns' BY <1>1, <1>2 DEF ScannedRuns
<1>5. CandidateWaits'
  <2>1. \A v \in Worker : pc'[v] # "claim" BY <1>2 DEF OneAlive, Alive
  <2>. QED BY <2>1 DEF CandidateWaits
<1>6. ExecutedRuns'
  <2>1. ASSUME NEW v \in Worker, pc'[v] \in Executing PROVE v = w
    BY <1>2, <2>1 DEF OneAlive, Alive, Executing
  <2>. QED BY <1>1, <1>2, <2>1 DEF ExecutedRuns, j
<1>7. AbsentIsBlank' BY <1>1 DEF AbsentIsBlank
<1>8. WritesFit'
  <2>. SUFFICES ASSUME NEW a \in Actor, NEW k \in Job, InFlight(a, k)' PROVE Fits(a, k)'
    BY DEF WritesFit
  <2>1. pending'[a][k] = pending[a][k] /\ InFlight(a, k) BY <1>2 DEF InFlight
  <2>2. Fits(a, k) BY <2>1 DEF WritesFit
  <2>3. k # j BY <1>1, <2>2 DEF Fits, Actor, Active
  <2>4. a \in Worker => pc'[a] = pc[a] BY <1>2, <2>2 DEF Fits
  <2>. QED BY <1>1, <2>1, <2>2, <2>3, <2>4 DEF Fits
<1>. QED BY <1>3, <1>4, <1>5, <1>6, <1>7, <1>8

LEMMA SerialCommit ==
  ASSUME TypeOK, SerialInv, Serial, NEW a \in Actor, Commit(a), todo' = todo,
         \/ a \in Client /\ UNCHANGED <<pc, cur>>
         \/ /\ a \in Worker /\ pc[a] \in {"recover", "commit"}
            /\ \E to \in {"select", "idle"} : pc' = [pc EXCEPT ![a] = to]
            /\ \A v \in Worker : v # a => cur'[v] = cur[v]
  PROVE  SerialInv'
<1>. USE DEF SerialInv, TypeOK
<1>1. \A j \in Job : /\ ~InFlight(a, j) => jobs'[j] = jobs[j]
                     /\ InFlight(a, j) => Fits(a, j) /\ Arrow(jobs[j], jobs'[j])
  BY CommitFollows
<1>2. /\ \A j \in Job : ~InFlight(a, j)'
      /\ \A b \in Actor : b # a => pending'[b] = pending[b]
  BY DEF Commit, InFlight, NothingPending, NoUpdate
<1>3. \A v \in Worker : /\ v # a => pc'[v] = pc[v] /\ cur'[v] = cur[v]
                        /\ v = a => pc'[v] \in {"select", "idle"}
                        /\ v = a => Alive(v)
  BY JobQueueAssumption DEF Alive
<1>4. OneAlive'
  <2>1. \A v \in Worker : Alive(v)' => Alive(v) BY <1>3 DEF Alive
  <2>. QED BY <2>1 DEF OneAlive
<1>5. \A v \in Worker, j \in Job : v # a /\ Alive(v) /\ jobs[j].status \in Active
        => jobs'[j] = jobs[j]
  <2>. SUFFICES ASSUME NEW v \in Worker, NEW j \in Job, v # a, Alive(v),
                       jobs[j].status \in Active, InFlight(a, j)
                PROVE  FALSE
    BY <1>1
  <2>1. CASE a \in Client BY <1>1, <2>1 DEF Fits
  <2>2. CASE a \in Worker BY <1>3, <2>2 DEF OneAlive
  <2>. QED BY <2>1, <2>2 DEF Actor
<1>6. ScannedRuns'
  <2>. SUFFICES ASSUME NEW v \in Worker, NEW j \in todo[v]
                PROVE  pc'[v] = "load" /\ jobs'[j].status = "running"
    BY DEF ScannedRuns
  <2>1. pc[v] = "load" /\ jobs[j].status = "running" BY DEF ScannedRuns
  <2>2. v # a BY <2>1, JobQueueAssumption
  <2>. QED BY <1>3, <1>5, <2>1, <2>2 DEF Alive, Active
<1>7. CandidateWaits'
  <2>. SUFFICES ASSUME NEW v \in Worker, pc'[v] = "claim"
                PROVE  /\ jobs'[cur'[v]].status = "queued"
                       /\ jobs'[cur'[v]].attempts < jobs'[cur'[v]].max_attempts
    BY DEF CandidateWaits
  <2>1. v # a /\ pc[v] = "claim" /\ cur'[v] = cur[v] BY <1>3
  <2>2. cur[v] \in Job /\ jobs[cur[v]].status = "queued" BY <2>1 DEF CandidateWaits
  <2>3. jobs'[cur[v]] = jobs[cur[v]] BY <1>5, <2>1, <2>2 DEF Alive, Active
  <2>. QED BY <2>1, <2>3 DEF CandidateWaits
<1>8. ExecutedRuns'
  <2>. SUFFICES ASSUME NEW v \in Worker, pc'[v] \in Executing
                PROVE  jobs'[cur'[v]].status = "running"
    BY DEF ExecutedRuns
  <2>1. v # a /\ pc[v] \in Executing /\ cur'[v] = cur[v] BY <1>3 DEF Executing
  <2>2. cur[v] \in Job /\ jobs[cur[v]].status = "running" BY <2>1 DEF ExecutedRuns
  <2>3. jobs'[cur[v]] = jobs[cur[v]] BY <1>5, <2>1, <2>2 DEF Alive, Active, Executing
  <2>. QED BY <2>1, <2>2, <2>3
<1>9. AbsentIsBlank' BY <1>1 DEF AbsentIsBlank, Arrow, RaisesLimit, Terminal
<1>10. WritesFit'
  <2>. SUFFICES ASSUME NEW b \in Actor, NEW j \in Job, InFlight(b, j)' PROVE Fits(b, j)'
    BY DEF WritesFit
  <2>1. b # a /\ pending'[b] = pending[b] /\ InFlight(b, j) BY <1>2 DEF InFlight
  <2>2. jobs'[j] = jobs[j] BY <1>1, <2>1, OthersKeepOff
  <2>3. Fits(b, j) BY <2>1 DEF WritesFit
  <2>4. b \in Worker => pc'[b] = pc[b] BY <1>3, <2>1
  <2>. QED BY <2>1, <2>2, <2>3, <2>4 DEF Fits
<1>. QED BY <1>4, <1>6, <1>7, <1>8, <1>9, <1>10

\* The read of a request.
LEMMA SerialRequest ==
  ASSUME TypeOK, SerialInv, Serial, NEW c \in Client, NEW j \in Job,
         EnqueueJob(c, j) \/ RequestCancel(c, j) \/ RetryJob(c, j)
  PROVE  SerialInv'
<1>. USE DEF SerialInv, TypeOK
<1>1. PICK u \in Update :
        /\ jobs' = jobs /\ UNCHANGED <<pc, cur, todo>>
        /\ jobs[j].status \notin Active
        /\ SameLife(u.old, jobs[j]) /\ Arrow(u.old, u.new)
        /\ pending' = [pending EXCEPT ![c][j] = u]
  <2>1. CASE EnqueueJob(c, j)
    <3>1. PICK limit \in AttemptLimits : Stage(c, j, EnqueueUpdate(limit, now + 1))
      BY <2>1 DEF EnqueueJob
    <3>2. jobs' = jobs /\ UNCHANGED <<pc, cur, todo>> /\ jobs[j].status = "absent"
      BY <2>1 DEF EnqueueJob, threads
    <3>3. limit \in Nat /\ now + 1 \in Nat BY JobQueueAssumption
    <3>. DEFINE u == EnqueueUpdate(limit, now + 1)
    <3>4. u \in Update BY <3>3, EnqueueType
    <3>5. u.old = NoRow /\ Arrow(NoRow, u.new)
      BY <3>3, EnqueueFollows
    <3>6. SameLife(NoRow, jobs[j])
      BY <3>2 DEF SameLife, SameCounts, NoRow, AbsentIsBlank
    <3>7. pending' = [pending EXCEPT ![c][j] = u] BY <3>1 DEF Stage
    <3>. HIDE DEF u
    <3>. QED BY <3>2, <3>4, <3>5, <3>6, <3>7 DEF Active
  <2>2. CASE RetryJob(c, j)
    <3>1. /\ jobs' = jobs /\ UNCHANGED <<pc, cur, todo>> /\ jobs[j].status \in Retryable
          /\ Stage(c, j, RetryUpdate(jobs[j], now + 1))
      BY <2>2 DEF RetryJob, threads
    <3>2. jobs[j] \in Row /\ now + 1 \in Nat OBVIOUS
    <3>. DEFINE u == RetryUpdate(jobs[j], now + 1)
    <3>3. u \in Update BY <3>2, RetryType
    <3>4. u.old = jobs[j] BY DEF RetryUpdate
    <3>5. Arrow(jobs[j], u.new) BY <3>1, <3>2, HandlersFollow
    <3>6. pending' = [pending EXCEPT ![c][j] = u] BY <3>1 DEF Stage
    <3>. HIDE DEF u
    <3>. QED BY <3>1, <3>3, <3>4, <3>5, <3>6 DEF Active, Retryable, SameLife, SameCounts
  <2>. QED BY <2>1, <2>2 DEF RequestCancel, Serial
<1>2. OneAlive' /\ ScannedRuns' /\ CandidateWaits' /\ ExecutedRuns' /\ AbsentIsBlank'
  BY <1>1 DEF OneAlive, Alive, ScannedRuns, CandidateWaits, ExecutedRuns, AbsentIsBlank
<1>3. WritesFit'
  <2>. SUFFICES ASSUME NEW a \in Actor, NEW k \in Job, InFlight(a, k)' PROVE Fits(a, k)'
    BY DEF WritesFit
  <2>1. CASE a = c /\ k = j
    <3>1. pending'[c][j] = u BY <1>1 DEF Actor
    <3>2. c \notin Worker BY JobQueueAssumption
    <3>. QED BY <1>1, <2>1, <3>1, <3>2 DEF Fits
  <2>2. CASE a # c \/ k # j
    <3>1. pending'[a][k] = pending[a][k] BY <1>1, <2>2 DEF Actor
    <3>2. InFlight(a, k) BY <3>1 DEF InFlight
    <3>. QED BY <1>1, <3>1, <3>2 DEF WritesFit, Fits
  <2>. QED BY <2>1, <2>2
<1>. QED BY <1>2, <1>3

LEMMA SerialStep == Serial /\ TypeOK /\ SerialInv /\ [Next]_vars => SerialInv'
<1>. SUFFICES ASSUME Serial, TypeOK, SerialInv, [Next]_vars PROVE SerialInv' OBVIOUS
<1>1. CASE UNCHANGED vars
  <2>1. UNCHANGED <<jobs, pc, cur, todo, pending>> BY <1>1 DEF vars, table, threads
  <2>. QED BY <2>1, StillKeeps DEF SameLife, SameCounts
<1>2. ASSUME NEW w \in Worker, MainThread(w) \/ Boot(w) PROVE SerialInv'
  <2>1. CASE CommitRecovery(w)
    BY <2>1, SerialCommit DEF CommitRecovery, Goto, Actor
  <2>2. CASE CommitFinish(w)
    <3>1. /\ Commit(w) /\ todo' = todo /\ pc[w] = "commit"
          /\ pc' = [pc EXCEPT ![w] = "idle"] /\ cur' = [cur EXCEPT ![w] = NoJob]
      BY <2>2 DEF CommitFinish, Goto
    <3>. QED BY <3>1, SerialCommit DEF Actor, TypeOK
  <2>. QED BY <1>2, <2>1, <2>2, SerialPolling, SerialClaim, SerialReads DEF MainThread
<1>3. ASSUME NEW w \in Worker, Crash(w) PROVE SerialInv' BY <1>3, SerialCrash
<1>4. ASSUME \/ \E w \in Worker : ReadHeartbeat(w) \/ WriteHeartbeat(w)
             \/ \E j \in Job : Expire(j)
      PROVE  SerialInv'
  BY <1>4, SerialDates
<1>5. ASSUME NEW c \in Client, CommitRequest(c) PROVE SerialInv'
  BY <1>5, SerialCommit DEF CommitRequest, Actor, threads
<1>6. ASSUME NEW c \in Client, NEW j \in Job,
             EnqueueJob(c, j) \/ RequestCancel(c, j) \/ RetryJob(c, j)
      PROVE  SerialInv'
  BY <1>6, SerialRequest
<1>. QED BY <1>1, <1>2, <1>3, <1>4, <1>5, <1>6 DEF Next

LEMMA SerialBegins == Init => SerialInv
<1>. SUFFICES ASSUME Init PROVE SerialInv OBVIOUS
<1>1. \A j \in Job : jobs[j] = NoRow BY DEF Init
<1>2. \A a \in Actor, j \in Job : ~InFlight(a, j)
  BY DEF Init, InFlight, NothingPending, NoUpdate
<1>3. \A w \in Worker : pc[w] = "off" /\ todo[w] = {} BY DEF Init
<1>4. OneAlive /\ ScannedRuns /\ CandidateWaits /\ ExecutedRuns
  BY <1>3 DEF OneAlive, Alive, ScannedRuns, CandidateWaits, ExecutedRuns, Executing
<1>5. AbsentIsBlank BY <1>1 DEF AbsentIsBlank, NoRow
<1>6. WritesFit BY <1>2 DEF WritesFit
<1>. QED BY <1>4, <1>5, <1>6 DEF SerialInv

\* Every row rests or takes an arrow.
LEMMA RowsFollow ==
  ASSUME Serial, TypeOK, SerialInv, [Next]_vars, NEW j \in Job
  PROVE  \/ SameLife(jobs[j], jobs'[j])
         \/ Arrow(jobs[j], jobs'[j])
         \/ /\ jobs[j].status = "queued" /\ jobs'[j].status = "running"
            /\ jobs[j].attempts < jobs[j].max_attempts
            /\ jobs'[j].attempts = jobs[j].attempts + 1
            /\ jobs'[j].max_attempts = jobs[j].max_attempts
<1>1. CASE UNCHANGED <<jobs, tickets, starts>> BY <1>1 DEF SameLife, SameCounts
<1>2. ASSUME NEW k \in Job, NEW h \in Heartbeat, Dates(k, h)
      PROVE  SameLife(jobs[j], jobs'[j])
  BY <1>2, DatedLife DEF Dates
<1>3. ASSUME NEW w \in Worker, ClaimWon(w), cur[w] # j PROVE jobs'[j] = jobs[j]
  BY <1>3, ClaimRow
<1>4. ASSUME NEW w \in Worker, ClaimWon(w), cur[w] = j
      PROVE  /\ jobs[j].status = "queued" /\ jobs'[j].status = "running"
             /\ jobs[j].attempts < jobs[j].max_attempts
             /\ jobs'[j].attempts = jobs[j].attempts + 1
             /\ jobs'[j].max_attempts = jobs[j].max_attempts
  <2>1. jobs[j].status = "queued" /\ jobs'[j].status = "running" BY <1>4, ClaimRow
  <2>2. jobs[j].attempts < jobs[j].max_attempts
    BY <1>4 DEF SerialInv, CandidateWaits, ClaimWon, Goto
  <2>3. jobs'[j] = Claimed(jobs[j], w) /\ jobs[j] \in Row BY <1>4 DEF ClaimWon, TypeOK
  <2>4. jobs'[j].attempts = jobs[j].attempts + 1 /\ jobs'[j].max_attempts = jobs[j].max_attempts
    BY <2>3 DEF Claimed, Row
  <2>. QED BY <2>1, <2>2, <2>4
<1>5. ASSUME NEW a \in Actor, Commit(a)
      PROVE  SameLife(jobs[j], jobs'[j]) \/ Arrow(jobs[j], jobs'[j])
  BY <1>5, CommitFollows DEF SerialInv, SameLife, SameCounts
<1>. QED BY <1>1, <1>2, <1>3, <1>4, <1>5, TableStep DEF TableSteps, SameLife, SameCounts

\* With one worker process at a time, one request at a time and no cancellations,
\* jobs live as M6_EXECUTION_GUIDE draws it ("queued -> running -> succeeded ..."),
\* one arrow at a time and within their attempts, however many workers die,
\* heartbeats are late and jobs are recovered and retried.  The one exception is
\* the retry of a job without attempts left, which the guide does not have and
\* retry_job grants, with RetryGrant attempts more.
THEOREM OnlyRetriesLeaveTheDiagram ==
  Serial => (Spec => /\ Lifecycle!Init
                     /\ [][\A j \in Job : \/ Lifecycle!Moves(j)
                                          \/ RaisesLimit(jobs[j], jobs'[j])]_vars)
<1>. DEFINE Step == \A j \in Job : \/ Lifecycle!Moves(j)
                                   \/ RaisesLimit(jobs[j], jobs'[j])
<1>. SUFFICES ASSUME Serial PROVE Spec => Lifecycle!Init /\ [][Step]_vars OBVIOUS
<1>1. Init => Lifecycle!Init BY DEF Init, Lifecycle!Init, NoRow
<1>2. TypeOK /\ SerialInv /\ [Next]_vars => [Step]_vars
  <2>. SUFFICES ASSUME TypeOK, SerialInv, [Next]_vars, NEW j \in Job
                PROVE  Lifecycle!Moves(j) \/ RaisesLimit(jobs[j], jobs'[j])
    OBVIOUS
  <2>. USE DEF Lifecycle!Moves, Lifecycle!Enqueue, Lifecycle!Start, Lifecycle!End,
               Lifecycle!Requeue, Lifecycle!Retry, Lifecycle!Rest, Lifecycle!Move,
               Lifecycle!SameTries, Lifecycle!SameLimit
  <2>1. CASE SameLife(jobs[j], jobs'[j]) BY <2>1 DEF SameLife, SameCounts
  <2>2. CASE Arrow(jobs[j], jobs'[j])
    BY <2>2 DEF Arrow, SameCounts, Terminal, Retryable
  <2>3. CASE /\ jobs[j].status = "queued" /\ jobs'[j].status = "running"
             /\ jobs[j].attempts < jobs[j].max_attempts
             /\ jobs'[j].attempts = jobs[j].attempts + 1
             /\ jobs'[j].max_attempts = jobs[j].max_attempts
    BY <2>3
  <2>. QED BY <2>1, <2>2, <2>3, RowsFollow
<1>3. IInv => TypeOK BY DEF IInv
<1>4. Serial /\ TypeOK /\ SerialInv /\ [Next]_vars => SerialInv' BY SerialStep
<1>. QED BY <1>1, <1>2, <1>3, <1>4, SerialBegins, Invariance, PTL DEF Spec

=============================================================================
