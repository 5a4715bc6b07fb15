---------------------------- MODULE JobLifecycle ----------------------------
(***************************************************************************)
(* The life of an analysis job as the documentation draws it:              *)
(*                                                                         *)
(*     queued -> running -> succeeded                                      *)
(*                       -> failed -> queued (manual retry)                *)
(*     queued/running -> cancelled                                         *)
(*                                                                         *)
(* together with the requeueing of stale jobs within the attempt limit;    *)
(* retries, too, are for jobs that have attempts left.                     *)
(* Each job moves along these arrows only, one arrow at a time.            *)
(***************************************************************************)
EXTENDS Naturals

CONSTANTS Job

VARIABLES state, tries, limit

life == <<state, tries, limit>>

Init ==
  /\ state = [j \in Job |-> "absent"]
  /\ tries = [j \in Job |-> 0]
  /\ limit = [j \in Job |-> 0]

Move(j, from, to) == state[j] \in from /\ state'[j] = to

SameTries(j) == tries'[j] = tries[j]
SameLimit(j) == limit'[j] = limit[j]

Enqueue(j) ==
  /\ Move(j, {"absent"}, "queued")
  /\ limit'[j] > 0
  /\ SameTries(j)

Start(j) ==
  /\ Move(j, {"queued"}, "running")
  /\ tries[j] < limit[j]
  /\ tries'[j] = tries[j] + 1
  /\ SameLimit(j)

End(j) ==
  /\ \/ Move(j, {"running"}, "succeeded")
     \/ Move(j, {"running"}, "failed")
     \/ Move(j, {"queued", "running"}, "cancelled")
  /\ SameTries(j) /\ SameLimit(j)

\* A stale job goes back to the queue while it has attempts left.
Requeue(j) ==
  /\ Move(j, {"running"}, "queued")
  /\ tries[j] < limit[j]
  /\ SameTries(j) /\ SameLimit(j)

\* A manual retry starts counting again, when attempts remain.
Retry(j) ==
  /\ Move(j, {"failed", "cancelled"}, "queued")
  /\ tries[j] < limit[j]
  /\ tries'[j] = 0
  /\ SameLimit(j)

Rest(j) == state'[j] = state[j] /\ SameTries(j) /\ SameLimit(j)

Moves(j) == \/ Enqueue(j) \/ Start(j) \/ End(j)
            \/ Requeue(j) \/ Retry(j) \/ Rest(j)

\* One commit may move several jobs.
Next ==
  /\ \A j \in Job : Moves(j)
  /\ DOMAIN state' = Job /\ DOMAIN tries' = Job /\ DOMAIN limit' = Job

Spec == Init /\ [][Next]_life

=============================================================================
