----------------------------- MODULE WorkLedger -----------------------------
(***************************************************************************)
(* What a durable queue promises about executions: work is started only    *)
(* against a ticket.  Tickets are issued when a job is put in the queue,   *)
(* and a job that waits can be started once, after which it no longer      *)
(* waits.  Nothing is said of what happens to a job that has been started. *)
(***************************************************************************)
EXTENDS Naturals

CONSTANTS Job

VARIABLES waiting,   \* the jobs in the queue
          issued,    \* tickets issued to each job
          started    \* executions started for each job

ledger == <<waiting, issued, started>>

Init ==
  /\ waiting = {}
  /\ issued = [j \in Job |-> 0]
  /\ started = [j \in Job |-> 0]

\* The jobs of S get a ticket each.  Any of them may now wait, and others may
\* be withdrawn by the same commit.
Administer(S) ==
  /\ issued' = [j \in Job |-> IF j \in S THEN issued[j] + 1 ELSE issued[j]]
  /\ waiting' \subseteq waiting \cup S
  /\ UNCHANGED started

Start(j) ==
  /\ j \in waiting
  /\ waiting' = waiting \ {j}
  /\ started' = [started EXCEPT ![j] = @ + 1]
  /\ UNCHANGED issued

Next == \/ \E S \in SUBSET Job : Administer(S)
        \/ \E j \in Job : Start(j)

Spec == Init /\ [][Next]_ledger

=============================================================================
