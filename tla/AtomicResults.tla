--------------------------- MODULE AtomicResults ---------------------------
(***************************************************************************)
(* What a reader of finished analyses may rely on: the results of a job    *)
(* appear all at once, complete, and do not change as long as they are     *)
(* there.  They go all at once, too, when the job is to be executed again. *)
(***************************************************************************)
CONSTANTS Job,
          Complete,   \* by job, the results one execution may produce
          NoResults

VARIABLE published    \* by job, what a reader of finished analyses sees

Init == published = [j \in Job |-> NoResults]

Publish(j) ==
  /\ published[j] = NoResults
  /\ \E c \in Complete[j] : published' = [published EXCEPT ![j] = c]

Withdraw(j) == published' = [published EXCEPT ![j] = NoResults]

Next == \E j \in Job : Publish(j) \/ Withdraw(j)

Spec == Init /\ [][Next]_published

=============================================================================
