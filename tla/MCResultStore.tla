---------------------------- MODULE MCResultStore ---------------------------
(***************************************************************************)
(* ResultStore for TLC: one rule-based job and one hybrid job that share a *)
(* project, whose source may change between two fetches.                   *)
(***************************************************************************)
EXTENDS ResultStore, TLC

CONSTANTS ruleJob, hybridJob

MCKind == [j \in Job |-> IF j = ruleJob THEN "rule" ELSE "hybrid"]

MCAttempts == [j \in Job |-> IF j = ruleJob THEN 1 ELSE 2]

\* The models take part in the same way.
MCSymmetry == Permutations(Model)

=============================================================================
