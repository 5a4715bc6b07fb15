----------------------------- MODULE MCJobQueue -----------------------------
(***************************************************************************)
(* JobQueue for TLC.  The .cfg files choose the constants; workers are     *)
(* interchangeable, and so are requests.                                   *)
(***************************************************************************)
EXTENDS JobQueue, TLC

Symmetry == Permutations(Worker) \cup Permutations(Client)

=============================================================================
