-------------------------- MODULE MCModelRegistry --------------------------
(***************************************************************************)
(* ModelRegistry for TLC: two ids for one model, and one for another.      *)
(***************************************************************************)
EXTENDS ModelRegistry, TLC

CONSTANTS a1, a2, a3, m1, m2

MCContentOf == (a1 :> m1) @@ (a2 :> m1) @@ (a3 :> m2)

MCSymmetry == Permutations(Process)

=============================================================================
