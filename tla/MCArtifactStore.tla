-------------------------- MODULE MCArtifactStore --------------------------
(***************************************************************************)
(* ArtifactStore for TLC: two projects with one analysis and one report    *)
(* each.                                                                   *)
(***************************************************************************)
EXTENDS ArtifactStore, TLC

CONSTANTS p1, p2, j1, j2, r1, r2

MCProjectOf == (j1 :> p1) @@ (j2 :> p2)
MCJobOf == (r1 :> j1) @@ (r2 :> j2)

\* Requests are alike.
MCSymmetry == Permutations(Handler)

=============================================================================
