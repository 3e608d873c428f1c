---------------------------- MODULE MCReconciler ----------------------------
(* Reconciler on small instances for TLC. *)
EXTENDS Reconciler, TLC

CONSTANTS m1, m2, m3, d1, d2

\* Two generations; the second was approved twice under one deployment name.
TwoManifests   == {m1, m2}
ThreeManifests == {m1, m2, m3}
GenOf == (m1 :> 1) @@ (m2 :> 2) @@ (m3 :> 2)
DirOf == (m1 :> d1) @@ (m2 :> d2) @@ (m3 :> d2)

GenOfTwo == (m1 :> 1) @@ (m2 :> 2)
DirOfTwo == (m1 :> d1) @@ (m2 :> d2)
=============================================================================
