----------------------------- MODULE MCStorage -----------------------------
(* An instance of Storage for TLC: two revisions are published, of which    *)
(* the first uses the secret.                                               *)
EXTENDS Storage, TLC

CONSTANTS c1, c2, k1

MCNeeds == c1 :> {k1} @@ c2 :> {}
MCHistory == <<c1, c2>>

Symmetry == Permutations(Appliers)
=============================================================================
