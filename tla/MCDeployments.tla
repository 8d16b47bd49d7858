--------------------------- MODULE MCDeployments ---------------------------
(* Instances of Deployments for TLC.                                       *)
EXTENDS Deployments, TLC

CONSTANTS c1, c2

\* A package with a build command and a check, and one with nothing to promote.
MCPromotion == (c1 :> <<"build", "check">>) @@ (c2 :> <<>>)

Symmetry == Permutations(Deployments) \cup Permutations(Workers)
=============================================================================
