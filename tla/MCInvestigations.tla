-------------------------- MODULE MCInvestigations --------------------------
(* An instance of Investigations for TLC.                                   *)
EXTENDS Investigations, TLC

Symmetry == Permutations(Operators) \cup Permutations(Requests)
=============================================================================
