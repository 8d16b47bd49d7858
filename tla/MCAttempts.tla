----------------------------- MODULE MCAttempts -----------------------------
(* An instance of Attempts for TLC: the name of the VM of attempt 1 is free  *)
(* or taken.                                                                *)
EXTENDS Attempts

MCTakings == {{}, {1}}
=============================================================================
