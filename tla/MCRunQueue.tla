---------------------------- MODULE MCRunQueue ----------------------------
(* Instances of RunQueue for TLC.                                          *)
EXTENDS RunQueue, TLC

CONSTANTS a1, v1, v2

\* One automation: v1 keeps state and forbids overlap, v2 allows it.
MCAutomationOf == (v1 :> a1) @@ (v2 :> a1)
MCLimit == (v1 :> 1) @@ (v2 :> 2)

\* v1 alone, with one retry.
MCAutomationOf1 == (v1 :> a1)
MCLimit1 == (v1 :> 2)
===========================================================================
