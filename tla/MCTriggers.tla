----------------------------- MODULE MCTriggers -----------------------------
(* An instance of Triggers for TLC: the second revision has a slower       *)
(* schedule and no webhook; the deliveries are one GitHub event, twice.    *)
EXTENDS Triggers, TLC

CONSTANTS v1, v2, k1, k2, b1

MCTypeOf == [tick |-> "schedule", push |-> "github", feed |-> "ntfy"]
MCTriggers == DOMAIN MCTypeOf
MCEnables == v1 :> {"tick", "push", "feed"} @@ v2 :> {"tick", "feed"}
MCPeriod == v1 :> 1 @@ v2 :> 2
MCDeliveries == {[trigger |-> "push", key |-> k, body |-> b1] : k \in {k1, k2, NoKey}}
=============================================================================
