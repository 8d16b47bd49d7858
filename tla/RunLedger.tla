----------------------------- MODULE RunLedger -----------------------------
(***************************************************************************)
(* What the run queue promises, with no worker, lease, attempt or database *)
(* statement in sight: a submitted run stays pending until it succeeds or  *)
(* fails, once and for good.  Success is one indivisible step that folds   *)
(* the run into its automation's state exactly once, on top of everything  *)
(* already folded in, and releases everything the run asked for (a         *)
(* continuation, an approval, a notification); failure releases nothing    *)
(* but the failure notice.  RunQueue is shown to implement this.           *)
(***************************************************************************)
EXTENDS Naturals

CONSTANTS
    Runs, Automations, Revisions, Keys,
    AutomationOf,   \* the automation a revision belongs to
    Stateful,       \* the revisions whose manifest enables automation state
    NoRun, NoKey, NoRevision

VARIABLES
    phase,      \* "absent", "pending", "succeeded" or "failed"
    revision,   \* the revision a run is pinned to
    parent,     \* the run that asked for this run as its continuation
    state,      \* automation state: version and the runs folded into it
    opened,     \* the key of the approval a run opened
    outbox      \* notification events: <<event type, subject run>>

vars == <<phase, revision, parent, state, opened, outbox>>

Init ==
    /\ phase = [r \in Runs |-> "absent"]
    /\ revision = [r \in Runs |-> NoRevision]
    /\ parent = [r \in Runs |-> NoRun]
    /\ state = [a \in Automations |-> [version |-> 0, value |-> {}]]
    /\ opened = [r \in Runs |-> NoKey]
    /\ outbox = {}

Submit(r, v) ==
    /\ phase[r] = "absent"
    /\ phase' = [phase EXCEPT ![r] = "pending"]
    /\ revision' = [revision EXCEPT ![r] = v]
    /\ UNCHANGED <<parent, state, opened, outbox>>

\* The run succeeds, asking for continuation c, an approval under key k and,
\* when n is true, an operator notification.
Succeed(r, c, k, n) ==
    LET a == AutomationOf[revision[r]] IN
    /\ phase[r] = "pending"
    /\ c # NoRun => phase[c] = "absent"
    /\ phase' = [q \in Runs |-> CASE q = r -> "succeeded"
                                  [] q = c -> "pending"
                                  [] OTHER -> phase[q]]
    /\ revision' = [q \in Runs |-> IF q = c THEN revision[r] ELSE revision[q]]
    /\ parent' = [q \in Runs |-> IF q = c THEN r ELSE parent[q]]
    /\ state' = IF revision[r] \in Stateful
                THEN [state EXCEPT ![a] = [version |-> state[a].version + 1,
                                           value |-> state[a].value \cup {r}]]
                ELSE state
    /\ opened' = [opened EXCEPT ![r] = k]
    /\ outbox' = outbox
                 \cup (IF k # NoKey THEN {<<"approval.requested", r>>} ELSE {})
                 \cup (IF n THEN {<<"automation.notification", r>>} ELSE {})

Fail(r) ==
    /\ phase[r] = "pending"
    /\ phase' = [phase EXCEPT ![r] = "failed"]
    /\ outbox' = outbox \cup {<<"run.failed", r>>}
    /\ UNCHANGED <<revision, parent, state, opened>>

Next ==
    \E r \in Runs :
        \/ \E v \in Revisions : Submit(r, v)
        \/ \E c \in Runs \cup {NoRun}, k \in Keys \cup {NoKey}, n \in BOOLEAN :
               Succeed(r, c, k, n)
        \/ Fail(r)

Spec == Init /\ [][Next]_vars
=============================================================================
