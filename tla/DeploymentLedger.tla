-------------------------- MODULE DeploymentLedger --------------------------
(***************************************************************************)
(* What a client of the management API may rely on, with no worker, lease, *)
(* source directory or database statement in sight: a deployment stays     *)
(* pending until it succeeds, fails or is cancelled, once and for good.    *)
(* Success and the new active revision are one step, show every step of    *)
(* the package done, and never follow a request for cancellation.  A retry *)
(* is a new deployment of the same upload.  Deployments is shown to        *)
(* implement this.                                                         *)
(***************************************************************************)
CONSTANTS
    Deployments, Contents,
    Plan,           \* the steps of a content: validate, activate, its own
    NoContent, NoDeployment

VARIABLES
    phase,      \* "absent", "pending", "succeeded", "failed" or "cancelled"
    content,    \* the package of a deployment
    origin,     \* the deployment with which that package was uploaded
    asked,      \* its cancellation has been asked for
    done,       \* the steps shown as succeeded, once it has ended
    active      \* the deployment that made the active revision active

vars == <<phase, content, origin, asked, done, active>>

Init ==
    /\ phase = [d \in Deployments |-> "absent"]
    /\ content = [d \in Deployments |-> NoContent]
    /\ origin = [d \in Deployments |-> d]
    /\ asked = [d \in Deployments |-> FALSE]
    /\ done = [d \in Deployments |-> {}]
    /\ active = NoDeployment

\* Deployment d of content c, uploaded with deployment o.
Starts(d, c, o) ==
    /\ phase[d] = "absent"
    /\ phase' = [phase EXCEPT ![d] = "pending"]
    /\ content' = [content EXCEPT ![d] = c]
    /\ origin' = [origin EXCEPT ![d] = o]
    /\ UNCHANGED <<asked, done, active>>

Submit(d, c) == Starts(d, c, d)

Retry(o, d) ==
    /\ phase[o] \in {"failed", "cancelled"}
    /\ Starts(d, content[o], origin[o])

Ask(d) ==
    /\ phase[d] = "pending"
    /\ asked' = [asked EXCEPT ![d] = TRUE]
    /\ UNCHANGED <<phase, content, origin, done, active>>

\* Nobody had started it.
Withdraw(d) ==
    /\ phase[d] = "pending"
    /\ phase' = [phase EXCEPT ![d] = "cancelled"]
    /\ asked' = [asked EXCEPT ![d] = TRUE]
    /\ UNCHANGED <<content, origin, done, active>>

Ends(d, p) ==
    /\ phase[d] = "pending"
    /\ phase' = [phase EXCEPT ![d] = p]
    /\ UNCHANGED <<content, origin, asked>>

\* Cancelled or failed, it shows some steps of its package, never its activation.
Cancel(d) ==
    /\ asked[d]
    /\ Ends(d, "cancelled")
    /\ \E f \in SUBSET (Plan[content[d]] \ {"activate"}) : done' = [done EXCEPT ![d] = f]
    /\ UNCHANGED active

Fail(d) ==
    /\ ~asked[d]
    /\ Ends(d, "failed")
    /\ \E f \in SUBSET (Plan[content[d]] \ {"activate"}) : done' = [done EXCEPT ![d] = f]
    /\ UNCHANGED active

Succeed(d) ==
    /\ ~asked[d]
    /\ Ends(d, "succeeded")
    /\ done' = [done EXCEPT ![d] = Plan[content[d]]]
    /\ active' = d

Next ==
    \E d \in Deployments :
        \/ \E c \in Contents : Submit(d, c)
        \/ \E o \in Deployments : Retry(o, d)
        \/ Ask(d) \/ Withdraw(d) \/ Cancel(d) \/ Fail(d) \/ Succeed(d)

Spec == Init /\ [][Next]_vars
=============================================================================
