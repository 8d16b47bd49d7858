----------------------------- MODULE Deployments -----------------------------
(***************************************************************************)
(* Deployment jobs: the rows of the deployments and deployment_steps       *)
(* tables, the retained package sources, and the deployment workers that   *)
(* take a job through validation, promotion and activation under a lease   *)
(* (internal/database/database.go, CreateDeployment to FailDeployment and  *)
(* ActivateDeployment; internal/service/deployment_worker.go and           *)
(* deployment_intake.go).                                                  *)
(*                                                                         *)
(* Abstractions.                                                           *)
(*  - Time is the Boolean "elapsed" of a row: lease_expires_at has passed. *)
(*  - A package is its content; Promotion gives the build and check steps  *)
(*    of its manifest.  Whether a command succeeds is free.                *)
(*  - Every store method is one statement or one transaction on the row    *)
(*    and is one step; process() and runOnce() are the sequence of their   *)
(*    calls.  The monitor goroutine acts at any time between them.         *)
(*  - An idempotent replay of a request changes no row and is left out.    *)
(*  - The direct activations (the CLI's deploy and a rollback) have no     *)
(*    deployment row and are left to Approvals.                            *)
(***************************************************************************)
EXTENDS Naturals, Sequences

CONSTANTS
    Deployments, Workers, Contents,
    Promotion,      \* the build and check steps of a content's manifest
    MaxFaults,      \* bound on crashes, shutdowns, lapsed leases, lost requests
    NoDeployment, NoWorker, NoContent

PromotionStep == {"build", "check"}
Step == {"validate", "activate"} \cup PromotionStep

ASSUME PromotionAssumption ==
    \A c \in Contents : Promotion[c] \in {<<>>, <<"build">>, <<"check">>,
                                          <<"build", "check">>}

ASSUME FaultAssumption == MaxFaults \in Nat

ASSUME NoneAssumption ==
    /\ NoDeployment \notin Deployments
    /\ NoWorker \notin Workers
    /\ NoContent \notin Contents

VARIABLES
    row,        \* the rows of the deployments table
    steps,      \* deployment_steps: the status of each step of a deployment
    sources,    \* the deployments whose source directory is on disk
    active,     \* the deployment that made the active revision active
    worker,     \* the goroutine of each deployment worker
    claims,     \* history: how often a deployment was acquired
    activated,  \* history: the deployments whose revision was activated
    faults      \* history: faults so far

vars == <<row, steps, sources, active, worker, claims, activated, faults>>

-----------------------------------------------------------------------------
(* Rows and workers.                                                       *)

Active == {"validating", "building", "checking", "activating"}
Terminal == {"succeeded", "failed", "cancelled"}
Status == {"absent", "queued"} \cup Active \cup Terminal

\* deploymentStatusForStep.
StageOf(s) == CASE s = "validate" -> "validating"
                [] s = "build" -> "building"
                [] s = "check" -> "checking"
                [] s = "activate" -> "activating"

\* origin: the deployment whose upload left the source this one is built from.
NewRow(c, o) ==
    [status |-> "queued", owner |-> NoWorker, elapsed |-> FALSE,
     cancel |-> FALSE, content |-> c, origin |-> o]

NoSteps == [s \in Step |-> "none"]

Idle == [pc |-> "idle", dep |-> NoDeployment, claim |-> 0, todo |-> <<>>,
         err |-> "none", cause |-> "none"]

\* Mutant: the store methods forget lease_owner.
HoldsAnyActive(w, d) == row[d].status \in Active

\* lease_owner = $ AND status IN (the active ones).
Holds(w, d) == row[d].owner = w /\ row[d].status \in Active

\* ... AND cancel_requested_at IS NULL.
HoldsUncancelled(w, d) == Holds(w, d) /\ ~row[d].cancel

Processing(w) == worker[w].pc \in {"starting", "working", "staging"}

\* process() goes on to the next call: the context is not cancelled.
Proceeds(w, pc) == worker[w].pc = pc /\ worker[w].cause = "none"

\* process() returns with error e; runOnce goes on to its check.
Returns(w, e) ==
    worker' = [worker EXCEPT ![w].pc = "checking", ![w].err = e, ![w].todo = <<>>]

\* deploymentLeaseOrCancellation.
LeaseOrCancellation(d) == IF row[d].cancel THEN "cancelled" ELSE "lost"

-----------------------------------------------------------------------------
Init ==
    /\ row = [d \in Deployments |->
                 [NewRow(NoContent, d) EXCEPT !.status = "absent"]]
    /\ steps = [d \in Deployments |-> NoSteps]
    /\ sources = {}
    /\ active = NoDeployment
    /\ worker = [w \in Workers |-> Idle]
    /\ claims = [d \in Deployments |-> 0]
    /\ activated = {}
    /\ faults = 0

(* Requests of clients.                                                    *)

\* Accept: the source is moved into place and the deployment recorded.
CreateDeployment(d, c) ==
    /\ row[d].status = "absent"
    /\ row' = [row EXCEPT ![d] = NewRow(c, d)]
    /\ sources' = sources \cup {d}
    /\ UNCHANGED <<steps, active, worker, claims, activated, faults>>

\* The request is cancelled after the INSERT and before the row is read back:
\* Accept removes the source of the deployment it has just recorded.
CreateUnanswered(d, c) ==
    /\ row[d].status = "absent"
    /\ faults < MaxFaults
    /\ row' = [row EXCEPT ![d] = NewRow(c, d)]
    /\ faults' = faults + 1
    /\ UNCHANGED <<steps, sources, active, worker, claims, activated>>

\* Immediate for a queued deployment, a request to its worker otherwise.
RequestDeploymentCancellation(d) ==
    /\ row[d].status \in {"queued"} \cup Active
    /\ row' = [row EXCEPT ![d].cancel = TRUE,
                          ![d].status = IF @ = "queued" THEN "cancelled" ELSE @]
    /\ UNCHANGED <<steps, sources, active, worker, claims, activated, faults>>

\* Mutant: the retry does not take over the package's content.
RetryDeploymentBlank(o, d) ==
    /\ row[o].status \in {"failed", "cancelled"}
    /\ row[o].origin \in sources
    /\ row[d].status = "absent"
    /\ row' = [row EXCEPT ![d] = NewRow(NoContent, row[o].origin)]
    /\ UNCHANGED <<steps, sources, active, worker, claims, activated, faults>>

\* A new deployment of the package of a failed or cancelled one.
RetryDeployment(o, d) ==
    /\ row[o].status \in {"failed", "cancelled"}
    /\ row[o].origin \in sources
    /\ row[d].status = "absent"
    /\ row' = [row EXCEPT ![d] = NewRow(row[o].content, row[o].origin)]
    /\ UNCHANGED <<steps, sources, active, worker, claims, activated, faults>>

-----------------------------------------------------------------------------
(* Leases.                                                                 *)

\* Mutant: active deployments with an expired lease are not reclaimed.
AcquirableQueuedOnly(d) == ~row[d].cancel /\ row[d].status = "queued"

\* The WHERE clause of the candidate query.
Acquirable(d) ==
    /\ ~row[d].cancel
    /\ \/ row[d].status = "queued"
       \/ row[d].status \in Active /\ row[d].elapsed

AcquireDeployment(w, d) ==
    /\ worker[w].pc = "idle"
    /\ Acquirable(d)
    /\ row' = [row EXCEPT ![d].status = "validating", ![d].owner = w,
                          ![d].elapsed = FALSE]
    /\ claims' = [claims EXCEPT ![d] = @ + 1]
    /\ worker' = [worker EXCEPT ![w] =
                     [pc |-> "starting", dep |-> d, claim |-> claims[d] + 1,
                      todo |-> <<"validate">> \o Promotion[row[d].content]
                                              \o <<"activate">>,
                      err |-> "none", cause |-> "none"]]
    /\ UNCHANGED <<steps, sources, active, activated, faults>>

Attended(d) == \E w \in Workers : Holds(w, d) /\ worker[w].dep = d

Lapse(d) == row' = [row EXCEPT ![d].elapsed = TRUE]

\* lease_expires_at passes with no worker left to renew the lease.
LeaseExpires(d) ==
    /\ row[d].status \in Active /\ ~row[d].elapsed
    /\ ~Attended(d)
    /\ Lapse(d)
    /\ UNCHANGED <<steps, sources, active, worker, claims, activated, faults>>

\* It passes under a worker that is stalled or cannot reach the database.
LeaseLapses(d) ==
    /\ row[d].status \in Active /\ ~row[d].elapsed
    /\ Attended(d)
    /\ faults < MaxFaults
    /\ Lapse(d)
    /\ faults' = faults + 1
    /\ UNCHANGED <<steps, sources, active, worker, claims, activated>>

\* The monitor cancels the context of process() with a cause.
Interrupts(w, cause) ==
    /\ Proceeds(w, worker[w].pc)
    /\ Processing(w)
    /\ worker' = [worker EXCEPT ![w].cause = cause]

\* DeploymentCancellationRequested, polled by the monitor.
MonitorPolls(w) ==
    LET d == worker[w].dep IN
    /\ Processing(w)
    /\ row[d].status \notin Terminal
    /\ \/ row[d].owner # w /\ Interrupts(w, "lost")
       \/ row[d].owner = w /\ row[d].cancel /\ Interrupts(w, "cancelled")
    /\ UNCHANGED <<row, steps, sources, active, claims, activated, faults>>

\* RenewDeploymentLease, called by the monitor.
RenewDeploymentLease(w) ==
    LET d == worker[w].dep IN
    /\ Processing(w)
    /\ worker[w].cause = "none"
    /\ \/ /\ HoldsUncancelled(w, d)
          /\ row' = [row EXCEPT ![d].elapsed = FALSE]
          /\ UNCHANGED worker
       \/ /\ ~HoldsUncancelled(w, d)
          /\ Interrupts(w, "lost")
          /\ UNCHANGED row
    /\ UNCHANGED <<steps, sources, active, claims, activated, faults>>

\* The control plane shuts down and cancels the worker's context.
Shutdown(w) ==
    /\ faults < MaxFaults
    /\ Interrupts(w, "shutdown")
    /\ faults' = faults + 1
    /\ UNCHANGED <<row, steps, sources, active, claims, activated>>

\* The process dies, or the store stays out of reach while it settles.
Abandon(w) ==
    /\ worker[w].pc # "idle"
    /\ faults < MaxFaults
    /\ worker' = [worker EXCEPT ![w] = Idle]
    /\ faults' = faults + 1
    /\ UNCHANGED <<row, steps, sources, active, claims, activated>>

-----------------------------------------------------------------------------
(* process(), call by call.                                                *)

\* The context is cancelled: the next call or the running command fails and
\* nothing more is recorded.
ProcessInterrupted(w) ==
    /\ Processing(w)
    /\ worker[w].cause # "none"
    /\ Returns(w, "failed")
    /\ UNCHANGED <<row, steps, sources, active, claims, activated, faults>>

\* RecordDeploymentStep with status running.
StepStarts(w) ==
    LET d == worker[w].dep
        s == Head(worker[w].todo)
    IN
    /\ Proceeds(w, "starting")
    /\ \/ /\ HoldsUncancelled(w, d)
          /\ row' = [row EXCEPT ![d].status = StageOf(s)]
          /\ steps' = [steps EXCEPT ![d][s] = "running"]
          /\ worker' = [worker EXCEPT ![w].pc = "working"]
       \/ /\ ~HoldsUncancelled(w, d)
          /\ Returns(w, LeaseOrCancellation(d))
          /\ UNCHANGED <<row, steps>>
    /\ UNCHANGED <<sources, active, claims, activated, faults>>

\* RecordDeploymentStep with a final status matches the row.
StepRecordable(w, d, s) == Holds(w, d) /\ steps[d][s] = "running"

\* SetDeploymentStage follows validation and precedes activation.
AfterStep(s, rest) ==
    IF s = "validate" \/ Head(rest) = "activate" THEN "staging" ELSE "starting"

\* Prepare, or a build or check command, succeeds.
StepSucceeds(w) ==
    LET d == worker[w].dep
        s == Head(worker[w].todo)
        rest == Tail(worker[w].todo)
    IN
    /\ Proceeds(w, "working")
    /\ s # "activate"
    /\ row[d].origin \in sources
    /\ \/ /\ StepRecordable(w, d, s)
          /\ steps' = [steps EXCEPT ![d][s] = "succeeded"]
          /\ worker' = [worker EXCEPT ![w].pc = AfterStep(s, rest), ![w].todo = rest]
       \/ /\ ~StepRecordable(w, d, s)
          /\ Returns(w, "lost")
          /\ UNCHANGED steps
    /\ UNCHANGED <<row, sources, active, claims, activated, faults>>

\* It fails, or the source is gone.  A validation failure is reported without
\* regard to whether the report was accepted.
StepFails(w) ==
    LET d == worker[w].dep
        s == Head(worker[w].todo)
    IN
    /\ Proceeds(w, "working")
    /\ s # "activate"
    /\ \/ /\ StepRecordable(w, d, s)
          /\ steps' = [steps EXCEPT ![d][s] = "failed"]
          /\ Returns(w, "failed")
       \/ /\ ~StepRecordable(w, d, s)
          /\ Returns(w, IF s = "validate" THEN "failed" ELSE "lost")
          /\ UNCHANGED steps
    /\ UNCHANGED <<row, sources, active, claims, activated, faults>>

\* BuildArtifact fails outside a command: the artifact cannot be copied,
\* attested, published or verified.
BuildArtifactFails(w) ==
    /\ \/ Proceeds(w, "starting") /\ Head(worker[w].todo) \in PromotionStep
       \/ Proceeds(w, "staging") /\ Head(worker[w].todo) = "activate"
    /\ Returns(w, "failed")
    /\ UNCHANGED <<row, steps, sources, active, claims, activated, faults>>

\* A store call of process() ends with a database error.
StoreErrors(w) ==
    /\ Processing(w)
    /\ worker[w].cause = "none"
    /\ faults < MaxFaults
    /\ Returns(w, "failed")
    /\ faults' = faults + 1
    /\ UNCHANGED <<row, steps, sources, active, claims, activated>>

SetDeploymentStage(w) ==
    LET d == worker[w].dep
        may == HoldsUncancelled(w, d) /\ row[d].status # "activating"
    IN
    /\ Proceeds(w, "staging")
    /\ \/ /\ may
          /\ row' = [row EXCEPT ![d].status = StageOf(Head(worker[w].todo))]
          /\ worker' = [worker EXCEPT ![w].pc = "starting"]
       \/ /\ ~may
          /\ Returns(w, "lost")
          /\ UNCHANGED row
    /\ UNCHANGED <<steps, sources, active, claims, activated, faults>>

\* Mutant: activation does not look at a cancellation request.
ActivatableCancelled(w, d) == row[d].owner = w /\ row[d].status = "activating"

\* The UPDATE that ends the activation transaction matches the row.
Activatable(w, d) ==
    row[d].owner = w /\ row[d].status = "activating" /\ ~row[d].cancel

AtActivation(w) == Proceeds(w, "working") /\ Head(worker[w].todo) = "activate"

\* Mutant: the revision is committed before the deployment row is matched.
ActivateDeploymentTorn(w) ==
    LET d == worker[w].dep IN
    /\ AtActivation(w)
    /\ active' = d
    /\ activated' = activated \cup {d}
    /\ \/ /\ Activatable(w, d)
          /\ row' = [row EXCEPT ![d].status = "succeeded", ![d].owner = NoWorker,
                                ![d].elapsed = FALSE]
          /\ steps' = [steps EXCEPT ![d]["activate"] = "succeeded"]
          /\ Returns(w, "none")
       \/ /\ ~Activatable(w, d)
          /\ Returns(w, LeaseOrCancellation(d))
          /\ UNCHANGED <<row, steps>>
    /\ UNCHANGED <<sources, claims, faults>>

\* One transaction publishes the revision and completes the deployment, or
\* does neither.
ActivateDeployment(w) ==
    LET d == worker[w].dep IN
    /\ AtActivation(w)
    /\ \/ /\ Activatable(w, d)
          /\ row' = [row EXCEPT ![d].status = "succeeded", ![d].owner = NoWorker,
                                ![d].elapsed = FALSE]
          /\ steps' = [steps EXCEPT ![d]["activate"] =
                          IF @ = "running" THEN "succeeded" ELSE @]
          /\ active' = d
          /\ activated' = activated \cup {d}
          /\ Returns(w, "none")
       \/ /\ ~Activatable(w, d)
          /\ Returns(w, LeaseOrCancellation(d))
          /\ UNCHANGED <<row, steps, active, activated>>
    /\ UNCHANGED <<sources, claims, faults>>

\* The transaction fails before that: pending approvals that strand_approvals
\* does not override, a missing secret, an invalid trigger or a database error.
ActivationRefused(w) ==
    /\ AtActivation(w)
    /\ Returns(w, "failed")
    /\ UNCHANGED <<row, steps, sources, active, claims, activated, faults>>

-----------------------------------------------------------------------------
(* runOnce() after process() has returned.                                 *)

\* DeploymentCancellationRequested, asked once more.
CancellationSeen(w) ==
    \/ Holds(w, worker[w].dep) /\ row[worker[w].dep].cancel
    \/ worker[w].cause = "cancelled"
    \/ worker[w].err = "cancelled"

Decides(w, pc) ==
    /\ worker[w].pc = "checking"
    /\ worker' = [worker EXCEPT ![w].pc = pc]
    /\ UNCHANGED <<row, steps, sources, active, claims, activated, faults>>

CheckCancelled(w) == Decides(w, "cancelling") /\ CancellationSeen(w)

Failing(w) == worker[w].err = "failed" /\ worker[w].cause \notin {"lost", "shutdown"}

CheckFailed(w) == Decides(w, "failing") /\ ~CancellationSeen(w) /\ Failing(w)

\* Success, a lost lease or a shutdown: the row is left as it is.
CheckDone(w) ==
    /\ worker[w].pc = "checking"
    /\ ~CancellationSeen(w) /\ ~Failing(w)
    /\ worker' = [worker EXCEPT ![w] = Idle]
    /\ UNCHANGED <<row, steps, sources, active, claims, activated, faults>>

\* Mutant: the steps of a cancelled deployment are left running.
CompleteDeploymentCancellationNoSteps(w) ==
    LET d == worker[w].dep IN
    /\ worker[w].pc = "cancelling"
    /\ \/ /\ Holds(w, d) /\ row[d].cancel
          /\ row' = [row EXCEPT ![d].status = "cancelled", ![d].owner = NoWorker,
                                ![d].elapsed = FALSE]
       \/ ~(Holds(w, d) /\ row[d].cancel) /\ UNCHANGED row
    /\ worker' = [worker EXCEPT ![w] = Idle]
    /\ UNCHANGED <<steps, sources, active, claims, activated, faults>>

CompleteDeploymentCancellation(w) ==
    LET d == worker[w].dep IN
    /\ worker[w].pc = "cancelling"
    /\ \/ /\ Holds(w, d) /\ row[d].cancel
          /\ row' = [row EXCEPT ![d].status = "cancelled", ![d].owner = NoWorker,
                                ![d].elapsed = FALSE]
          /\ steps' = [steps EXCEPT ![d] =
                          [s \in Step |-> IF @[s] = "running" THEN "failed" ELSE @[s]]]
       \/ ~(Holds(w, d) /\ row[d].cancel) /\ UNCHANGED <<row, steps>>
    /\ worker' = [worker EXCEPT ![w] = Idle]
    /\ UNCHANGED <<sources, active, claims, activated, faults>>

\* A deployment that is cancelled or lost in the meantime is left alone.
FailDeployment(w) ==
    LET d == worker[w].dep IN
    /\ worker[w].pc = "failing"
    /\ \/ /\ HoldsUncancelled(w, d)
          /\ row' = [row EXCEPT ![d].status = "failed", ![d].owner = NoWorker,
                                ![d].elapsed = FALSE]
       \/ ~HoldsUncancelled(w, d) /\ UNCHANGED row
    /\ worker' = [worker EXCEPT ![w] = Idle]
    /\ UNCHANGED <<steps, sources, active, claims, activated, faults>>

-----------------------------------------------------------------------------
Acquire(w) == \E d \in Deployments : AcquireDeployment(w, d)

Progress(w) ==
    \/ ProcessInterrupted(w)
    \/ StepStarts(w) \/ StepSucceeds(w) \/ StepFails(w)
    \/ BuildArtifactFails(w)
    \/ SetDeploymentStage(w)
    \/ ActivateDeployment(w) \/ ActivationRefused(w)
    \/ CheckCancelled(w) \/ CheckFailed(w) \/ CheckDone(w)
    \/ CompleteDeploymentCancellation(w) \/ FailDeployment(w)

WorkerStep(w) ==
    \/ Acquire(w) \/ Progress(w)
    \/ MonitorPolls(w) \/ RenewDeploymentLease(w)
    \/ Shutdown(w) \/ Abandon(w) \/ StoreErrors(w)

RowStep(d) ==
    \/ \E c \in Contents : CreateDeployment(d, c) \/ CreateUnanswered(d, c)
    \/ \E o \in Deployments : RetryDeployment(o, d)
    \/ RequestDeploymentCancellation(d)
    \/ LeaseExpires(d) \/ LeaseLapses(d)

Next == (\E w \in Workers : WorkerStep(w)) \/ (\E d \in Deployments : RowStep(d))

Spec == Init /\ [][Next]_vars

(* Workers poll on a ticker; commands and calls are bounded by timeouts;   *)
(* clocks advance.                                                         *)
Fairness ==
    /\ \A w \in Workers : WF_vars(Acquire(w)) /\ WF_vars(Progress(w))
    /\ \A d \in Deployments : WF_vars(LeaseExpires(d))

FairSpec == Spec /\ Fairness

-----------------------------------------------------------------------------
(* Properties.                                                             *)

Row == [status : Status, owner : Workers \cup {NoWorker}, elapsed : BOOLEAN,
        cancel : BOOLEAN, content : Contents \cup {NoContent},
        origin : Deployments]

Worker == [pc : {"idle", "starting", "working", "staging", "checking",
                 "cancelling", "failing"},
           dep : Deployments \cup {NoDeployment}, claim : Nat, todo : Seq(Step),
           err : {"none", "failed", "lost", "cancelled"},
           cause : {"none", "lost", "cancelled", "shutdown"}]

\* Types, and what a worker's position says about it: it has a deployment while
\* it is busy and a step at hand while it processes one.
TypeOK ==
    /\ row \in [Deployments -> Row]
    /\ \A d \in Deployments : row[d].status # "absent" => row[d].content \in Contents
    /\ steps \in [Deployments -> [Step -> {"none", "running", "succeeded", "failed"}]]
    /\ sources \subseteq Deployments
    /\ active \in Deployments \cup {NoDeployment}
    /\ worker \in [Workers -> Worker]
    /\ \A w \in Workers :
           /\ worker[w].pc # "idle" => worker[w].dep \in Deployments
           /\ Processing(w) => worker[w].todo # <<>>
    /\ claims \in [Deployments -> Nat]
    /\ activated \subseteq Deployments
    /\ faults \in 0..MaxFaults

\* The active revision never belongs to a failed or unfinished deployment, and a
\* deployment succeeds exactly by activating: ActivateDeployment publishes and
\* completes in one transaction, whoever lost which lease meanwhile.
ActivationAtomic ==
    /\ \A d \in Deployments : row[d].status = "succeeded" <=> d \in activated
    /\ active = NoDeployment <=> activated = {}
    /\ active # NoDeployment => active \in activated

\* A worker that still passes the fence of a store method works for the newest
\* acquisition of the deployment, although the fence compares worker ids only.
FenceIsClaim ==
    \A w \in Workers :
        (worker[w].pc # "idle" /\ Holds(w, worker[w].dep)) =>
            worker[w].claim = claims[worker[w].dep]

\* A succeeded deployment shows every step of its package succeeded, whatever
\* was retried after a crash; a cancelled one shows no step still running.
StepsAgree ==
    \A d \in Deployments :
        /\ row[d].status = "succeeded" =>
               \A s \in Step : steps[d][s] = "succeeded" <=>
                   s \in {"validate", "activate"} \cup
                         {Promotion[row[d].content][i] :
                             i \in DOMAIN Promotion[row[d].content]}
        /\ row[d].status = "cancelled" => \A s \in Step : steps[d][s] # "running"

\* Once its cancellation is requested a deployment can only end as cancelled,
\* and an ended deployment never changes again: a worker that is about to
\* activate or fail it finds its statement refused.
CancellationWins ==
    [][\A d \in Deployments :
          /\ row[d].cancel => row'[d].cancel /\ row'[d].status \notin {"succeeded", "failed"}
          /\ row[d].status \in Terminal =>
                 row'[d] = row[d] /\ steps'[d] = steps[d]]_vars

\* The worker, its leases and its crashes are invisible to a client: what the API
\* shows of the rows behaves as the ledger says, in which steps count at the end.
Ledger == INSTANCE DeploymentLedger WITH
    Plan <- [c \in Contents |-> {"validate", "activate"} \cup
                                {Promotion[c][i] : i \in DOMAIN Promotion[c]}],
    phase <- [d \in Deployments |-> IF row[d].status \in {"queued"} \cup Active
                                   THEN "pending" ELSE row[d].status],
    content <- [d \in Deployments |-> row[d].content],
    origin <- [d \in Deployments |-> row[d].origin],
    asked <- [d \in Deployments |-> row[d].cancel],
    done <- [d \in Deployments |-> {s \in Step : /\ row[d].status \in Terminal
                                                /\ steps[d][s] = "succeeded"}]

\* A retry deploys what was uploaded with the deployment it repeats, success and
\* activation are one event that no requested cancellation precedes, and what is
\* shown of a deployment when it ends stays so.
ImplementsLedger == Ledger!Spec

\* Every deployment that nobody cancels succeeds or fails, across crashes,
\* shutdowns and lapsed leases (AcquireDeployment reclaims, process() restarts).
EventuallyFinished ==
    \A d \in Deployments : row[d].status = "queued"
                               ~> (row[d].status \in Terminal \/ row[d].cancel)

\* docs/execution.md: "Expired leases can be reacquired after a worker crash";
\* docs/management-api.md has agents poll until succeeded, failed or cancelled.
\* A deployment whose cancellation is requested ends.
CancellationCompletes ==
    \A d \in Deployments : row[d].cancel ~> row[d].status \in Terminal
=============================================================================
