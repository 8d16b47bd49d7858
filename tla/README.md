# Werkt: a TLA+ model of the control plane

Werkt runs automations. A PostgreSQL database holds everything that has to
survive: deployments, revisions, runs, automation state, approvals,
notifications. Several goroutines, in one process or in many, poll that database
and work on its rows under leases. All coordination goes through SQL
transactions, so this is where the difficult behaviour is and what the modules
here describe.

Contents: [inventory](#inventory), [modules](#modules), [runs](#runs),
[fairness](#fairness), [proofs](#proofs), [findings](#findings),
[what is not modelled](#not-modelled), [plan](#plan).

## Inventory

All paths are under `src/`; `database.go` is `internal/database/database.go`.

### Run queue and workers (`database.go`, `internal/service/worker.go`)

State: the rows of `runs` (status, revision, attempt, lease owner and expiry,
available_at, parent). Operations: enqueue, `AcquireRun`, `RenewRunLease`,
`CompleteRun`, `FailRun`, `ReleaseRun`. A worker claims one run, executes it
while a second goroutine renews the lease, and records the outcome under a
timeout. Hard: a lease that lapses while the worker is still executing, a crash
between claim and outcome, two `AcquireRun` statements with overlapping
snapshots, a `CompleteRun` that rolls back after its first statement succeeded.
Correct when: only the newest attempt settles a run, a settled run never changes,
retries stay within the manifest's limit, and each accepted run settles.

### Automation state (`database.go`, migration 007)

State: one versioned JSON value per automation. It is read by `AcquireRun` in the
claiming statement and written by `CompleteRun` if the version is unchanged. Hard:
the comparison happens minutes after the read. Correct when the value is the fold
of exactly the successful stateful runs, each applied once.

### Deployment jobs (`deployment_intake.go`, `deployment_worker.go`, `database.go`)

State: the rows of `deployments` and `deployment_steps`, the source directories.
Operations: accept, acquire, renew, record a step, set the stage, activate, fail,
request and complete a cancellation, retry. A monitor goroutine polls for the
cancellation and renews the lease, and interrupts the pipeline. Hard: a
cancellation between two statements of the worker, a lost lease in the middle of
the pipeline, a client that goes away during the upload. Correct when activation
and success are one event, a requested cancellation is not overtaken, the
recorded steps agree with the outcome, and every job ends.

### Activation, rollback and approvals (`database.go`, `approvals.go`)

State: the active revision of an automation, `approvals`. Operations: a completed
run opens an approval, a reviewer answers it (idempotently, by key), it expires,
an activation or a rollback replaces the revision under it. Activation is refused
while approvals are answerable, unless the operator overrides. Hard: row locks
taken in two orders, statements that decide on what a previous statement saw,
the first deployment of an automation (no row to lock). Correct when an approval
is decided once and queues one action run, and no guarded activation strands one.

### Notification outbox (`notifications.go`, `notification_worker.go`, `internal/notification`)

State: `notification_events`, `notification_deliveries`. Events are written in
the transactions of the other components; a worker expands an event to the
destinations of its configuration, then sends deliveries under a lease that is
never renewed. Hard: two workers with different routes, a crash between the
provider's acceptance and its record, late reports. Correct when routes are
decided once, duplicates come from such losses only, attempts are bounded, and
every delivery succeeds or is given up.

### Event ingestion, schedules, pausing, ntfy (`database.go`, `scheduler.go`, `ntfy.go`, `internal/httpapi/server.go`)

State: the rows of `triggers` (of the active revision, with `next_fire_at`),
`events`, the flag that pauses an automation, the subscriptions of the ntfy
reconciler. Operations: an activation or a rollback replaces the triggers, the
scheduler queues one occurrence of each due schedule per poll, ingress handlers and
subscriptions record events, callers start runs by hand, operators pause and resume.
Hard: a handler reads the trigger's policy in one transaction and records the event in
another; `enqueueEvent` reads the active revision without locking it; ntfy streams
break and are replayed from their start, by the subscriptions of two revisions at a
time. Correct when an event has one run, pinned to a revision that asked for it, no
occurrence is skipped or repeated, none of a pause is replayed, and events arrive.

### Retention and secrets (`retention.go` in `internal/service` and `internal/database`, `secrets.go`)

State: retained sources and artifacts on disk, the rows that name them, plans and
their items; secrets and the references revisions hold to them. Operations: plan,
claim, skip, detach, remove, record, complete; put and delete a secret. Hard: a plan
is applied long after it was made, while deployments, retries, rollbacks and runs come
to need what it deletes; the lease of an applier lapses; a statement decides by a
subquery and then waits for a row lock. Correct when nothing that is in use is removed,
a revision that can be run has its secrets, and a plan is reported applied when it is.

### Executors (`internal/runner`, `worker.go`)

State: what an attempt does outside the database: requests to Husker, VMs, processes.
Operations: create, provision, execute, read the result, clean up, reap the VMs of
earlier attempts; build in a disposable VM. Hard: an answer that is lost leaves open
whether the VM exists or the command ran; a superseded attempt goes on; a shutdown
races the end of a command; Husker may stop answering. Correct when a command is
started once, attempts do not overlap except where unavoidable, VMs are removed or
accounted for, the recorded outcome is what happened, and attempts end.

### Investigations (`investigations.go`, `internal/domain/investigation.go`, `scripts/investigation.py`)

State: a versioned record per request, a cloud task. Operations: reserve, submit,
capture, claim, edit. Hard: the adapter dies around the submission; the task changes
while its patch is read; two operators write what they read long ago. Correct when
work is submitted once, no update is lost, and a recorded patch belongs to the recorded
version of the task.

### Parts without a module

Supervisor and command line (`supervisor.go`, `cmd/werkt`), provenance, manifest and
package handling, the rest of the HTTP API and its clients, authoring and the SDK.

### Interactions

`CompleteRun` writes runs (continuations), automation state, approvals and
notification events in one transaction. `ResolveApproval` queues a run.
`ActivateDeployment` completes the deployment, publishes the revision, replaces
the triggers and makes runs enqueued from then on use it. `FailRun`,
`ResolveApproval` and the scan for expiring approvals write notification events.
Retention reads the rows of revisions, runs and deployments and deletes what they
name; activation records the references that keep a secret.
Workers share nothing but the database, except the monitor or renewal goroutine
beside each execution, which cancels its context.

## Modules

| Module | Models |
| --- | --- |
| `RunLedger` | abstract: what a run does to the durable state, once |
| `RunQueue` | run queue, workers and automation state; implements `RunLedger` |
| `RunQueueProofs` | types, fencing, serialization of the state, effects, retry budget, settling, refinement of `RunLedger` |
| `DeploymentLedger` | abstract: what a client of the API may rely on |
| `Deployments` | deployment jobs, workers, cancellation, retry; implements `DeploymentLedger` |
| `DeploymentsProofs` | types, activation, fencing, steps, cancellation, refinement of `DeploymentLedger` |
| `Approvals` | approvals against activations, overrides and rollbacks |
| `ApprovalsProofs` | types, single decision, guard, finality |
| `Notifications` | outbox events, expansion, deliveries |
| `NotificationsProofs` | types, fencing, budget, accounting of accepted requests, routes |
| `Triggers` | trigger rows, scheduler, ingress, manual runs, pausing, ntfy |
| `TriggersProofs` | types, one run per event, pinned revisions, schedules |
| `Storage` | sources, artifacts and secrets against deployments, rollbacks, runs and retention |
| `StorageProofs` | types, secrets, completed plans, sources, artifacts |
| `Attempts` | attempts in VMs and processes, and the build VM |
| `AttemptsProofs` | types, single execution, accounting of machines, outcomes |
| `Investigations` | the registry of investigations and its adapter |
| `InvestigationsProofs` | types, one submission, linear history, true patches |
| `MC...` | constants and symmetry sets for TLC |

Conventions. A row is a record whose status is `"absent"` until it exists. Time is
a Boolean of the row (`elapsed`, `past`): the timestamp that matters next has
passed. A store method that does its work in one statement or under one lock is
one action; a method whose statements can be separated by others is several:
`AcquireRun` takes its snapshot and claims in two steps, an activation begins,
passes the guard and commits in three, `ResolveApproval` in two, and the
deployment pipeline is one step per call of the store. The goroutine of a worker
is a record with a `pc`. Variables marked "history" exist only for the properties
and guard nothing, with the exception of `faults`, which bounds the faults.

### RunQueue

`run`, `state`, `opened`, `outbox` are tables; `worker` is what a goroutine has in
its local variables: the candidates of a statement in flight, the claimed run, its
attempt and the state it was given. `AcquireSnapshot` evaluates the conditions of
`AcquireRun`; `AcquireClaim` claims one row that has not been updated since
(`RowUpdated`, PostgreSQL's recheck under READ COMMITTED, external). `CompleteRun`
is the whole transaction: fence, state comparison, continuation, approval,
notification; `CompleteRejected` are its rollbacks, after which the worker logs the
error and the row stays running until its lease ends. `FailRun` decides between
retry and failure; `ReleaseRun` is the shutdown path; `Abandon` stands for a crash
or an outcome that could not be recorded in time; `LeaseLapses` for a worker that
stalls past its lease and does not know it. A state value is the set of runs folded
into it, so a lost or doubled transition is visible.

### Deployments

`process()` and `runOnce()` are followed call by call: `StepStarts`,
`StepSucceeds`/`StepFails`, `SetDeploymentStage`, `ActivateDeployment` or
`ActivationRefused`, then the check for a cancellation (`CheckCancelled`,
`CheckFailed`, `CheckDone`) and `CompleteDeploymentCancellation` or
`FailDeployment`. The monitor is `MonitorPolls` and `RenewDeploymentLease`, at any
time in between. `CreateUnanswered` is a `CreateDeployment` that errs after its
INSERT. Packages are model values whose `Promotion` gives their build and check.

### Approvals

One automation; sessions are database connections with an open transaction.
Which locks a session holds follows from its `pc`: the approval row while
"resolving", the automation row when `locked`. An activation's `now()` is that of
its BEGIN, so the expiries it sees are fixed in `past`. A rollback asks nobody
(`RollbackAutomation` never calls the guard) and counts as a decision.

### Notifications

Every worker has a set of routes that changes only with a restart. `RunOnce` is
`runOnce()`: one event at most, then one delivery at most. The provider accepts,
refuses, or accepts and the answer is lost. `Restart` also stands for an iteration
that ends with a database error.

### Triggers

One automation. `row` is the table of triggers, rebuilt by `ReplaceTriggers` in every
activation and rollback; `runs` has one element per event row, with the revision its
run is pinned to. A request is three steps: `CheckIngress` (policy and credential),
`IngestSelect` and `IngestInsert`, the two halves of `enqueueEvent`, which takes no
lock. What each handler takes for the external id is an operator of its own
(`WebhookID`, `GithubID`, `ZoomID`, `EmailID`). A subscription (`sub`) belongs to a
trigger of a revision and restarts at position 0: `since=all`. A deployment of a
revision that exists already stands for every deployment, since it takes the same
transaction.

### Storage

One automation; a content has one artifact and one revision row. `job` follows a
deployment from the upload over `Prepare`, `BuildArtifact` and `SetDeploymentStage` to
the two halves of `deploy()`. `Candidates` is `selectRetentionCandidates`, with age as
a flag and the count floors of the policy. An applier takes the items in order;
`DetachDecides` and `DetachWrites` are the two halves of `DetachRetentionItem`'s
statement: its `NOT EXISTS` is evaluated on a snapshot, and only the updated rows are
locked and rechecked. `overlapped` remembers the items that came into use between the
two, or whose use had been decided on but not yet recorded; the invariants except
exactly those, and `storage_race` shows what becomes of one.

### Attempts

`att` is the goroutine of an attempt, `vm` what is named after it, `wire` the requests
Husker has not handled. A request may be handled at any time, also after its sender
gave up, and its answer may be lost; `retryDelay` decides what is sent again
(`Retries`). `MayOwnVM` decides who cleans up after an unclear create. Time is counted
in ticks: the contexts of provisioning, execution and cleanup, and Husker's own
lifetime of a VM, run against each other. The row of the run is reduced to who may
attempt it. `executor` is chosen in the initial state; a build is one attempt,
because its VM names are random and never meet.

### Investigations

`versions` is the table of accepted states. `launch`, `capture` and `claim` of the
adapter are followed call by call, an operator with the API is `EditRead` and `Edit`,
and a process may die anywhere (`Dies`). `ValidTransition` is `ValidateTransition`
with the texts left out. The cloud service is external: its task changes whenever it
likes.

## Runs

| Run | Bounds | Shows |
| --- | --- | --- |
| `runqueue` | 2 runs of a stateful and a stateless revision, 2 workers, 2 faults | TypeOK, NoLostUpdate, FenceIsAttempt, EffectsOfSuccess, RetryBudget, SettledByLatestAttempt, ImplementsLedger, EventuallySettled |
| `runqueue_forbid` | 2 runs of one forbidding automation, no fault | ForbidSerialized is violated |
| `deployments_safety` | 2 deployments, 2 packages (one with build and check), 2 workers, 1 fault | ActivationAtomic, StepsAgree, FenceIsClaim, CancellationWins, ImplementsLedger |
| `deployments_live` | 2 deployments, 2 workers, 1 fault | EventuallyFinished |
| `deployments_cancel` | 1 deployment | CancellationCompletes is violated |
| `approvals` | 1 approval, 2 revisions, 2 keys, 2 transactions | TypeOK, DecidedOnce, GuardHolds, DecisionFinal, TransactionsEnd |
| `notifications` | 1 event, 2 destinations, 2 workers, 1 fault | TypeOK, AcceptedAccounted, AttemptBudget, FenceIsAttempt, RoutesSnapshot, EventuallyDelivered |
| `triggers` | 2 revisions with other periods and triggers, 1 sender, 2 requests, 1 ntfy message, 2 instants, 1 fault | OneRunPerEvent, RunFitsRevision, ScheduleAccounted, EventsArrive |
| `storage` | 2 contents, 1 upload and 1 retry, 1 run, 1 secret, 2 appliers, floors 0 and 1, 1 fault | ArtifactKept, SourceKept, SecretsBound, AppliedComplete |
| `storage_race` | 2 contents, 1 upload of the older, 1 applier, no fault | DeployedArtifactKept is violated |
| `attempts` | 2 attempts, every limit 1 tick, 2 sends of a request, 1 failed request, 1 crash, lapse or shutdown; process, Husker and build | OneExecution, VMsAccounted, OutcomeTrue, AttemptsEnd |
| `investigations` | 2 requests, 2 operators, 6 versions, 3 versions of the task | SubmittedOnce, HistoryLinear, SnapshotTrue |

Why the bounds are enough to be interesting. A fence or a compare-and-swap is
between two parties, so two workers or two transactions meet every pairwise race;
a second run is a competitor of the first or its continuation. One fault supersedes
an attempt; two let a superseded worker's successor be superseded as well. Limits of
attempts are one or two, so that both the retry and the last attempt occur.
`AttemptBound` caps the attempts of a run that is rejected over and over (a used
approval key); in `runqueue` it lies above every limit plus the faults, so that the cap
cuts off such runs only. The theorems need none of these bounds. Where a
run does not list TypeOK, the types are left to the theorem (`TypeCorrect`).

In `triggers` two instants give a backlog of two occurrences of the faster schedule
and one of the slower; a sender and a manual caller share two requests, so an event is
delivered twice or meets another. Its deliveries are GitHub's: the id rules of the
other handlers are translated and not exercised by this instance. In `storage` the
upload is of either of two published contents: the older one, which a plan may delete
and a rollback may ask for, has nothing to build or check, so the hash of its deployment
is recorded as late as the code allows; the other one's is recorded early. In `attempts` a tick is the whole of a limit, so everything
that can happen before or after a deadline does. In `investigations` six versions are
enough for one investigation from reservation to completion, or for two that follow
each other.

`CHECK_DEADLOCK FALSE` is set for RunQueue, Deployments, Storage, Attempts and
Investigations: they have a fixed set of runs, deployments, plans, attempts or versions
and no polling step that changes nothing, so once everything has ended (or is stranded,
which `deployments_cancel` reports) the model has nothing left to do. Approvals,
Notifications and Triggers are checked for deadlock.

Symmetry is used in `deployments_safety`, `storage` and `investigations`, which check no
liveness, over deployments, workers, appliers, requests and operators, which no
constant tells apart.

## Fairness

* Workers poll on a ticker and their calls have timeouts, so a worker that can
  always take a step takes one: weak fairness of each worker's loop. Faults
  (crash, shutdown, lapsed lease, lost answer), requests of clients and
  cancellations are never fair.
* Clocks advance: weak fairness of `BecomeDue` and of `LeaseExpires`. An expiry
  while the worker attends to the lease (`LeaseLapses`) is a fault and not fair.
* In Approvals, transactions wait for row locks that others take and release all
  the time. PostgreSQL queues the waiters of a row, so a waiter is served: strong
  fairness of the rest of an open transaction.

* In Triggers, the scheduler and the reconciler poll on tickers and a subscription
  reconnects and goes on reading: weak fairness of each. Senders and operators promise
  nothing.
* In Attempts, time passes, contexts end, and the process goes on with its cleanup and
  its record. Nothing is assumed of Husker, which may never answer, nor of the command.

Fairness does not choose outcomes: no property needs a run, a step or a request to
succeed.

## Proofs

`RunQueueProofs`, for any sets of runs (finite), workers,
automations, revisions and keys, any manifests that satisfy `ManifestAssumption`
(retries not negative, state requires forbid), and any bounds:

* `TypeCorrect`. The inductive invariant is `TypeInv`: TypeOK and `EligibleLive`
  (a candidate of a statement in flight is queued or running, so that a claim never
  touches a row that does not exist).
* `StepKinds` then shows that every step is one of five kinds: nothing durable,
  a row is queued, claimed, handed back, or committed. The other proofs argue over
  the kinds and not over the actions again.
* `Fencing` (FenceIsAttempt) is inductive with the types: whoever claims a row
  becomes its owner with its number of attempts, and a worker does nothing else
  meanwhile.
* `StateSerialized` (NoLostUpdate). The fold is not inductive as it stands: a commit
  writes what the worker saw plus its run, so one has to know that a worker whose
  snapshot has the current version saw the current value. That is `SnapshotSound`:
  the version a worker saw is at most the current one, and if it is the current one
  the value is too.
* `EffectsSound` (EffectsOfSuccess) and `BudgetKept` (RetryBudget, with `RetryInv`,
  which adds that a queued run has an attempt left) follow the five kinds.
* `SettlingFenced` proves the action property SettledByLatestAttempt from Fencing.
* `Refinement` proves `Spec => ImplementsLedger`: quiet steps, claims and retries
  stutter, and the others are `Submit`, `Succeed` and `Fail`. It needs
  NoLostUpdate's invariant (a commit adds exactly one run to the current value) and
  `AbsentFresh` (an absent row has no revision and no parent).

`ApprovalsProofs`, for any sets of runs, revisions, keys and transactions:

* `TypeCorrect`. TypeOK holds that locks are exclusive; it is not inductive because a
  commit writes what an earlier step of its transaction found. `TypeInv` adds what
  the position of a transaction and the status of an approval say about them, and
  `ResolvingPending`: an approval under review stays pending, since everybody who
  changes one needs its row.
* `SingleDecision` (DecidedOnce) and `Finality` (DecisionFinal) argue over three
  kinds of steps: one that decides, one that replays, one that leaves the decisions
  alone (`DecisionKinds`).
* `GuardSound` (GuardHolds). `GuardedClear` carries the guard's finding from the
  check to the activation: while a transaction without override holds the automation
  row, nothing on the revision it replaces is answerable. `PastSound` says that what
  it took for expired at its BEGIN still is.

`DeploymentsProofs`, for any sets of deployments, packages and workers and any faults;
assumed of a package is that its promotion is a build, a check, both in that order, or
nothing. Every action is shown to have one of a few effects (`Creates`, `Acquires`,
`Starts`, `Succeeds`, `Activates`, ...), and the invariants are argued over the effects:

* `TypeCorrect` needs `WorkerShape`: a busy worker's deployment was acquired at some
  time, and what the worker has left to do is a remainder of its package.
* `ActivationSound` (ActivationAtomic) and `FenceSound` (FenceIsClaim, which the worker
  ids of the fence alone do not give) are inductive with the types.
* `CancellationFinal` proves the action property CancellationWins from `CancelShape`:
  a cancellation is requested of a queued or active deployment only.
* `StepsTrue` (StepsAgree). That all steps of a succeeded deployment succeeded depends
  on what its last worker recorded after taking over from others: `HolderSteps` says
  that what the holder of the lease has behind it is recorded as succeeded and the step
  it works on as running; `StepsPlanned`, that no other steps are recorded.
* `Refinement` proves `Spec => ImplementsLedger`. What acquires, times, records or stages
  a deployment stutters (`LedgerQuiet`); the rest are `Submit`, `Retry`, `Ask`,
  `Withdraw`, `Cancel`, `Fail` and `Succeed`. It needs StepsAgree (a success shows every
  step), `StepsPlanned` (a queued deployment shows none, and nobody shows steps of
  another package), `CancelShape`, and two facts of its own: `ActivationShown` (a failed
  or cancelled deployment does not show its activation as succeeded) and `OriginKept`
  (a deployment keeps its upload).

`NotificationsProofs`, for any sets of events, destinations and workers, any limit of
attempts from one on and any faults:

* `TypeCorrect` with `OutcomeHeld`: a worker has an outcome in hand only while it
  settles a delivery. `FenceSound` (FenceIsAttempt) is inductive with it.
* `BudgetHolds` (AttemptBudget) needs `BudgetLeft`: a queued delivery has an attempt
  left, otherwise the next claim would exceed the limit.
* `NothingUnaccounted` (AcceptedAccounted) is an equation between counters and the
  number of workers about to record a success; `SettlingFinite` makes that number
  meaningful for infinite sets of workers too.
* `SnapshotTaken` proves the action property RoutesSnapshot.

`TriggersProofs`, for any revisions, triggers, senders, deliveries, periods from one on
and any horizon:

* `OneRun` (OneRunPerEvent) and `RunFits` (RunFitsRevision). `RequestInv` and
  `StreamInv` carry over the gap in `enqueueEvent`: the revision a request or a stream
  has selected may have been replaced, and still declares the trigger. `RowsInv`: the
  rows are those of the active revision.
* `SchedulesKept` (ScheduleAccounted). `ScheduleRow` relates `next_fire_at` to the
  instant it was calculated at and to the pauses, `ScheduledRun` places the run of an
  occurrence before it; the lemmas `Remainder`, `Multiples` and `NextScheduleFacts` say
  that nothing lies between an instant and the next multiple of the period. This theorem
  alone has a hypothesis: no trigger is called "manual". `EnqueueManualRun` records its
  events under that trigger id and manifest validation does not reserve it, so a schedule
  of that name would find runs that are not its own.

`StorageProofs`, for any contents, histories (not empty), secrets, references, count
floors, deployments, runs and appliers:

* `SecretsThere` (SecretsBound) needs the same of the revisions a deployment is about to
  commit and of a DELETE that has counted the references and not yet committed
  (`SecretsInv`).
* `PlansComplete` (AppliedComplete) needs `ApplierInv`: nothing is planned that an
  applier at work does not have ahead of it, so the one that has nothing left finds
  nothing planned, whatever the others did.
* `SourcesThere` (SourceKept): `SourceInv` follows an applier from its decision to the
  removal. While no retry has overlapped, the rows it saw are all the rows of the source,
  and once it has written there are none. `JobInv` adds that a deployment under way has
  its path and the row of its upload.
* `ArtifactsThere` (ArtifactKept): `ArtifactInv` extends the property to what
  `enqueueEvent` has selected and to deployments that have found the artifact but not
  recorded its hash, and says that an applier that has decided on an artifact is alone
  with it unless it is in `overlapped`. So those overlaps, of which `storage_race` shows
  one, are the only way an artifact in use is lost.

`InvestigationsProofs`, for any requests, operators and numbers of versions; assumed is
that the cloud service counts its versions from one. One invariant serves all theorems:

* `ReadTrue`: what a process remembers is what that version of the record says, although
  the record may have moved on. `HistoryAt`, the shape of the history of a record, gives
  `NothingLost` (HistoryLinear) and `PatchTrue` (SnapshotTrue), the latter with
  `CaptureTrue`: equal versions before and after reading the patch leave no room for the
  patch to be of another one.
* `OnceOnly` (SubmittedOnce) with `MaySubmit` and `OwnerAlone`: whoever is on its way to
  a submission owns a request nobody has submitted, and goes there by way of versions 1
  and 2.

`AttemptsProofs`, for any number of attempts, limits (positive; provisioning, execution,
grace and cleanup are independent), takings and faults, and each executor. One inductive
invariant, `Inv`, serves all theorems. Its parts:

* `WireSound`: a create and an exec are handled once, although both are sent again after
  a refusal. While one is under way its attempt is where it waits for it or has given
  up, and before it is handled there is no VM, or no command has started.
* `TimeSound`: what is left of the VM's life covers the deadline of the current phase and
  all phases after it, so Husker does not remove a VM in use. It is what makes the first
  conjunct of VMsAccounted inductive: a tick takes one from both sides.
* `OwnerSound`: a VM that is up belongs to an attempt that is waiting for it, died, or
  still has to delete it, unless another party took the name or it was created late.
* `ReapSound`: an attempt past its reaping has removed the VM of every earlier attempt
  or seen it absent, so one that is up now was created afterwards. The second half of
  OneExecution follows from this one, and `ExecutorSound` for processes.
* `OutcomeSound` and `RowSound` carry the outcome of the command to the row of the run.

An attempt's invariant, `Sound`, is a predicate of the executor, the attempt, its machine
and its requests under way. Each action's effect on it is a lemma of its own, without a
primed variable; `Local`, `Moves`, `Serves`, `Goes`, `Quits` and `Reaps` then say once
what is needed of the other attempts when an action changes an attempt, its machine, both,
or the machine of an earlier attempt. `TickSound` treats the one action that moves all.

Only model-checked: all liveness properties (fairness is out of the prover's reach) and the
violations below.

## Findings

* `runqueue_forbid`: two overlapping `AcquireRun` statements start two runs of a
  forbidding automation. The state stays serialized, the side effects do not
  (`docs/execution.md` promises both).
* `deployments_cancel`: a cancellation requested between the worker's last check and
  `FailDeployment` leaves the deployment active for ever, since nobody may fail,
  cancel or reacquire it.
* `storage_race`: `DetachRetentionItem` looks for deployments that use an artifact by the
  content hash of their row. A deployment of an old content without build commands and
  checks records its hash only when it is about to be activated, after it has found the
  artifact. Retention may remove it in between, and the revision becomes active without
  its artifact. A rollback or a new run that commits between the snapshot of the
  statement and its row locks has the same effect.

Met while modelling, without a run of their own: an activation that fails leaves its
step running (`process()` never reports it again); a request that is cancelled between
the INSERT of a deployment and its read-back removes the source of a deployment that was
recorded (`CreateUnanswered`, `AcceptCut`); of two overlapping first deployments the
second has no row to lock and may strand an approval opened on the first (the pairs of
`stranded` marked `"unlocked"`); an expiry is compared before the wait for the automation row, so a decision
may be recorded just after it; the lifetime of a build VM does not include the budget
of the packaging that follows the commands; a directory detached by an applier that dies
before it removes it, and an artifact published by a deployment that fails afterwards,
are never listed by retention again.

Two limits that hold in the models and that no document promises otherwise: a run
that asks for a used approval key is executed again each time its lease ends and
never fails (`clashed` in EventuallySettled), and attempts ended by an expired lease
do not count against any budget (`recovered`, `lost`).

## Not modelled

The supervisor is a wait group with names; the shutdowns it brings about are actions of
RunQueue, Deployments and Attempts. Left out for good: provenance and encryption
(cryptography), manifest parsing and archives (sequential functions of large inputs),
HTTP authentication, decoding and rendering, clients, authoring and the SDK. Of the
modelled parts, these are abstracted: the order in which candidates are taken (any),
the lengths of delays, time zones, audit rows, message texts, provider formats, image
import, log redaction, versions and values of secrets, and idempotent replays of requests
that change nothing.

## Plan

Done: RunLedger, RunQueue, DeploymentLedger, Deployments, Approvals, Notifications,
Triggers, Storage, Attempts and Investigations, with the proofs above. Every invariant
and action property that a run checks is also a theorem. What would come next is a ledger
for the executors: what an attempt does outside the database, seen from the run.
