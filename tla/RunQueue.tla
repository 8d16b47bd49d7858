------------------------------ MODULE RunQueue ------------------------------
(***************************************************************************)
(* The durable run queue: rows of the runs table, the automation_state     *)
(* row of each automation, and the workers that claim, execute and settle  *)
(* runs under a lease (internal/database/database.go, AcquireRun to        *)
(* ReleaseRun, and internal/service/worker.go).                            *)
(*                                                                         *)
(* Abstractions.                                                           *)
(*  - Time is the Boolean "elapsed" of a row: available_at (queued) or     *)
(*    lease_expires_at (running) lies in the past.  Order by available_at  *)
(*    is left to the scheduler's choice.                                   *)
(*  - AcquireRun is one SQL statement under READ COMMITTED, two steps      *)
(*    here: the statement's snapshot decides which rows qualify (the       *)
(*    EXISTS of the concurrency policy and the automation state included), *)
(*    the claim later locks and updates one row.  PostgreSQL re-evaluates  *)
(*    the row's own conditions on its newest version but the EXISTS on the *)
(*    old snapshot.  Every update of a row but ReleaseRun's moves          *)
(*    available_at or lease_expires_at past the statement's now(), so a    *)
(*    row updated since the snapshot no longer qualifies: RowUpdated.      *)
(*  - An automation's state value is the set of runs folded into it; an    *)
(*    execution computes the value it was given plus itself.               *)
(*  - Every other method is one transaction and one step.                  *)
(***************************************************************************)
EXTENDS Naturals, FiniteSets

CONSTANTS
    Runs, Workers, Automations, Revisions, Keys,
    AutomationOf,   \* the automation a revision belongs to
    Limit,          \* execution.retries + 1 of a revision's manifest
    Forbid,         \* the revisions with execution.concurrency: forbid
    Stateful,       \* the revisions with execution.state.enabled
    MaxFaults,      \* bound on crashes, shutdowns and lapsed leases
    AttemptBound,   \* bound on the attempts of a run
    NoRun, NoWorker, NoKey, NoRevision

ASSUME FiniteAssumption == IsFiniteSet(Runs)

\* manifest.go: retries are not negative, state requires forbid.
ASSUME ManifestAssumption ==
    /\ AutomationOf \in [Revisions -> Automations]
    /\ Limit \in [Revisions -> Nat \ {0}]
    /\ Forbid \subseteq Revisions
    /\ Stateful \subseteq Forbid

ASSUME BoundAssumption == MaxFaults \in Nat /\ AttemptBound \in Nat

ASSUME NoneAssumption ==
    /\ NoRun \notin Runs
    /\ NoWorker \notin Workers
    /\ NoKey \notin Keys
    /\ NoRevision \notin Revisions

VARIABLES
    run,        \* the rows of the runs table
    state,      \* the automation_state row of each automation
    opened,     \* approvals: the key a run opened one under
    outbox,     \* notification_outbox: <<event type, subject run>>
    worker,     \* the goroutine of each worker
    recovered,  \* history: attempts of a run that ended unrecorded
    clashed,    \* history: runs whose approval key was already used
    faults      \* history: faults so far

vars == <<run, state, opened, outbox, worker, recovered, clashed, faults>>

-----------------------------------------------------------------------------
(* Rows and workers.                                                       *)

Settled == {"succeeded", "failed"}
Status == {"absent", "queued", "running"} \cup Settled

Row == [status : Status, revision : Revisions \cup {NoRevision},
        attempt : Nat, owner : Workers \cup {NoWorker}, elapsed : BOOLEAN,
        parent : Runs \cup {NoRun}]

State == [version : Nat, value : SUBSET Runs]

Worker == [pc : {"idle", "acquiring", "executing", "cancelled"},
           eligible : SUBSET Runs, run : Runs \cup {NoRun}, attempt : Nat,
           seen : [Automations -> State]]

NewRow(v, p) ==
    [status |-> "queued", revision |-> v, attempt |-> 0, owner |-> NoWorker,
     elapsed |-> FALSE, parent |-> p]

EmptyState == [version |-> 0, value |-> {}]

Idle == [pc |-> "idle", eligible |-> {}, run |-> NoRun, attempt |-> 0,
         seen |-> [a \in Automations |-> EmptyState]]

Automation(r) == AutomationOf[run[r].revision]

\* A lease that AcquireRun's EXISTS counts as active.
LiveLease(r) == run[r].status = "running" /\ ~run[r].elapsed

\* Mutant: the settling statements forget lease_owner.
OwnsAnyRunning(w, r) == run[r].status = "running"

\* The fence of every settling statement: status = 'running' AND lease_owner.
Owns(w, r) == run[r].status = "running" /\ run[r].owner = w

Executing(w) == worker[w].pc \in {"executing", "cancelled"}

\* Row r was updated by worker w, whose own record becomes next: statements in
\* flight elsewhere no longer find it.
RowUpdated(r, w, next) ==
    worker' = [u \in Workers |->
                  IF u = w THEN next
                  ELSE [worker[u] EXCEPT !.eligible = @ \ {r}]]

-----------------------------------------------------------------------------
Init ==
    /\ run = [r \in Runs |-> [NewRow(NoRevision, NoRun) EXCEPT !.status = "absent"]]
    /\ state = [a \in Automations |-> EmptyState]
    /\ opened = [r \in Runs |-> NoKey]
    /\ outbox = {}
    /\ worker = [w \in Workers |-> Idle]
    /\ recovered = [r \in Runs |-> 0]
    /\ clashed = {}
    /\ faults = 0

\* Mutant: the run is not pinned to the active revision.
EnqueueRunUnpinned(r, v) ==
    /\ run[r].status = "absent"
    /\ run' = [run EXCEPT ![r] = NewRow(NoRevision, NoRun)]
    /\ UNCHANGED <<state, opened, outbox, worker, recovered, clashed, faults>>

\* An event, schedule, manual request or approval decision queues a run.
EnqueueRun(r, v) ==
    /\ run[r].status = "absent"
    /\ run' = [run EXCEPT ![r] = NewRow(v, NoRun)]
    /\ UNCHANGED <<state, opened, outbox, worker, recovered, clashed, faults>>

\* available_at of a queued run passes.
BecomeDue(r) ==
    /\ run[r].status = "queued" /\ ~run[r].elapsed
    /\ run' = [run EXCEPT ![r].elapsed = TRUE]
    /\ UNCHANGED <<state, opened, outbox, worker, recovered, clashed, faults>>

Expire(r) == run' = [run EXCEPT ![r].elapsed = TRUE]

Attended(r) == \E w \in Workers : Owns(w, r) /\ Executing(w) /\ worker[w].run = r

\* lease_expires_at passes with no worker left to renew the lease.
LeaseExpires(r) ==
    /\ LiveLease(r)
    /\ ~Attended(r)
    /\ Expire(r)
    /\ UNCHANGED <<state, opened, outbox, worker, recovered, clashed, faults>>

\* It passes under a worker that is stalled or cannot reach the database.
LeaseLapses(r) ==
    /\ LiveLease(r)
    /\ Attended(r)
    /\ faults < MaxFaults
    /\ Expire(r)
    /\ faults' = faults + 1
    /\ UNCHANGED <<state, opened, outbox, worker, recovered, clashed>>

-----------------------------------------------------------------------------
(* AcquireRun.                                                             *)

\* Mutant: running rows with an expired lease are not reclaimed.
CandidateQueuedOnly(r) ==
    /\ run[r].status = "queued"
    /\ run[r].elapsed
    /\ ~ /\ run[r].revision \in Forbid
         /\ \E q \in Runs \ {r} : LiveLease(q) /\ Automation(q) = Automation(r)

\* The WHERE clause of the candidate query.
Candidate(r) ==
    /\ run[r].status \in {"queued", "running"}
    /\ run[r].elapsed
    /\ ~ /\ run[r].revision \in Forbid
         /\ \E q \in Runs \ {r} : LiveLease(q) /\ Automation(q) = Automation(r)

Candidates == {r \in Runs : Candidate(r) /\ run[r].attempt < AttemptBound}

\* The statement takes its snapshot.  A poll that finds nothing is a stutter.
AcquireSnapshot(w) ==
    /\ worker[w].pc = "idle"
    /\ Candidates # {}
    /\ worker' = [worker EXCEPT ![w] = [Idle EXCEPT !.pc = "acquiring",
                                                    !.eligible = Candidates,
                                                    !.seen = state]]
    /\ UNCHANGED <<run, state, opened, outbox, recovered, clashed, faults>>

\* It locks and claims one of the rows that still qualify.
AcquireClaim(w, r) ==
    /\ worker[w].pc = "acquiring"
    /\ r \in worker[w].eligible
    /\ run' = [run EXCEPT ![r] = [@ EXCEPT !.status = "running",
                                           !.attempt = run[r].attempt + 1,
                                           !.owner = w,
                                           !.elapsed = FALSE]]
    /\ RowUpdated(r, w, [worker[w] EXCEPT !.pc = "executing", !.eligible = {},
                                          !.run = r,
                                          !.attempt = run[r].attempt + 1])
    /\ recovered' = IF run[r].status = "running"
                    THEN [recovered EXCEPT ![r] = @ + 1] ELSE recovered
    /\ UNCHANGED <<state, opened, outbox, clashed, faults>>

\* Every row it saw is locked by or lost to another worker: no run this time.
AcquireNone(w) ==
    /\ worker[w].pc = "acquiring"
    /\ worker[w].eligible = {}
    /\ worker' = [worker EXCEPT ![w] = Idle]
    /\ UNCHANGED <<run, state, opened, outbox, recovered, clashed, faults>>

-----------------------------------------------------------------------------
(* renewLease, every two minutes while the attempt executes.               *)

\* The owner's row is extended, an already expired lease included.
RenewRunLease(w) ==
    LET r == worker[w].run IN
    /\ worker[w].pc = "executing"
    /\ Owns(w, r)
    /\ run' = [run EXCEPT ![r].elapsed = FALSE]
    /\ RowUpdated(r, w, worker[w])
    /\ UNCHANGED <<state, opened, outbox, recovered, clashed, faults>>

\* Ownership is gone: the execution is cancelled and can only report failure.
RenewRefused(w) ==
    /\ worker[w].pc = "executing"
    /\ ~Owns(w, worker[w].run)
    /\ worker' = [worker EXCEPT ![w].pc = "cancelled"]
    /\ UNCHANGED <<run, state, opened, outbox, recovered, clashed, faults>>

-----------------------------------------------------------------------------
(* The outcome of an attempt, recorded by CompleteRun, FailRun, ReleaseRun *)

\* Mutant: the state is written without comparing versions.
StateCurrentUnchecked(w) == TRUE

\* INSERT for version 0, UPDATE ... WHERE version = for the rest: both succeed
\* exactly when the version is still the one read when the run was claimed.
StateCurrent(w) ==
    LET r == worker[w].run IN
    run[r].revision \in Stateful =>
        worker[w].seen[Automation(r)].version = state[Automation(r)].version

\* UNIQUE (automation_id, approval_key).
KeyUsed(r, k) ==
    /\ k # NoKey
    /\ \E q \in Runs : opened[q] = k /\ Automation(q) = Automation(r)

\* The transaction commits: the run, its state, continuation c, the approval
\* under key k and the notification (n) become durable together.
CompleteRun(w, c, k, n) ==
    LET r == worker[w].run
        v == run[r].revision
        a == Automation(r)
        seen == worker[w].seen[a]
    IN
    /\ worker[w].pc = "executing"
    /\ Owns(w, r)
    /\ StateCurrent(w)
    /\ ~KeyUsed(r, k)
    /\ c # NoRun => run[c].status = "absent"
    /\ run' = [q \in Runs |->
                  CASE q = r -> [run[r] EXCEPT !.status = "succeeded",
                                               !.owner = NoWorker,
                                               !.elapsed = FALSE]
                    [] q = c -> NewRow(v, r)
                    [] OTHER -> run[q]]
    /\ state' = IF v \in Stateful
                THEN [state EXCEPT ![a] = [version |-> seen.version + 1,
                                           value |-> seen.value \cup {r}]]
                ELSE state
    /\ opened' = [opened EXCEPT ![r] = k]
    /\ outbox' = outbox
                 \cup (IF k # NoKey THEN {<<"approval.requested", r>>} ELSE {})
                 \cup (IF n THEN {<<"automation.notification", r>>} ELSE {})
    /\ RowUpdated(r, w, Idle)
    /\ UNCHANGED <<recovered, clashed, faults>>

\* Mutant: the approval is opened outside the transaction that rolls back.
CompleteRejectedLeaky(w, k) ==
    LET r == worker[w].run IN
    /\ worker[w].pc = "executing"
    /\ ~Owns(w, r) \/ ~StateCurrent(w) \/ KeyUsed(r, k)
    /\ opened' = [opened EXCEPT ![r] = k]
    /\ worker' = [worker EXCEPT ![w] = Idle]
    /\ UNCHANGED <<run, state, outbox, recovered, clashed, faults>>

\* The transaction rolls back: lease lost, state conflict or key already used.
\* The worker only logs the error; the row stays running until its lease ends.
CompleteRejected(w, k) ==
    LET r == worker[w].run IN
    /\ worker[w].pc = "executing"
    /\ ~Owns(w, r) \/ ~StateCurrent(w) \/ KeyUsed(r, k)
    /\ worker' = [worker EXCEPT ![w] = Idle]
    /\ clashed' = IF Owns(w, r) /\ StateCurrent(w)
                  THEN clashed \cup {r} ELSE clashed
    /\ UNCHANGED <<run, state, opened, outbox, recovered, faults>>

\* What FailRun does to row r of worker w, given whether it is retried.
FailOutcome(w, r, retry) ==
    /\ run' = [run EXCEPT ![r] = [@ EXCEPT !.status = IF retry THEN "queued" ELSE "failed",
                                           !.owner = NoWorker,
                                           !.elapsed = FALSE]]
    /\ outbox' = IF retry THEN outbox ELSE outbox \cup {<<"run.failed", r>>}
    /\ RowUpdated(r, w, Idle)
    /\ UNCHANGED <<state, opened, recovered, clashed, faults>>

\* Mutant: one retry too many.
FailRunOffByOne(w) ==
    LET r == worker[w].run IN
    /\ Executing(w)
    /\ Owns(w, r)
    /\ FailOutcome(w, r, worker[w].attempt <= Limit[run[r].revision])

\* Mutant: the failure is recorded whoever owns the row.
FailRunUnfenced(w) ==
    LET r == worker[w].run IN
    /\ Executing(w)
    /\ FailOutcome(w, r, worker[w].attempt < Limit[run[r].revision])

\* The attempt failed.  With attempts left the run is queued again after a
\* delay, otherwise it fails for good and the operators are told.
FailRun(w) ==
    LET r == worker[w].run IN
    /\ Executing(w)
    /\ Owns(w, r)
    /\ FailOutcome(w, r, worker[w].attempt < Limit[run[r].revision])

\* ErrRunLeaseLost: nothing is recorded.
FailRejected(w) ==
    /\ Executing(w)
    /\ ~Owns(w, worker[w].run)
    /\ worker' = [worker EXCEPT ![w] = Idle]
    /\ UNCHANGED <<run, state, opened, outbox, recovered, clashed, faults>>

\* The control plane shuts down: the interrupted run is due again at once, even
\* for a statement in flight whose now() is the later one.
ReleaseRun(w) ==
    LET r == worker[w].run IN
    /\ Executing(w)
    /\ Owns(w, r)
    /\ faults < MaxFaults
    /\ run' = [run EXCEPT ![r] = [@ EXCEPT !.status = "queued",
                                           !.owner = NoWorker,
                                           !.elapsed = TRUE]]
    /\ RowUpdated(r, w, Idle) \/ worker' = [worker EXCEPT ![w] = Idle]
    /\ recovered' = [recovered EXCEPT ![r] = @ + 1]
    /\ faults' = faults + 1
    /\ UNCHANGED <<state, opened, outbox, clashed>>

\* The process dies, loses the answer of its claim, or cannot record the
\* outcome within OutcomeTimeout.
Abandon(w) ==
    /\ worker[w].pc # "idle"
    /\ faults < MaxFaults
    /\ worker' = [worker EXCEPT ![w] = Idle]
    /\ faults' = faults + 1
    /\ UNCHANGED <<run, state, opened, outbox, recovered, clashed>>

-----------------------------------------------------------------------------
Complete(w) ==
    \E k \in Keys \cup {NoKey} :
        \/ \E c \in Runs \cup {NoRun}, n \in BOOLEAN : CompleteRun(w, c, k, n)
        \/ CompleteRejected(w, k)

Acquire(w) ==
    AcquireSnapshot(w) \/ AcquireNone(w) \/ \E r \in Runs : AcquireClaim(w, r)

WorkerStep(w) ==
    \/ Acquire(w)
    \/ RenewRunLease(w) \/ RenewRefused(w)
    \/ Complete(w)
    \/ FailRun(w) \/ FailRejected(w)
    \/ ReleaseRun(w)
    \/ Abandon(w)

RowStep(r) ==
    \/ \E v \in Revisions : EnqueueRun(r, v)
    \/ BecomeDue(r)
    \/ LeaseExpires(r)
    \/ LeaseLapses(r)

Next == (\E w \in Workers : WorkerStep(w)) \/ (\E r \in Runs : RowStep(r))

Spec == Init /\ [][Next]_vars

(* Workers poll on a ticker and an attempt is bounded by its timeout, so   *)
(* both go on; clocks advance.  Nothing obliges an outcome to be a success. *)
Fairness ==
    /\ \A w \in Workers :
           /\ WF_vars(Acquire(w))
           /\ WF_vars(Complete(w) \/ FailRun(w) \/ FailRejected(w))
    /\ \A r \in Runs : WF_vars(BecomeDue(r)) /\ WF_vars(LeaseExpires(r))

FairSpec == Spec /\ Fairness

-----------------------------------------------------------------------------
(* Properties.                                                             *)

\* Types of the rows, the workers and the histories.
TypeOK ==
    /\ run \in [Runs -> Row]
    /\ \A r \in Runs : run[r].status # "absent" => run[r].revision \in Revisions
    /\ state \in [Automations -> State]
    /\ opened \in [Runs -> Keys \cup {NoKey}]
    /\ outbox \subseteq {"approval.requested", "automation.notification",
                         "run.failed"} \X Runs
    /\ worker \in [Workers -> Worker]
    /\ \A w \in Workers : Executing(w) => worker[w].run \in Runs
    /\ recovered \in [Runs -> Nat]
    /\ clashed \subseteq Runs
    /\ faults \in 0..MaxFaults

Succeeded(a) ==
    {r \in Runs : /\ run[r].status = "succeeded"
                  /\ run[r].revision \in Stateful
                  /\ Automation(r) = a}

\* An automation's state is the fold of exactly its successful stateful runs,
\* each applied once, whatever leases lapse and attempts overlap: CompleteRun's
\* compare-and-swap on the version read by AcquireRun loses no transition.
NoLostUpdate ==
    \A a \in Automations :
        /\ state[a].value = Succeeded(a)
        /\ state[a].version = Cardinality(state[a].value)

\* A worker that still passes the fence of a settling statement is executing
\* the newest attempt of the run, although the fence compares worker ids only.
FenceIsAttempt ==
    \A w \in Workers :
        (Executing(w) /\ Owns(w, worker[w].run)) =>
            worker[w].attempt = run[worker[w].run].attempt

\* Continuations, approvals and notifications come from successful runs only:
\* CompleteRun writes them in the transaction that marks the run succeeded, so
\* no failed, retried or superseded attempt leaves one behind, and a run has
\* one continuation at most, pinned to its own revision.
EffectsOfSuccess ==
    /\ \A c \in Runs : run[c].parent # NoRun =>
           /\ run[run[c].parent].status = "succeeded"
           /\ run[c].revision = run[run[c].parent].revision
           /\ \A d \in Runs : run[d].parent = run[c].parent => d = c
    /\ \A r \in Runs :
           /\ opened[r] # NoKey => /\ run[r].status = "succeeded"
                                   /\ <<"approval.requested", r>> \in outbox
           /\ <<"automation.notification", r>> \in outbox => run[r].status = "succeeded"
           /\ <<"run.failed", r>> \in outbox <=> run[r].status = "failed"

\* A run is attempted at most retries + 1 times, plus once for each attempt
\* that a shutdown or an expired lease ended; only a run with no attempt left
\* fails (FailRun, ReleaseRun and the reclaim in AcquireRun together).
RetryBudget ==
    \A r \in Runs : run[r].status # "absent" =>
        /\ run[r].attempt <= Limit[run[r].revision] + recovered[r]
        /\ run[r].status = "failed" => run[r].attempt >= Limit[run[r].revision]

\* A row leaves "running" only at the hands of the worker that executes its
\* newest attempt, and a settled row never changes again (fences of
\* CompleteRun, FailRun and ReleaseRun).
SettledByLatestAttempt ==
    [][\A r \in Runs :
          /\ run[r].status = "running" /\ run'[r].status # "running" =>
                 \E w \in Workers :
                     /\ Owns(w, r) /\ Executing(w)
                     /\ worker[w].run = r
                     /\ worker[w].attempt = run[r].attempt
          /\ run[r].status \in Settled => run'[r] = run[r]]_vars

\* docs/execution.md: forbid "keeps external side effects and state
\* transitions serialized": no two runs of a forbidding automation hold a
\* live lease at once.
ForbidSerialized ==
    \A r, q \in Runs :
        (r # q /\ LiveLease(r) /\ LiveLease(q)
           /\ run[r].revision \in Forbid /\ run[q].revision \in Forbid)
        => Automation(r) # Automation(q)

\* Every queued run succeeds or fails in the end, unless some run keeps asking
\* for an approval key that is taken (CompleteRun then rolls back for ever).
EventuallySettled ==
    \A r \in Runs : run[r].status = "queued"
                        ~> (run[r].status \in Settled \/ clashed # {})

\* The queue implements its ledger: claims, leases, crashes and repeated
\* attempts are invisible in what a run does to the durable state.
Ledger == INSTANCE RunLedger WITH
    phase <- [r \in Runs |-> IF run[r].status \in {"queued", "running"}
                             THEN "pending" ELSE run[r].status],
    revision <- [r \in Runs |-> run[r].revision],
    parent <- [r \in Runs |-> run[r].parent]

\* The ledger's specification, as a property of the queue.
ImplementsLedger == Ledger!Spec
=============================================================================
