------------------------------ MODULE Triggers ------------------------------
(***************************************************************************)
(* How events become runs of one automation: the trigger rows and their    *)
(* schedules (internal/database/database.go, replaceTriggers, enqueueEvent,*)
(* EnqueueDueSchedules, SetAutomationEnabled, EnqueueManualRun), the       *)
(* scheduler, the ntfy reconciler and its subscriptions                    *)
(* (internal/service) and the ingress handlers (internal/httpapi).         *)
(*                                                                         *)
(* Abstractions.                                                           *)
(*  - A manifest says which triggers it enables and, for a schedule, the   *)
(*    period of its cron expression; time zones are left out.              *)
(*  - enqueueEvent takes no lock: its SELECT and its INSERTs are two steps *)
(*    of an ingestion.  Every other transaction works under the lock of    *)
(*    the automation row and is one step.                                  *)
(*  - A delivery that fails authentication changes nothing and is left     *)
(*    out; the credential itself, and the delivery delay, are left out.    *)
(*  - Every revision has been deployed before; a deployment is of one of    *)
(*    them again, which goes through the same transaction.                 *)
(*  - The ntfy server keeps every message of the topic and replays all of  *)
(*    them to a new subscription (since=all), in order.                    *)
(***************************************************************************)
EXTENDS Integers, Sequences, FiniteSets

CONSTANTS
    Revisions, NoRevision,
    Triggers,       \* trigger ids, "manual" apart
    TypeOf,         \* [Triggers -> {"schedule", "webhook", "github", "zoom", "email", "ntfy"}]
    Enables,        \* [Revisions -> SUBSET Triggers]: declared and enabled
    Period,         \* [Revisions -> Nat \ {0}]: of the schedules of the revision
    Deliveries,     \* what senders deliver: [trigger, key, body]
    NoKey,          \* a delivery without an id
    Senders,        \* HTTP requests that may be in progress at a time
    ManualKeys,     \* idempotency keys of manual runs
    Messages,       \* number of ntfy messages
    Horizon,        \* bound: last instant
    MaxRequests,    \* bound: deliveries and manual runs accepted
    MaxFaults       \* bound: dropped subscriptions and restarts

ASSUME TriggerAssumption ==
    /\ NoRevision \notin Revisions
    /\ \A v \in Revisions : Enables[v] \subseteq Triggers /\ Period[v] \in Nat \ {0}
    /\ \A d \in Deliveries : d.trigger \in Triggers
    /\ {Messages, Horizon, MaxRequests, MaxFaults} \subseteq Nat

VARIABLES
    clock,
    active,     \* automations.active_revision_id
    enabled,    \* automations.enabled
    row,        \* the rows of triggers
    runs,       \* rows of events and runs: one run per event, pinned to a revision
    request,    \* the HTTP request each sender has in progress
    sub,        \* NtfyReconciler.active: the subscription of each key
    topic,      \* messages the ntfy server holds
    requests,   \* requests accepted so far
    faults,     \* faults so far
    paused      \* history: the instants that arrived while the automation was paused

vars == <<clock, active, enabled, row, runs, request, sub, topic,
          requests, faults, paused>>

-----------------------------------------------------------------------------
Row == [revision : Revisions, enabled : BOOLEAN,
        next : Nat,      \* next_fire_at, 0 for NULL
        since : Nat]     \* history: when next_fire_at was last calculated from now

\* ntfyKey: a subscription belongs to a trigger of a revision.
Keys == {t \in Triggers : TypeOf[t] = "ntfy"} \X Revisions

Idle == [pc |-> "idle", trigger |-> "none", ext |-> "none", revision |-> NoRevision]

\* A subscription: off, or reading at position pos of its stream.
Off == [pc |-> "off", pos |-> 0, revision |-> NoRevision]

\* The first occurrence of a schedule of v after instant t.
NextSchedule(v, t) == (t \div Period[v] + 1) * Period[v]

\* The row of trigger t is the active revision's, and it may start runs.
Ingestible(t) == row[t].enabled /\ row[t].revision = active /\ enabled

RunsOf(t, ext) == {r \in runs : r.trigger = t /\ r.ext = ext}

\* The run of a new event; the serial number tells apart two runs of one event.
NewRun(t, ext, v) ==
    [trigger |-> t, ext |-> ext, revision |-> v, serial |-> Cardinality(RunsOf(t, ext)),
     expected |-> NoRevision]

\* Mutant: the insert of the event has no conflict clause.
EnqueueAlways(t, ext, v) == {NewRun(t, ext, v)}

\* INSERT INTO events ... ON CONFLICT DO NOTHING, and the run of a new event.
Enqueue(t, ext, v) == IF RunsOf(t, ext) = {} THEN {NewRun(t, ext, v)} ELSE {}

-----------------------------------------------------------------------------
\* replaceTriggers: every row is deleted and rebuilt; schedules start from now.
ReplaceTriggers(v) ==
    [t \in Triggers |->
        [revision |-> v, enabled |-> t \in Enables[v],
         next |-> IF TypeOf[t] = "schedule" /\ t \in Enables[v]
                  THEN NextSchedule(v, clock) ELSE 0,
         since |-> IF TypeOf[t] = "schedule" THEN clock ELSE 0]]

Init ==
    /\ clock = 0
    /\ active \in Revisions
    /\ enabled = TRUE
    /\ row = ReplaceTriggers(active)
    /\ runs = {}
    /\ request = [s \in Senders |-> Idle]
    /\ sub = [k \in Keys |-> Off]
    /\ topic = 0
    /\ requests = 0
    /\ faults = 0
    /\ paused = {}

Tick ==
    /\ clock < Horizon
    /\ clock' = clock + 1
    /\ paused' = IF enabled THEN paused ELSE paused \cup {clock + 1}
    /\ UNCHANGED <<active, enabled, row, runs, request, sub, topic, requests, faults>>

-----------------------------------------------------------------------------
(* Activation.                                                             *)

\* deploy(), of the active revision's content or of another's; a paused
\* automation stays paused.
Deploy(v) ==
    /\ row' = ReplaceTriggers(v)
    /\ active' = v
    /\ UNCHANGED <<clock, enabled, runs, request, sub, topic, requests, faults, paused>>

\* RollbackAutomation to an earlier revision.
RollbackAutomation(v) ==
    /\ v # active
    /\ row' = ReplaceTriggers(v)
    /\ active' = v
    /\ UNCHANGED <<clock, enabled, runs, request, sub, topic, requests, faults, paused>>

\* Pausing only clears the flag; resuming recalculates the enabled schedules.
SetAutomationEnabled(on) ==
    /\ enabled # on
    /\ enabled' = on
    /\ row' = [t \in Triggers |->
                 IF on /\ TypeOf[t] = "schedule" /\ row[t].enabled
                 THEN [row[t] EXCEPT !.next = NextSchedule(row[t].revision, clock),
                                     !.since = clock]
                 ELSE row[t]]
    /\ UNCHANGED <<clock, active, runs, request, sub, topic, requests, faults, paused>>

-----------------------------------------------------------------------------
(* The scheduler.                                                          *)

Due(t) ==
    /\ TypeOf[t] = "schedule"
    /\ row[t].enabled /\ enabled
    /\ row[t].next <= clock

\* Mutant: the next occurrence is counted from now, skipping the backlog.
NextFromNow(t) == NextSchedule(row[t].revision, clock)

\* The occurrence after the one being fired.
NextOf(t) == NextSchedule(row[t].revision, row[t].next)

\* EnqueueDueSchedules: one occurrence of every due trigger, in one transaction
\* under the locks of the trigger and automation rows.
EnqueueDueSchedules ==
    LET due == {t \in Triggers : Due(t)} IN
    /\ due # {}
    /\ runs' = runs \cup UNION {Enqueue(t, row[t].next, row[t].revision) : t \in due}
    /\ row' = [t \in Triggers |-> IF t \in due THEN [row[t] EXCEPT !.next = NextOf(t)] ELSE row[t]]
    /\ UNCHANGED <<clock, active, enabled, request, sub, topic, requests, faults, paused>>

-----------------------------------------------------------------------------
(* Ingress: webhook, github, zoom and email deliveries.                    *)

\* What each handler takes for the external id, none if it answers without an
\* event.  The generic webhook signs its idempotency key.
WebhookID(d) == {d.key} \ {NoKey}

\* GitHub signs the body only: its delivery id must be there but is not used.
GithubID(d) == IF d.key = NoKey THEN {} ELSE {d.body}

\* Zoom has no delivery id, and its endpoint validation is answered at once.
ZoomID(d) == {d.body} \ {"validation"}

\* An email's Message-Id, else the idempotency key of the relay.
EmailID(d) == {IF d.body.id # NoKey THEN d.body.id ELSE d.key} \ {NoKey}

ExternalID(d) ==
    CASE TypeOf[d.trigger] = "webhook" -> WebhookID(d)
      [] TypeOf[d.trigger] = "github" -> GithubID(d)
      [] TypeOf[d.trigger] = "zoom" -> ZoomID(d)
      [] TypeOf[d.trigger] = "email" -> EmailID(d)
      [] OTHER -> {}

\* The handler reads the trigger's policy, resolves its credential and verifies
\* the delivery.
CheckIngress(s, d) ==
    /\ request[s].pc = "idle"
    /\ requests < MaxRequests
    /\ Ingestible(d.trigger)
    /\ \E ext \in ExternalID(d) :
         request' = [request EXCEPT ![s] = [Idle EXCEPT !.pc = "checked",
                                                        !.trigger = d.trigger, !.ext = ext]]
    /\ requests' = requests + 1
    /\ UNCHANGED <<clock, active, enabled, row, runs, sub, topic, faults, paused>>

\* IngestEvent, enqueueEvent's SELECT: the trigger and the active revision now.
IngestSelect(s) ==
    /\ request[s].pc = "checked"
    /\ request' = [request EXCEPT ![s] =
                     IF Ingestible(@.trigger) THEN [@ EXCEPT !.pc = "selected", !.revision = active]
                     ELSE Idle]
    /\ UNCHANGED <<clock, active, enabled, row, runs, sub, topic, requests, faults, paused>>

\* enqueueEvent's INSERTs and the commit; the sender is answered, or not.
IngestInsert(s) ==
    /\ request[s].pc = "selected"
    /\ runs' = runs \cup Enqueue(request[s].trigger, request[s].ext, request[s].revision)
    /\ request' = [request EXCEPT ![s] = Idle]
    /\ UNCHANGED <<clock, active, enabled, row, sub, topic, requests, faults, paused>>

\* Mutant: the expected revision is not compared.
ManualUnchecked(key, expected) ==
    /\ requests < MaxRequests
    /\ RunsOf("manual", key) = {}
    /\ runs' = runs \cup {[NewRun("manual", key, active) EXCEPT !.expected = expected]}
    /\ requests' = requests + 1
    /\ UNCHANGED <<clock, active, enabled, row, request, sub, topic, faults, paused>>

\* EnqueueManualRun under the automation's lock: a replay finds its run and adds
\* nothing, a caller who reviewed another revision is refused, and an automation
\* that is paused runs all the same.
EnqueueManualRun(key, expected) ==
    /\ requests < MaxRequests
    /\ RunsOf("manual", key) = {}
    /\ expected \in {NoRevision, active}
    /\ runs' = runs \cup {[NewRun("manual", key, active) EXCEPT !.expected = expected]}
    /\ requests' = requests + 1
    /\ UNCHANGED <<clock, active, enabled, row, request, sub, topic, faults, paused>>

-----------------------------------------------------------------------------
(* ntfy.                                                                   *)

Publish ==
    /\ topic < Messages
    /\ topic' = topic + 1
    /\ UNCHANGED <<clock, active, enabled, row, runs, request, sub, requests, faults, paused>>

Desired(k) == row[k[1]].enabled /\ enabled /\ row[k[1]].revision = k[2]

\* The subscriptions after a reconciliation: keyed by trigger and revision,
\* stopped when no longer listed, started when new.
Reconciled ==
    [k \in Keys |-> IF ~Desired(k) THEN Off
                    ELSE IF sub[k].pc = "off" THEN [Off EXCEPT !.pc = "open"]
                    ELSE sub[k]]

\* NtfyReconciler.reconcile.
Reconcile ==
    /\ sub # Reconciled
    /\ sub' = Reconciled
    /\ UNCHANGED <<clock, active, enabled, row, runs, request, topic, requests, faults, paused>>

\* Mutant: a message that cannot be recorded now is passed over.
MessageSkipped(k) ==
    /\ sub[k].pc = "open"
    /\ sub[k].pos < topic
    /\ sub' = [sub EXCEPT ![k] =
                 IF Ingestible(k[1]) THEN [@ EXCEPT !.pc = "selected", !.revision = active]
                 ELSE [@ EXCEPT !.pos = @ + 1]]
    /\ UNCHANGED <<clock, active, enabled, row, runs, request, topic, requests, faults, paused>>

\* consume takes the next message and IngestEvent selects its trigger; an error
\* ends the stream, and the next one starts with everything the server holds.
MessageSelect(k) ==
    /\ sub[k].pc = "open"
    /\ sub[k].pos < topic
    /\ sub' = [sub EXCEPT ![k] =
                 IF Ingestible(k[1]) THEN [@ EXCEPT !.pc = "selected", !.revision = active]
                 ELSE [Off EXCEPT !.pc = "open"]]
    /\ UNCHANGED <<clock, active, enabled, row, runs, request, topic, requests, faults, paused>>

MessageInsert(k) ==
    /\ sub[k].pc = "selected"
    /\ runs' = runs \cup Enqueue(k[1], sub[k].pos + 1, sub[k].revision)
    /\ sub' = [sub EXCEPT ![k] = [Off EXCEPT !.pc = "open", !.pos = sub[k].pos + 1]]
    /\ UNCHANGED <<clock, active, enabled, row, request, topic, requests, faults, paused>>

\* The stream breaks; subscribe opens another after its backoff.
Disconnect(k) ==
    /\ sub[k].pc \in {"open", "selected"}
    /\ faults < MaxFaults
    /\ sub' = [sub EXCEPT ![k] = [Off EXCEPT !.pc = "open"]]
    /\ faults' = faults + 1
    /\ UNCHANGED <<clock, active, enabled, row, runs, request, topic, requests, paused>>

\* The control plane stops and starts again: open transactions roll back and the
\* subscriptions are forgotten.
Restart ==
    /\ faults < MaxFaults
    /\ request' = [s \in Senders |-> Idle]
    /\ sub' = [k \in Keys |-> Off]
    /\ faults' = faults + 1
    /\ UNCHANGED <<clock, active, enabled, row, runs, topic, requests, paused>>

-----------------------------------------------------------------------------
Next ==
    \/ Tick
    \/ \E v \in Revisions : Deploy(v) \/ RollbackAutomation(v)
    \/ \E on \in BOOLEAN : SetAutomationEnabled(on)
    \/ EnqueueDueSchedules
    \/ \E s \in Senders, d \in Deliveries : CheckIngress(s, d)
    \/ \E s \in Senders : IngestSelect(s) \/ IngestInsert(s)
    \/ \E key \in ManualKeys, v \in Revisions \cup {NoRevision} : EnqueueManualRun(key, v)
    \/ Publish
    \/ Reconcile
    \/ \E k \in Keys : MessageSelect(k) \/ MessageInsert(k) \/ Disconnect(k)
    \/ Restart

Spec == Init /\ [][Next]_vars

\* The scheduler and the reconciler poll on tickers; a subscription keeps
\* reconnecting and reading.  Senders and operators promise nothing.
Fairness ==
    /\ WF_vars(EnqueueDueSchedules)
    /\ WF_vars(Reconcile)
    /\ \A k \in Keys : WF_vars(MessageSelect(k) \/ MessageInsert(k))

FairSpec == Spec /\ Fairness

-----------------------------------------------------------------------------
TypeOK ==
    /\ clock \in 0 .. Horizon
    /\ active \in Revisions
    /\ enabled \in BOOLEAN
    /\ row \in [Triggers -> Row]
    /\ \A r \in runs : /\ r.trigger \in Triggers \cup {"manual"}
                       /\ r.revision \in Revisions
                       /\ r.serial \in Nat
    /\ \A s \in Senders : request[s].pc \in {"idle", "checked", "selected"}
    /\ \A k \in Keys : /\ sub[k].pc \in {"off", "open", "selected"}
                       /\ sub[k].pos \in 0 .. topic
    /\ topic \in 0 .. Messages
    /\ requests \in 0 .. MaxRequests
    /\ faults \in 0 .. MaxFaults
    /\ paused \subseteq 1 .. Horizon

\* However an event arrives, and however often (a sender's retry, two requests
\* at once, a stream replayed from its start after every reconnect or
\* redeployment), it has one run.
OneRunPerEvent == \A r1, r2 \in runs : r1.trigger = r2.trigger /\ r1.ext = r2.ext => r1 = r2

\* A run is pinned to a revision that asked for it: its manifest enables the
\* trigger the event came through, and a manual run whose caller named the
\* revision they reviewed runs that one, whatever was deployed or rolled back
\* while the event was being recorded.
RunFitsRevision ==
    \A r \in runs : IF r.trigger = "manual" THEN r.expected \in {NoRevision, r.revision}
                    ELSE r.trigger \in Enables[r.revision]

\* The schedule rows account for every occurrence since they were calculated:
\* the ones before next_fire_at have their run, none from it on has one.  So the
\* scheduler catches up one occurrence at a time and neither skips nor repeats,
\* across deployments, rollbacks and pauses; an occurrence that came while the
\* automation was paused never runs (SetAutomationEnabled).
ScheduleAccounted ==
    /\ \A t \in Triggers :
        row[t].next > 0 =>
            /\ \A i \in row[t].since + 1 .. row[t].next - 1 :
                 i % Period[row[t].revision] = 0 => RunsOf(t, i) # {}
            /\ \A r \in runs : r.trigger = t => r.ext < row[t].next
    /\ \A r \in runs :
        r.trigger \in Triggers /\ TypeOf[r.trigger] = "schedule" => r.ext \notin paused

\* A schedule that is due does not stay so: it runs, or is replaced or paused.
\* Once a revision stays active with its ntfy trigger listening, every message
\* the server holds gets a run, despite broken streams and restarts.
EventsArrive ==
    /\ \A t \in Triggers : Due(t) ~> ~Due(t)
    /\ \A k \in Keys, i \in 1 .. Messages :
          <>[](active = k[2] /\ Desired(k)) => [](topic >= i => <>(RunsOf(k[1], i) # {}))
=============================================================================
