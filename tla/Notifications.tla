---------------------------- MODULE Notifications ----------------------------
(***************************************************************************)
(* The notification outbox: events written by the control plane's          *)
(* transactions, their expansion into one delivery per routed destination, *)
(* and the workers that send them under a lease                            *)
(* (internal/database/notifications.go,                                    *)
(* internal/service/notification_worker.go, internal/notification).        *)
(*                                                                         *)
(* Abstractions.                                                           *)
(*  - Time is the Boolean "elapsed" of a delivery: available_at (queued)   *)
(*    or lease_expires_at (running) has passed.                            *)
(*  - A worker's configuration is the set of destinations its routes give  *)
(*    for the events at hand; it changes only with a restart.              *)
(*  - The provider accepts a request or not, and its answer may be lost.   *)
(*  - Every store method is one transaction and one step.                  *)
(***************************************************************************)
EXTENDS Naturals, FiniteSets

CONSTANTS
    Events, Destinations, Workers,
    MaxAttempts,    \* notification_deliveries.max_attempts
    MaxFaults,      \* bound on restarts, lapsed leases and lost answers
    NoEvent, NoWorker, NoDestination

ASSUME LimitAssumption == MaxAttempts \in Nat \ {0} /\ MaxFaults \in Nat

ASSUME NoneAssumption ==
    /\ NoEvent \notin Events
    /\ NoWorker \notin Workers
    /\ NoDestination \notin Destinations

VARIABLES
    event,      \* the status of the rows of notification_events
    delivery,   \* the rows of notification_deliveries
    worker,     \* the goroutine of each notification worker
    routes,     \* the configuration each worker was started with
    accepted,   \* history: requests the destination's provider accepted
    unrecorded, \* history: accepted requests whose success was not recorded
    lost,       \* history: claims of a delivery that ended unrecorded
    faults      \* history: faults so far

vars == <<event, delivery, worker, routes, accepted, unrecorded, lost, faults>>

-----------------------------------------------------------------------------
Deliveries == Events \X Destinations

Settled == {"succeeded", "failed"}

NoDelivery == [status |-> "absent", attempt |-> 0, owner |-> NoWorker, elapsed |-> FALSE]

Queued == [NoDelivery EXCEPT !.status = "queued", !.elapsed = TRUE]

Idle == [pc |-> "idle", event |-> NoEvent, targets |-> {},
         on |-> <<NoEvent, NoDestination>>, attempt |-> 0, outcome |-> "none"]

\* Mutant: the settling statements forget lease_owner.
OwnsAnyRunning(w, d) == delivery[d].status = "running"

\* status = 'running' AND lease_owner = $.
Owns(w, d) == delivery[d].status = "running" /\ delivery[d].owner = w

Sending(w) == worker[w].pc \in {"sending", "settling"}

Attended(d) == \E w \in Workers : Sending(w) /\ worker[w].on = d /\ Owns(w, d)

-----------------------------------------------------------------------------
Init ==
    /\ event = [e \in Events |-> "absent"]
    /\ delivery = [d \in Deliveries |-> NoDelivery]
    /\ worker = [w \in Workers |-> Idle]
    /\ routes \in [Workers -> SUBSET Destinations]
    /\ accepted = [d \in Deliveries |-> 0]
    /\ unrecorded = [d \in Deliveries |-> 0]
    /\ lost = [d \in Deliveries |-> 0]
    /\ faults = 0

\* A transaction of the control plane, a resend or a test commits an event.
EnqueueNotificationEvent(e) ==
    /\ event[e] = "absent"
    /\ event' = [event EXCEPT ![e] = "pending"]
    /\ UNCHANGED <<delivery, worker, routes, accepted, unrecorded, lost, faults>>

\* available_at of a queued delivery passes.
BecomeDue(d) ==
    /\ delivery[d].status = "queued" /\ ~delivery[d].elapsed
    /\ delivery' = [delivery EXCEPT ![d].elapsed = TRUE]
    /\ UNCHANGED <<event, worker, routes, accepted, unrecorded, lost, faults>>

\* lease_expires_at passes after the worker that held the lease is gone.
LeaseExpires(d) ==
    /\ delivery[d].status = "running" /\ ~delivery[d].elapsed
    /\ ~Attended(d)
    /\ delivery' = [delivery EXCEPT ![d].elapsed = TRUE]
    /\ UNCHANGED <<event, worker, routes, accepted, unrecorded, lost, faults>>

\* It passes under a stalled worker: the lease of a minute is never renewed.
LeaseLapses(d) ==
    /\ delivery[d].status = "running" /\ ~delivery[d].elapsed
    /\ Attended(d)
    /\ faults < MaxFaults
    /\ delivery' = [delivery EXCEPT ![d].elapsed = TRUE]
    /\ faults' = faults + 1
    /\ UNCHANGED <<event, worker, routes, accepted, unrecorded, lost>>

-----------------------------------------------------------------------------
(* runOnce(): at most one event is expanded, then at most one delivery is  *)
(* sent.  pc is the call the worker makes next.                            *)

\* AcquireNotificationEvent reads an event and lets go of it at once.
AcquireNotificationEvent(w, e) ==
    /\ worker[w].pc = "idle"
    /\ event[e] = "pending"
    /\ worker' = [worker EXCEPT ![w] = [Idle EXCEPT !.pc = "expanding", !.event = e,
                                                    !.targets = routes[w]]]
    /\ UNCHANGED <<event, delivery, routes, accepted, unrecorded, lost, faults>>

\* No event is pending: on to the deliveries.
NoNotificationEvent(w) ==
    /\ worker[w].pc = "idle"
    /\ \A e \in Events : event[e] # "pending"
    /\ worker' = [worker EXCEPT ![w].pc = "ready"]
    /\ UNCHANGED <<event, delivery, routes, accepted, unrecorded, lost, faults>>

\* Mutant: the event's status is not looked at again.
ExpandNotificationEventTwice(w) ==
    LET e == worker[w].event IN
    /\ worker[w].pc = "expanding"
    /\ event' = [event EXCEPT ![e] = IF worker[w].targets = {} THEN "skipped"
                                                               ELSE "expanded"]
    /\ delivery' = [d \in Deliveries |->
                       IF /\ d[1] = e /\ d[2] \in worker[w].targets
                          /\ delivery[d].status = "absent"
                       THEN Queued ELSE delivery[d]]
    /\ worker' = [worker EXCEPT ![w] = [Idle EXCEPT !.pc = "ready"]]
    /\ UNCHANGED <<routes, accepted, unrecorded, lost, faults>>

\* The routes are made durable, unless another worker was first.
ExpandNotificationEvent(w) ==
    LET e == worker[w].event IN
    /\ worker[w].pc = "expanding"
    /\ \/ /\ event[e] = "pending"
          /\ event' = [event EXCEPT ![e] = IF worker[w].targets = {} THEN "skipped"
                                                                     ELSE "expanded"]
          /\ delivery' = [d \in Deliveries |->
                             IF d[1] = e /\ d[2] \in worker[w].targets
                             THEN Queued ELSE delivery[d]]
       \/ /\ event[e] # "pending"
          /\ UNCHANGED <<event, delivery>>
    /\ worker' = [worker EXCEPT ![w] = [Idle EXCEPT !.pc = "ready"]]
    /\ UNCHANGED <<routes, accepted, unrecorded, lost, faults>>

\* Mutant: running deliveries with an expired lease are not reclaimed.
AcquirableQueuedOnly(d) == delivery[d].status = "queued" /\ delivery[d].elapsed

Acquirable(d) == delivery[d].status \in {"queued", "running"} /\ delivery[d].elapsed

AcquireNotificationDelivery(w, d) ==
    /\ worker[w].pc = "ready"
    /\ Acquirable(d)
    /\ delivery' = [delivery EXCEPT ![d] = [status |-> "running",
                                            attempt |-> delivery[d].attempt + 1,
                                            owner |-> w, elapsed |-> FALSE]]
    /\ worker' = [worker EXCEPT ![w] = [Idle EXCEPT !.pc = "sending", !.on = d,
                                                    !.attempt = delivery[d].attempt + 1]]
    /\ lost' = IF delivery[d].status = "running"
               THEN [lost EXCEPT ![d] = @ + 1] ELSE lost
    /\ UNCHANGED <<event, routes, accepted, unrecorded, faults>>

\* Nothing to deliver: the worker waits for its ticker.
NoNotificationDelivery(w) ==
    /\ worker[w].pc = "ready"
    /\ \A d \in Deliveries : ~Acquirable(d)
    /\ worker' = [worker EXCEPT ![w] = Idle]
    /\ UNCHANGED <<event, delivery, routes, accepted, unrecorded, lost, faults>>

\* The sender has an outcome: "ok", "retry" or "permanent".
Reports(w, outcome) ==
    /\ worker[w].pc = "sending"
    /\ worker' = [worker EXCEPT ![w].pc = "settling", ![w].outcome = outcome]

\* The provider accepts the request and says so.
SendAccepted(w) ==
    /\ Reports(w, "ok")
    /\ accepted' = [accepted EXCEPT ![worker[w].on] = @ + 1]
    /\ UNCHANGED <<event, delivery, routes, unrecorded, lost, faults>>

\* It accepts the request and the answer is lost: a retryable error.
AnswerLost(w) ==
    /\ faults < MaxFaults
    /\ Reports(w, "retry")
    /\ accepted' = [accepted EXCEPT ![worker[w].on] = @ + 1]
    /\ unrecorded' = [unrecorded EXCEPT ![worker[w].on] = @ + 1]
    /\ faults' = faults + 1
    /\ UNCHANGED <<event, delivery, routes, lost>>

\* It refuses, is out of reach, or the request cannot be made at all.
SendRefused(w) ==
    /\ Reports(w, "retry") \/ Reports(w, "permanent")
    /\ UNCHANGED <<event, delivery, routes, accepted, unrecorded, lost, faults>>

CompleteNotificationDelivery(w) ==
    LET d == worker[w].on IN
    /\ worker[w].pc = "settling"
    /\ worker[w].outcome = "ok"
    /\ \/ /\ Owns(w, d)
          /\ delivery' = [delivery EXCEPT ![d] = [@ EXCEPT !.status = "succeeded",
                                                           !.owner = NoWorker,
                                                           !.elapsed = FALSE]]
          /\ UNCHANGED unrecorded
       \/ /\ ~Owns(w, d)
          /\ unrecorded' = [unrecorded EXCEPT ![d] = @ + 1]
          /\ UNCHANGED delivery
    /\ worker' = [worker EXCEPT ![w] = Idle]
    /\ UNCHANGED <<event, routes, accepted, lost, faults>>

\* Mutant: one attempt too many.
RetriesOffByOne(w) == worker[w].outcome = "retry" /\ worker[w].attempt <= MaxAttempts

Retries(w) == worker[w].outcome = "retry" /\ worker[w].attempt < MaxAttempts

\* Mutant: the failing statement names the delivery only.
FailNotificationDeliveryUnfenced(w) ==
    /\ worker[w].pc = "settling"
    /\ worker[w].outcome # "ok"
    /\ delivery' = [delivery EXCEPT ![worker[w].on] =
                       [@ EXCEPT !.status = IF Retries(w) THEN "queued" ELSE "failed",
                                 !.owner = NoWorker, !.elapsed = FALSE]]
    /\ worker' = [worker EXCEPT ![w] = Idle]
    /\ UNCHANGED <<event, routes, accepted, unrecorded, lost, faults>>

FailNotificationDelivery(w) ==
    LET d == worker[w].on IN
    /\ worker[w].pc = "settling"
    /\ worker[w].outcome # "ok"
    /\ \/ /\ Owns(w, d)
          /\ delivery' = [delivery EXCEPT ![d] =
                             [@ EXCEPT !.status = IF Retries(w) THEN "queued" ELSE "failed",
                                       !.owner = NoWorker, !.elapsed = FALSE]]
       \/ ~Owns(w, d) /\ UNCHANGED delivery
    /\ worker' = [worker EXCEPT ![w] = Idle]
    /\ UNCHANGED <<event, routes, accepted, unrecorded, lost, faults>>

\* The process stops at any point, recording nothing more, and comes back with
\* the configuration it finds then.  An error of the store that ends runOnce is
\* the case of an unchanged configuration.
Restart(w, rs) ==
    /\ faults < MaxFaults
    /\ worker' = [worker EXCEPT ![w] = Idle]
    /\ routes' = [routes EXCEPT ![w] = rs]
    /\ unrecorded' = IF worker[w].outcome = "ok"
                     THEN [unrecorded EXCEPT ![worker[w].on] = @ + 1] ELSE unrecorded
    /\ faults' = faults + 1
    /\ UNCHANGED <<event, delivery, accepted, lost>>

-----------------------------------------------------------------------------
RunOnce(w) ==
    \/ \E e \in Events : AcquireNotificationEvent(w, e)
    \/ NoNotificationEvent(w)
    \/ ExpandNotificationEvent(w)
    \/ \E d \in Deliveries : AcquireNotificationDelivery(w, d)
    \/ NoNotificationDelivery(w)
    \/ SendAccepted(w) \/ SendRefused(w)
    \/ CompleteNotificationDelivery(w) \/ FailNotificationDelivery(w)

WorkerStep(w) ==
    \/ RunOnce(w) \/ AnswerLost(w)
    \/ \E rs \in SUBSET Destinations : Restart(w, rs)

Next ==
    \/ \E w \in Workers : WorkerStep(w)
    \/ \E e \in Events : EnqueueNotificationEvent(e)
    \/ \E d \in Deliveries : BecomeDue(d) \/ LeaseExpires(d) \/ LeaseLapses(d)

Spec == Init /\ [][Next]_vars

(* Workers poll on a ticker, requests have a timeout of 15 seconds, clocks *)
(* advance.                                                                *)
Fairness ==
    /\ \A w \in Workers : WF_vars(RunOnce(w))
    /\ \A d \in Deliveries : WF_vars(BecomeDue(d)) /\ WF_vars(LeaseExpires(d))

FairSpec == Spec /\ Fairness

-----------------------------------------------------------------------------
(* Properties.                                                             *)

Delivery == [status : {"absent", "queued", "running"} \cup Settled, attempt : Nat,
             owner : Workers \cup {NoWorker}, elapsed : BOOLEAN]

Worker == [pc : {"idle", "expanding", "ready", "sending", "settling"},
           event : Events \cup {NoEvent}, targets : SUBSET Destinations,
           on : Deliveries \cup {<<NoEvent, NoDestination>>}, attempt : Nat,
           outcome : {"none", "ok", "retry", "permanent"}]

\* Types, and that a delivery exists for expanded events only.
TypeOK ==
    /\ event \in [Events -> {"absent", "pending", "expanded", "skipped"}]
    /\ delivery \in [Deliveries -> Delivery]
    /\ \A d \in Deliveries : delivery[d].status # "absent" => event[d[1]] = "expanded"
    /\ worker \in [Workers -> Worker]
    /\ \A w \in Workers : worker[w].pc = "expanding" => worker[w].event \in Events
    /\ \A w \in Workers : Sending(w) => worker[w].on \in Deliveries
    /\ routes \in [Workers -> SUBSET Destinations]
    /\ accepted \in [Deliveries -> Nat]
    /\ unrecorded \in [Deliveries -> Nat]
    /\ lost \in [Deliveries -> Nat]
    /\ faults \in 0..MaxFaults

Routed(e) == {x \in Destinations : delivery[<<e, x>>].status # "absent"}

\* An event is expanded once, to exactly the routes of one worker's
\* configuration, and no restart, second worker or route change adds or removes
\* a destination afterwards (ExpandNotificationEvent).
RoutesSnapshot ==
    [][\A e \in Events :
          /\ event[e] \in {"expanded", "skipped"} =>
                 event'[e] = event[e] /\ Routed(e)' = Routed(e)
          /\ event[e] = "pending" /\ event'[e] # "pending" =>
                 \E w \in Workers : worker[w].event = e /\ Routed(e)' = worker[w].targets]_vars

\* Every request a provider accepted is the recorded success of the delivery,
\* or was lost to a stalled or restarted worker or a lost answer, or is about to
\* be recorded: duplicates have no other source, and a success is never recorded
\* twice (the fence of CompleteNotificationDelivery).
AcceptedAccounted ==
    \A d \in Deliveries :
        accepted[d] = (IF delivery[d].status = "succeeded" THEN 1 ELSE 0)
                      + unrecorded[d]
                      + Cardinality({w \in Workers : /\ worker[w].pc = "settling"
                                                     /\ worker[w].outcome = "ok"
                                                     /\ worker[w].on = d})

\* A delivery is attempted at most max_attempts times, plus once for each claim
\* that ended with an expired lease (the limit is checked in
\* FailNotificationDelivery only).
AttemptBudget ==
    \A d \in Deliveries : delivery[d].attempt <= MaxAttempts + lost[d]

\* A worker that passes the fence holds the newest claim of the delivery.
FenceIsAttempt ==
    \A w \in Workers :
        (Sending(w) /\ Owns(w, worker[w].on)) =>
            worker[w].attempt = delivery[worker[w].on].attempt

\* docs/notifications.md: "Delivery is at least once": every event is expanded,
\* and every delivery of it succeeds or is given up as failed.
EventuallyDelivered ==
    /\ \A e \in Events : event[e] = "pending" ~> event[e] \in {"expanded", "skipped"}
    /\ \A d \in Deliveries : delivery[d].status = "queued" ~> delivery[d].status \in Settled
=============================================================================
