------------------------- MODULE NotificationsProofs -------------------------
(***************************************************************************)
(* Proofs about Notifications for any number of events, destinations,      *)
(* workers, attempts and faults.                                           *)
(***************************************************************************)
EXTENDS Notifications, FiniteSetTheorems, TLAPS

\* The workers about to record that the provider accepted delivery d.
Settling(d) == {w \in Workers : /\ worker[w].pc = "settling"
                                /\ worker[w].outcome = "ok"
                                /\ worker[w].on = d}

\* A worker has an outcome in hand only while it settles a delivery.
OutcomeHeld ==
    \A w \in Workers : worker[w].outcome # "none" => worker[w].pc = "settling"

TypeInv == TypeOK /\ OutcomeHeld

\* A queued delivery has an attempt left: AttemptBudget alone does not survive
\* the next claim.
BudgetLeft ==
    \A d \in Deliveries :
        delivery[d].status \in {"absent", "queued"} =>
            delivery[d].attempt < MaxAttempts + lost[d]

\* The cardinality in AcceptedAccounted counts a finite set, however many
\* workers there are.
SettlingFinite == \A d \in Deliveries : IsFiniteSet(Settling(d))

Accounting == AcceptedAccounted /\ SettlingFinite

-----------------------------------------------------------------------------
(* Type correctness.                                                       *)

LEMMA RecordFacts ==
    /\ NoDelivery \in Delivery /\ NoDelivery.status = "absent" /\ NoDelivery.attempt = 0
    /\ Queued \in Delivery /\ Queued.status = "queued" /\ Queued.attempt = 0
    /\ Queued.owner = NoWorker
    /\ Idle \in Worker /\ Idle.pc = "idle" /\ Idle.outcome = "none"
BY DEF NoDelivery, Queued, Idle, Delivery, Worker, Settled

LEMMA InitType == Init => TypeInv
BY RecordFacts, LimitAssumption DEF Init, TypeInv, TypeOK, OutcomeHeld, Sending

\* A worker's record after a step of the worker, and the others'.
LEMMA WorkerFacts ==
    ASSUME TypeInv, NEW w \in Workers, NEW next \in Worker,
           worker' = [worker EXCEPT ![w] = next]
    PROVE  /\ worker' \in [Workers -> Worker]
           /\ worker'[w] = next
           /\ \A u \in Workers : u # w => worker'[u] = worker[u]
BY DEF TypeInv, TypeOK

\* A row of notification_deliveries after an update of it, and the others.
LEMMA DeliveryFacts ==
    ASSUME TypeInv, NEW d \in Deliveries, NEW row \in Delivery,
           delivery' = [delivery EXCEPT ![d] = row]
    PROVE  /\ delivery' \in [Deliveries -> Delivery]
           /\ delivery'[d] = row
           /\ \A c \in Deliveries : c # d => delivery'[c] = delivery[c]
BY DEF TypeInv, TypeOK

LEMMA ElapsedFacts ==
    ASSUME TypeInv, NEW d \in Deliveries,
           BecomeDue(d) \/ LeaseExpires(d) \/ LeaseLapses(d)
    PROVE  /\ delivery' \in [Deliveries -> Delivery]
           /\ \A c \in Deliveries : /\ delivery'[c].status = delivery[c].status
                                    /\ delivery'[c].attempt = delivery[c].attempt
                                    /\ delivery'[c].owner = delivery[c].owner
           /\ UNCHANGED <<event, worker, routes, accepted, unrecorded, lost>>
           /\ faults' \in 0..MaxFaults
<1>1. delivery' = [delivery EXCEPT ![d].elapsed = TRUE]
  BY DEF BecomeDue, LeaseExpires, LeaseLapses
<1>2. faults' \in 0..MaxFaults
  BY LimitAssumption DEF TypeInv, TypeOK, BecomeDue, LeaseExpires, LeaseLapses
<1>3. /\ delivery' \in [Deliveries -> Delivery]
      /\ \A c \in Deliveries : /\ delivery'[c].status = delivery[c].status
                               /\ delivery'[c].attempt = delivery[c].attempt
                               /\ delivery'[c].owner = delivery[c].owner
  <2> DEFINE row == [delivery[d] EXCEPT !.elapsed = TRUE]
  <2>1. delivery[d] \in Delivery /\ delivery' = [delivery EXCEPT ![d] = row]
    BY <1>1 DEF TypeInv, TypeOK
  <2>2. /\ row \in Delivery /\ row.status = delivery[d].status
        /\ row.attempt = delivery[d].attempt /\ row.owner = delivery[d].owner
    BY <2>1 DEF Delivery
  <2> HIDE DEF row
  <2> QED BY <2>1, <2>2, DeliveryFacts
<1> QED BY <1>2, <1>3 DEF BecomeDue, LeaseExpires, LeaseLapses

LEMMA AcquireEventFacts ==
    ASSUME TypeInv, NEW w \in Workers, NEW e \in Events, AcquireNotificationEvent(w, e)
    PROVE  /\ worker' \in [Workers -> Worker]
           /\ worker'[w].pc = "expanding" /\ worker'[w].event = e
           /\ worker'[w].outcome = "none"
           /\ worker[w].pc = "idle"
           /\ \A u \in Workers : u # w => worker'[u] = worker[u]
<1> DEFINE next == [Idle EXCEPT !.pc = "expanding", !.event = e, !.targets = routes[w]]
<1>1. /\ next \in Worker /\ next.pc = "expanding" /\ next.event = e
      /\ next.outcome = "none"
  BY DEF TypeInv, TypeOK, Idle, Worker
<1>2. worker' = [worker EXCEPT ![w] = next] /\ worker[w].pc = "idle"
  BY DEF AcquireNotificationEvent
<1> HIDE DEF next
<1> QED BY <1>1, <1>2, WorkerFacts

\* The steps after which the worker's record is Idle, or Idle at "ready".
LEMMA ReadyFacts ==
    ASSUME TypeInv, NEW w \in Workers,
           \/ NoNotificationEvent(w) \/ ExpandNotificationEvent(w)
    PROVE  /\ worker' \in [Workers -> Worker]
           /\ worker'[w].pc = "ready" /\ worker'[w].outcome = "none"
           /\ worker[w].pc \in {"idle", "expanding"}
           /\ \A u \in Workers : u # w => worker'[u] = worker[u]
<1>1. CASE NoNotificationEvent(w)
  <2> DEFINE next == [worker[w] EXCEPT !.pc = "ready"]
  <2>1. worker[w].pc = "idle" /\ worker[w].outcome = "none" /\ worker[w] \in Worker
    BY <1>1 DEF NoNotificationEvent, TypeInv, TypeOK, OutcomeHeld
  <2>2. next \in Worker /\ next.pc = "ready" /\ next.outcome = "none"
    BY <2>1 DEF Worker
  <2>3. worker' = [worker EXCEPT ![w] = next]
    BY <1>1 DEF NoNotificationEvent
  <2> HIDE DEF next
  <2> QED BY <2>1, <2>2, <2>3, WorkerFacts
<1>2. CASE ExpandNotificationEvent(w)
  <2> DEFINE next == [Idle EXCEPT !.pc = "ready"]
  <2>1. next \in Worker /\ next.pc = "ready" /\ next.outcome = "none"
    BY DEF Worker, Idle
  <2>2. worker' = [worker EXCEPT ![w] = next] /\ worker[w].pc = "expanding"
    BY <1>2 DEF ExpandNotificationEvent
  <2> HIDE DEF next
  <2> QED BY <2>1, <2>2, WorkerFacts
<1> QED BY <1>1, <1>2

LEMMA IdleFacts ==
    ASSUME TypeInv, NEW w \in Workers,
           \/ NoNotificationDelivery(w)
           \/ CompleteNotificationDelivery(w) \/ FailNotificationDelivery(w)
           \/ \E rs \in SUBSET Destinations : Restart(w, rs)
    PROVE  /\ worker' \in [Workers -> Worker]
           /\ worker'[w].pc = "idle" /\ worker'[w].outcome = "none"
           /\ \A u \in Workers : u # w => worker'[u] = worker[u]
<1>1. worker' = [worker EXCEPT ![w] = Idle]
  BY DEF NoNotificationDelivery, CompleteNotificationDelivery, FailNotificationDelivery,
         Restart
<1> QED BY <1>1, RecordFacts, WorkerFacts

LEMMA ReportFacts ==
    ASSUME TypeInv, NEW w \in Workers, NEW o \in {"ok", "retry", "permanent"},
           Reports(w, o)
    PROVE  /\ worker' \in [Workers -> Worker]
           /\ worker[w].pc = "sending" /\ worker[w].outcome = "none"
           /\ worker'[w].pc = "settling" /\ worker'[w].outcome = o
           /\ worker'[w].on = worker[w].on /\ worker'[w].attempt = worker[w].attempt
           /\ worker[w].on \in Deliveries
           /\ \A u \in Workers : u # w => worker'[u] = worker[u]
<1> DEFINE next == [worker[w] EXCEPT !.pc = "settling", !.outcome = o]
<1>1. /\ worker[w] \in Worker /\ worker[w].pc = "sending"
      /\ worker[w].outcome = "none" /\ worker[w].on \in Deliveries
  BY DEF Reports, TypeInv, TypeOK, OutcomeHeld, Sending, Worker
<1>2. /\ next \in Worker /\ next.pc = "settling" /\ next.outcome = o
      /\ next.on = worker[w].on /\ next.attempt = worker[w].attempt
  BY <1>1 DEF Worker
<1>3. worker' = [worker EXCEPT ![w] = next]
  BY <1>1 DEF Reports, TypeInv, TypeOK
<1> HIDE DEF next
<1> QED BY <1>1, <1>2, <1>3, WorkerFacts

LEMMA ClaimFacts ==
    ASSUME TypeInv, NEW w \in Workers, NEW d \in Deliveries,
           AcquireNotificationDelivery(w, d)
    PROVE  /\ worker[w].pc = "ready"
           /\ delivery[d].status \in {"queued", "running"}
           /\ delivery' \in [Deliveries -> Delivery]
           /\ delivery'[d].status = "running" /\ delivery'[d].owner = w
           /\ delivery'[d].attempt = delivery[d].attempt + 1
           /\ \A c \in Deliveries : c # d => delivery'[c] = delivery[c]
           /\ worker' \in [Workers -> Worker]
           /\ worker'[w].pc = "sending" /\ worker'[w].on = d
           /\ worker'[w].outcome = "none"
           /\ worker'[w].attempt = delivery[d].attempt + 1
           /\ \A u \in Workers : u # w => worker'[u] = worker[u]
           /\ lost' \in [Deliveries -> Nat]
           /\ lost'[d] = IF delivery[d].status = "running" THEN lost[d] + 1 ELSE lost[d]
           /\ \A c \in Deliveries : c # d => lost'[c] = lost[c]
<1> DEFINE row == [status |-> "running", attempt |-> delivery[d].attempt + 1,
                   owner |-> w, elapsed |-> FALSE]
           next == [Idle EXCEPT !.pc = "sending", !.on = d,
                                !.attempt = delivery[d].attempt + 1]
<1>1. delivery[d].attempt + 1 \in Nat
  BY DEF TypeInv, TypeOK, Delivery
<1>2. /\ row \in Delivery /\ row.status = "running" /\ row.owner = w
      /\ row.attempt = delivery[d].attempt + 1
  BY <1>1 DEF Delivery
<1>3. /\ next \in Worker /\ next.pc = "sending" /\ next.on = d
      /\ next.outcome = "none" /\ next.attempt = delivery[d].attempt + 1
  BY <1>1 DEF Worker, Idle
<1>4. /\ delivery' = [delivery EXCEPT ![d] = row]
      /\ worker' = [worker EXCEPT ![w] = next]
      /\ worker[w].pc = "ready"
      /\ delivery[d].status \in {"queued", "running"}
  BY DEF AcquireNotificationDelivery, Acquirable
<1>5. /\ lost' \in [Deliveries -> Nat]
      /\ lost'[d] = IF delivery[d].status = "running" THEN lost[d] + 1 ELSE lost[d]
      /\ \A c \in Deliveries : c # d => lost'[c] = lost[c]
  BY DEF AcquireNotificationDelivery, TypeInv, TypeOK
<1> HIDE DEF row, next
<1>6. /\ delivery' \in [Deliveries -> Delivery] /\ delivery'[d] = row
      /\ \A c \in Deliveries : c # d => delivery'[c] = delivery[c]
  BY <1>2, <1>4, DeliveryFacts
<1>7. /\ worker' \in [Workers -> Worker] /\ worker'[w] = next
      /\ \A u \in Workers : u # w => worker'[u] = worker[u]
  BY <1>3, <1>4, WorkerFacts
<1> QED BY <1>2, <1>3, <1>4, <1>5, <1>6, <1>7

\* The row a settling worker leaves behind when it passes the fence.
LEMMA SettleFacts ==
    ASSUME TypeInv, NEW w \in Workers,
           CompleteNotificationDelivery(w) \/ FailNotificationDelivery(w),
           Owns(w, worker[w].on)
    PROVE  /\ worker[w].on \in Deliveries
           /\ delivery' \in [Deliveries -> Delivery]
           /\ delivery'[worker[w].on].status =
                  IF worker[w].outcome = "ok" THEN "succeeded"
                  ELSE IF Retries(w) THEN "queued" ELSE "failed"
           /\ delivery'[worker[w].on].attempt = delivery[worker[w].on].attempt
           /\ \A c \in Deliveries : c # worker[w].on => delivery'[c] = delivery[c]
<1> DEFINE d == worker[w].on
           s == IF worker[w].outcome = "ok" THEN "succeeded"
                ELSE IF Retries(w) THEN "queued" ELSE "failed"
           row == [delivery[d] EXCEPT !.status = s, !.owner = NoWorker, !.elapsed = FALSE]
<1>1. d \in Deliveries /\ delivery[d] \in Delivery
  BY DEF CompleteNotificationDelivery, FailNotificationDelivery, Sending, TypeInv, TypeOK
<1>2. row \in Delivery /\ row.status = s /\ row.attempt = delivery[d].attempt
  BY <1>1 DEF Delivery, Settled
<1>3. delivery' = [delivery EXCEPT ![d] = row]
  BY DEF CompleteNotificationDelivery, FailNotificationDelivery
<1> HIDE DEF d, row
<1>4. /\ delivery' \in [Deliveries -> Delivery] /\ delivery'[d] = row
      /\ \A c \in Deliveries : c # d => delivery'[c] = delivery[c]
  BY <1>1, <1>2, <1>3, DeliveryFacts
<1> QED BY <1>1, <1>2, <1>4 DEF d

\* What an expansion does to the event and the deliveries.
LEMMA ExpandFacts ==
    ASSUME TypeInv, NEW w \in Workers, ExpandNotificationEvent(w)
    PROVE  /\ worker[w].event \in Events
           /\ event' \in [Events -> {"absent", "pending", "expanded", "skipped"}]
           /\ delivery' \in [Deliveries -> Delivery]
           /\ \A e \in Events :
                  e # worker[w].event \/ event[e] # "pending" => event'[e] = event[e]
           /\ \A d \in Deliveries :
                  IF /\ d[1] = worker[w].event /\ d[2] \in worker[w].targets
                     /\ event[d[1]] = "pending"
                  THEN delivery'[d] = Queued /\ event'[d[1]] = "expanded"
                  ELSE delivery'[d] = delivery[d]
           /\ UNCHANGED <<routes, accepted, unrecorded, lost, faults>>
<1> DEFINE e0 == worker[w].event
<1>1. e0 \in Events
  BY DEF ExpandNotificationEvent, TypeInv, TypeOK
<1>2. CASE event[e0] # "pending"
  <2>1. UNCHANGED <<event, delivery, routes, accepted, unrecorded, lost, faults>>
    BY <1>2 DEF ExpandNotificationEvent
  <2> QED BY <1>1, <1>2, <2>1 DEF TypeInv, TypeOK
<1>3. CASE event[e0] = "pending"
  <2>1. event' = [event EXCEPT ![e0] = IF worker[w].targets = {} THEN "skipped"
                                                                 ELSE "expanded"]
    BY <1>3 DEF ExpandNotificationEvent
  <2>2. delivery' = [d \in Deliveries |-> IF d[1] = e0 /\ d[2] \in worker[w].targets
                                          THEN Queued ELSE delivery[d]]
    BY <1>3 DEF ExpandNotificationEvent
  <2>3. event' \in [Events -> {"absent", "pending", "expanded", "skipped"}]
    BY <1>1, <2>1 DEF TypeInv, TypeOK
  <2>4. delivery' \in [Deliveries -> Delivery]
    BY <2>2, RecordFacts DEF TypeInv, TypeOK
  <2>5. \A e \in Events : e # e0 \/ event[e] # "pending" => event'[e] = event[e]
    BY <1>3, <2>1 DEF TypeInv, TypeOK
  <2>6. \A d \in Deliveries :
            IF d[1] = e0 /\ d[2] \in worker[w].targets /\ event[d[1]] = "pending"
            THEN delivery'[d] = Queued /\ event'[d[1]] = "expanded"
            ELSE delivery'[d] = delivery[d]
    <3> SUFFICES ASSUME NEW d \in Deliveries
                 PROVE  IF /\ d[1] = e0 /\ d[2] \in worker[w].targets
                           /\ event[d[1]] = "pending"
                        THEN delivery'[d] = Queued /\ event'[d[1]] = "expanded"
                        ELSE delivery'[d] = delivery[d]
      OBVIOUS
    <3>1. d[1] = e0 /\ d[2] \in worker[w].targets => event'[d[1]] = "expanded"
      BY <1>1, <2>1 DEF TypeInv, TypeOK
    <3> QED BY <1>3, <2>2, <3>1
  <2>7. UNCHANGED <<routes, accepted, unrecorded, lost, faults>>
    BY DEF ExpandNotificationEvent
  <2> QED BY <1>1, <2>3, <2>4, <2>5, <2>6, <2>7
<1> QED BY <1>2, <1>3

\* A step that changes one worker's record keeps what TypeInv says of workers.
LEMMA WorkerType ==
    ASSUME TypeInv, NEW w \in Workers, worker' \in [Workers -> Worker],
           worker'[w].pc = "expanding" => worker'[w].event \in Events,
           worker'[w].pc \in {"sending", "settling"} => worker'[w].on \in Deliveries,
           worker'[w].outcome # "none" => worker'[w].pc = "settling",
           \A u \in Workers : u # w => worker'[u] = worker[u]
    PROVE  /\ \A u \in Workers : worker'[u].pc = "expanding" => worker'[u].event \in Events
           /\ \A u \in Workers : Sending(u)' => worker'[u].on \in Deliveries
           /\ OutcomeHeld'
BY DEF TypeInv, TypeOK, OutcomeHeld, Sending

\* A step after which the same deliveries exist, and no event has left "expanded".
LEMMA ExistenceKept ==
    ASSUME TypeInv,
           \A e \in Events : event[e] = "expanded" => event'[e] = "expanded",
           \A d \in Deliveries : delivery'[d].status # "absent" =>
                                     delivery[d].status # "absent"
    PROVE  \A d \in Deliveries : delivery'[d].status # "absent" => event'[d[1]] = "expanded"
BY DEF TypeInv, TypeOK, Deliveries

LEMMA TypeStep == TypeInv /\ [Next]_vars => TypeInv'
<1> SUFFICES ASSUME TypeInv, [Next]_vars PROVE TypeInv'
    OBVIOUS
<1> USE LimitAssumption
<1>1. ASSUME NEW w \in Workers, NEW e \in Events, AcquireNotificationEvent(w, e)
      PROVE  TypeInv'
  <2>1. UNCHANGED <<event, delivery, routes, accepted, unrecorded, lost, faults>>
    BY <1>1 DEF AcquireNotificationEvent
  <2> QED BY <1>1, <2>1, AcquireEventFacts, WorkerType DEF TypeInv, TypeOK
<1>2. ASSUME NEW w \in Workers, NoNotificationEvent(w)
      PROVE  TypeInv'
  <2>1. UNCHANGED <<event, delivery, routes, accepted, unrecorded, lost, faults>>
    BY <1>2 DEF NoNotificationEvent
  <2> QED BY <1>2, <2>1, ReadyFacts, WorkerType DEF TypeInv, TypeOK
<1>3. ASSUME NEW w \in Workers, ExpandNotificationEvent(w)
      PROVE  TypeInv'
  <2>1. \A d \in Deliveries : delivery'[d].status # "absent" => event'[d[1]] = "expanded"
    <3> SUFFICES ASSUME NEW d \in Deliveries, delivery'[d].status # "absent"
                 PROVE  event'[d[1]] = "expanded"
      OBVIOUS
    <3>1. d[1] \in Events
      BY DEF Deliveries
    <3> QED BY <1>3, <3>1, ExpandFacts DEF TypeInv, TypeOK
  <2> QED BY <1>3, <2>1, ExpandFacts, ReadyFacts, WorkerType DEF TypeInv, TypeOK
<1>4. ASSUME NEW w \in Workers, NEW d \in Deliveries, AcquireNotificationDelivery(w, d)
      PROVE  TypeInv'
  <2>1. UNCHANGED <<event, routes, accepted, unrecorded, faults>>
    BY <1>4 DEF AcquireNotificationDelivery
  <2>2. \A c \in Deliveries : delivery'[c].status # "absent" => event'[c[1]] = "expanded"
    BY <1>4, <2>1, ClaimFacts, ExistenceKept
  <2> QED BY <1>4, <2>1, <2>2, ClaimFacts, WorkerType DEF TypeInv, TypeOK
<1>5. ASSUME NEW w \in Workers, NoNotificationDelivery(w)
      PROVE  TypeInv'
  <2>1. UNCHANGED <<event, delivery, routes, accepted, unrecorded, lost, faults>>
    BY <1>5 DEF NoNotificationDelivery
  <2> QED BY <1>5, <2>1, IdleFacts, WorkerType DEF TypeInv, TypeOK
<1>6. ASSUME NEW w \in Workers, SendAccepted(w) \/ SendRefused(w) \/ AnswerLost(w)
      PROVE  TypeInv'
  <2>1. PICK o \in {"ok", "retry", "permanent"} : Reports(w, o)
    BY <1>6 DEF SendAccepted, SendRefused, AnswerLost
  <2>2. /\ UNCHANGED <<event, delivery, routes, lost>>
        /\ accepted' \in [Deliveries -> Nat] /\ unrecorded' \in [Deliveries -> Nat]
        /\ faults' \in 0..MaxFaults
    BY <1>6 DEF SendAccepted, SendRefused, AnswerLost, TypeInv, TypeOK
  <2> QED BY <2>1, <2>2, ReportFacts, WorkerType DEF TypeInv, TypeOK
<1>7. ASSUME NEW w \in Workers,
             CompleteNotificationDelivery(w) \/ FailNotificationDelivery(w)
      PROVE  TypeInv'
  <2>1. /\ UNCHANGED <<event, routes, accepted, lost, faults>>
        /\ unrecorded' \in [Deliveries -> Nat]
    BY <1>7 DEF CompleteNotificationDelivery, FailNotificationDelivery, TypeInv, TypeOK
  <2>2. CASE Owns(w, worker[w].on)
    <3>1. delivery[worker[w].on].status # "absent"
      BY <2>2 DEF Owns
    <3>2. \A d \in Deliveries : delivery'[d].status # "absent" => event'[d[1]] = "expanded"
      BY <1>7, <2>1, <2>2, <3>1, SettleFacts, ExistenceKept
    <3> QED BY <1>7, <2>1, <2>2, <3>2, SettleFacts, IdleFacts, WorkerType DEF TypeInv, TypeOK
  <2>3. CASE ~Owns(w, worker[w].on)
    <3>1. UNCHANGED delivery
      BY <1>7, <2>3 DEF CompleteNotificationDelivery, FailNotificationDelivery
    <3> QED BY <1>7, <2>1, <3>1, IdleFacts, WorkerType DEF TypeInv, TypeOK
  <2> QED BY <2>2, <2>3
<1>8. ASSUME NEW w \in Workers, NEW rs \in SUBSET Destinations, Restart(w, rs)
      PROVE  TypeInv'
  <2>1. /\ UNCHANGED <<event, delivery, accepted, lost>>
        /\ routes' \in [Workers -> SUBSET Destinations]
        /\ faults' \in 0..MaxFaults
    BY <1>8 DEF Restart, TypeInv, TypeOK
  <2>2. worker[w].outcome = "ok" => worker[w].on \in Deliveries
    BY DEF TypeInv, TypeOK, OutcomeHeld, Sending
  <2>3. unrecorded' \in [Deliveries -> Nat]
    BY <1>8, <2>2 DEF Restart, TypeInv, TypeOK
  <2> QED BY <1>8, <2>1, <2>3, IdleFacts, WorkerType DEF TypeInv, TypeOK
<1>9. ASSUME NEW e \in Events, EnqueueNotificationEvent(e)
      PROVE  TypeInv'
  <2>1. UNCHANGED <<delivery, worker, routes, accepted, unrecorded, lost, faults>>
    BY <1>9 DEF EnqueueNotificationEvent
  <2>2. /\ event' \in [Events -> {"absent", "pending", "expanded", "skipped"}]
        /\ \A f \in Events : event[f] = "expanded" => event'[f] = "expanded"
    BY <1>9 DEF EnqueueNotificationEvent, TypeInv, TypeOK
  <2>3. \A d \in Deliveries : delivery'[d].status # "absent" => event'[d[1]] = "expanded"
    BY <2>1, <2>2, ExistenceKept
  <2> QED BY <2>1, <2>2, <2>3 DEF TypeInv, TypeOK, OutcomeHeld, Sending
<1>10. ASSUME NEW d \in Deliveries, BecomeDue(d) \/ LeaseExpires(d) \/ LeaseLapses(d)
       PROVE  TypeInv'
  <2>1. \A c \in Deliveries : delivery'[c].status # "absent" => event'[c[1]] = "expanded"
    BY <1>10, ElapsedFacts, ExistenceKept
  <2> QED BY <1>10, <2>1, ElapsedFacts DEF TypeInv, TypeOK, OutcomeHeld, Sending
<1>11. CASE UNCHANGED vars
  BY <1>11 DEF vars, TypeInv, TypeOK, OutcomeHeld, Sending
<1> QED BY <1>1, <1>2, <1>3, <1>4, <1>5, <1>6, <1>7, <1>8, <1>9, <1>10, <1>11
        DEF Next, WorkerStep, RunOnce

-----------------------------------------------------------------------------
(* The fence and the attempt budget.                                       *)

BudgetInv == FenceIsAttempt /\ AttemptBudget /\ BudgetLeft

LEMMA InitBudget == Init => BudgetInv
<1> SUFFICES ASSUME Init PROVE BudgetInv
    OBVIOUS
<1>1. \A d \in Deliveries : delivery[d] = NoDelivery /\ lost[d] = 0
  BY DEF Init
<1>2. \A w \in Workers : worker[w] = Idle
  BY DEF Init
<1>3. FenceIsAttempt
  BY <1>2, RecordFacts DEF FenceIsAttempt, Sending
<1>4. AttemptBudget /\ BudgetLeft
  BY <1>1, RecordFacts, LimitAssumption DEF AttemptBudget, BudgetLeft
<1> QED BY <1>3, <1>4 DEF BudgetInv

\* A step that leaves the rows' fence, attempts and losses alone, and whose only
\* worker keeps its claim or stops sending.
LEMMA BudgetKept ==
    ASSUME TypeInv, BudgetInv, UNCHANGED lost, NEW w \in Workers,
           \A d \in Deliveries : /\ delivery'[d].status = delivery[d].status
                                 /\ delivery'[d].attempt = delivery[d].attempt
                                 /\ delivery'[d].owner = delivery[d].owner,
           \/ worker'[w].pc \notin {"sending", "settling"}
           \/ /\ worker[w].pc = "sending" /\ worker'[w].on = worker[w].on
              /\ worker'[w].attempt = worker[w].attempt,
           \A u \in Workers : u # w => worker'[u] = worker[u]
    PROVE  BudgetInv'
<1>1. FenceIsAttempt'
  BY DEF BudgetInv, FenceIsAttempt, Sending, Owns, TypeInv, TypeOK
<1>2. AttemptBudget' /\ BudgetLeft'
  BY DEF BudgetInv, AttemptBudget, BudgetLeft
<1> QED BY <1>1, <1>2 DEF BudgetInv

LEMMA BudgetStep == TypeInv /\ BudgetInv /\ [Next]_vars => BudgetInv'
<1> SUFFICES ASSUME TypeInv, BudgetInv, [Next]_vars PROVE BudgetInv'
    OBVIOUS
<1> USE LimitAssumption
<1>1. ASSUME NEW w \in Workers, NEW e \in Events, AcquireNotificationEvent(w, e)
      PROVE  BudgetInv'
  <2>1. UNCHANGED <<delivery, lost>>
    BY <1>1 DEF AcquireNotificationEvent
  <2> QED BY <1>1, <2>1, AcquireEventFacts, BudgetKept
<1>2. ASSUME NEW w \in Workers, NoNotificationEvent(w)
      PROVE  BudgetInv'
  <2>1. UNCHANGED <<delivery, lost>>
    BY <1>2 DEF NoNotificationEvent
  <2> QED BY <1>2, <2>1, ReadyFacts, BudgetKept
<1>3. ASSUME NEW w \in Workers, ExpandNotificationEvent(w)
      PROVE  BudgetInv'
  <2>1. \A d \in Deliveries : delivery'[d] = delivery[d] \/ delivery'[d] = Queued
    BY <1>3, ExpandFacts
  <2>2. UNCHANGED lost
    BY <1>3, ExpandFacts
  <2>3. FenceIsAttempt'
    <3> SUFFICES ASSUME NEW u \in Workers, Sending(u)', Owns(u, worker[u].on)'
                 PROVE  worker'[u].attempt = delivery'[worker'[u].on].attempt
      BY DEF FenceIsAttempt
    <3>1. u # w /\ worker'[u] = worker[u]
      BY <1>3, ReadyFacts DEF Sending
    <3>2. worker[u].on \in Deliveries /\ Sending(u)
      BY <3>1 DEF Sending, TypeInv, TypeOK
    <3>3. delivery'[worker[u].on] = delivery[worker[u].on]
      BY <2>1, <3>1, <3>2, RecordFacts DEF Owns
    <3> QED BY <3>1, <3>2, <3>3 DEF BudgetInv, FenceIsAttempt, Owns
  <2>4. AttemptBudget' /\ BudgetLeft'
    BY <2>1, <2>2, RecordFacts DEF BudgetInv, AttemptBudget, BudgetLeft, TypeInv, TypeOK
  <2> QED BY <2>3, <2>4 DEF BudgetInv
<1>4. ASSUME NEW w \in Workers, NEW d \in Deliveries, AcquireNotificationDelivery(w, d)
      PROVE  BudgetInv'
  <2>1. FenceIsAttempt'
    <3> SUFFICES ASSUME NEW u \in Workers, Sending(u)', Owns(u, worker[u].on)'
                 PROVE  worker'[u].attempt = delivery'[worker'[u].on].attempt
      BY DEF FenceIsAttempt
    <3>1. CASE u = w
      BY <1>4, <3>1, ClaimFacts
    <3>2. CASE u # w
      <4>1. worker'[u] = worker[u] /\ worker[u].on \in Deliveries /\ Sending(u)
        BY <1>4, <3>2, ClaimFacts DEF Sending, TypeInv, TypeOK
      <4>2. worker[u].on # d
        BY <1>4, <3>2, <4>1, ClaimFacts DEF Owns
      <4> QED BY <1>4, <4>1, <4>2, ClaimFacts DEF BudgetInv, FenceIsAttempt, Owns
    <3> QED BY <3>1, <3>2
  <2>2. AttemptBudget' /\ BudgetLeft'
    <3> SUFFICES ASSUME NEW c \in Deliveries
                 PROVE  /\ delivery'[c].attempt <= MaxAttempts + lost'[c]
                        /\ delivery'[c].status \in {"absent", "queued"} =>
                               delivery'[c].attempt < MaxAttempts + lost'[c]
      BY DEF AttemptBudget, BudgetLeft
    <3>1. /\ delivery[c].attempt <= MaxAttempts + lost[c]
          /\ delivery[c].status \in {"absent", "queued"} =>
                 delivery[c].attempt < MaxAttempts + lost[c]
      BY DEF BudgetInv, AttemptBudget, BudgetLeft
    <3>2. delivery[c].attempt \in Nat /\ lost[c] \in Nat
      BY DEF TypeInv, TypeOK, Delivery
    <3> QED BY <1>4, <3>1, <3>2, ClaimFacts
  <2> QED BY <2>1, <2>2 DEF BudgetInv
<1>5. ASSUME NEW w \in Workers, NoNotificationDelivery(w)
      PROVE  BudgetInv'
  <2>1. UNCHANGED <<delivery, lost>>
    BY <1>5 DEF NoNotificationDelivery
  <2> QED BY <1>5, <2>1, IdleFacts, BudgetKept
<1>6. ASSUME NEW w \in Workers, SendAccepted(w) \/ SendRefused(w) \/ AnswerLost(w)
      PROVE  BudgetInv'
  <2>1. PICK o \in {"ok", "retry", "permanent"} : Reports(w, o)
    BY <1>6 DEF SendAccepted, SendRefused, AnswerLost
  <2>2. UNCHANGED <<delivery, lost>>
    BY <1>6 DEF SendAccepted, SendRefused, AnswerLost
  <2> QED BY <2>1, <2>2, ReportFacts, BudgetKept
<1>7. ASSUME NEW w \in Workers,
             CompleteNotificationDelivery(w) \/ FailNotificationDelivery(w)
      PROVE  BudgetInv'
  <2> DEFINE d == worker[w].on
  <2>1. UNCHANGED lost
    BY <1>7 DEF CompleteNotificationDelivery, FailNotificationDelivery
  <2>2. CASE Owns(w, d)
    <3>1. d \in Deliveries /\ Sending(w)
      BY <1>7, <2>2, SettleFacts
         DEF Sending, CompleteNotificationDelivery, FailNotificationDelivery
    <3>2. worker[w].attempt = delivery[d].attempt
      BY <2>2, <3>1 DEF BudgetInv, FenceIsAttempt
    <3>3. FenceIsAttempt'
      <4> SUFFICES ASSUME NEW u \in Workers, Sending(u)', Owns(u, worker[u].on)'
                   PROVE  worker'[u].attempt = delivery'[worker'[u].on].attempt
        BY DEF FenceIsAttempt
      <4>1. u # w /\ worker'[u] = worker[u]
        BY <1>7, IdleFacts DEF Sending
      <4>2. worker[u].on \in Deliveries /\ Sending(u)
        BY <4>1 DEF Sending, TypeInv, TypeOK
      <4>3. delivery'[worker[u].on] = delivery[worker[u].on]
        BY <1>7, <2>2, <4>1, <4>2, SettleFacts DEF Owns
      <4> QED BY <4>1, <4>2, <4>3 DEF BudgetInv, FenceIsAttempt, Owns
    <3>4. AttemptBudget' /\ BudgetLeft'
      <4> SUFFICES ASSUME NEW c \in Deliveries
                   PROVE  /\ delivery'[c].attempt <= MaxAttempts + lost'[c]
                          /\ delivery'[c].status \in {"absent", "queued"} =>
                                 delivery'[c].attempt < MaxAttempts + lost'[c]
        BY DEF AttemptBudget, BudgetLeft
      <4>1. /\ delivery[c].attempt <= MaxAttempts + lost[c]
            /\ delivery[c].status \in {"absent", "queued"} =>
                   delivery[c].attempt < MaxAttempts + lost[c]
        BY DEF BudgetInv, AttemptBudget, BudgetLeft
      <4>2. delivery[c].attempt \in Nat /\ lost[c] \in Nat
        BY DEF TypeInv, TypeOK, Delivery
      <4>3. CASE c = d
        <5>1. /\ delivery'[c].attempt = delivery[c].attempt
              /\ delivery'[c].status \in {"absent", "queued"} => Retries(w)
          BY <1>7, <2>2, <4>3, SettleFacts
        <5> QED BY <2>1, <3>2, <4>1, <4>2, <4>3, <5>1 DEF Retries
      <4>4. CASE c # d
        BY <1>7, <2>1, <2>2, <4>1, <4>4, SettleFacts
      <4> QED BY <4>3, <4>4
    <3> QED BY <3>3, <3>4 DEF BudgetInv
  <2>3. CASE ~Owns(w, d)
    <3>1. UNCHANGED delivery
      BY <1>7, <2>3 DEF CompleteNotificationDelivery, FailNotificationDelivery
    <3> QED BY <1>7, <2>1, <3>1, IdleFacts, BudgetKept
  <2> QED BY <2>2, <2>3
<1>8. ASSUME NEW w \in Workers, NEW rs \in SUBSET Destinations, Restart(w, rs)
      PROVE  BudgetInv'
  <2>1. UNCHANGED <<delivery, lost>>
    BY <1>8 DEF Restart
  <2> QED BY <1>8, <2>1, IdleFacts, BudgetKept
<1>9. ASSUME NEW e \in Events, EnqueueNotificationEvent(e)
      PROVE  BudgetInv'
  BY <1>9 DEF EnqueueNotificationEvent, BudgetInv, FenceIsAttempt, AttemptBudget,
              BudgetLeft, Sending, Owns
<1>10. ASSUME NEW d \in Deliveries, BecomeDue(d) \/ LeaseExpires(d) \/ LeaseLapses(d)
       PROVE  BudgetInv'
  <2>1. /\ UNCHANGED <<worker, lost>>
        /\ \A c \in Deliveries : /\ delivery'[c].status = delivery[c].status
                                 /\ delivery'[c].attempt = delivery[c].attempt
                                 /\ delivery'[c].owner = delivery[c].owner
    BY <1>10, ElapsedFacts
  <2>2. FenceIsAttempt'
    BY <2>1 DEF BudgetInv, FenceIsAttempt, Sending, Owns, TypeInv, TypeOK
  <2>3. AttemptBudget' /\ BudgetLeft'
    BY <2>1 DEF BudgetInv, AttemptBudget, BudgetLeft
  <2> QED BY <2>2, <2>3 DEF BudgetInv
<1>11. CASE UNCHANGED vars
  BY <1>11 DEF vars, BudgetInv, FenceIsAttempt, AttemptBudget, BudgetLeft, Sending, Owns
<1> QED BY <1>1, <1>2, <1>3, <1>4, <1>5, <1>6, <1>7, <1>8, <1>9, <1>10, <1>11
        DEF Next, WorkerStep, RunOnce

-----------------------------------------------------------------------------
(* Accepted requests are accounted for.                                    *)

ToRecord(w) == worker[w].pc = "settling" /\ worker[w].outcome = "ok"

LEMMA AccountingFacts ==
    ASSUME TypeInv, Accounting, NEW d \in Deliveries
    PROVE  /\ accepted[d] = (IF delivery[d].status = "succeeded" THEN 1 ELSE 0)
                            + unrecorded[d] + Cardinality(Settling(d))
           /\ accepted[d] \in Nat /\ unrecorded[d] \in Nat
           /\ IsFiniteSet(Settling(d)) /\ Cardinality(Settling(d)) \in Nat
<1>1. IsFiniteSet(Settling(d))
  BY DEF Accounting, SettlingFinite
<1>2. Cardinality(Settling(d)) \in Nat
  BY <1>1, FS_CardinalityType
<1>3. accepted[d] = (IF delivery[d].status = "succeeded" THEN 1 ELSE 0)
                    + unrecorded[d] + Cardinality(Settling(d))
  BY DEF Accounting, AcceptedAccounted, Settling
<1> QED BY <1>1, <1>2, <1>3 DEF TypeInv, TypeOK

LEMMA InitAccounting == Init => Accounting
<1> SUFFICES ASSUME Init, NEW d \in Deliveries
             PROVE  /\ accepted[d] = (IF delivery[d].status = "succeeded" THEN 1 ELSE 0)
                                     + unrecorded[d] + Cardinality(Settling(d))
                    /\ IsFiniteSet(Settling(d))
  BY DEF Accounting, AcceptedAccounted, SettlingFinite, Settling
<1>1. Settling(d) = {}
  BY RecordFacts DEF Init, Settling
<1>2. Cardinality(Settling(d)) = 0 /\ IsFiniteSet(Settling(d))
  BY <1>1, FS_EmptySet
<1> QED BY <1>2, RecordFacts DEF Init

LEMMA SettlingKept ==
    ASSUME NEW w \in Workers, ~ToRecord(w), ~ToRecord(w)',
           \A u \in Workers : u # w => worker'[u] = worker[u]
    PROVE  \A d \in Deliveries : Settling(d)' = Settling(d)
BY DEF Settling, ToRecord

LEMMA SettlingAdded ==
    ASSUME NEW w \in Workers, ~ToRecord(w), ToRecord(w)',
           \A u \in Workers : u # w => worker'[u] = worker[u]
    PROVE  \A d \in Deliveries :
               IF d = worker'[w].on
               THEN w \notin Settling(d) /\ Settling(d)' = Settling(d) \cup {w}
               ELSE Settling(d)' = Settling(d)
BY DEF Settling, ToRecord

LEMMA SettlingRemoved ==
    ASSUME NEW w \in Workers, ToRecord(w), ~ToRecord(w)',
           \A u \in Workers : u # w => worker'[u] = worker[u]
    PROVE  \A d \in Deliveries :
               IF d = worker[w].on
               THEN w \in Settling(d) /\ Settling(d)' = Settling(d) \ {w}
               ELSE Settling(d)' = Settling(d)
BY DEF Settling, ToRecord

\* A step that nobody's record of a success is involved in.
LEMMA AccountingKept ==
    ASSUME TypeInv, Accounting, UNCHANGED <<accepted, unrecorded>>,
           \A d \in Deliveries : Settling(d)' = Settling(d),
           \A d \in Deliveries : /\ delivery[d].status = "succeeded" =>
                                        delivery'[d].status = "succeeded"
                                 /\ delivery'[d].status = "succeeded" =>
                                        delivery[d].status = "succeeded"
    PROVE  Accounting'
<1> SUFFICES ASSUME NEW d \in Deliveries
             PROVE  /\ accepted'[d] = (IF delivery'[d].status = "succeeded" THEN 1 ELSE 0)
                                      + unrecorded'[d] + Cardinality(Settling(d)')
                    /\ IsFiniteSet(Settling(d)')
  BY DEF Accounting, AcceptedAccounted, SettlingFinite, Settling
<1> QED BY AccountingFacts

LEMMA AccountingStep == TypeInv /\ Accounting /\ [Next]_vars => Accounting'
<1> SUFFICES ASSUME TypeInv, Accounting, [Next]_vars PROVE Accounting'
    OBVIOUS
<1>1. ASSUME NEW w \in Workers, NEW e \in Events, AcquireNotificationEvent(w, e)
      PROVE  Accounting'
  <2>1. UNCHANGED <<delivery, accepted, unrecorded>>
    BY <1>1 DEF AcquireNotificationEvent
  <2>2. \A d \in Deliveries : Settling(d)' = Settling(d)
    BY <1>1, AcquireEventFacts, SettlingKept DEF ToRecord
  <2> QED BY <2>1, <2>2, AccountingKept
<1>2. ASSUME NEW w \in Workers, NoNotificationEvent(w)
      PROVE  Accounting'
  <2>1. UNCHANGED <<delivery, accepted, unrecorded>>
    BY <1>2 DEF NoNotificationEvent
  <2>2. \A d \in Deliveries : Settling(d)' = Settling(d)
    BY <1>2, ReadyFacts, SettlingKept DEF ToRecord
  <2> QED BY <2>1, <2>2, AccountingKept
<1>3. ASSUME NEW w \in Workers, ExpandNotificationEvent(w)
      PROVE  Accounting'
  <2>1. \A d \in Deliveries : Settling(d)' = Settling(d)
    BY <1>3, ReadyFacts, SettlingKept DEF ToRecord
  <2>2. ASSUME NEW d \in Deliveries
        PROVE  delivery'[d] = delivery[d] \/ (delivery[d].status = "absent"
                                              /\ delivery'[d].status = "queued")
    BY <1>3, ExpandFacts, RecordFacts DEF TypeInv, TypeOK
  <2>3. UNCHANGED <<accepted, unrecorded>>
    BY <1>3, ExpandFacts
  <2> QED BY <2>1, <2>2, <2>3, AccountingKept
<1>4. ASSUME NEW w \in Workers, NEW d \in Deliveries, AcquireNotificationDelivery(w, d)
      PROVE  Accounting'
  <2>1. UNCHANGED <<accepted, unrecorded>>
    BY <1>4 DEF AcquireNotificationDelivery
  <2>2. \A c \in Deliveries : Settling(c)' = Settling(c)
    BY <1>4, ClaimFacts, SettlingKept DEF ToRecord
  <2> QED BY <1>4, <2>1, <2>2, ClaimFacts, AccountingKept
<1>5. ASSUME NEW w \in Workers, NoNotificationDelivery(w)
      PROVE  Accounting'
  <2>1. UNCHANGED <<delivery, accepted, unrecorded>> /\ worker[w].pc = "ready"
    BY <1>5 DEF NoNotificationDelivery
  <2>2. \A d \in Deliveries : Settling(d)' = Settling(d)
    BY <1>5, <2>1, IdleFacts, SettlingKept DEF ToRecord
  <2> QED BY <2>1, <2>2, AccountingKept
<1>6. ASSUME NEW w \in Workers, SendAccepted(w)
      PROVE  Accounting'
  <2> SUFFICES ASSUME NEW d \in Deliveries
               PROVE  /\ accepted'[d] = (IF delivery'[d].status = "succeeded" THEN 1 ELSE 0)
                                        + unrecorded'[d] + Cardinality(Settling(d)')
                      /\ IsFiniteSet(Settling(d)')
    BY DEF Accounting, AcceptedAccounted, SettlingFinite, Settling
  <2>1. Reports(w, "ok") /\ UNCHANGED <<delivery, unrecorded>>
    BY <1>6 DEF SendAccepted
  <2>2. IF d = worker[w].on
        THEN w \notin Settling(d) /\ Settling(d)' = Settling(d) \cup {w}
        ELSE Settling(d)' = Settling(d)
    BY <2>1, ReportFacts, SettlingAdded DEF ToRecord
  <2>3. accepted'[d] = IF d = worker[w].on THEN accepted[d] + 1 ELSE accepted[d]
    BY <1>6 DEF SendAccepted, TypeInv, TypeOK
  <2>4. CASE d = worker[w].on
    <3>1. IsFiniteSet(Settling(d)') /\ Cardinality(Settling(d)') = Cardinality(Settling(d)) + 1
      BY <2>2, <2>4, AccountingFacts, FS_AddElement
    <3> QED BY <2>1, <2>3, <2>4, <3>1, AccountingFacts
  <2>5. CASE d # worker[w].on
    BY <2>1, <2>2, <2>3, <2>5, AccountingFacts
  <2> QED BY <2>4, <2>5
<1>7. ASSUME NEW w \in Workers, SendRefused(w)
      PROVE  Accounting'
  <2>1. UNCHANGED <<delivery, accepted, unrecorded>>
    BY <1>7 DEF SendRefused
  <2>2. PICK o \in {"retry", "permanent"} : Reports(w, o)
    BY <1>7 DEF SendRefused
  <2>3. \A d \in Deliveries : Settling(d)' = Settling(d)
    BY <2>2, ReportFacts, SettlingKept DEF ToRecord
  <2> QED BY <2>1, <2>3, AccountingKept
<1>8. ASSUME NEW w \in Workers, AnswerLost(w)
      PROVE  Accounting'
  <2> SUFFICES ASSUME NEW d \in Deliveries
               PROVE  /\ accepted'[d] = (IF delivery'[d].status = "succeeded" THEN 1 ELSE 0)
                                        + unrecorded'[d] + Cardinality(Settling(d)')
                      /\ IsFiniteSet(Settling(d)')
    BY DEF Accounting, AcceptedAccounted, SettlingFinite, Settling
  <2>1. Reports(w, "retry") /\ UNCHANGED delivery
    BY <1>8 DEF AnswerLost
  <2>2. Settling(d)' = Settling(d)
    BY <2>1, ReportFacts, SettlingKept DEF ToRecord
  <2>3. \/ accepted'[d] = accepted[d] + 1 /\ unrecorded'[d] = unrecorded[d] + 1
        \/ accepted'[d] = accepted[d] /\ unrecorded'[d] = unrecorded[d]
    BY <1>8 DEF AnswerLost, TypeInv, TypeOK
  <2> QED BY <2>1, <2>2, <2>3, AccountingFacts
<1>9. ASSUME NEW w \in Workers, CompleteNotificationDelivery(w)
      PROVE  Accounting'
  <2> SUFFICES ASSUME NEW d \in Deliveries
               PROVE  /\ accepted'[d] = (IF delivery'[d].status = "succeeded" THEN 1 ELSE 0)
                                        + unrecorded'[d] + Cardinality(Settling(d)')
                      /\ IsFiniteSet(Settling(d)')
    BY DEF Accounting, AcceptedAccounted, SettlingFinite, Settling
  <2>1. ToRecord(w) /\ UNCHANGED accepted
    BY <1>9 DEF CompleteNotificationDelivery, ToRecord
  <2>2. ~ToRecord(w)'
    BY <1>9, IdleFacts DEF ToRecord
  <2>3. \A u \in Workers : u # w => worker'[u] = worker[u]
    BY <1>9, IdleFacts
  <2>4. IF d = worker[w].on THEN w \in Settling(d) /\ Settling(d)' = Settling(d) \ {w}
                            ELSE Settling(d)' = Settling(d)
    BY <2>1, <2>2, <2>3, SettlingRemoved
  <2>5. CASE d = worker[w].on
    <3>1. IsFiniteSet(Settling(d)') /\ Cardinality(Settling(d)') = Cardinality(Settling(d)) - 1
      BY <2>4, <2>5, AccountingFacts, FS_RemoveElement
    <3>2. CASE Owns(w, d)
      <4>1. delivery[d].status = "running" /\ delivery'[d].status = "succeeded"
        BY <1>9, <2>1, <2>5, <3>2, SettleFacts DEF Owns, ToRecord
      <4>2. UNCHANGED unrecorded
        BY <1>9, <2>5, <3>2 DEF CompleteNotificationDelivery
      <4> QED BY <2>1, <3>1, <4>1, <4>2, AccountingFacts
    <3>3. CASE ~Owns(w, d)
      <4>1. UNCHANGED delivery /\ unrecorded'[d] = unrecorded[d] + 1
        BY <1>9, <2>5, <3>3 DEF CompleteNotificationDelivery, TypeInv, TypeOK
      <4> QED BY <2>1, <3>1, <4>1, AccountingFacts
    <3> QED BY <3>2, <3>3
  <2>6. CASE d # worker[w].on
    <3>1. CASE Owns(w, worker[w].on)
      <4>1. delivery'[d] = delivery[d] /\ unrecorded'[d] = unrecorded[d]
        BY <1>9, <2>6, <3>1, SettleFacts DEF CompleteNotificationDelivery
      <4> QED BY <2>1, <2>4, <2>6, <4>1, AccountingFacts
    <3>2. CASE ~Owns(w, worker[w].on)
      <4>1. UNCHANGED delivery /\ unrecorded'[d] = unrecorded[d]
        BY <1>9, <2>6, <3>2 DEF CompleteNotificationDelivery, TypeInv, TypeOK
      <4> QED BY <2>1, <2>4, <2>6, <4>1, AccountingFacts
    <3> QED BY <3>1, <3>2
  <2> QED BY <2>5, <2>6
<1>10. ASSUME NEW w \in Workers, FailNotificationDelivery(w)
       PROVE  Accounting'
  <2>1. UNCHANGED <<accepted, unrecorded>> /\ worker[w].outcome # "ok"
    BY <1>10 DEF FailNotificationDelivery
  <2>2. \A d \in Deliveries : Settling(d)' = Settling(d)
    BY <1>10, <2>1, IdleFacts, SettlingKept DEF ToRecord
  <2>3. CASE Owns(w, worker[w].on)
    <3>1. /\ delivery[worker[w].on].status = "running"
          /\ delivery'[worker[w].on].status # "succeeded"
      BY <1>10, <2>1, <2>3, SettleFacts DEF Owns
    <3> QED BY <1>10, <2>1, <2>2, <2>3, <3>1, SettleFacts, AccountingKept
  <2>4. CASE ~Owns(w, worker[w].on)
    <3>1. UNCHANGED delivery
      BY <1>10, <2>4 DEF FailNotificationDelivery
    <3> QED BY <2>1, <2>2, <3>1, AccountingKept
  <2> QED BY <2>3, <2>4
<1>11. ASSUME NEW w \in Workers, NEW rs \in SUBSET Destinations, Restart(w, rs)
       PROVE  Accounting'
  <2>1. UNCHANGED <<delivery, accepted>>
    BY <1>11 DEF Restart
  <2>2. ~ToRecord(w)' /\ \A u \in Workers : u # w => worker'[u] = worker[u]
    BY <1>11, IdleFacts DEF ToRecord
  <2>3. CASE ~ToRecord(w)
    <3>1. UNCHANGED unrecorded
      BY <1>11, <2>3 DEF Restart, ToRecord, TypeInv, OutcomeHeld
    <3>2. \A d \in Deliveries : Settling(d)' = Settling(d)
      BY <2>2, <2>3, SettlingKept
    <3> QED BY <2>1, <3>1, <3>2, AccountingKept
  <2>4. CASE ToRecord(w)
    <3> SUFFICES ASSUME NEW d \in Deliveries
                 PROVE  /\ accepted'[d] = (IF delivery'[d].status = "succeeded" THEN 1 ELSE 0)
                                          + unrecorded'[d] + Cardinality(Settling(d)')
                        /\ IsFiniteSet(Settling(d)')
      BY DEF Accounting, AcceptedAccounted, SettlingFinite, Settling
    <3>1. IF d = worker[w].on THEN w \in Settling(d) /\ Settling(d)' = Settling(d) \ {w}
                              ELSE Settling(d)' = Settling(d)
      BY <2>2, <2>4, SettlingRemoved
    <3>2. unrecorded'[d] = IF d = worker[w].on THEN unrecorded[d] + 1 ELSE unrecorded[d]
      BY <1>11, <2>4 DEF Restart, ToRecord, TypeInv, TypeOK
    <3>3. CASE d = worker[w].on
      <4>1. IsFiniteSet(Settling(d)') /\ Cardinality(Settling(d)') = Cardinality(Settling(d)) - 1
        BY <3>1, <3>3, AccountingFacts, FS_RemoveElement
      <4> QED BY <2>1, <3>2, <3>3, <4>1, AccountingFacts
    <3>4. CASE d # worker[w].on
      BY <2>1, <3>1, <3>2, <3>4, AccountingFacts
    <3> QED BY <3>3, <3>4
  <2> QED BY <2>3, <2>4
<1>12. ASSUME NEW e \in Events, EnqueueNotificationEvent(e)
       PROVE  Accounting'
  BY <1>12, AccountingKept DEF EnqueueNotificationEvent, Settling
<1>13. ASSUME NEW d \in Deliveries, BecomeDue(d) \/ LeaseExpires(d) \/ LeaseLapses(d)
       PROVE  Accounting'
  <2>1. \A c \in Deliveries : Settling(c)' = Settling(c)
    BY <1>13, ElapsedFacts DEF Settling
  <2> QED BY <1>13, <2>1, ElapsedFacts, AccountingKept
<1>14. CASE UNCHANGED vars
  BY <1>14, AccountingKept DEF vars, Settling
<1> QED BY <1>1, <1>2, <1>3, <1>4, <1>5, <1>6, <1>7, <1>8, <1>9, <1>10, <1>11, <1>12,
           <1>13, <1>14 DEF Next, WorkerStep, RunOnce

-----------------------------------------------------------------------------
(* The expansion of an event is the snapshot of one configuration.         *)

\* Destinations are added and removed by an expansion of a pending event only.
LEMMA RoutedKept ==
    ASSUME TypeInv, NEW e \in Events, UNCHANGED event,
           \A d \in Deliveries : /\ delivery[d].status = "absent" =>
                                        delivery'[d].status = "absent"
                                 /\ delivery'[d].status = "absent" =>
                                        delivery[d].status = "absent"
    PROVE  event'[e] = event[e] /\ Routed(e)' = Routed(e)
<1>1. \A x \in Destinations : <<e, x>> \in Deliveries
  BY DEF Deliveries
<1> QED BY <1>1 DEF Routed

SnapshotStep ==
    \A e \in Events :
        /\ event[e] \in {"expanded", "skipped"} =>
               event'[e] = event[e] /\ Routed(e)' = Routed(e)
        /\ event[e] = "pending" /\ event'[e] # "pending" =>
               \E w \in Workers : worker[w].event = e /\ Routed(e)' = worker[w].targets

LEMMA SnapshotNext == TypeInv /\ [Next]_vars => SnapshotStep
<1> SUFFICES ASSUME TypeInv, [Next]_vars, NEW e \in Events
             PROVE  /\ event[e] \in {"expanded", "skipped"} =>
                           event'[e] = event[e] /\ Routed(e)' = Routed(e)
                    /\ event[e] = "pending" /\ event'[e] # "pending" =>
                           \E w \in Workers : worker[w].event = e
                                              /\ Routed(e)' = worker[w].targets
  BY DEF SnapshotStep
<1> DEFINE Kept == event'[e] = event[e] /\ Routed(e)' = Routed(e)
<1>1. ASSUME NEW w \in Workers, ExpandNotificationEvent(w)
      PROVE  IF e = worker[w].event /\ event[e] = "pending"
             THEN Routed(e)' = worker[w].targets
             ELSE Kept
  <2>1. \A x \in Destinations : <<e, x>> \in Deliveries
    BY DEF Deliveries
  <2>2. worker[w].targets \subseteq Destinations
    BY DEF TypeInv, TypeOK, Worker
  <2>3. CASE e = worker[w].event /\ event[e] = "pending"
    <3>1. \A x \in Destinations : delivery[<<e, x>>].status = "absent"
      BY <2>1, <2>3 DEF TypeInv, TypeOK
    <3>2. \A x \in Destinations : IF x \in worker[w].targets
                                  THEN delivery'[<<e, x>>] = Queued
                                  ELSE delivery'[<<e, x>>] = delivery[<<e, x>>]
      BY <1>1, <2>1, <2>3, ExpandFacts
    <3> QED BY <2>2, <2>3, <3>1, <3>2, RecordFacts DEF Routed
  <2>4. CASE ~(e = worker[w].event /\ event[e] = "pending")
    <3>1. \A x \in Destinations : delivery'[<<e, x>>] = delivery[<<e, x>>]
      BY <1>1, <2>1, <2>4, ExpandFacts
    <3>2. event'[e] = event[e]
      BY <1>1, <2>4, ExpandFacts
    <3> QED BY <2>4, <3>1, <3>2 DEF Routed
  <2> QED BY <2>3, <2>4
<1>2. ASSUME NEW w \in Workers, NEW d \in Deliveries, AcquireNotificationDelivery(w, d)
      PROVE  Kept
  <2>1. UNCHANGED event
    BY <1>2 DEF AcquireNotificationDelivery
  <2> QED BY <1>2, <2>1, ClaimFacts, RoutedKept
<1>3. ASSUME NEW w \in Workers,
             CompleteNotificationDelivery(w) \/ FailNotificationDelivery(w)
      PROVE  Kept
  <2>1. UNCHANGED event
    BY <1>3 DEF CompleteNotificationDelivery, FailNotificationDelivery
  <2>2. CASE Owns(w, worker[w].on)
    <3>1. /\ delivery[worker[w].on].status # "absent"
          /\ delivery'[worker[w].on].status # "absent"
      BY <1>3, <2>2, SettleFacts DEF Owns
    <3> QED BY <1>3, <2>1, <2>2, <3>1, SettleFacts, RoutedKept
  <2>3. CASE ~Owns(w, worker[w].on)
    <3>1. UNCHANGED delivery
      BY <1>3, <2>3 DEF CompleteNotificationDelivery, FailNotificationDelivery
    <3> QED BY <2>1, <3>1, RoutedKept
  <2> QED BY <2>2, <2>3
<1>4. ASSUME NEW f \in Events, EnqueueNotificationEvent(f)
      PROVE  /\ event[e] # "absent" => event'[e] = event[e]
             /\ Routed(e)' = Routed(e)
  BY <1>4 DEF EnqueueNotificationEvent, Routed, TypeInv, TypeOK
<1>5. ASSUME NEW d \in Deliveries, BecomeDue(d) \/ LeaseExpires(d) \/ LeaseLapses(d)
      PROVE  Kept
  BY <1>5, ElapsedFacts, RoutedKept
<1>6. ASSUME UNCHANGED <<event, delivery>>
      PROVE  Kept
  BY <1>6 DEF Routed
<1>7. ASSUME NEW w \in Workers,
             \/ \E f \in Events : AcquireNotificationEvent(w, f)
             \/ NoNotificationEvent(w) \/ NoNotificationDelivery(w)
             \/ SendAccepted(w) \/ SendRefused(w) \/ AnswerLost(w)
             \/ \E rs \in SUBSET Destinations : Restart(w, rs)
      PROVE  Kept
  <2>1. UNCHANGED <<event, delivery>>
    BY <1>7 DEF AcquireNotificationEvent, NoNotificationEvent, NoNotificationDelivery,
                SendAccepted, SendRefused, AnswerLost, Restart
  <2> QED BY <1>6, <2>1
<1>8. UNCHANGED vars => Kept
  BY <1>6 DEF vars
<1>9. CASE Kept
  BY <1>9
<1>10. CASE \E w \in Workers : ExpandNotificationEvent(w)
  BY <1>1, <1>10
<1>11. CASE \E f \in Events : EnqueueNotificationEvent(f)
  BY <1>4, <1>11
<1> HIDE DEF Kept
<1> QED BY <1>2, <1>3, <1>5, <1>7, <1>8, <1>9, <1>10, <1>11 DEF Next, WorkerStep, RunOnce

-----------------------------------------------------------------------------
(* The theorems.                                                           *)

LEMMA Invariance == Spec => [](TypeInv /\ BudgetInv /\ Accounting)
<1>1. Init => TypeInv /\ BudgetInv /\ Accounting
  BY InitType, InitBudget, InitAccounting
<1>2. TypeInv /\ BudgetInv /\ Accounting /\ [Next]_vars
          => (TypeInv /\ BudgetInv /\ Accounting)'
  BY TypeStep, BudgetStep, AccountingStep
<1> QED BY <1>1, <1>2, PTL DEF Spec

\* Rows, workers and counters keep their types in every behaviour, and a
\* delivery exists only for an event that was expanded
\* (ExpandNotificationEvent).
THEOREM TypeCorrect == Spec => []TypeOK
BY Invariance, PTL DEF TypeInv

\* A worker whose settling statement matches a row (id, status 'running' and
\* lease_owner) holds the newest claim of the delivery, however often the lease
\* lapsed and was taken over: the attempt number it decides by is the row's.
THEOREM FenceSound == Spec => []FenceIsAttempt
BY Invariance, PTL DEF BudgetInv

\* max_attempts bounds the claims of a delivery, counting out the claims lost to
\* an expired lease: the limit FailNotificationDelivery alone checks is enough.
THEOREM BudgetHolds == Spec => []AttemptBudget
BY Invariance, PTL DEF BudgetInv

\* Every request a provider accepted is recorded once, about to be recorded, or
\* lost to a counted fault: CompleteNotificationDelivery never counts one twice.
THEOREM NothingUnaccounted == Spec => []AcceptedAccounted
BY Invariance, PTL DEF Accounting

\* An event's destinations are those of one worker's configuration at the moment
\* it was expanded, and nothing changes them afterwards.
THEOREM SnapshotTaken == Spec => RoutesSnapshot
<1>1. TypeInv /\ [Next]_vars => [SnapshotStep]_vars
  BY SnapshotNext
<1>2. RoutesSnapshot <=> [][SnapshotStep]_vars
  BY DEF RoutesSnapshot, SnapshotStep
<1> QED BY Invariance, <1>1, <1>2, PTL DEF Spec
=============================================================================
