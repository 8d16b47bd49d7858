--------------------------- MODULE TriggersProofs ---------------------------
(***************************************************************************)
(* Proofs about Triggers for any revisions, triggers, periods, deliveries, *)
(* messages, senders and instants.                                         *)
(***************************************************************************)
EXTENDS Triggers, FiniteSetTheorems, TLAPS

Ext == {"none"} \cup UNION {ExternalID(d) : d \in Deliveries}

Request == [pc : {"idle", "checked", "selected"}, trigger : Triggers \cup {"none"},
            ext : Ext, revision : Revisions \cup {NoRevision}]

Subscription == [pc : {"off", "open", "selected"}, pos : Nat,
                 revision : Revisions \cup {NoRevision}]

-----------------------------------------------------------------------------
(* The inductive invariant.                                                *)

Scalars ==
    /\ clock \in 0 .. Horizon
    /\ enabled \in BOOLEAN
    /\ topic \in 0 .. Messages
    /\ requests \in 0 .. MaxRequests
    /\ faults \in 0 .. MaxFaults
    /\ paused \subseteq 1 .. Horizon

\* replaceTriggers leaves the rows of the active revision and no others.
RowsInv ==
    /\ active \in Revisions
    /\ row \in [Triggers -> Row]
    /\ \A t \in Triggers : row[t].revision = active /\ (row[t].enabled <=> t \in Enables[active])

\* What a request or a stream has selected, an activation may have replaced
\* since; the revision it selected declares the trigger all the same.
RequestInv(s) ==
    /\ request[s].pc # "idle" =>
          request[s].trigger \in Triggers /\ TypeOf[request[s].trigger] # "schedule"
    /\ request[s].pc = "selected" => /\ request[s].revision \in Revisions
                                     /\ request[s].trigger \in Enables[request[s].revision]

RequestsInv == request \in [Senders -> Request] /\ \A s \in Senders : RequestInv(s)

StreamInv(k) ==
    /\ sub[k].pos <= topic
    /\ sub[k].pc = "selected" => /\ sub[k].revision \in Revisions
                                 /\ k[1] \in Enables[sub[k].revision]
                                 /\ sub[k].pos < topic

StreamsInv == sub \in [Keys -> Subscription] /\ \A k \in Keys : StreamInv(k)

RunsInv ==
    /\ \A r \in runs : /\ r.trigger \in Triggers \cup {"manual"}
                       /\ r.revision \in Revisions
                       /\ r.serial \in Nat
    /\ OneRunPerEvent
    /\ RunFitsRevision

Inv == Scalars /\ RowsInv /\ RequestsInv /\ StreamsInv /\ RunsInv

Scheduled(t) == TypeOf[t] = "schedule" /\ row[t].enabled

\* The row of a schedule: next_fire_at lies behind the instant it was calculated
\* at, nothing in between is missing, and the pauses were over by then.
ScheduleRow(t) ==
    /\ row[t].next > 0 => Scheduled(t)
    /\ Scheduled(t) =>
          /\ row[t].since < row[t].next /\ row[t].since <= clock
          /\ \A i \in row[t].since + 1 .. row[t].next - 1 :
                 i % Period[row[t].revision] = 0 => RunsOf(t, i) # {}
          /\ enabled => \A i \in paused : i <= row[t].since

\* The run of an occurrence: of the past, of no pause, before next_fire_at.
ScheduledRun(r) ==
    r.trigger \in Triggers /\ TypeOf[r.trigger] = "schedule" =>
        /\ r.ext \in Nat /\ r.ext <= clock /\ r.ext \notin paused
        /\ row[r.trigger].next > 0 => r.ext < row[r.trigger].next

ScheduleInv ==
    /\ paused \subseteq 1 .. clock
    /\ \A t \in Triggers : ScheduleRow(t)
    /\ \A r \in runs : ScheduledRun(r)

-----------------------------------------------------------------------------
(* The next occurrence of a schedule.                                      *)

LEMMA Remainder ==
    ASSUME NEW p \in Nat, p > 0, NEW i \in Int
    PROVE  i % p = i - p * (i \div p)
OBVIOUS

LEMMA Multiples ==
    ASSUME NEW p \in Nat \ {0}, NEW a \in Int, NEW b \in Int, p * a < p * b
    PROVE  a + 1 <= b
<1>1. CASE b <= a
  <2>1. p * (a - b) >= 0
    BY <1>1
  <2>2. p * (a - b) = p * a - p * b
    OBVIOUS
  <2> QED BY <2>1, <2>2
<1> QED BY <1>1

\* The next occurrence comes after t, and there is none in between.
LEMMA NextScheduleFacts ==
    ASSUME NEW v \in Revisions, NEW t \in Nat
    PROVE  /\ NextSchedule(v, t) \in Nat /\ NextSchedule(v, t) > t
           /\ \A i \in t + 1 .. NextSchedule(v, t) - 1 : i % Period[v] # 0
<1> PICK p \in Nat \ {0} : p = Period[v]
  BY TriggerAssumption
<1> PICK k \in Int : k = t \div p
  OBVIOUS
<1>1. p * k <= t /\ t < p * k + p /\ k >= 0
  OBVIOUS
<1>2. NextSchedule(v, t) = (k + 1) * p
  BY DEF NextSchedule
<1>3. (k + 1) * p = p * k + p /\ p * (k + 1) = p * k + p
  OBVIOUS
<1>4. (k + 1) * p \in Nat
  BY <1>1, <1>3
<1>5. ASSUME NEW i \in t + 1 .. (k + 1) * p - 1, i % p = 0
      PROVE  FALSE
  <2>0. i \in Int /\ i > t /\ i < p * (k + 1)
    BY <1>3, <1>4
  <2> PICK m \in Int : m = i \div p
    BY <2>0
  <2>1. i = p * m
    <3>1. i % p = i - p * (i \div p)
      <4>1. p \in Nat /\ p > 0
        OBVIOUS
      <4> QED BY <2>0, <4>1, Remainder, Zenon
    <3>2. p * m \in Int
      OBVIOUS
    <3> QED BY <1>5, <3>1, <3>2
  <2>2. p * k < p * m /\ p * m < p * (k + 1) /\ k + 1 \in Int
    BY <1>1, <2>0, <2>1
  <2>3. k + 1 <= m
    BY <2>2, Multiples
  <2>4. m + 1 <= k + 1
    BY <2>2, Multiples
  <2> QED BY <2>3, <2>4
<1> QED BY <1>1, <1>2, <1>3, <1>4, <1>5

-----------------------------------------------------------------------------
(* Rows, requests and runs.                                                *)

LEMMA Blank ==
    /\ Idle \in Request /\ Idle.pc = "idle"
    /\ Off \in Subscription /\ Off.pc = "off" /\ Off.pos = 0
BY DEF Idle, Off, Request, Subscription, Ext

LEMMA ReplaceFacts ==
    ASSUME NEW v \in Revisions, clock \in Nat
    PROVE  /\ ReplaceTriggers(v) \in [Triggers -> Row]
           /\ \A t \in Triggers :
                /\ ReplaceTriggers(v)[t].revision = v
                /\ ReplaceTriggers(v)[t].enabled <=> t \in Enables[v]
                /\ ReplaceTriggers(v)[t].next > 0 => TypeOf[t] = "schedule" /\ t \in Enables[v]
                /\ TypeOf[t] = "schedule" /\ t \in Enables[v] =>
                      /\ ReplaceTriggers(v)[t].next = NextSchedule(v, clock)
                      /\ ReplaceTriggers(v)[t].since = clock
<1>1. NextSchedule(v, clock) \in Nat
  BY NextScheduleFacts
<1>2. ASSUME NEW t \in Triggers
      PROVE  [revision |-> v, enabled |-> t \in Enables[v],
              next |-> IF TypeOf[t] = "schedule" /\ t \in Enables[v]
                       THEN NextSchedule(v, clock) ELSE 0,
              since |-> IF TypeOf[t] = "schedule" THEN clock ELSE 0] \in Row
  BY <1>1 DEF Row
<1>3. ReplaceTriggers(v) \in [Triggers -> Row]
  BY <1>2 DEF ReplaceTriggers
<1>4. ASSUME NEW t \in Triggers
      PROVE  /\ ReplaceTriggers(v)[t].revision = v
             /\ ReplaceTriggers(v)[t].enabled <=> t \in Enables[v]
             /\ ReplaceTriggers(v)[t].next > 0 => TypeOf[t] = "schedule" /\ t \in Enables[v]
             /\ TypeOf[t] = "schedule" /\ t \in Enables[v] =>
                   /\ ReplaceTriggers(v)[t].next = NextSchedule(v, clock)
                   /\ ReplaceTriggers(v)[t].since = clock
  <2>1. ReplaceTriggers(v)[t] =
            [revision |-> v, enabled |-> t \in Enables[v],
             next |-> IF TypeOf[t] = "schedule" /\ t \in Enables[v]
                      THEN NextSchedule(v, clock) ELSE 0,
             since |-> IF TypeOf[t] = "schedule" THEN clock ELSE 0]
    BY DEF ReplaceTriggers
  <2>2. /\ ReplaceTriggers(v)[t].revision = v
        /\ ReplaceTriggers(v)[t].enabled = (t \in Enables[v])
        /\ ReplaceTriggers(v)[t].next = IF TypeOf[t] = "schedule" /\ t \in Enables[v]
                                        THEN NextSchedule(v, clock) ELSE 0
        /\ ReplaceTriggers(v)[t].since = IF TypeOf[t] = "schedule" THEN clock ELSE 0
    <3> DEFINE x == IF TypeOf[t] = "schedule" /\ t \in Enables[v]
                    THEN NextSchedule(v, clock) ELSE 0
               y == IF TypeOf[t] = "schedule" THEN clock ELSE 0
               b == t \in Enables[v]
    <3>1. ReplaceTriggers(v)[t] = [revision |-> v, enabled |-> b, next |-> x, since |-> y]
      BY <2>1
    <3> HIDE DEF x, y, b
    <3>2. /\ ReplaceTriggers(v)[t].revision = v /\ ReplaceTriggers(v)[t].enabled = b
          /\ ReplaceTriggers(v)[t].next = x /\ ReplaceTriggers(v)[t].since = y
      BY <3>1
    <3> QED BY <3>2 DEF x, y, b
  <2>3. ReplaceTriggers(v)[t].next > 0 => TypeOf[t] = "schedule" /\ t \in Enables[v]
    BY <2>2
  <2> QED BY <2>2, <2>3, Zenon
<1> QED BY <1>3, <1>4

\* A run that may be added: of an event that has none, of a revision that wants it.
Fresh(r) ==
    /\ r.trigger \in Triggers \cup {"manual"} /\ r.revision \in Revisions /\ r.serial \in Nat
    /\ RunsOf(r.trigger, r.ext) = {}
    /\ IF r.trigger = "manual" THEN r.expected \in {NoRevision, r.revision}
       ELSE r.trigger \in Enables[r.revision]

LEMMA RunsAdded ==
    ASSUME RunsInv, NEW new, runs' = runs \cup new, \A r \in new : Fresh(r),
           \A r1, r2 \in new : r1.trigger = r2.trigger /\ r1.ext = r2.ext => r1 = r2
    PROVE  RunsInv'
<1>1. \A r \in runs, n \in new : ~(r.trigger = n.trigger /\ r.ext = n.ext)
  BY DEF Fresh, RunsOf
<1>2. OneRunPerEvent'
  BY <1>1 DEF RunsInv, OneRunPerEvent
<1>3. RunFitsRevision'
  BY DEF RunsInv, RunFitsRevision, Fresh
<1> QED BY <1>2, <1>3 DEF RunsInv, Fresh

LEMMA NewRunFacts ==
    ASSUME NEW t, NEW ext, NEW v, RunsOf(t, ext) = {}
    PROVE  /\ NewRun(t, ext, v).trigger = t /\ NewRun(t, ext, v).ext = ext
           /\ NewRun(t, ext, v).revision = v /\ NewRun(t, ext, v).serial = 0
           /\ NewRun(t, ext, v).expected = NoRevision
BY FS_EmptySet DEF NewRun

LEMMA EnqueueFacts ==
    ASSUME NEW t \in Triggers, NEW ext, NEW v \in Revisions, t \in Enables[v]
    PROVE  \A r \in Enqueue(t, ext, v) :
               Fresh(r) /\ r.trigger = t /\ r.ext = ext /\ r = NewRun(t, ext, v)
<1> SUFFICES ASSUME NEW r \in Enqueue(t, ext, v)
             PROVE  Fresh(r) /\ r.trigger = t /\ r.ext = ext /\ r = NewRun(t, ext, v)
  OBVIOUS
<1>1. RunsOf(t, ext) = {} /\ r = NewRun(t, ext, v)
  BY DEF Enqueue
<1>2. /\ r.trigger = t /\ r.ext = ext /\ r.revision = v /\ r.serial = 0
      /\ r.expected = NoRevision
  BY <1>1, NewRunFacts
<1> QED BY <1>1, <1>2 DEF Fresh

LEMMA EnqueueStep ==
    ASSUME RunsInv, NEW t \in Triggers, NEW ext, NEW v \in Revisions, t \in Enables[v],
           runs' = runs \cup Enqueue(t, ext, v)
    PROVE  RunsInv'
BY EnqueueFacts, RunsAdded

LEMMA InitInv == Init => Inv
<1> SUFFICES ASSUME Init PROVE Inv
    OBVIOUS
<1>0. clock = 0 /\ clock \in Nat /\ active \in Revisions
  BY DEF Init
<1>1. Scalars
  BY TriggerAssumption DEF Init, Scalars
<1>2. RowsInv
  BY <1>0, ReplaceFacts DEF Init, RowsInv
<1>3. RequestsInv
  BY Blank DEF Init, RequestsInv, RequestInv
<1>4. StreamsInv
  BY Blank DEF Init, StreamsInv, StreamInv
<1>5. RunsInv
  BY DEF Init, RunsInv, OneRunPerEvent, RunFitsRevision
<1> QED BY <1>1, <1>2, <1>3, <1>4, <1>5 DEF Inv

\* A trigger that is ingestible is one the active revision declares.
LEMMA IngestibleFacts ==
    ASSUME RowsInv, NEW t \in Triggers, Ingestible(t)
    PROVE  t \in Enables[active] /\ active \in Revisions
BY DEF RowsInv, Ingestible

-----------------------------------------------------------------------------
(* Every step keeps Inv.                                                   *)

LEMMA TickStep == ASSUME Inv, Tick PROVE Inv'
<1>1. Scalars'
  <2>1. clock \in 0 .. Horizon /\ clock < Horizon /\ clock' = clock + 1
    BY DEF Inv, Scalars, Tick
  <2>2. clock + 1 \in 0 .. Horizon /\ clock + 1 \in 1 .. Horizon
    BY <2>1, TriggerAssumption
  <2>3. paused' \subseteq 1 .. Horizon
    BY <2>2 DEF Inv, Scalars, Tick
  <2> QED BY <2>1, <2>2, <2>3 DEF Inv, Scalars, Tick
<1>2. RowsInv' /\ RequestsInv'
  BY DEF Tick, Inv, RowsInv, RequestsInv, RequestInv
<1>3. StreamsInv' /\ RunsInv'
  BY DEF Tick, Inv, StreamsInv, StreamInv, RunsInv, OneRunPerEvent, RunFitsRevision
<1> QED BY <1>1, <1>2, <1>3 DEF Inv

LEMMA ActivateStep ==
    ASSUME Inv, NEW v \in Revisions, Deploy(v) \/ RollbackAutomation(v)
    PROVE  Inv'
<1>1. /\ row' = ReplaceTriggers(v) /\ active' = v
      /\ UNCHANGED <<clock, enabled, runs, request, sub, topic, requests, faults, paused>>
  BY DEF Deploy, RollbackAutomation
<1>2. clock \in Nat
  BY DEF Inv, Scalars
<1>3. RowsInv'
  BY <1>1, <1>2, ReplaceFacts DEF RowsInv
<1>4. Scalars' /\ RequestsInv'
  BY <1>1 DEF Inv, Scalars, RequestsInv, RequestInv
<1>5. StreamsInv' /\ RunsInv'
  BY <1>1 DEF Inv, StreamsInv, StreamInv, RunsInv, OneRunPerEvent, RunFitsRevision
<1> QED BY <1>3, <1>4, <1>5 DEF Inv

LEMMA PauseStep ==
    ASSUME Inv, NEW on \in BOOLEAN, SetAutomationEnabled(on)
    PROVE  Inv'
<1>1. /\ clock \in Nat
      /\ UNCHANGED <<clock, active, runs, request, sub, topic, requests, faults, paused>>
  <2>1. UNCHANGED <<clock, active, runs, request, sub, topic, requests, faults, paused>>
    BY DEF SetAutomationEnabled
  <2>2. clock \in Nat
    BY DEF Inv, Scalars
  <2> QED BY <2>1, <2>2
<1>2. RowsInv'
  <2>1. ASSUME NEW t \in Triggers
        PROVE  /\ row'[t] \in Row /\ row'[t].revision = row[t].revision
               /\ row'[t].enabled = row[t].enabled
    <3>1. row[t] \in Row /\ row[t].revision \in Revisions
      BY DEF Inv, RowsInv, Row
    <3>2. NextSchedule(row[t].revision, clock) \in Nat
      BY <1>1, <3>1, NextScheduleFacts
    <3>3. row'[t] = row[t] \/ row'[t] = [row[t] EXCEPT !.next = NextSchedule(row[t].revision, clock),
                                                       !.since = clock]
      BY DEF SetAutomationEnabled
    <3> QED BY <1>1, <3>1, <3>2, <3>3 DEF Row
  <2>2. row' \in [Triggers -> Row]
    <3>1. row' = [t \in Triggers |-> row'[t]]
      BY DEF SetAutomationEnabled
    <3> QED BY <2>1, <3>1
  <2> QED BY <1>1, <2>1, <2>2 DEF Inv, RowsInv
<1>3. Scalars'
  BY <1>1 DEF Inv, Scalars, SetAutomationEnabled
<1>4. RequestsInv' /\ StreamsInv'
  BY <1>1 DEF Inv, RequestsInv, RequestInv, StreamsInv, StreamInv
<1>5. RunsInv'
  BY <1>1 DEF Inv, RunsInv, OneRunPerEvent, RunFitsRevision
<1> QED BY <1>2, <1>3, <1>4, <1>5 DEF Inv

LEMMA SchedulesStep == ASSUME Inv, EnqueueDueSchedules PROVE Inv'
<1>0. UNCHANGED <<clock, active, enabled, request, sub, topic, requests, faults, paused>>
  BY DEF EnqueueDueSchedules
<1>1. RowsInv'
  <2>1. ASSUME NEW t \in Triggers
        PROVE  /\ row'[t] \in Row /\ row'[t].revision = row[t].revision
               /\ row'[t].enabled = row[t].enabled
    <3>1. row[t] \in Row /\ row[t].revision \in Revisions /\ row[t].next \in Nat
      BY DEF Inv, RowsInv, Row
    <3>2. NextOf(t) \in Nat
      BY <3>1, NextScheduleFacts DEF NextOf
    <3>3. row'[t] = row[t] \/ row'[t] = [row[t] EXCEPT !.next = NextOf(t)]
      BY DEF EnqueueDueSchedules
    <3> QED BY <3>1, <3>2, <3>3 DEF Row
  <2>2. row' \in [Triggers -> Row]
    <3>1. row' = [t \in Triggers |-> row'[t]]
      BY DEF EnqueueDueSchedules
    <3> QED BY <2>1, <3>1
  <2> QED BY <1>0, <2>1, <2>2 DEF Inv, RowsInv
<1>2. RunsInv'
  <2> DEFINE due == {t \in Triggers : Due(t)}
             new == UNION {Enqueue(t, row[t].next, row[t].revision) : t \in due}
  <2>1. runs' = runs \cup new
    BY DEF EnqueueDueSchedules
  <2>2. \A t \in due : t \in Triggers /\ row[t].revision \in Revisions /\ t \in Enables[row[t].revision]
    BY DEF Inv, RowsInv, Due
  <2>3. \A r \in new : /\ Fresh(r) /\ r.trigger \in due
                       /\ r = NewRun(r.trigger, row[r.trigger].next, row[r.trigger].revision)
    BY <2>2, EnqueueFacts
  <2>4. \A r1, r2 \in new : r1.trigger = r2.trigger /\ r1.ext = r2.ext => r1 = r2
    BY <2>3
  <2> HIDE DEF new
  <2> QED BY <2>1, <2>3, <2>4, RunsAdded DEF Inv
<1>3. Scalars' /\ RequestsInv' /\ StreamsInv'
  BY <1>0 DEF Inv, Scalars, RequestsInv, RequestInv, StreamsInv, StreamInv
<1> QED BY <1>1, <1>2, <1>3 DEF Inv

\* A request goes on; nothing else moves but the counters and the runs.
LEMMA RequestStep ==
    ASSUME Inv, NEW s \in Senders, NEW next \in Request,
           request' = [request EXCEPT ![s] = next], RequestInv(s)'
    PROVE  RequestsInv'
<1>1. \A r \in Senders : r # s => request'[r] = request[r]
  BY DEF Inv, RequestsInv
<1>2. request' \in [Senders -> Request]
  BY DEF Inv, RequestsInv
<1>3. \A r \in Senders : r # s => RequestInv(r)'
  BY <1>1 DEF Inv, RequestsInv, RequestInv
<1> QED BY <1>2, <1>3 DEF RequestsInv

LEMMA CheckStep ==
    ASSUME Inv, NEW s \in Senders, NEW d \in Deliveries, CheckIngress(s, d)
    PROVE  Inv'
<1>0. UNCHANGED <<clock, active, enabled, row, runs, sub, topic, faults, paused>>
  BY DEF CheckIngress
<1>1. PICK ext \in ExternalID(d) :
          request' = [request EXCEPT ![s] = [Idle EXCEPT !.pc = "checked",
                                               !.trigger = d.trigger, !.ext = ext]]
  BY DEF CheckIngress
<1> DEFINE next == [Idle EXCEPT !.pc = "checked", !.trigger = d.trigger, !.ext = ext]
<1>2. d.trigger \in Triggers /\ ext \in Ext
  BY TriggerAssumption DEF Ext
<1>3. TypeOf[d.trigger] # "schedule"
  BY DEF ExternalID
<1>4. next \in Request /\ next.pc = "checked" /\ next.trigger = d.trigger
  BY <1>2, Blank DEF Request
<1>5. request' = [request EXCEPT ![s] = next]
  BY <1>1
<1> HIDE DEF next
<1>6. request'[s] = next
  BY <1>5 DEF Inv, RequestsInv
<1>7. RequestInv(s)'
  BY <1>2, <1>3, <1>4, <1>6 DEF RequestInv
<1>8. RequestsInv'
  BY <1>4, <1>5, <1>7, RequestStep
<1>9. Scalars'
  <2>1. requests' \in 0 .. MaxRequests
    BY TriggerAssumption DEF CheckIngress, Inv, Scalars
  <2> QED BY <1>0, <2>1 DEF Inv, Scalars
<1>10. RowsInv' /\ StreamsInv'
  BY <1>0 DEF Inv, RowsInv, StreamsInv, StreamInv
<1>11. RunsInv'
  BY <1>0 DEF Inv, RunsInv, OneRunPerEvent, RunFitsRevision
<1> QED BY <1>8, <1>9, <1>10, <1>11 DEF Inv

LEMMA SelectStep ==
    ASSUME Inv, NEW s \in Senders, IngestSelect(s)
    PROVE  Inv'
<1>0. UNCHANGED <<clock, active, enabled, row, runs, sub, topic, requests, faults, paused>>
  BY DEF IngestSelect
<1>1. request[s] \in Request /\ request[s].pc = "checked" /\ request[s].trigger \in Triggers
      /\ TypeOf[request[s].trigger] # "schedule"
  BY DEF IngestSelect, Inv, RequestsInv, RequestInv
<1>2. RequestsInv'
  <2>1. CASE Ingestible(request[s].trigger)
    <3> DEFINE next == [request[s] EXCEPT !.pc = "selected", !.revision = active]
    <3>1. request' = [request EXCEPT ![s] = next]
      BY <2>1 DEF IngestSelect
    <3>2. active \in Revisions /\ request[s].trigger \in Enables[active]
      BY <1>1, <2>1, IngestibleFacts DEF Inv
    <3>3. /\ next \in Request /\ next.pc = "selected" /\ next.trigger = request[s].trigger
          /\ next.revision = active
      BY <1>1, <3>2 DEF Request
    <3> HIDE DEF next
    <3>4. request'[s] = next
      BY <3>1 DEF Inv, RequestsInv
    <3>5. RequestInv(s)'
      BY <1>1, <3>2, <3>3, <3>4 DEF RequestInv
    <3> QED BY <3>1, <3>3, <3>5, RequestStep
  <2>2. CASE ~Ingestible(request[s].trigger)
    <3>1. request' = [request EXCEPT ![s] = Idle] /\ request'[s] = Idle
      BY <2>2 DEF IngestSelect, Inv, RequestsInv
    <3>2. RequestInv(s)'
      BY <3>1, Blank DEF RequestInv
    <3> QED BY <3>1, <3>2, Blank, RequestStep
  <2> QED BY <2>1, <2>2
<1>3. Scalars' /\ RowsInv' /\ StreamsInv'
  BY <1>0 DEF Inv, Scalars, RowsInv, StreamsInv, StreamInv
<1>4. RunsInv'
  BY <1>0 DEF Inv, RunsInv, OneRunPerEvent, RunFitsRevision
<1> QED BY <1>2, <1>3, <1>4 DEF Inv

LEMMA InsertStep ==
    ASSUME Inv, NEW s \in Senders, IngestInsert(s)
    PROVE  Inv'
<1>0. UNCHANGED <<clock, active, enabled, row, sub, topic, requests, faults, paused>>
  BY DEF IngestInsert
<1>1. /\ request[s].trigger \in Triggers /\ request[s].revision \in Revisions
      /\ request[s].trigger \in Enables[request[s].revision]
  BY DEF IngestInsert, Inv, RequestsInv, RequestInv
<1>2. RunsInv'
  BY <1>1, EnqueueStep DEF IngestInsert, Inv
<1>3. RequestsInv'
  <2>1. request' = [request EXCEPT ![s] = Idle] /\ request'[s] = Idle
    BY DEF IngestInsert, Inv, RequestsInv
  <2>2. RequestInv(s)'
    BY <2>1, Blank DEF RequestInv
  <2> QED BY <2>1, <2>2, Blank, RequestStep
<1>4. Scalars' /\ RowsInv' /\ StreamsInv'
  BY <1>0 DEF Inv, Scalars, RowsInv, StreamsInv, StreamInv
<1> QED BY <1>2, <1>3, <1>4 DEF Inv

LEMMA ManualStep ==
    ASSUME Inv, NEW key \in ManualKeys, NEW v \in Revisions \cup {NoRevision},
           EnqueueManualRun(key, v)
    PROVE  Inv'
<1>0. UNCHANGED <<clock, active, enabled, row, request, sub, topic, faults, paused>>
  BY DEF EnqueueManualRun
<1> DEFINE r == [NewRun("manual", key, active) EXCEPT !.expected = v]
<1>1. RunsOf("manual", key) = {} /\ v \in {NoRevision, active} /\ runs' = runs \cup {r}
  BY DEF EnqueueManualRun
<1>2. /\ r.trigger = "manual" /\ r.ext = key /\ r.revision = active /\ r.serial = 0
      /\ r.expected = v
  BY <1>1, FS_EmptySet DEF NewRun
<1> HIDE DEF r
<1>3. active \in Revisions
  BY DEF Inv, RowsInv
<1>4. Fresh(r)
  BY <1>1, <1>2, <1>3 DEF Fresh
<1>5. RunsInv'
  <2> DEFINE new == {r}
  <2>1. /\ runs' = runs \cup new /\ \A x \in new : Fresh(x)
        /\ \A x, y \in new : x.trigger = y.trigger /\ x.ext = y.ext => x = y
    BY <1>1, <1>4
  <2> HIDE DEF new
  <2> QED BY <2>1, RunsAdded DEF Inv
<1>6. Scalars'
  <2>1. requests' \in 0 .. MaxRequests
    BY TriggerAssumption DEF EnqueueManualRun, Inv, Scalars
  <2> QED BY <1>0, <2>1 DEF Inv, Scalars
<1>7. RowsInv' /\ RequestsInv' /\ StreamsInv'
  BY <1>0 DEF Inv, RowsInv, RequestsInv, RequestInv, StreamsInv, StreamInv
<1> QED BY <1>5, <1>6, <1>7 DEF Inv

LEMMA PublishStep == ASSUME Inv, Publish PROVE Inv'
<1>0. UNCHANGED <<clock, active, enabled, row, runs, request, sub, requests, faults, paused>>
  BY DEF Publish
<1>1. topic \in Nat /\ topic' = topic + 1 /\ topic' \in 0 .. Messages
  BY TriggerAssumption DEF Publish, Inv, Scalars
<1>2. Scalars'
  BY <1>0, <1>1 DEF Inv, Scalars
<1>3. StreamsInv'
  <2>1. \A k \in Keys : sub[k].pos \in Nat
    BY DEF Inv, StreamsInv, Subscription
  <2> QED BY <1>0, <1>1, <2>1 DEF Inv, StreamsInv, StreamInv
<1>4. RowsInv' /\ RequestsInv'
  BY <1>0 DEF Inv, RowsInv, RequestsInv, RequestInv
<1>5. RunsInv'
  BY <1>0 DEF Inv, RunsInv, OneRunPerEvent, RunFitsRevision
<1> QED BY <1>2, <1>3, <1>4, <1>5 DEF Inv

\* A subscription goes on.
LEMMA StreamStep ==
    ASSUME Inv, NEW k \in Keys, NEW next \in Subscription, UNCHANGED topic,
           sub' = [sub EXCEPT ![k] = next], StreamInv(k)'
    PROVE  StreamsInv'
<1>1. \A l \in Keys : l # k => sub'[l] = sub[l]
  BY DEF Inv, StreamsInv
<1>2. sub' \in [Keys -> Subscription]
  BY DEF Inv, StreamsInv
<1>3. \A l \in Keys : l # k => StreamInv(l)'
  BY <1>1 DEF Inv, StreamsInv, StreamInv
<1> QED BY <1>2, <1>3 DEF StreamsInv

\* A subscription that opens its stream anew.
LEMMA Opened ==
    [Off EXCEPT !.pc = "open"] \in Subscription
    /\ [Off EXCEPT !.pc = "open"].pc = "open" /\ [Off EXCEPT !.pc = "open"].pos = 0
BY Blank DEF Subscription

LEMMA OpenStep ==
    ASSUME Inv, NEW k \in Keys, UNCHANGED topic, sub' = [sub EXCEPT ![k] = [Off EXCEPT !.pc = "open"]]
    PROVE  StreamsInv'
<1> DEFINE next == [Off EXCEPT !.pc = "open"]
<1>1. next \in Subscription /\ next.pc = "open" /\ next.pos = 0
  BY Opened
<1>2. sub' = [sub EXCEPT ![k] = next]
  OBVIOUS
<1> HIDE DEF next
<1>3. sub'[k].pc = "open" /\ sub'[k].pos = 0
  BY <1>1, <1>2 DEF Inv, StreamsInv
<1>4. topic' \in Nat /\ 0 <= topic'
  BY DEF Inv, Scalars
<1>5. StreamInv(k)'
  BY <1>3, <1>4 DEF StreamInv
<1> QED BY <1>1, <1>2, <1>5, StreamStep

LEMMA ReconcileStep == ASSUME Inv, Reconcile PROVE Inv'
<1>0. /\ UNCHANGED <<clock, active, enabled, row, runs, request, topic, requests, faults, paused>>
      /\ sub' = Reconciled
  BY DEF Reconcile
<1>1. topic \in Nat
  BY DEF Inv, Scalars
<1>2. ASSUME NEW k \in Keys
      PROVE  Reconciled[k] \in {Off, [Off EXCEPT !.pc = "open"], sub[k]}
  BY DEF Reconciled
<1>3. ASSUME NEW k \in Keys
      PROVE  sub'[k] \in Subscription /\ StreamInv(k)'
  <2>1. sub[k] \in Subscription /\ StreamInv(k)
    BY DEF Inv, StreamsInv
  <2> PICK open \in Subscription : open = [Off EXCEPT !.pc = "open"] /\ open.pc = "open" /\ open.pos = 0
    BY Opened
  <2>2. sub'[k] \in {Off, open, sub[k]}
    BY <1>0, <1>2
  <2>3. CASE sub'[k] = sub[k]
    BY <1>0, <2>1, <2>3 DEF StreamInv
  <2>4. CASE sub'[k] \in {Off, open}
    <3>1. sub'[k] \in Subscription /\ sub'[k].pos = 0 /\ sub'[k].pc # "selected"
      BY <2>4, Blank
    <3>2. 0 <= topic'
      BY <1>0, <1>1
    <3> QED BY <3>1, <3>2 DEF StreamInv
  <2> QED BY <2>2, <2>3, <2>4
<1>4. sub' \in [Keys -> Subscription]
  <2>1. sub' = [k \in Keys |-> sub'[k]]
    BY <1>0 DEF Reconciled
  <2> QED BY <1>3, <2>1
<1>5. StreamsInv'
  BY <1>3, <1>4 DEF StreamsInv
<1>6. Scalars' /\ RowsInv' /\ RequestsInv'
  BY <1>0 DEF Inv, Scalars, RowsInv, RequestsInv, RequestInv
<1>7. RunsInv'
  BY <1>0 DEF Inv, RunsInv, OneRunPerEvent, RunFitsRevision
<1> QED BY <1>5, <1>6, <1>7 DEF Inv

LEMMA MessageSelectStep ==
    ASSUME Inv, NEW k \in Keys, MessageSelect(k)
    PROVE  Inv'
<1>0. UNCHANGED <<clock, active, enabled, row, runs, request, topic, requests, faults, paused>>
  BY DEF MessageSelect
<1>1. sub[k] \in Subscription /\ sub[k].pos < topic /\ k[1] \in Triggers
  BY DEF MessageSelect, Inv, StreamsInv, Keys
<1>2. StreamsInv'
  <2>1. CASE Ingestible(k[1])
    <3> DEFINE next == [sub[k] EXCEPT !.pc = "selected", !.revision = active]
    <3>1. sub' = [sub EXCEPT ![k] = next]
      BY <2>1 DEF MessageSelect
    <3>2. active \in Revisions /\ k[1] \in Enables[active]
      BY <1>1, <2>1, IngestibleFacts DEF Inv
    <3>3. /\ next \in Subscription /\ next.pc = "selected" /\ next.revision = active
          /\ next.pos = sub[k].pos
      BY <1>1, <3>2 DEF Subscription
    <3> HIDE DEF next
    <3>4. sub'[k] = next /\ topic \in Nat /\ sub[k].pos \in Nat
      BY <1>1, <3>1 DEF Inv, StreamsInv, Scalars, Subscription
    <3>5. StreamInv(k)'
      BY <1>0, <1>1, <3>2, <3>3, <3>4 DEF StreamInv
    <3> QED BY <1>0, <3>1, <3>3, <3>5, StreamStep
  <2>2. CASE ~Ingestible(k[1])
    BY <1>0, <2>2, OpenStep DEF MessageSelect
  <2> QED BY <2>1, <2>2
<1>3. Scalars' /\ RowsInv' /\ RequestsInv'
  BY <1>0 DEF Inv, Scalars, RowsInv, RequestsInv, RequestInv
<1>4. RunsInv'
  BY <1>0 DEF Inv, RunsInv, OneRunPerEvent, RunFitsRevision
<1> QED BY <1>2, <1>3, <1>4 DEF Inv

LEMMA MessageInsertStep ==
    ASSUME Inv, NEW k \in Keys, MessageInsert(k)
    PROVE  Inv'
<1>0. UNCHANGED <<clock, active, enabled, row, request, topic, requests, faults, paused>>
  BY DEF MessageInsert
<1>1. /\ sub[k].pos \in Nat /\ sub[k].pos < topic /\ k[1] \in Triggers /\ topic \in Nat
      /\ sub[k].revision \in Revisions /\ k[1] \in Enables[sub[k].revision]
  BY DEF MessageInsert, Inv, StreamsInv, StreamInv, Keys, Subscription, Scalars
<1>2. RunsInv'
  BY <1>1, EnqueueStep DEF MessageInsert, Inv
<1>3. StreamsInv'
  <2> DEFINE next == [Off EXCEPT !.pc = "open", !.pos = sub[k].pos + 1]
  <2>1. next \in Subscription /\ next.pc = "open" /\ next.pos = sub[k].pos + 1
    <3>1. sub[k].pos + 1 \in Nat
      BY <1>1
    <3> QED BY <3>1, Blank DEF Subscription
  <2>2. sub' = [sub EXCEPT ![k] = next]
    BY DEF MessageInsert
  <2> HIDE DEF next
  <2>3. sub'[k] = next
    BY <2>2 DEF Inv, StreamsInv
  <2>4. StreamInv(k)'
    BY <1>0, <1>1, <2>1, <2>3 DEF StreamInv
  <2> QED BY <1>0, <2>1, <2>2, <2>4, StreamStep
<1>4. Scalars' /\ RowsInv' /\ RequestsInv'
  BY <1>0 DEF Inv, Scalars, RowsInv, RequestsInv, RequestInv
<1> QED BY <1>2, <1>3, <1>4 DEF Inv

LEMMA FaultStep ==
    ASSUME Inv, Restart \/ \E k \in Keys : Disconnect(k)
    PROVE  Inv'
<1>0. /\ UNCHANGED <<clock, active, enabled, row, runs, topic, requests, paused>>
      /\ faults < MaxFaults /\ faults' = faults + 1
  BY DEF Restart, Disconnect
<1>1. Scalars'
  <2>1. faults' \in 0 .. MaxFaults
    BY <1>0, TriggerAssumption DEF Inv, Scalars
  <2> QED BY <1>0, <2>1 DEF Inv, Scalars
<1>2. RowsInv'
  BY <1>0 DEF Inv, RowsInv
<1>3. RunsInv'
  BY <1>0 DEF Inv, RunsInv, OneRunPerEvent, RunFitsRevision
<1>4. RequestsInv' /\ StreamsInv'
  <2>1. CASE Restart
    <3>1. RequestsInv'
      BY <2>1, Blank DEF Restart, RequestsInv, RequestInv
    <3>2. topic \in Nat /\ topic' = topic
      BY <1>0 DEF Inv, Scalars
    <3>3. StreamsInv'
      BY <2>1, <3>2, Blank DEF Restart, StreamsInv, StreamInv
    <3> QED BY <3>1, <3>3
  <2>2. ASSUME NEW k \in Keys, Disconnect(k)
        PROVE  RequestsInv' /\ StreamsInv'
    <3>1. RequestsInv'
      BY <2>2 DEF Disconnect, Inv, RequestsInv, RequestInv
    <3>2. StreamsInv'
      BY <1>0, <2>2, OpenStep DEF Disconnect
    <3> QED BY <3>1, <3>2
  <2> QED BY <2>1, <2>2
<1> QED BY <1>1, <1>2, <1>3, <1>4 DEF Inv

LEMMA NextStep == ASSUME Inv, [Next]_vars PROVE Inv'
<1>1. CASE UNCHANGED vars
  <2>1. Scalars' /\ RowsInv' /\ RequestsInv' /\ StreamsInv'
    BY <1>1 DEF vars, Inv, Scalars, RowsInv, RequestsInv, RequestInv, StreamsInv, StreamInv
  <2>2. RunsInv'
    BY <1>1 DEF vars, Inv, RunsInv, OneRunPerEvent, RunFitsRevision
  <2> QED BY <2>1, <2>2 DEF Inv
<1> QED
  BY <1>1, TickStep, ActivateStep, PauseStep, SchedulesStep, CheckStep, SelectStep, InsertStep,
     ManualStep, PublishStep, ReconcileStep, MessageSelectStep, MessageInsertStep, FaultStep
     DEF Next

-----------------------------------------------------------------------------
(* The schedules.                                                          *)

LEMMA ScheduleTypes ==
    ASSUME Inv
    PROVE  /\ clock \in Nat /\ enabled \in BOOLEAN /\ paused \subseteq Nat
           /\ \A t \in Triggers : /\ row[t] \in Row /\ row[t].next \in Nat /\ row[t].since \in Nat
                                  /\ row[t].revision \in Revisions /\ row[t].enabled \in BOOLEAN
BY DEF Inv, Scalars, RowsInv, Row

LEMMA ScheduleInit == Init => ScheduleInv
<1> SUFFICES ASSUME Init PROVE ScheduleInv
    OBVIOUS
<1>1. clock = 0 /\ clock \in Nat /\ active \in Revisions /\ row = ReplaceTriggers(active)
      /\ runs = {} /\ paused = {}
  BY DEF Init
<1>2. ASSUME NEW t \in Triggers
      PROVE  ScheduleRow(t)
  <2>1. /\ row[t].revision = active /\ (row[t].enabled <=> t \in Enables[active])
        /\ row[t].next > 0 => Scheduled(t)
    BY <1>1, ReplaceFacts DEF Scheduled
  <2>2. CASE Scheduled(t)
    <3>1. row[t].next = NextSchedule(active, clock) /\ row[t].since = clock
      BY <1>1, <2>1, <2>2, ReplaceFacts DEF Scheduled
    <3> QED BY <1>1, <2>1, <3>1, NextScheduleFacts DEF ScheduleRow
  <2> QED BY <2>1, <2>2 DEF ScheduleRow
<1> QED BY <1>1, <1>2 DEF ScheduleInv

\* A row that is calculated from now.
LEMMA Recalculated ==
    ASSUME Inv, ScheduleInv, NEW t \in Triggers, NEW v \in Revisions,
           UNCHANGED <<clock, runs, paused>>,
           row'[t].revision = v, row'[t].enabled, TypeOf[t] = "schedule",
           row'[t].next = NextSchedule(v, clock), row'[t].since = clock
    PROVE  /\ ScheduleRow(t)'
           /\ \A r \in runs : r.trigger = t => r.ext < row'[t].next
<1>1. /\ clock \in Nat /\ NextSchedule(v, clock) \in Nat /\ NextSchedule(v, clock) > clock
      /\ \A i \in clock + 1 .. NextSchedule(v, clock) - 1 : i % Period[v] # 0
  BY ScheduleTypes, NextScheduleFacts
<1>2. \A i \in paused : i <= clock
  BY <1>1 DEF ScheduleInv
<1>3. ScheduleRow(t)'
  BY <1>1, <1>2 DEF ScheduleRow, Scheduled
<1>4. \A r \in runs : r.trigger = t => r.ext \in Nat /\ r.ext <= clock
  BY DEF ScheduleInv, ScheduledRun
<1> QED BY <1>1, <1>3, <1>4

\* A row that stays as it is, while nothing of the past changes.
LEMMA RowKept ==
    ASSUME NEW t \in Triggers, ScheduleRow(t), row'[t] = row[t], UNCHANGED <<clock, paused>>,
           runs \subseteq runs', enabled' => enabled
    PROVE  ScheduleRow(t)'
<1>1. \A i : RunsOf(t, i) # {} => RunsOf(t, i)' # {}
  BY DEF RunsOf
<1> QED BY <1>1 DEF ScheduleRow, Scheduled

\* The steps that touch neither time nor the schedules.
LEMMA Elsewhere ==
    ASSUME Inv, ScheduleInv, NEW new, runs' = runs \cup new,
           \A r \in new : ~(r.trigger \in Triggers /\ TypeOf[r.trigger] = "schedule"),
           UNCHANGED <<clock, row, enabled, paused>>
    PROVE  ScheduleInv'
<1>1. \A t \in Triggers : ScheduleRow(t)'
  BY RowKept DEF ScheduleInv
<1>2. \A r \in runs' : ScheduledRun(r)'
  BY DEF ScheduleInv, ScheduledRun
<1> QED BY <1>1, <1>2 DEF ScheduleInv

LEMMA NothingHappens ==
    ASSUME Inv, ScheduleInv, UNCHANGED <<clock, row, enabled, paused, runs>>
    PROVE  ScheduleInv'
<1> DEFINE new == {}
<1>1. runs' = runs \cup new /\ \A r \in new : FALSE
  OBVIOUS
<1> HIDE DEF new
<1> QED BY <1>1, Elsewhere

LEMMA ScheduleTick == ASSUME Inv, ScheduleInv, Tick PROVE ScheduleInv'
<1>0. clock \in Nat /\ clock' = clock + 1 /\ UNCHANGED <<row, runs, enabled>>
  BY ScheduleTypes DEF Tick
<1>1. paused' \subseteq paused \cup {clock + 1} /\ (enabled => paused' = paused)
  BY DEF Tick
<1>2. paused' \subseteq 1 .. clock'
  BY <1>0, <1>1 DEF ScheduleInv
<1>3. ASSUME NEW t \in Triggers PROVE ScheduleRow(t)'
  <2>1. ScheduleRow(t) /\ row[t].since \in Nat
    BY ScheduleTypes DEF ScheduleInv
  <2>2. \A i : RunsOf(t, i)' = RunsOf(t, i)
    BY <1>0 DEF RunsOf
  <2> QED BY <1>0, <1>1, <2>1, <2>2 DEF ScheduleRow, Scheduled
<1>4. ASSUME NEW r \in runs' PROVE ScheduledRun(r)'
  BY <1>0, <1>1 DEF ScheduleInv, ScheduledRun
<1> QED BY <1>2, <1>3, <1>4 DEF ScheduleInv

LEMMA ScheduleActivate ==
    ASSUME Inv, ScheduleInv, NEW v \in Revisions, Deploy(v) \/ RollbackAutomation(v)
    PROVE  ScheduleInv'
<1>0. row' = ReplaceTriggers(v) /\ UNCHANGED <<clock, runs, paused, enabled>> /\ clock \in Nat
  BY ScheduleTypes DEF Deploy, RollbackAutomation
<1>1. ASSUME NEW t \in Triggers
      PROVE  /\ ScheduleRow(t)'
             /\ row'[t].next > 0 => \A r \in runs : r.trigger = t => r.ext < row'[t].next
  <2>1. /\ row'[t].revision = v /\ (row'[t].enabled <=> t \in Enables[v])
        /\ row'[t].next > 0 => TypeOf[t] = "schedule" /\ row'[t].enabled
    BY <1>0, ReplaceFacts
  <2>2. CASE TypeOf[t] = "schedule" /\ row'[t].enabled
    <3>1. row'[t].next = NextSchedule(v, clock) /\ row'[t].since = clock
      BY <1>0, <2>1, <2>2, ReplaceFacts
    <3> QED BY <1>0, <2>1, <2>2, <3>1, Recalculated
  <2>3. CASE ~(TypeOf[t] = "schedule" /\ row'[t].enabled)
    BY <2>1, <2>3 DEF ScheduleRow, Scheduled
  <2> QED BY <2>2, <2>3
<1>2. ASSUME NEW r \in runs' PROVE ScheduledRun(r)'
  BY <1>0, <1>1 DEF ScheduleInv, ScheduledRun
<1> QED BY <1>0, <1>1, <1>2 DEF ScheduleInv

LEMMA SchedulePause ==
    ASSUME Inv, ScheduleInv, NEW on \in BOOLEAN, SetAutomationEnabled(on)
    PROVE  ScheduleInv'
<1>0. UNCHANGED <<clock, runs, paused>> /\ enabled' = on
  BY DEF SetAutomationEnabled
<1>1. ASSUME NEW t \in Triggers
      PROVE  /\ ScheduleRow(t)'
             /\ row'[t].next > 0 => \A r \in runs : r.trigger = t => ScheduledRun(r)'
  <2>0. row[t] \in Row /\ row[t].revision \in Revisions /\ ScheduleRow(t) /\ clock \in Nat
    BY ScheduleTypes DEF ScheduleInv
  <2>1. CASE on /\ Scheduled(t)
    <3>1. row'[t] = [row[t] EXCEPT !.next = NextSchedule(row[t].revision, clock), !.since = clock]
      BY <2>1 DEF SetAutomationEnabled, Scheduled
    <3>2. /\ row'[t].revision = row[t].revision /\ row'[t].enabled = row[t].enabled
          /\ row'[t].next = NextSchedule(row[t].revision, clock) /\ row'[t].since = clock
      BY <2>0, <3>1 DEF Row
    <3>3. /\ ScheduleRow(t)'
          /\ \A r \in runs : r.trigger = t => r.ext < row'[t].next
      BY <1>0, <2>0, <2>1, <3>2, Recalculated DEF Scheduled
    <3> QED BY <1>0, <3>3 DEF ScheduleInv, ScheduledRun
  <2>2. CASE ~(on /\ Scheduled(t))
    <3>1. row'[t] = row[t]
      BY <2>2 DEF SetAutomationEnabled, Scheduled
    <3>2. \A i : RunsOf(t, i)' = RunsOf(t, i)
      BY <1>0 DEF RunsOf
    <3>3. ScheduleRow(t)'
      BY <1>0, <2>0, <2>2, <3>1, <3>2 DEF ScheduleRow, Scheduled
    <3> QED BY <1>0, <3>1, <3>3 DEF ScheduleInv, ScheduledRun
  <2> QED BY <2>1, <2>2
<1>2. ASSUME NEW r \in runs' PROVE ScheduledRun(r)'
  BY <1>0, <1>1 DEF ScheduleInv, ScheduledRun
<1> QED BY <1>0, <1>1, <1>2 DEF ScheduleInv

LEMMA ScheduleFires == ASSUME Inv, ScheduleInv, EnqueueDueSchedules PROVE ScheduleInv'
<1> DEFINE due == {t \in Triggers : Due(t)}
           new == UNION {Enqueue(t, row[t].next, row[t].revision) : t \in due}
<1>0. UNCHANGED <<clock, enabled, paused>> /\ runs' = runs \cup new /\ runs \subseteq runs'
  BY DEF EnqueueDueSchedules
<1>1. ASSUME NEW t \in due
      PROVE  /\ Scheduled(t) /\ enabled /\ row[t].next <= clock
             /\ row[t].next \in Nat /\ row[t].since \in Nat /\ clock \in Nat
             /\ row[t].since < row[t].next /\ row[t].revision \in Revisions
             /\ t \in Enables[row[t].revision]
             /\ row'[t].next = NextOf(t) /\ row'[t].since = row[t].since
             /\ row'[t].revision = row[t].revision /\ row'[t].enabled = row[t].enabled
             /\ NextOf(t) \in Nat /\ NextOf(t) > row[t].next
             /\ \A i \in row[t].next + 1 .. NextOf(t) - 1 : i % Period[row[t].revision] # 0
  <2>1. t \in Triggers /\ row[t] \in Row /\ Scheduled(t) /\ enabled /\ row[t].next <= clock
    BY ScheduleTypes DEF Due, Scheduled
  <2>2. row'[t] = [row[t] EXCEPT !.next = NextOf(t)]
    BY DEF EnqueueDueSchedules
  <2>3. /\ row'[t].next = NextOf(t) /\ row'[t].since = row[t].since
        /\ row'[t].revision = row[t].revision /\ row'[t].enabled = row[t].enabled
    BY <2>1, <2>2 DEF Row
  <2>4. /\ row[t].next \in Nat /\ row[t].since \in Nat /\ row[t].revision \in Revisions
        /\ clock \in Nat
    BY ScheduleTypes
  <2>5. row[t].since < row[t].next
    BY <2>1 DEF ScheduleInv, ScheduleRow
  <2>6. t \in Enables[row[t].revision]
    BY <2>1 DEF Inv, RowsInv, Scheduled
  <2> QED BY <2>1, <2>3, <2>4, <2>5, <2>6, NextScheduleFacts DEF NextOf
<1>2. ASSUME NEW r \in new
      PROVE  r.trigger \in due /\ r.ext = row[r.trigger].next
  BY <1>1, EnqueueFacts
<1>3. ASSUME NEW t \in due
      PROVE  \E r \in runs' : r.trigger = t /\ r.ext = row[t].next
  <2>1. CASE RunsOf(t, row[t].next) # {}
    BY <1>0, <1>1, <2>1 DEF RunsOf
  <2>2. CASE RunsOf(t, row[t].next) = {}
    <3>1. NewRun(t, row[t].next, row[t].revision) \in runs'
      BY <1>0, <2>2 DEF Enqueue
    <3> QED BY <3>1, <2>2, NewRunFacts
  <2> QED BY <2>1, <2>2
<1> HIDE DEF new
<1>4. ASSUME NEW t \in Triggers PROVE ScheduleRow(t)'
  <2>1. CASE t \in due
    <3>1. ScheduleRow(t) /\ Scheduled(t)' /\ Scheduled(t)
      BY <1>1, <2>1 DEF ScheduleInv, Scheduled
    <3>2. row'[t].since < row'[t].next /\ row'[t].since <= clock'
      BY <1>0, <1>1, <2>1
    <3>3. ASSUME NEW i \in row[t].since + 1 .. NextOf(t) - 1, i % Period[row[t].revision] = 0
          PROVE  \E r \in runs' : r.trigger = t /\ r.ext = i
      <4>1. CASE i <= row[t].next - 1
        <5>1. i \in row[t].since + 1 .. row[t].next - 1
          BY <1>1, <2>1, <4>1
        <5>2. RunsOf(t, i) # {}
          BY <3>1, <3>3, <5>1 DEF ScheduleRow
        <5> QED BY <1>0, <5>2 DEF RunsOf
      <4>2. CASE i = row[t].next
        BY <1>3, <2>1, <4>2
      <4>3. CASE i >= row[t].next + 1
        <5>1. i \in row[t].next + 1 .. NextOf(t) - 1
          BY <1>1, <2>1, <4>3
        <5> QED BY <1>1, <2>1, <3>3, <5>1
      <4> QED BY <1>1, <2>1, <4>1, <4>2, <4>3
    <3>4. \A i \in row'[t].since + 1 .. row'[t].next - 1 :
              i % Period[row'[t].revision] = 0 => RunsOf(t, i)' # {}
      BY <1>1, <2>1, <3>3 DEF RunsOf
    <3>5. \A i \in paused' : i <= row'[t].since
      BY <1>0, <1>1, <2>1, <3>1 DEF ScheduleRow
    <3> QED BY <3>1, <3>2, <3>4, <3>5 DEF ScheduleRow
  <2>2. CASE t \notin due
    <3>1. row'[t] = row[t]
      BY <2>2 DEF EnqueueDueSchedules
    <3> QED BY <1>0, <3>1, RowKept DEF ScheduleInv
  <2> QED BY <2>1, <2>2
<1>5. ASSUME NEW r \in runs' PROVE ScheduledRun(r)'
  <2>1. CASE r \in new
    <3> PICK t \in due : t = r.trigger /\ r.ext = row[t].next
      BY <1>2, <2>1
    <3>1. \A i \in paused : i <= row[t].since /\ i \in Nat
      BY <1>1, ScheduleTypes DEF ScheduleInv, ScheduleRow
    <3>2. row[t].next \notin paused
      BY <1>1, <3>1
    <3> QED BY <1>0, <1>1, <3>2 DEF ScheduledRun
  <2>2. CASE r \in runs
    <3> SUFFICES ASSUME r.trigger \in Triggers, TypeOf[r.trigger] = "schedule"
                 PROVE  /\ r.ext \in Nat /\ r.ext <= clock /\ r.ext \notin paused
                        /\ row'[r.trigger].next > 0 => r.ext < row'[r.trigger].next
      BY <1>0 DEF ScheduledRun
    <3>1. /\ r.ext \in Nat /\ r.ext <= clock /\ r.ext \notin paused
          /\ row[r.trigger].next > 0 => r.ext < row[r.trigger].next
      BY <2>2 DEF ScheduleInv, ScheduledRun
    <3>2. CASE r.trigger \in due
      BY <1>1, <3>1, <3>2
    <3>3. CASE r.trigger \notin due
      BY <3>1, <3>3 DEF EnqueueDueSchedules
    <3> QED BY <3>1, <3>2, <3>3
  <2> QED BY <1>0, <2>1, <2>2
<1> QED BY <1>0, <1>4, <1>5 DEF ScheduleInv

\* The events of other triggers, and manual runs, have names of their own.
LEMMA ScheduleElsewhere ==
    ASSUME "manual" \notin Triggers, Inv, ScheduleInv,
           \/ \E s \in Senders, d \in Deliveries : CheckIngress(s, d)
           \/ \E s \in Senders : IngestSelect(s) \/ IngestInsert(s)
           \/ \E key \in ManualKeys, v \in Revisions \cup {NoRevision} : EnqueueManualRun(key, v)
           \/ Publish
           \/ Reconcile
           \/ \E k \in Keys : MessageSelect(k) \/ MessageInsert(k) \/ Disconnect(k)
           \/ Restart
    PROVE  ScheduleInv'
<1>1. CASE runs' = runs /\ UNCHANGED <<clock, row, enabled, paused>>
  BY <1>1, NothingHappens
<1>2. ASSUME NEW s \in Senders, IngestInsert(s)
      PROVE  ScheduleInv'
  <2>1. /\ request[s].trigger \in Triggers /\ TypeOf[request[s].trigger] # "schedule"
        /\ request[s].revision \in Revisions
        /\ request[s].trigger \in Enables[request[s].revision]
    BY <1>2 DEF IngestInsert, Inv, RequestsInv, RequestInv
  <2> DEFINE new == Enqueue(request[s].trigger, request[s].ext, request[s].revision)
  <2>2. runs' = runs \cup new /\ UNCHANGED <<clock, row, enabled, paused>>
    BY <1>2 DEF IngestInsert
  <2>3. \A r \in new : TypeOf[r.trigger] # "schedule"
    BY <2>1, EnqueueFacts
  <2> HIDE DEF new
  <2> QED BY <2>2, <2>3, Elsewhere
<1>3. ASSUME NEW key \in ManualKeys, NEW v \in Revisions \cup {NoRevision},
             EnqueueManualRun(key, v)
      PROVE  ScheduleInv'
  <2> DEFINE new == {[NewRun("manual", key, active) EXCEPT !.expected = v]}
  <2>1. runs' = runs \cup new /\ UNCHANGED <<clock, row, enabled, paused>>
    BY <1>3 DEF EnqueueManualRun
  <2>2. \A r \in new : r.trigger = "manual"
    BY DEF NewRun
  <2> HIDE DEF new
  <2> QED BY <2>1, <2>2, Elsewhere
<1>4. ASSUME NEW k \in Keys, MessageInsert(k)
      PROVE  ScheduleInv'
  <2>1. /\ k[1] \in Triggers /\ TypeOf[k[1]] # "schedule"
        /\ sub[k].revision \in Revisions /\ k[1] \in Enables[sub[k].revision]
    BY <1>4 DEF MessageInsert, Inv, StreamsInv, StreamInv, Keys
  <2> DEFINE new == Enqueue(k[1], sub[k].pos + 1, sub[k].revision)
  <2>2. runs' = runs \cup new /\ UNCHANGED <<clock, row, enabled, paused>>
    BY <1>4 DEF MessageInsert
  <2>3. \A r \in new : TypeOf[r.trigger] # "schedule"
    BY <2>1, EnqueueFacts
  <2> HIDE DEF new
  <2> QED BY <2>2, <2>3, Elsewhere
<1> QED
  BY <1>1, <1>2, <1>3, <1>4 DEF CheckIngress, IngestSelect, Publish, Reconcile, MessageSelect,
     Disconnect, Restart

LEMMA ScheduleNext ==
    ASSUME "manual" \notin Triggers, Inv, ScheduleInv, [Next]_vars
    PROVE  ScheduleInv'
<1>1. CASE UNCHANGED vars
  BY <1>1, NothingHappens DEF vars
<1> QED
  BY <1>1, ScheduleTick, ScheduleActivate, SchedulePause, ScheduleFires, ScheduleElsewhere DEF Next

-----------------------------------------------------------------------------
(* The theorems.                                                           *)

\* The inductive invariant holds in every state that activations, pauses, the
\* scheduler, the ingress and the reconciler can reach.
THEOREM Invariance == Spec => []Inv
<1>1. Init => Inv
  BY InitInv
<1>2. Inv /\ [Next]_vars => Inv'
  BY NextStep
<1> QED BY <1>1, <1>2, PTL DEF Spec

\* The rows of triggers, events, runs and subscriptions keep their types.
THEOREM TypeCorrect == Spec => []TypeOK
<1>1. Inv => TypeOK
  <2> SUFFICES ASSUME Inv PROVE TypeOK
    OBVIOUS
  <2>1. \A s \in Senders : request[s].pc \in {"idle", "checked", "selected"}
    BY DEF Inv, RequestsInv, Request
  <2>2. \A k \in Keys : sub[k].pc \in {"off", "open", "selected"} /\ sub[k].pos \in 0 .. topic
    <3>1. topic \in Nat
      BY DEF Inv, Scalars
    <3> QED BY <3>1 DEF Inv, StreamsInv, StreamInv, Subscription
  <2> QED BY <2>1, <2>2 DEF Inv, Scalars, RowsInv, RunsInv, TypeOK
<1> QED BY <1>1, Invariance, PTL

\* An event has one run, however and however often it arrives: the conflict
\* clause of enqueueEvent, and the schedules' and the manual runs' own keys.
THEOREM OneRun == Spec => []OneRunPerEvent
<1>1. Inv => OneRunPerEvent
  BY DEF Inv, RunsInv
<1> QED BY <1>1, Invariance, PTL

\* A run is pinned to a revision that asked for it, also when the revision that
\* enqueueEvent selected is replaced before it inserts.
THEOREM RunFits == Spec => []RunFitsRevision
<1>1. Inv => RunFitsRevision
  BY DEF Inv, RunsInv
<1> QED BY <1>1, Invariance, PTL

\* The scheduler skips no occurrence, repeats none and runs none that came in a
\* pause (EnqueueDueSchedules, SetAutomationEnabled, replaceTriggers), provided
\* no trigger of the manifest is called "manual": such a trigger shares the
\* trigger key of EnqueueManualRun, and Manifest.Validate allows the name.
THEOREM SchedulesKept ==
    ASSUME "manual" \notin Triggers
    PROVE  Spec => []ScheduleAccounted
<1>1. Init => Inv /\ ScheduleInv
  BY InitInv, ScheduleInit
<1>2. (Inv /\ ScheduleInv) /\ [Next]_vars => (Inv /\ ScheduleInv)'
  BY NextStep, ScheduleNext
<1>3. Inv /\ ScheduleInv => ScheduleAccounted
  BY DEF ScheduleInv, ScheduleRow, ScheduledRun, Scheduled, ScheduleAccounted
<1> QED BY <1>1, <1>2, <1>3, PTL DEF Spec
=============================================================================
