--------------------------- MODULE RunQueueProofs ---------------------------
(***************************************************************************)
(* Proofs about RunQueue for any number of runs, workers, automations and  *)
(* faults.  The first part shows that every step is one of five kinds; the *)
(* effects of runs, their budget of attempts, the finality of settled rows *)
(* and the refinement of RunLedger are derived from the kinds.             *)
(***************************************************************************)
EXTENDS RunQueue, FiniteSetTheorems, TLAPS

\* Only a statement in flight holds rows it saw, and a row it can still claim
\* is queued or running: whoever settles a row drops it from every statement.
EligibleLive ==
    \A w \in Workers :
        /\ \A r \in worker[w].eligible : run[r].status \in {"queued", "running"}
        /\ worker[w].pc # "acquiring" => worker[w].eligible = {}

TypeInv == TypeOK /\ EligibleLive

-----------------------------------------------------------------------------
(* What the building blocks of the actions do to workers and rows.         *)

LEMMA IdleFacts ==
    /\ Idle \in Worker
    /\ Idle.pc = "idle" /\ Idle.eligible = {}
BY DEF Idle, Worker, EmptyState, State

LEMMA InitType == Init => TypeInv
<1> SUFFICES ASSUME Init PROVE TypeInv
    OBVIOUS
<1> USE NoneAssumption, BoundAssumption DEF Init
<1>1. [NewRow(NoRevision, NoRun) EXCEPT !.status = "absent"] \in Row
  BY DEF NewRow, Row, Status, Settled
<1>2. EmptyState \in State
  BY DEF EmptyState, State
<1>3. TypeOK
  BY <1>1, <1>2, IdleFacts DEF TypeOK, NewRow, Executing
<1>4. EligibleLive
  BY IdleFacts DEF EligibleLive
<1> QED BY <1>3, <1>4 DEF TypeInv

\* The workers after an update of row r by worker w.
LEMMA RowUpdatedFacts ==
    ASSUME TypeInv, NEW w \in Workers, NEW r \in Runs, NEW next \in Worker,
           RowUpdated(r, w, next)
    PROVE  /\ worker' \in [Workers -> Worker]
           /\ worker'[w] = next
           /\ \A u \in Workers : u # w =>
                  /\ worker'[u].pc = worker[u].pc
                  /\ worker'[u].run = worker[u].run
                  /\ worker'[u].attempt = worker[u].attempt
                  /\ worker'[u].seen = worker[u].seen
                  /\ worker'[u].eligible = worker[u].eligible \ {r}
<1> USE DEF TypeInv, TypeOK, RowUpdated
<1>1. ASSUME NEW u \in Workers
      PROVE [worker[u] EXCEPT !.eligible = @ \ {r}] \in Worker
  BY DEF Worker
<1>2. worker' \in [Workers -> Worker]
  BY <1>1
<1>3. worker'[w] = next
  OBVIOUS
<1>4. ASSUME NEW u \in Workers, u # w
      PROVE /\ worker'[u].pc = worker[u].pc
            /\ worker'[u].run = worker[u].run
            /\ worker'[u].attempt = worker[u].attempt
            /\ worker'[u].seen = worker[u].seen
            /\ worker'[u].eligible = worker[u].eligible \ {r}
  BY <1>4 DEF Worker
<1> QED BY <1>2, <1>3, <1>4

\* The rows after row r got new contents.
LEMMA RowFacts ==
    ASSUME TypeInv, NEW r \in Runs, NEW row \in Row,
           run' = [run EXCEPT ![r] = row]
    PROVE  /\ run' \in [Runs -> Row]
           /\ run'[r] = row
           /\ \A q \in Runs : q # r => run'[q] = run[q]
BY DEF TypeInv, TypeOK

\* A row whose lease or delay elapses, or whose lease is renewed.
LEMMA ElapsedFacts ==
    ASSUME TypeInv, NEW r \in Runs, NEW e \in BOOLEAN,
           run' = [run EXCEPT ![r].elapsed = e]
    PROVE  /\ run' \in [Runs -> Row]
           /\ \A q \in Runs : /\ run'[q].status = run[q].status
                              /\ run'[q].revision = run[q].revision
                              /\ run'[q].attempt = run[q].attempt
                              /\ run'[q].owner = run[q].owner
                              /\ run'[q].parent = run[q].parent
           /\ \A q \in Runs : q # r => run'[q] = run[q]
BY DEF TypeInv, TypeOK, Row

-----------------------------------------------------------------------------
(* The actions, described field by field.                                  *)

LEMMA ClaimFacts ==
    ASSUME TypeInv, NEW w \in Workers, NEW r \in Runs, AcquireClaim(w, r)
    PROVE  /\ run[r].status \in {"queued", "running"}
           /\ run' \in [Runs -> Row]
           /\ run'[r].status = "running"
           /\ run'[r].owner = w
           /\ run'[r].attempt = run[r].attempt + 1
           /\ run'[r].revision = run[r].revision
           /\ run'[r].parent = run[r].parent
           /\ \A q \in Runs : q # r => run'[q] = run[q]
           /\ worker' \in [Workers -> Worker]
           /\ worker'[w].pc = "executing"
           /\ worker'[w].run = r
           /\ worker'[w].attempt = run[r].attempt + 1
           /\ worker'[w].seen = worker[w].seen
           /\ worker'[w].eligible = {}
           /\ \A u \in Workers : u # w =>
                  /\ worker'[u].pc = worker[u].pc
                  /\ worker'[u].run = worker[u].run
                  /\ worker'[u].attempt = worker[u].attempt
                  /\ worker'[u].seen = worker[u].seen
                  /\ worker'[u].eligible = worker[u].eligible \ {r}
<1> DEFINE row == [run[r] EXCEPT !.status = "running",
                                 !.attempt = run[r].attempt + 1,
                                 !.owner = w, !.elapsed = FALSE]
           next == [worker[w] EXCEPT !.pc = "executing", !.eligible = {},
                                     !.run = r,
                                     !.attempt = run[r].attempt + 1]
<1>0. run[r] \in Row /\ worker[w] \in Worker
  BY DEF TypeInv, TypeOK
<1>1. run[r].attempt + 1 \in Nat
  BY <1>0 DEF Row
<1>2. /\ row \in Row /\ row.status = "running" /\ row.owner = w
      /\ row.attempt = run[r].attempt + 1
      /\ row.revision = run[r].revision /\ row.parent = run[r].parent
  BY <1>0, <1>1 DEF Row, Status
<1>3. /\ next \in Worker /\ next.pc = "executing" /\ next.run = r
      /\ next.attempt = run[r].attempt + 1 /\ next.eligible = {}
      /\ next.seen = worker[w].seen
  BY <1>0, <1>1 DEF Worker
<1>4. run' = [run EXCEPT ![r] = row] /\ RowUpdated(r, w, next)
  BY DEF AcquireClaim
<1>5. run[r].status \in {"queued", "running"}
  BY DEF AcquireClaim, TypeInv, EligibleLive
<1> HIDE DEF row, next
<1>6. run' \in [Runs -> Row] /\ run'[r] = row
      /\ \A q \in Runs : q # r => run'[q] = run[q]
  BY <1>2, <1>4, RowFacts
<1>7. /\ worker' \in [Workers -> Worker]
      /\ worker'[w] = next
      /\ \A u \in Workers : u # w =>
             /\ worker'[u].pc = worker[u].pc
             /\ worker'[u].run = worker[u].run
             /\ worker'[u].attempt = worker[u].attempt
             /\ worker'[u].seen = worker[u].seen
             /\ worker'[u].eligible = worker[u].eligible \ {r}
  BY <1>3, <1>4, RowUpdatedFacts
<1> QED BY <1>2, <1>3, <1>5, <1>6, <1>7

LEMMA RenewFacts ==
    ASSUME TypeInv, NEW w \in Workers, RenewRunLease(w)
    PROVE  /\ run' \in [Runs -> Row]
           /\ \A q \in Runs : /\ run'[q].status = run[q].status
                              /\ run'[q].revision = run[q].revision
                              /\ run'[q].attempt = run[q].attempt
                              /\ run'[q].owner = run[q].owner
                              /\ run'[q].parent = run[q].parent
           /\ worker' \in [Workers -> Worker]
           /\ \A u \in Workers : /\ worker'[u].pc = worker[u].pc
                                 /\ worker'[u].run = worker[u].run
                                 /\ worker'[u].attempt = worker[u].attempt
                                 /\ worker'[u].seen = worker[u].seen
                                 /\ worker'[u].eligible \subseteq worker[u].eligible
<1> DEFINE r == worker[w].run
<1>1. r \in Runs /\ worker[w] \in Worker
  BY DEF RenewRunLease, TypeInv, TypeOK, Executing
<1>2. run' = [run EXCEPT ![r].elapsed = FALSE] /\ RowUpdated(r, w, worker[w])
  BY DEF RenewRunLease
<1> HIDE DEF r
<1>3. /\ run' \in [Runs -> Row]
      /\ \A q \in Runs : /\ run'[q].status = run[q].status
                         /\ run'[q].revision = run[q].revision
                         /\ run'[q].attempt = run[q].attempt
                         /\ run'[q].owner = run[q].owner
                         /\ run'[q].parent = run[q].parent
  BY <1>1, <1>2, ElapsedFacts
<1>4. /\ worker' \in [Workers -> Worker]
      /\ worker'[w] = worker[w]
      /\ \A u \in Workers : u # w =>
             /\ worker'[u].pc = worker[u].pc
             /\ worker'[u].run = worker[u].run
             /\ worker'[u].attempt = worker[u].attempt
             /\ worker'[u].seen = worker[u].seen
             /\ worker'[u].eligible = worker[u].eligible \ {r}
  BY <1>1, <1>2, RowUpdatedFacts
<1> QED BY <1>3, <1>4

\* A worker is done with row r, of which it gave up or settled ownership, and
\* polls again.
GivenUp(w, r) ==
    /\ worker' \in [Workers -> Worker]
    /\ worker'[w] = Idle
    /\ \A u \in Workers : u # w =>
           /\ worker'[u].pc = worker[u].pc
           /\ worker'[u].run = worker[u].run
           /\ worker'[u].attempt = worker[u].attempt
           /\ worker'[u].seen = worker[u].seen
           /\ worker'[u].eligible = worker[u].eligible \ {r}

\* Row r goes from running to status s, keeping its identity.
LeavesRunning(r, s) ==
    /\ run[r].status = "running"
    /\ run' \in [Runs -> Row]
    /\ run'[r].status = s
    /\ run'[r].owner = NoWorker
    /\ run'[r].revision = run[r].revision
    /\ run'[r].attempt = run[r].attempt
    /\ run'[r].parent = run[r].parent
    /\ \A q \in Runs : q # r => run'[q] = run[q]

LEMMA GivenUpFacts ==
    ASSUME TypeInv, NEW w \in Workers, NEW r \in Runs, RowUpdated(r, w, Idle)
    PROVE  GivenUp(w, r)
BY IdleFacts, RowUpdatedFacts DEF GivenUp

LEMMA LeavesRunningFacts ==
    ASSUME TypeInv, NEW r \in Runs, run[r].status = "running",
           NEW s \in Status, NEW e \in BOOLEAN,
           run' = [run EXCEPT ![r] = [run[r] EXCEPT !.status = s,
                                                    !.owner = NoWorker,
                                                    !.elapsed = e]]
    PROVE  LeavesRunning(r, s)
<1> DEFINE row == [run[r] EXCEPT !.status = s, !.owner = NoWorker, !.elapsed = e]
<1>1. /\ row \in Row /\ row.status = s /\ row.owner = NoWorker
      /\ row.revision = run[r].revision
      /\ row.attempt = run[r].attempt /\ row.parent = run[r].parent
  <2>1. run[r] \in Row
    BY DEF TypeInv, TypeOK
  <2> QED BY <2>1 DEF Row
<1>2. run' = [run EXCEPT ![r] = row]
  OBVIOUS
<1> HIDE DEF row
<1> QED BY <1>1, <1>2, RowFacts DEF LeavesRunning

LEMMA FailFacts ==
    ASSUME TypeInv, NEW w \in Workers, FailRun(w)
    PROVE  LET r == worker[w].run
               retry == worker[w].attempt < Limit[run[r].revision]
           IN  /\ r \in Runs
               /\ LeavesRunning(r, IF retry THEN "queued" ELSE "failed")
               /\ GivenUp(w, r)
<1> DEFINE r == worker[w].run
           s == IF worker[w].attempt < Limit[run[r].revision]
                THEN "queued" ELSE "failed"
<1>1. r \in Runs
  BY DEF FailRun, TypeInv, TypeOK
<1>2. /\ run[r].status = "running"
      /\ run' = [run EXCEPT ![r] = [run[r] EXCEPT !.status = s,
                                                  !.owner = NoWorker,
                                                  !.elapsed = FALSE]]
      /\ RowUpdated(r, w, Idle)
  BY DEF FailRun, FailOutcome, Owns
<1>3. s \in Status
  BY DEF Status, Settled
<1> HIDE DEF s
<1>4. LeavesRunning(r, s)
  BY <1>1, <1>2, <1>3, LeavesRunningFacts
<1>5. GivenUp(w, r)
  BY <1>1, <1>2, GivenUpFacts
<1> QED BY <1>1, <1>4, <1>5 DEF s

LEMMA ReleaseFacts ==
    ASSUME TypeInv, NEW w \in Workers, ReleaseRun(w)
    PROVE  /\ worker[w].run \in Runs
           /\ LeavesRunning(worker[w].run, "queued")
           /\ \/ GivenUp(w, worker[w].run)
              \/ worker' = [worker EXCEPT ![w] = Idle]
<1> DEFINE r == worker[w].run
<1>1. r \in Runs
  BY DEF ReleaseRun, TypeInv, TypeOK
<1>2. /\ run[r].status = "running"
      /\ run' = [run EXCEPT ![r] = [run[r] EXCEPT !.status = "queued",
                                                  !.owner = NoWorker,
                                                  !.elapsed = TRUE]]
      /\ RowUpdated(r, w, Idle) \/ worker' = [worker EXCEPT ![w] = Idle]
  BY DEF ReleaseRun, Owns
<1>3. "queued" \in Status
  BY DEF Status
<1>4. LeavesRunning(r, "queued")
  BY <1>1, <1>2, <1>3, LeavesRunningFacts
<1>5. GivenUp(w, r) \/ worker' = [worker EXCEPT ![w] = Idle]
  BY <1>1, <1>2, GivenUpFacts
<1> QED BY <1>1, <1>4, <1>5

\* Row r succeeds and row c, if any, becomes its continuation.
Succeeds(r, c) ==
    /\ run[r].status = "running"
    /\ c # r
    /\ run' \in [Runs -> Row]
    /\ run'[r].status = "succeeded"
    /\ run'[r].owner = NoWorker
    /\ run'[r].revision = run[r].revision
    /\ run'[r].attempt = run[r].attempt
    /\ run'[r].parent = run[r].parent
    /\ c \in Runs => /\ run[c].status = "absent"
                     /\ run'[c] = NewRow(run[r].revision, r)
    /\ \A q \in Runs : q \notin {r, c} => run'[q] = run[q]

LEMMA NewRowFacts ==
    ASSUME NEW v \in Revisions \cup {NoRevision}, NEW p \in Runs \cup {NoRun}
    PROVE  /\ NewRow(v, p) \in Row
           /\ NewRow(v, p).status = "queued"
           /\ NewRow(v, p).revision = v
           /\ NewRow(v, p).attempt = 0
           /\ NewRow(v, p).parent = p
BY DEF NewRow, Row, Status

LEMMA CompleteFacts ==
    ASSUME TypeInv, NEW w \in Workers, NEW c \in Runs \cup {NoRun},
           NEW k \in Keys \cup {NoKey}, NEW n \in BOOLEAN,
           CompleteRun(w, c, k, n)
    PROVE  /\ worker[w].run \in Runs
           /\ Succeeds(worker[w].run, c)
           /\ GivenUp(w, worker[w].run)
<1> DEFINE r == worker[w].run
           row == [run[r] EXCEPT !.status = "succeeded", !.owner = NoWorker,
                                 !.elapsed = FALSE]
           child == NewRow(run[r].revision, r)
<1>1. r \in Runs /\ run[r] \in Row /\ run \in [Runs -> Row]
  BY DEF CompleteRun, Executing, TypeInv, TypeOK
<1>2. /\ row \in Row /\ row.status = "succeeded" /\ row.owner = NoWorker
      /\ row.revision = run[r].revision
      /\ row.attempt = run[r].attempt /\ row.parent = run[r].parent
  BY <1>1 DEF Row, Status, Settled
<1>3. child \in Row
  BY <1>1, NewRowFacts DEF Row
<1>4. /\ run[r].status = "running"
      /\ c # NoRun => run[c].status = "absent"
      /\ RowUpdated(r, w, Idle)
      /\ run' = [q \in Runs |-> CASE q = r -> row
                                  [] q = c -> child
                                  [] OTHER -> run[q]]
  BY DEF CompleteRun, Owns
<1>5. c # r
  BY <1>1, <1>4, NoneAssumption
<1> HIDE DEF row, child, r
<1>6. /\ run' \in [Runs -> Row]
      /\ run'[r] = row
      /\ c \in Runs => run'[c] = child
      /\ \A q \in Runs : q \notin {r, c} => run'[q] = run[q]
  BY <1>1, <1>2, <1>3, <1>4, <1>5
<1>7. Succeeds(r, c)
  BY <1>2, <1>4, <1>5, <1>6, NoneAssumption DEF Succeeds, child
<1>8. GivenUp(w, r)
  BY <1>1, <1>4, GivenUpFacts
<1> QED BY <1>1, <1>7, <1>8 DEF r

-----------------------------------------------------------------------------
(* Type correctness.                                                       *)

LEMMA TypeStep == TypeInv /\ [Next]_vars => TypeInv'
<1> SUFFICES ASSUME TypeInv, [Next]_vars PROVE TypeInv'
    OBVIOUS
<1>1. ASSUME NEW r \in Runs, NEW v \in Revisions, EnqueueRun(r, v) PROVE TypeInv'
  <2> DEFINE row == NewRow(v, NoRun)
  <2>1. row \in Row /\ row.revision = v /\ row.status = "queued"
    BY NewRowFacts
  <2>2. run' = [run EXCEPT ![r] = row]
    BY <1>1 DEF EnqueueRun
  <2> HIDE DEF row
  <2>3. run' \in [Runs -> Row] /\ run'[r] = row
        /\ \A q \in Runs : q # r => run'[q] = run[q]
    BY <2>1, <2>2, RowFacts
  <2> QED BY <1>1, <2>1, <2>3
          DEF EnqueueRun, TypeInv, TypeOK, EligibleLive, Executing, Worker
<1>e. ASSUME NEW r \in Runs, run' = [run EXCEPT ![r].elapsed = TRUE],
             UNCHANGED <<state, opened, outbox, worker, recovered, clashed>>,
             faults' \in 0..MaxFaults
      PROVE TypeInv'
  <2>1. TypeOK'
    BY <1>e, ElapsedFacts DEF TypeInv, TypeOK, Executing
  <2>2. EligibleLive'
    BY <1>e, ElapsedFacts DEF TypeInv, TypeOK, EligibleLive, Worker
  <2> QED BY <2>1, <2>2 DEF TypeInv
<1>2. ASSUME NEW r \in Runs, BecomeDue(r) PROVE TypeInv'
  BY <1>2, <1>e DEF BecomeDue, TypeInv, TypeOK
<1>3. ASSUME NEW r \in Runs, LeaseExpires(r) PROVE TypeInv'
  BY <1>3, <1>e DEF LeaseExpires, Expire, TypeInv, TypeOK
<1>4. ASSUME NEW r \in Runs, LeaseLapses(r) PROVE TypeInv'
  <2>1. faults' \in 0..MaxFaults
    BY <1>4, BoundAssumption DEF LeaseLapses, TypeInv, TypeOK
  <2> QED BY <1>4, <2>1, <1>e DEF LeaseLapses, Expire
<1>5. ASSUME NEW w \in Workers, AcquireSnapshot(w) PROVE TypeInv'
  <2> DEFINE next == [Idle EXCEPT !.pc = "acquiring", !.eligible = Candidates,
                                  !.seen = state]
  <2>1. /\ next \in Worker /\ next.pc = "acquiring"
        /\ next.eligible = Candidates
    <3>1. Candidates \subseteq Runs /\ state \in [Automations -> State]
      BY DEF Candidates, TypeInv, TypeOK
    <3> QED BY <3>1, IdleFacts DEF Worker
  <2>2. \A r \in Candidates : run[r].status \in {"queued", "running"}
    BY DEF Candidates, Candidate
  <2>3. worker' = [worker EXCEPT ![w] = next]
    BY <1>5 DEF AcquireSnapshot
  <2> HIDE DEF next
  <2>4. /\ worker' \in [Workers -> Worker]
        /\ worker'[w] = next
        /\ \A u \in Workers : u # w => worker'[u] = worker[u]
    BY <2>1, <2>3 DEF TypeInv, TypeOK
  <2> QED BY <1>5, <2>1, <2>2, <2>4
          DEF AcquireSnapshot, TypeInv, TypeOK, EligibleLive, Executing
<1>6. ASSUME NEW w \in Workers, NEW r \in Runs, AcquireClaim(w, r) PROVE TypeInv'
  <2>1. recovered' \in [Runs -> Nat]
    BY <1>6 DEF AcquireClaim, TypeInv, TypeOK
  <2>2. UNCHANGED <<state, opened, outbox, clashed, faults>>
    BY <1>6 DEF AcquireClaim
  <2>3. TypeOK'
    BY <1>6, <2>1, <2>2, ClaimFacts DEF TypeInv, TypeOK, Executing
  <2>4. EligibleLive'
    <3>1. ASSUME NEW u \in Workers, NEW q \in worker'[u].eligible
          PROVE  run'[q].status \in {"queued", "running"}
      <4>1. q \in worker[u].eligible /\ q # r
        BY <1>6, <3>1, ClaimFacts
      <4>2. q \in Runs /\ run[q].status \in {"queued", "running"}
        BY <4>1 DEF TypeInv, TypeOK, EligibleLive, Worker
      <4> QED BY <1>6, <4>1, <4>2, ClaimFacts
    <3>2. ASSUME NEW u \in Workers, worker'[u].pc # "acquiring"
          PROVE  worker'[u].eligible = {}
      BY <1>6, <3>2, ClaimFacts DEF TypeInv, EligibleLive
    <3> QED BY <3>1, <3>2 DEF EligibleLive
  <2> QED BY <2>3, <2>4 DEF TypeInv
<1>7. ASSUME NEW w \in Workers, worker' = [worker EXCEPT ![w] = Idle],
             UNCHANGED <<run, state, opened, outbox, recovered>>,
             clashed' \subseteq Runs, faults' \in 0..MaxFaults
      PROVE TypeInv'
  BY <1>7, IdleFacts DEF TypeInv, TypeOK, EligibleLive, Executing
<1>8. ASSUME NEW w \in Workers, AcquireNone(w) PROVE TypeInv'
  BY <1>8, <1>7 DEF AcquireNone, TypeInv, TypeOK
<1>9. ASSUME NEW w \in Workers, RenewRunLease(w) PROVE TypeInv'
  <2>1. UNCHANGED <<state, opened, outbox, recovered, clashed, faults>>
    BY <1>9 DEF RenewRunLease
  <2>2. TypeOK'
    BY <1>9, <2>1, RenewFacts DEF TypeInv, TypeOK, Executing
  <2>3. EligibleLive'
    BY <1>9, RenewFacts DEF TypeInv, TypeOK, EligibleLive, Worker
  <2> QED BY <2>2, <2>3 DEF TypeInv
<1>10. ASSUME NEW w \in Workers, RenewRefused(w) PROVE TypeInv'
  <2>1. /\ worker' \in [Workers -> Worker]
        /\ \A u \in Workers : /\ worker'[u].run = worker[u].run
                              /\ worker'[u].eligible = worker[u].eligible
                              /\ u # w => worker'[u].pc = worker[u].pc
        /\ worker[w].pc = "executing" /\ worker'[w].pc = "cancelled"
    BY <1>10 DEF RenewRefused, TypeInv, TypeOK, Worker
  <2> QED BY <1>10, <2>1 DEF RenewRefused, TypeInv, TypeOK, EligibleLive, Executing
<1>11. ASSUME NEW w \in Workers, NEW c \in Runs \cup {NoRun},
              NEW k \in Keys \cup {NoKey}, NEW n \in BOOLEAN,
              CompleteRun(w, c, k, n)
       PROVE TypeInv'
  <2> DEFINE r == worker[w].run
             a == AutomationOf[run[r].revision]
  <2>1. r \in Runs /\ Succeeds(r, c) /\ GivenUp(w, r)
    BY <1>11, CompleteFacts
  <2>2. run[r].revision \in Revisions /\ a \in Automations
    BY <2>1, ManifestAssumption DEF Succeeds, TypeInv, TypeOK
  <2>3. state' \in [Automations -> State]
    <3> DEFINE new == [version |-> worker[w].seen[a].version + 1,
                       value |-> worker[w].seen[a].value \cup {r}]
    <3>1. worker[w].seen[a] \in State
      BY <2>2 DEF TypeInv, TypeOK, Worker
    <3>2. worker[w].seen[a].version + 1 \in Nat
      <4>1. PICK i \in Nat : i = worker[w].seen[a].version
        BY <3>1 DEF State
      <4>2. i + 1 \in Nat
        OBVIOUS
      <4> QED BY <4>1, <4>2
    <3>3. worker[w].seen[a].value \cup {r} \in SUBSET Runs
      BY <2>1, <3>1 DEF State
    <3>4. new \in State
      BY <3>2, <3>3 DEF State
    <3>5. state' = IF run[r].revision \in Stateful
                   THEN [state EXCEPT ![a] = new] ELSE state
      BY <1>11 DEF CompleteRun, Automation
    <3> HIDE DEF new, r, a
    <3> QED BY <3>4, <3>5 DEF TypeInv, TypeOK
  <2>4. opened' \in [Runs -> Keys \cup {NoKey}]
    BY <1>11 DEF CompleteRun, TypeInv, TypeOK
  <2>5. outbox' \subseteq {"approval.requested", "automation.notification",
                           "run.failed"} \X Runs
    BY <1>11, <2>1 DEF CompleteRun, TypeInv, TypeOK
  <2>6. UNCHANGED <<recovered, clashed, faults>>
    BY <1>11 DEF CompleteRun
  <2>7. \A q \in Runs : run'[q].status # "absent" => run'[q].revision \in Revisions
    <3>1. c \in Runs => run'[c].revision = run[r].revision
      BY <2>1, NewRowFacts, <2>2 DEF Succeeds
    <3> QED BY <2>1, <2>2, <3>1 DEF Succeeds, TypeInv, TypeOK
  <2> HIDE DEF r, a
  <2>8. TypeOK'
    BY <2>1, <2>3, <2>4, <2>5, <2>6, <2>7, IdleFacts
       DEF Succeeds, GivenUp, TypeInv, TypeOK, Executing
  <2>9. EligibleLive'
    <3>1. ASSUME NEW u \in Workers, NEW q \in worker'[u].eligible
          PROVE  run'[q].status \in {"queued", "running"}
      <4>1. u # w /\ q \in worker[u].eligible /\ q # r
        BY <2>1, <3>1, IdleFacts DEF GivenUp
      <4>2. q \in Runs /\ run[q].status \in {"queued", "running"}
        BY <4>1 DEF TypeInv, TypeOK, EligibleLive, Worker
      <4> QED BY <2>1, <4>1, <4>2 DEF Succeeds
    <3>2. ASSUME NEW u \in Workers, worker'[u].pc # "acquiring"
          PROVE  worker'[u].eligible = {}
      BY <2>1, <3>2, IdleFacts DEF GivenUp, TypeInv, EligibleLive
    <3> QED BY <3>1, <3>2 DEF EligibleLive
  <2> QED BY <2>8, <2>9 DEF TypeInv
<1>12. ASSUME NEW w \in Workers, NEW k \in Keys \cup {NoKey}, CompleteRejected(w, k)
       PROVE TypeInv'
  <2>1. clashed' \subseteq Runs
    BY <1>12 DEF CompleteRejected, Executing, TypeInv, TypeOK
  <2> QED BY <1>12, <2>1, <1>7 DEF CompleteRejected, TypeInv, TypeOK
<1>13. ASSUME NEW w \in Workers, NEW r \in Runs, NEW s \in Status \ {"absent"},
              LeavesRunning(r, s),
              \/ GivenUp(w, r)
              \/ s = "queued" /\ worker' = [worker EXCEPT ![w] = Idle],
              UNCHANGED <<state, opened, clashed>>,
              outbox' \subseteq {"approval.requested", "automation.notification",
                                 "run.failed"} \X Runs,
              recovered' \in [Runs -> Nat], faults' \in 0..MaxFaults
       PROVE TypeInv'
  <2>1. CASE GivenUp(w, r)
    <3>1. TypeOK'
      BY <1>13, <2>1, IdleFacts DEF LeavesRunning, GivenUp, TypeInv, TypeOK, Executing
    <3>2. EligibleLive'
      BY <1>13, <2>1, IdleFacts
         DEF LeavesRunning, GivenUp, TypeInv, TypeOK, EligibleLive, Worker
    <3> QED BY <3>1, <3>2 DEF TypeInv
  <2>2. CASE s = "queued" /\ worker' = [worker EXCEPT ![w] = Idle]
    <3>1. TypeOK'
      BY <1>13, <2>2, IdleFacts DEF LeavesRunning, TypeInv, TypeOK, Executing
    <3>2. EligibleLive'
      BY <1>13, <2>2, IdleFacts DEF LeavesRunning, TypeInv, TypeOK, EligibleLive, Worker
    <3> QED BY <3>1, <3>2 DEF TypeInv
  <2> QED BY <1>13, <2>1, <2>2
<1>14. ASSUME NEW w \in Workers, FailRun(w) PROVE TypeInv'
  <2> DEFINE r == worker[w].run
             s == IF worker[w].attempt < Limit[run[r].revision]
                  THEN "queued" ELSE "failed"
  <2>1. r \in Runs /\ LeavesRunning(r, s) /\ GivenUp(w, r)
    BY <1>14, FailFacts
  <2>2. outbox' \subseteq {"approval.requested", "automation.notification",
                           "run.failed"} \X Runs
    BY <1>14, <2>1 DEF FailRun, FailOutcome, TypeInv, TypeOK
  <2>3. s \in Status \ {"absent"}
    BY DEF Status, Settled
  <2>4. UNCHANGED <<state, opened, recovered, clashed, faults>>
    BY <1>14 DEF FailRun, FailOutcome
  <2> HIDE DEF r, s
  <2> QED BY <2>1, <2>2, <2>3, <2>4, <1>13 DEF TypeInv, TypeOK
<1>15. ASSUME NEW w \in Workers, FailRejected(w) PROVE TypeInv'
  BY <1>15, <1>7 DEF FailRejected, TypeInv, TypeOK
<1>16. ASSUME NEW w \in Workers, ReleaseRun(w) PROVE TypeInv'
  <2> DEFINE r == worker[w].run
  <2>1. /\ r \in Runs /\ LeavesRunning(r, "queued")
        /\ GivenUp(w, r) \/ worker' = [worker EXCEPT ![w] = Idle]
    BY <1>16, ReleaseFacts
  <2>2. recovered' \in [Runs -> Nat] /\ UNCHANGED <<state, opened, outbox, clashed>>
    BY <1>16, <2>1 DEF ReleaseRun, TypeInv, TypeOK
  <2>3. faults' \in 0..MaxFaults
    BY <1>16, BoundAssumption DEF ReleaseRun, TypeInv, TypeOK
  <2>4. "queued" \in Status \ {"absent"}
    BY DEF Status
  <2> HIDE DEF r
  <2> QED BY <2>1, <2>2, <2>3, <2>4, <1>13 DEF TypeInv, TypeOK
<1>17. ASSUME NEW w \in Workers, Abandon(w) PROVE TypeInv'
  <2>1. faults' \in 0..MaxFaults
    BY <1>17, BoundAssumption DEF Abandon, TypeInv, TypeOK
  <2> QED BY <1>17, <2>1, <1>7 DEF Abandon, TypeInv, TypeOK
<1>18. CASE UNCHANGED vars
  BY <1>18 DEF vars, TypeInv, TypeOK, EligibleLive, Executing
<1> QED BY <1>1, <1>2, <1>3, <1>4, <1>5, <1>6, <1>8, <1>9, <1>10, <1>11, <1>12,
           <1>14, <1>15, <1>16, <1>17, <1>18
        DEF Next, WorkerStep, RowStep, Acquire, Complete

\* The queue's state keeps its types, and no statement in flight can claim a
\* row that has been settled.
THEOREM TypeCorrect == Spec => []TypeOK
<1>1. TypeInv => TypeOK
  BY DEF TypeInv
<1> QED BY InitType, TypeStep, <1>1, PTL DEF Spec

-----------------------------------------------------------------------------
(* Every step is of one of five kinds.  The invariants below are proved    *)
(* from the kinds, so each is a matter of five cases and not of fifteen    *)
(* actions.                                                                *)

\* Worker u keeps its attempt, drops it, or begins a statement on the current
\* automation state; it does not get a new attempt.
Carries(u) ==
    /\ Executing(u)' => /\ Executing(u)
                        /\ worker'[u].run = worker[u].run
                        /\ worker'[u].attempt = worker[u].attempt
    /\ worker'[u].pc # "idle" =>
           \/ worker[u].pc # "idle" /\ worker'[u].seen = worker[u].seen
           \/ worker'[u].seen = state

\* Time passes or a worker does something that no row records.
Quiet ==
    /\ \A q \in Runs : /\ run'[q].status = run[q].status
                       /\ run'[q].revision = run[q].revision
                       /\ run'[q].attempt = run[q].attempt
                       /\ run'[q].owner = run[q].owner
                       /\ run'[q].parent = run[q].parent
                       /\ run[q].status \in Settled => run'[q] = run[q]
    /\ \A u \in Workers : Carries(u)
    /\ UNCHANGED <<state, opened, outbox, recovered>>

Queues(r, v) ==
    /\ run[r].status = "absent"
    /\ run'[r] = NewRow(v, NoRun)
    /\ \A q \in Runs : q # r => run'[q] = run[q]
    /\ \A u \in Workers : Carries(u)
    /\ UNCHANGED <<state, opened, outbox, recovered>>

Claims(w, r) ==
    /\ run[r].status \in {"queued", "running"}
    /\ run'[r].status = "running"
    /\ run'[r].owner = w
    /\ run'[r].attempt = run[r].attempt + 1
    /\ run'[r].revision = run[r].revision
    /\ run'[r].parent = run[r].parent
    /\ \A q \in Runs : q # r => run'[q] = run[q]
    /\ worker'[w].run = r
    /\ worker'[w].attempt = run[r].attempt + 1
    /\ worker[w].pc # "idle" /\ worker'[w].seen = worker[w].seen
    /\ \A u \in Workers : u # w => Carries(u)
    /\ recovered' = IF run[r].status = "running"
                    THEN [recovered EXCEPT ![r] = @ + 1] ELSE recovered
    /\ UNCHANGED <<state, opened, outbox>>

\* Worker w, executing run r under the fence, gives it back or fails it.
HandsBack(w, r, s) ==
    /\ Executing(w) /\ worker[w].run = r /\ Owns(w, r)
    /\ LeavesRunning(r, s)
    /\ \A u \in Workers : Carries(u)
    /\ \/ /\ s = "queued"
          /\ worker[w].attempt < Limit[run[r].revision]
          /\ UNCHANGED <<outbox, recovered>>
       \/ /\ s = "queued"
          /\ recovered' = [recovered EXCEPT ![r] = @ + 1]
          /\ UNCHANGED outbox
       \/ /\ s = "failed"
          /\ ~(worker[w].attempt < Limit[run[r].revision])
          /\ outbox' = outbox \cup {<<"run.failed", r>>}
          /\ UNCHANGED recovered
    /\ UNCHANGED <<state, opened>>

Commits(w, r, c, k, n) ==
    LET a == AutomationOf[run[r].revision]
        seen == worker[w].seen[a]
    IN
    /\ Executing(w) /\ worker[w].run = r /\ Owns(w, r)
    /\ Succeeds(r, c)
    /\ \A u \in Workers : Carries(u)
    /\ run[r].revision \in Stateful => seen.version = state[a].version
    /\ state' = IF run[r].revision \in Stateful
                THEN [state EXCEPT ![a] = [version |-> seen.version + 1,
                                           value |-> seen.value \cup {r}]]
                ELSE state
    /\ opened' = [opened EXCEPT ![r] = k]
    /\ outbox' = outbox
                 \cup (IF k # NoKey THEN {<<"approval.requested", r>>} ELSE {})
                 \cup (IF n THEN {<<"automation.notification", r>>} ELSE {})
    /\ UNCHANGED recovered

\* What a commit does to the rows: the run succeeds as it was, and its
\* continuation, if it has one, is a new queued row of the same revision.
LEMMA CommitRows ==
    ASSUME NEW w \in Workers, NEW r \in Runs, NEW c \in Runs \cup {NoRun},
           NEW k, NEW n, Commits(w, r, c, k, n)
    PROVE  /\ run[r].status = "running" /\ run'[r].status = "succeeded"
           /\ run'[r].revision = run[r].revision /\ run'[r].parent = run[r].parent
           /\ c # r
           /\ c \in Runs => /\ run[c].status = "absent" /\ run'[c].status = "queued"
                            /\ run'[c].parent = r /\ run'[c].revision = run[r].revision
           /\ \A q \in Runs : q \notin {r, c} => run'[q] = run[q]
<1>1. Succeeds(r, c)
  BY DEF Commits
<1>2. c \in Runs => /\ run'[c].status = "queued" /\ run'[c].parent = r
                   /\ run'[c].revision = run[r].revision
  <2>1. c \in Runs => run'[c] = NewRow(run[r].revision, r)
    BY <1>1 DEF Succeeds
  <2>2. /\ NewRow(run[r].revision, r).status = "queued"
        /\ NewRow(run[r].revision, r).parent = r
        /\ NewRow(run[r].revision, r).revision = run[r].revision
    BY DEF NewRow
  <2> QED BY <2>1, <2>2
<1> QED BY <1>1, <1>2 DEF Succeeds

StepKind ==
    \/ Quiet
    \/ \E r \in Runs, v \in Revisions : Queues(r, v)
    \/ \E w \in Workers, r \in Runs : Claims(w, r)
    \/ \E w \in Workers, r \in Runs : \E s \in {"queued", "failed"} : HandsBack(w, r, s)
    \/ \E w \in Workers, r \in Runs, c \in Runs \cup {NoRun},
          k \in Keys \cup {NoKey}, n \in BOOLEAN : Commits(w, r, c, k, n)

LEMMA CarriesAll == (worker' = worker) => \A u \in Workers : Carries(u)
BY DEF Carries, Executing

LEMMA CarriesIdle ==
    ASSUME TypeInv, NEW w \in Workers, worker' = [worker EXCEPT ![w] = Idle]
    PROVE  \A u \in Workers : Carries(u)
BY IdleFacts DEF Carries, Executing, TypeInv, TypeOK

LEMMA CarriesGivenUp ==
    ASSUME TypeInv, NEW w \in Workers, NEW r \in Runs, GivenUp(w, r)
    PROVE  \A u \in Workers : Carries(u)
BY IdleFacts DEF Carries, Executing, GivenUp

LEMMA StepKinds == TypeInv /\ [Next]_vars => StepKind
<1> SUFFICES ASSUME TypeInv, [Next]_vars PROVE StepKind
    OBVIOUS
<1>1. ASSUME NEW r \in Runs, NEW v \in Revisions, EnqueueRun(r, v) PROVE StepKind
  <2>1. Queues(r, v)
    BY <1>1, CarriesAll DEF EnqueueRun, Queues, TypeInv, TypeOK
  <2> QED BY <2>1 DEF StepKind
<1>2. ASSUME NEW r \in Runs, BecomeDue(r) \/ LeaseExpires(r) \/ LeaseLapses(r)
      PROVE StepKind
  <2>1. /\ run' = [run EXCEPT ![r].elapsed = TRUE]
        /\ UNCHANGED <<state, opened, outbox, worker, recovered>>
        /\ run[r].status \notin Settled
    BY <1>2 DEF BecomeDue, LeaseExpires, LeaseLapses, LiveLease, Expire, Settled
  <2>2. Quiet
    BY <2>1, ElapsedFacts, CarriesAll DEF Quiet
  <2> QED BY <2>2 DEF StepKind
<1>3. ASSUME NEW w \in Workers, AcquireSnapshot(w) PROVE StepKind
  <2> DEFINE next == [Idle EXCEPT !.pc = "acquiring", !.eligible = Candidates,
                                  !.seen = state]
  <2>1. next.pc = "acquiring" /\ next.seen = state
    BY IdleFacts DEF Worker
  <2>2. worker' = [worker EXCEPT ![w] = next]
    BY <1>3 DEF AcquireSnapshot
  <2> HIDE DEF next
  <2>3. \A u \in Workers : Carries(u)
    BY <2>1, <2>2 DEF Carries, Executing, TypeInv, TypeOK
  <2>4. Quiet
    BY <1>3, <2>3 DEF Quiet, AcquireSnapshot
  <2> QED BY <2>4 DEF StepKind
<1>4. ASSUME NEW w \in Workers, NEW r \in Runs, AcquireClaim(w, r) PROVE StepKind
  <2>1. \A u \in Workers : u # w => Carries(u)
    BY <1>4, ClaimFacts DEF Carries, Executing
  <2>2. Claims(w, r)
    <3>1. /\ recovered' = IF run[r].status = "running"
                          THEN [recovered EXCEPT ![r] = @ + 1] ELSE recovered
          /\ UNCHANGED <<state, opened, outbox>>
          /\ worker[w].pc # "idle"
      BY <1>4 DEF AcquireClaim
    <3> QED BY <1>4, <2>1, <3>1, ClaimFacts DEF Claims
  <2> QED BY <2>2 DEF StepKind
<1>5. ASSUME NEW w \in Workers, worker' = [worker EXCEPT ![w] = Idle],
             UNCHANGED <<run, state, opened, outbox, recovered>>
      PROVE StepKind
  BY <1>5, CarriesIdle DEF Quiet, StepKind
<1>6. ASSUME NEW w \in Workers, NEW k \in Keys \cup {NoKey},
             AcquireNone(w) \/ CompleteRejected(w, k) \/ FailRejected(w) \/ Abandon(w)
      PROVE StepKind
  BY <1>6, <1>5 DEF AcquireNone, CompleteRejected, FailRejected, Abandon
<1>7. ASSUME NEW w \in Workers, RenewRunLease(w) PROVE StepKind
  <2>1. \A u \in Workers : Carries(u)
    BY <1>7, RenewFacts DEF Carries, Executing
  <2>2. Quiet
    BY <1>7, <2>1, RenewFacts DEF Quiet, RenewRunLease, Owns, Settled
  <2> QED BY <2>2 DEF StepKind
<1>8. ASSUME NEW w \in Workers, RenewRefused(w) PROVE StepKind
  <2>1. \A u \in Workers : /\ worker'[u].run = worker[u].run
                           /\ worker'[u].attempt = worker[u].attempt
                           /\ worker'[u].seen = worker[u].seen
                           /\ u # w => worker'[u].pc = worker[u].pc
    BY <1>8 DEF RenewRefused, TypeInv, TypeOK, Worker
  <2>2. \A u \in Workers : Carries(u)
    BY <1>8, <2>1 DEF Carries, Executing, RenewRefused
  <2>3. Quiet
    BY <1>8, <2>2 DEF Quiet, RenewRefused
  <2> QED BY <2>3 DEF StepKind
<1>9. ASSUME NEW w \in Workers, NEW c \in Runs \cup {NoRun},
             NEW k \in Keys \cup {NoKey}, NEW n \in BOOLEAN,
             CompleteRun(w, c, k, n)
      PROVE StepKind
  <2>1. /\ worker[w].run \in Runs
        /\ Succeeds(worker[w].run, c)
        /\ GivenUp(w, worker[w].run)
    BY <1>9, CompleteFacts
  <2>2. \A u \in Workers : Carries(u)
    BY <2>1, CarriesGivenUp
  <2>3. Commits(w, worker[w].run, c, k, n)
    BY <1>9, <2>1, <2>2
       DEF Commits, CompleteRun, StateCurrent, Automation, Executing
  <2> QED BY <2>1, <2>3 DEF StepKind
<1>10. ASSUME NEW w \in Workers, FailRun(w) PROVE StepKind
  <2> DEFINE r == worker[w].run
             retry == worker[w].attempt < Limit[run[r].revision]
             s == IF retry THEN "queued" ELSE "failed"
  <2>1. r \in Runs /\ LeavesRunning(r, s) /\ GivenUp(w, r)
    BY <1>10, FailFacts
  <2>2. \A u \in Workers : Carries(u)
    BY <2>1, CarriesGivenUp
  <2>3. HandsBack(w, r, s)
    BY <1>10, <2>1, <2>2 DEF HandsBack, FailRun, FailOutcome
  <2> QED BY <2>1, <2>3 DEF StepKind
<1>11. ASSUME NEW w \in Workers, ReleaseRun(w) PROVE StepKind
  <2> DEFINE r == worker[w].run
  <2>1. /\ r \in Runs /\ LeavesRunning(r, "queued")
        /\ GivenUp(w, r) \/ worker' = [worker EXCEPT ![w] = Idle]
    BY <1>11, ReleaseFacts
  <2>2. \A u \in Workers : Carries(u)
    BY <2>1, CarriesGivenUp, CarriesIdle
  <2>3. HandsBack(w, r, "queued")
    BY <1>11, <2>1, <2>2 DEF HandsBack, ReleaseRun
  <2> QED BY <2>1, <2>3 DEF StepKind
<1>12. CASE UNCHANGED vars
  BY <1>12, CarriesAll DEF vars, Quiet, StepKind
<1> QED BY <1>1, <1>2, <1>3, <1>4, <1>6, <1>7, <1>8, <1>9, <1>10, <1>11, <1>12
        DEF Next, WorkerStep, RowStep, Acquire, Complete

-----------------------------------------------------------------------------
(* The fence.                                                              *)

LEMMA FenceStep == TypeInv /\ FenceIsAttempt /\ StepKind => FenceIsAttempt'
<1> SUFFICES ASSUME TypeInv, FenceIsAttempt, StepKind,
                    NEW u \in Workers, Executing(u)', Owns(u, worker[u].run)'
             PROVE  worker'[u].attempt = run'[worker'[u].run].attempt
  BY DEF FenceIsAttempt
<1> USE DEF FenceIsAttempt, Owns
<1>0. Executing(u) => worker[u].run \in Runs
  BY DEF TypeInv, TypeOK
<1>1. CASE Quiet
  BY <1>1, <1>0 DEF Quiet, Carries
<1>2. ASSUME NEW r \in Runs, NEW v \in Revisions, Queues(r, v)
      PROVE  worker'[u].attempt = run'[worker'[u].run].attempt
  BY <1>2, <1>0, NewRowFacts, NoneAssumption DEF Queues, Carries
<1>3. ASSUME NEW w \in Workers, NEW r \in Runs, Claims(w, r)
      PROVE  worker'[u].attempt = run'[worker'[u].run].attempt
  BY <1>3, <1>0 DEF Claims, Carries
<1>4. ASSUME NEW w \in Workers, NEW r \in Runs, NEW t \in {"queued", "failed"},
             HandsBack(w, r, t)
      PROVE  worker'[u].attempt = run'[worker'[u].run].attempt
  BY <1>4, <1>0 DEF HandsBack, LeavesRunning, Carries
<1>5. ASSUME NEW w \in Workers, NEW r \in Runs, NEW c \in Runs \cup {NoRun},
             NEW k \in Keys \cup {NoKey}, NEW n \in BOOLEAN, Commits(w, r, c, k, n)
      PROVE  worker'[u].attempt = run'[worker'[u].run].attempt
  <2>1. Succeeds(r, c) /\ Carries(u)
    BY <1>5 DEF Commits
  <2>2. c \in Runs => run'[c].status = "queued"
    BY <2>1 DEF Succeeds, NewRow
  <2> QED BY <2>1, <2>2, <1>0 DEF Succeeds, Carries
<1> QED BY <1>1, <1>2, <1>3, <1>4, <1>5 DEF StepKind

\* FenceIsAttempt holds for any number of workers and any lapse of leases:
\* comparing lease_owner is as good as comparing attempt numbers, because a
\* worker executes one run at a time.
THEOREM Fencing == Spec => []FenceIsAttempt
<1>1. Init => FenceIsAttempt
  BY IdleFacts DEF Init, FenceIsAttempt, Executing
<1>2. TypeInv /\ FenceIsAttempt /\ [Next]_vars => (TypeInv /\ FenceIsAttempt)'
  BY TypeStep, StepKinds, FenceStep
<1> QED BY InitType, <1>1, <1>2, PTL DEF Spec

-----------------------------------------------------------------------------
(* Automation state.                                                       *)

\* What a worker was given as automation state is an earlier version of it, and
\* the very same value when the version is still current.
SnapshotSound ==
    \A w \in Workers : worker[w].pc # "idle" =>
        \A a \in Automations :
            /\ worker[w].seen[a].version <= state[a].version
            /\ worker[w].seen[a].version = state[a].version
                   => worker[w].seen[a].value = state[a].value

StateInv == NoLostUpdate /\ SnapshotSound

\* What worker u has seen after a step, against the state before it.
LEMMA SeenBefore ==
    ASSUME TypeInv, SnapshotSound, NEW u \in Workers, NEW a \in Automations,
           worker'[u].pc # "idle",
           \/ Carries(u)
           \/ worker[u].pc # "idle" /\ worker'[u].seen = worker[u].seen
    PROVE  /\ worker'[u].seen[a].version \in Nat
           /\ worker'[u].seen[a].version <= state[a].version
           /\ worker'[u].seen[a].version = state[a].version
                  => worker'[u].seen[a].value = state[a].value
<1>1. state[a].version \in Nat /\ worker[u].seen[a].version \in Nat
  BY DEF TypeInv, TypeOK, State, Worker
<1>2. CASE worker[u].pc # "idle" /\ worker'[u].seen = worker[u].seen
  BY <1>1, <1>2 DEF SnapshotSound
<1>3. CASE worker'[u].seen = state
  BY <1>1, <1>3
<1> QED BY <1>2, <1>3 DEF Carries

\* A step that neither writes state nor makes a run succeed.
LEMMA StateKept ==
    ASSUME TypeInv, StateInv, UNCHANGED state,
           \A u \in Workers : Carries(u) \/ /\ worker[u].pc # "idle"
                                            /\ worker'[u].seen = worker[u].seen,
           \A q \in Runs : /\ run'[q].status = "succeeded" <=> run[q].status = "succeeded"
                           /\ run[q].status = "succeeded" => run'[q].revision = run[q].revision
    PROVE  StateInv'
<1>1. \A a \in Automations : Succeeded(a)' = Succeeded(a)
  BY DEF Succeeded, Automation
<1>2. NoLostUpdate'
  BY <1>1 DEF StateInv, NoLostUpdate
<1>3. SnapshotSound'
  BY SeenBefore DEF StateInv, SnapshotSound
<1> QED BY <1>2, <1>3 DEF StateInv

LEMMA StateStep == TypeInv /\ StateInv /\ StepKind => StateInv'
<1> SUFFICES ASSUME TypeInv, StateInv, StepKind PROVE StateInv'
    OBVIOUS
<1>1. CASE Quiet
  BY <1>1, StateKept DEF Quiet
<1>2. ASSUME NEW r \in Runs, NEW v \in Revisions, Queues(r, v) PROVE StateInv'
  BY <1>2, StateKept, NewRowFacts, NoneAssumption DEF Queues
<1>3. ASSUME NEW w \in Workers, NEW r \in Runs, Claims(w, r) PROVE StateInv'
  BY <1>3, StateKept DEF Claims
<1>4. ASSUME NEW w \in Workers, NEW r \in Runs, NEW t \in {"queued", "failed"},
             HandsBack(w, r, t)
      PROVE  StateInv'
  BY <1>4, StateKept DEF HandsBack, LeavesRunning
<1>5. ASSUME NEW w \in Workers, NEW r \in Runs, NEW c \in Runs \cup {NoRun},
             NEW k \in Keys \cup {NoKey}, NEW n \in BOOLEAN, Commits(w, r, c, k, n)
      PROVE  StateInv'
  <2>1. /\ run[r].status = "running" /\ run'[r].status = "succeeded"
        /\ run'[r].revision = run[r].revision
        /\ c # r
        /\ c \in Runs => run[c].status = "absent" /\ run'[c].status = "queued"
        /\ \A q \in Runs : q \notin {r, c} => run'[q] = run[q]
    BY <1>5, CommitRows
  <2>2. \A u \in Workers : Carries(u)
    BY <1>5 DEF Commits
  <2>3. PICK a \in Automations : a = AutomationOf[run[r].revision]
    BY <2>1, ManifestAssumption DEF TypeInv, TypeOK
  <2>4. CASE run[r].revision \in Stateful
    <3>1. worker[w].pc # "idle" /\ worker[w].seen[a].version = state[a].version
      BY <1>5, <2>3, <2>4 DEF Commits, Executing
    <3>2. worker[w].seen[a].value = state[a].value
      BY <2>3, <3>1 DEF StateInv, SnapshotSound
    <3>3. state[a].version \in Nat /\ state[a].value \subseteq Runs
      BY <2>3 DEF TypeInv, TypeOK, State
    <3> DEFINE new == [version |-> state[a].version + 1,
                       value |-> state[a].value \cup {r}]
    <3>4. state' = [state EXCEPT ![a] = new]
      BY <1>5, <2>3, <2>4, <3>1, <3>2 DEF Commits
    <3>5. /\ state'[a].version = state[a].version + 1
          /\ state'[a].value = state[a].value \cup {r}
          /\ \A b \in Automations : b # a => state'[b] = state[b]
      BY <2>3, <3>4 DEF TypeInv, TypeOK
    <3> HIDE DEF new
    <3>6. state[a].value = Succeeded(a) /\ r \notin state[a].value
      BY <2>1, <2>3 DEF StateInv, NoLostUpdate, Succeeded
    <3>7. Succeeded(a)' = Succeeded(a) \cup {r}
      BY <2>1, <2>3, <2>4, NoneAssumption DEF Succeeded, Automation
    <3>8. \A b \in Automations : b # a => Succeeded(b)' = Succeeded(b)
      BY <2>1, <2>3, NoneAssumption DEF Succeeded, Automation
    <3>9. Cardinality(state[a].value \cup {r}) = Cardinality(state[a].value) + 1
      <4>1. IsFiniteSet(state[a].value)
        BY <3>3, FiniteAssumption, FS_Subset
      <4> QED BY <4>1, <3>6, FS_AddElement
    <3>10. NoLostUpdate'
      <4>1. state'[a].value = Succeeded(a)'
        BY <3>5, <3>6, <3>7
      <4>2. state'[a].version = Cardinality(state'[a].value)
        BY <2>3, <3>5, <3>9 DEF StateInv, NoLostUpdate
      <4>3. ASSUME NEW b \in Automations
            PROVE  /\ state'[b].value = Succeeded(b)'
                   /\ state'[b].version = Cardinality(state'[b].value)
        <5>1. CASE b = a
          BY <5>1, <4>1, <4>2
        <5>2. CASE b # a
          <6>1. /\ state[b].value = Succeeded(b)
                /\ state[b].version = Cardinality(state[b].value)
            BY DEF StateInv, NoLostUpdate
          <6>2. state'[b] = state[b] /\ Succeeded(b)' = Succeeded(b)
            BY <5>2, <3>5, <3>8
          <6> QED BY <6>1, <6>2
        <5> QED BY <5>1, <5>2
      <4> QED BY <4>3 DEF NoLostUpdate
    <3>11. ASSUME NEW u \in Workers, worker'[u].pc # "idle", NEW b \in Automations
           PROVE  /\ worker'[u].seen[b].version <= state'[b].version
                  /\ worker'[u].seen[b].version = state'[b].version
                         => worker'[u].seen[b].value = state'[b].value
      <4>1. /\ worker'[u].seen[b].version \in Nat
            /\ worker'[u].seen[b].version <= state[b].version
            /\ worker'[u].seen[b].version = state[b].version
                   => worker'[u].seen[b].value = state[b].value
        BY <2>2, <3>11, SeenBefore DEF StateInv
      <4>2. CASE b = a
        <5> DEFINE x == worker'[u].seen[a].version
                   y == state[a].version
        <5>1. x \in Nat /\ y \in Nat /\ x <= y
          BY <4>1, <4>2, <3>3
        <5>2. state'[a].version = y + 1
          BY <3>5
        <5> HIDE DEF x, y
        <5>3. x <= y + 1 /\ x # y + 1
          BY <5>1
        <5> QED BY <4>2, <5>2, <5>3 DEF x
      <4>3. CASE b # a
        BY <4>1, <4>3, <3>5
      <4> QED BY <4>2, <4>3
    <3> QED BY <3>10, <3>11 DEF StateInv, SnapshotSound
  <2>5. CASE run[r].revision \notin Stateful
    <3>1. UNCHANGED state
      BY <1>5, <2>5 DEF Commits
    <3>2. \A b \in Automations : Succeeded(b)' = Succeeded(b)
      BY <2>1, <2>5, NoneAssumption DEF Succeeded, Automation
    <3>3. NoLostUpdate'
      BY <3>1, <3>2 DEF StateInv, NoLostUpdate
    <3>4. SnapshotSound'
      BY <2>2, <3>1, SeenBefore DEF StateInv, SnapshotSound
    <3> QED BY <3>3, <3>4 DEF StateInv
  <2> QED BY <2>4, <2>5
<1> QED BY <1>1, <1>2, <1>3, <1>4, <1>5 DEF StepKind

LEMMA InitState == Init => StateInv
<1> SUFFICES ASSUME Init PROVE StateInv
    OBVIOUS
<1>1. \A a \in Automations : Succeeded(a) = {} /\ state[a].value = {}
                              /\ state[a].version = 0
  BY DEF Init, Succeeded, NewRow, EmptyState
<1>2. Cardinality({}) = 0
  BY FS_EmptySet
<1>3. SnapshotSound
  BY IdleFacts DEF Init, SnapshotSound
<1> QED BY <1>1, <1>2, <1>3 DEF StateInv, NoLostUpdate

\* No state transition of a successful run is lost or applied twice, for any
\* number of workers, overlapping attempts, crashes and lapsed leases.
THEOREM StateSerialized == Spec => []NoLostUpdate
<1>1. TypeInv /\ StateInv /\ [Next]_vars => (TypeInv /\ StateInv)'
  BY TypeStep, StepKinds, StateStep
<1>2. StateInv => NoLostUpdate
  BY DEF StateInv
<1> QED BY InitType, InitState, <1>1, <1>2, PTL DEF Spec

-----------------------------------------------------------------------------
(* Effects.                                                                *)

\* Continuation c belongs to a successful run of the same revision and is its
\* only one.
ContinuationSound(c) ==
    run[c].parent # NoRun =>
        /\ run[run[c].parent].status = "succeeded"
        /\ run[c].revision = run[run[c].parent].revision
        /\ \A d \in Runs : run[d].parent = run[c].parent => d = c

\* What is durable about run r agrees with its status.
ReleasedSound(r) ==
    /\ opened[r] # NoKey => /\ run[r].status = "succeeded"
                            /\ <<"approval.requested", r>> \in outbox
    /\ <<"automation.notification", r>> \in outbox => run[r].status = "succeeded"
    /\ <<"run.failed", r>> \in outbox <=> run[r].status = "failed"

LEMMA EffectsSplit ==
    EffectsOfSuccess <=> \A r \in Runs : ContinuationSound(r) /\ ReleasedSound(r)
BY DEF EffectsOfSuccess, ContinuationSound, ReleasedSound

\* A step that keeps parents and the rows of successful runs keeps continuations.
LEMMA ContinuationsKept ==
    ASSUME TypeInv, \A q \in Runs : ContinuationSound(q),
           \A q \in Runs : run'[q].parent = run[q].parent,
           \A q \in Runs : run[q].status = "succeeded" =>
               run'[q].status = "succeeded" /\ run'[q].revision = run[q].revision,
           \A q \in Runs : run[q].parent # NoRun => run'[q].revision = run[q].revision
    PROVE  \A q \in Runs : ContinuationSound(q)'
<1>1. \A q \in Runs : run[q].parent \in Runs \cup {NoRun}
  BY DEF TypeInv, TypeOK, Row
<1> QED BY <1>1 DEF ContinuationSound

LEMMA EffectsStep == TypeInv /\ EffectsOfSuccess /\ StepKind => EffectsOfSuccess'
<1> SUFFICES ASSUME TypeInv, EffectsOfSuccess, StepKind
             PROVE  \A q \in Runs : ContinuationSound(q)' /\ ReleasedSound(q)'
  BY DEF EffectsOfSuccess, ContinuationSound, ReleasedSound
<1>0. /\ \A q \in Runs : ContinuationSound(q)
      /\ \A q \in Runs : ReleasedSound(q)
      /\ \A q \in Runs : run[q].parent \in Runs \cup {NoRun}
  BY EffectsSplit DEF TypeInv, TypeOK, Row
<1>1. CASE Quiet
  <2>1. \A q \in Runs : ContinuationSound(q)'
    BY <1>0, <1>1, ContinuationsKept DEF Quiet
  <2> QED BY <1>0, <1>1, <2>1 DEF Quiet, ReleasedSound
<1>2. ASSUME NEW r \in Runs, NEW v \in Revisions, Queues(r, v)
      PROVE  \A q \in Runs : ContinuationSound(q)' /\ ReleasedSound(q)'
  <2>1. run'[r].parent = NoRun /\ run'[r].status = "queued"
    BY <1>2 DEF Queues, NewRow
  <2>2. \A q \in Runs : q # r => run'[q] = run[q]
    BY <1>2 DEF Queues
  <2>3. run[r].status = "absent"
    BY <1>2 DEF Queues
  <2>4. ASSUME NEW q \in Runs PROVE ContinuationSound(q)'
    BY <1>0, <2>1, <2>2, <2>3, NoneAssumption DEF ContinuationSound
  <2>5. ASSUME NEW q \in Runs PROVE ReleasedSound(q)'
    BY <1>0, <1>2, <2>1, <2>2, <2>3 DEF ReleasedSound, Queues
  <2> QED BY <2>4, <2>5
<1>3. ASSUME NEW w \in Workers, NEW r \in Runs, Claims(w, r)
      PROVE  \A q \in Runs : ContinuationSound(q)' /\ ReleasedSound(q)'
  <2>1. \A q \in Runs : ContinuationSound(q)'
    BY <1>0, <1>3, ContinuationsKept DEF Claims
  <2> QED BY <1>0, <1>3, <2>1 DEF Claims, ReleasedSound
<1>4. ASSUME NEW w \in Workers, NEW r \in Runs, NEW t \in {"queued", "failed"},
             HandsBack(w, r, t)
      PROVE  \A q \in Runs : ContinuationSound(q)' /\ ReleasedSound(q)'
  <2>1. /\ run[r].status = "running" /\ run'[r].status = t
        /\ run'[r].parent = run[r].parent /\ run'[r].revision = run[r].revision
        /\ \A q \in Runs : q # r => run'[q] = run[q]
    BY <1>4 DEF HandsBack, LeavesRunning
  <2>2. /\ outbox' = IF t = "failed" THEN outbox \cup {<<"run.failed", r>>} ELSE outbox
        /\ opened' = opened
    BY <1>4 DEF HandsBack
  <2>3. \A q \in Runs : ContinuationSound(q)'
    BY <1>0, <2>1, ContinuationsKept
  <2>4. ASSUME NEW q \in Runs PROVE ReleasedSound(q)'
    BY <1>0, <2>1, <2>2 DEF ReleasedSound
  <2> QED BY <2>3, <2>4
<1>5. ASSUME NEW w \in Workers, NEW r \in Runs, NEW c \in Runs \cup {NoRun},
             NEW k \in Keys \cup {NoKey}, NEW n \in BOOLEAN, Commits(w, r, c, k, n)
      PROVE  \A q \in Runs : ContinuationSound(q)' /\ ReleasedSound(q)'
  <2>1. /\ run[r].status = "running" /\ run'[r].status = "succeeded"
        /\ run'[r].revision = run[r].revision /\ run'[r].parent = run[r].parent
        /\ c # r
        /\ c \in Runs => /\ run[c].status = "absent" /\ run'[c].status = "queued"
                         /\ run'[c].parent = r /\ run'[c].revision = run[r].revision
        /\ \A q \in Runs : q \notin {r, c} => run'[q] = run[q]
    BY <1>5, CommitRows
  <2>2. \A q \in Runs : run[q].parent # r /\ (c \in Runs => run[q].parent # c)
    BY <1>0, <2>1, NoneAssumption DEF ContinuationSound
  <2>3. /\ opened' = [opened EXCEPT ![r] = k]
        /\ outbox' = outbox
                 \cup (IF k # NoKey THEN {<<"approval.requested", r>>} ELSE {})
                 \cup (IF n THEN {<<"automation.notification", r>>} ELSE {})
    BY <1>5 DEF Commits
  <2>4. ASSUME NEW q \in Runs PROVE ContinuationSound(q)'
    <3>1. CASE q = c
      BY <2>1, <2>2, <3>1, NoneAssumption DEF ContinuationSound
    <3>2. CASE q # c
      <4> SUFFICES ASSUME run'[q].parent # NoRun
                   PROVE  /\ run'[run'[q].parent].status = "succeeded"
                          /\ run'[q].revision = run'[run'[q].parent].revision
                          /\ \A d \in Runs : run'[d].parent = run'[q].parent => d = q
        BY DEF ContinuationSound
      <4>1. run'[q].parent = run[q].parent /\ run'[q].revision = run[q].revision
        BY <2>1, <3>2
      <4>2. /\ run[q].parent \in Runs
            /\ run[run[q].parent].status = "succeeded"
            /\ run[q].revision = run[run[q].parent].revision
            /\ \A d \in Runs : run[d].parent = run[q].parent => d = q
        BY <1>0, <4>1 DEF ContinuationSound
      <4>3. run'[run[q].parent] = run[run[q].parent]
        BY <2>1, <2>2, <4>2
      <4>4. ASSUME NEW d \in Runs, run'[d].parent = run[q].parent PROVE d = q
        BY <2>1, <2>2, <4>2, <4>4
      <4> QED BY <4>1, <4>2, <4>3, <4>4
    <3> QED BY <3>1, <3>2
  <2>5. ASSUME NEW q \in Runs PROVE ReleasedSound(q)'
    <3>1. opened'[r] = k /\ \A p \in Runs : p # r => opened'[p] = opened[p]
      BY <2>3 DEF TypeInv, TypeOK
    <3>2. ReleasedSound(q) /\ ReleasedSound(r)
      BY <1>0
    <3>3. CASE q = r
      BY <2>1, <2>3, <3>1, <3>2, <3>3 DEF ReleasedSound
    <3>4. CASE q = c
      BY <2>1, <2>3, <3>1, <3>2, <3>4 DEF ReleasedSound
    <3>5. CASE q \notin {r, c}
      BY <2>1, <2>3, <3>1, <3>2, <3>5 DEF ReleasedSound
    <3> QED BY <3>3, <3>4, <3>5
  <2> QED BY <2>4, <2>5
<1> QED BY <1>1, <1>2, <1>3, <1>4, <1>5 DEF StepKind

\* Continuations, approvals and notifications are released by successful runs
\* alone: no failed, repeated or superseded attempt leaves one behind.
THEOREM EffectsSound == Spec => []EffectsOfSuccess
<1>1. Init => EffectsOfSuccess
  BY DEF Init, EffectsOfSuccess, NewRow
<1>2. TypeInv /\ EffectsOfSuccess /\ [Next]_vars => (TypeInv /\ EffectsOfSuccess)'
  BY TypeStep, StepKinds, EffectsStep
<1> QED BY InitType, <1>1, <1>2, PTL DEF Spec

-----------------------------------------------------------------------------
(* Attempts.                                                               *)

\* RetryBudget is not inductive: a queued run has an attempt left.
RetryInv ==
    \A r \in Runs : run[r].status # "absent" =>
        /\ run[r].attempt <= Limit[run[r].revision] + recovered[r]
        /\ run[r].status = "failed" => run[r].attempt >= Limit[run[r].revision]
        /\ run[r].status = "queued" =>
               run[r].attempt < Limit[run[r].revision] + recovered[r]

\* The numbers the budget is about.
LEMMA BudgetTypes ==
    ASSUME TypeInv, NEW r \in Runs
    PROVE  /\ run[r].attempt \in Nat /\ recovered[r] \in Nat
           /\ run[r].status # "absent" => Limit[run[r].revision] \in Nat \ {0}
BY ManifestAssumption DEF TypeInv, TypeOK, Row

LEMMA RetryStep ==
    TypeInv /\ FenceIsAttempt /\ RetryInv /\ StepKind => RetryInv'
<1> SUFFICES ASSUME TypeInv, FenceIsAttempt, RetryInv, StepKind,
                    NEW q \in Runs, run'[q].status # "absent"
             PROVE  /\ run'[q].attempt <= Limit[run'[q].revision] + recovered'[q]
                    /\ run'[q].status = "failed" =>
                           run'[q].attempt >= Limit[run'[q].revision]
                    /\ run'[q].status = "queued" =>
                           run'[q].attempt < Limit[run'[q].revision] + recovered'[q]
  BY DEF RetryInv
<1> DEFINE Goal == /\ run'[q].attempt <= Limit[run'[q].revision] + recovered'[q]
                   /\ run'[q].status = "failed" =>
                          run'[q].attempt >= Limit[run'[q].revision]
                   /\ run'[q].status = "queued" =>
                          run'[q].attempt < Limit[run'[q].revision] + recovered'[q]
<1>0. /\ run[q].attempt \in Nat /\ recovered[q] \in Nat
      /\ run[q].status # "absent" => Limit[run[q].revision] \in Nat \ {0}
      /\ \A v \in Revisions : Limit[v] \in Nat \ {0}
  BY BudgetTypes, ManifestAssumption
<1>1. ASSUME run'[q].status = run[q].status, run'[q].attempt = run[q].attempt,
             run'[q].revision = run[q].revision, recovered'[q] = recovered[q]
      PROVE  Goal
  BY <1>1 DEF RetryInv
<1>2. CASE Quiet
  BY <1>1, <1>2 DEF Quiet
\* A new row has made no attempt.
<1>n. ASSUME NEW v \in Revisions, NEW p, run'[q] = NewRow(v, p),
             recovered'[q] = recovered[q]
      PROVE  Goal
  <2>1. run'[q].attempt = 0 /\ run'[q].revision = v /\ run'[q].status = "queued"
    BY <1>n DEF NewRow
  <2>2. Limit[v] \in Nat \ {0}
    BY <1>0
  <2> QED BY <1>0, <1>n, <2>1, <2>2
<1>3. ASSUME NEW r \in Runs, NEW v \in Revisions, Queues(r, v) PROVE Goal
  BY <1>1, <1>n, <1>3 DEF Queues
<1>4. ASSUME NEW w \in Workers, NEW r \in Runs, Claims(w, r) PROVE Goal
  <2>1. CASE q # r
    BY <1>1, <1>4, <2>1 DEF Claims, TypeInv, TypeOK
  <2>2. CASE q = r /\ run[r].status = "queued"
    BY <1>0, <1>4, <2>2 DEF Claims, RetryInv
  <2>3. CASE q = r /\ run[r].status = "running"
    <3>1. recovered'[q] = recovered[q] + 1
      BY <1>4, <2>3 DEF Claims, TypeInv, TypeOK
    <3> QED BY <1>0, <1>4, <2>3, <3>1 DEF Claims, RetryInv
  <2> QED BY <1>4, <2>1, <2>2, <2>3 DEF Claims
<1>5. ASSUME NEW w \in Workers, NEW r \in Runs, NEW t \in {"queued", "failed"},
             HandsBack(w, r, t)
      PROVE  Goal
  <2>0. /\ LeavesRunning(r, t) /\ run[r].status = "running"
        /\ worker[w].attempt = run[r].attempt
    BY <1>5 DEF HandsBack, LeavesRunning, FenceIsAttempt
  <2>1. CASE q # r
    <3>1. recovered'[q] = recovered[q]
      BY <1>5, <2>1 DEF HandsBack, TypeInv, TypeOK
    <3> QED BY <1>1, <2>0, <2>1, <3>1 DEF LeavesRunning
  <2>2. CASE q = r
    <3>0. /\ run'[q].attempt = run[q].attempt /\ run'[q].revision = run[q].revision
          /\ run'[q].status = t
          /\ run[q].attempt <= Limit[run[q].revision] + recovered[q]
      BY <2>0, <2>2 DEF LeavesRunning, RetryInv
    <3>1. CASE t = "queued" /\ run[q].attempt < Limit[run[q].revision]
                            /\ recovered' = recovered
      BY <1>0, <2>0, <2>2, <3>0, <3>1
    <3>2. CASE t = "queued" /\ recovered' = [recovered EXCEPT ![r] = @ + 1]
      <4>1. recovered'[q] = recovered[q] + 1
        BY <2>2, <3>2 DEF TypeInv, TypeOK
      <4> QED BY <1>0, <2>0, <2>2, <3>0, <3>2, <4>1
    <3>3. CASE t = "failed" /\ ~(run[q].attempt < Limit[run[q].revision])
                            /\ recovered' = recovered
      BY <1>0, <2>0, <2>2, <3>0, <3>3
    <3> QED BY <1>5, <2>0, <2>2, <3>1, <3>2, <3>3 DEF HandsBack
  <2> QED BY <2>1, <2>2
<1>6. ASSUME NEW w \in Workers, NEW r \in Runs, NEW c \in Runs \cup {NoRun},
             NEW k \in Keys \cup {NoKey}, NEW n \in BOOLEAN, Commits(w, r, c, k, n)
      PROVE  Goal
  <2>1. Succeeds(r, c) /\ recovered' = recovered
    BY <1>6 DEF Commits
  <2>2. run[r].revision \in Revisions
    BY <2>1 DEF Succeeds, TypeInv, TypeOK
  <2>3. CASE q = c
    BY <1>n, <2>1, <2>2, <2>3 DEF Succeeds
  <2>4. CASE q = r
    BY <1>0, <2>1, <2>4 DEF Succeeds, RetryInv
  <2>5. CASE q \notin {r, c}
    BY <1>1, <2>1, <2>5 DEF Succeeds
  <2> QED BY <2>3, <2>4, <2>5
<1> QED BY <1>2, <1>3, <1>4, <1>5, <1>6 DEF StepKind

\* Attempts stay within retries + 1 plus the attempts that ended unrecorded,
\* and no run fails with an attempt left, whatever the interleaving.
THEOREM BudgetKept == Spec => []RetryBudget
<1>1. Init => FenceIsAttempt
  BY IdleFacts DEF Init, FenceIsAttempt, Executing
<1>2. Init => RetryInv
  BY DEF Init, RetryInv, NewRow
<1>3. TypeInv /\ FenceIsAttempt /\ RetryInv /\ [Next]_vars
          => (TypeInv /\ FenceIsAttempt /\ RetryInv)'
  BY TypeStep, StepKinds, FenceStep, RetryStep
<1>4. RetryInv => RetryBudget
  BY DEF RetryInv, RetryBudget
<1> QED BY InitType, <1>1, <1>2, <1>3, <1>4, PTL DEF Spec

-----------------------------------------------------------------------------
(* Settling.                                                               *)

\* What SettledByLatestAttempt asks of a step, for one row.
SettlesSoundly(r) ==
    /\ run[r].status = "running" /\ run'[r].status # "running" =>
           \E w \in Workers :
               /\ Owns(w, r) /\ Executing(w)
               /\ worker[w].run = r
               /\ worker[w].attempt = run[r].attempt
    /\ run[r].status \in Settled => run'[r] = run[r]

LEMMA SettleStep ==
    TypeInv /\ FenceIsAttempt /\ StepKind => \A r \in Runs : SettlesSoundly(r)
<1> SUFFICES ASSUME TypeInv, FenceIsAttempt, StepKind, NEW q \in Runs
             PROVE  SettlesSoundly(q)
    OBVIOUS
<1>1. CASE Quiet
  BY <1>1 DEF Quiet, SettlesSoundly
<1>2. ASSUME NEW r \in Runs, NEW v \in Revisions, Queues(r, v) PROVE SettlesSoundly(q)
  BY <1>2 DEF Queues, SettlesSoundly, Settled
<1>3. ASSUME NEW w \in Workers, NEW r \in Runs, Claims(w, r) PROVE SettlesSoundly(q)
  BY <1>3 DEF Claims, SettlesSoundly, Settled
<1>4. ASSUME NEW w \in Workers, NEW r \in Runs, NEW t \in {"queued", "failed"},
             HandsBack(w, r, t)
      PROVE  SettlesSoundly(q)
  BY <1>4 DEF HandsBack, LeavesRunning, FenceIsAttempt, SettlesSoundly, Settled
<1>5. ASSUME NEW w \in Workers, NEW r \in Runs, NEW c \in Runs \cup {NoRun},
             NEW k \in Keys \cup {NoKey}, NEW n \in BOOLEAN, Commits(w, r, c, k, n)
      PROVE  SettlesSoundly(q)
  BY <1>5 DEF Commits, Succeeds, FenceIsAttempt, SettlesSoundly, Settled
<1> QED BY <1>1, <1>2, <1>3, <1>4, <1>5 DEF StepKind

\* A row leaves "running" only at the hands of its newest attempt, and settled
\* rows are final.
THEOREM SettlingFenced == Spec => SettledByLatestAttempt
<1>1. Init => FenceIsAttempt
  BY IdleFacts DEF Init, FenceIsAttempt, Executing
<1>2. TypeInv /\ FenceIsAttempt /\ [Next]_vars => (TypeInv /\ FenceIsAttempt)'
  BY TypeStep, StepKinds, FenceStep
<1>3. TypeInv /\ FenceIsAttempt /\ [Next]_vars
          => [\A r \in Runs :
                 /\ run[r].status = "running" /\ run'[r].status # "running" =>
                        \E w \in Workers :
                            /\ Owns(w, r) /\ Executing(w)
                            /\ worker[w].run = r
                            /\ worker[w].attempt = run[r].attempt
                 /\ run[r].status \in Settled => run'[r] = run[r]]_vars
  BY StepKinds, SettleStep DEF SettlesSoundly
<1> QED BY InitType, <1>1, <1>2, <1>3, PTL DEF Spec, SettledByLatestAttempt

-----------------------------------------------------------------------------
(* Refinement.  The mapping forgets owners, attempts and leases.           *)

Phase(r) == IF run[r].status \in {"queued", "running"}
            THEN "pending" ELSE run[r].status

LedgerPhase == [r \in Runs |-> Phase(r)]
LedgerRevision == [r \in Runs |-> run[r].revision]
LedgerParent == [r \in Runs |-> run[r].parent]

LEMMA LedgerInit == Init => Ledger!Init
<1> SUFFICES ASSUME Init PROVE Ledger!Init
    OBVIOUS
<1>1. \A r \in Runs : /\ run[r].status = "absent" /\ run[r].revision = NoRevision
                      /\ run[r].parent = NoRun
  BY DEF Init, NewRow
<1> QED BY <1>1 DEF Ledger!Init, Init, EmptyState

\* A step that keeps every run's phase, revision and parent is a stutter.
LEMMA LedgerStutter ==
    ASSUME \A q \in Runs : /\ Phase(q)' = Phase(q)
                           /\ run'[q].revision = run[q].revision
                           /\ run'[q].parent = run[q].parent,
           UNCHANGED <<state, opened, outbox>>
    PROVE  UNCHANGED Ledger!vars
<1>1. /\ LedgerPhase' = LedgerPhase
      /\ LedgerRevision' = LedgerRevision
      /\ LedgerParent' = LedgerParent
  BY DEF LedgerPhase, LedgerRevision, LedgerParent
<1> QED BY <1>1 DEF Ledger!vars, LedgerPhase, LedgerRevision, LedgerParent, Phase

LEMMA LedgerSubmit ==
    ASSUME TypeInv, NEW r \in Runs, NEW v \in Revisions, Queues(r, v),
           run[r].parent = NoRun
    PROVE  Ledger!Submit(r, v)
<1>1. /\ run[r].status = "absent" /\ run'[r].status = "queued"
      /\ run'[r].revision = v /\ run'[r].parent = NoRun
      /\ \A q \in Runs : q # r => run'[q] = run[q]
      /\ UNCHANGED <<state, opened, outbox>>
  BY DEF Queues, NewRow
<1>2. LedgerPhase[r] = "absent" /\ LedgerPhase' = [LedgerPhase EXCEPT ![r] = "pending"]
  BY <1>1 DEF LedgerPhase, Phase
<1>3. LedgerRevision' = [LedgerRevision EXCEPT ![r] = v]
  BY <1>1 DEF LedgerRevision
<1>4. LedgerParent' = LedgerParent
  BY <1>1 DEF LedgerParent
<1> QED BY <1>1, <1>2, <1>3, <1>4
        DEF Ledger!Submit, LedgerPhase, LedgerRevision, LedgerParent, Phase

LEMMA LedgerFail ==
    ASSUME TypeInv, NEW w \in Workers, NEW r \in Runs, HandsBack(w, r, "failed")
    PROVE  Ledger!Fail(r)
<1>1. /\ run[r].status = "running" /\ run'[r].status = "failed"
      /\ run'[r].revision = run[r].revision /\ run'[r].parent = run[r].parent
      /\ \A q \in Runs : q # r => run'[q] = run[q]
      /\ outbox' = outbox \cup {<<"run.failed", r>>}
      /\ UNCHANGED <<state, opened>>
  BY DEF HandsBack, LeavesRunning
<1>2. LedgerPhase[r] = "pending" /\ LedgerPhase' = [LedgerPhase EXCEPT ![r] = "failed"]
  BY <1>1 DEF LedgerPhase, Phase
<1>3. LedgerRevision' = LedgerRevision /\ LedgerParent' = LedgerParent
  BY <1>1 DEF LedgerRevision, LedgerParent
<1> QED BY <1>1, <1>2, <1>3
        DEF Ledger!Fail, LedgerPhase, LedgerRevision, LedgerParent, Phase

LEMMA LedgerSucceed ==
    ASSUME TypeInv, StateInv, NEW w \in Workers, NEW r \in Runs,
           NEW c \in Runs \cup {NoRun}, NEW k \in Keys \cup {NoKey},
           NEW n \in BOOLEAN, Commits(w, r, c, k, n)
    PROVE  Ledger!Succeed(r, c, k, n)
<1> DEFINE a == AutomationOf[run[r].revision]
<1>1. /\ run[r].status = "running" /\ run'[r].status = "succeeded"
      /\ run'[r].revision = run[r].revision /\ run'[r].parent = run[r].parent
      /\ c # r
      /\ c \in Runs => /\ run[c].status = "absent" /\ run'[c].status = "queued"
                       /\ run'[c].parent = r /\ run'[c].revision = run[r].revision
      /\ \A q \in Runs : q \notin {r, c} => run'[q] = run[q]
  BY CommitRows
<1>2. /\ LedgerPhase[r] = "pending"
      /\ c # NoRun => LedgerPhase[c] = "absent"
      /\ LedgerPhase' = [q \in Runs |-> CASE q = r -> "succeeded"
                                          [] q = c -> "pending"
                                          [] OTHER -> LedgerPhase[q]]
  BY <1>1 DEF LedgerPhase, Phase
<1>3. LedgerRevision' = [q \in Runs |-> IF q = c THEN LedgerRevision[r]
                                        ELSE LedgerRevision[q]]
  BY <1>1 DEF LedgerRevision
<1>4. LedgerParent' = [q \in Runs |-> IF q = c THEN r ELSE LedgerParent[q]]
  BY <1>1 DEF LedgerParent
<1>5. state' = IF run[r].revision \in Stateful
               THEN [state EXCEPT ![a] = [version |-> state[a].version + 1,
                                          value |-> state[a].value \cup {r}]]
               ELSE state
  <2>1. CASE run[r].revision \in Stateful
    <3>1. a \in Automations
      BY <1>1, ManifestAssumption DEF TypeInv, TypeOK
    <3>2. worker[w].pc # "idle" /\ worker[w].seen[a].version = state[a].version
      BY <2>1 DEF Commits, Executing
    <3>3. worker[w].seen[a].value = state[a].value
      BY <3>1, <3>2 DEF StateInv, SnapshotSound
    <3> QED BY <2>1, <3>2, <3>3 DEF Commits
  <2>2. CASE run[r].revision \notin Stateful
    BY <2>2 DEF Commits
  <2> QED BY <2>1, <2>2
<1>6. /\ opened' = [opened EXCEPT ![r] = k]
      /\ outbox' = outbox
             \cup (IF k # NoKey THEN {<<"approval.requested", r>>} ELSE {})
             \cup (IF n THEN {<<"automation.notification", r>>} ELSE {})
  BY DEF Commits
<1>7. LedgerRevision[r] = run[r].revision
  BY DEF LedgerRevision
<1> QED BY <1>2, <1>3, <1>4, <1>5, <1>6, <1>7
        DEF Ledger!Succeed, LedgerPhase, LedgerRevision, LedgerParent, Phase

\* A row that is absent has no parent, so submitting it gives it none.
AbsentFresh == \A r \in Runs : run[r].status = "absent" => run[r].parent = NoRun

LEMMA AbsentStep == TypeInv /\ AbsentFresh /\ StepKind => AbsentFresh'
<1> SUFFICES ASSUME TypeInv, AbsentFresh, StepKind, NEW q \in Runs,
                    run'[q].status = "absent"
             PROVE  run'[q].parent = NoRun
  BY DEF AbsentFresh
<1>1. CASE Quiet
  BY <1>1 DEF Quiet, AbsentFresh
<1>2. ASSUME NEW r \in Runs, NEW v \in Revisions, Queues(r, v)
      PROVE  run'[q].parent = NoRun
  BY <1>2 DEF Queues, NewRow, AbsentFresh
<1>3. ASSUME NEW w \in Workers, NEW r \in Runs, Claims(w, r)
      PROVE  run'[q].parent = NoRun
  BY <1>3 DEF Claims, AbsentFresh
<1>4. ASSUME NEW w \in Workers, NEW r \in Runs, NEW t \in {"queued", "failed"},
             HandsBack(w, r, t)
      PROVE  run'[q].parent = NoRun
  BY <1>4 DEF HandsBack, LeavesRunning, AbsentFresh
<1>5. ASSUME NEW w \in Workers, NEW r \in Runs, NEW c \in Runs \cup {NoRun},
             NEW k \in Keys \cup {NoKey}, NEW n \in BOOLEAN, Commits(w, r, c, k, n)
      PROVE  run'[q].parent = NoRun
  <2>1. c \in Runs => run'[c].status = "queued"
    BY <1>5, CommitRows
  <2> QED BY <1>5, <2>1 DEF Commits, Succeeds, AbsentFresh
<1> QED BY <1>1, <1>2, <1>3, <1>4, <1>5 DEF StepKind

LEMMA LedgerStep ==
    TypeInv /\ StateInv /\ AbsentFresh /\ StepKind => [Ledger!Next]_(Ledger!vars)
<1> SUFFICES ASSUME TypeInv, StateInv, AbsentFresh, StepKind
             PROVE  Ledger!Next \/ UNCHANGED Ledger!vars
    OBVIOUS
<1>1. CASE Quiet
  BY <1>1, LedgerStutter DEF Quiet, Phase
<1>2. ASSUME NEW r \in Runs, NEW v \in Revisions, Queues(r, v) PROVE Ledger!Next
  <2>1. Ledger!Submit(r, v)
    BY <1>2, LedgerSubmit DEF AbsentFresh, Queues
  <2> QED BY <2>1 DEF Ledger!Next
<1>3. ASSUME NEW w \in Workers, NEW r \in Runs, Claims(w, r)
      PROVE  UNCHANGED Ledger!vars
  BY <1>3, LedgerStutter DEF Claims, Phase
<1>4. ASSUME NEW w \in Workers, NEW r \in Runs, HandsBack(w, r, "queued")
      PROVE  UNCHANGED Ledger!vars
  BY <1>4, LedgerStutter DEF HandsBack, LeavesRunning, Phase
<1>5. ASSUME NEW w \in Workers, NEW r \in Runs, HandsBack(w, r, "failed")
      PROVE  Ledger!Next
  <2>1. Ledger!Fail(r)
    BY <1>5, LedgerFail
  <2> QED BY <2>1 DEF Ledger!Next
<1>6. ASSUME NEW w \in Workers, NEW r \in Runs, NEW c \in Runs \cup {NoRun},
             NEW k \in Keys \cup {NoKey}, NEW n \in BOOLEAN, Commits(w, r, c, k, n)
      PROVE  Ledger!Next
  <2>1. Ledger!Succeed(r, c, k, n)
    BY <1>6, LedgerSucceed
  <2> QED BY <2>1 DEF Ledger!Next
<1> QED BY <1>1, <1>2, <1>3, <1>4, <1>5, <1>6 DEF StepKind

\* The queue implements its ledger, for any number of runs, workers and faults.
THEOREM Refinement == Spec => ImplementsLedger
<1>1. Init => StateInv /\ AbsentFresh
  BY InitState DEF Init, AbsentFresh, NewRow
<1>2. TypeInv /\ StateInv /\ AbsentFresh /\ [Next]_vars
          => (TypeInv /\ StateInv /\ AbsentFresh)'
  BY TypeStep, StepKinds, StateStep, AbsentStep
<1>3. TypeInv /\ StateInv /\ AbsentFresh /\ [Next]_vars
          => [Ledger!Next]_(Ledger!vars)
  BY StepKinds, LedgerStep
<1> QED BY InitType, LedgerInit, <1>1, <1>2, <1>3, PTL
        DEF Spec, ImplementsLedger, Ledger!Spec
=============================================================================
