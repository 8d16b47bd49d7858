-------------------------- MODULE DeploymentsProofs --------------------------
(***************************************************************************)
(* Proofs about Deployments for any number of deployments, workers,        *)
(* packages and faults.                                                    *)
(***************************************************************************)
EXTENDS Deployments, TLAPS

-----------------------------------------------------------------------------
(* The steps of a package, and what is left of them.                       *)

Plan(c) == <<"validate">> \o Promotion[c] \o <<"activate">>

\* What may be left to do of a package: its suffixes.
Remainders(c) ==
    {Plan(c), Promotion[c] \o <<"activate">>, <<"activate">>}
        \cup (IF Promotion[c] = <<"build", "check">> THEN {<<"check", "activate">>} ELSE {})

StepsOf(t) == {t[i] : i \in DOMAIN t}

Planned(c) == {"validate", "activate"} \cup StepsOf(Promotion[c])

\* The first step of a remainder is a step of the package, and without it the
\* rest is a remainder, unless it was the last one: "activate".
LEMMA RemainderFacts ==
    ASSUME NEW c \in Contents, NEW t \in Remainders(c)
    PROVE  /\ t \in Seq(Step) /\ t # <<>>
           /\ Head(t) \in Step /\ Head(t) \in Planned(c)
           /\ Head(t) # "activate" => Tail(t) \in Remainders(c)
           /\ Head(t) = "activate" => StepsOf(t) = {"activate"}
           /\ StepsOf(t) = {Head(t)} \cup StepsOf(Tail(t))
<1> USE DEF Step, PromotionStep, Planned, StepsOf
<1>1. Promotion[c] \in {<<>>, <<"build">>, <<"check">>, <<"build", "check">>}
  BY PromotionAssumption
<1>2. \/ t = <<"validate", "activate">> /\ Promotion[c] = <<>>
      \/ t = <<"validate", "build", "activate">> /\ Promotion[c] = <<"build">>
      \/ t = <<"validate", "check", "activate">> /\ Promotion[c] = <<"check">>
      \/ t = <<"validate", "build", "check", "activate">> /\ Promotion[c] = <<"build", "check">>
      \/ t = <<"build", "activate">> /\ Promotion[c] = <<"build">>
      \/ t = <<"build", "check", "activate">> /\ Promotion[c] = <<"build", "check">>
      \/ t = <<"check", "activate">> /\ Promotion[c] \in {<<"check">>, <<"build", "check">>}
      \/ t = <<"activate">>
  <2>1. CASE Promotion[c] = <<>>
    BY <2>1 DEF Remainders, Plan
  <2>2. CASE Promotion[c] = <<"build">>
    BY <2>2 DEF Remainders, Plan
  <2>3. CASE Promotion[c] = <<"check">>
    BY <2>3 DEF Remainders, Plan
  <2>4. CASE Promotion[c] = <<"build", "check">>
    BY <2>4 DEF Remainders, Plan
  <2> QED BY <1>1, <2>1, <2>2, <2>3, <2>4
<1>3. CASE t = <<"activate">>
  BY <1>3
<1>4. CASE t = <<"check", "activate">> /\ Promotion[c] \in {<<"check">>, <<"build", "check">>}
  BY <1>4 DEF Remainders
<1>5. CASE t = <<"build", "activate">> /\ Promotion[c] = <<"build">>
  BY <1>5 DEF Remainders
<1>6. CASE t = <<"build", "check", "activate">> /\ Promotion[c] = <<"build", "check">>
  BY <1>6 DEF Remainders
<1>7. CASE t = <<"validate", "activate">> /\ Promotion[c] = <<>>
  BY <1>7 DEF Remainders
<1>8. CASE t = <<"validate", "build", "activate">> /\ Promotion[c] = <<"build">>
  BY <1>8 DEF Remainders
<1>9. CASE t = <<"validate", "check", "activate">> /\ Promotion[c] = <<"check">>
  BY <1>9 DEF Remainders
<1>10. CASE t = <<"validate", "build", "check", "activate">>
            /\ Promotion[c] = <<"build", "check">>
  BY <1>10 DEF Remainders
<1> QED BY <1>2, <1>3, <1>4, <1>5, <1>6, <1>7, <1>8, <1>9, <1>10

LEMMA PlanFacts ==
    ASSUME NEW c \in Contents
    PROVE  Plan(c) \in Remainders(c) /\ StepsOf(Plan(c)) = Planned(c)
<1>1. Promotion[c] \in {<<>>, <<"build">>, <<"check">>, <<"build", "check">>}
  BY PromotionAssumption
<1>2. StepsOf(Plan(c)) = Planned(c)
  <2>1. CASE Promotion[c] = <<>>
    BY <2>1 DEF Plan, StepsOf, Planned
  <2>2. CASE Promotion[c] = <<"build">>
    BY <2>2 DEF Plan, StepsOf, Planned
  <2>3. CASE Promotion[c] = <<"check">>
    BY <2>3 DEF Plan, StepsOf, Planned
  <2>4. CASE Promotion[c] = <<"build", "check">>
    BY <2>4 DEF Plan, StepsOf, Planned
  <2> QED BY <1>1, <2>1, <2>2, <2>3, <2>4
<1> QED BY <1>2 DEF Remainders

-----------------------------------------------------------------------------
(* The inductive invariants.                                               *)

\* A busy worker's deployment was acquired at some time, so nobody creates it
\* again, and what the worker has left to do is a remainder of its package.
WorkerShape ==
    \A w \in Workers :
        /\ worker[w].pc # "idle" =>
               row[worker[w].dep].status \notin {"absent", "queued"}
        /\ Processing(w) => worker[w].todo \in Remainders(row[worker[w].dep].content)

TypeInv == TypeOK /\ WorkerShape

\* A cancellation is requested of a queued or active deployment only.
CancelShape ==
    \A d \in Deployments :
        /\ row[d].status = "absent" => ~row[d].cancel
        /\ row[d].cancel => row[d].status \notin {"succeeded", "failed"}

\* Steps are recorded of acquired deployments, and only steps of their package.
StepsPlanned ==
    \A d \in Deployments : \A s \in Step :
        steps[d][s] # "none" => /\ row[d].status \notin {"absent", "queued"}
                                /\ s \in Planned(row[d].content)

\* What the holder of the lease has behind it is recorded as succeeded, whoever
\* recorded what before it, and the step it works on as running.
HolderSteps ==
    \A w \in Workers :
        (Processing(w) /\ Holds(w, worker[w].dep)) =>
            /\ \A s \in Planned(row[worker[w].dep].content) \ StepsOf(worker[w].todo) :
                   steps[worker[w].dep][s] = "succeeded"
            /\ worker[w].pc = "working" =>
                   steps[worker[w].dep][Head(worker[w].todo)] = "running"

StepsInv == StepsPlanned /\ HolderSteps /\ StepsAgree

-----------------------------------------------------------------------------
(* What a step does.  Every action is one of these effects.                *)

Typed ==
    /\ row \in [Deployments -> Row]
    /\ steps \in [Deployments -> [Step -> {"none", "running", "succeeded", "failed"}]]
    /\ worker \in [Workers -> Worker]

OthersKept(d) ==
    /\ \A q \in Deployments : q # d => row'[q] = row[q] /\ steps'[q] = steps[q]

WorkersKept(w) == \A u \in Workers : u # w => worker'[u] = worker[u]

\* The row keeps its owner, cancellation request and content.
RowKept(d) == /\ row'[d].owner = row[d].owner /\ row'[d].cancel = row[d].cancel
              /\ row'[d].content = row[d].content

\* The worker goes on with its deployment.
Continues(w, pc) == /\ worker'[w].pc = pc /\ worker'[w].dep = worker[w].dep
                    /\ worker'[w].claim = worker[w].claim

HistoryKept == UNCHANGED <<active, claims, activated>>

\* CreateDeployment, CreateUnanswered, RetryDeployment.
Creates(d) ==
    /\ row[d].status = "absent"
    /\ row'[d].status = "queued" /\ ~row'[d].cancel /\ row'[d].content \in Contents
    /\ UNCHANGED <<steps, worker>> /\ OthersKept(d) /\ HistoryKept

\* RequestDeploymentCancellation.
Cancels(d) ==
    /\ row[d].status \in {"queued"} \cup Active
    /\ row'[d].status = IF row[d].status = "queued" THEN "cancelled" ELSE row[d].status
    /\ row'[d].cancel
    /\ row'[d].owner = row[d].owner /\ row'[d].content = row[d].content
    /\ UNCHANGED <<steps, worker>> /\ OthersKept(d) /\ HistoryKept

\* LeaseExpires, LeaseLapses and a renewal.
Times(d) ==
    /\ row[d].status \in Active
    /\ row'[d].status = row[d].status /\ RowKept(d)
    /\ UNCHANGED <<steps, worker>> /\ OthersKept(d) /\ HistoryKept

\* AcquireDeployment.
Acquires(w, d) ==
    /\ worker[w].pc = "idle"
    /\ row[d].status \in {"queued"} \cup Active /\ ~row[d].cancel
    /\ row'[d].status = "validating" /\ row'[d].owner = w /\ ~row'[d].cancel
    /\ row'[d].content = row[d].content
    /\ worker'[w].pc = "starting" /\ worker'[w].dep = d
    /\ worker'[w].claim = claims[d] + 1
    /\ worker'[w].todo = Plan(row[d].content)
    /\ claims' = [claims EXCEPT ![d] = @ + 1]
    /\ WorkersKept(w) /\ OthersKept(d) /\ UNCHANGED <<steps, active, activated>>

\* A call that is refused, an error, an interruption or a decision: the worker
\* goes idle, or on with what it has left, or out of process().
Moves(w) ==
    /\ worker'[w].pc # "idle" =>
           worker[w].pc # "idle" /\ Continues(w, worker'[w].pc)
    /\ Processing(w)' => /\ worker'[w].pc = worker[w].pc
                         /\ worker'[w].todo = worker[w].todo
    /\ WorkersKept(w) /\ UNCHANGED <<row, steps>> /\ HistoryKept

\* RecordDeploymentStep matches the row: a step starts, succeeds or fails.
Starts(w) ==
    LET d == worker[w].dep
        s == Head(worker[w].todo)
    IN
    /\ worker[w].pc = "starting" /\ Holds(w, d)
    /\ row'[d].status \in Active /\ RowKept(d)
    /\ steps'[d] = [steps[d] EXCEPT ![s] = "running"]
    /\ Continues(w, "working") /\ worker'[w].todo = worker[w].todo
    /\ WorkersKept(w) /\ OthersKept(d) /\ HistoryKept

Succeeds(w) ==
    LET d == worker[w].dep
        s == Head(worker[w].todo)
    IN
    /\ worker[w].pc = "working" /\ Holds(w, d) /\ s # "activate"
    /\ UNCHANGED row
    /\ steps'[d] = [steps[d] EXCEPT ![s] = "succeeded"]
    /\ Continues(w, worker'[w].pc) /\ worker'[w].pc \in {"starting", "staging"}
    /\ worker'[w].todo = Tail(worker[w].todo)
    /\ WorkersKept(w) /\ OthersKept(d) /\ HistoryKept

Fails(w) ==
    LET d == worker[w].dep
        s == Head(worker[w].todo)
    IN
    /\ worker[w].pc = "working" /\ Holds(w, d)
    /\ UNCHANGED row
    /\ steps'[d] = [steps[d] EXCEPT ![s] = "failed"]
    /\ Continues(w, "checking")
    /\ WorkersKept(w) /\ OthersKept(d) /\ HistoryKept

\* SetDeploymentStage matches the row.
Stages(w) ==
    LET d == worker[w].dep IN
    /\ worker[w].pc = "staging" /\ Holds(w, d)
    /\ row'[d].status \in Active /\ RowKept(d)
    /\ UNCHANGED steps
    /\ Continues(w, "starting") /\ worker'[w].todo = worker[w].todo
    /\ WorkersKept(w) /\ OthersKept(d) /\ HistoryKept

\* ActivateDeployment commits.
Activates(w) ==
    LET d == worker[w].dep IN
    /\ worker[w].pc = "working" /\ Head(worker[w].todo) = "activate"
    /\ Holds(w, d) /\ ~row[d].cancel
    /\ row'[d].status = "succeeded" /\ ~row'[d].cancel /\ row'[d].content = row[d].content
    /\ steps'[d] = [steps[d] EXCEPT !["activate"] = IF @ = "running" THEN "succeeded" ELSE @]
    /\ active' = d /\ activated' = activated \cup {d} /\ UNCHANGED claims
    /\ Continues(w, "checking")
    /\ WorkersKept(w) /\ OthersKept(d)

\* CompleteDeploymentCancellation or FailDeployment matches the row.
Ends(w) ==
    LET d == worker[w].dep IN
    /\ Holds(w, d) /\ worker[w].pc # "idle"
    /\ row'[d].content = row[d].content /\ row'[d].cancel = row[d].cancel
    /\ \/ /\ row'[d].status = "cancelled" /\ row[d].cancel
          /\ steps'[d] = [s \in Step |-> IF steps[d][s] = "running" THEN "failed"
                                                                    ELSE steps[d][s]]
       \/ /\ row'[d].status = "failed" /\ ~row[d].cancel
          /\ steps'[d] = steps[d]
    /\ worker'[w].pc = "idle"
    /\ WorkersKept(w) /\ OthersKept(d) /\ HistoryKept

WorkerEffect(w) ==
    \/ Moves(w) \/ Starts(w) \/ Succeeds(w) \/ Fails(w) \/ Stages(w) \/ Activates(w)
    \/ Ends(w) \/ \E d \in Deployments : Acquires(w, d) \/ Times(d)

RowEffect(d) == Creates(d) \/ Cancels(d) \/ Times(d)

-----------------------------------------------------------------------------
(* The actions have these effects.                                         *)

LEMMA IdleFacts == Idle \in Worker /\ Idle.pc = "idle"
<1>1. <<>> \in Seq(Step)
  OBVIOUS
<1> QED BY <1>1 DEF Idle, Worker

LEMMA StageFacts == \A s \in Step : StageOf(s) \in Active
BY DEF Step, PromotionStep, StageOf, Active

LEMMA NewRowFacts ==
    ASSUME NEW c \in Contents, NEW o \in Deployments
    PROVE  /\ NewRow(c, o) \in Row /\ NewRow(c, o).status = "queued"
           /\ ~NewRow(c, o).cancel /\ NewRow(c, o).content = c
BY DEF NewRow, Row, Status

LEMMA InitType == Init => TypeInv
<1> SUFFICES ASSUME Init PROVE TypeInv
    OBVIOUS
<1>1. \A d \in Deployments : /\ [NewRow(NoContent, d) EXCEPT !.status = "absent"] \in Row
                             /\ [NewRow(NoContent, d) EXCEPT !.status = "absent"].status = "absent"
  BY DEF NewRow, Row, Status
<1>2. NoSteps \in [Step -> {"none", "running", "succeeded", "failed"}]
  BY DEF NoSteps
<1>3. TypeOK
  <2>1. row \in [Deployments -> Row] /\ \A d \in Deployments : row[d].status = "absent"
    BY <1>1 DEF Init
  <2> QED BY <1>2, <2>1, IdleFacts, FaultAssumption DEF Init, TypeOK, Processing
<1>4. WorkerShape
  BY IdleFacts DEF Init, WorkerShape, Processing
<1> QED BY <1>3, <1>4 DEF TypeInv

\* A row gets new contents.
LEMMA RowFacts ==
    ASSUME TypeInv, NEW d \in Deployments, NEW r \in Row,
           row' = [row EXCEPT ![d] = r]
    PROVE  /\ row' \in [Deployments -> Row] /\ row'[d] = r
           /\ \A q \in Deployments : q # d => row'[q] = row[q]
BY DEF TypeInv, TypeOK

\* A worker gets a new state.
LEMMA WorkerFacts ==
    ASSUME TypeInv, NEW w \in Workers, NEW next \in Worker,
           worker' = [worker EXCEPT ![w] = next]
    PROVE  /\ worker' \in [Workers -> Worker] /\ worker'[w] = next
           /\ WorkersKept(w)
BY DEF TypeInv, TypeOK, WorkersKept

\* A step of a deployment is recorded.
LEMMA StepFacts ==
    ASSUME TypeInv, NEW d \in Deployments,
           NEW f \in [Step -> {"none", "running", "succeeded", "failed"}],
           steps' = [steps EXCEPT ![d] = f]
    PROVE  /\ steps' \in [Deployments -> [Step -> {"none", "running", "succeeded", "failed"}]]
           /\ steps'[d] = f
           /\ \A q \in Deployments : q # d => steps'[q] = steps[q]
BY DEF TypeInv, TypeOK

LEMMA RowEffects ==
    ASSUME TypeInv, NEW d \in Deployments, RowStep(d)
    PROVE  RowEffect(d) /\ Typed'
<1>0. row[d] \in Row
  BY DEF TypeInv, TypeOK
<1> USE DEF TypeInv, TypeOK, Typed
<1>1. ASSUME NEW c \in Contents, CreateDeployment(d, c) \/ CreateUnanswered(d, c)
      PROVE  RowEffect(d) /\ Typed'
  <2>1. /\ row[d].status = "absent" /\ row' = [row EXCEPT ![d] = NewRow(c, d)]
        /\ UNCHANGED <<steps, active, worker, claims, activated>>
    BY <1>1 DEF CreateDeployment, CreateUnanswered
  <2> QED BY <2>1, NewRowFacts, RowFacts DEF RowEffect, Creates, OthersKept, HistoryKept
<1>2. ASSUME NEW o \in Deployments, RetryDeployment(o, d)
      PROVE  RowEffect(d) /\ Typed'
  <2>1. /\ row[d].status = "absent"
        /\ row' = [row EXCEPT ![d] = NewRow(row[o].content, row[o].origin)]
        /\ UNCHANGED <<steps, active, worker, claims, activated>>
    BY <1>2 DEF RetryDeployment
  <2>2. row[o].content \in Contents /\ row[o].origin \in Deployments
    BY <1>2 DEF RetryDeployment, Row
  <2> QED BY <2>1, <2>2, NewRowFacts, RowFacts DEF RowEffect, Creates, OthersKept, HistoryKept
<1>3. CASE RequestDeploymentCancellation(d)
  <2> DEFINE r == [row[d] EXCEPT !.cancel = TRUE,
                                 !.status = IF row[d].status = "queued" THEN "cancelled"
                                                                        ELSE row[d].status]
  <2>1. /\ row[d].status \in {"queued"} \cup Active
        /\ row' = [row EXCEPT ![d] = r]
        /\ UNCHANGED <<steps, active, worker, claims, activated>>
    BY <1>3 DEF RequestDeploymentCancellation, Row
  <2>2. /\ r \in Row /\ r.cancel /\ r.owner = row[d].owner /\ r.content = row[d].content
        /\ r.status = IF row[d].status = "queued" THEN "cancelled" ELSE row[d].status
    BY <1>0 DEF Row, Status, Terminal
  <2> HIDE DEF r
  <2> QED BY <2>1, <2>2, RowFacts DEF RowEffect, Cancels, OthersKept, HistoryKept
<1>4. CASE LeaseExpires(d) \/ LeaseLapses(d)
  <2> DEFINE r == [row[d] EXCEPT !.elapsed = TRUE]
  <2>1. /\ row[d].status \in Active
        /\ row' = [row EXCEPT ![d] = r]
        /\ UNCHANGED <<steps, active, worker, claims, activated>>
    BY <1>4 DEF LeaseExpires, LeaseLapses, Lapse
  <2>2. /\ r \in Row /\ r.status = row[d].status /\ r.owner = row[d].owner
        /\ r.cancel = row[d].cancel /\ r.content = row[d].content
    BY <1>0 DEF Row
  <2> HIDE DEF r
  <2> QED BY <2>1, <2>2, RowFacts DEF RowEffect, Times, RowKept, OthersKept, HistoryKept
<1> QED BY <1>1, <1>2, <1>3, <1>4 DEF RowStep

LEMMA ReturnsFacts ==
    ASSUME TypeInv, NEW w \in Workers, NEW e \in {"none", "failed", "lost", "cancelled"},
           Returns(w, e)
    PROVE  worker' \in [Workers -> Worker] /\ Continues(w, "checking") /\ WorkersKept(w)
<1> DEFINE next == [worker[w] EXCEPT !.pc = "checking", !.err = e, !.todo = <<>>]
<1>1. worker[w] \in Worker /\ <<>> \in Seq(Step)
  BY DEF TypeInv, TypeOK
<1>2. /\ next \in Worker /\ next.pc = "checking"
      /\ next.dep = worker[w].dep /\ next.claim = worker[w].claim
  BY <1>1 DEF Worker
<1>3. worker' = [worker EXCEPT ![w] = next]
  BY DEF Returns, TypeInv, TypeOK
<1> HIDE DEF next
<1> QED BY <1>2, <1>3, WorkerFacts DEF Continues

LEMMA InterruptsFacts ==
    ASSUME TypeInv, NEW w \in Workers, NEW c \in {"lost", "cancelled", "shutdown"},
           Interrupts(w, c)
    PROVE  /\ worker' \in [Workers -> Worker] /\ WorkersKept(w)
           /\ Continues(w, worker[w].pc) /\ worker'[w].todo = worker[w].todo
           /\ worker[w].pc # "idle"
<1> DEFINE next == [worker[w] EXCEPT !.cause = c]
<1>1. worker[w] \in Worker
  BY DEF TypeInv, TypeOK
<1>2. /\ next \in Worker /\ next.pc = worker[w].pc /\ next.todo = worker[w].todo
      /\ next.dep = worker[w].dep /\ next.claim = worker[w].claim
  BY <1>1 DEF Worker
<1>3. worker' = [worker EXCEPT ![w] = next] /\ worker[w].pc # "idle"
  BY DEF Interrupts, Processing, TypeInv, TypeOK
<1> HIDE DEF next
<1> QED BY <1>2, <1>3, WorkerFacts DEF Continues

\* A worker at a given call: its state changes only in where it is.
LEMMA PcFacts ==
    ASSUME TypeInv, NEW w \in Workers,
           NEW pc \in {"starting", "working", "staging", "checking", "cancelling", "failing"},
           worker' = [worker EXCEPT ![w].pc = pc]
    PROVE  /\ worker' \in [Workers -> Worker] /\ WorkersKept(w)
           /\ Continues(w, pc) /\ worker'[w].todo = worker[w].todo
<1> DEFINE next == [worker[w] EXCEPT !.pc = pc]
<1>1. worker[w] \in Worker
  BY DEF TypeInv, TypeOK
<1>2. /\ next \in Worker /\ next.pc = pc /\ next.todo = worker[w].todo
      /\ next.dep = worker[w].dep /\ next.claim = worker[w].claim
  BY <1>1 DEF Worker
<1>3. worker' = [worker EXCEPT ![w] = next]
  BY DEF TypeInv, TypeOK
<1> HIDE DEF next
<1> QED BY <1>2, <1>3, WorkerFacts DEF Continues

\* The head of a processing worker's list, and its deployment.
LEMMA AtStep ==
    ASSUME TypeInv, NEW w \in Workers, Processing(w)
    PROVE  /\ worker[w].dep \in Deployments
           /\ row[worker[w].dep] \in Row /\ row[worker[w].dep].content \in Contents
           /\ worker[w].todo \in Remainders(row[worker[w].dep].content)
           /\ Head(worker[w].todo) \in Step
<1>1. worker[w].pc # "idle"
  BY DEF Processing
<1>2. /\ worker[w].dep \in Deployments /\ row[worker[w].dep] \in Row
      /\ row[worker[w].dep].content \in Contents
      /\ worker[w].todo \in Remainders(row[worker[w].dep].content)
  BY <1>1 DEF TypeInv, TypeOK, WorkerShape
<1> QED BY <1>2, RemainderFacts

\* process() ends without having written anything.
LEMMA ReturnsMoves ==
    ASSUME TypeInv, NEW w \in Workers, NEW e \in {"none", "failed", "lost", "cancelled"},
           Returns(w, e), worker[w].pc # "idle", UNCHANGED <<row, steps>>, HistoryKept
    PROVE  Moves(w) /\ Typed'
BY ReturnsFacts DEF Moves, Typed, Continues, Processing, TypeInv, TypeOK

LEMMA InterruptsMoves ==
    ASSUME TypeInv, NEW w \in Workers, NEW c \in {"lost", "cancelled", "shutdown"},
           Interrupts(w, c), UNCHANGED <<row, steps>>, HistoryKept
    PROVE  Moves(w) /\ Typed'
BY InterruptsFacts DEF Moves, Typed, Continues, Processing, TypeInv, TypeOK

LEMMA IdleMoves ==
    ASSUME TypeInv, NEW w \in Workers, worker' = [worker EXCEPT ![w] = Idle],
           UNCHANGED <<row, steps>>, HistoryKept
    PROVE  Moves(w) /\ Typed'
<1>1. worker' \in [Workers -> Worker] /\ worker'[w].pc = "idle" /\ WorkersKept(w)
  BY IdleFacts, WorkerFacts
<1> QED BY <1>1 DEF Moves, Typed, Processing, TypeInv, TypeOK

\* The calls that are made before, beside and after the steps of a package.
LEMMA MoveEffects ==
    ASSUME TypeInv, NEW w \in Workers,
           \/ ProcessInterrupted(w) \/ BuildArtifactFails(w) \/ StoreErrors(w)
           \/ MonitorPolls(w) \/ Shutdown(w) \/ Abandon(w) \/ ActivationRefused(w)
           \/ CheckCancelled(w) \/ CheckFailed(w) \/ CheckDone(w)
    PROVE  Moves(w) /\ Typed'
<1>1. CASE ProcessInterrupted(w) \/ BuildArtifactFails(w) \/ StoreErrors(w)
           \/ ActivationRefused(w)
  <2>1. /\ Returns(w, "failed") /\ worker[w].pc # "idle" /\ UNCHANGED <<row, steps>>
        /\ HistoryKept
    BY <1>1 DEF ProcessInterrupted, BuildArtifactFails, StoreErrors, ActivationRefused,
                AtActivation, Proceeds, Processing, HistoryKept
  <2> QED BY <2>1, ReturnsMoves
<1>2. CASE MonitorPolls(w) \/ Shutdown(w)
  <2>1. PICK c \in {"lost", "cancelled", "shutdown"} : Interrupts(w, c)
    BY <1>2 DEF MonitorPolls, Shutdown
  <2>2. UNCHANGED <<row, steps>> /\ HistoryKept
    BY <1>2 DEF MonitorPolls, Shutdown, HistoryKept
  <2> QED BY <2>1, <2>2, InterruptsMoves
<1>3. CASE Abandon(w) \/ CheckDone(w)
  BY <1>3, IdleMoves DEF Abandon, CheckDone, HistoryKept
<1>4. CASE CheckCancelled(w) \/ CheckFailed(w)
  <2>1. PICK pc \in {"cancelling", "failing"} :
            /\ worker[w].pc = "checking"
            /\ worker' = [worker EXCEPT ![w].pc = pc]
            /\ UNCHANGED <<row, steps>> /\ HistoryKept
    BY <1>4 DEF CheckCancelled, CheckFailed, Decides, HistoryKept
  <2> QED BY <2>1, PcFacts DEF Moves, Typed, Continues, Processing, TypeInv, TypeOK
<1> QED BY <1>1, <1>2, <1>3, <1>4

LEMMA AcquireEffects ==
    ASSUME TypeInv, NEW w \in Workers, NEW d \in Deployments, AcquireDeployment(w, d)
    PROVE  Acquires(w, d) /\ Typed'
<1> DEFINE r == [row[d] EXCEPT !.status = "validating", !.owner = w, !.elapsed = FALSE]
           next == [pc |-> "starting", dep |-> d, claim |-> claims[d] + 1,
                    todo |-> <<"validate">> \o Promotion[row[d].content] \o <<"activate">>,
                    err |-> "none", cause |-> "none"]
<1>1. /\ worker[w].pc = "idle" /\ row[d].status \in {"queued"} \cup Active
      /\ ~row[d].cancel
  BY DEF AcquireDeployment, Acquirable
<1>2. row[d] \in Row /\ row[d].content \in Contents /\ claims[d] + 1 \in Nat
  BY <1>1 DEF TypeInv, TypeOK, Active
<1>3. /\ r \in Row /\ r.status = "validating" /\ r.owner = w
      /\ r.cancel = row[d].cancel /\ r.content = row[d].content
  BY <1>2 DEF Row, Status, Active
<1>4. next.todo = Plan(row[d].content) /\ next.todo \in Seq(Step)
  BY <1>2, PlanFacts, RemainderFacts DEF Plan
<1>5. next \in Worker /\ next.pc = "starting" /\ next.dep = d /\ next.claim = claims[d] + 1
  BY <1>2, <1>4 DEF Worker
<1>6. /\ row' = [row EXCEPT ![d] = r] /\ worker' = [worker EXCEPT ![w] = next]
      /\ claims' = [claims EXCEPT ![d] = @ + 1] /\ UNCHANGED <<steps, active, activated>>
  BY DEF AcquireDeployment, TypeInv, TypeOK
<1> HIDE DEF r, next
<1>7. row' \in [Deployments -> Row] /\ row'[d] = r
      /\ \A q \in Deployments : q # d => row'[q] = row[q]
  BY <1>3, <1>6, RowFacts
<1>8. worker' \in [Workers -> Worker] /\ worker'[w] = next /\ WorkersKept(w)
  BY <1>5, <1>6, WorkerFacts
<1> QED BY <1>1, <1>3, <1>4, <1>5, <1>6, <1>7, <1>8
        DEF Acquires, OthersKept, Typed, TypeInv, TypeOK

LEMMA RenewEffects ==
    ASSUME TypeInv, NEW w \in Workers, RenewDeploymentLease(w)
    PROVE  WorkerEffect(w) /\ Typed'
<1> DEFINE d == worker[w].dep
<1>1. Processing(w) /\ steps' = steps /\ HistoryKept
  BY DEF RenewDeploymentLease, HistoryKept
<1>2. d \in Deployments /\ row[d] \in Row
  BY <1>1, AtStep
<1>3. CASE HoldsUncancelled(w, d)
  <2> DEFINE r == [row[d] EXCEPT !.elapsed = FALSE]
  <2>1. row' = [row EXCEPT ![d] = r] /\ UNCHANGED worker /\ row[d].status \in Active
    BY <1>3 DEF RenewDeploymentLease, HoldsUncancelled, Holds
  <2>2. /\ r \in Row /\ r.status = row[d].status /\ r.owner = row[d].owner
        /\ r.cancel = row[d].cancel /\ r.content = row[d].content
    BY <1>2 DEF Row
  <2> HIDE DEF r, d
  <2>3. Times(d) /\ Typed'
    BY <1>1, <1>2, <2>1, <2>2, RowFacts
       DEF Times, RowKept, OthersKept, Typed, TypeInv, TypeOK
  <2> QED BY <1>2, <2>3 DEF WorkerEffect
<1>4. CASE ~HoldsUncancelled(w, d)
  <2>1. Interrupts(w, "lost") /\ UNCHANGED <<row, steps>>
    BY <1>1, <1>4 DEF RenewDeploymentLease
  <2> QED BY <1>1, <2>1, InterruptsMoves DEF WorkerEffect
<1> QED BY <1>3, <1>4

LEMMA StartEffects ==
    ASSUME TypeInv, NEW w \in Workers, StepStarts(w)
    PROVE  WorkerEffect(w) /\ Typed'
<1> DEFINE d == worker[w].dep
           s == Head(worker[w].todo)
<1>1. worker[w].pc = "starting" /\ Processing(w) /\ HistoryKept
  BY DEF StepStarts, Proceeds, Processing, HistoryKept
<1>2. d \in Deployments /\ row[d] \in Row /\ s \in Step
  BY <1>1, AtStep
<1>3. CASE HoldsUncancelled(w, d)
  <2> DEFINE r == [row[d] EXCEPT !.status = StageOf(s)]
             f == [steps[d] EXCEPT ![s] = "running"]
  <2>1. /\ row' = [row EXCEPT ![d] = r] /\ steps' = [steps EXCEPT ![d] = f]
        /\ worker' = [worker EXCEPT ![w].pc = "working"]
    BY <1>3 DEF StepStarts
  <2>2. StageOf(s) \in Active /\ StageOf(s) \in Status
    BY <1>2, StageFacts DEF Status
  <2>3. /\ r \in Row /\ r.status \in Active /\ r.owner = row[d].owner
        /\ r.cancel = row[d].cancel /\ r.content = row[d].content
    BY <1>2, <2>2 DEF Row
  <2>4. f \in [Step -> {"none", "running", "succeeded", "failed"}]
    BY <1>2 DEF TypeInv, TypeOK
  <2>5. Holds(w, d)
    BY <1>3 DEF HoldsUncancelled
  <2> HIDE DEF r
  <2>6. row' \in [Deployments -> Row] /\ row'[d] = r
        /\ \A q \in Deployments : q # d => row'[q] = row[q]
    BY <1>2, <2>1, <2>3, RowFacts
  <2>7. /\ steps' \in [Deployments -> [Step -> {"none", "running", "succeeded", "failed"}]]
        /\ steps'[d] = f
        /\ \A q \in Deployments : q # d => steps'[q] = steps[q]
    BY <1>2, <2>1, <2>4, StepFacts
  <2>8. /\ worker' \in [Workers -> Worker] /\ WorkersKept(w)
        /\ Continues(w, "working") /\ worker'[w].todo = worker[w].todo
    BY <2>1, PcFacts
  <2>9. Starts(w)
    BY <1>1, <2>3, <2>5, <2>6, <2>7, <2>8 DEF Starts, RowKept, OthersKept
  <2> QED BY <2>6, <2>7, <2>8, <2>9 DEF WorkerEffect, Typed
<1>4. CASE ~HoldsUncancelled(w, d)
  <2>1. UNCHANGED <<row, steps>> /\ Returns(w, LeaseOrCancellation(d))
    BY <1>4 DEF StepStarts
  <2>2. LeaseOrCancellation(d) \in {"none", "failed", "lost", "cancelled"}
    BY DEF LeaseOrCancellation
  <2> QED BY <1>1, <2>1, <2>2, ReturnsMoves DEF WorkerEffect
<1> QED BY <1>3, <1>4

LEMMA SucceedEffects ==
    ASSUME TypeInv, NEW w \in Workers, StepSucceeds(w)
    PROVE  WorkerEffect(w) /\ Typed'
<1> DEFINE d == worker[w].dep
           s == Head(worker[w].todo)
           rest == Tail(worker[w].todo)
<1>1. /\ worker[w].pc = "working" /\ Processing(w) /\ HistoryKept
      /\ s # "activate" /\ UNCHANGED row
  BY DEF StepSucceeds, Proceeds, Processing, HistoryKept
<1>2. /\ d \in Deployments /\ row[d].content \in Contents /\ s \in Step
      /\ worker[w].todo \in Remainders(row[d].content)
  BY <1>1, AtStep
<1>3. CASE StepRecordable(w, d, s)
  <2> DEFINE next == [worker[w] EXCEPT !.pc = AfterStep(s, rest), !.todo = rest]
             f == [steps[d] EXCEPT ![s] = "succeeded"]
  <2>1. /\ steps' = [steps EXCEPT ![d] = f]
        /\ worker' = [worker EXCEPT ![w] = next]
    BY <1>3 DEF StepSucceeds, TypeInv, TypeOK
  <2>2. rest \in Seq(Step)
    BY <1>1, <1>2, RemainderFacts
  <2>3. AfterStep(s, rest) \in {"starting", "staging"}
    BY DEF AfterStep
  <2>4. worker[w] \in Worker
    BY DEF TypeInv, TypeOK
  <2>5. /\ next \in Worker /\ next.pc \in {"starting", "staging"}
        /\ next.dep = d /\ next.claim = worker[w].claim
        /\ next.todo = rest
    <3> HIDE DEF rest
    <3> QED BY <2>2, <2>3, <2>4 DEF Worker
  <2>6. f \in [Step -> {"none", "running", "succeeded", "failed"}]
    BY <1>2 DEF TypeInv, TypeOK
  <2>7. Holds(w, d)
    BY <1>3 DEF StepRecordable
  <2>8. /\ steps' \in [Deployments -> [Step -> {"none", "running", "succeeded", "failed"}]]
        /\ steps'[d] = f
        /\ \A q \in Deployments : q # d => steps'[q] = steps[q]
    BY <1>2, <2>1, <2>6, StepFacts
  <2> HIDE DEF next
  <2>9. worker' \in [Workers -> Worker] /\ worker'[w] = next /\ WorkersKept(w)
    BY <2>1, <2>5, WorkerFacts
  <2>10. Succeeds(w)
    BY <1>1, <2>5, <2>7, <2>8, <2>9 DEF Succeeds, OthersKept, Continues
  <2> QED BY <1>1, <2>8, <2>9, <2>10 DEF WorkerEffect, Typed, TypeInv, TypeOK
<1>4. CASE ~StepRecordable(w, d, s)
  <2>1. UNCHANGED <<row, steps>> /\ Returns(w, "lost")
    BY <1>1, <1>4 DEF StepSucceeds
  <2> QED BY <1>1, <2>1, ReturnsMoves DEF WorkerEffect
<1> QED BY <1>3, <1>4

LEMMA FailEffects ==
    ASSUME TypeInv, NEW w \in Workers, StepFails(w)
    PROVE  WorkerEffect(w) /\ Typed'
<1> DEFINE d == worker[w].dep
           s == Head(worker[w].todo)
<1>1. worker[w].pc = "working" /\ Processing(w) /\ HistoryKept /\ UNCHANGED row
  BY DEF StepFails, Proceeds, Processing, HistoryKept
<1>2. d \in Deployments /\ s \in Step
  BY <1>1, AtStep
<1>3. CASE StepRecordable(w, d, s)
  <2> DEFINE f == [steps[d] EXCEPT ![s] = "failed"]
  <2>1. steps' = [steps EXCEPT ![d] = f] /\ Returns(w, "failed")
    BY <1>3 DEF StepFails
  <2>2. f \in [Step -> {"none", "running", "succeeded", "failed"}]
    BY <1>2 DEF TypeInv, TypeOK
  <2>3. Holds(w, d)
    BY <1>3 DEF StepRecordable
  <2>4. /\ steps' \in [Deployments -> [Step -> {"none", "running", "succeeded", "failed"}]]
        /\ steps'[d] = f
        /\ \A q \in Deployments : q # d => steps'[q] = steps[q]
    BY <1>2, <2>1, <2>2, StepFacts
  <2>5. worker' \in [Workers -> Worker] /\ Continues(w, "checking") /\ WorkersKept(w)
    BY <2>1, ReturnsFacts
  <2>6. Fails(w)
    BY <1>1, <2>3, <2>4, <2>5 DEF Fails, OthersKept
  <2> QED BY <1>1, <2>4, <2>5, <2>6 DEF WorkerEffect, Typed, TypeInv, TypeOK
<1>4. CASE ~StepRecordable(w, d, s)
  <2>1. UNCHANGED <<row, steps>> /\ (Returns(w, "lost") \/ Returns(w, "failed"))
    BY <1>1, <1>4 DEF StepFails
  <2> QED BY <1>1, <2>1, ReturnsMoves DEF WorkerEffect
<1> QED BY <1>3, <1>4

LEMMA StageEffects ==
    ASSUME TypeInv, NEW w \in Workers, SetDeploymentStage(w)
    PROVE  WorkerEffect(w) /\ Typed'
<1> DEFINE d == worker[w].dep
           s == Head(worker[w].todo)
           may == HoldsUncancelled(w, d) /\ row[d].status # "activating"
<1>1. worker[w].pc = "staging" /\ Processing(w) /\ HistoryKept /\ UNCHANGED steps
  BY DEF SetDeploymentStage, Proceeds, Processing, HistoryKept
<1>2. d \in Deployments /\ row[d] \in Row /\ s \in Step
  BY <1>1, AtStep
<1>3. CASE may
  <2> DEFINE r == [row[d] EXCEPT !.status = StageOf(s)]
  <2>1. /\ row' = [row EXCEPT ![d] = r]
        /\ worker' = [worker EXCEPT ![w].pc = "starting"]
    BY <1>3 DEF SetDeploymentStage
  <2>2. StageOf(s) \in Active /\ StageOf(s) \in Status
    BY <1>2, StageFacts DEF Status
  <2>3. /\ r \in Row /\ r.status \in Active /\ r.owner = row[d].owner
        /\ r.cancel = row[d].cancel /\ r.content = row[d].content
    BY <1>2, <2>2 DEF Row
  <2>4. Holds(w, d)
    BY <1>3 DEF HoldsUncancelled
  <2> HIDE DEF r
  <2>5. row' \in [Deployments -> Row] /\ row'[d] = r
        /\ \A q \in Deployments : q # d => row'[q] = row[q]
    BY <1>2, <2>1, <2>3, RowFacts
  <2>6. /\ worker' \in [Workers -> Worker] /\ WorkersKept(w)
        /\ Continues(w, "starting") /\ worker'[w].todo = worker[w].todo
    BY <2>1, PcFacts
  <2>7. Stages(w)
    BY <1>1, <2>3, <2>4, <2>5, <2>6 DEF Stages, RowKept, OthersKept
  <2> QED BY <1>1, <2>5, <2>6, <2>7 DEF WorkerEffect, Typed, TypeInv, TypeOK
<1>4. CASE ~may
  <2>1. UNCHANGED <<row, steps>> /\ Returns(w, "lost")
    BY <1>1, <1>4 DEF SetDeploymentStage
  <2> QED BY <1>1, <2>1, ReturnsMoves DEF WorkerEffect
<1> QED BY <1>3, <1>4

LEMMA ActivateEffects ==
    ASSUME TypeInv, NEW w \in Workers, ActivateDeployment(w)
    PROVE  WorkerEffect(w) /\ Typed'
<1> DEFINE d == worker[w].dep
<1>1. /\ worker[w].pc = "working" /\ Processing(w) /\ Head(worker[w].todo) = "activate"
      /\ UNCHANGED claims
  BY DEF ActivateDeployment, AtActivation, Proceeds, Processing
<1>2. d \in Deployments /\ row[d] \in Row /\ "activate" \in Step
  BY <1>1, AtStep
<1>3. CASE Activatable(w, d)
  <2> DEFINE r == [row[d] EXCEPT !.status = "succeeded", !.owner = NoWorker, !.elapsed = FALSE]
             f == [steps[d] EXCEPT !["activate"] = IF @ = "running" THEN "succeeded" ELSE @]
  <2>0. /\ row' = [row EXCEPT ![d].status = "succeeded", ![d].owner = NoWorker,
                              ![d].elapsed = FALSE]
        /\ steps' = [steps EXCEPT ![d]["activate"] = IF @ = "running" THEN "succeeded" ELSE @]
        /\ Returns(w, "none") /\ active' = d /\ activated' = activated \cup {d}
    BY <1>3 DEF ActivateDeployment
  <2>1. row' = [row EXCEPT ![d] = r] /\ steps' = [steps EXCEPT ![d] = f]
    BY <1>2, <2>0 DEF TypeInv, TypeOK
  <2>2. /\ r \in Row /\ r.status = "succeeded"
        /\ r.cancel = row[d].cancel /\ r.content = row[d].content
    BY <1>2 DEF Row, Status, Terminal
  <2>3. f \in [Step -> {"none", "running", "succeeded", "failed"}]
    BY <1>2 DEF TypeInv, TypeOK
  <2>4. Holds(w, d) /\ ~row[d].cancel
    BY <1>3 DEF Activatable, Holds, Active
  <2> HIDE DEF r
  <2>5. row' \in [Deployments -> Row] /\ row'[d] = r
        /\ \A q \in Deployments : q # d => row'[q] = row[q]
    BY <1>2, <2>1, <2>2, RowFacts
  <2>6. /\ steps' \in [Deployments -> [Step -> {"none", "running", "succeeded", "failed"}]]
        /\ steps'[d] = f
        /\ \A q \in Deployments : q # d => steps'[q] = steps[q]
    BY <1>2, <2>1, <2>3, StepFacts
  <2>7. worker' \in [Workers -> Worker] /\ Continues(w, "checking") /\ WorkersKept(w)
    BY <2>0, ReturnsFacts
  <2>8. Activates(w)
    BY <1>1, <2>0, <2>2, <2>4, <2>5, <2>6, <2>7 DEF Activates, OthersKept
  <2> QED BY <2>5, <2>6, <2>7, <2>8 DEF WorkerEffect, Typed
<1>4. CASE ~Activatable(w, d)
  <2>1. UNCHANGED <<row, steps>> /\ HistoryKept /\ Returns(w, LeaseOrCancellation(d))
    BY <1>1, <1>4 DEF ActivateDeployment, HistoryKept
  <2>2. LeaseOrCancellation(d) \in {"none", "failed", "lost", "cancelled"}
    BY DEF LeaseOrCancellation
  <2> QED BY <1>1, <2>1, <2>2, ReturnsMoves DEF WorkerEffect
<1> QED BY <1>3, <1>4

LEMMA EndEffects ==
    ASSUME TypeInv, NEW w \in Workers, CompleteDeploymentCancellation(w) \/ FailDeployment(w)
    PROVE  WorkerEffect(w) /\ Typed'
<1> DEFINE d == worker[w].dep
           may == \/ CompleteDeploymentCancellation(w) /\ Holds(w, d) /\ row[d].cancel
                  \/ FailDeployment(w) /\ HoldsUncancelled(w, d)
<1>1. worker[w].pc # "idle" /\ HistoryKept /\ worker' = [worker EXCEPT ![w] = Idle]
  BY DEF CompleteDeploymentCancellation, FailDeployment, HistoryKept
<1>2. d \in Deployments /\ row[d] \in Row
  BY <1>1 DEF TypeInv, TypeOK
<1>3. worker' \in [Workers -> Worker] /\ worker'[w].pc = "idle" /\ WorkersKept(w)
  BY <1>1, IdleFacts, WorkerFacts
<1>4. CASE may
  <2>1. PICK st \in {"cancelled", "failed"} :
            /\ row' = [row EXCEPT ![d] = [row[d] EXCEPT !.status = st, !.owner = NoWorker,
                                                        !.elapsed = FALSE]]
            /\ st = "cancelled" =>
                   /\ row[d].cancel
                   /\ steps' = [steps EXCEPT ![d] =
                          [s \in Step |-> IF steps[d][s] = "running" THEN "failed"
                                                                     ELSE steps[d][s]]]
            /\ st = "failed" => ~row[d].cancel /\ UNCHANGED steps
    BY <1>4 DEF CompleteDeploymentCancellation, FailDeployment, HoldsUncancelled,
                TypeInv, TypeOK
  <2> DEFINE r == [row[d] EXCEPT !.status = st, !.owner = NoWorker, !.elapsed = FALSE]
             f == IF st = "cancelled"
                  THEN [s \in Step |-> IF steps[d][s] = "running" THEN "failed"
                                                                  ELSE steps[d][s]]
                  ELSE steps[d]
  <2>2. /\ r \in Row /\ r.status = st
        /\ r.cancel = row[d].cancel /\ r.content = row[d].content
    BY <1>2 DEF Row, Status, Terminal
  <2>3. f \in [Step -> {"none", "running", "succeeded", "failed"}]
    BY <1>2 DEF TypeInv, TypeOK
  <2>4. Holds(w, d)
    BY <1>4 DEF HoldsUncancelled
  <2>5. row' = [row EXCEPT ![d] = r] /\ steps' = [steps EXCEPT ![d] = f]
    BY <1>2, <2>1 DEF TypeInv, TypeOK
  <2>6. /\ steps' \in [Deployments -> [Step -> {"none", "running", "succeeded", "failed"}]]
        /\ steps'[d] = f
        /\ \A q \in Deployments : q # d => steps'[q] = steps[q]
    BY <1>2, <2>3, <2>5, StepFacts
  <2> HIDE DEF r
  <2>7. row' \in [Deployments -> Row] /\ row'[d] = r
        /\ \A q \in Deployments : q # d => row'[q] = row[q]
    BY <1>2, <2>2, <2>5, RowFacts
  <2>8. Ends(w)
    BY <1>1, <1>3, <2>1, <2>2, <2>4, <2>6, <2>7 DEF Ends, OthersKept
  <2> QED BY <1>3, <2>6, <2>7, <2>8 DEF WorkerEffect, Typed
<1>5. CASE ~may
  <2>1. UNCHANGED <<row, steps>>
    BY <1>5 DEF CompleteDeploymentCancellation, FailDeployment
  <2> QED BY <1>1, <2>1, IdleMoves DEF WorkerEffect
<1> QED BY <1>4, <1>5

LEMMA WorkerEffects ==
    ASSUME TypeInv, NEW w \in Workers, WorkerStep(w)
    PROVE  WorkerEffect(w) /\ Typed'
<1>1. ASSUME NEW d \in Deployments, AcquireDeployment(w, d)
      PROVE  WorkerEffect(w) /\ Typed'
  BY <1>1, AcquireEffects DEF WorkerEffect
<1>2. ASSUME \/ ProcessInterrupted(w) \/ BuildArtifactFails(w) \/ StoreErrors(w)
             \/ MonitorPolls(w) \/ Shutdown(w) \/ Abandon(w) \/ ActivationRefused(w)
             \/ CheckCancelled(w) \/ CheckFailed(w) \/ CheckDone(w)
      PROVE  WorkerEffect(w) /\ Typed'
  BY <1>2, MoveEffects DEF WorkerEffect
<1> QED BY <1>1, <1>2, RenewEffects, StartEffects, SucceedEffects, FailEffects,
           StageEffects, ActivateEffects, EndEffects DEF WorkerStep, Acquire, Progress

-----------------------------------------------------------------------------
(* Type correctness.                                                       *)

\* The parts of TypeInv that relate rows and workers.
Linked ==
    /\ \A d \in Deployments : row[d].status # "absent" => row[d].content \in Contents
    /\ \A w \in Workers : worker[w].pc # "idle" => worker[w].dep \in Deployments
    /\ WorkerShape
    /\ active \in Deployments \cup {NoDeployment}
    /\ claims \in [Deployments -> Nat]
    /\ activated \subseteq Deployments

\* Acquired deployments stay acquired and keep their package, so the workers
\* that do not move keep their shape.
LEMMA ShapeKept ==
    ASSUME TypeInv,
           \A q \in Deployments : row[q].status \notin {"absent", "queued"} =>
               /\ row'[q].status \notin {"absent", "queued"}
               /\ row'[q].content = row[q].content,
           NEW u \in Workers, worker'[u] = worker[u], worker[u].pc # "idle"
    PROVE  /\ worker'[u].dep \in Deployments
           /\ row'[worker'[u].dep].status \notin {"absent", "queued"}
           /\ Processing(u)' => worker'[u].todo \in Remainders(row'[worker'[u].dep].content)
BY DEF TypeInv, TypeOK, WorkerShape, Processing

LEMMA RowLinked ==
    ASSUME TypeInv, NEW d \in Deployments, RowEffect(d)
    PROVE  Linked'
<1>1. \A q \in Deployments : row[q].status \notin {"absent", "queued"} =>
          /\ row'[q].status \notin {"absent", "queued"}
          /\ row'[q].content = row[q].content
  BY DEF RowEffect, Creates, Cancels, Times, OthersKept, RowKept, Active
<1>2. \A q \in Deployments : row'[q].status # "absent" => row'[q].content \in Contents
  BY DEF RowEffect, Creates, Cancels, Times, OthersKept, RowKept, Active, TypeInv, TypeOK
<1>3. UNCHANGED <<worker, active, claims, activated>>
  BY DEF RowEffect, Creates, Cancels, Times, HistoryKept
<1>4. \A u \in Workers : worker'[u].pc # "idle" => worker'[u].dep \in Deployments
  BY <1>3 DEF TypeInv, TypeOK
<1>5. WorkerShape'
  BY <1>1, <1>3, ShapeKept DEF WorkerShape, Processing
<1> QED BY <1>2, <1>3, <1>4, <1>5 DEF Linked, TypeInv, TypeOK

LEMMA WorkerLinked ==
    ASSUME TypeInv, NEW w \in Workers, WorkerEffect(w)
    PROVE  Linked'
<1>0. ASSUME NEW d \in Deployments, Times(d)
      PROVE  Linked'
  BY <1>0, RowLinked DEF RowEffect
<1>1. ASSUME WorkersKept(w),
             \A q \in Deployments : row[q].status \notin {"absent", "queued"} =>
                 /\ row'[q].status \notin {"absent", "queued"}
                 /\ row'[q].content = row[q].content,
             \A q \in Deployments : row'[q].status # "absent" => row'[q].content \in Contents,
             worker'[w].pc # "idle" =>
                 /\ worker'[w].dep \in Deployments
                 /\ row'[worker'[w].dep].status \notin {"absent", "queued"},
             Processing(w)' => worker'[w].todo \in Remainders(row'[worker'[w].dep].content),
             active' \in Deployments \cup {NoDeployment},
             claims' \in [Deployments -> Nat], activated' \subseteq Deployments
      PROVE  Linked'
  <2>1. ASSUME NEW u \in Workers
        PROVE  /\ worker'[u].pc # "idle" =>
                      /\ worker'[u].dep \in Deployments
                      /\ row'[worker'[u].dep].status \notin {"absent", "queued"}
               /\ Processing(u)' => worker'[u].todo \in Remainders(row'[worker'[u].dep].content)
    <3>1. CASE u = w
      BY <1>1, <3>1
    <3>2. CASE u # w
      BY <1>1, <3>2, ShapeKept DEF WorkersKept, Processing
    <3> QED BY <3>1, <3>2
  <2>2. WorkerShape'
    BY <2>1 DEF WorkerShape
  <2> QED BY <1>1, <2>1, <2>2 DEF Linked
<1>2. ASSUME NEW d \in Deployments, Acquires(w, d)
      PROVE  Linked'
  <2>1. row[d].content \in Contents /\ row[d].status # "absent"
    BY <1>2 DEF Acquires, Active, TypeInv, TypeOK
  <2>2. Plan(row[d].content) \in Remainders(row[d].content)
    BY <2>1, PlanFacts
  <2>3. \A q \in Deployments : /\ row'[q].content = row[q].content
                               /\ row[q].status \notin {"absent", "queued"} =>
                                      row'[q].status \notin {"absent", "queued"}
                               /\ row'[q].status # "absent" => row'[q].content \in Contents
    BY <1>2, <2>1 DEF Acquires, OthersKept, TypeInv, TypeOK
  <2>4. /\ claims' \in [Deployments -> Nat] /\ active' \in Deployments \cup {NoDeployment}
        /\ activated' \subseteq Deployments
    BY <1>2 DEF Acquires, TypeInv, TypeOK
  <2> QED BY <1>1, <1>2, <2>2, <2>3, <2>4 DEF Acquires
<1>3. CASE Moves(w)
  <2>1. /\ UNCHANGED <<row, active, claims, activated>> /\ WorkersKept(w)
    BY <1>3 DEF Moves, HistoryKept
  <2>2. worker'[w].pc # "idle" =>
            /\ worker'[w].dep \in Deployments
            /\ row'[worker'[w].dep].status \notin {"absent", "queued"}
    BY <1>3, <2>1 DEF Moves, Continues, TypeInv, TypeOK, WorkerShape
  <2>3. Processing(w)' => worker'[w].todo \in Remainders(row'[worker'[w].dep].content)
    BY <1>3, <2>1 DEF Moves, Continues, TypeInv, WorkerShape, Processing
  <2> QED BY <1>1, <2>1, <2>2, <2>3 DEF TypeInv, TypeOK
<1>4. ASSUME Starts(w) \/ Succeeds(w) \/ Fails(w) \/ Stages(w) \/ Activates(w) \/ Ends(w)
      PROVE  Linked'
  <2> DEFINE d == worker[w].dep
  <2>1. worker[w].pc # "idle" /\ Holds(w, d) /\ WorkersKept(w)
    BY <1>4 DEF Starts, Succeeds, Fails, Stages, Activates, Ends
  <2>2. d \in Deployments /\ row[d].content \in Contents
    BY <2>1 DEF TypeInv, TypeOK, WorkerShape
  <2>3. row'[d].content = row[d].content /\ row'[d].status \notin {"absent", "queued"}
    BY <1>4, <2>1 DEF Starts, Succeeds, Fails, Stages, Activates, Ends, RowKept, Holds, Active
  <2>4. \A q \in Deployments : q # d => row'[q] = row[q]
    BY <1>4 DEF Starts, Succeeds, Fails, Stages, Activates, Ends, OthersKept
  <2>5. \A q \in Deployments : row[q].status \notin {"absent", "queued"} =>
            /\ row'[q].status \notin {"absent", "queued"}
            /\ row'[q].content = row[q].content
    BY <2>3, <2>4
  <2>6. \A q \in Deployments : row'[q].status # "absent" => row'[q].content \in Contents
    BY <2>2, <2>3, <2>4 DEF TypeInv, TypeOK
  <2>7. worker'[w].pc # "idle" => worker'[w].dep = d
    BY <1>4 DEF Starts, Succeeds, Fails, Stages, Activates, Ends, Continues
  <2>8. Processing(w)' => worker'[w].todo \in Remainders(row'[worker'[w].dep].content)
    <3> SUFFICES ASSUME Processing(w)'
                 PROVE  worker'[w].todo \in Remainders(row'[worker'[w].dep].content)
      OBVIOUS
    <3>1. Starts(w) \/ Succeeds(w) \/ Stages(w)
      BY <1>4 DEF Fails, Activates, Ends, Continues, Processing
    <3>2. Processing(w) /\ worker'[w].dep = d
      BY <3>1 DEF Starts, Succeeds, Stages, Continues, Processing
    <3>3. worker[w].todo \in Remainders(row[d].content)
      BY <3>2, AtStep
    <3>4. CASE Succeeds(w)
      BY <2>2, <2>3, <3>2, <3>3, <3>4, RemainderFacts DEF Succeeds
    <3>5. CASE Starts(w) \/ Stages(w)
      BY <2>3, <3>2, <3>3, <3>5 DEF Starts, Stages
    <3> QED BY <3>1, <3>4, <3>5
  <2>9. /\ claims' \in [Deployments -> Nat] /\ active' \in Deployments \cup {NoDeployment}
        /\ activated' \subseteq Deployments
    BY <1>4, <2>2 DEF Starts, Succeeds, Fails, Stages, Activates, Ends, HistoryKept,
                      TypeInv, TypeOK
  <2> HIDE DEF d
  <2> QED BY <1>1, <2>1, <2>2, <2>3, <2>5, <2>6, <2>7, <2>8, <2>9
<1> QED BY <1>0, <1>2, <1>3, <1>4 DEF WorkerEffect

\* Sources and faults.
LEMMA Bookkeeping ==
    ASSUME TypeInv, Next
    PROVE  sources' \subseteq Deployments /\ faults' \in 0..MaxFaults
<1> USE FaultAssumption DEF TypeInv, TypeOK
<1>1. ASSUME NEW w \in Workers, WorkerStep(w)
      PROVE  sources' \subseteq Deployments /\ faults' \in 0..MaxFaults
  <2>1. CASE Acquire(w) \/ MonitorPolls(w) \/ RenewDeploymentLease(w)
    BY <2>1 DEF Acquire, AcquireDeployment, MonitorPolls, RenewDeploymentLease
  <2>2. CASE Shutdown(w) \/ Abandon(w) \/ StoreErrors(w)
    BY <2>2 DEF Shutdown, Abandon, StoreErrors
  <2>3. CASE Progress(w)
    BY <2>3 DEF Progress, ProcessInterrupted, StepStarts, StepSucceeds, StepFails,
                BuildArtifactFails, SetDeploymentStage, ActivateDeployment,
                ActivationRefused, CheckCancelled, CheckFailed, CheckDone, Decides,
                CompleteDeploymentCancellation, FailDeployment
  <2> QED BY <1>1, <2>1, <2>2, <2>3 DEF WorkerStep
<1>2. ASSUME NEW d \in Deployments, RowStep(d)
      PROVE  sources' \subseteq Deployments /\ faults' \in 0..MaxFaults
  BY <1>2 DEF RowStep, CreateDeployment, CreateUnanswered, RetryDeployment,
              RequestDeploymentCancellation, LeaseExpires, LeaseLapses
<1> QED BY <1>1, <1>2 DEF Next

LEMMA TypeStep == TypeInv /\ [Next]_vars => TypeInv'
<1> SUFFICES ASSUME TypeInv, [Next]_vars PROVE TypeInv'
    OBVIOUS
<1>1. CASE Next
  <2>1. Typed' /\ Linked'
    BY <1>1, RowEffects, WorkerEffects, RowLinked, WorkerLinked DEF Next
  <2>2. \A w \in Workers : Processing(w)' => worker'[w].todo # <<>>
    <3> SUFFICES ASSUME NEW w \in Workers, Processing(w)' PROVE worker'[w].todo # <<>>
      OBVIOUS
    <3>1. worker'[w].pc # "idle"
      BY DEF Processing
    <3>2. /\ worker'[w].todo \in Remainders(row'[worker'[w].dep].content)
          /\ row'[worker'[w].dep].content \in Contents
      BY <2>1, <3>1 DEF Linked, WorkerShape
    <3> QED BY <3>2, RemainderFacts
  <2> QED BY <1>1, <2>1, <2>2, Bookkeeping DEF TypeInv, TypeOK, Typed, Linked
<1>2. CASE UNCHANGED vars
  BY <1>2 DEF vars, TypeInv, TypeOK, WorkerShape, Processing
<1> QED BY <1>1, <1>2

-----------------------------------------------------------------------------
(* The fence, activation and cancellation.                                 *)

LEMMA InitCore == Init => ActivationAtomic /\ FenceIsClaim /\ CancelShape
<1> SUFFICES ASSUME Init PROVE ActivationAtomic /\ FenceIsClaim /\ CancelShape
    OBVIOUS
<1>1. \A d \in Deployments : row[d].status = "absent" /\ row[d].cancel = FALSE
  BY DEF Init, NewRow
<1>2. \A w \in Workers : worker[w].pc = "idle"
  BY IdleFacts DEF Init
<1> QED BY <1>1, <1>2 DEF Init, ActivationAtomic, FenceIsClaim, CancelShape

\* What every effect does to the row of a deployment q.
LEMMA RowHistory ==
    ASSUME TypeInv, CancelShape, Next, NEW q \in Deployments
    PROVE  /\ row[q].cancel => row'[q].cancel
           /\ row[q].cancel => row'[q].status \notin {"succeeded", "failed"}
           /\ row[q].status \in Terminal => row'[q] = row[q] /\ steps'[q] = steps[q]
           /\ row'[q].status = "absent" => ~row'[q].cancel
           /\ row'[q].cancel => row'[q].status \notin {"succeeded", "failed"}
<1> DEFINE Goal == /\ row[q].cancel => row'[q].cancel
                   /\ row[q].cancel => row'[q].status \notin {"succeeded", "failed"}
                   /\ row[q].status \in Terminal => row'[q] = row[q] /\ steps'[q] = steps[q]
                   /\ row'[q].status = "absent" => ~row'[q].cancel
                   /\ row'[q].cancel => row'[q].status \notin {"succeeded", "failed"}
<1> USE DEF Terminal, Active
<1>0. /\ row[q].status = "absent" => ~row[q].cancel
      /\ row[q].cancel => row[q].status \notin {"succeeded", "failed"}
  BY DEF CancelShape
<1>1. ASSUME NEW d \in Deployments, RowEffect(d)
      PROVE  Goal
  <2>1. CASE q # d
    BY <1>0, <1>1, <2>1 DEF RowEffect, Creates, Cancels, Times, OthersKept
  <2>2. CASE q = d
    BY <1>0, <1>1, <2>2 DEF RowEffect, Creates, Cancels, Times, RowKept
  <2> QED BY <2>1, <2>2
<1>2. ASSUME NEW w \in Workers, WorkerEffect(w)
      PROVE  Goal
  <2>1. ASSUME NEW d \in Deployments, Times(d)
        PROVE  Goal
    BY <1>1, <2>1 DEF RowEffect
  <2>2. ASSUME NEW d \in Deployments, Acquires(w, d)
        PROVE  Goal
    <3>1. CASE q # d
      BY <1>0, <2>2, <3>1 DEF Acquires, OthersKept
    <3>2. CASE q = d
      BY <1>0, <2>2, <3>2 DEF Acquires
    <3> QED BY <3>1, <3>2
  <2>3. CASE Moves(w)
    BY <1>0, <2>3 DEF Moves
  <2>4. ASSUME Starts(w) \/ Succeeds(w) \/ Fails(w) \/ Stages(w) \/ Activates(w) \/ Ends(w)
        PROVE  Goal
    <3>1. CASE q # worker[w].dep
      BY <1>0, <2>4, <3>1 DEF Starts, Succeeds, Fails, Stages, Activates, Ends, OthersKept
    <3>2. CASE q = worker[w].dep
      BY <1>0, <2>4, <3>2
         DEF Starts, Succeeds, Fails, Stages, Activates, Ends, RowKept, Holds
    <3> QED BY <3>1, <3>2
  <2> QED BY <1>2, <2>1, <2>2, <2>3, <2>4 DEF WorkerEffect
<1> HIDE DEF Goal
<1>3. Goal
  BY <1>1, <1>2, RowEffects, WorkerEffects DEF Next
<1> QED BY <1>3 DEF Goal

LEMMA FenceStep == TypeInv /\ FenceIsClaim /\ [Next]_vars => FenceIsClaim'
<1> SUFFICES ASSUME TypeInv, FenceIsClaim, [Next]_vars PROVE FenceIsClaim'
    OBVIOUS
<1> DEFINE Fenced(u) == (worker[u].pc # "idle" /\ Holds(u, worker[u].dep)) =>
                            worker[u].claim = claims[worker[u].dep]
<1>0. \A u \in Workers : Fenced(u)
  BY DEF FenceIsClaim
<1>1. ASSUME NEW d \in Deployments, RowEffect(d), NEW u \in Workers
      PROVE  Fenced(u)'
  <2>1. UNCHANGED <<worker, claims>>
    BY <1>1 DEF RowEffect, Creates, Cancels, Times, HistoryKept
  <2>2. \A q \in Deployments : row'[q].status \in Active =>
                                   row[q].status \in Active /\ row'[q].owner = row[q].owner
    BY <1>1 DEF RowEffect, Creates, Cancels, Times, OthersKept, RowKept, Active
  <2> QED BY <1>0, <2>1, <2>2 DEF Holds, TypeInv, TypeOK
<1>2. ASSUME NEW w \in Workers, WorkerEffect(w), NEW u \in Workers
      PROVE  Fenced(u)'
  <2>1. ASSUME NEW d \in Deployments, Times(d)
        PROVE  Fenced(u)'
    BY <1>1, <2>1 DEF RowEffect
  <2>2. ASSUME NEW d \in Deployments, Acquires(w, d)
        PROVE  Fenced(u)'
    <3>1. claims[d] \in Nat /\ claims'[d] = claims[d] + 1
          /\ \A q \in Deployments : q # d => claims'[q] = claims[q]
      BY <2>2 DEF Acquires, TypeInv, TypeOK
    <3>2. CASE u = w
      BY <2>2, <3>1, <3>2 DEF Acquires
    <3>3. CASE u # w
      <4> SUFFICES ASSUME worker'[u].pc # "idle", Holds(u, worker[u].dep)'
                   PROVE  worker'[u].claim = claims'[worker'[u].dep]
        OBVIOUS
      <4>1. worker'[u] = worker[u] /\ worker[u].dep \in Deployments
        BY <2>2, <3>3 DEF Acquires, WorkersKept, TypeInv, TypeOK
      <4>2. worker[u].dep # d
        BY <2>2, <3>3, <4>1 DEF Acquires, Holds
      <4> QED BY <1>0, <2>2, <3>1, <4>1, <4>2 DEF Acquires, OthersKept, Holds
    <3> QED BY <3>2, <3>3
  <2>3. CASE Moves(w)
    BY <1>0, <2>3 DEF Moves, Continues, WorkersKept, HistoryKept, Holds
  <2>4. ASSUME Starts(w) \/ Succeeds(w) \/ Fails(w) \/ Stages(w) \/ Activates(w) \/ Ends(w)
        PROVE  Fenced(u)'
    <3> DEFINE d == worker[w].dep
    <3>1. Holds(w, d) /\ worker[w].pc # "idle" /\ WorkersKept(w) /\ UNCHANGED claims
      BY <2>4 DEF Starts, Succeeds, Fails, Stages, Activates, Ends, HistoryKept
    <3>2. worker'[w].pc # "idle" => worker'[w].dep = d /\ worker'[w].claim = worker[w].claim
      BY <2>4 DEF Starts, Succeeds, Fails, Stages, Activates, Ends, Continues
    <3>3. \A q \in Deployments : q # d => row'[q] = row[q]
      BY <2>4 DEF Starts, Succeeds, Fails, Stages, Activates, Ends, OthersKept
    <3>4. row'[d].status \in Active => row'[d].owner = row[d].owner
      BY <2>4 DEF Starts, Succeeds, Fails, Stages, Activates, Ends, RowKept, Active
    <3>5. CASE u = w
      BY <1>0, <3>1, <3>2, <3>5
    <3>6. CASE u # w
      <4> SUFFICES ASSUME worker'[u].pc # "idle", Holds(u, worker[u].dep)'
                   PROVE  worker'[u].claim = claims'[worker'[u].dep]
        OBVIOUS
      <4>1. worker'[u] = worker[u] /\ worker[u].dep \in Deployments
        BY <3>1, <3>6 DEF WorkersKept, TypeInv, TypeOK
      <4>2. worker[u].dep # d
        BY <3>1, <3>4, <3>6, <4>1 DEF Holds
      <4> QED BY <1>0, <3>1, <3>3, <4>1, <4>2 DEF Holds
    <3> QED BY <3>5, <3>6
  <2> QED BY <1>2, <2>1, <2>2, <2>3, <2>4 DEF WorkerEffect
<1>3. ASSUME NEW u \in Workers, UNCHANGED vars
      PROVE  Fenced(u)'
  BY <1>0, <1>3 DEF vars, Holds
<1> HIDE DEF Fenced
<1>4. \A u \in Workers : Fenced(u)'
  BY <1>1, <1>2, <1>3, RowEffects, WorkerEffects DEF Next
<1> QED BY <1>4 DEF FenceIsClaim, Fenced

LEMMA AtomicStep == TypeInv /\ ActivationAtomic /\ [Next]_vars => ActivationAtomic'
<1> SUFFICES ASSUME TypeInv, ActivationAtomic, [Next]_vars PROVE ActivationAtomic'
    OBVIOUS
<1>0. ASSUME UNCHANGED <<active, activated>>,
             \A q \in Deployments : row'[q].status = "succeeded" <=> row[q].status = "succeeded"
      PROVE  ActivationAtomic'
  BY <1>0 DEF ActivationAtomic
<1>1. ASSUME NEW d \in Deployments, RowEffect(d)
      PROVE  ActivationAtomic'
  <2>1. \A q \in Deployments : row'[q].status = "succeeded" <=> row[q].status = "succeeded"
    BY <1>1 DEF RowEffect, Creates, Cancels, Times, OthersKept, Active
  <2>2. UNCHANGED <<active, activated>>
    BY <1>1 DEF RowEffect, Creates, Cancels, Times, HistoryKept
  <2> QED BY <1>0, <2>1, <2>2
<1>2. ASSUME NEW w \in Workers, WorkerEffect(w)
      PROVE  ActivationAtomic'
  <2>1. ASSUME NEW d \in Deployments, Times(d) \/ Acquires(w, d)
        PROVE  ActivationAtomic'
    <3>1. \A q \in Deployments : row'[q].status = "succeeded" <=> row[q].status = "succeeded"
      BY <2>1 DEF Acquires, Times, OthersKept, Active
    <3>2. UNCHANGED <<active, activated>>
      BY <2>1 DEF Acquires, Times, HistoryKept
    <3> QED BY <1>0, <3>1, <3>2
  <2>2. CASE Moves(w)
    BY <1>0, <2>2 DEF Moves, HistoryKept
  <2>3. ASSUME Starts(w) \/ Succeeds(w) \/ Fails(w) \/ Stages(w) \/ Ends(w)
        PROVE  ActivationAtomic'
    <3>1. \A q \in Deployments : row'[q].status = "succeeded" <=> row[q].status = "succeeded"
      BY <2>3 DEF Starts, Succeeds, Fails, Stages, Ends, OthersKept, Holds, Active
    <3>2. UNCHANGED <<active, activated>>
      BY <2>3 DEF Starts, Succeeds, Fails, Stages, Ends, HistoryKept
    <3> QED BY <1>0, <3>1, <3>2
  <2>4. CASE Activates(w)
    <3>1. worker[w].dep \in Deployments
      BY <2>4 DEF Activates, TypeInv, TypeOK
    <3> QED BY <2>4, <3>1, NoneAssumption DEF Activates, OthersKept, ActivationAtomic
  <2> QED BY <1>2, <2>1, <2>2, <2>3, <2>4 DEF WorkerEffect
<1>3. CASE UNCHANGED vars
  BY <1>0, <1>3 DEF vars
<1> QED BY <1>1, <1>2, <1>3, RowEffects, WorkerEffects DEF Next

CancellationStep ==
    \A d \in Deployments :
        /\ row[d].cancel => row'[d].cancel /\ row'[d].status \notin {"succeeded", "failed"}
        /\ row[d].status \in Terminal => row'[d] = row[d] /\ steps'[d] = steps[d]

LEMMA CancellationNext == TypeInv /\ CancelShape /\ [Next]_vars
                              => CancelShape' /\ [CancellationStep]_vars
<1> SUFFICES ASSUME TypeInv, CancelShape, [Next]_vars
             PROVE  CancelShape' /\ [CancellationStep]_vars
    OBVIOUS
<1>1. CASE Next
  BY <1>1, RowHistory DEF CancelShape, CancellationStep
<1>2. CASE UNCHANGED vars
  BY <1>2 DEF vars, CancelShape
<1> QED BY <1>1, <1>2

-----------------------------------------------------------------------------
(* The recorded steps.                                                     *)

PlannedAt(d) ==
    \A s \in Step : steps[d][s] # "none" => /\ row[d].status \notin {"absent", "queued"}
                                            /\ s \in Planned(row[d].content)

AgreeAt(d) ==
    /\ row[d].status = "succeeded" =>
           \A s \in Step : steps[d][s] = "succeeded" <=> s \in Planned(row[d].content)
    /\ row[d].status = "cancelled" => \A s \in Step : steps[d][s] # "running"

HolderAt(w) ==
    (Processing(w) /\ Holds(w, worker[w].dep)) =>
        /\ \A s \in Planned(row[worker[w].dep].content) \ StepsOf(worker[w].todo) :
               steps[worker[w].dep][s] = "succeeded"
        /\ worker[w].pc = "working" =>
               steps[worker[w].dep][Head(worker[w].todo)] = "running"

LEMMA StepsParts ==
    StepsInv <=> /\ \A d \in Deployments : PlannedAt(d) /\ AgreeAt(d)
                 /\ \A w \in Workers : HolderAt(w)
BY DEF StepsInv, StepsPlanned, StepsAgree, HolderSteps, PlannedAt, AgreeAt, HolderAt,
       Planned, StepsOf

LEMMA StepsPartsNext ==
    ASSUME \A d \in Deployments : PlannedAt(d)' /\ AgreeAt(d)',
           \A w \in Workers : HolderAt(w)'
    PROVE  StepsInv'
BY DEF StepsInv, StepsPlanned, StepsAgree, HolderSteps, PlannedAt, AgreeAt, HolderAt,
       Planned, StepsOf

LEMMA InitSteps == Init => StepsInv
<1> SUFFICES ASSUME Init PROVE StepsInv
    OBVIOUS
<1>1. \A d \in Deployments : /\ row[d].status = "absent"
                             /\ \A s \in Step : steps[d][s] = "none"
  BY DEF Init, NewRow, NoSteps
<1>2. \A w \in Workers : worker[w].pc = "idle"
  BY IdleFacts DEF Init
<1>3. \A d \in Deployments : PlannedAt(d) /\ AgreeAt(d)
  BY <1>1 DEF PlannedAt, AgreeAt
<1>4. \A w \in Workers : HolderAt(w)
  BY <1>2 DEF HolderAt, Processing
<1> QED BY <1>3, <1>4, StepsParts

LEMMA RowSteps ==
    ASSUME TypeInv, StepsInv, NEW d \in Deployments, RowEffect(d)
    PROVE  StepsInv'
<1>1. UNCHANGED <<steps, worker>> /\ OthersKept(d)
  BY DEF RowEffect, Creates, Cancels, Times
<1>2. \A q \in Deployments : PlannedAt(q) /\ AgreeAt(q)
  BY StepsParts
<1>3. ASSUME NEW q \in Deployments
      PROVE  PlannedAt(q)' /\ AgreeAt(q)'
  <2>1. CASE q # d
    BY <1>1, <1>2, <2>1 DEF OthersKept, PlannedAt, AgreeAt
  <2>2. CASE q = d /\ Creates(d)
    BY <1>1, <1>2, <2>2 DEF Creates, PlannedAt, AgreeAt
  <2>3. CASE q = d /\ Cancels(d)
    BY <1>1, <1>2, <2>3 DEF Cancels, PlannedAt, AgreeAt, Active
  <2>4. CASE q = d /\ Times(d)
    BY <1>1, <1>2, <2>4 DEF Times, RowKept, PlannedAt, AgreeAt, Active
  <2> QED BY <2>1, <2>2, <2>3, <2>4 DEF RowEffect
<1>4. ASSUME NEW u \in Workers
      PROVE  HolderAt(u)'
  <2> SUFFICES ASSUME Processing(u)', Holds(u, worker[u].dep)'
               PROVE  HolderAt(u)'
    BY DEF HolderAt
  <2>1. Processing(u) /\ worker[u].dep \in Deployments
    BY <1>1, AtStep DEF Processing
  <2>2. /\ Holds(u, worker[u].dep)
        /\ row'[worker[u].dep].content = row[worker[u].dep].content
    BY <1>1, <2>1 DEF RowEffect, Creates, Cancels, Times, OthersKept, RowKept, Holds, Active
  <2>3. HolderAt(u)
    BY StepsParts
  <2> QED BY <1>1, <2>1, <2>2, <2>3 DEF HolderAt
<1> QED BY <1>3, <1>4, StepsPartsNext

\* A worker that does not move keeps its invariant, unless the deployment it
\* holds is written: nobody else can write it.
LEMMA HolderKept ==
    ASSUME TypeInv, StepsInv, NEW u \in Workers, NEW d \in Deployments,
           worker'[u] = worker[u], OthersKept(d),
           row'[d].status \in Active => row'[d].owner # u
    PROVE  HolderAt(u)'
<1> SUFFICES ASSUME Processing(u)', Holds(u, worker[u].dep)'
             PROVE  HolderAt(u)'
  BY DEF HolderAt
<1>1. Processing(u) /\ worker[u].dep \in Deployments
  BY AtStep DEF Processing
<1>2. worker[u].dep # d
  BY DEF Holds
<1>3. HolderAt(u)
  BY StepsParts
<1> QED BY <1>1, <1>2, <1>3 DEF HolderAt, OthersKept, Holds

LEMMA WorkerSteps ==
    ASSUME TypeInv, StepsInv, NEW w \in Workers, WorkerEffect(w), Typed'
    PROVE  StepsInv'
<1>0. /\ \A q \in Deployments : PlannedAt(q) /\ AgreeAt(q)
      /\ \A u \in Workers : HolderAt(u)
  BY StepsParts
<1>1. ASSUME NEW d \in Deployments, Times(d)
      PROVE  StepsInv'
  BY <1>1, RowSteps DEF RowEffect
<1>2. ASSUME NEW d \in Deployments, Acquires(w, d)
      PROVE  StepsInv'
  <2>1. \A q \in Deployments : PlannedAt(q)' /\ AgreeAt(q)'
    BY <1>0, <1>2 DEF Acquires, OthersKept, PlannedAt, AgreeAt
  <2>2. HolderAt(w)'
    <3>1. row[d].content \in Contents
      BY <1>2 DEF Acquires, Active, TypeInv, TypeOK
    <3> QED BY <1>2, <3>1, PlanFacts DEF Acquires, HolderAt
  <2>3. \A u \in Workers : u # w => HolderAt(u)'
    BY <1>2, HolderKept DEF Acquires, WorkersKept
  <2> QED BY <2>1, <2>2, <2>3, StepsPartsNext
<1>3. CASE Moves(w)
  <2>1. \A q \in Deployments : PlannedAt(q)' /\ AgreeAt(q)'
    BY <1>0, <1>3 DEF Moves, PlannedAt, AgreeAt
  <2>2. \A u \in Workers : HolderAt(u)'
    BY <1>0, <1>3 DEF Moves, Continues, WorkersKept, HolderAt, Processing, Holds
  <2> QED BY <2>1, <2>2, StepsPartsNext
<1>4. ASSUME Starts(w) \/ Succeeds(w) \/ Fails(w) \/ Stages(w) \/ Activates(w) \/ Ends(w)
      PROVE  StepsInv'
  <2>0. worker[w].pc # "idle" /\ worker[w].dep \in Deployments
    BY <1>4 DEF Starts, Succeeds, Fails, Stages, Activates, Ends, TypeInv, TypeOK
  <2> DEFINE t == worker[w].todo
  <2> PICK d \in Deployments : d = worker[w].dep
    BY <2>0
  <2> DEFINE P == Planned(row[d].content)
  <2>1. worker[w].pc # "idle" /\ Holds(w, d) /\ WorkersKept(w) /\ OthersKept(d)
    BY <1>4 DEF Starts, Succeeds, Fails, Stages, Activates, Ends
  <2>2. /\ d \in Deployments /\ row[d].content \in Contents
        /\ row[d].status \in Active
        /\ steps[d] \in [Step -> {"none", "running", "succeeded", "failed"}]
    BY <2>1 DEF TypeInv, TypeOK, WorkerShape, Holds
  <2>3. \A u \in Workers : u # w => HolderAt(u)'
    <3>1. row'[d].status \in Active => row'[d].owner = w
      BY <1>4, <2>1 DEF Starts, Succeeds, Fails, Stages, Activates, Ends, RowKept, Active,
                        Holds
    <3> QED BY <2>1, <2>2, <3>1, HolderKept DEF WorkersKept
  <2>4. \A q \in Deployments : q # d => PlannedAt(q)' /\ AgreeAt(q)'
    BY <1>0, <2>1 DEF OthersKept, PlannedAt, AgreeAt
  <2>5. Processing(w) => /\ t # <<>> /\ Head(t) \in Step /\ Head(t) \in P
                         /\ Head(t) = "activate" => StepsOf(t) = {"activate"}
                         /\ StepsOf(t) = {Head(t)} \cup StepsOf(Tail(t))
    BY <2>2, AtStep, RemainderFacts
  <2>6. /\ \A s \in Step : steps[d][s] # "none" => s \in P
        /\ Processing(w) => \A s \in P \ StepsOf(t) : steps[d][s] = "succeeded"
        /\ worker[w].pc = "working" => steps[d][Head(t)] = "running"
    BY <1>0, <2>1, <2>2 DEF PlannedAt, HolderAt, Processing
  <2>7. P \subseteq Step
    <3>1. Promotion[row[d].content] \in {<<>>, <<"build">>, <<"check">>, <<"build", "check">>}
      BY <2>2, PromotionAssumption
    <3>2. StepsOf(Promotion[row[d].content]) \subseteq Step
      <4>1. CASE Promotion[row[d].content] = <<>>
        BY <4>1 DEF StepsOf
      <4>2. CASE Promotion[row[d].content] = <<"build">>
        BY <4>2 DEF StepsOf, Step, PromotionStep
      <4>3. CASE Promotion[row[d].content] = <<"check">>
        BY <4>3 DEF StepsOf, Step, PromotionStep
      <4>4. CASE Promotion[row[d].content] = <<"build", "check">>
        BY <4>4 DEF StepsOf, Step, PromotionStep
      <4> QED BY <3>1, <4>1, <4>2, <4>3, <4>4
    <3> QED BY <3>2 DEF Planned, Step
  <2>8. row'[d].content = row[d].content
    BY <1>4 DEF Starts, Succeeds, Fails, Stages, Activates, Ends, RowKept
  <2>9. ASSUME PlannedAt(d)', AgreeAt(d)', HolderAt(w)'
        PROVE  StepsInv'
    <3> QED BY <2>3, <2>4, <2>9, StepsPartsNext
  <2>10. CASE Starts(w)
    <3>1. /\ worker[w].pc = "starting" /\ worker'[w].pc = "working"
          /\ worker'[w].dep = d /\ worker'[w].todo = t
          /\ row'[d].status \in Active
          /\ steps'[d] = [steps[d] EXCEPT ![Head(t)] = "running"]
      BY <2>10 DEF Starts, Continues
    <3>2. Processing(w)
      BY <3>1 DEF Processing
    <3>3. Head(t) \in StepsOf(t)
      BY <2>5, <3>2
    <3> HIDE DEF t, P
    <3>4. /\ \A s \in Step : steps'[d][s] # "none" => s \in P
          /\ steps'[d][Head(t)] = "running"
          /\ \A s \in P \ StepsOf(t) : steps'[d][s] = "succeeded"
      BY <2>2, <2>5, <2>6, <2>7, <3>1, <3>2, <3>3
    <3>5. PlannedAt(d)' /\ AgreeAt(d)'
      BY <2>8, <3>1, <3>4 DEF PlannedAt, AgreeAt, Active, P
    <3>6. HolderAt(w)'
      BY <2>8, <3>1, <3>4 DEF HolderAt, P
    <3> QED BY <2>9, <3>5, <3>6
  <2>11. CASE Succeeds(w)
    <3>1. /\ worker[w].pc = "working" /\ worker'[w].pc # "working"
          /\ worker'[w].dep = d /\ worker'[w].todo = Tail(t)
          /\ row'[d].status \in Active
          /\ steps'[d] = [steps[d] EXCEPT ![Head(t)] = "succeeded"]
      BY <2>2, <2>11 DEF Succeeds, Continues
    <3>2. Processing(w)
      BY <3>1 DEF Processing
    <3> HIDE DEF t, P
    <3>3. /\ \A s \in Step : steps'[d][s] # "none" => s \in P
          /\ \A s \in P \ StepsOf(Tail(t)) : steps'[d][s] = "succeeded"
      BY <2>2, <2>5, <2>6, <2>7, <3>1, <3>2
    <3>4. PlannedAt(d)' /\ AgreeAt(d)'
      BY <2>8, <3>1, <3>3 DEF PlannedAt, AgreeAt, Active, P
    <3>5. HolderAt(w)'
      BY <2>8, <3>1, <3>3 DEF HolderAt, P
    <3> QED BY <2>9, <3>4, <3>5
  <2>12. CASE Fails(w)
    <3>1. /\ worker[w].pc = "working" /\ worker'[w].pc = "checking"
          /\ row'[d].status \in Active
          /\ steps'[d] = [steps[d] EXCEPT ![Head(t)] = "failed"]
      BY <2>2, <2>12 DEF Fails, Continues
    <3>2. Processing(w)
      BY <3>1 DEF Processing
    <3> HIDE DEF t, P
    <3>3. \A s \in Step : steps'[d][s] # "none" => s \in P
      BY <2>2, <2>5, <2>6, <3>1, <3>2
    <3>4. PlannedAt(d)' /\ AgreeAt(d)'
      BY <2>8, <3>1, <3>3 DEF PlannedAt, AgreeAt, Active, P
    <3>5. HolderAt(w)'
      BY <3>1 DEF HolderAt, Processing
    <3> QED BY <2>9, <3>4, <3>5
  <2>13. CASE Stages(w)
    <3>1. /\ worker[w].pc = "staging" /\ worker'[w].pc = "starting"
          /\ worker'[w].dep = d /\ worker'[w].todo = t
          /\ row'[d].status \in Active /\ steps' = steps
      BY <2>13 DEF Stages, Continues
    <3>2. Processing(w)
      BY <3>1 DEF Processing
    <3> HIDE DEF t, P
    <3>3. PlannedAt(d)' /\ AgreeAt(d)'
      BY <2>6, <2>8, <3>1 DEF PlannedAt, AgreeAt, Active, P
    <3>4. HolderAt(w)'
      BY <2>6, <2>8, <3>1, <3>2 DEF HolderAt, P
    <3> QED BY <2>9, <3>3, <3>4
  <2>14. CASE Activates(w)
    <3>1. /\ worker[w].pc = "working" /\ worker'[w].pc = "checking" /\ Head(t) = "activate"
          /\ row'[d].status = "succeeded"
          /\ steps'[d] = [steps[d] EXCEPT !["activate"] =
                             IF @ = "running" THEN "succeeded" ELSE @]
      BY <2>14 DEF Activates, Continues
    <3>2. Processing(w)
      BY <3>1 DEF Processing
    <3> HIDE DEF t, P
    <3>3. /\ \A s \in Step : steps'[d][s] # "none" => s \in P
          /\ \A s \in Step : steps'[d][s] = "succeeded" <=> s \in P
      BY <2>2, <2>5, <2>6, <3>1, <3>2
    <3>4. PlannedAt(d)' /\ AgreeAt(d)'
      BY <2>8, <3>1, <3>3 DEF PlannedAt, AgreeAt, P
    <3>5. HolderAt(w)'
      BY <3>1 DEF HolderAt, Processing
    <3> QED BY <2>9, <3>4, <3>5
  <2>15. CASE Ends(w)
    <3>1. /\ worker'[w].pc = "idle"
          /\ \/ /\ row'[d].status = "cancelled"
                /\ steps'[d] = [s \in Step |-> IF steps[d][s] = "running" THEN "failed"
                                                                          ELSE steps[d][s]]
             \/ row'[d].status = "failed" /\ steps'[d] = steps[d]
      BY <2>15 DEF Ends
    <3> HIDE DEF t, P
    <3>2. /\ \A s \in Step : steps'[d][s] # "none" => steps[d][s] # "none"
          /\ row'[d].status = "cancelled" => \A s \in Step : steps'[d][s] # "running"
      BY <3>1
    <3>3. row'[d].status \notin {"absent", "queued", "succeeded"}
      BY <3>1
    <3>4. PlannedAt(d)' /\ AgreeAt(d)'
      BY <2>6, <2>8, <3>2, <3>3 DEF PlannedAt, AgreeAt, P
    <3>5. HolderAt(w)'
      BY <3>1 DEF HolderAt, Processing
    <3> QED BY <2>9, <3>4, <3>5
  <2> QED BY <1>4, <2>10, <2>11, <2>12, <2>13, <2>14, <2>15
<1> QED BY <1>1, <1>2, <1>3, <1>4 DEF WorkerEffect

LEMMA StepsStep == TypeInv /\ StepsInv /\ [Next]_vars => StepsInv'
<1> SUFFICES ASSUME TypeInv, StepsInv, [Next]_vars PROVE StepsInv'
    OBVIOUS
<1>1. CASE Next
  BY <1>1, RowEffects, WorkerEffects, RowSteps, WorkerSteps DEF Next
<1>2. CASE UNCHANGED vars
  BY <1>2 DEF vars, StepsInv, StepsPlanned, HolderSteps, StepsAgree, Processing, Holds
<1> QED BY <1>1, <1>2

-----------------------------------------------------------------------------
(* The theorems.                                                           *)

Inv == TypeInv /\ ActivationAtomic /\ FenceIsClaim /\ CancelShape /\ StepsInv

LEMMA Invariance == Spec => []Inv
<1>1. Init => Inv
  BY InitType, InitCore, InitSteps DEF Inv
<1>2. Inv /\ [Next]_vars => Inv'
  BY TypeStep, AtomicStep, FenceStep, CancellationNext, StepsStep DEF Inv
<1> QED BY <1>1, <1>2, PTL DEF Spec

\* Rows, steps and workers keep their types in every behaviour; a busy worker has
\* a deployment, and a step at hand while it processes one.
THEOREM TypeCorrect == Spec => []TypeOK
BY Invariance, PTL DEF Inv, TypeInv

\* A deployment succeeds exactly by publishing its revision, and the active
\* revision is that of a succeeded deployment, whatever crashed or lost its
\* lease in between (ActivateDeployment).
THEOREM ActivationSound == Spec => []ActivationAtomic
BY Invariance, PTL DEF Inv

\* The worker whose statement matches lease_owner and an active status works for
\* the newest acquisition, although the fence names no acquisition.
THEOREM FenceSound == Spec => []FenceIsClaim
BY Invariance, PTL DEF Inv

\* The steps shown with a finished deployment are true of it: a success shows
\* exactly its package's steps as succeeded, however many workers ran them, and a
\* cancellation leaves none running.
THEOREM StepsTrue == Spec => []StepsAgree
BY Invariance, PTL DEF Inv, StepsInv

\* A requested cancellation excludes success and failure, and finished rows and
\* their steps never change.
THEOREM CancellationFinal == Spec => CancellationWins
<1>1. Inv /\ [Next]_vars => [CancellationStep]_vars
  BY CancellationNext DEF Inv
<1>2. CancellationWins <=> [][CancellationStep]_vars
  BY DEF CancellationWins, CancellationStep
<1> QED BY Invariance, <1>1, <1>2, PTL DEF Spec

-----------------------------------------------------------------------------
(* The refinement of DeploymentLedger.                                     *)

\* Nothing but the activation shows the activation as succeeded: a failed or
\* cancelled deployment never does.
ActivationShown ==
    \A d \in Deployments : steps[d]["activate"] = "succeeded" => row[d].status = "succeeded"

LEMMA ShownKept ==
    ASSUME TypeInv, ActivationShown, NEW d \in Deployments, OthersKept(d),
           row[d].status \in {"absent", "queued"} \cup Active,
           steps'[d]["activate"] = "succeeded" => steps[d]["activate"] = "succeeded"
    PROVE  ActivationShown'
<1>1. steps'[d]["activate"] # "succeeded"
  BY DEF ActivationShown, Active
<1> QED BY <1>1 DEF ActivationShown, OthersKept

LEMMA ShownStep == TypeInv /\ ActivationShown /\ [Next]_vars => ActivationShown'
<1> SUFFICES ASSUME TypeInv, ActivationShown, [Next]_vars PROVE ActivationShown'
    OBVIOUS
<1>1. ASSUME NEW d \in Deployments, RowEffect(d)
      PROVE  ActivationShown'
  <2>1. /\ OthersKept(d) /\ steps' = steps
        /\ row[d].status \in {"absent", "queued"} \cup Active
    BY <1>1 DEF RowEffect, Creates, Cancels, Times
  <2> QED BY <2>1, ShownKept
<1>2. ASSUME NEW w \in Workers, WorkerEffect(w), Typed'
      PROVE  ActivationShown'
  <2>0. worker[w].pc # "idle" => worker[w].dep \in Deployments
    BY DEF TypeInv, TypeOK
  <2>1. ASSUME NEW d \in Deployments, Times(d) \/ Acquires(w, d)
        PROVE  ActivationShown'
    <3>1. /\ OthersKept(d) /\ steps' = steps
          /\ row[d].status \in {"absent", "queued"} \cup Active
      BY <2>1 DEF Times, Acquires
    <3> QED BY <3>1, ShownKept
  <2>2. CASE Moves(w)
    BY <2>2 DEF Moves, ActivationShown
  <2>3. CASE Starts(w)
    <3>1. PICK d \in Deployments : d = worker[w].dep
      BY <2>0, <2>3 DEF Starts
    <3>2. /\ OthersKept(d) /\ row[d].status \in Active
          /\ steps'[d] = [steps[d] EXCEPT ![Head(worker[w].todo)] = "running"]
      BY <2>3, <3>1 DEF Starts, Holds
    <3>3. steps'[d]["activate"] \in {"running", steps[d]["activate"]}
      BY <3>2 DEF TypeInv, TypeOK, Step
    <3> QED BY <3>2, <3>3, ShownKept
  <2>4. CASE Succeeds(w)
    <3>1. PICK d \in Deployments : d = worker[w].dep
      BY <2>0, <2>4 DEF Succeeds
    <3>2. /\ OthersKept(d) /\ row[d].status \in Active
          /\ Head(worker[w].todo) # "activate"
          /\ steps'[d] = [steps[d] EXCEPT ![Head(worker[w].todo)] = "succeeded"]
      BY <2>4, <3>1 DEF Succeeds, Holds
    <3>3. steps'[d]["activate"] = steps[d]["activate"]
      BY <3>2 DEF TypeInv, TypeOK, Step
    <3> QED BY <3>2, <3>3, ShownKept
  <2>5. CASE Fails(w)
    <3>1. PICK d \in Deployments : d = worker[w].dep
      BY <2>0, <2>5 DEF Fails
    <3>2. /\ OthersKept(d) /\ row[d].status \in Active
          /\ steps'[d] = [steps[d] EXCEPT ![Head(worker[w].todo)] = "failed"]
      BY <2>5, <3>1 DEF Fails, Holds
    <3>3. steps'[d]["activate"] \in {"failed", steps[d]["activate"]}
      BY <3>2 DEF TypeInv, TypeOK, Step
    <3> QED BY <3>2, <3>3, ShownKept
  <2>6. CASE Stages(w)
    <3>1. PICK d \in Deployments : d = worker[w].dep
      BY <2>0, <2>6 DEF Stages
    <3>2. OthersKept(d) /\ row[d].status \in Active /\ steps' = steps
      BY <2>6, <3>1 DEF Stages, Holds
    <3> QED BY <3>2, ShownKept
  <2>7. CASE Activates(w)
    <3>1. PICK d \in Deployments : d = worker[w].dep
      BY <2>0, <2>7 DEF Activates
    <3> QED BY <2>7, <3>1 DEF Activates, OthersKept, ActivationShown
  <2>8. CASE Ends(w)
    <3>1. PICK d \in Deployments : d = worker[w].dep
      BY <2>0, <2>8 DEF Ends
    <3>2. OthersKept(d) /\ row[d].status \in Active
      BY <2>8, <3>1 DEF Ends, Holds
    <3>3. steps'[d]["activate"] = "succeeded" => steps[d]["activate"] = "succeeded"
      BY <2>8, <3>1 DEF Ends, Step
    <3> QED BY <3>2, <3>3, ShownKept
  <2> QED BY <1>2, <2>1, <2>2, <2>3, <2>4, <2>5, <2>6, <2>7, <2>8 DEF WorkerEffect
<1>3. CASE UNCHANGED vars
  BY <1>3 DEF vars, ActivationShown
<1> QED BY <1>1, <1>2, <1>3, RowEffects, WorkerEffects DEF Next

\* A deployment keeps its upload.
LEMMA OriginKept ==
    ASSUME TypeInv, Next, NEW q \in Deployments, row[q].status # "absent"
    PROVE  row'[q].origin = row[q].origin
<1>0. row \in [Deployments -> Row]
  BY DEF TypeInv, TypeOK
<1>1. ASSUME NEW w \in Workers, WorkerStep(w)
      PROVE  row'[q].origin = row[q].origin
  <2>1. CASE Acquire(w)
    BY <1>0, <2>1 DEF Acquire, AcquireDeployment, Row
  <2>2. CASE MonitorPolls(w) \/ Shutdown(w) \/ Abandon(w) \/ StoreErrors(w)
    BY <2>2 DEF MonitorPolls, Shutdown, Abandon, StoreErrors
  <2>3. CASE RenewDeploymentLease(w)
    BY <1>0, <2>3 DEF RenewDeploymentLease, Row
  <2>4. CASE StepStarts(w)
    BY <1>0, <2>4 DEF StepStarts, Row
  <2>5. CASE SetDeploymentStage(w)
    BY <1>0, <2>5 DEF SetDeploymentStage, Row
  <2>6. CASE ActivateDeployment(w)
    BY <1>0, <2>6 DEF ActivateDeployment, Row
  <2>7. CASE CompleteDeploymentCancellation(w)
    <3>1. \/ row' = row
          \/ row' = [row EXCEPT ![worker[w].dep].status = "cancelled",
                               ![worker[w].dep].owner = NoWorker,
                               ![worker[w].dep].elapsed = FALSE]
      BY <2>7 DEF CompleteDeploymentCancellation
    <3> QED BY <1>0, <3>1 DEF Row
  <2>8. CASE FailDeployment(w)
    BY <1>0, <2>8 DEF FailDeployment, Row
  <2>9. CASE \/ ProcessInterrupted(w) \/ StepSucceeds(w) \/ StepFails(w)
             \/ BuildArtifactFails(w) \/ ActivationRefused(w)
             \/ CheckCancelled(w) \/ CheckFailed(w) \/ CheckDone(w)
    BY <2>9 DEF ProcessInterrupted, StepSucceeds, StepFails, BuildArtifactFails,
                ActivationRefused, CheckCancelled, CheckFailed, CheckDone, Decides
  <2> QED BY <1>1, <2>1, <2>2, <2>3, <2>4, <2>5, <2>6, <2>7, <2>8, <2>9
          DEF WorkerStep, Progress
<1>2. ASSUME NEW d \in Deployments, RowStep(d)
      PROVE  row'[q].origin = row[q].origin
  <2>1. ASSUME NEW c \in Contents, CreateDeployment(d, c) \/ CreateUnanswered(d, c)
        PROVE  row'[q].origin = row[q].origin
    BY <1>0, <2>1 DEF CreateDeployment, CreateUnanswered
  <2>2. ASSUME NEW o \in Deployments, RetryDeployment(o, d)
        PROVE  row'[q].origin = row[q].origin
    BY <1>0, <2>2 DEF RetryDeployment
  <2>3. CASE RequestDeploymentCancellation(d)
    BY <1>0, <2>3 DEF RequestDeploymentCancellation, Row
  <2>4. CASE LeaseExpires(d) \/ LeaseLapses(d)
    BY <1>0, <2>4 DEF LeaseExpires, LeaseLapses, Lapse, Row
  <2> QED BY <1>2, <2>1, <2>2, <2>3, <2>4 DEF RowStep
<1> QED BY <1>1, <1>2 DEF Next

\* What the ledger shows of a deployment.
Phase(d) == IF row[d].status \in {"queued"} \cup Active THEN "pending" ELSE row[d].status
Done(d) == {s \in Step : row[d].status \in Terminal /\ steps[d][s] = "succeeded"}

LedgerPhase == [d \in Deployments |-> Phase(d)]
LedgerContent == [d \in Deployments |-> row[d].content]
LedgerOrigin == [d \in Deployments |-> row[d].origin]
LedgerAsked == [d \in Deployments |-> row[d].cancel]
LedgerDone == [d \in Deployments |-> Done(d)]
LedgerPlan == [c \in Contents |-> {"validate", "activate"} \cup
                                  {Promotion[c][i] : i \in DOMAIN Promotion[c]}]

LEMMA PlanOf == \A c \in Contents : LedgerPlan[c] = Planned(c)
BY DEF LedgerPlan, Planned, StepsOf

LEMMA PlanInStep ==
    ASSUME NEW c \in Contents
    PROVE  Planned(c) \subseteq Step
<1>1. Promotion[c] \in {<<>>, <<"build">>, <<"check">>, <<"build", "check">>}
  BY PromotionAssumption
<1> QED BY <1>1 DEF Planned, StepsOf, Step, PromotionStep

LEMMA LedgerInit == Init => Ledger!Init
<1> SUFFICES ASSUME Init PROVE Ledger!Init
    OBVIOUS
<1>1. \A d \in Deployments : /\ row[d].status = "absent" /\ row[d].content = NoContent
                             /\ row[d].origin = d /\ row[d].cancel = FALSE
  BY DEF Init, NewRow
<1>2. \A d \in Deployments : Done(d) = {} /\ Phase(d) = "absent"
  BY <1>1 DEF Done, Phase, Terminal, Active
<1>3. /\ LedgerPhase = [d \in Deployments |-> "absent"]
      /\ LedgerContent = [d \in Deployments |-> NoContent]
      /\ LedgerOrigin = [d \in Deployments |-> d]
      /\ LedgerDone = [d \in Deployments |-> {}]
  BY <1>1, <1>2 DEF LedgerPhase, LedgerContent, LedgerOrigin, LedgerDone
<1>4. LedgerAsked = [d \in Deployments |-> FALSE]
  BY <1>1 DEF LedgerAsked
<1> QED BY <1>3, <1>4 DEF Ledger!Init, Init, LedgerPhase, LedgerContent, LedgerOrigin,
                          LedgerAsked, LedgerDone, Phase, Done

LEMMA LedgerStutter ==
    ASSUME \A q \in Deployments :
              /\ Phase(q)' = Phase(q) /\ Done(q)' = Done(q)
              /\ row'[q].content = row[q].content /\ row'[q].origin = row[q].origin
              /\ row'[q].cancel = row[q].cancel,
           active' = active
    PROVE  UNCHANGED Ledger!vars
<1>1. /\ LedgerPhase' = LedgerPhase /\ LedgerContent' = LedgerContent
      /\ LedgerOrigin' = LedgerOrigin /\ LedgerAsked' = LedgerAsked
      /\ LedgerDone' = LedgerDone
  BY DEF LedgerPhase, LedgerContent, LedgerOrigin, LedgerAsked, LedgerDone
<1> QED BY <1>1 DEF Ledger!vars, LedgerPhase, LedgerContent, LedgerOrigin, LedgerAsked,
                    LedgerDone, Phase, Done

\* The others look as they did.
LEMMA OthersShown ==
    ASSUME NEW d \in Deployments, OthersKept(d)
    PROVE  \A q \in Deployments : q # d =>
              /\ Phase(q)' = Phase(q) /\ Done(q)' = Done(q)
              /\ row'[q].content = row[q].content /\ row'[q].origin = row[q].origin
              /\ row'[q].cancel = row[q].cancel
BY DEF OthersKept, Phase, Done

\* A step that leaves a deployment to its worker is none of the client's.
LEMMA LedgerQuiet ==
    ASSUME NEW d \in Deployments, OthersKept(d), active' = active,
           row[d].status \in {"queued"} \cup Active, row'[d].status \in Active,
           row'[d].content = row[d].content, row'[d].origin = row[d].origin,
           row'[d].cancel = row[d].cancel
    PROVE  UNCHANGED Ledger!vars
<1>1. Phase(d)' = Phase(d) /\ Done(d)' = Done(d)
  BY DEF Phase, Done, Terminal, Active
<1> QED BY <1>1, OthersShown, LedgerStutter

LEMMA RowShown ==
    ASSUME NEW d \in Deployments, OthersKept(d), NEW c, NEW o,
           row'[d].content = c, row'[d].origin = o, row'[d].cancel = row[d].cancel
    PROVE  /\ LedgerContent' = [LedgerContent EXCEPT ![d] = c]
           /\ LedgerOrigin' = [LedgerOrigin EXCEPT ![d] = o]
           /\ LedgerAsked' = LedgerAsked
<1>1. \A q \in Deployments : q # d => row'[q] = row[q]
  BY DEF OthersKept
<1>2. LedgerContent' = [LedgerContent EXCEPT ![d] = c]
  BY <1>1 DEF LedgerContent
<1>3. LedgerOrigin' = [LedgerOrigin EXCEPT ![d] = o]
  BY <1>1 DEF LedgerOrigin
<1>4. LedgerAsked' = LedgerAsked
  BY <1>1 DEF LedgerAsked
<1> QED BY <1>2, <1>3, <1>4

LEMMA CreatedRow ==
    ASSUME TypeInv, CancelShape, NEW d \in Deployments, NEW c \in Contents,
           NEW o \in Deployments, row[d].status = "absent",
           row' = [row EXCEPT ![d] = NewRow(c, o)], steps' = steps
    PROVE  /\ row'[d].status = "queued" /\ row'[d].content = c /\ row'[d].origin = o
           /\ row'[d].cancel = row[d].cancel /\ OthersKept(d)
<1>1. row'[d] = NewRow(c, o) /\ \A q \in Deployments : q # d => row'[q] = row[q]
  BY DEF TypeInv, TypeOK
<1>2. row[d].cancel = FALSE
  <2>1. row[d] \in Row
    BY DEF TypeInv, TypeOK
  <2>2. row[d].cancel \in BOOLEAN
    BY <2>1 DEF Row
  <2> QED BY <2>2 DEF CancelShape
<1>3. /\ NewRow(c, o).status = "queued" /\ NewRow(c, o).content = c
      /\ NewRow(c, o).origin = o /\ NewRow(c, o).cancel = FALSE
  BY DEF NewRow
<1> QED BY <1>1, <1>2, <1>3 DEF OthersKept

LEMMA LedgerStarts ==
    ASSUME NEW d \in Deployments, NEW c \in Contents, NEW o \in Deployments,
           row[d].status = "absent", row'[d].status = "queued", row'[d].content = c,
           row'[d].origin = o, row'[d].cancel = row[d].cancel, OthersKept(d),
           UNCHANGED <<steps, active>>
    PROVE  Ledger!Starts(d, c, o)
<1>1. /\ Phase(d) = "absent" /\ Phase(d)' = "pending" /\ Done(d) = {} /\ Done(d)' = {}
  BY DEF Phase, Done, Terminal, Active
<1>2. LedgerPhase[d] = "absent" /\ LedgerPhase' = [LedgerPhase EXCEPT ![d] = "pending"]
  BY <1>1, OthersShown DEF LedgerPhase
<1>3. /\ LedgerContent' = [LedgerContent EXCEPT ![d] = c]
      /\ LedgerOrigin' = [LedgerOrigin EXCEPT ![d] = o]
      /\ LedgerAsked' = LedgerAsked
  BY RowShown
<1>4. LedgerDone' = LedgerDone
  BY <1>1, OthersShown DEF LedgerDone
<1> QED BY <1>2, <1>3, <1>4 DEF Ledger!Starts, LedgerPhase, LedgerContent, LedgerOrigin,
                                LedgerAsked, LedgerDone, Phase, Done

LEMMA LedgerCancels ==
    ASSUME TypeInv, NEW d \in Deployments, Cancels(d), StepsInv, Typed',
           row'[d].origin = row[d].origin
    PROVE  Ledger!Ask(d) \/ Ledger!Withdraw(d)
<1>1. /\ OthersKept(d) /\ row[d].status \in {"queued"} \cup Active
      /\ row'[d].status = IF row[d].status = "queued" THEN "cancelled" ELSE row[d].status
      /\ row'[d].content = row[d].content /\ steps' = steps /\ active' = active
      /\ row'[d].cancel
  BY DEF Cancels, HistoryKept
<1>2. Phase(d) = "pending" /\ Done(d) = {}
  BY <1>1 DEF Phase, Done, Terminal, Active
<1>3. Done(d)' = {}
  BY <1>1 DEF Done, Terminal, Active, StepsInv, StepsPlanned
<1>4. /\ LedgerPhase[d] = "pending"
      /\ LedgerContent' = LedgerContent /\ LedgerOrigin' = LedgerOrigin
      /\ LedgerDone' = LedgerDone
  BY <1>1, <1>2, <1>3, OthersShown DEF LedgerPhase, LedgerContent, LedgerOrigin, LedgerDone
<1>5. LedgerAsked' = [LedgerAsked EXCEPT ![d] = TRUE]
  <2>1. row'[d].cancel = TRUE
    BY <1>1 DEF Typed, Row
  <2> QED BY <1>1, <2>1, OthersShown DEF LedgerAsked
<1>6. CASE row[d].status = "queued"
  <2>1. LedgerPhase' = [LedgerPhase EXCEPT ![d] = "cancelled"]
    BY <1>1, <1>6, OthersShown DEF LedgerPhase, Phase, Active
  <2> QED BY <1>1, <1>4, <1>5, <2>1
          DEF Ledger!Withdraw, LedgerPhase, LedgerContent, LedgerOrigin, LedgerAsked,
              LedgerDone, Phase, Done
<1>7. CASE row[d].status # "queued"
  <2>1. LedgerPhase' = LedgerPhase
    BY <1>1, <1>7, OthersShown DEF LedgerPhase, Phase
  <2> QED BY <1>1, <1>4, <1>5, <2>1
          DEF Ledger!Ask, LedgerPhase, LedgerContent, LedgerOrigin, LedgerAsked,
              LedgerDone, Phase, Done
<1> QED BY <1>6, <1>7

\* Whoever ends an active deployment leaves the request as it was, and shows the steps.
LEMMA LedgerEnded ==
    ASSUME NEW d \in Deployments, OthersKept(d), row[d].status \in Active,
           NEW p \in Terminal, row'[d].status = p,
           row'[d].content = row[d].content, row'[d].origin = row[d].origin,
           row'[d].cancel = row[d].cancel
    PROVE  /\ Ledger!Ends(d, p)
           /\ LedgerDone' = [LedgerDone EXCEPT ![d] =
                                {s \in Step : steps'[d][s] = "succeeded"}]
<1>1. Phase(d) = "pending" /\ Phase(d)' = p
  BY DEF Phase, Active, Terminal
<1>2. LedgerPhase[d] = "pending" /\ LedgerPhase' = [LedgerPhase EXCEPT ![d] = p]
  BY <1>1, OthersShown DEF LedgerPhase
<1>3. LedgerContent' = LedgerContent /\ LedgerOrigin' = LedgerOrigin
  BY OthersShown DEF LedgerContent, LedgerOrigin
<1>4. LedgerAsked' = LedgerAsked
  BY OthersShown DEF LedgerAsked
<1>5. Done(d)' = {s \in Step : steps'[d][s] = "succeeded"}
  BY DEF Done
<1>6. LedgerDone' = [LedgerDone EXCEPT ![d] = {s \in Step : steps'[d][s] = "succeeded"}]
  BY <1>5, OthersShown DEF LedgerDone
<1>7. Ledger!Ends(d, p)
  BY <1>2, <1>3, <1>4 DEF Ledger!Ends, LedgerPhase, LedgerContent, LedgerOrigin,
                          LedgerAsked, Phase
<1> QED BY <1>6, <1>7

\* ActivateDeployment commits.
LEMMA LedgerSucceeds ==
    ASSUME TypeInv, StepsInv', NEW d \in Deployments, OthersKept(d), row[d].status \in Active,
           row'[d].status = "succeeded", row'[d].content = row[d].content,
           row'[d].origin = row[d].origin, ~row[d].cancel,
           row'[d].cancel = row[d].cancel, active' = d
    PROVE  Ledger!Succeed(d)
<1>1. row[d].content \in Contents /\ LedgerContent[d] = row[d].content
  BY DEF TypeInv, TypeOK, Active, LedgerContent
<1>2. {s \in Step : steps'[d][s] = "succeeded"} = Planned(row[d].content)
  <2>1. \A s \in Step : steps'[d][s] = "succeeded" <=> s \in Planned(row[d].content)
    BY DEF StepsInv, StepsAgree, Planned, StepsOf
  <2>2. Planned(row[d].content) \subseteq Step
    BY <1>1, PlanInStep
  <2> QED BY <2>1, <2>2
<1>3. Ledger!Ends(d, "succeeded") /\ LedgerDone' = [LedgerDone EXCEPT ![d] = LedgerPlan[row[d].content]]
  BY <1>1, <1>2, LedgerEnded, PlanOf DEF Terminal
<1>4. ~LedgerAsked[d]
  BY DEF LedgerAsked
<1> QED BY <1>1, <1>3, <1>4
        DEF Ledger!Succeed, LedgerContent, LedgerAsked, LedgerDone, LedgerPlan, Done

\* CompleteDeploymentCancellation or FailDeployment matches the row.
LEMMA LedgerEnds ==
    ASSUME TypeInv, StepsInv', ActivationShown', NEW d \in Deployments, OthersKept(d),
           row[d].status \in Active,
           \/ row'[d].status = "cancelled" /\ row[d].cancel
           \/ row'[d].status = "failed" /\ ~row[d].cancel,
           row'[d].content = row[d].content, row'[d].origin = row[d].origin,
           row'[d].cancel = row[d].cancel, active' = active
    PROVE  Ledger!Cancel(d) \/ Ledger!Fail(d)
<1> DEFINE f == {s \in Step : steps'[d][s] = "succeeded"}
<1>1. row[d].content \in Contents /\ LedgerContent[d] = row[d].content
  BY DEF TypeInv, TypeOK, Active, LedgerContent
<1>2. f \in SUBSET (LedgerPlan[row[d].content] \ {"activate"})
  <2>1. \A s \in f : s \in Planned(row[d].content)
    BY DEF StepsInv, StepsPlanned
  <2>2. "activate" \notin f
    BY DEF ActivationShown
  <2> QED BY <1>1, <2>1, <2>2, PlanOf
<1>3. LedgerDone' = [LedgerDone EXCEPT ![d] = f]
  BY LedgerEnded DEF Terminal
<1> HIDE DEF f
<1>4. \E g \in SUBSET (LedgerPlan[LedgerContent[d]] \ {"activate"}) :
          LedgerDone' = [LedgerDone EXCEPT ![d] = g]
  BY <1>1, <1>2, <1>3
<1>5. CASE row'[d].status = "cancelled" /\ row[d].cancel
  <2>1. Ledger!Ends(d, "cancelled") /\ LedgerAsked[d]
    BY <1>5, LedgerEnded DEF Terminal, LedgerAsked
  <2> QED BY <1>4, <2>1 DEF Ledger!Cancel, LedgerContent, LedgerAsked, LedgerDone,
                            LedgerPlan, Done
<1>6. CASE row'[d].status = "failed" /\ ~row[d].cancel
  <2>1. Ledger!Ends(d, "failed") /\ ~LedgerAsked[d]
    BY <1>6, LedgerEnded DEF Terminal, LedgerAsked
  <2> QED BY <1>4, <2>1 DEF Ledger!Fail, LedgerContent, LedgerAsked, LedgerDone,
                            LedgerPlan, Done
<1> QED BY <1>5, <1>6

LEMMA LedgerStep ==
    ASSUME TypeInv, CancelShape, StepsInv, ActivationShown, [Next]_vars
    PROVE  [Ledger!Next]_(Ledger!vars)
<1> SUFFICES Ledger!Next \/ UNCHANGED Ledger!vars
  OBVIOUS
<1>1. StepsInv' /\ ActivationShown'
  BY StepsStep, ShownStep
<1>2. CASE UNCHANGED vars
  BY <1>2, LedgerStutter DEF vars, Phase, Done
<1>3. ASSUME NEW d \in Deployments, Next, RowStep(d)
      PROVE  Ledger!Next \/ UNCHANGED Ledger!vars
  <2>0. Typed' /\ RowEffect(d)
    BY <1>3, RowEffects
  <2>1. ASSUME NEW c \in Contents, CreateDeployment(d, c) \/ CreateUnanswered(d, c)
        PROVE  Ledger!Next
    <3>1. /\ row[d].status = "absent" /\ row' = [row EXCEPT ![d] = NewRow(c, d)]
          /\ UNCHANGED <<steps, active>>
      BY <2>1 DEF CreateDeployment, CreateUnanswered
    <3>2. Ledger!Submit(d, c)
      <4>1. /\ row'[d].status = "queued" /\ row'[d].content = c /\ row'[d].origin = d
            /\ row'[d].cancel = row[d].cancel /\ OthersKept(d)
        BY <3>1, CreatedRow
      <4> QED BY <3>1, <4>1, LedgerStarts DEF Ledger!Submit
    <3> QED BY <3>2 DEF Ledger!Next
  <2>2. ASSUME NEW o \in Deployments, RetryDeployment(o, d)
        PROVE  Ledger!Next
    <3>1. /\ row[o].status \in {"failed", "cancelled"} /\ row[d].status = "absent"
          /\ row' = [row EXCEPT ![d] = NewRow(row[o].content, row[o].origin)]
          /\ UNCHANGED <<steps, active>>
      BY <2>2 DEF RetryDeployment
    <3>2. row[o].content \in Contents /\ row[o].origin \in Deployments
      BY <3>1 DEF TypeInv, TypeOK, Row
    <3>3. PICK c \in Contents, u \in Deployments : c = row[o].content /\ u = row[o].origin
      BY <3>2
    <3>4. row' = [row EXCEPT ![d] = NewRow(c, u)]
      BY <3>1, <3>3
    <3>5. Ledger!Starts(d, c, u)
      <4>1. row[d].status = "absent" /\ UNCHANGED <<steps, active>>
        BY <3>1
      <4>2. /\ row'[d].status = "queued" /\ row'[d].content = c /\ row'[d].origin = u
            /\ row'[d].cancel = row[d].cancel /\ OthersKept(d)
        BY <3>4, <4>1, CreatedRow
      <4> QED BY <4>1, <4>2, LedgerStarts
    <3>6. /\ LedgerPhase[o] \in {"failed", "cancelled"}
          /\ LedgerContent[o] = c /\ LedgerOrigin[o] = u
      BY <3>1, <3>3 DEF LedgerPhase, LedgerContent, LedgerOrigin, Phase, Active
    <3>7. Ledger!Starts(d, LedgerContent[o], LedgerOrigin[o])
      BY <3>5, <3>6 DEF Ledger!Starts
    <3>8. Ledger!Retry(o, d)
      BY <3>6, <3>7 DEF Ledger!Retry, LedgerPhase, LedgerContent, LedgerOrigin, Phase
    <3> QED BY <3>8 DEF Ledger!Next
  <2>3. CASE RequestDeploymentCancellation(d) \/ LeaseExpires(d) \/ LeaseLapses(d)
    <3>1. row[d].status # "absent"
      BY <2>3 DEF RequestDeploymentCancellation, LeaseExpires, LeaseLapses, Active
    <3>2. row'[d].origin = row[d].origin
      BY <1>3, <3>1, OriginKept
    <3>3. CASE Cancels(d)
      BY <2>0, <3>2, <3>3, LedgerCancels DEF Ledger!Next
    <3>4. CASE Times(d)
      <4>1. /\ OthersKept(d) /\ active' = active
            /\ row[d].status \in {"queued"} \cup Active /\ row'[d].status \in Active
            /\ row'[d].content = row[d].content /\ row'[d].cancel = row[d].cancel
        BY <3>4 DEF Times, RowKept, HistoryKept
      <4> QED BY <3>2, <4>1, LedgerQuiet
    <3> QED BY <2>0, <3>1, <3>3, <3>4 DEF RowEffect, Creates
  <2> QED BY <1>3, <2>1, <2>2, <2>3 DEF RowStep
<1>4. ASSUME NEW w \in Workers, Next, WorkerStep(w)
      PROVE  Ledger!Next \/ UNCHANGED Ledger!vars
  <2>0. Typed' /\ WorkerEffect(w)
    BY <1>4, WorkerEffects
  <2>1. ASSUME NEW d \in Deployments, Times(d) \/ Acquires(w, d)
        PROVE  UNCHANGED Ledger!vars
    <3>1. /\ OthersKept(d) /\ active' = active
          /\ row[d].status \in {"queued"} \cup Active /\ row'[d].status \in Active
          /\ row'[d].content = row[d].content
      BY <2>1 DEF Times, Acquires, RowKept, HistoryKept, Active
    <3>2. row'[d].origin = row[d].origin
      BY <1>4, <3>1, OriginKept DEF Active
    <3>3. row'[d].cancel = row[d].cancel
      <4>1. row'[d] \in Row /\ row[d] \in Row
        BY <2>0 DEF Typed, TypeInv, TypeOK
      <4>2. row'[d].cancel \in BOOLEAN /\ row[d].cancel \in BOOLEAN
        BY <4>1 DEF Row
      <4> QED BY <2>1, <4>2 DEF Times, Acquires, RowKept
    <3> QED BY <3>1, <3>2, <3>3, LedgerQuiet
  <2>2. CASE Moves(w)
    BY <2>2, LedgerStutter DEF Moves, HistoryKept, Phase, Done
  <2>3. ASSUME NEW d \in Deployments, d = worker[w].dep,
               Starts(w) \/ Succeeds(w) \/ Fails(w) \/ Stages(w)
        PROVE  UNCHANGED Ledger!vars
    <3>1. /\ OthersKept(d) /\ active' = active
          /\ row[d].status \in Active /\ row'[d].status \in Active
          /\ row'[d].content = row[d].content /\ row'[d].cancel = row[d].cancel
      BY <2>3 DEF Starts, Succeeds, Fails, Stages, RowKept, HistoryKept, Holds
    <3>2. row'[d].origin = row[d].origin
      BY <1>4, <3>1, OriginKept DEF Active
    <3> QED BY <3>1, <3>2, LedgerQuiet
  <2>4. ASSUME NEW d \in Deployments, d = worker[w].dep, Activates(w)
        PROVE  Ledger!Next
    <3>1. /\ OthersKept(d) /\ active' = d /\ row[d].status \in Active /\ ~row[d].cancel
          /\ row'[d].status = "succeeded" /\ row'[d].content = row[d].content
      BY <2>4 DEF Activates, Holds
    <3>2. row'[d].origin = row[d].origin
      BY <1>4, <3>1, OriginKept DEF Active
    <3>3. row'[d].cancel = row[d].cancel
      <4>1. row'[d] \in Row /\ row[d] \in Row
        BY <2>0 DEF Typed, TypeInv, TypeOK
      <4>2. row'[d].cancel \in BOOLEAN /\ row[d].cancel \in BOOLEAN
        BY <4>1 DEF Row
      <4> QED BY <2>4, <4>2 DEF Activates
    <3>4. Ledger!Succeed(d)
      BY <1>1, <3>1, <3>2, <3>3, LedgerSucceeds
    <3> QED BY <3>4 DEF Ledger!Next
  <2>5. ASSUME NEW d \in Deployments, d = worker[w].dep, Ends(w)
        PROVE  Ledger!Next
    <3>1. /\ OthersKept(d) /\ active' = active /\ row[d].status \in Active
          /\ \/ row'[d].status = "cancelled" /\ row[d].cancel
             \/ row'[d].status = "failed" /\ ~row[d].cancel
          /\ row'[d].content = row[d].content /\ row'[d].cancel = row[d].cancel
      BY <2>5 DEF Ends, Holds, HistoryKept
    <3>2. row'[d].origin = row[d].origin
      BY <1>4, <3>1, OriginKept DEF Active
    <3>3. Ledger!Cancel(d) \/ Ledger!Fail(d)
      BY <1>1, <3>1, <3>2, LedgerEnds
    <3> QED BY <3>3 DEF Ledger!Next
  <2>6. worker[w].pc # "idle" => worker[w].dep \in Deployments
    BY DEF TypeInv, TypeOK
  <2>7. Starts(w) \/ Succeeds(w) \/ Fails(w) \/ Stages(w) \/ Activates(w) \/ Ends(w)
            => worker[w].pc # "idle"
    BY DEF Starts, Succeeds, Fails, Stages, Activates, Ends
  <2> QED BY <2>0, <2>1, <2>2, <2>3, <2>4, <2>5, <2>6, <2>7 DEF WorkerEffect
<1> QED BY <1>2, <1>3, <1>4 DEF Next

\* The deployments table and its workers implement what a client may rely on:
\* whatever crashes, lapses or is raced by a cancellation, a deployment ends
\* once, a success is its activation with every step shown, and a retry deploys
\* the upload it repeats (CreateDeployment to FailDeployment).
THEOREM Refinement == Spec => ImplementsLedger
<1>1. Init => ActivationShown
  BY DEF Init, NoSteps, ActivationShown, Step
<1>2. ActivationShown /\ Inv /\ [Next]_vars => ActivationShown'
  BY ShownStep DEF Inv
<1>3. ActivationShown /\ Inv /\ [Next]_vars => [Ledger!Next]_(Ledger!vars)
  BY LedgerStep DEF Inv
<1> QED BY Invariance, LedgerInit, <1>1, <1>2, <1>3, PTL
        DEF Spec, ImplementsLedger, Ledger!Spec
=============================================================================
