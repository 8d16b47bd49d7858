------------------------ MODULE InvestigationsProofs ------------------------
(***************************************************************************)
(* Proofs about Investigations for any number of requests, operators,      *)
(* versions and changes of the cloud tasks.                                *)
(***************************************************************************)
EXTENDS Investigations, FiniteSetTheorems, TLAPS

Operation ==
    [pc : {"idle", "reserve", "mark", "submit", "attach", "before", "diff", "after",
           "capture", "check", "claim", "edit"},
     on : Requests \cup {NoRequest}, version : Nat, state : State,
     before : 0 .. MaxCloud, diff : 0 .. MaxCloud]

Task == [tasks : Nat, version : 0 .. MaxCloud, idle : BOOLEAN]

-----------------------------------------------------------------------------
(* The inductive invariant.                                                *)

Busy(p) == op[p].pc \notin {"idle", "reserve"}

\* What a process remembers is what that version of the record says, although
\* the record may have moved on.
ReadTrue(p) ==
    /\ op[p].pc # "idle" => op[p].on \in Requests
    /\ Busy(p) => /\ op[p].version \in 1 .. Version(op[p].on)
                  /\ op[p].state = versions[op[p].on][op[p].version].state
    /\ op[p].pc = "reserve" => op[p].state = Reserved

Submitting(p) == op[p].pc \in {"mark", "submit"}

\* A process on its way to the submission owns a request nobody has submitted,
\* and it goes there by way of versions 1 and 2.
MaySubmit(p) ==
    /\ Submitting(p) => submitted[op[p].on] = <<>>
    /\ op[p].pc = "mark" => op[p].version = 1
    /\ op[p].pc = "submit" => op[p].version = 2

\* The versions a capture saw bound the version of the task from below, and two
\* equal ones leave no room in between for the patch to be of another version.
CaptureTrue(p) ==
    /\ op[p].pc \in {"diff", "after"} => op[p].before <= cloud[op[p].on].version
    /\ op[p].pc = "after" => /\ op[p].before <= op[p].diff
                             /\ op[p].diff <= cloud[op[p].on].version
    /\ op[p].pc = "capture" => op[p].diff = op[p].before
    /\ op[p].pc \in {"check", "claim"} => op[p].state.status = "review"

OpInv(p) == ReadTrue(p) /\ MaySubmit(p) /\ CaptureTrue(p)

\* A reservation has one owner.
OwnerAlone ==
    \A p, r \in Operators :
        (Submitting(p) /\ Submitting(r) /\ op[p].on = op[r].on) => p = r

\* The records of one request.
RequestInv(q) ==
    /\ ~Exists(q) => submitted[q] = <<>>
    /\ cloud[q].tasks = Len(submitted[q])
    /\ cloud[q].tasks = 0 => cloud[q].version = 0
    /\ Len(submitted[q]) <= 1
    /\ \A i \in DOMAIN submitted[q] : submitted[q][i] # "reserved"

\* Entry e is the i-th of a record.
EntryTrue(e, i) ==
    /\ e.state.status = "reserved" <=> i = 1
    /\ e.state.patch = e.state.cloudAt

\* Entry e is the i-th of a record and follows entry d.
FollowsTrue(d, e, i) ==
    /\ e.from = i - 1
    /\ d.state.status \notin Terminal
    /\ d.state.task => e.state.task
    /\ e.state.cloudAt >= d.state.cloudAt
    /\ e.state.status = "local" => /\ e.state.patch # 0
                                   /\ d.state.status \in {"review", "local"}
                                   /\ d.state.patch = e.state.patch

HistoryAt(q) ==
    /\ \A i \in 1 .. Len(versions[q]) : EntryTrue(versions[q][i], i)
    /\ \A i \in 2 .. Len(versions[q]) : FollowsTrue(versions[q][i-1], versions[q][i], i)

OneActive == \A q, r \in Active : q = r

Inv ==
    /\ TypeOK
    /\ \A p \in Operators : OpInv(p)
    /\ OwnerAlone
    /\ \A q \in Requests : RequestInv(q) /\ HistoryAt(q)
    /\ OneActive

-----------------------------------------------------------------------------
(* Building blocks.                                                        *)

LEMMA ReservedFacts ==
    /\ Reserved \in State /\ Reserved.status = "reserved"
    /\ Reserved.cloudAt = 0 /\ Reserved.patch = 0
    /\ Idle \in Operation /\ Idle.pc = "idle"
<1>1. 0 \in 0 .. MaxCloud /\ 0 \in Nat
  BY InvestigationAssumption
<1>2. /\ Reserved \in State /\ Reserved.status = "reserved"
      /\ Reserved.cloudAt = 0 /\ Reserved.patch = 0
  BY <1>1 DEF Reserved, State, Statuses
<1> QED BY <1>1, <1>2 DEF Idle, Operation

LEMMA TypeParts ==
    TypeOK <=> /\ versions \in [Requests -> Seq(Entry)]
               /\ cloud \in [Requests -> Task]
               /\ op \in [Operators -> Operation]
               /\ submitted \in [Requests -> Seq(Statuses)]
BY DEF TypeOK, Operation, Task

LEMMA TypePartsNext ==
    ASSUME versions' \in [Requests -> Seq(Entry)], cloud' \in [Requests -> Task],
           op' \in [Operators -> Operation], submitted' \in [Requests -> Seq(Statuses)]
    PROVE  TypeOK'
BY DEF TypeOK, Operation, Task

LEMMA InitInv == Init => Inv
<1> SUFFICES ASSUME Init PROVE Inv
    OBVIOUS
<1>1. \A q \in Requests : /\ versions[q] = <<>> /\ submitted[q] = <<>>
                          /\ cloud[q] = [tasks |-> 0, version |-> 0, idle |-> FALSE]
  BY DEF Init
<1>2. \A p \in Operators : op[p] = Idle
  BY DEF Init
<1>3. TypeOK
  <2>1. [tasks |-> 0, version |-> 0, idle |-> FALSE] \in Task
    BY InvestigationAssumption DEF Task
  <2>2. versions \in [Requests -> Seq(Entry)] /\ submitted \in [Requests -> Seq(Statuses)]
    BY DEF Init
  <2>3. cloud \in [Requests -> Task] /\ op \in [Operators -> Operation]
    BY <2>1, ReservedFacts DEF Init
  <2> QED BY <2>2, <2>3, TypeParts
<1>4. \A p \in Operators : OpInv(p)
  BY <1>2, ReservedFacts DEF OpInv, ReadTrue, MaySubmit, CaptureTrue, Busy, Submitting
<1>5. OwnerAlone
  BY <1>2, ReservedFacts DEF OwnerAlone, Submitting
<1>6. \A q \in Requests : RequestInv(q) /\ HistoryAt(q)
  BY <1>1 DEF RequestInv, HistoryAt, Exists
<1>7. OneActive
  BY <1>1 DEF OneActive, Active, Exists
<1> QED BY <1>3, <1>4, <1>5, <1>6, <1>7 DEF Inv

\* What a process knows of the record it has read, if nothing was added to it.
LEMMA ReadFacts ==
    ASSUME Inv, NEW p \in Operators, Busy(p)
    PROVE  /\ op[p].on \in Requests
           /\ op[p] \in Operation
           /\ op[p].state \in State
           /\ op[p].state.patch = op[p].state.cloudAt
           /\ op[p].version \in 1 .. Version(op[p].on)
           /\ op[p].state = versions[op[p].on][op[p].version].state
           /\ Exists(op[p].on)
           /\ op[p].version = Version(op[p].on) => Current(op[p].on) = op[p].state
<1>1. op[p].pc # "idle" /\ op[p] \in Operation /\ op[p].state \in State
  BY TypeParts DEF Inv, Busy, Operation
<1>2. /\ op[p].on \in Requests /\ op[p].version \in 1 .. Version(op[p].on)
      /\ op[p].state = versions[op[p].on][op[p].version].state
  BY <1>1 DEF Inv, OpInv, ReadTrue
<1>3. HistoryAt(op[p].on)
  BY <1>2 DEF Inv
<1>4. op[p].state.patch = op[p].state.cloudAt
  BY <1>2, <1>3 DEF HistoryAt, EntryTrue, Version
<1>5. versions[op[p].on] \in Seq(Entry)
  BY <1>2, TypeParts DEF Inv
<1>6. Exists(op[p].on)
  BY <1>2, <1>5 DEF Exists, Version
<1> QED BY <1>1, <1>2, <1>4, <1>6 DEF Current

\* A step of a process that changes nothing but its own state.
LEMMA OperationStep ==
    ASSUME Inv, NEW p \in Operators, NEW next \in Operation,
           op' = [op EXCEPT ![p] = next], UNCHANGED <<versions, cloud, submitted>>,
           OpInv(p)',
           next.pc \in {"mark", "submit"} => Submitting(p) /\ next.on = op[p].on
    PROVE  Inv'
<1>1. /\ op' \in [Operators -> Operation] /\ op'[p] = next
      /\ \A r \in Operators : r # p => op'[r] = op[r]
  BY TypeParts DEF Inv
<1>2. TypeOK'
  BY <1>1, TypeParts, TypePartsNext DEF Inv
<1>3. \A r \in Operators : OpInv(r)'
  BY <1>1 DEF Inv, OpInv, ReadTrue, MaySubmit, CaptureTrue, Busy, Submitting, Version
<1>4. OwnerAlone'
  BY <1>1 DEF Inv, OwnerAlone, Submitting
<1>5. \A q \in Requests : RequestInv(q)' /\ HistoryAt(q)'
  BY DEF Inv, RequestInv, HistoryAt, Exists
<1>6. OneActive'
  BY DEF Inv, OneActive, Active, Exists, Current, Version
<1> QED BY <1>2, <1>3, <1>4, <1>5, <1>6 DEF Inv

LEMMA IdleStep ==
    ASSUME Inv, NEW p \in Operators, Ends(p), UNCHANGED <<versions, cloud, submitted>>
    PROVE  Inv'
<1>1. op' = [op EXCEPT ![p] = Idle] /\ op'[p] = Idle
  BY TypeParts DEF Inv, Ends
<1>2. OpInv(p)'
  BY <1>1, ReservedFacts DEF OpInv, ReadTrue, MaySubmit, CaptureTrue, Busy, Submitting
<1> QED BY <1>1, <1>2, ReservedFacts, OperationStep

-----------------------------------------------------------------------------
(* Updates of the registry.                                                *)

\* A version is added to a record.
LEMMA AppendFacts ==
    ASSUME NEW s \in Seq(Entry), NEW e \in Entry
    PROVE  /\ Append(s, e) \in Seq(Entry) /\ Append(s, e) # <<>>
           /\ Len(Append(s, e)) = Len(s) + 1 /\ Append(s, e)[Len(s) + 1] = e
           /\ \A i \in 1 .. Len(s) : Append(s, e)[i] = s[i]
OBVIOUS

\* Records only grow, so what was read stays what that version says.
LEMMA ReadKept ==
    ASSUME Inv, NEW r \in Operators, op'[r] = op[r],
           versions' \in [Requests -> Seq(Entry)],
           \A q \in Requests : /\ Len(versions'[q]) >= Len(versions[q])
                               /\ \A i \in 1 .. Len(versions[q]) : versions'[q][i] = versions[q][i]
    PROVE  ReadTrue(r)'
<1> SUFFICES ASSUME op[r].pc # "idle"
             PROVE  /\ op[r].on \in Requests
                    /\ Busy(r) => /\ op[r].version \in 1 .. Len(versions'[op[r].on])
                                  /\ op[r].state = versions'[op[r].on][op[r].version].state
  BY DEF Inv, OpInv, ReadTrue, Busy, Version
<1>1. op[r].on \in Requests
  BY DEF Inv, OpInv, ReadTrue
<1>2. ASSUME Busy(r)
      PROVE  /\ op[r].version \in 1 .. Len(versions'[op[r].on])
             /\ op[r].state = versions'[op[r].on][op[r].version].state
  <2>1. /\ op[r].version \in 1 .. Len(versions[op[r].on])
        /\ op[r].state = versions[op[r].on][op[r].version].state
    BY <1>2, ReadFacts DEF Version
  <2>2. Len(versions[op[r].on]) \in Nat /\ Len(versions'[op[r].on]) \in Nat
    BY <1>1, TypeParts DEF Inv
  <2> QED BY <1>1, <2>1, <2>2
<1> QED BY <1>1, <1>2

LEMMA UpdateStep ==
    ASSUME Inv, NEW p \in Operators, Busy(p), NEW new \in State, NEW pc \in {"idle", "submit"},
           Update(p, new, pc), UNCHANGED <<cloud, submitted>>,
           new.status # "reserved", new.patch = new.cloudAt,
           new.status = "local" => /\ op[p].state.status = "review"
                                   /\ op[p].state.patch = new.patch,
           pc = "submit" => op[p].pc = "mark"
    PROVE  Inv'
<1>1. CASE ~Accepts(op[p].on, op[p].version, new)
  BY <1>1, IdleStep DEF Update
<1>2. CASE Accepts(op[p].on, op[p].version, new)
  <2>0. op[p].on \in Requests /\ op[p] \in Operation
    BY ReadFacts
  <2> PICK q \in Requests : q = op[p].on
    BY <2>0
  <2>1. versions[q] \in Seq(Entry) /\ Version(q) \in Nat
    BY TypeParts DEF Inv, Version
  <2> PICK n \in Nat : n = Version(q)
    BY <2>1
  <2>2. /\ op[p].version = n /\ n >= 1 /\ Current(q) = op[p].state
        /\ versions[q][n].state = op[p].state /\ versions[q] # <<>>
    BY <1>2, <2>1, ReadFacts DEF Accepts, Unchanged, Exists
  <2>3. /\ op[p].state.status \notin Terminal
        /\ op[p].state.task => new.task
        /\ new.cloudAt >= op[p].state.cloudAt
        /\ new.status = "local" => new.patch # 0
    BY <1>2, <2>2 DEF Accepts, ValidTransition
  <2> DEFINE e == [state |-> new, from |-> n]
             next == IF pc = "idle" THEN Idle
                     ELSE [op[p] EXCEPT !.pc = pc, !.version = n + 1, !.state = new]
  <2>4. versions' = [versions EXCEPT ![q] = Append(versions[q], e)] /\ op' = [op EXCEPT ![p] = next]
    BY <1>2, <2>2 DEF Update, Updated
  <2>5. e \in Entry /\ e.state = new /\ e.from = n
    BY DEF Entry
  <2>6. /\ next \in Operation
        /\ next.pc = pc
        /\ pc = "submit" => next.on = q /\ next.version = n + 1 /\ next.state = new
    <3>1. CASE pc = "idle"
      BY <3>1, ReservedFacts
    <3>2. CASE pc = "submit"
      <4>1. n + 1 \in Nat
        OBVIOUS
      <4>2. next = [op[p] EXCEPT !.pc = "submit", !.version = n + 1, !.state = new]
        BY <3>2
      <4> QED BY <2>0, <3>2, <4>1, <4>2 DEF Operation
    <3> QED BY <3>1, <3>2
  <2> HIDE DEF e, next
  <2>7. /\ versions' \in [Requests -> Seq(Entry)]
        /\ Len(versions'[q]) = n + 1 /\ versions'[q][n + 1] = e /\ versions'[q] # <<>>
        /\ \A i \in 1 .. n : versions'[q][i] = versions[q][i]
        /\ \A r \in Requests : r # q => versions'[r] = versions[r]
    <3>1. /\ versions'[q] = Append(versions[q], e)
          /\ \A r \in Requests : r # q => versions'[r] = versions[r]
          /\ DOMAIN versions' = Requests
          /\ versions' = [r \in Requests |-> versions'[r]]
      BY <2>4, TypeParts DEF Inv
    <3>2. /\ versions'[q] \in Seq(Entry) /\ versions'[q] # <<>>
          /\ Len(versions'[q]) = n + 1 /\ versions'[q][n + 1] = e
          /\ \A i \in 1 .. n : versions'[q][i] = versions[q][i]
      BY <2>1, <2>5, <3>1, AppendFacts DEF Version
    <3>3. versions' \in [Requests -> Seq(Entry)]
      BY <3>1, <3>2, TypeParts DEF Inv
    <3> QED BY <3>1, <3>2, <3>3
  <2>8. /\ op' \in [Operators -> Operation] /\ op'[p] = next
        /\ \A r \in Operators : r # p => op'[r] = op[r]
    BY <2>4, <2>6, TypeParts DEF Inv
  <2>9. TypeOK'
    BY <2>7, <2>8, TypeParts, TypePartsNext DEF Inv
  <2>10. \A r \in Operators : OpInv(r)'
    <3>1. ASSUME NEW r \in Operators, r # p
          PROVE  OpInv(r)'
      <4>0. \A s \in Requests : /\ Len(versions'[s]) >= Len(versions[s])
                                /\ \A i \in 1 .. Len(versions[s]) : versions'[s][i] = versions[s][i]
        <5> SUFFICES ASSUME NEW s \in Requests
                     PROVE  /\ Len(versions'[s]) >= Len(versions[s])
                            /\ \A i \in 1 .. Len(versions[s]) : versions'[s][i] = versions[s][i]
          OBVIOUS
        <5>1. Len(versions[s]) \in Nat
          BY TypeParts DEF Inv
        <5> QED BY <2>7, <5>1 DEF Version
      <4>1. ReadTrue(r)'
        BY <2>7, <2>8, <3>1, <4>0, ReadKept
      <4>2. MaySubmit(r)' /\ CaptureTrue(r)'
        BY <2>8, <3>1 DEF Inv, OpInv, MaySubmit, CaptureTrue, Submitting
      <4> QED BY <4>1, <4>2 DEF OpInv
    <3>2. OpInv(p)'
      <4>1. CASE pc = "idle"
        BY <2>6, <2>8, <4>1 DEF OpInv, ReadTrue, MaySubmit, CaptureTrue, Busy, Submitting
      <4>2. CASE pc = "submit"
        <5>1. submitted[q] = <<>> /\ n = 1
          BY <2>2, <4>2 DEF Inv, OpInv, MaySubmit, Submitting
        <5>2. ReadTrue(p)'
          <6>1. Version(q)' = n + 1 /\ versions'[q][n + 1].state = new /\ n + 1 \in 1 .. n + 1
            BY <2>5, <2>7 DEF Version
          <6>2. op'[p].on = q /\ op'[p].version = n + 1 /\ op'[p].state = new /\ op'[p].pc = "submit"
            BY <2>6, <2>8, <4>2
          <6> QED BY <6>1, <6>2 DEF ReadTrue, Version
        <5>3. MaySubmit(p)' /\ CaptureTrue(p)'
          BY <2>6, <2>8, <4>2, <5>1 DEF MaySubmit, CaptureTrue, Submitting
        <5> QED BY <5>2, <5>3 DEF OpInv
      <4> QED BY <4>1, <4>2
    <3> QED BY <3>1, <3>2
  <2>11. OwnerAlone'
    BY <2>6, <2>8 DEF Inv, OwnerAlone, Submitting
  <2>12. \A r \in Requests : RequestInv(r)' /\ HistoryAt(r)'
    <3>1. ASSUME NEW r \in Requests, r # q
          PROVE  RequestInv(r)' /\ HistoryAt(r)'
      <4>1. versions'[r] = versions[r] /\ RequestInv(r) /\ HistoryAt(r)
        BY <2>7, <3>1 DEF Inv
      <4>2. RequestInv(r)'
        BY <4>1 DEF RequestInv, Exists
      <4>3. HistoryAt(r)'
        BY <4>1 DEF HistoryAt
      <4> QED BY <4>2, <4>3
    <3>2. RequestInv(q)'
      BY <2>7 DEF Inv, RequestInv, Exists
    <3>3. HistoryAt(q)'
      <4>0. HistoryAt(q) /\ Len(versions[q]) = n
        BY DEF Inv, Version
      <4>1. Len(versions'[q]) = n + 1 /\ \A i \in 1 .. n : versions'[q][i] = versions[q][i]
        BY <2>7
      <4>2. versions'[q][n + 1].state = new /\ versions'[q][n + 1].from = n
        BY <2>5, <2>7
      <4>3. versions'[q][n].state = op[p].state /\ n >= 1
        <5>1. n \in 1 .. n
          BY <2>2
        <5>2. versions'[q][n] = versions[q][n]
          BY <4>1, <5>1
        <5> QED BY <2>2, <5>2
      <4>4. ASSUME NEW i \in 1 .. n + 1 PROVE EntryTrue(versions'[q][i], i)
        <5>1. CASE i \in 1 .. n
          BY <4>0, <4>1, <5>1 DEF HistoryAt
        <5>2. CASE i = n + 1
          BY <4>2, <4>3, <5>2 DEF EntryTrue
        <5> QED BY <5>1, <5>2
      <4>5. ASSUME NEW i \in 2 .. n + 1 PROVE FollowsTrue(versions'[q][i-1], versions'[q][i], i)
        <5>1. CASE i \in 2 .. n
          <6>1. versions'[q][i] = versions[q][i] /\ versions'[q][i-1] = versions[q][i-1]
            <7>1. i \in 1 .. n /\ i - 1 \in 1 .. n
              BY <5>1
            <7> QED BY <4>1, <7>1
          <6> QED BY <4>0, <5>1, <6>1 DEF HistoryAt
        <5>2. CASE i = n + 1
          <6>1. i - 1 = n
            BY <5>2
          <6>2. FollowsTrue(versions'[q][n], versions'[q][n + 1], n + 1)
            BY <2>2, <2>3, <4>2, <4>3 DEF FollowsTrue
          <6> QED BY <5>2, <6>1, <6>2
        <5> QED BY <5>1, <5>2
      <4> QED BY <4>1, <4>4, <4>5 DEF HistoryAt
    <3> QED BY <3>1, <3>2, <3>3
  <2>13. OneActive'
    <3>1. q \in Active
      BY <2>2, <2>3 DEF Active, Exists
    <3>2. \A r \in Requests : r # q /\ r \in Active' => r \in Active
      BY <2>7 DEF Active, Exists, Current, Version
    <3> QED BY <3>1, <3>2 DEF Inv, OneActive, Active
  <2> QED BY <2>9, <2>10, <2>11, <2>12, <2>13 DEF Inv
<1> QED BY <1>1, <1>2

-----------------------------------------------------------------------------
(* The steps of the processes and of the cloud.                            *)

\* A process reads a record.
LEMMA ReadStep ==
    ASSUME Inv, NEW p \in Operators, NEW q \in Requests, Exists(q),
           NEW pc \in {"before", "check", "edit"}, Read(p, q, pc),
           pc = "check" => Current(q).status = "review",
           UNCHANGED <<versions, cloud, submitted>>
    PROVE  Inv'
<1> DEFINE next == [Idle EXCEPT !.pc = pc, !.on = q, !.version = Version(q),
                                !.state = Current(q)]
<1>1. versions[q] \in Seq(Entry) /\ versions[q] # <<>>
  BY TypeParts DEF Inv, Exists
<1>2. Version(q) \in Nat /\ Version(q) \in 1 .. Version(q) /\ Current(q) \in State
  <2>1. Len(versions[q]) \in Nat /\ Len(versions[q]) >= 1
    BY <1>1
  <2>2. versions[q][Len(versions[q])] \in Entry
    BY <1>1, <2>1
  <2> QED BY <2>1, <2>2 DEF Version, Current, Entry
<1>3. /\ next \in Operation /\ next.pc = pc /\ next.on = q
      /\ next.version = Version(q) /\ next.state = Current(q)
  BY <1>2, ReservedFacts DEF Operation
<1>4. op' = [op EXCEPT ![p] = next]
  BY DEF Read
<1> HIDE DEF next
<1>5. op'[p] = next
  BY <1>4, TypeParts DEF Inv
<1>6. ReadTrue(p)'
  BY <1>2, <1>3, <1>5 DEF ReadTrue, Busy, Version, Current
<1>7. MaySubmit(p)' /\ CaptureTrue(p)'
  BY <1>3, <1>5 DEF MaySubmit, CaptureTrue, Submitting
<1> QED BY <1>3, <1>4, <1>6, <1>7, OperationStep DEF OpInv

LEMMA LaunchStep ==
    ASSUME Inv, NEW p \in Operators, NEW q \in Requests, NEW g \in BOOLEAN, Launch(p, q, g)
    PROVE  Inv'
<1> DEFINE next == [Idle EXCEPT !.pc = "reserve", !.on = q]
<1>1. /\ next \in Operation /\ next.pc = "reserve" /\ next.on = q /\ next.state = Reserved
  BY ReservedFacts, InvestigationAssumption DEF Idle, Operation
<1>2. op' = [op EXCEPT ![p] = next] /\ UNCHANGED <<versions, cloud, submitted>>
  BY DEF Launch
<1> HIDE DEF next
<1>3. op'[p] = next
  BY <1>2, TypeParts DEF Inv
<1>4. OpInv(p)'
  BY <1>1, <1>3 DEF OpInv, ReadTrue, MaySubmit, CaptureTrue, Busy, Submitting
<1> QED BY <1>1, <1>2, <1>4, OperationStep

LEMMA ReserveStep ==
    ASSUME Inv, NEW p \in Operators, Reserve(p)
    PROVE  Inv'
<1>0. op[p].pc = "reserve" /\ op[p].on \in Requests /\ op[p].state = Reserved
      /\ op[p] \in Operation /\ UNCHANGED <<cloud, submitted>>
  BY TypeParts DEF Reserve, Inv, OpInv, ReadTrue
<1> PICK q \in Requests : q = op[p].on
  BY <1>0
<1>1. CASE Exists(q) \/ Active # {}
  BY <1>0, <1>1, IdleStep DEF Reserve
<1>2. CASE ~Exists(q) /\ Active = {}
  <2> DEFINE e == [state |-> Reserved, from |-> 0]
             next == [op[p] EXCEPT !.pc = "mark", !.version = 1]
  <2>1. versions' = [versions EXCEPT ![q] = <<e>>] /\ op' = [op EXCEPT ![p] = next]
    BY <1>2, TypeParts DEF Reserve, Insert, Inv
  <2>2. /\ next \in Operation /\ next.pc = "mark" /\ next.on = q /\ next.version = 1
        /\ next.state = Reserved
    BY <1>0 DEF Operation
  <2>3. e \in Entry /\ e.state = Reserved
    BY ReservedFacts DEF Entry
  <2> HIDE DEF e, next
  <2>4. /\ op' \in [Operators -> Operation] /\ op'[p] = next
        /\ \A r \in Operators : r # p => op'[r] = op[r]
    BY <2>1, <2>2, TypeParts DEF Inv
  <2>5. /\ versions' \in [Requests -> Seq(Entry)] /\ versions'[q] = <<e>>
        /\ Len(versions'[q]) = 1 /\ versions'[q][1] = e /\ versions'[q] # <<>>
        /\ \A r \in Requests : r # q => versions'[r] = versions[r]
    <3>1. <<e>> \in Seq(Entry) /\ Len(<<e>>) = 1 /\ <<e>>[1] = e /\ <<e>> # <<>>
      BY <2>3
    <3> QED BY <2>1, <3>1, TypeParts DEF Inv
  <2>6. TypeOK'
    BY <1>0, <2>4, <2>5, TypeParts, TypePartsNext DEF Inv
  <2>7. versions[q] = <<>> /\ submitted[q] = <<>>
    BY <1>2 DEF Exists, Inv, RequestInv
  <2>8. \A r \in Operators : r # p => OpInv(r)'
    <3> SUFFICES ASSUME NEW r \in Operators, r # p
                 PROVE  OpInv(r)'
      OBVIOUS
    <3>1. \A s \in Requests : /\ Len(versions'[s]) >= Len(versions[s])
                              /\ \A i \in 1 .. Len(versions[s]) : versions'[s][i] = versions[s][i]
      <4> SUFFICES ASSUME NEW s \in Requests
                   PROVE  /\ Len(versions'[s]) >= Len(versions[s])
                          /\ \A i \in 1 .. Len(versions[s]) : versions'[s][i] = versions[s][i]
        OBVIOUS
      <4>1. Len(versions[s]) \in Nat
        BY TypeParts DEF Inv
      <4>2. CASE s = q
        <5>1. Len(versions[s]) = 0
          BY <2>7, <4>2
        <5> QED BY <2>5, <4>2, <5>1
      <4>3. CASE s # q
        BY <2>5, <4>1, <4>3
      <4> QED BY <4>2, <4>3
    <3>2. ReadTrue(r)'
      BY <2>4, <2>5, <3>1, ReadKept
    <3>3. MaySubmit(r)' /\ CaptureTrue(r)'
      BY <1>0, <2>4 DEF Inv, OpInv, MaySubmit, CaptureTrue, Submitting
    <3> QED BY <3>2, <3>3 DEF OpInv
  <2>9. OpInv(p)'
    <3>1. ReadTrue(p)'
      <4>1. /\ op'[p].on = q /\ op'[p].version = 1 /\ op'[p].state = Reserved
            /\ op'[p].pc = "mark"
        BY <2>2, <2>4
      <4>2. versions'[q][1].state = Reserved /\ 1 \in 1 .. Len(versions'[q])
        BY <2>3, <2>5
      <4> QED BY <4>1, <4>2 DEF ReadTrue, Version
    <3>2. MaySubmit(p)' /\ CaptureTrue(p)'
      BY <1>0, <2>2, <2>4, <2>7 DEF MaySubmit, CaptureTrue, Submitting
    <3> QED BY <3>1, <3>2 DEF OpInv
  <2>10. OwnerAlone'
    <3>1. \A r \in Operators : Submitting(r) => op[r].on # q
      BY <1>2, ReadFacts DEF Submitting, Busy
    <3> QED BY <2>2, <2>4, <3>1 DEF Inv, OwnerAlone, Submitting
  <2>11. \A r \in Requests : RequestInv(r)' /\ HistoryAt(r)'
    <3>1. ASSUME NEW r \in Requests, r # q
          PROVE  RequestInv(r)' /\ HistoryAt(r)'
      <4>1. versions'[r] = versions[r] /\ RequestInv(r) /\ HistoryAt(r)
        BY <2>5, <3>1 DEF Inv
      <4>2. RequestInv(r)'
        BY <1>0, <4>1 DEF RequestInv, Exists
      <4>3. HistoryAt(r)'
        BY <4>1 DEF HistoryAt
      <4> QED BY <4>2, <4>3
    <3>2. RequestInv(q)'
      BY <1>0, <2>5 DEF Inv, RequestInv, Exists
    <3>3. HistoryAt(q)'
      BY <2>3, <2>5, ReservedFacts DEF HistoryAt, EntryTrue
    <3> QED BY <3>1, <3>2, <3>3
  <2>12. OneActive'
    <3>1. \A r \in Requests : r # q => (r \in Active' <=> r \in Active)
      BY <2>5 DEF Active, Exists, Current, Version
    <3> QED BY <1>2, <3>1 DEF OneActive, Active
  <2> QED BY <2>6, <2>8, <2>9, <2>10, <2>11, <2>12 DEF Inv
<1> QED BY <1>1, <1>2

LEMMA SubmitStep ==
    ASSUME Inv, NEW p \in Operators, Submit(p)
    PROVE  Inv'
<1>0. op[p].pc = "submit" /\ UNCHANGED versions
  BY DEF Submit
<1>1. Busy(p) /\ Submitting(p) /\ op[p].on \in Requests /\ op[p] \in Operation
  BY <1>0, ReadFacts DEF Busy, Submitting
<1> PICK q \in Requests : q = op[p].on
  BY <1>1
<1>2. /\ submitted[q] = <<>> /\ op[p].version = 2 /\ op[p].version \in 1 .. Version(q)
      /\ op[p].state = versions[q][2].state
  BY <1>0, <1>1, ReadFacts DEF Inv, OpInv, MaySubmit
<1>3. versions[q] \in Seq(Entry) /\ Exists(q) /\ Version(q) \in Nat
  BY <1>1, ReadFacts, TypeParts DEF Inv, Version
<1>4. Current(q).status # "reserved" /\ Current(q).status \in Statuses
  <2>1. Version(q) \in 2 .. Version(q) /\ Version(q) \in 1 .. Len(versions[q])
    BY <1>2, <1>3 DEF Version
  <2>2. HistoryAt(q)
    BY DEF Inv
  <2>3. versions[q][Version(q)].state.status # "reserved"
    BY <2>1, <2>2 DEF HistoryAt, EntryTrue
  <2>4. versions[q][Version(q)] \in Entry
    BY <1>3, <2>1
  <2> QED BY <2>3, <2>4 DEF Current, Entry, State
<1> PICK st \in Statuses : st = Current(q).status
  BY <1>4
<1>5. cloud[q] \in Task /\ cloud[q].tasks = 0 /\ cloud[q].version = 0
  BY <1>2, TypeParts DEF Inv, RequestInv
<1> DEFINE next == [op[p] EXCEPT !.pc = "attach"]
           task == [cloud[q] EXCEPT !.tasks = cloud[q].tasks + 1, !.version = 1]
<1>6. /\ cloud' = [cloud EXCEPT ![q] = task]
      /\ submitted' = [submitted EXCEPT ![q] = Append(submitted[q], st)]
      /\ op' = [op EXCEPT ![p] = next]
  BY TypeParts DEF Submit, Inv
<1>7. /\ next \in Operation /\ next.pc = "attach" /\ next.on = q
      /\ next.version = op[p].version /\ next.state = op[p].state
  BY <1>1 DEF Operation
<1>8. task \in Task /\ task.tasks = 1 /\ task.version = 1
  <2>1. 1 \in 0 .. MaxCloud /\ 1 \in Nat /\ cloud[q].tasks + 1 = 1
    BY <1>5, InvestigationAssumption
  <2>2. task = [cloud[q] EXCEPT !.tasks = 1, !.version = 1]
    BY <2>1
  <2> HIDE DEF task
  <2> QED BY <1>5, <2>1, <2>2 DEF Task
<1> HIDE DEF next, task
<1>9. /\ op' \in [Operators -> Operation] /\ op'[p] = next
      /\ \A r \in Operators : r # p => op'[r] = op[r]
  BY <1>6, <1>7, TypeParts DEF Inv
<1>10. /\ cloud' \in [Requests -> Task] /\ cloud'[q] = task
       /\ \A r \in Requests : r # q => cloud'[r] = cloud[r]
  BY <1>6, <1>8, TypeParts DEF Inv
<1>11. /\ submitted' \in [Requests -> Seq(Statuses)] /\ Len(submitted'[q]) = 1
       /\ \A i \in DOMAIN submitted'[q] : submitted'[q][i] # "reserved"
       /\ \A r \in Requests : r # q => submitted'[r] = submitted[r]
  <2>1. submitted'[q] = <<st>> /\ \A r \in Requests : r # q => submitted'[r] = submitted[r]
    BY <1>2, <1>6, TypeParts DEF Inv
  <2>2. <<st>> \in Seq(Statuses) /\ Len(<<st>>) = 1 /\ DOMAIN <<st>> = {1} /\ <<st>>[1] = st
    OBVIOUS
  <2>3. submitted' \in [Requests -> Seq(Statuses)]
    BY <1>6, <2>1, <2>2, TypeParts DEF Inv
  <2> QED BY <1>4, <2>1, <2>2, <2>3
<1>12. TypeOK'
  BY <1>0, <1>9, <1>10, <1>11, TypeParts, TypePartsNext DEF Inv
<1>13. \A r \in Operators : r # p => OpInv(r)'
  <2> SUFFICES ASSUME NEW r \in Operators, r # p
               PROVE  OpInv(r)'
    OBVIOUS
  <2>1. OpInv(r) /\ op'[r] = op[r]
    BY <1>9 DEF Inv
  <2>2. ReadTrue(r)'
    BY <1>0, <2>1 DEF OpInv, ReadTrue, Busy, Version
  <2>3. Submitting(r) => op[r].on # q /\ op[r].on \in Requests
    BY <1>1, <2>1 DEF Inv, OwnerAlone, OpInv, ReadTrue, Submitting
  <2>4. MaySubmit(r)'
    BY <1>11, <2>1, <2>3 DEF OpInv, MaySubmit, Submitting
  <2>5. op[r].pc # "idle" => /\ op[r].on \in Requests
                             /\ cloud[op[r].on].version <= cloud'[op[r].on].version
                             /\ cloud[op[r].on].version \in Int
                             /\ cloud'[op[r].on].version \in Int
    <3> SUFFICES ASSUME op[r].pc # "idle"
                 PROVE  /\ op[r].on \in Requests
                        /\ cloud[op[r].on].version <= cloud'[op[r].on].version
                        /\ cloud[op[r].on].version \in Int
                        /\ cloud'[op[r].on].version \in Int
      OBVIOUS
    <3> PICK t \in Requests : t = op[r].on
      BY <2>1 DEF OpInv, ReadTrue
    <3>1. cloud[t] \in Task /\ cloud'[t] \in Task
      BY <1>10, TypeParts DEF Inv
    <3>2. cloud[t].version \in Int /\ cloud'[t].version \in Int
      BY <3>1 DEF Task
    <3>3. cloud[t].version <= cloud'[t].version
      BY <1>5, <1>8, <1>10, <3>2
    <3> QED BY <3>2, <3>3
  <2>6. op[r].before \in Int /\ op[r].diff \in Int
    BY TypeParts DEF Inv, Operation
  <2>7. CaptureTrue(r)'
    BY <2>1, <2>5, <2>6 DEF OpInv, CaptureTrue
  <2> QED BY <2>2, <2>4, <2>7 DEF OpInv
<1>14. OpInv(p)'
  <2>1. ReadTrue(p)'
    BY <1>0, <1>2, <1>3, <1>7, <1>9 DEF ReadTrue, Version
  <2> QED BY <1>7, <1>9, <2>1 DEF OpInv, MaySubmit, CaptureTrue, Submitting
<1>15. OwnerAlone'
  BY <1>7, <1>9 DEF Inv, OwnerAlone, Submitting
<1>16. \A r \in Requests : RequestInv(r)' /\ HistoryAt(r)'
  <2>1. \A r \in Requests : HistoryAt(r)'
    BY <1>0 DEF Inv, HistoryAt
  <2>2. \A r \in Requests : r # q => RequestInv(r)'
    BY <1>0, <1>10, <1>11 DEF Inv, RequestInv, Exists
  <2>3. RequestInv(q)'
    BY <1>0, <1>3, <1>8, <1>10, <1>11 DEF RequestInv, Exists
  <2> QED BY <2>1, <2>2, <2>3
<1>17. OneActive'
  BY <1>0 DEF Inv, OneActive, Active, Exists, Current, Version
<1> QED BY <1>12, <1>13, <1>14, <1>15, <1>16, <1>17 DEF Inv

LEMMA CloudStep ==
    ASSUME Inv, NEW q \in Requests, CloudChanges(q)
    PROVE  Inv'
<1> DEFINE task == [cloud[q] EXCEPT !.version = cloud[q].version + 1, !.idle = ~cloud[q].idle]
<1>1. cloud[q] \in Task /\ cloud[q].tasks > 0 /\ cloud[q].version < MaxCloud
  BY TypeParts DEF CloudChanges, Inv
<1>2. /\ cloud' = [cloud EXCEPT ![q] = task] /\ UNCHANGED <<versions, op, submitted>>
  BY TypeParts DEF CloudChanges, Inv
<1>3. task \in Task /\ task.tasks = cloud[q].tasks /\ task.version = cloud[q].version + 1
  <2>1. /\ cloud[q].version \in 0 .. MaxCloud /\ cloud[q].tasks \in Nat
        /\ cloud[q].idle \in BOOLEAN
    BY <1>1 DEF Task
  <2>2. cloud[q].version + 1 \in 0 .. MaxCloud /\ (~cloud[q].idle) \in BOOLEAN
    BY <1>1, <2>1, InvestigationAssumption
  <2> QED BY <1>1, <2>1, <2>2 DEF Task
<1> HIDE DEF task
<1>4. /\ cloud' \in [Requests -> Task] /\ cloud'[q] = task
      /\ \A r \in Requests : r # q => cloud'[r] = cloud[r]
  BY <1>2, <1>3, TypeParts DEF Inv
<1>5. TypeOK'
  BY <1>2, <1>4, TypeParts, TypePartsNext DEF Inv
<1>6. \A r \in Operators : OpInv(r)'
  <2> SUFFICES ASSUME NEW r \in Operators PROVE OpInv(r)'
    OBVIOUS
  <2>1. OpInv(r)
    BY DEF Inv
  <2>2. ReadTrue(r)' /\ MaySubmit(r)'
    BY <1>2, <2>1 DEF OpInv, ReadTrue, MaySubmit, Busy, Submitting, Version
  <2>3. op[r].pc # "idle" => /\ cloud[op[r].on].version <= cloud'[op[r].on].version
                             /\ cloud[op[r].on].version \in Int
                             /\ cloud'[op[r].on].version \in Int
    <3> SUFFICES ASSUME op[r].pc # "idle"
                 PROVE  /\ cloud[op[r].on].version <= cloud'[op[r].on].version
                        /\ cloud[op[r].on].version \in Int
                        /\ cloud'[op[r].on].version \in Int
      OBVIOUS
    <3> PICK t \in Requests : t = op[r].on
      BY <2>1 DEF OpInv, ReadTrue
    <3>1. cloud[t] \in Task /\ cloud'[t] \in Task
      BY <1>4, TypeParts DEF Inv
    <3>2. cloud[t].version \in Int /\ cloud'[t].version \in Int
      BY <3>1 DEF Task
    <3>3. cloud[t].version <= cloud'[t].version
      BY <1>3, <1>4, <3>2
    <3> QED BY <3>2, <3>3
  <2>4. op[r].before \in Int /\ op[r].diff \in Int
    BY TypeParts DEF Inv, Operation
  <2>5. CaptureTrue(r)'
    BY <1>2, <2>1, <2>3, <2>4 DEF OpInv, CaptureTrue
  <2> QED BY <2>2, <2>5 DEF OpInv
<1>7. OwnerAlone'
  BY <1>2 DEF Inv, OwnerAlone, Submitting
<1>8. \A r \in Requests : RequestInv(r)' /\ HistoryAt(r)'
  <2>1. \A r \in Requests : HistoryAt(r)'
    BY <1>2 DEF Inv, HistoryAt
  <2>2. \A r \in Requests : r # q => RequestInv(r)'
    BY <1>2, <1>4 DEF Inv, RequestInv, Exists
  <2>3. RequestInv(q)'
    BY <1>1, <1>2, <1>3, <1>4 DEF Inv, RequestInv, Exists
  <2> QED BY <2>1, <2>2, <2>3
<1>9. OneActive'
  BY <1>2 DEF Inv, OneActive, Active, Exists, Current, Version
<1> QED BY <1>5, <1>6, <1>7, <1>8, <1>9 DEF Inv

\* A process goes on to the next step of its capture or its claim.
LEMMA ProceedStep ==
    ASSUME Inv, NEW p \in Operators, Busy(p), NEW next \in Operation,
           op' = [op EXCEPT ![p] = next], UNCHANGED <<versions, cloud, submitted>>,
           next.pc \in {"diff", "after", "capture", "claim"},
           next.on = op[p].on, next.version = op[p].version, next.state = op[p].state,
           CaptureTrue(p)'
    PROVE  Inv'
<1>1. op'[p] = next
  BY TypeParts DEF Inv
<1>2. ReadTrue(p)'
  BY <1>1, ReadFacts DEF ReadTrue, Version
<1>3. MaySubmit(p)'
  BY <1>1 DEF MaySubmit, Submitting
<1>4. OpInv(p)'
  BY <1>2, <1>3 DEF OpInv
<1> QED BY <1>4, OperationStep

LEMMA CaptureStep ==
    ASSUME Inv, NEW p \in Operators, CaptureBefore(p) \/ CaptureDiff(p) \/ CaptureAfter(p)
    PROVE  Inv'
<1>0. op[p].pc \in {"before", "diff", "after"} /\ UNCHANGED <<versions, cloud, submitted>>
  BY DEF CaptureBefore, CaptureDiff, CaptureAfter
<1>1. Busy(p) /\ op[p].on \in Requests /\ op[p] \in Operation /\ CaptureTrue(p)
  BY <1>0, ReadFacts DEF Busy, Inv, OpInv
<1> PICK v \in 0 .. MaxCloud : v = cloud[op[p].on].version
  <2>1. cloud[op[p].on] \in Task
    BY <1>1, TypeParts DEF Inv
  <2> QED BY <2>1 DEF Task
<1>2. op \in [Operators -> Operation] /\ op[p].before \in 0 .. MaxCloud /\ op[p].diff \in 0 .. MaxCloud
  BY <1>1, TypeParts DEF Inv, Operation
<1>3. v \in Int /\ op[p].before \in Int /\ op[p].diff \in Int
  BY <1>2
<1>4. CASE CaptureBefore(p)
  <2> DEFINE next == [op[p] EXCEPT !.pc = "diff", !.before = v]
  <2>1. op' = [op EXCEPT ![p] = next]
    BY <1>2, <1>4 DEF CaptureBefore
  <2>2. /\ next \in Operation /\ next.pc = "diff" /\ next.before = v
        /\ next.on = op[p].on /\ next.version = op[p].version /\ next.state = op[p].state
    BY <1>1 DEF Operation
  <2> HIDE DEF next
  <2>3. op'[p] = next
    BY <1>2, <2>1
  <2>4. CaptureTrue(p)'
    BY <1>0, <1>3, <2>2, <2>3 DEF CaptureTrue
  <2> QED BY <1>0, <1>1, <2>1, <2>2, <2>4, ProceedStep
<1>5. CASE CaptureDiff(p)
  <2> DEFINE next == [op[p] EXCEPT !.pc = "after", !.diff = v]
  <2>1. op' = [op EXCEPT ![p] = next] /\ op[p].pc = "diff"
    BY <1>2, <1>5 DEF CaptureDiff
  <2>2. /\ next \in Operation /\ next.pc = "after" /\ next.before = op[p].before /\ next.diff = v
        /\ next.on = op[p].on /\ next.version = op[p].version /\ next.state = op[p].state
    BY <1>1 DEF Operation
  <2> HIDE DEF next
  <2>3. op'[p] = next
    BY <1>2, <2>1
  <2>4. op[p].before <= v
    BY <1>1, <2>1 DEF CaptureTrue
  <2>5. CaptureTrue(p)'
    BY <1>0, <1>3, <2>2, <2>3, <2>4 DEF CaptureTrue
  <2> QED BY <1>0, <1>1, <2>1, <2>2, <2>5, ProceedStep
<1>6. CASE CaptureAfter(p)
  <2>1. CASE cloud[op[p].on].version # op[p].before
    BY <1>0, <1>6, <2>1, IdleStep DEF CaptureAfter
  <2>2. CASE cloud[op[p].on].version = op[p].before
    <3> DEFINE next == [op[p] EXCEPT !.pc = "capture"]
    <3>1. op' = [op EXCEPT ![p] = next] /\ op[p].pc = "after"
      BY <1>2, <1>6, <2>2 DEF CaptureAfter
    <3>2. /\ next \in Operation /\ next.pc = "capture"
          /\ next.before = op[p].before /\ next.diff = op[p].diff
          /\ next.on = op[p].on /\ next.version = op[p].version /\ next.state = op[p].state
      BY <1>1 DEF Operation
    <3> HIDE DEF next
    <3>3. op'[p] = next
      BY <1>2, <3>1
    <3>4. op[p].before <= op[p].diff /\ op[p].diff <= v
      BY <1>1, <3>1 DEF CaptureTrue
    <3>5. op[p].diff = op[p].before
      BY <1>3, <2>2, <3>4
    <3>6. CaptureTrue(p)'
      BY <3>2, <3>3, <3>5 DEF CaptureTrue
    <3> QED BY <1>0, <1>1, <3>1, <3>2, <3>6, ProceedStep
  <2> QED BY <2>1, <2>2
<1> QED BY <1>4, <1>5, <1>6

LEMMA ClaimCheckStep ==
    ASSUME Inv, NEW p \in Operators, ClaimCheck(p)
    PROVE  Inv'
<1>0. op[p].pc = "check" /\ UNCHANGED <<versions, cloud, submitted>>
  BY DEF ClaimCheck
<1>1. Busy(p) /\ op[p] \in Operation /\ CaptureTrue(p) /\ op \in [Operators -> Operation]
  BY <1>0, ReadFacts, TypeParts DEF Busy, Inv, OpInv
<1>2. CASE Ends(p)
  BY <1>0, <1>2, IdleStep
<1>3. CASE op' = [op EXCEPT ![p].pc = "claim"]
  <2> DEFINE next == [op[p] EXCEPT !.pc = "claim"]
  <2>1. op' = [op EXCEPT ![p] = next]
    BY <1>1, <1>3
  <2>2. /\ next \in Operation /\ next.pc = "claim"
        /\ next.on = op[p].on /\ next.version = op[p].version /\ next.state = op[p].state
    BY <1>1 DEF Operation
  <2> HIDE DEF next
  <2>3. op'[p] = next
    BY <1>1, <2>1
  <2>4. CaptureTrue(p)'
    BY <1>0, <1>1, <2>2, <2>3 DEF CaptureTrue
  <2> QED BY <1>0, <1>1, <2>1, <2>2, <2>4, ProceedStep
<1> QED BY <1>2, <1>3 DEF ClaimCheck

LEMMA WriteStep ==
    ASSUME Inv, NEW p \in Operators, MarkUnknown(p) \/ Attach(p) \/ Capture(p) \/ Claim(p)
    PROVE  Inv'
<1>0. op[p].pc \in {"mark", "attach", "capture", "claim"} /\ UNCHANGED <<cloud, submitted>>
  BY DEF MarkUnknown, Attach, Capture, Claim
<1>1. /\ Busy(p) /\ op[p] \in Operation /\ op[p].state \in State
      /\ op[p].state.patch = op[p].state.cloudAt /\ CaptureTrue(p)
  BY <1>0, ReadFacts DEF Busy, Inv, OpInv
<1>2. CASE MarkUnknown(p)
  <2> DEFINE new == [Reserved EXCEPT !.status = "submission_unknown"]
  <2>1. new \in State /\ new.status = "submission_unknown" /\ new.patch = new.cloudAt
    BY ReservedFacts DEF State, Statuses
  <2>2. Update(p, new, "submit") /\ op[p].pc = "mark"
    BY <1>2 DEF MarkUnknown
  <2> HIDE DEF new
  <2> QED BY <1>0, <1>1, <2>1, <2>2, UpdateStep
<1>3. CASE Attach(p)
  <2> DEFINE new == [op[p].state EXCEPT !.status = "running", !.task = TRUE]
  <2>1. new \in State /\ new.status = "running" /\ new.patch = new.cloudAt
    BY <1>1 DEF State, Statuses
  <2>2. Update(p, new, "idle")
    BY <1>3 DEF Attach
  <2> HIDE DEF new
  <2> QED BY <1>0, <1>1, <2>1, <2>2, UpdateStep
<1>4. CASE Capture(p)
  <2> DEFINE new == [op[p].state EXCEPT !.status = "review", !.cloudAt = op[p].before,
                                        !.patch = op[p].diff]
  <2>1. /\ op[p].diff = op[p].before
        /\ op[p].before \in 0 .. MaxCloud /\ op[p].diff \in 0 .. MaxCloud
    BY <1>1, <1>4 DEF Capture, CaptureTrue, Operation
  <2>2. new \in State /\ new.status = "review" /\ new.patch = new.cloudAt
    BY <1>1, <2>1 DEF State, Statuses
  <2>3. Update(p, new, "idle")
    BY <1>4 DEF Capture
  <2> HIDE DEF new
  <2> QED BY <1>0, <1>1, <2>2, <2>3, UpdateStep
<1>5. CASE Claim(p)
  <2> DEFINE new == [op[p].state EXCEPT !.status = "local"]
  <2>1. /\ new \in State /\ new.status = "local" /\ new.patch = new.cloudAt
        /\ new.patch = op[p].state.patch
    BY <1>1 DEF State, Statuses
  <2>2. Update(p, new, "idle") /\ op[p].state.status = "review"
    BY <1>1, <1>5 DEF Claim, CaptureTrue
  <2> HIDE DEF new
  <2> QED BY <1>0, <1>1, <2>1, <2>2, UpdateStep
<1> QED BY <1>2, <1>3, <1>4, <1>5

LEMMA EditStep ==
    ASSUME Inv, NEW p \in Operators, Edit(p)
    PROVE  Inv'
<1>1. /\ Busy(p) /\ op[p].state \in State /\ op[p].state.patch = op[p].state.cloudAt
      /\ op[p].on \in Requests /\ op[p].pc = "edit" /\ UNCHANGED <<cloud, submitted>>
  BY ReadFacts DEF Edit, Busy
<1>2. PICK s \in Statuses \ {"reserved", "local"}, found \in BOOLEAN :
          Update(p, [op[p].state EXCEPT !.status = s, !.task = found], "idle")
  <2>1. PICK s \in Statuses \ {"reserved", "local"} :
            Update(p, [op[p].state EXCEPT !.status = s,
                         !.task = op[p].state.task
                                  \/ (s # "submission_unknown" /\ cloud[op[p].on].tasks > 0)],
                   "idle")
    BY DEF Edit
  <2>2. (op[p].state.task \/ (s # "submission_unknown" /\ cloud[op[p].on].tasks > 0)) \in BOOLEAN
    OBVIOUS
  <2> QED BY <2>1, <2>2
<1> DEFINE new == [op[p].state EXCEPT !.status = s, !.task = found]
<1>3. new \in State /\ new.status = s /\ new.patch = new.cloudAt
  BY <1>1 DEF State
<1>4. Update(p, new, "idle")
  BY <1>2
<1> HIDE DEF new
<1> QED BY <1>1, <1>3, <1>4, UpdateStep

-----------------------------------------------------------------------------
(* The invariant, and what follows from it.                                *)

LEMMA NextStep ==
    ASSUME Inv, [Next]_vars
    PROVE  Inv'
<1>1. CASE UNCHANGED vars
  <2>1. TypeOK'
    BY <1>1, TypeParts, TypePartsNext DEF Inv, vars
  <2>2. \A p \in Operators : OpInv(p)'
    BY <1>1 DEF vars, Inv, OpInv, ReadTrue, MaySubmit, CaptureTrue, Busy, Submitting, Version
  <2>3. OwnerAlone'
    BY <1>1 DEF vars, Inv, OwnerAlone, Submitting
  <2>4. \A q \in Requests : RequestInv(q)' /\ HistoryAt(q)'
    BY <1>1 DEF vars, Inv, RequestInv, HistoryAt, Exists
  <2>5. OneActive'
    BY <1>1 DEF vars, Inv, OneActive, Active, Exists, Current, Version
  <2> QED BY <2>1, <2>2, <2>3, <2>4, <2>5 DEF Inv
<1>2. ASSUME NEW p \in Operators, NEW q \in Requests, NEW g \in BOOLEAN, Launch(p, q, g)
      PROVE  Inv'
  BY <1>2, LaunchStep
<1>3. ASSUME NEW p \in Operators, NEW q \in Requests,
             CaptureRead(p, q) \/ ClaimRead(p, q) \/ EditRead(p, q)
      PROVE  Inv'
  <2>1. CASE CaptureRead(p, q)
    BY <2>1, ReadStep DEF CaptureRead
  <2>2. CASE ClaimRead(p, q)
    BY <2>2, ReadStep DEF ClaimRead
  <2>3. CASE EditRead(p, q)
    BY <2>3, ReadStep DEF EditRead
  <2> QED BY <1>3, <2>1, <2>2, <2>3
<1>4. ASSUME NEW p \in Operators, Dies(p)
      PROVE  Inv'
  BY <1>4, IdleStep DEF Dies
<1> QED
  BY <1>1, <1>2, <1>3, <1>4, ReserveStep, WriteStep, SubmitStep, CaptureStep,
     ClaimCheckStep, EditStep, CloudStep DEF Next

\* The inductive invariant holds in every state the registry, the adapters of
\* the operators and the cloud service can reach.
THEOREM Invariance == Spec => []Inv
<1>1. Init => Inv
  BY InitInv
<1>2. Inv /\ [Next]_vars => Inv'
  BY NextStep
<1> QED BY <1>1, <1>2, PTL DEF Spec

\* The records, the cloud tasks and what the processes remember keep their
\* types: InvestigationState and the columns of migration 012.
THEOREM TypeCorrect == Spec => []TypeOK
<1>1. Inv => TypeOK
  BY DEF Inv
<1> QED BY <1>1, Invariance, PTL

\* A request is submitted at most once and never as long as it is reserved, and
\* at most one investigation of the issue has not ended, whatever is replayed
\* or interrupted (ReserveInvestigation, UpdateInvestigation, launch).
THEOREM OnceOnly == Spec => []SubmittedOnce
<1>1. Inv => SubmittedOnce
  <2> SUFFICES ASSUME Inv PROVE SubmittedOnce
    OBVIOUS
  <2>1. \A q \in Requests : /\ Len(submitted[q]) <= 1
                            /\ \A i \in DOMAIN submitted[q] : submitted[q][i] # "reserved"
    BY DEF Inv, RequestInv
  <2>2. Cardinality(Active) <= 1
    <3>1. CASE Active = {}
      BY <3>1, FS_EmptySet
    <3>2. CASE Active # {}
      <4> PICK q : q \in Active
        BY <3>2
      <4>1. Active = {q}
        BY DEF Inv, OneActive
      <4> QED BY <4>1, FS_Singleton
    <3> QED BY <3>1, <3>2
  <2> QED BY <2>1, <2>2 DEF SubmittedOnce
<1> QED BY <1>1, Invariance, PTL

\* The versions of a record form one line: each was written by somebody who had
\* read the one before it (UpdateInvestigation, ValidateTransition).
THEOREM NothingLost == Spec => []HistoryLinear
<1>1. Inv => HistoryLinear
  BY DEF Inv, HistoryAt, FollowsTrue, HistoryLinear
<1> QED BY <1>1, Invariance, PTL

\* A saved patch is of the version of the task recorded with it, and local work
\* starts from a reviewed patch (capture, claim).
THEOREM PatchTrue == Spec => []SnapshotTrue
<1>1. Inv => SnapshotTrue
  <2> SUFFICES ASSUME Inv, NEW q \in Requests, NEW i \in 1 .. Len(versions[q])
               PROVE  /\ versions[q][i].state.patch = versions[q][i].state.cloudAt
                      /\ versions[q][i].state.status = "local" =>
                            /\ versions[q][i].state.patch # 0
                            /\ versions[q][i-1].state.status \in {"review", "local"}
                            /\ versions[q][i-1].state.patch = versions[q][i].state.patch
    BY DEF SnapshotTrue
  <2>1. HistoryAt(q) /\ EntryTrue(versions[q][i], i)
    BY DEF Inv, HistoryAt
  <2>2. CASE i = 1
    BY <2>1, <2>2 DEF EntryTrue
  <2>3. CASE i # 1
    <3>1. i \in 2 .. Len(versions[q])
      BY <2>3
    <3>2. FollowsTrue(versions[q][i-1], versions[q][i], i)
      BY <2>1, <3>1 DEF HistoryAt
    <3> QED BY <2>1, <3>2 DEF EntryTrue, FollowsTrue
  <2> QED BY <2>2, <2>3
<1> QED BY <1>1, Invariance, PTL
=============================================================================
