--------------------------- MODULE Investigations ---------------------------
(***************************************************************************)
(* The registry of issue investigations (internal/database/investigations  *)
(* .go, internal/domain/investigation.go, migration 012) and the adapter   *)
(* that starts, captures and takes over cloud work (scripts/investigation  *)
(* .py), run by several operators at a time.                               *)
(*                                                                         *)
(* Abstractions.                                                           *)
(*  - One issue of one repository; its specifications differ by request    *)
(*    id only.                                                             *)
(*  - The cloud service is external.  A task is identified by its request; *)
(*    each change of it, by the service or by somebody who goes on with    *)
(*    the conversation, is a new version with an update time of its own.   *)
(*  - A process that dies, a lost answer of the registry and a command     *)
(*    that times out are one event: the process ends, before or after what *)
(*    it asked for took effect.                                            *)
(*  - Texts (reason, findings, evidence) are supplied where the registry   *)
(*    requires them; base commits, attempts, and observation times, which  *)
(*    the adapter always sets to now, are left out.                        *)
(***************************************************************************)
EXTENDS Integers, Sequences, FiniteSets, FiniteSetsExt

CONSTANTS
    Requests,       \* request ids
    NoRequest,
    Operators,      \* processes of the adapter, or operators with the API
    MaxVersions,    \* bound: versions of all records
    MaxCloud        \* bound: versions of a cloud task

ASSUME InvestigationAssumption ==
    /\ NoRequest \notin Requests
    /\ MaxVersions \in Nat
    /\ MaxCloud \in Nat \ {0}

VARIABLES
    versions,   \* investigation_versions: the accepted states of each request, in order
    cloud,      \* the cloud tasks of each request: how many, version, idle
    op,         \* what each process is doing
    submitted   \* history: the submissions of each request: its status at that time

vars == <<versions, cloud, op, submitted>>

-----------------------------------------------------------------------------
Terminal == {"completed", "abandoned"}
Statuses == {"reserved", "submission_unknown", "running", "needs_input", "failed",
             "review", "local"} \cup Terminal

\* An InvestigationState: its task (0 for none), the update time of the cloud
\* that was recorded with it, and the version the saved patch is of.
State == [status : Statuses, task : BOOLEAN, cloudAt : 0 .. MaxCloud, patch : 0 .. MaxCloud]

\* A row of investigation_versions, and the version its author had read (history).
Entry == [state : State, from : Nat]

Reserved == [status |-> "reserved", task |-> FALSE, cloudAt |-> 0, patch |-> 0]

Exists(q) == versions[q] # <<>>
Version(q) == Len(versions[q])
Current(q) == versions[q][Version(q)].state

Idle == [pc |-> "idle", on |-> NoRequest, version |-> 0, state |-> Reserved, before |-> 0, diff |-> 0]

TypeOK ==
    /\ versions \in [Requests -> Seq(Entry)]
    /\ cloud \in [Requests -> [tasks : Nat, version : 0 .. MaxCloud, idle : BOOLEAN]]
    /\ op \in [Operators ->
          [pc : {"idle", "reserve", "mark", "submit", "attach", "before", "diff", "after",
                 "capture", "check", "claim", "edit"},
           on : Requests \cup {NoRequest}, version : Nat, state : State,
           before : 0 .. MaxCloud, diff : 0 .. MaxCloud]]
    /\ submitted \in [Requests -> Seq(Statuses)]

Init ==
    /\ versions = [q \in Requests |-> <<>>]
    /\ cloud = [q \in Requests |-> [tasks |-> 0, version |-> 0, idle |-> FALSE]]
    /\ op = [p \in Operators |-> Idle]
    /\ submitted = [q \in Requests |-> <<>>]

-----------------------------------------------------------------------------
(* The registry.                                                           *)

\* The transitions of ValidateTransition.
Transitions ==
    [reserved           |-> {"submission_unknown", "abandoned"},
     submission_unknown |-> {"running", "needs_input", "review", "failed", "abandoned"},
     running            |-> {"needs_input", "review", "failed"},
     needs_input        |-> {"running", "review", "failed", "abandoned"},
     failed             |-> {"running", "review", "abandoned"},
     review             |-> {"running", "local", "completed", "abandoned"},
     local              |-> {"review", "completed", "abandoned"}]

\* ValidateTransition: what may replace state old.
ValidTransition(old, new) ==
    /\ old.status \notin Terminal
    /\ new.status \in Transitions[old.status] \cup {old.status}
    /\ new.cloudAt # 0 => new.task
    /\ old.task => new.task
    /\ new.status \in {"reserved", "submission_unknown"} => ~new.task
    /\ new.status \notin {"reserved", "submission_unknown", "abandoned"} => new.task
    /\ new.cloudAt >= old.cloudAt
    /\ new.status = "local" => new.cloudAt # 0 /\ new.patch # 0
    /\ new.status = "local" /\ old.status = "local" =>
          new.cloudAt = old.cloudAt /\ new.patch = old.patch

\* The partial unique index: one investigation of the issue that has not ended.
Active == {q \in Requests : Exists(q) /\ Current(q).status \notin Terminal}

\* The INSERT of ReserveInvestigation, which reports whether it created the row.
Insert(q) == [versions EXCEPT ![q] = <<[state |-> Reserved, from |-> 0]>>]

\* Mutant: the caller does not check expectedVersion.
Unversioned(q, version) == TRUE

\* The version check of UpdateInvestigation, under the lock of the row.
Unchanged(q, version) == Version(q) = version

\* UpdateInvestigation by process p, which had read this version: the new
\* state and its row of investigation_versions, or a refusal.
Accepts(q, version, new) ==
    Unchanged(q, version) /\ ValidTransition(Current(q), new)

Updated(q, version, new) ==
    versions' = [versions EXCEPT ![q] = Append(@, [state |-> new, from |-> version])]

Ends(p) == op' = [op EXCEPT ![p] = Idle]

\* The bound on all records together.
Room == MapThenSumSet(Version, Requests) < MaxVersions

\* p asks to replace the state it read by new: it goes on at pc if that is
\* accepted, and ends otherwise.
Update(p, new, pc) ==
    LET o == op[p] IN
    \/ /\ Accepts(o.on, o.version, new) /\ Room
       /\ Updated(o.on, o.version, new)
       /\ op' = [op EXCEPT ![p] = IF pc = "idle" THEN Idle
                   ELSE [o EXCEPT !.pc = pc, !.version = @ + 1, !.state = new]]
    \/ /\ ~Accepts(o.on, o.version, new)
       /\ Ends(p) /\ UNCHANGED versions

-----------------------------------------------------------------------------
(* launch.                                                                 *)

\* The lookup: nothing is registered for the issue, or a new generation is
\* wanted and everything that is has ended.
Launch(p, q, newGeneration) ==
    /\ op[p].pc = "idle"
    /\ LET existing == {r \in Requests : Exists(r)}
       IN  existing = {} \/ (newGeneration /\ Active = {})
    /\ op' = [op EXCEPT ![p] = [Idle EXCEPT !.pc = "reserve", !.on = q]]
    /\ UNCHANGED <<versions, cloud, submitted>>

\* POST: a new reservation; a replay of one; or a conflict with another.
Reserve(p) ==
    /\ op[p].pc = "reserve"
    /\ \/ /\ ~Exists(op[p].on) /\ Active = {}
          /\ versions' = Insert(op[p].on)
          /\ op' = [op EXCEPT ![p].pc = "mark", ![p].version = 1]
       \/ /\ Exists(op[p].on) \/ Active # {}
          /\ Ends(p) /\ UNCHANGED versions
    /\ UNCHANGED <<cloud, submitted>>

\* Mutant: the submission does not wait for the registry.
MarkLater(p) ==
    /\ op[p].pc = "mark"
    /\ op' = [op EXCEPT ![p].pc = "submit"]
    /\ UNCHANGED <<versions, cloud, submitted>>

\* submission_unknown is committed before the cloud is asked for anything.
MarkUnknown(p) ==
    /\ op[p].pc = "mark"
    /\ Update(p, [Reserved EXCEPT !.status = "submission_unknown"], "submit")
    /\ UNCHANGED <<cloud, submitted>>

\* cloud exec: the task starts, and its identity is known or not.
Submit(p) ==
    /\ op[p].pc = "submit"
    /\ LET q == op[p].on IN
       /\ cloud' = [cloud EXCEPT ![q].tasks = @ + 1, ![q].version = 1]
       /\ submitted' = [submitted EXCEPT ![q] = Append(@, Current(q).status)]
    /\ op' = [op EXCEPT ![p].pc = "attach"]
    /\ UNCHANGED versions

Attach(p) ==
    /\ op[p].pc = "attach"
    /\ Update(p, [op[p].state EXCEPT !.status = "running", !.task = TRUE], "idle")
    /\ UNCHANGED <<cloud, submitted>>

-----------------------------------------------------------------------------
(* capture and claim.                                                      *)

Read(p, q, pc) == op' = [op EXCEPT ![p] = [Idle EXCEPT
    !.pc = pc, !.on = q, !.version = Version(q), !.state = Current(q)]]

CaptureRead(p, q) ==
    /\ op[p].pc = "idle" /\ Exists(q)
    /\ Current(q).status \in {"running", "needs_input", "failed", "review", "local"}
    /\ Read(p, q, "before")
    /\ UNCHANGED <<versions, cloud, submitted>>

CaptureBefore(p) ==
    /\ op[p].pc = "before" /\ cloud[op[p].on].idle
    /\ op' = [op EXCEPT ![p].pc = "diff", ![p].before = cloud[op[p].on].version]
    /\ UNCHANGED <<versions, cloud, submitted>>

CaptureDiff(p) ==
    /\ op[p].pc = "diff"
    /\ op' = [op EXCEPT ![p].pc = "after", ![p].diff = cloud[op[p].on].version]
    /\ UNCHANGED <<versions, cloud, submitted>>

\* Mutant: the task is not looked at again after the patch was retrieved.
CaptureOnce(p) ==
    /\ op[p].pc = "after"
    /\ op' = [op EXCEPT ![p].pc = "capture"]
    /\ UNCHANGED <<versions, cloud, submitted>>

\* The task must not have changed while the patch was retrieved.
CaptureAfter(p) ==
    /\ op[p].pc = "after"
    /\ IF cloud[op[p].on].version = op[p].before
       THEN op' = [op EXCEPT ![p].pc = "capture"] ELSE Ends(p)
    /\ UNCHANGED <<versions, cloud, submitted>>

Capture(p) ==
    /\ op[p].pc = "capture"
    /\ Update(p, [op[p].state EXCEPT !.status = "review", !.cloudAt = op[p].before,
                                     !.patch = op[p].diff], "idle")
    /\ UNCHANGED <<cloud, submitted>>

ClaimRead(p, q) ==
    /\ op[p].pc = "idle" /\ Exists(q) /\ Current(q).status = "review"
    /\ Current(q).patch # 0
    /\ Read(p, q, "check")
    /\ UNCHANGED <<versions, cloud, submitted>>

\* The task is idle and as it was when the patch was captured.
ClaimCheck(p) ==
    /\ op[p].pc = "check"
    /\ LET c == cloud[op[p].on] IN
       IF c.idle /\ c.version = op[p].state.cloudAt
       THEN op' = [op EXCEPT ![p].pc = "claim"] ELSE Ends(p)
    /\ UNCHANGED <<versions, cloud, submitted>>

Claim(p) ==
    /\ op[p].pc = "claim"
    /\ Update(p, [op[p].state EXCEPT !.status = "local"], "idle")
    /\ UNCHANGED <<cloud, submitted>>

-----------------------------------------------------------------------------
(* Updates by hand, and the environment.                                   *)

EditRead(p, q) ==
    /\ op[p].pc = "idle" /\ Exists(q) /\ Current(q).status \notin Terminal
    /\ Read(p, q, "edit")
    /\ UNCHANGED <<versions, cloud, submitted>>

\* An operator records another status, attaching the task that was found for
\* an uncertain submission; the evidence stays as it was.
Edit(p) ==
    /\ op[p].pc = "edit"
    /\ \E s \in Statuses \ {"reserved", "local"} :
          LET old == op[p].state
              found == old.task \/ (s # "submission_unknown" /\ cloud[op[p].on].tasks > 0)
          IN  Update(p, [old EXCEPT !.status = s, !.task = found], "idle")
    /\ UNCHANGED <<cloud, submitted>>

\* The cloud works on the task, becomes idle, or is asked to go on.
CloudChanges(q) ==
    /\ cloud[q].tasks > 0 /\ cloud[q].version < MaxCloud
    /\ cloud' = [cloud EXCEPT ![q].version = @ + 1, ![q].idle = ~@]
    /\ UNCHANGED <<versions, op, submitted>>

\* The process of p ends before its next step, or misses an answer.
Dies(p) ==
    /\ op[p].pc # "idle"
    /\ Ends(p)
    /\ UNCHANGED <<versions, cloud, submitted>>

Next ==
    \/ \E p \in Operators :
          \/ \E q \in Requests : \/ \E g \in BOOLEAN : Launch(p, q, g)
                                 \/ CaptureRead(p, q) \/ ClaimRead(p, q) \/ EditRead(p, q)
          \/ Reserve(p) \/ MarkUnknown(p) \/ Submit(p) \/ Attach(p)
          \/ CaptureBefore(p) \/ CaptureDiff(p) \/ CaptureAfter(p) \/ Capture(p)
          \/ ClaimCheck(p) \/ Claim(p) \/ Edit(p) \/ Dies(p)
    \/ \E q \in Requests : CloudChanges(q)

Spec == Init /\ [][Next]_vars

-----------------------------------------------------------------------------
(* Properties.                                                             *)

\* A request is submitted to the cloud at most once, whatever is replayed,
\* lost or run at the same time, and not before the registry says so
\* (docs/investigations.md: "Only the process that created the reservation may
\* submit.  Replays never submit again."), and there is never more than one
\* investigation of the issue that has not ended.
SubmittedOnce ==
    /\ \A q \in Requests :
          /\ Len(submitted[q]) <= 1
          /\ \A i \in DOMAIN submitted[q] : submitted[q][i] # "reserved"
    /\ Cardinality(Active) <= 1

\* Every version was written by somebody who had read the version before it,
\* so no update is lost, an ended investigation stays as it was and its task is
\* never exchanged (UpdateInvestigation, ValidateTransition).
HistoryLinear ==
    \A q \in Requests :
       \A i \in 2 .. Len(versions[q]) :
          LET old == versions[q][i-1].state
              new == versions[q][i].state
          IN  /\ versions[q][i].from = i - 1
              /\ old.status \notin Terminal
              /\ old.task => new.task
              /\ new.cloudAt >= old.cloudAt

\* A recorded patch is of the version of the task that is recorded with it, and
\* local work starts from a patch that was reviewed (capture, claim).
SnapshotTrue ==
    \A q \in Requests :
       \A i \in 1 .. Len(versions[q]) :
          LET s == versions[q][i].state
          IN  /\ s.patch = s.cloudAt
              /\ s.status = "local" =>
                    /\ s.patch # 0
                    /\ versions[q][i-1].state.status \in {"review", "local"}
                    /\ versions[q][i-1].state.patch = s.patch
=============================================================================
