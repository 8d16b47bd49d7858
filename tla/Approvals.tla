------------------------------ MODULE Approvals ------------------------------
(***************************************************************************)
(* Approvals of one automation and the transactions that replace its       *)
(* active revision under them (internal/database/database.go,              *)
(* guardPendingApprovals, deploy, RollbackAutomation and CompleteRun's     *)
(* approval; internal/database/approvals.go, ResolveApproval;              *)
(* internal/database/notifications.go, the approval notices).              *)
(*                                                                         *)
(* Abstractions.                                                           *)
(*  - An approval is named by the run that opened it: requested_by_run_id  *)
(*    is unique.  Approvals of other automations share nothing with these. *)
(*  - A transaction that waits for a row lock, or decides on one statement *)
(*    and writes in a later one, is several steps of a session; the locks  *)
(*    it holds follow from where the session is.  A transaction that does  *)
(*    all its work under one lock is one step.                             *)
(*  - Time is the Boolean "past" of an approval: expires_at has passed.    *)
(*  - A response is its action; the fields are part of it.                 *)
(*  - The notices written with each change of an approval are the subject  *)
(*    of Notifications.                                                    *)
(***************************************************************************)
CONSTANTS
    Runs, Revisions, Keys, Sessions,
    NoRevision, NoKey, NoRun

ASSUME NoneAssumption ==
    /\ NoRevision \notin Revisions
    /\ NoKey \notin Keys
    /\ NoRun \notin Runs

VARIABLES
    active,     \* automations.active_revision_id
    published,  \* the rows of revisions
    pinned,     \* the revision a run executes
    approval,   \* the rows of approvals
    queued,     \* the action runs, with the event that carries the decision
    session,    \* the open transaction of each connection
    answered,   \* history: the decisions reported to clients
    stranded    \* history: <<approval, how it was guarded>>, made unanswerable by
                \* an activation without the operator's decision

vars == <<active, published, pinned, approval, queued, session, answered, stranded>>

-----------------------------------------------------------------------------
Action == {"approve", "reject"}
Decided == {"approved", "rejected"}

StatusOf(action) == IF action = "approve" THEN "approved" ELSE "rejected"

Absent == [status |-> "absent", revision |-> NoRevision, past |-> FALSE,
           warned |-> FALSE, key |-> NoKey, action |-> "none"]

Idle == [pc |-> "idle", revision |-> NoRevision, strand |-> FALSE, past |-> {},
         locked |-> FALSE, run |-> NoRun, key |-> NoKey, action |-> "none"]

\* Some transaction holds the automation row exclusively.
AutomationLocked == \E s \in Sessions : session[s].locked

\* Some transaction holds the row of approval r.
ApprovalLocked(r) == \E s \in Sessions : session[s].pc = "resolving" /\ session[s].run = r

Pending(r) == approval[r].status = "pending"

\* ResolveApproval would record a decision.
Answerable(r) == Pending(r) /\ ~approval[r].past /\ approval[r].revision = active

\* Session s ends its transaction.
Ends(s) == session' = [session EXCEPT ![s] = Idle]

\* The active revision becomes v.
Activates(v, guard) ==
    /\ active' = v
    /\ stranded' = IF v = active \/ guard = "decision" THEN stranded
                   ELSE stranded \cup {<<r, guard>> : r \in {q \in Runs : Answerable(q)}}

-----------------------------------------------------------------------------
Init ==
    /\ active = NoRevision
    /\ published = {}
    /\ pinned = [r \in Runs |-> NoRevision]
    /\ approval = [r \in Runs |-> Absent]
    /\ queued = {}
    /\ session = [s \in Sessions |-> Idle]
    /\ answered = {}
    /\ stranded = {}

(* Runs.                                                                   *)

\* A run is queued, pinned to the active revision.
EnqueueRun(r) ==
    /\ active # NoRevision
    /\ pinned[r] = NoRevision
    /\ pinned' = [pinned EXCEPT ![r] = active]
    /\ UNCHANGED <<active, published, approval, queued, session, answered, stranded>>

\* Mutant: CompleteRun does not wait for the automation row.
OpenApprovalUnlocked(r) ==
    /\ pinned[r] # NoRevision
    /\ approval[r].status = "absent"
    /\ approval' = [approval EXCEPT ![r] = [Absent EXCEPT !.status = "pending",
                                                          !.revision = pinned[r]]]
    /\ UNCHANGED <<active, published, pinned, queued, session, answered, stranded>>

\* CompleteRun opens the run's approval under a shared lock of the automation.
OpenApproval(r) ==
    /\ pinned[r] # NoRevision
    /\ approval[r].status = "absent"
    /\ ~AutomationLocked
    /\ approval' = [approval EXCEPT ![r] = [Absent EXCEPT !.status = "pending",
                                                          !.revision = pinned[r]]]
    /\ UNCHANGED <<active, published, pinned, queued, session, answered, stranded>>

\* expires_at passes.
ExpiryPasses(r) ==
    /\ Pending(r) /\ ~approval[r].past
    /\ approval' = [approval EXCEPT ![r].past = TRUE]
    /\ UNCHANGED <<active, published, pinned, queued, session, answered, stranded>>

-----------------------------------------------------------------------------
(* Activation: deploy() with the guard in front.                           *)

\* The transaction begins; its now() is fixed before it waits for any lock.
BeginActivation(s, v, strand) ==
    /\ session[s].pc = "idle"
    /\ session' = [session EXCEPT ![s] =
                      [Idle EXCEPT !.pc = "activating", !.revision = v,
                                   !.strand = strand,
                                   !.past = {r \in Runs : approval[r].past}]]
    /\ UNCHANGED <<active, published, pinned, approval, queued, answered, stranded>>

\* The approvals the guard lists: pending, on the active revision, unexpired
\* when the transaction began.
Blocking(s) ==
    {r \in Runs : Pending(r) /\ approval[r].revision = active /\ r \notin session[s].past}

GuardPasses(s) ==
    \/ active \in {NoRevision, session[s].revision}
    \/ Blocking(s) = {}
    \/ session[s].strand

\* Mutant: a refused activation does not roll back and keeps the lock.
GuardKeepsLock(s) ==
    /\ session[s].pc = "activating"
    /\ ~AutomationLocked
    /\ session' = [session EXCEPT ![s].pc = IF GuardPasses(s) THEN "guarded" ELSE @,
                                  ![s].locked = active # NoRevision]
    /\ UNCHANGED <<active, published, pinned, approval, queued, answered, stranded>>

\* guardPendingApprovals locks the automation row, if there is one, and checks.
GuardPendingApprovals(s) ==
    /\ session[s].pc = "activating"
    /\ ~AutomationLocked
    /\ \/ /\ GuardPasses(s)
          /\ session' = [session EXCEPT ![s].pc = "guarded",
                                        ![s].locked = active # NoRevision]
       \/ /\ ~GuardPasses(s)
          /\ Ends(s)
    /\ UNCHANGED <<active, published, pinned, approval, queued, answered, stranded>>

\* The transaction upserts the automation, publishes the revision, activates it
\* and commits.
ActivateRevision(s) ==
    LET v == session[s].revision IN
    /\ session[s].pc = "guarded"
    /\ session[s].locked \/ ~AutomationLocked
    /\ published' = published \cup {v}
    /\ Activates(v, IF session[s].strand THEN "decision"
                    ELSE IF session[s].locked THEN "locked" ELSE "unlocked")
    /\ Ends(s)
    /\ UNCHANGED <<pinned, approval, queued, answered>>

\* It fails after the guard: lost lease, cancellation, missing secret, invalid
\* trigger, database error.
ActivationAborted(s) ==
    /\ session[s].pc = "guarded"
    /\ Ends(s)
    /\ UNCHANGED <<active, published, pinned, approval, queued, answered, stranded>>

\* A rollback does all its work under the lock and asks no approval.
RollbackAutomation(v) ==
    /\ ~AutomationLocked
    /\ v \in published
    /\ v # active
    /\ Activates(v, "decision")
    /\ UNCHANGED <<published, pinned, approval, queued, session, answered>>

-----------------------------------------------------------------------------
(* ResolveApproval.                                                        *)

\* Mutant: the approval row is read without a lock.
ResolveReadsUnlocked(s, r, k, action) ==
    /\ session[s].pc = "idle"
    /\ Pending(r) /\ ~approval[r].past
    /\ session' = [session EXCEPT ![s] = [Idle EXCEPT !.pc = "resolving", !.run = r,
                                                      !.key = k, !.action = action]]
    /\ UNCHANGED <<active, published, pinned, approval, queued, answered, stranded>>

\* The approval is locked and found pending and unexpired.
ResolveReads(s, r, k, action) ==
    /\ session[s].pc = "idle"
    /\ ~ApprovalLocked(r)
    /\ Pending(r) /\ ~approval[r].past
    /\ session' = [session EXCEPT ![s] = [Idle EXCEPT !.pc = "resolving", !.run = r,
                                                      !.key = k, !.action = action]]
    /\ UNCHANGED <<active, published, pinned, approval, queued, answered, stranded>>

\* It is found past its expiry, here or by a resend: the row is marked.
MarkExpired(r) ==
    /\ ~ApprovalLocked(r)
    /\ Pending(r) /\ approval[r].past
    /\ approval' = [approval EXCEPT ![r].status = "expired"]
    /\ UNCHANGED <<active, published, pinned, queued, session, answered, stranded>>

\* Mutant: any answer to a decided approval counts as a replay.
ReplayAny(r, k, action) ==
    /\ ~ApprovalLocked(r)
    /\ approval[r].status \in Decided
    /\ answered' = answered \cup {<<r, k, action>>}
    /\ UNCHANGED <<active, published, pinned, approval, queued, session, stranded>>

\* It is decided already: the same answer under the same key is a replay, which
\* returns the original decision; anything else is refused.
Replay(r, k, action) ==
    /\ ~ApprovalLocked(r)
    /\ approval[r].status \in Decided
    /\ approval[r].key = k /\ approval[r].action = action
    /\ answered' = answered \cup {<<r, k, action>>}
    /\ UNCHANGED <<active, published, pinned, approval, queued, session, stranded>>

\* With the automation locked too, the decision and its action run are recorded
\* if the approval's revision is still active; the client may miss the answer.
ResolveCommits(s) ==
    LET r == session[s].run
        k == session[s].key
        action == session[s].action
    IN
    /\ session[s].pc = "resolving"
    /\ ~AutomationLocked
    /\ approval[r].revision = active
    /\ approval' = [approval EXCEPT ![r] = [@ EXCEPT !.status = StatusOf(action),
                                                     !.key = k, !.action = action]]
    /\ queued' = queued \cup {[approval |-> r, key |-> k, action |-> action,
                               revision |-> approval[r].revision]}
    /\ \/ answered' = answered \cup {<<r, k, action>>}
       \/ UNCHANGED answered
    /\ Ends(s)
    /\ UNCHANGED <<active, published, pinned, stranded>>

\* ErrAutomationRevisionChanged, an invalid response or a database error.
ResolveRefused(s) ==
    /\ session[s].pc = "resolving"
    /\ ~AutomationLocked
    /\ Ends(s)
    /\ UNCHANGED <<active, published, pinned, approval, queued, answered, stranded>>

-----------------------------------------------------------------------------
(* Notices.                                                                *)

\* EnqueueExpiringApprovalNotifications: one notice for each approval whose
\* warning window has opened; rows locked elsewhere wait for the next scan.
EnqueueExpiring(rs) ==
    /\ rs # {}
    /\ \A r \in rs : /\ Pending(r) /\ ~approval[r].past /\ ~approval[r].warned
                     /\ ~ApprovalLocked(r)
    /\ approval' = [r \in Runs |-> IF r \in rs THEN [approval[r] EXCEPT !.warned = TRUE]
                                               ELSE approval[r]]
    /\ UNCHANGED <<active, published, pinned, queued, session, answered, stranded>>

-----------------------------------------------------------------------------
RunStep(r) ==
    \/ EnqueueRun(r) \/ OpenApproval(r) \/ ExpiryPasses(r)
    \/ MarkExpired(r)
    \/ \E k \in Keys, action \in Action : Replay(r, k, action)

Begin(s) ==
    \/ \E v \in Revisions, strand \in BOOLEAN : BeginActivation(s, v, strand)
    \/ \E r \in Runs, k \in Keys, action \in Action : ResolveReads(s, r, k, action)

Settle(s) ==
    \/ GuardPendingApprovals(s)
    \/ ActivateRevision(s) \/ ActivationAborted(s)
    \/ ResolveCommits(s) \/ ResolveRefused(s)

Next ==
    \/ \E r \in Runs : RunStep(r)
    \/ \E s \in Sessions : Begin(s) \/ Settle(s)
    \/ \E v \in Revisions : RollbackAutomation(v)
    \/ \E rs \in SUBSET Runs : EnqueueExpiring(rs)

Spec == Init /\ [][Next]_vars

(* PostgreSQL grants a row lock to its waiters in turn, so a session that  *)
(* waits gets it even if others keep taking it.                            *)
Fairness == \A s \in Sessions : SF_vars(Settle(s))

FairSpec == Spec /\ Fairness

-----------------------------------------------------------------------------
(* Properties.                                                             *)

Approval == [status : {"absent", "pending", "expired"} \cup Decided,
             revision : Revisions \cup {NoRevision}, past : BOOLEAN,
             warned : BOOLEAN, key : Keys \cup {NoKey},
             action : Action \cup {"none"}]

Session == [pc : {"idle", "activating", "guarded", "resolving"},
            revision : Revisions \cup {NoRevision}, strand : BOOLEAN,
            past : SUBSET Runs, locked : BOOLEAN, run : Runs \cup {NoRun},
            key : Keys \cup {NoKey}, action : Action \cup {"none"}]

\* Types, and that the automation row has one exclusive holder at most and an
\* approval row one reviewer at most.
TypeOK ==
    /\ active \in Revisions \cup {NoRevision}
    /\ published \subseteq Revisions
    /\ active # NoRevision => active \in published
    /\ pinned \in [Runs -> Revisions \cup {NoRevision}]
    /\ approval \in [Runs -> Approval]
    /\ queued \subseteq [approval : Runs, key : Keys, action : Action, revision : Revisions]
    /\ session \in [Sessions -> Session]
    /\ \A s, t \in Sessions : s # t =>
           /\ ~(session[s].locked /\ session[t].locked)
           /\ session[s].pc = "resolving" /\ session[t].pc = "resolving" =>
                  session[s].run # session[t].run
    /\ answered \subseteq Runs \X Keys \X Action
    /\ stranded \subseteq Runs \X {"locked", "unlocked"}

\* However many reviewers answer at once, an approval is decided once: exactly
\* one action run is queued for it, pinned to its revision and carrying the
\* recorded answer, and every client that was told of a decision was told that
\* one (ResolveApproval's row lock, replay rule and single transaction).
DecidedOnce ==
    \A r \in Runs :
        /\ {q \in queued : q.approval = r} =
               IF approval[r].status \in Decided
               THEN {[approval |-> r, key |-> approval[r].key,
                      action |-> approval[r].action,
                      revision |-> approval[r].revision]}
               ELSE {}
        /\ \A k \in Keys, action \in Action : <<r, k, action>> \in answered =>
               /\ approval[r].status = StatusOf(action)
               /\ approval[r].key = k

\* An activation that took the automation's lock strands no approval that could
\* still be answered, unless the operator's override is recorded: no approval
\* lands between guardPendingApprovals and the activation.
GuardHolds == \A r \in Runs : <<r, "locked">> \notin stranded

\* A decision is recorded only for the active revision, and neither a decided
\* nor an expired approval changes again, its expiry notice included
\* (ResolveApproval, EnqueueExpiringApprovalNotifications).
DecisionFinal ==
    [][\A r \in Runs :
          /\ approval[r].status \in Decided \cup {"expired"} => approval'[r] = approval[r]
          /\ approval'[r].status \in Decided \ {approval[r].status} =>
                 approval[r].revision = active /\ active' = active]_vars

\* No transaction waits for ever: the two locks are always taken in the order
\* approval, automation, and every path gives them back.
TransactionsEnd == \A s \in Sessions : session[s].pc # "idle" ~> session[s].pc = "idle"
=============================================================================
