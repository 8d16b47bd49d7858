--------------------------- MODULE ApprovalsProofs ---------------------------
(***************************************************************************)
(* Theorems about Approvals, for any number of runs, revisions, keys and   *)
(* open transactions: an approval is decided once, for good and on the     *)
(* active revision, and no activation under the lock strands one.          *)
(***************************************************************************)
EXTENDS Approvals, TLAPS

-----------------------------------------------------------------------------
(* Types.                                                                  *)

\* What the position of a transaction says about it.
SessionShape(x) ==
    /\ x.pc \in {"activating", "guarded"} => x.revision \in Revisions
    /\ x.locked => x.pc = "guarded"
    /\ x.pc = "resolving" => x.run \in Runs /\ x.key \in Keys /\ x.action \in Action

\* What the status of an approval says about it.
ApprovalShape(x) ==
    /\ x.status = "absent" => ~x.past
    /\ x.status # "absent" => x.revision \in Revisions
    /\ x.status \in Decided => /\ x.key \in Keys /\ x.action \in Action
                               /\ x.status = StatusOf(x.action)

\* The approval a reviewer's transaction holds stays pending.
ResolvingPending ==
    \A s \in Sessions : session[s].pc = "resolving" => Pending(session[s].run)

\* The open transactions: well formed, one holder of the automation row, one
\* reviewer of an approval.
SessionsSound ==
    /\ session \in [Sessions -> Session]
    /\ \A s \in Sessions : SessionShape(session[s])
    /\ \A s, t \in Sessions : s # t =>
           /\ ~(session[s].locked /\ session[t].locked)
           /\ session[s].pc = "resolving" /\ session[t].pc = "resolving" =>
                  session[s].run # session[t].run
    /\ ResolvingPending

ApprovalsSound ==
    /\ approval \in [Runs -> Approval]
    /\ \A r \in Runs : ApprovalShape(approval[r])

RestSound ==
    /\ active \in Revisions \cup {NoRevision}
    /\ published \subseteq Revisions
    /\ active # NoRevision => active \in published
    /\ pinned \in [Runs -> Revisions \cup {NoRevision}]
    /\ queued \subseteq [approval : Runs, key : Keys, action : Action, revision : Revisions]
    /\ answered \subseteq Runs \X Keys \X Action
    /\ stranded \subseteq Runs \X {"locked", "unlocked"}

\* TypeOK is not inductive: the decision of a reviewer's transaction is typed
\* because of what its checks found when they took the lock.
TypeInv == SessionsSound /\ ApprovalsSound /\ RestSound

LEMMA TypeInvType == TypeInv => TypeOK
BY DEF TypeInv, SessionsSound, ApprovalsSound, RestSound, TypeOK

\* The two records a transaction and an approval start from.
LEMMA Starts ==
    /\ Idle \in Session /\ SessionShape(Idle)
    /\ Absent \in Approval /\ ApprovalShape(Absent)
BY DEF Idle, Session, SessionShape, Absent, Approval, ApprovalShape, Decided

LEMMA InitType == Init => TypeInv
<1> SUFFICES ASSUME Init PROVE TypeInv OBVIOUS
<1>1. session \in [Sessions -> Session] /\ \A s \in Sessions : session[s] = Idle
  BY Starts DEF Init
<1>2. approval \in [Runs -> Approval] /\ \A r \in Runs : approval[r] = Absent
  BY Starts DEF Init
<1>3. ~Idle.locked /\ Idle.pc = "idle"
  BY DEF Idle
<1>4. SessionsSound
  BY <1>1, <1>3, Starts DEF SessionsSound, ResolvingPending
<1>5. ApprovalsSound
  BY <1>2, Starts DEF ApprovalsSound
<1>6. RestSound
  BY DEF Init, RestSound
<1> QED BY <1>4, <1>5, <1>6 DEF TypeInv

\* Transaction s moves on and every approval under review stays pending.
LEMMA SessionMoves ==
    ASSUME SessionsSound, NEW s \in Sessions, NEW x \in Session, SessionShape(x),
           session' = [session EXCEPT ![s] = x],
           x.locked => \A t \in Sessions : t # s => ~session[t].locked,
           x.pc = "resolving" =>
               /\ approval'[x.run].status = "pending"
               /\ \A t \in Sessions : t # s /\ session[t].pc = "resolving"
                                        => session[t].run # x.run,
           \A t \in Sessions : t # s /\ session[t].pc = "resolving" =>
               approval'[session[t].run].status = "pending"
    PROVE  SessionsSound'
<1>1. /\ session' \in [Sessions -> Session]
      /\ session'[s] = x
      /\ \A t \in Sessions : t # s => session'[t] = session[t]
  BY DEF SessionsSound
<1>2. \A t \in Sessions : SessionShape(session'[t])
  BY <1>1 DEF SessionsSound
<1>3. \A t, u \in Sessions : t # u =>
          /\ ~(session'[t].locked /\ session'[u].locked)
          /\ session'[t].pc = "resolving" /\ session'[u].pc = "resolving" =>
                 session'[t].run # session'[u].run
  BY <1>1 DEF SessionsSound
<1>4. ResolvingPending'
  BY <1>1 DEF SessionsSound, ResolvingPending, Pending
<1> QED BY <1>1, <1>2, <1>3, <1>4 DEF SessionsSound, SessionShape

\* No transaction moves and every approval under review stays pending.
LEMMA SessionsStay ==
    ASSUME SessionsSound, session' = session,
           \A t \in Sessions : session[t].pc = "resolving" =>
               approval'[session[t].run].status = "pending"
    PROVE  SessionsSound'
BY DEF SessionsSound, ResolvingPending, Pending, SessionShape

\* Transaction s ends.
LEMMA SessionEnds ==
    ASSUME SessionsSound, NEW s \in Sessions, Ends(s),
           \A t \in Sessions : t # s /\ session[t].pc = "resolving" =>
               approval'[session[t].run].status = "pending"
    PROVE  SessionsSound'
<1>1. ~Idle.locked /\ Idle.pc # "resolving" BY DEF Idle
<1> QED BY <1>1, Starts, SessionMoves DEF Ends

\* The approvals under review, when none changes.
LEMMA ReviewsStay ==
    ASSUME SessionsSound, approval' = approval
    PROVE  \A t \in Sessions : session[t].pc = "resolving" =>
               approval'[session[t].run].status = "pending"
BY DEF SessionsSound, ResolvingPending, Pending

\* One approval changes.
LEMMA ApprovalChanges ==
    ASSUME ApprovalsSound, NEW r \in Runs, NEW x \in Approval, ApprovalShape(x),
           approval' = [approval EXCEPT ![r] = x]
    PROVE  /\ ApprovalsSound'
           /\ approval'[r] = x
           /\ \A q \in Runs : q # r => approval'[q] = approval[q]
<1>1. /\ approval' \in [Runs -> Approval] /\ approval'[r] = x
      /\ \A q \in Runs : q # r => approval'[q] = approval[q]
  BY DEF ApprovalsSound
<1>2. \A q \in Runs : ApprovalShape(approval'[q])
  BY <1>1 DEF ApprovalsSound
<1> QED BY <1>1, <1>2 DEF ApprovalsSound, ApprovalShape

\* Every step keeps the invariant, action by action.
LEMMA TypeStep == TypeInv /\ [Next]_vars => TypeInv'
<1> SUFFICES ASSUME TypeInv, [Next]_vars PROVE TypeInv' OBVIOUS
<1> USE DEF TypeInv
<1>1. ASSUME NEW r \in Runs, EnqueueRun(r) PROVE TypeInv'
  <2>1. SessionsSound' /\ ApprovalsSound'
    BY <1>1, SessionsStay, ReviewsStay DEF EnqueueRun, ApprovalsSound, ApprovalShape
  <2>2. RestSound'
    BY <1>1 DEF EnqueueRun, RestSound
  <2> QED BY <2>1, <2>2
<1>2. ASSUME NEW r \in Runs, OpenApproval(r) PROVE TypeInv'
  <2> DEFINE x == [Absent EXCEPT !.status = "pending", !.revision = pinned[r]]
  <2>1. pinned[r] \in Revisions /\ approval[r].status = "absent"
    BY <1>2 DEF OpenApproval, RestSound
  <2>2. x \in Approval /\ ApprovalShape(x)
    BY <2>1 DEF Absent, Approval, ApprovalShape, Decided
  <2>3. approval' = [approval EXCEPT ![r] = x] /\ session' = session
    BY <1>2 DEF OpenApproval
  <2>4. ApprovalsSound' /\ \A q \in Runs : q # r => approval'[q] = approval[q]
    <3> HIDE DEF x
    <3> QED BY <2>2, <2>3, ApprovalChanges
  <2>5. SessionsSound'
    <3>1. \A t \in Sessions : session[t].pc = "resolving" =>
              approval'[session[t].run].status = "pending"
      BY <2>1, <2>4, <1>2 DEF SessionsSound, SessionShape, ResolvingPending, Pending
    <3> QED BY <3>1, <2>3, SessionsStay
  <2>6. RestSound'
    BY <1>2 DEF OpenApproval, RestSound
  <2> QED BY <2>4, <2>5, <2>6
<1>3. ASSUME NEW r \in Runs, ExpiryPasses(r) PROVE TypeInv'
  <2> DEFINE x == [approval[r] EXCEPT !.past = TRUE]
  <2>1. approval[r] \in Approval /\ ApprovalShape(approval[r])
    BY DEF ApprovalsSound
  <2>2. x \in Approval /\ ApprovalShape(x) /\ x.status = "pending"
    BY <1>3, <2>1 DEF Approval, ApprovalShape, ExpiryPasses, Pending
  <2>3. approval' = [approval EXCEPT ![r] = x] /\ session' = session
    BY <1>3 DEF ExpiryPasses
  <2>4. /\ ApprovalsSound' /\ approval'[r].status = "pending"
        /\ \A q \in Runs : q # r => approval'[q] = approval[q]
    <3> HIDE DEF x
    <3> QED BY <2>2, <2>3, ApprovalChanges
  <2>5. SessionsSound'
    <3>1. \A t \in Sessions : session[t].pc = "resolving" =>
              approval'[session[t].run].status = "pending"
      BY <2>4 DEF SessionsSound, SessionShape, ResolvingPending, Pending
    <3> QED BY <3>1, <2>3, SessionsStay
  <2>6. RestSound'
    BY <1>3 DEF ExpiryPasses, RestSound
  <2> QED BY <2>4, <2>5, <2>6
<1>4. ASSUME NEW r \in Runs, MarkExpired(r) PROVE TypeInv'
  <2> DEFINE x == [approval[r] EXCEPT !.status = "expired"]
  <2>1. approval[r] \in Approval /\ ApprovalShape(approval[r])
    BY DEF ApprovalsSound
  <2>2. x \in Approval /\ ApprovalShape(x)
    BY <1>4, <2>1 DEF Approval, ApprovalShape, MarkExpired, Pending, Decided
  <2>3. approval' = [approval EXCEPT ![r] = x] /\ session' = session
    BY <1>4 DEF MarkExpired
  <2>4. ApprovalsSound' /\ \A q \in Runs : q # r => approval'[q] = approval[q]
    <3> HIDE DEF x
    <3> QED BY <2>2, <2>3, ApprovalChanges
  <2>5. SessionsSound'
    <3>1. \A t \in Sessions : session[t].pc = "resolving" =>
              approval'[session[t].run].status = "pending"
      BY <2>4, <1>4 DEF SessionsSound, SessionShape, ResolvingPending, Pending,
                        MarkExpired, ApprovalLocked
    <3> QED BY <3>1, <2>3, SessionsStay
  <2>6. RestSound'
    BY <1>4 DEF MarkExpired, RestSound
  <2> QED BY <2>4, <2>5, <2>6
<1>5. ASSUME NEW r \in Runs, NEW k \in Keys, NEW action \in Action, Replay(r, k, action)
      PROVE  TypeInv'
  <2>1. SessionsSound' /\ ApprovalsSound'
    BY <1>5, SessionsStay, ReviewsStay DEF Replay, ApprovalsSound, ApprovalShape
  <2>2. RestSound'
    BY <1>5 DEF Replay, RestSound
  <2> QED BY <2>1, <2>2
<1>6. ASSUME NEW s \in Sessions, NEW v \in Revisions, NEW strand \in BOOLEAN,
             BeginActivation(s, v, strand)
      PROVE  TypeInv'
  <2> DEFINE x == [Idle EXCEPT !.pc = "activating", !.revision = v, !.strand = strand,
                               !.past = {r \in Runs : approval[r].past}]
  <2>1. x \in Session /\ SessionShape(x) /\ ~x.locked /\ x.pc # "resolving"
    BY DEF Idle, Session, SessionShape
  <2>2. session' = [session EXCEPT ![s] = x] /\ approval' = approval
    BY <1>6 DEF BeginActivation
  <2>3. SessionsSound'
    <3> HIDE DEF x
    <3> QED BY <2>1, <2>2, ReviewsStay, SessionMoves
  <2>4. ApprovalsSound' /\ RestSound'
    BY <1>6 DEF BeginActivation, ApprovalsSound, ApprovalShape, RestSound
  <2> QED BY <2>3, <2>4
<1>7. ASSUME NEW s \in Sessions, NEW r \in Runs, NEW k \in Keys, NEW action \in Action,
             ResolveReads(s, r, k, action)
      PROVE  TypeInv'
  <2> DEFINE x == [Idle EXCEPT !.pc = "resolving", !.run = r, !.key = k, !.action = action]
  <2>1. x \in Session /\ SessionShape(x) /\ ~x.locked /\ x.run = r
    BY DEF Idle, Session, SessionShape
  <2>2. /\ session' = [session EXCEPT ![s] = x] /\ approval' = approval
        /\ approval[r].status = "pending"
        /\ \A t \in Sessions : session[t].pc = "resolving" => session[t].run # r
    BY <1>7 DEF ResolveReads, Pending, ApprovalLocked
  <2>3. SessionsSound'
    <3> HIDE DEF x
    <3> QED BY <2>1, <2>2, ReviewsStay, SessionMoves
  <2>4. ApprovalsSound' /\ RestSound'
    BY <1>7 DEF ResolveReads, ApprovalsSound, ApprovalShape, RestSound
  <2> QED BY <2>3, <2>4
<1>8. ASSUME NEW s \in Sessions, GuardPendingApprovals(s) PROVE TypeInv'
  <2>1. approval' = approval /\ ApprovalsSound' /\ RestSound'
    BY <1>8 DEF GuardPendingApprovals, ApprovalsSound, ApprovalShape, RestSound
  <2>2. CASE Ends(s)
    BY <2>1, <2>2, ReviewsStay, SessionEnds
  <2>3. CASE session' = [session EXCEPT ![s].pc = "guarded",
                                        ![s].locked = active # NoRevision]
    <3> DEFINE x == [session[s] EXCEPT !.pc = "guarded", !.locked = active # NoRevision]
    <3>1. session[s] \in Session /\ SessionShape(session[s]) /\ session[s].pc = "activating"
      BY <1>8 DEF SessionsSound, GuardPendingApprovals
    <3>2. x \in Session /\ SessionShape(x) /\ x.pc # "resolving"
      BY <3>1 DEF Session, SessionShape
    <3>3. session' = [session EXCEPT ![s] = x]
      BY <2>3 DEF SessionsSound, Session
    <3>4. \A t \in Sessions : ~session[t].locked
      BY <1>8 DEF GuardPendingApprovals, AutomationLocked
    <3>5. SessionsSound'
      <4> HIDE DEF x
      <4> QED BY <3>2, <3>3, <3>4, <2>1, ReviewsStay, SessionMoves
    <3> QED BY <3>5, <2>1
  <2> QED BY <1>8, <2>2, <2>3 DEF GuardPendingApprovals
<1>9. ASSUME NEW s \in Sessions, ActivateRevision(s) PROVE TypeInv'
  <2>1. approval' = approval /\ ApprovalsSound' /\ Ends(s)
    BY <1>9 DEF ActivateRevision, ApprovalsSound, ApprovalShape
  <2>2. SessionsSound'
    BY <2>1, ReviewsStay, SessionEnds
  <2>3. session[s].revision \in Revisions
    BY <1>9 DEF SessionsSound, SessionShape, ActivateRevision
  <2>4. stranded' \subseteq Runs \X {"locked", "unlocked"}
    BY <1>9 DEF ActivateRevision, Activates, RestSound
  <2>5. RestSound'
    BY <1>9, <2>3, <2>4 DEF ActivateRevision, Activates, RestSound
  <2> QED BY <2>1, <2>2, <2>5
<1>10. ASSUME NEW s \in Sessions, ActivationAborted(s) \/ ResolveRefused(s) PROVE TypeInv'
  <2>1. approval' = approval /\ ApprovalsSound' /\ RestSound' /\ Ends(s)
    BY <1>10 DEF ActivationAborted, ResolveRefused, ApprovalsSound, ApprovalShape, RestSound
  <2> QED BY <2>1, ReviewsStay, SessionEnds
<1>11. ASSUME NEW s \in Sessions, ResolveCommits(s) PROVE TypeInv'
  <2> DEFINE r == session[s].run
             k == session[s].key
             action == session[s].action
             x == [approval[r] EXCEPT !.status = StatusOf(action), !.key = k,
                                      !.action = action]
  <2>1. /\ r \in Runs /\ k \in Keys /\ action \in Action
        /\ approval[r].status = "pending"
        /\ approval[r] \in Approval /\ ApprovalShape(approval[r])
    BY <1>11 DEF SessionsSound, SessionShape, ResolvingPending, Pending, ResolveCommits,
                 ApprovalsSound
  <2>2. x \in Approval /\ ApprovalShape(x)
    BY <2>1 DEF Approval, ApprovalShape, Decided, StatusOf, Action
  <2>3. approval' = [approval EXCEPT ![r] = x] /\ Ends(s)
    BY <1>11 DEF ResolveCommits
  <2>4. ApprovalsSound' /\ \A q \in Runs : q # r => approval'[q] = approval[q]
    <3> HIDE DEF x, r
    <3> QED BY <2>1, <2>2, <2>3, ApprovalChanges
  <2>5. SessionsSound'
    <3>1. \A t \in Sessions : t # s /\ session[t].pc = "resolving" =>
              approval'[session[t].run].status = "pending"
      BY <2>4, <1>11 DEF SessionsSound, SessionShape, ResolvingPending, Pending,
                         ResolveCommits
    <3> QED BY <3>1, <2>3, SessionEnds
  <2>6. RestSound'
    <3>1. [approval |-> r, key |-> k, action |-> action, revision |-> approval[r].revision]
             \in [approval : Runs, key : Keys, action : Action, revision : Revisions]
      BY <2>1 DEF ApprovalShape
    <3>2. <<r, k, action>> \in Runs \X Keys \X Action
      BY <2>1
    <3> QED BY <1>11, <3>1, <3>2 DEF ResolveCommits, RestSound
  <2> QED BY <2>4, <2>5, <2>6
<1>12. ASSUME NEW v \in Revisions, RollbackAutomation(v) PROVE TypeInv'
  <2>1. SessionsSound' /\ ApprovalsSound'
    BY <1>12, SessionsStay, ReviewsStay DEF RollbackAutomation, ApprovalsSound, ApprovalShape
  <2>2. RestSound'
    BY <1>12 DEF RollbackAutomation, Activates, RestSound
  <2> QED BY <2>1, <2>2
<1>13. ASSUME NEW rs \in SUBSET Runs, EnqueueExpiring(rs) PROVE TypeInv'
  <2>1. ApprovalsSound' /\ \A q \in Runs : approval'[q].status = approval[q].status
    <3>1. \A q \in Runs : approval[q] \in Approval /\ ApprovalShape(approval[q])
      BY DEF ApprovalsSound
    <3>2. \A q \in Runs : [approval[q] EXCEPT !.warned = TRUE] \in Approval
      BY <3>1 DEF Approval
    <3>3. \A q \in Runs : ApprovalShape([approval[q] EXCEPT !.warned = TRUE])
      BY <3>1 DEF Approval, ApprovalShape
    <3>4. \A q \in Runs : [approval[q] EXCEPT !.warned = TRUE].status = approval[q].status
      BY <3>1 DEF Approval
    <3>5. /\ approval' \in [Runs -> Approval]
          /\ \A q \in Runs : approval'[q] \in {approval[q], [approval[q] EXCEPT !.warned = TRUE]}
      BY <1>13, <3>1, <3>2 DEF EnqueueExpiring
    <3>6. \A q \in Runs : ApprovalShape(approval'[q])
      BY <3>1, <3>3, <3>5
    <3> QED BY <3>4, <3>5, <3>6 DEF ApprovalsSound, ApprovalShape
  <2>2. SessionsSound'
    <3>1. \A t \in Sessions : session[t].pc = "resolving" =>
              approval'[session[t].run].status = "pending"
      BY <2>1 DEF SessionsSound, SessionShape, ResolvingPending, Pending
    <3> QED BY <1>13, <3>1, SessionsStay DEF EnqueueExpiring
  <2>3. RestSound'
    BY <1>13 DEF EnqueueExpiring, RestSound
  <2> QED BY <2>1, <2>2, <2>3
<1>14. ASSUME UNCHANGED vars PROVE TypeInv'
  BY <1>14, SessionsStay, ReviewsStay DEF vars, ApprovalsSound, ApprovalShape, RestSound
<1> QED
  BY <1>1, <1>2, <1>3, <1>4, <1>5, <1>6, <1>7, <1>8, <1>9, <1>10, <1>11, <1>12, <1>13,
     <1>14 DEF Next, RunStep, Begin, Settle

\* Rows and open transactions keep their types; the automation row has one
\* exclusive holder and an approval one reviewer at most (TypeOK).
THEOREM TypeCorrect == Spec => []TypeOK
<1>1. Spec => []TypeInv
  BY InitType, TypeStep, PTL DEF Spec
<1> QED BY <1>1, TypeInvType, PTL

-----------------------------------------------------------------------------
(* Decisions.                                                              *)

\* A step that records and reports no decision: approvals are opened, warned
\* about and expire.
Undecided ==
    /\ queued' = queued /\ answered' = answered
    /\ \A r \in Runs :
           \/ approval'[r] = approval[r]
           \/ /\ approval[r].status \in {"absent", "pending"}
              /\ approval'[r].status \in {"pending", "expired"}

\* A reviewer's transaction decides a pending approval of the active revision.
Decides(r, k, action) ==
    /\ r \in Runs /\ k \in Keys /\ action \in Action
    /\ approval[r].status = "pending"
    /\ approval[r].revision = active /\ active' = active
    /\ approval'[r].status = StatusOf(action)
    /\ approval'[r].key = k /\ approval'[r].action = action
    /\ approval'[r].revision = approval[r].revision
    /\ \A q \in Runs : q # r => approval'[q] = approval[q]
    /\ queued' = queued \cup {[approval |-> r, key |-> k, action |-> action,
                               revision |-> approval[r].revision]}
    /\ answered' = answered \cup {<<r, k, action>>} \/ answered' = answered

LEMMA CommitDecides ==
    ASSUME TypeInv, NEW s \in Sessions, ResolveCommits(s)
    PROVE  Decides(session[s].run, session[s].key, session[s].action)
<1> DEFINE r == session[s].run
<1>1. /\ r \in Runs /\ session[s].key \in Keys /\ session[s].action \in Action
      /\ approval[r].status = "pending"
      /\ approval \in [Runs -> Approval]
  BY DEF TypeInv, SessionsSound, SessionShape, ResolvingPending, Pending, ResolveCommits,
         ApprovalsSound
<1>2. approval[r] \in Approval
  BY <1>1
<1>3. /\ approval'[r] = [approval[r] EXCEPT !.status = StatusOf(session[s].action),
                              !.key = session[s].key, !.action = session[s].action]
      /\ \A q \in Runs : q # r => approval'[q] = approval[q]
  BY <1>1 DEF ResolveCommits
<1>4. /\ approval'[r].status = StatusOf(session[s].action)
      /\ approval'[r].key = session[s].key /\ approval'[r].action = session[s].action
      /\ approval'[r].revision = approval[r].revision
  BY <1>2, <1>3 DEF Approval
<1> QED BY <1>1, <1>3, <1>4 DEF ResolveCommits, Decides

\* A step decides, replays a decision or leaves the decisions alone.
LEMMA DecisionKinds ==
    ASSUME TypeInv, [Next]_vars
    PROVE  \/ Undecided
           \/ \E r \in Runs, k \in Keys, action \in Action : Replay(r, k, action)
           \/ \E s \in Sessions :
                  Decides(session[s].run, session[s].key, session[s].action)
<1> DEFINE Goal == \/ Undecided
                   \/ \E r \in Runs, k \in Keys, action \in Action : Replay(r, k, action)
                   \/ \E s \in Sessions :
                          Decides(session[s].run, session[s].key, session[s].action)
<1>1. approval \in [Runs -> Approval]
  BY DEF TypeInv, ApprovalsSound
<1>2. ASSUME NEW r \in Runs, EnqueueRun(r) PROVE Goal
  BY <1>2 DEF EnqueueRun, Undecided
<1>3. ASSUME NEW r \in Runs, OpenApproval(r) PROVE Goal
  BY <1>1, <1>3 DEF OpenApproval, Undecided, Absent
<1>4. ASSUME NEW r \in Runs, ExpiryPasses(r) PROVE Goal
  <2>1. approval[r] \in Approval BY <1>1
  <2>2. approval'[r] = [approval[r] EXCEPT !.past = TRUE]
    BY <1>1, <1>4 DEF ExpiryPasses
  <2>3. approval'[r].status = "pending"
    BY <1>4, <2>1, <2>2 DEF ExpiryPasses, Pending, Approval
  <2> QED BY <1>1, <1>4, <2>3 DEF ExpiryPasses, Undecided, Pending
<1>5. ASSUME NEW r \in Runs, MarkExpired(r) PROVE Goal
  <2>1. approval[r] \in Approval BY <1>1
  <2>2. approval'[r] = [approval[r] EXCEPT !.status = "expired"]
    BY <1>1, <1>5 DEF MarkExpired
  <2>3. approval'[r].status = "expired"
    BY <2>1, <2>2 DEF Approval
  <2> QED BY <1>1, <1>5, <2>3 DEF MarkExpired, Undecided, Pending
<1>6. ASSUME NEW rs \in SUBSET Runs, EnqueueExpiring(rs) PROVE Goal
  <2>1. ASSUME NEW r \in rs PROVE approval'[r].status = "pending" /\ Pending(r)
    <3>1. approval[r] \in Approval BY <1>1
    <3>2. approval'[r] = [approval[r] EXCEPT !.warned = TRUE]
      BY <1>6 DEF EnqueueExpiring
    <3> QED BY <1>6, <3>1, <3>2 DEF EnqueueExpiring, Pending, Approval
  <2>2. \A r \in Runs \ rs : approval'[r] = approval[r]
    BY <1>6 DEF EnqueueExpiring
  <2> QED BY <1>6, <2>1, <2>2 DEF EnqueueExpiring, Undecided, Pending
<1>7. ASSUME NEW s \in Sessions, ResolveCommits(s) PROVE Goal
  BY <1>7, CommitDecides
<1>8. CASE UNCHANGED vars
  BY <1>8 DEF vars, Undecided
<1>9. ASSUME NEW s \in Sessions,
             \/ \E v \in Revisions, strand \in BOOLEAN : BeginActivation(s, v, strand)
             \/ \E r \in Runs, k \in Keys, action \in Action : ResolveReads(s, r, k, action)
             \/ GuardPendingApprovals(s) \/ ActivateRevision(s)
             \/ ActivationAborted(s) \/ ResolveRefused(s)
      PROVE  Goal
  BY <1>9 DEF BeginActivation, ResolveReads, GuardPendingApprovals, ActivateRevision,
              ActivationAborted, ResolveRefused, Undecided
<1>10. ASSUME NEW v \in Revisions, RollbackAutomation(v) PROVE Goal
  BY <1>10 DEF RollbackAutomation, Undecided
<1> HIDE DEF Goal
<1>11. Goal
  BY <1>2, <1>3, <1>4, <1>5, <1>6, <1>7, <1>8, <1>9, <1>10
     DEF Next, RunStep, Begin, Settle, Goal
<1> QED BY <1>11 DEF Goal

\* The decisions of one approval.
DecidedOnceFor(r) ==
    /\ {q \in queued : q.approval = r} =
           IF approval[r].status \in Decided
           THEN {[approval |-> r, key |-> approval[r].key,
                  action |-> approval[r].action,
                  revision |-> approval[r].revision]}
           ELSE {}
    /\ \A k \in Keys, action \in Action : <<r, k, action>> \in answered =>
           /\ approval[r].status = StatusOf(action)
           /\ approval[r].key = k

LEMMA StatusFacts ==
    ASSUME NEW action \in Action
    PROVE  StatusOf(action) \in Decided /\ StatusOf(action) # "pending"
BY DEF Action, StatusOf, Decided

\* A step keeps the decisions of an approval, whichever kind it is.
LEMMA DecidedStep ==
    ASSUME TypeInv, [Next]_vars, NEW r \in Runs, DecidedOnceFor(r)
    PROVE  DecidedOnceFor(r)'
<1>1. CASE Undecided
  <2>1. CASE approval'[r] = approval[r]
    BY <1>1, <2>1 DEF Undecided, DecidedOnceFor
  <2>2. CASE /\ approval[r].status \in {"absent", "pending"}
             /\ approval'[r].status \in {"pending", "expired"}
    <3>1. approval[r].status \notin Decided /\ approval'[r].status \notin Decided
      BY <2>2 DEF Decided
    <3>2. \A k \in Keys, action \in Action : <<r, k, action>> \notin answered
      BY <3>1, StatusFacts DEF DecidedOnceFor
    <3> QED BY <1>1, <3>1, <3>2 DEF Undecided, DecidedOnceFor
  <2> QED BY <1>1, <2>1, <2>2 DEF Undecided
<1>2. ASSUME NEW p \in Runs, NEW k \in Keys, NEW action \in Action, Replay(p, k, action)
      PROVE  DecidedOnceFor(r)'
  <2>1. approval' = approval /\ queued' = queued
    BY <1>2 DEF Replay
  <2>2. \A h \in Keys, b \in Action : <<r, h, b>> \in answered' =>
            <<r, h, b>> \in answered \/ (r = p /\ h = k /\ b = action)
    BY <1>2 DEF Replay
  <2>3. approval[p].status = StatusOf(action) /\ approval[p].key = k
    BY <1>2 DEF Replay, TypeInv, ApprovalsSound, ApprovalShape
  <2> QED BY <2>1, <2>2, <2>3 DEF DecidedOnceFor
<1>3. ASSUME NEW p, NEW k, NEW action, Decides(p, k, action) PROVE DecidedOnceFor(r)'
  <2> DEFINE q == [approval |-> p, key |-> k, action |-> action,
                   revision |-> approval[p].revision]
  <2>1. queued' = queued \cup {q} /\ q.approval = p
    BY <1>3 DEF Decides
  <2>2. CASE r # p
    <3>1. approval'[r] = approval[r]
      BY <1>3, <2>2 DEF Decides
    <3>2. {x \in queued' : x.approval = r} = {x \in queued : x.approval = r}
      BY <2>1, <2>2
    <3>3. \A h, b : <<r, h, b>> \in answered' => <<r, h, b>> \in answered
      BY <1>3, <2>2 DEF Decides
    <3> QED BY <3>1, <3>2, <3>3 DEF DecidedOnceFor
  <2>3. CASE r = p
    <3>1. approval[r].status \notin Decided /\ action \in Action
      BY <1>3, <2>3 DEF Decides, Decided
    <3>2. {x \in queued : x.approval = r} = {}
      BY <3>1 DEF DecidedOnceFor
    <3>3. {x \in queued' : x.approval = r} = {q}
      BY <2>1, <2>3, <3>2
    <3>4. approval'[r].status \in Decided /\ approval'[r].status = StatusOf(action)
      BY <1>3, <2>3, StatusFacts DEF Decides
    <3>5. q = [approval |-> r, key |-> approval'[r].key, action |-> approval'[r].action,
               revision |-> approval'[r].revision]
      BY <1>3, <2>3 DEF Decides
    <3>6. \A h \in Keys, b \in Action : <<r, h, b>> \notin answered
      BY <3>1, StatusFacts DEF DecidedOnceFor
    <3>7. \A h \in Keys, b \in Action : <<r, h, b>> \in answered' => h = k /\ b = action
      BY <1>3, <2>3, <3>6 DEF Decides
    <3>8. approval'[r].key = k
      BY <1>3, <2>3 DEF Decides
    <3> HIDE DEF q
    <3> QED BY <3>3, <3>4, <3>5, <3>7, <3>8 DEF DecidedOnceFor
  <2> QED BY <2>2, <2>3
<1> QED BY <1>1, <1>2, <1>3, DecisionKinds

\* An approval is decided once: one action run with the recorded answer, and
\* every client is told that answer (DecidedOnce; ResolveApproval).
THEOREM SingleDecision == Spec => []DecidedOnce
<1>1. Init => DecidedOnce
  <2> SUFFICES ASSUME Init PROVE DecidedOnce OBVIOUS
  <2>1. \A r \in Runs : approval[r].status \notin Decided
    BY DEF Init, Absent, Decided
  <2>2. queued = {} /\ answered = {}
    BY DEF Init
  <2> QED BY <2>1, <2>2 DEF DecidedOnce
<1>2. TypeInv /\ DecidedOnce /\ [Next]_vars => DecidedOnce'
  <2> SUFFICES ASSUME TypeInv, DecidedOnce, [Next]_vars PROVE DecidedOnce' OBVIOUS
  <2>1. \A r \in Runs : DecidedOnceFor(r)
    BY DEF DecidedOnce, DecidedOnceFor
  <2>2. \A r \in Runs : DecidedOnceFor(r)'
    BY <2>1, DecidedStep
  <2> QED BY <2>2 DEF DecidedOnce, DecidedOnceFor
<1> QED BY <1>1, <1>2, InitType, TypeStep, PTL DEF Spec

\* What DecisionFinal says of one approval in one step.
FinalFor(r) ==
    /\ approval[r].status \in Decided \cup {"expired"} => approval'[r] = approval[r]
    /\ approval'[r].status \in Decided \ {approval[r].status} =>
           approval[r].revision = active /\ active' = active

\* A decided or expired approval never changes, and decisions are recorded for
\* the active revision only (DecisionFinal; ResolveApproval).
THEOREM Finality == Spec => DecisionFinal
<1>1. TypeInv /\ [Next]_vars => \A r \in Runs : FinalFor(r)
  <2> SUFFICES ASSUME TypeInv, [Next]_vars, NEW r \in Runs PROVE FinalFor(r) OBVIOUS
  <2>1. CASE Undecided
    BY <2>1 DEF Undecided, FinalFor, Decided
  <2>2. ASSUME NEW p \in Runs, NEW k \in Keys, NEW action \in Action, Replay(p, k, action)
        PROVE  FinalFor(r)
    BY <2>2 DEF Replay, FinalFor
  <2>3. ASSUME NEW p, NEW k, NEW action, Decides(p, k, action) PROVE FinalFor(r)
    BY <2>3 DEF Decides, FinalFor, Decided
  <2> QED BY <2>1, <2>2, <2>3, DecisionKinds
<1>2. TypeInv /\ [Next]_vars =>
          [\A r \in Runs :
              /\ approval[r].status \in Decided \cup {"expired"} => approval'[r] = approval[r]
              /\ approval'[r].status \in Decided \ {approval[r].status} =>
                     approval[r].revision = active /\ active' = active]_vars
  BY <1>1 DEF FinalFor
<1> QED BY <1>2, InitType, TypeStep, PTL DEF Spec, DecisionFinal

-----------------------------------------------------------------------------
(* The guard in front of an activation.                                    *)

\* An activation that waits for its guard took for expired what is.
PastSound ==
    \A s \in Sessions : session[s].pc = "activating" =>
        \A r \in session[s].past : approval[r].past

\* While an activation without override holds the automation row, no approval of
\* the revision it replaces can be answered.
GuardedClear ==
    \A s \in Sessions :
        (session[s].locked /\ ~session[s].strand /\ session[s].revision # active) =>
            \A r \in Runs : ~Answerable(r)

GuardInv == GuardHolds /\ PastSound /\ GuardedClear

\* Steps that activate nothing and pass no guard.
LEMMA GuardKept ==
    ASSUME TypeInv, GuardInv, active' = active, stranded' = stranded,
           \A r \in Runs : approval[r].past => approval'[r].past,
           \A t \in Sessions :
               \/ session'[t] = session[t]
               \/ /\ ~session'[t].locked
                  /\ session'[t].pc = "activating" =>
                         \A r \in session'[t].past : approval'[r].past,
           AutomationLocked =>
               \A r \in Runs : /\ approval'[r].status = "pending"
                               /\ ~approval'[r].past
                               /\ approval'[r].revision = active
                               => Answerable(r)
    PROVE  GuardInv'
<1>1. GuardHolds' BY DEF GuardInv, GuardHolds
<1>2. PastSound'
  BY DEF GuardInv, PastSound, TypeInv, SessionsSound, Session
<1>3. GuardedClear'
  BY DEF GuardInv, GuardedClear, Answerable, Pending, AutomationLocked
<1> QED BY <1>1, <1>2, <1>3 DEF GuardInv

LEMMA InitGuard == Init => GuardInv
BY DEF Init, GuardInv, GuardHolds, PastSound, GuardedClear, Idle

\* Every step keeps the guard's invariant, action by action.
LEMMA GuardStep == TypeInv /\ GuardInv /\ [Next]_vars => GuardInv'
<1> SUFFICES ASSUME TypeInv, GuardInv, [Next]_vars PROVE GuardInv' OBVIOUS
<1>0. /\ approval \in [Runs -> Approval] /\ session \in [Sessions -> Session]
      /\ \A r \in Runs : approval[r] \in Approval /\ ApprovalShape(approval[r])
      /\ \A s \in Sessions : session[s] \in Session /\ SessionShape(session[s])
  BY DEF TypeInv, ApprovalsSound, SessionsSound
<1>1. ASSUME NEW r \in Runs, EnqueueRun(r) PROVE GuardInv'
  BY <1>1, GuardKept DEF EnqueueRun, Answerable, Pending
<1>2. ASSUME NEW r \in Runs, OpenApproval(r) PROVE GuardInv'
  <2>1. \A q \in Runs : approval[q].past => approval'[q].past
    BY <1>0, <1>2 DEF OpenApproval, ApprovalShape
  <2> QED BY <1>2, <2>1, GuardKept DEF OpenApproval
<1>3. ASSUME NEW r \in Runs, ExpiryPasses(r) PROVE GuardInv'
  <2>1. approval'[r] = [approval[r] EXCEPT !.past = TRUE]
    BY <1>0, <1>3 DEF ExpiryPasses
  <2>2. approval'[r].past
    BY <1>0, <2>1 DEF Approval
  <2>3. \A q \in Runs : q # r => approval'[q] = approval[q]
    BY <1>0, <1>3 DEF ExpiryPasses
  <2> QED BY <1>3, <2>2, <2>3, GuardKept DEF ExpiryPasses, Answerable, Pending
<1>4. ASSUME NEW r \in Runs, MarkExpired(r) PROVE GuardInv'
  <2>1. approval'[r] = [approval[r] EXCEPT !.status = "expired"]
    BY <1>0, <1>4 DEF MarkExpired
  <2>2. approval'[r].status # "pending" /\ approval'[r].past = approval[r].past
    BY <1>0, <2>1 DEF Approval
  <2>3. \A q \in Runs : q # r => approval'[q] = approval[q]
    BY <1>0, <1>4 DEF MarkExpired
  <2> QED BY <1>4, <2>2, <2>3, GuardKept DEF MarkExpired, Answerable, Pending
<1>5. ASSUME NEW r \in Runs, NEW k \in Keys, NEW action \in Action, Replay(r, k, action)
      PROVE  GuardInv'
  BY <1>5, GuardKept DEF Replay, Answerable, Pending
<1>6. ASSUME NEW s \in Sessions, NEW v \in Revisions, NEW strand \in BOOLEAN,
             BeginActivation(s, v, strand)
      PROVE  GuardInv'
  <2>1. /\ ~session'[s].locked
        /\ session'[s].past = {r \in Runs : approval[r].past}
        /\ \A t \in Sessions : t # s => session'[t] = session[t]
        /\ approval' = approval
    BY <1>0, <1>6 DEF BeginActivation, Idle
  <2> QED BY <1>6, <2>1, GuardKept DEF BeginActivation, Answerable, Pending
<1>7. ASSUME NEW s \in Sessions, NEW r \in Runs, NEW k \in Keys, NEW action \in Action,
             ResolveReads(s, r, k, action)
      PROVE  GuardInv'
  <2>1. /\ ~session'[s].locked /\ session'[s].pc # "activating"
        /\ \A t \in Sessions : t # s => session'[t] = session[t]
        /\ approval' = approval
    BY <1>0, <1>7 DEF ResolveReads, Idle
  <2> QED BY <1>7, <2>1, GuardKept DEF ResolveReads, Answerable, Pending
<1>8. ASSUME NEW s \in Sessions, Ends(s)
      PROVE  /\ ~session'[s].locked /\ session'[s].pc # "activating"
             /\ \A t \in Sessions : t # s => session'[t] = session[t]
  BY <1>0, <1>8 DEF Ends, Idle
<1>9. ASSUME NEW s \in Sessions, ActivationAborted(s) \/ ResolveRefused(s) PROVE GuardInv'
  <2>1. Ends(s) /\ approval' = approval /\ active' = active /\ stranded' = stranded
    BY <1>9 DEF ActivationAborted, ResolveRefused
  <2> QED BY <1>8, <2>1, GuardKept DEF Answerable, Pending
<1>10. ASSUME NEW s \in Sessions, ResolveCommits(s) PROVE GuardInv'
  <2>1. /\ Ends(s) /\ active' = active /\ stranded' = stranded /\ ~AutomationLocked
        /\ session[s].run \in Runs
    BY <1>0, <1>10 DEF ResolveCommits, SessionShape
  <2>2. \A q \in Runs : approval[q].past => approval'[q].past
    BY <1>0, <1>10 DEF ResolveCommits, Approval
  <2> QED BY <1>8, <2>1, <2>2, GuardKept
<1>11. ASSUME NEW rs \in SUBSET Runs, EnqueueExpiring(rs) PROVE GuardInv'
  <2>1. \A q \in Runs : /\ approval'[q].past = approval[q].past
                        /\ approval'[q].status = approval[q].status
                        /\ approval'[q].revision = approval[q].revision
    BY <1>0, <1>11 DEF EnqueueExpiring, Approval
  <2> QED BY <1>11, <2>1, GuardKept DEF EnqueueExpiring, Answerable, Pending
<1>12. ASSUME NEW s \in Sessions, GuardPendingApprovals(s) PROVE GuardInv'
  <2>1. /\ approval' = approval /\ active' = active /\ stranded' = stranded
        /\ session[s].pc = "activating" /\ ~AutomationLocked
    BY <1>12 DEF GuardPendingApprovals
  <2>2. CASE Ends(s)
    BY <1>8, <2>1, <2>2, GuardKept DEF Answerable, Pending
  <2>3. CASE /\ GuardPasses(s)
             /\ session' = [session EXCEPT ![s].pc = "guarded",
                                           ![s].locked = active # NoRevision]
    <3>1. /\ session'[s].pc = "guarded" /\ session'[s].locked = (active # NoRevision)
          /\ session'[s].strand = session[s].strand
          /\ session'[s].revision = session[s].revision
          /\ \A t \in Sessions : t # s => session'[t] = session[t]
      BY <1>0, <2>3 DEF Session
    <3>2. GuardHolds' /\ PastSound'
      BY <2>1, <3>1 DEF GuardInv, GuardHolds, PastSound
    <3>3. (active # NoRevision /\ ~session[s].strand /\ session[s].revision # active) =>
              \A r \in Runs : ~Answerable(r)
      <4> SUFFICES ASSUME active # NoRevision, ~session[s].strand,
                          session[s].revision # active, NEW r \in Runs, Answerable(r)
                   PROVE  FALSE
        OBVIOUS
      <4>1. r \in Blocking(s)
        BY <2>1 DEF Blocking, Answerable, GuardInv, PastSound
      <4> QED BY <2>3, <4>1 DEF GuardPasses
    <3>4. GuardedClear'
      BY <2>1, <3>1, <3>3 DEF GuardedClear, Answerable, Pending, AutomationLocked
    <3> QED BY <3>2, <3>4 DEF GuardInv
  <2> QED BY <1>12, <2>2, <2>3 DEF GuardPendingApprovals
<1>13. ASSUME NEW s \in Sessions, ActivateRevision(s) PROVE GuardInv'
  <2>1. approval' = approval /\ Ends(s)
    BY <1>13 DEF ActivateRevision
  <2>2. \A t \in Sessions : ~session'[t].locked
    BY <1>13, <2>1, <1>8 DEF ActivateRevision, AutomationLocked, TypeInv, SessionsSound
  <2>3. PastSound'
    BY <1>8, <2>1 DEF GuardInv, PastSound
  <2>4. GuardHolds'
    <3>1. ASSUME NEW r \in Runs, <<r, "locked">> \in stranded' PROVE FALSE
      <4> DEFINE g == IF session[s].strand THEN "decision"
                      ELSE IF session[s].locked THEN "locked" ELSE "unlocked"
      <4>1. Activates(session[s].revision, g) /\ <<r, "locked">> \notin stranded
        BY <1>13 DEF ActivateRevision, GuardInv, GuardHolds
      <4>2. g = "locked" => session[s].locked /\ ~session[s].strand
        OBVIOUS
      <4> HIDE DEF g
      <4>3. g = "locked" /\ session[s].revision # active /\ Answerable(r)
        BY <3>1, <4>1 DEF Activates
      <4> QED BY <4>2, <4>3 DEF GuardInv, GuardedClear
    <3> QED BY <3>1 DEF GuardHolds
  <2>5. GuardedClear'
    BY <2>2 DEF GuardedClear
  <2> QED BY <2>3, <2>4, <2>5 DEF GuardInv
<1>14. ASSUME NEW v \in Revisions, RollbackAutomation(v) PROVE GuardInv'
  <2>1. /\ approval' = approval /\ session' = session /\ stranded' = stranded
        /\ \A t \in Sessions : ~session[t].locked
    BY <1>14 DEF RollbackAutomation, Activates, AutomationLocked
  <2> QED BY <2>1 DEF GuardInv, GuardHolds, PastSound, GuardedClear
<1>15. CASE UNCHANGED vars
  BY <1>15, GuardKept DEF vars, Answerable, Pending
<1> QED
  BY <1>1, <1>2, <1>3, <1>4, <1>5, <1>6, <1>7, <1>9, <1>10, <1>11, <1>12, <1>13, <1>14,
     <1>15 DEF Next, RunStep, Begin, Settle

\* No activation that took the automation's lock strands an answerable approval
\* without the operator's override (GuardHolds; guardPendingApprovals).
THEOREM GuardSound == Spec => []GuardHolds
<1>1. GuardInv => GuardHolds
  BY DEF GuardInv
<1> QED BY <1>1, InitType, TypeStep, InitGuard, GuardStep, PTL DEF Spec
=============================================================================
