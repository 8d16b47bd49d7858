---------------------------- MODULE StorageProofs ----------------------------
(***************************************************************************)
(* Proofs about Storage for any contents, histories, secrets, policies,    *)
(* deployments, runs and appliers.                                         *)
(***************************************************************************)
EXTENDS Storage, FiniteSetTheorems, TLAPS

Job == [pc : {"absent", "retrying"} \cup Under \cup Ended,
        content : Contents \cup {NoContent}, of : Jobs \cup {0}, source : Jobs \cup {0},
        made : Nat, path : BOOLEAN, staged : BOOLEAN]

Outcomes == {"none", "planned", "deleted", "skipped", "failed"}

RetentionPlan == [status : {"none", "planned", "applying", "applied"}, keep : Nat,
                  items : [Items -> Outcomes]]

Applier == [pc : {"idle", "applying", "detaching", "removing", "recording"},
            todo : SUBSET Items, eligible : SUBSET Items, item : Items \cup {NoContent},
            free : BOOLEAN, rows : SUBSET Jobs, refs : Jobs \cup {Earlier, Unbound}]

-----------------------------------------------------------------------------
(* The inductive invariant.                                                *)

Types ==
    /\ disk \subseteq Items /\ old \subseteq Items /\ overlapped \subseteq Items
    /\ published \in Seq(Contents) /\ path \subseteq Contents /\ active \in Contents
    /\ bound \in [Contents -> Jobs \cup {Earlier, Unbound}]
    /\ secrets \subseteq Secrets /\ deleting \in secrets \cup {NoSecret}
    /\ live \subseteq Contents /\ ingest \in Contents \cup {NoContent}
    /\ job \in [Jobs -> Job]
    /\ plan \in RetentionPlan
    /\ applier \in [Appliers -> Applier]
    /\ faults \in 0 .. MaxFaults

HasRow(j) == job[j].pc \in Under \cup Ended

\* A row knows its content and the upload it is built from, whose row is there;
\* a deployment that is not over has its source_path.
JobInv(j) ==
    /\ HasRow(j) => /\ job[j].content \in Contents
                    /\ job[j].source \in Jobs /\ HasRow(job[j].source)
    /\ job[j].pc = "retrying" => job[j].of \in Jobs
    /\ job[j].pc \in Under => job[j].path

\* The secrets of every revision with references are there, and a DELETE that
\* has counted none stays right until it commits.
SecretsInv ==
    /\ path \subseteq {c \in Contents : bound[c] # Unbound}
    /\ \A c \in Contents : bound[c] # Unbound => Needs[c] \subseteq secrets \ {deleting}
    /\ \A j \in Jobs :
          job[j].pc = "referencing" => Needs[job[j].content] \subseteq secrets \ {deleting}

\* Nothing is planned that an applier does not have ahead of it.
ApplierInv(p) ==
    /\ applier[p].pc # "idle" =>
          /\ plan.status # "none"
          /\ \A i \in Items : plan.items[i] = "planned" => i \in applier[p].todo
          /\ \A i \in applier[p].todo : plan.items[i] # "none"
    /\ applier[p].pc \in {"detaching", "removing", "recording"} =>
          applier[p].item \in applier[p].todo
    /\ applier[p].pc = "detaching" /\ applier[p].free =>
          \A j \in applier[p].rows : job[j].pc \in Ended

PlanInv ==
    /\ \A o \in Jobs : plan.items[Source(o)] # "none" => HasRow(o)
    /\ plan.status = "applied" => \A i \in Items : plan.items[i] # "planned"
    /\ \A p \in Appliers : ApplierInv(p)

Detaches(p, i) == applier[p].pc = "detaching" /\ applier[p].free /\ applier[p].item = i
Removes(p, i) == applier[p].pc = "removing" /\ applier[p].item = i

\* While an applier works on a source that no retry has overlapped, the rows it
\* saw are all there are, and once it has written there are none.
SourceInv(o) ==
    /\ RowsOf(o) # {} => Source(o) \in disk \cup overlapped \/ o \in cut
    /\ Source(o) \notin overlapped =>
          \A p \in Appliers : /\ Detaches(p, Source(o)) => RowsOf(o) \subseteq applier[p].rows
                              /\ Removes(p, Source(o)) => RowsOf(o) = {}

\* A deployment has found or built the artifact and goes on to activate it.
Uses(c) ==
    \E j \in Jobs : job[j].content = c /\ job[j].pc \in {"built", "activating", "referencing"}

\* An artifact that nothing overlapped: what is active, selected or pinned has its
\* path, what has a path or is about to get one is on disk, and an applier that
\* has decided on it is alone with it.
ArtifactInv(c) ==
    Artifact(c) \notin overlapped =>
        /\ c \in {active, ingest} \cup live => c \in path
        /\ c \in path \/ Uses(c) => Artifact(c) \in disk
        /\ \A p \in Appliers :
              /\ Detaches(p, Artifact(c)) \/ Removes(p, Artifact(c)) =>
                    c \notin {active, ingest} \cup live /\ ~Uses(c)
              /\ Removes(p, Artifact(c)) => c \notin path

Inv ==
    /\ Types
    /\ \A j \in Jobs : JobInv(j)
    /\ SecretsInv
    /\ PlanInv
    /\ \A o \in Jobs : SourceInv(o)
    /\ \A c \in Contents : ArtifactInv(c)

-----------------------------------------------------------------------------
(* Items and rows.                                                         *)

LEMMA ItemFacts ==
    /\ \A c \in Contents : /\ Artifact(c) \in Items
                           /\ Artifact(c)[1] = "artifact" /\ Artifact(c)[2] = c
    /\ \A o \in Jobs : /\ Source(o) \in Items
                       /\ Source(o)[1] = "source" /\ Source(o)[2] = o
    /\ \A c \in Contents, o \in Jobs : Artifact(c) # Source(o)
    /\ \A c, d \in Contents : Artifact(c) = Artifact(d) => c = d
    /\ \A o, x \in Jobs : Source(o) = Source(x) => o = x
BY DEF Items, Artifact, Source

LEMMA ItemCases ==
    ASSUME NEW i \in Items
    PROVE  \/ \E c \in Contents : i = Artifact(c)
           \/ \E o \in Jobs : i = Source(o)
BY DEF Items

LEMMA JobsFacts == Jobs \subseteq Nat /\ 0 \notin Jobs /\ IsFiniteSet(Jobs)
<1>1. MaxJobs \in Nat
  BY StorageAssumption
<1> QED BY <1>1, FS_Interval DEF Jobs

LEMMA RowsCounted == Cardinality(Rows) + 1 \in Nat
<1>1. Rows \subseteq Jobs
  BY DEF Rows
<1>2. IsFiniteSet(Rows)
  BY <1>1, JobsFacts, FS_Subset
<1>3. Cardinality(Rows) \in Nat
  BY <1>2, FS_CardinalityType
<1> QED BY <1>3

LEMMA BlankFacts ==
    /\ NoJob \in Job /\ NoJob.pc = "absent"
    /\ NoApplier \in Applier /\ NoApplier.pc = "idle"
    /\ NoPlan \in RetentionPlan /\ NoPlan.status = "none"
    /\ \A i \in Items : NoPlan.items[i] = "none"
<1>1. NoJob \in Job /\ NoJob.pc = "absent"
  BY DEF NoJob, Job
<1>2. NoApplier \in Applier /\ NoApplier.pc = "idle"
  BY DEF NoApplier, Applier
<1>3. [i \in Items |-> "none"] \in [Items -> Outcomes]
  BY DEF Outcomes
<1>4. NoPlan \in RetentionPlan /\ NoPlan.status = "none" /\ NoPlan.items = [i \in Items |-> "none"]
  BY <1>3 DEF NoPlan, RetentionPlan
<1> QED BY <1>1, <1>2, <1>4

-----------------------------------------------------------------------------
(* What a step may do without disturbing a part of the invariant.          *)

\* No applier begins to detach or to remove anything.
Calm ==
    \A q \in Appliers, i \in Items :
        /\ Detaches(q, i)' => Detaches(q, i) /\ applier'[q].rows = applier[q].rows
        /\ Removes(q, i)' => Removes(q, i)

LEMMA CalmKept == ASSUME UNCHANGED applier PROVE Calm
BY DEF Calm, Detaches, Removes

LEMMA SourcesKept ==
    ASSUME \A o \in Jobs : SourceInv(o), Calm,
           \A o \in Jobs : RowsOf(o)' \subseteq RowsOf(o),
           disk \subseteq disk', cut \subseteq cut', overlapped \subseteq overlapped'
    PROVE  \A o \in Jobs : SourceInv(o)'
<1> SUFFICES ASSUME NEW o \in Jobs PROVE SourceInv(o)'
  OBVIOUS
<1>1. SourceInv(o) /\ RowsOf(o)' \subseteq RowsOf(o) /\ Source(o) \in Items
  BY ItemFacts
<1>2. \A p \in Appliers : /\ Detaches(p, Source(o))' => /\ Detaches(p, Source(o))
                                                        /\ applier'[p].rows = applier[p].rows
                          /\ Removes(p, Source(o))' => Removes(p, Source(o))
  BY <1>1 DEF Calm, Source
<1> QED BY <1>1, <1>2 DEF SourceInv, Source

LEMMA ArtifactsKept ==
    ASSUME \A c \in Contents : ArtifactInv(c), Calm,
           UNCHANGED <<active, ingest, path>>, live' \subseteq live,
           disk \subseteq disk', overlapped \subseteq overlapped',
           \A c \in Contents : Uses(c)' => Uses(c)
    PROVE  \A c \in Contents : ArtifactInv(c)'
<1> SUFFICES ASSUME NEW c \in Contents PROVE ArtifactInv(c)'
  OBVIOUS
<1>1. ArtifactInv(c) /\ (Uses(c)' => Uses(c)) /\ Artifact(c) \in Items
  BY ItemFacts
<1>2. \A p \in Appliers : /\ Detaches(p, Artifact(c))' => Detaches(p, Artifact(c))
                          /\ Removes(p, Artifact(c))' => Removes(p, Artifact(c))
  BY <1>1 DEF Calm, Artifact
<1> QED BY <1>1, <1>2 DEF ArtifactInv, Artifact

LEMMA SecretsKept ==
    ASSUME SecretsInv, UNCHANGED <<path, bound, secrets, deleting>>,
           \A j \in Jobs : job'[j].pc = "referencing" =>
                              job[j].pc = "referencing" /\ job'[j].content = job[j].content
    PROVE  SecretsInv'
BY DEF SecretsInv

LEMMA PlanKept ==
    ASSUME Types, PlanInv, UNCHANGED <<plan, applier>>,
           \A j \in Jobs : HasRow(j) => HasRow(j)',
           \A j \in Jobs : job[j].pc \in Ended => job'[j].pc \in Ended
    PROVE  PlanInv'
<1>1. ASSUME NEW p \in Appliers PROVE ApplierInv(p)'
  <2>1. ApplierInv(p) /\ applier[p].rows \subseteq Jobs
    BY DEF PlanInv, Types, Applier
  <2> QED BY <2>1 DEF ApplierInv
<1>2. \A o \in Jobs : plan'.items[Source(o)] # "none" => HasRow(o)'
  BY DEF PlanInv
<1>3. plan'.status = "applied" => \A i \in Items : plan'.items[i] # "planned"
  BY DEF PlanInv
<1> QED BY <1>1, <1>2, <1>3 DEF PlanInv, Source

-----------------------------------------------------------------------------
(* Deployments.                                                            *)

Using == {"built", "activating", "referencing"}

LEMMA JobSet ==
    ASSUME Types, NEW j \in Jobs, NEW new \in Job, job' = [job EXCEPT ![j] = new]
    PROVE  /\ job' \in [Jobs -> Job] /\ job'[j] = new
           /\ \A k \in Jobs : k # j => job'[k] = job[k]
BY DEF Types

\* A deployment under way goes on or ends.
LEMMA MoveFacts ==
    ASSUME Inv, NEW j \in Jobs, job[j].pc \in Under,
           NEW pc \in Under \cup Ended, NEW staged \in BOOLEAN,
           job' = [job EXCEPT ![j] = [job[j] EXCEPT !.pc = pc, !.staged = staged]]
    PROVE  /\ job' \in [Jobs -> Job]
           /\ job'[j].pc = pc /\ job'[j].content = job[j].content
           /\ \A k \in Jobs : k # j => job'[k] = job[k]
           /\ \A k \in Jobs : HasRow(k)' <=> HasRow(k)
           /\ \A k \in Jobs : job[k].pc \in Ended => job'[k].pc \in Ended
           /\ \A k \in Jobs : JobInv(k)'
           /\ \A o \in Jobs : RowsOf(o)' = RowsOf(o)
<1> DEFINE new == [job[j] EXCEPT !.pc = pc, !.staged = staged]
<1>0. job[j] \in Job
  BY DEF Inv, Types
<1>1. /\ new \in Job /\ new.pc = pc /\ new.content = job[j].content /\ new.of = job[j].of
      /\ new.source = job[j].source /\ new.path = job[j].path
  BY <1>0 DEF Job
<1>2. job' = [job EXCEPT ![j] = new]
  OBVIOUS
<1> HIDE DEF new
<1>3. /\ job' \in [Jobs -> Job] /\ job'[j] = new
      /\ \A k \in Jobs : k # j => job'[k] = job[k]
  BY <1>1, <1>2, JobSet DEF Inv
<1>4. Under \cap Ended = {} /\ "retrying" \notin Under \cup Ended
  BY DEF Under, Ended
<1>5. \A k \in Jobs : HasRow(k)' <=> HasRow(k)
  BY <1>1, <1>3 DEF HasRow
<1>6. \A k \in Jobs : job[k].pc \in Ended => job'[k].pc \in Ended
  BY <1>1, <1>3, <1>4
<1>7. ASSUME NEW k \in Jobs PROVE JobInv(k)'
  <2>1. JobInv(k)
    BY DEF Inv
  <2>2. CASE k # j
    BY <1>3, <1>5, <2>1, <2>2 DEF JobInv
  <2>3. CASE k = j
    <3>1. HasRow(j) /\ job[j].content \in Contents /\ job[j].source \in Jobs /\ job[j].path
          /\ HasRow(job[j].source)
      BY <2>1, <2>3 DEF JobInv, HasRow
    <3> PICK o \in Jobs : o = job[j].source
      BY <3>1
    <3>2. HasRow(o)'
      BY <1>5, <3>1
    <3>3. HasRow(job[j].source)'
      BY <1>1, <1>3, <3>2 DEF HasRow
    <3> QED BY <1>1, <1>3, <1>4, <2>3, <3>1, <3>3 DEF JobInv
  <2> QED BY <2>2, <2>3
<1>8. ASSUME NEW o \in Jobs PROVE RowsOf(o)' = RowsOf(o)
  BY <1>1, <1>3 DEF RowsOf
<1> QED BY <1>1, <1>3, <1>5, <1>6, <1>7, <1>8

LEMMA FaultCounted ==
    ASSUME Types, faults < MaxFaults, faults' = faults + 1
    PROVE  faults' \in 0 .. MaxFaults
BY StorageAssumption DEF Types

\* A step of a deployment that has no artifact in use which it had not before.
LEMMA MoveStep ==
    ASSUME Inv, NEW j \in Jobs, job[j].pc \in Under,
           NEW pc \in Under \cup Ended, NEW staged \in BOOLEAN,
           job' = [job EXCEPT ![j] = [job[j] EXCEPT !.pc = pc, !.staged = staged]],
           UNCHANGED <<data, secrets, deleting, retention, cut, overlapped>>,
           faults' \in 0 .. MaxFaults,
           pc \in Using => job[j].pc \in Using,
           pc = "referencing" => Needs[job[j].content] \subseteq secrets \ {deleting}
    PROVE  Inv'
<1>0. /\ UNCHANGED <<disk, old, published, path, active, bound, live, ingest>>
      /\ UNCHANGED <<secrets, deleting, plan, applier, cut, overlapped>>
  BY DEF data, retention
<1>1. /\ job' \in [Jobs -> Job]
      /\ job'[j].pc = pc /\ job'[j].content = job[j].content
      /\ \A k \in Jobs : k # j => job'[k] = job[k]
      /\ \A k \in Jobs : HasRow(k)' <=> HasRow(k)
      /\ \A k \in Jobs : job[k].pc \in Ended => job'[k].pc \in Ended
      /\ \A k \in Jobs : JobInv(k)'
      /\ \A o \in Jobs : RowsOf(o)' = RowsOf(o)
  BY MoveFacts
<1>2. Types'
  BY <1>0, <1>1 DEF Inv, Types
<1>3. SecretsInv'
  BY <1>0, <1>1 DEF Inv, SecretsInv
<1>4. PlanInv'
  BY <1>0, <1>1, PlanKept DEF Inv
<1>5. Calm
  BY <1>0, CalmKept
<1>6. \A o \in Jobs : SourceInv(o)'
  BY <1>0, <1>1, <1>5, SourcesKept DEF Inv
<1>7. \A c \in Contents : Uses(c)' => Uses(c)
  BY <1>1 DEF Uses, Using
<1>8. \A c \in Contents : ArtifactInv(c)'
  BY <1>0, <1>5, <1>7, ArtifactsKept DEF Inv
<1> QED BY <1>1, <1>2, <1>3, <1>4, <1>6, <1>8 DEF Inv

LEMMA DeployStep ==
    ASSUME Inv, NEW j \in Jobs,
           \/ Prepare(j) \/ SetDeploymentStage(j) \/ ActivateReference(j) \/ Fail(j)
           \/ Reacquire(j)
    PROVE  Inv'
<1>0. /\ job \in [Jobs -> Job] /\ job[j] \in Job /\ job[j].staged \in BOOLEAN
      /\ faults \in 0 .. MaxFaults
      /\ job[j] = [job[j] EXCEPT !.staged = job[j].staged]
  BY DEF Inv, Types, Job
<1>1. UNCHANGED <<data, secrets, deleting, retention, cut, overlapped>>
  BY DEF Prepare, SetDeploymentStage, ActivateReference, Fail, Reacquire
<1>2. CASE Prepare(j)
  <2> DEFINE staged == job[j].staged \/ job[j].content \in Promoted
  <2>1. job' = [job EXCEPT ![j] = [job[j] EXCEPT !.pc = "prepared", !.staged = staged]]
    BY <1>0, <1>2 DEF Prepare
  <2>2. staged \in BOOLEAN
    OBVIOUS
  <2>3. /\ job[j].pc \in Under /\ "prepared" \in Under \cup Ended /\ "prepared" \notin Using
        /\ faults' \in 0 .. MaxFaults
    BY <1>0, <1>2 DEF Prepare, Under, Using
  <2> HIDE DEF staged
  <2> QED BY <1>1, <2>1, <2>2, <2>3, MoveStep
<1>3. CASE SetDeploymentStage(j)
  <2>1. job' = [job EXCEPT ![j] = [job[j] EXCEPT !.pc = "activating", !.staged = TRUE]]
    BY <1>0, <1>3 DEF SetDeploymentStage
  <2>2. /\ job[j].pc \in Under /\ "activating" \in Under \cup Ended /\ job[j].pc \in Using
        /\ faults' \in 0 .. MaxFaults
    BY <1>0, <1>3 DEF SetDeploymentStage, Under, Using
  <2> QED BY <1>1, <2>1, <2>2, MoveStep
<1>4. CASE ActivateReference(j)
  <2>1. job' = [job EXCEPT ![j] = [job[j] EXCEPT !.pc = "referencing", !.staged = job[j].staged]]
    BY <1>0, <1>4 DEF ActivateReference
  <2>2. /\ job[j].pc \in Under /\ "referencing" \in Under \cup Ended /\ job[j].pc \in Using
        /\ faults' \in 0 .. MaxFaults
        /\ Needs[job[j].content] \subseteq secrets \ {deleting}
    BY <1>0, <1>4 DEF ActivateReference, Under, Using
  <2> QED BY <1>0, <1>1, <2>1, <2>2, MoveStep
<1>5. CASE Fail(j)
  <2>1. job' = [job EXCEPT ![j] = [job[j] EXCEPT !.pc = "failed", !.staged = job[j].staged]]
    BY <1>0, <1>5 DEF Fail
  <2>2. /\ job[j].pc \in Under /\ "failed" \in Under \cup Ended /\ "failed" \notin Using
        /\ faults' \in 0 .. MaxFaults
    BY <1>0, <1>5 DEF Fail, Ended, Using
  <2> QED BY <1>0, <1>1, <2>1, <2>2, MoveStep
<1>6. CASE Reacquire(j)
  <2>1. job' = [job EXCEPT ![j] = [job[j] EXCEPT !.pc = "queued", !.staged = job[j].staged]]
    BY <1>0, <1>6 DEF Reacquire
  <2>2. job[j].pc \in Under /\ "queued" \in Under \cup Ended /\ "queued" \notin Using
    BY <1>6 DEF Reacquire, Under, Using
  <2>3. faults' \in 0 .. MaxFaults
    BY <1>6, FaultCounted DEF Reacquire, Inv
  <2> QED BY <1>0, <1>1, <2>1, <2>2, <2>3, MoveStep
<1> QED BY <1>2, <1>3, <1>4, <1>5, <1>6

LEMMA OverlapsFacts ==
    ASSUME Inv, NEW i \in Items
    PROVE  /\ overlapped \subseteq overlapped \cup Overlaps(i)
           /\ overlapped \cup Overlaps(i) \subseteq Items
           /\ i \notin overlapped \cup Overlaps(i) =>
                  \A p \in Appliers : ~Detaches(p, i) /\ ~Removes(p, i)
           /\ \A k \in Items : k # i => (k \in overlapped \cup Overlaps(i) <=> k \in overlapped)
BY DEF Inv, Types, Overlaps, Detaching, Detaches, Removes

LEMMA BuildStep ==
    ASSUME Inv, NEW j \in Jobs, BuildArtifact(j)
    PROVE  Inv'
<1>0. /\ UNCHANGED <<old, published, path, active, bound, secrets, deleting, live, ingest>>
      /\ UNCHANGED <<plan, applier, faults, cut>>
      /\ job[j].pc = "prepared"
  BY DEF BuildArtifact, retention
<1>1. /\ job[j] \in Job /\ job[j].staged \in BOOLEAN /\ job \in [Jobs -> Job]
      /\ job[j].pc \in Under /\ "built" \in Under \cup Ended
  BY <1>0 DEF Inv, Types, Job, Under
<1> PICK c \in Contents : c = job[j].content
  BY <1>1 DEF Inv, JobInv, HasRow
<1>2. /\ disk' = disk \cup {Artifact(c)} /\ overlapped' = overlapped \cup Overlaps(Artifact(c))
      /\ Artifact(c) \in Items
  BY ItemFacts DEF BuildArtifact
<1>3. job' = [job EXCEPT ![j] = [job[j] EXCEPT !.pc = "built", !.staged = job[j].staged]]
  BY <1>1 DEF BuildArtifact, Job
<1>4. /\ job' \in [Jobs -> Job]
      /\ job'[j].pc = "built" /\ job'[j].content = c
      /\ \A k \in Jobs : k # j => job'[k] = job[k]
      /\ \A k \in Jobs : HasRow(k)' <=> HasRow(k)
      /\ \A k \in Jobs : job[k].pc \in Ended => job'[k].pc \in Ended
      /\ \A k \in Jobs : JobInv(k)'
      /\ \A o \in Jobs : RowsOf(o)' = RowsOf(o)
  BY <1>1, <1>3, MoveFacts
<1>5. /\ overlapped \subseteq overlapped' /\ overlapped' \subseteq Items
      /\ Artifact(c) \notin overlapped' =>
            \A p \in Appliers : ~Detaches(p, Artifact(c)) /\ ~Removes(p, Artifact(c))
      /\ disk \subseteq disk'
  BY <1>2, OverlapsFacts
<1>6. Types'
  BY <1>0, <1>2, <1>4, <1>5 DEF Inv, Types
<1>7. SecretsInv'
  BY <1>0, <1>4 DEF Inv, SecretsInv
<1>8. PlanInv'
  BY <1>0, <1>4, PlanKept DEF Inv
<1>9. Calm
  BY <1>0, CalmKept
<1>10. \A o \in Jobs : SourceInv(o)'
  BY <1>0, <1>4, <1>5, <1>9, SourcesKept DEF Inv
<1>11. ASSUME NEW d \in Contents PROVE ArtifactInv(d)'
  <2>0. ArtifactInv(d) /\ Artifact(d) \in Items
    BY ItemFacts DEF Inv
  <2>1. CASE d # c
    <3>1. Uses(d)' => Uses(d)
      BY <1>4, <2>1 DEF Uses
    <3>2. \A p \in Appliers : /\ Detaches(p, Artifact(d))' => Detaches(p, Artifact(d))
                              /\ Removes(p, Artifact(d))' => Removes(p, Artifact(d))
      BY <1>0 DEF Detaches, Removes, Artifact
    <3> QED BY <1>0, <1>5, <2>0, <3>1, <3>2 DEF ArtifactInv, Artifact
  <2>2. CASE d = c
    <3>1. Artifact(c) \in disk'
      BY <1>2
    <3>2. Artifact(c) \notin overlapped' =>
              \A p \in Appliers : ~Detaches(p, Artifact(c))' /\ ~Removes(p, Artifact(c))'
      BY <1>0, <1>5 DEF Detaches, Removes, Artifact
    <3> QED BY <1>0, <1>5, <2>0, <2>2, <3>1, <3>2 DEF ArtifactInv, Artifact
  <2> QED BY <2>1, <2>2
<1> QED BY <1>4, <1>6, <1>7, <1>8, <1>10, <1>11 DEF Inv

LEMMA CommitStep ==
    ASSUME Inv, NEW j \in Jobs, ActivateCommit(j)
    PROVE  Inv'
<1>0. /\ UNCHANGED <<disk, old, secrets, deleting, live, ingest, plan, applier>>
      /\ UNCHANGED <<faults, cut, overlapped>>
      /\ job[j].pc = "referencing"
  BY DEF ActivateCommit, retention
<1>1. /\ job[j] \in Job /\ job[j].staged \in BOOLEAN /\ job \in [Jobs -> Job]
      /\ job[j].pc \in Under /\ "succeeded" \in Under \cup Ended
  BY <1>0 DEF Inv, Types, Job, Under, Ended
<1> PICK c \in Contents : c = job[j].content
  BY <1>1 DEF Inv, JobInv, HasRow
<1>2. /\ published' \in {published, Append(published, c)}
      /\ path' = path \cup {c} /\ active' = c /\ bound' = [bound EXCEPT ![c] = j]
  BY DEF ActivateCommit
<1>3. job' = [job EXCEPT ![j] = [job[j] EXCEPT !.pc = "succeeded", !.staged = job[j].staged]]
  BY <1>1 DEF ActivateCommit, Job
<1>4. /\ job' \in [Jobs -> Job]
      /\ job'[j].pc = "succeeded" /\ job'[j].content = c
      /\ \A k \in Jobs : k # j => job'[k] = job[k]
      /\ \A k \in Jobs : HasRow(k)' <=> HasRow(k)
      /\ \A k \in Jobs : job[k].pc \in Ended => job'[k].pc \in Ended
      /\ \A k \in Jobs : JobInv(k)'
      /\ \A o \in Jobs : RowsOf(o)' = RowsOf(o)
  BY <1>1, <1>3, MoveFacts
<1>5. Types'
  <2>1. published' \in Seq(Contents)
    BY <1>2 DEF Inv, Types
  <2>2. bound' \in [Contents -> Jobs \cup {Earlier, Unbound}]
    BY <1>2 DEF Inv, Types
  <2> QED BY <1>0, <1>2, <1>4, <2>1, <2>2 DEF Inv, Types
<1>6. SecretsInv'
  <2>1. Needs[c] \subseteq secrets \ {deleting} /\ j # Unbound
    BY <1>0, JobsFacts DEF Inv, SecretsInv, Unbound
  <2>2. bound'[c] = j /\ \A d \in Contents : d # c => bound'[d] = bound[d]
    BY <1>2 DEF Inv, Types
  <2> QED BY <1>0, <1>2, <1>4, <2>1, <2>2 DEF Inv, SecretsInv
<1>7. PlanInv'
  BY <1>0, <1>4, PlanKept DEF Inv
<1>8. Calm
  BY <1>0, CalmKept
<1>9. \A o \in Jobs : SourceInv(o)'
  BY <1>0, <1>4, <1>8, SourcesKept DEF Inv
<1>10. ASSUME NEW d \in Contents PROVE ArtifactInv(d)'
  <2>0. ArtifactInv(d) /\ Artifact(d) \in Items
    BY ItemFacts DEF Inv
  <2>1. Uses(d)' => Uses(d)
    BY <1>4 DEF Uses
  <2>2. \A p \in Appliers : /\ Detaches(p, Artifact(d))' => Detaches(p, Artifact(d))
                            /\ Removes(p, Artifact(d))' => Removes(p, Artifact(d))
    BY <1>0 DEF Detaches, Removes, Artifact
  <2>3. CASE d # c
    BY <1>0, <1>2, <2>0, <2>1, <2>2, <2>3 DEF ArtifactInv, Artifact
  <2>4. CASE d = c
    <3>1. Uses(c)
      BY <1>0 DEF Uses
    <3>2. Artifact(c) \notin overlapped =>
              /\ Artifact(c) \in disk
              /\ \A p \in Appliers : ~Detaches(p, Artifact(c)) /\ ~Removes(p, Artifact(c))
      BY <2>0, <2>4, <3>1 DEF ArtifactInv
    <3> QED BY <1>0, <1>2, <2>2, <2>4, <3>2 DEF ArtifactInv, Artifact
  <2> QED BY <2>3, <2>4
<1> QED BY <1>4, <1>5, <1>6, <1>7, <1>9, <1>10 DEF Inv

\* A place without a row gets another content.
LEMMA PlaceFacts ==
    ASSUME Inv, NEW j \in Jobs, ~HasRow(j), job' \in [Jobs -> Job],
           \A k \in Jobs : k # j => job'[k] = job[k],
           job'[j].pc \in {"absent", "retrying", "queued"},
           job'[j].pc = "queued" =>
               /\ job'[j].content \in Contents /\ job'[j].source \in Jobs /\ job'[j].path
               /\ job'[j].source = j \/ HasRow(job'[j].source),
           job'[j].pc = "retrying" => job'[j].of \in Jobs
    PROVE  /\ \A k \in Jobs : HasRow(k) => HasRow(k)'
           /\ \A k \in Jobs : job[k].pc \in Ended => job'[k].pc \in Ended
           /\ \A k \in Jobs : job'[k].pc = "referencing" =>
                                  job[k].pc = "referencing" /\ job'[k].content = job[k].content
           /\ \A k \in Jobs : JobInv(k)'
           /\ \A c \in Contents : Uses(c)' => Uses(c)
           /\ \A o \in Jobs : ~(job'[j].pc = "queued" /\ job'[j].source = o) =>
                                  RowsOf(o)' = RowsOf(o)
<1> DEFINE new == job'[j]
<1>1. \A k \in Jobs : k # j => job'[k] = job[k]
  OBVIOUS
<1>2. \A k \in Jobs : HasRow(k) => k # j /\ HasRow(k)'
  BY <1>1 DEF HasRow
<1>3. \A k \in Jobs : job[k].pc \in Ended => job'[k].pc \in Ended
  BY <1>1 DEF HasRow
<1>4. ASSUME NEW k \in Jobs PROVE JobInv(k)'
  <2>1. CASE k # j
    <3>1. JobInv(k) /\ job'[k] = job[k]
      BY <1>1, <2>1 DEF Inv
    <3>2. HasRow(k)' => HasRow(k)
      BY <3>1 DEF HasRow
    <3>3. HasRow(k)' => HasRow(job[k].source)'
      <4> SUFFICES ASSUME HasRow(k) PROVE HasRow(job[k].source)'
        BY <3>2
      <4> PICK o \in Jobs : o = job[k].source /\ HasRow(o)
        BY <3>1 DEF JobInv
      <4>1. HasRow(o)'
        BY <1>2
      <4> QED BY <3>1, <4>1 DEF HasRow
    <3> QED BY <3>1, <3>2, <3>3 DEF JobInv
  <2>2. CASE k = j
    <3>1. CASE new.pc = "queued"
      <4> PICK o \in Jobs : o = new.source
        BY <3>1
      <4>1. HasRow(o)'
        BY <1>1, <1>2, <3>1 DEF HasRow, Under
      <4>2. HasRow(job[j].source)'
        BY <1>1, <4>1 DEF HasRow
      <4> QED BY <1>1, <2>2, <3>1, <4>2 DEF JobInv
    <3>2. CASE new.pc # "queued"
      <4>1. ~HasRow(j)' /\ job'[j].pc \notin Under
        BY <1>1, <3>2 DEF HasRow, Under, Ended
      <4> QED BY <1>1, <2>2, <3>2, <4>1 DEF JobInv
    <3> QED BY <3>1, <3>2
  <2> QED BY <2>1, <2>2
<1>5. \A c \in Contents : Uses(c)' => Uses(c)
  BY <1>1 DEF Uses
<1>6. ASSUME NEW o \in Jobs, ~(new.pc = "queued" /\ new.source = o)
      PROVE  RowsOf(o)' = RowsOf(o)
  <2>1. j \notin RowsOf(o)
    BY DEF RowsOf, HasRow
  <2>2. j \notin RowsOf(o)'
    BY <1>1, <1>6 DEF RowsOf, Under, Ended
  <2> QED BY <1>1, <2>1, <2>2 DEF RowsOf
<1>7. \A k \in Jobs : job'[k].pc = "referencing" =>
                          job[k].pc = "referencing" /\ job'[k].content = job[k].content
  BY <1>1
<1> QED BY <1>1, <1>2, <1>3, <1>4, <1>5, <1>6, <1>7

\* An applier at work on a source has a plan that lists it, hence a row.
LEMMA WorkedOn ==
    ASSUME Inv, NEW p \in Appliers, NEW o \in Jobs,
           Detaches(p, Source(o)) \/ Removes(p, Source(o))
    PROVE  HasRow(o)
<1>1. applier[p].item \in applier[p].todo /\ applier[p].item = Source(o) /\ applier[p].pc # "idle"
  BY DEF Inv, PlanInv, ApplierInv, Detaches, Removes
<1>2. plan.items[Source(o)] # "none"
  BY <1>1 DEF Inv, PlanInv, ApplierInv
<1> QED BY <1>2 DEF Inv, PlanInv

LEMMA UploadStep ==
    ASSUME Inv, NEW j \in Jobs, NEW c \in Packages, Accept(j, c) \/ AcceptCut(j, c)
    PROVE  Inv'
<1>0. /\ UNCHANGED <<old, published, path, active, bound, secrets, deleting, live, ingest>>
      /\ UNCHANGED <<plan, applier, overlapped>>
      /\ Uploaded(j, c)
  BY DEF Accept, AcceptCut, data, retention
<1> DEFINE new == [NoJob EXCEPT !.pc = "queued", !.content = c, !.source = j,
                                !.made = Cardinality(Rows) + 1, !.path = TRUE]
<1>1. /\ new \in Job /\ new.pc = "queued" /\ new.content = c /\ new.source = j /\ new.path
  BY BlankFacts, RowsCounted, StorageAssumption DEF Job, Under
<1>2. job' = [job EXCEPT ![j] = new] /\ ~HasRow(j) /\ c \in Contents
  BY <1>0, StorageAssumption DEF Uploaded, HasRow, Under, Ended
<1> HIDE DEF new
<1>3. /\ disk \subseteq disk' /\ disk' \subseteq Items /\ cut \subseteq cut'
      /\ Source(j) \in disk' \/ j \in cut'
      /\ faults' \in 0 .. MaxFaults
  <2>1. CASE Accept(j, c)
    BY <2>1, ItemFacts DEF Accept, Inv, Types
  <2>2. CASE AcceptCut(j, c)
    <3>1. faults' \in 0 .. MaxFaults
      BY <2>2, FaultCounted DEF AcceptCut, Inv
    <3> QED BY <2>2, <3>1 DEF AcceptCut, data, Inv, Types
  <2> QED BY <2>1, <2>2
<1>4. /\ job' \in [Jobs -> Job]
      /\ \A k \in Jobs : HasRow(k) => HasRow(k)'
      /\ \A k \in Jobs : job[k].pc \in Ended => job'[k].pc \in Ended
      /\ \A k \in Jobs : job'[k].pc = "referencing" =>
                             job[k].pc = "referencing" /\ job'[k].content = job[k].content
      /\ \A k \in Jobs : JobInv(k)'
      /\ \A d \in Contents : Uses(d)' => Uses(d)
      /\ \A o \in Jobs : o # j => RowsOf(o)' = RowsOf(o)
  <2>1. /\ job' \in [Jobs -> Job] /\ job'[j] = new
        /\ \A k \in Jobs : k # j => job'[k] = job[k]
    BY <1>1, <1>2, JobSet DEF Inv
  <2>2. /\ job'[j].pc = "queued" /\ job'[j].content \in Contents /\ job'[j].source = j
        /\ job'[j].path
    BY <1>1, <1>2, <2>1
  <2> QED BY <1>2, <2>1, <2>2, PlaceFacts
<1>5. Types'
  BY <1>0, <1>3, <1>4 DEF Inv, Types
<1>6. SecretsInv'
  BY <1>0, <1>4, SecretsKept DEF Inv
<1>7. PlanInv'
  BY <1>0, <1>4, PlanKept DEF Inv
<1>8. ASSUME NEW o \in Jobs PROVE SourceInv(o)'
  <2>0. \A p \in Appliers : /\ Detaches(p, Source(o))' => Detaches(p, Source(o))
                            /\ Removes(p, Source(o))' => Removes(p, Source(o))
                            /\ applier'[p].rows = applier[p].rows
    BY <1>0 DEF Detaches, Removes, Source
  <2>1. CASE o # j
    <3>1. SourceInv(o) /\ RowsOf(o)' = RowsOf(o)
      BY <1>4, <2>1 DEF Inv
    <3> QED BY <1>0, <1>3, <2>0, <3>1 DEF SourceInv, Source
  <2>2. CASE o = j
    <3>1. \A p \in Appliers : ~Detaches(p, Source(j)) /\ ~Removes(p, Source(j))
      BY <1>2, WorkedOn
    <3> QED BY <1>3, <2>0, <2>2, <3>1 DEF SourceInv, Source
  <2> QED BY <2>1, <2>2
<1>9. \A d \in Contents : ArtifactInv(d)'
  BY <1>0, <1>3, <1>4, CalmKept, ArtifactsKept DEF Inv
<1> QED BY <1>4, <1>5, <1>6, <1>7, <1>8, <1>9 DEF Inv

\* A retry has read the original, or gives up.
LEMMA RetryIdle ==
    ASSUME Inv, NEW j \in Jobs, ~HasRow(j), NEW new \in Job, job' = [job EXCEPT ![j] = new],
           new.pc \in {"absent", "retrying"}, new.pc = "retrying" => new.of \in Jobs,
           UNCHANGED <<data, secrets, deleting, retention, faults, cut, overlapped>>
    PROVE  Inv'
<1>0. /\ UNCHANGED <<disk, old, published, path, active, bound, live, ingest>>
      /\ UNCHANGED <<secrets, deleting, plan, applier, faults, cut, overlapped>>
  BY DEF data, retention
<1>1. /\ job' \in [Jobs -> Job] /\ job'[j] = new
      /\ \A k \in Jobs : k # j => job'[k] = job[k]
  BY JobSet DEF Inv
<1>2. /\ job'[j].pc \in {"absent", "retrying", "queued"} /\ job'[j].pc # "queued"
      /\ job'[j].pc = "retrying" => job'[j].of \in Jobs
  BY <1>1
<1>3. /\ \A k \in Jobs : HasRow(k) => HasRow(k)'
      /\ \A k \in Jobs : job[k].pc \in Ended => job'[k].pc \in Ended
      /\ \A k \in Jobs : job'[k].pc = "referencing" =>
                             job[k].pc = "referencing" /\ job'[k].content = job[k].content
      /\ \A k \in Jobs : JobInv(k)'
      /\ \A c \in Contents : Uses(c)' => Uses(c)
      /\ \A o \in Jobs : RowsOf(o)' = RowsOf(o)
  BY <1>1, <1>2, PlaceFacts
<1>4. Types'
  BY <1>0, <1>1 DEF Inv, Types
<1>5. SecretsInv'
  BY <1>0, <1>3, SecretsKept DEF Inv
<1>6. PlanInv'
  BY <1>0, <1>3, PlanKept DEF Inv
<1>7. \A o \in Jobs : SourceInv(o)'
  BY <1>0, <1>3, CalmKept, SourcesKept DEF Inv
<1>8. \A c \in Contents : ArtifactInv(c)'
  BY <1>0, <1>3, CalmKept, ArtifactsKept DEF Inv
<1> QED BY <1>3, <1>4, <1>5, <1>6, <1>7, <1>8 DEF Inv

LEMMA RetryCheckStep ==
    ASSUME Inv, NEW j \in Jobs, NEW o \in Jobs, RetryCheck(j, o)
    PROVE  Inv'
<1> DEFINE new == [NoJob EXCEPT !.pc = "retrying", !.of = o]
<1>1. new \in Job /\ new.pc = "retrying" /\ new.of = o
  BY BlankFacts DEF Job
<1>2. /\ job' = [job EXCEPT ![j] = new] /\ ~HasRow(j)
      /\ UNCHANGED <<data, secrets, deleting, retention, faults, cut, overlapped>>
  BY DEF RetryCheck, HasRow, Under, Ended
<1> HIDE DEF new
<1> QED BY <1>1, <1>2, RetryIdle

LEMMA RetryInsertStep ==
    ASSUME Inv, NEW j \in Jobs, RetryInsert(j)
    PROVE  Inv'
<1>0. /\ UNCHANGED <<disk, published, path, active, bound, secrets, deleting, live, ingest>>
      /\ UNCHANGED <<plan, applier, faults, cut>>
      /\ ~HasRow(j) /\ job[j].of \in Jobs
  BY DEF RetryInsert, retention, HasRow, Under, Ended, Inv, JobInv
<1> PICK of \in Jobs : of = job[j].of
  BY <1>0
<1>1. CASE ~(job[of].pc = "failed" /\ job[of].path)
  <2>1. /\ job' = [job EXCEPT ![j] = NoJob]
        /\ UNCHANGED <<data, secrets, deleting, retention, faults, cut, overlapped>>
    BY <1>0, <1>1 DEF RetryInsert, data, retention
  <2> QED BY <1>0, <2>1, BlankFacts, RetryIdle
<1>2. CASE job[of].pc = "failed" /\ job[of].path
  <2>1. job[of].content \in Contents /\ job[of].source \in Jobs /\ HasRow(job[of].source)
    BY <1>2 DEF Inv, JobInv, HasRow, Ended
  <2> PICK s \in Jobs, c \in Contents : s = job[of].source /\ c = job[of].content /\ HasRow(s)
    BY <2>1
  <2> DEFINE new == [NoJob EXCEPT !.pc = "queued", !.content = c, !.source = s,
                                  !.made = Cardinality(Rows) + 1, !.path = TRUE]
  <2>2. /\ job' = [job EXCEPT ![j] = new]
        /\ old' = old \ {Source(s)} /\ overlapped' = overlapped \cup Overlaps(Source(s))
    BY <1>2 DEF RetryInsert
  <2>3. /\ new \in Job /\ new.pc = "queued" /\ new.content = c /\ new.source = s /\ new.path
    BY BlankFacts, RowsCounted DEF Job, Under
  <2> HIDE DEF new
  <2>4. /\ job' \in [Jobs -> Job] /\ job'[j] = new
        /\ \A k \in Jobs : k # j => job'[k] = job[k]
    BY <2>2, <2>3, JobSet DEF Inv
  <2>5. /\ job'[j].pc = "queued" /\ job'[j].content \in Contents /\ job'[j].source = s
        /\ job'[j].path
    BY <2>3, <2>4
  <2>6. /\ \A k \in Jobs : HasRow(k) => HasRow(k)'
        /\ \A k \in Jobs : job[k].pc \in Ended => job'[k].pc \in Ended
        /\ \A k \in Jobs : job'[k].pc = "referencing" =>
                               job[k].pc = "referencing" /\ job'[k].content = job[k].content
        /\ \A k \in Jobs : JobInv(k)'
        /\ \A d \in Contents : Uses(d)' => Uses(d)
        /\ \A o \in Jobs : o # s => RowsOf(o)' = RowsOf(o)
    BY <1>0, <2>4, <2>5, PlaceFacts
  <2>7. /\ overlapped \subseteq overlapped' /\ overlapped' \subseteq Items
        /\ Source(s) \notin overlapped' =>
              \A p \in Appliers : ~Detaches(p, Source(s)) /\ ~Removes(p, Source(s))
    BY <2>2, ItemFacts, OverlapsFacts
  <2>8. Types'
    BY <1>0, <2>2, <2>4, <2>7 DEF Inv, Types
  <2>9. SecretsInv'
    BY <1>0, <2>6, SecretsKept DEF Inv
  <2>10. PlanInv'
    BY <1>0, <2>6, PlanKept DEF Inv
  <2>11. ASSUME NEW o \in Jobs PROVE SourceInv(o)'
    <3>0. /\ \A p \in Appliers : /\ Detaches(p, Source(o))' => Detaches(p, Source(o))
                                 /\ Removes(p, Source(o))' => Removes(p, Source(o))
                                 /\ applier'[p].rows = applier[p].rows
          /\ SourceInv(o)
      BY <1>0 DEF Inv, Detaches, Removes, Source
    <3>1. CASE o # s
      <4>1. RowsOf(o)' = RowsOf(o)
        BY <2>6, <3>1
      <4> QED BY <1>0, <2>7, <3>0, <4>1 DEF SourceInv, Source
    <3>2. CASE o = s
      <4>1. of \in RowsOf(s)
        BY <1>2 DEF RowsOf, Ended
      <4>2. Source(s) \in disk \cup overlapped \/ s \in cut
        BY <3>0, <3>2, <4>1 DEF SourceInv
      <4> QED BY <1>0, <2>7, <3>0, <3>2, <4>2 DEF SourceInv, Source
    <3> QED BY <3>1, <3>2
  <2>12. \A d \in Contents : ArtifactInv(d)'
    BY <1>0, <2>6, <2>7, CalmKept, ArtifactsKept DEF Inv
  <2> QED BY <2>6, <2>8, <2>9, <2>10, <2>11, <2>12 DEF Inv
<1> QED BY <1>1, <1>2

-----------------------------------------------------------------------------
(* Age, rollbacks, runs and secrets.                                       *)

\* A step that changes no deployment, no plan and no applier.
LEMMA RowsStay ==
    ASSUME Inv, UNCHANGED <<job, plan, applier>>
    PROVE  /\ \A j \in Jobs : JobInv(j)'
           /\ PlanInv' /\ Calm
           /\ \A o \in Jobs : RowsOf(o)' = RowsOf(o)
           /\ \A c \in Contents : Uses(c)' => Uses(c)
<1>1. \A j \in Jobs : JobInv(j)'
  BY DEF Inv, JobInv, HasRow
<1>2. PlanInv'
  BY PlanKept DEF Inv, HasRow
<1>3. \A o \in Jobs : RowsOf(o)' = RowsOf(o)
  BY DEF RowsOf
<1> QED BY <1>1, <1>2, <1>3, CalmKept DEF Uses

LEMMA AgeStep == ASSUME Inv, NEW i \in Items, Age(i) PROVE Inv'
<1>0. /\ UNCHANGED <<disk, published, path, active, bound, secrets, deleting, live, ingest>>
      /\ UNCHANGED <<job, plan, applier, faults, cut, overlapped>>
      /\ old' = old \cup {i}
  BY DEF Age, retention
<1>1. Types'
  BY <1>0 DEF Inv, Types
<1>2. SecretsInv'
  BY <1>0, SecretsKept DEF Inv
<1>3. \A o \in Jobs : SourceInv(o)'
  BY <1>0, RowsStay, SourcesKept DEF Inv
<1>4. \A c \in Contents : ArtifactInv(c)'
  BY <1>0, RowsStay, ArtifactsKept DEF Inv
<1> QED BY <1>0, <1>1, <1>2, <1>3, <1>4, RowsStay DEF Inv

\* The active revision, an event's selection or the runs change: whoever takes up
\* revision c has its path, and the artifact is overlapped if it is being removed.
LEMMA TakesUp ==
    ASSUME Inv, NEW c \in Contents,
           UNCHANGED <<disk, path, job, plan, applier, cut>>,
           overlapped \subseteq overlapped',
           \A d \in Contents : d # c /\ d \in {active', ingest'} \cup live' =>
                                  d \in {active, ingest} \cup live,
           Artifact(c) \notin overlapped' =>
               /\ c \in path
               /\ \A p \in Appliers : ~Detaches(p, Artifact(c)) /\ ~Removes(p, Artifact(c))
    PROVE  /\ \A o \in Jobs : SourceInv(o)'
           /\ \A d \in Contents : ArtifactInv(d)'
<1>1. \A o \in Jobs : SourceInv(o)'
  BY RowsStay, SourcesKept DEF Inv
<1>2. ASSUME NEW d \in Contents PROVE ArtifactInv(d)'
  <2>1. ArtifactInv(d) /\ (Uses(d)' => Uses(d))
    BY RowsStay DEF Inv
  <2>2. \A p \in Appliers : /\ Detaches(p, Artifact(d))' => Detaches(p, Artifact(d))
                            /\ Removes(p, Artifact(d))' => Removes(p, Artifact(d))
    BY DEF Detaches, Removes, Artifact
  <2>3. CASE d # c
    BY <2>1, <2>2, <2>3 DEF ArtifactInv, Artifact
  <2>4. CASE d = c
    BY <2>1, <2>2, <2>4 DEF ArtifactInv, Artifact
  <2> QED BY <2>3, <2>4
<1> QED BY <1>1, <1>2

LEMMA RollbackStep ==
    ASSUME Inv, NEW c \in Contents, RollbackAutomation(c)
    PROVE  Inv'
<1>0. /\ UNCHANGED <<disk, old, published, path, bound, secrets, deleting, live, ingest>>
      /\ UNCHANGED <<job, plan, applier, faults, cut>>
      /\ active' = c /\ c \in path /\ overlapped' = overlapped \cup Overlaps(Artifact(c))
  BY DEF RollbackAutomation, retention
<1>1. /\ overlapped \subseteq overlapped' /\ overlapped' \subseteq Items
      /\ Artifact(c) \notin overlapped' =>
            \A p \in Appliers : ~Detaches(p, Artifact(c)) /\ ~Removes(p, Artifact(c))
  BY <1>0, ItemFacts, OverlapsFacts
<1>2. Types'
  BY <1>0, <1>1 DEF Inv, Types
<1>3. SecretsInv'
  BY <1>0, SecretsKept DEF Inv
<1>4. \A d \in Contents : d # c /\ d \in {active', ingest'} \cup live' =>
                              d \in {active, ingest} \cup live
  BY <1>0
<1>5. /\ \A o \in Jobs : SourceInv(o)'
      /\ \A d \in Contents : ArtifactInv(d)'
  BY <1>0, <1>1, <1>4, TakesUp
<1> QED BY <1>0, <1>2, <1>3, <1>5, RowsStay DEF Inv

LEMMA EnqueueStep == ASSUME Inv, EnqueueSelect \/ EnqueueInsert PROVE Inv'
<1>0. /\ UNCHANGED <<disk, old, published, path, active, bound, secrets, deleting>>
      /\ UNCHANGED <<job, plan, applier, faults, cut>>
  BY DEF EnqueueSelect, EnqueueInsert, retention
<1>1. SecretsInv'
  BY <1>0, SecretsKept DEF Inv
<1>2. CASE EnqueueSelect
  <2>1. ingest' = active /\ UNCHANGED <<live, overlapped>> /\ active \in Contents
    BY <1>2 DEF EnqueueSelect, Inv, Types
  <2>2. Types'
    BY <1>0, <2>1 DEF Inv, Types
  <2> PICK c \in Contents : c = active
    BY <2>1
  <2>3. ArtifactInv(c)
    BY DEF Inv
  <2>4. Artifact(c) \notin overlapped' =>
            /\ c \in path
            /\ \A p \in Appliers : ~Detaches(p, Artifact(c)) /\ ~Removes(p, Artifact(c))
    BY <2>1, <2>3 DEF ArtifactInv
  <2>5. \A d \in Contents : d # c /\ d \in {active', ingest'} \cup live' =>
                                d \in {active, ingest} \cup live
    BY <1>0, <2>1
  <2>6. /\ \A o \in Jobs : SourceInv(o)'
        /\ \A d \in Contents : ArtifactInv(d)'
    BY <1>0, <2>1, <2>4, <2>5, TakesUp
  <2> QED BY <1>0, <1>1, <2>2, <2>6, RowsStay DEF Inv
<1>3. CASE EnqueueInsert
  <2>1. /\ ingest \in Contents /\ ingest' = NoContent /\ live' = live \cup {ingest}
        /\ overlapped' = overlapped \cup Overlaps(Artifact(ingest))
    BY <1>3 DEF EnqueueInsert, Inv, Types
  <2> PICK c \in Contents : c = ingest
    BY <2>1
  <2>2. /\ overlapped \subseteq overlapped' /\ overlapped' \subseteq Items
        /\ Artifact(c) \notin overlapped' =>
              \A p \in Appliers : ~Detaches(p, Artifact(c)) /\ ~Removes(p, Artifact(c))
    BY <2>1, ItemFacts, OverlapsFacts
  <2>3. Types'
    BY <1>0, <2>1, <2>2 DEF Inv, Types
  <2>4. Artifact(c) \notin overlapped' => c \in path
    BY <2>2 DEF Inv, ArtifactInv
  <2>5. \A d \in Contents : d # c /\ d \in {active', ingest'} \cup live' =>
                                d \in {active, ingest} \cup live
    BY <1>0, <2>1, StorageAssumption
  <2>6. /\ \A o \in Jobs : SourceInv(o)'
        /\ \A d \in Contents : ArtifactInv(d)'
    BY <1>0, <2>2, <2>4, <2>5, TakesUp
  <2> QED BY <1>0, <1>1, <2>3, <2>6, RowsStay DEF Inv
<1> QED BY <1>2, <1>3

LEMMA RunEndsStep == ASSUME Inv, NEW c \in Contents, RunEnds(c) PROVE Inv'
<1>0. /\ UNCHANGED <<disk, old, published, path, active, bound, secrets, deleting, ingest>>
      /\ UNCHANGED <<job, plan, applier, faults, cut, overlapped>>
      /\ live' \subseteq live
  BY DEF RunEnds, retention
<1>1. Types'
  BY <1>0 DEF Inv, Types
<1>2. SecretsInv'
  BY <1>0, SecretsKept DEF Inv
<1>3. \A o \in Jobs : SourceInv(o)'
  BY <1>0, RowsStay, SourcesKept DEF Inv
<1>4. \A d \in Contents : ArtifactInv(d)'
  BY <1>0, RowsStay, ArtifactsKept DEF Inv
<1> QED BY <1>0, <1>1, <1>2, <1>3, <1>4, RowsStay DEF Inv

LEMMA SecretStep ==
    ASSUME Inv, \/ \E s \in Secrets : PutEncryptedSecret(s) \/ DeleteSecretLock(s)
                \/ DeleteSecretCommit
    PROVE  Inv'
<1>0. /\ UNCHANGED <<disk, old, published, path, active, bound, live, ingest>>
      /\ UNCHANGED <<job, plan, applier, faults, cut, overlapped>>
  BY DEF PutEncryptedSecret, DeleteSecretLock, DeleteSecretCommit, data, retention
<1>1. secrets' \subseteq Secrets /\ deleting' \in secrets' \cup {NoSecret}
  BY StorageAssumption DEF PutEncryptedSecret, DeleteSecretLock, DeleteSecretCommit, Inv, Types
<1>2. Types'
  BY <1>0, <1>1 DEF Inv, Types
<1>3. /\ \A c \in Contents : bound[c] # Unbound => Needs[c] \subseteq secrets' \ {deleting'}
      /\ \A j \in Jobs : job[j].pc = "referencing" =>
                             Needs[job[j].content] \subseteq secrets' \ {deleting'}
  <2>0. \A j \in Jobs : job[j].pc = "referencing" => job[j].content \in Contents
    BY DEF Inv, JobInv, HasRow, Under
  <2>1. \A c \in Contents : NoSecret \notin Needs[c]
    BY StorageAssumption
  <2>2. ASSUME NEW s \in Secrets, PutEncryptedSecret(s)
        PROVE  secrets \ {deleting} \subseteq secrets' \ {deleting'}
    BY <2>2 DEF PutEncryptedSecret
  <2>3. CASE DeleteSecretCommit
    <3>1. secrets' = secrets \ {deleting} /\ deleting' = NoSecret
      BY <2>3 DEF DeleteSecretCommit
    <3> QED BY <2>0, <2>1, <3>1 DEF Inv, SecretsInv
  <2>4. ASSUME NEW s \in Secrets, DeleteSecretLock(s)
        PROVE  /\ \A c \in Contents : bound[c] # Unbound => Needs[c] \subseteq secrets' \ {deleting'}
               /\ \A j \in Jobs : job[j].pc = "referencing" =>
                                      Needs[job[j].content] \subseteq secrets' \ {deleting'}
    BY <2>4 DEF DeleteSecretLock, Referenced, Inv, SecretsInv
  <2> QED BY <2>2, <2>3, <2>4 DEF Inv, SecretsInv
<1>4. SecretsInv'
  BY <1>0, <1>3 DEF Inv, SecretsInv
<1>5. \A o \in Jobs : SourceInv(o)'
  BY <1>0, RowsStay, SourcesKept DEF Inv
<1>6. \A d \in Contents : ArtifactInv(d)'
  BY <1>0, RowsStay, ArtifactsKept DEF Inv
<1> QED BY <1>0, <1>2, <1>4, <1>5, <1>6, RowsStay DEF Inv

-----------------------------------------------------------------------------
(* Retention.                                                              *)

LEMMA PlanTypes ==
    ASSUME Inv
    PROVE  /\ plan \in RetentionPlan /\ plan.items \in [Items -> Outcomes] /\ plan.keep \in Nat
           /\ \A p \in Appliers : applier[p] \in Applier /\ applier[p].todo \subseteq Items
BY DEF Inv, Types, RetentionPlan, Applier

LEMMA ApplierSet ==
    ASSUME Types, NEW p \in Appliers, NEW new \in Applier, applier' = [applier EXCEPT ![p] = new]
    PROVE  /\ applier' \in [Appliers -> Applier] /\ applier'[p] = new
           /\ \A q \in Appliers : q # p => applier'[q] = applier[q]
BY DEF Types

\* A step of plan and appliers that begins no detachment.
LEMMA RetentionCalm ==
    ASSUME Inv, UNCHANGED <<data, secrets, deleting, job, cut, overlapped>>,
           faults' \in 0 .. MaxFaults, plan' \in RetentionPlan,
           applier' \in [Appliers -> Applier], PlanInv', Calm
    PROVE  Inv'
<1>0. /\ UNCHANGED <<disk, old, published, path, active, bound, live, ingest>>
      /\ UNCHANGED <<secrets, deleting, job, cut, overlapped>>
  BY DEF data
<1>1. Types'
  BY <1>0 DEF Inv, Types
<1>2. \A j \in Jobs : JobInv(j)'
  BY <1>0 DEF Inv, JobInv, HasRow
<1>3. SecretsInv'
  BY <1>0, SecretsKept DEF Inv
<1>4. /\ \A o \in Jobs : RowsOf(o)' = RowsOf(o)
      /\ \A c \in Contents : Uses(c)' => Uses(c)
  BY <1>0 DEF RowsOf, Uses
<1>5. \A o \in Jobs : SourceInv(o)'
  BY <1>0, <1>4, SourcesKept DEF Inv
<1>6. \A c \in Contents : ArtifactInv(c)'
  BY <1>0, <1>4, ArtifactsKept DEF Inv
<1> QED BY <1>1, <1>2, <1>3, <1>5, <1>6 DEF Inv

LEMMA CandidatesFacts ==
    ASSUME Inv, NEW keep
    PROVE  /\ Candidates(keep) \subseteq Items
           /\ \A o \in Jobs : Source(o) \in Candidates(keep) => HasRow(o)
<1>1. Candidates(keep) \subseteq Items
  BY DEF Candidates, Inv, Types
<1>2. ASSUME NEW o \in Jobs, Source(o) \in Candidates(keep)
      PROVE  HasRow(o)
  <2>1. RowsOf(o) # {}
    BY <1>2, ItemFacts DEF Candidates
  <2> PICK j \in Jobs : HasRow(j) /\ job[j].source = o
    BY <2>1 DEF RowsOf, HasRow
  <2> QED BY DEF Inv, JobInv
<1> QED BY <1>1, <1>2

LEMMA PlanStep == ASSUME Inv, NEW keep \in Keeps, Plan(keep) PROVE Inv'
<1> DEFINE candidates == Candidates(keep)
           items == [i \in Items |-> IF i \in candidates THEN "planned" ELSE "none"]
<1>0. /\ UNCHANGED <<data, secrets, deleting, job, cut, overlapped>> /\ faults' \in 0 .. MaxFaults
      /\ UNCHANGED <<applier, job>> /\ plan.status = "none"
      /\ plan' = [status |-> "planned", keep |-> keep, items |-> items]
  BY DEF Plan, CreateRetentionPlan, Inv, Types
<1>1. items \in [Items -> Outcomes] /\ \A i \in Items : items[i] # "none" => i \in candidates
  BY DEF Outcomes
<1>2. keep \in Nat
  BY StorageAssumption
<1>3. /\ \A o \in Jobs : Source(o) \in candidates => HasRow(o)
  BY CandidatesFacts
<1> HIDE DEF items, candidates
<1>4. plan' \in RetentionPlan /\ plan'.status = "planned" /\ plan'.items = items
  BY <1>0, <1>1, <1>2 DEF RetentionPlan
<1>5. \A p \in Appliers : applier[p].pc = "idle"
  BY <1>0 DEF Inv, PlanInv, ApplierInv
<1>6. PlanInv'
  <2>1. \A p \in Appliers : ApplierInv(p)'
    BY <1>0, <1>5 DEF ApplierInv
  <2>2. \A o \in Jobs : items[Source(o)] # "none" => HasRow(o)'
    BY <1>0, <1>1, <1>3, ItemFacts DEF HasRow
  <2> QED BY <1>4, <2>1, <2>2 DEF PlanInv, Source
<1>7. applier' \in [Appliers -> Applier] /\ Calm
  BY <1>0, CalmKept DEF Inv, Types
<1> QED BY <1>0, <1>4, <1>6, <1>7, RetentionCalm

\* One applier goes on; the others keep what they have ahead of them, because
\* nothing becomes planned again.
LEMMA OthersKept ==
    ASSUME Inv, NEW p \in Appliers, UNCHANGED job,
           plan'.status # "none",
           \A i \in Items : /\ plan'.items[i] = "planned" => plan.items[i] = "planned"
                            /\ plan'.items[i] = "none" <=> plan.items[i] = "none",
           plan'.status = "applied" => \A i \in Items : plan'.items[i] # "planned",
           \A q \in Appliers : q # p => applier'[q] = applier[q],
           ApplierInv(p)'
    PROVE  PlanInv'
<1>1. ASSUME NEW q \in Appliers, q # p PROVE ApplierInv(q)'
  <2>1. ApplierInv(q) /\ applier'[q] = applier[q] /\ applier[q].todo \subseteq Items
    BY <1>1, PlanTypes DEF Inv, PlanInv
  <2> QED BY <2>1 DEF ApplierInv
<1>2. ASSUME NEW o \in Jobs, plan'.items[Source(o)] # "none"
      PROVE  HasRow(o)'
  <2>1. plan.items[Source(o)] # "none"
    BY <1>2, ItemFacts
  <2> QED BY <2>1 DEF Inv, PlanInv, HasRow
<1>3. \A q \in Appliers : ApplierInv(q)'
  BY <1>1
<1>4. \A o \in Jobs : plan'.items[Source(o)] # "none" => HasRow(o)'
  BY <1>2
<1> QED BY <1>3, <1>4 DEF PlanInv, Source

\* An applier that is, or goes on, without an item in hand begins no detachment.
LEMMA CalmStep ==
    ASSUME Inv, NEW p \in Appliers, applier'[p].pc \in {"idle", "applying", "recording"},
           \A q \in Appliers : q # p => applier'[q] = applier[q]
    PROVE  Calm
BY DEF Calm, Detaches, Removes

LEMMA ApplyStep == ASSUME Inv, NEW p \in Appliers, Apply(p) PROVE Inv'
<1> DEFINE planned == {i \in Items : plan.items[i] = "planned"}
           eligible == Candidates(plan.keep) \cap planned
           new == [NoApplier EXCEPT !.pc = "applying", !.todo = planned, !.eligible = eligible]
<1>0. /\ UNCHANGED <<data, secrets, deleting, job, cut, overlapped>> /\ UNCHANGED job
      /\ applier[p].pc = "idle"
      /\ plan' = [plan EXCEPT !.status = "applying"]
      /\ applier' = [applier EXCEPT ![p] = new]
  BY DEF Apply
<1>1. faults' \in 0 .. MaxFaults
  BY FaultCounted DEF Apply, Inv, Types
<1>2. planned \subseteq Items /\ eligible \subseteq Items
  OBVIOUS
<1> HIDE DEF eligible
<1>3. new \in Applier /\ new.pc = "applying" /\ new.todo = planned
  BY <1>2, BlankFacts DEF Applier
<1>4. plan' \in RetentionPlan /\ plan'.status = "applying" /\ plan'.items = plan.items
  BY <1>0, PlanTypes DEF RetentionPlan
<1> HIDE DEF new
<1>5. /\ applier' \in [Appliers -> Applier] /\ applier'[p] = new
      /\ \A q \in Appliers : q # p => applier'[q] = applier[q]
  BY <1>0, <1>3, ApplierSet DEF Inv
<1>6. ApplierInv(p)'
  BY <1>3, <1>4, <1>5 DEF ApplierInv
<1>7. PlanInv'
  BY <1>0, <1>4, <1>5, <1>6, OthersKept
<1>8. Calm
  BY <1>3, <1>5, CalmStep
<1> QED BY <1>0, <1>1, <1>4, <1>5, <1>7, <1>8, RetentionCalm

LEMMA RecordStep ==
    ASSUME Inv, NEW p \in Appliers, NEW i \in applier[p].todo, applier[p].pc # "idle",
           NEW outcome \in {"deleted", "skipped", "failed"}, Record(p, i, outcome),
           UNCHANGED <<data, secrets, deleting, job, cut, overlapped>>,
           faults' \in 0 .. MaxFaults
    PROVE  Inv'
<1>0. /\ i \in Items /\ applier[p] \in Applier /\ plan.status # "none"
      /\ \A k \in Items : plan.items[k] = "planned" => k \in applier[p].todo
      /\ \A k \in applier[p].todo : plan.items[k] # "none"
  BY PlanTypes DEF Inv, PlanInv, ApplierInv
<1>1. CASE plan.items[i] # "planned"
  <2>1. plan' = plan /\ applier' = [applier EXCEPT ![p] = NoApplier]
    BY <1>1 DEF Record
  <2>2. /\ applier' \in [Appliers -> Applier] /\ applier'[p] = NoApplier
        /\ \A q \in Appliers : q # p => applier'[q] = applier[q]
    BY <2>1, BlankFacts, ApplierSet DEF Inv
  <2>3. ApplierInv(p)' /\ Calm
    BY <2>2, BlankFacts, CalmStep DEF ApplierInv
  <2>4. PlanInv'
    <3>1. plan'.status = "applied" => \A k \in Items : plan'.items[k] # "planned"
      BY <2>1 DEF Inv, PlanInv
    <3> QED BY <1>0, <2>1, <2>2, <2>3, <3>1, OthersKept
  <2> QED BY <2>1, <2>2, <2>3, <2>4, PlanTypes, RetentionCalm
<1>2. CASE plan.items[i] = "planned"
  <2> DEFINE new == [NoApplier EXCEPT !.pc = "applying", !.eligible = applier[p].eligible \ {i},
                                      !.todo = applier[p].todo \ {i}]
  <2>1. plan' = [plan EXCEPT !.items[i] = outcome] /\ applier' = [applier EXCEPT ![p] = new]
    BY <1>2 DEF Record
  <2>2. new \in Applier /\ new.pc = "applying" /\ new.todo = applier[p].todo \ {i}
    <3>1. applier[p].eligible \ {i} \subseteq Items /\ applier[p].todo \ {i} \subseteq Items
      BY <1>0 DEF Applier
    <3> QED BY <3>1, BlankFacts DEF Applier
  <2> HIDE DEF new
  <2>3. /\ applier' \in [Appliers -> Applier] /\ applier'[p] = new
        /\ \A q \in Appliers : q # p => applier'[q] = applier[q]
    BY <2>1, <2>2, ApplierSet DEF Inv
  <2>4. /\ plan' \in RetentionPlan /\ plan'.status = plan.status
        /\ plan'.items = [plan.items EXCEPT ![i] = outcome]
    <3>1. [plan.items EXCEPT ![i] = outcome] \in [Items -> Outcomes]
      BY PlanTypes DEF Outcomes
    <3>2. plan' = [plan EXCEPT !.items = [plan.items EXCEPT ![i] = outcome]]
      BY <2>1
    <3> QED BY <3>1, <3>2, PlanTypes DEF RetentionPlan
  <2>5. plan'.items[i] = outcome /\ \A k \in Items : k # i => plan'.items[k] = plan.items[k]
    BY <1>0, <2>4, PlanTypes
  <2>6. ApplierInv(p)'
    BY <1>0, <2>2, <2>3, <2>4, <2>5, PlanTypes DEF ApplierInv
  <2>7. PlanInv'
    <3>1. plan'.status = "applied" => \A k \in Items : plan'.items[k] # "planned"
      BY <2>4, <2>5 DEF Inv, PlanInv
    <3>2. \A k \in Items : /\ plan'.items[k] = "planned" => plan.items[k] = "planned"
                           /\ plan'.items[k] = "none" <=> plan.items[k] = "none"
      BY <1>2, <2>5
    <3> QED BY <1>0, <2>3, <2>4, <2>6, <3>1, <3>2, OthersKept
  <2>8. Calm
    BY <2>2, <2>3, CalmStep
  <2> QED BY <2>3, <2>4, <2>7, <2>8, RetentionCalm
<1> QED BY <1>1, <1>2

LEMMA OutcomeStep ==
    ASSUME Inv, NEW p \in Appliers,
           \/ \E i \in Items : SkipItem(p, i) \/ ItemFails(p, i)
           \/ RemoveFails(p) \/ RecordDeleted(p)
    PROVE  Inv'
<1>0. UNCHANGED <<data, secrets, deleting, job, cut, overlapped>>
  BY DEF SkipItem, ItemFails, RemoveFails, RecordDeleted
<1>1. ASSUME NEW i \in Items, SkipItem(p, i) PROVE Inv'
  <2>1. /\ i \in applier[p].todo /\ applier[p].pc # "idle" /\ Record(p, i, "skipped")
        /\ faults' \in 0 .. MaxFaults
    BY <1>1 DEF SkipItem, Takes, Inv, Types
  <2> QED BY <1>0, <2>1, RecordStep
<1>2. ASSUME NEW i \in Items, ItemFails(p, i) PROVE Inv'
  <2>1. i \in applier[p].todo /\ applier[p].pc # "idle" /\ Record(p, i, "failed")
    BY <1>2 DEF ItemFails, Takes
  <2>2. faults' \in 0 .. MaxFaults
    BY <1>2, FaultCounted DEF ItemFails, Inv
  <2> QED BY <1>0, <2>1, <2>2, RecordStep
<1>3. CASE RemoveFails(p)
  <2>1. /\ applier[p].item \in applier[p].todo /\ applier[p].pc # "idle"
        /\ Record(p, applier[p].item, "failed")
    BY <1>3 DEF RemoveFails, Inv, PlanInv, ApplierInv
  <2>2. faults' \in 0 .. MaxFaults
    BY <1>3, FaultCounted DEF RemoveFails, Inv
  <2> QED BY <1>0, <2>1, <2>2, RecordStep
<1>4. CASE RecordDeleted(p)
  <2>1. /\ applier[p].item \in applier[p].todo /\ applier[p].pc # "idle"
        /\ Record(p, applier[p].item, "deleted")
    BY <1>4 DEF RecordDeleted, Inv, PlanInv, ApplierInv
  <2>2. faults' \in 0 .. MaxFaults
    BY <1>4 DEF RecordDeleted, Inv, Types
  <2> QED BY <1>0, <2>1, <2>2, RecordStep
<1> QED BY <1>1, <1>2, <1>3, <1>4

LEMMA CompleteStep == ASSUME Inv, NEW p \in Appliers, CompleteRetentionPlan(p) PROVE Inv'
<1>0. /\ UNCHANGED <<data, secrets, deleting, job, cut, overlapped>> /\ UNCHANGED job
      /\ faults' \in 0 .. MaxFaults
      /\ applier[p].pc = "applying" /\ applier[p].todo = {}
      /\ applier' = [applier EXCEPT ![p] = NoApplier]
      /\ plan' \in {plan, [plan EXCEPT !.status = "applied"]}
  BY DEF CompleteRetentionPlan, Inv, Types
<1>1. plan.status # "none" /\ \A i \in Items : plan.items[i] # "planned"
  BY <1>0 DEF Inv, PlanInv, ApplierInv
<1>2. plan' \in RetentionPlan /\ plan'.status # "none" /\ plan'.items = plan.items
  BY <1>0, <1>1, PlanTypes DEF RetentionPlan
<1>3. /\ applier' \in [Appliers -> Applier] /\ applier'[p] = NoApplier
      /\ \A q \in Appliers : q # p => applier'[q] = applier[q]
  BY <1>0, BlankFacts, ApplierSet DEF Inv
<1>4. ApplierInv(p)' /\ Calm
  BY <1>3, BlankFacts, CalmStep DEF ApplierInv
<1>5. PlanInv'
  BY <1>0, <1>1, <1>2, <1>3, <1>4, OthersKept
<1> QED BY <1>0, <1>2, <1>3, <1>4, <1>5, RetentionCalm

\* DetachRetentionItem finds item i unused, or does not; an artifact that someone
\* has found in place by then counts as overlapped.
LEMMA DetachDecidesStep ==
    ASSUME Inv, NEW p \in Appliers, NEW i \in Items, DetachDecides(p, i) PROVE Inv'
<1> DEFINE free == Free(i)
           rows == IF i[1] = "source" THEN RowsOf(i[2]) ELSE {}
           refs == IF i[1] = "artifact" THEN bound[i[2]] ELSE Unbound
           new == [applier[p] EXCEPT !.pc = "detaching", !.item = i, !.free = free,
                                     !.rows = rows, !.refs = refs]
<1>0. /\ UNCHANGED <<disk, old, published, path, active, bound, live, ingest>>
      /\ UNCHANGED <<secrets, deleting, job, plan, faults, cut>>
      /\ applier[p].pc = "applying" /\ i \in applier[p].todo
      /\ overlapped' = IF free /\ InUse(i) THEN overlapped \cup {i} ELSE overlapped
  BY DEF DetachDecides, Takes, data
<1>1. applier[p] \in Applier /\ applier \in [Appliers -> Applier]
  BY DEF Inv, Types
<1>2. applier' = [applier EXCEPT ![p] = new]
  BY <1>1 DEF DetachDecides
<1>3. free \in BOOLEAN /\ rows \subseteq Jobs /\ refs \in Jobs \cup {Earlier, Unbound}
  <2>1. free \in BOOLEAN
    BY DEF Free
  <2>2. rows \subseteq Jobs
    BY DEF RowsOf
  <2>3. refs \in Jobs \cup {Earlier, Unbound}
    BY ItemCases, ItemFacts DEF Inv, Types
  <2> QED BY <2>1, <2>2, <2>3
<1>4. free => /\ \A j \in rows : job[j].pc \in Ended
              /\ \A c \in Contents : i = Artifact(c) => ~Protected(c)
  BY ItemCases, ItemFacts DEF Free
<1>5. \A o \in Jobs : i = Source(o) => rows = RowsOf(o)
  BY ItemFacts
<1> HIDE DEF free, rows, refs
<1>6. /\ new \in Applier /\ new.pc = "detaching" /\ new.item = i /\ new.free = free
      /\ new.rows = rows /\ new.todo = applier[p].todo
  BY <1>1, <1>3 DEF Applier
<1> HIDE DEF new
<1>7. /\ applier' \in [Appliers -> Applier] /\ applier'[p] = new
      /\ \A q \in Appliers : q # p => applier'[q] = applier[q]
  BY <1>2, <1>6, ApplierSet DEF Inv
<1>8. overlapped \subseteq overlapped' /\ overlapped' \subseteq Items
  BY <1>0 DEF Inv, Types
<1>9. Types'
  BY <1>0, <1>7, <1>8 DEF Inv, Types
<1>10. SecretsInv'
  BY <1>0, SecretsKept DEF Inv
<1>11. PlanInv'
  <2>1. /\ plan.status # "none" /\ plan' = plan
        /\ \A k \in Items : plan.items[k] = "planned" => k \in applier[p].todo
        /\ \A k \in applier[p].todo : plan.items[k] # "none"
    BY <1>0 DEF Inv, PlanInv, ApplierInv
  <2>2. ApplierInv(p)'
    BY <1>0, <1>4, <1>6, <1>7, <2>1 DEF ApplierInv
  <2>3. plan'.status = "applied" => \A k \in Items : plan'.items[k] # "planned"
    BY <2>1 DEF Inv, PlanInv
  <2> QED BY <1>0, <1>7, <2>1, <2>2, <2>3, OthersKept
<1>12. ASSUME NEW q \in Appliers, NEW k \in Items
       PROVE  /\ Detaches(q, k)' => \/ Detaches(q, k) /\ applier'[q].rows = applier[q].rows
                                    \/ free /\ k = i /\ applier'[q].rows = rows
              /\ Removes(q, k)' => Removes(q, k)
  BY <1>6, <1>7 DEF Detaches, Removes
<1>13. ASSUME NEW o \in Jobs PROVE SourceInv(o)'
  <2>1. SourceInv(o) /\ RowsOf(o)' = RowsOf(o) /\ Source(o) \in Items
    BY <1>0, ItemFacts DEF Inv, RowsOf
  <2>2. ASSUME Source(o) \notin overlapped', NEW q \in Appliers
        PROVE  /\ Detaches(q, Source(o))' => RowsOf(o) \subseteq applier'[q].rows
               /\ Removes(q, Source(o))' => RowsOf(o) = {}
    <3>1. /\ Detaches(q, Source(o)) => RowsOf(o) \subseteq applier[q].rows
          /\ Removes(q, Source(o)) => RowsOf(o) = {}
      BY <1>8, <2>1, <2>2 DEF SourceInv
    <3> DEFINE s == Source(o)
    <3>2. /\ Detaches(q, s)' => \/ Detaches(q, s) /\ applier'[q].rows = applier[q].rows
                                \/ free /\ s = i /\ applier'[q].rows = rows
          /\ Removes(q, s)' => Removes(q, s)
      BY <1>12, <2>1 DEF Source
    <3> QED BY <1>5, <3>1, <3>2
  <2> QED BY <1>0, <1>8, <2>1, <2>2 DEF SourceInv, Source
<1>14. ASSUME NEW c \in Contents PROVE ArtifactInv(c)'
  <2>1. ArtifactInv(c) /\ (Uses(c)' <=> Uses(c)) /\ Artifact(c) \in Items
    BY <1>0, ItemFacts DEF Inv, Uses
  <2>2. ASSUME Artifact(c) \notin overlapped', NEW q \in Appliers
        PROVE  /\ Detaches(q, Artifact(c))' \/ Removes(q, Artifact(c))' =>
                      c \notin {active, ingest} \cup live /\ ~Uses(c)
               /\ Removes(q, Artifact(c))' => c \notin path
    <3> DEFINE a == Artifact(c)
    <3>1. /\ Detaches(q, a)' => Detaches(q, a) \/ (free /\ a = i)
          /\ Removes(q, a)' => Removes(q, a)
      BY <1>12, <2>1 DEF Artifact
    <3>2. ASSUME free, Artifact(c) = i
          PROVE  c \notin {active, ingest} \cup live /\ ~Uses(c)
      <4>1. ~InUse(i)
        BY <1>0, <2>2, <3>2
      <4>2. i[1] = "artifact" /\ i[2] = c
        BY <3>2, ItemFacts
      <4>3. c # ingest /\ ~Uses(c)
        BY <4>1, <4>2 DEF InUse, Uses
      <4>4. c # active /\ c \notin live
        BY <1>4, <3>2 DEF Protected
      <4> QED BY <4>3, <4>4
    <3>3. /\ Detaches(q, a) \/ Removes(q, a) => c \notin {active, ingest} \cup live /\ ~Uses(c)
          /\ Removes(q, a) => c \notin path
      BY <1>8, <2>1, <2>2 DEF ArtifactInv
    <3> QED BY <3>1, <3>2, <3>3
  <2> QED BY <1>0, <1>8, <2>1, <2>2 DEF ArtifactInv, Artifact
<1>15. \A j \in Jobs : JobInv(j)'
  BY <1>0 DEF Inv, JobInv, HasRow
<1> QED BY <1>9, <1>10, <1>11, <1>13, <1>14, <1>15 DEF Inv

\* os.RemoveAll: the item it removes has no row, or is overlapped.
LEMMA RemoveStorageStep == ASSUME Inv, NEW p \in Appliers, RemoveStorage(p) PROVE Inv'
<1> DEFINE new == [applier[p] EXCEPT !.pc = "recording"]
<1>0. /\ UNCHANGED <<old, published, path, active, bound, secrets, deleting, live, ingest>>
      /\ UNCHANGED <<job, plan, faults, cut, overlapped>>
      /\ applier[p].pc = "removing" /\ disk' = disk \ {applier[p].item}
  BY DEF RemoveStorage
<1>1. applier[p] \in Applier /\ applier \in [Appliers -> Applier]
  BY DEF Inv, Types
<1>2. applier' = [applier EXCEPT ![p] = new]
  BY <1>1 DEF RemoveStorage
<1>3. /\ new \in Applier /\ new.pc = "recording" /\ new.item = applier[p].item
      /\ new.todo = applier[p].todo
  BY <1>1 DEF Applier
<1> HIDE DEF new
<1>4. /\ applier' \in [Appliers -> Applier] /\ applier'[p] = new
      /\ \A q \in Appliers : q # p => applier'[q] = applier[q]
  BY <1>2, <1>3, ApplierSet DEF Inv
<1>5. Types'
  BY <1>0, <1>4 DEF Inv, Types
<1>6. SecretsInv'
  BY <1>0, SecretsKept DEF Inv
<1>7. PlanInv'
  <2>1. plan.status # "none" /\ plan' = plan /\ ApplierInv(p)
    BY <1>0 DEF Inv, PlanInv, ApplierInv
  <2>2. ApplierInv(p)'
    BY <1>0, <1>3, <1>4, <2>1 DEF ApplierInv
  <2>3. plan'.status = "applied" => \A k \in Items : plan'.items[k] # "planned"
    BY <2>1 DEF Inv, PlanInv
  <2> QED BY <1>0, <1>4, <2>1, <2>2, <2>3, OthersKept
<1>8. Calm
  BY <1>3, <1>4, CalmStep
<1>9. ASSUME NEW o \in Jobs PROVE SourceInv(o)'
  <2>1. SourceInv(o) /\ RowsOf(o)' = RowsOf(o) /\ Source(o) \in Items
    BY <1>0, ItemFacts DEF Inv, RowsOf
  <2>2. \A q \in Appliers : /\ Detaches(q, Source(o))' => /\ Detaches(q, Source(o))
                                                          /\ applier'[q].rows = applier[q].rows
                            /\ Removes(q, Source(o))' => Removes(q, Source(o))
    BY <1>8, <2>1 DEF Calm, Source
  <2>3. Source(o) = applier[p].item => RowsOf(o) = {} \/ Source(o) \in overlapped
    BY <1>0, <2>1 DEF SourceInv, Removes
  <2>4. RowsOf(o) # {} => Source(o) \in disk' \cup overlapped \/ o \in cut
    BY <1>0, <2>1, <2>3 DEF SourceInv
  <2> QED BY <1>0, <2>1, <2>2, <2>4 DEF SourceInv, Source
<1>10. ASSUME NEW c \in Contents PROVE ArtifactInv(c)'
  <2>1. ArtifactInv(c) /\ (Uses(c)' <=> Uses(c)) /\ Artifact(c) \in Items
    BY <1>0, ItemFacts DEF Inv, Uses
  <2>2. \A q \in Appliers : /\ Detaches(q, Artifact(c))' => Detaches(q, Artifact(c))
                            /\ Removes(q, Artifact(c))' => Removes(q, Artifact(c))
    BY <1>8, <2>1 DEF Calm, Artifact
  <2>3. Artifact(c) = applier[p].item /\ Artifact(c) \notin overlapped =>
            c \notin path /\ ~Uses(c)
    BY <1>0, <2>1 DEF ArtifactInv, Removes
  <2>4. Artifact(c) \notin overlapped => (c \in path \/ Uses(c) => Artifact(c) \in disk')
    BY <1>0, <2>1, <2>3 DEF ArtifactInv
  <2> QED BY <1>0, <2>1, <2>2, <2>4 DEF ArtifactInv, Artifact
<1>11. \A j \in Jobs : JobInv(j)'
  BY <1>0 DEF Inv, JobInv, HasRow
<1> QED BY <1>5, <1>6, <1>7, <1>9, <1>10, <1>11 DEF Inv

\* The rows and references the applier saw are written; whatever came since has
\* the item overlapped.
LEMMA DetachWritesStep == ASSUME Inv, NEW p \in Appliers, DetachWrites(p) PROVE Inv'
<1>0. applier[p].pc = "detaching" /\ ApplierInv(p)
  BY DEF DetachWrites, Inv, PlanInv
<1>1. applier[p].item \in applier[p].todo /\ applier[p].todo \subseteq Items
  BY <1>0, PlanTypes DEF ApplierInv
<1> PICK i \in Items : i = applier[p].item
  BY <1>1
<1>2. CASE ~(applier[p].free /\ Attached(i))
  <2>1. UNCHANGED <<data, secrets, deleting, job, cut, overlapped>> /\ Record(p, i, "skipped")
    BY <1>2 DEF DetachWrites, data
  <2>2. i \in applier[p].todo /\ applier[p].pc # "idle" /\ faults' \in 0 .. MaxFaults
    BY <1>0, <1>1 DEF DetachWrites, Inv, Types
  <2> QED BY <2>1, <2>2, RecordStep
<1>3. CASE applier[p].free /\ Attached(i)
  <2> DEFINE new == [applier[p] EXCEPT !.pc = "removing", !.rows = {}, !.refs = Unbound]
             rows == applier[p].rows
  <2>0. applier[p] \in Applier /\ applier \in [Appliers -> Applier] /\ rows \subseteq Jobs
    BY DEF Inv, Types, Applier
  <2>1. /\ UNCHANGED <<disk, old, published, active, live, ingest, secrets, deleting>>
        /\ UNCHANGED <<faults, cut, overlapped, plan>>
        /\ path' = {c \in path : i # Artifact(c)}
        /\ bound' = [c \in Contents |-> IF i = Artifact(c) /\ bound[c] = applier[p].refs
                                        THEN Unbound ELSE bound[c]]
        /\ job' = [j \in Jobs |-> IF j \in rows THEN [job[j] EXCEPT !.path = FALSE] ELSE job[j]]
    BY <1>3 DEF DetachWrites
  <2>2. applier' = [applier EXCEPT ![p] = new]
    BY <1>3, <2>0 DEF DetachWrites
  <2>3. /\ new \in Applier /\ new.pc = "removing" /\ new.item = i /\ new.todo = applier[p].todo
    BY <2>0 DEF Applier
  <2> HIDE DEF new
  <2>4. /\ applier' \in [Appliers -> Applier] /\ applier'[p] = new
        /\ \A q \in Appliers : q # p => applier'[q] = applier[q]
    BY <2>2, <2>3, ApplierSet DEF Inv
  <2>5. ASSUME NEW j \in Jobs
        PROVE  /\ job'[j] \in Job /\ job'[j].pc = job[j].pc /\ job'[j].content = job[j].content
               /\ job'[j].source = job[j].source /\ job'[j].of = job[j].of
               /\ job'[j].path = (job[j].path /\ j \notin rows)
    <3>1. job[j] \in Job
      BY DEF Inv, Types
    <3>2. CASE j \in rows
      <4>1. job'[j] = [job[j] EXCEPT !.path = FALSE]
        BY <2>1, <3>2
      <4> QED BY <3>1, <3>2, <4>1 DEF Job
    <3>3. CASE j \notin rows
      <4>1. job'[j] = job[j]
        BY <2>1, <3>3
      <4> QED BY <3>1, <3>3, <4>1 DEF Job
    <3> QED BY <3>2, <3>3
  <2>6. job' \in [Jobs -> Job]
    BY <2>1, <2>5
  <2>7. /\ bound' \in [Contents -> Jobs \cup {Earlier, Unbound}]
        /\ path' \subseteq path /\ path' \subseteq Contents
        /\ \A c \in Contents : bound'[c] = bound[c] \/ (bound'[c] = Unbound /\ i = Artifact(c))
    BY <2>1 DEF Inv, Types
  <2>8. Types'
    BY <2>1, <2>4, <2>6, <2>7 DEF Inv, Types
  <2>9. \A j \in Jobs : HasRow(j)' <=> HasRow(j)
    BY <2>5 DEF HasRow
  <2>10. ASSUME NEW j \in Jobs PROVE JobInv(j)'
    <3>1. JobInv(j)
      BY DEF Inv
    <3>2. job'[j].pc \in Under => job'[j].path
      <4>1. \A k \in rows : job[k].pc \in Ended
        BY <1>0, <1>3 DEF ApplierInv
      <4>2. Under \cap Ended = {}
        BY DEF Under, Ended
      <4> QED BY <2>5, <3>1, <4>1, <4>2 DEF JobInv
    <3>3. ASSUME HasRow(j)'
          PROVE  /\ job'[j].content \in Contents
                 /\ job'[j].source \in Jobs /\ job'[job'[j].source].pc \in Under \cup Ended
      <4>1. job[j].content \in Contents /\ job[j].source \in Jobs /\ HasRow(job[j].source)
        BY <2>9, <3>1, <3>3 DEF JobInv
      <4> PICK o \in Jobs : o = job[j].source
        BY <4>1
      <4>2. job'[o].pc \in Under \cup Ended
        BY <2>5, <4>1 DEF HasRow
      <4> QED BY <2>5, <4>1, <4>2
    <3> QED BY <2>5, <3>1, <3>2, <3>3 DEF JobInv, HasRow
  <2>11. SecretsInv'
    <3>1. \A c \in path' : bound'[c] # Unbound
      BY <2>1, <2>7 DEF Inv, SecretsInv, Types
    <3> QED BY <2>1, <2>5, <2>7, <3>1 DEF Inv, SecretsInv
  <2>12. PlanInv'
    <3>1. ApplierInv(p)'
      BY <1>0, <1>1, <2>1, <2>3, <2>4 DEF ApplierInv
    <3>2. ASSUME NEW q \in Appliers, q # p PROVE ApplierInv(q)'
      <4>1. /\ ApplierInv(q) /\ applier'[q] = applier[q] /\ applier[q].todo \subseteq Items
            /\ applier[q].rows \subseteq Jobs
        BY <2>4, <3>2, PlanTypes DEF Inv, PlanInv, Applier
      <4> QED BY <2>1, <2>5, <4>1 DEF ApplierInv
    <3>3. \A q \in Appliers : ApplierInv(q)'
      BY <3>1, <3>2
    <3>4. /\ \A o \in Jobs : plan'.items[Source(o)] # "none" => HasRow(o)'
          /\ plan'.status = "applied" => \A k \in Items : plan'.items[k] # "planned"
      BY <2>1, <2>9 DEF Inv, PlanInv
    <3> QED BY <3>3, <3>4 DEF PlanInv, Source
  <2>13. ASSUME NEW q \in Appliers, NEW k \in Items
         PROVE  /\ Detaches(q, k)' => Detaches(q, k) /\ applier'[q].rows = applier[q].rows
                /\ Removes(q, k)' => Removes(q, k) \/ (q = p /\ k = i)
    BY <2>3, <2>4 DEF Detaches, Removes
  <2>14. ASSUME NEW o \in Jobs PROVE SourceInv(o)'
    <3>1. SourceInv(o) /\ Source(o) \in Items
      BY ItemFacts DEF Inv
    <3>2. RowsOf(o)' = RowsOf(o) \ rows
      BY <2>5 DEF RowsOf
    <3> DEFINE s == Source(o)
    <3>3. \A q \in Appliers : /\ Detaches(q, s)' => /\ Detaches(q, s)
                                                    /\ applier'[q].rows = applier[q].rows
                              /\ Removes(q, s)' => Removes(q, s) \/ (q = p /\ s = i)
      BY <2>13, <3>1 DEF Source
    <3>4. s \notin overlapped /\ s = i => RowsOf(o) \subseteq rows
      BY <1>0, <1>3, <3>1 DEF SourceInv, Detaches
    <3> QED BY <2>1, <3>1, <3>2, <3>3, <3>4 DEF SourceInv, Source
  <2>15. ASSUME NEW c \in Contents PROVE ArtifactInv(c)'
    <3>1. ArtifactInv(c) /\ (Uses(c)' <=> Uses(c)) /\ Artifact(c) \in Items
      BY <2>5, ItemFacts DEF Inv, Uses
    <3> DEFINE a == Artifact(c)
    <3>2. \A q \in Appliers : /\ Detaches(q, a)' => Detaches(q, a)
                              /\ Removes(q, a)' => Removes(q, a) \/ (q = p /\ a = i)
      BY <2>13, <3>1 DEF Artifact
    <3>3. CASE a # i
      <4>1. c \in path' <=> c \in path
        BY <2>1, <3>3
      <4> QED BY <2>1, <3>1, <3>2, <3>3, <4>1 DEF ArtifactInv, Artifact
    <3>4. CASE a = i
      <4>1. c \notin path'
        BY <2>1, <3>4
      <4>2. a \notin overlapped => c \notin {active, ingest} \cup live /\ ~Uses(c)
        BY <1>0, <1>3, <3>1, <3>4 DEF ArtifactInv, Detaches
      <4> QED BY <2>1, <3>1, <4>1, <4>2 DEF ArtifactInv, Artifact
    <3> QED BY <3>3, <3>4
  <2> QED BY <2>8, <2>10, <2>11, <2>12, <2>14, <2>15 DEF Inv
<1> QED BY <1>2, <1>3

-----------------------------------------------------------------------------
(* The theorems.                                                           *)

LEMMA InitInv == Init => Inv
<1> SUFFICES ASSUME Init PROVE Inv
  OBVIOUS
<1> DEFINE past == ToSet(History)
<1>0. past \subseteq Contents /\ Last(History) \in past
  BY StorageAssumption DEF ToSet, Last
<1> HIDE DEF past
<1>1. /\ disk = {Artifact(c) : c \in past} /\ old = disk /\ published = History /\ path = past
      /\ active \in past
      /\ bound = [c \in Contents |-> IF c \in past THEN Earlier ELSE Unbound]
      /\ secrets = Secrets /\ deleting = NoSecret /\ live = {} /\ ingest = NoContent
      /\ job = [j \in Jobs |-> NoJob] /\ plan = NoPlan
      /\ applier = [p \in Appliers |-> NoApplier]
      /\ faults = 0 /\ cut = {} /\ overlapped = {}
  BY <1>0 DEF Init, past
<1>2. Types
  <2>1. disk \subseteq Items /\ old \subseteq Items
    BY <1>0, <1>1 DEF Items
  <2>2. job \in [Jobs -> Job] /\ plan \in RetentionPlan /\ applier \in [Appliers -> Applier]
    BY <1>1, BlankFacts
  <2>3. bound \in [Contents -> Jobs \cup {Earlier, Unbound}]
    BY <1>1
  <2>4. published \in Seq(Contents) /\ faults \in 0 .. MaxFaults
    BY <1>1, StorageAssumption
  <2> QED BY <1>0, <1>1, <2>1, <2>2, <2>3, <2>4 DEF Types
<1>3. \A j \in Jobs : job[j].pc = "absent"
  BY <1>1, BlankFacts
<1>4. \A p \in Appliers : applier[p].pc = "idle"
  BY <1>1, BlankFacts
<1>5. \A j \in Jobs : JobInv(j)
  BY <1>3 DEF JobInv, HasRow, Under, Ended
<1>6. SecretsInv
  BY <1>0, <1>1, <1>3, StorageAssumption DEF SecretsInv, Earlier, Unbound
<1>7. PlanInv
  BY <1>1, <1>4, BlankFacts, ItemFacts DEF PlanInv, ApplierInv
<1>8. \A o \in Jobs : SourceInv(o)
  BY <1>3, <1>4 DEF SourceInv, RowsOf, Detaches, Removes, Under, Ended
<1>9. ASSUME NEW c \in Contents PROVE ArtifactInv(c)
  <2>1. ~Uses(c)
    BY <1>3 DEF Uses
  <2>2. c # ingest
    BY <1>1, StorageAssumption
  <2>3. c \in path => Artifact(c) \in disk
    BY <1>1
  <2> QED BY <1>1, <1>4, <2>1, <2>2, <2>3 DEF ArtifactInv, Detaches, Removes
<1> QED BY <1>2, <1>5, <1>6, <1>7, <1>8, <1>9 DEF Inv

LEMMA Stutter == ASSUME Inv, UNCHANGED vars PROVE Inv'
<1>0. /\ UNCHANGED <<disk, old, published, path, active, bound, secrets, deleting, live, ingest>>
      /\ UNCHANGED <<job, plan, applier, faults, cut, overlapped>>
  BY DEF vars
<1>1. Types' /\ SecretsInv'
  BY <1>0 DEF Inv, Types, SecretsInv
<1>2. \A o \in Jobs : SourceInv(o)'
  BY <1>0, RowsStay, SourcesKept DEF Inv
<1>3. \A c \in Contents : ArtifactInv(c)'
  BY <1>0, RowsStay, ArtifactsKept DEF Inv
<1> QED BY <1>0, <1>1, <1>2, <1>3, RowsStay DEF Inv
LEMMA NextStep == ASSUME Inv, Next PROVE Inv'
<1>1. CASE \E i \in Items : Age(i)
  BY <1>1, AgeStep
<1>2. CASE \E j \in Jobs, c \in Packages : Accept(j, c) \/ AcceptCut(j, c)
  BY <1>2, UploadStep
<1>3. CASE \E j \in Jobs : \/ Prepare(j) \/ SetDeploymentStage(j) \/ ActivateReference(j)
                           \/ Fail(j) \/ Reacquire(j)
  BY <1>3, DeployStep
<1>4. CASE \E j \in Jobs : BuildArtifact(j) \/ ActivateCommit(j)
  BY <1>4, BuildStep, CommitStep
<1>5. CASE \E j \in Jobs : RetryInsert(j) \/ \E o \in Jobs : RetryCheck(j, o)
  BY <1>5, RetryInsertStep, RetryCheckStep
<1>6. CASE \E c \in Contents : RollbackAutomation(c) \/ RunEnds(c)
  BY <1>6, RollbackStep, RunEndsStep
<1>7. CASE EnqueueSelect \/ EnqueueInsert
  BY <1>7, EnqueueStep
<1>8. CASE \/ \E s \in Secrets : PutEncryptedSecret(s) \/ DeleteSecretLock(s)
           \/ DeleteSecretCommit
  BY <1>8, SecretStep
<1>9. CASE \E keep \in Keeps : Plan(keep)
  BY <1>9, PlanStep
<1>10. CASE \E p \in Appliers : Apply(p) \/ CompleteRetentionPlan(p)
  BY <1>10, ApplyStep, CompleteStep
<1>11. CASE \E p \in Appliers : \/ \E i \in Items : SkipItem(p, i) \/ ItemFails(p, i)
                                \/ RemoveFails(p) \/ RecordDeleted(p)
  BY <1>11, OutcomeStep
<1>12. CASE \E p \in Appliers : \E i \in Items : DetachDecides(p, i)
  BY <1>12, DetachDecidesStep
<1>13. CASE \E p \in Appliers : DetachWrites(p) \/ RemoveStorage(p)
  BY <1>13, DetachWritesStep, RemoveStorageStep
<1> QED BY <1>1, <1>2, <1>3, <1>4, <1>5, <1>6, <1>7, <1>8, <1>9, <1>10, <1>11, <1>12, <1>13
        DEF Next

\* Every step of deployments, runs, secrets and retention keeps the inductive
\* invariant.
THEOREM Invariance == Spec => []Inv
<1>1. Inv /\ [Next]_vars => Inv'
  BY NextStep, Stutter
<1> QED BY InitInv, <1>1, PTL DEF Spec

\* The rows of revisions, deployments, secrets, plans and items, and the state of
\* every applier, keep their types.
THEOREM TypeCorrect == Spec => []TypeOK
<1>1. Inv => TypeOK
  <2> SUFFICES ASSUME Inv PROVE TypeOK
    OBVIOUS
  <2>1. Types /\ plan.items \in [Items -> Outcomes]
    BY PlanTypes DEF Inv
  <2>2. /\ \A j \in Jobs : job[j].pc \in {"absent", "retrying"} \cup Under \cup Ended
        /\ \A p \in Appliers :
              applier[p].pc \in {"idle", "applying", "detaching", "removing", "recording"}
        /\ plan.status \in {"none", "planned", "applying", "applied"}
    BY <2>1 DEF Types, Job, Applier, RetentionPlan
  <2> QED BY <2>1, <2>2 DEF TypeOK, Types, Outcomes
<1> QED BY Invariance, <1>1, PTL

\* A revision that can be run or rolled back to has its references recorded and
\* its secrets stored: DeleteSecret's count under FOR UPDATE, the FOR KEY SHARE
\* locks of an activation and the release in DetachRetentionItem never leave a
\* manifest without a secret it names.
THEOREM SecretsThere == Spec => []SecretsBound
<1>1. Inv => SecretsBound
  BY DEF Inv, SecretsInv, SecretsBound, Types
<1> QED BY Invariance, <1>1, PTL

\* CompleteRetentionPlan reports a plan applied only when each of its items has
\* an outcome, however many appliers claimed it one after the other.
THEOREM PlansComplete == Spec => []AppliedComplete
<1>1. Inv => AppliedComplete
  BY DEF Inv, PlanInv, AppliedComplete
<1> QED BY Invariance, <1>1, PTL

\* Apply removes no source that a deployment under way, or a retry that shares
\* it, still has to read, unless the retry was recorded between the decision of
\* DetachRetentionItem and the removal, or Accept had removed the source itself.
THEOREM SourcesThere == Spec => []SourceKept
<1>1. Inv => SourceKept
  <2> SUFFICES ASSUME Inv, NEW j \in Jobs, job[j].pc \in Under, job[j].source \notin cut,
                      Source(job[j].source) \notin overlapped
               PROVE  Source(job[j].source) \in disk
    BY DEF SourceKept
  <2>1. job[j].source \in Jobs /\ job[j].path
    BY DEF Inv, JobInv, HasRow
  <2>2. j \in RowsOf(job[j].source)
    BY <2>1 DEF RowsOf
  <2> QED BY <2>1, <2>2 DEF Inv, SourceInv
<1> QED BY Invariance, <1>1, PTL

\* An artifact the active revision, a pinned run or a rollback may ask for is on
\* disk: the second look of DetachRetentionItem suffices, except for an activation,
\* run or rollback that was under way on the artifact at the same time.
THEOREM ArtifactsThere == Spec => []ArtifactKept
<1>1. Inv => ArtifactKept
  BY DEF Inv, ArtifactInv, ArtifactKept
<1> QED BY Invariance, <1>1, PTL
=============================================================================
