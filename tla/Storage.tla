------------------------------ MODULE Storage ------------------------------
(***************************************************************************)
(* The storage of the control plane and who still needs it: retained       *)
(* package sources, content-addressed artifacts and named secrets, the     *)
(* deployments, runs and rollbacks that use them, and the retention plans  *)
(* that delete them (internal/service/retention.go and deployer.go;        *)
(* internal/database/retention.go and secrets.go;                          *)
(* internal/secretvault/vault.go).                                         *)
(*                                                                         *)
(* Abstractions.                                                           *)
(*  - One automation.  A content has one artifact and one revision row;    *)
(*    which of two revisions is the older is the order of "published".     *)
(*  - Age is a flag: older than sourceMaxAge or artifactMaxAge.            *)
(*  - The lease, steps and cancellation of a deployment are the subject    *)
(*    of Deployments; here it is its way to activation, which any error    *)
(*    may end and a new worker may start again.                            *)
(*  - The expiry of a plan only forbids to claim it, and an applier that   *)
(*    dies takes no further step: neither is an action of its own.         *)
(*  - A statement of READ COMMITTED that decides by a subquery and then    *)
(*    waits for a row lock (DetachRetentionItem) is two steps; a           *)
(*    transaction that decides under its locks is one, or two where it     *)
(*    holds a lock another transaction waits for.                          *)
(*  - The version and the value of a secret are left out: rotation changes *)
(*    neither the names nor who references them.                           *)
(***************************************************************************)
EXTENDS Integers, Sequences, FiniteSets, SequencesExt

CONSTANTS
    Contents, NoContent,
    MaxJobs,        \* bound: deployments
    MaxUploads,     \* bound: deployments that are not retries
    MaxRuns,        \* bound: revisions with unfinished runs
    Appliers,       \* requests that apply the plan
    Secrets, NoSecret,
    Needs,          \* [Contents -> SUBSET Secrets]: references of the manifest
    Packages,       \* bound: the contents that are uploaded
    Promoted,       \* contents whose manifest has build commands or checks
    History,        \* Seq(Contents): published long ago, the last one active
    Keeps,          \* the count floors a policy may ask for
    MaxFaults       \* bound: lapsed leases, lost requests, failed removals

ASSUME StorageAssumption ==
    /\ NoContent \notin Contents /\ NoSecret \notin Secrets
    /\ \A c \in Contents : Needs[c] \subseteq Secrets
    /\ Promoted \subseteq Contents /\ Packages \subseteq Contents
    /\ History \in Seq(Contents) /\ History # <<>>
    /\ Keeps \subseteq Nat
    /\ {MaxJobs, MaxUploads, MaxRuns, MaxFaults} \subseteq Nat

VARIABLES
    disk,       \* the items that are on disk
    old,        \* the items past their maximum age
    published,  \* the rows of revisions, in the order of created_at
    path,       \* the contents whose revision has an artifact_path
    active,     \* the content of the active revision
    bound,      \* revision_secret_references: the deployment that recorded them
    secrets,    \* the rows of secrets
    deleting,   \* the secret a DELETE request holds FOR UPDATE
    live,       \* the contents with a queued or running run
    ingest,     \* the revision an enqueueEvent has selected and not yet used
    job,        \* the rows of deployments and the workers on them
    plan,       \* a row of retention_plans and its retention_items
    applier,    \* RetentionManager.Apply
    faults,
    cut,        \* history: deployments whose upload request was cut off
    overlapped  \* history: the items that were detached while an activation, a
                \* new run or a retry that uses them was under way

vars == <<disk, old, published, path, active, bound, secrets, deleting, live, ingest,
          job, plan, applier, faults, cut, overlapped>>

data == <<disk, old, published, path, active, bound, live, ingest>>
retention == <<plan, applier>>

-----------------------------------------------------------------------------
(* Items, rows and their relations.                                        *)

Jobs == 1 .. MaxJobs

Artifact(c) == <<"artifact", c>>
Source(j) == <<"source", j>>
Items == {Artifact(c) : c \in Contents} \cup {Source(j) : j \in Jobs}

Under == {"queued", "prepared", "built", "activating", "referencing"}
Ended == {"succeeded", "failed"}

\* source: the upload it is built from; made: the order of created_at.
NoJob == [pc |-> "absent", content |-> NoContent, of |-> 0, source |-> 0, made |-> 0,
          path |-> FALSE, staged |-> FALSE]

\* Who recorded the references of a revision.
Unbound == 0
Earlier == -1

NoApplier == [pc |-> "idle", todo |-> {}, eligible |-> {}, item |-> NoContent,
              free |-> FALSE, rows |-> {}, refs |-> Unbound]

NoPlan == [status |-> "none", keep |-> 0, items |-> [i \in Items |-> "none"]]

\* The rows whose source_path is the directory of upload o.
RowsOf(o) == {j \in Jobs : job[j].pc \in Under \cup Ended /\ job[j].path /\ job[j].source = o}

\* A deployment that has recorded its content_hash and is not terminal.
DeployedBy(c) == \E j \in Jobs : job[j].pc \in Under /\ job[j].staged /\ job[j].content = c

\* Active, or referenced by a run or by a deployment.
Protected(c) == c = active \/ c \in live \/ DeployedBy(c)

Position(c) == CHOOSE n \in DOMAIN published : published[n] = c

\* The newest row of a source.
Newest(o) == Max({0} \cup {job[j].made : j \in RowsOf(o)})

Rows == {j \in Jobs : job[j].pc \in Under \cup Ended}

\* The row an upload of content c inserts.
Uploaded(j, c) ==
    /\ job[j].pc = "absent"
    /\ Cardinality({k \in Rows : job[k].source = k}) < MaxUploads
    /\ \A k \in Jobs : job[k].pc = "absent" => j <= k
    /\ job' = [job EXCEPT ![j] = [NoJob EXCEPT !.pc = "queued", !.content = c, !.source = j,
                                  !.made = Cardinality(Rows) + 1, !.path = TRUE]]

-----------------------------------------------------------------------------
(* Deployments (intake, deployer and worker).                              *)

Init ==
    /\ disk = {Artifact(c) : c \in ToSet(History)}
    /\ old = disk
    /\ published = History
    /\ path = ToSet(History)
    /\ active = Last(History)
    /\ bound = [c \in Contents |-> IF c \in ToSet(History) THEN Earlier ELSE Unbound]
    /\ secrets = Secrets
    /\ deleting = NoSecret
    /\ live = {}
    /\ ingest = NoContent
    /\ job = [j \in Jobs |-> NoJob]
    /\ plan = NoPlan
    /\ applier = [p \in Appliers |-> NoApplier]
    /\ faults = 0
    /\ cut = {}
    /\ overlapped = {}

Recorded(i) == IF i[1] = "artifact" THEN i[2] \in ToSet(published) ELSE RowsOf(i[2]) # {}

Made(i) == IF i[1] = "artifact" THEN Position(i[2]) ELSE Newest(i[2])

\* Time passes: items of a kind grow old in the order they were made.
Age(i) ==
    /\ i \notin old
    /\ Recorded(i)
    /\ \A k \in Items \ old : Recorded(k) /\ k[1] = i[1] => Made(i) <= Made(k)
    /\ old' = old \cup {i}
    /\ UNCHANGED <<disk, published, path, active, bound, secrets, deleting, live, ingest,
                   job, retention, faults, cut, overlapped>>

\* DeploymentIntake.Accept: the source is moved into place, then recorded.
Accept(j, c) ==
    /\ Uploaded(j, c)
    /\ disk' = disk \cup {Source(j)}
    /\ UNCHANGED <<old, published, path, active, bound, secrets, deleting, live, ingest,
                   retention, faults, cut, overlapped>>

\* The same, cut off after the INSERT: Accept returns an error and removes the
\* source of the deployment it has recorded.
AcceptCut(j, c) ==
    /\ Uploaded(j, c)
    /\ faults < MaxFaults
    /\ cut' = cut \cup {j}
    /\ faults' = faults + 1
    /\ UNCHANGED <<data, secrets, deleting, retention, overlapped>>

ValidateSecretReferences(c) == Needs[c] \subseteq secrets

\* Deployer.Prepare reads the source, checks that the secrets exist and hashes
\* the content; process() records the hash now if there is something to promote.
Prepare(j) ==
    /\ job[j].pc = "queued"
    /\ Source(job[j].source) \in disk
    /\ ValidateSecretReferences(job[j].content)
    /\ job' = [job EXCEPT ![j].pc = "prepared",
                          ![j].staged = @ \/ job[j].content \in Promoted]
    /\ UNCHANGED <<data, secrets, deleting, retention, faults, cut, overlapped>>

\* An applier is between its decision to detach i and the end of the removal.
Detaching(i) ==
    \E p \in Appliers : /\ applier[p].item = i
                        /\ \/ applier[p].pc = "detaching" /\ applier[p].free
                           \/ applier[p].pc = "removing"

Overlaps(i) == IF Detaching(i) THEN {i} ELSE {}

\* BuildArtifact: an artifact of this content that is there is verified (and its
\* commands run again on a copy of the source), else one is built from the source
\* and renamed into place.
BuildArtifact(j) ==
    LET a == Artifact(job[j].content) IN
    /\ job[j].pc = "prepared"
    /\ Source(job[j].source) \in disk \/ (a \in disk /\ job[j].content \notin Promoted)
    /\ disk' = disk \cup {a}
    /\ job' = [job EXCEPT ![j].pc = "built"]
    /\ overlapped' = overlapped \cup Overlaps(a)
    /\ UNCHANGED <<old, published, path, active, bound, secrets, deleting, live, ingest,
                   retention, faults, cut>>

\* SetDeploymentStage(activating) records the content hash.
SetDeploymentStage(j) ==
    /\ job[j].pc = "built"
    /\ job' = [job EXCEPT ![j].pc = "activating", ![j].staged = TRUE]
    /\ UNCHANGED <<data, secrets, deleting, retention, faults, cut, overlapped>>

Committing == \E j \in Jobs : job[j].pc = "referencing"

\* deploy(), up to replaceSecretReferences: the automation and revision rows are
\* locked, the secrets exist and are held FOR KEY SHARE.
ActivateReference(j) ==
    /\ job[j].pc = "activating"
    /\ ~Committing
    /\ deleting \notin Needs[job[j].content]
    /\ Needs[job[j].content] \subseteq secrets
    /\ job' = [job EXCEPT ![j].pc = "referencing"]
    /\ UNCHANGED <<data, secrets, deleting, retention, faults, cut, overlapped>>

\* deploy() commits: the revision, its artifact and references, the active
\* revision and the end of the deployment, all at once.
ActivateCommit(j) ==
    LET c == job[j].content IN
    /\ job[j].pc = "referencing"
    /\ published' = IF c \in ToSet(published) THEN published ELSE Append(published, c)
    /\ path' = path \cup {c}
    /\ active' = c
    /\ bound' = [bound EXCEPT ![c] = j]
    /\ job' = [job EXCEPT ![j].pc = "succeeded"]
    /\ UNCHANGED <<disk, old, secrets, deleting, live, ingest, retention, faults, cut, overlapped>>

\* A missing source or secret, a failed build or activation, a cancellation.
Fail(j) ==
    /\ job[j].pc \in Under
    /\ job' = [job EXCEPT ![j].pc = "failed"]
    /\ UNCHANGED <<data, secrets, deleting, retention, faults, cut, overlapped>>

\* The worker is gone: another one starts the deployment again.
Reacquire(j) ==
    /\ job[j].pc \in Under \ {"queued"}
    /\ faults < MaxFaults
    /\ job' = [job EXCEPT ![j].pc = "queued"]
    /\ faults' = faults + 1
    /\ UNCHANGED <<data, secrets, deleting, retention, cut, overlapped>>

\* RetryDeployment reads the original and looks for its source ...
RetryCheck(j, o) ==
    /\ job[j].pc = "absent"
    /\ \A k \in Jobs : job[k].pc = "absent" => j <= k
    /\ job[o].pc = "failed"
    /\ Source(job[o].source) \in disk
    /\ job[o].path
    /\ job' = [job EXCEPT ![j] = [NoJob EXCEPT !.pc = "retrying", !.of = o]]
    /\ UNCHANGED <<data, secrets, deleting, retention, faults, cut, overlapped>>

\* ... and its INSERT ... SELECT takes the original's source_path, if it is still
\* there.
RetryInsert(j) ==
    LET o == job[job[j].of]
        s == Source(o.source) IN
    /\ job[j].pc = "retrying"
    /\ IF o.pc = "failed" /\ o.path
       THEN /\ job' = [job EXCEPT ![j] = [NoJob EXCEPT !.pc = "queued", !.content = o.content,
                                                       !.source = o.source,
                                            !.made = Cardinality(Rows) + 1, !.path = TRUE]]
            /\ old' = old \ {s}
            /\ overlapped' = overlapped \cup Overlaps(s)
       ELSE job' = [job EXCEPT ![j] = NoJob] /\ UNCHANGED <<old, overlapped>>
    /\ UNCHANGED <<disk, published, path, active, bound, secrets, deleting, live, ingest,
                   retention, faults, cut>>

-----------------------------------------------------------------------------
(* Rollbacks and runs.                                                     *)

\* RollbackAutomation, under the locks of the automation and the revision.
RollbackAutomation(c) ==
    /\ ~Committing
    /\ c \in path \ {active}
    /\ active' = c
    /\ overlapped' = overlapped \cup Overlaps(Artifact(c))
    /\ UNCHANGED <<disk, old, published, path, bound, secrets, deleting, live, ingest,
                   job, retention, faults, cut>>

\* enqueueEvent selects the active revision ...
EnqueueSelect ==
    /\ ingest = NoContent /\ Cardinality(live) < MaxRuns
    /\ ingest' = active
    /\ UNCHANGED <<disk, old, published, path, active, bound, secrets, deleting, live,
                   job, retention, faults, cut, overlapped>>

\* ... and pins a new run to it, which may have been replaced by then.
EnqueueInsert ==
    /\ ingest # NoContent
    /\ live' = live \cup {ingest}
    /\ ingest' = NoContent
    /\ overlapped' = overlapped \cup Overlaps(Artifact(ingest))
    /\ UNCHANGED <<disk, old, published, path, active, bound, secrets, deleting,
                   job, retention, faults, cut>>

\* The last run of a revision ends.
RunEnds(c) ==
    /\ c \in live
    /\ live' = live \ {c}
    /\ UNCHANGED <<disk, old, published, path, active, bound, secrets, deleting, ingest,
                   job, retention, faults, cut, overlapped>>

-----------------------------------------------------------------------------
(* Secrets.                                                                *)

Referenced(s) == \E c \in Contents : bound[c] # Unbound /\ s \in Needs[c]

PutEncryptedSecret(s) ==
    /\ s \notin secrets
    /\ secrets' = secrets \cup {s}
    /\ UNCHANGED <<data, deleting, job, retention, faults, cut, overlapped>>

\* DeleteSecret locks the row FOR UPDATE, which waits for FOR KEY SHARE locks, and
\* counts the references.
DeleteSecretLock(s) ==
    /\ deleting = NoSecret
    /\ s \in secrets
    /\ \A j \in Jobs : job[j].pc = "referencing" => s \notin Needs[job[j].content]
    /\ ~Referenced(s)
    /\ deleting' = s
    /\ UNCHANGED <<data, secrets, job, retention, faults, cut, overlapped>>

DeleteSecretCommit ==
    /\ deleting # NoSecret
    /\ secrets' = secrets \ {deleting}
    /\ deleting' = NoSecret
    /\ UNCHANGED <<data, job, retention, faults, cut, overlapped>>

-----------------------------------------------------------------------------
(* Retention.                                                              *)

\* markArtifactCountProtection: among the newest "keep" that are unprotected.
KeptArtifact(c, keep) ==
    Cardinality({d \in path : ~Protected(d) /\ Position(d) > Position(c)}) < keep

Retryable(o) == \E j \in RowsOf(o) : job[j].pc = "failed"

\* The automation of a source is known once one of its deployments was staged.
Resolved(o) == \E j \in RowsOf(o) : job[j].staged

\* markSourceCountProtection: among the newest "keep" retryable sources of the
\* automation, or of those that failed before theirs was known.
KeptSource(o, keep) ==
    Cardinality({x \in Jobs : /\ Retryable(x) /\ Resolved(x) = Resolved(o)
                             /\ Newest(x) > Newest(o)}) < keep

\* selectRetentionCandidates.
Candidates(keep) ==
    {i \in old :
        IF i[1] = "artifact"
        THEN i[2] \in path /\ ~Protected(i[2]) /\ ~KeptArtifact(i[2], keep)
        ELSE /\ RowsOf(i[2]) # {}
             /\ \A j \in RowsOf(i[2]) : job[j].pc \in Ended
             /\ ~(Retryable(i[2]) /\ KeptSource(i[2], keep))}

\* The new plan and its items.
CreateRetentionPlan(keep, candidates) ==
    [status |-> "planned", keep |-> keep,
     items |-> [i \in Items |-> IF i \in candidates THEN "planned" ELSE "none"]]

\* Plan: the candidates are recorded (one without any changes nothing else).
Plan(keep) ==
    /\ plan.status = "none"
    /\ LET candidates == Candidates(keep) IN
       /\ candidates # {}
       /\ plan' = CreateRetentionPlan(keep, candidates)
    /\ UNCHANGED <<data, secrets, deleting, job, applier, faults, cut, overlapped>>

\* ClaimRetentionPlan, for the first time or when the lease of an applier, which
\* nothing renews, is over; Apply then selects the candidates again.
Apply(p) ==
    /\ applier[p].pc = "idle"
    /\ \/ plan.status = "planned" /\ UNCHANGED faults
       \/ plan.status = "applying" /\ faults < MaxFaults /\ faults' = faults + 1
    /\ plan' = [plan EXCEPT !.status = "applying"]
    /\ applier' = [applier EXCEPT ![p] =
                     LET planned == {i \in Items : plan.items[i] = "planned"} IN
                     [NoApplier EXCEPT !.pc = "applying", !.todo = planned,
                                       !.eligible = Candidates(plan.keep) \cap planned]]
    /\ UNCHANGED <<data, secrets, deleting, job, cut, overlapped>>

\* Mutant: an error is passed over without an outcome.
RecordNoFailure(p, i, outcome) ==
    /\ plan' = IF outcome = "failed" THEN plan ELSE [plan EXCEPT !.items[i] = outcome]
    /\ applier' = [applier EXCEPT ![p] = [NoApplier EXCEPT !.pc = "applying",
                       !.eligible = applier[p].eligible \ {i}, !.todo = applier[p].todo \ {i}]]

\* RecordRetentionItem: only a planned item gets an outcome; Apply ends with an
\* error when another applier was faster.
Record(p, i, outcome) ==
    IF plan.items[i] = "planned"
    THEN /\ plan' = [plan EXCEPT !.items[i] = outcome]
         /\ applier' = [applier EXCEPT ![p] = [NoApplier EXCEPT !.pc = "applying",
                            !.eligible = applier[p].eligible \ {i}, !.todo = applier[p].todo \ {i}]]
    ELSE plan' = plan /\ applier' = [applier EXCEPT ![p] = NoApplier]

\* The items are taken in the order of the plan: artifacts first.
Rank(i) == IF i[1] = "artifact" THEN Position(i[2]) ELSE Len(published) + i[2]

Takes(p, i) ==
    /\ applier[p].pc = "applying"
    /\ i \in applier[p].todo
    /\ \A k \in applier[p].todo : Rank(i) <= Rank(k)

\* The item became protected or is gone.
SkipItem(p, i) ==
    /\ Takes(p, i)
    /\ i \notin applier[p].eligible
    /\ Record(p, i, "skipped")
    /\ UNCHANGED <<data, secrets, deleting, job, faults, cut, overlapped>>

\* Inspecting or detaching it returns an error.
ItemFails(p, i) ==
    /\ Takes(p, i)
    /\ i \in applier[p].eligible
    /\ faults < MaxFaults
    /\ faults' = faults + 1
    /\ Record(p, i, "failed")
    /\ UNCHANGED <<data, secrets, deleting, job, cut, overlapped>>

\* Mutant: the statement trusts the plan.
FreeAsPlanned(i) == TRUE

\* The NOT EXISTS conditions of DetachRetentionItem.
Free(i) ==
    IF i[1] = "artifact" THEN ~Protected(i[2])
    ELSE \A j \in RowsOf(i[2]) : job[j].pc \in Ended

\* Someone has found artifact i in place, or selected its revision, and has not
\* recorded the use.
InUse(i) ==
    /\ i[1] = "artifact"
    /\ \/ ingest = i[2]
       \/ \E j \in Jobs : job[j].content = i[2] /\ job[j].pc \in {"built", "activating", "referencing"}

\* DetachRetentionItem takes its snapshot ...
DetachDecides(p, i) ==
    /\ Takes(p, i)
    /\ i \in applier[p].eligible
    /\ applier' = [applier EXCEPT ![p].pc = "detaching", ![p].item = i, ![p].free = Free(i),
                        ![p].rows = IF i[1] = "source" THEN RowsOf(i[2]) ELSE {},
                        ![p].refs = IF i[1] = "artifact" THEN bound[i[2]] ELSE Unbound]
    /\ overlapped' = IF Free(i) /\ InUse(i) THEN overlapped \cup {i} ELSE overlapped
    /\ UNCHANGED <<data, secrets, deleting, job, plan, faults, cut>>

\* The row of the item is still there when its lock is granted.
Attached(i) == IF i[1] = "artifact" THEN i[2] \in path ELSE RowsOf(i[2]) # {}

\* Mutant: the references go although the artifact stays.
DetachReleases(p) ==
    LET i == applier[p].item IN
    /\ applier[p].pc = "detaching"
    /\ \A j \in Jobs : job[j].pc = "referencing" => i # Artifact(job[j].content)
    /\ IF applier[p].free /\ Attached(i)
       THEN /\ path' = {c \in path : i # Artifact(c)}
            /\ applier' = [applier EXCEPT ![p].pc = "removing"]
            /\ UNCHANGED <<job, plan>>
       ELSE UNCHANGED <<path, job>> /\ Record(p, i, "skipped")
    /\ bound' = [c \in Contents |-> IF i = Artifact(c) THEN Unbound ELSE bound[c]]
    /\ UNCHANGED <<disk, old, published, active, live, ingest, secrets, deleting, faults, cut,
                   overlapped>>

\* ... and writes once the rows are not locked: the rows it saw lose the path, and
\* the references it saw are released.
DetachWrites(p) ==
    LET i == applier[p].item IN
    /\ applier[p].pc = "detaching"
    /\ \A j \in Jobs : job[j].pc = "referencing" => i # Artifact(job[j].content)
    /\ IF applier[p].free /\ Attached(i)
       THEN /\ path' = {c \in path : i # Artifact(c)}
            /\ bound' = [c \in Contents |-> IF i = Artifact(c) /\ bound[c] = applier[p].refs
                                            THEN Unbound ELSE bound[c]]
            /\ job' = [j \in Jobs |-> IF j \in applier[p].rows THEN [job[j] EXCEPT !.path = FALSE]
                                      ELSE job[j]]
            /\ applier' = [applier EXCEPT ![p].pc = "removing", ![p].rows = {},
                                          ![p].refs = Unbound]
            /\ UNCHANGED plan
       ELSE UNCHANGED <<path, bound, job>> /\ Record(p, i, "skipped")
    /\ UNCHANGED <<disk, old, published, active, live, ingest, secrets, deleting, faults, cut,
                   overlapped>>

\* os.RemoveAll, ...
RemoveStorage(p) ==
    /\ applier[p].pc = "removing"
    /\ disk' = disk \ {applier[p].item}
    /\ applier' = [applier EXCEPT ![p].pc = "recording"]
    /\ UNCHANGED <<old, published, path, active, bound, secrets, deleting, live, ingest, job,
                   plan, faults, cut, overlapped>>

\* ... or its error.
RemoveFails(p) ==
    /\ applier[p].pc = "removing"
    /\ faults < MaxFaults
    /\ faults' = faults + 1
    /\ Record(p, applier[p].item, "failed")
    /\ UNCHANGED <<data, secrets, deleting, job, cut, overlapped>>

RecordDeleted(p) ==
    /\ applier[p].pc = "recording"
    /\ Record(p, applier[p].item, "deleted")
    /\ UNCHANGED <<data, secrets, deleting, job, faults, cut, overlapped>>

\* CompleteRetentionPlan, unless another applier has completed it.
CompleteRetentionPlan(p) ==
    /\ applier[p].pc = "applying"
    /\ applier[p].todo = {}
    /\ plan' = IF plan.status = "applying" THEN [plan EXCEPT !.status = "applied"]
               ELSE plan
    /\ applier' = [applier EXCEPT ![p] = NoApplier]
    /\ UNCHANGED <<data, secrets, deleting, job, faults, cut, overlapped>>

-----------------------------------------------------------------------------
Next ==
    \/ \E i \in Items : Age(i)
    \/ \E j \in Jobs, c \in Packages : Accept(j, c) \/ AcceptCut(j, c)
    \/ \E j \in Jobs : \/ Prepare(j) \/ BuildArtifact(j) \/ SetDeploymentStage(j)
                       \/ ActivateReference(j) \/ ActivateCommit(j)
                       \/ Fail(j) \/ Reacquire(j) \/ RetryInsert(j)
                       \/ \E o \in Jobs : RetryCheck(j, o)
    \/ \E c \in Contents : RollbackAutomation(c) \/ RunEnds(c)
    \/ EnqueueSelect \/ EnqueueInsert
    \/ \E s \in Secrets : PutEncryptedSecret(s) \/ DeleteSecretLock(s)
    \/ DeleteSecretCommit
    \/ \E keep \in Keeps : Plan(keep)
    \/ \E p \in Appliers :
         \/ Apply(p)
         \/ \E i \in Items : SkipItem(p, i) \/ ItemFails(p, i) \/ DetachDecides(p, i)
         \/ DetachWrites(p) \/ RemoveStorage(p) \/ RemoveFails(p) \/ RecordDeleted(p)
         \/ CompleteRetentionPlan(p)

Spec == Init /\ [][Next]_vars

-----------------------------------------------------------------------------
TypeOK ==
    /\ disk \subseteq Items /\ old \subseteq Items
    /\ published \in Seq(Contents) /\ path \subseteq Contents /\ active \in Contents
    /\ bound \in [Contents -> Jobs \cup {Earlier, Unbound}]
    /\ secrets \subseteq Secrets /\ deleting \in secrets \cup {NoSecret}
    /\ live \subseteq Contents /\ ingest \in Contents \cup {NoContent}
    /\ \A j \in Jobs : job[j].pc \in {"absent", "retrying"} \cup Under \cup Ended
    /\ plan.status \in {"none", "planned", "applying", "applied"}
    /\ plan.items \in [Items -> {"none", "planned", "deleted", "skipped", "failed"}]
    /\ \A p \in Appliers :
         applier[p].pc \in {"idle", "applying", "detaching", "removing", "recording"}
    /\ faults \in 0 .. MaxFaults

\* A revision whose row names an artifact has it: the active one, and those a
\* rollback or a pinned run may ask for.  However long ago the plan was made and
\* whatever happened since, Apply takes none of them away, unless it worked on
\* the artifact at the very time an activation or a new run did.
ArtifactKept ==
    \A c \in Contents \ {k \in Contents : Artifact(k) \in overlapped} :
        /\ c \in {active} \cup live => c \in path
        /\ c \in path => Artifact(c) \in disk

\* A deployment that is not over can read its source, a retry's shared source
\* included; the exceptions are an upload that was cut off (AcceptCut) and a retry
\* recorded while the source was being detached.
SourceKept ==
    \A j \in Jobs :
        job[j].pc \in Under /\ job[j].source \notin cut /\ Source(job[j].source) \notin overlapped
            => Source(job[j].source) \in disk

\* Every revision that can be run or rolled back to has its references recorded
\* and its secrets there, whatever is deleted, activated or pruned at once.
SecretsBound == \A c \in path : bound[c] # Unbound /\ Needs[c] \subseteq secrets

\* A plan is reported applied once every item has its outcome, with a second
\* applier at work too.
AppliedComplete == plan.status = "applied" => \A i \in Items : plan.items[i] # "planned"

\* DetachRetentionItem "clears all database references only when the storage is
\* still unused", and its recheck closes "the race between plan creation and
\* execution": the artifact a deployment has made active is there.
DeployedArtifactKept == bound[active] \in Jobs => Artifact(active) \in disk
=============================================================================
