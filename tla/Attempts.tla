------------------------------ MODULE Attempts ------------------------------
(***************************************************************************)
(* What an attempt of a run does outside the database: the executors       *)
(* (internal/runner), Husker's virtual machines and the worker around them *)
(* (internal/service/worker.go).  The same module covers the two executors *)
(* of runs, "husker" and "process", and "build", the disposable VM that a  *)
(* deployment is built in.                                                 *)
(*                                                                         *)
(* Abstractions.                                                           *)
(*  - One run (one deployment for "build").  Its row is reduced to what    *)
(*    decides who may attempt it; RunQueue has the rest.                   *)
(*  - Husker is external: a request that was sent may be handled at any    *)
(*    time or never, even after its sender has gone, and its answer may be *)
(*    lost.  A DELETE is handled at once or not at all: names are never    *)
(*    used twice, so a late one removes what an earlier one would have.    *)
(*  - The calls that prepare a VM (readiness, uploads, mkdir and tar) are   *)
(*    one step; so are image, secrets and artifact verification before it, *)
(*    of which only success or failure matters here.                       *)
(*  - Time is counted in ticks; contexts end on time.                      *)
(*  - A download is two chunks; each change of the file changes the        *)
(*    modification time that Husker reports.                               *)
(***************************************************************************)
EXTENDS Integers, Sequences, FiniteSets

CONSTANTS
    Executors,      \* the executors to consider
    MaxAttempts,    \* bound: attempts of the run
    RetryLimit,     \* retry.maxAttempts of the manifest
    Provision, Runtime, Cleanup, Grace,   \* the time limits, in ticks
    MaxSends,       \* maxHuskerAttempts
    Takings,        \* sets of attempts whose VM name somebody else may hold
    MaxFaults,      \* bound: failed requests
    MaxLosses       \* bound: crashes, lapsed leases and shutdowns

ASSUME AttemptAssumption ==
    /\ Executors \subseteq {"husker", "process", "build"}
    /\ {MaxAttempts, RetryLimit, Provision, Runtime, Cleanup, Grace, MaxSends} \subseteq Nat \ {0}
    /\ {MaxFaults, MaxLosses} \subseteq Nat
    /\ Takings \subseteq SUBSET (1 .. MaxAttempts)

VARIABLES
    executor,
    row,        \* the row of the run: its status and attempt
    att,        \* the goroutine that executes each attempt
    vm,         \* the VM named after each attempt, or the process it started
    wire,       \* requests sent to Husker and not handled
    faults,     \* failed requests so far
    losses      \* crashes, lapsed leases and shutdowns so far

vars == <<executor, row, att, vm, wire, faults, losses>>

-----------------------------------------------------------------------------
Numbers == 1 .. MaxAttempts

\* The steps of an attempt that run under a deadline, and all others.
Timed == {"reap", "prepare", "create", "creating", "ready", "exec", "executing",
          "read", "package", "cleanup"}
Phases == Timed \cup {"idle", "record", "ended", "crashed"}

Request == [op : {"create", "exec"}, of : Numbers]

Attempt == [pc : Phases,
            left : 0 .. (Provision + Runtime + Cleanup + Grace),  \* until its deadline
            at : 0 .. MaxAttempts,   \* attempt whose VM is being reaped
            sends : 0 .. MaxSends,   \* sends of the request in progress
            own : BOOLEAN,           \* cleanupVM is deferred
            stop : BOOLEAN,          \* the process is shutting down
            cut : {"no", "shutdown", "lost"},      \* cause of the cancelled context
            err : {"no", "failed", "timeout", "canceled"},
            got : Seq(0 .. 1),       \* chunks downloaded: the versions they are of
            aborted : BOOLEAN,       \* history: a shutdown ended the execution
            told : BOOLEAN,          \* history: its create was answered
            swept : BOOLEAN]         \* history: the cleanup was confirmed

Machine == [st : {"none", "up", "gone"},
            taken : BOOLEAN,         \* made by somebody else
            life : Nat,              \* until Husker removes it
            cmd : {"no", "running", "ok", "bad"},   \* bad: another exit code, or killed
            ran : 0 .. Runtime,
            file : 0 .. 1,           \* version of the result file
            starts : Nat,            \* history: times the command was started
            deleter : 0 .. MaxAttempts,  \* history: the attempt that deleted it
            reapers : SUBSET Numbers,  \* history: attempts that removed it or saw it absent
            born : SUBSET Numbers,     \* history: those that had when it was created
            tardy : BOOLEAN]           \* history: created when nobody waited for it

Idle == [pc |-> "idle", left |-> 0, at |-> 0, sends |-> 0, own |-> FALSE, stop |-> FALSE,
         cut |-> "no", err |-> "no", got |-> <<>>, aborted |-> FALSE, told |-> FALSE,
         swept |-> FALSE]

NoMachine == [st |-> "none", taken |-> FALSE, life |-> 0, cmd |-> "no", ran |-> 0,
              file |-> 0, starts |-> 0, deleter |-> 0, reapers |-> {}, born |-> {}, tardy |-> FALSE]

Taken == [NoMachine EXCEPT !.st = "up", !.taken = TRUE]

\* The attempt is being executed, by a process that is alive.
Live(n) == att[n].pc \notin {"idle", "ended", "crashed"}

\* The context of attempt n has not ended: it may send a request.
Open(n) == att[n].cut = "no" /\ att[n].left > 0

\* The expiration createVM asks for.
Lifetime == IF executor = "build" THEN Provision + Runtime + Cleanup + 2 * Grace
            ELSE Provision + Runtime + Cleanup + Grace

TypeOK ==
    /\ executor \in Executors
    /\ row \in [status : {"queued", "running", "succeeded", "failed"}, attempt : 0 .. MaxAttempts]
    /\ att \in [Numbers -> Attempt]
    /\ vm \in [Numbers -> Machine]
    /\ wire \subseteq Request
    /\ faults \in 0 .. MaxFaults
    /\ losses \in 0 .. MaxLosses

Init ==
    /\ executor \in Executors
    /\ row = [status |-> "queued", attempt |-> 0]
    /\ att = [n \in Numbers |-> Idle]
    /\ \E taken \in Takings :
          vm = [n \in Numbers |-> IF executor = "husker" /\ n \in taken THEN Taken ELSE NoMachine]
    /\ wire = {}
    /\ faults = 0
    /\ losses = 0

Fault == faults < MaxFaults /\ faults' = faults + 1

Loss == losses < MaxLosses /\ losses' = losses + 1

-----------------------------------------------------------------------------
(* Claiming the run, and losing it.                                        *)

\* AcquireRun, and the first step of verifyingExecutor.Execute.  A lease
\* lapses when its worker has died, or has been kept from renewing it.
Acquire(n) ==
    /\ n = row.attempt + 1
    /\ executor = "build" => n = 1     \* builds have VMs of their own and never meet
    /\ \/ /\ row.status = "queued" \/ (row.status = "running" /\ att[row.attempt].pc = "crashed")
          /\ UNCHANGED losses
       \/ row.status = "running" /\ att[row.attempt].pc # "crashed" /\ Loss
    /\ row' = [status |-> "running", attempt |-> n]
    /\ att' = [att EXCEPT ![n] =
          CASE executor = "husker" /\ n > 1 -> [Idle EXCEPT !.pc = "reap", !.at = 1, !.left = Cleanup]
            [] executor = "process" -> [Idle EXCEPT !.pc = "exec", !.left = Runtime]
            [] OTHER -> [Idle EXCEPT !.pc = "prepare", !.left = Provision]]
    /\ UNCHANGED <<executor, vm, wire, faults>>

\* renewLease: the row is no longer this worker's, so the attempt is cancelled.
RenewLease(n) ==
    /\ Live(n) /\ att[n].pc # "record" /\ att[n].cut = "no"
    /\ row # [status |-> "running", attempt |-> n]
    /\ att' = [att EXCEPT ![n].cut = "lost"]
    /\ UNCHANGED <<executor, row, vm, wire, faults, losses>>

\* The process of attempt n is told to stop.
Shutdown(n) ==
    /\ Live(n) /\ ~att[n].stop /\ Loss
    /\ att' = [att EXCEPT ![n].stop = TRUE, ![n].cut = IF @ = "no" THEN "shutdown" ELSE @]
    /\ UNCHANGED <<executor, row, vm, wire, faults>>

\* The process of attempt n dies.  A command it started goes on.
Crash(n) ==
    /\ Live(n) /\ Loss
    /\ att' = [att EXCEPT ![n] = [Idle EXCEPT !.pc = "crashed"]]
    /\ UNCHANGED <<executor, row, vm, wire, faults>>

-----------------------------------------------------------------------------
(* Requests to Husker.                                                     *)

\* Mutant of Retries: every request is sent again.
RetriesAll(method, error, k) == k < MaxSends

\* retryDelay: may a request that was sent k times be sent again?
Retries(method, error, k) ==
    /\ k < MaxSends
    /\ \/ error = "limited"
       \/ error = "dropped" /\ method \in {"GET", "DELETE"}

\* Mutant of MayOwnVM: only a VM whose creation was confirmed is cleaned up.
OwnsCreated(outcome) == outcome = "created"

\* mayOwnVM: what the outcome of a create says about the VM.
MayOwnVM(outcome) == outcome # "taken"

\* Execute returns: error e, with the deferred cleanup ahead if there is one.
Leave(a, e) ==
    [a EXCEPT !.err = e, !.sends = 0,
              !.pc = IF a.own THEN "cleanup" ELSE "record",
              !.left = IF a.own THEN Cleanup ELSE 0]

\* createVM has returned with this error, or another request has.
Returned(a, error) ==
    [a EXCEPT !.own = IF a.pc \in {"create", "creating"} THEN MayOwnVM(error) ELSE @]

\* Mutant of WithContextErr: a cancelled download reports the last response.
LastRefusal(a) == IF a.pc = "read" THEN "failed" ELSE "canceled"

\* withContextErr: the error of an attempt whose context was cancelled says so.
WithContextErr(a) == "canceled"

\* A request failed: so does the attempt, for that reason or because its
\* context was cancelled.
Fails(a) ==
    IF a.cut = "no" THEN Leave(a, "failed")
    ELSE Leave([a EXCEPT !.aborted = a.cut = "shutdown"], WithContextErr(a))

Op(n) == IF att[n].pc \in {"create", "creating"} THEN "create" ELSE "exec"

\* sendJSON: a create that was refused is sent again, or the command of the run
\* is sent.
Post(n) ==
    /\ executor # "process" /\ att[n].pc \in {"create", "exec"} /\ Open(n)
    /\ wire' = wire \cup {[op |-> Op(n), of |-> n]}
    /\ att' = [att EXCEPT ![n].pc = IF @ = "create" THEN "creating" ELSE "executing",
                          ![n].sends = @ + 1]
    /\ UNCHANGED <<executor, row, vm, faults, losses>>

\* The rest of doJSON when a POST of attempt n failed with this error.
PostFailed(n, error) ==
    LET a == att[n]
    IN  att' = [att EXCEPT ![n] =
          IF Open(n) /\ Retries("POST", error, a.sends)
          THEN [a EXCEPT !.pc = IF @ = "creating" THEN "create" ELSE "exec"]
          ELSE Fails(Returned(a, error))]

\* 429: Husker refuses the request before it handles it.
PostLimited(n) ==
    /\ [op |-> Op(n), of |-> n] \in wire /\ att[n].pc \in {"creating", "executing"}
    /\ wire' = wire \ {[op |-> Op(n), of |-> n]}
    /\ Fault /\ PostFailed(n, "limited")
    /\ UNCHANGED <<executor, row, vm, losses>>

\* The connection drops, or a gateway answers: the request may have been
\* handled, may be handled later, or may be lost.
PostDropped(n) ==
    /\ executor # "process" /\ att[n].pc \in {"creating", "executing"}
    /\ Fault /\ PostFailed(n, "dropped")
    /\ UNCHANGED <<executor, row, vm, wire, losses>>

\* Husker creates the VM, unless the name is taken.
HuskerCreates(n) ==
    /\ [op |-> "create", of |-> n] \in wire
    /\ wire' = wire \ {[op |-> "create", of |-> n]}
    /\ vm' = IF vm[n].st = "up" THEN vm
             ELSE [vm EXCEPT ![n].st = "up", ![n].taken = FALSE, ![n].life = Lifetime,
                             ![n].deleter = 0, ![n].born = vm[n].reapers,
                             ![n].tardy = att[n].pc # "creating"]
    /\ UNCHANGED <<executor, row, att, faults, losses>>

CreateAnswered(n) ==
    /\ att[n].pc = "creating" /\ [op |-> "create", of |-> n] \notin wire
    /\ vm[n].st # "none"
    /\ att' = [att EXCEPT ![n] =
          IF vm[n].taken
          THEN Fails([att[n] EXCEPT !.told = TRUE, !.own = MayOwnVM("taken")])
          ELSE [att[n] EXCEPT !.told = TRUE, !.own = MayOwnVM("created"), !.pc = "ready", !.sends = 0]]
    /\ UNCHANGED <<executor, row, vm, wire, faults, losses>>

\* Husker starts the command in the VM.  The request to a VM that is gone is
\* answered with an error.
HuskerExecs(n) ==
    /\ [op |-> "exec", of |-> n] \in wire
    /\ wire' = wire \ {[op |-> "exec", of |-> n]}
    /\ vm' = IF vm[n].st # "up" THEN vm
             ELSE [vm EXCEPT ![n].cmd = "running", ![n].ran = 0, ![n].starts = @ + 1]
    /\ UNCHANGED <<executor, row, att, faults, losses>>

\* The VM (or the command) with the given number is removed.
Removed(m) == [m EXCEPT !.st = IF @ = "up" THEN "gone" ELSE @,
                        !.life = 0,
                        !.cmd = IF @ = "running" THEN "bad" ELSE @]

-----------------------------------------------------------------------------
(* The steps of an attempt.                                                *)

\* A DELETE by attempt n of VM m, handled.
Delete(n, m) == [Removed(vm[m]) EXCEPT !.deleter = IF vm[m].st = "up" THEN n ELSE @]

\* It is answered: the VM existed, or was gone already.
Deleted(n, m) ==
    vm' = [vm EXCEPT ![m] = [Delete(n, m) EXCEPT !.reapers = IF m = n THEN @ ELSE @ \cup {n}]]

\* It is not answered, and may have been handled.
DeleteDropped(n, m) == vm' \in {vm, [vm EXCEPT ![m] = Delete(n, m)]}

\* Mutant of ReapPriorAttempts: a DELETE that fails is only logged.
ReapUnconfirmed(n) ==
    /\ att[n].pc = "reap" /\ Open(n)
    /\ \/ Deleted(n, att[n].at) /\ UNCHANGED faults
       \/ DeleteDropped(n, att[n].at) /\ Fault
    /\ att' = [att EXCEPT ![n].pc = "prepare", ![n].left = Provision]
    /\ UNCHANGED <<executor, row, wire, losses>>

\* ReapPriorAttempts: every VM of an earlier attempt, in order.
ReapPriorAttempts(n) ==
    /\ att[n].pc = "reap" /\ Open(n)
    /\ LET a == att[n] IN
       \/ /\ Deleted(n, a.at)
          /\ att' = [att EXCEPT ![n] =
                IF a.at + 1 < n THEN [a EXCEPT !.at = @ + 1, !.sends = 0]
                ELSE [a EXCEPT !.pc = "prepare", !.sends = 0, !.left = Provision]]
          /\ UNCHANGED faults
       \/ /\ DeleteDropped(n, a.at) /\ Fault
          /\ att' = [att EXCEPT ![n] =
                IF Retries("DELETE", "dropped", a.sends + 1) THEN [a EXCEPT !.sends = @ + 1]
                ELSE Leave(a, "failed")]
    /\ UNCHANGED <<executor, row, wire, losses>>

\* Verify, resolveRuntimeEnvironment, archiveDirectory, ensureOCIImage, and the
\* first send of createVM.
Prepare(n) ==
    /\ att[n].pc = "prepare" /\ Open(n)
    /\ \/ /\ att' = [att EXCEPT ![n].pc = "creating", ![n].sends = 1]
          /\ wire' = wire \cup {[op |-> "create", of |-> n]}
          /\ UNCHANGED faults
       \/ att' = [att EXCEPT ![n] = Leave(@, "failed")] /\ Fault /\ UNCHANGED wire
    /\ UNCHANGED <<executor, row, vm, losses>>

\* The time limit of the command: withAttemptTimeout, runPromotionCommand.
CommandLimit == IF executor = "process" THEN Runtime ELSE Runtime + Grace

\* waitReady, the uploads and the commands that unpack them.
Provisioned(n) ==
    /\ att[n].pc = "ready" /\ Open(n)
    /\ vm[n].st = "up"
    /\ att' = [att EXCEPT ![n].pc = "exec", ![n].left = CommandLimit]
    /\ UNCHANGED <<executor, row, vm, wire, faults, losses>>

\* waitReady, uploadFile and writeChunk: the VM is not there, or a call fails.
ProvisionFails(n) ==
    /\ att[n].pc = "ready" /\ Open(n)
    /\ \/ vm[n].st # "up" /\ UNCHANGED faults
       \/ Fault
    /\ att' = [att EXCEPT ![n] = Leave(@, "failed")]
    /\ UNCHANGED <<executor, row, vm, wire, losses>>

\* ProcessRunner.Execute starts the command in a process group of its own.
StartProcess(n) ==
    /\ executor = "process" /\ att[n].pc = "exec" /\ Open(n)
    /\ \/ /\ att' = [att EXCEPT ![n].pc = "executing"]
          /\ vm' = [vm EXCEPT ![n].cmd = "running", ![n].starts = @ + 1]
          /\ UNCHANGED faults
       \/ att' = [att EXCEPT ![n] = Leave(@, "failed")] /\ Fault /\ UNCHANGED vm
    /\ UNCHANGED <<executor, row, wire, losses>>

\* The process has ended before its context has; its files are read.
ProcessEnds(n) ==
    /\ executor = "process" /\ att[n].pc = "executing" /\ Open(n)
    /\ vm[n].cmd \in {"ok", "bad"}
    /\ \/ /\ att' = [att EXCEPT ![n] = Leave(@, IF vm[n].cmd = "ok" THEN "no" ELSE "failed")]
          /\ UNCHANGED faults
       \/ att' = [att EXCEPT ![n] = Leave(@, "failed")] /\ Fault
    /\ UNCHANGED <<executor, row, vm, wire, losses>>

\* The command ends.
CommandExits(n) ==
    /\ vm[n].cmd = "running"
    /\ \E code \in {"ok", "bad"} : vm' = [vm EXCEPT ![n].cmd = code]
    /\ UNCHANGED <<executor, row, att, wire, faults, losses>>

\* Something the command left behind in the VM writes the result file.  Only a
\* write between two chunks makes a difference.
GuestWrites(n) ==
    /\ executor = "husker" /\ vm[n].st = "up" /\ vm[n].file = 0
    /\ att[n].pc = "read" /\ att[n].got # <<>>
    /\ vm' = [vm EXCEPT ![n].file = 1]
    /\ UNCHANGED <<executor, row, att, wire, faults, losses>>

\* The answer to the automation's exec; 124 and any other exit code but 0 fail
\* the attempt.
Executed(n) ==
    /\ executor = "husker" /\ att[n].pc = "executing"
    /\ [op |-> "exec", of |-> n] \notin wire
    /\ \/ /\ vm[n].st = "up" /\ vm[n].cmd = "ok"
          /\ att' = [att EXCEPT ![n].sends = 0, ![n].pc = "read"]
       \/ /\ vm[n].st = "up" /\ vm[n].cmd = "bad"
          /\ att' = [att EXCEPT ![n] = Leave(@, "failed")]
       \/ vm[n].st # "up" /\ att' = [att EXCEPT ![n] = Fails(@)]
    /\ UNCHANGED <<executor, row, vm, wire, faults, losses>>

\* The answer to a build command or a check; packaging gets a budget of its own.
RunPromotionCommand(n) ==
    /\ executor = "build" /\ att[n].pc = "executing"
    /\ [op |-> "exec", of |-> n] \notin wire
    /\ \/ /\ vm[n].st = "up" /\ vm[n].cmd = "ok"
          /\ att' = [att EXCEPT ![n].sends = 0, ![n].pc = "package",
                                ![n].left = @ + Provision]
       \/ /\ vm[n].st = "up" /\ vm[n].cmd = "bad"
          /\ att' = [att EXCEPT ![n] = Leave(@, "failed")]
       \/ vm[n].st # "up" /\ att' = [att EXCEPT ![n] = Fails(@)]
    /\ UNCHANGED <<executor, row, vm, wire, faults, losses>>

\* Mutant of SameFile: the modification time is not compared.
AnyFile(got, version) == TRUE

\* readFileLimited: the chunks must be of one file, as far as size and
\* modification time tell.
SameFile(got, version) == \A i \in DOMAIN got : got[i] = version

\* readFile, and the validation of what was read.
ReadResult(n) ==
    /\ att[n].pc = "read" /\ Open(n)
    /\ LET a == att[n]
           chunk == vm[n].file
           good == vm[n].st = "up" /\ SameFile(a.got, chunk)
       IN  \/ /\ good /\ UNCHANGED faults
              /\ LET b == [a EXCEPT !.got = Append(@, chunk)]
                 IN  att' = [att EXCEPT ![n] = IF Len(b.got) = 2 THEN Leave(b, "no") ELSE b]
           \/ ~good /\ att' = [att EXCEPT ![n] = Leave(a, "failed")] /\ UNCHANGED faults
           \/ good /\ att' = [att EXCEPT ![n] = Leave(a, "failed")] /\ Fault
    /\ UNCHANGED <<executor, row, vm, wire, losses>>

\* The end of Build: the output is packed, downloaded and takes the place of
\* the directory.
PackageOutput(n) ==
    /\ att[n].pc = "package" /\ Open(n)
    /\ \/ /\ vm[n].st = "up" /\ UNCHANGED faults
          /\ att' = [att EXCEPT ![n] = Leave(@, "no")]
       \/ /\ vm[n].st # "up" /\ UNCHANGED faults
          /\ att' = [att EXCEPT ![n] = Leave(@, "failed")]
       \/ att' = [att EXCEPT ![n] = Leave(@, "failed")] /\ Fault
    /\ UNCHANGED <<executor, row, vm, wire, losses>>

\* Mutant of ContextEnds: the contexts have no deadline.
NoDeadline(n) ==
    /\ att[n].pc \in Timed \ {"cleanup"} /\ att[n].cut # "no"
    /\ att' = [att EXCEPT ![n] = Leave(Returned(@, "dropped"), WithContextErr(@))]
    /\ vm' = IF executor = "process" THEN [vm EXCEPT ![n] = Removed(@)] ELSE vm
    /\ UNCHANGED <<executor, row, wire, faults, losses>>

\* The context of attempt n ends: it is cancelled, or its deadline passes.  A
\* process group is killed with it.
ContextEnds(n) ==
    /\ att[n].pc \in Timed \ {"cleanup"}
    /\ LET a == Returned(att[n], "dropped") IN
       \/ a.cut # "no" /\ att' = [att EXCEPT ![n] = Fails(a)]
       \/ /\ a.left = 0
          /\ att' = [att EXCEPT ![n] =
                Leave(a, IF a.pc \in {"exec", "executing"} THEN "timeout" ELSE "failed")]
    /\ vm' = IF executor = "process" THEN [vm EXCEPT ![n] = Removed(@)] ELSE vm
    /\ UNCHANGED <<executor, row, wire, faults, losses>>

\* cleanupVM: a DELETE under a context of its own; its failure is only logged.
CleanupVM(n) ==
    /\ att[n].pc = "cleanup"
    /\ LET a == att[n]
           Ends(swept) == [a EXCEPT !.pc = "record", !.left = 0, !.sends = 0, !.swept = swept]
       IN  \/ /\ a.left > 0 /\ Deleted(n, n) /\ UNCHANGED faults
              /\ att' = [att EXCEPT ![n] = Ends(TRUE)]
           \/ /\ a.left > 0 /\ DeleteDropped(n, n) /\ Fault
              /\ att' = [att EXCEPT ![n] =
                    IF Retries("DELETE", "dropped", a.sends + 1)
                    THEN [a EXCEPT !.sends = @ + 1] ELSE Ends(FALSE)]
           \/ /\ a.left = 0 /\ UNCHANGED <<vm, faults>>
              /\ att' = [att EXCEPT ![n] = Ends(FALSE)]
    /\ UNCHANGED <<executor, row, wire, losses>>

\* The end of runOnce: the outcome is recorded if the lease is still held.
\* What a build means for the deployment is in Deployments.
RecordOutcome(n) ==
    /\ att[n].pc = "record"
    /\ LET a == att[n]
           interrupted == a.stop /\ a.err = "canceled"
           failed == a.err # "no" \/ a.cut = "lost"
       IN  row' = IF executor = "build" \/ row # [status |-> "running", attempt |-> n]
                  THEN row
                  ELSE [row EXCEPT !.status =
                     CASE interrupted -> "queued"
                       [] ~interrupted /\ failed ->
                             IF n < RetryLimit THEN "queued" ELSE "failed"
                       [] ~interrupted /\ ~failed -> "succeeded"]
    /\ att' = [att EXCEPT ![n] = [@ EXCEPT !.pc = "ended", !.cut = "no", !.stop = FALSE, !.err = "no"]]
    /\ UNCHANGED <<executor, vm, wire, faults, losses>>

-----------------------------------------------------------------------------
\* A tick of the clock.  Husker removes VMs that expire, and ends a command
\* at its time limit (exit code 124).
Tick ==
    /\ \A n \in Numbers : att[n].pc \in Timed => att[n].left > 0
    /\ att' = [n \in Numbers |-> IF att[n].pc \in Timed THEN [att[n] EXCEPT !.left = @ - 1]
                                 ELSE att[n]]
    /\ vm' = [n \in Numbers |->
          LET m == vm[n]
              timed == m.cmd = "running" /\ executor # "process"
              run == [m EXCEPT !.ran = IF timed THEN @ + 1 ELSE @,
                               !.cmd = IF timed /\ m.ran + 1 = Runtime THEN "bad" ELSE @]
          IN  CASE m.st = "up" /\ m.life = 1 -> Removed(m)
                [] m.st = "up" /\ m.life > 1 -> [run EXCEPT !.life = @ - 1]
                [] m.st # "up" \/ m.life = 0 -> m]
    /\ UNCHANGED <<executor, row, wire, faults, losses>>

\* What the process of attempt n does by itself.
Works(n) ==
    \/ Post(n) \/ CreateAnswered(n) \/ ReapPriorAttempts(n) \/ Prepare(n)
    \/ Provisioned(n) \/ ProvisionFails(n) \/ StartProcess(n) \/ ProcessEnds(n)
    \/ Executed(n) \/ RunPromotionCommand(n) \/ ReadResult(n)
    \/ PackageOutput(n) \/ ContextEnds(n) \/ CleanupVM(n) \/ RecordOutcome(n)

Next ==
    \/ \E n \in Numbers :
          \/ Acquire(n) \/ RenewLease(n) \/ Shutdown(n) \/ Crash(n)
          \/ PostLimited(n) \/ PostDropped(n) \/ HuskerCreates(n) \/ HuskerExecs(n)
          \/ CommandExits(n) \/ GuestWrites(n) \/ Works(n)
    \/ Tick

Spec == Init /\ [][Next]_vars

\* Contexts end and the process goes on; Husker may never answer.
Fairness ==
    /\ WF_vars(Tick)
    /\ \A n \in Numbers :
          WF_vars(ContextEnds(n)) /\ WF_vars(CleanupVM(n)) /\ WF_vars(RecordOutcome(n))

FairSpec == Spec /\ Fairness

-----------------------------------------------------------------------------
(* Properties.                                                             *)

\* The command of an attempt is started at most once, and the commands of two
\* attempts of a run are not under way at the same time, except where the
\* code cannot prevent it: with Husker, a superseded worker created its VM
\* after the later attempt had found it absent (ReapPriorAttempts); with
\* processes, the earlier worker died, or has not yet noticed that it lost
\* its lease.
OneExecution ==
    /\ \A n \in Numbers : vm[n].starts <= 1
    /\ executor # "build" =>
          \A m, n \in Numbers :
             m < n /\ vm[m].cmd = "running" /\ vm[n].cmd = "running" =>
                IF executor = "husker" THEN n \in vm[m].born
                ELSE att[m].pc \in {"crashed", "executing"}

\* A VM is there as long as its attempt uses it, unless a later attempt
\* removed it (the lifetime covers provisioning and execution; not the
\* packaging of a build).  What is left of an attempt that ended is a VM whose
\* cleanup failed, or that Husker created when nobody waited for it any more;
\* never a process.  An attempt that was told that the name is taken does not
\* remove the VM.
VMsAccounted ==
    \A n \in Numbers :
       /\ att[n].pc \in {"ready", "exec", "executing", "read"} /\ executor # "process"
             /\ vm[n].st = "gone" => vm[n].deleter > n
       /\ att[n].pc = "ended" /\ vm[n].st = "up" /\ ~vm[n].taken =>
             (att[n].own /\ ~att[n].swept) \/ vm[n].tardy
       /\ att[n].pc = "ended" /\ executor = "process" => vm[n].cmd # "running"
       /\ vm[n].taken /\ att[n].told => vm[n].deleter # n

\* A run that succeeded did so by a command that exited with 0 in the last
\* attempt, and its result is one version of the file.  A run that failed was
\* not failed by a shutdown that interrupted its last attempt.
OutcomeTrue ==
    /\ row.status = "succeeded" =>
          /\ vm[row.attempt].cmd = "ok"
          /\ \A i, j \in DOMAIN att[row.attempt].got :
                att[row.attempt].got[i] = att[row.attempt].got[j]
    /\ row.status = "failed" => ~att[row.attempt].aborted

\* Every attempt ends, even if Husker never answers.
AttemptsEnd == \A n \in Numbers : Live(n) ~> ~Live(n)
=============================================================================
