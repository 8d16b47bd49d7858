--------------------------- MODULE AttemptsProofs ---------------------------
(***************************************************************************)
(* Proofs about Attempts for any executors, number of attempts, time       *)
(* limits, sends of a request, names that are taken, faults and losses.    *)
(***************************************************************************)
EXTENDS Attempts, TLAPS

-----------------------------------------------------------------------------
(* The inductive invariant.                                                *)
(*                                                                         *)
(* Most of it is about one attempt: its number n, what its goroutine is    *)
(* doing (a), its VM or process (m) and its requests on the wire (w), with *)
(* the executor e.                                                         *)

\* The requests of attempt n that were sent and not handled.
Pending(n) == {o \in {"create", "exec"} : [op |-> o, of |-> n] \in wire}

Before == {"idle", "reap", "prepare", "create"}
After == {"cleanup", "record", "ended", "crashed"}

\* A create is handled once and an exec is handled once, although both are
\* sent again after a refusal.
WireSound(a, m, w) ==
    /\ "create" \in w => a.pc \in {"creating"} \cup After
    /\ "create" \in w \/ a.pc \in Before => m.st = "none" \/ m.taken
    /\ a.pc \in Before \cup {"creating", "ready", "exec"} => m.starts = 0 /\ "exec" \notin w
    /\ "exec" \in w => m.starts = 0
    /\ m.starts <= 1
    /\ m.cmd # "no" => m.starts = 1
    /\ a.pc \in {"create", "ready", "exec"} => a.sends < MaxSends

\* The VM lives longer than whoever needs it goes on: what is left of its life
\* covers the deadline of the phase and the phases that follow.
TimeSound(e, n, a, m) ==
    /\ a.pc \in {"prepare", "create", "creating", "ready"} => a.left <= Provision
    /\ a.pc \in {"exec", "executing", "read"} => a.left <= Runtime + Grace
    /\ a.pc \in {"creating", "ready"} /\ m.st = "up" /\ ~m.taken =>
          m.life >= a.left + Runtime + Grace + Cleanup
    /\ e # "process" /\ a.pc \in {"exec", "executing", "read"} /\ m.st = "up" =>
          m.life >= a.left + Cleanup
    /\ e # "process" /\ a.pc \in {"ready", "exec", "executing", "read"} =>
          ~m.taken /\ m.st # "none"
    /\ a.pc \in {"creating", "ready", "exec", "executing", "read"} /\ m.st = "gone" /\ ~m.taken =>
          m.deleter > n
    /\ m.cmd = "running" => m.ran < Runtime
    /\ m.starts = 0 => m.ran = 0

\* Who removes the VM.
OwnerSound(n, a, m) ==
    /\ m.st = "up" /\ ~m.taken /\ ~m.tardy =>
          a.pc \in {"creating", "crashed"} \/ (a.own /\ ~a.swept)
    /\ a.swept => a.pc \in {"record", "ended"}
    /\ a.pc = "cleanup" => a.own
    /\ m.taken /\ a.told => ~a.own /\ m.deleter # n /\ a.pc \in {"record", "ended"}
    /\ m.deleter = n => a.pc \in After

\* What the executors differ in.
ExecutorSound(e, n, a, m, w) ==
    /\ e = "process" => /\ a.pc \in {"idle", "exec", "executing", "record", "ended", "crashed"}
                        /\ ~a.own /\ m.st = "none" /\ w = {}
                        /\ m.cmd = "running" => a.pc \in {"executing", "crashed"}
    /\ e # "process" /\ m.cmd = "running" => m.st = "up"
    /\ a.pc = "reap" => a.at \in 1 .. n - 1
    /\ a.pc = "package" => e = "build"

\* What the attempt is about to record.
OutcomeSound(e, a, m) ==
    /\ a.pc = "read" => m.cmd = "ok"
    /\ a.pc \in {"cleanup", "record"} /\ a.err = "no" /\ e # "build" => m.cmd = "ok"
    /\ \A i, j \in DOMAIN a.got : a.got[i] = a.got[j]
    /\ a.aborted => a.pc \in {"cleanup", "record", "ended"}
    /\ a.aborted /\ a.pc # "ended" => a.stop /\ a.err = "canceled"
    /\ a.cut = "shutdown" => a.stop

Sound(e, n, a, m, w) ==
    /\ WireSound(a, m, w)
    /\ TimeSound(e, n, a, m)
    /\ OwnerSound(n, a, m)
    /\ ExecutorSound(e, n, a, m, w)
    /\ OutcomeSound(e, a, m)

\* Attempt n executes, or will without another look at earlier attempts.
Reaped(n) ==
    \/ att[n].pc \in {"prepare", "create", "creating", "ready", "exec"}
    \/ "exec" \in Pending(n)
    \/ vm[n].starts > 0

\* It has removed the VM of every earlier attempt k or seen it absent, and what
\* is there of k now was created afterwards.
ReapSound(n, k) ==
    /\ executor = "husker" /\ Reaped(n) => n \in vm[k].reapers
    /\ att[n].pc = "reap" /\ k < att[n].at => n \in vm[k].reapers
    /\ n \in vm[k].reapers /\ vm[k].st = "up" => n \in vm[k].born

\* The row of the run.
RowSound ==
    /\ row.status # "queued" => row.attempt \in Numbers
    /\ \A n \in Numbers : n > row.attempt => att[n].pc = "idle"
    /\ row.status \in {"succeeded", "failed"} => att[row.attempt].pc = "ended"
    /\ row.status = "succeeded" => vm[row.attempt].cmd = "ok"
    /\ row.status = "failed" => ~att[row.attempt].aborted

Inv ==
    /\ TypeOK
    /\ \A n \in Numbers : Sound(executor, n, att[n], vm[n], Pending(n))
    /\ \A n, k \in Numbers : k < n => ReapSound(n, k)
    /\ RowSound

-----------------------------------------------------------------------------
(* Records.                                                                *)

LEMMA Limits ==
    /\ MaxAttempts \in Nat \ {0} /\ Provision \in Nat \ {0} /\ Runtime \in Nat \ {0}
    /\ Cleanup \in Nat \ {0} /\ Grace \in Nat \ {0} /\ MaxSends \in Nat \ {0}
    /\ MaxFaults \in Nat /\ MaxLosses \in Nat
BY AttemptAssumption

LEMMA Blank ==
    /\ Idle \in Attempt /\ Idle.pc = "idle" /\ Idle.left = 0 /\ Idle.sends = 0 /\ Idle.at = 0
    /\ Idle.own = FALSE /\ Idle.stop = FALSE /\ Idle.cut = "no" /\ Idle.err = "no"
    /\ Idle.got = <<>> /\ Idle.aborted = FALSE /\ Idle.told = FALSE /\ Idle.swept = FALSE
BY Limits DEF Idle, Attempt, Phases

LEMMA BlankMachine ==
    ASSUME NEW m \in {NoMachine, Taken}
    PROVE  /\ m \in Machine /\ m.starts = 0 /\ m.cmd = "no" /\ m.deleter = 0 /\ m.reapers = {} /\ m.ran = 0
           /\ m = NoMachine => m.st = "none" /\ ~m.taken
           /\ m = Taken => m.st = "up" /\ m.taken
<1>1. /\ NoMachine \in Machine /\ NoMachine.starts = 0 /\ NoMachine.cmd = "no"
      /\ NoMachine.deleter = 0 /\ NoMachine.reapers = {} /\ NoMachine.ran = 0
      /\ NoMachine.st = "none" /\ ~NoMachine.taken
  BY Limits DEF NoMachine, Machine, Numbers
<1> HIDE DEF NoMachine
<1>2. Taken = [NoMachine EXCEPT !.st = "up", !.taken = TRUE]
  BY DEF Taken
<1>3. Taken \in Machine
  BY <1>1, <1>2 DEF Machine
<1>4. /\ Taken.starts = 0 /\ Taken.cmd = "no" /\ Taken.deleter = 0 /\ Taken.reapers = {}
      /\ Taken.st = "up" /\ Taken.taken = TRUE /\ Taken.ran = 0
  BY <1>1, <1>2 DEF Machine
<1> HIDE DEF Taken
<1>5. CASE m = NoMachine
  BY <1>1, <1>4, <1>5
<1>6. CASE m = Taken
  BY <1>1, <1>3, <1>4, <1>6
<1> QED BY <1>5, <1>6

Errors == {"no", "failed", "timeout", "canceled"}

\* What Leave keeps and sets.
LEMMA LeaveFacts ==
    ASSUME NEW a \in Attempt, NEW error \in Errors
    PROVE  /\ Leave(a, error) \in Attempt
           /\ Leave(a, error).pc = IF a.own THEN "cleanup" ELSE "record"
           /\ Leave(a, error).err = error /\ Leave(a, error).own = a.own
           /\ Leave(a, error).stop = a.stop /\ Leave(a, error).cut = a.cut
           /\ Leave(a, error).got = a.got /\ Leave(a, error).aborted = a.aborted
           /\ Leave(a, error).told = a.told /\ Leave(a, error).swept = a.swept
<1> DEFINE pc == IF a.own THEN "cleanup" ELSE "record"
           left == IF a.own THEN Cleanup ELSE 0
<1>1. pc \in Phases /\ left \in 0 .. (Provision + Runtime + Cleanup + Grace) /\ 0 \in 0 .. MaxSends
  BY Limits DEF Phases, Timed
<1>2. Leave(a, error) = [a EXCEPT !.err = error, !.sends = 0, !.pc = pc, !.left = left]
  BY DEF Leave
<1> HIDE DEF left
<1>3. [a EXCEPT !.err = error, !.sends = 0, !.pc = pc, !.left = left] \in Attempt
  BY <1>1 DEF Attempt, Errors
<1> QED BY <1>2, <1>3 DEF Attempt

LEMMA FailsFacts ==
    ASSUME NEW a \in Attempt
    PROVE  /\ Fails(a) \in Attempt
           /\ Fails(a).pc = IF a.own THEN "cleanup" ELSE "record"
           /\ Fails(a).err \in {"failed", "canceled"} /\ Fails(a).own = a.own
           /\ Fails(a).stop = a.stop /\ Fails(a).cut = a.cut
           /\ Fails(a).got = a.got
           /\ Fails(a).told = a.told /\ Fails(a).swept = a.swept
           /\ Fails(a).aborted => a.aborted \/ (a.cut = "shutdown" /\ Fails(a).err = "canceled")
<1>1. CASE a.cut = "no"
  <2>1. Fails(a) = Leave(a, "failed") /\ "failed" \in Errors
    BY <1>1 DEF Fails, Errors
  <2> QED BY <2>1, LeaveFacts
<1>2. CASE a.cut # "no"
  <2> DEFINE b == [a EXCEPT !.aborted = a.cut = "shutdown"]
  <2>1. Fails(a) = Leave(b, "canceled") /\ "canceled" \in Errors
    BY <1>2 DEF Fails, WithContextErr, Errors
  <2>2. /\ b \in Attempt /\ b.own = a.own /\ b.stop = a.stop /\ b.cut = a.cut /\ b.got = a.got
        /\ b.told = a.told /\ b.swept = a.swept /\ (b.aborted => a.cut = "shutdown")
    BY DEF Attempt
  <2> HIDE DEF b
  <2> QED BY <2>1, <2>2, LeaveFacts
<1> QED BY <1>1, <1>2

\* createVM may own a VM it was not told about.
LEMMA ReturnedFacts ==
    ASSUME NEW a \in Attempt, NEW error \in {"limited", "dropped"}
    PROVE  /\ Returned(a, error) \in Attempt
           /\ Returned(a, error).own = IF a.pc \in {"create", "creating"} THEN TRUE ELSE a.own
           /\ Returned(a, error).pc = a.pc /\ Returned(a, error).left = a.left
           /\ Returned(a, error).stop = a.stop /\ Returned(a, error).cut = a.cut
           /\ Returned(a, error).got = a.got /\ Returned(a, error).aborted = a.aborted
           /\ Returned(a, error).told = a.told /\ Returned(a, error).swept = a.swept
<1> DEFINE own == IF a.pc \in {"create", "creating"} THEN TRUE ELSE a.own
<1>1. own \in BOOLEAN
  BY DEF Attempt
<1>2. Returned(a, error) = [a EXCEPT !.own = own]
  BY DEF Returned, MayOwnVM
<1> HIDE DEF own
<1>3. [a EXCEPT !.own = own] \in Attempt
  BY <1>1 DEF Attempt
<1>4. Returned(a, error).own = own
  BY <1>2 DEF Attempt
<1> QED BY <1>2, <1>3, <1>4 DEF Attempt, own

\* What a DELETE, an expiry or a kill makes of a machine.
LEMMA RemovedFacts ==
    ASSUME NEW m \in Machine
    PROVE  /\ Removed(m) \in Machine
           /\ Removed(m).st = IF m.st = "up" THEN "gone" ELSE m.st
           /\ Removed(m).cmd = IF m.cmd = "running" THEN "bad" ELSE m.cmd
           /\ Removed(m).taken = m.taken /\ Removed(m).starts = m.starts
           /\ Removed(m).deleter = m.deleter /\ Removed(m).tardy = m.tardy
           /\ Removed(m).reapers = m.reapers /\ Removed(m).born = m.born
           /\ Removed(m).ran = m.ran /\ Removed(m).file = m.file
<1> DEFINE st == IF m.st = "up" THEN "gone" ELSE m.st
           cmd == IF m.cmd = "running" THEN "bad" ELSE m.cmd
<1>1. st \in {"none", "up", "gone"} /\ cmd \in {"no", "running", "ok", "bad"}
  BY DEF Machine
<1>2. Removed(m) = [m EXCEPT !.st = st, !.life = 0, !.cmd = cmd]
  BY DEF Removed
<1> HIDE DEF st, cmd
<1>3. [m EXCEPT !.st = st, !.life = 0, !.cmd = cmd] \in Machine
  BY <1>1 DEF Machine
<1>4. Removed(m).st = st /\ Removed(m).cmd = cmd
  BY <1>2 DEF Machine
<1> QED BY <1>2, <1>3, <1>4 DEF Machine, st, cmd

-----------------------------------------------------------------------------
(* One attempt.                                                            *)

\* A request was handled or lost.
LEMMA WireShrinks ==
    ASSUME NEW e, NEW n, NEW a, NEW m, NEW w, NEW v \in SUBSET w, Sound(e, n, a, m, w)
    PROVE  Sound(e, n, a, m, v)
<1>1. WireSound(a, m, v)
  BY DEF Sound, WireSound
<1>2. ExecutorSound(e, n, a, m, v)
  BY DEF Sound, ExecutorSound
<1> QED BY <1>1, <1>2 DEF Sound

\* Execute returns: attempt a goes on as b, with its cleanup or its record.
LEMMA Leaves ==
    ASSUME NEW e, NEW n \in Numbers, NEW a \in Attempt, NEW b \in Attempt, NEW m \in Machine,
           NEW w, Sound(e, n, a, m, w), a.pc \in Timed \ {"cleanup"},
           b.own = IF a.pc \in {"create", "creating"} THEN TRUE ELSE a.own,
           b.pc = IF b.own THEN "cleanup" ELSE "record",
           b.told = a.told, b.swept = a.swept, b.stop = a.stop, b.cut = a.cut,
           b.aborted => a.cut = "shutdown" /\ b.err = "canceled",
           b.err = "no" => m.cmd = "ok" \/ e = "build",
           \A i, j \in DOMAIN b.got : b.got[i] = b.got[j],
           e = "process" => m.cmd # "running"
    PROVE  Sound(e, n, b, m, w)
<1>0. /\ b.pc \in {"cleanup", "record"} /\ (b.pc = "cleanup" <=> b.own)
      /\ a.pc \notin {"cleanup", "record", "ended", "crashed", "idle"}
  BY DEF Timed
<1>1. WireSound(b, m, w)
  BY <1>0 DEF Sound, WireSound, Before, After
<1>2. TimeSound(e, n, b, m)
  BY <1>0 DEF Sound, TimeSound
<1>3. OwnerSound(n, b, m)
  <2>1. ~a.swept /\ ~b.swept
    BY <1>0 DEF Sound, OwnerSound
  <2>2. ~(m.taken /\ b.told)
    BY <1>0 DEF Sound, OwnerSound
  <2>3. m.st = "up" /\ ~m.taken /\ ~m.tardy => b.own
    BY <1>0 DEF Sound, OwnerSound
  <2>4. m.deleter = n => b.pc \in After
    BY <1>0 DEF After
  <2> QED BY <1>0, <2>1, <2>2, <2>3, <2>4 DEF OwnerSound
<1>4. ExecutorSound(e, n, b, m, w)
  BY <1>0 DEF Sound, ExecutorSound
<1>5. OutcomeSound(e, b, m)
  BY <1>0 DEF Sound, OutcomeSound
<1> QED BY <1>1, <1>2, <1>3, <1>4, <1>5 DEF Sound

-----------------------------------------------------------------------------
(* What happens to the machine of an attempt.                              *)

\* The machine q is m but for its life, its command and its file.
SameVM(m, q) ==
    /\ q.st = m.st /\ q.taken = m.taken /\ q.deleter = m.deleter /\ q.tardy = m.tardy

\* A DELETE of a later attempt, or of the cleanup, is handled.
LEMMA DeleteSound ==
    ASSUME NEW e, NEW n \in Numbers, NEW d \in Numbers, NEW a \in Attempt,
           NEW m \in Machine, NEW q \in Machine, NEW w, Sound(e, n, a, m, w),
           d > n \/ (d = n /\ a.pc = "cleanup"),
           q.st = IF m.st = "up" THEN "gone" ELSE m.st,
           q.cmd = IF m.cmd = "running" THEN "bad" ELSE m.cmd,
           q.deleter = IF m.st = "up" THEN d ELSE m.deleter,
           q.taken = m.taken, q.starts = m.starts, q.tardy = m.tardy, q.ran = m.ran
    PROVE  Sound(e, n, a, q, w)
<1>0. n \in Nat /\ d \in Nat
  BY Limits DEF Numbers
<1>1. WireSound(a, q, w)
  BY DEF Sound, WireSound
<1>2. TimeSound(e, n, a, q)
  BY <1>0 DEF Sound, TimeSound
<1>3. OwnerSound(n, a, q)
  <2>1. m.taken /\ a.told => ~a.own /\ m.deleter # n /\ a.pc \in {"record", "ended"}
    BY DEF Sound, OwnerSound
  <2>2. q.deleter = n => a.pc \in After
    BY <1>0 DEF Sound, OwnerSound, After
  <2>3. q.taken /\ a.told => q.deleter # n
    BY <1>0, <2>1
  <2> QED BY <2>1, <2>2, <2>3 DEF Sound, OwnerSound
<1>4. ExecutorSound(e, n, a, q, w)
  BY DEF Sound, ExecutorSound
<1>5. OutcomeSound(e, a, q)
  BY DEF Sound, OutcomeSound
<1> QED BY <1>1, <1>2, <1>3, <1>4, <1>5 DEF Sound

\* Husker creates the VM.
LEMMA CreateSound ==
    ASSUME NEW e, NEW n \in Numbers, NEW a \in Attempt,
           NEW m \in Machine, NEW q \in Machine, NEW w, Sound(e, n, a, m, w),
           "create" \in w, m.st # "up",
           q.st = "up", q.taken = FALSE, q.deleter = 0, q.tardy = (a.pc # "creating"),
           q.life >= Provision + Runtime + Cleanup + Grace,
           q.cmd = m.cmd, q.starts = m.starts, q.ran = m.ran
    PROVE  Sound(e, n, a, q, w \ {"create"})
<1>0. n \in Nat \ {0} /\ a.left \in Nat
  BY Limits DEF Numbers, Attempt
<1>1. WireSound(a, q, w \ {"create"})
  BY DEF Sound, WireSound, Before, After
<1>2. TimeSound(e, n, a, q)
  <2>1. a.pc \in {"creating"} \cup After
    BY DEF Sound, WireSound
  <2>2. a.pc = "creating" => a.left <= Provision
    BY DEF Sound, TimeSound
  <2>3. a.pc = "creating" => q.life >= a.left + Runtime + Grace + Cleanup
    BY <1>0, <2>2, Limits DEF Machine
  <2> QED BY <2>1, <2>2, <2>3 DEF Sound, TimeSound, After
<1>3. OwnerSound(n, a, q)
  BY <1>0 DEF Sound, OwnerSound
<1>4. ExecutorSound(e, n, a, q, w \ {"create"})
  BY DEF Sound, ExecutorSound
<1>5. OutcomeSound(e, a, q)
  BY DEF Sound, OutcomeSound
<1> QED BY <1>1, <1>2, <1>3, <1>4, <1>5 DEF Sound

\* The command starts, in the VM or as a process.
LEMMA StartSound ==
    ASSUME NEW e, NEW n \in Numbers, NEW a \in Attempt,
           NEW m \in Machine, NEW q \in Machine, NEW w, NEW v, Sound(e, n, a, m, w),
           v = w \ {"exec"}, m.starts = 0, a.pc \in {"executing"} \cup After \cup {"read", "package"},
           IF e = "process" THEN a.pc = "executing" ELSE m.st = "up",
           SameVM(m, q), q.life = m.life, q.cmd = "running", q.ran = 0, q.starts = 1
    PROVE  Sound(e, n, a, q, v)
<1>0. m.cmd = "no"
  BY DEF Sound, WireSound, Machine
<1>1. WireSound(a, q, v)
  BY DEF Sound, WireSound, Before, After, SameVM
<1>2. TimeSound(e, n, a, q)
  BY Limits DEF Sound, TimeSound, SameVM
<1>3. OwnerSound(n, a, q)
  BY DEF Sound, OwnerSound, SameVM
<1>4. ExecutorSound(e, n, a, q, v)
  BY DEF Sound, ExecutorSound, SameVM
<1>5. OutcomeSound(e, a, q)
  <2>1. a.pc # "read" /\ ~(a.pc \in {"cleanup", "record"} /\ a.err = "no" /\ e # "build")
    BY <1>0 DEF Sound, OutcomeSound
  <2> QED BY <2>1 DEF Sound, OutcomeSound
<1> QED BY <1>1, <1>2, <1>3, <1>4, <1>5 DEF Sound

\* A command that was running exits or is killed, or nothing changes but the
\* file.
LEMMA ExitSound ==
    ASSUME NEW e, NEW n \in Numbers, NEW a \in Attempt,
           NEW m \in Machine, NEW q \in Machine, NEW w, Sound(e, n, a, m, w),
           SameVM(m, q), q.life = m.life \/ m.st # "up", q.ran = m.ran, q.starts = m.starts,
           q.cmd = m.cmd \/ (m.cmd = "running" /\ q.cmd \in {"ok", "bad"})
    PROVE  Sound(e, n, a, q, w)
<1>1. WireSound(a, q, w)
  BY DEF Sound, WireSound, SameVM
<1>2. TimeSound(e, n, a, q)
  BY DEF Sound, TimeSound, SameVM
<1>3. OwnerSound(n, a, q)
  BY DEF Sound, OwnerSound, SameVM
<1>4. ExecutorSound(e, n, a, q, w)
  BY DEF Sound, ExecutorSound, SameVM
<1>5. OutcomeSound(e, a, q)
  BY DEF Sound, OutcomeSound
<1> QED BY <1>1, <1>2, <1>3, <1>4, <1>5 DEF Sound

-----------------------------------------------------------------------------
(* What an attempt does.                                                   *)

\* The attempt goes on as b without an outcome.
Keeps(a, b) ==
    /\ b.own = a.own /\ b.stop = a.stop /\ b.cut = a.cut /\ b.err = a.err /\ b.got = a.got
    /\ b.aborted = a.aborted /\ b.told = a.told /\ b.swept = a.swept

\* Going on disturbs neither the ownership of the VM nor the outcome.
LEMMA Proceeds ==
    ASSUME NEW e, NEW n \in Numbers, NEW a \in Attempt, NEW b \in Attempt, NEW m \in Machine,
           NEW w, NEW v, Sound(e, n, a, m, w), Keeps(a, b),
           a.pc \in Timed \ {"cleanup"}, b.pc \in Timed \ {"cleanup"},
           a.pc = "creating" => b.pc = "creating" \/ m.st = "none" \/ m.taken,
           b.pc = "read" => m.cmd = "ok",
           e = "process" => v = {} /\ b.pc \in {"exec", "executing"}
                            /\ (m.cmd = "running" => b.pc = "executing"),
           b.pc = "reap" => b.at \in 1 .. n - 1, b.pc = "package" => e = "build",
           WireSound(b, m, v), TimeSound(e, n, b, m)
    PROVE  Sound(e, n, b, m, v)
<1>0. /\ a.pc \notin {"cleanup", "record", "ended", "crashed", "idle"}
      /\ b.pc \notin {"cleanup", "record", "ended", "crashed", "idle"}
  BY DEF Timed
<1>1. OwnerSound(n, b, m)
  <2>1. ~a.swept /\ ~(m.taken /\ a.told) /\ m.deleter # n
    BY <1>0 DEF Sound, OwnerSound, After
  <2>2. m.st = "up" /\ ~m.taken /\ ~m.tardy => b.pc \in {"creating", "crashed"} \/ b.own
    BY <1>0 DEF Sound, OwnerSound, Keeps
  <2> QED BY <1>0, <2>1, <2>2 DEF OwnerSound, Keeps
<1>2. ExecutorSound(e, n, b, m, v)
  BY <1>0 DEF Sound, ExecutorSound, Keeps
<1>3. OutcomeSound(e, b, m)
  BY <1>0 DEF Sound, OutcomeSound, Keeps
<1> QED BY <1>1, <1>2, <1>3 DEF Sound

\* A request is sent.
LEMMA PostSound ==
    ASSUME NEW e, NEW n \in Numbers, NEW a \in Attempt, NEW b \in Attempt, NEW m \in Machine,
           NEW w, NEW v, Sound(e, n, a, m, w), Keeps(a, b), e # "process",
           \/ a.pc \in {"prepare", "create"} /\ b.pc = "creating" /\ v = w \cup {"create"}
           \/ a.pc = "exec" /\ b.pc = "executing" /\ v = w \cup {"exec"},
           b.left = a.left
    PROVE  Sound(e, n, b, m, v)
<1>1. WireSound(b, m, v)
  BY DEF Sound, WireSound, Before, After
<1>2. TimeSound(e, n, b, m)
  BY DEF Sound, TimeSound, WireSound, Before
<1>3. a.pc \in Timed \ {"cleanup"} /\ b.pc \in Timed \ {"cleanup"} /\ a.pc # "creating"
  BY DEF Timed
<1> QED BY <1>1, <1>2, <1>3, Proceeds

\* A request was refused and will be sent again.
LEMMA RefusedSound ==
    ASSUME NEW e, NEW n \in Numbers, NEW a \in Attempt, NEW b \in Attempt, NEW m \in Machine,
           NEW w, NEW v, Sound(e, n, a, m, w), Keeps(a, b), e # "process",
           \/ a.pc = "creating" /\ b.pc = "create" /\ "create" \in w /\ v = w \ {"create"}
           \/ a.pc = "executing" /\ b.pc = "exec" /\ "exec" \in w /\ v = w \ {"exec"},
           b.left = a.left, b.sends < MaxSends
    PROVE  Sound(e, n, b, m, v)
<1>1. WireSound(b, m, v)
  BY DEF Sound, WireSound, Before, After
<1>2. TimeSound(e, n, b, m)
  BY DEF Sound, TimeSound
<1>3. a.pc \in Timed \ {"cleanup"} /\ b.pc \in Timed \ {"cleanup"}
  BY DEF Timed
<1>4. a.pc = "creating" => m.st = "none" \/ m.taken
  BY DEF Sound, WireSound
<1> QED BY <1>1, <1>2, <1>3, <1>4, Proceeds

\* The create was answered: the attempt owns its VM.
LEMMA ReadySound ==
    ASSUME NEW e, NEW n \in Numbers, NEW a \in Attempt, NEW b \in Attempt, NEW m \in Machine,
           NEW w, Sound(e, n, a, m, w), a.pc = "creating", b.pc = "ready",
           "create" \notin w, m.st # "none", ~m.taken,
           b.own = TRUE, b.sends = 0, b.left = a.left, b.swept = a.swept, b.got = a.got,
           b.aborted = a.aborted, b.cut = a.cut, b.stop = a.stop
    PROVE  Sound(e, n, b, m, w)
<1>1. WireSound(b, m, w)
  BY Limits DEF Sound, WireSound, Before, After
<1>2. TimeSound(e, n, b, m)
  BY DEF Sound, TimeSound
<1>3. OwnerSound(n, b, m)
  <2>1. ~a.swept /\ m.deleter # n
    BY DEF Sound, OwnerSound, After
  <2> QED BY <2>1 DEF OwnerSound
<1>4. ExecutorSound(e, n, b, m, w)
  BY DEF Sound, ExecutorSound
<1>5. OutcomeSound(e, b, m)
  BY DEF Sound, OutcomeSound
<1> QED BY <1>1, <1>2, <1>3, <1>4, <1>5 DEF Sound

\* The create was answered: the name is somebody else's, and so is the VM.
LEMMA TakenSound ==
    ASSUME NEW e, NEW n \in Numbers, NEW a \in Attempt, NEW b \in Attempt, NEW m \in Machine,
           NEW w, Sound(e, n, a, m, w), a.pc = "creating", b.pc = "record",
           "create" \notin w, m.taken, b.own = FALSE, b.err # "no",
           b.swept = a.swept, b.got = a.got,
           b.aborted => a.cut = "shutdown" /\ b.err = "canceled",
           b.cut = a.cut, b.stop = a.stop
    PROVE  Sound(e, n, b, m, w)
<1>1. WireSound(b, m, w)
  BY DEF Sound, WireSound, Before, After
<1>2. TimeSound(e, n, b, m)
  BY DEF Sound, TimeSound
<1>3. OwnerSound(n, b, m)
  <2>1. ~a.swept /\ m.deleter # n
    BY DEF Sound, OwnerSound, After
  <2> QED BY <2>1 DEF OwnerSound
<1>4. ExecutorSound(e, n, b, m, w)
  BY DEF Sound, ExecutorSound
<1>5. OutcomeSound(e, b, m)
  BY DEF Sound, OutcomeSound
<1> QED BY <1>1, <1>2, <1>3, <1>4, <1>5 DEF Sound

\* An attempt is acquired.
LEMMA AcquireSound ==
    ASSUME NEW e, NEW n \in Numbers, NEW a \in Attempt, NEW b \in Attempt, NEW m \in Machine,
           NEW w, Sound(e, n, a, m, w), a.pc = "idle", Keeps(Idle, b), b.sends = 0,
           \/ e # "process" /\ b.pc = "reap" /\ b.at = 1 /\ n > 1
           \/ e = "process" /\ b.pc = "exec" /\ b.left = Runtime
           \/ e # "process" /\ b.pc = "prepare" /\ b.left = Provision
    PROVE  Sound(e, n, b, m, w)
<1>0. n \in Nat
  BY Limits DEF Numbers
<1>1. WireSound(b, m, w)
  BY Limits DEF Sound, WireSound, Before, After
<1>2. TimeSound(e, n, b, m)
  <2>1. m.cmd # "running" /\ (m.starts = 0 => m.ran = 0) /\ (e = "process" => m.st = "none")
    BY DEF Sound, WireSound, TimeSound, ExecutorSound, Before
  <2> QED BY <2>1, Limits DEF TimeSound
<1>3. OwnerSound(n, b, m)
  <2>1. m.deleter # n /\ (m.st = "up" => m.taken)
    BY DEF Sound, OwnerSound, WireSound, Before, After
  <2> QED BY <2>1, Blank DEF OwnerSound, Keeps
<1>4. ExecutorSound(e, n, b, m, w)
  BY <1>0, Blank DEF Sound, ExecutorSound, WireSound, Before, Keeps
<1>5. OutcomeSound(e, b, m)
  BY Blank DEF OutcomeSound, Keeps
<1> QED BY <1>1, <1>2, <1>3, <1>4, <1>5 DEF Sound

\* The process dies.
LEMMA CrashSound ==
    ASSUME NEW e, NEW n \in Numbers, NEW a \in Attempt, NEW b \in Attempt, NEW m \in Machine,
           NEW w, Sound(e, n, a, m, w), a.pc # "idle", b.pc = "crashed", Keeps(Idle, b),
           a.pc \notin {"ended", "crashed"}
    PROVE  Sound(e, n, b, m, w)
<1>1. WireSound(b, m, w)
  BY DEF Sound, WireSound, Before, After
<1>2. TimeSound(e, n, b, m)
  BY DEF Sound, TimeSound
<1>3. OwnerSound(n, b, m)
  BY Blank DEF OwnerSound, Keeps, After
<1>4. ExecutorSound(e, n, b, m, w)
  BY Blank DEF Sound, ExecutorSound, Keeps
<1>5. OutcomeSound(e, b, m)
  BY Blank DEF OutcomeSound, Keeps
<1> QED BY <1>1, <1>2, <1>3, <1>4, <1>5 DEF Sound

\* The context is cancelled, a chunk is read, or a DELETE is sent again: the
\* attempt stays where it is.
LEMMA StaySound ==
    ASSUME NEW e, NEW n \in Numbers, NEW a \in Attempt, NEW b \in Attempt, NEW m \in Machine,
           NEW w, Sound(e, n, a, m, w), b.pc = a.pc, b.left = a.left, b.at = a.at,
           b.sends = a.sends \/ a.pc = "cleanup", b.own = a.own, b.err = a.err,
           b.got = a.got \/ (\A i, j \in DOMAIN b.got : b.got[i] = b.got[j]),
           b.aborted = a.aborted, b.told = a.told, b.swept = a.swept,
           a.stop => b.stop, b.cut = "shutdown" => b.stop
    PROVE  Sound(e, n, b, m, w)
<1>1. WireSound(b, m, w)
  BY DEF Sound, WireSound
<1>2. TimeSound(e, n, b, m)
  BY DEF Sound, TimeSound
<1>3. OwnerSound(n, b, m)
  BY DEF Sound, OwnerSound
<1>4. ExecutorSound(e, n, b, m, w)
  BY DEF Sound, ExecutorSound
<1>5. OutcomeSound(e, b, m)
  BY DEF Sound, OutcomeSound
<1> QED BY <1>1, <1>2, <1>3, <1>4, <1>5 DEF Sound

\* The cleanup ends.
LEMMA CleanupSound ==
    ASSUME NEW e, NEW n \in Numbers, NEW a \in Attempt, NEW b \in Attempt, NEW m \in Machine,
           NEW w, Sound(e, n, a, m, w), a.pc = "cleanup", b.pc = "record",
           b.swept => m.st # "up", b.own = a.own, b.stop = a.stop, b.cut = a.cut,
           b.err = a.err, b.got = a.got, b.aborted = a.aborted, b.told = a.told
    PROVE  Sound(e, n, b, m, w)
<1>1. WireSound(b, m, w)
  BY DEF Sound, WireSound, Before, After
<1>2. TimeSound(e, n, b, m)
  BY DEF Sound, TimeSound
<1>3. OwnerSound(n, b, m)
  BY DEF Sound, OwnerSound, After
<1>4. ExecutorSound(e, n, b, m, w)
  BY DEF Sound, ExecutorSound
<1>5. OutcomeSound(e, b, m)
  BY DEF Sound, OutcomeSound
<1> QED BY <1>1, <1>2, <1>3, <1>4, <1>5 DEF Sound

\* The outcome is recorded.
LEMMA RecordSound ==
    ASSUME NEW e, NEW n \in Numbers, NEW a \in Attempt, NEW b \in Attempt, NEW m \in Machine,
           NEW w, Sound(e, n, a, m, w), a.pc = "record", b.pc = "ended",
           b.own = a.own, b.swept = a.swept, b.told = a.told, b.got = a.got, b.cut = "no",
           e = "process" => m.cmd # "running"
    PROVE  Sound(e, n, b, m, w)
<1>1. WireSound(b, m, w)
  BY DEF Sound, WireSound, Before, After
<1>2. TimeSound(e, n, b, m)
  BY DEF Sound, TimeSound
<1>3. OwnerSound(n, b, m)
  BY DEF Sound, OwnerSound, After
<1>4. ExecutorSound(e, n, b, m, w)
  BY DEF Sound, ExecutorSound
<1>5. OutcomeSound(e, b, m)
  BY DEF Sound, OutcomeSound
<1> QED BY <1>1, <1>2, <1>3, <1>4, <1>5 DEF Sound

-----------------------------------------------------------------------------
(* Time.                                                                   *)

\* What a tick makes of a machine.
Aged(e, m) ==
    LET timed == m.cmd = "running" /\ e # "process"
        run == [m EXCEPT !.ran = IF timed THEN @ + 1 ELSE @,
                         !.cmd = IF timed /\ m.ran + 1 = Runtime THEN "bad" ELSE @]
    IN  CASE m.st = "up" /\ m.life = 1 -> Removed(m)
          [] m.st = "up" /\ m.life > 1 -> [run EXCEPT !.life = @ - 1]
          [] m.st # "up" \/ m.life = 0 -> m

\* A VM that a tick leaves there is one tick older, and so is its command.
LEMMA AgedFacts ==
    ASSUME NEW e, NEW m \in Machine, m.cmd = "running" => m.ran < Runtime
    PROVE  /\ Aged(e, m) \in Machine
           /\ \/ m.st = "up" /\ m.life = 1 /\ Aged(e, m) = Removed(m)
              \/ /\ m.st = "up" /\ m.life > 1 /\ SameVM(m, Aged(e, m))
                 /\ Aged(e, m).life = m.life - 1 /\ Aged(e, m).starts = m.starts
                 /\ Aged(e, m).cmd = m.cmd \/ (m.cmd = "running" /\ Aged(e, m).cmd = "bad")
                 /\ Aged(e, m).cmd = "running" => Aged(e, m).ran < Runtime
                 /\ m.cmd # "running" => Aged(e, m).ran = m.ran
              \/ Aged(e, m) = m
           /\ Aged(e, m).reapers = m.reapers /\ Aged(e, m).born = m.born
<1> DEFINE timed == m.cmd = "running" /\ e # "process"
           ran == IF timed THEN m.ran + 1 ELSE m.ran
           cmd == IF timed /\ m.ran + 1 = Runtime THEN "bad" ELSE m.cmd
           run == [m EXCEPT !.ran = ran, !.cmd = cmd]
<1>0. m.life \in Nat /\ m.ran \in 0 .. Runtime
  BY DEF Machine
<1>1. CASE m.st = "up" /\ m.life = 1
  <2>1. Aged(e, m) = Removed(m)
    BY <1>1 DEF Aged
  <2> QED BY <1>1, <2>1, RemovedFacts
<1>2. CASE m.st = "up" /\ m.life > 1
  <2>1. Aged(e, m) = [run EXCEPT !.life = @ - 1]
    BY <1>2 DEF Aged
  <2>2. /\ ran \in 0 .. Runtime /\ cmd \in {"no", "running", "ok", "bad"}
        /\ cmd = m.cmd \/ (m.cmd = "running" /\ cmd = "bad")
        /\ cmd = "running" => ran < Runtime
        /\ m.cmd # "running" => ran = m.ran
    BY <1>0, Limits DEF Machine
  <2> HIDE DEF ran, cmd
  <2>3. run \in Machine
    BY <2>2 DEF Machine
  <2>4. /\ run.life = m.life /\ run.ran = ran /\ run.cmd = cmd /\ SameVM(m, run)
        /\ run.starts = m.starts /\ run.reapers = m.reapers /\ run.born = m.born
    BY DEF Machine, SameVM
  <2> HIDE DEF run
  <2>5. m.life - 1 \in Nat
    BY <1>0, <1>2
  <2>6. Aged(e, m) = [run EXCEPT !.life = m.life - 1]
    BY <2>1, <2>3, <2>4 DEF Machine
  <2>7. [run EXCEPT !.life = m.life - 1] \in Machine
    BY <2>3, <2>5 DEF Machine
  <2>8. /\ Aged(e, m).life = m.life - 1 /\ Aged(e, m).ran = ran /\ Aged(e, m).cmd = cmd
        /\ SameVM(m, Aged(e, m)) /\ Aged(e, m).starts = m.starts
        /\ Aged(e, m).reapers = m.reapers /\ Aged(e, m).born = m.born
    BY <2>3, <2>4, <2>6 DEF Machine, SameVM
  <2> QED BY <1>2, <2>2, <2>6, <2>7, <2>8
<1>3. CASE m.st # "up" \/ m.life = 0
  <2>1. Aged(e, m) = m
    BY <1>0, <1>3 DEF Aged
  <2> QED BY <2>1
<1> QED BY <1>0, <1>1, <1>2, <1>3

\* A tick: a deadline comes nearer, and so does the end of the VM, which
\* does not come before the deadline.
LEMMA TickSound ==
    ASSUME NEW e, NEW n \in Numbers, NEW a \in Attempt, NEW b \in Attempt, NEW m \in Machine,
           NEW w, Sound(e, n, a, m, w), Keeps(a, b), b.pc = a.pc, b.at = a.at,
           b.sends = a.sends,
           IF a.pc \in Timed THEN a.left > 0 /\ b.left = a.left - 1 ELSE b.left = a.left
    PROVE  Aged(e, m) \in Machine /\ Sound(e, n, b, Aged(e, m), w)
<1>0. /\ a.left \in Nat /\ b.left \in Nat /\ m.life \in Nat /\ b.left <= a.left
      /\ a.pc \in {"creating", "ready", "exec", "executing", "read"} => b.left = a.left - 1
  BY Limits DEF Attempt, Machine, Timed
<1>1. PICK q \in Machine : q = Aged(e, m)
  BY AgedFacts DEF Sound, TimeSound
<1>2. WireSound(b, m, w) /\ OwnerSound(n, b, m) /\ ExecutorSound(e, n, b, m, w) /\ OutcomeSound(e, b, m)
  <2>1. WireSound(b, m, w)
    BY DEF Sound, WireSound
  <2>2. OwnerSound(n, b, m)
    BY DEF Sound, OwnerSound, Keeps
  <2>3. ExecutorSound(e, n, b, m, w)
    BY DEF Sound, ExecutorSound, Keeps
  <2>4. OutcomeSound(e, b, m)
    BY DEF Sound, OutcomeSound, Keeps
  <2> QED BY <2>1, <2>2, <2>3, <2>4
<1>3. CASE m.st = "up" /\ m.life = 1 /\ q = Removed(m)
  <2>0. /\ q.st = "gone" /\ q.cmd = (IF m.cmd = "running" THEN "bad" ELSE m.cmd)
        /\ q.taken = m.taken /\ q.starts = m.starts /\ q.deleter = m.deleter
        /\ q.ran = m.ran
    BY <1>3, RemovedFacts
  <2>1. WireSound(b, q, w)
    BY <1>2, <1>3, <2>0 DEF WireSound
  <2>2. TimeSound(e, n, b, q)
    <3>1. ~m.taken => a.pc \notin {"creating", "ready"}
      BY <1>0, <1>3, Limits DEF Sound, TimeSound, Timed
    <3>2. e # "process" => a.pc \notin {"ready", "exec", "executing", "read"}
      BY <1>0, <1>3, <3>1, Limits DEF Sound, TimeSound, Timed
    <3>3. e # "process"
      BY <1>3 DEF Sound, ExecutorSound
    <3> QED BY <1>0, <2>0, <3>1, <3>2, <3>3, Limits DEF Sound, TimeSound
  <2>3. OwnerSound(n, b, q)
    BY <1>2, <2>0 DEF OwnerSound
  <2>4. ExecutorSound(e, n, b, q, w)
    BY <1>2, <1>3, <2>0 DEF ExecutorSound
  <2>5. OutcomeSound(e, b, q)
    BY <1>2, <2>0 DEF OutcomeSound
  <2> QED BY <1>1, <2>1, <2>2, <2>3, <2>4, <2>5 DEF Sound
<1>4. CASE /\ m.st = "up" /\ m.life > 1 /\ SameVM(m, q) /\ q.life = m.life - 1
           /\ q.starts = m.starts /\ (q.cmd = m.cmd \/ (m.cmd = "running" /\ q.cmd = "bad"))
           /\ (q.cmd = "running" => q.ran < Runtime) /\ (m.cmd # "running" => q.ran = m.ran)
  <2>1. WireSound(b, q, w)
    BY <1>2, <1>4 DEF WireSound, SameVM
  <2>2. TimeSound(e, n, b, q)
    <3>1. m.cmd = "running" => m.starts = 1
      BY DEF Sound, WireSound
    <3>2. q.st = m.st /\ q.taken = m.taken /\ q.deleter = m.deleter
      BY <1>4 DEF SameVM
    <3>3. q.starts = 0 => q.ran = 0
      BY <1>4, <3>1 DEF Sound, TimeSound
    <3>4. b.pc \in {"creating", "ready"} /\ q.st = "up" /\ ~q.taken =>
             q.life >= b.left + Runtime + Grace + Cleanup
      BY <1>0, <1>4, <3>2, Limits DEF Sound, TimeSound
    <3>5. e # "process" /\ b.pc \in {"exec", "executing", "read"} /\ q.st = "up" =>
             q.life >= b.left + Cleanup
      BY <1>0, <1>4, <3>2, Limits DEF Sound, TimeSound
    <3>6. /\ b.pc \in {"prepare", "create", "creating", "ready"} => b.left <= Provision
          /\ b.pc \in {"exec", "executing", "read"} => b.left <= Runtime + Grace
      BY <1>0, Limits DEF Sound, TimeSound
    <3> QED BY <1>4, <3>2, <3>3, <3>4, <3>5, <3>6 DEF Sound, TimeSound
  <2>3. OwnerSound(n, b, q)
    BY <1>2, <1>4 DEF OwnerSound, SameVM
  <2>4. ExecutorSound(e, n, b, q, w)
    BY <1>2, <1>4 DEF ExecutorSound, SameVM
  <2>5. OutcomeSound(e, b, q)
    BY <1>2, <1>4 DEF OutcomeSound
  <2> QED BY <1>1, <2>1, <2>2, <2>3, <2>4, <2>5 DEF Sound
<1>5. CASE q = m
  <2>1. TimeSound(e, n, b, m)
    BY <1>0, Limits DEF Sound, TimeSound
  <2> QED BY <1>1, <1>2, <1>5, <2>1 DEF Sound
<1> QED
  <2>1. m.cmd = "running" => m.ran < Runtime
    BY DEF Sound, TimeSound
  <2> QED BY <1>1, <1>3, <1>4, <1>5, <2>1, AgedFacts

-----------------------------------------------------------------------------
(* One step.                                                               *)

\* The attempt b with machine m and requests w will execute without another
\* look at earlier attempts.
Unstoppable(b, m, w) ==
    \/ b.pc \in {"prepare", "create", "creating", "ready", "exec"}
    \/ "exec" \in w
    \/ m.starts > 0

LEMMA PendingKept ==
    ASSUME NEW n, wire' = wire
    PROVE  Pending(n)' = Pending(n)
BY DEF Pending

\* A step that changes attempt n, its machine and its requests only.
LEMMA Local ==
    ASSUME Inv, NEW n \in Numbers, NEW b \in Attempt, NEW m \in Machine, NEW w,
           att' = [att EXCEPT ![n] = b], vm' = [vm EXCEPT ![n] = m], executor' = executor,
           w = Pending(n)', wire' \subseteq Request,
           \A k \in Numbers : k # n => Pending(k)' = Pending(k),
           faults' \in 0 .. MaxFaults, losses' \in 0 .. MaxLosses,
           row' \in [status : {"queued", "running", "succeeded", "failed"}, attempt : 0 .. MaxAttempts],
           Sound(executor, n, b, m, w),
           executor = "husker" /\ Unstoppable(b, m, w) /\ n > 1 =>
              Unstoppable(att[n], vm[n], Pending(n)),
           b.pc = "reap" => b.at = 1 \/ (att[n].pc = "reap" /\ b.at = att[n].at),
           m.reapers = vm[n].reapers,
           m.st = "up" => m.born = m.reapers \/ (vm[n].st = "up" /\ m.born = vm[n].born),
           RowSound'
    PROVE  Inv'
<1>0. att \in [Numbers -> Attempt] /\ vm \in [Numbers -> Machine] /\ executor \in Executors
  BY DEF Inv, TypeOK
<1>1. /\ att'[n] = b /\ vm'[n] = m
      /\ \A k \in Numbers : k # n => att'[k] = att[k] /\ vm'[k] = vm[k]
  BY <1>0
<1>2. TypeOK'
  <2>1. att' \in [Numbers -> Attempt] /\ vm' \in [Numbers -> Machine]
    BY <1>0
  <2> QED BY <1>0, <2>1 DEF TypeOK
<1>3. ASSUME NEW k \in Numbers
      PROVE  Sound(executor, k, att[k], vm[k], Pending(k))'
  <2>1. Sound(executor', k, att'[k], vm'[k], Pending(k)')
    <3>1. CASE k = n
      BY <1>1, <3>1
    <3>2. CASE k # n
      <4>1. Sound(executor, k, att[k], vm[k], Pending(k))
        BY DEF Inv
      <4> QED BY <1>1, <3>2, <4>1
    <3> QED BY <3>1, <3>2
  <2> QED BY <2>1
<1>4. ASSUME NEW i \in Numbers, NEW k \in Numbers, k < i
      PROVE  ReapSound(i, k)'
  <2>0. i \in Nat /\ k \in Nat /\ n \in Nat /\ k >= 1
    BY Limits DEF Numbers
  <2>1. ReapSound(i, k)
    BY <1>4 DEF Inv
  <2>2. executor = "husker" /\ Reaped(i)' => Reaped(i)
    <3>1. CASE i = n
      <4>1. n > 1
        BY <1>4, <2>0, <3>1
      <4> QED BY <1>1, <3>1, <4>1 DEF Reaped, Unstoppable
    <3>2. CASE i # n
      BY <1>1, <3>2 DEF Reaped
    <3> QED BY <3>1, <3>2
  <2>3. vm'[k].reapers = vm[k].reapers
    BY <1>1
  <2>4. executor = "husker" /\ Reaped(i)' => i \in vm'[k].reapers
    BY <2>1, <2>2, <2>3 DEF ReapSound
  <2>5. att'[i].pc = "reap" /\ k < att'[i].at => i \in vm'[k].reapers
    <3>1. CASE i = n
      BY <1>1, <2>0, <2>1, <2>3, <3>1 DEF ReapSound
    <3>2. CASE i # n
      BY <1>1, <2>1, <2>3, <3>2 DEF ReapSound
    <3> QED BY <3>1, <3>2
  <2>6. i \in vm'[k].reapers /\ vm'[k].st = "up" => i \in vm'[k].born
    BY <1>1, <2>1, <2>3 DEF ReapSound
  <2> QED BY <2>4, <2>5, <2>6 DEF ReapSound
<1> QED BY <1>2, <1>3, <1>4 DEF Inv

\* The row is as it was, and the attempt that decided it too.
LEMMA RowKept ==
    ASSUME Inv, NEW n \in Numbers, NEW b \in Attempt, NEW m \in Machine,
           att' = [att EXCEPT ![n] = b], vm' = [vm EXCEPT ![n] = m], row' = row,
           att[n].pc = "idle" => b.pc = "idle",
           att[n].pc = "ended" => b.pc = "ended" /\ b.aborted = att[n].aborted,
           vm[n].cmd = "ok" => m.cmd = "ok"
    PROVE  RowSound'
<1>0. att \in [Numbers -> Attempt] /\ vm \in [Numbers -> Machine] /\ RowSound
  BY DEF Inv, TypeOK
<1>1. /\ att'[n] = b /\ vm'[n] = m
      /\ \A k \in Numbers : k # n => att'[k] = att[k] /\ vm'[k] = vm[k]
  BY <1>0
<1>2. \A k \in Numbers : k > row.attempt => att'[k].pc = "idle"
  <2> SUFFICES ASSUME NEW k \in Numbers, k > row.attempt PROVE att'[k].pc = "idle"
    OBVIOUS
  <2>1. att[k].pc = "idle"
    BY <1>0 DEF RowSound
  <2> QED BY <1>1, <2>1
<1>3. row.status # "queued" => row.attempt \in Numbers
  BY <1>0 DEF RowSound
<1>4. row.status \in {"succeeded", "failed"} => att'[row.attempt].pc = "ended"
  BY <1>0, <1>1, <1>3 DEF RowSound
<1>5. row.status = "succeeded" => vm'[row.attempt].cmd = "ok"
  BY <1>0, <1>1, <1>3 DEF RowSound
<1>6. row.status = "failed" => ~att'[row.attempt].aborted
  <2> SUFFICES ASSUME row.status = "failed" PROVE ~att'[row.attempt].aborted
    OBVIOUS
  <2>1. row.attempt \in Numbers /\ att[row.attempt].pc = "ended" /\ ~att[row.attempt].aborted
    BY <1>0, <1>3 DEF RowSound
  <2>2. CASE row.attempt = n
    BY <1>1, <2>1, <2>2
  <2>3. CASE row.attempt # n
    BY <1>1, <2>1, <2>3
  <2> QED BY <2>2, <2>3
<1> QED BY <1>2, <1>3, <1>4, <1>5, <1>6 DEF RowSound

\* The attempt goes on, and nothing else changes but a count of failures.
LEMMA Moves ==
    ASSUME Inv, NEW n \in Numbers, NEW b \in Attempt, NEW w,
           att' = [att EXCEPT ![n] = b], UNCHANGED <<executor, row, vm>>,
           w = Pending(n)', wire' \subseteq Request,
           \A k \in Numbers : k # n => Pending(k)' = Pending(k),
           faults' \in 0 .. MaxFaults, losses' \in 0 .. MaxLosses,
           Sound(executor, n, b, vm[n], w),
           executor = "husker" /\ Unstoppable(b, vm[n], w) => Unstoppable(att[n], vm[n], Pending(n)),
           b.pc = "reap" => att[n].pc = "reap" /\ b.at = att[n].at,
           att[n].pc \notin {"idle", "ended"}
    PROVE  Inv'
<1>0. vm \in [Numbers -> Machine] /\ row' = row /\ vm' = vm /\ executor' = executor
  BY DEF Inv, TypeOK
<1>1. PICK m \in Machine : m = vm[n]
  BY <1>0
<1>2. vm' = [vm EXCEPT ![n] = m]
  BY <1>0, <1>1
<1>3. RowSound'
  BY <1>0, <1>1, <1>2, RowKept
<1>4. row' \in [status : {"queued", "running", "succeeded", "failed"}, attempt : 0 .. MaxAttempts]
  BY <1>0 DEF Inv, TypeOK
<1>5. Sound(executor, n, b, m, w)
  BY <1>1
<1> QED BY <1>0, <1>1, <1>2, <1>3, <1>4, <1>5, Local

\* The machine changes, and nothing else.
LEMMA Serves ==
    ASSUME Inv, NEW n \in Numbers, NEW m \in Machine, NEW w,
           vm' = [vm EXCEPT ![n] = m], UNCHANGED <<executor, row, att, faults, losses>>,
           w = Pending(n)', wire' \subseteq Request,
           \A k \in Numbers : k # n => Pending(k)' = Pending(k),
           Sound(executor, n, att[n], m, w),
           executor = "husker" /\ Unstoppable(att[n], m, w) => Unstoppable(att[n], vm[n], Pending(n)),
           m.reapers = vm[n].reapers,
           m.st = "up" => m.born = m.reapers \/ (vm[n].st = "up" /\ m.born = vm[n].born),
           vm[n].cmd = "ok" => m.cmd = "ok"
    PROVE  Inv'
<1>0. /\ att \in [Numbers -> Attempt] /\ row' = row /\ att' = att /\ executor' = executor
      /\ faults' \in 0 .. MaxFaults /\ losses' \in 0 .. MaxLosses
      /\ row' \in [status : {"queued", "running", "succeeded", "failed"}, attempt : 0 .. MaxAttempts]
  BY DEF Inv, TypeOK
<1>1. PICK b \in Attempt : b = att[n]
  BY <1>0
<1>2. att' = [att EXCEPT ![n] = b]
  BY <1>0, <1>1
<1>3. RowSound'
  BY <1>0, <1>1, <1>2, RowKept
<1>4. Sound(executor, n, b, m, w)
  BY <1>1
<1> QED BY <1>0, <1>1, <1>2, <1>3, <1>4, Local

LEMMA At ==
    ASSUME Inv, NEW n \in Numbers
    PROVE  /\ att[n] \in Attempt /\ vm[n] \in Machine /\ wire \subseteq Request
           /\ Sound(executor, n, att[n], vm[n], Pending(n))
           /\ faults \in 0 .. MaxFaults /\ losses \in 0 .. MaxLosses
           /\ Pending(n) \subseteq {"create", "exec"}
BY DEF Inv, TypeOK, Pending

LEMMA Counts ==
    ASSUME Inv
    PROVE  /\ Fault \/ UNCHANGED faults => faults' \in 0 .. MaxFaults
           /\ Loss \/ UNCHANGED losses => losses' \in 0 .. MaxLosses
BY Limits DEF Inv, TypeOK, Fault, Loss

\* Execute returns, with the deferred cleanup ahead or the outcome.
LEMMA Quits ==
    ASSUME Inv, NEW n \in Numbers, NEW b \in Attempt,
           att' = [att EXCEPT ![n] = b], UNCHANGED <<executor, row, vm>>,
           wire' \subseteq wire, \A k \in Numbers : k # n => Pending(k)' = Pending(k),
           faults' \in 0 .. MaxFaults, losses' \in 0 .. MaxLosses,
           att[n].pc \in Timed \ {"cleanup"},
           b.own = IF att[n].pc \in {"create", "creating"} THEN TRUE ELSE att[n].own,
           b.pc = IF b.own THEN "cleanup" ELSE "record",
           b.told = att[n].told, b.swept = att[n].swept, b.stop = att[n].stop, b.cut = att[n].cut,
           b.aborted => att[n].aborted \/ (att[n].cut = "shutdown" /\ b.err = "canceled"),
           b.err = "no" => vm[n].cmd = "ok" \/ executor = "build",
           \A i, j \in DOMAIN b.got : b.got[i] = b.got[j],
           executor = "process" => vm[n].cmd # "running"
    PROVE  Inv'
<1>0. /\ att[n] \in Attempt /\ vm[n] \in Machine /\ wire \subseteq Request
      /\ Sound(executor, n, att[n], vm[n], Pending(n))
  BY At
<1>1. PICK w : w = Pending(n)'
  OBVIOUS
<1>2. w \in SUBSET Pending(n)
  BY <1>1 DEF Pending
<1>3. Sound(executor, n, att[n], vm[n], w)
  BY <1>0, <1>2, WireShrinks
<1>4. att[n].pc \notin {"cleanup", "record", "ended", "crashed", "idle"}
  BY DEF Timed
<1>5. ~att[n].aborted
  BY <1>0, <1>4 DEF Sound, OutcomeSound
<1>6. Sound(executor, n, b, vm[n], w)
  BY <1>0, <1>3, <1>5, Leaves
<1>7. b.pc \in {"cleanup", "record"}
  OBVIOUS
<1>8. Unstoppable(b, vm[n], w) => Unstoppable(att[n], vm[n], Pending(n))
  BY <1>2, <1>7 DEF Unstoppable
<1> QED BY <1>0, <1>1, <1>4, <1>6, <1>7, <1>8, Moves

\* It returns at once with this error.
LEMMA QuitsWith ==
    ASSUME Inv, NEW n \in Numbers, NEW error \in Errors,
           att' = [att EXCEPT ![n] = Leave(att[n], error)], UNCHANGED <<executor, row, vm, wire>>,
           faults' \in 0 .. MaxFaults, losses' \in 0 .. MaxLosses,
           att[n].pc \in Timed \ {"cleanup", "create", "creating"},
           error = "no" => vm[n].cmd = "ok" \/ executor = "build",
           executor = "process" => vm[n].cmd # "running"
    PROVE  Inv'
<1>0. att[n] \in Attempt /\ Sound(executor, n, att[n], vm[n], Pending(n))
  BY At
<1>1. PICK b \in Attempt : b = Leave(att[n], error)
  BY <1>0, LeaveFacts
<1>2. /\ b.own = att[n].own /\ b.pc = (IF b.own THEN "cleanup" ELSE "record")
      /\ b.told = att[n].told /\ b.swept = att[n].swept /\ b.stop = att[n].stop
      /\ b.cut = att[n].cut /\ b.aborted = att[n].aborted /\ b.got = att[n].got /\ b.err = error
  BY <1>0, <1>1, LeaveFacts
<1>3. \A i, j \in DOMAIN b.got : b.got[i] = b.got[j]
  BY <1>0, <1>2 DEF Sound, OutcomeSound
<1>4. \A k \in Numbers : k # n => Pending(k)' = Pending(k)
  BY PendingKept
<1>5. att' = [att EXCEPT ![n] = b] /\ wire' \subseteq wire
  BY <1>1
<1>6. ~att[n].aborted
  BY <1>0 DEF Sound, OutcomeSound, Timed
<1>7. /\ b.own = IF att[n].pc \in {"create", "creating"} THEN TRUE ELSE att[n].own
      /\ att[n].pc \in Timed \ {"cleanup"}
      /\ b.aborted => att[n].aborted \/ (att[n].cut = "shutdown" /\ b.err = "canceled")
      /\ b.err = "no" => vm[n].cmd = "ok" \/ executor = "build"
  BY <1>2, <1>6
<1> QED BY <1>2, <1>3, <1>4, <1>5, <1>7, Quits

\* It returns because a request failed or its context was cancelled.
LEMMA QuitsFailed ==
    ASSUME Inv, NEW n \in Numbers, NEW a \in Attempt,
           \/ a = att[n] /\ att[n].pc \notin {"create", "creating"}
           \/ a = Returned(att[n], "dropped")
           \/ a = Returned(att[n], "limited"),
           att' = [att EXCEPT ![n] = Fails(a)], UNCHANGED <<executor, row, vm>>,
           wire' \subseteq wire, \A k \in Numbers : k # n => Pending(k)' = Pending(k),
           faults' \in 0 .. MaxFaults, losses' \in 0 .. MaxLosses,
           att[n].pc \in Timed \ {"cleanup"},
           executor = "process" => vm[n].cmd # "running"
    PROVE  Inv'
<1>0. att[n] \in Attempt /\ Sound(executor, n, att[n], vm[n], Pending(n))
  BY At
<1>1. PICK b \in Attempt : b = Fails(a)
  BY FailsFacts
<1>2. /\ a.own = IF att[n].pc \in {"create", "creating"} THEN TRUE ELSE att[n].own
      /\ a.told = att[n].told /\ a.swept = att[n].swept /\ a.stop = att[n].stop
      /\ a.cut = att[n].cut /\ a.aborted = att[n].aborted /\ a.got = att[n].got
  <2>1. CASE a = att[n] /\ att[n].pc \notin {"create", "creating"}
    BY <2>1
  <2>2. CASE a = Returned(att[n], "dropped")
    BY <1>0, <2>2, ReturnedFacts
  <2>3. CASE a = Returned(att[n], "limited")
    BY <1>0, <2>3, ReturnedFacts
  <2> QED BY <2>1, <2>2, <2>3
<1>3. /\ b.own = a.own /\ b.pc = (IF b.own THEN "cleanup" ELSE "record")
      /\ b.told = a.told /\ b.swept = a.swept /\ b.stop = a.stop
      /\ b.cut = a.cut /\ b.got = a.got /\ b.err # "no"
      /\ b.aborted => a.aborted \/ (a.cut = "shutdown" /\ b.err = "canceled")
  BY <1>1, FailsFacts
<1>4. \A i, j \in DOMAIN b.got : b.got[i] = b.got[j]
  BY <1>0, <1>2, <1>3 DEF Sound, OutcomeSound
<1>5. att' = [att EXCEPT ![n] = b]
  BY <1>1
<1>6. /\ b.own = IF att[n].pc \in {"create", "creating"} THEN TRUE ELSE att[n].own
      /\ b.told = att[n].told /\ b.swept = att[n].swept /\ b.stop = att[n].stop
      /\ b.cut = att[n].cut /\ b.pc = (IF b.own THEN "cleanup" ELSE "record") /\ b.err # "no"
      /\ b.aborted => att[n].aborted \/ (att[n].cut = "shutdown" /\ b.err = "canceled")
  BY <1>2, <1>3
<1> QED BY <1>4, <1>5, <1>6, Quits

LEMMA Sent ==
    ASSUME Inv, NEW n \in Numbers, NEW o \in {"create", "exec"}, wire' = wire \cup {[op |-> o, of |-> n]}
    PROVE  /\ Pending(n)' = Pending(n) \cup {o} /\ wire' \subseteq Request
           /\ \A k \in Numbers : k # n => Pending(k)' = Pending(k)
<1>1. [op |-> o, of |-> n] \in Request
  BY DEF Request
<1>2. \A k, x : [op |-> x, of |-> k] = [op |-> o, of |-> n] <=> x = o /\ k = n
  OBVIOUS
<1>3. wire' \subseteq Request
  BY <1>1 DEF Inv, TypeOK
<1>4. Pending(n)' = Pending(n) \cup {o}
  BY <1>2 DEF Pending
<1>5. \A k \in Numbers : k # n => Pending(k)' = Pending(k)
  BY <1>2 DEF Pending
<1> QED BY <1>3, <1>4, <1>5

LEMMA Handled ==
    ASSUME Inv, NEW n \in Numbers, NEW o \in {"create", "exec"}, wire' = wire \ {[op |-> o, of |-> n]}
    PROVE  /\ Pending(n)' = Pending(n) \ {o} /\ wire' \subseteq wire /\ wire' \subseteq Request
           /\ \A k \in Numbers : k # n => Pending(k)' = Pending(k)
<1>1. \A k, x : [op |-> x, of |-> k] = [op |-> o, of |-> n] <=> x = o /\ k = n
  OBVIOUS
<1>2. wire' \subseteq wire /\ wire' \subseteq Request
  BY DEF Inv, TypeOK
<1>3. Pending(n)' = Pending(n) \ {o}
  BY <1>1 DEF Pending
<1>4. \A k \in Numbers : k # n => Pending(k)' = Pending(k)
  BY <1>1 DEF Pending
<1> QED BY <1>2, <1>3, <1>4

-----------------------------------------------------------------------------
(* The actions.                                                            *)

LEMMA AcquireStep ==
    ASSUME Inv, NEW n \in Numbers, Acquire(n)
    PROVE  Inv'
<1>0. /\ att[n] \in Attempt /\ vm[n] \in Machine /\ wire \subseteq Request
      /\ Sound(executor, n, att[n], vm[n], Pending(n)) /\ n \in Nat
  BY At, Limits DEF Numbers
<1>1. att[n].pc = "idle"
  BY <1>0 DEF Inv, TypeOK, RowSound, Acquire
<1> DEFINE new == CASE executor = "husker" /\ n > 1 ->
                         [Idle EXCEPT !.pc = "reap", !.at = 1, !.left = Cleanup]
                    [] executor = "process" -> [Idle EXCEPT !.pc = "exec", !.left = Runtime]
                    [] OTHER -> [Idle EXCEPT !.pc = "prepare", !.left = Provision]
<1>2. /\ new \in Attempt /\ Keeps(Idle, new) /\ new.sends = 0
      /\ \/ executor # "process" /\ new.pc = "reap" /\ new.at = 1 /\ n > 1
         \/ executor = "process" /\ new.pc = "exec" /\ new.left = Runtime
         \/ executor # "process" /\ new.pc = "prepare" /\ new.left = Provision
      /\ executor = "husker" /\ n > 1 => new.pc = "reap"
  <2> HIDE DEF new
  <2>1. CASE executor = "husker" /\ n > 1
    <3>1. new = [Idle EXCEPT !.pc = "reap", !.at = 1, !.left = Cleanup]
      BY <2>1 DEF new
    <3>2. /\ "reap" \in Phases /\ 1 \in 0 .. MaxAttempts
          /\ Cleanup \in 0 .. (Provision + Runtime + Cleanup + Grace)
      BY Limits DEF Phases, Timed
    <3>3. new \in Attempt
      BY <3>1, <3>2, Blank DEF Attempt
    <3> QED BY <2>1, <3>1, <3>3, Blank DEF Attempt, Keeps
  <2>2. CASE executor = "process"
    <3>1. new = [Idle EXCEPT !.pc = "exec", !.left = Runtime]
      BY <2>2 DEF new
    <3>2. "exec" \in Phases /\ Runtime \in 0 .. (Provision + Runtime + Cleanup + Grace)
      BY Limits DEF Phases, Timed
    <3>3. new \in Attempt
      BY <3>1, <3>2, Blank DEF Attempt
    <3> QED BY <2>2, <3>1, <3>3, Blank DEF Attempt, Keeps
  <2>3. CASE ~(executor = "husker" /\ n > 1) /\ executor # "process"
    <3>1. new = [Idle EXCEPT !.pc = "prepare", !.left = Provision]
      BY <2>3 DEF new
    <3>2. "prepare" \in Phases /\ Provision \in 0 .. (Provision + Runtime + Cleanup + Grace)
      BY Limits DEF Phases, Timed
    <3>3. new \in Attempt
      BY <3>1, <3>2, Blank DEF Attempt
    <3> QED BY <2>3, <3>1, <3>3, Blank DEF Attempt, Keeps
  <2> QED BY <2>1, <2>2, <2>3
<1>3. att' = [att EXCEPT ![n] = new]
  BY DEF Acquire
<1> HIDE DEF new
<1>4. PICK b \in Attempt : b = new
  BY <1>2
<1>5. PICK m \in Machine : m = vm[n]
  BY <1>0
<1>6. PICK w : w = Pending(n)'
  OBVIOUS
<1>7. /\ w = Pending(n) /\ vm' = [vm EXCEPT ![n] = m] /\ executor' = executor
      /\ att' = [att EXCEPT ![n] = b] /\ wire' \subseteq Request
      /\ \A k \in Numbers : k # n => Pending(k)' = Pending(k)
      /\ faults' \in 0 .. MaxFaults /\ losses' \in 0 .. MaxLosses
      /\ row' = [status |-> "running", attempt |-> n]
  <2>1. vm \in [Numbers -> Machine]
    BY DEF Inv, TypeOK
  <2>2. UNCHANGED <<executor, vm, wire, faults>> /\ (Loss \/ UNCHANGED losses)
    BY DEF Acquire
  <2> QED BY <1>0, <1>3, <1>4, <1>5, <1>6, <2>1, <2>2, Counts, PendingKept DEF Acquire
<1>8. Sound(executor, n, b, m, w)
  <2>1. Sound(executor, n, att[n], m, w)
    BY <1>0, <1>5, <1>7
  <2> QED BY <1>0, <1>1, <1>2, <1>4, <2>1, AcquireSound
<1>9. executor = "husker" /\ n > 1 => ~Unstoppable(b, m, w)
  BY <1>0, <1>1, <1>2, <1>4, <1>5, <1>7 DEF Unstoppable, Sound, WireSound, Before
<1>10. m.st = "up" => vm[n].st = "up" /\ m.born = vm[n].born
  BY <1>5
<1>11. RowSound'
  <2>1. n = row.attempt + 1 /\ row.attempt \in Nat /\ RowSound /\ att \in [Numbers -> Attempt]
    BY DEF Acquire, Inv, TypeOK
  <2>2. row'.status = "running" /\ row'.attempt = n
    BY <1>7
  <2>3. ASSUME NEW k \in Numbers, k > n PROVE att'[k].pc = "idle"
    <3>1. k > row.attempt /\ k # n
      BY <1>0, <2>1, <2>3 DEF Numbers
    <3>2. att[k].pc = "idle"
      BY <2>1, <3>1 DEF RowSound
    <3> QED BY <1>7, <2>1, <3>1, <3>2
  <2> QED BY <2>2, <2>3 DEF RowSound
<1>12. row' \in [status : {"queued", "running", "succeeded", "failed"}, attempt : 0 .. MaxAttempts]
  BY <1>0, <1>7, Limits DEF Numbers
<1>13. b.pc = "reap" => b.at = 1
  BY <1>2, <1>4
<1>14. m.reapers = vm[n].reapers
  BY <1>5
<1> QED BY <1>6, <1>7, <1>8, <1>9, <1>10, <1>11, <1>12, <1>13, <1>14, Local

LEMMA RenewLeaseStep ==
    ASSUME Inv, NEW n \in Numbers, RenewLease(n)
    PROVE  Inv'
<1>0. /\ att[n] \in Attempt /\ vm[n] \in Machine /\ wire \subseteq Request
      /\ Sound(executor, n, att[n], vm[n], Pending(n))
  BY At
<1>1. PICK b \in Attempt : b = [att[n] EXCEPT !.cut = "lost"]
  BY <1>0 DEF Attempt
<1>2. /\ b.pc = att[n].pc /\ b.left = att[n].left /\ b.at = att[n].at
      /\ b.sends = att[n].sends /\ b.own = att[n].own /\ b.err = att[n].err /\ b.got = att[n].got
      /\ b.aborted = att[n].aborted /\ b.told = att[n].told /\ b.swept = att[n].swept
      /\ b.stop = att[n].stop /\ b.cut = "lost"
  BY <1>0, <1>1 DEF Attempt
<1>3. Sound(executor, n, b, vm[n], Pending(n))
  BY <1>0, <1>2, StaySound
<1>4. PICK w : w = Pending(n)'
  OBVIOUS
<1>5. /\ att' = [att EXCEPT ![n] = b] /\ UNCHANGED <<executor, row, vm>> /\ w = Pending(n)
      /\ wire' \subseteq Request /\ \A k \in Numbers : k # n => Pending(k)' = Pending(k)
      /\ faults' \in 0 .. MaxFaults /\ losses' \in 0 .. MaxLosses
      /\ att[n].pc \notin {"idle", "ended"}
  BY <1>0, <1>1, <1>4, Counts, PendingKept DEF RenewLease, Live
<1>6. Unstoppable(b, vm[n], w) => Unstoppable(att[n], vm[n], Pending(n))
  BY <1>2, <1>5 DEF Unstoppable
<1> QED BY <1>2, <1>3, <1>4, <1>5, <1>6, Moves

LEMMA ShutdownStep ==
    ASSUME Inv, NEW n \in Numbers, Shutdown(n)
    PROVE  Inv'
<1>0. /\ att[n] \in Attempt /\ vm[n] \in Machine /\ wire \subseteq Request
      /\ Sound(executor, n, att[n], vm[n], Pending(n)) /\ att \in [Numbers -> Attempt]
  BY At DEF Inv, TypeOK
<1> DEFINE cut == IF att[n].cut = "no" THEN "shutdown" ELSE att[n].cut
<1>1. cut \in {"no", "shutdown", "lost"}
  BY <1>0 DEF Attempt
<1>2. att' = [att EXCEPT ![n] = [att[n] EXCEPT !.stop = TRUE, !.cut = cut]]
  BY <1>0 DEF Shutdown, Attempt
<1> HIDE DEF cut
<1>3. PICK b \in Attempt : b = [att[n] EXCEPT !.stop = TRUE, !.cut = cut]
  BY <1>0, <1>1 DEF Attempt
<1>4. /\ b.pc = att[n].pc /\ b.left = att[n].left /\ b.at = att[n].at
      /\ b.sends = att[n].sends /\ b.own = att[n].own /\ b.err = att[n].err /\ b.got = att[n].got
      /\ b.aborted = att[n].aborted /\ b.told = att[n].told /\ b.swept = att[n].swept
      /\ b.stop = TRUE
  BY <1>0, <1>3 DEF Attempt
<1>5. Sound(executor, n, b, vm[n], Pending(n))
  BY <1>0, <1>4, StaySound
<1>6. PICK w : w = Pending(n)'
  OBVIOUS
<1>7. /\ att' = [att EXCEPT ![n] = b] /\ UNCHANGED <<executor, row, vm>> /\ w = Pending(n)
      /\ wire' \subseteq Request /\ \A k \in Numbers : k # n => Pending(k)' = Pending(k)
      /\ faults' \in 0 .. MaxFaults /\ losses' \in 0 .. MaxLosses
      /\ att[n].pc \notin {"idle", "ended"}
  BY <1>0, <1>2, <1>3, <1>6, Counts, PendingKept DEF Shutdown, Live
<1>8. Unstoppable(b, vm[n], w) => Unstoppable(att[n], vm[n], Pending(n))
  BY <1>4, <1>7 DEF Unstoppable
<1> QED BY <1>4, <1>5, <1>6, <1>7, <1>8, Moves

LEMMA CrashStep ==
    ASSUME Inv, NEW n \in Numbers, Crash(n)
    PROVE  Inv'
<1>0. /\ att[n] \in Attempt /\ vm[n] \in Machine /\ wire \subseteq Request
      /\ Sound(executor, n, att[n], vm[n], Pending(n))
  BY At
<1>1. PICK b \in Attempt : b = [Idle EXCEPT !.pc = "crashed"]
  BY Blank DEF Attempt, Phases
<1>2. b.pc = "crashed" /\ Keeps(Idle, b)
  BY <1>1, Blank DEF Attempt, Keeps
<1>3. Sound(executor, n, b, vm[n], Pending(n))
  BY <1>0, <1>2, CrashSound DEF Crash, Live
<1>4. PICK w : w = Pending(n)'
  OBVIOUS
<1>5. /\ att' = [att EXCEPT ![n] = b] /\ UNCHANGED <<executor, row, vm>> /\ w = Pending(n)
      /\ wire' \subseteq Request /\ \A k \in Numbers : k # n => Pending(k)' = Pending(k)
      /\ faults' \in 0 .. MaxFaults /\ losses' \in 0 .. MaxLosses
      /\ att[n].pc \notin {"idle", "ended"}
  BY <1>0, <1>1, <1>4, Counts, PendingKept DEF Crash, Live
<1>6. Unstoppable(b, vm[n], w) => Unstoppable(att[n], vm[n], Pending(n))
  BY <1>2, <1>5 DEF Unstoppable
<1> QED BY <1>2, <1>3, <1>4, <1>5, <1>6, Moves

\* Only the attempt changes.
LEMMA Goes ==
    ASSUME Inv, NEW n \in Numbers, NEW b \in Attempt,
           att' = [att EXCEPT ![n] = b], UNCHANGED <<executor, row, vm, wire, losses>>,
           Fault \/ UNCHANGED faults,
           Sound(executor, n, b, vm[n], Pending(n)),
           executor = "husker" /\ Unstoppable(b, vm[n], Pending(n)) =>
              Unstoppable(att[n], vm[n], Pending(n)),
           b.pc = "reap" => att[n].pc = "reap" /\ b.at = att[n].at,
           att[n].pc \notin {"idle", "ended"}
    PROVE  Inv'
<1>1. PICK w : w = Pending(n)'
  OBVIOUS
<1>2. /\ w = Pending(n) /\ wire' \subseteq Request
      /\ \A k \in Numbers : k # n => Pending(k)' = Pending(k)
      /\ faults' \in 0 .. MaxFaults /\ losses' \in 0 .. MaxLosses
  BY <1>1, At, Counts, PendingKept
<1> QED BY <1>1, <1>2, Moves

LEMMA PostStep ==
    ASSUME Inv, NEW n \in Numbers, Post(n)
    PROVE  Inv'
<1>0. /\ att[n] \in Attempt /\ vm[n] \in Machine /\ att \in [Numbers -> Attempt]
      /\ Sound(executor, n, att[n], vm[n], Pending(n))
      /\ executor # "process" /\ att[n].pc \in {"create", "exec"}
  BY At DEF Inv, TypeOK, Post
<1> DEFINE pc == IF att[n].pc = "create" THEN "creating" ELSE "executing"
<1>1. att' = [att EXCEPT ![n] = [att[n] EXCEPT !.pc = pc, !.sends = att[n].sends + 1]]
  BY <1>0 DEF Post, Attempt
<1>2. att[n].sends + 1 \in 0 .. MaxSends
  <2>1. att[n].sends < MaxSends /\ att[n].sends \in 0 .. MaxSends
    BY <1>0 DEF Sound, WireSound, Attempt
  <2> QED BY <2>1, Limits
<1>3. pc \in Phases
  BY DEF Phases, Timed
<1> HIDE DEF pc
<1>4. PICK b \in Attempt : b = [att[n] EXCEPT !.pc = pc, !.sends = att[n].sends + 1]
  BY <1>0, <1>2, <1>3 DEF Attempt
<1>5. b.pc = pc /\ Keeps(att[n], b) /\ b.left = att[n].left
  BY <1>0, <1>4 DEF Attempt, Keeps
<1>6. PICK o \in {"create", "exec"} : o = Op(n)
  BY DEF Op
<1>7. wire' = wire \cup {[op |-> o, of |-> n]}
  BY <1>6 DEF Post
<1>8. PICK w : w = Pending(n)'
  OBVIOUS
<1>9. /\ w = Pending(n) \cup {o} /\ wire' \subseteq Request
      /\ \A k \in Numbers : k # n => Pending(k)' = Pending(k)
  BY <1>7, <1>8, Sent
<1>10. \/ att[n].pc \in {"prepare", "create"} /\ b.pc = "creating" /\ w = Pending(n) \cup {"create"}
       \/ att[n].pc = "exec" /\ b.pc = "executing" /\ w = Pending(n) \cup {"exec"}
  BY <1>0, <1>5, <1>6, <1>9 DEF pc, Op
<1>11. Sound(executor, n, b, vm[n], w)
  BY <1>0, <1>5, <1>10, PostSound
<1>12. Unstoppable(att[n], vm[n], Pending(n))
  BY <1>0 DEF Unstoppable
<1>13. /\ att' = [att EXCEPT ![n] = b] /\ UNCHANGED <<executor, row, vm>>
       /\ faults' \in 0 .. MaxFaults /\ losses' \in 0 .. MaxLosses
  BY <1>1, <1>4, Counts DEF Post
<1>14. b.pc # "reap"
  BY <1>10
<1> QED BY <1>0, <1>8, <1>9, <1>11, <1>12, <1>13, <1>14, Moves

\* A POST fails for good.
LEMMA PostGivenUp ==
    ASSUME Inv, NEW n \in Numbers, NEW error \in {"limited", "dropped"}, PostFailed(n, error),
           ~(Open(n) /\ Retries("POST", error, att[n].sends)), executor # "process",
           att[n].pc \in {"creating", "executing"}, Fault, UNCHANGED <<executor, row, vm, losses>>,
           wire' \subseteq wire, \A k \in Numbers : k # n => Pending(k)' = Pending(k)
    PROVE  Inv'
<1>0. att[n] \in Attempt
  BY At
<1>1. PICK a \in Attempt : a = Returned(att[n], error)
  BY <1>0, ReturnedFacts
<1>2. att' = [att EXCEPT ![n] = Fails(a)]
  BY <1>1 DEF PostFailed
<1>3. att[n].pc \in Timed \ {"cleanup"}
  BY DEF Timed
<1>4. faults' \in 0 .. MaxFaults /\ losses' \in 0 .. MaxLosses
  BY Counts
<1> QED BY <1>1, <1>2, <1>3, <1>4, QuitsFailed

LEMMA PostDroppedStep ==
    ASSUME Inv, NEW n \in Numbers, PostDropped(n)
    PROVE  Inv'
<1>1. ~Retries("POST", "dropped", att[n].sends)
  BY DEF Retries
<1>2. wire' = wire /\ \A k \in Numbers : k # n => Pending(k)' = Pending(k)
  BY PendingKept DEF PostDropped
<1> QED BY <1>1, <1>2, PostGivenUp DEF PostDropped

LEMMA PostLimitedStep ==
    ASSUME Inv, NEW n \in Numbers, PostLimited(n)
    PROVE  Inv'
<1>0. /\ att[n] \in Attempt /\ vm[n] \in Machine
      /\ Sound(executor, n, att[n], vm[n], Pending(n))
      /\ att[n].pc \in {"creating", "executing"}
  BY At DEF PostLimited
<1>1. PICK o \in {"create", "exec"} : o = Op(n)
  BY DEF Op
<1>2. wire' = wire \ {[op |-> o, of |-> n]} /\ [op |-> o, of |-> n] \in wire
  BY <1>1 DEF PostLimited
<1>3. /\ Pending(n)' = Pending(n) \ {o} /\ wire' \subseteq wire /\ wire' \subseteq Request
      /\ \A k \in Numbers : k # n => Pending(k)' = Pending(k)
      /\ o \in Pending(n)
  BY <1>2, Handled DEF Pending
<1>4. executor # "process"
  BY <1>0, <1>3 DEF Sound, ExecutorSound
<1>5. CASE ~(Open(n) /\ Retries("POST", "limited", att[n].sends))
  BY <1>0, <1>3, <1>4, <1>5, PostGivenUp DEF PostLimited
<1>6. CASE Open(n) /\ Retries("POST", "limited", att[n].sends)
  <2> DEFINE pc == IF att[n].pc = "creating" THEN "create" ELSE "exec"
  <2>1. att' = [att EXCEPT ![n] = [att[n] EXCEPT !.pc = pc]]
    BY <1>0, <1>6 DEF PostLimited, PostFailed, Attempt
  <2>2. pc \in Phases
    BY DEF Phases, Timed
  <2> HIDE DEF pc
  <2>3. PICK b \in Attempt : b = [att[n] EXCEPT !.pc = pc]
    BY <1>0, <2>2 DEF Attempt
  <2>4. b.pc = pc /\ Keeps(att[n], b) /\ b.left = att[n].left /\ b.sends = att[n].sends
    BY <1>0, <2>3 DEF Attempt, Keeps
  <2>5. b.sends < MaxSends
    BY <1>6, <2>4 DEF Retries
  <2>6. PICK w : w = Pending(n)'
    OBVIOUS
  <2>7. \/ att[n].pc = "creating" /\ b.pc = "create" /\ "create" \in Pending(n) /\ w = Pending(n) \ {"create"}
        \/ att[n].pc = "executing" /\ b.pc = "exec" /\ "exec" \in Pending(n) /\ w = Pending(n) \ {"exec"}
    BY <1>0, <1>1, <1>3, <2>4, <2>6 DEF pc, Op
  <2>8. Sound(executor, n, b, vm[n], w)
    BY <1>0, <1>4, <2>4, <2>5, <2>7, RefusedSound
  <2>9. Unstoppable(att[n], vm[n], Pending(n))
    BY <2>7 DEF Unstoppable
  <2>10. /\ att' = [att EXCEPT ![n] = b] /\ UNCHANGED <<executor, row, vm>>
         /\ faults' \in 0 .. MaxFaults /\ losses' \in 0 .. MaxLosses
    BY <2>1, <2>3, Counts DEF PostLimited
  <2>11. b.pc # "reap"
    BY <2>7
  <2> QED BY <1>0, <1>3, <2>6, <2>8, <2>9, <2>10, <2>11, Moves
<1> QED BY <1>5, <1>6

LEMMA HuskerCreatesStep ==
    ASSUME Inv, NEW n \in Numbers, HuskerCreates(n)
    PROVE  Inv'
<1>0. /\ att[n] \in Attempt /\ vm[n] \in Machine /\ vm \in [Numbers -> Machine]
      /\ Sound(executor, n, att[n], vm[n], Pending(n))
  BY At DEF Inv, TypeOK
<1>1. PICK w : w = Pending(n)'
  OBVIOUS
<1>2. /\ w = Pending(n) \ {"create"} /\ wire' \subseteq Request
      /\ \A k \in Numbers : k # n => Pending(k)' = Pending(k)
      /\ "create" \in Pending(n)
  BY <1>1, Handled DEF HuskerCreates, Pending
<1>3. UNCHANGED <<executor, row, att, faults, losses>>
  BY DEF HuskerCreates
<1>4. CASE vm[n].st = "up"
  <2>1. PICK m \in Machine : m = vm[n]
    BY <1>0
  <2>2. vm' = [vm EXCEPT ![n] = m]
    BY <1>0, <1>4, <2>1 DEF HuskerCreates
  <2>3. Sound(executor, n, att[n], m, w)
    BY <1>0, <1>2, <2>1, WireShrinks
  <2>4. Unstoppable(att[n], m, w) => Unstoppable(att[n], vm[n], Pending(n))
    BY <1>2, <2>1 DEF Unstoppable
  <2> QED BY <1>1, <1>2, <1>3, <2>1, <2>2, <2>3, <2>4, Serves
<1>5. CASE vm[n].st # "up"
  <2> DEFINE life == Lifetime
             tardy == att[n].pc # "creating"
             new == [vm[n] EXCEPT !.st = "up", !.taken = FALSE, !.life = life,
                                  !.deleter = 0, !.born = vm[n].reapers, !.tardy = tardy]
  <2>1. life \in Nat /\ life >= Provision + Runtime + Cleanup + Grace
    BY Limits DEF Lifetime
  <2>2. tardy \in BOOLEAN /\ 0 \in 0 .. MaxAttempts /\ vm[n].reapers \in SUBSET Numbers
    BY <1>0, Limits DEF Machine
  <2>3. vm' = [vm EXCEPT ![n] = new]
    BY <1>0, <1>5 DEF HuskerCreates, Machine
  <2> HIDE DEF life, tardy
  <2>4. new \in Machine
    BY <1>0, <2>1, <2>2 DEF Machine
  <2>5. /\ new.st = "up" /\ new.taken = FALSE /\ new.deleter = 0 /\ new.tardy = tardy
        /\ new.life = life /\ new.cmd = vm[n].cmd /\ new.starts = vm[n].starts
        /\ new.ran = vm[n].ran /\ new.reapers = vm[n].reapers /\ new.born = vm[n].reapers
    BY <1>0 DEF Machine
  <2> HIDE DEF new
  <2>6. PICK m \in Machine : m = new
    BY <2>4
  <2>7. Sound(executor, n, att[n], m, w)
    BY <1>0, <1>2, <1>5, <2>1, <2>5, <2>6, CreateSound DEF tardy
  <2>8. Unstoppable(att[n], m, w) => Unstoppable(att[n], vm[n], Pending(n))
    BY <1>2, <2>5, <2>6 DEF Unstoppable
  <2> QED BY <1>1, <1>2, <1>3, <2>3, <2>5, <2>6, <2>7, <2>8, Serves
<1> QED BY <1>4, <1>5

LEMMA HuskerExecsStep ==
    ASSUME Inv, NEW n \in Numbers, HuskerExecs(n)
    PROVE  Inv'
<1>0. /\ att[n] \in Attempt /\ vm[n] \in Machine /\ vm \in [Numbers -> Machine]
      /\ Sound(executor, n, att[n], vm[n], Pending(n))
  BY At DEF Inv, TypeOK
<1>1. PICK w : w = Pending(n)'
  OBVIOUS
<1>2. /\ w = Pending(n) \ {"exec"} /\ wire' \subseteq Request
      /\ \A k \in Numbers : k # n => Pending(k)' = Pending(k)
      /\ "exec" \in Pending(n)
  BY <1>1, Handled DEF HuskerExecs, Pending
<1>3. UNCHANGED <<executor, row, att, faults, losses>>
  BY DEF HuskerExecs
<1>4. CASE vm[n].st # "up"
  <2>1. PICK m \in Machine : m = vm[n]
    BY <1>0
  <2>2. vm' = [vm EXCEPT ![n] = m]
    BY <1>0, <1>4, <2>1 DEF HuskerExecs
  <2>3. Sound(executor, n, att[n], m, w)
    BY <1>0, <1>2, <2>1, WireShrinks
  <2>4. Unstoppable(att[n], m, w) => Unstoppable(att[n], vm[n], Pending(n))
    BY <1>2, <2>1 DEF Unstoppable
  <2> QED BY <1>1, <1>2, <1>3, <2>1, <2>2, <2>3, <2>4, Serves
<1>5. CASE vm[n].st = "up"
  <2>0. /\ vm[n].starts = 0 /\ vm[n].cmd = "no" /\ executor # "process"
        /\ att[n].pc \in {"executing"} \cup After \cup {"read", "package"}
    BY <1>0, <1>2 DEF Sound, WireSound, ExecutorSound, Before, After, Attempt, Machine, Phases, Timed
  <2> DEFINE new == [vm[n] EXCEPT !.cmd = "running", !.ran = 0, !.starts = 1]
  <2>1. vm' = [vm EXCEPT ![n] = new]
    BY <1>0, <1>5, <2>0 DEF HuskerExecs, Machine
  <2>2. new \in Machine
    <3>1. 0 \in 0 .. Runtime /\ 1 \in Nat
      BY Limits
    <3> QED BY <1>0, <3>1 DEF Machine
  <2>3. /\ SameVM(vm[n], new) /\ new.life = vm[n].life /\ new.cmd = "running" /\ new.ran = 0
        /\ new.starts = 1 /\ new.reapers = vm[n].reapers /\ new.born = vm[n].born
        /\ new.st = vm[n].st
    BY <1>0 DEF Machine, SameVM
  <2> HIDE DEF new
  <2>4. PICK m \in Machine : m = new
    BY <2>2
  <2>5. Sound(executor, n, att[n], m, w)
    BY <1>0, <1>2, <1>5, <2>0, <2>3, <2>4, StartSound
  <2>6. Unstoppable(att[n], vm[n], Pending(n))
    BY <1>2 DEF Unstoppable
  <2> QED BY <1>1, <1>2, <1>3, <2>0, <2>1, <2>3, <2>4, <2>5, <2>6, Serves
<1> QED BY <1>4, <1>5

\* The VM of an earlier attempt k is removed by attempt n, or may have been.
LEMMA Reaps ==
    ASSUME Inv, NEW n \in Numbers, NEW k \in Numbers, k < n, NEW b \in Attempt, NEW q \in Machine,
           att' = [att EXCEPT ![n] = b], vm' = [vm EXCEPT ![k] = q],
           UNCHANGED <<executor, row, wire, losses>>, faults' \in 0 .. MaxFaults,
           att[n].pc = "reap", att[n].at = k,
           Sound(executor, n, b, vm[n], Pending(n)),
           Sound(executor, k, att[k], q, Pending(k)),
           q = vm[k] \/ q.st # "up", vm[k].reapers \subseteq q.reapers,
           q.starts = vm[k].starts, vm[k].cmd = "ok" => q.cmd = "ok",
           b.pc \in {"reap", "prepare", "cleanup", "record"},
           b.pc = "prepare" => k + 1 = n /\ n \in q.reapers,
           b.pc = "reap" => b.at = k \/ (b.at = k + 1 /\ n \in q.reapers)
    PROVE  Inv'
<1>0. /\ att \in [Numbers -> Attempt] /\ vm \in [Numbers -> Machine] /\ executor \in Executors
      /\ RowSound /\ TypeOK /\ executor' = executor /\ row' = row /\ wire' = wire
      /\ n \in Nat /\ k \in Nat
  BY Limits DEF Inv, TypeOK, Numbers
<1>1. /\ att'[n] = b /\ \A i \in Numbers : i # n => att'[i] = att[i]
      /\ vm'[k] = q /\ \A i \in Numbers : i # k => vm'[i] = vm[i]
  BY <1>0
<1>2. TypeOK'
  <2>1. att' \in [Numbers -> Attempt] /\ vm' \in [Numbers -> Machine]
    BY <1>0
  <2> QED BY <1>0, <2>1 DEF TypeOK
<1>3. ASSUME NEW i \in Numbers
      PROVE  Sound(executor, i, att[i], vm[i], Pending(i))'
  <2>0. Pending(i)' = Pending(i) /\ Sound(executor, i, att[i], vm[i], Pending(i))
    BY <1>0, PendingKept DEF Inv
  <2>1. Sound(executor', i, att'[i], vm'[i], Pending(i)')
    <3>1. CASE i = n
      BY <1>0, <1>1, <2>0, <3>1
    <3>2. CASE i = k
      BY <1>0, <1>1, <2>0, <3>2
    <3>3. CASE i # n /\ i # k
      BY <1>0, <1>1, <2>0, <3>3
    <3> QED BY <3>1, <3>2, <3>3
  <2> QED BY <2>1
<1>4. ASSUME NEW i \in Numbers, NEW j \in Numbers, j < i
      PROVE  ReapSound(i, j)'
  <2>0. i \in Nat /\ j \in Nat /\ Pending(i)' = Pending(i) /\ ReapSound(i, j)
    BY <1>0, <1>4, PendingKept, Limits DEF Inv, Numbers
  <2>1. /\ vm[j].reapers \subseteq vm'[j].reapers /\ vm'[i].starts = vm[i].starts
        /\ j = k => vm'[j].reapers = q.reapers
    BY <1>1
  <2>2. executor = "husker" /\ Reaped(i)' => i \in vm'[j].reapers
    <3>1. CASE i # n
      <4>1. Reaped(i)' => Reaped(i)
        BY <1>1, <2>0, <2>1, <3>1 DEF Reaped
      <4> QED BY <2>0, <2>1, <4>1 DEF ReapSound
    <3>2. CASE i = n
      <4>1. vm[n].starts = 0 /\ "exec" \notin Pending(n)
        <5>1. Sound(executor, n, att[n], vm[n], Pending(n))
          BY At
        <5> QED BY <5>1 DEF Sound, WireSound, Before
      <4>2. Reaped(n)' => b.pc = "prepare"
        BY <1>1, <2>0, <2>1, <3>2, <4>1 DEF Reaped
      <4>3. CASE j = k
        BY <1>1, <3>2, <4>2, <4>3
      <4>4. CASE j # k
        <5>1. Reaped(n)' => j < k
          BY <1>0, <1>4, <2>0, <3>2, <4>2, <4>4
        <5> QED BY <2>0, <2>1, <3>2, <5>1 DEF ReapSound
      <4> QED BY <4>3, <4>4
    <3> QED BY <3>1, <3>2
  <2>3. att'[i].pc = "reap" /\ j < att'[i].at => i \in vm'[j].reapers
    <3>1. CASE i # n
      BY <1>1, <2>0, <2>1, <3>1 DEF ReapSound
    <3>2. CASE i = n
      <4>1. CASE j = k
        BY <1>0, <1>1, <3>2, <4>1
      <4>2. CASE j # k
        <5>1. att'[n].pc = "reap" /\ j < att'[n].at => j < k
          BY <1>0, <1>1, <2>0, <4>2
        <5> QED BY <2>0, <2>1, <3>2, <5>1 DEF ReapSound
      <4> QED BY <4>1, <4>2
    <3> QED BY <3>1, <3>2
  <2>4. i \in vm'[j].reapers /\ vm'[j].st = "up" => i \in vm'[j].born
    <3>1. CASE j = k /\ q.st # "up"
      BY <1>1, <3>1
    <3>2. CASE j # k \/ q = vm[k]
      BY <1>1, <2>0, <3>2 DEF ReapSound
    <3> QED BY <3>1, <3>2
  <2> QED BY <2>2, <2>3, <2>4 DEF ReapSound
<1>5. RowSound'
  <2>1. \A i \in Numbers : att[i].pc \in {"idle", "ended"} => att'[i] = att[i]
    BY <1>1
  <2>2. \A i \in Numbers : vm[i].cmd = "ok" => vm'[i].cmd = "ok"
    BY <1>1
  <2> QED BY <1>0, <2>1, <2>2 DEF RowSound
<1> QED BY <1>2, <1>3, <1>4, <1>5 DEF Inv

\* What a DELETE leaves.
LEMMA DeleteFacts ==
    ASSUME Inv, NEW n \in Numbers, NEW k \in Numbers
    PROVE  /\ Delete(n, k) \in Machine
           /\ Delete(n, k).st = IF vm[k].st = "up" THEN "gone" ELSE vm[k].st
           /\ Delete(n, k).cmd = IF vm[k].cmd = "running" THEN "bad" ELSE vm[k].cmd
           /\ Delete(n, k).deleter = IF vm[k].st = "up" THEN n ELSE vm[k].deleter
           /\ Delete(n, k).taken = vm[k].taken /\ Delete(n, k).starts = vm[k].starts
           /\ Delete(n, k).tardy = vm[k].tardy /\ Delete(n, k).ran = vm[k].ran
           /\ Delete(n, k).reapers = vm[k].reapers /\ Delete(n, k).born = vm[k].born
<1>0. vm[k] \in Machine
  BY At
<1>1. PICK r \in Machine : r = Removed(vm[k])
  BY <1>0, RemovedFacts
<1> DEFINE d == IF vm[k].st = "up" THEN n ELSE r.deleter
<1>2. Delete(n, k) = [r EXCEPT !.deleter = d]
  BY <1>1 DEF Delete, Machine
<1>3. d \in 0 .. MaxAttempts
  BY <1>1, Limits DEF Machine, Numbers
<1>4. d = IF vm[k].st = "up" THEN n ELSE vm[k].deleter
  BY <1>0, <1>1, RemovedFacts
<1> HIDE DEF d
<1>5. [r EXCEPT !.deleter = d] \in Machine
  BY <1>1, <1>3 DEF Machine
<1>6. /\ Delete(n, k).st = r.st /\ Delete(n, k).cmd = r.cmd /\ Delete(n, k).deleter = d
      /\ Delete(n, k).taken = r.taken /\ Delete(n, k).starts = r.starts
      /\ Delete(n, k).tardy = r.tardy /\ Delete(n, k).ran = r.ran
      /\ Delete(n, k).reapers = r.reapers /\ Delete(n, k).born = r.born
  BY <1>1, <1>2 DEF Machine
<1>7. /\ r.st = IF vm[k].st = "up" THEN "gone" ELSE vm[k].st
      /\ r.cmd = IF vm[k].cmd = "running" THEN "bad" ELSE vm[k].cmd
      /\ r.taken = vm[k].taken /\ r.starts = vm[k].starts
      /\ r.tardy = vm[k].tardy /\ r.reapers = vm[k].reapers /\ r.born = vm[k].born
      /\ r.ran = vm[k].ran
  BY <1>0, <1>1, RemovedFacts
<1>8. Delete(n, k) \in Machine
  BY <1>2, <1>5
<1> QED BY <1>4, <1>6, <1>7, <1>8

\* What a DELETE that is answered leaves, and one that is not.
LEMMA DeletedFacts ==
    ASSUME Inv, NEW n \in Numbers, NEW k \in Numbers, k < n \/ (k = n /\ att[n].pc = "cleanup"),
           Deleted(n, k) \/ DeleteDropped(n, k)
    PROVE  \E q \in Machine :
              /\ vm' = [vm EXCEPT ![k] = q]
              /\ Sound(executor, k, att[k], q, Pending(k))
              /\ q = vm[k] \/ q.st # "up"
              /\ Deleted(n, k) => q.st # "up" /\ q.reapers = vm[k].reapers \cup (IF k = n THEN {} ELSE {n})
              /\ vm[k].reapers \subseteq q.reapers /\ (k = n => q.reapers = vm[k].reapers)
              /\ q.starts = vm[k].starts /\ (vm[k].cmd = "ok" => q.cmd = "ok")
              /\ q.born = vm[k].born
<1>0. /\ vm \in [Numbers -> Machine] /\ att[k] \in Attempt /\ vm[k] \in Machine
      /\ Sound(executor, k, att[k], vm[k], Pending(k)) /\ n \in Nat /\ k \in Nat
  BY At, Limits DEF Inv, TypeOK, Numbers
<1>1. PICK d \in Machine : d = Delete(n, k)
  BY DeleteFacts
<1>2. /\ d.st = (IF vm[k].st = "up" THEN "gone" ELSE vm[k].st)
      /\ d.cmd = (IF vm[k].cmd = "running" THEN "bad" ELSE vm[k].cmd)
      /\ d.deleter = (IF vm[k].st = "up" THEN n ELSE vm[k].deleter)
      /\ d.taken = vm[k].taken /\ d.starts = vm[k].starts
      /\ d.tardy = vm[k].tardy /\ d.ran = vm[k].ran
      /\ d.reapers = vm[k].reapers /\ d.born = vm[k].born
  BY <1>1, DeleteFacts
<1>3. n > k \/ (n = k /\ att[k].pc = "cleanup")
  BY <1>0
<1>4. CASE Deleted(n, k)
  <2> DEFINE set == IF k = n THEN d.reapers ELSE d.reapers \cup {n}
             new == [d EXCEPT !.reapers = set]
  <2>1. vm' = [vm EXCEPT ![k] = new]
    BY <1>1, <1>4 DEF Deleted, Machine
  <2>2. set \in SUBSET Numbers /\ set = vm[k].reapers \cup (IF k = n THEN {} ELSE {n})
    BY <1>1, <1>2 DEF Machine
  <2> HIDE DEF set
  <2>3. new \in Machine
    BY <1>1, <2>2 DEF Machine
  <2>4. /\ new.st = d.st /\ new.cmd = d.cmd /\ new.deleter = d.deleter /\ new.taken = d.taken
        /\ new.starts = d.starts /\ new.tardy = d.tardy /\ new.ran = d.ran
        /\ new.reapers = set /\ new.born = d.born
    BY <1>1 DEF Machine
  <2> HIDE DEF new
  <2>5. Sound(executor, k, att[k], new, Pending(k))
    BY <1>0, <1>2, <1>3, <2>3, <2>4, DeleteSound
  <2>6. new.st # "up" /\ (vm[k].cmd = "ok" => new.cmd = "ok") /\ vm[k].reapers \subseteq new.reapers
    BY <1>2, <2>2, <2>4
  <2>7. k = n => new.reapers = vm[k].reapers
    BY <2>2, <2>4
  <2> QED BY <1>2, <2>1, <2>2, <2>3, <2>4, <2>5, <2>6, <2>7
<1>5. CASE ~Deleted(n, k) /\ vm' = [vm EXCEPT ![k] = d]
  <2>1. Sound(executor, k, att[k], d, Pending(k))
    BY <1>0, <1>1, <1>2, <1>3, DeleteSound
  <2> QED BY <1>2, <1>5, <2>1
<1>6. CASE ~Deleted(n, k) /\ vm' = vm
  <2>1. vm' = [vm EXCEPT ![k] = vm[k]]
    BY <1>0, <1>6
  <2> QED BY <1>0, <1>6, <2>1
<1> QED BY <1>1, <1>4, <1>5, <1>6 DEF DeleteDropped

LEMMA LeaveSound ==
    ASSUME NEW e, NEW n \in Numbers, NEW a \in Attempt, NEW m \in Machine, NEW w,
           NEW error \in Errors, Sound(e, n, a, m, w),
           a.pc \in Timed \ {"cleanup", "create", "creating"},
           error = "no" => m.cmd = "ok" \/ e = "build", e = "process" => m.cmd # "running"
    PROVE  Sound(e, n, Leave(a, error), m, w)
<1>1. PICK b \in Attempt : b = Leave(a, error)
  BY LeaveFacts
<1>2. /\ b.own = a.own /\ b.pc = (IF b.own THEN "cleanup" ELSE "record")
      /\ b.told = a.told /\ b.swept = a.swept /\ b.stop = a.stop
      /\ b.cut = a.cut /\ b.aborted = a.aborted /\ b.got = a.got /\ b.err = error
  BY <1>1, LeaveFacts
<1>3. ~a.aborted /\ \A i, j \in DOMAIN a.got : a.got[i] = a.got[j]
  BY DEF Sound, OutcomeSound, Timed
<1>4. /\ a.pc \in Timed \ {"cleanup"}
      /\ b.own = IF a.pc \in {"create", "creating"} THEN TRUE ELSE a.own
      /\ b.aborted => a.cut = "shutdown" /\ b.err = "canceled"
      /\ b.err = "no" => m.cmd = "ok" \/ e = "build"
  BY <1>2, <1>3
<1>5. \A i, j \in DOMAIN b.got : b.got[i] = b.got[j]
  BY <1>2, <1>3
<1>6. Sound(e, n, b, m, w)
  BY <1>2, <1>4, <1>5, Leaves
<1> QED BY <1>1, <1>6

LEMMA ReapPriorAttemptsStep ==
    ASSUME Inv, NEW n \in Numbers, ReapPriorAttempts(n)
    PROVE  Inv'
<1>0. /\ att[n] \in Attempt /\ vm[n] \in Machine /\ n \in Nat /\ att[n].pc = "reap"
      /\ Sound(executor, n, att[n], vm[n], Pending(n))
  BY At, Limits DEF Numbers, ReapPriorAttempts
<1>1. att[n].at \in 1 .. n - 1 /\ executor # "process"
  BY <1>0 DEF Sound, ExecutorSound
<1>2. PICK k \in Numbers : k = att[n].at
  <2>1. att[n].at \in 1 .. MaxAttempts
    BY <1>0, <1>1, Limits DEF Numbers
  <2> QED BY <2>1 DEF Numbers
<1>3. k \in Nat /\ k < n /\ (Deleted(n, k) \/ DeleteDropped(n, k))
  BY <1>0, <1>1, <1>2 DEF ReapPriorAttempts
<1>4. UNCHANGED <<executor, row, wire, losses>> /\ faults' \in 0 .. MaxFaults
  BY Counts DEF ReapPriorAttempts
<1>5. PICK q \in Machine :
              /\ vm' = [vm EXCEPT ![k] = q]
              /\ Sound(executor, k, att[k], q, Pending(k))
              /\ q = vm[k] \/ q.st # "up"
              /\ Deleted(n, k) => q.st # "up" /\ q.reapers = vm[k].reapers \cup (IF k = n THEN {} ELSE {n})
              /\ vm[k].reapers \subseteq q.reapers /\ (k = n => q.reapers = vm[k].reapers)
              /\ q.starts = vm[k].starts /\ (vm[k].cmd = "ok" => q.cmd = "ok")
              /\ q.born = vm[k].born
  BY <1>3, DeletedFacts
<1>6. SUFFICES \E b \in Attempt :
              /\ att' = [att EXCEPT ![n] = b]
              /\ Sound(executor, n, b, vm[n], Pending(n))
              /\ b.pc \in {"reap", "prepare", "cleanup", "record"}
              /\ b.pc = "prepare" => k + 1 = n /\ n \in q.reapers
              /\ b.pc = "reap" => b.at = k \/ (b.at = k + 1 /\ n \in q.reapers)
  <2>1. ASSUME NEW b \in Attempt, att' = [att EXCEPT ![n] = b],
               Sound(executor, n, b, vm[n], Pending(n)),
               b.pc \in {"reap", "prepare", "cleanup", "record"},
               b.pc = "prepare" => k + 1 = n /\ n \in q.reapers,
               b.pc = "reap" => b.at = k \/ (b.at = k + 1 /\ n \in q.reapers)
        PROVE  Inv'
    <3>1. /\ att[n].pc = "reap" /\ att[n].at = k /\ k < n
          /\ vm' = [vm EXCEPT ![k] = q] /\ Sound(executor, k, att[k], q, Pending(k))
          /\ q = vm[k] \/ q.st # "up"
          /\ vm[k].reapers \subseteq q.reapers
          /\ q.starts = vm[k].starts /\ (vm[k].cmd = "ok" => q.cmd = "ok")
      BY <1>0, <1>2, <1>3, <1>5
    <3> QED BY <1>4, <2>1, <3>1, Reaps
  <2> QED BY <2>1
<1>7. /\ vm[n].cmd # "running"
      /\ WireSound(att[n], vm[n], Pending(n)) /\ TimeSound(executor, n, att[n], vm[n])
  BY <1>0 DEF Sound, WireSound, Before
<1>8. CASE /\ Deleted(n, k)
           /\ att' = [att EXCEPT ![n] =
                IF k + 1 < n THEN [att[n] EXCEPT !.at = @ + 1, !.sends = 0]
                ELSE [att[n] EXCEPT !.pc = "prepare", !.sends = 0, !.left = Provision]]
  <2>0. n \in q.reapers
    BY <1>3, <1>5, <1>8
  <2>1. CASE k + 1 < n
    <3>1. k + 1 \in 0 .. MaxAttempts /\ 0 \in 0 .. MaxSends /\ k + 1 \in 1 .. n - 1
      BY <1>0, <1>3, <2>1, Limits DEF Numbers
    <3>2. [att[n] EXCEPT !.at = @ + 1, !.sends = 0] = [att[n] EXCEPT !.at = k + 1, !.sends = 0]
      BY <1>0, <1>2 DEF Attempt
    <3>3. PICK b \in Attempt : b = [att[n] EXCEPT !.at = k + 1, !.sends = 0]
      BY <1>0, <3>1 DEF Attempt
    <3>4. b.pc = "reap" /\ b.at = k + 1 /\ Keeps(att[n], b)
      BY <1>0, <3>3 DEF Attempt, Keeps
    <3>5. WireSound(b, vm[n], Pending(n)) /\ TimeSound(executor, n, b, vm[n])
      BY <1>0, <1>7, <3>4 DEF WireSound, TimeSound
    <3>6. Sound(executor, n, b, vm[n], Pending(n))
      BY <1>0, <1>1, <3>1, <3>4, <3>5, Proceeds DEF Timed
    <3> QED BY <1>8, <2>0, <2>1, <3>2, <3>3, <3>4, <3>6
  <2>2. CASE ~(k + 1 < n)
    <3>1. k + 1 = n
      BY <1>0, <1>3, <2>2
    <3>2. "prepare" \in Phases /\ 0 \in 0 .. MaxSends /\ Provision \in 0 .. (Provision + Runtime + Cleanup + Grace)
      BY Limits DEF Phases, Timed
    <3>3. PICK b \in Attempt : b = [att[n] EXCEPT !.pc = "prepare", !.sends = 0, !.left = Provision]
      BY <1>0, <3>2 DEF Attempt
    <3>4. b.pc = "prepare" /\ b.left = Provision /\ Keeps(att[n], b)
      BY <1>0, <3>3 DEF Attempt, Keeps
    <3>5. WireSound(b, vm[n], Pending(n))
      BY <1>0, <1>7, <3>4 DEF WireSound, Before, After
    <3>6. TimeSound(executor, n, b, vm[n])
      BY <1>0, <1>7, <3>4, Limits DEF TimeSound
    <3>7. Sound(executor, n, b, vm[n], Pending(n))
      BY <1>0, <1>1, <3>4, <3>5, <3>6, Proceeds DEF Timed
    <3> QED BY <1>8, <2>0, <2>2, <3>1, <3>3, <3>4, <3>7
  <2> QED BY <2>1, <2>2
<1>9. CASE att' = [att EXCEPT ![n] =
                IF Retries("DELETE", "dropped", att[n].sends + 1) THEN [att[n] EXCEPT !.sends = @ + 1]
                ELSE Leave(att[n], "failed")]
  <2>1. CASE Retries("DELETE", "dropped", att[n].sends + 1)
    <3>1. att[n].sends + 1 \in 0 .. MaxSends
      BY <1>0, <2>1, Limits DEF Retries, Attempt
    <3>2. PICK b \in Attempt : b = [att[n] EXCEPT !.sends = @ + 1]
      BY <1>0, <3>1 DEF Attempt
    <3>3. b.pc = "reap" /\ b.at = k /\ Keeps(att[n], b)
      BY <1>0, <1>2, <3>2 DEF Attempt, Keeps
    <3>4. WireSound(b, vm[n], Pending(n)) /\ TimeSound(executor, n, b, vm[n])
      BY <1>0, <1>7, <3>3 DEF WireSound, TimeSound
    <3>5. Sound(executor, n, b, vm[n], Pending(n))
      BY <1>0, <1>1, <1>2, <3>3, <3>4, Proceeds DEF Timed
    <3> QED BY <1>9, <2>1, <3>2, <3>3, <3>5
  <2>2. CASE ~Retries("DELETE", "dropped", att[n].sends + 1)
    <3>1. "failed" \in Errors
      BY DEF Errors
    <3>2. Leave(att[n], "failed") \in Attempt /\ Leave(att[n], "failed").pc \in {"cleanup", "record"}
      BY <1>0, <3>1, LeaveFacts
    <3>3. Sound(executor, n, Leave(att[n], "failed"), vm[n], Pending(n))
      BY <1>0, <1>7, <3>1, LeaveSound DEF Timed
    <3> QED BY <1>9, <2>2, <3>2, <3>3
  <2> QED BY <2>1, <2>2
<1> QED BY <1>2, <1>8, <1>9 DEF ReapPriorAttempts

LEMMA PrepareStep ==
    ASSUME Inv, NEW n \in Numbers, Prepare(n)
    PROVE  Inv'
<1>0. /\ att[n] \in Attempt /\ vm[n] \in Machine /\ att \in [Numbers -> Attempt]
      /\ Sound(executor, n, att[n], vm[n], Pending(n)) /\ att[n].pc = "prepare"
  BY At DEF Prepare, Inv, TypeOK
<1>1. executor # "process" /\ vm[n].cmd # "running"
  BY <1>0 DEF Sound, ExecutorSound, WireSound, Before
<1>2. UNCHANGED <<executor, row, vm>> /\ faults' \in 0 .. MaxFaults /\ losses' \in 0 .. MaxLosses
  BY Counts DEF Prepare
<1>3. CASE /\ att' = [att EXCEPT ![n].pc = "creating", ![n].sends = 1]
           /\ wire' = wire \cup {[op |-> "create", of |-> n]}
  <2>1. att' = [att EXCEPT ![n] = [att[n] EXCEPT !.pc = "creating", !.sends = 1]]
    BY <1>0, <1>3 DEF Attempt
  <2>2. 1 \in 0 .. MaxSends /\ "creating" \in Phases
    BY Limits DEF Phases, Timed
  <2>3. PICK b \in Attempt : b = [att[n] EXCEPT !.pc = "creating", !.sends = 1]
    BY <1>0, <2>2 DEF Attempt
  <2>4. b.pc = "creating" /\ Keeps(att[n], b) /\ b.left = att[n].left
    BY <1>0, <2>3 DEF Attempt, Keeps
  <2>5. PICK w : w = Pending(n)'
    OBVIOUS
  <2>6. /\ w = Pending(n) \cup {"create"} /\ wire' \subseteq Request
        /\ \A k \in Numbers : k # n => Pending(k)' = Pending(k)
    BY <1>3, <2>5, Sent
  <2>7. Sound(executor, n, b, vm[n], w)
    BY <1>0, <1>1, <2>4, <2>6, PostSound
  <2>8. Unstoppable(att[n], vm[n], Pending(n))
    BY <1>0 DEF Unstoppable
  <2> QED BY <1>0, <1>2, <2>1, <2>3, <2>4, <2>5, <2>6, <2>7, <2>8, Moves
<1>4. CASE att' = [att EXCEPT ![n] = Leave(@, "failed")] /\ UNCHANGED wire
  <2>1. att' = [att EXCEPT ![n] = Leave(att[n], "failed")]
    BY <1>4
  <2> QED BY <1>0, <1>1, <1>2, <1>4, <2>1, QuitsWith DEF Errors, Timed
<1> QED BY <1>3, <1>4 DEF Prepare

LEMMA CreateAnsweredStep ==
    ASSUME Inv, NEW n \in Numbers, CreateAnswered(n)
    PROVE  Inv'
<1>0. /\ att[n] \in Attempt /\ vm[n] \in Machine
      /\ Sound(executor, n, att[n], vm[n], Pending(n)) /\ att[n].pc = "creating"
      /\ vm[n].st # "none" /\ "create" \notin Pending(n)
  BY At DEF CreateAnswered, Pending
<1>1. UNCHANGED <<executor, row, vm, wire, losses>> /\ UNCHANGED faults
  BY DEF CreateAnswered
<1>2. Unstoppable(att[n], vm[n], Pending(n))
  BY <1>0 DEF Unstoppable
<1>3. CASE vm[n].taken
  <2>1. PICK a \in Attempt : a = [att[n] EXCEPT !.told = TRUE, !.own = FALSE]
    BY <1>0 DEF Attempt
  <2>2. /\ a.own = FALSE /\ a.cut = att[n].cut /\ a.stop = att[n].stop /\ a.got = att[n].got
        /\ a.swept = att[n].swept /\ a.aborted = att[n].aborted
    BY <1>0, <2>1 DEF Attempt
  <2>3. PICK b \in Attempt : b = Fails(a)
    BY FailsFacts
  <2>4. /\ b.pc = "record" /\ b.own = FALSE /\ b.err # "no" /\ b.cut = a.cut /\ b.stop = a.stop
        /\ b.got = a.got /\ b.swept = a.swept
        /\ b.aborted => a.aborted \/ (a.cut = "shutdown" /\ b.err = "canceled")
    BY <2>2, <2>3, FailsFacts
  <2>5. ~att[n].aborted
    BY <1>0 DEF Sound, OutcomeSound
  <2>6. Sound(executor, n, b, vm[n], Pending(n))
    BY <1>0, <1>3, <2>2, <2>4, <2>5, TakenSound
  <2>7. att' = [att EXCEPT ![n] = b]
    BY <1>3, <2>1, <2>3 DEF CreateAnswered, MayOwnVM
  <2> QED BY <1>0, <1>1, <1>2, <2>4, <2>6, <2>7, Goes
<1>4. CASE ~vm[n].taken
  <2>1. "ready" \in Phases /\ 0 \in 0 .. MaxSends
    BY Limits DEF Phases, Timed
  <2>2. PICK b \in Attempt : b = [att[n] EXCEPT !.told = TRUE, !.own = TRUE, !.pc = "ready", !.sends = 0]
    BY <1>0, <2>1 DEF Attempt
  <2>3. /\ b.pc = "ready" /\ b.own = TRUE /\ b.sends = 0 /\ b.cut = att[n].cut /\ b.stop = att[n].stop
        /\ b.got = att[n].got /\ b.left = att[n].left
        /\ b.swept = att[n].swept /\ b.aborted = att[n].aborted
    BY <1>0, <2>2 DEF Attempt
  <2>4. Sound(executor, n, b, vm[n], Pending(n))
    BY <1>0, <1>4, <2>3, ReadySound
  <2>5. att' = [att EXCEPT ![n] = b]
    BY <1>4, <2>2 DEF CreateAnswered, MayOwnVM
  <2> QED BY <1>0, <1>1, <1>2, <2>3, <2>4, <2>5, Goes
<1> QED BY <1>3, <1>4

LEMMA ProvisionedStep ==
    ASSUME Inv, NEW n \in Numbers, Provisioned(n)
    PROVE  Inv'
<1>0. /\ att[n] \in Attempt /\ vm[n] \in Machine /\ att \in [Numbers -> Attempt]
      /\ Sound(executor, n, att[n], vm[n], Pending(n)) /\ att[n].pc = "ready" /\ vm[n].st = "up"
  BY At DEF Provisioned, Inv, TypeOK
<1>1. executor # "process"
  BY <1>0 DEF Sound, ExecutorSound
<1>2. att' = [att EXCEPT ![n] = [att[n] EXCEPT !.pc = "exec", !.left = Runtime + Grace]]
  BY <1>0, <1>1 DEF Provisioned, CommandLimit, Attempt
<1>3. "exec" \in Phases /\ Runtime + Grace \in 0 .. (Provision + Runtime + Cleanup + Grace)
  BY Limits DEF Phases, Timed
<1>4. PICK b \in Attempt : b = [att[n] EXCEPT !.pc = "exec", !.left = Runtime + Grace]
  BY <1>0, <1>3 DEF Attempt
<1>5. /\ b.pc = "exec" /\ b.left = Runtime + Grace /\ Keeps(att[n], b) /\ b.sends = att[n].sends
  BY <1>0, <1>4 DEF Attempt, Keeps
<1>6. WireSound(b, vm[n], Pending(n))
  BY <1>0, <1>5 DEF Sound, WireSound, Before, After
<1>7. TimeSound(executor, n, b, vm[n])
  <2>1. vm[n].life >= Runtime + Grace + Cleanup
    <3>1. vm[n].life >= att[n].left + Runtime + Grace + Cleanup /\ ~vm[n].taken
      BY <1>0, <1>1 DEF Sound, TimeSound
    <3>2. vm[n].life \in Nat /\ att[n].left \in Nat
      BY <1>0 DEF Attempt, Machine
    <3> QED BY <3>1, <3>2, Limits
  <2>2. vm[n].life >= b.left + Cleanup
    BY <1>5, <2>1
  <2> QED BY <1>0, <1>5, <2>2, Limits DEF Sound, TimeSound
<1>8. Sound(executor, n, b, vm[n], Pending(n))
  BY <1>0, <1>1, <1>5, <1>6, <1>7, Proceeds DEF Timed
<1>9. Unstoppable(att[n], vm[n], Pending(n))
  BY <1>0 DEF Unstoppable
<1> QED BY <1>0, <1>2, <1>4, <1>5, <1>8, <1>9, Goes DEF Provisioned

LEMMA ProvisionFailsStep ==
    ASSUME Inv, NEW n \in Numbers, ProvisionFails(n)
    PROVE  Inv'
<1>0. Sound(executor, n, att[n], vm[n], Pending(n)) /\ att[n].pc = "ready"
  BY At DEF ProvisionFails
<1>1. executor # "process"
  BY <1>0 DEF Sound, ExecutorSound
<1>2. /\ UNCHANGED <<executor, row, vm, wire>> /\ faults' \in 0 .. MaxFaults /\ losses' \in 0 .. MaxLosses
      /\ att' = [att EXCEPT ![n] = Leave(att[n], "failed")]
  BY Counts DEF ProvisionFails
<1> QED BY <1>0, <1>1, <1>2, QuitsWith DEF Errors, Timed

LEMMA StartProcessStep ==
    ASSUME Inv, NEW n \in Numbers, StartProcess(n)
    PROVE  Inv'
<1>0. /\ att[n] \in Attempt /\ vm[n] \in Machine /\ att \in [Numbers -> Attempt]
      /\ vm \in [Numbers -> Machine] /\ executor = "process"
      /\ Sound(executor, n, att[n], vm[n], Pending(n)) /\ att[n].pc = "exec"
      /\ row \in [status : {"queued", "running", "succeeded", "failed"}, attempt : 0 .. MaxAttempts]
  BY At DEF StartProcess, Inv, TypeOK
<1>1. vm[n].starts = 0 /\ vm[n].cmd = "no" /\ vm[n].ran = 0 /\ Pending(n) = {}
  BY <1>0 DEF Sound, WireSound, TimeSound, ExecutorSound, Machine
<1>2. CASE /\ att' = [att EXCEPT ![n].pc = "executing"]
           /\ vm' = [vm EXCEPT ![n].cmd = "running", ![n].starts = @ + 1]
           /\ UNCHANGED faults
  <2>1. att' = [att EXCEPT ![n] = [att[n] EXCEPT !.pc = "executing"]]
    BY <1>0, <1>2 DEF Attempt
  <2>2. vm' = [vm EXCEPT ![n] = [vm[n] EXCEPT !.cmd = "running", !.starts = 1]]
    BY <1>0, <1>1, <1>2 DEF Machine
  <2>3. PICK b \in Attempt : b = [att[n] EXCEPT !.pc = "executing"]
    BY <1>0 DEF Attempt, Phases, Timed
  <2>4. /\ b.pc = "executing" /\ Keeps(att[n], b) /\ b.left = att[n].left
    BY <1>0, <2>3 DEF Attempt, Keeps
  <2>5. PICK m \in Machine : m = [vm[n] EXCEPT !.cmd = "running", !.starts = 1]
    BY <1>0 DEF Machine
  <2>6. /\ SameVM(vm[n], m) /\ m.life = vm[n].life /\ m.cmd = "running" /\ m.ran = vm[n].ran
        /\ m.starts = 1 /\ m.reapers = vm[n].reapers /\ m.born = vm[n].born /\ m.st = vm[n].st
    BY <1>0, <2>5 DEF Machine, SameVM
  <2>7. WireSound(b, vm[n], {}) /\ TimeSound(executor, n, b, vm[n])
    BY <1>0, <1>1, <2>4 DEF Sound, WireSound, TimeSound, Before
  <2>8. Sound(executor, n, b, vm[n], {})
    BY <1>0, <1>1, <2>4, <2>7, Proceeds DEF Timed
  <2>9. Sound(executor, n, b, m, {})
    <3>1. {} = {} \ {"exec"}
      OBVIOUS
    <3> QED BY <1>0, <1>1, <2>4, <2>6, <2>8, <3>1, StartSound
  <2>10. PICK w : w = Pending(n)'
    OBVIOUS
  <2>11. /\ w = {} /\ UNCHANGED <<executor, row, wire>> /\ wire' \subseteq Request
         /\ \A k \in Numbers : k # n => Pending(k)' = Pending(k)
         /\ faults' \in 0 .. MaxFaults /\ losses' \in 0 .. MaxLosses
    BY <1>1, <1>2, <2>10, At, Counts, PendingKept DEF StartProcess
  <2>12. RowSound'
    BY <1>0, <1>1, <2>1, <2>2, <2>3, <2>4, <2>5, <2>11, RowKept
  <2> QED BY <1>0, <2>1, <2>2, <2>3, <2>4, <2>5, <2>6, <2>9, <2>10, <2>11, <2>12, Local
<1>3. CASE att' = [att EXCEPT ![n] = Leave(@, "failed")] /\ Fault /\ UNCHANGED vm
  <2>1. /\ UNCHANGED <<executor, row, vm, wire>> /\ faults' \in 0 .. MaxFaults /\ losses' \in 0 .. MaxLosses
        /\ att' = [att EXCEPT ![n] = Leave(att[n], "failed")]
    BY <1>3, Counts DEF StartProcess
  <2> QED BY <1>0, <1>1, <2>1, QuitsWith DEF Errors, Timed
<1> QED BY <1>2, <1>3 DEF StartProcess

LEMMA ProcessEndsStep ==
    ASSUME Inv, NEW n \in Numbers, ProcessEnds(n)
    PROVE  Inv'
<1>1. PICK error \in Errors : /\ att' = [att EXCEPT ![n] = Leave(att[n], error)]
                              /\ error = "no" => vm[n].cmd = "ok"
  BY DEF ProcessEnds, Errors
<1>2. /\ UNCHANGED <<executor, row, vm, wire>> /\ faults' \in 0 .. MaxFaults /\ losses' \in 0 .. MaxLosses
      /\ att[n].pc = "executing" /\ vm[n].cmd # "running"
  BY Counts DEF ProcessEnds
<1> QED BY <1>1, <1>2, QuitsWith DEF Timed

LEMMA CommandExitsStep ==
    ASSUME Inv, NEW n \in Numbers, CommandExits(n)
    PROVE  Inv'
<1>0. /\ att[n] \in Attempt /\ vm[n] \in Machine /\ vm \in [Numbers -> Machine]
      /\ Sound(executor, n, att[n], vm[n], Pending(n)) /\ vm[n].cmd = "running"
  BY At DEF CommandExits, Inv, TypeOK
<1>1. PICK code \in {"ok", "bad"} : vm' = [vm EXCEPT ![n].cmd = code]
  BY DEF CommandExits
<1>2. vm' = [vm EXCEPT ![n] = [vm[n] EXCEPT !.cmd = code]]
  BY <1>0, <1>1 DEF Machine
<1>3. PICK m \in Machine : m = [vm[n] EXCEPT !.cmd = code]
  BY <1>0 DEF Machine
<1>4. /\ SameVM(vm[n], m) /\ m.life = vm[n].life /\ m.cmd = code /\ m.ran = vm[n].ran
      /\ m.starts = vm[n].starts /\ m.reapers = vm[n].reapers /\ m.born = vm[n].born
      /\ m.st = vm[n].st
  BY <1>0, <1>3 DEF Machine, SameVM
<1>5. Sound(executor, n, att[n], m, Pending(n))
  BY <1>0, <1>4, ExitSound
<1>6. PICK w : w = Pending(n)'
  OBVIOUS
<1>7. /\ w = Pending(n) /\ UNCHANGED <<executor, row, att, faults, losses>> /\ wire' \subseteq Request
      /\ \A k \in Numbers : k # n => Pending(k)' = Pending(k)
  BY <1>6, At, PendingKept DEF CommandExits
<1>8. Unstoppable(att[n], m, w) => Unstoppable(att[n], vm[n], Pending(n))
  BY <1>4, <1>7 DEF Unstoppable
<1> QED BY <1>0, <1>2, <1>3, <1>4, <1>5, <1>6, <1>7, <1>8, Serves

LEMMA GuestWritesStep ==
    ASSUME Inv, NEW n \in Numbers, GuestWrites(n)
    PROVE  Inv'
<1>0. /\ att[n] \in Attempt /\ vm[n] \in Machine /\ vm \in [Numbers -> Machine]
      /\ Sound(executor, n, att[n], vm[n], Pending(n))
  BY At DEF Inv, TypeOK
<1>1. vm' = [vm EXCEPT ![n] = [vm[n] EXCEPT !.file = 1]]
  BY <1>0 DEF GuestWrites, Machine
<1>2. PICK m \in Machine : m = [vm[n] EXCEPT !.file = 1]
  <2>1. 1 \in 0 .. 1
    OBVIOUS
  <2> QED BY <1>0, <2>1 DEF Machine
<1>3. /\ SameVM(vm[n], m) /\ m.life = vm[n].life /\ m.cmd = vm[n].cmd /\ m.ran = vm[n].ran
      /\ m.starts = vm[n].starts /\ m.reapers = vm[n].reapers /\ m.born = vm[n].born
      /\ m.st = vm[n].st
  BY <1>0, <1>2 DEF Machine, SameVM
<1>4. Sound(executor, n, att[n], m, Pending(n))
  BY <1>0, <1>3, ExitSound
<1>5. PICK w : w = Pending(n)'
  OBVIOUS
<1>6. /\ w = Pending(n) /\ UNCHANGED <<executor, row, att, faults, losses>> /\ wire' \subseteq Request
      /\ \A k \in Numbers : k # n => Pending(k)' = Pending(k)
  BY <1>5, At, PendingKept DEF GuestWrites
<1>7. Unstoppable(att[n], m, w) => Unstoppable(att[n], vm[n], Pending(n))
  BY <1>3, <1>6 DEF Unstoppable
<1> QED BY <1>1, <1>2, <1>3, <1>4, <1>5, <1>6, <1>7, Serves

\* A command was answered: the attempt goes on, or fails.
LEMMA AnswerFails ==
    ASSUME Inv, NEW n \in Numbers, att[n].pc = "executing", executor # "process",
           UNCHANGED <<executor, row, vm, wire, faults, losses>>,
           \/ att' = [att EXCEPT ![n] = Leave(@, "failed")]
           \/ att' = [att EXCEPT ![n] = Fails(@)]
    PROVE  Inv'
<1>0. att[n] \in Attempt /\ att[n].pc \in Timed \ {"cleanup", "create", "creating"}
  BY At DEF Timed
<1>1. faults' \in 0 .. MaxFaults /\ losses' \in 0 .. MaxLosses
  BY Counts
<1>2. CASE att' = [att EXCEPT ![n] = Leave(@, "failed")]
  <2>1. att' = [att EXCEPT ![n] = Leave(att[n], "failed")]
    BY <1>2
  <2> QED BY <1>0, <1>1, <2>1, QuitsWith DEF Errors
<1>3. CASE att' = [att EXCEPT ![n] = Fails(@)]
  <2>1. PICK a \in Attempt : a = att[n]
    BY <1>0
  <2>2. att' = [att EXCEPT ![n] = Fails(a)]
    BY <1>3, <2>1
  <2>3. wire' \subseteq wire /\ \A k \in Numbers : k # n => Pending(k)' = Pending(k)
    BY PendingKept
  <2> QED BY <1>0, <1>1, <2>1, <2>2, <2>3, QuitsFailed
<1> QED BY <1>2, <1>3

LEMMA ExecutedStep ==
    ASSUME Inv, NEW n \in Numbers, Executed(n)
    PROVE  Inv'
<1>0. /\ att[n] \in Attempt /\ vm[n] \in Machine /\ att \in [Numbers -> Attempt]
      /\ Sound(executor, n, att[n], vm[n], Pending(n)) /\ att[n].pc = "executing"
      /\ executor # "process" /\ UNCHANGED <<executor, row, vm, wire, faults, losses>>
  BY At DEF Executed, Inv, TypeOK
<1>1. CASE vm[n].cmd = "ok" /\ att' = [att EXCEPT ![n].sends = 0, ![n].pc = "read"]
  <2>1. att' = [att EXCEPT ![n] = [att[n] EXCEPT !.sends = 0, !.pc = "read"]]
    BY <1>0, <1>1 DEF Attempt
  <2>2. "read" \in Phases /\ 0 \in 0 .. MaxSends
    BY Limits DEF Phases, Timed
  <2>3. PICK b \in Attempt : b = [att[n] EXCEPT !.sends = 0, !.pc = "read"]
    BY <1>0, <2>2 DEF Attempt
  <2>4. b.pc = "read" /\ Keeps(att[n], b) /\ b.left = att[n].left
    BY <1>0, <2>3 DEF Attempt, Keeps
  <2>5. WireSound(b, vm[n], Pending(n))
    BY <1>0, <2>4 DEF Sound, WireSound, Before, After
  <2>6. TimeSound(executor, n, b, vm[n])
    BY <1>0, <2>4 DEF Sound, TimeSound
  <2>7. Sound(executor, n, b, vm[n], Pending(n))
    BY <1>0, <1>1, <2>4, <2>5, <2>6, Proceeds DEF Timed
  <2>8. Unstoppable(b, vm[n], Pending(n)) => Unstoppable(att[n], vm[n], Pending(n))
    BY <2>4 DEF Unstoppable
  <2> QED BY <1>0, <2>1, <2>3, <2>4, <2>7, <2>8, Goes
<1>2. CASE \/ att' = [att EXCEPT ![n] = Leave(@, "failed")]
           \/ att' = [att EXCEPT ![n] = Fails(@)]
  BY <1>0, <1>2, AnswerFails
<1> QED BY <1>1, <1>2 DEF Executed

LEMMA RunPromotionCommandStep ==
    ASSUME Inv, NEW n \in Numbers, RunPromotionCommand(n)
    PROVE  Inv'
<1>0. /\ att[n] \in Attempt /\ vm[n] \in Machine /\ att \in [Numbers -> Attempt]
      /\ Sound(executor, n, att[n], vm[n], Pending(n)) /\ att[n].pc = "executing"
      /\ executor = "build" /\ UNCHANGED <<executor, row, vm, wire, faults, losses>>
  BY At DEF RunPromotionCommand, Inv, TypeOK
<1>1. CASE att' = [att EXCEPT ![n].sends = 0, ![n].pc = "package", ![n].left = @ + Provision]
  <2>1. att' = [att EXCEPT ![n] = [att[n] EXCEPT !.sends = 0, !.pc = "package",
                                                 !.left = att[n].left + Provision]]
    BY <1>0, <1>1 DEF Attempt
  <2>2. /\ "package" \in Phases /\ 0 \in 0 .. MaxSends
        /\ att[n].left + Provision \in 0 .. (Provision + Runtime + Cleanup + Grace)
    <3>1. att[n].left <= Runtime + Grace /\ att[n].left \in Nat
      BY <1>0 DEF Sound, TimeSound, Attempt
    <3> QED BY <3>1, Limits DEF Phases, Timed
  <2>3. PICK b \in Attempt : b = [att[n] EXCEPT !.sends = 0, !.pc = "package",
                                                !.left = att[n].left + Provision]
    BY <1>0, <2>2 DEF Attempt
  <2>4. b.pc = "package" /\ Keeps(att[n], b)
    BY <1>0, <2>3 DEF Attempt, Keeps
  <2>5. WireSound(b, vm[n], Pending(n))
    BY <1>0, <2>4 DEF Sound, WireSound, Before, After
  <2>6. TimeSound(executor, n, b, vm[n])
    BY <1>0, <2>4 DEF Sound, TimeSound
  <2>7. Sound(executor, n, b, vm[n], Pending(n))
    BY <1>0, <2>4, <2>5, <2>6, Proceeds DEF Timed
  <2>8. Unstoppable(b, vm[n], Pending(n)) => Unstoppable(att[n], vm[n], Pending(n))
    BY <2>4 DEF Unstoppable
  <2> QED BY <1>0, <2>1, <2>3, <2>4, <2>7, <2>8, Goes
<1>2. CASE \/ att' = [att EXCEPT ![n] = Leave(@, "failed")]
           \/ att' = [att EXCEPT ![n] = Fails(@)]
  BY <1>0, <1>2, AnswerFails
<1> QED BY <1>1, <1>2 DEF RunPromotionCommand

LEMMA ReadResultStep ==
    ASSUME Inv, NEW n \in Numbers, ReadResult(n)
    PROVE  Inv'
<1>0. /\ att[n] \in Attempt /\ vm[n] \in Machine
      /\ Sound(executor, n, att[n], vm[n], Pending(n)) /\ att[n].pc = "read"
      /\ UNCHANGED <<executor, row, vm, wire, losses>> /\ (Fault \/ UNCHANGED faults)
  BY At DEF ReadResult
<1>1. executor # "process" /\ vm[n].cmd = "ok"
  BY <1>0 DEF Sound, ExecutorSound, OutcomeSound
<1>2. faults' \in 0 .. MaxFaults /\ losses' \in 0 .. MaxLosses
  BY <1>0, Counts
<1>3. CASE att' = [att EXCEPT ![n] = Leave(att[n], "failed")]
  BY <1>0, <1>1, <1>2, <1>3, QuitsWith DEF Errors, Timed
<1> DEFINE got == Append(att[n].got, vm[n].file)
           next == [att[n] EXCEPT !.got = Append(@, vm[n].file)]
<1>4. CASE /\ SameFile(att[n].got, vm[n].file)
           /\ att' = [att EXCEPT ![n] = IF Len(next.got) = 2 THEN Leave(next, "no") ELSE next]
  <2>1. att[n].got \in Seq(0 .. 1) /\ vm[n].file \in 0 .. 1
    BY <1>0 DEF Attempt, Machine
  <2>2. got \in Seq(0 .. 1) /\ \A i, j \in DOMAIN got : got[i] = got[j]
    <3>1. got \in Seq(0 .. 1) /\ Len(got) = Len(att[n].got) + 1
      BY <2>1
    <3>2. ASSUME NEW i \in DOMAIN got PROVE got[i] = vm[n].file
      <4>1. i \in 1 .. (Len(att[n].got) + 1) /\ Len(att[n].got) \in Nat
        BY <2>1, <3>1
      <4>2. CASE i = Len(att[n].got) + 1
        BY <2>1, <4>2
      <4>3. CASE i # Len(att[n].got) + 1
        <5>1. i \in DOMAIN att[n].got
          BY <2>1, <4>1, <4>3
        <5>2. got[i] = att[n].got[i]
          BY <2>1, <5>1
        <5> QED BY <1>4, <5>1, <5>2 DEF SameFile
      <4> QED BY <4>2, <4>3
    <3> QED BY <3>1, <3>2
  <2>3. next = [att[n] EXCEPT !.got = got]
    BY <1>0 DEF Attempt
  <2> HIDE DEF got
  <2>4. next \in Attempt
    BY <1>0, <2>2, <2>3 DEF Attempt
  <2>5. /\ next.got = got /\ next.pc = "read" /\ next.left = att[n].left /\ next.at = att[n].at
        /\ next.sends = att[n].sends /\ next.own = att[n].own /\ next.err = att[n].err
        /\ next.aborted = att[n].aborted /\ next.told = att[n].told /\ next.swept = att[n].swept
        /\ next.stop = att[n].stop /\ next.cut = att[n].cut
    BY <1>0, <2>3 DEF Attempt
  <2>6. att' = [att EXCEPT ![n] = Leave(next, "no")] \/ att' = [att EXCEPT ![n] = next]
    BY <1>4
  <2> HIDE DEF next
  <2>7. CASE att' = [att EXCEPT ![n] = next]
    <3>1. PICK b \in Attempt : b = next
      BY <2>4
    <3>2. att[n].cut = "shutdown" => att[n].stop
      BY <1>0 DEF Sound, OutcomeSound
    <3>3. Sound(executor, n, b, vm[n], Pending(n))
      BY <1>0, <2>2, <2>5, <3>1, <3>2, StaySound
    <3>4. Unstoppable(b, vm[n], Pending(n)) => Unstoppable(att[n], vm[n], Pending(n))
      BY <1>0, <2>5, <3>1 DEF Unstoppable
    <3> QED BY <1>0, <2>5, <2>7, <3>1, <3>3, <3>4, Goes
  <2>8. CASE att' = [att EXCEPT ![n] = Leave(next, "no")]
    <3>0. "no" \in Errors
      BY DEF Errors
    <3>1. PICK b \in Attempt : b = Leave(next, "no")
      BY <2>4, <3>0, LeaveFacts
    <3>2. /\ b.own = att[n].own /\ b.pc = (IF b.own THEN "cleanup" ELSE "record")
          /\ b.told = att[n].told /\ b.swept = att[n].swept /\ b.stop = att[n].stop
          /\ b.cut = att[n].cut /\ b.aborted = att[n].aborted /\ b.got = got
      BY <2>4, <2>5, <3>0, <3>1, LeaveFacts
    <3>3. \A i, j \in DOMAIN b.got : b.got[i] = b.got[j]
      BY <2>2, <3>2
    <3>4. wire' \subseteq wire /\ \A k \in Numbers : k # n => Pending(k)' = Pending(k)
      BY <1>0, PendingKept
    <3>5. att[n].pc \in Timed \ {"cleanup"} /\ att[n].pc \notin {"create", "creating"}
      BY <1>0 DEF Timed
    <3>6. att' = [att EXCEPT ![n] = b]
      BY <2>8, <3>1
    <3> QED BY <1>0, <1>1, <1>2, <3>2, <3>3, <3>4, <3>5, <3>6, Quits
  <2> QED BY <2>6, <2>7, <2>8
<1> QED BY <1>3, <1>4 DEF ReadResult

LEMMA PackageOutputStep ==
    ASSUME Inv, NEW n \in Numbers, PackageOutput(n)
    PROVE  Inv'
<1>0. /\ att[n] \in Attempt /\ vm[n] \in Machine
      /\ Sound(executor, n, att[n], vm[n], Pending(n)) /\ att[n].pc = "package"
      /\ UNCHANGED <<executor, row, vm, wire>> /\ faults' \in 0 .. MaxFaults
      /\ losses' \in 0 .. MaxLosses
  BY At, Counts DEF PackageOutput
<1>1. executor # "process"
  BY <1>0 DEF Sound, ExecutorSound
<1>2. PICK error \in {"no", "failed"} : att' = [att EXCEPT ![n] = Leave(att[n], error)]
  BY DEF PackageOutput
<1>3. executor = "build"
  BY <1>0 DEF Sound, ExecutorSound
<1> QED BY <1>0, <1>1, <1>2, <1>3, QuitsWith DEF Errors, Timed

LEMMA ContextEndsStep ==
    ASSUME Inv, NEW n \in Numbers, ContextEnds(n)
    PROVE  Inv'
<1>0. /\ att[n] \in Attempt /\ vm[n] \in Machine /\ vm \in [Numbers -> Machine]
      /\ Sound(executor, n, att[n], vm[n], Pending(n)) /\ att[n].pc \in Timed \ {"cleanup"}
      /\ UNCHANGED <<executor, row, wire, faults, losses>>
      /\ row \in [status : {"queued", "running", "succeeded", "failed"}, attempt : 0 .. MaxAttempts]
  BY At DEF ContextEnds, Inv, TypeOK
<1>1. PICK a \in Attempt : a = Returned(att[n], "dropped")
  BY <1>0, ReturnedFacts
<1>2. /\ a.own = (IF att[n].pc \in {"create", "creating"} THEN TRUE ELSE att[n].own)
      /\ a.told = att[n].told /\ a.swept = att[n].swept /\ a.stop = att[n].stop
      /\ a.cut = att[n].cut /\ a.aborted = att[n].aborted /\ a.got = att[n].got
  BY <1>0, <1>1, ReturnedFacts
<1>3. PICK b \in Attempt :
         /\ att' = [att EXCEPT ![n] = b]
         /\ b = Fails(a) \/ \E error \in {"timeout", "failed"} : b = Leave(a, error)
  <2>1. Fails(a) \in Attempt /\ \A error \in {"timeout", "failed"} : Leave(a, error) \in Attempt
    BY FailsFacts, LeaveFacts DEF Errors
  <2>2. \/ att' = [att EXCEPT ![n] = Fails(a)]
        \/ \E error \in {"timeout", "failed"} : att' = [att EXCEPT ![n] = Leave(a, error)]
    BY <1>1 DEF ContextEnds
  <2> QED BY <2>1, <2>2
<1>4. /\ b.own = a.own /\ b.pc = (IF a.own THEN "cleanup" ELSE "record")
      /\ b.told = a.told /\ b.swept = a.swept /\ b.stop = a.stop
      /\ b.cut = a.cut /\ b.got = a.got /\ b.err # "no"
      /\ b.aborted => a.aborted \/ (a.cut = "shutdown" /\ b.err = "canceled")
  <2>1. CASE b = Fails(a)
    BY <2>1, FailsFacts
  <2>2. ASSUME NEW error \in {"timeout", "failed"}, b = Leave(a, error)
        PROVE  <1>4
    <3>1. error \in Errors /\ error # "no"
      BY DEF Errors
    <3> QED BY <2>2, <3>1, LeaveFacts
  <2> QED BY <1>3, <2>1, <2>2
<1>5. /\ b.own = (IF att[n].pc \in {"create", "creating"} THEN TRUE ELSE att[n].own)
      /\ b.pc = (IF b.own THEN "cleanup" ELSE "record")
      /\ b.told = att[n].told /\ b.swept = att[n].swept /\ b.stop = att[n].stop
      /\ b.cut = att[n].cut /\ b.got = att[n].got /\ b.err # "no"
      /\ b.aborted => att[n].aborted \/ (att[n].cut = "shutdown" /\ b.err = "canceled")
  BY <1>2, <1>4
<1>6. \A i, j \in DOMAIN b.got : b.got[i] = b.got[j]
  BY <1>0, <1>5 DEF Sound, OutcomeSound
<1>7. /\ wire' \subseteq wire /\ wire' \subseteq Request
      /\ \A k \in Numbers : k # n => Pending(k)' = Pending(k)
      /\ faults' \in 0 .. MaxFaults /\ losses' \in 0 .. MaxLosses
  BY <1>0, At, Counts, PendingKept
<1>8. CASE executor # "process"
  <2>1. vm' = vm
    BY <1>8 DEF ContextEnds
  <2> QED BY <1>0, <1>3, <1>5, <1>6, <1>7, <1>8, <2>1, Quits
<1>9. CASE executor = "process"
  <2>1. PICK m \in Machine : m = Removed(vm[n])
    BY <1>0, RemovedFacts
  <2>2. vm' = [vm EXCEPT ![n] = m]
    BY <1>9, <2>1 DEF ContextEnds
  <2>3. vm[n].st = "none"
    BY <1>0, <1>9 DEF Sound, ExecutorSound
  <2>4. /\ SameVM(vm[n], m) /\ m.st = "none" /\ m.ran = vm[n].ran /\ m.starts = vm[n].starts
        /\ m.cmd = (IF vm[n].cmd = "running" THEN "bad" ELSE vm[n].cmd)
        /\ m.reapers = vm[n].reapers
    BY <1>0, <2>1, <2>3, RemovedFacts DEF SameVM
  <2>5. Sound(executor, n, att[n], m, Pending(n))
    BY <1>0, <2>3, <2>4, ExitSound
  <2>6. ~att[n].aborted /\ m.cmd # "running"
    BY <1>0, <2>4 DEF Sound, OutcomeSound, Timed
  <2>7. Sound(executor, n, b, m, Pending(n))
    BY <1>0, <1>5, <1>6, <2>5, <2>6, Leaves
  <2>8. PICK w : w = Pending(n)'
    OBVIOUS
  <2>9. w = Pending(n)
    BY <1>0, <2>8, PendingKept
  <2>10. att[n].pc \notin {"idle", "ended"} /\ b.pc # "reap" /\ row' = row /\ executor' = executor
    BY <1>0, <1>5 DEF Timed
  <2>11. RowSound'
    BY <1>3, <2>2, <2>4, <2>10, RowKept
  <2>12. Sound(executor, n, b, m, w)
    BY <2>7, <2>9
  <2> QED BY <1>0, <1>3, <1>7, <1>9, <2>2, <2>4, <2>8, <2>10, <2>11, <2>12, Local
<1> QED BY <1>8, <1>9

LEMMA CleanupVMStep ==
    ASSUME Inv, NEW n \in Numbers, CleanupVM(n)
    PROVE  Inv'
<1>0. /\ att[n] \in Attempt /\ vm[n] \in Machine /\ vm \in [Numbers -> Machine]
      /\ Sound(executor, n, att[n], vm[n], Pending(n)) /\ att[n].pc = "cleanup"
      /\ UNCHANGED <<executor, row, wire, losses>>
      /\ row \in [status : {"queued", "running", "succeeded", "failed"}, attempt : 0 .. MaxAttempts]
  BY At DEF CleanupVM, Inv, TypeOK
<1> DEFINE Ends(swept) == [att[n] EXCEPT !.pc = "record", !.left = 0, !.sends = 0, !.swept = swept]
<1>1. ASSUME NEW s \in BOOLEAN
      PROVE  /\ Ends(s) \in Attempt /\ Ends(s).pc = "record" /\ Ends(s).swept = s
             /\ Ends(s).own = att[n].own /\ Ends(s).stop = att[n].stop /\ Ends(s).cut = att[n].cut
             /\ Ends(s).err = att[n].err /\ Ends(s).got = att[n].got
             /\ Ends(s).aborted = att[n].aborted /\ Ends(s).told = att[n].told
  <2>1. "record" \in Phases /\ 0 \in 0 .. MaxSends /\ 0 \in 0 .. (Provision + Runtime + Cleanup + Grace)
    BY Limits DEF Phases
  <2>2. Ends(s) \in Attempt
    BY <1>0, <1>1, <2>1 DEF Attempt
  <2> QED BY <1>0, <2>2 DEF Attempt
<1>2. PICK q \in Machine :
              /\ vm' = [vm EXCEPT ![n] = q]
              /\ Sound(executor, n, att[n], q, Pending(n))
              /\ q = vm[n] \/ q.st # "up"
              /\ Deleted(n, n) => q.st # "up"
              /\ q.reapers = vm[n].reapers /\ q.born = vm[n].born
              /\ q.starts = vm[n].starts /\ (vm[n].cmd = "ok" => q.cmd = "ok")
  <2>1. CASE Deleted(n, n) \/ DeleteDropped(n, n)
    BY <1>0, <2>1, DeletedFacts
  <2>2. CASE ~(Deleted(n, n) \/ DeleteDropped(n, n))
    <3>1. vm' = vm
      BY <2>2 DEF CleanupVM
    <3>2. vm' = [vm EXCEPT ![n] = vm[n]]
      BY <1>0, <3>1
    <3> QED BY <1>0, <2>2, <3>2
  <2> QED BY <2>1, <2>2
<1>3. PICK b \in Attempt :
         /\ att' = [att EXCEPT ![n] = b]
         /\ \/ \E s \in BOOLEAN : b = Ends(s) /\ (s => Deleted(n, n))
            \/ b = [att[n] EXCEPT !.sends = att[n].sends + 1]
  <2> HIDE DEF Ends
  <2>1. \/ att' = [att EXCEPT ![n] = Ends(TRUE)] /\ Deleted(n, n)
        \/ att' = [att EXCEPT ![n] = Ends(FALSE)]
        \/ /\ Retries("DELETE", "dropped", att[n].sends + 1)
           /\ att' = [att EXCEPT ![n] = [att[n] EXCEPT !.sends = @ + 1]]
    BY DEF CleanupVM, Ends
  <2>2. CASE att' = [att EXCEPT ![n] = Ends(TRUE)] /\ Deleted(n, n)
    BY <1>1, <2>2
  <2>3. CASE att' = [att EXCEPT ![n] = Ends(FALSE)]
    BY <1>1, <2>3
  <2>4. CASE /\ Retries("DELETE", "dropped", att[n].sends + 1)
             /\ att' = [att EXCEPT ![n] = [att[n] EXCEPT !.sends = @ + 1]]
    <3>1. att[n].sends \in Nat /\ att[n].sends + 1 < MaxSends
      BY <1>0, <2>4 DEF Retries, Attempt
    <3>2. att[n].sends + 1 \in 0 .. MaxSends
      BY <3>1, Limits
    <3>3. [att[n] EXCEPT !.sends = att[n].sends + 1] \in Attempt
      BY <1>0, <3>2 DEF Attempt
    <3>4. att' = [att EXCEPT ![n] = [att[n] EXCEPT !.sends = att[n].sends + 1]]
      BY <2>4
    <3> QED BY <3>3, <3>4
  <2> QED BY <2>1, <2>2, <2>3, <2>4
<1>4. Sound(executor, n, b, q, Pending(n)) /\ b.pc \in {"record", "cleanup"}
  <2>1. ASSUME NEW s \in BOOLEAN, b = Ends(s), s => Deleted(n, n)
        PROVE  <1>4
    <3>1. /\ b.pc = "record" /\ b.swept = s
          /\ b.own = att[n].own /\ b.stop = att[n].stop /\ b.cut = att[n].cut
          /\ b.err = att[n].err /\ b.got = att[n].got
          /\ b.aborted = att[n].aborted /\ b.told = att[n].told
      BY <1>1, <2>1
    <3>2. b.swept => q.st # "up"
      BY <1>2, <2>1, <3>1
    <3> QED BY <1>0, <1>2, <3>1, <3>2, CleanupSound
  <2>2. CASE b = [att[n] EXCEPT !.sends = att[n].sends + 1]
    <3>1. /\ b.pc = att[n].pc /\ b.left = att[n].left /\ b.at = att[n].at /\ b.own = att[n].own
          /\ b.err = att[n].err /\ b.got = att[n].got /\ b.aborted = att[n].aborted
          /\ b.told = att[n].told /\ b.swept = att[n].swept
          /\ b.stop = att[n].stop /\ b.cut = att[n].cut
      BY <1>0, <2>2 DEF Attempt
    <3>2. att[n].cut = "shutdown" => att[n].stop
      BY <1>0 DEF Sound, OutcomeSound
    <3> QED BY <1>0, <1>2, <3>1, <3>2, StaySound
  <2> HIDE DEF Ends
  <2> QED BY <1>3, <2>1, <2>2
<1>5. PICK w : w = Pending(n)'
  OBVIOUS
<1>6. /\ w = Pending(n) /\ wire' \subseteq Request /\ executor' = executor /\ row' = row
      /\ \A k \in Numbers : k # n => Pending(k)' = Pending(k)
      /\ faults' \in 0 .. MaxFaults /\ losses' \in 0 .. MaxLosses
  BY <1>0, <1>5, At, Counts, PendingKept DEF CleanupVM
<1>7. Unstoppable(b, q, w) => Unstoppable(att[n], vm[n], Pending(n))
  BY <1>0, <1>2, <1>6, <1>4 DEF Unstoppable
<1>8. RowSound'
  BY <1>0, <1>2, <1>3, <1>6, <1>4, RowKept
<1>9. q.st = "up" => vm[n].st = "up" /\ q.born = vm[n].born
  BY <1>2
<1>10. Sound(executor, n, b, q, w) /\ b.pc # "reap"
  BY <1>6, <1>4
<1> QED BY <1>0, <1>2, <1>3, <1>5, <1>6, <1>7, <1>8, <1>9, <1>10, Local

LEMMA RecordOutcomeStep ==
    ASSUME Inv, NEW n \in Numbers, RecordOutcome(n)
    PROVE  Inv'
<1>0. /\ att[n] \in Attempt /\ vm[n] \in Machine /\ vm \in [Numbers -> Machine]
      /\ att \in [Numbers -> Attempt] /\ RowSound
      /\ Sound(executor, n, att[n], vm[n], Pending(n)) /\ att[n].pc = "record"
      /\ UNCHANGED <<executor, vm, wire, faults, losses>>
      /\ row \in [status : {"queued", "running", "succeeded", "failed"}, attempt : 0 .. MaxAttempts]
  BY At DEF RecordOutcome, Inv, TypeOK
<1> DEFINE new == [att[n] EXCEPT !.pc = "ended", !.cut = "no", !.stop = FALSE, !.err = "no"]
<1>1. att' = [att EXCEPT ![n] = new]
  BY DEF RecordOutcome
<1>2. PICK b \in Attempt : b = new
  BY <1>0 DEF Attempt, Phases
<1>3. /\ b.pc = "ended" /\ b.own = att[n].own /\ b.swept = att[n].swept /\ b.told = att[n].told
      /\ b.got = att[n].got /\ b.cut = "no" /\ b.aborted = att[n].aborted
  BY <1>0, <1>2 DEF Attempt
<1> HIDE DEF new
<1>4. executor = "process" => vm[n].cmd # "running"
  BY <1>0 DEF Sound, ExecutorSound
<1>5. PICK m \in Machine : m = vm[n]
  BY <1>0
<1>6. PICK w : w = Pending(n)'
  OBVIOUS
<1>7. /\ w = Pending(n) /\ wire' \subseteq Request /\ executor' = executor
      /\ \A k \in Numbers : k # n => Pending(k)' = Pending(k)
      /\ faults' \in 0 .. MaxFaults /\ losses' \in 0 .. MaxLosses
      /\ vm' = [vm EXCEPT ![n] = m] /\ att' = [att EXCEPT ![n] = b]
  BY <1>0, <1>1, <1>2, <1>5, <1>6, At, Counts, PendingKept
<1>8. Sound(executor, n, b, m, w)
  BY <1>0, <1>3, <1>4, <1>5, <1>7, RecordSound
<1>9. /\ att'[n] = b /\ vm' = vm /\ \A k \in Numbers : k # n => att'[k] = att[k]
  BY <1>0, <1>7
<1>10. CASE row' = row
  <2>1. RowSound'
    BY <1>0, <1>5, <1>7, <1>10, RowKept
  <2> QED BY <1>0, <1>3, <1>5, <1>6, <1>7, <1>8, <1>10, <2>1, Local DEF Unstoppable
<1>11. CASE row' # row
  <2> DEFINE interrupted == att[n].stop /\ att[n].err = "canceled"
             failed == att[n].err # "no" \/ att[n].cut = "lost"
             status == CASE interrupted -> "queued"
                         [] ~interrupted /\ failed ->
                               IF n < RetryLimit THEN "queued" ELSE "failed"
                         [] ~interrupted /\ ~failed -> "succeeded"
  <2>1. executor # "build" /\ row = [status |-> "running", attempt |-> n]
    BY <1>11 DEF RecordOutcome
  <2>2. row' = [row EXCEPT !.status = status]
    BY <1>11 DEF RecordOutcome
  <2>3. /\ status \in {"queued", "failed", "succeeded"}
        /\ status = "failed" => ~interrupted /\ failed
        /\ status = "succeeded" => ~interrupted /\ ~failed
    OBVIOUS
  <2> HIDE DEF status, interrupted, failed
  <2>4. row' = [status |-> status, attempt |-> n]
    BY <2>1, <2>2
  <2>5. status = "failed" => ~b.aborted
    BY <1>0, <1>3, <2>3 DEF Sound, OutcomeSound, interrupted
  <2>6. status = "succeeded" => vm[n].cmd = "ok"
    BY <1>0, <2>1, <2>3 DEF Sound, OutcomeSound, failed
  <2>7. \A k \in Numbers : k > n => att'[k].pc = "idle"
    <3>1. \A k \in Numbers : k > n => att[k].pc = "idle"
      BY <1>0, <2>1 DEF RowSound
    <3>2. n \in Nat
      BY Limits DEF Numbers
    <3> QED BY <1>9, <3>1, <3>2 DEF Numbers
  <2>8. row'.status = status /\ row'.attempt = n
    BY <2>4
  <2>9. RowSound'
    BY <1>3, <1>9, <2>5, <2>6, <2>7, <2>8 DEF RowSound
  <2>10. row' \in [status : {"queued", "running", "succeeded", "failed"}, attempt : 0 .. MaxAttempts]
    BY <2>3, <2>4, Limits DEF Numbers
  <2> QED BY <1>3, <1>5, <1>6, <1>7, <1>8, <2>9, <2>10, Local DEF Unstoppable
<1> QED BY <1>10, <1>11

LEMMA TickStep ==
    ASSUME Inv, Tick
    PROVE  Inv'
<1>0. /\ att \in [Numbers -> Attempt] /\ vm \in [Numbers -> Machine] /\ RowSound /\ TypeOK
      /\ UNCHANGED <<executor, row, wire, faults, losses>>
  BY DEF Inv, TypeOK, Tick
<1>1. vm' = [n \in Numbers |-> Aged(executor, vm[n])]
  BY DEF Tick, Aged
<1>2. ASSUME NEW n \in Numbers
      PROVE  /\ att'[n] \in Attempt /\ Keeps(att[n], att'[n])
             /\ att'[n].pc = att[n].pc /\ att'[n].at = att[n].at /\ att'[n].sends = att[n].sends
             /\ IF att[n].pc \in Timed THEN att[n].left > 0 /\ att'[n].left = att[n].left - 1
                ELSE att'[n].left = att[n].left
  <2>0. att[n] \in Attempt /\ att'[n] = IF att[n].pc \in Timed THEN [att[n] EXCEPT !.left = @ - 1]
                                        ELSE att[n]
    BY <1>0 DEF Tick
  <2>1. CASE att[n].pc \notin Timed
    BY <2>0, <2>1 DEF Keeps
  <2>2. CASE att[n].pc \in Timed
    <3>1. att[n].left > 0
      BY <2>2 DEF Tick
    <3>2. att[n].left \in 0 .. (Provision + Runtime + Cleanup + Grace)
      BY <2>0 DEF Attempt
    <3>3. att[n].left - 1 \in 0 .. (Provision + Runtime + Cleanup + Grace)
      BY <3>1, <3>2, Limits
    <3>4. att'[n] = [att[n] EXCEPT !.left = att[n].left - 1]
      BY <2>0, <2>2
    <3>5. [att[n] EXCEPT !.left = att[n].left - 1] \in Attempt
      BY <2>0, <3>3 DEF Attempt
    <3> QED BY <2>0, <2>2, <3>1, <3>4, <3>5 DEF Attempt, Keeps
  <2> QED BY <2>1, <2>2
<1>3. ASSUME NEW n \in Numbers
      PROVE  /\ vm'[n] = Aged(executor, vm[n]) /\ vm'[n] \in Machine
             /\ Sound(executor, n, att'[n], vm'[n], Pending(n))
             /\ vm'[n].reapers = vm[n].reapers /\ vm'[n].born = vm[n].born
             /\ vm'[n].starts = vm[n].starts
             /\ vm'[n].st = "up" => vm[n].st = "up"
             /\ vm[n].cmd = "ok" => vm'[n].cmd = "ok"
  <2>0. /\ att[n] \in Attempt /\ vm[n] \in Machine
        /\ Sound(executor, n, att[n], vm[n], Pending(n))
    BY At
  <2>1. PICK b \in Attempt : b = att'[n]
    BY <1>2
  <2>2. Aged(executor, vm[n]) \in Machine /\ Sound(executor, n, b, Aged(executor, vm[n]), Pending(n))
    BY <1>2, <2>0, <2>1, TickSound
  <2>3. vm'[n] = Aged(executor, vm[n])
    BY <1>1
  <2>4. vm[n].cmd = "running" => vm[n].ran < Runtime
    BY <2>0 DEF Sound, TimeSound
  <2>5. PICK q \in Machine : q = Aged(executor, vm[n])
    BY <2>2
  <2>6. /\ \/ q = Removed(vm[n])
           \/ SameVM(vm[n], q) /\ q.starts = vm[n].starts /\ (q.cmd = vm[n].cmd \/ vm[n].cmd = "running")
           \/ q = vm[n]
        /\ q.reapers = vm[n].reapers /\ q.born = vm[n].born
    BY <2>0, <2>4, <2>5, AgedFacts
  <2>7. /\ q.starts = vm[n].starts /\ (q.st = "up" => vm[n].st = "up")
        /\ vm[n].cmd = "ok" => q.cmd = "ok"
    <3>1. CASE q = Removed(vm[n])
      BY <2>0, <3>1, RemovedFacts
    <3>2. CASE q # Removed(vm[n])
      BY <2>6, <3>2 DEF SameVM
    <3> QED BY <3>1, <3>2
  <2> QED BY <2>1, <2>2, <2>3, <2>5, <2>6, <2>7
<1>4. TypeOK'
  <2>1. att' = [n \in Numbers |-> att'[n]] /\ vm' = [n \in Numbers |-> vm'[n]]
    BY <1>1 DEF Tick
  <2>2. att' \in [Numbers -> Attempt] /\ vm' \in [Numbers -> Machine]
    BY <1>2, <1>3, <2>1
  <2> QED BY <1>0, <2>2 DEF TypeOK
<1>5. ASSUME NEW n \in Numbers
      PROVE  Sound(executor, n, att[n], vm[n], Pending(n))'
  <2>1. Pending(n)' = Pending(n) /\ executor' = executor
    BY <1>0, PendingKept
  <2>2. Sound(executor', n, att'[n], vm'[n], Pending(n)')
    BY <1>3, <2>1
  <2> QED BY <2>2
<1>6. ASSUME NEW n \in Numbers, NEW k \in Numbers, k < n
      PROVE  ReapSound(n, k)'
  <2>0. ReapSound(n, k) /\ Pending(n)' = Pending(n) /\ executor' = executor
    BY <1>0, <1>6, PendingKept DEF Inv
  <2>1. Reaped(n)' => Reaped(n)
    BY <1>2, <1>3, <2>0 DEF Reaped
  <2> QED BY <1>2, <1>3, <2>0, <2>1 DEF ReapSound
<1>7. RowSound'
  <2>1. \A n \in Numbers : /\ att'[n].pc = att[n].pc /\ att'[n].aborted = att[n].aborted
                           /\ vm[n].cmd = "ok" => vm'[n].cmd = "ok"
    BY <1>2, <1>3 DEF Keeps
  <2> QED BY <1>0, <2>1 DEF RowSound
<1> QED BY <1>4, <1>5, <1>6, <1>7 DEF Inv

LEMMA InitInv == Init => Inv
<1> SUFFICES ASSUME Init PROVE Inv
  OBVIOUS
<1>0. \A n \in Numbers : att[n] = Idle /\ vm[n] \in {NoMachine, Taken} /\ Pending(n) = {}
  BY DEF Init, Pending
<1>1. TypeOK
  <2>1. NoMachine \in Machine /\ Taken \in Machine
    BY BlankMachine
  <2>2. att \in [Numbers -> Attempt] /\ vm \in [Numbers -> Machine]
    BY <2>1, Blank DEF Init
  <2> QED BY <2>2, Limits DEF Init, TypeOK
<1>2. ASSUME NEW n \in Numbers
      PROVE  Sound(executor, n, att[n], vm[n], Pending(n))
  <2>1. PICK m \in {NoMachine, Taken} : m = vm[n]
    BY <1>0
  <2>2. /\ m.starts = 0 /\ m.cmd = "no" /\ m.deleter = 0 /\ m.ran = 0
        /\ m.st = "none" \/ m.taken
    BY BlankMachine
  <2>3. executor = "process" => m.st = "none"
    <3>1. executor = "process" => vm[n] = NoMachine
      BY DEF Init
    <3> QED BY <2>1, <3>1, BlankMachine
  <2>4. n # 0
    BY Limits DEF Numbers
  <2>5. WireSound(Idle, m, {})
    BY <2>2, Blank DEF WireSound, Before
  <2>6. TimeSound(executor, n, Idle, m)
    BY <2>2, Blank DEF TimeSound
  <2>7. OwnerSound(n, Idle, m)
    BY <2>2, <2>4, Blank, BlankMachine DEF OwnerSound
  <2>8. ExecutorSound(executor, n, Idle, m, {})
    BY <2>2, <2>3, Blank DEF ExecutorSound
  <2>9. OutcomeSound(executor, Idle, m)
    BY Blank DEF OutcomeSound
  <2> QED BY <1>0, <2>1, <2>5, <2>6, <2>7, <2>8, <2>9 DEF Sound
<1>3. ASSUME NEW n \in Numbers, NEW k \in Numbers
      PROVE  ReapSound(n, k)
  <2>1. vm[n].starts = 0 /\ vm[k].reapers = {} /\ Pending(n) = {} /\ att[n].pc = "idle"
    BY <1>0, Blank, BlankMachine
  <2> QED BY <2>1 DEF ReapSound, Reaped
<1>4. RowSound
  BY <1>0, Blank DEF Init, RowSound
<1> QED BY <1>1, <1>2, <1>3, <1>4 DEF Inv

LEMMA NextInv == Inv /\ [Next]_vars => Inv'
<1> SUFFICES ASSUME Inv, [Next]_vars PROVE Inv'
  OBVIOUS
<1>1. CASE UNCHANGED vars
  <2>1. UNCHANGED <<executor, row, att, vm, wire, faults, losses>>
    BY <1>1 DEF vars
  <2> QED BY <2>1 DEF Inv, TypeOK, ReapSound, Reaped, RowSound, Pending
<1>2. CASE Tick
  BY <1>2, TickStep
<1>3. ASSUME NEW n \in Numbers, Works(n)
      PROVE  Inv'
  BY <1>3, PostStep, CreateAnsweredStep, ReapPriorAttemptsStep, PrepareStep, ProvisionedStep,
     ProvisionFailsStep, StartProcessStep, ProcessEndsStep, ExecutedStep,
     RunPromotionCommandStep, ReadResultStep, PackageOutputStep, ContextEndsStep,
     CleanupVMStep, RecordOutcomeStep DEF Works
<1>4. ASSUME NEW n \in Numbers,
             \/ Acquire(n) \/ RenewLease(n) \/ Shutdown(n) \/ Crash(n)
             \/ PostLimited(n) \/ PostDropped(n) \/ HuskerCreates(n) \/ HuskerExecs(n)
             \/ CommandExits(n) \/ GuestWrites(n)
      PROVE  Inv'
  BY <1>4, AcquireStep, RenewLeaseStep, ShutdownStep, CrashStep, PostLimitedStep,
     PostDroppedStep, HuskerCreatesStep, HuskerExecsStep, CommandExitsStep, GuestWritesStep
<1> QED BY <1>1, <1>2, <1>3, <1>4 DEF Next

-----------------------------------------------------------------------------
(* The theorems.                                                           *)

\* Inv holds in every state that the executors, Husker and the worker reach.
THEOREM Invariance == Spec => []Inv
BY InitInv, NextInv, PTL DEF Spec

\* The variables keep their types: a deadline never exceeds the lifetime asked
\* for in createVM, a request is sent at most maxHuskerAttempts times.
THEOREM TypeCorrect == Spec => []TypeOK
<1>1. Inv => TypeOK
  BY DEF Inv
<1> QED BY <1>1, Invariance, PTL

\* The command of an attempt is started at most once, although creates and
\* execs that are refused are sent again (doJSON), and two attempts of a run
\* execute at the same time only where ReapPriorAttempts found the earlier
\* VM absent, or the earlier process is not killed.
THEOREM StartedOnce == Spec => []OneExecution
<1>1. Inv => OneExecution
  <2> SUFFICES ASSUME Inv PROVE OneExecution
    OBVIOUS
  <2>1. \A n \in Numbers : vm[n].starts <= 1
    BY DEF Inv, Sound, WireSound
  <2>2. ASSUME executor # "build", NEW k \in Numbers, NEW n \in Numbers, k < n,
               vm[k].cmd = "running", vm[n].cmd = "running"
        PROVE  IF executor = "husker" THEN n \in vm[k].born
               ELSE att[k].pc \in {"crashed", "executing"}
    <3>0. /\ Sound(executor, k, att[k], vm[k], Pending(k))
          /\ Sound(executor, n, att[n], vm[n], Pending(n)) /\ ReapSound(n, k)
      BY <2>2 DEF Inv
    <3>1. CASE executor = "husker"
      <4>1. vm[n].starts = 1
        BY <2>2, <3>0 DEF Sound, WireSound
      <4>2. Reaped(n)
        BY <4>1 DEF Reaped
      <4>3. n \in vm[k].reapers
        BY <3>0, <3>1, <4>2 DEF ReapSound
      <4>4. vm[k].st = "up"
        BY <2>2, <3>0, <3>1 DEF Sound, ExecutorSound
      <4> QED BY <3>0, <3>1, <4>3, <4>4 DEF ReapSound
    <3>2. CASE executor # "husker"
      <4>1. executor = "process"
        BY <2>2, <3>2, AttemptAssumption DEF Inv, TypeOK
      <4> QED BY <2>2, <3>0, <3>2, <4>1 DEF Sound, ExecutorSound
    <3> QED BY <3>1, <3>2
  <2> QED BY <2>1, <2>2 DEF OneExecution
<1> QED BY <1>1, Invariance, PTL

\* Nobody but a later attempt takes a VM away from the attempt that uses it:
\* the expiration createVM asks for outlasts its deadlines; and what an attempt
\* leaves behind is a VM whose cleanupVM failed, or one created late.
THEOREM MachinesKept == Spec => []VMsAccounted
<1>1. Inv => VMsAccounted
  <2> SUFFICES ASSUME Inv, NEW n \in Numbers
               PROVE  /\ att[n].pc \in {"ready", "exec", "executing", "read"} /\ executor # "process"
                            /\ vm[n].st = "gone" => vm[n].deleter > n
                      /\ att[n].pc = "ended" /\ vm[n].st = "up" /\ ~vm[n].taken =>
                            (att[n].own /\ ~att[n].swept) \/ vm[n].tardy
                      /\ att[n].pc = "ended" /\ executor = "process" => vm[n].cmd # "running"
                      /\ vm[n].taken /\ att[n].told => vm[n].deleter # n
    BY DEF VMsAccounted
  <2>0. Sound(executor, n, att[n], vm[n], Pending(n))
    BY DEF Inv
  <2>1. att[n].pc \in {"ready", "exec", "executing", "read"} /\ executor # "process"
           /\ vm[n].st = "gone" => vm[n].deleter > n
    BY <2>0 DEF Sound, TimeSound
  <2>2. att[n].pc = "ended" /\ vm[n].st = "up" /\ ~vm[n].taken =>
           (att[n].own /\ ~att[n].swept) \/ vm[n].tardy
    BY <2>0 DEF Sound, OwnerSound
  <2>3. att[n].pc = "ended" /\ executor = "process" => vm[n].cmd # "running"
    BY <2>0 DEF Sound, ExecutorSound
  <2>4. vm[n].taken /\ att[n].told => vm[n].deleter # n
    BY <2>0 DEF Sound, OwnerSound
  <2> QED BY <2>1, <2>2, <2>3, <2>4
<1> QED BY <1>1, Invariance, PTL

\* What runOnce records is true of the attempt: a success is a command that
\* exited with 0 and a result read from one version of its file, and a
\* shutdown that interrupted the last attempt did not fail the run.
THEOREM OutcomesSound == Spec => []OutcomeTrue
<1>1. Inv => OutcomeTrue
  <2> SUFFICES ASSUME Inv PROVE OutcomeTrue
    OBVIOUS
  <2>0. RowSound
    BY DEF Inv
  <2>1. row.status = "succeeded" =>
           \A i, j \in DOMAIN att[row.attempt].got :
              att[row.attempt].got[i] = att[row.attempt].got[j]
    <3> SUFFICES ASSUME row.status = "succeeded"
                 PROVE  \A i, j \in DOMAIN att[row.attempt].got :
                           att[row.attempt].got[i] = att[row.attempt].got[j]
      OBVIOUS
    <3>1. row.attempt \in Numbers
      BY <2>0 DEF RowSound
    <3>2. Sound(executor, row.attempt, att[row.attempt], vm[row.attempt], Pending(row.attempt))
      BY <3>1 DEF Inv
    <3> QED BY <3>2 DEF Sound, OutcomeSound
  <2> QED BY <2>0, <2>1 DEF RowSound, OutcomeTrue
<1> QED BY <1>1, Invariance, PTL
=============================================================================
