---------------------------- MODULE ObserveProofs ----------------------------
(***************************************************************************)
(* Proofs about Observe, for every set of commands and attempts, every     *)
(* bound and every choice of faults.                                       *)
(*                                                                         *)
(* An observer uses what it read earlier.  What makes that right are facts *)
(* about the service that stay true once they are: an attempt whose gate   *)
(* was consumed is never prepared again (Beyond), one that is not past the *)
(* gate then never gets there (Barred), not even after a power loss        *)
(* (Over), an engine that came to RUNNING never comes to it again (Late),  *)
(* and the journal's revision only grows while the collector lives.        *)
(***************************************************************************)
EXTENDS Observe, ServiceProofs

\* The service, beyond what its own proofs need.
Unprepared == {"job", "create", "save"}
Ran(a) == worker[a] = "engine" \/ report[a] # "none" => execs[a] = 1
Entered(a) == worker[a] # "none" => entries[a] > 0
Creates(c) == pc[c] = "create" => runtime.phase = "None"
Refused == runtime.phase = "GateRefused" => \A s \in survives : s.phase # "StartPrepared"
Blank == \A s \in survives : s.phase = "None" => s = NoRuntime
MoreInv ==
    /\ \A a \in Attempts : Ran(a) /\ Entered(a)
    /\ \A c \in Commands : Creates(c)
    /\ Refused /\ Blank

\* Statuses of an engine that has come to RUNNING or given up.
Late == {"RUNNING", "STOPPING", "STOPPED", "FAILED", "UNKNOWN"}
Row == [status : Statuses, pid : Nat]
NodeInv ==
    /\ rows \in [Attempts -> Seq(Row)] /\ listener \in Attempts \cup {None}
    /\ \A a \in Attempts : rows[a] # <<>> => report[a] # "none"
    /\ \A a \in Attempts : listener = a => report[a] \in Late

\* Attempt a is in the past: of every start, of the journal, of the gate.
Unclaimed(a) == a \in used /\ \A c \in Commands : pc[c] \in Unprepared => mine[c] # a
Beyond(a) == Unclaimed(a) /\ (runtime.attempt = a => runtime.phase # "StartPrepared")
Barred(a) == Beyond(a) /\ ~PastGate(a)
Over(a) ==
    /\ Unclaimed(a) /\ ~PastGate(a)
    /\ \A s \in survives : s.attempt = a => s.phase # "StartPrepared"

-----------------------------------------------------------------------------
(* The observers.                                                          *)

Commits(s) == (s.ready = "STOPPED" /\ s.outcome = "SUCCEEDED") \/ s.engine = "GATE_REFUSED"
Sure(s) == s.ready = "READY" => s.from = s.attempt /\ s.sound /\ ~s.old
Plain(s) == s.ready \notin {"READY", "STOPPED"} /\ s.engine # "GATE_REFUSED"

Sources == Attempts \cup {None, Foreign}
Summaries ==
    [attempt : Attempts \cup {None},
     engine : {"UNKNOWN", "NOT_STARTED", "GATE_REFUSED", "ACTIVE", "STOPPED", "FAILED"},
     ready : {"OPEN", "READY", "FAILED", "STOPPED"},
     outcome : {"UNKNOWN", "INCOMPLETE", "FAILED", "SUCCEEDED", "ERROR"},
     expired : BOOLEAN, from : Sources, sound : BOOLEAN, old : BOOLEAN]

Seconds == {"jobAgain", "lockAgain", "reportAgain"}
Looking == {"job", "report", "bootstrap", "health", "again"} \cup Seconds

Observers ==
    [at : {"off", "journal", "lock"} \cup Looking, pin : Attempts \cup {None}, last : Summaries,
     attempt : Attempts \cup {None}, pid : Nat, phase : RuntimePhases, busy : BOOLEAN, live : Int,
     from : Sources]

ObsInv ==
    /\ obs \in Observers /\ Plain(obs.last)
    /\ obs.at \in Looking => obs.attempt # None
    /\ obs.at \in {"lock", "job"} /\ obs.attempt # None =>
         /\ obs.phase = "GateRefused" => Over(obs.attempt)
         /\ obs.phase \notin {"GateRefused", "StartPrepared"} => Beyond(obs.attempt)
    /\ obs.at = "report" /\ obs.live <= 0 => Barred(obs.attempt)
    /\ obs.at \in {"health", "again"} \cup Seconds => report[obs.attempt] \in Late
    /\ obs.at = "again" => obs.from = obs.attempt \/ listener # obs.attempt
    /\ obs.at \in Seconds => obs.from = obs.attempt

AnswerInv == answer \in Summaries /\ Sure(answer) /\ (Commits(answer) => Over(answer.attempt))

Collecting == {"events", "recheck"}
DiagPlaces == {"off", "journal", "second", "collected", "logs", "export", "sync", "written",
               "failed", "uncertain"} \cup Collecting
Collectors == [at : DiagPlaces, left : Nat, kept : Nat, bytes : Nat, partial : BOOLEAN,
               record : Runtimes, fits : BOOLEAN, path : {"free", "theirs", "ours"}]
DiagInv ==
    /\ diag \in Collectors
    /\ diag.left + diag.kept + diag.bytes <= MaxBytes
    /\ diag.at \in Collecting =>
         /\ diag.record.phase \notin {"None", "Empty"} /\ diag.record.attempt \in Attempts
         /\ diag.record = runtime \/ diag.record.rev < runtime.rev
    /\ diag.at = "recheck" => diag.fits \/ diag.partial \/ diag.record.rev < runtime.rev
    /\ diag.at # "recheck" => diag.fits \/ diag.partial
    /\ diag.at = "written" => diag.path = "ours"

Directories == {"here", "twin", "other"}
Executors == [at : {"off", "check", "dispatch", "watch", "answered"}, request : Requests,
              cmd : Commands \cup {None}, child : {"none", "spawned", "acting", "ended", "left"},
              away : BOOLEAN, reply : Replies \cup {"none"}, place : Directories, done : BOOLEAN,
              answer : {"none", "refused", "SUCCEEDED"}]
ExeInv ==
    /\ exe \in Executors
    /\ exe.at \in {"off", "check", "dispatch"} => exe.child = "none"
    /\ exe.at # "watch" => exe.child \in {"none", "left"}
    /\ exe.at # "answered" => exe.answer = "none"
    /\ exe.child = "ended" => exe.reply \in Replies
    /\ exe.child = "ended" /\ exe.reply = "SUCCEEDED" => exe.done
    /\ NoSilentEffect

ObserveInv == IInv /\ MoreInv /\ NodeInv /\ ObsInv /\ AnswerInv /\ DiagInv /\ ExeInv
-----------------------------------------------------------------------------
(* What a step of the service changes.                                     *)

\* The steps of a command that leave journal and jobs alone.
Quiet(c) ==
    \/ Probe(c) \/ ProbeEnd(c) \/ StartLock(c) \/ StopBegin(c) \/ Quit(c)
    \/ StartCheck(c) \/ StartInputs(c) \/ StartFiles(c) \/ StartJob(c) \/ StartRefused(c)
    \/ StopRequest(c) \/ StopObserve(c) \/ StopInspect(c) \/ StopUnknown(c) \/ StopSignal(c)
    \/ StopMissed(c) \/ StopSettle(c) \/ ConfirmLock(c) \/ BootoutCheck(c)

LEMMA CommandCases ==
    ASSUME NEW c \in Commands, CommandStep(c)
    PROVE  \/ Quiet(c)
           \/ StartUnload(c) \/ Bootstrap(c) \/ StopKill(c) \/ Bootout(c)
           \/ StartCreate(c) \/ StartSave(c) \/ StartSaveFailed(c) \/ ConfirmSave(c) \/ ConfirmFailed(c)
BY DEF CommandStep, StartStep, StopStep, Quiet

LEMMA QuietIs ==
    ASSUME NEW c \in Commands, Quiet(c)
    PROVE  UNCHANGED <<journal, loaded, entries, worker, report, execs>>
<1>1. CASE Probe(c) \/ ProbeEnd(c) \/ StartLock(c) \/ StopBegin(c) \/ Quit(c)
  BY <1>1 DEF Probe, ProbeEnd, StartLock, StopBegin, Quit, jobs, engine
<1>2. CASE StartCheck(c) \/ StartInputs(c) \/ StartFiles(c) \/ StartJob(c) \/ StartRefused(c)
  BY <1>2 DEF StartCheck, StartInputs, StartFiles, StartJob, StartRefused, jobs, engine
<1>3. CASE \/ StopRequest(c) \/ StopObserve(c) \/ StopInspect(c) \/ StopUnknown(c) \/ StopSignal(c)
           \/ StopMissed(c) \/ StopSettle(c) \/ ConfirmLock(c) \/ BootoutCheck(c)
  BY <1>3 DEF StopRequest, StopObserve, StopInspect, StopUnknown, StopSignal, StopMissed,
     StopSettle, ConfirmLock, BootoutCheck, jobs, engine
<1> QED
  BY <1>1, <1>2, <1>3 DEF Quiet

\* A command reports nothing, becomes no engine and lets nobody through the gate.
LEMMA CommandJobs ==
    ASSUME IInv, NEW c \in Commands, CommandStep(c)
    PROVE  /\ UNCHANGED <<report, execs>>
           /\ \A a \in Attempts :
                /\ worker'[a] \in {worker[a], "none", "entered"}
                /\ entries'[a] = entries[a] \/ entries'[a] = entries[a] + 1
                /\ worker'[a] \in {worker[a], "none"} \/ entries'[a] = entries[a] + 1
<1>1. worker \in [Attempts -> WorkerPlaces] /\ entries \in [Attempts -> Nat]
  BY StateTypes
<1>2. CASE Quiet(c)
  BY <1>2, QuietIs
<1>3. CASE StartUnload(c)
  BY <1>1, <1>3 DEF StartUnload, Unload, Exit, engine
<1>4. CASE Bootstrap(c)
  BY <1>1, <1>4 DEF Bootstrap, Enter, engine
<1>5. CASE StopKill(c)
  BY <1>1, <1>5 DEF StopKill, Exit
<1>6. CASE Bootout(c)
  BY <1>1, <1>6 DEF Bootout, engine
<1>7. CASE StartCreate(c) \/ StartSave(c) \/ StartSaveFailed(c) \/ ConfirmSave(c) \/ ConfirmFailed(c)
  BY <1>7 DEF StartCreate, StartSave, StartSaveFailed, ConfirmSave, ConfirmFailed, jobs, engine
<1> QED
  BY <1>2, <1>3, <1>4, <1>5, <1>6, <1>7, CommandCases

\* A start claims an attempt that nobody has used.
LEMMA CommandClaims ==
    ASSUME IInv, NEW c \in Commands, CommandStep(c), NEW d \in Commands, pc'[d] \in Unprepared
    PROVE  \/ pc[d] \in Unprepared /\ mine'[d] = mine[d]
           \/ mine'[d] \notin used
<1>1. pc \in [Commands -> Places] /\ mine \in [Commands -> used \cup {None}]
  BY DEF IInv, Types
<1>2. CASE \/ Probe(c) \/ ProbeEnd(c) \/ StartLock(c) \/ StopBegin(c) \/ Quit(c) \/ StartCheck(c)
           \/ StartUnload(c) \/ StartRefused(c) \/ StartSave(c) \/ StartSaveFailed(c)
  BY <1>1, <1>2 DEF Probe, ProbeEnd, StartLock, StopBegin, Quit, StartCheck, StartUnload,
     StartRefused, StartSave, StartSaveFailed, Goto, Release, Return, Unprepared
<1>3. CASE Bootstrap(c)
  BY <1>1, <1>3 DEF Bootstrap, Return, Unprepared
<1>4. CASE StartInputs(c)
  BY <1>1, <1>4 DEF StartInputs, Goto, Release, Return, Unprepared
<1>5. CASE StartFiles(c)
  BY <1>1, <1>5 DEF StartFiles, Goto, Release, Return, Unprepared
<1>6. CASE StartJob(c) \/ StartCreate(c)
  BY <1>1, <1>6 DEF StartJob, StartCreate, Goto, Release, Return, Unprepared
<1>7. CASE \/ StopRequest(c) \/ StopObserve(c) \/ StopInspect(c) \/ StopUnknown(c) \/ StopSignal(c)
           \/ StopKill(c) \/ StopMissed(c) \/ StopSettle(c)
  BY <1>1, <1>7 DEF StopRequest, StopObserve, StopInspect, StopUnknown, StopSignal, StopKill,
     StopMissed, StopSettle, Goto, Return, Unprepared
<1>8. CASE ConfirmLock(c) \/ ConfirmSave(c) \/ ConfirmFailed(c) \/ BootoutCheck(c) \/ Bootout(c)
  BY <1>1, <1>8 DEF ConfirmLock, ConfirmSave, ConfirmFailed, BootoutCheck, Bootout, Goto, Release,
     Return, Unprepared
<1> QED
  BY <1>2, <1>3, <1>4, <1>5, <1>6, <1>7, <1>8 DEF CommandStep, StartStep, StopStep

\* A checkpoint s is published: the next revision, of a start only what that start has claimed,
\* and a refusal only of an attempt that every checkpoint says was let through.
Publishes(s) ==
    /\ runtime' = s /\ survives' \subseteq survives \cup {s}
    /\ s.rev = runtime.rev + 1 /\ s.phase \notin {"None", "Empty"}
    /\ s.phase = "StartPrepared" => \E c \in Commands : pc[c] \in Unprepared /\ s.attempt = mine[c]
    /\ s.phase = "GateRefused" => \A t \in survives : t.phase = "GateConsumed"

LEMMA SaveIs ==
    ASSUME IInv, NEW s, SaveOk(s) \/ SaveErr(s)
    PROVE  UNCHANGED journal \/ (runtime' = s /\ survives' \subseteq survives \cup {s})
BY DEF SaveOk, SaveErr, journal

LEMMA CommandSaves ==
    ASSUME IInv, NEW c \in Commands, CommandStep(c)
    PROVE  UNCHANGED journal \/ StartCreate(c) \/ \E s : Publishes(s)
<1>1. runtime \in Runtimes /\ runtime.rev \in Nat
  BY StateTypes DEF Runtimes
<1>2. CASE Quiet(c)
  BY <1>2, QuietIs
<1>3. CASE StartUnload(c) \/ Bootstrap(c) \/ StopKill(c) \/ Bootout(c)
  BY <1>3 DEF StartUnload, Bootstrap, StopKill, Bootout
<1>4. CASE StartSave(c) \/ StartSaveFailed(c)
  <2> DEFINE s == Prepared(c)
  <2>1. pc[c] \in Unprepared /\ (SaveOk(s) \/ SaveErr(s))
    BY <1>4 DEF StartSave, StartSaveFailed, Goto, Unprepared
  <2>2. s.rev = runtime.rev + 1 /\ s.phase = "StartPrepared" /\ s.attempt = mine[c]
    BY DEF Prepared
  <2> HIDE DEF s
  <2>3. CASE runtime' = s /\ survives' \subseteq survives \cup {s}
    BY <2>1, <2>2, <2>3 DEF Publishes
  <2> QED
    BY <2>1, <2>3, SaveIs
<1>5. CASE ConfirmSave(c) \/ ConfirmFailed(c)
  <2> DEFINE s == Stopped
  <2>1. UNCHANGED journal \/ SaveOk(s) \/ SaveErr(s)
    BY <1>5 DEF ConfirmSave, ConfirmFailed
  <2>2. s.rev = runtime.rev + 1 /\ s.phase = "StoppedVerified"
    BY <1>1 DEF Stopped, Runtimes
  <2> HIDE DEF s
  <2>3. CASE runtime' = s /\ survives' \subseteq survives \cup {s}
    BY <2>2, <2>3 DEF Publishes
  <2> QED
    BY <2>1, <2>3, SaveIs
<1> QED
  BY <1>2, <1>3, <1>4, <1>5, CommandCases

\* The steps of a worker or an engine that leave the journal alone.
LEMMA GateSaves ==
    ASSUME IInv, NEW a \in Attempts, GateStep(a) \/ EngineStep(a) \/ Die(a) \/ Kickstart(a)
    PROVE  UNCHANGED journal \/ \E s : Publishes(s)
<1>1. runtime \in Runtimes /\ view[a] \in Runtimes /\ runtime.rev \in Nat /\ runtime \in survives
  BY StateTypes DEF Runtimes
<1>2. CASE GateConsume(a) \/ GateRejected(a)
  <2> DEFINE s == Consumed(a)
  <2>1. UNCHANGED journal \/ SaveOk(s) \/ SaveErr(s)
    BY <1>2 DEF GateConsume, GateRejected
  <2>2. s.rev = runtime.rev + 1 /\ s.phase = "GateConsumed"
    BY <1>1 DEF Consumed, Runtimes
  <2> HIDE DEF s
  <2>3. CASE runtime' = s /\ survives' \subseteq survives \cup {s}
    BY <2>2, <2>3 DEF Publishes
  <2> QED
    BY <2>1, <2>3, SaveIs
<1>3. CASE GateStage(a) \/ GateExecStage(a) \/ GateStageFails(a)
  <2> DEFINE s == NextStage(a)
  <2>1. worker[a] \in {"stages", "go"} /\ (SaveOk(s) \/ SaveErr(s))
    BY <1>3 DEF GateStage, GateExecStage, GateStageFails, WorkerGoto
  <2>2. view[a] = runtime /\ runtime.phase = "GateConsumed"
    <3>1. worker[a] \in Gated /\ worker[a] \in Through
      BY <2>1 DEF Gated, Through
    <3> QED
      BY <1>1, <3>1 DEF IInv, WorkerInv, Ahead, Admitted, Names
  <2>3. s.rev = runtime.rev + 1 /\ s.phase = "GateConsumed"
    BY <1>1, <2>2 DEF NextStage, Runtimes
  <2> HIDE DEF s
  <2>4. CASE runtime' = s /\ survives' \subseteq survives \cup {s}
    BY <2>3, <2>4 DEF Publishes
  <2> QED
    BY <2>1, <2>4, SaveIs
<1>4. CASE GateRefuse(a)
  <2> DEFINE s == [view[a] EXCEPT !.rev = @ + 1, !.phase = "GateRefused"]
  <2>1. /\ worker[a] = "refuse"
        /\ UNCHANGED journal \/ (runtime.rev = view[a].rev /\ (SaveOk(s) \/ SaveErr(s)))
    BY <1>4 DEF GateRefuse
  <2>2. s.rev = view[a].rev + 1 /\ s.phase = "GateRefused"
    BY <1>1 DEF Runtimes
  <2>3. \A t \in survives : t.phase = "GateConsumed"
    <3>1. worker[a] \in Through
      BY <2>1 DEF Through
    <3> QED
      BY <3>1 DEF IInv, WorkerInv, Admitted, Names
  <2> HIDE DEF s
  <2>4. CASE runtime' = s /\ survives' \subseteq survives \cup {s} /\ runtime.rev = view[a].rev
    BY <2>2, <2>3, <2>4 DEF Publishes
  <2> QED
    BY <2>1, <2>4, SaveIs
<1>5. CASE \/ GateLock(a) \/ GateBusy(a) \/ GateCheck(a) \/ Exec(a) \/ GateFails(a)
           \/ EngineStep(a) \/ Die(a) \/ Kickstart(a)
  BY <1>5 DEF GateLock, GateBusy, GateCheck, Exec, GateFails, EngineStep, EngineReport,
     EngineStopping, EngineExit, Die, Kickstart
<1> QED
  BY <1>2, <1>3, <1>4, <1>5 DEF GateStep

\* A worker comes past the gate only by consuming its attempt, and is the engine only by exec.
LEMMA GateJobs ==
    ASSUME IInv, NEW b \in Attempts, GateStep(b) \/ EngineStep(b) \/ Die(b) \/ Kickstart(b)
    PROVE  /\ UNCHANGED <<command, used>>
           /\ \A a \in Attempts \ {b} : worker'[a] = worker[a]
           /\ \/ worker'[b] \in {worker[b], "none", "entered", "locked"} /\ execs' = execs
              \/ GateConsume(b) /\ worker'[b] = "stages" /\ execs' = execs
              \/ PastGate(b) /\ worker'[b] # "engine" /\ execs' = execs
              \/ Exec(b) /\ worker[b] = "exec" /\ worker'[b] = "engine"
           /\ \A a \in Attempts : entries'[a] = entries[a] \/ entries'[a] = entries[a] + 1
           /\ worker[b] # "none" \/ UNCHANGED worker \/ entries'[b] = entries[b] + 1
<1>1. worker \in [Attempts -> WorkerPlaces] /\ entries \in [Attempts -> Nat]
  BY StateTypes
<1>2. CASE GateLock(b) \/ GateConsume(b)
  BY <1>1, <1>2 DEF GateLock, GateConsume, WorkerGoto, engine
<1>3. CASE GateBusy(b) \/ GateRejected(b) \/ GateRefuse(b)
  BY <1>1, <1>3 DEF GateBusy, GateRejected, GateRefuse, Exit, engine
<1>4. CASE GateStage(b) \/ GateCheck(b) \/ GateExecStage(b) \/ GateStageFails(b)
  BY <1>1, <1>4 DEF GateStage, GateCheck, GateExecStage, GateStageFails, WorkerGoto, PastGate, engine
<1>5. CASE GateFails(b)
  BY <1>1, <1>5 DEF GateFails, WorkerGoto, PastGate, engine
<1>6. CASE Exec(b)
  BY <1>1, <1>6 DEF Exec, WorkerGoto
<1>7. CASE EngineStep(b) \/ Die(b)
  BY <1>1, <1>7 DEF EngineStep, EngineReport, EngineStopping, EngineExit, Die, Exit, jobs, engine
<1>8. CASE Kickstart(b)
  BY <1>1, <1>8 DEF Kickstart, Enter, engine
<1> QED
  BY <1>2, <1>3, <1>4, <1>5, <1>6, <1>7, <1>8 DEF GateStep

\* Only the engine reports, and it does not come to RUNNING twice.
Reporting(b) == \E r \in Statuses \ {"none"} :
    /\ Running(b) /\ report' = [report EXCEPT ![b] = r]
    /\ report[b] \in Late => r \in Late \ {"RUNNING"}
    /\ UNCHANGED <<journal, command, used, worker, execs>>

LEMMA GateReports ==
    ASSUME IInv, NEW b \in Attempts, GateStep(b) \/ EngineStep(b) \/ Die(b) \/ Kickstart(b)
    PROVE  UNCHANGED report \/ Reporting(b)
<1>1. CASE EngineReport(b)
  <2> DEFINE r == Successor[report[b]]
  <2>1. /\ report[b] \in {"none", "CHECKING", "STARTING", "STOPPING"}
        /\ report' = [report EXCEPT ![b] = r]
    BY <1>1 DEF EngineReport, Successor
  <2>2. r \in Statuses \ {"none"} /\ (report[b] \in Late => r \in Late \ {"RUNNING"})
    BY <2>1 DEF Successor, Statuses, Late
  <2> HIDE DEF r
  <2> QED
    BY <1>1, <2>1, <2>2 DEF EngineReport, Reporting, jobs
<1>2. CASE EngineStopping(b)
  <2>1. "STOPPING" \in Statuses \ {"none"} /\ "STOPPING" \in Late \ {"RUNNING"}
    BY DEF Statuses, Late
  <2> QED
    BY <1>2, <2>1 DEF EngineStopping, Reporting, jobs
<1>3. CASE \/ GateLock(b) \/ GateBusy(b) \/ GateConsume(b) \/ GateRejected(b) \/ GateStage(b)
           \/ GateCheck(b) \/ GateExecStage(b) \/ Exec(b) \/ GateFails(b) \/ GateStageFails(b)
           \/ GateRefuse(b) \/ EngineExit(b) \/ Die(b) \/ Kickstart(b)
  BY <1>3 DEF GateLock, GateBusy, GateConsume, GateRejected, GateStage, GateCheck, GateExecStage,
     Exec, GateFails, GateStageFails, GateRefuse, EngineExit, Die, Kickstart, engine
<1> QED
  BY <1>1, <1>2, <1>3 DEF GateStep, EngineStep

\* The journal is changed only under the lock.
LEMMA UnderLock ==
    ASSUME IInv
    PROVE  /\ \A c \in Commands : CommandStep(c) => UNCHANGED journal \/ c \in holders
           /\ \A a \in Attempts : GateStep(a) \/ EngineStep(a) \/ Die(a) \/ Kickstart(a) =>
                UNCHANGED journal \/ a \in holders
<1>1. ASSUME NEW c \in Commands, CommandStep(c) PROVE UNCHANGED journal \/ c \in holders
  <2>1. CASE Quiet(c)
    BY <2>1, QuietIs
  <2>2. CASE StartUnload(c) \/ Bootstrap(c) \/ StopKill(c) \/ Bootout(c)
    BY <2>2 DEF StartUnload, Bootstrap, StopKill, Bootout
  <2>3. CASE StartCreate(c) \/ StartSave(c) \/ StartSaveFailed(c) \/ ConfirmSave(c) \/ ConfirmFailed(c)
    <3>1. pc[c] \in {"create", "save", "verify"}
      BY <2>3 DEF StartCreate, StartSave, StartSaveFailed, ConfirmSave, ConfirmFailed, Goto
    <3> QED
      BY <3>1 DEF IInv, CommandInv, Holds, Locking, Starting
  <2> QED
    BY <1>1, <2>1, <2>2, <2>3, CommandCases
<1>2. ASSUME NEW a \in Attempts, GateStep(a) \/ EngineStep(a) \/ Die(a) \/ Kickstart(a)
      PROVE  UNCHANGED journal \/ a \in holders
  <2>1. CASE \/ GateConsume(a) \/ GateRejected(a) \/ GateStage(a) \/ GateExecStage(a)
             \/ GateStageFails(a) \/ GateRefuse(a)
    <3>1. worker[a] \in {"locked", "stages", "go", "refuse"}
      BY <2>1 DEF GateConsume, GateRejected, GateStage, GateExecStage, GateStageFails, GateRefuse,
         WorkerGoto
    <3> QED
      BY <3>1 DEF IInv, WorkerInv, Held
  <2>2. CASE \/ GateLock(a) \/ GateBusy(a) \/ GateCheck(a) \/ Exec(a) \/ GateFails(a)
             \/ EngineStep(a) \/ Die(a) \/ Kickstart(a)
    BY <2>2 DEF GateLock, GateBusy, GateCheck, Exec, GateFails, EngineStep, EngineReport,
       EngineStopping, EngineExit, Die, Kickstart
  <2> QED
    BY <1>2, <2>1, <2>2 DEF GateStep
<1> QED
  BY <1>1, <1>2

LEMMA CommandUses ==
    ASSUME IInv, NEW c \in Commands, CommandStep(c)
    PROVE  used \subseteq used'
<1>1. CASE StartFiles(c)
  BY <1>1 DEF StartFiles
<1>2. CASE Quiet(c) /\ ~StartFiles(c)
  BY <1>2 DEF Quiet, Probe, ProbeEnd, StartLock, StopBegin, Quit, StartCheck, StartInputs, StartJob,
     StartRefused, StopRequest, StopObserve, StopInspect, StopUnknown, StopSignal, StopMissed,
     StopSettle, ConfirmLock, BootoutCheck
<1>3. CASE \/ StartUnload(c) \/ Bootstrap(c) \/ StopKill(c) \/ Bootout(c) \/ StartCreate(c)
           \/ StartSave(c) \/ StartSaveFailed(c) \/ ConfirmSave(c) \/ ConfirmFailed(c)
  BY <1>3 DEF StartUnload, Bootstrap, StopKill, Bootout, StartCreate, StartSave, StartSaveFailed,
     ConfirmSave, ConfirmFailed
<1> QED
  BY <1>1, <1>2, <1>3, CommandCases

\* What any step does short of a power loss.
Claims(d) == pc'[d] \in Unprepared =>
    (pc[d] \in Unprepared /\ mine'[d] = mine[d]) \/ mine'[d] \notin used
Moves ==
    /\ used \subseteq used' /\ \A d \in Commands : Claims(d)
    /\ \A a \in Attempts : PastGate(a)' => PastGate(a) \/ Admissible(a)
    /\ UNCHANGED journal \/ (\E c \in Commands : StartCreate(c)) \/ \E s : Publishes(s)
    /\ UNCHANGED report \/ \E b \in Attempts : Reporting(b)

LEMMA ProcessMoves ==
    ASSUME IInv, ProcessStep
    PROVE  Moves
<1>1. ASSUME NEW c \in Commands, CommandStep(c) PROVE Moves
  <2>1. used \subseteq used' /\ \A d \in Commands : Claims(d)
    BY <1>1, CommandUses, CommandClaims DEF Claims
  <2>2. UNCHANGED report /\ \A a \in Attempts : PastGate(a)' => PastGate(a)
    BY <1>1, CommandJobs DEF PastGate
  <2>3. UNCHANGED journal \/ StartCreate(c) \/ \E s : Publishes(s)
    BY <1>1, CommandSaves
  <2> QED
    BY <2>1, <2>2, <2>3 DEF Moves
<1>2. ASSUME NEW b \in Attempts, GateStep(b) \/ EngineStep(b) \/ Die(b) \/ Kickstart(b) PROVE Moves
  <2>1. UNCHANGED <<pc, mine, used>>
    BY <1>2, GateJobs DEF command
  <2>2. used \subseteq used' /\ \A d \in Commands : Claims(d)
    BY <2>1 DEF Claims
  <2>3. ASSUME NEW a \in Attempts, PastGate(a)', ~PastGate(a) PROVE Admissible(a)
    <3>1. a = b /\ worker'[a] \notin {worker[a], "none", "entered", "locked"}
      BY <1>2, <2>3, GateJobs DEF PastGate
    <3>2. GateConsume(a)
      BY <1>2, <2>3, <3>1, GateJobs DEF PastGate
    <3> QED
      BY <3>2 DEF GateConsume
  <2>4. UNCHANGED journal \/ \E s : Publishes(s)
    BY <1>2, GateSaves
  <2>5. UNCHANGED report \/ Reporting(b)
    BY <1>2, GateReports
  <2> QED
    BY <2>2, <2>3, <2>4, <2>5 DEF Moves
<1> QED
  BY <1>1, <1>2 DEF ProcessStep

\* The engine of a, by itself.
LEMMA FailsIs ==
    ASSUME NEW a \in Attempts, EngineFails(a)
    PROVE  /\ Reporting(a) /\ RowsFollow
           /\ UNCHANGED <<journal, holders, command, used, jobs, requests, signalled, execs, listener>>
<1>1. PICK r \in {"FAILED", "UNKNOWN"} : report' = [report EXCEPT ![a] = r]
  BY DEF EngineFails
<1>2. r \in Statuses \ {"none"} /\ r \in Late \ {"RUNNING"}
  BY DEF Statuses, Late
<1> QED
  BY <1>1, <1>2 DEF EngineFails, Reporting, jobs

LEMMA OutsideMoves ==
    ASSUME IInv, OutsideStep
    PROVE  /\ Moves /\ IInv' /\ UNCHANGED <<journal, command, used, execs>>
           /\ \A b \in Attempts : worker'[b] \in {worker[b], "none"} /\ entries'[b] = entries[b]
<1>1. ASSUME NEW a \in Attempts, EngineFails(a)
      PROVE  Reporting(a) /\ IInv' /\ UNCHANGED <<journal, command, used, execs, worker, entries>>
  <2>1. PICK r \in Statuses : report' = [report EXCEPT ![a] = r]
    BY <1>1, FailsIs DEF Reporting
  <2> QED
    BY <1>1, <2>1, FailsIs, ReportsKeep DEF EngineFails, jobs
<1>2. ASSUME NEW a \in Attempts, EngineCrash(a)
      PROVE  /\ IInv' /\ UNCHANGED <<journal, command, used, execs, report, entries>>
             /\ \A b \in Attempts : worker'[b] \in {worker[b], "none"}
  <2>1. worker \in [Attempts -> WorkerPlaces]
    BY StateTypes
  <2> QED
    BY <1>2, <2>1, QuietExit DEF EngineCrash, Exit, engine
<1>3. ASSUME NEW a \in Attempts, EngineUnbinds(a)
      PROVE  IInv' /\ UNCHANGED <<journal, command, used, execs, report, worker, entries>>
  BY <1>3, StutterKeeps DEF EngineUnbinds, vars, journal, command
<1>4. /\ IInv' /\ UNCHANGED <<journal, command, used, execs>>
      /\ \A b \in Attempts : worker'[b] \in {worker[b], "none"} /\ entries'[b] = entries[b]
      /\ UNCHANGED report \/ \E b \in Attempts : Reporting(b)
  BY <1>1, <1>2, <1>3 DEF OutsideStep
<1>5. \A d \in Commands : Claims(d)
  BY <1>4 DEF Claims, command
<1> QED
  BY <1>4, <1>5 DEF Moves, PastGate

LEMMA StillMoves ==
    ASSUME UNCHANGED vars
    PROVE  Moves
BY DEF vars, Moves, Claims, PastGate, journal

-----------------------------------------------------------------------------
(* What stays true.                                                        *)

LEMMA UnclaimedStays ==
    ASSUME Moves, NEW a, Unclaimed(a)
    PROVE  Unclaimed(a)'
BY DEF Moves, Claims, Unclaimed

LEMMA BeyondStays ==
    ASSUME IInv, Moves, NEW a \in Attempts, Beyond(a)
    PROVE  Beyond(a)'
<1>1. Unclaimed(a)'
  BY UnclaimedStays DEF Beyond
<1>2. CASE UNCHANGED journal
  BY <1>1, <1>2 DEF Beyond, journal
<1>3. CASE \E c \in Commands : StartCreate(c)
  <2>1. runtime'.phase = "Empty"
    BY <1>3 DEF StartCreate, NoRuntime
  <2> QED
    BY <1>1, <2>1 DEF Beyond
<1>4. ASSUME NEW s, Publishes(s) PROVE Beyond(a)'
  BY <1>1, <1>4 DEF Publishes, Beyond, Unclaimed
<1> QED
  BY <1>2, <1>3, <1>4 DEF Moves

LEMMA BarredStays ==
    ASSUME IInv, Moves, NEW a \in Attempts, Barred(a)
    PROVE  Barred(a)'
<1>1. Beyond(a)' /\ ~Admissible(a)
  BY BeyondStays DEF Barred, Beyond, Admissible
<1> QED
  BY <1>1 DEF Barred, Moves

LEMMA OverStays ==
    ASSUME IInv, Moves \/ PowerLoss, NEW a \in Attempts, Over(a)
    PROVE  Over(a)'
<1>1. CASE Moves
  <2>1. Barred(a)
    BY StateTypes DEF Over, Barred, Beyond
  <2>2. Unclaimed(a)' /\ ~PastGate(a)'
    BY <1>1, <2>1, BarredStays DEF Barred, Beyond
  <2>3. \A s \in survives' : s.attempt = a => s.phase # "StartPrepared"
    <3>1. CASE UNCHANGED journal
      BY <3>1 DEF journal, Over
    <3>2. CASE \E c \in Commands : StartCreate(c)
      BY <3>2 DEF StartCreate, NoRuntime
    <3>3. ASSUME NEW t, Publishes(t) PROVE \A s \in survives' : s.attempt = a => s.phase # "StartPrepared"
      BY <3>3 DEF Publishes, Over, Unclaimed
    <3> QED
      BY <1>1, <3>1, <3>2, <3>3 DEF Moves
  <2> QED
    BY <2>2, <2>3 DEF Over
<1>2. CASE PowerLoss
  BY <1>2 DEF PowerLoss, Over, Unclaimed, Unprepared, PastGate
<1> QED
  BY <1>1, <1>2

LEMMA LateStays ==
    ASSUME IInv, Moves, NEW a \in Attempts
    PROVE  /\ report[a] \in Late => report'[a] \in Late /\ ~Arrives(a)
           /\ report'[a] = "none" => report[a] = "none"
<1>1. report \in [Attempts -> Statuses]
  BY StateTypes
<1>2. CASE UNCHANGED report
  BY <1>2 DEF Arrives
<1>3. ASSUME NEW b \in Attempts, Reporting(b)
      PROVE  /\ report[a] \in Late => report'[a] \in Late /\ ~Arrives(a)
             /\ report'[a] = "none" => report[a] = "none"
  BY <1>1, <1>3 DEF Reporting, Arrives
<1> QED
  BY <1>2, <1>3 DEF Moves

-----------------------------------------------------------------------------
(* The service's further invariant.                                        *)

LEMMA RanStays ==
    ASSUME IInv, MoreInv, ProcessStep \/ OutsideStep
    PROVE  \A a \in Attempts : Ran(a)'
<1>1. /\ execs \in [Attempts -> Nat] /\ report \in [Attempts -> Statuses]
      /\ \A a \in Attempts : Ran(a)
  BY StateTypes DEF MoreInv
<1>2. ASSUME NEW c \in Commands, CommandStep(c), NEW a \in Attempts PROVE Ran(a)'
  BY <1>1, <1>2, CommandJobs DEF Ran
<1>3. ASSUME NEW b \in Attempts, GateStep(b) \/ EngineStep(b) \/ Die(b) \/ Kickstart(b),
             NEW a \in Attempts
      PROVE  Ran(a)'
  <2>1. CASE Exec(b) /\ worker[b] = "exec"
    <3>1. execs[b] = 0
      BY <2>1 DEF IInv, WorkerInv, Ahead, Gated
    <3>2. execs' = [execs EXCEPT ![b] = 1] /\ UNCHANGED report
      BY <1>1, <2>1, <3>1 DEF Exec
    <3> QED
      BY <1>1, <1>3, <3>2, GateJobs DEF Ran
  <2>2. CASE ~(Exec(b) /\ worker[b] = "exec") /\ UNCHANGED report
    <3>1. execs' = execs /\ (worker'[a] = "engine" => worker[a] = "engine")
      BY <1>3, <2>2, GateJobs
    <3> QED
      BY <1>1, <2>2, <3>1 DEF Ran
  <2>3. CASE Reporting(b)
    BY <1>1, <2>3 DEF Reporting, Ran, Running
  <2> QED
    BY <1>3, <2>1, <2>2, <2>3, GateJobs, GateReports
<1>4. ASSUME OutsideStep, NEW a \in Attempts PROVE Ran(a)'
  <2>1. execs' = execs /\ (worker'[a] = "engine" => worker[a] = "engine")
    BY <1>4, OutsideMoves
  <2>2. CASE UNCHANGED report
    BY <1>1, <2>1, <2>2 DEF Ran
  <2>3. ASSUME NEW b \in Attempts, Reporting(b) PROVE Ran(a)'
    BY <1>1, <2>3 DEF Reporting, Ran, Running
  <2> QED
    BY <1>4, <2>2, <2>3, OutsideMoves DEF Moves
<1> QED
  BY <1>2, <1>3, <1>4 DEF ProcessStep

\* launchd numbers what it enters.
LEMMA EnteredStays ==
    ASSUME IInv, MoreInv, ProcessStep \/ OutsideStep \/ PowerLoss
    PROVE  \A a \in Attempts : Entered(a)'
<1>1. entries \in [Attempts -> Nat] /\ \A a \in Attempts : Entered(a)
  BY StateTypes DEF MoreInv
<1>2. ASSUME NEW c \in Commands, CommandStep(c), NEW a \in Attempts PROVE Entered(a)'
  BY <1>1, <1>2, CommandJobs DEF Entered
<1>3. ASSUME NEW b \in Attempts, GateStep(b) \/ EngineStep(b) \/ Die(b) \/ Kickstart(b),
             NEW a \in Attempts
      PROVE  Entered(a)'
  BY <1>1, <1>3, GateJobs DEF Entered
<1>4. ASSUME OutsideStep, NEW a \in Attempts PROVE Entered(a)'
  BY <1>1, <1>4, OutsideMoves DEF Entered
<1>5. ASSUME PowerLoss, NEW a \in Attempts PROVE Entered(a)'
  BY <1>5 DEF PowerLoss, Entered
<1> QED
  BY <1>2, <1>3, <1>4, <1>5 DEF ProcessStep

\* A start creates the journal only when there is none, and nobody makes one meanwhile.
LEMMA CreatesStays ==
    ASSUME IInv, MoreInv, ProcessStep, NEW c \in Commands
    PROVE  Creates(c)'
<1>1. pc \in [Commands -> Places]
  BY DEF IInv, Types
<1>2. pc[c] = "create" => c \in holders /\ runtime.phase = "None"
  BY DEF IInv, CommandInv, Holds, Locking, Starting, MoreInv, Creates
<1>3. ASSUME NEW d \in Commands, CommandStep(d) PROVE Creates(c)'
  <2>1. CASE d = c
    <3>1. CASE StartJob(c)
      BY <1>1, <3>1 DEF StartJob, Goto, Release, Return, Creates, journal
    <3>2. ASSUME ~StartJob(c) PROVE pc'[c] # "create"
      <4>1. CASE \/ Probe(c) \/ ProbeEnd(c) \/ StartLock(c) \/ StopBegin(c) \/ Quit(c)
                 \/ StartCheck(c) \/ StartUnload(c) \/ StartCreate(c) \/ StartRefused(c)
                 \/ StartSave(c) \/ StartSaveFailed(c)
        BY <1>1, <4>1 DEF Probe, ProbeEnd, StartLock, StopBegin, Quit, StartCheck, StartUnload,
           StartCreate, StartRefused, StartSave, StartSaveFailed, Goto, Release, Return
      <4>2. CASE StartInputs(c) \/ StartFiles(c) \/ Bootstrap(c)
        BY <1>1, <4>2 DEF StartInputs, StartFiles, Bootstrap, Goto, Release, Return
      <4>3. CASE StopStep(c)
        BY <1>1, <4>3 DEF StopStep, StopRequest, StopObserve, StopInspect, StopUnknown, StopSignal,
           StopKill, StopMissed, StopSettle, ConfirmLock, ConfirmSave, ConfirmFailed, BootoutCheck,
           Bootout, Goto, Release, Return
      <4> QED
        BY <1>3, <2>1, <3>2, <4>1, <4>2, <4>3 DEF CommandStep, StartStep
    <3> QED
      BY <3>1, <3>2 DEF Creates
  <2>2. CASE d # c
    <3>1. pc'[c] = "create" => pc[c] = "create"
      <4>1. CASE \/ Probe(d) \/ ProbeEnd(d) \/ StartLock(d) \/ StopBegin(d) \/ Quit(d)
                 \/ StartCheck(d) \/ StartUnload(d) \/ StartCreate(d) \/ StartRefused(d)
                 \/ StartSave(d) \/ StartSaveFailed(d)
        BY <1>1, <2>2, <4>1 DEF Probe, ProbeEnd, StartLock, StopBegin, Quit, StartCheck, StartUnload,
           StartCreate, StartRefused, StartSave, StartSaveFailed, Goto, Release, Return
      <4>2. CASE StartInputs(d) \/ StartFiles(d) \/ StartJob(d) \/ Bootstrap(d)
        BY <1>1, <2>2, <4>2 DEF StartInputs, StartFiles, StartJob, Bootstrap, Goto, Release, Return
      <4>3. CASE StopStep(d)
        BY <1>1, <2>2, <4>3 DEF StopStep, StopRequest, StopObserve, StopInspect, StopUnknown,
           StopSignal, StopKill, StopMissed, StopSettle, ConfirmLock, ConfirmSave, ConfirmFailed,
           BootoutCheck, Bootout, Goto, Release, Return
      <4> QED
        BY <1>3, <4>1, <4>2, <4>3 DEF CommandStep, StartStep
    <3>2. pc[c] = "create" => UNCHANGED journal
      BY <1>2, <1>3, <2>2, CommandAlone, UnderLock
    <3> QED
      BY <1>2, <3>1, <3>2 DEF Creates, journal
  <2> QED
    BY <2>1, <2>2
<1>4. ASSUME NEW b \in Attempts, GateStep(b) \/ EngineStep(b) \/ Die(b) \/ Kickstart(b)
      PROVE  Creates(c)'
  <2>1. pc' = pc
    BY <1>4, GateJobs DEF command
  <2>2. pc[c] = "create" => UNCHANGED journal
    BY <1>2, <1>4, CommandAlone, UnderLock
  <2> QED
    BY <1>2, <2>1, <2>2 DEF Creates, journal
<1> QED
  BY <1>3, <1>4 DEF ProcessStep

LEMMA RecordsStay ==
    ASSUME IInv, MoreInv, Moves
    PROVE  Refused' /\ Blank'
<1>1. CASE UNCHANGED journal
  BY <1>1 DEF MoreInv, Refused, Blank, journal
<1>2. CASE \E c \in Commands : StartCreate(c)
  BY <1>2 DEF StartCreate, NoRuntime, Refused, Blank
<1>3. ASSUME NEW s, Publishes(s) PROVE Refused' /\ Blank'
  BY <1>3 DEF Publishes, MoreInv, Refused, Blank
<1> QED
  BY <1>1, <1>2, <1>3 DEF Moves

LEMMA MoreKeeps ==
    ASSUME IInv, MoreInv, ProcessStep \/ OutsideStep \/ PowerLoss
    PROVE  MoreInv'
<1>1. CASE ProcessStep
  BY <1>1, RanStays, EnteredStays, CreatesStays, RecordsStay, ProcessMoves DEF MoreInv
<1>2. CASE OutsideStep
  <2>1. UNCHANGED <<runtime, pc>>
    BY <1>2, OutsideMoves DEF journal, command
  <2>2. \A c \in Commands : Creates(c)'
    BY <2>1 DEF MoreInv, Creates
  <2> QED
    BY <1>2, <2>2, RanStays, EnteredStays, RecordsStay, OutsideMoves DEF MoreInv
<1>3. CASE PowerLoss
  <2>1. \A a \in Attempts : Ran(a)'
    BY <1>3 DEF PowerLoss, MoreInv, Ran, engine
  <2>2. \A c \in Commands : Creates(c)'
    BY <1>3 DEF PowerLoss, Creates
  <2>3. Refused' /\ Blank'
    BY <1>3 DEF PowerLoss, MoreInv, Refused, Blank
  <2> QED
    BY <1>3, <2>1, <2>2, <2>3, EnteredStays DEF MoreInv
<1> QED
  BY <1>1, <1>2, <1>3

\* Short of a power loss the journal only goes forward.
LEMMA RevisionsGrow ==
    ASSUME IInv, MoreInv, Moves
    PROVE  \/ runtime' = runtime
           \/ runtime = NoRuntime
           \/ runtime'.rev = runtime.rev + 1
<1>1. ASSUME NEW c \in Commands, StartCreate(c) PROVE runtime = NoRuntime
  BY <1>1, StateTypes DEF StartCreate, Goto, MoreInv, Creates, Blank
<1> QED
  BY <1>1 DEF Moves, journal, Publishes

-----------------------------------------------------------------------------
(* Rows and the port.                                                      *)

LEMMA RowsKeep ==
    ASSUME IInv, IInv', NodeInv, Moves \/ UNCHANGED report, RowsFollow \/ UNCHANGED <<rows, report>>
    PROVE  /\ rows' \in [Attempts -> Seq(Row)]
           /\ \A a \in Attempts : rows'[a] # <<>> => report'[a] # "none"
<1>1. rows \in [Attempts -> Seq(Row)] /\ \A a \in Attempts : rows[a] # <<>> => report[a] # "none"
  BY DEF NodeInv
<1>2. CASE UNCHANGED <<rows, report>>
  BY <1>1, <1>2
<1>3. CASE RowsFollow
  <2>1. \A a \in Attempts : report'[a] \in Statuses /\ entries[a] \in Nat
    BY DEF IInv, Types
  <2>2. ASSUME NEW a \in Attempts
        PROVE  Append(rows[a], [status |-> report'[a], pid |-> entries[a]]) \in Seq(Row)
    <3>1. [status |-> report'[a], pid |-> entries[a]] \in Row
      BY <2>1 DEF Row
    <3> QED
      BY <1>1, <3>1
  <2>3. rows' \in [Attempts -> Seq(Row)]
    BY <1>1, <1>3, <2>2 DEF RowsFollow
  <2>4. ASSUME NEW a \in Attempts, report'[a] = "none" PROVE rows'[a] = <<>>
    <3>1. report[a] = "none"
      BY <2>4, LateStays
    <3> QED
      BY <1>1, <1>3, <2>4, <3>1 DEF RowsFollow
  <2> QED
    BY <2>3, <2>4
<1> QED
  BY <1>2, <1>3

LEMMA PortKeeps ==
    ASSUME IInv, NodeInv, Moves \/ UNCHANGED report,
           ListenerFollows \/ UNCHANGED listener \/ listener' = None
    PROVE  /\ listener' \in Attempts \cup {None}
           /\ \A a \in Attempts : listener' = a => report'[a] \in Late
           /\ \A a \in Attempts : report[a] \in Late /\ listener # a => listener' # a
<1>1. listener \in Attempts \cup {None} /\ \A a \in Attempts : listener = a => report[a] \in Late
  BY DEF NodeInv
<1>2. \A a \in Attempts : a # None
  BY ServiceAssumption
<1>3. \A a \in Attempts : report[a] \in Late => report'[a] \in Late /\ ~Arrives(a)
  BY LateStays DEF Arrives
<1>4. CASE UNCHANGED listener \/ listener' = None
  BY <1>1, <1>2, <1>3, <1>4
<1>5. CASE ListenerFollows
  <2>1. \A a \in Attempts : Arrives(a) => report'[a] \in Late
    BY DEF Arrives, Late
  <2>2. PICK a \in Attempts \cup {None} :
          listener' = a /\ (a = None \/ listener = a \/ (a \in Attempts /\ Arrives(a)))
    BY <1>1, <1>5 DEF ListenerFollows
  <2> QED
    BY <1>1, <1>2, <1>3, <2>1, <2>2
<1> QED
  BY <1>4, <1>5

LEMMA NodeKeeps ==
    ASSUME IInv, IInv', NodeInv, ServiceStep \/ MachineStep \/ OutsideStep
    PROVE  /\ NodeInv'
           /\ \A a \in Attempts : ~PowerLoss /\ report[a] \in Late /\ listener # a => listener' # a
<1>1. /\ Moves \/ UNCHANGED report
      /\ RowsFollow \/ UNCHANGED <<rows, report>>
      /\ ListenerFollows \/ UNCHANGED listener \/ listener' = None
  <2>1. CASE ServiceStep
    BY <2>1, ProcessMoves DEF ServiceStep
  <2>2. CASE MachineStep
    BY <2>2 DEF MachineStep, PowerLoss, engine
  <2>3. CASE OutsideStep
    BY <2>3, OutsideMoves DEF OutsideStep, EngineFails, EngineCrash, EngineUnbinds, vars, engine
  <2> QED
    BY <2>1, <2>2, <2>3
<1> QED
  BY <1>1, RowsKeep, PortKeeps DEF NodeInv

-----------------------------------------------------------------------------
(* What a look may say.                                                    *)

\* A summary that keeps what it promises, whatever accept makes of it.
Fitting(s) ==
    /\ s \in Summaries /\ Sure(s) /\ (Commits(s) => Over(s.attempt))
    /\ s.ready = "STOPPED" => s.engine = "STOPPED"
    /\ s.engine = "STOPPED" => s.ready # "READY"
    /\ s.engine = "GATE_REFUSED" => s.outcome = "FAILED"

\* A look that has just begun, or none.
Beginning(o) == o \in Observers /\ o.at \in {"off", "journal"} /\ Plain(o.last)

LEMMA EmptySummary ==
    /\ NoSummary \in Summaries /\ Sure(NoSummary) /\ ~Commits(NoSummary) /\ Plain(NoSummary)
    /\ Failure \in Summaries /\ Failure.ready = "OPEN" /\ Failure.engine = "UNKNOWN"
    /\ \A a \in Attempts \cup {None} :
         /\ Summary(a) \in Summaries /\ Summary(a).ready = "OPEN" /\ Summary(a).engine = "UNKNOWN"
         /\ Summary(a).attempt = a /\ Summary(a).outcome = "UNKNOWN" /\ ~Summary(a).old
BY DEF NoSummary, Failure, Summary, Summaries, Sure, Commits, Plain, Sources

LEMMA OffIs == Beginning(Off)
<1>1. Off \in Observers
  <2>1. NoSummary \in Summaries /\ "None" \in RuntimePhases
    BY EmptySummary DEF RuntimePhases
  <2> QED
    BY <2>1 DEF Off, Observers, Sources
<1>2. Off.at = "off" /\ Off.last = NoSummary
  BY DEF Off
<1> QED
  BY <1>1, <1>2, EmptySummary DEF Beginning

LEMMA OpenFits ==
    ASSUME NEW s \in Summaries, s.ready # "STOPPED", s.ready # "READY", s.engine # "GATE_REFUSED"
    PROVE  Fitting(s)
BY DEF Fitting, Sure, Commits

\* What an answer leaves.
Settles ==
    /\ Beginning(obs')
    /\ answer' \in Summaries /\ Sure(answer') /\ (Commits(answer') => Over(answer'.attempt))

LEMMA AnswerSettles ==
    ASSUME NEW s \in Summaries, Sure(s), Commits(s) => Over(s.attempt), Answer(s)
    PROVE  Settles
<1>1. answer' \in {s, NoSummary} /\ obs' = Off
  BY DEF Answer
<1> QED
  BY <1>1, OffIs, EmptySummary DEF Settles

LEMMA FailureSettles ==
    ASSUME NEW s \in Summaries, s.ready = "OPEN", s.engine = "UNKNOWN", Answer(s)
    PROVE  Settles
BY AnswerSettles DEF Sure, Commits

LEMMA DeliverSettles ==
    ASSUME ObsInv, AnswerInv, NEW s, Fitting(s), Deliver(s)
    PROVE  Settles
<1>1. /\ s \in Summaries /\ obs \in Observers /\ obs.last \in Summaries /\ Plain(obs.last)
      /\ obs.pin \in Attempts \cup {None}
  BY DEF Fitting, ObsInv, Observers
<1>2. CASE WrongAttempt(s)
  <2> DEFINE f == [Failure EXCEPT !.attempt = obs.pin]
  <2>1. f \in Summaries /\ f.ready = "OPEN" /\ f.engine = "UNKNOWN"
    BY <1>1, EmptySummary DEF Summaries
  <2> QED
    BY <1>2, <2>1, FailureSettles DEF WrongAttempt
<1>3. CASE Nothing(s) \/ Conclusive(s)
  BY <1>1, <1>3, AnswerSettles DEF Nothing, Conclusive, Fitting
<1>4. CASE Stopping(s)
  <2> DEFINE f == [s EXCEPT !.outcome = "INCOMPLETE"]
  <2>1. f \in Summaries /\ f.ready = s.ready /\ f.engine = s.engine /\ f.outcome = "INCOMPLETE"
    BY <1>1 DEF Summaries
  <2>2. s.engine = "STOPPED" /\ s.ready # "READY" /\ (Answer(s) \/ Answer(f))
    BY <1>4 DEF Stopping, Fitting
  <2> HIDE DEF f
  <2>3. Sure(f) /\ ~Commits(f)
    BY <2>1, <2>2 DEF Sure, Commits
  <2> QED
    BY <1>1, <2>1, <2>2, <2>3, AnswerSettles DEF Fitting
<1>5. CASE Inconclusive(s)
  <2> DEFINE k == Kept(s)
             l == [k EXCEPT !.old = TRUE, !.expired = FALSE]
             o == [Off EXCEPT !.at = "journal", !.pin = s.attempt, !.last = l]
  <2>1. Plain(s)
    BY <1>5 DEF Inconclusive, Final, Fitting, Plain
  <2>2. k \in Summaries /\ Plain(k)
    BY <1>1, <2>1 DEF Kept
  <2>3. Answer(k) \/ (obs' = o /\ UNCHANGED answer)
    BY <1>5 DEF Inconclusive
  <2> HIDE DEF k
  <2>4. CASE Answer(k)
    BY <2>2, <2>4, AnswerSettles DEF Plain, Sure, Commits
  <2>5. CASE obs' = o /\ UNCHANGED answer
    <3>1. l \in Summaries /\ Plain(l)
      BY <2>2 DEF Summaries, Plain
    <3>2. s.attempt \in Attempts \cup {None}
      BY <1>1 DEF Summaries
    <3> HIDE DEF l
    <3>3. o \in Observers /\ o.at = "journal" /\ o.last = l
      BY <3>1, <3>2, OffIs DEF Beginning, Observers
    <3>4. Beginning(obs')
      BY <2>5, <3>1, <3>3 DEF Beginning
    <3> QED
      BY <2>5, <3>4 DEF Settles, AnswerInv
  <2> QED
    BY <2>3, <2>4, <2>5
<1> QED
  BY <1>2, <1>3, <1>4, <1>5 DEF Deliver

-----------------------------------------------------------------------------
(* The readiness document.                                                 *)

\* validate_health, validate_readiness and validate_health_role let READY through only for
\* what an operator takes it to mean.
LEMMA ReadyServes ==
    ASSUME NEW h \in Healths, NEW r \in Readinesses, ValidHealth(h), ValidReadiness(h, r),
           RoleFits(r), r.status = "READY"
    PROVE  Serving(h, r)
<1>1. ExpectedStatus(h, r) = "READY"
  BY DEF ValidReadiness
<1>2. /\ ~h.failure /\ h.execution # "FAILED" /\ r.sync # "FAILED" /\ h.execution # "OVERDUE"
      /\ r.completed /\ r.role # "UNKNOWN" /\ (r.role # "INSTANT" => h.initialized = "true")
      /\ r.sync # "SYNCING"
  BY <1>1 DEF ExpectedStatus
<1>3. r.role # "OBSERVER" /\ r.mode = "AUTO_START" =>
        /\ h.running
        /\ r.role = "VALIDATOR" => h.attached = "true" /\ h.execution \notin {"null", "IDLE"}
  BY <1>1, <1>2 DEF ExpectedStatus
<1>4. /\ r.sync \in {"UNKNOWN", "SYNCING", "FOLLOWING", "FAILED"} /\ h.execution \in Executions
      /\ r.mode \in {"AUTO_START", "MANUAL_START"}
      /\ h.engineRunning \in Flag
  BY DEF Healths, Readinesses
<1>5. h.running => h.lifecycle
  BY DEF ValidHealth, ProjectedRunning
<1>6. r.role = "VALIDATOR" /\ h.attached = "true" /\ h.running /\ h.initialized = "true"
        => h.engineRunning = "true"
  BY DEF ValidHealth, ProjectedRunning
<1>7. r.role = NodeRole /\ NodeRole \in {"VALIDATOR", "OBSERVER", "INSTANT"}
  BY NodeRoleAssumption DEF RoleFits
<1> QED
  BY <1>2, <1>3, <1>4, <1>5, <1>6, <1>7 DEF Serving, Executions

LEMMA VerdictsSound ==
    ASSUME NEW v \in Verdicts
    PROVE  /\ v.ready \in {"OPEN", "READY", "FAILED"} /\ v.sound \in BOOLEAN
           /\ v.ready = "READY" => v.sound
<1>1. CASE v = [ready |-> "OPEN", sound |-> FALSE]
  BY <1>1
<1>2. ASSUME NEW h \in Healths, ValidHealth(h), NEW r \in Readinesses, ValidReadiness(h, r), RoleFits(r),
             v = [ready |-> Waiting(r.status), sound |-> r.status = "READY" /\ Serving(h, r)]
      PROVE  /\ v.ready \in {"OPEN", "READY", "FAILED"} /\ v.sound \in BOOLEAN
             /\ v.ready = "READY" => v.sound
  <2>1. v.ready = Waiting(r.status) /\ v.sound = (r.status = "READY" /\ Serving(h, r))
    BY <1>2
  <2>2. r.status = "READY" => Serving(h, r)
    BY <1>2, ReadyServes
  <2>3. v.ready = "READY" => r.status = "READY"
    BY <2>1 DEF Waiting
  <2>4. v.ready \in {"OPEN", "READY", "FAILED"}
    BY <2>1 DEF Waiting
  <2>5. (r.status = "READY" /\ Serving(h, r)) \in BOOLEAN
    OBVIOUS
  <2> HIDE DEF Serving
  <2> QED
    BY <2>1, <2>2, <2>3, <2>4, <2>5
<1>3. \/ v = [ready |-> "OPEN", sound |-> FALSE]
      \/ \E h \in Healths : ValidHealth(h) /\ \E r \in Readinesses :
           /\ ValidReadiness(h, r) /\ RoleFits(r)
           /\ v = [ready |-> Waiting(r.status), sound |-> r.status = "READY" /\ Serving(h, r)]
  BY DEF Verdicts
<1> QED
  BY <1>1, <1>2, <1>3

-----------------------------------------------------------------------------
(* The steps of a look.                                                    *)

LEMMA SameService ==
    ASSUME UNCHANGED vars, NEW a
    PROVE  /\ Over(a)' = Over(a) /\ Barred(a)' = Barred(a) /\ Beyond(a)' = Beyond(a)
BY DEF vars, Over, Barred, Beyond, Unclaimed, PastGate

LEMMA BeginningKeeps ==
    ASSUME Beginning(obs')
    PROVE  ObsInv'
<1>1. obs'.at \notin Looking /\ obs'.at \notin {"lock", "job", "report", "health", "again"} \cup Seconds
  BY DEF Beginning, Looking, Seconds
<1> QED
  BY <1>1 DEF Beginning, ObsInv

LEMMA SettlesKeeps ==
    ASSUME Settles, UNCHANGED vars
    PROVE  ObsInv' /\ AnswerInv'
BY BeginningKeeps, SameService DEF Settles, AnswerInv

LEMMA AnswerKept ==
    ASSUME AnswerInv, UNCHANGED vars, UNCHANGED answer
    PROVE  AnswerInv'
BY SameService DEF AnswerInv

LEMMA ReadJournalKeeps ==
    ASSUME IInv, MoreInv, ObsInv, AnswerInv, ReadJournal, UNCHANGED <<vars, node>>
    PROVE  ObsInv' /\ AnswerInv'
<1>1. CASE Answer(Failure)
  BY <1>1, EmptySummary, FailureSettles, SettlesKeeps
<1>2. CASE Continue([obs EXCEPT !.at = "lock", !.attempt = runtime.attempt, !.pid = runtime.pid,
                                !.phase = runtime.phase])
  <2>1. runtime \in Runtimes /\ runtime \in survives /\ Recorded(runtime)
    BY StateTypes
  <2>2. /\ obs' \in Observers /\ obs'.at = "lock" /\ obs'.attempt = runtime.attempt
        /\ obs'.phase = runtime.phase /\ obs'.last = obs.last
    BY <1>2, <2>1 DEF Continue, ObsInv, Observers, Runtimes
  <2>3. ASSUME runtime.attempt # None, runtime.phase \notin {"StartPrepared"}
        PROVE  Unclaimed(runtime.attempt)
    <3>1. runtime.attempt \in used /\ runtime.attempt \in Attempts
      BY <2>1, <2>3 DEF Recorded, Runtimes
    <3>2. ASSUME NEW c \in Commands, pc[c] \in Unprepared PROVE mine[c] # runtime.attempt
      <4>1. pc[c] \in Starting
        BY <3>2 DEF Unprepared, Starting
      <4>2. runtime.phase = "StoppedVerified" /\ execs[mine[c]] = 0
        BY <2>1, <2>3, <3>2, <4>1 DEF IInv, CommandInv, Resolved, Chosen, Recorded, Unprepared
      <4>3. execs[runtime.attempt] = 1
        BY <2>1, <3>1, <4>2 DEF Recorded, MoreInv, Ran
      <4> QED
        BY <4>2, <4>3
    <3> QED
      BY <3>1, <3>2 DEF Unclaimed
  <2>4. ASSUME runtime.attempt # None, runtime.phase = "GateRefused" PROVE Over(runtime.attempt)
    <3>1. runtime.attempt \in Attempts /\ worker[runtime.attempt] \in WorkerPlaces
      BY <2>1, <2>4, StateTypes DEF Runtimes
    <3>2. worker[runtime.attempt] \notin Through
      BY <2>1, <2>4, <3>1 DEF IInv, WorkerInv, Admitted, Names
    <3>3. ~PastGate(runtime.attempt)
      BY <3>1, <3>2 DEF PastGate, WorkerPlaces
    <3> QED
      BY <2>3, <2>4, <3>3 DEF Over, MoreInv, Refused
  <2>5. runtime.attempt # None /\ runtime.phase # "StartPrepared" => Beyond(runtime.attempt)
    BY <2>3 DEF Beyond
  <2>6. "lock" \notin Looking /\ "lock" \notin {"health", "again", "report"} \cup Seconds
    BY DEF Looking, Seconds
  <2>7. ObsInv'
    BY <2>2, <2>4, <2>5, <2>6, SameService DEF ObsInv
  <2> QED
    BY <1>2, <2>7, AnswerKept DEF Continue
<1> QED
  BY <1>1, <1>2 DEF ReadJournal

LEMMA ReadLockKeeps ==
    ASSUME IInv, ObsInv, AnswerInv, ReadLock, UNCHANGED <<vars, node>>
    PROVE  ObsInv' /\ AnswerInv'
<1>1. CASE Deliver([NoSummary EXCEPT !.engine = "NOT_STARTED", !.outcome = "INCOMPLETE"])
  <2> DEFINE s == [NoSummary EXCEPT !.engine = "NOT_STARTED", !.outcome = "INCOMPLETE"]
  <2>1. s \in Summaries /\ s.ready = "OPEN" /\ s.engine = "NOT_STARTED"
    BY EmptySummary DEF Summaries, NoSummary, Summary
  <2> QED
    BY <1>1, <2>1, OpenFits, DeliverSettles, SettlesKeeps
<1>2. CASE obs.attempt # None /\ Continue([obs EXCEPT !.at = "job", !.busy = holders # {}])
  <2>1. /\ obs' \in Observers /\ obs'.at = "job" /\ obs'.attempt = obs.attempt
        /\ obs'.phase = obs.phase /\ obs'.last = obs.last
    <3>1. "job" \in Looking
      BY DEF Looking
    <3> QED
      BY <1>2, <3>1 DEF Continue, ObsInv, Observers
  <2>2. "job" \notin {"health", "again", "report"} \cup Seconds
    BY DEF Seconds
  <2>3. ObsInv'
    BY <1>2, <2>1, <2>2, SameService DEF ObsInv, ReadLock
  <2> QED
    BY <1>2, <2>3, AnswerKept DEF Continue
<1> QED
  BY <1>1, <1>2 DEF ReadLock

\* Most summaries say nothing that could be wrong.
LEMMA SaysLittle ==
    ASSUME ObsInv, AnswerInv, UNCHANGED <<vars, node>>, NEW s \in Summaries, s.ready = "OPEN",
           s.engine # "GATE_REFUSED", Deliver(s)
    PROVE  ObsInv' /\ AnswerInv'
BY OpenFits, DeliverSettles, SettlesKeeps

LEMMA UnconfirmedKeeps ==
    ASSUME ObsInv, AnswerInv, UNCHANGED <<vars, node>>, obs.at \in Looking, Unconfirmed
    PROVE  ObsInv' /\ AnswerInv'
<1> DEFINE s == [Summary(obs.attempt) EXCEPT !.engine = "ACTIVE"]
<1>1. obs.attempt \in Attempts \cup {None}
  BY DEF ObsInv, Observers
<1>2. s \in Summaries /\ s.ready = "OPEN" /\ s.engine = "ACTIVE"
  BY <1>1 DEF Summary, Summaries, Sources
<1> QED
  BY <1>2, SaysLittle DEF Unconfirmed

LEMMA ReadJobKeeps ==
    ASSUME IInv, MoreInv, ObsInv, AnswerInv, ReadJob, UNCHANGED <<vars, node>>
    PROVE  ObsInv' /\ AnswerInv'
<1>1. /\ obs.at = "job" /\ obs.at \in Looking /\ obs \in Observers /\ obs.attempt \in Attempts
      /\ obs.phase = "GateRefused" => Over(obs.attempt)
      /\ obs.phase \notin {"GateRefused", "StartPrepared"} => Beyond(obs.attempt)
  BY DEF ReadJob, ObsInv, Observers, Looking
<1>2. ASSUME NEW late \in BOOLEAN, NEW other,
             Deliver([Summary(obs.attempt) EXCEPT !.expired = late /\ other = "unknown"])
      PROVE  ObsInv' /\ AnswerInv'
  <2> DEFINE s == [Summary(obs.attempt) EXCEPT !.expired = late /\ other = "unknown"]
  <2>1. s \in Summaries /\ s.ready = "OPEN" /\ s.engine = "UNKNOWN"
    BY <1>1 DEF Summary, Summaries, Sources
  <2> QED
    BY <1>2, <2>1, SaysLittle
<1>3. CASE JobRefused
  <2> DEFINE s == [Summary(obs.attempt) EXCEPT !.engine = "GATE_REFUSED", !.outcome = "FAILED"]
  <2>1. /\ s \in Summaries /\ s.ready = "OPEN" /\ s.engine = "GATE_REFUSED" /\ s.outcome = "FAILED"
        /\ s.attempt = obs.attempt
    BY <1>1 DEF Summary, Summaries, Sources
  <2>2. Deliver(s) /\ Over(obs.attempt)
    BY <1>1, <1>3 DEF JobRefused
  <2> HIDE DEF s
  <2>3. Fitting(s)
    BY <2>1, <2>2 DEF Fitting, Sure
  <2> QED
    BY <2>2, <2>3, DeliverSettles, SettlesKeeps
<1>4. ASSUME NEW live, JobPending(live) PROVE ObsInv' /\ AnswerInv'
  <2> DEFINE o == IF Exited(obs.attempt, live) THEN "FAILED" ELSE "UNKNOWN"
             s == [Summary(obs.attempt) EXCEPT !.engine = "ACTIVE", !.outcome = o]
  <2>1. o \in {"UNKNOWN", "FAILED"} /\ Deliver(s)
    BY <1>4 DEF JobPending
  <2> HIDE DEF o
  <2>2. s \in Summaries /\ s.ready = "OPEN" /\ s.engine = "ACTIVE"
    BY <1>1, <2>1 DEF Summary, Summaries, Sources
  <2> QED
    BY <2>1, <2>2, SaysLittle
<1>5. ASSUME NEW live, PidMismatch(live) PROVE ObsInv' /\ AnswerInv'
  <2>1. /\ Summary(obs.attempt) \in Summaries /\ Summary(obs.attempt).ready = "OPEN"
        /\ Summary(obs.attempt).engine = "UNKNOWN"
    BY <1>1, EmptySummary
  <2> QED
    BY <1>5, <2>1, SaysLittle DEF PidMismatch
<1>6. ASSUME NEW live \in Observations(obs.attempt), JobFits(live) PROVE ObsInv' /\ AnswerInv'
  <2>1. live \in Int /\ (live <= 0 => ~PastGate(obs.attempt))
    <3>1. entries[obs.attempt] \in Nat /\ (worker[obs.attempt] # "none" => entries[obs.attempt] > 0)
      BY <1>1, StateTypes DEF MoreInv, Entered
    <3>2. CASE obs.attempt \notin loaded
      BY <1>1, <1>6, <3>2 DEF Observations, IInv, WorkerInv, Loaded, PastGate
    <3>3. CASE obs.attempt \in loaded
      <4>1. PICK p \in LoadedPrints : Shows(p, obs.attempt) /\ live = LivePid(p, obs.attempt)
        BY <1>6, <3>3 DEF Observations
      <4>2. p.pid = "number" \/ p.pid = "none"
        BY <4>1 DEF LoadedPrints, Prints, ParseObservation, JobState
      <4> QED
        BY <3>1, <4>1, <4>2 DEF Shows, LivePid, PastGate
    <3> QED
      BY <3>2, <3>3
  <2>2. obs' = [obs EXCEPT !.at = "report", !.phase = "None", !.live = live] /\ Beyond(obs.attempt)
    BY <1>1, <1>6 DEF JobFits, Passed, Continue
  <2>3. /\ obs' \in Observers /\ obs'.at = "report" /\ obs'.attempt = obs.attempt
        /\ obs'.live = live /\ obs'.last = obs.last
    <3>1. "report" \in Looking /\ "None" \in RuntimePhases
      BY DEF Looking, RuntimePhases
    <3> QED
      BY <1>1, <2>1, <2>2, <3>1 DEF Observers
  <2>4. "report" \notin {"health", "again", "lock", "job"} \cup Seconds
    BY DEF Seconds
  <2>5. ObsInv'
    BY <1>1, <2>1, <2>2, <2>3, <2>4, SameService, ServiceAssumption DEF ObsInv, Barred
  <2> QED
    BY <1>6, <2>5, AnswerKept DEF JobFits, Continue
<1> QED
  BY <1>2, <1>3, <1>4, <1>5, <1>6 DEF ReadJob, JobUnknown

LEMMA StoppedHasRows ==
    ASSUME NEW lines \in Seq(Row), NEW pid, ReportStatus(lines, pid) = "STOPPED"
    PROVE  lines # <<>>
<1>1. Len(lines) \in 1 .. 6
  BY DEF ReportStatus, MaxRows
<1>2. Len(lines) > 0
  BY <1>1
<1> QED
  BY <1>2

LEMMA ReadReportKeeps ==
    ASSUME IInv, MoreInv, NodeInv, ObsInv, AnswerInv, ReadReport, UNCHANGED <<vars, node>>
    PROVE  ObsInv' /\ AnswerInv'
<1>1. /\ obs.at = "report" /\ obs.at \in Looking /\ obs \in Observers /\ obs.attempt \in Attempts
      /\ obs.live <= 0 => Barred(obs.attempt)
  BY DEF ReadReport, ObsInv, Observers, Looking
<1> DEFINE a == obs.attempt
<1>2. ASSUME NEW status \in Reported(a, obs.pid), Ended(status),
             Deliver([Summary(a) EXCEPT !.engine = "STOPPED", !.ready = "STOPPED",
                                        !.outcome = "SUCCEEDED"])
      PROVE  ObsInv' /\ AnswerInv'
  <2> DEFINE s == [Summary(a) EXCEPT !.engine = "STOPPED", !.ready = "STOPPED",
                                     !.outcome = "SUCCEEDED"]
  <2>1. s \in Summaries /\ s.ready = "STOPPED" /\ s.engine = "STOPPED" /\ s.attempt = a
    BY <1>1 DEF Summary, Summaries, Sources
  <2>2. execs[a] = 1
    <3>1. ReportStatus(rows[a], obs.pid) = "STOPPED"
      BY <1>2 DEF Ended, Reported
    <3>2. rows[a] # <<>>
      BY <1>1, <3>1, StoppedHasRows DEF NodeInv
    <3> QED
      BY <1>1, <3>2 DEF NodeInv, MoreInv, Ran
  <2>3. Over(a)
    <3>1. Barred(a)
      BY <1>1, <1>2 DEF Ended
    <3>2. \A t \in survives : t.attempt = a => t.phase # "StartPrepared"
      BY <2>2, StateTypes DEF Recorded
    <3> QED
      BY <3>1, <3>2 DEF Over, Barred, Beyond
  <2> HIDE DEF s
  <2>4. Fitting(s)
    BY <2>1, <2>3 DEF Fitting, Sure
  <2> QED
    BY <1>2, <2>4, DeliverSettles, SettlesKeeps DEF s
<1>3. ASSUME NEW status,
             Deliver([Summary(a) EXCEPT !.engine = Class(status),
                          !.outcome = IF status = "FAILED" THEN "FAILED" ELSE "UNKNOWN"])
      PROVE  ObsInv' /\ AnswerInv'
  <2> DEFINE e == Class(status)
             o == IF status = "FAILED" THEN "FAILED" ELSE "UNKNOWN"
             s == [Summary(a) EXCEPT !.engine = e, !.outcome = o]
  <2>1. e \in {"STOPPED", "FAILED", "UNKNOWN", "ACTIVE"} /\ o \in {"FAILED", "UNKNOWN"}
    BY DEF Class
  <2>2. Deliver(s)
    BY <1>3
  <2> HIDE DEF e, o
  <2>3. s \in Summaries /\ s.ready = "OPEN" /\ s.engine # "GATE_REFUSED"
    BY <1>1, <2>1 DEF Summary, Summaries, Sources
  <2> QED
    BY <2>2, <2>3, SaysLittle
<1>4. CASE Continue([obs EXCEPT !.at = "bootstrap", !.busy = FALSE, !.live = 0])
  <2>1. /\ obs' \in Observers /\ obs'.at = "bootstrap" /\ obs'.attempt = a /\ obs'.last = obs.last
    <3>1. "bootstrap" \in Looking
      BY DEF Looking
    <3> DEFINE b == FALSE
               i == 0
               o == [obs EXCEPT !.at = "bootstrap", !.busy = b, !.live = i]
    <3>2. b \in BOOLEAN /\ i \in Int /\ obs' = o
      BY <1>4 DEF Continue
    <3> HIDE DEF b, i
    <3> QED
      BY <1>1, <3>1, <3>2 DEF Observers
  <2>2. "bootstrap" \notin {"health", "again", "lock", "job", "report"} \cup Seconds
    BY DEF Seconds
  <2>3. ObsInv'
    BY <1>1, <2>1, <2>2, ServiceAssumption DEF ObsInv
  <2> QED
    BY <1>4, <2>3, AnswerKept DEF Continue
<1> QED
  BY <1>2, <1>3, <1>4 DEF ReadReport

\* A look that goes on with what it has learnt.
LEMMA ContinueKeeps ==
    ASSUME ObsInv, AnswerInv, UNCHANGED <<vars, node>>, obs.at \in Looking,
           NEW p \in {"health", "again"} \cup Seconds, NEW f \in Sources,
           Continue([obs EXCEPT !.at = p, !.from = f]),
           report[obs.attempt] \in Late,
           p = "again" => f = obs.attempt \/ listener # obs.attempt,
           p \in Seconds => f = obs.attempt
    PROVE  ObsInv' /\ AnswerInv'
<1>1. p \in Looking /\ p \notin {"lock", "job", "report"}
  BY DEF Looking, Seconds
<1>2. /\ obs' \in Observers /\ obs'.at = p /\ obs'.attempt = obs.attempt
      /\ obs'.from = f /\ obs'.last = obs.last
  BY <1>1 DEF ObsInv, Continue, Observers
<1>3. ObsInv'
  BY <1>1, <1>2 DEF ObsInv, vars, node
<1> QED
  BY <1>3, AnswerKept DEF Continue

LEMMA SecondLookKeeps ==
    ASSUME IInv, NodeInv, ObsInv, AnswerInv, UNCHANGED <<vars, node>>,
           ReadBootstrap \/ ReadHealth \/ ReadBootstrapAgain \/ ReadJobAgain \/ ReadLockAgain
    PROVE  ObsInv' /\ AnswerInv'
<1>1. obs.at \in {"bootstrap", "health", "again", "jobAgain", "lockAgain"} /\ obs.at \in Looking
  BY DEF ReadBootstrap, ReadHealth, ReadBootstrapAgain, ReadJobAgain, ReadLockAgain, Looking, Seconds
<1>2. /\ obs \in Observers /\ obs.attempt \in Attempts /\ obs.from \in Sources
      /\ obs = [obs EXCEPT !.from = obs.from]
  BY <1>1 DEF ObsInv, Observers
<1>3. CASE Unconfirmed
  BY <1>1, <1>3, UnconfirmedKeeps
<1>4. ASSUME NEW p, Continue([obs EXCEPT !.at = p])
      PROVE  Continue([obs EXCEPT !.at = p, !.from = obs.from])
  BY <1>2, <1>4 DEF Continue, Observers
<1>5. CASE ReadBootstrap /\ ~Unconfirmed
  <2>1. listener = obs.attempt /\ Continue([obs EXCEPT !.at = "health"])
    BY <1>5 DEF ReadBootstrap, IsOurs
  <2>2. report[obs.attempt] \in Late
    BY <1>2, <2>1 DEF NodeInv
  <2>3. "health" \notin Seconds
    BY DEF Seconds
  <2> QED
    BY <1>1, <1>2, <1>4, <2>1, <2>2, <2>3, ContinueKeeps
<1>6. CASE ReadHealth /\ ~Unconfirmed
  <2>1. PICK s \in Servers : Continue([obs EXCEPT !.at = "again", !.from = s])
    BY <1>6 DEF ReadHealth
  <2>2. report[obs.attempt] \in Late
    BY <1>6 DEF ReadHealth, ObsInv
  <2>3. s \in Sources /\ (s = obs.attempt \/ listener # obs.attempt)
    BY <1>2, ServiceAssumption DEF Servers, Sources, NodeInv
  <2>4. "again" \notin Seconds
    BY DEF Seconds
  <2> QED
    BY <1>1, <2>1, <2>2, <2>3, <2>4, ContinueKeeps
<1>7. CASE ReadBootstrapAgain /\ ~Unconfirmed
  <2>1. listener = obs.attempt /\ Continue([obs EXCEPT !.at = "jobAgain"])
    BY <1>7 DEF ReadBootstrapAgain, StillOurs, IsOurs
  <2>2. report[obs.attempt] \in Late /\ obs.from = obs.attempt
    BY <1>7, <2>1 DEF ReadBootstrapAgain, ObsInv
  <2>3. "jobAgain" \in Seconds
    BY DEF Seconds
  <2> QED
    BY <1>1, <1>2, <1>4, <2>1, <2>2, <2>3, ContinueKeeps
<1>8. CASE (ReadJobAgain \/ ReadLockAgain) /\ ~Unconfirmed
  <2>1. PICK p \in {"lockAgain", "reportAgain"} : Continue([obs EXCEPT !.at = p])
    BY <1>8 DEF ReadJobAgain, ReadLockAgain
  <2>2. obs.at \in Seconds /\ p \in Seconds /\ p # "again"
    BY <1>8 DEF ReadJobAgain, ReadLockAgain, Seconds
  <2>3. report[obs.attempt] \in Late /\ obs.from = obs.attempt
    BY <2>2 DEF ObsInv
  <2> QED
    BY <1>1, <1>2, <1>4, <2>1, <2>2, <2>3, ContinueKeeps
<1> QED
  BY <1>3, <1>5, <1>6, <1>7, <1>8

\* READY: who served the document is the attempt, and the document was checked.
LEMMA ReadReportAgainKeeps ==
    ASSUME IInv, ObsInv, AnswerInv, ReadReportAgain, UNCHANGED <<vars, node>>
    PROVE  ObsInv' /\ AnswerInv'
<1>1. obs.at \in Seconds /\ obs.at \in Looking
  BY DEF ReadReportAgain, Seconds, Looking
<1>2. obs \in Observers /\ obs.attempt \in Attempts /\ obs.from = obs.attempt
  BY <1>1 DEF ObsInv, Observers
<1>3. CASE Unconfirmed
  BY <1>1, <1>3, UnconfirmedKeeps
<1>4. ASSUME NEW v \in Verdicts,
             Deliver([Summary(obs.attempt) EXCEPT !.engine = "ACTIVE", !.ready = v.ready,
                         !.outcome = Outcome(v.ready), !.sound = v.sound,
                         !.from = IF v.ready = "READY" THEN obs.from ELSE None])
      PROVE  ObsInv' /\ AnswerInv'
  <2> DEFINE o == Outcome(v.ready)
             f == IF v.ready = "READY" THEN obs.from ELSE None
             r == v.ready
             d == v.sound
             s == [Summary(obs.attempt) EXCEPT !.engine = "ACTIVE", !.ready = r, !.outcome = o,
                                               !.sound = d, !.from = f]
  <2>1. /\ r \in {"OPEN", "READY", "FAILED"} /\ d \in BOOLEAN /\ (r = "READY" => d)
        /\ o \in {"SUCCEEDED", "FAILED", "UNKNOWN"}
        /\ f \in Sources /\ (r = "READY" => f = obs.attempt)
    BY <1>2, VerdictsSound DEF Outcome, Sources
  <2>2. Deliver(s)
    BY <1>4
  <2> HIDE DEF o, f, r, d
  <2>3. /\ s \in Summaries /\ s.ready = r /\ s.engine = "ACTIVE" /\ s.sound = d /\ s.from = f
        /\ s.attempt = obs.attempt /\ s.old = FALSE
    BY <1>2, <2>1 DEF Summary, Summaries, Sources
  <2> HIDE DEF s
  <2>4. Fitting(s)
    BY <2>1, <2>3 DEF Fitting, Sure, Commits
  <2> QED
    BY <2>2, <2>4, DeliverSettles, SettlesKeeps
<1> QED
  BY <1>3, <1>4 DEF ReadReportAgain

LEMMA StatusKeeps ==
    ASSUME IInv, MoreInv, NodeInv, ObsInv, AnswerInv, StatusStep
    PROVE  ObsInv' /\ AnswerInv'
<1>1. UNCHANGED <<vars, node>>
  BY DEF StatusStep
<1>2. CASE LookFails
  BY <1>1, <1>2, EmptySummary, FailureSettles, SettlesKeeps DEF LookFails
<1>3. CASE Finish
  <2>1. obs.last \in Summaries /\ Plain(obs.last) /\ Answer(obs.last)
    BY <1>3 DEF Finish, ObsInv, Observers
  <2> QED
    BY <1>1, <2>1, AnswerSettles, SettlesKeeps DEF Plain, Sure, Commits
<1>4. ASSUME NEW pin \in used \cup {None}, Begin(pin) PROVE ObsInv' /\ AnswerInv'
  <2>1. obs' = [Off EXCEPT !.at = "journal", !.pin = pin] /\ UNCHANGED answer
    BY <1>4 DEF Begin, Continue
  <2>2. pin \in Attempts \cup {None}
    BY <1>4 DEF IInv, Types
  <2>3. Beginning(obs')
    BY <2>1, <2>2, OffIs DEF Beginning, Observers
  <2> QED
    BY <1>1, <2>1, <2>3, BeginningKeeps, AnswerKept
<1>5. CASE Forget
  <2>1. answer' = NoSummary /\ obs' = obs
    BY <1>5 DEF Forget
  <2>2. AnswerInv'
    BY <2>1, EmptySummary DEF AnswerInv
  <2>3. ObsInv'
    BY <1>1, <2>1, SameService DEF ObsInv, vars, node
  <2> QED
    BY <2>2, <2>3
<1> QED
  BY <1>1, <1>2, <1>3, <1>4, <1>5, ReadJournalKeeps, ReadLockKeeps, ReadJobKeeps, ReadReportKeeps,
     SecondLookKeeps, ReadReportAgainKeeps DEF StatusStep, Look

\* What an observer has read and said outlasts the steps of everybody else.
LEMMA WatchKeeps ==
    ASSUME IInv, NodeInv, ObsInv, AnswerInv, ServiceStep \/ OutsideStep, UNCHANGED watch
    PROVE  ObsInv' /\ AnswerInv'
<1>1. obs' = obs /\ answer' = answer
  BY DEF watch
<1>2. Moves /\ (ListenerFollows \/ UNCHANGED listener \/ listener' = None)
  <2>1. CASE ServiceStep
    BY <2>1, ProcessMoves DEF ServiceStep
  <2>2. CASE OutsideStep
    BY <2>2, OutsideMoves DEF OutsideStep, EngineFails, EngineCrash, EngineUnbinds
  <2> QED
    BY <2>1, <2>2
<1>3. \A a \in Attempts :
        /\ Over(a) => Over(a)'
        /\ Beyond(a) => Beyond(a)'
        /\ Barred(a) => Barred(a)'
        /\ report[a] \in Late => report'[a] \in Late
        /\ report[a] \in Late /\ listener # a => listener' # a
  BY <1>2, OverStays, BeyondStays, BarredStays, LateStays, PortKeeps
<1>4. AnswerInv'
  <2>1. Commits(answer) => Over(answer.attempt)'
    <3>1. CASE answer.attempt \in Attempts
      BY <1>1, <1>3, <3>1 DEF AnswerInv
    <3>2. CASE answer.attempt \notin Attempts
      <4>1. answer.attempt = None /\ None \notin used
        BY <3>2, ServiceAssumption DEF AnswerInv, Summaries, IInv, Types
      <4> QED
        BY <4>1 DEF AnswerInv, Over, Unclaimed
    <3> QED
      BY <3>1, <3>2
  <2> QED
    BY <1>1, <2>1 DEF AnswerInv
<1>5. ObsInv'
  <2>1. obs.attempt # None => obs.attempt \in Attempts
    BY DEF ObsInv, Observers
  <2>2. obs.at \in {"job", "report", "health", "again"} \cup Seconds => obs.at \in Looking
    BY DEF Looking
  <2>3. obs.at \in {"lock", "job"} /\ obs.attempt # None =>
          /\ obs.phase = "GateRefused" => Over(obs.attempt)'
          /\ obs.phase \notin {"GateRefused", "StartPrepared"} => Beyond(obs.attempt)'
    BY <1>1, <1>3, <2>1 DEF ObsInv
  <2>4. obs.at = "report" /\ obs.live <= 0 => Barred(obs.attempt)'
    BY <1>1, <1>3, <2>1, <2>2 DEF ObsInv
  <2>5. obs.at \in {"health", "again"} \cup Seconds => report'[obs.attempt] \in Late
    BY <1>1, <1>3, <2>1, <2>2 DEF ObsInv
  <2>6. obs.at = "again" => obs.from = obs.attempt \/ listener' # obs.attempt
    BY <1>1, <1>3, <2>1, <2>2 DEF ObsInv
  <2> QED
    BY <1>1, <2>3, <2>4, <2>5, <2>6 DEF ObsInv
<1> QED
  BY <1>4, <1>5

\* Nobody is looking after a power loss, and what was said of an end stays true.
LEMMA WatchEnds ==
    ASSUME IInv, ObsInv, AnswerInv, PowerLoss, AllEnd
    PROVE  ObsInv' /\ AnswerInv'
<1>1. ObsInv'
  BY OffIs, BeginningKeeps DEF AllEnd
<1>2. Commits(answer) => Over(answer.attempt)'
  <2>1. CASE answer.attempt \in Attempts
    <3>1. \A a \in Attempts : Over(a) => Over(a)'
      BY OverStays
    <3> QED
      BY <2>1, <3>1 DEF AnswerInv, AllEnd
  <2>2. CASE answer.attempt \notin Attempts
    <3>1. answer.attempt = None /\ None \notin used
      BY <2>2, ServiceAssumption DEF AnswerInv, Summaries, IInv, Types
    <3> QED
      BY <3>1 DEF AnswerInv, Over, Unclaimed
  <2> QED
    BY <2>1, <2>2
<1> QED
  BY <1>1, <1>2 DEF AllEnd, AnswerInv

-----------------------------------------------------------------------------
(* The collector.                                                          *)

Budget(d) == d.left + d.kept + d.bytes

\* A read leaves everything but the budget alone, spends no more than there is and may
\* make the evidence partial.
Spends(d, e) ==
    /\ e \in Collectors /\ Budget(e) <= Budget(d) /\ e.kept = d.kept
    /\ e.at = d.at /\ e.record = d.record /\ e.fits = d.fits /\ e.path = d.path
    /\ d.partial => e.partial

LEMMA SmallerIs ==
    ASSUME NEW x \in Nat, NEW y \in Nat
    PROVE  Smaller(x, y) \in Nat /\ Smaller(x, y) <= x
BY DEF Smaller

LEMMA IncompleteSpends ==
    ASSUME NEW d \in Collectors
    PROVE  Spends(d, Incomplete(d)) /\ Incomplete(d).partial /\ Incomplete(d).left = d.left
<1> DEFINE b == TRUE
           e == [d EXCEPT !.partial = b]
<1>1. b \in BOOLEAN /\ b /\ Incomplete(d) = e
  BY DEF Incomplete
<1> HIDE DEF b
<1>2. /\ e \in Collectors /\ e.kept = d.kept /\ e.left = d.left /\ e.bytes = d.bytes
      /\ e.at = d.at /\ e.record = d.record /\ e.fits = d.fits /\ e.path = d.path /\ e.partial = b
  BY <1>1 DEF Collectors
<1>3. Budget(e) = Budget(d) /\ Budget(d) \in Nat
  BY <1>2 DEF Budget, Collectors
<1> HIDE DEF e
<1> QED
  BY <1>1, <1>2, <1>3 DEF Spends

LEMMA ChargedSpends ==
    ASSUME NEW d \in Collectors, NEW n \in Nat, n <= d.left
    PROVE  Spends(d, Charged(d, n))
<1> DEFINE e == Charged(d, n)
<1>1. d.left - n \in Nat /\ d.bytes + n \in Nat
  BY DEF Collectors
<1>2. /\ e \in Collectors /\ e.kept = d.kept /\ e.left = d.left - n /\ e.bytes = d.bytes + n
      /\ e.at = d.at /\ e.record = d.record /\ e.fits = d.fits /\ e.path = d.path
      /\ e.partial = d.partial
  BY <1>1 DEF Charged, Collectors
<1>3. Budget(e) <= Budget(d)
  BY <1>1, <1>2 DEF Budget, Collectors
<1> HIDE DEF e
<1>4. Spends(d, e)
  BY <1>2, <1>3 DEF Spends
<1> QED
  BY <1>4 DEF e

LEMMA SpendsOn ==
    ASSUME NEW d \in Collectors, NEW e, NEW f, Spends(d, e), Spends(e, f)
    PROVE  Spends(d, f)
<1>1. Budget(d) \in Int /\ Budget(e) \in Int /\ Budget(f) \in Int
  BY DEF Budget, Spends, Collectors
<1> QED
  BY <1>1 DEF Spends

LEMMA SpentSpends ==
    ASSUME NEW d \in Collectors, NEW limit \in Nat
    PROVE  Spends(d, Spent(d, limit)) /\ Spent(d, limit).partial
<1> DEFINE n == Smaller(d.left, limit)
           e == [d EXCEPT !.left = d.left - n]
<1>1. d.left \in Nat /\ n \in Nat /\ n <= d.left
  BY SmallerIs DEF Collectors
<1>2. Spent(d, limit) = Incomplete(e)
  BY DEF Spent
<1> HIDE DEF n
<1>3. Spends(d, e)
  <2>1. d.left - n \in Nat
    BY <1>1
  <2>2. /\ e \in Collectors /\ e.kept = d.kept /\ e.left = d.left - n /\ e.bytes = d.bytes
        /\ e.at = d.at /\ e.record = d.record /\ e.fits = d.fits /\ e.path = d.path
        /\ e.partial = d.partial
    BY <2>1 DEF Collectors
  <2>3. Budget(e) <= Budget(d)
    BY <1>1, <2>2 DEF Budget, Collectors
  <2> HIDE DEF e
  <2> QED
    BY <2>2, <2>3 DEF Spends
<1>4. e \in Collectors
  BY <1>3 DEF Spends
<1> HIDE DEF e
<1> QED
  BY <1>2, <1>3, <1>4, IncompleteSpends, SpendsOn

LEMMA CollectSpends ==
    ASSUME NEW d \in Collectors, NEW size \in Nat, NEW limit \in Nat
    PROVE  Spends(d, Collect(d, size, limit))
<1> DEFINE cap == Smaller(d.left, limit)
<1>1. d.left \in Nat /\ cap \in Nat /\ cap <= d.left
  BY SmallerIs DEF Collectors
<1>2. Collect(d, size, limit) = IF d.left = 0 THEN Incomplete(d)
        ELSE IF size > cap THEN Incomplete(Charged(d, cap)) ELSE Charged(d, size)
  BY DEF Collect
<1> HIDE DEF cap
<1>3. Spends(d, Incomplete(d))
  BY IncompleteSpends
<1>4. Spends(d, Incomplete(Charged(d, cap)))
  <2>1. Spends(d, Charged(d, cap)) /\ Charged(d, cap) \in Collectors
    BY <1>1, ChargedSpends DEF Spends
  <2> QED
    BY <2>1, IncompleteSpends, SpendsOn
<1>5. size <= cap => Spends(d, Charged(d, size))
  BY <1>1, ChargedSpends
<1>6. size > cap \/ size <= cap
  BY <1>1
<1> QED
  BY <1>2, <1>3, <1>4, <1>5, <1>6

LEMMA CollectJournalSpends ==
    ASSUME NEW d \in Collectors
    PROVE  Spends(d, CollectJournal(d))
<1>1. d.left \in Nat
  BY DEF Collectors
<1>2. 1 \in Nat /\ (d.left # 0 => 1 <= d.left)
  BY <1>1
<1>3. d.left # 0 => Spends(d, Charged(d, 1))
  BY <1>2, ChargedSpends
<1> QED
  BY <1>3, IncompleteSpends DEF CollectJournal

LEMMA RestingIs ==
    /\ Resting \in Collectors /\ Budget(Resting) = 0 /\ Resting.at = "off" /\ Resting.fits
    /\ Resting.kept = 0 /\ Resting.bytes = 0 /\ Resting.left = 0
<1>1. Resting \in Collectors
  BY DEF Resting, Collectors, DiagPlaces, NoRuntime, Runtimes, RuntimePhases
<1> QED
  BY <1>1 DEF Resting, Budget

LEMMA LimitsAre == MaxBytes \in Nat /\ RecordLimit \in Nat /\ EventLimit \in Nat
BY DiagnosisAssumption

LEMMA DiagBeginKeeps ==
    ASSUME DiagBegin
    PROVE  DiagInv'
<1> DEFINE w == [Resting EXCEPT !.at = "journal", !.left = MaxBytes]
           d == Collect(w, 1, RecordLimit)
           r == Smaller(d.bytes, d.left)
           e == [d EXCEPT !.left = d.left - r, !.kept = r]
           f == CollectJournal(e)
           g == Collect(f, 1, EventLimit)
<1>1. /\ w \in Collectors /\ Budget(w) = MaxBytes /\ w.at = "journal" /\ w.fits = Resting.fits
      /\ w.kept = 0
  <2>1. "journal" \in DiagPlaces
    BY DEF DiagPlaces
  <2>2. /\ w \in Collectors /\ w.at = "journal" /\ w.fits = Resting.fits /\ w.left = MaxBytes
        /\ w.kept = 0 /\ w.bytes = 0
    BY <2>1, RestingIs, LimitsAre DEF Collectors
  <2> HIDE DEF w
  <2> QED
    BY <2>2, LimitsAre DEF Budget
<1>2. diag' = g
  BY DEF DiagBegin, Started
<1> HIDE DEF w
<1>3. Spends(w, d) /\ d \in Collectors
  <2>1. Spends(w, d)
    BY <1>1, CollectSpends, LimitsAre
  <2> HIDE DEF d
  <2> QED
    BY <2>1 DEF Spends
<1> HIDE DEF d
<1>4. r \in Nat /\ r <= d.left /\ d.left - r \in Nat /\ d.kept = 0
  <2>1. d.bytes \in Nat /\ d.left \in Nat /\ d.kept = 0
    BY <1>1, <1>3 DEF Collectors, Spends
  <2>2. r \in Nat
    BY <2>1 DEF Smaller
  <2>3. r <= d.left
    BY <2>1 DEF Smaller
  <2> QED
    BY <2>1, <2>2, <2>3
<1> HIDE DEF r
<1>5. /\ e \in Collectors /\ e.at = d.at /\ e.fits = d.fits /\ e.left = d.left - r /\ e.kept = r
      /\ e.bytes = d.bytes
  BY <1>3, <1>4 DEF Collectors
<1> HIDE DEF e
<1>6. Budget(e) = Budget(d)
  BY <1>3, <1>4, <1>5 DEF Budget, Collectors
<1>7. Spends(e, f) /\ Spends(f, g)
  <2>1. Spends(e, f)
    BY <1>5, CollectJournalSpends
  <2>2. f \in Collectors
    BY <2>1 DEF Spends
  <2> HIDE DEF f
  <2>3. Spends(f, g)
    BY <2>2, CollectSpends, LimitsAre
  <2> QED
    BY <2>1, <2>3 DEF f
<1> HIDE DEF f, g
<1>8. /\ Budget(w) \in Int /\ Budget(d) \in Int /\ Budget(e) \in Int /\ Budget(f) \in Int
      /\ Budget(g) \in Int
  BY <1>1, <1>3, <1>5, <1>7 DEF Budget, Spends, Collectors
<1>9. Budget(g) <= MaxBytes
  BY <1>1, <1>3, <1>6, <1>7, <1>8, LimitsAre DEF Spends
<1>10. g \in Collectors /\ g.at = "journal" /\ g.fits
  BY <1>1, <1>3, <1>5, <1>7, RestingIs DEF Spends
<1> QED
  BY <1>2, <1>9, <1>10 DEF DiagInv, Budget, Collecting

LEMMA Within ==
    ASSUME NEW d \in Collectors, NEW e, Spends(d, e), Budget(d) <= MaxBytes,
           NEW f, f.left = e.left, f.kept = e.kept, f.bytes = e.bytes
    PROVE  Budget(f) <= MaxBytes
<1>1. Budget(f) = Budget(e) /\ Budget(e) \in Int /\ Budget(d) \in Int
  BY DEF Budget, Spends, Collectors
<1> QED
  BY <1>1, LimitsAre DEF Spends

\* Nothing of it is about the service: the collector is not between its two looks at the journal.
LEMMA AtEaseKeeps ==
    ASSUME NEW d \in Collectors, diag' = d, d.at \notin Collecting, Budget(d) <= MaxBytes,
           d.fits \/ d.partial, d.at = "written" => d.path = "ours"
    PROVE  DiagInv'
BY DEF DiagInv, Budget, Collecting

LEMMA DiagJournalKeeps ==
    ASSUME IInv, DiagInv, DiagJournal, UNCHANGED <<vars, node>>
    PROVE  DiagInv'
<1>1. /\ diag.at = "journal" /\ diag \in Collectors /\ Budget(diag) <= MaxBytes
      /\ diag.fits \/ diag.partial
  BY DEF DiagJournal, DiagInv, Budget
<1>2. diag.record \in Runtimes /\ diag.fits \in BOOLEAN /\ runtime \in Runtimes
  BY <1>1, StateTypes DEF Collectors
<1>3. /\ {"second", "events"} \subseteq DiagPlaces /\ "second" \notin Collecting
      /\ "events" \in Collecting
  BY DEF DiagPlaces, Collecting
<1>4. CASE diag' = [diag EXCEPT !.at = "second"]
  <2> DEFINE d == [diag EXCEPT !.at = "second"]
  <2>1. /\ d \in Collectors /\ d.at = "second" /\ d.left = diag.left /\ d.kept = diag.kept
        /\ d.bytes = diag.bytes /\ d.fits = diag.fits /\ d.partial = diag.partial
    BY <1>1, <1>3 DEF Collectors
  <2> HIDE DEF d
  <2>2. Budget(d) = Budget(diag)
    BY <2>1 DEF Budget
  <2> QED
    BY <1>1, <1>3, <1>4, <2>1, <2>2, AtEaseKeeps DEF d
<1>5. CASE diag' = [Spent(diag, RecordLimit) EXCEPT !.at = "second"]
  <2> DEFINE e == Spent(diag, RecordLimit)
             d == [e EXCEPT !.at = "second"]
  <2>1. Spends(diag, e) /\ e.partial
    BY <1>1, SpentSpends, LimitsAre
  <2>2. diag' = d
    BY <1>5
  <2> HIDE DEF e
  <2>3. /\ d \in Collectors /\ d.at = "second" /\ d.left = e.left /\ d.kept = e.kept
        /\ d.bytes = e.bytes /\ d.partial = e.partial
    BY <1>3, <2>1 DEF Collectors, Spends
  <2> HIDE DEF d
  <2>4. Budget(d) <= MaxBytes
    BY <1>1, <2>1, <2>3, Within
  <2> QED
    BY <1>3, <2>1, <2>2, <2>3, <2>4, AtEaseKeeps
<1>6. CASE /\ runtime.phase \notin {"None", "Empty"}
           /\ diag' = [CollectJournal(diag) EXCEPT !.at = "events", !.record = runtime]
  <2> DEFINE e == CollectJournal(diag)
             d == [e EXCEPT !.at = "events", !.record = runtime]
  <2>1. Spends(diag, e)
    BY <1>1, CollectJournalSpends
  <2>2. diag' = d
    BY <1>6
  <2> HIDE DEF e
  <2>3. /\ d \in Collectors /\ d.at = "events" /\ d.left = e.left /\ d.kept = e.kept
        /\ d.bytes = e.bytes /\ d.partial = e.partial /\ d.record = runtime /\ d.fits = e.fits
    BY <1>2, <1>3, <2>1 DEF Collectors, Spends
  <2>4. e.fits = diag.fits /\ (diag.partial => e.partial)
    BY <2>1 DEF Spends
  <2> HIDE DEF d
  <2>5. Budget(d) <= MaxBytes
    BY <1>1, <2>1, <2>3, Within
  <2>6. runtime.attempt \in Attempts
    BY <1>2, <1>6, StateTypes DEF Recorded, Runtimes
  <2>7. runtime' = runtime
    BY DEF vars
  <2> QED
    BY <1>1, <1>6, <2>2, <2>3, <2>4, <2>5, <2>6, <2>7 DEF DiagInv, Budget
<1> QED
  BY <1>4, <1>5, <1>6 DEF DiagJournal

LEMMA DiagEventsKeeps ==
    ASSUME IInv, NodeInv, DiagInv, DiagEvents, UNCHANGED <<vars, node>>
    PROVE  DiagInv'
<1>1. /\ diag.at = "events" /\ diag \in Collectors /\ Budget(diag) <= MaxBytes
      /\ diag.fits \/ diag.partial
  BY DEF DiagEvents, DiagInv, Budget
<1>2. /\ diag.record.phase \notin {"None", "Empty"} /\ diag.record.attempt \in Attempts
      /\ diag.record = runtime \/ diag.record.rev < runtime.rev
  BY <1>1 DEF DiagInv, Collecting
<1>3. "recheck" \in DiagPlaces /\ "recheck" # "written" /\ runtime' = runtime
  BY DEF DiagPlaces, Collecting, vars
<1> DEFINE lines == rows[diag.record.attempt]
           d == Collect(diag, Len(lines), EventLimit)
           e == IF Projected(lines) THEN d ELSE Incomplete(d)
           s == Spent(diag, EventLimit)
           f == [e EXCEPT !.at = "recheck", !.fits = e.partial \/ runtime = diag.record]
           g == [s EXCEPT !.at = "recheck"]
<1>4. diag' = f \/ diag' = g
  BY DEF DiagEvents
<1>5. Spends(diag, e)
  <2>1. Len(lines) \in Nat
    BY <1>2 DEF NodeInv
  <2> HIDE DEF lines
  <2>2. Spends(diag, d)
    BY <1>1, <2>1, CollectSpends, LimitsAre
  <2>3. d \in Collectors
    BY <2>2 DEF Spends
  <2> HIDE DEF d
  <2>4. Spends(diag, Incomplete(d))
    BY <1>1, <2>2, <2>3, IncompleteSpends, SpendsOn
  <2> QED
    BY <2>2, <2>4
<1>6. Spends(diag, s) /\ s.partial
  BY <1>1, SpentSpends, LimitsAre
<1> HIDE DEF e, s
<1>7. CASE diag' = f
  <2> DEFINE b == e.partial \/ runtime = diag.record
             h == [e EXCEPT !.at = "recheck", !.fits = b]
  <2>1. b \in BOOLEAN /\ diag' = h
    BY <1>7
  <2>2. b \/ diag.record # runtime
    OBVIOUS
  <2> HIDE DEF b
  <2>3. /\ h \in Collectors /\ h.at = "recheck" /\ h.left = e.left /\ h.kept = e.kept
        /\ h.bytes = e.bytes /\ h.record = e.record /\ h.fits = b
    BY <1>3, <1>5, <2>1 DEF Collectors, Spends
  <2> HIDE DEF h
  <2>4. Budget(h) <= MaxBytes
    BY <1>1, <1>5, <2>3, Within
  <2>5. h.record = diag.record
    BY <1>5, <2>3 DEF Spends
  <2> QED
    BY <1>2, <1>3, <2>1, <2>2, <2>3, <2>4, <2>5 DEF DiagInv, Budget
<1>8. CASE diag' = g
  <2>1. /\ g \in Collectors /\ g.at = "recheck" /\ g.left = s.left /\ g.kept = s.kept
        /\ g.bytes = s.bytes /\ g.record = s.record /\ g.partial = s.partial
    BY <1>3, <1>6 DEF Collectors, Spends
  <2> HIDE DEF g
  <2>2. Budget(g) <= MaxBytes
    BY <1>1, <1>6, <2>1, Within
  <2>3. g.record = diag.record
    BY <1>6, <2>1 DEF Spends
  <2> QED
    BY <1>2, <1>3, <1>6, <1>8, <2>1, <2>2, <2>3 DEF DiagInv, Budget
<1> QED
  BY <1>4, <1>7, <1>8

\* The second look: a journal that is the recorded one has been it all along.
LEMMA DiagRecheckKeeps ==
    ASSUME IInv, DiagInv, DiagRecheck, UNCHANGED <<vars, node>>
    PROVE  DiagInv'
<1>1. /\ diag.at = "recheck" /\ diag \in Collectors /\ Budget(diag) <= MaxBytes
      /\ diag.fits \/ diag.partial \/ diag.record.rev < runtime.rev
  BY DEF DiagRecheck, DiagInv, Budget
<1>2. runtime.rev \in Nat /\ NoRuntime \in Runtimes
  BY StateTypes DEF Runtimes, RuntimePhases, NoRuntime
<1> DEFINE e == IF diag.left = 0 THEN Incomplete(diag)
                ELSE IF SameJournal(diag) THEN CollectJournal(diag) ELSE Spent(diag, RecordLimit)
           f == [e EXCEPT !.at = "second", !.record = NoRuntime]
<1>3. Spends(diag, e) /\ (e.fits \/ e.partial)
  <2>1. CASE diag.left = 0
    BY <1>1, <2>1, IncompleteSpends
  <2>2. CASE diag.left # 0 /\ SameJournal(diag)
    <3>1. diag.fits \/ diag.partial
      BY <1>1, <1>2, <2>2 DEF SameJournal
    <3>2. e = CollectJournal(diag)
      BY <2>2
    <3> HIDE DEF e
    <3>3. Spends(diag, e)
      BY <1>1, <3>2, CollectJournalSpends
    <3> QED
      BY <3>1, <3>3 DEF Spends
  <2>3. CASE diag.left # 0 /\ ~SameJournal(diag)
    BY <1>1, <2>3, SpentSpends, LimitsAre
  <2> QED
    BY <2>1, <2>2, <2>3
<1>4. diag' = f
  BY DEF DiagRecheck
<1> HIDE DEF e
<1>5. /\ "second" \in DiagPlaces
      /\ "second" \notin Collecting /\ "second" # "written"
  BY DEF DiagPlaces, Collecting
<1>6. /\ f \in Collectors /\ f.at = "second" /\ f.left = e.left /\ f.kept = e.kept
      /\ f.bytes = e.bytes /\ f.fits = e.fits /\ f.partial = e.partial
  BY <1>2, <1>3, <1>5 DEF Collectors, Spends
<1> HIDE DEF f
<1>7. Budget(f) <= MaxBytes
  BY <1>1, <1>3, <1>6, Within
<1> QED
  BY <1>3, <1>4, <1>5, <1>6, <1>7, AtEaseKeeps

LEMMA DiagSecondKeeps ==
    ASSUME DiagInv, DiagSecond
    PROVE  DiagInv'
<1>1. /\ diag.at = "second" /\ diag \in Collectors /\ Budget(diag) <= MaxBytes
      /\ diag.fits \/ diag.partial
  BY DEF DiagSecond, DiagInv, Budget
<1> DEFINE d == CollectJournal(diag)
           k == [d EXCEPT !.left = d.left + d.kept, !.kept = 0]
           e == Collect(k, 1, RecordLimit)
<1>2. PICK late \in BOOLEAN :
        diag' = [e EXCEPT !.at = "collected", !.partial = e.partial \/ late, !.left = 0,
                          !.fits = e.fits \/ e.partial \/ late]
  BY DEF DiagSecond
<1>3. Spends(diag, d) /\ d \in Collectors
  <2>1. Spends(diag, d)
    BY <1>1, CollectJournalSpends
  <2> HIDE DEF d
  <2> QED
    BY <2>1 DEF Spends
<1> HIDE DEF d
<1>4. /\ k \in Collectors /\ k.left = d.left + d.kept /\ k.kept = 0 /\ k.bytes = d.bytes
      /\ k.fits = d.fits /\ k.partial = d.partial /\ k.at = d.at
  <2>1. d.left + d.kept \in Nat
    BY <1>3 DEF Collectors
  <2> QED
    BY <1>3, <2>1 DEF Collectors
<1> HIDE DEF k
<1>5. Spends(k, e)
  BY <1>4, CollectSpends, LimitsAre
<1> HIDE DEF e
<1>6. e \in Collectors /\ (e.fits \/ e.partial)
  BY <1>1, <1>3, <1>4, <1>5 DEF Spends
<1> DEFINE p == e.partial \/ late
           t == e.fits \/ e.partial \/ late
           f == [e EXCEPT !.at = "collected", !.partial = p, !.left = 0, !.fits = t]
<1>7. p \in BOOLEAN /\ t \in BOOLEAN /\ t /\ diag' = f
  <2>1. p \in BOOLEAN
    OBVIOUS
  <2>2. t \in BOOLEAN
    OBVIOUS
  <2> QED
    BY <1>2, <1>6, <2>1, <2>2
<1> HIDE DEF p, t
<1>8. "collected" \in DiagPlaces
  BY DEF DiagPlaces
<1>9. /\ f \in Collectors /\ f.at = "collected" /\ f.left = 0 /\ f.kept = e.kept
      /\ f.bytes = e.bytes /\ f.fits = t
  BY <1>6, <1>7, <1>8 DEF Collectors
<1> HIDE DEF f
<1>10. Budget(f) <= MaxBytes
  <2>1. Budget(k) = Budget(d) /\ Budget(d) \in Int /\ Budget(diag) \in Int
    BY <1>1, <1>3, <1>4 DEF Budget, Collectors
  <2>2. Budget(f) <= Budget(e) /\ Budget(f) \in Int /\ Budget(e) \in Int
    BY <1>6, <1>9 DEF Budget, Collectors
  <2> QED
    BY <1>1, <1>3, <1>5, <2>1, <2>2, LimitsAre DEF Spends
<1> QED
  BY <1>7, <1>9, <1>10, AtEaseKeeps DEF Collecting

LEMMA DiagFinishKeeps ==
    ASSUME DiagInv, DiagFinish
    PROVE  DiagInv'
<1>1. PICK cut \in BOOLEAN, to \in {"logs", "export"} :
        diag' = [Resting EXCEPT !.at = to, !.partial = diag.partial \/ cut, !.fits = diag.fits \/ cut]
  BY DEF DiagFinish
<1> DEFINE p == diag.partial \/ cut
           t == diag.fits \/ cut
           f == [Resting EXCEPT !.at = to, !.partial = p, !.fits = t]
<1>2. diag.fits \/ diag.partial
  BY DEF DiagFinish, DiagInv
<1>3. p \in BOOLEAN
  OBVIOUS
<1>4. t \in BOOLEAN
  OBVIOUS
<1>5. t \/ p
  BY <1>2
<1>6. diag' = f
  BY <1>1
<1> HIDE DEF p, t
<1>7. to \in DiagPlaces /\ to \notin Collecting \cup {"written"}
  BY DEF DiagPlaces, Collecting
<1>8. /\ f \in Collectors /\ f.at = to /\ f.left = 0 /\ f.kept = 0 /\ f.bytes = 0
      /\ f.fits = t /\ f.partial = p
  BY <1>3, <1>4, <1>7, RestingIs DEF Collectors
<1> HIDE DEF f
<1>9. Budget(f) <= MaxBytes
  BY <1>8, LimitsAre DEF Budget
<1> QED
  BY <1>5, <1>6, <1>7, <1>8, <1>9, AtEaseKeeps

LEMMA DiagRests ==
    ASSUME NEW p \in {"off", "failed", "uncertain"}, diag' = [Resting EXCEPT !.at = p]
    PROVE  DiagInv'
<1> DEFINE f == [Resting EXCEPT !.at = p]
<1>1. p \in DiagPlaces /\ p \notin Collecting \cup {"written"}
  BY DEF DiagPlaces, Collecting
<1>2. /\ f \in Collectors /\ f.at = p /\ f.left = 0 /\ f.kept = 0 /\ f.bytes = 0 /\ f.fits
  BY <1>1, RestingIs DEF Collectors
<1> HIDE DEF f
<1>3. Budget(f) <= MaxBytes
  BY <1>2, LimitsAre DEF Budget
<1> QED
  BY <1>1, <1>2, <1>3, AtEaseKeeps DEF f

LEMMA RestingAgain == [Resting EXCEPT !.at = "off"] = Resting
BY RestingIs DEF Collectors

LEMMA DiagWritesKeep ==
    ASSUME DiagInv, DiagCollision \/ DiagPublish \/ DiagSync
    PROVE  DiagInv'
<1>1. /\ diag.at \in {"export", "sync"} /\ diag \in Collectors /\ Budget(diag) <= MaxBytes
      /\ diag.fits \/ diag.partial
  BY DEF DiagCollision, DiagPublish, DiagSync, DiagInv, Budget, Collecting
<1>2. CASE diag' = [Resting EXCEPT !.at = "failed"] \/ diag' = [Resting EXCEPT !.at = "uncertain"]
  BY <1>2, DiagRests
<1>3. ASSUME NEW p \in {"export", "sync", "written"}, NEW path \in {"theirs", "ours"},
             diag' = [diag EXCEPT !.at = p, !.path = path], p = "written" => path = "ours"
      PROVE  DiagInv'
  <2> DEFINE f == [diag EXCEPT !.at = p, !.path = path]
  <2>1. p \in DiagPlaces /\ p \notin Collecting
    BY DEF DiagPlaces, Collecting
  <2>2. /\ f \in Collectors /\ f.at = p /\ f.left = diag.left /\ f.kept = diag.kept
        /\ f.bytes = diag.bytes /\ f.fits = diag.fits /\ f.partial = diag.partial /\ f.path = path
    BY <1>1, <2>1 DEF Collectors
  <2> HIDE DEF f
  <2>3. Budget(f) <= MaxBytes
    BY <1>1, <2>2 DEF Budget
  <2> QED
    BY <1>1, <1>3, <2>1, <2>2, <2>3, AtEaseKeeps DEF f
<1>4. CASE DiagCollision
  <2>1. PICK p \in {"export", "sync"} : diag' = [diag EXCEPT !.at = p, !.path = "theirs"]
    BY <1>1, <1>4 DEF DiagCollision, Collectors
  <2> QED
    BY <1>3, <2>1
<1>5. CASE DiagPublish /\ diag' # [Resting EXCEPT !.at = "failed"]
  <2>1. diag' = [diag EXCEPT !.at = "sync", !.path = "ours"]
    BY <1>5 DEF DiagPublish
  <2> QED
    BY <1>3, <2>1
<1>6. CASE DiagSync /\ diag' # [Resting EXCEPT !.at = "uncertain"]
  <2>1. diag' = [diag EXCEPT !.at = "written", !.path = "ours"]
    BY <1>1, <1>6 DEF DiagSync, SameFile, Collectors
  <2> QED
    BY <1>3, <2>1
<1> QED
  BY <1>2, <1>4, <1>5, <1>6

LEMMA DiagnosisKeeps ==
    ASSUME IInv, NodeInv, DiagInv, DiagnosisStep
    PROVE  DiagInv'
<1>1. UNCHANGED <<vars, node>>
  BY DEF DiagnosisStep
<1>2. CASE OutputRefused
  BY <1>2, DiagRests DEF OutputRefused
<1>3. CASE DiagEnd \/ DiagQuit
  BY <1>3, RestingAgain, DiagRests DEF DiagEnd, DiagQuit
<1> QED
  BY <1>1, <1>2, <1>3, DiagBeginKeeps, DiagJournalKeeps, DiagEventsKeeps, DiagRecheckKeeps,
     DiagSecondKeeps, DiagFinishKeeps, DiagWritesKeep DEF DiagnosisStep

\* Whatever the service does, the journal is the recorded one or a later one.
LEMMA DiagnosisStays ==
    ASSUME IInv, IInv', MoreInv, DiagInv, Moves, UNCHANGED diag
    PROVE  DiagInv'
<1>1. runtime.rev \in Nat /\ runtime'.rev \in Nat
  BY DEF IInv, Types, Runtimes
<1>2. diag.at \in Collecting => diag.record.phase \notin {"None", "Empty"} /\ diag.record.rev \in Nat
  BY DEF DiagInv, Collectors, Runtimes
<1>3. diag.at \in Collecting => diag.record = runtime' \/ diag.record.rev < runtime'.rev
  <2>1. CASE runtime' = runtime
    BY <2>1 DEF DiagInv
  <2>2. CASE runtime = NoRuntime
    BY <1>1, <1>2, <2>2 DEF DiagInv, NoRuntime
  <2>3. CASE runtime'.rev = runtime.rev + 1
    BY <1>1, <1>2, <2>3 DEF DiagInv
  <2> QED
    BY <2>1, <2>2, <2>3, RevisionsGrow
<1>4. diag.at = "recheck" => diag.fits \/ diag.partial \/ diag.record.rev < runtime'.rev
  <2>1. diag.at = "recheck" => diag.at \in Collecting
    BY DEF Collecting
  <2>2. CASE runtime' = runtime
    BY <2>2 DEF DiagInv
  <2>3. CASE runtime = NoRuntime
    BY <1>1, <1>2, <2>1, <2>3 DEF DiagInv, NoRuntime
  <2>4. CASE runtime'.rev = runtime.rev + 1
    BY <1>1, <1>2, <2>1, <2>4 DEF DiagInv
  <2> QED
    BY <2>2, <2>3, <2>4, RevisionsGrow
<1> QED
  BY <1>3, <1>4 DEF DiagInv

-----------------------------------------------------------------------------
(* The executor.                                                           *)

LEMMA UnusedIs ==
    /\ Unused \in Executors /\ Unused.at = "off" /\ Unused.child = "none" /\ Unused.answer = "none"
    /\ Unused.away = FALSE /\ Unused.reply = "none"
<1>1. Unused \in Executors
  BY DEF Unused, Executors, Requests, Replies, Directories
<1> QED
  BY <1>1 DEF Unused

LEMMA UnusedKeeps ==
    ASSUME exe' = Unused
    PROVE  ExeInv'
BY UnusedIs DEF ExeInv, NoSilentEffect

\* What the parent says is true when a refusal means that nothing was started, and a
\* success that the child has done it.
LEMMA SayKeeps ==
    ASSUME exe \in Executors, NEW a, Say(a),
           a = "refused" /\ mutating(exe.request) => exe.child = "none",
           a = "SUCCEEDED" => exe.done /\ (exe.place = "other" => ~named(exe.request))
    PROVE  ExeInv'
<1>1. CASE a \notin {"refused", "SUCCEEDED"}
  BY <1>1, UnusedKeeps DEF Say
<1>2. CASE a \in {"refused", "SUCCEEDED"}
  <2>1. PICK k \in {"none", "left"} :
          /\ exe.child = "none" => k = "none"
          /\ exe' = [Unused EXCEPT !.at = "answered", !.answer = a, !.request = exe.request,
                                   !.place = exe.place, !.done = exe.done, !.child = k]
    BY <1>2 DEF Say
  <2>2. exe' = [at |-> "answered", request |-> exe.request, cmd |-> None, child |-> k, away |-> FALSE,
                reply |-> "none", place |-> exe.place, done |-> exe.done, answer |-> a]
    BY <2>1 DEF Unused
  <2>3. exe.request \in Requests /\ exe.place \in Directories /\ exe.done \in BOOLEAN
    BY DEF Executors
  <2>4. exe' \in Executors
    BY <1>2, <2>2, <2>3 DEF Executors
  <2>5. /\ exe'.at = "answered" /\ exe'.answer = a /\ exe'.request = exe.request
        /\ exe'.place = exe.place /\ exe'.done = exe.done /\ exe'.child = k
    BY <2>2
  <2>6. NoSilentEffect'
    BY <2>1, <2>5 DEF NoSilentEffect
  <2> QED
    BY <2>4, <2>5, <2>6 DEF ExeInv
<1> QED
  BY <1>1, <1>2

LEMMA ParentKeeps ==
    ASSUME ExeInv, (\E request \in Requests : Delegate(request)) \/ ExecutorCheck \/ Spawn \/ Abandon
                   \/ Reap \/ ExecutorEnd \/ Move
    PROVE  ExeInv'
<1>1. exe \in Executors
  BY DEF ExeInv
<1>2. ASSUME NEW request \in Requests, Delegate(request) PROVE ExeInv'
  <2>1. /\ exe' \in Executors /\ exe'.at = "check" /\ exe'.child = "none" /\ exe'.answer = "none"
    BY <1>2, UnusedIs DEF Delegate, Executors
  <2> QED
    BY <2>1 DEF ExeInv, NoSilentEffect
<1>3. CASE ExecutorCheck
  <2>1. exe.at = "check" /\ exe.child = "none" /\ exe.answer = "none"
    BY <1>3 DEF ExecutorCheck, ExeInv
  <2>2. CASE exe' = [exe EXCEPT !.at = "dispatch"]
    <3>1. exe' \in Executors /\ exe'.at = "dispatch" /\ exe'.child = "none" /\ exe'.answer = "none"
      BY <1>1, <2>1, <2>2 DEF Executors
    <3> QED
      BY <3>1 DEF ExeInv, NoSilentEffect
  <2> QED
    BY <1>1, <1>3, <2>1, <2>2, UnusedKeeps, SayKeeps DEF ExecutorCheck
<1>4. CASE Spawn
  <2>1. exe.at = "dispatch" /\ exe.child = "none" /\ exe.answer = "none"
    BY <1>4 DEF Spawn, ExeInv
  <2>2. ASSUME NEW code, Say(dispatched_error(exe.request, code)) PROVE ExeInv'
    BY <1>1, <2>1, <2>2, SayKeeps DEF dispatched_error
  <2>3. ASSUME NEW c \in Commands, exe' = [exe EXCEPT !.at = "watch", !.cmd = c, !.child = "spawned"]
        PROVE  ExeInv'
    <3>1. /\ exe' \in Executors /\ exe'.at = "watch" /\ exe'.child = "spawned"
          /\ exe'.answer = "none"
      BY <1>1, <2>1, <2>3 DEF Executors
    <3> QED
      BY <3>1 DEF ExeInv, NoSilentEffect
  <2> QED
    BY <1>4, <2>2, <2>3 DEF Spawn
<1>5. CASE Abandon
  <2>1. Say(dispatched_error(exe.request, "EXECUTOR_TIMEOUT"))
    BY <1>5 DEF Abandon
  <2>2. /\ dispatched_error(exe.request, "EXECUTOR_TIMEOUT") \in {"unknown", "refused"}
        /\ mutating(exe.request) => dispatched_error(exe.request, "EXECUTOR_TIMEOUT") = "unknown"
    BY DEF dispatched_error
  <2> QED
    BY <1>1, <2>1, <2>2, SayKeeps
<1>6. CASE Reap
  <2>1. exe.child = "ended"
    BY <1>6 DEF Reap
  <2>2. CASE Say(dispatched_error(exe.request, "EXECUTOR_RESPONSE_INVALID"))
    <3>1. /\ dispatched_error(exe.request, "EXECUTOR_RESPONSE_INVALID") \in {"unknown", "refused"}
          /\ mutating(exe.request) =>
               dispatched_error(exe.request, "EXECUTOR_RESPONSE_INVALID") = "unknown"
      BY DEF dispatched_error
    <3> QED
      BY <1>1, <2>2, <3>1, SayKeeps
  <2>3. CASE Acceptable(exe.request, exe.reply, exe.place) /\ Say(exe.reply)
    <3>1. exe.reply \in Replies /\ (exe.reply = "SUCCEEDED" => exe.done)
      BY <2>1 DEF ExeInv
    <3>2. /\ exe.reply # "refused"
          /\ exe.reply = "SUCCEEDED" => exe.done /\ (exe.place = "other" => ~named(exe.request))
      BY <2>3, <3>1 DEF Acceptable, Replies
    <3> QED
      BY <1>1, <2>3, <3>2, SayKeeps
  <2> QED
    BY <1>6, <2>2, <2>3 DEF Reap
<1>7. CASE ExecutorEnd
  BY <1>7, UnusedKeeps DEF ExecutorEnd
<1>8. CASE Move
  <2>1. exe' \in Executors
    BY <1>1, <1>8 DEF Move, Executors
  <2>2. /\ exe'.at = exe.at /\ exe'.child = exe.child /\ exe'.answer = exe.answer
        /\ exe'.reply = exe.reply /\ exe'.place = exe.place /\ exe'.done = exe.done
        /\ exe'.request = exe.request
    BY <1>1, <1>8 DEF Move, Executors
  <2> QED
    BY <2>1, <2>2 DEF ExeInv, NoSilentEffect
<1> QED
  BY <1>2, <1>3, <1>4, <1>5, <1>6, <1>7, <1>8

\* A reply of success from here is given only for what was done.
LEMMA EndsKeep ==
    ASSUME ExeInv, exe.child \in {"spawned", "acting"}, NEW reply \in Replies,
           NEW place \in Directories, NEW done \in BOOLEAN, Ends(reply, place, done),
           reply = "SUCCEEDED" => done
    PROVE  ExeInv'
<1>1. exe \in Executors /\ exe.at = "watch" /\ exe.answer = "none"
  <2>1. exe \in Executors
    BY DEF ExeInv
  <2>2. exe.at = "watch"
    BY DEF ExeInv
  <2> QED
    BY <2>1, <2>2 DEF ExeInv
<1>2. /\ exe' \in Executors /\ exe'.at = "watch" /\ exe'.child = "ended" /\ exe'.answer = "none"
      /\ exe'.reply = reply /\ exe'.place = place /\ exe'.done = done
  BY <1>1 DEF Ends, Executors
<1> QED
  BY <1>2 DEF ExeInv, NoSilentEffect

LEMMA ChildKeeps ==
    ASSUME ExeInv, ChildAway \/ ChildIdle \/ ChildFollows
    PROVE  ExeInv'
<1>1. /\ TRUE \in BOOLEAN /\ FALSE \in BOOLEAN /\ {"FAILED", "UNKNOWN", "INCOMPLETE"} \subseteq Replies
      /\ \A reply \in Replies : (reply = "SUCCEEDED") \in BOOLEAN
      /\ \A reply \in Replies : (reply \in {"SUCCEEDED", "INCOMPLETE"}) \in BOOLEAN
      /\ "here" \in Directories /\ {"twin", "other"} \subseteq Directories
  BY DEF Replies, Directories
<1>2. CASE ChildAway
  BY <1>1, <1>2, EndsKeep DEF ChildAway
<1>3. CASE ChildIdle
  BY <1>1, <1>3, EndsKeep DEF ChildIdle
<1>4. CASE ChildBegins
  <2>1. exe \in Executors /\ exe.at = "watch"
    BY <1>4 DEF ChildBegins, ExeInv
  <2>2. /\ exe' \in Executors /\ exe'.at = "watch" /\ exe'.child = "acting"
        /\ exe'.answer = exe.answer
    BY <1>4, <2>1 DEF ChildBegins, Executors
  <2> QED
    BY <2>1, <2>2 DEF ExeInv, NoSilentEffect
<1>5. CASE ChildEnds
  BY <1>1, <1>5, EndsKeep DEF ChildEnds
<1>6. CASE UNCHANGED exe
  BY <1>6 DEF ExeInv, NoSilentEffect
<1> QED
  BY <1>2, <1>3, <1>4, <1>5, <1>6 DEF ChildFollows

-----------------------------------------------------------------------------
(* The invariant.                                                          *)

LEMMA ObserveStarts ==
    ASSUME ObserveInit
    PROVE  ObserveInv
<1>1. /\ Init /\ rows = [a \in Attempts |-> <<>>] /\ listener = None
      /\ obs = Off /\ answer = NoSummary /\ diag = Resting /\ exe = Unused
  BY DEF ObserveInit, NodeInit, StatusInit, DiagnosisInit, ExecutorInit
<1>2. IInv
  BY <1>1, InitHolds
<1>3. MoreInv
  BY <1>1 DEF Init, MoreInv, Ran, Entered, Creates, Refused, Blank, NoRuntime
<1>4. NodeInv
  <2>1. <<>> \in Seq(Row) /\ \A a \in Attempts : a # None
    BY ServiceAssumption
  <2> QED
    BY <1>1, <2>1 DEF NodeInv
<1>5. ObsInv
  <2>1. Beginning(obs)
    BY <1>1, OffIs
  <2>2. obs.at \notin Looking /\ obs.at \notin {"lock", "job", "report", "health", "again"} \cup Seconds
    BY <2>1 DEF Beginning, Looking, Seconds
  <2> QED
    BY <2>1, <2>2 DEF Beginning, ObsInv
<1>6. AnswerInv
  BY <1>1, EmptySummary DEF AnswerInv
<1>7. DiagInv
  <2>1. "off" \notin Collecting /\ MaxBytes \in Nat
    BY LimitsAre DEF Collecting
  <2> QED
    BY <1>1, <2>1, RestingIs DEF DiagInv, Budget
<1>8. ExeInv
  BY <1>1, UnusedIs DEF ExeInv, NoSilentEffect
<1> QED
  BY <1>2, <1>3, <1>4, <1>5, <1>6, <1>7, <1>8 DEF ObserveInv

LEMMA SameMore ==
    ASSUME MoreInv, NodeInv, UNCHANGED <<vars, node>>
    PROVE  MoreInv' /\ NodeInv'
<1>1. MoreInv'
  BY DEF vars, MoreInv, Ran, Entered, Creates, Refused, Blank
<1>2. NodeInv'
  BY DEF vars, node, NodeInv
<1> QED
  BY <1>1, <1>2

LEMMA SameWatch ==
    ASSUME ObsInv, AnswerInv, UNCHANGED <<vars, node, watch>>
    PROVE  ObsInv' /\ AnswerInv'
<1>1. obs' = obs /\ answer' = answer /\ report' = report /\ listener' = listener
  BY DEF vars, node, watch
<1>2. AnswerInv'
  BY <1>1, AnswerKept
<1>3. ObsInv'
  BY <1>1, SameService DEF ObsInv
<1> QED
  BY <1>2, <1>3

LEMMA SameDiagnosis ==
    ASSUME DiagInv, UNCHANGED <<vars, diag>>
    PROVE  DiagInv'
BY DEF vars, DiagInv

LEMMA SameExecutor ==
    ASSUME ExeInv, UNCHANGED exe
    PROVE  ExeInv'
BY DEF ExeInv, NoSilentEffect

\* The service goes on, or something outside it happens to the engine.
LEMMA OthersKeep ==
    ASSUME ObserveInv, (ServiceStep /\ ChildFollows) \/ (OutsideStep /\ UNCHANGED exe),
           UNCHANGED <<watch, diag>>
    PROVE  ObserveInv'
<1>1. IInv /\ MoreInv /\ NodeInv /\ ObsInv /\ AnswerInv /\ DiagInv /\ ExeInv
  BY DEF ObserveInv
<1>2. IInv' /\ Moves /\ (ProcessStep \/ OutsideStep)
  <2>1. CASE ServiceStep
    BY <1>1, <2>1, NextKeeps, ProcessMoves DEF ServiceStep, Next
  <2>2. CASE OutsideStep
    BY <1>1, <2>2, OutsideMoves
  <2> QED
    BY <2>1, <2>2
<1>3. MoreInv' /\ NodeInv'
  BY <1>1, <1>2, MoreKeeps, NodeKeeps
<1>4. ObsInv' /\ AnswerInv'
  BY <1>1, WatchKeeps
<1>5. DiagInv'
  BY <1>1, <1>2, DiagnosisStays
<1>6. ExeInv'
  BY <1>1, ChildKeeps, SameExecutor
<1> QED
  BY <1>2, <1>3, <1>4, <1>5, <1>6 DEF ObserveInv

LEMMA MachineKeeps ==
    ASSUME ObserveInv, MachineStep, AllEnd
    PROVE  ObserveInv'
<1>1. IInv /\ MoreInv /\ NodeInv /\ ObsInv /\ AnswerInv /\ PowerLoss
  BY DEF ObserveInv, MachineStep
<1>2. IInv' /\ MoreInv'
  BY <1>1, PowerLossKeeps, MoreKeeps
<1>3. NodeInv'
  BY <1>1, <1>2, NodeKeeps
<1>4. ObsInv' /\ AnswerInv'
  BY <1>1, WatchEnds
<1>5. DiagInv'
  BY RestingAgain, DiagRests DEF AllEnd
<1>6. ExeInv'
  BY UnusedKeeps DEF AllEnd
<1> QED
  BY <1>2, <1>3, <1>4, <1>5, <1>6 DEF ObserveInv

\* One of those who look takes a step.
LEMMA LookersKeep ==
    ASSUME ObserveInv,
           \/ StatusStep /\ UNCHANGED <<diag, exe>>
           \/ DiagnosisStep /\ UNCHANGED <<watch, exe>>
           \/ ExecutorStep /\ UNCHANGED <<watch, diag>>
           \/ UNCHANGED <<vars, node, watch, diag, exe>>
    PROVE  ObserveInv'
<1>1. IInv /\ MoreInv /\ NodeInv /\ ObsInv /\ AnswerInv /\ DiagInv /\ ExeInv
  BY DEF ObserveInv
<1>2. UNCHANGED <<vars, node>>
  BY DEF StatusStep, DiagnosisStep, ExecutorStep
<1>3. IInv' /\ MoreInv' /\ NodeInv'
  BY <1>1, <1>2, StutterKeeps, SameMore
<1>4. ObsInv' /\ AnswerInv'
  BY <1>1, <1>2, StatusKeeps, SameWatch
<1>5. DiagInv'
  BY <1>1, <1>2, DiagnosisKeeps, SameDiagnosis
<1>6. ExeInv'
  BY <1>1, ParentKeeps, ChildKeeps, SameExecutor DEF ExecutorStep
<1> QED
  BY <1>3, <1>4, <1>5, <1>6 DEF ObserveInv

\* What every observer relies on is true in every state, with commands, workers, engines,
\* other programs and power losses between any two of its steps.
THEOREM ObserveInvariance == ObserveSpec => []ObserveInv
<1>1. ObserveInit => ObserveInv
  BY ObserveStarts
<1>2. ObserveInv /\ [ObserveNext]_<<vars, node, watch, diag, exe>> => ObserveInv'
  BY OthersKeep, MachineKeeps, LookersKeep DEF ObserveNext
<1> QED
  BY <1>1, <1>2, PTL DEF ObserveSpec

\* status_until says READY only on the word of the attempt's own engine, from a document
\* that makes it true and was read in this very look: the second bootstrap finds whoever
\* has taken the port in between.
THEOREM ReadyWasServed == ObserveSpec => []ReadyIsTrue
<1>1. ObserveInv => ReadyIsTrue
  BY DEF ObserveInv, AnswerInv, Sure, ReadyIsTrue
<1> QED
  BY <1>1, ObserveInvariance, PTL

\* An attempt that status_until calls stopped or refused has no process past the gate, and
\* never again gets one, power losses included: every later start is another attempt.
THEOREM EndedStaysTrue == ObserveSpec => []EndedIsTrue
<1>1. ObserveInv => EndedIsTrue
  BY DEF ObserveInv, AnswerInv, Commits, Over, EndedIsTrue
<1> QED
  BY <1>1, ObserveInvariance, PTL

\* The collector keeps its byte budget, calls evidence whole only when journal and report
\* belong together, and a diagnosis written only when the file at its path is its own.
THEOREM DiagnosesAreWhole == ObserveSpec => []DiagnosisWhole
<1>1. ObserveInv => DiagnosisWhole
  <2>1. DiagInv => DiagnosisWhole
    <3> SUFFICES ASSUME DiagInv PROVE DiagnosisWhole
      OBVIOUS
    <3>1. diag.at \in {"logs", "written"} => diag.partial \/ diag.fits
      BY DEF DiagInv
    <3>2. diag.bytes <= MaxBytes
      BY LimitsAre DEF DiagInv, Collectors
    <3>3. diag.at = "written" => diag.path = "ours"
      BY DEF DiagInv
    <3> QED
      BY <3>1, <3>2, <3>3 DEF DiagnosisWhole
  <2> QED
    BY <2>1 DEF ObserveInv
<1> QED
  BY <1>1, ObserveInvariance, PTL

\* The manager refuses a delegated command that changes something only when no child was
\* started, and passes a success on only when the child has done it, on this instance or on
\* one that the reply cannot tell from it: a twin that was swapped in and back, or, for a
\* diagnosis, any.
THEOREM EffectsAreTold == ObserveSpec => []NoSilentEffect
<1>1. ObserveInv => NoSilentEffect
  BY DEF ObserveInv, ExeInv
<1> QED
  BY <1>1, ObserveInvariance, PTL
=============================================================================
