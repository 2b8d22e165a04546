------------------------------- MODULE Service -------------------------------
(***************************************************************************)
(* Running an initialized instance as a macOS LaunchAgent: start, the      *)
(* launchd worker's gate (run_gate), status probes and stop of             *)
(* src/engine/instance/service.rs over the jobs of src/engine/launchd.rs.  *)
(*                                                                         *)
(* Each start is an attempt with its own directory, launchd job and worker *)
(* binary.  start records the attempt and hands it to launchd; launchd     *)
(* runs the worker, which takes the operation lock, consumes the attempt,  *)
(* checks everything again and execs the engine in place, same pid, same   *)
(* lock.  The user (or anybody) may kickstart a loaded job, so a job can   *)
(* be entered more than once: entries[a] numbers them and stands for the   *)
(* pid.  Commands and workers may die at any point.                        *)
(*                                                                         *)
(* Journal and lock are as in module Instance; the instance is INITIALIZED *)
(* throughout, which that module shows to be final.  launchd and the       *)
(* engine are external.                                                    *)
(***************************************************************************)
EXTENDS Integers, FiniteSets

CONSTANTS Commands,      \* bxdl start / stop / status processes
          Attempts,      \* start attempts
          MaxEntries,    \* bound on how often one job is entered
          Stages,        \* StartupStage: 7 in the code
          MaxRevisions,  \* the journal's MAX_REVISIONS
          Faults,        \* what may fail: a "save", a "process", the "power"
          None

ASSUME ServiceAssumption ==
    /\ MaxEntries \in Nat
    /\ Stages \in Nat \ {0}
    /\ MaxRevisions \in Nat
    /\ Faults \subseteq {"save", "process", "power"}
    /\ None \notin Attempts
    /\ Commands \cap Attempts = {}

\* Mutant: no revision for how the attempt ends.
GateRevisionsShort == 1 + Stages

\* consume, stages, refusal, verified stop; and the start request before them.
GateRevisions == 1 + Stages + 1 + 1
StartRevisions == 1 + GateRevisions

VARIABLES runtime,   \* the service journal's last checkpoint
          survives,  \* the checkpoints a power loss may leave as the last
          holders,   \* the processes that hold the operation lock
          pc,        \* where each command stands
          mine,      \* the attempt a command starts or stops
          seen,      \* the pid a stop has read from the journal
          sent,      \* has this stop sent its TERM?
          used,      \* the attempt directories
          loaded,    \* the attempts whose launchd job is loaded
          entries,   \* how often launchd has entered each job
          worker,    \* where the process of each job stands
          view,      \* the checkpoint that process's Store has loaded
          requests,  \* the stop-request.json files: the attempt and the pid each names
          report,    \* the last status in each attempt's report.jsonl
          signalled, \* the engines that were sent TERM
          execs      \* history: how often each attempt became an engine

vars == <<runtime, survives, holders, pc, mine, seen, sent, used, loaded,
          entries, worker, view, requests, report, signalled, execs>>
journal == <<runtime, survives>>
command == <<pc, mine, seen, sent>>
jobs == <<loaded, entries, worker, view>>
engine == <<report, signalled, execs>>

\* phase is a RuntimePhase, "None" when there is no service journal and "Empty" when it
\* has no checkpoint yet; pid counts the entries of the attempt's job.
NoRuntime == [rev |-> 0, attempt |-> None, phase |-> "None", pid |-> 0, stage |-> 0]

Init ==
    /\ runtime = NoRuntime
    /\ survives = {NoRuntime}
    /\ holders = {}
    /\ pc = [c \in Commands |-> "idle"]
    /\ mine = [c \in Commands |-> None]
    /\ seen = [c \in Commands |-> 0]
    /\ sent = [c \in Commands |-> FALSE]
    /\ used = {}
    /\ loaded = {}
    /\ entries = [a \in Attempts |-> 0]
    /\ worker = [a \in Attempts |-> "none"]
    /\ view = [a \in Attempts |-> NoRuntime]
    /\ requests = {}
    /\ report = [a \in Attempts |-> "none"]
    /\ signalled = {}
    /\ execs = [a \in Attempts |-> 0]

-----------------------------------------------------------------------------
(* Lock, journal and launchd.                                              *)

Lock(p) ==
    /\ holders = {}
    /\ holders' = {p}

\* Store::save: Ok leaves one survivor; Err may or may not have published.
SaveOk(s) ==
    /\ s.rev <= MaxRevisions
    /\ runtime' = s
    /\ survives' = {s}

SaveErr(s) ==
    /\ "save" \in Faults
    /\ \/ UNCHANGED journal
       \/ /\ s.rev <= MaxRevisions
          /\ runtime' = s
          /\ survives' = survives \cup {s}

\* What launchctl print shows of job a: the pid of its process, 0 for none.
Live(a) == IF worker[a] = "none" THEN 0 ELSE entries[a]

\* launchd starts the program of job a (RunAtLoad at bootstrap, or kickstart).
Enter(a) ==
    /\ entries[a] < MaxEntries
    /\ entries' = [entries EXCEPT ![a] = @ + 1]
    /\ worker' = [worker EXCEPT ![a] = "entered"]

Running(a) == worker[a] = "engine"

\* The process ends; its descriptor of the lock goes with it.
Exit(a) ==
    /\ worker' = [worker EXCEPT ![a] = "none"]
    /\ view' = [view EXCEPT ![a] = NoRuntime]
    /\ holders' = holders \ {a}

\* bootout ends what was kickstarted after the last look at the job.
Unload(a) ==
    /\ loaded' = loaded \ {a}
    /\ IF a \in Attempts THEN Exit(a) ELSE UNCHANGED <<worker, view, holders>>

\* Mutant: an engine that was about to stop and is gone has stopped.
ReportStopping(a) == report[a] \in {"STOPPING", "STOPPED"}

\* report_for: the report is a valid one and ends in STOPPED.
ReportStopped(a) == report[a] = "STOPPED"

-----------------------------------------------------------------------------
(* Commands.                                                               *)

Goto(c, from, to) ==
    /\ pc[c] = from
    /\ pc' = [pc EXCEPT ![c] = to]

Return(c) ==
    /\ pc' = [pc EXCEPT ![c] = "idle"]
    /\ mine' = [mine EXCEPT ![c] = None]
    /\ seen' = [seen EXCEPT ![c] = 0]
    /\ sent' = [sent EXCEPT ![c] = FALSE]

Release(c) == Return(c) /\ holders' = holders \ {c}

\* busy(): status, show and the polls of a waiting start take the lock for a
\* moment to see whether it is free; preflight takes it for longer.
Probe(c) ==
    /\ Goto(c, "idle", "probe")
    /\ Lock(c)
    /\ UNCHANGED <<journal, mine, seen, sent, used, jobs, requests, engine>>

ProbeEnd(c) ==
    /\ pc[c] = "probe"
    /\ Release(c)
    /\ UNCHANGED <<journal, used, jobs, requests, engine>>

\* start, under the lock: the previous attempt must be verified stopped and
\* its job gone or removable; a new attempt directory and job are prepared.
StartLock(c) ==
    /\ Goto(c, "idle", "start")
    /\ Lock(c)
    /\ UNCHANGED <<journal, mine, seen, sent, used, jobs, requests, engine>>

\* Mutant: a refused attempt need not be resolved.
StartableAfterRefusal ==
    /\ runtime.phase \in {"None", "StoppedVerified", "GateRefused"}
    /\ runtime.attempt # None => Live(runtime.attempt) = 0

Startable ==
    /\ runtime.phase \in {"None", "StoppedVerified"}
    /\ runtime.attempt # None => Live(runtime.attempt) = 0

StartCheck(c) ==
    /\ Goto(c, "start", "prepare")
    /\ Startable
    /\ UNCHANGED <<journal, holders, mine, seen, sent, used, jobs, requests, engine>>

\* The job of the attempt before, if it is still loaded, is removed; the look at it after
\* the bootout finds it gone, for nobody bootstraps an attempt twice.
StartUnload(c) ==
    /\ Goto(c, "prepare", "inputs")
    /\ Unload(runtime.attempt)
    /\ UNCHANGED <<journal, mine, seen, sent, used, entries, requests, engine>>

\* What a path may turn out to be: an "odd" name, or with a parent that is "linked", "open"
\* to the writes of others (and not sticky) or missing.
PinnedPaths == [path : {"plain", "odd", "linked", "open", "missing"}, regular : BOOLEAN,
                size : {"none", "some", "over"}, writable : BOOLEAN, same : BOOLEAN,
                stays : BOOLEAN]

\* absolute and check_path: a plain name, and down to the file directories, without links,
\* that others cannot write.
CheckPath(f) == f.path = "plain"

\* open and recheck: a regular file of a bounded size that others cannot write, the same
\* one by its path and by its descriptor, before and after.
OpenPinned(f) ==
    /\ CheckPath(f)
    /\ f.regular /\ f.size = "some" /\ ~f.writable
    /\ f.stays

\* Input::read and Binary::open: such a file with the pinned content.
ReadPinned(f) == OpenPinned(f) /\ f.same
PathReads == {ReadPinned(f) : f \in PinnedPaths}

\* run_observed with capture: a cold command has a result when it was started from the
\* pinned Java, ended by itself in time, and closed both of its streams within their
\* limit; else it is killed and reaped.
ColdRuns == [started : BOOLEAN, end : {"exit", "signal", "late"},
             out : {"closed", "over", "open"}, err : {"closed", "over", "open"}, stays : BOOLEAN]
ColdRun(r) == r.started /\ r.end = "exit" /\ r.out = "closed" /\ r.err = "closed" /\ r.stays
CommandRuns == {ColdRun(r) : r \in ColdRuns}

\* NativeInput::load: a configuration of plain values, its own file and the chain's apart
\* from the data directory, every path it refers to one that can be used.
NativeFiles == [read : BOOLEAN, plain : BOOLEAN, overlaps : BOOLEAN, references : BOOLEAN]
LoadNative(n) == n.read /\ n.plain /\ ~n.overlaps /\ n.references
NativeLoads == {LoadNative(n) : n \in NativeFiles}

\* The pinned inputs, the package, its preflight, the node's and the product's
\* configuration and the running bxdl are those of the registration.
StartInputs(c) ==
    /\ pc[c] = "inputs"
    /\ \E read \in PathReads, run \in CommandRuns,
          native \in NativeLoads :
         IF read /\ run /\ native
         THEN Goto(c, "inputs", "files") /\ UNCHANGED <<holders, mine, seen, sent>>
         ELSE Release(c)
    /\ UNCHANGED <<journal, used, jobs, requests, engine>>

\* Workspace::write and snapshot_jar: each file of the attempt is a new one in its private
\* directory, written and synced, and the jar was copied from a pinned path while it stayed
\* what it was, with the pinned size and hash.
Copies == [private : BOOLEAN, new : BOOLEAN, copied : {"short", "pinned", "over"},
           from : PinnedPaths]
CopyPinned(f) == f.private /\ f.new /\ ReadPinned(f.from) /\ f.copied = "pinned"
JarCopies == {CopyPinned(f) : f \in Copies}

\* A new attempt directory with the worker, the jar and the configuration.  What a
\* failure leaves there is never used again.
StartFiles(c) ==
    /\ pc[c] = "files"
    /\ \E a \in Attempts \ used, copied \in JarCopies :
         /\ used' = used \cup {a}
         /\ IF copied
            THEN /\ Goto(c, "files", "job")
                 /\ mine' = [mine EXCEPT ![c] = a]
                 /\ UNCHANGED <<holders, seen, sent>>
            ELSE Release(c)
    /\ UNCHANGED <<journal, jobs, requests, engine>>

\* A directory or file of an attempt as Job finds it, and a way to be that is not right.
JobFile == [regular : BOOLEAN, links : 1 .. 2, owned : BOOLEAN, stays : BOOLEAN,
            mode : {"0500", "0600", "0700", "other"}, content : {"none", "right", "other"}]
JobParts == [directory |-> "0700", program |-> "0500", stdout |-> "0600", stderr |-> "0600",
             plist |-> "0600"]

\* The files of an attempt, all as they should be but at most one.
JobFiles ==
    LET right == [part \in DOMAIN JobParts |->
            [regular |-> part # "directory", links |-> 1, owned |-> TRUE, stays |-> TRUE,
             mode |-> JobParts[part], content |-> "right"]]
    IN {[right EXCEPT ![part] = f] : part \in DOMAIN JobParts, f \in JobFile}

\* open_private_directory: the user's own and nobody else's, reached without links, the
\* same one when it is looked at again.
OpenPrivate(d) == ~d.regular /\ d.owned /\ d.mode = "0700" /\ d.stays

\* open_regular: a file with one name, the user's own, in a mode that is asked for, the
\* same before and after it is opened.
OpenRegular(f, modes) == f.regular /\ f.links = 1 /\ f.owned /\ f.mode \in modes /\ f.stays

\* recheck_files and check_program: the program is not empty, and the property list says
\* what Job::new would write.
RecheckFiles(j) ==
    /\ OpenPrivate(j.directory)
    /\ OpenRegular(j.program, {"0500", "0700"}) /\ j.program.content # "none"
    /\ \A part \in {"stdout", "stderr", "plist"} : OpenRegular(j[part], {"0600"})
    /\ j.plist.content = "right"
JobLooks == {RecheckFiles(j) : j \in JobFiles}

\* Job::prepare: none of the outputs is there yet (new), and all are right when written.
PrepareJob(new, j) == new /\ RecheckFiles(j)
JobsPrepared == {PrepareJob(new, j) : new \in BOOLEAN, j \in JobFiles}

\* launchd knows a GUI session and no such job, the job's files are made, and everything
\* that was read is as it was.
StartJob(c) ==
    /\ pc[c] = "job"
    /\ \E prepared \in JobsPrepared,
          read \in PathReads :
         IF mine[c] \notin loaded /\ prepared /\ read
         THEN /\ Goto(c, "job", IF runtime.phase = "None" THEN "create" ELSE "save")
              /\ UNCHANGED <<holders, mine, seen, sent>>
         ELSE Release(c)
    /\ UNCHANGED <<journal, used, jobs, requests, engine>>

\* The first start creates the journal: an empty one, until the save.
StartCreate(c) ==
    /\ Goto(c, "create", "save")
    /\ runtime' = [NoRuntime EXCEPT !.phase = "Empty"]
    /\ survives' = {runtime'}
    /\ UNCHANGED <<holders, mine, seen, sent, used, jobs, requests, engine>>

\* An unresolved attempt or an unreadable (empty) journal, no more attempt
\* directories in the model, or too few revisions left for a whole attempt.
StartRefused(c) ==
    /\ \/ pc[c] = "start" /\ ~Startable
       \/ pc[c] = "files" /\ used = Attempts
       \/ pc[c] = "save" /\ runtime.rev + StartRevisions > MaxRevisions
    /\ Release(c)
    /\ UNCHANGED <<journal, used, jobs, requests, engine>>

Prepared(c) ==
    [rev |-> runtime.rev + 1, attempt |-> mine[c], phase |-> "StartPrepared",
     pid |-> 0, stage |-> 0]

\* The start request is durable and the lock dropped before launchd is asked.
StartSave(c) ==
    /\ Goto(c, "save", "bootstrap")
    /\ runtime.rev + StartRevisions <= MaxRevisions
    /\ SaveOk(Prepared(c))
    /\ holders' = holders \ {c}
    /\ UNCHANGED <<mine, seen, sent, used, jobs, requests, engine>>

StartSaveFailed(c) ==
    /\ pc[c] = "save"
    /\ runtime.rev + StartRevisions <= MaxRevisions
    /\ SaveErr(Prepared(c))
    /\ Release(c)
    /\ UNCHANGED <<used, jobs, requests, engine>>

\* Job::bootstrap; what follows are the probes of wait_start.
Bootstrap(c) ==
    /\ pc[c] = "bootstrap"
    /\ \E right \in JobLooks :
         IF mine[c] \notin loaded /\ right
         THEN loaded' = loaded \cup {mine[c]} /\ Enter(mine[c])
         ELSE UNCHANGED <<loaded, entries, worker>>
    /\ Return(c)
    /\ UNCHANGED <<journal, holders, used, view, requests, engine>>

\* stop takes no lock.  It leaves its request in the attempt's directory and
\* then looks, in this order and again and again, at the journal, at launchd
\* and at the report.
StopBegin(c) ==
    /\ Goto(c, "idle", "request")
    /\ runtime.attempt # None
    /\ mine' = [mine EXCEPT ![c] = runtime.attempt]
    /\ seen' = [seen EXCEPT ![c] = runtime.pid]
    /\ UNCHANGED <<journal, holders, sent, used, jobs, requests, engine>>

Requested(a) == \E q \in requests : q.attempt = a

\* A request that is already there is this one again, or names a pid that this command
\* has not seen.
StopRequest(c) ==
    LET request == [attempt |-> mine[c], pid |-> seen[c]] IN
    /\ pc[c] = "request"
    /\ IF \E q \in requests : q.attempt = mine[c] /\ q.pid \notin {0, seen[c]}
       THEN Return(c) /\ UNCHANGED requests
       ELSE /\ Goto(c, "request", "observe")
            /\ requests' = IF Requested(mine[c]) THEN requests ELSE requests \cup {request}
            /\ UNCHANGED <<mine, seen, sent>>
    /\ UNCHANGED <<journal, holders, used, jobs, engine>>

StopObserve(c) ==
    /\ Goto(c, "observe", "inspect")
    /\ runtime.attempt = mine[c]
    /\ seen' = [seen EXCEPT ![c] = runtime.pid]
    /\ UNCHANGED <<journal, holders, mine, sent, used, jobs, requests, engine>>

StopInspect(c) ==
    /\ pc[c] = "inspect"
    /\ \/ Live(mine[c]) = 0 /\ Goto(c, "inspect", "settle")
       \/ Live(mine[c]) # 0 /\ Live(mine[c]) = seen[c] /\ Goto(c, "inspect", "signal")
    /\ UNCHANGED <<journal, holders, mine, seen, sent, used, jobs, requests, engine>>

\* observe_stop_attempt, or a live process that is not the recorded one:
\* the outcome is unknown and stop returns an error.
StopUnknown(c) ==
    /\ \/ pc[c] = "observe" /\ runtime.attempt # mine[c]
       \/ pc[c] = "inspect" /\ Live(mine[c]) \notin {0, seen[c]}
    /\ Return(c)
    /\ UNCHANGED <<journal, holders, used, jobs, requests, engine>>

\* Mutant: only an engine on its way up is signalled.
SignallableStarting == {"CHECKING", "STARTING"}

Signallable == {"CHECKING", "STARTING", "RUNNING"}

\* Job::terminate looks at the pid once more, then signals the job by label:
\* one TERM per stop, and only once the engine has begun to report.
StopSignal(c) ==
    LET a == mine[c] IN
    /\ pc[c] = "signal"
    /\ \/ /\ report[a] \in Signallable /\ ~sent[c]
          /\ Live(a) = seen[c]
          /\ pc' = [pc EXCEPT ![c] = "kill"]
       \/ /\ report[a] \notin Signallable \/ sent[c]
          /\ pc' = [pc EXCEPT ![c] = "observe"]
    /\ UNCHANGED <<journal, holders, mine, seen, sent, used, jobs, requests, engine>>

\* The engine handles TERM; it ends a worker that is not the engine yet.
StopKill(c) ==
    LET a == mine[c] IN
    /\ Goto(c, "kill", "observe")
    /\ Live(a) # 0
    /\ sent' = [sent EXCEPT ![c] = TRUE]
    /\ IF Running(a)
         THEN signalled' = signalled \cup {a} /\ UNCHANGED <<holders, worker, view>>
         ELSE Exit(a) /\ UNCHANGED signalled
    /\ UNCHANGED <<journal, mine, seen, used, loaded, entries, requests, report, execs>>

\* The process went away between two looks: terminate returns an error.
StopMissed(c) ==
    /\ \/ pc[c] = "signal" /\ report[mine[c]] \in Signallable /\ ~sent[c]
                           /\ Live(mine[c]) # seen[c]
       \/ pc[c] = "kill" /\ Live(mine[c]) = 0
    /\ Return(c)
    /\ UNCHANGED <<journal, holders, used, jobs, requests, engine>>

\* No process: only a STOPPED report leads on, everything else is kept as is.
StopSettle(c) ==
    /\ pc[c] = "settle"
    /\ IF ReportStopped(mine[c])
         THEN Goto(c, "settle", "confirm") /\ UNCHANGED <<mine, seen, sent>>
         ELSE Return(c)
    /\ UNCHANGED <<journal, holders, used, jobs, requests, engine>>

\* confirm_stopped.
ConfirmLock(c) ==
    /\ pc[c] = "confirm"
    /\ IF holders = {}
         THEN Lock(c) /\ Goto(c, "confirm", "verify") /\ UNCHANGED <<mine, seen, sent>>
         ELSE Return(c) /\ UNCHANGED holders
    /\ UNCHANGED <<journal, used, jobs, requests, engine>>

\* Everything is looked at again under the lock.
Confirmed(c) ==
    /\ runtime.attempt = mine[c]
    /\ runtime.pid = seen[c]
    /\ runtime.phase # "StartPrepared"
    /\ Live(mine[c]) = 0
    /\ ReportStopped(mine[c])

Stopped == [runtime EXCEPT !.rev = @ + 1, !.phase = "StoppedVerified"]

ConfirmSave(c) ==
    /\ Goto(c, "verify", "bootout")
    /\ Confirmed(c)
    /\ IF runtime.phase = "StoppedVerified" THEN UNCHANGED journal ELSE SaveOk(Stopped)
    /\ UNCHANGED <<holders, mine, seen, sent, used, jobs, requests, engine>>

ConfirmFailed(c) ==
    /\ pc[c] = "verify"
    /\ \/ ~Confirmed(c) /\ UNCHANGED journal
       \/ Confirmed(c) /\ runtime.phase # "StoppedVerified" /\ SaveErr(Stopped)
    /\ Release(c)
    /\ UNCHANGED <<used, jobs, requests, engine>>

\* Job::bootout_stopped: one more look at the job, then its removal.
BootoutCheck(c) ==
    /\ pc[c] = "bootout"
    /\ IF Live(mine[c]) = 0
         THEN Goto(c, "bootout", "remove") /\ UNCHANGED <<mine, seen, sent, holders>>
         ELSE Release(c)
    /\ UNCHANGED <<journal, used, jobs, requests, engine>>

Bootout(c) ==
    /\ pc[c] = "remove"
    /\ loaded' = loaded \ {mine[c]}
    /\ worker' = [worker EXCEPT ![mine[c]] = "none"]
    /\ view' = [view EXCEPT ![mine[c]] = NoRuntime]
    /\ holders' = holders \ {c, mine[c]}
    /\ Return(c)
    /\ UNCHANGED <<journal, used, entries, requests, engine>>

\* An early error return, an expired deadline or the death of the command.
Quit(c) ==
    /\ "process" \in Faults
    /\ pc[c] # "idle"
    /\ Release(c)
    /\ UNCHANGED <<journal, used, jobs, requests, engine>>

-----------------------------------------------------------------------------
(* run_gate: the process launchd started for attempt a.                    *)

WorkerGoto(a, from, to) ==
    /\ worker[a] = from
    /\ worker' = [worker EXCEPT ![a] = to]

GateLock(a) ==
    /\ WorkerGoto(a, "entered", "locked")
    /\ Lock(a)
    /\ UNCHANGED <<journal, command, used, loaded, entries, view, requests, engine>>

\* The lock is taken: the worker returns INSTANCE_BUSY.
GateBusy(a) ==
    /\ worker[a] = "entered"
    /\ holders # {}
    /\ Exit(a)
    /\ UNCHANGED <<journal, command, used, loaded, entries, requests, engine>>

\* Mutant: a consumed attempt is let in again.
AdmissibleAgain(a) ==
    /\ runtime.attempt = a
    /\ runtime.phase \in {"StartPrepared", "GateConsumed"}
    /\ a \in loaded
    /\ runtime.rev + GateRevisions <= MaxRevisions

\* The attempt is the current one, unused, and this process is its job's.
Admissible(a) ==
    /\ runtime.attempt = a
    /\ runtime.phase = "StartPrepared"
    /\ a \in loaded
    /\ runtime.rev + GateRevisions <= MaxRevisions

Consumed(a) ==
    [runtime EXCEPT !.rev = @ + 1, !.phase = "GateConsumed", !.pid = entries[a],
                    !.stage = 0]

\* Mutant: the result of the save is ignored.
GateConsumeUnchecked(a) ==
    /\ WorkerGoto(a, "locked", "stages")
    /\ Admissible(a)
    /\ SaveOk(Consumed(a)) \/ SaveErr(Consumed(a))
    /\ view' = [view EXCEPT ![a] = runtime']
    /\ UNCHANGED <<holders, command, used, loaded, entries, requests, engine>>

GateConsume(a) ==
    /\ WorkerGoto(a, "locked", "stages")
    /\ Admissible(a)
    /\ SaveOk(Consumed(a))
    /\ view' = [view EXCEPT ![a] = runtime']
    /\ UNCHANGED <<holders, command, used, loaded, entries, requests, engine>>

\* SERVICE_GATE_REPLAY_REJECTED and the other refusals before the attempt is
\* consumed, or a save that failed.
GateRejected(a) ==
    /\ worker[a] = "locked"
    /\ \/ ~Admissible(a) /\ UNCHANGED journal
       \/ Admissible(a) /\ SaveErr(Consumed(a))
    /\ Exit(a)
    /\ UNCHANGED <<command, used, loaded, entries, requests, engine>>

NextStage(a) == [view[a] EXCEPT !.rev = @ + 1, !.stage = @ + 1]

\* enter_stage for every stage but the last, with the checks it stands for.
GateStage(a) ==
    /\ worker[a] = "stages"
    /\ view[a].stage < Stages - 1
    /\ runtime.rev = view[a].rev
    /\ SaveOk(NextStage(a))
    /\ view' = [view EXCEPT ![a] = runtime']
    /\ UNCHANGED <<holders, command, used, loaded, entries, worker, requests, engine>>

\* The last look at stop-request.json and report.jsonl.
GateCheck(a) ==
    /\ WorkerGoto(a, "stages", "go")
    /\ view[a].stage = Stages - 1
    /\ ~Requested(a)
    /\ report[a] = "none"
    /\ UNCHANGED <<journal, holders, command, used, loaded, entries, view, requests, engine>>

\* ENGINE_EXEC is recorded, then the engine replaces the worker.
GateExecStage(a) ==
    /\ WorkerGoto(a, "go", "exec")
    /\ runtime.rev = view[a].rev
    /\ SaveOk(NextStage(a))
    /\ view' = [view EXCEPT ![a] = runtime']
    /\ UNCHANGED <<holders, command, used, loaded, entries, requests, engine>>

Exec(a) ==
    /\ WorkerGoto(a, "exec", "engine")
    /\ execs' = [execs EXCEPT ![a] = @ + 1]
    /\ UNCHANGED <<journal, holders, command, used, loaded, entries, view, requests,
                   report, signalled>>

\* A check or the exec itself failed, or there is a stop request.
GateFails(a) ==
    /\ \/ "process" \in Faults /\ \E at \in {"stages", "go", "exec"} : WorkerGoto(a, at, "refuse")
       \/ /\ WorkerGoto(a, "stages", "refuse")
          /\ view[a].stage = Stages - 1
          /\ Requested(a) \/ report[a] # "none"
    /\ UNCHANGED <<journal, holders, command, used, loaded, entries, view, requests, engine>>

\* A stage's save failed; the stage stays set in memory.
GateStageFails(a) ==
    /\ \E at \in {"stages", "go"} : WorkerGoto(a, at, "refuse")
    /\ worker[a] = "go" \/ view[a].stage < Stages - 1
    /\ SaveErr(NextStage(a))
    /\ view' = [view EXCEPT ![a].stage = @ + 1]
    /\ UNCHANGED <<holders, command, used, loaded, entries, requests, engine>>

\* refuse: recorded, unless the failed save before it had published after all.
GateRefuse(a) ==
    LET s == [view[a] EXCEPT !.rev = @ + 1, !.phase = "GateRefused"] IN
    /\ worker[a] = "refuse"
    /\ \/ runtime.rev = view[a].rev /\ (SaveOk(s) \/ SaveErr(s))
       \/ runtime.rev # view[a].rev /\ UNCHANGED journal
    /\ Exit(a)
    /\ UNCHANGED <<command, used, loaded, entries, requests, engine>>

-----------------------------------------------------------------------------
(* The engine, launchd and the machine.                                    *)

Successor == [none |-> "CHECKING", CHECKING |-> "STARTING", STARTING |-> "RUNNING",
              STOPPING |-> "STOPPED"]

EngineReport(a) ==
    /\ Running(a)
    /\ report[a] \in DOMAIN Successor
    /\ report' = [report EXCEPT ![a] = Successor[@]]
    /\ UNCHANGED <<journal, holders, command, used, jobs, requests, signalled, execs>>

\* It stops when told to, or of its own accord.
EngineStopping(a) ==
    /\ Running(a)
    /\ report[a] = "RUNNING"
    /\ report' = [report EXCEPT ![a] = "STOPPING"]
    /\ UNCHANGED <<journal, holders, command, used, jobs, requests, signalled, execs>>

EngineExit(a) ==
    /\ Running(a)
    /\ report[a] = "STOPPED"
    /\ Exit(a)
    /\ UNCHANGED <<journal, command, used, loaded, entries, requests, engine>>

\* Worker or engine dies at any point; launchd keeps the job but does not
\* restart it (KeepAlive is false).
Die(a) ==
    /\ "process" \in Faults
    /\ worker[a] # "none"
    /\ Exit(a)
    /\ UNCHANGED <<journal, command, used, loaded, entries, requests, engine>>

Kickstart(a) ==
    /\ a \in loaded
    /\ worker[a] = "none"
    /\ Enter(a)
    /\ UNCHANGED <<journal, holders, command, used, loaded, view, requests, engine>>

\* Power loss: the jobs are not under ~/Library/LaunchAgents and do not come
\* back at the next login.
PowerLoss ==
    /\ "power" \in Faults
    /\ runtime' \in survives
    /\ survives' = {runtime'}
    /\ holders' = {}
    /\ pc' = [c \in Commands |-> "idle"]
    /\ mine' = [c \in Commands |-> None]
    /\ seen' = [c \in Commands |-> 0]
    /\ sent' = [c \in Commands |-> FALSE]
    /\ loaded' = {}
    /\ worker' = [a \in Attempts |-> "none"]
    /\ view' = [a \in Attempts |-> NoRuntime]
    /\ UNCHANGED <<used, entries, requests, engine>>

StopStep(c) ==
    \/ StopRequest(c) \/ StopObserve(c) \/ StopInspect(c) \/ StopUnknown(c) \/ StopSignal(c)
    \/ StopKill(c) \/ StopMissed(c) \/ StopSettle(c)
    \/ ConfirmLock(c) \/ ConfirmSave(c) \/ ConfirmFailed(c)
    \/ BootoutCheck(c) \/ Bootout(c)

StartStep(c) ==
    \/ StartCheck(c) \/ StartUnload(c) \/ StartInputs(c) \/ StartFiles(c) \/ StartJob(c)
    \/ StartCreate(c) \/ StartRefused(c) \/ StartSave(c)
    \/ StartSaveFailed(c) \/ Bootstrap(c)

CommandStep(c) ==
    \/ Probe(c) \/ ProbeEnd(c) \/ StartLock(c) \/ StartStep(c) \/ StopBegin(c) \/ StopStep(c) \/ Quit(c)

GateStep(a) ==
    \/ GateLock(a) \/ GateBusy(a) \/ GateConsume(a) \/ GateRejected(a) \/ GateStage(a)
    \/ GateCheck(a) \/ GateExecStage(a) \/ Exec(a) \/ GateFails(a) \/ GateStageFails(a)
    \/ GateRefuse(a)

EngineStep(a) == EngineReport(a) \/ EngineStopping(a) \/ EngineExit(a)

ProcessStep ==
    \/ \E c \in Commands : CommandStep(c)
    \/ \E a \in Attempts : GateStep(a) \/ EngineStep(a) \/ Die(a) \/ Kickstart(a)

Next == ProcessStep \/ PowerLoss

Spec == Init /\ [][Next]_vars

\* Processes that were started go on; launchd and users need not do anything.
\* An engine that was sent TERM shuts down.
FairSpec ==
    /\ Spec
    /\ \A c \in Commands : /\ WF_vars(ProbeEnd(c))
                           /\ WF_vars(StartStep(c))
                           /\ WF_vars(StopStep(c))
    /\ \A a \in Attempts : /\ WF_vars(GateStep(a))
                           /\ WF_vars(EngineReport(a))
                           /\ WF_vars(EngineExit(a))
                           /\ WF_vars(a \in signalled /\ EngineStopping(a))

-----------------------------------------------------------------------------
(* Safety.                                                                 *)

\* The worker or engine of attempt a can still write to the instance's data.
PastGate(a) == worker[a] \notin {"none", "entered", "locked"}

\* An attempt becomes an engine at most once, however often launchd or a user
\* enters its job again.
ExecOnce == \A a \in Attempts : execs[a] <= 1

\* The journal names the running engine and its pid in every checkpoint that
\* a power loss may leave, and none of them would let a new start through.
\* So there is at most one engine on the instance's data.
JournalNamesEngine ==
    \A a \in Attempts : Running(a) =>
        \A s \in survives : /\ s.attempt = a /\ s.pid = entries[a]
                            /\ s.phase = "GateConsumed"

\* STOPPED_VERIFIED is recorded only of an attempt whose engine reported its
\* storage closed and whose process is gone, and it stays gone: no later
\* entry of the job gets past the gate.
StoppedIsTrue ==
    \A s \in survives : s.phase = "StoppedVerified" =>
        /\ report[s.attempt] = "STOPPED"
        /\ ~PastGate(s.attempt)

\* The reserved revisions suffice: whatever ends an attempt, its refusal or
\* its verified stop can still be recorded.
EndFits ==
    /\ \A a \in Attempts : worker[a] = "refuse" => view[a].rev + 1 <= MaxRevisions
    /\ \A c \in Commands :
        pc[c] = "verify" /\ Confirmed(c) /\ runtime.phase # "StoppedVerified" =>
            runtime.rev + 1 <= MaxRevisions

\* A new start request is recorded only when the engine of the attempt before
\* it reported its storage closed, and no process can still touch the data.
NoOverlap ==
    [][runtime'.attempt # runtime.attempt /\ runtime'.rev > runtime.rev =>
        /\ runtime.attempt # None => report[runtime.attempt] = "STOPPED"
        /\ \A a \in Attempts : ~PastGate(a)]_vars

\* What the comment on run_gate says of it: every entry of a job consumes its
\* attempt, so that a kickstart cannot replay it after any exit.  Then only
\* the process of the first entry ever becomes the engine.
KickstartCannotReplay == \A a \in Attempts : Running(a) => entries[a] = 1

-----------------------------------------------------------------------------
(* Liveness.                                                               *)

\* A stop that waits on the consumed attempt ends it for good, wherever the
\* gate or the engine stands when it arrives: no stop request falls between
\* the gate's last look at it and the report that allows the TERM.
StopTakesEffect ==
    \A c \in Commands, a \in Attempts :
        (pc[c] = "observe" /\ mine[c] = a /\ runtime.attempt = a
            /\ runtime.phase = "GateConsumed") ~> []~PastGate(a)
=============================================================================
