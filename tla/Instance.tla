------------------------------ MODULE Instance ------------------------------
(***************************************************************************)
(* One node instance: registration (instance.rs register_owned with        *)
(* instance_fs.rs Control), init and resume-init (instance.rs initialize,  *)
(* managed.rs run), and the commands that only take the operation lock     *)
(* (show, preflight, verify).  Any number of bxdl commands run at once; a  *)
(* command may die at any step and the machine may lose power.             *)
(*                                                                         *)
(* The operation lock is an flock on one open file description that the    *)
(* command shares with the engine it starts, so it is a set of holders:    *)
(* free when nobody is left.  The journal is the Store of module Store,    *)
(* seen through what that module proves: `state' is the last checkpoint    *)
(* every reader sees, `survives' the ones a power loss may leave, a save   *)
(* that fails may or may not have published, and one that returned Ok is   *)
(* the only survivor.                                                      *)
(*                                                                         *)
(* The engine (the NIGO jar) is external.  Nothing is assumed of it but    *)
(* the order of its own records: INITIALIZING before INITIALIZED before a  *)
(* success report, each durable when written.  It may die, hang, ignore a  *)
(* TERM or exit 0 having done nothing.                                     *)
(***************************************************************************)
EXTENDS Integers, FiniteSets

CONSTANTS Commands,      \* bxdl processes
          Attempts,      \* attempt identifiers, one engine process each
          MaxRevisions,  \* the journal's MAX_REVISIONS
          None

ASSUME InstanceAssumption ==
    /\ MaxRevisions \in Nat
    /\ None \notin Attempts
    /\ Commands \cap Attempts = {}

Phases == {"Absent", "Registered", "InitIntent", "Initialized", "Unknown"}
Checkpoints == [rev : 0 .. MaxRevisions, phase : Phases, attempt : Attempts \cup {None}]

VARIABLES root,      \* how far the instance directory is built
          state,     \* the journal's last checkpoint
          survives,  \* the checkpoints a power loss may leave as the last
          holders,   \* the processes that hold the operation lock
          pc,        \* where each command stands
          resume,    \* resume-init rather than init
          view,      \* the checkpoint the command's Store has loaded
          attempt,   \* the command's attempt
          result,    \* the phase the command is about to record
          used,      \* the attempt directories under operations/
          engine,    \* of an attempt's engine: "none", "running", "exit0", "dead"
          report,    \* the attempts whose report.jsonl says success
          data       \* the data directory: engine-instance.json's stage, and
                     \* the attempt whose engine completed it

vars == <<root, state, survives, holders, pc, resume, view, attempt, result,
          used, engine, report, data>>
journal == <<state, survives>>
world == <<engine, report, data>>

NoCheckpoint == [rev |-> 0, phase |-> "Absent", attempt |-> None]

Init ==
    /\ root = "absent"
    /\ state = NoCheckpoint
    /\ survives = {NoCheckpoint}
    /\ holders = {}
    /\ pc = [c \in Commands |-> "idle"]
    /\ resume = [c \in Commands |-> FALSE]
    /\ view = [c \in Commands |-> NoCheckpoint]
    /\ attempt = [c \in Commands |-> None]
    /\ result = [c \in Commands |-> "Absent"]
    /\ used = {}
    /\ engine = [a \in Attempts |-> "none"]
    /\ report = {}
    /\ data = [stage |-> "absent", author |-> None]

Alive == {a \in Attempts : engine[a] = "running"}
Launched == {a \in Attempts : engine[a] # "none"}

Goto(c, from, to) ==
    /\ pc[c] = from
    /\ pc' = [pc EXCEPT ![c] = to]

-----------------------------------------------------------------------------
(* Lock, journal and the end of a command.                                 *)

\* Mutant: the lock excludes nobody.
SharedLock(c) == holders' = holders \cup {c}

\* Control::lock: a non-blocking exclusive flock.
Lock(c) ==
    /\ holders = {}
    /\ holders' = {c}

\* A command that returns or dies closes its descriptor; nothing is undone.
Return(c) ==
    /\ pc' = [pc EXCEPT ![c] = "idle"]
    /\ holders' = holders \ {c}
    /\ resume' = [resume EXCEPT ![c] = FALSE]
    /\ view' = [view EXCEPT ![c] = NoCheckpoint]
    /\ attempt' = [attempt EXCEPT ![c] = None]
    /\ result' = [result EXCEPT ![c] = "Absent"]

Checkpoint(c, phase) ==
    [rev |-> view[c].rev + 1, phase |-> phase, attempt |-> attempt[c]]

\* Store::save gets as far as publishing s: nobody has published since this
\* command's Store was opened, and the journal has room.
Publish(c, s) ==
    /\ state = view[c]
    /\ s.rev <= MaxRevisions
    /\ state' = s

SaveOk(c, s) == Publish(c, s) /\ survives' = {s}

\* Store::save returns Err, before or after it published.
SaveErr(c, s) ==
    \/ UNCHANGED journal
    \/ Publish(c, s) /\ survives' = survives \cup {s}

-----------------------------------------------------------------------------
(* register_owned.                                                         *)

\* Control::create_owned, the exclusive mkdir, once the data directory has
\* been found absent or empty.
Reserve(c) ==
    /\ Goto(c, "idle", "control")
    /\ root = "absent"
    /\ data.stage \in {"absent", "empty"}
    /\ root' = "reserved"
    /\ UNCHANGED <<journal, holders, resume, view, attempt, result, used, world>>

\* The lock file, operations/ and, last, .control.json: from here on others
\* can open the root and take its lock.
WriteControl(c) ==
    /\ Goto(c, "control", "lock")
    /\ root' = "controlled"
    /\ UNCHANGED <<journal, holders, resume, view, attempt, result, used, world>>

LockNew(c) ==
    /\ Goto(c, "lock", "bind")
    /\ Lock(c)
    /\ UNCHANGED <<root, journal, resume, view, attempt, result, used, world>>

\* The retained supply and binding.json, then the journal's directory.
Bind(c) ==
    /\ Goto(c, "bind", "register")
    /\ root' = "bound"
    /\ view' = [view EXCEPT ![c] = state]
    /\ UNCHANGED <<journal, holders, resume, attempt, result, used, world>>

SaveRegistered(c) ==
    /\ pc[c] = "register"
    /\ \/ SaveOk(c, Checkpoint(c, "Registered"))
       \/ SaveErr(c, Checkpoint(c, "Registered"))
    /\ Return(c)
    /\ UNCHANGED <<root, used, world>>

-----------------------------------------------------------------------------
(* initialize.                                                             *)

\* Control::open needs a complete .control.json.  preflight, show and verify
\* take the lock here as well and then only return (Quit).
AcquireLock(c, r) ==
    /\ Goto(c, "idle", "check")
    /\ root \in {"controlled", "bound"}
    /\ Lock(c)
    /\ resume' = [resume EXCEPT ![c] = r]
    /\ UNCHANGED <<root, journal, view, attempt, result, used, world>>

\* data_precondition.
DataPrecondition(r) ==
    IF r THEN data.stage = "INITIALIZING" ELSE data.stage \in {"absent", "empty"}

\* Mutants: init in any phase; no revision reserved for the result; no attempt.
CheckAnyPhase(c) ==
    /\ Goto(c, "check", "intent")
    /\ root = "bound"
    /\ state.phase # "Absent"
    /\ DataPrecondition(resume[c])
    /\ state.rev + 2 <= MaxRevisions
    /\ \E a \in Attempts \ used :
        /\ attempt' = [attempt EXCEPT ![c] = a]
        /\ used' = used \cup {a}
    /\ view' = [view EXCEPT ![c] = state]
    /\ UNCHANGED <<root, journal, holders, resume, result, world>>

CheckNoReserve(c) ==
    /\ Goto(c, "check", "intent")
    /\ root = "bound"
    /\ IF resume[c] THEN state.phase \in {"InitIntent", "Unknown"}
                    ELSE state.phase = "Registered"
    /\ DataPrecondition(resume[c])
    /\ \E a \in Attempts \ used :
        /\ attempt' = [attempt EXCEPT ![c] = a]
        /\ used' = used \cup {a}
    /\ view' = [view EXCEPT ![c] = state]
    /\ UNCHANGED <<root, journal, holders, resume, result, world>>

CheckNoAttempt(c) ==
    /\ Goto(c, "check", "intent")
    /\ root = "bound"
    /\ IF resume[c] THEN state.phase \in {"InitIntent", "Unknown"}
                    ELSE state.phase = "Registered"
    /\ DataPrecondition(resume[c])
    /\ state.rev + 2 <= MaxRevisions
    /\ view' = [view EXCEPT ![c] = state]
    /\ UNCHANGED <<root, journal, holders, resume, attempt, result, used, world>>

\* load, the phase rule, data_precondition, require_capacity(2) and the new
\* attempt directory.
Check(c) ==
    /\ Goto(c, "check", "intent")
    /\ root = "bound"
    /\ IF resume[c] THEN state.phase \in {"InitIntent", "Unknown"}
                    ELSE state.phase = "Registered"
    /\ DataPrecondition(resume[c])
    /\ state.rev + 2 <= MaxRevisions
    /\ \E a \in Attempts \ used :
        /\ attempt' = [attempt EXCEPT ![c] = a]
        /\ used' = used \cup {a}
    /\ view' = [view EXCEPT ![c] = state]
    /\ UNCHANGED <<root, journal, holders, resume, result, world>>

\* Mutant: the result of the save is ignored.
SaveIntentUnchecked(c) ==
    /\ \/ SaveOk(c, Checkpoint(c, "InitIntent"))
       \/ SaveErr(c, Checkpoint(c, "InitIntent"))
    /\ Goto(c, "intent", IF resume[c] THEN "spawn" ELSE "prepare")
    /\ view' = [view EXCEPT ![c] = state']
    /\ UNCHANGED <<root, holders, resume, attempt, result, used, world>>

\* The intent is recorded before anything is touched; on Err no engine starts.
SaveIntent(c) ==
    /\ SaveOk(c, Checkpoint(c, "InitIntent"))
    /\ Goto(c, "intent", IF resume[c] THEN "spawn" ELSE "prepare")
    /\ view' = [view EXCEPT ![c] = state']
    /\ UNCHANGED <<root, holders, resume, attempt, result, used, world>>

IntentFailed(c) ==
    /\ pc[c] = "intent"
    /\ SaveErr(c, Checkpoint(c, "InitIntent"))
    /\ Return(c)
    /\ UNCHANGED <<root, used, world>>

\* prepare_data.
PrepareData(c) ==
    /\ Goto(c, "prepare", "spawn")
    /\ data.stage \in {"absent", "empty"}
    /\ data' = [data EXCEPT !.stage = "empty"]
    /\ UNCHANGED <<root, journal, holders, resume, view, attempt, result, used,
                   engine, report>>

\* Mutant: the lock's description is not passed on.
SpawnWithoutLock(c) ==
    /\ Goto(c, "spawn", "wait")
    /\ engine' = [engine EXCEPT ![attempt[c]] = "running"]
    /\ UNCHANGED <<root, journal, holders, resume, view, attempt, result, used,
                   report, data>>

\* managed::run starts the engine with the lock's description as its stdin.
Spawn(c) ==
    /\ Goto(c, "spawn", "wait")
    /\ engine' = [engine EXCEPT ![attempt[c]] = "running"]
    /\ holders' = holders \cup {attempt[c]}
    /\ UNCHANGED <<root, journal, resume, view, attempt, result, used, report, data>>

\* Mutant: the engine's files are believed before it has exited.
SucceedEarly(c) ==
    /\ Goto(c, "wait", "record")
    /\ attempt[c] \in report
    /\ data.stage = "INITIALIZED"
    /\ result' = [result EXCEPT ![c] = "Initialized"]
    /\ UNCHANGED <<root, journal, holders, resume, view, attempt, used, world>>

\* Exit code 0, and stdout, report.jsonl and engine-instance.json agree.
Succeed(c) ==
    /\ Goto(c, "wait", "record")
    /\ engine[attempt[c]] = "exit0"
    /\ attempt[c] \in report
    /\ data.stage = "INITIALIZED"
    /\ result' = [result EXCEPT ![c] = "Initialized"]
    /\ UNCHANGED <<root, journal, holders, resume, view, attempt, used, world>>

\* Mutant: a failure is rolled back to REGISTERED.
RollBack(c) ==
    /\ \E at \in {"prepare", "spawn", "wait"} : Goto(c, at, "record")
    /\ result' = [result EXCEPT ![c] = "Registered"]
    /\ UNCHANGED <<root, journal, holders, resume, view, attempt, used, world>>

\* Any other end of the operation: data that appeared meanwhile, a spawn that
\* failed, an exit code, an unconvincing report, too much output, or a timeout
\* whose TERM the engine may survive, still holding the lock.
GiveUp(c) ==
    /\ \E at \in {"prepare", "spawn", "wait"} : Goto(c, at, "record")
    /\ result' = [result EXCEPT ![c] = "Unknown"]
    /\ UNCHANGED <<root, journal, holders, resume, view, attempt, used, world>>

Record(c) ==
    /\ pc[c] = "record"
    /\ \/ SaveOk(c, Checkpoint(c, result[c]))
       \/ SaveErr(c, Checkpoint(c, result[c]))
    /\ Return(c)
    /\ UNCHANGED <<root, used, world>>

\* An early error return, or the death of the process, at any point: neither
\* cleans anything up.
Quit(c) ==
    /\ pc[c] # "idle"
    /\ Return(c)
    /\ UNCHANGED <<root, journal, used, world>>

-----------------------------------------------------------------------------
(* The engine, and the machine.                                            *)

EngineBegin(a) ==
    /\ engine[a] = "running"
    /\ data.stage = "empty"
    /\ data' = [data EXCEPT !.stage = "INITIALIZING"]
    /\ UNCHANGED <<root, journal, holders, pc, resume, view, attempt, result,
                   used, engine, report>>

EngineCommit(a) ==
    /\ engine[a] = "running"
    /\ data.stage = "INITIALIZING"
    /\ data' = [stage |-> "INITIALIZED", author |-> a]
    /\ UNCHANGED <<root, journal, holders, pc, resume, view, attempt, result,
                   used, engine, report>>

EngineReport(a) ==
    /\ engine[a] = "running"
    /\ data = [stage |-> "INITIALIZED", author |-> a]
    /\ report' = report \cup {a}
    /\ UNCHANGED <<root, journal, holders, pc, resume, view, attempt, result,
                   used, engine, data>>

\* It ends, well or badly, and its copy of the lock's descriptor is closed.
EngineEnd(a, how) ==
    /\ engine[a] = "running"
    /\ engine' = [engine EXCEPT ![a] = how]
    /\ holders' = holders \ {a}
    /\ UNCHANGED <<root, journal, pc, resume, view, attempt, result, used,
                   report, data>>

PowerLoss ==
    /\ state' \in survives
    /\ survives' = {state'}
    /\ holders' = {}
    /\ pc' = [c \in Commands |-> "idle"]
    /\ resume' = [c \in Commands |-> FALSE]
    /\ view' = [c \in Commands |-> NoCheckpoint]
    /\ attempt' = [c \in Commands |-> None]
    /\ result' = [c \in Commands |-> "Absent"]
    /\ engine' = [a \in Attempts |-> IF a \in Alive THEN "dead" ELSE engine[a]]
    /\ UNCHANGED <<root, used, report, data>>

CommandStep(c) ==
    \/ Reserve(c) \/ WriteControl(c) \/ LockNew(c) \/ Bind(c) \/ SaveRegistered(c)
    \/ \E r \in BOOLEAN : AcquireLock(c, r)
    \/ Check(c) \/ SaveIntent(c) \/ IntentFailed(c) \/ PrepareData(c) \/ Spawn(c)
    \/ Succeed(c) \/ GiveUp(c) \/ Record(c) \/ Quit(c)

EngineStep(a) ==
    \/ EngineBegin(a) \/ EngineCommit(a) \/ EngineReport(a)
    \/ \E how \in {"exit0", "dead"} : EngineEnd(a, how)

Next ==
    \/ \E c \in Commands : CommandStep(c)
    \/ \E a \in Attempts : EngineStep(a)
    \/ PowerLoss

Spec == Init /\ [][Next]_vars

-----------------------------------------------------------------------------
(* Properties.                                                             *)

PCs == {"idle", "control", "lock", "bind", "register", "check", "intent",
        "prepare", "spawn", "wait", "record"}

\* Every variable has its type.
TypeOK ==
    /\ root \in {"absent", "reserved", "controlled", "bound"}
    /\ state \in Checkpoints
    /\ survives \in SUBSET Checkpoints
    /\ state \in survives
    /\ holders \in SUBSET (Commands \cup Attempts)
    /\ pc \in [Commands -> PCs]
    /\ resume \in [Commands -> BOOLEAN]
    /\ view \in [Commands -> Checkpoints]
    /\ attempt \in [Commands -> Attempts \cup {None}]
    /\ result \in [Commands -> Phases]
    /\ used \in SUBSET Attempts
    /\ engine \in [Attempts -> {"none", "running", "exit0", "dead"}]
    /\ report \in SUBSET Attempts
    /\ data \in [stage  : {"absent", "empty", "INITIALIZING", "INITIALIZED"},
                 author : Attempts \cup {None}]

\* The data directory never has two engines: not after a command died or
\* timed out and left its engine running, nor when two commands race.
OneEngine == \A a, b \in Alive : a = b

\* The journal names the engine that is running, whatever crash or power loss
\* comes next: its attempt is in every checkpoint that may survive.
JournalNamesEngine == \A a \in Alive : \A s \in survives : s.attempt = a

\* Once any engine was started, no crash and no power loss brings back a
\* journal that would allow a second fresh init.
IntentIsDurable ==
    Launched # {} => \A s \in survives : s.phase \notin {"Absent", "Registered"}

\* INITIALIZED is recorded only of data that the recorded attempt itself
\* completed, by an engine that exited with 0, and no engine runs on them.
InitializedIsTrue ==
    \A s \in survives : s.phase = "Initialized" =>
        /\ data = [stage |-> "INITIALIZED", author |-> s.attempt]
        /\ engine[s.attempt] = "exit0"
        /\ Alive = {}

\* What an engine did can be recorded: while a command holds a result, nobody
\* else has written the journal and the revision it reserved is still free.
ResultFits ==
    \A c \in Commands : pc[c] = "record" =>
        state = view[c] /\ state.rev + 1 <= MaxRevisions

\* A fresh init starts the first engine of the instance or none.
FreshOnce ==
    [][\A c \in Commands :
        pc[c] = "spawn" /\ pc'[c] = "wait" /\ ~resume[c] => Launched = {}]_vars

\* A durable INITIALIZED is final: no later command, engine or power loss
\* changes the journal or the data.
InitializedIsFinal ==
    [][(\A s \in survives : s.phase = "Initialized") =>
        UNCHANGED <<survives, data>> /\ Alive' = {}]_vars
=============================================================================
