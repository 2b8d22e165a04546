--------------------------- MODULE InstanceProofs ---------------------------
(***************************************************************************)
(* Proofs about Instance, for every set of commands and attempts and every *)
(* journal limit.                                                          *)
(*                                                                         *)
(* The properties are not inductive.  IInv adds who may hold the lock      *)
(* (LockedCommands ... EngineOfCommand), that nothing has happened while a *)
(* registration is under way (NothingYet), what a command that has loaded  *)
(* the journal under the lock knows of it (LoadedView ... LoadedFresh) and *)
(* what the engine's records and a command's result are worth.             *)
(***************************************************************************)
EXTENDS Instance, TLAPS

Registering == {"control", "lock", "bind", "register"}
Committed == {"prepare", "spawn", "wait", "record"}
Waiting == {"wait", "record"}
Locked == {"bind", "register", "check", "intent"} \cup Committed

LockedCommands == \A c \in Commands : c \in holders <=> pc[c] \in Locked
LockedEngines == \A a \in Attempts : a \in holders <=> engine[a] = "running"
OneCommand == \A c, d \in Commands : pc[c] \in Locked /\ pc[d] \in Locked => c = d
EngineOfCommand ==
    \A c \in Commands : \A a \in Alive :
        pc[c] \in Locked => pc[c] \in Waiting /\ attempt[c] = a

Untouched == Launched = {} /\ survives = {NoCheckpoint}

NothingYet ==
    /\ root = "absent" => Untouched /\ \A c \in Commands : pc[c] = "idle"
    /\ \A c \in Commands : pc[c] \in Registering => Untouched
OneRegistrant ==
    \A c, d \in Commands : pc[c] \in Registering /\ pc[d] \in Registering => c = d

LoadedView ==
    \A c \in Commands : pc[c] \in {"intent"} \cup Committed =>
        state = view[c] /\ attempt[c] \in Attempts
LoadedIntent ==
    \A c \in Commands : pc[c] = "intent" =>
        /\ state.phase \in {"Registered", "InitIntent", "Unknown"}
        /\ state.rev + 2 <= MaxRevisions
LoadedCommitted ==
    \A c \in Commands : pc[c] \in Committed =>
        /\ survives = {state}
        /\ state.phase = "InitIntent"
        /\ state.attempt = attempt[c]
        /\ state.rev + 1 <= MaxRevisions
LoadedFresh ==
    \A c \in Commands :
        pc[c] \in {"intent", "prepare", "spawn"} /\ ~resume[c] => Launched = {}

Completed(a) == data = [stage |-> "INITIALIZED", author |-> a]

Reports == \A a \in report : Completed(a)
ResultKnown ==
    \A c \in Commands : pc[c] = "record" => result[c] \in {"Unknown", "Initialized"}
ResultTrue ==
    \A c \in Commands : pc[c] = "record" /\ result[c] = "Initialized" =>
        engine[attempt[c]] = "exit0" /\ Completed(attempt[c])
OneInitialized ==
    \A s, t \in survives : s.phase = "Initialized" /\ t.phase = "Initialized" => s = t

IInv ==
    /\ TypeOK /\ LockedCommands /\ LockedEngines /\ OneCommand /\ EngineOfCommand
    /\ OneEngine /\ NothingYet /\ OneRegistrant
    /\ LoadedView /\ LoadedIntent /\ LoadedCommitted /\ LoadedFresh
    /\ Reports /\ ResultKnown /\ ResultTrue /\ OneInitialized
    /\ JournalNamesEngine /\ IntentIsDurable /\ InitializedIsTrue

-----------------------------------------------------------------------------
(* One lemma per action: it keeps the invariant.                           *)


\* The first registrant finds nothing begun, and is the only one.
LEMMA ReserveKeeps == ASSUME IInv, NEW c \in Commands, Reserve(c) PROVE IInv'
<1> USE InstanceAssumption DEF IInv, Reserve, Goto, journal, world, TypeOK
<1>1. TypeOK'
  BY DEF Checkpoints, Phases, PCs
<1>2. LockedCommands' /\ LockedEngines' /\ OneCommand'
  BY DEF LockedCommands, Locked, Committed, LockedEngines, OneCommand
<1>3. EngineOfCommand' /\ OneEngine'
  BY DEF EngineOfCommand, Alive, Locked, Committed, Waiting, LockedEngines, OneCommand,
      OneEngine
<1>4. NothingYet' /\ OneRegistrant'
  BY DEF NothingYet, Untouched, Launched, Registering, OneRegistrant
<1>5. LoadedView' /\ LoadedIntent' /\ LoadedCommitted' /\ LoadedFresh'
  BY DEF LoadedView, Committed, OneCommand, Locked, LoadedIntent, LoadedCommitted,
      LoadedFresh, Launched, IntentIsDurable
<1>6. Reports' /\ ResultKnown' /\ ResultTrue' /\ OneInitialized'
  BY DEF Reports, Completed, ResultKnown, ResultTrue, OneCommand, Locked, Committed,
      OneInitialized, LoadedIntent, LoadedCommitted
<1>7. JournalNamesEngine' /\ IntentIsDurable' /\ InitializedIsTrue'
  BY DEF JournalNamesEngine, Alive, EngineOfCommand, Locked, Committed, Waiting,
      IntentIsDurable, Launched, ResultKnown, NothingYet, Untouched, Registering,
      LoadedFresh, InitializedIsTrue, Completed, ResultTrue, LoadedCommitted
<1> QED
  BY <1>1, <1>2, <1>3, <1>4, <1>5, <1>6, <1>7 DEF IInv

\* The control record opens the root to others; the journal is still empty.
LEMMA WriteControlKeeps == ASSUME IInv, NEW c \in Commands, WriteControl(c) PROVE IInv'
<1> USE InstanceAssumption DEF IInv, WriteControl, Goto, journal, world, TypeOK
<1>1. TypeOK'
  BY DEF Checkpoints, Phases, PCs
<1>2. LockedCommands' /\ LockedEngines' /\ OneCommand'
  BY DEF LockedCommands, Locked, Committed, LockedEngines, OneCommand
<1>3. EngineOfCommand' /\ OneEngine'
  BY DEF EngineOfCommand, Alive, Locked, Committed, Waiting, LockedEngines, OneCommand,
      OneEngine
<1>4. NothingYet' /\ OneRegistrant'
  BY DEF NothingYet, Untouched, Launched, Registering, OneRegistrant
<1>5. LoadedView' /\ LoadedIntent' /\ LoadedCommitted' /\ LoadedFresh'
  BY DEF LoadedView, Committed, OneCommand, Locked, LoadedIntent, LoadedCommitted,
      LoadedFresh, Launched, IntentIsDurable
<1>6. Reports' /\ ResultKnown' /\ ResultTrue' /\ OneInitialized'
  BY DEF Reports, Completed, ResultKnown, ResultTrue, OneCommand, Locked, Committed,
      OneInitialized, LoadedIntent, LoadedCommitted
<1>7. JournalNamesEngine' /\ IntentIsDurable' /\ InitializedIsTrue'
  BY DEF JournalNamesEngine, Alive, EngineOfCommand, Locked, Committed, Waiting,
      IntentIsDurable, Launched, ResultKnown, NothingYet, Untouched, Registering,
      LoadedFresh, InitializedIsTrue, Completed, ResultTrue, LoadedCommitted
<1> QED
  BY <1>1, <1>2, <1>3, <1>4, <1>5, <1>6, <1>7 DEF IInv

\* The registrant is the only holder of the lock it takes.
LEMMA LockNewKeeps == ASSUME IInv, NEW c \in Commands, LockNew(c) PROVE IInv'
<1> USE InstanceAssumption DEF IInv, LockNew, Goto, Lock, journal, world, TypeOK
<1>1. TypeOK'
  BY DEF Checkpoints, Phases, PCs
<1>2. LockedCommands' /\ LockedEngines' /\ OneCommand'
  BY DEF LockedCommands, Locked, Committed, LockedEngines, OneCommand
<1>3. EngineOfCommand' /\ OneEngine'
  BY DEF EngineOfCommand, Alive, Locked, Committed, Waiting, LockedEngines, OneCommand,
      OneEngine
<1>4. NothingYet' /\ OneRegistrant'
  BY DEF NothingYet, Untouched, Launched, Registering, OneRegistrant
<1>5. LoadedView' /\ LoadedIntent' /\ LoadedCommitted' /\ LoadedFresh'
  BY DEF LoadedView, Committed, OneCommand, Locked, LoadedIntent, LoadedCommitted,
      LoadedFresh, Launched, IntentIsDurable
<1>6. Reports' /\ ResultKnown' /\ ResultTrue' /\ OneInitialized'
  BY DEF Reports, Completed, ResultKnown, ResultTrue, OneCommand, Locked, Committed,
      OneInitialized, LoadedIntent, LoadedCommitted
<1>7. JournalNamesEngine' /\ IntentIsDurable' /\ InitializedIsTrue'
  BY DEF JournalNamesEngine, Alive, EngineOfCommand, Locked, Committed, Waiting,
      IntentIsDurable, Launched, ResultKnown, NothingYet, Untouched, Registering,
      LoadedFresh, InitializedIsTrue, Completed, ResultTrue, LoadedCommitted
<1> QED
  BY <1>1, <1>2, <1>3, <1>4, <1>5, <1>6, <1>7 DEF IInv

\* The registrant's journal is still the empty one.
LEMMA BindKeeps == ASSUME IInv, NEW c \in Commands, Bind(c) PROVE IInv'
<1> USE InstanceAssumption DEF IInv, Bind, Goto, journal, world, TypeOK
<1>1. TypeOK'
  BY DEF Checkpoints, Phases, PCs
<1>2. LockedCommands' /\ LockedEngines' /\ OneCommand'
  BY DEF LockedCommands, Locked, Committed, LockedEngines, OneCommand
<1>3. EngineOfCommand' /\ OneEngine'
  BY DEF EngineOfCommand, Alive, Locked, Committed, Waiting, LockedEngines, OneCommand,
      OneEngine
<1>4. NothingYet' /\ OneRegistrant'
  BY DEF NothingYet, Untouched, Launched, Registering, OneRegistrant
<1>5. LoadedView' /\ LoadedIntent' /\ LoadedCommitted' /\ LoadedFresh'
  BY DEF LoadedView, Committed, OneCommand, Locked, LoadedIntent, LoadedCommitted,
      LoadedFresh, Launched, IntentIsDurable
<1>6. Reports' /\ ResultKnown' /\ ResultTrue' /\ OneInitialized'
  BY DEF Reports, Completed, ResultKnown, ResultTrue, OneCommand, Locked, Committed,
      OneInitialized, LoadedIntent, LoadedCommitted
<1>7. JournalNamesEngine' /\ IntentIsDurable' /\ InitializedIsTrue'
  BY DEF JournalNamesEngine, Alive, EngineOfCommand, Locked, Committed, Waiting,
      IntentIsDurable, Launched, ResultKnown, NothingYet, Untouched, Registering,
      LoadedFresh, InitializedIsTrue, Completed, ResultTrue, LoadedCommitted
<1> QED
  BY <1>1, <1>2, <1>3, <1>4, <1>5, <1>6, <1>7 DEF IInv

\* The first checkpoint is written while no engine was ever started.
LEMMA SaveRegisteredKeeps == ASSUME IInv, NEW c \in Commands, SaveRegistered(c) PROVE IInv'
<1> USE InstanceAssumption DEF IInv, SaveRegistered, Return, NoCheckpoint, SaveOk,
      SaveErr, Publish, Checkpoint, journal, world, TypeOK
<1>1. TypeOK'
  BY DEF Checkpoints, Phases, PCs
<1>2. LockedCommands' /\ LockedEngines' /\ OneCommand'
  BY DEF LockedCommands, Locked, Committed, LockedEngines, OneCommand
<1>3. EngineOfCommand' /\ OneEngine'
  BY DEF EngineOfCommand, Alive, Locked, Committed, Waiting, LockedEngines, OneCommand,
      OneEngine
<1>4. NothingYet' /\ OneRegistrant'
  BY DEF NothingYet, Untouched, Launched, Registering, OneRegistrant
<1>5. LoadedView' /\ LoadedIntent' /\ LoadedCommitted' /\ LoadedFresh'
  BY DEF LoadedView, Committed, OneCommand, Locked, LoadedIntent, LoadedCommitted,
      LoadedFresh, Launched, IntentIsDurable
<1>6. Reports' /\ ResultKnown' /\ ResultTrue' /\ OneInitialized'
  BY DEF Reports, Completed, ResultKnown, ResultTrue, OneCommand, Locked, Committed,
      OneInitialized, LoadedIntent, LoadedCommitted
<1>7. JournalNamesEngine' /\ IntentIsDurable' /\ InitializedIsTrue'
  BY DEF JournalNamesEngine, Alive, EngineOfCommand, Locked, Committed, Waiting,
      IntentIsDurable, Launched, NothingYet, Untouched, Registering, InitializedIsTrue,
      Completed, ResultTrue, LoadedCommitted
<1> QED
  BY <1>1, <1>2, <1>3, <1>4, <1>5, <1>6, <1>7 DEF IInv

\* A free lock has no command and no engine behind it.
LEMMA AcquireLockKeeps == ASSUME IInv, NEW c \in Commands, NEW r \in BOOLEAN,
                                 AcquireLock(c, r) PROVE IInv'
<1> USE InstanceAssumption DEF IInv, AcquireLock, Goto, Lock, journal, world, TypeOK
<1>1. TypeOK'
  BY DEF Checkpoints, Phases, PCs
<1>2. LockedCommands' /\ LockedEngines' /\ OneCommand'
  BY DEF LockedCommands, Locked, Committed, LockedEngines, OneCommand
<1>3. EngineOfCommand' /\ OneEngine'
  BY DEF EngineOfCommand, Alive, Locked, Committed, Waiting, LockedEngines, OneCommand,
      OneEngine
<1>4. NothingYet' /\ OneRegistrant'
  BY DEF NothingYet, Untouched, Launched, Registering, OneRegistrant
<1>5. LoadedView' /\ LoadedIntent' /\ LoadedCommitted' /\ LoadedFresh'
  BY DEF LoadedView, Committed, OneCommand, Locked, LoadedIntent, LoadedCommitted,
      LoadedFresh, Launched, IntentIsDurable
<1>6. Reports' /\ ResultKnown' /\ ResultTrue' /\ OneInitialized'
  BY DEF Reports, Completed, ResultKnown, ResultTrue, OneCommand, Locked, Committed,
      OneInitialized, LoadedIntent, LoadedCommitted
<1>7. JournalNamesEngine' /\ IntentIsDurable' /\ InitializedIsTrue'
  BY DEF JournalNamesEngine, Alive, EngineOfCommand, Locked, Committed, Waiting,
      IntentIsDurable, Launched, ResultKnown, NothingYet, Untouched, Registering,
      LoadedFresh, InitializedIsTrue, Completed, ResultTrue, LoadedCommitted
<1> QED
  BY <1>1, <1>2, <1>3, <1>4, <1>5, <1>6, <1>7 DEF IInv

\* The phase found under the lock tells whether an engine was ever started.
LEMMA CheckKeeps == ASSUME IInv, NEW c \in Commands, Check(c) PROVE IInv'
<1> USE InstanceAssumption DEF IInv, Check, Goto, DataPrecondition, journal, world,
      TypeOK
<1>1. TypeOK'
  BY DEF Checkpoints, Phases, PCs
<1>2. LockedCommands' /\ LockedEngines' /\ OneCommand'
  BY DEF LockedCommands, Locked, Committed, LockedEngines, OneCommand
<1>3. EngineOfCommand' /\ OneEngine'
  BY DEF EngineOfCommand, Alive, Locked, Committed, Waiting, LockedEngines, OneCommand,
      OneEngine
<1>4. NothingYet' /\ OneRegistrant'
  BY DEF NothingYet, Untouched, Launched, Registering, OneRegistrant
<1>5. LoadedView' /\ LoadedIntent' /\ LoadedCommitted' /\ LoadedFresh'
  BY DEF LoadedView, Committed, OneCommand, Locked, LoadedIntent, LoadedCommitted,
      LoadedFresh, Launched, IntentIsDurable
<1>6. Reports' /\ ResultKnown' /\ ResultTrue' /\ OneInitialized'
  BY DEF Reports, Completed, ResultKnown, ResultTrue, OneCommand, Locked, Committed,
      OneInitialized, LoadedIntent, LoadedCommitted
<1>7. JournalNamesEngine' /\ IntentIsDurable' /\ InitializedIsTrue'
  BY DEF JournalNamesEngine, Alive, EngineOfCommand, Locked, Committed, Waiting,
      IntentIsDurable, Launched, ResultKnown, NothingYet, Untouched, Registering,
      LoadedFresh, InitializedIsTrue, Completed, ResultTrue, LoadedCommitted
<1> QED
  BY <1>1, <1>2, <1>3, <1>4, <1>5, <1>6, <1>7 DEF IInv

\* An intent whose save returned Ok is the only survivor.
LEMMA SaveIntentKeeps == ASSUME IInv, NEW c \in Commands, SaveIntent(c) PROVE IInv'
<1> USE InstanceAssumption DEF IInv, SaveIntent, Goto, SaveOk, Publish, Checkpoint,
      journal, world, TypeOK
<1>1. TypeOK'
  BY DEF Checkpoints, Phases, PCs
<1>2. LockedCommands' /\ LockedEngines' /\ OneCommand'
  BY DEF LockedCommands, Locked, Committed, LockedEngines, OneCommand
<1>3. EngineOfCommand' /\ OneEngine'
  BY DEF EngineOfCommand, Alive, Locked, Committed, Waiting, LockedEngines, OneCommand,
      OneEngine
<1>4. NothingYet' /\ OneRegistrant'
  BY DEF NothingYet, Untouched, Launched, Registering, LoadedIntent, NoCheckpoint,
      OneRegistrant
<1>5. LoadedView'
  BY DEF LoadedView, Committed, OneCommand, Locked
<1>6. LoadedIntent'
  BY DEF LoadedIntent, OneCommand, Locked, Committed, LoadedView
<1>7. LoadedCommitted'
  <2> DEFINE s == Checkpoint(c, "InitIntent")
  <2>1. state' = s /\ survives' = {s} /\ s.phase = "InitIntent" /\ s.attempt = attempt[c]
    BY DEF SaveIntent, SaveOk, Publish, Checkpoint
  <2>2. s.rev = state.rev + 1 /\ state.rev + 2 <= MaxRevisions /\ state.rev \in Nat
    BY DEF SaveIntent, SaveOk, Goto, Publish, Checkpoint, LoadedIntent, TypeOK,
        Checkpoints
  <2>3. ASSUME NEW d \in Commands, pc'[d] \in Committed
        PROVE  d = c
    BY <2>3 DEF SaveIntent, Goto, OneCommand, Locked, Committed, TypeOK
  <2>4. attempt' = attempt
    BY DEF SaveIntent
  <2>5. s.rev + 1 <= MaxRevisions
    BY <2>2, InstanceAssumption DEF InstanceAssumption
  <2> HIDE DEF s
  <2> QED
    BY <2>1, <2>3, <2>4, <2>5 DEF LoadedCommitted
<1>8. LoadedFresh'
  BY DEF LoadedFresh, Launched, OneCommand, Locked, Committed, IntentIsDurable
<1>9. Reports' /\ ResultKnown' /\ ResultTrue' /\ OneInitialized'
  BY DEF Reports, Completed, ResultKnown, ResultTrue, OneCommand, Locked, Committed,
      OneInitialized, LoadedIntent, LoadedCommitted
<1>10. JournalNamesEngine' /\ IntentIsDurable' /\ InitializedIsTrue'
  BY DEF JournalNamesEngine, Alive, EngineOfCommand, Locked, Committed, Waiting,
      IntentIsDurable, Launched, ResultKnown, NothingYet, Untouched, Registering,
      LoadedFresh, InitializedIsTrue, Completed, ResultTrue, LoadedCommitted
<1> QED
  BY <1>1, <1>2, <1>3, <1>4, <1>5, <1>6, <1>7, <1>8, <1>9, <1>10 DEF IInv

\* A failed intent leaves checkpoints that all precede any new engine.
LEMMA IntentFailedKeeps == ASSUME IInv, NEW c \in Commands, IntentFailed(c) PROVE IInv'
<1> USE InstanceAssumption DEF IInv, IntentFailed, Return, NoCheckpoint, SaveErr,
      Publish, Checkpoint, journal, world, TypeOK
<1>1. TypeOK'
  BY DEF Checkpoints, Phases, PCs
<1>2. LockedCommands' /\ LockedEngines' /\ OneCommand'
  BY DEF LockedCommands, Locked, Committed, LockedEngines, OneCommand
<1>3. EngineOfCommand' /\ OneEngine'
  BY DEF EngineOfCommand, Alive, Locked, Committed, Waiting, LockedEngines, OneCommand,
      OneEngine
<1>4. NothingYet' /\ OneRegistrant'
  BY DEF NothingYet, Untouched, Launched, Registering, LoadedIntent, OneRegistrant
<1>5. LoadedView' /\ LoadedIntent' /\ LoadedCommitted' /\ LoadedFresh'
  BY DEF LoadedView, Committed, OneCommand, Locked, LoadedIntent, LoadedCommitted,
      LoadedFresh, Launched, IntentIsDurable
<1>6. Reports' /\ ResultKnown' /\ ResultTrue' /\ OneInitialized'
  BY DEF Reports, Completed, ResultKnown, ResultTrue, OneCommand, Locked, Committed,
      OneInitialized, LoadedIntent, LoadedCommitted
<1>7. JournalNamesEngine' /\ IntentIsDurable' /\ InitializedIsTrue'
  BY DEF JournalNamesEngine, Alive, EngineOfCommand, Locked, Committed, Waiting,
      IntentIsDurable, Launched, ResultKnown, NothingYet, Untouched, Registering,
      LoadedFresh, InitializedIsTrue, Completed, ResultTrue, LoadedCommitted
<1> QED
  BY <1>1, <1>2, <1>3, <1>4, <1>5, <1>6, <1>7 DEF IInv

\* Data are prepared only while the intent is the only survivor.
LEMMA PrepareDataKeeps == ASSUME IInv, NEW c \in Commands, PrepareData(c) PROVE IInv'
<1> USE InstanceAssumption DEF IInv, PrepareData, Goto, journal, world, TypeOK
<1>1. TypeOK'
  <2>1. data' \in [stage  : {"absent", "empty", "INITIALIZING", "INITIALIZED"},
                   author : Attempts \cup {None}]
    BY DEF PrepareData, TypeOK
  <2> QED
    BY <2>1 DEF PrepareData, Goto, journal, TypeOK, PCs
<1>2. LockedCommands' /\ LockedEngines' /\ OneCommand'
  BY DEF LockedCommands, Locked, Committed, LockedEngines, OneCommand
<1>3. EngineOfCommand' /\ OneEngine'
  BY DEF EngineOfCommand, Alive, Locked, Committed, Waiting, LockedEngines, OneCommand,
      OneEngine
<1>4. NothingYet' /\ OneRegistrant'
  BY DEF NothingYet, Untouched, Launched, Registering, OneRegistrant
<1>5. LoadedView' /\ LoadedIntent' /\ LoadedCommitted' /\ LoadedFresh'
  BY DEF LoadedView, Committed, OneCommand, Locked, LoadedIntent, LoadedCommitted,
      LoadedFresh, Launched, IntentIsDurable
<1>6. Reports' /\ ResultKnown' /\ ResultTrue' /\ OneInitialized'
  BY DEF Reports, Completed, ResultKnown, ResultTrue, OneCommand, Locked, Committed,
      OneInitialized, LoadedIntent, LoadedCommitted
<1>7. JournalNamesEngine' /\ IntentIsDurable' /\ InitializedIsTrue'
  BY DEF JournalNamesEngine, Alive, EngineOfCommand, Locked, Committed, Waiting,
      IntentIsDurable, Launched, ResultKnown, NothingYet, Untouched, Registering,
      LoadedFresh, InitializedIsTrue, Completed, ResultTrue, LoadedCommitted
<1> QED
  BY <1>1, <1>2, <1>3, <1>4, <1>5, <1>6, <1>7 DEF IInv

\* The engine is named by the only survivor, and holds the lock.
LEMMA SpawnKeeps == ASSUME IInv, NEW c \in Commands, Spawn(c) PROVE IInv'
<1> USE InstanceAssumption DEF IInv, Spawn, Goto, journal, world, TypeOK, Committed
<1>1. TypeOK'
  BY DEF Checkpoints, Phases, PCs, LoadedView
<1>2. LockedCommands' /\ LockedEngines' /\ OneCommand'
  BY DEF LockedCommands, Locked, LoadedView, LockedEngines, OneCommand
<1>3. EngineOfCommand' /\ OneEngine'
  BY DEF EngineOfCommand, Alive, Locked, Waiting, LockedEngines, OneCommand, OneEngine
<1>4. NothingYet' /\ OneRegistrant'
  BY DEF NothingYet, Untouched, Launched, Registering, LoadedCommitted, LoadedView,
      NoCheckpoint, OneRegistrant
<1>5. LoadedView' /\ LoadedIntent' /\ LoadedCommitted' /\ LoadedFresh'
  BY DEF LoadedView, OneCommand, Locked, LoadedIntent, LoadedCommitted, LoadedFresh,
      Launched, IntentIsDurable
<1>6. Reports' /\ ResultKnown' /\ ResultTrue' /\ OneInitialized'
  BY DEF Reports, Completed, ResultKnown, ResultTrue, OneCommand, Locked,
      OneInitialized, LoadedIntent, LoadedCommitted
<1>7. JournalNamesEngine' /\ IntentIsDurable' /\ InitializedIsTrue'
  BY DEF JournalNamesEngine, Alive, LoadedCommitted, LoadedView, EngineOfCommand,
      Locked, Waiting, IntentIsDurable, Launched, InitializedIsTrue, Completed,
      ResultTrue
<1> QED
  BY <1>1, <1>2, <1>3, <1>4, <1>5, <1>6, <1>7 DEF IInv

\* An attempt that reported has completed the data itself.
LEMMA SucceedKeeps == ASSUME IInv, NEW c \in Commands, Succeed(c) PROVE IInv'
<1> USE InstanceAssumption DEF IInv, Succeed, Goto, journal, world, TypeOK
<1>1. TypeOK'
  BY DEF Checkpoints, Phases, PCs
<1>2. LockedCommands' /\ LockedEngines' /\ OneCommand'
  BY DEF LockedCommands, Locked, Committed, LockedEngines, OneCommand
<1>3. EngineOfCommand' /\ OneEngine'
  BY DEF EngineOfCommand, Alive, Locked, Committed, Waiting, LockedEngines, OneCommand,
      OneEngine
<1>4. NothingYet' /\ OneRegistrant'
  BY DEF NothingYet, Untouched, Launched, Registering, OneRegistrant
<1>5. LoadedView' /\ LoadedIntent' /\ LoadedCommitted' /\ LoadedFresh'
  BY DEF LoadedView, Committed, OneCommand, Locked, LoadedIntent, LoadedCommitted,
      LoadedFresh, Launched, IntentIsDurable
<1>6. Reports' /\ ResultKnown' /\ ResultTrue' /\ OneInitialized'
  BY DEF Reports, Completed, ResultKnown, ResultTrue, OneCommand, Locked, Committed,
      OneInitialized, LoadedIntent, LoadedCommitted
<1>7. JournalNamesEngine' /\ IntentIsDurable' /\ InitializedIsTrue'
  BY DEF JournalNamesEngine, Alive, EngineOfCommand, Locked, Committed, Waiting,
      IntentIsDurable, Launched, ResultKnown, NothingYet, Untouched, Registering,
      LoadedFresh, InitializedIsTrue, Completed, ResultTrue, LoadedCommitted
<1> QED
  BY <1>1, <1>2, <1>3, <1>4, <1>5, <1>6, <1>7 DEF IInv

\* Giving up changes neither the journal nor who holds the lock.
LEMMA GiveUpKeeps == ASSUME IInv, NEW c \in Commands, GiveUp(c) PROVE IInv'
<1> USE InstanceAssumption DEF IInv, GiveUp, Goto, journal, world, TypeOK
<1>1. TypeOK'
  BY DEF Checkpoints, Phases, PCs
<1>2. LockedCommands' /\ LockedEngines' /\ OneCommand'
  BY DEF LockedCommands, Locked, Committed, LockedEngines, OneCommand
<1>3. EngineOfCommand' /\ OneEngine'
  BY DEF EngineOfCommand, Alive, Locked, Committed, Waiting, LockedEngines, OneCommand,
      OneEngine
<1>4. NothingYet' /\ OneRegistrant'
  BY DEF NothingYet, Untouched, Launched, Registering, OneRegistrant
<1>5. LoadedView' /\ LoadedIntent' /\ LoadedCommitted' /\ LoadedFresh'
  BY DEF LoadedView, Committed, OneCommand, Locked, LoadedIntent, LoadedCommitted,
      LoadedFresh, Launched, IntentIsDurable
<1>6. Reports' /\ ResultKnown' /\ ResultTrue' /\ OneInitialized'
  BY DEF Reports, Completed, ResultKnown, ResultTrue, OneCommand, Locked, Committed,
      OneInitialized, LoadedIntent, LoadedCommitted
<1>7. JournalNamesEngine' /\ IntentIsDurable' /\ InitializedIsTrue'
  BY DEF JournalNamesEngine, Alive, EngineOfCommand, Locked, Committed, Waiting,
      IntentIsDurable, Launched, ResultKnown, NothingYet, Untouched, Registering,
      LoadedFresh, InitializedIsTrue, Completed, ResultTrue, LoadedCommitted
<1> QED
  BY <1>1, <1>2, <1>3, <1>4, <1>5, <1>6, <1>7 DEF IInv

\* A recorded result is of the running or finished engine of the attempt.
LEMMA RecordKeeps == ASSUME IInv, NEW c \in Commands, Record(c) PROVE IInv'
<1> USE InstanceAssumption DEF IInv, Record, Return, NoCheckpoint, SaveOk, SaveErr,
      Publish, Checkpoint, journal, world, TypeOK
<1>1. TypeOK'
  BY DEF Checkpoints, Phases, PCs
<1>2. LockedCommands' /\ LockedEngines' /\ OneCommand'
  BY DEF LockedCommands, Locked, Committed, LockedEngines, OneCommand
<1>3. EngineOfCommand' /\ OneEngine'
  BY DEF EngineOfCommand, Alive, Locked, Committed, Waiting, LockedEngines, OneCommand,
      OneEngine
<1>4. NothingYet' /\ OneRegistrant'
  BY DEF NothingYet, Untouched, Launched, Registering, LoadedCommitted, Committed,
      LoadedView, OneRegistrant
<1>5. LoadedView' /\ LoadedIntent' /\ LoadedCommitted' /\ LoadedFresh'
  BY DEF LoadedView, Committed, OneCommand, Locked, LoadedIntent, LoadedCommitted,
      LoadedFresh, Launched, IntentIsDurable
<1>6. Reports' /\ ResultKnown' /\ ResultTrue' /\ OneInitialized'
  BY DEF Reports, Completed, ResultKnown, ResultTrue, OneCommand, Locked, Committed,
      OneInitialized, LoadedIntent, LoadedCommitted
<1>7. JournalNamesEngine' /\ IntentIsDurable' /\ InitializedIsTrue'
  BY DEF JournalNamesEngine, Alive, EngineOfCommand, Locked, Committed, Waiting,
      IntentIsDurable, Launched, ResultKnown, NothingYet, Untouched, Registering,
      LoadedFresh, InitializedIsTrue, Completed, ResultTrue, LoadedCommitted
<1> QED
  BY <1>1, <1>2, <1>3, <1>4, <1>5, <1>6, <1>7 DEF IInv

\* A command that dies leaves the lock to its engine.
LEMMA QuitKeeps == ASSUME IInv, NEW c \in Commands, Quit(c) PROVE IInv'
<1> USE InstanceAssumption DEF IInv, Quit, Return, NoCheckpoint, journal, world, TypeOK
<1>1. TypeOK'
  BY DEF Checkpoints, Phases, PCs
<1>2. LockedCommands' /\ LockedEngines' /\ OneCommand'
  BY DEF LockedCommands, Locked, Committed, LockedEngines, OneCommand
<1>3. EngineOfCommand' /\ OneEngine'
  BY DEF EngineOfCommand, Alive, Locked, Committed, Waiting, LockedEngines, OneCommand,
      OneEngine
<1>4. NothingYet' /\ OneRegistrant'
  BY DEF NothingYet, Untouched, Launched, Registering, OneRegistrant
<1>5. LoadedView' /\ LoadedIntent' /\ LoadedCommitted' /\ LoadedFresh'
  BY DEF LoadedView, Committed, OneCommand, Locked, LoadedIntent, LoadedCommitted,
      LoadedFresh, Launched, IntentIsDurable
<1>6. Reports' /\ ResultKnown' /\ ResultTrue' /\ OneInitialized'
  BY DEF Reports, Completed, ResultKnown, ResultTrue, OneCommand, Locked, Committed,
      OneInitialized, LoadedIntent, LoadedCommitted
<1>7. JournalNamesEngine' /\ IntentIsDurable' /\ InitializedIsTrue'
  BY DEF JournalNamesEngine, Alive, EngineOfCommand, Locked, Committed, Waiting,
      IntentIsDurable, Launched, ResultKnown, NothingYet, Untouched, Registering,
      LoadedFresh, InitializedIsTrue, Completed, ResultTrue, LoadedCommitted
<1> QED
  BY <1>1, <1>2, <1>3, <1>4, <1>5, <1>6, <1>7 DEF IInv

\* An engine begins on empty data, which no report describes.
LEMMA EngineBeginKeeps == ASSUME IInv, NEW a \in Attempts, EngineBegin(a) PROVE IInv'
<1> USE InstanceAssumption DEF IInv, EngineBegin, journal, world, TypeOK
<1>1. TypeOK'
  BY DEF Checkpoints, Phases, PCs
<1>2. LockedCommands' /\ LockedEngines' /\ OneCommand'
  BY DEF LockedCommands, Locked, Committed, LockedEngines, OneCommand
<1>3. EngineOfCommand' /\ OneEngine'
  BY DEF EngineOfCommand, Alive, Locked, Committed, Waiting, LockedEngines, OneCommand,
      OneEngine
<1>4. NothingYet' /\ OneRegistrant'
  BY DEF NothingYet, Untouched, Launched, Registering, OneRegistrant
<1>5. LoadedView' /\ LoadedIntent' /\ LoadedCommitted' /\ LoadedFresh'
  BY DEF LoadedView, Committed, OneCommand, Locked, LoadedIntent, LoadedCommitted,
      LoadedFresh, Launched, IntentIsDurable
<1>6. Reports' /\ ResultKnown' /\ ResultTrue' /\ OneInitialized'
  BY DEF Reports, Completed, ResultKnown, ResultTrue, OneCommand, Locked, Committed,
      OneInitialized, LoadedIntent, LoadedCommitted
<1>7. JournalNamesEngine' /\ IntentIsDurable' /\ InitializedIsTrue'
  BY DEF JournalNamesEngine, Alive, EngineOfCommand, Locked, Committed, Waiting,
      IntentIsDurable, Launched, ResultKnown, NothingYet, Untouched, Registering,
      LoadedFresh, InitializedIsTrue, Completed, ResultTrue, LoadedCommitted
<1> QED
  BY <1>1, <1>2, <1>3, <1>4, <1>5, <1>6, <1>7 DEF IInv

\* An engine completes data that nobody has completed.
LEMMA EngineCommitKeeps == ASSUME IInv, NEW a \in Attempts, EngineCommit(a) PROVE IInv'
<1> USE InstanceAssumption DEF IInv, EngineCommit, journal, world, TypeOK
<1>1. TypeOK'
  BY DEF Checkpoints, Phases, PCs
<1>2. LockedCommands' /\ LockedEngines' /\ OneCommand'
  BY DEF LockedCommands, Locked, Committed, LockedEngines, OneCommand
<1>3. EngineOfCommand' /\ OneEngine'
  BY DEF EngineOfCommand, Alive, Locked, Committed, Waiting, LockedEngines, OneCommand,
      OneEngine
<1>4. NothingYet' /\ OneRegistrant'
  BY DEF NothingYet, Untouched, Launched, Registering, OneRegistrant
<1>5. LoadedView' /\ LoadedIntent' /\ LoadedCommitted' /\ LoadedFresh'
  BY DEF LoadedView, Committed, OneCommand, Locked, LoadedIntent, LoadedCommitted,
      LoadedFresh, Launched, IntentIsDurable
<1>6. Reports' /\ ResultKnown' /\ ResultTrue' /\ OneInitialized'
  BY DEF Reports, Completed, ResultKnown, ResultTrue, OneCommand, Locked, Committed,
      OneInitialized, LoadedIntent, LoadedCommitted
<1>7. JournalNamesEngine' /\ IntentIsDurable' /\ InitializedIsTrue'
  BY DEF JournalNamesEngine, Alive, EngineOfCommand, Locked, Committed, Waiting,
      IntentIsDurable, Launched, ResultKnown, NothingYet, Untouched, Registering,
      LoadedFresh, InitializedIsTrue, Completed, ResultTrue, LoadedCommitted
<1> QED
  BY <1>1, <1>2, <1>3, <1>4, <1>5, <1>6, <1>7 DEF IInv

\* Only the engine that completed the data reports.
LEMMA EngineReportKeeps == ASSUME IInv, NEW a \in Attempts, EngineReport(a) PROVE IInv'
<1> USE InstanceAssumption DEF IInv, EngineReport, journal, world, TypeOK
<1>1. TypeOK'
  BY DEF Checkpoints, Phases, PCs
<1>2. LockedCommands' /\ LockedEngines' /\ OneCommand'
  BY DEF LockedCommands, Locked, Committed, LockedEngines, OneCommand
<1>3. EngineOfCommand' /\ OneEngine'
  BY DEF EngineOfCommand, Alive, Locked, Committed, Waiting, LockedEngines, OneCommand,
      OneEngine
<1>4. NothingYet' /\ OneRegistrant'
  BY DEF NothingYet, Untouched, Launched, Registering, OneRegistrant
<1>5. LoadedView' /\ LoadedIntent' /\ LoadedCommitted' /\ LoadedFresh'
  BY DEF LoadedView, Committed, OneCommand, Locked, LoadedIntent, LoadedCommitted,
      LoadedFresh, Launched, IntentIsDurable
<1>6. Reports' /\ ResultKnown' /\ ResultTrue' /\ OneInitialized'
  BY DEF Reports, Completed, ResultKnown, ResultTrue, OneCommand, Locked, Committed,
      OneInitialized, LoadedIntent, LoadedCommitted
<1>7. JournalNamesEngine' /\ IntentIsDurable' /\ InitializedIsTrue'
  BY DEF JournalNamesEngine, Alive, EngineOfCommand, Locked, Committed, Waiting,
      IntentIsDurable, Launched, ResultKnown, NothingYet, Untouched, Registering,
      LoadedFresh, InitializedIsTrue, Completed, ResultTrue, LoadedCommitted
<1> QED
  BY <1>1, <1>2, <1>3, <1>4, <1>5, <1>6, <1>7 DEF IInv

\* With the engine goes its hold on the lock.
LEMMA EngineEndKeeps == ASSUME IInv, NEW a \in Attempts, NEW how \in {"exit0", "dead"},
                               EngineEnd(a, how) PROVE IInv'
<1> USE InstanceAssumption DEF IInv, EngineEnd, journal, world, TypeOK
<1>1. TypeOK'
  BY DEF Checkpoints, Phases, PCs
<1>2. LockedCommands' /\ LockedEngines' /\ OneCommand'
  BY DEF LockedCommands, Locked, Committed, LockedEngines, OneCommand
<1>3. EngineOfCommand' /\ OneEngine'
  BY DEF EngineOfCommand, Alive, Locked, Committed, Waiting, LockedEngines, OneCommand,
      OneEngine
<1>4. NothingYet' /\ OneRegistrant'
  BY DEF NothingYet, Untouched, Launched, Registering, OneRegistrant
<1>5. LoadedView' /\ LoadedIntent' /\ LoadedCommitted' /\ LoadedFresh'
  BY DEF LoadedView, Committed, OneCommand, Locked, LoadedIntent, LoadedCommitted,
      LoadedFresh, Launched, IntentIsDurable
<1>6. Reports' /\ ResultKnown' /\ ResultTrue' /\ OneInitialized'
  BY DEF Reports, Completed, ResultKnown, ResultTrue, OneCommand, Locked, Committed,
      OneInitialized, LoadedIntent, LoadedCommitted
<1>7. JournalNamesEngine' /\ IntentIsDurable' /\ InitializedIsTrue'
  BY DEF JournalNamesEngine, Alive, EngineOfCommand, Locked, Committed, Waiting,
      IntentIsDurable, Launched, ResultKnown, NothingYet, Untouched, Registering,
      LoadedFresh, InitializedIsTrue, Completed, ResultTrue, LoadedCommitted
<1> QED
  BY <1>1, <1>2, <1>3, <1>4, <1>5, <1>6, <1>7 DEF IInv

\* A power loss leaves a survivor and no process.
LEMMA PowerLossKeeps == ASSUME IInv, PowerLoss PROVE IInv'
<1> USE InstanceAssumption DEF IInv, PowerLoss, NoCheckpoint, journal, world, TypeOK
<1>1. TypeOK'
  BY DEF Checkpoints, Phases, PCs
<1>2. LockedCommands' /\ LockedEngines' /\ OneCommand'
  BY DEF LockedCommands, Locked, Committed, LockedEngines, Alive, OneCommand
<1>3. EngineOfCommand' /\ OneEngine'
  BY DEF EngineOfCommand, Alive, Locked, Committed, Waiting, LockedEngines, OneCommand,
      OneEngine
<1>4. NothingYet' /\ OneRegistrant'
  BY DEF NothingYet, Untouched, Launched, Registering, Alive, OneRegistrant
<1>5. LoadedView' /\ LoadedIntent' /\ LoadedCommitted' /\ LoadedFresh'
  BY DEF LoadedView, Committed, OneCommand, Locked, LoadedIntent, LoadedCommitted,
      LoadedFresh, Launched, IntentIsDurable
<1>6. Reports' /\ ResultKnown' /\ ResultTrue' /\ OneInitialized'
  BY DEF Reports, Completed, ResultKnown, ResultTrue, OneCommand, Locked, Committed,
      OneInitialized, LoadedIntent, LoadedCommitted
<1>7. JournalNamesEngine' /\ IntentIsDurable' /\ InitializedIsTrue'
  BY DEF JournalNamesEngine, Alive, EngineOfCommand, Locked, Committed, Waiting,
      IntentIsDurable, Launched, InitializedIsTrue, Completed, ResultTrue,
      LoadedCommitted
<1> QED
  BY <1>1, <1>2, <1>3, <1>4, <1>5, <1>6, <1>7 DEF IInv

-----------------------------------------------------------------------------
(* The invariant holds throughout.                                         *)

\* No instance, no command: every part of the invariant holds.
LEMMA InitKeeps == Init => IInv
<1> SUFFICES ASSUME Init PROVE IInv
  OBVIOUS
<1>1. TypeOK
  BY InstanceAssumption DEF Init, TypeOK, NoCheckpoint, Checkpoints, Phases, PCs
<1>2. LockedCommands /\ LockedEngines /\ OneCommand /\ EngineOfCommand /\ OneEngine
  BY DEF Init, LockedCommands, LockedEngines, OneCommand, EngineOfCommand, OneEngine,
         Alive, Locked, Committed
<1>3. NothingYet /\ OneRegistrant
  BY DEF Init, NothingYet, OneRegistrant, Untouched, Launched, Registering
<1>4. LoadedView /\ LoadedIntent /\ LoadedCommitted /\ LoadedFresh
  BY DEF Init, LoadedView, LoadedIntent, LoadedCommitted, LoadedFresh, Committed
<1>5. Reports /\ ResultKnown /\ ResultTrue /\ OneInitialized
  BY DEF Init, Reports, ResultKnown, ResultTrue, OneInitialized
<1>6. JournalNamesEngine /\ IntentIsDurable /\ InitializedIsTrue
  BY DEF Init, JournalNamesEngine, IntentIsDurable, InitializedIsTrue, Alive, Launched,
         NoCheckpoint
<1> QED
  BY <1>1, <1>2, <1>3, <1>4, <1>5, <1>6 DEF IInv

\* A stuttering step changes nothing the invariant speaks of.
LEMMA StutterKeeps == ASSUME IInv, UNCHANGED vars PROVE IInv'
<1>1. TypeOK' /\ LockedCommands' /\ LockedEngines' /\ OneCommand' /\ EngineOfCommand'
      /\ OneEngine'
  BY DEF IInv, vars, TypeOK, LockedCommands, LockedEngines, OneCommand, EngineOfCommand,
         OneEngine, Alive
<1>2. NothingYet' /\ OneRegistrant' /\ LoadedView' /\ LoadedIntent' /\ LoadedCommitted'
      /\ LoadedFresh'
  BY DEF IInv, vars, NothingYet, OneRegistrant, LoadedView, LoadedIntent,
      LoadedCommitted,
         LoadedFresh, Untouched, Launched
<1>3. Reports' /\ ResultKnown' /\ ResultTrue' /\ OneInitialized'
  BY DEF IInv, vars, Reports, ResultKnown, ResultTrue, OneInitialized, Completed
<1>4. JournalNamesEngine' /\ IntentIsDurable' /\ InitializedIsTrue'
  BY DEF IInv, vars, JournalNamesEngine, IntentIsDurable, InitializedIsTrue, Alive,
      Launched
<1> QED
  BY <1>1, <1>2, <1>3, <1>4 DEF IInv

\* Every step of the instance keeps the invariant.
LEMMA StepKeeps == IInv /\ [Next]_vars => IInv'
<1> SUFFICES ASSUME IInv, [Next]_vars PROVE IInv'
  OBVIOUS
<1>1. ASSUME NEW c \in Commands, CommandStep(c) PROVE IInv'
  BY <1>1, ReserveKeeps, WriteControlKeeps, LockNewKeeps, BindKeeps, SaveRegisteredKeeps,
     AcquireLockKeeps, CheckKeeps, SaveIntentKeeps, IntentFailedKeeps, PrepareDataKeeps,
     SpawnKeeps, SucceedKeeps, GiveUpKeeps, RecordKeeps, QuitKeeps DEF CommandStep
<1>2. ASSUME NEW a \in Attempts, EngineStep(a) PROVE IInv'
  BY <1>2, EngineBeginKeeps, EngineCommitKeeps, EngineReportKeeps, EngineEndKeeps
  DEF EngineStep
<1>3. CASE PowerLoss
  BY <1>3, PowerLossKeeps
<1>4. CASE UNCHANGED vars
  BY <1>4, StutterKeeps
<1> QED
  BY <1>1, <1>2, <1>3, <1>4 DEF Next

\* The inductive invariant is an invariant.
THEOREM Invariance == Spec => []IInv
  BY InitKeeps, StepKeeps, PTL DEF Spec

-----------------------------------------------------------------------------
(* What follows.                                                           *)

\* Every variable has its type.
THEOREM TypeCorrect == Spec => []TypeOK
<1>1. IInv => TypeOK
  BY DEF IInv
<1> QED
  BY <1>1, Invariance, PTL

\* Registration, init and resume-init never run two engines on the data, however
\* commands race, die or time out: the engine shares the lock it was started under.
THEOREM EngineIsAlone == Spec => []OneEngine
<1>1. IInv => OneEngine
  BY DEF IInv
<1> QED
  BY <1>1, Invariance, PTL

\* The attempt of a running engine is in every checkpoint a power loss may leave.
THEOREM EngineIsNamed == Spec => []JournalNamesEngine
<1>1. IInv => JournalNamesEngine
  BY DEF IInv
<1> QED
  BY <1>1, Invariance, PTL

\* After the first engine no crash brings back a journal that allows a fresh init.
THEOREM IntentStays == Spec => []IntentIsDurable
<1>1. IInv => IntentIsDurable
  BY DEF IInv
<1> QED
  BY <1>1, Invariance, PTL

\* INITIALIZED is recorded only of data the recorded attempt completed itself.
THEOREM RecordIsTrue == Spec => []InitializedIsTrue
<1>1. IInv => InitializedIsTrue
  BY DEF IInv
<1> QED
  BY <1>1, Invariance, PTL

\* The revision initialize reserved for the engine's result is there when it is
\* needed, and nobody has written the journal in between.
THEOREM ResultHasRoom == Spec => []ResultFits
<1>1. IInv => ResultFits
  BY DEF IInv, ResultFits, LoadedView, LoadedCommitted, Committed
<1> QED
  BY <1>1, Invariance, PTL

\* A fresh init starts the instance's first engine, or none.
THEOREM FreshInitIsFirst == Spec => FreshOnce
<1>1. IInv /\ [Next]_vars =>
        [\A c \in Commands :
            pc[c] = "spawn" /\ pc'[c] = "wait" /\ ~resume[c] => Launched = {}]_vars
  BY DEF IInv, LoadedFresh
<1> QED
  BY <1>1, Invariance, PTL DEF Spec, FreshOnce

\* Once every checkpoint that may survive says INITIALIZED, no step of any command or
\* engine, and no power loss, changes the journal or the data or starts an engine.
THEOREM InitializedStays == Spec => InitializedIsFinal
<1>1. ASSUME IInv, [Next]_vars, \A s \in survives : s.phase = "Initialized"
      PROVE  UNCHANGED <<survives, data>> /\ Alive' = {}
  <2>1. state \in survives /\ state.phase = "Initialized" /\ survives = {state}
    BY <1>1 DEF IInv, TypeOK, OneInitialized
  <2>2. Alive = {} /\ data.stage = "INITIALIZED"
    BY <1>1, <2>1 DEF IInv, InitializedIsTrue
  <2>3. \A c \in Commands : pc[c] \notin Committed \cup {"intent", "register"}
    BY <1>1, <2>1 DEF IInv, LoadedCommitted, LoadedIntent, NothingYet, Untouched,
       NoCheckpoint, Registering
  <2>4. ASSUME NEW c \in Commands, CommandStep(c)
        PROVE  UNCHANGED <<survives, data, engine>>
    BY <2>3, <2>4 DEF CommandStep, Reserve, WriteControl, LockNew, Bind, SaveRegistered,
       AcquireLock, Check, SaveIntent, IntentFailed, PrepareData, Spawn, Succeed, GiveUp,
       Record, Quit, Goto, Committed, journal, world
  <2>5. ASSUME NEW a \in Attempts, EngineStep(a) PROVE FALSE
    BY <2>2, <2>5 DEF EngineStep, EngineBegin, EngineCommit, EngineReport,
        EngineEnd, Alive
  <2>6. CASE PowerLoss
    <3>1. survives' = survives /\ data' = data
      BY <2>1, <2>6 DEF PowerLoss
    <3>2. Alive' = {}
      BY <2>2, <2>6 DEF PowerLoss, Alive
    <3> QED
      BY <3>1, <3>2
  <2>7. CASE UNCHANGED vars
    BY <2>2, <2>7 DEF vars, Alive
  <2> QED
    BY <1>1, <2>2, <2>4, <2>5, <2>6, <2>7 DEF Next, Alive
<1>2. IInv /\ [Next]_vars =>
        [(\A s \in survives : s.phase = "Initialized") =>
            UNCHANGED <<survives, data>> /\ Alive' = {}]_vars
  BY <1>1
<1> QED
  BY <1>2, Invariance, PTL DEF Spec, InitializedIsFinal
=============================================================================
