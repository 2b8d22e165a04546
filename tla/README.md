# bxdl: a TLA+ verification project

bxdl packages, installs and operates a NIGO node: a command line tool whose
commands are short-lived processes that share directories. There is no server.
Correctness rests on a few mechanisms: append-only journals without locks, one
advisory lock per instance, durable intents written before anything is touched,
and single-use attempts. This project models those mechanisms, checks them with
TLC on small instances and proves the ones that matter most with TLAPS.

Paths below are relative to the repository root.

## 1. The system

| Component | State it keeps | Operations | What makes it hard |
|---|---|---|---|
| Checkpoint store (`src/setup/store.rs`) | a directory of immutable, numbered revision files, private temporary names, one optional output | create, open, read, save, write_new | writers take no lock; death or power loss between any two system calls |
| Instance (`src/engine/instance.rs`, `instance_fs.rs`, `managed.rs`) | control directory, operation lock, journal of phases, attempt directories, data directory | register, init, resume-init, show, preflight, verify | engine outlives its command; timeouts that do not kill; saves that fail after publishing |
| Service (`src/engine/instance/service.rs`, `src/engine/launchd.rs`) | service journal, one launchd job per attempt, stop requests, reports | start, run_gate (worker), status, stop, confirm | three processes per attempt, launchd may enter a job again, observations at different moments |
| Supply (`src/engine/instance/supply.rs`) | `trust/` copies of archive, lock, key | retain, verify | partial copies |
| Result validators (`src/engine/init_result.rs`, `runtime_result.rs`) | none | validate reports | order and identity of report lines |
| Package install (`src/install.rs`, `src/install/`) | the destination root, its files and receipt | install, verify_installed | crash during copy, directories that reach the disk in any order, racing installers |
| Setup workflow (`src/setup/workflow*.rs`, `install_wizard.rs`) | session container with lock, journal, draft and generated product file | create, resume, edit, prepare, apply, reconcile, initialize, start, wait | ownership of half-made directories after a crash; foreign directories; saves that fail half-way |
| Preparation (`src/setup/preparation*`) | a journal and a draft, two stores; generated files of numbered revisions | create, resume, set inputs, set field, select node, prepare, check, inspect | two stores that are saved one after the other; inspection without a lock; supplied files that change |
| Catalog, home, target (`src/operator/`) | the home, its catalog of names bound to instances | add, refresh, rename, remove, resolve | memory kept across prompts; directories replaced behind an entry |
| Setup apply (`src/operator/application.rs`, `src/setup/workflow/application.rs`) | the operation of a name, bound to a review | apply, resume | an old operation continued under a new approval |
| Management CLI (`src/management/`) | releases, activation records, the `current` link, the entry link | install, update, rollback, info | crash between the steps of a switch, racing first installs, unsynced renames |
| Executor (`src/engine/instance/executor*`) | child process, reply | delegate, collect | a child that outlives its deadline, an exchanged directory, bounded output |
| Diagnostics (`src/engine/diagnostic*`, `instance/diagnostics.rs`) | none persisted but the output | logs, diagnose | reading while others write, a byte budget |
| Artifact, runtime, config (`src/artifact`, `src/runtime.rs`, `src/config`) | outputs of a build | build, verify, validate | trust before the first byte is installed |
| CLI and presentation (`src/cli.rs`, `src/operator/`) | none | parse, dispatch, render | none |

How they interact: every durable record goes through the checkpoint store or
`write_new`. Instance and service share the operation lock of one control
directory; both hand the lock's open file description to the engine they start,
so that it stays taken while the engine lives. The workflow calls install and
register and records ownership in callbacks. The catalog only points at control
directories. `setup apply` reads a preparation, runs the workflow and binds the
name in the catalog. Status, diagnostics and the executor look at a service
without its lock, or through a child that takes it.

## 2. Modules

`Journal` is the abstract specification of a store: one growing history, a
durable prefix and the set of acknowledged entries. Power loss cuts the history
to a length not below the durable prefix.

`Store` is `setup/store.rs`. A directory is a record of published names and
private names; `survivable` is the set of directories a power loss may leave.
Each system call that changes the directory (`CreateDir`, `CreateTemp`, `Link`,
`Unlink`, `Drop`) adds its result to that set, each directory sync
(`SyncParent`, `SyncPublished`, `SyncUnlinked`) leaves only the present one.
`save` is `SaveBegin`, `CreateTemp`, `WriteSync`, `Recheck`, `Link`,
`SyncPublished`, `Unlink`, `SyncUnlinked`, `Verify`; `write_new` starts with
`WriteNewBegin` and shares the rest. `Fail` is an error at any of them, `Drop`
the destructor that follows it.

`Instance` is registration and initialization. `state` is the journal's last
checkpoint and `survives` the checkpoints a power loss may leave as the last;
this pair is what `Store` guarantees: a save that returned Ok is the only
survivor, one that returned an error may or may not have published. `holders`
are the processes that have the lock's description open. The actions follow
`register_owned` (`Reserve` ... `SaveRegistered`) and `initialize`
(`AcquireLock`, `Check`, `SaveIntent`, `PrepareData`, `Spawn`, `Succeed` or
`GiveUp`, `Record`). `Quit` is an error return or the death of the process at
any step.

`Service` is start, the gate and stop. The instance is INITIALIZED throughout,
which `Instance` shows to be final. `entries[a]` counts how often launchd
entered the job of attempt `a` and stands for the pid of its process. A worker
goes entered, locked, stages, go, exec, engine, or to refuse. stop is split at
each of its observations: journal, launchd, report. start is split where
another process can come between: the unload of an earlier job, the pinned inputs
and the cold preflight, the private snapshots, the job's files, the record, the
bootstrap. Each of these may refuse: what is looked at is a record of facts about
a file, a process or an answer (`PinnedPaths`, `ColdRuns`, `JobFiles`, ...), and
the code's checks are predicates over it (`OpenPinned`, `ColdRun`,
`RecheckFiles`, ...), of which only the outcome matters to what follows. A stop
request names the pid that stop had read from the journal (`requests`); one left
by another stop may name another, and is then an error.

`Install` is `install_owned`. A root is named by the installer that made it, for
its device and inode. For each directory of a root `kept` holds the contents a
power loss may leave, so that two directories may survive at different moments;
`sync_dir` reduces the set of one directory. The actions follow
`Installer::reserve` (`Reserve`, `Anchor`, `Own`), the payload sink
(`StartFile`, `FinishFile`), `commit` (`ArchiveVerified`, `SetMode`,
`WriteManifest`, `SyncRoot`, `WriteTemp`, `Link`, `Unlink`, `Publish`) and the
destructor of `ReceiptPublication` (`Drop`). `Verifies` is what
`verify_installed_owned` asks. The archive is verified while it is read:
`OpenArchive` and `Trust` decide on the options and the manifest, `Begin`,
`EntryRefused` and `PayloadRefused` on each header and payload, `EndRefused` on
the trailer. What an archive holds is chosen as it is read: headers, names,
manifest and signature are records of facts, and `ReadHeader`, `ValidPath`,
`ValidManifest`, `NoAliases`, `ReadEnd` the rules over them. Payload files lie
below directories that may be nested (`Up`, `Way`): each directory on the way is
made and synced into its parent before the file is begun (`FileParent`), one
system call at a time.

`Workflow` is one installation session. Its lock admits one process, so there is
one program counter, `pc`: a place, and the step or goal it is about. The journal
is kept three times: in memory (`mem`), as last published (`disk`) and as a power
loss may leave it (`survives`). `Save` stands for every save: it validates, may
succeed, may fail before it publishes, and may fail after (then the in-memory
Store is `stale` and refuses everything until the session is opened again).
`Reconcile` confirms, in memory, the parts it has examined when it fails at the
next one, as `reconcile` does. Installation and registration are the two values
of one step, whose code is the same twice; what happens inside is `Install` and
`Instance`. Around the session others may put complete directories at its
destinations, remove directories and move them back, and initialize or start
whatever registration they find at the path (`Here`). So does the session itself:
`Workflow::initialize` gives the path to the instance's `init` and never compares
the root there with `journal.registration.root`, so that somebody else's
registration, put there after the intent was saved, may be initialized and
recorded CONFIRMED. `inst` is therefore kept for each directory, and
`ConfirmedIsTrue` promises of an initialization what the code gives: it was
completed, for the recorded registration or for one that this workflow has not
made. The service behind start is abstract here: it answers or does not.

`Management` is `bxdl cli install`, `update`, `rollback` and `info`. The root is
published by one rename (`Create`), a release by another (`PublishRelease`, made
durable by `SyncReleases`), an activation is a numbered record that is made,
filled and linked (`MakeActivation`, `FillActivation`, `LinkActivation`), and
`Switch` renames the temporary link over `current`. `curSafe` and `relSafe` are
what a power loss leaves. `stage` adopts a release that is visible although its
publisher died before syncing it; such releases are named in `orphans`, and
`SelectionWhole` exempts them. Left-over `.current-*` links count toward the
root's 64-entry limit, after which every command refuses: `MaxLinks` brings that
about. `ReadBundle` and `Authenticate` decide on a supply before anything is
touched. `Admission` is asked of the release that is current and of the one
before it, also after the switch (`Confirm`) and when nothing changes
(`Recorded`).

`Catalog`, `Preparation` and `Operator` are one machine's management home.
`Catalog` has processes that remember the catalog across a prompt and save it
under the writer lock; `Preparation` adds the one preparation with its journal,
its draft and the generated files; `Operator` composes both with `setup apply`.
What a store compares (revision numbers) is kept as "is my copy the last
checkpoint". Answers and inputs are numbers, 0 while incomplete; `Clash` says
which of them name overlapping paths. The supplied files share one version
number. Verifying the archive between two equal observations is one step.
Installation
and registration are one step with its outcomes, since `Workflow` has them in
detail, and so is the creation of a session container. The checks of setup apply
are kept apart as in the code: `SourceRecheck` and `Fresh` before each mutation
(`Guard`), `CheckOrigin` only on resume and at the start and end of
`apply_prepared`. What the user approved is recorded at the prompt (`yes`), in the
run that shows it, and kept with the registration that this run records.

`Node`, `Reports`, `Status`, `Diagnosis`, `Executor` and `Observe` put observers
beside `Service`. `Node` adds the rows of each attempt's report and who listens
on the instance's port: its engine or any other program. `Reports` has the
validators of `runtime_result.rs` as predicates over classes of values. `Status`
is one look (journal, lock, launchd, report, bootstrap, health, then bootstrap,
launchd, lock and report once more) and the wait around it; `status` is a wait
whose time is up after the first look. `Diagnosis` reads within its budget,
looks again, and writes a new file, which others may have made before it or
replace after it. Its probe of the lock is the `Probe` of `Service`. `Executor`
checks the package's own bxdl, spawns it and reads a reply; its child is one
command of `Service` or an init, a look or a diagnosis, and the instance's
directory may be exchanged and put back at any time but while the child is at
work on it. The directory it finds may be a "twin" that carries the same
instanceId: the reply names only that label, and a diagnosis not even that. In
`Observe` one of the three works at a time. They are processes of the same
machine: a power loss ends them too, and what they have said stays said.

| Module | Role |
|---|---|
| `Journal`, `Store`, `Instance`, `Service`, `Install`, `Workflow`, `Management` | specifications |
| `Catalog`, `Preparation`, `Node`, `Reports`, `Status`, `Diagnosis`, `Executor` | parts of compositions |
| `Operator` | composes `Catalog`, `Preparation` and setup apply |
| `Observe` | composes `Service`, `Node`, `Status`, `Diagnosis` and `Executor` |
| `MCStore`, `MCInstance`, `MCService`, `MCInstall`, `MCWorkflow`, `MCManagement`, `MCOperator`, `MCObserve` | small instances and symmetry sets for TLC |
| `StoreProofs`, `InstanceProofs`, `ServiceProofs`, `InstallProofs`, `WorkflowProofs`, `ManagementProofs`, `OperatorProofs`, `ObserveProofs` | theorems with TLAPS proofs |

Definitions whose comment begins with "Mutant" are not part of a specification.
They are deliberately wrong forms of the definition that follows them; putting
one in its place makes TLC find the property it is paired with violated.

## 3. Runs

| Run | Shows | Bounds |
|---|---|---|
| `store` | readable after any crash, acknowledged checkpoints stay, no lost update, implements Journal | 2 writers, 3 files, 2 revisions, 4 entries |
| `instance` | one engine, a fresh init once, INITIALIZED only when true and then final, room for the result | 3 commands, 4 attempts, 7 revisions |
| `service` | an attempt runs once, the journal names the engine in every surviving checkpoint, stops are true, starts do not overlap | 2 commands, 2 attempts, 3 entries of a job, 2 gate stages, 11 revisions |
| `service_full` | an attempt that was let in can record its end | as above with 9 revisions |
| `service_stop` | a stop that waits on a consumed attempt ends it | 3 commands, 1 attempt, 2 entries, no faults |
| `service_replay` | a counterexample to the comment on `run_gate` | 1 attempt |
| `install` | a receipt only over a whole package, Ok and ownership survive a power loss, a plain error leaves no receipt | 2 installers, 3 files in 3 directories, one below the other |
| `workflow` | confirmed steps are true, installation and registration the workflow's own, nothing is begun twice, outcomes fit the journal, the product file is the plan's | 3 directories, 2 drafts, 14 revisions, 2 surviving checkpoints |
| `workflow_product` | a counterexample to the design's recovery table | 1 draft, 2 directories, 15 revisions |
| `management` | the selection is whole, every release was verified under the pinned trust, reports fit what was done, "previous" is the release replaced | 2 processes, 6 supplies, 3 activations, 2 releases before a third is refused, 1 left-over link and staging directory, 2 faults |
| `operator` | a review is whole and apart from its inputs, a failed attempt never blocks the next, inspections are snapshots, what is registered was approved, names do not move | 2 processes, 2 paths, 2 names, 3 answers, 2 revisions, 3 commands, 1 fault |
| `observe` | READY and STOPPED are true of the attempt asked for, a complete diagnosis belongs together, a delegated command never has an effect it denies, nor claims one that did not happen | 1 command, 2 attempts, 9 revisions, 9 bytes, any number of exchanges; failed saves and power losses |

Why the bounds are enough. Two writers make every race on one revision; the
third file lets the loser go on to the next revision; the output is the third
name. Three commands are one that left an engine behind, one that resumes and
one that interferes. Four attempts and seven revisions let the journal run full
in the middle of an attempt. In `Service` two attempts need eleven revisions
with two stages (the code has seven stages and 4096 revisions; the stages only
repeat one step), a third entry of a job is a replay after a busy entry and a
real one. `MaxEntries` of `Store` is reached by orphaned private names. In
`Install` the second file of a subdirectory makes it change after the root was
synced, the file of the deepest one needs three directories made on the way, and
the second installer finds what the first has left. In `service_stop` the third
command probes the lock while one starts and one stops. In `Workflow` three
directories are the two of the session and one foreign one; `apply` asks for
twelve revisions, so that fourteen let an apply, an initialization and a start
through and put the limit in the middle of each. In `Management` the supplies
are three releases, two unsigned builds under the identity of the first, and one
of a development revision; three activations are an install, an update and a
rollback, and two faults a death and what it meets later. `operator` starts on a
machine without a home, or after two commands have prepared revision 1 and an
apply of it was interrupted; three answers are the reviewed one, an edit, and
one that clashes with the inputs. In `observe` only the first attempt's job is
kickstarted again (`FewKickstarts`), a second command would only repeat what
`service` checks, and the service pauses while the collector writes its output,
which nothing in the service reads. Nine bytes run out within the second
journal. Two exchanges put another directory in the place of the instance's and
back. `Faults` names what may go wrong in the service: a "save" that fails
before or after it published, a "process" that dies, the "power". `service` and
`service_full` have all three. `observe` has saves and power, since only
together do they take a checkpoint back that an observer has read; the engine
fails and crashes there in any case, and the theorems of `ObserveProofs` are for
every choice of faults and any number of exchanges.

Fairness (`service_stop` only): a process that was started goes on (weak
fairness of its steps), and an engine that was sent TERM shuts down, which is
what `stop` itself waits for. Nothing is assumed of launchd or of users. The run
leaves out deaths, failed saves and power losses (`Faults = {}`): after a death
of the engine no report is written and stop, rightly, never verifies.

Two findings. `run_gate` takes the operation lock before it consumes the attempt.
A worker that meets the lock of a status probe exits with INSTANCE_BUSY and
consumes nothing, so a kickstart of the same job runs the engine, against the
comment at `src/engine/instance/service.rs:518`. `ExecOnce` still holds: the
attempt runs at most once. And a process that dies in `write_new` of the product
file, between the hard link and the removal of the private name, leaves a file
with two links in `generated/`. `WorkflowStore::recheck` accepts that in the two
stores but not there, so the session can no longer be opened, while
`design/2026-09-27-setup-install-flow.md:86` has its intent and content confirmed.

## 4. Proofs

`StoreProofs` proves, for every set of writers and files and every limit, that
`Store` keeps its types (`TypeCorrect`), that acknowledged publications are
durable (`AcknowledgedIsDurable`), that every directory left behind is readable
(`AlwaysRecoverable`), that no update is lost (`UpdatesAreNotLost`) and that it
implements `Journal` (`StoreImplementsJournal`). The only assumption is
`StoreAssumption`. None of the three invariants is inductive. The inductive
invariant `IInv` adds: survivors agree with the present directory up to a prefix
(`Prefix`), each revision rests on the one before it (`Based`), published files
are complete (`Complete`), a file has one published name (`Distinct`), what a
process has loaded is still there (`Views`), what it is about to publish is
private to it and rests on what it has loaded (`Pendings`), and what it has
published is durable once synced (`Published`). That a hard link fails on an
existing name is the step that makes `Based` inductive without a lock. The
refinement maps the history to the revisions of the present directory and its
durable length to the shortest history that may survive, which exists because
the naturals are well founded (`ShortestExists`). A link of a revision is
`Publish` (`LinkPublishes`), a directory sync `Harden` (`SyncHardens`), the end
of `save` `Acknowledge` (`VerifyAcknowledges`), a power loss `Truncate`
(`PowerLossTruncates`); every other step, the link of an output file included,
changes nothing of the journal.

`InstanceProofs` proves all the safety properties of `Instance`, for every set of
commands and attempts and every limit of the journal: types, one engine at a
time (`EngineIsAlone`), the journal names the engine that runs (`EngineIsNamed`),
an intent outlives a power loss (`IntentStays`), INITIALIZED is true
(`RecordIsTrue`) and final (`InitializedStays`), the result has room
(`ResultHasRoom`) and a fresh init is the first (`FreshInitIsFirst`). The only
assumption is `InstanceAssumption`. The inductive invariant says who holds the
lock: at most one command, and an engine only together with the command that
waits for it or alone (`LockedCommands`, `LockedEngines`, `OneCommand`,
`EngineOfCommand`); that nothing has happened while the one registrant is at
work (`NothingYet`, `OneRegistrant`); that a command with the lock has loaded
the journal as it is (`LoadedView`, `LoadedIntent`), and after its intent is
saved no power loss can bring back another (`LoadedCommitted`, `LoadedFresh`);
and that a report is only there when its author completed the data (`Reports`,
`ResultTrue`). The first group is needed because the engine inherits the lock
and outlives its command, the third because `Record` writes without looking
again. There is one lemma per action and one step per group of conjuncts.

`ServiceProofs` proves every safety property of `Service`, for every set of
commands and attempts, every number of stages and every limit, with faults and
without, from `ServiceAssumption`: an attempt is executed once (`ExecutesOnce`),
the journal names the engine (`EngineIsNamed`), a stop is true and stays so
(`StoppedStays`), the end has room (`EndHasRoom`) and attempts do not overlap
(`AttemptsDoNotOverlap`). What carries the proof is the operation lock: at most
one process has it (`OneHolder`), a worker from its second step to its end and a
command while it changes anything (`Held`, `Holds`). With it, a worker past the
gate relies on every surviving checkpoint naming it (`Admitted`), and before it
is the engine also on having the last checkpoint and on its attempt never having
been executed (`Ahead`); a command on its way to a new attempt relies on the one
before being resolved (`Resolved`) and on its own being new (`Chosen`).
`Recorded` counts, for each surviving checkpoint, the revisions that must be
left for what may follow it: without it `EndFits` is not inductive, since the
reserve was taken several saves earlier. `NeverRan` says that an attempt without
a directory never ran.

`InstallProofs` proves the four properties of `Install` for every set of
installers, files and directories, from `InstallAssumption` and
`ManifestAssumption`: `ReceiptIsProof`, `OkIsKept`, `FailedLeavesNone` and
`OwnerIsDurable`. A root is changed only by the installer that made it. So the
invariant describes each root by the place of its own installer (`RootInv`): what
is present (`Present`), written and synced so far (`Unpacking`, `Finishing`,
`Sealed`) and, since a power loss may take any subset of the unsynced names,
what every image has in common (`Whole`, `NoReceipt`).

`WorkflowProofs` proves the properties of `Workflow` for every bound and set of
drafts, from `WorkflowAssumption`: `ConfirmedHolds`, `NothingIsRepeated`,
`OutcomesFit`, `PlanIsApplied`. The properties speak of the checkpoints a power
loss may leave, while the next one is made from the journal in memory; the
invariant therefore asks the same of both (`Good`), and for each place of the
program (`Place`) says what the save before it has established: that it is the
only checkpoint left (`Alone`), what has been begun (`Begun`, `Fresh`), that it
validates (`Sound`) and how many revisions remain (`Room`).

`ManagementProofs` proves `SelectionIsWhole`, `TrustIsKept`, `ReportIsTrue` and
the action property `RollbackUndoes`, for every set of processes, bundles and
trust options, from `ManagementAssumption`. The invariant says what a call
carries from step to step: a bundle verified under the trust that is pinned by the
time it is staged (`Carried`), the lock (`LockHeld`), the selection that was read
(`Chosen`) and the activation made for it (`Ready`); and that whatever is
published is synced, about to be synced, or left by a call that died (`Durable`).

`OperatorProofs` proves the properties of `Operator`, `Preparation` and `Catalog`
as composed, for every set of processes, paths, names, answers and inputs, from
`CatalogAssumption`, `PreparationAssumption` and `OperatorAssumption`:
`ReviewStaysWhole`, `RetryIsPossible`, `InspectionIsSnapshot`, `ApprovalIsKept`
and the action property `NamesStay`. On the preparation's side (`SesInv`) a copy
called current is what is stored (`Stored`), whoever edits has the workspace
lock (`Writer`), the review is withdrawn before the draft or the files change
(`Withdrawn`), and the files of a reserved revision come in their order
(`Written`). `RecordReview` compares only the journal; that the draft is still
the one prepared (`Prepared`) follows from the lock. On the catalog's side
(`CallInv`) a memory called current is the catalog (`Current`), the lock covers
the time from the comparison to the save (`Locked`), and a refresh keeps the
root that is listed (`Refreshing`); with the uniqueness of paths, roots and
names (`Distinct`) and the binding of each name (`Bindings`) that makes every
save stable (`WantedIsStable`).

`ObserveProofs` proves the properties of `Observe` for every set of commands and
attempts, every choice of faults and every bound, from `ServiceAssumption`,
`NodeAssumption`, `NodeRoleAssumption`, `DiagnosisAssumption` and
`ExecutorAssumption`: `ReadyWasServed`, `EndedStaysTrue`, `DiagnosesAreWhole` and
`EffectsAreTold`. Its invariant `ObserveInv` contains the one of `ServiceProofs`,
a few more facts about the service (`MoreInv`), what the reports and the port say
of each attempt (`NodeInv`), and one part per observer (`ObsInv` and `AnswerInv`,
`DiagInv`, `ExeInv`). An observer acts on what it read earlier, without a lock;
what makes that right are facts that stay true once they are. An attempt that was
consumed is never prepared again (`Beyond`), one that is then not past the gate
never gets there (`Barred`), not even after a power loss has taken a checkpoint
back (`Over`), and an engine that came to RUNNING does not come to it again
(`Late`). `Moves` collects what any step of the service may do to these, once for
all actions, so that each observer's lemmas need not look at the service again.
`RevisionsGrow` is why two equal journals around the reading of a report are one
journal that did not change; `Spends` is the budget of the collector;
`ReadyServes` is what the readiness rules of `Reports` add up to.

Each of these inductive invariants was model-checked on the instance of its run
before it was proved.

Every safety property that a passing run checks is also a theorem. Only
model-checked is the liveness of `service_stop` (`StopTakesEffect`), since
fairness and ENABLED are outside the prover's reach. No theorem rests on a
recursive definition.

## 5. Assumptions and abstractions

- Directory operations reach the disk in order, and a directory sync makes all
  earlier ones durable (a journalled file system).
- A directory scan is one step. A scan torn by a concurrent writer may miss a
  name: it then finds a link count that does not fit the names it saw, or a
  gap, and fails; missing only the newest revision it returns the older state,
  which is a scan made earlier.
- Attempt identifiers and private names are unique (pid, time and a counter).
- The engine is external. Its own records are assumed ordered and durable;
  otherwise it may die, hang, ignore TERM or exit with 0 having done nothing.
- launchd runs at most one process of a job, does not restart it
  (`KeepAlive` is false) and forgets jobs at power loss.
- Checks that only read (packages, pins, configurations, identities of files)
  are part of the step that depends on them and may fail in any state.
- Foreign programs do not change the inside of bxdl's directories. In `Install`
  the operator may remove a root without receipt; in `Workflow` whole directories
  may appear and disappear at the destinations.
- An inode is not reused while its directory's owner is recorded; `OwnedIsDurable`
  is what makes this an assumption about the operator and not about power loss.
- A session container that was completely created is durable.
- A failed save of the draft ends the session: every later use of the draft
  compares it with the disk and fails.
- The management root's publication is durable when it becomes visible
  (`Root::create` syncs the parent at once).
- Which refusal a management command ends with is not kept, only that it refused.
- In `Preparation` a change of the network's own reference files counts as a
  change of the supplied files; `StepFails` is every other refusal on the way.
- The catalog's entry identifiers are left out, and its limit of 256 entries is 2.
- In `Observe` a document served over HTTP is chosen when its content is first
  used; answers that nothing depends on are not kept; `busy()` is one step (that
  it holds the lock for a moment is `Service`'s `Probe`). The engine's faults
  are `EngineFails` and `EngineCrash`; deaths of commands and workers are in
  `service`.
- `Diagnosis` counts records as one byte and a report as its rows; the instance
  is INITIALIZED, so its registration and initialization journal do not change.

## 6. Not modelled, and the plan

Not modelled: building artifacts and management bundles and staging a runtime
image (packaging tools that write one new output), the copies of
`engine/instance/supply.rs` (made before a registration counts, read-only
afterwards), configuration and preflight rules (field-by-field validation, whose
outcome is a step that may refuse), argument parsing, questions, help, completion
and rendering (no state of their own).

What the plan has left: nothing in the modules above. The liveness of
`service_stop` stays with TLC.
