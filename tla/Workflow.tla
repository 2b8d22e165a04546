------------------------------ MODULE Workflow ------------------------------
(***************************************************************************)
(* The installation workflow (setup/workflow.rs, workflow/application.rs,  *)
(* setup/workflow_store.rs, driven by setup/install_wizard.rs or           *)
(* operator/application.rs): plan, product file, installation,             *)
(* registration, initialization and start, each recorded in a journal      *)
(* before and after it happens.                                            *)
(*                                                                         *)
(* The workflow lock lets one process at a time open the session, so there *)
(* is one program counter; a session that ends for whatever reason is      *)
(* "closed".  Around it others act at any time: programs that create or    *)
(* move directories at the chosen paths, and commands that initialize or   *)
(* start the registration they find there, this workflow's or another one. *)
(* That includes a command this workflow asked for, which may outlive it.  *)
(*                                                                         *)
(* The journal is a Store: see Instance for state and survives.  Root      *)
(* identities (device and inode) are numbered as they appear, never reused.*)
(***************************************************************************)
EXTENDS Integers, FiniteSets

CONSTANTS MaxRoots,      \* bound on the directories made at the destinations
          Drafts,        \* contents of the product draft
          MaxRevisions,  \* the journal's MAX_REVISIONS
          MaxSurvivors,  \* bound on the checkpoints a power loss may leave
          None

ASSUME WorkflowAssumption ==
    /\ MaxRoots \in Nat \ {0}
    /\ None \notin Drafts \cup (1 .. MaxRoots)
    /\ MaxRevisions \in Nat \ {0} /\ MaxSurvivors \in Nat

Roots == 1 .. MaxRoots
Steps == {"installation", "registration"}
Phase == {"Pending", "InProgress", "Confirmed", "Unknown"}
Journals ==
    [rev : 0 .. MaxRevisions, plan : Drafts \cup {None}, generated : Phase,
     step : [Steps -> [phase : Phase, root : Roots \cup {None}]],
     initialization : Phase, start : Phase]

VARIABLES box,       \* the session directory: "absent", "partial", "complete"
          origin,    \* bound to an approved preparation (setup apply)
          pc,        \* where the session stands, and with which step or goal
          mem,       \* the journal in memory
          disk,      \* the journal's last checkpoint
          survives,  \* the checkpoints a power loss may leave as the last
          stale,     \* the Store no longer matches the disk
          draft,     \* the product draft
          drafts,    \* the drafts a power loss may leave
          product,   \* the generated file: "absent", "linked" (under its
                     \* private name too), "loose" (not synced) or
                     \* "published"; and its content
          path,      \* of each step: the root at its destination
          used,      \* how many identities have existed
          mine,      \* of each step: the roots this workflow created
          whole,     \* of each step: the roots completely installed/registered
          inst       \* of each registration: "Registered", "Intent" (an
                     \* initialization was begun) or "Initialized"

session == <<box, origin, draft, drafts, product>>
journal == <<mem, disk, survives, stale>>
roots == <<path, used, mine, whole>>
vars == <<pc, session, journal, roots, inst>>

\* A place of the session's program, and the step or goal it is about.
At(place, about) == [at |-> place, about |-> about]
Open == At("open", None)
Closed == At("closed", None)

NewJournal ==
    [rev |-> 1, plan |-> None, generated |-> "Pending",
     step |-> [k \in Steps |-> [phase |-> "Pending", root |-> None]],
     initialization |-> "Pending", start |-> "Pending"]

Init ==
    /\ box = "absent" /\ origin \in BOOLEAN
    /\ pc = Closed
    /\ mem = NewJournal /\ disk = NewJournal /\ survives = {NewJournal} /\ stale = FALSE
    /\ draft \in Drafts /\ drafts = {draft}
    /\ product = [state |-> "absent", content |-> None]
    /\ path = [k \in Steps |-> None]
    /\ used = 0
    /\ mine = [k \in Steps |-> {}]
    /\ whole = [k \in Steps |-> {}]
    /\ inst = [r \in Roots |-> "Registered"]

-----------------------------------------------------------------------------
(* The journal.                                                             *)

PhaseOf(j, k) == j.step[k].phase
RootOf(j, k) == j.step[k].root
SetPhase(j, k, p) == [j EXCEPT !.step[k].phase = p]

\* pristine: nothing has been written outside the session.
Pristine(j) ==
    /\ j.generated = "Pending"
    /\ \A k \in Steps : PhaseOf(j, k) = "Pending"
    /\ j.initialization = "Pending" /\ j.start = "Pending"

\* validate, for the fields the model keeps.
Validate(j) ==
    /\ j.plan = None => Pristine(j)
    /\ PhaseOf(j, "installation") = "Confirmed" =>
         RootOf(j, "installation") # None /\ j.generated = "Confirmed"
    /\ PhaseOf(j, "registration") # "Pending" => PhaseOf(j, "installation") = "Confirmed"
    /\ PhaseOf(j, "registration") = "Confirmed" => RootOf(j, "registration") # None
    /\ j.initialization # "Pending" => PhaseOf(j, "registration") = "Confirmed"
    /\ j.start # "Pending" => j.initialization = "Confirmed"
    /\ \A k \in Steps : PhaseOf(j, k) = "Pending" => RootOf(j, k) = None

Goto(from, to) == pc = from /\ pc' = to

\* save of the journal m, which validates it first.  An error may come before or
\* after the checkpoint was published, when the Store stays out of date, or from the
\* recheck that follows a complete save.
Save(m, ok, err) ==
    LET next == [m EXCEPT !.rev = @ + 1]
        can == ~stale /\ Validate(m) /\ m.rev < MaxRevisions
    IN  \/ /\ can
           /\ mem' = next /\ disk' = next /\ survives' = {next}
           /\ pc' \in {ok, err}
           /\ UNCHANGED stale
        \/ /\ can /\ Cardinality(survives) < MaxSurvivors
           /\ mem' = m /\ disk' = next /\ survives' = survives \cup {next}
           /\ stale' = TRUE
           /\ pc' = err
        \/ /\ mem' = m
           /\ pc' = err
           /\ UNCHANGED <<disk, survives, stale>>

\* require_capacity
Capacity(n) == ~stale /\ mem.rev + n <= MaxRevisions

-----------------------------------------------------------------------------
(* What is checked of the world.                                            *)

\* WorkflowStore::recheck, which every open, save and verification begins with:
\* a file of generated/ has one name.
Rechecks == ~stale /\ product.state # "linked"

\* The root at the registration's destination.
Here == path["registration"]

\* verify_installed_owned, inspect_owned_registration (fresh) and
\* verify_owned_binding: the root at the path is the recorded one, and complete.
Verified(k, fresh) ==
    /\ RootOf(mem, k) # None
    /\ path[k] = RootOf(mem, k)
    /\ path[k] \in whole[k]
    /\ fresh /\ k = "registration" => inst[Here] = "Registered"

\* Mutant: the draft is not compared with the plan.
VerifyPlanOnly ==
    /\ Rechecks /\ Validate(mem) /\ mem.plan # None
    /\ RootOf(mem, "registration") # None =>
         Verified("registration", PhaseOf(mem, "registration") # "Confirmed")

\* verify_plan: the plan still is the draft, and a registration root that was
\* recorded is complete.
VerifyPlan ==
    /\ Rechecks /\ Validate(mem) /\ mem.plan = draft
    /\ RootOf(mem, "registration") # None =>
         Verified("registration", PhaseOf(mem, "registration") # "Confirmed")

\* The engine makes the plan's data directory.  Another registration may be bound to
\* the same one or not.
DataExists == \E r \in mine["registration"] : inst[r] # "Registered"

\* Mutant: an attempt whose outcome is not known counts as done.
ObserveIntentAsDone(j, r) ==
    {[j EXCEPT !.initialization = p] :
        p \in IF inst[r] = "Registered" THEN {"Pending", j.initialization} ELSE {"Confirmed"}}

\* observe_initialization, of the registration r: one that was never begun is pending,
\* unless a command holds its lock just then.
ObserveInitialization(j, r) ==
    {[j EXCEPT !.initialization = p] :
        p \in CASE inst[r] = "Initialized" -> {"Confirmed"}
               [] inst[r] = "Intent" -> {"Unknown"}
               [] OTHER -> {"Pending", j.initialization}}

\* set_service.  What the service of the registration at the path does is module
\* Service's: it may have no attempt, run, or anything else.
SetService(j) == {[j EXCEPT !.start = p] : p \in {"Pending", "Confirmed", "Unknown"}}

\* A complete registration stands at the path, so that it can be asked.
Answers == Here \in whole["registration"]

-----------------------------------------------------------------------------
(* The session.                                                             *)

\* create or create_prepared: the container is reserved ...
CreateBegin ==
    /\ box = "absent" /\ Goto(Closed, At("creating", None))
    /\ box' = "partial"
    /\ UNCHANGED <<origin, draft, drafts, product, journal, roots, inst>>

\* ... and its record has its one name after the first checkpoints are durable.
CreateEnd ==
    /\ Goto(At("creating", None), Open)
    /\ box' = "complete"
    /\ UNCHANGED <<origin, draft, drafts, product, journal, roots, inst>>

\* read_record: the record has one name and describes itself; it is made last.
ReadRecord == box = "complete"
\* check_files: only files of one name in generated/.
CheckFiles == product.state # "linked"
\* What open_existing asks of a session.
CanResume == ReadRecord /\ CheckFiles

\* load: the journal is decoded, the draft opened, and the journal validated.
Load == CanResume /\ Validate(disk)

\* resume or resume_prepared
Resume ==
    /\ Goto(Closed, Open)
    /\ Load
    /\ UNCHANGED <<session, journal, roots, inst>>

\* The process and what it had in memory are gone.
Gone == pc' = Closed /\ mem' = disk' /\ stale' = FALSE

\* The session ends, by choice, error or death.
Close ==
    /\ pc # Closed
    /\ UNCHANGED <<session, disk, survives, roots, inst>>
    /\ Gone

\* An operation returns an error that changes nothing more.
Abandon ==
    /\ pc.at \in {"editing", "product", "step", "failed", "observed", "init", "start"}
    /\ pc' = Open
    /\ UNCHANGED <<session, journal, roots, inst>>

\* set_inputs: other supplies or destinations end the plan.
SetInputs ==
    /\ pc = Open /\ ~origin /\ Pristine(mem)
    /\ Save([mem EXCEPT !.plan = None], Open, Open)
    /\ UNCHANGED <<session, roots, inst>>

\* set_field, edit: an accepted change first drops the plan.
Edit ==
    /\ pc = Open /\ ~origin /\ Pristine(mem)
    /\ IF mem.plan = None
       THEN pc' = At("editing", None) /\ UNCHANGED journal
       ELSE Save([mem EXCEPT !.plan = None], At("editing", None), Open)
    /\ UNCHANGED <<session, roots, inst>>

\* Session::set saves the draft.  After an error that left a new checkpoint every
\* use of the draft fails: the session has to be opened again.
SetDraft ==
    /\ pc = At("editing", None)
    /\ \E d \in Drafts :
         /\ draft' = d
         /\ \/ drafts' = {d} /\ pc' = Open /\ UNCHANGED journal
            \/ drafts' = drafts \cup {d} /\ UNCHANGED <<disk, survives>> /\ Gone
    /\ UNCHANGED <<box, origin, product, roots, inst>>

\* prepare: a plan for destinations that do not exist.
Prepare ==
    /\ pc = Open /\ Pristine(mem) /\ Rechecks
    /\ \A k \in Steps : path[k] = None
    /\ ~DataExists
    /\ Save([mem EXCEPT !.plan = draft], Open, Open)
    /\ UNCHANGED <<session, roots, inst>>

-----------------------------------------------------------------------------
(* apply_with_guard.                                                        *)

\* Mutant: as if the product file were the only output.
ApplyCapacityOfProduct == 2

\* The revisions apply asks for before it begins.
ApplyCapacity == 12

\* apply (can_apply) or apply_prepared: the first record.
Apply ==
    /\ pc = Open /\ PhaseOf(mem, "registration") = "Pending"
    /\ VerifyPlan
    /\ Capacity(ApplyCapacity)
    /\ \/ /\ mem.generated = "Pending" /\ ~DataExists
          /\ Save([mem EXCEPT !.generated = "InProgress"], At("product", None), Open)
       \/ /\ mem.generated = "Confirmed"
          /\ pc' = At("step", "installation") /\ UNCHANGED journal
    /\ UNCHANGED <<session, roots, inst>>

\* write_new of the product file: link and sync ...
LinkProduct ==
    /\ Goto(At("product", None), At("unlink", None))
    /\ product.state = "absent"
    /\ product' = [state |-> "linked", content |-> draft]
    /\ UNCHANGED <<box, origin, draft, drafts, journal, roots, inst>>

\* ... and removal of the private name, which an error does not prevent, and sync.
UnlinkProduct ==
    /\ pc = At("unlink", None)
    /\ \/ pc' = At("generated", None) /\ product' = [product EXCEPT !.state = "published"]
       \/ pc' = Open /\ product' = [product EXCEPT !.state = "loose"]
    /\ UNCHANGED <<box, origin, draft, drafts, journal, roots, inst>>

\* The product file is confirmed.
Generated ==
    /\ pc = At("generated", None)
    /\ Save([mem EXCEPT !.generated = "Confirmed"], At("step", "installation"), Open)
    /\ UNCHANGED <<session, roots, inst>>

\* A pending installation or registration is recorded as begun.
BeginStep(k) ==
    /\ pc = At("step", k) /\ PhaseOf(mem, k) = "Pending" /\ VerifyPlan
    /\ path[k] = None /\ (k = "registration" => ~DataExists)
    /\ Save(SetPhase(mem, k, "InProgress"), At("reserve", k), Open)
    /\ UNCHANGED <<session, roots, inst>>

\* A confirmed installation is verified again, and registration follows.
NextStep ==
    /\ Goto(At("step", "installation"), At("step", "registration"))
    /\ PhaseOf(mem, "installation") = "Confirmed" /\ Verified("installation", FALSE)
    /\ UNCHANGED <<session, journal, roots, inst>>

\* install_owned or register_owned makes the directory, exclusively.
Reserve(k) ==
    /\ Goto(At("reserve", k), At("own", k))
    /\ path[k] = None /\ used < MaxRoots
    /\ used' = used + 1
    /\ path' = [path EXCEPT ![k] = used']
    /\ mine' = [mine EXCEPT ![k] = @ \cup {used'}]
    /\ UNCHANGED <<session, journal, whole, inst>>

\* The root the running step has made.
Created(k) == CHOOSE r \in mine[k] : \A q \in mine[k] : q <= r

\* The on_reserved callback records who owns it.
Own(k) ==
    /\ pc = At("own", k)
    /\ Save([mem EXCEPT !.step[k].root = Created(k)], At("fill", k), At("failed", k))
    /\ UNCHANGED <<session, roots, inst>>

\* The package is installed, or the registration completed; an error is still
\* possible afterwards.
Fill(k) ==
    /\ Goto(At("fill", k), At("confirm", k)) \/ Goto(At("fill", k), At("failed", k))
    /\ path[k] = Created(k)
    /\ whole' = [whole EXCEPT ![k] = @ \cup {Created(k)}]
    /\ UNCHANGED <<session, journal, path, used, mine, inst>>

\* The result is verified and confirmed.
Confirm(k) ==
    /\ pc = At("confirm", k) /\ VerifyPlan /\ Verified(k, TRUE)
    /\ IF k = "installation"
       THEN Save(SetPhase(mem, k, "Confirmed"), At("step", k), Open)
       ELSE \E m \in ObserveInitialization(SetPhase(mem, k, "Confirmed"), Here) :
              Save(m, Open, Open)
    /\ UNCHANGED <<session, roots, inst>>

\* The installer or the registration fails before, during or after its work.
StepFails(k) ==
    /\ \E place \in {"reserve", "own", "fill", "confirm"} :
         Goto(At(place, k), At("failed", k))
    /\ UNCHANGED <<session, journal, roots, inst>>

\* Mutant: whatever failed may be tried again.
RecordFailureAsPending(k) ==
    /\ pc = At("failed", k)
    /\ Save([mem EXCEPT !.step[k] = [phase |-> "Pending", root |-> None]], Open, Open)
    /\ UNCHANGED <<session, roots, inst>>

\* What failed before anything was reserved is pending again, all else unknown.
RecordFailure(k) ==
    /\ pc = At("failed", k)
    /\ Save(SetPhase(mem, k, IF RootOf(mem, k) = None /\ path[k] = None
                             THEN "Pending" ELSE "Unknown"), Open, Open)
    /\ UNCHANGED <<session, roots, inst>>

-----------------------------------------------------------------------------
(* reconcile, initialize, start, wait.                                      *)

Parts == {"generated"} \cup Steps

\* The parts are examined in this order; the first that is refused ends it.
Prefixes == {{}, {"generated"}, {"generated", "installation"}, Parts}

\* A part that was begun is there as planned.
Examined(p) ==
    IF p = "generated"
    THEN mem.generated # "Pending" =>
           product.state \in {"loose", "published"} /\ product.content = mem.plan
    ELSE PhaseOf(mem, p) # "Pending" => Verified(p, PhaseOf(mem, p) # "Confirmed")

\* The examined parts that were begun are confirmed, in memory.
Reconciled(j, parts) ==
    [j EXCEPT !.generated = IF @ # "Pending" /\ "generated" \in parts THEN "Confirmed" ELSE @,
              !.step = [k \in Steps |->
                          IF PhaseOf(j, k) # "Pending" /\ k \in parts
                          THEN [j.step[k] EXCEPT !.phase = "Confirmed"]
                          ELSE j.step[k]]]

\* can_init, can_resume_init, can_start, and the check that is always offered:
\* initialize and start reconcile first.
Offered(g) ==
    \/ g = "check"
    \/ /\ PhaseOf(mem, "registration") = "Confirmed"
       /\ \/ g = "init" /\ mem.initialization = "Pending"
          \/ g = "resume" /\ mem.initialization \in {"Unknown", "InProgress"}
          \/ g = "start" /\ mem.initialization = "Confirmed" /\ mem.start = "Pending"

\* reconcile.  The registration that is observed was verified as the workflow's own;
\* the service is observed by its path, and that may fail after all else was seen.
Reconcile(g) ==
    /\ pc = Open /\ Offered(g) /\ VerifyPlan
    /\ \E parts \in Prefixes :
         LET done == Reconciled(mem, parts)
         IN  /\ \A p \in parts : Examined(p)
             /\ \/ parts # Parts /\ mem' = done /\ pc' = Open
                \/ /\ parts = Parts
                   /\ \E seen \in (IF PhaseOf(mem, "registration") = "Pending" THEN {done}
                                   ELSE ObserveInitialization(done, Here)) :
                        \/ /\ pc' = At("observed", g)
                           /\ mem' \in (IF mem.start = "Pending" THEN {seen}
                                        ELSE SetService(seen))
                        \/ /\ mem.start # "Pending" /\ pc' = Open
                           /\ mem' = [seen EXCEPT !.start = "Unknown"]
    /\ UNCHANGED <<session, disk, survives, stale, roots, inst>>

\* A part of which it is not known what became.
Unsettled(p) ==
    (IF p = "generated" THEN mem.generated ELSE PhaseOf(mem, p)) \in {"InProgress", "Unknown"}

\* reconcile_application, of setup apply: it examines what is unsettled only, and
\* observes neither initialization nor service.
ReconcileApplication ==
    /\ pc = Open /\ origin /\ VerifyPlan
    /\ \E p \in Parts : Unsettled(p)
    /\ \E parts \in Prefixes :
         /\ \A p \in parts : Unsettled(p) => Examined(p)
         /\ mem' = Reconciled(mem, parts)
         /\ pc' = IF parts = Parts THEN At("observed", "check") ELSE Open
    /\ UNCHANGED <<session, disk, survives, stale, roots, inst>>

\* What a reconciliation is for.
Goals == {"check", "init", "resume", "start"}

SaveReconciled(g) ==
    /\ pc = At("observed", g)
    /\ Save(mem, CASE g = "check" -> Open
                   [] g = "start" -> At("start", None)
                   [] OTHER -> At("init", g), Open)
    /\ UNCHANGED <<session, roots, inst>>

\* initialize: the intent.
BeginInit(g) ==
    /\ pc = At("init", g) /\ PhaseOf(mem, "registration") = "Confirmed"
    /\ Capacity(3)
    /\ g = "init" => ~DataExists
    /\ Save([mem EXCEPT !.initialization = "InProgress"], At("initializing", None), Open)
    /\ UNCHANGED <<session, roots, inst>>

\* initialize: the command is given the path, and answers for the registration that
\* stands there, which nobody compares with the recorded root.  UNKNOWN after an error.
InitReturns ==
    /\ Goto(At("initializing", None), At("returned", None))
    /\ \/ Answers /\ mem' \in ObserveInitialization(mem, Here)
       \/ mem' = [mem EXCEPT !.initialization = "Unknown"]
    /\ UNCHANGED <<session, disk, survives, stale, roots, inst>>

\* initialize: the result is saved.
SaveResult ==
    /\ pc = At("returned", None)
    /\ Save(mem, Open, Open)
    /\ UNCHANGED <<session, roots, inst>>

\* start: the intent.
BeginStart ==
    /\ pc = At("start", None) /\ mem.initialization = "Confirmed" /\ mem.start = "Pending"
    /\ Capacity(3)
    /\ Save([mem EXCEPT !.start = "InProgress"], At("starting", None), Open)
    /\ UNCHANGED <<session, roots, inst>>

\* start: the result, or UNKNOWN after an error.
StartReturns ==
    /\ pc = At("starting", None)
    /\ \/ Answers /\ \E m \in SetService(mem) : Save(m, Open, Open)
       \/ Save([mem EXCEPT !.start = "Unknown"], Open, Open)
    /\ UNCHANGED <<session, roots, inst>>

\* wait: what is observed of the attempt is saved.
Wait ==
    /\ pc = Open /\ mem.start # "Pending" /\ Capacity(1)
    /\ \/ Answers /\ \E m \in SetService(mem) : Save(m, Open, Open)
       \/ Save([mem EXCEPT !.start = "Unknown"], Open, Open)
    /\ UNCHANGED <<session, roots, inst>>

-----------------------------------------------------------------------------
(* The world around.                                                        *)

\* Somebody else makes a directory at a destination: a complete copy, which is
\* the hardest to tell from the workflow's own.
Foreign(k) ==
    /\ path[k] = None /\ used < MaxRoots
    /\ used' = used + 1
    /\ path' = [path EXCEPT ![k] = used']
    /\ whole' = [whole EXCEPT ![k] = @ \cup {used'}]
    /\ UNCHANGED <<pc, session, journal, mine, inst>>

\* The operator removes a directory or moves it away ...
Remove(k) ==
    /\ path[k] # None
    /\ path' = [path EXCEPT ![k] = None]
    /\ UNCHANGED <<pc, session, journal, used, mine, whole, inst>>

\* ... and may put a complete registration back.
PutBack ==
    /\ Here = None
    /\ \E r \in whole["registration"] : path' = [path EXCEPT !["registration"] = r]
    /\ UNCHANGED <<pc, session, journal, used, mine, whole, inst>>

\* A command begins to initialize the registration at the path, see module Instance.
EngineInit ==
    /\ Answers /\ inst[Here] = "Registered"
    /\ inst' = [inst EXCEPT ![Here] = "Intent"]
    /\ UNCHANGED <<pc, session, journal, roots>>

\* It succeeds, wherever that directory is by now, or one that resumes it does.
EngineDone(r) ==
    /\ inst[r] = "Intent"
    /\ inst' = [inst EXCEPT ![r] = "Initialized"]
    /\ UNCHANGED <<pc, session, journal, roots>>

\* What a power loss may leave of the product file.
Remains(state) ==
    CASE state = "linked" -> {"absent", "linked"}
      [] state = "loose" -> {"absent", "linked", "published"}
      [] OTHER -> {state}

PowerLoss ==
    /\ disk' \in survives /\ survives' = {disk'}
    /\ draft' \in drafts /\ drafts' = {draft'}
    /\ \E state \in Remains(product.state) :
         product' = [product EXCEPT !.state = state]
    /\ Gone
    /\ UNCHANGED <<box, origin, roots, inst>>

Next ==
    \/ CreateBegin \/ CreateEnd \/ Resume \/ Close \/ Abandon
    \/ SetInputs \/ Edit \/ SetDraft \/ Prepare
    \/ Apply \/ LinkProduct \/ UnlinkProduct \/ Generated \/ NextStep
    \/ \E k \in Steps :
         \/ BeginStep(k) \/ Reserve(k) \/ Own(k) \/ Fill(k) \/ Confirm(k)
         \/ StepFails(k) \/ RecordFailure(k)
         \/ Foreign(k) \/ Remove(k)
    \/ ReconcileApplication
    \/ \E g \in Goals : Reconcile(g) \/ SaveReconciled(g) \/ BeginInit(g)
    \/ InitReturns \/ SaveResult \/ BeginStart \/ StartReturns \/ Wait
    \/ PutBack \/ EngineInit \/ (\E r \in Roots : EngineDone(r)) \/ PowerLoss

Spec == Init /\ [][Next]_vars

-----------------------------------------------------------------------------
(* Properties.                                                              *)

TypeOK ==
    /\ mem \in Journals /\ disk \in Journals /\ survives \subseteq Journals
    /\ disk \in survives
    /\ path \in [Steps -> Roots \cup {None}]

\* An initialization that is as j says: of the registration j records, or of another
\* one that was put in its place, which initialize does not tell from it; never of a
\* directory of this workflow that j does not record.
InitializedFor(j) ==
    \E r \in whole["registration"] :
        /\ inst[r] = "Initialized"
        /\ r = RootOf(j, "registration") \/ r \notin mine["registration"]

\* CONFIRMED is true: in every checkpoint that may survive, a confirmed
\* installation or registration is complete and was created by this workflow
\* (never an equal directory found later), and a confirmed initialization is one that
\* was completed, of the recorded registration unless another one took its place.
ConfirmedIsTrue ==
    \A s \in survives :
        /\ \A k \in Steps : PhaseOf(s, k) = "Confirmed" =>
             RootOf(s, k) \in mine[k] \cap whole[k]
        /\ s.initialization = "Confirmed" => InitializedFor(s)

\* What was begun is never begun again: while a root the workflow made is at its
\* destination, no checkpoint a power loss may leave has that step pending.
NotRepeated ==
    \A k \in Steps : path[k] \in mine[k] =>
        \A s \in survives : PhaseOf(s, k) # "Pending"

\* What happened can be recorded: from the first output on, neither the revision
\* limit nor validate stands in the way of the record that follows.
OutcomeFits ==
    pc.at \in {"product", "unlink", "generated", "reserve", "own", "fill", "confirm",
               "failed", "initializing", "returned", "starting"} /\ ~stale =>
        mem.rev < MaxRevisions /\ Validate(mem)

\* What was reviewed is what is applied: a product file that exists has the content
\* of the plan in every checkpoint that may survive, and each of them records it.
AppliedAsPlanned ==
    product.state # "absent" =>
        \A s \in survives : s.generated # "Pending" /\ s.plan = product.content

\* A session whose product file was generated, with its exact content, can be
\* resumed after an interruption.
ProductIsConfirmable ==
    pc = Closed /\ product.state # "absent" => CanResume
=============================================================================
