------------------------------ MODULE Operator ------------------------------
(***************************************************************************)
(* `setup apply` (operator/application.rs with setup/workflow/             *)
(* application.rs and setup/preparation/application.rs) composed with the  *)
(* home, the catalog and the preparation it works on.  The operation of a  *)
(* name is bound to the review it was created from; installation and       *)
(* registration themselves are the setup workflow's and appear here as one *)
(* step with its outcomes.                                                 *)
(***************************************************************************)
EXTENDS Preparation

CONSTANT Own    \* the name of the preparation, and of the node it becomes

ASSUME OperatorAssumption == Own \in Names

\* operations/<name>: its origin, phase and root; approved is history, the review approved
\* at the prompt of the run that last recorded the registration
VARIABLE op

vars == <<catalogVars, prepVars, ses, st, calls, faults, op>>

NoOp == [src |-> NoReview, phase |-> "none", root |-> 0, approved |-> NoReview]

\* The source in memory, which the prompt shows: built from the journal that was loaded
\* when the command took the workspace lock, and never reloaded.
Source(p) == ses[p].j.review
Existing == op # NoOp

\* The callback of apply_prepared: home, preparation and catalog are as they were opened.
Fresh(p) == CheckCurrent(st[p]) /\ JournalCurrent(p) /\ DraftCurrent(p)

\* source.recheck: the stored preparation, opened anew, still gives this source - with
\* every supplied file read again, or only its own records.
SourceRecheck(p, supplied) ==
    LET s == [j |-> journal, d |-> draft] IN
    /\ IF supplied THEN Checked(s) ELSE Bound(s)
    /\ journal.review = Source(p)

\* Mutant: an existing operation continues whatever is prepared now.
AnyOrigin(p) == SourceRecheck(p, FALSE) /\ Existing

\* check_origin: the operation was created from exactly this source.
CheckOrigin(p) == SourceRecheck(p, FALSE) /\ op.src = Source(p)

\* A node of this name may exist only as this operation's confirmed result.
NameFree(c) ==
    \A e \in c.cat : e.alias = Own =>
        /\ op.phase = "registered" /\ e.path = Mine
        /\ inst[Mine] = [ident |-> e.ident, bind |-> e.bind]

\* application_binding and resume_prepared for an existing operation, application_source
\* for a new one; the prompt shows the source.
ApplyBegin(p) ==
    /\ At(p, "apply")
    /\ LET c == [st[p] EXCEPT !.at = "prompt", !.cat = catalog, !.cur = TRUE] IN
       IF /\ JournalCurrent(p) /\ DraftCurrent(p)
          /\ IF Existing THEN Bound(ses[p]) /\ CheckOrigin(p) ELSE Checked(ses[p])
          /\ NameFree(c)
       THEN Go(p, c) ELSE Done(p)
    /\ UNCHANGED <<prepVars, ses, catalogVars, faults, calls, op>>

Decline(p) ==
    /\ At(p, "prompt")
    /\ Done(p)
    /\ UNCHANGED <<prepVars, ses, catalogVars, faults, calls, op>>

\* What was shown is read again after the answer.
Approve(p) ==
    /\ At(p, "prompt")
    /\ Keep(p, [ses[p] EXCEPT !.yes = Source(p)])
    /\ IF Fresh(p) /\ SourceRecheck(p, ~Existing) THEN Step(p, "create_op") ELSE Done(p)
    /\ UNCHANGED <<prepVars, catalogVars, faults, calls, op>>

\* The namespaces need the home lock for a moment; create_prepared binds the new operation
\* to the source in its first checkpoint.  The workspace lock keeps any other run of this
\* name out, so what exists now existed before the prompt.
CreateOperation(p) ==
    /\ At(p, "create_op")
    /\ IF homeLock = Nobody /\ (Existing \/ SourceRecheck(p, TRUE))
       THEN /\ op' = IF Existing THEN op ELSE [NoOp EXCEPT !.src = Source(p), !.phase = "new"]
            /\ Step(p, "start")
       ELSE Done(p) /\ UNCHANGED op
    /\ UNCHANGED <<prepVars, ses, catalogVars, faults, calls>>

\* apply_prepared up to its plan.
Start(p) ==
    /\ At(p, "start")
    /\ CheckOrigin(p) /\ Fresh(p)
    /\ op.phase = "new" => SourceRecheck(p, TRUE)
    /\ op' = IF op.phase = "new" THEN [op EXCEPT !.phase = "planned"] ELSE op
    /\ Step(p, "run")
    /\ UNCHANGED <<prepVars, ses, catalogVars, faults, calls>>

\* What is looked at before each mutation; the origin is not.
Guard(p) == SourceRecheck(p, FALSE) /\ Fresh(p)

\* The workflow registers the instance; the registration is confirmed, or made and left
\* unconfirmed.
Register(p) ==
    /\ At(p, "run")
    /\ Guard(p) /\ op.phase = "planned" /\ inst[Mine] = Absent
    /\ fresh' = fresh + 1
    /\ inst' = [inst EXCEPT ![Mine] = [ident |-> fresh', bind |-> fresh']]
    /\ \E phase \in {"registered", "unknown"} :
          /\ op' = [op EXCEPT !.phase = phase, !.root = fresh', !.approved = ses[p].yes]
          /\ IF phase = "registered" THEN Step(p, "verify") ELSE Done(p)
    /\ UNCHANGED <<prepVars, ses, home, catalog, homeLock, faults, calls>>

\* reconcile_application confirms only the owned root; a confirmed registration needs
\* nothing.
Reconcile(p) ==
    /\ At(p, "run")
    /\ Guard(p) /\ op.phase \in {"unknown", "registered"}
    /\ op.phase = "unknown" => inst[Mine].ident = op.root
    /\ op' = [op EXCEPT !.phase = "registered", !.approved = ses[p].yes]
    /\ Step(p, "verify")
    /\ UNCHANGED <<prepVars, ses, catalogVars, faults, calls>>

\* check_origin once more and verify_application; then name binding starts from the
\* registered instance as it is found.
Verify(p) ==
    /\ At(p, "verify")
    /\ CheckOrigin(p) /\ op.phase = "registered" /\ inst[Mine].ident = op.root
    /\ HomeWhole /\ JournalCurrent(p) /\ DraftCurrent(p)
    /\ Go(p, [st[p] EXCEPT !.at = "pin", !.op = "named", !.name = Own, !.path = Mine,
                           !.snap = inst[Mine]])
    /\ UNCHANGED <<prepVars, ses, catalogVars, faults, calls, op>>

\* A guard or the workflow refuses; the operation stays as it is recorded.
ApplyFails(p) ==
    /\ st[p].at \in {"start", "run", "verify"}
    /\ Done(p)
    /\ UNCHANGED <<prepVars, ses, catalogVars, faults, calls, op>>

----------------------------------------------------------------------------

\* The process ends and lets its locks go: by itself, or killed.
Leave(p) ==
    /\ Go(p, Idle)
    /\ Keep(p, NoSession)
    /\ prepLock' = IF prepLock = p THEN Nobody ELSE prepLock
    /\ homeLock' = IF homeLock = p THEN Nobody ELSE homeLock
    /\ UNCHANGED <<made, journal, draft, gen, supply, home, catalog, inst, fresh, op, calls>>
Exit(p) == st[p].at \in {"done", "reported", "menu"} /\ Leave(p) /\ UNCHANGED faults
Kill(p) == st[p].at \notin {"idle", "done", "reported", "menu"} /\ Leave(p) /\ Fault

CatalogStep(p) ==
    /\ \/ \E path \in Paths : OpenPath(p, path) \/ \E name \in Names : AddNode(p, name, path)
       \/ \E o \in {"remove", "refresh", "new"} : Console(p, o)
       \/ OpenCatalog(p) \/ MakeHome(p) \/ Choose(p) \/ Pin(p) \/ LockHome(p) \/ SaveEntries(p)
    /\ UNCHANGED <<prepVars, ses, op>>

PreparationStep(p) ==
    /\ \/ Create(p) \/ Resume(p, "menu") \/ Resume(p, "apply")
       \/ (\E v \in Inputs : SetInputs(p, v))
       \/ (\E v \in Answers : SetField(p, v) \/ SelectNode(p, v))
       \/ SaveDraft(p)
       \/ PrepareBegin(p) \/ Reserve(p) \/ WriteProduct(p) \/ WriteNative(p)
       \/ BindPlan(p) \/ Observe(p) \/ RecordReview(p) \/ StepFails(p)
       \/ InspectJournal(p) \/ InspectDraft(p) \/ InspectAgain(p) \/ InspectReport(p)
    /\ UNCHANGED op

ApplyStep(p) ==
    \/ ApplyBegin(p) \/ Decline(p) \/ Approve(p) \/ CreateOperation(p)
    \/ Start(p) \/ Register(p) \/ Reconcile(p) \/ Verify(p) \/ ApplyFails(p)
    \/ Exit(p) \/ Kill(p)

Outside ==
    \/ (\E path \in Paths : ReplaceRoot(path) \/ RewriteRecord(path)) /\ UNCHANGED <<prepVars, ses, op>>
    \/ ChangeSupply /\ UNCHANGED op

\* A machine without a home, and one where two commands were run before:
\* revision 1 was prepared and an `apply` of it stopped after it had created
\* its operation.
Init ==
    /\ catalog = {} /\ homeLock = Nobody /\ prepLock = Nobody
    /\ inst = [path \in Paths |-> IF path = Mine THEN Absent ELSE [ident |-> 1, bind |-> 1]]
    /\ fresh = 1
    /\ st = [p \in Procs |-> Idle] /\ ses = [p \in Procs |-> NoSession]
    /\ faults = 0 /\ supply = 1
    /\ \/ /\ calls = 0 /\ home = "absent" /\ made = FALSE
          /\ journal = NoJournal /\ draft = 0 /\ op = NoOp
          /\ gen = [r \in 1 .. MaxRev |-> NoFiles]
       \/ \E a \in Answers, i \in Inputs :
            /\ CheckLayout(a, i)
            /\ calls = MaxCalls - 2 /\ home = "whole" /\ made = TRUE
            /\ journal = [inputs |-> i, rev |-> 1,
                          review |-> [rev |-> 1, inputs |-> i, product |-> a, hashed |-> 1, seen |-> 1]]
            /\ draft = a /\ op = [NoOp EXCEPT !.src = journal.review, !.phase = "new"]
            /\ gen = [r \in 1 .. MaxRev |-> IF r = 1 THEN [product |-> a, native |-> a] ELSE NoFiles]

Next == Outside \/ \E p \in Procs : CatalogStep(p) \/ PreparationStep(p) \/ ApplyStep(p)

Spec == Init /\ [][Next]_vars

\* What is registered is what the user approved: the instance was made from the review
\* that the prompt showed in the run that recorded it, and a later run that confirms it
\* has shown the same one.  The operation may be left by an earlier run, from a preparation
\* that was edited and prepared anew since; the guard before the registration itself only
\* compares what was shown with what is stored.
RegisteredAsApproved == op.root # 0 => op.approved = op.src
=============================================================================
