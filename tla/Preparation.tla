---------------------------- MODULE Preparation -----------------------------
(***************************************************************************)
(* One installation preparation (setup/preparation.rs with the draft of    *)
(* setup/mod.rs): a journal and a draft, each a checkpoint store of its    *)
(* own, and the generated files of numbered revisions.  A session holds    *)
(* the workspace lock and edits; an inspection takes no lock and reads the *)
(* journal and the draft one after the other.  The supplied files (archive, *)
(* key, lock, network or native document) are the user's and may change.   *)
(*                                                                         *)
(* The draft's answers and the journal's inputs are each one number, 0     *)
(* while something is missing; the supplied files have a version number.   *)
(* A session remembers what it loaded and whether that is still the last   *)
(* checkpoint of each store, which is what the stores compare.             *)
(***************************************************************************)
EXTENDS Catalog

CONSTANTS MaxRev,   \* bound: revisions of the preparation (1000 in the code)
          Answers,  \* complete sets of answers in the draft
          Inputs,   \* complete sets of inputs in the journal
          Clash,    \* <<answers, inputs>> that name overlapping paths
          Mine      \* Inputs.instance: the control path to be registered

ASSUME PreparationAssumption ==
    /\ MaxRev \in Nat \ {0}
    /\ Answers \cup Inputs \subseteq Nat \ {0} /\ Mine \in Paths
    /\ Clash \subseteq Answers \X Inputs

VARIABLES
    made,      \* whether the preparation exists
    journal,   \* the stored Journal: inputs, revision, review
    draft,     \* the answers of the stored draft
    gen,       \* generated/: the product and native file of each revision, 0 if absent
    supply,    \* the version of the supplied files
    prepLock,  \* the process that holds the workspace lock
    ses        \* the session in a process's memory

prepVars == <<made, journal, draft, gen, supply, prepLock>>

NoReview == [rev |-> 0, inputs |-> 0, product |-> 0, hashed |-> 0, seen |-> 0]
NoJournal == [inputs |-> 0, rev |-> 0, review |-> NoReview]
NoFiles == [product |-> 0, native |-> 0]
\* yes is history: the review that was shown when the user last approved.
NoSession == [j |-> NoJournal, d |-> 0, jcur |-> FALSE, dcur |-> FALSE, want |-> 0, rev |-> 0,
              obs |-> 0, seen |-> 0, yes |-> NoReview]
Loaded(j, d) == [NoSession EXCEPT !.j = j, !.d = d, !.jcur = TRUE, !.dcur = TRUE]

\* What a session keeps when an operation on it has ended.
Settled(s) == [s EXCEPT !.want = 0, !.rev = 0, !.obs = 0, !.seen = 0]
Keep(p, s) == ses' = [ses EXCEPT ![p] = s]
\* An error is shown and the menu comes back; memory is what it was.
Menu(p) == Go(p, [Idle EXCEPT !.at = "menu"])
Step(p, a) == Go(p, [st[p] EXCEPT !.at = a])
Back(p) ==
    /\ Menu(p)
    /\ Keep(p, Settled(ses[p]))
    /\ UNCHANGED <<prepVars, catalogVars, faults, calls>>

\* storage.recheck and store.read: both stores still hold what was loaded.
JournalCurrent(p) == ses[p].jcur
DraftCurrent(p) == ses[p].dcur
\* A new checkpoint: every other copy is now old.
PublishJournal(p, s) == ses' = [x \in Procs |-> IF x = p THEN s ELSE [ses[x] EXCEPT !.jcur = FALSE]]
PublishDraft(p, s) == ses' = [x \in Procs |-> IF x = p THEN s ELSE [ses[x] EXCEPT !.dcur = FALSE]]

----------------------------------------------------------------------------
(* Opening *)

\* Preparation::create under an existing home, after ensure_sessions.
Create(p) ==
    /\ At(p, "create")
    /\ IF ~made /\ homeLock = Nobody /\ prepLock = Nobody
       THEN /\ made' = TRUE
            /\ prepLock' = p
            /\ Keep(p, Loaded(journal, draft))
            /\ Menu(p)
       ELSE Done(p) /\ UNCHANGED <<made, prepLock, ses>>
    /\ UNCHANGED <<journal, draft, gen, supply, catalogVars, faults, calls>>

\* Preparation::resume: one writer; a busy workspace ends the command.
Resume(p, at) ==
    /\ home = "whole" /\ made /\ prepLock = Nobody
    /\ prepLock' = p
    /\ Keep(p, Loaded(journal, draft))
    /\ Begin(p, [Idle EXCEPT !.at = at])
    /\ UNCHANGED <<made, journal, draft, gen, supply, catalogVars, faults>>

----------------------------------------------------------------------------
(* Editing *)

\* save: the journal store compares and publishes; on any error the session
\* keeps the journal it had, even when the new one has become visible.
Save(p, next, s, at) ==
    /\ JournalCurrent(p)
    /\ journal' = next
    /\ \/ PublishJournal(p, [s EXCEPT !.j = next]) /\ Step(p, at) /\ UNCHANGED faults
       \/ PublishJournal(p, [Settled(ses[p]) EXCEPT !.jcur = FALSE]) /\ Menu(p) /\ Fault
    /\ UNCHANGED <<made, draft, gen, supply, prepLock, catalogVars, calls>>

\* check_draft, for each output and each supplied file: no path the draft names is there.
CheckDraft(d, i) == <<d, i>> \notin Clash

\* check_layout: the draft is apart from all inputs; Inputs holds only sets of
\* inputs that are apart from each other (validate_inputs refuses the rest).
CheckLayout(d, i) == i \in Inputs => CheckDraft(d, i)

\* set_inputs compares with the draft in memory, which may be older than the stored one.
SetInputs(p, v) ==
    /\ At(p, "menu")
    /\ CheckLayout(ses[p].d, v)
    /\ v # ses[p].j.inputs
    /\ Save(p, [ses[p].j EXCEPT !.inputs = v, !.review = NoReview], ses[p], "menu")

\* Mutant: the review is left in place while the draft changes.
SetFieldKeeps(p, v) ==
    /\ At(p, "menu")
    /\ CheckLayout(v, ses[p].j.inputs)
    /\ v # ses[p].d
    /\ Keep(p, [ses[p] EXCEPT !.want = v])
    /\ Step(p, "field")
    /\ UNCHANGED <<prepVars, catalogVars, faults, calls>>

\* set_field: the review is withdrawn before the draft is saved.
SetField(p, v) ==
    /\ At(p, "menu")
    /\ CheckLayout(v, ses[p].j.inputs)
    /\ v # ses[p].d
    /\ LET s == [ses[p] EXCEPT !.want = v] IN
       IF s.j.review # NoReview
       THEN Save(p, [s.j EXCEPT !.review = NoReview], s, "field")
       ELSE Keep(p, s) /\ Step(p, "field") /\ UNCHANGED <<prepVars, catalogVars, faults, calls>>

\* select_node: the nodes the network offers are read between two looks at the
\* journal store, then the three fields of the chosen one are answered together.
SelectNode(p, v) == JournalCurrent(p) /\ SetField(p, v)

\* Session::set: on an error the old answer goes back into memory.
SaveDraft(p) ==
    /\ At(p, "field")
    /\ JournalCurrent(p) /\ DraftCurrent(p)
    /\ draft' = ses[p].want
    /\ \/ PublishDraft(p, [Settled(ses[p]) EXCEPT !.d = draft']) /\ UNCHANGED faults
       \/ PublishDraft(p, [Settled(ses[p]) EXCEPT !.dcur = FALSE]) /\ Fault
    /\ Menu(p)
    /\ UNCHANGED <<made, journal, gen, supply, prepLock, catalogVars, calls>>

----------------------------------------------------------------------------
(* Preparing a revision *)

\* complete_inputs and the draft's own preflight.
Complete(s) == s.j.inputs # 0 /\ s.d # 0
\* Nothing is at the destination, the control and the data path yet.
RequireAbsent == inst[Mine] = Absent
\* check_bound: the planned outputs are apart from all that is referenced, and absent.
CheckBound(s) == CheckLayout(s.d, s.j.inputs) /\ RequireAbsent
\* Observation::recheck: the supplied files are the ones first looked at.
Unchanged(s) == supply = s.obs

PrepareBegin(p) ==
    /\ At(p, "menu")
    /\ JournalCurrent(p) /\ DraftCurrent(p)
    /\ Complete(ses[p]) /\ CheckLayout(ses[p].d, ses[p].j.inputs) /\ RequireAbsent
    /\ Keep(p, [ses[p] EXCEPT !.obs = supply])
    /\ Step(p, "reserve")
    /\ UNCHANGED <<prepVars, catalogVars, faults, calls>>

\* Mutant: the revision is recorded only with its review, at the end.
ReserveLate(p) ==
    /\ At(p, "reserve")
    /\ Unchanged(ses[p])
    /\ ses[p].j.rev < MaxRev
    /\ Keep(p, [ses[p] EXCEPT !.rev = ses[p].j.rev + 1])
    /\ Step(p, "product")
    /\ UNCHANGED <<prepVars, catalogVars, faults, calls>>

\* The archive was verified between two equal observations.
\* The attempt consumes its revision before the first file is written.
Reserve(p) ==
    /\ At(p, "reserve")
    /\ Unchanged(ses[p])
    /\ ses[p].j.rev < MaxRev
    /\ LET r == ses[p].j.rev + 1 IN
       Save(p, [ses[p].j EXCEPT !.rev = r, !.review = NoReview], [ses[p] EXCEPT !.rev = r], "product")

\* write_new never replaces a file.
WriteProduct(p) ==
    /\ At(p, "product")
    /\ JournalCurrent(p)
    /\ gen[ses[p].rev].product = 0
    /\ gen' = [gen EXCEPT ![ses[p].rev].product = ses[p].d]
    /\ Step(p, "native")
    /\ UNCHANGED <<made, journal, draft, supply, prepLock, ses, catalogVars, faults, calls>>

WriteNative(p) ==
    /\ At(p, "native")
    /\ JournalCurrent(p)
    /\ gen[ses[p].rev].native = 0
    /\ gen' = [gen EXCEPT ![ses[p].rev].native = ses[p].d]
    /\ Step(p, "bind")
    /\ UNCHANGED <<made, journal, draft, supply, prepLock, ses, catalogVars, faults, calls>>

BindPlan(p) ==
    /\ At(p, "bind")
    /\ JournalCurrent(p)
    /\ CheckBound(ses[p])
    /\ Unchanged(ses[p])
    /\ Step(p, "observe")
    /\ UNCHANGED <<prepVars, ses, catalogVars, faults, calls>>

\* The fingerprints kept in the review are read once more, later.
Observe(p) ==
    /\ At(p, "observe")
    /\ Keep(p, [ses[p] EXCEPT !.seen = supply])
    /\ Step(p, "record")
    /\ UNCHANGED <<prepVars, catalogVars, faults, calls>>

RecordReview(p) ==
    /\ At(p, "record")
    /\ LET s == ses[p]
           review == [rev |-> s.rev, inputs |-> s.j.inputs, product |-> s.d, hashed |-> s.obs, seen |-> s.seen]
       IN  Save(p, [s.j EXCEPT !.review = review], Settled(s), "menu")

Working == {"field", "reserve", "product", "native", "bind", "observe", "record"}

\* Any check on the way fails: a stale store, a changed or unsuitable
\* material, an existing output, a full store.  What was written stays.
StepFails(p) ==
    /\ st[p].at \in Working
    /\ Back(p)

ChangeSupply ==
    /\ Fault
    /\ supply' = supply + 1
    /\ UNCHANGED <<made, journal, draft, gen, prepLock, ses, st, catalogVars, calls>>

----------------------------------------------------------------------------
(* Checking and inspecting *)

\* The local part: the review, the draft and the two generated files agree.
Bound(s) ==
    LET r == s.j.review IN
    /\ r # NoReview
    /\ r.rev = s.j.rev /\ r.inputs = s.j.inputs
    /\ s.d = r.product
    /\ gen[r.rev] = [product |-> r.product, native |-> r.product]

\* check also re-reads every supplied file and wants the outputs absent.
Checked(s) ==
    /\ Bound(s)
    /\ supply = s.j.review.seen /\ supply = s.j.review.hashed
    /\ RequireAbsent

\* inspect takes no lock: journal, then draft, then the journal and the
\* draft once more before anything is reported.
InspectJournal(p) ==
    /\ home = "whole" /\ made
    /\ Keep(p, [NoSession EXCEPT !.j = journal, !.jcur = TRUE])
    /\ Begin(p, [Idle EXCEPT !.at = "inspect"])
    /\ UNCHANGED <<prepVars, catalogVars, faults>>

InspectDraft(p) ==
    /\ At(p, "inspect")
    /\ Keep(p, [ses[p] EXCEPT !.d = draft, !.dcur = TRUE])
    /\ Step(p, "confirm")
    /\ UNCHANGED <<prepVars, catalogVars, faults, calls>>

\* Mutant: the journal is not read again.
InspectAgainOnce(p) ==
    /\ At(p, "confirm")
    /\ Step(p, "reread")
    /\ UNCHANGED <<prepVars, ses, catalogVars, faults, calls>>

InspectAgain(p) ==
    /\ At(p, "confirm")
    /\ IF JournalCurrent(p) THEN Step(p, "reread") ELSE Done(p)
    /\ UNCHANGED <<prepVars, ses, catalogVars, faults, calls>>

InspectReport(p) ==
    /\ At(p, "reread")
    /\ IF DraftCurrent(p) THEN Step(p, "reported") ELSE Done(p)
    /\ UNCHANGED <<prepVars, ses, catalogVars, faults, calls>>

----------------------------------------------------------------------------
(* Properties *)

\* A stored review is whole: it is of the journal's own revision and inputs,
\* its answers are the stored draft's and apart from its inputs, and both generated files of its
\* revision exist with the content it names - after every crash and failed
\* save too.  set_field must withdraw the review before it saves the draft,
\* prepare may record one only after both files.
ReviewIsWhole ==
    journal.review # NoReview => Bound([j |-> journal, d |-> draft]) /\ CheckLayout(draft, journal.inputs)

\* prepare can always be tried again: no file of a revision beyond the
\* journal's exists, so a killed attempt never blocks the next one's
\* write_new ("a failed attempt consumes its revision").
NextRevisionFree == \A r \in 1 .. MaxRev : r > journal.rev => gen[r] = NoFiles

\* A report made without the lock is a snapshot: it never shows a recorded
\* preparation next to answers it was not made from.
InspectionFits ==
    \A p \in Procs : At(p, "reported") /\ ses[p].j.review # NoReview =>
        ses[p].d = ses[p].j.review.product
=============================================================================
