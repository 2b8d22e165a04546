--------------------------- MODULE WorkflowProofs ---------------------------
(***************************************************************************)
(* Proofs about Workflow, for every bound and every set of drafts.         *)
(*                                                                         *)
(* The properties speak of the checkpoints a power loss may leave; what is *)
(* saved next is made from the journal in memory.  So IInv asks the same   *)
(* of both (Good), and says of each place of the program what the save     *)
(* before it has established: that it is the only checkpoint left, that it *)
(* validates, and how many revisions are left for what must follow.        *)
(***************************************************************************)
EXTENDS Workflow, TLAPS

StepRecords == [phase : Phase, root : Roots \cup {None}]
ProductStates == {"absent", "linked", "loose", "published"}

Types ==
    /\ mem \in Journals /\ disk \in survives /\ survives \subseteq Journals
    /\ stale \in BOOLEAN
    /\ path \in [Steps -> Roots \cup {None}]
    /\ used \in 0 .. MaxRoots
    /\ mine \in [Steps -> SUBSET (1 .. used)]
    /\ whole \in [Steps -> SUBSET (1 .. used)]
    /\ inst \in [Roots -> {"Registered", "Intent", "Initialized"}]
    /\ draft \in Drafts /\ drafts \subseteq Drafts
    /\ product \in [state : ProductStates, content : Drafts \cup {None}]

\* What is recorded as confirmed is so.
TrueOf(j) ==
    /\ \A k \in Steps : PhaseOf(j, k) = "Confirmed" => RootOf(j, k) \in mine[k] \cap whole[k]
    /\ j.initialization = "Confirmed" => InitializedFor(j)
\* A recorded root was made by this workflow.
MineIn(j) == \A k \in Steps : RootOf(j, k) # None => RootOf(j, k) \in mine[k]
\* What stands at its destination is recorded as begun.
BegunIn(j) == \A k \in Steps : path[k] \in mine[k] => PhaseOf(j, k) # "Pending"
\* The one directory of its own that the workflow completed is recorded, wherever it is.
WholeIn(j) ==
    \A k \in Steps : \A r \in mine[k] \cap whole[k] :
        RootOf(j, k) = r /\ PhaseOf(j, k) # "Pending"
\* The product file is recorded, and is the plan's.
AppliedIn(j) == product.state # "absent" => j.generated # "Pending" /\ j.plan = product.content

Good(j) == TrueOf(j) /\ MineIn(j) /\ BegunIn(j) /\ WholeIn(j) /\ AppliedIn(j)

\* Places between a record and the one that must follow it.
Outcomes == {"product", "unlink", "generated", "reserve", "own", "fill", "confirm", "failed",
             "initializing", "returned", "starting"}

\* The checkpoint that was just saved is the only one.
Alone == pc.at \in {"product", "unlink", "generated", "reserve"} => survives = {mem}
Planned ==
    /\ pc.at = "product" => mem.generated = "InProgress" /\ mem.plan = draft
    /\ pc.at = "unlink" => product.state # "absent"
Begun ==
    pc.at \in {"reserve", "own", "fill", "confirm"} =>
        pc.about \in Steps /\ PhaseOf(mem, pc.about) = "InProgress"
\* The root that was just made has the greatest number.
Newest ==
    pc.at \in {"own", "fill"} => \E r \in mine[pc.about] : \A q \in mine[pc.about] : q <= r
\* Until the running step has filled its directory, no directory of its is complete;
\* what it fills is recorded.
Unfilled ==
    /\ pc.at \in {"reserve", "own", "fill"} => mine[pc.about] \cap whole[pc.about] = {}
    /\ pc.at = "fill" => \A s \in survives \cup {mem} :
         RootOf(s, pc.about) = Created(pc.about) /\ PhaseOf(s, pc.about) # "Pending"
Initializing == pc.at = "initializing" => mem.initialization = "InProgress"
Sound == pc.at \in Outcomes => Validate(mem)
Fresh == pc.at \in (Outcomes \ {"failed"}) \cup {"step"} => ~stale

\* The revisions the rest of the operation may need are left.
Left(n) == mem.rev + n <= MaxRevisions
Room ==
    LET first == pc.about = "installation"
    IN  /\ pc.at \in {"product", "unlink", "generated"} => Left(11)
        /\ pc.at = "step" =>
             Left(IF first /\ PhaseOf(mem, "installation") = "Pending" THEN 10 ELSE 7)
        /\ pc.at \in {"reserve", "own"} => Left(IF first THEN 9 ELSE 6)
        /\ pc.at \in {"fill", "confirm"} => Left(IF first THEN 8 ELSE 5)
        /\ pc.at \in {"failed", "initializing", "returned", "starting"} => Left(1)

Place ==
    Alone /\ Planned /\ Begun /\ Newest /\ Unfilled /\ Initializing /\ Sound /\ Fresh /\ Room

IInv == Types /\ Good(mem) /\ (\A s \in survives : Good(s)) /\ Place

-----------------------------------------------------------------------------
(* Journals.                                                               *)

LEMMA JournalFields ==
    ASSUME NEW j \in Journals
    PROVE  /\ j.rev \in 0 .. MaxRevisions /\ j.plan \in Drafts \cup {None}
           /\ j.generated \in Phase /\ j.initialization \in Phase /\ j.start \in Phase
           /\ j.step \in [Steps -> StepRecords]
           /\ \A k \in Steps : PhaseOf(j, k) \in Phase /\ RootOf(j, k) \in Roots \cup {None}
<1>1. /\ j.rev \in 0 .. MaxRevisions /\ j.plan \in Drafts \cup {None}
      /\ j.generated \in Phase /\ j.initialization \in Phase /\ j.start \in Phase
      /\ j.step \in [Steps -> StepRecords]
  BY DEF Journals, StepRecords
<1>2. ASSUME NEW k \in Steps PROVE PhaseOf(j, k) \in Phase /\ RootOf(j, k) \in Roots \cup {None}
  <2>1. j.step[k] \in StepRecords
    BY <1>1
  <2> QED
    BY <2>1 DEF StepRecords, PhaseOf, RootOf
<1> QED
  BY <1>1, <1>2

\* What the two updates of a step change.
LEMMA SetPhaseIs ==
    ASSUME NEW j \in Journals, NEW k \in Steps, NEW p \in Phase
    PROVE  LET m == SetPhase(j, k, p)
           IN  /\ m \in Journals
               /\ m.rev = j.rev /\ m.plan = j.plan /\ m.generated = j.generated
               /\ m.initialization = j.initialization /\ m.start = j.start
               /\ PhaseOf(m, k) = p
               /\ \A q \in Steps \ {k} : PhaseOf(m, q) = PhaseOf(j, q)
               /\ \A q \in Steps : RootOf(m, q) = RootOf(j, q)
<1> DEFINE m == SetPhase(j, k, p)
           new == [j.step[k] EXCEPT !.phase = p]
<1>1. j.step \in [Steps -> StepRecords] /\ j.step[k] \in StepRecords
  BY JournalFields
<1>2. new \in StepRecords /\ new.phase = p /\ new.root = j.step[k].root
  BY <1>1 DEF StepRecords
<1>3. m = [j EXCEPT !.step = [j.step EXCEPT ![k] = new]]
  BY DEF SetPhase
<1> HIDE DEF new
<1>4. [j.step EXCEPT ![k] = new] \in [Steps -> StepRecords]
  BY <1>1, <1>2
<1>5. /\ m \in Journals
      /\ m.rev = j.rev /\ m.plan = j.plan /\ m.generated = j.generated
      /\ m.initialization = j.initialization /\ m.start = j.start
      /\ m.step = [j.step EXCEPT ![k] = new]
  BY <1>3, <1>4 DEF Journals, StepRecords
<1>6. m.step[k] = new /\ \A q \in Steps \ {k} : m.step[q] = j.step[q]
  BY <1>5, <1>1
<1> HIDE DEF m
<1>7. /\ PhaseOf(m, k) = p
      /\ \A q \in Steps \ {k} : PhaseOf(m, q) = PhaseOf(j, q)
      /\ \A q \in Steps : RootOf(m, q) = RootOf(j, q)
  BY <1>2, <1>6 DEF PhaseOf, RootOf
<1> QED
  BY <1>5, <1>7 DEF m

LEMMA SetRootIs ==
    ASSUME NEW j \in Journals, NEW k \in Steps, NEW r \in Roots
    PROVE  LET m == [j EXCEPT !.step[k].root = r]
           IN  /\ m \in Journals
               /\ m.rev = j.rev /\ m.plan = j.plan /\ m.generated = j.generated
               /\ m.initialization = j.initialization /\ m.start = j.start
               /\ RootOf(m, k) = r
               /\ \A q \in Steps \ {k} : RootOf(m, q) = RootOf(j, q)
               /\ \A q \in Steps : PhaseOf(m, q) = PhaseOf(j, q)
<1> DEFINE m == [j EXCEPT !.step[k].root = r]
           new == [j.step[k] EXCEPT !.root = r]
<1>1. j.step \in [Steps -> StepRecords] /\ j.step[k] \in StepRecords
  BY JournalFields
<1>2. new \in StepRecords /\ new.root = r /\ new.phase = j.step[k].phase
  BY <1>1 DEF StepRecords
<1>3. m = [j EXCEPT !.step = [j.step EXCEPT ![k] = new]]
  OBVIOUS
<1> HIDE DEF new
<1>4. [j.step EXCEPT ![k] = new] \in [Steps -> StepRecords]
  BY <1>1, <1>2
<1>5. /\ m \in Journals
      /\ m.rev = j.rev /\ m.plan = j.plan /\ m.generated = j.generated
      /\ m.initialization = j.initialization /\ m.start = j.start
      /\ m.step = [j.step EXCEPT ![k] = new]
  BY <1>3, <1>4 DEF Journals, StepRecords
<1>6. m.step[k] = new /\ \A q \in Steps \ {k} : m.step[q] = j.step[q]
  BY <1>5, <1>1
<1> HIDE DEF m
<1>7. /\ RootOf(m, k) = r
      /\ \A q \in Steps \ {k} : RootOf(m, q) = RootOf(j, q)
      /\ \A q \in Steps : PhaseOf(m, q) = PhaseOf(j, q)
  BY <1>2, <1>6 DEF PhaseOf, RootOf
<1> QED
  BY <1>5, <1>7 DEF m

\* The updates of the other fields leave the steps alone.
LEMMA FieldUpdates ==
    ASSUME NEW j \in Journals, NEW p \in Phase, NEW d \in Drafts \cup {None}
    PROVE  /\ [j EXCEPT !.plan = d] \in Journals
           /\ [j EXCEPT !.generated = p] \in Journals
           /\ [j EXCEPT !.initialization = p] \in Journals
           /\ [j EXCEPT !.start = p] \in Journals
BY DEF Journals

\* A saved journal differs from the one that was to be saved in its revision only.
Bumped(j) == [j EXCEPT !.rev = @ + 1]

LEMMA BumpedIs ==
    ASSUME NEW j \in Journals
    PROVE  /\ Bumped(j).rev = j.rev + 1 /\ Bumped(j).plan = j.plan
           /\ Bumped(j).generated = j.generated /\ Bumped(j).step = j.step
           /\ Bumped(j).initialization = j.initialization /\ Bumped(j).start = j.start
           /\ \A k \in Steps : PhaseOf(Bumped(j), k) = PhaseOf(j, k)
           /\ \A k \in Steps : RootOf(Bumped(j), k) = RootOf(j, k)
           /\ Validate(Bumped(j)) <=> Validate(j)
           /\ j.rev < MaxRevisions => Bumped(j) \in Journals
<1>1. /\ Bumped(j).rev = j.rev + 1 /\ Bumped(j).plan = j.plan
      /\ Bumped(j).generated = j.generated /\ Bumped(j).step = j.step
      /\ Bumped(j).initialization = j.initialization /\ Bumped(j).start = j.start
  BY DEF Bumped, Journals
<1>2. /\ \A k \in Steps : PhaseOf(Bumped(j), k) = PhaseOf(j, k)
      /\ \A k \in Steps : RootOf(Bumped(j), k) = RootOf(j, k)
  BY <1>1 DEF PhaseOf, RootOf
<1>3. Validate(Bumped(j)) <=> Validate(j)
  BY <1>1, <1>2 DEF Validate, Pristine, Steps
<1>4. j.rev < MaxRevisions => Bumped(j) \in Journals
  <2>1. j.rev \in 0 .. MaxRevisions /\ MaxRevisions \in Nat
    BY WorkflowAssumption, JournalFields
  <2>2. j.rev < MaxRevisions => j.rev + 1 \in 0 .. MaxRevisions
    BY <2>1
  <2> QED
    BY <2>2 DEF Bumped, Journals
<1> QED
  BY <1>1, <1>2, <1>3, <1>4

-----------------------------------------------------------------------------
(* What is good of a journal.                                              *)

\* A journal is as good as another when it forgets nothing that was begun and
\* confirms only what is so.
LEMMA GoodLike ==
    ASSUME NEW j, NEW m, Good(j),
           m.plan = j.plan \/ product.state = "absent",
           m.generated = "Pending" => j.generated = "Pending",
           m.initialization = "Confirmed" =>
               j.initialization = "Confirmed" \/ InitializedFor(j),
           \A k \in Steps :
               /\ RootOf(m, k) = RootOf(j, k)
               /\ PhaseOf(m, k) = "Pending" =>
                    \/ PhaseOf(j, k) = "Pending"
                    \/ path[k] \notin mine[k] /\ RootOf(j, k) \notin mine[k]
               /\ PhaseOf(m, k) = "Confirmed" =>
                    PhaseOf(j, k) = "Confirmed" \/ RootOf(j, k) \in mine[k] \cap whole[k]
    PROVE  Good(m)
<1>1. TrueOf(m)
  BY DEF Good, TrueOf, InitializedFor, Steps
<1>2. MineIn(m) /\ BegunIn(m) /\ WholeIn(m)
  BY DEF Good, MineIn, BegunIn, WholeIn
<1>3. AppliedIn(m)
  BY DEF Good, AppliedIn
<1> QED
  BY <1>1, <1>2, <1>3 DEF Good

LEMMA BumpedGood ==
    ASSUME NEW j \in Journals, Good(j)
    PROVE  Good(Bumped(j))
BY BumpedIs, GoodLike

\* What Good speaks of besides the journal.
world == <<product, path, mine, whole, inst>>

LEMMA GoodStays ==
    ASSUME NEW j, Good(j), UNCHANGED world
    PROVE  Good(j)'
BY DEF world, Good, TrueOf, InitializedFor, MineIn, BegunIn, WholeIn, AppliedIn

LEMMA GoodInMemory ==
    ASSUME NEW m, Good(m)', mem' = m
    PROVE  Good(mem)'
BY DEF Good, TrueOf, InitializedFor, MineIn, BegunIn, WholeIn, AppliedIn, PhaseOf, RootOf

\* Pristine journals have no product.
LEMMA PristineHasNone ==
    ASSUME NEW j, Good(j), Pristine(j)
    PROVE  product.state = "absent"
BY DEF Good, AppliedIn, Pristine

\* No directory is not a directory of this workflow.
LEMMA NoneIsNotMine ==
    ASSUME Types, NEW k \in Steps
    PROVE  /\ None \notin mine[k] /\ mine[k] \subseteq Roots /\ mine[k] \subseteq 1 .. used
           /\ used + 1 \notin mine[k]
<1>1. mine[k] \subseteq 1 .. used /\ used \in 0 .. MaxRoots /\ MaxRoots \in Nat
  BY WorkflowAssumption DEF Types
<1>2. None \notin 1 .. MaxRoots
  BY WorkflowAssumption
<1>3. \A r \in 1 .. used : r \in 1 .. MaxRoots /\ r # used + 1
  BY <1>1
<1> QED
  BY <1>1, <1>2, <1>3 DEF Roots

-----------------------------------------------------------------------------
(* Places.                                                                 *)

\* Nothing is claimed of a place where no record is due.
Quiet == {"closed", "creating", "open", "editing", "observed", "init", "start"}

LEMMA QuietPlace ==
    ASSUME pc'.at \in Quiet
    PROVE  Place'
<1>1. pc'.at \notin Outcomes \cup {"step"}
  BY DEF Quiet, Outcomes
<1> QED
  BY <1>1 DEF Place, Alone, Planned, Begun, Newest, Unfilled, Initializing, Sound, Fresh, Room,
     Outcomes

LEMMA PlaceStays ==
    ASSUME Place, UNCHANGED <<pc, mem, survives, stale, draft, mine, product>>,
           \A k \in Steps : mine[k] \cap whole'[k] = mine[k] \cap whole[k]
    PROVE  Place'
<1>1. pc.at \in {"reserve", "own", "fill"} => pc.about \in Steps
  BY DEF Place, Begun
<1>2. Unfilled'
  BY <1>1 DEF Place, Unfilled, Created, PhaseOf, RootOf
<1> QED
  BY <1>2 DEF Place, Alone, Planned, Begun, Newest, Initializing, Sound, Fresh, Room, Left

LEMMA OpenIsQuiet ==
    /\ Open.at = "open" /\ Open.at \in Quiet
    /\ Closed.at = "closed" /\ Closed.at \in Quiet
BY DEF Open, Closed, At, Quiet

\* A step that changes neither the world nor the checkpoints.
LEMMA QuietStep ==
    ASSUME IInv, UNCHANGED <<session, journal, roots, inst>>, pc'.at \in Quiet
    PROVE  IInv'
<1>1. Types'
  BY DEF IInv, Types, session, journal, roots
<1>2. Good(mem)' /\ \A s \in survives' : Good(s)'
  BY GoodStays DEF IInv, session, journal, roots, world
<1> QED
  BY <1>1, <1>2, QuietPlace DEF IInv

\* The session is gone; what survives is good, so what is read back is too.
LEMMA GoneKeeps ==
    ASSUME IInv, Gone, disk' \in survives', survives' \subseteq survives,
           UNCHANGED <<roots, inst>>, draft' \in Drafts, drafts' \subseteq Drafts,
           product' \in [state : ProductStates, content : Drafts \cup {None}],
           product'.state # "absent" =>
               product.state # "absent" /\ product'.content = product.content
    PROVE  IInv'
<1>1. Types'
  BY DEF IInv, Types, roots, Gone
<1>2. ASSUME NEW s \in survives PROVE Good(s)'
  <2>1. Good(s)
    BY DEF IInv
  <2>2. TrueOf(s)' /\ MineIn(s)' /\ BegunIn(s)' /\ WholeIn(s)'
    BY <2>1 DEF Good, TrueOf, InitializedFor, MineIn, BegunIn, WholeIn, roots
  <2>3. AppliedIn(s)'
    BY <2>1 DEF Good, AppliedIn
  <2> QED
    BY <2>2, <2>3 DEF Good
<1>3. Good(mem)' /\ \A s \in survives' : Good(s)'
  <2>1. mem' \in survives
    BY DEF Gone
  <2>2. PICK s \in survives : mem' = s
    BY <2>1
  <2> QED
    BY <1>2, <2>2, GoodInMemory
<1> QED
  BY <1>1, <1>3, QuietPlace, OpenIsQuiet DEF IInv, Gone

-----------------------------------------------------------------------------
(* save.                                                                   *)

Saved(m) ==
    /\ mem' = Bumped(m) /\ survives' = {mem'} /\ ~stale' /\ ~stale
    /\ Validate(m) /\ m.rev < MaxRevisions

\* A journal that is good leaves good checkpoints, whatever becomes of its save.
LEMMA SaveKeeps ==
    ASSUME IInv, NEW m \in Journals, Good(m), NEW ok, NEW err, Save(m, ok, err),
           UNCHANGED <<session, roots, inst>>
    PROVE  /\ Types' /\ Good(mem)' /\ \A s \in survives' : Good(s)'
           /\ \/ pc' = ok /\ Saved(m)
              \/ pc' = err /\ (mem' = m \/ (mem' = Bumped(m) /\ m.rev < MaxRevisions))
<1>0. UNCHANGED world
  BY DEF session, roots, world
<1>1. Good(m)' /\ Good(Bumped(m))' /\ \A s \in survives : Good(s)'
  <2>1. Good(Bumped(m)) /\ \A s \in survives : Good(s)
    BY BumpedGood DEF IInv
  <2> QED
    BY <1>0, <2>1, GoodStays
<1>2. stale \in BOOLEAN /\ disk \in survives /\ survives \subseteq Journals
  BY DEF IInv, Types
<1>3. CASE /\ ~stale /\ Validate(m) /\ m.rev < MaxRevisions
           /\ mem' = Bumped(m) /\ disk' = Bumped(m) /\ survives' = {Bumped(m)}
           /\ pc' \in {ok, err} /\ stale' = stale
  <2>1. Bumped(m) \in Journals
    BY <1>3, BumpedIs
  <2>2. Types'
    BY <1>2, <1>3, <2>1 DEF IInv, Types, session, roots
  <2>3. Good(mem)' /\ \A s \in survives' : Good(s)'
    BY <1>1, <1>3, GoodInMemory
  <2> QED
    BY <1>3, <2>2, <2>3 DEF Saved
<1>4. CASE /\ ~stale /\ Validate(m) /\ m.rev < MaxRevisions
           /\ mem' = m /\ disk' = Bumped(m) /\ survives' = survives \cup {Bumped(m)}
           /\ pc' = err /\ stale' = TRUE
  <2>1. Bumped(m) \in Journals
    BY <1>4, BumpedIs
  <2>2. Types'
    BY <1>2, <1>4, <2>1 DEF IInv, Types, session, roots
  <2>3. Good(mem)' /\ \A s \in survives' : Good(s)'
    BY <1>1, <1>4, GoodInMemory
  <2> QED
    BY <1>4, <2>2, <2>3
<1>5. CASE mem' = m /\ pc' = err /\ UNCHANGED <<disk, survives, stale>>
  <2>2. Types'
    BY <1>2, <1>5 DEF IInv, Types, session, roots
  <2>3. Good(mem)' /\ \A s \in survives' : Good(s)'
    BY <1>1, <1>5, GoodInMemory
  <2> QED
    BY <1>5, <2>2, <2>3
<1> QED
  BY <1>3, <1>4, <1>5 DEF Save, Bumped

\* A save after which nothing is due.
LEMMA SaveQuiet ==
    ASSUME IInv, NEW m \in Journals, Good(m), NEW ok, NEW err, Save(m, ok, err),
           UNCHANGED <<session, roots, inst>>, ok.at \in Quiet, err.at \in Quiet
    PROVE  IInv'
<1>1. /\ Types' /\ Good(mem)' /\ \A s \in survives' : Good(s)'
      /\ pc' = ok \/ pc' = err
  BY SaveKeeps
<1> QED
  BY <1>1, QuietPlace DEF IInv

\* A save that leads to a place where the next record is due.
LEMMA SaveOn ==
    ASSUME IInv, NEW m \in Journals, Good(m), NEW ok, Save(m, ok, Open),
           UNCHANGED <<session, roots, inst>>,
           pc' = ok /\ Saved(m) => Place'
    PROVE  IInv'
BY SaveKeeps, QuietPlace, OpenIsQuiet DEF IInv

-----------------------------------------------------------------------------
(* The session.                                                            *)

LEMMA CreateBeginKeeps ==
    ASSUME IInv, CreateBegin
    PROVE  IInv'
<1>1. pc'.at = "creating" /\ pc'.at \in Quiet
  BY DEF CreateBegin, Goto, At, Quiet
<1>2. Types'
  BY DEF IInv, Types, CreateBegin, journal, roots
<1>3. Good(mem)' /\ \A s \in survives' : Good(s)'
  BY GoodStays DEF IInv, CreateBegin, journal, roots, world
<1> QED
  BY <1>1, <1>2, <1>3, QuietPlace DEF IInv

LEMMA CreateEndKeeps ==
    ASSUME IInv, CreateEnd
    PROVE  IInv'
<1>1. pc' = Open
  BY DEF CreateEnd, Goto
<1>2. Types'
  BY DEF IInv, Types, CreateEnd, journal, roots
<1>3. Good(mem)' /\ \A s \in survives' : Good(s)'
  BY GoodStays DEF IInv, CreateEnd, journal, roots, world
<1> QED
  BY <1>1, <1>2, <1>3, QuietPlace, OpenIsQuiet DEF IInv

LEMMA ResumeKeeps ==
    ASSUME IInv, Resume
    PROVE  IInv'
BY QuietStep, OpenIsQuiet DEF Resume, Goto

LEMMA CloseKeeps ==
    ASSUME IInv, Close
    PROVE  IInv'
<1>1. UNCHANGED <<session, disk, survives, roots, inst>> /\ Gone
  BY DEF Close
<1> QED
  BY <1>1, GoneKeeps DEF session, IInv, Types

LEMMA AbandonKeeps ==
    ASSUME IInv, Abandon
    PROVE  IInv'
BY QuietStep, OpenIsQuiet DEF Abandon

\* Without output, the plan may be dropped or replaced.
LEMMA NewPlan ==
    ASSUME IInv, Pristine(mem), NEW d \in Drafts \cup {None}
    PROVE  [mem EXCEPT !.plan = d] \in Journals /\ Good([mem EXCEPT !.plan = d])
<1> DEFINE m == [mem EXCEPT !.plan = d]
<1>1. mem \in Journals /\ Good(mem) /\ product.state = "absent"
  BY PristineHasNone DEF IInv, Types
<1>2. m \in Journals
  BY <1>1, FieldUpdates DEF Phase
<1>3. /\ m.generated = mem.generated /\ m.initialization = mem.initialization
      /\ m.step = mem.step
  BY <1>1 DEF Journals
<1> HIDE DEF m
<1>4. \A k \in Steps : RootOf(m, k) = RootOf(mem, k) /\ PhaseOf(m, k) = PhaseOf(mem, k)
  BY <1>3 DEF RootOf, PhaseOf
<1>5. Good(m)
  BY <1>1, <1>3, <1>4, GoodLike
<1> QED
  BY <1>2, <1>5 DEF m

LEMMA SetInputsKeeps ==
    ASSUME IInv, SetInputs
    PROVE  IInv'
BY NewPlan, SaveQuiet, OpenIsQuiet DEF SetInputs

LEMMA EditKeeps ==
    ASSUME IInv, Edit
    PROVE  IInv'
<1>1. At("editing", None).at \in Quiet
  BY DEF At, Quiet
<1>2. CASE mem.plan = None
  BY <1>1, <1>2, QuietStep DEF Edit
<1>3. CASE mem.plan # None
  BY <1>1, <1>3, NewPlan, SaveQuiet, OpenIsQuiet DEF Edit
<1> QED
  BY <1>2, <1>3

LEMMA SetDraftKeeps ==
    ASSUME IInv, SetDraft
    PROVE  IInv'
<1>1. PICK d \in Drafts :
        /\ draft' = d
        /\ \/ drafts' = {d} /\ pc' = Open /\ UNCHANGED journal
           \/ drafts' = drafts \cup {d} /\ UNCHANGED <<disk, survives>> /\ Gone
  BY DEF SetDraft
<1>2. UNCHANGED <<product, roots, inst>>
  BY DEF SetDraft
<1>3. CASE drafts' = {d} /\ pc' = Open /\ UNCHANGED journal
  <2>1. Types'
    BY <1>1, <1>2, <1>3 DEF IInv, Types, journal, roots
  <2>2. Good(mem)' /\ \A s \in survives' : Good(s)'
    BY <1>2, <1>3, GoodStays DEF IInv, journal, roots, world
  <2> QED
    BY <1>3, <2>1, <2>2, QuietPlace, OpenIsQuiet DEF IInv
<1>4. CASE drafts' = drafts \cup {d} /\ UNCHANGED <<disk, survives>> /\ Gone
  BY <1>1, <1>2, <1>4, GoneKeeps DEF IInv, Types
<1> QED
  BY <1>1, <1>3, <1>4

LEMMA PrepareKeeps ==
    ASSUME IInv, Prepare
    PROVE  IInv'
<1>1. draft \in Drafts
  BY DEF IInv, Types
<1> QED
  BY <1>1, NewPlan, SaveQuiet, OpenIsQuiet DEF Prepare

-----------------------------------------------------------------------------
(* apply_with_guard.                                                       *)

\* The product file's phase.
LEMMA NewGenerated ==
    ASSUME IInv, NEW p \in {"InProgress", "Confirmed"}
    PROVE  LET m == [mem EXCEPT !.generated = p]
           IN  /\ m \in Journals /\ Good(m)
               /\ m.generated = p /\ m.plan = mem.plan /\ m.rev = mem.rev
               /\ \A k \in Steps : PhaseOf(m, k) = PhaseOf(mem, k)
<1> DEFINE m == [mem EXCEPT !.generated = p]
<1>1. mem \in Journals /\ Good(mem) /\ p \in Phase /\ p # "Pending"
  BY DEF IInv, Types, Phase
<1>2. m \in Journals
  BY <1>1, FieldUpdates
<1>3. /\ m.generated = p /\ m.plan = mem.plan /\ m.initialization = mem.initialization
      /\ m.step = mem.step /\ m.rev = mem.rev
  BY <1>1 DEF Journals
<1> HIDE DEF m
<1>4. \A k \in Steps : RootOf(m, k) = RootOf(mem, k) /\ PhaseOf(m, k) = PhaseOf(mem, k)
  BY <1>3 DEF RootOf, PhaseOf
<1>5. Good(m)
  BY <1>1, <1>3, <1>4, GoodLike
<1> QED
  BY <1>2, <1>3, <1>4, <1>5 DEF m

LEMMA MemFields ==
    ASSUME IInv
    PROVE  mem \in Journals /\ mem.rev \in Nat /\ MaxRevisions \in Nat
BY JournalFields, WorkflowAssumption DEF IInv, Types

LEMMA ApplyKeeps ==
    ASSUME IInv, Apply
    PROVE  IInv'
<1>1. /\ ~stale /\ mem.rev + 12 <= MaxRevisions /\ mem.plan = draft
      /\ UNCHANGED <<session, roots, inst>>
  BY DEF Apply, Capacity, ApplyCapacity, VerifyPlan
<1>2. CASE Save([mem EXCEPT !.generated = "InProgress"], At("product", None), Open)
  <2> DEFINE m == [mem EXCEPT !.generated = "InProgress"]
  <2>1. m \in Journals /\ Good(m) /\ m.generated = "InProgress" /\ m.plan = draft /\ m.rev = mem.rev
    BY <1>1, NewGenerated
  <2> HIDE DEF m
  <2>2. ASSUME pc' = At("product", None), Saved(m) PROVE Place'
    <3>1. /\ mem' = Bumped(m) /\ Validate(mem') /\ mem'.rev = mem.rev + 1
          /\ mem'.generated = "InProgress" /\ mem'.plan = draft' /\ survives' = {mem'} /\ ~stale'
      BY <1>1, <2>1, <2>2, BumpedIs DEF Saved, session
    <3>2. pc'.at = "product"
      BY <2>2 DEF At
    <3>3. Room'
      BY <1>1, <3>1, <3>2, MemFields DEF Room, Left
    <3> QED
      BY <3>1, <3>2, <3>3 DEF Place, Alone, Planned, Begun, Newest, Unfilled, Initializing,
         Sound, Fresh
  <2> QED
    BY <1>1, <1>2, <2>1, <2>2, SaveOn DEF m
<1>3. CASE pc' = At("step", "installation") /\ UNCHANGED journal
  <2>1. Types'
    BY <1>1, <1>3 DEF IInv, Types, session, journal, roots
  <2>2. Good(mem)' /\ \A s \in survives' : Good(s)'
    BY <1>1, <1>3, GoodStays DEF IInv, session, journal, roots, world
  <2>3. pc'.at = "step" /\ pc'.at \notin Outcomes
    BY <1>3 DEF At, Outcomes
  <2>4. Room'
    BY <1>1, <1>3, <2>3, MemFields DEF Room, Left, journal
  <2>5. Place'
    BY <1>1, <1>3, <2>3, <2>4
       DEF Place, Alone, Planned, Begun, Newest, Unfilled, Initializing, Sound, Fresh, journal
  <2> QED
    BY <2>1, <2>2, <2>5 DEF IInv
<1> QED
  BY <1>2, <1>3 DEF Apply

LEMMA LinkProductKeeps ==
    ASSUME IInv, LinkProduct
    PROVE  IInv'
<1>1. pc.at = "product" /\ pc'.at = "unlink" /\ UNCHANGED <<journal, roots, inst, draft, drafts>>
  BY DEF LinkProduct, Goto, At
<1>2. survives = {mem} /\ mem.generated = "InProgress" /\ mem.plan = draft
  BY <1>1 DEF IInv, Place, Alone, Planned
<1>3. product' = [state |-> "linked", content |-> draft]
  BY DEF LinkProduct
<1>4. Types'
  <2>1. product' \in [state : ProductStates, content : Drafts \cup {None}]
    BY <1>3 DEF ProductStates, IInv, Types
  <2> QED
    BY <1>1, <2>1 DEF IInv, Types, journal, roots
<1>5. Good(mem)'
  BY <1>1, <1>2, <1>3
     DEF IInv, Good, TrueOf, InitializedFor, MineIn, BegunIn, WholeIn, AppliedIn, PhaseOf,
         RootOf, journal, roots
<1>6. Good(mem)' => \A s \in survives' : Good(s)'
  BY <1>1, <1>2
     DEF IInv, Good, TrueOf, InitializedFor, MineIn, BegunIn, WholeIn, AppliedIn, PhaseOf,
         RootOf, journal, roots
<1>7. Place'
  BY <1>1, <1>2, <1>3
     DEF IInv, Place, Alone, Planned, Begun, Newest, Unfilled, Initializing, Sound, Fresh,
         Room, Left, Outcomes, journal
<1> QED
  BY <1>4, <1>5, <1>6, <1>7 DEF IInv

LEMMA UnlinkProductKeeps ==
    ASSUME IInv, UnlinkProduct
    PROVE  IInv'
<1>1. pc.at = "unlink" /\ UNCHANGED <<journal, roots, inst, draft, drafts>>
  BY DEF UnlinkProduct, At
<1>2. PICK state \in {"published", "loose"} :
        /\ product' = [product EXCEPT !.state = state]
        /\ pc' = At("generated", None) \/ pc' = Open
  BY DEF UnlinkProduct
<1>3. /\ product' \in [state : ProductStates, content : Drafts \cup {None}]
      /\ product'.content = product.content
  BY <1>2 DEF IInv, Types, ProductStates
<1>4. product.state # "absent"
  BY <1>1 DEF IInv, Place, Planned
<1>5. Types'
  BY <1>1, <1>3 DEF IInv, Types, journal, roots
<1>6. ASSUME NEW j, Good(j) PROVE Good(j)'
  BY <1>1, <1>3, <1>4, <1>6
     DEF Good, TrueOf, InitializedFor, MineIn, BegunIn, WholeIn, AppliedIn, PhaseOf, RootOf, roots
<1>7. Good(mem)' /\ \A s \in survives' : Good(s)'
  BY <1>1, <1>6, GoodInMemory DEF IInv, journal
<1>8. CASE pc' = Open
  BY <1>5, <1>7, <1>8, QuietPlace, OpenIsQuiet DEF IInv
<1>9. CASE pc' = At("generated", None)
  <2>1. pc'.at = "generated"
    BY <1>9 DEF At
  <2>2. Place'
    BY <1>1, <2>1
       DEF IInv, Place, Alone, Planned, Begun, Newest, Unfilled, Initializing, Sound, Fresh,
           Room, Left, Outcomes, journal
  <2> QED
    BY <1>5, <1>7, <2>2 DEF IInv
<1> QED
  BY <1>2, <1>8, <1>9

LEMMA GeneratedKeeps ==
    ASSUME IInv, Generated
    PROVE  IInv'
<1> DEFINE m == [mem EXCEPT !.generated = "Confirmed"]
<1>1. /\ m \in Journals /\ Good(m) /\ m.rev = mem.rev
      /\ \A k \in Steps : PhaseOf(m, k) = PhaseOf(mem, k)
  BY NewGenerated
<1>2. UNCHANGED <<session, roots, inst>> /\ Save(m, At("step", "installation"), Open)
  BY DEF Generated
<1>3. mem.rev + 11 <= MaxRevisions
  BY DEF Generated, At, IInv, Place, Room, Left
<1> HIDE DEF m
<1>4. ASSUME pc' = At("step", "installation"), Saved(m) PROVE Place'
  <2>1. mem' = Bumped(m) /\ mem'.rev = mem.rev + 1 /\ ~stale'
    BY <1>1, <1>4, BumpedIs DEF Saved
  <2>2. pc'.at = "step" /\ pc'.at \notin Outcomes
    BY <1>4 DEF At, Outcomes
  <2>3. Room'
    BY <1>3, <2>1, <2>2, MemFields DEF Room, Left
  <2> QED
    BY <2>1, <2>2, <2>3 DEF Place, Alone, Planned, Begun, Newest, Unfilled, Initializing,
       Sound, Fresh
<1> QED
  BY <1>1, <1>2, <1>4, SaveOn

LEMMA BeginStepKeeps ==
    ASSUME IInv, NEW k \in Steps, BeginStep(k)
    PROVE  IInv'
<1> DEFINE m == SetPhase(mem, k, "InProgress")
<1>1. mem \in Journals /\ Good(mem) /\ "InProgress" \in Phase
  BY DEF IInv, Types, Phase
<1>2. /\ m \in Journals /\ m.rev = mem.rev /\ m.plan = mem.plan /\ m.generated = mem.generated
      /\ m.initialization = mem.initialization /\ PhaseOf(m, k) = "InProgress"
      /\ \A q \in Steps \ {k} : PhaseOf(m, q) = PhaseOf(mem, q)
      /\ \A q \in Steps : RootOf(m, q) = RootOf(mem, q)
  BY <1>1, SetPhaseIs
<1>3. /\ UNCHANGED <<session, roots, inst>> /\ Save(m, At("reserve", k), Open)
      /\ pc.at = "step" /\ pc.about = k /\ PhaseOf(mem, k) = "Pending"
  BY DEF BeginStep, At
<1> HIDE DEF m
<1>4. Good(m)
  BY <1>1, <1>2, GoodLike
<1>5. mem.rev + (IF k = "installation" THEN 10 ELSE 7) <= MaxRevisions
  BY <1>3 DEF IInv, Place, Room, Left
<1>6. ASSUME pc' = At("reserve", k), Saved(m) PROVE Place'
  <2>1. /\ mem' = Bumped(m) /\ mem'.rev = mem.rev + 1 /\ ~stale' /\ survives' = {mem'}
        /\ Validate(mem') /\ PhaseOf(mem', k) = "InProgress"
    BY <1>2, <1>6, BumpedIs DEF Saved
  <2>2. pc'.at = "reserve" /\ pc'.about = k
    BY <1>6 DEF At
  <2>3. Room'
    BY <1>5, <2>1, <2>2, MemFields DEF Room, Left
  <2>4. Sound' /\ Begun' /\ Alone' /\ Fresh'
    BY <2>1, <2>2 DEF Sound, Begun, Alone, Fresh
  <2>5. Planned' /\ Newest' /\ Initializing'
    BY <2>2 DEF Planned, Newest, Initializing
  <2>6. Unfilled'
    <3>1. mine[k] \cap whole[k] = {}
      BY <1>1, <1>3 DEF Good, WholeIn
    <3> QED
      BY <1>3, <2>2, <3>1 DEF Unfilled, roots
  <2> QED
    BY <2>3, <2>4, <2>5, <2>6 DEF Place
<1> QED
  BY <1>2, <1>3, <1>4, <1>6, SaveOn

LEMMA NextStepKeeps ==
    ASSUME IInv, NextStep
    PROVE  IInv'
<1>1. /\ pc.at = "step" /\ pc.about = "installation" /\ pc'.at = "step"
      /\ pc'.about = "registration" /\ PhaseOf(mem, "installation") = "Confirmed"
      /\ UNCHANGED <<session, journal, roots, inst>>
  BY DEF NextStep, Goto, At
<1>2. Types'
  BY <1>1 DEF IInv, Types, session, journal, roots
<1>3. Good(mem)' /\ \A s \in survives' : Good(s)'
  BY <1>1, GoodStays DEF IInv, session, journal, roots, world
<1>4. Left(7) /\ ~stale
  BY <1>1 DEF IInv, Place, Room, Fresh
<1>5. Place'
  BY <1>1, <1>4
     DEF Place, Alone, Planned, Begun, Newest, Unfilled, Initializing, Sound, Fresh, Room,
         Left, Outcomes, journal
<1> QED
  BY <1>2, <1>3, <1>5 DEF IInv

\* The directory the workflow makes is new, so that it is the newest of its step, and
\* the only checkpoint left records that the step was begun.
LEMMA ReserveKeeps ==
    ASSUME IInv, NEW k \in Steps, Reserve(k)
    PROVE  IInv'
<1>1. /\ pc.at = "reserve" /\ pc.about = k /\ pc'.at = "own" /\ pc'.about = k
      /\ UNCHANGED <<session, journal, whole, inst>>
      /\ used < MaxRoots /\ used' = used + 1
      /\ path' = [path EXCEPT ![k] = used + 1]
      /\ mine' = [mine EXCEPT ![k] = @ \cup {used + 1}]
  BY DEF Reserve, Goto, At
<1>2. survives = {mem} /\ PhaseOf(mem, k) = "InProgress"
  BY <1>1 DEF IInv, Place, Alone, Begun
<1>3. /\ used \in 0 .. MaxRoots /\ MaxRoots \in Nat
      /\ path \in [Steps -> Roots \cup {None}] /\ mine \in [Steps -> SUBSET (1 .. used)]
  BY WorkflowAssumption DEF IInv, Types
<1>4. used' \in 0 .. MaxRoots /\ used + 1 \in Roots /\ 1 .. used \subseteq 1 .. used'
      /\ used + 1 \in 1 .. used'
  BY <1>1, <1>3 DEF Roots
<1>5. mine' \in [Steps -> SUBSET (1 .. used')] /\ path' \in [Steps -> Roots \cup {None}]
  <2>1. \A q \in Steps : mine[q] \subseteq 1 .. used'
    BY <1>3, <1>4
  <2>2. mine[k] \cup {used + 1} \in SUBSET (1 .. used')
    BY <1>4, <2>1
  <2>3. mine \in [Steps -> SUBSET (1 .. used')]
    BY <1>3, <2>1
  <2> QED
    BY <1>1, <1>3, <1>4, <2>2, <2>3
<1>6. Types'
  BY <1>1, <1>4, <1>5 DEF IInv, Types, session, journal
<1>7. /\ \A q \in Steps : mine[q] \subseteq mine'[q]
      /\ \A q \in Steps \ {k} : mine'[q] = mine[q] /\ path'[q] = path[q]
      /\ mine'[k] = mine[k] \cup {used + 1}
  BY <1>1, <1>3
<1>8. ASSUME NEW j, Good(j), PhaseOf(j, k) = "InProgress" PROVE Good(j)'
  <2>0. \A q \in Steps : used + 1 \notin whole[q]
    BY <1>3 DEF IInv, Types
  <2>1. InitializedFor(j) => InitializedFor(j)'
    BY <1>1, <1>7, <2>0 DEF InitializedFor, RootOf, Steps
  <2>2. TrueOf(j)'
    BY <1>1, <1>7, <1>8, <2>1 DEF Good, TrueOf, PhaseOf, RootOf
  <2>3. MineIn(j)'
    BY <1>7, <1>8 DEF Good, MineIn, RootOf
  <2>4. BegunIn(j)'
    BY <1>7, <1>8 DEF Good, BegunIn, PhaseOf
  <2>5. WholeIn(j)'
    BY <1>1, <1>7, <1>8, <2>0 DEF Good, WholeIn, PhaseOf, RootOf
  <2>6. AppliedIn(j)'
    BY <1>1, <1>8 DEF Good, AppliedIn, session
  <2> QED
    BY <2>2, <2>3, <2>4, <2>5, <2>6 DEF Good
<1>9. Good(mem)' /\ \A s \in survives' : Good(s)'
  BY <1>1, <1>2, <1>8, GoodInMemory DEF IInv, journal
<1>10. Newest'
  <2>1. \A q \in mine'[k] : q <= used + 1
    BY <1>3, <1>7
  <2> QED
    BY <1>1, <1>7, <2>1 DEF Newest
<1>11. Alone' /\ Planned' /\ Begun' /\ Sound' /\ Fresh' /\ Room' /\ Initializing'
  BY <1>1, <1>2
     DEF IInv, Place, Alone, Planned, Begun, Sound, Fresh, Room, Left, Outcomes, Initializing,
         journal
<1>12. Unfilled'
  <2>1. mine[k] \cap whole[k] = {} /\ used + 1 \notin whole[k]
    BY <1>1, <1>3 DEF IInv, Types, Place, Unfilled
  <2> QED
    BY <1>1, <1>7, <2>1 DEF Unfilled
<1> QED
  BY <1>6, <1>9, <1>10, <1>11, <1>12 DEF IInv, Place

\* The root a step has made is one of its own.
LEMMA CreatedIsMine ==
    ASSUME IInv, NEW k \in Steps, pc.at \in {"own", "fill"}, pc.about = k
    PROVE  Created(k) \in mine[k] /\ Created(k) \in Roots /\ Created(k) # None
<1>1. \E r \in mine[k] : \A q \in mine[k] : q <= r
  BY DEF IInv, Place, Newest
<1>2. Created(k) \in mine[k]
  BY <1>1 DEF Created
<1> QED
  BY <1>2, NoneIsNotMine DEF IInv

LEMMA OwnKeeps ==
    ASSUME IInv, NEW k \in Steps, Own(k)
    PROVE  IInv'
<1> DEFINE r == Created(k)
           m == [mem EXCEPT !.step[k].root = r]
<1>1. /\ pc.at = "own" /\ pc.about = k /\ Save(m, At("fill", k), At("failed", k))
      /\ UNCHANGED <<session, roots, inst>>
  BY DEF Own, At
<1>2. /\ mem \in Journals /\ Good(mem) /\ PhaseOf(mem, k) = "InProgress" /\ Validate(mem)
      /\ mem.rev + (IF k = "installation" THEN 9 ELSE 6) <= MaxRevisions
      /\ \E s \in mine[k] : \A q \in mine[k] : q <= s
  BY <1>1 DEF IInv, Types, Place, Begun, Sound, Room, Left, Newest, Outcomes
<1>3. r \in mine[k] /\ r \in Roots /\ r # None
  BY <1>1, CreatedIsMine
<1> HIDE DEF r
<1>4. /\ m \in Journals /\ m.rev = mem.rev /\ m.plan = mem.plan /\ m.generated = mem.generated
      /\ m.initialization = mem.initialization /\ m.start = mem.start /\ RootOf(m, k) = r
      /\ \A q \in Steps \ {k} : RootOf(m, q) = RootOf(mem, q)
      /\ \A q \in Steps : PhaseOf(m, q) = PhaseOf(mem, q)
  BY <1>2, <1>3, SetRootIs
<1> HIDE DEF m
<1>5. Good(m)
  <2>0. k = "registration" => mem.initialization = "Pending"
    BY <1>2 DEF Validate
  <2>1. TrueOf(m)
    BY <1>2, <1>4, <2>0 DEF Good, TrueOf, InitializedFor, Steps
  <2>2. MineIn(m) /\ BegunIn(m) /\ WholeIn(m)
    BY <1>1, <1>2, <1>3, <1>4 DEF Good, MineIn, BegunIn, WholeIn, IInv, Place, Unfilled
  <2>3. AppliedIn(m)
    BY <1>2, <1>4 DEF Good, AppliedIn
  <2> QED
    BY <2>1, <2>2, <2>3 DEF Good
<1>6. Validate(m)
  BY <1>2, <1>3, <1>4 DEF Validate, Pristine, Steps
<1>7. /\ Types' /\ Good(mem)' /\ \A s \in survives' : Good(s)'
      /\ \/ pc' = At("fill", k) /\ Saved(m)
         \/ /\ pc' = At("failed", k)
            /\ mem' = m \/ (mem' = Bumped(m) /\ m.rev < MaxRevisions)
  BY <1>1, <1>4, <1>5, SaveKeeps
<1>8. CASE pc' = At("fill", k) /\ Saved(m)
  <2>1. /\ mem'.rev = mem.rev + 1 /\ Validate(mem') /\ PhaseOf(mem', k) = "InProgress"
        /\ ~stale'
    BY <1>2, <1>4, <1>6, <1>8, BumpedIs DEF Saved
  <2>2. pc'.at = "fill" /\ pc'.about = k
    BY <1>8 DEF At
  <2>3. Room'
    BY <1>2, <2>1, <2>2, MemFields DEF Room, Left
  <2>4. Alone' /\ Planned' /\ Begun' /\ Sound' /\ Fresh' /\ Initializing'
    BY <2>1, <2>2 DEF Alone, Planned, Begun, Sound, Fresh, Initializing
  <2>6. Unfilled'
    <3>1. mine[k] \cap whole[k] = {} /\ UNCHANGED <<mine, whole>>
      BY <1>1 DEF IInv, Place, Unfilled, roots
    <3>2. Created(k)' = r
      BY <3>1 DEF Created, r
    <3>3. RootOf(mem', k) = r /\ survives' = {mem'}
      BY <1>4, <1>8, BumpedIs DEF Saved
    <3> QED
      BY <2>1, <2>2, <3>1, <3>2, <3>3 DEF Unfilled
  <2>5. Newest'
    BY <1>1, <1>2, <2>2 DEF Newest, roots
  <2> QED
    BY <1>7, <2>3, <2>4, <2>5, <2>6 DEF IInv, Place
<1>9. CASE /\ pc' = At("failed", k)
           /\ mem' = m \/ (mem' = Bumped(m) /\ m.rev < MaxRevisions)
  <2>1. pc'.at = "failed"
    BY <1>9 DEF At
  <2>3. Validate(mem') /\ mem'.rev \in {mem.rev, mem.rev + 1}
    BY <1>4, <1>6, <1>9, BumpedIs
  <2>2. Place'
    BY <1>2, <2>1, <2>3, MemFields
       DEF Place, Alone, Planned, Begun, Newest, Unfilled, Initializing, Sound, Fresh, Room,
           Left, Outcomes
  <2> QED
    BY <1>7, <2>2 DEF IInv
<1> QED
  BY <1>7, <1>8, <1>9

LEMMA FillKeeps ==
    ASSUME IInv, NEW k \in Steps, Fill(k)
    PROVE  IInv'
<1> DEFINE r == Created(k)
<1>1. /\ pc.at = "fill" /\ pc.about = k /\ pc'.at \in {"confirm", "failed"} /\ pc'.about = k
      /\ UNCHANGED <<session, journal, path, used, mine, inst>>
      /\ whole' = [whole EXCEPT ![k] = @ \cup {r}]
  BY DEF Fill, Goto, At
<1>2. r \in mine[k]
  BY <1>1, CreatedIsMine
<1>10. \A j \in survives \cup {mem} : RootOf(j, k) = r /\ PhaseOf(j, k) # "Pending"
  BY <1>1 DEF IInv, Place, Unfilled
<1> HIDE DEF r
<1>3. whole \in [Steps -> SUBSET (1 .. used)] /\ mine[k] \subseteq 1 .. used
  BY DEF IInv, Types
<1>4. whole[k] \cup {r} \in SUBSET (1 .. used)
  BY <1>2, <1>3
<1>5. /\ whole' \in [Steps -> SUBSET (1 .. used)]
      /\ \A q \in Steps : whole[q] \subseteq whole'[q]
      /\ whole'[k] = whole[k] \cup {r} /\ \A q \in Steps \ {k} : whole'[q] = whole[q]
  BY <1>1, <1>3, <1>4
<1>6. Types'
  BY <1>1, <1>5 DEF IInv, Types, session, journal
<1>7. ASSUME NEW j \in survives \cup {mem}, Good(j) PROVE Good(j)'
  <2>1. TrueOf(j)'
    BY <1>1, <1>5, <1>7 DEF Good, TrueOf, InitializedFor, PhaseOf, RootOf, Steps
  <2>2. MineIn(j)' /\ BegunIn(j)' /\ AppliedIn(j)'
    BY <1>1, <1>7 DEF Good, MineIn, BegunIn, AppliedIn, PhaseOf, RootOf, session
  <2>3. WholeIn(j)'
    BY <1>1, <1>5, <1>7, <1>10 DEF Good, WholeIn, PhaseOf, RootOf
  <2> QED
    BY <2>1, <2>2, <2>3 DEF Good
<1>8. Good(mem)' /\ \A s \in survives' : Good(s)'
  BY <1>1, <1>7, GoodInMemory DEF IInv, journal
<1>9. Place'
  <2>1. PhaseOf(mem, k) = "InProgress" /\ Validate(mem) /\ ~stale
        /\ mem.rev + (IF k = "installation" THEN 8 ELSE 5) <= MaxRevisions
    BY <1>1 DEF IInv, Place, Begun, Sound, Fresh, Room, Left, Outcomes
  <2> QED
    BY <1>1, <2>1, MemFields
       DEF Place, Alone, Planned, Begun, Newest, Unfilled, Initializing, Sound, Fresh, Room,
           Left, Outcomes, journal
<1> QED
  BY <1>6, <1>8, <1>9 DEF IInv

LEMMA StepFailsKeeps ==
    ASSUME IInv, NEW k \in Steps, StepFails(k)
    PROVE  IInv'
<1>1. /\ pc.at \in {"reserve", "own", "fill", "confirm"} /\ pc'.at = "failed"
      /\ UNCHANGED <<session, journal, roots, inst>>
  BY DEF StepFails, Goto, At
<1>2. Types'
  BY <1>1 DEF IInv, Types, session, journal, roots
<1>3. Good(mem)' /\ \A s \in survives' : Good(s)'
  BY <1>1, GoodStays DEF IInv, session, journal, roots, world
<1>4. Validate(mem) /\ Left(1)
  BY <1>1, MemFields DEF IInv, Place, Sound, Room, Left, Outcomes
<1>5. Place'
  BY <1>1, <1>4
     DEF Place, Alone, Planned, Begun, Newest, Unfilled, Initializing, Sound, Fresh, Room,
         Left, Outcomes, journal
<1> QED
  BY <1>2, <1>3, <1>5 DEF IInv

LEMMA RecordFailureKeeps ==
    ASSUME IInv, NEW k \in Steps, RecordFailure(k)
    PROVE  IInv'
<1> DEFINE p == IF RootOf(mem, k) = None /\ path[k] = None THEN "Pending" ELSE "Unknown"
           m == SetPhase(mem, k, p)
<1>1. mem \in Journals /\ Good(mem) /\ p \in Phase
  BY DEF IInv, Types, Phase
<1>2. /\ p \in {"Pending", "Unknown"}
      /\ p = "Pending" => path[k] \notin mine[k] /\ RootOf(mem, k) \notin mine[k]
  BY NoneIsNotMine DEF IInv
<1>3. UNCHANGED <<session, roots, inst>> /\ Save(m, Open, Open)
  BY DEF RecordFailure
<1> HIDE DEF p
<1>4. /\ m \in Journals /\ m.plan = mem.plan /\ m.generated = mem.generated
      /\ m.initialization = mem.initialization /\ PhaseOf(m, k) = p
      /\ \A q \in Steps \ {k} : PhaseOf(m, q) = PhaseOf(mem, q)
      /\ \A q \in Steps : RootOf(m, q) = RootOf(mem, q)
  BY <1>1, SetPhaseIs
<1> HIDE DEF m
<1>5. Good(m)
  BY <1>1, <1>2, <1>4, GoodLike
<1> QED
  BY <1>3, <1>4, <1>5, SaveQuiet, OpenIsQuiet

\* What is verified is this workflow's own, and complete.
LEMMA VerifiedIsMine ==
    ASSUME Good(mem), NEW k \in Steps, NEW fresh, Verified(k, fresh)
    PROVE  RootOf(mem, k) \in mine[k] \cap whole[k]
BY DEF Verified, Good, MineIn

\* Initialization is observed as confirmed only if it is.
LEMMA ObserveInitializationIs ==
    ASSUME NEW j \in Journals, NEW r, NEW m \in ObserveInitialization(j, r)
    PROVE  /\ m \in Journals
           /\ m.plan = j.plan /\ m.generated = j.generated /\ m.step = j.step
           /\ m.start = j.start /\ m.rev = j.rev
           /\ m.initialization = "Confirmed" =>
                j.initialization = "Confirmed" \/ inst[r] = "Initialized"
<1> DEFINE v == CASE inst[r] = "Initialized" -> {"Confirmed"}
                  [] inst[r] = "Intent" -> {"Unknown"}
                  [] OTHER -> {"Pending", j.initialization}
<1>1. ObserveInitialization(j, r) = {[j EXCEPT !.initialization = p] : p \in v}
  BY Zenon DEF ObserveInitialization
<1>2. v \subseteq {"Confirmed", "Unknown", "Pending", j.initialization}
  BY Zenon
<1>3. inst[r] # "Initialized" => v = {"Unknown"} \/ v = {"Pending", j.initialization}
  BY Zenon
<1> HIDE DEF v
<1>4. PICK p \in v : m = [j EXCEPT !.initialization = p]
  BY <1>1
<1>5. p \in Phase /\ (p = "Confirmed" => inst[r] = "Initialized" \/ j.initialization = "Confirmed")
  BY <1>2, <1>3, <1>4, JournalFields DEF Phase
<1>6. m \in Journals
  BY <1>4, <1>5, FieldUpdates
<1> QED
  BY <1>4, <1>5, <1>6 DEF Journals

LEMMA SetServiceIs ==
    ASSUME NEW j \in Journals, NEW m \in SetService(j)
    PROVE  /\ m \in Journals
           /\ m.plan = j.plan /\ m.generated = j.generated /\ m.step = j.step
           /\ m.initialization = j.initialization
<1>1. PICK p \in {"Pending", "Confirmed", "Unknown"} : m = [j EXCEPT !.start = p]
  BY DEF SetService
<1>2. m \in Journals
  BY <1>1, FieldUpdates DEF Phase
<1> QED
  BY <1>1, <1>2 DEF Journals

\* A journal with the same plan, product and steps is as good.
LEMMA GoodSteps ==
    ASSUME NEW j, NEW m, Good(j), m.plan = j.plan, m.generated = j.generated, m.step = j.step,
           m.initialization = "Confirmed" =>
               j.initialization = "Confirmed" \/ InitializedFor(j)
    PROVE  Good(m)
<1>1. \A k \in Steps : RootOf(m, k) = RootOf(j, k) /\ PhaseOf(m, k) = PhaseOf(j, k)
  BY DEF RootOf, PhaseOf
<1> QED
  BY <1>1, GoodLike

\* Whatever complete registration stands at the path, what is observed of it may be
\* recorded: if it is the workflow's own, it is the recorded one.
LEMMA ObservedGood ==
    ASSUME NEW j \in Journals, Good(j), Answers, NEW m \in ObserveInitialization(j, Here)
    PROVE  m \in Journals /\ Good(m)
<1>1. Here \in whole["registration"] /\ "registration" \in Steps
  BY DEF Answers, Steps
<1>2. Here = RootOf(j, "registration") \/ Here \notin mine["registration"]
  BY <1>1 DEF Good, WholeIn
<1>3. inst[Here] = "Initialized" => InitializedFor(j)
  BY <1>1, <1>2 DEF InitializedFor
<1> QED
  BY <1>3, ObserveInitializationIs, GoodSteps

LEMMA ConfirmKeeps ==
    ASSUME IInv, NEW k \in Steps, Confirm(k)
    PROVE  IInv'
<1> DEFINE m == SetPhase(mem, k, "Confirmed")
<1>1. mem \in Journals /\ Good(mem) /\ "Confirmed" \in Phase
  BY DEF IInv, Types, Phase
<1>2. /\ UNCHANGED <<session, roots, inst>> /\ pc.at = "confirm" /\ pc.about = k
      /\ Verified(k, TRUE)
      /\ k = "installation" => Save(m, At("step", k), Open)
      /\ k # "installation" => \E n \in ObserveInitialization(m, Here) : Save(n, Open, Open)
  BY DEF Confirm, At
<1>3. /\ m \in Journals /\ m.rev = mem.rev /\ m.plan = mem.plan /\ m.generated = mem.generated
      /\ m.initialization = mem.initialization /\ PhaseOf(m, k) = "Confirmed"
      /\ \A q \in Steps \ {k} : PhaseOf(m, q) = PhaseOf(mem, q)
      /\ \A q \in Steps : RootOf(m, q) = RootOf(mem, q)
  BY <1>1, SetPhaseIs
<1> HIDE DEF m
<1>4. Good(m)
  <2>1. RootOf(mem, k) \in mine[k] \cap whole[k]
    BY <1>1, <1>2, VerifiedIsMine
  <2> QED
    BY <1>1, <1>3, <2>1, GoodLike
<1>5. CASE k = "installation"
  <2>1. mem.rev + 8 <= MaxRevisions
    BY <1>2, <1>5 DEF IInv, Place, Room, Left
  <2>2. ASSUME pc' = At("step", k), Saved(m) PROVE Place'
    <3>1. mem'.rev = mem.rev + 1 /\ ~stale' /\ PhaseOf(mem', k) = "Confirmed"
      BY <1>3, <2>2, BumpedIs DEF Saved
    <3>2. pc'.at = "step" /\ pc'.about = k /\ pc'.at \notin Outcomes
      BY <2>2 DEF At, Outcomes
    <3>3. Room'
      BY <1>5, <2>1, <3>1, <3>2, MemFields DEF Room, Left
    <3> QED
      BY <3>1, <3>2, <3>3 DEF Place, Alone, Planned, Begun, Newest, Unfilled, Initializing,
         Sound, Fresh
  <2> QED
    BY <1>2, <1>3, <1>4, <1>5, <2>2, SaveOn
<1>6. CASE k # "installation"
  <2>1. PICK n \in ObserveInitialization(m, Here) : Save(n, Open, Open)
    BY <1>2, <1>6
  <2>2. Answers
    BY <1>2, <1>6 DEF Answers, Here, Verified, Steps
  <2>3. n \in Journals /\ Good(n)
    BY <1>3, <1>4, <2>2, ObservedGood
  <2> QED
    BY <1>2, <2>1, <2>3, SaveQuiet, OpenIsQuiet
<1> QED
  BY <1>5, <1>6

-----------------------------------------------------------------------------
(* reconcile, initialize, start, wait.                                     *)

\* What reconciliation changes of a journal.
LEMMA ReconciledIs ==
    ASSUME NEW j \in Journals, NEW parts
    PROVE  LET m == Reconciled(j, parts)
           IN  /\ m \in Journals
               /\ m.plan = j.plan /\ m.initialization = j.initialization
               /\ m.generated = "Pending" => j.generated = "Pending"
               /\ \A k \in Steps :
                    /\ RootOf(m, k) = RootOf(j, k)
                    /\ PhaseOf(m, k) = IF PhaseOf(j, k) # "Pending" /\ k \in parts
                                       THEN "Confirmed" ELSE PhaseOf(j, k)
<1> DEFINE g == IF j.generated # "Pending" /\ "generated" \in parts THEN "Confirmed"
                ELSE j.generated
           st == [k \in Steps |-> IF PhaseOf(j, k) # "Pending" /\ k \in parts
                                  THEN [j.step[k] EXCEPT !.phase = "Confirmed"]
                                  ELSE j.step[k]]
           m == [j EXCEPT !.generated = g, !.step = st]
<1>1. Reconciled(j, parts) = m
  BY DEF Reconciled
<1>2. /\ j.generated \in Phase /\ "Confirmed" \in Phase
      /\ \A k \in Steps : j.step[k] \in StepRecords
  BY JournalFields DEF Phase
<1>3. g \in Phase /\ (g = "Pending" => j.generated = "Pending")
  BY <1>2
<1>4. ASSUME NEW k \in Steps
      PROVE  /\ st[k] \in StepRecords /\ st[k].root = RootOf(j, k)
             /\ st[k].phase = IF PhaseOf(j, k) # "Pending" /\ k \in parts
                              THEN "Confirmed" ELSE PhaseOf(j, k)
  BY <1>2 DEF StepRecords, RootOf, PhaseOf
<1>5. st \in [Steps -> StepRecords]
  BY <1>4
<1> HIDE DEF g, st
<1>6. /\ m \in Journals /\ m.plan = j.plan /\ m.initialization = j.initialization
      /\ m.generated = g /\ m.step = st
  BY <1>3, <1>5 DEF Journals, StepRecords
<1> HIDE DEF m
<1>7. \A k \in Steps :
        /\ RootOf(m, k) = RootOf(j, k)
        /\ PhaseOf(m, k) = IF PhaseOf(j, k) # "Pending" /\ k \in parts
                           THEN "Confirmed" ELSE PhaseOf(j, k)
  BY <1>4, <1>6 DEF RootOf, PhaseOf
<1> QED
  BY <1>1, <1>3, <1>6, <1>7

\* What was examined may be confirmed.
LEMMA ReconciledGood ==
    ASSUME IInv, NEW parts \in Prefixes, \A p \in parts : Unsettled(p) => Examined(p)
    PROVE  Reconciled(mem, parts) \in Journals /\ Good(Reconciled(mem, parts))
<1>1. mem \in Journals /\ Good(mem)
  BY DEF IInv, Types
<1>2. ASSUME NEW k \in Steps, k \in parts, PhaseOf(mem, k) # "Pending"
      PROVE  RootOf(mem, k) \in mine[k] \cap whole[k]
  <2>1. CASE PhaseOf(mem, k) = "Confirmed"
    BY <1>1, <2>1 DEF Good, TrueOf
  <2>2. CASE PhaseOf(mem, k) # "Confirmed"
    <3>1. Unsettled(k) /\ k # "generated"
      BY <1>1, <1>2, <2>2, JournalFields DEF Unsettled, Steps, Phase
    <3>2. Verified(k, PhaseOf(mem, k) # "Confirmed")
      BY <1>2, <3>1 DEF Examined
    <3> QED
      BY <1>1, <3>2, VerifiedIsMine
  <2> QED
    BY <2>1, <2>2
<1> QED
  BY <1>1, <1>2, ReconciledIs, GoodLike

\* A reconciliation changes the journal in memory only.
LEMMA InMemory ==
    ASSUME IInv, NEW m \in Journals, Good(m), mem' = m, pc'.at \in Quiet,
           UNCHANGED <<session, disk, survives, stale, roots, inst>>
    PROVE  IInv'
<1>1. Types'
  BY DEF IInv, Types, session, roots
<1>2. UNCHANGED world
  BY DEF session, roots, world
<1>3. Good(mem)' /\ \A s \in survives' : Good(s)'
  BY <1>2, GoodStays, GoodInMemory DEF IInv
<1> QED
  BY <1>1, <1>3, QuietPlace DEF IInv

LEMMA ReconcileKeeps ==
    ASSUME IInv, NEW g \in Goals, Reconcile(g)
    PROVE  IInv'
<1> DEFINE Seen(done) == IF PhaseOf(mem, "registration") = "Pending" THEN {done}
                         ELSE ObserveInitialization(done, Here)
<1>1. PICK parts \in Prefixes :
        /\ \A p \in parts : Examined(p)
        /\ \/ parts # Parts /\ mem' = Reconciled(mem, parts) /\ pc' = Open
           \/ /\ parts = Parts
              /\ \E seen \in Seen(Reconciled(mem, parts)) :
                   \/ /\ pc' = At("observed", g)
                      /\ mem' \in (IF mem.start = "Pending" THEN {seen} ELSE SetService(seen))
                   \/ pc' = Open /\ mem' = [seen EXCEPT !.start = "Unknown"]
  BY DEF Reconcile
<1>2. UNCHANGED <<session, disk, survives, stale, roots, inst>>
  BY DEF Reconcile
<1> DEFINE done == Reconciled(mem, parts)
<1>3. done \in Journals /\ Good(done)
  BY <1>1, ReconciledGood
<1>4. pc'.at \in Quiet
  BY <1>1, OpenIsQuiet DEF At, Quiet
<1>5. CASE mem' = done
  BY <1>2, <1>3, <1>4, <1>5, InMemory
<1>6. CASE parts = Parts /\ mem' # done
  <2>1. PICK seen \in Seen(done) :
          mem' \in {seen, [seen EXCEPT !.start = "Unknown"]} \cup SetService(seen)
    BY <1>1, <1>6
  <2>2. PhaseOf(mem, "registration") # "Pending" => Answers
    <3>1. Examined("registration")
      BY <1>1, <1>6 DEF Parts, Steps
    <3> QED
      BY <3>1 DEF Examined, Verified, Answers, Here, Steps
  <2> HIDE DEF done
  <2>3. seen \in Journals /\ Good(seen)
    BY <1>3, <2>1, <2>2, ObservedGood
  <2>4. ASSUME mem' \in SetService(seen) PROVE mem' \in Journals /\ Good(mem')
    BY <2>3, <2>4, SetServiceIs, GoodSteps
  <2>5. [seen EXCEPT !.start = "Unknown"] \in Journals /\ Good([seen EXCEPT !.start = "Unknown"])
    <3>1. [seen EXCEPT !.start = "Unknown"] \in Journals
      BY <2>3, FieldUpdates DEF Phase
    <3> QED
      BY <2>3, <3>1, GoodSteps DEF Journals
  <2>6. mem' \in Journals /\ Good(mem')
    BY <2>1, <2>3, <2>4, <2>5
  <2> QED
    BY <1>2, <1>4, <2>6, InMemory
<1> QED
  BY <1>1, <1>5, <1>6

LEMMA ReconcileApplicationKeeps ==
    ASSUME IInv, ReconcileApplication
    PROVE  IInv'
<1>1. PICK parts \in Prefixes :
        /\ \A p \in parts : Unsettled(p) => Examined(p)
        /\ mem' = Reconciled(mem, parts)
        /\ pc' = IF parts = Parts THEN At("observed", "check") ELSE Open
  BY DEF ReconcileApplication
<1>2. pc'.at \in Quiet
  BY <1>1, OpenIsQuiet DEF At, Quiet
<1>3. UNCHANGED <<session, disk, survives, stale, roots, inst>>
  BY DEF ReconcileApplication
<1> QED
  BY <1>1, <1>2, <1>3, ReconciledGood, InMemory

LEMMA SaveReconciledKeeps ==
    ASSUME IInv, NEW g \in Goals, SaveReconciled(g)
    PROVE  IInv'
<1> DEFINE ok == CASE g = "check" -> Open
                   [] g = "start" -> At("start", None)
                   [] OTHER -> At("init", g)
<1>1. Save(mem, ok, Open)
  BY Zenon DEF SaveReconciled
<1>2. ok \in {Open, At("start", None), At("init", g)}
  BY Zenon
<1> HIDE DEF ok
<1>3. ok.at \in Quiet
  BY <1>2, OpenIsQuiet DEF At, Quiet
<1>4. UNCHANGED <<session, roots, inst>> /\ mem \in Journals /\ Good(mem)
  BY DEF SaveReconciled, IInv, Types
<1> QED
  BY <1>1, <1>3, <1>4, SaveQuiet, OpenIsQuiet

\* An intent is saved while there is room for its result.
LEMMA IntentKeeps ==
    ASSUME IInv, NEW m \in Journals, Good(m), NEW ok, Save(m, ok, Open),
           ok.at \in {"initializing", "starting"}, m.rev = mem.rev, Capacity(3),
           ok.at = "initializing" => m.initialization = "InProgress",
           UNCHANGED <<session, roots, inst>>
    PROVE  IInv'
<1>1. mem.rev + 3 <= MaxRevisions
  BY DEF Capacity
<1>2. ASSUME pc' = ok, Saved(m) PROVE Place'
  <2>1. /\ mem'.rev = mem.rev + 1 /\ Validate(mem') /\ ~stale'
        /\ mem'.initialization = m.initialization
    BY <1>2, BumpedIs DEF Saved
  <2>2. Left(1)'
    BY <1>1, <2>1, MemFields DEF Left
  <2> QED
    BY <1>2, <2>1, <2>2 DEF Place, Alone, Planned, Begun, Newest, Unfilled, Initializing,
       Sound, Fresh, Room
<1> QED
  BY <1>2, SaveOn

\* A phase of initialization other than Confirmed, or of the start, claims nothing.
LEMMA NewPhases ==
    ASSUME IInv, NEW p \in Phase \ {"Confirmed"}
    PROVE  /\ [mem EXCEPT !.initialization = p] \in Journals
           /\ Good([mem EXCEPT !.initialization = p])
           /\ [mem EXCEPT !.initialization = p].rev = mem.rev
           /\ [mem EXCEPT !.initialization = p].initialization = p
           /\ [mem EXCEPT !.start = p] \in Journals
           /\ Good([mem EXCEPT !.start = p])
           /\ [mem EXCEPT !.start = p].rev = mem.rev
<1>1. mem \in Journals /\ Good(mem)
  BY DEF IInv, Types
<1>2. [mem EXCEPT !.initialization = p] \in Journals /\ [mem EXCEPT !.start = p] \in Journals
  BY <1>1, FieldUpdates
<1>3. /\ [mem EXCEPT !.initialization = p].rev = mem.rev
      /\ [mem EXCEPT !.initialization = p].plan = mem.plan
      /\ [mem EXCEPT !.initialization = p].generated = mem.generated
      /\ [mem EXCEPT !.initialization = p].step = mem.step
      /\ [mem EXCEPT !.initialization = p].initialization = p
  BY <1>1 DEF Journals
<1>4. /\ [mem EXCEPT !.start = p].rev = mem.rev
      /\ [mem EXCEPT !.start = p].plan = mem.plan
      /\ [mem EXCEPT !.start = p].generated = mem.generated
      /\ [mem EXCEPT !.start = p].step = mem.step
      /\ [mem EXCEPT !.start = p].initialization = mem.initialization
  BY <1>1 DEF Journals
<1>5. Good([mem EXCEPT !.initialization = p])
  BY <1>1, <1>3, GoodSteps
<1>6. Good([mem EXCEPT !.start = p])
  BY <1>1, <1>4, GoodSteps
<1> QED
  BY <1>2, <1>3, <1>4, <1>5, <1>6

LEMMA BeginInitKeeps ==
    ASSUME IInv, NEW g \in Goals, BeginInit(g)
    PROVE  IInv'
<1>1. "InProgress" \in Phase \ {"Confirmed"} /\ At("initializing", None).at = "initializing"
  BY DEF Phase, At
<1> QED
  BY <1>1, NewPhases, IntentKeeps DEF BeginInit

LEMMA BeginStartKeeps ==
    ASSUME IInv, BeginStart
    PROVE  IInv'
<1>1. /\ "InProgress" \in Phase \ {"Confirmed"}
      /\ At("starting", None).at = "starting" /\ "starting" # "initializing"
  BY DEF Phase, At
<1> QED
  BY <1>1, NewPhases, IntentKeeps DEF BeginStart

LEMMA InitReturnsKeeps ==
    ASSUME IInv, InitReturns
    PROVE  IInv'
<1>1. /\ pc.at = "initializing" /\ pc'.at = "returned"
      /\ UNCHANGED <<session, disk, survives, stale, roots, inst>>
  BY DEF InitReturns, Goto, At
<1>2. /\ mem \in Journals /\ Good(mem) /\ Validate(mem) /\ mem.initialization = "InProgress"
      /\ ~stale /\ Left(1)
  BY <1>1 DEF IInv, Types, Place, Sound, Initializing, Fresh, Room, Outcomes
<1>3. /\ mem' \in Journals /\ Good(mem')
      /\ mem'.plan = mem.plan /\ mem'.generated = mem.generated /\ mem'.step = mem.step
      /\ mem'.start = mem.start /\ mem'.rev = mem.rev
  <2>1. CASE Answers /\ mem' \in ObserveInitialization(mem, Here)
    BY <1>2, <2>1, ObservedGood, ObserveInitializationIs
  <2>2. CASE mem' = [mem EXCEPT !.initialization = "Unknown"]
    <3>1. "Unknown" \in Phase \ {"Confirmed"}
      BY DEF Phase
    <3> QED
      BY <1>2, <2>2, <3>1, NewPhases DEF Journals
  <2> QED
    BY <2>1, <2>2 DEF InitReturns
<1>4. Validate(mem')
  <2>1. \A k \in Steps : PhaseOf(mem', k) = PhaseOf(mem, k) /\ RootOf(mem', k) = RootOf(mem, k)
    BY <1>3 DEF PhaseOf, RootOf
  <2>2. PhaseOf(mem, "registration") = "Confirmed" /\ mem.start = "Pending" /\ mem.plan # None
    BY <1>2 DEF Validate, Pristine
  <2> QED
    BY <1>2, <1>3, <2>1, <2>2 DEF Validate, Steps
<1>5. Types'
  BY <1>1, <1>3 DEF IInv, Types, session, roots
<1>6. Good(mem)' /\ \A s \in survives' : Good(s)'
  <2>1. UNCHANGED world
    BY <1>1 DEF session, roots, world
  <2> QED
    BY <1>1, <1>3, <2>1, GoodStays, GoodInMemory DEF IInv
<1>7. Place'
  BY <1>1, <1>2, <1>3, <1>4
     DEF Place, Alone, Planned, Begun, Newest, Unfilled, Initializing, Sound, Fresh, Room, Left,
         Outcomes
<1> QED
  BY <1>5, <1>6, <1>7 DEF IInv

LEMMA SaveResultKeeps ==
    ASSUME IInv, SaveResult
    PROVE  IInv'
BY SaveQuiet, OpenIsQuiet DEF SaveResult, IInv, Types

\* What start and wait save of the service.
LEMMA ServiceSaved ==
    ASSUME IInv, UNCHANGED <<session, roots, inst>>,
           \/ \E m \in SetService(mem) : Save(m, Open, Open)
           \/ Save([mem EXCEPT !.start = "Unknown"], Open, Open)
    PROVE  IInv'
<1>1. mem \in Journals /\ Good(mem)
  BY DEF IInv, Types
<1>2. ASSUME NEW m \in SetService(mem), Save(m, Open, Open) PROVE IInv'
  <2>1. m \in Journals /\ Good(m)
    BY <1>1, SetServiceIs, GoodSteps
  <2> QED
    BY <1>2, <2>1, SaveQuiet, OpenIsQuiet
<1>3. CASE Save([mem EXCEPT !.start = "Unknown"], Open, Open)
  <2>1. "Unknown" \in Phase \ {"Confirmed"}
    BY DEF Phase
  <2> QED
    BY <1>3, <2>1, NewPhases, SaveQuiet, OpenIsQuiet
<1> QED
  BY <1>2, <1>3

LEMMA StartReturnsKeeps ==
    ASSUME IInv, StartReturns
    PROVE  IInv'
BY ServiceSaved DEF StartReturns

LEMMA WaitKeeps ==
    ASSUME IInv, Wait
    PROVE  IInv'
BY ServiceSaved DEF Wait

-----------------------------------------------------------------------------
(* The world around.                                                       *)

\* Somebody else's directory has a number that is none of this workflow's.
LEMMA ForeignKeeps ==
    ASSUME IInv, NEW k \in Steps, Foreign(k)
    PROVE  IInv'
<1>1. /\ UNCHANGED <<pc, session, journal, mine, inst>>
      /\ used < MaxRoots /\ used' = used + 1
      /\ path' = [path EXCEPT ![k] = used + 1]
      /\ whole' = [whole EXCEPT ![k] = @ \cup {used + 1}]
  BY DEF Foreign
<1>2. /\ used \in 0 .. MaxRoots /\ MaxRoots \in Nat
      /\ path \in [Steps -> Roots \cup {None}] /\ mine \in [Steps -> SUBSET (1 .. used)]
      /\ whole \in [Steps -> SUBSET (1 .. used)]
  BY WorkflowAssumption DEF IInv, Types
<1>3. used' \in 0 .. MaxRoots /\ used + 1 \in Roots /\ 1 .. used \subseteq 1 .. used'
  BY <1>1, <1>2 DEF Roots
<1>4. path' \in [Steps -> Roots \cup {None}]
  BY <1>1, <1>2, <1>3
<1>5. mine' \in [Steps -> SUBSET (1 .. used')]
  BY <1>1, <1>2, <1>3
<1>6. /\ whole' \in [Steps -> SUBSET (1 .. used')]
      /\ whole'[k] = whole[k] \cup {used + 1} /\ \A q \in Steps \ {k} : whole'[q] = whole[q]
  <2>1. \A q \in Steps : whole[q] \subseteq 1 .. used'
    BY <1>2, <1>3
  <2>2. used + 1 \in 1 .. used'
    BY <1>1, <1>2
  <2>3. whole[k] \cup {used + 1} \in SUBSET (1 .. used')
    BY <2>1, <2>2
  <2>4. whole \in [Steps -> SUBSET (1 .. used')]
    BY <1>2, <2>1
  <2> QED
    BY <1>1, <1>2, <2>3, <2>4
<1>7. Types'
  BY <1>1, <1>3, <1>4, <1>5, <1>6 DEF IInv, Types, session, journal
<1>8. path'[k] \notin mine[k] /\ \A q \in Steps \ {k} : path'[q] = path[q]
  BY <1>1, <1>2, NoneIsNotMine DEF IInv
<1>9. ASSUME NEW j, Good(j) PROVE Good(j)'
  <2>1. TrueOf(j)' /\ MineIn(j)'
    BY <1>1, <1>6, <1>9 DEF Good, TrueOf, InitializedFor, MineIn, PhaseOf, RootOf, Steps
  <2>2. BegunIn(j)' /\ AppliedIn(j)'
    BY <1>1, <1>8, <1>9 DEF Good, BegunIn, AppliedIn, PhaseOf, session
  <2>3. WholeIn(j)'
    <3>1. used + 1 \notin mine[k]
      BY NoneIsNotMine DEF IInv
    <3> QED
      BY <1>1, <1>6, <1>9, <3>1 DEF Good, WholeIn, PhaseOf, RootOf
  <2> QED
    BY <2>1, <2>2, <2>3 DEF Good
<1>10. Good(mem)' /\ \A s \in survives' : Good(s)'
  BY <1>1, <1>9, GoodInMemory DEF IInv, journal
<1>11. Place'
  <2>1. used + 1 \notin mine[k]
    BY NoneIsNotMine DEF IInv
  <2>2. \A q \in Steps : mine[q] \cap whole'[q] = mine[q] \cap whole[q]
    BY <1>6, <2>1
  <2> QED
    BY <1>1, <2>2, PlaceStays DEF IInv, session, journal
<1> QED
  BY <1>7, <1>10, <1>11 DEF IInv

\* A directory that is moved away, or put back: what the workflow completed is recorded
\* as begun wherever it is.
LEMMA MovesKeep ==
    ASSUME IInv, NEW k \in Steps, Remove(k) \/ (PutBack /\ k = "registration")
    PROVE  IInv'
<1>1. /\ UNCHANGED <<pc, session, journal, used, mine, whole, inst>>
      /\ \E r \in whole[k] \cup {None} : path' = [path EXCEPT ![k] = r]
  BY DEF Remove, PutBack
<1>2. PICK r \in whole[k] \cup {None} : path' = [path EXCEPT ![k] = r]
  BY <1>1
<1>3. /\ path \in [Steps -> Roots \cup {None}] /\ whole[k] \subseteq 1 .. used
      /\ used \in 0 .. MaxRoots /\ MaxRoots \in Nat
  BY WorkflowAssumption DEF IInv, Types
<1>4. r \in Roots \cup {None}
  BY <1>3 DEF Roots
<1>5. path' \in [Steps -> Roots \cup {None}]
  BY <1>2, <1>3, <1>4
<1>6. Types'
  BY <1>1, <1>5 DEF IInv, Types, session, journal
<1>7. /\ path'[k] \in mine[k] => path'[k] \in mine[k] \cap whole[k]
      /\ \A q \in Steps \ {k} : path'[q] = path[q]
  BY <1>2, <1>3, NoneIsNotMine DEF IInv
<1>8. ASSUME NEW j, Good(j) PROVE Good(j)'
  <2>1. TrueOf(j)' /\ MineIn(j)' /\ WholeIn(j)'
    BY <1>1, <1>8 DEF Good, TrueOf, InitializedFor, MineIn, WholeIn, PhaseOf, RootOf
  <2>2. BegunIn(j)'
    BY <1>1, <1>7, <1>8 DEF Good, BegunIn, WholeIn, PhaseOf, RootOf
  <2>3. AppliedIn(j)'
    BY <1>1, <1>8 DEF Good, AppliedIn, session
  <2> QED
    BY <2>1, <2>2, <2>3 DEF Good
<1>9. Good(mem)' /\ \A s \in survives' : Good(s)'
  BY <1>1, <1>8, GoodInMemory DEF IInv, journal
<1>10. Place'
  BY <1>1, PlaceStays DEF IInv, session, journal
<1> QED
  BY <1>6, <1>9, <1>10 DEF IInv

\* Whatever happens to a registration, one that was initialized stays so.
LEMMA InstanceMoves ==
    ASSUME IInv, UNCHANGED <<pc, session, journal, roots>>,
           inst' \in [Roots -> {"Registered", "Intent", "Initialized"}],
           \A r \in Roots : inst[r] = "Initialized" => inst'[r] = "Initialized"
    PROVE  IInv'
<1>1. Types'
  BY DEF IInv, Types, session, journal, roots
<1>2. \A r \in whole["registration"] : r \in Roots
  BY WorkflowAssumption DEF IInv, Types, Roots, Steps
<1>3. ASSUME NEW j, Good(j) PROVE Good(j)'
  <2>1. InitializedFor(j) => InitializedFor(j)'
    BY <1>2 DEF InitializedFor, RootOf, roots
  <2> QED
    BY <1>3, <2>1
       DEF Good, TrueOf, MineIn, BegunIn, WholeIn, AppliedIn, PhaseOf, RootOf, session, roots
<1>4. Good(mem)' /\ \A s \in survives' : Good(s)'
  BY <1>3, GoodInMemory DEF IInv, journal
<1>5. Place'
  BY PlaceStays DEF IInv, session, journal, roots
<1> QED
  BY <1>1, <1>4, <1>5 DEF IInv

LEMMA WorldKeeps ==
    ASSUME IInv, EngineInit \/ \E r \in Roots : EngineDone(r)
    PROVE  IInv'
<1>1. UNCHANGED <<pc, session, journal, roots>>
  BY DEF EngineInit, EngineDone
<1>2. inst \in [Roots -> {"Registered", "Intent", "Initialized"}]
  BY DEF IInv, Types
<1>3. PICK r : \E to \in {"Intent", "Initialized"} :
        inst[r] # "Initialized" /\ inst' = [inst EXCEPT ![r] = to]
  <2>1. CASE EngineInit
    BY <2>1, Zenon DEF EngineInit
  <2>2. CASE \E r \in Roots : EngineDone(r)
    BY <2>2, Zenon DEF EngineDone
  <2> QED
    BY <2>1, <2>2
<1>4. /\ inst' \in [Roots -> {"Registered", "Intent", "Initialized"}]
      /\ \A q \in Roots : inst[q] = "Initialized" => inst'[q] = "Initialized"
  BY <1>2, <1>3
<1> QED
  BY <1>1, <1>4, InstanceMoves

\* A power loss makes no product file that was not there.
LEMMA RemainsIs ==
    ASSUME NEW s \in ProductStates, NEW t \in Remains(s)
    PROVE  t \in ProductStates /\ (t # "absent" => s # "absent")
<1>1. CASE s = "linked"
  <2>1. Remains(s) = {"absent", "linked"}
    BY <1>1, Zenon DEF Remains
  <2> QED
    BY <1>1, <2>1 DEF ProductStates
<1>2. CASE s = "loose"
  <2>1. Remains(s) = {"absent", "linked", "published"}
    BY <1>2, Zenon DEF Remains
  <2> QED
    BY <1>2, <2>1 DEF ProductStates
<1>3. CASE s # "linked" /\ s # "loose"
  <2>1. Remains(s) = {s}
    BY <1>3, Zenon DEF Remains
  <2> QED
    BY <2>1
<1> QED
  BY <1>1, <1>2, <1>3

LEMMA PowerLossKeeps ==
    ASSUME IInv, PowerLoss
    PROVE  IInv'
<1>1. /\ disk' \in survives /\ survives' = {disk'} /\ draft' \in drafts /\ drafts' = {draft'}
      /\ Gone /\ UNCHANGED <<roots, inst>>
  BY DEF PowerLoss
<1>2. PICK state \in Remains(product.state) : product' = [product EXCEPT !.state = state]
  BY DEF PowerLoss
<1>3. /\ product \in [state : ProductStates, content : Drafts \cup {None}]
      /\ product.state \in ProductStates /\ drafts \subseteq Drafts
  BY DEF IInv, Types
<1>4. state \in ProductStates /\ (state # "absent" => product.state # "absent")
  BY <1>3, RemainsIs
<1>5. /\ product' \in [state : ProductStates, content : Drafts \cup {None}]
      /\ product'.state = state /\ product'.content = product.content
  BY <1>2, <1>3, <1>4
<1> QED
  BY <1>1, <1>3, <1>4, <1>5, GoneKeeps

-----------------------------------------------------------------------------
(* The invariant.                                                          *)

LEMMA InitHolds ==
    ASSUME Init
    PROVE  IInv
<1>1. NewJournal \in Journals
  <2>1. 1 \in 0 .. MaxRevisions /\ "Pending" \in Phase
    BY WorkflowAssumption DEF Phase
  <2>2. [k \in Steps |-> [phase |-> "Pending", root |-> None]] \in [Steps -> StepRecords]
    BY <2>1 DEF StepRecords
  <2> QED
    BY <2>1, <2>2 DEF NewJournal, Journals, StepRecords
<1>2. \A k \in Steps : PhaseOf(NewJournal, k) = "Pending" /\ RootOf(NewJournal, k) = None
  BY DEF NewJournal, PhaseOf, RootOf
<1>3. Types
  <2>1. "absent" \in ProductStates /\ 0 \in 0 .. MaxRoots
    BY WorkflowAssumption DEF ProductStates
  <2> QED
    BY <1>1, <2>1 DEF Init, Types
<1>4. NewJournal.initialization = "Pending"
  BY DEF NewJournal
<1>5. Good(NewJournal)
  <2>1. TrueOf(NewJournal)
    BY <1>2, <1>4 DEF TrueOf
  <2>2. MineIn(NewJournal)
    BY <1>2 DEF MineIn
  <2>3. BegunIn(NewJournal) /\ WholeIn(NewJournal) /\ AppliedIn(NewJournal)
    BY DEF Init, BegunIn, WholeIn, AppliedIn
  <2> QED
    BY <2>1, <2>2, <2>3 DEF Good
<1>6. Place
  <2>1. pc.at = "closed" /\ pc.at \notin Outcomes \cup {"step"}
    BY DEF Init, Closed, At, Outcomes
  <2> QED
    BY <2>1 DEF Place, Alone, Planned, Begun, Newest, Unfilled, Initializing, Sound, Fresh,
       Room, Outcomes
<1> QED
  BY <1>3, <1>5, <1>6 DEF IInv, Init

LEMMA StutterKeeps ==
    ASSUME IInv, UNCHANGED vars
    PROVE  IInv'
BY InstanceMoves DEF vars, IInv, Types

LEMMA NextKeeps ==
    ASSUME IInv, Next
    PROVE  IInv'
<1>1. CASE CreateBegin \/ CreateEnd \/ Resume \/ Close \/ Abandon
  BY <1>1, CreateBeginKeeps, CreateEndKeeps, ResumeKeeps, CloseKeeps, AbandonKeeps
<1>2. CASE SetInputs \/ Edit \/ SetDraft \/ Prepare
  BY <1>2, SetInputsKeeps, EditKeeps, SetDraftKeeps, PrepareKeeps
<1>3. CASE Apply \/ LinkProduct \/ UnlinkProduct \/ Generated \/ NextStep
  BY <1>3, ApplyKeeps, LinkProductKeeps, UnlinkProductKeeps, GeneratedKeeps, NextStepKeeps
<1>4. ASSUME NEW k \in Steps,
             \/ BeginStep(k) \/ Reserve(k) \/ Own(k) \/ Fill(k) \/ Confirm(k)
             \/ StepFails(k) \/ RecordFailure(k) \/ Foreign(k) \/ Remove(k)
      PROVE  IInv'
  BY <1>4, BeginStepKeeps, ReserveKeeps, OwnKeeps, FillKeeps, ConfirmKeeps, StepFailsKeeps,
     RecordFailureKeeps, ForeignKeeps, MovesKeep
<1>5. ASSUME NEW g \in Goals, Reconcile(g) \/ SaveReconciled(g) \/ BeginInit(g)
      PROVE  IInv'
  BY <1>5, ReconcileKeeps, SaveReconciledKeeps, BeginInitKeeps
<1>6. CASE ReconcileApplication \/ InitReturns \/ SaveResult \/ BeginStart \/ StartReturns \/ Wait
  BY <1>6, ReconcileApplicationKeeps, InitReturnsKeeps, SaveResultKeeps, BeginStartKeeps,
     StartReturnsKeeps, WaitKeeps
<1>7. CASE PutBack \/ EngineInit \/ (\E r \in Roots : EngineDone(r)) \/ PowerLoss
  BY <1>7, MovesKeep, WorldKeeps, PowerLossKeeps DEF Steps
<1> QED
  BY <1>1, <1>2, <1>3, <1>4, <1>5, <1>6, <1>7 DEF Next

\* The inductive invariant holds in every state of the workflow: whatever fails, is
\* interrupted or is done by others, every checkpoint that may survive and the journal
\* in memory record what is so, and the next record that is due can be made.
THEOREM Invariance == Spec => []IInv
<1>1. Init => IInv
  BY InitHolds
<1>2. IInv /\ [Next]_vars => IInv'
  BY NextKeeps, StutterKeeps
<1> QED
  BY <1>1, <1>2, PTL DEF Spec

\* CONFIRMED is true in every checkpoint that may survive (reconcile, apply_with_guard
\* and initialize of setup/workflow.rs): a confirmed installation or registration is
\* complete and this workflow's own, whatever else was put at its path in between; a
\* confirmed initialization was completed, of the recorded registration or of another
\* one that was put in its place, with which initialize does not compare it.
THEOREM ConfirmedHolds == Spec => []ConfirmedIsTrue
<1>1. IInv => ConfirmedIsTrue
  BY DEF IInv, Good, TrueOf, ConfirmedIsTrue
<1> QED
  BY <1>1, Invariance, PTL

\* No step is begun twice (apply_with_guard): while a root the workflow made stands at
\* its destination, no checkpoint that may survive has the step pending.
THEOREM NothingIsRepeated == Spec => []NotRepeated
<1>1. IInv => NotRepeated
  BY DEF IInv, Good, BegunIn, NotRepeated
<1> QED
  BY <1>1, Invariance, PTL

\* What happened can be recorded (require_capacity and validate): the revisions asked
\* for when an operation begins are enough for every record it may still have to make,
\* and no such record is refused.
THEOREM OutcomesFit == Spec => []OutcomeFits
<1>1. IInv => OutcomeFits
  BY MemFields DEF IInv, Place, Sound, Room, Left, Outcomes, OutcomeFits
<1> QED
  BY <1>1, Invariance, PTL

\* What was reviewed is what is applied (apply_with_guard, write_new): a product file
\* that exists has the content of the plan in every checkpoint that may survive, and
\* each of them records that it was begun.
THEOREM PlanIsApplied == Spec => []AppliedAsPlanned
<1>1. IInv => AppliedAsPlanned
  BY DEF IInv, Good, AppliedIn, AppliedAsPlanned
<1> QED
  BY <1>1, Invariance, PTL

\* Types, and the bound on revisions: the journal in memory and every checkpoint are
\* journals of at most MAX_REVISIONS revisions (setup/store.rs).
THEOREM TypeCorrect == Spec => []TypeOK
<1>1. IInv => TypeOK
  BY DEF IInv, Types, TypeOK
<1> QED
  BY <1>1, Invariance, PTL
=============================================================================
