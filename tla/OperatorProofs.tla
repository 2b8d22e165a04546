--------------------------- MODULE OperatorProofs ---------------------------
(***************************************************************************)
(* Proofs about Operator, for every set of processes, paths, names, answers *)
(* and inputs and every bound.                                             *)
(*                                                                         *)
(* The properties are not inductive.  IInv says of the catalog's side      *)
(* (CallInv) what a call remembers across its prompt: that a memory called *)
(* current is the catalog, that the lock is held over a save, and what the *)
(* call is aimed at.  Of the preparation's side (SesInv) it says that a    *)
(* current copy is what is stored, that whoever edits has the workspace,   *)
(* and how far the files of the revision being prepared have come.         *)
(***************************************************************************)
EXTENDS Operator, TLAPS

Aliases == Names \cup {NoName}
Roots == [ident : Nat, bind : Nat]
Instances == {r \in Roots : r = Absent \/ (r.ident # 0 /\ r.bind # 0)}
Entries == [path : Paths, ident : Nat, alias : Aliases, bind : Nat]

Inspecting == {"inspect", "confirm", "reread", "reported"}
Applying == {"apply", "prompt", "create_op", "start", "run", "verify"}
Saving == {"pin", "lock", "save"}
Held == {"menu"} \cup Working
Ats == {"idle", "done", "open", "mkhome", "choose", "create"} \cup Saving \cup Held
         \cup Inspecting \cup Applying
Ops == {"none", "named", "add", "remove", "refresh", "new"}
Calls == [at : Ats, op : Ops, name : Aliases, path : Paths \cup {NoName}, snap : Roots,
          cat : SUBSET Entries, cur : BOOLEAN]

Reviews == [rev : Nat, inputs : Nat, product : Nat, hashed : Nat, seen : Nat]
Journals == [inputs : Nat, rev : Nat, review : Reviews]
Files == [product : Nat, native : Nat]
Sessions == [j : Journals, d : Nat, jcur : BOOLEAN, dcur : BOOLEAN, want : Nat, rev : Nat,
             obs : Nat, seen : Nat, yes : Reviews]
Operations == [src : Reviews, phase : {"none", "new", "planned", "unknown", "registered"}, root : Nat,
               approved : Reviews]

CatalogTypes ==
    /\ home \in {"absent", "partial", "whole"}
    /\ catalog \in SUBSET Entries
    /\ inst \in [Paths -> Instances]
    /\ fresh \in Nat
    /\ st \in [Procs -> Calls]

PreparationTypes ==
    /\ journal \in Journals /\ draft \in Nat /\ supply \in Nat
    /\ gen \in [1 .. MaxRev -> Files]
    /\ ses \in [Procs -> Sessions]
    /\ op \in Operations

Types == CatalogTypes /\ PreparationTypes

-----------------------------------------------------------------------------
(* The catalog's side.                                                     *)

\* Paths, roots and names are listed once, and a name is bound to a registration.
Distinct(cat) ==
    \A e, f \in cat : e.path = f.path \/ e.ident = f.ident \/ (e.alias = f.alias /\ e.alias # NoName)
                         => e = f
Bindings(cat) == \A e \in cat : e.alias # NoName => e.bind # 0

OneMaker == \A p, q \in Procs : At(p, "mkhome") /\ At(q, "mkhome") => p = q

\* A memory that counts as current is what is stored.
Current(p) == st[p].cur => home = "whole" /\ st[p].cat = catalog
\* The lock is held from the comparison to the save.
Locked(p) == At(p, "save") => homeLock = p /\ st[p].cur
Housed(p) ==
    /\ At(p, "mkhome") => home = "partial"
    /\ At(p, "apply") => home = "whole"
\* What the call is to connect: a path, and for a name a root that was there.
Aimed(p) ==
    /\ st[p].at \in {"open", "mkhome"} => st[p].op # "none"
    /\ st[p].at \in {"open", "mkhome"} /\ st[p].op \in {"named", "add"} =>
         st[p].path \in Paths /\ st[p].snap.ident # 0
    /\ At(p, "choose") => st[p].op \in {"remove", "refresh"}
    /\ st[p].at \in Saving =>
         st[p].path \in Paths /\ (st[p].op = "named" => st[p].snap.ident # 0)
    /\ st[p].at \in {"lock", "save"} /\ st[p].op = "named" => st[p].snap.bind # 0
\* A refresh keeps the root that is listed.
Refreshing(p) == st[p].at \in Saving /\ st[p].op = "refresh" =>
    (st[p].cur => \A e \in catalog : e.path = st[p].path => e.ident = st[p].snap.ident)

CallInv(p) == Current(p) /\ Locked(p) /\ Housed(p) /\ Aimed(p) /\ Refreshing(p)

-----------------------------------------------------------------------------
(* The preparation's side.                                                 *)

Preparing == {"reserve", "product", "native", "bind", "observe", "record"}
Generating == Preparing \ {"reserve"}

\* What a session shows of a recorded preparation fits the answers it has.
Fitting(s) == s.j.review # NoReview => s.d = s.j.review.product

\* A copy that counts as current is what is stored.
Stored(p) ==
    /\ ses[p].jcur => ses[p].j = journal
    /\ ses[p].dcur => ses[p].d = draft
\* Whoever edits has the workspace lock.
Writer(p) == st[p].at \in Held => prepLock = p
\* The review is withdrawn before the draft is saved.
Withdrawn(p) == st[p].at \in {"field"} \cup Generating => ses[p].j.review = NoReview
\* The draft stays what prepare has checked.
Prepared(p) == st[p].at \in Preparing => ses[p].dcur /\ CheckLayout(ses[p].d, ses[p].j.inputs)
\* The files of the reserved revision, in the order they are written.
Written(p) ==
    /\ st[p].at \in Generating => ses[p].rev = ses[p].j.rev /\ ses[p].rev \in 1 .. MaxRev
    /\ At(p, "native") => gen[ses[p].rev].product = ses[p].d
    /\ st[p].at \in {"bind", "observe", "record"} =>
         gen[ses[p].rev] = [product |-> ses[p].d, native |-> ses[p].d]
\* An inspection that found its journal unchanged has a draft that fits it.
Inspected(p) ==
    /\ At(p, "confirm") /\ ses[p].jcur => Fitting(ses[p])
    /\ st[p].at \in {"reread", "reported"} => Fitting(ses[p])

SesInv(p) ==
    Stored(p) /\ Writer(p) /\ Withdrawn(p) /\ Prepared(p) /\ Written(p) /\ Inspected(p)

-----------------------------------------------------------------------------
(* The operation of the name.                                              *)

Registered == op.phase \in {"unknown", "registered"} => op.root # 0
OpInv == Registered

CatalogInv == Distinct(catalog) /\ Bindings(catalog) /\ OneMaker /\ \A p \in Procs : CallInv(p)
PreparationInv == ReviewIsWhole /\ NextRevisionFree /\ \A p \in Procs : SesInv(p)

IInv == Types /\ CatalogInv /\ PreparationInv /\ OpInv

-----------------------------------------------------------------------------
(* Records and how a call moves on.                                        *)

LEMMA Constants ==
    /\ NoName \notin Names /\ Nobody \notin Procs
    /\ MaxRev \in Nat \ {0} /\ 0 \notin Answers /\ 0 \notin Inputs
    /\ Answers \subseteq Nat /\ Inputs \subseteq Nat /\ Mine \in Paths /\ Own \in Names
BY CatalogAssumption, PreparationAssumption, OperatorAssumption

LEMMA IdleIsCall ==
    ASSUME NEW a \in Ats
    PROVE  LET c == [Idle EXCEPT !.at = a] IN
           c \in Calls /\ c.at = a /\ c.op = "none" /\ c.cur = FALSE
<1>1. Absent \in Roots /\ NoName \in Aliases /\ "none" \in Ops /\ "idle" \in Ats
  BY DEF Absent, Roots, Aliases, Ops, Ats
<1> QED
  BY <1>1 DEF Idle, Calls

LEMMA RecordsAreTyped ==
    /\ NoReview \in Reviews /\ NoJournal \in Journals /\ NoFiles \in Files
    /\ NoSession \in Sessions /\ ~NoSession.jcur /\ ~NoSession.dcur /\ Idle \in Calls /\ NoOp \in Operations
<1>1. NoReview \in Reviews /\ NoJournal \in Journals /\ NoFiles \in Files
  BY DEF NoReview, NoJournal, NoFiles, Reviews, Journals, Files
<1>2. NoSession \in Sessions /\ ~NoSession.jcur /\ ~NoSession.dcur
  BY <1>1 DEF NoSession, Sessions
<1>3. Idle \in Calls
  <2>1. Absent \in Roots /\ NoName \in Aliases /\ "none" \in Ops /\ "idle" \in Ats
    BY DEF Absent, Roots, Aliases, Ops, Ats
  <2> QED
    BY <2>1 DEF Idle, Calls
<1>4. NoOp \in Operations
  BY <1>1 DEF NoOp, Operations
<1> QED
  BY <1>1, <1>2, <1>3, <1>4

LEMMA Going ==
    ASSUME CatalogTypes, NEW p \in Procs, NEW c \in Calls, Go(p, c)
    PROVE  /\ st' \in [Procs -> Calls] /\ st'[p] = c
           /\ \A q \in Procs \ {p} : st'[q] = st[q]
BY DEF Go, CatalogTypes

\* A call that ended or fell back to the menu.
LEMMA Leaving ==
    ASSUME CatalogTypes, NEW p \in Procs, NEW a \in Ats, Go(p, [Idle EXCEPT !.at = a])
    PROVE  /\ st' \in [Procs -> Calls] /\ st'[p].at = a /\ st'[p].op = "none" /\ ~st'[p].cur
           /\ \A q \in Procs \ {p} : st'[q] = st[q]
<1> DEFINE c == [Idle EXCEPT !.at = a]
<1>1. c \in Calls /\ c.at = a /\ c.op = "none" /\ c.cur = FALSE
  BY IdleIsCall
<1> HIDE DEF c
<1>2. Go(p, c)
  BY DEF c
<1> QED
  BY <1>1, <1>2, Going

\* A call that takes its next step and remembers what it did.
LEMMA Stepping ==
    ASSUME CatalogTypes, NEW p \in Procs, NEW a \in Ats, Step(p, a)
    PROVE  /\ st' \in [Procs -> Calls] /\ st'[p] = [st[p] EXCEPT !.at = a]
           /\ st'[p].at = a /\ st'[p].op = st[p].op /\ st'[p].cur = st[p].cur
           /\ st'[p].cat = st[p].cat
           /\ \A q \in Procs \ {p} : st'[q] = st[q]
<1>1. [st[p] EXCEPT !.at = a] \in Calls
  BY DEF CatalogTypes, Calls
<1>2. Go(p, [st[p] EXCEPT !.at = a])
  BY DEF Step
<1>3. st'[p] = [st[p] EXCEPT !.at = a] /\ st' \in [Procs -> Calls] /\ \A q \in Procs \ {p} : st'[q] = st[q]
  BY <1>1, <1>2, Going
<1> QED
  BY <1>3 DEF CatalogTypes, Calls

-----------------------------------------------------------------------------
(* The catalog's side, for those who are not at work on it.                *)

\* Places that ask nothing of the catalog.
Apart == Ats \ ({"open", "mkhome", "choose", "apply"} \cup Saving)

LEMMA PlacesApart ==
    /\ {"idle", "done", "create", "prompt", "create_op", "start", "run", "verify"} \subseteq Apart
    /\ Held \subseteq Apart /\ Inspecting \subseteq Apart /\ Apart \subseteq Ats
BY DEF Apart, Ats, Held, Inspecting, Working, Applying, Saving

\* A call at such a place needs only that its memory is what it says.
LEMMA ApartIsFine ==
    ASSUME NEW p \in Procs, st'[p].at \in Apart,
           st'[p].cur => home' = "whole" /\ st'[p].cat = catalog'
    PROVE  CallInv(p)'
BY DEF CallInv, Current, Locked, Housed, Aimed, Refreshing, At, Apart, Saving

\* A call is not disturbed by what others do before there is a home, nor by
\* anything that leaves the home and the catalog alone.
LEMMA BystanderCall ==
    ASSUME NEW q \in Procs, CallInv(q), st'[q] = st[q],
           home # "whole" \/ (home' = home /\ catalog' = catalog),
           At(q, "mkhome") => home' = home,
           At(q, "save") => homeLock' = homeLock
    PROVE  CallInv(q)'
BY DEF CallInv, Current, Locked, Housed, Aimed, Refreshing, At, Saving

\* A step of one process that leaves the home, the catalog and its lock alone.
LEMMA CatalogApart ==
    ASSUME IInv, NEW p \in Procs, UNCHANGED <<home, catalog, homeLock>>,
           st' \in [Procs -> Calls], \A q \in Procs \ {p} : st'[q] = st[q],
           st'[p].at \in Apart,
           st'[p].cur => home = "whole" /\ st'[p].cat = catalog
    PROVE  CatalogInv'
<1>1. CallInv(p)'
  BY ApartIsFine
<1>2. ASSUME NEW q \in Procs \ {p} PROVE CallInv(q)'
  BY BystanderCall DEF IInv, CatalogInv
<1>3. OneMaker'
  BY DEF IInv, CatalogInv, OneMaker, At, Apart
<1>4. (Distinct(catalog) /\ Bindings(catalog))'
  BY DEF IInv, CatalogInv, Distinct, Bindings
<1> QED
  BY <1>1, <1>2, <1>3, <1>4 DEF CatalogInv

-----------------------------------------------------------------------------
(* The preparation's side, for those who are not at work on it.            *)

\* Nobody edits beside the holder of the workspace lock.
LEMMA OneWriter ==
    ASSUME IInv, NEW p \in Procs, st[p].at \in Held \/ prepLock = Nobody
    PROVE  \A q \in Procs \ {p} : st[q].at \notin Held
BY Constants DEF IInv, PreparationInv, SesInv, Writer

LEMMA PlacesHeld ==
    /\ Preparing \subseteq Held /\ Generating \subseteq Preparing /\ "field" \in Held /\ "menu" \in Held
    /\ Held \subseteq Ats /\ Held \cap Inspecting = {} /\ Working \subseteq Held
    /\ {"field", "bind", "observe", "record", "native", "product", "reserve"} \subseteq Held
BY DEF Preparing, Generating, Held, Working, Ats, Inspecting

\* Nothing of the preparation changes.
LEMMA IdleSession ==
    ASSUME NEW q \in Procs, SesInv(q), st'[q].at = st[q].at, ses'[q] = ses[q],
           UNCHANGED <<journal, draft, gen>>,
           st[q].at \in Held => prepLock' = prepLock
    PROVE  SesInv(q)'
BY DEF SesInv, Stored, Writer, Withdrawn, Prepared, Written, Inspected, Fitting, At, CheckLayout, CheckDraft

\* A session outside the lock: somebody else's save makes its copy old.
LEMMA ReadingSession ==
    ASSUME NEW q \in Procs, SesInv(q), st'[q].at = st[q].at, st[q].at \notin Held,
           ses'[q].j = ses[q].j, ses'[q].d = ses[q].d,
           ses'[q].jcur => ses[q].jcur /\ journal' = journal,
           ses'[q].dcur => ses[q].dcur /\ draft' = draft
    PROVE  SesInv(q)'
<1>1. st'[q].at \notin Generating /\ st'[q].at \notin Preparing /\ st'[q].at \notin {"field"}
  BY PlacesHeld
<1>2. st'[q].at \notin {"bind", "observe", "record"} /\ st'[q].at # "native"
  BY PlacesHeld
<1> QED
  BY <1>1, <1>2 DEF SesInv, Stored, Writer, Withdrawn, Prepared, Written, Inspected, Fitting, At

\* A process that is neither editing nor inspecting.
LEMMA SessionApart ==
    ASSUME NEW p \in Procs, st'[p].at \notin Held, st'[p].at \notin Inspecting, Stored(p)'
    PROVE  SesInv(p)'
<1>1. st'[p].at \notin Generating /\ st'[p].at \notin Preparing /\ st'[p].at \notin {"field"}
  BY PlacesHeld
<1>2. st'[p].at \notin {"bind", "observe", "record"} /\ st'[p].at # "native"
  BY PlacesHeld
<1> QED
  BY <1>1, <1>2 DEF SesInv, Writer, Withdrawn, Prepared, Written, Inspected, At, Inspecting

\* Both stores and the files stay.
LEMMA StoresStay ==
    ASSUME IInv, NEW p \in Procs, UNCHANGED <<journal, draft, gen>>,
           \A q \in Procs \ {p} : /\ st'[q].at = st[q].at /\ ses'[q] = ses[q]
                                  /\ st[q].at \in Held => prepLock' = prepLock,
           SesInv(p)'
    PROVE  PreparationInv'
<1>1. ReviewIsWhole'
  BY DEF IInv, PreparationInv, ReviewIsWhole, Bound, CheckLayout, CheckDraft
<1>2. NextRevisionFree'
  BY DEF IInv, PreparationInv, NextRevisionFree
<1>3. \A q \in Procs \ {p} : SesInv(q)'
  BY IdleSession DEF IInv, PreparationInv
<1> QED
  BY <1>1, <1>2, <1>3 DEF PreparationInv

\* A step on the catalog or of `apply`.
LEMMA PreparationApart ==
    ASSUME IInv, NEW p \in Procs, UNCHANGED <<journal, draft, gen, prepLock, ses>>,
           \A q \in Procs \ {p} : st'[q].at = st[q].at,
           st'[p].at \notin Held, st'[p].at \notin Inspecting
    PROVE  PreparationInv'
<1>1. Stored(p)'
  BY DEF IInv, PreparationInv, SesInv, Stored
<1> QED
  BY <1>1, SessionApart, StoresStay

\* A step of the preparation leaves the catalog and the operation alone.
LEMMA RestStays ==
    ASSUME IInv, NEW p \in Procs, UNCHANGED <<home, catalog, inst, fresh, homeLock, op>>,
           st' \in [Procs -> Calls], \A q \in Procs \ {p} : st'[q] = st[q],
           st'[p].at \in Apart,
           st'[p].cur => st[p].cur /\ st'[p].cat = st[p].cat
    PROVE  CatalogTypes' /\ CatalogInv' /\ OpInv'
<1>1. st'[p].cur => home = "whole" /\ st'[p].cat = catalog
  BY DEF IInv, CatalogInv, CallInv, Current
<1>2. CatalogInv'
  BY <1>1, CatalogApart
<1>3. CatalogTypes'
  BY DEF IInv, Types, CatalogTypes
<1>4. OpInv'
  BY DEF IInv, OpInv, Registered
<1> QED
  BY <1>2, <1>3, <1>4

\* The session of one process changes.
LEMMA Keeping ==
    ASSUME PreparationTypes, NEW p \in Procs, NEW s \in Sessions, Keep(p, s)
    PROVE  /\ ses' \in [Procs -> Sessions] /\ ses'[p] = s
           /\ \A q \in Procs \ {p} : ses'[q] = ses[q]
BY DEF PreparationTypes, Keep

LEMMA SettledIsSession ==
    ASSUME NEW s \in Sessions
    PROVE  /\ Settled(s) \in Sessions /\ Settled(s).j = s.j /\ Settled(s).d = s.d
           /\ Settled(s).jcur = s.jcur /\ Settled(s).dcur = s.dcur
BY DEF Settled, Sessions

\* A session that is back at the menu keeps only what it has loaded.
LEMMA AtMenu ==
    ASSUME NEW p \in Procs, st'[p].at = "menu", Stored(p)', prepLock' = p
    PROVE  SesInv(p)'
<1>1. /\ "menu" \notin Generating /\ "menu" \notin Preparing /\ "menu" \notin {"field"}
      /\ "menu" \notin {"bind", "observe", "record"} /\ "menu" \notin {"reread", "reported"}
  BY DEF Generating, Preparing
<1> QED
  BY <1>1 DEF SesInv, Writer, Withdrawn, Prepared, Written, Inspected, At

-----------------------------------------------------------------------------
(* Saving the journal.                                                     *)

\* What save needs: a next journal whose review, if it has one, is whole, and
\* a session that may be at its next place once the journal is stored.
Storable(p, next) ==
    /\ next \in Journals /\ next.rev >= ses[p].j.rev
    /\ JournalCurrent(p) /\ next.review # NoReview =>
         Bound([j |-> next, d |-> draft]) /\ CheckLayout(draft, next.inputs)
SameCopies(p, s) ==
    s \in Sessions /\ s.jcur = ses[p].jcur /\ s.dcur = ses[p].dcur /\ s.d = ses[p].d
Continues(p, next, s, at) ==
    (/\ st'[p].at = at /\ ses'[p] = [s EXCEPT !.j = next] /\ UNCHANGED gen
     /\ prepLock' = p /\ Stored(p)' /\ JournalCurrent(p))
      => SesInv(p)'

LEMMA Saved ==
    ASSUME IInv, UNCHANGED op, NEW p \in Procs, NEW at \in Held, NEW next, NEW s,
           st[p].at \in Held, Storable(p, next), SameCopies(p, s),
           Save(p, next, s, at), Continues(p, next, s, at)
    PROVE  IInv'
<1> USE DEF Storable, SameCopies
<1>1. /\ ses[p].jcur /\ ses[p].j = journal /\ journal' = next /\ prepLock = p
      /\ UNCHANGED <<draft, gen, supply, prepLock, home, catalog, inst, fresh, homeLock>>
  BY DEF Save, JournalCurrent, catalogVars, IInv, PreparationInv, SesInv, Stored, Writer
<1>2. PICK t \in Sessions : /\ PublishJournal(p, t)
                            /\ \/ t = [s EXCEPT !.j = next] /\ Step(p, at)
                               \/ t = [Settled(ses[p]) EXCEPT !.jcur = FALSE] /\ Menu(p)
  <2>1. [s EXCEPT !.j = next] \in Sessions
    BY DEF Sessions
  <2>2. Settled(ses[p]) \in Sessions
    BY SettledIsSession DEF IInv, Types, PreparationTypes
  <2>3. [Settled(ses[p]) EXCEPT !.jcur = FALSE] \in Sessions
    BY <2>2 DEF Sessions
  <2> QED
    BY <2>1, <2>3 DEF Save
<1>3. /\ ses' \in [Procs -> Sessions] /\ ses'[p] = t
      /\ \A q \in Procs \ {p} : /\ ses'[q].j = ses[q].j /\ ses'[q].d = ses[q].d
                                /\ ~ses'[q].jcur /\ ses'[q].dcur = ses[q].dcur
  <2>1. \A q \in Procs : ses[q] \in Sessions
    BY DEF IInv, Types, PreparationTypes
  <2>2. \A q \in Procs : LET u == [ses[q] EXCEPT !.jcur = FALSE] IN
            u \in Sessions /\ u.j = ses[q].j /\ u.d = ses[q].d /\ u.jcur = FALSE /\ u.dcur = ses[q].dcur
    BY <2>1 DEF Sessions
  <2> QED
    BY <1>2, <2>2 DEF PublishJournal
<1>4. /\ st' \in [Procs -> Calls] /\ \A q \in Procs \ {p} : st'[q] = st[q]
      /\ st'[p].cur => st[p].cur /\ st'[p].cat = st[p].cat
      /\ st'[p].at = IF t = [s EXCEPT !.j = next] /\ Step(p, at) THEN at ELSE "menu"
  <2>1. CASE Step(p, at) /\ t = [s EXCEPT !.j = next]
    BY <2>1, Stepping, PlacesHeld DEF IInv, Types
  <2>2. CASE Menu(p) /\ ~(t = [s EXCEPT !.j = next] /\ Step(p, at))
    <3>1. "menu" \in Ats
      BY DEF Ats, Held
    <3> QED
      BY <2>2, <3>1, Leaving DEF IInv, Types, Menu
  <2> QED
    BY <1>2, <2>1, <2>2
<1>5. CatalogTypes' /\ CatalogInv' /\ OpInv'
  <2>1. st'[p].at \in Apart
    BY <1>4, PlacesApart, PlacesHeld
  <2> QED
    BY <1>1, <1>4, <2>1, RestStays
<1>6. \A q \in Procs \ {p} : SesInv(q)'
  BY <1>1, <1>3, <1>4, OneWriter, ReadingSession DEF IInv, PreparationInv
<1>7. SesInv(p)'
  <2>1. CASE t = [s EXCEPT !.j = next] /\ Step(p, at)
    <3>1. t.j = next /\ t.d = ses[p].d /\ t.dcur = ses[p].dcur
      BY <2>1 DEF Sessions
    <3>2. Stored(p)'
      BY <1>1, <1>3, <3>1 DEF Stored, IInv, PreparationInv, SesInv
    <3> QED
      BY <1>1, <1>3, <1>4, <2>1, <3>2 DEF JournalCurrent, Continues
  <2>2. CASE ~(t = [s EXCEPT !.j = next] /\ Step(p, at))
    <3>1. t = [Settled(ses[p]) EXCEPT !.jcur = FALSE]
      BY <1>2, <2>2
    <3>2. /\ Settled(ses[p]) \in Sessions /\ Settled(ses[p]).d = ses[p].d
          /\ Settled(ses[p]).dcur = ses[p].dcur
      BY SettledIsSession DEF IInv, Types, PreparationTypes
    <3>3. t.jcur = FALSE /\ t.d = ses[p].d /\ t.dcur = ses[p].dcur
      BY <3>1, <3>2 DEF Sessions
    <3>4. Stored(p)'
      BY <1>1, <1>3, <3>3 DEF Stored, IInv, PreparationInv, SesInv
    <3> QED
      BY <1>1, <1>4, <2>2, <3>4, AtMenu
  <2> QED
    BY <2>1, <2>2
<1>8. ReviewIsWhole'
  BY <1>1 DEF ReviewIsWhole, Bound, CheckLayout, CheckDraft, JournalCurrent
<1>9. NextRevisionFree'
  <2>1. next.rev \in Nat /\ journal.rev \in Nat /\ next.rev >= journal.rev
    BY <1>1 DEF Journals, IInv, Types, PreparationTypes
  <2>2. NextRevisionFree
    BY DEF IInv, PreparationInv
  <2> QED
    BY <1>1, <2>1, <2>2, Constants DEF NextRevisionFree
<1>10. PreparationTypes'
  BY <1>1, <1>3 DEF IInv, Types, PreparationTypes
<1> QED
  BY <1>5, <1>6, <1>7, <1>8, <1>9, <1>10 DEF IInv, Types, PreparationInv

-----------------------------------------------------------------------------
(* Editing and preparing.                                                  *)

\* A step of the preparation that stores nothing.
LEMMA Moving ==
    ASSUME IInv, NEW p \in Procs,
           UNCHANGED <<journal, draft, gen, supply, home, catalog, inst, fresh, homeLock, op>>,
           st' \in [Procs -> Calls], ses' \in [Procs -> Sessions], st'[p].at \in Apart,
           st'[p].cur => st[p].cur /\ st'[p].cat = st[p].cat,
           \A q \in Procs \ {p} : /\ st'[q] = st[q] /\ ses'[q] = ses[q]
                                  /\ st[q].at \in Held => prepLock' = prepLock,
           SesInv(p)'
    PROVE  IInv'
<1>1. CatalogTypes' /\ CatalogInv' /\ OpInv'
  BY RestStays
<1>2. PreparationInv'
  BY StoresStay
<1>3. PreparationTypes'
  BY DEF IInv, Types, PreparationTypes
<1> QED
  BY <1>1, <1>2, <1>3 DEF IInv, Types

\* Its session stays too.
LEMMA MovingOn ==
    ASSUME IInv, NEW p \in Procs, NEW a \in Ats, a \in Apart,
           UNCHANGED <<prepVars, catalogVars, op, ses>>, Step(p, a),
           SesInv(p)'
    PROVE  IInv'
<1>1. UNCHANGED <<journal, draft, gen, supply, prepLock, home, catalog, inst, fresh, homeLock>>
  BY DEF prepVars, catalogVars
<1>2. /\ st' \in [Procs -> Calls] /\ st'[p].at = a /\ st'[p].cur = st[p].cur /\ st'[p].cat = st[p].cat
      /\ \A q \in Procs \ {p} : st'[q] = st[q]
  BY Stepping DEF IInv, Types
<1>3. ses' \in [Procs -> Sessions] /\ \A q \in Procs \ {p} : ses'[q] = ses[q]
  BY DEF IInv, Types, PreparationTypes
<1> QED
  BY <1>1, <1>2, <1>3, Moving

LEMMA SetInputsStep ==
    ASSUME IInv, UNCHANGED op, NEW p \in Procs, NEW v \in Inputs, SetInputs(p, v)
    PROVE  IInv'
<1>1. ses[p] \in Sessions /\ v \in Nat /\ st[p].at = "menu"
  BY Constants DEF IInv, Types, PreparationTypes, SetInputs, At
<1> DEFINE next == [ses[p].j EXCEPT !.inputs = v, !.review = NoReview]
<1>2. next \in Journals /\ next.review = NoReview /\ next.rev = ses[p].j.rev /\ next.rev >= ses[p].j.rev
  <2>1. ses[p].j \in Journals /\ ses[p].j.rev \in Nat
    BY <1>1 DEF Sessions, Journals
  <2>2. NoReview \in Reviews
    BY RecordsAreTyped
  <2>3. next \in Journals
    BY <1>1, <2>1, <2>2 DEF Journals
  <2>4. next.review = NoReview /\ next.rev = ses[p].j.rev
    BY <2>1 DEF Journals
  <2> QED
    BY <2>1, <2>3, <2>4
<1>3. Save(p, next, ses[p], "menu")
  BY DEF SetInputs
<1> HIDE DEF next
<1>4. ASSUME st'[p].at = "menu", prepLock' = p, Stored(p)' PROVE SesInv(p)'
  BY <1>4, AtMenu
<1>5. "menu" \in Held
  BY PlacesHeld
<1>6. Storable(p, next) /\ SameCopies(p, ses[p]) /\ Continues(p, next, ses[p], "menu")
  BY <1>1, <1>2, <1>4 DEF Storable, SameCopies, Continues
<1> QED
  BY <1>1, <1>3, <1>5, <1>6, Saved

LEMMA SetFieldStep ==
    ASSUME IInv, UNCHANGED op, NEW p \in Procs, NEW v \in Answers, SetField(p, v)
    PROVE  IInv'
<1> DEFINE s == [ses[p] EXCEPT !.want = v]
<1>1. ses[p] \in Sessions /\ v \in Nat /\ st[p].at = "menu" /\ prepLock = p
  BY Constants, PlacesHeld DEF IInv, Types, PreparationTypes, PreparationInv, SesInv, Writer, SetField, At
<1>2. /\ s \in Sessions /\ s.j = ses[p].j /\ s.d = ses[p].d /\ s.jcur = ses[p].jcur /\ s.dcur = ses[p].dcur
  BY <1>1 DEF Sessions
<1>3. ASSUME st'[p].at = "field", Stored(p)', prepLock' = p, ses'[p].j.review = NoReview
      PROVE  SesInv(p)'
  <2>1. /\ "field" \notin Preparing /\ "field" \notin Generating /\ "field" \notin {"bind", "observe", "record"}
        /\ "field" \notin {"reread", "reported"}
    BY DEF Preparing, Generating
  <2> QED
    BY <1>3, <2>1 DEF SesInv, Writer, Withdrawn, Prepared, Written, Inspected, At
<1>4. CASE s.j.review # NoReview
  <2> DEFINE next == [s.j EXCEPT !.review = NoReview]
  <2>1. next \in Journals /\ next.review = NoReview /\ next.rev >= ses[p].j.rev
    BY <1>1, <1>2, RecordsAreTyped DEF Sessions, Journals
  <2>2. Save(p, next, s, "field")
    BY <1>4 DEF SetField
  <2>3. [s EXCEPT !.j = next].j = next
    BY <1>2 DEF Sessions
  <2> HIDE DEF next, s
  <2>4. Storable(p, next) /\ SameCopies(p, s) /\ Continues(p, next, s, "field")
    BY <1>2, <1>3, <2>1, <2>3 DEF Storable, SameCopies, Continues
  <2>5. "field" \in Held /\ st[p].at \in Held
    BY <1>1, PlacesHeld
  <2> QED
    BY <2>2, <2>4, <2>5, Saved
<1>5. CASE s.j.review = NoReview
  <2>1. Keep(p, s) /\ Step(p, "field") /\ UNCHANGED <<prepVars, catalogVars, faults, calls>>
    BY <1>5 DEF SetField
  <2>2. UNCHANGED <<journal, draft, gen, supply, prepLock, home, catalog, inst, fresh, homeLock>>
    BY <2>1 DEF prepVars, catalogVars
  <2> HIDE DEF s
  <2>3. ses' \in [Procs -> Sessions] /\ ses'[p] = s /\ \A q \in Procs \ {p} : ses'[q] = ses[q]
    BY <1>2, <2>1, Keeping DEF IInv, Types
  <2>4. /\ st' \in [Procs -> Calls] /\ st'[p].at = "field" /\ st'[p].cur = st[p].cur
        /\ st'[p].cat = st[p].cat /\ \A q \in Procs \ {p} : st'[q] = st[q]
    BY <2>1, Stepping, PlacesHeld DEF IInv, Types
  <2>5. Stored(p)'
    BY <1>2, <2>2, <2>3 DEF Stored, IInv, PreparationInv, SesInv
  <2>6. SesInv(p)'
    BY <1>1, <1>2, <1>3, <1>5, <2>2, <2>3, <2>4, <2>5
  <2>7. "field" \in Apart
    BY PlacesApart, PlacesHeld
  <2> QED
    BY <2>2, <2>3, <2>4, <2>6, <2>7, Moving
<1> QED
  BY <1>4, <1>5

LEMMA SaveDraftStep ==
    ASSUME IInv, UNCHANGED op, NEW p \in Procs, SaveDraft(p)
    PROVE  IInv'
<1>1. /\ ses[p] \in Sessions /\ st[p].at = "field" /\ prepLock = p /\ ses[p].jcur
      /\ journal.review = NoReview /\ draft' = ses[p].want
      /\ UNCHANGED <<journal, gen, supply, prepLock, home, catalog, inst, fresh, homeLock>>
  BY PlacesHeld DEF IInv, Types, PreparationTypes, PreparationInv, SesInv, Writer, Withdrawn, Stored,
     SaveDraft, At, JournalCurrent, DraftCurrent, catalogVars
<1>2. PICK t \in Sessions : /\ PublishDraft(p, t) /\ t.j = ses[p].j /\ t.jcur = ses[p].jcur
                            /\ t.dcur => t.d = draft'
  <2> DEFINE u == Settled(ses[p])
  <2>1. u \in Sessions /\ u.j = ses[p].j /\ u.jcur = ses[p].jcur
    BY <1>1, SettledIsSession
  <2>2. ses[p].want \in Nat
    BY <1>1 DEF Sessions
  <2> HIDE DEF u
  <2>3. PublishDraft(p, [u EXCEPT !.d = draft']) \/ PublishDraft(p, [u EXCEPT !.dcur = FALSE])
    BY DEF SaveDraft, u
  <2>4. LET a == [u EXCEPT !.d = draft'] b == [u EXCEPT !.dcur = FALSE] IN
        /\ a \in Sessions /\ a.j = u.j /\ a.jcur = u.jcur /\ a.d = draft'
        /\ b \in Sessions /\ b.j = u.j /\ b.jcur = u.jcur /\ b.dcur = FALSE
    BY <1>1, <2>1, <2>2 DEF Sessions
  <2> QED
    BY <2>1, <2>3, <2>4
<1>3. /\ ses' \in [Procs -> Sessions] /\ ses'[p] = t
      /\ \A q \in Procs \ {p} : /\ ses'[q].j = ses[q].j /\ ses'[q].d = ses[q].d
                                /\ ses'[q].jcur = ses[q].jcur /\ ~ses'[q].dcur
  <2>1. \A q \in Procs : ses[q] \in Sessions
    BY DEF IInv, Types, PreparationTypes
  <2>2. \A q \in Procs : LET u == [ses[q] EXCEPT !.dcur = FALSE] IN
            u \in Sessions /\ u.j = ses[q].j /\ u.d = ses[q].d /\ u.jcur = ses[q].jcur /\ u.dcur = FALSE
    BY <2>1 DEF Sessions
  <2> QED
    BY <1>2, <2>2 DEF PublishDraft
<1>4. /\ st' \in [Procs -> Calls] /\ st'[p].at = "menu" /\ ~st'[p].cur
      /\ \A q \in Procs \ {p} : st'[q] = st[q]
  BY Leaving, PlacesHeld DEF SaveDraft, Menu, IInv, Types
<1>5. CatalogTypes' /\ CatalogInv' /\ OpInv'
  BY <1>1, <1>4, PlacesApart, PlacesHeld, RestStays
<1>6. SesInv(p)'
  <2>1. Stored(p)'
    BY <1>1, <1>2, <1>3 DEF Stored, IInv, PreparationInv, SesInv
  <2> QED
    BY <1>1, <1>4, <2>1, AtMenu
<1>7. \A q \in Procs \ {p} : SesInv(q)'
  BY <1>1, <1>3, <1>4, OneWriter, PlacesHeld, ReadingSession DEF IInv, PreparationInv
<1>8. ReviewIsWhole' /\ NextRevisionFree'
  BY <1>1 DEF IInv, PreparationInv, ReviewIsWhole, NextRevisionFree
<1>9. PreparationTypes'
  BY <1>1, <1>3 DEF IInv, Types, PreparationTypes, Sessions
<1> QED
  BY <1>5, <1>6, <1>7, <1>8, <1>9 DEF IInv, Types, PreparationInv

LEMMA PrepareBeginStep ==
    ASSUME IInv, UNCHANGED op, NEW p \in Procs, PrepareBegin(p)
    PROVE  IInv'
<1> DEFINE s == [ses[p] EXCEPT !.obs = supply]
<1>1. /\ ses[p] \in Sessions /\ supply \in Nat /\ prepLock = p /\ ses[p].dcur
      /\ CheckLayout(ses[p].d, ses[p].j.inputs)
      /\ Keep(p, s) /\ Step(p, "reserve") /\ UNCHANGED <<prepVars, catalogVars>>
  BY PlacesHeld DEF IInv, Types, PreparationTypes, PreparationInv, SesInv, Writer, PrepareBegin, At, DraftCurrent
<1>2. /\ s \in Sessions /\ s.j = ses[p].j /\ s.d = ses[p].d /\ s.jcur = ses[p].jcur /\ s.dcur = ses[p].dcur
  BY <1>1 DEF Sessions
<1> HIDE DEF s
<1>3. UNCHANGED <<journal, draft, gen, supply, prepLock, home, catalog, inst, fresh, homeLock>>
  BY <1>1 DEF prepVars, catalogVars
<1>4. ses' \in [Procs -> Sessions] /\ ses'[p] = s /\ \A q \in Procs \ {p} : ses'[q] = ses[q]
  BY <1>1, <1>2, Keeping DEF IInv, Types
<1>5. /\ st' \in [Procs -> Calls] /\ st'[p].at = "reserve" /\ st'[p].cur = st[p].cur
      /\ st'[p].cat = st[p].cat /\ \A q \in Procs \ {p} : st'[q] = st[q]
  BY <1>1, Stepping, PlacesHeld DEF IInv, Types
<1>6. SesInv(p)'
  <2>1. Stored(p)'
    BY <1>2, <1>3, <1>4 DEF Stored, IInv, PreparationInv, SesInv
  <2>2. /\ "reserve" \notin {"field"} \cup Generating /\ "reserve" # "native"
        /\ "reserve" \notin {"bind", "observe", "record"} /\ "reserve" \notin {"reread", "reported"}
    BY DEF Generating
  <2>3. Prepared(p)'
    BY <1>1, <1>2, <1>4 DEF Prepared, CheckLayout, CheckDraft
  <2> QED
    BY <1>1, <1>3, <1>5, <2>1, <2>2, <2>3 DEF SesInv, Writer, Withdrawn, Written, Inspected, At
<1>7. "reserve" \in Apart
  BY PlacesApart, PlacesHeld
<1> QED
  BY <1>3, <1>4, <1>5, <1>6, <1>7, Moving

LEMMA ReserveStep ==
    ASSUME IInv, UNCHANGED op, NEW p \in Procs, Reserve(p)
    PROVE  IInv'
<1> DEFINE r == ses[p].j.rev + 1
           next == [ses[p].j EXCEPT !.rev = r, !.review = NoReview]
           s == [ses[p] EXCEPT !.rev = r]
<1>1. /\ ses[p] \in Sessions /\ st[p].at = "reserve" /\ ses[p].j \in Journals
      /\ ses[p].j.rev \in Nat /\ ses[p].j.rev < MaxRev /\ MaxRev \in Nat
      /\ Save(p, next, s, "product")
  BY Constants DEF IInv, Types, PreparationTypes, Reserve, At, Sessions, Journals
<1>2. r \in 1 .. MaxRev /\ r \in Nat /\ r >= ses[p].j.rev
  BY <1>1
<1>3. next \in Journals /\ next.review = NoReview /\ next.rev = r /\ next.inputs = ses[p].j.inputs
  <2>1. NoReview \in Reviews
    BY RecordsAreTyped
  <2>2. next \in Journals
    BY <1>1, <1>2, <2>1 DEF Journals
  <2> QED
    BY <1>1, <2>2 DEF Journals
<1>4. SameCopies(p, s) /\ s.rev = r
  BY <1>1, <1>2 DEF SameCopies, Sessions
<1>5. LET t == [s EXCEPT !.j = next] IN
      t.j = next /\ t.rev = r /\ t.d = ses[p].d /\ t.dcur = ses[p].dcur
  BY <1>1, <1>3, <1>4 DEF SameCopies, Sessions
<1>6. ses[p].dcur /\ CheckLayout(ses[p].d, ses[p].j.inputs)
  BY <1>1 DEF IInv, PreparationInv, SesInv, Prepared, Preparing
<1> HIDE DEF r, s, next
<1>7. Storable(p, next)
  BY <1>2, <1>3 DEF Storable
<1>8. Continues(p, next, s, "product")
  <2> SUFFICES ASSUME st'[p].at = "product", ses'[p] = [s EXCEPT !.j = next], prepLock' = p, Stored(p)'
               PROVE  SesInv(p)'
    BY DEF Continues
  <2>1. ses'[p].j = next /\ ses'[p].rev = r /\ ses'[p].d = ses[p].d /\ ses'[p].dcur
    BY <1>5, <1>6
  <2>2. Prepared(p)'
    BY <1>3, <1>6, <2>1 DEF Prepared, CheckLayout, CheckDraft
  <2>3. Written(p)' /\ Inspected(p)'
    BY <1>2, <1>3, <2>1 DEF Written, Inspected, At
  <2> QED
    BY <1>3, <2>1, <2>2, <2>3 DEF SesInv, Writer, Withdrawn
<1>9. "product" \in Held /\ st[p].at \in Held
  BY <1>1, PlacesHeld
<1> QED
  BY <1>1, <1>4, <1>7, <1>8, <1>9, Saved

\* A file of the reserved revision is written, while there is no review.
LEMMA Writing ==
    ASSUME IInv, UNCHANGED op, NEW p \in Procs, NEW a \in Held, st[p].at \in Generating, JournalCurrent(p),
           Step(p, a), UNCHANGED <<journal, draft, supply, prepLock, ses, catalogVars>>,
           gen' \in [1 .. MaxRev -> Files], \A r \in 1 .. MaxRev : r # ses[p].rev => gen'[r] = gen[r],
           Written(p)', a \in Generating
    PROVE  IInv'
<1>1. UNCHANGED <<home, catalog, inst, fresh, homeLock>>
  BY DEF catalogVars
<1>2. /\ st' \in [Procs -> Calls] /\ st'[p].at = a /\ st'[p].cur = st[p].cur /\ st'[p].cat = st[p].cat
      /\ \A q \in Procs \ {p} : st'[q] = st[q]
  BY Stepping, PlacesHeld DEF IInv, Types
<1>3. CatalogTypes' /\ CatalogInv' /\ OpInv'
  BY <1>1, <1>2, RestStays, PlacesApart
<1>4. PreparationTypes'
  BY DEF IInv, Types, PreparationTypes
<1>5. journal.review = NoReview /\ journal.rev = ses[p].rev
  BY DEF IInv, PreparationInv, SesInv, Stored, Withdrawn, Written, JournalCurrent
<1>6. ReviewIsWhole' /\ NextRevisionFree'
  <2>1. journal.rev \in Nat
    BY DEF IInv, Types, PreparationTypes, Journals
  <2> QED
    BY <1>5, <2>1, Constants DEF IInv, PreparationInv, ReviewIsWhole, NextRevisionFree
<1>7. \A q \in Procs \ {p} : SesInv(q)'
  BY <1>2, OneWriter, PlacesHeld, ReadingSession DEF IInv, PreparationInv
<1>8. SesInv(p)'
  <2>1. st[p].at \in Preparing /\ a \in Preparing /\ st[p].at \in Held
    BY PlacesHeld
  <2>2. Stored(p)' /\ Writer(p)' /\ Withdrawn(p)' /\ Prepared(p)'
    BY <1>2, <2>1 DEF IInv, PreparationInv, SesInv, Stored, Writer, Withdrawn, Prepared, CheckLayout, CheckDraft
  <2>3. Inspected(p)'
    BY <1>2 DEF Inspected, At, Generating, Preparing
  <2> QED
    BY <2>2, <2>3 DEF SesInv
<1> QED
  BY <1>3, <1>4, <1>6, <1>7, <1>8 DEF IInv, Types, PreparationInv

LEMMA WriteStep ==
    ASSUME IInv, UNCHANGED op, NEW p \in Procs, WriteProduct(p) \/ WriteNative(p)
    PROVE  IInv'
<1> DEFINE r == ses[p].rev
<1>1. /\ st[p].at \in Generating /\ JournalCurrent(p) /\ r \in 1 .. MaxRev /\ r = ses[p].j.rev
      /\ ses[p].d \in Nat /\ gen \in [1 .. MaxRev -> Files]
      /\ UNCHANGED <<journal, draft, supply, prepLock, ses, catalogVars>>
  <2>1. st[p].at \in Generating /\ JournalCurrent(p) /\ UNCHANGED <<journal, draft, supply, prepLock, ses, catalogVars>>
    BY DEF WriteProduct, WriteNative, At, Generating, Preparing
  <2> QED
    BY <2>1 DEF IInv, Types, PreparationTypes, PreparationInv, SesInv, Written, Sessions
<1>2. "native" \in Generating /\ "bind" \in Generating /\ "native" \in Held /\ "bind" \in Held
  BY DEF Generating, Preparing, Held, Working
<1>3. CASE WriteProduct(p)
  <2>1. gen' = [gen EXCEPT ![r].product = ses[p].d] /\ Step(p, "native")
    BY <1>3 DEF WriteProduct
  <2>2. gen' \in [1 .. MaxRev -> Files] /\ gen'[r].product = ses[p].d
    BY <1>1, <2>1 DEF Files
  <2>3. \A n \in 1 .. MaxRev : n # r => gen'[n] = gen[n]
    BY <1>1, <2>1
  <2>4. st'[p].at = "native"
    BY <1>2, <2>1, Stepping, PlacesHeld DEF IInv, Types
  <2>5. Written(p)'
    BY <1>1, <2>2, <2>4 DEF Written, At
  <2> QED
    BY <1>1, <1>2, <2>1, <2>2, <2>3, <2>5, Writing
<1>4. CASE WriteNative(p)
  <2>1. gen' = [gen EXCEPT ![r].native = ses[p].d] /\ Step(p, "bind") /\ gen[r].product = ses[p].d
    BY <1>4 DEF WriteNative, At, IInv, PreparationInv, SesInv, Written
  <2>2. gen' \in [1 .. MaxRev -> Files] /\ gen'[r] = [product |-> ses[p].d, native |-> ses[p].d]
    BY <1>1, <2>1 DEF Files
  <2>3. \A n \in 1 .. MaxRev : n # r => gen'[n] = gen[n]
    BY <1>1, <2>1
  <2>4. st'[p].at = "bind"
    BY <1>2, <2>1, Stepping, PlacesHeld DEF IInv, Types
  <2>5. Written(p)'
    BY <1>1, <2>2, <2>4 DEF Written, At
  <2> QED
    BY <1>1, <1>2, <2>1, <2>2, <2>3, <2>5, Writing
<1> QED
  BY <1>3, <1>4

LEMMA BindPlanStep ==
    ASSUME IInv, UNCHANGED op, NEW p \in Procs, BindPlan(p)
    PROVE  IInv'
<1>1. /\ st[p].at = "bind" /\ Step(p, "observe") /\ UNCHANGED <<prepVars, ses, catalogVars>>
  BY DEF BindPlan, At
<1>2. "observe" \in Ats /\ "observe" \in Apart
  BY PlacesHeld, PlacesApart
<1>3. st'[p].at = "observe"
  BY <1>1, <1>2, Stepping DEF IInv, Types
<1>4. UNCHANGED <<journal, draft, gen, prepLock, ses>>
  BY <1>1 DEF prepVars
<1>5. SesInv(p)'
  BY <1>1, <1>3, <1>4 DEF IInv, PreparationInv, SesInv, Stored, Writer, Withdrawn, Prepared, Written, Inspected,
     At, CheckLayout, CheckDraft, Held, Working, Generating, Preparing
<1> QED
  BY <1>1, <1>2, <1>5, MovingOn

LEMMA ObserveStep ==
    ASSUME IInv, UNCHANGED op, NEW p \in Procs, Observe(p)
    PROVE  IInv'
<1> DEFINE s == [ses[p] EXCEPT !.seen = supply]
<1>1. /\ ses[p] \in Sessions /\ supply \in Nat /\ st[p].at = "observe"
      /\ Keep(p, s) /\ Step(p, "record") /\ UNCHANGED <<prepVars, catalogVars>>
  BY DEF IInv, Types, PreparationTypes, Observe, At
<1>2. /\ s \in Sessions /\ s.j = ses[p].j /\ s.d = ses[p].d /\ s.jcur = ses[p].jcur /\ s.dcur = ses[p].dcur
      /\ s.rev = ses[p].rev
  BY <1>1 DEF Sessions
<1> HIDE DEF s
<1>3. UNCHANGED <<journal, draft, gen, supply, prepLock, home, catalog, inst, fresh, homeLock>>
  BY <1>1 DEF prepVars, catalogVars
<1>4. ses' \in [Procs -> Sessions] /\ ses'[p] = s /\ \A q \in Procs \ {p} : ses'[q] = ses[q]
  BY <1>1, <1>2, Keeping DEF IInv, Types
<1>5. /\ st' \in [Procs -> Calls] /\ st'[p].at = "record" /\ st'[p].cur = st[p].cur
      /\ st'[p].cat = st[p].cat /\ \A q \in Procs \ {p} : st'[q] = st[q]
  BY <1>1, Stepping, PlacesHeld DEF IInv, Types
<1>6. SesInv(p)'
  BY <1>1, <1>2, <1>3, <1>4, <1>5 DEF IInv, PreparationInv, SesInv, Stored, Writer, Withdrawn, Prepared, Written,
     Inspected, At, CheckLayout, CheckDraft, Held, Working, Generating, Preparing
<1>7. "record" \in Apart
  BY PlacesApart, PlacesHeld
<1> QED
  BY <1>3, <1>4, <1>5, <1>6, <1>7, Moving

\* The review describes the reserved revision, whose files are both there, the
\* inputs of the journal and the draft as it is stored.
LEMMA RecordReviewStep ==
    ASSUME IInv, UNCHANGED op, NEW p \in Procs, RecordReview(p)
    PROVE  IInv'
<1> DEFINE review == [rev |-> ses[p].rev, inputs |-> ses[p].j.inputs, product |-> ses[p].d,
                      hashed |-> ses[p].obs, seen |-> ses[p].seen]
           next == [ses[p].j EXCEPT !.review = review]
<1>1. /\ ses[p] \in Sessions /\ st[p].at = "record" /\ ses[p].j \in Journals /\ ses[p].j.rev \in Nat
      /\ Save(p, next, Settled(ses[p]), "menu")
  BY DEF IInv, Types, PreparationTypes, RecordReview, At, Sessions, Journals
<1>2. /\ ses[p].rev = ses[p].j.rev /\ ses[p].d = draft
      /\ CheckLayout(draft, ses[p].j.inputs)
      /\ gen[ses[p].rev] = [product |-> draft, native |-> draft]
  BY <1>1 DEF IInv, PreparationInv, SesInv, Stored, Prepared, Written, Generating, Preparing
<1>3. review \in Reviews
  BY <1>1 DEF Sessions, Journals, Reviews
<1>4. /\ next \in Journals /\ next.review = review /\ next.rev = ses[p].j.rev /\ next.inputs = ses[p].j.inputs
  BY <1>1, <1>3 DEF Journals
<1>5. review.rev = ses[p].rev /\ review.inputs = ses[p].j.inputs /\ review.product = ses[p].d
  OBVIOUS
<1> HIDE DEF next, review
<1>6. LET t == [j |-> next, d |-> draft] IN t.j = next /\ t.d = draft
  OBVIOUS
<1>7. Bound([j |-> next, d |-> draft]) \/ next.review = NoReview
  BY <1>2, <1>4, <1>5, <1>6 DEF Bound
<1>8. Storable(p, next)
  BY <1>1, <1>2, <1>4, <1>7 DEF Storable
<1>9. SameCopies(p, Settled(ses[p]))
  BY <1>1, SettledIsSession DEF SameCopies
<1>10. Continues(p, next, Settled(ses[p]), "menu")
  BY AtMenu DEF Continues
<1>11. "menu" \in Held /\ st[p].at \in Held
  BY <1>1, PlacesHeld
<1> QED
  BY <1>1, <1>8, <1>9, <1>10, <1>11, Saved

LEMMA StepFailsStep ==
    ASSUME IInv, UNCHANGED op, NEW p \in Procs, StepFails(p)
    PROVE  IInv'
<1>1. /\ ses[p] \in Sessions /\ st[p].at \in Held /\ prepLock = p
      /\ Keep(p, Settled(ses[p])) /\ Menu(p) /\ UNCHANGED <<prepVars, catalogVars>>
  BY PlacesHeld DEF IInv, Types, PreparationTypes, PreparationInv, SesInv, Writer, StepFails, Back
<1>2. UNCHANGED <<journal, draft, gen, supply, prepLock, home, catalog, inst, fresh, homeLock>>
  BY <1>1 DEF prepVars, catalogVars
<1>3. ses' \in [Procs -> Sessions] /\ ses'[p] = Settled(ses[p]) /\ \A q \in Procs \ {p} : ses'[q] = ses[q]
  BY <1>1, SettledIsSession, Keeping DEF IInv, Types
<1>4. /\ st' \in [Procs -> Calls] /\ st'[p].at = "menu" /\ ~st'[p].cur
      /\ \A q \in Procs \ {p} : st'[q] = st[q]
  BY <1>1, Leaving, PlacesHeld DEF Menu, IInv, Types
<1>5. Stored(p)'
  BY <1>1, <1>2, <1>3, SettledIsSession DEF Stored, IInv, PreparationInv, SesInv
<1>6. SesInv(p)'
  BY <1>1, <1>2, <1>4, <1>5, AtMenu
<1>7. "menu" \in Apart
  BY PlacesApart, PlacesHeld
<1> QED
  BY <1>2, <1>3, <1>4, <1>6, <1>7, Moving

-----------------------------------------------------------------------------
(* Opening and inspecting.                                                 *)

LEMMA LoadedIsSession ==
    ASSUME PreparationTypes
    PROVE  /\ Loaded(journal, draft) \in Sessions
           /\ Loaded(journal, draft).j = journal /\ Loaded(journal, draft).d = draft
BY RecordsAreTyped DEF PreparationTypes, Loaded, Sessions

\* Both ways into a session take a lock that nobody has.
LEMMA OpenedSession ==
    ASSUME IInv, UNCHANGED op, NEW p \in Procs, NEW a \in {"menu", "apply"}, prepLock = Nobody,
           prepLock' = p, Keep(p, Loaded(journal, draft)), Go(p, [Idle EXCEPT !.at = a]),
           home = "whole" \/ a = "menu",
           UNCHANGED <<journal, draft, gen, supply, catalogVars>>
    PROVE  IInv'
<1>1. UNCHANGED <<home, catalog, inst, fresh, homeLock>> /\ a \in Ats
  BY DEF catalogVars, Ats, Held, Applying
<1>2. /\ ses' \in [Procs -> Sessions] /\ ses'[p] = Loaded(journal, draft)
      /\ \A q \in Procs \ {p} : ses'[q] = ses[q]
  BY LoadedIsSession, Keeping DEF IInv, Types
<1>3. /\ st' \in [Procs -> Calls] /\ st'[p].at = a /\ ~st'[p].cur /\ \A q \in Procs \ {p} : st'[q] = st[q]
  BY <1>1, Leaving DEF IInv, Types
<1>4. SesInv(p)'
  <2>1. Stored(p)'
    BY <1>2, LoadedIsSession DEF Stored, IInv, Types
  <2>2. CASE a = "menu"
    BY <1>3, <2>1, <2>2, AtMenu
  <2>3. CASE a = "apply"
    <3>1. a \notin Held /\ a \notin Inspecting
      BY <2>3 DEF Held, Working, Inspecting
    <3> QED
      BY <1>3, <2>1, <3>1, SessionApart
  <2> QED
    BY <2>2, <2>3
<1>5. \A q \in Procs \ {p} : st[q].at \notin Held
  BY OneWriter
<1>6. CASE a = "menu"
  BY <1>1, <1>2, <1>3, <1>4, <1>5, <1>6, Moving, PlacesApart, PlacesHeld
<1>7. CASE a = "apply"
  <2>1. CallInv(p)'
    BY <1>1, <1>3, <1>7 DEF CallInv, Current, Locked, Housed, Aimed, Refreshing, At, Saving
  <2>2. \A q \in Procs \ {p} : CallInv(q)'
    BY <1>1, <1>3, BystanderCall DEF IInv, CatalogInv
  <2>3. OneMaker' /\ (Distinct(catalog) /\ Bindings(catalog))'
    BY <1>1, <1>3, <1>7 DEF IInv, CatalogInv, OneMaker, At, Distinct, Bindings
  <2>4. CatalogInv'
    BY <2>1, <2>2, <2>3 DEF CatalogInv
  <2>5. CatalogTypes' /\ PreparationTypes' /\ OpInv'
    BY <1>1, <1>2, <1>3 DEF IInv, Types, CatalogTypes, PreparationTypes, OpInv, Registered
  <2>6. PreparationInv'
    BY <1>2, <1>3, <1>4, <1>5, StoresStay
  <2> QED
    BY <2>4, <2>5, <2>6 DEF IInv, Types
<1> QED
  BY <1>6, <1>7

\* A call that ends, for whatever reason, with everything as it is.
LEMMA Refused ==
    ASSUME IInv, NEW p \in Procs, Done(p), UNCHANGED <<journal, draft, gen, supply, prepLock, ses, catalogVars, op>>
    PROVE  IInv'
<1>1. UNCHANGED <<home, catalog, inst, fresh, homeLock>>
  BY DEF catalogVars
<1>2. "done" \in Ats /\ "done" \notin Held /\ "done" \notin Inspecting /\ "done" \in Apart
  BY PlacesApart DEF Ats, Held, Working, Inspecting
<1>3. /\ st' \in [Procs -> Calls] /\ st'[p].at = "done" /\ ~st'[p].cur
      /\ \A q \in Procs \ {p} : st'[q] = st[q]
  BY <1>2, Leaving DEF Done, IInv, Types
<1>4. CatalogTypes' /\ CatalogInv' /\ OpInv'
  BY <1>1, <1>2, <1>3, RestStays
<1>5. PreparationInv'
  BY <1>2, <1>3, PreparationApart
<1>6. PreparationTypes'
  BY DEF IInv, Types, PreparationTypes
<1> QED
  BY <1>4, <1>5, <1>6 DEF IInv, Types

LEMMA OpeningStep ==
    ASSUME IInv, UNCHANGED op, NEW p \in Procs, Create(p) \/ Resume(p, "menu") \/ Resume(p, "apply")
    PROVE  IInv'
<1> DEFINE free == ~made /\ homeLock = Nobody /\ prepLock = Nobody
<1>1. CASE Create(p) /\ free
  BY <1>1, OpenedSession DEF Create, Menu
<1>2. CASE Create(p) /\ ~free
  BY <1>2, Refused DEF Create
<1>3. CASE Resume(p, "menu")
  BY <1>3, OpenedSession DEF Resume, Begin
<1>4. CASE Resume(p, "apply")
  BY <1>4, OpenedSession DEF Resume, Begin
<1> QED
  BY <1>1, <1>2, <1>3, <1>4

\* The journal is read first.
LEMMA InspectJournalStep ==
    ASSUME IInv, UNCHANGED op, NEW p \in Procs, InspectJournal(p)
    PROVE  IInv'
<1> DEFINE s == [NoSession EXCEPT !.j = journal, !.jcur = TRUE]
<1>1. Keep(p, s) /\ Go(p, [Idle EXCEPT !.at = "inspect"]) /\ UNCHANGED <<prepVars, catalogVars>>
  BY DEF InspectJournal, Begin
<1>2. s \in Sessions /\ s.j = journal /\ s.dcur = FALSE
  BY RecordsAreTyped DEF IInv, Types, PreparationTypes, Sessions
<1> HIDE DEF s
<1>3. UNCHANGED <<journal, draft, gen, supply, prepLock, home, catalog, inst, fresh, homeLock>>
  BY <1>1 DEF prepVars, catalogVars
<1>4. ses' \in [Procs -> Sessions] /\ ses'[p] = s /\ \A q \in Procs \ {p} : ses'[q] = ses[q]
  BY <1>1, <1>2, Keeping DEF IInv, Types
<1>5. "inspect" \in Ats /\ "inspect" \in Apart /\ "inspect" \notin Held
  BY PlacesApart DEF Ats, Inspecting, Held, Working
<1>6. /\ st' \in [Procs -> Calls] /\ st'[p].at = "inspect" /\ ~st'[p].cur
      /\ \A q \in Procs \ {p} : st'[q] = st[q]
  BY <1>1, <1>5, Leaving DEF IInv, Types
<1>7. SesInv(p)'
  BY <1>2, <1>3, <1>4, <1>5, <1>6 DEF SesInv, Stored, Writer, Withdrawn, Prepared, Written, Inspected, At,
     Held, Working, Generating, Preparing
<1> QED
  BY <1>3, <1>4, <1>5, <1>6, <1>7, Moving

\* While the journal is still the one that was read, the stored draft fits it.
LEMMA InspectDraftStep ==
    ASSUME IInv, UNCHANGED op, NEW p \in Procs, InspectDraft(p)
    PROVE  IInv'
<1> DEFINE s == [ses[p] EXCEPT !.d = draft, !.dcur = TRUE]
<1>1. /\ ses[p] \in Sessions /\ Keep(p, s) /\ Step(p, "confirm") /\ UNCHANGED <<prepVars, catalogVars>>
  BY DEF InspectDraft, IInv, Types, PreparationTypes
<1>2. s \in Sessions /\ s.j = ses[p].j /\ s.jcur = ses[p].jcur /\ s.d = draft
  BY <1>1 DEF IInv, Types, PreparationTypes, Sessions
<1> HIDE DEF s
<1>3. UNCHANGED <<journal, draft, gen, supply, prepLock, home, catalog, inst, fresh, homeLock>>
  BY <1>1 DEF prepVars, catalogVars
<1>4. ses' \in [Procs -> Sessions] /\ ses'[p] = s /\ \A q \in Procs \ {p} : ses'[q] = ses[q]
  BY <1>1, <1>2, Keeping DEF IInv, Types
<1>5. "confirm" \in Ats /\ "confirm" \in Apart /\ "confirm" \notin Held
  BY PlacesApart DEF Ats, Inspecting, Held, Working
<1>6. /\ st' \in [Procs -> Calls] /\ st'[p].at = "confirm" /\ st'[p].cur = st[p].cur
      /\ st'[p].cat = st[p].cat /\ \A q \in Procs \ {p} : st'[q] = st[q]
  BY <1>1, <1>5, Stepping DEF IInv, Types
<1>7. SesInv(p)'
  <2>1. ASSUME s.jcur PROVE Fitting(s)
    <3>1. s.j = journal
      BY <1>2, <2>1 DEF IInv, PreparationInv, SesInv, Stored
    <3>2. journal.review # NoReview => draft = journal.review.product
      BY DEF IInv, PreparationInv, ReviewIsWhole, Bound
    <3> QED
      BY <1>2, <3>1, <3>2 DEF Fitting
  <2>2. Inspected(p)'
    BY <1>4, <1>6, <2>1 DEF Inspected, At, Fitting
  <2>3. Stored(p)'
    BY <1>2, <1>3, <1>4 DEF IInv, PreparationInv, SesInv, Stored
  <2> QED
    BY <1>5, <1>6, <2>2, <2>3 DEF SesInv, Writer, Withdrawn, Prepared, Written, At,
       Held, Working, Generating, Preparing
<1> QED
  BY <1>3, <1>4, <1>5, <1>6, <1>7, Moving

LEMMA InspectEndStep ==
    ASSUME IInv, UNCHANGED op, NEW p \in Procs, InspectAgain(p) \/ InspectReport(p)
    PROVE  IInv'
<1>1. UNCHANGED <<journal, draft, gen, supply, prepLock, ses, catalogVars>>
  BY DEF InspectAgain, InspectReport, prepVars
<1>2. CASE Done(p)
  BY <1>1, <1>2, Refused
<1>3. ASSUME NEW a \in {"reread", "reported"}, Step(p, a), Fitting(ses[p])
      PROVE  IInv'
  <2>1. a \in Ats /\ a \in Apart /\ a \notin Held
    BY PlacesApart DEF Ats, Inspecting, Held, Working
  <2>2. st'[p].at = a
    BY <1>3, <2>1, Stepping DEF IInv, Types
  <2>3. SesInv(p)'
    <3>1. Stored(p)' /\ Fitting(ses[p])'
      BY <1>1, <1>3 DEF IInv, PreparationInv, SesInv, Stored, Fitting
    <3> QED
      BY <2>1, <2>2, <3>1 DEF SesInv, Writer, Withdrawn, Prepared, Written, Inspected, At,
         Held, Working, Generating, Preparing
  <2>4. UNCHANGED <<prepVars, ses, catalogVars>>
    BY DEF InspectAgain, InspectReport
  <2> QED
    BY <1>3, <2>1, <2>3, <2>4, MovingOn
<1>4. \/ Done(p)
      \/ Step(p, "reread") /\ At(p, "confirm") /\ ses[p].jcur
      \/ Step(p, "reported") /\ At(p, "reread")
  BY DEF InspectAgain, InspectReport, JournalCurrent
<1>5. (At(p, "confirm") /\ ses[p].jcur) \/ At(p, "reread") => Fitting(ses[p])
  BY DEF IInv, PreparationInv, SesInv, Inspected, At
<1> QED
  BY <1>2, <1>3, <1>4, <1>5

LEMMA PreparationStepKeeps ==
    ASSUME IInv, NEW p \in Procs, PreparationStep(p)
    PROVE  IInv'
<1> UNCHANGED op
  BY DEF PreparationStep
<1>1. ASSUME NEW v \in Answers, SelectNode(p, v) PROVE IInv'
  BY <1>1, SetFieldStep DEF SelectNode
<1> QED
  BY <1>1, OpeningStep, SetInputsStep, SetFieldStep, SaveDraftStep, PrepareBeginStep, ReserveStep, WriteStep,
     BindPlanStep, ObserveStep, RecordReviewStep, StepFailsStep, InspectJournalStep, InspectDraftStep,
     InspectEndStep DEF PreparationStep

-----------------------------------------------------------------------------
(* Opening the catalog and choosing what to connect.                       *)

\* What a step on the catalog, or of `apply`, leaves alone.
Elsewhere == UNCHANGED <<journal, draft, gen, supply, prepLock, ses>>

\* Calls that look at the catalog are at none of the preparation's places.
LEMMA CatalogPlaces ==
    LET S == {"open", "mkhome", "choose", "create", "done", "idle", "prompt", "create_op", "start", "run",
              "verify"} \cup Saving IN
    S \subseteq Ats /\ S \cap Held = {} /\ S \cap Inspecting = {}
BY DEF Saving, Ats, Held, Working, Inspecting, Applying

LEMMA Turning ==
    ASSUME IInv, NEW p \in Procs, Elsewhere, UNCHANGED op,
           UNCHANGED <<home, catalog, inst, fresh>>,
           \A q \in Procs \ {p} : st[q].at = "save" => homeLock' = homeLock,
           NEW c \in Calls, Go(p, c), c.at \notin Held, c.at \notin Inspecting, c.at # "mkhome",
           CallInv(p)'
    PROVE  IInv'
<1>1. st' \in [Procs -> Calls] /\ st'[p] = c /\ \A q \in Procs \ {p} : st'[q] = st[q]
  BY Going DEF IInv, Types
<1>2. \A q \in Procs \ {p} : CallInv(q)'
  BY <1>1, BystanderCall DEF IInv, CatalogInv, At
<1>3. OneMaker' /\ (Distinct(catalog) /\ Bindings(catalog))'
  BY <1>1 DEF IInv, CatalogInv, OneMaker, At, Distinct, Bindings
<1>4. CatalogInv'
  BY <1>2, <1>3 DEF CatalogInv
<1>5. PreparationInv'
  BY <1>1, PreparationApart DEF Elsewhere
<1>6. CatalogTypes' /\ PreparationTypes' /\ OpInv'
  BY <1>1 DEF IInv, Types, CatalogTypes, PreparationTypes, OpInv, Registered, Elsewhere
<1> QED
  BY <1>4, <1>5, <1>6 DEF IInv, Types

LEMMA RootsThere ==
    ASSUME CatalogTypes, NEW path \in Paths
    PROVE  /\ Inspect(path) \in Roots /\ Inspect(path) = inst[path]
           /\ Inspect(path).ident = inst[path].ident /\ Inspect(path).bind = inst[path].bind
           /\ inst[path] # Absent \/ inst[path].ident # 0 => inst[path].ident # 0 /\ inst[path].bind # 0
<1>1. inst[path] \in Roots /\ (inst[path] = Absent \/ (inst[path].ident # 0 /\ inst[path].bind # 0))
  BY DEF CatalogTypes, Instances
<1> QED
  BY <1>1 DEF Inspect, RootIdentity, Binding, Roots, Absent

LEMMA ResolveStep ==
    ASSUME IInv, Elsewhere, UNCHANGED op, NEW p \in Procs, NEW o \in {"named", "add"}, NEW name \in Aliases,
           NEW path \in Paths, Resolve(p, o, name, path)
    PROVE  IInv'
<1> DEFINE c == [Idle EXCEPT !.at = "open", !.op = o, !.name = name, !.path = path, !.snap = Inspect(path)]
<1>1. Go(p, c) /\ inst[path] # Absent /\ UNCHANGED <<home, catalog, inst, fresh, homeLock>>
  BY DEF Resolve, Begin, catalogVars
<1>2. Inspect(path) \in Roots /\ Inspect(path).ident # 0
  BY <1>1, RootsThere DEF IInv, Types
<1>3. c \in Calls /\ c.at = "open" /\ c.op = o /\ c.path = path /\ c.snap = Inspect(path) /\ c.cur = FALSE
  <2>1. Idle \in Calls /\ Idle.cur = FALSE
    BY RecordsAreTyped DEF Idle
  <2>2. "open" \in Ats /\ o \in Ops
    BY CatalogPlaces DEF Ops
  <2> QED
    BY <1>2, <2>1, <2>2 DEF Calls
<1> HIDE DEF c
<1>4. st'[p] = c
  BY <1>1, <1>3, Going DEF IInv, Types
<1>5. CallInv(p)'
  BY <1>2, <1>3, <1>4 DEF CallInv, Current, Locked, Housed, Aimed, Refreshing, At, Saving
<1> QED
  BY <1>1, <1>3, <1>5, CatalogPlaces, Turning

LEMMA ConsoleStep ==
    ASSUME IInv, Elsewhere, UNCHANGED op, NEW p \in Procs, NEW o \in {"remove", "refresh", "new"}, Console(p, o)
    PROVE  IInv'
<1> DEFINE c == [Idle EXCEPT !.at = "open", !.op = o]
<1>1. Go(p, c) /\ UNCHANGED <<home, catalog, inst, fresh, homeLock>>
  BY DEF Console, Begin, catalogVars
<1>2. c \in Calls /\ c.at = "open" /\ c.op = o /\ c.cur = FALSE
  <2>1. Idle \in Calls /\ Idle.cur = FALSE
    BY RecordsAreTyped DEF Idle
  <2>2. "open" \in Ats /\ o \in Ops
    BY CatalogPlaces DEF Ops
  <2> QED
    BY <2>1, <2>2 DEF Calls
<1> HIDE DEF c
<1>3. st'[p] = c
  BY <1>1, <1>2, Going DEF IInv, Types
<1>4. CallInv(p)'
  BY <1>2, <1>3 DEF CallInv, Current, Locked, Housed, Aimed, Refreshing, At, Saving
<1> QED
  BY <1>1, <1>2, <1>4, CatalogPlaces, Turning

LEMMA OpenCatalogStep ==
    ASSUME IInv, Elsewhere, UNCHANGED op, NEW p \in Procs, OpenCatalog(p)
    PROVE  IInv'
<1>1. /\ st[p] \in Calls /\ st[p].at = "open" /\ st[p].op # "none" /\ catalog \in SUBSET Entries
      /\ st[p].op \in {"named", "add"} => st[p].path \in Paths /\ st[p].snap.ident # 0
      /\ UNCHANGED <<catalog, inst, fresh, homeLock>>
  BY DEF OpenCatalog, At, IInv, Types, CatalogTypes, CatalogInv, CallInv, Aimed
<1>2. CASE home = "whole" /\ UNCHANGED home
  <2> DEFINE c == [st[p] EXCEPT !.at = Opened[st[p].op], !.cat = IF st[p].op = "new" THEN @ ELSE catalog,
                                !.cur = st[p].op # "new"]
  <2>1. Go(p, c)
    BY <1>2 DEF OpenCatalog
  <2>2. st[p].op \in {"named", "add", "remove", "refresh", "new"}
    BY <1>1 DEF Calls, Ops
  <2>3. Opened[st[p].op] = IF st[p].op = "new" THEN "create" ELSE
                           IF st[p].op \in {"named", "add"} THEN "pin" ELSE "choose"
    BY <2>2 DEF Opened
  <2>4. c \in Calls
    <3>1. Opened[st[p].op] \in Ats
      BY <2>3, CatalogPlaces DEF Saving
    <3>2. (IF st[p].op = "new" THEN st[p].cat ELSE catalog) \in SUBSET Entries
      BY <1>1 DEF Calls
    <3>3. (st[p].op # "new") \in BOOLEAN
      OBVIOUS
    <3> QED
      BY <1>1, <3>1, <3>2, <3>3 DEF Calls
  <2>5. /\ c.at = Opened[st[p].op] /\ c.op = st[p].op /\ c.path = st[p].path /\ c.snap = st[p].snap
        /\ c.cat = IF st[p].op = "new" THEN st[p].cat ELSE catalog
        /\ c.cur = (st[p].op # "new")
    BY <1>1 DEF Calls
  <2> HIDE DEF c
  <2>6. st'[p] = c
    BY <2>1, <2>4, Going DEF IInv, Types
  <2>7. c.at \in {"create", "pin", "choose"}
    BY <2>3, <2>5
  <2>8. CallInv(p)'
    <3>1. Current(p)'
      BY <1>1, <1>2, <2>5, <2>6 DEF Current
    <3>2. Locked(p)' /\ Housed(p)'
      BY <2>6, <2>7 DEF Locked, Housed, At
    <3>3. Aimed(p)' /\ Refreshing(p)'
      BY <1>1, <2>2, <2>3, <2>5, <2>6 DEF Aimed, Refreshing, At, Saving
    <3> QED
      BY <3>1, <3>2, <3>3 DEF CallInv
  <2> QED
    BY <1>1, <1>2, <2>1, <2>4, <2>7, <2>8, CatalogPlaces, Turning DEF Saving
<1>3. CASE home = "absent" /\ home' = "partial" /\ Go(p, [st[p] EXCEPT !.at = "mkhome"])
  <2> DEFINE c == [st[p] EXCEPT !.at = "mkhome"]
  <2>1. c \in Calls /\ c.at = "mkhome" /\ c.op = st[p].op /\ c.path = st[p].path /\ c.snap = st[p].snap /\ c.cur = st[p].cur
    BY <1>1, CatalogPlaces DEF Calls
  <2> HIDE DEF c
  <2>2. st' \in [Procs -> Calls] /\ st'[p] = c /\ \A q \in Procs \ {p} : st'[q] = st[q]
    BY <1>3, <2>1, Going DEF IInv, Types, c
  <2>3. \A q \in Procs : ~At(q, "mkhome") /\ ~st[q].cur
    BY <1>3 DEF IInv, CatalogInv, CallInv, Housed, Current
  <2>4. \A q \in Procs \ {p} : CallInv(q)'
    BY <1>1, <1>3, <2>2, <2>3, BystanderCall DEF IInv, CatalogInv, At
  <2>5. CallInv(p)'
    BY <1>1, <1>3, <2>1, <2>2, <2>3 DEF CallInv, Current, Locked, Housed, Aimed, Refreshing, At, Saving
  <2>6. OneMaker' /\ (Distinct(catalog) /\ Bindings(catalog))'
    BY <1>1, <2>2, <2>3 DEF IInv, CatalogInv, OneMaker, At, Distinct, Bindings
  <2>7. CatalogInv'
    BY <2>4, <2>5, <2>6 DEF CatalogInv
  <2>8. PreparationInv'
    BY <2>1, <2>2, CatalogPlaces, PreparationApart DEF Elsewhere
  <2>9. CatalogTypes' /\ PreparationTypes' /\ OpInv'
    BY <1>1, <1>3, <2>2 DEF IInv, Types, CatalogTypes, PreparationTypes, OpInv, Registered, Elsewhere
  <2> QED
    BY <2>7, <2>8, <2>9 DEF IInv, Types
<1>4. CASE Done(p) /\ UNCHANGED home
  BY <1>1, <1>4, Refused DEF catalogVars, Elsewhere
<1> QED
  BY <1>2, <1>3, <1>4 DEF OpenCatalog

\* Nobody else is making a home, and nobody remembers a catalog before there is one.
LEMMA MakeHomeStep ==
    ASSUME IInv, Elsewhere, UNCHANGED op, NEW p \in Procs, MakeHome(p)
    PROVE  IInv'
<1> DEFINE c == [st[p] EXCEPT !.at = "open"]
<1>1. /\ st[p] \in Calls /\ st[p].at = "mkhome" /\ home = "partial" /\ home' = "whole" /\ catalog' = {}
      /\ Go(p, c) /\ UNCHANGED <<inst, fresh, homeLock>>
  BY DEF MakeHome, At, IInv, Types, CatalogTypes, CatalogInv, CallInv, Housed
<1>2. c \in Calls /\ c.at = "open" /\ c.op = st[p].op /\ c.path = st[p].path /\ c.snap = st[p].snap /\ c.cur = st[p].cur
  BY <1>1, CatalogPlaces DEF Calls
<1> HIDE DEF c
<1>3. st' \in [Procs -> Calls] /\ st'[p] = c /\ \A q \in Procs \ {p} : st'[q] = st[q]
  BY <1>1, <1>2, Going DEF IInv, Types
<1>4. \A q \in Procs \ {p} : ~At(q, "mkhome") 
  BY <1>1 DEF IInv, CatalogInv, OneMaker, At
<1>5. \A q \in Procs \ {p} : CallInv(q)'
  BY <1>1, <1>3, <1>4, BystanderCall DEF IInv, CatalogInv
<1>6. CallInv(p)'
  <2>1. ~st[p].cur
    BY <1>1 DEF IInv, CatalogInv, CallInv, Current
  <2>2. Aimed(p)
    BY DEF IInv, CatalogInv, CallInv
  <2> QED
    BY <1>1, <1>2, <1>3, <2>1, <2>2 DEF CallInv, Current, Locked, Housed, Aimed, Refreshing, At, Saving
<1>7. OneMaker'
  BY <1>2, <1>3, <1>4 DEF OneMaker, At
<1>8. (Distinct(catalog) /\ Bindings(catalog))'
  BY <1>1 DEF Distinct, Bindings
<1>9. CatalogInv'
  BY <1>5, <1>6, <1>7, <1>8 DEF CatalogInv
<1>10. PreparationInv'
  BY <1>2, <1>3, CatalogPlaces, PreparationApart DEF Elsewhere
<1>11. CatalogTypes' /\ PreparationTypes' /\ OpInv'
  BY <1>1, <1>3 DEF IInv, Types, CatalogTypes, PreparationTypes, OpInv, Registered, Elsewhere
<1> QED
  BY <1>9, <1>10, <1>11 DEF IInv, Types

LEMMA ChooseStep ==
    ASSUME IInv, Elsewhere, UNCHANGED op, NEW p \in Procs, Choose(p)
    PROVE  IInv'
<1>1. /\ st[p] \in Calls /\ st[p].at = "choose" /\ st[p].op \in {"remove", "refresh"}
      /\ UNCHANGED <<home, catalog, inst, fresh, homeLock>>
  BY DEF Choose, At, IInv, Types, CatalogTypes, CatalogInv, CallInv, Aimed, catalogVars
<1>2. CASE Done(p)
  BY <1>1, <1>2, Refused DEF catalogVars, Elsewhere
<1>3. ASSUME NEW e \in st[p].cat,
             Go(p, [st[p] EXCEPT !.at = IF st[p].op = "remove" THEN "lock" ELSE "pin", !.path = e.path,
                                 !.snap = [ident |-> e.ident, bind |-> e.bind]])
      PROVE  IInv'
  <2> DEFINE a == IF st[p].op = "remove" THEN "lock" ELSE "pin"
             r == [ident |-> e.ident, bind |-> e.bind]
             c == [st[p] EXCEPT !.at = a, !.path = e.path, !.snap = r]
  <2>1. e \in Entries /\ e.path \in Paths /\ r \in Roots /\ r.ident = e.ident
    <3>1. e \in Entries
      BY <1>1 DEF Calls
    <3> QED
      BY <3>1 DEF Entries, Roots
  <2>2. a \in Ats /\ a \in {"lock", "pin"}
    BY CatalogPlaces DEF Saving
  <2>3. Go(p, c)
    BY <1>3
  <2> HIDE DEF a, r
  <2>4. /\ c \in Calls /\ c.at = a /\ c.op = st[p].op /\ c.path = e.path /\ c.snap = r
        /\ c.cur = st[p].cur /\ c.cat = st[p].cat
    BY <1>1, <2>1, <2>2 DEF Calls
  <2> HIDE DEF c
  <2>5. st'[p] = c
    BY <2>3, <2>4, Going DEF IInv, Types
  <2>6. CallInv(p)'
    <3>1. Current(p) /\ Distinct(catalog)
      BY DEF IInv, CatalogInv, CallInv
    <3>2. Current(p)' /\ Locked(p)' /\ Housed(p)'
      BY <1>1, <2>2, <2>4, <2>5, <3>1 DEF Current, Locked, Housed, At
    <3>3. Aimed(p)'
      BY <1>1, <2>1, <2>2, <2>4, <2>5 DEF Aimed, At, Saving
    <3>4. st[p].cur => \A f \in catalog : f.path = e.path => f.ident = e.ident
      BY <3>1 DEF Current, Distinct
    <3>5. Refreshing(p)'
      BY <1>1, <2>1, <2>4, <2>5, <3>4 DEF Refreshing
    <3> QED
      BY <3>2, <3>3, <3>5 DEF CallInv
  <2>7. c.at \notin Held /\ c.at \notin Inspecting /\ c.at # "mkhome"
    BY <2>2, <2>4, CatalogPlaces DEF Saving
  <2> QED
    BY <1>1, <2>3, <2>4, <2>6, <2>7, Turning
<1> QED
  BY <1>2, <1>3 DEF Choose

\* What is pinned has the root that was remembered.
LEMMA PinStep ==
    ASSUME IInv, Elsewhere, UNCHANGED op, NEW p \in Procs, Pin(p)
    PROVE  IInv'
<1>1. /\ st[p] \in Calls /\ st[p].at = "pin" /\ st[p].path \in Paths
      /\ st[p].op = "named" => st[p].snap.ident # 0
      /\ UNCHANGED <<home, catalog, inst, fresh, homeLock>>
  BY DEF Pin, At, IInv, Types, CatalogTypes, CatalogInv, CallInv, Aimed, catalogVars, Saving
<1>2. CASE Done(p)
  BY <1>1, <1>2, Refused DEF catalogVars, Elsewhere
<1>3. CASE Recheck(st[p]) /\ Go(p, [st[p] EXCEPT !.at = "lock", !.snap = Inspect(st[p].path)])
  <2> DEFINE r == Inspect(st[p].path)
             c == [st[p] EXCEPT !.at = "lock", !.snap = r]
  <2>1. r \in Roots /\ r.ident = st[p].snap.ident /\ (r.ident # 0 => r.bind # 0)
    BY <1>1, <1>3, RootsThere DEF Recheck, RootIdentity, IInv, Types
  <2>2. Go(p, c) /\ "lock" \in Ats
    BY <1>3, CatalogPlaces DEF Saving
  <2> HIDE DEF r
  <2>3. /\ c \in Calls /\ c.at = "lock" /\ c.op = st[p].op /\ c.path = st[p].path /\ c.snap = r
        /\ c.cur = st[p].cur /\ c.cat = st[p].cat
    BY <1>1, <2>1, <2>2 DEF Calls
  <2> HIDE DEF c
  <2>4. st'[p] = c
    BY <2>2, <2>3, Going DEF IInv, Types
  <2>5. CallInv(p)'
    <3>1. Current(p) /\ Refreshing(p)
      BY DEF IInv, CatalogInv, CallInv
    <3>2. Current(p)' /\ Locked(p)' /\ Housed(p)'
      BY <1>1, <2>3, <2>4, <3>1 DEF Current, Locked, Housed, At
    <3>3. Aimed(p)'
      BY <1>1, <2>1, <2>3, <2>4 DEF Aimed, At, Saving
    <3>4. Refreshing(p)'
      BY <1>1, <2>1, <2>3, <2>4, <3>1 DEF Refreshing, Saving
    <3> QED
      BY <3>2, <3>3, <3>4 DEF CallInv
  <2>6. c.at \notin Held /\ c.at \notin Inspecting /\ c.at # "mkhome"
    BY <2>3, CatalogPlaces DEF Saving
  <2> QED
    BY <1>1, <2>2, <2>3, <2>5, <2>6, Turning
<1> QED
  BY <1>2, <1>3 DEF Pin, RefreshFits

LEMMA LockHomeStep ==
    ASSUME IInv, Elsewhere, UNCHANGED op, NEW p \in Procs, LockHome(p)
    PROVE  IInv'
<1>1. st[p] \in Calls /\ st[p].at = "lock" /\ UNCHANGED <<home, catalog, inst, fresh>>
  BY DEF LockHome, At, IInv, Types, CatalogTypes
<1>2. CASE Done(p) /\ UNCHANGED homeLock
  BY <1>1, <1>2, Refused DEF catalogVars, Elsewhere
<1>3. CASE /\ homeLock = Nobody /\ st[p].cur /\ homeLock' = p
           /\ Go(p, [st[p] EXCEPT !.at = "save"])
  <2> DEFINE c == [st[p] EXCEPT !.at = "save"]
  <2>1. /\ c \in Calls /\ c.at = "save" /\ c.op = st[p].op /\ c.path = st[p].path /\ c.snap = st[p].snap
        /\ c.cur = st[p].cur /\ c.cat = st[p].cat
    BY <1>1, CatalogPlaces DEF Calls, Saving
  <2>2. Go(p, c)
    BY <1>3
  <2> HIDE DEF c
  <2>3. st'[p] = c
    BY <2>1, <2>2, Going DEF IInv, Types
  <2>4. CallInv(p)'
    <3>1. CallInv(p)
      BY DEF IInv, CatalogInv
    <3> QED
      BY <1>1, <1>3, <2>1, <2>3, <3>1 DEF CallInv, Current, Locked, Housed, Aimed, Refreshing, At, Saving
  <2>5. \A q \in Procs \ {p} : st[q].at # "save"
    BY <1>3, Constants DEF IInv, CatalogInv, CallInv, Locked, At
  <2>6. c.at \notin Held /\ c.at \notin Inspecting /\ c.at # "mkhome"
    BY <2>1, CatalogPlaces DEF Saving
  <2> QED
    BY <1>1, <2>1, <2>2, <2>4, <2>5, <2>6, Turning
<1> QED
  BY <1>2, <1>3 DEF LockHome, CheckCurrent

-----------------------------------------------------------------------------
(* Saving the catalog.                                                     *)

\* The five things a save may store.
LEMMA WantedCases ==
    ASSUME NEW c
    PROVE  \/ c.op = "add" /\ Addable(c) /\ Wanted(c) = c.cat \cup {Entry(c, NoName, 0)}
           \/ c.op = "named" /\ Nameable(c) /\ Wanted(c) = (c.cat \ Known(c)) \cup {Entry(c, c.name, c.snap.bind)}
           \/ c.op = "remove" /\ Wanted(c) = {e \in c.cat : e.path # c.path}
           \/ c.op = "refresh" /\ Wanted(c) = {IF e.path = c.path THEN [e EXCEPT !.ident = c.snap.ident] ELSE e :
                                                  e \in c.cat}
           \/ Wanted(c) = c.cat
BY Zenon DEF Wanted

\* No entry with a name moves.
Stable(old, new) ==
    \A e \in old, f \in new : e.alias # NoName /\ (f.alias = e.alias \/ f.path = e.path) => f = e

\* A save that was compared under the lock moves no name, and binds the one it adds.
LEMMA WantedIsStable ==
    ASSUME IInv, NEW p \in Procs, At(p, "save")
    PROVE  /\ Wanted(st[p]) \in SUBSET Entries
           /\ Bindings(Wanted(st[p])) /\ Stable(catalog, Wanted(st[p]))
<1> DEFINE w == Wanted(st[p])
<1>1. PICK c \in Calls : c = st[p]
  BY DEF IInv, Types, CatalogTypes
<1>2. /\ c.cat = catalog /\ c.path \in Paths /\ c.snap \in Roots /\ c.name \in Aliases
      /\ c.op = "named" => c.snap.bind # 0
      /\ c.op = "refresh" => \A e \in catalog : e.path = c.path => e.ident = c.snap.ident
  BY <1>1 DEF IInv, CatalogInv, CallInv, Current, Locked, Aimed, Refreshing, At, Saving, Calls
<1>3. catalog \in SUBSET Entries /\ Distinct(catalog) /\ Bindings(catalog)
  BY DEF IInv, Types, CatalogTypes, CatalogInv
<1>4. Stable(catalog, catalog)
  BY <1>3 DEF Stable, Distinct
<1>5. c.snap.ident \in Nat /\ c.snap.bind \in Nat
  BY <1>2 DEF Roots
<1>6. CASE c.op = "add" /\ Addable(c) /\ Wanted(c) = c.cat \cup {Entry(c, NoName, 0)}
  <2>1. PICK f : f = Entry(c, NoName, 0)
    OBVIOUS
  <2>2. f \in Entries /\ f.alias = NoName /\ f.path = c.path
    BY <1>2, <1>5, <2>1 DEF Entry, Entries, Aliases
  <2>3. \A e \in catalog : e.path # c.path
    BY <1>2, <1>6 DEF Addable, Known, SameTarget
  <2>4. w = catalog \cup {f}
    BY <1>1, <1>2, <1>6, <2>1
  <2> HIDE DEF w
  <2>5. w \in SUBSET Entries /\ Bindings(w) /\ Stable(catalog, w)
    BY <1>3, <1>4, <2>2, <2>3, <2>4 DEF Stable, Bindings
  <2> QED
    BY <2>5 DEF w
<1>7. CASE c.op = "named" /\ Nameable(c) /\ Wanted(c) = (c.cat \ Known(c)) \cup {Entry(c, c.name, c.snap.bind)}
  <2>1. PICK f : f = Entry(c, c.name, c.snap.bind)
    OBVIOUS
  <2>2. /\ f \in Entries /\ f.alias = c.name /\ f.path = c.path /\ f.ident = c.snap.ident
        /\ f.bind = c.snap.bind /\ f.bind # 0
    BY <1>2, <1>5, <1>7, <2>1 DEF Entry, Entries
  <2>3. \A e \in catalog : e \in Known(c) \/ (e.alias # c.name /\ e.path # c.path)
    BY <1>2, <1>7 DEF Nameable, Known, SameTarget
  <2>4. \A e \in Known(c) : e \in catalog /\ e.path = c.path /\ e.ident = c.snap.ident
                            /\ e.alias \in {NoName, c.name} /\ e.bind \in {0, c.snap.bind}
    BY <1>2, <1>7 DEF Nameable, Known
  <2>5. ASSUME NEW e \in Known(c), e.alias # NoName PROVE e = f
    <3>1. e \in Entries /\ e.bind = f.bind /\ e.alias = f.alias /\ e.path = f.path /\ e.ident = f.ident
      BY <1>3, <2>2, <2>4, <2>5 DEF Bindings
    <3> QED
      BY <2>2, <3>1 DEF Entries
  <2>6. w = (catalog \ Known(c)) \cup {f}
    BY <1>1, <1>2, <1>7, <2>1
  <2> HIDE DEF w
  <2>7. w \in SUBSET Entries /\ Bindings(w)
    BY <1>3, <2>2, <2>6 DEF Bindings
  <2>8. Stable(catalog, w)
    BY <1>4, <2>2, <2>3, <2>5, <2>6 DEF Stable
  <2> QED
    BY <2>7, <2>8 DEF w
<1>8. CASE c.op = "remove" /\ Wanted(c) = {e \in c.cat : e.path # c.path}
  <2>1. w \subseteq catalog
    BY <1>1, <1>2, <1>8
  <2> HIDE DEF w
  <2>5. w \in SUBSET Entries /\ Bindings(w) /\ Stable(catalog, w)
    BY <1>3, <1>4, <2>1 DEF Stable, Bindings
  <2> QED
    BY <2>5 DEF w
<1>9. CASE c.op = "refresh" /\ Wanted(c) = {IF e.path = c.path THEN [e EXCEPT !.ident = c.snap.ident] ELSE e :
                                               e \in c.cat}
  <2>1. ASSUME NEW e \in catalog, e.path = c.path PROVE [e EXCEPT !.ident = c.snap.ident] = e
    <3>1. e \in Entries /\ e.ident = c.snap.ident
      BY <1>2, <1>3, <1>9, <2>1
    <3> QED
      BY <3>1 DEF Entries
  <2>2. w \subseteq catalog
    BY <1>1, <1>2, <1>9, <2>1
  <2> HIDE DEF w
  <2>5. w \in SUBSET Entries /\ Bindings(w) /\ Stable(catalog, w)
    BY <1>3, <1>4, <2>2 DEF Stable, Bindings
  <2> QED
    BY <2>5 DEF w
<1>10. CASE Wanted(c) = c.cat
  BY <1>1, <1>2, <1>3, <1>4, <1>10
<1> QED
  BY <1>1, <1>6, <1>7, <1>8, <1>9, <1>10, WantedCases

LEMMA SaveEntriesStep ==
    ASSUME IInv, Elsewhere, UNCHANGED op, NEW p \in Procs, SaveEntries(p)
    PROVE  IInv'
<1>1. /\ st[p] \in Calls /\ At(p, "save") /\ homeLock = p /\ st[p].cur /\ homeLock' = Nobody
      /\ UNCHANGED <<home, inst, fresh>>
  BY DEF SaveEntries, At, IInv, Types, CatalogTypes, CatalogInv, CallInv, Locked
<1>2. \A q \in Procs \ {p} : st[q].at # "save"
  BY <1>1 DEF IInv, CatalogInv, CallInv, Locked, At
<1>3. "done" \in Ats /\ "done" \in Apart /\ "done" \notin Held /\ "done" \notin Inspecting
  BY PlacesApart, CatalogPlaces
<1>4. CASE Done(p) /\ UNCHANGED catalog
  <2> DEFINE c == [Idle EXCEPT !.at = "done"]
  <2>1. c \in Calls /\ c.at = "done" /\ c.cur = FALSE
    BY <1>3, IdleIsCall
  <2>2. Go(p, c)
    BY <1>4 DEF Done
  <2> HIDE DEF c
  <2>3. st'[p] = c
    BY <2>1, <2>2, Going DEF IInv, Types
  <2>4. CallInv(p)'
    BY <1>3, <2>1, <2>3, ApartIsFine
  <2> QED
    BY <1>1, <1>2, <1>3, <1>4, <2>1, <2>2, <2>4, Turning
<1>5. CASE /\ Valid(Wanted(st[p])) /\ catalog' = Wanted(st[p])
           /\ st' = [x \in Procs |-> IF x = p THEN [Idle EXCEPT !.at = "done"] ELSE [st[x] EXCEPT !.cur = FALSE]]
  <2> DEFINE c == [Idle EXCEPT !.at = "done"]
  <2>1. c \in Calls /\ c.at = "done" /\ c.cur = FALSE
    BY <1>3, IdleIsCall
  <2>2. \A q \in Procs : LET d == [st[q] EXCEPT !.cur = FALSE] IN
           /\ d \in Calls /\ d.at = st[q].at /\ d.op = st[q].op /\ d.path = st[q].path
           /\ d.snap = st[q].snap /\ d.cur = FALSE
    <3>1. \A q \in Procs : st[q] \in Calls
      BY DEF IInv, Types, CatalogTypes
    <3> QED
      BY <3>1 DEF Calls
  <2> HIDE DEF c
  <2>3. /\ st' \in [Procs -> Calls] /\ st'[p] = c
        /\ \A q \in Procs \ {p} : /\ st'[q].at = st[q].at /\ st'[q].op = st[q].op /\ st'[q].path = st[q].path
                                  /\ st'[q].snap = st[q].snap /\ ~st'[q].cur
    BY <1>5, <2>1, <2>2 DEF c
  <2>4. CallInv(p)'
    BY <1>3, <2>1, <2>3, ApartIsFine
  <2>5. ASSUME NEW q \in Procs \ {p} PROVE CallInv(q)'
    <3>1. CallInv(q)
      BY DEF IInv, CatalogInv
    <3> QED
      BY <1>1, <1>2, <2>3, <3>1 DEF CallInv, Current, Locked, Housed, Aimed, Refreshing, At, Saving
  <2>6. catalog' \in SUBSET Entries /\ Bindings(catalog')
    BY <1>1, <1>5, WantedIsStable
  <2>7. Distinct(catalog')
    BY <1>5 DEF Valid, Distinct
  <2>8. OneMaker'
    BY <2>1, <2>3 DEF IInv, CatalogInv, OneMaker, At
  <2>9. (Distinct(catalog) /\ Bindings(catalog))'
    BY <2>6, <2>7 DEF Distinct, Bindings
  <2>10. CatalogInv'
    BY <2>4, <2>5, <2>8, <2>9 DEF CatalogInv
  <2>11. PreparationInv'
    BY <1>3, <2>1, <2>3, PreparationApart DEF Elsewhere
  <2>12. CatalogTypes' /\ PreparationTypes' /\ OpInv'
    BY <1>1, <2>3, <2>6 DEF IInv, Types, CatalogTypes, PreparationTypes, OpInv, Registered, Elsewhere
  <2> QED
    BY <2>10, <2>11, <2>12 DEF IInv, Types
<1> QED
  BY <1>4, <1>5 DEF SaveEntries

LEMMA CatalogStepKeeps ==
    ASSUME IInv, NEW p \in Procs, CatalogStep(p)
    PROVE  IInv'
<1>1. Elsewhere /\ UNCHANGED op
  BY DEF CatalogStep, Elsewhere, prepVars
<1>2. ASSUME NEW path \in Paths, OpenPath(p, path) PROVE IInv'
  <2>1. NoName \in Aliases
    BY DEF Aliases
  <2> QED
    BY <1>1, <1>2, <2>1, ResolveStep DEF OpenPath
<1>3. ASSUME NEW path \in Paths, NEW name \in Names, AddNode(p, name, path) PROVE IInv'
  <2>1. name \in Aliases
    BY DEF Aliases
  <2> QED
    BY <1>1, <1>3, <2>1, ResolveStep DEF AddNode
<1> QED
  BY <1>1, <1>2, <1>3, ConsoleStep, OpenCatalogStep, MakeHomeStep, ChooseStep, PinStep, LockHomeStep,
     SaveEntriesStep DEF CatalogStep

-----------------------------------------------------------------------------
(* Applying.                                                               *)

\* A step of `apply`: it may touch the operation and the instance.
LEMMA Acting ==
    ASSUME IInv, NEW p \in Procs, Elsewhere, UNCHANGED <<home, catalog, homeLock>>,
           inst' \in [Paths -> Instances], fresh' \in Nat, op' \in Operations, OpInv',
           NEW c \in Calls, Go(p, c), c.at \notin Held, c.at \notin Inspecting, c.at # "mkhome",
           CallInv(p)'
    PROVE  IInv'
<1>1. st' \in [Procs -> Calls] /\ st'[p] = c /\ \A q \in Procs \ {p} : st'[q] = st[q]
  BY Going DEF IInv, Types
<1>2. \A q \in Procs \ {p} : CallInv(q)'
  BY <1>1, BystanderCall DEF IInv, CatalogInv, At
<1>3. OneMaker' /\ (Distinct(catalog) /\ Bindings(catalog))'
  BY <1>1 DEF IInv, CatalogInv, OneMaker, At, Distinct, Bindings
<1>4. CatalogInv'
  BY <1>2, <1>3 DEF CatalogInv
<1>5. PreparationInv'
  BY <1>1, PreparationApart DEF Elsewhere
<1>6. CatalogTypes' /\ PreparationTypes'
  BY <1>1 DEF IInv, Types, CatalogTypes, PreparationTypes, Elsewhere
<1> QED
  BY <1>4, <1>5, <1>6 DEF IInv, Types

LEMMA OpStays ==
    ASSUME IInv
    PROVE  /\ op \in Operations /\ inst \in [Paths -> Instances] /\ fresh \in Nat
           /\ UNCHANGED op => OpInv'
BY DEF IInv, Types, CatalogTypes, PreparationTypes, OpInv, Registered

LEMMA ApplyBeginStep ==
    ASSUME IInv, NEW p \in Procs, ApplyBegin(p)
    PROVE  IInv'
<1> DEFINE c == [st[p] EXCEPT !.at = "prompt", !.cat = catalog, !.cur = TRUE]
<1>1. /\ st[p] \in Calls /\ catalog \in SUBSET Entries /\ home = "whole"
      /\ UNCHANGED <<prepVars, ses, catalogVars, op>> /\ (Go(p, c) \/ Done(p))
  BY DEF ApplyBegin, At, IInv, Types, CatalogTypes, CatalogInv, CallInv, Housed
<1>2. Elsewhere /\ UNCHANGED <<home, catalog, inst, fresh, homeLock>>
  BY <1>1 DEF Elsewhere, prepVars, catalogVars
<1>3. CASE Done(p)
  BY <1>1, <1>2, <1>3, Refused DEF Elsewhere
<1>4. CASE Go(p, c)
  <2>1. c \in Calls /\ c.at = "prompt" /\ c.cat = catalog
    BY <1>1, CatalogPlaces DEF Calls
  <2> HIDE DEF c
  <2>2. st'[p] = c
    BY <1>4, <2>1, Going DEF IInv, Types
  <2>3. CallInv(p)'
    BY <1>1, <1>2, <2>1, <2>2, ApartIsFine, PlacesApart
  <2> QED
    BY <1>1, <1>2, <1>4, <2>1, <2>3, CatalogPlaces, OpStays, Acting
<1> QED
  BY <1>1, <1>3, <1>4

\* A step to the next place of `apply`.
LEMMA Proceeding ==
    ASSUME IInv, NEW p \in Procs, NEW a \in {"create_op", "start", "run", "verify"}, Step(p, a), Elsewhere,
           UNCHANGED <<home, catalog, inst, fresh, homeLock>>, op' \in Operations, OpInv'
    PROVE  IInv'
<1> DEFINE c == [st[p] EXCEPT !.at = a]
<1>1. a \in Ats /\ a \in Apart
  BY CatalogPlaces, PlacesApart
<1>2. st[p] \in Calls /\ (st[p].cur => home = "whole" /\ st[p].cat = catalog)
  BY DEF IInv, Types, CatalogTypes, CatalogInv, CallInv, Current
<1>3. c \in Calls /\ c.at = a /\ c.cur = st[p].cur /\ c.cat = st[p].cat
  BY <1>1, <1>2 DEF Calls
<1>4. Go(p, c)
  BY DEF Step
<1> HIDE DEF c
<1>5. st'[p] = c
  BY <1>3, <1>4, Going DEF IInv, Types
<1>6. CallInv(p)'
  BY <1>1, <1>2, <1>3, <1>5, ApartIsFine
<1>7. c.at \notin Held /\ c.at \notin Inspecting /\ c.at # "mkhome"
  BY <1>3, CatalogPlaces
<1> QED
  BY <1>3, <1>4, <1>6, <1>7, OpStays, Acting

LEMMA AnswerStep ==
    ASSUME IInv, NEW p \in Procs, Decline(p) \/ ApplyFails(p)
    PROVE  IInv'
<1>1. UNCHANGED <<prepVars, ses, catalogVars, op>> /\ Done(p)
  BY DEF Decline, ApplyFails
<1>2. UNCHANGED <<journal, draft, gen, supply, prepLock, ses, catalogVars, op>>
  BY <1>1 DEF prepVars
<1> QED
  BY <1>1, <1>2, Refused

\* The answer is remembered with what was shown.
LEMMA ApproveStep ==
    ASSUME IInv, NEW p \in Procs, Approve(p)
    PROVE  IInv'
<1> DEFINE s == [ses[p] EXCEPT !.yes = Source(p)]
<1>1. /\ ses[p] \in Sessions /\ Keep(p, s) /\ UNCHANGED <<prepVars, catalogVars, op>>
      /\ Step(p, "create_op") \/ Done(p)
  BY DEF Approve, IInv, Types, PreparationTypes
<1>2. /\ s \in Sessions /\ s.j = ses[p].j /\ s.d = ses[p].d /\ s.jcur = ses[p].jcur
      /\ s.dcur = ses[p].dcur
  BY <1>1 DEF Source, Sessions, Journals
<1> HIDE DEF s
<1>3. UNCHANGED <<journal, draft, gen, supply, prepLock, home, catalog, inst, fresh, homeLock>>
  BY <1>1 DEF prepVars, catalogVars
<1>4. ses' \in [Procs -> Sessions] /\ ses'[p] = s /\ \A q \in Procs \ {p} : ses'[q] = ses[q]
  BY <1>1, <1>2, Keeping DEF IInv, Types
<1>5. /\ {"create_op", "done"} \subseteq Apart /\ {"create_op", "done"} \subseteq Ats
      /\ {"create_op", "done"} \cap Held = {} /\ {"create_op", "done"} \cap Inspecting = {}
  BY PlacesApart, CatalogPlaces
<1>6. /\ st' \in [Procs -> Calls] /\ st'[p].at \in {"create_op", "done"}
      /\ st'[p].cur => st[p].cur /\ st'[p].cat = st[p].cat
      /\ \A q \in Procs \ {p} : st'[q] = st[q]
  <2>1. CASE Step(p, "create_op")
    BY <1>5, <2>1, Stepping DEF IInv, Types
  <2>2. CASE Done(p)
    BY <1>5, <2>2, Leaving DEF IInv, Types, Done
  <2> QED
    BY <1>1, <2>1, <2>2
<1>7. SesInv(p)'
  <2>1. Stored(p)'
    BY <1>2, <1>3, <1>4 DEF Stored, IInv, PreparationInv, SesInv
  <2> QED
    BY <1>5, <1>6, <2>1, SessionApart
<1> QED
  BY <1>1, <1>3, <1>4, <1>5, <1>6, <1>7, Moving

LEMMA CreateOperationStep ==
    ASSUME IInv, NEW p \in Procs, CreateOperation(p)
    PROVE  IInv'
<1>1. UNCHANGED <<prepVars, ses, catalogVars>>
  BY DEF CreateOperation
<1>2. Elsewhere /\ UNCHANGED <<home, catalog, inst, fresh, homeLock>>
  BY <1>1 DEF Elsewhere, prepVars, catalogVars
<1>3. CASE Done(p) /\ UNCHANGED op
  BY <1>1, <1>2, <1>3, Refused DEF Elsewhere
<1>4. CASE Step(p, "start") /\ op' = op
  BY <1>1, <1>2, <1>4, OpStays, Proceeding
<1>5. CASE Step(p, "start") /\ op' = [NoOp EXCEPT !.src = Source(p), !.phase = "new"]
  <2>1. Source(p) \in Reviews
    BY DEF IInv, Types, PreparationTypes, Source, Sessions, Journals
  <2>2. op' \in Operations /\ op'.phase = "new"
    BY <1>5, <2>1, RecordsAreTyped DEF NoOp, Operations
  <2>3. OpInv'
    BY <2>2 DEF OpInv, Registered
  <2> QED
    BY <1>2, <1>5, <2>2, <2>3, Proceeding
<1> QED
  BY <1>3, <1>4, <1>5 DEF CreateOperation

LEMMA StartStep ==
    ASSUME IInv, NEW p \in Procs, Start(p)
    PROVE  IInv'
<1>1. UNCHANGED <<prepVars, ses, catalogVars>> /\ Step(p, "run")
  BY DEF Start
<1>2. Elsewhere /\ UNCHANGED <<home, catalog, inst, fresh, homeLock>>
  BY <1>1 DEF Elsewhere, prepVars, catalogVars
<1>3. op' \in Operations /\ OpInv'
  <2>1. CASE op' = op
    BY <2>1, OpStays
  <2>2. CASE op' = [op EXCEPT !.phase = "planned"]
    <3>1. op' \in Operations /\ op'.phase = "planned"
      BY <2>2, OpStays DEF Operations
    <3> QED
      BY <3>1 DEF OpInv, Registered
  <2> QED
    BY <2>1, <2>2 DEF Start
<1> QED
  BY <1>1, <1>2, <1>3, Proceeding

\* The registered instance goes on to the catalog, under the name.
LEMMA VerifyStep ==
    ASSUME IInv, NEW p \in Procs, Verify(p)
    PROVE  IInv'
<1> DEFINE r == inst[Mine]
           c == [st[p] EXCEPT !.at = "pin", !.op = "named", !.name = Own, !.path = Mine, !.snap = r]
<1>1. r \in Roots /\ Own \in Aliases /\ Mine \in Paths /\ "named" \in Ops /\ "pin" \in Ats
  BY Constants, OpStays, CatalogPlaces DEF Instances, Aliases, Ops, Saving
<1>2. st[p] \in Calls /\ Current(p)
  BY DEF IInv, Types, CatalogTypes, CatalogInv, CallInv
<1>3. Go(p, c) /\ UNCHANGED <<prepVars, ses, catalogVars, op>> /\ r.ident = op.root /\ op.phase = "registered"
  BY DEF Verify
<1>4. Elsewhere /\ UNCHANGED <<home, catalog, inst, fresh, homeLock>>
  BY <1>3 DEF Elsewhere, prepVars, catalogVars
<1>5. r.ident # 0
  BY <1>3 DEF IInv, OpInv, Registered
<1> HIDE DEF r
<1>6. c \in Calls
  BY <1>1, <1>2 DEF Calls
<1>7. c.at = "pin" /\ c.op = "named" /\ c.path = Mine /\ c.snap = r /\ c.cur = st[p].cur /\ c.cat = st[p].cat
  BY <1>2 DEF Calls
<1> HIDE DEF c
<1>8. st'[p] = c
  BY <1>3, <1>6, Going DEF IInv, Types
<1>9. CallInv(p)'
  BY <1>1, <1>2, <1>4, <1>5, <1>7, <1>8 DEF CallInv, Current, Locked, Housed, Aimed, Refreshing, At, Saving
<1>10. c.at \notin Held /\ c.at \notin Inspecting /\ c.at # "mkhome"
  BY <1>7, CatalogPlaces DEF Saving
<1> QED
  BY <1>3, <1>4, <1>6, <1>9, <1>10, OpStays, Acting

LEMMA RegisterStep ==
    ASSUME IInv, NEW p \in Procs, Register(p)
    PROVE  IInv'
<1>1. UNCHANGED <<prepVars, ses, home, catalog, homeLock>>
  BY DEF Register
<1>2. Elsewhere
  BY <1>1 DEF Elsewhere, prepVars
<1>3. op \in Operations /\ inst \in [Paths -> Instances] /\ fresh \in Nat /\ ses[p].yes \in Reviews
  BY DEF IInv, Types, CatalogTypes, PreparationTypes, Sessions
<1>4. fresh' \in Nat /\ fresh' # 0
  BY <1>3 DEF Register
<1>5. inst' \in [Paths -> Instances]
  <2>1. inst' = [inst EXCEPT ![Mine] = [ident |-> fresh', bind |-> fresh']]
    BY DEF Register
  <2>2. [ident |-> fresh', bind |-> fresh'] \in Instances
    BY <1>4 DEF Instances, Roots
  <2> QED
    BY <1>3, <2>1, <2>2, Constants
<1>6. PICK phase \in {"registered", "unknown"} :
        /\ op' = [op EXCEPT !.phase = phase, !.root = fresh', !.approved = ses[p].yes]
        /\ IF phase = "registered" THEN Step(p, "verify") ELSE Done(p)
  BY DEF Register
<1>7. op' \in Operations /\ op'.root = fresh'
  BY <1>3, <1>4, <1>6 DEF Operations
<1>8. OpInv'
  BY <1>4, <1>7 DEF OpInv, Registered
<1>9. PICK c \in Calls : Go(p, c) /\ c.at \in {"verify", "done"} /\ (c.cur => Current(p) /\ st[p].cur /\ c.cat = st[p].cat)
  <2>1. st[p] \in Calls /\ Current(p) /\ {"verify", "done"} \subseteq Ats
    BY CatalogPlaces DEF IInv, Types, CatalogTypes, CatalogInv, CallInv
  <2>2. CASE Step(p, "verify")
    <3> DEFINE d == [st[p] EXCEPT !.at = "verify"]
    <3>1. d \in Calls /\ d.at = "verify" /\ d.cur = st[p].cur /\ d.cat = st[p].cat
      BY <2>1 DEF Calls
    <3>2. Go(p, d)
      BY <2>2 DEF Step
    <3> HIDE DEF d
    <3> QED
      BY <2>1, <3>1, <3>2
  <2>3. CASE Done(p)
    <3> DEFINE d == [Idle EXCEPT !.at = "done"]
    <3>1. d \in Calls /\ d.at = "done" /\ d.cur = FALSE
      BY <2>1, IdleIsCall
    <3>2. Go(p, d)
      BY <2>3 DEF Done
    <3> HIDE DEF d
    <3> QED
      BY <3>1, <3>2
  <2> QED
    BY <1>6, <2>2, <2>3
<1>10. st'[p] = c
  BY <1>9, Going DEF IInv, Types
<1>11. CallInv(p)'
  <2>1. c.at \in Apart
    BY <1>9, PlacesApart
  <2>2. c.cur => home' = "whole" /\ c.cat = catalog'
    BY <1>1, <1>9 DEF Current
  <2> QED
    BY <1>10, <2>1, <2>2, ApartIsFine
<1>12. c.at \notin Held /\ c.at \notin Inspecting /\ c.at # "mkhome"
  BY <1>9, CatalogPlaces
<1> QED
  BY <1>1, <1>2, <1>4, <1>5, <1>7, <1>8, <1>9, <1>11, <1>12, Acting

LEMMA ReconcileStep ==
    ASSUME IInv, NEW p \in Procs, Reconcile(p)
    PROVE  IInv'
<1>1. /\ UNCHANGED <<prepVars, ses, catalogVars>> /\ Step(p, "verify")
      /\ op.phase \in {"unknown", "registered"}
      /\ op' = [op EXCEPT !.phase = "registered", !.approved = ses[p].yes]
  BY DEF Reconcile
<1>2. Elsewhere /\ UNCHANGED <<home, catalog, inst, fresh, homeLock>>
  BY <1>1 DEF Elsewhere, prepVars, catalogVars
<1>3. op \in Operations /\ OpInv /\ ses[p].yes \in Reviews
  BY DEF IInv, Types, PreparationTypes, Sessions
<1>4. op' \in Operations /\ op'.root = op.root
  BY <1>1, <1>3 DEF Operations
<1>5. OpInv'
  BY <1>1, <1>3, <1>4 DEF OpInv, Registered
<1> QED
  BY <1>1, <1>2, <1>4, <1>5, Proceeding

\* A process that ends lets its locks go; whoever else has one keeps it.
LEMMA LeaveStep ==
    ASSUME IInv, NEW p \in Procs, Leave(p)
    PROVE  IInv'
<1>1. /\ Go(p, Idle) /\ Keep(p, NoSession)
      /\ UNCHANGED <<journal, draft, gen, supply, home, catalog, inst, fresh, op>>
  BY DEF Leave
<1>2. Idle \in Calls /\ Idle.at = "idle" /\ Idle.cur = FALSE
  BY RecordsAreTyped DEF Idle
<1>3. st' \in [Procs -> Calls] /\ st'[p] = Idle /\ \A q \in Procs \ {p} : st'[q] = st[q]
  BY <1>1, <1>2, Going DEF IInv, Types
<1>4. ses' \in [Procs -> Sessions] /\ ses'[p] = NoSession /\ \A q \in Procs \ {p} : ses'[q] = ses[q]
  BY <1>1, RecordsAreTyped, Keeping DEF IInv, Types
<1>5. \A q \in Procs \ {p} : /\ st[q].at = "save" => homeLock' = homeLock
                             /\ st[q].at \in Held => prepLock' = prepLock
  BY DEF Leave, IInv, CatalogInv, CallInv, Locked, PreparationInv, SesInv, Writer, At
<1>6. "idle" \in Apart /\ "idle" \notin Held /\ "idle" \notin Inspecting /\ "idle" # "mkhome"
  BY PlacesApart, CatalogPlaces
<1>7. CallInv(p)'
  BY <1>2, <1>3, <1>6, ApartIsFine
<1>8. \A q \in Procs \ {p} : CallInv(q)'
  BY <1>1, <1>3, <1>5, BystanderCall DEF IInv, CatalogInv, At
<1>9. OneMaker' /\ (Distinct(catalog) /\ Bindings(catalog))'
  BY <1>1, <1>2, <1>3 DEF IInv, CatalogInv, OneMaker, At, Distinct, Bindings
<1>10. SesInv(p)'
  <2>1. Stored(p)'
    BY <1>4, RecordsAreTyped DEF Stored
  <2> QED
    BY <1>2, <1>3, <1>6, <2>1, SessionApart
<1>11. PreparationInv'
  BY <1>1, <1>3, <1>4, <1>5, <1>10, StoresStay
<1>12. CatalogTypes' /\ PreparationTypes' /\ OpInv'
  BY <1>1, <1>3, <1>4 DEF IInv, Types, CatalogTypes, PreparationTypes, OpInv, Registered
<1> QED
  BY <1>7, <1>8, <1>9, <1>11, <1>12 DEF IInv, Types, CatalogInv

LEMMA ApplyStepKeeps ==
    ASSUME IInv, NEW p \in Procs, ApplyStep(p)
    PROVE  IInv'
BY ApplyBeginStep, AnswerStep, ApproveStep, CreateOperationStep, StartStep, RegisterStep, ReconcileStep,
   VerifyStep, LeaveStep
   DEF ApplyStep, Exit, Kill

-----------------------------------------------------------------------------
(* What happens outside.                                                   *)

LEMMA OutsideKeeps ==
    ASSUME IInv, Outside
    PROVE  IInv'
<1>1. UNCHANGED <<journal, draft, gen, prepLock, ses, home, catalog, homeLock, st, op>>
  BY DEF Outside, ReplaceRoot, RewriteRecord, ChangeSupply, prepVars, catalogVars
<1>2. inst' \in [Paths -> Instances] /\ fresh' \in Nat /\ supply' \in Nat
  <2>1. inst \in [Paths -> Instances] /\ fresh \in Nat /\ supply \in Nat
    BY DEF IInv, Types, CatalogTypes, PreparationTypes
  <2>2. CASE ChangeSupply
    BY <2>1, <2>2 DEF ChangeSupply, catalogVars
  <2>3. ASSUME NEW path \in Paths, ReplaceRoot(path), UNCHANGED prepVars
        PROVE  inst' \in [Paths -> Instances] /\ fresh' \in Nat /\ supply' \in Nat
    <3>1. fresh' \in Nat /\ fresh' # 0 /\ supply' = supply
      BY <2>1, <2>3 DEF ReplaceRoot, prepVars
    <3>2. [ident |-> fresh', bind |-> fresh'] \in Instances
      BY <3>1 DEF Instances, Roots
    <3>3. inst' = [inst EXCEPT ![path] = [ident |-> fresh', bind |-> fresh']]
      BY <2>3 DEF ReplaceRoot
    <3> QED
      BY <2>1, <3>1, <3>2, <3>3
  <2>4. ASSUME NEW path \in Paths, RewriteRecord(path), UNCHANGED prepVars
        PROVE  inst' \in [Paths -> Instances] /\ fresh' \in Nat /\ supply' \in Nat
    <3>1. fresh' \in Nat /\ fresh' # 0 /\ supply' = supply
      BY <2>1, <2>4 DEF RewriteRecord, prepVars
    <3>2. inst[path] \in Roots /\ inst[path].ident # 0
      BY <2>1, <2>4 DEF RewriteRecord, Instances
    <3>3. [inst[path] EXCEPT !.bind = fresh'] \in Instances
      BY <3>1, <3>2 DEF Instances, Roots
    <3>4. inst' = [inst EXCEPT ![path] = [inst[path] EXCEPT !.bind = fresh']]
      BY <2>4 DEF RewriteRecord
    <3> QED
      BY <2>1, <3>1, <3>3, <3>4
  <2> QED
    BY <2>2, <2>3, <2>4 DEF Outside
<1>3. CatalogInv'
  <2>1. \A q \in Procs : CallInv(q)'
    BY <1>1, BystanderCall DEF IInv, CatalogInv
  <2> QED
    BY <1>1, <2>1 DEF IInv, CatalogInv, OneMaker, At, Distinct, Bindings
<1>4. PreparationInv'
  <2>1. \A q \in Procs : SesInv(q)'
    BY <1>1, IdleSession DEF IInv, PreparationInv
  <2> QED
    BY <1>1, <2>1 DEF IInv, PreparationInv, ReviewIsWhole, NextRevisionFree, Bound, CheckLayout, CheckDraft
<1>5. CatalogTypes' /\ PreparationTypes' /\ OpInv'
  BY <1>1, <1>2 DEF IInv, Types, CatalogTypes, PreparationTypes, OpInv, Registered
<1> QED
  BY <1>3, <1>4, <1>5 DEF IInv, Types

-----------------------------------------------------------------------------
(* The invariant.                                                          *)

LEMMA Initially == Init => IInv
<1> SUFFICES ASSUME Init PROVE IInv
  OBVIOUS
<1>1. /\ catalog = {} /\ st = [p \in Procs |-> Idle] /\ ses = [p \in Procs |-> NoSession]
      /\ fresh = 1 /\ supply = 1 /\ home \in {"absent", "whole"}
      /\ inst = [path \in Paths |-> IF path = Mine THEN Absent ELSE [ident |-> 1, bind |-> 1]]
  BY DEF Init
<1>2. Idle \in Calls /\ Idle.at = "idle" /\ Idle.cur = FALSE
  BY RecordsAreTyped DEF Idle
<1>3. CatalogTypes
  <2>1. Absent \in Instances /\ [ident |-> 1, bind |-> 1] \in Instances
    BY DEF Absent, Instances, Roots
  <2> QED
    BY <1>1, <1>2, <2>1 DEF CatalogTypes
<1>4. CatalogInv
  BY <1>1, <1>2 DEF CatalogInv, CallInv, Distinct, Bindings, OneMaker, Current, Locked, Housed, Aimed, Refreshing,
     At, Saving
<1>5. \A p \in Procs : SesInv(p)
  <2>1. /\ "idle" \notin Held /\ "idle" \notin Preparing /\ "idle" \notin {"field"} \cup Generating
        /\ "idle" \notin Generating
    BY DEF Held, Working, Preparing, Generating
  <2> QED
    BY <1>1, <1>2, <2>1, RecordsAreTyped DEF SesInv, Stored, Writer, Withdrawn, Prepared, Written, Inspected, At
<1>6. CASE journal = NoJournal /\ draft = 0 /\ op = NoOp /\ gen = [r \in 1 .. MaxRev |-> NoFiles]
  <2>1. PreparationTypes
    BY <1>1, <1>6, RecordsAreTyped DEF PreparationTypes
  <2>2. ReviewIsWhole /\ NextRevisionFree
    BY <1>6 DEF ReviewIsWhole, NextRevisionFree, NoJournal
  <2>3. OpInv
    BY <1>6 DEF OpInv, Registered, NoOp
  <2> QED
    BY <1>3, <1>4, <1>5, <2>1, <2>2, <2>3 DEF IInv, Types, PreparationInv
<1>7. ASSUME NEW a \in Answers, NEW i \in Inputs, CheckLayout(a, i),
             journal = [inputs |-> i, rev |-> 1,
                        review |-> [rev |-> 1, inputs |-> i, product |-> a, hashed |-> 1, seen |-> 1]],
             draft = a, op = [NoOp EXCEPT !.src = journal.review, !.phase = "new"],
             gen = [r \in 1 .. MaxRev |-> IF r = 1 THEN [product |-> a, native |-> a] ELSE NoFiles]
      PROVE  IInv
  <2>1. a \in Nat /\ i \in Nat
    BY Constants
  <2>2. /\ journal \in Journals /\ journal.rev = 1 /\ journal.inputs = i
        /\ journal.review \in Reviews /\ journal.review.rev = 1 /\ journal.review.inputs = i
        /\ journal.review.product = a
    BY <1>7, <2>1 DEF Journals, Reviews
  <2>3. op \in Operations /\ op.root = 0 /\ op.phase = "new"
    BY <1>7, <2>2, RecordsAreTyped DEF NoOp, Operations
  <2>4. gen \in [1 .. MaxRev -> Files]
    BY <1>7, <2>1, RecordsAreTyped DEF Files
  <2>5. PreparationTypes
    BY <1>1, <1>7, <2>1, <2>2, <2>3, <2>4, RecordsAreTyped DEF PreparationTypes
  <2>6. 1 \in 1 .. MaxRev => gen[1] = [product |-> a, native |-> a]
    BY <1>7
  <2>7. NextRevisionFree
    BY <1>7, <2>2 DEF NextRevisionFree
  <2>8. OpInv
    BY <2>3 DEF OpInv, Registered
  <2>9. ReviewIsWhole
    BY <1>7, <2>2, <2>6, Constants DEF ReviewIsWhole, Bound
  <2> QED
    BY <1>3, <1>4, <1>5, <2>5, <2>7, <2>8, <2>9 DEF IInv, Types, PreparationInv
<1> QED
  BY <1>6, <1>7 DEF Init

\* The inductive invariant.
THEOREM Invariance == Spec => []IInv
<1>1. IInv /\ [Next]_vars => IInv'
  <2> SUFFICES ASSUME IInv, [Next]_vars PROVE IInv'
    OBVIOUS
  <2>1. CASE UNCHANGED vars
    <3>1. UNCHANGED <<journal, draft, gen, supply, prepLock, ses, home, catalog, inst, fresh, homeLock, st, op>>
      BY <2>1 DEF vars, prepVars, catalogVars
    <3>2. CatalogInv'
      <4>1. \A q \in Procs : CallInv(q)'
        BY <3>1, BystanderCall DEF IInv, CatalogInv
      <4> QED
        BY <3>1, <4>1 DEF IInv, CatalogInv, OneMaker, At, Distinct, Bindings
    <3>3. PreparationInv'
      <4>1. \A q \in Procs : SesInv(q)'
        BY <3>1, IdleSession DEF IInv, PreparationInv
      <4> QED
        BY <3>1, <4>1 DEF IInv, PreparationInv, ReviewIsWhole, NextRevisionFree, Bound, CheckLayout, CheckDraft
    <3>4. CatalogTypes' /\ PreparationTypes' /\ OpInv'
      BY <3>1 DEF IInv, Types, CatalogTypes, PreparationTypes, OpInv, Registered
    <3> QED
      BY <3>2, <3>3, <3>4 DEF IInv, Types
  <2> QED
    BY <2>1, OutsideKeeps, CatalogStepKeeps, PreparationStepKeeps, ApplyStepKeeps DEF Next
<1> QED
  BY <1>1, Initially, PTL DEF Spec

-----------------------------------------------------------------------------
(* The properties.                                                         *)

\* A stored review is whole after every crash and failed save: of the journal's own
\* revision and inputs, with the stored answers and both of its files.
THEOREM ReviewStaysWhole == Spec => []ReviewIsWhole
<1>1. IInv => ReviewIsWhole
  BY DEF IInv, PreparationInv
<1> QED
  BY <1>1, Invariance, PTL

\* No file of a revision beyond the journal's exists, so an attempt that was cut short
\* never stands in the way of the next.
THEOREM RetryIsPossible == Spec => []NextRevisionFree
<1>1. IInv => NextRevisionFree
  BY DEF IInv, PreparationInv
<1> QED
  BY <1>1, Invariance, PTL

\* An inspection without the lock reports a journal and a draft that belong together.
THEOREM InspectionIsSnapshot == Spec => []InspectionFits
<1>1. IInv => InspectionFits
  BY DEF IInv, PreparationInv, SesInv, Inspected, Fitting, InspectionFits, At
<1> QED
  BY <1>1, Invariance, PTL

-----------------------------------------------------------------------------
(* The approval.  Between the answer and the registration a process keeps what was shown, *)
(* and from its look at the origin on the operation is of that, whatever other processes  *)
(* prepare, create or kill meanwhile.                                                     *)

Answered == {"create_op", "start", "run", "verify"}
Agreed(p) ==
    /\ st[p].at \in Answered => ses[p].yes = Source(p)
    /\ st[p].at \in {"start", "run", "verify"} => Existing
    /\ st[p].at \in {"run", "verify"} => op.src = Source(p)
AInv == RegisteredAsApproved /\ \A p \in Procs : Agreed(p)

\* What a step of one process leaves to the others.
Undisturbed(p) ==
    \A q \in Procs \ {p} : /\ st'[q].at = st[q].at
                            /\ ses'[q].j = ses[q].j /\ ses'[q].yes = ses[q].yes

LEMMA OthersAgree ==
    ASSUME AInv, NEW p \in Procs, Undisturbed(p), Existing => Existing' /\ op'.src = op.src
    PROVE  \A q \in Procs \ {p} : Agreed(q)'
BY DEF AInv, Agreed, Undisturbed, Source

LEMMA GoneOn ==
    ASSUME IInv, NEW p \in Procs, NEW c, Go(p, c)
    PROVE  st'[p] = c /\ \A q \in Procs \ {p} : st'[q] = st[q]
BY DEF IInv, Types, CatalogTypes, Go

LEMMA KeptOn ==
    ASSUME IInv, NEW p \in Procs, NEW s, Keep(p, s)
    PROVE  ses'[p] = s /\ \A q \in Procs \ {p} : ses'[q] = ses[q]
BY DEF IInv, Types, PreparationTypes, Keep

LEMMA Published ==
    ASSUME IInv, NEW p \in Procs, NEW s, PublishJournal(p, s) \/ PublishDraft(p, s)
    PROVE  \A q \in Procs \ {p} : ses'[q].j = ses[q].j /\ ses'[q].yes = ses[q].yes
<1>1. \A q \in Procs : ses[q] \in Sessions
  BY DEF IInv, Types, PreparationTypes
<1>2. \A q \in Procs : /\ [ses[q] EXCEPT !.jcur = FALSE].j = ses[q].j
                        /\ [ses[q] EXCEPT !.jcur = FALSE].yes = ses[q].yes
                        /\ [ses[q] EXCEPT !.dcur = FALSE].j = ses[q].j
                        /\ [ses[q] EXCEPT !.dcur = FALSE].yes = ses[q].yes
  BY <1>1 DEF Sessions
<1> QED
  BY <1>2 DEF PublishJournal, PublishDraft

LEMMA StepAt ==
    ASSUME IInv, NEW p \in Procs, NEW a, Step(p, a)
    PROVE  st'[p].at = a /\ \A q \in Procs \ {p} : st'[q] = st[q]
<1>1. st[p] \in Calls /\ st \in [Procs -> Calls]
  BY DEF IInv, Types, CatalogTypes
<1>2. [st[p] EXCEPT !.at = a].at = a
  BY <1>1 DEF Calls
<1> QED
  BY <1>1, <1>2 DEF Step, Go

LEMMA IdleAt ==
    ASSUME IInv, NEW p \in Procs, NEW a, Go(p, [Idle EXCEPT !.at = a])
    PROVE  st'[p].at = a /\ \A q \in Procs \ {p} : st'[q] = st[q]
<1>1. [Idle EXCEPT !.at = a].at = a
  BY DEF Idle
<1> QED
  BY <1>1, GoneOn

\* Nothing that a preparation's own steps do is seen by an approved run.
Aside(p) == Undisturbed(p) /\ st'[p].at \notin Answered

LEMMA AsideIs ==
    ASSUME IInv, NEW p \in Procs, NEW a, a \notin Answered,
           Step(p, a) \/ Go(p, [Idle EXCEPT !.at = a]),
           \A q \in Procs \ {p} : ses'[q].j = ses[q].j /\ ses'[q].yes = ses[q].yes
    PROVE  Aside(p)
BY StepAt, IdleAt DEF Aside, Undisturbed

LEMMA SaveAside ==
    ASSUME IInv, NEW p \in Procs, NEW next, NEW s, NEW at, at \notin Answered, Save(p, next, s, at)
    PROVE  Aside(p)
<1>1. \E t : PublishJournal(p, t)
  BY DEF Save
<1>2. Step(p, at) \/ Menu(p)
  BY DEF Save
<1>3. "menu" \notin Answered
  BY DEF Answered
<1> QED
  BY <1>1, <1>2, <1>3, Published, AsideIs DEF Menu

LEMMA PreparationAside ==
    ASSUME IInv, NEW p \in Procs, PreparationStep(p)
    PROVE  Aside(p) /\ UNCHANGED op
<1>a. UNCHANGED op
  BY DEF PreparationStep
<1>b. SUFFICES Aside(p)
  BY <1>a
<1>1. /\ "menu" \notin Answered /\ "field" \notin Answered /\ "reserve" \notin Answered
      /\ "product" \notin Answered /\ "native" \notin Answered /\ "bind" \notin Answered
      /\ "observe" \notin Answered /\ "record" \notin Answered /\ "inspect" \notin Answered
      /\ "confirm" \notin Answered /\ "reread" \notin Answered /\ "reported" \notin Answered
      /\ "done" \notin Answered /\ "apply" \notin Answered
  BY DEF Answered
<1>2. CASE Create(p)
  <2>1. Menu(p) \/ Done(p)
    BY <1>2 DEF Create
  <2>2. \A q \in Procs \ {p} : ses'[q] = ses[q]
    BY <1>2, KeptOn DEF Create
  <2> QED
    BY <1>1, <2>1, <2>2, AsideIs DEF Menu, Done
<1>3. CASE Resume(p, "menu") \/ Resume(p, "apply")
  <2>1. \A q \in Procs \ {p} : ses'[q] = ses[q]
    BY <1>3, KeptOn DEF Resume
  <2>2. Go(p, [Idle EXCEPT !.at = "menu"]) \/ Go(p, [Idle EXCEPT !.at = "apply"])
    BY <1>3 DEF Resume, Begin
  <2> QED
    BY <1>1, <2>1, <2>2, AsideIs
<1>4. ASSUME NEW v, SetInputs(p, v) PROVE Aside(p)
  BY <1>1, <1>4, SaveAside DEF SetInputs
<1>5. ASSUME NEW v, SetField(p, v) \/ SelectNode(p, v) PROVE Aside(p)
  <2> DEFINE s == [ses[p] EXCEPT !.want = v]
  <2>1. SetField(p, v)
    BY <1>5 DEF SelectNode
  <2>2. Save(p, [s.j EXCEPT !.review = NoReview], s, "field") \/ (Keep(p, s) /\ Step(p, "field"))
    BY <2>1 DEF SetField
  <2> HIDE DEF s
  <2>3. CASE Keep(p, s) /\ Step(p, "field")
    BY <1>1, <2>3, KeptOn, AsideIs
  <2> QED
    BY <1>1, <2>2, <2>3, SaveAside
<1>6. CASE SaveDraft(p)
  <2>1. Menu(p) /\ \E s : PublishDraft(p, s)
    BY <1>6 DEF SaveDraft
  <2> QED
    BY <1>1, <2>1, Published, AsideIs DEF Menu
<1>7. CASE Reserve(p) \/ RecordReview(p)
  BY <1>1, <1>7, SaveAside DEF Reserve, RecordReview
<1>8. CASE PrepareBegin(p) \/ Observe(p) \/ InspectDraft(p)
  <2>1. \E s : Keep(p, s)
    BY <1>8 DEF PrepareBegin, Observe, InspectDraft
  <2>2. Step(p, "reserve") \/ Step(p, "record") \/ Step(p, "confirm")
    BY <1>8 DEF PrepareBegin, Observe, InspectDraft
  <2> QED
    BY <1>1, <2>1, <2>2, KeptOn, AsideIs
<1>9. CASE WriteProduct(p) \/ WriteNative(p) \/ BindPlan(p) \/ InspectAgain(p) \/ InspectReport(p)
  <2>1. ses' = ses
    BY <1>9 DEF WriteProduct, WriteNative, BindPlan, InspectAgain, InspectReport
  <2>2. \/ Step(p, "native") \/ Step(p, "bind") \/ Step(p, "observe")
        \/ Step(p, "reread") \/ Step(p, "reported") \/ Done(p)
    BY <1>9 DEF WriteProduct, WriteNative, BindPlan, InspectAgain, InspectReport
  <2> QED
    BY <1>1, <2>1, <2>2, AsideIs DEF Done
<1>10. CASE StepFails(p)
  <2>1. Menu(p) /\ \E s : Keep(p, s)
    BY <1>10 DEF StepFails, Back
  <2> QED
    BY <1>1, <2>1, KeptOn, AsideIs DEF Menu
<1>11. CASE InspectJournal(p)
  <2>1. /\ Go(p, [Idle EXCEPT !.at = "inspect"])
        /\ \E s : Keep(p, s)
    BY <1>11 DEF InspectJournal, Begin
  <2> QED
    BY <1>1, <2>1, KeptOn, AsideIs
<1> QED
  BY <1>2, <1>3, <1>4, <1>5, <1>6, <1>7, <1>8, <1>9, <1>10, <1>11 DEF PreparationStep

LEMMA CatalogAside ==
    ASSUME IInv, NEW p \in Procs, CatalogStep(p)
    PROVE  Aside(p) /\ UNCHANGED op
<1>1. UNCHANGED <<ses, op>> /\ st \in [Procs -> Calls]
  BY DEF CatalogStep, IInv, Types, CatalogTypes
<1> DEFINE Away == st'[p].at \notin Answered /\ \A q \in Procs \ {p} : st'[q].at = st[q].at
<1>2. SUFFICES Away
  BY <1>1 DEF Aside, Undisturbed
<1>3. /\ \A a \in {"done", "open", "mkhome", "choose", "create", "lock", "pin", "save"} : a \notin Answered
      /\ \A o \in Ops : o \in DOMAIN Opened => Opened[o] \in {"pin", "choose", "create"}
  BY DEF Answered, Opened
<1>4. CASE Done(p)
  BY <1>3, <1>4, IdleAt DEF Done
<1>5. ASSUME NEW o, NEW n, NEW path, Resolve(p, o, n, path) PROVE Away
  <2> DEFINE c == [Idle EXCEPT !.at = "open", !.op = o, !.name = n, !.path = path, !.snap = Inspect(path)]
  <2>1. Go(p, c) /\ c.at = "open"
    BY <1>5 DEF Resolve, Begin, Idle
  <2> HIDE DEF c
  <2> QED
    BY <1>3, <2>1, GoneOn
<1>6. ASSUME NEW o, Console(p, o) PROVE Away
  <2> DEFINE c == [Idle EXCEPT !.at = "open", !.op = o]
  <2>1. Go(p, c) /\ c.at = "open"
    BY <1>6 DEF Console, Begin, Idle
  <2> HIDE DEF c
  <2> QED
    BY <1>3, <2>1, GoneOn
<1>7. ASSUME NEW c, Go(p, c), c.at \notin Answered
      PROVE  Away
  BY <1>7, GoneOn
<1>8. CASE OpenCatalog(p) /\ ~Done(p)
  <2>1. st[p] \in Calls /\ At(p, "open")
    BY <1>1, <1>8 DEF OpenCatalog
  <2>2. st[p].op \in {"named", "add", "remove", "refresh", "new"}
    BY <2>1 DEF IInv, CatalogInv, CallInv, Aimed, At, Calls, Ops
  <2>3. \A b, d : LET c == [st[p] EXCEPT !.at = Opened[st[p].op], !.cat = b, !.cur = d] IN c.at \notin Answered
    BY <1>3, <2>1, <2>2 DEF Calls, Opened, Ops
  <2>4. [st[p] EXCEPT !.at = "mkhome"].at \notin Answered
    BY <1>3, <2>1 DEF Calls
  <2>5. \/ \E b, d : Go(p, [st[p] EXCEPT !.at = Opened[st[p].op], !.cat = b, !.cur = d])
        \/ Go(p, [st[p] EXCEPT !.at = "mkhome"])
    BY <1>8 DEF OpenCatalog
  <2> QED
    BY <1>7, <2>3, <2>4, <2>5
<1>9. CASE MakeHome(p)
  <2>1. Step(p, "open")
    BY <1>9 DEF MakeHome, Step
  <2> QED
    BY <1>3, <2>1, StepAt
<1>10. CASE Choose(p) /\ ~Done(p)
  <2> DEFINE to == IF st[p].op = "remove" THEN "lock" ELSE "pin"
  <2>1. PICK e \in st[p].cat :
            Go(p, [st[p] EXCEPT !.at = to, !.path = e.path,
                                !.snap = [ident |-> e.ident, bind |-> e.bind]])
    BY <1>10 DEF Choose
  <2>2. to \in {"lock", "pin"}
    OBVIOUS
  <2> HIDE DEF to
  <2>3. [st[p] EXCEPT !.at = to, !.path = e.path,
                      !.snap = [ident |-> e.ident, bind |-> e.bind]].at = to
    BY <1>1 DEF Calls
  <2> QED
    BY <1>3, <1>7, <2>1, <2>2, <2>3
<1>11. CASE Pin(p) /\ ~Done(p)
  <2>1. Go(p, [st[p] EXCEPT !.at = "lock", !.snap = Inspect(st[p].path)])
    BY <1>11 DEF Pin
  <2>2. [st[p] EXCEPT !.at = "lock", !.snap = Inspect(st[p].path)].at = "lock"
    BY <1>1 DEF Calls
  <2> QED
    BY <1>3, <1>7, <2>1, <2>2
<1>12. CASE LockHome(p) /\ ~Done(p)
  <2>1. Step(p, "save")
    BY <1>12 DEF LockHome, Step
  <2> QED
    BY <1>3, <2>1, StepAt
<1>13. CASE SaveEntries(p) /\ ~Done(p)
  <2>1. st' = [x \in Procs |-> IF x = p THEN [Idle EXCEPT !.at = "done"] ELSE [st[x] EXCEPT !.cur = FALSE]]
    BY <1>13 DEF SaveEntries
  <2>2. [Idle EXCEPT !.at = "done"].at = "done" /\ \A q \in Procs : [st[q] EXCEPT !.cur = FALSE].at = st[q].at
    BY <1>1 DEF Idle, Calls
  <2> QED
    BY <1>3, <2>1, <2>2
<1> QED
  BY <1>4, <1>5, <1>6, <1>8, <1>9, <1>10, <1>11, <1>12, <1>13 DEF CatalogStep, OpenPath, AddNode

\* A step that has nothing to do with the approval.
LEMMA AsideAgrees ==
    ASSUME AInv, NEW p \in Procs, Aside(p), UNCHANGED op
    PROVE  AInv'
<1>1. Agreed(p)'
  BY DEF Aside, Agreed, Answered
<1>2. \A q \in Procs \ {p} : Agreed(q)'
  BY OthersAgree DEF Aside, Existing
<1> QED
  BY <1>1, <1>2 DEF AInv, RegisteredAsApproved

\* A step of `apply` that leaves every session as it is.
LEMMA ApplyAgrees ==
    ASSUME AInv, IInv, NEW p \in Procs, ses' = ses, NEW c, Go(p, c),
           Existing => Existing' /\ op'.src = op.src,
           Agreed(p)', RegisteredAsApproved'
    PROVE  AInv'
<1>1. Undisturbed(p)
  BY GoneOn DEF Undisturbed
<1> QED
  BY <1>1, OthersAgree DEF AInv

LEMMA ApplyStepAgrees ==
    ASSUME IInv, AInv, NEW p \in Procs, ApplyStep(p)
    PROVE  AInv'
<1> USE DEF At
<1>1. op \in Operations /\ RegisteredAsApproved /\ Agreed(p) /\ st[p] \in Calls /\ ses[p] \in Sessions
  BY DEF IInv, Types, CatalogTypes, PreparationTypes, AInv
<1>2. {"done", "prompt", "idle", "pin"} \cap Answered = {}
  BY DEF Answered
<1>3. CASE Done(p) /\ UNCHANGED <<ses, op>>
  BY <1>2, <1>3, AsideIs, AsideAgrees DEF Done
<1>4. CASE ApplyBegin(p) /\ ~Done(p)
  <2> DEFINE c == [st[p] EXCEPT !.at = "prompt", !.cat = catalog, !.cur = TRUE]
  <2>1. Go(p, c) /\ c.at = "prompt" /\ UNCHANGED <<ses, op>>
    BY <1>1, <1>4 DEF ApplyBegin, Calls
  <2> HIDE DEF c
  <2>2. Aside(p)
    BY <1>2, <2>1, GoneOn DEF Aside, Undisturbed
  <2> QED
    BY <2>1, <2>2, AsideAgrees
<1>5. CASE Approve(p)
  <2> DEFINE s == [ses[p] EXCEPT !.yes = Source(p)]
  <2>1. Keep(p, s) /\ s.yes = Source(p) /\ s.j = ses[p].j /\ UNCHANGED op
    BY <1>1, <1>5 DEF Approve, Sessions
  <2> HIDE DEF s
  <2>2. ses'[p] = s /\ \A q \in Procs \ {p} : ses'[q] = ses[q]
    BY <2>1, KeptOn
  <2>3. st'[p].at \in {"create_op", "done"} /\ \A q \in Procs \ {p} : st'[q] = st[q]
    BY <1>5, StepAt, IdleAt DEF Approve, Done
  <2>4. Agreed(p)'
    BY <2>1, <2>2, <2>3 DEF Agreed, Source
  <2>5. \A q \in Procs \ {p} : Agreed(q)'
    BY <2>1, <2>2, <2>3, OthersAgree DEF Undisturbed, Existing
  <2> QED
    BY <1>1, <2>1, <2>4, <2>5 DEF AInv, RegisteredAsApproved
<1>6. CASE CreateOperation(p) /\ ~Done(p)
  <2>1. /\ Step(p, "start") /\ ses' = ses /\ st[p].at = "create_op"
        /\ op' = IF Existing THEN op ELSE [NoOp EXCEPT !.src = Source(p), !.phase = "new"]
    BY <1>6 DEF CreateOperation
  <2>2. CASE Existing
    <3>1. op' = op
      BY <2>1, <2>2
    <3>2. Agreed(p)'
      BY <1>1, <2>1, <2>2, <3>1, StepAt DEF Agreed, Answered, Source, Existing
    <3> QED
      BY <1>1, <2>1, <2>2, <3>1, <3>2, ApplyAgrees DEF Step, RegisteredAsApproved, Existing
  <2>3. CASE ~Existing
    <3>1. op'.phase = "new" /\ op'.root = 0 /\ NoOp.phase = "none"
      BY <2>1, <2>3 DEF NoOp
    <3>2. Existing'
      BY <3>1 DEF Existing, NoOp
    <3>3. Agreed(p)'
      BY <1>1, <2>1, <3>2, StepAt DEF Agreed, Answered, Source
    <3> QED
      BY <2>1, <2>3, <3>1, <3>3, ApplyAgrees DEF Step, RegisteredAsApproved
  <2> QED
    BY <2>2, <2>3
<1>7. CASE Start(p)
  <2>1. /\ Step(p, "run") /\ ses' = ses /\ st[p].at = "start" /\ op.src = Source(p)
        /\ op' = IF op.phase = "new" THEN [op EXCEPT !.phase = "planned"] ELSE op
    BY <1>7 DEF Start, CheckOrigin
  <2>2. op'.src = op.src /\ op'.root = op.root /\ op'.approved = op.approved
    BY <1>1, <2>1 DEF Operations
  <2>3. Existing'
    <3>1. Existing
      BY <1>1, <2>1 DEF Agreed
    <3>2. [op EXCEPT !.phase = "planned"].phase = "planned" /\ NoOp.phase = "none"
      BY <1>1 DEF Operations, NoOp
    <3> QED
      BY <2>1, <3>1, <3>2 DEF Existing, NoOp
  <2>4. Agreed(p)'
    BY <1>1, <2>1, <2>2, <2>3, StepAt DEF Agreed, Answered, Source
  <2> QED
    BY <1>1, <2>1, <2>2, <2>3, <2>4, ApplyAgrees DEF Step, RegisteredAsApproved
<1>8. ASSUME st[p].at = "run", ses' = ses, NEW c, Go(p, c), c.at \in {"verify", "done"},
             NEW f \in {"registered", "unknown"}, NEW n \in Nat,
             op' = [op EXCEPT !.phase = f, !.root = n, !.approved = ses[p].yes]
      PROVE  AInv'
  <2>1. op'.src = op.src /\ op'.approved = ses[p].yes /\ op'.phase = f /\ NoOp.phase = "none"
    BY <1>1, <1>8 DEF Operations, NoOp
  <2>2. Existing'
    BY <2>1 DEF Existing, NoOp
  <2>3. ses[p].yes = Source(p) /\ op.src = Source(p)
    BY <1>1, <1>8 DEF Agreed, Answered
  <2>4. Agreed(p)'
    BY <1>8, <2>1, <2>2, <2>3, GoneOn DEF Agreed, Answered, Source
  <2>5. RegisteredAsApproved'
    BY <2>1, <2>3 DEF RegisteredAsApproved
  <2> QED
    BY <1>8, <2>1, <2>2, <2>4, <2>5, ApplyAgrees
<1>9. ASSUME Step(p, "verify") \/ Done(p)
      PROVE  \E c : Go(p, c) /\ c.at \in {"verify", "done"}
  <2>1. [st[p] EXCEPT !.at = "verify"].at = "verify"
    BY <1>1 DEF Calls
  <2>2. [Idle EXCEPT !.at = "done"].at = "done"
    BY DEF Idle
  <2> QED
    BY <1>9, <2>1, <2>2 DEF Step, Done
<1>10. CASE Register(p)
  <2>1. PICK f \in {"registered", "unknown"} :
          /\ op' = [op EXCEPT !.phase = f, !.root = fresh', !.approved = ses[p].yes]
          /\ Step(p, "verify") \/ Done(p)
    BY <1>10 DEF Register
  <2>2. fresh' \in Nat /\ ses' = ses /\ st[p].at = "run"
    BY <1>10 DEF Register, IInv, Types, CatalogTypes
  <2> QED
    BY <1>8, <1>9, <2>1, <2>2
<1>11. CASE Reconcile(p)
  <2>1. op' = [op EXCEPT !.phase = "registered", !.root = op.root, !.approved = ses[p].yes]
    BY <1>1, <1>11 DEF Reconcile, Operations
  <2>2. op.root \in Nat /\ ses' = ses /\ st[p].at = "run" /\ Step(p, "verify")
    BY <1>1, <1>11 DEF Reconcile, Operations
  <2> QED
    BY <1>8, <1>9, <2>1, <2>2
<1>12. CASE Verify(p)
  <2> DEFINE c == [st[p] EXCEPT !.at = "pin", !.op = "named", !.name = Own, !.path = Mine, !.snap = inst[Mine]]
  <2>1. Go(p, c) /\ c.at = "pin" /\ UNCHANGED <<ses, op>>
    BY <1>1, <1>12 DEF Verify, Calls
  <2> HIDE DEF c
  <2>2. Aside(p)
    BY <1>2, <2>1, GoneOn DEF Aside, Undisturbed
  <2> QED
    BY <2>1, <2>2, AsideAgrees
<1>13. CASE Leave(p)
  <2>1. Go(p, Idle) /\ Keep(p, NoSession) /\ UNCHANGED op /\ Idle.at = "idle"
    BY <1>13 DEF Leave, Idle
  <2>2. Aside(p)
    BY <1>2, <2>1, GoneOn, KeptOn DEF Aside, Undisturbed
  <2> QED
    BY <2>1, <2>2, AsideAgrees
<1>14. CASE Decline(p) \/ ApplyFails(p)
  BY <1>3, <1>14 DEF Decline, ApplyFails
<1>15. CASE ApplyBegin(p) /\ Done(p)
  BY <1>3, <1>15 DEF ApplyBegin
<1>16. CASE CreateOperation(p) /\ Done(p)
  <2>1. ses' = ses /\ (Step(p, "start") \/ UNCHANGED op)
    BY <1>16 DEF CreateOperation
  <2>2. st'[p].at = "done"
    BY <1>16, IdleAt DEF Done
  <2>3. ~Step(p, "start")
    BY <2>2, StepAt
  <2> QED
    BY <1>3, <1>16, <2>1, <2>3
<1> QED
  BY <1>4, <1>5, <1>6, <1>7, <1>10, <1>11, <1>12, <1>13, <1>14, <1>15, <1>16 DEF ApplyStep, Exit, Kill

LEMMA AgreedInitially == Init => AInv
<1> SUFFICES ASSUME Init PROVE AInv
  OBVIOUS
<1>1. op = NoOp \/ op = [NoOp EXCEPT !.src = journal.review, !.phase = "new"]
  BY DEF Init
<1>2. op.root = 0
  <2>1. NoOp.root = 0 /\ \A r : [NoOp EXCEPT !.src = r, !.phase = "new"].root = 0
    BY DEF NoOp
  <2> QED
    BY <1>1, <2>1
<1>3. \A p \in Procs : st[p].at = "idle"
  BY DEF Init, Idle
<1> QED
  BY <1>2, <1>3 DEF AInv, Agreed, Answered, RegisteredAsApproved

LEMMA AgreementStays ==
    IInv /\ AInv /\ [Next]_vars => AInv'
<1> SUFFICES ASSUME IInv, AInv, [Next]_vars PROVE AInv'
  OBVIOUS
<1>1. CASE UNCHANGED <<st, ses, op>>
  BY <1>1 DEF AInv, Agreed, RegisteredAsApproved, Source, Existing
<1>2. CASE Outside \/ UNCHANGED vars
  BY <1>1, <1>2 DEF Outside, ReplaceRoot, RewriteRecord, ChangeSupply, vars
<1>3. ASSUME NEW p \in Procs, CatalogStep(p) \/ PreparationStep(p) PROVE AInv'
  BY <1>3, CatalogAside, PreparationAside, AsideAgrees
<1> QED
  BY <1>2, <1>3, ApplyStepAgrees DEF Next

\* The instance that was registered was made from the review that the prompt showed in the
\* run that recorded it, however many runs, edits and deaths lay between its operation and
\* that run.
THEOREM ApprovalIsKept == Spec => []RegisteredAsApproved
<1>1. Init => AInv
  BY AgreedInitially
<1>2. IInv /\ AInv /\ [Next]_vars => AInv'
  BY AgreementStays
<1>3. AInv => RegisteredAsApproved
  BY DEF AInv
<1> QED
  BY <1>1, <1>2, <1>3, Invariance, PTL DEF Spec

\* No save of any process, with whatever it remembers, moves a name.
THEOREM NamesStay == Spec => NameStable
<1>1. ASSUME IInv, [Next]_vars, catalog' # catalog PROVE Stable(catalog, catalog')
  <2>1. ASSUME NEW p \in Procs, SaveEntries(p) PROVE Stable(catalog, catalog')
    <3>1. At(p, "save") /\ catalog' = Wanted(st[p])
      BY <1>1, <2>1 DEF SaveEntries
    <3> QED
      BY <1>1, <3>1, WantedIsStable
  <2>2. ASSUME NEW p \in Procs, MakeHome(p) PROVE Stable(catalog, catalog')
    BY <2>2 DEF MakeHome, Stable
  <2>3. ASSUME NEW p \in Procs, CatalogStep(p) PROVE SaveEntries(p) \/ MakeHome(p)
    BY <1>1, <2>3 DEF CatalogStep, OpenPath, AddNode, Resolve, Console, OpenCatalog, Choose, Pin, LockHome, catalogVars
  <2>4. ASSUME NEW p \in Procs, PreparationStep(p) PROVE catalog' = catalog
    <3>1. ASSUME NEW v, SetField(p, v) \/ SelectNode(p, v) \/ SetInputs(p, v) PROVE catalog' = catalog
      BY <3>1 DEF SetField, SelectNode, SetInputs, Save, catalogVars
    <3> QED
      BY <2>4, <3>1 DEF PreparationStep, Create, Resume, SaveDraft, PrepareBegin, Reserve, Save, WriteProduct,
         WriteNative, BindPlan, Observe, RecordReview, StepFails, Back, InspectJournal, InspectDraft, InspectAgain,
         InspectReport, catalogVars
  <2>5. ASSUME NEW p \in Procs, ApplyStep(p) PROVE catalog' = catalog
    BY <2>5 DEF ApplyStep, ApplyBegin, Decline, Approve, CreateOperation, Start, Register, Reconcile, Verify,
       ApplyFails, Exit, Kill, Leave, catalogVars
  <2>6. Outside \/ UNCHANGED vars => catalog' = catalog
    BY DEF Outside, ReplaceRoot, RewriteRecord, ChangeSupply, vars, catalogVars
  <2> QED
    BY <1>1, <2>1, <2>2, <2>3, <2>4, <2>5, <2>6 DEF Next
<1>2. IInv /\ [Next]_vars => [Stable(catalog, catalog')]_catalog
  BY <1>1
<1>3. Spec => [][Stable(catalog, catalog')]_catalog
  BY <1>2, Invariance, PTL DEF Spec
<1> QED
  BY <1>3 DEF NameStable, Stable
=============================================================================
