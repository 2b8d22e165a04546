-------------------------- MODULE ManagementProofs --------------------------
(***************************************************************************)
(* Proofs about Management, for every set of processes, bundles and trust  *)
(* options and every bound.                                                *)
(*                                                                         *)
(* None of the properties is inductive.  IInv says of each call what it    *)
(* carries from one step to the next (CallInv): a bundle verified before   *)
(* the root existed or was locked, the lock from the first read to the     *)
(* end, the selection that was read and is still the current one, and the  *)
(* activation made for it.  Of the root it says that what is published was *)
(* verified and is synced, being synced, or left by a dead publisher.      *)
(***************************************************************************)
EXTENDS Management, TLAPS

SomeBundles == Bundles \cup {NoBundle}
SomeIds == Ids \cup {NoId}
Records == [rel : SomeIds, prev : SomeIds, whole : BOOLEAN]
Ops == {"install", "update", "rollback", "info"}
Ats == {"idle", "create", "lock", "again"} \cup Locked \cup Results
Calls == [at : Ats, op : Ops, b : SomeBundles, t : Offers, old : Nat, act : Nat, moved : BOOLEAN]

\* Types, as far as a step needs them, and the order of the two selections.
Types ==
    /\ rel \in [Ids -> SomeBundles]
    /\ acts \in Seq(Records)
    /\ cur \in 0 .. Len(acts) /\ curSafe \in 0 .. cur
    /\ st \in [Procs -> Calls]

\* A published release is a bundle under its own id, verified under the root's trust.
Releases == \A i \in Ids : rel[i] # NoBundle =>
    rel[i] \in Bundles /\ rel[i].id = i /\ root # NoTrust /\ Verified(rel[i], root)

\* It is synced, left by a call that died, or about to be synced.
Synced == relSafe \cup orphans
Durable ==
    /\ \A i \in relSafe : i \in Ids /\ rel[i] # NoBundle
    /\ \A i \in Ids : rel[i] # NoBundle =>
         i \in Synced \/ \E p \in Procs : st[p].at = "syncRel" /\ st[p].b.id = i

\* Both selections can be used after a power loss too.
Selections == Usable(cur, Synced) /\ Usable(curSafe, Synced)

Staging == {"stage", "staged", "publish", "syncRel"}
Activating == {"fill", "link", "switch"}

\* A call says that it selected exactly if it did.
Moved(p) == st[p].moved <=> st[p].at \in {"confirm", "CLI_ACTIVATION_UNKNOWN"} \cup Success

\* What a call brings to the root was verified under the trust it will pin or has pinned.
Carried(p) ==
    /\ st[p].at \in {"create", "lock"} \cup Locked => st[p].op # "info"
    /\ st[p].at = "create" => st[p].t # NoTrust /\ Verified(st[p].b, st[p].t) /\ st[p].b \in Bundles
    /\ st[p].at \in {"lock", "read"} \cup Staging /\ st[p].op # "rollback" =>
         root # NoTrust /\ Verified(st[p].b, root) /\ st[p].b \in Bundles
    /\ st[p].at \in Staging => st[p].op # "rollback"

LockHeld(p) == st[p].at \in Locked => lock = p

\* The selection is the one that was read, and another release is to be selected.
Chosen(p) == st[p].at \in Staging \cup {"activate"} \cup Activating =>
    st[p].b \in Bundles /\ st[p].old = cur /\ st[p].b.id # Selection(cur).rel

Published(p) ==
    /\ st[p].at = "syncRel" => rel[st[p].b.id] # NoBundle
    /\ st[p].at \in {"activate"} \cup Activating => st[p].b.id \in Synced

\* The activation was made for the present selection, and is finished when it is linked.
Ready(p) == st[p].at \in Activating =>
    /\ st[p].act \in 1 .. Len(acts) /\ cur < st[p].act
    /\ acts[st[p].act].rel = st[p].b.id
    /\ acts[st[p].act].prev = Selection(cur).rel
    /\ st[p].at # "fill" => acts[st[p].act].whole

CallInv(p) == Moved(p) /\ Carried(p) /\ LockHeld(p) /\ Chosen(p) /\ Published(p) /\ Ready(p)

IInv == Types /\ Releases /\ Durable /\ Selections /\ \A p \in Procs : CallInv(p)

-----------------------------------------------------------------------------
(* Calls and how they end.                                                 *)

LEMMA Constants ==
    /\ NoBundle \notin Bundles /\ NoId \notin Ids /\ NoTrust \in Offers
    /\ \A b \in Bundles : b.id \in Ids /\ b.id # NoId
<1>1. NoId \notin Ids /\ NoTrust \in Offers
  BY ManagementAssumption
<1>2. \A b \in Bundles : b.id \in Ids /\ b.id # NoId
  BY <1>1 DEF Ids
<1>3. NoBundle.id = NoId
  BY DEF NoBundle
<1> QED
  BY <1>1, <1>2, <1>3

\* The fields of a call, and of one that ended.
LEMMA IdleIsCall ==
    /\ Idle \in Calls /\ Idle.at = "idle" /\ Idle.moved = FALSE
    /\ Idle.op = "info" /\ Idle.b = NoBundle /\ Idle.t = NoTrust /\ Idle.old = 0
<1>1. NoBundle \in SomeBundles /\ NoTrust \in Offers /\ "idle" \in Ats /\ "info" \in Ops
  BY Constants DEF SomeBundles, Ats, Ops
<1> QED
  BY <1>1 DEF Idle, Calls

Ends == Results \cup {"idle"}

LEMMA EndsAreNoPlaces ==
    Ends \cap ({"create", "lock", "again", "confirm"} \cup Locked) = {}
BY DEF Ends, Results, Success, Locked

LEMMA EndedIsCall ==
    ASSUME NEW c \in Calls, NEW r \in Refusals \cup Results
    PROVE  /\ Ended(c, r) \in Calls /\ Ended(c, r).moved = c.moved
           /\ Ended(c, r).at = IF r \in Refusals THEN "REFUSED" ELSE r
           /\ Ended(c, r).at \in Results
<1>1. (IF r \in Refusals THEN "REFUSED" ELSE r) \in Results
  BY DEF Results
<1>2. \A s \in Results : s \in Ats
  BY DEF Ats
<1>3. /\ Ended(c, r) \in Calls /\ Ended(c, r).moved = c.moved
      /\ Ended(c, r).at = IF r \in Refusals THEN "REFUSED" ELSE r
  BY <1>1, <1>2, IdleIsCall DEF Ended, Calls
<1> QED
  BY <1>1, <1>3

-----------------------------------------------------------------------------
(* What the steps have in common.                                          *)

\* What CallInv speaks of besides the call itself.
ground == <<root, rel, relSafe, orphans, acts, cur, curSafe>>

\* Once a call has the lock, no other is at a place that depends on the selection.
LEMMA OneLocked ==
    ASSUME IInv, NEW p \in Procs, NEW q \in Procs \ {p}, st[p].at \in Locked
    PROVE  st[q].at \notin Locked
BY DEF IInv, CallInv, LockHeld

\* A call outside the lock depends only on the trust the root has pinned.
LEMMA Bystander ==
    ASSUME NEW q \in Procs, CallInv(q), st'[q] = st[q], st[q].at \notin Locked,
           root' = root \/ root = NoTrust
    PROVE  CallInv(q)'
<1>1. st[q].at \notin Staging \cup {"activate"} \cup Activating
  BY DEF Locked, Staging, Activating
<1>2. Moved(q)' /\ LockHeld(q)' /\ Chosen(q)' /\ Published(q)' /\ Ready(q)'
  BY <1>1 DEF CallInv, Moved, LockHeld, Chosen, Published, Ready, Staging
<1>3. Carried(q)'
  BY <1>1 DEF CallInv, Carried, Verified
<1> QED
  BY <1>2, <1>3 DEF CallInv

\* So does a call under the lock, as long as nothing else has changed.
LEMMA Undisturbed ==
    ASSUME NEW q \in Procs, CallInv(q), st'[q] = st[q], UNCHANGED ground, lock' = lock \/ lock # q
    PROVE  CallInv(q)'
BY DEF ground, CallInv, Moved, Carried, Verified, LockHeld, Chosen, Published, Ready, Selection, Synced

\* The rest of the invariant depends on the ground, and on who is about to sync.
LEMMA GroundKept ==
    ASSUME IInv, UNCHANGED ground, st' \in [Procs -> Calls],
           \A p \in Procs : st[p].at = "syncRel" => st'[p] = st[p]
    PROVE  Types' /\ Releases' /\ Durable' /\ Selections'
<1>1. Types' /\ Releases'
  BY DEF IInv, ground, Types, Releases, Verified
<1>2. Durable'
  BY DEF IInv, ground, Durable, Synced
<1>3. Selections'
  BY DEF IInv, ground, Selections, Usable, Synced
<1> QED
  BY <1>1, <1>2, <1>3

\* A call goes on without changing what others depend on.
LEMMA GoesOn ==
    ASSUME IInv, NEW p \in Procs, NEW c \in Calls, st' = [st EXCEPT ![p] = c],
           st[p].at # "syncRel", UNCHANGED ground,
           lock' = lock \/ lock \in {p, Nobody}, CallInv(p)'
    PROVE  IInv'
<1>1. st' \in [Procs -> Calls] /\ \A q \in Procs \ {p} : st'[q] = st[q]
  BY DEF IInv, Types
<1>2. \A q \in Procs \ {p} : lock' = lock \/ lock # q
  BY ManagementAssumption
<1>3. \A q \in Procs \ {p} : CallInv(q)'
  BY <1>1, <1>2, Undisturbed DEF IInv
<1>4. Types' /\ Releases' /\ Durable' /\ Selections'
  BY <1>1, GroundKept
<1> QED
  BY <1>3, <1>4 DEF IInv

\* A call that has ended claims nothing but whether it selected.
LEMMA EndedInv ==
    ASSUME NEW p \in Procs, NEW c, c.at \in Ends, st'[p] = c,
           c.moved <=> c.at \in {"CLI_ACTIVATION_UNKNOWN"} \cup Success
    PROVE  CallInv(p)'
<1>1. c.at \notin {"create", "lock", "confirm"} \cup Locked
  BY EndsAreNoPlaces
<1>2. c.at \notin Staging \cup {"activate", "read"} \cup Activating
  BY <1>1 DEF Locked, Staging, Activating
<1>3. Moved(p)'
  BY <1>1 DEF Moved
<1>4. Carried(p)' /\ LockHeld(p)' /\ Chosen(p)' /\ Published(p)' /\ Ready(p)'
  BY <1>1, <1>2 DEF Carried, LockHeld, Chosen, Published, Ready, Staging
<1> QED
  BY <1>3, <1>4 DEF CallInv

\* A selection that can be used stays so while releases are only added.
LEMMA UsableGrows ==
    ASSUME NEW A, NEW B, NEW a, Usable(a, A), A \subseteq B, UNCHANGED acts
    PROVE  Usable(a, B)'
BY DEF Usable

\* A call ends: a release it has published and not synced is left behind.
LEMMA Leaves ==
    ASSUME IInv, NEW p \in Procs, NEW c \in Calls, c.at \in Ends, st' = [st EXCEPT ![p] = c],
           c.moved <=> c.at \in {"CLI_ACTIVATION_UNKNOWN"} \cup Success,
           lock' = lock \/ lock = p,
           UNCHANGED <<root, rel, relSafe, acts, cur, curSafe>>,
           orphans' = IF st[p].at = "syncRel" THEN orphans \cup {st[p].b.id} ELSE orphans
    PROVE  IInv'
<1>1. st' \in [Procs -> Calls] /\ st'[p] = c /\ \A q \in Procs \ {p} : st'[q] = st[q]
  BY DEF IInv, Types
<1>2. CallInv(p)'
  BY <1>1, EndedInv
<1>3. CASE st[p].at # "syncRel"
  BY <1>2, <1>3, GoesOn DEF ground
<1>4. CASE st[p].at = "syncRel"
  <2>1. Synced \subseteq Synced' /\ st[p].b.id \in Synced'
    BY <1>4 DEF Synced
  <2>2. Types' /\ Releases'
    BY <1>1 DEF IInv, Types, Releases, Verified
  <2>3. Durable'
    BY <1>1, <2>1 DEF IInv, Durable
  <2>4. Selections'
    BY <2>1, UsableGrows DEF IInv, Selections, Usable
  <2>5. \A q \in Procs \ {p} : CallInv(q)'
    BY <1>1, <1>4, OneLocked, Bystander DEF IInv, Locked
  <2> QED
    BY <1>2, <2>2, <2>3, <2>4, <2>5 DEF IInv
<1> QED
  BY <1>3, <1>4

Refused == Refusals \cup {"UNCHANGED", "READY", "NOT_INSTALLED"}

LEMMA RefusedIsEnd ==
    ASSUME NEW c \in Calls, NEW r \in Refused, ~c.moved
    PROVE  /\ Ended(c, r) \in Calls /\ Ended(c, r).at \in Ends
           /\ Ended(c, r).moved <=> Ended(c, r).at \in {"CLI_ACTIVATION_UNKNOWN"} \cup Success
<1>1. r \in Refusals \cup Results
  BY DEF Refused, Results
<1>2. Ended(c, r).at \in {"REFUSED", "UNCHANGED", "READY", "NOT_INSTALLED"}
  BY <1>1, EndedIsCall DEF Refused
<1>3. Ended(c, r).at \notin {"CLI_ACTIVATION_UNKNOWN"} \cup Success
  BY <1>2 DEF Success
<1> QED
  BY <1>1, <1>3, EndedIsCall DEF Ends

\* A call that is refused before the switch has selected nothing.
LEMMA RefusalKeeps ==
    ASSUME IInv, NEW p \in Procs, NEW r \in Refused, End(p, r), UNCHANGED ground,
           st[p].at \in {"create", "lock", "again"} \cup (Locked \ {"syncRel", "confirm"})
    PROVE  IInv'
<1>1. st[p] \in Calls /\ ~st[p].moved
  BY DEF IInv, Types, CallInv, Moved, Locked, Success
<1>2. st' = [st EXCEPT ![p] = Ended(st[p], r)] /\ (lock' = lock \/ lock = p)
  BY DEF End, IInv, Types
<1>3. st[p].at # "syncRel"
  BY DEF Locked
<1> QED
  BY <1>1, <1>2, <1>3, RefusedIsEnd, Leaves DEF ground

\* So has one that is refused at once.
LEMMA RefusedAtOnce ==
    ASSUME IInv, NEW p \in Procs, At(p, "idle"), NEW c \in Calls, ~c.moved, NEW r \in Refused,
           st' = [st EXCEPT ![p] = Ended(c, r)], UNCHANGED <<disk, lock>>
    PROVE  IInv'
<1>1. st[p].at # "syncRel"
  BY DEF At
<1> QED
  BY <1>1, RefusedIsEnd, Leaves DEF disk

-----------------------------------------------------------------------------
(* One lemma per action: it keeps the invariant.                           *)

LEMMA OpenRefusedKeeps == ASSUME IInv, NEW p \in Procs, OpenRefused(p) PROVE IInv'
<1>1. PICK r \in Refusals : st' = [st EXCEPT ![p] = Ended(Idle, r)]
  BY DEF OpenRefused
<1> QED
  BY <1>1, IdleIsCall, RefusedAtOnce DEF OpenRefused, Refused

\* Whatever is wrong with a supply is a refusal.
LEMMA ReadingsRefuse == Readings \ {"read"} \subseteq Refused
<1>1. ASSUME NEW s \in Supplies
      PROVE  /\ Source(s) \in Refused \cup {"found"}
             /\ ReadEntries(s) \in Refused \cup {"entries"}
             /\ FromEntries(s) \in Refused \cup {"read"}
  BY DEF Source, ReadEntries, FromEntries, Refused, Refusals
<1> QED
  BY <1>1 DEF Readings, ReadBundle

\* What goes on was verified under the trust the root pinned or will pin.
LEMMA InstallBeginKeeps ==
    ASSUME IInv, NEW p \in Procs, NEW op \in {"install", "update"}, NEW b \in Bundles,
           NEW t \in Offers, InstallBegin(p, op, b, t)
    PROVE  IInv'
<1> DEFINE c == [Idle EXCEPT !.op = op, !.b = b]
           pinned == IF root = NoTrust THEN t ELSE root
<1>1. /\ c \in Calls /\ c.at = "idle" /\ ~c.moved /\ c.op = op /\ c.b = b
      /\ At(p, "idle") /\ UNCHANGED <<disk, lock>>
  BY IdleIsCall DEF InstallBegin, Calls, SomeBundles, Ops
<1>2. CASE \E r \in Refused : st' = [st EXCEPT ![p] = Ended(c, r)]
  BY <1>1, <1>2, RefusedAtOnce
<1>3. CASE /\ TrustAccepts(root, t) /\ Verified(b, pinned)
           /\ root = NoTrust
           /\ st' = [st EXCEPT ![p] = [c EXCEPT !.at = "create", !.t = t]]
  <2> DEFINE e == [c EXCEPT !.at = "create", !.t = t]
  <2>1. /\ e \in Calls /\ e.at = "create" /\ e.t = t /\ e.b = b /\ ~e.moved /\ e.op = op
    <3>1. "create" \in Ats
      BY DEF Ats
    <3> QED
      BY <1>1, <3>1 DEF Calls
  <2>2. st'[p] = e /\ t # NoTrust /\ Verified(b, t)
    BY <1>3 DEF IInv, Types, TrustAccepts
  <2>3. CallInv(p)'
    BY <2>1, <2>2 DEF CallInv, Moved, Carried, LockHeld, Chosen, Published, Ready, Success, Locked,
       Staging, Activating, Verified
  <2> QED
    BY <1>1, <1>3, <2>1, <2>3, GoesOn DEF ground, disk, At
<1>4. CASE /\ Verified(b, pinned)
           /\ root # NoTrust
           /\ st' = [st EXCEPT ![p] = [c EXCEPT !.at = "lock"]]
  <2> DEFINE e == [c EXCEPT !.at = "lock"]
  <2>1. /\ e \in Calls /\ e.at = "lock" /\ e.b = b /\ ~e.moved /\ e.op = op
    <3>1. "lock" \in Ats
      BY DEF Ats
    <3> QED
      BY <1>1, <3>1 DEF Calls
  <2>2. st'[p] = e /\ Verified(b, root)
    BY <1>4 DEF IInv, Types
  <2>3. CallInv(p)'
    BY <1>1, <1>4, <2>1, <2>2 DEF CallInv, Moved, Carried, LockHeld, Chosen, Published, Ready,
       Success, Locked, Staging, Activating, Verified, disk
  <2> QED
    BY <1>1, <1>4, <2>1, <2>3, GoesOn DEF ground, disk, At
<1>5. {"CLI_NOT_INSTALLED", "CLI_ENTRY_CONFLICT", "CLI_TRUST_POLICY"} \subseteq Refused
  BY DEF Refused, Refusals
<1>6. ~Verified(b, pinned) => Authenticate(b, pinned) \in Refused
  BY DEF Authenticate, Verified, Refused, Refusals
<1> QED
  BY <1>2, <1>3, <1>4, <1>5, <1>6, ReadingsRefuse DEF InstallBegin

LEMMA RollbackBeginKeeps == ASSUME IInv, NEW p \in Procs, RollbackBegin(p) PROVE IInv'
<1> DEFINE c == [Idle EXCEPT !.op = "rollback"]
           e == [c EXCEPT !.at = "lock"]
<1>1. /\ c \in Calls /\ ~c.moved /\ e \in Calls /\ e.at = "lock" /\ ~e.moved /\ e.op = "rollback"
      /\ At(p, "idle") /\ UNCHANGED <<disk, lock>>
  <2>1. "lock" \in Ats /\ "rollback" \in Ops
    BY DEF Ats, Ops
  <2> QED
    BY <2>1, IdleIsCall DEF RollbackBegin, Calls
<1>2. CASE st' = [st EXCEPT ![p] = Ended(c, "CLI_NOT_INSTALLED")]
  BY <1>1, <1>2, RefusedAtOnce DEF Refused, Refusals
<1>3. CASE st' = [st EXCEPT ![p] = e]
  <2>1. st'[p] = e
    BY <1>3 DEF IInv, Types
  <2>2. CallInv(p)'
    BY <1>1, <2>1 DEF CallInv, Moved, Carried, LockHeld, Chosen, Published, Ready, Success, Locked,
       Staging, Activating
  <2> QED
    BY <1>1, <1>3, <2>2, GoesOn DEF ground, disk, At
<1> QED
  BY <1>2, <1>3 DEF RollbackBegin

LEMMA InfoBeginKeeps == ASSUME IInv, NEW p \in Procs, InfoBegin(p) PROVE IInv'
<1> DEFINE e == [Idle EXCEPT !.at = "again", !.old = cur]
<1>1. /\ e \in Calls /\ e.at = "again" /\ ~e.moved
      /\ At(p, "idle") /\ UNCHANGED <<disk, lock>>
  <2>1. "again" \in Ats /\ cur \in Nat
    BY DEF Ats, IInv, Types
  <2> QED
    BY <2>1, IdleIsCall DEF InfoBegin, Calls
<1>2. CASE \E r \in Refused : st' = [st EXCEPT ![p] = Ended(Idle, r)]
  BY <1>1, <1>2, IdleIsCall, RefusedAtOnce
<1>3. CASE st' = [st EXCEPT ![p] = e]
  <2>1. st'[p] = e
    BY <1>3 DEF IInv, Types
  <2>2. CallInv(p)'
    BY <1>1, <2>1 DEF CallInv, Moved, Carried, LockHeld, Chosen, Published, Ready, Success, Locked,
       Staging, Activating
  <2> QED
    BY <1>1, <1>3, <2>2, GoesOn DEF ground, disk, At
<1>4. {"NOT_INSTALLED", "CLI_ENTRY_CONFLICT", "CLI_RELEASE_CHANGED", "CLI_STORAGE_UNSAFE"} \subseteq Refused
  BY DEF Refused, Refusals
<1> QED
  BY <1>2, <1>3, <1>4 DEF InfoBegin

LEMMA InfoAgainKeeps == ASSUME IInv, NEW p \in Procs, InfoAgain(p) PROVE IInv'
<1>1. \E r \in Refused : Refuse(p, r)
  BY DEF InfoAgain, Refused, Refusals
<1> QED
  BY <1>1, RefusalKeeps DEF InfoAgain, At, Refuse, disk, ground

LEMMA ExitKeeps == ASSUME IInv, NEW p \in Procs, Exit(p) PROVE IInv'
<1>1. st[p].at # "syncRel"
  BY DEF Exit, Results, Success
<1> QED
  BY <1>1, IdleIsCall, Leaves DEF Exit, Ends, disk, Success

\* A call that only moves on keeps what it carries.
LEMMA GotoIs ==
    ASSUME IInv, NEW p \in Procs, NEW l \in Ats, Goto(p, l)
    PROVE  \E c \in Calls :
             /\ st' = [st EXCEPT ![p] = c] /\ st'[p] = c
             /\ c.at = l /\ c.op = st[p].op /\ c.b = st[p].b /\ c.t = st[p].t
             /\ c.old = st[p].old /\ c.act = st[p].act /\ c.moved = st[p].moved
             /\ \A q \in Procs \ {p} : st'[q] = st[q]
<1> DEFINE c == [st[p] EXCEPT !.at = l]
<1>1. st' = [st EXCEPT ![p] = c] /\ st[p] \in Calls
  BY DEF Goto, IInv, Types
<1>2. /\ c \in Calls /\ c.at = l /\ c.op = st[p].op /\ c.b = st[p].b /\ c.t = st[p].t
      /\ c.old = st[p].old /\ c.act = st[p].act /\ c.moved = st[p].moved
  BY <1>1 DEF Calls
<1>3. st'[p] = c /\ \A q \in Procs \ {p} : st'[q] = st[q]
  BY <1>1 DEF IInv, Types
<1> QED
  BY <1>1, <1>2, <1>3

\* Only the winner of the publication pins its trust; for everyone else the root was
\* and stays pinned, or was not and is of no account.
LEMMA CreateKeeps == ASSUME IInv, NEW p \in Procs, Create(p) PROVE IInv'
<1>1. CASE \E r \in {"CLI_ENTRY_CONFLICT", "CLI_STORAGE_IO"} : Refuse(p, r)
  BY <1>1, RefusalKeeps DEF Create, At, Refuse, disk, ground, Refused, Refusals
<1>2. CASE /\ root = NoTrust /\ root' = st[p].t
           /\ st' = [st EXCEPT ![p].at = "lock", ![p].t = NoTrust]
           /\ UNCHANGED <<rel, relSafe, orphans, acts, cur, curSafe, lock>>
  <2> DEFINE c == [st[p] EXCEPT !.at = "lock", !.t = NoTrust]
  <2>1. /\ st' = [st EXCEPT ![p] = c] /\ c \in Calls /\ c.at = "lock" /\ c.b = st[p].b
        /\ c.moved = st[p].moved /\ c.op = st[p].op
    <3>1. "lock" \in Ats /\ NoTrust \in Offers /\ st[p] \in Calls
      BY Constants DEF Ats, IInv, Types
    <3>2. st' = [st EXCEPT ![p] = c]
      BY <1>2 DEF IInv, Types
    <3> QED
      BY <3>1, <3>2 DEF Calls
  <2>2. st' \in [Procs -> Calls] /\ st'[p] = c /\ \A q \in Procs \ {p} : st'[q] = st[q]
    BY <2>1 DEF IInv, Types
  <2>3. At(p, "create") /\ CallInv(p)
    BY DEF Create, IInv
  <2>4. \A i \in Ids : rel[i] = NoBundle
    BY <1>2 DEF IInv, Releases
  <2>5. Types' /\ Releases'
    BY <1>2, <2>2, <2>4 DEF IInv, Types, Releases
  <2>6. Durable'
    BY <1>2, <2>4 DEF IInv, Durable
  <2>7. Selections'
    BY <1>2 DEF IInv, Selections, Usable, Synced
  <2>8. CallInv(p)'
    BY <1>2, <2>1, <2>2, <2>3 DEF At, CallInv, Moved, Carried, LockHeld, Chosen, Published, Ready,
       Success, Locked, Staging, Activating, Verified
  <2>9. ASSUME NEW q \in Procs \ {p} PROVE CallInv(q)'
    <3>1. CASE st[q].at \notin Locked
      BY <1>2, <2>2, <3>1, Bystander DEF IInv
    <3>2. CASE st[q].at \in Locked
      <4>1. st[q].at \notin {"create", "lock"} \cup Staging
        BY <1>2, <3>2 DEF IInv, CallInv, Carried, Locked, Staging
      <4>2. ~(st[q].at = "read" /\ st[q].op # "rollback")
        BY <1>2 DEF IInv, CallInv, Carried
      <4>3. Carried(q)'
        BY <2>2, <4>1, <4>2 DEF IInv, CallInv, Carried
      <4>4. Moved(q)' /\ LockHeld(q)' /\ Chosen(q)' /\ Published(q)' /\ Ready(q)'
        BY <1>2, <2>2 DEF IInv, CallInv, Moved, LockHeld, Chosen, Published, Ready, Selection, Synced
      <4> QED
        BY <4>3, <4>4 DEF CallInv
    <3> QED
      BY <3>1, <3>2
  <2> QED
    BY <2>5, <2>6, <2>7, <2>8, <2>9 DEF IInv
<1> QED
  BY <1>1, <1>2 DEF Create

LEMMA LockKeeps == ASSUME IInv, NEW p \in Procs, Lock(p) PROVE IInv'
<1>1. CASE \E r \in {"CLI_STORAGE_LIMIT", "CLI_BUSY"} : Refuse(p, r)
  BY <1>1, RefusalKeeps DEF Lock, At, Refuse, disk, ground, Refused, Refusals
<1>2. CASE lock = Nobody /\ lock' = p /\ Goto(p, "read") /\ UNCHANGED disk
  <2>1. "read" \in Ats
    BY DEF Ats, Locked
  <2>2. PICK c \in Calls :
           /\ st' = [st EXCEPT ![p] = c] /\ st'[p] = c /\ c.at = "read" /\ c.op = st[p].op
           /\ c.b = st[p].b /\ c.moved = st[p].moved
    BY <1>2, <2>1, GotoIs
  <2>3. At(p, "lock") /\ CallInv(p)
    BY DEF Lock, IInv
  <2>4. CallInv(p)'
    BY <1>2, <2>2, <2>3 DEF At, disk, CallInv, Moved, Carried, LockHeld, Chosen, Published, Ready,
       Success, Locked, Staging, Activating, Verified
  <2> QED
    BY <1>2, <2>2, <2>3, <2>4, GoesOn DEF At, disk, ground
<1> QED
  BY <1>1, <1>2 DEF Lock

\* The selection that is read stays the current one while the lock is held.
LEMMA InstallReadKeeps == ASSUME IInv, NEW p \in Procs, InstallRead(p) PROVE IInv'
<1>1. At(p, "read") /\ CallInv(p) /\ st[p].op \in {"install", "update"}
  BY DEF InstallRead, IInv
<1>2. CASE \E r \in Refused : End(p, r) /\ UNCHANGED ground
  BY <1>1, <1>2, RefusalKeeps DEF At, Locked
<1>3. CASE /\ cur # 0 => Selection(cur).rel # st[p].b.id
           /\ st' = [st EXCEPT ![p].at = "stage", ![p].old = cur]
           /\ UNCHANGED <<disk, lock>>
  <2> DEFINE c == [st[p] EXCEPT !.at = "stage", !.old = cur]
  <2>1. /\ st' = [st EXCEPT ![p] = c] /\ c \in Calls /\ c.at = "stage" /\ c.b = st[p].b
        /\ c.moved = st[p].moved /\ c.op = st[p].op /\ c.old = cur /\ st'[p] = c
    <3>1. "stage" \in Ats /\ cur \in Nat /\ st[p] \in Calls
      BY DEF Ats, Locked, IInv, Types
    <3>2. st' = [st EXCEPT ![p] = c] /\ st'[p] = c
      BY <1>3 DEF IInv, Types
    <3> QED
      BY <3>1, <3>2 DEF Calls
  <2>2. root # NoTrust /\ Verified(st[p].b, root) /\ st[p].b \in Bundles
    BY <1>1 DEF CallInv, Carried, At
  <2>3. st[p].b.id # Selection(cur).rel
    BY <1>3, <2>2, Constants DEF Selection
  <2>4. UNCHANGED ground /\ Selection(cur)' = Selection(cur)
    BY <1>3 DEF ground, disk, Selection
  <2>5. CallInv(p)'
    BY <1>1, <1>3, <2>1, <2>2, <2>3, <2>4 DEF At, disk, CallInv, Moved, Carried, LockHeld, Chosen,
       Published, Ready, Success, Locked, Staging, Activating, Verified
  <2> QED
    BY <1>1, <1>3, <2>1, <2>4, <2>5, GoesOn DEF At
<1>4. {"CLI_RELEASE_CHANGED", "CLI_RELEASE_CONFLICT", "CLI_ENTRY_CONFLICT", "UNCHANGED",
       "CLI_NOT_INSTALLED", "CLI_ALREADY_INSTALLED", "CLI_STORAGE_UNSAFE"} \subseteq Refused
  BY DEF Refused, Refusals
<1> QED
  BY <1>2, <1>3, <1>4 DEF InstallRead, Refuse, disk, ground

\* A release that is already there was synced or left behind: its publisher does
\* not have the lock.
LEMMA StageExistingKeeps ==
    ASSUME IInv, NEW p \in Procs, NEW answers, StageExisting(p, answers) PROVE IInv'
<1>1. At(p, "stage") /\ CallInv(p) /\ Admission(st[p].b.id)
  BY DEF StageExisting, IInv
<1>2. CASE \E r \in Refused : Refuse(p, r)
  BY <1>1, <1>2, RefusalKeeps DEF At, Locked, Refuse, disk, ground
<1>3. CASE Goto(p, "activate") /\ UNCHANGED <<disk, lock>>
  <2>1. "activate" \in Ats
    BY DEF Ats, Locked
  <2>2. PICK c \in Calls :
           /\ st' = [st EXCEPT ![p] = c] /\ st'[p] = c /\ c.at = "activate" /\ c.op = st[p].op
           /\ c.b = st[p].b /\ c.old = st[p].old /\ c.moved = st[p].moved
    BY <1>3, <2>1, GotoIs
  <2>3. st[p].b \in Bundles /\ st[p].b.id \in Ids
    BY <1>1, Constants DEF At, CallInv, Chosen, Staging
  <2>4. \A q \in Procs : st[q].at # "syncRel"
    BY <1>1, OneLocked DEF At, Locked
  <2>5. st[p].b.id \in Synced
    BY <1>1, <2>3, <2>4 DEF IInv, Durable, Admission
  <2>6. CallInv(p)'
    BY <1>1, <1>3, <2>2, <2>5 DEF At, disk, CallInv, Moved, Carried, LockHeld, Chosen, Published,
       Ready, Success, Locked, Staging, Activating, Verified, Selection, Synced
  <2> QED
    BY <1>1, <1>3, <2>2, <2>6, GoesOn DEF At, disk, ground
<1>4. {"CLI_RELEASE_CHANGED", "CLI_RELEASE_CONFLICT", "CLI_CANDIDATE_FAILED"} \subseteq Refused
  BY DEF Refused, Refusals
<1> QED
  BY <1>2, <1>3, <1>4 DEF StageExisting

\* Between two steps of the staging nothing else changes.
LEMMA StagingGoesOn ==
    ASSUME IInv, NEW p \in Procs, NEW l \in {"staged", "publish"}, st[p].at \in {"stage", "staged"},
           Goto(p, l), UNCHANGED <<ground, lock>>
    PROVE  IInv'
<1>1. l \in Ats /\ CallInv(p)
  BY DEF Ats, Locked, IInv
<1>2. PICK c \in Calls :
         /\ st' = [st EXCEPT ![p] = c] /\ st'[p] = c /\ c.at = l /\ c.op = st[p].op
         /\ c.b = st[p].b /\ c.old = st[p].old /\ c.moved = st[p].moved
  BY <1>1, GotoIs
<1>3. CallInv(p)'
  BY <1>1, <1>2 DEF ground, CallInv, Moved, Carried, LockHeld, Chosen, Published, Ready, Success,
     Locked, Staging, Activating, Verified, Selection
<1> QED
  BY <1>2, <1>3, GoesOn

LEMMA StageNewKeeps == ASSUME IInv, NEW p \in Procs, StageNew(p) PROVE IInv'
<1>1. CASE Refuse(p, "CLI_STORAGE_LIMIT")
  BY <1>1, RefusalKeeps DEF StageNew, At, Locked, Refuse, disk, ground, Refused, Refusals
<1>2. CASE Goto(p, "staged") /\ UNCHANGED <<ground, lock>>
  BY <1>2, StagingGoesOn DEF StageNew, At
<1> QED
  BY <1>1, <1>2 DEF StageNew, ground

LEMMA ProbeStagedKeeps ==
    ASSUME IInv, NEW p \in Procs, NEW answers, ProbeStaged(p, answers) PROVE IInv'
<1>1. CASE End(p, "CLI_CANDIDATE_FAILED") /\ UNCHANGED ground
  BY <1>1, RefusalKeeps DEF ProbeStaged, At, Locked, Refused, Refusals
<1>2. CASE Goto(p, "publish") /\ UNCHANGED <<disk, lock>>
  BY <1>2, StagingGoesOn DEF ProbeStaged, At, disk, ground
<1> QED
  BY <1>1, <1>2 DEF ProbeStaged, ground

\* What is published was verified under the root's trust, and its publisher is
\* about to sync it.
LEMMA PublishReleaseKeeps == ASSUME IInv, NEW p \in Procs, PublishRelease(p) PROVE IInv'
<1>1. At(p, "publish") /\ CallInv(p)
  BY DEF PublishRelease, IInv
<1>2. CASE End(p, "CLI_RELEASE_CONFLICT") /\ UNCHANGED ground
  BY <1>1, <1>2, RefusalKeeps DEF At, Locked, Refused, Refusals
<1>3. CASE /\ ~Admission(st[p].b.id)
           /\ rel' = [rel EXCEPT ![st[p].b.id] = st[p].b]
           /\ Goto(p, "syncRel") /\ UNCHANGED <<root, relSafe, orphans, acts, cur, curSafe, lock>>
  <2>1. "syncRel" \in Ats
    BY DEF Ats, Locked
  <2>2. PICK c \in Calls :
           /\ st' = [st EXCEPT ![p] = c] /\ st'[p] = c /\ c.at = "syncRel" /\ c.op = st[p].op
           /\ c.b = st[p].b /\ c.old = st[p].old /\ c.moved = st[p].moved
           /\ \A q \in Procs \ {p} : st'[q] = st[q]
    BY <1>3, <2>1, GotoIs
  <2>3. /\ st[p].b \in Bundles /\ st[p].b.id \in Ids /\ st[p].b # NoBundle
        /\ root # NoTrust /\ Verified(st[p].b, root)
    BY <1>1, Constants DEF At, CallInv, Carried, Staging
  <2>4. \A i \in Ids : rel'[i] = IF i = st[p].b.id THEN st[p].b ELSE rel[i]
    BY <1>3, <2>3 DEF IInv, Types
  <2>5. Types'
    BY <1>3, <2>2, <2>3 DEF IInv, Types, SomeBundles
  <2>6. Releases'
    BY <1>3, <2>3, <2>4 DEF IInv, Releases, Verified
  <2>7. \A q \in Procs \ {p} : st[q].at \notin Locked
    BY <1>1, OneLocked DEF At, Locked
  <2>8. Durable'
    <3>1. \A i \in relSafe' : i \in Ids /\ rel'[i] # NoBundle
      BY <1>3, <2>3, <2>4 DEF IInv, Durable
    <3>2. ASSUME NEW i \in Ids, rel'[i] # NoBundle, i # st[p].b.id PROVE i \in Synced'
      BY <1>1, <1>3, <2>4, <2>7, <3>2 DEF IInv, Durable, Synced, At, Locked
    <3> QED
      BY <2>2, <3>1, <3>2 DEF Durable
  <2>9. Selections'
    BY <1>3 DEF IInv, Selections, Usable, Synced
  <2>10. CallInv(p)'
    BY <1>1, <1>3, <2>2, <2>3, <2>4 DEF At, CallInv, Moved, Carried, LockHeld, Chosen, Published,
       Ready, Success, Locked, Staging, Activating, Verified, Selection
  <2>11. \A q \in Procs \ {p} : CallInv(q)'
    BY <1>3, <2>2, <2>7, Bystander DEF IInv
  <2> QED
    BY <2>5, <2>6, <2>8, <2>9, <2>10, <2>11 DEF IInv
<1> QED
  BY <1>2, <1>3 DEF PublishRelease, ground

LEMMA SyncReleasesKeeps == ASSUME IInv, NEW p \in Procs, SyncReleases(p) PROVE IInv'
<1>1. /\ At(p, "syncRel") /\ CallInv(p)
      /\ relSafe' = relSafe \cup {st[p].b.id} /\ orphans' = orphans \ {st[p].b.id}
      /\ UNCHANGED <<root, rel, acts, cur, curSafe>>
  BY DEF SyncReleases, IInv
<1>2. Synced' = Synced \cup {st[p].b.id} /\ Synced \subseteq Synced'
  BY <1>1 DEF Synced
<1>3. st[p].b.id \in Ids /\ rel[st[p].b.id] # NoBundle
  BY <1>1, Constants DEF At, CallInv, Chosen, Published, Staging
<1>4. Releases'
  BY <1>1 DEF IInv, Releases, Verified
<1>5. Selections'
  BY <1>1, <1>2, UsableGrows DEF IInv, Selections, Usable
<1>6. \A q \in Procs \ {p} : st[q].at \notin Locked
  BY <1>1, OneLocked DEF At, Locked
<1>7. ASSUME st' \in [Procs -> Calls], \A q \in Procs \ {p} : st'[q] = st[q], CallInv(p)'
      PROVE  IInv'
  <2>1. Types'
    BY <1>1, <1>7 DEF IInv, Types
  <2>2. Durable'
    <3>1. \A i \in relSafe' : i \in Ids /\ rel'[i] # NoBundle
      BY <1>1, <1>3 DEF IInv, Durable
    <3>2. ASSUME NEW i \in Ids, rel'[i] # NoBundle PROVE i \in Synced'
      BY <1>1, <1>2, <1>6, <3>2 DEF IInv, Durable, At, Locked
    <3> QED
      BY <3>1, <3>2 DEF Durable
  <2>3. \A q \in Procs \ {p} : CallInv(q)'
    BY <1>1, <1>6, <1>7, Bystander DEF IInv
  <2> QED
    BY <1>4, <1>5, <1>7, <2>1, <2>2, <2>3 DEF IInv
<1>8. CASE Goto(p, "activate") /\ UNCHANGED lock
  <2>1. "activate" \in Ats
    BY DEF Ats, Locked
  <2>2. PICK c \in Calls :
           /\ st' = [st EXCEPT ![p] = c] /\ st'[p] = c /\ c.at = "activate" /\ c.op = st[p].op
           /\ c.b = st[p].b /\ c.old = st[p].old /\ c.moved = st[p].moved
           /\ \A q \in Procs \ {p} : st'[q] = st[q]
    BY <1>8, <2>1, GotoIs
  <2>3. CallInv(p)'
    BY <1>1, <1>2, <1>8, <2>2 DEF At, CallInv, Moved, Carried, LockHeld, Chosen, Published,
       Ready, Success, Locked, Staging, Activating, Verified, Selection
  <2>4. st' \in [Procs -> Calls]
    BY <2>2 DEF IInv, Types
  <2> QED
    BY <1>7, <2>2, <2>3, <2>4
<1>9. CASE End(p, "CLI_RELEASE_CHANGED")
  <2> DEFINE c == Ended(st[p], "CLI_RELEASE_CHANGED")
  <2>1. st' = [st EXCEPT ![p] = c] /\ st[p] \in Calls /\ ~st[p].moved
    BY <1>1, <1>9 DEF End, IInv, Types, CallInv, Moved, At, Success
  <2>2. /\ c \in Calls /\ c.at \in Ends
        /\ c.moved <=> c.at \in {"CLI_ACTIVATION_UNKNOWN"} \cup Success
    BY <2>1, RefusedIsEnd DEF Refused, Refusals
  <2>3. st' \in [Procs -> Calls] /\ st'[p] = c /\ \A q \in Procs \ {p} : st'[q] = st[q]
    BY <2>1, <2>2 DEF IInv, Types
  <2> QED
    BY <1>7, <2>2, <2>3, EndedInv
<1> QED
  BY <1>8, <1>9 DEF SyncReleases

\* The release before the present one is another, and can be selected.
LEMMA RollbackReadKeeps ==
    ASSUME IInv, NEW p \in Procs, NEW answers, RollbackRead(p, answers) PROVE IInv'
<1> DEFINE s == Selection(cur)
<1>1. At(p, "read") /\ CallInv(p) /\ st[p].op = "rollback"
  BY DEF RollbackRead, IInv
<1>2. CASE \E r \in Refused : Refuse(p, r)
  BY <1>1, <1>2, RefusalKeeps DEF At, Locked, Refuse, disk, ground
<1>3. CASE /\ cur # 0 /\ s.prev # NoId /\ Admitted(s.prev)
           /\ st' = [st EXCEPT ![p].at = "activate", ![p].old = cur, ![p].b = rel[s.prev]]
           /\ UNCHANGED <<disk, lock>>
  <2> DEFINE c == [st[p] EXCEPT !.at = "activate", !.old = cur, !.b = rel[s.prev]]
  <2>1. s.rel = acts[cur].rel /\ s.prev = acts[cur].prev /\ acts[cur] \in Records
    BY <1>3 DEF Selection, IInv, Types
  <2>2. s.prev \in Ids /\ s.prev # s.rel /\ s.prev \in Synced
    BY <1>3, <2>1 DEF Records, SomeIds, IInv, Selections, Usable
  <2>3. rel[s.prev] \in Bundles /\ rel[s.prev].id = s.prev
    BY <1>3, <2>2 DEF IInv, Releases, Admitted, Admission
  <2>4. /\ st' = [st EXCEPT ![p] = c] /\ c \in Calls /\ c.at = "activate" /\ c.b = rel[s.prev]
        /\ c.moved = st[p].moved /\ c.op = st[p].op /\ c.old = cur /\ st'[p] = c
    <3>1. "activate" \in Ats /\ cur \in Nat /\ st[p] \in Calls /\ rel[s.prev] \in SomeBundles
      BY <2>3 DEF Ats, Locked, IInv, Types, SomeBundles
    <3>2. st' = [st EXCEPT ![p] = c] /\ st'[p] = c
      BY <1>3 DEF IInv, Types
    <3> QED
      BY <3>1, <3>2 DEF Calls
  <2>5. UNCHANGED ground /\ Selection(cur)' = s /\ Synced' = Synced
    BY <1>3 DEF ground, disk, Selection, Synced
  <2>6. CallInv(p)'
    <3>1. st[p].at = "read" /\ lock = p /\ ~st[p].moved /\ lock' = lock /\ cur' = cur
      BY <1>1, <1>3 DEF At, disk, CallInv, Moved, LockHeld, Locked, Success
    <3>2. st'[p].b.id = s.prev /\ st'[p].b \in Bundles
      BY <2>3, <2>4
    <3>3. Moved(p)' /\ LockHeld(p)' /\ Carried(p)'
      BY <1>1, <2>4, <3>1 DEF Moved, LockHeld, Carried, Success, Locked, Staging
    <3> HIDE DEF c, s
    <3>4. Chosen(p)'
      BY <2>2, <2>4, <2>5, <3>1, <3>2 DEF Chosen
    <3>5. Published(p)' /\ Ready(p)'
      BY <2>2, <2>4, <2>5, <3>2 DEF Published, Ready, Activating
    <3> QED
      BY <3>3, <3>4, <3>5 DEF CallInv
  <2> QED
    BY <1>1, <1>3, <2>4, <2>5, <2>6, GoesOn DEF At
<1>4. {"CLI_ENTRY_CONFLICT", "CLI_NOT_INSTALLED", "CLI_PREVIOUS_MISSING", "CLI_RELEASE_CHANGED",
       "CLI_CANDIDATE_FAILED", "CLI_STORAGE_UNSAFE"} \subseteq Refused
  BY DEF Refused, Refusals
<1> QED
  BY <1>2, <1>3, <1>4 DEF RollbackRead

\* A step of the call that has the lock, after which the selection means the same.
LEMMA ActivationStep ==
    ASSUME IInv, NEW p \in Procs, st[p].at \in Locked \ {"syncRel"},
           NEW c \in Calls, st' = [st EXCEPT ![p] = c], CallInv(p)',
           UNCHANGED <<root, rel, relSafe, orphans>>,
           acts' \in Seq(Records), cur' \in 0 .. Len(acts'), curSafe' \in 0 .. cur', Selections'
    PROVE  IInv'
<1>1. st' \in [Procs -> Calls] /\ \A q \in Procs \ {p} : st'[q] = st[q]
  BY DEF IInv, Types
<1>2. \A q \in Procs \ {p} : CallInv(q)'
  BY <1>1, OneLocked, Bystander DEF IInv
<1>3. Types' /\ Releases'
  BY <1>1 DEF IInv, Types, Releases, Verified
<1>4. Durable'
  BY <1>1 DEF IInv, Durable, Synced, Locked
<1> QED
  BY <1>2, <1>3, <1>4 DEF IInv

\* The new activation replaces the selection that was read, which is still current.
LEMMA MakeActivationKeeps == ASSUME IInv, NEW p \in Procs, MakeActivation(p) PROVE IInv'
<1>1. At(p, "activate") /\ CallInv(p) /\ st[p] \in Calls
  BY DEF MakeActivation, IInv, Types
<1>2. CASE \E r \in Refused : Refuse(p, r)
  BY <1>1, <1>2, RefusalKeeps DEF At, Locked, Refuse, disk, ground
<1>3. CASE /\ acts' = Append(acts, [rel |-> st[p].b.id, prev |-> Selection(st[p].old).rel, whole |-> FALSE])
           /\ st' = [st EXCEPT ![p].at = "fill", ![p].act = NextActivation]
           /\ UNCHANGED <<root, rel, relSafe, orphans, cur, curSafe, lock>>
  <2> DEFINE n == Len(acts) + 1
             r == [rel |-> st[p].b.id, prev |-> Selection(cur).rel, whole |-> FALSE]
             c == [st[p] EXCEPT !.at = "fill", !.act = n]
  <2>1. /\ st[p].b \in Bundles /\ st[p].b.id \in Ids /\ st[p].old = cur
        /\ st[p].b.id # Selection(cur).rel /\ st[p].b.id \in Synced
    BY <1>1, Constants DEF At, CallInv, Chosen, Published
  <2>2. Selection(cur).rel \in SomeIds
    <3>1. CASE cur = 0
      BY <3>1 DEF Selection, SomeIds
    <3>2. CASE cur # 0
      <4>1. acts[cur] \in Records
        BY <3>2 DEF IInv, Types
      <4> QED
        BY <3>2, <4>1 DEF Selection, Records
    <3> QED
      BY <3>1, <3>2
  <2>3. r \in Records
    BY <2>1, <2>2 DEF Records, SomeIds
  <2>4. /\ acts' = Append(acts, r) /\ acts' \in Seq(Records) /\ Len(acts') = n
        /\ acts'[n] = r /\ n \in Nat /\ \A a \in 1 .. Len(acts) : acts'[a] = acts[a]
    BY <1>3, <2>1, <2>3 DEF IInv, Types
  <2>5. /\ st' = [st EXCEPT ![p] = c] /\ c \in Calls /\ c.at = "fill" /\ c.b = st[p].b
        /\ c.moved = st[p].moved /\ c.op = st[p].op /\ c.old = cur /\ c.act = n /\ st'[p] = c
    <3>1. "fill" \in Ats
      BY DEF Ats, Locked
    <3>2. st' = [st EXCEPT ![p] = c] /\ st'[p] = c
      BY <1>3 DEF IInv, Types, NextActivation
    <3> QED
      BY <1>1, <2>1, <2>4, <3>1, <3>2 DEF Calls
  <2>6. Selection(cur)' = Selection(cur) /\ Synced' = Synced
    BY <1>3, <2>4 DEF IInv, Types, Selection, Synced
  <2>7. Selections'
    <3>1. \A a \in 1 .. Len(acts) : acts'[a] = acts[a]
      BY <2>4
    <3>2. ASSUME NEW a \in 0 .. Len(acts), Usable(a, Synced) PROVE Usable(a, Synced)'
      <4>1. CASE a = 0
        BY <4>1 DEF Usable
      <4>2. CASE a # 0
        BY <2>6, <3>1, <3>2, <4>2 DEF Usable
      <4> QED
        BY <4>1, <4>2
    <3>3. cur \in 0 .. Len(acts) /\ curSafe \in 0 .. Len(acts)
      BY DEF IInv, Types
    <3>4. Usable(cur, Synced)' /\ Usable(curSafe, Synced)'
      BY <1>3, <3>2, <3>3 DEF IInv, Selections, Usable
    <3> QED
      BY <3>4 DEF Selections
  <2>8. CallInv(p)'
    <3>1. Ready(p)'
      <4>1. n \in 1 .. Len(acts') /\ cur < n /\ cur' = cur
        BY <1>3, <2>4 DEF IInv, Types
      <4>2. acts'[n].rel = st[p].b.id /\ acts'[n].prev = Selection(cur).rel
        BY <2>4
      <4> QED
        BY <2>5, <2>6, <4>1, <4>2 DEF Ready
    <3>2. Moved(p)' /\ Carried(p)' /\ LockHeld(p)' /\ Chosen(p)' /\ Published(p)'
      BY <1>1, <1>3, <2>1, <2>5, <2>6 DEF At, CallInv, Moved, Carried, LockHeld, Chosen, Published,
         Success, Locked, Staging, Activating
    <3> QED
      BY <3>1, <3>2 DEF CallInv
  <2>9. cur' \in 0 .. Len(acts') /\ curSafe' \in 0 .. cur'
    BY <1>3, <2>4 DEF IInv, Types
  <2> QED
    BY <1>1, <1>3, <2>4, <2>5, <2>7, <2>8, <2>9, ActivationStep DEF At, Locked
<1>4. {"CLI_STORAGE_LIMIT", "CLI_ENTRY_CONFLICT", "CLI_SELECTION_CHANGED"} \subseteq Refused
  BY DEF Refused, Refusals
<1> QED
  BY <1>2, <1>3, <1>4 DEF MakeActivation

LEMMA FillActivationKeeps == ASSUME IInv, NEW p \in Procs, FillActivation(p) PROVE IInv'
<1> DEFINE n == st[p].act
<1>1. /\ At(p, "fill") /\ CallInv(p) /\ Goto(p, "link") /\ "link" \in Ats
      /\ acts' = [acts EXCEPT ![n].whole = TRUE]
      /\ UNCHANGED <<root, rel, relSafe, orphans, cur, curSafe, lock>>
  BY DEF FillActivation, IInv, Ats, Locked
<1>2. PICK c \in Calls :
         /\ st' = [st EXCEPT ![p] = c] /\ st'[p] = c /\ c.at = "link" /\ c.op = st[p].op
         /\ c.b = st[p].b /\ c.old = st[p].old /\ c.act = n /\ c.moved = st[p].moved
  BY <1>1, GotoIs
<1>3. n \in 1 .. Len(acts) /\ cur < n /\ curSafe < n /\ n \in Nat
  BY <1>1 DEF At, CallInv, Ready, Activating, IInv, Types
<1>4. /\ acts' \in Seq(Records) /\ Len(acts') = Len(acts)
      /\ \A a \in (1 .. Len(acts)) \ {n} : acts'[a] = acts[a]
      /\ acts'[n].rel = acts[n].rel /\ acts'[n].prev = acts[n].prev /\ acts'[n].whole = TRUE
  <2>1. acts[n] \in Records
    BY <1>3 DEF IInv, Types
  <2>2. acts'= [acts EXCEPT ![n] = [acts[n] EXCEPT !.whole = TRUE]]
    BY <1>1
  <2>3. /\ [acts[n] EXCEPT !.whole = TRUE] \in Records
        /\ [acts[n] EXCEPT !.whole = TRUE].rel = acts[n].rel
        /\ [acts[n] EXCEPT !.whole = TRUE].prev = acts[n].prev
        /\ [acts[n] EXCEPT !.whole = TRUE].whole = TRUE
    BY <2>1 DEF Records
  <2> QED
    BY <1>3, <2>2, <2>3 DEF IInv, Types
<1>5. Selection(cur)' = Selection(cur) /\ Synced' = Synced
  BY <1>1, <1>3, <1>4 DEF IInv, Types, Selection, Synced
<1>6. Selections'
  BY <1>1, <1>3, <1>4, <1>5 DEF IInv, Types, Selections, Usable
<1>7. CallInv(p)'
  <2>1. Ready(p)'
    BY <1>1, <1>2, <1>3, <1>4, <1>5 DEF At, CallInv, Ready, Activating
  <2>2. Moved(p)' /\ Carried(p)' /\ LockHeld(p)' /\ Chosen(p)' /\ Published(p)'
    BY <1>1, <1>2, <1>5 DEF At, CallInv, Moved, Carried, LockHeld, Chosen, Published,
       Success, Locked, Staging, Activating
  <2> QED
    BY <2>1, <2>2 DEF CallInv
<1>8. cur' \in 0 .. Len(acts') /\ curSafe' \in 0 .. cur'
  BY <1>1, <1>4 DEF IInv, Types
<1> QED
  BY <1>1, <1>2, <1>4, <1>6, <1>7, <1>8, ActivationStep DEF At, Locked

LEMMA LinkActivationKeeps == ASSUME IInv, NEW p \in Procs, LinkActivation(p) PROVE IInv'
<1>1. At(p, "link") /\ CallInv(p)
  BY DEF LinkActivation, IInv
<1>2. CASE \E r \in Refused : End(p, r) /\ UNCHANGED ground
  BY <1>1, <1>2, RefusalKeeps DEF At, Locked
<1>3. CASE Goto(p, "switch") /\ UNCHANGED <<ground, lock>>
  <2>1. "switch" \in Ats
    BY DEF Ats, Locked
  <2>2. PICK c \in Calls :
           /\ st' = [st EXCEPT ![p] = c] /\ st'[p] = c /\ c.at = "switch" /\ c.op = st[p].op
           /\ c.b = st[p].b /\ c.old = st[p].old /\ c.act = st[p].act /\ c.moved = st[p].moved
    BY <1>3, <2>1, GotoIs
  <2>3. CallInv(p)'
    BY <1>1, <1>3, <2>2 DEF At, ground, CallInv, Moved, Carried, LockHeld, Chosen, Published, Ready,
       Success, Locked, Staging, Activating, Selection, Synced
  <2> QED
    BY <1>1, <1>3, <2>2, <2>3, GoesOn DEF At
<1>4. {"CLI_RELEASE_CHANGED", "CLI_ENTRY_CONFLICT", "CLI_STORAGE_LIMIT", "CLI_SELECTION_CHANGED"}
        \subseteq Refused
  BY DEF Refused, Refusals
<1> QED
  BY <1>2, <1>3, <1>4 DEF LinkActivation, Refuse, disk, ground

\* What is selected is finished, and its release and the one before it are there.
LEMMA SwitchKeeps == ASSUME IInv, NEW p \in Procs, Switch(p) PROVE IInv'
<1> DEFINE n == st[p].act
           c == [st[p] EXCEPT !.at = "confirm", !.moved = TRUE]
<1>1. /\ At(p, "switch") /\ CallInv(p) /\ st[p] \in Calls /\ cur' = n
      /\ UNCHANGED <<root, rel, relSafe, orphans, acts, curSafe, lock>>
  BY DEF Switch, IInv, Types
<1>2. /\ st' = [st EXCEPT ![p] = c] /\ c \in Calls /\ c.at = "confirm" /\ c.op = st[p].op
      /\ c.moved = TRUE /\ st'[p] = c
  <2>1. "confirm" \in Ats
    BY DEF Ats, Locked
  <2>2. st' = [st EXCEPT ![p] = c] /\ st'[p] = c
    BY DEF Switch, IInv, Types
  <2> QED
    BY <1>1, <2>1, <2>2 DEF Calls
<1>3. /\ n \in 1 .. Len(acts) /\ cur < n /\ acts[n].whole
      /\ acts[n].rel = st[p].b.id /\ acts[n].prev = Selection(cur).rel
      /\ st[p].b.id \in Synced /\ st[p].b.id # Selection(cur).rel
  BY <1>1 DEF At, CallInv, Ready, Activating, Published, Chosen
<1>4. Selection(cur).rel # NoId => Selection(cur).rel \in Synced
  BY DEF IInv, Selections, Usable, Selection
<1>5. Selections'
  BY <1>1, <1>3, <1>4 DEF IInv, Selections, Usable, Synced
<1>6. CallInv(p)'
  BY <1>1, <1>2 DEF At, CallInv, Moved, Carried, LockHeld, Chosen, Published, Ready, Success, Locked,
     Staging, Activating
<1>7. acts' \in Seq(Records) /\ cur' \in 0 .. Len(acts') /\ curSafe' \in 0 .. cur'
  BY <1>1, <1>3 DEF IInv, Types
<1> QED
  BY <1>1, <1>2, <1>5, <1>6, <1>7, ActivationStep DEF At, Locked

LEMMA ConfirmKeeps == ASSUME IInv, NEW p \in Procs, Confirm(p) PROVE IInv'
<1>1. /\ At(p, "confirm") /\ CallInv(p) /\ st[p] \in Calls /\ curSafe' = cur
      /\ UNCHANGED <<root, rel, relSafe, orphans, acts, cur>>
  BY DEF Confirm, IInv, Types
<1>2. st[p].op \in {"install", "update", "rollback"} /\ st[p].moved
  BY <1>1 DEF At, CallInv, Carried, Moved, Locked, Calls, Ops
<1>3. PICK r \in Success \cup {"CLI_ACTIVATION_UNKNOWN"} : End(p, r)
  BY <1>2 DEF Confirm, Success
<1> DEFINE c == Ended(st[p], r)
<1>4. r \in Results /\ r \notin Refusals
  BY DEF Results, Success, Refusals
<1>5. c \in Calls /\ c.at = r /\ c.moved
  BY <1>1, <1>2, <1>4, EndedIsCall
<1>6. st' = [st EXCEPT ![p] = c] /\ st'[p] = c
  BY <1>3 DEF End, IInv, Types
<1>7. CallInv(p)'
  BY <1>4, <1>5, <1>6, EndedInv DEF Ends
<1>8. Selections'
  BY <1>1 DEF IInv, Selections, Usable, Synced
<1>9. acts' \in Seq(Records) /\ cur' \in 0 .. Len(acts') /\ curSafe' \in 0 .. cur'
  BY <1>1 DEF IInv, Types
<1> QED
  BY <1>1, <1>5, <1>6, <1>7, <1>8, <1>9, ActivationStep DEF At, Locked

\* After the switch a failure is reported as unknown, before it as a refusal.
LEMMA IoFailsKeeps == ASSUME IInv, NEW p \in Procs, IoFails(p) PROVE IInv'
<1> DEFINE r == IF st[p].at = "confirm" THEN "CLI_ACTIVATION_UNKNOWN" ELSE "CLI_STORAGE_IO"
           c == Ended(st[p], r)
<1>1. /\ st[p].at \in Locked \cup {"create", "lock"} /\ st[p] \in Calls /\ End(p, r)
      /\ UNCHANGED <<root, rel, relSafe, acts, cur, curSafe>>
      /\ orphans' = IF st[p].at = "syncRel" THEN orphans \cup {st[p].b.id} ELSE orphans
  BY DEF IoFails, IInv, Types
<1>2. st[p].moved <=> st[p].at = "confirm"
  BY <1>1 DEF IInv, CallInv, Moved, Locked, Success
<1>3. "CLI_ACTIVATION_UNKNOWN" \in Results \ Refusals /\ "CLI_STORAGE_IO" \in Refusals
  BY DEF Results, Refusals
<1>4. c \in Calls /\ c.at \in Ends /\ c.moved = st[p].moved
      /\ c.at = IF st[p].at = "confirm" THEN "CLI_ACTIVATION_UNKNOWN" ELSE "REFUSED"
  BY <1>1, <1>3, EndedIsCall DEF Ends
<1>5. c.moved <=> c.at \in {"CLI_ACTIVATION_UNKNOWN"} \cup Success
  BY <1>2, <1>4 DEF Success
<1>6. st' = [st EXCEPT ![p] = c] /\ (lock' = lock \/ lock = p)
  BY <1>1 DEF End, IInv, Types
<1> QED
  BY <1>1, <1>4, <1>5, <1>6, Leaves

LEMMA KillKeeps == ASSUME IInv, NEW p \in Procs, Kill(p) PROVE IInv'
<1>1. Idle.moved <=> Idle.at \in {"CLI_ACTIVATION_UNKNOWN"} \cup Success
  BY IdleIsCall DEF Success
<1> QED
  BY <1>1, IdleIsCall, Leaves DEF Kill, Ends

\* What a power loss takes away was synced by nobody, so nothing depended on it.
LEMMA PowerLossKeeps == ASSUME IInv, PowerLoss PROVE IInv'
<1>1. /\ cur' \in {cur, curSafe} /\ curSafe' = cur' /\ UNCHANGED <<root, orphans, acts>>
      /\ st' = [p \in Procs |-> Idle] /\ lock' = Nobody
      /\ relSafe' = {i \in Ids : rel'[i] # NoBundle}
  BY DEF PowerLoss
<1>2. PICK lost \in SUBSET {i \in Ids : rel[i] # NoBundle /\ i \notin relSafe} :
         rel' = [i \in Ids |-> IF i \in lost THEN NoBundle ELSE rel[i]]
  BY DEF PowerLoss
<1>3. Types'
  BY <1>1, <1>2, IdleIsCall DEF IInv, Types, SomeBundles
<1>4. \A i \in Ids : rel'[i] # NoBundle => rel[i] # NoBundle /\ rel'[i] = rel[i]
  BY <1>2
<1>5. Releases'
  BY <1>1, <1>4 DEF IInv, Releases, Verified
<1>6. Durable'
  BY <1>1 DEF Durable, Synced
<1>7. Synced \subseteq Synced'
  BY <1>1, <1>2 DEF IInv, Durable, Synced
<1>8. Selections'
  BY <1>1, <1>7, UsableGrows DEF IInv, Selections, Usable
<1>9. \A p \in Procs : CallInv(p)'
  BY <1>1, IdleIsCall, EndedInv DEF Ends, Success
<1> QED
  BY <1>3, <1>5, <1>6, <1>8, <1>9 DEF IInv

LEMMA UserTouchesKeeps == ASSUME IInv, UserTouches PROVE IInv'
<1>1. UNCHANGED <<ground, lock, st>>
  BY DEF UserTouches, ground
<1>2. Types' /\ Releases' /\ Durable' /\ Selections'
  BY <1>1, GroundKept DEF IInv, Types
<1>3. \A p \in Procs : CallInv(p)'
  BY <1>1, Undisturbed DEF IInv
<1> QED
  BY <1>2, <1>3 DEF IInv

-----------------------------------------------------------------------------
(* The theorems.                                                           *)

LEMMA InitIInv == ASSUME Init PROVE IInv
<1>1. Types
  BY IdleIsCall DEF Init, Types, SomeBundles
<1>2. Releases /\ Durable /\ Selections
  BY DEF Init, Releases, Durable, Selections, Usable
<1>3. ASSUME NEW p \in Procs PROVE CallInv(p)
  <2>1. st[p].at = "idle" /\ st[p].moved = FALSE
    BY IdleIsCall DEF Init
  <2> QED
    BY <2>1 DEF CallInv, Moved, Carried, LockHeld, Chosen, Published, Ready, Success, Locked,
       Staging, Activating
<1> QED
  BY <1>1, <1>2, <1>3 DEF IInv

LEMMA CallKeeps == ASSUME IInv, NEW p \in Procs, Call(p) PROVE IInv'
BY OpenRefusedKeeps, InstallBeginKeeps, RollbackBeginKeeps, InfoBeginKeeps DEF Call

LEMMA StepKeeps == ASSUME IInv, NEW p \in Procs, Step(p) PROVE IInv'
BY CreateKeeps, LockKeeps, InstallReadKeeps, StageNewKeeps, PublishReleaseKeeps, SyncReleasesKeeps,
   StageExistingKeeps, ProbeStagedKeeps, RollbackReadKeeps, MakeActivationKeeps, FillActivationKeeps,
   LinkActivationKeeps, SwitchKeeps, ConfirmKeeps, InfoAgainKeeps, ExitKeeps DEF Step

\* The invariant is inductive.
THEOREM Invariance == Spec => []IInv
<1>1. IInv /\ [Next]_vars => IInv'
  <2> SUFFICES ASSUME IInv, [Next]_vars PROVE IInv'
    OBVIOUS
  <2>1. CASE UNCHANGED vars
    <3>1. UNCHANGED <<ground, lock, st>>
      BY <2>1 DEF vars, disk, ground
    <3>2. Types' /\ Releases' /\ Durable' /\ Selections'
      BY <3>1, GroundKept DEF IInv, Types
    <3>3. \A p \in Procs : CallInv(p)'
      BY <3>1, Undisturbed DEF IInv
    <3> QED
      BY <3>2, <3>3 DEF IInv
  <2> QED
    BY <2>1, CallKeeps, StepKeeps, IoFailsKeeps, KillKeeps, PowerLossKeeps, UserTouchesKeeps DEF Next
<1> QED
  BY <1>1, InitIInv, PTL DEF Spec

\* Neither `current` nor what the disk holds of it ever names an unfinished activation
\* or a release that is not there, however many processes run, die or fail.
THEOREM SelectionIsWhole == Spec => []SelectionWhole
<1>1. IInv => SelectionWhole
  <2> SUFFICES ASSUME IInv PROVE SelectionWhole
    OBVIOUS
  <2>1. Synced \subseteq {i \in Ids : rel[i] # NoBundle} \cup orphans
    BY DEF IInv, Durable, Synced
  <2>2. Usable(cur, {i \in Ids : rel[i] # NoBundle} \cup orphans)
    BY <2>1 DEF IInv, Selections, Usable
  <2> QED
    BY <2>2 DEF IInv, Selections, SelectionWhole, Synced
<1> QED
  BY <1>1, Invariance, PTL

\* Every published release was verified under the trust the root pinned, for any number
\* of racing first installs with different policies.
THEOREM TrustIsKept == Spec => []TrustKept
<1>1. IInv => TrustKept
  BY DEF IInv, Releases, TrustKept
<1> QED
  BY <1>1, Invariance, PTL

\* What a call reports about the switch is what it did.
THEOREM ReportIsTrue == Spec => []ReportFits
<1>1. IInv => ReportFits
  BY DEF IInv, CallInv, Moved, ReportFits, Success
<1> QED
  BY <1>1, Invariance, PTL

\* Each switch records as previous exactly the release it replaces, and no other step
\* moves the selection forward.
THEOREM RollbackUndoes == Spec => PreviousIsPredecessor
<1>1. ASSUME IInv, [Next]_vars, cur' > cur PROVE acts'[cur'].prev = Selection(cur).rel
  <2>1. cur' # cur /\ cur' # curSafe
    BY <1>1 DEF IInv, Types
  <2>2. ASSUME NEW p \in Procs, Call(p) PROVE cur' = cur
    <3>1. ASSUME NEW op, NEW b, NEW t, InstallBegin(p, op, b, t) PROVE cur' = cur
      BY <3>1 DEF InstallBegin, disk
    <3>2. CASE OpenRefused(p) \/ RollbackBegin(p) \/ InfoBegin(p)
      BY <3>2 DEF OpenRefused, RollbackBegin, InfoBegin, disk
    <3> QED
      BY <2>2, <3>1, <3>2 DEF Call
  <2>3. ASSUME NEW p \in Procs, Step(p), ~Switch(p) PROVE cur' = cur
    <3>1. CASE Create(p) \/ Lock(p) \/ InstallRead(p) \/ StageNew(p) \/ PublishRelease(p) \/ SyncReleases(p)
      BY <3>1 DEF Create, Lock, InstallRead, StageNew, PublishRelease, SyncReleases, Refuse, disk
    <3>2. ASSUME NEW answers, StageExisting(p, answers) \/ ProbeStaged(p, answers) \/ RollbackRead(p, answers)
          PROVE  cur' = cur
      BY <3>2 DEF StageExisting, ProbeStaged, RollbackRead, Refuse, disk
    <3>3. CASE MakeActivation(p) \/ FillActivation(p) \/ LinkActivation(p) \/ Confirm(p) \/ InfoAgain(p) \/ Exit(p)
      BY <3>3 DEF MakeActivation, FillActivation, LinkActivation, Confirm, InfoAgain, Exit, Refuse, disk
    <3> QED
      BY <2>3, <3>1, <3>2, <3>3 DEF Step
  <2>4. ASSUME NEW p \in Procs, IoFails(p) \/ Kill(p) PROVE cur' = cur
    BY <2>4 DEF IoFails, Kill
  <2>5. PowerLoss => cur' \in {cur, curSafe}
    BY DEF PowerLoss
  <2>6. UserTouches \/ UNCHANGED vars => cur' = cur
    BY DEF UserTouches, vars, disk
  <2>7. PICK p \in Procs : Switch(p)
    BY <1>1, <2>1, <2>2, <2>3, <2>4, <2>5, <2>6 DEF Next
  <2>8. st[p].at = "switch" /\ cur' = st[p].act /\ acts' = acts
    BY <2>7 DEF Switch, At
  <2> QED
    BY <1>1, <2>8 DEF IInv, CallInv, Ready, Activating
<1>2. IInv /\ [Next]_vars => [cur' > cur => acts'[cur'].prev = Selection(cur).rel]_vars
  BY <1>1
<1> QED
  BY <1>2, Invariance, PTL DEF Spec, PreviousIsPredecessor
=============================================================================
