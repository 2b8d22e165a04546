--------------------------- MODULE InstallProofs ----------------------------
(***************************************************************************)
(* Proofs about Install, for every set of installers, files and            *)
(* directories: what a receipt, an Ok, an error and a recorded owner are   *)
(* worth, whatever dies, fails or loses power.                             *)
(*                                                                         *)
(* None of the properties is inductive.  A root is changed only by the     *)
(* installer that made it, until a power loss, which leaves no installer   *)
(* at work.  So IInv describes each root by where its own installer stands *)
(* (RootInv), and adds who owns the destination.                           *)
(***************************************************************************)
EXTENDS Install, TLAPS

Before == {"idle", "open", "trust", "begin", "reserve", "anchor", "own"}
Committing == {"manifest", "temp", "link", "unlink", "publish", "dropped", "undo"}
MayHaveReceipt == {"unlink", "publish", "dropped", "ok", "uncertain", "dead"}

\* The files of d.
In(d) == {f \in Files : Home[f] = d}
\* The directories in d, and all its names.
Sub(d) == {e \in Dirs \ {Root} : Up[e] = d}
Full(d) == In(d) \cup Sub(d)
\* The root's own names before its receipt.
Unsigned == {"manifest"} \cup Sub(Root)

\* What is there may be left by a power loss.
Present(i) == \A d \in Dirs : tree[i][d] \in kept[i][d]

\* The owner is recorded between the reservation and the first file.
Recorded(i) ==
    /\ pc[i] \in Before => i \notin owned
    /\ pc[i] \in {"payload", "commit"} \cup Committing => i \in owned

\* Nothing has been written.
Blank(i) == pc[i] \in Before =>
    /\ \A d \in Dirs : tree[i][d] = {} /\ kept[i][d] = {{}}
    /\ \A f \in Files : stage[i][f] = "absent"
    /\ active[i] = None

\* The names are the package's own: those of the files begun, and of the directories on
\* the way to them.  A directory that has no files is synced whenever it changes.
Unpacking(i) == pc[i] = "payload" =>
    /\ \A f \in Files : stage[i][f] # "final"
    /\ \A f \in Files : stage[i][f] # "absent" => f \in tree[i][Home[f]] /\ HasWay(i, Home[f])
    /\ \A d \in Dirs : tree[i][d] \subseteq Full(d)
    /\ \A d \in Dirs : In(d) = {} => kept[i][d] = {tree[i][d]}

\* All names are there; a directory with a finished file, or with none, is synced.
Finishing(i) == pc[i] = "commit" =>
    /\ \A f \in Files : stage[i][f] \in {"synced", "final"}
    /\ \A d \in Dirs : tree[i][d] = Full(d)
    /\ \A d \in Dirs \ {Root} :
         In(d) = {} \/ (\E f \in In(d) : stage[i][f] = "final") => kept[i][d] = {Full(d)}

\* The payload is finished and durable.
Payload(i) ==
    /\ \A f \in Files : stage[i][f] = "final"
    /\ \A d \in Dirs \ {Root} : kept[i][d] = {Full(d)}
Sealed(i) == pc[i] \in Committing => Payload(i)

\* The names of the root at each step of the commit.
RootNames(i) ==
    /\ pc[i] \in {"manifest", "temp"} => tree[i][Root] = Unsigned
    /\ pc[i] = "link" => tree[i][Root] = Unsigned \cup {"temp"}
    /\ pc[i] = "unlink" => tree[i][Root] = Unsigned \cup {"temp", "receipt"}
    /\ pc[i] = "publish" => tree[i][Root] = Unsigned \cup {"receipt"}
    /\ pc[i] \in {"dropped", "undo"} => tree[i][Root] \ {"temp", "receipt"} = Unsigned
    /\ pc[i] = "undo" => "receipt" \notin tree[i][Root]

\* Before the link, and after an error before it, no receipt can come to light.
NoReceipt(i) == pc[i] \notin MayHaveReceipt => \A S \in kept[i][Root] : "receipt" \notin S

\* A receipt that can come to light stands in a finished root.
Whole(i) == \A S \in kept[i][Root] :
    "receipt" \in S => Payload(i) /\ S \ {"temp"} = Unsigned \cup {"receipt"}

\* After Ok there is one thing a power loss can leave.
Settled(i) == pc[i] = "ok" => Payload(i) /\ kept[i][Root] = {Unsigned \cup {"receipt"}}

RootInv(i) ==
    /\ Present(i) /\ Recorded(i) /\ Blank(i) /\ Unpacking(i) /\ Finishing(i)
    /\ Sealed(i) /\ RootNames(i) /\ NoReceipt(i) /\ Whole(i) /\ Settled(i)

\* The owner of the destination is the only one a power loss can leave there.
DurableOwner == \A i \in Installers :
    dest = i /\ (i \in owned \/ pc[i] = "own") => destKept = {i}

\* After Ok the destination stays.
OkStays == \A i \in Installers : pc[i] = "ok" => dest = i /\ destKept = {i}

IInv == TypeOK /\ DurableOwner /\ OkStays /\ \A i \in Installers : RootInv(i)

-----------------------------------------------------------------------------
(* What the steps have in common.                                          *)

\* The names of the commit are none of the package's own.
LEMMA NamesApart ==
    /\ "receipt" \notin Unsigned /\ "temp" \notin Unsigned
    /\ \A f \in Files : Home[f] \in Dirs \ {Root}
    /\ Files \cap Dirs = {}
    /\ Inventory(Root) = Unsigned \cup {"receipt"}
    /\ \A d \in Dirs \ {Root} : Inventory(d) = Full(d)
    /\ \A d \in Dirs : Full(d) \subseteq Files \cup Dirs
    /\ In(Root) = {}
    /\ "receipt" \notin Files \cup Dirs
<1>1. \A f \in Files : PathOf(f) \in Manifest.paths /\ PathOf(f).at = f
  BY DEF Manifest, PathOf
<1>2. /\ \A path \in Manifest.paths : ValidPath(path)
      /\ {path.at : path \in Manifest.paths} \cap Dirs = {}
  BY ManifestAssumption DEF ValidManifest
<1>3. \A f \in Files : Home[f] \in Dirs \ {Root} /\ f \notin Dirs
  BY <1>1, <1>2, InstallAssumption DEF ValidPath
<1>4. "receipt" \notin Unsigned /\ "temp" \notin Unsigned
  BY InstallAssumption DEF Unsigned, Sub
<1>5. In(Root) = {}
  BY <1>3 DEF In
<1>6. Inventory(Root) = Unsigned \cup {"receipt"}
  BY <1>5 DEF Inventory, Unsigned, In, Sub
<1>7. \A d \in Dirs \ {Root} : Inventory(d) = Full(d)
  BY DEF Inventory, Full, In, Sub
<1>8. \A d \in Dirs : Full(d) \subseteq Files \cup Dirs
  BY DEF Full, In, Sub
<1>9. "receipt" \notin Files \cup Dirs
  BY InstallAssumption
<1> QED BY <1>3, <1>4, <1>5, <1>6, <1>7, <1>8, <1>9

\* The way to a directory goes through directories of the package, to the root.
LEMMA Ways ==
    ASSUME NEW d \in Dirs
    PROVE  \A e \in Way[d] : e \in Dirs \ {Root} /\ Up[e] \in Dirs /\ e \in Sub(Up[e])
BY InstallAssumption DEF Sub

\* RootInv(j) speaks of what belongs to j only.
LEMMA Frame ==
    ASSUME NEW j \in Installers, RootInv(j),
           pc'[j] = pc[j], tree'[j] = tree[j], kept'[j] = kept[j], stage'[j] = stage[j],
           active'[j] = active[j], j \in owned' <=> j \in owned
    PROVE  RootInv(j)'
BY DEF RootInv, Present, Recorded, Blank, Unpacking, Finishing, Sealed, RootNames, NoReceipt,
   Whole, Settled, Payload, HasWay

\* A step of installer i leaves the roots of the others alone.
LEMMA StepOf ==
    ASSUME IInv, NEW i \in Installers, TypeOK', DurableOwner', OkStays', RootInv(i)',
           \A j \in Installers \ {i} :
               /\ pc'[j] = pc[j] /\ tree'[j] = tree[j] /\ kept'[j] = kept[j]
               /\ stage'[j] = stage[j] /\ active'[j] = active[j]
               /\ j \in owned' <=> j \in owned
    PROVE  IInv'
BY Frame DEF IInv

\* A step that moves installer i only.
LEMMA OnlyMoves ==
    ASSUME IInv, NEW i \in Installers, NEW to \in PCs, pc' = [pc EXCEPT ![i] = to],
           UNCHANGED <<dest, destKept, owned, tree, kept, stage, active>>,
           to # "ok", to = "own" => pc[i] = "own" \/ dest # i, RootInv(i)'
    PROVE  IInv'
<1>1. TypeOK'
  BY DEF IInv, TypeOK
<1>2. DurableOwner' /\ OkStays'
  BY DEF IInv, TypeOK, DurableOwner, OkStays
<1> QED
  BY <1>1, <1>2, StepOf DEF IInv, TypeOK

\* Whatever is given up before the link is incomplete.
LEMMA FailingKeeps ==
    ASSUME IInv, NEW i \in Installers, pc[i] \notin MayHaveReceipt,
           pc' = [pc EXCEPT ![i] = "failed"],
           UNCHANGED <<dest, destKept, owned, tree, kept, stage, active>>
    PROVE  IInv'
<1>1. pc'[i] = "failed"
  BY DEF IInv, TypeOK
<1>2. RootInv(i)'
  BY <1>1 DEF IInv, RootInv, Present, Recorded, Before, Committing, Blank, Unpacking, Finishing,
     Sealed, RootNames, NoReceipt, Whole, Settled, Payload
<1>3. "failed" \in PCs
  BY DEF PCs, Done
<1> QED
  BY <1>2, <1>3, OnlyMoves

\* A step towards the reservation: nothing has been written, and nothing is.
LEMMA EarlyKeeps ==
    ASSUME IInv, NEW i \in Installers, NEW to \in Before \ {"own"}, pc[i] \in Before,
           pc' = [pc EXCEPT ![i] = to],
           UNCHANGED <<dest, destKept, owned, tree, kept, stage, active>>
    PROVE  IInv'
<1>1. pc'[i] = to /\ to \in PCs
  BY DEF IInv, TypeOK, Before, PCs, Done
<1>2. RootInv(i)'
  BY <1>1 DEF IInv, RootInv, Present, Recorded, Before, Committing, Blank, Unpacking, Finishing,
     Sealed, RootNames, NoReceipt, MayHaveReceipt, Whole, Settled, Payload
<1> QED
  BY <1>1, <1>2, OnlyMoves DEF Before

\* What SetDir and SetDirSync do.
LEMMA Written ==
    ASSUME TypeOK, NEW i \in Installers, NEW d \in Dirs, NEW S \in SUBSET Names,
           SetDir(i, d, S) \/ SetDirSync(i, d, S)
    PROVE  /\ tree'[i][d] = S
           /\ kept'[i][d] \in {kept[i][d] \cup {S}, {S}}
           /\ SetDirSync(i, d, S) => kept'[i][d] = {S}
           /\ \A e \in Dirs \ {d} : tree'[i][e] = tree[i][e] /\ kept'[i][e] = kept[i][e]
           /\ \A j \in Installers \ {i} : tree'[j] = tree[j] /\ kept'[j] = kept[j]
           /\ tree' \in [Installers -> [Dirs -> SUBSET Names]]
           /\ kept' \in [Installers -> [Dirs -> SUBSET SUBSET Names]]
<1>1. PICK K \in {kept[i][d] \cup {S}, {S}} :
         /\ kept' = [kept EXCEPT ![i][d] = K]
         /\ SetDirSync(i, d, S) => K = {S}
  BY DEF SetDir, SetDirSync, TypeOK
<1>2. K \in SUBSET SUBSET Names
  <2>1. kept[i][d] \in SUBSET SUBSET Names
    BY DEF TypeOK
  <2>2. \A T \in K : T \in SUBSET Names
    BY <2>1
  <2> QED
    BY <2>2
<1>3. tree' = [tree EXCEPT ![i][d] = S]
  BY DEF SetDir, SetDirSync
<1>4. /\ tree'[i][d] = S
      /\ \A e \in Dirs \ {d} : tree'[i][e] = tree[i][e]
      /\ \A j \in Installers \ {i} : tree'[j] = tree[j]
      /\ tree' \in [Installers -> [Dirs -> SUBSET Names]]
  BY <1>3 DEF TypeOK
<1>5. /\ kept'[i][d] = K
      /\ \A e \in Dirs \ {d} : kept'[i][e] = kept[i][e]
      /\ \A j \in Installers \ {i} : kept'[j] = kept[j]
      /\ kept' \in [Installers -> [Dirs -> SUBSET SUBSET Names]]
  BY <1>1, <1>2 DEF TypeOK
<1> QED
  BY <1>1, <1>4, <1>5

-----------------------------------------------------------------------------
(* One lemma per action: it keeps the invariant.                           *)

LEMMA NewKeeps == ASSUME IInv, NEW i \in Installers, New(i) PROVE IInv'
<1>1. pc[i] = "idle" /\ (pc' = [pc EXCEPT ![i] = "open"] \/ pc' = [pc EXCEPT ![i] = "failed"])
  BY DEF New, Goto
<1> QED
  BY <1>1, EarlyKeeps, FailingKeeps DEF New, Before, MayHaveReceipt

LEMMA OpenArchiveKeeps == ASSUME IInv, NEW i \in Installers, OpenArchive(i) PROVE IInv'
<1>1. pc[i] = "open" /\ (pc' = [pc EXCEPT ![i] = "trust"] \/ pc' = [pc EXCEPT ![i] = "failed"])
  BY DEF OpenArchive, Goto
<1> QED
  BY <1>1, EarlyKeeps, FailingKeeps DEF OpenArchive, Before, MayHaveReceipt

LEMMA TrustKeeps == ASSUME IInv, NEW i \in Installers, Trust(i) PROVE IInv'
<1>1. pc[i] = "trust" /\ (pc' = [pc EXCEPT ![i] = "begin"] \/ pc' = [pc EXCEPT ![i] = "failed"])
  BY DEF Trust, Goto
<1> QED
  BY <1>1, EarlyKeeps, FailingKeeps DEF Trust, Before, MayHaveReceipt

LEMMA BeginKeeps == ASSUME IInv, NEW i \in Installers, Begin(i) PROVE IInv'
<1>1. pc[i] = "begin" /\ (pc' = [pc EXCEPT ![i] = "reserve"] \/ pc' = [pc EXCEPT ![i] = "failed"])
  BY DEF Begin, Goto
<1> QED
  BY <1>1, EarlyKeeps, FailingKeeps DEF Begin, Before, MayHaveReceipt

\* The new name may be lost, but it belongs to nobody yet, and it hides no Ok.
LEMMA ReserveKeeps == ASSUME IInv, NEW i \in Installers, Reserve(i) PROVE IInv'
<1>1. CASE pc' = [pc EXCEPT ![i] = "failed"] /\ UNCHANGED <<dest, destKept>>
  BY <1>1, FailingKeeps DEF Reserve, Goto, MayHaveReceipt
<1>2. CASE DestinationIsNew /\ Goto(i, "reserve", "anchor") /\ dest' = i /\ destKept' = destKept \cup {i}
  <2>1. pc'[i] = "anchor" /\ i \notin owned /\ dest = None
    BY <1>2 DEF IInv, TypeOK, RootInv, Recorded, Before, Goto, DestinationIsNew
  <2>2. TypeOK'
    BY <1>2, <2>1 DEF IInv, TypeOK, Reserve, Goto, PCs, Done
  <2>3. DurableOwner'
    BY <1>2, <2>1 DEF IInv, TypeOK, DurableOwner, Reserve, Goto
  <2>4. OkStays'
    BY <1>2, <2>1, InstallAssumption DEF IInv, TypeOK, OkStays, Reserve, Goto
  <2>5. RootInv(i)'
    BY <1>2, <2>1 DEF IInv, Reserve, Goto, RootInv, Present, Recorded, Before, Committing, Blank,
       Unpacking, Finishing, Sealed, RootNames, NoReceipt, MayHaveReceipt, Whole, Settled, Payload
  <2> QED
    BY <1>2, <2>2, <2>3, <2>4, <2>5, StepOf DEF IInv, TypeOK, Reserve, Goto
<1> QED
  BY <1>1, <1>2 DEF Reserve, Goto

\* The parent is synced: only this root can be left at the destination.
LEMMA AnchorKeeps == ASSUME IInv, NEW i \in Installers, Anchor(i) PROVE IInv'
<1>1. pc'[i] = "own" /\ pc[i] = "anchor" /\ dest = i /\ destKept' = {i}
  BY DEF IInv, TypeOK, Anchor, Goto, CheckAnchor
<1>2. TypeOK'
  BY <1>1 DEF IInv, TypeOK, Anchor, Goto, PCs, Done
<1>3. DurableOwner' /\ OkStays'
  BY <1>1 DEF IInv, TypeOK, DurableOwner, OkStays, Anchor, Goto
<1>4. RootInv(i)'
  BY <1>1 DEF IInv, Anchor, RootInv, Present, Recorded, Before, Committing, Blank,
     Unpacking, Finishing, Sealed, RootNames, NoReceipt, MayHaveReceipt, Whole, Settled, Payload
<1> QED
  BY <1>2, <1>3, <1>4, StepOf DEF IInv, TypeOK, Anchor, Goto

\* Only now is the owner recorded.
LEMMA OwnKeeps == ASSUME IInv, NEW i \in Installers, Own(i) PROVE IInv'
<1>1. pc[i] = "own" /\ pc'[i] \in {"payload", "failed"} /\ owned' = owned \cup {i}
  BY DEF IInv, TypeOK, Own, Goto
<1>2. TypeOK'
  BY <1>1 DEF IInv, TypeOK, Own, Goto, PCs, Done
<1>3. DurableOwner' /\ OkStays'
  BY <1>1 DEF IInv, TypeOK, DurableOwner, OkStays, Own, Goto
<1>4. RootInv(i)'
  <2>1. Blank(i) /\ Present(i)
    BY DEF IInv, RootInv
  <2>2. Unpacking(i)'
    BY <1>1, <2>1 DEF Blank, Before, Unpacking, Own
  <2>3. Present(i)' /\ Recorded(i)' /\ Blank(i)' /\ Finishing(i)' /\ Sealed(i)'
    BY <1>1, <2>1 DEF Own, Present, Recorded, Before, Committing, Blank, Finishing, Sealed
  <2>4. RootNames(i)' /\ NoReceipt(i)' /\ Whole(i)' /\ Settled(i)'
    BY <1>1, <2>1, InstallAssumption DEF Own, RootNames, NoReceipt, Whole, Settled, Blank, Before
  <2> QED
    BY <2>2, <2>3, <2>4 DEF RootInv
<1> QED
  BY <1>2, <1>3, <1>4, StepOf DEF IInv, TypeOK, Own, Goto

LEMMA NextEntryKeeps ==
    ASSUME IInv, NEW i \in Installers, NEW f \in Files, NextEntry(i, f) PROVE IInv'
<1>1. /\ pc[i] = "payload" /\ UNCHANGED <<pc, dest, destKept, owned, tree, kept, stage>>
      /\ active' = [active EXCEPT ![i] = f]
  BY DEF NextEntry
<1>2. TypeOK' /\ DurableOwner' /\ OkStays'
  BY <1>1 DEF IInv, TypeOK, DurableOwner, OkStays
<1>3. RootInv(i)'
  BY <1>1 DEF IInv, RootInv, Present, Recorded, Before, Blank, Unpacking, Finishing, Sealed, RootNames,
     NoReceipt, Whole, Settled, Payload, HasWay
<1> QED
  BY <1>1, <1>2, <1>3, StepOf DEF IInv, TypeOK

\* A step of the payload that gives the directory h the names S.
LEMMA PayloadStep ==
    ASSUME IInv, NEW i \in Installers, NEW h \in Dirs, NEW S, S \subseteq Full(h),
           pc[i] = "payload", UNCHANGED <<pc, dest, destKept, owned, active>>,
           tree[i][h] \subseteq S,
           SetDir(i, h, S) \/ SetDirSync(i, h, S),
           In(h) = {} => SetDirSync(i, h, S),
           stage' \in [Installers -> [Files -> Stages]],
           \A j \in Installers \ {i} : stage'[j] = stage[j],
           \A g \in Files : stage'[i][g] # "final",
           \A g \in Files : stage'[i][g] # "absent" =>
               /\ g \in tree[i][Home[g]] \/ (Home[g] = h /\ g \in S)
               /\ HasWay(i, Home[g])
    PROVE  IInv'
<1>1. RootInv(i) /\ Unpacking(i) /\ TypeOK
  BY DEF IInv, RootInv
<1>2. S \in SUBSET Names
  BY NamesApart DEF Names
<1>3. /\ tree'[i][h] = S
      /\ kept'[i][h] \in {kept[i][h] \cup {S}, {S}}
      /\ SetDirSync(i, h, S) => kept'[i][h] = {S}
      /\ \A e \in Dirs \ {h} : tree'[i][e] = tree[i][e] /\ kept'[i][e] = kept[i][e]
      /\ \A j \in Installers \ {i} : tree'[j] = tree[j] /\ kept'[j] = kept[j]
      /\ tree' \in [Installers -> [Dirs -> SUBSET Names]]
      /\ kept' \in [Installers -> [Dirs -> SUBSET SUBSET Names]]
  BY <1>1, <1>2, Written, Zenon
<1>4. TypeOK'
  BY <1>1, <1>3 DEF TypeOK
<1>5. DurableOwner' /\ OkStays'
  BY DEF IInv, DurableOwner, OkStays
<1>6. \A d \in Dirs : tree[i][d] \subseteq tree'[i][d]
  BY <1>3
<1>7. RootInv(i)'
  <2>1. Present(i)'
    BY <1>1, <1>3 DEF RootInv, Present
  <2>2. \A d \in Dirs : HasWay(i, d) => HasWay(i, d)'
    BY <1>6, Ways DEF HasWay
  <2>3. \A g \in Files : Home[g] \in Dirs
    BY NamesApart
  <2>4. \A g \in Files : stage'[i][g] # "absent" => g \in tree'[i][Home[g]] /\ HasWay(i, Home[g])'
    BY <1>3, <1>6, <2>2, <2>3
  <2>5. \A d \in Dirs : tree'[i][d] \subseteq Full(d)
    BY <1>1, <1>3 DEF Unpacking
  <2>6. \A d \in Dirs : In(d) = {} => kept'[i][d] = {tree'[i][d]}
    BY <1>1, <1>3 DEF Unpacking
  <2>7. Unpacking(i)'
    BY <2>4, <2>5, <2>6 DEF Unpacking
  <2>8. "receipt" \notin S
    <3>1. S \subseteq Files \cup Dirs
      BY NamesApart
    <3> QED
      BY <3>1, NamesApart
  <2>9. \A T \in kept'[i][Root] : "receipt" \notin T
    <3>1. \A T \in kept[i][Root] : "receipt" \notin T
      BY <1>1 DEF RootInv, NoReceipt, MayHaveReceipt
    <3>2. Root \in Dirs
      BY InstallAssumption
    <3> QED
      BY <1>3, <2>8, <3>1, <3>2
  <2>10. NoReceipt(i)' /\ Whole(i)'
    BY <2>9 DEF NoReceipt, Whole
  <2>11. Recorded(i)' /\ Blank(i)' /\ Finishing(i)' /\ Sealed(i)' /\ RootNames(i)' /\ Settled(i)'
    BY <1>1 DEF RootInv, Recorded, Before, Blank, Finishing, Sealed, Committing, RootNames, Settled
  <2> QED
    BY <2>1, <2>7, <2>10, <2>11 DEF RootInv
<1> QED
  BY <1>1, <1>3, <1>4, <1>5, <1>7, StepOf DEF TypeOK

\* A directory comes into the one above it, which is synced; nothing is a receipt.
LEMMA FileParentKeeps ==
    ASSUME IInv, NEW i \in Installers, NEW d \in Dirs, FileParent(i, d) PROVE IInv'
<1>1. /\ TypeOK /\ Unpacking(i) /\ pc[i] = "payload"
      /\ active[i] \in Files /\ d \in Way[Home[active[i]]]
      /\ UNCHANGED <<pc, dest, destKept, owned, stage, active>>
      /\ SetDirSync(i, Up[d], tree[i][Up[d]] \cup {d})
  BY DEF FileParent, IInv, RootInv, TypeOK
<1>2. Up[d] \in Dirs /\ d \in Full(Up[d])
  BY <1>1, Ways, NamesApart DEF Full
<1>3. tree[i][Up[d]] \cup {d} \subseteq Full(Up[d])
  BY <1>1, <1>2 DEF Unpacking
<1>4. \A g \in Files : /\ stage[i][g] # "final"
                       /\ stage[i][g] # "absent" => g \in tree[i][Home[g]] /\ HasWay(i, Home[g])
  BY <1>1 DEF Unpacking
<1>5. stage' \in [Installers -> [Files -> Stages]]
  BY <1>1 DEF TypeOK
<1> QED
  BY <1>1, <1>2, <1>3, <1>4, <1>5, PayloadStep

\* A file comes into its directory, which is there.
LEMMA StartFileKeeps ==
    ASSUME IInv, NEW i \in Installers, NEW f \in Files, StartFile(i, f) PROVE IInv'
<1> DEFINE h == Home[f]
<1>1. /\ TypeOK /\ Unpacking(i) /\ pc[i] = "payload"
      /\ UNCHANGED <<pc, dest, destKept, owned, active>>
      /\ SetDir(i, h, tree[i][h] \cup {f}) /\ HasWay(i, h)
      /\ stage' = [stage EXCEPT ![i][f] = "partial"]
  BY DEF StartFile, IInv, RootInv
<1>2. h \in Dirs /\ f \in In(h) /\ In(h) # {}
  BY NamesApart DEF In
<1>3. tree[i][h] \cup {f} \subseteq Full(h)
  BY <1>1, <1>2 DEF Unpacking, Full
<1>4. /\ stage' \in [Installers -> [Files -> Stages]]
      /\ \A j \in Installers \ {i} : stage'[j] = stage[j]
      /\ \A g \in Files : stage'[i][g] = IF g = f THEN "partial" ELSE stage[i][g]
  BY <1>1 DEF TypeOK, Stages
<1>5. \A g \in Files :
        /\ stage'[i][g] # "final"
        /\ stage'[i][g] # "absent" =>
             /\ g \in tree[i][Home[g]] \/ (Home[g] = h /\ g \in tree[i][h] \cup {f})
             /\ HasWay(i, Home[g])
  BY <1>1, <1>4 DEF Unpacking
<1> HIDE DEF h
<1> QED
  BY <1>1, <1>2, <1>3, <1>4, <1>5, PayloadStep

LEMMA EntryRefusedKeeps == ASSUME IInv, NEW i \in Installers, EntryRefused(i) PROVE IInv'
BY FailingKeeps DEF EntryRefused, Goto, MayHaveReceipt

LEMMA PayloadRefusedKeeps == ASSUME IInv, NEW i \in Installers, PayloadRefused(i) PROVE IInv'
BY FailingKeeps DEF PayloadRefused, Goto, MayHaveReceipt

LEMMA EndRefusedKeeps == ASSUME IInv, NEW i \in Installers, EndRefused(i) PROVE IInv'
BY FailingKeeps DEF EndRefused, Goto, MayHaveReceipt

\* The open file was begun, so its name is there.
LEMMA FinishFileKeeps == ASSUME IInv, NEW i \in Installers, FinishFile(i) PROVE IInv'
<1>1. /\ pc[i] = "payload" /\ active[i] \in Files /\ stage[i][active[i]] # "absent"
      /\ UNCHANGED <<pc, dest, destKept, owned, tree, kept>>
  BY DEF FinishFile, IInv, TypeOK
<1>2. /\ \A g \in Files : stage'[i][g] = IF g = active[i] THEN "synced" ELSE stage[i][g]
      /\ active'[i] = None
  BY <1>1 DEF FinishFile, IInv, TypeOK
<1>3. TypeOK'
  BY <1>1 DEF FinishFile, IInv, TypeOK, Stages
<1>4. DurableOwner' /\ OkStays'
  BY <1>1 DEF IInv, DurableOwner, OkStays
<1>5. RootInv(i)'
  <2>1. RootInv(i)
    BY DEF IInv
  <2>2. Unpacking(i)'
    <3>1. \A g \in Files : stage'[i][g] # "absent" <=> stage[i][g] # "absent"
      BY <1>1, <1>2
    <3> QED
      BY <1>1, <1>2, <2>1, <3>1 DEF RootInv, Unpacking, HasWay
  <2>3. \A S \in kept'[i][Root] : "receipt" \notin S
    BY <1>1, <2>1 DEF RootInv, NoReceipt, MayHaveReceipt
  <2>4. Present(i)' /\ NoReceipt(i)' /\ Whole(i)'
    BY <1>1, <2>1, <2>3 DEF RootInv, Present, NoReceipt, Whole
  <2>5. Recorded(i)' /\ Blank(i)' /\ Finishing(i)' /\ Sealed(i)' /\ RootNames(i)' /\ Settled(i)'
    BY <1>1, <2>1 DEF RootInv, Recorded, Before, Blank, Finishing, Sealed, Committing,
       RootNames, Settled
  <2> QED
    BY <2>2, <2>4, <2>5 DEF RootInv
<1> QED
  BY <1>1, <1>3, <1>4, <1>5, StepOf DEF FinishFile, IInv, TypeOK

\* Every file is synced, so every name of the payload is there.
LEMMA ArchiveVerifiedKeeps == ASSUME IInv, NEW i \in Installers, ArchiveVerified(i) PROVE IInv'
<1>1. /\ pc[i] = "payload" /\ pc' = [pc EXCEPT ![i] = "commit"] /\ pc'[i] = "commit"
      /\ \A f \in Files : stage[i][f] = "synced"
      /\ UNCHANGED <<dest, destKept, owned, tree, kept, stage, active>>
  BY DEF ArchiveVerified, Goto, IInv, TypeOK
<1>2. RootInv(i)'
  <2>1. RootInv(i)
    BY DEF IInv
  <2>2. Finishing(i)'
    <3>1. Unpacking(i)
      BY <2>1 DEF RootInv
    <3>2. ASSUME NEW d \in Dirs, NEW e \in Sub(d) PROVE e \in tree[i][d]
      <4>1. PICK f \in Files : e \in Way[Home[f]]
        BY InstallAssumption DEF Sub
      <4>2. HasWay(i, Home[f])
        BY <1>1, <3>1 DEF Unpacking
      <4> QED
        BY <4>1, <4>2 DEF HasWay, Sub
    <3>3. \A d \in Dirs : In(d) \subseteq tree[i][d]
      BY <1>1, <3>1 DEF Unpacking, In
    <3>4. \A d \in Dirs : tree[i][d] = Full(d)
      BY <1>1, <3>1, <3>2, <3>3 DEF Unpacking, Full
    <3>5. \A d \in Dirs : In(d) = {} => kept[i][d] = {Full(d)}
      BY <1>1, <3>1, <3>4 DEF Unpacking
    <3>6. \A d \in Dirs \ {Root} : ~\E f \in In(d) : stage[i][f] = "final"
      BY <1>1 DEF In
    <3> QED
      BY <1>1, <3>4, <3>5, <3>6 DEF Finishing
  <2>3. \A S \in kept'[i][Root] : "receipt" \notin S
    BY <1>1, <2>1 DEF RootInv, NoReceipt, MayHaveReceipt
  <2>4. Present(i)' /\ NoReceipt(i)' /\ Whole(i)'
    BY <1>1, <2>1, <2>3 DEF RootInv, Present, NoReceipt, Whole
  <2>5. Recorded(i)' /\ Blank(i)' /\ Unpacking(i)' /\ Sealed(i)' /\ RootNames(i)' /\ Settled(i)'
    BY <1>1, <2>1 DEF RootInv, Recorded, Before, Blank, Unpacking, Sealed, Committing,
       RootNames, Settled
  <2> QED
    BY <2>2, <2>4, <2>5 DEF RootInv
<1>3. "commit" \in PCs
  BY DEF PCs
<1> QED
  BY <1>1, <1>2, <1>3, OnlyMoves

-----------------------------------------------------------------------------
(* The commit.                                                             *)

\* A step of the commit that gives the root the names S.
LEMMA CommitStep ==
    ASSUME IInv, NEW i \in Installers, NEW S \in SUBSET Names,
           NEW to \in Committing \cup {"failed", "uncertain", "ok"},
           pc[i] \in {"commit"} \cup Committing, Payload(i),
           pc' = [pc EXCEPT ![i] = to],
           SetDir(i, Root, S) \/ SetDirSync(i, Root, S),
           UNCHANGED <<dest, destKept, owned, stage, active>>,
           RootNames(i)',
           "receipt" \in S => S \ {"temp"} = Unsigned \cup {"receipt"},
           to \notin MayHaveReceipt => pc[i] \notin MayHaveReceipt /\ "receipt" \notin S,
           to = "ok" => dest = i /\ S = Unsigned \cup {"receipt"} /\ SetDirSync(i, Root, S)
    PROVE  IInv'
<1>1. /\ tree'[i][Root] = S
      /\ kept'[i][Root] \in {kept[i][Root] \cup {S}, {S}}
      /\ to = "ok" => kept'[i][Root] = {Unsigned \cup {"receipt"}}
      /\ \A e \in Dirs \ {Root} : tree'[i][e] = tree[i][e] /\ kept'[i][e] = kept[i][e]
      /\ \A j \in Installers \ {i} : tree'[j] = tree[j] /\ kept'[j] = kept[j]
      /\ tree' \in [Installers -> [Dirs -> SUBSET Names]]
      /\ kept' \in [Installers -> [Dirs -> SUBSET SUBSET Names]]
  <2>1. Root \in Dirs /\ TypeOK
    BY InstallAssumption DEF IInv
  <2>2. /\ tree'[i][Root] = S
        /\ kept'[i][Root] \in {kept[i][Root] \cup {S}, {S}}
        /\ SetDirSync(i, Root, S) => kept'[i][Root] = {S}
        /\ \A e \in Dirs \ {Root} : tree'[i][e] = tree[i][e] /\ kept'[i][e] = kept[i][e]
        /\ \A j \in Installers \ {i} : tree'[j] = tree[j] /\ kept'[j] = kept[j]
        /\ tree' \in [Installers -> [Dirs -> SUBSET Names]]
        /\ kept' \in [Installers -> [Dirs -> SUBSET SUBSET Names]]
    BY <2>1, Written, Zenon
  <2> QED
    BY <2>2
<1>2. pc'[i] = to /\ \A j \in Installers \ {i} : pc'[j] = pc[j]
  BY DEF IInv, TypeOK
<1>3. RootInv(i) /\ i \in owned
  BY DEF IInv, RootInv, Recorded
<1>4. TypeOK'
  BY <1>1 DEF IInv, TypeOK, PCs, Done, Committing
<1>5. DurableOwner' /\ OkStays'
  BY <1>2, <1>3 DEF IInv, DurableOwner, OkStays, Committing
<1>6. Payload(i)'
  BY <1>1 DEF Payload
<1>7. RootInv(i)'
  <2>1. Present(i)'
    BY <1>1, <1>3 DEF RootInv, Present
  <2>2. Recorded(i)' /\ Blank(i)' /\ Unpacking(i)' /\ Finishing(i)' /\ Sealed(i)'
    BY <1>2, <1>3, <1>6 DEF Recorded, Before, Committing, Blank, Unpacking, Finishing, Sealed
  <2>3. NoReceipt(i)'
    BY <1>1, <1>2, <1>3 DEF RootInv, NoReceipt
  <2>4. Whole(i)'
    BY <1>1, <1>3, <1>6 DEF RootInv, Whole
  <2>5. Settled(i)'
    BY <1>1, <1>2, <1>6 DEF Settled
  <2> QED
    BY <2>1, <2>2, <2>3, <2>4, <2>5 DEF RootInv
<1> QED
  BY <1>1, <1>2, <1>4, <1>5, <1>7, StepOf

\* The directory of a finished file is synced; with the last one all are.
LEMMA SetModeKeeps ==
    ASSUME IInv, NEW i \in Installers, NEW f \in Files, SetMode(i, f) PROVE IInv'
<1> DEFINE h == Home[f]
<1>1. /\ h \in Dirs \ {Root} /\ f \in In(h) /\ Root \in Dirs
      /\ pc[i] = "commit" /\ stage[i][f] = "synced"
      /\ UNCHANGED <<pc, dest, destKept, owned, active>>
  BY NamesApart, InstallAssumption DEF SetMode, In
<1>2. RootInv(i) /\ Finishing(i) /\ tree[i][h] = Full(h) /\ TypeOK
  BY <1>1 DEF IInv, RootInv, Finishing
<1>3. tree[i][h] \in SUBSET Names /\ SetDirSync(i, h, tree[i][h])
  BY <1>1, <1>2 DEF TypeOK, SetMode
<1>4. /\ tree'[i][h] = Full(h) /\ kept'[i][h] = {Full(h)}
      /\ \A e \in Dirs \ {h} : tree'[i][e] = tree[i][e] /\ kept'[i][e] = kept[i][e]
      /\ \A j \in Installers \ {i} : tree'[j] = tree[j] /\ kept'[j] = kept[j]
      /\ tree' \in [Installers -> [Dirs -> SUBSET Names]]
      /\ kept' \in [Installers -> [Dirs -> SUBSET SUBSET Names]]
  BY <1>1, <1>2, <1>3, Written
<1>5. \A g \in Files : stage'[i][g] = IF g = f THEN "final" ELSE stage[i][g]
  BY <1>2 DEF SetMode, TypeOK
<1>6. TypeOK'
  BY <1>1, <1>2, <1>4 DEF SetMode, TypeOK, Stages
<1>7. DurableOwner' /\ OkStays'
  BY <1>1 DEF IInv, DurableOwner, OkStays
<1>8. RootInv(i)'
  <2>1. Present(i)'
    BY <1>2, <1>4 DEF RootInv, Present
  <2>2. Finishing(i)'
    <3>1. \A g \in Files : stage'[i][g] \in {"synced", "final"}
      BY <1>1, <1>2, <1>5 DEF Finishing
    <3>2. \A d \in Dirs : tree'[i][d] = Full(d)
      BY <1>1, <1>2, <1>4 DEF Finishing
    <3>3. ASSUME NEW d \in Dirs \ {Root}, d # h
          PROVE  In(d) = {} \/ (\E g \in In(d) : stage'[i][g] = "final") => kept'[i][d] = {Full(d)}
      <4>1. \A g \in In(d) : stage'[i][g] = stage[i][g]
        BY <1>5, <3>3 DEF In
      <4>2. kept'[i][d] = kept[i][d]
        BY <1>4, <3>3
      <4>3. In(d) = {} \/ (\E g \in In(d) : stage[i][g] = "final") => kept[i][d] = {Full(d)}
        BY <1>1, <1>2, <3>3 DEF Finishing
      <4> HIDE DEF h
      <4> QED
        BY <4>1, <4>2, <4>3
    <3> QED
      BY <1>4, <3>1, <3>2, <3>3 DEF Finishing
  <2>3. \A S \in kept'[i][Root] : "receipt" \notin S
    BY <1>1, <1>2, <1>4 DEF RootInv, NoReceipt, MayHaveReceipt
  <2>4. NoReceipt(i)' /\ Whole(i)'
    BY <2>3 DEF NoReceipt, Whole
  <2>5. Recorded(i)' /\ Blank(i)' /\ Unpacking(i)' /\ Sealed(i)' /\ RootNames(i)' /\ Settled(i)'
    BY <1>1, <1>2 DEF RootInv, Recorded, Before, Blank, Unpacking, Sealed, Committing,
       RootNames, Settled
  <2> QED
    BY <2>1, <2>2, <2>4, <2>5 DEF RootInv
<1> QED
  BY <1>1, <1>2, <1>4, <1>6, <1>7, <1>8, StepOf DEF SetMode, TypeOK

\* Every directory of the payload is synced before the manifest is written.
LEMMA WriteManifestKeeps == ASSUME IInv, NEW i \in Installers, WriteManifest(i) PROVE IInv'
<1> DEFINE S == tree[i][Root] \cup {"manifest"}
<1>1. /\ pc[i] = "commit" /\ pc' = [pc EXCEPT ![i] = "manifest"]
      /\ pc'[i] = "manifest" /\ SetDir(i, Root, S)
      /\ UNCHANGED <<dest, destKept, owned, stage, active>>
      /\ \A f \in Files : stage[i][f] = "final"
  BY DEF WriteManifest, Goto, WriteRegular, IInv, TypeOK
<1>2. Finishing(i) /\ Root \in Dirs
  BY InstallAssumption DEF IInv, RootInv
<1>3. S = Unsigned
  BY <1>1, <1>2, NamesApart DEF Finishing, Unsigned, Full
<1>4. S \in SUBSET Names
  BY <1>3 DEF Unsigned, Sub, Names
<1>5. Payload(i)
  <2>1. \A d \in Dirs \ {Root} : In(d) = {} \/ \E f \in In(d) : stage[i][f] = "final"
    BY <1>1 DEF In
  <2> QED
    BY <1>1, <1>2, <2>1 DEF Payload, Finishing
<1>6. tree'[i][Root] = S
  BY <1>1, InstallAssumption DEF IInv, TypeOK, SetDir
<1>7. RootNames(i)'
  BY <1>1, <1>3, <1>6 DEF RootNames
<1>8. "receipt" \notin S
  BY <1>3, NamesApart
<1> QED
  BY <1>1, <1>4, <1>5, <1>7, <1>8, CommitStep DEF Committing, MayHaveReceipt

LEMMA SyncRootKeeps == ASSUME IInv, NEW i \in Installers, SyncRoot(i) PROVE IInv'
<1> DEFINE S == tree[i][Root]
<1>1. /\ pc[i] = "manifest" /\ pc' = [pc EXCEPT ![i] = "temp"]
      /\ pc'[i] = "temp" /\ SetDirSync(i, Root, S)
      /\ UNCHANGED <<dest, destKept, owned, stage, active>>
  BY DEF SyncRoot, Goto, IInv, TypeOK
<1>2. Payload(i) /\ S = Unsigned /\ S \in SUBSET Names
  BY <1>1, InstallAssumption DEF IInv, RootInv, Sealed, Committing, RootNames, TypeOK
<1>3. tree'[i][Root] = S
  BY <1>1, InstallAssumption DEF IInv, TypeOK, SetDirSync
<1>4. RootNames(i)'
  BY <1>1, <1>2, <1>3 DEF RootNames
<1>5. "receipt" \notin S
  BY <1>2, NamesApart
<1> QED
  BY <1>1, <1>2, <1>4, <1>5, CommitStep DEF Committing, MayHaveReceipt

LEMMA WriteTempKeeps == ASSUME IInv, NEW i \in Installers, WriteTemp(i) PROVE IInv'
<1> DEFINE S == tree[i][Root] \cup {"temp"}
<1>1. /\ pc[i] = "temp"
      /\ \/ pc' = [pc EXCEPT ![i] = "link"] /\ pc'[i] = "link"
         \/ pc' = [pc EXCEPT ![i] = "failed"] /\ pc'[i] = "failed"
      /\ SetDir(i, Root, S)
      /\ UNCHANGED <<dest, destKept, owned, stage, active>>
  BY DEF WriteTemp, WriteRegular, Goto, IInv, TypeOK
<1>2. Payload(i) /\ tree[i][Root] = Unsigned /\ S \in SUBSET Names
  BY <1>1, InstallAssumption DEF IInv, RootInv, Sealed, Committing, RootNames, TypeOK, Names
<1>3. tree'[i][Root] = S
  BY <1>1, InstallAssumption DEF IInv, TypeOK, SetDir
<1>4. RootNames(i)'
  BY <1>1, <1>2, <1>3 DEF RootNames
<1>5. "receipt" \notin S
  BY <1>2, NamesApart
<1> QED
  BY <1>1, <1>2, <1>4, <1>5, CommitStep DEF Committing, MayHaveReceipt

\* The receipt appears in a root that is finished and durable.
LEMMA LinkKeeps == ASSUME IInv, NEW i \in Installers, Link(i) PROVE IInv'
<1> DEFINE S == tree[i][Root] \cup {"receipt"}
<1>1. /\ pc[i] = "link" /\ pc' = [pc EXCEPT ![i] = "unlink"]
      /\ pc'[i] = "unlink" /\ SetDir(i, Root, S)
      /\ UNCHANGED <<dest, destKept, owned, stage, active>>
  BY DEF Link, Goto, IInv, TypeOK
<1>2. Payload(i) /\ S = Unsigned \cup {"temp", "receipt"} /\ S \in SUBSET Names
  BY <1>1, InstallAssumption DEF IInv, RootInv, Sealed, Committing, RootNames, TypeOK, Names
<1>3. tree'[i][Root] = S
  BY <1>1, InstallAssumption DEF IInv, TypeOK, SetDir
<1>4. RootNames(i)'
  BY <1>1, <1>2, <1>3 DEF RootNames
<1>5. S \ {"temp"} = Unsigned \cup {"receipt"}
  BY <1>2, NamesApart
<1> QED
  BY <1>1, <1>2, <1>4, <1>5, CommitStep DEF Committing, MayHaveReceipt

LEMMA UnlinkKeeps == ASSUME IInv, NEW i \in Installers, Unlink(i) PROVE IInv'
<1> DEFINE S == tree[i][Root] \ {"temp"}
<1>1. /\ pc[i] = "unlink" /\ pc' = [pc EXCEPT ![i] = "publish"]
      /\ pc'[i] = "publish" /\ SetDir(i, Root, S)
      /\ UNCHANGED <<dest, destKept, owned, stage, active>>
  BY DEF Unlink, Goto, IInv, TypeOK
<1>2. Payload(i) /\ tree[i][Root] = Unsigned \cup {"temp", "receipt"} /\ S \in SUBSET Names
  BY <1>1, InstallAssumption DEF IInv, RootInv, Sealed, Committing, RootNames, TypeOK
<1>3. S = Unsigned \cup {"receipt"} /\ S \ {"temp"} = S
  BY <1>2, NamesApart
<1>4. tree'[i][Root] = S
  BY <1>1, InstallAssumption DEF IInv, TypeOK, SetDir
<1>5. RootNames(i)'
  BY <1>1, <1>3, <1>4 DEF RootNames
<1> QED
  BY <1>1, <1>2, <1>3, <1>5, CommitStep DEF Committing, MayHaveReceipt

\* The last sync leaves one state of the root, and the path was just looked at.
LEMMA PublishKeeps == ASSUME IInv, NEW i \in Installers, Publish(i) PROVE IInv'
<1> DEFINE S == tree[i][Root]
<1>1. /\ pc[i] = "publish" /\ pc' = [pc EXCEPT ![i] = "ok"]
      /\ pc'[i] = "ok" /\ SetDirSync(i, Root, S) /\ dest = i
      /\ UNCHANGED <<dest, destKept, owned, stage, active>>
  BY DEF Publish, Goto, CheckAnchor, IInv, TypeOK
<1>2. Payload(i) /\ S = Unsigned \cup {"receipt"} /\ S \in SUBSET Names
  BY <1>1, InstallAssumption DEF IInv, RootInv, Sealed, Committing, RootNames, TypeOK
<1>3. S \ {"temp"} = S
  BY <1>2, NamesApart
<1>4. RootNames(i)'
  BY <1>1 DEF RootNames
<1> QED
  BY <1>1, <1>2, <1>3, <1>4, CommitStep DEF Committing, MayHaveReceipt

LEMMA CommitFailedKeeps == ASSUME IInv, NEW i \in Installers, CommitFailed(i) PROVE IInv'
<1>1. /\ UNCHANGED <<dest, destKept, owned, tree, kept, stage, active>>
      /\ \/ pc[i] = "link" /\ pc' = [pc EXCEPT ![i] = "undo"] /\ pc'[i] = "undo"
         \/ /\ pc[i] \in {"unlink", "publish"}
            /\ pc' = [pc EXCEPT ![i] = "dropped"] /\ pc'[i] = "dropped"
  BY DEF CommitFailed, Goto, IInv, TypeOK
<1>2. RootInv(i)
  BY DEF IInv
<1>3. RootNames(i)'
  BY <1>1, <1>2, NamesApart DEF RootInv, RootNames
<1>4. Present(i)' /\ Recorded(i)' /\ Blank(i)' /\ Unpacking(i)' /\ Finishing(i)'
  BY <1>1, <1>2 DEF RootInv, Present, Recorded, Before, Committing, Blank, Unpacking, Finishing
<1>5. Sealed(i)' /\ NoReceipt(i)' /\ Whole(i)' /\ Settled(i)'
  BY <1>1, <1>2 DEF RootInv, Sealed, Committing, NoReceipt, MayHaveReceipt, Whole, Settled, Payload
<1>6. RootInv(i)'
  BY <1>3, <1>4, <1>5 DEF RootInv
<1> QED
  BY <1>1, <1>6, OnlyMoves DEF PCs, Done

\* What ReceiptPublication::drop leaves is a receipt in a finished root, or none.
LEMMA DropKeeps == ASSUME IInv, NEW i \in Installers, Drop(i) PROVE IInv'
<1>1. PICK D \in SUBSET {"receipt", "temp"} :
         SetDir(i, Root, tree[i][Root] \ D) \/ SetDirSync(i, Root, tree[i][Root] \ D)
  BY DEF Drop
<1> DEFINE S == tree[i][Root] \ D
<1>2. /\ UNCHANGED <<dest, destKept, owned, stage, active>>
      /\ \/ pc[i] = "undo" /\ pc' = [pc EXCEPT ![i] = "failed"] /\ pc'[i] = "failed"
         \/ pc[i] = "dropped" /\ pc' = [pc EXCEPT ![i] = "uncertain"] /\ pc'[i] = "uncertain"
  BY DEF Drop, Goto, IInv, TypeOK
<1>3. /\ Payload(i) /\ S \in SUBSET Names
      /\ tree[i][Root] \ {"temp", "receipt"} = Unsigned
      /\ pc[i] = "undo" => "receipt" \notin S
  BY <1>2, InstallAssumption DEF IInv, RootInv, Sealed, Committing, RootNames, TypeOK
<1>4. "receipt" \in S => S \ {"temp"} = Unsigned \cup {"receipt"}
  BY <1>3, NamesApart
<1>5. RootNames(i)'
  BY <1>2 DEF RootNames
<1> QED
  BY <1>1, <1>2, <1>3, <1>4, <1>5, CommitStep DEF Committing, MayHaveReceipt

LEMMA FailKeeps == ASSUME IInv, NEW i \in Installers, Fail(i) PROVE IInv'
BY FailingKeeps DEF Fail, MayHaveReceipt

LEMMA DieKeeps == ASSUME IInv, NEW i \in Installers, Die(i) PROVE IInv'
<1>1. /\ UNCHANGED <<dest, destKept, owned, tree, kept, stage, active>>
      /\ pc' = [pc EXCEPT ![i] = "dead"] /\ pc'[i] = "dead"
  BY DEF Die, IInv, TypeOK
<1>2. RootInv(i)'
  BY <1>1 DEF IInv, RootInv, Present, Recorded, Before, Committing, Blank, Unpacking, Finishing,
     Sealed, RootNames, NoReceipt, MayHaveReceipt, Whole, Settled, Payload
<1> QED
  BY <1>1, <1>2, OnlyMoves DEF PCs, Done

\* A root that an Ok was returned for has a receipt, and is not removed.
LEMMA RemoveKeeps == ASSUME IInv, Remove PROVE IInv'
<1>1. /\ dest # None /\ "receipt" \notin tree[dest][Root] /\ dest' = None
      /\ destKept' = destKept \cup {None}
      /\ UNCHANGED <<pc, owned, tree, kept, stage, active>>
  BY DEF Remove
<1>2. TypeOK'
  BY <1>1 DEF IInv, TypeOK
<1>3. DurableOwner'
  BY <1>1, InstallAssumption DEF DurableOwner
<1>4. \A i \in Installers : pc[i] # "ok"
  BY <1>1, InstallAssumption DEF IInv, OkStays, RootInv, Settled, Present
<1>5. OkStays'
  BY <1>1, <1>4 DEF OkStays
<1>6. \A i \in Installers : RootInv(i)'
  BY <1>1, Frame DEF IInv
<1> QED
  BY <1>2, <1>3, <1>5, <1>6 DEF IInv

\* A power loss leaves no installer at work, and of each root only what was
\* already possible.
LEMMA PowerLossKeeps == ASSUME IInv, PowerLoss PROVE IInv'
<1>1. /\ \A i \in Installers : pc'[i] = IF pc[i] \in Done THEN pc[i] ELSE "dead"
      /\ dest' \in destKept /\ destKept' = {dest'}
      /\ UNCHANGED <<owned, stage, active>>
      /\ dest' \in Installers \cup {None}
  BY DEF PowerLoss, IInv, TypeOK
<1>2. /\ tree' \in [Installers -> [Dirs -> SUBSET Names]]
      /\ kept' \in [Installers -> [Dirs -> SUBSET SUBSET Names]]
      /\ \A i \in Installers, d \in Dirs :
           tree'[i][d] \in kept'[i][d] /\ kept'[i][d] \subseteq kept[i][d]
  <2>1. CASE dest' = None
    BY <2>1 DEF PowerLoss, IInv, TypeOK, RootInv, Present
  <2>2. CASE dest' # None
    <3>1. dest' \in Installers
      BY <1>1, <2>2
    <3>2. PICK t \in Images(dest') :
             /\ tree' = [tree EXCEPT ![dest'] = t]
             /\ kept' = [kept EXCEPT ![dest'] = [d \in Dirs |-> {t[d]}]]
      BY <2>2 DEF PowerLoss
    <3>3. /\ \A d \in Dirs : t[d] \in kept[dest'][d]
          /\ DOMAIN t = Dirs /\ t = [d \in Dirs |-> t[d]]
      BY DEF Images
    <3>4. \A d \in Dirs : t[d] \in SUBSET Names /\ {t[d]} \in SUBSET SUBSET Names
      BY <3>1, <3>3 DEF IInv, TypeOK
    <3>5. t \in [Dirs -> SUBSET Names] /\ [d \in Dirs |-> {t[d]}] \in [Dirs -> SUBSET SUBSET Names]
      BY <3>3, <3>4
    <3>6. /\ tree' \in [Installers -> [Dirs -> SUBSET Names]]
          /\ kept' \in [Installers -> [Dirs -> SUBSET SUBSET Names]]
      BY <3>1, <3>2, <3>5 DEF IInv, TypeOK
    <3>7. /\ tree'[dest'] = t /\ kept'[dest'] = [d \in Dirs |-> {t[d]}]
          /\ \A i \in Installers \ {dest'} : tree'[i] = tree[i] /\ kept'[i] = kept[i]
      BY <3>1, <3>2 DEF IInv, TypeOK
    <3>8. ASSUME NEW i \in Installers, NEW d \in Dirs
          PROVE  tree'[i][d] \in kept'[i][d] /\ kept'[i][d] \subseteq kept[i][d]
      BY <3>3, <3>7 DEF IInv, RootInv, Present
    <3> QED
      BY <3>6, <3>8
  <2> QED
    BY <2>1, <2>2
<1>3. TypeOK'
  <2>1. pc' \in [Installers -> PCs]
    BY DEF PowerLoss, IInv, TypeOK, PCs, Done
  <2> QED
    BY <1>1, <1>2, <2>1 DEF IInv, TypeOK
<1>4. DurableOwner'
  BY <1>1 DEF DurableOwner
<1>5. OkStays'
  BY <1>1 DEF IInv, OkStays, Done
<1>6. ASSUME NEW i \in Installers PROVE RootInv(i)'
  <2>1. RootInv(i) /\ Root \in Dirs
    BY InstallAssumption DEF IInv
  <2>2. ASSUME NEW d \in Dirs, NEW S, kept[i][d] = {S}
        PROVE  kept'[i][d] = {S} /\ tree'[i][d] = S
    BY <1>2, <2>2
  <2>3. Payload(i) => Payload(i)'
    BY <1>1, <2>2 DEF Payload
  <2>4. Present(i)'
    BY <1>2 DEF Present
  <2>5. pc'[i] \in Done /\ (pc'[i] # "dead" => pc'[i] = pc[i])
    BY <1>1 DEF Done
  <2>6. Recorded(i)' /\ Blank(i)'
    <3>1. Recorded(i)'
      BY <1>1, <2>1, <2>5 DEF RootInv, Recorded, Before, Committing, Done
    <3>2. pc'[i] \in Before => pc[i] \in Before /\ Blank(i)
      BY <2>1, <2>5 DEF RootInv, Before
    <3>3. ASSUME pc'[i] \in Before
          PROVE  /\ \A d \in Dirs : tree'[i][d] = {} /\ kept'[i][d] = {{}}
                 /\ \A f \in Files : stage'[i][f] = "absent"
                 /\ active'[i] = None
      <4>1. /\ \A d \in Dirs : kept[i][d] = {{}}
            /\ \A f \in Files : stage[i][f] = "absent"
            /\ active[i] = None
        BY <3>2, <3>3 DEF Blank
      <4> QED
        BY <1>1, <2>2, <4>1
    <3>4. Blank(i)'
      BY <3>3 DEF Blank
    <3> QED
      BY <3>1, <3>4
  <2>7. Unpacking(i)' /\ Finishing(i)' /\ Sealed(i)' /\ RootNames(i)'
    BY <2>5 DEF Unpacking, Finishing, Sealed, Committing, RootNames, Done
  <2>8. NoReceipt(i)' /\ Whole(i)'
    <3>1. NoReceipt(i) /\ Whole(i) /\ kept'[i][Root] \subseteq kept[i][Root]
      BY <1>2, <2>1 DEF RootInv
    <3>2. NoReceipt(i)'
      BY <2>5, <3>1 DEF NoReceipt, MayHaveReceipt
    <3>3. Whole(i)'
      BY <2>3, <3>1 DEF Whole
    <3> QED
      BY <3>2, <3>3
  <2>9. Settled(i)'
    BY <2>2, <2>1, <2>3, <2>5 DEF RootInv, Settled
  <2> QED
    BY <2>4, <2>6, <2>7, <2>8, <2>9 DEF RootInv
<1> QED
  BY <1>3, <1>4, <1>5, <1>6 DEF IInv

-----------------------------------------------------------------------------
(* The theorems.                                                           *)

LEMMA InitIInv == Init => IInv
<1> SUFFICES ASSUME Init PROVE IInv
  OBVIOUS
<1>1. TypeOK
  <2>1. [d \in Dirs |-> {{}}] \in [Dirs -> SUBSET SUBSET Names]
    OBVIOUS
  <2> QED
    BY <2>1 DEF Init, TypeOK, PCs, Done, Stages
<1>2. DurableOwner /\ OkStays
  BY InstallAssumption DEF Init, DurableOwner, OkStays
<1>3. ASSUME NEW i \in Installers PROVE RootInv(i)
  <2>1. /\ pc[i] = "idle" /\ i \notin owned /\ active[i] = None
        /\ \A d \in Dirs : tree[i][d] = {} /\ kept[i][d] = {{}}
        /\ \A f \in Files : stage[i][f] = "absent"
        /\ Root \in Dirs
    BY InstallAssumption DEF Init
  <2> QED
    BY <2>1 DEF RootInv, Present, Recorded, Before, Committing, Blank, Unpacking,
       Finishing, Sealed, RootNames, NoReceipt, MayHaveReceipt, Whole, Settled
<1> QED
  BY <1>1, <1>2, <1>3 DEF IInv

LEMMA StepKeeps == ASSUME IInv, NEW i \in Installers, InstallerStep(i) PROVE IInv'
BY NewKeeps, OpenArchiveKeeps, TrustKeeps, BeginKeeps, ReserveKeeps, AnchorKeeps, OwnKeeps,
   NextEntryKeeps, FileParentKeeps, StartFileKeeps, SetModeKeeps, EntryRefusedKeeps, PayloadRefusedKeeps, FinishFileKeeps,
   EndRefusedKeeps, ArchiveVerifiedKeeps, WriteManifestKeeps, SyncRootKeeps, WriteTempKeeps,
   LinkKeeps, UnlinkKeeps, PublishKeeps, CommitFailedKeeps, DropKeeps, FailKeeps, DieKeeps
   DEF InstallerStep

\* The invariant is inductive.
THEOREM Invariance == Spec => []IInv
<1>1. IInv /\ [Next]_vars => IInv'
  <2> SUFFICES ASSUME IInv, [Next]_vars PROVE IInv'
    OBVIOUS
  <2>1. CASE UNCHANGED vars
    <3>1. TypeOK' /\ DurableOwner' /\ OkStays'
      BY <2>1 DEF vars, IInv, TypeOK, DurableOwner, OkStays
    <3>2. \A i \in Installers : RootInv(i)'
      BY <2>1, Frame DEF vars, IInv
    <3> QED
      BY <3>1, <3>2 DEF IInv
  <2> QED
    BY <2>1, StepKeeps, RemoveKeeps, PowerLossKeeps DEF Next
<1> QED
  BY <1>1, InitIInv, PTL DEF Spec

\* What a power loss may leave of a root's directory is one of the kept contents.
LEMMA ImagesAreKept ==
    ASSUME NEW i, NEW t \in Images(i)
    PROVE  DOMAIN t = Dirs /\ \A d \in Dirs : t[d] \in kept[i][d]
BY DEF Images

\* No crash, error or power loss leaves a receipt in a root whose files, modes or
\* manifest are not all there, for any package and any number of installers.
THEOREM ReceiptIsProof == Spec => []ReceiptMeansWhole
<1>1. ASSUME IInv, NEW i \in destKept \ {None}, NEW t \in Images(i), "receipt" \in t[Root]
      PROVE  Verifies([t EXCEPT ![Root] = @ \ {"temp"}], stage[i])
  <2>1. i \in Installers /\ Root \in Dirs
    BY <1>1, InstallAssumption DEF IInv, TypeOK
  <2>2. DOMAIN t = Dirs /\ \A d \in Dirs : t[d] \in kept[i][d]
    BY ImagesAreKept
  <2>3. Payload(i) /\ t[Root] \ {"temp"} = Unsigned \cup {"receipt"}
    BY <1>1, <2>1, <2>2 DEF IInv, RootInv, Whole
  <2>4. \A d \in Dirs : [t EXCEPT ![Root] = @ \ {"temp"}][d] = Inventory(d)
    BY <2>1, <2>2, <2>3, NamesApart DEF Payload
  <2>5. {"manifest", "receipt"} \subseteq Inventory(Root)
    BY NamesApart DEF Unsigned
  <2> QED
    BY <2>1, <2>3, <2>4, <2>5 DEF Verifies, HasReceipt, Payload
<1>2. IInv => ReceiptMeansWhole
  BY <1>1 DEF ReceiptMeansWhole
<1> QED
  BY <1>2, Invariance, PTL

\* After install returned Ok the destination is that installation and passes
\* verify_installed_owned, whatever others try and whenever power is lost.
THEOREM OkIsKept == Spec => []OkIsDurable
<1>1. ASSUME IInv, NEW i \in Installers, pc[i] = "ok"
      PROVE  IsOwned(i) /\ destKept = {i} /\ \A t \in Images(i) : Verifies(t, stage[i])
  <2>1. dest = i /\ destKept = {i} /\ Root \in Dirs
    BY <1>1, InstallAssumption DEF IInv, OkStays
  <2>2. Payload(i) /\ kept[i][Root] = {Unsigned \cup {"receipt"}}
    BY <1>1 DEF IInv, RootInv, Settled
  <2>3. ASSUME NEW t \in Images(i) PROVE Verifies(t, stage[i])
    <3>1. \A d \in Dirs : t[d] \in kept[i][d]
      BY ImagesAreKept
    <3>2. t[Root] = Inventory(Root)
      BY <2>1, <2>2, <3>1, NamesApart
    <3>3. \A d \in Dirs \ {Root} : t[d] = Inventory(d)
      BY <2>2, <3>1, NamesApart DEF Payload
    <3>4. {"manifest", "receipt"} \subseteq Inventory(Root)
      BY NamesApart DEF Unsigned
    <3> QED
      BY <2>1, <2>2, <3>2, <3>3, <3>4 DEF Verifies, HasReceipt, Payload
  <2> QED
    BY <2>1, <2>3 DEF IsOwned
<1>2. IInv => OkIsDurable
  BY <1>1 DEF OkIsDurable
<1> QED
  BY <1>2, Invariance, PTL

\* An install that returned an error other than INSTALL_COMMIT_UNCERTAIN has left no
\* receipt, and no power loss brings one to light.
THEOREM FailedLeavesNone == Spec => []FailedIsIncomplete
<1>1. ASSUME IInv, NEW i \in Installers, pc[i] = "failed", NEW t \in Images(i)
      PROVE  "receipt" \notin t[Root]
  BY <1>1, ImagesAreKept, InstallAssumption DEF IInv, RootInv, NoReceipt, MayHaveReceipt
<1>2. IInv => FailedIsIncomplete
  BY <1>1 DEF FailedIsIncomplete
<1> QED
  BY <1>2, Invariance, PTL

\* A root whose owner was recorded cannot vanish in a power loss.
THEOREM OwnerIsDurable == Spec => []OwnedIsDurable
<1>1. IInv => OwnedIsDurable
  BY DEF IInv, TypeOK, DurableOwner, OwnedIsDurable
<1> QED
  BY <1>1, Invariance, PTL
=============================================================================
