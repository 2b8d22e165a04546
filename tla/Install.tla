------------------------------ MODULE Install ------------------------------
(***************************************************************************)
(* Package installation (install.rs install_owned, artifact/verify.rs      *)
(* verify_to_sink and install/installed.rs verify_installed_owned): any    *)
(* number of installers of one destination, each of which may fail or die  *)
(* at any step; the operator, who may remove an incomplete root; and power *)
(* losses.                                                                 *)
(*                                                                         *)
(* An archive is read once, front to back, and unpacked while it is being  *)
(* verified.  What it holds is chosen as it is read: every header, payload *)
(* and trailer may be the expected one or not.                             *)
(*                                                                         *)
(* A root directory is named by the installer that created it, which       *)
(* stands for its device and inode.  Operations on one directory reach the *)
(* disk in order, on different directories in any order: `kept' holds, for *)
(* each directory, the contents a power loss may leave, and a sync of that *)
(* directory reduces them to the present one.                              *)
(***************************************************************************)
EXTENDS Integers, FiniteSets

CONSTANTS Installers,  \* processes that install into the destination
          Files,       \* the manifest's payload files
          Dirs,        \* the directories of the package
          Root,        \* the destination itself, one of Dirs
          Home,        \* the directory each file is in
          Up,          \* the directory each other directory is in
          Way,         \* the directories between the root and a directory, itself included
          None

ASSUME InstallAssumption ==
    /\ Root \in Dirs
    /\ Home \in [Files -> Dirs]
    /\ Up \in [Dirs \ {Root} -> Dirs]
    /\ Way \in [Dirs -> SUBSET (Dirs \ {Root})]
    /\ Way[Root] = {}
    /\ \A d \in Dirs \ {Root} : d \notin Way[Up[d]] /\ Way[d] = {d} \cup Way[Up[d]]
    /\ \A d \in Dirs \ {Root} : \E f \in Files : d \in Way[Home[f]]
    /\ None \notin Installers \cup Files
    /\ {"manifest", "temp", "receipt"} \cap (Files \cup Dirs) = {}

VARIABLES pc,        \* where each installer stands
          dest,      \* the root the destination path names, or None
          destKept,  \* what a power loss may leave it to name
          owned,     \* the roots whose on_reserved callback returned
          tree,      \* of each root: the names in each of its directories
          kept,      \* of each root: what a power loss may leave of them
          stage,     \* of each root: how far each payload file has got
          active     \* the file an installer has open

vars == <<pc, dest, destKept, owned, tree, kept, stage, active>>

Names == Files \cup Dirs \cup {"manifest", "temp", "receipt"}
Stages == {"absent", "partial", "synced", "final"}
Done == {"idle", "ok", "failed", "uncertain", "dead"}
PCs == Done \cup {"open", "trust", "begin", "reserve", "anchor", "own", "payload", "commit", "manifest",
                  "temp", "link", "unlink", "publish", "dropped", "undo"}

Init ==
    /\ pc = [i \in Installers |-> "idle"]
    /\ dest = None
    /\ destKept = {None}
    /\ owned = {}
    /\ tree = [i \in Installers |-> [d \in Dirs |-> {}]]
    /\ kept = [i \in Installers |-> [d \in Dirs |-> {{}}]]
    /\ stage = [i \in Installers |-> [f \in Files |-> "absent"]]
    /\ active = [i \in Installers |-> None]

Goto(i, from, to) ==
    /\ pc[i] = from
    /\ pc' = [pc EXCEPT ![i] = to]

\* check_anchor, and the ENOENT that every create in a removed directory meets.
CheckAnchor(i) == dest = i

\* The directory d of i's root gets the contents S.
SetDir(i, d, S) ==
    /\ tree' = [tree EXCEPT ![i][d] = S]
    /\ kept' = [kept EXCEPT ![i][d] = @ \cup {S}]

\* The same, then sync_dir.
SetDirSync(i, d, S) ==
    /\ tree' = [tree EXCEPT ![i][d] = S]
    /\ kept' = [kept EXCEPT ![i][d] = {S}]

\* write_regular: a new file of the root, written, given its mode and synced.
WriteRegular(i, name) == SetDir(i, Root, tree[i][Root] \cup {name})

-----------------------------------------------------------------------------
(* The archive.                                                             *)

\* A path of the inventory: the place it names, and what validate_path asks of its text.
Paths == [at : Files \cup Dirs, normal : BOOLEAN, allowed : BOOLEAN, expected : BOOLEAN,
          forbidden : BOOLEAN]

\* validate_path: relative and normalized; below a directory of the root, never in the
\* root itself; that directory is one of the seven; in bin and engine only the program
\* and the jar; no part and no suffix of a secret or a database.
ValidPath(path) ==
    /\ path.normal
    /\ path.at \in Files => Home[path.at] # Root
    /\ path.at # Root
    /\ path.allowed
    /\ path.expected
    /\ ~path.forbidden

\* The path of the package's own file f.
PathOf(f) ==
    [at |-> f, normal |-> TRUE, allowed |-> TRUE, expected |-> TRUE, forbidden |-> FALSE]

\* What a manifest says: of the product, of the platform, of the engine and the runtime
\* (each well-formed or not), and its inventory, with whether it is within its limits,
\* has the required programs, and gives them the hashes the manifest names.
Manifests ==
    [product : BOOLEAN, platform : BOOLEAN, engine : BOOLEAN, runtime : BOOLEAN,
     limits : BOOLEAN, required : BOOLEAN, identities : BOOLEAN,
     paths : {{}, {PathOf(f) : f \in Files}, {PathOf(f) : f \in Files} \cup {PathOf(Root)}}
             \cup {{path} : path \in Paths}]

\* validate_manifest: besides, no path of the inventory is above another.
ValidManifest(m) ==
    /\ m.product /\ m.platform /\ m.engine /\ m.runtime
    /\ m.paths # {}
    /\ \A path \in m.paths : ValidPath(path)
    /\ {path.at : path \in m.paths} \cap Dirs = {}
    /\ m.limits /\ m.required /\ m.identities

\* The manifest of the package that is installed.
Manifest ==
    [product |-> TRUE, platform |-> TRUE, engine |-> TRUE, runtime |-> TRUE, limits |-> TRUE,
     required |-> TRUE, identities |-> TRUE, paths |-> {PathOf(f) : f \in Files}]

ASSUME ManifestAssumption == ValidManifest(Manifest)

\* reject_inventory_aliases: macOS takes names that fold to one for one name; no two
\* paths, of files or of the directories above them, may.
NoAliases(folded) == \A x, y \in Files \cup Dirs : folded[x] = folded[y] => x = y
Foldings == {[x \in Files \cup Dirs |-> x], [x \in Files \cup Dirs |-> None]}

\* VerifyOptions, and manifest.sig: there or not, its header within bounds, its text
\* that of a signature, made with the trusted key.
VerifyOptions == [key : BOOLEAN, unsigned : BOOLEAN]
Signatures == [present : BOOLEAN, bounded : BOOLEAN, decodes : BOOLEAN, trusted : BOOLEAN]

\* verify_inner: a signed package needs the key it was signed with; an unsigned one
\* the explicit option, and no key.
Authentic(sig, options) ==
    IF sig.present THEN sig.bounded /\ sig.decodes /\ options.key /\ sig.trusted
                   ELSE options.unsigned /\ ~options.key

\* A block of the tar: complete, all zeros like the one after it, or a header of a
\* regular file, of the ustar format, with its own checksum, octal numbers, a size and
\* a mode within bounds and strings that end; whose size and mode may be the listed ones.
Blocks ==
    [whole : BOOLEAN, zeros : 0..2, regular : BOOLEAN, ustar : BOOLEAN, checksum : BOOLEAN,
     octal : BOOLEAN, bounded : BOOLEAN, strings : BOOLEAN,
     name : Files \cup {"manifest", None}, fits : BOOLEAN]

\* read_header, octal and c_string: the two blocks of the end, a header, or a refusal.
ReadHeader(b) ==
    IF b.whole /\ b.zeros = 2 THEN [kind |-> "end"]
    ELSE IF /\ b.whole /\ b.zeros = 0
            /\ b.regular /\ b.ustar /\ b.checksum /\ b.octal /\ b.bounded /\ b.strings
         THEN [kind |-> "file", name |-> b.name, fits |-> b.fits]
         ELSE [kind |-> "invalid"]
Headers == {ReadHeader(b) : b \in Blocks}

\* verify_inner: the entry is one the inventory still waits for, as it describes it.
Expected(i, header) ==
    /\ header.kind = "file"
    /\ header.name \in Files
    /\ stage[i][header.name] = "absent"
    /\ header.fits

\* What follows the tar's end: zeros within their limit, the gzip checksum, the end of
\* the member and of the archive, which is as large and as old as when it was opened.
Trailers == [checksum : BOOLEAN, zeros : BOOLEAN, bounded : BOOLEAN, last : BOOLEAN, same : BOOLEAN]

\* verify_inner, after its last entry.
ReadEnd(t) ==
    IF t.checksum /\ t.zeros /\ t.bounded /\ t.last /\ t.same THEN "sound" ELSE "refused"
Ends == {ReadEnd(t) : t \in Trailers}

\* The archive as a file: regular, of a bounded size, opened as the one looked at.
Archives == [regular : BOOLEAN, bounded : BOOLEAN, same : BOOLEAN]

\* verify_inner up to the manifest: the first entry is manifest.json, and is valid.
ReadManifest(archive, header, valid) ==
    /\ archive.regular /\ archive.bounded /\ archive.same
    /\ header.kind = "file" /\ header.name = "manifest" /\ header.fits
    /\ valid
Openings == {ReadManifest(archive, header, valid) :
               archive \in Archives, header \in Headers,
               valid \in {ValidManifest(m) : m \in Manifests}}

-----------------------------------------------------------------------------
(* verify_installed_owned: what is compared, and with what.                 *)

\* The root at the path is the one its installer recorded.
IsOwned(i) == dest = i

\* The manifest and the receipt are there to be compared with the report.
HasReceipt(t) == {"manifest", "receipt"} \subseteq t[Root]

\* The expected inventory of a directory.
Inventory(d) ==
    {f \in Files : Home[f] = d}
    \cup {e \in Dirs \ {Root} : Up[e] = d}
    \cup (IF d = Root THEN {"manifest", "receipt"} ELSE {})

\* A root whose directories hold the names t[d] and whose files are at s[f]
\* passes: nothing is missing, extra, short or of another mode.
Verifies(t, s) ==
    /\ HasReceipt(t)
    /\ \A d \in Dirs : t[d] = Inventory(d)
    /\ \A f \in Files : s[f] = "final"

\* What a power loss may leave of root i.
Images(i) ==
    {t \in [Dirs -> UNION {kept[i][d] : d \in Dirs}] : \A d \in Dirs : t[d] \in kept[i][d]}

-----------------------------------------------------------------------------
(* Installer: reservation.                                                  *)

\* A destination as it is given: its text, its components, the last of which is its
\* name, and the components above it as they are found.
Destinations ==
    [text : BOOLEAN, normal : BOOLEAN, named : BOOLEAN,
     above : SUBSET [directory : BOOLEAN, same : BOOLEAN]]

\* parent_anchor: every component above the destination is a directory, opened as
\* the one that was looked at, or the path is refused.
ParentAnchor(path) ==
    /\ path.text /\ path.normal /\ path.named
    /\ \A component \in path.above : component.directory /\ component.same
Anchored == {ParentAnchor(path) : path \in Destinations}

\* reject_destination_alias: no name of the parent is equivalent to the destination.
DestinationIsNew == dest = None

\* Installer::new: an existing name, or one equivalent to it, is refused.
New(i) ==
    /\ \E anchor \in Anchored :
         Goto(i, "idle", IF anchor /\ DestinationIsNew THEN "open" ELSE "failed")
    /\ UNCHANGED <<dest, destKept, owned, tree, kept, stage, active>>

\* verify_inner: the archive is a regular file of a bounded size and begins with a
\* valid manifest.json.
OpenArchive(i) ==
    /\ \E opened \in Openings : Goto(i, "open", IF opened THEN "trust" ELSE "failed")
    /\ UNCHANGED <<dest, destKept, owned, tree, kept, stage, active>>

\* verify_inner: manifest.sig, or its absence, against the options.
Trust(i) ==
    /\ \E sig \in Signatures, options \in VerifyOptions :
         Goto(i, "trust", IF Authentic(sig, options) THEN "begin" ELSE "failed")
    /\ UNCHANGED <<dest, destKept, owned, tree, kept, stage, active>>

\* Installer::begin: the manifest's platform and the spelling of its names.
Begin(i) ==
    /\ \E platform \in {"darwin arm64", "other"}, folded \in Foldings :
         Goto(i, "begin", IF platform = "darwin arm64" /\ NoAliases(folded)
                          THEN "reserve" ELSE "failed")
    /\ UNCHANGED <<dest, destKept, owned, tree, kept, stage, active>>

\* reserve: an exclusive mkdir.
Reserve(i) ==
    /\ IF DestinationIsNew
       THEN /\ Goto(i, "reserve", "anchor")
            /\ dest' = i
            /\ destKept' = destKept \cup {i}
       ELSE /\ Goto(i, "reserve", "failed")
            /\ UNCHANGED <<dest, destKept>>
    /\ UNCHANGED <<owned, tree, kept, stage, active>>

\* Mutant: the parent directory is not synced.
AnchorUnsynced(i) ==
    /\ CheckAnchor(i)
    /\ Goto(i, "anchor", "own")
    /\ UNCHANGED <<dest, destKept, owned, tree, kept, stage, active>>

\* reserve: sync the parent and the root, and see that it is still there.
Anchor(i) ==
    /\ CheckAnchor(i)
    /\ Goto(i, "anchor", "own")
    /\ destKept' = {dest}
    /\ UNCHANGED <<dest, owned, tree, kept, stage, active>>

\* reserve: the callback records who owns the root; it is still there and empty.
Own(i) ==
    /\ Goto(i, "own", IF CheckAnchor(i) THEN "payload" ELSE "failed")
    /\ owned' = owned \cup {i}
    /\ UNCHANGED <<dest, destKept, tree, kept, stage, active>>

-----------------------------------------------------------------------------
(* Installer: payload.                                                      *)

\* verify_inner: the next entry is one of the inventory.
NextEntry(i, f) ==
    /\ pc[i] = "payload" /\ active[i] = None
    /\ \E header \in Headers : Expected(i, header) /\ header.name = f
    /\ active' = [active EXCEPT ![i] = f]
    /\ UNCHANGED <<pc, dest, destKept, owned, tree, kept, stage>>

\* The directories on the way to d exist.
HasWay(i, d) == \A e \in Way[d] : e \in tree[i][Up[e]]

\* Mutant: the directory above is not synced.
FileParentUnsynced(i, d) ==
    /\ pc[i] = "payload" /\ active[i] # None /\ stage[i][active[i]] = "absent"
    /\ d \in Way[Home[active[i]]]
    /\ HasWay(i, Up[d]) /\ d \notin tree[i][Up[d]]
    /\ CheckAnchor(i)
    /\ SetDir(i, Up[d], tree[i][Up[d]] \cup {d})
    /\ UNCHANGED <<pc, dest, destKept, owned, stage, active>>

\* file_parent: the next directory on the way to the file is created, and the one it is
\* in is synced.
FileParent(i, d) ==
    /\ pc[i] = "payload" /\ active[i] # None /\ stage[i][active[i]] = "absent"
    /\ d \in Way[Home[active[i]]]
    /\ HasWay(i, Up[d]) /\ d \notin tree[i][Up[d]]
    /\ CheckAnchor(i)
    /\ SetDirSync(i, Up[d], tree[i][Up[d]] \cup {d})
    /\ UNCHANGED <<pc, dest, destKept, owned, stage, active>>

\* start_file: the file is created with mode 0600 in its directory.
StartFile(i, f) ==
    /\ pc[i] = "payload" /\ active[i] = f /\ stage[i][f] = "absent"
    /\ HasWay(i, Home[f])
    /\ CheckAnchor(i)
    /\ SetDir(i, Home[f], tree[i][Home[f]] \cup {f})
    /\ stage' = [stage EXCEPT ![i][f] = "partial"]
    /\ UNCHANGED <<pc, dest, destKept, owned, active>>

\* An entry the inventory does not wait for, or no entry at all: the header is
\* refused before the file is created.
EntryRefused(i) ==
    /\ Goto(i, "payload", "failed")
    /\ active[i] = None
    /\ \E header \in Headers : header.kind # "end" /\ ~Expected(i, header)
    /\ UNCHANGED <<dest, destKept, owned, tree, kept, stage, active>>

\* The payload is short, is followed by something other than zeros, or is not what
\* its hash says; the file it was written to stays, unfinished.
PayloadRefused(i) ==
    /\ Goto(i, "payload", "failed")
    /\ active[i] # None /\ stage[i][active[i]] = "partial"
    /\ UNCHANGED <<dest, destKept, owned, tree, kept, stage, active>>

\* write_chunk and finish_file: all of the entry's bytes are written and synced.
FinishFile(i) ==
    /\ pc[i] = "payload" /\ active[i] # None /\ stage[i][active[i]] = "partial"
    /\ stage' = [stage EXCEPT ![i][active[i]] = "synced"]
    /\ active' = [active EXCEPT ![i] = None]
    /\ UNCHANGED <<pc, dest, destKept, owned, tree, kept>>

\* The archive ends before every file was delivered, or what follows its end is
\* refused: by now everything may have been unpacked.
EndRefused(i) ==
    /\ Goto(i, "payload", "failed")
    /\ active[i] = None
    /\ \E end \in Ends : end = "refused" \/ \E f \in Files : stage[i][f] # "synced"
    /\ UNCHANGED <<dest, destKept, owned, tree, kept, stage, active>>

\* verify_to_sink returned Ok: the archive was read to its end, every file of the
\* manifest was delivered, and commit finds them finished and the root in place.
ArchiveVerified(i) ==
    /\ Goto(i, "payload", "commit")
    /\ active[i] = None
    /\ \A f \in Files : stage[i][f] = "synced"
    /\ "sound" \in Ends
    /\ CheckAnchor(i)
    /\ UNCHANGED <<dest, destKept, owned, tree, kept, stage, active>>

-----------------------------------------------------------------------------
(* Installer: commit.                                                       *)

\* commit: recheck a file, give it its mode, sync it and its directory.
SetMode(i, f) ==
    /\ pc[i] = "commit" /\ stage[i][f] = "synced"
    /\ CheckAnchor(i)
    /\ stage' = [stage EXCEPT ![i][f] = "final"]
    /\ SetDirSync(i, Home[f], tree[i][Home[f]])
    /\ UNCHANGED <<pc, dest, destKept, owned, active>>

\* commit: manifest.json and, of a signed package, manifest.sig.
WriteManifest(i) ==
    /\ Goto(i, "commit", "manifest")
    /\ \A f \in Files : stage[i][f] = "final"
    /\ CheckAnchor(i)
    /\ WriteRegular(i, "manifest")
    /\ UNCHANGED <<dest, destKept, owned, stage, active>>

\* commit: sync the root before the receipt.
SyncRoot(i) ==
    /\ Goto(i, "manifest", "temp")
    /\ CheckAnchor(i)
    /\ SetDirSync(i, Root, tree[i][Root])
    /\ UNCHANGED <<dest, destKept, owned, stage, active>>

\* commit: the receipt under its temporary name.  If that fails half-way the name
\* stays behind, for nothing guards it yet.
WriteTemp(i) ==
    /\ \/ Goto(i, "temp", "link")
       \/ Goto(i, "temp", "failed")
    /\ CheckAnchor(i)
    /\ WriteRegular(i, "temp")
    /\ UNCHANGED <<dest, destKept, owned, stage, active>>

\* commit: the receipt is published by a hard link.
Link(i) ==
    /\ Goto(i, "link", "unlink")
    /\ CheckAnchor(i)
    /\ SetDir(i, Root, tree[i][Root] \cup {"receipt"})
    /\ UNCHANGED <<dest, destKept, owned, stage, active>>

\* commit: the temporary name is removed.
Unlink(i) ==
    /\ Goto(i, "unlink", "publish")
    /\ SetDir(i, Root, tree[i][Root] \ {"temp"})
    /\ UNCHANGED <<dest, destKept, owned, stage, active>>

\* Mutant: Ok is returned without the last sync.
PublishUnsynced(i) ==
    /\ Goto(i, "publish", "ok")
    /\ CheckAnchor(i)
    /\ UNCHANGED <<dest, destKept, owned, tree, kept, stage, active>>

\* commit: the last sync and the last look at the path, and Ok.
Publish(i) ==
    /\ Goto(i, "publish", "ok")
    /\ CheckAnchor(i)
    /\ SetDirSync(i, Root, tree[i][Root])
    /\ UNCHANGED <<dest, destKept, owned, stage, active>>

\* The link fails (the error is plain), or the removal or the last sync does
\* (INSTALL_COMMIT_UNCERTAIN); ReceiptPublication is dropped.
CommitFailed(i) ==
    /\ \/ Goto(i, "link", "undo")
       \/ Goto(i, "unlink", "dropped")
       \/ Goto(i, "publish", "dropped")
    /\ UNCHANGED <<dest, destKept, owned, tree, kept, stage, active>>

\* Mutant: an error after the link is reported as an ordinary failure.
DropPlain(i) ==
    /\ pc[i] \in {"dropped", "undo"}
    /\ pc' = [pc EXCEPT ![i] = "failed"]
    /\ \E S \in SUBSET {"receipt", "temp"} : SetDir(i, Root, tree[i][Root] \ S)
    /\ UNCHANGED <<dest, destKept, owned, stage, active>>

\* ReceiptPublication::drop: the receipt, if it was published, and the temporary
\* name are removed and the root is synced, each only if the file system allows.
Drop(i) ==
    /\ \/ Goto(i, "undo", "failed")
       \/ Goto(i, "dropped", "uncertain")
    /\ \E S \in SUBSET {"receipt", "temp"} :
         \/ SetDir(i, Root, tree[i][Root] \ S)
         \/ SetDirSync(i, Root, tree[i][Root] \ S)
    /\ UNCHANGED <<dest, destKept, owned, stage, active>>

\* Any other error: the root stays as it is.
Fail(i) ==
    /\ pc[i] \in {"open", "reserve", "anchor", "own", "payload", "commit", "manifest", "temp"}
    /\ pc' = [pc EXCEPT ![i] = "failed"]
    /\ UNCHANGED <<dest, destKept, owned, tree, kept, stage, active>>

-----------------------------------------------------------------------------
(* The world around.                                                        *)

Die(i) ==
    /\ pc[i] \notin Done
    /\ pc' = [pc EXCEPT ![i] = "dead"]
    /\ UNCHANGED <<dest, destKept, owned, tree, kept, stage, active>>

\* The operator removes a root that has no receipt, as the errors advise.
Remove ==
    /\ dest # None
    /\ "receipt" \notin tree[dest][Root]
    /\ dest' = None
    /\ destKept' = destKept \cup {None}
    /\ UNCHANGED <<pc, owned, tree, kept, stage, active>>

\* A power loss; a root that no path names any more is out of reach.
PowerLoss ==
    /\ pc' = [i \in Installers |-> IF pc[i] \in Done THEN pc[i] ELSE "dead"]
    /\ dest' \in destKept
    /\ destKept' = {dest'}
    /\ IF dest' = None
       THEN UNCHANGED <<tree, kept>>
       ELSE \E t \in Images(dest') :
              /\ tree' = [tree EXCEPT ![dest'] = t]
              /\ kept' = [kept EXCEPT ![dest'] = [d \in Dirs |-> {t[d]}]]
    /\ UNCHANGED <<owned, stage, active>>

InstallerStep(i) ==
    \/ New(i) \/ OpenArchive(i) \/ Trust(i) \/ Begin(i) \/ Reserve(i) \/ Anchor(i) \/ Own(i)
    \/ (\E f \in Files : NextEntry(i, f) \/ StartFile(i, f) \/ SetMode(i, f))
    \/ (\E d \in Dirs : FileParent(i, d))
    \/ EntryRefused(i) \/ PayloadRefused(i) \/ FinishFile(i) \/ EndRefused(i)
    \/ ArchiveVerified(i) \/ WriteManifest(i) \/ SyncRoot(i)
    \/ WriteTemp(i) \/ Link(i) \/ Unlink(i) \/ Publish(i)
    \/ CommitFailed(i) \/ Drop(i) \/ Fail(i) \/ Die(i)

Next == (\E i \in Installers : InstallerStep(i)) \/ Remove \/ PowerLoss

Spec == Init /\ [][Next]_vars

-----------------------------------------------------------------------------
(* Properties.                                                              *)

TypeOK ==
    /\ pc \in [Installers -> PCs]
    /\ dest \in Installers \cup {None}
    /\ destKept \in SUBSET (Installers \cup {None})
    /\ dest \in destKept
    /\ owned \in SUBSET Installers
    /\ tree \in [Installers -> [Dirs -> SUBSET Names]]
    /\ kept \in [Installers -> [Dirs -> SUBSET SUBSET Names]]
    /\ stage \in [Installers -> [Files -> Stages]]
    /\ active \in [Installers -> Files \cup {None}]

\* No crash, error or power loss leaves a receipt in a root whose files, modes
\* or manifest are not all there ("Receipt absence means INCOMPLETE").
ReceiptMeansWhole ==
    \A i \in destKept \ {None} : \A t \in Images(i) :
        "receipt" \in t[Root] =>
            Verifies([t EXCEPT ![Root] = @ \ {"temp"}], stage[i])

\* After install returned Ok the destination is that installation, and
\* verify_installed_owned accepts it, whatever others try and whenever power is lost.
OkIsDurable ==
    \A i \in Installers : pc[i] = "ok" =>
        IsOwned(i) /\ destKept = {i} /\ \A t \in Images(i) : Verifies(t, stage[i])

\* An install that returned an error other than INSTALL_COMMIT_UNCERTAIN has not
\* left a receipt, and none appears after a power loss.
FailedIsIncomplete ==
    \A i \in Installers : pc[i] = "failed" /\ i \in destKept =>
        \A t \in Images(i) : "receipt" \notin t[Root]

\* A root whose owner was recorded cannot vanish in a power loss, which would
\* free its inode for a directory of somebody else.
OwnedIsDurable == \A i \in owned : dest = i => destKept = {i}
=============================================================================
