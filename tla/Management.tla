---------------------------- MODULE Management ------------------------------
(***************************************************************************)
(* The management CLI's own installation (management/store.rs, fs.rs,      *)
(* probe.rs and the entry points of mod.rs): `cli install`, `cli update`,  *)
(* `cli rollback` and `cli info` run by several processes over one root.   *)
(* A root holds immutable releases, immutable numbered activation records  *)
(* and one symbolic link, `current`, whose rename selects the release and  *)
(* the "previous" release together.  The user may move the entry link or   *)
(* damage a release; a process may be killed at any step, an I/O call may  *)
(* fail, and a power loss keeps only what was synced.                      *)
(*                                                                         *)
(* Every block between two points where another process or a crash can be *)
(* told apart is one action.  A file written with write_new is synced by   *)
(* that call; a directory rename is durable once the directory is synced.  *)
(***************************************************************************)
EXTENDS Integers, Sequences, FiniteSets

CONSTANTS
    Procs,       \* the processes running a `bxdl cli` command
    Bundles,     \* the supplies on offer: [id, sum, by, dev] (release id, manifest and signature
                 \* hash, who signed, whether the revision is "development")
    Offers,      \* trust options a user may give: signing keys, Dev, NoTrust
    Dev,         \* --allow-unsigned-development, and the authenticity of an unsigned bundle
    NoTrust,     \* neither --public-key nor --allow-unsigned-development
    MaxActs,     \* bound: activation records ever made (the code stops at LIMIT = 4096)
    MaxLinks,    \* `.current-*` links the root may hold before recheck refuses it (64 entries in the code)
    MaxReleases, \* releases before stage refuses another (256 in the code)
    MaxStaging,  \* staging directories before stage refuses (64 in the code)
    MaxFaults    \* bound: kills, I/O failures, damage and power losses together

Ids == {b.id : b \in Bundles}
NoId == 0                    \* Selection.previous = None
NoBundle == [id |-> NoId, sum |-> 0, by |-> NoTrust, dev |-> FALSE]
Nobody == "nobody"           \* the flock is free

ASSUME ManagementAssumption ==
    /\ NoId \notin Ids
    /\ MaxActs \in Nat /\ MaxLinks \in Nat /\ MaxReleases \in Nat /\ MaxStaging \in Nat
    /\ MaxFaults \in Nat
    /\ NoTrust # Dev /\ {Dev, NoTrust} \subseteq Offers
    /\ Nobody \notin Procs

VARIABLES
    root,      \* the trust pinned in .bxdl-cli.json, NoTrust while there is no root
    rel,       \* releases/: the published bundle of each id, NoBundle if none
    bad,       \* ids whose payload no longer matches its admission
    relSafe,   \* ids whose publication in releases/ was synced
    orphans,   \* ids published by a call that died before its sync
    acts,      \* activations/: [rel, prev, whole] by number
    cur,       \* the activation `current` names, 0 if the link does not exist
    curSafe,   \* the activation `current` names on the disk
    links,     \* left-over `.current-*` links
    staging,   \* left-over staging directories
    entry,     \* bin/bxdl: "none", "ours" or "foreign"
    lock,      \* holder of the flock, Nobody if free
    st,        \* the running call of each process
    faults

disk == <<root, rel, bad, relSafe, orphans, acts, cur, curSafe, links, staging, entry>>
vars == <<disk, lock, st, faults>>

Idle == [at |-> "idle", op |-> "info", b |-> NoBundle, t |-> NoTrust, old |-> 0, act |-> 0, moved |-> FALSE]
Success == {"INSTALLED", "UPDATED", "ROLLED_BACK"}
Refusals == {"CLI_NOT_INSTALLED", "CLI_ENTRY_CONFLICT", "CLI_TRUST_POLICY", "CLI_STORAGE_UNSAFE",
             "CLI_BUSY", "CLI_RELEASE_CONFLICT", "CLI_ALREADY_INSTALLED", "CLI_RELEASE_CHANGED",
             "CLI_CANDIDATE_FAILED", "CLI_STORAGE_LIMIT", "CLI_STORAGE_IO", "CLI_PREVIOUS_MISSING",
             "CLI_SELECTION_CHANGED", "CLI_LOCATION_CONFLICT", "CLI_BUNDLE_REQUIRED",
             "CLI_BUNDLE_INVALID", "CLI_BUNDLE_CHANGED", "CLI_BUNDLE_MANIFEST_INVALID",
             "CLI_BUNDLE_HASH_MISMATCH", "CLI_BUNDLE_SIGNATURE_INVALID", "CLI_BUNDLE_TRUST_REQUIRED"}
Results == Success \cup {"REFUSED", "UNCHANGED", "READY", "NOT_INSTALLED", "CLI_ACTIVATION_UNKNOWN"}

\* A call that ended; which refusal it was is told to the user and not kept here.
Ended(c, r) == [Idle EXCEPT !.at = IF r \in Refusals THEN "REFUSED" ELSE r, !.moved = c.moved]

Init ==
    /\ root = NoTrust
    /\ rel = [i \in Ids |-> NoBundle]
    /\ bad = {} /\ relSafe = {} /\ orphans = {}
    /\ acts = <<>> /\ cur = 0 /\ curSafe = 0
    /\ links = 0 /\ staging = 0
    /\ entry \in {"none", "foreign"}
    /\ lock = Nobody
    /\ st = [p \in Procs |-> Idle]
    /\ faults = 0

-----------------------------------------------------------------------------
(* What the calls read. *)

\* Trust::initial for a first install, accept_options afterwards.
TrustAccepts(pinned, offered) ==
    IF pinned = NoTrust THEN offered # NoTrust
    ELSE IF pinned = Dev THEN offered = Dev
    ELSE offered \in {NoTrust, pinned}

\* bundle::authenticate: signed by the pinned key and not of a development revision, or
\* unsigned under the development policy.
Verified(b, trust) == b.by = trust /\ (b.dev => trust = Dev)
Authenticate(b, trust) ==
    IF (b.by = Dev) # (trust = Dev) THEN "CLI_BUNDLE_TRUST_REQUIRED"
    ELSE IF trust # Dev /\ b.dev THEN "CLI_BUNDLE_MANIFEST_INVALID"
    ELSE IF b.by # trust THEN "CLI_BUNDLE_SIGNATURE_INVALID"
    ELSE "verified"

\* What lies at the place of the supply: chosen by --from or beside the running
\* executable, what kind of file it is, what a walk or the tar reader meets, the
\* identity contract, the detached signature, the payloads and the executable.
Supplies == [at : {"from", "executable", "nowhere", "insideRoot"}, kind : {"directory", "archive", "other"},
             entries : {"expected", "strange", "changed"}, contract : BOOLEAN, signature : {"wellFormed", "malformed"},
             payload : {"matching", "different", "missing"}, machO : BOOLEAN]

\* source: an explicit supply, or the release this executable runs from; never the root itself.
Source(s) ==
    CASE s.at = "nowhere" -> "CLI_BUNDLE_REQUIRED"
      [] s.at = "insideRoot" -> "CLI_LOCATION_CONFLICT"
      [] OTHER -> "found"

\* directory_entries, walk, read_file and archive_entries: only the expected names,
\* kinds and sizes, and the same identity before and after each read.
ReadEntries(s) ==
    IF s.kind = "other" \/ s.entries = "strange" THEN "CLI_BUNDLE_INVALID"
    ELSE IF s.entries = "changed" THEN "CLI_BUNDLE_CHANGED"
    ELSE "entries"

\* from_entries: manifest first, then the signature's form, then every payload against it.
FromEntries(s) ==
    IF ~s.contract THEN "CLI_BUNDLE_MANIFEST_INVALID"
    ELSE IF s.signature = "malformed" THEN "CLI_BUNDLE_SIGNATURE_INVALID"
    ELSE IF s.payload = "missing" THEN "CLI_BUNDLE_INVALID"
    ELSE IF s.payload = "different" THEN "CLI_BUNDLE_HASH_MISMATCH"
    ELSE IF ~s.machO THEN "CLI_BUNDLE_MANIFEST_INVALID"
    ELSE "read"

\* read_bundle: what reading a supply ends in, "read" when there is a bundle to authenticate.
ReadBundle(s) ==
    IF Source(s) # "found" THEN Source(s)
    ELSE IF ReadEntries(s) # "entries" THEN ReadEntries(s) ELSE FromEntries(s)
Readings == {ReadBundle(s) : s \in Supplies}

\* Root::recheck on an untouched root fails only on too many left-over links.
Recheck == links <= MaxLinks

\* Root::selection: the record behind `current`, if it can be read.
Selection(a) == IF a = 0 THEN [rel |-> NoId, prev |-> NoId] ELSE [rel |-> acts[a].rel, prev |-> acts[a].prev]

\* Root::admission: the private receipt of a published release.
Admission(i) == i # NoId /\ rel[i] # NoBundle

\* The receipt of a selection's previous release, which only has to be there to be reported.
Recorded(i) == i # NoId => Admission(i)

\* Root::admitted: the receipt, and the payload still matches it.
Admitted(i) == Admission(i) /\ i \notin bad

\* Root::entry
EntryOk(allowMissing) == entry = "ours" \/ (allowMissing /\ entry = "none")

\* What a candidate does when probed: how it ends, and what it leaves on its two streams.
Candidates == [exit : {"zero", "nonzero", "late"}, out : {"contract", "other", "overflow"},
               err : {"empty", "text"}, closed : BOOLEAN]

\* probe::run: within the deadline, both streams closed after the drain, nothing on stderr,
\* and the version contract of the manifest on stdout.
Probe(c) == c.exit = "zero" /\ c.out = "contract" /\ c.err = "empty" /\ c.closed
Probed == {Probe(c) : c \in Candidates}

-----------------------------------------------------------------------------
(* The calls. *)

At(p, l) == st[p].at = l
Goto(p, l) == st' = [st EXCEPT ![p].at = l]

\* A call returns: the lock guard is dropped with it.
End(p, r) ==
    /\ st' = [st EXCEPT ![p] = Ended(@, r)]
    /\ lock' = IF lock = p THEN Nobody ELSE lock

Refuse(p, r) == End(p, r) /\ UNCHANGED <<disk, faults>>

\* The places a call names: root and bin-dir overlap, one lies inside a known
\* product root, a directory on the way is a link or writable by others or is
\* exchanged while it is opened, the record names another bin-dir.
Places == [overlap : BOOLEAN, inProduct : BOOLEAN, private : BOOLEAN, recorded : BOOLEAN]

\* fs::check_destination with reject_product_root on every ancestor.
CheckDestination(l) == ~l.inProduct

\* validate_locations
ValidateLocations(l) == ~l.overlap /\ CheckDestination(l)

\* fs::open walks every name from / without following links and compares identities.
OpenDirectory(l) == l.private

\* Root::open: an existing root whose record is of this root and this bin-dir, then recheck.
OpenRoot(l) ==
    IF root = NoTrust THEN "none"
    ELSE IF ~OpenDirectory(l) \/ ~l.recorded THEN "CLI_STORAGE_UNSAFE"
    ELSE IF ~Recheck THEN "CLI_STORAGE_LIMIT"
    ELSE "open"

\* Any call whose places or whose root are refused; only info skips validate_locations.
OpenRefused(p) ==
    /\ At(p, "idle")
    /\ \E r \in {IF ValidateLocations(l) THEN OpenRoot(l) ELSE "CLI_LOCATION_CONFLICT" : l \in Places} \cap Refusals :
          st' = [st EXCEPT ![p] = Ended(Idle, r)]
    /\ UNCHANGED <<disk, lock, faults>>

\* install and update up to Root::create: the root, the entry, the trust policy
\* and the bundle, all read before the lock.
InstallBegin(p, op, b, t) ==
    /\ At(p, "idle") /\ (root = NoTrust \/ Recheck)
    /\ UNCHANGED <<disk, lock, faults>>
    /\ LET c == [Idle EXCEPT !.op = op, !.b = b]
           pinned == IF root = NoTrust THEN t ELSE root
           refused == IF op = "update" /\ root = NoTrust THEN "CLI_NOT_INSTALLED"
                      ELSE IF ~(IF root # NoTrust THEN EntryOk(op # "update") ELSE entry = "none")
                           THEN "CLI_ENTRY_CONFLICT"
                      ELSE IF ~TrustAccepts(root, t) THEN "CLI_TRUST_POLICY"
                      ELSE "no"
       IN  \/ refused # "no" /\ st' = [st EXCEPT ![p] = Ended(c, refused)]
           \/ /\ refused = "no" /\ ~Verified(b, pinned)
              /\ st' = [st EXCEPT ![p] = Ended(c, Authenticate(b, pinned))]
           \/ /\ refused = "no"
              /\ \E r \in Readings \ {"read"} : st' = [st EXCEPT ![p] = Ended(c, r)]
           \/ /\ refused = "no" /\ Verified(b, pinned)
              /\ st' = [st EXCEPT ![p] = IF root = NoTrust THEN [c EXCEPT !.at = "create", !.t = pinned]
                                         ELSE [c EXCEPT !.at = "lock"]]

\* Mutant: the loser of the publication race goes on with the winner's root.
CreateAdopts(p) ==
    /\ At(p, "create")
    /\ root' = IF root = NoTrust THEN st[p].t ELSE root
    /\ st' = [st EXCEPT ![p].at = "lock", ![p].t = NoTrust]
    /\ UNCHANGED <<rel, bad, relSafe, orphans, acts, cur, curSafe, links, staging, entry, lock, faults>>

\* Root::create: the whole root is prepared aside and published by one rename
\* that replaces nothing; the loser of a race removes its copy and fails.
Create(p) ==
    /\ At(p, "create")
    /\ \/ /\ root = NoTrust /\ entry = "none"
          /\ root' = st[p].t
          /\ st' = [st EXCEPT ![p].at = "lock", ![p].t = NoTrust]
          /\ UNCHANGED <<rel, bad, relSafe, orphans, acts, cur, curSafe, links, staging, entry, lock, faults>>
       \/ root = NoTrust /\ entry # "none" /\ Refuse(p, "CLI_ENTRY_CONFLICT")
       \/ root # NoTrust /\ Refuse(p, "CLI_STORAGE_IO")

\* Mutant: the lock is taken although another process holds it.
LockShared(p) == At(p, "lock") /\ Recheck /\ lock' = p /\ Goto(p, "read") /\ UNCHANGED <<disk, faults>>

\* Root::lock: one attempt, never a wait.
Lock(p) ==
    /\ At(p, "lock")
    /\ IF ~Recheck THEN Refuse(p, "CLI_STORAGE_LIMIT")
       ELSE IF lock # Nobody THEN Refuse(p, "CLI_BUSY")
       ELSE lock' = p /\ Goto(p, "read") /\ UNCHANGED <<disk, faults>>

\* Root::ensure_entry
EnsureEntry == entry' = "ours"

\* install under the lock: the selection decides between nothing to do, a refusal and staging.
InstallRead(p) ==
    /\ At(p, "read") /\ st[p].op \in {"install", "update"}
    /\ LET b == st[p].b
           s == Selection(cur)
       IN  \/ /\ cur # 0 /\ s.rel = b.id
              /\ IF ~Admitted(s.rel) THEN Refuse(p, "CLI_RELEASE_CHANGED")
                 ELSE IF rel[s.rel].sum # b.sum THEN Refuse(p, "CLI_RELEASE_CONFLICT")
                 ELSE IF ~EntryOk(TRUE) THEN Refuse(p, "CLI_ENTRY_CONFLICT")
                 ELSE /\ EnsureEntry
                      /\ End(p, IF Recorded(s.prev) THEN "UNCHANGED" ELSE "CLI_STORAGE_UNSAFE")
                      /\ UNCHANGED <<root, rel, bad, relSafe, orphans, acts, cur, curSafe, links, staging, faults>>
           \/ cur = 0 /\ st[p].op = "update" /\ Refuse(p, "CLI_NOT_INSTALLED")
           \/ cur # 0 /\ s.rel # b.id /\ st[p].op = "install" /\ Refuse(p, "CLI_ALREADY_INSTALLED")
           \/ /\ IF cur = 0 THEN st[p].op = "install" ELSE s.rel # b.id /\ st[p].op = "update"
              /\ st' = [st EXCEPT ![p].at = "stage", ![p].old = cur]
              /\ UNCHANGED <<disk, lock, faults>>

\* Root::stage when the release is already there: admitted, the same bytes, probed again.
StageExisting(p, answers) ==
    /\ At(p, "stage") /\ Admission(st[p].b.id)
    /\ IF ~Admitted(st[p].b.id) THEN Refuse(p, "CLI_RELEASE_CHANGED")
       ELSE IF rel[st[p].b.id].sum # st[p].b.sum THEN Refuse(p, "CLI_RELEASE_CONFLICT")
       ELSE IF ~answers THEN Refuse(p, "CLI_CANDIDATE_FAILED")
       ELSE Goto(p, "activate") /\ UNCHANGED <<disk, lock, faults>>

\* Root::stage for a new release: a private directory of this call is filled and verified.
StageNew(p) ==
    /\ At(p, "stage") /\ ~Admission(st[p].b.id)
    /\ IF Cardinality({i \in Ids : Admission(i)}) > MaxReleases \/ staging > MaxStaging
       THEN Refuse(p, "CLI_STORAGE_LIMIT")
       ELSE /\ staging' = staging + 1
            /\ Goto(p, "staged")
            /\ UNCHANGED <<root, rel, bad, relSafe, orphans, acts, cur, curSafe, links, entry, lock, faults>>

\* ... probed where it lies; a failure removes the staging directory.
ProbeStaged(p, answers) ==
    /\ At(p, "staged")
    /\ IF answers THEN Goto(p, "publish") /\ UNCHANGED <<disk, lock, faults>>
       ELSE /\ staging' = staging - 1
            /\ End(p, "CLI_CANDIDATE_FAILED")
            /\ UNCHANGED <<root, rel, bad, relSafe, orphans, acts, cur, curSafe, links, entry, faults>>

\* ... and moved into releases/ with its admission by one rename.
PublishRelease(p) ==
    /\ At(p, "publish")
    /\ staging' = staging - 1
    /\ IF Admission(st[p].b.id) THEN End(p, "CLI_RELEASE_CONFLICT") /\ UNCHANGED rel
       ELSE /\ rel' = [rel EXCEPT ![st[p].b.id] = st[p].b]
            /\ Goto(p, "syncRel") /\ UNCHANGED lock
    /\ UNCHANGED <<root, bad, relSafe, orphans, acts, cur, curSafe, links, entry, faults>>

\* Mutant: the rename into releases/ is never synced.
SyncReleasesSkipped(p) == At(p, "syncRel") /\ Goto(p, "activate") /\ UNCHANGED <<disk, lock, faults>>

\* ... then the two directories are synced and the release admitted.
SyncReleases(p) ==
    /\ At(p, "syncRel")
    /\ relSafe' = relSafe \cup {st[p].b.id}
    /\ orphans' = orphans \ {st[p].b.id}
    /\ IF Admitted(st[p].b.id) THEN Goto(p, "activate") /\ UNCHANGED lock
       ELSE End(p, "CLI_RELEASE_CHANGED")
    /\ UNCHANGED <<root, rel, bad, acts, cur, curSafe, links, staging, entry, faults>>

\* rollback under the lock: the previous release must be admitted and answer the probe.
RollbackBegin(p) ==
    /\ At(p, "idle") /\ (root = NoTrust \/ Recheck)
    /\ UNCHANGED <<disk, lock, faults>>
    /\ LET c == [Idle EXCEPT !.op = "rollback"]
       IN  st' = [st EXCEPT ![p] = IF root = NoTrust THEN Ended(c, "CLI_NOT_INSTALLED")
                                   ELSE [c EXCEPT !.at = "lock"]]

RollbackRead(p, answers) ==
    /\ At(p, "read") /\ st[p].op = "rollback"
    /\ LET s == Selection(cur)
       IN  IF ~EntryOk(FALSE) THEN Refuse(p, "CLI_ENTRY_CONFLICT")
           ELSE IF cur = 0 THEN Refuse(p, "CLI_NOT_INSTALLED")
           ELSE IF s.prev = NoId THEN Refuse(p, "CLI_PREVIOUS_MISSING")
           ELSE IF ~Admitted(s.prev) THEN Refuse(p, "CLI_RELEASE_CHANGED")
           ELSE IF ~answers THEN Refuse(p, "CLI_CANDIDATE_FAILED")
           ELSE IF ~Admission(s.rel) THEN Refuse(p, "CLI_STORAGE_UNSAFE")
           ELSE /\ st' = [st EXCEPT ![p].at = "activate", ![p].old = cur, ![p].b = rel[s.prev]]
                /\ UNCHANGED <<disk, lock, faults>>

\* next_activation: above every number in use, finished or not.
NextActivation == Len(acts) + 1

\* Root::activate, first half: the selection is still the one read, and a new
\* numbered directory is made (next_activation counts the unfinished ones too).
MakeActivation(p) ==
    /\ At(p, "activate")
    /\ IF ~Recheck \/ NextActivation > MaxActs THEN Refuse(p, "CLI_STORAGE_LIMIT")
       ELSE IF ~EntryOk(TRUE) THEN Refuse(p, "CLI_ENTRY_CONFLICT")
       ELSE IF cur # st[p].old THEN Refuse(p, "CLI_SELECTION_CHANGED")
       ELSE /\ acts' = Append(acts, [rel |-> st[p].b.id, prev |-> Selection(st[p].old).rel, whole |-> FALSE])
            /\ st' = [st EXCEPT ![p].at = "fill", ![p].act = NextActivation]
            /\ UNCHANGED <<root, rel, bad, relSafe, orphans, cur, curSafe, links, staging, entry, lock, faults>>

\* Mutant: the activation directory is still empty when it is linked.
FillActivationLate(p) == At(p, "fill") /\ Goto(p, "link") /\ UNCHANGED <<disk, lock, faults>>

\* ... selection.json and the bin and share links, synced.
FillActivation(p) ==
    /\ At(p, "fill")
    /\ acts' = [acts EXCEPT ![st[p].act].whole = TRUE]
    /\ Goto(p, "link")
    /\ UNCHANGED <<root, rel, bad, relSafe, orphans, cur, curSafe, links, staging, entry, lock, faults>>

\* ... the release and the selection are checked again, the entry link is made
\* sure of, and a temporary link to the activation is written and synced.
LinkActivation(p) ==
    /\ At(p, "link")
    /\ IF ~Admitted(st[p].b.id) THEN Refuse(p, "CLI_RELEASE_CHANGED")
       ELSE IF ~EntryOk(TRUE) THEN Refuse(p, "CLI_ENTRY_CONFLICT")
       ELSE /\ EnsureEntry
            /\ IF ~Recheck THEN End(p, "CLI_STORAGE_LIMIT") /\ UNCHANGED links
               ELSE IF cur # st[p].old THEN End(p, "CLI_SELECTION_CHANGED") /\ UNCHANGED links
               ELSE links' = links + 1 /\ Goto(p, "switch") /\ UNCHANGED lock
            /\ UNCHANGED <<root, rel, bad, relSafe, orphans, acts, cur, curSafe, staging, faults>>

\* ... the temporary link replaces `current`: the one step that selects.
Switch(p) ==
    /\ At(p, "switch")
    /\ cur' = st[p].act
    /\ links' = links - 1
    /\ st' = [st EXCEPT ![p].at = "confirm", ![p].moved = TRUE]
    /\ UNCHANGED <<root, rel, bad, relSafe, orphans, acts, curSafe, staging, entry, lock, faults>>

\* Mutant: a failed sync or confirmation after the switch is reported as an ordinary I/O error.
ConfirmAsIo(p) ==
    /\ At(p, "confirm")
    /\ IF Recheck /\ EntryOk(FALSE)
       THEN End(p, IF st[p].op = "rollback" THEN "ROLLED_BACK" ELSE "UPDATED") /\ curSafe' = cur
       ELSE End(p, "CLI_STORAGE_IO") /\ UNCHANGED curSafe
    /\ UNCHANGED <<root, rel, bad, relSafe, orphans, acts, cur, links, staging, entry, faults>>

\* ... synced and read back, and install and update look for the previous release; from
\* here on a doubt is reported as unknown.
Confirm(p) ==
    /\ At(p, "confirm")
    /\ curSafe' = cur
    /\ LET done == CASE st[p].op = "install" -> "INSTALLED"
                     [] st[p].op = "update" -> "UPDATED"
                     [] st[p].op = "rollback" -> "ROLLED_BACK"
           known == st[p].op = "rollback" \/ Recorded(acts[cur].prev)
       IN  End(p, IF Recheck /\ cur = st[p].act /\ EntryOk(FALSE) /\ known
                  THEN done ELSE "CLI_ACTIVATION_UNKNOWN")
    /\ UNCHANGED <<root, rel, bad, relSafe, orphans, acts, cur, links, staging, entry, faults>>

\* info, without the lock: the selection, its entry and releases, and the selection again.
InfoBegin(p) ==
    /\ At(p, "idle") /\ (root = NoTrust \/ Recheck)
    /\ st' = [st EXCEPT ![p] = IF root = NoTrust \/ cur = 0 THEN Ended(Idle, "NOT_INSTALLED")
                               ELSE IF ~EntryOk(FALSE) THEN Ended(Idle, "CLI_ENTRY_CONFLICT")
                               ELSE IF ~Admitted(Selection(cur).rel) THEN Ended(Idle, "CLI_RELEASE_CHANGED")
                               ELSE IF ~Recorded(Selection(cur).prev)
                                    THEN Ended(Idle, "CLI_STORAGE_UNSAFE")
                               ELSE [Idle EXCEPT !.at = "again", !.old = cur]]
    /\ UNCHANGED <<disk, lock, faults>>

InfoAgain(p) ==
    /\ At(p, "again")
    /\ Refuse(p, IF ~Recheck THEN "CLI_STORAGE_LIMIT" ELSE IF cur = st[p].old THEN "READY" ELSE "CLI_SELECTION_CHANGED")

\* The report is printed and the process exits.
Exit(p) == st[p].at \in Results /\ st' = [st EXCEPT ![p] = Idle] /\ UNCHANGED <<disk, lock, faults>>

-----------------------------------------------------------------------------
(* The world around the calls. *)

Locked == {"read", "stage", "staged", "publish", "syncRel", "activate", "fill", "link", "switch", "confirm"}

\* An I/O call fails: the call returns and removes its staging directory; its
\* temporary link is removed when the rename failed, left when the sync before
\* it did; after the switch the call can no longer say what is selected.
IoFails(p) ==
    /\ faults < MaxFaults /\ st[p].at \in Locked \cup {"create", "lock"}
    /\ faults' = faults + 1
    /\ staging' = IF st[p].at \in {"staged", "publish"} THEN staging - 1 ELSE staging
    /\ links' \in IF st[p].at = "switch" THEN {links - 1, links} ELSE {links}
    /\ orphans' = IF st[p].at = "syncRel" THEN orphans \cup {st[p].b.id} ELSE orphans
    /\ End(p, IF st[p].at = "confirm" THEN "CLI_ACTIVATION_UNKNOWN" ELSE "CLI_STORAGE_IO")
    /\ UNCHANGED <<root, rel, bad, relSafe, acts, cur, curSafe, entry>>

\* The process is killed: nothing is cleaned up, the flock is gone.
Kill(p) ==
    /\ faults < MaxFaults /\ st[p].at \in Locked \cup {"create", "lock", "again"}
    /\ faults' = faults + 1
    /\ orphans' = IF st[p].at = "syncRel" THEN orphans \cup {st[p].b.id} ELSE orphans
    /\ st' = [st EXCEPT ![p] = Idle]
    /\ lock' = IF lock = p THEN Nobody ELSE lock
    /\ UNCHANGED <<root, rel, bad, relSafe, acts, cur, curSafe, links, staging, entry>>

\* The machine loses power: unsynced renames may be undone, each on its own.
PowerLoss ==
    /\ faults < MaxFaults
    /\ faults' = faults + 1
    /\ rel' \in {[i \in Ids |-> IF i \in lost THEN NoBundle ELSE rel[i]] : lost \in SUBSET {i \in Ids : rel[i] # NoBundle /\ i \notin relSafe}}
    /\ cur' \in {cur, curSafe} /\ curSafe' = cur'
    /\ relSafe' = {i \in Ids : rel'[i] # NoBundle}
    /\ bad' = bad \cap relSafe'
    /\ st' = [p \in Procs |-> Idle]
    /\ lock' = Nobody
    /\ UNCHANGED <<root, orphans, acts, links, staging, entry>>

\* The user deletes the entry link, or puts a file of their own there; or a release file decays.
UserTouches ==
    /\ faults < MaxFaults
    /\ faults' = faults + 1
    /\ \/ entry' \in {"none", "foreign"} \ {entry} /\ UNCHANGED bad
       \/ \E i \in {j \in Ids : rel[j] # NoBundle} \ bad : bad' = bad \cup {i} /\ UNCHANGED entry
    /\ UNCHANGED <<root, rel, relSafe, orphans, acts, cur, curSafe, links, staging, lock, st>>

Call(p) ==
    \/ OpenRefused(p)
    \/ \E op \in {"install", "update"}, b \in Bundles, t \in Offers : InstallBegin(p, op, b, t)
    \/ RollbackBegin(p)
    \/ InfoBegin(p)

Step(p) ==
    \/ Create(p) \/ Lock(p) \/ InstallRead(p)
    \/ StageNew(p) \/ PublishRelease(p) \/ SyncReleases(p)
    \/ \E answers \in Probed :
            StageExisting(p, answers) \/ ProbeStaged(p, answers) \/ RollbackRead(p, answers)
    \/ MakeActivation(p) \/ FillActivation(p) \/ LinkActivation(p) \/ Switch(p) \/ Confirm(p)
    \/ InfoAgain(p) \/ Exit(p)

Next == (\E p \in Procs : Call(p) \/ Step(p) \/ IoFails(p) \/ Kill(p)) \/ PowerLoss \/ UserTouches

Spec == Init /\ [][Next]_vars

-----------------------------------------------------------------------------
(* Properties. *)

\* A selection that can be used: a finished activation of a published release,
\* whose previous release is another one and can still be selected.
Usable(a, ids) ==
    a # 0 => /\ acts[a].whole
             /\ acts[a].rel \in ids
             /\ acts[a].prev # NoId => acts[a].prev \in ids /\ acts[a].prev # acts[a].rel

\* `current` never names an unfinished activation or a release that is not
\* there, whatever was killed or failed before (design/2026-10-23-management-
\* cli-distribution.md: one atomic switch); and what the disk holds is as good,
\* except for a release whose publisher died before syncing it: stage adopts
\* such a release without a sync of its own.
SelectionWhole ==
    /\ Usable(cur, {i \in Ids : rel[i] # NoBundle} \cup orphans)
    /\ Usable(curSafe, relSafe \cup orphans)

\* Every published release was verified under the trust the root pinned, also
\* when two first installs with different policies race (Root::create, Trust).
TrustKept == \A i \in Ids : rel[i] # NoBundle => Verified(rel[i], root)

\* What a call reports about the switch is what it did: success means it
\* selected, an error other than CLI_ACTIVATION_UNKNOWN means it selected nothing
\* (docs/management-cli.md: a failure before the switch keeps the selection).
ReportFits ==
    \A p \in Procs :
        /\ st[p].at \in Success => st[p].moved
        /\ st[p].at \in {"REFUSED", "UNCHANGED", "READY"} => ~st[p].moved

\* Each switch records as "previous" exactly the release that was selected
\* before it, so a rollback undoes the last switch even after concurrent updates.
PreviousIsPredecessor ==
    [][cur' > cur => acts'[cur'].prev = Selection(cur).rel]_vars
=============================================================================
