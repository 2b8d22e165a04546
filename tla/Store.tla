------------------------------- MODULE Store -------------------------------
(***************************************************************************)
(* The append-only checkpoint store of src/setup/store.rs: Store::create,  *)
(* open and save, and write_new, the exclusive publication of one output   *)
(* file.  Several processes use one store directory and no lock protects   *)
(* it; a process may die between any two system calls and the machine may  *)
(* lose power.                                                             *)
(*                                                                         *)
(* A directory is a record of the published names (the revisions 1, 2, ... *)
(* and the output file, name 0) and the set of files that still have their *)
(* private temporary name.  `survivable' holds every directory a power     *)
(* loss may leave: an operation on the directory adds its result, a sync   *)
(* of the directory leaves only the present one (metadata reaches the disk *)
(* in order, as on the journalled file systems bxdl runs on).              *)
(*                                                                         *)
(* A directory scan is one step that either sees the directory as it is or *)
(* fails; a scan torn by a concurrent writer fails its link or contiguity  *)
(* checks.  What a file says is its identity; base[f] records the          *)
(* checkpoint its writer had loaded.                                       *)
(***************************************************************************)
EXTENDS Integers, FiniteSets

CONSTANTS Writers,       \* processes that hold the directory open
          Files,         \* file identities (inodes)
          MaxRevisions,  \* MAX_REVISIONS, 4096 in the code
          MaxEntries,    \* MAX_ENTRIES, 8192 in the code
          None

ASSUME StoreAssumption ==
    /\ None \notin Files
    /\ MaxRevisions \in Nat
    /\ MaxEntries \in Nat

Output == 0
Revisions == 1 .. MaxRevisions
Names == 0 .. MaxRevisions
Directories == [exists : BOOLEAN,
                names  : [Names -> Files \cup {None}],
                temps  : SUBSET Files]

VARIABLES dir,         \* the directory as every process sees it
          survivable,  \* the directories a power loss may leave
          content,     \* of a file: "absent", "partial" or "synced"
          base,        \* the checkpoint a file's writer had loaded
          pc,          \* where each process stands
          loaded,      \* Store.loaded: revision and file, revision 0 for none
          pending,     \* PendingFile: the file being published
          target,      \* the name it is to be published under
          acked        \* history: the publications that returned Ok

vars == <<dir, survivable, content, base, pc, loaded, pending, target, acked>>

Empty == [exists |-> FALSE, names |-> [n \in Names |-> None], temps |-> {}]
NotLoaded == [rev |-> 0, file |-> None]

Init ==
    /\ dir = Empty
    /\ survivable = {Empty}
    /\ content = [f \in Files |-> "absent"]
    /\ base = [f \in Files |-> None]
    /\ pc = [w \in Writers |-> "closed"]
    /\ loaded = [w \in Writers |-> NotLoaded]
    /\ pending = [w \in Writers |-> None]
    /\ target = [w \in Writers |-> Output]
    /\ acked = {}

-----------------------------------------------------------------------------
(* Reading a directory.                                                    *)

\* The revisions present are exactly 1 .. n.
Contiguous(d, n) == \A m \in Revisions : d.names[m] # None <=> m <= n

\* nlink = 1 + internal links: apart from its private name, a published file
\* has one name in the directory and none elsewhere.
LinksConsistent(d) ==
    \A m, n \in Names : d.names[m] # None /\ d.names[m] = d.names[n] => m = n

EntryCount(d) ==
    Cardinality({n \in Names : d.names[n] # None}) + Cardinality(d.temps)

FileAt(d, n) == IF n = 0 THEN None ELSE d.names[n]

\* A scan of d that returns Ok finds n the last revision.
Latest(d, n) ==
    /\ d.exists
    /\ EntryCount(d) <= MaxEntries
    /\ LinksConsistent(d)
    /\ Contiguous(d, n)

\* The latest checkpoint is the one the process has loaded.
CompareLoaded(w) ==
    /\ Latest(dir, loaded[w].rev)
    /\ FileAt(dir, loaded[w].rev) = loaded[w].file

-----------------------------------------------------------------------------
(* Changing it.                                                            *)

Made(d) == [d EXCEPT !.exists = TRUE]
WithTemp(d, f) == [d EXCEPT !.temps = @ \cup {f}]
WithoutTemp(d, f) == [d EXCEPT !.temps = @ \ {f}]
WithName(d, n, f) == [d EXCEPT !.names[n] = f]

ChangeDir(d) ==
    /\ dir' = d
    /\ survivable' = survivable \cup {d}

\* Mutant: the directory is never synced.
SyncSkipped ==
    /\ UNCHANGED survivable
    /\ UNCHANGED dir

SyncDirectory ==
    /\ survivable' = {dir}
    /\ UNCHANGED dir

Goto(w, from, to) ==
    /\ pc[w] = from
    /\ pc' = [pc EXCEPT ![w] = to]

\* Where a call that ends leaves its process: write_new keeps no Store.
Done(w) == IF target[w] = Output THEN "closed" ELSE "idle"

\* Store::create: the directory must be new; its parent is synced before
\* the store is opened.
CreateDir(w) ==
    /\ Goto(w, "closed", "created")
    /\ ~dir.exists
    /\ ChangeDir(Made(dir))
    /\ UNCHANGED <<content, base, loaded, pending, target, acked>>

SyncParent(w) ==
    /\ Goto(w, "created", "closed")
    /\ SyncDirectory
    /\ UNCHANGED <<content, base, loaded, pending, target, acked>>

\* Store::open.
Open(w) ==
    /\ Goto(w, "closed", "idle")
    /\ \E n \in Names :
        /\ Latest(dir, n)
        /\ loaded' = [loaded EXCEPT ![w] = [rev |-> n, file |-> FileAt(dir, n)]]
    /\ UNCHANGED <<dir, survivable, content, base, pending, target, acked>>

\* The caller drops its Store.
Close(w) ==
    /\ Goto(w, "idle", "closed")
    /\ loaded' = [loaded EXCEPT ![w] = NotLoaded]
    /\ UNCHANGED <<dir, survivable, content, base, pending, target, acked>>

\* Mutant: the revision limit is not checked.
SaveBeginUnbounded(w) ==
    /\ Goto(w, "idle", "create")
    /\ CompareLoaded(w)
    /\ target' = [target EXCEPT ![w] = loaded[w].rev + 1]
    /\ UNCHANGED <<dir, survivable, content, base, loaded, pending, acked>>

\* Store::save up to the choice of the revision.
SaveBegin(w) ==
    /\ Goto(w, "idle", "create")
    /\ CompareLoaded(w)
    /\ loaded[w].rev + 1 <= MaxRevisions
    /\ target' = [target EXCEPT ![w] = loaded[w].rev + 1]
    /\ UNCHANGED <<dir, survivable, content, base, loaded, pending, acked>>

\* write_new up to the temporary file.
WriteNewBegin(w) ==
    /\ Goto(w, "closed", "create")
    /\ dir.exists
    /\ dir.names[Output] = None
    /\ target' = [target EXCEPT ![w] = Output]
    /\ UNCHANGED <<dir, survivable, content, base, loaded, pending, acked>>

\* PendingFile::create: a new private file, then its bytes and their sync.
CreateTemp(w) ==
    /\ Goto(w, "create", "write")
    /\ \E f \in Files :
        /\ content[f] = "absent"
        /\ content' = [content EXCEPT ![f] = "partial"]
        /\ base' = [base EXCEPT ![f] = loaded[w].file]
        /\ pending' = [pending EXCEPT ![w] = f]
        /\ ChangeDir(WithTemp(dir, f))
    /\ UNCHANGED <<loaded, target, acked>>

\* Mutant: the bytes are not synced before the file is published.
WriteUnsynced(w) ==
    /\ Goto(w, "write", "recheck")
    /\ UNCHANGED <<dir, survivable, content, base, loaded, pending, target, acked>>

WriteSync(w) ==
    /\ Goto(w, "write", "recheck")
    /\ content' = [content EXCEPT ![pending[w]] = "synced"]
    /\ UNCHANGED <<dir, survivable, base, loaded, pending, target, acked>>

\* The second comparison of Store::save; write_new has none.
Recheck(w) ==
    /\ Goto(w, "recheck", "link")
    /\ target[w] = Output \/ CompareLoaded(w)
    /\ UNCHANGED <<dir, survivable, content, base, loaded, pending, target, acked>>

\* Mutant: a rename, which replaces the name another writer has published.
RenameOver(w) ==
    /\ Goto(w, "link", "sync1")
    /\ pending[w] \in dir.temps
    /\ ChangeDir(WithName(dir, target[w], pending[w]))
    /\ UNCHANGED <<content, base, loaded, pending, target, acked>>

\* PendingFile::publish: a hard link never replaces an existing name.
Link(w) ==
    /\ Goto(w, "link", "sync1")
    /\ pending[w] \in dir.temps
    /\ dir.names[target[w]] = None
    /\ ChangeDir(WithName(dir, target[w], pending[w]))
    /\ UNCHANGED <<content, base, loaded, pending, target, acked>>

SyncPublished(w) ==
    /\ Goto(w, "sync1", "unlink")
    /\ SyncDirectory
    /\ UNCHANGED <<content, base, loaded, pending, target, acked>>

Unlink(w) ==
    /\ Goto(w, "unlink", "sync2")
    /\ ChangeDir(WithoutTemp(dir, pending[w]))
    /\ UNCHANGED <<content, base, loaded, pending, target, acked>>

SyncUnlinked(w) ==
    /\ Goto(w, "sync2", "verify")
    /\ SyncDirectory
    /\ UNCHANGED <<content, base, loaded, pending, target, acked>>

\* The last check of save (the latest revision is the one just written) or
\* of write_new (the name holds the file), then Ok.
Verify(w) ==
    /\ Goto(w, "verify", Done(w))
    /\ dir.names[target[w]] = pending[w]
    /\ target[w] # Output => Latest(dir, target[w])
    /\ loaded' = IF target[w] = Output THEN loaded
                 ELSE [loaded EXCEPT ![w] = [rev |-> target[w], file |-> pending[w]]]
    /\ acked' = acked \cup {[name |-> target[w], file |-> pending[w]]}
    /\ pending' = [pending EXCEPT ![w] = None]
    /\ target' = [target EXCEPT ![w] = Output]
    /\ UNCHANGED <<dir, survivable, content, base>>

\* Any call on the way may fail: a conflict, a full disk, a failed sync, a
\* torn scan.  The error returns through PendingFile's destructor.
Fail(w) ==
    /\ \E at \in {"create", "write", "recheck", "link", "sync1", "unlink",
                  "sync2", "verify"} : Goto(w, at, "drop")
    /\ UNCHANGED <<dir, survivable, content, base, loaded, pending, target, acked>>

\* Mutant: a failed save takes back the name it has published.
DropPublished(w) ==
    /\ Goto(w, "drop", Done(w))
    /\ ChangeDir(IF dir.names[target[w]] = pending[w]
                   THEN WithName(dir, target[w], None)
                   ELSE WithoutTemp(dir, pending[w]))
    /\ pending' = [pending EXCEPT ![w] = None]
    /\ target' = [target EXCEPT ![w] = Output]
    /\ UNCHANGED <<content, base, loaded, acked>>

\* PendingFile::drop removes the private name if it can.
Drop(w) ==
    /\ Goto(w, "drop", Done(w))
    /\ \/ ChangeDir(WithoutTemp(dir, pending[w]))
       \/ UNCHANGED <<dir, survivable>>
    /\ pending' = [pending EXCEPT ![w] = None]
    /\ target' = [target EXCEPT ![w] = Output]
    /\ UNCHANGED <<content, base, loaded, acked>>

\* A process dies; what it left in the directory stays.
Crash(w) ==
    /\ pc[w] # "closed"
    /\ pc' = [pc EXCEPT ![w] = "closed"]
    /\ loaded' = [loaded EXCEPT ![w] = NotLoaded]
    /\ pending' = [pending EXCEPT ![w] = None]
    /\ target' = [target EXCEPT ![w] = Output]
    /\ UNCHANGED <<dir, survivable, content, base, acked>>

PowerLoss ==
    /\ dir' \in survivable
    /\ survivable' = {dir'}
    /\ pc' = [w \in Writers |-> "closed"]
    /\ loaded' = [w \in Writers |-> NotLoaded]
    /\ pending' = [w \in Writers |-> None]
    /\ target' = [w \in Writers |-> Output]
    /\ UNCHANGED <<content, base, acked>>

Next ==
    \/ \E w \in Writers :
        \/ CreateDir(w) \/ SyncParent(w) \/ Open(w) \/ Close(w)
        \/ SaveBegin(w) \/ WriteNewBegin(w)
        \/ CreateTemp(w) \/ WriteSync(w) \/ Recheck(w)
        \/ Link(w) \/ SyncPublished(w) \/ Unlink(w) \/ SyncUnlinked(w)
        \/ Verify(w) \/ Fail(w) \/ Drop(w) \/ Crash(w)
    \/ PowerLoss

Spec == Init /\ [][Next]_vars

-----------------------------------------------------------------------------
(* Properties.                                                             *)

PCs == {"closed", "created", "idle", "create", "write", "recheck", "link",
        "sync1", "unlink", "sync2", "verify", "drop"}

\* Every variable has its type, and the directory in use is one a power
\* loss may leave.
TypeOK ==
    /\ dir \in Directories
    /\ survivable \in SUBSET Directories
    /\ dir \in survivable
    /\ content \in [Files -> {"absent", "partial", "synced"}]
    /\ base \in [Files -> Files \cup {None}]
    /\ pc \in [Writers -> PCs]
    /\ loaded \in [Writers -> [rev : Names, file : Files \cup {None}]]
    /\ pending \in [Writers -> Files \cup {None}]
    /\ target \in [Writers -> Names]
    /\ acked \in SUBSET [name : Names, file : Files \cup {None}]

\* Whatever crash or power loss happens, and at whichever of save's system
\* calls, the directory left behind passes the checks of latest_bounded: its
\* revisions are contiguous, its links consistent, and every published name
\* holds a completely written file.  (EntryCount is the separate limit.)
Recoverable ==
    \A d \in survivable :
        /\ \E n \in Names : Contiguous(d, n)
        /\ LinksConsistent(d)
        /\ \A n \in Names : d.names[n] # None => content[d.names[n]] = "synced"

\* A publication that returned Ok is never lost and never replaced: not by
\* another writer, a later failure, a crash or a power loss.
AckedDurable ==
    \A a \in acked : \A d \in survivable : d.exists /\ d.names[a.name] = a.file

\* No lost update: each revision was written by a process that had loaded
\* the revision before it, although writers take no lock.
NoLostUpdate ==
    \A d \in survivable : \A n \in Revisions :
        d.names[n] # None => base[d.names[n]] = FileAt(d, n - 1)

-----------------------------------------------------------------------------
(* Refinement: the published revisions are a Journal.                      *)

LastOf(d) == CHOOSE n \in Names : Contiguous(d, n)
LogOf(d) == [i \in 1 .. LastOf(d) |-> [id |-> d.names[i], base |-> base[d.names[i]]]]
DurableLength ==
    CHOOSE n \in Names : /\ \E d \in survivable : LastOf(d) = n
                         /\ \A d \in survivable : n <= LastOf(d)

J == INSTANCE Journal WITH
        Ids <- Files, None <- None,
        log <- LogOf(dir), durable <- DurableLength,
        acked <- {[id |-> a.file, base |-> base[a.file]] :
                    a \in {b \in acked : b.name # Output}}

\* The store implements Journal: directories, links, syncs and writers add
\* no behaviour that the one growing history does not have.
ImplementsJournal == J!Spec
=============================================================================
