---------------------------- MODULE StoreProofs ----------------------------
(***************************************************************************)
(* Proofs about Store, for every set of writers and files and every bound. *)
(*                                                                         *)
(* None of the properties is inductive by itself.  IInv adds what the      *)
(* writers know: every directory that may survive shows a prefix of the    *)
(* present one (Prefix); a revision a process has loaded is still there    *)
(* (Views); a pending file is unpublished until its link, complete after   *)
(* its sync and based on what its writer has loaded (Pendings); and after  *)
(* the first sync of publish the name survives (Published).                *)
(* With IInv every step of the store is a step of Journal or none.         *)
(***************************************************************************)
EXTENDS Store, SequenceTheorems, WellFoundedInduction, TLAPS

Before == {"write", "recheck", "link"}
After == {"sync1", "unlink", "sync2", "verify"}
Busy == Before \cup After \cup {"create", "drop"}

Prefix ==
    \A d \in survivable :
        /\ \A n \in Names : d.names[n] # None => d.names[n] = dir.names[n]
        /\ \E n \in Names : Contiguous(d, n)

Based ==
    \A n \in Revisions : dir.names[n] # None => base[dir.names[n]] = FileAt(dir, n - 1)

Complete ==
    \A n \in Names : dir.names[n] # None => content[dir.names[n]] = "synced"

Distinct == LinksConsistent(dir)

Views ==
    \A w \in Writers :
        /\ loaded[w].rev = 0 => loaded[w].file = None
        /\ loaded[w].rev > 0 => /\ loaded[w].file # None
                                /\ dir.names[loaded[w].rev] = loaded[w].file
        /\ pc[w] \in Busy /\ target[w] # Output => target[w] = loaded[w].rev + 1

Pendings ==
    \A w \in Writers :
        /\ pc[w] \in Before \cup After => pending[w] # None
        /\ pc[w] \in {"closed", "created", "idle", "create"} => pending[w] = None
        /\ pc[w] \in Before => \A n \in Names : dir.names[n] # pending[w]
        /\ pc[w] \in {"recheck", "link"} => content[pending[w]] = "synced"
        /\ pc[w] \in Before => base[pending[w]] = loaded[w].file
        /\ pc[w] \in After => dir.names[target[w]] = pending[w]
        /\ pending[w] # None => content[pending[w]] # "absent"
        /\ \A v \in Writers : pending[v] = pending[w] /\ pending[w] # None => v = w

Published ==
    /\ \A w \in Writers : pc[w] \in {"unlink", "sync2", "verify"} =>
        \A d \in survivable : d.exists /\ d.names[target[w]] = pending[w]
    /\ \A w \in Writers : pc[w] \notin {"closed"} => dir.exists
    /\ \A d \in survivable : ~d.exists => \A n \in Names : d.names[n] = None
    /\ \A a \in acked : a.file # None

IInv == /\ TypeOK /\ Prefix /\ Based /\ Complete /\ Distinct
        /\ Views /\ Pendings /\ Published /\ AckedDurable

-----------------------------------------------------------------------------
(* What an operation on the directory changes and what it leaves alone.    *)

\* Store::create's mkdir names nothing.
LEMMA MadeDir ==
    ASSUME NEW d \in Directories
    PROVE  /\ Made(d) \in Directories
           /\ Made(d).exists
           /\ Made(d).names = d.names
  BY DEF Made, Directories

\* A private name publishes nothing.
LEMMA TempDir ==
    ASSUME NEW d \in Directories, NEW f \in Files
    PROVE  /\ WithTemp(d, f) \in Directories
           /\ WithTemp(d, f).exists = d.exists
           /\ WithTemp(d, f).names = d.names
  BY DEF WithTemp, Directories

\* Removing a private name unpublishes nothing.
LEMMA UntempDir ==
    ASSUME NEW d \in Directories, NEW f \in Files \cup {None}
    PROVE  /\ WithoutTemp(d, f) \in Directories
           /\ WithoutTemp(d, f).exists = d.exists
           /\ WithoutTemp(d, f).names = d.names
  BY DEF WithoutTemp, Directories

\* A hard link adds one name.
LEMMA NameDir ==
    ASSUME NEW d \in Directories, NEW n \in Names, NEW f \in Files \cup {None}
    PROVE  /\ WithName(d, n, f) \in Directories
           /\ WithName(d, n, f).exists = d.exists
           /\ WithName(d, n, f).names = [d.names EXCEPT ![n] = f]
  BY DEF WithName, Directories

-----------------------------------------------------------------------------
\* Every step keeps the types.
LEMMA TypeStep == TypeOK /\ [Next]_vars => TypeOK'
<1> SUFFICES ASSUME TypeOK, [Next]_vars PROVE TypeOK'
  OBVIOUS
<1> USE StoreAssumption DEF TypeOK, PCs, Names, Output
<1>1. ASSUME NEW w \in Writers, CreateDir(w) PROVE TypeOK'
  BY <1>1, MadeDir DEF CreateDir, Goto, ChangeDir
<1>2. ASSUME NEW w \in Writers, SyncParent(w) PROVE TypeOK'
  BY <1>2 DEF SyncParent, Goto, SyncDirectory
<1>3. ASSUME NEW w \in Writers, Open(w) PROVE TypeOK'
  BY <1>3 DEF Open, Goto, FileAt, Directories
<1>4. ASSUME NEW w \in Writers, Close(w) PROVE TypeOK'
  BY <1>4 DEF Close, Goto, NotLoaded
<1>5. ASSUME NEW w \in Writers, SaveBegin(w) PROVE TypeOK'
  BY <1>5 DEF SaveBegin, Goto
<1>6. ASSUME NEW w \in Writers, WriteNewBegin(w) PROVE TypeOK'
  BY <1>6 DEF WriteNewBegin, Goto
<1>7. ASSUME NEW w \in Writers, CreateTemp(w) PROVE TypeOK'
  BY <1>7, TempDir DEF CreateTemp, Goto, ChangeDir
<1>8. ASSUME NEW w \in Writers, WriteSync(w) PROVE TypeOK'
  BY <1>8 DEF WriteSync, Goto
<1>9. ASSUME NEW w \in Writers, Recheck(w) PROVE TypeOK'
  BY <1>9 DEF Recheck, Goto
<1>10. ASSUME NEW w \in Writers, Link(w) PROVE TypeOK'
  <2>1. WithName(dir, target[w], pending[w]) \in Directories
    BY NameDir
  <2> QED
    BY <1>10, <2>1 DEF Link, Goto, ChangeDir
<1>11. ASSUME NEW w \in Writers, SyncPublished(w) PROVE TypeOK'
  BY <1>11 DEF SyncPublished, Goto, SyncDirectory
<1>12. ASSUME NEW w \in Writers, Unlink(w) PROVE TypeOK'
  BY <1>12, UntempDir DEF Unlink, Goto, ChangeDir
<1>13. ASSUME NEW w \in Writers, SyncUnlinked(w) PROVE TypeOK'
  BY <1>13 DEF SyncUnlinked, Goto, SyncDirectory
<1>14. ASSUME NEW w \in Writers, Verify(w) PROVE TypeOK'
  BY <1>14 DEF Verify, Goto, Done
<1>15. ASSUME NEW w \in Writers, Fail(w) PROVE TypeOK'
  BY <1>15 DEF Fail, Goto
<1>16. ASSUME NEW w \in Writers, Drop(w) PROVE TypeOK'
  BY <1>16, UntempDir DEF Drop, Goto, Done, ChangeDir
<1>17. ASSUME NEW w \in Writers, Crash(w) PROVE TypeOK'
  BY <1>17 DEF Crash, NotLoaded
<1>18. CASE PowerLoss
  BY <1>18 DEF PowerLoss, NotLoaded
<1>19. CASE UNCHANGED vars
  BY <1>19 DEF vars
<1> QED
  BY <1>1, <1>2, <1>3, <1>4, <1>5, <1>6, <1>7, <1>8, <1>9, <1>10, <1>11, <1>12, <1>13, <1>14, <1>15, <1>16, <1>17, <1>18, <1>19 DEF Next

\* Every step of every writer, every crash and every power loss keeps each
\* variable in its type, and the present directory among the survivable ones.
THEOREM TypeCorrect == Spec => []TypeOK
<1>1. Init => TypeOK
  BY StoreAssumption DEF Init, TypeOK, Empty, Directories, NotLoaded, Names, Output, PCs
<1> QED
  BY <1>1, TypeStep, PTL DEF Spec

-----------------------------------------------------------------------------
(* Only Link publishes and only PowerLoss takes names back: every other    *)
(* action keeps the published names (Kept) and what the published files    *)
(* hold (FilesKept).                                                       *)

Kept ==
    /\ dir'.names = dir.names
    /\ dir.exists => dir'.exists
    /\ \A d \in survivable' : \/ d \in survivable
                              \/ /\ d.names = dir.names
                                 /\ dir.exists => d.exists

FilesKept ==
    \A n \in Names : dir.names[n] # None =>
        /\ base'[dir.names[n]] = base[dir.names[n]]
        /\ content'[dir.names[n]] = content[dir.names[n]]

\* An operation on the directory that leaves the names alone.
LEMMA KeptChange ==
    ASSUME TypeOK, NEW d, ChangeDir(d), d.names = dir.names, dir.exists => d.exists
    PROVE  Kept
  BY DEF TypeOK, ChangeDir, Kept

\* A sync of the directory loses no name: it only leaves fewer survivors.
LEMMA KeptSync ==
    ASSUME TypeOK, SyncDirectory
    PROVE  Kept
  BY DEF TypeOK, SyncDirectory, Kept

\* While names and published files are kept, the shape of the history is too.
LEMMA KeptDir ==
    ASSUME TypeOK, Prefix, Based, Complete, Distinct, Kept, FilesKept
    PROVE  Prefix' /\ Based' /\ Complete' /\ Distinct'
<1>1. Prefix'
  BY DEF TypeOK, Prefix, Kept, Contiguous
<1>2. Based'
  BY StoreAssumption DEF Based, Kept, FilesKept, FileAt, Names, Revisions
<1>3. Complete'
  BY DEF Complete, Kept, FilesKept
<1>4. Distinct'
  BY DEF Distinct, LinksConsistent, Kept
<1> QED
  BY <1>1, <1>2, <1>3, <1>4

\* ... and so is everything acknowledged.
LEMMA KeptAcked ==
    ASSUME TypeOK, AckedDurable, Kept, UNCHANGED acked
    PROVE  AckedDurable'
  BY DEF TypeOK, AckedDurable, Kept

\* A process between its sync and its last check finds its file in every
\* directory that may survive, and goes on finding it.
LEMMA KeptPublished ==
    ASSUME TypeOK, Published, Kept,
           NEW w \in Writers, pc[w] \in {"unlink", "sync2", "verify"},
           target'[w] = target[w], pending'[w] = pending[w]
    PROVE  \A d \in survivable' : d.exists /\ d.names[target'[w]] = pending'[w]
  BY DEF TypeOK, Published, Kept

\* Store::create, the mkdir.
LEMMA CreateDirStep ==
    ASSUME IInv, NEW w \in Writers, CreateDir(w), TypeOK'
    PROVE  IInv'
<1> USE DEF IInv
<1>1. Kept
  BY KeptChange, MadeDir DEF TypeOK, CreateDir
<1>2. FilesKept
  BY DEF CreateDir, FilesKept
<1>3. Prefix' /\ Based' /\ Complete' /\ Distinct'
  BY <1>1, <1>2, KeptDir
<1>4. Views'
  BY <1>1 DEF CreateDir, Goto, Kept, TypeOK, Views, Busy, Before, After, Output
<1>5. Pendings'
  BY <1>1 DEF CreateDir, Goto, Kept, TypeOK, Pendings, Busy, Before, After, Output
<1>6. Published'
  <2>1. dir' = Made(dir) /\ survivable' = survivable \cup {dir'}
    BY DEF CreateDir, ChangeDir
  <2>2. dir'.exists
    BY <2>1, MadeDir DEF TypeOK
  <2> QED
    BY <1>1, <2>1, <2>2, KeptPublished DEF CreateDir, Goto, Kept, TypeOK, Published
<1>7. AckedDurable'
  BY <1>1, KeptAcked DEF CreateDir
<1> QED
  BY <1>3, <1>4, <1>5, <1>6, <1>7

\* Store::create, the sync of the parent.
LEMMA SyncParentStep ==
    ASSUME IInv, NEW w \in Writers, SyncParent(w), TypeOK'
    PROVE  IInv'
<1> USE DEF IInv
<1>1. Kept
  BY KeptSync DEF SyncParent
<1>2. FilesKept
  BY DEF SyncParent, FilesKept
<1>3. Prefix' /\ Based' /\ Complete' /\ Distinct'
  BY <1>1, <1>2, KeptDir
<1>4. Views'
  BY <1>1 DEF SyncParent, Goto, SyncDirectory, Kept, TypeOK, Views, Busy, Before, After, Output
<1>5. Pendings'
  BY <1>1 DEF SyncParent, Goto, SyncDirectory, Kept, TypeOK, Pendings, Busy, Before, After, Output
<1>6. Published'
  BY <1>1, KeptPublished DEF SyncParent, Goto, SyncDirectory, Kept, TypeOK, Published, Busy, Before, After, Output
<1>7. AckedDurable'
  BY <1>1, KeptAcked DEF SyncParent
<1> QED
  BY <1>3, <1>4, <1>5, <1>6, <1>7

\* Store::open loads a revision that is there.
LEMMA OpenStep ==
    ASSUME IInv, NEW w \in Writers, Open(w), TypeOK'
    PROVE  IInv'
<1> USE DEF IInv
<1>1. Kept
  BY DEF Open, Kept
<1>2. FilesKept
  BY DEF Open, FilesKept
<1>3. Prefix' /\ Based' /\ Complete' /\ Distinct'
  BY <1>1, <1>2, KeptDir
<1>4. Views'
  <2>1. PICK n \in Names : /\ Contiguous(dir, n)
                           /\ loaded' = [loaded EXCEPT ![w] = [rev |-> n, file |-> FileAt(dir, n)]]
    BY DEF Open, Latest
  <2>2. n > 0 => dir.names[n] # None
    BY <2>1, StoreAssumption DEF Contiguous, Names, Revisions
  <2> QED
    BY <2>1, <2>2, StoreAssumption
    DEF Open, Goto, FileAt, TypeOK, Views, Busy, Before, After, Names
<1>5. Pendings'
  BY <1>1 DEF Open, Goto, FileAt, Kept, TypeOK, Pendings, Busy, Before, After, Output
<1>6. Published'
  <2>1. dir.exists
    BY DEF Open, Latest
  <2> QED
    BY <2>1 DEF Open, Goto, TypeOK, Published
<1>7. AckedDurable'
  BY <1>1, KeptAcked DEF Open
<1> QED
  BY <1>3, <1>4, <1>5, <1>6, <1>7

\* A Store is dropped.
LEMMA CloseStep ==
    ASSUME IInv, NEW w \in Writers, Close(w), TypeOK'
    PROVE  IInv'
<1> USE DEF IInv
<1>1. Kept
  BY DEF Close, Kept
<1>2. FilesKept
  BY DEF Close, FilesKept
<1>3. Prefix' /\ Based' /\ Complete' /\ Distinct'
  BY <1>1, <1>2, KeptDir
<1>4. Views'
  BY <1>1 DEF Close, Goto, NotLoaded, Kept, TypeOK, Views, Busy, Before, After, Output
<1>5. Pendings'
  BY <1>1 DEF Close, Goto, NotLoaded, Kept, TypeOK, Pendings, Busy, Before, After, Output
<1>6. Published'
  BY <1>1, KeptPublished DEF Close, Goto, NotLoaded, Kept, TypeOK, Published, Busy, Before, After, Output
<1>7. AckedDurable'
  BY <1>1, KeptAcked DEF Close
<1> QED
  BY <1>3, <1>4, <1>5, <1>6, <1>7

\* save picks the revision after the loaded one.
LEMMA SaveBeginStep ==
    ASSUME IInv, NEW w \in Writers, SaveBegin(w), TypeOK'
    PROVE  IInv'
<1> USE DEF IInv
<1>1. Kept
  BY DEF SaveBegin, Kept
<1>2. FilesKept
  BY DEF SaveBegin, FilesKept
<1>3. Prefix' /\ Based' /\ Complete' /\ Distinct'
  BY <1>1, <1>2, KeptDir
<1>4. Views'
  BY <1>1 DEF SaveBegin, Goto, Kept, TypeOK, Views, Busy, Before, After, Output
<1>5. Pendings'
  BY <1>1 DEF SaveBegin, Goto, Kept, TypeOK, Pendings, Busy, Before, After, Output
<1>6. Published'
  BY <1>1, KeptPublished DEF SaveBegin, Goto, Kept, TypeOK, Published, Busy, Before, After, Output
<1>7. AckedDurable'
  BY <1>1, KeptAcked DEF SaveBegin
<1> QED
  BY <1>3, <1>4, <1>5, <1>6, <1>7

\* write_new picks its output.
LEMMA WriteNewBeginStep ==
    ASSUME IInv, NEW w \in Writers, WriteNewBegin(w), TypeOK'
    PROVE  IInv'
<1> USE DEF IInv
<1>1. Kept
  BY DEF WriteNewBegin, Kept
<1>2. FilesKept
  BY DEF WriteNewBegin, FilesKept
<1>3. Prefix' /\ Based' /\ Complete' /\ Distinct'
  BY <1>1, <1>2, KeptDir
<1>4. Views'
  BY <1>1 DEF WriteNewBegin, Goto, Kept, TypeOK, Views, Busy, Before, After, Output
<1>5. Pendings'
  BY <1>1 DEF WriteNewBegin, Goto, Kept, TypeOK, Pendings, Busy, Before, After, Output
<1>6. Published'
  BY <1>1, KeptPublished DEF WriteNewBegin, Goto, Kept, TypeOK, Published, Busy, Before, After, Output
<1>7. AckedDurable'
  BY <1>1, KeptAcked DEF WriteNewBegin
<1> QED
  BY <1>3, <1>4, <1>5, <1>6, <1>7

\* PendingFile::create makes a file that no name and no process holds yet.
LEMMA CreateTempStep ==
    ASSUME IInv, NEW w \in Writers, CreateTemp(w), TypeOK'
    PROVE  IInv'
<1> USE DEF IInv
<1>1. Kept
  BY KeptChange, TempDir DEF TypeOK, CreateTemp
<1>2. FilesKept
  BY DEF CreateTemp, TypeOK, Complete, FilesKept
<1>3. Prefix' /\ Based' /\ Complete' /\ Distinct'
  BY <1>1, <1>2, KeptDir
<1>4. Views'
  BY <1>1 DEF CreateTemp, Goto, Kept, TypeOK, Views, Busy, Before, After, Output
<1>5. Pendings'
  <2>1. PICK f \in Files : /\ content[f] = "absent"
                           /\ content' = [content EXCEPT ![f] = "partial"]
                           /\ base' = [base EXCEPT ![f] = loaded[w].file]
                           /\ pending' = [pending EXCEPT ![w] = f]
    BY DEF CreateTemp
  <2>2. \A n \in Names : dir'.names[n] # f
    BY <1>1, <2>1, StoreAssumption DEF Complete, Kept
  <2>3. \A v \in Writers : pending[v] # f
    BY <2>1, StoreAssumption DEF Pendings
  <2>4. \A v \in Writers \ {w} : UNCHANGED <<pc[v], pending[v], loaded[v], target[v]>>
    BY <2>1 DEF CreateTemp, Goto, TypeOK
  <2>5. pc'[w] = "write" /\ pending'[w] = f /\ UNCHANGED loaded
    BY <2>1 DEF CreateTemp, Goto, TypeOK
  <2>6. content'[f] = "partial" /\ base'[f] = loaded[w].file
    BY <2>1 DEF TypeOK
  <2>7. \A g \in Files \ {f} : UNCHANGED <<content[g], base[g]>>
    BY <2>1 DEF TypeOK
  <2> QED
    BY <1>1, <2>2, <2>3, <2>4, <2>5, <2>6, <2>7, StoreAssumption
    DEF Pendings, Before, After, Kept, TypeOK
<1>6. Published'
  BY <1>1, KeptPublished DEF CreateTemp, Goto, Kept, TypeOK, Published, Busy, Before, After, Output
<1>7. AckedDurable'
  BY <1>1, KeptAcked DEF CreateTemp
<1> QED
  BY <1>3, <1>4, <1>5, <1>6, <1>7

\* It completes the file before anybody can publish it.
LEMMA WriteSyncStep ==
    ASSUME IInv, NEW w \in Writers, WriteSync(w), TypeOK'
    PROVE  IInv'
<1> USE DEF IInv
<1>1. Kept
  BY DEF WriteSync, Kept
<1>2. FilesKept
  BY DEF WriteSync, Goto, TypeOK, Pendings, Before, FilesKept
<1>3. Prefix' /\ Based' /\ Complete' /\ Distinct'
  BY <1>1, <1>2, KeptDir
<1>4. Views'
  BY <1>1 DEF WriteSync, Goto, Kept, TypeOK, Views, Busy, Before, After, Output
<1>5. Pendings'
  BY <1>1 DEF WriteSync, Goto, Kept, TypeOK, Pendings, Busy, Before, After, Output
<1>6. Published'
  BY <1>1, KeptPublished DEF WriteSync, Goto, Kept, TypeOK, Published, Busy, Before, After, Output
<1>7. AckedDurable'
  BY <1>1, KeptAcked DEF WriteSync
<1> QED
  BY <1>3, <1>4, <1>5, <1>6, <1>7

\* save's second comparison changes nothing.
LEMMA RecheckStep ==
    ASSUME IInv, NEW w \in Writers, Recheck(w), TypeOK'
    PROVE  IInv'
<1> USE DEF IInv
<1>1. Kept
  BY DEF Recheck, Kept
<1>2. FilesKept
  BY DEF Recheck, FilesKept
<1>3. Prefix' /\ Based' /\ Complete' /\ Distinct'
  BY <1>1, <1>2, KeptDir
<1>4. Views'
  BY <1>1 DEF Recheck, Goto, Kept, TypeOK, Views, Busy, Before, After, Output
<1>5. Pendings'
  BY <1>1 DEF Recheck, Goto, Kept, TypeOK, Pendings, Busy, Before, After, Output
<1>6. Published'
  BY <1>1, KeptPublished DEF Recheck, Goto, Kept, TypeOK, Published, Busy, Before, After, Output
<1>7. AckedDurable'
  BY <1>1, KeptAcked DEF Recheck
<1> QED
  BY <1>3, <1>4, <1>5, <1>6, <1>7

\* The one step that publishes.  The name was free, the predecessor is still
\* the one the file was written from, so the history grows at its end.
LEMMA LinkStep ==
    ASSUME IInv, NEW w \in Writers, Link(w), TypeOK'
    PROVE  IInv'
<1> USE DEF IInv
<1> DEFINE t == target[w]
           f == pending[w]
<1>1. /\ t \in Names
      /\ f \in Files
      /\ dir.names \in [Names -> Files \cup {None}]
      /\ dir.names[t] = None
      /\ \A n \in Names : dir.names[n] # f
      /\ content[f] = "synced"
      /\ base[f] = loaded[w].file
      /\ dir.exists
  BY DEF Link, Goto, TypeOK, Directories, Pendings, Before, Published
<1>2. /\ dir'.names = [dir.names EXCEPT ![t] = f]
      /\ dir'.exists
      /\ survivable' = survivable \cup {dir'}
  <2>1. dir' = WithName(dir, t, f) /\ survivable' = survivable \cup {dir'}
    BY DEF Link, ChangeDir
  <2>2. /\ WithName(dir, t, f).names = [dir.names EXCEPT ![t] = f]
        /\ WithName(dir, t, f).exists = dir.exists
    <3>1. dir \in Directories /\ t \in Names /\ f \in Files \cup {None}
      BY <1>1 DEF TypeOK
    <3> HIDE DEF t, f
    <3> QED
      BY <3>1, NameDir
  <2> QED
    BY <1>1, <2>1, <2>2
<1>3. \A n \in Names : dir'.names[n] = IF n = t THEN f ELSE dir.names[n]
  BY <1>1, <1>2
<1>4. t # Output => /\ t = loaded[w].rev + 1
                    /\ FileAt(dir, loaded[w].rev) = loaded[w].file
                    /\ Contiguous(dir, loaded[w].rev)
  <2>1. PICK n \in Names : Contiguous(dir, n)
    BY DEF Prefix, TypeOK
  <2>2. t # Output => t = loaded[w].rev + 1
    BY DEF Link, Goto, Views, Busy, Before
  <2>3. loaded[w].rev \in Names
    BY DEF TypeOK
  <2>4. FileAt(dir, loaded[w].rev) = loaded[w].file
    BY <2>3, StoreAssumption DEF Views, FileAt, Names
  <2>5. t # Output => n = loaded[w].rev
    <3>1. ASSUME t # Output, loaded[w].rev > 0 PROVE dir.names[loaded[w].rev] # None
      BY <3>1 DEF Views
    <3>2. ASSUME t # Output PROVE loaded[w].rev <= n
      <4>1. loaded[w].rev = 0 \/ loaded[w].rev \in Revisions
        BY <2>3, StoreAssumption DEF Names, Revisions
      <4> QED
        BY <2>1, <3>1, <3>2, <4>1, StoreAssumption DEF Contiguous, Names, Revisions
    <3>3. ASSUME t # Output PROVE ~(t <= n)
      <4>1. t \in Revisions
        BY <1>1, <3>3, StoreAssumption DEF Names, Revisions, Output
      <4> QED
        BY <1>1, <2>1, <4>1 DEF Contiguous
    <3> HIDE DEF t, f
    <3> QED
      BY <2>2, <2>3, <3>2, <3>3, StoreAssumption DEF Names
  <2> QED
    BY <2>1, <2>2, <2>4, <2>5
<1>5. Prefix'
  <2>1. \A d \in survivable' : \A n \in Names : d.names[n] # None => d.names[n] = dir'.names[n]
    BY <1>1, <1>2, <1>3 DEF Prefix
  <2>2. \E n \in Names : Contiguous(dir', n)
    <3>1. CASE t = Output
      <4>1. PICK n \in Names : Contiguous(dir, n)
        BY DEF Prefix, TypeOK
      <4>2. \A m \in Revisions : m \in Names /\ m # t
        BY <3>1, StoreAssumption DEF Output, Names, Revisions
      <4>3. \A m \in Revisions : dir'.names[m] = dir.names[m]
        BY <1>3, <4>2
      <4> HIDE DEF t, f
      <4> QED
        BY <4>1, <4>3 DEF Contiguous
    <3>2. CASE t # Output
      <4>1. Contiguous(dir', t)
        <5>1. loaded[w].rev \in Names /\ f # None
          BY <1>1, StoreAssumption DEF TypeOK
        <5>2. \A m \in Revisions : dir.names[m] # None <=> m <= loaded[w].rev
          BY <1>4, <3>2 DEF Contiguous
        <5>3. t = loaded[w].rev + 1
          BY <1>4, <3>2
        <5>4. ASSUME NEW m \in Revisions PROVE dir'.names[m] # None <=> m <= t
          <6>1. m \in Names /\ (m <= t <=> m = t \/ m <= loaded[w].rev)
            BY <5>1, <5>3, StoreAssumption DEF Names, Revisions
          <6> QED
            BY <1>3, <5>1, <5>2, <6>1
        <5> QED
          BY <5>4 DEF Contiguous
      <4> QED
        BY <1>1, <4>1
    <3> QED
      BY <3>1, <3>2
  <2> QED
    BY <1>2, <2>1, <2>2 DEF Prefix
<1>6. Based'
  <2> SUFFICES ASSUME NEW n \in Revisions, dir'.names[n] # None
               PROVE  base[dir'.names[n]] = FileAt(dir', n - 1)
    BY DEF Based, Link
  <2>1. CASE n = t
    BY <1>1, <1>3, <1>4, <2>1, StoreAssumption
    DEF FileAt, Names, Revisions, Output, TypeOK
  <2>2. CASE n # t
    <3>1. n \in Names /\ dir'.names[n] = dir.names[n] /\ dir.names[n] # None
      BY <1>3, <2>2, StoreAssumption DEF Names, Revisions
    <3>2. base[dir.names[n]] = FileAt(dir, n - 1)
      BY <3>1 DEF Based
    <3>3. n - 1 # 0 => n - 1 \in Names /\ dir.names[n - 1] # None
      <4>1. PICK m \in Names : Contiguous(dir, m)
        BY DEF Prefix, TypeOK
      <4> QED
        BY <3>1, <4>1, StoreAssumption DEF Contiguous, Names, Revisions
    <3> QED
      BY <1>1, <1>3, <3>1, <3>2, <3>3 DEF FileAt
  <2> QED
    BY <2>1, <2>2
<1>7. Complete'
  BY <1>1, <1>3 DEF Complete, Link
<1>8. Distinct'
  BY <1>1, <1>3 DEF Distinct, LinksConsistent
<1>9. Views'
  <2>1. UNCHANGED <<loaded, target>> /\ \A v \in Writers : pc'[v] \in Busy => pc[v] \in Busy
    BY DEF Link, Goto, TypeOK, Busy, Before
  <2>2. ASSUME NEW v \in Writers, loaded[v].rev > 0
        PROVE  dir'.names[loaded[v].rev] = dir.names[loaded[v].rev]
    <3>1. loaded[v].rev \in Names /\ loaded[v].rev # t
      BY <1>1, <2>2 DEF TypeOK, Views
    <3> QED
      BY <1>3, <3>1
  <2> HIDE DEF t, f
  <2> QED
    BY <2>1, <2>2 DEF Views
<1>10. Pendings'
  <2>1. \A v \in Writers \ {w} : pending[v] # f
    BY <1>1, StoreAssumption DEF Pendings
  <2>2. \A v \in Writers : pc'[v] = IF v = w THEN "sync1" ELSE pc[v]
    BY DEF Link, Goto, TypeOK
  <2>3. UNCHANGED <<content, base, loaded, pending, target>>
    BY DEF Link
  <2>4. pc[w] = "link"
    BY DEF Link, Goto
  <2>5. \A v \in Writers : target[v] \in Names
    BY DEF TypeOK
  <2>6. \A v \in Writers : pc[v] \in After => dir'.names[target[v]] = pending[v]
    BY <1>1, <1>3, <2>5, StoreAssumption DEF Pendings
  <2> QED
    BY <1>1, <1>3, <2>1, <2>2, <2>3, <2>4, <2>6 DEF Pendings, Before, After
<1>11. Published'
  <2>1. \A v \in Writers : pc[v] \in {"unlink", "sync2", "verify"} =>
            target[v] \in Names /\ dir'.names[target[v]] = pending[v]
    BY <1>1, <1>3, StoreAssumption DEF Pendings, After, TypeOK
  <2>2. \A v \in Writers : pc'[v] \in {"unlink", "sync2", "verify"} =>
            pc[v] \in {"unlink", "sync2", "verify"}
    BY DEF Link, Goto, TypeOK
  <2>3. UNCHANGED <<target, pending, acked>>
    BY DEF Link
  <2>4. \A v \in Writers : pc'[v] \in {"unlink", "sync2", "verify"} =>
            \A d \in survivable' : d.exists /\ d.names[target[v]] = pending[v]
    BY <1>2, <2>1, <2>2 DEF Published
  <2> QED
    BY <1>2, <2>3, <2>4 DEF Published
<1>12. AckedDurable'
  <2>1. \A a \in acked : a.name \in Names /\ dir.names[a.name] = a.file
    BY DEF AckedDurable, TypeOK
  <2>2. \A a \in acked : a.name # t
    BY <1>1, <2>1 DEF Published
  <2>3. \A a \in acked : dir'.names[a.name] = a.file
    BY <1>3, <2>1, <2>2
  <2>4. UNCHANGED acked
    BY DEF Link
  <2> QED
    BY <1>2, <2>3, <2>4 DEF AckedDurable
<1> QED
  BY <1>5, <1>6, <1>7, <1>8, <1>9, <1>10, <1>11, <1>12

\* From this sync on the name survives.
LEMMA SyncPublishedStep ==
    ASSUME IInv, NEW w \in Writers, SyncPublished(w), TypeOK'
    PROVE  IInv'
<1> USE DEF IInv
<1>1. Kept
  BY KeptSync DEF SyncPublished
<1>2. FilesKept
  BY DEF SyncPublished, FilesKept
<1>3. Prefix' /\ Based' /\ Complete' /\ Distinct'
  BY <1>1, <1>2, KeptDir
<1>4. Views'
  BY <1>1 DEF SyncPublished, Goto, SyncDirectory, Kept, TypeOK, Views, Busy, Before, After, Output
<1>5. Pendings'
  BY <1>1 DEF SyncPublished, Goto, SyncDirectory, Kept, TypeOK, Pendings, Busy, Before, After, Output
<1>6. Published'
  <2>1. dir.exists /\ dir.names[target[w]] = pending[w]
    BY DEF SyncPublished, Goto, Pendings, Published, After
  <2> QED
    BY <1>1, <2>1, KeptPublished
    DEF SyncPublished, Goto, SyncDirectory, Kept, TypeOK, Published
<1>7. AckedDurable'
  BY <1>1, KeptAcked DEF SyncPublished
<1> QED
  BY <1>3, <1>4, <1>5, <1>6, <1>7

\* publish removes the private name.
LEMMA UnlinkStep ==
    ASSUME IInv, NEW w \in Writers, Unlink(w), TypeOK'
    PROVE  IInv'
<1> USE DEF IInv
<1>1. Kept
  BY KeptChange, UntempDir DEF TypeOK, Unlink
<1>2. FilesKept
  BY DEF Unlink, FilesKept
<1>3. Prefix' /\ Based' /\ Complete' /\ Distinct'
  BY <1>1, <1>2, KeptDir
<1>4. Views'
  BY <1>1 DEF Unlink, Goto, Kept, TypeOK, Views, Busy, Before, After, Output
<1>5. Pendings'
  BY <1>1 DEF Unlink, Goto, Kept, TypeOK, Pendings, Busy, Before, After, Output
<1>6. Published'
  BY <1>1, KeptPublished DEF Unlink, Goto, Kept, TypeOK, Published, Busy, Before, After, Output
<1>7. AckedDurable'
  BY <1>1, KeptAcked DEF Unlink
<1> QED
  BY <1>3, <1>4, <1>5, <1>6, <1>7

\* publish syncs the removal.
LEMMA SyncUnlinkedStep ==
    ASSUME IInv, NEW w \in Writers, SyncUnlinked(w), TypeOK'
    PROVE  IInv'
<1> USE DEF IInv
<1>1. Kept
  BY KeptSync DEF SyncUnlinked
<1>2. FilesKept
  BY DEF SyncUnlinked, FilesKept
<1>3. Prefix' /\ Based' /\ Complete' /\ Distinct'
  BY <1>1, <1>2, KeptDir
<1>4. Views'
  BY <1>1 DEF SyncUnlinked, Goto, SyncDirectory, Kept, TypeOK, Views, Busy, Before, After, Output
<1>5. Pendings'
  BY <1>1 DEF SyncUnlinked, Goto, SyncDirectory, Kept, TypeOK, Pendings, Busy, Before, After, Output
<1>6. Published'
  BY <1>1, KeptPublished DEF SyncUnlinked, Goto, SyncDirectory, Kept, TypeOK, Published, Busy, Before, After, Output
<1>7. AckedDurable'
  BY <1>1, KeptAcked DEF SyncUnlinked
<1> QED
  BY <1>3, <1>4, <1>5, <1>6, <1>7

\* Only a name that survives is acknowledged.
LEMMA VerifyStep ==
    ASSUME IInv, NEW w \in Writers, Verify(w), TypeOK'
    PROVE  IInv'
<1> USE DEF IInv
<1>1. Kept
  BY DEF Verify, Kept
<1>2. FilesKept
  BY DEF Verify, FilesKept
<1>3. Prefix' /\ Based' /\ Complete' /\ Distinct'
  BY <1>1, <1>2, KeptDir
<1>4. Views'
  <2>1. pending[w] # None
    BY DEF Verify, Goto, Pendings, After
  <2> QED
    BY <1>1, <2>1, StoreAssumption
    DEF Verify, Goto, Done, Kept, TypeOK, Views, Busy, Before, After, Output, Names
<1>5. Pendings'
  BY <1>1 DEF Verify, Goto, Done, Kept, TypeOK, Pendings, Busy, Before, After, Output
<1>6. Published'
  <2>1. pending[w] # None
    BY DEF Verify, Goto, Pendings, After
  <2> QED
    BY <1>1, <2>1, KeptPublished DEF Verify, Goto, Done, Kept, TypeOK, Published, Output
<1>7. AckedDurable'
  BY <1>1 DEF Verify, Goto, TypeOK, Published, Kept, AckedDurable
<1> QED
  BY <1>3, <1>4, <1>5, <1>6, <1>7

\* An error path keeps what is published.
LEMMA FailStep ==
    ASSUME IInv, NEW w \in Writers, Fail(w), TypeOK'
    PROVE  IInv'
<1> USE DEF IInv
<1>1. Kept
  BY DEF Fail, Kept
<1>2. FilesKept
  BY DEF Fail, FilesKept
<1>3. Prefix' /\ Based' /\ Complete' /\ Distinct'
  BY <1>1, <1>2, KeptDir
<1>4. Views'
  BY <1>1 DEF Fail, Goto, Kept, TypeOK, Views, Busy, Before, After, Output
<1>5. Pendings'
  BY <1>1 DEF Fail, Goto, Kept, TypeOK, Pendings, Busy, Before, After, Output
<1>6. Published'
  BY <1>1, KeptPublished DEF Fail, Goto, Kept, TypeOK, Published, Busy, Before, After, Output
<1>7. AckedDurable'
  BY <1>1, KeptAcked DEF Fail
<1> QED
  BY <1>3, <1>4, <1>5, <1>6, <1>7

\* PendingFile::drop touches the private name only.
LEMMA DropStep ==
    ASSUME IInv, NEW w \in Writers, Drop(w), TypeOK'
    PROVE  IInv'
<1> USE DEF IInv
<1>1. Kept
  <2>1. CASE ChangeDir(WithoutTemp(dir, pending[w]))
    BY <2>1, KeptChange, UntempDir DEF TypeOK
  <2>2. CASE UNCHANGED <<dir, survivable>>
    BY <2>2 DEF Kept
  <2> QED
    BY <2>1, <2>2 DEF Drop
<1>2. FilesKept
  BY DEF Drop, FilesKept
<1>3. Prefix' /\ Based' /\ Complete' /\ Distinct'
  BY <1>1, <1>2, KeptDir
<1>4. Views'
  BY <1>1 DEF Drop, Goto, Done, Kept, TypeOK, Views, Busy, Before, After, Output
<1>5. Pendings'
  BY <1>1 DEF Drop, Goto, Done, Kept, TypeOK, Pendings, Busy, Before, After, Output
<1>6. Published'
  BY <1>1, KeptPublished DEF Drop, Goto, Done, Kept, TypeOK, Published, Busy, Before, After, Output
<1>7. AckedDurable'
  BY <1>1, KeptAcked DEF Drop
<1> QED
  BY <1>3, <1>4, <1>5, <1>6, <1>7

\* A process's death changes nothing in the directory.
LEMMA CrashStep ==
    ASSUME IInv, NEW w \in Writers, Crash(w), TypeOK'
    PROVE  IInv'
<1> USE DEF IInv
<1>1. Kept
  BY DEF Crash, Kept
<1>2. FilesKept
  BY DEF Crash, FilesKept
<1>3. Prefix' /\ Based' /\ Complete' /\ Distinct'
  BY <1>1, <1>2, KeptDir
<1>4. Views'
  BY <1>1 DEF Crash, NotLoaded, Kept, TypeOK, Views, Busy, Before, After, Output
<1>5. Pendings'
  BY <1>1 DEF Crash, NotLoaded, Kept, TypeOK, Pendings, Busy, Before, After, Output
<1>6. Published'
  BY <1>1, KeptPublished DEF Crash, NotLoaded, Kept, TypeOK, Published, Busy, Before, After, Output
<1>7. AckedDurable'
  BY <1>1, KeptAcked DEF Crash
<1> QED
  BY <1>3, <1>4, <1>5, <1>6, <1>7

\* The directory a power loss leaves shows a prefix of the one in use.
LEMMA PowerLossStep ==
    ASSUME IInv, PowerLoss, TypeOK'
    PROVE  IInv'
<1> USE DEF IInv
<1>1. /\ dir' \in survivable
      /\ survivable' = {dir'}
      /\ UNCHANGED <<content, base, acked>>
  BY DEF PowerLoss
<1>2. \A n \in Names : dir'.names[n] # None => dir'.names[n] = dir.names[n]
  BY <1>1 DEF Prefix
<1>3. Prefix'
  BY <1>1 DEF Prefix, Contiguous
<1>4. Based'
  <2> SUFFICES ASSUME NEW n \in Revisions, dir'.names[n] # None
               PROVE  base[dir'.names[n]] = FileAt(dir', n - 1)
    BY <1>1 DEF Based
  <2>1. n \in Names /\ dir.names[n] = dir'.names[n]
    BY <1>2, StoreAssumption DEF Names, Revisions
  <2>2. n - 1 # 0 => n - 1 \in Names /\ dir'.names[n - 1] # None
    <3>1. PICK m \in Names : Contiguous(dir', m)
      BY <1>1 DEF Prefix
    <3> QED
      BY <2>1, <3>1, StoreAssumption DEF Contiguous, Names, Revisions
  <2> QED
    BY <1>2, <2>1, <2>2 DEF Based, FileAt
<1>5. Complete'
  BY <1>1, <1>2 DEF Complete
<1>6. Distinct'
  BY <1>2 DEF Distinct, LinksConsistent
<1>7. Views'
  BY DEF PowerLoss, NotLoaded, Output, Views, Busy, Before, After
<1>8. Pendings'
  BY DEF PowerLoss, Pendings, Before, After
<1>9. Published'
  BY <1>1 DEF PowerLoss, Published
<1>10. AckedDurable'
  BY <1>1 DEF AckedDurable
<1> QED
  BY <1>3, <1>4, <1>5, <1>6, <1>7, <1>8, <1>9, <1>10

-----------------------------------------------------------------------------
\* IInv is inductive.
LEMMA Inductive == IInv /\ [Next]_vars => IInv'
<1> SUFFICES ASSUME IInv, [Next]_vars PROVE IInv'
  OBVIOUS
<1>1. TypeOK'
  BY TypeStep DEF IInv
<1>2. ASSUME NEW w \in Writers, CreateDir(w) PROVE IInv'
  BY <1>1, <1>2, CreateDirStep
<1>3. ASSUME NEW w \in Writers, SyncParent(w) PROVE IInv'
  BY <1>1, <1>3, SyncParentStep
<1>4. ASSUME NEW w \in Writers, Open(w) PROVE IInv'
  BY <1>1, <1>4, OpenStep
<1>5. ASSUME NEW w \in Writers, Close(w) PROVE IInv'
  BY <1>1, <1>5, CloseStep
<1>6. ASSUME NEW w \in Writers, SaveBegin(w) PROVE IInv'
  BY <1>1, <1>6, SaveBeginStep
<1>7. ASSUME NEW w \in Writers, WriteNewBegin(w) PROVE IInv'
  BY <1>1, <1>7, WriteNewBeginStep
<1>8. ASSUME NEW w \in Writers, CreateTemp(w) PROVE IInv'
  BY <1>1, <1>8, CreateTempStep
<1>9. ASSUME NEW w \in Writers, WriteSync(w) PROVE IInv'
  BY <1>1, <1>9, WriteSyncStep
<1>10. ASSUME NEW w \in Writers, Recheck(w) PROVE IInv'
  BY <1>1, <1>10, RecheckStep
<1>11. ASSUME NEW w \in Writers, Link(w) PROVE IInv'
  BY <1>1, <1>11, LinkStep
<1>12. ASSUME NEW w \in Writers, SyncPublished(w) PROVE IInv'
  BY <1>1, <1>12, SyncPublishedStep
<1>13. ASSUME NEW w \in Writers, Unlink(w) PROVE IInv'
  BY <1>1, <1>13, UnlinkStep
<1>14. ASSUME NEW w \in Writers, SyncUnlinked(w) PROVE IInv'
  BY <1>1, <1>14, SyncUnlinkedStep
<1>15. ASSUME NEW w \in Writers, Verify(w) PROVE IInv'
  BY <1>1, <1>15, VerifyStep
<1>16. ASSUME NEW w \in Writers, Fail(w) PROVE IInv'
  BY <1>1, <1>16, FailStep
<1>17. ASSUME NEW w \in Writers, Drop(w) PROVE IInv'
  BY <1>1, <1>17, DropStep
<1>18. ASSUME NEW w \in Writers, Crash(w) PROVE IInv'
  BY <1>1, <1>18, CrashStep
<1>19. CASE PowerLoss
  BY <1>1, <1>19, PowerLossStep
<1>20. CASE UNCHANGED vars
  <2>1. UNCHANGED <<dir, survivable, content, base, pc, loaded, pending, target, acked>>
    BY <1>20 DEF vars
  <2> QED
    BY <2>1 DEF IInv, TypeOK, Prefix, Based, Complete, Distinct, LinksConsistent,
             Views, Pendings, Published, AckedDurable, FileAt, Contiguous
<1> QED
  BY <1>2, <1>3, <1>4, <1>5, <1>6, <1>7, <1>8, <1>9, <1>10, <1>11, <1>12, <1>13, <1>14, <1>15, <1>16, <1>17, <1>18, <1>19, <1>20 DEF Next

\* It holds in an absent directory.
LEMMA InitIInv == Init => IInv
<1> SUFFICES ASSUME Init PROVE IInv
  OBVIOUS
<1> USE StoreAssumption DEF Init, Empty, NotLoaded
<1>1. TypeOK
  BY DEF TypeOK, Directories, Names, Output, PCs
<1>2. Prefix
  <2>1. 0 \in Names /\ Contiguous(Empty, 0)
    BY DEF Contiguous, Names, Revisions
  <2> QED
    BY <2>1 DEF Prefix
<1>3. Based /\ Complete /\ Distinct
  BY DEF Based, Complete, Distinct, LinksConsistent, Names, Revisions
<1>4. Views /\ Pendings /\ Published /\ AckedDurable
  BY DEF Views, Pendings, Published, AckedDurable, Busy, Before, After
<1> QED
  BY <1>1, <1>2, <1>3, <1>4 DEF IInv

\* So it holds for ever.
LEMMA Invariant == Spec => []IInv
  BY InitIInv, Inductive, PTL DEF Spec

\* For any number of writers and any history of crashes and power losses,
\* what Store::save and write_new have acknowledged is never lost or replaced.
THEOREM AcknowledgedIsDurable == Spec => []AckedDurable
<1>1. IInv => AckedDurable
  BY DEF IInv
<1> QED
  BY <1>1, Invariant, PTL

\* Whatever system call of whichever writer was the last before a crash or a
\* power loss, latest_bounded accepts the directory that is left.
THEOREM AlwaysRecoverable == Spec => []Recoverable
<1>1. IInv => Recoverable
  <2> SUFFICES ASSUME IInv, NEW d \in survivable
               PROVE  /\ \E n \in Names : Contiguous(d, n)
                      /\ LinksConsistent(d)
                      /\ \A n \in Names : d.names[n] # None => content[d.names[n]] = "synced"
    BY DEF Recoverable
  <2>1. \A n \in Names : d.names[n] # None => d.names[n] = dir.names[n]
    BY DEF IInv, Prefix
  <2>2. \E n \in Names : Contiguous(d, n)
    BY DEF IInv, Prefix
  <2>3. LinksConsistent(d)
    BY <2>1 DEF IInv, Distinct, LinksConsistent
  <2>4. \A n \in Names : d.names[n] # None => content[d.names[n]] = "synced"
    BY <2>1 DEF IInv, Complete
  <2> QED
    BY <2>2, <2>3, <2>4
<1> QED
  BY <1>1, Invariant, PTL

\* Writers that take no lock still never lose an update: in every directory
\* that may survive, each revision was written from the one before it.
THEOREM UpdatesAreNotLost == Spec => []NoLostUpdate
<1>1. IInv => NoLostUpdate
  <2> SUFFICES ASSUME IInv, NEW d \in survivable, NEW n \in Revisions, d.names[n] # None
               PROVE  base[d.names[n]] = FileAt(d, n - 1)
    BY DEF NoLostUpdate
  <2>1. \A m \in Names : d.names[m] # None => d.names[m] = dir.names[m]
    BY DEF IInv, Prefix
  <2>2. n \in Names /\ dir.names[n] = d.names[n]
    BY <2>1, StoreAssumption DEF Names, Revisions
  <2>3. n - 1 # 0 => n - 1 \in Names /\ d.names[n - 1] # None
    <3>1. PICK m \in Names : Contiguous(d, m)
      BY DEF IInv, Prefix
    <3> QED
      BY <2>2, <3>1, StoreAssumption DEF Contiguous, Names, Revisions
  <2> QED
    BY <2>1, <2>2, <2>3 DEF IInv, Based, FileAt
<1> QED
  BY <1>1, Invariant, PTL
-----------------------------------------------------------------------------
(* Store implements Journal.  The length and the entries of the history    *)
(* are those of a directory, the durable length is the least of those that *)
(* may survive.                                                            *)

Log(d, b) == [i \in 1 .. LastOf(d) |-> [id |-> d.names[i], base |-> b[d.names[i]]]]
Shortest(T) ==
    CHOOSE n \in Names : /\ \E d \in T : LastOf(d) = n
                         /\ \A d \in T : n <= LastOf(d)
Acknowledged(ok, from) ==
    {[id |-> a.file, base |-> from[a.file]] : a \in {b \in ok : b.name # Output}}

\* The abstract variables, in this step and the next.
LEMMA MappingIs ==
    /\ LogOf(dir) = Log(dir, base)
    /\ LogOf(dir)' = Log(dir', base')
    /\ DurableLength = Shortest(survivable)
    /\ DurableLength' = Shortest(survivable')
  BY DEF LogOf, Log, DurableLength, Shortest

\* A contiguous directory has one last revision.
LEMMA LastIs ==
    ASSUME NEW d, NEW n \in Names, Contiguous(d, n)
    PROVE  LastOf(d) = n
<1>1. LastOf(d) \in Names /\ Contiguous(d, LastOf(d))
  BY DEF LastOf
<1> QED
  BY <1>1, StoreAssumption DEF Contiguous, Names, Revisions

LEMMA LastOfContiguous ==
    ASSUME NEW d, \E n \in Names : Contiguous(d, n)
    PROVE  LastOf(d) \in Names /\ Contiguous(d, LastOf(d))
  BY DEF LastOf

\* The history of a directory is a sequence.
LEMMA LogIs ==
    ASSUME NEW d \in Directories, NEW b \in [Files -> Files \cup {None}],
           \E n \in Names : Contiguous(d, n)
    PROVE  /\ Log(d, b) \in Seq([id : Files, base : Files \cup {None}])
           /\ Len(Log(d, b)) = LastOf(d)
           /\ \A i \in 1 .. LastOf(d) :
                Log(d, b)[i] = [id |-> d.names[i], base |-> b[d.names[i]]]
<1> DEFINE n == LastOf(d)
           S == [id : Files, base : Files \cup {None}]
<1>1. n \in Names /\ n \in Nat /\ Contiguous(d, n)
  BY LastOfContiguous, StoreAssumption DEF Names
<1>2. ASSUME NEW i \in 1 .. n PROVE [id |-> d.names[i], base |-> b[d.names[i]]] \in S
  <2>1. i \in Names /\ d.names[i] # None
    BY <1>1, StoreAssumption DEF Contiguous, Names, Revisions
  <2>2. d.names[i] \in Files
    BY <2>1 DEF Directories
  <2> QED
    BY <2>2
<1>3. Log(d, b) \in [1 .. n -> S]
  BY <1>2 DEF Log
<1> HIDE DEF n, S
<1>4. Log(d, b) \in Seq(S) /\ Len(Log(d, b)) = n
  BY <1>1, <1>3
<1> QED
  BY <1>4 DEF n, S, Log

\* There is a shortest survivor.
LEMMA ShortestExists ==
    ASSUME NEW T, T # {}, \A d \in T : LastOf(d) \in Names
    PROVE  /\ Shortest(T) \in Names
           /\ \E d \in T : LastOf(d) = Shortest(T)
           /\ \A d \in T : Shortest(T) <= LastOf(d)
<1> DEFINE L == {LastOf(d) : d \in T}
<1>1. L \subseteq Nat /\ L # {} /\ L \subseteq Names
  BY StoreAssumption DEF Names
<1> DEFINE R == {p \in Nat \X Nat : p[1] < p[2]}
<1>2. IsWellFoundedOn(R, Nat)
  BY NatLessThanWellFounded DEF OpToRel
<1>3. PICK n \in L : \A m \in L : n <= m
  <2> HIDE DEF R, L
  <2>1. PICK n \in L : \A m \in L : <<m, n>> \notin R
    BY <1>1, <1>2, WFMin
  <2>2. ASSUME NEW m \in L PROVE n <= m
    <3>1. m \in Nat /\ n \in Nat /\ ~(m < n)
      BY <1>1, <2>1 DEF R
    <3> QED
      BY <3>1
  <2> QED
    BY <2>2
<1>4. n \in Names /\ (\E d \in T : LastOf(d) = n) /\ (\A d \in T : n <= LastOf(d))
  BY <1>1, <1>3
<1> QED
  BY <1>4 DEF Shortest

LEMMA ShortestIs ==
    ASSUME NEW T, NEW n \in Names, \A d \in T : LastOf(d) \in Names,
           \E d \in T : LastOf(d) = n, \A d \in T : n <= LastOf(d)
    PROVE  Shortest(T) = n
<1>1. /\ Shortest(T) \in Names
      /\ \E d \in T : LastOf(d) = Shortest(T)
      /\ \A d \in T : Shortest(T) <= LastOf(d)
  BY ShortestExists
<1> QED
  BY <1>1, StoreAssumption DEF Names

\* What the invariant says of the lengths.
LEMMA LengthsAre ==
    ASSUME IInv
    PROVE  /\ \A d \in survivable : /\ LastOf(d) \in Names
                                    /\ Contiguous(d, LastOf(d))
                                    /\ LastOf(d) <= LastOf(dir)
           /\ survivable # {}
<1>1. \A d \in survivable : LastOf(d) \in Names /\ Contiguous(d, LastOf(d))
  BY LastOfContiguous DEF IInv, Prefix
<1>2. dir \in survivable
  BY DEF IInv, TypeOK
<1>3. ASSUME NEW d \in survivable PROVE LastOf(d) <= LastOf(dir)
  BY <1>1, <1>2, <1>3, StoreAssumption DEF IInv, Prefix, Contiguous, Names, Revisions
<1> QED
  BY <1>1, <1>2, <1>3
\* The abstract variables stay while names, published files and acknowledgements do.
LEMMA NothingSeen ==
    ASSUME IInv, IInv', Kept, FilesKept, survivable \subseteq survivable', UNCHANGED acked
    PROVE  UNCHANGED <<LogOf(dir), DurableLength, Acknowledged(acked, base)>>
<1>1. /\ dir \in survivable /\ dir \in Directories /\ dir'.names = dir.names
      /\ base \in [Files -> Files \cup {None}] /\ base' \in [Files -> Files \cup {None}]
  BY DEF IInv, TypeOK, Kept
<1>2. LastOf(dir) \in Names /\ Contiguous(dir, LastOf(dir)) /\ LastOf(dir') = LastOf(dir)
  BY <1>1, LengthsAre, LastIs DEF Contiguous
<1>3. Log(dir', base') = Log(dir, base)
  <2>1. \A i \in 1 .. LastOf(dir) : base'[dir.names[i]] = base[dir.names[i]]
    BY <1>2, StoreAssumption DEF Contiguous, FilesKept, Names, Revisions
  <2> QED
    BY <1>1, <1>2, <2>1 DEF Log
<1>4. \A d \in survivable' : LastOf(d) \in Names /\ (d \in survivable \/ LastOf(d) = LastOf(dir))
  <2>1. ASSUME NEW d \in survivable', d.names = dir.names PROVE LastOf(d) = LastOf(dir)
    BY <1>2, <2>1, LastIs DEF Contiguous
  <2> QED
    BY <1>2, <2>1, LengthsAre DEF Kept
<1>5. Shortest(survivable') = Shortest(survivable)
  <2>1. /\ Shortest(survivable) \in Names
        /\ \E d \in survivable : LastOf(d) = Shortest(survivable)
        /\ \A d \in survivable : Shortest(survivable) <= LastOf(d)
    BY LengthsAre, ShortestExists
  <2>2. \E d \in survivable' : LastOf(d) = Shortest(survivable)
    BY <2>1
  <2>3. \A d \in survivable' : Shortest(survivable) <= LastOf(d)
    BY <1>1, <1>4, <2>1
  <2> QED
    BY <1>4, <2>1, <2>2, <2>3, ShortestIs
<1>6. \A e \in acked : base'[e.file] = base[e.file]
  <2> SUFFICES ASSUME NEW e \in acked PROVE base'[e.file] = base[e.file]
    OBVIOUS
  <2>1. e.name \in Names /\ e.file # None /\ dir.names[e.name] = e.file
    BY <1>1 DEF IInv, TypeOK, AckedDurable, Published
  <2> QED
    BY <2>1 DEF FilesKept
<1>7. Acknowledged(acked', base') = Acknowledged(acked, base)
  BY <1>6 DEF Acknowledged
<1>8. Acknowledged(acked, base)' = Acknowledged(acked', base')
  BY DEF Acknowledged
<1> QED
  BY <1>3, <1>5, <1>7, <1>8, MappingIs

\* A sync of the directory makes the whole history durable.
LEMMA SyncHardens ==
    ASSUME IInv, IInv', SyncDirectory, UNCHANGED <<base, acked>>
    PROVE  J!Harden
<1>1. /\ dir' = dir /\ survivable' = {dir} /\ dir \in survivable /\ dir \in Directories
      /\ base \in [Files -> Files \cup {None}]
  BY DEF IInv, TypeOK, SyncDirectory
<1>2. LastOf(dir) \in Names /\ Contiguous(dir, LastOf(dir))
  BY <1>1, LengthsAre
<1>3. Shortest({dir}) = LastOf(dir)
  <2>1. LastOf(dir) <= LastOf(dir)
    BY <1>2, StoreAssumption DEF Names
  <2> QED
    BY <1>2, <2>1, ShortestIs
<1>4. Len(LogOf(dir)) = LastOf(dir)
  BY <1>1, <1>2, LogIs, MappingIs
<1>5. DurableLength' = Len(LogOf(dir))
  BY <1>1, <1>3, <1>4, MappingIs
<1>6. LogOf(dir)' = LogOf(dir)
  BY <1>1, MappingIs
<1> QED
  BY <1>5, <1>6 DEF J!Harden

\* The output file is not part of the history.
LEMMA OutputIsUnseen ==
    ASSUME IInv, IInv', NEW w \in Writers, Link(w), target[w] = Output
    PROVE  UNCHANGED <<LogOf(dir), DurableLength, Acknowledged(acked, base)>>
<1>1. /\ dir \in survivable /\ dir \in Directories /\ dir' \in Directories
      /\ pending[w] \in Files \cup {None}
      /\ base' = base /\ acked' = acked
  BY DEF IInv, TypeOK, Link
<1>2. dir' = WithName(dir, Output, pending[w]) /\ survivable' = survivable \cup {dir'}
  BY DEF Link, ChangeDir
<1>3. Output \in Names /\ Output \notin Revisions
  BY StoreAssumption DEF Output, Names, Revisions
<1>4. \A m \in Revisions : dir'.names[m] = dir.names[m]
  <2>1. dir'.names = [dir.names EXCEPT ![Output] = pending[w]]
    BY <1>1, <1>2, <1>3, NameDir
  <2>2. \A m \in Revisions : m \in Names /\ m # Output
    BY <1>3, StoreAssumption DEF Names, Revisions
  <2> QED
    BY <1>1, <2>1, <2>2 DEF Directories
<1>5. LastOf(dir) \in Names /\ Contiguous(dir, LastOf(dir)) /\ LastOf(dir') = LastOf(dir)
  BY <1>1, <1>4, LengthsAre, LastIs DEF Contiguous
<1>6. Log(dir', base') = Log(dir, base)
  <2>1. \A i \in 1 .. LastOf(dir) : dir'.names[i] = dir.names[i]
    BY <1>4, <1>5, StoreAssumption DEF Names, Revisions
  <2> QED
    BY <1>1, <1>5, <2>1 DEF Log
<1>7. Shortest(survivable') = Shortest(survivable)
  <2>1. /\ Shortest(survivable) \in Names
        /\ \E d \in survivable : LastOf(d) = Shortest(survivable)
        /\ \A d \in survivable : Shortest(survivable) <= LastOf(d)
    BY LengthsAre, ShortestExists
  <2>2. \A d \in survivable' : LastOf(d) \in Names /\ Shortest(survivable) <= LastOf(d)
    BY <1>1, <1>2, <1>5, <2>1, LengthsAre
  <2>3. \E d \in survivable' : LastOf(d) = Shortest(survivable)
    BY <1>2, <2>1
  <2> QED
    BY <2>1, <2>2, <2>3, ShortestIs
<1> QED
  BY <1>1, <1>6, <1>7, MappingIs DEF Acknowledged

\* A link of a revision appends to the history an entry made from its last:
\* the link fails on an existing name, and what its writer has loaded is still there.
LEMMA LinkPublishes ==
    ASSUME IInv, IInv', NEW w \in Writers, Link(w), target[w] # Output
    PROVE  \E id \in Files : J!Publish(id)
<1> DEFINE t == target[w]
           f == pending[w]
           S == [id : Files, base : Files \cup {None}]
<1>1. /\ dir \in survivable /\ dir \in Directories /\ dir' \in Directories
      /\ base \in [Files -> Files \cup {None}] /\ base' = base /\ acked' = acked
      /\ pc[w] = "link" /\ t \in Names /\ f \in Files \cup {None}
      /\ loaded[w] \in [rev : Names, file : Files \cup {None}]
      /\ dir.names[t] = None
  BY DEF IInv, TypeOK, Link, Goto
<1>2. dir' = WithName(dir, t, f) /\ survivable' = survivable \cup {dir'}
  BY DEF Link, ChangeDir
<1>3. f \in Files /\ (\A n \in Names : dir.names[n] # f) /\ base[f] = loaded[w].file
  BY <1>1 DEF IInv, Pendings, Before, After
<1>4. /\ t = loaded[w].rev + 1
      /\ loaded[w].rev = 0 => loaded[w].file = None
      /\ loaded[w].rev > 0 => loaded[w].file # None /\ dir.names[loaded[w].rev] = loaded[w].file
  BY <1>1 DEF IInv, Views, Busy, Before, After
<1>5. t \in Revisions /\ t - 1 \in Names
  BY <1>1, <1>4, StoreAssumption DEF Names, Revisions, Output
<1>6. dir'.names = [dir.names EXCEPT ![t] = f]
  <2>1. dir \in Directories /\ t \in Names /\ f \in Files \cup {None}
    BY <1>1
  <2>2. WithName(dir, t, f).names = [dir.names EXCEPT ![t] = f]
    <3> HIDE DEF t, f
    <3> QED
      BY <2>1, NameDir
  <2> QED
    BY <1>2, <2>2
<1>7. LastOf(dir) = t - 1 /\ Contiguous(dir, t - 1)
  <2>1. LastOf(dir) \in Names /\ Contiguous(dir, LastOf(dir))
    BY <1>1, LengthsAre
  <2>2. LastOf(dir) < t
    BY <1>1, <1>5, <2>1, StoreAssumption DEF Contiguous, Names, Revisions
  <2>3. t - 1 <= LastOf(dir)
    BY <1>1, <1>4, <1>5, <2>1, StoreAssumption DEF Contiguous, Names, Revisions
  <2>4. LastOf(dir) = t - 1
    BY <2>1, <2>2, <2>3, <1>5, StoreAssumption DEF Names, Revisions
  <2> QED
    BY <2>1, <2>4
<1>8. LastOf(dir') = t /\ Contiguous(dir', t)
  <2>1. Contiguous(dir', t)
    <3> SUFFICES ASSUME NEW m \in Revisions PROVE dir'.names[m] # None <=> m <= t
      BY DEF Contiguous
    <3>1. m \in Names /\ dir'.names[m] = (IF m = t THEN f ELSE dir.names[m])
      BY <1>1, <1>6, StoreAssumption DEF Names, Revisions, Directories
    <3>2. dir.names[m] # None <=> m <= t - 1
      BY <1>7 DEF Contiguous
    <3> QED
      BY <1>3, <1>5, <3>1, <3>2, StoreAssumption DEF Names, Revisions
  <2> QED
    BY <1>1, <2>1, LastIs
<1>9. /\ Log(dir, base) \in Seq(S) /\ Len(Log(dir, base)) = t - 1
      /\ \A i \in 1 .. t - 1 : Log(dir, base)[i] = [id |-> dir.names[i], base |-> base[dir.names[i]]]
  BY <1>1, <1>5, <1>7, LogIs
<1>10. /\ Log(dir', base') \in Seq(S) /\ Len(Log(dir', base')) = t
       /\ \A i \in 1 .. t : Log(dir', base')[i] = [id |-> dir'.names[i], base |-> base[dir'.names[i]]]
  BY <1>1, <1>8, LogIs
<1>11. \A i \in 1 .. t - 1 : Log(dir', base')[i] = Log(dir, base)[i]
  <2>1. \A i \in 1 .. t - 1 : i \in Names /\ i \in 1 .. t /\ dir'.names[i] = dir.names[i]
    BY <1>1, <1>5, <1>6, StoreAssumption DEF Names, Revisions, Directories
  <2> SUFFICES ASSUME NEW i \in 1 .. t - 1 PROVE Log(dir', base')[i] = Log(dir, base)[i]
    OBVIOUS
  <2>2. Log(dir, base)[i] = [id |-> dir.names[i], base |-> base[dir.names[i]]]
    BY <1>9
  <2>3. Log(dir', base')[i] = [id |-> dir'.names[i], base |-> base[dir'.names[i]]]
    BY <1>10, <2>1
  <2> QED
    BY <2>1, <2>2, <2>3
<1>12. Log(dir', base')[t] = [id |-> f, base |-> loaded[w].file]
  <2>1. dir'.names[t] = f /\ t \in 1 .. t
    BY <1>1, <1>5, <1>6 DEF Directories, Revisions
  <2> QED
    BY <1>3, <1>10, <2>1
<1>13. loaded[w].file = J!Last
  <2>1. CASE t = 1
    <3>1. Log(dir, base) = <<>>
      BY <1>9, <2>1
    <3> QED
      BY <1>4, <1>1, <2>1, <3>1, MappingIs, StoreAssumption DEF J!Last, Names
  <2>2. CASE t # 1
    <3>1. t - 1 \in 1 .. t - 1 /\ loaded[w].rev = t - 1 /\ loaded[w].rev > 0
      BY <1>1, <1>4, <1>5, <2>2, StoreAssumption DEF Revisions, Names
    <3>2. Log(dir, base)[t - 1] = [id |-> dir.names[t - 1], base |-> base[dir.names[t - 1]]]
      BY <1>9, <3>1
    <3>3. Log(dir, base)[t - 1].id = loaded[w].file
      BY <1>4, <3>1, <3>2
    <3>4. Log(dir, base) # <<>>
      <4>1. Len(Log(dir, base)) > 0
        BY <1>9, <3>1
      <4> QED
        BY <4>1
    <3> QED
      BY <1>9, <3>3, <3>4, MappingIs DEF J!Last
  <2> QED
    BY <2>1, <2>2
<1>14. Log(dir', base') = Append(Log(dir, base), [id |-> f, base |-> loaded[w].file])
  <2> DEFINE e == [id |-> f, base |-> loaded[w].file]
             l == Log(dir, base)
             k == Log(dir', base')
  <2>1. e \in S
    BY <1>1, <1>3
  <2>2. t \in Nat /\ t >= 1
    BY <1>5, StoreAssumption DEF Revisions
  <2>3. l \in Seq(S) /\ Len(l) = t - 1 /\ k \in Seq(S) /\ Len(k) = t
    BY <1>9, <1>10
  <2>4. (\A i \in 1 .. t - 1 : k[i] = l[i]) /\ k[t] = e
    BY <1>11, <1>12
  <2> HIDE DEF e, l, k, t, S
  <2>5. /\ Append(l, e) \in Seq(S) /\ Len(Append(l, e)) = t
        /\ \A i \in 1 .. t - 1 : Append(l, e)[i] = l[i]
        /\ Append(l, e)[t] = e
    BY <2>1, <2>2, <2>3, AppendProperties
  <2>6. \A i \in 1 .. t : k[i] = Append(l, e)[i]
    <3> SUFFICES ASSUME NEW i \in 1 .. t PROVE k[i] = Append(l, e)[i]
      OBVIOUS
    <3>1. i \in 1 .. t - 1 \/ i = t
      BY <2>2
    <3> QED
      BY <2>4, <2>5, <3>1
  <2>7. k = Append(l, e)
    BY <2>3, <2>5, <2>6, SeqEqual
  <2> QED
    BY <2>7 DEF e, l, k
<1>15. \A i \in DOMAIN LogOf(dir) : LogOf(dir)[i].id # f
  <2>1. DOMAIN LogOf(dir) = 1 .. t - 1
    BY <1>7 DEF LogOf
  <2>2. \A i \in 1 .. t - 1 : i \in Names
    BY <1>1, <1>5, StoreAssumption DEF Names, Revisions
  <2> SUFFICES ASSUME NEW i \in 1 .. t - 1 PROVE LogOf(dir)[i].id # f
    BY <2>1
  <2>3. Log(dir, base)[i] = [id |-> dir.names[i], base |-> base[dir.names[i]]]
    BY <1>9
  <2>4. Log(dir, base)[i].id # f
    BY <1>3, <2>2, <2>3
  <2> QED
    BY <2>4, MappingIs
<1>16. Shortest(survivable') = Shortest(survivable)
  <2>1. /\ Shortest(survivable) \in Names
        /\ \E d \in survivable : LastOf(d) = Shortest(survivable)
        /\ \A d \in survivable : Shortest(survivable) <= LastOf(d)
    BY LengthsAre, ShortestExists
  <2>2. Shortest(survivable) <= t
    BY <1>1, <1>5, <1>7, <2>1, StoreAssumption DEF Names
  <2>3. \A d \in survivable' : LastOf(d) \in Names /\ Shortest(survivable) <= LastOf(d)
    BY <1>1, <1>2, <1>8, <2>1, <2>2, LengthsAre
  <2>4. \E d \in survivable' : LastOf(d) = Shortest(survivable)
    BY <1>2, <2>1
  <2> QED
    BY <2>1, <2>3, <2>4, ShortestIs
<1>17. LogOf(dir)' = Append(LogOf(dir), [id |-> f, base |-> J!Last])
  BY <1>13, <1>14, MappingIs
<1>18. DurableLength' = DurableLength
  BY <1>16, MappingIs
<1> QED
  BY <1>1, <1>3, <1>15, <1>17, <1>18 DEF J!Publish

\* Ok is said of an entry that every survivor has.
LEMMA VerifyAcknowledges ==
    ASSUME IInv, IInv', NEW w \in Writers, Verify(w)
    PROVE  \/ \E i \in 1 .. DurableLength : J!Acknowledge(LogOf(dir)[i])
           \/ UNCHANGED <<LogOf(dir), DurableLength, Acknowledged(acked, base)>>
<1> DEFINE t == target[w]
           f == pending[w]
           A == Acknowledged(acked, base)
<1>1. /\ dir \in survivable /\ dir \in Directories /\ base \in [Files -> Files \cup {None}]
      /\ dir' = dir /\ survivable' = survivable /\ base' = base
      /\ acked' = acked \cup {[name |-> t, file |-> f]}
      /\ t \in Names /\ pc[w] = "verify"
  BY DEF IInv, TypeOK, Verify, Goto
<1>2. LogOf(dir)' = LogOf(dir) /\ DurableLength' = DurableLength
  BY <1>1, MappingIs
<1>3. CASE t = Output
  <2>1. Acknowledged(acked', base') = A
    BY <1>1, <1>3 DEF Acknowledged
  <2> QED
    BY <1>2, <2>1 DEF Acknowledged
<1>4. CASE t # Output
  <2>1. t \in Revisions
    BY <1>1, <1>4, StoreAssumption DEF Names, Revisions, Output
  <2>2. f # None /\ \A d \in survivable : d.names[t] = f
    BY <1>1 DEF IInv, Pendings, Published, Before, After
  <2>3. \A d \in survivable : t <= LastOf(d)
    BY <2>1, <2>2, LengthsAre DEF Contiguous
  <2>4. /\ DurableLength \in Names
        /\ \E d \in survivable : LastOf(d) = DurableLength
    BY LengthsAre, ShortestExists, MappingIs
  <2>5. t \in 1 .. DurableLength
    BY <2>1, <2>3, <2>4, StoreAssumption DEF Names, Revisions
  <2>6. LogOf(dir)[t] = [id |-> f, base |-> base[f]]
    <3>1. t \in 1 .. LastOf(dir) /\ dir.names[t] = f
      BY <1>1, <2>1, <2>2, <2>3, LengthsAre, StoreAssumption DEF Names, Revisions
    <3> QED
      BY <3>1 DEF LogOf
  <2>7. Acknowledged(acked', base') = A \cup {[id |-> f, base |-> base[f]]}
    <3> DEFINE e == [name |-> t, file |-> f]
               B == {b \in acked : b.name # Output}
    <3>1. {b \in acked' : b.name # Output} = B \cup {e}
      BY <1>1, <1>4
    <3>2. Acknowledged(acked', base') = {[id |-> a.file, base |-> base[a.file]] : a \in B \cup {e}}
      BY <1>1, <3>1 DEF Acknowledged
    <3>3. A = {[id |-> a.file, base |-> base[a.file]] : a \in B}
      BY DEF Acknowledged
    <3>4. e.file = f
      OBVIOUS
    <3> HIDE DEF e, B, A
    <3> QED
      BY <3>2, <3>3, <3>4
  <2>8. J!Acknowledge(LogOf(dir)[t])
    BY <1>2, <2>6, <2>7 DEF J!Acknowledge, Acknowledged
  <2> QED
    BY <2>5, <2>8 DEF J!Acknowledge
<1> QED
  BY <1>3, <1>4

\* A power loss cuts the history, not below its durable length.
LEMMA PowerLossTruncates ==
    ASSUME IInv, IInv', PowerLoss
    PROVE  \E n \in DurableLength .. Len(LogOf(dir)) : J!Truncate(n)
<1> DEFINE n == LastOf(dir')
           S == [id : Files, base : Files \cup {None}]
<1>1. /\ dir \in survivable /\ dir \in Directories /\ dir' \in Directories
      /\ base \in [Files -> Files \cup {None}] /\ base' = base /\ acked' = acked
      /\ dir' \in survivable /\ survivable' = {dir'}
  BY DEF IInv, TypeOK, PowerLoss
<1>2. /\ n \in Names /\ Contiguous(dir', n) /\ n <= LastOf(dir)
      /\ LastOf(dir) \in Names /\ Contiguous(dir, LastOf(dir))
      /\ n \in Nat /\ LastOf(dir) \in Nat
  BY <1>1, LengthsAre, StoreAssumption DEF Names
<1>3. DurableLength \in Names /\ DurableLength <= n
  BY <1>1, LengthsAre, ShortestExists, MappingIs
<1>4. /\ Log(dir, base) \in Seq(S) /\ Len(Log(dir, base)) = LastOf(dir)
      /\ \A i \in 1 .. LastOf(dir) : Log(dir, base)[i] = [id |-> dir.names[i], base |-> base[dir.names[i]]]
  BY <1>1, <1>2, LogIs
<1>5. /\ Log(dir', base') \in Seq(S) /\ Len(Log(dir', base')) = n
      /\ \A i \in 1 .. n : Log(dir', base')[i] = [id |-> dir'.names[i], base |-> base[dir'.names[i]]]
  BY <1>1, <1>2, LogIs
<1>6. n \in DurableLength .. Len(LogOf(dir))
  BY <1>2, <1>3, <1>4, MappingIs, StoreAssumption DEF Names
<1>7. \A i \in 1 .. n : i \in 1 .. LastOf(dir) /\ Log(dir', base')[i] = Log(dir, base)[i]
  <2> SUFFICES ASSUME NEW i \in 1 .. n
               PROVE  i \in 1 .. LastOf(dir) /\ Log(dir', base')[i] = Log(dir, base)[i]
    OBVIOUS
  <2>1. i \in Revisions /\ i \in Names /\ i \in 1 .. LastOf(dir)
    BY <1>2, StoreAssumption DEF Names, Revisions
  <2>2. dir'.names[i] # None
    BY <1>2, <2>1 DEF Contiguous
  <2>3. dir'.names[i] = dir.names[i]
    BY <1>1, <2>1, <2>2 DEF IInv, Prefix
  <2>4. Log(dir, base)[i] = [id |-> dir.names[i], base |-> base[dir.names[i]]]
    BY <1>4, <2>1
  <2>5. Log(dir', base')[i] = [id |-> dir'.names[i], base |-> base[dir'.names[i]]]
    BY <1>5
  <2> QED
    BY <2>1, <2>3, <2>4, <2>5
<1>8. Log(dir', base') = SubSeq(Log(dir, base), 1, n)
  <2> DEFINE l == Log(dir, base)
             k == Log(dir', base')
  <2>1. \A i \in 1 .. n : l[i] \in S
    BY <1>4, <1>7, ElementOfSeq
  <2>2. /\ SubSeq(l, 1, n) \in Seq(S) /\ Len(SubSeq(l, 1, n)) = n
        /\ \A i \in 1 .. n : SubSeq(l, 1, n)[i] = l[i]
    <3> HIDE DEF l, n, S
    <3> QED
      BY <1>2, <2>1, SubSeqProperties
  <2>3. k \in Seq(S) /\ Len(k) = n /\ \A i \in 1 .. n : k[i] = SubSeq(l, 1, n)[i]
    BY <1>5, <1>7, <2>2
  <2> HIDE DEF l, k, n, S
  <2>4. k = SubSeq(l, 1, n)
    BY <2>2, <2>3, SeqEqual
  <2> QED
    BY <2>4 DEF l, k
<1>9. DurableLength' = n
  <2>1. n <= n
    BY <1>2
  <2> QED
    BY <1>1, <1>2, <2>1, ShortestIs, MappingIs
<1>10. LogOf(dir)' = SubSeq(LogOf(dir), 1, n)
  BY <1>8, MappingIs
<1>11. J!Truncate(n)
  BY <1>1, <1>9, <1>10 DEF J!Truncate
<1> QED
  BY <1>6, <1>11

\* Every step of the store is a step of the journal or none.
LEMMA StepRefines ==
    ASSUME IInv, IInv', [Next]_vars
    PROVE  J!Next \/ UNCHANGED <<LogOf(dir), DurableLength, Acknowledged(acked, base)>>
<1> DEFINE Still == UNCHANGED <<LogOf(dir), DurableLength, Acknowledged(acked, base)>>
<1>1. dir \in Directories /\ pending \in [Writers -> Files \cup {None}]
  BY DEF IInv, TypeOK
<1>2. UNCHANGED base /\ UNCHANGED content => FilesKept
  BY DEF FilesKept
<1>3. dir' = dir /\ survivable' = survivable => Kept
  BY DEF Kept
<1>4. ASSUME NEW w \in Writers, CreateDir(w) PROVE Still
  <2>1. Kept /\ survivable \subseteq survivable'
    BY <1>1, <1>4, KeptChange, MadeDir DEF IInv, CreateDir, ChangeDir
  <2> QED
    BY <1>2, <1>4, <2>1, NothingSeen DEF CreateDir
<1>5. ASSUME NEW w \in Writers, CreateTemp(w) PROVE Still
  <2>1. PICK f \in Files : /\ content[f] = "absent"
                           /\ content' = [content EXCEPT ![f] = "partial"]
                           /\ base' = [base EXCEPT ![f] = loaded[w].file]
                           /\ ChangeDir(WithTemp(dir, f))
    BY <1>5 DEF CreateTemp
  <2>2. Kept /\ survivable \subseteq survivable'
    BY <1>1, <2>1, KeptChange, TempDir DEF IInv, ChangeDir
  <2>3. \A n \in Names : dir.names[n] # None => dir.names[n] # f
    BY <2>1 DEF IInv, Complete
  <2>4. \A n \in Names : dir.names[n] # None => dir.names[n] \in Files
    BY <1>1 DEF Directories
  <2>5. FilesKept
    BY <2>1, <2>3, <2>4 DEF IInv, TypeOK, FilesKept
  <2> QED
    BY <1>5, <2>2, <2>5, NothingSeen DEF CreateTemp
<1>6. ASSUME NEW w \in Writers, WriteSync(w) PROVE Still
  <2>1. pending[w] \in Files /\ \A n \in Names : dir.names[n] # pending[w]
    BY <1>1, <1>6 DEF IInv, Pendings, WriteSync, Goto, Before, After
  <2>2. FilesKept
    BY <1>1, <1>6, <2>1 DEF FilesKept, WriteSync, IInv, TypeOK, Directories
  <2> QED
    BY <1>3, <1>6, <2>2, NothingSeen DEF WriteSync
<1>7. ASSUME NEW w \in Writers, Unlink(w) \/ Drop(w) PROVE Still
  <2>1. Kept /\ survivable \subseteq survivable'
    <3>1. CASE ChangeDir(WithoutTemp(dir, pending[w]))
      BY <1>1, <3>1, KeptChange, UntempDir DEF IInv, ChangeDir
    <3>2. CASE UNCHANGED <<dir, survivable>>
      BY <1>3, <3>2
    <3> QED
      BY <1>7, <3>1, <3>2 DEF Unlink, Drop
  <2> QED
    BY <1>2, <1>7, <2>1, NothingSeen DEF Unlink, Drop
<1>8. ASSUME NEW w \in Writers,
             Open(w) \/ Close(w) \/ SaveBegin(w) \/ WriteNewBegin(w) \/ Recheck(w) \/ Fail(w) \/ Crash(w)
      PROVE  Still
  <2>1. UNCHANGED <<dir, survivable, content, base, acked>>
    BY <1>8 DEF Open, Close, SaveBegin, WriteNewBegin, Recheck, Fail, Crash
  <2> QED
    BY <1>2, <1>3, <2>1, NothingSeen
<1>9. ASSUME NEW w \in Writers, SyncParent(w) \/ SyncPublished(w) \/ SyncUnlinked(w) PROVE J!Next
  BY <1>9, SyncHardens DEF SyncParent, SyncPublished, SyncUnlinked, J!Next
<1>10. ASSUME NEW w \in Writers, Link(w) PROVE J!Next \/ Still
  BY <1>10, OutputIsUnseen, LinkPublishes DEF J!Next
<1>11. ASSUME NEW w \in Writers, Verify(w) PROVE J!Next \/ Still
  BY <1>11, VerifyAcknowledges DEF J!Next
<1>12. CASE PowerLoss
  BY <1>12, PowerLossTruncates DEF J!Next
<1>13. CASE UNCHANGED vars
  <2>1. UNCHANGED <<dir, survivable, content, base, acked>>
    BY <1>13 DEF vars
  <2> QED
    BY <1>2, <1>3, <2>1, NothingSeen
<1> QED
  BY <1>4, <1>5, <1>6, <1>7, <1>8, <1>9, <1>10, <1>11, <1>12, <1>13 DEF Next

\* The new store is an empty journal.
LEMMA StartRefines == Init => J!Init
<1> SUFFICES ASSUME Init PROVE J!Init
  OBVIOUS
<1>1. 0 \in Names /\ LastOf(Empty) = 0
  <2>1. 0 \in Names /\ Contiguous(Empty, 0)
    BY StoreAssumption DEF Empty, Contiguous, Names, Revisions
  <2> QED
    BY <2>1, LastIs
<1>2. LogOf(dir) = <<>>
  BY <1>1 DEF Init, LogOf
<1>3. DurableLength = 0
  <2>1. Shortest({Empty}) = 0
    BY <1>1, ShortestIs
  <2> QED
    BY <2>1, MappingIs DEF Init
<1>4. Acknowledged(acked, base) = {}
  BY DEF Init, Acknowledged
<1> QED
  BY <1>2, <1>3, <1>4 DEF J!Init, Acknowledged

\* Store implements Journal: whatever its writers, syncs, crashes and power
\* losses do, callers of src/setup/store.rs see one history that grows at its
\* end, is cut only by a power loss and never below what was acknowledged.
THEOREM StoreImplementsJournal == Spec => ImplementsJournal
<1>1. IInv /\ IInv' /\ [Next]_vars => [J!Next]_<<LogOf(dir), DurableLength, Acknowledged(acked, base)>>
  BY StepRefines
<1>2. Spec => J!Init
  BY StartRefines, PTL DEF Spec
<1>3. Spec => [][J!Next]_<<LogOf(dir), DurableLength, Acknowledged(acked, base)>>
  BY <1>1, Invariant, PTL DEF Spec
<1> QED
  BY <1>2, <1>3, PTL DEF ImplementsJournal, J!Spec, Acknowledged
=============================================================================
