------------------------------ MODULE Diagnosis ------------------------------
(***************************************************************************)
(* Offline evidence: logs and diagnose (src/engine/instance/diagnostics.rs *)
(* over src/engine/diagnostic_io.rs and diagnostic_events.rs).             *)
(*                                                                         *)
(* The collector keeps no lock: the moment for which it takes it, to see   *)
(* whether it is busy, is the Probe of module Service.  It reads the       *)
(* registration, the two journals and the report of the recorded attempt   *)
(* one after the other within a byte budget, reads the journals and the    *)
(* registration again and says whether anything is missing or has changed. *)
(* Sizes are small numbers: every record is 1, a report as long as its     *)
(* rows.  The instance is INITIALIZED, so only the service journal and the *)
(* report change meanwhile.  diagnose then writes the result to a new      *)
(* file, which others may take or replace.                                 *)
(***************************************************************************)
EXTENDS Node

CONSTANTS MaxBytes,     \* --max-bytes
          RecordLimit,  \* the most a record or a journal may take
          EventLimit    \* the most a report may take

\* The smallest --max-bytes takes the registration, the initialization journal
\* and its report.
ASSUME DiagnosisAssumption ==
    /\ {MaxBytes, RecordLimit, EventLimit} \subseteq Nat \ {0}
    /\ MaxBytes > 4

VARIABLE diag   \* the collector

\* left is the budget that remains, kept what is set aside for the second
\* look at the registration.  fits is history: the service journal was as
\* recorded when the report was read, unless the evidence is partial.
Resting == [at |-> "off", left |-> 0, kept |-> 0, bytes |-> 0, partial |-> FALSE,
            record |-> NoRuntime, fits |-> TRUE, path |-> "free"]

DiagnosisInit == diag = Resting

Smaller(x, y) == IF x < y THEN x ELSE y

-----------------------------------------------------------------------------
(* Collector: every step maps a collector to the next one.                 *)

Incomplete(d) == [d EXCEPT !.partial = TRUE]

\* Nothing of limit is given back when a read fails.
Spent(d, limit) == Incomplete([d EXCEPT !.left = @ - Smaller(@, limit)])

Charged(d, n) == [d EXCEPT !.left = @ - n, !.bytes = @ + n]

\* ready: no budget, no read.
Collect(d, size, limit) ==
    LET cap == Smaller(d.left, limit) IN
    IF d.left = 0 THEN Incomplete(d)
    ELSE IF size > cap THEN Incomplete(Charged(d, cap)) ELSE Charged(d, size)

\* A journal that does not fit into the budget is not read at all.
CollectJournal(d) ==
    IF d.left = 0 THEN Incomplete(d) ELSE Charged(d, 1)

\* The lock is probed, the registration read and as much set aside, then the
\* initialization journal and its report.
Started ==
    LET d == Collect([Resting EXCEPT !.at = "journal", !.left = MaxBytes], 1, RecordLimit)
        r == Smaller(d.bytes, d.left)
        e == [d EXCEPT !.left = @ - r, !.kept = r]
    IN  Collect(CollectJournal(e), 1, EventLimit)

DiagBegin ==
    /\ diag = Resting
    /\ diag' = Started

\* Store::open_bounded, then diagnostic_record: no service journal yet, an
\* empty one, one that cannot be had, or its last checkpoint.
DiagJournal ==
    /\ diag.at = "journal"
    /\ \/ runtime.phase = "None" /\ diag' = [diag EXCEPT !.at = "second"]
       \/ runtime.phase = "Empty" /\ diag' = [Spent(diag, RecordLimit) EXCEPT !.at = "second"]
       \/ diag' = [Spent(diag, RecordLimit) EXCEPT !.at = "second"]
       \/ /\ runtime.phase \notin {"None", "Empty"}
          /\ diag.left > 0
          /\ diag' = [CollectJournal(diag) EXCEPT !.at = "events", !.record = runtime]

\* project: complete rows of one process, in sequence, and nothing but what a run may
\* report; the details of a row are not modelled.
Projected(lines) ==
    /\ lines # <<>>
    /\ \A i \in 1 .. Len(lines) :
         /\ lines[i].pid = lines[1].pid
         /\ lines[i].status \in {"CHECKING", "STARTING", "RUNNING", "STOPPING", "STOPPED",
                                  "FAILED", "UNKNOWN"}

\* read_private: there is no such file, or it is not the same before and after.
Unreadable(a) == rows[a] = <<>> \/ Running(a)

\* The report of the recorded attempt, read while its engine may write; stdout and
\* stderr are measured and never read.
DiagEvents ==
    LET lines == rows[diag.record.attempt]
        d == Collect(diag, Len(lines), EventLimit)
        e == IF Projected(lines) THEN d ELSE Incomplete(d)
    IN
    /\ diag.at = "events"
    /\ \/ diag' = [e EXCEPT !.at = "recheck", !.fits = e.partial \/ runtime = diag.record]
       \/ /\ Unreadable(diag.record.attempt)
          /\ diag' = [Spent(diag, EventLimit) EXCEPT !.at = "recheck"]

\* Mutant: the journal is not looked at again.
SameAsEver(d) == TRUE

\* Store::read_bounded fails when there is a newer checkpoint.
SameJournal(d) == runtime = d.record

DiagRecheck ==
    /\ diag.at = "recheck"
    /\ diag' = [(IF diag.left = 0 THEN Incomplete(diag)
                 ELSE IF SameJournal(diag) THEN CollectJournal(diag)
                 ELSE Spent(diag, RecordLimit)) EXCEPT !.at = "second", !.record = NoRuntime]

\* The second look at the initialization journal and, from what was set aside,
\* at the registration.
DiagSecond ==
    LET d == CollectJournal(diag)
        e == Collect([d EXCEPT !.left = @ + d.kept, !.kept = 0], 1, RecordLimit)
    IN
    /\ diag.at = "second"
    /\ \E late \in BOOLEAN :
        diag' = [e EXCEPT !.at = "collected", !.partial = @ \/ late, !.left = 0,
                          !.fits = @ \/ e.partial \/ late]

-----------------------------------------------------------------------------
(* finish and write_export.                                                *)

\* The tail and the size of the output may cut events off.
DiagFinish ==
    /\ diag.at = "collected"
    /\ \E cut \in BOOLEAN, to \in {"logs", "export"} :
        diag' = [Resting EXCEPT !.at = to, !.partial = diag.partial \/ cut,
                                !.fits = diag.fits \/ cut]

\* Somebody else makes the file that diagnose has found missing, or puts another in
\* the place of the one it has published.
DiagCollision ==
    /\ (diag.at = "export" /\ diag.path = "free") \/ diag.at = "sync"
    /\ diag' = [diag EXCEPT !.path = "theirs"]

\* Paths as their names from the top: what the instance is made of or was made from (its
\* control directory and, for all others, its data), and where diagnose may be told to
\* write.
Protected == {<<"home", "instance">>, <<"data">>}
Outputs == {<<"home", "diagnosis">>, <<"home">>, <<"data", "diagnosis">>, <<"data">>}

\* overlaps: one path begins with the other.
Overlaps(a, b) ==
    LET n == Smaller(Len(a), Len(b)) IN SubSeq(a, 1, n) = SubSeq(b, 1, n)

check_output(output) == \A path \in Protected : ~Overlaps(output, path)

OutputRefused ==
    /\ diag.at = "export" /\ diag.path = "free"
    /\ \E output \in Outputs : ~check_output(output)
    /\ diag' = [Resting EXCEPT !.at = "failed"]

\* Pending::create and publish: the file is written and synced under a private name;
\* a hard link never replaces a file.
DiagPublish ==
    /\ diag.at = "export"
    /\ \E output \in Outputs : check_output(output)
    /\ \/ diag.path = "free" /\ diag' = [diag EXCEPT !.at = "sync", !.path = "ours"]
       \/ diag' = [Resting EXCEPT !.at = "failed"]

\* same_inode and the length.
SameFile(d) == d.path = "ours"

\* The directory is synced, the private name removed and the file at the path looked at
\* once more; an error from here on says that the file may be there.
DiagSync ==
    /\ diag.at = "sync"
    /\ \/ SameFile(diag) /\ diag' = [diag EXCEPT !.at = "written"]
       \/ diag' = [Resting EXCEPT !.at = "uncertain"]

DiagEnd ==
    /\ diag.at \in {"logs", "failed", "written", "uncertain"}
    /\ diag' = Resting

\* An error return (the control directory moved, no valid registration) or
\* the death of the collector.
DiagQuit ==
    /\ diag.at \in {"journal", "second", "sync"}
    /\ diag' = Resting

DiagnosisStep ==
    /\ \/ DiagBegin \/ DiagJournal \/ DiagEvents \/ DiagRecheck \/ DiagSecond
       \/ DiagFinish \/ OutputRefused \/ DiagCollision \/ DiagPublish \/ DiagSync \/ DiagEnd \/ DiagQuit
    /\ UNCHANGED <<vars, node>>

-----------------------------------------------------------------------------
(* Safety.                                                                 *)

\* Evidence that is not called partial belongs together: the service journal
\* said what the report of the diagnosis says when the engine's report was
\* read.  The byte budget is kept, and a diagnosis is called written only when
\* the file at its path is still this one after the last sync.
DiagnosisWhole ==
    /\ diag.at \in {"logs", "written"} => diag.partial \/ diag.fits
    /\ diag.bytes <= MaxBytes
    /\ diag.at = "written" => diag.path = "ours"
=============================================================================
