------------------------------- MODULE Status --------------------------------
(***************************************************************************)
(* Looking at a service without touching it: status, status --wait and the *)
(* wait of start (status_until and ReadinessWait in                        *)
(* src/engine/instance/service.rs).                                        *)
(*                                                                         *)
(* The observer reads the journal, the lock, launchd, the report and the   *)
(* engine's HTTP interface one after the other while commands, workers,    *)
(* engines and other programs go on, and then looks at some of them again. *)
(* status is a wait whose time is up after the first look; start waits for *)
(* the attempt it has just made, setup for one it has shown, status --wait *)
(* for the first one it sees.  The short lock of busy() is the Probe of    *)
(* module Service.                                                         *)
(***************************************************************************)
EXTENDS Node, Reports

VARIABLES obs,     \* what the observer has read so far
          answer   \* its ServiceSummary, None before

watch == <<obs, answer>>

\* A summary: engine and readiness as far as anything depends on them
\* ("ACTIVE": any state from START_PENDING to STOPPING).  from, sound and old
\* are history: who served a READY document, whether it was true, and
\* whether the summary was kept from an earlier look.
Summary(a) ==
    [attempt |-> a, engine |-> "UNKNOWN", ready |-> "OPEN", outcome |-> "UNKNOWN",
     expired |-> FALSE, from |-> None, sound |-> FALSE, old |-> FALSE]

NoSummary == Summary(None)
Failure == [NoSummary EXCEPT !.outcome = "ERROR"]

Off == [at |-> "off", pin |-> None, last |-> NoSummary, attempt |-> None, pid |-> 0,
        phase |-> "None", busy |-> FALSE, live |-> 0, from |-> None]

StatusInit == obs = Off /\ answer = NoSummary

-----------------------------------------------------------------------------
(* ReadinessWait.                                                          *)

\* An answer is remembered as long as it commits bxdl to something.
Answer(s) ==
    /\ obs' = Off
    /\ answer' = IF s.ready \in {"READY", "STOPPED"} \/ s.engine = "GATE_REFUSED"
                   THEN s ELSE NoSummary

\* attempt_changed, or nothing has ever been started.
WrongAttempt(s) ==
    /\ obs.pin # None /\ s.attempt # obs.pin
    /\ Answer([Failure EXCEPT !.attempt = obs.pin])

Nothing(s) ==
    /\ obs.pin = None /\ s.attempt = None
    /\ Answer(s)

OnAttempt(s) == s.attempt # None /\ obs.pin \in {None, s.attempt}

\* An engine that stopped while start waited for it.
Stopping(s) ==
    /\ OnAttempt(s)
    /\ s.engine = "STOPPED"
    /\ \/ Answer(s)
       \/ obs.pin # None /\ Answer([s EXCEPT !.outcome = "INCOMPLETE"])

Final(s) == s.ready = "READY" \/ s.outcome = "FAILED"

Conclusive(s) ==
    /\ OnAttempt(s)
    /\ s.engine # "STOPPED" /\ Final(s)
    /\ Answer(s)

\* A look that ran out of time before it saw anything gives way to the last.
Kept(s) == IF s.expired /\ s.engine = "UNKNOWN" /\ obs.last # NoSummary THEN obs.last ELSE s

Inconclusive(s) ==
    /\ OnAttempt(s)
    /\ s.engine # "STOPPED" /\ ~Final(s)
    /\ \/ Answer(Kept(s))
       \/ /\ obs' = [Off EXCEPT !.at = "journal", !.pin = s.attempt,
                                !.last = [Kept(s) EXCEPT !.old = TRUE, !.expired = FALSE]]
          /\ UNCHANGED answer

\* accept.
Deliver(s) == WrongAttempt(s) \/ Nothing(s) \/ Stopping(s) \/ Conclusive(s) \/ Inconclusive(s)

\* finish: the time is up between two looks.
Finish ==
    /\ obs.at = "journal" /\ obs.last # NoSummary
    /\ Answer(obs.last)

-----------------------------------------------------------------------------
(* status_until.                                                           *)

Continue(next) == obs' = next /\ UNCHANGED answer

\* A wait is for whatever attempt there is or for the one that is current now.
Begin(pin) ==
    /\ obs = Off /\ answer = NoSummary
    /\ pin \in {None, runtime.attempt}
    /\ Continue([Off EXCEPT !.at = "journal", !.pin = pin])

Forget ==
    /\ answer # NoSummary
    /\ answer' = NoSummary
    /\ UNCHANGED obs

\* observe_runtime: the journal's snapshot, an error while it is empty.
ReadJournal ==
    /\ obs.at = "journal"
    /\ \/ runtime.phase = "Empty" /\ Answer(Failure)
       \/ /\ runtime.phase # "Empty"
          /\ Continue([obs EXCEPT !.at = "lock", !.attempt = runtime.attempt,
                                  !.pid = runtime.pid, !.phase = runtime.phase])

\* busy.
ReadLock ==
    /\ obs.at = "lock"
    /\ \/ /\ obs.attempt = None
          /\ Deliver([NoSummary EXCEPT !.engine = "NOT_STARTED", !.outcome = "INCOMPLETE"])
       \/ /\ obs.attempt # None
          /\ Continue([obs EXCEPT !.at = "job", !.busy = holders # {}])

\* What launchctl print may answer.  "job" is one whole block in which every field comes
\* once and the paths and arguments are those of this job; "missing" and "no gui" are the
\* exact complaints.  last is the last exit code.
Prints == [exit : {0, 112, 113, 1}, stdout : {"empty", "job", "other"},
           stderr : {"empty", "missing", "no gui", "other"},
           state : {"running", "not running", "exited", "waiting", "spawn scheduled", "other"},
           pid : {"none", "number", "other"}, last : {"never", "code", "other"}]

\* exit_code and the fields around it: words and numbers that are known and go together.
JobState(p) ==
    /\ "other" \notin {p.state, p.pid, p.last}
    /\ p.state = "running" => p.pid = "number"
    /\ p.state \in {"not running", "exited"} => p.pid = "none"

\* parse_observation.
ParseObservation(p) ==
    IF p.exit = 113 /\ p.stdout = "empty" /\ p.stderr = "missing" THEN "NotLoaded"
    ELSE IF p.exit = 112 /\ p.stdout = "empty" /\ p.stderr = "no gui" THEN "GuiUnavailable"
    ELSE IF p.exit = 0 /\ p.stdout = "job" /\ p.stderr = "empty" /\ JobState(p) THEN "Loaded"
    ELSE "unknown"

\* JobState::is_stopped.
IsStopped(p) == p.pid = "none" /\ p.state \in {"not running", "exited"} /\ p.last = "code"

LoadedPrints == {p \in Prints : ParseObservation(p) = "Loaded"}
OtherPrints == {ParseObservation(p) : p \in Prints} \ {"Loaded", "NotLoaded"}

\* launchd prints a loaded job as it is.  The process of a job that it has not got to may
\* not be there yet.
Shows(p, a) ==
    /\ p.pid = "number" => worker[a] # "none"
    /\ p.pid = "none" => worker[a] \in {"none", "entered"}
    /\ IsStopped(p) => worker[a] = "none"

\* Job::inspect: the pid, 0 for a job that is not loaded or has exited, -1 for
\* one that launchd has not got to yet.
LivePid(p, a) == IF p.pid = "number" THEN entries[a] ELSE IF IsStopped(p) THEN 0 ELSE -1
Observations(a) ==
    IF a \notin loaded THEN {0} ELSE {LivePid(p, a) : p \in {p \in LoadedPrints : Shows(p, a)}}

Exited(a, live) == live = 0 /\ a \in loaded

\* launchctl failed, its time ran out, its answer was no use or there is no GUI session.
JobUnknown ==
    \E late \in BOOLEAN, other \in OtherPrints :
        Deliver([Summary(obs.attempt) EXCEPT !.expired = late /\ other = "unknown"])

JobRefused ==
    /\ obs.phase = "GateRefused"
    /\ Deliver([Summary(obs.attempt) EXCEPT !.engine = "GATE_REFUSED", !.outcome = "FAILED"])

JobPending(live) ==
    /\ obs.phase = "StartPrepared"
    /\ Deliver([Summary(obs.attempt) EXCEPT !.engine = "ACTIVE",
                    !.outcome = IF Exited(obs.attempt, live) THEN "FAILED" ELSE "UNKNOWN"])

Passed == obs.phase \notin {"GateRefused", "StartPrepared"}

PidMismatch(live) ==
    /\ Passed
    /\ live > 0 /\ live # obs.pid
    /\ Deliver(Summary(obs.attempt))

JobFits(live) ==
    /\ Passed
    /\ live > 0 => live = obs.pid
    /\ Continue([obs EXCEPT !.at = "report", !.phase = "None", !.live = live])

ReadJob ==
    /\ obs.at = "job"
    /\ \/ JobUnknown
       \/ JobRefused
       \/ \E live \in Observations(obs.attempt) :
            JobPending(live) \/ PidMismatch(live) \/ JobFits(live)

\* report_for: what a read of the report may make of it.  A row that is being
\* written, or a file that grows meanwhile, is an error.
Reported(a, pid) ==
    {ReportStatus(rows[a], pid)} \cup (IF Running(a) THEN {"INVALID"} ELSE {})

Class(status) ==
    IF status \in {"STOPPED", "FAILED"} THEN status
    ELSE IF status \in {"INVALID", "UNKNOWN"} THEN "UNKNOWN" ELSE "ACTIVE"

\* Mutant: the report alone decides.
EndedByReport(status) == status = "STOPPED"

\* Stopped for good: the report says so, no process and nobody at work.
Ended(status) == status = "STOPPED" /\ obs.live <= 0 /\ ~obs.busy

Up(status) == status = "RUNNING" /\ obs.live > 0 /\ obs.busy

ReadReport ==
    /\ obs.at = "report"
    /\ \E status \in Reported(obs.attempt, obs.pid) :
         \/ /\ Ended(status)
            /\ Deliver([Summary(obs.attempt) EXCEPT !.engine = "STOPPED", !.ready = "STOPPED",
                                                    !.outcome = "SUCCEEDED"])
         \/ /\ ~Ended(status) /\ ~Up(status)
            /\ Deliver([Summary(obs.attempt) EXCEPT !.engine = Class(status),
                            !.outcome = IF status = "FAILED" THEN "FAILED" ELSE "UNKNOWN"])
         \/ /\ Up(status)
            /\ Continue([obs EXCEPT !.at = "bootstrap", !.busy = FALSE, !.live = 0])

\* observation_failure: anything from here on that fails or takes too long.
Unconfirmed == Deliver([Summary(obs.attempt) EXCEPT !.engine = "ACTIVE"])

\* runtime_http::get and validate_bootstrap: whoever listens must be the node
\* that this attempt's report has named.
IsOurs == listener = obs.attempt

\* Mutant: nobody is asked again who they are.
Anybody == TRUE

\* The second bootstrap, after the health document.
StillOurs == IsOurs

ReadBootstrap ==
    /\ obs.at = "bootstrap"
    /\ Unconfirmed \/ (IsOurs /\ Continue([obs EXCEPT !.at = "health"]))

\* The health document, from whoever listens now; an invalid one, or one that
\* is not of this moment, is an error.
ReadHealth ==
    /\ obs.at = "health"
    /\ Unconfirmed \/ \E s \in Servers : Continue([obs EXCEPT !.at = "again", !.from = s])

ReadBootstrapAgain ==
    /\ obs.at = "again"
    /\ Unconfirmed \/ (StillOurs /\ Continue([obs EXCEPT !.at = "jobAgain"]))

ReadJobAgain ==
    /\ obs.at = "jobAgain"
    /\ \/ Unconfirmed
       \/ Live(obs.attempt) = obs.pid /\ Continue([obs EXCEPT !.at = "lockAgain"])

ReadLockAgain ==
    /\ obs.at = "lockAgain"
    /\ IF holders = {} THEN Unconfirmed ELSE Continue([obs EXCEPT !.at = "reportAgain"])

Outcome(ready) ==
    CASE ready = "READY" -> "SUCCEEDED"
      [] ready = "FAILED" -> "FAILED"
      [] ready = "OPEN" -> "UNKNOWN"

\* Everything fits: the health document counts, whatever it says.
ReadReportAgain ==
    /\ obs.at = "reportAgain"
    /\ \E status \in Reported(obs.attempt, obs.pid) :
         \/ status # "RUNNING" /\ Unconfirmed
         \/ /\ status = "RUNNING"
            /\ \E v \in Verdicts :
                Deliver([Summary(obs.attempt) EXCEPT !.engine = "ACTIVE", !.ready = v.ready,
                            !.outcome = Outcome(v.ready), !.sound = v.sound,
                            !.from = IF v.ready = "READY" THEN obs.from ELSE None])

\* Any error that is not part of a summary, or the death of the observer.
LookFails ==
    /\ obs.at # "off"
    /\ Answer(Failure)

Look ==
    \/ LookFails \/ Finish \/ ReadJournal \/ ReadLock \/ ReadJob \/ ReadReport
    \/ ReadBootstrap \/ ReadHealth \/ ReadBootstrapAgain
    \/ ReadJobAgain \/ ReadLockAgain \/ ReadReportAgain

StatusStep ==
    /\ Forget \/ Look \/ \E pin \in used \cup {None} : Begin(pin)
    /\ UNCHANGED <<vars, node>>

-----------------------------------------------------------------------------
(* Safety.                                                                 *)

\* READY is said only of the attempt that was asked for, on the word of that
\* attempt's own engine and not of whatever else took its port meanwhile, from
\* a document that makes it true, and never from an earlier look.
ReadyIsTrue ==
    answer.ready = "READY" =>
        /\ answer.from = answer.attempt
        /\ answer.sound
        /\ ~answer.old

\* An attempt that is reported stopped, or refused by the gate, has no process
\* that can touch the data, and never gets one again.
EndedIsTrue ==
    (answer.ready = "STOPPED" /\ answer.outcome = "SUCCEEDED") \/ answer.engine = "GATE_REFUSED"
        => ~PastGate(answer.attempt)
=============================================================================
