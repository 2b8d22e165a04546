-------------------------------- MODULE Node ---------------------------------
(***************************************************************************)
(* The service of module Service with what an observer of it can look at:  *)
(* the rows of every attempt's report.jsonl and the process that listens   *)
(* on the instance's local port.  The engine takes the port when it        *)
(* reports RUNNING and may lose it, at once or later, without ending; a    *)
(* free port may be any other program's for as long as it likes.  The      *)
(* engine and that program are external.                                   *)
(***************************************************************************)
EXTENDS Service, Sequences

CONSTANT Foreign   \* some other program on this machine

ASSUME NodeAssumption == Foreign \notin Attempts \cup {None}

VARIABLES rows,      \* the rows of each attempt's report.jsonl
          listener   \* the engine that has the port, None for any other program

node == <<rows, listener>>

NodeInit ==
    /\ Init
    /\ rows = [a \in Attempts |-> <<>>]
    /\ listener = None

\* Every report is appended; a process that is gone has left the port.
RowsFollow ==
    rows' = [a \in Attempts |->
        IF report'[a] = report[a] THEN rows[a]
        ELSE Append(rows[a], [status |-> report'[a], pid |-> entries[a]])]

Arrives(a) == report[a] # "RUNNING" /\ report'[a] = "RUNNING"

ListenerFollows ==
    \/ \E a \in Attempts : listener = None /\ Arrives(a) /\ listener' = a
    \/ \E a \in Attempts : listener = a /\ worker'[a] = "none" /\ listener' = None
    \/ /\ ~\E a \in Attempts : listener = None /\ Arrives(a)
       /\ ~\E a \in Attempts : listener = a /\ worker'[a] = "none"
       /\ UNCHANGED listener

\* Bound: only the first attempt's job is kickstarted, while it is the only one or later.
FewKickstarts ==
    \A a \in Attempts : entries'[a] > 1 /\ entries[a] = 1 => used = {a} \/ a # runtime.attempt

\* Bound: a run of two attempts has requests for the first kickstart's worker only, once
\* the second attempt is there.
FewRequests ==
    requests' # requests /\ used = Attempts => \A q \in requests' : q.pid = 1

ServiceStep == ProcessStep /\ FewKickstarts /\ FewRequests /\ RowsFollow /\ ListenerFollows

MachineStep == PowerLoss /\ RowsFollow /\ ListenerFollows

\* The engine gives up, before or after it has opened its storage.
EngineFails(a) ==
    /\ Running(a)
    /\ \/ /\ report[a] \in {"CHECKING", "STARTING", "RUNNING", "STOPPING"}
          /\ report' = [report EXCEPT ![a] = "FAILED"]
       \/ /\ report[a] \in {"RUNNING", "STOPPING"}
          /\ report' = [report EXCEPT ![a] = "UNKNOWN"]
    /\ RowsFollow
    /\ UNCHANGED <<journal, holders, command, used, jobs, requests, signalled, execs, listener>>

\* It is gone, whatever it has reported.
EngineCrash(a) ==
    /\ Running(a)
    /\ Exit(a)
    /\ UNCHANGED <<journal, command, used, loaded, entries, requests, engine, rows>>
    /\ ListenerFollows

\* Its HTTP server ends and the process goes on.
EngineUnbinds(a) ==
    /\ listener = a
    /\ listener' = None
    /\ UNCHANGED <<vars, rows>>

\* Who answers a request to the port, if anybody does.
Servers == IF listener = None THEN {Foreign} ELSE {listener}

OutsideStep ==
    \E a \in Attempts : EngineFails(a) \/ EngineCrash(a) \/ EngineUnbinds(a)
=============================================================================
