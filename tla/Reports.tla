------------------------------- MODULE Reports -------------------------------
(***************************************************************************)
(* What bxdl accepts from a running engine: the rows of its report.jsonl   *)
(* and the documents of its local HTTP interface                           *)
(* (src/engine/runtime_result.rs).                                         *)
(*                                                                         *)
(* A row is its status and pid; the identities it repeats (attempt, build, *)
(* genesis, chain, node) are those of the attempt whose file it is.  A     *)
(* health document keeps every field the rules read; a status stands for   *)
(* the pair of status and reason, and the words the rules do not tell      *)
(* apart share a class: "OVERDUE" is OPERATION_OVERDUE or TIMER_OVERDUE,   *)
(* "IDLE" NOT_STARTED, STOPPED or NO_TIMER, "ACTIVE" WAITING_TIMER or      *)
(* EXECUTING, "SYNCING" NEGOTIATING, DOWNLOADING or RETRYING.              *)
(***************************************************************************)
EXTENDS Integers, Sequences

CONSTANT NodeRole   \* the role in the registered node identity

ASSUME NodeRoleAssumption == NodeRole \in {"VALIDATOR", "OBSERVER", "INSTANT"}

-----------------------------------------------------------------------------
(* report.jsonl.                                                           *)

Terminal == {"STOPPED", "UNKNOWN", "FAILED"}

\* Row i has status s and follows a row with status before.
Follows(i, before, s) ==
    \/ i = 1 /\ s = "CHECKING"
    \/ i > 1 /\ before \notin Terminal /\
        \/ <<before, s>> \in {<<"CHECKING", "STARTING">>, <<"STARTING", "RUNNING">>,
                              <<"RUNNING", "STOPPING">>, <<"STOPPING", "STOPPED">>,
                              <<"RUNNING", "UNKNOWN">>, <<"STOPPING", "UNKNOWN">>}
        \/ s = "FAILED"

MaxRows == 6

\* validate_report: the status of the last row, if all rows are in order.
ReportStatus(lines, pid) ==
    IF /\ Len(lines) \in 1 .. MaxRows
       /\ \A i \in 1 .. Len(lines) :
            /\ lines[i].pid = pid
            /\ Follows(i, IF i = 1 THEN "" ELSE lines[i - 1].status, lines[i].status)
      THEN lines[Len(lines)].status
      ELSE "INVALID"

-----------------------------------------------------------------------------
(* The health document; "null" where the field may be null.                *)

Flag == {"null", "true", "false"}
Executions == {"null", "FAILED", "OVERDUE", "IDLE", "ACTIVE"}
Healths == [running : BOOLEAN, lifecycle : BOOLEAN, initialized : Flag, attached : Flag,
            engineRunning : Flag, role : {"null", "VALIDATOR", "OBSERVER"},
            failure : BOOLEAN, execution : Executions]
Readinesses == [status : {"READY", "NOT_READY", "UNKNOWN", "FAILED"},
                role : {"VALIDATOR", "OBSERVER", "INSTANT", "UNKNOWN"},
                mode : {"AUTO_START", "MANUAL_START"}, completed : BOOLEAN,
                sync : {"UNKNOWN", "SYNCING", "FOLLOWING", "FAILED"}]

\* validate_health: running must be what the other fields make of it.
ProjectedRunning(h) ==
    /\ h.lifecycle
    /\ h.initialized # "null" =>
        /\ h.initialized = "true"
        /\ ~h.failure
        /\ IF h.engineRunning = "null" THEN h.role = "OBSERVER" ELSE h.engineRunning = "true"

ValidHealth(h) ==
    /\ IF h.initialized = "null"
         THEN /\ h.role = "null" /\ h.attached = "null" /\ h.engineRunning = "null"
              /\ ~h.failure /\ h.execution = "null"
         ELSE /\ h.attached # "null"
              /\ (h.attached = "true") = (h.engineRunning # "null")
              /\ h.attached = "false" => ~h.failure
    /\ h.running = ProjectedRunning(h)

\* validate_readiness: the engine's own priority rules, in their order.
ExpectedStatus(h, r) ==
    IF h.failure \/ h.execution = "FAILED" \/ r.sync = "FAILED" THEN "FAILED"
    ELSE IF h.execution = "OVERDUE" \/ ~r.completed THEN "NOT_READY"
    ELSE IF r.role = "UNKNOWN" \/ (r.role # "INSTANT" /\ h.initialized # "true") THEN "UNKNOWN"
    ELSE IF r.sync = "SYNCING" THEN "NOT_READY"
    ELSE IF r.role = "OBSERVER" \/ r.mode = "MANUAL_START" THEN "READY"
    ELSE IF (r.role = "VALIDATOR" /\ h.attached # "true") \/ ~h.running THEN "NOT_READY"
    ELSE IF r.role = "VALIDATOR" /\ h.execution \in {"null", "IDLE"} THEN "UNKNOWN"
    ELSE "READY"

Follower(h, r) ==
    \/ r.role = "OBSERVER"
    \/ r.role = "VALIDATOR" /\ r.mode = "MANUAL_START" /\ h.engineRunning # "true"

ValidReadiness(h, r) ==
    /\ r.role = IF h.role # "null" THEN h.role
                ELSE IF r.role = "INSTANT" THEN "INSTANT" ELSE "UNKNOWN"
    /\ r.role = "INSTANT" => h.initialized = "null"
    /\ r.sync # "UNKNOWN" => Follower(h, r)
    /\ r.status = ExpectedStatus(h, r)

\* validate_health_role.
RoleFits(r) == r.role = NodeRole

\* What an operator takes READY to mean.
Serving(h, r) ==
    /\ ~h.failure /\ h.execution \notin {"FAILED", "OVERDUE"}
    /\ r.sync \in {"UNKNOWN", "FOLLOWING"} /\ r.completed
    /\ NodeRole # "INSTANT" => h.initialized = "true"
    /\ NodeRole # "OBSERVER" /\ r.mode = "AUTO_START" =>
        /\ h.lifecycle /\ h.running
        /\ NodeRole = "VALIDATOR" => h.engineRunning = "true" /\ h.execution = "ACTIVE"

\* NOT_READY, UNKNOWN or no readiness at all: whoever waits goes on waiting.
Waiting(status) == IF status \in {"READY", "FAILED"} THEN status ELSE "OPEN"

\* The readiness a document is accepted with, and whether it truly is READY.
Verdicts ==
    {[ready |-> "OPEN", sound |-> FALSE]} \cup
    UNION {{[ready |-> Waiting(r.status), sound |-> r.status = "READY" /\ Serving(h, r)] :
            r \in {q \in Readinesses : ValidReadiness(h, q) /\ RoleFits(q)}} :
        h \in {g \in Healths : ValidHealth(g)}}
=============================================================================
