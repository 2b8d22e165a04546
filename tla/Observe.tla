------------------------------- MODULE Observe -------------------------------
(***************************************************************************)
(* A service and those who look at it or hand commands to it: one observer *)
(* at a time, status or a wait, the collector of evidence or a manager     *)
(* that delegates, beside the commands, workers and engines of module      *)
(* Service and the other programs of module Node.                          *)
(***************************************************************************)
EXTENDS Status, Diagnosis, Executor

ObserveInit == NodeInit /\ StatusInit /\ DiagnosisInit /\ ExecutorInit

\* Bound: nobody else looks while one does.
NoStatus == obs = Off /\ answer = NoSummary
NoDiagnosis == diag = Resting
NoExecutor == exe = Unused

\* Bound: what follows the second look is between the collector and its output file,
\* and what follows the end of a child between the manager, its child and its caller:
\* no step of the service can be told from one before or after it.
Aside == \/ diag.at \notin {"off", "journal", "events", "recheck", "second"}
         \/ exe.child = "ended" \/ exe.at = "answered"

\* Whoever looks is on the same machine; what was said is known.
AllEnd == obs' = Off /\ diag' = Resting /\ exe' = Unused /\ UNCHANGED answer

ObserveNext ==
    \/ ServiceStep /\ ~Aside /\ ChildFollows /\ UNCHANGED <<watch, diag>>
    \/ MachineStep /\ ~Aside /\ AllEnd
    \/ OutsideStep /\ ~Aside /\ UNCHANGED <<watch, diag, exe>>
    \/ StatusStep /\ NoDiagnosis /\ NoExecutor /\ UNCHANGED <<diag, exe>>
    \/ DiagnosisStep /\ NoStatus /\ NoExecutor /\ UNCHANGED <<watch, exe>>
    \/ ExecutorStep /\ NoStatus /\ NoDiagnosis /\ UNCHANGED <<watch, diag>>

ObserveSpec == ObserveInit /\ [][ObserveNext]_<<vars, node, watch, diag, exe>>
=============================================================================
