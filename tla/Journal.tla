------------------------------ MODULE Journal ------------------------------
(***************************************************************************)
(* What src/setup/store.rs promises its callers, with no directory, no     *)
(* temporary files and no writers: one history of checkpoints that grows   *)
(* at its end, each checkpoint made from the one before it.  The instance, *)
(* service, setup and preparation records of bxdl are all such histories.  *)
(*                                                                         *)
(*   log      the published checkpoints, oldest first                      *)
(*   durable  how many of them no power loss can take back                 *)
(*   acked    the checkpoints whose save returned Ok                       *)
(***************************************************************************)
EXTENDS Integers, Sequences

CONSTANTS Ids,      \* the checkpoints' contents
          None      \* the predecessor of the first checkpoint

VARIABLES log, durable, acked

Last == IF log = <<>> THEN None ELSE log[Len(log)].id

Init ==
    /\ log = <<>>
    /\ durable = 0
    /\ acked = {}

\* A new checkpoint is appended only by a writer that saw the last one.
Publish(id) ==
    /\ \A i \in DOMAIN log : log[i].id # id
    /\ log' = Append(log, [id |-> id, base |-> Last])
    /\ UNCHANGED <<durable, acked>>

Harden ==
    /\ durable' = Len(log)
    /\ UNCHANGED <<log, acked>>

\* Ok is returned only for a checkpoint that is already durable.
Acknowledge(e) ==
    /\ acked' = acked \cup {e}
    /\ UNCHANGED <<log, durable>>

\* A power loss truncates the history, never below the durable part.
Truncate(n) ==
    /\ log' = SubSeq(log, 1, n)
    /\ durable' = n
    /\ UNCHANGED acked

Next ==
    \/ Harden
    \/ \E id \in Ids : Publish(id)
    \/ \E i \in 1 .. durable : Acknowledge(log[i])
    \/ \E n \in durable .. Len(log) : Truncate(n)

Spec == Init /\ [][Next]_<<log, durable, acked>>
=============================================================================
