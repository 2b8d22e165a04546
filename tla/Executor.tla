------------------------------ MODULE Executor -------------------------------
(***************************************************************************)
(* Delegation: the manager bxdl hands a command for an instance of one     *)
(* known package to that package's own bxdl                                *)
(* (src/engine/instance/executor.rs, executor/process.rs and reply.rs,     *)
(* called from src/cli.rs and src/setup/runtime.rs).                       *)
(*                                                                         *)
(* The child is one of the commands of module Service; it is given the     *)
(* instance as a path.  The parent checks everything, starts it, watches   *)
(* it for a limited time and reads one reply.  It never kills the child:   *)
(* when it gives up, the child goes on.  Somebody may meanwhile put        *)
(* another instance's directory in the place of this one, and back; that   *)
(* one may carry the same instanceId, which is a label of its user's.      *)
(***************************************************************************)
EXTENDS Node

VARIABLE exe   \* the parent

\* "status" stands for the other requests that only look and name the instance.
Requests == {"init", "start", "stop", "status", "diagnose"}
mutating(request) == request # "status"
named(request) == request # "diagnose"

\* child: "none", "spawned", "acting" here, "ended", "left" alone.  reply is its
\* outcome.  Two are history: place is the directory it has run on, this one, a "twin"
\* of the same instanceId or an "other" one, and done that it did there what it was asked.
Unused == [at |-> "off", request |-> "status", cmd |-> None, child |-> "none", away |-> FALSE,
           reply |-> "none", place |-> "here", done |-> FALSE, answer |-> "none"]

ExecutorInit == exe = Unused

\* Another directory is in the place of the instance's.
Moved == exe.away

-----------------------------------------------------------------------------
(* The parent.                                                             *)

\* A child that has not ended goes on, and nobody watches it any more.  An answer is
\* remembered as long as it commits bxdl to something.
Say(a) ==
    exe' = IF a \notin {"refused", "SUCCEEDED"} THEN Unused
           ELSE [Unused EXCEPT !.at = "answered", !.answer = a, !.request = exe.request,
                               !.place = exe.place, !.done = exe.done,
                               !.child = IF exe.child = "none" THEN "none" ELSE "left"]

Delegate(request) ==
    /\ exe = Unused
    /\ exe' = [exe EXCEPT !.at = "check", !.request = request]

\* try_execute up to before_dispatch: another package is not delegated and the
\* command runs here, by itself; a package that is not quite the known one, or
\* an instance that is not the one resolved, is refused.
ExecutorCheck ==
    /\ exe.at = "check"
    /\ \/ exe' = Unused
       \/ Say("refused")
       \/ exe' = [exe EXCEPT !.at = "dispatch"]

\* The one error that proves that nothing was started is the failed spawn.
dispatched_error(request, code) ==
    IF mutating(request) /\ code # "EXECUTOR_SPAWN_FAILED" THEN "unknown" ELSE "refused"

\* process::run.
Spawn ==
    /\ exe.at = "dispatch"
    /\ \/ Say(dispatched_error(exe.request, "EXECUTOR_SPAWN_FAILED"))
       \/ Say(dispatched_error(exe.request, "ENGINE_INPUT_CHANGED"))
       \/ \E c \in Commands :
            /\ pc[c] = "idle"
            /\ exe' = [exe EXCEPT !.at = "watch", !.cmd = c, !.child = "spawned"]

\* The time is up, there is too much output or the child cannot be waited for:
\* it is abandoned, and goes on.
Abandon ==
    /\ exe.at = "watch"
    /\ Say(dispatched_error(exe.request, "EXECUTOR_TIMEOUT"))

\* Mutant: the instance that the data name is not compared.
AcceptableAnyone(request, reply, place) == TRUE

\* parse: the pairs of exit code and outcome.  Only a failure or an unknown result may
\* come without data; the data of all but the diagnoses carry the instanceId, which is
\* all that is compared.
Acceptable(request, reply, place) ==
    named(request) /\ place = "other" => reply \in {"FAILED", "UNKNOWN"}

\* After the child the directory, the binding and the executor must be the
\* ones from before it, and its reply well-formed.
Reap ==
    /\ exe.at = "watch" /\ exe.child = "ended"
    /\ \/ Say(dispatched_error(exe.request, "EXECUTOR_RESPONSE_INVALID"))
       \/ ~Moved /\ Acceptable(exe.request, exe.reply, exe.place) /\ Say(exe.reply)

\* The parent is gone.
ExecutorEnd ==
    /\ exe.at = "answered"
    /\ exe' = Unused

\* Bound: between the last check and the start of the child, and after its own look at
\* the path and before its end, it is as if before or after.
Move ==
    /\ exe.at = "watch" /\ exe.child # "acting"
    /\ exe' = [exe EXCEPT !.away = ~@]

-----------------------------------------------------------------------------
(* The child.                                                              *)

Replies == {"SUCCEEDED", "INCOMPLETE", "FAILED", "UNKNOWN"}

Ends(reply, place, done) ==
    exe' = [exe EXCEPT !.child = "ended", !.reply = reply, !.place = place, !.done = done]

\* It finds the other directory under the path, and does its work there.
ChildAway ==
    /\ exe.child = "spawned" /\ Moved
    /\ \E reply \in Replies, place \in {"twin", "other"} :
          Ends(reply, place, reply = "SUCCEEDED")

\* It ends and has changed nothing here: the instance is initialized, the lock is
\* taken, there is nothing to stop, or it was only to look or to write a diagnosis.
ChildIdle ==
    /\ exe.child = "spawned" /\ ~Moved
    /\ \/ exe.request = "init" /\ Ends("FAILED", "here", FALSE)
       \/ exe.request = "start" /\ holders # {} /\ Ends("FAILED", "here", FALSE)
       \/ exe.request = "stop" /\ runtime.attempt = None /\ Ends("INCOMPLETE", "here", FALSE)
       \/ /\ exe.request \in {"status", "diagnose"}
          /\ \E reply \in Replies : Ends(reply, "here", reply \in {"SUCCEEDED", "INCOMPLETE"})

\* Where a command begins, and the place from which it ends well.
Opening == [start |-> "start", stop |-> "request", status |-> "probe"]
Closing == [start |-> "bootstrap", stop |-> "remove", status |-> "probe"]

\* A step of the service that is a step of the child.
ChildBegins ==
    /\ exe.child = "spawned" /\ ~Moved /\ exe.request \in DOMAIN Opening
    /\ pc'[exe.cmd] = Opening[exe.request]
    /\ exe' = [exe EXCEPT !.child = "acting"]

\* It has done it: of start, the job is loaded.
Completes ==
    /\ pc[exe.cmd] = Closing[exe.request]
    /\ exe.request = "start" => loaded' # loaded

\* start ends in its wait for readiness, which may come out any way.
ChildEnds ==
    /\ exe.child = "acting"
    /\ pc'[exe.cmd] = "idle"
    /\ \/ /\ Completes
          /\ \E reply \in Replies :
                /\ exe.request = "stop" => reply = "SUCCEEDED"
                /\ Ends(reply, "here", TRUE)
       \/ /\ ~Completes
          /\ \E reply \in {"FAILED", "UNKNOWN"} : Ends(reply, "here", FALSE)

\* A child that was started is no command of anybody else's.
ChildFollows ==
    \/ ChildBegins \/ ChildEnds
    \/ /\ \/ exe.child \in {"none", "ended", "left"}
          \/ exe.child = "spawned" /\ pc'[exe.cmd] = "idle"
          \/ exe.child = "acting" /\ pc'[exe.cmd] # "idle"
       /\ UNCHANGED exe

ExecutorStep ==
    /\ \/ \E request \in Requests : Delegate(request)
       \/ ExecutorCheck \/ Spawn \/ Abandon \/ Reap \/ ExecutorEnd \/ Move
       \/ ChildAway \/ ChildIdle
    /\ UNCHANGED <<vars, node>>

-----------------------------------------------------------------------------
(* Safety.                                                                 *)

\* The parent refuses a command that changes something only when no child was
\* started that might do it yet, and passes a success on only when the child has done
\* it on the instance that was chosen.  Two swaps escape it: a twin that stood at the
\* path when the child looked, and any directory under a diagnosis.
NoSilentEffect ==
    /\ exe.answer = "refused" /\ mutating(exe.request) => exe.child = "none"
    /\ exe.answer = "SUCCEEDED" =>
          exe.done /\ (exe.place = "other" => ~named(exe.request))
=============================================================================
