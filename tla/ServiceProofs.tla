---------------------------- MODULE ServiceProofs ----------------------------
(***************************************************************************)
(* Proofs about Service, for every set of commands and attempts, every     *)
(* number of stages and every bound, with faults and without.              *)
(*                                                                         *)
(* The operation lock is what keeps commands and workers apart, so IInv    *)
(* says who holds it where, and what its holder may rely on: a worker past *)
(* the gate that every checkpoint names it and that it was never the       *)
(* engine before, a command on its way to a new attempt that the one       *)
(* before is resolved.  Of each checkpoint it says how many revisions are  *)
(* left for what may follow it.                                            *)
(***************************************************************************)
EXTENDS Service, TLAPS

RuntimePhases == {"None", "Empty", "StartPrepared", "GateConsumed", "GateRefused",
                  "StoppedVerified"}
Runtimes == [rev : Nat, attempt : Attempts \cup {None}, phase : RuntimePhases, pid : Nat,
             stage : Nat]
Statuses == {"none", "CHECKING", "STARTING", "RUNNING", "STOPPING", "STOPPED", "FAILED",
             "UNKNOWN"}
Starting == {"prepare", "inputs", "files", "job", "create", "save"}
Locking == {"probe", "start", "verify", "bootout", "remove"} \cup Starting
AtStop == {"request", "observe", "inspect", "signal", "kill", "settle", "confirm", "verify",
             "bootout", "remove"}
Places == {"idle", "bootstrap"} \cup Locking \cup AtStop
Gated == {"stages", "go", "exec"}
Through == {"refuse", "engine"} \cup Gated
WorkerPlaces == {"none", "entered", "locked"} \cup Through

Types ==
    /\ runtime \in survives /\ survives \subseteq Runtimes
    /\ holders \subseteq Commands \cup Attempts
    /\ pc \in [Commands -> Places] /\ mine \in [Commands -> used \cup {None}]
    /\ seen \in [Commands -> Nat] /\ sent \in [Commands -> BOOLEAN]
    /\ used \subseteq Attempts
    /\ entries \in [Attempts -> Nat] /\ worker \in [Attempts -> WorkerPlaces]
    /\ view \in [Attempts -> Runtimes]
    /\ report \in [Attempts -> Statuses] /\ execs \in [Attempts -> Nat]

OneHolder == \A p, q \in holders : p = q

\* Only an attempt that has a directory became an engine.
NeverRan == \A a \in Attempts \ used : execs[a] = 0

\* A checkpoint: it names an attempt unless it is the first, and leaves room for what
\* may have to be recorded after it.
Recorded(s) ==
    /\ s.attempt \in used \cup {None} /\ s.rev <= runtime.rev
    /\ s.phase \in {"None", "Empty"} <=> s.attempt = None
    /\ s.phase = "StartPrepared" =>
         execs[s.attempt] = 0 /\ s.rev + GateRevisions <= MaxRevisions
    /\ s.phase = "GateConsumed" => s.rev + 2 <= MaxRevisions
    /\ s.phase = "GateRefused" => s.rev + 1 <= MaxRevisions
    /\ s.phase = "StoppedVerified" => report[s.attempt] = "STOPPED"

\* A checkpoint names the process of attempt a as admitted.
Names(s, a) == s.attempt = a /\ s.pid = entries[a] /\ s.phase = "GateConsumed"

\* The process of a job.
Held(a) == worker[a] \notin {"none", "entered"} => a \in holders
Loaded(a) == worker[a] # "none" => a \in loaded
Admitted(a) == worker[a] \in Through => \A s \in survives : Names(s, a)
\* Before it is the engine it has the last checkpoint, and revisions for all that follows.
Ahead(a) == worker[a] \in Gated =>
    /\ view[a] = runtime /\ execs[a] = 0
    /\ view[a].stage <= Stages /\ view[a].rev + (Stages - view[a].stage) + 2 <= MaxRevisions
    /\ worker[a] = "stages" => view[a].stage <= Stages - 1
    /\ worker[a] = "go" => view[a].stage = Stages - 1
Refusing(a) == worker[a] = "refuse" => Names(view[a], a) /\ view[a].rev + 2 <= MaxRevisions
WorkerInv(a) == Held(a) /\ Loaded(a) /\ Admitted(a) /\ Ahead(a) /\ Refusing(a) /\ execs[a] <= 1

\* A command.
Holds(c) == pc[c] \in Locking => c \in holders
Resolved(c) == pc[c] \in Starting => runtime.phase \in {"None", "Empty", "StoppedVerified"}
Chosen(c) ==
    /\ pc[c] \in {"job", "create", "save"} => mine[c] \in used /\ execs[mine[c]] = 0
    /\ pc[c] = "bootstrap" \/ pc[c] \in AtStop => mine[c] \in used
CommandInv(c) == Holds(c) /\ Resolved(c) /\ Chosen(c)

IInv ==
    /\ Types /\ OneHolder /\ NeverRan
    /\ \A s \in survives : Recorded(s)
    /\ \A a \in Attempts : WorkerInv(a)
    /\ \A c \in Commands : CommandInv(c)

-----------------------------------------------------------------------------
(* What a step leaves alone.                                               *)

LEMMA CommandFrame ==
    ASSUME NEW d \in Commands, CommandInv(d), pc'[d] = pc[d], mine'[d] = mine[d],
           used \subseteq used',
           d \in holders => d \in holders' /\ runtime'.phase = runtime.phase /\ execs' = execs
    PROVE  CommandInv(d)'
<1>1. Holds(d)' /\ Resolved(d)'
  BY DEF CommandInv, Holds, Resolved, Starting, Locking
<1>2. Chosen(d)'
  BY DEF CommandInv, Holds, Chosen, Starting, Locking
<1> QED
  BY <1>1, <1>2 DEF CommandInv

LEMMA WorkerFrame ==
    ASSUME NEW b \in Attempts, WorkerInv(b), worker'[b] = worker[b], view'[b] = view[b],
           entries'[b] = entries[b], execs'[b] = execs[b], b \in loaded => b \in loaded',
           b \in holders => b \in holders' /\ UNCHANGED journal
    PROVE  WorkerInv(b)'
<1>1. Held(b)' /\ Loaded(b)' /\ execs'[b] <= 1
  BY DEF WorkerInv, Held, Loaded
<1>2. worker[b] \in Through => b \in holders /\ UNCHANGED journal
  BY DEF WorkerInv, Held, Through, Gated
<1>3. Admitted(b)' /\ Ahead(b)' /\ Refusing(b)'
  BY <1>2 DEF WorkerInv, Admitted, Ahead, Refusing, Names, Through, journal
<1> QED
  BY <1>1, <1>3 DEF WorkerInv

LEMMA RecordFrame ==
    ASSUME NEW s, Recorded(s), used \subseteq used', s.rev <= runtime'.rev,
           s.phase = "StartPrepared" => execs'[s.attempt] = execs[s.attempt],
           s.phase = "StoppedVerified" => report'[s.attempt] = report[s.attempt]
    PROVE  Recorded(s)'
BY DEF Recorded

\* Who has the lock is alone.
LEMMA CommandAlone ==
    ASSUME IInv, NEW c \in Commands, c \in holders
    PROVE  /\ \A a \in Attempts : a \notin holders /\ worker[a] \in {"none", "entered"}
           /\ \A d \in Commands \ {c} : d \notin holders
<1>1. \A a \in Attempts : a # c
  BY ServiceAssumption
<1> QED
  BY <1>1 DEF IInv, OneHolder, WorkerInv, Held

LEMMA WorkerAlone ==
    ASSUME IInv, NEW a \in Attempts, a \in holders
    PROVE  /\ \A b \in Attempts \ {a} : b \notin holders /\ worker[b] \in {"none", "entered"}
           /\ \A d \in Commands : d \notin holders
<1>1. \A d \in Commands : a # d
  BY ServiceAssumption
<1> QED
  BY <1>1 DEF IInv, OneHolder, WorkerInv, Held

\* How a command changes hands on the lock: not at all, by release, or by taking it.
Hands(p) == \/ holders' = holders \/ holders' = holders \ {p}
            \/ holders = {} /\ holders' = {p}

LEMMA HandsKeep ==
    ASSUME IInv, NEW p \in Commands \cup Attempts, Hands(p)
    PROVE  /\ OneHolder' /\ holders' \subseteq Commands \cup Attempts
           /\ \A q \in (Commands \cup Attempts) \ {p} : q \in holders => q \in holders'
BY DEF Hands, IInv, OneHolder, Types

LEMMA GotoIs ==
    ASSUME IInv, NEW c \in Commands, NEW from, NEW to \in Places, Goto(c, from, to)
    PROVE  /\ pc' \in [Commands -> Places] /\ pc[c] = from /\ pc'[c] = to
           /\ \A d \in Commands \ {c} : pc'[d] = pc[d]
BY DEF Goto, IInv, Types

LEMMA ReturnIs ==
    ASSUME IInv, NEW c \in Commands, Return(c), used \subseteq used'
    PROVE  /\ pc' \in [Commands -> Places] /\ mine' \in [Commands -> used' \cup {None}]
           /\ seen' \in [Commands -> Nat] /\ sent' \in [Commands -> BOOLEAN]
           /\ \A d \in Commands \ {c} : pc'[d] = pc[d] /\ mine'[d] = mine[d]
           /\ pc'[c] = "idle" /\ CommandInv(c)'
<1>1. /\ pc \in [Commands -> Places] /\ "idle" \in Places
      /\ mine \in [Commands -> used \cup {None}]
      /\ seen \in [Commands -> Nat] /\ sent \in [Commands -> BOOLEAN]
  BY DEF IInv, Types, Places
<1>2. mine \in [Commands -> used' \cup {None}]
  BY <1>1
<1>3. /\ pc' \in [Commands -> Places] /\ mine' \in [Commands -> used' \cup {None}]
      /\ seen' \in [Commands -> Nat] /\ sent' \in [Commands -> BOOLEAN]
  BY <1>1, <1>2 DEF Return
<1>4. pc'[c] = "idle" /\ \A d \in Commands \ {c} : pc'[d] = pc[d] /\ mine'[d] = mine[d]
  BY <1>1 DEF Return
<1>5. CommandInv(c)'
  <2>1. "idle" \notin Locking \cup Starting \cup AtStop
    BY DEF Locking, Starting, AtStop
  <2> QED
    BY <1>4, <2>1 DEF CommandInv, Holds, Resolved, Chosen
<1> QED
  BY <1>3, <1>4, <1>5

\* A step of one command that changes neither the journal nor a job.
LEMMA CommandGoes ==
    ASSUME IInv, NEW c \in Commands, Hands(c), UNCHANGED <<journal, jobs, report, execs>>,
           used \subseteq used', used' \subseteq Attempts,
           pc' \in [Commands -> Places], mine' \in [Commands -> used' \cup {None}],
           seen' \in [Commands -> Nat], sent' \in [Commands -> BOOLEAN],
           \A d \in Commands \ {c} : pc'[d] = pc[d] /\ mine'[d] = mine[d],
           CommandInv(c)'
    PROVE  IInv'
<1>1. /\ OneHolder' /\ holders' \subseteq Commands \cup Attempts
      /\ \A q \in (Commands \cup Attempts) \ {c} : q \in holders => q \in holders'
  BY HandsKeep
<1>2. Types'
  BY <1>1 DEF IInv, Types, journal, jobs
<1>3. NeverRan'
  BY DEF IInv, NeverRan
<1>4. \A s \in survives' : Recorded(s)'
  BY RecordFrame DEF IInv, Recorded, journal
<1>5. \A a \in Attempts : WorkerInv(a)'
  <2>1. \A a \in Attempts : a # c
    BY ServiceAssumption
  <2> QED
    BY <1>1, <2>1, WorkerFrame DEF IInv, jobs
<1>6. \A d \in Commands : CommandInv(d)'
  BY <1>1, CommandFrame DEF IInv, journal
<1> QED
  BY <1>1, <1>2, <1>3, <1>4, <1>5, <1>6 DEF IInv

LEMMA CommandReturns ==
    ASSUME IInv, NEW c \in Commands, Return(c), Hands(c),
           UNCHANGED <<journal, jobs, report, execs>>,
           used \subseteq used', used' \subseteq Attempts
    PROVE  IInv'
BY ReturnIs, CommandGoes

\* Nothing is claimed of most places of a stop but the attempt it is about.
LEMMA StopGoes ==
    ASSUME IInv, NEW c \in Commands, NEW from, NEW to \in AtStop \ Locking, Goto(c, from, to),
           mine[c] \in used, UNCHANGED <<journal, holders, mine, used, jobs, report, execs>>,
           seen' \in [Commands -> Nat], sent' \in [Commands -> BOOLEAN]
    PROVE  IInv'
<1>1. to \in Places
  BY DEF Places
<1>2. /\ pc' \in [Commands -> Places] /\ pc'[c] = to
      /\ \A d \in Commands \ {c} : pc'[d] = pc[d]
  BY <1>1, GotoIs
<1>3. CommandInv(c)'
  <2>1. to \notin Starting /\ to \notin {"job", "create", "save"}
    BY DEF Locking, Starting
  <2> QED
    BY <1>2, <2>1 DEF CommandInv, Holds, Resolved, Chosen
<1>4. used \subseteq Attempts /\ mine \in [Commands -> used \cup {None}]
  BY DEF IInv, Types
<1> QED
  BY <1>2, <1>3, <1>4, CommandGoes DEF Hands

-----------------------------------------------------------------------------
(* Probes, and start.                                                      *)

LEMMA LockHands ==
    ASSUME NEW p, Lock(p)
    PROVE  Hands(p) /\ p \in holders'
BY DEF Lock, Hands

LEMMA ReleaseIs ==
    ASSUME NEW c \in Commands, Release(c)
    PROVE  Return(c) /\ Hands(c)
BY DEF Release, Hands

LEMMA BeginsKeep ==
    ASSUME IInv, NEW c \in Commands, Probe(c) \/ StartLock(c)
    PROVE  IInv'
<1>1. PICK to \in {"probe", "start"} : Goto(c, "idle", to)
  BY DEF Probe, StartLock
<1>2. Lock(c) /\ UNCHANGED <<journal, mine, seen, sent, used, jobs, report, execs>>
  BY DEF Probe, StartLock, engine
<1>3. to \in Places /\ to \notin Starting \cup AtStop \cup {"bootstrap", "job", "create", "save"}
  BY DEF Places, Locking, Starting, AtStop
<1>4. /\ pc' \in [Commands -> Places] /\ pc'[c] = to
      /\ \A d \in Commands \ {c} : pc'[d] = pc[d]
  BY <1>1, <1>3, GotoIs
<1>5. CommandInv(c)'
  BY <1>2, <1>3, <1>4, LockHands DEF CommandInv, Holds, Resolved, Chosen
<1>6. /\ used \subseteq Attempts /\ mine \in [Commands -> used \cup {None}]
      /\ seen \in [Commands -> Nat] /\ sent \in [Commands -> BOOLEAN]
  BY DEF IInv, Types
<1> QED
  BY <1>2, <1>4, <1>5, <1>6, LockHands, CommandGoes

\* Any return that changes neither the journal nor a job.
LEMMA ReturnsKeep ==
    ASSUME IInv, NEW c \in Commands, Release(c) \/ (Return(c) /\ UNCHANGED holders),
           UNCHANGED <<journal, used, jobs, report, execs>>
    PROVE  IInv'
<1>1. Return(c) /\ Hands(c)
  BY ReleaseIs DEF Hands
<1>2. used \subseteq Attempts
  BY DEF IInv, Types
<1> QED
  BY <1>1, <1>2, CommandReturns

LEMMA ProbeEndKeeps ==
    ASSUME IInv, NEW c \in Commands, ProbeEnd(c)
    PROVE  IInv'
BY ReturnsKeep DEF ProbeEnd, engine

LEMMA QuitKeeps ==
    ASSUME IInv, NEW c \in Commands, Quit(c)
    PROVE  IInv'
BY ReturnsKeep DEF Quit, engine

LEMMA StartRefusedKeeps ==
    ASSUME IInv, NEW c \in Commands, StartRefused(c)
    PROVE  IInv'
BY ReturnsKeep DEF StartRefused, engine

\* A start goes on under the lock, for the same reason as before.
LEMMA StartGoes ==
    ASSUME IInv, NEW c \in Commands, NEW from \in Starting \cup {"start"}, NEW to \in Starting,
           Goto(c, from, to), UNCHANGED <<journal, holders, seen, sent, jobs, report, execs>>,
           from = "start" => runtime.phase \in {"None", "StoppedVerified"},
           used \subseteq used', used' \subseteq Attempts,
           mine' \in [Commands -> used' \cup {None}],
           \A d \in Commands \ {c} : mine'[d] = mine[d],
           to \in {"job", "create", "save"} => mine'[c] \in used' /\ execs[mine'[c]] = 0
    PROVE  IInv'
<1>1. from \in Locking /\ to \in Locking /\ to \in Places /\ to \notin AtStop \cup {"bootstrap"}
  BY DEF Places, Locking, Starting, AtStop
<1>2. /\ pc' \in [Commands -> Places] /\ pc[c] = from /\ pc'[c] = to
      /\ \A d \in Commands \ {c} : pc'[d] = pc[d]
  BY <1>1, GotoIs
<1>3. c \in holders /\ runtime.phase \in {"None", "Empty", "StoppedVerified"}
  BY <1>1, <1>2 DEF IInv, CommandInv, Holds, Resolved
<1>4. CommandInv(c)'
  BY <1>1, <1>2, <1>3 DEF CommandInv, Holds, Resolved, Chosen, journal
<1>5. seen \in [Commands -> Nat] /\ sent \in [Commands -> BOOLEAN]
  BY DEF IInv, Types
<1> QED
  BY <1>2, <1>4, <1>5, CommandGoes DEF Hands

LEMMA StartCheckKeeps ==
    ASSUME IInv, NEW c \in Commands, StartCheck(c)
    PROVE  IInv'
<1>1. /\ "prepare" \in Starting /\ "start" \in Starting \cup {"start"}
      /\ "prepare" \notin {"job", "create", "save"}
  BY DEF Starting
<1>2. used \subseteq Attempts /\ mine \in [Commands -> used \cup {None}]
  BY DEF IInv, Types
<1>3. /\ Goto(c, "start", "prepare") /\ runtime.phase \in {"None", "StoppedVerified"}
      /\ UNCHANGED <<journal, holders, mine, seen, sent, used, jobs, report, execs>>
  BY DEF StartCheck, Startable, engine
<1> QED
  BY <1>1, <1>2, <1>3, StartGoes

LEMMA StartInputsKeeps ==
    ASSUME IInv, NEW c \in Commands, StartInputs(c)
    PROVE  IInv'
<1>1. UNCHANGED <<journal, used, jobs, report, execs>>
  BY DEF StartInputs, engine
<1>2. CASE Goto(c, "inputs", "files") /\ UNCHANGED <<holders, mine, seen, sent>>
  <2>1. /\ "files" \in Starting /\ "inputs" \in Starting \cup {"start"} /\ "inputs" # "start"
        /\ "files" \notin {"job", "create", "save"}
    BY DEF Starting
  <2>2. used \subseteq Attempts /\ mine \in [Commands -> used \cup {None}]
    BY DEF IInv, Types
  <2> QED
    BY <1>1, <1>2, <2>1, <2>2, StartGoes
<1>3. CASE Release(c)
  BY <1>1, <1>3, ReturnsKeep
<1> QED
  BY <1>2, <1>3 DEF StartInputs

LEMMA StartFilesKeeps ==
    ASSUME IInv, NEW c \in Commands, StartFiles(c)
    PROVE  IInv'
<1>1. PICK a \in Attempts \ used :
        /\ used' = used \cup {a}
        /\ \/ /\ Goto(c, "files", "job") /\ mine' = [mine EXCEPT ![c] = a]
              /\ UNCHANGED <<holders, seen, sent>>
           \/ Release(c)
  BY DEF StartFiles
<1>2. UNCHANGED <<journal, jobs, report, execs>>
  BY DEF StartFiles, engine
<1>3. used \subseteq used' /\ used' \subseteq Attempts /\ mine \in [Commands -> used \cup {None}]
  BY <1>1 DEF IInv, Types
<1>4. CASE /\ Goto(c, "files", "job") /\ mine' = [mine EXCEPT ![c] = a]
           /\ UNCHANGED <<holders, seen, sent>>
  <2>1. "job" \in Starting /\ "files" \in Starting \cup {"start"} /\ "files" # "start"
    BY DEF Starting
  <2>2. mine \in [Commands -> used' \cup {None}] /\ a \in used'
    BY <1>1, <1>3
  <2>3. /\ mine' \in [Commands -> used' \cup {None}] /\ mine'[c] = a
        /\ \A d \in Commands \ {c} : mine'[d] = mine[d]
    BY <1>4, <2>2
  <2>4. execs[a] = 0
    BY DEF IInv, NeverRan
  <2> QED
    BY <1>2, <1>3, <1>4, <2>1, <2>2, <2>3, <2>4, StartGoes
<1>5. CASE Release(c)
  BY <1>2, <1>3, <1>5, ReleaseIs, CommandReturns
<1> QED
  BY <1>1, <1>4, <1>5

LEMMA StartJobKeeps ==
    ASSUME IInv, NEW c \in Commands, StartJob(c)
    PROVE  IInv'
<1>1. UNCHANGED <<journal, used, jobs, report, execs>> /\ pc[c] = "job"
  BY DEF StartJob, engine
<1>2. CASE /\ Goto(c, "job", IF runtime.phase = "None" THEN "create" ELSE "save")
           /\ UNCHANGED <<holders, mine, seen, sent>>
  <2>1. PICK to \in {"create", "save"} : Goto(c, "job", to)
    BY <1>2
  <2>2. to \in Starting /\ "job" \in Starting \cup {"start"} /\ "job" # "start"
    BY DEF Starting
  <2>3. used \subseteq Attempts /\ mine \in [Commands -> used \cup {None}]
    BY DEF IInv, Types
  <2>4. mine[c] \in used /\ execs[mine[c]] = 0
    BY <1>1 DEF IInv, CommandInv, Chosen
  <2> QED
    BY <1>1, <1>2, <2>1, <2>2, <2>3, <2>4, StartGoes
<1>3. CASE Release(c)
  BY <1>1, <1>3, ReturnsKeep
<1> QED
  BY <1>2, <1>3 DEF StartJob

\* A command under the lock changes the journal: nobody else relies on it.
LEMMA CommandWrites ==
    ASSUME IInv, NEW c \in Commands, c \in holders, UNCHANGED <<used, jobs, report, execs>>,
           holders' = holders \/ holders' = holders \ {c},
           runtime' \in survives', survives' \subseteq Runtimes,
           \A s \in survives' : Recorded(s)',
           pc' \in [Commands -> Places], mine' \in [Commands -> used' \cup {None}],
           seen' \in [Commands -> Nat], sent' \in [Commands -> BOOLEAN],
           \A d \in Commands \ {c} : pc'[d] = pc[d] /\ mine'[d] = mine[d],
           CommandInv(c)'
    PROVE  IInv'
<1>0. Hands(c)
  BY DEF Hands
<1>1. /\ OneHolder' /\ holders' \subseteq Commands \cup Attempts
  BY <1>0, HandsKeep
<1>2. Types'
  BY <1>1 DEF IInv, Types, jobs
<1>3. NeverRan'
  BY DEF IInv, NeverRan
<1>4. \A a \in Attempts : WorkerInv(a)'
  BY CommandAlone, WorkerFrame DEF IInv, jobs
<1>5. \A d \in Commands : CommandInv(d)'
  BY CommandAlone, CommandFrame DEF IInv
<1> QED
  BY <1>1, <1>2, <1>3, <1>4, <1>5 DEF IInv

LEMMA StartCreateKeeps ==
    ASSUME IInv, NEW c \in Commands, StartCreate(c)
    PROVE  IInv'
<1> DEFINE e == [NoRuntime EXCEPT !.phase = "Empty"]
<1>1. /\ Goto(c, "create", "save") /\ runtime' = e /\ survives' = {e}
      /\ UNCHANGED <<holders, mine, seen, sent, used, jobs, report, execs>>
  BY DEF StartCreate, engine
<1>2. e.attempt = None /\ e.phase = "Empty" /\ e.rev = 0
  BY DEF NoRuntime
<1>3. e \in Runtimes
  <2>1. "Empty" \in RuntimePhases
    BY DEF RuntimePhases
  <2> QED
    BY <2>1 DEF NoRuntime, Runtimes
<1> HIDE DEF e
<1>4. \A s \in survives' : Recorded(s)'
  BY <1>1, <1>2 DEF Recorded
<1>5. "create" \in Locking /\ "save" \in Places /\ "save" \in Starting /\ "save" \notin AtStop
  BY DEF Locking, Starting, Places, AtStop
<1>6. /\ pc' \in [Commands -> Places] /\ pc[c] = "create" /\ pc'[c] = "save"
      /\ \A d \in Commands \ {c} : pc'[d] = pc[d]
  BY <1>1, <1>5, GotoIs
<1>7. c \in holders /\ mine[c] \in used /\ execs[mine[c]] = 0
  BY <1>5, <1>6 DEF IInv, CommandInv, Holds, Chosen
<1>8. CommandInv(c)'
  BY <1>1, <1>2, <1>5, <1>6, <1>7 DEF CommandInv, Holds, Resolved, Chosen
<1>9. /\ mine' \in [Commands -> used' \cup {None}]
      /\ seen' \in [Commands -> Nat] /\ sent' \in [Commands -> BOOLEAN]
  BY <1>1 DEF IInv, Types
<1> QED
  BY <1>1, <1>3, <1>4, <1>6, <1>7, <1>8, <1>9, CommandWrites

\* What is written next is a checkpoint again.
LEMMA RuntimeUpdates ==
    ASSUME NEW r \in Runtimes, NEW p \in RuntimePhases, NEW n \in Nat
    PROVE  /\ [r EXCEPT !.rev = @ + 1, !.phase = p] \in Runtimes
           /\ [r EXCEPT !.rev = @ + 1, !.phase = p, !.pid = n, !.stage = 0] \in Runtimes
           /\ [r EXCEPT !.rev = @ + 1, !.stage = @ + 1] \in Runtimes
           /\ [r EXCEPT !.stage = @ + 1] \in Runtimes
<1>1. r.rev + 1 \in Nat /\ r.stage + 1 \in Nat
  BY DEF Runtimes
<1>2. [r EXCEPT !.rev = r.rev + 1, !.phase = p] \in Runtimes
  BY <1>1 DEF Runtimes
<1>3. [r EXCEPT !.rev = r.rev + 1, !.phase = p, !.pid = n, !.stage = 0] \in Runtimes
  BY <1>1 DEF Runtimes
<1>4. [r EXCEPT !.rev = r.rev + 1, !.stage = r.stage + 1] \in Runtimes
  BY <1>1 DEF Runtimes
<1>5. [r EXCEPT !.stage = r.stage + 1] \in Runtimes
  BY <1>1 DEF Runtimes
<1> QED
  BY <1>2, <1>3, <1>4, <1>5

\* A save, or an attempt at one, leaves checkpoints that are in order if the new one is.
LEMMA SaveRecords ==
    ASSUME IInv, NEW s \in Runtimes, SaveOk(s) \/ SaveErr(s), s.rev = runtime.rev + 1,
           UNCHANGED <<used, report, execs>>, runtime' = s => Recorded(s)'
    PROVE  /\ runtime' \in survives' /\ survives' \subseteq Runtimes
           /\ \A t \in survives' : Recorded(t)'
           /\ survives' \subseteq survives \cup {s}
           /\ runtime' = s \/ UNCHANGED journal
<1>1. runtime \in survives /\ survives \subseteq Runtimes /\ runtime.rev \in Nat
  BY DEF IInv, Types, Runtimes
<1>2. \/ runtime' = s /\ (survives' = {s} \/ survives' = survives \cup {s})
      \/ UNCHANGED journal
  BY DEF SaveOk, SaveErr
<1>3. runtime' \in survives' /\ survives' \subseteq Runtimes /\ survives' \subseteq survives \cup {s}
  BY <1>1, <1>2 DEF journal
<1>4. ASSUME NEW t \in survives PROVE Recorded(t)'
  <2>1. Recorded(t) /\ t.rev \in Nat /\ t.rev <= runtime.rev
    BY <1>1 DEF IInv, Runtimes, Recorded
  <2>2. t.rev <= runtime'.rev
    BY <1>1, <1>2, <2>1 DEF journal
  <2> QED
    BY <2>1, <2>2, RecordFrame
<1>5. \A t \in survives' : Recorded(t)'
  BY <1>2, <1>4 DEF journal
<1> QED
  BY <1>2, <1>3, <1>5

\* The request for a new attempt.
LEMMA PreparedIs ==
    ASSUME IInv, NEW c \in Commands, pc[c] = "save", NEW s, s = Prepared(c),
           runtime.rev + StartRevisions <= MaxRevisions
    PROVE  /\ s \in Runtimes /\ s.rev = runtime.rev + 1
           /\ c \in holders /\ mine[c] \in used
           /\ UNCHANGED <<used, execs>> /\ runtime' = s => Recorded(s)'
<1>1. c \in holders /\ mine[c] \in used /\ execs[mine[c]] = 0
  BY DEF IInv, CommandInv, Holds, Chosen, Locking, Starting
<1>2. mine[c] \in Attempts /\ mine[c] # None /\ runtime.rev \in Nat
  BY <1>1, ServiceAssumption DEF IInv, Types, Runtimes
<1>3. s.rev = runtime.rev + 1 /\ s.phase = "StartPrepared" /\ s.attempt = mine[c]
  BY DEF Prepared
<1>4. s \in Runtimes
  <2>1. "StartPrepared" \in RuntimePhases
    BY DEF RuntimePhases
  <2> QED
    BY <1>2, <2>1 DEF Prepared, Runtimes
<1>5. ASSUME UNCHANGED <<used, execs>>, runtime' = s PROVE Recorded(s)'
  <2>1. s.rev + GateRevisions <= MaxRevisions
    BY <1>2, <1>3, ServiceAssumption DEF StartRevisions, GateRevisions
  <2> QED
    BY <1>1, <1>2, <1>3, <1>5, <2>1 DEF Recorded, GateRevisions
<1> QED
  BY <1>1, <1>3, <1>4, <1>5

LEMMA StartSaveKeeps ==
    ASSUME IInv, NEW c \in Commands, StartSave(c)
    PROVE  IInv'
<1>1. /\ Goto(c, "save", "bootstrap") /\ pc[c] = "save" /\ SaveOk(Prepared(c))
      /\ runtime.rev + StartRevisions <= MaxRevisions /\ holders' = holders \ {c}
      /\ UNCHANGED <<mine, seen, sent, used, jobs, report, execs>>
  BY DEF StartSave, Goto, engine
<1>2. PICK p : p = Prepared(c)
  OBVIOUS
<1>3. /\ runtime' \in survives' /\ survives' \subseteq Runtimes
      /\ \A s \in survives' : Recorded(s)'
  BY <1>1, <1>2, PreparedIs, SaveRecords
<1>4. "bootstrap" \in Places /\ "bootstrap" \notin Locking \cup Starting \cup {"job", "create", "save"}
  BY DEF Places, Locking, Starting
<1>5. /\ pc' \in [Commands -> Places] /\ pc'[c] = "bootstrap"
      /\ \A d \in Commands \ {c} : pc'[d] = pc[d]
  BY <1>1, <1>4, GotoIs
<1>6. c \in holders /\ mine[c] \in used
  BY <1>1, PreparedIs
<1>7. CommandInv(c)'
  BY <1>1, <1>4, <1>5, <1>6 DEF CommandInv, Holds, Resolved, Chosen
<1>8. /\ mine' \in [Commands -> used' \cup {None}]
      /\ seen' \in [Commands -> Nat] /\ sent' \in [Commands -> BOOLEAN]
  BY <1>1 DEF IInv, Types
<1> QED
  BY <1>1, <1>3, <1>5, <1>6, <1>7, <1>8, CommandWrites

LEMMA StartSaveFailedKeeps ==
    ASSUME IInv, NEW c \in Commands, StartSaveFailed(c)
    PROVE  IInv'
<1>1. /\ pc[c] = "save" /\ SaveErr(Prepared(c)) /\ Return(c) /\ holders' = holders \ {c}
      /\ runtime.rev + StartRevisions <= MaxRevisions
      /\ UNCHANGED <<used, jobs, report, execs>>
  BY DEF StartSaveFailed, Release, engine
<1>2. PICK p : p = Prepared(c)
  OBVIOUS
<1>3. /\ runtime' \in survives' /\ survives' \subseteq Runtimes
      /\ \A s \in survives' : Recorded(s)'
  BY <1>1, <1>2, PreparedIs, SaveRecords
<1>4. c \in holders
  BY <1>1, <1>2, PreparedIs
<1> QED
  BY <1>1, <1>3, <1>4, ReturnIs, CommandWrites

-----------------------------------------------------------------------------
(* Jobs.                                                                   *)

\* The process of job a may be gone, and the job with it; commands go on.
LEMMA JobEnds ==
    ASSUME IInv, NEW a \in Attempts, NEW c \in Commands,
           worker' = [worker EXCEPT ![a] = "none"], view' = [view EXCEPT ![a] = NoRuntime],
           loaded' = loaded \/ loaded' = loaded \ {a},
           holders' = holders \ {a} \/ holders' = holders \ {c, a},
           UNCHANGED <<journal, used, entries, report, execs>>,
           pc' \in [Commands -> Places], mine' \in [Commands -> used' \cup {None}],
           seen' \in [Commands -> Nat], sent' \in [Commands -> BOOLEAN],
           \A d \in Commands \ {c} : pc'[d] = pc[d] /\ mine'[d] = mine[d],
           CommandInv(c)'
    PROVE  IInv'
<1>1. NoRuntime \in Runtimes
  <2>1. "None" \in RuntimePhases
    BY DEF RuntimePhases
  <2> QED
    BY <2>1 DEF NoRuntime, Runtimes
<1>2. Types'
  <2>1. "none" \in WorkerPlaces
    BY DEF WorkerPlaces
  <2>2. worker' \in [Attempts -> WorkerPlaces] /\ view' \in [Attempts -> Runtimes]
    BY <1>1, <2>1 DEF IInv, Types
  <2> QED
    BY <2>2 DEF IInv, Types, journal
<1>3. OneHolder' /\ NeverRan'
  BY DEF IInv, OneHolder, NeverRan
<1>4. \A s \in survives' : Recorded(s)'
  BY RecordFrame DEF IInv, Recorded, journal
<1>5. \A b \in Attempts : WorkerInv(b)'
  <2>1. worker'[a] = "none" /\ execs'[a] <= 1
    BY DEF IInv, Types, WorkerInv
  <2>2. "none" \notin Through \cup Gated
    BY DEF Through, Gated
  <2>3. WorkerInv(a)'
    BY <2>1, <2>2 DEF WorkerInv, Held, Loaded, Admitted, Ahead, Refusing
  <2>4. ASSUME NEW b \in Attempts \ {a} PROVE WorkerInv(b)'
    <3>1. worker'[b] = worker[b] /\ view'[b] = view[b] /\ (b \in loaded => b \in loaded')
      BY DEF IInv, Types
    <3>2. b # c
      BY ServiceAssumption
    <3> QED
      BY <3>1, <3>2, WorkerFrame DEF IInv
  <2> QED
    BY <2>3, <2>4
<1>6. \A d \in Commands : CommandInv(d)'
  <2>1. \A d \in Commands : d # a
    BY ServiceAssumption
  <2> QED
    BY <2>1, CommandFrame DEF IInv, journal
<1> QED
  BY <1>2, <1>3, <1>4, <1>5, <1>6 DEF IInv

LEMMA StartUnloadKeeps ==
    ASSUME IInv, NEW c \in Commands, StartUnload(c)
    PROVE  IInv'
<1>1. /\ Goto(c, "prepare", "inputs") /\ Unload(runtime.attempt)
      /\ UNCHANGED <<journal, mine, seen, sent, used, entries, report, execs>>
  BY DEF StartUnload, engine
<1>2. /\ "inputs" \in Places /\ "prepare" \in Locking /\ "prepare" \in Starting
      /\ "inputs" \notin AtStop \cup {"job", "create", "save", "bootstrap"}
  BY DEF Places, Locking, Starting, AtStop
<1>3. /\ pc' \in [Commands -> Places] /\ pc[c] = "prepare" /\ pc'[c] = "inputs"
      /\ \A d \in Commands \ {c} : pc'[d] = pc[d]
  BY <1>1, <1>2, GotoIs
<1>4. c \in holders /\ runtime.phase \in {"None", "Empty", "StoppedVerified"}
  BY <1>2, <1>3 DEF IInv, CommandInv, Holds, Resolved
<1>5. /\ mine' \in [Commands -> used' \cup {None}] /\ used \subseteq Attempts
      /\ seen' \in [Commands -> Nat] /\ sent' \in [Commands -> BOOLEAN]
  BY <1>1 DEF IInv, Types
<1>6. c \in holders' => CommandInv(c)'
  BY <1>1, <1>2, <1>3, <1>4 DEF CommandInv, Holds, Resolved, Chosen, journal
<1>7. CASE runtime.attempt \in Attempts
  <2> DEFINE a == runtime.attempt
  <2>1. /\ loaded' = loaded \ {a} /\ worker' = [worker EXCEPT ![a] = "none"]
        /\ view' = [view EXCEPT ![a] = NoRuntime] /\ holders' = holders \ {a}
    BY <1>1, <1>7 DEF Unload, Exit
  <2>2. c # a
    BY <1>7, ServiceAssumption
  <2> QED
    BY <1>1, <1>3, <1>4, <1>5, <1>6, <1>7, <2>1, <2>2, JobEnds
<1>8. CASE runtime.attempt \notin Attempts
  <2>1. loaded' = loaded \ {runtime.attempt} /\ UNCHANGED <<worker, view, holders>>
    BY <1>1, <1>8 DEF Unload
  <2>2. Types'
    BY <1>1, <1>3, <1>5, <2>1 DEF IInv, Types, journal
  <2>3. OneHolder' /\ NeverRan'
    BY <1>1, <2>1 DEF IInv, OneHolder, NeverRan
  <2>4. \A s \in survives' : Recorded(s)'
    BY <1>1, RecordFrame DEF IInv, Recorded, journal
  <2>5. \A b \in Attempts : WorkerInv(b)'
    BY <1>1, <1>8, <2>1, WorkerFrame DEF IInv
  <2>6. \A d \in Commands : CommandInv(d)'
    BY <1>1, <1>3, <1>4, <1>6, <2>1, CommandFrame DEF IInv, journal
  <2> QED
    BY <2>2, <2>3, <2>4, <2>5, <2>6 DEF IInv
<1> QED
  BY <1>7, <1>8

\* launchd enters a job that has no process.
LEMMA EnterKeeps ==
    ASSUME IInv, NEW a \in Attempts, worker[a] = "none", Enter(a), a \in loaded',
           loaded \subseteq loaded',
           UNCHANGED <<journal, holders, used, view, report, execs>>
    PROVE  /\ worker' \in [Attempts -> WorkerPlaces] /\ entries' \in [Attempts -> Nat]
           /\ NeverRan' /\ OneHolder'
           /\ \A s \in survives' : Recorded(s)'
           /\ \A b \in Attempts : WorkerInv(b)'
<1>1. entries \in [Attempts -> Nat] /\ worker \in [Attempts -> WorkerPlaces]
  BY DEF IInv, Types
<1>2. "entered" \in WorkerPlaces /\ "entered" \notin Through \cup Gated
  BY DEF WorkerPlaces, Through, Gated
<1>3. worker' \in [Attempts -> WorkerPlaces] /\ entries' \in [Attempts -> Nat]
  BY <1>1, <1>2 DEF Enter
<1>4. /\ worker'[a] = "entered"
      /\ \A b \in Attempts \ {a} : worker'[b] = worker[b] /\ entries'[b] = entries[b]
  BY <1>1 DEF Enter
<1>5. WorkerInv(a)'
  BY <1>2, <1>4 DEF IInv, WorkerInv, Held, Loaded, Admitted, Ahead, Refusing
<1>6. \A b \in Attempts \ {a} : WorkerInv(b)'
  BY <1>4, WorkerFrame DEF IInv
<1>7. \A s \in survives' : Recorded(s)'
  BY RecordFrame DEF IInv, Recorded, journal
<1>8. NeverRan' /\ OneHolder'
  BY DEF IInv, NeverRan, OneHolder
<1> QED
  BY <1>3, <1>5, <1>6, <1>7, <1>8

LEMMA BootstrapKeeps ==
    ASSUME IInv, NEW c \in Commands, Bootstrap(c)
    PROVE  IInv'
<1>1. /\ Return(c) /\ pc[c] = "bootstrap"
      /\ UNCHANGED <<journal, holders, used, view, report, execs>>
  BY DEF Bootstrap, engine
<1>2. mine[c] \in Attempts /\ used \subseteq Attempts
  BY <1>1 DEF IInv, CommandInv, Chosen, Types
<1>3. CASE mine[c] \notin loaded /\ loaded' = loaded \cup {mine[c]} /\ Enter(mine[c])
  <2>1. worker[mine[c]] = "none"
    BY <1>2, <1>3 DEF IInv, WorkerInv, Loaded
  <2>2. /\ worker' \in [Attempts -> WorkerPlaces] /\ entries' \in [Attempts -> Nat]
        /\ NeverRan' /\ OneHolder'
        /\ \A s \in survives' : Recorded(s)'
        /\ \A b \in Attempts : WorkerInv(b)'
    BY <1>1, <1>2, <1>3, <2>1, EnterKeeps
  <2>3. /\ pc' \in [Commands -> Places] /\ mine' \in [Commands -> used' \cup {None}]
        /\ seen' \in [Commands -> Nat] /\ sent' \in [Commands -> BOOLEAN]
        /\ \A d \in Commands \ {c} : pc'[d] = pc[d] /\ mine'[d] = mine[d]
        /\ CommandInv(c)'
    BY <1>1, ReturnIs
  <2>4. Types'
    BY <1>1, <2>2, <2>3 DEF IInv, Types, journal
  <2>5. \A d \in Commands : CommandInv(d)'
    BY <1>1, <2>3, CommandFrame DEF IInv, journal
  <2> QED
    BY <2>2, <2>4, <2>5 DEF IInv
<1>4. CASE UNCHANGED <<loaded, entries, worker>>
  BY <1>1, <1>2, <1>4, CommandReturns DEF Hands, jobs
<1> QED
  BY <1>3, <1>4 DEF Bootstrap

LEMMA KickstartKeeps ==
    ASSUME IInv, NEW a \in Attempts, Kickstart(a)
    PROVE  IInv'
<1>1. /\ worker[a] = "none" /\ Enter(a) /\ a \in loaded
      /\ UNCHANGED <<journal, holders, command, used, loaded, view, report, execs>>
  BY DEF Kickstart, engine
<1>2. /\ worker' \in [Attempts -> WorkerPlaces] /\ entries' \in [Attempts -> Nat]
      /\ NeverRan' /\ OneHolder'
      /\ \A s \in survives' : Recorded(s)'
      /\ \A b \in Attempts : WorkerInv(b)'
  BY <1>1, EnterKeeps
<1>3. Types'
  BY <1>1, <1>2 DEF IInv, Types, journal, command
<1>4. \A d \in Commands : CommandInv(d)'
  BY <1>1, CommandFrame DEF IInv, journal, command
<1> QED
  BY <1>2, <1>3, <1>4 DEF IInv

-----------------------------------------------------------------------------
(* stop.                                                                   *)

LEMMA StopTypes ==
    ASSUME IInv
    PROVE  /\ used \subseteq Attempts /\ mine \in [Commands -> used \cup {None}]
           /\ seen \in [Commands -> Nat] /\ sent \in [Commands -> BOOLEAN]
           /\ runtime.attempt \in used \cup {None} /\ runtime.pid \in Nat
           /\ \A c \in Commands : pc[c] \in AtStop => mine[c] \in used
<1>1. runtime \in Runtimes /\ Recorded(runtime)
  BY DEF IInv, Types
<1>2. runtime.attempt \in used \cup {None} /\ runtime.pid \in Nat
  BY <1>1 DEF Recorded, Runtimes
<1> QED
  BY <1>2 DEF IInv, Types, CommandInv, Chosen

LEMMA StopPlaces ==
    /\ {"request", "observe", "inspect", "signal", "kill", "settle", "confirm"}
           \subseteq AtStop \ Locking
    /\ {"verify", "bootout", "remove"} \subseteq AtStop \cap Locking
BY DEF AtStop, Locking, Starting

LEMMA StopBeginKeeps ==
    ASSUME IInv, NEW c \in Commands, StopBegin(c)
    PROVE  IInv'
<1>1. /\ Goto(c, "idle", "request") /\ runtime.attempt # None
      /\ mine' = [mine EXCEPT ![c] = runtime.attempt]
      /\ seen' = [seen EXCEPT ![c] = runtime.pid]
      /\ UNCHANGED <<journal, holders, sent, used, jobs, report, execs>>
  BY DEF StopBegin, engine
<1>2. "request" \in Places /\ "request" \notin Locking \cup Starting \cup {"job", "create", "save"}
  BY DEF Places, AtStop, Locking, Starting
<1>3. /\ pc' \in [Commands -> Places] /\ pc'[c] = "request"
      /\ \A d \in Commands \ {c} : pc'[d] = pc[d]
  BY <1>1, <1>2, GotoIs
<1>4. /\ mine' \in [Commands -> used' \cup {None}] /\ mine'[c] \in used'
      /\ \A d \in Commands \ {c} : mine'[d] = mine[d]
  BY <1>1, StopTypes
<1>5. CommandInv(c)'
  BY <1>2, <1>3, <1>4 DEF CommandInv, Holds, Resolved, Chosen
<1>6. seen' \in [Commands -> Nat]
  BY <1>1, StopTypes
<1> QED
  BY <1>1, <1>3, <1>4, <1>5, <1>6, StopTypes, CommandGoes DEF Hands

LEMMA StopRequestKeeps ==
    ASSUME IInv, NEW c \in Commands, StopRequest(c)
    PROVE  IInv'
<1>1. pc[c] = "request" /\ UNCHANGED <<journal, holders, used, jobs, report, execs>>
  BY DEF StopRequest, engine
<1>2. CASE Goto(c, "request", "observe") /\ UNCHANGED <<mine, seen, sent>>
  BY <1>1, <1>2, StopTypes, StopPlaces, StopGoes
<1>3. CASE Return(c)
  BY <1>1, <1>3, ReturnsKeep
<1> QED
  BY <1>2, <1>3 DEF StopRequest

LEMMA StopObserveKeeps ==
    ASSUME IInv, NEW c \in Commands, StopObserve(c)
    PROVE  IInv'
<1>1. /\ Goto(c, "observe", "inspect") /\ pc[c] = "observe"
      /\ seen' = [seen EXCEPT ![c] = runtime.pid]
      /\ UNCHANGED <<journal, holders, mine, sent, used, jobs, report, execs>>
  BY DEF StopObserve, Goto, engine
<1>2. seen' \in [Commands -> Nat]
  BY <1>1, StopTypes
<1> QED
  BY <1>1, <1>2, StopTypes, StopPlaces, StopGoes

LEMMA StopInspectKeeps ==
    ASSUME IInv, NEW c \in Commands, StopInspect(c)
    PROVE  IInv'
<1>1. /\ Goto(c, "inspect", "settle") \/ Goto(c, "inspect", "signal")
      /\ pc[c] = "inspect"
      /\ UNCHANGED <<journal, holders, mine, seen, sent, used, jobs, report, execs>>
  BY DEF StopInspect, engine
<1> QED
  BY <1>1, StopTypes, StopPlaces, StopGoes

LEMMA StopSignalKeeps ==
    ASSUME IInv, NEW c \in Commands, StopSignal(c)
    PROVE  IInv'
<1>1. /\ Goto(c, "signal", "kill") \/ Goto(c, "signal", "observe")
      /\ pc[c] = "signal"
      /\ UNCHANGED <<journal, holders, mine, seen, sent, used, jobs, report, execs>>
  BY DEF StopSignal, Goto, engine
<1> QED
  BY <1>1, StopTypes, StopPlaces, StopGoes

LEMMA StopUnknownKeeps ==
    ASSUME IInv, NEW c \in Commands, StopUnknown(c) \/ StopMissed(c)
    PROVE  IInv'
BY ReturnsKeep DEF StopUnknown, StopMissed, engine

LEMMA StopSettleKeeps ==
    ASSUME IInv, NEW c \in Commands, StopSettle(c)
    PROVE  IInv'
<1>1. pc[c] = "settle" /\ UNCHANGED <<journal, holders, used, jobs, report, execs>>
  BY DEF StopSettle, engine
<1>2. CASE Goto(c, "settle", "confirm") /\ UNCHANGED <<mine, seen, sent>>
  BY <1>1, <1>2, StopTypes, StopPlaces, StopGoes
<1>3. CASE Return(c)
  BY <1>1, <1>3, ReturnsKeep
<1> QED
  BY <1>2, <1>3 DEF StopSettle

\* A TERM ends a worker that is not the engine yet, and its hold on the lock.
LEMMA StopKillKeeps ==
    ASSUME IInv, NEW c \in Commands, StopKill(c)
    PROVE  IInv'
<1> DEFINE a == mine[c]
<1>1. /\ Goto(c, "kill", "observe") /\ pc[c] = "kill"
      /\ sent' = [sent EXCEPT ![c] = TRUE]
      /\ UNCHANGED <<journal, mine, seen, used, loaded, entries, report, execs>>
      /\ UNCHANGED <<holders, worker, view>> \/ Exit(a)
  BY DEF StopKill, Goto
<1>2. a \in used /\ a \in Attempts
  BY <1>1, StopTypes, StopPlaces
<1>3. sent' \in [Commands -> BOOLEAN]
  BY <1>1, StopTypes
<1>4. CASE UNCHANGED <<holders, worker, view>>
  BY <1>1, <1>2, <1>3, <1>4, StopTypes, StopPlaces, StopGoes DEF jobs
<1>5. CASE Exit(a)
  <2>1. "observe" \in Places /\ "observe" \notin Locking \cup Starting \cup {"job", "create", "save"}
    BY DEF Places, AtStop, Locking, Starting
  <2>2. /\ pc' \in [Commands -> Places] /\ pc'[c] = "observe"
        /\ \A d \in Commands \ {c} : pc'[d] = pc[d]
    BY <1>1, <2>1, GotoIs
  <2>3. CommandInv(c)'
    BY <1>1, <1>2, <2>1, <2>2 DEF CommandInv, Holds, Resolved, Chosen
  <2> QED
    BY <1>1, <1>2, <1>3, <1>5, <2>2, <2>3, StopTypes, JobEnds DEF Exit
<1> QED
  BY <1>1, <1>4, <1>5

\* A confirmation goes on under the lock.
LEMMA ConfirmPlace ==
    ASSUME IInv, NEW c \in Commands, NEW to \in {"verify", "bootout", "remove"}, pc'[c] = to,
           mine[c] \in used, UNCHANGED <<used, mine>>, c \in holders'
    PROVE  CommandInv(c)'
<1>1. to \in AtStop /\ to \notin Starting /\ to \notin {"job", "create", "save"}
  BY DEF AtStop, Starting
<1> QED
  BY <1>1 DEF CommandInv, Holds, Resolved, Chosen

LEMMA ConfirmLockKeeps ==
    ASSUME IInv, NEW c \in Commands, ConfirmLock(c)
    PROVE  IInv'
<1>1. pc[c] = "confirm" /\ UNCHANGED <<journal, used, jobs, report, execs>>
  BY DEF ConfirmLock, engine
<1>2. CASE Lock(c) /\ Goto(c, "confirm", "verify") /\ UNCHANGED <<mine, seen, sent>>
  <2>1. "verify" \in Places
    BY DEF Places, AtStop
  <2>2. /\ pc' \in [Commands -> Places] /\ pc'[c] = "verify"
        /\ \A d \in Commands \ {c} : pc'[d] = pc[d]
    BY <1>2, <2>1, GotoIs
  <2>3. mine[c] \in used
    BY <1>1, StopTypes, StopPlaces
  <2>4. CommandInv(c)'
    BY <1>1, <1>2, <2>2, <2>3, LockHands, ConfirmPlace
  <2> QED
    BY <1>1, <1>2, <2>2, <2>4, StopTypes, LockHands, CommandGoes
<1>3. CASE Return(c) /\ UNCHANGED holders
  BY <1>1, <1>3, ReturnsKeep
<1> QED
  BY <1>2, <1>3 DEF ConfirmLock

\* STOPPED_VERIFIED of an attempt whose engine reported it.
LEMMA StoppedRecorded ==
    ASSUME IInv, NEW c \in Commands, pc[c] = "verify", Confirmed(c), NEW s, s = Stopped
    PROVE  /\ s \in Runtimes /\ s.rev = runtime.rev + 1
           /\ UNCHANGED <<used, report>> /\ runtime' = s => Recorded(s)'
<1>1. runtime \in Runtimes /\ runtime.attempt \in used /\ runtime.rev \in Nat
  BY StopTypes, StopPlaces DEF Confirmed, IInv, Types, Runtimes
<1>2. /\ s.rev = runtime.rev + 1 /\ s.phase = "StoppedVerified"
      /\ s.attempt = runtime.attempt
  BY <1>1 DEF Stopped, Runtimes
<1>3. s \in Runtimes
  <2>1. "StoppedVerified" \in RuntimePhases
    BY DEF RuntimePhases
  <2> QED
    BY <1>1, <2>1, RuntimeUpdates DEF Stopped
<1>4. report[s.attempt] = "STOPPED" /\ s.attempt # None
  BY <1>1, <1>2, ServiceAssumption DEF Confirmed, ReportStopped, IInv, Types
<1>5. ASSUME UNCHANGED <<used, report>>, runtime' = s PROVE Recorded(s)'
  BY <1>1, <1>2, <1>4, <1>5 DEF Recorded
<1> QED
  BY <1>2, <1>3, <1>5

LEMMA ConfirmSaveKeeps ==
    ASSUME IInv, NEW c \in Commands, ConfirmSave(c)
    PROVE  IInv'
<1>1. /\ Goto(c, "verify", "bootout") /\ pc[c] = "verify" /\ Confirmed(c)
      /\ UNCHANGED <<holders, mine, seen, sent, used, jobs, report, execs>>
      /\ UNCHANGED journal \/ SaveOk(Stopped)
  BY DEF ConfirmSave, Goto, engine
<1>2. "bootout" \in Places
  BY DEF Places, AtStop
<1>3. /\ pc' \in [Commands -> Places] /\ pc'[c] = "bootout"
      /\ \A d \in Commands \ {c} : pc'[d] = pc[d]
  BY <1>1, <1>2, GotoIs
<1>4. c \in holders /\ mine[c] \in used
  BY <1>1, StopPlaces DEF IInv, CommandInv, Holds, Chosen
<1>5. CommandInv(c)'
  BY <1>1, <1>3, <1>4, ConfirmPlace
<1>6. CASE UNCHANGED journal
  BY <1>1, <1>3, <1>5, <1>6, StopTypes, CommandGoes DEF Hands
<1>7. CASE SaveOk(Stopped)
  <2>1. PICK s : s = Stopped
    OBVIOUS
  <2>2. /\ runtime' \in survives' /\ survives' \subseteq Runtimes
        /\ \A t \in survives' : Recorded(t)'
    BY <1>1, <1>7, <2>1, StoppedRecorded, SaveRecords
  <2> QED
    BY <1>1, <1>3, <1>4, <1>5, <2>2, StopTypes, CommandWrites
<1> QED
  BY <1>1, <1>6, <1>7

LEMMA ConfirmFailedKeeps ==
    ASSUME IInv, NEW c \in Commands, ConfirmFailed(c)
    PROVE  IInv'
<1>1. /\ pc[c] = "verify" /\ Release(c) /\ UNCHANGED <<used, jobs, report, execs>>
      /\ UNCHANGED journal \/ (Confirmed(c) /\ SaveErr(Stopped))
  BY DEF ConfirmFailed, engine
<1>2. CASE UNCHANGED journal
  BY <1>1, <1>2, ReturnsKeep
<1>3. CASE Confirmed(c) /\ SaveErr(Stopped)
  <2>1. PICK s : s = Stopped
    OBVIOUS
  <2>2. /\ runtime' \in survives' /\ survives' \subseteq Runtimes
        /\ \A t \in survives' : Recorded(t)'
    BY <1>1, <1>3, <2>1, StoppedRecorded, SaveRecords
  <2>3. c \in holders
    BY <1>1, StopPlaces DEF IInv, CommandInv, Holds
  <2> QED
    BY <1>1, <2>2, <2>3, ReturnIs, CommandWrites DEF Release
<1> QED
  BY <1>1, <1>2, <1>3

LEMMA BootoutCheckKeeps ==
    ASSUME IInv, NEW c \in Commands, BootoutCheck(c)
    PROVE  IInv'
<1>1. pc[c] = "bootout" /\ UNCHANGED <<journal, used, jobs, report, execs>>
  BY DEF BootoutCheck, engine
<1>2. CASE Goto(c, "bootout", "remove") /\ UNCHANGED <<mine, seen, sent, holders>>
  <2>1. "remove" \in Places
    BY DEF Places, AtStop
  <2>2. /\ pc' \in [Commands -> Places] /\ pc'[c] = "remove"
        /\ \A d \in Commands \ {c} : pc'[d] = pc[d]
    BY <1>2, <2>1, GotoIs
  <2>3. c \in holders /\ mine[c] \in used
    BY <1>1, StopPlaces DEF IInv, CommandInv, Holds, Chosen
  <2>4. CommandInv(c)'
    BY <1>1, <1>2, <2>2, <2>3, ConfirmPlace
  <2> QED
    BY <1>1, <1>2, <2>2, <2>4, StopTypes, CommandGoes DEF Hands
<1>3. CASE Release(c)
  BY <1>1, <1>3, ReturnsKeep
<1> QED
  BY <1>2, <1>3 DEF BootoutCheck

LEMMA BootoutKeeps ==
    ASSUME IInv, NEW c \in Commands, Bootout(c)
    PROVE  IInv'
<1>1. mine[c] \in Attempts
  BY StopTypes, StopPlaces DEF Bootout
<1>2. /\ loaded' = loaded \ {mine[c]} /\ worker' = [worker EXCEPT ![mine[c]] = "none"]
      /\ view' = [view EXCEPT ![mine[c]] = NoRuntime]
      /\ holders' = holders \ {c, mine[c]} /\ Return(c)
      /\ UNCHANGED <<journal, used, entries, report, execs>>
  BY DEF Bootout, engine
<1> QED
  BY <1>1, <1>2, ReturnIs, JobEnds

-----------------------------------------------------------------------------
(* run_gate.                                                               *)

\* A step of the process of attempt a; it changes the journal only under the lock.
LEMMA WorkerGoes ==
    ASSUME IInv, NEW a \in Attempts, Hands(a), UNCHANGED <<command, used, entries, loaded>>,
           a \in holders \/ UNCHANGED <<journal, execs>>,
           runtime' \in survives', survives' \subseteq Runtimes,
           worker' \in [Attempts -> WorkerPlaces], view' \in [Attempts -> Runtimes],
           report' \in [Attempts -> Statuses], execs' \in [Attempts -> Nat],
           \A b \in Attempts \ {a} :
               worker'[b] = worker[b] /\ view'[b] = view[b] /\ execs'[b] = execs[b],
           NeverRan', \A s \in survives' : Recorded(s)', WorkerInv(a)'
    PROVE  IInv'
<1>1. /\ OneHolder' /\ holders' \subseteq Commands \cup Attempts
      /\ \A q \in (Commands \cup Attempts) \ {a} : q \in holders => q \in holders'
  BY HandsKeep
<1>2. Types'
  BY <1>1 DEF IInv, Types, command
<1>3. \A b \in Attempts \ {a} : WorkerInv(b)'
  BY <1>1, WorkerAlone, WorkerFrame DEF IInv
<1>4. \A d \in Commands : CommandInv(d)'
  <2>1. \A d \in Commands : d # a
    BY ServiceAssumption
  <2>2. \A d \in Commands : pc'[d] = pc[d] /\ mine'[d] = mine[d]
    BY DEF command
  <2>3. \A d \in Commands : d \in holders =>
          d \in holders' /\ runtime'.phase = runtime.phase /\ execs' = execs
    BY <1>1, <2>1, WorkerAlone DEF journal
  <2> QED
    BY <2>2, <2>3, CommandFrame DEF IInv
<1> QED
  BY <1>1, <1>2, <1>3, <1>4 DEF IInv

LEMMA NoRuntimeIs == NoRuntime \in Runtimes
<1>1. "None" \in RuntimePhases
  BY DEF RuntimePhases
<1> QED
  BY <1>1 DEF NoRuntime, Runtimes

LEMMA StateTypes ==
    ASSUME IInv
    PROVE  /\ runtime \in survives /\ survives \subseteq Runtimes /\ runtime \in Runtimes
           /\ worker \in [Attempts -> WorkerPlaces] /\ view \in [Attempts -> Runtimes]
           /\ entries \in [Attempts -> Nat]
           /\ report \in [Attempts -> Statuses] /\ execs \in [Attempts -> Nat]
           /\ NeverRan /\ \A s \in survives : Recorded(s)
BY DEF IInv, Types

\* While a process is in its job, nothing is claimed of it but that.
LEMMA NewcomerInv ==
    ASSUME IInv, NEW a \in Attempts, worker'[a] \in {"none", "entered", "locked"},
           execs'[a] = execs[a], worker'[a] # "none" => a \in loaded',
           worker'[a] = "locked" => a \in holders'
    PROVE  WorkerInv(a)'
<1>1. worker'[a] \notin Through \cup Gated \cup {"refuse"}
  BY DEF Through, Gated
<1>2. execs[a] <= 1
  BY DEF IInv, WorkerInv
<1> QED
  BY <1>1, <1>2 DEF WorkerInv, Held, Loaded, Admitted, Ahead, Refusing

\* The process ends, with its hold on the lock; it may have changed the journal under it.
LEMMA WorkerExits ==
    ASSUME IInv, NEW a \in Attempts, Exit(a),
           UNCHANGED <<command, used, loaded, entries, report, execs>>,
           a \in holders \/ UNCHANGED journal,
           runtime' \in survives', survives' \subseteq Runtimes, \A s \in survives' : Recorded(s)'
    PROVE  IInv'
<1>1. "none" \in WorkerPlaces
  BY DEF WorkerPlaces
<1>2. /\ worker' \in [Attempts -> WorkerPlaces] /\ view' \in [Attempts -> Runtimes]
      /\ worker'[a] = "none" /\ Hands(a)
      /\ \A b \in Attempts \ {a} : worker'[b] = worker[b] /\ view'[b] = view[b]
  BY <1>1, NoRuntimeIs, StateTypes DEF Exit, Hands
<1>3. WorkerInv(a)'
  BY <1>2, NewcomerInv
<1>4. NeverRan'
  BY DEF IInv, NeverRan
<1> QED
  BY <1>2, <1>3, <1>4, StateTypes, WorkerGoes

LEMMA QuietExit ==
    ASSUME IInv, NEW a \in Attempts, Exit(a),
           UNCHANGED <<journal, command, used, loaded, entries, report, execs>>
    PROVE  IInv'
<1>1. \A s \in survives' : Recorded(s)'
  BY RecordFrame DEF IInv, Recorded, journal
<1>2. runtime' \in survives' /\ survives' \subseteq Runtimes
  BY StateTypes DEF journal
<1> QED
  BY <1>1, <1>2, WorkerExits

LEMMA ExitsKeep ==
    ASSUME IInv, NEW a \in Attempts, GateBusy(a) \/ EngineExit(a) \/ Die(a)
    PROVE  IInv'
BY QuietExit DEF GateBusy, EngineExit, Die, engine

LEMMA WorkerGotoIs ==
    ASSUME IInv, NEW a \in Attempts, NEW from, NEW to \in WorkerPlaces, WorkerGoto(a, from, to)
    PROVE  /\ worker' \in [Attempts -> WorkerPlaces] /\ worker[a] = from /\ worker'[a] = to
           /\ \A b \in Attempts \ {a} : worker'[b] = worker[b]
BY StateTypes DEF WorkerGoto

LEMMA GateLockKeeps ==
    ASSUME IInv, NEW a \in Attempts, GateLock(a)
    PROVE  IInv'
<1>1. /\ WorkerGoto(a, "entered", "locked") /\ Lock(a)
      /\ UNCHANGED <<journal, command, used, loaded, entries, view, report, execs>>
  BY DEF GateLock, engine
<1>2. "locked" \in WorkerPlaces
  BY DEF WorkerPlaces
<1>3. /\ worker' \in [Attempts -> WorkerPlaces] /\ worker[a] = "entered" /\ worker'[a] = "locked"
      /\ \A b \in Attempts \ {a} : worker'[b] = worker[b]
  BY <1>1, <1>2, WorkerGotoIs
<1>4. WorkerInv(a)'
  <2>1. a \in loaded'
    BY <1>1, <1>3 DEF IInv, WorkerInv, Loaded
  <2> QED
    BY <1>1, <1>3, <2>1, LockHands, NewcomerInv
<1>5. NeverRan' /\ \A s \in survives' : Recorded(s)'
  BY <1>1, RecordFrame DEF IInv, NeverRan, Recorded, journal
<1>6. runtime' \in survives' /\ survives' \subseteq Runtimes
  BY <1>1, StateTypes DEF journal
<1> QED
  BY <1>1, <1>3, <1>4, <1>5, <1>6, LockHands, StateTypes, WorkerGoes

\* The record that consumes an attempt.
LEMMA ConsumedIs ==
    ASSUME IInv, NEW a \in Attempts, Admissible(a), NEW s, s = Consumed(a)
    PROVE  /\ s \in Runtimes /\ s.rev = runtime.rev + 1 /\ Names(s, a) /\ s.stage = 0
           /\ s.rev + Stages + 2 <= MaxRevisions /\ execs[a] = 0
           /\ UNCHANGED used /\ runtime' = s => Recorded(s)'
<1>1. /\ runtime \in Runtimes /\ Recorded(runtime) /\ runtime.rev \in Nat /\ Stages \in Nat
      /\ MaxRevisions \in Nat /\ entries[a] \in Nat
  BY StateTypes, ServiceAssumption DEF Runtimes
<1>2. /\ runtime.attempt = a /\ runtime.phase = "StartPrepared"
      /\ runtime.rev + GateRevisions <= MaxRevisions
  BY DEF Admissible
<1>3. s \in Runtimes
  <2>1. "GateConsumed" \in RuntimePhases
    BY DEF RuntimePhases
  <2> QED
    BY <1>1, <2>1, RuntimeUpdates DEF Consumed
<1>4. /\ s.rev = runtime.rev + 1 /\ s.phase = "GateConsumed" /\ s.attempt = a
      /\ s.pid = entries[a] /\ s.stage = 0
  BY <1>1, <1>2 DEF Consumed, Runtimes
<1>5. s.rev + Stages + 2 <= MaxRevisions
  BY <1>1, <1>2, <1>4 DEF GateRevisions
<1>6. execs[a] = 0 /\ a \in used
  BY <1>1, <1>2, ServiceAssumption DEF Recorded
<1>7. ASSUME UNCHANGED used, runtime' = s PROVE Recorded(s)'
  <2>1. s.rev + 2 <= MaxRevisions /\ s.rev <= runtime'.rev /\ a # None
    BY <1>1, <1>4, <1>5, <1>7, ServiceAssumption
  <2> QED
    BY <1>4, <1>6, <1>7, <2>1 DEF Recorded
<1> QED
  BY <1>3, <1>4, <1>5, <1>6, <1>7 DEF Names

LEMMA GateRejectedKeeps ==
    ASSUME IInv, NEW a \in Attempts, GateRejected(a)
    PROVE  IInv'
<1>1. /\ worker[a] = "locked" /\ Exit(a)
      /\ UNCHANGED journal \/ (Admissible(a) /\ SaveErr(Consumed(a)))
      /\ UNCHANGED <<command, used, loaded, entries, report, execs>>
  BY DEF GateRejected, engine
<1>2. CASE UNCHANGED journal
  BY <1>1, <1>2, QuietExit
<1>3. CASE Admissible(a) /\ SaveErr(Consumed(a))
  <2>1. PICK s : s = Consumed(a)
    OBVIOUS
  <2>2. /\ runtime' \in survives' /\ survives' \subseteq Runtimes
        /\ \A t \in survives' : Recorded(t)'
    BY <1>1, <1>3, <2>1, ConsumedIs, SaveRecords
  <2>3. a \in holders
    BY <1>1 DEF IInv, WorkerInv, Held
  <2> QED
    BY <1>1, <2>2, <2>3, WorkerExits
<1> QED
  BY <1>1, <1>2, <1>3

LEMMA GateConsumeKeeps ==
    ASSUME IInv, NEW a \in Attempts, GateConsume(a)
    PROVE  IInv'
<1>1. /\ WorkerGoto(a, "locked", "stages") /\ Admissible(a) /\ SaveOk(Consumed(a))
      /\ view' = [view EXCEPT ![a] = runtime']
      /\ UNCHANGED <<holders, command, used, loaded, entries, report, execs>>
  BY DEF GateConsume, engine
<1>2. PICK s : s = Consumed(a)
  OBVIOUS
<1>3. /\ s \in Runtimes /\ s.rev = runtime.rev + 1 /\ Names(s, a) /\ s.stage = 0
      /\ s.rev + Stages + 2 <= MaxRevisions /\ execs[a] = 0
      /\ runtime' = s /\ survives' = {s}
  BY <1>1, <1>2, ConsumedIs DEF SaveOk
<1>4. \A t \in survives' : Recorded(t)'
  BY <1>1, <1>2, <1>3, ConsumedIs, SaveRecords
<1>5. "stages" \in WorkerPlaces
  BY DEF WorkerPlaces, Through, Gated
<1>6. /\ worker' \in [Attempts -> WorkerPlaces] /\ worker[a] = "locked" /\ worker'[a] = "stages"
      /\ \A b \in Attempts \ {a} : worker'[b] = worker[b]
  BY <1>1, <1>5, WorkerGotoIs
<1>7. a \in holders /\ a \in loaded
  BY <1>6 DEF IInv, WorkerInv, Held, Loaded
<1>8. /\ view' \in [Attempts -> Runtimes] /\ view'[a] = s
      /\ \A b \in Attempts \ {a} : view'[b] = view[b]
  BY <1>1, <1>3, StateTypes
<1>9. WorkerInv(a)'
  <2>1. Held(a)' /\ Loaded(a)' /\ Refusing(a)' /\ execs'[a] <= 1
    BY <1>1, <1>3, <1>6, <1>7 DEF Held, Loaded, Refusing
  <2>2. Admitted(a)'
    BY <1>1, <1>3 DEF Admitted, Names
  <2>3. Ahead(a)'
    BY <1>1, <1>3, <1>6, <1>8, ServiceAssumption DEF Ahead, Runtimes
  <2> QED
    BY <2>1, <2>2, <2>3 DEF WorkerInv
<1>10. NeverRan'
  BY <1>1 DEF IInv, NeverRan
<1> QED
  BY <1>1, <1>3, <1>4, <1>6, <1>7, <1>8, <1>9, <1>10, StateTypes, WorkerGoes DEF Hands

\* What a process past the gate may rely on.
LEMMA PassedFacts ==
    ASSUME IInv, NEW a \in Attempts, worker[a] \in Through
    PROVE  /\ a \in holders /\ a \in loaded /\ Names(runtime, a) /\ a \in used
           /\ \A s \in survives : Names(s, a)
           /\ view[a] \in Runtimes /\ view[a].rev \in Nat /\ view[a].stage \in Nat
           /\ Stages \in Nat \ {0} /\ MaxRevisions \in Nat
<1>1. a \in holders /\ a \in loaded /\ \A s \in survives : Names(s, a)
  BY DEF IInv, WorkerInv, Held, Loaded, Admitted, Through, Gated
<1>2. Names(runtime, a) /\ Recorded(runtime)
  BY <1>1, StateTypes
<1>3. a \in used
  BY <1>2, ServiceAssumption DEF Names, Recorded
<1>4. view[a] \in Runtimes /\ view[a].rev \in Nat /\ view[a].stage \in Nat
  BY StateTypes DEF Runtimes
<1> QED
  BY <1>1, <1>2, <1>3, <1>4, ServiceAssumption

LEMMA PassedPlaces ==
    /\ Through \subseteq WorkerPlaces /\ Gated \subseteq Through
    /\ {"stages", "go", "exec"} \subseteq Gated
    /\ {"refuse", "engine"} \subseteq Through /\ Gated \cap {"refuse", "engine"} = {}
    /\ Through \cap {"none", "entered", "locked"} = {}
BY DEF Through, Gated, WorkerPlaces

\* The record of the next stage.
LEMMA NextStageIs ==
    ASSUME IInv, NEW a \in Attempts, worker[a] \in {"stages", "go"},
           view[a].stage <= Stages - 1, NEW s, s = NextStage(a)
    PROVE  /\ s \in Runtimes /\ s.rev = runtime.rev + 1 /\ Names(s, a)
           /\ s.stage = view[a].stage + 1 /\ s.stage <= Stages
           /\ s.rev + (Stages - s.stage) + 2 <= MaxRevisions
           /\ UNCHANGED used /\ runtime' = s => Recorded(s)'
<1>1. /\ a \in used /\ Names(runtime, a) /\ view[a] \in Runtimes
      /\ view[a].rev \in Nat /\ view[a].stage \in Nat /\ Stages \in Nat \ {0} /\ MaxRevisions \in Nat
  BY PassedFacts, PassedPlaces
<1>2. view[a] = runtime /\ view[a].rev + (Stages - view[a].stage) + 2 <= MaxRevisions
  BY PassedPlaces DEF IInv, WorkerInv, Ahead
<1>3. s \in Runtimes
  <2>1. "None" \in RuntimePhases
    BY DEF RuntimePhases
  <2> QED
    BY <1>1, <2>1, RuntimeUpdates DEF NextStage
<1>4. /\ s.rev = view[a].rev + 1 /\ s.stage = view[a].stage + 1 /\ s.phase = view[a].phase
      /\ s.attempt = view[a].attempt /\ s.pid = view[a].pid
  BY <1>1 DEF NextStage, Runtimes
<1>5. Names(s, a)
  BY <1>1, <1>2, <1>4 DEF Names
<1>6. /\ s.stage <= Stages /\ s.rev + (Stages - s.stage) + 2 <= MaxRevisions
      /\ s.rev + 2 <= MaxRevisions
  BY <1>1, <1>2, <1>4
<1>7. ASSUME UNCHANGED used, runtime' = s PROVE Recorded(s)'
  <2>1. s.rev <= runtime'.rev /\ a # None
    BY <1>1, <1>4, <1>7, ServiceAssumption
  <2> QED
    BY <1>1, <1>5, <1>6, <1>7, <2>1 DEF Recorded, Names
<1> QED
  BY <1>2, <1>3, <1>4, <1>5, <1>6, <1>7

\* A stage is recorded, and the process goes on to the place after it.
LEMMA StageRecorded ==
    ASSUME IInv, NEW a \in Attempts, worker[a] \in {"stages", "go"}, view[a].stage <= Stages - 1,
           SaveOk(NextStage(a)), view' = [view EXCEPT ![a] = runtime'],
           UNCHANGED <<holders, command, used, loaded, entries, report, execs>>,
           worker' \in [Attempts -> WorkerPlaces],
           \A b \in Attempts \ {a} : worker'[b] = worker[b],
           \/ worker'[a] = "stages" /\ view[a].stage < Stages - 1
           \/ worker'[a] = "exec"
    PROVE  IInv'
<1>1. PICK s : s = NextStage(a)
  OBVIOUS
<1>2. /\ s \in Runtimes /\ s.rev = runtime.rev + 1 /\ Names(s, a)
      /\ s.stage = view[a].stage + 1 /\ s.stage <= Stages
      /\ s.rev + (Stages - s.stage) + 2 <= MaxRevisions
      /\ runtime' = s /\ survives' = {s}
  BY <1>1, NextStageIs DEF SaveOk
<1>3. \A t \in survives' : Recorded(t)'
  BY <1>1, <1>2, NextStageIs, SaveRecords
<1>4. /\ a \in holders /\ a \in loaded /\ view[a].stage \in Nat /\ Stages \in Nat
  BY PassedFacts, PassedPlaces
<1>5. /\ view' \in [Attempts -> Runtimes] /\ view'[a] = s
      /\ \A b \in Attempts \ {a} : view'[b] = view[b]
  BY <1>2, StateTypes
<1>6. WorkerInv(a)'
  <2>1. execs[a] = 0
    BY PassedPlaces DEF IInv, WorkerInv, Ahead
  <2>2. Held(a)' /\ Loaded(a)' /\ Refusing(a)' /\ execs'[a] <= 1
    BY <1>4, <2>1 DEF Held, Loaded, Refusing
  <2>3. Admitted(a)'
    BY <1>2 DEF Admitted, Names
  <2>4. Ahead(a)'
    BY <1>2, <1>4, <1>5, <2>1 DEF Ahead
  <2> QED
    BY <2>2, <2>3, <2>4 DEF WorkerInv
<1>7. NeverRan'
  BY DEF IInv, NeverRan
<1> QED
  BY <1>2, <1>3, <1>4, <1>5, <1>6, <1>7, StateTypes, WorkerGoes DEF Hands

LEMMA GateStageKeeps ==
    ASSUME IInv, NEW a \in Attempts, GateStage(a)
    PROVE  IInv'
<1>1. /\ worker[a] = "stages" /\ view[a].stage < Stages - 1 /\ SaveOk(NextStage(a))
      /\ view' = [view EXCEPT ![a] = runtime']
      /\ UNCHANGED <<holders, command, used, loaded, entries, worker, report, execs>>
  BY DEF GateStage, engine
<1>2. view[a].stage <= Stages - 1
  BY <1>1, PassedPlaces DEF IInv, WorkerInv, Ahead
<1> QED
  BY <1>1, <1>2, StateTypes, StageRecorded

LEMMA GateExecStageKeeps ==
    ASSUME IInv, NEW a \in Attempts, GateExecStage(a)
    PROVE  IInv'
<1>1. /\ WorkerGoto(a, "go", "exec") /\ SaveOk(NextStage(a))
      /\ view' = [view EXCEPT ![a] = runtime']
      /\ UNCHANGED <<holders, command, used, loaded, entries, report, execs>>
  BY DEF GateExecStage, engine
<1>2. /\ worker' \in [Attempts -> WorkerPlaces] /\ worker[a] = "go" /\ worker'[a] = "exec"
      /\ \A b \in Attempts \ {a} : worker'[b] = worker[b]
  BY <1>1, PassedPlaces, WorkerGotoIs
<1>3. view[a].stage <= Stages - 1
  <2>1. view[a].stage = Stages - 1 /\ view[a].stage \in Nat
    BY <1>2, PassedFacts, PassedPlaces DEF IInv, WorkerInv, Ahead
  <2> QED
    BY <2>1
<1> QED
  BY <1>1, <1>2, <1>3, StageRecorded

\* The process of attempt a goes on; the journal is as it was.
LEMMA WorkerMoves ==
    ASSUME IInv, NEW a \in Attempts, worker' \in [Attempts -> WorkerPlaces],
           \A b \in Attempts \ {a} : worker'[b] = worker[b],
           UNCHANGED <<journal, holders, command, used, loaded, entries, view, report, execs>>,
           WorkerInv(a)'
    PROVE  IInv'
<1>1. NeverRan' /\ \A s \in survives' : Recorded(s)'
  BY RecordFrame DEF IInv, NeverRan, Recorded, journal
<1>2. runtime' \in survives' /\ survives' \subseteq Runtimes
  BY StateTypes DEF journal
<1> QED
  BY <1>1, <1>2, StateTypes, WorkerGoes DEF Hands

LEMMA GateCheckKeeps ==
    ASSUME IInv, NEW a \in Attempts, GateCheck(a)
    PROVE  IInv'
<1>1. /\ WorkerGoto(a, "stages", "go") /\ view[a].stage = Stages - 1
      /\ UNCHANGED <<journal, holders, command, used, loaded, entries, view, report, execs>>
  BY DEF GateCheck, engine
<1>2. /\ worker' \in [Attempts -> WorkerPlaces] /\ worker[a] = "stages" /\ worker'[a] = "go"
      /\ \A b \in Attempts \ {a} : worker'[b] = worker[b]
  BY <1>1, PassedPlaces, WorkerGotoIs
<1>3. WorkerInv(a)'
  BY <1>1, <1>2, PassedPlaces
     DEF IInv, WorkerInv, Held, Loaded, Admitted, Ahead, Refusing, Names, journal
<1> QED
  BY <1>1, <1>2, <1>3, WorkerMoves

LEMMA GateFailsKeeps ==
    ASSUME IInv, NEW a \in Attempts, GateFails(a)
    PROVE  IInv'
<1>1. PICK at \in {"stages", "go", "exec"} : WorkerGoto(a, at, "refuse")
  BY DEF GateFails
<1>2. UNCHANGED <<journal, holders, command, used, loaded, entries, view, report, execs>>
  BY DEF GateFails, engine
<1>3. /\ worker' \in [Attempts -> WorkerPlaces] /\ worker[a] = at /\ worker'[a] = "refuse"
      /\ \A b \in Attempts \ {a} : worker'[b] = worker[b]
  BY <1>1, PassedPlaces, WorkerGotoIs
<1>4. /\ a \in holders /\ a \in loaded /\ Names(runtime, a) /\ \A s \in survives : Names(s, a)
      /\ view[a].rev \in Nat /\ view[a].stage \in Nat /\ Stages \in Nat /\ MaxRevisions \in Nat
  BY <1>3, PassedFacts, PassedPlaces
<1>5. /\ view[a] = runtime /\ execs[a] = 0 /\ view[a].stage <= Stages
      /\ view[a].rev + (Stages - view[a].stage) + 2 <= MaxRevisions
  BY <1>3, PassedPlaces DEF IInv, WorkerInv, Ahead
<1>6. view[a].rev + 2 <= MaxRevisions
  BY <1>4, <1>5
<1>7. WorkerInv(a)'
  <2>1. Held(a)' /\ Loaded(a)' /\ execs'[a] <= 1
    BY <1>2, <1>4, <1>5 DEF Held, Loaded
  <2>2. Admitted(a)'
    BY <1>2, <1>4 DEF Admitted, Names, journal
  <2>3. Ahead(a)'
    BY <1>3, PassedPlaces DEF Ahead
  <2>4. Refusing(a)'
    BY <1>2, <1>4, <1>5, <1>6 DEF Refusing, Names
  <2> QED
    BY <2>1, <2>2, <2>3, <2>4 DEF WorkerInv
<1> QED
  BY <1>2, <1>3, <1>7, WorkerMoves

\* The failed save may have left the stage in the journal, or one of two checkpoints.
LEMMA GateStageFailsKeeps ==
    ASSUME IInv, NEW a \in Attempts, GateStageFails(a)
    PROVE  IInv'
<1>1. PICK at \in {"stages", "go"} : WorkerGoto(a, at, "refuse")
  BY DEF GateStageFails
<1>2. /\ SaveErr(NextStage(a)) /\ view' = [view EXCEPT ![a].stage = @ + 1]
      /\ worker[a] = "go" \/ view[a].stage < Stages - 1
      /\ UNCHANGED <<holders, command, used, loaded, entries, report, execs>>
  BY DEF GateStageFails, engine
<1>3. /\ worker' \in [Attempts -> WorkerPlaces] /\ worker[a] = at /\ worker'[a] = "refuse"
      /\ \A b \in Attempts \ {a} : worker'[b] = worker[b]
  BY <1>1, PassedPlaces, WorkerGotoIs
<1>4. /\ a \in holders /\ a \in loaded /\ Names(runtime, a) /\ \A s \in survives : Names(s, a)
      /\ view[a] \in Runtimes
      /\ view[a].rev \in Nat /\ view[a].stage \in Nat /\ Stages \in Nat /\ MaxRevisions \in Nat
  BY <1>3, PassedFacts, PassedPlaces
<1>5. /\ view[a] = runtime /\ execs[a] = 0 /\ view[a].stage <= Stages
      /\ view[a].rev + (Stages - view[a].stage) + 2 <= MaxRevisions
      /\ worker[a] = "stages" => view[a].stage <= Stages - 1
      /\ worker[a] = "go" => view[a].stage = Stages - 1
  BY <1>3, PassedPlaces DEF IInv, WorkerInv, Ahead
<1>6. view[a].stage <= Stages - 1 /\ view[a].rev + 2 <= MaxRevisions
  BY <1>3, <1>4, <1>5
<1>7. PICK s : s = NextStage(a)
  OBVIOUS
<1>8. s \in Runtimes /\ s.rev = runtime.rev + 1 /\ Names(s, a)
  BY <1>3, <1>6, <1>7, NextStageIs
<1>9. /\ runtime' \in survives' /\ survives' \subseteq Runtimes
      /\ \A t \in survives' : Recorded(t)'
      /\ survives' \subseteq survives \cup {s}
  BY <1>2, <1>3, <1>6, <1>7, <1>8, NextStageIs, SaveRecords
<1>10. PICK v : v = [view[a] EXCEPT !.stage = @ + 1]
  OBVIOUS
<1>11. /\ v \in Runtimes /\ v.rev = view[a].rev /\ v.attempt = view[a].attempt
       /\ v.pid = view[a].pid /\ v.phase = view[a].phase
  <2>1. "None" \in RuntimePhases
    BY DEF RuntimePhases
  <2>2. v \in Runtimes
    BY <1>4, <1>10, <2>1, RuntimeUpdates
  <2> QED
    BY <1>4, <1>10, <2>2 DEF Runtimes
<1>12. /\ view' \in [Attempts -> Runtimes] /\ view'[a] = v
       /\ \A b \in Attempts \ {a} : view'[b] = view[b]
  <2>1. view' = [view EXCEPT ![a] = v]
    BY <1>2, <1>10
  <2> QED
    BY <1>11, <2>1, StateTypes
<1>13. WorkerInv(a)'
  <2>1. Held(a)' /\ Loaded(a)' /\ execs'[a] <= 1
    BY <1>2, <1>4, <1>5 DEF Held, Loaded
  <2>2. Admitted(a)'
    BY <1>2, <1>4, <1>8, <1>9 DEF Admitted, Names
  <2>3. Ahead(a)'
    BY <1>3, PassedPlaces DEF Ahead
  <2>4. Refusing(a)'
    BY <1>2, <1>4, <1>5, <1>6, <1>11, <1>12 DEF Refusing, Names
  <2> QED
    BY <2>1, <2>2, <2>3, <2>4 DEF WorkerInv
<1>14. NeverRan'
  BY <1>2 DEF IInv, NeverRan
<1> QED
  BY <1>2, <1>3, <1>4, <1>9, <1>12, <1>13, <1>14, StateTypes, WorkerGoes DEF Hands

LEMMA GateRefuseKeeps ==
    ASSUME IInv, NEW a \in Attempts, GateRefuse(a)
    PROVE  IInv'
<1> DEFINE r == [view[a] EXCEPT !.rev = @ + 1, !.phase = "GateRefused"]
<1>1. /\ worker[a] = "refuse" /\ Exit(a)
      /\ \/ runtime.rev = view[a].rev /\ (SaveOk(r) \/ SaveErr(r))
         \/ UNCHANGED journal
      /\ UNCHANGED <<command, used, loaded, entries, report, execs>>
  BY DEF GateRefuse, engine
<1>2. CASE UNCHANGED journal
  BY <1>1, <1>2, QuietExit
<1>3. CASE runtime.rev = view[a].rev /\ (SaveOk(r) \/ SaveErr(r))
  <2>1. /\ a \in holders /\ a \in used /\ view[a] \in Runtimes /\ view[a].rev \in Nat
        /\ MaxRevisions \in Nat
    BY <1>1, PassedFacts, PassedPlaces
  <2>2. Names(view[a], a) /\ view[a].rev + 2 <= MaxRevisions
    BY <1>1 DEF IInv, WorkerInv, Refusing
  <2>3. PICK s : s = r
    OBVIOUS
  <2>4. s.rev = view[a].rev + 1 /\ s.phase = "GateRefused" /\ s.attempt = a
    BY <2>1, <2>2, <2>3 DEF Runtimes, Names
  <2>5. s \in Runtimes
    <3>1. "GateRefused" \in RuntimePhases
      BY DEF RuntimePhases
    <3> QED
      BY <2>1, <2>3, <3>1, RuntimeUpdates
  <2>6. runtime' = s => Recorded(s)'
    <3>1. s.rev + 1 <= MaxRevisions /\ a # None
      BY <2>1, <2>2, <2>4, ServiceAssumption DEF IInv, Types
    <3> QED
      BY <1>1, <2>1, <2>4, <3>1 DEF Recorded
  <2>7. /\ runtime' \in survives' /\ survives' \subseteq Runtimes
        /\ \A t \in survives' : Recorded(t)'
    BY <1>1, <1>3, <2>3, <2>4, <2>5, <2>6, SaveRecords
  <2> QED
    BY <1>1, <2>1, <2>7, WorkerExits
<1> QED
  BY <1>1, <1>2, <1>3

\* The engine takes the worker's place: the first time for this attempt.
LEMMA ExecKeeps ==
    ASSUME IInv, NEW a \in Attempts, Exec(a)
    PROVE  IInv'
<1>1. /\ WorkerGoto(a, "exec", "engine") /\ execs' = [execs EXCEPT ![a] = @ + 1]
      /\ UNCHANGED <<journal, holders, command, used, loaded, entries, view, report>>
  BY DEF Exec
<1>2. /\ worker' \in [Attempts -> WorkerPlaces] /\ worker[a] = "exec" /\ worker'[a] = "engine"
      /\ \A b \in Attempts \ {a} : worker'[b] = worker[b]
  BY <1>1, PassedPlaces, WorkerGotoIs
<1>3. /\ a \in holders /\ a \in loaded /\ a \in used /\ \A s \in survives : Names(s, a)
  BY <1>2, PassedFacts, PassedPlaces
<1>4. execs[a] = 0
  BY <1>2, PassedPlaces DEF IInv, WorkerInv, Ahead
<1>5. /\ execs' \in [Attempts -> Nat] /\ execs'[a] = 1
      /\ \A b \in Attempts \ {a} : execs'[b] = execs[b]
  BY <1>1, <1>4, StateTypes
<1>6. NeverRan'
  BY <1>1, <1>3, <1>5 DEF IInv, NeverRan
<1>7. \A s \in survives' : Recorded(s)'
  BY <1>1, <1>3, RecordFrame DEF IInv, Recorded, Names, journal
<1>8. WorkerInv(a)'
  <2>1. Held(a)' /\ Loaded(a)' /\ execs'[a] <= 1
    BY <1>1, <1>3, <1>5 DEF Held, Loaded
  <2>2. Admitted(a)'
    BY <1>1, <1>3 DEF Admitted, Names, journal
  <2>3. Ahead(a)' /\ Refusing(a)'
    BY <1>2, PassedPlaces DEF Ahead, Refusing
  <2> QED
    BY <2>1, <2>2, <2>3 DEF WorkerInv
<1>9. runtime' \in survives' /\ survives' \subseteq Runtimes
  BY <1>1, StateTypes DEF journal
<1> QED
  BY <1>1, <1>2, <1>3, <1>5, <1>6, <1>7, <1>8, <1>9, StateTypes, WorkerGoes DEF Hands

-----------------------------------------------------------------------------
(* The engine and the machine.                                             *)

\* What the engine reports is of the attempt that every checkpoint names as running.
LEMMA ReportsKeep ==
    ASSUME IInv, NEW a \in Attempts, Running(a), NEW r \in Statuses,
           report' = [report EXCEPT ![a] = r],
           UNCHANGED <<journal, holders, command, used, jobs, execs>>
    PROVE  IInv'
<1>1. worker[a] \in Through /\ \A s \in survives : Names(s, a)
  BY PassedFacts, PassedPlaces DEF Running
<1>2. \A s \in survives' : Recorded(s)'
  BY <1>1, RecordFrame DEF IInv, Recorded, Names, journal
<1>3. NeverRan' /\ WorkerInv(a)'
  BY WorkerFrame DEF IInv, NeverRan, jobs
<1>4. report' \in [Attempts -> Statuses]
  BY StateTypes
<1> QED
  BY <1>2, <1>3, <1>4, StateTypes, WorkerGoes DEF Hands, jobs, journal

LEMMA SuccessorIs ==
    ASSUME NEW r \in DOMAIN Successor
    PROVE  Successor[r] \in Statuses
BY DEF Successor, Statuses

LEMMA EngineReportKeeps ==
    ASSUME IInv, NEW a \in Attempts, EngineReport(a)
    PROVE  IInv'
<1>1. PICK r : r = Successor[report[a]]
  OBVIOUS
<1>2. r \in Statuses /\ report' = [report EXCEPT ![a] = r]
  BY <1>1, SuccessorIs DEF EngineReport
<1> QED
  BY <1>2, ReportsKeep DEF EngineReport

LEMMA EngineStoppingKeeps ==
    ASSUME IInv, NEW a \in Attempts, EngineStopping(a)
    PROVE  IInv'
<1>1. "STOPPING" \in Statuses
  BY DEF Statuses
<1> QED
  BY <1>1, ReportsKeep DEF EngineStopping

LEMMA PowerLossKeeps ==
    ASSUME IInv, PowerLoss
    PROVE  IInv'
<1>1. /\ runtime' \in survives /\ survives' = {runtime'} /\ holders' = {}
      /\ pc' = [c \in Commands |-> "idle"] /\ mine' = [c \in Commands |-> None]
      /\ seen' = [c \in Commands |-> 0] /\ sent' = [c \in Commands |-> FALSE]
      /\ worker' = [a \in Attempts |-> "none"] /\ view' = [a \in Attempts |-> NoRuntime]
      /\ UNCHANGED <<used, entries, report, execs>>
  BY DEF PowerLoss, engine
<1>2. Types'
  <2>1. "idle" \in Places /\ "none" \in WorkerPlaces
    BY DEF Places, WorkerPlaces
  <2> QED
    BY <1>1, <2>1, NoRuntimeIs DEF IInv, Types
<1>3. OneHolder' /\ NeverRan'
  BY <1>1 DEF IInv, OneHolder, NeverRan
<1>4. \A s \in survives' : Recorded(s)'
  <2>1. PICK s \in survives : runtime' = s
    BY <1>1
  <2>2. s.rev <= s.rev
    BY StateTypes DEF Runtimes
  <2>3. Recorded(s)'
    BY <1>1, <2>1, <2>2, RecordFrame DEF IInv
  <2> QED
    BY <1>1, <2>1, <2>3
<1>5. \A a \in Attempts : WorkerInv(a)'
  BY <1>1, NewcomerInv
<1>6. \A c \in Commands : CommandInv(c)'
  <2>1. "idle" \notin Locking \cup Starting \cup AtStop
    BY DEF Locking, Starting, AtStop
  <2> QED
    BY <1>1, <2>1 DEF CommandInv, Holds, Resolved, Chosen
<1> QED
  BY <1>2, <1>3, <1>4, <1>5, <1>6 DEF IInv

-----------------------------------------------------------------------------
(* The invariant.                                                          *)

LEMMA InitHolds ==
    ASSUME Init
    PROVE  IInv
<1>1. Types
  <2>1. "idle" \in Places /\ "none" \in WorkerPlaces /\ "none" \in Statuses
    BY DEF Places, WorkerPlaces, Statuses
  <2> QED
    BY <2>1, NoRuntimeIs DEF Init, Types
<1>2. OneHolder /\ NeverRan
  BY DEF Init, OneHolder, NeverRan
<1>3. \A s \in survives : Recorded(s)
  BY DEF Init, Recorded, NoRuntime
<1>4. \A a \in Attempts : WorkerInv(a)
  <2>1. "none" \notin Through \cup Gated
    BY DEF Through, Gated
  <2> QED
    BY <2>1 DEF Init, WorkerInv, Held, Loaded, Admitted, Ahead, Refusing
<1>5. \A c \in Commands : CommandInv(c)
  <2>1. "idle" \notin Locking \cup Starting \cup AtStop
    BY DEF Locking, Starting, AtStop
  <2> QED
    BY <2>1 DEF Init, CommandInv, Holds, Resolved, Chosen
<1> QED
  BY <1>1, <1>2, <1>3, <1>4, <1>5 DEF IInv

LEMMA StutterKeeps ==
    ASSUME IInv, UNCHANGED vars
    PROVE  IInv'
<1>1. Types' /\ OneHolder' /\ NeverRan'
  BY DEF vars, IInv, Types, OneHolder, NeverRan
<1>2. \A s \in survives' : Recorded(s)'
  BY RecordFrame DEF vars, IInv, Recorded
<1>3. \A a \in Attempts : WorkerInv(a)'
  BY WorkerFrame DEF vars, IInv, journal
<1>4. \A c \in Commands : CommandInv(c)'
  BY CommandFrame DEF vars, IInv
<1> QED
  BY <1>1, <1>2, <1>3, <1>4 DEF IInv

LEMMA CommandStepKeeps ==
    ASSUME IInv, NEW c \in Commands, CommandStep(c)
    PROVE  IInv'
<1>1. CASE Probe(c) \/ ProbeEnd(c) \/ StartLock(c) \/ StopBegin(c) \/ Quit(c)
  BY <1>1, BeginsKeep, ProbeEndKeeps, StopBeginKeeps, QuitKeeps
<1>2. CASE StartStep(c)
  BY <1>2, StartCheckKeeps, StartUnloadKeeps, StartInputsKeeps, StartFilesKeeps, StartJobKeeps,
     StartCreateKeeps, StartRefusedKeeps, StartSaveKeeps, StartSaveFailedKeeps, BootstrapKeeps
     DEF StartStep
<1>3. CASE StopStep(c)
  BY <1>3, StopRequestKeeps, StopObserveKeeps, StopInspectKeeps, StopUnknownKeeps,
     StopSignalKeeps, StopKillKeeps, StopSettleKeeps, ConfirmLockKeeps, ConfirmSaveKeeps,
     ConfirmFailedKeeps, BootoutCheckKeeps, BootoutKeeps
     DEF StopStep
<1> QED
  BY <1>1, <1>2, <1>3 DEF CommandStep

LEMMA GateStepKeeps ==
    ASSUME IInv, NEW a \in Attempts, GateStep(a)
    PROVE  IInv'
BY GateLockKeeps, ExitsKeep, GateConsumeKeeps, GateRejectedKeeps, GateStageKeeps,
   GateCheckKeeps, GateExecStageKeeps, ExecKeeps, GateFailsKeeps, GateStageFailsKeeps,
   GateRefuseKeeps
   DEF GateStep

LEMMA NextKeeps ==
    ASSUME IInv, Next
    PROVE  IInv'
<1>1. ASSUME NEW c \in Commands, CommandStep(c) PROVE IInv'
  BY <1>1, CommandStepKeeps
<1>2. ASSUME NEW a \in Attempts, GateStep(a) \/ EngineStep(a) \/ Die(a) \/ Kickstart(a) PROVE IInv'
  BY <1>2, GateStepKeeps, EngineReportKeeps, EngineStoppingKeeps, ExitsKeep, KickstartKeeps
     DEF EngineStep
<1> QED
  BY <1>1, <1>2, PowerLossKeeps DEF Next, ProcessStep

\* The inductive invariant holds in every state of the service: however commands, the
\* workers launchd starts and their deaths interleave, the lock has one holder, and every
\* checkpoint that may survive says what its holder relies on.
THEOREM Invariance == Spec => []IInv
<1>1. Init => IInv
  BY InitHolds
<1>2. IInv /\ [Next]_vars => IInv'
  BY NextKeeps, StutterKeeps
<1> QED
  BY <1>1, <1>2, PTL DEF Spec

\* run_gate lets an attempt become an engine at most once, however often its job is
\* entered and whichever save fails.
THEOREM ExecutesOnce == Spec => []ExecOnce
<1>1. IInv => ExecOnce
  BY DEF IInv, WorkerInv, ExecOnce
<1> QED
  BY <1>1, Invariance, PTL

\* Every checkpoint a power loss may leave names the running engine and its pid
\* (run_gate consumes the attempt before the exec), so that no start goes past it.
THEOREM EngineIsNamed == Spec => []JournalNamesEngine
<1>1. IInv => JournalNamesEngine
  <2>1. \A a \in Attempts : Running(a) => worker[a] \in Through
    BY PassedPlaces DEF Running
  <2> QED
    BY <2>1 DEF IInv, WorkerInv, Admitted, Names, JournalNamesEngine
<1> QED
  BY <1>1, Invariance, PTL

\* confirm_stopped tells the truth: of an attempt recorded as STOPPED_VERIFIED the engine
\* reported its storage closed, and no process of it is past the gate.
THEOREM StoppedStays == Spec => []StoppedIsTrue
<1>1. IInv => StoppedIsTrue
  <2> SUFFICES ASSUME IInv, NEW s \in survives, s.phase = "StoppedVerified"
               PROVE  report[s.attempt] = "STOPPED" /\ ~PastGate(s.attempt)
    BY DEF StoppedIsTrue
  <2>1. report[s.attempt] = "STOPPED" /\ s.attempt \in Attempts
    BY StateTypes DEF Recorded, IInv, Types, Runtimes
  <2>2. worker[s.attempt] \notin Through
    BY <2>1 DEF IInv, WorkerInv, Admitted, Names
  <2>3. worker[s.attempt] \in WorkerPlaces
    BY <2>1, StateTypes
  <2> QED
    BY <2>1, <2>2, <2>3 DEF PastGate, WorkerPlaces
<1> QED
  BY <1>1, Invariance, PTL

\* The revisions that start and run_gate ask for beforehand (START_REVISIONS and
\* GATE_REVISIONS) suffice for the refusal or the verified stop that ends the attempt.
THEOREM EndHasRoom == Spec => []EndFits
<1>1. IInv => EndFits
  <2> SUFFICES ASSUME IInv PROVE EndFits
    OBVIOUS
  <2>1. ASSUME NEW a \in Attempts, worker[a] = "refuse" PROVE view[a].rev + 1 <= MaxRevisions
    <3>1. view[a].rev \in Nat /\ MaxRevisions \in Nat
      BY <2>1, PassedFacts, PassedPlaces
    <3>2. view[a].rev + 2 <= MaxRevisions
      BY <2>1 DEF IInv, WorkerInv, Refusing
    <3> QED
      BY <3>1, <3>2
  <2>2. ASSUME NEW c \in Commands, pc[c] = "verify", Confirmed(c),
               runtime.phase # "StoppedVerified"
        PROVE  runtime.rev + 1 <= MaxRevisions
    <3>1. /\ Recorded(runtime) /\ runtime.phase \in RuntimePhases /\ runtime.rev \in Nat
          /\ MaxRevisions \in Nat
      BY StateTypes, ServiceAssumption DEF Runtimes
    <3>2. runtime.attempt # None /\ runtime.phase # "StartPrepared"
      BY <2>2, StopTypes, StopPlaces, ServiceAssumption DEF Confirmed
    <3>3. runtime.phase \in {"GateConsumed", "GateRefused"}
      BY <2>2, <3>1, <3>2 DEF Recorded, RuntimePhases
    <3> QED
      BY <3>1, <3>3 DEF Recorded
  <2> QED
    BY <2>1, <2>2 DEF EndFits
<1> QED
  BY <1>1, Invariance, PTL

-----------------------------------------------------------------------------
(* One attempt after the other.                                            *)

\* A new attempt enters the journal.
NewAttempt == runtime'.attempt # runtime.attempt /\ runtime'.rev > runtime.rev

LEMMA SaveIsNew ==
    ASSUME NEW s, SaveOk(s) \/ SaveErr(s)
    PROVE  runtime' = s \/ runtime' = runtime
BY DEF SaveOk, SaveErr, journal

LEMMA CommandNews ==
    ASSUME IInv, NEW c \in Commands, CommandStep(c), NewAttempt
    PROVE  pc[c] = "save"
<1>1. ~UNCHANGED runtime /\ runtime \in Runtimes /\ runtime.rev \in Nat
  BY StateTypes DEF NewAttempt, Runtimes
<1>2. CASE StartCreate(c)
  <2>1. runtime'.rev = 0
    BY <1>2 DEF StartCreate, NoRuntime
  <2> QED
    BY <1>1, <2>1 DEF NewAttempt
<1>3. CASE ConfirmSave(c) \/ ConfirmFailed(c)
  <2>1. SaveOk(Stopped) \/ SaveErr(Stopped)
    BY <1>1, <1>3 DEF ConfirmSave, ConfirmFailed, journal
  <2>2. runtime' = Stopped
    BY <1>1, <2>1, SaveIsNew
  <2>3. runtime'.attempt = runtime.attempt
    BY <1>1, <2>2 DEF Stopped, Runtimes
  <2> QED
    BY <2>3 DEF NewAttempt
<1>4. CASE StartSave(c) \/ StartSaveFailed(c)
  BY <1>4 DEF StartSave, StartSaveFailed, Goto
<1>5. CASE \/ Probe(c) \/ ProbeEnd(c) \/ StartLock(c) \/ StopBegin(c) \/ Quit(c)
           \/ StartCheck(c) \/ StartUnload(c) \/ StartInputs(c) \/ StartFiles(c) \/ StartJob(c)
           \/ StartRefused(c) \/ Bootstrap(c)
  BY <1>1, <1>5 DEF Probe, ProbeEnd, StartLock, StopBegin, Quit, StartCheck, StartUnload,
     StartInputs, StartFiles, StartJob, StartRefused, Bootstrap, journal
<1>6. CASE \/ StopRequest(c) \/ StopObserve(c) \/ StopInspect(c) \/ StopUnknown(c)
           \/ StopSignal(c) \/ StopKill(c) \/ StopMissed(c) \/ StopSettle(c) \/ ConfirmLock(c)
           \/ BootoutCheck(c) \/ Bootout(c)
  BY <1>1, <1>6 DEF StopRequest, StopObserve, StopInspect, StopUnknown, StopSignal, StopKill,
     StopMissed, StopSettle, ConfirmLock, BootoutCheck, Bootout, journal
<1> QED
  BY <1>2, <1>3, <1>4, <1>5, <1>6 DEF CommandStep, StartStep, StopStep

\* Workers record only what becomes of the attempt that is in the journal.
LEMMA NoWorkerNews ==
    ASSUME IInv, NEW a \in Attempts, GateStep(a) \/ EngineStep(a) \/ Die(a) \/ Kickstart(a)
    PROVE  runtime'.attempt = runtime.attempt
<1>1. runtime \in Runtimes /\ view[a] \in Runtimes
  BY StateTypes
<1>2. CASE GateConsume(a) \/ (GateRejected(a) /\ ~UNCHANGED runtime)
  <2>1. SaveOk(Consumed(a)) \/ SaveErr(Consumed(a))
    BY <1>2 DEF GateConsume, GateRejected, journal
  <2>2. runtime' = Consumed(a) \/ runtime' = runtime
    BY <2>1, SaveIsNew
  <2> QED
    BY <1>1, <2>2 DEF Consumed, Runtimes
<1>3. CASE GateStage(a) \/ GateExecStage(a) \/ GateStageFails(a)
  <2>1. worker[a] \in {"stages", "go"} /\ (SaveOk(NextStage(a)) \/ SaveErr(NextStage(a)))
    BY <1>3 DEF GateStage, GateExecStage, GateStageFails, WorkerGoto
  <2>2. runtime' = NextStage(a) \/ runtime' = runtime
    BY <2>1, SaveIsNew
  <2>3. view[a] = runtime
    BY <2>1, PassedPlaces DEF IInv, WorkerInv, Ahead
  <2> QED
    BY <1>1, <2>2, <2>3 DEF NextStage, Runtimes
<1>4. CASE GateRefuse(a)
  <2> DEFINE r == [view[a] EXCEPT !.rev = @ + 1, !.phase = "GateRefused"]
  <2>1. worker[a] = "refuse" /\ (SaveOk(r) \/ SaveErr(r) \/ UNCHANGED runtime)
    BY <1>4 DEF GateRefuse, journal
  <2>2. runtime' = r \/ runtime' = runtime
    BY <2>1, SaveIsNew
  <2>3. view[a].attempt = a /\ runtime.attempt = a
    BY <2>1, PassedFacts, PassedPlaces DEF IInv, WorkerInv, Refusing, Names
  <2> QED
    BY <1>1, <2>2, <2>3 DEF Runtimes
<1>5. CASE \/ GateLock(a) \/ GateBusy(a) \/ GateCheck(a) \/ Exec(a) \/ GateFails(a)
           \/ EngineStep(a) \/ Die(a) \/ Kickstart(a)
  BY <1>5 DEF GateLock, GateBusy, GateCheck, Exec, GateFails, EngineStep, EngineReport,
     EngineStopping, EngineExit, Die, Kickstart, journal
<1> QED
  BY <1>2, <1>3, <1>4, <1>5 DEF GateStep

\* A start records a new attempt (start, under the lock) only when the engine of the
\* attempt before it reported its storage closed and no worker is past the gate.
THEOREM AttemptsDoNotOverlap == Spec => NoOverlap
<1>1. ASSUME IInv, [Next]_vars, NewAttempt
      PROVE  /\ runtime.attempt # None => report[runtime.attempt] = "STOPPED"
             /\ \A a \in Attempts : ~PastGate(a)
  <2>1. PICK c \in Commands : pc[c] = "save"
    <3>1. CASE UNCHANGED vars
      BY <1>1, <3>1 DEF vars, NewAttempt
    <3>2. CASE PowerLoss
      <4>1. PICK s \in survives : runtime' = s
        BY <3>2 DEF PowerLoss
      <4>2. s.rev <= runtime.rev /\ s.rev \in Nat /\ runtime.rev \in Nat
        BY <1>1, StateTypes DEF Recorded, Runtimes
      <4> QED
        BY <1>1, <4>1, <4>2 DEF NewAttempt
    <3>3. ASSUME NEW a \in Attempts, GateStep(a) \/ EngineStep(a) \/ Die(a) \/ Kickstart(a)
          PROVE  FALSE
      BY <1>1, <3>3, NoWorkerNews DEF NewAttempt
    <3> QED
      BY <1>1, <3>1, <3>2, <3>3, CommandNews DEF Next, ProcessStep
  <2>2. c \in holders /\ runtime.phase \in {"None", "Empty", "StoppedVerified"}
    BY <1>1, <2>1 DEF IInv, CommandInv, Holds, Resolved, Locking, Starting
  <2>3. runtime.attempt # None => report[runtime.attempt] = "STOPPED"
    BY <1>1, <2>2, StateTypes DEF Recorded
  <2>4. \A a \in Attempts : ~PastGate(a)
    BY <1>1, <2>2, CommandAlone DEF PastGate
  <2> QED
    BY <2>3, <2>4
<1>2. IInv /\ [Next]_vars =>
        [runtime'.attempt # runtime.attempt /\ runtime'.rev > runtime.rev =>
            /\ runtime.attempt # None => report[runtime.attempt] = "STOPPED"
            /\ \A a \in Attempts : ~PastGate(a)]_vars
  BY <1>1 DEF NewAttempt
<1> QED
  BY <1>2, Invariance, PTL DEF Spec, NoOverlap
=============================================================================
