------------------------------ MODULE Catalog -------------------------------
(***************************************************************************)
(* The management home and its node catalog (operator/home.rs, catalog.rs, *)
(* target.rs, nodes.rs).  Several consoles and commands open one home,     *)
(* hold its catalog in memory across a prompt, and connect names to        *)
(* registered instances.  The writer lock is taken for one save only, so   *)
(* every save first compares what it remembers with what is stored.        *)
(* Meanwhile the directory behind an entry may be replaced, or its         *)
(* registration record rewritten.                                          *)
(*                                                                         *)
(* A store compares checkpoint revisions, so what a process remembers is   *)
(* its entries and whether the checkpoint they were read from is the last. *)
(***************************************************************************)
EXTENDS Integers, FiniteSets

CONSTANTS
    Procs,       \* the running bxdl processes
    Paths,       \* control directories of registered instances
    Names,       \* node names
    NoName,      \* Entry.alias = None
    MaxEntries,  \* entries of a catalog (MAX_ENTRIES = 256 in the code)
    MaxCalls,    \* bound: commands begun
    MaxFaults    \* bound: kills, failed saves and outside changes together

Nobody == "nobody"

ASSUME CatalogAssumption ==
    /\ NoName \notin Names /\ Nobody \notin Procs
    /\ MaxEntries \in Nat /\ MaxCalls \in Nat /\ MaxFaults \in Nat

VARIABLES
    home,      \* the management root: "absent", "partial" (no marker yet) or "whole"
    catalog,   \* the entries of its catalog
    inst,      \* what is at each control path: root identity and binding hash
    fresh,     \* the last identity or binding handed out
    homeLock,  \* the process that holds .catalog.lock
    st,        \* the call each process is in
    calls,     \* the commands begun so far
    faults

catalogVars == <<home, catalog, inst, fresh, homeLock>>

Absent == [ident |-> 0, bind |-> 0]
Idle == [at |-> "idle", op |-> "none", name |-> NoName, path |-> NoName,
         snap |-> Absent, cat |-> {}, cur |-> FALSE]

Go(p, c) == st' = [st EXCEPT ![p] = c]
At(p, a) == st[p].at = a
\* The call is over; its result matters to no property of this module.
Done(p) == Go(p, [Idle EXCEPT !.at = "done"])
\* A process with nothing to do begins a command.
Begin(p, c) ==
    /\ At(p, "idle")
    /\ calls < MaxCalls /\ calls' = calls + 1
    /\ Go(p, c)
\* Something outside the model's control happens once more.
Fault == faults < MaxFaults /\ faults' = faults + 1

\* A directory replaced at the path has another device or inode; a record
\* rewritten in place has another hash.
RootIdentity(path) == inst[path].ident
Binding(path) == inst[path].bind
Inspect(path) == [ident |-> RootIdentity(path), bind |-> Binding(path)]

----------------------------------------------------------------------------
(* Opening *)

\* The instance is inspected before the home is opened.
Resolve(p, op, name, path) ==
    /\ inst[path] # Absent
    /\ Begin(p, [Idle EXCEPT !.at = "open", !.op = op, !.name = name, !.path = path,
                             !.snap = Inspect(path)])
    /\ UNCHANGED <<catalogVars, faults>>

\* `nodes add <name> --instance <path>`, and the console's "open a path",
\* which saves the target without a name.
AddNode(p, name, path) == Resolve(p, "named", name, path)
OpenPath(p, path) == Resolve(p, "add", NoName, path)

\* The console's `hide` and `refresh`, and `setup new`, start from the home.
Console(p, op) ==
    /\ Begin(p, [Idle EXCEPT !.at = "open", !.op = op])
    /\ UNCHANGED <<catalogVars, faults>>

Opened == [named |-> "pin", add |-> "pin", remove |-> "choose", refresh |-> "choose", new |-> "create"]

\* Home::open refuses a root without its marker; a missing root is created
\* only by a call that was given permission to write.
OpenCatalog(p) ==
    /\ At(p, "open")
    /\ LET c == st[p] IN
       \/ /\ home = "whole"
          /\ Go(p, [c EXCEPT !.at = Opened[c.op], !.cat = IF c.op = "new" THEN @ ELSE catalog,
                             !.cur = c.op # "new"])
          /\ UNCHANGED home
       \/ /\ home = "absent" /\ c.op \in {"named", "add", "new"}
          /\ home' = "partial"
          /\ Go(p, [c EXCEPT !.at = "mkhome"])
       \/ /\ \/ home = "partial"
             \/ home = "absent" /\ c.op \notin {"named", "add", "new"}
          /\ Done(p)
          /\ UNCHANGED home
    /\ UNCHANGED <<catalog, inst, fresh, homeLock, faults, calls>>

\* Lock file, first checkpoint and marker are written; the store is then
\* opened anew, since another console may save as soon as the marker exists.
MakeHome(p) ==
    /\ At(p, "mkhome")
    /\ home' = "whole"
    /\ catalog' = {}
    /\ Go(p, [st[p] EXCEPT !.at = "open"])
    /\ UNCHANGED <<inst, fresh, homeLock, faults, calls>>

\* The user picks an entry of the catalog as it was read, and confirms.
Choose(p) ==
    /\ At(p, "choose")
    /\ \/ \E e \in st[p].cat :
             Go(p, [st[p] EXCEPT !.at = IF st[p].op = "remove" THEN "lock" ELSE "pin", !.path = e.path,
                                 !.snap = [ident |-> e.ident, bind |-> e.bind]])
       \/ Done(p)
    /\ UNCHANGED <<catalogVars, faults, calls>>

----------------------------------------------------------------------------
(* Saving *)

\* target::recheck: the root at the path is still the one remembered.
Recheck(c) == RootIdentity(c.path) = c.snap.ident

\* Mutant: a refresh takes whatever directory is at the path now.
RefreshFollows(c) == inst[c.path] # Absent

\* A refresh also refuses a registration other than the one its name is bound to.
RefreshFits(c) == Recheck(c) /\ (c.snap.bind = 0 \/ Binding(c.path) = c.snap.bind)

Pin(p) ==
    /\ At(p, "pin")
    /\ LET c == st[p] IN
       IF IF c.op = "refresh" THEN RefreshFits(c) ELSE Recheck(c)
       THEN Go(p, [c EXCEPT !.at = "lock", !.snap = Inspect(c.path)])
       ELSE Done(p)
    /\ UNCHANGED <<catalogVars, faults, calls>>

\* Home::recheck: marker, lock file and catalog are all in place.
HomeWhole == home = "whole"
CheckCurrent(c) == HomeWhole /\ c.cur

\* Home::lock does not wait; under the lock the memory must still be current.
LockHome(p) ==
    /\ At(p, "lock")
    /\ IF homeLock = Nobody /\ CheckCurrent(st[p])
       THEN homeLock' = p /\ Go(p, [st[p] EXCEPT !.at = "save"])
       ELSE Done(p) /\ UNCHANGED homeLock
    /\ UNCHANGED <<home, catalog, inst, fresh, faults, calls>>

SameTarget(e, c) == e.path = c.path \/ e.ident = c.snap.ident
Known(c) == {e \in c.cat : SameTarget(e, c)}

\* add refuses a target that is listed; add_named refuses a listed one whose
\* path or root moved or that has another name, and a name in use elsewhere,
\* and reads the binding again under the lock.
Addable(c) ==
    /\ Known(c) = {}
    /\ Cardinality(c.cat) < MaxEntries
Nameable(c) ==
    /\ \A e \in Known(c) :
          /\ e.path = c.path /\ e.ident = c.snap.ident
          /\ e.alias \in {NoName, c.name}
          /\ e.bind \in {0, c.snap.bind}
    /\ \A e \in c.cat \ Known(c) : e.alias # c.name
    /\ Inspect(c.path) = c.snap
    /\ Known(c) # {} \/ Cardinality(c.cat) < MaxEntries

Entry(c, alias, bind) == [path |-> c.path, ident |-> c.snap.ident, alias |-> alias, bind |-> bind]

\* The entries the call wants stored; the stored ones if it is refused.
Wanted(c) ==
    CASE c.op = "add" /\ Addable(c) -> c.cat \cup {Entry(c, NoName, 0)}
      [] c.op = "named" /\ Nameable(c) -> (c.cat \ Known(c)) \cup {Entry(c, c.name, c.snap.bind)}
      [] c.op = "remove" -> {e \in c.cat : e.path # c.path}
      [] c.op = "refresh" -> {IF e.path = c.path THEN [e EXCEPT !.ident = c.snap.ident] ELSE e :
                                 e \in c.cat}
      [] OTHER -> c.cat

\* Record::validate: paths, roots and names are each listed once.
Valid(cat) ==
    /\ Cardinality(cat) <= MaxEntries
    /\ \A e, f \in cat : e.path = f.path \/ e.ident = f.ident \/ (e.alias = f.alias /\ e.alias # NoName)
                          => e = f

\* Store::save publishes the next checkpoint or, failing, none; a name that
\* is already connected appends nothing, while a refresh always does.
SaveEntries(p) ==
    /\ At(p, "save")
    /\ LET c == st[p]
           stores == Valid(Wanted(c)) /\ (c.op = "refresh" \/ Wanted(c) # c.cat)
       IN
       \/ /\ stores
          /\ catalog' = Wanted(c)
          /\ st' = [x \in Procs |-> IF x = p THEN [Idle EXCEPT !.at = "done"]
                                  ELSE [st[x] EXCEPT !.cur = FALSE]]
          /\ UNCHANGED faults
       \/ /\ IF stores THEN Fault ELSE UNCHANGED faults
          /\ Done(p)
          /\ UNCHANGED catalog
    /\ homeLock' = Nobody
    /\ UNCHANGED <<home, inst, fresh, calls>>

----------------------------------------------------------------------------
(* What happens outside *)

\* A control directory is moved away and another one put in its place.
ReplaceRoot(path) ==
    /\ inst[path] # Absent
    /\ Fault
    /\ fresh' = fresh + 1
    /\ inst' = [inst EXCEPT ![path] = [ident |-> fresh', bind |-> fresh']]
    /\ UNCHANGED <<home, catalog, homeLock, st, calls>>

\* Its registration record is rewritten in place.
RewriteRecord(path) ==
    /\ inst[path] # Absent
    /\ Fault
    /\ fresh' = fresh + 1
    /\ inst' = [inst EXCEPT ![path].bind = fresh']
    /\ UNCHANGED <<home, catalog, homeLock, st, calls>>

----------------------------------------------------------------------------
(* Properties *)

\* A name, once connected, keeps naming the same registration - the same
\* path, root and binding - until its entry is removed: no save by any
\* console, with whatever stale memory and whatever was put at the path,
\* moves a name or renames a target (catalog.rs, add_named and refresh).
NameStable ==
    [][\A e \in catalog, f \in catalog' :
          e.alias # NoName /\ (f.alias = e.alias \/ f.path = e.path) => f = e]_catalog
=============================================================================
