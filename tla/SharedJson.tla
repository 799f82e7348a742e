------------------------------ MODULE SharedJson ------------------------------
(***************************************************************************)
(* The JSON files that every process of the suite writes: pids.json        *)
(* (src/pids.py), a tool's entry in the registry (src/gme.py), config.json *)
(* (src/settings.py) and manifest.json (src/paths.py), each under the      *)
(* O_EXCL lock file of paths.json_lock.                                    *)
(*                                                                         *)
(* A lock file older than the timeout is taken for a dead writer's and     *)
(* removed, whoever has made it; a writer that has waited as long as that  *)
(* goes in without one; and who leaves removes the file by name, be it     *)
(* still his or not.  On Windows a file another process holds open cannot  *)
(* be removed.  os.replace puts a file in place in one step.               *)
(*                                                                         *)
(* The files have a lock each and nothing to do with each other, so a      *)
(* behaviour is about one of them.  The client that a process records in   *)
(* the manifest, the knob it sets and the tool it unmanages are named by   *)
(* the process.  A process has one operation of its own to do; what it did *)
(* before is in the file to begin with.                                    *)
(***************************************************************************)
EXTENDS Naturals, FiniteSets

CONSTANTS
  Procs,     \* the processes
  NoLock,    \* there is no lock file
  Absent,    \* a tool without an entry, or with one that is not JSON (which
             \* write_tool moves aside); nothing read yet
  MaxDeaths  \* bound: processes that die

Files == {"pids", "tool", "config", "manifest"}

ASSUME SharedJsonAssumption == MaxDeaths \in Nat
ASSUME NoLockIsNone == NoLock \notin [by : Procs, old : BOOLEAN]

VARIABLES
  posix,    \* whether a file that is open can be removed
  name,     \* the file this behaviour is about
  file,     \* what is in it
  lock,     \* who made the lock file, and whether it is old
  op,       \* op[p]: what p does, where it is and what it has read
  dead,     \* processes that have died
  trouble   \* ghost: the lock may have let two writers in

vars == <<posix, name, file, lock, op, dead, trouble>>

Entries == [status : {"installed", "missing"}, linked : BOOLEAN]
Idle == [at |-> "idle", kind |-> "none", held |-> FALSE, late |-> FALSE,
         early |-> Absent, seen |-> Absent]
Done == [Idle EXCEPT !.at = "done"]

Kinds == CASE name = "pids" -> {"record", "forget", "tracked"}
           [] name = "tool" -> {"register", "missing", "migrate"}
           [] name = "config" -> {"knob", "unmanage"}
           [] name = "manifest" -> {"manifest"}
\* Operations that read the file before they ask for its lock as well.
Early == {"missing", "migrate", "unmanage", "manifest"}

Inside == {p \in Procs : op[p].at \in {"write", "unlock"}}

TypeOK ==
  /\ posix \in BOOLEAN
  /\ file \in CASE name \in {"pids", "manifest"} -> SUBSET Procs
               [] name = "tool" -> Entries \cup {Absent}
               [] name = "config" -> [knobs : SUBSET Procs, unmanaged : SUBSET Procs]
  /\ lock \in [by : Procs, old : BOOLEAN] \cup {NoLock}
  /\ \A p \in Procs :
       /\ op[p].at \in {"idle", "done", "early", "lock", "break", "write", "unlock"}
       /\ op[p].at \notin {"idle", "done"} => op[p].kind \in Kinds
       /\ op[p].held => p \in Inside
  /\ dead \subseteq Procs /\ Cardinality(dead) <= MaxDeaths
  /\ trouble \in BOOLEAN

Init ==
  /\ posix \in BOOLEAN
  /\ \/ name \in {"pids", "manifest"} /\ file \in SUBSET Procs
     \/ name = "tool" /\ file \in {Absent, [status |-> "installed", linked |-> TRUE]}
     \/ name = "config" /\ file = [knobs |-> {}, unmanaged |-> {}]
  /\ lock = NoLock
  /\ op = [p \in Procs |-> Idle]
  /\ dead = {}
  /\ trouble = FALSE

-----------------------------------------------------------------------------
(* What each operation makes of the file it has read.                      *)

\* _merge_entry: a None (here: linked FALSE) does not take a value away.
Merge(old, new) == [new EXCEPT !.linked = @ \/ old.linked]

\* register_installed and migrate_tool know nothing of who manages the tool.
Registered == [status |-> "installed", linked |-> FALSE]
\* write_tool.
Written(o, new) == IF o.seen \in Entries THEN Merge(o.seen, new) ELSE new
\* mark_missing writes the whole entry it has read before.
Marked(o) == Written(o, [o.early EXCEPT !.status = "missing"])
\* pids.alive
Alive(ps) == ps \ dead
\* record_self, forget, tracked.
Recorded(o, p) == Alive(o.seen) \cup {p}
Forgotten(o, p) == o.seen \ {p}
Pruned(o) == Alive(o.seen)
\* settings.set, of one knob or of the list that set_unmanaged has read.
KnobSet(o, p) == [o.seen EXCEPT !.knobs = @ \cup {p}]
Unmanaged(o, p) == [o.seen EXCEPT !.unmanaged = o.early.unmanaged \cup {p}]
\* _sync_manifest_clients: the union with what was read outside the lock.
Synced(o, p) == o.early \cup {p}

Changed(p) ==
  LET o == op[p] IN
  CASE o.kind = "record" -> Recorded(o, p)
    [] o.kind = "forget" -> Forgotten(o, p)
    [] o.kind = "tracked" -> Pruned(o)
    [] o.kind \in {"register", "migrate"} -> Written(o, Registered)
    [] o.kind = "missing" -> Marked(o)
    [] o.kind = "knob" -> KnobSet(o, p)
    [] o.kind = "unmanage" -> Unmanaged(o, p)
    [] o.kind = "manifest" -> Synced(o, p)

-----------------------------------------------------------------------------
Goto(p, where) == op' = [op EXCEPT ![p].at = where]
\* Mutant of Leaves: the descriptor is kept.
LeavesOpen(p) == op' = [op EXCEPT ![p].at = "done"]
Leaves(p) == op' = [op EXCEPT ![p] = Done]

Begin(p, k) ==
  /\ op[p] = Idle /\ p \notin dead
  /\ op' = [op EXCEPT ![p] = [Idle EXCEPT !.at = IF k \in Early THEN "early" ELSE "lock",
                                          !.kind = k]]
  /\ UNCHANGED <<posix, name, file, lock, dead, trouble>>

\* mark_missing (uninstall, or _demote_if_ours) has no entry to mark.
NothingToMark(p) == op[p].kind = "missing" /\ file \notin Entries
\* detect_old_installs offers what has no entry that says `installed'.
NothingToMigrate(p) ==
  op[p].kind = "migrate" /\ file \in Entries /\ file.status = "installed"

\* Manifest.load, unmanaged_tools, read_tool and list_tools: no lock.
ReadEarly(p) ==
  /\ op[p].at = "early"
  /\ IF NothingToMark(p) \/ NothingToMigrate(p) THEN Leaves(p)
     ELSE op' = [op EXCEPT ![p].early = file, ![p].at = "lock"]
  /\ UNCHANGED <<posix, name, file, lock, dead, trouble>>

\* Mutant of Lock: without O_EXCL.
LockShared(p) ==
  /\ op[p].at = "lock"
  /\ lock' = [by |-> p, old |-> FALSE]
  /\ op' = [op EXCEPT ![p].at = "write", ![p].seen = file, ![p].held = TRUE]
  /\ UNCHANGED <<posix, name, file, dead, trouble>>

\* os.open(O_CREAT | O_EXCL) succeeds, and the file is read.
Lock(p) ==
  /\ op[p].at = "lock" /\ lock = NoLock
  /\ lock' = [by |-> p, old |-> FALSE]
  /\ op' = [op EXCEPT ![p].at = "write", ![p].seen = file, ![p].held = TRUE]
  /\ UNCHANGED <<posix, name, file, dead, trouble>>

\* The lock file there is older than the timeout.
SeeOld(p) ==
  /\ op[p].at = "lock" /\ lock # NoLock /\ lock.old
  /\ Goto(p, "break")
  /\ UNCHANGED <<posix, name, file, lock, dead, trouble>>

\* A file some live process has open goes on POSIX only.
Removable(p) == posix \/ lock = NoLock \/ lock.by \in dead \cup {p}

\* Mutant of GiveUp: at once.
GiveUpEarly(p) ==
  /\ op[p].at = "lock" /\ lock # NoLock
  /\ op' = [op EXCEPT ![p].at = "write", ![p].seen = file]
  /\ UNCHANGED <<posix, name, file, lock, dead, trouble>>

\* The deadline has passed on a lock file that is not old, cannot go, or went
\* between the open and the stat: on without a lock.
GiveUp(p) ==
  /\ op[p].at = "lock" /\ op[p].late
  /\ (lock # NoLock /\ lock.old) => ~Removable(p)
  /\ op' = [op EXCEPT ![p].at = "write", ![p].seen = file]
  /\ trouble' = TRUE
  /\ UNCHANGED <<posix, name, file, lock, dead>>

\* Mutant of Break: the old lock file stays.
BreakNothing(p) ==
  /\ op[p].at = "break"
  /\ Goto(p, "lock")
  /\ UNCHANGED <<posix, name, file, lock, dead, trouble>>

\* lock.unlink, of whatever is there by now.
Break(p) ==
  /\ op[p].at = "break"
  /\ lock' = IF Removable(p) THEN NoLock ELSE lock
  /\ Goto(p, "lock")
  /\ UNCHANGED <<posix, name, file, dead, trouble>>

\* atomic_write_json; forget and tracked write only what has changed.
Write(p) ==
  /\ op[p].at = "write"
  /\ file' = IF op[p].kind \in {"forget", "tracked"} /\ Changed(p) = op[p].seen
             THEN file ELSE Changed(p)
  /\ Goto(p, "unlock")
  /\ UNCHANGED <<posix, name, lock, dead, trouble>>

\* os.close and lock.unlink, of one's own lock file or of the one that has
\* taken its place.
Unlock(p) ==
  /\ op[p].at = "unlock"
  /\ lock' = IF op[p].held /\ Removable(p) THEN NoLock ELSE lock
  /\ Leaves(p)
  /\ UNCHANGED <<posix, name, file, dead, trouble>>

\* The timeout passes: the lock file is old and every waiter late.  With a
\* writer still inside that is trouble: he is slow.
TimePasses ==
  /\ lock' = IF lock = NoLock THEN NoLock ELSE [lock EXCEPT !.old = TRUE]
  /\ op' = [p \in Procs |-> IF op[p].at \in {"lock", "break"}
                            THEN [op[p] EXCEPT !.late = TRUE] ELSE op[p]]
  /\ trouble' = (trouble \/ Inside # {})
  /\ UNCHANGED <<posix, name, file, dead>>

\* p dies where it is.  The lock file it leaves may be seen old by two
\* waiters, the second of which removes the first one's: on POSIX.
Die(p) ==
  /\ op[p] # Done /\ p \notin dead /\ Cardinality(dead) < MaxDeaths
  /\ dead' = dead \cup {p}
  /\ trouble' = (trouble \/ (posix /\ p \in Inside))
  /\ Leaves(p)
  /\ UNCHANGED <<posix, name, file, lock>>

Step(p) ==
  \/ ReadEarly(p) \/ Lock(p) \/ SeeOld(p) \/ Break(p) \/ GiveUp(p)
  \/ Write(p) \/ Unlock(p)

Next ==
  \/ \E p \in Procs :
       \/ \E k \in Kinds : Begin(p, k)
       \/ ReadEarly(p) \/ Lock(p) \/ SeeOld(p) \/ Break(p) \/ GiveUp(p)
       \/ Write(p) \/ Unlock(p)
       \/ Die(p)
  \/ TimePasses

\* A process that is not killed goes on; time goes on.
Fairness == /\ \A p \in Procs : WF_vars(Step(p))
            /\ WF_vars(TimePasses)

Spec == Init /\ [][Next]_vars /\ Fairness

-----------------------------------------------------------------------------
(* What the lock and its users promise.                                    *)

\* Two writers of one file are apart, unless one of them was slow, waited in
\* vain or (on POSIX) died inside.
OneWriter == Cardinality(Inside) <= 1 \/ trouble

\* With the lock in order nobody's update is lost: a process that recorded
\* itself stays in pids.json until it dies or leaves, a knob stays set, and neither
\* a reinstall nor mark_missing takes away who manages a tool.
UpdatesStay ==
  [][~trouble =>
       /\ name = "pids" => \A p \in (file \ dead) \ file' : op[p].kind = "forget"
       /\ name = "config" => file.knobs \subseteq file'.knobs
       /\ name = "tool" /\ file \in Entries =>
            file' \in Entries /\ (file.linked => file'.linked)]_vars

\* Whoever holds the lock, dies with it or lets it get old: every operation
\* ends, since again and again none is under way.
EveryWriterReturns == []<>(\A p \in Procs : op[p] \in {Idle, Done})

=============================================================================
