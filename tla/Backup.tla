-------------------------------- MODULE Backup --------------------------------
(***************************************************************************)
(* The daily backup (src/backup.py): one folder per day, built in          *)
(* <folder>.tmp and renamed into place, an existing folder being moved to  *)
(* <folder>.old while it is replaced, and the newest Keep folders kept.    *)
(*                                                                         *)
(* A process is one that may call run(): the daemon's _sleep_monitor       *)
(* (src/server.py:1220-1234) and `gray-matter backup [--force]`            *)
(* (src/cli.py:340-355).  backup._LOCK is a threading.Lock: it keeps two   *)
(* calls of one process apart, so a process here runs one at a time, and   *)
(* nothing keeps two processes apart.  A process may be killed between any *)
(* two file-system operations.  Overlap says whether runs of two processes *)
(* may be in flight at once; without it they follow one another.           *)
(*                                                                         *)
(* A directory is the set of the files in it.  One file's own copy (to     *)
(* <file>.tmp, then os.replace) is one step.                               *)
(***************************************************************************)
EXTENDS Naturals, FiniteSets, FiniteSetsExt

CONSTANTS
  Procs,       \* the processes that may run a backup
  Forced,      \* those that may pass force=True
  Overlap,     \* whether two runs may be in flight at once
  Files,       \* the files of the three stores
  Brittle,     \* files whose copy may raise, or that may be missing
  Keep,        \* GM_BACKUP_KEEP
  MaxDay,      \* bound: days in a behaviour
  MaxCrashes,  \* bound: kills in a behaviour
  MaxForced,   \* bound: forced runs in a behaviour
  NoDir        \* the directory does not exist

ASSUME BackupAssumption ==
  /\ Forced \subseteq Procs
  /\ Overlap \in BOOLEAN
  /\ Brittle \subseteq Files
  /\ Keep \in Nat \ {0}
  /\ MaxDay \in Nat \ {0}
  /\ MaxCrashes \in Nat
  /\ MaxForced \in Nat

ASSUME NoDirIsNoDirectory == \A dir \in SUBSET Files : dir # NoDir

Days == 1..MaxDay
Dirs == (SUBSET Files) \cup {NoDir}

VARIABLES
  today,    \* the date
  folder,   \* folder[d]: gm-graph-backup_<d>
  tmp,      \* tmp[d]: gm-graph-backup_<d>.tmp
  old,      \* old[d]: gm-graph-backup_<d>.old
  pc,       \* pc[p]: where process p is in _run_locked
  day,      \* day[p]: the day it read when it started
  left,     \* left[p]: files it has still to copy
  dead,     \* dead[p]: folders it has still to prune
  crashes,  \* kills so far
  forced    \* forced runs so far

disk == <<folder, tmp, old>>
vars == <<today, folder, tmp, old, pc, day, left, dead, crashes, forced>>

TypeOK ==
  /\ today \in Days
  /\ folder \in [Days -> Dirs] /\ tmp \in [Days -> Dirs] /\ old \in [Days -> Dirs]
  /\ pc \in [Procs -> {"idle", "sweep", "mkdir", "copy", "swapOut", "swapIn",
                       "dropOld", "prune"}]
  /\ day \in [Procs -> Days]
  /\ left \in [Procs -> SUBSET Files]
  /\ dead \in [Procs -> SUBSET Days]
  /\ crashes \in 0..MaxCrashes
  /\ forced \in 0..MaxForced

Init ==
  /\ today = 1
  /\ folder = [d \in Days |-> NoDir]
  /\ tmp = [d \in Days |-> NoDir]
  /\ old = [d \in Days |-> NoDir]
  /\ pc = [p \in Procs |-> "idle"]
  /\ day = [p \in Procs |-> 1]
  /\ left = [p \in Procs |-> {}]
  /\ dead = [p \in Procs |-> {}]
  /\ crashes = 0
  /\ forced = 0

Existing == {d \in Days : folder[d] # NoDir}

\* Mutant of Outdated: off by one.
OutdatedShifted(S) == {d \in 0..MaxDay : Cardinality({e \in S : e > d + 1}) >= Keep}

\* days[:-keep]: all but the newest Keep.
Outdated(S) == {d \in S : Cardinality({e \in S : e > d}) >= Keep}

GoTo(p, where) == pc' = [pc EXCEPT ![p] = where]

-----------------------------------------------------------------------------
\* run(): nothing to do once today's folder exists, unless forced.
Start(p) ==
  /\ pc[p] = "idle"
  /\ Overlap \/ \A q \in Procs : pc[q] = "idle"
  /\ \/ folder[today] = NoDir /\ UNCHANGED forced
     \/ p \in Forced /\ forced < MaxForced /\ forced' = forced + 1
  /\ day' = [day EXCEPT ![p] = today]
  /\ GoTo(p, "sweep")
  /\ UNCHANGED <<today, disk, left, dead, crashes>>

\* Mutant of Sweep: what a killed run left behind stays.
SweepNothing(p) ==
  /\ pc[p] = "sweep"
  /\ GoTo(p, "mkdir")
  /\ UNCHANGED <<today, disk, day, left, dead, crashes, forced>>

\* Every .tmp and every .old goes: "a previous run died".
Sweep(p) ==
  /\ pc[p] = "sweep"
  /\ tmp' = [d \in Days |-> NoDir]
  /\ old' = [d \in Days |-> NoDir]
  /\ GoTo(p, "mkdir")
  /\ UNCHANGED <<today, folder, day, left, dead, crashes, forced>>

\* tmp.mkdir(): FileExistsError ends the run.
MakeTmp(p) ==
  /\ pc[p] = "mkdir"
  /\ \/ /\ tmp[day[p]] = NoDir
        /\ tmp' = [tmp EXCEPT ![day[p]] = {}]
        /\ left' = [left EXCEPT ![p] = Files]
        /\ GoTo(p, "copy")
     \/ /\ tmp[day[p]] # NoDir
        /\ GoTo(p, "idle")
        /\ UNCHANGED <<tmp, left>>
  /\ UNCHANGED <<today, folder, old, day, dead, crashes, forced>>

\* _copy of one file, which makes the directories it needs; an exception, like
\* a missing file, costs that file only.
CopyFile(p) ==
  /\ pc[p] = "copy"
  /\ \E f \in left[p] :
       /\ left' = [left EXCEPT ![p] = @ \ {f}]
       /\ \/ tmp' = [tmp EXCEPT ![day[p]] = IF @ = NoDir THEN {f} ELSE @ \cup {f}]
          \/ f \in Brittle /\ UNCHANGED tmp
  /\ UNCHANGED <<today, folder, old, pc, day, dead, crashes, forced>>

\* Mutants of SwapOut: the swap starts before the last file; the existing folder
\* is deleted, not moved.
SwapOutEarly(p) ==
  /\ pc[p] = "copy"
  /\ Cardinality(left[p]) <= 1
  /\ GoTo(p, "swapIn")
  /\ UNCHANGED <<today, disk, day, left, dead, crashes, forced>>

SwapOutDeletes(p) ==
  /\ pc[p] = "copy" /\ left[p] = {}
  /\ folder' = [folder EXCEPT ![day[p]] = NoDir]
  /\ GoTo(p, "swapIn")
  /\ UNCHANGED <<today, tmp, old, day, left, dead, crashes, forced>>

\* The existing folder is moved out of the way; a rename onto a directory with
\* files in it raises.
SwapOut(p) ==
  /\ pc[p] = "copy" /\ left[p] = {}
  /\ \/ /\ folder[day[p]] = NoDir
        /\ GoTo(p, "swapIn")
        /\ UNCHANGED disk
     \/ /\ folder[day[p]] # NoDir
        /\ old[day[p]] \in {NoDir, {}}
        /\ old' = [old EXCEPT ![day[p]] = folder[day[p]]]
        /\ folder' = [folder EXCEPT ![day[p]] = NoDir]
        /\ GoTo(p, "swapIn")
        /\ UNCHANGED tmp
     \/ /\ folder[day[p]] # NoDir
        /\ old[day[p]] \notin {NoDir, {}}
        /\ GoTo(p, "idle")
        /\ UNCHANGED disk
  /\ UNCHANGED <<today, day, left, dead, crashes, forced>>

\* The new copy takes the folder's name; it raises if the copy is gone or the
\* name is taken.
SwapIn(p) ==
  /\ pc[p] = "swapIn"
  /\ \/ /\ tmp[day[p]] # NoDir
        /\ folder[day[p]] \in {NoDir, {}}
        /\ folder' = [folder EXCEPT ![day[p]] = tmp[day[p]]]
        /\ tmp' = [tmp EXCEPT ![day[p]] = NoDir]
        /\ GoTo(p, "dropOld")
     \/ /\ tmp[day[p]] = NoDir \/ folder[day[p]] \notin {NoDir, {}}
        /\ GoTo(p, "idle")
        /\ UNCHANGED <<folder, tmp>>
  /\ UNCHANGED <<today, old, day, left, dead, crashes, forced>>

\* The replaced copy goes, and the folders to prune are listed.
DropOld(p) ==
  /\ pc[p] = "dropOld"
  /\ old' = [old EXCEPT ![day[p]] = NoDir]
  /\ dead' = [dead EXCEPT ![p] = Outdated(Existing)]
  /\ GoTo(p, "prune")
  /\ UNCHANGED <<today, folder, tmp, day, left, crashes, forced>>

\* rmtree of the oldest of them: file after file, then the directory.
Prune(p) ==
  /\ pc[p] = "prune" /\ dead[p] # {}
  /\ LET d == Min(dead[p])
     IN  \/ /\ folder[d] \notin {NoDir, {}}
            /\ \E f \in folder[d] : folder' = [folder EXCEPT ![d] = @ \ {f}]
            /\ UNCHANGED dead
         \/ /\ folder[d] \in {NoDir, {}}
            /\ folder' = [folder EXCEPT ![d] = NoDir]
            /\ dead' = [dead EXCEPT ![p] = @ \ {d}]
  /\ UNCHANGED <<today, tmp, old, pc, day, left, crashes, forced>>

Done(p) ==
  /\ pc[p] = "prune" /\ dead[p] = {}
  /\ GoTo(p, "idle")
  /\ UNCHANGED <<today, disk, day, left, dead, crashes, forced>>

\* The process is killed: what it wrote stays, what it knew is lost.
Crash(p) ==
  /\ pc[p] # "idle"
  /\ crashes < MaxCrashes
  /\ crashes' = crashes + 1
  /\ GoTo(p, "idle")
  /\ left' = [left EXCEPT ![p] = {}]
  /\ dead' = [dead EXCEPT ![p] = {}]
  /\ UNCHANGED <<today, disk, day, forced>>

Midnight ==
  /\ today < MaxDay
  /\ today' = today + 1
  /\ UNCHANGED <<disk, pc, day, left, dead, crashes, forced>>

Proceed(p) ==
  \/ Sweep(p) \/ MakeTmp(p) \/ CopyFile(p) \/ SwapOut(p) \/ SwapIn(p)
  \/ DropOld(p) \/ Prune(p) \/ Done(p)

Next == (\E p \in Procs : Start(p) \/ Proceed(p) \/ Crash(p)) \/ Midnight

\* A run that was started goes on, and the daemon looks every 30 s; nobody has
\* to run the command line.
Spec ==
  /\ Init /\ [][Next]_vars
  /\ \A p \in Procs : WF_vars(Proceed(p))
  /\ \A p \in Procs \ Forced : WF_vars(Start(p))

-----------------------------------------------------------------------------
\* A copy with every file that could be copied.
Whole(dir) == dir # NoDir /\ Files \ Brittle \subseteq dir

Saved(d) == Whole(folder[d]) \/ Whole(old[d])

\* The days that have a folder, or had one a moment ago.
Named == {d \in Days : folder[d] # NoDir \/ old[d] # NoDir}

\* As long as runs do not overlap, each of the newest Keep folders is whole,
\* wherever one run was killed.  (It takes two kills to make a damaged folder one
\* of the newest: while it was pruned, then between the renames of a newer day.)
KeptIsWhole ==
  crashes < 2 => \A d \in Existing \ Outdated(Named) : Whole(folder[d])

\* A day's whole copy, in place or moved out of the way, goes only once Keep
\* newer days have one, or when a kill between the two renames had left it as an
\* .old with no folder: the next run sweeps that one, its .tmp too.
CopyGoesOnlyWhenOutdated ==
  [][\A d \in Days :
       Saved(d) /\ ~Saved(d)'
         => \/ Cardinality({e \in Days : e > d /\ Whole(folder[e])}) >= Keep
            \/ folder[d] = NoDir /\ \E p \in Procs : pc[p] = "sweep"]_vars

\* A daemon that runs on a day has backed that day up in the end, whatever
\* kills and forced runs of another process left behind or took away, unless
\* midnight strikes first.
EveryDayBackedUp ==
  \A d \in Days : today = d ~> (folder[d] # NoDir \/ today # d)

=============================================================================
