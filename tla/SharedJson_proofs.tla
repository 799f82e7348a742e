-------------------------- MODULE SharedJson_proofs --------------------------
(***************************************************************************)
(* What the lock of the shared JSON files promises, for every set of       *)
(* processes and every number of deaths.                                   *)
(***************************************************************************)
EXTENDS SharedJson, FiniteSetTheorems, TLAPS

-----------------------------------------------------------------------------
(* The inductive invariant.                                                *)
-----------------------------------------------------------------------------

\* What each file may hold; what a process's record may.
FileType == CASE name \in {"pids", "manifest"} -> SUBSET Procs
              [] name = "tool" -> Entries \cup {Absent}
              [] name = "config" -> [knobs : SUBSET Procs, unmanaged : SUBSET Procs]
OpType == [at : {"idle", "done", "early", "lock", "break", "write", "unlock"},
           kind : {"none", "record", "forget", "tracked", "register", "missing", "migrate",
                   "knob", "unmanage", "manifest"},
           held : BOOLEAN, late : BOOLEAN,
           early : FileType \cup {Absent}, seen : FileType \cup {Absent}]

\* A process does one of the file's operations, and writes what it can make of
\* what it has read; the dead do nothing.
Sound(p, r) ==
  /\ r \in OpType
  /\ r.at \notin {"idle", "done"} => r.kind \in Kinds
  /\ r.held => r.at \in {"write", "unlock"}
  /\ r.at \notin {"idle", "done", "early"} /\ r.kind \in Early => r.early \in FileType
  /\ r.at \notin {"idle", "done", "early"} /\ r.kind = "missing" => r.early \in Entries
  /\ r.at = "write" => r.seen \in FileType
  /\ p \in dead => r = Done

\* With the lock in order whoever is inside holds it, fresh, and has read what is
\* in the file; a lock file outlives its maker on Windows only, and only there
\* is one ever taken for old.
LockInOrder ==
  /\ \A p \in Inside : op[p].held /\ lock # NoLock /\ lock.by = p /\ ~lock.old
  /\ lock # NoLock => lock.by \in Inside \/ (~posix /\ lock.by \in dead)
  /\ \A p \in Procs : op[p].at = "break" => ~posix
  /\ \A p \in Procs : op[p].at = "write" => op[p].seen = file

SharedInv ==
  /\ posix \in BOOLEAN /\ name \in Files /\ file \in FileType
  /\ lock \in [by : Procs, old : BOOLEAN] \cup {NoLock}
  /\ op \in [Procs -> OpType] /\ \A p \in Procs : Sound(p, op[p])
  /\ dead \subseteq Procs /\ IsFiniteSet(dead) /\ Cardinality(dead) <= MaxDeaths
  /\ trouble \in BOOLEAN /\ (~trouble => LockInOrder)

-----------------------------------------------------------------------------
(* What the operations make of a file.                                     *)
-----------------------------------------------------------------------------

\* What each file may hold and who works on it, by name.
LEMMA ByName ==
  ASSUME name \in Files
  PROVE  /\ name = "pids" => FileType = SUBSET Procs /\ Kinds = {"record", "forget", "tracked"}
         /\ name = "manifest" => FileType = SUBSET Procs /\ Kinds = {"manifest"}
         /\ name = "tool" => /\ FileType = Entries \cup {Absent}
                             /\ Kinds = {"register", "missing", "migrate"}
         /\ name = "config" => /\ FileType = [knobs : SUBSET Procs, unmanaged : SUBSET Procs]
                               /\ Kinds = {"knob", "unmanage"}
         /\ name \in {"pids", "manifest", "tool", "config"}
BY DEF Files, FileType, Kinds

\* A merged entry is an entry, and keeps who manages the tool.
LEMMA MergeTells ==
  ASSUME NEW old \in Entries, NEW new \in Entries
  PROVE  Merge(old, new) \in Entries /\ (old.linked => Merge(old, new).linked)
<1> DEFINE b == new.linked \/ old.linked
<1>1. b \in BOOLEAN /\ (old.linked => b)
  BY DEF Entries
<1>2. Merge(old, new) = [new EXCEPT !.linked = b]
  BY DEF Merge
<1> HIDE DEF b
<1>3. QED
  BY <1>1, <1>2 DEF Entries

\* What a writer makes of the file is such a file; and when it has read what is
\* in the file, it takes nothing away from it but what it is meant to.
LEMMA ChangedTells ==
  ASSUME SharedInv, NEW p \in Procs, op[p].at = "write"
  PROVE  /\ Changed(p) \in FileType
         /\ op[p].seen = file =>
              /\ name = "pids" => \A q \in (file \ dead) \ Changed(p) : q = p /\ op[p].kind = "forget"
              /\ name = "config" => file.knobs \subseteq Changed(p).knobs
              /\ name = "tool" /\ file \in Entries =>
                   Changed(p) \in Entries /\ (file.linked => Changed(p).linked)
<1> DEFINE o == op[p]
<1>1. /\ o \in OpType /\ o.kind \in Kinds /\ o.seen \in FileType
      /\ (o.kind \in Early => o.early \in FileType) /\ (o.kind = "missing" => o.early \in Entries)
      /\ name \in Files
  BY DEF SharedInv, Sound
<1>2. CASE name = "pids"
  <2>1. o.kind \in {"record", "forget", "tracked"} /\ o.seen \in SUBSET Procs
        /\ FileType = SUBSET Procs
    BY <1>1, <1>2, ByName
  <2>2. Changed(p) = IF o.kind = "record" THEN (o.seen \ dead) \cup {p}
                     ELSE IF o.kind = "forget" THEN o.seen \ {p} ELSE o.seen \ dead
    BY <2>1 DEF Changed, Recorded, Forgotten, Pruned, Alive
  <2>3. QED
    BY <1>2, <2>1, <2>2
<1>3. CASE name = "manifest"
  <2>1. o.kind = "manifest" /\ o.early \in SUBSET Procs /\ FileType = SUBSET Procs
    BY <1>1, <1>3, ByName DEF Early
  <2>2. Changed(p) = o.early \cup {p}
    BY <2>1 DEF Changed, Synced
  <2>3. QED
    BY <1>3, <2>1, <2>2
<1>4. CASE name = "tool"
  <2>1. /\ o.kind \in {"register", "missing", "migrate"} /\ o.seen \in Entries \cup {Absent}
        /\ (o.kind = "missing" => o.early \in Entries) /\ FileType = Entries \cup {Absent}
    BY <1>1, <1>4, ByName
  <2>2. PICK new \in Entries : Changed(p) = Written(o, new)
    <3>1. CASE o.kind = "missing"
      <4>1. Changed(p) = Written(o, [o.early EXCEPT !.status = "missing"])
        BY <3>1 DEF Changed, Marked
      <4>2. [o.early EXCEPT !.status = "missing"] \in Entries
        BY <2>1, <3>1 DEF Entries
      <4>3. QED
        BY <4>1, <4>2
    <3>2. CASE o.kind \in {"register", "migrate"}
      <4>1. Changed(p) = Written(o, Registered) /\ Registered \in Entries
        BY <3>2 DEF Changed, Registered, Entries
      <4>2. QED
        BY <4>1
    <3>3. QED
      BY <2>1, <3>1, <3>2
  <2>3. Changed(p) \in Entries /\ (o.seen \in Entries /\ o.seen.linked => Changed(p).linked)
    <3>1. CASE o.seen \in Entries
      BY <2>2, <3>1, MergeTells DEF Written
    <3>2. CASE o.seen \notin Entries
      BY <2>2, <3>2 DEF Written
    <3>3. QED
      BY <3>1, <3>2
  <2>4. QED
    BY <1>4, <2>1, <2>3
<1>5. CASE name = "config"
  <2>1. /\ o.kind \in {"knob", "unmanage"}
        /\ o.seen \in [knobs : SUBSET Procs, unmanaged : SUBSET Procs]
        /\ (o.kind = "unmanage" => o.early \in [knobs : SUBSET Procs, unmanaged : SUBSET Procs])
        /\ FileType = [knobs : SUBSET Procs, unmanaged : SUBSET Procs]
    BY <1>1, <1>5, ByName DEF Early
  <2>2. CASE o.kind = "knob"
    <3>1. Changed(p) = [o.seen EXCEPT !.knobs = @ \cup {p}]
      BY <2>2 DEF Changed, KnobSet
    <3>2. QED
      BY <1>5, <2>1, <3>1
  <2>3. CASE o.kind = "unmanage"
    <3>1. Changed(p) = [o.seen EXCEPT !.unmanaged = o.early.unmanaged \cup {p}]
      BY <2>3 DEF Changed, Unmanaged
    <3>2. QED
      BY <1>5, <2>1, <2>3, <3>1
  <2>4. QED
    BY <2>1, <2>2, <2>3
<1>6. QED
  BY <1>1, <1>2, <1>3, <1>4, <1>5, ByName

-----------------------------------------------------------------------------
(* Each action keeps the invariant.                                        *)
-----------------------------------------------------------------------------

\* A step of p alone, whatever becomes of the lock and the file.
LEMMA OpStep ==
  ASSUME SharedInv, NEW p \in Procs, NEW r, Sound(p, r), op' = [op EXCEPT ![p] = r],
         UNCHANGED <<posix, name, dead>>
  PROVE  /\ op' \in [Procs -> OpType'] /\ (\A q \in Procs : Sound(q, op[q])')
         /\ op'[p] = r /\ (\A q \in Procs \ {p} : op'[q] = op[q])
         /\ FileType' = FileType
<1>1. FileType' = FileType /\ OpType' = OpType /\ Kinds' = Kinds
  BY DEF FileType, OpType, Kinds
<1>2. /\ op' \in [Procs -> OpType] /\ op'[p] = r /\ (\A q \in Procs \ {p} : op'[q] = op[q])
  BY DEF SharedInv, Sound
<1>3. \A q \in Procs : Sound(q, op'[q])
  BY <1>2 DEF SharedInv
<1>4. \A q \in Procs : Sound(q, op[q])'
  BY <1>1, <1>3 DEF Sound
<1>5. QED
  BY <1>1, <1>2, <1>4

\* What is not about the lock's order, after a step of p.
LEMMA StepKeeps ==
  ASSUME SharedInv, NEW p \in Procs, NEW r, Sound(p, r), op' = [op EXCEPT ![p] = r],
         UNCHANGED <<posix, name, dead>>, file' \in FileType,
         lock' \in [by : Procs, old : BOOLEAN] \cup {NoLock}, trouble' \in BOOLEAN,
         ~trouble' => LockInOrder'
  PROVE  SharedInv'
BY OpStep DEF SharedInv

\* Who is inside and who is about to remove a lock file stays so, but for p.
LEMMA OrderWithout ==
  ASSUME SharedInv, LockInOrder, NEW p \in Procs, NEW r, Sound(p, r),
         op' = [op EXCEPT ![p] = r], UNCHANGED <<posix, name, dead, lock, file>>,
         op[p].at \notin {"write", "unlock"}, r.at \notin {"write", "unlock"},
         r.at = "break" => ~posix
  PROVE  LockInOrder'
<1>1. op'[p] = r /\ \A q \in Procs \ {p} : op'[q] = op[q]
  BY OpStep
<1>2. Inside' = Inside
  BY <1>1 DEF Inside
<1>3. QED
  BY <1>1, <1>2 DEF LockInOrder, Inside

\* Nothing done yet, and done.
LEMMA IdleIsSound ==
  /\ Idle \in OpType /\ Done \in OpType /\ Idle.at = "idle" /\ Done.at = "done" /\ Idle # Done
  /\ Idle.held = FALSE /\ Done.held = FALSE
  /\ \A p : Sound(p, Done) /\ (p \notin dead => Sound(p, Idle))
BY DEF Idle, Done, OpType, Sound

\* Before anybody works.
LEMMA SharedStart == Init => SharedInv
<1>1. SUFFICES ASSUME Init PROVE SharedInv
  OBVIOUS
<1>2. name \in Files /\ file \in FileType /\ posix \in BOOLEAN
  <2>1. name \in Files
    BY <1>1 DEF Init, Files
  <2>2. QED
    BY <1>1, <2>1, ByName DEF Init, Entries
<1>3. IsFiniteSet(dead) /\ Cardinality(dead) <= MaxDeaths
  BY <1>1, FS_EmptySet, SharedJsonAssumption DEF Init
<1>4. op \in [Procs -> OpType] /\ \A p \in Procs : Sound(p, op[p]) /\ op[p].at = "idle"
  BY <1>1, IdleIsSound DEF Init
<1>5. LockInOrder
  BY <1>1, <1>4 DEF Init, LockInOrder, Inside
<1>6. QED
  BY <1>1, <1>2, <1>3, <1>4, <1>5 DEF Init, SharedInv

\* A process alive is not done with, and a process that acts is alive.
LEMMA WhoActsLives ==
  ASSUME SharedInv, NEW p \in Procs, op[p].at \notin {"done"}
  PROVE  p \notin dead /\ Sound(p, op[p]) /\ op[p] \in OpType
BY IdleIsSound DEF SharedInv, Sound

\* An operation begins.
LEMMA BeginStep ==
  ASSUME SharedInv, NEW p \in Procs, NEW k \in Kinds, Begin(p, k)
  PROVE  SharedInv'
<1> DEFINE r == [Idle EXCEPT !.at = IF k \in Early THEN "early" ELSE "lock", !.kind = k]
<1>1. /\ op' = [op EXCEPT ![p] = r] /\ UNCHANGED <<posix, name, file, lock, dead, trouble>>
      /\ p \notin dead /\ op[p] = Idle
  BY DEF Begin
<1>2. k \in {"record", "forget", "tracked", "register", "missing", "migrate",
             "knob", "unmanage", "manifest"}
  BY ByName DEF SharedInv
<1>3. r \in OpType /\ r.at = (IF k \in Early THEN "early" ELSE "lock") /\ r.kind = k
      /\ r.held = FALSE
  BY <1>2, IdleIsSound DEF OpType
<1> HIDE DEF r
<1>4. Sound(p, r)
  BY <1>1, <1>3 DEF Sound, Early
<1>5. r.at \in {"early", "lock"} /\ op[p].at = "idle"
  BY <1>1, <1>3, IdleIsSound
<1>6. ~trouble' => LockInOrder'
  BY <1>1, <1>4, <1>5, OrderWithout DEF SharedInv
<1>7. QED
  BY <1>1, <1>4, <1>6, StepKeeps DEF SharedInv

\* The file is read before its lock is asked for.
LEMMA ReadEarlyStep ==
  ASSUME SharedInv, NEW p \in Procs, ReadEarly(p)
  PROVE  SharedInv'
<1> DEFINE r == IF NothingToMark(p) \/ NothingToMigrate(p) THEN Done
                ELSE [op[p] EXCEPT !.early = file, !.at = "lock"]
<1>1. /\ p \notin dead /\ Sound(p, op[p]) /\ op[p] \in OpType /\ op[p].at = "early"
      /\ UNCHANGED <<posix, name, file, lock, dead, trouble>>
  BY WhoActsLives DEF ReadEarly
<1>2. op' = [op EXCEPT ![p] = r]
  BY DEF ReadEarly, Leaves, SharedInv
<1>3. Sound(p, r) /\ r.at \in {"lock", "done"}
  <2>1. CASE NothingToMark(p) \/ NothingToMigrate(p)
    BY <2>1, IdleIsSound
  <2>2. CASE ~(NothingToMark(p) \/ NothingToMigrate(p))
    <3> DEFINE s == [op[p] EXCEPT !.early = file, !.at = "lock"]
    <3>1. /\ s \in OpType /\ s.at = "lock" /\ s.early = file /\ s.kind = op[p].kind
          /\ s.held = op[p].held
      BY <1>1 DEF OpType, SharedInv
    <3>2. r = s
      BY <2>2
    <3>3. op[p].kind = "missing" => file \in Entries
      BY <2>2 DEF NothingToMark
    <3> HIDE DEF s, r
    <3>4. Sound(p, s)
      BY <1>1, <3>1, <3>3 DEF Sound, SharedInv
    <3>5. QED
      BY <3>1, <3>2, <3>4
  <2>3. QED
    BY <2>1, <2>2
<1> HIDE DEF r
<1>4. ~trouble' => LockInOrder'
  BY <1>1, <1>2, <1>3, OrderWithout DEF SharedInv
<1>5. QED
  BY <1>1, <1>2, <1>3, <1>4, StepKeeps DEF SharedInv

\* The lock file is made: nobody is inside.
LEMMA LockStep ==
  ASSUME SharedInv, NEW p \in Procs, Lock(p)
  PROVE  SharedInv'
<1> DEFINE r == [op[p] EXCEPT !.at = "write", !.seen = file, !.held = TRUE]
<1>1. /\ p \notin dead /\ Sound(p, op[p]) /\ op[p] \in OpType /\ op[p].at = "lock"
      /\ UNCHANGED <<posix, name, file, dead, trouble>>
      /\ lock = NoLock /\ lock' = [by |-> p, old |-> FALSE]
  BY WhoActsLives DEF Lock
<1>2. op' = [op EXCEPT ![p] = r]
  BY DEF Lock, SharedInv
<1>3. /\ r \in OpType /\ r.at = "write" /\ r.seen = file /\ r.held = TRUE
      /\ r.kind = op[p].kind /\ r.early = op[p].early
  BY <1>1 DEF OpType, SharedInv
<1> HIDE DEF r
<1>4. Sound(p, r)
  BY <1>1, <1>3 DEF Sound, SharedInv
<1>5. op'[p] = r /\ \A q \in Procs \ {p} : op'[q] = op[q]
  BY <1>1, <1>2, <1>4, OpStep
<1>6. ASSUME LockInOrder PROVE LockInOrder'
  <2>1. Inside = {}
    BY <1>1, <1>6 DEF LockInOrder
  <2>2. Inside' = {p}
    BY <1>3, <1>5, <2>1 DEF Inside
  <2>3. lock' # NoLock /\ lock'.by = p /\ ~lock'.old
    <3>1. lock' \in [by : Procs, old : BOOLEAN] /\ lock'.by = p /\ lock'.old = FALSE
      BY <1>1
    <3>2. QED
      BY <3>1, NoLockIsNone
  <2>4. \A q \in Procs : op'[q].at = "write" => q = p
    BY <2>2 DEF Inside
  <2>5. QED
    BY <1>1, <1>3, <1>5, <1>6, <2>2, <2>3, <2>4 DEF LockInOrder
<1>7. lock' \in [by : Procs, old : BOOLEAN]
  BY <1>1
<1>8. QED
  BY <1>1, <1>2, <1>4, <1>6, <1>7, StepKeeps DEF SharedInv

\* A lock file is taken for a dead writer's: with the lock in order it is one.
LEMMA SeeOldStep ==
  ASSUME SharedInv, NEW p \in Procs, SeeOld(p)
  PROVE  SharedInv'
<1> DEFINE r == [op[p] EXCEPT !.at = "break"]
<1>1. /\ p \notin dead /\ Sound(p, op[p]) /\ op[p] \in OpType /\ op[p].at = "lock"
      /\ UNCHANGED <<posix, name, file, lock, dead, trouble>> /\ lock # NoLock /\ lock.old
  BY WhoActsLives DEF SeeOld
<1>2. op' = [op EXCEPT ![p] = r]
  BY DEF SeeOld, Goto, SharedInv
<1>3. /\ r \in OpType /\ r.at = "break" /\ r.kind = op[p].kind /\ r.early = op[p].early
      /\ r.held = op[p].held
  BY <1>1 DEF OpType
<1> HIDE DEF r
<1>4. Sound(p, r)
  BY <1>1, <1>3 DEF Sound
<1>5. LockInOrder => ~posix
  BY <1>1 DEF LockInOrder
<1>6. ~trouble' => LockInOrder'
  BY <1>1, <1>2, <1>3, <1>4, <1>5, OrderWithout DEF SharedInv
<1>7. QED
  BY <1>1, <1>2, <1>4, <1>6, StepKeeps DEF SharedInv

\* Whatever lock file is there is removed: with the lock in order nobody is
\* inside, or the file stays.
LEMMA BreakStep ==
  ASSUME SharedInv, NEW p \in Procs, Break(p)
  PROVE  SharedInv'
<1> DEFINE r == [op[p] EXCEPT !.at = "lock"]
<1>1. /\ p \notin dead /\ Sound(p, op[p]) /\ op[p] \in OpType /\ op[p].at = "break"
      /\ UNCHANGED <<posix, name, file, dead, trouble>>
      /\ lock' = IF Removable(p) THEN NoLock ELSE lock
  BY WhoActsLives DEF Break
<1>2. op' = [op EXCEPT ![p] = r]
  BY DEF Break, Goto, SharedInv
<1>3. /\ r \in OpType /\ r.at = "lock" /\ r.kind = op[p].kind /\ r.early = op[p].early
      /\ r.held = op[p].held
  BY <1>1 DEF OpType
<1> HIDE DEF r
<1>4. Sound(p, r)
  BY <1>1, <1>3 DEF Sound
<1>5. op'[p] = r /\ \A q \in Procs \ {p} : op'[q] = op[q]
  BY <1>1, <1>2, <1>4, OpStep
<1>6. ASSUME LockInOrder PROVE LockInOrder'
  <2>1. Inside' = Inside /\ Inside \subseteq Procs \ {p}
    BY <1>1, <1>3, <1>5 DEF Inside
  <2>2. lock' # lock => Inside = {}
    <3>1. SUFFICES ASSUME lock' # lock, NEW q \in Inside PROVE FALSE
      OBVIOUS
    <3>2. lock # NoLock /\ lock.by = q /\ ~posix /\ q # p
      BY <1>1, <1>6, <2>1 DEF LockInOrder
    <3>3. q \in dead
      BY <1>1, <3>1, <3>2 DEF Removable
    <3>4. QED
      BY <3>3, IdleIsSound DEF SharedInv, Sound, Inside
  <2>3. CASE lock' = lock
    BY <1>1, <1>3, <1>5, <1>6, <2>1, <2>3 DEF LockInOrder
  <2>4. CASE lock' # lock
    <3>1. lock' = NoLock /\ Inside' = {}
      BY <1>1, <2>1, <2>2, <2>4
    <3>2. QED
      BY <1>1, <1>3, <1>5, <1>6, <3>1 DEF LockInOrder
  <2>5. QED
    BY <2>3, <2>4
<1>7. QED
  BY <1>1, <1>2, <1>4, <1>6, StepKeeps DEF SharedInv

\* On without a lock: that is trouble.
LEMMA GiveUpStep ==
  ASSUME SharedInv, NEW p \in Procs, GiveUp(p)
  PROVE  SharedInv'
<1> DEFINE r == [op[p] EXCEPT !.at = "write", !.seen = file]
<1>1. /\ p \notin dead /\ Sound(p, op[p]) /\ op[p] \in OpType /\ op[p].at = "lock"
      /\ UNCHANGED <<posix, name, file, lock, dead>> /\ trouble' = TRUE
  BY WhoActsLives DEF GiveUp
<1>2. op' = [op EXCEPT ![p] = r]
  BY DEF GiveUp, SharedInv
<1>3. /\ r \in OpType /\ r.at = "write" /\ r.seen = file /\ r.held = op[p].held
      /\ r.kind = op[p].kind /\ r.early = op[p].early
  BY <1>1 DEF OpType, SharedInv
<1> HIDE DEF r
<1>4. Sound(p, r)
  BY <1>1, <1>3 DEF Sound, SharedInv
<1>5. QED
  BY <1>1, <1>2, <1>4, StepKeeps DEF SharedInv

\* The file is put in place: nobody else is about to write it.
LEMMA WriteStep ==
  ASSUME SharedInv, NEW p \in Procs, Write(p)
  PROVE  SharedInv'
<1> DEFINE r == [op[p] EXCEPT !.at = "unlock"]
<1>1. /\ p \notin dead /\ Sound(p, op[p]) /\ op[p] \in OpType /\ op[p].at = "write"
      /\ UNCHANGED <<posix, name, lock, dead, trouble>> /\ file' \in {file, Changed(p)}
  BY WhoActsLives DEF Write
<1>2. op' = [op EXCEPT ![p] = r]
  BY DEF Write, Goto, SharedInv
<1>3. /\ r \in OpType /\ r.at = "unlock" /\ r.held = op[p].held
      /\ r.kind = op[p].kind /\ r.early = op[p].early
  BY <1>1 DEF OpType
<1> HIDE DEF r
<1>4. Sound(p, r) /\ file' \in FileType
  BY <1>1, <1>3, ChangedTells DEF Sound, SharedInv
<1>5. op'[p] = r /\ \A q \in Procs \ {p} : op'[q] = op[q]
  BY <1>1, <1>2, <1>4, OpStep
<1>6. ASSUME LockInOrder PROVE LockInOrder'
  <2>1. Inside' = Inside /\ p \in Inside
    BY <1>1, <1>3, <1>5 DEF Inside
  <2>2. \A q \in Inside : q = p
    BY <1>6, <2>1 DEF LockInOrder
  <2>3. \A q \in Procs : op'[q].at # "write"
    BY <1>3, <1>5, <2>2 DEF Inside
  <2>4. QED
    BY <1>1, <1>3, <1>5, <1>6, <2>1, <2>3 DEF LockInOrder
<1>7. QED
  BY <1>1, <1>2, <1>4, <1>6, StepKeeps DEF SharedInv

\* The lock file is removed: with the lock in order it is one's own.
LEMMA UnlockStep ==
  ASSUME SharedInv, NEW p \in Procs, Unlock(p)
  PROVE  SharedInv'
<1>1. /\ p \notin dead /\ op[p] \in OpType /\ op[p].at = "unlock" /\ Sound(p, Done)
      /\ UNCHANGED <<posix, name, file, dead, trouble>>
      /\ lock' = IF op[p].held /\ Removable(p) THEN NoLock ELSE lock
      /\ op' = [op EXCEPT ![p] = Done]
  BY WhoActsLives, IdleIsSound DEF Unlock, Leaves
<1>2. op'[p] = Done /\ \A q \in Procs \ {p} : op'[q] = op[q]
  BY <1>1, OpStep
<1>3. ASSUME LockInOrder PROVE LockInOrder'
  <2>1. p \in Inside
    BY <1>1 DEF Inside
  <2>2. op[p].held /\ lock.by = p /\ \A q \in Inside : q = p
    BY <1>3, <2>1 DEF LockInOrder
  <2>3. lock' = NoLock
    BY <1>1, <2>2 DEF Removable
  <2>4. Inside' = {}
    BY <1>2, <2>2, IdleIsSound DEF Inside
  <2>5. QED
    BY <1>1, <1>2, <1>3, <2>3, <2>4, IdleIsSound DEF LockInOrder, Inside
<1>4. QED
  BY <1>1, <1>3, StepKeeps DEF SharedInv

\* Time passes: with the lock in order nobody is inside.
LEMMA TimeStep ==
  ASSUME SharedInv, TimePasses
  PROVE  SharedInv'
<1>1. /\ UNCHANGED <<posix, name, file, dead>>
      /\ lock' = IF lock = NoLock THEN NoLock ELSE [lock EXCEPT !.old = TRUE]
      /\ op' = [p \in Procs |-> IF op[p].at \in {"lock", "break"}
                                THEN [op[p] EXCEPT !.late = TRUE] ELSE op[p]]
      /\ trouble' \in BOOLEAN /\ (~trouble' => ~trouble /\ Inside = {})
  BY DEF TimePasses, SharedInv
<1>2. FileType' = FileType /\ OpType' = OpType /\ Kinds' = Kinds
  BY <1>1 DEF FileType, OpType, Kinds
<1>3. ASSUME NEW p \in Procs
      PROVE  op'[p] \in OpType /\ op'[p].at = op[p].at /\ Sound(p, op'[p])
  <2>1. op[p] \in OpType /\ Sound(p, op[p])
    BY DEF SharedInv
  <2>2. CASE op[p].at \in {"lock", "break"}
    <3> DEFINE r == [op[p] EXCEPT !.late = TRUE]
    <3>1. /\ r \in OpType /\ r.at = op[p].at /\ r.kind = op[p].kind /\ r.early = op[p].early
          /\ r.seen = op[p].seen /\ r.held = op[p].held
      BY <2>1 DEF OpType
    <3>2. op'[p] = r
      BY <1>1, <2>2
    <3>3. p \notin dead
      BY <2>2, WhoActsLives
    <3> HIDE DEF r
    <3>4. QED
      BY <2>1, <3>1, <3>2, <3>3 DEF Sound
  <2>3. CASE op[p].at \notin {"lock", "break"}
    BY <1>1, <2>1, <2>3
  <2>4. QED
    BY <2>2, <2>3
<1>4. op' \in [Procs -> OpType'] /\ \A p \in Procs : Sound(p, op[p])'
  <2>1. \A p \in Procs : Sound(p, op[p])'
    BY <1>1, <1>2, <1>3 DEF Sound
  <2>2. QED
    BY <1>1, <1>2, <1>3, <2>1
<1>5. lock' \in [by : Procs, old : BOOLEAN] \cup {NoLock}
      /\ (lock = NoLock <=> lock' = NoLock) /\ (lock # NoLock => lock'.by = lock.by)
  <2>1. CASE lock = NoLock
    BY <1>1, <2>1
  <2>2. CASE lock # NoLock
    <3>1. lock \in [by : Procs, old : BOOLEAN] /\ lock' = [lock EXCEPT !.old = TRUE]
      BY <1>1, <2>2 DEF SharedInv
    <3>2. lock' \in [by : Procs, old : BOOLEAN] /\ lock'.by = lock.by
      BY <3>1
    <3>3. QED
      BY <2>2, <3>2, NoLockIsNone
  <2>3. QED
    BY <2>1, <2>2
<1>6. ASSUME ~trouble' PROVE LockInOrder'
  <2>1. Inside' = {} /\ Inside = {} /\ LockInOrder
    BY <1>1, <1>3, <1>6 DEF Inside, SharedInv
  <2>2. \A p \in Procs : op'[p].at # "write"
    BY <2>1 DEF Inside
  <2>3. QED
    BY <1>1, <1>3, <1>5, <2>1, <2>2 DEF LockInOrder
<1>7. QED
  BY <1>1, <1>2, <1>4, <1>5, <1>6 DEF SharedInv

\* A process dies where it is: inside, that is trouble on POSIX; on Windows its
\* lock file stays until another removes it.
LEMMA DieStep ==
  ASSUME SharedInv, NEW p \in Procs, Die(p)
  PROVE  SharedInv'
<1>1. /\ UNCHANGED <<posix, name, file, lock>> /\ dead' = dead \cup {p}
      /\ p \notin dead /\ Cardinality(dead) < MaxDeaths
      /\ op' = [op EXCEPT ![p] = Done]
      /\ trouble' \in BOOLEAN /\ (~trouble' => ~trouble /\ ~(posix /\ p \in Inside))
  BY DEF Die, Leaves, SharedInv
<1>2. FileType' = FileType /\ OpType' = OpType /\ Kinds' = Kinds
  BY <1>1 DEF FileType, OpType, Kinds
<1>3. op' \in [Procs -> OpType] /\ op'[p] = Done /\ \A q \in Procs \ {p} : op'[q] = op[q]
  BY <1>1, IdleIsSound DEF SharedInv
<1>4. \A q \in Procs : Sound(q, op[q])'
  <2>1. Sound(p, op[p])'
    BY <1>2, <1>3, IdleIsSound DEF Sound
  <2>2. ASSUME NEW q \in Procs \ {p} PROVE Sound(q, op[q])'
    BY <1>1, <1>2, <1>3 DEF Sound, SharedInv
  <2>3. QED
    BY <2>1, <2>2
<1>5. dead' \subseteq Procs /\ IsFiniteSet(dead') /\ Cardinality(dead') <= MaxDeaths
  <2>1. IsFiniteSet(dead) /\ Cardinality(dead) \in Nat
    BY FS_CardinalityType DEF SharedInv
  <2>2. IsFiniteSet(dead') /\ Cardinality(dead') = Cardinality(dead) + 1
    BY <1>1, <2>1, FS_AddElement
  <2>3. QED
    BY <1>1, <2>1, <2>2, SharedJsonAssumption DEF SharedInv
<1>6. ASSUME ~trouble' PROVE LockInOrder'
  <2>1. LockInOrder /\ (p \in Inside => ~posix)
    BY <1>1, <1>6 DEF SharedInv
  <2>2. Inside' = Inside \ {p} /\ Inside \subseteq Procs
    BY <1>3, IdleIsSound DEF Inside
  <2>3. \A q \in Inside' : op'[q].held /\ lock' # NoLock /\ lock'.by = q /\ ~lock'.old
    BY <1>1, <1>3, <2>1, <2>2 DEF LockInOrder
  <2>4. lock' # NoLock => lock'.by \in Inside' \/ (~posix' /\ lock'.by \in dead')
    BY <1>1, <2>1, <2>2 DEF LockInOrder
  <2>5. QED
    BY <1>1, <1>3, <2>1, <2>3, <2>4, IdleIsSound DEF LockInOrder
<1>7. QED
  BY <1>1, <1>2, <1>3, <1>4, <1>5, <1>6 DEF SharedInv

-----------------------------------------------------------------------------
(* What the lock and its users promise.                                    *)
-----------------------------------------------------------------------------

\* Every step keeps the invariant.
LEMMA SharedStep ==
  ASSUME SharedInv, [Next]_vars
  PROVE  SharedInv'
<1>1. CASE UNCHANGED vars
  <2>1. UNCHANGED <<posix, name, file, lock, op, dead, trouble>>
    BY <1>1 DEF vars
  <2>2. FileType' = FileType /\ OpType' = OpType /\ Kinds' = Kinds /\ Inside' = Inside
    BY <2>1 DEF FileType, OpType, Kinds, Inside
  <2>3. \A p \in Procs : Sound(p, op[p])'
    BY <2>1, <2>2 DEF Sound, SharedInv
  <2>4. LockInOrder => LockInOrder'
    BY <2>1, <2>2 DEF LockInOrder
  <2>5. QED
    BY <2>1, <2>2, <2>3, <2>4 DEF SharedInv
<1>2. QED
  BY <1>1, BeginStep, ReadEarlyStep, LockStep, SeeOldStep, BreakStep,
     GiveUpStep, WriteStep,
     UnlockStep, DieStep, TimeStep DEF Next

\* In every state the lock is in order, or there is trouble.
THEOREM SharedInvariant == Spec => []SharedInv
<1>1. SharedInv /\ [Next]_vars => SharedInv'
  BY SharedStep
<1>2. QED
  BY <1>1, SharedStart, PTL DEF Spec

\* The files, their locks and the processes are what the module says.
THEOREM TypeCorrect == Spec => []TypeOK
<1>1. SharedInv => TypeOK
  BY DEF SharedInv, TypeOK, FileType, Sound, OpType, Inside
<1>2. QED
  BY <1>1, SharedInvariant, PTL

\* Two writers of one file are apart, unless one of them was slow, waited in
\* vain or (on POSIX) died inside (paths.json_lock).
THEOREM WritersAreApart == Spec => []OneWriter
<1>1. SharedInv => OneWriter
  <2>1. SUFFICES ASSUME SharedInv, ~trouble PROVE Cardinality(Inside) <= 1
    BY DEF OneWriter
  <2>2. \A p, q \in Inside : p = q
    BY <2>1 DEF SharedInv, LockInOrder
  <2>3. Inside = {} \/ \E p : Inside = {p}
    BY <2>2
  <2>4. Cardinality(Inside) \in {0, 1}
    BY <2>3, FS_EmptySet, FS_Singleton
  <2>5. QED
    BY <2>4
<1>2. QED
  BY <1>1, SharedInvariant, PTL

\* With the lock in order nobody's update is lost: who recorded itself stays in
\* pids.json until it dies or leaves, a knob stays set, who manages a tool stays.
THEOREM UpdatesAlwaysStay == Spec => UpdatesStay
<1>1. ASSUME SharedInv, [Next]_vars
      PROVE  [~trouble =>
               /\ name = "pids" => \A p \in (file \ dead) \ file' : op[p].kind = "forget"
               /\ name = "config" => file.knobs \subseteq file'.knobs
               /\ name = "tool" /\ file \in Entries =>
                    file' \in Entries /\ (file.linked => file'.linked)]_vars
  <2>1. CASE file' = file
    BY <2>1
  <2>2. CASE file' # file
    <3>1. PICK p \in Procs : Write(p)
      BY <1>1, <2>2 DEF Next, vars, Begin, ReadEarly, Lock, SeeOld, Break,
         GiveUp, Unlock, Die,
         TimePasses
    <3>2. file' = Changed(p) /\ op[p].at = "write" /\ (~trouble => op[p].seen = file)
      BY <1>1, <2>2, <3>1 DEF Write, SharedInv, LockInOrder
    <3>3. QED
      BY <1>1, <3>2, ChangedTells
  <2>3. QED
    BY <2>1, <2>2
<1>2. QED
  BY <1>1, SharedInvariant, PTL DEF Spec, UpdatesStay

=============================================================================
