---------------------------- MODULE Backup_proofs ----------------------------
(***************************************************************************)
(* What runs that follow one another promise of the backups, for every set *)
(* of processes and files, every number of folders to keep, of days, kills *)
(* and forced runs.                                                        *)
(***************************************************************************)
EXTENDS Backup, FiniteSetTheorems, WellFoundedInduction, TLAPS

-----------------------------------------------------------------------------
(* The inductive invariant.                                                *)
-----------------------------------------------------------------------------

Damaged == {d \in Existing : ~Whole(folder[d])}

\* One run at a time.
OneRuns == \A p, q \in Procs : pc[p] # "idle" /\ pc[q] # "idle" => p = q

\* No folder is of a day to come, or of one later than a run's.
CalendarIsKept ==
  /\ \A d \in Existing : d <= today
  /\ \A p \in Procs : pc[p] # "idle" =>
       day[p] <= today /\ \A d \in Existing : d <= day[p]

\* Folders are pruned from the oldest on: a damaged one is the oldest there is,
\* and no run's own.
DamageIsOldest ==
  \A d \in Damaged :
    /\ d < today /\ \A e \in Existing : d <= e
    /\ \A p \in Procs : pc[p] # "idle" => d < day[p]

\* What is moved out of the way is whole, and so is what takes its place.
OldIsWhole ==
  \A d \in Days : old[d] # NoDir => Whole(old[d]) /\ (folder[d] # NoDir => Whole(folder[d]))

\* What a run has done of its work.
Phase(p) ==
  /\ pc[p] \in {"mkdir", "copy", "prune"} => \A d \in Days : old[d] = NoDir
  /\ pc[p] \in {"swapIn", "dropOld"} => \A d \in Days \ {day[p]} : old[d] = NoDir
  /\ pc[p] = "copy" => tmp[day[p]] # NoDir /\ Files \ Brittle \subseteq tmp[day[p]] \cup left[p]
  /\ pc[p] = "swapIn" => Whole(tmp[day[p]]) /\ folder[day[p]] = NoDir
  /\ pc[p] = "dropOld" => Whole(folder[day[p]])
  /\ pc[p] = "prune" =>
       \A d \in dead[p] :
         /\ d \in Existing /\ Cardinality({e \in Existing : e > d}) >= Keep
         /\ \A e \in Existing : e < d => e \in dead[p]

\* Before the second kill a damaged folder has Keep newer days; without any it is
\* one a run is pruning.
DamageIsOutdated ==
  /\ crashes < 2 => \A d \in Damaged : Cardinality({e \in Named : e > d}) >= Keep
  /\ crashes = 0 => \A d \in Damaged : \E p \in Procs : pc[p] = "prune" /\ d \in dead[p]

\* A day that is only an .old is between the renames, or was there when a run was
\* killed; then nothing is damaged before the second kill.
OrphansAreOfAKill ==
  \A d \in Days : folder[d] = NoDir /\ old[d] # NoDir =>
    \/ \E p \in Procs : pc[p] = "swapIn" /\ day[p] = d
    \/ crashes > 0 /\ (crashes < 2 => Damaged = {})

InTurn ==
  /\ OneRuns /\ CalendarIsKept /\ DamageIsOldest /\ OldIsWhole
  /\ \A p \in Procs : Phase(p)
  /\ DamageIsOutdated /\ OrphansAreOfAKill

BackupInv == TypeOK /\ (~Overlap => InTurn)

-----------------------------------------------------------------------------
(* Days, and sets of them.                                                 *)
-----------------------------------------------------------------------------

\* What is counted is finite, and more days are more.
LEMMA DaysAreFinite ==
  ASSUME NEW S \in SUBSET Days
  PROVE  /\ IsFiniteSet(S) /\ Cardinality(S) \in Nat
         /\ \A T \in SUBSET S : Cardinality(T) <= Cardinality(S)
<1>1. IsFiniteSet(Days)
  BY FS_Interval, BackupAssumption DEF Days
<1>2. IsFiniteSet(S)
  BY <1>1, FS_Subset
<1>3. QED
  BY <1>2, FS_Subset, FS_CardinalityType

\* A count of Keep means there is somebody.
LEMMA CountedIsThere ==
  ASSUME NEW S \in SUBSET Days, Cardinality(S) >= Keep
  PROVE  S # {}
BY FS_EmptySet, BackupAssumption

\* The least of a set of days.
LEMMA MinIsLeast ==
  ASSUME NEW S \in SUBSET Days, S # {}
  PROVE  Min(S) \in S /\ \A d \in S : Min(S) <= d
<1>1. S \in SUBSET Nat
  BY DEF Days
<1>2. PICK d \in S : \A e \in S : ~ (<<e, d>> \in OpToRel(<, Nat))
  BY <1>1, WFMin, NatLessThanWellFounded
<1>3. \A e \in S : ~ (e < d)
  BY <1>1, <1>2 DEF OpToRel
<1>4. \A e \in S : d <= e
  BY <1>1, <1>3
<1>5. QED
  BY <1>4 DEF Min

\* A directory is a set of files, and being without one is no directory.
LEMMA DirsAreSets ==
  ASSUME NEW dir \in Dirs
  PROVE  (dir # NoDir => dir \in SUBSET Files) /\ (dir \in SUBSET Files => dir # NoDir)
BY NoDirIsNoDirectory DEF Dirs

-----------------------------------------------------------------------------
(* Types.                                                                  *)
-----------------------------------------------------------------------------

Labels == {"idle", "sweep", "mkdir", "copy", "swapOut", "swapIn", "dropOld", "prune"}

\* A move of p, in the terms of the type invariant.
LEMMA MoveTyped ==
  ASSUME TypeOK, NEW p \in Procs, NEW w \in Labels, GoTo(p, w)
  PROVE  pc' \in [Procs -> Labels] /\ pc'[p] = w /\ \A q \in Procs \ {p} : pc'[q] = pc[q]
BY DEF TypeOK, GoTo, Labels

\* Every step of a run keeps the types.
LEMMA RunTyped ==
  ASSUME TypeOK, NEW p \in Procs, Start(p) \/ Proceed(p) \/ Crash(p)
  PROVE  TypeOK'
<1> USE DEF Labels
<1>1. CASE Start(p)
  <2>1. pc' \in [Procs -> Labels] /\ day' \in [Procs -> Days] /\ forced' \in 0..MaxForced
    BY <1>1, MoveTyped, BackupAssumption DEF Start, TypeOK
  <2>2. QED
    BY <1>1, <2>1 DEF Start, TypeOK, disk
<1>2. CASE Sweep(p)
  <2>1. pc' \in [Procs -> Labels]
    BY <1>2, MoveTyped DEF Sweep
  <2>2. tmp' \in [Days -> Dirs] /\ old' \in [Days -> Dirs]
    BY <1>2 DEF Sweep, Dirs
  <2>3. QED
    BY <1>2, <2>1, <2>2 DEF Sweep, TypeOK
<1>3. CASE MakeTmp(p)
  <2>1. pc' \in [Procs -> Labels]
    BY <1>3, MoveTyped DEF MakeTmp
  <2>2. tmp' \in [Days -> Dirs] /\ left' \in [Procs -> SUBSET Files]
    BY <1>3 DEF MakeTmp, Dirs, TypeOK
  <2>3. QED
    BY <1>3, <2>1, <2>2 DEF MakeTmp, TypeOK
<1>4. CASE CopyFile(p)
  <2>1. PICK f \in left[p] :
          /\ left' = [left EXCEPT ![p] = @ \ {f}]
          /\ \/ tmp' = [tmp EXCEPT ![day[p]] = IF @ = NoDir THEN {f} ELSE @ \cup {f}]
             \/ UNCHANGED tmp
    BY <1>4 DEF CopyFile
  <2>2. f \in Files /\ left' \in [Procs -> SUBSET Files] /\ day[p] \in Days
    BY <2>1 DEF TypeOK
  <2>3. tmp[day[p]] # NoDir => tmp[day[p]] \in SUBSET Files
    BY <2>2, DirsAreSets DEF TypeOK
  <2>4. tmp' \in [Days -> Dirs]
    BY <2>1, <2>2, <2>3 DEF TypeOK, Dirs
  <2>5. QED
    BY <1>4, <2>2, <2>4 DEF CopyFile, TypeOK
<1>5. CASE SwapOut(p)
  <2>1. pc' \in [Procs -> Labels]
    BY <1>5, MoveTyped DEF SwapOut
  <2>2. folder' \in [Days -> Dirs] /\ tmp' \in [Days -> Dirs] /\ old' \in [Days -> Dirs]
    BY <1>5 DEF SwapOut, disk, TypeOK, Dirs
  <2>3. QED
    BY <1>5, <2>1, <2>2 DEF SwapOut, TypeOK
<1>6. CASE SwapIn(p)
  <2>1. pc' \in [Procs -> Labels]
    BY <1>6, MoveTyped DEF SwapIn
  <2>2. folder' \in [Days -> Dirs] /\ tmp' \in [Days -> Dirs]
    BY <1>6 DEF SwapIn, TypeOK, Dirs
  <2>3. QED
    BY <1>6, <2>1, <2>2 DEF SwapIn, TypeOK
<1>7. CASE DropOld(p)
  <2>1. pc' \in [Procs -> Labels]
    BY <1>7, MoveTyped DEF DropOld
  <2>2. old' \in [Days -> Dirs] /\ dead' \in [Procs -> SUBSET Days]
    BY <1>7 DEF DropOld, TypeOK, Dirs, Outdated, Existing
  <2>3. QED
    BY <1>7, <2>1, <2>2 DEF DropOld, TypeOK
<1>8. CASE Prune(p)
  <2> DEFINE d == Min(dead[p])
  <2>1. dead[p] \in SUBSET Days /\ d \in Days
    BY <1>8, MinIsLeast DEF Prune, TypeOK
  <2>2. folder[d] # NoDir => folder[d] \in SUBSET Files
    BY <2>1, DirsAreSets DEF TypeOK
  <2>3. \/ UNCHANGED dead /\ folder[d] # NoDir
           /\ \E f \in folder[d] : folder' = [folder EXCEPT ![d] = folder[d] \ {f}]
        \/ folder' = [folder EXCEPT ![d] = NoDir] /\ dead' = [dead EXCEPT ![p] = @ \ {d}]
    BY <1>8, <2>1 DEF Prune, TypeOK
  <2> HIDE DEF d
  <2>4. folder' \in [Days -> Dirs] /\ dead' \in [Procs -> SUBSET Days]
    BY <2>1, <2>2, <2>3 DEF TypeOK, Dirs
  <2>5. QED
    BY <1>8, <2>4 DEF Prune, TypeOK
<1>9. CASE Done(p)
  BY <1>9, MoveTyped DEF Done, TypeOK, disk
<1>10. CASE Crash(p)
  <2>1. pc' \in [Procs -> Labels] /\ left' \in [Procs -> SUBSET Files]
        /\ dead' \in [Procs -> SUBSET Days] /\ crashes' \in 0..MaxCrashes
    BY <1>10, MoveTyped, BackupAssumption DEF Crash, TypeOK
  <2>2. QED
    BY <1>10, <2>1 DEF Crash, TypeOK, disk
<1>11. QED
  BY <1>1, <1>2, <1>3, <1>4, <1>5, <1>6, <1>7, <1>8, <1>9, <1>10 DEF Proceed

\* The directories, days and sets of files stay such, whether runs overlap or
\* not.
THEOREM TypeCorrect == Spec => []TypeOK
<1>1. Init => TypeOK
  BY BackupAssumption DEF Init, TypeOK, Days, Dirs
<1>2. ASSUME TypeOK, [Next]_vars PROVE TypeOK'
  <2>1. CASE Midnight
    BY <1>2, <2>1, BackupAssumption DEF Midnight, TypeOK, Days, disk
  <2>2. CASE UNCHANGED vars
    BY <1>2, <2>2 DEF vars, disk, TypeOK
  <2>3. QED
    BY <1>2, <2>1, <2>2, RunTyped DEF Next
<1>3. QED
  BY <1>1, <1>2, PTL DEF Spec

-----------------------------------------------------------------------------
(* Runs that follow one another: each step of one keeps the invariant.     *)
-----------------------------------------------------------------------------

\* A day has a folder and an old one, or none.
LEMMA DaysHaveDirs ==
  ASSUME TypeOK, NEW d \in Days
  PROVE  /\ folder[d] # NoDir => folder[d] \in SUBSET Files
         /\ old[d] # NoDir => old[d] \in SUBSET Files
         /\ tmp[d] # NoDir => tmp[d] \in SUBSET Files
         /\ d \in Nat
BY DirsAreSets DEF TypeOK, Days

\* While a process runs the others do nothing, whatever it does next.
LEMMA OthersAreIdle ==
  ASSUME TypeOK, InTurn, NEW p \in Procs, pc[p] # "idle", NEW w \in Labels, GoTo(p, w), Phase(p)'
  PROVE  /\ pc'[p] = w /\ \A q \in Procs \ {p} : pc[q] = "idle" /\ pc'[q] = "idle"
         /\ OneRuns' /\ \A q \in Procs : Phase(q)'
<1>1. /\ pc'[p] = w /\ \A q \in Procs \ {p} : pc'[q] = pc[q]
  BY MoveTyped
<1>2. \A q \in Procs \ {p} : pc[q] = "idle"
  BY DEF InTurn, OneRuns
<1>3. ASSUME NEW q \in Procs \ {p} PROVE Phase(q)'
  BY <1>1, <1>2, <1>3 DEF Phase
<1>4. OneRuns'
  BY <1>1, <1>2 DEF OneRuns
<1>5. QED
  BY <1>1, <1>2, <1>3, <1>4

\* A step between those that rename or remove a folder.
LEMMA QuietStep ==
  ASSUME TypeOK, InTurn, NEW p \in Procs, pc[p] \notin {"idle", "swapIn", "prune"},
         NEW w \in Labels, GoTo(p, w), Phase(p)', UNCHANGED <<today, folder, old, day, crashes>>
  PROVE  InTurn'
<1>1. /\ pc'[p] = w /\ \A q \in Procs \ {p} : pc[q] = "idle" /\ pc'[q] = "idle"
      /\ OneRuns' /\ \A q \in Procs : Phase(q)'
  BY OthersAreIdle
<1>2. Existing' = Existing /\ Named' = Named /\ Damaged' = Damaged
  BY DEF Existing, Named, Damaged, Whole
<1>3. CalendarIsKept' /\ DamageIsOldest' /\ OldIsWhole'
  BY <1>1, <1>2 DEF InTurn, CalendarIsKept, DamageIsOldest, OldIsWhole, Whole
<1>4. crashes = 0 => Damaged = {}
  BY <1>1 DEF InTurn, DamageIsOutdated
<1>5. DamageIsOutdated'
  BY <1>2, <1>4 DEF InTurn, DamageIsOutdated
<1>6. OrphansAreOfAKill'
  <2>1. ASSUME NEW d \in Days, folder[d] = NoDir, old[d] # NoDir
        PROVE  crashes > 0 /\ (crashes < 2 => Damaged = {})
    BY <1>1, <2>1 DEF InTurn, OrphansAreOfAKill
  <2>2. QED
    BY <1>2, <2>1 DEF OrphansAreOfAKill
<1>7. QED
  BY <1>1, <1>3, <1>5, <1>6 DEF InTurn

\* A run starts when no other is there.
LEMMA StartInTurn ==
  ASSUME ~Overlap, TypeOK, InTurn, NEW p \in Procs, Start(p)
  PROVE  InTurn'
<1>1. /\ \A q \in Procs : pc[q] = "idle"
      /\ UNCHANGED <<today, folder, tmp, old, left, dead, crashes>>
  BY DEF Start, disk
<1>2. pc'[p] = "sweep" /\ (\A q \in Procs \ {p} : pc'[q] = "idle") /\ day'[p] = today
  BY <1>1, MoveTyped DEF Start, Labels, TypeOK
<1>3. Existing' = Existing /\ Named' = Named /\ Damaged' = Damaged /\ Existing \subseteq Nat
  BY <1>1 DEF Existing, Named, Damaged, Whole, Days
<1>4. OneRuns' /\ \A q \in Procs : Phase(q)'
  BY <1>1, <1>2 DEF OneRuns, Phase
<1>5. today \in Nat /\ today <= today
  BY DEF TypeOK, Days
<1>6. CalendarIsKept' /\ DamageIsOldest'
  BY <1>1, <1>2, <1>3, <1>5 DEF InTurn, CalendarIsKept, DamageIsOldest
<1>7. OldIsWhole'
  BY <1>1 DEF InTurn, OldIsWhole, Whole
<1>8. crashes = 0 => Damaged = {}
  BY <1>1 DEF InTurn, DamageIsOutdated
<1>9. DamageIsOutdated'
  BY <1>1, <1>3, <1>8 DEF InTurn, DamageIsOutdated
<1>10. OrphansAreOfAKill'
  BY <1>1, <1>3 DEF InTurn, OrphansAreOfAKill
<1>11. QED
  BY <1>4, <1>6, <1>7, <1>9, <1>10 DEF InTurn

\* What a killed run left behind goes; a day that was only an .old is lost, and
\* before the second kill nothing was damaged then.
LEMMA SweepInTurn ==
  ASSUME TypeOK, InTurn, NEW p \in Procs, Sweep(p)
  PROVE  InTurn'
<1>1. /\ pc[p] = "sweep" /\ GoTo(p, "mkdir") /\ UNCHANGED <<today, folder, day, dead, crashes>>
      /\ \A d \in Days : old'[d] = NoDir
  BY DEF Sweep
<1>2. Phase(p)'
  BY <1>1, MoveTyped DEF Phase, Labels
<1>3. /\ pc'[p] = "mkdir" /\ \A q \in Procs \ {p} : pc[q] = "idle" /\ pc'[q] = "idle"
      /\ OneRuns' /\ \A q \in Procs : Phase(q)'
  BY <1>1, <1>2, OthersAreIdle DEF Labels
<1>4. Existing' = Existing /\ Damaged' = Damaged /\ Named' = Existing
  BY <1>1 DEF Existing, Named, Damaged, Whole
<1>5. CalendarIsKept' /\ DamageIsOldest'
  BY <1>1, <1>3, <1>4 DEF InTurn, CalendarIsKept, DamageIsOldest
<1>6. OldIsWhole' /\ OrphansAreOfAKill'
  BY <1>1 DEF OldIsWhole, OrphansAreOfAKill
<1>7. DamageIsOutdated'
  <2>1. crashes = 0 => Damaged = {}
    BY <1>1, <1>3 DEF InTurn, DamageIsOutdated
  <2>2. ASSUME crashes < 2, NEW d \in Damaged PROVE Cardinality({e \in Existing : e > d}) >= Keep
    <3>1. \A e \in Named : e \in Existing
      BY <1>1, <1>3, <2>2 DEF InTurn, OrphansAreOfAKill, Named, Existing
    <3>2. Named = Existing
      BY <3>1 DEF Named, Existing
    <3>3. QED
      BY <2>2, <3>2 DEF InTurn, DamageIsOutdated
  <2>3. QED
    BY <1>1, <1>4, <2>1, <2>2 DEF DamageIsOutdated
<1>8. QED
  BY <1>3, <1>5, <1>6, <1>7 DEF InTurn

\* The copy is begun, and goes on file by file.
LEMMA MakeTmpInTurn ==
  ASSUME TypeOK, InTurn, NEW p \in Procs, MakeTmp(p)
  PROVE  InTurn'
<1>1. /\ pc[p] = "mkdir" /\ UNCHANGED <<today, folder, old, day, crashes>>
      /\ \A d \in Days : old[d] = NoDir
  BY DEF MakeTmp, InTurn, Phase
<1>2. CASE /\ tmp' = [tmp EXCEPT ![day[p]] = {}] /\ left' = [left EXCEPT ![p] = Files]
           /\ GoTo(p, "copy")
  <2>1. tmp'[day[p]] = {} /\ {} # NoDir /\ left'[p] = Files /\ pc'[p] = "copy"
    BY <1>2, MoveTyped, NoDirIsNoDirectory DEF TypeOK, Labels
  <2>2. Phase(p)'
    BY <1>1, <2>1 DEF Phase
  <2>3. QED
    BY <1>1, <1>2, <2>2, QuietStep DEF Labels
<1>3. CASE GoTo(p, "idle")
  <2>1. Phase(p)'
    BY <1>3, MoveTyped DEF Phase, Labels
  <2>2. QED
    BY <1>1, <1>3, <2>1, QuietStep DEF Labels
<1>4. QED
  BY <1>2, <1>3 DEF MakeTmp

\* A copy of a file, by the only run: the folder gains a file of its day.
LEMMA CopyFileInTurn ==
  ASSUME TypeOK, InTurn, NEW p \in Procs, CopyFile(p)
  PROVE  InTurn'
<1>1. PICK f \in left[p] :
        /\ left' = [left EXCEPT ![p] = @ \ {f}]
        /\ \/ tmp' = [tmp EXCEPT ![day[p]] = IF @ = NoDir THEN {f} ELSE @ \cup {f}]
           \/ f \in Brittle /\ UNCHANGED tmp
  BY DEF CopyFile
<1>2. /\ pc[p] = "copy" /\ UNCHANGED <<today, folder, old, pc, day, crashes>>
      /\ tmp[day[p]] # NoDir /\ Files \ Brittle \subseteq tmp[day[p]] \cup left[p]
      /\ \A d \in Days : old[d] = NoDir
      /\ day[p] \in Days /\ tmp \in [Days -> Dirs] /\ left \in [Procs -> SUBSET Files]
  BY DEF CopyFile, InTurn, Phase, TypeOK
<1>3. left'[p] = left[p] \ {f}
  BY <1>1, <1>2
<1>4. tmp'[day[p]] = tmp[day[p]] \cup {f} \/ (f \in Brittle /\ tmp'[day[p]] = tmp[day[p]])
  BY <1>1, <1>2
<1>5. Files \ Brittle \subseteq tmp'[day[p]] \cup left'[p]
  BY <1>2, <1>3, <1>4
<1>6. tmp'[day[p]] # NoDir
  <2>1. tmp[day[p]] \cup {f} \in SUBSET Files
    BY <1>1, <1>2, DaysHaveDirs
  <2>2. QED
    BY <1>2, <1>4, <2>1, NoDirIsNoDirectory
<1>7. Phase(p)'
  BY <1>2, <1>5, <1>6 DEF Phase
<1>8. GoTo(p, "copy")
  BY <1>2 DEF GoTo, TypeOK
<1>9. QED
  BY <1>2, <1>7, <1>8, QuietStep DEF Labels

\* The folder of the day, which is whole, is moved out of the way.
LEMMA SwapOutInTurn ==
  ASSUME TypeOK, InTurn, NEW p \in Procs, SwapOut(p)
  PROVE  InTurn'
<1> DEFINE t == day[p]
<1>1. /\ pc[p] = "copy" /\ left[p] = {} /\ t \in Days /\ t \in Nat
      /\ UNCHANGED <<today, tmp, day, left, dead, crashes>>
      /\ (\A d \in Days : old[d] = NoDir) /\ Whole(tmp[t])
  <2>1. pc[p] = "copy" /\ left[p] = {} /\ UNCHANGED <<today, tmp, day, left, dead, crashes>>
    BY DEF SwapOut, disk
  <2>2. Phase(p) /\ t \in Days
    BY DEF InTurn, TypeOK
  <2>3. QED
    BY <2>1, <2>2, DaysHaveDirs DEF Phase, Whole
<1>2. CASE folder[t] = NoDir /\ GoTo(p, "swapIn") /\ UNCHANGED disk
  <2>1. Phase(p)'
    BY <1>1, <1>2, MoveTyped DEF Phase, Labels, Whole, disk
  <2>2. QED
    BY <1>1, <1>2, <2>1, QuietStep DEF Labels, disk
<1>3. CASE /\ folder[t] # NoDir /\ GoTo(p, "swapIn")
           /\ old' = [old EXCEPT ![t] = folder[t]] /\ folder' = [folder EXCEPT ![t] = NoDir]
  <2>1. /\ old'[t] = folder[t] /\ folder'[t] = NoDir
        /\ \A d \in Days \ {t} : old'[d] = old[d] /\ folder'[d] = folder[d]
    BY <1>1, <1>3 DEF TypeOK
  <2>2. Phase(p)'
    BY <1>1, <1>3, <2>1, MoveTyped DEF Phase, Labels, Whole
  <2>3. /\ pc'[p] = "swapIn" /\ \A q \in Procs \ {p} : pc[q] = "idle" /\ pc'[q] = "idle"
        /\ OneRuns' /\ \A q \in Procs : Phase(q)'
    BY <1>1, <1>3, <2>2, OthersAreIdle DEF Labels
  <2>4. t \notin Damaged
    BY <1>1 DEF InTurn, DamageIsOldest
  <2>5. Existing' = Existing \ {t} /\ Named' = Named /\ Damaged' = Damaged
    <3>1. Existing' = Existing \ {t}
      BY <2>1 DEF Existing
    <3>2. Named' = Named
      BY <1>1, <1>3, <2>1 DEF Named
    <3>3. \A d \in Existing' : folder'[d] = folder[d]
      BY <2>1, <3>1 DEF Existing
    <3>4. Damaged' = Damaged
      BY <2>4, <3>1, <3>3 DEF Damaged, Whole
    <3>5. QED
      BY <3>1, <3>2, <3>4
  <2>6. CalendarIsKept' /\ DamageIsOldest'
    BY <1>1, <2>3, <2>5 DEF InTurn, CalendarIsKept, DamageIsOldest
  <2>7. OldIsWhole'
    BY <1>1, <1>3, <2>1, <2>4 DEF OldIsWhole, Whole, Damaged, Existing
  <2>8. DamageIsOutdated'
    <3>1. crashes = 0 => Damaged = {}
      BY <1>1, <2>3 DEF InTurn, DamageIsOutdated
    <3>2. QED
      BY <1>1, <2>5, <3>1 DEF InTurn, DamageIsOutdated
  <2>9. OrphansAreOfAKill'
    BY <1>1, <2>1, <2>3 DEF OrphansAreOfAKill
  <2>10. QED
    BY <2>3, <2>6, <2>7, <2>8, <2>9 DEF InTurn
<1>4. QED
  BY <1>1, <1>2, <1>3 DEF SwapOut

\* A whole copy takes the day's name.
LEMMA SwapInInTurn ==
  ASSUME TypeOK, InTurn, NEW p \in Procs, SwapIn(p)
  PROVE  InTurn'
<1> DEFINE t == day[p]
<1>1. /\ pc[p] = "swapIn" /\ t \in Days /\ t \in Nat /\ today \in Nat
      /\ UNCHANGED <<today, old, day, left, dead, crashes>>
      /\ Whole(tmp[t]) /\ folder[t] = NoDir /\ \A d \in Days \ {t} : old[d] = NoDir
  <2>1. pc[p] = "swapIn" /\ UNCHANGED <<today, old, day, left, dead, crashes>>
    BY DEF SwapIn
  <2>2. Phase(p) /\ t \in Days /\ today \in Nat
    BY DEF InTurn, TypeOK, Days
  <2>3. QED
    BY <2>1, <2>2, DaysHaveDirs DEF Phase
<1>2. folder' = [folder EXCEPT ![t] = tmp[t]] /\ GoTo(p, "dropOld")
  BY <1>1 DEF SwapIn, Whole
<1>3. folder'[t] = tmp[t] /\ \A d \in Days \ {t} : folder'[d] = folder[d]
  BY <1>1, <1>2 DEF TypeOK
<1>4. Phase(p)'
  BY <1>1, <1>2, <1>3, MoveTyped DEF Phase, Labels, Whole
<1>5. /\ pc'[p] = "dropOld" /\ \A q \in Procs \ {p} : pc[q] = "idle" /\ pc'[q] = "idle"
      /\ OneRuns' /\ \A q \in Procs : Phase(q)'
  BY <1>1, <1>2, <1>4, OthersAreIdle DEF Labels
<1>6. Existing' = Existing \cup {t} /\ Named' = Named \cup {t} /\ Damaged' = Damaged
  <2>1. Existing' = Existing \cup {t}
    BY <1>1, <1>3 DEF Existing, Whole
  <2>2. Named' = Named \cup {t}
    BY <1>1, <1>3 DEF Named, Whole
  <2>3. \A d \in Days : d \in Damaged' <=> d \in Damaged
    BY <1>1, <1>3 DEF Damaged, Existing, Whole
  <2>4. QED
    BY <2>1, <2>2, <2>3 DEF Damaged, Existing
<1>7. CalendarIsKept'
  BY <1>1, <1>5, <1>6 DEF InTurn, CalendarIsKept
<1>8. DamageIsOldest'
  <2>1. ASSUME NEW d \in Damaged PROVE d < t /\ d <= t
    BY <1>1, DaysHaveDirs DEF InTurn, DamageIsOldest, Damaged, Existing
  <2>2. QED
    BY <1>1, <1>5, <1>6, <2>1 DEF InTurn, DamageIsOldest
<1>9. OldIsWhole'
  BY <1>1, <1>3 DEF InTurn, OldIsWhole, Whole
<1>10. DamageIsOutdated'
  <2>1. crashes = 0 => Damaged = {}
    BY <1>1, <1>5 DEF InTurn, DamageIsOutdated
  <2>2. ASSUME crashes < 2, NEW d \in Damaged
        PROVE  Cardinality({e \in Named \cup {t} : e > d}) >= Keep
    <3>1. Cardinality({e \in Named : e > d}) >= Keep
      BY <2>2 DEF InTurn, DamageIsOutdated
    <3>2. {e \in Named \cup {t} : e > d} \in SUBSET Days
      BY <1>1 DEF Named
    <3>3. {e \in Named : e > d} \in SUBSET {e \in Named \cup {t} : e > d}
          /\ {e \in Named : e > d} \in SUBSET Days
      BY DEF Named
    <3>4. Cardinality({e \in Named : e > d}) <= Cardinality({e \in Named \cup {t} : e > d})
      BY <3>2, <3>3, DaysAreFinite
    <3>5. /\ Cardinality({e \in Named : e > d}) \in Nat
          /\ Cardinality({e \in Named \cup {t} : e > d}) \in Nat
      BY <3>2, <3>3, DaysAreFinite
    <3>6. QED
      BY <3>1, <3>4, <3>5, BackupAssumption
  <2>3. QED
    BY <1>1, <1>6, <2>1, <2>2 DEF DamageIsOutdated
<1>11. OrphansAreOfAKill'
  BY <1>1, <1>3 DEF OrphansAreOfAKill, Whole
<1>12. QED
  BY <1>5, <1>7, <1>8, <1>9, <1>10, <1>11 DEF InTurn

\* The replaced copy goes; what is listed to be pruned is outdated, and with any
\* folder every older one is listed.
LEMMA DropOldInTurn ==
  ASSUME TypeOK, InTurn, NEW p \in Procs, DropOld(p)
  PROVE  InTurn'
<1> DEFINE t == day[p]
<1>1. /\ pc[p] = "dropOld" /\ t \in Days
      /\ UNCHANGED <<today, folder, day, crashes>> /\ GoTo(p, "prune")
      /\ old' = [old EXCEPT ![t] = NoDir] /\ dead' = [dead EXCEPT ![p] = Outdated(Existing)]
      /\ Whole(folder[t]) /\ \A d \in Days \ {t} : old[d] = NoDir
  BY DEF DropOld, InTurn, Phase, TypeOK
<1>2. (\A d \in Days : old'[d] = NoDir) /\ dead'[p] = Outdated(Existing)
  BY <1>1 DEF TypeOK
<1>3. Existing' = Existing /\ Damaged' = Damaged /\ Named' = Existing /\ Named = Existing
  BY <1>1, <1>2 DEF Existing, Damaged, Named, Whole
<1>4. Phase(p)'
  <2>1. ASSUME NEW d \in Outdated(Existing)
        PROVE  /\ d \in Existing /\ Cardinality({e \in Existing : e > d}) >= Keep
               /\ \A e \in Existing : e < d => e \in Outdated(Existing)
    <3>1. d \in Existing /\ Cardinality({e \in Existing : e > d}) >= Keep
      BY <2>1 DEF Outdated
    <3>2. ASSUME NEW e \in Existing, e < d PROVE e \in Outdated(Existing)
      <4>1. e \in Nat /\ d \in Nat /\ Existing \subseteq Nat
        BY <3>1 DEF Existing, Days
      <4>2. /\ {x \in Existing : x > d} \in SUBSET {x \in Existing : x > e}
            /\ {x \in Existing : x > e} \in SUBSET Days
            /\ {x \in Existing : x > d} \in SUBSET Days
        BY <3>2, <4>1 DEF Existing
      <4>3. /\ Cardinality({x \in Existing : x > d}) <= Cardinality({x \in Existing : x > e})
            /\ Cardinality({x \in Existing : x > d}) \in Nat
            /\ Cardinality({x \in Existing : x > e}) \in Nat
        BY <4>2, DaysAreFinite
      <4>4. Cardinality({x \in Existing : x > e}) >= Keep
        BY <3>1, <4>3, BackupAssumption
      <4>5. QED
        BY <4>4 DEF Outdated
    <3>3. QED
      BY <3>1, <3>2
  <2>2. pc'[p] = "prune"
    BY <1>1, MoveTyped DEF Labels
  <2>3. QED
    BY <1>2, <1>3, <2>1, <2>2 DEF Phase
<1>5. /\ pc'[p] = "prune" /\ \A q \in Procs \ {p} : pc[q] = "idle" /\ pc'[q] = "idle"
      /\ OneRuns' /\ \A q \in Procs : Phase(q)'
  BY <1>1, <1>4, OthersAreIdle DEF Labels
<1>6. CalendarIsKept' /\ DamageIsOldest'
  BY <1>1, <1>3, <1>5 DEF InTurn, CalendarIsKept, DamageIsOldest
<1>7. OldIsWhole' /\ OrphansAreOfAKill'
  BY <1>2 DEF OldIsWhole, OrphansAreOfAKill
<1>8. DamageIsOutdated'
  <2>1. crashes = 0 => Damaged = {}
    BY <1>1, <1>5 DEF InTurn, DamageIsOutdated
  <2>2. QED
    BY <1>1, <1>3, <2>1 DEF InTurn, DamageIsOutdated
<1>9. QED
  BY <1>5, <1>6, <1>7, <1>8 DEF InTurn

\* The folder that is being pruned is the oldest of all.
LEMMA PrunedIsOldest ==
  ASSUME TypeOK, InTurn, NEW p \in Procs, Prune(p), NEW d, d = Min(dead[p])
  PROVE  /\ d \in dead[p] /\ d \in Existing /\ d < day[p] /\ d < today
         /\ \A e \in Existing : d <= e
         /\ Cardinality({e \in Existing : e > d}) >= Keep
         /\ \A e \in Damaged : e = d
<1>1. /\ pc[p] = "prune" /\ dead[p] # {} /\ dead[p] \in SUBSET Days /\ Phase(p)
      /\ day[p] \in Nat /\ today \in Nat /\ Existing \subseteq Nat
  BY DEF Prune, InTurn, TypeOK, Days, Existing
<1>2. d \in dead[p] /\ d \in Days /\ d \in Nat /\ \A e \in dead[p] : d <= e
  BY <1>1, MinIsLeast DEF Days
<1>3. /\ d \in Existing /\ Cardinality({e \in Existing : e > d}) >= Keep
      /\ \A e \in Existing : e < d => e \in dead[p]
  BY <1>1, <1>2 DEF Phase
<1>4. \A e \in Existing : d <= e
  BY <1>1, <1>2, <1>3
<1>5. PICK e \in Existing : e > d
  <2>1. {e \in Existing : e > d} \in SUBSET Days
    BY DEF Existing
  <2>2. {e \in Existing : e > d} # {}
    BY <1>3, <2>1, CountedIsThere
  <2>3. QED
    BY <2>2
<1>6. e <= today /\ e <= day[p]
  BY <1>1, <1>5 DEF InTurn, CalendarIsKept
<1>7. d < day[p] /\ d < today
  BY <1>1, <1>2, <1>5, <1>6
<1>8. ASSUME NEW x \in Damaged PROVE x = d
  <2>1. x <= d /\ d <= x /\ x \in Nat
    BY <1>1, <1>3, <1>4 DEF InTurn, DamageIsOldest, Damaged
  <2>2. QED
    BY <1>2, <2>1
<1>9. QED
  BY <1>2, <1>3, <1>4, <1>7, <1>8

\* A file of the oldest folder goes, or the folder itself.
LEMMA PruneInTurn ==
  ASSUME TypeOK, InTurn, NEW p \in Procs, Prune(p)
  PROVE  InTurn'
<1>1. PICK d : d = Min(dead[p])
  OBVIOUS
<1>2. /\ d \in dead[p] /\ d \in Existing /\ d < day[p] /\ d < today
      /\ \A e \in Existing : d <= e
      /\ Cardinality({e \in Existing : e > d}) >= Keep
      /\ \A e \in Damaged : e = d
  BY <1>1, PrunedIsOldest
<1>3. /\ pc[p] = "prune" /\ UNCHANGED <<today, tmp, old, pc, day, left, crashes>>
      /\ (\A e \in Days : old[e] = NoDir) /\ d \in Days /\ d \in Nat /\ Phase(p)
      /\ \A e \in Existing : e \in Days /\ e \in Nat
  <2>1. pc[p] = "prune" /\ UNCHANGED <<today, tmp, old, pc, day, left, crashes>>
    BY DEF Prune
  <2>2. Phase(p) /\ \A e \in Days : old[e] = NoDir
    BY <2>1 DEF InTurn, Phase
  <2>3. \A e \in Existing : e \in Days /\ e \in Nat
    BY DEF Existing, Days
  <2>4. QED
    BY <1>2, <2>1, <2>2, <2>3
<1>4. \A q \in Procs \ {p} : pc[q] = "idle"
  BY <1>3 DEF InTurn, OneRuns
<1>5. OneRuns' /\ OldIsWhole' /\ OrphansAreOfAKill'
  BY <1>3, <1>4 DEF OneRuns, OldIsWhole, OrphansAreOfAKill
<1>6. Named = Existing
  BY <1>3 DEF Named, Existing
<1>7. CASE /\ folder[d] \notin {NoDir, {}} /\ UNCHANGED dead
           /\ \E f \in folder[d] : folder' = [folder EXCEPT ![d] = @ \ {f}]
  <2>1. folder'[d] # NoDir /\ \A e \in Days \ {d} : folder'[e] = folder[e]
    <3>1. PICK f \in folder[d] : folder' = [folder EXCEPT ![d] = @ \ {f}]
      BY <1>7
    <3>2. folder[d] \ {f} \in SUBSET Files /\ folder'[d] = folder[d] \ {f}
      BY <1>3, <1>7, <3>1, DaysHaveDirs DEF TypeOK
    <3>3. QED
      BY <1>3, <3>1, <3>2, NoDirIsNoDirectory DEF TypeOK
  <2>2. Existing' = Existing /\ Named' = Existing
    <3>1. Existing' = Existing
      BY <1>2, <1>3, <2>1 DEF Existing
    <3>2. QED
      BY <1>3, <3>1 DEF Existing, Named
  <2>3. \A e \in Damaged' : e = d
    BY <1>2, <2>1, <2>2 DEF Damaged, Whole, Existing
  <2>4. \A q \in Procs : Phase(q)'
    <3>1. Phase(p)'
      BY <1>3, <1>7, <2>2 DEF Phase
    <3>2. \A q \in Procs \ {p} : Phase(q)'
      BY <1>3, <1>4 DEF Phase
    <3>3. QED
      BY <3>1, <3>2
  <2>5. CalendarIsKept' /\ DamageIsOldest'
    BY <1>2, <1>3, <1>4, <2>2, <2>3 DEF InTurn, CalendarIsKept, DamageIsOldest
  <2>6. DamageIsOutdated'
    BY <1>2, <1>3, <1>7, <2>2, <2>3 DEF DamageIsOutdated
  <2>7. QED
    BY <1>5, <2>4, <2>5, <2>6 DEF InTurn
<1>8. CASE /\ folder' = [folder EXCEPT ![d] = NoDir]
           /\ dead' = [dead EXCEPT ![p] = @ \ {d}]
  <2>1. /\ folder'[d] = NoDir /\ (\A e \in Days \ {d} : folder'[e] = folder[e])
        /\ dead'[p] = dead[p] \ {d}
    BY <1>3, <1>8 DEF TypeOK
  <2>2. Existing' = Existing \ {d}
    BY <2>1 DEF Existing
  <2>3. Damaged' = {}
    BY <1>2, <2>1, <2>2 DEF Damaged, Whole, Existing
  <2>4. \A q \in Procs : Phase(q)'
    <3>1. ASSUME NEW x \in dead[p] \ {d}
          PROVE  /\ x \in Existing \ {d} /\ Cardinality({e \in Existing \ {d} : e > x}) >= Keep
                 /\ \A e \in Existing \ {d} : e < x => e \in dead[p] \ {d}
      <4>1. /\ x \in Existing /\ Cardinality({e \in Existing : e > x}) >= Keep
            /\ \A e \in Existing : e < x => e \in dead[p]
        BY <1>3 DEF Phase
      <4>2. ~(d > x)
        <5>1. d <= x /\ x \in Nat
          BY <1>2, <1>3, <4>1
        <5>2. QED
          BY <1>3, <5>1
      <4>3. {e \in Existing \ {d} : e > x} = {e \in Existing : e > x}
        BY <4>2
      <4>4. QED
        BY <3>1, <4>1, <4>3
    <3>2. Phase(p)'
      BY <1>3, <2>1, <2>2, <3>1 DEF Phase
    <3>3. \A q \in Procs \ {p} : Phase(q)'
      BY <1>3, <1>4 DEF Phase
    <3>4. QED
      BY <3>2, <3>3
  <2>5. CalendarIsKept' /\ DamageIsOldest' /\ DamageIsOutdated'
    BY <1>3, <2>2, <2>3 DEF InTurn, CalendarIsKept, DamageIsOldest,
       DamageIsOutdated
  <2>6. QED
    BY <1>5, <2>4, <2>5 DEF InTurn
<1>9. QED
  BY <1>1, <1>7, <1>8 DEF Prune

\* Every listed folder is gone.
LEMMA DoneInTurn ==
  ASSUME TypeOK, InTurn, NEW p \in Procs, Done(p)
  PROVE  InTurn'
<1>1. /\ pc[p] = "prune" /\ dead[p] = {} /\ GoTo(p, "idle")
      /\ UNCHANGED <<today, folder, tmp, old, day, left, dead, crashes>>
      /\ \A d \in Days : old[d] = NoDir
  BY DEF Done, disk, InTurn, Phase
<1>2. Phase(p)'
  BY <1>1, MoveTyped DEF Phase, Labels
<1>3. /\ pc'[p] = "idle" /\ \A q \in Procs \ {p} : pc[q] = "idle" /\ pc'[q] = "idle"
      /\ OneRuns' /\ \A q \in Procs : Phase(q)'
  BY <1>1, <1>2, OthersAreIdle DEF Labels
<1>4. Existing' = Existing /\ Named' = Named /\ Damaged' = Damaged
  BY <1>1 DEF Existing, Named, Damaged, Whole
<1>5. CalendarIsKept' /\ DamageIsOldest' /\ OldIsWhole' /\ OrphansAreOfAKill'
  BY <1>1, <1>3, <1>4 DEF InTurn, CalendarIsKept, DamageIsOldest, OldIsWhole,
     OrphansAreOfAKill
<1>6. crashes = 0 => Damaged = {}
  BY <1>1, <1>3 DEF InTurn, DamageIsOutdated
<1>7. DamageIsOutdated'
  BY <1>1, <1>4, <1>6 DEF InTurn, DamageIsOutdated
<1>8. QED
  BY <1>3, <1>5, <1>7 DEF InTurn

\* A kill: what was damaged, or only an .old, stays so.
LEMMA CrashInTurn ==
  ASSUME TypeOK, InTurn, NEW p \in Procs, Crash(p)
  PROVE  InTurn'
<1>1. /\ pc[p] # "idle" /\ GoTo(p, "idle") /\ crashes \in Nat /\ crashes' = crashes + 1
      /\ UNCHANGED <<today, folder, tmp, old, day>>
  BY DEF Crash, disk, TypeOK
<1>2. Phase(p)'
  BY <1>1, MoveTyped DEF Phase, Labels
<1>3. /\ pc'[p] = "idle" /\ \A q \in Procs \ {p} : pc[q] = "idle" /\ pc'[q] = "idle"
      /\ OneRuns' /\ \A q \in Procs : Phase(q)'
  BY <1>1, <1>2, OthersAreIdle DEF Labels
<1>4. Existing' = Existing /\ Named' = Named /\ Damaged' = Damaged
  BY <1>1 DEF Existing, Named, Damaged, Whole
<1>5. CalendarIsKept' /\ DamageIsOldest' /\ OldIsWhole'
  BY <1>1, <1>3, <1>4 DEF InTurn, CalendarIsKept, DamageIsOldest, OldIsWhole,
     Whole
<1>6. (crashes' < 2 => crashes = 0 /\ crashes < 2) /\ crashes' > 0
  BY <1>1
<1>7. DamageIsOutdated'
  BY <1>4, <1>6 DEF InTurn, DamageIsOutdated
<1>8. OrphansAreOfAKill'
  <2>1. ASSUME crashes = 0, NEW d \in Days, folder[d] = NoDir, old[d] # NoDir PROVE Damaged = {}
    <3>1. pc[p] = "swapIn"
      BY <1>3, <2>1 DEF InTurn, OrphansAreOfAKill
    <3>2. QED
      BY <1>3, <2>1, <3>1 DEF InTurn, DamageIsOutdated
  <2>2. QED
    BY <1>1, <1>4, <1>6, <2>1 DEF OrphansAreOfAKill
<1>9. QED
  BY <1>3, <1>5, <1>7, <1>8 DEF InTurn

\* A day passes, and nothing does.
LEMMA MidnightInTurn ==
  ASSUME TypeOK, InTurn, Midnight \/ UNCHANGED vars
  PROVE  InTurn'
<1>1. /\ UNCHANGED <<folder, tmp, old, pc, day, left, dead, crashes>>
      /\ today \in Nat /\ today' \in Nat /\ today <= today'
      /\ day \in [Procs -> Nat] /\ Existing \subseteq Nat
  BY DEF Midnight, vars, disk, TypeOK, Days, Existing
<1>2. Existing' = Existing /\ Named' = Named /\ Damaged' = Damaged /\ Damaged \subseteq Existing
  BY <1>1 DEF Existing, Named, Damaged, Whole
<1>3. \A p \in Procs : Phase(p)'
  BY <1>1, <1>2 DEF InTurn, Phase, Whole
<1>4. (\A d \in Existing : d <= today => d <= today') /\ (\A d \in Damaged : d < today => d < today')
      /\ \A p \in Procs : day[p] <= today => day[p] <= today'
  BY <1>1, <1>2
<1>5. CalendarIsKept' /\ DamageIsOldest'
  BY <1>1, <1>2, <1>4 DEF InTurn, CalendarIsKept, DamageIsOldest
<1>6. OneRuns' /\ OldIsWhole' /\ DamageIsOutdated' /\ OrphansAreOfAKill'
  BY <1>1, <1>2 DEF InTurn, OneRuns, OldIsWhole, Whole, DamageIsOutdated,
     OrphansAreOfAKill
<1>7. QED
  BY <1>3, <1>5, <1>6 DEF InTurn

-----------------------------------------------------------------------------
(* What it gives.                                                          *)
-----------------------------------------------------------------------------

\* The invariant holds in every reachable state.
THEOREM BackupInvariant == Spec => []BackupInv
<1>1. Init => BackupInv
  <2>1. ASSUME Init PROVE InTurn
    <3>1. Existing = {} /\ Named = {} /\ Damaged = {}
      BY <2>1 DEF Init, Existing, Named, Damaged
    <3>2. QED
      BY <2>1, <3>1 DEF Init, InTurn, OneRuns, CalendarIsKept, DamageIsOldest,
         OldIsWhole,
                        Phase, DamageIsOutdated, OrphansAreOfAKill
  <2>2. Init => TypeOK
    BY BackupAssumption DEF Init, TypeOK, Days, Dirs
  <2>3. QED
    BY <2>1, <2>2 DEF BackupInv
<1>2. ASSUME BackupInv, TypeOK', [Next]_vars PROVE BackupInv'
  <2>1. ASSUME ~Overlap, InTurn, NEW p \in Procs, Proceed(p) PROVE InTurn'
    BY <1>2, <2>1, SweepInTurn, MakeTmpInTurn, CopyFileInTurn, SwapOutInTurn,
       SwapInInTurn,
       DropOldInTurn, PruneInTurn, DoneInTurn DEF Proceed, BackupInv
  <2>2. ASSUME ~Overlap, InTurn PROVE InTurn'
    BY <1>2, <2>1, <2>2, StartInTurn, CrashInTurn, MidnightInTurn DEF Next,
       BackupInv
  <2>3. QED
    BY <1>2, <2>2 DEF BackupInv
<1>3. QED
  BY <1>1, <1>2, TypeCorrect, PTL DEF Spec

\* As long as runs follow one another and one was killed at most, each of the
\* newest Keep folders has every file that could be copied.
THEOREM NewestFoldersAreWhole == ASSUME ~Overlap PROVE Spec => []KeptIsWhole
<1>1. ASSUME BackupInv, crashes < 2, NEW d \in Existing \ Outdated(Named) PROVE Whole(folder[d])
  <2>1. SUFFICES ASSUME d \in Damaged PROVE FALSE
    BY DEF Damaged
  <2>2. Cardinality({e \in Named : e > d}) >= Keep
    BY <1>1, <2>1 DEF BackupInv, InTurn, DamageIsOutdated
  <2>3. d \in Named
    BY DEF Existing, Named
  <2>4. QED
    BY <2>2, <2>3 DEF Outdated
<1>2. BackupInv => KeptIsWhole
  BY <1>1 DEF KeptIsWhole
<1>3. QED
  BY <1>2, BackupInvariant, PTL

\* A day's whole copy goes only once Keep newer days have one, or when it was an
\* .old without a folder that the next run sweeps away: as long as runs follow
\* one another, however many are killed.
THEOREM CopiesGoOnlyWhenOutdated == ASSUME ~Overlap PROVE Spec => CopyGoesOnlyWhenOutdated
<1> DEFINE Kept(d) ==
      Saved(d) /\ ~Saved(d)'
        => \/ Cardinality({e \in Days : e > d /\ Whole(folder[e])}) >= Keep
           \/ folder[d] = NoDir /\ \E p \in Procs : pc[p] = "sweep"
<1>1. ASSUME TypeOK, InTurn, NEW p \in Procs, Sweep(p), NEW d \in Days PROVE Kept(d)
  <2>1. pc[p] = "sweep" /\ folder' = folder
    BY <1>1 DEF Sweep
  <2>2. ASSUME Saved(d), ~Whole(folder[d]) PROVE folder[d] = NoDir
    BY <1>1, <2>2 DEF Saved, InTurn, OldIsWhole, Whole
  <2>3. QED
    BY <2>1, <2>2 DEF Saved, Whole
<1>2. ASSUME TypeOK, InTurn, NEW p \in Procs, SwapOut(p), NEW d \in Days PROVE Kept(d)
  <2>1. old[d] = NoDir
    BY <1>2 DEF SwapOut, InTurn, Phase
  <2>2. CASE folder'[d] = folder[d]
    BY <2>1, <2>2 DEF Saved, Whole
  <2>3. CASE d = day[p] /\ old' = [old EXCEPT ![d] = folder[d]]
    BY <1>2, <2>1, <2>3 DEF Saved, Whole, TypeOK
  <2>4. QED
    BY <1>2, <2>2, <2>3 DEF SwapOut, disk, TypeOK
<1>3. ASSUME TypeOK, InTurn, NEW p \in Procs, SwapIn(p), NEW d \in Days PROVE Kept(d)
  <2>1. /\ old' = old /\ Whole(tmp[day[p]])
        /\ folder' = [folder EXCEPT ![day[p]] = tmp[day[p]]] \/ folder' = folder
    BY <1>3 DEF SwapIn, InTurn, Phase
  <2>2. folder'[d] = folder[d] \/ (Whole(tmp[day[p]]) /\ folder'[d] = tmp[day[p]])
    BY <1>3, <2>1 DEF TypeOK
  <2>3. QED
    BY <2>1, <2>2 DEF Saved, Whole
<1>4. ASSUME TypeOK, InTurn, NEW p \in Procs, DropOld(p), NEW d \in Days PROVE Kept(d)
  <2>1. /\ folder' = folder /\ Whole(folder[day[p]])
        /\ d # day[p] => old'[d] = old[d]
    BY <1>4 DEF DropOld, InTurn, Phase, TypeOK
  <2>2. QED
    BY <2>1 DEF Saved, Whole
<1>5. ASSUME TypeOK, InTurn, NEW p \in Procs, Prune(p), NEW d \in Days PROVE Kept(d)
  <2>1. PICK m : m = Min(dead[p])
    OBVIOUS
  <2>2. /\ m \in Existing /\ Cardinality({e \in Existing : e > m}) >= Keep
        /\ \A e \in Damaged : e = m
    BY <1>5, <2>1, PrunedIsOldest
  <2>3. old' = old /\ \A e \in Days : old[e] = NoDir
    BY <1>5 DEF Prune, InTurn, Phase
  <2>4. CASE d = m
    <3>1. {e \in Existing : e > d} \in SUBSET {e \in Days : e > d /\ Whole(folder[e])}
      <4>1. ASSUME NEW e \in Existing, e > d PROVE Whole(folder[e])
        <5>1. d \in Nat
          BY DEF Days
        <5>2. e # d
          BY <4>1, <5>1
        <5>3. QED
          BY <2>2, <2>4, <5>2 DEF Damaged
      <4>2. QED
        BY <4>1 DEF Existing
    <3>2. {e \in Days : e > d /\ Whole(folder[e])} \in SUBSET Days
      OBVIOUS
    <3>3. {e \in Existing : e > d} \in SUBSET Days
      BY DEF Existing
    <3>4. Cardinality({e \in Existing : e > d})
            <= Cardinality({e \in Days : e > d /\ Whole(folder[e])})
      BY <3>1, <3>2, DaysAreFinite
    <3>5. Cardinality({e \in Existing : e > d}) \in Nat
          /\ Cardinality({e \in Days : e > d /\ Whole(folder[e])}) \in Nat
      BY <3>2, <3>3, DaysAreFinite
    <3>6. Cardinality({e \in Existing : e > d}) >= Keep
      BY <2>2, <2>4
    <3>7. QED
      BY <3>4, <3>5, <3>6, BackupAssumption
  <2>5. CASE d # m
    <3>1. folder'[d] = folder[d]
      BY <1>5, <2>1, <2>5 DEF Prune, TypeOK
    <3>2. QED
      BY <2>3, <3>1 DEF Saved, Whole
  <2>6. QED
    BY <2>4, <2>5
<1>6. ASSUME UNCHANGED <<folder, old>>, NEW d \in Days PROVE Kept(d)
  BY <1>6 DEF Saved, Whole
<1>7. ASSUME BackupInv, [Next]_vars, NEW d \in Days PROVE Kept(d)
  <2>1. TypeOK /\ InTurn
    BY <1>7 DEF BackupInv
  <2>2. ASSUME NEW p \in Procs, Start(p) \/ Crash(p) \/ MakeTmp(p) \/ CopyFile(p) \/ Done(p)
        PROVE  UNCHANGED <<folder, old>>
    BY <2>2 DEF Start, Crash, MakeTmp, CopyFile, Done, disk
  <2>3. Midnight \/ UNCHANGED vars => UNCHANGED <<folder, old>>
    BY DEF Midnight, vars, disk
  <2> HIDE DEF Kept
  <2>4. ASSUME NEW p \in Procs, Start(p) \/ Proceed(p) \/ Crash(p) PROVE Kept(d)
    BY <1>1, <1>2, <1>3, <1>4, <1>5, <1>6, <2>1, <2>2, <2>4 DEF Proceed
  <2>5. QED
    BY <1>6, <1>7, <2>3, <2>4 DEF Next
<1>8. BackupInv /\ [Next]_vars => [\A d \in Days : Kept(d)]_vars
  BY <1>7
<1>9. QED
  BY <1>8, BackupInvariant, PTL DEF Spec, CopyGoesOnlyWhenOutdated

=============================================================================
