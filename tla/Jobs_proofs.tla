----------------------------- MODULE Jobs_proofs -----------------------------
(***************************************************************************)
(* What GM's own jobs promise, for every set of actors and every bound.    *)
(* The parts share no state: each has an inductive invariant of its own,   *)
(* kept by its own steps and left alone by the others'.                    *)
(***************************************************************************)
EXTENDS Jobs, FiniteSetTheorems, WellFoundedInduction, TLAPS

-----------------------------------------------------------------------------
(* The inductive invariants.                                               *)
-----------------------------------------------------------------------------

\* Migration: where what was written is, at each step of a move nobody wrote
\* behind: in the old folder until it is counted, in the new one after that.
MoveInv ==
  /\ step = "none" => \A m \in memory : m[2] \in M!In(old, m[1]) \cup M!In(new, m[1])
  /\ step \in {"copying", "counting"} =>
       /\ \A m \in memory : m[2] \in M!In(old, m[1])
       /\ DOMAIN new \subseteq DOMAIN old /\ todo \subseteq DOMAIN old \ DOMAIN new
       /\ ~failed => \A f \in DOMAIN new : M!In(old, f) \subseteq M!In(new, f)
  /\ step = "removing" => \A m \in memory : m[2] \in M!In(new, m[1])

MigrationInv == M!TypeOK /\ (behind \/ MoveInv)

\* Processes: whoever is on a list has run and lost its parent, and a daemon is
\* on none that was made while a gateway served.
ListedAreLeft ==
  \A r \in L!Procs \cup Reapers :
    /\ \A e \in reap[r].list : e \in up \cup gone /\ parent[e] = "nobody"
    /\ reap[r].list \cap Daemons # {} => ~reap[r].served

ProcessesInv == L!TypeOK /\ ListedAreLeft /\ ~wronged

\* Blackboard: a row's version and a version to be written are behind the number
\* of sets; versions go back, and a set in progress is not the newest, only by a
\* race.
VersionsAreCounted ==
  /\ \A k \in Keys : state[k].value <= sets
  /\ \A k \in Keys : state[k] = B!NoRow \/ state[k].version \in 1..state[k].value
  /\ \A p \in Setters : B!Setting(p) =>
       setting[p].version \in 1..sets + 1 /\ \E k \in Keys : setting[p].key = {k}
  /\ sets + Cardinality({p \in Setters : B!Setting(p)}) <= MaxVersion

RacesAreNoticed ==
  /\ B!Newest < seen => raced # {}
  /\ \A p \in Setters : B!Setting(p) /\ ~setting[p].beside =>
       /\ setting[p].version = B!Newest + 1
       /\ \A q \in Setters \ {p} : ~B!Setting(q)

BlackboardInv == B!TypeOK /\ VersionsAreCounted /\ RacesAreNoticed /\ B!DeltaMissesNothing

\* Promotion: a promotion is at one concept at a time; a fact comes more than
\* once only by as many faults; and one promotion at most is on the way from a
\* node it made to its chunks, with nothing there yet.
AtOne == \A o \in Ops : IF op[o].step = "chunks" THEN \E k \in Concepts : op[o].at = {k}
                                                 ELSE op[o].at = {}
On(k) == {o \in Ops : k \in op[o].at}
FactsAreCounted ==
  \A k \in Concepts, f \in Facts :
    chunks[k][f] + Cardinality(On(k)) <= faults + IF k \in nodes THEN 1 ELSE 0
NodesAreFilledOnce ==
  \A k \in Concepts :
    /\ k \notin nodes => \A f \in Facts : chunks[k][f] = 0
    /\ k \notin harmed => \A o \in On(k) :
         /\ k \in nodes /\ op[o].facts[k] = from[k] /\ On(k) = {o}
         /\ \A f \in Facts : chunks[k][f] = 0

PromotionInv ==
  P!TypeOK /\ AtOne /\ IsFiniteSet(links) /\ FactsAreCounted /\ NodesAreFilledOnce
  /\ P!FactsArriveOnce

\* Stimuli: what questions a call may have out, by its kind.
Questions ==
  \A c \in Slots :
    /\ call[c].kind = "recall" => call[c].out \subseteq {"work", "kb", "extract", "flash"}
    /\ call[c].kind = "tool" => call[c].out \in {{"work"}, {"note"}}
    /\ call[c].kind = "pre_turn" =>
         call[c].out \in {{"work"}, {"kb"}, {"confirm"}, {"flash"}, {"note"}}
    /\ call[c].kind = "pulse" => call[c].out \in {{"work"}, {"kb"}, {"confirm"}, {"flash"}}

\* What was told is remembered; the counters and the ghosts keep together; and a
\* question out alone finds, when it is answered, what it was asked for.
ToldIsRemembered == \A s \in S!Who : told[s] \subseteq shown[s] \cup flashed[s]
CountersTell == since <= apart /\ (quiet < turns => quiet + 1 >= SafetyGap)
AloneIsInTime ==
  \A c \in Slots : ~call[c].beside =>
    /\ S!Out(c, "flash") => apart = FlashGap /\ S!Others(c, "flash") = {}
    /\ S!Out(c, "note") => quiet + 1 >= SafetyGap

StimuliInv ==
  S!TypeOK /\ IsFiniteSet(held) /\ Questions /\ ToldIsRemembered /\ CountersTell /\ AloneIsInTime
  /\ ~hasty /\ ~twice /\ ~mute

\* Bridges: a use was asked for before it is written; who owes one to pair k.
Owes(o, k) ==
  \/ o.at \in {"bump", "insert"} /\ o.key = k
  \/ o.at = "reinforce" /\ k \in o.todo
Due(k) == {p \in Users : Owes(using[p], k)}

\* What pair k may weigh by now, wherever it is written down.
Credit(k) == asked[k] + lost - Cardinality(Due(k))

\* Who has read that k is to be promoted tells Neuron.
Tells(o, k) == o.at \in {"reinforce", "confirm"} /\ k \in o.just
Told(k) == k \in reported \cup excused \/ \E p \in Users : Tells(using[p], k)

\* A row of k, or a copy of one, is in order; it is not worn out, but for what
\* the daemon is about to prune.
Fair(k, r) == r # Missing => r.weight <= Credit(k) /\ (r.promoted => Told(k))
Hale(k, r) == r # Missing => r.weight >= 1 \/ k \in worn \/ lost > 0 \/ fails > 0
Pruning == using[Daemon].at = "prune"
RowKept(s, k, r) ==
  /\ Fair(k, r)
  /\ Hale(k, r) \/ (s = home /\ Pruning /\ r.weight = 0 /\ r.idle)

\* An entry of the old file is in order, and what an operation has read.
OldKept(k) == Fair(k, OldRows[k])
ReadKept(p, o) ==
  /\ o.at = "import" => \A k \in o.todo : OldKept(k)
  /\ o.at \in {"count", "import", "retire"} /\ o.then.at = "fade" => p = Daemon
  /\ o.at = "reinforce" =>
       \A k \in o.todo : R!Has(o.seen, k) /\ (R!Crosses(o.seen[k]) => k \in o.just)
  /\ o.at \in {"compare", "merge"} =>
       /\ \A k \in o.todo : R!Has(o.rows, k)
       /\ \A k \in Pairs : Fair(k, o.rows[k]) /\ Hale(k, o.rows[k])
  /\ o.at = "merge" => R!Has(o.rows, o.key) /\ Fair(o.key, o.seen)

BridgesInv ==
  /\ R!TypeOK
  /\ \A k \in Pairs : Credit(k) >= 1
  /\ \A k \in legacy : OldKept(k)
  /\ \A s \in R!Stores, k \in Pairs : RowKept(s, k, row[s][k])
  /\ \A p \in Users : ReadKept(p, using[p])

JobsInv ==
  /\ part \in Parts
  /\ StimuliInv /\ PromotionInv /\ BridgesInv /\ BlackboardInv /\ ProcessesInv /\ MigrationInv

-----------------------------------------------------------------------------
(* What the parts share: counting, and the greatest and least of numbers.  *)
-----------------------------------------------------------------------------

\* The parts' modules count as this one does.
LEMMA CountsAlike ==
  \A x : /\ M!Cardinality(x) = Cardinality(x) /\ B!Cardinality(x) = Cardinality(x)
         /\ P!Cardinality(x) = Cardinality(x) /\ S!Cardinality(x) = Cardinality(x)
         /\ R!Cardinality(x) = Cardinality(x)
BY DEF M!Cardinality, B!Cardinality, P!Cardinality, S!Cardinality,
   R!Cardinality, Cardinality

\* A non-empty set of naturals has a least element.
LEMMA LeastNatural ==
  ASSUME NEW T \in SUBSET Nat, T # {}
  PROVE  \E x \in T : \A y \in T : x <= y
<1>1. PICK x \in T : \A y \in T : ~ (<<y, x>> \in OpToRel(<, Nat))
  BY WFMin, NatLessThanWellFounded
<1>2. \A y \in T : ~ (y < x)
  BY <1>1 DEF OpToRel
<1>3. QED
  BY <1>2

\* A non-empty set of bounded naturals has a greatest element.
LEMMA MaxIsGreatest ==
  ASSUME NEW m \in Nat, NEW T \in SUBSET (0..m), T # {}
  PROVE  B!Max(T) \in T /\ \A y \in T : B!Max(T) >= y
<1> DEFINE U == {m - x : x \in T}
<1>1. U \in SUBSET Nat /\ U # {}
  <2>1. ASSUME NEW x \in T PROVE m - x \in Nat
    <3>1. x \in 0..m
      OBVIOUS
    <3>2. QED
      BY <3>1
  <2>2. QED
    BY <2>1
<1>2. PICK u \in U : \A v \in U : u <= v
  BY <1>1, LeastNatural
<1>3. PICK x \in T : u = m - x
  BY <1>2
<1>4. ASSUME NEW y \in T PROVE x >= y
  <2>1. x \in 0..m /\ y \in 0..m
    OBVIOUS
  <2>2. m - x <= m - y
    BY <1>2, <1>3
  <2>3. QED
    BY <2>1, <2>2
<1>5. QED
  BY <1>4 DEF B!Max

-----------------------------------------------------------------------------
(* Migration.                                                              *)
-----------------------------------------------------------------------------

\* A folder written or taken from is a folder, and not empty once written.
LEMMA WithIsFolder ==
  ASSUME NEW F, M!IsFolder(F), NEW f \in Files, NEW c \in SUBSET M!Content
  PROVE  /\ M!IsFolder(M!With(F, f, c))
         /\ M!IsFolder(M!Without(F, f))
         /\ M!In(F, f) \in SUBSET M!Content
BY DEF M!IsFolder, M!With, M!Without, M!In

\* A folder with no file has nothing in it.
LEMMA EmptyHasNothing == DOMAIN M!Empty = {} /\ \A f : M!In(M!Empty, f) = {}
BY DEF M!Empty, M!In

\* A step of a move leaves folders folders.
LEMMA MigrationTypeStep ==
  ASSUME M!TypeOK, M!Next
  PROVE  M!TypeOK'
<1>a. M!IsFolder(old) /\ M!IsFolder(new) /\ todo \subseteq Files
  BY DEF M!TypeOK
<1>1. CASE M!Start
  BY <1>1 DEF M!TypeOK, M!Start, M!Rest, M!IsFolder
<1>2. CASE M!CopyFile
  <2>1. PICK f \in todo :
          /\ \/ new' = M!With(new, f, M!In(old, f)) /\ UNCHANGED failed
             \/ new' \in {new, M!With(new, f, {})} /\ failed' = TRUE
          /\ todo' = todo \ {f}
    BY <1>2 DEF M!CopyFile
  <2>2. M!IsFolder(new')
    BY <1>a, <2>1, WithIsFolder
  <2>3. QED
    BY <1>2, <2>1, <2>2 DEF M!TypeOK, M!CopyFile, M!Rest, M!IsFolder
<1>3. CASE M!Copied
  BY <1>3 DEF M!TypeOK, M!Copied, M!Rest, M!IsFolder
<1>4. CASE M!Count
  BY <1>4 DEF M!TypeOK, M!Count, M!Rest, M!IsFolder
<1>5. CASE M!RemoveFile
  <2>1. PICK f \in todo : old' \in {old, M!Without(old, f)} /\ todo' = todo \ {f}
    BY <1>5 DEF M!RemoveFile
  <2>2. M!IsFolder(old')
    BY <1>a, <2>1, WithIsFolder
  <2>3. old # M!Empty => "old" \in there
    BY DEF M!TypeOK
  <2>4. old' # M!Empty => old # M!Empty
    BY <2>1, EmptyHasNothing DEF M!Without, M!Empty
  <2>5. QED
    BY <1>5, <2>1, <2>2, <2>4 DEF M!TypeOK, M!RemoveFile, M!Rest, M!IsFolder
<1>6. CASE M!Removed
  BY <1>6 DEF M!TypeOK, M!Removed, M!Rest, M!IsFolder
<1>7. CASE M!Killed
  BY <1>7 DEF M!TypeOK, M!Killed, M!Rest, M!IsFolder
<1>8. ASSUME NEW t \in Tools, M!Open(t) \/ M!Close(t) PROVE M!TypeOK'
  <2>1. M!LegacyOrNew \in {"none", "old", "new"}
    BY DEF M!LegacyOrNew
  <2>2. root' \in [Tools -> {"none", "old", "new"}]
    BY <1>8, <2>1 DEF M!TypeOK, M!Open, M!Close
  <2>3. UNCHANGED <<old, new, there, step, todo, failed, memory, behind>>
    BY <1>8 DEF M!Open, M!Close
  <2>4. QED
    BY <2>2, <2>3 DEF M!TypeOK, M!IsFolder
<1>9. ASSUME NEW t \in Tools, M!Write(t) PROVE M!TypeOK'
  <2>1. PICK f \in Files, w \in 1..MaxWrites :
          /\ \/ /\ root[t] = "old" /\ "old" \in there
                /\ old' = M!With(old, f, M!In(old, f) \cup {w}) /\ UNCHANGED <<new, there>>
             \/ UNCHANGED <<old, new, there>>
             \/ /\ new' = M!With(new, f, M!In(new, f) \cup {w}) /\ there' = there \cup {"new"}
                /\ UNCHANGED old
          /\ behind' \in BOOLEAN
          /\ memory' = memory \cup {<<f, w>>}
    BY <1>9 DEF M!Write, M!TypeOK
  <2>2. w \in M!Content
    BY DEF M!Content
  <2>3. M!IsFolder(old') /\ M!IsFolder(new')
    BY <1>a, <2>1, <2>2, WithIsFolder
  <2>4. memory' \subseteq Files \X M!Content
    BY <2>1, <2>2 DEF M!TypeOK
  <2>5. QED
    BY <1>9, <2>1, <2>3, <2>4 DEF M!TypeOK, M!Write, M!IsFolder
<1>10. QED
  BY <1>1, <1>2, <1>3, <1>4, <1>5, <1>6, <1>7, <1>8, <1>9 DEF M!Next

\* When nobody wrote behind its back, a move keeps what was written where it
\* should be at each of its steps.
LEMMA MoveStep ==
  ASSUME MigrationInv, M!TypeOK', M!Next
  PROVE  (behind \/ MoveInv)'
<1>a. SUFFICES ASSUME ~behind' PROVE MoveInv'
  OBVIOUS
<1>b. M!TypeOK /\ (~behind => MoveInv)
  BY DEF MigrationInv
<1>1. CASE M!Start
  <2>1. ~behind /\ step = "none" /\ new = M!Empty
    BY <1>1, <1>a, <1>b DEF M!Start, M!Rest, M!TypeOK
  <2>2. QED
    BY <1>1, <1>b, <2>1, EmptyHasNothing DEF M!Start, M!Rest, MoveInv
<1>2. CASE M!CopyFile
  <2>1. ~behind /\ step = "copying" /\ MoveInv
    BY <1>2, <1>a, <1>b DEF M!CopyFile, M!Rest
  <2>2. PICK f \in todo :
          /\ \/ new' = M!With(new, f, M!In(old, f)) /\ UNCHANGED failed
             \/ new' \in {new, M!With(new, f, {})} /\ failed' = TRUE
          /\ todo' = todo \ {f}
    BY <1>2 DEF M!CopyFile
  <2>3. UNCHANGED <<old, step, memory>>
    BY <1>2 DEF M!CopyFile, M!Rest
  <2>4. f \in DOMAIN old \ DOMAIN new
    BY <2>1 DEF MoveInv
  <2>5. DOMAIN new' \subseteq DOMAIN old /\ todo' \subseteq DOMAIN old \ DOMAIN new'
    BY <2>1, <2>2, <2>4 DEF MoveInv, M!With
  <2>6. ~failed' => \A g \in DOMAIN new' : M!In(old, g) \subseteq M!In(new', g)
    BY <2>1, <2>2 DEF MoveInv, M!With, M!In
  <2>7. QED
    BY <2>1, <2>3, <2>5, <2>6 DEF MoveInv, M!In
<1>3. CASE M!Copied
  BY <1>3, <1>a, <1>b DEF M!Copied, M!Rest, MoveInv, M!In
<1>4. CASE M!Count
  <2>1. ~behind /\ step = "counting" /\ ~failed /\ MoveInv
    BY <1>4, <1>a, <1>b DEF M!Count, M!Rest, M!TypeOK
  <2>2. UNCHANGED <<old, new, memory>>
    BY <1>4 DEF M!Count, M!Rest
  <2>3. \A m \in memory : m[2] \in M!In(old, m[1])
    BY <2>1 DEF MoveInv
  <2>4. CASE step' = "none"
    BY <2>2, <2>3, <2>4 DEF MoveInv, M!In
  <2>5. CASE M!Whole /\ step' = "removing"
    <3>1. DOMAIN new \subseteq DOMAIN old /\ IsFiniteSet(DOMAIN old)
      BY <2>1, <1>b, FiniteThings, FS_Subset DEF MoveInv, M!TypeOK, M!IsFolder
    <3>2. Cardinality(DOMAIN new) >= Cardinality(DOMAIN old)
      BY <2>5, CountsAlike DEF M!Whole
    <3>3. DOMAIN new = DOMAIN old
      <4>1. /\ Cardinality(DOMAIN new) \in Nat /\ Cardinality(DOMAIN old) \in Nat
            /\ DOMAIN new # DOMAIN old => Cardinality(DOMAIN new) < Cardinality(DOMAIN old)
        BY <3>1, FS_Subset, FS_CardinalityType
      <4>2. QED
        BY <3>2, <4>1
    <3>4. \A f : M!In(old, f) \subseteq M!In(new, f)
      BY <2>1, <3>3 DEF MoveInv, M!In
    <3>5. QED
      BY <2>2, <2>3, <2>5, <3>4 DEF MoveInv, M!In
  <2>6. QED
    BY <1>4, <2>4, <2>5 DEF M!Count
<1>5. CASE M!RemoveFile
  BY <1>5, <1>a, <1>b DEF M!RemoveFile, M!Rest, MoveInv, M!In
<1>6. CASE M!Removed
  <2>1. /\ step = "removing" /\ step' = "none" /\ ~behind
        /\ UNCHANGED <<old, new, memory>>
    BY <1>6, <1>a DEF M!Removed, M!Rest
  <2>2. QED
    BY <2>1, <1>b DEF MoveInv, M!In
<1>7. CASE M!Killed
  <2>1. step' = "none" /\ ~behind /\ UNCHANGED <<old, new, memory>>
    BY <1>7, <1>a DEF M!Killed, M!Rest
  <2>2. MoveInv /\ step \in {"none", "copying", "counting", "removing"}
    BY <1>b, <2>1 DEF M!TypeOK
  <2>3. QED
    BY <2>1, <2>2 DEF MoveInv, M!In
<1>8. ASSUME NEW t \in Tools, M!Open(t) \/ M!Close(t) PROVE MoveInv'
  <2>1. UNCHANGED <<old, new, there, step, todo, failed, memory, behind>>
    BY <1>8 DEF M!Open, M!Close
  <2>2. QED
    BY <2>1, <1>a, <1>b DEF MoveInv, M!In
<1>9. ASSUME NEW t \in Tools, M!Write(t) PROVE MoveInv'
  <2>1. PICK f \in Files, w \in 1..MaxWrites :
          /\ \/ /\ old' = M!With(old, f, M!In(old, f) \cup {w}) /\ UNCHANGED new
                /\ behind' = (behind \/ step = "removing"
                                     \/ (step # "none" /\ f \in DOMAIN old \ todo))
             \/ behind' = TRUE
             \/ /\ new' = M!With(new, f, M!In(new, f) \cup {w}) /\ UNCHANGED old
                /\ behind' = (behind \/ step \in {"copying", "counting"})
          /\ memory' = memory \cup {<<f, w>>}
    BY <1>9 DEF M!Write
  <2>2. UNCHANGED <<step, todo, failed>> /\ ~behind /\ MoveInv
    BY <1>9, <1>a, <1>b, <2>1 DEF M!Write
  <2>3. CASE UNCHANGED new /\ old' = M!With(old, f, M!In(old, f) \cup {w})
             /\ step # "removing" /\ (step # "none" => f \notin DOMAIN old \ todo)
    <3>1. /\ \A g : M!In(old', g) = IF g = f THEN M!In(old, f) \cup {w} ELSE M!In(old, g)
          /\ DOMAIN old' = DOMAIN old \cup {f}
      BY <2>3 DEF M!With, M!In
    <3>2. \A g : M!In(new', g) = M!In(new, g)
      BY <2>3
    <3>3. step # "none" => f \notin DOMAIN new
      BY <2>2, <2>3, <1>b DEF MoveInv, M!TypeOK
    <3>4. step = "none" => \A m \in memory' : m[2] \in M!In(old', m[1]) \cup M!In(new', m[1])
      BY <2>1, <2>2, <3>1, <3>2 DEF MoveInv
    <3>5. step \in {"copying", "counting"} => \A m \in memory' : m[2] \in M!In(old', m[1])
      BY <2>1, <2>2, <3>1 DEF MoveInv
    <3>6. step \in {"copying", "counting"} =>
            /\ DOMAIN new \subseteq DOMAIN old' /\ todo \subseteq DOMAIN old' \ DOMAIN new
            /\ ~failed => \A g \in DOMAIN new : M!In(old', g) \subseteq M!In(new, g)
      BY <2>2, <3>1, <3>3 DEF MoveInv
    <3>7. QED
      BY <2>2, <2>3, <3>4, <3>5, <3>6 DEF MoveInv
  <2>4. CASE UNCHANGED old /\ new' = M!With(new, f, M!In(new, f) \cup {w})
             /\ step \notin {"copying", "counting"}
    <3>1. \A g : M!In(new', g) = IF g = f THEN M!In(new, f) \cup {w} ELSE M!In(new, g)
      BY <2>4 DEF M!With, M!In
    <3>2. \A g : M!In(old', g) = M!In(old, g)
      BY <2>4
    <3>3. QED
      BY <2>1, <2>2, <2>4, <3>1, <3>2 DEF MoveInv
  <2>5. QED
    BY <1>a, <2>1, <2>3, <2>4
<1>10. QED
  BY <1>1, <1>2, <1>3, <1>4, <1>5, <1>6, <1>7, <1>8, <1>9 DEF M!Next

\* A folder in its old place, and nothing moved, is a good start.
LEMMA MigrationStart == M!Init => MigrationInv
<1>1. ASSUME M!Init PROVE MigrationInv
  <2>1. PICK fs \in SUBSET Files :
          old = [f \in fs |-> {f}] /\ memory = {<<f, f>> : f \in fs}
    BY <1>1 DEF M!Init
  <2>a. M!IsFolder(old) /\ memory \subseteq Files \X M!Content
    BY <2>1 DEF M!IsFolder, M!Content
  <2>b. M!IsFolder(new)
    BY <1>1, EmptyHasNothing DEF M!Init, M!IsFolder
  <2>2. M!TypeOK
    BY <1>1, <2>a, <2>b DEF M!Init, M!TypeOK
  <2>3. \A m \in memory : m[2] \in M!In(old, m[1])
    BY <2>1 DEF M!In
  <2>4. QED
    BY <1>1, <2>2, <2>3 DEF M!Init, MigrationInv, MoveInv
<1>2. QED
  BY <1>1

\* Migration keeps its invariant.
LEMMA MigrationStep ==
  ASSUME MigrationInv, M!Next \/ UNCHANGED migration
  PROVE  MigrationInv'
<1>1. CASE M!Next
  BY <1>1, MigrationTypeStep, MoveStep DEF MigrationInv
<1>2. CASE UNCHANGED migration
  BY <1>2 DEF migration, MigrationInv, M!TypeOK, M!IsFolder, MoveInv, M!In
<1>3. QED
  BY <1>1, <1>2

-----------------------------------------------------------------------------
(* Processes.                                                              *)
-----------------------------------------------------------------------------

ReapType == [L!Procs \cup Reapers ->
               [round : 0..MaxRounds + 1, list : SUBSET L!Procs, served : BOOLEAN]]

\* Whoever leaves has run; who is left without a parent stays so.
LEMMA LeavesTells ==
  ASSUME L!TypeOK, NEW ps \in SUBSET up, L!Leaves(ps)
  PROVE  /\ up' \subseteq L!Procs /\ gone' \subseteq L!Procs /\ up' \cap gone' = {}
         /\ up' \cup gone' = up \cup gone
         /\ parent' \in [L!Procs -> L!Procs \cup {"client", "nobody"}]
         /\ \A p \in L!Procs : parent[p] = "nobody" => parent'[p] = "nobody"
BY DEF L!TypeOK, L!Leaves

\* A list made now is of living processes with no parent, and of no daemon while
\* a gateway serves.
LEMMA OrphansAreLeft ==
  ASSUME L!TypeOK, NEW me
  PROVE  /\ L!Orphans(me) \subseteq up /\ L!Orphans(me) \subseteq L!Procs
         /\ \A e \in L!Orphans(me) : parent[e] = "nobody"
         /\ L!Orphans(me) \cap Daemons # {} => ~L!Served
BY DEF L!TypeOK, L!Orphans, L!Live, L!Serving, L!Served

\* Nobody is wronged by killing what is on a list.
LEMMA ListedMayBeKilled ==
  ASSUME ProcessesInv, NEW r \in L!Procs \cup Reapers, NEW ks \in SUBSET reap[r].list,
         L!Wronged(r, ks)
  PROVE  wronged' \in BOOLEAN /\ ~wronged'
BY DEF ProcessesInv, ListedAreLeft, L!Wronged

\* With no round begun there is no list.
LEMMA ProcessesStart == L!Init => ProcessesInv
<1>1. L!NoReap \in [round : 0..MaxRounds + 1, list : SUBSET L!Procs, served : BOOLEAN]
  BY Bounds DEF L!NoReap
<1>2. ASSUME L!Init PROVE L!TypeOK
  <2>1. reap \in ReapType /\ \A p \in L!Procs : reap[p] = L!NoReap
    BY <1>1, <1>2 DEF L!Init, ReapType
  <2>2. parent \in [L!Procs -> L!Procs \cup {"client", "nobody"}]
    BY <1>2 DEF L!Init
  <2>3. QED
    BY <1>2, <2>1, <2>2 DEF L!Init, L!TypeOK, ReapType
<1>3. L!Init => ListedAreLeft /\ ~wronged
  BY DEF L!Init, ListedAreLeft, L!NoReap
<1>4. QED
  BY <1>2, <1>3 DEF ProcessesInv

\* What is on r's list after the step was on it before, or can be on one.
Listed(r) ==
  \/ reap'[r].list \subseteq reap[r].list /\ (reap'[r].served => reap[r].served)
  \/ /\ \A e \in reap'[r].list : e \in up /\ parent[e] = "nobody"
     /\ reap'[r].list \cap Daemons # {} => ~reap'[r].served

\* Who was left behind is so after the step.
LeftStayLeft ==
  /\ up \cup gone \subseteq up' \cup gone'
  /\ \A p \in up \cup gone : parent[p] = "nobody" => parent'[p] = "nobody"

\* Whoever is left behind stays so, on every list.
LEMMA ListedStayLeft ==
  ASSUME ProcessesInv, LeftStayLeft, \A r \in L!Procs \cup Reapers : Listed(r)
  PROVE  ListedAreLeft'
BY DEF ProcessesInv, ListedAreLeft, LeftStayLeft, Listed, L!Procs

\* A name crossed off a list.
LEMMA CrossedTells ==
  ASSUME reap \in ReapType, NEW me \in L!Procs \cup Reapers, NEW e
  PROVE  /\ L!Crossed(me, e) \in ReapType
         /\ \A r \in L!Procs \cup Reapers :
              /\ L!Crossed(me, e)[r].list \subseteq reap[r].list
              /\ L!Crossed(me, e)[r].served => reap[r].served
              /\ r # me => L!Crossed(me, e)[r] = reap[r]
<1> DEFINE keeps == reap[me].served /\ reap[me].list # {e}
           entry == [reap[me] EXCEPT !.list = @ \ {e}, !.served = keeps]
<1>1. reap[me] \in [round : 0..MaxRounds + 1, list : SUBSET L!Procs, served : BOOLEAN]
  BY DEF ReapType
<1>2. keeps \in BOOLEAN /\ (keeps => reap[me].served)
  OBVIOUS
<1>3. L!Crossed(me, e) = [reap EXCEPT ![me] = entry]
  BY DEF L!Crossed, ReapType
<1> HIDE DEF keeps
<1>4. /\ entry \in [round : 0..MaxRounds + 1, list : SUBSET L!Procs, served : BOOLEAN]
      /\ entry.list \subseteq reap[me].list /\ (entry.served => reap[me].served)
  BY <1>1, <1>2
<1> HIDE DEF entry
<1>5. QED
  BY <1>3, <1>4 DEF ReapType

\* A process that does not reap.
LEMMA NoReapType ==
  L!NoReap \in [round : 0..MaxRounds + 1, list : SUBSET L!Procs, served : BOOLEAN]
BY Bounds DEF L!NoReap

\* A fresh list is of those left behind.
LEMMA ListsTells ==
  ASSUME ProcessesInv, NEW me \in L!Procs, reap[me].round \in 1..MaxRounds,
         L!Lists(me, L!Orphans(me))
  PROVE  /\ reap' \in ReapType /\ \A r \in (L!Procs \cup Reapers) \ {me} : reap'[r] = reap[r]
         /\ Listed(me)
<1> DEFINE targets == L!Orphans(me)
           fresh == [round |-> IF targets = {} THEN MaxRounds + 1 ELSE reap[me].round + 1,
                     list |-> targets, served |-> targets # {} /\ L!Served]
<1>1. reap \in ReapType /\ MaxRounds \in Nat
  BY Bounds DEF ProcessesInv, L!TypeOK, ReapType
<1>2. reap' = [reap EXCEPT ![me] = fresh]
  BY DEF L!Lists
<1>3. /\ targets \subseteq up /\ targets \subseteq L!Procs /\ \A e \in targets : parent[e] = "nobody"
      /\ targets \cap Daemons # {} => ~L!Served
  BY OrphansAreLeft DEF ProcessesInv
<1>4. fresh.list = targets /\ fresh.served \in BOOLEAN /\ (fresh.served => L!Served)
  OBVIOUS
<1>5. (IF targets = {} THEN MaxRounds + 1 ELSE reap[me].round + 1) \in 0..MaxRounds + 1
  BY <1>1
<1>6. fresh \in [round : 0..MaxRounds + 1, list : SUBSET L!Procs, served : BOOLEAN]
  BY <1>3, <1>5
<1> HIDE DEF fresh
<1>7. QED
  BY <1>1, <1>2, <1>3, <1>4, <1>6 DEF ReapType, Listed

\* A list that a tool makes is of those left behind too.
LEMMA ToolListsTells ==
  ASSUME ProcessesInv, NEW me \in Reapers, L!ToolLists(me)
  PROVE  /\ reap' \in ReapType /\ \A r \in (L!Procs \cup Reapers) \ {me} : reap'[r] = reap[r]
         /\ Listed(me)
<1> DEFINE targets == L!Orphans(me)
           serves == targets # {} /\ L!Served
           fresh == [reap[me] EXCEPT !.list = targets, !.served = serves]
<1>1. reap \in ReapType
  BY DEF ProcessesInv, L!TypeOK, ReapType
<1>2. reap' = [reap EXCEPT ![me] = fresh]
  BY <1>1 DEF L!ToolLists, ReapType
<1>3. /\ targets \subseteq up /\ targets \subseteq L!Procs /\ \A e \in targets : parent[e] = "nobody"
      /\ targets \cap Daemons # {} => ~L!Served
  BY OrphansAreLeft DEF ProcessesInv
<1>4. serves \in BOOLEAN /\ (serves => L!Served)
  OBVIOUS
<1> HIDE DEF serves
<1>a. reap[me] \in [round : 0..MaxRounds + 1, list : SUBSET L!Procs, served : BOOLEAN]
  BY <1>1 DEF ReapType
<1>b. fresh \in [round : 0..MaxRounds + 1, list : SUBSET L!Procs, served : BOOLEAN]
  BY <1>a, <1>3, <1>4
<1>5. fresh.list = targets /\ (fresh.served => L!Served)
  BY <1>a, <1>4
<1> HIDE DEF fresh
<1>6. QED
  BY <1>1, <1>2, <1>3, <1>b, <1>5 DEF ReapType, Listed

\* The processes keep their invariant.
LEMMA ProcessesStep ==
  ASSUME ProcessesInv, L!Next \/ UNCHANGED processes
  PROVE  ProcessesInv'
<1>a. L!TypeOK /\ ~wronged /\ reap \in ReapType
  BY DEF ProcessesInv, L!TypeOK, ReapType
<1>b. \A p \in L!Procs : p \notin up => reap[p] = L!NoReap
  BY <1>a DEF L!TypeOK
<1>c. ASSUME L!TypeOK', LeftStayLeft, \A r \in L!Procs \cup Reapers : Listed(r), ~wronged'
      PROVE  ProcessesInv'
  BY <1>c, ListedStayLeft DEF ProcessesInv
<1>d. ASSUME UNCHANGED <<up, gone, parent>> PROVE LeftStayLeft
  BY <1>d DEF LeftStayLeft
<1>e. ASSUME NEW r \in L!Procs \cup Reapers, reap'[r] = reap[r] PROVE Listed(r)
  BY <1>e DEF Listed
<1>f. ASSUME NEW r \in L!Procs \cup Reapers, reap'[r] = L!NoReap PROVE Listed(r)
  BY <1>f DEF Listed, L!NoReap
<1>1. ASSUME NEW p \in L!Procs, L!Start(p) PROVE ProcessesInv'
  <2>1. L!TypeOK' /\ LeftStayLeft
    BY <1>1, <1>a DEF L!Start, L!TypeOK, LeftStayLeft
  <2>2. QED
    BY <1>1, <1>a, <1>c, <1>e, <2>1 DEF L!Start
<1>2. ASSUME NEW p \in L!Procs, L!Ends(p) PROVE ProcessesInv'
  <2>1. /\ up' \subseteq L!Procs /\ gone' \subseteq L!Procs /\ up' \cap gone' = {}
        /\ parent' \in [L!Procs -> L!Procs \cup {"client", "nobody"}] /\ LeftStayLeft
        /\ up' = up \ {p} /\ pids' \subseteq pids
    BY <1>2, <1>a, LeavesTells DEF L!Ends, LeftStayLeft, L!Leaves, L!TypeOK
  <2>2. reap' \in ReapType /\ reap'[p] = L!NoReap
        /\ \A r \in (L!Procs \cup Reapers) \ {p} : reap'[r] = reap[r]
    BY <1>2, <1>a, NoReapType DEF L!Ends, ReapType
  <2>3. L!TypeOK'
    BY <1>2, <1>a, <1>b, <2>1, <2>2 DEF L!Ends, L!TypeOK, ReapType,
       LeftStayLeft
  <2>4. QED
    BY <1>2, <1>a, <1>c, <1>e, <1>f, <2>1, <2>2, <2>3 DEF L!Ends
<1>3. ASSUME NEW p \in L!Procs, L!Register(p) PROVE ProcessesInv'
  <2>1. /\ reap' \in ReapType
        /\ reap'[p].list = reap[p].list /\ reap'[p].served = reap[p].served
        /\ \A r \in (L!Procs \cup Reapers) \ {p} : reap'[r] = reap[r]
    BY <1>3, <1>a, Bounds DEF L!Register, ReapType
  <2>2. L!TypeOK'
    BY <1>3, <1>a, <1>b, <2>1 DEF L!Register, L!TypeOK, ReapType, L!Live
  <2>3. \A r \in L!Procs \cup Reapers : Listed(r)
    BY <1>e, <2>1 DEF Listed
  <2>4. QED
    BY <1>3, <1>a, <1>c, <1>d, <2>2, <2>3 DEF L!Register
<1>4. ASSUME NEW g \in Gateways, L!ClientGone(g) PROVE ProcessesInv'
  <2>1. L!TypeOK' /\ LeftStayLeft
    BY <1>4, <1>a DEF L!ClientGone, L!TypeOK, LeftStayLeft, L!Procs
  <2>2. QED
    BY <1>4, <1>a, <1>c, <1>e, <2>1 DEF L!ClientGone
<1>5. ASSUME NEW p \in L!Procs, L!StartupReap(p) PROVE ProcessesInv'
  <2>1. /\ reap' \in ReapType /\ \A r \in (L!Procs \cup Reapers) \ {p} : reap'[r] = reap[r]
        /\ Listed(p)
    BY <1>5, ListsTells DEF L!StartupReap
  <2>2. L!TypeOK'
    BY <1>5, <1>a, <1>b, <2>1 DEF L!StartupReap, L!TypeOK, ReapType, L!Live
  <2>3. QED
    BY <1>5, <1>a, <1>c, <1>d, <1>e, <2>1, <2>2 DEF L!StartupReap
<1>6. ASSUME NEW p \in L!Procs, L!StartupKill(p) PROVE ProcessesInv'
  <2>1. PICK e \in reap[p].list :
          IF ~windows THEN reap' = L!Crossed(p, e) /\ UNCHANGED <<up, gone, parent, pids, wronged>>
          ELSE /\ pids' = pids \ {e} /\ L!Leaves({e} \cap up) /\ L!Wronged(p, {e} \cap up)
               /\ reap' = [L!Crossed(p, e) EXCEPT ![e] = L!NoReap]
    BY <1>6 DEF L!StartupKill
  <2>2. e \in L!Procs /\ p \in up
    BY <1>6, <1>a DEF ReapType, L!StartupKill
  <2>3. /\ L!Crossed(p, e) \in ReapType
        /\ \A r \in L!Procs \cup Reapers :
             /\ L!Crossed(p, e)[r].list \subseteq reap[r].list
             /\ L!Crossed(p, e)[r].served => reap[r].served
             /\ r # p => L!Crossed(p, e)[r] = reap[r]
    BY <1>a, CrossedTells
  <2>4. CASE ~windows
    <3>1. L!TypeOK'
      BY <1>6, <1>a, <1>b, <2>1, <2>2, <2>3, <2>4 DEF L!StartupKill, L!TypeOK,
         ReapType
    <3>2. QED
      BY <1>a, <1>c, <1>d, <2>1, <2>3, <2>4, <3>1 DEF Listed
  <2>5. CASE windows
    <3>1. /\ up' \subseteq L!Procs /\ gone' \subseteq L!Procs /\ up' \cap gone' = {}
          /\ parent' \in [L!Procs -> L!Procs \cup {"client", "nobody"}] /\ LeftStayLeft
          /\ up' = up \ {e}
      BY <1>a, <2>1, <2>5, LeavesTells DEF LeftStayLeft, L!Leaves, L!TypeOK
    <3>2. /\ reap' \in ReapType /\ reap'[e] = L!NoReap
          /\ \A r \in (L!Procs \cup Reapers) \ {e} : reap'[r] = L!Crossed(p, e)[r]
      BY <2>1, <2>2, <2>3, <2>5, NoReapType DEF ReapType
    <3>3. wronged' \in BOOLEAN /\ ~wronged'
      BY <2>1, <2>5, ListedMayBeKilled
    <3>4. L!TypeOK'
      BY <1>6, <1>a, <1>b, <2>1, <2>2, <2>3, <2>5, <3>1, <3>2, <3>3
         DEF L!StartupKill, L!TypeOK, ReapType, LeftStayLeft
    <3>5. \A r \in L!Procs \cup Reapers : Listed(r)
      BY <1>f, <2>3, <3>2 DEF Listed
    <3>6. QED
      BY <1>c, <3>1, <3>3, <3>4, <3>5
  <2>6. QED
    BY <2>4, <2>5
<1>7. ASSUME NEW r \in Reapers, L!ToolLists(r) PROVE ProcessesInv'
  <2>1. /\ reap' \in ReapType /\ \A q \in (L!Procs \cup Reapers) \ {r} : reap'[q] = reap[q]
        /\ Listed(r)
    BY <1>7, ToolListsTells
  <2>a. UNCHANGED <<windows, up, gone, parent, struck, wronged>> /\ pids' \subseteq up
    BY <1>7 DEF L!ToolLists, L!Live
  <2>b. \A p \in L!Procs : reap'[p] = reap[p]
    BY <2>1, ReapersAreApart DEF L!Procs
  <2>2. L!TypeOK'
    BY <1>a, <1>b, <2>1, <2>a, <2>b DEF L!TypeOK, ReapType
  <2>3. QED
    BY <1>7, <1>a, <1>c, <1>d, <1>e, <2>1, <2>2 DEF L!ToolLists
<1>8. ASSUME NEW r \in Reapers, L!CliKill(r) PROVE ProcessesInv'
  <2>1. PICK e \in reap[r].list :
          /\ pids' = pids \ {e}
          /\ IF windows
             THEN /\ L!Leaves(L!Tree(e) \cap up)
                  /\ L!Wronged(r, {e} \cap up)
                  /\ reap' = [q \in L!Procs \cup Reapers |->
                                IF q \in L!Tree(e) \cap up
                                THEN L!NoReap ELSE L!Crossed(r, e)[q]]
             ELSE /\ L!Wronged(r, {e} \cap up) /\ reap' = L!Crossed(r, e)
                  /\ UNCHANGED <<up, gone, parent>>
    BY <1>8 DEF L!CliKill
  <2> DEFINE killed == L!Tree(e) \cap up
  <2>2. e \in L!Procs /\ r \notin L!Procs /\ UNCHANGED <<windows, struck>>
    BY <1>8, <1>a, ReapersAreApart DEF ReapType, L!CliKill, L!Procs
  <2>3. /\ L!Crossed(r, e) \in ReapType
        /\ \A q \in L!Procs \cup Reapers :
             /\ L!Crossed(r, e)[q].list \subseteq reap[q].list
             /\ L!Crossed(r, e)[q].served => reap[q].served
             /\ q # r => L!Crossed(r, e)[q] = reap[q]
    BY <1>a, CrossedTells
  <2>4. wronged' \in BOOLEAN /\ ~wronged'
    BY <2>1, ListedMayBeKilled
  <2>5. CASE ~windows
    <3>1. L!TypeOK'
      BY <1>a, <1>b, <2>1, <2>2, <2>3, <2>4, <2>5 DEF L!TypeOK, ReapType
    <3>2. QED
      BY <1>c, <1>d, <2>1, <2>3, <2>4, <2>5, <3>1 DEF Listed
  <2>6. CASE windows
    <3>0. killed \in SUBSET up
      OBVIOUS
    <3>1. L!Leaves(killed) /\ reap' = [q \in L!Procs \cup Reapers |->
             IF q \in killed THEN L!NoReap ELSE L!Crossed(r, e)[q]]
      BY <2>1, <2>6
    <3> HIDE DEF killed
    <3>2. /\ up' \subseteq L!Procs /\ gone' \subseteq L!Procs /\ up' \cap gone' = {}
          /\ parent' \in [L!Procs -> L!Procs \cup {"client", "nobody"}] /\ LeftStayLeft
          /\ up' = up \ killed
      BY <1>a, <3>0, <3>1, LeavesTells DEF LeftStayLeft, L!Leaves, L!TypeOK
    <3>3. /\ reap' \in ReapType
          /\ \A q \in L!Procs \cup Reapers :
               reap'[q] = IF q \in killed THEN L!NoReap ELSE L!Crossed(r, e)[q]
      BY <2>3, <3>1, NoReapType DEF ReapType
    <3>4. L!TypeOK'
      BY <1>a, <1>b, <2>1, <2>2, <2>3, <2>4, <3>2, <3>3 DEF L!TypeOK,
         ReapType, LeftStayLeft
    <3>5. \A q \in L!Procs \cup Reapers : Listed(q)
      BY <1>f, <2>3, <3>3 DEF Listed
    <3>6. QED
      BY <1>c, <2>4, <3>2, <3>4, <3>5
  <2>7. QED
    BY <2>5, <2>6
<1>9. ASSUME NEW r \in Reapers, L!InstallReap(r) PROVE ProcessesInv'
  <2> DEFINE killed == reap[r].list \cap up
  <2>1. killed \in SUBSET up /\ killed \in SUBSET reap[r].list /\ r \notin L!Procs
    BY ReapersAreApart DEF L!Procs
  <2>2. /\ L!Wronged(r, killed) /\ pids' = {} /\ struck' = struck \cup (pids \ killed)
        /\ IF windows
           THEN /\ L!Leaves(killed)
                /\ reap' = [q \in L!Procs \cup Reapers |->
                              IF q \in killed \cup {r} THEN L!NoReap ELSE reap[q]]
           ELSE reap' = [reap EXCEPT ![r] = L!NoReap] /\ UNCHANGED <<up, gone, parent>>
        /\ UNCHANGED windows
    BY <1>9 DEF L!InstallReap
  <2> HIDE DEF killed
  <2>3. wronged' \in BOOLEAN /\ ~wronged'
    BY <2>1, <2>2, ListedMayBeKilled
  <2>4. /\ reap' \in ReapType
        /\ \A q \in L!Procs \cup Reapers : reap'[q] = L!NoReap \/ reap'[q] = reap[q]
        /\ windows => \A q \in killed : reap'[q] = L!NoReap
    BY <1>a, <2>1, <2>2, NoReapType DEF ReapType, L!TypeOK
  <2>5. /\ up' \subseteq L!Procs /\ gone' \subseteq L!Procs /\ up' \cap gone' = {}
        /\ parent' \in [L!Procs -> L!Procs \cup {"client", "nobody"}] /\ LeftStayLeft
        /\ up' = IF windows THEN up \ killed ELSE up
    BY <1>a, <1>d, <2>1, <2>2, LeavesTells DEF LeftStayLeft, L!Leaves, L!TypeOK
  <2>6. L!TypeOK'
    BY <1>a, <1>b, <2>2, <2>3, <2>4, <2>5 DEF L!TypeOK, ReapType, LeftStayLeft
  <2>7. \A q \in L!Procs \cup Reapers : Listed(q)
    BY <1>e, <1>f, <2>4
  <2>8. QED
    BY <1>c, <2>3, <2>5, <2>6, <2>7
<1>10. CASE UNCHANGED processes
  BY <1>10 DEF processes, ProcessesInv, L!TypeOK, ListedAreLeft
<1>11. QED
  BY <1>1, <1>2, <1>3, <1>4, <1>5, <1>6, <1>7, <1>8, <1>9, <1>10 DEF L!Next,
     L!Procs

-----------------------------------------------------------------------------
(* Blackboard.                                                             *)
-----------------------------------------------------------------------------

RowType == [version : 0..MaxVersion, value : 0..MaxVersion, expired : BOOLEAN]
SetType == [key : SUBSET Keys, version : 0..MaxVersion, beside : BOOLEAN]

\* The newest version of a table is one of its versions, and the greatest.
LEMMA NewestOf ==
  ASSUME NEW st \in [Keys -> RowType]
  PROVE  LET newest == B!Max({st[j].version : j \in Keys})
         IN  /\ newest \in 0..MaxVersion /\ \E k \in Keys : newest = st[k].version
             /\ \A k \in Keys : st[k].version <= newest
<1> DEFINE T == {st[j].version : j \in Keys}
<1>1. T \in SUBSET (0..MaxVersion) /\ T # {}
  BY NamedThings DEF RowType
<1>2. MaxVersion \in Nat
  BY Bounds
<1>3. B!Max(T) \in T /\ \A y \in T : B!Max(T) >= y
  BY <1>1, <1>2, MaxIsGreatest
<1>4. \A y \in T : y <= B!Max(T)
  BY <1>1, <1>3
<1>5. QED
  BY <1>1, <1>3, <1>4

\* The sets in progress can be counted.
LEMMA PendingIsFinite ==
  ASSUME NEW T \in SUBSET Setters
  PROVE  /\ IsFiniteSet(T) /\ Cardinality(T) \in Nat
         /\ \A p \in Setters \ T : Cardinality(T \cup {p}) = Cardinality(T) + 1
         /\ \A p \in T : Cardinality(T \ {p}) = Cardinality(T) - 1
<1>1. IsFiniteSet(T)
  BY FiniteThings, FS_Subset
<1>2. QED
  BY <1>1, FS_CardinalityType, FS_AddElement, FS_RemoveElement

\* An empty blackboard, followed from its beginning.
LEMMA BlackboardStart == B!Init => BlackboardInv
<1>1. SUFFICES ASSUME B!Init PROVE BlackboardInv
  OBVIOUS
<1>2. MaxVersion \in Nat
  BY Bounds
<1>3. {p \in Setters : B!Setting(p)} = {}
  BY <1>1 DEF B!Init, B!Setting
<1>4. B!TypeOK
  <2>1. B!NoRow \in RowType /\ B!NoSet \in SetType
    BY <1>2 DEF B!NoRow, B!NoSet, RowType, SetType
  <2>2. B!Rows = {}
    BY <1>1 DEF B!Init, B!Rows
  <2>3. QED
    BY <1>1, <1>2, <2>1, <2>2 DEF B!Init, B!TypeOK, RowType, SetType
<1>5. VersionsAreCounted
  BY <1>1, <1>2, <1>3, FS_EmptySet DEF B!Init, VersionsAreCounted, B!NoRow
<1>6. RacesAreNoticed
  <2>1. B!Newest \in Nat
    BY <1>4, <1>2, NewestOf DEF B!TypeOK, B!Newest, RowType
  <2>2. QED
    BY <1>1, <1>3, <2>1 DEF B!Init, RacesAreNoticed
<1>7. B!DeltaMissesNothing
  BY <1>1 DEF B!Init, B!DeltaMissesNothing, B!Rows
<1>8. QED
  BY <1>4, <1>5, <1>6, <1>7 DEF BlackboardInv

\* Reading a version starts a set; if another is in progress, both know.
LEMMA ReadVersionStep ==
  ASSUME BlackboardInv, NEW p \in Setters, B!ReadVersion(p)
  PROVE  BlackboardInv'
<1>a. /\ B!TypeOK /\ VersionsAreCounted /\ RacesAreNoticed /\ B!DeltaMissesNothing
      /\ UNCHANGED <<state, sets, seen, copy, raced>>
  BY DEF BlackboardInv, B!ReadVersion
<1>b. /\ state \in [Keys -> RowType] /\ setting \in [Setters -> SetType] /\ sets \in 0..MaxVersion
      /\ MaxVersion \in Nat
  BY <1>a, Bounds DEF B!TypeOK, RowType, SetType
<1> DEFINE pending == {q \in Setters : B!Setting(q)}
<1>c. /\ p \notin pending /\ Cardinality(pending) \in Nat
      /\ sets + Cardinality(pending) < MaxVersion
      /\ Cardinality(pending \cup {p}) = Cardinality(pending) + 1
  BY CountsAlike, PendingIsFinite DEF B!ReadVersion
<1>d. B!Newest \in 0..MaxVersion /\ B!Newest <= sets /\ (\A k \in Keys : state[k].version <= B!Newest)
  <2>1. /\ B!Newest \in 0..MaxVersion /\ \E k \in Keys : B!Newest = state[k].version
        /\ \A k \in Keys : state[k].version <= B!Newest
    BY <1>b, NewestOf DEF B!Newest
  <2>2. \A k \in Keys : state[k].version <= sets
    <3>1. SUFFICES ASSUME NEW k \in Keys PROVE state[k].version <= sets
      OBVIOUS
    <3>2. state[k].value \in Nat /\ state[k].version \in Nat /\ sets \in Nat
      BY <1>b DEF RowType
    <3>3. state[k].value <= sets /\ (state[k] = B!NoRow \/ state[k].version \in 1..state[k].value)
      BY <1>a DEF VersionsAreCounted
    <3>4. QED
      BY <3>2, <3>3 DEF B!NoRow
  <2>3. QED
    BY <2>1, <2>2
<1>1. PICK k \in Keys :
        setting' = [q \in Setters |->
          IF q = p THEN [key |-> {k}, version |-> B!Newest + 1,
                         beside |-> \E r \in Setters : B!Setting(r)]
          ELSE [setting[q] EXCEPT !.beside = @ \/ B!Setting(q)]]
  BY DEF B!ReadVersion, B!NextVersion
<1> DEFINE raceOn == \E r \in Setters : B!Setting(r)
<1>2. setting'[p] = [key |-> {k}, version |-> B!Newest + 1, beside |-> raceOn]
  BY <1>1
<1>3. /\ setting'[p] \in SetType /\ setting'[p].version = B!Newest + 1 /\ setting'[p].key = {k}
      /\ (setting'[p].beside <=> pending # {}) /\ setting'[p] # B!NoSet
  <2>1. B!Newest + 1 \in 1..sets + 1 /\ B!Newest + 1 \in 0..MaxVersion /\ B!Newest + 1 # 0
    BY <1>b, <1>c, <1>d
  <2>2. raceOn \in BOOLEAN /\ (raceOn <=> pending # {})
    OBVIOUS
  <2> HIDE DEF raceOn, pending
  <2>3. QED
    BY <1>2, <2>1, <2>2 DEF SetType, B!NoSet
<1>4. ASSUME NEW q \in Setters \ {p}
      PROVE  /\ setting'[q] \in SetType /\ setting'[q].version = setting[q].version
             /\ setting'[q].key = setting[q].key
             /\ (q \in pending => setting'[q].beside) /\ (q \notin pending => setting'[q] = B!NoSet)
             /\ (q \in pending => setting'[q] # B!NoSet)
  <2> DEFINE b == setting[q].beside \/ B!Setting(q)
  <2>1. setting'[q] = [setting[q] EXCEPT !.beside = b] /\ setting[q] \in SetType
    BY <1>1, <1>b
  <2>2. b \in BOOLEAN /\ (q \in pending => b)
    OBVIOUS
  <2>3. q \notin pending => setting[q] = B!NoSet /\ ~b
    BY DEF B!Setting, B!NoSet
  <2>4. q \in pending => setting[q].version # 0
    BY <1>a DEF VersionsAreCounted
  <2> HIDE DEF b, pending
  <2>5. /\ setting'[q] \in SetType /\ setting'[q].version = setting[q].version
        /\ setting'[q].key = setting[q].key /\ setting'[q].beside = b
    BY <2>1, <2>2 DEF SetType
  <2>a. [B!NoSet EXCEPT !.beside = B!NoSet.beside] = B!NoSet /\ B!NoSet.beside = FALSE
    BY DEF B!NoSet
  <2>b. q \notin pending => b = FALSE
    BY <2>2, <2>3
  <2>6. q \notin pending => setting'[q] = B!NoSet
    BY <2>1, <2>3, <2>a, <2>b
  <2>7. QED
    BY <2>2, <2>4, <2>5, <2>6 DEF B!NoSet
<1>5. {q \in Setters : B!Setting(q)}' = pending \cup {p}
  BY <1>3, <1>4 DEF B!Setting
<1>6. B!TypeOK'
  BY <1>1, <1>3, <1>4, <1>a DEF B!TypeOK, SetType, B!Rows
<1>7. VersionsAreCounted'
  <2>1. sets + Cardinality(pending \cup {p}) <= MaxVersion
    BY <1>b, <1>c
  <2>2. ASSUME NEW q \in Setters, B!Setting(q)'
        PROVE  setting'[q].version \in 1..sets + 1 /\ \E j \in Keys : setting'[q].key = {j}
    <3>1. CASE q = p
      BY <3>1, <1>3, <1>d, <1>b
    <3>2. CASE q # p
      <4>1. q \in pending
        BY <2>2, <3>2, <1>5
      <4>2. QED
        BY <4>1, <3>2, <1>4, <1>a DEF VersionsAreCounted
    <3>3. QED
      BY <3>1, <3>2
  <2>3. QED
    BY <1>a, <1>5, <2>1, <2>2 DEF VersionsAreCounted, B!NoRow
<1>8. RacesAreNoticed'
  <2>1. B!Newest' = B!Newest
    BY <1>a DEF B!Newest
  <2>2. ASSUME NEW q \in Setters, B!Setting(q)', ~setting'[q].beside
        PROVE  setting'[q].version = B!Newest + 1 /\ \A r \in Setters \ {q} : ~B!Setting(r)'
    BY <2>2, <1>3, <1>4, <1>5
  <2>3. QED
    BY <1>a, <2>1, <2>2 DEF RacesAreNoticed
<1>9. B!DeltaMissesNothing'
  BY <1>a DEF B!DeltaMissesNothing, B!Rows, B!Changed
<1>10. QED
  BY <1>6, <1>7, <1>8, <1>9 DEF BlackboardInv

\* A value is written under the version that was read: it is news to whoever
\* follows, unless there was a race.
LEMMA WriteStep ==
  ASSUME BlackboardInv, NEW p \in Setters, B!Write(p)
  PROVE  BlackboardInv'
<1>a. /\ B!TypeOK /\ VersionsAreCounted /\ RacesAreNoticed /\ B!DeltaMissesNothing
      /\ B!Setting(p) /\ UNCHANGED <<seen, copy>>
  BY DEF BlackboardInv, B!Write
<1>b. /\ state \in [Keys -> RowType] /\ setting \in [Setters -> SetType] /\ sets \in 0..MaxVersion
      /\ MaxVersion \in Nat /\ seen \in Nat
  BY <1>a, Bounds DEF B!TypeOK, RowType, SetType
<1> DEFINE pending == {q \in Setters : B!Setting(q)}
<1>c. /\ p \in pending /\ Cardinality(pending) \in Nat /\ Cardinality(pending) > 0
      /\ sets + Cardinality(pending) <= MaxVersion
      /\ Cardinality(pending \ {p}) = Cardinality(pending) - 1
  <2>1. p \in pending /\ pending \in SUBSET Setters /\ sets + Cardinality(pending) <= MaxVersion
    BY <1>a DEF VersionsAreCounted
  <2> HIDE DEF pending
  <2>2. IsFiniteSet(pending) /\ Cardinality(pending) \in Nat
        /\ Cardinality(pending \ {p}) = Cardinality(pending) - 1
    BY <2>1, PendingIsFinite
  <2>3. Cardinality(pending) # 0
    BY <2>1, <2>2, FS_EmptySet
  <2>4. QED
    BY <2>1, <2>2, <2>3
<1>1. PICK k \in setting[p].key :
        state' = [state EXCEPT ![k] = [version |-> setting[p].version, value |-> sets + 1,
                                       expired |-> FALSE]]
  BY DEF B!Write
<1>2. /\ sets' = sets + 1 /\ sets' \in 1..MaxVersion /\ setting' = [setting EXCEPT ![p] = B!NoSet]
      /\ k \in Keys /\ setting[p].version \in 1..sets + 1
      /\ setting[p].version \in Nat /\ raced \subseteq raced' /\ raced' \subseteq raced \cup {sets'}
      /\ setting[p].beside => sets' \in raced'
      /\ raced # {} /\ B!Newest < seen => sets' \in raced'
  BY <1>1, <1>a, <1>b, <1>c DEF B!Write, VersionsAreCounted, B!Setting
<1>3. /\ state' \in [Keys -> RowType] /\ state'[k].version = setting[p].version
      /\ state'[k].value = sets + 1 /\ \A j \in Keys \ {k} : state'[j] = state[j]
  BY <1>1, <1>2, <1>b DEF RowType
<1>4. {q \in Setters : B!Setting(q)}' = pending \ {p}
  BY <1>2, <1>b DEF B!Setting
<1>5. setting' \in [Setters -> SetType]
  BY <1>2, <1>b, Bounds DEF SetType, B!NoSet
<1>6. B!TypeOK'
  <2>1. \A j \in B!Rows' : state'[j].version \in 1..state'[j].value
    BY <1>a, <1>2, <1>3 DEF B!TypeOK, B!Rows
  <2>2. raced' \subseteq 1..MaxVersion /\ copy' \in [Keys -> 0..MaxVersion] /\ seen' \in 0..MaxVersion
        /\ sets' \in 0..MaxVersion
    BY <1>a, <1>2, <1>b DEF B!TypeOK
  <2>3. QED
    BY <1>3, <1>5, <2>1, <2>2 DEF B!TypeOK, RowType, SetType
<1>7. VersionsAreCounted'
  <2>1. sets + 1 + Cardinality(pending \ {p}) <= MaxVersion
    BY <1>b, <1>c
  <2>2. ASSUME NEW j \in Keys
        PROVE  state'[j].value <= sets + 1 /\ (state'[j] = B!NoRow \/ state'[j].version \in 1..state'[j].value)
    <3>1. state[j].value \in Nat /\ state[j].value <= sets
          /\ (state[j] = B!NoRow \/ state[j].version \in 1..state[j].value)
      BY <1>a, <1>b DEF VersionsAreCounted, RowType
    <3>2. QED
      BY <3>1, <1>2, <1>3, <1>b
  <2>3. ASSUME NEW q \in Setters, B!Setting(q)'
        PROVE  setting'[q].version \in 1..sets + 1 + 1 /\ \E j \in Keys : setting'[q].key = {j}
    <3>1. q \in pending \ {p} /\ setting'[q] = setting[q]
      BY <2>3, <1>4, <1>2, <1>b
    <3>2. setting[q].version \in 1..sets + 1 /\ \E j \in Keys : setting[q].key = {j}
      BY <3>1, <1>a DEF VersionsAreCounted
    <3>3. QED
      BY <3>1, <3>2, <1>b
  <2>4. QED
    BY <1>2, <1>4, <2>1, <2>2, <2>3 DEF VersionsAreCounted, B!NoRow
<1>d. /\ B!Newest \in Nat /\ (\A j \in Keys : state[j].version <= B!Newest)
      /\ B!Newest' \in Nat /\ (\A j \in Keys : state'[j].version <= B!Newest')
      /\ \E j \in Keys : B!Newest = state[j].version
  <2>1. /\ B!Newest \in 0..MaxVersion /\ \E j \in Keys : B!Newest = state[j].version
        /\ \A j \in Keys : state[j].version <= B!Newest
    BY <1>b, NewestOf DEF B!Newest
  <2>2. B!Newest' \in 0..MaxVersion /\ (\A j \in Keys : state'[j].version <= B!Newest')
    BY <1>3, NewestOf DEF B!Newest
  <2>3. QED
    BY <2>1, <2>2, <1>b
<1>8. setting[p].beside \/ (B!Newest < seen /\ sets' \in raced') \/ setting[p].version > seen
  BY <1>a, <1>b, <1>c, <1>2, <1>d DEF RacesAreNoticed
<1>9. RacesAreNoticed'
  <2>1. ASSUME NEW q \in Setters, B!Setting(q)', ~setting'[q].beside PROVE FALSE
    <3>1. q \in pending \ {p} /\ setting'[q] = setting[q]
      BY <2>1, <1>4, <1>2, <1>b
    <3>2. QED
      BY <3>1, <2>1, <1>a DEF RacesAreNoticed
  <2>2. B!Newest' < seen => raced' # {}
    <3>1. CASE setting[p].beside \/ sets' \in raced'
      BY <3>1, <1>2
    <3>2. CASE setting[p].version > seen
      BY <3>2, <1>2, <1>3, <1>d, <1>b
    <3>3. QED
      BY <3>1, <3>2, <1>8
  <2>3. QED
    BY <2>1, <2>2, <1>a DEF RacesAreNoticed
<1>10. B!DeltaMissesNothing'
  <2>1. SUFFICES ASSUME NEW j \in Keys, state'[j] # B!NoRow, ~(state'[j].version > seen)
                 PROVE  state'[j].value \in raced' \cup {copy[j]}
    BY <1>a DEF B!DeltaMissesNothing, B!Rows, B!Changed, B!NoRow
  <2>2. CASE j = k
    BY <2>1, <2>2, <1>2, <1>3, <1>8
  <2>3. CASE j # k
    BY <2>1, <2>3, <1>a, <1>2, <1>3 DEF B!DeltaMissesNothing, B!Rows, B!Changed
  <2>4. QED
    BY <2>2, <2>3
<1>11. QED
  BY <1>6, <1>7, <1>9, <1>10 DEF BlackboardInv

\* The follower takes what changed and notes the newest version it saw.
LEMMA DeltaStep ==
  ASSUME BlackboardInv, B!Delta
  PROVE  BlackboardInv'
<1>a. /\ B!TypeOK /\ VersionsAreCounted /\ RacesAreNoticed /\ B!DeltaMissesNothing
      /\ UNCHANGED <<state, setting, sets, raced>>
  BY DEF BlackboardInv, B!Delta
<1>b. /\ state \in [Keys -> RowType] /\ MaxVersion \in Nat /\ seen \in 0..MaxVersion
      /\ copy \in [Keys -> 0..MaxVersion]
  BY <1>a, Bounds DEF B!TypeOK, RowType
<1> DEFINE T == {seen} \cup {state[k].version : k \in B!Changed}
<1>1. T \in SUBSET (0..MaxVersion) /\ T # {} /\ seen \in T
  BY <1>b DEF RowType, B!Changed, B!Rows
<1>2. seen' = B!Max(T) /\ seen' \in T /\ seen' \in 0..MaxVersion /\ seen' >= seen
  BY <1>1, <1>b, MaxIsGreatest DEF B!Delta
<1>3. copy' = [k \in Keys |-> IF k \in B!Changed THEN state[k].value ELSE copy[k]]
  BY DEF B!Delta
<1>4. B!TypeOK'
  BY <1>a, <1>b, <1>2, <1>3 DEF B!TypeOK, B!Rows, RowType
<1>5. VersionsAreCounted'
  BY <1>a DEF VersionsAreCounted, B!Setting, B!NoRow
<1>6. RacesAreNoticed'
  <2>1. B!Newest \in Nat /\ \A k \in Keys : state[k].version <= B!Newest
    BY <1>b, NewestOf DEF B!Newest
  <2>2. B!Newest' = B!Newest
    BY <1>a DEF B!Newest
  <2>3. B!Newest < seen' => seen' = seen
    BY <1>2, <2>1, <1>b DEF B!Changed, B!Rows, RowType
  <2>4. QED
    BY <1>a, <2>2, <2>3 DEF RacesAreNoticed, B!Setting
<1>7. B!DeltaMissesNothing'
  BY <1>a, <1>b, <1>3 DEF B!DeltaMissesNothing, B!Rows, B!Changed
<1>8. QED
  BY <1>4, <1>5, <1>6, <1>7 DEF BlackboardInv

\* The blackboard keeps its invariant.
LEMMA BlackboardStep ==
  ASSUME BlackboardInv, B!Next \/ UNCHANGED blackboard
  PROVE  BlackboardInv'
<1>a. B!TypeOK /\ VersionsAreCounted /\ RacesAreNoticed /\ B!DeltaMissesNothing
  BY DEF BlackboardInv
<1>1. ASSUME NEW p \in Setters, B!Dies(p) PROVE BlackboardInv'
  <2>a. /\ setting' = [setting EXCEPT ![p] = B!NoSet]
        /\ UNCHANGED <<state, sets, seen, copy, raced>>
    BY <1>1 DEF B!Dies
  <2>b. /\ setting \in [Setters -> SetType] /\ B!NoSet \in SetType
        /\ sets \in Nat /\ MaxVersion \in Nat
    BY <1>a, Bounds DEF B!TypeOK, SetType, B!NoSet
  <2> DEFINE pending == {q \in Setters : B!Setting(q)}
  <2>1. {q \in Setters : B!Setting(q)}' = pending \ {p} /\ p \in pending
    BY <1>1, <2>a, <2>b DEF B!Setting, B!Dies
  <2>2. Cardinality(pending) \in Nat /\ Cardinality(pending \ {p}) = Cardinality(pending) - 1
    <3>1. pending \in SUBSET Setters
      OBVIOUS
    <3> HIDE DEF pending
    <3>2. QED
      BY <3>1, <2>1, PendingIsFinite
  <2>3. B!TypeOK'
    BY <1>a, <2>a, <2>b DEF B!TypeOK, B!Rows, SetType
  <2>4. sets + Cardinality(pending \ {p}) <= MaxVersion
    BY <1>a, <2>2, <2>b DEF VersionsAreCounted
  <2>5. \A q \in Setters : B!Setting(q)' => B!Setting(q) /\ setting'[q] = setting[q]
    BY <2>a, <2>b DEF B!Setting
  <2>6. VersionsAreCounted'
    BY <1>a, <2>a, <2>1, <2>4, <2>5 DEF VersionsAreCounted, B!NoRow
  <2>7. RacesAreNoticed'
    <3>1. B!Newest' = B!Newest
      BY <2>a DEF B!Newest
    <3>2. QED
      BY <1>a, <2>a, <2>5, <3>1 DEF RacesAreNoticed
  <2>8. B!DeltaMissesNothing'
    BY <1>a, <2>a DEF B!DeltaMissesNothing, B!Rows, B!Changed
  <2>9. QED
    BY <2>3, <2>6, <2>7, <2>8 DEF BlackboardInv
<1>2. CASE B!Expires
  <2>1. PICK k \in Keys : state[k] # B!NoRow /\ state' = [state EXCEPT ![k].expired = TRUE]
    BY <1>2 DEF B!Expires, B!Rows
  <2>2. UNCHANGED <<setting, sets, seen, copy, raced>>
    BY <1>2 DEF B!Expires
  <2>3. state \in [Keys -> RowType]
    BY <1>a DEF B!TypeOK, RowType
  <2>a. state[k].version \in Nat /\ state[k].version # 0
    BY <1>a, <2>1, <2>3 DEF VersionsAreCounted, RowType
  <2>4. /\ state' \in [Keys -> RowType]
        /\ \A j \in Keys : state'[j].version = state[j].version /\ state'[j].value = state[j].value
        /\ \A j \in Keys : j # k => state'[j] = state[j]
    BY <2>1, <2>3 DEF RowType
  <2>5. \A j \in Keys : state'[j] = B!NoRow <=> state[j] = B!NoRow
    BY <2>1, <2>a, <2>4 DEF B!NoRow
  <2>6. B!TypeOK'
    BY <1>a, <2>2, <2>4, <2>5 DEF B!TypeOK, B!Rows, RowType
  <2>7. VersionsAreCounted'
    BY <1>a, <2>2, <2>4, <2>5 DEF VersionsAreCounted, B!Setting
  <2>8. RacesAreNoticed'
    <3>1. {state'[j].version : j \in Keys} = {state[j].version : j \in Keys}
      BY <2>4
    <3>2. B!Newest' = B!Newest
      BY <3>1 DEF B!Newest
    <3>3. QED
      BY <1>a, <2>2, <3>2 DEF RacesAreNoticed, B!Setting
  <2>9. B!DeltaMissesNothing'
    BY <1>a, <2>2, <2>4, <2>5 DEF B!DeltaMissesNothing, B!Rows, B!Changed
  <2>10. QED
    BY <2>6, <2>7, <2>8, <2>9 DEF BlackboardInv
<1>3. CASE UNCHANGED blackboard
  BY <1>3, <1>a DEF blackboard, BlackboardInv, B!TypeOK, B!Rows,
     VersionsAreCounted, B!Setting,
     B!NoRow, RacesAreNoticed, B!Newest, B!DeltaMissesNothing, B!Changed
<1>4. QED
  BY <1>1, <1>2, <1>3, ReadVersionStep, WriteStep, DeltaStep DEF B!Next

-----------------------------------------------------------------------------
(* Promotion.                                                              *)
-----------------------------------------------------------------------------

OpType == [step : {"idle", "parent", "node", "chunks", "done"},
           at : SUBSET Concepts, todo : SUBSET Concepts,
           facts : [Concepts -> SUBSET Facts],
           report : [Concepts -> SUBSET {"written", "already", "skipped"}]]

\* A promotion is at one concept while it adds chunks, and what it is at or has
\* reported on is not to be done any more.
Tidy(r) ==
  /\ r \in OpType
  /\ IF r.step = "chunks" THEN \E k \in Concepts : r.at = {k} ELSE r.at = {}
  /\ r.at \cap r.todo = {} /\ (\A k \in r.todo : r.report[k] = {})
  /\ r.step = "done" => r.todo = {}

\* That every promotion is tidy says what P!TypeOK and AtOne say of it.
LEMMA TidyIsTyped ==
  /\ P!TypeOK /\ AtOne => \A o \in Ops : Tidy(op[o])
  /\ (\A o \in Ops : Tidy(op[o])) => AtOne
  /\ (\A o \in Ops : Tidy(op[o])) => \A o \in Ops :
       /\ P!Cardinality(op[o].at) = IF op[o].step = "chunks" THEN 1 ELSE 0
       /\ op[o].at \cap op[o].todo = {} /\ (\A k \in op[o].todo : op[o].report[k] = {})
       /\ op[o].step = "done" => op[o].todo = {}
<1>1. P!TypeOK /\ AtOne => \A o \in Ops : Tidy(op[o])
  BY DEF P!TypeOK, AtOne, Tidy, OpType
<1>2. (\A o \in Ops : Tidy(op[o])) => AtOne
  BY DEF Tidy, AtOne
<1>3. ASSUME \A o \in Ops : Tidy(op[o]), NEW o \in Ops
      PROVE  P!Cardinality(op[o].at) = IF op[o].step = "chunks" THEN 1 ELSE 0
  <2>1. IF op[o].step = "chunks" THEN \E k \in Concepts : op[o].at = {k} ELSE op[o].at = {}
    BY <1>3 DEF Tidy
  <2>2. Cardinality({}) = 0 /\ \A k \in Concepts : Cardinality({k}) = 1
    BY FS_EmptySet, FS_Singleton
  <2>3. QED
    BY <2>1, <2>2, CountsAlike
<1>4. QED
  BY <1>1, <1>2, <1>3 DEF Tidy

\* Leaving a candidate keeps a promotion tidy.
LEMMA PastTells ==
  ASSUME NEW r, Tidy(r), NEW k \in r.todo \cup r.at, r.at \subseteq {k},
         NEW words \in SUBSET {"written", "already", "skipped"}, NEW chunked \in BOOLEAN
  PROVE  /\ Tidy(P!Past(r, k, words, chunked))
         /\ P!Past(r, k, words, chunked).at = IF chunked THEN {k} ELSE {}
         /\ P!Past(r, k, words, chunked).facts = r.facts
<1> DEFINE rest == r.todo \ {k}
           next == CASE chunked -> "chunks" [] ~chunked /\ rest = {} -> "done" [] OTHER -> "node"
           told_ == [r.report EXCEPT ![k] = @ \cup words]
           new_ == [r EXCEPT !.todo = rest, !.report[k] = @ \cup words,
                             !.at = IF chunked THEN {k} ELSE {}, !.step = next]
<1>1. r \in OpType /\ k \in Concepts
  BY DEF Tidy, OpType
<1>2. P!Past(r, k, words, chunked) = new_
  BY DEF P!Past
<1>3. next = IF chunked THEN "chunks" ELSE IF rest = {} THEN "done" ELSE "node"
  OBVIOUS
<1>4. next \in {"chunks", "done", "node"} /\ (next = "chunks" <=> chunked)
      /\ (next = "done" => rest = {})
  BY <1>3
<1> HIDE DEF next
<1>5. /\ new_.todo = rest /\ new_.report = told_ /\ new_.at = IF chunked THEN {k} ELSE {}
      /\ new_.step = next /\ new_.facts = r.facts
  BY <1>1 DEF OpType
<1>6. told_ \in [Concepts -> SUBSET {"written", "already", "skipped"}]
      /\ \A j \in Concepts \ {k} : told_[j] = r.report[j]
  BY <1>1 DEF OpType
<1>7. new_ \in OpType
  BY <1>1, <1>4, <1>6 DEF OpType
<1> HIDE DEF new_, told_
<1>8. Tidy(new_)
  BY <1>1, <1>4, <1>5, <1>6, <1>7 DEF Tidy, OpType
<1>9. QED
  BY <1>2, <1>5, <1>8

\* After a node: chunks are added to one that is new, or that failed.
LEMMA AfterNodeTells ==
  ASSUME NEW r, Tidy(r), r.step = "node", NEW k \in r.todo, NEW fate \in P!Fates
  PROVE  LET now == P!AfterNode(r, k, P!Said(k, fate))
         IN  /\ Tidy(now) /\ now.facts = r.facts /\ now.at \in {{}, {k}}
             /\ now.at = {k} => fate # "answered" \/ (godnode /\ k \notin nodes)
             /\ fate = "answered" /\ godnode /\ k \notin nodes /\ now.at = {} => r.facts[k] = {}
<1>1. r.at = {} /\ k \in r.todo \cup r.at /\ r.at \subseteq {k}
  BY DEF Tidy
<1> DEFINE more == r.facts[k] # {}
<1>2. more \in BOOLEAN
  OBVIOUS
<1>3. P!Said(k, fate) =
        IF fate = "raised" THEN "raised" ELSE IF fate # "answered" THEN "error"
        ELSE IF ~godnode THEN "not found" ELSE IF k \in nodes THEN "already exists" ELSE "created"
  BY DEF P!Said, P!Fates
<1>4. P!AfterNode(r, k, P!Said(k, fate)) =
        IF fate = "answered" /\ godnode /\ k \in nodes THEN P!Past(r, k, {"already"}, FALSE)
        ELSE IF fate = "raised" \/ (fate = "answered" /\ ~godnode)
             THEN P!Past(r, k, {"skipped"}, FALSE)
             ELSE P!Past(r, k, {"written"}, more)
  BY <1>3 DEF P!AfterNode, P!Fates
<1> HIDE DEF more
<1>5. /\ Tidy(P!Past(r, k, {"already"}, FALSE)) /\ P!Past(r, k, {"already"}, FALSE).at = {}
      /\ P!Past(r, k, {"already"}, FALSE).facts = r.facts
  BY <1>1, PastTells
<1>6. /\ Tidy(P!Past(r, k, {"skipped"}, FALSE)) /\ P!Past(r, k, {"skipped"}, FALSE).at = {}
      /\ P!Past(r, k, {"skipped"}, FALSE).facts = r.facts
  BY <1>1, PastTells
<1>7. /\ Tidy(P!Past(r, k, {"written"}, more))
      /\ P!Past(r, k, {"written"}, more).at = IF more THEN {k} ELSE {}
      /\ P!Past(r, k, {"written"}, more).facts = r.facts
  <2>1. \A b \in BOOLEAN :
          /\ Tidy(P!Past(r, k, {"written"}, b))
          /\ P!Past(r, k, {"written"}, b).at = IF b THEN {k} ELSE {}
          /\ P!Past(r, k, {"written"}, b).facts = r.facts
    BY <1>1, PastTells
  <2>2. QED
    BY <1>2, <2>1
<1>8. QED
  BY <1>4, <1>5, <1>6, <1>7 DEF more

\* Who is on its way from a node to its chunks can be counted.
LEMMA OnIsFinite ==
  ASSUME NEW T \in SUBSET Ops
  PROVE  /\ IsFiniteSet(T) /\ Cardinality(T) \in Nat
         /\ \A o \in Ops : Cardinality(T \cup {o}) <= Cardinality(T) + 1
         /\ \A o \in T : Cardinality(T \ {o}) = Cardinality(T) - 1 /\ Cardinality(T) > 0
<1>1. IsFiniteSet(T)
  BY FiniteThings, FS_Subset
<1>2. Cardinality(T) \in Nat
  BY <1>1, FS_CardinalityType
<1>3. ASSUME NEW o \in Ops PROVE Cardinality(T \cup {o}) <= Cardinality(T) + 1
  <2>1. CASE o \in T
    <3>1. Cardinality(T \cup {o}) = Cardinality(T)
      BY <2>1, <1>1, FS_AddElement
    <3>2. QED
      BY <3>1, <1>2
  <2>2. CASE o \notin T
    <3>1. Cardinality(T \cup {o}) = Cardinality(T) + 1
      BY <2>2, <1>1, FS_AddElement
    <3>2. QED
      BY <3>1, <1>2
  <2>3. QED
    BY <2>1, <2>2
<1>4. ASSUME NEW o \in T PROVE Cardinality(T \ {o}) = Cardinality(T) - 1 /\ Cardinality(T) > 0
  <2>1. Cardinality(T) # 0
    BY <1>1, FS_EmptySet
  <2>2. Cardinality(T \ {o}) = Cardinality(T) - 1
    BY <1>1, FS_RemoveElement
  <2>3. QED
    BY <1>2, <2>1, <2>2
<1>5. QED
  BY <1>1, <1>2, <1>3, <1>4

\* A step of o that leaves concept j alone keeps what holds of it.
ConceptIsLeft(j) ==
  /\ On(j)' = On(j) /\ chunks'[j] = chunks[j] /\ from'[j] = from[j]
  /\ (j \in nodes' <=> j \in nodes) /\ (j \in harmed' <=> j \in harmed)
  /\ \A o \in On(j) : op'[o].facts = op[o].facts

CountedOn(k) == \A f \in Facts :
  chunks[k][f] + Cardinality(On(k)) <= faults + IF k \in nodes THEN 1 ELSE 0
FilledOn(k) ==
  /\ k \notin nodes => \A f \in Facts : chunks[k][f] = 0
  /\ k \notin harmed => \A o \in On(k) :
       /\ k \in nodes /\ op[o].facts[k] = from[k] /\ On(k) = {o}
       /\ \A f \in Facts : chunks[k][f] = 0
ArrivedOn(k) == k \in nodes \ harmed =>
  \/ On(k) # {}
  \/ \A f \in Facts : chunks[k][f] = IF f \in from[k] THEN 1 ELSE 0

PromotionTyped ==
  /\ turn \in 0..MaxTurns /\ links \subseteq P!Link /\ IsFiniteSet(links)
  /\ Cardinality(links) <= MaxLinks
  /\ episodes \in [Concepts -> SUBSET Facts] /\ trusted \subseteq Concepts
  /\ godnode \in BOOLEAN /\ nodes \subseteq Concepts /\ (nodes # {} => godnode)
  /\ chunks \in [Concepts -> [Facts -> Nat]]
  /\ op \in [Ops -> OpType] /\ (\A o \in Ops : Tidy(op[o]))
  /\ faults \in 0..MaxFaults /\ from \in [Concepts -> SUBSET Facts] /\ harmed \subseteq Concepts

ConceptsKept == \A k \in Concepts : CountedOn(k) /\ FilledOn(k) /\ ArrivedOn(k)

\* The invariant, concept by concept.
LEMMA PromotionByConcept ==
  PromotionInv <=>
    PromotionTyped /\ ConceptsKept
<1>a. MaxFaults \in Nat
  BY Bounds
<1>1. ASSUME PromotionInv
      PROVE  PromotionTyped /\ ConceptsKept
  <2>1. PromotionTyped
    <3>1. P!TypeOK /\ IsFiniteSet(links) /\ \A o \in Ops : Tidy(op[o])
      BY <1>1, TidyIsTyped DEF PromotionInv
    <3>2. \A k \in Concepts, f \in Facts : chunks[k][f] \in 0..MaxFaults + 1
      BY <3>1 DEF P!TypeOK
    <3>3. chunks \in [Concepts -> [Facts -> Nat]]
      BY <3>1, <1>a DEF P!TypeOK
    <3>4. QED
      BY <3>1, <3>3, CountsAlike DEF P!TypeOK, PromotionTyped, OpType
  <2>2. \A k \in Concepts : CountedOn(k) /\ FilledOn(k)
    BY <1>1 DEF PromotionInv, FactsAreCounted, NodesAreFilledOnce, CountedOn,
       FilledOn
  <2>3. \A k \in Concepts : ArrivedOn(k)
    BY <1>1 DEF PromotionInv, P!FactsArriveOnce, ArrivedOn, On
  <2>4. QED
    BY <2>1, <2>2, <2>3 DEF ConceptsKept
<1>2. ASSUME PromotionTyped, ConceptsKept
      PROVE  PromotionInv
  <2>1. FactsAreCounted /\ NodesAreFilledOnce
    BY <1>2 DEF FactsAreCounted, NodesAreFilledOnce, CountedOn, FilledOn,
       ConceptsKept
  <2>2. P!FactsArriveOnce
    <3>1. SUFFICES ASSUME NEW k \in nodes \ harmed, On(k) # {} PROVE \E o \in Ops : op[o].at = {k}
      BY <1>2 DEF P!FactsArriveOnce, ArrivedOn, PromotionTyped, ConceptsKept
    <3>2. PICK o \in Ops : k \in op[o].at
      BY <3>1 DEF On
    <3>3. QED
      BY <3>2, <1>2 DEF PromotionTyped, Tidy
  <2>3. chunks \in [Concepts -> [Facts -> 0..MaxFaults + 1]]
    <3>1. ASSUME NEW k \in Concepts, NEW f \in Facts PROVE chunks[k][f] \in 0..MaxFaults + 1
      <4>1. chunks[k][f] \in Nat /\ faults \in 0..MaxFaults
        BY <1>2 DEF PromotionTyped
      <4>2. Cardinality(On(k)) \in Nat
        BY OnIsFinite DEF On
      <4>3. chunks[k][f] + Cardinality(On(k)) <= faults + IF k \in nodes THEN 1 ELSE 0
        BY <1>2 DEF CountedOn, ConceptsKept
      <4>4. QED
        BY <4>1, <4>2, <4>3, <1>a
    <3>2. QED
      BY <3>1, <1>2 DEF PromotionTyped
  <2>4. P!TypeOK /\ AtOne /\ IsFiniteSet(links)
    <3>1. /\ AtOne
          /\ \A o \in Ops :
               /\ P!Cardinality(op[o].at) = IF op[o].step = "chunks" THEN 1 ELSE 0
               /\ op[o].at \cap op[o].todo = {} /\ (\A k \in op[o].todo : op[o].report[k] = {})
               /\ op[o].step = "done" => op[o].todo = {}
      BY <1>2, TidyIsTyped DEF PromotionTyped
    <3>2. QED
      BY <1>2, <2>3, <3>1, CountsAlike DEF PromotionTyped, P!TypeOK, OpType
  <2>5. QED
    BY <2>1, <2>2, <2>4 DEF PromotionInv
<1>3. QED
  BY <1>1, <1>2

\* The same of the state after a step.
LEMMA PromotionByConceptNext == PromotionInv' <=> PromotionTyped' /\ ConceptsKept'
BY PromotionByConcept, PTL

\* With no node there is nothing to fill.
LEMMA PromotionStart == P!Init => PromotionInv
<1>1. SUFFICES ASSUME P!Init
               PROVE  PromotionTyped /\ ConceptsKept
  BY PromotionByConcept
<1>2. P!NoFacts \in [Concepts -> SUBSET Facts] /\ Tidy(P!Idle)
  BY DEF P!NoFacts, P!Idle, Tidy, OpType
<1>3. P!Idle.at = {} /\ P!Idle \in OpType
  BY <1>2 DEF P!Idle, Tidy
<1>4. IsFiniteSet({}) /\ Cardinality({}) = 0
  BY FS_EmptySet
<1>5. PromotionTyped
  <2>1. /\ turn \in 0..MaxTurns /\ faults \in 0..MaxFaults /\ MaxLinks \in Nat
        /\ links \subseteq P!Link /\ IsFiniteSet(links) /\ Cardinality(links) <= MaxLinks
    BY <1>1, <1>4, Bounds DEF P!Init
  <2>2. chunks \in [Concepts -> [Facts -> Nat]] /\ op \in [Ops -> OpType]
        /\ \A o \in Ops : Tidy(op[o])
    BY <1>1, <1>2, <1>3 DEF P!Init
  <2>3. QED
    BY <1>1, <1>2, <2>1, <2>2 DEF P!Init, PromotionTyped
<1>6. ASSUME NEW k \in Concepts PROVE On(k) = {}
  BY <1>1, <1>3 DEF P!Init, On
<1>7. ASSUME NEW k \in Concepts PROVE CountedOn(k) /\ FilledOn(k) /\ ArrivedOn(k)
  BY <1>1, <1>4, <1>6 DEF P!Init, CountedOn, FilledOn, ArrivedOn
<1>8. QED
  BY <1>5, <1>7 DEF ConceptsKept

\* A concept a step leaves alone keeps its part of the invariant.
LEMMA LeftConceptKeeps ==
  ASSUME PromotionInv, NEW j \in Concepts, ConceptIsLeft(j), faults' >= faults, faults' \in Nat
  PROVE  CountedOn(j)' /\ FilledOn(j)' /\ ArrivedOn(j)'
<1>1. PromotionTyped /\ CountedOn(j) /\ FilledOn(j) /\ ArrivedOn(j)
  BY PromotionByConcept DEF ConceptsKept
<1>2. CountedOn(j)'
  <2>1. Cardinality(On(j)) \in Nat
    BY OnIsFinite DEF On
  <2>2. SUFFICES ASSUME NEW f \in Facts
                 PROVE chunks[j][f] + Cardinality(On(j)) <= faults' + IF j \in nodes THEN 1 ELSE 0
    BY DEF ConceptIsLeft, CountedOn
  <2>3. chunks[j][f] + Cardinality(On(j)) <= faults + IF j \in nodes THEN 1 ELSE 0
    BY <1>1 DEF CountedOn
  <2>4. chunks[j][f] \in Nat /\ faults \in Nat
    BY <1>1, Bounds DEF PromotionTyped
  <2>5. QED
    BY <2>1, <2>3, <2>4
<1>3. FilledOn(j)'
  <2>1. j \notin nodes => \A f \in Facts : chunks[j][f] = 0
    BY <1>1 DEF FilledOn
  <2>2. ASSUME j \notin harmed, NEW o \in On(j)
        PROVE  /\ j \in nodes /\ op'[o].facts[j] = from[j] /\ On(j) = {o}
               /\ \A f \in Facts : chunks[j][f] = 0
    BY <1>1, <2>2 DEF FilledOn, ConceptIsLeft
  <2>3. QED
    BY <2>1, <2>2 DEF FilledOn, ConceptIsLeft
<1>4. ArrivedOn(j)'
  BY <1>1 DEF ArrivedOn, ConceptIsLeft
<1>5. QED
  BY <1>2, <1>3, <1>4

\* Faults only add up, and their concepts stay harmed.
LEMMA BefallsTells ==
  ASSUME faults \in 0..MaxFaults, NEW fate \in P!Fates, NEW ks, P!Befalls(fate, ks)
  PROVE  /\ faults' \in 0..MaxFaults /\ faults' \in Nat /\ faults' >= faults
         /\ IF fate = "answered" THEN faults' = faults /\ harmed' = harmed
            ELSE faults' = faults + 1 /\ harmed' = harmed \cup ks
BY Bounds DEF P!Befalls

\* Neuron goes on: nothing that was promoted changes.
LEMMA TurnStep ==
  ASSUME PromotionInv, P!Turn
  PROVE  PromotionInv'
<1>1. PromotionTyped /\ faults \in Nat /\ MaxLinks \in Nat
  BY PromotionByConcept, Bounds DEF PromotionTyped
<1>2. UNCHANGED <<godnode, nodes, chunks, op, faults, from, harmed>>
  BY DEF P!Turn, P!neurag
<1>3. links' \subseteq P!Link /\ IsFiniteSet(links') /\ Cardinality(links') <= MaxLinks
  <2>1. CASE UNCHANGED links
    BY <2>1, <1>1 DEF PromotionTyped
  <2>2. ASSUME NEW l \in P!Link, Cardinality(links) < MaxLinks, links' = links \cup {l}
        PROVE  links' \subseteq P!Link /\ IsFiniteSet(links') /\ Cardinality(links') <= MaxLinks
    <3>1. links \subseteq P!Link /\ IsFiniteSet(links) /\ Cardinality(links) \in Nat
      BY <1>1, FS_CardinalityType DEF PromotionTyped
    <3>2. /\ IsFiniteSet(links')
          /\ Cardinality(links') = IF l \in links THEN Cardinality(links) ELSE Cardinality(links) + 1
      BY <3>1, <2>2, FS_AddElement
    <3>3. QED
      BY <1>1, <2>2, <3>1, <3>2
  <2>3. QED
    BY <2>1, <2>2, CountsAlike DEF P!Turn
<1>4. turn' \in 0..MaxTurns
  BY <1>1, Bounds DEF P!Turn, PromotionTyped
<1>5. episodes' \in [Concepts -> SUBSET Facts] /\ trusted' \subseteq Concepts
  BY <1>1 DEF P!Turn, PromotionTyped
<1>6. PromotionTyped'
  BY <1>1, <1>2, <1>3, <1>4, <1>5 DEF PromotionTyped, Tidy
<1>7. \A j \in Concepts : ConceptIsLeft(j)
  BY <1>2 DEF ConceptIsLeft, On
<1>8. QED
  BY <1>1, <1>2, <1>6, <1>7, LeftConceptKeeps, PromotionByConceptNext DEF
     ConceptsKept

\* A step of promotion o within the daemon: what becomes of the others' parts.
LEMMA OpStepTyped ==
  ASSUME PromotionTyped, NEW o \in Ops, NEW now, Tidy(now), op' = [op EXCEPT ![o] = now],
         UNCHANGED P!neuron
  PROVE  /\ op' \in [Ops -> OpType] /\ (\A q \in Ops : Tidy(op'[q]))
         /\ op'[o] = now /\ (\A q \in Ops \ {o} : op'[q] = op[q])
         /\ turn' \in 0..MaxTurns /\ links' \subseteq P!Link /\ IsFiniteSet(links')
         /\ Cardinality(links') <= MaxLinks
         /\ episodes' \in [Concepts -> SUBSET Facts] /\ trusted' \subseteq Concepts
BY DEF PromotionTyped, P!neuron, Tidy

\* A promotion reads the export: it is at no concept yet.
LEMMA ExportStep ==
  ASSUME PromotionInv, NEW o \in Ops, P!Export(o)
  PROVE  PromotionInv'
<1>1. PromotionTyped /\ faults \in Nat
  BY PromotionByConcept, Bounds DEF PromotionTyped
<1> DEFINE first == IF P!Candidates = {} THEN "done" ELSE "parent"
           known == [k \in Concepts |-> P!ChunksFor(k)]
           now == [P!Idle EXCEPT !.step = first, !.todo = P!Candidates, !.facts = known]
<1>2. op' = [op EXCEPT ![o] = now] /\ UNCHANGED P!neuron
      /\ UNCHANGED <<godnode, nodes, chunks, faults, from, harmed>>
  BY DEF P!Export, P!neurag
<1>3. Tidy(now) /\ now.at = {}
  <2>1. P!Candidates \subseteq Concepts
    BY DEF P!Candidates
  <2>2. ASSUME NEW k \in Concepts PROVE P!ChunksFor(k) \in SUBSET Facts
    BY <1>1 DEF P!ChunksFor, P!Touching, PromotionTyped, P!Link
  <2>3. P!Idle \in OpType /\ P!Idle.at = {} /\ \A k \in Concepts : P!Idle.report[k] = {}
    BY DEF P!Idle, P!NoFacts, OpType
  <2>4. now \in OpType
    <3>1. known \in [Concepts -> SUBSET Facts] /\ first \in {"done", "parent"}
      BY <2>2
    <3> HIDE DEF known, first
    <3>2. QED
      BY <2>1, <2>3, <3>1 DEF OpType
  <2>5. /\ now.step = first
        /\ now.todo = P!Candidates /\ now.at = P!Idle.at /\ now.report = P!Idle.report
    BY <2>3 DEF OpType
  <2> HIDE DEF now
  <2>6. QED
    BY <2>1, <2>3, <2>4, <2>5 DEF Tidy, first
<1> HIDE DEF now
<1>4. PromotionTyped'
  BY <1>1, <1>2, <1>3, OpStepTyped DEF PromotionTyped
<1>5. op[o].at = {}
  BY <1>1 DEF PromotionTyped, Tidy, P!Export
<1>6. \A j \in Concepts : ConceptIsLeft(j)
  BY <1>1, <1>2, <1>3, <1>5, OpStepTyped DEF ConceptIsLeft, On
<1>7. QED
  BY <1>1, <1>2, <1>4, <1>6, LeftConceptKeeps, PromotionByConceptNext DEF
     ConceptsKept

\* A question to make the godnode, which concerns no concept.
LEMMA ParentStep ==
  ASSUME PromotionInv, NEW o \in Ops, P!Parent(o)
  PROVE  PromotionInv'
<1>1. PromotionTyped /\ op[o] \in OpType /\ Tidy(op[o]) /\ op[o].step = "parent"
  BY PromotionByConcept DEF PromotionTyped, P!Parent
<1>2. PICK fate \in P!Fates :
        /\ P!Befalls(fate, {}) /\ godnode' = (godnode \/ P!Obeyed(fate))
        /\ op' = [op EXCEPT ![o] = IF fate = "raised" THEN [P!Idle EXCEPT !.step = "done"]
                                   ELSE [@ EXCEPT !.step = "node"]]
  BY DEF P!Parent
<1> DEFINE now == IF fate = "raised" THEN [P!Idle EXCEPT !.step = "done"]
                  ELSE [op[o] EXCEPT !.step = "node"]
<1>3. op' = [op EXCEPT ![o] = now] /\ UNCHANGED P!neuron /\ UNCHANGED <<nodes, chunks, from>>
  BY <1>1, <1>2 DEF P!Parent, PromotionTyped
<1>4. faults' \in 0..MaxFaults /\ faults' \in Nat /\ faults' >= faults /\ harmed' = harmed
  BY <1>1, <1>2, BefallsTells DEF PromotionTyped
<1>5. Tidy(now) /\ now.at = {} /\ op[o].at = {}
  <2>1. op[o].at = {}
    BY <1>1 DEF Tidy
  <2>2. Tidy([P!Idle EXCEPT !.step = "done"]) /\ [P!Idle EXCEPT !.step = "done"].at = {}
    BY DEF P!Idle, P!NoFacts, Tidy, OpType
  <2>3. Tidy([op[o] EXCEPT !.step = "node"]) /\ [op[o] EXCEPT !.step = "node"].at = {}
    BY <1>1, <2>1 DEF Tidy, OpType
  <2>4. QED
    BY <2>1, <2>2, <2>3
<1> HIDE DEF now
<1>6. godnode' \in BOOLEAN /\ (nodes # {} => godnode')
  BY <1>1, <1>2 DEF PromotionTyped
<1>7. PromotionTyped'
  BY <1>1, <1>3, <1>4, <1>5, <1>6, OpStepTyped DEF PromotionTyped
<1>8. \A j \in Concepts : ConceptIsLeft(j)
  BY <1>1, <1>3, <1>4, <1>5, OpStepTyped DEF ConceptIsLeft, On
<1>9. QED
  BY <1>4, <1>7, <1>8, LeftConceptKeeps, PromotionByConceptNext DEF
     ConceptsKept

\* A step at concept k leaves the others alone.
LEMMA OthersAreLeft ==
  ASSUME PromotionTyped, NEW o \in Ops, NEW k \in Concepts, NEW j \in Concepts \ {k},
         op' \in [Ops -> OpType], op[o].at \subseteq {k}, op'[o].at \subseteq {k},
         op'[o].facts = op[o].facts, \A q \in Ops \ {o} : op'[q] = op[q],
         chunks'[j] = chunks[j], from'[j] = from[j],
         nodes' \in {nodes, nodes \cup {k}}, harmed' \in {harmed, harmed \cup {k}}
  PROVE  ConceptIsLeft(j)
BY DEF ConceptIsLeft, On

\* A question to make k a node, and what is known of it after.
LEMMA NodeStep ==
  ASSUME PromotionInv, NEW o \in Ops, P!Node(o)
  PROVE  PromotionInv'
<1>1. /\ PromotionTyped /\ op[o] \in OpType /\ Tidy(op[o]) /\ op[o].step = "node"
      /\ \A j \in Concepts : CountedOn(j) /\ FilledOn(j) /\ ArrivedOn(j)
  BY PromotionByConcept DEF PromotionTyped, P!Node, ConceptsKept
<1>2. PICK k \in op[o].todo, fate \in P!Fates :
        /\ P!Befalls(fate, {k})
        /\ nodes' = IF godnode /\ k \notin nodes /\ P!Obeyed(fate) THEN nodes \cup {k} ELSE nodes
        /\ from' = IF godnode /\ k \notin nodes /\ P!Obeyed(fate)
                   THEN [from EXCEPT ![k] = op[o].facts[k]] ELSE from
        /\ op' = [op EXCEPT ![o] = P!AfterNode(@, k, P!Said(k, fate))]
  BY DEF P!Node
<1> DEFINE now == P!AfterNode(op[o], k, P!Said(k, fate))
<1>3. /\ op' = [op EXCEPT ![o] = now]
      /\ UNCHANGED P!neuron /\ UNCHANGED <<godnode, chunks>>
  BY <1>1, <1>2 DEF P!Node, PromotionTyped
<1>4. k \in Concepts /\ op[o].at = {}
  BY <1>1 DEF OpType, Tidy
<1>5. /\ faults' \in 0..MaxFaults /\ faults' \in Nat /\ faults' >= faults
      /\ IF fate = "answered" THEN faults' = faults /\ harmed' = harmed
         ELSE faults' = faults + 1 /\ harmed' = harmed \cup {k}
  BY <1>1, <1>2, BefallsTells DEF PromotionTyped
<1>6. /\ Tidy(now) /\ now.facts = op[o].facts /\ now.at \in {{}, {k}}
      /\ now.at = {k} => fate # "answered" \/ (godnode /\ k \notin nodes)
      /\ fate = "answered" /\ godnode /\ k \notin nodes /\ now.at = {} => op[o].facts[k] = {}
  BY <1>1, AfterNodeTells
<1> HIDE DEF now
<1>7. PromotionTyped'
  <2>1. op[o].facts[k] \in SUBSET Facts
    BY <1>1, <1>4 DEF OpType
  <2>2. /\ nodes' \subseteq Concepts /\ (nodes' # {} => godnode)
        /\ from' \in [Concepts -> SUBSET Facts] /\ harmed' \subseteq Concepts
    BY <1>1, <1>2, <1>4, <1>5, <2>1 DEF PromotionTyped
  <2>3. QED
    BY <1>1, <1>3, <1>5, <1>6, <2>2, OpStepTyped DEF PromotionTyped
<1>8. /\ op' \in [Ops -> OpType] /\ op'[o] = now /\ \A q \in Ops \ {o} : op'[q] = op[q]
  BY <1>1, <1>3, <1>6, OpStepTyped
<1>9. ASSUME NEW j \in Concepts \ {k} PROVE CountedOn(j)' /\ FilledOn(j)' /\ ArrivedOn(j)'
  <2>1. /\ nodes' \in {nodes, nodes \cup {k}} /\ harmed' \in {harmed, harmed \cup {k}}
        /\ from'[j] = from[j]
    BY <1>1, <1>2, <1>5 DEF PromotionTyped
  <2>2. ConceptIsLeft(j)
    BY <1>1, <1>3, <1>4, <1>6, <1>8, <2>1, OthersAreLeft
  <2>3. QED
    BY <1>5, <2>2, LeftConceptKeeps
<1>10. On(k)' = (IF now.at = {} THEN On(k) ELSE On(k) \cup {o}) /\ o \notin On(k)
  BY <1>4, <1>6, <1>8 DEF On
<1>11. On(k) \in SUBSET Ops /\ Cardinality(On(k)) \in Nat
       /\ Cardinality(On(k) \cup {o}) <= Cardinality(On(k)) + 1
  BY OnIsFinite DEF On
<1>12. fate = "answered" =>
         /\ nodes' = IF godnode /\ k \notin nodes THEN nodes \cup {k} ELSE nodes
         /\ from' = IF godnode /\ k \notin nodes THEN [from EXCEPT ![k] = op[o].facts[k]] ELSE from
  BY <1>2 DEF P!Obeyed
<1>13. CountedOn(k)'
  <2> DEFINE a == Cardinality(On(k))
             b == Cardinality(On(k)')
             x == IF k \in nodes THEN 1 ELSE 0
             y == IF k \in nodes' THEN 1 ELSE 0
             g == faults'
  <2>1. a \in Nat /\ faults \in Nat /\ g \in Nat /\ g >= faults
        /\ x \in {0, 1} /\ y \in {0, 1} /\ y >= x
    BY <1>1, <1>2, <1>5, <1>11, Bounds DEF PromotionTyped
  <2>2. b = a \/ (b \in Nat /\ b <= a + 1 /\ (g = faults + 1 \/ y = x + 1))
    <3>1. CASE now.at = {}
      BY <1>10, <3>1
    <3>2. CASE now.at # {}
      <4>1. On(k)' = On(k) \cup {o}
        BY <1>10, <3>2
      <4>2. b \in Nat /\ b <= a + 1
        BY <1>10, <1>11, <4>1, FS_AddElement, OnIsFinite
      <4>3. CASE fate = "answered"
        BY <1>6, <1>12, <3>2, <4>2, <4>3
      <4>4. CASE fate # "answered"
        BY <1>5, <4>2, <4>4
      <4>5. QED
        BY <4>3, <4>4
    <3>3. QED
      BY <3>1, <3>2
  <2>3. ASSUME NEW f \in Facts PROVE chunks[k][f] + b <= g + y
    <3>1. chunks[k][f] \in Nat
      BY <1>1, <1>4 DEF PromotionTyped
    <3>2. chunks[k][f] + a <= faults + x
      BY <1>1, <1>4 DEF CountedOn
    <3> HIDE DEF a, b, x, y, g
    <3>3. QED
      BY <2>1, <2>2, <3>1, <3>2
  <2>4. QED
    BY <1>3, <2>3 DEF CountedOn
<1>14. FilledOn(k)' /\ ArrivedOn(k)'
  <2>1. k \notin nodes => \A f \in Facts : chunks[k][f] = 0
    BY <1>1, <1>4 DEF FilledOn
  <2>2. k \notin nodes' => \A f \in Facts : chunks'[k][f] = 0
    BY <1>2, <1>3, <2>1
  <2>3. CASE k \in harmed'
    BY <2>2, <2>3 DEF FilledOn, ArrivedOn
  <2>4. CASE k \notin harmed' /\ godnode /\ k \notin nodes
    <3>1. fate = "answered" /\ k \notin harmed
      BY <1>5, <2>4
    <3>2. On(k) = {}
      BY <1>1, <1>4, <2>4, <3>1 DEF FilledOn
    <3>3. k \in nodes' /\ from'[k] = op[o].facts[k]
      BY <1>1, <1>4, <1>12, <2>4, <3>1 DEF PromotionTyped
    <3>4. CASE now.at = {k}
      <4>1. On(k)' = {o} /\ op'[o].facts[k] = from'[k]
        BY <1>6, <1>8, <1>10, <3>2, <3>3, <3>4
      <4>2. QED
        BY <1>3, <2>1, <2>2, <2>4, <3>3, <4>1 DEF FilledOn, ArrivedOn
    <3>5. CASE now.at = {}
      <4>1. On(k)' = {} /\ from'[k] = {}
        BY <1>6, <1>10, <2>4, <3>1, <3>2, <3>3, <3>5
      <4>2. QED
        BY <1>3, <2>1, <2>2, <2>4, <4>1 DEF FilledOn, ArrivedOn
    <3>6. QED
      BY <1>6, <3>4, <3>5
  <2>5. CASE k \notin harmed' /\ ~(godnode /\ k \notin nodes)
    <3>1. fate = "answered" /\ k \notin harmed
      BY <1>5, <2>5
    <3>2. now.at = {} /\ nodes' = nodes /\ from' = from /\ harmed' = harmed
      BY <1>5, <1>6, <1>12, <2>5, <3>1
    <3>3. ConceptIsLeft(k)
      BY <1>3, <1>8, <1>10, <3>2 DEF ConceptIsLeft, On
    <3>4. QED
      BY <1>4, <1>5, <3>3, LeftConceptKeeps
  <2>6. QED
    BY <2>3, <2>4, <2>5
<1>15. QED
  BY <1>7, <1>9, <1>13, <1>14, PromotionByConceptNext DEF ConceptsKept

\* A question to add k's chunks: who asked is on its way no more.
LEMMA ChunksStep ==
  ASSUME PromotionInv, NEW o \in Ops, P!Chunks(o)
  PROVE  PromotionInv'
<1>1. /\ PromotionTyped /\ op[o] \in OpType /\ Tidy(op[o]) /\ op[o].step = "chunks"
      /\ \A j \in Concepts : CountedOn(j) /\ FilledOn(j) /\ ArrivedOn(j)
  BY PromotionByConcept DEF PromotionTyped, P!Chunks, ConceptsKept
<1>2. PICK k \in op[o].at, fate \in P!Fates :
        /\ P!Befalls(fate, {k})
        /\ chunks' = IF k \notin nodes THEN chunks
                     ELSE [chunks EXCEPT ![k] = [f \in Facts |-> @[f] +
                             IF P!Obeyed(fate) /\ f \in op[o].facts[k] THEN 1 ELSE 0]]
        /\ op' = [op EXCEPT ![o] =
                    P!Past(@, k, IF fate = "raised" THEN {"skipped"} ELSE {}, FALSE)]
  BY DEF P!Chunks
<1> DEFINE words == IF fate = "raised" THEN {"skipped"} ELSE {}
           now == P!Past(op[o], k, words, FALSE)
<1>3. /\ op' = [op EXCEPT ![o] = now]
      /\ UNCHANGED P!neuron /\ UNCHANGED <<godnode, nodes, from>>
  BY <1>1, <1>2 DEF P!Chunks, PromotionTyped
<1>4. k \in Concepts /\ op[o].at = {k}
  BY <1>1 DEF OpType, Tidy
<1>5. /\ faults' \in 0..MaxFaults /\ faults' \in Nat /\ faults' >= faults
      /\ IF fate = "answered" THEN faults' = faults /\ harmed' = harmed
         ELSE faults' = faults + 1 /\ harmed' = harmed \cup {k}
  BY <1>1, <1>2, BefallsTells DEF PromotionTyped
<1>6. Tidy(now) /\ now.facts = op[o].facts /\ now.at = {}
  <2>1. words \in SUBSET {"written", "already", "skipped"}
    OBVIOUS
  <2> HIDE DEF words
  <2>2. k \in op[o].todo \cup op[o].at /\ op[o].at \subseteq {k} /\ FALSE \in BOOLEAN
    BY <1>4
  <2>3. \A b \in BOOLEAN : LET then == P!Past(op[o], k, words, b)
                           IN  Tidy(then) /\ then.facts = op[o].facts
                               /\ then.at = IF b THEN {k} ELSE {}
    BY <1>1, <2>1, <2>2, PastTells
  <2>4. QED
    BY <2>3
<1> HIDE DEF now
<1>7. \A f \in Facts : chunks'[k][f] =
         chunks[k][f] + IF k \in nodes /\ P!Obeyed(fate) /\ f \in op[o].facts[k] THEN 1 ELSE 0
  BY <1>1, <1>2, <1>4 DEF PromotionTyped
<1>8. \A j \in Concepts \ {k} : chunks'[j] = chunks[j]
  BY <1>1, <1>2, <1>4 DEF PromotionTyped
<1>9. PromotionTyped'
  <2>1. harmed' \subseteq Concepts
    BY <1>1, <1>4, <1>5 DEF PromotionTyped
  <2>2. chunks' \in [Concepts -> [Facts -> Nat]]
    <3>1. ASSUME NEW f \in Facts
          PROVE  chunks[k][f] + (IF P!Obeyed(fate) /\ f \in op[o].facts[k] THEN 1 ELSE 0) \in Nat
      <4>1. chunks[k][f] \in Nat
        BY <1>1, <1>4 DEF PromotionTyped
      <4>2. QED
        BY <4>1
    <3>2. [f \in Facts |-> chunks[k][f] +
             IF P!Obeyed(fate) /\ f \in op[o].facts[k] THEN 1 ELSE 0] \in [Facts -> Nat]
      BY <3>1
    <3>3. QED
      BY <1>1, <1>2, <1>4, <3>2 DEF PromotionTyped
  <2>3. QED
    BY <1>1, <1>3, <1>5, <1>6, <2>1, <2>2, OpStepTyped DEF PromotionTyped
<1>10. /\ op' \in [Ops -> OpType] /\ op'[o] = now /\ \A q \in Ops \ {o} : op'[q] = op[q]
  BY <1>1, <1>3, <1>6, OpStepTyped
<1>11. ASSUME NEW j \in Concepts \ {k} PROVE CountedOn(j)' /\ FilledOn(j)' /\ ArrivedOn(j)'
  <2>1. harmed' \in {harmed, harmed \cup {k}}
    BY <1>5
  <2>2. ConceptIsLeft(j)
    BY <1>1, <1>3, <1>4, <1>6, <1>8, <1>10, <2>1, OthersAreLeft
  <2>3. QED
    BY <1>5, <2>2, LeftConceptKeeps
<1>12. On(k)' = On(k) \ {o} /\ o \in On(k)
  BY <1>4, <1>6, <1>10 DEF On
<1>13. CountedOn(k)'
  <2> DEFINE a == Cardinality(On(k))
             b == Cardinality(On(k) \ {o})
             x == IF k \in nodes THEN 1 ELSE 0
             g == faults'
  <2>1. a \in Nat /\ b \in Nat /\ b = a - 1 /\ faults \in Nat /\ g \in Nat /\ g >= faults /\ x \in {0, 1}
    <3>1. On(k) \in SUBSET Ops /\ On(k) \ {o} \in SUBSET Ops
      BY DEF On
    <3>2. a \in Nat /\ b \in Nat /\ b = a - 1
      BY <1>12, <3>1, OnIsFinite
    <3>3. QED
      BY <1>1, <1>5, <3>2, Bounds DEF PromotionTyped
  <2>2. ASSUME NEW f \in Facts PROVE chunks'[k][f] + b <= g + x
    <3>1. chunks[k][f] \in Nat
      BY <1>1, <1>4 DEF PromotionTyped
    <3>2. chunks[k][f] + a <= faults + x
      BY <1>1, <1>4 DEF CountedOn
    <3>3. chunks'[k][f] = chunks[k][f] \/ chunks'[k][f] = chunks[k][f] + 1
      BY <1>7, <3>1
    <3> HIDE DEF a, b, x, g
    <3>4. QED
      BY <2>1, <3>1, <3>2, <3>3
  <2>3. QED
    BY <1>3, <1>12, <2>2 DEF CountedOn
<1>14. FilledOn(k)' /\ ArrivedOn(k)'
  <2>1. k \notin nodes => \A f \in Facts : chunks'[k][f] = 0
    BY <1>1, <1>4, <1>7 DEF FilledOn
  <2>2. CASE k \in harmed'
    BY <1>3, <2>1, <2>2 DEF FilledOn, ArrivedOn
  <2>3. CASE k \notin harmed'
    <3>1. fate = "answered" /\ k \notin harmed
      BY <1>5, <2>3
    <3>2. /\ k \in nodes /\ op[o].facts[k] = from[k] /\ On(k) = {o}
          /\ \A f \in Facts : chunks[k][f] = 0
      BY <1>1, <1>4, <1>12, <3>1 DEF FilledOn
    <3>3. On(k)' = {} /\ \A f \in Facts : chunks'[k][f] = IF f \in from[k] THEN 1 ELSE 0
      BY <1>7, <1>12, <3>1, <3>2 DEF P!Obeyed
    <3>4. QED
      BY <1>3, <2>1, <3>2, <3>3 DEF FilledOn, ArrivedOn
  <2>4. QED
    BY <2>2, <2>3
<1>15. QED
  BY <1>9, <1>11, <1>13, <1>14, PromotionByConceptNext DEF ConceptsKept

\* Promotion keeps its invariant.
LEMMA PromotionStep ==
  ASSUME PromotionInv, P!Next \/ UNCHANGED promotion
  PROVE  PromotionInv'
<1>1. CASE UNCHANGED promotion
  <2>1. PromotionTyped /\ faults' \in Nat /\ faults' >= faults
    BY <1>1, PromotionByConcept, Bounds DEF PromotionTyped, promotion
  <2>2. PromotionTyped'
    BY <1>1, <2>1 DEF promotion, PromotionTyped, P!Link
  <2>3. \A j \in Concepts : ConceptIsLeft(j)
    BY <1>1 DEF promotion, ConceptIsLeft, On
  <2>4. QED
    BY <2>1, <2>2, <2>3, LeftConceptKeeps, PromotionByConceptNext DEF
       ConceptsKept
<1>2. QED
  BY <1>1, TurnStep, ExportStep, ParentStep, NodeStep, ChunksStep DEF P!Next

-----------------------------------------------------------------------------
(* Stimuli.                                                                *)
-----------------------------------------------------------------------------

CallType == [kind : {"none", "tool", "pre_turn", "pulse", "recall"},
             ses : S!Who, topic : Topics,
             out : SUBSET {"work", "kb", "confirm", "extract", "flash", "note"},
             stim : BOOLEAN, beside : BOOLEAN, cut : BOOLEAN]

\* A call is in its process, and has the questions out that its kind may have.
Fine(r) ==
  /\ r \in CallType /\ (r.kind = "none" <=> r.out = {})
  /\ r.kind # "none" => (daemon <=> r.kind = "recall")
  /\ r.kind = "recall" => r.out \subseteq {"work", "kb", "extract", "flash"}
  /\ r.kind = "tool" => r.out \in {{"work"}, {"note"}}
  /\ r.kind = "pre_turn" => r.out \in {{"work"}, {"kb"}, {"confirm"}, {"flash"}, {"note"}}
  /\ r.kind = "pulse" => r.out \in {{"work"}, {"kb"}, {"confirm"}, {"flash"}}

\* The invariant's parts: the calls, the silence, the flashes' distance, the memory.
CallsKept == call \in [Slots -> CallType] /\ (\A c \in Slots : Fine(call[c])) /\ AloneIsInTime
SilenceKept == /\ quiet \in 0..SafetyGap /\ turns \in 0..SafetyGap /\ quiet <= turns
               /\ quiet < turns => quiet + 1 >= SafetyGap
GapKept == since \in 0..FlashGap /\ apart \in 0..FlashGap /\ since <= apart
TableKept == held \subseteq Sessions /\ IsFiniteSet(held) /\ Cardinality(held) <= SessionsMax
MemoryKept == /\ shown \in [S!Who -> SUBSET Sections] /\ flashed \in [S!Who -> SUBSET Dormant]
              /\ told \in [S!Who -> SUBSET (Sections \cup Dormant)]
              /\ ToldIsRemembered /\ ~twice /\ TableKept

Calm == last \in Topics \cup {"none"} /\ ~hasty /\ ~mute

\* The invariant is its parts.
LEMMA StimuliByPart ==
  StimuliInv <=> /\ CallsKept /\ SilenceKept /\ GapKept /\ MemoryKept
                 /\ last \in Topics \cup {"none"} /\ ~hasty /\ ~mute
<1>1. \A d \in Slots : Fine(call[d]) => (Cardinality(call[d].out) > 1 => call[d].kind = "recall")
  <2>1. Cardinality({}) = 0 /\ \A x : Cardinality({x}) = 1
    BY FS_EmptySet, FS_Singleton
  <2>2. SUFFICES ASSUME NEW d \in Slots, Fine(call[d]), call[d].kind # "recall"
                 PROVE  ~(Cardinality(call[d].out) > 1)
    OBVIOUS
  <2>3. call[d].out = {} \/ \E x : call[d].out = {x}
    BY <2>2 DEF Fine, CallType
  <2>4. Cardinality(call[d].out) \in {0, 1}
    BY <2>1, <2>3
  <2>5. QED
    BY <2>4
<1>3. ASSUME StimuliInv
      PROVE  /\ CallsKept /\ SilenceKept /\ GapKept /\ MemoryKept
             /\ last \in Topics \cup {"none"} /\ ~hasty /\ ~mute
  <2>1. CallsKept
    BY <1>3 DEF StimuliInv, S!TypeOK, Questions, CallsKept, CallType, Fine
  <2>2. QED
    BY <1>3, <2>1, CountsAlike DEF StimuliInv, S!TypeOK, SilenceKept, GapKept, MemoryKept,
       TableKept, CountersTell
<1>4. ASSUME CallsKept, SilenceKept, GapKept, MemoryKept,
             last \in Topics \cup {"none"}, ~hasty, ~mute
      PROVE  StimuliInv
  <2>1. S!TypeOK
    BY <1>1, <1>4, CountsAlike DEF S!TypeOK, CallsKept, CallType, Fine,
       SilenceKept, GapKept, MemoryKept, TableKept
  <2>2. Questions
    BY <1>4 DEF Questions, CallsKept, Fine
  <2>3. QED
    BY <1>4, <2>1, <2>2 DEF StimuliInv, CallsKept, SilenceKept, GapKept,
       MemoryKept, TableKept, CountersTell
<1>5. QED
  BY <1>3, <1>4

\* The same of the state after a step.
LEMMA StimuliByPartNext ==
  StimuliInv' <=> CallsKept' /\ SilenceKept' /\ GapKept' /\ MemoryKept' /\ Calm'
<1>1. StimuliInv <=> CallsKept /\ SilenceKept /\ GapKept /\ MemoryKept /\ Calm
  BY StimuliByPart DEF Calm
<1>2. QED
  BY <1>1, PTL

\* The lesser of two numbers.
LEMMA UpToIsLeast ==
  ASSUME NEW n \in Nat, NEW m \in Nat
  PROVE  S!UpTo(n, m) = IF n <= m THEN n ELSE m
BY DEF S!UpTo, S!Min

\* A slot with no call in it.
LEMMA IdleIsFine ==
  /\ Fine(S!Idle) /\ S!Idle \in CallType /\ S!Idle.out = {} /\ S!Idle.kind = "none"
  /\ S!Idle.beside = FALSE /\ S!Idle.stim = FALSE
<1> DEFINE t == CHOOSE x \in Topics : TRUE
<1>1. t \in Topics /\ Gateway \in S!Who
  BY NamedThings DEF S!Who
<1>2. S!Idle = [kind |-> "none", ses |-> Gateway, topic |-> t, out |-> {}, stim |-> FALSE,
                beside |-> FALSE, cut |-> FALSE]
  BY DEF S!Idle
<1> HIDE DEF t
<1>3. QED
  BY <1>1, <1>2 DEF Fine, CallType

\* Where nothing is yet.
LEMMA StimuliStart == S!Init => StimuliInv
<1>1. SUFFICES ASSUME S!Init
               PROVE  /\ CallsKept /\ SilenceKept /\ GapKept /\ MemoryKept
                      /\ last \in Topics \cup {"none"} /\ ~hasty /\ ~mute
  BY StimuliByPart
<1>2. CallsKept
  BY <1>1, IdleIsFine DEF S!Init, CallsKept, AloneIsInTime, S!Out
<1>3. TableKept
  BY <1>1, FS_EmptySet, SessionsAreHeld DEF S!Init, TableKept
<1>4. QED
  BY <1>1, <1>2, <1>3, GapsAreGaps DEF S!Init, SilenceKept, GapKept, MemoryKept,
     ToldIsRemembered

\* A step of call c keeps who is alone in time.
LEMMA AloneKept ==
  ASSUME CallsKept, NEW c \in Slots,
         \A d \in Slots \ {c} : /\ call'[d].out = call[d].out
                                /\ ~call'[d].beside => ~call[d].beside,
         ~call'[c].beside /\ "flash" \in call'[c].out =>
           apart' = FlashGap /\ S!Others(c, "flash") = {},
         ~call'[c].beside /\ "note" \in call'[c].out => quiet' + 1 >= SafetyGap,
         \A d \in Slots \ {c} : ~call'[d].beside /\ "flash" \in call[d].out =>
           "flash" \notin call'[c].out /\ apart' = FlashGap,
         \A d \in Slots \ {c} : ~call'[d].beside /\ "note" \in call[d].out =>
           quiet' + 1 >= SafetyGap
  PROVE  AloneIsInTime'
<1>1. ASSUME NEW d \in Slots, ~call'[d].beside, "flash" \in call'[d].out
      PROVE  apart' = FlashGap /\ {e \in Slots \ {d} : "flash" \in call'[e].out} = {}
  <2>1. CASE d = c
    <3>1. \A e \in Slots \ {d} : "flash" \notin call'[e].out
      BY <1>1, <2>1 DEF S!Others, S!Out
    <3>2. QED
      BY <1>1, <2>1, <3>1
  <2>2. CASE d # c
    <3>1. ~call[d].beside /\ "flash" \in call[d].out
      BY <1>1, <2>2
    <3>2. \A e \in Slots \ {d} : "flash" \notin call[e].out
      BY <3>1 DEF CallsKept, AloneIsInTime, S!Others, S!Out
    <3>3. \A e \in Slots \ {d} : "flash" \notin call'[e].out
      BY <1>1, <2>2, <3>1, <3>2
    <3>4. QED
      BY <1>1, <2>2, <3>1, <3>3
  <2>3. QED
    BY <2>1, <2>2
<1>2. ASSUME NEW d \in Slots, ~call'[d].beside, "note" \in call'[d].out
      PROVE  quiet' + 1 >= SafetyGap
  BY <1>2
<1>3. QED
  BY <1>1, <1>2 DEF AloneIsInTime, S!Others, S!Out

\* What a call is when it goes on: of its kind, with no question out that it
\* had not, for a flash or a note.
Ready(c, was) ==
  /\ was \in CallType /\ was.kind = call[c].kind /\ was.beside = call[c].beside
  /\ was.kind # "none"
  /\ "flash" \in was.out => S!Out(c, "flash")
  /\ "note" \notin was.out
  /\ IF was.kind = "recall" THEN was.out \subseteq {"work", "kb", "extract", "flash"}
                            ELSE was.out = {}

\* How far apart flashes are does not shrink behind a question for one.
ApartFor(c, out) ==
  \/ apart' \in 0..FlashGap /\ apart' >= apart
  \/ S!Out(c, "flash") /\ "flash" \notin out

\* A question is out: whoever waits for the same knows.
LEMMA WaitsKeeps ==
  ASSUME CallsKept, GapKept, NEW c \in Slots, NEW was, Ready(c, was), NEW q, S!Waits(c, was, q),
         \/ was.kind = "recall" /\ q = "flash"
         \/ was.kind = "pulse" /\ q \in {"kb", "confirm", "flash"}
         \/ was.kind = "pre_turn" /\ q \in {"kb", "confirm", "flash", "note"}
         \/ was.kind = "tool" /\ q = "note",
         daemon' = daemon, apart' \in 0..FlashGap, apart' >= apart,
         q = "flash" => apart' = FlashGap,
         quiet' = quiet, q = "note" => quiet + 1 >= SafetyGap
  PROVE  CallsKept'
<1> DEFINE b == was.beside \/ S!Others(c, q) # {}
           now == [was EXCEPT !.out = @ \cup {q}, !.beside = b]
<1>1. /\ was \in CallType /\ was.beside = call[c].beside /\ Fine(call[c])
      /\ was.kind = call[c].kind /\ was.kind # "none"
  BY DEF Ready, CallsKept
<1>2. call' = [d \in Slots |-> IF d = c THEN now
                ELSE IF d \in S!Others(c, q) THEN [call[d] EXCEPT !.beside = TRUE] ELSE call[d]]
  <2>1. \A d \in Slots \ {c} : call'[d] =
          IF d \in S!Others(c, q) THEN [call[d] EXCEPT !.beside = TRUE] ELSE call[d]
    BY DEF S!Waits
  <2>2. call'[c] = now
    BY <1>1 DEF S!Waits, CallType
  <2>3. call' = [d \in Slots |-> call'[d]]
    BY DEF S!Waits
  <2> HIDE DEF now
  <2>4. QED
    BY <2>1, <2>2, <2>3
<1>3. b \in BOOLEAN /\ (~b => ~call[c].beside /\ S!Others(c, q) = {})
  BY <1>1
<1> HIDE DEF b
<1>4. Fine(now) /\ now \in CallType /\ now.out = was.out \cup {q} /\ now.beside = b
  <2>1. now \in CallType /\ now.out = was.out \cup {q} /\ now.beside = b /\ now.kind = was.kind
    BY <1>1, <1>3 DEF CallType
  <2> HIDE DEF now
  <2>2. now.kind = "recall" => now.out \subseteq {"work", "kb", "extract", "flash"}
    BY <2>1 DEF Ready
  <2>3. now.kind # "recall" => now.out = {q}
    BY <2>1 DEF Ready
  <2>4. now.out # {} /\ (daemon <=> now.kind = "recall")
    BY <1>1, <2>1 DEF Fine
  <2>5. QED
    BY <1>1, <2>1, <2>2, <2>3, <2>4 DEF Fine
<1> HIDE DEF now
<1>5. ASSUME NEW d \in Slots \ {c}
      PROVE  /\ Fine(call'[d]) /\ call'[d] \in CallType /\ call'[d].out = call[d].out
             /\ (~call'[d].beside => ~call[d].beside /\ q \notin call[d].out)
  <2>1. Fine(call[d]) /\ call[d] \in CallType
    BY DEF CallsKept
  <2>2. CASE d \in S!Others(c, q)
    <3>1. call'[d] = [call[d] EXCEPT !.beside = TRUE]
      BY <1>2, <2>2
    <3>2. /\ call'[d] \in CallType /\ call'[d].beside = TRUE /\ call'[d].out = call[d].out
          /\ call'[d].kind = call[d].kind
      BY <2>1, <3>1 DEF CallType
    <3>3. QED
      BY <2>1, <3>2 DEF Fine
  <2>3. CASE d \notin S!Others(c, q)
    BY <1>2, <2>1, <2>3 DEF S!Others, S!Out
  <2>4. QED
    BY <2>2, <2>3
<1>6. call'[c] = now
  BY <1>2
<1>7. call' \in [Slots -> CallType] /\ \A d \in Slots : Fine(call'[d])
  BY <1>2, <1>4, <1>5, <1>6
<1>8. AloneIsInTime'
  <2>1. apart \in 0..FlashGap /\ quiet' = quiet
    BY DEF GapKept
  <2>2. \A d \in Slots : ~call[d].beside =>
          /\ "flash" \in call[d].out => apart = FlashGap /\ S!Others(d, "flash") = {}
          /\ "note" \in call[d].out => quiet + 1 >= SafetyGap
    BY DEF CallsKept, AloneIsInTime, S!Out
  <2>3. apart = FlashGap => apart' = FlashGap
    BY <2>1, GapsAreGaps
  <2>4. "flash" \in was.out => "flash" \in call[c].out
    BY DEF Ready, S!Out
  <2>5. ~call'[c].beside /\ "flash" \in call'[c].out => apart' = FlashGap /\ S!Others(c, "flash") = {}
    <3>1. CASE q = "flash"
      BY <1>3, <1>4, <1>6, <3>1
    <3>2. CASE q # "flash"
      BY <1>3, <1>4, <1>6, <2>2, <2>3, <2>4, <3>2
    <3>3. QED
      BY <3>1, <3>2
  <2>6. ~call'[c].beside /\ "note" \in call'[c].out => quiet' + 1 >= SafetyGap
    BY <1>4, <1>6 DEF Ready
  <2>7. ASSUME NEW d \in Slots \ {c}, ~call'[d].beside, "flash" \in call[d].out
        PROVE  "flash" \notin call'[c].out /\ apart' = FlashGap
    <3>1. ~call[d].beside /\ q # "flash"
      BY <1>5, <2>7
    <3>2. apart = FlashGap /\ c \notin S!Others(d, "flash") /\ d # c
      BY <2>2, <2>7, <3>1
    <3>3. "flash" \notin call[c].out
      BY <3>2 DEF S!Others, S!Out
    <3>4. QED
      BY <1>4, <1>6, <2>3, <2>4, <3>1, <3>2, <3>3
  <2>8. \A d \in Slots \ {c} : ~call'[d].beside /\ "note" \in call[d].out => quiet' + 1 >= SafetyGap
    BY <1>5, <2>1, <2>2
  <2>9. QED
    BY <1>5, <2>5, <2>6, <2>7, <2>8, AloneKept
<1>9. QED
  BY <1>7, <1>8 DEF CallsKept, Fine

\* A turn ends: with a stimulus, whoever waits for a note knows.
LEMMA EndsKeeps ==
  ASSUME CallsKept, GapKept, NEW c \in Slots, NEW stim \in BOOLEAN, S!Ends(c, stim),
         daemon' = daemon, ApartFor(c, {}), quiet \in Nat, quiet' \in Nat,
         quiet' >= quiet \/ stim
  PROVE  CallsKept'
<1> DEFINE b(d) == call[d].beside \/ (stim /\ S!Out(d, "note"))
<1>1. call' = [d \in Slots |-> IF d = c THEN S!Idle ELSE [call[d] EXCEPT !.beside = b(d)]]
  BY DEF S!Ends
<1>2. \A d \in Slots : b(d) \in BOOLEAN /\ (~b(d) => ~call[d].beside /\ ~(stim /\ S!Out(d, "note")))
  BY DEF CallsKept, CallType
<1> HIDE DEF b
<1>3. ASSUME NEW d \in Slots \ {c}
      PROVE  /\ Fine(call'[d]) /\ call'[d] \in CallType /\ call'[d].out = call[d].out
             /\ (~call'[d].beside => ~call[d].beside /\ ~(stim /\ S!Out(d, "note")))
  <2>1. Fine(call[d]) /\ call[d] \in CallType
    BY DEF CallsKept
  <2>2. call'[d] = [call[d] EXCEPT !.beside = b(d)]
    BY <1>1
  <2>3. /\ call'[d] \in CallType /\ call'[d].beside = b(d) /\ call'[d].out = call[d].out
        /\ call'[d].kind = call[d].kind
    BY <1>2, <2>1, <2>2 DEF CallType
  <2>4. QED
    BY <1>2, <2>1, <2>3 DEF Fine
<1>4. call'[c] = S!Idle
  BY <1>1
<1>5. call' \in [Slots -> CallType] /\ \A d \in Slots : Fine(call'[d])
  BY <1>1, <1>3, <1>4, IdleIsFine
<1>6. AloneIsInTime'
  <2>1. apart \in 0..FlashGap
    BY DEF GapKept
  <2>2. \A d \in Slots : ~call[d].beside =>
          /\ "flash" \in call[d].out => apart = FlashGap /\ S!Others(d, "flash") = {}
          /\ "note" \in call[d].out => quiet + 1 >= SafetyGap
    BY DEF CallsKept, AloneIsInTime, S!Out
  <2>3. ASSUME NEW d \in Slots \ {c}, ~call'[d].beside, "flash" \in call[d].out
        PROVE  "flash" \notin call'[c].out /\ apart' = FlashGap
    <3>1. apart = FlashGap /\ S!Others(d, "flash") = {}
      BY <1>3, <2>2, <2>3
    <3>2. ~S!Out(c, "flash")
      BY <3>1 DEF S!Others
    <3>3. apart' \in 0..FlashGap /\ apart' >= apart
      BY <3>2 DEF ApartFor
    <3>4. QED
      BY <1>4, <3>1, <3>3, GapsAreGaps, IdleIsFine
  <2>4. ASSUME NEW d \in Slots \ {c}, ~call'[d].beside, "note" \in call[d].out
        PROVE  quiet' + 1 >= SafetyGap
    <3>1. ~stim /\ quiet + 1 >= SafetyGap
      BY <1>3, <2>2, <2>4 DEF S!Out
    <3>2. quiet' >= quiet
      BY <3>1
    <3>3. \A n, m \in Nat : n + 1 >= SafetyGap /\ m >= n => m + 1 >= SafetyGap
      BY GapsAreGaps
    <3>4. QED
      BY <3>1, <3>2, <3>3
  <2>5. QED
    BY <1>3, <1>4, <2>3, <2>4, AloneKept, IdleIsFine
<1>7. QED
  BY <1>5, <1>6 DEF CallsKept, Fine

\* A call goes on with fewer questions out.
LEMMA KeepsKeeps ==
  ASSUME CallsKept, GapKept, NEW c \in Slots, NEW was, Ready(c, was), was.kind = "recall",
         S!Keeps(c, was), daemon' = daemon, ApartFor(c, was.out), quiet' = quiet
  PROVE  CallsKept'
<1> DEFINE now == IF was.out = {} THEN S!Idle ELSE was
<1>1. /\ was \in CallType /\ was.beside = call[c].beside /\ Fine(call[c])
      /\ was.kind = call[c].kind
  BY DEF Ready, CallsKept
<1>2. call' = [call EXCEPT ![c] = now]
  BY DEF S!Keeps
<1>3. Fine(now) /\ now \in CallType /\ now.out \in {{}, was.out} /\ "note" \notin now.out
      /\ (now.out = {} \/ now.beside = call[c].beside)
  <2>1. CASE was.out = {}
    BY <2>1, IdleIsFine
  <2>2. CASE was.out # {}
    BY <1>1, <2>2 DEF Ready, Fine
  <2>3. QED
    BY <2>1, <2>2
<1> HIDE DEF now
<1>4. call'[c] = now /\ \A d \in Slots \ {c} : call'[d] = call[d]
  BY <1>2 DEF CallsKept
<1>5. call' \in [Slots -> CallType] /\ \A d \in Slots : Fine(call'[d])
  BY <1>2, <1>3, <1>4 DEF CallsKept
<1>6. AloneIsInTime'
  <2>1. apart \in 0..FlashGap
    BY DEF GapKept
  <2>2. \A d \in Slots : ~call[d].beside =>
          /\ "flash" \in call[d].out => apart = FlashGap /\ S!Others(d, "flash") = {}
          /\ "note" \in call[d].out => quiet + 1 >= SafetyGap
    BY DEF CallsKept, AloneIsInTime, S!Out
  <2>3. ~call'[c].beside /\ "flash" \in call'[c].out => apart' = FlashGap /\ S!Others(c, "flash") = {}
    <3>1. SUFFICES ASSUME ~now.beside, "flash" \in now.out
                   PROVE  apart' = FlashGap /\ S!Others(c, "flash") = {}
      BY <1>4
    <3>2. "flash" \in was.out /\ "flash" \in call[c].out /\ ~call[c].beside
      BY <1>3, <3>1 DEF Ready, S!Out
    <3>3. apart' \in 0..FlashGap /\ apart' >= apart
      BY <3>2 DEF ApartFor
    <3>4. QED
      BY <2>1, <2>2, <3>2, <3>3, GapsAreGaps
  <2>4. ASSUME NEW d \in Slots \ {c}, ~call'[d].beside, "flash" \in call[d].out
        PROVE  "flash" \notin call'[c].out /\ apart' = FlashGap
    <3>1. apart = FlashGap /\ S!Others(d, "flash") = {}
      BY <1>4, <2>2, <2>4
    <3>2. ~S!Out(c, "flash")
      BY <3>1 DEF S!Others
    <3>3. apart' \in 0..FlashGap /\ apart' >= apart
      BY <3>2 DEF ApartFor
    <3>4. "flash" \notin now.out
      BY <1>3, <3>2 DEF Ready
    <3>5. QED
      BY <1>4, <3>1, <3>3, <3>4, GapsAreGaps
  <2>5. QED
    BY <1>3, <1>4, <2>2, <2>3, <2>4, AloneKept
<1>7. QED
  BY <1>5, <1>6 DEF CallsKept, Fine

\* A turn's end, or the note it waits for, keeps the silence counted.
LEMMA NetKeeps ==
  ASSUME CallsKept, SilenceKept, GapKept, ~mute, NEW c \in Slots, NEW was, Ready(c, was),
         was.kind \in {"tool", "pre_turn"}, S!Net(c, was), daemon' = daemon,
         apart' \in 0..FlashGap, apart' >= apart \/ S!Out(c, "flash"), 
         ~was.stim => apart' >= apart
  PROVE  CallsKept' /\ SilenceKept' /\ ~mute'
<1>1. /\ quiet \in 0..SafetyGap /\ turns \in 0..SafetyGap /\ quiet <= turns
      /\ (quiet < turns => quiet + 1 >= SafetyGap) /\ SafetyGap \in Nat \ {0}
  BY GapsAreGaps DEF SilenceKept
<1>2. /\ S!UpTo(turns + 1, SafetyGap) = IF turns + 1 <= SafetyGap THEN turns + 1 ELSE SafetyGap
      /\ S!UpTo(quiet + 1, SafetyGap) = IF quiet + 1 <= SafetyGap THEN quiet + 1 ELSE SafetyGap
  BY <1>1, UpToIsLeast
<1>3. ApartFor(c, {})
  BY DEF ApartFor
<1>a. ASSUME quiet' \in Nat, NEW b \in BOOLEAN, S!Ends(c, b), quiet' >= quiet \/ b
      PROVE  CallsKept'
  BY <1>1, <1>3, <1>a, EndsKeeps
<1>4. CASE was.stim /\ turns' = 0 /\ S!Answers(c, TRUE, TRUE)
  <2>1. quiet' = 0 /\ S!Ends(c, TRUE) /\ ~mute'
    BY <1>4 DEF S!Answers
  <2>2. SilenceKept'
    BY <1>1, <1>4, <2>1 DEF SilenceKept
  <2>3. CallsKept'
    BY <1>a, <2>1
  <2>4. QED
    BY <2>1, <2>2, <2>3
<1>5. CASE /\ ~was.stim /\ turns' = S!UpTo(turns + 1, SafetyGap)
           /\ turns + 1 < SafetyGap /\ S!Answers(c, FALSE, FALSE)
  <2>1. quiet' = S!UpTo(quiet + 1, SafetyGap) /\ S!Ends(c, FALSE)
        /\ (mute' <=> mute \/ quiet + 1 >= SafetyGap)
    BY <1>5 DEF S!Answers
  <2>2. ~mute' /\ quiet = turns
    BY <1>1, <1>5, <2>1
  <2>3. SilenceKept' /\ quiet' \in Nat /\ quiet' >= quiet
    BY <1>1, <1>2, <1>5, <2>1, <2>2 DEF SilenceKept
  <2>4. CallsKept'
    BY <1>a, <2>1, <2>3
  <2>5. QED
    BY <2>2, <2>3, <2>4
<1>6. CASE /\ ~was.stim /\ turns' = S!UpTo(turns + 1, SafetyGap)
           /\ turns + 1 >= SafetyGap /\ S!Answers(c, FALSE, TRUE)
  <2>1. quiet' = quiet /\ S!Ends(c, FALSE) /\ ~mute'
    BY <1>6 DEF S!Answers
  <2>2. SilenceKept' /\ quiet' \in Nat /\ quiet' >= quiet
    BY <1>1, <1>2, <1>6, <2>1 DEF SilenceKept
  <2>3. CallsKept'
    BY <1>a, <2>1, <2>2
  <2>4. QED
    BY <2>1, <2>2, <2>3
<1>7. CASE /\ ~was.stim /\ turns' = S!UpTo(turns + 1, SafetyGap)
           /\ turns + 1 >= SafetyGap /\ S!Waits(c, was, "note") /\ UNCHANGED <<quiet, mute>>
  <2>1. quiet + 1 >= SafetyGap
    BY <1>1, <1>7
  <2>2. SilenceKept'
    BY <1>1, <1>2, <1>7, <2>1 DEF SilenceKept
  <2>3. CallsKept'
    BY <1>7, <2>1, WaitsKeeps
  <2>4. QED
    BY <1>7, <2>2, <2>3
<1>8. QED
  BY <1>4, <1>5, <1>6, <1>7 DEF S!Net

\* What follows a flash, or its absence.
LEMMA AfterFlashKeeps ==
  ASSUME CallsKept, SilenceKept, GapKept, ~mute, NEW c \in Slots, NEW was, Ready(c, was),
         was.kind \in {"pre_turn", "pulse", "recall"}, NEW flash \in BOOLEAN,
         S!AfterFlash(c, was, flash), daemon' = daemon, apart' \in 0..FlashGap,
         apart' >= apart \/ (flash /\ S!Out(c, "flash") /\ "flash" \notin was.out)
  PROVE  CallsKept' /\ SilenceKept' /\ ~mute'
<1>1. /\ was \in CallType /\ was.stim \in BOOLEAN /\ quiet \in Nat
      /\ ApartFor(c, {}) /\ ApartFor(c, was.out)
  BY DEF Ready, CallType, ApartFor, SilenceKept
<1>2. CASE was.kind = "pre_turn" /\ S!Net(c, [was EXCEPT !.stim = @ \/ flash])
  <2> DEFINE b == was.stim \/ flash
             now == [was EXCEPT !.stim = b]
  <2>1. S!Net(c, now)
    BY <1>2
  <2>2. b \in BOOLEAN /\ (flash => b)
    BY <1>1
  <2> HIDE DEF b
  <2>3. now \in CallType /\ now.kind = was.kind /\ now.out = was.out /\ now.beside = was.beside
        /\ now.stim = b
    BY <1>1, <2>2 DEF CallType
  <2> HIDE DEF now
  <2>4. Ready(c, now)
    BY <2>3 DEF Ready
  <2>5. apart' >= apart \/ S!Out(c, "flash")
    OBVIOUS
  <2>6. ~now.stim => apart' >= apart
    BY <2>2, <2>3
  <2>7. QED
    BY <1>2, <2>1, <2>3, <2>4, <2>5, <2>6, NetKeeps
<1>3. CASE /\ was.kind = "pulse" /\ UNCHANGED mute
           /\ \E fits \in S!Fit(flash) : S!Ends(c, was.stim \/ fits) /\ S!StimSeen(was.stim \/ fits)
  <2>1. PICK fits \in S!Fit(flash) : S!Ends(c, was.stim \/ fits) /\ S!StimSeen(was.stim \/ fits)
    BY <1>3
  <2> DEFINE b == was.stim \/ fits
  <2>2. b \in BOOLEAN /\ S!Ends(c, b) /\ S!StimSeen(b)
    BY <1>1, <2>1
  <2> HIDE DEF b
  <2>3. SilenceKept' /\ quiet' \in Nat /\ (quiet' = quiet \/ b)
    BY <1>1, <2>2, GapsAreGaps DEF S!StimSeen, SilenceKept
  <2>4. quiet' >= quiet \/ b
    BY <1>1, <2>3
  <2>5. CallsKept'
    BY <1>1, <2>2, <2>3, <2>4, EndsKeeps
  <2>6. QED
    BY <1>3, <2>3, <2>5
<1>4. CASE was.kind = "recall" /\ S!Keeps(c, was) /\ UNCHANGED <<turns, quiet, mute>>
  <2>1. CallsKept'
    BY <1>1, <1>4, KeepsKeeps
  <2>2. QED
    BY <1>4, <2>1 DEF SilenceKept
<1>5. QED
  BY <1>2, <1>3, <1>4 DEF S!AfterFlash

\* A shift of topic: the gap grows, and a flash is asked for when it is wide enough.
LEMMA MaybeFlashKeeps ==
  ASSUME CallsKept, SilenceKept, GapKept, ~mute, NEW c \in Slots, NEW was, Ready(c, was),
         was.kind \in {"pre_turn", "pulse", "recall"}, S!MaybeFlash(c, was), daemon' = daemon
  PROVE  /\ CallsKept' /\ SilenceKept' /\ GapKept' /\ ~mute'
         /\ last' \in Topics \cup {"none"}
<1>1. /\ since \in 0..FlashGap /\ apart \in 0..FlashGap /\ since <= apart
      /\ FlashGap \in Nat \ {0}
  BY GapsAreGaps DEF GapKept
<1>2. /\ since' = IF since + 1 <= FlashGap THEN since + 1 ELSE FlashGap
      /\ apart' = IF apart + 1 <= FlashGap THEN apart + 1 ELSE FlashGap
  BY <1>1, UpToIsLeast DEF S!MaybeFlash
<1>3. GapKept' /\ apart' \in 0..FlashGap /\ apart' >= apart
      /\ (since + 1 >= FlashGap => apart' = FlashGap)
  BY <1>1, <1>2 DEF GapKept
<1>4. last' \in Topics \cup {"none"}
  BY DEF S!MaybeFlash, Ready, CallType
<1>5. CASE since + 1 >= FlashGap /\ S!Waits(c, was, "flash") /\ UNCHANGED <<turns, quiet, mute>>
  <2>1. CallsKept'
    BY <1>3, <1>5, WaitsKeeps
  <2>2. QED
    BY <1>3, <1>4, <1>5, <2>1 DEF SilenceKept
<1>6. CASE S!AfterFlash(c, was, FALSE)
  BY <1>3, <1>4, <1>6, AfterFlashKeeps
<1>7. QED
  BY <1>5, <1>6 DEF S!MaybeFlash

\* A session is told what it was not: its memory holds.
LEMMA TellsKeeps ==
  ASSUME MemoryKept, NEW ses \in S!Who, NEW x, S!Tells(ses, x),
         \/ /\ x \in Sections \ shown[ses] /\ shown' = [shown EXCEPT ![ses] = @ \cup {x}]
            /\ UNCHANGED flashed
         \/ /\ x \in Dormant \ flashed[ses] /\ flashed' = [flashed EXCEPT ![ses] = @ \cup {x}]
            /\ UNCHANGED shown,
         held' = held
  PROVE  MemoryKept'
<1>1. /\ told[ses] \subseteq shown[ses] \cup flashed[ses] /\ x \notin told[ses]
      /\ x \in Sections \cup Dormant
  BY SectionsAreNoConcepts DEF MemoryKept, ToldIsRemembered
<1>2. ~twice' /\ told' = [told EXCEPT ![ses] = @ \cup {x}]
  BY <1>1 DEF S!Tells, MemoryKept
<1>3. /\ shown' \in [S!Who -> SUBSET Sections] /\ flashed' \in [S!Who -> SUBSET Dormant]
      /\ told' \in [S!Who -> SUBSET (Sections \cup Dormant)]
  BY <1>1, <1>2 DEF MemoryKept
<1>4. ASSUME NEW s \in S!Who PROVE told'[s] \subseteq shown'[s] \cup flashed'[s]
  <2>1. CASE s = ses
    BY <1>1, <1>2, <2>1 DEF MemoryKept
  <2>2. CASE s # ses
    BY <1>2, <2>2 DEF MemoryKept, ToldIsRemembered
  <2>3. QED
    BY <2>1, <2>2
<1>5. QED
  BY <1>2, <1>3, <1>4 DEF MemoryKept, TableKept, ToldIsRemembered

\* What calls are kept by, when c begins and others are cut at most.
LEMMA BegunKept ==
  ASSUME CallsKept, NEW c \in Slots, NEW now \in CallType, Fine(now),
         "flash" \notin now.out, "note" \notin now.out,
         call' = [d \in Slots |-> IF d = c THEN now ELSE call'[d]],
         \A d \in Slots \ {c} : call'[d] = call[d] \/ call'[d] = S!Cut(call[d]),
         UNCHANGED <<daemon, apart, quiet>>
  PROVE  CallsKept'
<1>1. ASSUME NEW d \in Slots \ {c}
      PROVE  /\ call'[d] \in CallType /\ Fine(call'[d]) /\ call'[d].out = call[d].out
             /\ call'[d].beside = call[d].beside
  <2>1. call[d] \in CallType /\ Fine(call[d])
    BY DEF CallsKept
  <2>2. CASE call'[d] = call[d]
    BY <2>1, <2>2
  <2>3. CASE call'[d] = [call[d] EXCEPT !.cut = TRUE]
    <3>1. /\ call'[d] \in CallType /\ call'[d].out = call[d].out
          /\ call'[d].beside = call[d].beside /\ call'[d].kind = call[d].kind
      BY <2>1, <2>3 DEF CallType
    <3>2. QED
      BY <2>1, <3>1 DEF Fine
  <2>4. QED
    BY <2>2, <2>3 DEF S!Cut
<1>2. call'[c] = now /\ call' \in [Slots -> CallType] /\ \A d \in Slots : Fine(call'[d])
  BY <1>1
<1>3. \A d \in Slots : ~call[d].beside =>
        /\ "flash" \in call[d].out => apart = FlashGap /\ S!Others(d, "flash") = {}
        /\ "note" \in call[d].out => quiet + 1 >= SafetyGap
  BY DEF CallsKept, AloneIsInTime, S!Out
<1>4. AloneIsInTime'
  BY <1>1, <1>2, <1>3, AloneKept
<1>5. QED
  BY <1>2, <1>4 DEF CallsKept, Fine

\* A call begins.
LEMMA StartStep ==
  ASSUME StimuliInv, NEW c \in Slots, S!Start(c)
  PROVE  StimuliInv'
<1>1. CallsKept /\ SilenceKept /\ GapKept /\ MemoryKept /\ Calm
  BY StimuliByPart DEF Calm
<1>2. UNCHANGED <<daemon, last, since, turns, held, shown, flashed, alive, quiet, apart, told,
                  hasty, twice, mute>> /\ ~daemon
  BY DEF S!Start, S!ghosts
<1>3. PICK t \in Topics, k \in {"tool", "pre_turn", "pulse"} :
        call' = [call EXCEPT ![c] = [S!Idle EXCEPT !.kind = k, !.topic = t, !.out = {"work"}]]
  BY DEF S!Start
<1>4. PICK now : now = [S!Idle EXCEPT !.kind = k, !.topic = t, !.out = {"work"}]
  OBVIOUS
<1>5. now \in CallType /\ Fine(now) /\ "flash" \notin now.out /\ "note" \notin now.out
  BY <1>2, <1>4, IdleIsFine DEF CallType, Fine
<1>6. /\ call' = [d \in Slots |-> IF d = c THEN now ELSE call'[d]]
      /\ \A d \in Slots \ {c} : call'[d] = call[d]
  BY <1>1, <1>3, <1>4 DEF CallsKept
<1>7. CallsKept'
  BY <1>1, <1>2, <1>5, <1>6, BegunKept
<1>8. SilenceKept' /\ GapKept' /\ MemoryKept' /\ Calm'
  BY <1>1, <1>2 DEF SilenceKept, GapKept, MemoryKept, TableKept, ToldIsRemembered, Calm
<1>9. QED
  BY <1>7, <1>8, StimuliByPartNext

\* A hook's recall begins, of a session in the table, or new to it; a full table is
\* emptied for it, and the calls in flight are cut.
LEMMA RecallStep ==
  ASSUME StimuliInv, NEW c \in Slots, S!Recall(c)
  PROVE  StimuliInv'
<1>1. CallsKept /\ SilenceKept /\ GapKept /\ MemoryKept /\ Calm
  BY StimuliByPart DEF Calm
<1>2. UNCHANGED <<daemon, last, since, turns, alive, quiet, apart, hasty, twice, mute>> /\ daemon
  BY DEF S!Recall
<1>3. PICK t \in Topics, s \in Sessions :
        LET now == [S!Idle EXCEPT !.kind = "recall", !.ses = s, !.topic = t,
                                  !.out = {"kb", "extract"}]
        IN \/ /\ s \in held \/ S!Cardinality(held) < SessionsMax
              /\ call' = [call EXCEPT ![c] = now]
              /\ held' = held \cup {s} /\ UNCHANGED <<shown, flashed, told>>
           \/ /\ call' = [d \in Slots |-> IF d = c THEN now ELSE S!Cut(call[d])]
              /\ S!Forget(s)
  BY DEF S!Recall
<1>4. PICK now : now = [S!Idle EXCEPT !.kind = "recall", !.ses = s, !.topic = t,
                                      !.out = {"kb", "extract"}]
  OBVIOUS
<1>5. now \in CallType /\ Fine(now) /\ "flash" \notin now.out /\ "note" \notin now.out
  BY <1>2, <1>4, IdleIsFine DEF CallType, Fine, S!Who
<1>6. CASE /\ s \in held \/ S!Cardinality(held) < SessionsMax
           /\ call' = [call EXCEPT ![c] = now]
           /\ held' = held \cup {s} /\ UNCHANGED <<shown, flashed, told>>
  <2>1. /\ call' = [d \in Slots |-> IF d = c THEN now ELSE call'[d]]
        /\ \A d \in Slots \ {c} : call'[d] = call[d]
    BY <1>1, <1>6 DEF CallsKept
  <2>2. CallsKept'
    BY <1>1, <1>2, <1>5, <2>1, BegunKept
  <2>3. TableKept'
    <3>1. held \subseteq Sessions /\ IsFiniteSet(held) /\ Cardinality(held) <= SessionsMax
      BY <1>1 DEF MemoryKept, TableKept
    <3>2. CASE s \in held
      BY <1>6, <3>1, <3>2 DEF TableKept
    <3>3. CASE s \notin held
      <4>1. Cardinality(held) < SessionsMax
        BY <1>6, <3>3, CountsAlike
      <4>2. IsFiniteSet(held \cup {s}) /\ Cardinality(held \cup {s}) = Cardinality(held) + 1
        BY <3>1, <3>3, FS_AddElement
      <4>3. Cardinality(held) \in Nat
        BY <3>1, FS_CardinalityType
      <4>4. QED
        BY <1>6, <3>1, <4>1, <4>2, <4>3, SessionsAreHeld DEF TableKept
    <3>4. QED
      BY <3>2, <3>3
  <2>4. MemoryKept'
    BY <1>1, <1>2, <1>6, <2>3 DEF MemoryKept, ToldIsRemembered
  <2>5. SilenceKept' /\ GapKept' /\ Calm'
    BY <1>1, <1>2 DEF SilenceKept, GapKept, Calm
  <2>6. QED
    BY <2>2, <2>4, <2>5, StimuliByPartNext
<1>7. CASE /\ call' = [d \in Slots |-> IF d = c THEN now ELSE S!Cut(call[d])]
           /\ S!Forget(s)
  <2>1. /\ call' = [d \in Slots |-> IF d = c THEN now ELSE call'[d]]
        /\ \A d \in Slots \ {c} : call'[d] = S!Cut(call[d])
    BY <1>7
  <2>2. CallsKept'
    BY <1>1, <1>2, <1>5, <2>1, BegunKept
  <2>3. /\ held' = {s} /\ shown' = [w \in S!Who |-> {}] /\ flashed' = [w \in S!Who |-> {}]
        /\ told' = [w \in S!Who |-> {}]
    BY <1>7 DEF S!Forget
  <2>4. TableKept'
    BY <2>3, FS_Singleton, SessionsAreHeld DEF TableKept
  <2>5. MemoryKept'
    BY <1>1, <1>2, <2>3, <2>4 DEF MemoryKept, ToldIsRemembered
  <2>6. SilenceKept' /\ GapKept' /\ Calm'
    BY <1>1, <1>2 DEF SilenceKept, GapKept, Calm
  <2>7. QED
    BY <2>2, <2>5, <2>6, StimuliByPartNext
<1>8. QED
  BY <1>3, <1>4, <1>6, <1>7

\* Who is Ready: a call that goes on without one of its questions.
LEMMA WithoutIsReady ==
  ASSUME CallsKept, NEW c \in Slots, NEW q, S!Out(c, q), NEW stim \in BOOLEAN
  PROVE  /\ Ready(c, [call[c] EXCEPT !.out = @ \ {q}])
         /\ Ready(c, [call[c] EXCEPT !.out = @ \ {q}, !.stim = stim])
         /\ q = "extract" => Ready(c, [call[c] EXCEPT !.out = (@ \ {q}) \cup {"work"}])
<1>1. /\ Fine(call[c]) /\ call[c] \in CallType /\ q \in call[c].out /\ call[c].kind # "none"
  BY DEF CallsKept, Fine, S!Out
<1>2. IF call[c].kind = "recall" THEN call[c].out \subseteq {"work", "kb", "extract", "flash"}
      ELSE call[c].out = {q}
  BY <1>1 DEF Fine, CallType
<1>3. q = "extract" => call[c].kind = "recall"
  BY <1>1 DEF Fine, CallType
<1>4. QED
  BY <1>1, <1>2, <1>3 DEF Ready, CallType, S!Out

\* The topic of a recall is extracted; bridges are confirmed.
LEMMA ShiftStep ==
  ASSUME StimuliInv, NEW c \in Slots, S!Extract(c) \/ S!Confirm(c)
  PROVE  StimuliInv'
<1>1. CallsKept /\ SilenceKept /\ GapKept /\ MemoryKept /\ Calm
  BY StimuliByPart DEF Calm
<1>2. PICK was : /\ Ready(c, was) /\ S!MaybeFlash(c, was)
                 /\ was.kind \in {"pre_turn", "pulse", "recall"}
  <2>1. Fine(call[c]) /\ call[c] \in CallType
    BY <1>1 DEF CallsKept
  <2>2. CASE S!Extract(c)
    <3>1. /\ Ready(c, [call[c] EXCEPT !.out = (@ \ {"extract"}) \cup {"work"}])
          /\ S!MaybeFlash(c, [call[c] EXCEPT !.out = (@ \ {"extract"}) \cup {"work"}])
          /\ [call[c] EXCEPT !.out = (@ \ {"extract"}) \cup {"work"}].kind = call[c].kind
      BY <1>1, <2>1, <2>2, WithoutIsReady DEF S!Extract, CallType
    <3>2. call[c].kind = "recall"
      BY <2>1, <2>2 DEF S!Extract, S!Out, Fine, CallType
    <3>3. QED
      BY <3>1, <3>2
  <2>3. CASE S!Confirm(c)
    <3>1. /\ Ready(c, [call[c] EXCEPT !.out = @ \ {"confirm"}])
          /\ S!MaybeFlash(c, [call[c] EXCEPT !.out = @ \ {"confirm"}])
          /\ [call[c] EXCEPT !.out = @ \ {"confirm"}].kind = call[c].kind
      BY <1>1, <2>1, <2>3, WithoutIsReady DEF S!Confirm, CallType
    <3>2. call[c].kind \in {"pre_turn", "pulse"}
      BY <2>1, <2>3 DEF S!Confirm, S!Out, Fine, CallType
    <3>3. QED
      BY <3>1, <3>2
  <2>4. QED
    BY <2>2, <2>3
<1>3. UNCHANGED <<daemon, held, shown, flashed, alive, told, hasty, twice>>
  BY DEF S!Extract, S!Confirm
<1>4. CallsKept' /\ SilenceKept' /\ GapKept' /\ ~mute' /\ last' \in Topics \cup {"none"}
  BY <1>1, <1>2, <1>3, MaybeFlashKeeps DEF Calm
<1>5. MemoryKept' /\ Calm'
  BY <1>1, <1>3, <1>4 DEF MemoryKept, TableKept, ToldIsRemembered, Calm
<1>6. QED
  BY <1>4, <1>5, StimuliByPartNext

\* The worker answers.
LEMMA WorkStep ==
  ASSUME StimuliInv, NEW c \in Slots, S!Work(c)
  PROVE  StimuliInv'
<1>1. CallsKept /\ SilenceKept /\ GapKept /\ MemoryKept /\ Calm
  BY StimuliByPart DEF Calm
<1>2. PICK stim \in BOOLEAN :
        LET was == [call[c] EXCEPT !.out = @ \ {"work"}, !.stim = stim] IN
          \/ was.kind = "tool" /\ S!Net(c, was)
          \/ was.kind \in {"pre_turn", "pulse"} /\ S!Waits(c, was, "kb")
             /\ UNCHANGED <<turns, quiet, mute>>
          \/ was.kind = "recall" /\ S!Keeps(c, was) /\ UNCHANGED <<turns, quiet, mute>>
  BY DEF S!Work
<1> DEFINE was == [call[c] EXCEPT !.out = @ \ {"work"}, !.stim = stim]
<1>3. Ready(c, was)
  BY <1>1, WithoutIsReady DEF S!Work
<1> HIDE DEF was
<1>4. UNCHANGED <<daemon, last, since, held, shown, flashed, alive, apart, told, hasty, twice>>
  BY DEF S!Work
<1>5. apart' \in 0..FlashGap /\ apart' >= apart
  BY <1>1, <1>4, GapsAreGaps DEF GapKept
<1>6. CallsKept' /\ SilenceKept' /\ ~mute'
  <2>1. CASE was.kind = "tool" /\ S!Net(c, was)
    BY <1>1, <1>3, <1>4, <1>5, <2>1, NetKeeps DEF Calm
  <2>2. CASE was.kind \in {"pre_turn", "pulse"} /\ S!Waits(c, was, "kb")
             /\ UNCHANGED <<turns, quiet, mute>>
    <3>1. CallsKept'
      BY <1>1, <1>3, <1>4, <1>5, <2>2, WaitsKeeps
    <3>2. QED
      BY <1>1, <2>2, <3>1 DEF SilenceKept, Calm
  <2>3. CASE was.kind = "recall" /\ S!Keeps(c, was) /\ UNCHANGED <<turns, quiet, mute>>
    <3>1. CallsKept'
      BY <1>1, <1>3, <1>4, <1>5, <2>3, KeepsKeeps DEF ApartFor
    <3>2. QED
      BY <1>1, <2>3, <3>1 DEF SilenceKept, Calm
  <2>4. QED
    BY <1>2, <2>1, <2>2, <2>3 DEF was
<1>7. GapKept' /\ MemoryKept' /\ Calm'
  BY <1>1, <1>4, <1>6 DEF GapKept, MemoryKept, TableKept, ToldIsRemembered, Calm
<1>8. QED
  BY <1>6, <1>7, StimuliByPartNext

\* The knowledge base answers.
LEMMA KnowledgeStep ==
  ASSUME StimuliInv, NEW c \in Slots, S!Knowledge(c)
  PROVE  StimuliInv'
<1>1. CallsKept /\ SilenceKept /\ GapKept /\ MemoryKept /\ Calm
  BY StimuliByPart DEF Calm
<1> DEFINE was == [call[c] EXCEPT !.out = @ \ {"kb"}]
<1>2. /\ UNCHANGED <<daemon, held, flashed, alive, hasty>>
      /\ UNCHANGED <<shown, told, twice>> \/ S!Pointed(c)
      /\ IF was.kind = "recall"
         THEN S!Keeps(c, was) /\ UNCHANGED <<last, since, turns, quiet, apart, mute>>
         ELSE \/ S!Waits(c, was, "confirm") /\ UNCHANGED <<last, since, turns, quiet, apart, mute>>
              \/ S!MaybeFlash(c, was)
  BY DEF S!Knowledge
<1>3. /\ Ready(c, was) /\ call[c] \in CallType /\ was.kind \in {"pre_turn", "pulse", "recall"}
  <2>1. TRUE \in BOOLEAN /\ S!Out(c, "kb") /\ call[c] \in CallType /\ Fine(call[c])
    BY <1>1 DEF S!Knowledge, CallsKept
  <2>2. Ready(c, was)
    BY <1>1, <2>1, WithoutIsReady
  <2>3. was.kind = call[c].kind
    BY <2>1 DEF CallType
  <2>4. call[c].kind \in {"pre_turn", "pulse", "recall"}
    BY <2>1 DEF Fine, CallType, S!Out
  <2>5. QED
    BY <2>1, <2>2, <2>3, <2>4
<1> HIDE DEF was
<1>4. MemoryKept'
  <2>1. CASE UNCHANGED <<shown, told, twice>>
    BY <1>1, <1>2, <2>1 DEF MemoryKept, TableKept, ToldIsRemembered
  <2>2. ASSUME NEW s \in Sections \ shown[call[c].ses],
               shown' = [shown EXCEPT ![call[c].ses] = @ \cup {s}], S!Tells(call[c].ses, s)
        PROVE  MemoryKept'
    <3>1. call[c].ses \in S!Who
      BY <1>3 DEF CallType
    <3>2. QED
      BY <1>1, <1>2, <2>2, <3>1, TellsKeeps
  <2>3. QED
    BY <1>2, <2>1, <2>2 DEF S!Pointed
<1>5. /\ CallsKept' /\ SilenceKept' /\ GapKept' /\ ~mute' /\ last' \in Topics \cup {"none"}
  <2>1. CASE S!MaybeFlash(c, was)
    BY <1>1, <1>2, <1>3, <2>1, MaybeFlashKeeps DEF Calm
  <2>2. ASSUME UNCHANGED <<last, since, turns, quiet, apart, mute>>,
               \/ was.kind = "recall" /\ S!Keeps(c, was)
               \/ was.kind # "recall" /\ S!Waits(c, was, "confirm")
        PROVE  /\ CallsKept' /\ SilenceKept' /\ GapKept' /\ ~mute'
               /\ last' \in Topics \cup {"none"}
    <3>1. apart' \in 0..FlashGap /\ apart' >= apart
      BY <1>1, <2>2, GapsAreGaps DEF GapKept
    <3>2. CallsKept'
      BY <1>1, <1>2, <1>3, <2>2, <3>1, WaitsKeeps, KeepsKeeps DEF ApartFor
    <3>3. QED
      BY <1>1, <2>2, <3>2 DEF SilenceKept, GapKept, Calm
  <2>3. QED
    BY <1>2, <2>1, <2>2
<1>6. Calm'
  BY <1>1, <1>2, <1>5 DEF Calm
<1>7. QED
  BY <1>4, <1>5, <1>6, StimuliByPartNext

\* Neuron answers, with a dormant concept or without.
LEMMA FlashStep ==
  ASSUME StimuliInv, NEW c \in Slots, S!Flash(c)
  PROVE  StimuliInv'
<1>1. CallsKept /\ SilenceKept /\ GapKept /\ MemoryKept /\ Calm
  BY StimuliByPart DEF Calm
<1> DEFINE was == [call[c] EXCEPT !.out = @ \ {"flash"}]
<1>2. /\ UNCHANGED <<daemon, last, held, shown, alive>> /\ S!Out(c, "flash")
      /\ \/ /\ UNCHANGED <<since, flashed, apart, told, hasty, twice>>
            /\ S!AfterFlash(c, was, FALSE)
         \/ /\ \/ S!CutTells(was)
               \/ \E k \in Dormant \ flashed[was.ses] :
                    S!Remember(was.ses, k) /\ S!Tells(was.ses, k)
            /\ since' = 0 /\ apart' = 0
            /\ hasty' = (hasty \/ (apart < FlashGap /\ ~was.beside))
            /\ S!AfterFlash(c, was, TRUE)
  BY DEF S!Flash
<1>3. /\ Ready(c, was) /\ was.kind \in {"pre_turn", "pulse", "recall"} /\ was.ses \in S!Who
      /\ "flash" \notin was.out /\ was.beside = call[c].beside
  <2>1. call[c] \in CallType /\ Fine(call[c]) /\ TRUE \in BOOLEAN
    BY <1>1 DEF CallsKept
  <2>2. Ready(c, was)
    BY <1>1, <1>2, <2>1, WithoutIsReady
  <2>3. was.kind = call[c].kind /\ was.ses \in S!Who /\ "flash" \notin was.out
        /\ was.beside = call[c].beside
    BY <2>1 DEF CallType
  <2>4. call[c].kind \in {"pre_turn", "pulse", "recall"}
    BY <1>2, <2>1 DEF Fine, CallType, S!Out
  <2>5. QED
    BY <2>2, <2>3, <2>4
<1> HIDE DEF was
<1>4. ASSUME NEW b \in BOOLEAN, S!AfterFlash(c, was, b), apart' \in 0..FlashGap,
             apart' >= apart \/ b
      PROVE  CallsKept' /\ SilenceKept' /\ ~mute'
  BY <1>1, <1>2, <1>3, <1>4, AfterFlashKeeps DEF Calm
<1>5. CASE UNCHANGED <<since, flashed, apart, told, hasty, twice>> /\ S!AfterFlash(c, was, FALSE)
  <2>1. apart' \in 0..FlashGap /\ apart' >= apart
    BY <1>1, <1>5, GapsAreGaps DEF GapKept
  <2>2. CallsKept' /\ SilenceKept' /\ ~mute'
    BY <1>4, <1>5, <2>1
  <2>3. GapKept' /\ MemoryKept' /\ Calm'
    BY <1>1, <1>2, <1>5, <2>2 DEF GapKept, MemoryKept, TableKept, ToldIsRemembered, Calm
  <2>4. QED
    BY <2>2, <2>3, StimuliByPartNext
<1>6. ASSUME \/ S!CutTells(was)
             \/ \E k \in Dormant \ flashed[was.ses] :
                  S!Remember(was.ses, k) /\ S!Tells(was.ses, k),
             since' = 0, apart' = 0, hasty' = (hasty \/ (apart < FlashGap /\ ~was.beside)),
             S!AfterFlash(c, was, TRUE)
      PROVE  StimuliInv'
  <2>1. apart' \in 0..FlashGap
    BY <1>6, GapsAreGaps
  <2>2. CallsKept' /\ SilenceKept' /\ ~mute'
    BY <1>4, <1>6, <2>1
  <2>3. GapKept'
    BY <1>6, GapsAreGaps DEF GapKept
  <2>4. MemoryKept'
    <3>1. CASE S!CutTells(was)
      BY <1>1, <1>2, <3>1 DEF S!CutTells, MemoryKept, TableKept, ToldIsRemembered
    <3>2. ASSUME NEW k \in Dormant \ flashed[was.ses], S!Remember(was.ses, k),
                 S!Tells(was.ses, k)
          PROVE  MemoryKept'
      BY <1>1, <1>2, <1>3, <3>2, TellsKeeps DEF S!Remember
    <3>3. QED
      BY <1>6, <3>1, <3>2
  <2>5. ~was.beside => apart = FlashGap
    BY <1>1, <1>2, <1>3 DEF CallsKept, AloneIsInTime
  <2>6. ~hasty'
    <3>1. ~(apart < FlashGap /\ ~was.beside)
      BY <2>5, GapsAreGaps
    <3>2. QED
      BY <1>1, <1>6, <3>1 DEF Calm
  <2>7. Calm'
    BY <1>1, <1>2, <2>2, <2>6 DEF Calm
  <2>8. QED
    BY <2>2, <2>3, <2>4, <2>7, StimuliByPartNext
<1>7. QED
  BY <1>2, <1>5, <1>6

\* Neuron answers, with a note or without: the turn ends.
LEMMA NoteStep ==
  ASSUME StimuliInv, NEW c \in Slots, S!Note(c)
  PROVE  StimuliInv'
<1>1. CallsKept /\ SilenceKept /\ GapKept /\ MemoryKept /\ Calm
  BY StimuliByPart DEF Calm
<1>2. /\ S!Out(c, "note")
      /\ \/ S!NoteGiven /\ S!Answers(c, TRUE, TRUE)
            /\ hasty' = (hasty \/ (quiet + 1 < SafetyGap /\ ~call[c].beside))
         \/ S!Answers(c, FALSE, TRUE) /\ UNCHANGED <<turns, hasty>>
      /\ UNCHANGED <<daemon, last, since, held, shown, flashed, alive, apart, told, twice>>
  BY DEF S!Note
<1>3. /\ apart \in 0..FlashGap /\ quiet \in 0..SafetyGap /\ turns \in 0..SafetyGap
      /\ FlashGap \in Nat /\ SafetyGap \in Nat /\ ApartFor(c, {})
  BY <1>1, <1>2, GapsAreGaps DEF GapKept, SilenceKept, ApartFor
<1>4. ASSUME quiet' \in Nat, NEW b \in BOOLEAN, S!Ends(c, b), quiet' >= quiet \/ b
      PROVE  CallsKept'
  BY <1>1, <1>2, <1>3, <1>4, EndsKeeps
<1>5. GapKept' /\ MemoryKept'
  BY <1>1, <1>2 DEF GapKept, MemoryKept, TableKept, ToldIsRemembered
<1>6. CallsKept' /\ SilenceKept' /\ ~hasty' /\ ~mute'
  <2>1. CASE S!NoteGiven /\ S!Answers(c, TRUE, TRUE)
             /\ hasty' = (hasty \/ (quiet + 1 < SafetyGap /\ ~call[c].beside))
    <3>1. turns' = 0 /\ quiet' = 0 /\ S!Ends(c, TRUE) /\ (mute' <=> mute)
      BY <2>1 DEF S!NoteGiven, S!Answers
    <3>2. CallsKept'
      BY <1>4, <3>1
    <3>3. SilenceKept'
      BY <1>3, <3>1 DEF SilenceKept
    <3>4. ~call[c].beside => quiet + 1 >= SafetyGap
      BY <1>1, <1>2 DEF CallsKept, AloneIsInTime
    <3>5. ~(quiet + 1 < SafetyGap /\ ~call[c].beside)
      BY <1>3, <3>4
    <3>6. ~hasty'
      BY <1>1, <2>1, <3>5 DEF Calm
    <3>7. QED
      BY <1>1, <3>1, <3>2, <3>3, <3>6 DEF Calm
  <2>2. CASE S!Answers(c, FALSE, TRUE) /\ UNCHANGED <<turns, hasty>>
    <3>1. quiet' = quiet /\ S!Ends(c, FALSE) /\ (mute' <=> mute)
      BY <2>2 DEF S!Answers
    <3>2. quiet' \in Nat /\ quiet' >= quiet
      BY <1>3, <3>1
    <3>3. CallsKept' /\ SilenceKept'
      BY <1>1, <1>4, <2>2, <3>1, <3>2 DEF SilenceKept
    <3>4. QED
      BY <1>1, <2>2, <3>1, <3>3 DEF Calm
  <2>3. QED
    BY <1>2, <2>1, <2>2
<1>7. Calm'
  BY <1>1, <1>2, <1>6 DEF Calm
<1>8. QED
  BY <1>5, <1>6, <1>7, StimuliByPartNext

\* The stimuli keep their invariant.
LEMMA StimuliStep ==
  ASSUME StimuliInv, S!Next \/ UNCHANGED stimuli
  PROVE  StimuliInv'
<1>1. CASE S!NeuronChanges \/ UNCHANGED stimuli
  <2>1. UNCHANGED <<daemon, call, last, since, turns, held, shown, flashed, quiet, apart, told,
                    hasty, twice, mute>>
    BY <1>1 DEF S!NeuronChanges, S!ghosts, stimuli
  <2>2. CallsKept /\ SilenceKept /\ GapKept /\ MemoryKept /\ Calm
    BY StimuliByPart DEF Calm
  <2>3. CallsKept'
    BY <2>1, <2>2 DEF CallsKept, Fine, AloneIsInTime, S!Out, S!Others
  <2>4. SilenceKept' /\ GapKept' /\ MemoryKept' /\ Calm'
    BY <2>1, <2>2 DEF SilenceKept, GapKept, MemoryKept, TableKept, ToldIsRemembered, Calm
  <2>5. QED
    BY <2>3, <2>4, StimuliByPartNext
<1>2. QED
  BY <1>1, StartStep, RecallStep, ShiftStep, WorkStep, KnowledgeStep, FlashStep, NoteStep
     DEF S!Next

-----------------------------------------------------------------------------
(* Bridges: what may be read of an operation.                              *)
-----------------------------------------------------------------------------

\* Each stage has its own fields.
LEMMA StageTells ==
  ASSUME NEW o \in R!Stages
  PROVE  /\ o.at \in {"look", "read", "fade", "count", "import", "retire", "bump", "insert",
                      "reinforce", "confirm", "idle", "prune", "take", "compare", "merge"}
         /\ o.at = "look" => o \in [at : {"look"}, key : Pairs]
         /\ o.at = "read" => o \in [at : {"read"}, match : Matches, limit : Limits]
         /\ o.at \in {"count", "retire"} => o \in [at : {"count", "retire"}, then : R!Starts]
         /\ o.at = "import" => o \in [at : {"import"}, then : R!Starts, todo : SUBSET Pairs]
         /\ o.at \in {"bump", "insert"} => o \in [at : {"bump", "insert"}, key : Pairs]
         /\ o.at = "reinforce" =>
              o \in [at : {"reinforce"}, todo : SUBSET Pairs, seen : R!Tables, just : SUBSET Pairs]
         /\ o.at = "confirm" => o \in [at : {"confirm"}, just : SUBSET Pairs]
         /\ o.at \in {"idle", "prune"} => o \in [at : {"idle", "prune"}]
         /\ o.at = "take" => o \in [at : {"take"}, dst : R!Stores]
         /\ o.at = "compare" =>
              o \in [at : {"compare"}, dst : R!Stores, rows : R!Tables, todo : SUBSET Pairs]
         /\ o.at = "merge" =>
              o \in [at : {"merge"}, dst : R!Stores, rows : R!Tables, key : Pairs,
                     seen : R!Rows \cup {Missing}, todo : SUBSET Pairs]
  BY DEF R!Stages, R!Starts

\* The rows, and that none is Missing.
LEMMA RowTells ==
  ASSUME NEW r
  PROVE  /\ r \in R!Rows <=> r = [weight |-> r.weight, idle |-> r.idle, promoted |-> r.promoted]
                             /\ r.weight \in Int /\ r.weight <= OldMax
                             /\ r.idle \in BOOLEAN /\ r.promoted \in BOOLEAN
         /\ r \in R!Rows => r # Missing
<1>1. R!Rows \subseteq [weight : Int, idle : BOOLEAN, promoted : BOOLEAN]
  BY DEF R!Rows
<1>2. r \in R!Rows => r # Missing
  BY <1>1, MissingIsNoRow
<1>3. QED
  BY <1>2 DEF R!Rows

\* How much is due is a number.
LEMMA DueCounts ==
  ASSUME NEW k
  PROVE  IsFiniteSet(Due(k)) /\ Cardinality(Due(k)) \in Nat
<1>1. Due(k) \subseteq Users
  BY DEF Due
<1>2. QED
  BY <1>1, FiniteThings, FS_Subset, FS_CardinalityType

\* And so it is after a step.
LEMMA DueCountsNext ==
  ASSUME NEW k
  PROVE  IsFiniteSet(Due(k)') /\ Cardinality(Due(k)') \in Nat
<1>1. Due(k)' \subseteq Users
  BY DEF Due
<1>2. QED
  BY <1>1, FiniteThings, FS_Subset, FS_CardinalityType

\* Process p turns to o.
Turns(p, o) == \A q \in Users : using'[q] = IF q = p THEN o ELSE using[q]

\* What is due grows and shrinks by what p owes.
LEMMA DueMoves ==
  ASSUME NEW p \in Users, NEW o, Turns(p, o), NEW k
  PROVE  /\ (Owes(using[p], k) <=> Owes(o, k)) =>
              Cardinality(Due(k)') = Cardinality(Due(k))
         /\ Owes(using[p], k) /\ ~Owes(o, k) =>
              Cardinality(Due(k)') = Cardinality(Due(k)) - 1
         /\ ~Owes(using[p], k) /\ Owes(o, k) =>
              Cardinality(Due(k)') = Cardinality(Due(k)) + 1
<1>1. Due(k)' = {q \in Users : Owes(using'[q], k)}
  BY DEF Due, Owes
<1>2. Due(k)' = {q \in Users : IF q = p THEN Owes(o, k) ELSE Owes(using[q], k)}
  BY <1>1 DEF Turns
<1>3. IsFiniteSet(Due(k)) /\ Cardinality(Due(k)) \in Nat
  BY DueCounts
<1>4. ASSUME Owes(using[p], k) <=> Owes(o, k)
      PROVE  Cardinality(Due(k)') = Cardinality(Due(k))
  <2>1. Due(k)' = Due(k)
    BY <1>2, <1>4 DEF Due
  <2>2. QED
    BY <2>1
<1>5. ASSUME Owes(using[p], k), ~Owes(o, k)
      PROVE  Cardinality(Due(k)') = Cardinality(Due(k)) - 1
  <2>1. Due(k)' = Due(k) \ {p} /\ p \in Due(k)
    BY <1>2, <1>5 DEF Due
  <2>2. QED
    BY <1>3, <2>1, FS_RemoveElement
<1>6. ASSUME ~Owes(using[p], k), Owes(o, k)
      PROVE  Cardinality(Due(k)') = Cardinality(Due(k)) + 1
  <2>1. Due(k)' = Due(k) \cup {p} /\ p \notin Due(k)
    BY <1>2, <1>6 DEF Due
  <2>2. QED
    BY <1>3, <2>1, FS_AddElement
<1>7. QED
  BY <1>4, <1>5, <1>6

\* The types of what is counted, now and after the step.
Counted == asked \in [Pairs -> Nat] /\ lost \in Nat /\ fails \in Nat

\* A step on which no credit goes down, nothing told is forgotten, no failure either.
Onward ==
  /\ \A k \in Pairs : Credit(k)' >= Credit(k) /\ (Told(k) => Told(k)')
  /\ worn \subseteq worn' /\ legacy' \subseteq legacy /\ lost' >= lost /\ fails' >= fails

\* What was fair stays so, and what was hale.
LEMMA FairStays ==
  ASSUME Counted, Counted', Onward, NEW k \in Pairs, NEW r \in R!Rows \cup {Missing}
  PROVE  (Fair(k, r) => Fair(k, r)') /\ (Hale(k, r) => Hale(k, r)')
<1>1. Credit(k) \in Int /\ Credit(k)' \in Int
  <2>1. Cardinality(Due(k)) \in Nat /\ Cardinality(Due(k)') \in Nat
    BY DueCounts, DueCountsNext
  <2>2. QED
    BY <2>1 DEF Counted, Credit
<1>2. r # Missing => r.weight \in Int
  BY RowTells
<1>3. /\ Credit(k)' >= Credit(k) /\ (Told(k) => Told(k)')
      /\ worn \subseteq worn' /\ lost' >= lost /\ fails' >= fails
  BY DEF Onward
<1>4. Fair(k, r) => Fair(k, r)'
  <2> HIDE DEF Credit, Told
  <2>1. QED
    BY <1>1, <1>2, <1>3 DEF Fair
<1>5. Hale(k, r) => Hale(k, r)'
  <2>1. (lost > 0 => lost' > 0) /\ (fails > 0 => fails' > 0)
    BY <1>3 DEF Counted
  <2>2. k \in worn => k \in worn'
    BY <1>3
  <2>3. QED
    BY <2>1, <2>2 DEF Hale
<1>6. QED
  BY <1>4, <1>5

-----------------------------------------------------------------------------
(* Bridges: steps that go on.                                              *)
-----------------------------------------------------------------------------

\* p turns to o: what it asks for is counted before it owes it, and what it was
\* to tell it has told, or is still to tell, or somebody excused it.
Advances(p, o) ==
  /\ Turns(p, o)
  /\ \A k \in Pairs :
       /\ asked'[k] >= asked[k]
       /\ Owes(o, k) /\ ~Owes(using[p], k) => asked'[k] >= asked[k] + 1
       /\ Tells(using[p], k) => k \in reported' \cup excused' \/ Tells(o, k)
  /\ reported \subseteq reported' /\ excused \subseteq excused' /\ worn \subseteq worn'
  /\ legacy' \subseteq legacy /\ lost' = lost /\ fails' >= fails

\* What p has paid is credited.
Paid(k) == Credit(k)' >= Credit(k) + 1

\* Then no credit goes down, and what p has paid is credited.
LEMMA AdvancesOnward ==
  ASSUME Counted, Counted', NEW p \in Users, NEW o, Advances(p, o)
  PROVE  Onward /\ \A k \in Pairs : Owes(using[p], k) /\ ~Owes(o, k) => Paid(k)
<1>1. Turns(p, o) /\ lost' = lost
  BY DEF Advances
<1>2. ASSUME NEW k \in Pairs
      PROVE  /\ Credit(k)' >= Credit(k)
             /\ Owes(using[p], k) /\ ~Owes(o, k) => Paid(k)
  <2>1. Cardinality(Due(k)) \in Int /\ Cardinality(Due(k)') \in Int
    BY DueCounts, DueCountsNext
  <2>2. /\ asked[k] \in Int /\ asked'[k] \in Int /\ lost \in Int
        /\ asked'[k] >= asked[k]
        /\ Owes(o, k) /\ ~Owes(using[p], k) => asked'[k] >= asked[k] + 1
    BY <1>2 DEF Counted, Advances
  <2>3. /\ (Owes(using[p], k) <=> Owes(o, k)) =>
              Cardinality(Due(k)') = Cardinality(Due(k))
        /\ Owes(using[p], k) /\ ~Owes(o, k) =>
              Cardinality(Due(k)') = Cardinality(Due(k)) - 1
        /\ ~Owes(using[p], k) /\ Owes(o, k) =>
              Cardinality(Due(k)') = Cardinality(Due(k)) + 1
    BY <1>1, DueMoves
  <2>4. /\ Credit(k) = asked[k] + lost - Cardinality(Due(k))
        /\ Credit(k)' = asked'[k] + lost - Cardinality(Due(k)')
    BY <1>1 DEF Credit
  <2> HIDE DEF Credit, Due, Owes
  <2>5. QED
    BY <2>1, <2>2, <2>3, <2>4 DEF Paid
<1>3. ASSUME NEW k \in Pairs, Told(k) PROVE Told(k)'
  <2>1. CASE k \in reported \cup excused
    BY <2>1 DEF Told, Advances
  <2>2. ASSUME NEW q \in Users, Tells(using[q], k) PROVE Told(k)'
    <3>1. CASE q = p
      <4>1. k \in reported' \cup excused' \/ Tells(using'[p], k)
        BY <1>1, <2>2, <3>1 DEF Advances, Turns
      <4>2. QED
        BY <4>1 DEF Told, Tells
    <3>2. CASE q # p
      <4>1. Tells(using'[q], k)
        BY <1>1, <2>2, <3>2 DEF Turns
      <4>2. QED
        BY <4>1 DEF Told, Tells
    <3>3. QED
      BY <3>1, <3>2
  <2>3. QED
    BY <1>3, <2>1, <2>2 DEF Told
<1>4. worn \subseteq worn' /\ legacy' \subseteq legacy /\ lost' >= lost /\ fails' >= fails
  BY DEF Advances, Counted
<1>5. QED
  BY <1>2, <1>3, <1>4 DEF Onward

\* A statement is sent again.
LEMMA ResentOnward ==
  ASSUME Counted, UNCHANGED <<using, legacy, asked, reported, worn, fails>>,
         excused \subseteq excused', lost' = lost + 1
  PROVE  Onward /\ Counted' /\ \A k \in Pairs : Paid(k)
<1>1. Counted'
  BY DEF Counted
<1>2. ASSUME NEW k \in Pairs
      PROVE  Credit(k)' >= Credit(k) /\ Paid(k)
  <2>1. Cardinality(Due(k)) \in Int
    BY DueCounts
  <2>2. asked[k] \in Int /\ lost \in Int
    BY DEF Counted
  <2>3. Due(k)' = Due(k)
    BY DEF Due, Owes
  <2>4. Credit(k)' = Credit(k) + 1 /\ Credit(k) \in Int
    BY <2>1, <2>2, <2>3 DEF Credit
  <2> HIDE DEF Credit
  <2>5. QED
    BY <2>4 DEF Paid
<1>3. ASSUME NEW k \in Pairs, Told(k) PROVE Told(k)'
  BY <1>3 DEF Told, Tells
<1>4. worn \subseteq worn' /\ legacy' \subseteq legacy /\ lost' >= lost /\ fails' >= fails
  BY DEF Counted
<1>5. QED
  BY <1>1, <1>2, <1>3, <1>4 DEF Onward

-----------------------------------------------------------------------------
(* Bridges: what a step has to show.                                       *)
-----------------------------------------------------------------------------

\* The invariant's types.
LEMMA TypesCount ==
  ASSUME R!TypeOK
  PROVE  /\ Counted /\ using \in [Users -> R!Stages] /\ home \in R!Stores
         /\ \A s \in R!Stores, k \in Pairs : row[s][k] \in R!Rows \cup {Missing}
         /\ Daemon \in Users
  BY BridgeRules DEF R!TypeOK, Counted, R!Tables

\* An entry of the old file is a row.
LEMMA OldTells ==
  ASSUME NEW k \in Pairs
  PROVE  /\ OldRows[k] \in R!Rows /\ OldRows[k] # Missing
         /\ OldRows[k].weight \in Nat /\ OldRows[k].weight >= 1
<1>1. PICK r \in [weight : 1..OldMax, idle : BOOLEAN, promoted : BOOLEAN] : r = OldRows[k]
  BY BridgeRules
<1>2. /\ r = [weight |-> r.weight, idle |-> r.idle, promoted |-> r.promoted]
      /\ r.weight \in 1..OldMax /\ r.idle \in BOOLEAN /\ r.promoted \in BOOLEAN
  OBVIOUS
<1>3. r.weight \in Nat /\ r.weight \in Int /\ r.weight <= OldMax /\ r.weight >= 1
  BY <1>2, BridgeRules
<1>4. r \in R!Rows /\ r # Missing
  BY <1>2, <1>3, RowTells
<1>5. QED
  BY <1>1, <1>3, <1>4

\* One that is in order stays so.
LEMMA OldStays ==
  ASSUME Counted, Counted', Onward, NEW k \in Pairs, OldKept(k)
  PROVE  OldKept(k)'
<1>1. PICK r \in R!Rows \cup {Missing} : r = OldRows[k]
  BY OldTells
<1>2. Fair(k, r)'
  BY <1>1, FairStays DEF OldKept
<1>3. QED
  BY <1>1, <1>2 DEF OldKept, Fair

\* What an operation has read stays in order.
LEMMA ReadStays ==
  ASSUME Counted, Counted', Onward, NEW p, NEW o \in R!Stages, ReadKept(p, o)
  PROVE  ReadKept(p, o)'
<1>1. ASSUME o.at \in {"compare", "merge"}
      PROVE  /\ \A k \in Pairs : o.rows[k] \in R!Rows \cup {Missing}
             /\ o.at = "merge" => o.key \in Pairs /\ o.seen \in R!Rows \cup {Missing}
  BY <1>1, StageTells DEF R!Tables
<1>2. ASSUME o.at \in {"compare", "merge"}, NEW k \in Pairs
      PROVE  Fair(k, o.rows[k])' /\ Hale(k, o.rows[k])'
  <2>1. Fair(k, o.rows[k]) /\ Hale(k, o.rows[k]) /\ o.rows[k] \in R!Rows \cup {Missing}
    BY <1>1, <1>2 DEF ReadKept
  <2>2. QED
    BY <2>1, FairStays
<1>3. ASSUME o.at = "merge" PROVE Fair(o.key, o.seen)'
  <2>1. Fair(o.key, o.seen) /\ o.key \in Pairs /\ o.seen \in R!Rows \cup {Missing}
    BY <1>1, <1>3 DEF ReadKept
  <2>2. QED
    BY <2>1, FairStays
<1>4. ASSUME o.at = "import", NEW k \in o.todo PROVE OldKept(k)'
  <2>1. k \in Pairs /\ OldKept(k)
    BY <1>4, StageTells DEF ReadKept
  <2>2. QED
    BY <2>1, OldStays
<1>5. QED
  BY <1>2, <1>3, <1>4 DEF ReadKept

\* The daemon goes on to prune, or something has failed.
PruningGoesOn == Pruning => Pruning' \/ lost' > 0 \/ fails' > 0

\* A row that is left alone stays in order.
LEMMA RowStays ==
  ASSUME Counted, Counted', Onward, PruningGoesOn, home' = home,
         NEW s, NEW k \in Pairs, NEW r \in R!Rows \cup {Missing}, RowKept(s, k, r)
  PROVE  RowKept(s, k, r)'
<1>1. Fair(k, r)' /\ (Hale(k, r) => Hale(k, r)')
  BY FairStays DEF RowKept
<1>2. lost' > 0 \/ fails' > 0 => Hale(k, r)'
  BY DEF Hale
<1>3. QED
  BY <1>1, <1>2 DEF RowKept, PruningGoesOn

\* Process p turns to o, which is a stage of its own.
LEMMA TurnIs ==
  ASSUME R!TypeOK, NEW p \in Users, NEW o \in R!Stages, R!Goto(p, o),
         o.at \in {"fade", "prune"} => p = Daemon
  PROVE  /\ Turns(p, o) /\ using' \in [Users -> R!Stages]
         /\ \A q \in Users : using'[q].at \in {"fade", "prune"} => q = Daemon
         /\ using[p].at # "prune" => (Pruning => Pruning')
<1>1. using \in [Users -> R!Stages] /\ Daemon \in Users
  BY TypesCount
<1>2. Turns(p, o) /\ using' \in [Users -> R!Stages]
  BY <1>1 DEF R!Goto, Turns
<1>3. QED
  BY <1>1, <1>2 DEF Turns, R!TypeOK, Pruning

\* The parts of the invariant, after a step that goes on.
LEMMA BridgesNext ==
  ASSUME BridgesInv, R!TypeOK', Onward,
         \A s \in R!Stores, k \in Pairs : RowKept(s, k, row[s][k])',
         \A p \in Users : ReadKept(p, using[p])'
  PROVE  BridgesInv'
<1>1. Counted /\ Counted'
  <2>1. R!TypeOK' => Counted'
    BY TypesCount, PTL
  <2>2. QED
    BY <2>1, TypesCount DEF BridgesInv
<1>2. ASSUME NEW k \in Pairs PROVE (Credit(k) >= 1)'
  <2>1. Cardinality(Due(k)) \in Int /\ Cardinality(Due(k)') \in Int
    BY DueCounts, DueCountsNext
  <2>2. Credit(k) \in Int /\ Credit(k)' \in Int
    BY <1>1, <2>1 DEF Credit, Counted
  <2>3. Credit(k) >= 1 /\ Credit(k)' >= Credit(k)
    BY DEF BridgesInv, Onward
  <2> HIDE DEF Credit
  <2>4. QED
    BY <2>2, <2>3
<1>3. ASSUME NEW k \in legacy' PROVE OldKept(k)'
  <2>1. k \in Pairs /\ OldKept(k)
    BY <1>3 DEF BridgesInv, Onward, R!TypeOK
  <2>2. QED
    BY <1>1, <2>1, OldStays
<1>4. QED
  BY <1>2, <1>3 DEF BridgesInv

\* The types, without the rows' and the operations'; and the operations'.
RestTyped ==
  /\ home \in R!Stores /\ legacy \subseteq Pairs
  /\ reported \subseteq Pairs /\ excused \subseteq Pairs /\ worn \subseteq Pairs
  /\ asked \in [Pairs -> Nat]
  /\ ops \in 0..MaxOps /\ lost \in Nat /\ fails \in Nat /\ lost + fails <= MaxFaults
UsingTyped ==
  /\ using \in [Users -> R!Stages]
  /\ \A q \in Users : using[q].at \in {"fade", "prune"} => q = Daemon

\* Together with the rows' they are all of them.
LEMMA TypeIs == R!TypeOK <=> RestTyped /\ UsingTyped /\ row \in [R!Stores -> R!Tables]
  BY DEF R!TypeOK, RestTyped, UsingTyped

\* And so after a step.
LEMMA TypeWillBe == R!TypeOK' <=> (RestTyped /\ UsingTyped /\ row \in [R!Stores -> R!Tables])'
  BY TypeIs, PTL

\* A row that is left alone, in a step that goes on.
LEMMA SameRow ==
  ASSUME BridgesInv, Counted', Onward, PruningGoesOn, home' = home,
         NEW s \in R!Stores, NEW k \in Pairs, row'[s][k] = row[s][k]
  PROVE  RowKept(s, k, row[s][k])'
<1>1. Counted /\ row[s][k] \in R!Rows \cup {Missing}
  BY TypesCount DEF BridgesInv
<1>2. PICK r \in R!Rows \cup {Missing} : r = row[s][k]
  BY <1>1
<1>3. RowKept(s, k, r)
  BY <1>2 DEF BridgesInv
<1>4. RowKept(s, k, r)'
  BY <1>1, <1>3, RowStays
<1>5. QED
  BY <1>2, <1>4 DEF RowKept, Fair, Hale

\* p goes on with o, or the statement is sent again.
GoesOnWith(p, o) ==
  \/ R!Goto(p, o) /\ Advances(p, o) /\ ReadKept(p, o)'
  \/ /\ UNCHANGED <<using, legacy, asked, reported, worn, fails>>
     /\ excused \subseteq excused' /\ lost' = lost + 1

\* What holds after it, but for the rows it writes.
LEMMA WriteGoesOn ==
  ASSUME BridgesInv, RestTyped', row' \in [R!Stores -> R!Tables],
         NEW p \in Users, NEW o \in R!Stages, o.at \in {"fade", "prune"} => p = Daemon,
         GoesOnWith(p, o)
  PROVE  /\ R!TypeOK' /\ Counted' /\ Onward
         /\ \A q \in Users : ReadKept(q, using[q])'
         /\ \A k \in Pairs : Owes(using[p], k) /\ ~Owes(o, k) => Paid(k)
         /\ using[p].at # "prune" => PruningGoesOn
<1>1. R!TypeOK /\ Counted /\ using \in [Users -> R!Stages] /\ UsingTyped
  BY TypesCount, TypeIs DEF BridgesInv
<1>2. CASE R!Goto(p, o) /\ Advances(p, o) /\ ReadKept(p, o)'
  <2>1. UsingTyped' /\ (using[p].at # "prune" => (Pruning => Pruning'))
    BY <1>1, <1>2, TurnIs DEF UsingTyped
  <2>2. R!TypeOK' /\ Counted'
    <3>1. R!TypeOK' => Counted'
      BY TypesCount, PTL
    <3>2. QED
      BY <2>1, <3>1, TypeWillBe
  <2>3. Onward /\ \A k \in Pairs : Owes(using[p], k) /\ ~Owes(o, k) => Paid(k)
    BY <1>1, <1>2, <2>2, AdvancesOnward
  <2>4. ASSUME NEW q \in Users PROVE ReadKept(q, using[q])'
    <3>1. CASE q = p
      <4>1. using'[q] = o
        BY <1>2, <3>1 DEF Advances, Turns
      <4>2. QED
        BY <1>2, <3>1, <4>1 DEF ReadKept, OldKept, Fair, Hale
    <3>2. CASE q # p
      <4>1. using'[q] = using[q] /\ using[q] \in R!Stages
        BY <1>1, <1>2, <3>2 DEF Advances, Turns
      <4>2. PICK x \in R!Stages : x = using[q]
        BY <4>1
      <4>3. ReadKept(q, x)
        BY <4>2 DEF BridgesInv
      <4>4. ReadKept(q, x)'
        BY <1>1, <2>2, <2>3, <4>3, ReadStays
      <4>5. QED
        BY <4>1, <4>2, <4>4 DEF ReadKept, OldKept, Fair, Hale
    <3>3. QED
      BY <3>1, <3>2
  <2>5. QED
    BY <2>1, <2>2, <2>3, <2>4 DEF PruningGoesOn
<1>3. CASE /\ UNCHANGED <<using, legacy, asked, reported, worn, fails>>
           /\ excused \subseteq excused' /\ lost' = lost + 1
  <2>1. Onward /\ Counted' /\ \A k \in Pairs : Paid(k)
    BY <1>1, <1>3, ResentOnward
  <2>2. UsingTyped'
    BY <1>1, <1>3 DEF UsingTyped
  <2>3. R!TypeOK'
    BY <2>2, TypeWillBe
  <2>4. ASSUME NEW q \in Users PROVE ReadKept(q, using[q])'
    <3>1. PICK x \in R!Stages : x = using[q]
      BY <1>1
    <3>2. ReadKept(q, x)
      BY <3>1 DEF BridgesInv
    <3>3. ReadKept(q, x)'
      BY <1>1, <2>1, <3>2, ReadStays
    <3>4. QED
      BY <1>3, <3>1, <3>3 DEF ReadKept, OldKept, Fair, Hale
  <2>5. QED
    BY <1>3, <2>1, <2>3, <2>4 DEF PruningGoesOn, Pruning
<1>4. QED
  BY <1>2, <1>3 DEF GoesOnWith

\* A turn of p that leaves the rows alone.
LEMMA QuietTurn ==
  ASSUME BridgesInv, RestTyped', NEW p \in Users, NEW o \in R!Stages, R!Goto(p, o),
         o.at \in {"fade", "prune"} => p = Daemon,
         using[p].at # "prune" \/ fails' > 0, Advances(p, o), ReadKept(p, o)',
         UNCHANGED <<home, row>>
  PROVE  BridgesInv'
<1>1. row' \in [R!Stores -> R!Tables] /\ GoesOnWith(p, o)
  BY DEF BridgesInv, R!TypeOK, GoesOnWith
<1>2. /\ R!TypeOK' /\ Counted' /\ Onward
      /\ \A q \in Users : ReadKept(q, using[q])'
      /\ using[p].at # "prune" => PruningGoesOn
  BY <1>1, WriteGoesOn
<1>3. PruningGoesOn
  BY <1>2 DEF PruningGoesOn
<1>4. \A s \in R!Stores, k \in Pairs : RowKept(s, k, row[s][k])'
  BY <1>2, <1>3, SameRow
<1>5. QED
  BY <1>2, <1>4, BridgesNext

-----------------------------------------------------------------------------
(* Bridges: the steps that leave the rows alone.                           *)
-----------------------------------------------------------------------------

\* A turn to a stage that owes nothing, from one that has nothing to tell.
LEMMA PlainAdvance ==
  ASSUME Counted, NEW p \in Users, NEW o, Turns(p, o),
         o.at \notin {"bump", "insert", "reinforce"},
         using[p].at \notin {"reinforce", "confirm"},
         UNCHANGED <<asked, reported, excused, lost, fails>>, worn \subseteq worn',
         legacy' \subseteq legacy
  PROVE  Advances(p, o)
<1>1. \A k \in Pairs : asked'[k] >= asked[k] /\ ~Owes(o, k) /\ ~Tells(using[p], k)
  BY DEF Counted, Owes, Tells
<1>2. lost' = lost /\ fails' >= fails
  BY DEF Counted
<1>3. QED
  BY <1>1, <1>2 DEF Advances

\* Such a turn, with all but the stage and the counters left alone.
LEMMA PlainTurn ==
  ASSUME BridgesInv, NEW p \in Users, NEW o \in R!Stages, R!Goto(p, o),
         o.at \in {"fade", "prune"} => p = Daemon,
         o.at \notin {"bump", "insert", "reinforce"},
         using[p].at \notin {"reinforce", "confirm", "prune"}, ReadKept(p, o)',
         UNCHANGED <<home, row, asked, reported, excused, lost, fails>>,
         legacy' \subseteq legacy, worn \subseteq worn', worn' \subseteq Pairs,
         ops' \in 0..MaxOps
  PROVE  BridgesInv'
<1>1. R!TypeOK /\ Counted /\ RestTyped
  BY TypesCount, TypeIs DEF BridgesInv
<1>2. Turns(p, o)
  BY <1>1, TurnIs
<1>3. Advances(p, o)
  BY <1>1, <1>2, PlainAdvance
<1>4. RestTyped'
  BY <1>1 DEF RestTyped
<1>5. QED
  BY <1>3, <1>4, QuietTurn

\* _connect, at the beginning of each operation.
LEMMA BeginStep ==
  ASSUME BridgesInv, NEW p \in Users, NEW o \in R!Starts, R!Begin(p, o),
         o.at = "fade" => p = Daemon
  PROVE  BridgesInv'
<1>1. PICK n : n = IF legacy = {} THEN o ELSE [at |-> "count", then |-> o]
  OBVIOUS
<1>2. /\ using[p].at = "idle" /\ ops < MaxOps /\ ops' = ops + 1 /\ R!Goto(p, n)
      /\ UNCHANGED <<home, row, legacy, reported, asked, excused, worn, lost, fails>>
  BY <1>1 DEF R!Begin, R!Idle
<1>3. n \in R!Stages
  BY <1>1 DEF R!Stages
<1>4. o.at \in {"look", "read", "fade"}
  BY DEF R!Starts
<1>5. /\ n.at \in {"look", "read", "fade", "count"} /\ (n.at = "fade" => p = Daemon)
      /\ n.at = "count" => n.then = o
  BY <1>1, <1>4
<1>6. ReadKept(p, n)'
  BY <1>5 DEF ReadKept
<1>7. ops' \in 0..MaxOps /\ worn \subseteq Pairs
  BY <1>2, Bounds DEF BridgesInv, R!TypeOK
<1>8. QED
  BY <1>2, <1>3, <1>5, <1>6, <1>7, PlainTurn

\* A transfer begins.
LEMMA TransferStep ==
  ASSUME BridgesInv, NEW p \in Users, NEW s \in R!Stores, R!Transfer(p, s)
  PROVE  BridgesInv'
<1>1. PICK n : n = [at |-> "take", dst |-> s]
  OBVIOUS
<1>2. /\ using[p].at = "idle" /\ ops < MaxOps /\ ops' = ops + 1 /\ R!Goto(p, n)
      /\ UNCHANGED <<home, row, legacy, reported, asked, excused, worn, lost, fails>>
  BY <1>1 DEF R!Transfer, R!Idle
<1>3. n \in R!Stages /\ n.at = "take"
  BY <1>1 DEF R!Stages
<1>4. ReadKept(p, n)'
  BY <1>3 DEF ReadKept
<1>5. ops' \in 0..MaxOps /\ worn \subseteq Pairs
  BY <1>2, Bounds DEF BridgesInv, R!TypeOK
<1>6. QED
  BY <1>2, <1>3, <1>4, <1>5, PlainTurn

\* The migration's SELECT COUNT and its rename.
LEMMA CountStep ==
  ASSUME BridgesInv, NEW p \in Users, R!Count(p) \/ R!Retire(p)
  PROVE  BridgesInv'
<1>1. /\ R!TypeOK /\ Counted /\ using[p] \in R!Stages /\ ReadKept(p, using[p])
      /\ worn \subseteq Pairs /\ legacy \subseteq Pairs /\ ops \in 0..MaxOps
  BY TypesCount DEF BridgesInv, R!TypeOK
<1>2. using[p].at \in {"count", "retire"}
  BY DEF R!Count, R!Retire
<1>3. using[p] \in [at : {"count", "retire"}, then : R!Starts]
  BY <1>1, <1>2, StageTells
<1>4. PICK n : n \in {using[p].then, [at |-> "import", then |-> using[p].then, todo |-> legacy]}
               /\ R!Goto(p, n)
  BY DEF R!Count, R!Retire
<1>5. /\ UNCHANGED <<home, row, reported, asked, excused, worn, ops, lost, fails>>
      /\ legacy' \subseteq legacy
  BY DEF R!Count, R!Retire
<1>6. CASE n = using[p].then
  <2>1. n \in R!Starts /\ n.at \in {"look", "read", "fade"}
    BY <1>3, <1>6 DEF R!Starts
  <2>2. n \in R!Stages /\ (n.at = "fade" => p = Daemon)
    BY <1>1, <1>2, <1>6, <2>1 DEF R!Stages, ReadKept
  <2>3. ReadKept(p, n)'
    BY <2>1 DEF ReadKept
  <2>4. QED
    BY <1>1, <1>2, <1>4, <1>5, <2>1, <2>2, <2>3, PlainTurn
<1>7. CASE n = [at |-> "import", then |-> using[p].then, todo |-> legacy]
  <2>1. /\ n \in [at : {"import"}, then : R!Starts, todo : SUBSET Pairs]
        /\ n.at = "import" /\ n.then = using[p].then /\ n.todo = legacy
    BY <1>1, <1>3, <1>7
  <2>2. n \in R!Stages
    BY <2>1 DEF R!Stages
  <2>3. ReadKept(p, n)
    BY <1>1, <1>2, <2>1 DEF ReadKept, BridgesInv
  <2>4. Turns(p, n)
    BY <1>1, <1>4, <2>1, <2>2, TurnIs
  <2>5. Advances(p, n)
    BY <1>1, <1>2, <1>5, <2>1, <2>4, PlainAdvance
  <2>6. Counted'
    BY <1>1, <1>5 DEF Counted
  <2>7. Onward
    BY <1>1, <2>5, <2>6, AdvancesOnward
  <2>8. ReadKept(p, n)'
    BY <1>1, <2>2, <2>3, <2>6, <2>7, ReadStays
  <2>9. QED
    BY <1>1, <1>2, <1>4, <1>5, <2>1, <2>2, <2>8, PlainTurn
<1>8. QED
  BY <1>4, <1>6, <1>7

-----------------------------------------------------------------------------
(* Bridges: the steps that write rows.                                     *)
-----------------------------------------------------------------------------

\* Each row is left alone by such a step, or in order after it.
LEMMA WriteKeeps ==
  ASSUME BridgesInv, RestTyped', row' \in [R!Stores -> R!Tables],
         NEW p \in Users, NEW o \in R!Stages, o.at \in {"fade", "prune"} => p = Daemon,
         GoesOnWith(p, o), home' = home, using[p].at # "prune",
         \A s \in R!Stores, k \in Pairs : row'[s][k] = row[s][k] \/ RowKept(s, k, row[s][k])'
  PROVE  BridgesInv'
<1>1. /\ R!TypeOK' /\ Counted' /\ Onward /\ PruningGoesOn
      /\ \A q \in Users : ReadKept(q, using[q])'
  BY WriteGoesOn
<1>2. \A s \in R!Stores, k \in Pairs : RowKept(s, k, row[s][k])'
  BY <1>1, SameRow
<1>3. QED
  BY <1>1, <1>2, BridgesNext

\* add_bridge's SELECT: the use is asked for, and owed.
LEMMA LookStep ==
  ASSUME BridgesInv, NEW p \in Users, R!Look(p)
  PROVE  BridgesInv'
<1>1. R!TypeOK /\ Counted /\ RestTyped /\ using[p] \in R!Stages /\ using[p].at = "look"
  BY TypesCount, TypeIs DEF BridgesInv, R!Look
<1>2. using[p] \in [at : {"look"}, key : Pairs]
  BY <1>1, StageTells
<1>3. PICK k : k = using[p].key
  OBVIOUS
<1>4. PICK n : n = [using[p] EXCEPT !.at = IF R!Has(row[home], k) THEN "bump" ELSE "insert"]
  OBVIOUS
<1>5. /\ asked' = [asked EXCEPT ![k] = @ + 1] /\ R!Goto(p, n)
      /\ UNCHANGED <<home, row, legacy, reported, excused, worn, ops, lost, fails>>
  BY <1>3, <1>4 DEF R!Look
<1>6. n \in [at : {"bump", "insert"}, key : Pairs] /\ n.key = k /\ k \in Pairs
  BY <1>2, <1>3, <1>4
<1>7. n \in R!Stages /\ n.at \in {"bump", "insert"}
  BY <1>6 DEF R!Stages
<1>8. RestTyped'
  BY <1>1, <1>5, <1>6 DEF RestTyped
<1>9. Turns(p, n)
  BY <1>1, <1>5, <1>7, TurnIs
<1>10. Advances(p, n)
  <2>1. ASSUME NEW j \in Pairs
        PROVE  /\ asked'[j] >= asked[j]
               /\ Owes(n, j) => asked'[j] >= asked[j] + 1
               /\ ~Tells(using[p], j)
    <3>1. asked[j] \in Nat /\ asked'[j] = IF j = k THEN asked[j] + 1 ELSE asked[j]
      BY <1>1, <1>5 DEF Counted
    <3>2. Owes(n, j) => j = k
      BY <1>6, <1>7 DEF Owes
    <3>3. QED
      BY <1>1, <3>1, <3>2 DEF Tells
  <2>2. lost' = lost /\ fails' >= fails
    BY <1>1, <1>5 DEF Counted
  <2>3. QED
    BY <1>5, <1>9, <2>1, <2>2 DEF Advances
<1>11. ReadKept(p, n)'
  BY <1>7 DEF ReadKept
<1>12. QED
  BY <1>1, <1>5, <1>7, <1>8, <1>10, <1>11, QuietTurn

\* _bridge_blocks' report.
LEMMA ConfirmStep ==
  ASSUME BridgesInv, NEW p \in Users, R!Confirm(p)
  PROVE  BridgesInv'
<1>1. R!TypeOK /\ Counted /\ RestTyped /\ using[p] \in R!Stages /\ using[p].at = "confirm"
  BY TypesCount, TypeIs DEF BridgesInv, R!Confirm
<1>2. using[p] \in [at : {"confirm"}, just : SUBSET Pairs]
  BY <1>1, StageTells
<1>3. PICK n : n = R!Idle
  OBVIOUS
<1>4. /\ reported' = reported \cup using[p].just /\ R!Goto(p, n)
      /\ UNCHANGED <<home, row, legacy, asked, excused, worn, ops, lost, fails>>
  BY <1>3 DEF R!Confirm
<1>5. n \in R!Stages /\ n.at = "idle"
  BY <1>3 DEF R!Stages, R!Idle
<1>6. RestTyped'
  BY <1>1, <1>2, <1>4 DEF RestTyped
<1>7. Turns(p, n)
  BY <1>1, <1>4, <1>5, TurnIs
<1>8. Advances(p, n)
  <2>1. \A j \in Pairs : asked'[j] >= asked[j] /\ ~Owes(n, j)
    BY <1>1, <1>4, <1>5 DEF Counted, Owes
  <2>2. \A j \in Pairs : Tells(using[p], j) => j \in reported' \cup excused'
    BY <1>4 DEF Tells
  <2>3. lost' = lost /\ fails' >= fails
    BY <1>1, <1>4 DEF Counted
  <2>4. QED
    BY <1>4, <1>7, <2>1, <2>2, <2>3 DEF Advances
<1>9. ReadKept(p, n)'
  BY <1>5 DEF ReadKept
<1>10. QED
  BY <1>1, <1>4, <1>5, <1>6, <1>8, <1>9, QuietTurn

\* An operation ends where it is; what it was to tell is excused.
LEMMA FailStep ==
  ASSUME BridgesInv, NEW p \in Users, R!Fail(p)
  PROVE  BridgesInv'
<1>1. R!TypeOK /\ Counted /\ RestTyped /\ using[p] \in R!Stages
  BY TypesCount, TypeIs DEF BridgesInv
<1>2. using[p].at \in {"reinforce", "confirm"} => using[p].just \subseteq Pairs
  BY <1>1, StageTells
<1>3. PICK n : n = R!Idle
  OBVIOUS
<1>4. /\ lost + fails < MaxFaults /\ fails' = fails + 1 /\ R!Goto(p, n)
      /\ excused' = IF using[p].at \in {"reinforce", "confirm"} THEN excused \cup using[p].just
                    ELSE excused
      /\ UNCHANGED <<home, row, legacy, reported, asked, worn, ops, lost>>
  BY <1>3 DEF R!Fail
<1>5. n \in R!Stages /\ n.at = "idle"
  BY <1>3 DEF R!Stages, R!Idle
<1>6. RestTyped'
  <2>1. fails' \in Nat /\ lost + fails' <= MaxFaults
    BY <1>1, <1>4, Bounds DEF RestTyped
  <2>2. QED
    BY <1>1, <1>2, <1>4, <2>1 DEF RestTyped
<1>7. Turns(p, n)
  BY <1>1, <1>4, <1>5, TurnIs
<1>8. Advances(p, n)
  <2>1. \A j \in Pairs : asked'[j] >= asked[j] /\ ~Owes(n, j)
    BY <1>1, <1>4, <1>5 DEF Counted, Owes
  <2>2. \A j \in Pairs : Tells(using[p], j) => j \in reported' \cup excused'
    BY <1>4 DEF Tells
  <2>3. lost' = lost /\ fails' >= fails /\ fails' > 0
    BY <1>1, <1>4 DEF Counted
  <2>4. QED
    BY <1>4, <1>7, <2>1, <2>2, <2>3 DEF Advances
<1>9. ReadKept(p, n)' /\ fails' > 0
  BY <1>1, <1>4, <1>5 DEF ReadKept, Counted
<1>10. QED
  BY <1>1, <1>4, <1>5, <1>6, <1>8, <1>9, QuietTurn

\* A transfer reads the rows of its source.
LEMMA TakeStep ==
  ASSUME BridgesInv, NEW p \in Users, R!Take(p)
  PROVE  BridgesInv'
<1>1. /\ R!TypeOK /\ Counted /\ RestTyped /\ using[p] \in R!Stages /\ using[p].at = "take"
      /\ row \in [R!Stores -> R!Tables] /\ ops \in 0..MaxOps
  BY TypesCount, TypeIs DEF BridgesInv, R!Take, RestTyped
<1>2. using[p] \in [at : {"take"}, dst : R!Stores]
  BY <1>1, StageTells
<1>3. PICK s \in R!Stores, rest \in SUBSET Pairs :
        /\ rest = {k \in Pairs : R!Has(row[s], k)}
        /\ R!Goto(p, IF rest = {} THEN R!Idle
                     ELSE [at |-> "compare", dst |-> using[p].dst, rows |-> row[s], todo |-> rest])
        /\ worn' = worn \cup {k \in rest : row[s][k].weight < 1}
  BY DEF R!Take
<1>4. UNCHANGED <<home, row, legacy, reported, asked, excused, ops, lost, fails>>
  BY DEF R!Take
<1>5. PICK t : t = row[s]
  OBVIOUS
<1>6. PICK n : n = IF rest = {} THEN R!Idle
                   ELSE [at |-> "compare", dst |-> using[p].dst, rows |-> t, todo |-> rest]
  OBVIOUS
<1>7. R!Goto(p, n) /\ rest \subseteq Pairs /\ t \in R!Tables
  BY <1>1, <1>3, <1>5, <1>6
<1>8. n \in R!Stages /\ n.at \in {"idle", "compare"} /\ (n.at = "compare" => n.rows = t /\ n.todo = rest)
  <2>1. CASE rest = {}
    BY <1>6, <2>1 DEF R!Stages, R!Idle
  <2>2. CASE rest # {}
    <3>1. n \in [at : {"compare"}, dst : R!Stores, rows : R!Tables, todo : SUBSET Pairs]
      BY <1>2, <1>6, <1>7, <2>2
    <3>2. QED
      BY <1>6, <2>2, <3>1 DEF R!Stages
  <2>3. QED
    BY <2>1, <2>2
<1>9. worn \subseteq worn' /\ worn' \subseteq Pairs /\ \A k \in rest : t[k].weight < 1 => k \in worn'
  BY <1>1, <1>3, <1>5, <1>7 DEF RestTyped
<1>10. ASSUME NEW k \in Pairs
       PROVE  Fair(k, t[k])' /\ Hale(k, t[k])'
  <2>1. Fair(k, t[k]) /\ t[k] \in R!Rows \cup {Missing}
    BY <1>1, <1>5 DEF BridgesInv, RowKept, R!Tables
  <2>2. Turns(p, n)
    BY <1>1, <1>7, <1>8, TurnIs
  <2>3. Advances(p, n)
    BY <1>1, <1>4, <1>8, <1>9, <2>2, PlainAdvance
  <2>4. Counted'
    BY <1>1, <1>4 DEF Counted
  <2>5. Onward
    BY <1>1, <2>3, <2>4, AdvancesOnward
  <2>6. Fair(k, t[k])'
    BY <1>1, <2>1, <2>4, <2>5, FairStays
  <2>7. t[k] # Missing => t[k].weight >= 1 \/ k \in worn'
    <3>1. t[k] # Missing => k \in rest /\ t[k].weight \in Int
      BY <1>3, <1>5, <2>1, RowTells DEF R!Has
    <3>2. QED
      BY <1>9, <3>1
  <2>8. QED
    BY <2>6, <2>7 DEF Hale
<1>11. ReadKept(p, n)'
  <2>1. \A k \in rest : R!Has(t, k)
    BY <1>3, <1>5
  <2>2. QED
    BY <1>8, <1>10, <2>1 DEF ReadKept, R!Has
<1>12. QED
  BY <1>1, <1>4, <1>7, <1>8, <1>9, <1>11, PlainTurn

\* It reads the row it is about to write.
LEMMA CompareStep ==
  ASSUME BridgesInv, NEW p \in Users, R!Compare(p)
  PROVE  BridgesInv'
<1>1. /\ R!TypeOK /\ Counted /\ RestTyped /\ using[p] \in R!Stages /\ using[p].at = "compare"
      /\ row \in [R!Stores -> R!Tables] /\ ops \in 0..MaxOps /\ ReadKept(p, using[p])
  BY TypesCount, TypeIs DEF BridgesInv, R!Compare, RestTyped
<1>2. using[p] \in [at : {"compare"}, dst : R!Stores, rows : R!Tables, todo : SUBSET Pairs]
  BY <1>1, StageTells
<1>3. PICK k \in using[p].todo :
        R!Goto(p, [at |-> "merge", dst |-> using[p].dst, rows |-> using[p].rows, key |-> k,
                   seen |-> row[using[p].dst][k], todo |-> using[p].todo \ {k}])
  BY DEF R!Compare
<1>4. UNCHANGED <<home, row, legacy, reported, asked, excused, worn, ops, lost, fails>>
  BY DEF R!Compare
<1>5. PICK x \in R!Rows \cup {Missing} : x = row[using[p].dst][k] /\ Fair(k, x) /\ k \in Pairs
  BY <1>1, <1>2, <1>3 DEF R!Tables, BridgesInv, RowKept
<1>6. PICK n : n = [at |-> "merge", dst |-> using[p].dst, rows |-> using[p].rows, key |-> k,
                     seen |-> x, todo |-> using[p].todo \ {k}]
  OBVIOUS
<1>7. n \in [at : {"merge"}, dst : R!Stores, rows : R!Tables, key : Pairs,
             seen : R!Rows \cup {Missing}, todo : SUBSET Pairs]
  BY <1>2, <1>3, <1>5, <1>6
<1>8. n \in R!Stages /\ n.at = "merge" /\ R!Goto(p, n)
  BY <1>3, <1>5, <1>6, <1>7 DEF R!Stages
<1>9. Turns(p, n)
  BY <1>1, <1>8, TurnIs
<1>10. Advances(p, n)
  BY <1>1, <1>4, <1>8, <1>9, PlainAdvance
<1>11. Counted'
  BY <1>1, <1>4 DEF Counted
<1>12. Onward
  BY <1>1, <1>10, <1>11, AdvancesOnward
<1>13. ReadKept(p, n)
  BY <1>1, <1>3, <1>5, <1>6 DEF ReadKept
<1>14. ReadKept(p, n)'
  BY <1>1, <1>8, <1>11, <1>12, <1>13, ReadStays
<1>15. QED
  BY <1>1, <1>4, <1>8, <1>14, PlainTurn DEF RestTyped

\* One statement that is neither a use shown nor a report.
LEMMA WriteSteps ==
  ASSUME BridgesInv, NEW p \in Users, NEW s \in R!Stores, NEW t \in R!Tables,
         NEW o \in R!Stages, NEW keys \in SUBSET Pairs, R!Write(p, s, t, o, keys),
         o.at \in {"fade", "prune"} => p = Daemon,
         o.at \notin {"bump", "insert", "reinforce"},
         using[p].at \notin {"reinforce", "confirm"}, ReadKept(p, o),
         UNCHANGED <<home, legacy, reported, asked, worn, ops, fails>>
  PROVE  /\ RestTyped' /\ row' \in [R!Stores -> R!Tables] /\ GoesOnWith(p, o)
         /\ \A k \in Pairs : row'[s][k] = t[k]
         /\ \A x \in R!Stores : x # s => row'[x] = row[x]
<1>1. R!TypeOK /\ Counted /\ RestTyped /\ row \in [R!Stores -> R!Tables]
  BY TypesCount, TypeIs DEF BridgesInv, R!TypeOK
<1>2. row' = [row EXCEPT ![s] = t]
  BY DEF R!Write
<1>3. row' \in [R!Stores -> R!Tables] /\ row'[s] = t /\ \A x \in R!Stores : x # s => row'[x] = row[x]
  BY <1>1, <1>2
<1>4. CASE R!Goto(p, o) /\ UNCHANGED <<lost, excused>>
  <2>1. RestTyped' /\ Counted'
    BY <1>1, <1>4 DEF RestTyped, Counted
  <2>2. Turns(p, o)
    BY <1>1, <1>4, TurnIs
  <2>3. Advances(p, o)
    BY <1>1, <1>4, <2>2, PlainAdvance
  <2>4. Onward
    BY <1>1, <2>1, <2>3, AdvancesOnward
  <2>5. ReadKept(p, o)'
    BY <1>1, <2>1, <2>4, ReadStays
  <2>6. QED
    BY <1>3, <1>4, <2>1, <2>3, <2>5 DEF GoesOnWith
<1>5. CASE R!Resent(s, keys)
  <2>1. lost + fails < MaxFaults /\ lost' = lost + 1 /\ excused' = excused \cup keys
        /\ UNCHANGED using
    BY <1>5 DEF R!Resent
  <2>2. lost' \in Nat /\ lost' + fails <= MaxFaults
    BY <1>1, <2>1, Bounds DEF RestTyped
  <2>3. RestTyped'
    BY <1>1, <2>1, <2>2 DEF RestTyped
  <2>4. QED
    BY <1>3, <2>1, <2>3 DEF GoesOnWith
<1>6. QED
  BY <1>4, <1>5 DEF R!Write

\* A new row is in order.
LEMMA FreshRowKept ==
  ASSUME BridgesInv, Counted', Onward, NEW s, NEW k \in Pairs, NEW r, r = R!FreshRow
  PROVE  r \in R!Rows /\ RowKept(s, k, r)'
<1>1. r.weight = 1 /\ r.idle = FALSE /\ r.promoted = FALSE
  BY DEF R!FreshRow
<1>2. r \in R!Rows
  <2>1. 1 \in {w \in Int : w <= OldMax}
    BY BridgeRules
  <2>2. QED
    BY <2>1 DEF R!Rows, R!FreshRow
<1>3. Credit(k)' >= 1
  <2>1. Cardinality(Due(k)) \in Int /\ Cardinality(Due(k)') \in Int
    BY DueCounts, DueCountsNext
  <2>2. Credit(k) \in Int /\ Credit(k)' \in Int
    BY <2>1, TypesCount DEF Credit, Counted, BridgesInv
  <2>3. Credit(k) >= 1 /\ Credit(k)' >= Credit(k)
    BY DEF BridgesInv, Onward
  <2> HIDE DEF Credit
  <2>4. QED
    BY <2>2, <2>3
<1>4. Fair(k, r)' /\ Hale(k, r)'
  <2> HIDE DEF Credit, Told
  <2>1. QED
    BY <1>1, <1>3 DEF Fair, Hale
<1>5. QED
  BY <1>2, <1>4 DEF RowKept

\* What a use, or a showing, makes of a row.
LEMMA UsedTells ==
  ASSUME NEW r \in R!Rows
  PROVE  /\ R!Used(r) \in R!Rows /\ R!Shown(r) \in R!Rows
         /\ R!Used(r).weight = R!Least(r.weight + 1, Cap) /\ R!Used(r).promoted = r.promoted
         /\ R!Shown(r).weight = R!Least(r.weight + 1, Cap)
         /\ R!Shown(r).promoted => r.promoted \/ R!Crosses(r)
<1>1. /\ r = [weight |-> r.weight, idle |-> r.idle, promoted |-> r.promoted]
      /\ r.weight \in Int /\ r.weight <= OldMax /\ r.idle \in BOOLEAN /\ r.promoted \in BOOLEAN
  BY RowTells
<1>2. R!Least(r.weight + 1, Cap) \in Int /\ R!Least(r.weight + 1, Cap) <= OldMax
  BY <1>1, BridgeRules DEF R!Least
<1>3. PICK w : w = R!Least(r.weight + 1, Cap)
  OBVIOUS
<1>4. PICK b : b = (r.promoted \/ w >= PromoteAt)
  OBVIOUS
<1>5. R!Used(r) = [weight |-> w, idle |-> FALSE, promoted |-> r.promoted]
  <2>1. r \in [weight : Int, idle : BOOLEAN, promoted : BOOLEAN] /\ w \in Int
    BY <1>1, <1>2, <1>3
  <2>2. R!Used(r) = [r EXCEPT !.weight = w, !.idle = FALSE]
    <3> HIDE DEF R!Least
    <3>1. QED
      BY <1>3 DEF R!Used
  <2>3. QED
    BY <2>1, <2>2
<1>6. R!Shown(r) = [weight |-> w, idle |-> FALSE, promoted |-> b]
  <2> HIDE DEF R!Least
  <2>1. R!Shown(r) = [R!Used(r) EXCEPT !.promoted = @ \/ w >= PromoteAt]
    BY <1>3 DEF R!Shown
  <2>2. R!Used(r).promoted = r.promoted
    BY <1>5
  <2>3. R!Shown(r) = [R!Used(r) EXCEPT !.promoted = b]
    BY <1>4, <2>1, <2>2
  <2>4. R!Used(r) \in [weight : Int, idle : BOOLEAN, promoted : BOOLEAN]
    BY <1>1, <1>2, <1>3, <1>5
  <2>5. b \in BOOLEAN
    BY <1>4
  <2>6. PICK u \in [weight : Int, idle : BOOLEAN, promoted : BOOLEAN] : u = R!Used(r)
    BY <2>4
  <2>7. PICK x : x = [u EXCEPT !.promoted = b]
    OBVIOUS
  <2>8. x \in [weight : Int, idle : BOOLEAN, promoted : BOOLEAN]
    BY <2>5, <2>7
  <2>9. x.weight = u.weight /\ x.idle = u.idle
    BY <2>7
  <2>10. x.promoted = b
    BY <2>7
  <2>11. u.weight = w /\ u.idle = FALSE
    BY <1>5, <2>6
  <2>12. x = [weight |-> w, idle |-> FALSE, promoted |-> b]
    BY <2>8, <2>9, <2>10, <2>11
  <2>13. QED
    BY <2>3, <2>6, <2>7, <2>12
<1>7. b \in BOOLEAN
  BY <1>1, <1>4
<1>8. R!Used(r) \in R!Rows /\ R!Shown(r) \in R!Rows
  BY <1>1, <1>2, <1>3, <1>5, <1>6, <1>7 DEF R!Rows
<1>9. b => r.promoted \/ R!Crosses(r)
  BY <1>1, <1>3, <1>4 DEF R!Crosses
<1>10. QED
  BY <1>3, <1>5, <1>6, <1>8, <1>9

\* A use that was owed, written: the row is still in order.
LEMMA UsedKept ==
  ASSUME BridgesInv, Counted', Onward, NEW s, NEW k \in Pairs, NEW r \in R!Rows,
         RowKept(s, k, r), Paid(k), NEW u \in R!Rows,
         u.weight = R!Least(r.weight + 1, Cap), u.promoted => r.promoted \/ Told(k)'
  PROVE  RowKept(s, k, u)'
<1>1. /\ r # Missing /\ r.weight \in Int /\ r.weight <= OldMax /\ u # Missing
      /\ Cap \in Int /\ Cap >= 1
  BY RowTells, BridgeRules
<1>2. u.weight <= r.weight + 1 /\ (r.weight >= 0 => u.weight >= 1) /\ u.weight \in Int
  BY <1>1 DEF R!Least
<1>3. Counted /\ Credit(k) \in Int /\ Credit(k)' \in Int
  <2>1. Cardinality(Due(k)) \in Int /\ Cardinality(Due(k)') \in Int
    BY DueCounts, DueCountsNext
  <2>2. QED
    BY <2>1, TypesCount DEF Credit, Counted, BridgesInv
<1>4. r.weight <= Credit(k) /\ (r.promoted => Told(k)) /\ (Told(k) => Told(k)')
  BY <1>1 DEF RowKept, Fair, Onward
<1>5. u.weight <= Credit(k)'
  <2> HIDE DEF Credit
  <2>1. QED
    BY <1>1, <1>2, <1>3, <1>4 DEF Paid
<1>6. Fair(k, u)'
  <2> HIDE DEF Credit, Told
  <2>1. QED
    BY <1>4, <1>5 DEF Fair
<1>7. Hale(k, u)'
  <2>1. CASE r.weight >= 0
    BY <1>2, <2>1 DEF Hale
  <2>2. CASE r.weight < 0
    <3>1. Hale(k, r)
      BY <1>1, <2>2 DEF RowKept
    <3>2. Hale(k, r)'
      BY <1>3, <3>1, FairStays
    <3>3. k \in worn' \/ lost' > 0 \/ fails' > 0
      BY <1>1, <2>2, <3>2 DEF Hale
    <3>4. QED
      BY <3>3 DEF Hale
  <2>3. QED
    BY <1>1, <2>1, <2>2
<1>8. QED
  BY <1>6, <1>7 DEF RowKept

\* INSERT OR IGNORE of entries of the old file, or an INSERT passed over.
LEMMA ImportStep ==
  ASSUME BridgesInv, NEW p \in Users, R!Import(p)
  PROVE  BridgesInv'
<1>1. /\ R!TypeOK /\ Counted /\ RestTyped /\ using[p] \in R!Stages /\ using[p].at = "import"
      /\ row \in [R!Stores -> R!Tables] /\ home \in R!Stores /\ ReadKept(p, using[p])
  BY TypesCount, TypeIs DEF BridgesInv, R!Import, R!TypeOK
<1>2. using[p] \in [at : {"import"}, then : R!Starts, todo : SUBSET Pairs]
  BY <1>1, StageTells
<1>3. PICK K, o, t :
        /\ K \subseteq using[p].todo
        /\ o = IF using[p].todo \ K = {} THEN [at |-> "retire", then |-> using[p].then]
               ELSE [using[p] EXCEPT !.todo = using[p].todo \ K]
        /\ t = R!Imported(row[home], K)
        /\ \/ R!Write(p, home, t, o, K) /\ UNCHANGED fails
           \/ /\ lost + fails < MaxFaults /\ fails' = fails + 1
              /\ R!Goto(p, o) /\ UNCHANGED <<row, excused, lost>>
  <2>1. PICK K \in IF home = "local" THEN {using[p].todo} ELSE {{k} : k \in using[p].todo} :
          LET left == using[p].todo \ K
              next == IF left = {} THEN [at |-> "retire", then |-> using[p].then]
                      ELSE [using[p] EXCEPT !.todo = left]
          IN \/ R!Write(p, home, R!Imported(row[home], K), next, K) /\ UNCHANGED fails
             \/ /\ lost + fails < MaxFaults /\ fails' = fails + 1
                /\ R!Goto(p, next) /\ UNCHANGED <<row, excused, lost>>
    BY DEF R!Import
  <2>2. K \subseteq using[p].todo
    BY <2>1
  <2>3. QED
    BY <2>1, <2>2
<1>4. UNCHANGED <<home, legacy, reported, asked, worn, ops>>
  BY DEF R!Import
<1>5. K \subseteq Pairs /\ \A k \in K : OldKept(k)
  BY <1>1, <1>2, <1>3 DEF ReadKept
<1>6. t \in R!Tables
      /\ \A k \in Pairs : t[k] = row[home][k] \/ (k \in K /\ t[k] = OldRows[k])
  BY <1>1, <1>3, OldTells DEF R!Imported, R!Tables
<1>7. o \in R!Stages /\ o.at \in {"import", "retire"} /\ ReadKept(p, o)
  <2>1. CASE using[p].todo \ K = {}
    <3>1. o \in [at : {"count", "retire"}, then : R!Starts] /\ o.at = "retire"
          /\ o.then = using[p].then
      BY <1>2, <1>3, <2>1
    <3>2. QED
      BY <1>1, <3>1 DEF R!Stages, ReadKept
  <2>2. CASE using[p].todo \ K # {}
    <3>1. /\ o \in [at : {"import"}, then : R!Starts, todo : SUBSET Pairs] /\ o.at = "import"
          /\ o.then = using[p].then /\ o.todo \subseteq using[p].todo
      BY <1>2, <1>3, <2>2
    <3>2. QED
      BY <1>1, <3>1 DEF R!Stages, ReadKept
  <2>3. QED
    BY <2>1, <2>2
<1>8. CASE R!Write(p, home, t, o, K) /\ UNCHANGED fails
  <2>1. /\ RestTyped' /\ row' \in [R!Stores -> R!Tables] /\ GoesOnWith(p, o)
        /\ \A k \in Pairs : row'[home][k] = t[k]
        /\ \A x \in R!Stores : x # home => row'[x] = row[x]
    BY <1>1, <1>4, <1>5, <1>6, <1>7, <1>8, WriteSteps
  <2>2. Counted' /\ Onward
    BY <1>7, <2>1, WriteGoesOn
  <2>3. ASSUME NEW s \in R!Stores, NEW k \in Pairs, row'[s][k] # row[s][k]
        PROVE  RowKept(s, k, row[s][k])'
    <3>1. row'[s][k] = OldRows[k] /\ OldKept(k)
      BY <1>5, <1>6, <2>1, <2>3
    <3>2. OldKept(k)'
      BY <1>1, <2>2, <3>1, OldStays
    <3>3. QED
      BY <3>1, <3>2, OldTells DEF OldKept, RowKept, Fair, Hale
  <2>4. QED
    BY <1>1, <1>4, <1>7, <2>1, <2>3, WriteKeeps
<1>9. CASE /\ lost + fails < MaxFaults /\ fails' = fails + 1
           /\ R!Goto(p, o) /\ UNCHANGED <<row, excused, lost>>
  <2>1. RestTyped' /\ Counted'
    <3>1. fails' \in Nat /\ lost + fails' <= MaxFaults
      BY <1>1, <1>9, Bounds DEF RestTyped
    <3>2. QED
      BY <1>1, <1>4, <1>9, <3>1 DEF RestTyped, Counted
  <2>2. Turns(p, o)
    BY <1>1, <1>7, <1>9, TurnIs
  <2>3. Advances(p, o)
    <3>1. \A k \in Pairs : asked'[k] >= asked[k] /\ ~Owes(o, k) /\ ~Tells(using[p], k)
      BY <1>1, <1>4, <1>7 DEF Counted, Owes, Tells
    <3>2. lost' = lost /\ fails' >= fails
      BY <1>1, <1>9 DEF Counted
    <3>3. QED
      BY <1>4, <1>9, <2>2, <3>1, <3>2 DEF Advances
  <2>4. Onward
    BY <1>1, <2>1, <2>3, AdvancesOnward
  <2>5. ReadKept(p, o)'
    BY <1>1, <1>7, <2>1, <2>4, ReadStays
  <2>6. QED
    BY <1>1, <1>4, <1>7, <1>9, <2>1, <2>3, <2>5, QuietTurn
<1>10. QED
  BY <1>3, <1>8, <1>9

\* UPDATE weight+1, by add_bridge.
LEMMA BumpStep ==
  ASSUME BridgesInv, NEW p \in Users, R!Bump(p)
  PROVE  BridgesInv'
<1>1. /\ R!TypeOK /\ using[p] \in R!Stages /\ using[p].at = "bump"
      /\ row \in [R!Stores -> R!Tables] /\ home \in R!Stores
  BY DEF BridgesInv, R!Bump, R!TypeOK
<1>2. using[p] \in [at : {"bump", "insert"}, key : Pairs]
  BY <1>1, StageTells
<1>3. PICK o, t, j : /\ o = R!Idle /\ j = using[p].key /\ t = R!Bumped(row[home], j)
                     /\ R!Write(p, home, t, o, {j})
  BY DEF R!Bump
<1>4. UNCHANGED <<home, legacy, reported, asked, worn, ops, fails>>
  BY DEF R!Bump
<1>5. j \in Pairs /\ Owes(using[p], j) /\ \A k \in Pairs : row[home][k] \in R!Rows \cup {Missing}
  BY <1>1, <1>2, <1>3 DEF Owes, R!Tables
<1>6. /\ t \in R!Tables
      /\ \A k \in Pairs : t[k] = row[home][k] \/ (k = j /\ R!Has(row[home], j)
                                                  /\ t[j] = R!Used(row[home][j]))
  <2>1. CASE R!Has(row[home], j)
    <3>1. R!Used(row[home][j]) \in R!Rows
      BY <1>5, <2>1, UsedTells DEF R!Has
    <3>2. PICK u : u = R!Used(row[home][j])
      OBVIOUS
    <3>3. t = [row[home] EXCEPT ![j] = u]
      BY <1>3, <2>1, <3>2 DEF R!Bumped
    <3>4. QED
      BY <1>1, <1>5, <2>1, <3>1, <3>2, <3>3 DEF R!Tables
  <2>2. CASE ~R!Has(row[home], j)
    BY <1>1, <1>3, <2>2 DEF R!Bumped
  <2>3. QED
    BY <2>1, <2>2
<1>7. o \in R!Stages /\ o.at = "idle"
  BY <1>3 DEF R!Stages, R!Idle
<1>8. ReadKept(p, o)
  BY <1>7 DEF ReadKept
<1>9. /\ RestTyped' /\ row' \in [R!Stores -> R!Tables] /\ GoesOnWith(p, o)
      /\ \A k \in Pairs : row'[home][k] = t[k]
      /\ \A x \in R!Stores : x # home => row'[x] = row[x]
  <2>1. {j} \in SUBSET Pairs
    BY <1>5
  <2>2. QED
    BY <1>1, <1>3, <1>4, <1>6, <1>7, <1>8, <2>1, WriteSteps
<1>10. Counted' /\ Onward /\ Paid(j)
  <2>1. ~Owes(o, j)
    BY <1>7 DEF Owes
  <2>2. QED
    BY <1>5, <1>7, <1>9, <2>1, WriteGoesOn
<1>11. ASSUME NEW s \in R!Stores, NEW k \in Pairs, row'[s][k] # row[s][k]
       PROVE  RowKept(s, k, row[s][k])'
  <2>1. s = home /\ k = j /\ R!Has(row[home], j) /\ row'[s][k] = R!Used(row[home][j])
    BY <1>6, <1>9, <1>11
  <2>2. PICK r \in R!Rows, u \in R!Rows : r = row[s][k] /\ u = R!Used(r)
    BY <1>5, <2>1, UsedTells DEF R!Has
  <2>3. RowKept(s, k, r)
    BY <2>2 DEF BridgesInv
  <2>4. u.weight = R!Least(r.weight + 1, Cap) /\ u.promoted = r.promoted
    BY <2>2, UsedTells
  <2>5. RowKept(s, k, u)'
    BY <1>10, <2>1, <2>3, <2>4, UsedKept
  <2>6. row'[s][k] = u
    BY <2>1, <2>2
  <2>7. QED
    BY <2>5, <2>6 DEF RowKept, Fair, Hale
<1>12. QED
  BY <1>1, <1>4, <1>7, <1>9, <1>11, WriteKeeps

\* INSERT, by add_bridge, or the bump of the row that was there first.
LEMMA InsertStep ==
  ASSUME BridgesInv, NEW p \in Users, R!Insert(p)
  PROVE  BridgesInv'
<1>1. /\ R!TypeOK /\ Counted /\ RestTyped /\ using[p] \in R!Stages /\ using[p].at = "insert"
      /\ row \in [R!Stores -> R!Tables] /\ home \in R!Stores
  BY TypesCount, TypeIs DEF BridgesInv, R!Insert, R!TypeOK
<1>2. using[p] \in [at : {"bump", "insert"}, key : Pairs]
  BY <1>1, StageTells
<1>3. UNCHANGED <<home, legacy, reported, asked, worn, ops, fails>>
  BY DEF R!Insert
<1>4. PICK j \in Pairs : j = using[p].key
  BY <1>2
<1>5. CASE R!Write(p, home, [row[home] EXCEPT ![j] = R!FreshRow], R!Idle, {j})
  <2>1. PICK o, t : o = R!Idle /\ t = [row[home] EXCEPT ![j] = R!FreshRow]
    OBVIOUS
  <2>2. R!FreshRow \in R!Rows
    <3>1. 1 \in {w \in Int : w <= OldMax}
      BY BridgeRules
    <3>2. QED
      BY <3>1 DEF R!Rows, R!FreshRow
  <2>3. t \in R!Tables /\ \A k \in Pairs : t[k] = row[home][k] \/ t[k] = R!FreshRow
    BY <1>1, <1>4, <2>1, <2>2 DEF R!Tables
  <2>4. o \in R!Stages /\ o.at = "idle"
    BY <2>1 DEF R!Stages, R!Idle
  <2>5. ReadKept(p, o)
    BY <2>4 DEF ReadKept
  <2>6. /\ RestTyped' /\ row' \in [R!Stores -> R!Tables] /\ GoesOnWith(p, o)
        /\ \A k \in Pairs : row'[home][k] = t[k]
        /\ \A x \in R!Stores : x # home => row'[x] = row[x]
    <3>1. {j} \in SUBSET Pairs /\ R!Write(p, home, t, o, {j})
      BY <1>4, <1>5, <2>1
    <3>2. QED
      BY <1>1, <1>3, <2>3, <2>4, <2>5, <3>1, WriteSteps
  <2>7. Counted' /\ Onward
    BY <2>4, <2>6, WriteGoesOn
  <2>8. ASSUME NEW s \in R!Stores, NEW k \in Pairs, row'[s][k] # row[s][k]
        PROVE  RowKept(s, k, row[s][k])'
    <3>1. PICK r : r = R!FreshRow
      OBVIOUS
    <3>2. row'[s][k] = r
      BY <2>3, <2>6, <2>8, <3>1
    <3>3. RowKept(s, k, r)'
      BY <2>7, <3>1, FreshRowKept
    <3>4. QED
      BY <3>2, <3>3 DEF RowKept, Fair, Hale
  <2>9. QED
    BY <1>1, <1>3, <2>4, <2>6, <2>8, WriteKeeps
<1>6. CASE R!Goto(p, [using[p] EXCEPT !.at = "bump"]) /\ UNCHANGED <<row, excused, lost>>
  <2>1. PICK n : n = [using[p] EXCEPT !.at = "bump"]
    OBVIOUS
  <2>2. n \in [at : {"bump", "insert"}, key : Pairs] /\ n.key = using[p].key /\ n.at = "bump"
    BY <1>2, <2>1
  <2>3. n \in R!Stages /\ R!Goto(p, n)
    BY <1>6, <2>1, <2>2 DEF R!Stages
  <2>4. Turns(p, n)
    BY <1>1, <2>2, <2>3, TurnIs
  <2>5. Advances(p, n)
    <3>1. \A k \in Pairs : /\ asked'[k] >= asked[k] /\ (Owes(n, k) => Owes(using[p], k))
                           /\ ~Tells(using[p], k)
      BY <1>1, <1>3, <2>2 DEF Counted, Owes, Tells
    <3>2. lost' = lost /\ fails' >= fails
      BY <1>1, <1>3, <1>6 DEF Counted
    <3>3. QED
      BY <1>3, <1>6, <2>4, <3>1, <3>2 DEF Advances
  <2>6. RestTyped' /\ ReadKept(p, n)'
    BY <1>1, <1>3, <1>6, <2>2 DEF RestTyped, ReadKept
  <2>7. QED
    BY <1>1, <1>3, <1>6, <2>2, <2>3, <2>5, <2>6, QuietTurn
<1>7. QED
  BY <1>4, <1>5, <1>6 DEF R!Insert

\* A row that weighs no more than one in order is fair.
LEMMA LessIsFair ==
  ASSUME Counted, Counted', Onward, NEW k \in Pairs, NEW r \in R!Rows, NEW u \in R!Rows,
         Fair(k, r), u.weight <= r.weight, u.promoted = r.promoted
  PROVE  Fair(k, u)'
<1>1. Credit(k) \in Int /\ Credit(k)' \in Int
  <2>1. Cardinality(Due(k)) \in Int /\ Cardinality(Due(k)') \in Int
    BY DueCounts, DueCountsNext
  <2>2. QED
    BY <2>1 DEF Credit, Counted
<1>2. /\ r # Missing /\ r.weight \in Int /\ u.weight \in Int
      /\ Credit(k)' >= Credit(k) /\ (Told(k) => Told(k)')
  BY RowTells DEF Onward
<1>3. QED
  <2> HIDE DEF Credit, Told
  <2>1. QED
    BY <1>1, <1>2 DEF Fair

\* The tables of the decay.
LEMMA FadedTells ==
  ASSUME NEW t \in R!Tables
  PROVE  /\ R!Faded(t) \in R!Tables /\ R!Pruned(t) \in R!Tables
         /\ \A k \in Pairs :
              \/ R!Faded(t)[k] = t[k] /\ (R!Has(t, k) => ~t[k].idle)
              \/ /\ R!Has(t, k) /\ t[k].idle
                 /\ R!Faded(t)[k] \in R!Rows
                 /\ R!Faded(t)[k].weight = t[k].weight - 1 /\ R!Faded(t)[k].idle
                 /\ R!Faded(t)[k].promoted = t[k].promoted
         /\ \A k \in Pairs :
              \/ R!Pruned(t)[k] = t[k] /\ (R!Has(t, k) => t[k].weight >= 1)
              \/ R!Has(t, k) /\ t[k].weight < 1 /\ R!Pruned(t)[k] = Missing
<1>1. ASSUME NEW k \in Pairs, R!Has(t, k)
      PROVE  t[k] \in R!Rows /\ t[k].weight \in Int /\ t[k].weight <= OldMax
  BY <1>1, RowTells DEF R!Tables, R!Has
<1>2. ASSUME NEW k \in Pairs
      PROVE  /\ R!Faded(t)[k] \in R!Rows \cup {Missing}
             /\ \/ R!Faded(t)[k] = t[k] /\ (R!Has(t, k) => ~t[k].idle)
                \/ /\ R!Has(t, k) /\ t[k].idle
                   /\ R!Faded(t)[k] \in R!Rows
                   /\ R!Faded(t)[k].weight = t[k].weight - 1 /\ R!Faded(t)[k].idle
                   /\ R!Faded(t)[k].promoted = t[k].promoted
  <2>1. CASE R!Has(t, k) /\ t[k].idle
    <3>1. PICK r \in R!Rows : r = t[k]
      BY <1>1, <2>1
    <3>2. /\ r \in [weight : Int, idle : BOOLEAN, promoted : BOOLEAN]
          /\ r.weight \in Int /\ r.weight <= OldMax /\ r.idle
      BY <2>1, <3>1, RowTells
    <3>3. PICK w \in Int : w = r.weight - 1
      BY <3>2
    <3>4. PICK u : u = [r EXCEPT !.weight = w]
      OBVIOUS
    <3>5. /\ u \in [weight : Int, idle : BOOLEAN, promoted : BOOLEAN]
          /\ u.weight = w /\ u.idle = r.idle /\ u.promoted = r.promoted
      BY <3>2, <3>4
    <3>6. w <= OldMax
      BY <3>2, <3>3, BridgeRules
    <3>7. u \in R!Rows
      BY <3>5, <3>6 DEF R!Rows
    <3>8. R!Faded(t)[k] = u
      BY <2>1, <3>1, <3>3, <3>4 DEF R!Faded
    <3>9. QED
      BY <2>1, <3>1, <3>2, <3>3, <3>5, <3>7, <3>8
  <2>2. CASE ~(R!Has(t, k) /\ t[k].idle)
    BY <2>2 DEF R!Faded, R!Tables
  <2>3. QED
    BY <2>1, <2>2
<1>3. R!Faded(t) \in R!Tables
  <2>1. R!Faded(t) = [k \in Pairs |-> R!Faded(t)[k]]
    BY DEF R!Faded
  <2>2. QED
    BY <1>2, <2>1 DEF R!Tables
<1>4. R!Pruned(t) \in R!Tables
  BY DEF R!Pruned, R!Tables
<1>5. ASSUME NEW k \in Pairs
      PROVE  \/ R!Pruned(t)[k] = t[k] /\ (R!Has(t, k) => t[k].weight >= 1)
             \/ R!Has(t, k) /\ t[k].weight < 1 /\ R!Pruned(t)[k] = Missing
  BY <1>1 DEF R!Pruned
<1>6. QED
  BY <1>2, <1>3, <1>4, <1>5

\* DELETE of the rows below one.
LEMMA PruneStep ==
  ASSUME BridgesInv, R!Prune
  PROVE  BridgesInv'
<1>1. /\ R!TypeOK /\ Daemon \in Users /\ using[Daemon].at = "prune" /\ Counted
      /\ row \in [R!Stores -> R!Tables] /\ home \in R!Stores
  BY TypesCount DEF BridgesInv, R!Prune, R!TypeOK
<1>2. PICK o, t : o = R!Idle /\ t = R!Pruned(row[home]) /\ R!Write(Daemon, home, t, o, {})
  BY DEF R!Prune
<1>3. UNCHANGED <<home, legacy, reported, asked, worn, ops, fails>>
  BY DEF R!Prune
<1>4. o \in R!Stages /\ o.at = "idle"
  BY <1>2 DEF R!Stages, R!Idle
<1>5. ReadKept(Daemon, o)
  BY <1>4 DEF ReadKept
<1>6. /\ t \in R!Tables
      /\ \A k \in Pairs :
           \/ t[k] = row[home][k] /\ (R!Has(row[home], k) => row[home][k].weight >= 1)
           \/ R!Has(row[home], k) /\ row[home][k].weight < 1 /\ t[k] = Missing
  BY <1>1, <1>2, FadedTells
<1>7. /\ RestTyped' /\ row' \in [R!Stores -> R!Tables] /\ GoesOnWith(Daemon, o)
      /\ \A k \in Pairs : row'[home][k] = t[k]
      /\ \A x \in R!Stores : x # home => row'[x] = row[x]
  <2>1. {} \in SUBSET Pairs
    OBVIOUS
  <2>2. QED
    BY <1>1, <1>2, <1>3, <1>4, <1>5, <1>6, <2>1, WriteSteps
<1>8. R!TypeOK' /\ Counted' /\ Onward /\ \A q \in Users : ReadKept(q, using[q])'
  BY <1>1, <1>4, <1>7, WriteGoesOn
<1>9. ASSUME NEW s \in R!Stores, NEW k \in Pairs
      PROVE  RowKept(s, k, row[s][k])'
  <2>1. PICK r \in R!Rows \cup {Missing} : r = row'[s][k]
    BY <1>7 DEF R!Tables
  <2>2. CASE r = Missing
    BY <2>1, <2>2 DEF RowKept, Fair, Hale
  <2>3. CASE r # Missing
    <3>1. r = row[s][k] /\ (s = home => r.weight >= 1)
      BY <1>6, <1>7, <2>1, <2>3 DEF R!Has
    <3>2. RowKept(s, k, r)
      BY <3>1 DEF BridgesInv
    <3>3. Fair(k, r) /\ Hale(k, r)
      BY <3>1, <3>2 DEF RowKept, Hale
    <3>4. Fair(k, r)' /\ Hale(k, r)'
      BY <1>1, <1>8, <3>3, FairStays
    <3>5. QED
      BY <2>1, <3>4 DEF RowKept, Fair, Hale
  <2>4. QED
    BY <2>2, <2>3
<1>10. QED
  BY <1>8, <1>9, BridgesNext

\* UPDATE weight-1 of the idle rows; locally the DELETE is in the transaction.
LEMMA FadeStep ==
  ASSUME BridgesInv, R!Fade
  PROVE  BridgesInv'
<1>1. /\ R!TypeOK /\ Daemon \in Users /\ using[Daemon].at = "fade" /\ Counted
      /\ row \in [R!Stores -> R!Tables] /\ home \in R!Stores
  BY TypesCount DEF BridgesInv, R!Fade, R!TypeOK
<1>2. PICK f : f = R!Faded(row[home])
  OBVIOUS
<1>3. PICK o, t :
        /\ o = IF home = "local" THEN R!Idle ELSE [at |-> "prune"]
        /\ t = IF home = "local" THEN R!Pruned(f) ELSE f
        /\ R!Write(Daemon, home, t, o, {})
  BY <1>2 DEF R!Fade
<1>4. UNCHANGED <<home, legacy, reported, asked, worn, ops, fails>>
  BY DEF R!Fade
<1>5. o \in R!Stages /\ o.at = (IF home = "local" THEN "idle" ELSE "prune")
  BY <1>3 DEF R!Stages, R!Idle
<1>6. ReadKept(Daemon, o)
  BY <1>5 DEF ReadKept
<1>7. /\ f \in R!Tables
      /\ \A k \in Pairs :
           \/ f[k] = row[home][k] /\ (R!Has(row[home], k) => ~row[home][k].idle)
           \/ /\ R!Has(row[home], k) /\ row[home][k].idle
              /\ f[k] \in R!Rows /\ f[k].weight = row[home][k].weight - 1 /\ f[k].idle
              /\ f[k].promoted = row[home][k].promoted
  BY <1>1, <1>2, FadedTells
<1>8. /\ t \in R!Tables
      /\ \A k \in Pairs :
           t[k] = Missing \/ (t[k] = f[k] /\ (home = "local" => f[k].weight >= 1))
  <2>1. CASE home = "local"
    BY <1>3, <1>7, <2>1, FadedTells DEF R!Has
  <2>2. CASE home # "local"
    BY <1>3, <1>7, <2>2
  <2>3. QED
    BY <2>1, <2>2
<1>9. /\ RestTyped' /\ row' \in [R!Stores -> R!Tables] /\ GoesOnWith(Daemon, o)
      /\ \A k \in Pairs : row'[home][k] = t[k]
      /\ \A x \in R!Stores : x # home => row'[x] = row[x]
  <2>1. {} \in SUBSET Pairs
    OBVIOUS
  <2>2. QED
    BY <1>1, <1>3, <1>4, <1>5, <1>6, <1>8, <2>1, WriteSteps
<1>10. Counted' /\ Onward
  BY <1>1, <1>5, <1>9, WriteGoesOn
<1>11. home # "local" => Pruning' \/ lost' > 0
  <2>1. CASE R!Goto(Daemon, o) /\ Advances(Daemon, o)
    <3>1. using'[Daemon] = o
      BY <1>1, <2>1 DEF Advances, Turns
    <3>2. QED
      BY <1>5, <3>1 DEF Pruning
  <2>2. CASE lost' = lost + 1
    BY <1>1, <2>2 DEF Counted
  <2>3. QED
    BY <1>9, <2>1, <2>2 DEF GoesOnWith
<1>12. ASSUME NEW s \in R!Stores, NEW k \in Pairs, row'[s][k] # row[s][k]
       PROVE  RowKept(s, k, row[s][k])'
  <2>1. s = home /\ row'[s][k] = t[k]
    BY <1>9, <1>12
  <2>2. CASE t[k] = Missing
    BY <2>1, <2>2 DEF RowKept, Fair, Hale
  <2>3. CASE t[k] # Missing
    <3>1. /\ t[k] = f[k] /\ (home = "local" => f[k].weight >= 1)
          /\ R!Has(row[home], k) /\ row[home][k].idle
          /\ f[k] \in R!Rows /\ f[k].weight = row[home][k].weight - 1 /\ f[k].idle
          /\ f[k].promoted = row[home][k].promoted
      BY <1>7, <1>8, <1>12, <2>1, <2>3
    <3>2. PICK u \in R!Rows, r \in R!Rows : u = f[k] /\ r = row[home][k]
      BY <1>1, <3>1 DEF R!Tables, R!Has
    <3>3. r.weight \in Int /\ u.weight = r.weight - 1 /\ u.idle /\ r # Missing /\ u # Missing
          /\ u.promoted = r.promoted /\ (home = "local" => u.weight >= 1)
      BY <3>1, <3>2, RowTells
    <3>4. RowKept(s, k, r) /\ ~Pruning
      BY <1>1, <2>1, <3>2 DEF BridgesInv, Pruning
    <3>5. Fair(k, r) /\ Hale(k, r)
      BY <3>4 DEF RowKept
    <3>6. Fair(k, u)' /\ Hale(k, r)'
      <4>1. u.weight <= r.weight
        BY <3>3
      <4>2. QED
        BY <1>1, <1>10, <3>3, <3>5, <4>1, LessIsFair, FairStays
    <3>7. \/ Hale(k, u)'
          \/ home # "local" /\ u.weight = 0
      <4>1. CASE k \in worn' \/ lost' > 0 \/ fails' > 0
        BY <4>1 DEF Hale
      <4>2. CASE r.weight >= 1
        <5>1. u.weight = 0 \/ u.weight >= 1
          BY <3>3, <4>2
        <5>2. CASE u.weight >= 1
          BY <5>2 DEF Hale
        <5>3. CASE u.weight = 0
          BY <3>3, <5>3
        <5>4. QED
          BY <5>1, <5>2, <5>3
      <4>3. QED
        BY <3>3, <3>6, <4>1, <4>2 DEF Hale
    <3>8. lost' > 0 => Hale(k, u)'
      BY DEF Hale
    <3>9. row'[s][k] = u /\ home' = home
      BY <1>4, <2>1, <3>1, <3>2
    <3>10. QED
      BY <1>11, <2>1, <3>3, <3>6, <3>7, <3>8, <3>9 DEF RowKept, Fair, Hale
  <2>4. QED
    BY <2>2, <2>3
<1>13. QED
  BY <1>1, <1>4, <1>5, <1>9, <1>12, WriteKeeps

\* What a transfer leaves for a row r of the source and a row x of the other tier.
LEMMA MergedTells ==
  ASSUME NEW r \in R!Rows, NEW x \in R!Rows
  PROVE  /\ R!Merged(r, x) \in R!Rows
         /\ R!Merged(r, x).weight = R!Most(r.weight, x.weight)
         /\ R!Merged(r, x).promoted = x.promoted
<1>1. /\ x \in [weight : Int, idle : BOOLEAN, promoted : BOOLEAN]
      /\ r.weight \in Int /\ x.weight \in Int /\ r.weight <= OldMax /\ x.weight <= OldMax
      /\ r.idle \in BOOLEAN /\ x.idle \in BOOLEAN
  BY RowTells
<1>2. PICK w \in Int : w = R!Most(r.weight, x.weight) /\ w <= OldMax
  BY <1>1 DEF R!Most
<1>3. PICK b \in BOOLEAN : b = (x.idle /\ r.idle)
  OBVIOUS
<1>4. R!Merged(r, x) = [x EXCEPT !.weight = w, !.idle = b]
  <2> HIDE DEF R!Most
  <2>1. QED
    BY <1>2, <1>3 DEF R!Merged
<1>5. PICK y : y = [x EXCEPT !.weight = w]
  OBVIOUS
<1>6. /\ y \in [weight : Int, idle : BOOLEAN, promoted : BOOLEAN]
      /\ y.weight = w /\ y.promoted = x.promoted
  BY <1>1, <1>5
<1>7. PICK z : z = [y EXCEPT !.idle = b]
  OBVIOUS
<1>8. z \in [weight : Int, idle : BOOLEAN, promoted : BOOLEAN]
  BY <1>6, <1>7
<1>9. z.weight = w /\ z.promoted = x.promoted
  BY <1>6, <1>7
<1>10. z \in R!Rows
  BY <1>2, <1>8, <1>9 DEF R!Rows
<1>11. R!Merged(r, x) = z
  BY <1>4, <1>5, <1>7
<1>12. QED
  BY <1>2, <1>9, <1>10, <1>11

\* It is in order, where the rows it is made of are.
LEMMA CarriedKept ==
  ASSUME BridgesInv, Counted', Onward, NEW s, NEW k \in Pairs, NEW r \in R!Rows,
         Fair(k, r), Hale(k, r), NEW x \in R!Rows \cup {Missing}, Fair(k, x),
         NEW u, u = IF x = Missing THEN r ELSE R!Merged(r, x)
  PROVE  u \in R!Rows /\ RowKept(s, k, u)'
<1>1. Counted
  BY TypesCount DEF BridgesInv
<1>2. r.weight \in Int /\ r # Missing /\ Fair(k, r)' /\ Hale(k, r)' /\ Fair(k, x)'
  BY <1>1, RowTells, FairStays
<1>3. CASE x = Missing
  BY <1>2, <1>3 DEF RowKept, Fair, Hale
<1>4. CASE x # Missing
  <2>1. /\ x \in R!Rows /\ x.weight \in Int
        /\ u \in R!Rows /\ u.weight = R!Most(r.weight, x.weight) /\ u.promoted = x.promoted
    BY <1>4, MergedTells, RowTells
  <2>2. u.weight \in {r.weight, x.weight} /\ u.weight >= r.weight
    BY <1>2, <2>1 DEF R!Most
  <2>3. Fair(k, u)'
    <3> HIDE DEF Credit, Told
    <3>1. QED
      BY <1>2, <1>4, <2>1, <2>2 DEF Fair
  <2>4. Hale(k, u)'
    <3>1. r.weight >= 1 => u.weight >= 1
      BY <1>2, <2>1, <2>2
    <3>2. QED
      BY <1>2, <3>1 DEF Hale
  <2>5. QED
    BY <2>1, <2>3, <2>4 DEF RowKept
<1>5. QED
  BY <1>3, <1>4

\* The transfer's INSERT or UPDATE.
LEMMA MergeStep ==
  ASSUME BridgesInv, NEW p \in Users, R!Merge(p)
  PROVE  BridgesInv'
<1>1. /\ R!TypeOK /\ Counted /\ RestTyped /\ using[p] \in R!Stages /\ using[p].at = "merge"
      /\ row \in [R!Stores -> R!Tables] /\ ops \in 0..MaxOps /\ ReadKept(p, using[p])
  BY TypesCount, TypeIs DEF BridgesInv, R!Merge, RestTyped
<1>2. using[p] \in [at : {"merge"}, dst : R!Stores, rows : R!Tables, key : Pairs,
                    seen : R!Rows \cup {Missing}, todo : SUBSET Pairs]
  BY <1>1, StageTells
<1>3. PICK s \in R!Stores, k \in Pairs, x \in R!Rows \cup {Missing}, rest \in SUBSET Pairs,
           c \in R!Tables :
        s = using[p].dst /\ k = using[p].key /\ x = using[p].seen /\ rest = using[p].todo
        /\ c = using[p].rows
  BY <1>2
<1>4. UNCHANGED <<home, legacy, reported, asked, worn, ops, fails>>
  BY DEF R!Merge
<1>5. /\ \A j \in rest \cup {k} : c[j] \in R!Rows
      /\ \A j \in Pairs : Fair(j, c[j]) /\ Hale(j, c[j])
      /\ Fair(k, x)
  BY <1>1, <1>3 DEF ReadKept, R!Has, R!Tables
<1>6. CASE R!Goto(p, R!Idle) /\ UNCHANGED <<row, excused, lost>>
  <2>1. PICK n : n = R!Idle
    OBVIOUS
  <2>2. n \in R!Stages /\ n.at = "idle" /\ R!Goto(p, n)
    BY <1>6, <2>1 DEF R!Stages, R!Idle
  <2>3. ReadKept(p, n)'
    BY <2>2 DEF ReadKept
  <2>4. QED
    BY <1>1, <1>4, <1>6, <2>2, <2>3, PlainTurn DEF RestTyped
<1>7. PICK one, all :
          /\ one = [row[s] EXCEPT ![k] = IF x # Missing /\ row[s][k] = Missing THEN Missing
                                         ELSE R!Carried(p, k, x)]
          /\ all = [j \in Pairs |-> IF j \in rest THEN R!Carried(p, j, row[s][j]) ELSE one[j]]
  OBVIOUS
<1>8. PICK onward : onward = [at |-> "compare", dst |-> s, rows |-> c, todo |-> rest]
  OBVIOUS
<1>9. ASSUME NEW t \in {one, all}, NEW o \in {R!Idle, onward}, NEW keys \in SUBSET Pairs,
             R!Write(p, s, t, o, keys)
      PROVE  BridgesInv'
  <2>1. \A j \in Pairs : row[s][j] \in R!Rows \cup {Missing} /\ Fair(j, row[s][j])
    BY <1>1 DEF R!Tables, BridgesInv, RowKept
  <2>2. ASSUME NEW j \in rest \cup {k}, NEW y \in R!Rows \cup {Missing}
        PROVE  R!Carried(p, j, y) \in R!Rows
    <3>1. R!Carried(p, j, y) = IF y = Missing THEN c[j] ELSE R!Merged(c[j], y)
      BY <1>3 DEF R!Carried
    <3>2. QED
      BY <1>5, <3>1, MergedTells
  <2>3. /\ DOMAIN one = Pairs
        /\ one[k] \in {Missing, R!Carried(p, k, x)}
        /\ \A j \in Pairs : j # k => one[j] = row[s][j]
    BY <1>1, <1>7 DEF R!Tables
  <2>4. one \in R!Tables
    <3>1. one = [j \in Pairs |-> one[j]]
      BY <1>1, <1>7 DEF R!Tables
    <3>2. \A j \in Pairs : one[j] \in R!Rows \cup {Missing}
      BY <2>1, <2>2, <2>3
    <3>3. QED
      BY <3>1, <3>2 DEF R!Tables
  <2>5. /\ t \in R!Tables
        /\ \A j \in Pairs :
             \/ t[j] = one[j]
             \/ j \in rest /\ t[j] = R!Carried(p, j, row[s][j])
    <3> HIDE DEF R!Carried
    <3>1. QED
      BY <1>9, <1>7, <2>1, <2>2, <2>4 DEF R!Tables
  <2>6. o \in R!Stages /\ o.at \in {"idle", "compare"}
    <3>1. CASE o = R!Idle
      BY <3>1 DEF R!Stages, R!Idle
    <3>2. CASE o = onward
      BY <1>8, <3>2 DEF R!Stages
    <3>3. QED
      BY <1>9, <3>1, <3>2
  <2>7. ReadKept(p, o)
    <3>1. CASE o = R!Idle
      BY <3>1 DEF ReadKept, R!Idle
    <3>2. CASE o = onward
      <4>1. \A j \in rest : R!Has(c, j)
        BY <1>1, <1>3 DEF ReadKept
      <4>2. o.at = "compare" /\ o.rows = c /\ o.todo = rest
        BY <1>8, <3>2
      <4>3. QED
        BY <1>5, <4>1, <4>2 DEF ReadKept
    <3>3. QED
      BY <1>9, <3>1, <3>2
  <2>8. /\ RestTyped' /\ row' \in [R!Stores -> R!Tables] /\ GoesOnWith(p, o)
        /\ \A j \in Pairs : row'[s][j] = t[j]
        /\ \A y \in R!Stores : y # s => row'[y] = row[y]
    BY <1>1, <1>4, <1>9, <2>5, <2>6, <2>7, WriteSteps
  <2>9. Counted' /\ Onward
    BY <2>6, <2>8, WriteGoesOn
  <2>10. ASSUME NEW y \in R!Stores, NEW j \in Pairs, row'[y][j] # row[y][j]
         PROVE  RowKept(y, j, row[y][j])'
    <3>1. y = s /\ row'[y][j] = t[j]
      BY <2>8, <2>10
    <3>2. CASE t[j] = Missing
      BY <3>1, <3>2 DEF RowKept, Fair, Hale
    <3>3. CASE t[j] # Missing
      <4>1. PICK v \in R!Rows \cup {Missing} :
              j \in rest \cup {k} /\ t[j] = R!Carried(p, j, v) /\ Fair(j, v)
        <5>1. CASE t[j] = one[j]
          BY <1>5, <2>3, <2>10, <3>1, <3>3, <5>1
        <5>2. CASE j \in rest /\ t[j] = R!Carried(p, j, row[s][j])
          BY <2>1, <5>2
        <5>3. QED
          BY <2>5, <5>1, <5>2
      <4>2. PICK u, r \in R!Rows : u = t[j] /\ r = c[j]
        BY <1>5, <2>2, <4>1
      <4>3. u = IF v = Missing THEN r ELSE R!Merged(r, v)
        BY <1>3, <4>1, <4>2 DEF R!Carried
      <4>4. Fair(j, r) /\ Hale(j, r)
        BY <1>5, <4>2
      <4>5. RowKept(y, j, u)'
        BY <2>9, <4>1, <4>3, <4>4, CarriedKept
      <4>6. QED
        BY <3>1, <4>2, <4>5 DEF RowKept, Fair, Hale
    <3>4. QED
      BY <3>2, <3>3
  <2>11. QED
    BY <1>1, <1>4, <2>6, <2>8, <2>10, WriteKeeps
<1>10. QED
  <2>1. \/ R!Goto(p, R!Idle) /\ UNCHANGED <<row, excused, lost>>
        \/ R!Write(p, s, all, R!Idle, {})
        \/ R!Write(p, s, one, R!Idle, {k})
        \/ R!Write(p, s, one, onward, {k})
    BY <1>3, <1>7, <1>8 DEF R!Merge
  <2>2. {} \in SUBSET Pairs /\ {k} \in SUBSET Pairs
    OBVIOUS
  <2>3. CASE R!Write(p, s, all, R!Idle, {})
    BY <1>9, <2>2, <2>3
  <2>4. CASE R!Write(p, s, one, R!Idle, {k})
    BY <1>9, <2>2, <2>4
  <2>5. CASE R!Write(p, s, one, onward, {k})
    BY <1>9, <2>2, <2>5
  <2>6. QED
    BY <1>6, <2>1, <2>3, <2>4, <2>5

\* A week without use: the rows are idle.
LEMMA QuietWeekStep ==
  ASSUME BridgesInv, R!QuietWeek
  PROVE  BridgesInv'
<1>1. /\ R!TypeOK /\ Counted /\ RestTyped /\ UsingTyped
      /\ \A s \in R!Stores, k \in Pairs : row[s][k] \in R!Rows \cup {Missing}
  BY TypesCount, TypeIs DEF BridgesInv
<1>2. UNCHANGED <<home, legacy, using, reported, asked, excused, worn, ops, lost, fails>>
  BY DEF R!QuietWeek
<1>3. ASSUME NEW s \in R!Stores, NEW k \in Pairs, R!Has(row[s], k)
      PROVE  /\ [row[s][k] EXCEPT !.idle = TRUE] \in R!Rows
             /\ [row[s][k] EXCEPT !.idle = TRUE].weight = row[s][k].weight
             /\ [row[s][k] EXCEPT !.idle = TRUE].promoted = row[s][k].promoted
             /\ [row[s][k] EXCEPT !.idle = TRUE].idle
  <2>1. PICK r \in R!Rows : r = row[s][k]
    BY <1>1, <1>3 DEF R!Has
  <2>2. r \in [weight : Int, idle : BOOLEAN, promoted : BOOLEAN] /\ r.weight \in Int /\ r.weight <= OldMax
    BY RowTells
  <2>3. PICK u : u = [r EXCEPT !.idle = TRUE]
    OBVIOUS
  <2>4. u \in [weight : Int, idle : BOOLEAN, promoted : BOOLEAN]
    BY <2>2, <2>3
  <2>5. u.weight = r.weight /\ u.promoted = r.promoted /\ u.idle
    BY <2>2, <2>3
  <2>6. u \in R!Rows
    BY <2>2, <2>4, <2>5 DEF R!Rows
  <2>7. QED
    BY <2>1, <2>3, <2>5, <2>6
<1>4. ASSUME NEW s \in R!Stores, NEW k \in Pairs
      PROVE  \/ row[s][k] = Missing /\ row'[s][k] = Missing
             \/ /\ row[s][k] \in R!Rows /\ row'[s][k] \in R!Rows
                /\ row'[s][k].weight = row[s][k].weight /\ row'[s][k].idle
                /\ row'[s][k].promoted = row[s][k].promoted
  BY <1>1, <1>3 DEF R!QuietWeek, R!Has
<1>5. row' \in [R!Stores -> R!Tables]
  <2>1. \A s \in R!Stores, k \in Pairs : row'[s][k] \in R!Rows \cup {Missing}
    BY <1>4
  <2>2. row' = [s \in R!Stores |-> [k \in Pairs |-> row'[s][k]]]
    BY DEF R!QuietWeek
  <2>3. QED
    BY <2>1, <2>2 DEF R!Tables
<1>6. R!TypeOK' /\ Counted'
  <2>1. RestTyped' /\ UsingTyped' /\ Counted'
    BY <1>1, <1>2 DEF RestTyped, UsingTyped, Counted
  <2>2. QED
    BY <1>5, <2>1, TypeWillBe
<1>7. Onward
  <2>1. ASSUME NEW k \in Pairs
        PROVE  Credit(k)' >= Credit(k) /\ (Told(k) => Told(k)')
    <3>1. Due(k)' = Due(k)
      BY <1>2 DEF Due, Owes
    <3>2. Cardinality(Due(k)) \in Int
      BY DueCounts
    <3>3. Credit(k)' = Credit(k) /\ Credit(k) \in Int
      BY <1>1, <1>2, <3>1, <3>2 DEF Credit, Counted
    <3>4. QED
      BY <1>2, <3>3 DEF Told, Tells
  <2>2. lost' >= lost /\ fails' >= fails
    BY <1>1, <1>2 DEF Counted
  <2>3. QED
    BY <1>2, <2>1, <2>2 DEF Onward
<1>8. ASSUME NEW q \in Users PROVE ReadKept(q, using[q])'
  <2>1. PICK x \in R!Stages : x = using[q]
    BY <1>1 DEF UsingTyped
  <2>2. ReadKept(q, x)
    BY <2>1 DEF BridgesInv
  <2>3. ReadKept(q, x)'
    BY <1>1, <1>6, <1>7, <2>2, ReadStays
  <2>4. QED
    BY <1>2, <2>1, <2>3 DEF ReadKept, OldKept, Fair, Hale
<1>9. ASSUME NEW s \in R!Stores, NEW k \in Pairs PROVE RowKept(s, k, row[s][k])'
  <2>1. CASE row[s][k] = Missing /\ row'[s][k] = Missing
    BY <2>1 DEF RowKept, Fair, Hale
  <2>2. CASE /\ row[s][k] \in R!Rows /\ row'[s][k] \in R!Rows
             /\ row'[s][k].weight = row[s][k].weight /\ row'[s][k].idle
             /\ row'[s][k].promoted = row[s][k].promoted
    <3>1. PICK r \in R!Rows, u \in R!Rows : r = row[s][k] /\ u = row'[s][k]
      BY <2>2
    <3>2. /\ r.weight \in Int /\ u.weight = r.weight /\ u.idle /\ u.promoted = r.promoted
          /\ r # Missing
      BY <2>2, <3>1, RowTells
    <3>3. RowKept(s, k, r) /\ Fair(k, r)
      BY <3>1 DEF BridgesInv, RowKept
    <3>4. Fair(k, u)'
      <4>1. u.weight <= r.weight
        BY <3>2
      <4>2. QED
        BY <1>1, <1>6, <1>7, <3>2, <3>3, <4>1, LessIsFair
    <3>5. Hale(k, u)' \/ (s = home' /\ Pruning' /\ u.weight = 0 /\ u.idle)
      BY <1>2, <3>2, <3>3 DEF RowKept, Hale, Pruning
    <3>6. QED
      BY <3>1, <3>4, <3>5 DEF RowKept, Fair, Hale
  <2>3. QED
    BY <1>4, <2>1, <2>2
<1>10. QED
  BY <1>6, <1>7, <1>8, <1>9, BridgesNext

\* UPDATE weight+1 of bridges that were shown.
LEMMA ReinforceStep ==
  ASSUME BridgesInv, NEW p \in Users, R!Reinforce(p)
  PROVE  BridgesInv'
<1>1. /\ R!TypeOK /\ Counted /\ RestTyped /\ using[p] \in R!Stages /\ using[p].at = "reinforce"
      /\ row \in [R!Stores -> R!Tables] /\ home \in R!Stores /\ ReadKept(p, using[p])
      /\ Daemon \in Users
  BY TypesCount, TypeIs DEF BridgesInv, R!Reinforce, R!TypeOK
<1>2. using[p] \in [at : {"reinforce"}, todo : SUBSET Pairs, seen : R!Tables, just : SUBSET Pairs]
  BY <1>1, StageTells
<1>3. PICK rest \in SUBSET Pairs, c \in R!Tables, due \in SUBSET Pairs :
        rest = using[p].todo /\ c = using[p].seen /\ due = using[p].just
  BY <1>2
<1>4. \A k \in rest : R!Has(c, k) /\ (R!Crosses(c[k]) => k \in due)
  BY <1>1, <1>3 DEF ReadKept
<1>5. PICK K \in SUBSET using[p].todo :
        /\ row' = [row EXCEPT ![home] =
             [k \in Pairs |-> IF k \in K /\ R!Has(row[home], k) THEN R!Shown(row[home][k])
                              ELSE row[home][k]]]
        /\ \/ /\ R!Goto(p, CASE using[p].todo \ K # {} ->
                                  [using[p] EXCEPT !.todo = using[p].todo \ K]
                             [] using[p].todo \ K = {} /\ using[p].just # {} ->
                                  [at |-> "confirm", just |-> using[p].just]
                             [] OTHER -> R!Idle)
              /\ excused' = excused \cup {k \in K : row[home][k] # using[p].seen[k]}
              /\ UNCHANGED lost
           \/ R!Resent(home, K)
  <2>1. \A K \in IF home = "local" THEN {using[p].todo} ELSE {{k} : k \in using[p].todo} :
          K \in SUBSET using[p].todo
    OBVIOUS
  <2>2. QED
    BY <2>1 DEF R!Reinforce
<1>6. UNCHANGED <<home, legacy, reported, asked, worn, ops, fails>>
  BY DEF R!Reinforce
<1>7. PICK t : t = [k \in Pairs |-> IF k \in K /\ R!Has(row[home], k) THEN R!Shown(row[home][k])
                                    ELSE row[home][k]]
  OBVIOUS
<1>8. PICK o : o = CASE rest \ K # {} -> [using[p] EXCEPT !.todo = rest \ K]
                     [] rest \ K = {} /\ due # {} -> [at |-> "confirm", just |-> due]
                     [] OTHER -> R!Idle
  OBVIOUS
<1>9. /\ row' = [row EXCEPT ![home] = t]
      /\ \/ /\ R!Goto(p, o) /\ UNCHANGED lost
            /\ excused' = excused \cup {k \in K : row[home][k] # c[k]}
         \/ R!Resent(home, K)
  BY <1>3, <1>5, <1>7, <1>8
<1>10. /\ t \in R!Tables
       /\ \A k \in Pairs :
            \/ t[k] = row[home][k]
            \/ /\ k \in K /\ row[home][k] \in R!Rows
               /\ t[k] = R!Shown(row[home][k]) /\ t[k] \in R!Rows
  <2>1. ASSUME NEW k \in Pairs
        PROVE  \/ t[k] = row[home][k] /\ row[home][k] \in R!Rows \cup {Missing}
               \/ /\ k \in K /\ row[home][k] \in R!Rows
                  /\ t[k] = R!Shown(row[home][k]) /\ t[k] \in R!Rows
    <3>1. row[home][k] \in R!Rows \cup {Missing}
      BY <1>1 DEF R!Tables
    <3>2. CASE k \in K /\ R!Has(row[home], k)
      BY <1>7, <3>1, <3>2, UsedTells DEF R!Has
    <3>3. CASE ~(k \in K /\ R!Has(row[home], k))
      BY <1>7, <3>1, <3>3
    <3>4. QED
      BY <3>2, <3>3
  <2>2. t = [k \in Pairs |-> t[k]]
    BY <1>7
  <2>3. QED
    BY <2>1, <2>2 DEF R!Tables
<1>11. /\ o \in R!Stages /\ o.at \in {"reinforce", "confirm", "idle"}
       /\ \A k \in Pairs :
            /\ (Owes(o, k) => k \in rest \ K) /\ (k \in due => Tells(o, k))
            /\ Owes(using[p], k) <=> k \in rest
            /\ Tells(using[p], k) <=> k \in due
       /\ ReadKept(p, o)
  <2>1. \A k \in Pairs : (Owes(using[p], k) <=> k \in rest) /\ (Tells(using[p], k) <=> k \in due)
    BY <1>1, <1>3 DEF Owes, Tells
  <2>2. CASE rest \ K # {}
    <3>1. o = [using[p] EXCEPT !.todo = rest \ K]
      BY <1>8, <2>2
    <3>2. /\ o \in [at : {"reinforce"}, todo : SUBSET Pairs, seen : R!Tables, just : SUBSET Pairs]
          /\ o.todo = rest \ K /\ o.seen = c /\ o.just = due
      BY <1>2, <1>3, <3>1
    <3>3. o \in R!Stages /\ o.at = "reinforce"
      BY <3>2 DEF R!Stages
    <3>4. ReadKept(p, o)
      BY <1>4, <3>2, <3>3 DEF ReadKept
    <3>5. QED
      BY <2>1, <3>2, <3>3, <3>4 DEF Owes, Tells
  <2>3. CASE rest \ K = {} /\ due # {}
    <3>1. o = [at |-> "confirm", just |-> due]
      BY <1>8, <2>3
    <3>2. o \in R!Stages /\ o.at = "confirm" /\ o.just = due
      BY <3>1 DEF R!Stages
    <3>3. ReadKept(p, o)
      BY <3>2 DEF ReadKept
    <3>4. QED
      BY <2>1, <3>2, <3>3 DEF Owes, Tells
  <2>4. CASE rest \ K = {} /\ due = {}
    <3>1. o = R!Idle
      BY <1>8, <2>4
    <3>2. o \in R!Stages /\ o.at = "idle"
      BY <3>1 DEF R!Stages, R!Idle
    <3>3. ReadKept(p, o)
      BY <3>2 DEF ReadKept
    <3>4. QED
      BY <2>1, <2>4, <3>2, <3>3 DEF Owes
  <2>5. QED
    BY <2>2, <2>3, <2>4
<1>12. RestTyped' /\ row' \in [R!Stores -> R!Tables] /\ GoesOnWith(p, o)
  <2>1. row' \in [R!Stores -> R!Tables] /\ K \subseteq Pairs
    BY <1>1, <1>3, <1>9, <1>10
  <2>2. CASE R!Goto(p, o) /\ UNCHANGED lost
             /\ excused' = excused \cup {k \in K : row[home][k] # c[k]}
    <3>1. RestTyped' /\ Counted'
      BY <1>1, <1>6, <2>1, <2>2 DEF RestTyped, Counted
    <3>2. Turns(p, o)
      BY <1>1, <1>11, <2>2, TurnIs
    <3>3. Advances(p, o)
      <4>1. \A k \in Pairs : /\ asked'[k] >= asked[k] /\ (Owes(o, k) => Owes(using[p], k))
                             /\ (Tells(using[p], k) => Tells(o, k))
        BY <1>1, <1>6, <1>11 DEF Counted
      <4>2. lost' = lost /\ fails' >= fails
        BY <1>1, <1>6, <2>2 DEF Counted
      <4>3. QED
        BY <1>6, <2>2, <3>2, <4>1, <4>2 DEF Advances
    <3>4. Onward
      BY <1>1, <3>1, <3>3, AdvancesOnward
    <3>5. ReadKept(p, o)'
      BY <1>1, <1>11, <3>1, <3>4, ReadStays
    <3>6. QED
      BY <2>1, <2>2, <3>1, <3>3, <3>5 DEF GoesOnWith
  <2>3. CASE R!Resent(home, K)
    <3>1. lost + fails < MaxFaults /\ lost' = lost + 1 /\ excused' = excused \cup K
          /\ UNCHANGED using
      BY <2>3 DEF R!Resent
    <3>2. lost' \in Nat /\ lost' + fails <= MaxFaults
      BY <1>1, <3>1, Bounds DEF RestTyped
    <3>3. RestTyped'
      BY <1>1, <1>6, <2>1, <3>1, <3>2 DEF RestTyped
    <3>4. QED
      BY <1>6, <2>1, <3>1, <3>3 DEF GoesOnWith
  <2>4. QED
    BY <1>9, <2>2, <2>3
<1>13. /\ Counted' /\ Onward /\ \A k \in K : Paid(k)
  BY <1>1, <1>3, <1>11, <1>12, WriteGoesOn
<1>14. ASSUME NEW k \in K, R!Crosses(row[home][k])
       PROVE  Told(k)'
  <2>1. CASE row[home][k] = c[k] /\ R!Goto(p, o)
    <3>1. k \in Pairs /\ k \in due
      BY <1>3, <1>4, <1>14, <2>1
    <3>2. Tells(o, k) /\ Turns(p, o)
      BY <1>1, <1>11, <2>1, <3>1, TurnIs
    <3>3. using'[p] = o
      BY <3>2 DEF Turns
    <3>4. QED
      BY <3>2, <3>3 DEF Told, Tells
  <2>2. CASE k \in excused'
    BY <2>2 DEF Told
  <2>3. QED
    BY <1>9, <2>1, <2>2 DEF R!Resent
<1>15. ASSUME NEW s \in R!Stores, NEW k \in Pairs, row'[s][k] # row[s][k]
       PROVE  RowKept(s, k, row[s][k])'
  <2>1. s = home /\ row'[s][k] = t[k]
    BY <1>1, <1>9, <1>15
  <2>2. k \in K /\ row[s][k] \in R!Rows /\ t[k] = R!Shown(row[s][k]) /\ t[k] \in R!Rows
    BY <1>10, <1>15, <2>1
  <2>3. PICK r \in R!Rows, u \in R!Rows : r = row[s][k] /\ u = R!Shown(r) /\ u = t[k]
    BY <2>2
  <2>4. RowKept(s, k, r)
    BY <2>3 DEF BridgesInv
  <2>5. u.weight = R!Least(r.weight + 1, Cap) /\ (u.promoted => r.promoted \/ R!Crosses(r))
    BY <2>3, UsedTells
  <2>6. u.promoted => r.promoted \/ Told(k)'
    BY <1>14, <2>1, <2>2, <2>3, <2>5
  <2>7. RowKept(s, k, u)'
    BY <1>13, <2>2, <2>4, <2>5, <2>6, UsedKept
  <2>8. QED
    BY <2>1, <2>3, <2>7 DEF RowKept, Fair, Hale
<1>16. QED
  BY <1>1, <1>6, <1>11, <1>12, <1>15, WriteKeeps

\* What is among the strongest has fewer than the limit above it.
LEMMA StrongestTells ==
  ASSUME NEW t, NEW hits \in SUBSET Pairs, NEW n \in Nat,
         NEW K \in R!Strongest(hits, t, n),
         \A k \in hits : t[k].weight \in Int, NEW k \in K
  PROVE  k \in hits /\ Cardinality({j \in hits : t[j].weight > t[k].weight}) < n
<1>1. /\ K \in SUBSET hits /\ Cardinality(K) = R!Least(n, Cardinality(hits))
      /\ \A i \in K, j \in hits \ K : t[i].weight >= t[j].weight
  BY CountsAlike DEF R!Strongest, R!kSubset
<1>2. PICK V : V = {j \in hits : t[j].weight > t[k].weight}
  OBVIOUS
<1>3. IsFiniteSet(hits) /\ IsFiniteSet(K) /\ IsFiniteSet(K \ {k})
  BY <1>1, FiniteThings, FS_Subset
<1>4. V \subseteq K \ {k}
  BY <1>1, <1>2
<1>5. IsFiniteSet(V) /\ Cardinality(V) <= Cardinality(K \ {k})
  BY <1>3, <1>4, FS_Subset
<1>6. Cardinality(K \ {k}) = Cardinality(K) - 1
  BY <1>3, FS_RemoveElement
<1>7. /\ Cardinality(K) \in Nat /\ Cardinality(V) \in Nat /\ Cardinality(hits) \in Nat
  BY <1>3, <1>5, FS_CardinalityType
<1>8. Cardinality(K) <= n
  BY <1>1, <1>7 DEF R!Least
<1>9. Cardinality(V) < n
  BY <1>5, <1>6, <1>7, <1>8
<1>10. QED
  BY <1>1, <1>2, <1>9

\* bridges_for's SELECT: each bridge that it shows is used, and owed.
LEMMA ReadRowsStep ==
  ASSUME BridgesInv, NEW p \in Users, R!ReadRows(p)
  PROVE  BridgesInv'
<1>1. /\ R!TypeOK /\ Counted /\ RestTyped /\ using[p] \in R!Stages /\ using[p].at = "read"
      /\ row \in [R!Stores -> R!Tables] /\ home \in R!Stores
  BY TypesCount, TypeIs DEF BridgesInv, R!ReadRows, R!TypeOK
<1>2. using[p] \in [at : {"read"}, match : Matches, limit : Limits]
  BY <1>1, StageTells
<1>3. PICK t \in R!Tables, m \in SUBSET Pairs, n \in Nat :
        t = row[home] /\ m = using[p].match /\ n = using[p].limit
  BY <1>1, <1>2, BridgeRules
<1>4. PICK hits \in SUBSET Pairs : hits = {k \in m : R!Has(t, k)}
  OBVIOUS
<1>5. PICK K \in R!Strongest(hits, t, n) :
        /\ asked' = [k \in Pairs |-> IF k \in K
                       /\ R!Cardinality({j \in hits : t[j].weight > t[k].weight}) < n
                                     THEN asked[k] + 1 ELSE asked[k]]
        /\ R!Goto(p, IF K = {} THEN R!Idle
                     ELSE [at |-> "reinforce", todo |-> K, seen |-> t,
                           just |-> {k \in K : R!Crosses(t[k])}])
  <2> DEFINE Showing(z, V, K, l) ==
        /\ asked' = [k \in Pairs |-> IF k \in K
                       /\ R!Cardinality({j \in V : z[j].weight > z[k].weight}) < l
                                     THEN asked[k] + 1 ELSE asked[k]]
        /\ R!Goto(p, IF K = {} THEN R!Idle
                     ELSE [at |-> "reinforce", todo |-> K, seen |-> z,
                           just |-> {k \in K : R!Crosses(z[k])}])
  <2>1. PICK V : V = {k \in using[p].match : R!Has(row[home], k)}
    OBVIOUS
  <2>2. \E K \in R!Strongest({k \in using[p].match : R!Has(row[home], k)},
                             row[home], using[p].limit) :
          Showing(row[home], {k \in using[p].match : R!Has(row[home], k)}, K, using[p].limit)
    <3> HIDE DEF R!Strongest, R!Has, R!Crosses, R!Goto, R!Idle
    <3>1. QED
      BY DEF R!ReadRows
  <2>3. V = hits
    BY <1>3, <1>4, <2>1
  <2>4. \E K \in R!Strongest(V, row[home], using[p].limit) :
          Showing(row[home], V, K, using[p].limit)
    <3> HIDE DEF R!Strongest, Showing
    <3>1. QED
      BY <2>1, <2>2
  <2>5. \E K \in R!Strongest(hits, t, n) : Showing(t, hits, K, n)
    <3> HIDE DEF R!Strongest, Showing
    <3>1. QED
      BY <1>3, <2>3, <2>4
  <2>6. QED
    BY <2>5
<1>6. UNCHANGED <<home, row, legacy, reported, excused, worn, ops, lost, fails>>
  BY DEF R!ReadRows
<1>7. \A k \in hits : t[k] \in R!Rows /\ t[k].weight \in Int
  BY <1>4, RowTells DEF R!Tables, R!Has
<1>8. \A k \in K : k \in hits /\ R!Cardinality({j \in hits : t[j].weight > t[k].weight}) < n
  BY <1>7, CountsAlike, StrongestTells
<1>9. asked' = [k \in Pairs |-> IF k \in K THEN asked[k] + 1 ELSE asked[k]]
  <2>1. \A k \in Pairs : asked'[k] = IF k \in K THEN asked[k] + 1 ELSE asked[k]
    BY <1>5, <1>8
  <2>2. asked' = [k \in Pairs |-> asked'[k]]
    BY <1>5
  <2>3. QED
    BY <2>1, <2>2
<1>10. PICK due \in SUBSET Pairs : due = {k \in K : R!Crosses(t[k])}
  BY <1>8
<1>11. PICK o : o = IF K = {} THEN R!Idle
                    ELSE [at |-> "reinforce", todo |-> K, seen |-> t, just |-> due]
  OBVIOUS
<1>12. R!Goto(p, o) /\ K \in SUBSET Pairs
  BY <1>5, <1>8, <1>10, <1>11
<1>13. /\ o \in R!Stages /\ o.at \in {"reinforce", "idle"}
       /\ \A k \in Pairs : Owes(o, k) => k \in K
       /\ ReadKept(p, o)'
  <2>1. CASE K = {}
    <3>1. o \in R!Stages /\ o.at = "idle"
      BY <1>11, <2>1 DEF R!Stages, R!Idle
    <3>2. QED
      BY <3>1 DEF Owes, ReadKept
  <2>2. CASE K # {}
    <3>1. o = [at |-> "reinforce", todo |-> K, seen |-> t, just |-> due]
      BY <1>11, <2>2
    <3>2. /\ o \in R!Stages /\ o.at = "reinforce" /\ o.todo = K /\ o.seen = t /\ o.just = due
      BY <1>12, <3>1 DEF R!Stages
    <3>3. \A k \in K : R!Has(t, k) /\ (R!Crosses(t[k]) => k \in due)
      BY <1>4, <1>8, <1>10
    <3>4. ReadKept(p, o)'
      BY <3>2, <3>3 DEF ReadKept, R!Has, R!Crosses, R!Least
    <3>5. QED
      BY <3>2, <3>4 DEF Owes
  <2>3. QED
    BY <2>1, <2>2
<1>14. RestTyped'
  <2>1. asked' \in [Pairs -> Nat]
    BY <1>1, <1>9 DEF Counted
  <2>2. QED
    BY <1>1, <1>6, <2>1 DEF RestTyped
<1>15. Turns(p, o)
  BY <1>1, <1>12, <1>13, TurnIs
<1>16. Advances(p, o)
  <2>1. ASSUME NEW k \in Pairs
        PROVE  /\ asked'[k] >= asked[k]
               /\ Owes(o, k) => asked'[k] >= asked[k] + 1
               /\ ~Tells(using[p], k)
    <3>1. asked[k] \in Nat /\ asked'[k] = IF k \in K THEN asked[k] + 1 ELSE asked[k]
      BY <1>1, <1>9 DEF Counted
    <3>2. QED
      BY <1>1, <1>13, <3>1 DEF Tells
  <2>2. lost' = lost /\ fails' >= fails
    BY <1>1, <1>6 DEF Counted
  <2>3. QED
    BY <1>6, <1>15, <2>1, <2>2 DEF Advances
<1>17. QED
  BY <1>1, <1>6, <1>12, <1>13, <1>14, <1>16, QuietTurn

-----------------------------------------------------------------------------
(* Bridges: the invariant, and what it is for.                             *)
-----------------------------------------------------------------------------

\* It holds at the beginning.
LEMMA BridgesStart ==
  ASSUME R!Init
  PROVE  BridgesInv
<1>1. /\ home \in R!Stores /\ legacy \subseteq Pairs /\ using = [p \in Users |-> R!Idle]
      /\ reported = {k \in legacy : OldRows[k].promoted} /\ excused = {} /\ worn = {}
      /\ ops = 0 /\ lost = 0 /\ fails = 0
      /\ asked = [k \in Pairs |-> R!Most(IF k \in legacy THEN OldRows[k].weight ELSE 1,
                     R!Most(1, R!Most(R!WeightOf(row.local, k), R!WeightOf(row.cloud, k))))]
      /\ row \in [R!Stores -> [Pairs -> {Missing} \cup
                    [weight : InitWeights, idle : {FALSE}, promoted : {FALSE}]]]
  BY DEF R!Init
<1>2. ASSUME NEW s \in R!Stores, NEW k \in Pairs, R!Has(row[s], k)
      PROVE  /\ row[s][k] \in R!Rows /\ row[s][k].weight >= 1 /\ ~row[s][k].promoted
             /\ row[s][k].weight \in Nat
  <2>1. PICK r \in [weight : InitWeights, idle : {FALSE}, promoted : {FALSE}] : r = row[s][k]
    BY <1>1, <1>2 DEF R!Has
  <2>2. r.weight \in InitWeights /\ r.idle = FALSE /\ r.promoted = FALSE
        /\ r = [weight |-> r.weight, idle |-> r.idle, promoted |-> r.promoted]
    OBVIOUS
  <2>3. PICK v \in 1..Cap : v = r.weight
    BY <2>2, BridgeRules
  <2>4. v \in Nat /\ v \in Int /\ v <= OldMax /\ v >= 1
    BY <2>3, BridgeRules
  <2>5. r \in R!Rows
    BY <2>2, <2>3, <2>4, RowTells
  <2>6. QED
    BY <2>1, <2>2, <2>3, <2>4, <2>5
<1>3. row \in [R!Stores -> R!Tables]
  BY <1>1, <1>2 DEF R!Tables, R!Has
<1>4. ASSUME NEW k \in Pairs
      PROVE  asked[k] \in Nat /\ asked[k] >= 1
             /\ (k \in legacy => OldRows[k].weight <= asked[k])
             /\ \A s \in R!Stores : R!Has(row[s], k) => row[s][k].weight <= asked[k]
  <2>1. PICK x, y : x = R!WeightOf(row.local, k) /\ y = R!WeightOf(row.cloud, k)
    OBVIOUS
  <2>2. /\ x = (IF R!Has(row["local"], k) THEN row["local"][k].weight ELSE 0)
        /\ y = (IF R!Has(row["cloud"], k) THEN row["cloud"][k].weight ELSE 0)
    BY <2>1 DEF R!WeightOf
  <2>3. x \in Nat /\ y \in Nat
    BY <1>2, <2>2 DEF R!Stores
  <2>4. PICK z \in Nat : z >= 1 /\ z = IF k \in legacy THEN OldRows[k].weight ELSE 1
    BY OldTells
  <2>5. asked[k] = R!Most(z, R!Most(1, R!Most(x, y)))
    BY <1>1, <2>1, <2>4
  <2>6. asked[k] \in Nat /\ asked[k] >= z /\ asked[k] >= 1 /\ asked[k] >= x /\ asked[k] >= y
    BY <2>3, <2>4, <2>5 DEF R!Most
  <2>7. QED
    BY <2>2, <2>4, <2>6 DEF R!Stores
<1>5. asked \in [Pairs -> Nat]
  <2>1. asked = [k \in Pairs |-> asked[k]]
    BY <1>1
  <2>2. QED
    BY <1>4, <2>1
<1>6. R!TypeOK
  <2>1. R!Idle \in R!Stages /\ R!Idle.at = "idle"
    BY DEF R!Idle, R!Stages
  <2>2. UsingTyped
    BY <1>1, <2>1 DEF UsingTyped
  <2>3. RestTyped
    BY <1>1, <1>5, Bounds DEF RestTyped
  <2>4. QED
    BY <1>3, <2>2, <2>3, TypeIs
<1>7. ASSUME NEW k \in Pairs PROVE Credit(k) = asked[k]
  <2>1. Due(k) = {}
    BY <1>1 DEF Due, Owes, R!Idle
  <2>2. Cardinality(Due(k)) = 0
    BY <2>1, FS_EmptySet
  <2>3. QED
    BY <1>1, <1>4, <2>2 DEF Credit
<1>8. ASSUME NEW s \in R!Stores, NEW k \in Pairs PROVE RowKept(s, k, row[s][k])
  <2> HIDE DEF Credit, Told
  <2>1. QED
    BY <1>2, <1>4, <1>7 DEF RowKept, Fair, Hale, R!Has
<1>9. \A p \in Users : ReadKept(p, using[p])
  BY <1>1 DEF ReadKept, R!Idle
<1>10. ASSUME NEW k \in legacy PROVE OldKept(k)
  <2>1. k \in Pairs /\ (OldRows[k].promoted => Told(k))
    BY <1>1 DEF Told
  <2>2. OldRows[k].weight <= Credit(k)
    BY <1>4, <1>7, <2>1
  <2> HIDE DEF Credit, Told
  <2>3. QED
    BY <2>1, <2>2 DEF OldKept, Fair
<1>11. QED
  BY <1>4, <1>6, <1>7, <1>8, <1>9, <1>10 DEF BridgesInv

\* Each step keeps it.
LEMMA BridgesActs ==
  ASSUME BridgesInv, R!Next
  PROVE  BridgesInv'
<1>1. ASSUME NEW p \in Users, NEW k \in Pairs, R!Add(p, k)
      PROVE  BridgesInv'
  <2>1. PICK o : o = [at |-> "look", key |-> k]
    OBVIOUS
  <2>2. o \in R!Starts /\ o.at = "look" /\ R!Begin(p, o)
    BY <1>1, <2>1 DEF R!Starts, R!Add
  <2>3. QED
    BY <2>2, BeginStep
<1>2. ASSUME NEW p \in Users, NEW m \in Matches, NEW n \in Limits, R!Surface(p, m, n)
      PROVE  BridgesInv'
  <2>1. PICK o : o = [at |-> "read", match |-> m, limit |-> n]
    OBVIOUS
  <2>2. o \in R!Starts /\ o.at = "read" /\ R!Begin(p, o)
    BY <1>2, <2>1 DEF R!Starts, R!Surface
  <2>3. QED
    BY <2>2, BeginStep
<1>3. ASSUME R!Decay PROVE BridgesInv'
  <2>1. PICK o : o = [at |-> "fade"]
    OBVIOUS
  <2>2. o \in R!Starts /\ R!Begin(Daemon, o)
    BY <1>3, <2>1 DEF R!Starts, R!Decay
  <2>3. QED
    BY <2>2, BridgeRules, BeginStep
<1>4. ASSUME NEW p \in Users,
             \/ \E s \in R!Stores : R!Transfer(p, s)
             \/ R!Count(p) \/ R!Import(p) \/ R!Retire(p)
             \/ R!Look(p) \/ R!Bump(p) \/ R!Insert(p)
             \/ R!ReadRows(p) \/ R!Reinforce(p) \/ R!Confirm(p)
             \/ R!Take(p) \/ R!Compare(p) \/ R!Merge(p) \/ R!Fail(p)
      PROVE  BridgesInv'
  BY <1>4, TransferStep, CountStep, ImportStep, LookStep, BumpStep,
     InsertStep, ReadRowsStep,
     ReinforceStep, ConfirmStep, TakeStep, CompareStep, MergeStep, FailStep
<1>5. QED
  BY <1>1, <1>2, <1>3, <1>4, FadeStep, PruneStep, QuietWeekStep DEF R!Next

\* The bridges keep their invariant.
LEMMA BridgesStep ==
  ASSUME BridgesInv, R!Next \/ UNCHANGED bridges
  PROVE  BridgesInv'
<1>1. CASE R!Next
  BY <1>1, BridgesActs
<1>2. CASE UNCHANGED bridges
  <2>1. UNCHANGED <<home, row, legacy, using, reported, asked, excused, worn, ops, lost, fails>>
    BY <1>2 DEF bridges
  <2>2. R!TypeOK'
    BY <2>1 DEF BridgesInv, R!TypeOK
  <2>3. \A k : (Credit(k)' = Credit(k)) /\ (Told(k)' <=> Told(k))
    BY <2>1 DEF Credit, Due, Owes, Told, Tells
  <2>4. \A k, r : (Fair(k, r)' <=> Fair(k, r)) /\ (Hale(k, r)' <=> Hale(k, r))
    <3> HIDE DEF Credit, Told
    <3>1. QED
      BY <2>1, <2>3 DEF Fair, Hale
  <2>5. \A s \in R!Stores, k \in Pairs : RowKept(s, k, row[s][k])'
    BY <2>1, <2>3 DEF BridgesInv, RowKept, Pruning, Fair, Hale
  <2>6. \A p \in Users : ReadKept(p, using[p])'
    BY <2>1, <2>3 DEF BridgesInv, ReadKept, OldKept, Fair, Hale
  <2>7. /\ \A k \in Pairs : (Credit(k) >= 1)'
        /\ \A k \in legacy' : OldKept(k)'
    BY <2>1, <2>3 DEF BridgesInv, OldKept, Fair
  <2>8. QED
    BY <2>2, <2>5, <2>6, <2>7 DEF BridgesInv
<1>3. QED
  BY <1>1, <1>2

\* What it says of the accounts.
LEMMA BridgesTell ==
  ASSUME BridgesInv
  PROVE  AccountsAreTrue
<1>1. /\ Counted /\ using \in [Users -> R!Stages]
      /\ \A s \in R!Stores, k \in Pairs : row[s][k] \in R!Rows \cup {Missing}
  BY TypesCount DEF BridgesInv
<1>2. ASSUME NEW s \in R!Stores, NEW k \in Pairs
      PROVE  R!WeightOf(row[s], k) <= asked[k] + lost
  <2>1. /\ asked[k] \in Nat /\ lost \in Nat /\ Cardinality(Due(k)) \in Nat
        /\ Credit(k) = asked[k] + lost - Cardinality(Due(k))
    BY <1>1, DueCounts DEF Counted, Credit
  <2>2. CASE R!Has(row[s], k)
    <3>1. row[s][k].weight \in Int /\ row[s][k].weight <= Credit(k)
      BY <1>1, <2>2, RowTells DEF R!Has, BridgesInv, RowKept, Fair
    <3>2. R!WeightOf(row[s], k) = row[s][k].weight
      BY <2>2 DEF R!WeightOf
    <3> HIDE DEF Credit
    <3>3. QED
      BY <2>1, <3>1, <3>2
  <2>3. CASE ~R!Has(row[s], k)
    BY <2>1, <2>3 DEF R!WeightOf
  <2>4. QED
    BY <2>2, <2>3
<1>3. ASSUME NEW s \in R!Stores, NEW k \in Pairs, R!Has(row[s], k), row[s][k].promoted
      PROVE  \/ k \in reported \cup excused
             \/ \E p \in Users : using[p].at \in {"reinforce", "confirm"} /\ k \in using[p].just
  BY <1>3 DEF BridgesInv, RowKept, Fair, R!Has, Told, Tells
<1>4. R!WeightIsEarned
  BY <1>2 DEF R!WeightIsEarned
<1>5. R!PromotedIsReported
  BY <1>3 DEF R!PromotedIsReported
<1>6. QED
  BY <1>4, <1>5 DEF AccountsAreTrue, R!AccountsAreTrue

-----------------------------------------------------------------------------
(* Bridges: what a step does to a row.                                     *)
-----------------------------------------------------------------------------

\* A row loses weight, or goes, in these ways only.
RowMoves(s, k, r, u) ==
  \/ u = r
  \/ r = Missing
  \/ /\ u # Missing
     /\ \/ u.weight >= r.weight
        \/ r.weight > Cap /\ u.weight = Cap
        \/ using[Daemon].at = "fade" /\ s = home /\ r.idle
        \/ \E p \in Users : /\ using[p].at = "merge" /\ using[p].dst = s /\ using[p].key = k
                            /\ using[p].seen # r
  \/ u = Missing /\ (r.idle \/ r.weight < 1)

\* One statement writes one store.
LEMMA WriteMoves ==
  ASSUME R!TypeOK, NEW p, NEW s \in R!Stores, NEW t, NEW o, NEW keys, R!Write(p, s, t, o, keys),
         \A k \in Pairs : RowMoves(s, k, row[s][k], t[k]), NEW y \in R!Stores, NEW k \in Pairs
  PROVE  RowMoves(y, k, row[y][k], row'[y][k])
<1>1. row' = [row EXCEPT ![s] = t] /\ row \in [R!Stores -> R!Tables]
  BY DEF R!Write, R!TypeOK
<1>2. CASE y = s
  <2>1. row'[y] = t
    BY <1>1, <1>2
  <2>2. QED
    BY <1>2, <2>1
<1>3. CASE y # s
  <2>1. row'[y][k] = row[y][k]
    BY <1>1, <1>3
  <2>2. QED
    BY <2>1 DEF RowMoves
<1>4. QED
  BY <1>2, <1>3

\* A use takes nothing away, but for what is above the cap.
LEMMA UseMoves ==
  ASSUME NEW s, NEW k, NEW r \in R!Rows
  PROVE  RowMoves(s, k, r, R!Used(r)) /\ RowMoves(s, k, r, R!Shown(r))
<1>1. r.weight \in Int /\ Cap \in Int
  BY RowTells, BridgeRules
<1>2. PICK w : /\ w = R!Least(r.weight + 1, Cap)
               /\ w >= r.weight \/ (r.weight > Cap /\ w = Cap)
  BY <1>1 DEF R!Least
<1>3. /\ R!Used(r).weight = w /\ R!Shown(r).weight = w
      /\ R!Used(r) # Missing /\ R!Shown(r) # Missing
  <2> HIDE DEF R!Least
  <2>1. QED
    BY <1>2, UsedTells, RowTells
<1>4. QED
  BY <1>2, <1>3 DEF RowMoves

\* Nor do the statements that write uses, or that a week passes.
LEMMA UsesMove ==
  ASSUME R!TypeOK, NEW p \in Users,
         R!Import(p) \/ R!Bump(p) \/ R!Insert(p) \/ R!Reinforce(p) \/ R!QuietWeek,
         NEW s \in R!Stores, NEW k \in Pairs
  PROVE  RowMoves(s, k, row[s][k], row'[s][k])
<1>1. /\ row \in [R!Stores -> R!Tables] /\ home \in R!Stores
      /\ \A y \in R!Stores, j \in Pairs : row[y][j] \in R!Rows \cup {Missing}
  BY TypesCount DEF R!TypeOK
<1>2. ASSUME R!Import(p)
      PROVE  RowMoves(s, k, row[s][k], row'[s][k])
  <2>1. CASE UNCHANGED row
    BY <2>1 DEF RowMoves
  <2>2. ASSUME NEW K, NEW o, R!Write(p, home, R!Imported(row[home], K), o, K)
        PROVE  RowMoves(s, k, row[s][k], row'[s][k])
    <3>1. PICK t : t = R!Imported(row[home], K)
      OBVIOUS
    <3>2. \A j \in Pairs : t[j] = row[home][j] \/ row[home][j] = Missing
      BY <3>1 DEF R!Imported, R!Has
    <3>3. \A j \in Pairs : RowMoves(home, j, row[home][j], t[j])
      BY <3>2 DEF RowMoves
    <3>4. QED
      BY <1>1, <2>2, <3>1, <3>3, WriteMoves
  <2>3. QED
    BY <1>2, <2>1, <2>2 DEF R!Import
<1>3. ASSUME R!Bump(p)
      PROVE  RowMoves(s, k, row[s][k], row'[s][k])
  <2>1. PICK t, o, x, keys : x = using[p].key /\ t = R!Bumped(row[home], x)
                             /\ R!Write(p, home, t, o, keys)
    BY <1>3 DEF R!Bump
  <2>2. ASSUME NEW j \in Pairs
        PROVE  RowMoves(home, j, row[home][j], t[j])
    <3>1. CASE R!Has(row[home], x) /\ j = x
      <4>1. PICK r \in R!Rows : r = row[home][j]
        BY <1>1, <3>1 DEF R!Has
      <4>2. t[j] = R!Used(r)
        BY <1>1, <2>1, <3>1, <4>1 DEF R!Bumped, R!Tables
      <4>3. QED
        BY <4>1, <4>2, UseMoves
    <3>2. CASE ~(R!Has(row[home], x) /\ j = x)
      <4>1. t[j] = row[home][j]
        BY <1>1, <2>1, <3>2 DEF R!Bumped, R!Tables
      <4>2. QED
        BY <4>1 DEF RowMoves
    <3>3. QED
      BY <3>1, <3>2
  <2>3. QED
    BY <1>1, <2>1, <2>2, WriteMoves
<1>4. ASSUME R!Insert(p)
      PROVE  RowMoves(s, k, row[s][k], row'[s][k])
  <2>1. PICK x : x = using[p].key
    OBVIOUS
  <2>2. CASE UNCHANGED row
    BY <2>2 DEF RowMoves
  <2>3. ASSUME NEW t, NEW o, NEW keys, t = [row[home] EXCEPT ![x] = R!FreshRow],
               ~R!Has(row[home], x), R!Write(p, home, t, o, keys)
        PROVE  RowMoves(s, k, row[s][k], row'[s][k])
    <3>1. \A j \in Pairs : t[j] = row[home][j] \/ row[home][j] = Missing
      BY <1>1, <2>3 DEF R!Tables, R!Has
    <3>2. \A j \in Pairs : RowMoves(home, j, row[home][j], t[j])
      BY <3>1 DEF RowMoves
    <3>3. QED
      BY <1>1, <2>3, <3>2, WriteMoves
  <2>4. QED
    BY <1>4, <2>1, <2>2, <2>3 DEF R!Insert
<1>5. ASSUME R!Reinforce(p)
      PROVE  RowMoves(s, k, row[s][k], row'[s][k])
  <2>1. PICK K : row' = [row EXCEPT ![home] =
             [j \in Pairs |-> IF j \in K /\ R!Has(row[home], j) THEN R!Shown(row[home][j])
                              ELSE row[home][j]]]
    BY <1>5 DEF R!Reinforce
  <2>2. CASE s = home /\ k \in K /\ R!Has(row[home], k)
    <3>1. PICK r \in R!Rows : r = row[s][k]
      BY <1>1, <2>2 DEF R!Has
    <3>2. row'[s][k] = R!Shown(r)
      BY <1>1, <2>1, <2>2, <3>1
    <3>3. QED
      BY <3>1, <3>2, UseMoves
  <2>3. CASE ~(s = home /\ k \in K /\ R!Has(row[home], k))
    <3>1. row'[s][k] = row[s][k]
      BY <1>1, <2>1, <2>3
    <3>2. QED
      BY <3>1 DEF RowMoves
  <2>4. QED
    BY <2>2, <2>3
<1>6. ASSUME R!QuietWeek
      PROVE  RowMoves(s, k, row[s][k], row'[s][k])
  <2>1. row'[s][k] = IF R!Has(row[s], k) THEN [row[s][k] EXCEPT !.idle = TRUE] ELSE Missing
    BY <1>6 DEF R!QuietWeek
  <2>2. CASE R!Has(row[s], k)
    <3>1. PICK r \in R!Rows : r = row[s][k]
      BY <1>1, <2>2 DEF R!Has
    <3>2. PICK u : u = [r EXCEPT !.idle = TRUE]
      OBVIOUS
    <3>3. r \in [weight : Int, idle : BOOLEAN, promoted : BOOLEAN] /\ r.weight \in Int
      BY RowTells
    <3>4. u \in [weight : Int, idle : BOOLEAN, promoted : BOOLEAN] /\ u.weight = r.weight
      BY <3>2, <3>3
    <3>5. row'[s][k] = u
      BY <2>1, <2>2, <3>1, <3>2
    <3>6. u # Missing
      BY <3>4, MissingIsNoRow
    <3>7. u.weight >= r.weight
      BY <3>3, <3>4
    <3>8. QED
      BY <3>1, <3>5, <3>6, <3>7 DEF RowMoves
  <2>3. CASE ~R!Has(row[s], k)
    BY <2>1, <2>3 DEF RowMoves, R!Has
  <2>4. QED
    BY <2>2, <2>3
<1>7. QED
  BY <1>2, <1>3, <1>4, <1>5, <1>6

\* The decay takes weight, and rows, of the idle and of the worn out only.
LEMMA DecayMoves ==
  ASSUME R!TypeOK, R!Fade \/ R!Prune, NEW s \in R!Stores, NEW k \in Pairs
  PROVE  RowMoves(s, k, row[s][k], row'[s][k])
<1>1. /\ row \in [R!Stores -> R!Tables] /\ home \in R!Stores /\ row[home] \in R!Tables
      /\ \A y \in R!Stores, j \in Pairs : row[y][j] \in R!Rows \cup {Missing}
  BY TypesCount DEF R!TypeOK
<1>2. ASSUME R!Prune
      PROVE  RowMoves(s, k, row[s][k], row'[s][k])
  <2>1. PICK t, o, keys : t = R!Pruned(row[home]) /\ R!Write(Daemon, home, t, o, keys)
    BY <1>2 DEF R!Prune
  <2>2. \A j \in Pairs : RowMoves(home, j, row[home][j], t[j])
    BY <1>1, <2>1, FadedTells DEF RowMoves
  <2>3. QED
    BY <1>1, <2>1, <2>2, WriteMoves
<1>3. ASSUME R!Fade
      PROVE  RowMoves(s, k, row[s][k], row'[s][k])
  <2>1. PICK f \in R!Tables : f = R!Faded(row[home])
    BY <1>1, FadedTells
  <2>2. PICK t, o, keys : /\ t = R!Pruned(f) \/ t = f
                          /\ R!Write(Daemon, home, t, o, keys)
    BY <1>3, <2>1 DEF R!Fade
  <2>3. ASSUME NEW j \in Pairs
        PROVE  RowMoves(home, j, row[home][j], t[j])
    <3>1. CASE row[home][j] = Missing
      BY <3>1 DEF RowMoves
    <3>2. CASE row[home][j] # Missing
      <4>1. \/ f[j] = row[home][j]
            \/ row[home][j].idle /\ f[j] \in R!Rows
        BY <1>1, <2>1, FadedTells
      <4>2. f[j] # Missing
        BY <3>2, <4>1, RowTells
      <4>3. RowMoves(home, j, row[home][j], f[j])
        BY <1>3, <4>1, <4>2 DEF RowMoves, R!Fade
      <4>4. CASE t[j] = f[j]
        BY <4>3, <4>4
      <4>5. CASE f[j].weight < 1 /\ t[j] = Missing
        BY <4>1, <4>5 DEF RowMoves
      <4>6. QED
        BY <2>2, <4>4, <4>5, FadedTells
    <3>3. QED
      BY <3>1, <3>2
  <2>4. QED
    BY <1>1, <2>2, <2>3, WriteMoves
<1>4. QED
  BY <1>2, <1>3

\* A transfer writes the higher of two weights, but for one it read before.
LEMMA MergeMoves ==
  ASSUME R!TypeOK, \A q \in Users : ReadKept(q, using[q]), NEW p \in Users, R!Merge(p),
         NEW s \in R!Stores, NEW k \in Pairs
  PROVE  RowMoves(s, k, row[s][k], row'[s][k])
<1>1. /\ using[p] \in R!Stages /\ using[p].at = "merge" /\ ReadKept(p, using[p])
      /\ row \in [R!Stores -> R!Tables]
      /\ \A y \in R!Stores, j \in Pairs : row[y][j] \in R!Rows \cup {Missing}
  BY TypesCount DEF R!Merge, R!TypeOK
<1>2. using[p] \in [at : {"merge"}, dst : R!Stores, rows : R!Tables, key : Pairs,
                    seen : R!Rows \cup {Missing}, todo : SUBSET Pairs]
  BY <1>1, StageTells
<1>3. PICK y \in R!Stores, i \in Pairs, x \in R!Rows \cup {Missing}, rest \in SUBSET Pairs,
           c \in R!Tables :
        y = using[p].dst /\ i = using[p].key /\ x = using[p].seen /\ rest = using[p].todo
        /\ c = using[p].rows
  BY <1>2
<1>4. \A j \in rest \cup {i} : c[j] \in R!Rows
  BY <1>1, <1>3 DEF ReadKept, R!Has, R!Tables
<1>5. PICK one, all :
        /\ one = [row[y] EXCEPT ![i] = IF x # Missing /\ row[y][i] = Missing THEN Missing
                                       ELSE R!Carried(p, i, x)]
        /\ all = [j \in Pairs |-> IF j \in rest THEN R!Carried(p, j, row[y][j]) ELSE one[j]]
  OBVIOUS
<1>6. ASSUME NEW j \in rest \cup {i}, NEW v \in R!Rows
      PROVE  RowMoves(y, j, v, R!Carried(p, j, v)) /\ R!Carried(p, j, v) # Missing
  <2>1. PICK r \in R!Rows, u \in R!Rows :
          r = c[j] /\ u = R!Merged(r, v) /\ u = R!Carried(p, j, v)
    BY <1>3, <1>4, <1>6, MergedTells, RowTells DEF R!Carried
  <2>2. r.weight \in Int /\ v.weight \in Int /\ u # Missing
    BY RowTells
  <2>3. u.weight = R!Most(r.weight, v.weight)
    <3>1. R!Merged(r, v).weight = R!Most(r.weight, v.weight)
      BY MergedTells
    <3>2. QED
      BY <2>1, <3>1
  <2>4. u.weight >= v.weight
    BY <2>2, <2>3 DEF R!Most
  <2>5. QED
    BY <2>1, <2>2, <2>4 DEF RowMoves
<1>7. ASSUME NEW j \in Pairs
      PROVE  RowMoves(y, j, row[y][j], one[j])
  <2>1. CASE j # i
    <3>1. one[j] = row[y][j]
      BY <1>1, <1>5, <2>1 DEF R!Tables
    <3>2. QED
      BY <3>1 DEF RowMoves
  <2>2. CASE j = i /\ row[y][i] = Missing
    BY <2>2 DEF RowMoves
  <2>3. CASE j = i /\ row[y][i] # Missing
    <3>1. one[j] = R!Carried(p, i, x)
      BY <1>1, <1>5, <2>3 DEF R!Tables
    <3>2. CASE x = row[y][i]
      BY <1>1, <1>6, <2>3, <3>1, <3>2
    <3>3. CASE x # row[y][i]
      <4>1. R!Carried(p, i, x) # Missing
        <5>1. CASE x = Missing
          BY <1>3, <1>4, <5>1, RowTells DEF R!Carried
        <5>2. CASE x # Missing
          BY <1>3, <1>6, <5>2
        <5>3. QED
          BY <5>1, <5>2
      <4>2. QED
        BY <1>1, <1>3, <2>3, <3>1, <3>3, <4>1 DEF RowMoves
    <3>4. QED
      BY <3>2, <3>3
  <2>4. QED
    BY <2>1, <2>2, <2>3
<1>8. ASSUME NEW j \in Pairs
      PROVE  RowMoves(y, j, row[y][j], all[j])
  <2>1. CASE j \in rest /\ row[y][j] # Missing
    <3>1. PICK v \in R!Rows : v = row[y][j]
      BY <1>1, <2>1
    <3>2. all[j] = R!Carried(p, j, v)
      BY <1>5, <2>1, <3>1
    <3>3. QED
      BY <1>6, <2>1, <3>1, <3>2
  <2>2. CASE row[y][j] = Missing
    BY <2>2 DEF RowMoves
  <2>3. CASE j \notin rest
    <3>1. all[j] = one[j]
      BY <1>5, <2>3
    <3>2. QED
      BY <1>7, <3>1
  <2>4. QED
    BY <2>1, <2>2, <2>3
<1>9. \/ UNCHANGED row
      \/ R!Write(p, y, all, R!Idle, {})
      \/ R!Write(p, y, one, R!Idle, {i})
      \/ R!Write(p, y, one, [at |-> "compare", dst |-> y, rows |-> c, todo |-> rest], {i})
  BY <1>3, <1>5 DEF R!Merge
<1>10. CASE UNCHANGED row
  BY <1>10 DEF RowMoves
<1>11. ASSUME NEW o, NEW keys, R!Write(p, y, all, o, keys) \/ R!Write(p, y, one, o, keys)
       PROVE  RowMoves(s, k, row[s][k], row'[s][k])
  <2>1. CASE R!Write(p, y, all, o, keys)
    BY <1>8, <2>1, WriteMoves
  <2>2. CASE R!Write(p, y, one, o, keys)
    BY <1>7, <2>2, WriteMoves
  <2>3. QED
    BY <1>11, <2>1, <2>2
<1>12. QED
  BY <1>9, <1>10, <1>11

\* No step takes what a use has earned.
LEMMA EarningsStay ==
  ASSUME BridgesInv, R!Next \/ UNCHANGED bridges, NEW s \in R!Stores, NEW k \in Pairs,
         R!Has(row[s], k)
  PROVE  /\ R!Has(row'[s], k) /\ row'[s][k].weight < row[s][k].weight =>
              \/ using[Daemon].at = "fade" /\ s = home /\ row[s][k].idle
              \/ row[s][k].weight > Cap /\ row'[s][k].weight = Cap
              \/ \E p \in Users : /\ using[p].at = "merge" /\ using[p].dst = s
                                  /\ using[p].key = k /\ using[p].seen # row[s][k]
         /\ ~R!Has(row'[s], k) => row[s][k].idle \/ k \in worn \/ lost + fails > 0
<1>1. /\ R!TypeOK /\ Counted /\ row[s][k] \in R!Rows /\ row[s][k].weight \in Int
      /\ row[s][k] # Missing /\ \A q \in Users : ReadKept(q, using[q])
      /\ RowKept(s, k, row[s][k])
  BY TypesCount, RowTells DEF BridgesInv, R!Has
<1>2. RowMoves(s, k, row[s][k], row'[s][k])
  <2>1. \/ UNCHANGED row
        \/ R!Fade \/ R!Prune
        \/ \E p \in Users : R!Merge(p)
        \/ \E p \in Users : R!Import(p) \/ R!Bump(p) \/ R!Insert(p) \/ R!Reinforce(p)
        \/ R!QuietWeek
    BY DEF bridges, R!Next, R!Add, R!Surface, R!Decay, R!Begin, R!Transfer,
       R!Count, R!Retire, R!Look,
           R!ReadRows, R!Confirm, R!Take, R!Compare, R!Fail
  <2>2. CASE UNCHANGED row
    BY <2>2 DEF RowMoves
  <2>3. CASE R!Fade \/ R!Prune
    BY <1>1, <2>3, DecayMoves
  <2>4. ASSUME NEW p \in Users, R!Merge(p) PROVE RowMoves(s, k, row[s][k], row'[s][k])
    BY <1>1, <2>4, MergeMoves
  <2>5. ASSUME NEW p \in Users, R!Import(p) \/ R!Bump(p) \/ R!Insert(p) \/ R!Reinforce(p)
        PROVE  RowMoves(s, k, row[s][k], row'[s][k])
    BY <1>1, <2>5, UsesMove
  <2>6. CASE R!QuietWeek
    BY <1>1, <2>6, BridgeRules, UsesMove
  <2>7. QED
    BY <2>1, <2>2, <2>3, <2>4, <2>5, <2>6
<1>3. PICK r \in R!Rows : r = row[s][k]
  BY <1>1
<1>4. PICK u \in R!Rows \cup {Missing} : u = row'[s][k]
  <2>1. CASE UNCHANGED bridges
    BY <1>1, <2>1 DEF bridges
  <2>2. CASE R!Next
    <3>1. R!TypeOK'
      BY <2>2, BridgesActs DEF BridgesInv
    <3>2. row' \in [R!Stores -> R!Tables]
      BY <3>1 DEF R!TypeOK
    <3>3. QED
      BY <3>2 DEF R!Tables
  <2>3. QED
    BY <2>1, <2>2
<1>5. ASSUME u # Missing, u.weight < r.weight
      PROVE  \/ using[Daemon].at = "fade" /\ s = home /\ r.idle
             \/ r.weight > Cap /\ u.weight = Cap
             \/ \E p \in Users : /\ using[p].at = "merge" /\ using[p].dst = s
                                 /\ using[p].key = k /\ using[p].seen # r
  <2>1. r.weight \in Int /\ r # Missing /\ u.weight \in Int
    BY <1>1, <1>3, <1>5, RowTells
  <2>2. QED
    BY <1>2, <1>3, <1>4, <1>5, <2>1 DEF RowMoves
<1>6. ASSUME u = Missing
      PROVE  r.idle \/ k \in worn \/ lost + fails > 0
  <2>1. r # Missing /\ r.weight \in Int /\ RowKept(s, k, r)
    BY <1>1, <1>3
  <2>2. r.idle \/ r.weight < 1
    BY <1>2, <1>3, <1>4, <1>6, <2>1 DEF RowMoves
  <2>3. r.idle \/ r.weight >= 1 \/ k \in worn \/ lost > 0 \/ fails > 0
    BY <2>1 DEF RowKept, Hale
  <2>4. lost > 0 \/ fails > 0 => lost + fails > 0
    BY <1>1 DEF Counted
  <2>5. QED
    BY <2>1, <2>2, <2>3, <2>4
<1>7. QED
  BY <1>3, <1>4, <1>5, <1>6 DEF R!Has

-----------------------------------------------------------------------------
(* All of them.                                                            *)
-----------------------------------------------------------------------------

\* Each part keeps its own invariant, and the others' steps leave it alone.
THEOREM JobsInvariant == Spec => []JobsInv
<1>1. Init => JobsInv
  BY StimuliStart, PromotionStart, BridgesStart, BlackboardStart,
     ProcessesStart,
     MigrationStart DEF Init, JobsInv
<1>2. JobsInv /\ [Next]_vars => JobsInv'
  <2>1. SUFFICES ASSUME JobsInv, [Next]_vars PROVE JobsInv'
    OBVIOUS
  <2>2. part' = part
    BY <2>1 DEF Next, vars
  <2>3. StimuliInv'
    BY <2>1, StimuliStep DEF Next, vars, JobsInv
  <2>4. PromotionInv'
    BY <2>1, PromotionStep DEF Next, vars, JobsInv
  <2>5. BridgesInv'
    BY <2>1, BridgesStep DEF Next, vars, JobsInv
  <2>6. BlackboardInv'
    BY <2>1, BlackboardStep DEF Next, vars, JobsInv
  <2>7. ProcessesInv'
    BY <2>1, ProcessesStep DEF Next, vars, JobsInv
  <2>8. MigrationInv'
    BY <2>1, MigrationStep DEF Next, vars, JobsInv
  <2>9. QED
    BY <2>1, <2>2, <2>3, <2>4, <2>5, <2>6, <2>7, <2>8 DEF JobsInv
<1>3. QED
  BY <1>1, <1>2, PTL DEF Spec

\* The state of every job is what its module says.
THEOREM TypeCorrect == Spec => []TypeOK
<1>1. JobsInv => TypeOK
  BY DEF JobsInv, TypeOK, StimuliInv, PromotionInv, BridgesInv, BlackboardInv,
     ProcessesInv, MigrationInv
<1>2. QED
  BY <1>1, JobsInvariant, PTL

\* The stimuli keep measure: nothing is said to a session twice, nothing too
\* soon unless two asked at once, and no silence is let pass.
THEOREM StimuliAlwaysKeepMeasure == Spec => []StimuliKeepMeasure
<1>1. JobsInv => StimuliKeepMeasure
  BY DEF JobsInv, StimuliInv, StimuliKeepMeasure, S!OnceEach, S!NotTooSoon,
     S!SilenceIsBroken
<1>2. QED
  BY <1>1, JobsInvariant, PTL

\* However many promotions overlap, a promoted concept has each of its facts
\* once, unless a question about it failed.
THEOREM PromotionAddsOnce == Spec => []FactsArriveOnce
<1>1. JobsInv => FactsArriveOnce
  BY DEF JobsInv, PromotionInv, FactsArriveOnce
<1>2. QED
  BY <1>1, JobsInvariant, PTL

\* No bridge weighs more than the uses asked for and the answers lost, and each
\* promotion has been told to Neuron or is about to be.
THEOREM BridgesAreEarned == Spec => []AccountsAreTrue
<1>1. JobsInv => AccountsAreTrue
  BY BridgesTell DEF JobsInv
<1>2. QED
  BY <1>1, JobsInvariant, PTL

\* What a use of a bridge has earned stays: its weight goes down, and its row
\* goes, only in the ways named.
THEOREM BridgesKeepEarnings == Spec => EarnedStays
<1>1. JobsInv /\ [Next]_vars =>
        [\A s \in R!Stores, k \in Pairs :
           R!Has(row[s], k) /\ R!Has(row'[s], k) /\ row'[s][k].weight < row[s][k].weight
             => \/ using[Daemon].at = "fade" /\ s = home /\ row[s][k].idle
                \/ row[s][k].weight > Cap /\ row'[s][k].weight = Cap
                \/ \E p \in Users :
                     /\ using[p].at = "merge" /\ using[p].dst = s /\ using[p].key = k
                     /\ using[p].seen # row[s][k]]_bridges
  BY EarningsStay DEF JobsInv, Next, vars
<1>2. JobsInv /\ [Next]_vars =>
        [\A s \in R!Stores, k \in Pairs :
           R!Has(row[s], k) /\ ~R!Has(row'[s], k) =>
             row[s][k].idle \/ k \in worn \/ lost + fails > 0]_bridges
  BY EarningsStay DEF JobsInv, Next, vars
<1>3. Spec => R!UsesStayCounted
  BY <1>1, JobsInvariant, PTL DEF Spec, R!UsesStayCounted, R!vars, bridges
<1>4. Spec => R!FreshIsNotPruned
  BY <1>2, JobsInvariant, PTL DEF Spec, R!FreshIsNotPruned, R!vars, bridges
<1>5. QED
  BY <1>3, <1>4 DEF EarnedStays, R!EarnedStays

\* Who follows the blackboard's versions has every value, unless two were set
\* together.
THEOREM FollowersMissNothing == Spec => []DeltaMissesNothing
<1>1. JobsInv => DeltaMissesNothing
  BY DEF JobsInv, BlackboardInv, DeltaMissesNothing
<1>2. QED
  BY <1>1, JobsInvariant, PTL

\* No reaper picks a process that still serves.
THEOREM ReapersSpareWhoServes == Spec => []OnlyTheLeftAreReaped
<1>1. JobsInv => OnlyTheLeftAreReaped
  BY DEF JobsInv, ProcessesInv, OnlyTheLeftAreReaped, L!OnlyTheLeftAreReaped
<1>2. QED
  BY <1>1, JobsInvariant, PTL

\* However a move of folders is interrupted, what was written is in one or the
\* other, unless somebody wrote behind it.
THEOREM MovesLoseNothing == Spec => []MemoryIsSomewhere
<1>1. JobsInv => MemoryIsSomewhere
  BY DEF JobsInv, MigrationInv, MoveInv, MemoryIsSomewhere,
     M!MemoryIsSomewhere, M!TypeOK
<1>2. QED
  BY <1>1, JobsInvariant, PTL

=============================================================================
