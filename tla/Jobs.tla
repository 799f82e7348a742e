--------------------------------- MODULE Jobs ---------------------------------
(***************************************************************************)
(* What GM does of its own, next to passing calls on: the stimuli it adds  *)
(* to answers, the promotion of memory, the bridges between memory and     *)
(* knowledge, the blackboard (src/server.py, src/promote.py,               *)
(* src/bridges.py, src/state.py); and its housekeeping: the reaping of     *)
(* processes left behind, the move of old folders (src/pids.py,            *)
(* src/paths.py).                                                          *)
(*                                                                         *)
(* They share no state, and what each promises is about its own steps: a   *)
(* behaviour here is of one of them, with all it depends on free.  Which   *)
(* of them may begin is a parameter, Parts.                                *)
(***************************************************************************)
EXTENDS Integers, FiniteSets

CONSTANTS
  Parts,                                    \* which of the jobs
  Slots, Sessions, Gateway, SessionsMax,    \* calls in flight, and whose they are
  Topics, Dormant, Sections,                \* what they are about
  FlashGap, SafetyGap,                      \* gaps between stimuli
  Ops, Concepts, Facts, MinAge, MinStrong,  \* promotions, and their rules
  Users, Daemon, Pairs, Matches,            \* users of bridges, and the bridges
  Limits, PromoteAt, Cap, Missing, InitWeights, OldRows, OldMax,
  Setters, Keys,                            \* processes, and keys of the blackboard
  Gateways, Daemons, Workers, Reapers,      \* processes, and who reaps them
  Tools, Files,                             \* who uses a folder, and what is in it
  MaxTurns, MaxLinks, MaxFaults, MaxOps, MaxVersion, MaxRounds, MaxWrites  \* bounds

ASSUME PartsAreJobs ==
  Parts \subseteq {"stimuli", "promotion", "bridges", "blackboard", "processes", "migration"}
ASSUME GapsAreGaps == FlashGap \in Nat \ {0} /\ SafetyGap \in Nat \ {0}
ASSUME SessionsAreHeld == SessionsMax \in Nat \ {0}
ASSUME GatewayIsNoHook == Gateway \notin Sessions
ASSUME NamedThings == Topics # {} /\ Keys # {} /\ "none" \notin Topics
ASSUME Rules == MinAge \in Nat /\ MinStrong \in Nat \ {0}
ASSUME SectionsAreNoConcepts == Sections \cap Dormant = {}
ASSUME ReapersAreApart == Reapers \cap (Gateways \cup Daemons \cup Workers) = {}
ASSUME BridgeRules ==
  /\ Daemon \in Users /\ Matches \subseteq SUBSET Pairs /\ Limits \subseteq Nat
  /\ PromoteAt \in Nat \ {0} /\ Cap \in Nat /\ PromoteAt <= Cap /\ InitWeights \subseteq 1..Cap
  /\ OldMax \in Nat /\ Cap <= OldMax
  /\ OldRows \in [Pairs -> [weight : 1..OldMax, idle : BOOLEAN, promoted : BOOLEAN]]
ASSUME MissingIsNoRow == Missing \notin [weight : Int, idle : BOOLEAN, promoted : BOOLEAN]
ASSUME FiniteThings ==
  /\ IsFiniteSet(Users) /\ IsFiniteSet(Pairs)
  /\ IsFiniteSet(Ops) /\ IsFiniteSet(Setters) /\ IsFiniteSet(Files)
ASSUME Bounds == {MaxTurns, MaxLinks, MaxFaults, MaxOps, MaxVersion, MaxRounds, MaxWrites} \subseteq Nat

VARIABLES
  part,
  daemon, call, last, since, turns, held, shown, flashed, alive, quiet, apart, told,
  hasty, twice, mute,
  turn, links, episodes, trusted, godnode, nodes, chunks, op, faults, from, harmed,
  home, row, legacy, using, reported, asked, excused, worn, ops, lost, fails,
  state, setting, sets, seen, copy, raced,
  windows, up, gone, parent, pids, reap, struck, wronged,
  old, new, there, step, todo, failed, root, memory, behind

stimuli == <<daemon, call, last, since, turns, held, shown, flashed, alive, quiet, apart,
             told, hasty, twice, mute>>
promotion == <<turn, links, episodes, trusted, godnode, nodes, chunks, op, faults, from, harmed>>
bridges == <<home, row, legacy, using, reported, asked, excused, worn, ops, lost, fails>>
blackboard == <<state, setting, sets, seen, copy, raced>>
processes == <<windows, up, gone, parent, pids, reap, struck, wronged>>
migration == <<old, new, there, step, todo, failed, root, memory, behind>>
vars == <<part, stimuli, promotion, bridges, blackboard, processes, migration>>

S == INSTANCE Stimuli WITH Concepts <- Dormant
P == INSTANCE Promotion
R == INSTANCE Bridges WITH Procs <- Users, Keys <- Pairs, NoRow <- Missing, op <- using
B == INSTANCE Blackboard
L == INSTANCE Processes
M == INSTANCE Migration

TypeOK ==
  /\ part \in Parts
  /\ S!TypeOK /\ P!TypeOK /\ R!TypeOK /\ B!TypeOK /\ L!TypeOK /\ M!TypeOK

\* What another part may begin with does not matter.
Init ==
  /\ part \in Parts
  /\ S!Init /\ (part # "stimuli" => daemon)
  /\ P!Init /\ B!Init
  /\ R!Init
  /\ part # "bridges" => home = "local" /\ legacy = {} /\ \A s \in R!Stores : row[s] = R!Empty
  /\ L!Init /\ (part # "processes" => windows)
  /\ M!Init /\ (part # "migration" => DOMAIN old = Files)

Next ==
  \/ /\ part = "stimuli" /\ S!Next
     /\ UNCHANGED <<part, promotion, bridges, blackboard, processes, migration>>
  \/ /\ part = "promotion" /\ P!Next
     /\ UNCHANGED <<part, stimuli, bridges, blackboard, processes, migration>>
  \/ /\ part = "bridges" /\ R!Next
     /\ UNCHANGED <<part, stimuli, promotion, blackboard, processes, migration>>
  \/ /\ part = "blackboard" /\ B!Next
     /\ UNCHANGED <<part, stimuli, promotion, bridges, processes, migration>>
  \/ /\ part = "processes" /\ L!Next
     /\ UNCHANGED <<part, stimuli, promotion, bridges, blackboard, migration>>
  \/ /\ part = "migration" /\ M!Next
     /\ UNCHANGED <<part, stimuli, promotion, bridges, blackboard, processes>>

Spec == Init /\ [][Next]_vars

-----------------------------------------------------------------------------
(* What each promises, stated in its module.                               *)

\* The stimuli keep measure: each section is pointed at, and each concept flashed,
\* once in a session until it is forgotten; they keep their distance, unless asked for at the same time;
\* and too many silent turns are not let pass without Neuron being asked.
StimuliKeepMeasure == S!OnceEach /\ S!NotTooSoon /\ S!SilenceIsBroken
\* A promoted concept has its facts once, unless a question about it failed.
FactsArriveOnce == P!FactsArriveOnce
\* A bridge's weight is earned by use, and its promotion told to Neuron.
AccountsAreTrue == R!AccountsAreTrue
\* What a use of a bridge has earned is not taken away by the others.
EarnedStays == R!EarnedStays
\* Who follows the versions has every value, unless two were set together.
DeltaMissesNothing == B!DeltaMissesNothing
\* No reaper picks a process that still serves.
OnlyTheLeftAreReaped == L!OnlyTheLeftAreReaped
\* However a move is interrupted, what was written is in one folder or the other.
MemoryIsSomewhere == M!MemoryIsSomewhere
\* What paths.py says of a move that does not arrive: the old folder is read on.
LegacyStaysRead == M!LegacyStaysRead

=============================================================================
