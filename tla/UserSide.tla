------------------------------- MODULE UserSide -------------------------------
(***************************************************************************)
(* What those who use GM meet: an assistant its answers, which a gateway   *)
(* may have cached (PulseCache: src/cache.py, src/server.py); the user the *)
(* control center, which runs commands (Panel: src/webgui.py); and what    *)
(* the commands leave in the clients' configurations (Wiring:              *)
(* src/clients.py, src/executor.py).                                       *)
(*                                                                         *)
(* They share no state, and what each promises is about its own steps: a   *)
(* behaviour here is of one of them, with all it depends on free.  Which   *)
(* of them may begin is a parameter, Parts.                                *)
(***************************************************************************)
EXTENDS Integers, FiniteSets

CONSTANTS
  Parts,                                     \* which of the three
  Gateways, Pulses, Stores, at, about,       \* gateways and the requests to them
  Topics, Changes, Blank, MaxKey, CacheSize, HalfTTL, ErrorText, Absent,
  Keys, Logged,                              \* commands of the panel
  Json, Toml, Cli, rank,                     \* clients, and what is wired to them
  Tools, Neuron, GM, Picks,
  MaxNow, MaxStarts, MaxFaults               \* bounds

Requests == Pulses \cup Stores
Clients == Json \cup Toml \cup Cli

ASSUME PartsAreParts == Parts \subseteq {"cache", "panel", "wiring"}
ASSUME RequestsAreServed ==
  /\ Pulses \cap Stores = {}
  /\ at \in [Requests -> Gateways]
  /\ Changes \in [Stores -> SUBSET Topics]
ASSUME CacheRules == CacheSize \in Nat \ {0} /\ HalfTTL \in Nat \ {0} /\ ErrorText \notin Stores
ASSUME LoggedAreKeys == Logged \subseteq Keys /\ Keys # {}
ASSUME WiringRules ==
  GM \notin Tools /\ "all" \notin Clients /\ Picks \subseteq (SUBSET Clients) \ {{}}
ASSUME ClientsAreApart == Json \cap Toml = {} /\ Json \cap Cli = {} /\ Toml \cap Cli = {}
ASSUME ClientsAreRanked ==
  rank \in [Clients -> Nat] /\ \A c, d \in Clients : rank[c] = rank[d] => c = d
ASSUME Bounds == {MaxNow, MaxStarts, MaxFaults} \subseteq Nat

VARIABLES
  part,
  now, memory, cache, older, pc, got, source, before, met,
  up, cmd, child, inst, waits, typed, procs, running, shown, log, mute, failed, raced, left,
  entry, shape, mine, bak, unmanaged, manifest, hook, op, faults, settled, mixed, hit

pulses == <<now, memory, cache, older, pc, got, source, before, met>>
panel ==
  <<up, cmd, child, inst, waits, typed, procs, running, shown, log, mute, failed, raced, left>>
wiring == <<entry, shape, mine, bak, unmanaged, manifest, hook, op, faults, settled, mixed, hit>>
vars == <<part, pulses, panel, wiring>>

C == INSTANCE PulseCache
P == INSTANCE Panel WITH before <- shown, faults <- failed
W == INSTANCE Wiring

ASSUME AbsentIsNoEntry == Absent \notin C!Entries
ASSUME TopicsAreKnown == \A p \in Pulses : C!Topic(p) \in Topics

TypeOK == part \in Parts /\ C!TypeOK /\ P!TypeOK /\ W!TypeOK

Init == part \in Parts /\ C!Init /\ P!Init /\ W!Init

Next ==
  \/ part = "cache" /\ C!Next /\ UNCHANGED <<part, panel, wiring>>
  \/ part = "panel" /\ P!Next /\ UNCHANGED <<part, pulses, wiring>>
  \/ part = "wiring" /\ W!Next /\ UNCHANGED <<part, pulses, panel>>

\* Only the panel needs fairness: the others promise nothing that must happen.
Spec == Init /\ [][Next]_vars /\ P!Fairness

-----------------------------------------------------------------------------
(* What each promises, stated in its module.                               *)

\* A pulse that misses a store of its own gateway was answered from an entry the
\* store's text does not name, or whose filler was in flight while that store was.
StaleOnlyFromOverlap == C!StaleOnlyFromOverlap
\* The panel tells the truth about the commands it started, and can stop them.
PanelTellsTruth == P!PanelTellsTruth
\* A command that asks is answered, stopped, or left by its panel.
AskerIsAnswered == P!AskerIsAnswered
\* Wherever a command was cut off: one way in once the commands are over, the
\* user's own servers kept, a full install wired but for the steps that failed.
WiringIsSound == W!WiringIsSound
\* Moving a tool never takes it away from a client none of whose steps failed.
ToolsStayReachable == W!ToolsStayReachable
=============================================================================
