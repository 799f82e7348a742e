------------------------------ MODULE Promotion ------------------------------
(***************************************************************************)
(* Promotion (src/promote.py, src/server.py _do_promote): what Neuron's    *)
(* export shows to be old and anchored becomes a node of NeuRAG, under one *)
(* godnode, with its facts as chunks.                                      *)
(*                                                                         *)
(* It runs in the daemon; each write is a question of its own to NeuRAG's  *)
(* worker, which may fail before or after the worker has obeyed, and two   *)
(* promotions may overlap (a command whose answer is late is given again). *)
(* NeuRAG has no dedup of chunks: the node's existence stands for theirs.  *)
(***************************************************************************)
EXTENDS Naturals, FiniteSets, FiniteSetsExt

CONSTANTS
  Ops,        \* promotions in progress
  Concepts,
  Facts,      \* what an episode or a link's rationale says
  MinAge,     \* min_age_turns
  MinStrong,  \* min_strong_links
  MaxTurns, MaxLinks, MaxFaults

VARIABLES
  turn, links, episodes,           \* Neuron's graph, as its export shows it
  trusted,                         \* concepts trusted, or often active together with others
  godnode, nodes, chunks,          \* NeuRAG's: chunks counts each fact
  op,                              \* each promotion: its step, what is to do, its report
  faults, from, harmed             \* ghosts: the facts each node came with; faults' concepts

vars == <<turn, links, episodes, trusted, godnode, nodes, chunks, op, faults, from, harmed>>
neuron == <<turn, links, episodes, trusted>>
neurag == <<godnode, nodes, chunks>>

NoFacts == [k \in Concepts |-> {}]
Idle == [step |-> "idle", at |-> {}, todo |-> {}, facts |-> NoFacts, report |-> NoFacts]
Link == [ends : {e \in SUBSET Concepts : Cardinality(e) = 2}, drift : BOOLEAN,
         weight : {"strong", "medium", "weak"}, why : Facts, turn : 0..MaxTurns]

TypeOK ==
  /\ turn \in 0..MaxTurns /\ links \subseteq Link /\ Cardinality(links) <= MaxLinks
  /\ episodes \in [Concepts -> SUBSET Facts] /\ trusted \subseteq Concepts
  /\ godnode \in BOOLEAN /\ nodes \subseteq Concepts /\ (nodes # {} => godnode)
  /\ chunks \in [Concepts -> [Facts -> 0..MaxFaults + 1]]
  /\ op \in [Ops -> [step : {"idle", "parent", "node", "chunks", "done"},
                     at : SUBSET Concepts, todo : SUBSET Concepts,
                     facts : [Concepts -> SUBSET Facts],
                     report : [Concepts -> SUBSET {"written", "already", "skipped"}]]]
  /\ \A o \in Ops : /\ Cardinality(op[o].at) = IF op[o].step = "chunks" THEN 1 ELSE 0
                    /\ op[o].at \cap op[o].todo = {}
                    /\ \A k \in op[o].todo : op[o].report[k] = {}
                    /\ op[o].step = "done" => op[o].todo = {}
  /\ faults \in 0..MaxFaults /\ from \in [Concepts -> SUBSET Facts] /\ harmed \subseteq Concepts

Init ==
  /\ turn = 0 /\ links = {} /\ episodes = NoFacts /\ trusted = {}
  /\ godnode = FALSE /\ nodes = {} /\ chunks = [k \in Concepts |-> [f \in Facts |-> 0]]
  /\ op = [o \in Ops |-> Idle]
  /\ faults = 0 /\ from = NoFacts /\ harmed = {}

-----------------------------------------------------------------------------
(* Eligibility (promote.candidates).                                       *)

\* first_seen: a drift link is a proof of age, and of nothing else.
Touching(k) == {l \in links : k \in l.ends}
Born(k) == Min({l.turn : l \in Touching(k)})
\* _structure
Strong(k) == {l \in Touching(k) : l.weight = "strong" /\ ~l.drift}
\* chunks_for: the rationales of its links, its episodes.
ChunksFor(k) ==
  {l.why : l \in {l \in Touching(k) : ~l.drift /\ l.weight # "weak"}} \cup episodes[k]
Candidates == {k \in Concepts : /\ Touching(k) # {}
                                /\ turn - Born(k) >= MinAge
                                /\ k \in trusted \/ Cardinality(Strong(k)) >= MinStrong}

\* Neuron goes on meanwhile.
Turn ==
  /\ turn < MaxTurns /\ turn' = turn + 1
  /\ \/ /\ Cardinality(links) < MaxLinks
        /\ \E l \in Link : l.turn = turn /\ links' = links \cup {l}
        /\ UNCHANGED <<episodes, trusted>>
     \/ \E k \in Concepts, f \in Facts : episodes' = [episodes EXCEPT ![k] = @ \cup {f}]
        /\ UNCHANGED <<links, trusted>>
     \/ \E k \in Concepts : trusted' = trusted \cup {k} /\ UNCHANGED <<links, episodes>>
  /\ UNCHANGED <<neurag, op, faults, from, harmed>>

-----------------------------------------------------------------------------
(* A question to NeuRAG.                                                   *)

\* What may become of it: the worker dies before or after it obeys, which is
\* an error's text; it cannot be started, which raises.
Fates == {"answered", "lost", "late", "raised"}
Obeyed(fate) == fate \in {"answered", "late"}
Befalls(fate, ks) ==
  IF fate = "answered" THEN UNCHANGED <<faults, harmed>>
  ELSE faults < MaxFaults /\ faults' = faults + 1 /\ harmed' = harmed \cup ks

\* The export, read at once; an unreadable one, or nothing to promote, ends it.
Export(o) ==
  /\ op[o].step \in {"idle", "done"}
  /\ op' = [op EXCEPT ![o] = [Idle EXCEPT !.step = IF Candidates = {} THEN "done" ELSE "parent",
                                          !.todo = Candidates,
                                          !.facts = [k \in Concepts |-> ChunksFor(k)]]]
  /\ UNCHANGED <<neuron, neurag, faults, from, harmed>>

\* That the godnode exists already arrives as text, and so does an error: only
\* an exception ends the promotion.
Parent(o) ==
  /\ op[o].step = "parent"
  /\ \E fate \in Fates :
       /\ Befalls(fate, {})
       /\ godnode' = (godnode \/ Obeyed(fate))
       /\ op' = [op EXCEPT ![o] = IF fate = "raised" THEN [Idle EXCEPT !.step = "done"]
                                  ELSE [@ EXCEPT !.step = "node"]]
  /\ UNCHANGED <<neuron, nodes, chunks, from>>

\* What comes back from add_node.
Said(k, fate) ==
  CASE fate = "raised" -> "raised"
    [] fate \in {"lost", "late"} -> "error"
    [] fate = "answered" /\ ~godnode -> "not found"
    [] fate = "answered" /\ godnode /\ k \in nodes -> "already exists"
    [] OTHER -> "created"

\* A candidate is dealt with: on to its chunks, to the next one, or to the end.
Past(r, k, words, chunked) ==
  LET rest == r.todo \ {k} IN
    [r EXCEPT !.todo = rest, !.report[k] = @ \cup words,
              !.at = IF chunked THEN {k} ELSE {},
              !.step = CASE chunked -> "chunks" [] ~chunked /\ rest = {} -> "done"
                         [] OTHER -> "node"]
\* Mutant of AfterNode: a node that was there gets its chunks again.
AfterNodeAgain(r, k, said) ==
  CASE said \in {"raised", "not found"} -> Past(r, k, {"skipped"}, FALSE)
    [] OTHER -> Past(r, k, {"written"}, r.facts[k] # {})
AfterNode(r, k, said) ==
  CASE said = "already exists" -> Past(r, k, {"already"}, FALSE)
    [] said \in {"raised", "not found"} -> Past(r, k, {"skipped"}, FALSE)
    [] said \in {"created", "error"} -> Past(r, k, {"written"}, r.facts[k] # {})

\* The next candidate, in any order (the code's is the score's).
Node(o) ==
  /\ op[o].step = "node"
  /\ \E k \in op[o].todo, fate \in Fates :
       LET new == godnode /\ k \notin nodes /\ Obeyed(fate) IN
         /\ Befalls(fate, {k})
         /\ nodes' = IF new THEN nodes \cup {k} ELSE nodes
         /\ from' = IF new THEN [from EXCEPT ![k] = op[o].facts[k]] ELSE from
         /\ op' = [op EXCEPT ![o] = AfterNode(@, k, Said(k, fate))]
  /\ UNCHANGED <<neuron, godnode, chunks>>

\* Its chunks are added to whatever the node has; an error is not looked at,
\* an exception makes a concept both written and skipped.
Chunks(o) ==
  /\ op[o].step = "chunks"
  /\ \E k \in op[o].at, fate \in Fates :
       /\ Befalls(fate, {k})
       /\ chunks' = IF k \notin nodes THEN chunks
                    ELSE [chunks EXCEPT ![k] = [f \in Facts |-> @[f] +
                            IF Obeyed(fate) /\ f \in op[o].facts[k] THEN 1 ELSE 0]]
       /\ op' = [op EXCEPT ![o] = Past(@, k, IF fate = "raised" THEN {"skipped"} ELSE {}, FALSE)]
  /\ UNCHANGED <<neuron, godnode, nodes, from>>

Next == Turn \/ \E o \in Ops : Export(o) \/ Parent(o) \/ Node(o) \/ Chunks(o)

-----------------------------------------------------------------------------
(* Properties.                                                             *)

\* A promoted concept has every fact it had when it was promoted, once each,
\* as soon as nobody is on the way from its node to its chunks: whatever
\* promotions overlap, and however often it is promoted again, unless a
\* question about it failed.
FactsArriveOnce ==
  \A k \in nodes \ harmed :
    \/ \E o \in Ops : op[o].at = {k}
    \/ \A f \in Facts : chunks[k][f] = IF f \in from[k] THEN 1 ELSE 0

=============================================================================
