------------------------------ MODULE MCUserSide ------------------------------
(***************************************************************************)
(* The parts of UserSide for TLC.  Two pulses have the key "rust", two     *)
(* have "rust async", and a store on "rust  async", with two blanks,       *)
(* changes the contexts of both and names the former only.  The panel has  *)
(* a plain command and a repair.  There is one client of each format, and  *)
(* two tools.                                                              *)
(***************************************************************************)
EXTENDS UserSide, TLC

CONSTANTS g1, p1, p2, p3, p4, w1, neuron, neurag

MCGateways == {g1}
MCTopics == {<<"rust">>, <<"rust", " ", "async">>}
MCPulses == {p1, p2, p3, p4}
MCStores == {w1}
MCAt == [r \in MCPulses \cup MCStores |-> g1]
MCAbout == (p1 :> <<"rust">>) @@ (p2 :> <<"rust">>)
           @@ (p3 :> <<" ", "rust", " ", "async">>) @@ (p4 :> <<" ", "rust", " ", "async">>)
           @@ (w1 :> <<"rust", " ", " ", "async">>)
MCChanges == [w \in MCStores |-> MCTopics]

MCKeys == {"scan", "repair"}
MCLogged == {"repair"}

MCJson == {"cursor"}
MCToml == {"codex"}
MCCli == {"code"}
MCRank == [c \in MCJson \cup MCToml \cup MCCli |->
             CASE c = "cursor" -> 1 [] c = "code" -> 2 [] OTHER -> 3]
MCTools == {neuron, neurag}
MCPicks == {MCJson \cup MCToml \cup MCCli, MCJson}

\* The pulses of a key are alike.
PulseSymmetry ==
  {f \in Permutations(MCPulses) : \A p \in MCPulses : MCAbout[f[p]] = MCAbout[p]}
ToolSymmetry == Permutations(MCTools)
=============================================================================
