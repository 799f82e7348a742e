-------------------------------- MODULE MCJobs --------------------------------
(***************************************************************************)
(* Two calls in flight and two hooks' sessions; two promotions of two      *)
(* concepts; three processes that set two keys; two gateways, a daemon, a  *)
(* worker and a tool that reaps; two tools with a folder of two files; a   *)
(* gateway and the daemon with two bridges, which one topic matches.       *)
(***************************************************************************)
EXTENDS Jobs, TLC

CONSTANTS a1, a2, b1, b2

\* The parts share no state, so the same names stand for their actors.
MCActors == {a1, a2}
MCThings == {b1, b2}

\* What an old file has weighs more than the cap, and has not been used of late.
MCOldRows == [k \in MCThings |-> [weight |-> 4, idle |-> TRUE, promoted |-> FALSE]]

\* One topic, which matches both bridges.
MCMatches == {MCThings}

Symmetry == Permutations(MCActors) \cup Permutations(MCThings)
PairSymmetry == Permutations(MCThings)

=============================================================================
