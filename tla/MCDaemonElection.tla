--------------------------- MODULE MCDaemonElection ---------------------------
(***************************************************************************)
(* DaemonElection for TLC: daemons and a gateway that start together.      *)
(***************************************************************************)
EXTENDS DaemonElection
CONSTANTS d1, d2, g1

MCTwoDaemons == {d1, d2}
MCGateways == {g1}
MCFirst == {1}
MCBothPlatforms == {"windows", "posix"}
=============================================================================
