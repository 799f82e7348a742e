------------------------------ MODULE MCSharedJson ------------------------------
(***************************************************************************)
(* SharedJson for TLC: three processes, one of which may die.  They are    *)
(* interchangeable, so they are numbered in the order in which they begin  *)
(* or die (a symmetry set would not do for the liveness property).  The    *)
(* third one is in pids.json to begin with; the manifest is empty.         *)
(***************************************************************************)
EXTENDS SharedJson

MCProcs == 1..3

Begun(p) == op[p] # Idle
InOrder == \A p \in Procs \ {1} : Begun(p) => Begun(p - 1)

MCInit == Init /\ file = CASE name = "pids" -> {3} [] name = "manifest" -> {} [] OTHER -> file
MCSpec == MCInit /\ [][Next /\ InOrder']_vars /\ Fairness
=============================================================================
