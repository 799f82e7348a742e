---------------------------- MODULE WorkerService ----------------------------
(***************************************************************************)
(* What the worker plumbing of src/server.py promises its callers, with no *)
(* process, pipe, thread or lock in sight: every request that is made ends *)
(* in exactly one way, with the answer to that very request or without     *)
(* one.  The one exception the plumbing leaves open is stated as such: a   *)
(* request may be handed another request's answer, but only once two other *)
(* requests have been walked away from while their answers were still due. *)
(***************************************************************************)
CONSTANT Requests

VARIABLE outcome  \* outcome[r]: how the request stands

Ends == {"own", "foreign", "none", "deserted"}

ServiceInit == outcome = [r \in Requests |-> "unasked"]

\* A caller asks.
Ask(r) ==
  /\ outcome[r] = "unasked"
  /\ outcome' = [outcome EXCEPT ![r] = "pending"]

\* It gets its own answer, an error text (or {}), or leaves an answer due.
Settle(r) ==
  /\ outcome[r] = "pending"
  /\ \E end \in {"own", "none", "deserted"} : outcome' = [outcome EXCEPT ![r] = end]

\* It gets an answer that is not its own.
Mistake(r) ==
  /\ outcome[r] = "pending"
  /\ \E a, b \in Requests : a # b /\ outcome[a] = "deserted" /\ outcome[b] = "deserted"
  /\ outcome' = [outcome EXCEPT ![r] = "foreign"]

ServiceNext == \E r \in Requests : Ask(r) \/ Settle(r) \/ Mistake(r)

ServiceSafety == ServiceInit /\ [][ServiceNext]_outcome

ServiceSpec ==
  /\ ServiceSafety
  /\ \A r \in Requests : WF_outcome(Settle(r) \/ Mistake(r))
=============================================================================
