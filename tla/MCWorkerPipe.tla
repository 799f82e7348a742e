----------------------------- MODULE MCWorkerPipe -----------------------------
(***************************************************************************)
(* WorkerPipe for TLC, with the properties its run checks.                  *)
(***************************************************************************)
EXTENDS WorkerPipeProps
CONSTANTS c1, c2, s1

\* Two tool calls and a schema fetch: a call that is cancelled and a fetch that
\* times out are the two abandoned jobs, the other call the one misled.
MCCalls == {c1, c2}
MCRequests == {c1, c2, s1}
=============================================================================
