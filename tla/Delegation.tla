------------------------------ MODULE Delegation ------------------------------
(***************************************************************************)
(* Where a worker call runs (src/server.py: _daemon_reachable, _via_daemon,*)
(* _call_server_async, _prewarm_workers, the IPC "call" action).  A stdio  *)
(* gateway asks the daemon, whose workers are shared; whatever goes wrong  *)
(* on the way, the answer is None and the gateway runs the call on workers *)
(* of its own, and does not try the daemon again for 30 s.  The daemon     *)
(* does not know that its caller has gone: what it was asked to run it     *)
(* runs.                                                                   *)
(*                                                                         *)
(* One call is run by one site at a time in one step: what a worker does   *)
(* with it, and that it ends, is WorkerPipe.                               *)
(***************************************************************************)
EXTENDS Naturals, FiniteSets

CONSTANTS
  Gateways,
  Calls,       \* tool calls, each made once
  at,          \* at[r]: the gateway that makes call r
  Daemon,      \* the daemon, as a site that runs calls
  MaxDeaths,   \* bound: times the daemon dies
  MaxLate,     \* bound: IPC answers that come too late or too large
  MaxRefusals  \* bound: IPC requests refused as unauthorized

Sites == Gateways \cup {Daemon}

ASSUME DelegationAssumption ==
  /\ at \in [Calls -> Gateways]
  /\ Daemon \notin Gateways
  /\ MaxDeaths \in Nat /\ MaxLate \in Nat /\ MaxRefusals \in Nat

VARIABLES
  daemon,    \* "up" or "down"
  workers,   \* the sites that have worker processes
  gone,      \* gone[g]: g is in the 30 s after a failure (_daemon_gone_until)
  prewarm,   \* prewarm[g]: g's _prewarm_workers task
  pc,        \* pc[r]: where call r is in its gateway
  request,   \* request[r]: its request in the daemon
  runs,      \* runs[r][s]: how often site s has run r
  answer,    \* answer[r]: the sites whose result was returned to r's caller
  deaths, late, refusals

vars == <<daemon, workers, gone, prewarm, pc, request, runs, answer, deaths, late, refusals>>
counters == <<deaths, late, refusals>>

TypeOK ==
  /\ daemon \in {"up", "down"}
  /\ workers \in SUBSET Sites
  /\ gone \in [Gateways -> BOOLEAN]
  /\ prewarm \in [Gateways -> {"off", "sweeping", "over"}]
  /\ pc \in [Calls -> {"idle", "sending", "ipc", "local", "done"}]
  /\ request \in [Calls -> {"none", "running", "replied", "lost"}]
  /\ runs \in [Calls -> [Sites -> 0..2]]
  /\ answer \in [Calls -> SUBSET Sites]
  /\ deaths \in 0..MaxDeaths /\ late \in 0..MaxLate /\ refusals \in 0..MaxRefusals

Init ==
  /\ daemon \in {"up", "down"}
  /\ workers = {}
  /\ gone = [g \in Gateways |-> FALSE]
  /\ prewarm = [g \in Gateways |-> "off"]
  /\ pc = [r \in Calls |-> "idle"]
  /\ request = [r \in Calls |-> "none"]
  /\ runs = [r \in Calls |-> [s \in Sites |-> 0]]
  /\ answer = [r \in Calls |-> {}]
  /\ deaths = 0 /\ late = 0 /\ refusals = 0

GoTo(r, where) == pc' = [pc EXCEPT ![r] = where]

\* _via_daemon returns None on an error: run it here, leave the daemon alone.
FallBack(r) ==
  /\ GoTo(r, "local")
  /\ gone' = [gone EXCEPT ![at[r]] = TRUE]

-----------------------------------------------------------------------------
\* _daemon_reachable: not within the backoff; a probe that fails starts it.
Issue(r) ==
  /\ pc[r] = "idle"
  /\ \/ /\ gone[at[r]]
        /\ GoTo(r, "local")
        /\ UNCHANGED gone
     \/ /\ ~gone[at[r]] /\ daemon = "up"
        /\ GoTo(r, "sending")
        /\ UNCHANGED gone
     \/ /\ ~gone[at[r]] /\ daemon = "down"
        /\ FallBack(r)
  /\ UNCHANGED <<daemon, workers, prewarm, request, runs, answer, counters>>

\* _send_ipc on an executor thread: refused, rejected even with a fresh token,
\* or taken by the daemon.
Send(r) ==
  /\ pc[r] = "sending"
  /\ \/ /\ daemon = "up"
        /\ request' = [request EXCEPT ![r] = "running"]
        /\ GoTo(r, "ipc")
        /\ UNCHANGED <<gone, refusals>>
     \/ /\ daemon = "up" /\ refusals < MaxRefusals
        /\ refusals' = refusals + 1
        /\ FallBack(r)
        /\ UNCHANGED request
     \/ /\ daemon = "down"
        /\ FallBack(r)
        /\ UNCHANGED <<request, refusals>>
  /\ UNCHANGED <<daemon, workers, prewarm, runs, answer, deaths, late>>

\* Mutant of DaemonRun: the request is not taken off once it was run.
DaemonRunAgain(r) ==
  /\ daemon = "up" /\ request[r] = "running"
  /\ runs' = [runs EXCEPT ![r][Daemon] = @ + 1]
  /\ workers' = workers \cup {Daemon}
  /\ UNCHANGED <<daemon, gone, prewarm, pc, request, answer, counters>>

\* The daemon's handler runs the call on its own workers and replies.
DaemonRun(r) ==
  /\ daemon = "up" /\ request[r] = "running"
  /\ request' = [request EXCEPT ![r] = "replied"]
  /\ runs' = [runs EXCEPT ![r][Daemon] = @ + 1]
  /\ workers' = workers \cup {Daemon}
  /\ UNCHANGED <<daemon, gone, prewarm, pc, answer, counters>>

\* Mutant of Receive: an answer that was received does not end the call.
ReceiveAndRun(r) ==
  /\ pc[r] = "ipc" /\ request[r] = "replied"
  /\ answer' = [answer EXCEPT ![r] = @ \cup {Daemon}]
  /\ GoTo(r, "local")
  /\ UNCHANGED <<daemon, workers, gone, prewarm, request, runs, counters>>

Receive(r) ==
  /\ pc[r] = "ipc" /\ request[r] = "replied"
  /\ answer' = [answer EXCEPT ![r] = @ \cup {Daemon}]
  /\ GoTo(r, "done")
  /\ UNCHANGED <<daemon, workers, gone, prewarm, request, runs, counters>>

\* 60 s without an answer (a worker call in the daemon may take as long, and
\* waits for its lock besides), or an answer over a million bytes.
Late(r) ==
  /\ pc[r] = "ipc" /\ request[r] \in {"running", "replied"}
  /\ late < MaxLate
  /\ late' = late + 1
  /\ FallBack(r)
  /\ UNCHANGED <<daemon, workers, prewarm, request, runs, answer, deaths, refusals>>

\* Mutant of Lost: a broken connection is noticed only while the daemon is away.
LostWhileDown(r) ==
  /\ pc[r] = "ipc" /\ request[r] = "lost"
  /\ daemon = "down"
  /\ FallBack(r)
  /\ UNCHANGED <<daemon, workers, prewarm, request, runs, answer, counters>>

\* The connection breaks: the daemon died.
Lost(r) ==
  /\ pc[r] = "ipc" /\ request[r] = "lost"
  /\ FallBack(r)
  /\ UNCHANGED <<daemon, workers, prewarm, request, runs, answer, counters>>

\* The rest of _call_server_async: this gateway's own worker.
LocalRun(r) ==
  /\ pc[r] = "local"
  /\ runs' = [runs EXCEPT ![r][at[r]] = @ + 1]
  /\ workers' = workers \cup {at[r]}
  /\ answer' = [answer EXCEPT ![r] = @ \cup {at[r]}]
  /\ GoTo(r, "done")
  /\ UNCHANGED <<daemon, gone, prewarm, request, counters>>

-----------------------------------------------------------------------------
BackoffEnds(g) ==
  /\ gone[g]
  /\ gone' = [gone EXCEPT ![g] = FALSE]
  /\ UNCHANGED <<daemon, workers, prewarm, pc, request, runs, answer, counters>>

\* _prewarm_workers looks for the daemon before its first sweep ...
PrewarmStart(g) ==
  /\ prewarm[g] = "off"
  /\ prewarm' = [prewarm EXCEPT ![g] =
                   IF daemon = "up" /\ ~gone[g] THEN "over" ELSE "sweeping"]
  /\ gone' = [gone EXCEPT ![g] = @ \/ daemon = "down"]
  /\ UNCHANGED <<daemon, workers, pc, request, runs, answer, counters>>

\* Mutant of Sweep: the daemon is not looked for again (the fault of 2 clients
\* starting together that the code's comment describes).
SweepBlindly(g) ==
  /\ prewarm[g] = "sweeping"
  /\ workers' = workers \cup {g}
  /\ UNCHANGED <<daemon, gone, prewarm, pc, request, runs, answer, counters>>

\* ... and again in every sweep, backoff or not: if it answers, the local
\* workers are dismissed; if not, they are spawned and warmed.
Sweep(g) ==
  /\ prewarm[g] = "sweeping"
  /\ \/ /\ daemon = "up"
        /\ workers' = workers \ {g}
        /\ prewarm' = [prewarm EXCEPT ![g] = "over"]
     \/ /\ daemon = "down"
        /\ workers' = workers \cup {g}
        /\ UNCHANGED prewarm
  /\ UNCHANGED <<daemon, gone, pc, request, runs, answer, counters>>

DaemonStarts ==
  /\ daemon = "down"
  /\ daemon' = "up"
  /\ UNCHANGED <<workers, gone, prewarm, pc, request, runs, answer, counters>>

\* The daemon dies, its workers with it; what it was asked is lost.
DaemonDies ==
  /\ daemon = "up" /\ deaths < MaxDeaths
  /\ deaths' = deaths + 1
  /\ daemon' = "down"
  /\ workers' = workers \ {Daemon}
  /\ request' = [r \in Calls |-> IF request[r] \in {"running", "replied"}
                                 THEN "lost" ELSE request[r]]
  /\ UNCHANGED <<gone, prewarm, pc, runs, answer, late, refusals>>

Proceed(r) == Send(r) \/ Receive(r) \/ Late(r) \/ Lost(r) \/ LocalRun(r)

Next ==
  \/ \E r \in Calls : Issue(r) \/ Proceed(r) \/ DaemonRun(r)
  \/ \E g \in Gateways : BackoffEnds(g) \/ PrewarmStart(g) \/ Sweep(g)
  \/ DaemonStarts \/ DaemonDies

\* The gateway's loop and its timers go on, and the daemon's while it is up.
Spec ==
  /\ Init /\ [][Next]_vars
  /\ \A r \in Calls : WF_vars(Proceed(r)) /\ WF_vars(DaemonRun(r))
  /\ \A g \in Gateways : WF_vars(Sweep(g)) /\ WF_vars(BackoffEnds(g))

-----------------------------------------------------------------------------

\* However the IPC fails, one call is run at most once by the daemon and once
\* by its own gateway, never by another, and its caller gets one result, the
\* gateway's if the gateway ran it.
RunsAreBounded ==
  \A r \in Calls :
    /\ \A s \in Sites : runs[r][s] <= IF s \in {Daemon, at[r]} THEN 1 ELSE 0
    /\ Cardinality(answer[r]) <= 1
    /\ runs[r][at[r]] > 0 => answer[r] = {at[r]}

\* A call is run twice only when its answer was late or the daemon died on it.
TwiceNeedsFault ==
  /\ RunsAreBounded
  /\ \A r \in Calls : runs[r][Daemon] > 0 /\ runs[r][at[r]] > 0 => late + deaths > 0

\* Every call returns, whatever becomes of the daemon.
EveryCallReturns == \A r \in Calls : pc[r] # "idle" ~> pc[r] = "done"

\* A gateway that pre-warmed workers of its own while no daemon was there gives
\* them up once one is, unless it goes away again or the gateway itself has run
\* a call meanwhile.
PrewarmedSetIsGivenUp ==
  \A g \in Gateways :
    prewarm[g] = "sweeping" /\ daemon = "up"
      ~> \/ g \notin workers \/ daemon = "down"
         \/ \E r \in Calls : runs[r][g] > 0
=============================================================================
