------------------------------ MODULE Processes ------------------------------
(***************************************************************************)
(* Who is left behind, and who reaps it (src/pids.py orphans): a gateway   *)
(* or a daemon that starts (src/server.py _reap_orphans), gray-matter reap *)
(* (src/cli.py cmd_reap), the installer (src/executor.py _reap).           *)
(*                                                                         *)
(* An orphan lives and its parent does not.  A daemon outlives whoever     *)
(* launched it, so it is one only when no gateway is registered.  Each     *)
(* reaper makes a list and kills what is on it, one by one, while          *)
(* processes come and go.  pids.json is read and rewritten under its lock  *)
(* (SharedJson): a whole turn is a step here.                              *)
(***************************************************************************)
EXTENDS Naturals, FiniteSets

CONSTANTS Gateways, Daemons, Workers, Reapers, MaxRounds

VARIABLES
  windows,  \* where taskkill exists
  up,       \* the processes that run
  gone,     \* those that have run
  parent,   \* whose child each is: a process, "client", or "nobody" once that is gone
  pids,     \* pids.json
  reap,     \* each reaper's list, with its round and what it was made from
  struck,   \* ghost: those whose lines the installer deleted with the file
  wronged   \* ghost: a process that serves was killed as an orphan

vars == <<windows, up, gone, parent, pids, reap, struck, wronged>>

Procs == Gateways \cup Daemons \cup Workers
NoReap == [round |-> 0, list |-> {}, served |-> FALSE]

TypeOK ==
  /\ windows \in BOOLEAN /\ up \subseteq Procs /\ gone \subseteq Procs /\ up \cap gone = {}
  /\ parent \in [Procs -> Procs \cup {"client", "nobody"}]
  /\ pids \subseteq up \cup gone
  /\ reap \in [Procs \cup Reapers -> [round : 0..MaxRounds + 1, list : SUBSET Procs,
                                      served : BOOLEAN]]
  /\ \A p \in Procs : p \notin up => reap[p] = NoReap
  /\ struck \subseteq Procs /\ wronged \in BOOLEAN

Init ==
  /\ windows \in BOOLEAN /\ up = {} /\ gone = {}
  /\ parent = [p \in Procs |-> "nobody"] /\ pids = {}
  /\ reap = [p \in Procs \cup Reapers |-> NoReap]
  /\ struck = {} /\ wronged = FALSE

-----------------------------------------------------------------------------
(* Processes come and go.                                                  *)

\* A gateway, by its client; a daemon, by a command that returns or by a
\* gateway; a worker, by a daemon or a gateway.
Start(p) ==
  /\ p \notin up \cup gone
  /\ \E by \in up \cup {"client", "nobody"} :
       /\ p \in Gateways => by = "client"
       /\ p \in Daemons => by \in Gateways \cup {"nobody"}
       /\ p \in Workers => by \in Gateways \cup Daemons
       /\ parent' = [parent EXCEPT ![p] = by]
  /\ up' = up \cup {p}
  /\ UNCHANGED <<windows, gone, pids, reap, struck, wronged>>

Leaves(ps) ==
  /\ up' = up \ ps /\ gone' = gone \cup ps
  /\ parent' = [q \in Procs |-> IF parent[q] \in ps THEN "nobody" ELSE parent[q]]

\* It ends, by itself or because of a SIGTERM it was sent: with its atexit, or
\* without.
Ends(p) ==
  /\ p \in up /\ Leaves({p})
  /\ pids' \in {pids, pids \ {p}}
  /\ reap' = [reap EXCEPT ![p] = NoReap]
  /\ UNCHANGED <<windows, struck, wronged>>

\* A client goes without closing its gateway.
ClientGone(g) ==
  /\ g \in up /\ parent[g] = "client" /\ parent' = [parent EXCEPT ![g] = "nobody"]
  /\ UNCHANGED <<windows, up, gone, pids, reap, struck, wronged>>

-----------------------------------------------------------------------------
(* Reaping.                                                                *)

Live == pids \cap up
Serving == Live \cap Gateways # {}
\* Mutant of Orphans: a daemon's parent is asked for like any other.
OrphansAnyDaemon(me) == {e \in Live \ {me} : parent[e] = "nobody"}
Orphans(me) == {e \in Live \ {me} : parent[e] = "nobody" /\ ~(e \in Daemons /\ Serving)}
\* Gateways that serve their clients, and have registered.
Served == \E g \in Gateways \cap up : parent[g] = "client" /\ g \in pids \ struck

Lists(me, targets) ==
  reap' = [reap EXCEPT ![me] = [round |-> IF targets = {} THEN MaxRounds + 1 ELSE @.round + 1,
                                list |-> targets, served |-> targets # {} /\ Served]]

\* A gateway or a daemon, before anything else: it registers (pruning the dead),
\* then lists, up to MaxRounds times.  A worker only registers.
Register(p) ==
  /\ p \in up /\ reap[p].round = 0
  /\ pids' = Live \cup {p}
  /\ reap' = [reap EXCEPT ![p].round = IF p \in Workers THEN MaxRounds + 1 ELSE 1]
  /\ UNCHANGED <<windows, up, gone, parent, struck, wronged>>

StartupReap(p) ==
  /\ p \in up /\ reap[p].round \in 1..MaxRounds /\ reap[p].list = {}
  /\ Lists(p, Orphans(p)) /\ pids' = Live
  /\ UNCHANGED <<windows, up, gone, parent, struck, wronged>>

\* gray-matter reap, and the plan of an installation: made when asked for.
ToolLists(r) ==
  /\ reap[r].list = {}
  /\ reap' = [reap EXCEPT ![r].list = Orphans(r),
                              ![r].served = Orphans(r) # {} /\ Served]
  /\ pids' = Live
  /\ UNCHANGED <<windows, up, gone, parent, struck, wronged>>

Wronged(me, killed) ==
  wronged' = (wronged \/ (killed \cap Daemons # {} /\ reap[me].served)
                      \/ \E e \in killed : parent[e] # "nobody" /\ parent[e] \notin killed)
Crossed(me, e) == [reap EXCEPT ![me].list = @ \ {e}, ![me].served = @ /\ reap[me].list # {e}]

\* A starting process has taskkill, or fails and forgets nothing.
StartupKill(p) ==
  /\ p \in up
  /\ \E e \in reap[p].list :
       IF ~windows THEN reap' = Crossed(p, e)
                        /\ UNCHANGED <<up, gone, parent, pids, wronged>>
       ELSE /\ pids' = pids \ {e} /\ Leaves({e} \cap up) /\ Wronged(p, {e} \cap up)
            /\ reap' = [Crossed(p, e) EXCEPT ![e] = NoReap]
  /\ UNCHANGED <<windows, struck>>

\* taskkill /T: a process and all below it.  A worker has no children, so there
\* are two generations below a gateway, and one below a daemon.
Children(ps) == {q \in Procs : parent[q] \in ps}
Tree(e) == {e} \cup Children({e}) \cup Children(Children({e}))

\* gray-matter reap takes the tree, or sends a SIGTERM; either way it forgets the
\* process.
CliKill(r) ==
  /\ \E e \in reap[r].list :
       LET killed == Tree(e) \cap up IN
         /\ pids' = pids \ {e}
         /\ IF windows
            THEN /\ Leaves(killed) /\ Wronged(r, {e} \cap up)
                 /\ reap' = [q \in Procs \cup Reapers |->
                               IF q \in killed THEN NoReap ELSE Crossed(r, e)[q]]
            ELSE /\ Wronged(r, {e} \cap up) /\ reap' = Crossed(r, e)
                 /\ UNCHANGED <<up, gone, parent>>
  /\ UNCHANGED <<windows, struck>>

\* The installer kills everything on its list, and deletes the file.
InstallReap(r) ==
  /\ reap[r].list # {}
  /\ LET killed == reap[r].list \cap up IN
       /\ Wronged(r, killed) /\ pids' = {} /\ struck' = struck \cup (pids \ killed)
       /\ IF windows
          THEN /\ Leaves(killed)
               /\ reap' = [q \in Procs \cup Reapers |->
                             IF q \in killed \cup {r} THEN NoReap ELSE reap[q]]
          ELSE reap' = [reap EXCEPT ![r] = NoReap] /\ UNCHANGED <<up, gone, parent>>
  /\ UNCHANGED windows

Next ==
  \/ \E p \in Procs : Start(p) \/ Ends(p) \/ Register(p)
  \/ \E g \in Gateways : ClientGone(g)
  \/ \E p \in Gateways \cup Daemons : StartupReap(p) \/ StartupKill(p)
  \/ \E r \in Reapers : ToolLists(r) \/ CliKill(r) \/ InstallReap(r)

-----------------------------------------------------------------------------
(* Properties.                                                             *)

\* No reaper picks a child of a living process, nor a daemon when a gateway with
\* a client was registered as it made its list, however old the list gets.  (On
\* Windows gray-matter reap takes the tree of what it picks, the daemon that
\* serves among it.)
OnlyTheLeftAreReaped == ~wronged

=============================================================================
