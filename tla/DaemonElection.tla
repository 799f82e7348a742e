---------------------------- MODULE DaemonElection ----------------------------
(***************************************************************************)
(* Who becomes the machine's daemon, and can the others talk to it?        *)
(* (src/server.py: _ipc_listener, _ensure_daemon, the shutdown action;     *)
(* src/cli.py: the port file; src/ipcauth.py: the key and the channel.)    *)
(*                                                                         *)
(* A process that wants the IPC probes the published port, scans the ports *)
(* from the preferred one on for one it can bind, takes the per-user       *)
(* channel that hands out tokens, publishes its port and only then         *)
(* listens.  A daemon that finds a Gray Matter answering exits; a stdio    *)
(* gateway goes on without a listener.  A token is good for the process    *)
(* whose key signed it, the one that owns the channel it came from, so the *)
(* model knows tokens by that owner.                                       *)
(*                                                                         *)
(* Two platforms, fixed in a behaviour: Windows (SO_EXCLUSIVEADDRUSE, a    *)
(* pipe name only one process may hold and that goes with it) and POSIX    *)
(* (SO_REUSEADDR lets two sockets be bound to a port until one listens;    *)
(* the socket path is unlinked and taken over; a dead owner leaves a path  *)
(* nobody answers on).                                                     *)
(* Probes are answered by a process that listens; the startup grace is     *)
(* long enough for one that is about to.                                   *)
(***************************************************************************)
EXTENDS Naturals, FiniteSets

CONSTANTS
  Daemons,      \* daemon processes, each started once
  Gateways,     \* stdio gateways, each started once
  NPorts,       \* GRAY_MATTER_PORT_SPAN; port 1 is the preferred one
  Foreign0,     \* ports another program holds at first
  ForeignLeaves,\* whether it may let go of one
  Platforms,    \* "windows", "posix", or both
  MaxCrashes,   \* bound: kills in a behaviour
  MaxStops,     \* bound: `gray-matter stop` in a behaviour
  Nobody

Procs == Daemons \cup Gateways
Ports == 1..NPorts

ASSUME ElectionAssumption ==
  /\ Daemons \cap Gateways = {}
  /\ Nobody \notin Procs
  /\ NPorts \in Nat \ {0}
  /\ Foreign0 \subseteq Ports
  /\ ForeignLeaves \in BOOLEAN
  /\ Platforms \subseteq {"windows", "posix"}
  /\ MaxCrashes \in Nat /\ MaxStops \in Nat

VARIABLES
  platform,
  pc,        \* pc[p]: where process p is
  port,      \* port[p]: the port it tries, or holds
  bound,     \* bound[q]: processes with a socket bound to port q
  listening, \* listening[q]: the process that listens on it
  foreign,   \* ports another program listens on
  channel,   \* the process that answers on the token channel
  portFile,  \* the published port, 0 if none
  crashes,
  stops

vars == <<platform, pc, port, bound, listening, foreign, channel, portFile, crashes, stops>>
sockets == <<bound, listening, foreign>>
counters == <<crashes, stops>>

Gone == {"off", "exited"}

\* Where a process may have a socket bound.
MayBeBound(p, where) ==
  \/ where \in {"channel", "publish", "listen", "up"}
  \/ where = "alone" /\ p \in Gateways /\ platform = "posix"

\* Bound sockets and the states of their owners agree: nobody who stopped or died
\* holds a port, nor who gave way, but for a gateway that on POSIX lost listen().
SocketsMatchStates ==
  \A q \in Ports, p \in Procs :
    /\ listening[q] = p <=> pc[p] = "up" /\ port[p] = q
    /\ p \in bound[q] => port[p] = q /\ MayBeBound(p, pc[p])

TypeOK ==
  /\ platform \in Platforms
  /\ pc \in [Procs -> {"off", "ensure", "probe", "bind", "grace", "channel", "publish",
                       "listen", "up", "alone", "stopping", "exited"}]
  /\ port \in [Procs -> Ports]
  /\ bound \in [Ports -> SUBSET Procs]
  /\ listening \in [Ports -> Procs \cup {Nobody}]
  /\ foreign \in SUBSET Ports
  /\ channel \in Procs \cup {Nobody}
  /\ portFile \in 0..NPorts
  /\ crashes \in 0..MaxCrashes
  /\ stops \in 0..MaxStops
  /\ SocketsMatchStates

Init ==
  /\ platform \in Platforms
  /\ pc = [p \in Procs |-> "off"]
  /\ port = [p \in Procs |-> 1]
  /\ bound = [q \in Ports |-> {}]
  /\ listening = [q \in Ports |-> Nobody]
  /\ foreign = Foreign0
  /\ channel = Nobody
  /\ portFile = 0
  /\ crashes = 0
  /\ stops = 0

\* resolve_port(): the port file, else the preferred port.
ResolvePort == IF portFile = 0 THEN 1 ELSE portFile

\* gm_answers(): a Gray Matter listens there.
Answers(q) == listening[q] # Nobody

GoTo(p, where) == pc' = [pc EXCEPT ![p] = where]

\* What a process becomes that leaves the IPC to another one.
GiveWay(p) == GoTo(p, IF p \in Daemons THEN "exited" ELSE "alone")

\* The sockets of p are closed.
CloseSockets(p) ==
  /\ bound' = [q \in Ports |-> bound[q] \ {p}]
  /\ listening' = [q \in Ports |-> IF listening[q] = p THEN Nobody ELSE listening[q]]

\* p is gone: its thread no longer answers on the channel.
LeaveChannel(p) == channel' = IF channel = p THEN Nobody ELSE channel

-----------------------------------------------------------------------------
\* `gray-matter start`, or a gateway that spawned it.
StartDaemon(d) ==
  /\ pc[d] = "off"
  /\ GoTo(d, "probe")
  /\ UNCHANGED <<platform, port, sockets, channel, portFile, counters>>

\* main() calls _ensure_daemon: if nobody answers it spawns a daemon and waits
\* for it (at most 5 s), then opens its own listener either way.
StartGateway(g) ==
  /\ pc[g] = "off"
  /\ \/ Answers(ResolvePort) /\ GoTo(g, "probe")
     \/ /\ ~Answers(ResolvePort)
        /\ \E d \in Daemons :
             pc[d] = "off" /\ pc' = [pc EXCEPT ![g] = "ensure", ![d] = "probe"]
  /\ UNCHANGED <<platform, port, sockets, channel, portFile, counters>>

Ensured(g) ==
  /\ pc[g] = "ensure"
  /\ GoTo(g, "probe")
  /\ UNCHANGED <<platform, port, sockets, channel, portFile, counters>>

Probe(p) ==
  /\ pc[p] = "probe"
  /\ \/ Answers(ResolvePort) /\ GiveWay(p)
     \/ ~Answers(ResolvePort) /\ GoTo(p, "bind")
  /\ UNCHANGED <<platform, port, sockets, channel, portFile, counters>>

CanBind(q) ==
  /\ q \notin foreign /\ listening[q] = Nobody
  /\ platform = "windows" => bound[q] = {}

Bind(p) ==
  /\ pc[p] = "bind"
  /\ \/ /\ CanBind(port[p])
        /\ bound' = [bound EXCEPT ![port[p]] = @ \cup {p}]
        /\ GoTo(p, "channel")
     \/ /\ ~CanBind(port[p])
        /\ GoTo(p, "grace")
        /\ UNCHANGED bound
  /\ UNCHANGED <<platform, port, listening, foreign, channel, portFile, counters>>

Starting(q) == \E p \in bound[q] : pc[p] \in {"channel", "publish", "listen"}

\* Mutant of Grace: a single probe, no startup grace.
GraceImpatient(p) ==
  /\ pc[p] = "grace"
  /\ \/ Answers(port[p]) /\ GiveWay(p) /\ UNCHANGED port
     \/ /\ ~Answers(port[p])
        /\ IF p \in Daemons /\ port[p] < NPorts
           THEN port' = [port EXCEPT ![p] = @ + 1] /\ GoTo(p, "bind")
           ELSE GiveWay(p) /\ UNCHANGED port
  /\ UNCHANGED <<platform, sockets, channel, portFile, counters>>

\* Mutant of Grace: whoever holds the port is taken for a Gray Matter.
GraceGivesUp(p) ==
  /\ pc[p] = "grace"
  /\ ~Starting(port[p])
  /\ GiveWay(p)
  /\ UNCHANGED <<platform, port, sockets, channel, portFile, counters>>

\* _gm_answers_with_startup_grace: if a Gray Matter holds the port the process
\* gives way; if it is a stranger, a daemon tries the next port (and exits when
\* there is none) and a gateway does without.
Grace(p) ==
  /\ pc[p] = "grace"
  /\ \/ Answers(port[p]) /\ GiveWay(p) /\ UNCHANGED port
     \/ /\ ~Answers(port[p]) /\ ~Starting(port[p])
        /\ IF p \in Daemons /\ port[p] < NPorts
           THEN port' = [port EXCEPT ![p] = @ + 1] /\ GoTo(p, "bind")
           ELSE GiveWay(p) /\ UNCHANGED port
  /\ UNCHANGED <<platform, sockets, channel, portFile, counters>>

\* A new key, and the channel: on POSIX the path is taken over whoever holds
\* it; on Windows a name that is held cannot be had, and the process goes on
\* without.
ServeChannel(p) ==
  /\ pc[p] = "channel"
  /\ channel' = IF platform = "windows" /\ channel # Nobody THEN channel ELSE p
  /\ GoTo(p, "publish")
  /\ UNCHANGED <<platform, port, sockets, portFile, counters>>

Publish(p) ==
  /\ pc[p] = "publish"
  /\ portFile' = port[p]
  /\ GoTo(p, "listen")
  /\ UNCHANGED <<platform, port, sockets, channel, counters>>

\* listen(): it raises if another socket bound to the port listens.  The daemon
\* dies of it; in a gateway only the listener's task does: its channel thread
\* stays, and what is left of the task keeps the bound socket.
Listen(p) ==
  /\ pc[p] = "listen"
  /\ \/ /\ listening[port[p]] = Nobody
        /\ listening' = [listening EXCEPT ![port[p]] = p]
        /\ GoTo(p, "up")
        /\ UNCHANGED <<bound, channel>>
     \/ /\ listening[port[p]] # Nobody
        /\ GiveWay(p)
        /\ IF p \in Daemons THEN CloseSockets(p) /\ LeaveChannel(p)
                            ELSE UNCHANGED <<bound, listening, channel>>
  /\ UNCHANGED <<platform, port, foreign, portFile, counters>>

\* Mutant of Stop: the listening socket is left to the exit.
StopOpen(p) ==
  /\ pc[p] = "up"
  /\ stops < MaxStops
  /\ stops' = stops + 1
  /\ GoTo(p, "stopping")
  /\ UNCHANGED <<platform, port, sockets, channel, portFile, crashes>>

\* The shutdown action: the reply is sent and the listening socket closed; the
\* process lives on while the backup and the workers finish.
Stop(p) ==
  /\ pc[p] = "up"
  /\ stops < MaxStops
  /\ stops' = stops + 1
  /\ GoTo(p, "stopping")
  /\ CloseSockets(p)
  /\ UNCHANGED <<platform, port, foreign, channel, portFile, crashes>>

\* os._exit: nothing is cleaned up, the port file included.
Exit(p) ==
  /\ pc[p] = "stopping"
  /\ GoTo(p, "exited")
  /\ LeaveChannel(p)
  /\ UNCHANGED <<platform, port, sockets, portFile, counters>>

\* The process is killed, or a gateway's client closes it.
Crash(p) ==
  /\ pc[p] \notin Gone
  /\ crashes < MaxCrashes
  /\ crashes' = crashes + 1
  /\ GoTo(p, "exited")
  /\ CloseSockets(p)
  /\ LeaveChannel(p)
  /\ UNCHANGED <<platform, port, foreign, portFile, stops>>

\* The other program lets go of a port.
Vacate ==
  /\ ForeignLeaves
  /\ \E q \in foreign : foreign' = foreign \ {q}
  /\ UNCHANGED <<platform, pc, port, bound, listening, channel, portFile, counters>>

Proceed(p) ==
  \/ Probe(p) \/ Bind(p) \/ Grace(p) \/ ServeChannel(p) \/ Publish(p)
  \/ Listen(p) \/ Exit(p)

Next ==
  \/ \E d \in Daemons : StartDaemon(d)
  \/ \E g \in Gateways : StartGateway(g) \/ Ensured(g)
  \/ \E p \in Procs : Proceed(p) \/ Stop(p) \/ Crash(p)
  \/ Vacate

\* A process that runs goes on; nobody has to start one.
Spec ==
  /\ Init /\ [][Next]_vars
  /\ \A p \in Procs : WF_vars(Proceed(p))
  /\ \A g \in Gateways : WF_vars(Ensured(g))

-----------------------------------------------------------------------------
Up == {p \in Procs : pc[p] = "up"}

\* Nobody was killed or stopped and the stranger stayed where it was.
Calm == crashes = 0 /\ stops = 0 /\ foreign = Foreign0

\* A process that listens is found by whoever reads the port file, and holds
\* the channel: what it is sent is signed with its own key.
Reachable(p) ==
  pc[p] = "up" /\ portFile = port[p] /\ listening[port[p]] = p /\ channel = p

\* However many daemons and gateways start together, on either platform, one of
\* them listens, unless somebody stops or a port comes free under the scan.  The
\* order of bind, channel, publish and listen makes it reachable where a bound
\* port is nobody else's.  (On POSIX two sockets may be bound before either
\* listens, and then it need not be.)
OneListenerWhenCalm ==
  Calm => /\ Cardinality(Up) <= 1
          /\ platform = "windows" => \A p \in Up : Reachable(p)

\* A daemon that was started leads to a process that listens, one clients can
\* use on Windows, unless every port is taken or somebody disturbed the start.
StartLeadsToService ==
  \A d \in Daemons :
    pc[d] = "probe" /\ foreign # Ports
      ~> \/ Up # {} /\ (platform = "windows" => \E p \in Up : Reachable(p))
         \/ ~Calm
=============================================================================
