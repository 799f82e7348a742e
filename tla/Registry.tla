------------------------------- MODULE Registry -------------------------------
(***************************************************************************)
(* The registry of MCP servers (src/registry.py) and everything that       *)
(* writes to it (src/server.py: _ensure_subservers, _bootstrap_subservers, *)
(* the IPC actions, _heartbeat_monitor, _sleep_monitor, list_tools,        *)
(* call_tool; src/clients.py: release_tool).  Each process has a registry  *)
(* of its own and fills it with the installed sub-servers; IPC requests    *)
(* reach that of the daemon alone.  A server may also register itself and  *)
(* send heartbeats, and a tool may be released from the gateway.           *)
(*                                                                         *)
(* Workers are those of the daemon, to whom every process sends its calls  *)
(* and schema fetches.  The schemas of an entry serve descriptions only    *)
(* and are left out.                                                       *)
(***************************************************************************)
EXTENDS Naturals, Functions

CONSTANTS
  Names,        \* sub-servers
  Tools,
  installed,    \* the installed ones
  rank,         \* rank[n]: the place of n in _SUBSERVER_MODULES
  Standalone,   \* those release_tool accepts (_STANDALONE_TOOLS)
  workerTools,  \* workerTools[n]: what n's worker answers to list_tools
  offers,       \* offers[n]: tool lists a standalone server n registers with
  default,      \* default[t]: who gets a call of t nobody has announced
  Procs,        \* the daemon, stdio gateways, HTTP bridges
  Listener,     \* the one that holds the IPC port: the daemon, or without one a
                \* stdio gateway
  Http,         \* the HTTP bridges
  Requests,     \* list_tools requests, each made once
  at,           \* at[r]: the process that request r is made to
  MaxInputs,    \* bound: registrations, and the user's commands
  MaxFaults     \* bound: unanswered calls, stops and restarts, and idle times

ASSUME RegistryAssumption ==
  /\ Listener \in Procs \ Http /\ Http \subseteq Procs
  /\ installed \subseteq Names /\ Standalone \subseteq Names
  /\ rank \in [installed -> Nat] /\ IsInjective(rank)
  /\ workerTools \in [Names -> SUBSET Tools]
  /\ offers \in [Names -> SUBSET SUBSET Tools]
  /\ default \in [Tools -> Names]
  /\ at \in [Requests -> Procs]
  /\ MaxInputs \in Nat /\ MaxFaults \in Nat

VARIABLES
  servers,    \* servers[p]: its _servers, a function on the registered names
  index,      \* index[p]: its _tool_index, a function on the indexed tools
  boot,       \* boot[p]: where _bootstrap_subservers is in p
  ready,      \* the processes whose _subservers_ready is set
  sleeping,   \* the processes whose _is_sleeping is set
  workers,    \* the servers with a worker in the daemon
  beating,    \* standalone servers that run and send heartbeats
  unmanaged,  \* the setting "unmanaged"
  release,    \* release[n]: where release_tool(n) is
  request,    \* request[r]: where a list_tools request is
  isolated,   \* servers the user has isolated, the daemon says "ok"
  contended,  \* contended[p]: tools that two servers of p have listed at once
  overwritten,\* servers of the daemon that registered while a bootstrap fetched
              \* their schemas, and were overwritten
  raced,      \* servers released while a bootstrap of the daemon had them on its list
  failed,     \* failed[p]: servers that did not answer the last bootstrap of p
  inputs, faults

history == <<isolated, contended, overwritten, raced, failed>>
counters == <<inputs, faults>>
vars == <<servers, index, boot, ready, sleeping, workers, beating, unmanaged,
          release, request, history, counters>>

Entries == [managed : BOOLEAN, tools : SUBSET Tools, collaborative : BOOLEAN,
            status : {"alive", "sleeping", "dead"}, fresh : BOOLEAN]

\* f is a function on some of D.
Partial(f, D, R) == DOMAIN f \subseteq D /\ f \in [DOMAIN f -> R]

TypeOK ==
  /\ servers = [p \in Procs |-> servers[p]] /\ index = [p \in Procs |-> index[p]]
  /\ \A p \in Procs : Partial(servers[p], Names, Entries) /\ Partial(index[p], Tools, Names)
  /\ boot \in [Procs -> [todo : SUBSET installed, fetching : BOOLEAN]]
  /\ ready \subseteq Procs /\ sleeping \subseteq Procs
  /\ {workers, beating, unmanaged, isolated, overwritten, raced} \subseteq SUBSET Names
  /\ release \in [Names -> {"no", "persisted", "done"}]
  /\ request \in [Requests -> {"none", "booting", "ensured", "skipped", "done"}]
  /\ contended \in [Procs -> SUBSET Tools]
  /\ failed \in [Procs -> SUBSET Names]
  /\ inputs \in 0..MaxInputs /\ faults \in 0..MaxFaults

\* Mutant of Detected: whether a server can be imported is not asked.
DetectedBlindly == Names \ unmanaged

\* detect_subservers: what is importable and was not released.
Detected == installed \ unmanaged

\* They are taken in the order of _SUBSERVER_MODULES.
Following(names) == CHOOSE n \in names : \A m \in names : rank[n] <= rank[m]

Booting(names) == [todo |-> names, fetching |-> FALSE]
BootOver(p) == boot[p].todo = {}

Init ==
  /\ servers = [p \in Procs |-> <<>>]
  /\ index = [p \in Procs |-> <<>>]
  /\ boot = [p \in Procs |-> Booting(IF p \in Http THEN {} ELSE installed)]
  /\ ready = {} /\ sleeping = {} /\ workers = {} /\ beating = {} /\ unmanaged = {}
  /\ release = [n \in Names |-> "no"]
  /\ request = [r \in Requests |-> "none"]
  /\ isolated = {} /\ overwritten = {} /\ raced = {}
  /\ contended = [p \in Procs |-> {}]
  /\ failed = [p \in Procs |-> {}]
  /\ inputs = 0 /\ faults = 0
-----------------------------------------------------------------------------
\* ServerEntry.is_alive
IsAlive(e) == \/ e.managed /\ e.status # "dead"
              \/ ~e.managed /\ e.status = "alive" /\ e.fresh

Registered(p) == DOMAIN servers[p]
Alive(p) == {n \in Registered(p) : IsAlive(servers[p][n])}

\* What a pulse asks.
Collaborators(p) == {n \in Alive(p) : servers[p][n].collaborative}

\* What list_tools announces besides the gateway's own tools.
Published(p) == UNION {servers[p][n].tools : n \in Alive(p)}

\* call_tool: the indexed server, else the default one; {} is "not found".
Route(p, t) ==
  LET found == IF t \in DOMAIN index[p] THEN {index[p][t]} \cap Registered(p) ELSE {}
  IN  IF found # {} THEN found ELSE {default[t]} \cap Registered(p)

\* Mutant of Put: the first server to announce a tool keeps it.
PutKeepsIndex(p, n, e) ==
  /\ servers' = [servers EXCEPT ![p] = [m \in DOMAIN @ \cup {n} |-> IF m = n THEN e ELSE @[m]]]
  /\ index' = [index EXCEPT ![p] =
                 [t \in DOMAIN @ \cup e.tools |-> IF t \in DOMAIN @ THEN @[t] ELSE n]]
  /\ contended' = [contended EXCEPT ![p] =
       @ \cup (e.tools \cap UNION {servers[p][m].tools : m \in Registered(p) \ {n}})]

\* Registry.register and register_managed: the entry, and its tools in the index.
Put(p, n, e) ==
  /\ servers' = [servers EXCEPT ![p] = [m \in DOMAIN @ \cup {n} |-> IF m = n THEN e ELSE @[m]]]
  /\ index' = [index EXCEPT ![p] =
                 [t \in DOMAIN @ \cup e.tools |-> IF t \in e.tools THEN n ELSE @[t]]]
  /\ contended' = [contended EXCEPT ![p] =
       @ \cup (e.tools \cap UNION {servers[p][m].tools : m \in Registered(p) \ {n}})]

Entry(managed, tools, collaborative) ==
  [managed |-> managed, tools |-> tools, collaborative |-> collaborative,
   status |-> "alive", fresh |-> TRUE]

Input == inputs < MaxInputs /\ inputs' = inputs + 1
Fault == faults < MaxFaults /\ faults' = faults + 1

Modify(p, n, e) == servers' = [servers EXCEPT ![p][n] = e]
-----------------------------------------------------------------------------
(* _bootstrap_subservers in process p, one server at a time. *)

\* A server that is registered is skipped; for another the schemas are fetched.
BootCheck(p) ==
  /\ ~BootOver(p) /\ ~boot[p].fetching
  /\ LET n == Following(boot[p].todo) IN
     boot' = [boot EXCEPT ![p] = IF n \in Registered(p) THEN Booting(@.todo \ {n})
                                 ELSE [@ EXCEPT !.fetching = TRUE]]
  /\ UNCHANGED <<servers, index, ready, sleeping, workers, beating, unmanaged,
                 release, request, history, counters>>

\* The worker answers its tools, or nothing; an answer is registered whatever
\* happened to the registry during the fetch.
BootFetched(p) ==
  LET n == Following(boot[p].todo) IN
  /\ ~BootOver(p) /\ boot[p].fetching
  /\ boot' = [boot EXCEPT ![p] = Booting(@.todo \ {n})]
  /\ workers' = workers \cup {n}
  /\ \/ /\ Put(p, n, Entry(TRUE, workerTools[n], TRUE))
        /\ overwritten' = IF p = Listener /\ n \in Registered(p) THEN overwritten \cup {n}
                          ELSE overwritten
        /\ UNCHANGED <<failed, faults>>
     \/ /\ Fault
        /\ failed' = [failed EXCEPT ![p] = @ \cup {n}]
        /\ UNCHANGED <<servers, index, contended, overwritten>>
  /\ UNCHANGED <<ready, sleeping, beating, unmanaged, release, request, isolated,
                 raced, inputs>>
-----------------------------------------------------------------------------
(* MCP requests of a gateway. *)

\* _ensure_subservers: the first request starts a bootstrap and awaits it, a
\* later one sees the flag and goes on.  A stdio gateway serves nobody before
\* the bootstrap of main() is over.
Begin(r) ==
  LET p == at[r] IN
  /\ request[r] = "none"
  /\ p \notin Http => p \in ready \/ BootOver(p)
  /\ \/ /\ p \in ready
        /\ request' = [request EXCEPT ![r] = "skipped"]
        /\ UNCHANGED <<ready, boot, failed>>
     \/ /\ p \notin ready
        /\ ready' = ready \cup {p}
        /\ boot' = [boot EXCEPT ![p] = Booting(Detected)]
        /\ failed' = [failed EXCEPT ![p] = {}]
        /\ request' = [request EXCEPT ![r] = "booting"]
  /\ UNCHANGED <<servers, index, sleeping, workers, beating, unmanaged, release,
                 isolated, contended, overwritten, raced, counters>>

\* Mutant of Ensured: the bootstrap is started and not awaited.
EnsuredAtOnce(r) ==
  /\ request[r] = "booting"
  /\ request' = [request EXCEPT ![r] = "ensured"]
  /\ UNCHANGED <<servers, index, boot, ready, sleeping, workers, beating, unmanaged,
                 release, history, counters>>

Ensured(r) ==
  /\ request[r] = "booting" /\ BootOver(at[r])
  /\ request' = [request EXCEPT ![r] = "ensured"]
  /\ UNCHANGED <<servers, index, boot, ready, sleeping, workers, beating, unmanaged,
                 release, history, counters>>

\* list_tools answers Published(at[r]).
List(r) ==
  /\ request[r] \in {"ensured", "skipped"}
  /\ request' = [request EXCEPT ![r] = "done"]
  /\ UNCHANGED <<servers, index, boot, ready, sleeping, workers, beating, unmanaged,
                 release, history, counters>>

\* call_tool, once the bootstrap was started: the daemon's worker for the server
\* that the tool is routed to.
CallTool(p, t) ==
  /\ p \in ready /\ ~(Route(p, t) \subseteq workers)
  /\ workers' = workers \cup Route(p, t)
  /\ UNCHANGED <<servers, index, boot, ready, sleeping, beating, unmanaged, release,
                 request, history, counters>>

\* A call that times out or gets no line: mark_dead, and the worker is dropped.
CallFails(p, n) ==
  /\ Fault /\ n \in Registered(p)
  /\ Modify(p, n, [servers[p][n] EXCEPT !.status = "dead"])
  /\ workers' = IF p = Listener THEN workers \ {n} ELSE workers
  /\ UNCHANGED <<index, boot, ready, sleeping, beating, unmanaged, release, request,
                 history, inputs>>
-----------------------------------------------------------------------------
(* IPC requests, which reach the daemon. *)

\* A standalone server registers and starts its heartbeat thread.
Register(n, tools) ==
  /\ Input
  /\ Put(Listener, n, Entry(FALSE, tools,
           n \in Registered(Listener) => servers[Listener][n].collaborative))
  /\ beating' = beating \cup {n}
  /\ UNCHANGED <<boot, ready, sleeping, workers, unmanaged, release, request, isolated,
                 overwritten, raced, failed, faults>>

\* An unknown server's heartbeat is answered "unknown", which it ignores.
Heartbeat(n) ==
  /\ n \in beating /\ n \in Registered(Listener)
  /\ Modify(Listener, n, [servers[Listener][n] EXCEPT !.fresh = TRUE, !.status = "alive"])
  /\ UNCHANGED <<index, boot, ready, sleeping, workers, beating, unmanaged, release,
                 request, history, counters>>

\* isolate and collaborate: "unknown" for a server that is not registered.
SetCollaborative(n, value) ==
  /\ Input /\ n \in Registered(Listener)
  /\ Modify(Listener, n, [servers[Listener][n] EXCEPT !.collaborative = value])
  /\ isolated' = IF value THEN isolated \ {n} ELSE isolated \cup {n}
  /\ overwritten' = overwritten \ {n}
  /\ UNCHANGED <<index, boot, ready, sleeping, workers, beating, unmanaged, release,
                 request, contended, raced, failed, faults>>

\* mode: every server at once.
SetMode(want) ==
  /\ Input
  /\ servers' = [servers EXCEPT ![Listener] =
                   [n \in DOMAIN @ |-> [@[n] EXCEPT !.collaborative = want]]]
  /\ isolated' = IF want THEN {} ELSE isolated \cup Registered(Listener)
  /\ overwritten' = overwritten \ Registered(Listener)
  /\ UNCHANGED <<index, boot, ready, sleeping, workers, beating, unmanaged, release,
                 request, contended, raced, failed, faults>>

\* release_tool, first the setting ...
Persist(n) ==
  /\ Input /\ n \in Standalone /\ release[n] = "no"
  /\ release' = [release EXCEPT ![n] = "persisted"]
  /\ unmanaged' = unmanaged \cup {n}
  /\ UNCHANGED <<servers, index, boot, ready, sleeping, workers, beating, request,
                 history, faults>>

\* ... then Registry.unregister in the daemon: the entry, and the tools it has
\* now leave the index, whoever they lead to.
Unregister(n) ==
  /\ release[n] = "persisted"
  /\ release' = [release EXCEPT ![n] = "done"]
  /\ IF n \in Registered(Listener)
     THEN /\ servers' = [servers EXCEPT ![Listener] = Restrict(@, DOMAIN @ \ {n})]
          /\ index' = [index EXCEPT ![Listener] =
                         Restrict(@, DOMAIN @ \ servers[Listener][n].tools)]
     ELSE UNCHANGED <<servers, index>>
  /\ isolated' = isolated \ {n}
  /\ raced' = raced \cup ({n} \cap boot[Listener].todo)
  /\ UNCHANGED <<boot, ready, sleeping, workers, beating, unmanaged, request, contended,
                 overwritten, failed, counters>>
-----------------------------------------------------------------------------
(* Background tasks, time, and failures. *)

\* HEARTBEAT_TIMEOUT passes without a heartbeat of n.
Age(n) ==
  /\ n \in Registered(Listener) /\ servers[Listener][n].fresh /\ ~servers[Listener][n].managed
  /\ Modify(Listener, n, [servers[Listener][n] EXCEPT !.fresh = FALSE])
  /\ UNCHANGED <<index, boot, ready, sleeping, workers, beating, unmanaged, release,
                 request, history, counters>>

Overdue(p) == {n \in Registered(p) : LET e == servers[p][n] IN
                 ~e.managed /\ e.status = "alive" /\ ~e.fresh}

\* _heartbeat_monitor
Monitor(p) ==
  /\ Overdue(p) # {}
  /\ servers' = [servers EXCEPT ![p] =
       [n \in DOMAIN @ |-> IF n \in Overdue(p) THEN [@[n] EXCEPT !.status = "dead"] ELSE @[n]]]
  /\ UNCHANGED <<index, boot, ready, sleeping, workers, beating, unmanaged, release,
                 request, history, counters>>

\* _sleep_monitor when nobody has called for IDLE_SLEEP_TIMEOUT.
Sleep(p) ==
  /\ p \notin sleeping /\ Fault
  /\ sleeping' = sleeping \cup {p}
  /\ servers' = [servers EXCEPT ![p] = [n \in DOMAIN @ |-> [@[n] EXCEPT !.status = "sleeping"]]]
  /\ UNCHANGED <<index, boot, ready, workers, beating, unmanaged, release, request,
                 history, inputs>>

\* A pulse, or a call seen by the monitor, clears the flag and nothing else.
Wake(p) ==
  /\ p \in sleeping
  /\ sleeping' = sleeping \ {p}
  /\ UNCHANGED <<servers, index, boot, ready, workers, beating, unmanaged, release,
                 request, history, counters>>

\* _reap_dead_workers looks at registered servers only.
ReapDead ==
  LET dead == {n \in Registered(Listener) : servers[Listener][n].status = "dead"} IN
  /\ dead \cap workers # {}
  /\ workers' = workers \ dead
  /\ UNCHANGED <<servers, index, boot, ready, sleeping, beating, unmanaged, release,
                 request, history, counters>>

ServerStops(n) ==
  /\ Fault /\ n \in beating
  /\ beating' = beating \ {n}
  /\ UNCHANGED <<servers, index, boot, ready, sleeping, workers, unmanaged, release,
                 request, history, inputs>>

\* Mutant of Restart: the bootstrap does not ask which tools were released.
RestartIgnoresReleased ==
  /\ Fault
  /\ servers' = [servers EXCEPT ![Listener] = <<>>]
  /\ index' = [index EXCEPT ![Listener] = <<>>]
  /\ boot' = [boot EXCEPT ![Listener] = Booting(installed)]
  /\ sleeping' = sleeping \ {Listener} /\ ready' = ready \ {Listener}
  /\ request' = [r \in Requests |-> IF at[r] = Listener THEN "none" ELSE request[r]]
  /\ workers' = {} /\ isolated' = {} /\ overwritten' = {} /\ raced' = {}
  /\ contended' = [contended EXCEPT ![Listener] = {}]
  /\ failed' = [failed EXCEPT ![Listener] = {}]
  /\ UNCHANGED <<beating, unmanaged, release, inputs>>

\* The daemon is stopped or killed and a new one starts.
Restart ==
  /\ Fault
  /\ servers' = [servers EXCEPT ![Listener] = <<>>]
  /\ index' = [index EXCEPT ![Listener] = <<>>]
  /\ boot' = [boot EXCEPT ![Listener] = Booting(Detected)]
  /\ sleeping' = sleeping \ {Listener} /\ ready' = ready \ {Listener}
  /\ request' = [r \in Requests |-> IF at[r] = Listener THEN "none" ELSE request[r]]
  /\ workers' = {} /\ isolated' = {} /\ overwritten' = {} /\ raced' = {}
  /\ contended' = [contended EXCEPT ![Listener] = {}]
  /\ failed' = [failed EXCEPT ![Listener] = {}]
  /\ UNCHANGED <<beating, unmanaged, release, inputs>>
-----------------------------------------------------------------------------
Next ==
  \/ \E p \in Procs : \/ BootCheck(p) \/ BootFetched(p) \/ Monitor(p) \/ Sleep(p) \/ Wake(p)
                      \/ \E n \in Names : CallFails(p, n)
                      \/ \E t \in Tools : CallTool(p, t)
  \/ \E r \in Requests : Begin(r) \/ Ensured(r) \/ List(r)
  \/ \E n \in Names : \/ \E tools \in offers[n] : Register(n, tools)
                      \/ \E value \in BOOLEAN : SetCollaborative(n, value)
                      \/ Heartbeat(n) \/ Persist(n) \/ Unregister(n) \/ Age(n) \/ ServerStops(n)
  \/ \E want \in BOOLEAN : SetMode(want)
  \/ ReapDead \/ Restart

\* Coroutines go on and heartbeat threads send; nobody has to call or to answer
\* well.
Spec == Init /\ [][Next]_vars
-----------------------------------------------------------------------------
\* What list_tools announces can be called: the call goes to a server that lists
\* the tool.  The exception is a tool that two servers have listed at once: when
\* the last to register leaves, unregister takes it out of the index and the call
\* falls back to the default server, which may be absent or not the one that lists
\* it.  (Registry.register, unregister, find_server_by_tool; call_tool's fallback.)
PublishedIsRouted ==
  \A p \in Procs : \A t \in Published(p) \ contended[p] :
    \E n \in Route(p, t) : t \in servers[p][n].tools

\* A server that the user has isolated stays out of the daemon's pulses through
\* registrations, heartbeats, deaths and sleep, until the user takes it back or it
\* is released or the daemon restarts.  The exception is a bootstrap that was
\* waiting for its schemas when it registered: register_managed starts from the
\* default (_bootstrap_subservers looks at the registry before the fetch only).
IsolationKept == (isolated \ overwritten) \cap Collaborators(Listener) = {}

\* A released tool is not managed by the daemon again, after a restart neither,
\* unless a bootstrap had it on its list when it was released.  (release_tool,
\* detect_subservers, _bootstrap_subservers.)
ReleasedStaysOut ==
  \A n \in Registered(Listener) :
    release[n] = "done" /\ servers[Listener][n].managed => n \in raced

\* What the user has decided with isolate and release stays decided.
UserDecisionsStay == IsolationKept /\ ReleasedStaysOut

\* The request that started the bootstrap answers with the tools of every installed
\* server that answered it, those of its worker or those it registered itself with;
\* one that found _subservers_ready set answers with fewer only while that bootstrap
\* is still on its way.  (_ensure_subservers, list_tools.)
ShortListsAreExplained ==
  [][\A r \in Requests :
       request[r] \in {"ensured", "skipped"} /\ request'[r] = "done" =>
         \A n \in installed :
           LET p == at[r] IN
           \/ \E tools \in {workerTools[n]} \cup offers[n] : tools \subseteq Published(p)
           \/ request[r] = "skipped" /\ n \in boot[p].todo
           \/ n \in failed[p] \cup unmanaged
           \/ n \in Registered(p) \ Alive(p)]_vars

=============================================================================
