# Gray Matter, verified in TLA+

Gray Matter is a local "thalamus" for AI assistants: every MCP client starts a
stdio **gateway** (`src/server.py`), the gateways share one **daemon** per user,
the daemon owns the **workers** (`src/_worker.py`) that hold Neuron's memory and
NeuRAG's knowledge base, and a set of on-disk files (caches aside) is shared by
all of these processes, by the command line and by the web panel.

This directory holds TLA+ modules of the parts where order, timing or failure
decide what happens, the TLC runs that check them on small instances, and
proofs, checked by TLAPS, of what holds for every instance.

## 1. Inventory

| Component (source) | State it keeps | Operations | Talks to | What is hard |
|---|---|---|---|---|
| Persistent workers (`server.py` 868-1124, `_worker.py`) | one child process per server, its pipes, an `asyncio.Lock`, the server's status | call, schema fetch, respawn, timeout, reap, sleep | registry, executor threads | readers that outlive the coroutine that started them; a reaper that takes no lock |
| Delegation (`server.py` 885-925, 1023-1124, `cli.py` 138-183) | back-off per gateway, pre-warmed set | IPC call, fallback to own workers, pre-warm sweep | daemon, workers | a late answer is taken for "no daemon" |
| Daemon election and IPC identity (`server.py` 1500-1575, 1711-1733, 1798-1825, `ipcauth.py`, `cli.py` 44-65) | port, socket, token channel, port file | probe, scan, bind, serve channel, publish, listen, shut down | operating system | two starts at once, two platforms with different binding rules, restart during shutdown |
| Context cache (`cache.py`, `server.py` 657-793, 831-865) | per process: LRU of answers with dynamic TTL | get, set, invalidate_related | workers | reads and writes that straddle an await |
| Daily backup (`backup.py`) | dated folders, `.tmp`, `.old` | sweep, copy, swap, prune | file system | kills between two steps, two processes |
| Registry and bootstrap (`registry.py`, `server.py` 530-541, 1162-1276, 1578-1709) | servers, tool index, isolation flags | register, register_managed, unregister, heartbeat, mark_dead | workers, IPC | check-await-overwrite in the bootstrap |
| Stimuli (`server.py` 296-370, 1397-1461, `memhook.py`) | counters and flashed sets, per process | flash, safety net, hook recall | Neuron's worker | counters checked before an await and reset after it |
| Blackboard (`state.py`) | versioned key/value rows | set, get, delta | SQLite | several writers of one version counter |
| Bridges (`bridges.py`) | hypotheses with weights and counters | add, use, decay, promote, transfer | both stores | counters that move while they are transferred |
| Promotion (`promote.py`, `server.py` 228-293) | what was promoted | propose, apply | both workers | partial failure of a two-step write |
| Shared JSON files (`paths.py`, `gme.py`, `pids.py`) | lock files, manifest, tool registry, pid registry | lock, merge, write, reap orphans | every process | stale-lock takeover, lost updates |
| Client registration (`clients.py`, `chatgpt.py`) | client configuration files | register, flip to gateway, release, deregister | installers | several files, no transaction |
| Installer, repair, uninstaller (`installer.py`, `uninstaller.py`, `executor.py`, `preflight.py`) | plans, hook groups, wiring | install, repair, uninstall, check | all files above | interrupted plans, any order of operations |
| Web panel (`webgui.py`, `webgui.html`) | children per key, keys shown, logs | start, answer, stop, read back a log | command line, installer | threads without a lock; an installer that kills its panel |
| Command line (`cli.py`) | none | front end to the above | daemon | presentation, for the most part |
| Suite root migration (`paths.py` 139-215) | old and new data folders | copy, count, remove | tools that look for their folder | killed half-way, tools that write meanwhile |
| Install scripts (`install.ps1`, `install.sh`) | the virtual environment | make it anew, stop what runs in it | installer, panel | clients' entries and a panel that outlive it |
| Catalog, cloud, shortcuts, self-check | static data | read at start | | no behaviour over time |

Section 3 states what makes each component correct, module by module.

## 2. Plan

Modules were written in this order, the most critical first; all are in place.

1. `WorkerPipe` (with its abstract specification `WorkerService`), `Delegation`,
   `DaemonElection`, `PulseCache`, `Backup`.
2. `Registry`.
3. `Bridges`: both tiers, decay, promotion, transfer, retries.
4. `SharedJson`: the lock file and the read-modify-write cycles under it.
5. `Wiring`: clients' configurations under install, repair, uninstall and flips.
6. `Panel`: the commands the control center runs.
7. `Jobs`, which puts together `Stimuli`, `Promotion`, `Bridges`, `Blackboard`,
   `Processes` and `Migration`.

8. `UserSide`, which puts together `PulseCache`, `Panel` and `Wiring`.

A component `X` has its proofs in `X_proofs`: those of `WorkerPipe`,
`Delegation`, `DaemonElection`, `Backup`, `Registry`, `SharedJson`, `Jobs` and
`UserSide` are in place (section 5), and with them every safety property that a
run checks of these components is a theorem. What is left to TLC is liveness.

## 3. Modules, runs and what they show

A module `X` models a component, `MCX` instantiates it for TLC. Bounds are
constants named `Max...`. Every run checks a type invariant besides what is
listed. Definitions ending up in comments as "Mutant of ..." are faulty
variants of an operation: substituting one makes TLC report the property it is
paired with in `PROJECT.json`, which shows that the property depends on that
operation.

### WorkerPipe (`WorkerPipeProps`, `WorkerService`, `WorkerPipe_proofs`)

State: the coroutine of each request (`pc`), its job on the default executor
(`job`, `line`), the `asyncio.Lock` (`owner`, `waiters`), the process (`proc`),
what is under way in its pipes (`stdin`, `stdout`, `decoded`), the lock of the
buffered reader (`rawlock`) and the registry's status. One action per step of
`_call_server_async`/`_fetch_tool_schemas` (`Submit`, `Enter`, `Finish`,
`Timeout`, `CancelWaiting`, `CancelInFlight`), of the executor's thread
(`StartJob`, `ReadChunk`, `ReadEof`), of the worker (`Serve`, `Crash`) and of the
background tasks (`ReapDead`, `Sleep`). Two traits of CPython matter and are
modelled: `readline()` looks at its decoded buffer once, and a chunk read later
replaces that buffer.

* `worker_pipe` (two tool calls and a schema fetch, all of which may be
  cancelled; two threads; unbounded crashes and timeouts).
  `MisdeliveryNeedsTwoAbandoned`: order alone pairs lines with readers until two
  jobs were left in `readline()`, by cancelled calls or timed-out fetches.
  `PipeIInv`: the inductive invariant of the proofs; with `TypeOK` it implies
  `CleanPipeForNext`, a timed-out *call* leaves nothing due on the pipe.
  `ImplementsService`: the plumbing implements `WorkerService`, whose fairness
  says that whoever asked is let go, so every request returns.

Three requests are the fewest that can misdeliver. Fairness: weak, on each
coroutine (the event loop runs and its timers fire). Nothing is assumed of the
worker, which may hang, of threads or of clients.
Not modelled: lines longer than one 8 KiB chunk, a failing `Popen`, the shutdown
request of dismissed workers, other servers' jobs in the same executor (all that
matters of them is a smaller `PoolSize`).

### Delegation (`Delegation_proofs`)

State: the daemon up or down, who has workers, each gateway's back-off and
pre-warming task, each call on both sides of the IPC, and how often each site
ran it. `delegation` (a call of each of two gateways; one daemon death, one
late answer, one refusal): a call runs at most once per site, its caller gets
one result, and it runs twice only after a late answer or a death of the daemon
(`TwiceNeedsFault`; late answers and deaths are counted for all calls together, so
with several of them it does not say whose); every call returns; a gateway gives up workers it pre-warmed
when a daemon answers.
Fairness: the gateway's coroutine, its timers, the daemon's handler while it is
up. What a worker does with a call is WorkerPipe's business: here it is a step.

### DaemonElection (`DaemonElection_proofs`)

State: where each process is in `_ipc_listener`, sockets bound and listening per
port, a foreign program's ports, the owner of the token channel, the port file.
A behaviour fixes a platform: on Windows binding is exclusive and a pipe name
belongs to one process, on POSIX two sockets may be bound until one listens and
the socket path is taken over. `election` (two daemons, a gateway, three ports
of which a stranger holds the first and may leave it, one kill, one stop):
one listener, reachable on Windows (`OneListenerWhenCalm`), no socket of a process
that stopped, died or gave way (`SocketsMatchStates`, a part of `TypeOK`), and a
start leads to service. One who gives way keeps its socket all the same: a gateway
that on POSIX bound and then lost `listen()`, whose failed task (`ipc_task`) holds
the frame the socket is in. "Calm" excludes what is
known to break the property: a stranger that leaves a port behind the scan (two
daemons), and a daemon started while a stopping one still holds the pipe name (no
channel). Of these two the property says nothing, and on POSIX nothing of who
answers on the channel.
Probes are accurate and the startup grace (1.8 s) is long enough for a process
between `bind` and `listen`; fairness only says that processes go on.

### PulseCache (a part of `UserSide`)

State: the clock, Neuron's memory as the set of stores each topic reflects, each
gateway's entries (`cache`) and their order, each request. The order of an
`OrderedDict` is a relation, `older`: a pair of topics is in it when the first was
used longer ago than the second. A request names its topic with a text, a
sequence of words and blanks in lower case: a pulse makes a topic of it, the key
of the cache (`Normal`: blanks collapsed, cut at `MaxKey`); a store only strips it
(`Strip`) and drops the entries it names (`Related`: one is part of the other).
Which topics a store changes in Neuron's memory is given (`Changes`), and has
nothing to do with either. `pulse_cache` runs this part of `UserSide` (two pulses on
"rust", two on "rust async", a store on "rust  async" with two blanks, which
changes both and names "rust" only; cache of one entry, clock to 3 with a TTL of
2): a pulse that misses a finished store of its gateway was answered from the
cache, and if the store's text names its topic, from an entry filled while that
store was in flight (`StaleOnlyFromOverlap`). So the two ways to be stale are an
overlap and a text that the two sides read differently, and there is no third.
Order and entries stay one `OrderedDict` (`OneOrderedDict`, a part of `TypeOK`). A fresh
answer after every store, as server.py:831-833 means it, does not hold: the entry
is dropped before the write is awaited, and a pulse that read before the write
fills it again; and the entry of "rust async" is not dropped at all. `hits` is capped at 4, where the
TTL stops growing. Runs have no liveness and may end when requests run out.

### Registry (`Registry_proofs`)

State: for each process its `_servers` and `_tool_index`, where its bootstrap is
and whether a request has started one; the daemon's workers; the setting
`unmanaged`; standalone servers that send heartbeats. What a bootstrap still has to
fetch is a set, taken in the order of `_SUBSERVER_MODULES`, which is the constant
`rank`. One action per IPC request,
monitor and await: `BootCheck` and `BootFetched` are the two sides of the await
in `_bootstrap_subservers`, `Persist` and `Unregister` the two writes of
`release_tool`. IPC requests reach the `Listener`, the process that holds the
port, which is the daemon or, without one, a stdio gateway.

`registry` (a gateway that holds the port, two requests, neuron installed and
also standalone, neurag standalone, a tool both may list; three inputs, two
faults). `PublishedIsRouted`: what is announced is routed to a server that lists
it, but for tools two servers have listed at once. `UserDecisionsStay`: isolation
survives re-registration, sleep and death, but not a bootstrap that was waiting
for its schemas; a released tool is not managed again, unless a bootstrap had it
on its list at that moment. `ShortListsAreExplained`: a tool list lacks an installed
server only if the server failed, was dead or released, or the request met the
bootstrap of another.

Three inputs let a server register, be isolated and register again, or be released
in between; two faults are a failed call and a restart, say. `failed` and
`contended` and the other variables in `history` serve the properties only. The
properties are of safety, and no fairness is assumed.
Not modelled: schemas of entries (they are descriptions), who sends heartbeats for a
server that never registered.

### Backup (`Backup_proofs`)

State: for each day the folder, its `.tmp` and its `.old` as sets of files, and
where each process is in `_run_locked`. One action per file-system step; the
removal of an outdated folder goes file by file, the removal of `.tmp` and
`.old` leftovers is one step, one file's copy is one step. `backup` (daemon
and forced command line, one after the other, four days, Keep = 2, two kills):
`KeptIsWhole`, `CopyGoesOnlyWhenOutdated`, `EveryDayBackedUp`. The second names
the one exception: a kill between the two renames leaves the day's copy as
`.old`, and the next run sweeps it before it has a new one. Fairness: a run
that was started goes on and the daemon looks again; forced runs and kills are
bounded.

### Bridges (a part of `Jobs`)

State: `row`, the table of each tier (weight, idle for a week or not, promoted);
`legacy`, the rows of a `bridges.json` not imported yet; for each process the
operation under way with what it has read (`op`). The actions are the statements
of the code: `Look`, `Bump`, `Insert` (`add_bridge`), `ReadRows`, `Reinforce`
(`bridges_for`) and `Confirm` (`_bridge_blocks`), `Fade`, `Prune` (`decay`),
`Take`, `Compare`, `Merge` (`transfer`), `Count`, `Import`, `Retire`
(`_maybe_migrate`: INSERT OR IGNORE entry by entry, with the weight, the age and the
promotion the file has, `OldRows`, and nothing that holds the weight to the cap;
an entry that raises is left out). Locally the writes of an operation are one transaction that
begins with its first write, not with its first read; in the cloud each
statement is on its own and one whose answer is lost is sent again
(`Resent`).

`bridges` runs this part of `Jobs` (the daemon and a gateway, two bridges, two
operations, one lost answer or failure; promotion at 3, which is the cap; an old
file whose bridges weigh 4).
`AccountsAreTrue`: no weight exceeds the uses asked for or what the old file gave,
copied between the tiers
or not, but for an answer lost in the cloud; and a promotion is told to Neuron or
about to be, but when another use came between the read and the UPDATE.
`EarnedStays`: a weight goes down by the decay, by a transfer that writes what it
read before another's use, or to the cap, with the first use of a bridge that was
imported above it; a bridge in use is never pruned. The last has an
exception, `worn`: a transfer that reads the cloud between the decay's two
statements takes a bridge with weight 0, and one that brings it back after the
pruning puts it where the next decay leaves it below 0; a use no longer saves it.
That takes four operations on one key, more than the run has; an attempt to prove
the property without the exception showed it, TLC found it on an instance with five
operations, and the theorem states the property for any number of them. Two
operations are what it takes for one to come between two statements of another;
rows may begin with any weight up to the cap, so that a threshold is one use away.
Safety only: no fairness. Not modelled: which bridges a topic matches (any set in
`Matches`), the checks of endpoints, the listing of bridges.

### SharedJson (`SharedJson_proofs`)

State: one of the shared files (`name`, `file`), its lock file with who made it
and whether it is old (`lock`), each process's operation (`op`). `Lock`, `SeeOld`,
`Break`, `GiveUp`, `Unlock` are the steps of `paths.json_lock` between which others
may act, `ReadEarly` is what four of the operations read before they ask for the
lock, `Write` is `os.replace`. What an operation makes of the file it has read is
an operator named for it (`Recorded`, `Forgotten`, `Written`, `Marked`, `KnobSet`,
...). On Windows a lock file that its maker holds open cannot be removed.

`shared_json` (three processes, one operation each, one of which may die
anywhere, both platforms). `OneWriter` and `UpdatesStay`: two writers are apart and
no update is lost, unless a writer was slower than the time-out, waited in vain, or
(on POSIX) died inside: `trouble` names these. With a slow holder, whose lock is
broken and whose unlink takes the next one's, the model does show two writers, and
the properties promise nothing; what they promise is of the lock in order and of
holders that die on Windows. What the manifest's
writer and `set_unmanaged` read outside the lock is not protected, so
`UpdatesStay` says nothing of the manifest and of the list of unmanaged tools.
`EveryWriterReturns`: with a process that is not killed going on and time going on
(the only fairness), nobody waits for ever. Three processes are the fewest that
show the unconditional unlink: a slow one removes the lock of the second and
lets the third in. They are interchangeable and numbered in the order they
begin, a symmetry set being unsound for liveness.

### Wiring (a part of `UserSide`)

State: for each client what its configuration holds of each slug (`entry`: none,
live, or stale after a new environment), whether its file is whole (`shape`), has
the user's own server (`mine`), and a `.bak` that has it (`bak`); the unmanaged
tools, the manifest, Claude Code's SessionStart hook. All clients are detected and
all tools installed. A command (`op`) is a plan, the
set of steps that its operator builds (`Gateway`, `InstallPlan`, `Link`,
`ReleasePlan`, `RemovalPlan`, ...), each with its place (`at`); steps of one
place are taken in the order of the clients, the constant `rank`. `Put`, `Drop`,
`Manual`, `Settings`, `DeployHook`, `WriteManifest`, `RemoveHook`, `RemoveCode`
take the `First` one that is left. A write
may fail (`WriteFails`, `CliFails`); the list of unmanaged tools may not be
cleared, which an install swallows (`SettingsFail`); the hook may not be deployed,
or be reported deployed though `settings.json` could not be read (`DeployFails`);
a command may be killed at any step or in the middle of a write (`Kill`). The hook
is planned where Neuron is installed. `Rebuild` is the install script's new
environment, which outdates what was written before.

`wiring` runs this part of `UserSide` (a JSON, a TOML and a CLI client, two tools, one fault; commands without
a bound, in any order). `ToolsStayReachable`: moving a tool between the gateway
and an entry of its own leaves one of the two open at each step, for a client
none of whose steps failed; install, which takes the direct entries out
before it clears the list, is left out. `WiringIsSound`: one way in once a command
is over, unless a command has left the clients in two states (`mixed`) and but
for Codex, whose TOML cannot be deregistered; the user's own server is in the file
or in the `.bak` of a file that is reported; an install that did every client
leaves the suite wired whatever came before: the gateway in all of them and in the
manifest, the list of unmanaged tools empty if it could be cleared, the hook
recorded and fresh if it could be deployed, its entry live if the settings could
be read; an uninstall leaves nothing of ours
in the clients it did. One client of each format is enough: commands treat
clients alike but for the format. Safety only. Not modelled: the virtual
environment and pip, data folders, hooks of other clients.

### Panel (a part of `UserSide`)

State: each command the panel was asked for and where its thread is (`cmd`), its
child and the installer a repair runs (`child`, `inst`), who waits for an answer
(`waits`) and who has a line it has not read yet (`typed`), the panel's own tables
(`procs`, `running`), the log on disk (`log`) and the commands that go on without it
(`mute`): a log that cannot be opened, or written to, stops no command
(`webgui.py:341-346`), and an earlier one's is then left as it was. The order in
which keys were put into the dict `_running`, which decides who is sent an answer,
is a relation (`before`, in `UserSide` `shown`).
`Check`, `Show`, `Spawn`, `Note`, `Follow`, `Pop` are the steps of `_stream`, which
takes no lock between them; `Stop`, `SendInput`, `Open`, `Close` are the user's;
`Sweep` is the installer that kills the panel it was started from.

`panel` runs this part of `UserSide` (two starts of the same key or of different ones, two faults; a panel may be
closed for good, so deadlock is not checked). `PanelTellsTruth`: one command of a
key at a time, its installer counted; a child that runs is shown and can be
stopped; the log read back after a restart tells the truth of the last command of its key
that had it (not of a later one in `mute`, whose reader is shown the earlier
one's exit). `AskerIsAnswered`: a
command that asks is answered, stopped or left. Each of them excepts the keys
that two threads raced for (`raced`) or whose installer outlives its command
(`left`). Fairness: threads run on, an installer ends, the user answers what is
asked (weak, on `Answer`, a `SendInput` to a command that waits); a command that keeps asking ends at last (strong,
on `End`, which each question disables). Not modelled: pages and read-only views.

### UserSide (`PulseCache`, `Panel`, `Wiring`, `UserSide_proofs`)

What those who use Gray Matter meet: the answers a gateway may have cached, the
control center, the clients' configurations. The three share no state, and a
behaviour of `UserSide` is one of them (`part`); `Parts` says which may begin, and
each has its run. The properties are those of the parts, by the same names. The
only fairness is the panel's, `P!Fairness`.

### Jobs (`Stimuli`, `Promotion`, `Bridges`, `Blackboard`, `Processes`, `Migration`, `Jobs_proofs`)

Six parts that share no state and may run side by side; a behaviour of `Jobs`
is one of them (`part`), so that one run checks them all without their product.
`Parts` says which: Bridges, the largest, has its run to itself (above), the other
five share `jobs`.

* `Stimuli`: counters and sets of one process, gateway or daemon, and the
  questions each call in flight has out. Between a question and its answer other
  calls are served. `StimuliKeepMeasure`: a session is shown a section and
  reminded of a concept once; stimuli keep their distance, unless one passed while
  the other was asked for; no `SafetyGap`-th silent turn ends without Neuron having
  been asked. The daemon remembers `SessionsMax` sessions; one more clears them all
  (`Forget`), under recalls that go on with the sets they have (`Cut`). "Once" is
  therefore from one clearing to the next, and of recalls that begin in between:
  a session that was forgotten is told again, and what a recall that was cut
  still tells is in nobody's account. Distances and silence are counted across it.
* `Promotion`: Neuron's links and episodes, which go on changing; NeuRAG's nodes
  and chunks; each `_do_promote`. A question may be answered, lost before or after
  it was obeyed, or raise. `FactsArriveOnce`: a promoted concept has its facts
  once each, however promotions overlap, unless a question about it failed
  (`harmed`): of what a partial failure leaves in such a concept it says nothing.
* `Blackboard`: rows with versions; `state_set` in its two statements, and a
  follower that keeps the last version it was given. `DeltaMissesNothing`: it misses
  no value, but those that were set while another process was setting one.
* `Processes`: who runs, whose child each is, `pids.json`. `OnlyTheLeftAreReaped`:
  no reaper picks a child of a living process, nor a daemon while a gateway with
  a client was registered as it made its list. Of a daemon that gets its first
  gateway between the list and the kill it says nothing. `taskkill /T` of
  `gray-matter reap` takes the tree of what it picks (`Tree`).
* `Migration`: the old and the new folder as sets of contents per file, tools that
  open, write and close. `MemoryIsSomewhere`: however the move is interrupted, what
  was written is in one of the two, unless a tool wrote behind its back.

`jobs` has two calls (promotions, gateways, tools), two sessions of which one is
remembered, two topics, three
setters, two keys, one fault, one round of reaping where the code has three (each
round makes another list in the same way). Two actors show every interleaving of
two handlers; three setters are needed for a version to go back and come up
again while a third is at work. Safety only.

`jobs_cut` checks `LegacyStaysRead` on the same instance and is violated:
`src/paths.py:142-144` says of a copy that does not arrive whole that the original
is still there "ed e' `legacy_or_new()` a continuare a leggerlo"; but
`legacy_or_new` (91-92) takes the new folder as soon as it exists, and a
copy that was killed, raised or came short leaves it there.

## 4. Behaviours worth knowing

Where the code does less than a reader of its comments might expect, the
properties name the exception (files and lines are those of `src/`). They are,
by component:

* Workers: two schema fetches that time out leave two readers, and the lock no
  longer excludes interleaving (`README.md:108-109`). A managed server that was
  marked dead is revived by no heartbeat (`registry.py:24-26`).
* Delegation: an answer that comes after the time-out is taken for "no daemon"
  (`server.py:1047`), and the call runs twice.
* Election: on POSIX two daemons can bind the same port (SO_REUSEADDR), and the
  one that is published (`server.py:1563-1565`) may not be the one that answers.
* Cache: a store drops the entries its raw text names (`server.py:835`), a pulse's
  entry is under the normalised one (662): two blanks in a row, or more than 200
  characters, and the entry stays, against "so the next pulse rebuilds fresh" (832).
* Backup: a forced command-line run next to the daemon's can leave a folder that is
  not complete (`backup.py:18-19`); the runs checked follow one another.
* Registry: `isolate` from the command line (`cli.py:478`) reaches the registry of
  the port's holder only; a released worker goes on running (`clients.py:659-663`).
* Bridges: a retried statement "can never double-apply" (`bridges.py:137-138`) is not
  so of UPDATE weight+1. A promotion may be reported never or twice when two
  gateways show the bridge together. A transfer writes absolute weights read
  before, and does not carry `promoted` over to a row that exists; it takes rows the
  decay has worn to nothing and not pruned yet (`bridges.py:521-523`, in the cloud two
  statements). A legacy file whose renaming failed is imported again once the table
  is empty.
* Shared files: the manifest is loaded outside the lock its save takes
  (`paths.py:480-481`, `clients.py:537-539`, `installer.py:80-97`).
* Wiring: a TOML client is registered and never deregistered. `link` takes the
  direct entry out even if the gateway's could not be written, and leaves
  Codex with both. An uninstall deregisters nothing when the manifest has no
  clients. `register --gateway --client X` clears the list of unmanaged tools for
  all clients. A repair that wipes `config.json` forgets them too. A failed `claude
  mcp remove` is not noticed. A write that raises leaves a cut file. An install
  goes on when its hook could not be deployed, and when the list of unmanaged
  tools could not be cleared; a hook whose settings do not parse is reported as
  deployed.
  The panel's uninstall only lists (`webgui.py:686`).
* Panel: `stop` (`webgui.py:526-538`) terminates the command and not the installer it
  waits for (`cli.py:776-785`); nothing writes the log once the panel is gone
  (against `webgui.py:303-310`); a command that could not be spawned leaves a log
  without an exit; one
  that cannot open its log leaves an earlier run's exit there, which is shown while
  it works (`webgui.py:345`); an answer goes to the key shown first.
* Stimuli: the daemon keeps one topic and one count of calls for all sessions; a
  flash cut off by the budget counts as given; two calls in flight may both flash;
  the 51st session has all of them forgotten, and told again (`server.py:1404`).
* Promotion: the text of an error counts as "written" and chunks follow it, a
  failure between node and chunks is never repaired, facts that come after the
  promotion stay in Neuron, an exception at the chunks makes a concept both
  written and skipped.
* Blackboard: values set together may share a version, or take versions back.
* Processes: on POSIX `_reap_orphans` asks for `taskkill`, so nothing is reaped at a
  start; `gray-matter reap` on Windows ends the children of an orphan gateway, the
  shared daemon among them (`cli.py:305-306` has it spared), and on POSIX forgets a
  process it has only sent a SIGTERM; the installer deletes `pids.json` as a
  whole; an uninstall takes all tracked processes for orphans (`executor.py:1238`).
* Migration: `jobs_cut` above.

## 5. Proofs

Eight modules hold proofs, of every instance: any sets of actors and things, any
bounds. All follow one pattern. The type invariant and the property a run checks
are not inductive; the module begins with the inductive invariant, in named
parts; each action has a lemma, or one per part it disturbs; the first theorem
says that the specification keeps the invariant, the others follow from it.
TLC has checked each inductive invariant on the instance of the component's run
(the number of its states is given). The assumptions are the `ASSUME`s
of the component's module, which TLC evaluates on that run.

`WorkerPipe_proofs`: `TypeCorrect`, `PipeInvariant`, `NoEarlyMisdelivery`,
`CleanPipe` and `PipeImplementsService`, the safety part of the refinement of
`WorkerService`. `MisdeliveryNeedsTwoAbandoned` is not inductive: it says
nothing of lines still in a pipe. `PipeIInv` describes every pipe that can arise
before two jobs are abandoned: nobody reads and nothing is due; one job reads
and its own line is in exactly one place; or an abandoned job and the lock's
holder read, in that order, and their lines are due in that order. Each action
moves between these shapes (`PipeStep`), and the second abandonment ends the
obligation (`AbandonedStays`).

`Delegation_proofs` (47 291 states): `TypeCorrect`, `CallsRunTwiceOnlyByFault`.
`CallInv` ties a call's program counter in its gateway to its request in the daemon
and to what was run and answered: no third site ever runs it, the daemon's run is
counted once its request is taken off, and a gateway that goes on by itself after
that does so for a late answer or a dead daemon, which stay counted.

`DaemonElection_proofs` (26 141 states): `ElectionInvariant`, `TypeCorrect`,
`OneListenerAfterCalmStart`. As long as the start is calm, everybody scans past
strangers' ports only, so all who bind anything bind the same port, the first that
is free (`ScanIsOrderly`), and the platform decides among them: on Windows binding
is exclusive, on POSIX listening is. `PublishedFirst` adds what makes the winner
reachable.

`Backup_proofs` (250 502 states): `TypeCorrect`, of overlapping runs too;
`BackupInvariant`, `NewestFoldersAreWhole`, `CopiesGoOnlyWhenOutdated`, of runs
that follow one another (`~Overlap` is their hypothesis, as it is of what
`backup.py` promises). Pruning goes from the oldest on, so a damaged folder is the
oldest there is (`DamageIsOldest`), and until a second kill it has `Keep` newer
days (`DamageIsOutdated`). The hard case is the kill between the two renames: it
leaves an `.old` without a folder, and then nothing is damaged before the second kill
(`OrphansAreOfAKill`). `CopiesGoOnlyWhenOutdated` holds whatever the number of
kills. `NoDirIsNoDirectory`: no set of files is taken for a missing folder.

`Registry_proofs` (986 514 states): `RegistryInvariant`, `TypeCorrect`,
`PublishedAlwaysRouted`, `DecisionsStay`, `ShortListsHaveReasons`. `IndexLeads` is
stronger than `PublishedIsRouted`: every entry, announced or not, whose tool was
not listed by two servers at once, is where the index leads. `BootAccounts` turns
the action property into one of states: from its first request on, a process has
each installed server registered, still to fetch, failed or released, so
a list that is given with no bootstrap under way can be short only for the reasons
the property names. The assumption on `rank` is that no two servers have the
same place.

`SharedJson_proofs` (1 043 811 states): `SharedInvariant`, `TypeCorrect`,
`WritersAreApart`, `UpdatesAlwaysStay`. Without trouble (`LockInOrder`) whoever is
inside holds the lock file, it is fresh, and what the writer has read is what is
in the file; so the write that `UpdatesStay` speaks of is made of the newest
contents. The only lock files that outlive their maker then are those of the
dead on Windows, the only ones taken for old. What each operation makes of a file
is one lemma per operator. `NoLockIsNone`: no lock file is taken for none.

`Jobs_proofs` (1 205 052 states of Bridges, 647 357 of the other parts):
`JobsInvariant`, `TypeCorrect` and a theorem for each property. The parts share no
variable: each has an invariant of its own, kept by its own steps and left alone by
the others'.

* `StimuliAlwaysKeepMeasure`, for any size of the table of sessions: a question that
  is out alone finds, at its answer, the counters it was asked for
  (`AloneIsInTime`), and what was told is remembered, until
  the clearing that has the account forget it too.
* `PromotionAddsOnce`: a fact's chunks and the promotions on the way to add it are
  no more than the faults and one (`FactsAreCounted`); until a fault one promotion
  at most is between node and chunks, and the node is empty (`NodesAreFilledOnce`).
* `BridgesAreEarned`, `BridgesKeepEarnings`: a use is asked for before it is written,
  so no row, and nothing a transfer has read, weighs more than what was asked for
  less the uses still to be written (`Credit`, `Due`); each answer lost in the cloud
  allows one more; what the old file has is asked for from the start, so that an
  import writes no more than that. A key's processes that owe it a use are counted, which is why
  processes are finitely many. A row is worn (`Hale`) only between a decay and its
  pruning, after a fault, or if a transfer took it so. What an operation has read
  is kept as it was (`ReadKept`). `EarnedStays` follows action by action: only
  `Fade` and `Merge` take weight, only `Fade` and `Prune` a row.
* `FollowersMissNothing`: with one writer at a time a set in progress is the newest
  version and one (`RacesAreNoticed`), and versions are counted by the sets made.
* `ReapersSpareWhoServes`: whoever is on a list has lost its parent, and nobody
  gets it back (`ListedAreLeft`).
* `MovesLoseNothing`: where what was written is, step by step (`MoveInv`).

`UserSide_proofs` (937 284 states of PulseCache, 153 699 of Panel and
1 202 154 of Wiring): `UserSideInvariant`,
`TypeCorrect` and a theorem for each property but `AskerIsAnswered`.

* `StalePulsesOverlap`: what a pulse has read, and what an entry holds, lacks of its
  gateway's stores only those its reader, or the entry's filler, has met in flight,
  and an entry those whose text does not name it (`ReadIsSound`, `CacheIsSound`): a
  store that begins later drops the entries it names before it writes. The part on `OneOrderedDict` is that using, adding and
  dropping topics keep `older` a total order of the entries, and that one at most is
  dropped for room. `AbsentIsNoEntry` says that no entry is taken for none.
* `PanelAlwaysTells`: how far a command's threads are tells what its child and its
  installer can be (`ThreadsTell`), so that one that works without its panel is one
  the panel left. `PanelTellsTruth` says nothing of a command between its check
  and its `Popen`, which is where a second one could slip in: `OneUnderWay` counts
  from the check on, and says that a command under way is the only one of its key, is
  shown, and is the child known for it, unless the key was raced for. `LogsTell`
  follows a log from its opening: until the one it is of is over it has no exit
  line, and the exit line it gets is of a child that has ended with its installer;
  a command that could not open it is mute and leaves it alone.
* `WiringStaysSound`: what a command has left to do tells what the files have in
  them. `PlanIsKept`: the steps left are of the command's plan, so what comes first
  leaves nothing of an earlier place (`InOrder`). `GatewayTells`, `StandaloneTells`,
  `LinkTells` and `RemovalTells` say for each command what is so of a client whose
  step is done and of the settings once their step is. `NoStrays` makes `OneWayIn` one
  about every moment: a managed tool has no entry of its own, but where a command is
  on its way to take it out or to let the tool go (`Moving`), which no command is
  once it is over. It holds until `mixed`, which is what a failure, a kill or a
  choice of clients leaves. `UserServerKept` and `Converges` are inductive with these.
* `MovingToolsStayReachable` is an action property, proved action by action from the
  same invariant: a direct entry is taken out when the gateway's is live and the
  tool managed again (`LinkTells`), the gateway's when every tool has been let go
  (`StandaloneTells`), and a tool is let go when its own entry is live.

The assumptions added for the proofs are what names mean: sections are no concepts
(`SectionsAreNoConcepts`), the programs that reap are none of those they reap
(`ReapersAreApart`), promotions, setters, files, and the processes and bridges of the
store are finitely many (`FiniteThings`), a missing row is no row (`MissingIsNoRow`),
the promotion is within the cap, rows begin between 1 and it, and an old file's with
1 at least (`BridgeRules`); the table of sessions has room for one
(`SessionsAreHeld`), a gateway's session is no hook's (`GatewayIsNoHook`); each
pulse's normalised text is one of the topics (`TopicsAreKnown`);
the gateway's slug is no tool's, a client's configuration has one format, and no two
clients have the same place (`WiringRules`, `ClientsAreApart`, `ClientsAreRanked`);
the panel knows some command (`LoggedAreKeys`).

The proofs have found the exception `worn` of Bridges (section 3). Otherwise they have
changed the models in three ways, none of what they do: alternatives
of a `CASE` that overlapped are now exclusive (Stimuli, Bridges); sets written
without parentheses that the two tools read differently have them (Backup,
PulseCache, Migration, Wiring); and what were sequences filtered or built by recursive
library operators are orders: a relation in `PulseCache` and `Panel`, a rank in
`Registry`, and in `Wiring` sets of steps with a place and a rank.

Only model-checked is liveness (`EveryCallReturns`, `PrewarmedSetIsGivenUp`,
`StartLeadsToService`, `EveryDayBackedUp`, `EveryWriterReturns`, `AskerIsAnswered`,
and the fairness part of `ImplementsService`): it rests on fairness, that is on
ENABLED, which this prover does not handle. `LegacyStaysRead` is not proved because
it does not hold (`jobs_cut`).

No module declares a RECURSIVE operator.

## 6. Not modelled

* The embedding models, ranking, and the text of answers and descriptions; the
  memory and the knowledge base behind the workers, which are other programs.
* Token contents and expiry (`ipcauth.py`): who holds the channel is modelled, what
  goes through it is not.
* The making of the virtual environment, pip, downloads, shortcuts: I/O whose order
  nothing else depends on. What the install scripts do to clients' entries and to
  running processes is `Wiring.Rebuild` and `Panel.Sweep`.
* `json_lock`'s last branch, which goes on without a lock in a folder that cannot be
  written; the reuse of a process number by another process.
* The move of the loose registry files at the end of the suite root migration; an old
  bridges file that is malformed or has weights below 1 (`_maybe_migrate` takes
  entries it cannot read for none).
* The components marked `not_modelled` in `PROJECT.json`, each with its reason there.
