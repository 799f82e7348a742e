-------------------------------- MODULE Wiring --------------------------------
(***************************************************************************)
(* What the suite writes into the configuration of the AI clients, and the *)
(* commands that write it: register, deregister and link (src/clients.py,  *)
(* src/cli.py, the panel's cards in src/webgui.py), install, uninstall and *)
(* repair (src/installer.py, src/uninstaller.py, src/executor.py).         *)
(*                                                                         *)
(* A tool reaches a client through the gateway, whose entry is GM, or by   *)
(* an entry of its own, when it is unmanaged.  A command is a plan: steps, *)
(* one after another, and one per client where it goes through the         *)
(* clients.  A step may fail, for the next ones to run all the same, and   *)
(* the command may be killed at any of them; one command runs at a time.   *)
(*                                                                         *)
(* A JSON file is parsed, backed up and written in place.  A TOML file is  *)
(* edited as text, and deregister, which reads every file as JSON, cannot  *)
(* edit it.  Claude Code is changed by its own CLI.                        *)
(***************************************************************************)
EXTENDS Naturals

CONSTANTS
  Json, Toml, Cli,  \* the clients, by the format of their configuration
  rank,             \* rank[c]: the place of client c among them
  Tools,            \* the tools behind the gateway, all installed
  Neuron,           \* the one whose package has the hook
  GM,               \* the gateway's slug
  Picks,            \* the choices of clients a command is given
  MaxFaults         \* bound: steps that fail, commands that are killed

Clients == Json \cup Toml \cup Cli
Slugs == Tools \cup {GM}

VARIABLES
  entry,      \* entry[c][s]: none; live, or stale: its interpreter is gone
  shape,      \* shape[c]: the file is whole, empty, or cut off
  mine,       \* clients whose file has the user's own server in it
  bak,        \* clients whose .bak has it
  unmanaged,  \* tools the gateway does not manage (config.json)
  manifest,   \* what the manifest records: clients, and whether hooks
  hook,       \* the SessionStart hook: its file, its entry in settings.json
  op,         \* the command under way
  faults,
  settled,    \* ghost: which command ended last, the clients it did, what it did not
  mixed,      \* ghost: some command has left the clients in two states
  hit         \* ghost: clients whose file a kill has emptied or cut off

vars == <<entry, shape, mine, bak, unmanaged, manifest, hook, op, faults,
          settled, mixed, hit>>

\* What a command may not bring about apart from the clients: the list of unmanaged
\* tools cleared, the hook deployed, its entry written.
Chores == {"manage", "hook", "entry"}

NoOp == [kind |-> "none", todo |-> {}, put |-> {}, drop |-> {}, oks |-> {}, bad |-> {}]
Nothing == [kind |-> "none", oks |-> {}, bad |-> {}]
Kinds == {"none", "register", "gateway", "install", "standalone", "link", "uninstall",
          "repair"}
Bare == [s \in Slugs |-> "none"]

Steps == [at : 1..4, on : Clients \cup {"all"},
          do : {"put", "direct", "drop", "sync", "manage", "hook", "manifest", "release",
                "unhook", "remove", "wipe"}]

TypeOK ==
  /\ entry \in [Clients -> [Slugs -> {"none", "live", "stale"}]]
  /\ shape \in [Clients -> {"whole", "empty", "cut"}]
  /\ \A c \in Clients : shape[c] # "whole" => c \in Json /\ c \notin mine /\ entry[c] = Bare
  /\ mine \subseteq Clients /\ bak \subseteq Json \cup Toml
  /\ unmanaged \subseteq Tools
  /\ manifest \in [clients : SUBSET Clients, hooks : BOOLEAN]
  /\ hook \in [file : {"none", "same", "other"}, entry : {"none", "live", "stale"}]
  /\ op \in [kind : Kinds, todo : SUBSET Steps, put : SUBSET Slugs, drop : SUBSET Slugs,
            oks : SUBSET Clients, bad : SUBSET (Clients \cup Chores)]
  /\ faults \in 0..MaxFaults
  /\ settled \in [kind : Kinds, oks : SUBSET Clients, bad : SUBSET (Clients \cup Chores)]
  /\ mixed \in BOOLEAN /\ hit \subseteq Clients

Init ==
  /\ entry = [c \in Clients |-> Bare]
  /\ shape = [c \in Clients |-> "whole"]
  /\ mine = Clients /\ bak = {}
  /\ unmanaged = {}
  /\ manifest = [clients |-> {}, hooks |-> FALSE]
  /\ hook = [file |-> "none", entry |-> "none"]
  /\ op = NoOp /\ faults = 0
  /\ settled = Nothing /\ mixed = FALSE /\ hit = {}

-----------------------------------------------------------------------------
(* The commands, as plans.                                                 *)

\* In the n-th place, for each client of cs or once.
Each(n, do, cs) == {[at |-> n, do |-> do, on |-> c] : c \in cs}
One(n, do) == Each(n, do, {"all"})
If(b, todo) == IF b THEN todo ELSE {}

Begin(kind, todo, put, drop, mixes) ==
  /\ op = NoOp
  /\ op' = [NoOp EXCEPT !.kind = kind, !.todo = todo, !.put = put, !.drop = drop]
  /\ mixed' = (mixed \/ mixes)
  /\ settled' = Nothing
  /\ UNCHANGED <<entry, shape, mine, bak, unmanaged, manifest, hook, faults, hit>>

\* register without --gateway puts every server next to the gateway's tools.
Register(only) ==
  Begin("register", Each(1, "put", only) \cup One(2, "sync"), Slugs, {}, TRUE)

\* register_flow with gateway: clear_unmanaged comes first, for all clients,
\* while the entries of only some may be taken out.
Gateway(only) ==
  Begin("gateway", One(1, "manage") \cup Each(2, "put", only) \cup One(3, "sync"),
        {GM}, Tools, only # Clients)

\* installer.plan: register, hooks where the neuron is, manifest.
InstallPlan(register) ==
  register \cup If(Neuron \in Tools, One(3, "hook")) \cup One(4, "manifest")
\* execute_install: clear_unmanaged comes after the clients.
Install(only) ==
  Begin("install", InstallPlan(Each(1, "put", only) \cup One(2, "manage")), {GM}, Tools,
        only # Clients)

\* release_tool lets a tool go, and takes the gateway out when it manages none.
ReleasePlan(t) ==
  One(2, "release") \cup If(Tools \subseteq unmanaged \cup {t}, Each(3, "drop", Clients))
\* cmd_deregister: the tool's own engine registers it first.
Standalone(t) ==
  Begin("standalone", Each(1, "direct", Clients) \cup ReleasePlan(t), {t}, {GM}, FALSE)

\* Mutant of Link: the direct entries go first.
LinkDropsFirst(ts) ==
  /\ ts \subseteq unmanaged
  /\ Begin("link", Each(1, "drop", Clients) \cup One(2, "manage") \cup Each(3, "put", Clients),
           {GM}, ts, FALSE)
\* cmd_link, link_run: managed again, the gateway back, the direct entries out.
Link(ts) ==
  /\ ts \subseteq unmanaged
  /\ Begin("link", One(1, "manage") \cup Each(2, "put", Clients) \cup Each(3, "drop", Clients),
           {GM}, ts, FALSE)

\* uninstaller.plan: the clients are gone through when the manifest has any.
RemovalPlan ==
  If(manifest.clients # {}, Each(1, "drop", Clients)) \cup If(manifest.hooks, One(2, "unhook"))
    \cup One(3, "remove")
\* execute_uninstall.
Uninstall == Begin("uninstall", RemovalPlan, {}, Slugs, manifest.clients = {})

\* execute_repair: the surfaces picked, config.json among them.
Repair(registrations, config) ==
  Begin("repair", If(registrations, Each(1, "drop", Clients)) \cup If(config, One(2, "wipe")),
        {}, Slugs, config /\ unmanaged # {})

-----------------------------------------------------------------------------
(* The steps.                                                              *)

\* A step that is in the first place there is; it is done.
First(s) ==
  \A r \in op.todo \ {s} : s.at < r.at \/ (s.at = r.at /\ rank[s.on] < rank[r.on])
At(do, c) == \E s \in op.todo : s.do = do /\ s.on = c /\ First(s)
Done(c, oks, bad) ==
  op' = [op EXCEPT !.todo = {s \in @ : s.on = c => ~First(s)},
                   !.oks = @ \cup oks, !.bad = @ \cup bad]
Fault == faults < MaxFaults /\ faults' = faults + 1

Listed(c, s) == entry[c][s] # "none"
\* A file cut off does not parse: it is reported, never rewritten.
Parses(c) == c \in Json => shape[c] # "cut"

\* What the writer leaves in c's configuration: put in, and what else goes.
Rewrite(c, put, drop) ==
  entry' = [entry EXCEPT ![c] = [s \in Slugs |-> IF s \in put THEN "live"
                                 ELSE IF s \in drop THEN "none" ELSE @[s]]]
\* Mutant of Backup: a .bak of the file that its CLI writes.
BackupOfAll(c) == bak' = IF c \in mine THEN bak \cup {c} ELSE bak \ {c}
\* The .bak is what was read before the write.
Backup(c) == bak' = IF c \in Cli THEN bak
                    ELSE IF c \in mine THEN bak \cup {c} ELSE bak \ {c}

\* A file half written is empty or cut off (of a TOML file both still parse);
\* the .bak is whole by then.
Torn(c) ==
  \E how \in {"empty", "cut"} :
    /\ At("put", c) \/ At("direct", c)
       \/ (At("drop", c) /\ c \in Json /\ \E s \in op.drop : Listed(c, s))
    /\ c \notin Cli /\ Parses(c)
    /\ Backup(c)
    /\ entry' = [entry EXCEPT ![c] = Bare]
    /\ mine' = mine \ {c}
    /\ shape' = [shape EXCEPT ![c] = IF c \in Json THEN how ELSE "whole"]
    /\ hit' = IF c \in Toml \/ how = "empty" THEN hit \cup {c} ELSE hit

\* _register_json, _register_toml, _register_claude_cli, and the tools' own
\* engines (step `direct'), which are outside this repository.
Put(c) ==
  /\ At("put", c) \/ At("direct", c)
  /\ Parses(c)
  /\ Rewrite(c, op.put, IF At("put", c) /\ op.kind # "link" THEN op.drop ELSE {})
  /\ shape' = [shape EXCEPT ![c] = "whole"]
  /\ Backup(c)
  /\ Done(c, {c}, {})
  /\ UNCHANGED <<mine, unmanaged, manifest, hook, faults, settled, mixed, hit>>

\* deregister: written only if there is something of ours in it.  The Claude
\* CLI is never asked how it went.
Drop(c) ==
  /\ At("drop", c) /\ c \notin Toml /\ Parses(c)
  /\ Rewrite(c, {}, op.drop)
  /\ IF \E s \in op.drop : Listed(c, s) THEN Backup(c) ELSE UNCHANGED bak
  /\ Done(c, {c}, {})
  /\ UNCHANGED <<shape, mine, unmanaged, manifest, hook, faults, settled, mixed, hit>>

\* JSONDecodeError: `manual'.
Manual(c) ==
  /\ \/ (At("put", c) \/ At("direct", c)) /\ ~Parses(c)
     \/ At("drop", c) /\ (c \in Toml \/ ~Parses(c))
  /\ Done(c, {}, {c})
  /\ UNCHANGED <<entry, shape, mine, bak, unmanaged, manifest, hook, faults, settled,
                 mixed, hit>>

\* The write raises, or does not verify and is rolled back; one that raises is
\* not, and may leave what a kill leaves.
WriteFails(c) ==
  /\ At("put", c) \/ At("direct", c) \/ (At("drop", c) /\ c \notin Toml)
  /\ c \notin Cli /\ Parses(c)
  /\ Fault
  /\ Torn(c) \/ (UNCHANGED <<entry, shape, mine, hit>> /\ bak' \in {bak, bak \ {c}})
  /\ Done(c, {}, {c})
  /\ mixed' = TRUE
  /\ UNCHANGED <<unmanaged, manifest, hook, settled>>

\* `claude mcp add' fails, perhaps after the `remove' of the entry there was;
\* or `claude mcp remove' fails, which nobody looks at.
CliFails(c) ==
  /\ c \in Cli /\ (At("put", c) \/ At("direct", c) \/ At("drop", c))
  /\ Fault
  /\ \/ /\ At("put", c) \/ At("direct", c)
        /\ \E gone \in {{}, op.put} :
             Rewrite(c, {}, gone \cup IF At("put", c) /\ op.kind # "link" THEN op.drop ELSE {})
        /\ Done(c, {}, {c})
     \/ /\ Rewrite(c, IF At("drop", c) THEN {} ELSE op.put, {})
        /\ Done(c, {c}, {})
  /\ mixed' = TRUE
  /\ UNCHANGED <<shape, mine, bak, unmanaged, manifest, hook, settled, hit>>

\* set_unmanaged and clear_unmanaged; link names the tools it takes back.
Settings ==
  /\ \/ /\ At("manage", "all")
        /\ unmanaged' = IF op.kind = "link" THEN unmanaged \ op.drop ELSE {}
     \/ At("release", "all") /\ unmanaged' = unmanaged \cup op.put
     \/ At("wipe", "all") /\ unmanaged' = {}
  /\ Done("all", {}, {})
  /\ UNCHANGED <<entry, shape, mine, bak, manifest, hook, faults, settled, mixed, hit>>

\* set raises, on the lock or on the write, which execute_install alone swallows.
SettingsFail ==
  /\ op.kind = "install" /\ At("manage", "all")
  /\ Fault
  /\ Done("all", {}, {"manage"})
  /\ UNCHANGED <<entry, shape, mine, bak, unmanaged, manifest, hook, settled, mixed, hit>>

\* Mutant of Upsert: an entry of ours is left alone, dead or not.
UpsertOnce(e) == IF e = "none" THEN "live" ELSE e
\* _entry_is_dead: the interpreter it names by an absolute path is gone.
EntryIsDead(e) == e = "stale"
\* _upsert_hook_group: an entry that cannot run is written anew.
Upsert(e) == IF e = "none" \/ EntryIsDead(e) THEN "live" ELSE e

\* _deploy_claude_code.
DeployHook ==
  /\ At("hook", "all")
  /\ hook' = [file |-> "same", entry |-> Upsert(hook.entry)]
  /\ Done("all", {}, {})
  /\ UNCHANGED <<entry, shape, mine, bak, unmanaged, manifest, faults, settled, mixed, hit>>

\* The asset is missing, or a copy or the write of the settings raises, and _deploy_hook
\* says so; or the settings do not parse, and it says that all is well.
DeployFails ==
  /\ At("hook", "all")
  /\ Fault
  /\ \E file \in {hook.file, "other", "same"} : hook' = [hook EXCEPT !.file = file]
  /\ Done("all", {}, {"hook"}) \/ (hook'.file = "same" /\ Done("all", {}, {"entry"}))
  /\ UNCHANGED <<entry, shape, mine, bak, unmanaged, manifest, settled, mixed, hit>>

\* _sync_manifest_clients: the union with the clients that were done.
Synced(m) == [m EXCEPT !.clients = @ \cup op.oks]
\* record_install, by set_clients and record_hook: the clients detected, and what
\* _deploy_hook said it deployed, next to what was there.
Recorded(m) ==
  [m EXCEPT !.clients = Clients, !.hooks = @ \/ (Neuron \in Tools /\ "hook" \notin op.bad)]
WriteManifest ==
  /\ \/ At("sync", "all") /\ manifest' = Synced(manifest)
     \/ At("manifest", "all") /\ manifest' = Recorded(manifest)
  /\ Done("all", {}, {})
  /\ UNCHANGED <<entry, shape, mine, bak, unmanaged, hook, faults, settled, mixed, hit>>

\* _remove_hook with _scrub_claude_settings: the file may be in use, the settings may not
\* parse; the plan goes on.
RemoveHook ==
  /\ At("unhook", "all")
  /\ \E f \in {"none", hook.file}, e \in {"none", hook.entry} : hook' = [file |-> f, entry |-> e]
  /\ IF hook' = [file |-> "none", entry |-> "none"] THEN UNCHANGED faults ELSE Fault
  /\ Done("all", {}, {})
  /\ UNCHANGED <<entry, shape, mine, bak, unmanaged, manifest, settled, mixed, hit>>

\* _remove_code: manifest.json and config.json are among its targets.
RemoveCode ==
  /\ At("remove", "all")
  /\ manifest' = [clients |-> {}, hooks |-> FALSE]
  /\ unmanaged' = {}
  /\ Done("all", {}, {})
  /\ UNCHANGED <<entry, shape, mine, bak, hook, faults, settled, mixed, hit>>

\* An install or a flip that did every client leaves them all in one state.
Finish ==
  /\ op.kind # "none" /\ op.todo = {}
  /\ settled' = [kind |-> op.kind, oks |-> op.oks, bad |-> op.bad]
  /\ mixed' = (mixed /\ ~(op.kind \in {"gateway", "install"} /\ op.oks = Clients
                          /\ \A c \in Cli, t \in Tools : ~Listed(c, t)))
  /\ op' = NoOp
  /\ UNCHANGED <<entry, shape, mine, bak, unmanaged, manifest, hook, faults, hit>>

\* The command is killed, between two steps or in the middle of a write.
Kill ==
  /\ op.kind # "none"
  /\ Fault
  /\ op' = NoOp /\ mixed' = TRUE
  /\ UNCHANGED <<entry, shape, mine, bak, hit>> \/ \E c \in Clients : Torn(c)
  /\ UNCHANGED <<unmanaged, manifest, hook, settled>>

\* The installer makes the environment anew elsewhere: what was written before
\* names an interpreter that is gone, and the hook's source has moved on.
Rebuild ==
  /\ op = NoOp
  /\ entry' = [c \in Clients |-> [s \in Slugs |-> IF Listed(c, s) THEN "stale" ELSE "none"]]
  /\ hook' = [file |-> IF hook.file = "none" THEN "none" ELSE "other",
              entry |-> IF hook.entry = "none" THEN "none" ELSE "stale"]
  /\ settled' = Nothing
  /\ UNCHANGED <<shape, mine, bak, unmanaged, manifest, op, faults, mixed, hit>>

\* A user with a file that is reported as unreadable takes the .bak.
Restore(c) ==
  /\ op = NoOp /\ shape[c] = "cut"
  /\ shape' = [shape EXCEPT ![c] = "whole"]
  /\ mine' = IF c \in bak THEN mine \cup {c} ELSE mine
  /\ settled' = Nothing
  /\ UNCHANGED <<entry, bak, unmanaged, manifest, hook, op, faults, mixed, hit>>

Next ==
  \/ \E only \in Picks : Register(only) \/ Gateway(only) \/ Install(only)
  \/ \E t \in Tools : Standalone(t)
  \/ \E ts \in (SUBSET Tools) \ {{}} : Link(ts)
  \/ Uninstall
  \/ \E registrations, config \in BOOLEAN : Repair(registrations, config)
  \/ \E c \in Clients :
       Put(c) \/ Drop(c) \/ Manual(c) \/ WriteFails(c) \/ CliFails(c) \/ Restore(c)
  \/ Settings \/ SettingsFail \/ DeployHook \/ DeployFails \/ WriteManifest \/ RemoveHook \/ RemoveCode
  \/ Finish \/ Kill \/ Rebuild

Spec == Init /\ [][Next]_vars


-----------------------------------------------------------------------------
(* Properties.                                                             *)

\* Once a command is over, a tool reaches a client one way: not by the gateway
\* and by an entry of its own at once, whatever was installed, linked, released
\* or registered before (register_flow, `two places left the registry in two
\* different states').  Codex is left out: its entries cannot be taken out.
OneWayIn ==
  op = NoOp /\ ~mixed =>
    \A c \in Json \cup Cli, t \in Tools \ unmanaged : ~(Listed(c, GM) /\ Listed(c, t))

Reached(c, t) == entry[c][t] = "live" \/ (entry[c][GM] = "live" /\ t \notin unmanaged)

\* Moving a tool between the gateway and an entry of its own, in whichever
\* direction, never takes it away from a client none of whose steps has failed:
\* at every step in between one of the two ways is open.  install is left out: it takes
\* the direct entries out before it clears the list of unmanaged tools.
ToolsStayReachable ==
  [][\A c \in Clients, t \in Tools :
       /\ op.kind \in {"register", "gateway", "standalone", "link"} /\ faults' = faults
       /\ c \notin op'.bad /\ Reached(c, t)
       => Reached(c, t)']_vars

\* The user's own servers are in the file, or in the .bak of a file the next
\* command reports instead of rewriting; only a write killed at the wrong
\* moment loses them, and no sequence of commands after it does.
UserServerKept ==
  \A c \in Clients : c \in mine \/ (shape[c] = "cut" /\ c \in bak) \/ c \in hit

\* check_wiring, of the hook's entry, its file and the clients' entries.
HookEntryOk == hook.entry = "live"
HookFileOk == hook.file = "same"
McpEntriesOk == \A c \in Clients \ Toml, s \in Slugs : entry[c][s] # "stale"

\* After any history an install that did every client leaves the suite wired: the
\* gateway alone in every client and in the manifest, no tool unmanaged unless the
\* list could not be cleared, the hook recorded and fresh unless it could not be
\* deployed, its entry runnable unless the settings could not be read.  An uninstall
\* leaves nothing of ours in the clients it did.
Converges ==
  /\ settled.kind = "install" /\ settled.oks = Clients =>
       /\ manifest.clients = Clients
       /\ "manage" \in settled.bad \/ unmanaged = {}
       /\ \A c \in Clients : entry[c][GM] = "live"
       /\ mixed \/ (McpEntriesOk /\ \A c \in Clients, t \in Tools : ~Listed(c, t))
       /\ Neuron \in Tools /\ "hook" \notin settled.bad =>
            manifest.hooks /\ HookFileOk /\ ("entry" \in settled.bad \/ HookEntryOk)
  /\ settled.kind = "uninstall" =>
       \A c \in settled.oks, s \in Slugs : mixed \/ ~Listed(c, s)

\* Whatever commands came before, and wherever one of them was cut off.
WiringIsSound == OneWayIn /\ UserServerKept /\ Converges
=============================================================================
