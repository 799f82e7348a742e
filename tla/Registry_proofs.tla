---------------------------- MODULE Registry_proofs ----------------------------
(***************************************************************************)
(* What the registry promises, for every set of servers, tools, processes  *)
(* and requests, whatever the servers offer, and in every order in which   *)
(* they register, answer, die, are isolated and released.                  *)
(***************************************************************************)
EXTENDS Registry, WellFoundedInduction, TLAPS

-----------------------------------------------------------------------------
(* The inductive invariant.                                                *)
-----------------------------------------------------------------------------

\* The index leads to whoever lists a tool, unless two have listed it at once.
IndexLeads ==
  \A p \in Procs : \A n \in Registered(p) : \A t \in servers[p][n].tools \ contended[p] :
    t \in DOMAIN index[p] /\ index[p][t] = n

\* An entry's tools are the worker's, or those the server registered itself with.
ToolsAreOffered ==
  \A p \in Procs : \A n \in Registered(p) :
    servers[p][n].tools \in {workerTools[n]} \cup offers[n]

\* Who is isolated is registered, and its entry says so.
IsolatedAreMarked ==
  /\ isolated \subseteq Registered(Listener)
  /\ \A n \in isolated \ overwritten : ~servers[Listener][n].collaborative

\* The setting comes before the request; what is released is neither managed nor
\* on a bootstrap's list, unless it was on one then.
ReleasedAreOut ==
  \A n \in Names :
    /\ release[n] # "no" => n \in unmanaged
    /\ release[n] = "done" =>
         /\ n \in boot[Listener].todo => n \in raced
         /\ n \in Registered(Listener) => n \in raced \/ ~servers[Listener][n].managed

\* A bootstrap that has begun accounts for every installed server.
BootAccounts ==
  \A p \in ready : \A n \in installed :
    n \in Registered(p) \cup boot[p].todo \cup failed[p] \cup unmanaged

\* Requests follow the bootstrap they await.
RequestsFollow ==
  \A r \in Requests :
    /\ request[r] \in {"booting", "ensured", "skipped"} => at[r] \in ready
    /\ request[r] = "ensured" => BootOver(at[r])

RegistryInv ==
  /\ TypeOK /\ IndexLeads /\ ToolsAreOffered /\ IsolatedAreMarked /\ ReleasedAreOut
  /\ BootAccounts /\ RequestsFollow

-----------------------------------------------------------------------------
(* Parts of it.                                                            *)
-----------------------------------------------------------------------------

\* The types of what Put changes, and of the rest.
ListsTyped ==
  /\ servers = [p \in Procs |-> servers[p]] /\ index = [p \in Procs |-> index[p]]
  /\ \A p \in Procs : Partial(servers[p], Names, Entries) /\ Partial(index[p], Tools, Names)
  /\ contended \in [Procs -> SUBSET Tools]
RestTyped ==
  /\ boot \in [Procs -> [todo : SUBSET installed, fetching : BOOLEAN]]
  /\ ready \subseteq Procs /\ sleeping \subseteq Procs
  /\ {workers, beating, unmanaged, isolated, overwritten, raced} \subseteq SUBSET Names
  /\ release \in [Names -> {"no", "persisted", "done"}]
  /\ request \in [Requests -> {"none", "booting", "ensured", "skipped", "done"}]
  /\ failed \in [Procs -> SUBSET Names]
  /\ inputs \in 0..MaxInputs /\ faults \in 0..MaxFaults

ListsInv == ListsTyped /\ IndexLeads /\ ToolsAreOffered

\* The invariant, by these parts.
LEMMA InvIs ==
  RegistryInv <=> /\ ListsInv /\ RestTyped /\ IsolatedAreMarked /\ ReleasedAreOut
                  /\ BootAccounts /\ RequestsFollow
BY DEF RegistryInv, TypeOK, ListsInv, ListsTyped, RestTyped

\* The same after a step.
LEMMA InvWillBe ==
  RegistryInv' <=> /\ ListsInv' /\ RestTyped' /\ IsolatedAreMarked' /\ ReleasedAreOut'
                   /\ BootAccounts' /\ RequestsFollow'
BY InvIs, PTL

\* A bootstrap with servers left has one to take next.
LEMMA FollowingIsThere ==
  ASSUME NEW names \in SUBSET installed, names # {}
  PROVE  Following(names) \in names /\ Following(names) \in Names
<1> DEFINE ranks == {rank[n] : n \in names}
<1>1. ranks \in SUBSET Nat /\ ranks # {} /\ \A n \in names : rank[n] \in Nat
  BY RegistryAssumption
<1>2. PICK least \in ranks : \A k \in ranks : ~ (<<k, least>> \in OpToRel(<, Nat))
  BY <1>1, WFMin, NatLessThanWellFounded
<1>3. PICK n \in names : least = rank[n]
  OBVIOUS
<1>4. ASSUME NEW m \in names PROVE rank[n] <= rank[m]
  <2>1. rank[m] \in Nat /\ rank[n] \in Nat
    BY <1>1
  <2>2. <<rank[m], rank[n]>> \notin OpToRel(<, Nat)
    BY <1>2, <1>3
  <2>3. ~(rank[m] < rank[n])
    BY <2>1, <2>2 DEF OpToRel
  <2>4. QED
    BY <2>1, <2>3
<1>5. Following(names) \in names
  BY <1>4 DEF Following
<1>6. QED
  BY <1>5, RegistryAssumption

\* What the bounds allow.
LEMMA Bounds ==
  /\ \A m \in 0..MaxInputs : m < MaxInputs => m + 1 \in 0..MaxInputs
  /\ \A m \in 0..MaxFaults : m < MaxFaults => m + 1 \in 0..MaxFaults
  /\ 0 \in 0..MaxInputs /\ 0 \in 0..MaxFaults
BY RegistryAssumption

-----------------------------------------------------------------------------
(* The lists.                                                              *)
-----------------------------------------------------------------------------

\* A registration keeps the index leading to whoever lists a tool.
LEMMA PutTells ==
  ASSUME ListsInv, NEW p \in Procs, NEW n \in Names, NEW e \in Entries, Put(p, n, e),
         e.tools \in {workerTools[n]} \cup offers[n]
  PROVE  /\ ListsInv'
         /\ \A q \in Procs \ {p} : servers'[q] = servers[q]
         /\ DOMAIN servers'[p] = Registered(p) \cup {n} /\ servers'[p][n] = e
         /\ \A m \in Registered(p) \ {n} : servers'[p][m] = servers[p][m]
<1> DEFINE list == [m \in DOMAIN servers[p] \cup {n} |-> IF m = n THEN e ELSE servers[p][m]]
           map == [t \in DOMAIN index[p] \cup e.tools |-> IF t \in e.tools THEN n ELSE index[p][t]]
           shared == e.tools \cap UNION {servers[p][m].tools : m \in Registered(p) \ {n}}
<1>1. /\ servers = [q \in Procs |-> servers[q]] /\ index = [q \in Procs |-> index[q]]
      /\ \A q \in Procs : Partial(servers[q], Names, Entries) /\ Partial(index[q], Tools, Names)
      /\ contended \in [Procs -> SUBSET Tools]
      /\ IndexLeads /\ ToolsAreOffered
  BY DEF ListsInv, ListsTyped
<1>2. /\ servers' = [servers EXCEPT ![p] = list] /\ index' = [index EXCEPT ![p] = map]
      /\ contended' = [contended EXCEPT ![p] = @ \cup shared]
  BY DEF Put
<1>3. e.tools \subseteq Tools
  BY DEF Entries
<1>4. /\ DOMAIN list = Registered(p) \cup {n} /\ list[n] = e
      /\ \A m \in Registered(p) \ {n} : list[m] = servers[p][m]
      /\ \A t \in e.tools : t \in DOMAIN map /\ map[t] = n
      /\ \A t \in DOMAIN index[p] \ e.tools : t \in DOMAIN map /\ map[t] = index[p][t]
  BY DEF Registered
<1>5. Partial(list, Names, Entries) /\ Partial(map, Tools, Names)
  <2>1. /\ DOMAIN servers[p] \subseteq Names /\ \A m \in DOMAIN servers[p] : servers[p][m] \in Entries
        /\ DOMAIN index[p] \subseteq Tools /\ \A t \in DOMAIN index[p] : index[p][t] \in Names
    BY <1>1 DEF Partial
  <2>2. list \in [DOMAIN list -> Entries] /\ map \in [DOMAIN map -> Names]
    BY <2>1
  <2>3. QED
    BY <1>3, <2>1, <2>2 DEF Partial
<1>6. shared \subseteq Tools
  BY <1>3
<1>7. \A m \in Registered(p) \ {n} : \A t \in servers[p][m].tools : t \in e.tools => t \in shared
  OBVIOUS
<1> HIDE DEF list, map, shared
<1>8. /\ servers'[p] = list /\ \A q \in Procs \ {p} : servers'[q] = servers[q]
      /\ index'[p] = map /\ \A q \in Procs \ {p} : index'[q] = index[q]
      /\ contended'[p] = contended[p] \cup shared
      /\ \A q \in Procs \ {p} : contended'[q] = contended[q]
      /\ servers' = [q \in Procs |-> servers'[q]] /\ index' = [q \in Procs |-> index'[q]]
      /\ contended' \in [Procs -> SUBSET Tools]
  BY <1>1, <1>2, <1>6
<1>9. ListsTyped'
  BY <1>1, <1>5, <1>8 DEF ListsTyped
<1>10. IndexLeads'
  <2>1. ASSUME NEW q \in Procs, NEW m \in DOMAIN servers'[q],
               NEW t \in servers'[q][m].tools \ contended'[q]
        PROVE  t \in DOMAIN index'[q] /\ index'[q][t] = m
    <3>1. CASE q # p
      BY <1>1, <1>8, <2>1, <3>1 DEF IndexLeads, Registered
    <3>2. CASE q = p /\ m = n
      BY <1>4, <1>8, <2>1, <3>2
    <3>3. CASE q = p /\ m # n
      <4>1. m \in Registered(p) \ {n} /\ t \in servers[p][m].tools \ contended[p] /\ t \notin e.tools
        BY <1>4, <1>7, <1>8, <2>1, <3>3
      <4>2. t \in DOMAIN index[p] /\ index[p][t] = m
        BY <1>1, <4>1 DEF IndexLeads
      <4>3. QED
        BY <1>4, <1>8, <3>3, <4>1, <4>2
    <3>4. QED
      BY <3>1, <3>2, <3>3
  <2>2. QED
    BY <2>1 DEF IndexLeads, Registered
<1>11. ToolsAreOffered'
  <2>1. ASSUME NEW q \in Procs, NEW m \in DOMAIN servers'[q]
        PROVE  servers'[q][m].tools \in {workerTools[m]} \cup offers[m]
    <3>1. CASE q # p
      BY <1>1, <1>8, <2>1, <3>1 DEF ToolsAreOffered, Registered
    <3>2. CASE q = p /\ m = n
      BY <1>4, <1>8, <3>2
    <3>3. CASE q = p /\ m # n
      BY <1>1, <1>4, <1>8, <2>1, <3>3 DEF ToolsAreOffered
    <3>4. QED
      BY <3>1, <3>2, <3>3
  <2>2. QED
    BY <2>1 DEF ToolsAreOffered, Registered
<1>12. QED
  BY <1>4, <1>8, <1>9, <1>10, <1>11 DEF ListsInv

\* A step that registers nobody, and changes neither what the servers list nor
\* who manages them.
Kept ==
  /\ servers' = [p \in Procs |-> servers'[p]]
  /\ \A p \in Procs :
       /\ Partial(servers'[p], Names, Entries) /\ DOMAIN servers'[p] = DOMAIN servers[p]
       /\ \A n \in DOMAIN servers[p] : /\ servers'[p][n].tools = servers[p][n].tools
                                       /\ servers'[p][n].managed = servers[p][n].managed
SameOpinion ==
  \A p \in Procs : \A n \in DOMAIN servers[p] :
    servers'[p][n].collaborative = servers[p][n].collaborative

\* It keeps the lists in order.
LEMMA KeptTells ==
  ASSUME ListsInv, Kept, UNCHANGED <<index, contended>>
  PROVE  ListsInv'
<1>1. ListsTyped'
  BY DEF ListsInv, ListsTyped, Kept
<1>2. IndexLeads' /\ ToolsAreOffered'
  BY DEF ListsInv, IndexLeads, ToolsAreOffered, Kept, Registered
<1>3. QED
  BY <1>1, <1>2 DEF ListsInv

\* Nothing changed is kept.
LEMMA NothingIsKept ==
  ASSUME ListsInv, UNCHANGED servers
  PROVE  Kept /\ SameOpinion
BY DEF ListsInv, ListsTyped, Kept, SameOpinion

\* So is one entry, changed in its status, its age or its being collaborative.
LEMMA ModifyTells ==
  ASSUME ListsInv, NEW p \in Procs, NEW n \in Registered(p), NEW e \in Entries, Modify(p, n, e),
         e.tools = servers[p][n].tools, e.managed = servers[p][n].managed
  PROVE  /\ Kept /\ servers'[p][n] = e
         /\ \A q \in Procs : \A m \in Registered(q) :
              ~(q = p /\ m = n) => servers'[q][m] = servers[q][m]
<1>1. /\ servers = [q \in Procs |-> servers[q]]
      /\ \A q \in Procs : Partial(servers[q], Names, Entries)
  BY DEF ListsInv, ListsTyped
<1>2. /\ DOMAIN servers[p] \subseteq Names /\ servers[p] \in [DOMAIN servers[p] -> Entries]
      /\ n \in DOMAIN servers[p]
  BY <1>1 DEF Partial, Registered
<1> DEFINE list == [servers[p] EXCEPT ![n] = e]
<1>3. /\ list \in [DOMAIN servers[p] -> Entries] /\ list[n] = e
      /\ \A m \in DOMAIN servers[p] \ {n} : list[m] = servers[p][m]
  BY <1>2
<1>4. servers' = [servers EXCEPT ![p] = list]
  BY DEF Modify
<1> HIDE DEF list
<1>5. /\ servers'[p] = list /\ \A q \in Procs \ {p} : servers'[q] = servers[q]
      /\ servers' = [q \in Procs |-> servers'[q]]
  BY <1>1, <1>4
<1>6. Partial(list, Names, Entries) /\ DOMAIN list = DOMAIN servers[p]
  BY <1>2, <1>3 DEF Partial
<1>7. QED
  BY <1>1, <1>3, <1>5, <1>6 DEF Kept, Registered

\* Every entry of a process changed, but for its tools and who manages it.
Swept(p, list) ==
  /\ servers' = [servers EXCEPT ![p] = list]
  /\ DOMAIN list = Registered(p) /\ list \in [DOMAIN list -> Entries]
  /\ \A n \in Registered(p) : list[n].tools = servers[p][n].tools
                              /\ list[n].managed = servers[p][n].managed

\* The lists stay what they were.
LEMMA SweepTells ==
  ASSUME ListsInv, NEW p \in Procs, NEW list, Swept(p, list)
  PROVE  Kept /\ servers'[p] = list /\ \A q \in Procs \ {p} : servers'[q] = servers[q]
<1>1. /\ servers = [q \in Procs |-> servers[q]]
      /\ \A q \in Procs : Partial(servers[q], Names, Entries)
  BY DEF ListsInv, ListsTyped
<1>2. /\ servers'[p] = list /\ \A q \in Procs \ {p} : servers'[q] = servers[q]
      /\ servers' = [q \in Procs |-> servers'[q]]
  BY <1>1 DEF Swept
<1>3. Partial(list, Names, Entries) /\ DOMAIN list = DOMAIN servers[p]
  BY <1>1 DEF Partial, Registered, Swept
<1>4. QED
  BY <1>1, <1>2, <1>3 DEF Kept, Registered, Swept

-----------------------------------------------------------------------------
(* Each action keeps the invariant.                                        *)
-----------------------------------------------------------------------------

\* Before anybody has registered.
LEMMA RegistryStart == Init => RegistryInv
<1>1. SUFFICES ASSUME Init PROVE RegistryInv
  OBVIOUS
<1>2. /\ servers = [p \in Procs |-> <<>>] /\ index = [p \in Procs |-> <<>>]
      /\ contended = [p \in Procs |-> {}]
      /\ boot = [p \in Procs |-> Booting(IF p \in Http THEN {} ELSE installed)]
      /\ ready = {} /\ sleeping = {} /\ workers = {} /\ beating = {} /\ unmanaged = {}
      /\ release = [n \in Names |-> "no"] /\ request = [r \in Requests |-> "none"]
      /\ isolated = {} /\ overwritten = {} /\ raced = {} /\ failed = [p \in Procs |-> {}]
      /\ inputs = 0 /\ faults = 0
  BY <1>1 DEF Init
<1>3. DOMAIN <<>> = {} /\ \A R : <<>> \in [{} -> R]
  OBVIOUS
<1>4. \A p \in Procs : Registered(p) = {}
  BY <1>2, <1>3 DEF Registered
<1>5. ListsTyped
  BY <1>2, <1>3 DEF ListsTyped, Partial
<1>6. ListsInv
  BY <1>4, <1>5 DEF ListsInv, IndexLeads, ToolsAreOffered
<1>7. RestTyped
  BY <1>2, Bounds, RegistryAssumption DEF RestTyped, Booting
<1>8. IsolatedAreMarked /\ ReleasedAreOut /\ BootAccounts /\ RequestsFollow
  BY <1>2 DEF IsolatedAreMarked, ReleasedAreOut, BootAccounts, RequestsFollow
<1>9. QED
  BY <1>6, <1>7, <1>8, InvIs

\* A step that registers nobody, decides nothing, and leaves bootstraps and
\* requests where they are.
LEMMA QuietStep ==
  ASSUME RegistryInv, Kept, SameOpinion,
         UNCHANGED <<index, boot, ready, unmanaged, release, request, history>>,
         sleeping' \subseteq Procs, workers' \subseteq Names, beating' \subseteq Names,
         inputs' \in 0..MaxInputs, faults' \in 0..MaxFaults
  PROVE  RegistryInv'
<1>1. /\ ListsInv /\ RestTyped /\ IsolatedAreMarked /\ ReleasedAreOut
      /\ BootAccounts /\ RequestsFollow /\ Listener \in Procs
  BY InvIs, RegistryAssumption
<1>2. UNCHANGED <<isolated, contended, overwritten, raced, failed>>
  BY DEF history
<1>3. ListsInv'
  BY <1>1, <1>2, KeptTells
<1>4. RestTyped'
  BY <1>1, <1>2 DEF RestTyped
<1>5. \A p \in Procs : DOMAIN servers'[p] = DOMAIN servers[p]
  BY DEF Kept
<1>6. IsolatedAreMarked' /\ ReleasedAreOut'
  BY <1>1, <1>2, <1>5 DEF IsolatedAreMarked, ReleasedAreOut, Registered, Kept,
     SameOpinion
<1>7. BootAccounts'
  BY <1>1, <1>2, <1>5 DEF BootAccounts, Registered, RestTyped
<1>8. RequestsFollow'
  BY <1>1 DEF RequestsFollow, BootOver
<1>9. QED
  BY <1>3, <1>4, <1>6, <1>7, <1>8, InvWillBe

\* Calls, sleep, heartbeats and their absence, reaping: all of that is quiet.
LEMMA BackgroundStep ==
  ASSUME RegistryInv,
         \/ \E p \in Procs : \/ Monitor(p) \/ Sleep(p) \/ Wake(p)
                             \/ \E n \in Names : CallFails(p, n)
                             \/ \E t \in Tools : CallTool(p, t)
         \/ \E n \in Names : Heartbeat(n) \/ Age(n) \/ ServerStops(n)
         \/ ReapDead
  PROVE  RegistryInv'
<1>1. /\ ListsInv /\ RestTyped /\ Listener \in Procs
      /\ sleeping \subseteq Procs /\ workers \subseteq Names /\ beating \subseteq Names
      /\ inputs \in 0..MaxInputs /\ faults \in 0..MaxFaults
  BY InvIs, RegistryAssumption DEF RestTyped
<1>2. \A p \in Procs : \A n \in Registered(p) : servers[p][n] \in Entries
  BY <1>1 DEF ListsInv, ListsTyped, Partial, Registered
<1>3. ASSUME NEW p \in Procs, NEW n \in Registered(p), NEW e \in Entries, Modify(p, n, e),
             e.tools = servers[p][n].tools, e.managed = servers[p][n].managed,
             e.collaborative = servers[p][n].collaborative
      PROVE  Kept /\ SameOpinion
  <2>1. /\ Kept /\ servers'[p][n] = e
        /\ \A q \in Procs : \A m \in Registered(q) :
             ~(q = p /\ m = n) => servers'[q][m] = servers[q][m]
    BY <1>1, <1>3, ModifyTells
  <2>2. QED
    BY <1>3, <2>1 DEF SameOpinion, Registered
<1>4. ASSUME Fault PROVE faults' \in 0..MaxFaults
  BY <1>1, <1>4, Bounds DEF Fault
<1>5. ASSUME NEW p \in Procs, Monitor(p) PROVE RegistryInv'
  <2> DEFINE list == [n \in DOMAIN servers[p] |-> IF n \in Overdue(p)
                        THEN [servers[p][n] EXCEPT !.status = "dead"] ELSE servers[p][n]]
  <2>1. servers' = [servers EXCEPT ![p] = list]
    BY <1>5 DEF Monitor
  <2>2. /\ DOMAIN list = Registered(p) /\ list \in [DOMAIN list -> Entries]
        /\ \A n \in Registered(p) : list[n].tools = servers[p][n].tools
                                    /\ list[n].managed = servers[p][n].managed
        /\ \A n \in Registered(p) : list[n].collaborative = servers[p][n].collaborative
    BY <1>2 DEF Entries, Registered
  <2> HIDE DEF list
  <2>3. Kept /\ servers'[p] = list /\ \A q \in Procs \ {p} : servers'[q] = servers[q]
    <3>1. Swept(p, list)
      BY <2>1, <2>2 DEF Swept
    <3>2. QED
      BY <1>1, <3>1, SweepTells
  <2>4. SameOpinion
    BY <2>2, <2>3 DEF SameOpinion, Registered
  <2>5. QED
    BY <1>1, <1>5, <2>3, <2>4, QuietStep DEF Monitor, counters
<1>6. ASSUME NEW p \in Procs, Sleep(p) PROVE RegistryInv'
  <2> DEFINE list == [n \in DOMAIN servers[p] |-> [servers[p][n] EXCEPT !.status = "sleeping"]]
  <2>1. servers' = [servers EXCEPT ![p] = list]
    BY <1>6 DEF Sleep
  <2>2. /\ DOMAIN list = Registered(p) /\ list \in [DOMAIN list -> Entries]
        /\ \A n \in Registered(p) : list[n].tools = servers[p][n].tools
                                    /\ list[n].managed = servers[p][n].managed
        /\ \A n \in Registered(p) : list[n].collaborative = servers[p][n].collaborative
    BY <1>2 DEF Entries, Registered
  <2> HIDE DEF list
  <2>3. Kept /\ servers'[p] = list /\ \A q \in Procs \ {p} : servers'[q] = servers[q]
    <3>1. Swept(p, list)
      BY <2>1, <2>2 DEF Swept
    <3>2. QED
      BY <1>1, <3>1, SweepTells
  <2>4. SameOpinion
    BY <2>2, <2>3 DEF SameOpinion, Registered
  <2>5. QED
    BY <1>1, <1>4, <1>6, <2>3, <2>4, QuietStep DEF Sleep
<1>7. ASSUME NEW p \in Procs, NEW n \in Names, CallFails(p, n) PROVE RegistryInv'
  <2> DEFINE e == [servers[p][n] EXCEPT !.status = "dead"]
  <2>1. n \in Registered(p) /\ Modify(p, n, e)
    BY <1>7 DEF CallFails
  <2>2. /\ e \in Entries /\ e.tools = servers[p][n].tools /\ e.managed = servers[p][n].managed
        /\ e.collaborative = servers[p][n].collaborative
    BY <1>2, <2>1 DEF Entries
  <2> HIDE DEF e
  <2>3. Kept /\ SameOpinion
    BY <1>3, <2>1, <2>2
  <2>4. QED
    BY <1>1, <1>4, <1>7, <2>3, QuietStep DEF CallFails
<1>8. ASSUME NEW n \in Names, Heartbeat(n) \/ Age(n) PROVE RegistryInv'
  <2> DEFINE old == servers[Listener][n]
             beat == [old EXCEPT !.fresh = TRUE, !.status = "alive"]
             aged == [old EXCEPT !.fresh = FALSE]
  <2>1. n \in Registered(Listener) /\ old \in Entries
    BY <1>1, <1>2, <1>8 DEF Heartbeat, Age
  <2>2. /\ beat \in Entries /\ beat.tools = old.tools /\ beat.managed = old.managed
        /\ beat.collaborative = old.collaborative
        /\ aged \in Entries /\ aged.tools = old.tools /\ aged.managed = old.managed
        /\ aged.collaborative = old.collaborative
    BY <2>1 DEF Entries
  <2>3. Modify(Listener, n, beat) \/ Modify(Listener, n, aged)
    BY <1>8 DEF Heartbeat, Age
  <2> HIDE DEF beat, aged
  <2>4. Kept /\ SameOpinion
    BY <1>1, <1>3, <2>1, <2>2, <2>3
  <2>5. QED
    BY <1>1, <1>8, <2>4, QuietStep DEF Heartbeat, Age, counters
<1>9. ASSUME UNCHANGED servers PROVE Kept /\ SameOpinion
  BY <1>1, <1>9, NothingIsKept
<1>10. ASSUME NEW p \in Procs, NEW t \in Tools, CallTool(p, t) PROVE RegistryInv'
  <2>1. Route(p, t) \subseteq Names
    BY <1>1 DEF Route, Registered, ListsInv, ListsTyped, Partial
  <2>2. QED
    BY <1>1, <1>9, <1>10, <2>1, QuietStep DEF CallTool, counters
<1>11. ASSUME NEW p \in Procs, Wake(p) PROVE RegistryInv'
  <2>1. UNCHANGED <<index, boot, ready, unmanaged, release, request, history, servers,
                    workers, beating, inputs, faults>> /\ sleeping' \subseteq sleeping
    BY <1>11 DEF Wake, counters
  <2>2. QED
    BY <1>1, <1>9, <2>1, QuietStep
<1>12. ASSUME NEW n \in Names, ServerStops(n) PROVE RegistryInv'
  BY <1>1, <1>4, <1>9, <1>12, QuietStep DEF ServerStops
<1>13. ASSUME ReapDead PROVE RegistryInv'
  <2>1. UNCHANGED <<index, boot, ready, unmanaged, release, request, history, servers,
                    sleeping, beating, inputs, faults>> /\ workers' \subseteq workers
    BY <1>13 DEF ReapDead, counters
  <2>2. QED
    BY <1>1, <1>9, <2>1, QuietStep
<1>14. QED
  BY <1>5, <1>6, <1>7, <1>8, <1>10, <1>11, <1>12, <1>13

\* One server of a bootstrap's list is looked up.
LEMMA BootCheckStep ==
  ASSUME RegistryInv, NEW p \in Procs, BootCheck(p)
  PROVE  RegistryInv'
<1> DEFINE n == Following(boot[p].todo)
<1>1. /\ ListsInv /\ RestTyped /\ IsolatedAreMarked /\ ReleasedAreOut
      /\ BootAccounts /\ RequestsFollow /\ Listener \in Procs
  BY InvIs, RegistryAssumption
<1>2. /\ ~BootOver(p)
      /\ boot' = [boot EXCEPT ![p] = IF n \in Registered(p) THEN Booting(@.todo \ {n})
                                     ELSE [@ EXCEPT !.fetching = TRUE]]
  BY DEF BootCheck
<1>3. UNCHANGED <<servers, index, ready, sleeping, workers, beating, unmanaged, release,
                  request, isolated, contended, overwritten, raced, failed, inputs, faults>>
  BY DEF BootCheck, history, counters
<1>4. boot[p].todo \in SUBSET installed /\ n \in Names
  BY <1>1, <1>2, FollowingIsThere DEF RestTyped, BootOver
<1> HIDE DEF n
<1>5. /\ boot' \in [Procs -> [todo : SUBSET installed, fetching : BOOLEAN]]
      /\ boot'[p].todo \in {boot[p].todo} \cup {boot[p].todo \ {m} : m \in {n} \cap Registered(p)}
      /\ \A q \in Procs \ {p} : boot'[q] = boot[q]
  BY <1>1, <1>2 DEF RestTyped, Booting
<1>6. ListsInv'
  BY <1>1, <1>3, KeptTells, NothingIsKept
<1>7. RestTyped' /\ IsolatedAreMarked' /\ ReleasedAreOut'
  <2>1. RestTyped'
    BY <1>1, <1>3, <1>5 DEF RestTyped
  <2>2. boot'[Listener].todo \subseteq boot[Listener].todo
    BY <1>1, <1>5
  <2>3. QED
    BY <1>1, <1>3, <2>1, <2>2 DEF IsolatedAreMarked, ReleasedAreOut, Registered
<1>8. BootAccounts'
  <2>1. \A q \in Procs : boot[q].todo \subseteq boot'[q].todo \cup Registered(q)
    BY <1>5
  <2>2. ready \subseteq Procs
    BY <1>1 DEF RestTyped
  <2>3. QED
    BY <1>1, <1>3, <2>1, <2>2 DEF BootAccounts, Registered
<1>9. RequestsFollow'
  <2>1. \A q \in Procs : BootOver(q) => BootOver(q)'
    BY <1>2, <1>5 DEF BootOver
  <2>2. QED
    BY <1>1, <1>3, <2>1, RegistryAssumption DEF RequestsFollow
<1>10. QED
  BY <1>6, <1>7, <1>8, <1>9, InvWillBe

\* One server of the list has answered, whatever has happened meanwhile, or has
\* not.
LEMMA BootFetchedStep ==
  ASSUME RegistryInv, NEW p \in Procs, BootFetched(p)
  PROVE  RegistryInv'
<1> DEFINE n == Following(boot[p].todo)
           e == Entry(TRUE, workerTools[n], TRUE)
<1>1. /\ ListsInv /\ RestTyped /\ IsolatedAreMarked /\ ReleasedAreOut
      /\ BootAccounts /\ RequestsFollow /\ Listener \in Procs
  BY InvIs, RegistryAssumption
<1>2. ~BootOver(p) /\ boot' = [boot EXCEPT ![p] = Booting(@.todo \ {n})]
  BY DEF BootFetched
<1>3. /\ workers' = workers \cup {n}
      /\ UNCHANGED <<ready, sleeping, beating, unmanaged, release, request, isolated, raced, inputs>>
  BY DEF BootFetched
<1>4. boot[p].todo \in SUBSET installed /\ n \in boot[p].todo /\ n \in Names
  BY <1>1, <1>2, FollowingIsThere DEF RestTyped, BootOver
<1>5. \/ /\ Put(p, n, e)
         /\ overwritten' = IF p = Listener /\ n \in Registered(p) THEN overwritten \cup {n}
                           ELSE overwritten
         /\ UNCHANGED <<failed, faults>>
      \/ /\ Fault /\ failed' = [failed EXCEPT ![p] = @ \cup {n}]
         /\ UNCHANGED <<servers, index, contended, overwritten>>
  BY DEF BootFetched
<1>6. /\ e \in Entries /\ e.tools = workerTools[n] /\ e.managed /\ e.collaborative
  BY <1>4, RegistryAssumption DEF Entry, Entries
<1> HIDE DEF n, e
<1>7. /\ boot' \in [Procs -> [todo : SUBSET installed, fetching : BOOLEAN]]
      /\ boot'[p].todo = boot[p].todo \ {n} /\ \A q \in Procs \ {p} : boot'[q] = boot[q]
  BY <1>1, <1>2 DEF RestTyped, Booting
<1>8. RequestsFollow'
  <2>1. \A q \in Procs : BootOver(q) => BootOver(q)'
    BY <1>2, <1>7 DEF BootOver
  <2>2. QED
    BY <1>1, <1>3, <2>1, RegistryAssumption DEF RequestsFollow
<1>9. CASE /\ Put(p, n, e)
           /\ overwritten' = IF p = Listener /\ n \in Registered(p) THEN overwritten \cup {n}
                             ELSE overwritten
           /\ UNCHANGED <<failed, faults>>
  <2>1. /\ ListsInv'
        /\ \A q \in Procs \ {p} : servers'[q] = servers[q]
        /\ DOMAIN servers'[p] = Registered(p) \cup {n} /\ servers'[p][n] = e
        /\ \A m \in Registered(p) \ {n} : servers'[p][m] = servers[p][m]
    BY <1>1, <1>4, <1>6, <1>9, PutTells
  <2>2. RestTyped'
    BY <1>1, <1>3, <1>4, <1>7, <1>9 DEF RestTyped
  <2>3. IsolatedAreMarked'
    BY <1>1, <1>3, <1>9, <2>1 DEF IsolatedAreMarked, Registered
  <2>4. ReleasedAreOut'
    <3>1. boot'[Listener].todo \subseteq boot[Listener].todo
      BY <1>1, <1>7
    <3>2. ASSUME NEW m \in Names, release[m] = "done", m \in DOMAIN servers'[Listener]
          PROVE  m \in raced \/ ~servers'[Listener][m].managed
      <4>1. CASE p = Listener /\ m = n
        BY <1>1, <1>4, <3>2, <4>1 DEF ReleasedAreOut
      <4>2. CASE ~(p = Listener /\ m = n)
        <5>1. m \in Registered(Listener) /\ servers'[Listener][m] = servers[Listener][m]
          BY <1>1, <2>1, <3>2, <4>2 DEF Registered
        <5>2. QED
          BY <1>1, <3>2, <5>1 DEF ReleasedAreOut
      <4>3. QED
        BY <4>1, <4>2
    <3>3. QED
      BY <1>1, <1>3, <3>1, <3>2 DEF ReleasedAreOut, Registered
  <2>5. BootAccounts'
    BY <1>1, <1>3, <1>7, <1>9, <2>1 DEF BootAccounts, Registered, RestTyped
  <2>6. QED
    BY <1>8, <2>1, <2>2, <2>3, <2>4, <2>5, InvWillBe
<1>10. CASE /\ Fault /\ failed' = [failed EXCEPT ![p] = @ \cup {n}]
           /\ UNCHANGED <<servers, index, contended, overwritten>>
  <2>1. ListsInv'
    BY <1>1, <1>10, KeptTells, NothingIsKept
  <2>2. /\ failed' \in [Procs -> SUBSET Names] /\ failed'[p] = failed[p] \cup {n}
        /\ \A q \in Procs \ {p} : failed'[q] = failed[q]
    BY <1>1, <1>4, <1>10 DEF RestTyped
  <2>3. faults' \in 0..MaxFaults
    BY <1>1, <1>10, Bounds DEF RestTyped, Fault
  <2>4. RestTyped'
    BY <1>1, <1>3, <1>4, <1>7, <1>10, <2>2, <2>3 DEF RestTyped
  <2>5. IsolatedAreMarked' /\ ReleasedAreOut'
    BY <1>1, <1>3, <1>7, <1>10 DEF IsolatedAreMarked, ReleasedAreOut,
       Registered
  <2>6. BootAccounts'
    BY <1>1, <1>3, <1>7, <1>10, <2>2 DEF BootAccounts, Registered, RestTyped
  <2>7. QED
    BY <1>8, <2>1, <2>4, <2>5, <2>6, InvWillBe
<1>11. QED
  BY <1>5, <1>9, <1>10

\* A request that starts a bootstrap, one that does not, one whose bootstrap is
\* over, one that is answered.
LEMMA RequestStep ==
  ASSUME RegistryInv, NEW r \in Requests, Begin(r) \/ Ensured(r) \/ List(r)
  PROVE  RegistryInv'
<1>1. /\ ListsInv /\ RestTyped /\ IsolatedAreMarked /\ ReleasedAreOut
      /\ BootAccounts /\ RequestsFollow /\ Listener \in Procs /\ at[r] \in Procs
  BY InvIs, RegistryAssumption
<1>2. /\ UNCHANGED <<servers, index, sleeping, workers, beating, unmanaged, release, isolated,
                     contended, overwritten, raced, inputs, faults>>
      /\ \E s \in {"booting", "ensured", "skipped", "done"} : request' = [request EXCEPT ![r] = s]
  BY DEF Begin, Ensured, List, history, counters
<1>3. /\ request' \in [Requests -> {"none", "booting", "ensured", "skipped", "done"}]
      /\ \A q \in Requests \ {r} : request'[q] = request[q]
  BY <1>1, <1>2 DEF RestTyped
<1>4. ListsInv'
  BY <1>1, <1>2, KeptTells, NothingIsKept
<1>5. CASE UNCHANGED <<ready, boot, failed>>
  <2>1. RestTyped' /\ IsolatedAreMarked' /\ ReleasedAreOut' /\ BootAccounts'
    BY <1>1, <1>2, <1>3, <1>5
       DEF RestTyped, IsolatedAreMarked, ReleasedAreOut, BootAccounts, Registered
  <2>2. /\ request'[r] \in {"booting", "ensured", "skipped"} => at[r] \in ready
        /\ request'[r] = "ensured" => BootOver(at[r])
    <3>1. CASE Begin(r)
      BY <1>1, <1>5, <3>1, RegistryAssumption DEF Begin, RestTyped
    <3>2. CASE Ensured(r)
      BY <1>1, <3>2 DEF Ensured, RequestsFollow
    <3>3. CASE List(r)
      BY <1>1, <3>3 DEF List, RestTyped
    <3>4. QED
      BY <3>1, <3>2, <3>3
  <2>3. RequestsFollow'
    BY <1>1, <1>3, <1>5, <2>2 DEF RequestsFollow, BootOver
  <2>4. QED
    BY <1>4, <2>1, <2>3, InvWillBe
<1>6. CASE Begin(r) /\ at[r] \notin ready
  <2> DEFINE p == at[r]
  <2>1. /\ ready' = ready \cup {p} /\ boot' = [boot EXCEPT ![p] = Booting(Detected)]
        /\ failed' = [failed EXCEPT ![p] = {}] /\ request' = [request EXCEPT ![r] = "booting"]
    BY <1>6 DEF Begin
  <2>2. Detected \subseteq installed /\ \A n \in installed : n \in Detected \cup unmanaged
        /\ Detected \cap unmanaged = {}
    BY DEF Detected
  <2>3. /\ boot' \in [Procs -> [todo : SUBSET installed, fetching : BOOLEAN]]
        /\ boot'[p].todo = Detected /\ \A q \in Procs \ {p} : boot'[q] = boot[q]
        /\ failed' \in [Procs -> SUBSET Names] /\ \A q \in Procs \ {p} : failed'[q] = failed[q]
        /\ request'[r] = "booting"
    BY <1>1, <2>1, <2>2 DEF RestTyped, Booting
  <2> HIDE DEF p
  <2>4. RestTyped' /\ IsolatedAreMarked'
    BY <1>1, <1>2, <1>3, <2>1, <2>3 DEF RestTyped, IsolatedAreMarked,
       Registered, p
  <2>5. ReleasedAreOut'
    BY <1>1, <1>2, <2>2, <2>3 DEF ReleasedAreOut, Registered
  <2>6. BootAccounts'
    BY <1>1, <1>2, <2>1, <2>2, <2>3 DEF BootAccounts, Registered, RestTyped
  <2>7. RequestsFollow'
    <3>1. \A q \in Requests : request'[q] = "ensured" => q # r /\ at[q] # p
      BY <1>1, <1>3, <1>6, <2>3 DEF RequestsFollow, p
    <3>2. \A q \in Requests : at[q] \in Procs
      BY RegistryAssumption
    <3>3. QED
      BY <1>1, <1>3, <2>1, <2>3, <3>1, <3>2 DEF RequestsFollow, BootOver, p
  <2>8. QED
    BY <1>4, <2>4, <2>5, <2>6, <2>7, InvWillBe
<1>7. QED
  BY <1>5, <1>6 DEF Begin, Ensured, List, history

\* A standalone server registers, under the opinion the user has of it.
LEMMA RegisterStep ==
  ASSUME RegistryInv, NEW n \in Names, NEW tools \in offers[n], Register(n, tools)
  PROVE  RegistryInv'
<1> DEFINE e == Entry(FALSE, tools,
                  n \in Registered(Listener) => servers[Listener][n].collaborative)
<1>1. /\ ListsInv /\ RestTyped /\ IsolatedAreMarked /\ ReleasedAreOut
      /\ BootAccounts /\ RequestsFollow /\ Listener \in Procs
  BY InvIs, RegistryAssumption
<1>2. /\ Put(Listener, n, e) /\ beating' = beating \cup {n} /\ Input
      /\ UNCHANGED <<boot, ready, sleeping, workers, unmanaged, release, request, isolated,
                     overwritten, raced, failed, faults>>
  BY DEF Register
<1>3. /\ e \in Entries /\ e.tools = tools /\ ~e.managed
      /\ n \in Registered(Listener) => (e.collaborative <=> servers[Listener][n].collaborative)
  <2>1. tools \in SUBSET Tools
    BY RegistryAssumption
  <2>2. (n \in Registered(Listener) => servers[Listener][n].collaborative) \in BOOLEAN
    OBVIOUS
  <2>3. \A m \in Registered(Listener) : servers[Listener][m].collaborative \in BOOLEAN
    BY <1>1 DEF ListsInv, ListsTyped, Partial, Registered, Entries
  <2>4. QED
    BY <2>1, <2>2, <2>3 DEF Entry, Entries
<1> HIDE DEF e
<1>4. /\ ListsInv'
      /\ \A q \in Procs \ {Listener} : servers'[q] = servers[q]
      /\ DOMAIN servers'[Listener] = Registered(Listener) \cup {n} /\ servers'[Listener][n] = e
      /\ \A m \in Registered(Listener) \ {n} : servers'[Listener][m] = servers[Listener][m]
  BY <1>1, <1>2, <1>3, PutTells
<1>5. RestTyped'
  <2>1. inputs' \in 0..MaxInputs
    BY <1>1, <1>2, Bounds DEF RestTyped, Input
  <2>2. QED
    BY <1>1, <1>2, <2>1 DEF RestTyped
<1>6. IsolatedAreMarked'
  BY <1>1, <1>2, <1>3, <1>4 DEF IsolatedAreMarked, Registered
<1>7. ReleasedAreOut'
  BY <1>1, <1>2, <1>3, <1>4 DEF ReleasedAreOut, Registered
<1>8. BootAccounts' /\ RequestsFollow'
  BY <1>1, <1>2, <1>4 DEF BootAccounts, RequestsFollow, BootOver, Registered,
     RestTyped
<1>9. QED
  BY <1>4, <1>5, <1>6, <1>7, <1>8, InvWillBe

\* The user isolates a server, or takes it back.
LEMMA OpinionStep ==
  ASSUME RegistryInv, NEW n \in Names, NEW value \in BOOLEAN, SetCollaborative(n, value)
  PROVE  RegistryInv'
<1> DEFINE e == [servers[Listener][n] EXCEPT !.collaborative = value]
<1>1. /\ ListsInv /\ RestTyped /\ IsolatedAreMarked /\ ReleasedAreOut
      /\ BootAccounts /\ RequestsFollow /\ Listener \in Procs
  BY InvIs, RegistryAssumption
<1>2. /\ n \in Registered(Listener) /\ Modify(Listener, n, e) /\ Input
      /\ isolated' = IF value THEN isolated \ {n} ELSE isolated \cup {n}
      /\ overwritten' = overwritten \ {n}
      /\ UNCHANGED <<index, boot, ready, sleeping, workers, beating, unmanaged, release,
                     request, contended, raced, failed, faults>>
  BY DEF SetCollaborative
<1>3. /\ e \in Entries /\ e.tools = servers[Listener][n].tools
      /\ e.managed = servers[Listener][n].managed /\ e.collaborative = value
  <2>1. servers[Listener][n] \in Entries
    BY <1>1, <1>2 DEF ListsInv, ListsTyped, Partial, Registered
  <2>2. QED
    BY <2>1 DEF Entries
<1> HIDE DEF e
<1>4. /\ Kept /\ servers'[Listener][n] = e
      /\ \A q \in Procs : \A m \in Registered(q) :
           ~(q = Listener /\ m = n) => servers'[q][m] = servers[q][m]
  BY <1>1, <1>2, <1>3, ModifyTells
<1>5. ListsInv' /\ \A p \in Procs : DOMAIN servers'[p] = DOMAIN servers[p]
  BY <1>1, <1>2, <1>4, KeptTells DEF Kept
<1>6. RestTyped'
  <2>1. inputs' \in 0..MaxInputs
    BY <1>1, <1>2, Bounds DEF RestTyped, Input
  <2>2. isolated' \subseteq isolated \cup {n} /\ overwritten' \subseteq overwritten
    BY <1>2
  <2>3. QED
    BY <1>1, <1>2, <2>1, <2>2 DEF RestTyped
<1>7. IsolatedAreMarked'
  BY <1>1, <1>2, <1>3, <1>4, <1>5 DEF IsolatedAreMarked, Registered
<1>8. ReleasedAreOut'
  BY <1>1, <1>2, <1>4, <1>5 DEF ReleasedAreOut, Registered, Kept
<1>9. BootAccounts' /\ RequestsFollow'
  BY <1>1, <1>2, <1>5 DEF BootAccounts, RequestsFollow, BootOver, Registered,
     RestTyped
<1>10. QED
  BY <1>5, <1>6, <1>7, <1>8, <1>9, InvWillBe

\* The user isolates all of them, or takes all back.
LEMMA ModeStep ==
  ASSUME RegistryInv, NEW want \in BOOLEAN, SetMode(want)
  PROVE  RegistryInv'
<1> DEFINE list == [n \in DOMAIN servers[Listener] |->
                      [servers[Listener][n] EXCEPT !.collaborative = want]]
<1>1. /\ ListsInv /\ RestTyped /\ IsolatedAreMarked /\ ReleasedAreOut
      /\ BootAccounts /\ RequestsFollow /\ Listener \in Procs
  BY InvIs, RegistryAssumption
<1>2. /\ servers' = [servers EXCEPT ![Listener] = list] /\ Input
      /\ isolated' = IF want THEN {} ELSE isolated \cup Registered(Listener)
      /\ overwritten' = overwritten \ Registered(Listener)
      /\ UNCHANGED <<index, boot, ready, sleeping, workers, beating, unmanaged, release,
                     request, contended, raced, failed, faults>>
  BY DEF SetMode
<1>3. /\ DOMAIN list = Registered(Listener) /\ list \in [DOMAIN list -> Entries]
      /\ \A n \in Registered(Listener) : list[n].tools = servers[Listener][n].tools
                                         /\ list[n].managed = servers[Listener][n].managed
      /\ \A n \in Registered(Listener) : list[n].collaborative = want
      /\ Registered(Listener) \subseteq Names
  <2>1. /\ \A n \in Registered(Listener) : servers[Listener][n] \in Entries
        /\ Registered(Listener) \subseteq Names
    BY <1>1 DEF ListsInv, ListsTyped, Partial, Registered
  <2>2. QED
    BY <2>1 DEF Entries, Registered
<1> HIDE DEF list
<1>4. Kept /\ servers'[Listener] = list
  <2>1. Swept(Listener, list)
    BY <1>2, <1>3 DEF Swept
  <2>2. QED
    BY <1>1, <2>1, SweepTells
<1>5. ListsInv' /\ \A p \in Procs : DOMAIN servers'[p] = DOMAIN servers[p]
  BY <1>1, <1>2, <1>4, KeptTells DEF Kept
<1>6. RestTyped'
  <2>1. inputs' \in 0..MaxInputs
    BY <1>1, <1>2, Bounds DEF RestTyped, Input
  <2>2. isolated' \subseteq isolated \cup Registered(Listener) /\ overwritten' \subseteq overwritten
    BY <1>2
  <2>3. QED
    BY <1>1, <1>2, <1>3, <2>1, <2>2 DEF RestTyped
<1>7. IsolatedAreMarked'
  BY <1>1, <1>2, <1>3, <1>4, <1>5 DEF IsolatedAreMarked, Registered
<1>8. ReleasedAreOut'
  BY <1>1, <1>2, <1>4, <1>5 DEF ReleasedAreOut, Registered, Kept
<1>9. BootAccounts' /\ RequestsFollow'
  BY <1>1, <1>2, <1>5 DEF BootAccounts, RequestsFollow, BootOver, Registered,
     RestTyped
<1>10. QED
  BY <1>5, <1>6, <1>7, <1>8, <1>9, InvWillBe

\* A release is written down ...
LEMMA PersistStep ==
  ASSUME RegistryInv, NEW n \in Names, Persist(n)
  PROVE  RegistryInv'
<1>1. /\ ListsInv /\ RestTyped /\ IsolatedAreMarked /\ ReleasedAreOut
      /\ BootAccounts /\ RequestsFollow /\ Listener \in Procs
  BY InvIs, RegistryAssumption
<1>2. /\ release' = [release EXCEPT ![n] = "persisted"] /\ unmanaged' = unmanaged \cup {n}
      /\ Input
      /\ UNCHANGED <<servers, index, boot, ready, sleeping, workers, beating, request, isolated,
                     contended, overwritten, raced, failed, faults>>
  BY DEF Persist, history
<1>3. ListsInv'
  BY <1>1, <1>2, KeptTells, NothingIsKept
<1>4. RestTyped'
  <2>1. inputs' \in 0..MaxInputs
    BY <1>1, <1>2, Bounds DEF RestTyped, Input
  <2>2. QED
    BY <1>1, <1>2, <2>1 DEF RestTyped
<1>5. IsolatedAreMarked' /\ ReleasedAreOut'
  BY <1>1, <1>2 DEF IsolatedAreMarked, ReleasedAreOut, Registered, RestTyped
<1>6. BootAccounts' /\ RequestsFollow'
  BY <1>1, <1>2 DEF BootAccounts, RequestsFollow, BootOver, Registered
<1>7. QED
  BY <1>3, <1>4, <1>5, <1>6, InvWillBe

\* ... and its entry goes, with the tools it has in the index.
LEMMA UnregisterStep ==
  ASSUME RegistryInv, NEW n \in Names, Unregister(n)
  PROVE  RegistryInv'
<1>1. /\ ListsInv /\ RestTyped /\ IsolatedAreMarked /\ ReleasedAreOut
      /\ BootAccounts /\ RequestsFollow /\ Listener \in Procs
  BY InvIs, RegistryAssumption
<1>2. /\ release[n] = "persisted" /\ release' = [release EXCEPT ![n] = "done"]
      /\ isolated' = isolated \ {n} /\ raced' = raced \cup ({n} \cap boot[Listener].todo)
      /\ UNCHANGED <<boot, ready, sleeping, workers, beating, unmanaged, request, contended,
                     overwritten, failed, inputs, faults>>
  BY DEF Unregister, counters
<1>3. n \in unmanaged
  BY <1>1, <1>2 DEF ReleasedAreOut
<1>4. RestTyped'
  BY <1>1, <1>2 DEF RestTyped
<1>5. /\ servers = [q \in Procs |-> servers[q]] /\ index = [q \in Procs |-> index[q]]
      /\ \A q \in Procs : Partial(servers[q], Names, Entries) /\ Partial(index[q], Tools, Names)
      /\ contended \in [Procs -> SUBSET Tools]
      /\ IndexLeads /\ ToolsAreOffered
  BY <1>1 DEF ListsInv, ListsTyped
<1>6. /\ ListsInv' /\ \A q \in Procs \ {Listener} : servers'[q] = servers[q]
      /\ DOMAIN servers'[Listener] = Registered(Listener) \ {n}
      /\ \A m \in Registered(Listener) \ {n} : servers'[Listener][m] = servers[Listener][m]
  <2>1. CASE n \notin Registered(Listener)
    <3>1. UNCHANGED <<servers, index>>
      BY <2>1 DEF Unregister
    <3>2. ListsInv'
      BY <1>1, <1>2, <3>1, KeptTells, NothingIsKept
    <3>3. QED
      BY <2>1, <3>1, <3>2 DEF Registered
  <2>2. CASE n \in Registered(Listener)
    <3> DEFINE list == Restrict(servers[Listener], DOMAIN servers[Listener] \ {n})
               gone == servers[Listener][n].tools
               map == Restrict(index[Listener], DOMAIN index[Listener] \ gone)
    <3>1. /\ servers' = [servers EXCEPT ![Listener] = list]
          /\ index' = [index EXCEPT ![Listener] = map]
      BY <2>2 DEF Unregister
    <3>2. /\ DOMAIN list = Registered(Listener) \ {n}
          /\ \A m \in Registered(Listener) \ {n} : list[m] = servers[Listener][m]
          /\ DOMAIN map = DOMAIN index[Listener] \ gone
          /\ \A t \in DOMAIN index[Listener] \ gone : map[t] = index[Listener][t]
      BY DEF Restrict, Registered
    <3>3. Partial(list, Names, Entries) /\ Partial(map, Tools, Names)
      <4>1. Partial(servers[Listener], Names, Entries) /\ Partial(index[Listener], Tools, Names)
        BY <1>1, <1>5
      <4>2. QED
        BY <4>1 DEF Partial, Restrict
    <3> HIDE DEF list, map
    <3>4. /\ servers'[Listener] = list /\ \A q \in Procs \ {Listener} : servers'[q] = servers[q]
          /\ index'[Listener] = map /\ \A q \in Procs \ {Listener} : index'[q] = index[q]
          /\ servers' = [q \in Procs |-> servers'[q]] /\ index' = [q \in Procs |-> index'[q]]
      BY <1>1, <1>5, <3>1
    <3>5. ListsTyped'
      BY <1>2, <1>5, <3>3, <3>4 DEF ListsTyped
    <3>6. IndexLeads'
      <4>1. ASSUME NEW q \in Procs, NEW m \in DOMAIN servers'[q],
                   NEW t \in servers'[q][m].tools \ contended[q]
            PROVE  t \in DOMAIN index'[q] /\ index'[q][t] = m
        <5>1. CASE q # Listener
          BY <1>5, <3>4, <4>1, <5>1 DEF IndexLeads, Registered
        <5>2. CASE q = Listener
          <6>1. m \in Registered(Listener) \ {n} /\ t \in servers[Listener][m].tools \ contended[Listener]
            BY <3>2, <3>4, <4>1, <5>2
          <6>2. t \in DOMAIN index[Listener] /\ index[Listener][t] = m
            BY <1>1, <1>5, <6>1 DEF IndexLeads
          <6>3. t \notin gone
            BY <1>1, <1>5, <2>2, <6>1, <6>2 DEF IndexLeads
          <6>4. QED
            BY <3>2, <3>4, <5>2, <6>2, <6>3
        <5>3. QED
          BY <5>1, <5>2
      <4>2. QED
        BY <1>2, <4>1 DEF IndexLeads, Registered
    <3>7. ToolsAreOffered'
      BY <1>5, <3>2, <3>4 DEF ToolsAreOffered, Registered
    <3>8. QED
      BY <3>2, <3>4, <3>5, <3>6, <3>7 DEF ListsInv
  <2>3. QED
    BY <2>1, <2>2
<1>7. IsolatedAreMarked'
  BY <1>1, <1>2, <1>6 DEF IsolatedAreMarked, Registered
<1>8. ReleasedAreOut'
  BY <1>1, <1>2, <1>3, <1>6 DEF ReleasedAreOut, Registered, RestTyped
<1>9. BootAccounts' /\ RequestsFollow'
  BY <1>1, <1>2, <1>3, <1>6 DEF BootAccounts, RequestsFollow, BootOver,
     Registered, RestTyped
<1>10. QED
  BY <1>4, <1>6, <1>7, <1>8, <1>9, InvWillBe

\* A new daemon knows nobody, and starts its bootstrap from the setting.
LEMMA RestartStep ==
  ASSUME RegistryInv, Restart
  PROVE  RegistryInv'
<1>1. /\ ListsInv /\ RestTyped /\ IsolatedAreMarked /\ ReleasedAreOut
      /\ BootAccounts /\ RequestsFollow /\ Listener \in Procs
  BY InvIs, RegistryAssumption
<1>2. /\ servers' = [servers EXCEPT ![Listener] = <<>>] /\ index' = [index EXCEPT ![Listener] = <<>>]
      /\ contended' = [contended EXCEPT ![Listener] = {}]
      /\ boot' = [boot EXCEPT ![Listener] = Booting(Detected)]
      /\ failed' = [failed EXCEPT ![Listener] = {}]
  BY DEF Restart
<1>3. /\ Fault /\ sleeping' \subseteq sleeping /\ ready' = ready \ {Listener}
      /\ request' = [r \in Requests |-> IF at[r] = Listener THEN "none" ELSE request[r]]
      /\ workers' = {} /\ isolated' = {} /\ overwritten' = {} /\ raced' = {}
      /\ UNCHANGED <<beating, unmanaged, release, inputs>>
  BY DEF Restart
<1>4. /\ servers = [q \in Procs |-> servers[q]] /\ index = [q \in Procs |-> index[q]]
      /\ \A q \in Procs : Partial(servers[q], Names, Entries) /\ Partial(index[q], Tools, Names)
      /\ contended \in [Procs -> SUBSET Tools]
      /\ IndexLeads /\ ToolsAreOffered
  BY <1>1 DEF ListsInv, ListsTyped
<1>5. /\ servers'[Listener] = <<>> /\ \A q \in Procs \ {Listener} : servers'[q] = servers[q]
      /\ index'[Listener] = <<>> /\ \A q \in Procs \ {Listener} : index'[q] = index[q]
      /\ servers' = [q \in Procs |-> servers'[q]] /\ index' = [q \in Procs |-> index'[q]]
      /\ contended' \in [Procs -> SUBSET Tools]
      /\ \A q \in Procs \ {Listener} : contended'[q] = contended[q]
  BY <1>1, <1>2, <1>4
<1>6. DOMAIN <<>> = {} /\ \A R : <<>> \in [{} -> R]
  OBVIOUS
<1>7. Partial(<<>>, Names, Entries) /\ Partial(<<>>, Tools, Names)
  BY <1>6 DEF Partial
<1>8. ListsInv'
  <2>1. ListsTyped'
    BY <1>4, <1>5, <1>7 DEF ListsTyped
  <2>2. IndexLeads'
    BY <1>4, <1>5, <1>6 DEF IndexLeads, Registered
  <2>3. ToolsAreOffered'
    BY <1>4, <1>5, <1>6 DEF ToolsAreOffered, Registered
  <2>4. QED
    BY <2>1, <2>2, <2>3 DEF ListsInv
<1>9. /\ boot' \in [Procs -> [todo : SUBSET installed, fetching : BOOLEAN]]
      /\ boot'[Listener].todo = Detected /\ \A q \in Procs \ {Listener} : boot'[q] = boot[q]
      /\ failed' \in [Procs -> SUBSET Names]
      /\ \A q \in Procs \ {Listener} : failed'[q] = failed[q]
  BY <1>1, <1>2 DEF RestTyped, Booting, Detected
<1>10. RestTyped'
  <2>1. faults' \in 0..MaxFaults
    BY <1>1, <1>3, Bounds DEF RestTyped, Fault
  <2>2. request' \in [Requests -> {"none", "booting", "ensured", "skipped", "done"}]
    BY <1>1, <1>3 DEF RestTyped
  <2>3. QED
    BY <1>1, <1>3, <1>9, <2>1, <2>2 DEF RestTyped
<1>11. IsolatedAreMarked'
  BY <1>3 DEF IsolatedAreMarked
<1>12. ReleasedAreOut'
  <2>1. Detected \cap unmanaged = {}
    BY DEF Detected
  <2>2. QED
    BY <1>1, <1>3, <1>5, <1>6, <1>9, <2>1 DEF ReleasedAreOut, Registered
<1>13. BootAccounts'
  <2>1. ready' \subseteq Procs \ {Listener} /\ ready' \subseteq ready
    BY <1>1, <1>3 DEF RestTyped
  <2>2. QED
    BY <1>1, <1>3, <1>5, <1>9, <2>1 DEF BootAccounts, Registered
<1>14. RequestsFollow'
  <2>1. \A r \in Requests : at[r] \in Procs
    BY RegistryAssumption
  <2>2. QED
    BY <1>1, <1>3, <1>9, <2>1 DEF RequestsFollow, BootOver
<1>15. QED
  BY <1>8, <1>10, <1>11, <1>12, <1>13, <1>14, InvWillBe

\* Every step keeps the invariant.
LEMMA RegistryStep == RegistryInv /\ [Next]_vars => RegistryInv'
<1>1. SUFFICES ASSUME RegistryInv, [Next]_vars PROVE RegistryInv'
  OBVIOUS
<1>2. ASSUME NEW p \in Procs, BootCheck(p) \/ BootFetched(p) PROVE RegistryInv'
  BY <1>1, <1>2, BootCheckStep, BootFetchedStep
<1>3. ASSUME \/ \E p \in Procs : \/ Monitor(p) \/ Sleep(p) \/ Wake(p)
                                 \/ \E n \in Names : CallFails(p, n)
                                 \/ \E t \in Tools : CallTool(p, t)
             \/ \E n \in Names : Heartbeat(n) \/ Age(n) \/ ServerStops(n)
             \/ ReapDead
      PROVE  RegistryInv'
  BY <1>1, <1>3, BackgroundStep
<1>4. ASSUME NEW r \in Requests, Begin(r) \/ Ensured(r) \/ List(r) PROVE RegistryInv'
  BY <1>1, <1>4, RequestStep
<1>5. ASSUME NEW n \in Names,
             \/ \E tools \in offers[n] : Register(n, tools)
             \/ \E value \in BOOLEAN : SetCollaborative(n, value)
             \/ Persist(n) \/ Unregister(n)
      PROVE  RegistryInv'
  BY <1>1, <1>5, RegisterStep, OpinionStep, PersistStep, UnregisterStep
<1>6. ASSUME NEW want \in BOOLEAN, SetMode(want) PROVE RegistryInv'
  BY <1>1, <1>6, ModeStep
<1>7. CASE Restart
  BY <1>1, <1>7, RestartStep
<1>8. CASE UNCHANGED vars
  <2>1. ListsInv /\ RestTyped
    BY <1>1, InvIs
  <2>2. Kept /\ SameOpinion
    BY <1>8, <2>1, NothingIsKept DEF vars
  <2>3. QED
    BY <1>1, <1>8, <2>1, <2>2, QuietStep DEF vars, counters, RestTyped
<1>9. QED
  BY <1>1, <1>2, <1>3, <1>4, <1>5, <1>6, <1>7, <1>8 DEF Next

-----------------------------------------------------------------------------
(* What it gives.                                                          *)
-----------------------------------------------------------------------------

\* The invariant holds in every reachable state.
THEOREM RegistryInvariant == Spec => []RegistryInv
<1>1. QED
  BY RegistryStart, RegistryStep, PTL DEF Spec

\* Entries, index, bootstraps and requests keep their types; a bootstrap lists
\* installed servers only.
THEOREM TypeCorrect == Spec => []TypeOK
<1>1. RegistryInv => TypeOK
  BY DEF RegistryInv
<1>2. QED
  BY <1>1, RegistryInvariant, PTL

\* In every process what list_tools announces can be called, but for a tool that
\* two servers have listed at once.
THEOREM PublishedAlwaysRouted == Spec => []PublishedIsRouted
<1>1. ASSUME RegistryInv, NEW p \in Procs, NEW t \in Published(p) \ contended[p]
      PROVE  \E n \in Route(p, t) : t \in servers[p][n].tools
  <2>1. PICK n \in Alive(p) : t \in servers[p][n].tools
    BY <1>1 DEF Published
  <2>2. n \in Registered(p)
    BY DEF Alive
  <2>3. t \in DOMAIN index[p] /\ index[p][t] = n
    BY <1>1, <2>1, <2>2 DEF RegistryInv, IndexLeads
  <2>4. Route(p, t) = {n}
    BY <2>2, <2>3 DEF Route
  <2>5. QED
    BY <2>1, <2>4
<1>2. RegistryInv => PublishedIsRouted
  BY <1>1 DEF PublishedIsRouted
<1>3. QED
  BY <1>2, RegistryInvariant, PTL

\* Who is isolated stays out of the pulses, who is released out of the gateway,
\* but for the bootstrap that was under way.
THEOREM DecisionsStay == Spec => []UserDecisionsStay
<1>1. RegistryInv => UserDecisionsStay
  <2>1. ASSUME RegistryInv PROVE IsolationKept
    BY <2>1 DEF RegistryInv, IsolatedAreMarked, IsolationKept, Collaborators,
       Alive
  <2>2. ASSUME RegistryInv PROVE ReleasedStaysOut
    <3>1. Registered(Listener) \subseteq Names
      BY <2>2, RegistryAssumption DEF RegistryInv, TypeOK, Partial, Registered
    <3>2. QED
      BY <2>2, <3>1 DEF RegistryInv, ReleasedAreOut, ReleasedStaysOut
  <2>3. QED
    BY <2>1, <2>2 DEF UserDecisionsStay
<1>2. QED
  BY <1>1, RegistryInvariant, PTL

\* A list that lacks the tools of an installed server was asked for while that
\* server was still to be fetched, or the server failed, died or was released.
THEOREM ShortListsHaveReasons == Spec => ShortListsAreExplained
<1> DEFINE Reason(r, n) ==
      LET p == at[r] IN
      \/ \E tools \in {workerTools[n]} \cup offers[n] : tools \subseteq Published(p)
      \/ request[r] = "skipped" /\ n \in boot[p].todo
      \/ n \in failed[p] \cup unmanaged
      \/ n \in Registered(p) \ Alive(p)
    Lists == \A r \in Requests :
               request[r] \in {"ensured", "skipped"} /\ request'[r] = "done" =>
                 \A n \in installed : Reason(r, n)
<1>1. ASSUME RegistryInv, NEW r \in Requests, request[r] \in {"ensured", "skipped"},
             NEW n \in installed
      PROVE  Reason(r, n)
  <2> DEFINE p == at[r]
  <2>1. p \in ready /\ p \in Procs /\ (request[r] = "ensured" => boot[p].todo = {})
    BY <1>1, RegistryAssumption DEF RegistryInv, RequestsFollow, BootOver
  <2>2. n \in Registered(p) \cup boot[p].todo \cup failed[p] \cup unmanaged
    BY <1>1, <2>1 DEF RegistryInv, BootAccounts
  <2>3. CASE n \in Alive(p)
    <3>1. servers[p][n].tools \in {workerTools[n]} \cup offers[n]
      BY <1>1, <2>1, <2>3 DEF RegistryInv, ToolsAreOffered, Alive
    <3>2. servers[p][n].tools \subseteq Published(p)
      BY <2>3 DEF Published
    <3>3. QED
      BY <3>1, <3>2
  <2>4. CASE n \notin Alive(p)
    BY <1>1, <2>1, <2>2, <2>4
  <2>5. QED
    BY <2>3, <2>4
<1>2. RegistryInv /\ [Next]_vars => [Lists]_vars
  BY <1>1
<1>3. QED
  BY <1>2, RegistryInvariant, PTL DEF Spec, ShortListsAreExplained

=============================================================================
