------------------------ MODULE DaemonElection_proofs ------------------------
(***************************************************************************)
(* One daemon at most listens after a calm start, for every set of daemons *)
(* and gateways, every number of ports and whichever of them are taken.    *)
(***************************************************************************)
EXTENDS DaemonElection, FiniteSetTheorems, TLAPS

-----------------------------------------------------------------------------
(* The inductive invariant.                                                *)
-----------------------------------------------------------------------------

Holds == {"channel", "publish", "listen", "up"}

\* Whoever has passed the bind holds its port, alone on Windows.
HoldersAreBound ==
  /\ \A p \in Procs : pc[p] \in Holds => p \in bound[port[p]]
  /\ platform = "windows" => \A q \in Ports : \A p, r \in bound[q] : p = r

\* After a calm start everybody scans over strangers' ports only, so whoever
\* binds a port binds the same one, the first that is free; and a port that was
\* found held by no stranger is one a Gray Matter listens on, or is about to.
Taken(q) == Answers(q) \/ Starting(q)
ScanIsOrderly ==
  /\ \A p \in Procs, q \in Ports : q < port[p] => q \in foreign
  /\ \A p \in Procs : pc[p] \in Holds => port[p] \notin foreign
  /\ \A p \in Procs : pc[p] = "grace" /\ port[p] \notin foreign => Taken(port[p])

\* The port is published before it is listened on; on Windows the channel is
\* had before that, and nobody else has it.
PublishedFirst ==
  /\ \A p \in Procs : pc[p] \in {"listen", "up"} => portFile = port[p]
  /\ platform = "windows" =>
       /\ \A p \in Procs : pc[p] \in {"publish", "listen", "up"} => channel = p
       /\ channel # Nobody => pc[channel] \in {"publish", "listen", "up"}

ElectionInv ==
  /\ TypeOK /\ foreign \subseteq Foreign0 /\ HoldersAreBound
  /\ Calm => ScanIsOrderly /\ PublishedFirst

-----------------------------------------------------------------------------
(* What the invariant says of the processes.                               *)
-----------------------------------------------------------------------------

States == {"off", "ensure", "probe", "bind", "grace", "channel", "publish", "listen", "up",
           "alone", "stopping", "exited"}

\* Whoever has passed the bind after a calm start has the same port.
LEMMA HoldersShareThePort ==
  ASSUME ElectionInv, Calm, NEW p \in Procs, NEW r \in Procs, pc[p] \in Holds, pc[r] \in Holds
  PROVE  port[p] = port[r]
<1>1. /\ port[p] \in Nat /\ port[r] \in Nat
      /\ port[p] < port[r] => port[p] \in foreign
      /\ port[r] < port[p] => port[r] \in foreign
      /\ port[p] \notin foreign /\ port[r] \notin foreign
  BY DEF ElectionInv, ScanIsOrderly, TypeOK, Ports
<1>2. QED
  BY <1>1

\* On Windows it has it alone.
LEMMA OneHolderOnWindows ==
  ASSUME ElectionInv, platform = "windows", NEW p \in Procs, NEW r \in Procs,
         pc[p] \in Holds, pc[r] \in Holds, port[p] = port[r]
  PROVE  p = r
BY DEF ElectionInv, HoldersAreBound, TypeOK

\* A port is a Gray Matter's when one listens on it or is about to.
LEMMA TakenByWhom ==
  ASSUME ElectionInv, NEW q \in Ports
  PROVE  Taken(q) <=> \E p \in Procs : p \in bound[q] /\ pc[p] \in Holds
<1>1. ASSUME Answers(q) PROVE \E p \in Procs : p \in bound[q] /\ pc[p] \in Holds
  <2>1. listening[q] \in Procs
    BY <1>1 DEF Answers, ElectionInv, TypeOK
  <2>2. pc[listening[q]] = "up" /\ port[listening[q]] = q
    BY <2>1 DEF ElectionInv, TypeOK, SocketsMatchStates, MayBeBound
  <2>3. QED
    BY <2>1, <2>2 DEF ElectionInv, HoldersAreBound, Holds
<1>2. ASSUME Starting(q) PROVE \E p \in Procs : p \in bound[q] /\ pc[p] \in Holds
  BY <1>2 DEF Starting, ElectionInv, TypeOK, Holds
<1>3. ASSUME NEW p \in Procs, p \in bound[q], pc[p] \in Holds PROVE Taken(q)
  <2>1. CASE pc[p] = "up"
    <3>1. port[p] = q /\ listening[q] = p
      BY <1>3, <2>1 DEF ElectionInv, TypeOK, SocketsMatchStates, MayBeBound
    <3>2. QED
      BY <3>1, ElectionAssumption DEF Taken, Answers
  <2>2. CASE pc[p] \in {"channel", "publish", "listen"}
    BY <1>3, <2>2 DEF Taken, Starting
  <2>3. QED
    BY <1>3, <2>1, <2>2 DEF Holds
<1>4. QED
  BY <1>1, <1>2, <1>3 DEF Taken

-----------------------------------------------------------------------------
(* Each action keeps the invariant.                                        *)
-----------------------------------------------------------------------------

\* Before anybody starts.
LEMMA ElectionStart == Init => ElectionInv
<1>1. SUFFICES ASSUME Init PROVE ElectionInv
  OBVIOUS
<1>2. 1 \in Ports /\ \A q \in Ports : ~(q < 1)
  BY ElectionAssumption DEF Ports
<1>3. SocketsMatchStates /\ HoldersAreBound
  BY <1>1, ElectionAssumption DEF Init, SocketsMatchStates, HoldersAreBound,
     Holds
<1>4. TypeOK
  BY <1>1, <1>2, <1>3, ElectionAssumption DEF Init, TypeOK
<1>5. ScanIsOrderly /\ PublishedFirst
  BY <1>1, <1>2 DEF Init, ScanIsOrderly, PublishedFirst, Holds
<1>6. QED
  BY <1>1, <1>3, <1>4, <1>5 DEF Init, ElectionInv

\* A step of processes that have not passed the bind and do not pass it now.
\* Whoever enters the grace was turned away by a stranger or a Gray Matter.
LEMMA StepOutside ==
  ASSUME ElectionInv, pc' \in [Procs -> States],
         \A p \in Procs : \/ pc'[p] = pc[p]
                          \/ /\ pc[p] \notin Holds \cup {"alone"} /\ pc'[p] \notin Holds
                             /\ pc'[p] = "grace" => port[p] \in foreign \/ Taken(port[p]),
         UNCHANGED <<platform, port, sockets, portFile, counters>>,
         \/ channel' = channel
         \/ channel \in Procs /\ pc[channel] \notin Holds /\ channel' = Nobody
  PROVE  ElectionInv'
<1>1. /\ platform' = platform /\ port' = port /\ bound' = bound /\ listening' = listening
      /\ foreign' = foreign /\ portFile' = portFile /\ crashes' = crashes /\ stops' = stops
  BY DEF sockets, counters
<1>2. \A p \in Procs : /\ pc[p] \in Holds \/ pc'[p] \in Holds => pc'[p] = pc[p]
  OBVIOUS
<1>3. SocketsMatchStates'
  <2>1. ASSUME NEW q \in Ports, NEW p \in Procs
        PROVE  /\ listening[q] = p <=> pc'[p] = "up" /\ port[p] = q
               /\ p \in bound[q] => port[p] = q /\ MayBeBound(p, pc'[p])
    <3>1. /\ listening[q] = p <=> pc[p] = "up" /\ port[p] = q
          /\ p \in bound[q] => port[p] = q /\ MayBeBound(p, pc[p])
      BY DEF ElectionInv, TypeOK, SocketsMatchStates, MayBeBound
    <3>2. pc[p] = "up" <=> pc'[p] = "up"
      BY <1>2 DEF Holds
    <3>3. MayBeBound(p, pc[p]) => pc'[p] = pc[p]
      BY DEF Holds, MayBeBound
    <3>4. QED
      BY <3>1, <3>2, <3>3
  <2>2. QED
    BY <1>1, <2>1 DEF SocketsMatchStates, MayBeBound
<1>4. TypeOK'
  BY <1>1, <1>3, ElectionAssumption DEF ElectionInv, TypeOK, States
<1>5. HoldersAreBound'
  BY <1>1, <1>2 DEF ElectionInv, HoldersAreBound
<1>6. \A q \in Ports : Taken(q) => Taken(q)'
  <2>1. ASSUME NEW q \in Ports, Starting(q) PROVE Starting(q)'
    <3>1. PICK p \in bound[q] : pc[p] \in {"channel", "publish", "listen"}
      BY <2>1 DEF Starting
    <3>2. p \in Procs /\ pc'[p] = pc[p]
      BY <1>2, <3>1 DEF ElectionInv, TypeOK, Holds
    <3>3. QED
      BY <1>1, <3>1, <3>2 DEF Starting
  <2>2. QED
    BY <1>1, <2>1 DEF Taken, Answers
<1>7. ASSUME Calm' PROVE ScanIsOrderly' /\ PublishedFirst'
  <2>1. Calm /\ ScanIsOrderly /\ PublishedFirst
    BY <1>1, <1>7 DEF Calm, ElectionInv
  <2>2. \A p \in Procs : port[p] \in Ports
    BY DEF ElectionInv, TypeOK
  <2>3. ScanIsOrderly'
    <3>1. \A p \in Procs : pc'[p] \in Holds => port[p] \notin foreign
      BY <1>2, <2>1 DEF ScanIsOrderly
    <3>2. \A p \in Procs : pc'[p] = "grace" /\ port'[p] \notin foreign' => (Taken(port[p]))'
      BY <1>1, <1>6, <2>1, <2>2 DEF ScanIsOrderly
    <3>3. QED
      BY <1>1, <2>1, <3>1, <3>2 DEF ScanIsOrderly
  <2>4. PublishedFirst'
    <3>1. \A p \in Procs : pc'[p] \in {"publish", "listen", "up"} => pc'[p] = pc[p]
      BY <1>2 DEF Holds
    <3>2. \A p \in Procs : pc[p] \in {"publish", "listen", "up"} => pc'[p] = pc[p]
      BY <1>2 DEF Holds
    <3>3. platform = "windows" => channel' = channel \/ channel = Nobody
      BY <2>1 DEF PublishedFirst, Holds
    <3>4. channel \in Procs \cup {Nobody}
      BY DEF ElectionInv, TypeOK
    <3>5. QED
      BY <1>1, <2>1, <3>1, <3>2, <3>3, <3>4 DEF PublishedFirst
  <2>5. QED
    BY <2>3, <2>4
<1>8. QED
  BY <1>1, <1>4, <1>5, <1>7 DEF ElectionInv

\* The steps before the bind.
LEMMA StartDaemonStep ==
  ASSUME ElectionInv, NEW d \in Daemons, StartDaemon(d)
  PROVE  ElectionInv'
<1>1. d \in Procs /\ pc \in [Procs -> States]
  BY DEF Procs, ElectionInv, TypeOK, States
<1>2. /\ pc[d] = "off" /\ pc' = [pc EXCEPT ![d] = "probe"]
      /\ UNCHANGED <<platform, port, sockets, channel, portFile, counters>>
  BY DEF StartDaemon, GoTo
<1>3. QED
  BY <1>1, <1>2, StepOutside DEF States, Holds

\* A gateway that starts, and may launch a daemon, touches no socket.
LEMMA StartGatewayStep ==
  ASSUME ElectionInv, NEW g \in Gateways, StartGateway(g)
  PROVE  ElectionInv'
<1>1. g \in Procs /\ pc \in [Procs -> States] /\ Daemons \subseteq Procs
  BY DEF Procs, ElectionInv, TypeOK, States
<1>2. pc[g] = "off" /\ UNCHANGED <<platform, port, sockets, channel, portFile, counters>>
  BY DEF StartGateway
<1>3. CASE pc' = [pc EXCEPT ![g] = "probe"]
  BY <1>1, <1>2, <1>3, StepOutside DEF States, Holds
<1>4. CASE \E d \in Daemons : pc[d] = "off" /\ pc' = [pc EXCEPT ![g] = "ensure", ![d] = "probe"]
  BY <1>1, <1>2, <1>4, StepOutside DEF States, Holds
<1>5. QED
  BY <1>3, <1>4 DEF StartGateway, GoTo

\* Nor does one whose wait for the daemon is over.
LEMMA EnsuredStep ==
  ASSUME ElectionInv, NEW g \in Gateways, Ensured(g)
  PROVE  ElectionInv'
<1>1. g \in Procs /\ pc \in [Procs -> States]
  BY DEF Procs, ElectionInv, TypeOK, States
<1>2. /\ pc[g] = "ensure" /\ pc' = [pc EXCEPT ![g] = "probe"]
      /\ UNCHANGED <<platform, port, sockets, channel, portFile, counters>>
  BY DEF Ensured, GoTo
<1>3. QED
  BY <1>1, <1>2, StepOutside DEF States, Holds

\* Nor does a probe: the scan ends, or a bind is next.
LEMMA ProbeStep ==
  ASSUME ElectionInv, NEW p \in Procs, Probe(p)
  PROVE  ElectionInv'
<1>1. pc \in [Procs -> States]
  BY DEF ElectionInv, TypeOK, States
<1>2. /\ pc[p] = "probe"
      /\ \E w \in {"exited", "alone", "bind"} : pc' = [pc EXCEPT ![p] = w]
      /\ UNCHANGED <<platform, port, sockets, channel, portFile, counters>>
  BY DEF Probe, GoTo, GiveWay
<1>3. QED
  BY <1>1, <1>2, StepOutside DEF States, Holds

\* The bind: what is had is nobody's, what is not is a stranger's or taken.
LEMMA BindStep ==
  ASSUME ElectionInv, NEW p \in Procs, Bind(p)
  PROVE  ElectionInv'
<1>1. /\ pc \in [Procs -> States] /\ port[p] \in Ports /\ bound \in [Ports -> SUBSET Procs]
      /\ pc[p] = "bind"
      /\ UNCHANGED <<platform, port, listening, foreign, channel, portFile, counters>>
  BY DEF Bind, ElectionInv, TypeOK, States
<1>2. CASE CanBind(port[p]) /\ bound' = [bound EXCEPT ![port[p]] = @ \cup {p}]
           /\ GoTo(p, "channel")
  <2>1. pc' = [pc EXCEPT ![p] = "channel"]
    BY <1>2 DEF GoTo
  <2>2. \A q \in Ports : bound'[q] = IF q = port[p] THEN bound[q] \cup {p} ELSE bound[q]
    BY <1>1, <1>2
  <2>3. SocketsMatchStates'
    <3>1. ASSUME NEW q \in Ports, NEW r \in Procs
          PROVE  /\ listening[q] = r <=> pc'[r] = "up" /\ port[r] = q
                 /\ r \in bound'[q] => port[r] = q /\ MayBeBound(r, pc'[r])
      <4>1. /\ listening[q] = r <=> pc[r] = "up" /\ port[r] = q
            /\ r \in bound[q] => port[r] = q /\ MayBeBound(r, pc[r])
        BY DEF ElectionInv, TypeOK, SocketsMatchStates, MayBeBound
      <4>2. CASE r = p
        BY <1>1, <2>1, <2>2, <4>1, <4>2 DEF MayBeBound
      <4>3. CASE r # p
        BY <1>1, <2>1, <2>2, <4>1, <4>3
      <4>4. QED
        BY <4>2, <4>3
    <3>2. QED
      BY <1>1, <3>1 DEF SocketsMatchStates, MayBeBound
  <2>4. TypeOK'
    <3>1. bound' \in [Ports -> SUBSET Procs] /\ pc' \in [Procs -> States]
      BY <1>1, <1>2, <2>1 DEF States
    <3>2. QED
      BY <1>1, <2>3, <3>1, ElectionAssumption DEF ElectionInv, TypeOK, States,
         counters
  <2>5. HoldersAreBound'
    <3>1. \A r \in Procs : pc'[r] \in Holds => r \in bound'[port'[r]]
      <4>1. ASSUME NEW r \in Procs, pc'[r] \in Holds PROVE r \in bound'[port[r]]
        <5>1. CASE r = p
          BY <1>1, <2>2, <5>1
        <5>2. CASE r # p
          <6>1. pc'[r] = pc[r]
            BY <1>1, <2>1, <5>2
          <6>2. r \in bound[port[r]] /\ port[r] \in Ports
            BY <4>1, <6>1 DEF ElectionInv, HoldersAreBound, TypeOK
          <6>3. QED
            BY <2>2, <6>2
        <5>3. QED
          BY <5>1, <5>2
      <4>2. QED
        BY <1>1, <4>1
    <3>2. platform' = "windows" => \A q \in Ports : \A x, y \in bound'[q] : x = y
      BY <1>1, <1>2, <2>2 DEF ElectionInv, HoldersAreBound, CanBind
    <3>3. QED
      BY <3>1, <3>2 DEF HoldersAreBound
  <2>6. ASSUME Calm' PROVE ScanIsOrderly' /\ PublishedFirst'
    <3>1. Calm /\ ScanIsOrderly /\ PublishedFirst /\ port[p] \notin foreign
      BY <1>1, <1>2, <2>6 DEF Calm, ElectionInv, counters, CanBind
    <3>2. ASSUME NEW r \in Procs, pc'[r] = "grace", port[r] \notin foreign PROVE Taken(port[r])'
      <4>1. r # p /\ port[r] \in Ports /\ Taken(port[r])
        BY <1>1, <2>1, <3>1, <3>2 DEF ScanIsOrderly, ElectionInv, TypeOK
      <4>2. CASE Answers(port[r])
        BY <1>1, <4>2 DEF Taken, Answers
      <4>3. CASE Starting(port[r])
        <5>1. PICK s \in bound[port[r]] : pc[s] \in {"channel", "publish", "listen"}
          BY <4>3 DEF Starting
        <5>2. s \in bound'[port[r]] /\ pc'[s] = pc[s]
          BY <1>1, <2>1, <2>2, <4>1, <5>1
        <5>3. Starting(port[r])'
          BY <1>1, <5>1, <5>2 DEF Starting
        <5>4. QED
          BY <5>3 DEF Taken
      <4>4. QED
        BY <4>1, <4>2, <4>3 DEF Taken
    <3>3. ScanIsOrderly'
      BY <1>1, <2>1, <3>1, <3>2 DEF ScanIsOrderly
    <3>4. PublishedFirst'
      BY <1>1, <2>1, <3>1 DEF PublishedFirst
    <3>5. QED
      BY <3>3, <3>4
  <2>7. QED
    BY <1>1, <2>4, <2>5, <2>6 DEF ElectionInv
<1>3. CASE ~CanBind(port[p]) /\ GoTo(p, "grace") /\ UNCHANGED bound
  <2>1. pc' = [pc EXCEPT ![p] = "grace"]
    BY <1>3 DEF GoTo
  <2>2. port[p] \in foreign \/ Taken(port[p])
    <3>1. CASE listening[port[p]] # Nobody
      BY <3>1 DEF Taken, Answers
    <3>2. CASE bound[port[p]] # {} /\ platform = "windows"
      <4>1. PICK r \in Procs : r \in bound[port[p]]
        BY <1>1, <3>2
      <4>2. pc[r] \in Holds
        BY <1>1, <3>2, <4>1 DEF ElectionInv, TypeOK, SocketsMatchStates, MayBeBound, Holds
      <4>3. QED
        BY <1>1, <4>1, <4>2, TakenByWhom
    <3>3. QED
      BY <1>3, <3>1, <3>2 DEF CanBind
  <2>3. QED
    BY <1>1, <1>3, <2>1, <2>2, StepOutside DEF States, Holds, sockets
<1>4. QED
  BY <1>2, <1>3 DEF Bind

\* The grace ends: the process gives way, or passes over a stranger's port.
LEMMA GraceStep ==
  ASSUME ElectionInv, NEW p \in Procs, Grace(p)
  PROVE  ElectionInv'
<1>1. /\ pc \in [Procs -> States] /\ port \in [Procs -> Ports] /\ port[p] \in Ports
      /\ pc[p] = "grace" /\ UNCHANGED <<platform, sockets, channel, portFile, counters>>
  BY DEF Grace, ElectionInv, TypeOK, States
<1>2. CASE GiveWay(p) /\ UNCHANGED port
  <2>1. \E w \in {"exited", "alone"} : pc' = [pc EXCEPT ![p] = w]
    BY <1>2 DEF GiveWay, GoTo
  <2>2. QED
    BY <1>1, <1>2, <2>1, StepOutside DEF States, Holds
<1>3. CASE /\ ~Answers(port[p]) /\ ~Starting(port[p])
           /\ port[p] < NPorts /\ port' = [port EXCEPT ![p] = @ + 1] /\ GoTo(p, "bind")
  <2>1. /\ pc' = [pc EXCEPT ![p] = "bind"]
        /\ bound' = bound /\ listening' = listening /\ foreign' = foreign
        /\ platform' = platform /\ channel' = channel /\ portFile' = portFile
        /\ crashes' = crashes /\ stops' = stops
    BY <1>1, <1>3 DEF GoTo, sockets, counters
  <2>2. port[p] + 1 \in Ports /\ port' = [port EXCEPT ![p] = port[p] + 1]
    BY <1>1, <1>3, ElectionAssumption DEF Ports
  <2>3. \A r \in Procs : r # p => pc'[r] = pc[r] /\ port'[r] = port[r]
    BY <1>1, <2>1, <2>2
  <2>4. pc'[p] = "bind" /\ port'[p] = port[p] + 1
    BY <1>1, <2>1, <2>2
  <2>5. SocketsMatchStates'
    <3>1. ASSUME NEW q \in Ports, NEW r \in Procs
          PROVE  /\ listening[q] = r <=> pc'[r] = "up" /\ port'[r] = q
                 /\ r \in bound[q] => port'[r] = q /\ MayBeBound(r, pc'[r])
      <4>1. /\ listening[q] = r <=> pc[r] = "up" /\ port[r] = q
            /\ r \in bound[q] => port[r] = q /\ MayBeBound(r, pc[r])
        BY DEF ElectionInv, TypeOK, SocketsMatchStates, MayBeBound
      <4>2. CASE r = p
        BY <1>1, <2>4, <4>1, <4>2 DEF MayBeBound
      <4>3. CASE r # p
        BY <2>3, <4>1, <4>3
      <4>4. QED
        BY <4>2, <4>3
    <3>2. QED
      BY <2>1, <3>1 DEF SocketsMatchStates, MayBeBound
  <2>6. TypeOK'
    <3>1. pc' \in [Procs -> States] /\ port' \in [Procs -> Ports]
      BY <1>1, <2>1, <2>2 DEF States
    <3>2. QED
      BY <2>1, <2>5, <3>1 DEF ElectionInv, TypeOK, States
  <2>7. \A r \in Procs : pc'[r] \in Holds => r # p /\ pc[r] \in Holds
    BY <2>3, <2>4 DEF Holds
  <2>8. HoldersAreBound'
    BY <2>1, <2>3, <2>7 DEF ElectionInv, HoldersAreBound
  <2>9. ASSUME Calm' PROVE ScanIsOrderly' /\ PublishedFirst'
    <3>1. Calm /\ ScanIsOrderly /\ PublishedFirst
      BY <2>1, <2>9 DEF Calm, ElectionInv
    <3>2. port[p] \in foreign
      BY <1>1, <1>3, <3>1 DEF ScanIsOrderly, Taken
    <3>3. ASSUME NEW r \in Procs, NEW q \in Ports, q < port'[r] PROVE q \in foreign
      <4>1. CASE r = p
        <5>1. q < port[p] \/ q = port[p]
          BY <1>1, <2>4, <3>3, <4>1 DEF Ports
        <5>2. QED
          BY <3>1, <3>2, <5>1 DEF ScanIsOrderly
      <4>2. CASE r # p
        BY <2>3, <3>1, <3>3, <4>2 DEF ScanIsOrderly
      <4>3. QED
        BY <4>1, <4>2
    <3>4. ASSUME NEW r \in Procs, pc'[r] = "grace", port'[r] \notin foreign
          PROVE  Taken(port[r])' /\ port'[r] = port[r]
      <4>1. r # p /\ pc[r] = "grace" /\ port'[r] = port[r] /\ Taken(port[r])
        BY <2>3, <2>4, <3>1, <3>4 DEF ScanIsOrderly
      <4>2. ASSUME Starting(port[r]) PROVE Starting(port[r])'
        <5>1. PICK s \in bound[port[r]] : pc[s] \in {"channel", "publish", "listen"}
          BY <4>2 DEF Starting
        <5>2. s \in Procs
          BY <1>1, <5>1 DEF ElectionInv, TypeOK
        <5>3. s # p
          BY <1>1, <5>1
        <5>4. QED
          BY <2>1, <2>3, <4>1, <5>1, <5>2, <5>3 DEF Starting
      <4>3. QED
        BY <2>1, <4>1, <4>2 DEF Taken, Answers
    <3>5. ScanIsOrderly'
      BY <2>1, <2>3, <2>7, <3>1, <3>3, <3>4 DEF ScanIsOrderly
    <3>6. PublishedFirst'
      <4>1. \A r \in Procs : pc'[r] \in {"publish", "listen", "up"}
                              => r # p /\ pc'[r] = pc[r] /\ port'[r] = port[r]
        BY <2>3, <2>4
      <4>2. \A r \in Procs : pc[r] \in {"publish", "listen", "up"} => pc'[r] = pc[r]
        BY <1>1, <2>3
      <4>3. channel \in Procs \cup {Nobody}
        BY DEF ElectionInv, TypeOK
      <4>4. QED
        BY <2>1, <3>1, <4>1, <4>2, <4>3 DEF PublishedFirst
    <3>7. QED
      BY <3>5, <3>6
  <2>10. QED
    BY <2>1, <2>6, <2>8, <2>9 DEF ElectionInv
<1>4. QED
  BY <1>2, <1>3 DEF Grace

\* Steps of one that has passed the bind and stays with its sockets.
LEMMA StepInside ==
  ASSUME ElectionInv, NEW p \in Procs, NEW w \in {"publish", "listen"},
         pc[p] \in {"channel", "publish"}, pc' = [pc EXCEPT ![p] = w],
         UNCHANGED <<platform, port, sockets, counters>>,
         channel' \in Procs \cup {Nobody}, portFile' \in 0..NPorts,
         Calm => PublishedFirst'
  PROVE  ElectionInv'
<1>1. /\ platform' = platform /\ port' = port /\ bound' = bound /\ listening' = listening
      /\ foreign' = foreign /\ crashes' = crashes /\ stops' = stops
      /\ pc \in [Procs -> States]
  BY DEF sockets, counters, ElectionInv, TypeOK, States
<1>2. pc'[p] = w /\ \A r \in Procs : r # p => pc'[r] = pc[r]
  BY <1>1
<1>3. SocketsMatchStates'
  <2>1. ASSUME NEW q \in Ports, NEW r \in Procs
        PROVE  /\ listening[q] = r <=> pc'[r] = "up" /\ port[r] = q
               /\ r \in bound[q] => port[r] = q /\ MayBeBound(r, pc'[r])
    <3>1. /\ listening[q] = r <=> pc[r] = "up" /\ port[r] = q
          /\ r \in bound[q] => port[r] = q /\ MayBeBound(r, pc[r])
      BY DEF ElectionInv, TypeOK, SocketsMatchStates, MayBeBound
    <3>2. QED
      BY <1>1, <1>2, <3>1 DEF Holds, MayBeBound
  <2>2. QED
    BY <1>1, <2>1 DEF SocketsMatchStates, MayBeBound
<1>4. TypeOK'
  <2>1. pc' \in [Procs -> States]
    BY <1>1 DEF States
  <2>2. QED
    BY <1>1, <1>3, <2>1 DEF ElectionInv, TypeOK, States
<1>5. \A r \in Procs : pc'[r] \in Holds <=> pc[r] \in Holds
  BY <1>2 DEF Holds
<1>6. HoldersAreBound'
  BY <1>1, <1>5 DEF ElectionInv, HoldersAreBound
<1>7. \A q \in Ports : Starting(q) => Starting(q)'
  <2>1. ASSUME NEW q \in Ports, Starting(q) PROVE Starting(q)'
    <3>1. PICK s \in bound[q] : pc[s] \in {"channel", "publish", "listen"}
      BY <2>1 DEF Starting
    <3>2. s \in Procs
      BY <3>1 DEF ElectionInv, TypeOK
    <3>3. pc'[s] \in {"channel", "publish", "listen"}
      BY <1>2, <3>1, <3>2
    <3>4. QED
      BY <1>1, <3>1, <3>3 DEF Starting
  <2>2. QED
    BY <2>1
<1>8. ASSUME Calm' PROVE ScanIsOrderly' /\ PublishedFirst'
  <2>1. Calm /\ ScanIsOrderly
    BY <1>1, <1>8 DEF Calm, ElectionInv
  <2>2. \A r \in Procs : pc'[r] = "grace" => pc[r] = "grace" /\ port[r] \in Ports
    BY <1>2 DEF ElectionInv, TypeOK
  <2>3. ASSUME NEW r \in Procs, pc'[r] = "grace", port[r] \notin foreign PROVE Taken(port[r])'
    BY <1>1, <1>7, <2>1, <2>2, <2>3 DEF ScanIsOrderly, Taken, Answers
  <2>4. QED
    BY <1>1, <1>5, <2>1, <2>3 DEF ScanIsOrderly
<1>9. QED
  BY <1>1, <1>4, <1>6, <1>8 DEF ElectionInv

\* On Windows the channel is free for the only one that gets that far.
LEMMA ServeChannelStep ==
  ASSUME ElectionInv, NEW p \in Procs, ServeChannel(p)
  PROVE  ElectionInv'
<1>1. /\ pc[p] = "channel" /\ pc' = [pc EXCEPT ![p] = "publish"]
      /\ channel' = IF platform = "windows" /\ channel # Nobody THEN channel ELSE p
      /\ UNCHANGED <<platform, port, sockets, portFile, counters>>
      /\ pc \in [Procs -> States] /\ channel \in Procs \cup {Nobody} /\ portFile \in 0..NPorts
  BY DEF ServeChannel, GoTo, ElectionInv, TypeOK, States
<1>2. pc'[p] = "publish" /\ \A r \in Procs : r # p => pc'[r] = pc[r]
  BY <1>1
<1>3. ASSUME Calm PROVE PublishedFirst'
  <2>1. PublishedFirst
    BY <1>3 DEF ElectionInv
  <2>2. \A r \in Procs : pc'[r] \in {"listen", "up"} => portFile = port[r]
    BY <1>2, <2>1 DEF PublishedFirst
  <2>3. CASE platform = "windows"
    <3>1. \A r \in Procs : pc[r] \in {"publish", "listen", "up"} => r = p
      BY <1>1, <1>3, <2>3, HoldersShareThePort, OneHolderOnWindows DEF Holds
    <3>2. channel = Nobody
      BY <1>1, <2>1, <2>3, <3>1 DEF PublishedFirst
    <3>3. channel' = p
      BY <1>1, <3>2
    <3>4. \A r \in Procs : pc'[r] \in {"publish", "listen", "up"} => r = p
      BY <1>2, <3>1
    <3>5. QED
      BY <1>1, <1>2, <2>2, <3>3, <3>4 DEF PublishedFirst
  <2>4. CASE platform # "windows"
    BY <1>1, <2>2, <2>4 DEF PublishedFirst
  <2>5. QED
    BY <2>3, <2>4
<1>4. channel' \in Procs \cup {Nobody} /\ portFile' \in 0..NPorts
  BY <1>1
<1>5. QED
  BY <1>1, <1>3, <1>4, StepInside

\* Whoever has published before published the same port.
LEMMA PublishStep ==
  ASSUME ElectionInv, NEW p \in Procs, Publish(p)
  PROVE  ElectionInv'
<1>1. /\ pc[p] = "publish" /\ pc' = [pc EXCEPT ![p] = "listen"] /\ portFile' = port[p]
      /\ UNCHANGED <<platform, port, sockets, channel, counters>>
      /\ pc \in [Procs -> States] /\ channel \in Procs \cup {Nobody} /\ port[p] \in Ports
  BY DEF Publish, GoTo, ElectionInv, TypeOK, States
<1>2. pc'[p] = "listen" /\ \A r \in Procs : r # p => pc'[r] = pc[r]
  BY <1>1
<1>3. ASSUME Calm PROVE PublishedFirst'
  <2>1. PublishedFirst
    BY <1>3 DEF ElectionInv
  <2>2. \A r \in Procs : pc'[r] \in {"listen", "up"} => port[r] = port[p]
    BY <1>1, <1>2, <1>3, HoldersShareThePort DEF Holds
  <2>3. \A r \in Procs : pc'[r] \in {"publish", "listen", "up"}
                          <=> pc[r] \in {"publish", "listen", "up"}
    BY <1>1, <1>2
  <2>4. QED
    BY <1>1, <2>1, <2>2, <2>3 DEF PublishedFirst
<1>4. channel' \in Procs \cup {Nobody} /\ portFile' \in 0..NPorts
  BY <1>1, ElectionAssumption DEF Ports
<1>5. QED
  BY <1>1, <1>3, <1>4, StepInside

\* Whoever leaves with its sockets closed holds nothing; the others what they
\* held.
LEMMA SocketsClosed ==
  ASSUME ElectionInv, NEW p \in Procs, NEW w \in States \ Holds, w # "grace",
         pc' = [pc EXCEPT ![p] = w], CloseSockets(p), UNCHANGED <<platform, port, foreign, portFile>>,
         channel' \in Procs \cup {Nobody}, crashes' \in 0..MaxCrashes, stops' \in 0..MaxStops
  PROVE  TypeOK' /\ HoldersAreBound'
<1>1. /\ pc \in [Procs -> States] /\ pc' \in [Procs -> States]
      /\ pc'[p] = w /\ \A r \in Procs : r # p => pc'[r] = pc[r]
  BY DEF ElectionInv, TypeOK, States
<1>2. /\ bound' = [q \in Ports |-> bound[q] \ {p}]
      /\ listening' = [q \in Ports |-> IF listening[q] = p THEN Nobody ELSE listening[q]]
      /\ bound \in [Ports -> SUBSET Procs] /\ listening \in [Ports -> Procs \cup {Nobody}]
  BY DEF CloseSockets, ElectionInv, TypeOK
<1>3. bound' \in [Ports -> SUBSET Procs] /\ listening' \in [Ports -> Procs \cup {Nobody}]
  BY <1>2
<1>4. SocketsMatchStates'
  <2>1. ASSUME NEW q \in Ports, NEW r \in Procs
        PROVE  /\ listening'[q] = r <=> pc'[r] = "up" /\ port[r] = q
               /\ r \in bound'[q] => port[r] = q /\ MayBeBound(r, pc'[r])
    <3>1. /\ listening[q] = r <=> pc[r] = "up" /\ port[r] = q
          /\ r \in bound[q] => port[r] = q /\ MayBeBound(r, pc[r])
      BY DEF ElectionInv, TypeOK, SocketsMatchStates, MayBeBound
    <3>2. r # Nobody
      BY ElectionAssumption
    <3>3. CASE r = p
      BY <1>1, <1>2, <3>2, <3>3 DEF Holds
    <3>4. CASE r # p
      BY <1>1, <1>2, <3>1, <3>2, <3>4
    <3>5. QED
      BY <3>3, <3>4
  <2>2. QED
    BY <2>1 DEF SocketsMatchStates, MayBeBound
<1>5. HoldersAreBound'
  <2>1. ASSUME NEW r \in Procs, pc'[r] \in Holds PROVE r \in bound'[port[r]]
    <3>1. r # p /\ pc[r] \in Holds
      BY <1>1, <2>1
    <3>2. r \in bound[port[r]] /\ port[r] \in Ports
      BY <3>1 DEF ElectionInv, HoldersAreBound, TypeOK
    <3>3. QED
      BY <1>2, <3>1, <3>2
  <2>2. platform = "windows" => \A q \in Ports : \A x, y \in bound'[q] : x = y
    BY <1>2 DEF ElectionInv, HoldersAreBound
  <2>3. QED
    BY <2>1, <2>2 DEF HoldersAreBound
<1>6. QED
  BY <1>1, <1>3, <1>4, <1>5 DEF ElectionInv, TypeOK, States

\* The port is the listener's; one whose port another got gives way.
LEMMA ListenStep ==
  ASSUME ElectionInv, NEW p \in Procs, Listen(p)
  PROVE  ElectionInv'
<1>1. /\ pc[p] = "listen" /\ port[p] \in Ports
      /\ platform' = platform /\ port' = port /\ foreign' = foreign /\ portFile' = portFile
      /\ crashes' = crashes /\ stops' = stops
      /\ pc \in [Procs -> States] /\ listening \in [Ports -> Procs \cup {Nobody}]
      /\ bound \in [Ports -> SUBSET Procs] /\ channel \in Procs \cup {Nobody}
  BY DEF Listen, counters, ElectionInv, TypeOK, States
<1>2. CASE /\ listening[port[p]] = Nobody /\ listening' = [listening EXCEPT ![port[p]] = p]
           /\ GoTo(p, "up") /\ UNCHANGED <<bound, channel>>
  <2>1. pc'[p] = "up" /\ (\A r \in Procs : r # p => pc'[r] = pc[r]) /\ pc' \in [Procs -> States]
    BY <1>1, <1>2 DEF GoTo, States
  <2>2. /\ \A q \in Ports : listening'[q] = IF q = port[p] THEN p ELSE listening[q]
        /\ listening' \in [Ports -> Procs \cup {Nobody}]
    BY <1>1, <1>2
  <2>3. SocketsMatchStates'
    <3>1. ASSUME NEW q \in Ports, NEW r \in Procs
          PROVE  /\ listening'[q] = r <=> pc'[r] = "up" /\ port[r] = q
                 /\ r \in bound[q] => port[r] = q /\ MayBeBound(r, pc'[r])
      <4>1. /\ listening[q] = r <=> pc[r] = "up" /\ port[r] = q
            /\ r \in bound[q] => port[r] = q /\ MayBeBound(r, pc[r])
        BY DEF ElectionInv, TypeOK, SocketsMatchStates, MayBeBound
      <4>2. r # Nobody
        BY ElectionAssumption
      <4>3. CASE r = p
        BY <1>1, <1>2, <2>1, <2>2, <4>1, <4>2, <4>3 DEF MayBeBound
      <4>4. CASE r # p
        BY <1>1, <1>2, <2>1, <2>2, <4>1, <4>2, <4>4
      <4>5. QED
        BY <4>3, <4>4
    <3>2. QED
      BY <1>1, <1>2, <3>1 DEF SocketsMatchStates, MayBeBound
  <2>4. TypeOK'
    BY <1>1, <1>2, <2>1, <2>2, <2>3 DEF ElectionInv, TypeOK, States
  <2>5. \A r \in Procs : pc'[r] \in Holds <=> pc[r] \in Holds
    BY <1>1, <2>1 DEF Holds
  <2>6. HoldersAreBound'
    BY <1>1, <1>2, <2>5 DEF ElectionInv, HoldersAreBound
  <2>7. ASSUME Calm' PROVE ScanIsOrderly' /\ PublishedFirst'
    <3>1. Calm /\ ScanIsOrderly /\ PublishedFirst
      BY <1>1, <2>7 DEF Calm, ElectionInv
    <3>2. ASSUME NEW r \in Procs, pc'[r] = "grace", port[r] \notin foreign PROVE Taken(port[r])'
      <4>1. pc[r] = "grace" /\ port[r] \in Ports /\ Taken(port[r])
        BY <2>1, <3>1, <3>2 DEF ScanIsOrderly, ElectionInv, TypeOK
      <4>2. CASE port[r] = port[p]
        BY <1>1, <2>2, <4>2, ElectionAssumption DEF Taken, Answers
      <4>3. CASE port[r] # port[p] /\ Answers(port[r])
        BY <1>1, <2>2, <4>1, <4>3 DEF Taken, Answers
      <4>4. CASE port[r] # port[p] /\ Starting(port[r])
        <5>1. PICK s \in bound[port[r]] : pc[s] \in {"channel", "publish", "listen"}
          BY <4>4 DEF Starting
        <5>2. s \in Procs
          BY <1>1, <4>1, <5>1
        <5>3. s # p
          BY <4>1, <4>4, <5>1, <5>2 DEF ElectionInv, TypeOK, SocketsMatchStates, MayBeBound
        <5>4. QED
          BY <1>1, <1>2, <2>1, <5>1, <5>2, <5>3 DEF Starting, Taken
      <4>5. QED
        BY <4>1, <4>2, <4>3, <4>4 DEF Taken
    <3>3. ScanIsOrderly'
      BY <1>1, <2>5, <3>1, <3>2 DEF ScanIsOrderly
    <3>4. PublishedFirst'
      <4>1. \A r \in Procs : /\ pc'[r] \in {"publish", "listen", "up"}
                                <=> pc[r] \in {"publish", "listen", "up"}
                             /\ pc'[r] \in {"listen", "up"} <=> pc[r] \in {"listen", "up"}
        BY <1>1, <2>1
      <4>2. QED
        BY <1>1, <1>2, <3>1, <4>1 DEF PublishedFirst
    <3>5. QED
      BY <3>3, <3>4
  <2>8. QED
    BY <1>1, <2>4, <2>6, <2>7 DEF ElectionInv
<1>3. CASE /\ listening[port[p]] # Nobody /\ GiveWay(p)
           /\ IF p \in Daemons THEN CloseSockets(p) /\ LeaveChannel(p)
                               ELSE UNCHANGED <<bound, listening, channel>>
  <2>1. PICK w \in {"exited", "alone"} :
          pc' = [pc EXCEPT ![p] = w] /\ (p \notin Daemons => w = "alone")
    BY <1>3 DEF GiveWay, GoTo
  <2>2. w \in States \ Holds /\ w # "grace"
    BY DEF States, Holds
  <2>3. pc'[p] = w /\ \A r \in Procs : r # p => pc'[r] = pc[r]
    BY <1>1, <2>1
  <2>4. channel' \in Procs \cup {Nobody} /\ crashes' \in 0..MaxCrashes /\ stops' \in 0..MaxStops
    BY <1>1, <1>3 DEF LeaveChannel, ElectionInv, TypeOK
  <2>6. PICK l \in Procs : listening[port[p]] = l /\ l # p /\ pc[l] = "up" /\ port[l] = port[p]
    <3>1. listening[port[p]] \in Procs
      BY <1>1, <1>3
    <3>2. \A r \in Procs : listening[port[p]] = r => pc[r] = "up" /\ port[r] = port[p]
      BY <1>1 DEF ElectionInv, TypeOK, SocketsMatchStates, MayBeBound
    <3>3. QED
      BY <1>1, <3>1, <3>2
  <2>7. platform # "windows"
    BY <1>1, <2>6, OneHolderOnWindows DEF Holds
  <2>10. platform = "posix"
    BY <2>7, ElectionAssumption DEF ElectionInv, TypeOK
  <2>11. ASSUME p \in Daemons PROVE TypeOK' /\ HoldersAreBound'
    BY <1>1, <1>3, <2>1, <2>2, <2>4, <2>11, SocketsClosed
  <2>12. ASSUME p \notin Daemons PROVE TypeOK' /\ HoldersAreBound'
    <3>1. /\ p \in Gateways /\ w = "alone" /\ bound' = bound /\ listening' = listening
          /\ pc' \in [Procs -> States]
      BY <1>1, <1>3, <2>1, <2>2, <2>12 DEF Procs
    <3>2. SocketsMatchStates'
      <4>1. ASSUME NEW q \in Ports, NEW r \in Procs
            PROVE  /\ listening[q] = r <=> pc'[r] = "up" /\ port[r] = q
                   /\ r \in bound[q] => port[r] = q /\ MayBeBound(r, pc'[r])
        <5>1. /\ listening[q] = r <=> pc[r] = "up" /\ port[r] = q
              /\ r \in bound[q] => port[r] = q /\ MayBeBound(r, pc[r])
          BY DEF ElectionInv, TypeOK, SocketsMatchStates
        <5>2. CASE r = p
          BY <1>1, <2>3, <2>10, <3>1, <5>1, <5>2 DEF MayBeBound
        <5>3. CASE r # p
          BY <2>3, <5>1, <5>3
        <5>4. QED
          BY <5>2, <5>3
      <4>2. QED
        BY <1>1, <3>1, <4>1 DEF SocketsMatchStates, MayBeBound
    <3>3. TypeOK'
      BY <1>1, <2>4, <3>1, <3>2 DEF ElectionInv, TypeOK, States
    <3>4. \A r \in Procs : pc'[r] \in Holds => pc[r] \in Holds
      BY <2>2, <2>3
    <3>5. HoldersAreBound'
      BY <1>1, <3>1, <3>4 DEF ElectionInv, HoldersAreBound
    <3>6. QED
      BY <3>3, <3>5
  <2>5. TypeOK' /\ HoldersAreBound'
    BY <2>11, <2>12
  <2>8. ASSUME Calm' PROVE ScanIsOrderly' /\ PublishedFirst'
    <3>1. Calm /\ ScanIsOrderly /\ PublishedFirst
      BY <1>1, <2>8 DEF Calm, ElectionInv
    <3>2. \A q \in Ports : listening'[q] = listening[q]
      <4>1. \A q \in Ports : listening[q] # p
        BY <1>1 DEF ElectionInv, TypeOK, SocketsMatchStates, MayBeBound
      <4>2. CASE p \in Daemons
        <5>1. listening' = [q \in Ports |-> IF listening[q] = p THEN Nobody ELSE listening[q]]
          BY <1>3, <4>2 DEF CloseSockets
        <5>2. QED
          BY <4>1, <5>1
      <4>3. CASE p \notin Daemons
        BY <1>3, <4>3
      <4>4. QED
        BY <4>2, <4>3
    <3>6. \A q \in Ports : \A s \in bound[q] : s # p => s \in bound'[q]
      <4>1. CASE p \in Daemons
        <5>1. bound' = [q \in Ports |-> bound[q] \ {p}]
          BY <1>3, <4>1 DEF CloseSockets
        <5>2. QED
          BY <5>1
      <4>2. CASE p \notin Daemons
        BY <1>3, <4>2
      <4>3. QED
        BY <4>1, <4>2
    <3>3. ASSUME NEW r \in Procs, pc'[r] = "grace", port[r] \notin foreign PROVE Taken(port[r])'
      <4>1. pc[r] = "grace" /\ port[r] \in Ports /\ Taken(port[r])
        BY <2>2, <2>3, <3>1, <3>3 DEF ScanIsOrderly, ElectionInv, TypeOK
      <4>2. CASE Answers(port[r])
        BY <1>1, <3>2, <4>1, <4>2 DEF Taken, Answers
      <4>3. CASE Starting(port[r])
        <5>1. PICK s \in bound[port[r]] : pc[s] \in {"channel", "publish", "listen"}
          BY <4>3 DEF Starting
        <5>2. s \in Procs /\ port[s] = port[r]
          BY <1>1, <4>1, <5>1 DEF ElectionInv, TypeOK, SocketsMatchStates, MayBeBound
        <5>3. CASE s = p
          <6>1. Answers(port[r])
            BY <1>3, <5>2, <5>3 DEF Answers
          <6>2. QED
            BY <1>1, <3>2, <4>1, <6>1 DEF Taken, Answers
        <5>4. CASE s # p
          <6>1. pc'[s] = pc[s] /\ s \in bound'[port[r]]
            BY <2>3, <3>6, <4>1, <5>1, <5>2, <5>4
          <6>2. port'[r] = port[r]
            BY <1>1
          <6>3. QED
            BY <5>1, <6>1, <6>2 DEF Starting, Taken
        <5>5. QED
          BY <5>3, <5>4
      <4>4. QED
        BY <4>1, <4>2, <4>3 DEF Taken
    <3>4. ScanIsOrderly'
      BY <1>1, <2>2, <2>3, <3>1, <3>3 DEF ScanIsOrderly
    <3>5. PublishedFirst'
      BY <1>1, <2>3, <2>7, <3>1 DEF PublishedFirst
    <3>7. QED
      BY <3>4, <3>5
  <2>9. QED
    BY <1>1, <2>5, <2>8 DEF ElectionInv
<1>4. QED
  BY <1>2, <1>3 DEF Listen

\* What ends the calm: a stop, a kill, a port that comes free.
LEMMA StopStep ==
  ASSUME ElectionInv, NEW p \in Procs, Stop(p)
  PROVE  ElectionInv'
<1>1. /\ stops' = stops + 1 /\ stops < MaxStops /\ stops \in 0..MaxStops /\ MaxStops \in Nat
      /\ pc' = [pc EXCEPT ![p] = "stopping"] /\ CloseSockets(p)
      /\ UNCHANGED <<platform, port, foreign, channel, portFile, crashes>>
      /\ channel \in Procs \cup {Nobody} /\ crashes \in 0..MaxCrashes
  BY ElectionAssumption DEF Stop, GoTo, ElectionInv, TypeOK
<1>2. stops' \in 0..MaxStops /\ stops' # 0
  BY <1>1
<1>3. TypeOK' /\ HoldersAreBound'
  <2>1. "stopping" \in States \ Holds /\ "stopping" # "grace"
    BY DEF States, Holds
  <2>2. QED
    BY <1>1, <1>2, <2>1, SocketsClosed
<1>4. QED
  BY <1>1, <1>2, <1>3 DEF ElectionInv, Calm

\* A process that dies takes its sockets and its channel with it.
LEMMA CrashStep ==
  ASSUME ElectionInv, NEW p \in Procs, Crash(p)
  PROVE  ElectionInv'
<1>1. /\ crashes' = crashes + 1 /\ crashes < MaxCrashes /\ crashes \in 0..MaxCrashes
      /\ MaxCrashes \in Nat
      /\ pc' = [pc EXCEPT ![p] = "exited"] /\ CloseSockets(p) /\ LeaveChannel(p)
      /\ UNCHANGED <<platform, port, foreign, portFile, stops>>
      /\ channel \in Procs \cup {Nobody} /\ stops \in 0..MaxStops
  BY ElectionAssumption DEF Crash, GoTo, ElectionInv, TypeOK
<1>2. /\ crashes' \in 0..MaxCrashes /\ crashes' # 0
  BY <1>1
<1>3. TypeOK' /\ HoldersAreBound'
  <2>1. "exited" \in States \ Holds /\ "exited" # "grace"
    BY DEF States, Holds
  <2>2. channel' \in Procs \cup {Nobody}
    BY <1>1 DEF LeaveChannel
  <2>3. QED
    BY <1>1, <1>2, <2>1, <2>2, SocketsClosed
<1>4. QED
  BY <1>1, <1>2, <1>3 DEF ElectionInv, Calm

\* A stranger that leaves frees its port alone.
LEMMA VacateStep ==
  ASSUME ElectionInv, Vacate
  PROVE  ElectionInv'
<1>1. PICK q \in foreign : foreign' = foreign \ {q}
  BY DEF Vacate
<1>2. UNCHANGED <<platform, pc, port, bound, listening, channel, portFile, counters>>
  BY DEF Vacate
<1>3. foreign \subseteq Foreign0 /\ foreign' # Foreign0 /\ foreign' \subseteq Foreign0
  BY <1>1 DEF ElectionInv
<1>4. TypeOK' /\ HoldersAreBound'
  BY <1>1, <1>2 DEF ElectionInv, TypeOK, SocketsMatchStates, MayBeBound, HoldersAreBound,
     counters
<1>5. QED
  BY <1>3, <1>4 DEF ElectionInv, Calm

\* One that was stopped is gone.
LEMMA ExitStep ==
  ASSUME ElectionInv, NEW p \in Procs, Exit(p)
  PROVE  ElectionInv'
<1>1. /\ pc \in [Procs -> States] /\ pc[p] = "stopping" /\ pc' = [pc EXCEPT ![p] = "exited"]
      /\ UNCHANGED <<platform, port, sockets, portFile, counters>>
  BY DEF Exit, GoTo, ElectionInv, TypeOK, States
<1>2. \/ channel' = channel
      \/ channel \in Procs /\ pc[channel] \notin Holds /\ channel' = Nobody
  BY <1>1 DEF Exit, LeaveChannel, Holds
<1>3. pc' \in [Procs -> States] /\ \A r \in Procs : r # p => pc'[r] = pc[r]
  BY <1>1 DEF States
<1>4. QED
  BY <1>1, <1>2, <1>3, StepOutside DEF Holds

\* A step that changes nothing.
LEMMA ElectionStutter == ElectionInv /\ UNCHANGED vars => ElectionInv'
<1>1. ASSUME UNCHANGED vars
      PROVE  /\ UNCHANGED <<platform, pc, port, bound, listening, foreign, channel, portFile>>
             /\ UNCHANGED <<crashes, stops>>
  BY <1>1 DEF vars
<1>2. QED
  BY <1>1 DEF ElectionInv, TypeOK, SocketsMatchStates, MayBeBound, HoldersAreBound,
     ScanIsOrderly,
              PublishedFirst, Calm, Taken, Answers, Starting

-----------------------------------------------------------------------------
(* What it gives.                                                          *)
-----------------------------------------------------------------------------

\* The invariant holds in every reachable state.
THEOREM ElectionInvariant == Spec => []ElectionInv
<1>1. ASSUME ElectionInv, [Next]_vars PROVE ElectionInv'
  <2>1. CASE \E d \in Daemons : StartDaemon(d)
    BY <1>1, <2>1, StartDaemonStep
  <2>2. CASE \E g \in Gateways : StartGateway(g)
    BY <1>1, <2>2, StartGatewayStep
  <2>3. CASE \E g \in Gateways : Ensured(g)
    BY <1>1, <2>3, EnsuredStep
  <2>4. ASSUME NEW p \in Procs, Proceed(p) PROVE ElectionInv'
    BY <1>1, <2>4, ProbeStep, BindStep, GraceStep, ServeChannelStep,
       PublishStep,
       ListenStep, ExitStep DEF Proceed
  <2>5. CASE \E p \in Procs : Stop(p)
    BY <1>1, <2>5, StopStep
  <2>6. CASE \E p \in Procs : Crash(p)
    BY <1>1, <2>6, CrashStep
  <2>7. CASE Vacate
    BY <1>1, <2>7, VacateStep
  <2>8. CASE UNCHANGED vars
    BY <1>1, <2>8, ElectionStutter
  <2>9. QED
    BY <1>1, <2>1, <2>2, <2>3, <2>4, <2>5, <2>6, <2>7, <2>8 DEF Next
<1>2. QED
  BY <1>1, ElectionStart, PTL DEF Spec

\* Nobody who gave way, stopped or died holds a port; a port is listened on by
\* one that is up on it.
THEOREM TypeCorrect == Spec => []TypeOK
<1>1. ElectionInv => TypeOK
  BY DEF ElectionInv
<1>2. QED
  BY <1>1, ElectionInvariant, PTL

\* However many daemons and gateways start together, and whichever ports are
\* taken, one at most listens as long as nobody stops, dies or frees a port; on
\* Windows whoever reads the port file finds it, with a token it accepts.
THEOREM OneListenerAfterCalmStart == Spec => []OneListenerWhenCalm
<1>1. ASSUME ElectionInv, Calm
      PROVE  /\ Cardinality(Up) <= 1
             /\ platform = "windows" => \A p \in Up : Reachable(p)
  <2>1. ASSUME NEW p \in Up, NEW r \in Up PROVE p = r
    <3>1. p \in Procs /\ r \in Procs /\ pc[p] = "up" /\ pc[r] = "up"
      BY DEF Up
    <3>2. port[p] = port[r] /\ port[p] \in Ports
      BY <1>1, <3>1, HoldersShareThePort DEF Holds, ElectionInv, TypeOK
    <3>3. listening[port[p]] = p /\ listening[port[p]] = r
      BY <1>1, <3>1, <3>2 DEF ElectionInv, TypeOK, SocketsMatchStates, MayBeBound
    <3>4. QED
      BY <3>3
  <2>2. Cardinality(Up) \in {0, 1}
    <3>1. CASE Up = {}
      BY <3>1, FS_EmptySet
    <3>2. CASE Up # {}
      <4>1. PICK p \in Up : Up = {p}
        BY <2>1, <3>2
      <4>2. QED
        BY <4>1, FS_Singleton
    <3>3. QED
      BY <3>1, <3>2
  <2>3. ASSUME platform = "windows", NEW p \in Up PROVE Reachable(p)
    <3>1. p \in Procs /\ pc[p] = "up"
      BY DEF Up
    <3>2. listening[port[p]] = p
      BY <1>1, <3>1 DEF ElectionInv, TypeOK, SocketsMatchStates, MayBeBound
    <3>3. portFile = port[p] /\ channel = p
      BY <1>1, <2>3, <3>1 DEF ElectionInv, PublishedFirst
    <3>4. QED
      BY <3>1, <3>2, <3>3 DEF Reachable
  <2>4. QED
    BY <2>2, <2>3
<1>2. ElectionInv => OneListenerWhenCalm
  BY <1>1 DEF OneListenerWhenCalm
<1>3. QED
  BY <1>2, ElectionInvariant, PTL

=============================================================================
