-------------------------- MODULE Delegation_proofs --------------------------
(***************************************************************************)
(* However the IPC fails, a call is run at most once by the daemon and     *)
(* once by its own gateway, and by both only after a fault: for every set  *)
(* of gateways and calls and every bound on the faults.                    *)
(***************************************************************************)
EXTENDS Delegation, FiniteSetTheorems, TLAPS

-----------------------------------------------------------------------------
(* The inductive invariant.  A call's program counter in its gateway, its  *)
(* request in the daemon and what has been run and answered so far agree.  *)
-----------------------------------------------------------------------------

\* No site but the daemon and the call's own gateway ever runs it.
NoForeignRun(r) == \A s \in Sites \ {Daemon, at[r]} : runs[r][s] = 0

\* The daemon has run a call only once its request was taken off.
RequestTells(r) ==
  /\ request[r] \in {"none", "running"} => runs[r][Daemon] = 0
  /\ runs[r][Daemon] <= 1
  /\ request[r] = "lost" => deaths > 0
  /\ pc[r] \in {"idle", "sending"} => request[r] = "none"

\* A gateway that goes on by itself after the daemon took the request does so
\* for a late answer or a dead daemon.
LeftForAFault(r) ==
  pc[r] = "local" /\ request[r] # "none" => late + deaths > 0

\* Nothing is run or answered by the gateway before the call is over; then
\* either the daemon's answer was returned or the gateway's own was.
EndTells(r) ==
  /\ pc[r] # "done" => runs[r][at[r]] = 0 /\ answer[r] = {}
  /\ pc[r] = "done" =>
       \/ runs[r][at[r]] = 0 /\ answer[r] = {Daemon}
       \/ /\ runs[r][at[r]] = 1 /\ answer[r] = {at[r]}
          /\ request[r] # "none" => late + deaths > 0

CallInv(r) == NoForeignRun(r) /\ RequestTells(r) /\ LeftForAFault(r) /\ EndTells(r)

DelegationInv == TypeOK /\ \A r \in Calls : CallInv(r)

-----------------------------------------------------------------------------
\* What call q is made of is left alone by the step.
SameCall(q) ==
  /\ pc'[q] = pc[q] /\ request'[q] = request[q]
  /\ runs'[q] = runs[q] /\ answer'[q] = answer[q]

\* Faults are counted and never taken back.
FaultsStay == deaths' >= deaths /\ late' >= late

\* A fault that has happened stays counted.
LEMMA SumStaysPositive ==
  ASSUME NEW a \in Nat, NEW b \in Nat, NEW c \in Nat, NEW d \in Nat, c >= a, d >= b
  PROVE  (a + b > 0 => c + d > 0) /\ (b > 0 => d > 0) /\ (a > 0 => c > 0)
OBVIOUS

\* A counter below its bound may be counted up.
LEMMA CountUp ==
  ASSUME NEW m \in Nat, NEW n \in 0..m, n < m
  PROVE  n + 1 \in 0..m /\ n + 1 >= n
OBVIOUS

\* The invariant of a call survives the steps of others.
LEMMA OthersKeepInv ==
  ASSUME DelegationInv, FaultsStay, TypeOK', NEW q \in Calls, SameCall(q)
  PROVE  CallInv(q)'
<1>1. CallInv(q) /\ deaths \in Nat /\ late \in Nat /\ deaths' \in Nat /\ late' \in Nat
  BY DelegationAssumption DEF DelegationInv, TypeOK
<1>2. late + deaths > 0 => late' + deaths' > 0
  BY <1>1, SumStaysPositive DEF FaultsStay
<1>3. deaths > 0 => deaths' > 0
  BY <1>1, SumStaysPositive DEF FaultsStay
<1>4. NoForeignRun(q)' /\ RequestTells(q)'
  BY <1>1, <1>3 DEF SameCall, CallInv, NoForeignRun, RequestTells
<1>5. LeftForAFault(q)' /\ EndTells(q)'
  BY <1>1, <1>2 DEF SameCall, CallInv, LeftForAFault, EndTells
<1>6. QED
  BY <1>4, <1>5 DEF CallInv

\* The invariant holds at the start.
LEMMA InvInit == Init => DelegationInv
BY DelegationAssumption DEF Init, DelegationInv, TypeOK, CallInv, NoForeignRun,
     RequestTells, LeftForAFault, EndTells, Sites

\* Every step keeps the invariant.
LEMMA InvStep ==
  ASSUME DelegationInv, [Next]_vars
  PROVE  DelegationInv'
<1>a. TypeOK /\ \A r \in Calls : CallInv(r)
  BY DEF DelegationInv
<1>b. FaultsStay /\ (\A r \in Calls : SameCall(r)) /\ TypeOK' => DelegationInv'
  BY OthersKeepInv DEF DelegationInv
<1>c. /\ \A r \in Calls : at[r] \in Gateways /\ at[r] # Daemon
      /\ MaxDeaths \in Nat /\ MaxLate \in Nat /\ MaxRefusals \in Nat
  BY DelegationAssumption
<1>1. ASSUME NEW r \in Calls, Issue(r) PROVE DelegationInv'
  <2>1. TypeOK'
    BY <1>1, <1>a, <1>c DEF Issue, GoTo, FallBack, TypeOK, counters, Sites
  <2>2. CallInv(r)'
    BY <1>1, <1>a, <1>c DEF Issue, GoTo, FallBack, TypeOK, counters, Sites,
       CallInv, NoForeignRun, RequestTells, LeftForAFault, EndTells
  <2>3. \A q \in Calls \ {r} : SameCall(q)
    BY <1>1, <1>a DEF Issue, GoTo, FallBack, TypeOK, counters, SameCall
  <2>4. FaultsStay
    BY <1>1, <1>a DEF Issue, GoTo, FallBack, TypeOK, counters, FaultsStay
  <2>5. QED
    BY <2>1, <2>2, <2>3, <2>4, OthersKeepInv DEF DelegationInv
<1>2. ASSUME NEW r \in Calls, Send(r) PROVE DelegationInv'
  <2>0. refusals' \in 0..MaxRefusals
    BY <1>2, <1>a, <1>c, CountUp DEF Send, TypeOK
  <2>1. TypeOK'
    BY <1>2, <1>a, <1>c, <2>0 DEF Send, GoTo, FallBack, TypeOK
  <2>2. CallInv(r)'
    BY <1>2, <1>a, <1>c DEF Send, GoTo, FallBack, TypeOK, counters, Sites,
       CallInv, NoForeignRun, RequestTells, LeftForAFault, EndTells
  <2>3. \A q \in Calls \ {r} : SameCall(q)
    BY <1>2, <1>a DEF Send, GoTo, FallBack, TypeOK, counters, SameCall
  <2>4. FaultsStay
    BY <1>2, <1>a DEF Send, GoTo, FallBack, TypeOK, counters, FaultsStay
  <2>5. QED
    BY <2>1, <2>2, <2>3, <2>4, OthersKeepInv DEF DelegationInv
<1>3. ASSUME NEW r \in Calls, DaemonRun(r) PROVE DelegationInv'
  <2>0. runs[r][Daemon] = 0
    BY <1>3, <1>a DEF DaemonRun, CallInv, RequestTells
  <2>a. Daemon \in Sites /\ runs[r] \in [Sites -> 0..2]
    BY <1>3, <1>a, <1>c DEF TypeOK, Sites
  <2>b. runs' = [runs EXCEPT ![r] = [runs[r] EXCEPT ![Daemon] = runs[r][Daemon] + 1]]
    BY <1>3, <1>a DEF DaemonRun, TypeOK
  <2>c. [runs[r] EXCEPT ![Daemon] = runs[r][Daemon] + 1] \in [Sites -> 0..2]
    BY <2>0, <2>a
  <2>d. runs' \in [Calls -> [Sites -> 0..2]]
    BY <2>b, <2>c, <1>a DEF TypeOK
  <2>1. TypeOK'
    BY <1>3, <1>a, <1>c, <2>d DEF DaemonRun, TypeOK, counters, Sites
  <2>2. CallInv(r)'
    BY <1>3, <1>a, <1>c DEF DaemonRun, TypeOK, counters, Sites, CallInv,
       NoForeignRun, RequestTells, LeftForAFault, EndTells
  <2>3. \A q \in Calls \ {r} : SameCall(q)
    BY <1>3, <1>a DEF DaemonRun, TypeOK, counters, SameCall
  <2>4. FaultsStay
    BY <1>3, <1>a DEF DaemonRun, TypeOK, counters, FaultsStay
  <2>5. QED
    BY <2>1, <2>2, <2>3, <2>4, OthersKeepInv DEF DelegationInv
<1>4. ASSUME NEW r \in Calls, Receive(r) PROVE DelegationInv'
  <2>1. TypeOK'
    BY <1>4, <1>a, <1>c DEF Receive, GoTo, TypeOK, counters, Sites
  <2>2. CallInv(r)'
    BY <1>4, <1>a, <1>c DEF Receive, GoTo, TypeOK, counters, Sites, CallInv,
       NoForeignRun, RequestTells, LeftForAFault, EndTells
  <2>3. \A q \in Calls \ {r} : SameCall(q)
    BY <1>4, <1>a DEF Receive, GoTo, TypeOK, counters, SameCall
  <2>4. FaultsStay
    BY <1>4, <1>a DEF Receive, GoTo, TypeOK, counters, FaultsStay
  <2>5. QED
    BY <2>1, <2>2, <2>3, <2>4, OthersKeepInv DEF DelegationInv
<1>5. ASSUME NEW r \in Calls, Late(r) PROVE DelegationInv'
  <2>0. late' \in 0..MaxLate
    BY <1>5, <1>a, <1>c, CountUp DEF Late, TypeOK
  <2>1. TypeOK'
    BY <1>5, <1>a, <1>c, <2>0 DEF Late, GoTo, FallBack, TypeOK
  <2>2. CallInv(r)'
    BY <1>5, <1>a, <1>c DEF Late, GoTo, FallBack, TypeOK, counters, Sites,
       CallInv, NoForeignRun, RequestTells, LeftForAFault, EndTells
  <2>3. \A q \in Calls \ {r} : SameCall(q)
    BY <1>5, <1>a DEF Late, GoTo, FallBack, TypeOK, counters, SameCall
  <2>4. FaultsStay
    BY <1>5, <1>a DEF Late, GoTo, FallBack, TypeOK, counters, FaultsStay
  <2>5. QED
    BY <2>1, <2>2, <2>3, <2>4, OthersKeepInv DEF DelegationInv
<1>6. ASSUME NEW r \in Calls, Lost(r) PROVE DelegationInv'
  <2>1. TypeOK'
    BY <1>6, <1>a, <1>c DEF Lost, GoTo, FallBack, TypeOK, counters, Sites
  <2>2. CallInv(r)'
    BY <1>6, <1>a, <1>c DEF Lost, GoTo, FallBack, TypeOK, counters, Sites,
       CallInv, NoForeignRun, RequestTells, LeftForAFault, EndTells
  <2>3. \A q \in Calls \ {r} : SameCall(q)
    BY <1>6, <1>a DEF Lost, GoTo, FallBack, TypeOK, counters, SameCall
  <2>4. FaultsStay
    BY <1>6, <1>a DEF Lost, GoTo, FallBack, TypeOK, counters, FaultsStay
  <2>5. QED
    BY <2>1, <2>2, <2>3, <2>4, OthersKeepInv DEF DelegationInv
<1>7. ASSUME NEW r \in Calls, LocalRun(r) PROVE DelegationInv'
  <2>0. runs[r][at[r]] = 0
    BY <1>7, <1>a DEF LocalRun, CallInv, EndTells
  <2>a. at[r] \in Sites /\ runs[r] \in [Sites -> 0..2]
    BY <1>7, <1>a, <1>c DEF TypeOK, Sites
  <2>b. runs' = [runs EXCEPT ![r] = [runs[r] EXCEPT ![at[r]] = runs[r][at[r]] + 1]]
    BY <1>7, <1>a DEF LocalRun, TypeOK
  <2>c. [runs[r] EXCEPT ![at[r]] = runs[r][at[r]] + 1] \in [Sites -> 0..2]
    BY <2>0, <2>a
  <2>d. runs' \in [Calls -> [Sites -> 0..2]]
    BY <2>b, <2>c, <1>a DEF TypeOK
  <2>1. TypeOK'
    BY <1>7, <1>a, <1>c, <2>d DEF LocalRun, GoTo, TypeOK, counters, Sites
  <2>2. CallInv(r)'
    BY <1>7, <1>a, <1>c DEF LocalRun, GoTo, TypeOK, counters, Sites, CallInv,
       NoForeignRun, RequestTells, LeftForAFault, EndTells
  <2>3. \A q \in Calls \ {r} : SameCall(q)
    BY <1>7, <1>a DEF LocalRun, GoTo, TypeOK, counters, SameCall
  <2>4. FaultsStay
    BY <1>7, <1>a DEF LocalRun, GoTo, TypeOK, counters, FaultsStay
  <2>5. QED
    BY <2>1, <2>2, <2>3, <2>4, OthersKeepInv DEF DelegationInv
<1>8. ASSUME NEW g \in Gateways, BackoffEnds(g) PROVE DelegationInv'
  <2>1. TypeOK'
    BY <1>8, <1>a DEF BackoffEnds, TypeOK, counters, Sites
  <2>2. FaultsStay /\ \A r \in Calls : SameCall(r)
    BY <1>8, <1>a DEF BackoffEnds, TypeOK, counters, FaultsStay, SameCall
  <2>3. QED
    BY <2>1, <2>2, <1>b
<1>9. ASSUME NEW g \in Gateways, PrewarmStart(g) PROVE DelegationInv'
  <2>1. TypeOK'
    BY <1>9, <1>a DEF PrewarmStart, TypeOK, counters, Sites
  <2>2. FaultsStay /\ \A r \in Calls : SameCall(r)
    BY <1>9, <1>a DEF PrewarmStart, TypeOK, counters, FaultsStay, SameCall
  <2>3. QED
    BY <2>1, <2>2, <1>b
<1>10. ASSUME NEW g \in Gateways, Sweep(g) PROVE DelegationInv'
  <2>1. TypeOK'
    BY <1>10, <1>a DEF Sweep, TypeOK, counters, Sites
  <2>2. FaultsStay /\ \A r \in Calls : SameCall(r)
    BY <1>10, <1>a DEF Sweep, TypeOK, counters, FaultsStay, SameCall
  <2>3. QED
    BY <2>1, <2>2, <1>b
<1>11. CASE DaemonStarts
  BY <1>11, <1>a, <1>b DEF DaemonStarts, TypeOK, counters, FaultsStay, SameCall
<1>12. CASE DaemonDies
  <2>0. deaths' \in 0..MaxDeaths
    BY <1>12, <1>a, <1>c, CountUp DEF DaemonDies, TypeOK
  <2>1. TypeOK'
    BY <1>12, <1>a, <1>c, <2>0 DEF DaemonDies, TypeOK
  <2>2. ASSUME NEW r \in Calls PROVE CallInv(r)'
    BY <1>12, <1>a, <1>c DEF DaemonDies, TypeOK, Sites, CallInv, NoForeignRun,
                             RequestTells, LeftForAFault, EndTells
  <2>3. QED
    BY <2>1, <2>2 DEF DelegationInv
<1>13. CASE UNCHANGED vars
  BY <1>13, <1>a, <1>b DEF vars, counters, TypeOK, FaultsStay, SameCall
<1>14. QED
  BY <1>1, <1>2, <1>3, <1>4, <1>5, <1>6, <1>7, <1>8, <1>9, <1>10, <1>11,
     <1>12, <1>13
     DEF Next, Proceed

\* Every reachable state satisfies the invariant.
LEMMA InvAlways == Spec => []DelegationInv
BY InvInit, InvStep, PTL DEF Spec

-----------------------------------------------------------------------------
\* Every variable keeps its type; in particular no site is charged with more
\* than 2 runs of one call.
THEOREM TypeCorrect == Spec => []TypeOK
BY InvAlways, PTL DEF DelegationInv

\* A call is run at most once by the daemon and once by its own gateway, by
\* nobody else, its caller gets one result, and both have run it only when an
\* answer was late or the daemon died on it.
THEOREM CallsRunTwiceOnlyByFault == Spec => []TwiceNeedsFault
<1>1. ASSUME DelegationInv, NEW r \in Calls
      PROVE  /\ \A s \in Sites : runs[r][s] <= IF s \in {Daemon, at[r]} THEN 1 ELSE 0
             /\ Cardinality(answer[r]) <= 1
             /\ runs[r][at[r]] > 0 => answer[r] = {at[r]}
             /\ runs[r][Daemon] > 0 /\ runs[r][at[r]] > 0 => late + deaths > 0
  <2>1. CallInv(r) /\ at[r] \in Sites /\ at[r] # Daemon
    BY <1>1, DelegationAssumption DEF DelegationInv, Sites
  <2>2. runs[r] \in [Sites -> 0..2] /\ deaths \in Nat /\ late \in Nat
    BY <1>1, DelegationAssumption DEF DelegationInv, TypeOK
  <2>a. Cardinality({}) = 0 /\ Cardinality({Daemon}) = 1 /\ Cardinality({at[r]}) = 1
    BY FS_EmptySet, FS_Singleton
  <2>b. answer[r] = {} \/ answer[r] = {Daemon} \/ answer[r] = {at[r]}
    BY <2>1 DEF CallInv, EndTells
  <2>3. Cardinality(answer[r]) <= 1
    BY <2>a, <2>b
  <2>4. QED
    BY <2>1, <2>2, <2>3 DEF CallInv, NoForeignRun, RequestTells, EndTells
<1>2. DelegationInv => TwiceNeedsFault
  BY <1>1 DEF TwiceNeedsFault, RunsAreBounded
<1>3. QED
  BY InvAlways, <1>2, PTL
=============================================================================
