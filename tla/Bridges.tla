-------------------------------- MODULE Bridges --------------------------------
(***************************************************************************)
(* The bridges between a concept of Neuron and a node of NeuRAG            *)
(* (src/bridges.py): rows with a weight that use reinforces and idleness   *)
(* wears down, in one of two tiers (a local database, a cloud one), and    *)
(* the command that copies them from a tier to the other.                  *)
(*                                                                         *)
(* Every gateway opens the store anew for each operation, so what keeps    *)
(* two of them apart is the database alone.  Locally the writes of an      *)
(* operation are one transaction, which begins with its first write and    *)
(* not with its first read.  In the cloud (_RemoteConn without begin())    *)
(* each statement is on its own, and one whose answer is lost is sent      *)
(* again by _with_retry.                                                   *)
(***************************************************************************)
EXTENDS Integers, FiniteSets, FiniteSetsExt

CONSTANTS
  Procs,       \* gateways, the daemon, the command line
  Daemon,      \* the process whose _sleep_monitor decays
  Keys,        \* the pairs (concept, node)
  Matches,     \* topics: each the set of keys whose endpoints it matches
  Limits,      \* how many bridges a pulse or a turn shows
  PromoteAt,   \* _PROMOTE_AT
  Cap,         \* _WEIGHT_CAP
  NoRow,       \* the key is not in the table
  InitWeights, \* weights of the rows a behaviour may start with
  OldRows,     \* OldRows[k]: what a bridges.json that is not migrated says of k
  OldMax,      \* bound of its weights, which nothing held to the cap
  MaxOps,      \* bound: operations in a behaviour
  MaxFaults    \* bound: answers of the cloud that are lost, processes that
               \* are killed and statements that raise

Stores == {"local", "cloud"}

VARIABLES
  home,      \* the tier _connect opens: the cloud where it is configured
  row,       \* row[s][k]: the row of k in store s, or NoRow
  legacy,    \* the keys in a bridges.json not migrated yet; {} once renamed
  op,        \* op[p]: the operation of p, where it is, and what it has read
  reported,  \* keys whose concept Neuron was asked to confirm
  asked,     \* asked[k]: the first weight of k and the uses counted since
  excused,   \* keys promoted under an overlap, a lost answer or a failure
  worn,      \* keys a transfer took below the least weight, before they were pruned
  ops, lost, fails

vars == <<home, row, legacy, op, reported, asked, excused, worn, ops, lost, fails>>

Rows == [weight : {w \in Int : w <= OldMax}, idle : BOOLEAN, promoted : BOOLEAN]
Tables == [Keys -> Rows \cup {NoRow}]
Empty == [k \in Keys |-> NoRow]
\* What a process may begin with, and whatever it may be at, with what it has read.
Starts == [at : {"look"}, key : Keys] \cup [at : {"read"}, match : Matches, limit : Limits]
          \cup [at : {"fade"}]
Stages == Starts
  \cup [at : {"count", "retire"}, then : Starts]
  \cup [at : {"import"}, then : Starts, todo : SUBSET Keys]
  \cup [at : {"bump", "insert"}, key : Keys]
  \cup [at : {"reinforce"}, todo : SUBSET Keys, seen : Tables, just : SUBSET Keys]
  \cup [at : {"confirm"}, just : SUBSET Keys]
  \cup [at : {"idle", "prune"}]
  \cup [at : {"take"}, dst : Stores]
  \cup [at : {"compare"}, dst : Stores, rows : Tables, todo : SUBSET Keys]
  \cup [at : {"merge"}, dst : Stores, rows : Tables, key : Keys, seen : Rows \cup {NoRow},
        todo : SUBSET Keys]
Idle == [at |-> "idle"]

Least(a, b) == IF a <= b THEN a ELSE b
Most(a, b) == IF a <= b THEN b ELSE a
Has(t, k) == t[k] # NoRow
WeightOf(t, k) == IF Has(t, k) THEN t[k].weight ELSE 0

TypeOK ==
  /\ home \in Stores
  /\ row \in [Stores -> Tables]
  /\ legacy \subseteq Keys
  /\ op \in [Procs -> Stages]
  /\ \A p \in Procs : op[p].at \in {"fade", "prune"} => p = Daemon
  /\ {reported, excused, worn} \subseteq SUBSET Keys
  /\ asked \in [Keys -> Nat]
  /\ ops \in 0..MaxOps /\ lost \in Nat /\ fails \in Nat /\ lost + fails <= MaxFaults

Init ==
  /\ home \in Stores
  /\ row \in [Stores -> [Keys -> {NoRow} \cup
        [weight : InitWeights, idle : {FALSE}, promoted : {FALSE}]]]
  /\ legacy \in {{}} \cup {K \in {Keys} : \A k \in Keys : ~Has(row[home], k)}
  /\ op = [p \in Procs |-> Idle]
  /\ reported = {k \in legacy : OldRows[k].promoted}
  /\ asked = [k \in Keys |-> Most(IF k \in legacy THEN OldRows[k].weight ELSE 1,
                                  Most(1, Most(WeightOf(row.local, k), WeightOf(row.cloud, k))))]
  /\ excused = {} /\ worn = {}
  /\ ops = 0 /\ lost = 0 /\ fails = 0

-----------------------------------------------------------------------------
(* The statements.                                                         *)

\* Mutant of Used: no cap.
UsedUncapped(r) == [r EXCEPT !.weight = @ + 1, !.idle = FALSE]
\* weight = min(weight+1, cap), last_used = now, of a row that is there.
Used(r) == [r EXCEPT !.weight = Least(@ + 1, Cap), !.idle = FALSE]

Bumped(t, k) == IF Has(t, k) THEN [t EXCEPT ![k] = Used(@)] ELSE t

\* The use that takes a bridge to the threshold.
Crosses(r) == ~r.promoted /\ Least(r.weight + 1, Cap) >= PromoteAt

\* The same for a bridge that is shown, which promotes it at the threshold.
Shown(r) == [Used(r) EXCEPT !.promoted = @ \/ Least(r.weight + 1, Cap) >= PromoteAt]

Faded(t) == [k \in Keys |-> IF Has(t, k) /\ t[k].idle
                            THEN [t[k] EXCEPT !.weight = @ - 1] ELSE t[k]]

Pruned(t) == [k \in Keys |-> IF Has(t, k) /\ t[k].weight < 1 THEN NoRow ELSE t[k]]

\* Mutant of Merged: weights add up.
MergedSum(r, seen) == [seen EXCEPT !.weight = Least(r.weight + @, Cap), !.idle = @ /\ r.idle]
\* Mutant of Merged: the weight of the source replaces the other.
MergedOver(r, seen) == [seen EXCEPT !.weight = r.weight, !.idle = @ /\ r.idle]
\* transfer keeps the higher weight and the later use; promoted stays as it is.
Merged(r, seen) == [seen EXCEPT !.weight = Most(r.weight, @), !.idle = @ /\ r.idle]

-----------------------------------------------------------------------------
(* What a process does.                                                    *)

Goto(p, o) == op' = [op EXCEPT ![p] = o]

\* _with_retry: the answer of the cloud is lost, and the statement, which has
\* touched keys, is sent once more.
Resent(s, keys) ==
  /\ s = "cloud" /\ lost + fails < MaxFaults
  /\ lost' = lost + 1
  /\ excused' = excused \cup keys
  /\ UNCHANGED op

\* One statement of p (a transaction locally) that leaves table t in store s.
Write(p, s, t, next, keys) ==
  /\ row' = [row EXCEPT ![s] = t]
  /\ \/ Goto(p, next) /\ UNCHANGED <<lost, excused>>
     \/ Resent(s, keys)

\* _connect: the migration comes first, while there is a file to migrate.
Begin(p, o) ==
  /\ op[p] = Idle /\ ops < MaxOps
  /\ ops' = ops + 1
  /\ Goto(p, IF legacy = {} THEN o ELSE [at |-> "count", then |-> o])
  /\ UNCHANGED <<home, row, legacy, reported, asked, excused, worn, lost, fails>>

\* _maybe_migrate: nothing to do for a table that is not empty.
Count(p) ==
  /\ op[p].at = "count"
  /\ Goto(p, IF (\E k \in Keys : Has(row[home], k)) \/ legacy = {}
             THEN op[p].then
             ELSE [at |-> "import", then |-> op[p].then, todo |-> legacy])
  /\ UNCHANGED <<home, row, legacy, reported, asked, excused, worn, ops, lost, fails>>

FreshRow == [weight |-> 1, idle |-> FALSE, promoted |-> FALSE]

\* INSERT OR IGNORE of the entries of K, as the file has them.
Imported(t, K) == [k \in Keys |-> IF k \in K /\ ~Has(t, k) THEN OldRows[k] ELSE t[k]]

\* The INSERTs: all of them at once locally, one after the other in the cloud.
\* One that raises is passed over (locally a locked database fails them all); an
\* entry that cannot be read is one the file does not have.
Import(p) ==
  /\ op[p].at = "import"
  /\ \E K \in IF home = "local" THEN {op[p].todo} ELSE {{k} : k \in op[p].todo} :
       LET left == op[p].todo \ K
           next == IF left = {} THEN [at |-> "retire", then |-> op[p].then]
                   ELSE [op[p] EXCEPT !.todo = left]
       IN \/ Write(p, home, Imported(row[home], K), next, K) /\ UNCHANGED fails
          \/ /\ lost + fails < MaxFaults /\ fails' = fails + 1
             /\ Goto(p, next) /\ UNCHANGED <<row, excused, lost>>
  /\ UNCHANGED <<home, legacy, reported, asked, worn, ops>>

\* legacy.rename, whose failure is passed over.
Retire(p) ==
  /\ op[p].at = "retire"
  /\ legacy' \in {{}, legacy}
  /\ Goto(p, op[p].then)
  /\ UNCHANGED <<home, row, reported, asked, excused, worn, ops, lost, fails>>

\* add_bridge, past the checks of its endpoints: SELECT, then UPDATE or INSERT.
Add(p, k) == Begin(p, [at |-> "look", key |-> k])

Look(p) ==
  /\ op[p].at = "look"
  /\ asked' = [asked EXCEPT ![op[p].key] = @ + 1]
  /\ Goto(p, [op[p] EXCEPT !.at = IF Has(row[home], op[p].key) THEN "bump" ELSE "insert"])
  /\ UNCHANGED <<home, row, legacy, reported, excused, worn, ops, lost, fails>>

Bump(p) ==
  /\ op[p].at = "bump"
  /\ Write(p, home, Bumped(row[home], op[p].key), Idle, {op[p].key})
  /\ UNCHANGED <<home, legacy, reported, asked, worn, ops, fails>>

Insert(p) ==
  /\ op[p].at = "insert"
  /\ \/ /\ ~Has(row[home], op[p].key)
        /\ Write(p, home, [row[home] EXCEPT ![op[p].key] = FreshRow], Idle, {op[p].key})
     \/ /\ Has(row[home], op[p].key)   \* lost an insert race: bump the winner
        /\ Goto(p, [op[p] EXCEPT !.at = "bump"])
        /\ UNCHANGED <<row, excused, lost>>
  /\ UNCHANGED <<home, legacy, reported, asked, worn, ops, fails>>

\* bridges_for, from a pulse or a pre_turn.
Surface(p, m, n) == Begin(p, [at |-> "read", match |-> m, limit |-> n])

\* The cut after the sort by weight: no one left out is stronger.
Strongest(S, t, n) ==
  {T \in kSubset(Least(n, Cardinality(S)), S) :
     \A k \in T, j \in S \ T : t[k].weight >= t[j].weight}

ReadRows(p) ==
  /\ op[p].at = "read"
  /\ LET t == row[home]
         hits == {k \in op[p].match : Has(t, k)}
     IN \E shown \in Strongest(hits, t, op[p].limit) :
          /\ asked' = [k \in Keys |-> IF k \in shown
                         /\ Cardinality({j \in hits : t[j].weight > t[k].weight}) < op[p].limit
                                      THEN asked[k] + 1 ELSE asked[k]]
          /\ Goto(p, IF shown = {} THEN Idle
                     ELSE [at |-> "reinforce", todo |-> shown, seen |-> t,
                           just |-> {k \in shown : Crosses(t[k])}])
  /\ UNCHANGED <<home, row, legacy, reported, excused, worn, ops, lost, fails>>

\* The UPDATE of each bridge shown, by the database's own weight: all of them
\* at once locally, one after the other in the cloud.  `just' is what was read.
Reinforce(p) ==
  /\ op[p].at = "reinforce"
  /\ \E S \in IF home = "local" THEN {op[p].todo} ELSE {{k} : k \in op[p].todo} :
       LET t == [k \in Keys |-> IF k \in S /\ Has(row[home], k) THEN Shown(row[home][k])
                                ELSE row[home][k]]
           left == op[p].todo \ S
           stale == {k \in S : row[home][k] # op[p].seen[k]}
       IN /\ row' = [row EXCEPT ![home] = t]
          /\ \/ /\ Goto(p, CASE left # {} -> [op[p] EXCEPT !.todo = left]
                             [] left = {} /\ op[p].just # {} ->
                                  [at |-> "confirm", just |-> op[p].just]
                             [] OTHER -> Idle)
                /\ excused' = excused \cup stale
                /\ UNCHANGED lost
             \/ Resent(home, S)
  /\ UNCHANGED <<home, legacy, reported, asked, worn, ops, fails>>

\* _bridge_blocks: confirm the concepts of the bridges just promoted.
Confirm(p) ==
  /\ op[p].at = "confirm"
  /\ reported' = reported \cup op[p].just
  /\ Goto(p, Idle)
  /\ UNCHANGED <<home, row, legacy, asked, excused, worn, ops, lost, fails>>

\* The daemon's idle maintenance, one transaction locally.
Decay == Begin(Daemon, [at |-> "fade"])

Fade ==
  /\ op[Daemon].at = "fade"
  /\ IF home = "local"
       THEN Write(Daemon, home, Pruned(Faded(row[home])), Idle, {})
       ELSE Write(Daemon, home, Faded(row[home]), [at |-> "prune"], {})
  /\ UNCHANGED <<home, legacy, reported, asked, worn, ops, fails>>

Prune ==
  /\ op[Daemon].at = "prune"
  /\ Write(Daemon, home, Pruned(row[home]), Idle, {})
  /\ UNCHANGED <<home, legacy, reported, asked, worn, ops, fails>>

\* `gray-matter bridges-transfer': all rows of the source are read first.  It
\* opens both tiers by name and migrates nothing.
Transfer(p, s) ==
  /\ op[p] = Idle /\ ops < MaxOps
  /\ ops' = ops + 1
  /\ Goto(p, [at |-> "take", dst |-> s])
  /\ UNCHANGED <<home, row, legacy, reported, asked, excused, worn, lost, fails>>

Take(p) ==
  /\ op[p].at = "take"
  /\ \E s \in Stores \ {op[p].dst} :
       LET todo == {k \in Keys : Has(row[s], k)}
       IN /\ Goto(p, IF todo = {} THEN Idle
                     ELSE [at |-> "compare", dst |-> op[p].dst, rows |-> row[s], todo |-> todo])
          /\ worn' = worn \cup {k \in todo : row[s][k].weight < 1}
  /\ UNCHANGED <<home, row, legacy, reported, asked, excused, ops, lost, fails>>

Compare(p) ==
  /\ op[p].at = "compare"
  /\ \E k \in op[p].todo :
       Goto(p, [at |-> "merge", dst |-> op[p].dst, rows |-> op[p].rows, key |-> k,
                seen |-> row[op[p].dst][k], todo |-> op[p].todo \ {k}])
  /\ UNCHANGED <<home, row, legacy, reported, asked, excused, worn, ops, lost, fails>>

\* What row k becomes after having been seen as `seen'.
Carried(p, k, seen) == IF seen = NoRow THEN op[p].rows[k] ELSE Merged(op[p].rows[k], seen)

\* INSERT or UPDATE of the row compared.  Locally this write begins the
\* transaction, in which the other rows follow; an INSERT of a key that has
\* appeared meanwhile raises, and the transfer ends there.
Merge(p) ==
  /\ op[p].at = "merge"
  /\ LET s == op[p].dst
         k == op[p].key
         cur == row[s][k]
         one == [row[s] EXCEPT ![k] = IF op[p].seen # NoRow /\ cur = NoRow THEN NoRow
                                      ELSE Carried(p, k, op[p].seen)]
         all == [j \in Keys |-> IF j \in op[p].todo THEN Carried(p, j, row[s][j]) ELSE one[j]]
         taken == op[p].seen = NoRow /\ cur # NoRow
     IN CASE taken ->
               Goto(p, Idle) /\ UNCHANGED <<row, excused, lost>>
          [] ~taken /\ s = "local" ->
               Write(p, s, all, Idle, {})
          [] OTHER ->
               Write(p, s, one, IF op[p].todo = {} THEN Idle
                                ELSE [at |-> "compare", dst |-> s, rows |-> op[p].rows,
                                      todo |-> op[p].todo], {k})
  /\ UNCHANGED <<home, legacy, reported, asked, worn, ops, fails>>

-----------------------------------------------------------------------------
\* Seven days without a use of any bridge.
QuietWeek ==
  /\ row' = [s \in Stores |-> [k \in Keys |-> IF Has(row[s], k)
                THEN [row[s][k] EXCEPT !.idle = TRUE] ELSE NoRow]]
  /\ UNCHANGED <<home, legacy, op, reported, asked, excused, worn, ops, lost, fails>>

\* p is killed, or a statement of it raises (a locked database, four attempts
\* in vain): the operation ends where it is.
Fail(p) ==
  /\ op[p] # Idle /\ lost + fails < MaxFaults
  /\ fails' = fails + 1
  /\ excused' = IF op[p].at \in {"reinforce", "confirm"} THEN excused \cup op[p].just
                ELSE excused
  /\ Goto(p, Idle)
  /\ UNCHANGED <<home, row, legacy, reported, asked, worn, ops, lost>>

Next ==
  \/ \E p \in Procs :
       \/ \E k \in Keys : Add(p, k)
       \/ \E m \in Matches, n \in Limits : Surface(p, m, n)
       \/ \E s \in Stores : p # Daemon /\ Transfer(p, s)
       \/ Count(p) \/ Import(p) \/ Retire(p)
       \/ Look(p) \/ Bump(p) \/ Insert(p)
       \/ ReadRows(p) \/ Reinforce(p) \/ Confirm(p)
       \/ Take(p) \/ Compare(p) \/ Merge(p)
       \/ Fail(p)
  \/ Decay \/ Fade \/ Prune
  \/ QuietWeek

Spec == Init /\ [][Next]_vars

-----------------------------------------------------------------------------
(* What the bridges promise.                                               *)

\* A bridge never weighs more than the uses asked for, however often it is
\* copied between the tiers or imported, and by how many processes; only an
\* answer lost in the cloud counts a use twice (a retried UPDATE weight+1).
WeightIsEarned ==
  \A s \in Stores, k \in Keys : WeightOf(row[s], k) <= asked[k] + lost

\* A use that is counted stays counted: a weight goes down by the decay, and
\* by a transfer that writes the weight it read before a use of another; one that
\* was imported above the cap comes down to it with its first use.
UsesStayCounted ==
  [][\A s \in Stores, k \in Keys :
       Has(row[s], k) /\ Has(row'[s], k) /\ row'[s][k].weight < row[s][k].weight
         => \/ op[Daemon].at = "fade" /\ s = home /\ row[s][k].idle
            \/ row[s][k].weight > Cap /\ row'[s][k].weight = Cap
            \/ \E p \in Procs : /\ op[p].at = "merge" /\ op[p].dst = s /\ op[p].key = k
                                /\ op[p].seen # row[s][k]]_vars

\* A bridge used in the last seven days is not pruned, whatever runs next to
\* the decay; a decay sent twice, or cut off before it pruned, is the exception,
\* and a bridge that a transfer took between the decay and the pruning: carried
\* back, one that is worn out may wear further, and a use does not save it.
FreshIsNotPruned ==
  [][\A s \in Stores, k \in Keys :
       Has(row[s], k) /\ ~Has(row'[s], k) =>
         row[s][k].idle \/ k \in worn \/ lost + fails > 0]_vars

\* Every promotion is told to Neuron, or about to be: the promotion is decided
\* by the weight the database has, the report by the weight that was read, so
\* a use in between (and a lost answer, a failure) may part them.
PromotedIsReported ==
  \A s \in Stores, k \in Keys :
    Has(row[s], k) /\ row[s][k].promoted =>
      \/ k \in reported \cup excused
      \/ \E p \in Procs : op[p].at \in {"reinforce", "confirm"} /\ k \in op[p].just

\* The accounts are true: what the rows weigh, and what Neuron has been told.
AccountsAreTrue == WeightIsEarned /\ PromotedIsReported

\* What a use has earned is not taken away, in part or with its row.
EarnedStays == UsesStayCounted /\ FreshIsNotPruned
=============================================================================
