--------------------------- MODULE UserSide_proofs ---------------------------
(***************************************************************************)
(* What the context cache, the panel and the wiring of the clients         *)
(* promise, for every set of gateways, pulses, stores and topics, whatever *)
(* the stores change, and every cache size; for every set of the panel's   *)
(* commands, and any number of starts and faults; and for every set of     *)
(* clients of each format and of tools, in whatever order the commands go  *)
(* through the clients, and any number of faults.                          *)
(*                                                                         *)
(* Each part has an inductive invariant of its own, a lemma for what       *)
(* begins and lemmas for each action, and the theorems are at the end.     *)
(***************************************************************************)
EXTENDS UserSide, FiniteSetTheorems, WellFoundedInduction, TLAPS

-----------------------------------------------------------------------------
(* PulseCache: the inductive invariant.                                    *)

\* Pulse p, or whoever was served what it has read, is known to have been in
\* flight with w.
Overlapped(w, p) == pc[w] \in {"asking", "stored", "done"} => w \in met[p]

\* Neuron's memory has what was written; who returned before a pulse is done; and
\* a pulse in flight has met every store that is.
MemoryIsKept ==
  \A w \in Stores : pc[w] \in {"stored", "done"} => \A t \in Changes[w] : w \in memory[t]
ReturnedIsDone == \A p \in Pulses : \A w \in before[p] : pc[w] = "done"
InFlightIsMet == \A p \in Pulses : pc[p] \in {"asking", "composing"} => C!InFlight \subseteq met[p]

\* What a pulse has read lacks no store that had returned before it, and of the
\* others those it has met.
ReadIsSound ==
  \A p \in Pulses : pc[p] = "composing" /\ got[p] # {ErrorText} =>
    \A w \in Stores \ got[p] :
      C!Topic(p) \in Changes[w] => w \notin before[p] /\ Overlapped(w, p)

\* An entry lacks no store of its gateway but those its filler has met: a store
\* that began later dropped the entry.
CacheIsSound ==
  \A g \in Gateways, t \in Topics : cache[g][t] # Absent =>
    /\ pc[cache[g][t].filler] = "done"
    /\ cache[g][t].value # {ErrorText} =>
         \A w \in Stores \ cache[g][t].value :
           at[w] = g /\ t \in Changes[w] \cap C!Related(about[w]) => Overlapped(w, cache[g][t].filler)

\* Who is served from the cache is done, and so is the one that filled it.
SourceIsDone ==
  \A p \in Pulses : source[p] # p => pc[p] = "done" /\ pc[source[p]] = "done"

PulseInv ==
  /\ C!TypeOK /\ MemoryIsKept /\ ReturnedIsDone /\ InFlightIsMet /\ ReadIsSound
  /\ CacheIsSound /\ SourceIsDone /\ C!StaleOnlyFromOverlap

-----------------------------------------------------------------------------
\* What the requests to the gateways and the rules of their caches are.
LEMMA CacheIsServed ==
  /\ Pulses \cap Stores = {}
  /\ at \in [C!Requests -> Gateways] /\ \A p \in Pulses : C!Topic(p) \in Topics
  /\ Changes \in [Stores -> SUBSET Topics]
  /\ CacheSize \in Nat \ {0} /\ HalfTTL \in Nat \ {0} /\ ErrorText \notin Stores
  /\ MaxNow \in Nat
BY RequestsAreServed, TopicsAreKnown, CacheRules, Bounds DEF Requests, C!Requests

\* The cache's module counts as this one does.
LEMMA CountsAlike == \A x : C!Cardinality(x) = Cardinality(x) /\ C!IsFiniteSet(x) = IsFiniteSet(x)
BY DEF C!Cardinality, Cardinality, C!IsFiniteSet, IsFiniteSet

-----------------------------------------------------------------------------
(* Orders of topics.                                                       *)

\* What is left without some topics is in order.
LEMMA OrderWithout ==
  ASSUME NEW D, NEW R, C!InOrder(D, R), NEW ts
  PROVE  C!InOrder(D \ ts, C!Without(R, ts))
<1>1. \A t, u : <<t, u>> \in C!Without(R, ts) <=> <<t, u>> \in R /\ t \notin ts /\ u \notin ts
  BY DEF C!Without
<1>2. C!Without(R, ts) \subseteq (D \ ts) \X (D \ ts)
  BY DEF C!InOrder, C!Without
<1>3. QED
  BY <1>1, <1>2 DEF C!InOrder

\* So is what was there, with one topic used last.
LEMMA OrderLast ==
  ASSUME NEW D, NEW R, C!InOrder(D, R), NEW t
  PROVE  C!InOrder(D \cup {t}, C!Without(R, {t}) \cup ((D \ {t}) \X {t}))
<1> DEFINE Q == C!Without(R, {t}) \cup ((D \ {t}) \X {t})
<1>1. C!InOrder(D \ {t}, C!Without(R, {t}))
  BY OrderWithout
<1>2. \A u, v : <<u, v>> \in Q <=> <<u, v>> \in C!Without(R, {t}) \/ (u \in D \ {t} /\ v = t)
  OBVIOUS
<1>3. \A u, v : <<u, v>> \in C!Without(R, {t}) => u \in D \ {t} /\ v \in D \ {t}
  BY <1>1 DEF C!InOrder
<1>4. Q \subseteq (D \cup {t}) \X (D \cup {t})
  BY <1>1 DEF C!InOrder
<1> HIDE DEF Q
<1>5. ASSUME NEW u \in D \cup {t}, NEW v \in D \cup {t}
      PROVE  <<u, v>> \in Q <=> u # v /\ <<v, u>> \notin Q
  <2>1. CASE u # t /\ v # t
    <3>1. <<u, v>> \in C!Without(R, {t}) <=> u # v /\ <<v, u>> \notin C!Without(R, {t})
      BY <1>1, <2>1 DEF C!InOrder
    <3>2. QED
      BY <1>2, <2>1, <3>1
  <2>2. CASE u = t
    <3>1. <<u, v>> \notin Q /\ (<<v, u>> \in Q <=> v # t)
      BY <1>2, <1>3, <2>2
    <3>2. QED
      BY <2>2, <3>1
  <2>3. CASE v = t
    <3>1. <<v, u>> \notin Q /\ (<<u, v>> \in Q <=> u # t)
      BY <1>2, <1>3, <2>3
    <3>2. QED
      BY <2>3, <3>1
  <2>4. QED
    BY <2>1, <2>2, <2>3
<1>6. ASSUME NEW u \in D \cup {t}, NEW v \in D \cup {t}, NEW x \in D \cup {t},
             <<u, v>> \in Q, <<v, x>> \in Q
      PROVE  <<u, x>> \in Q
  BY <1>1, <1>2, <1>3, <1>6 DEF C!InOrder
<1>7. C!InOrder(D \cup {t}, Q)
  BY <1>4, <1>5, <1>6 DEF C!InOrder
<1>8. QED
  BY <1>7 DEF Q

\* There is always an oldest to evict.
LEMMA OldestIsThere ==
  ASSUME NEW D, IsFiniteSet(D), D # {}, NEW R, C!InOrder(D, R)
  PROVE  C!Oldest(D, R) \in D /\ \A u \in D \ {C!Oldest(D, R)} : <<C!Oldest(D, R), u>> \in R
<1> DEFINE Before(t) == {u \in D : <<u, t>> \in R}
           counts == {Cardinality(Before(t)) : t \in D}
<1>1. \A t \in D : IsFiniteSet(Before(t)) /\ Cardinality(Before(t)) \in Nat
  BY FS_Subset, FS_CardinalityType
<1>2. counts \in SUBSET Nat /\ counts # {}
  BY <1>1
<1>3. PICK least \in counts : \A n \in counts : ~ (<<n, least>> \in OpToRel(<, Nat))
  BY <1>2, WFMin, NatLessThanWellFounded
<1>4. PICK t \in D : least = Cardinality(Before(t))
  OBVIOUS
<1>5. ASSUME NEW u \in D, u # t PROVE <<t, u>> \in R
  <2>1. SUFFICES ASSUME <<u, t>> \in R PROVE FALSE
    BY <1>5 DEF C!InOrder
  <2>2. Before(u) \subseteq Before(t)
    BY <2>1 DEF C!InOrder
  <2>3. u \in Before(t) /\ u \notin Before(u)
    BY <1>5, <2>1 DEF C!InOrder
  <2>4. Before(u) # Before(t)
    BY <2>3
  <2>5. Cardinality(Before(u)) < Cardinality(Before(t))
    <3>1. Cardinality(Before(u)) <= Cardinality(Before(t))
          /\ Cardinality(Before(u)) # Cardinality(Before(t))
      BY <1>1, <2>2, <2>4, FS_Subset
    <3>2. QED
      BY <1>1, <3>1
  <2>6. Cardinality(Before(u)) \in counts
    BY <1>5
  <2>7. <<Cardinality(Before(u)), least>> \in OpToRel(<, Nat)
    BY <1>1, <1>4, <2>5 DEF OpToRel
  <2>8. QED
    BY <1>3, <2>6, <2>7
<1>6. QED
  BY <1>5 DEF C!Oldest

-----------------------------------------------------------------------------
(* The cache: types, and one order within the size.                        *)

CacheOK ==
  /\ cache \in [Gateways -> [Topics -> C!Entries \cup {Absent}]]
  /\ older \in [Gateways -> SUBSET (Topics \X Topics)]
  /\ C!OneOrderedDict

\* What one gateway's cache becomes.
LEMMA CacheChange ==
  ASSUME CacheOK, NEW g \in Gateways, NEW row \in [Topics -> C!Entries \cup {Absent}], NEW R,
         cache' = [cache EXCEPT ![g] = row], older' = [older EXCEPT ![g] = R],
         NEW keys, keys = {t \in Topics : row[t] # Absent},
         C!InOrder(keys, R), IsFiniteSet(keys), Cardinality(keys) <= CacheSize
  PROVE  CacheOK' /\ cache'[g] = row /\ \A h \in Gateways \ {g} : cache'[h] = cache[h]
<1>1. /\ cache' \in [Gateways -> [Topics -> C!Entries \cup {Absent}]]
      /\ cache'[g] = row /\ \A h \in Gateways \ {g} : cache'[h] = cache[h]
  BY DEF CacheOK
<1>2. older'[g] = R /\ \A h \in Gateways \ {g} : older'[h] = older[h]
  BY DEF CacheOK
<1>3. C!Cached(g)' = keys /\ \A h \in Gateways \ {g} : C!Cached(h)' = C!Cached(h)
  BY <1>1 DEF C!Cached
<1>4. ASSUME NEW h \in Gateways
      PROVE  /\ C!InOrder(C!Cached(h)', older'[h])
             /\ IsFiniteSet(C!Cached(h)') /\ Cardinality(C!Cached(h)') <= CacheSize
  <2>1. CASE h = g
    BY <1>2, <1>3, <2>1
  <2>2. CASE h # g
    BY <1>2, <1>3, <2>2, CountsAlike DEF CacheOK, C!OneOrderedDict
  <2>3. QED
    BY <2>1, <2>2
<1>5. C!OneOrderedDict'
  BY <1>4, CountsAlike DEF C!OneOrderedDict, C!InOrder
<1>6. older' \in [Gateways -> SUBSET (Topics \X Topics)]
  <2>1. R \in SUBSET (Topics \X Topics)
    BY DEF C!InOrder
  <2>2. QED
    BY <2>1 DEF CacheOK
<1>7. QED
  BY <1>1, <1>5, <1>6 DEF CacheOK

\* A topic more or less.
LEMMA CachedIsBounded ==
  ASSUME CacheOK, NEW g \in Gateways
  PROVE  /\ C!InOrder(C!Cached(g), older[g]) /\ IsFiniteSet(C!Cached(g)) /\ C!Cached(g) \subseteq Topics
         /\ Cardinality(C!Cached(g)) \in Nat /\ Cardinality(C!Cached(g)) <= CacheSize
         /\ \A ts : IsFiniteSet(C!Cached(g) \ ts) /\ Cardinality(C!Cached(g) \ ts) <= CacheSize
<1>1. /\ C!InOrder(C!Cached(g), older[g]) /\ IsFiniteSet(C!Cached(g)) /\ C!Cached(g) \subseteq Topics
      /\ Cardinality(C!Cached(g)) \in Nat /\ Cardinality(C!Cached(g)) <= CacheSize
  <2>1. C!InOrder(C!Cached(g), older[g]) /\ IsFiniteSet(C!Cached(g))
        /\ Cardinality(C!Cached(g)) <= CacheSize
    BY CountsAlike DEF CacheOK, C!OneOrderedDict
  <2>2. C!Cached(g) \subseteq Topics
    BY DEF C!Cached
  <2>3. QED
    BY <2>1, <2>2, FS_CardinalityType
<1>2. ASSUME NEW ts
      PROVE  IsFiniteSet(C!Cached(g) \ ts) /\ Cardinality(C!Cached(g) \ ts) <= CacheSize
  <2>1. C!Cached(g) \ ts \in SUBSET C!Cached(g)
    OBVIOUS
  <2>2. /\ IsFiniteSet(C!Cached(g) \ ts) /\ Cardinality(C!Cached(g) \ ts) \in Nat
        /\ Cardinality(C!Cached(g) \ ts) <= Cardinality(C!Cached(g))
    BY <1>1, <2>1, FS_Subset, FS_CardinalityType
  <2>3. QED
    BY <1>1, <2>2, CacheIsServed
<1>3. QED
  BY <1>1, <1>2

\* Some topics are dropped.
Drops(g, ts, row) ==
  /\ row \in [Topics -> C!Entries \cup {Absent}]
  /\ \A t \in Topics : row[t] = IF t \in ts THEN Absent ELSE cache[g][t]
  /\ cache' = [cache EXCEPT ![g] = row] /\ older' = [older EXCEPT ![g] = C!Without(older[g], ts)]
Dropped(g, ts) ==
  \A h \in Gateways, t \in Topics :
    cache'[h][t] = IF h = g /\ t \in ts THEN Absent ELSE cache[h][t]

\* What is dropped is gone, what is not stays, and so does the order.
LEMMA DropTells ==
  ASSUME CacheOK, NEW g \in Gateways, NEW ts, NEW row, Drops(g, ts, row)
  PROVE  CacheOK' /\ Dropped(g, ts)
<1> DEFINE keys == C!Cached(g) \ ts
           R == C!Without(older[g], ts)
<1>1. keys = {t \in Topics : row[t] # Absent}
  BY DEF C!Cached, Drops
<1>2. C!InOrder(keys, R) /\ IsFiniteSet(keys) /\ Cardinality(keys) <= CacheSize
  BY CachedIsBounded, OrderWithout
<1>3. /\ older' = [older EXCEPT ![g] = R] /\ cache' = [cache EXCEPT ![g] = row]
      /\ row \in [Topics -> C!Entries \cup {Absent}]
  BY DEF Drops
<1> HIDE DEF keys, R
<1>4. CacheOK' /\ cache'[g] = row /\ \A h \in Gateways \ {g} : cache'[h] = cache[h]
  BY <1>1, <1>2, <1>3, CacheChange
<1>5. QED
  BY <1>4 DEF Drops, Dropped

\* A miss drops its topic.
LEMMA MissTells ==
  ASSUME CacheOK, NEW g \in Gateways, NEW t \in Topics, C!Miss(g, t)
  PROVE  CacheOK' /\ Dropped(g, {t})
<1>1. Drops(g, {t}, [cache[g] EXCEPT ![t] = Absent])
  BY DEF C!Miss, Drops, CacheOK
<1>2. QED
  BY <1>1, DropTells

\* A store drops the topics its text names.
LEMMA InvalidateTells ==
  ASSUME CacheOK, NEW g \in Gateways, NEW x, C!InvalidateRelated(g, x)
  PROVE  CacheOK' /\ Dropped(g, C!Related(x))
<1>1. Drops(g, C!Related(x), [u \in Topics |-> IF u \in C!Related(x) THEN Absent ELSE cache[g][u]])
  BY DEF C!InvalidateRelated, Drops, CacheOK
<1>2. QED
  BY <1>1, DropTells

\* A hit changes only how often the entry was hit.
LEMMA TouchTells ==
  ASSUME CacheOK, NEW g \in Gateways, NEW t \in Topics, C!Hit(g, t), C!Touch(g, t)
  PROVE  /\ CacheOK'
         /\ \A h \in Gateways, u \in Topics :
              /\ cache'[h][u] # Absent => cache[h][u] # Absent
              /\ cache'[h][u] # Absent => /\ cache'[h][u].value = cache[h][u].value
                                            /\ cache'[h][u].filler = cache[h][u].filler
<1> DEFINE e == cache[g][t]
           touched == [e EXCEPT !.hits = IF @ = 4 THEN 4 ELSE @ + 1]
           row == [cache[g] EXCEPT ![t] = touched]
<1>1. e \in C!Entries /\ cache[g] \in [Topics -> C!Entries \cup {Absent}]
  BY DEF C!Hit, CacheOK
<1>2. touched \in C!Entries /\ touched.value = e.value /\ touched.filler = e.filler
  BY <1>1 DEF C!Entries
<1>3. cache' = [cache EXCEPT ![g] = row] /\ older' = [older EXCEPT ![g] = C!UsedLast(g, t)]
  BY DEF C!Touch, CacheOK
<1> HIDE DEF e, touched
<1>4. row \in [Topics -> C!Entries \cup {Absent}]
  BY <1>1, <1>2
<1>5. C!Cached(g) = {u \in Topics : row[u] # Absent}
  BY <1>1, <1>2, AbsentIsNoEntry DEF C!Cached, C!Hit
<1>6. C!InOrder(C!Cached(g), C!UsedLast(g, t))
  <2>1. t \in C!Cached(g)
    BY DEF C!Cached, C!Hit
  <2>2. C!Cached(g) \cup {t} = C!Cached(g)
    BY <2>1
  <2>3. C!InOrder(C!Cached(g) \cup {t}, C!UsedLast(g, t))
    BY CachedIsBounded, OrderLast DEF C!UsedLast
  <2>4. QED
    BY <2>2, <2>3
<1> HIDE DEF row
<1>7. CacheOK' /\ cache'[g] = row /\ \A h \in Gateways \ {g} : cache'[h] = cache[h]
  BY <1>3, <1>4, <1>5, <1>6, CachedIsBounded, CacheChange
<1>8. \A u \in Topics : row[u] = IF u = t THEN touched ELSE cache[g][u]
  BY <1>1 DEF row
<1>9. QED
  BY <1>2, <1>7, <1>8 DEF e, C!Hit

\* The new entry takes its place, and the oldest goes when there are too many.
LEMMA PutTells ==
  ASSUME CacheOK, NEW g \in Gateways, NEW t \in Topics, NEW p \in Pulses, C!Put(p, g, t),
         got[p] \in C!Contexts, now \in 0..MaxNow
  PROVE  /\ CacheOK'
         /\ \A h \in Gateways, u \in Topics :
              \/ cache'[h][u] \in {Absent, cache[h][u]}
              \/ h = g /\ u = t /\ cache'[h][u] = C!Fresh(p, g, t)
<1> DEFINE e == C!Fresh(p, g, t)
           keys == C!Cached(g) \cup {t}
           used == C!UsedLast(g, t)
           last == C!Oldest(keys, used)
<1>1. cache[g] \in [Topics -> C!Entries \cup {Absent}] /\ cache[g][t] \in C!Entries \cup {Absent}
  BY DEF CacheOK
<1>2. e \in C!Entries /\ e # Absent
  <2>1. (IF cache[g][t] = Absent THEN 0 ELSE cache[g][t].hits) \in 0..4
    BY <1>1 DEF C!Entries
  <2>2. e \in C!Entries
    BY <2>1 DEF C!Fresh, C!Entries
  <2>3. QED
    BY <2>2, AbsentIsNoEntry
<1>3. C!InOrder(keys, used) /\ IsFiniteSet(keys) /\ Cardinality(keys) \in Nat /\ t \in keys
  BY CachedIsBounded, OrderLast, FS_AddElement, FS_CardinalityType DEF C!UsedLast
<1>4. Cardinality(keys) <= CacheSize + 1
  <2> DEFINE n == Cardinality(C!Cached(g))
  <2>1. n \in Nat /\ n <= CacheSize /\ Cardinality(keys) \in {n, n + 1}
    BY CachedIsBounded, FS_AddElement
  <2> HIDE DEF n
  <2>2. QED
    BY <2>1, CacheIsServed
<1>5. last \in keys
  BY <1>3, OldestIsThere
<1>6. \/ /\ Cardinality(keys) > CacheSize
         /\ cache' = [cache EXCEPT ![g][t] = e, ![g][last] = Absent]
         /\ older' = [older EXCEPT ![g] = C!Without(used, {last})]
      \/ /\ ~(Cardinality(keys) > CacheSize)
         /\ cache' = [cache EXCEPT ![g][t] = e]
         /\ older' = [older EXCEPT ![g] = used]
  BY CountsAlike DEF C!Put
<1>7. keys \subseteq Topics /\ \A u \in Topics : u \in keys <=> u = t \/ cache[g][u] # Absent
  BY DEF C!Cached
<1> HIDE DEF e, keys, used, last
<1>8. CASE /\ Cardinality(keys) > CacheSize
           /\ cache' = [cache EXCEPT ![g][t] = e, ![g][last] = Absent]
           /\ older' = [older EXCEPT ![g] = C!Without(used, {last})]
  <2> DEFINE row == [u \in Topics |-> IF u = last THEN Absent ELSE IF u = t THEN e ELSE cache[g][u]]
  <2>1. cache' = [cache EXCEPT ![g] = row]
    BY <1>1, <1>8 DEF CacheOK
  <2>2. row \in [Topics -> C!Entries \cup {Absent}]
    BY <1>1, <1>2
  <2>3. keys \ {last} = {u \in Topics : row[u] # Absent}
    BY <1>2, <1>7
  <2>4. C!InOrder(keys \ {last}, C!Without(used, {last}))
    BY <1>3, OrderWithout
  <2>5. IsFiniteSet(keys \ {last}) /\ Cardinality(keys \ {last}) <= CacheSize
    <3>1. IsFiniteSet(keys \ {last}) /\ Cardinality(keys \ {last}) = Cardinality(keys) - 1
      BY <1>3, <1>5, FS_RemoveElement
    <3>2. QED
      BY <1>3, <1>4, <3>1, CacheIsServed
  <2>6. \A u \in Topics : row[u] \in {Absent, cache[g][u]} \/ (u = t /\ row[u] = e)
    OBVIOUS
  <2> HIDE DEF row
  <2>7. CacheOK' /\ cache'[g] = row /\ \A h \in Gateways \ {g} : cache'[h] = cache[h]
    BY <1>8, <2>1, <2>2, <2>3, <2>4, <2>5, CacheChange
  <2>8. QED
    BY <2>6, <2>7 DEF e
<1>9. CASE /\ ~(Cardinality(keys) > CacheSize)
           /\ cache' = [cache EXCEPT ![g][t] = e]
           /\ older' = [older EXCEPT ![g] = used]
  <2> DEFINE row == [u \in Topics |-> IF u = t THEN e ELSE cache[g][u]]
  <2>1. cache' = [cache EXCEPT ![g] = row]
    BY <1>1, <1>9 DEF CacheOK
  <2>2. row \in [Topics -> C!Entries \cup {Absent}]
    BY <1>1, <1>2
  <2>3. keys = {u \in Topics : row[u] # Absent}
    BY <1>2, <1>7
  <2>4. Cardinality(keys) <= CacheSize
    BY <1>3, <1>9, CacheIsServed
  <2>5. \A u \in Topics : row[u] = cache[g][u] \/ (u = t /\ row[u] = e)
    OBVIOUS
  <2> HIDE DEF row
  <2>6. CacheOK' /\ cache'[g] = row /\ \A h \in Gateways \ {g} : cache'[h] = cache[h]
    BY <1>3, <1>9, <2>1, <2>2, <2>3, <2>4, CacheChange
  <2>7. QED
    BY <2>5, <2>6 DEF e
<1>10. QED
  BY <1>6, <1>8, <1>9

-----------------------------------------------------------------------------
(* Each action keeps the invariant.                                        *)

States == {"idle", "asking", "composing", "stored", "done", "failed"}

\* The types, without the cache's.
PlainOK ==
  /\ now \in 0..MaxNow /\ memory \in [Topics -> SUBSET Stores]
  /\ pc \in [C!Requests -> States]
  /\ got \in [Pulses -> C!Contexts] /\ source \in [Pulses -> Pulses]
  /\ before \in [Pulses -> SUBSET Stores] /\ met \in [Pulses -> SUBSET Stores]

\* The types, apart: the cache's and the others.
LEMMA TypesAre == C!TypeOK <=> PlainOK /\ CacheOK
BY DEF C!TypeOK, PlainOK, CacheOK, States

\* So after a step.
LEMMA TypesWillBe == C!TypeOK' <=> PlainOK' /\ CacheOK'
BY TypesAre, PTL

\* Who is who.
LEMMA RequestsAre ==
  /\ \A p \in Pulses : p \in C!Requests /\ p \notin Stores /\ at[p] \in Gateways /\ C!Topic(p) \in Topics
  /\ \A w \in Stores : w \in C!Requests /\ w \notin Pulses /\ at[w] \in Gateways
                       /\ Changes[w] \subseteq Topics
BY CacheIsServed DEF C!Requests

\* Before anything is asked.
LEMMA PulseStart == C!Init => PulseInv
<1>1. SUFFICES ASSUME C!Init PROVE PulseInv
  OBVIOUS
<1>2. PlainOK
  BY <1>1, CacheIsServed DEF C!Init, PlainOK, States, C!Contexts
<1>3. CacheOK
  <2>1. \A g \in Gateways : C!Cached(g) = {} /\ older[g] = {}
    BY <1>1 DEF C!Init, C!Cached
  <2>2. C!InOrder({}, {}) /\ IsFiniteSet({}) /\ Cardinality({}) <= CacheSize
    BY FS_EmptySet, CacheIsServed DEF C!InOrder
  <2>3. C!OneOrderedDict
    BY <2>1, <2>2, CountsAlike DEF C!OneOrderedDict
  <2>4. QED
    BY <1>1, <2>3 DEF C!Init, CacheOK
<1>4. QED
  BY <1>1, <1>2, <1>3, TypesAre, RequestsAre
     DEF C!Init, PulseInv, MemoryIsKept, ReturnedIsDone, InFlightIsMet, ReadIsSound, CacheIsSound,
         SourceIsDone, C!StaleOnlyFromOverlap, C!Misses

\* A pulse's step leaves the stores what they are.
LEMMA PulseMoves ==
  ASSUME C!TypeOK, NEW p \in Pulses, NEW s \in States, pc' = [pc EXCEPT ![p] = s]
  PROVE  /\ pc' \in [C!Requests -> States] /\ pc'[p] = s
         /\ \A r \in C!Requests \ {p} : pc'[r] = pc[r]
         /\ (\A w \in Stores : pc'[w] = pc[w]) /\ C!InFlight' = C!InFlight
<1>1. /\ pc' \in [C!Requests -> States] /\ pc'[p] = s
      /\ \A r \in C!Requests \ {p} : pc'[r] = pc[r]
  BY RequestsAre DEF C!TypeOK, States
<1>2. \A w \in Stores : pc'[w] = pc[w]
  BY <1>1, RequestsAre
<1>3. QED
  BY <1>1, <1>2 DEF C!InFlight

\* A pulse that finds a live entry is served its value.
LEMMA HitStep ==
  ASSUME PulseInv, NEW p \in Pulses, pc[p] = "idle", C!Hit(at[p], C!Topic(p)), C!Touch(at[p], C!Topic(p)),
         before' = [before EXCEPT ![p] = {w \in Stores : pc[w] = "done"}],
         pc' = [pc EXCEPT ![p] = "done"],
         got' = [got EXCEPT ![p] = cache[at[p]][C!Topic(p)].value],
         source' = [source EXCEPT ![p] = cache[at[p]][C!Topic(p)].filler],
         UNCHANGED <<met, now, memory>>
  PROVE  PulseInv'
<1> DEFINE g == at[p]
           t == C!Topic(p)
           e == cache[g][t]
<1>1. /\ C!TypeOK /\ PlainOK /\ CacheOK /\ g \in Gateways /\ t \in Topics
      /\ MemoryIsKept /\ ReturnedIsDone /\ InFlightIsMet /\ ReadIsSound
      /\ CacheIsSound /\ SourceIsDone /\ C!StaleOnlyFromOverlap
  BY TypesAre, RequestsAre DEF PulseInv
<1>2. e \in C!Entries /\ e # Absent /\ e.value \in C!Contexts /\ e.filler \in Pulses
  <2>1. e \in C!Entries /\ e # Absent
    BY <1>1 DEF C!Hit, CacheOK
  <2>2. QED
    BY <2>1 DEF C!Entries
<1>3. /\ pc' \in [C!Requests -> States] /\ pc'[p] = "done"
      /\ \A r \in C!Requests \ {p} : pc'[r] = pc[r]
      /\ (\A w \in Stores : pc'[w] = pc[w]) /\ C!InFlight' = C!InFlight
  BY <1>1, PulseMoves DEF States
<1>4. /\ CacheOK'
      /\ \A h \in Gateways, u \in Topics :
           /\ cache'[h][u] # Absent => cache[h][u] # Absent
           /\ cache'[h][u] # Absent => /\ cache'[h][u].value = cache[h][u].value
                                         /\ cache'[h][u].filler = cache[h][u].filler
  BY <1>1, TouchTells
<1>5. /\ got'[p] = e.value /\ source'[p] = e.filler /\ before'[p] = {w \in Stores : pc[w] = "done"}
      /\ \A q \in Pulses \ {p} : got'[q] = got[q] /\ source'[q] = source[q] /\ before'[q] = before[q]
      /\ met' = met /\ memory' = memory
  BY <1>1 DEF PlainOK
<1>6. PlainOK'
  BY <1>1, <1>2, <1>3 DEF PlainOK
<1>7. MemoryIsKept' /\ ReturnedIsDone'
  BY <1>1, <1>3, <1>5 DEF MemoryIsKept, ReturnedIsDone, PlainOK
<1>8. \A w \in Stores, q \in Pulses : Overlapped(w, q)' <=> Overlapped(w, q)
  BY <1>3, <1>5 DEF Overlapped
<1>9. InFlightIsMet' /\ ReadIsSound'
  BY <1>1, <1>3, <1>5, <1>8, RequestsAre DEF InFlightIsMet, ReadIsSound
<1>10. \A q \in Pulses : pc[q] = "done" => pc'[q] = "done" /\ q # p
  BY <1>3, RequestsAre
<1>11. CacheIsSound'
  <2>1. ASSUME NEW h \in Gateways, NEW u \in Topics, cache'[h][u] # Absent
        PROVE  /\ pc'[cache'[h][u].filler] = "done"
               /\ cache'[h][u].value # {ErrorText} =>
                    \A w \in Stores \ cache'[h][u].value :
                      at[w] = h /\ u \in Changes[w] \cap C!Related(about[w])
                        => Overlapped(w, cache[h][u].filler)
               /\ cache'[h][u].filler = cache[h][u].filler /\ cache[h][u].filler \in Pulses
    <3>1. /\ cache[h][u] # Absent /\ cache'[h][u].value = cache[h][u].value
          /\ cache'[h][u].filler = cache[h][u].filler
      BY <1>4, <2>1
    <3>2. cache[h][u].filler \in Pulses
      BY <1>1, <3>1 DEF CacheOK, C!Entries
    <3>3. QED
      BY <1>1, <1>10, <3>1, <3>2 DEF CacheIsSound
  <2>2. QED
    BY <1>8, <2>1 DEF CacheIsSound
<1>12. SourceIsDone'
  <2>1. pc[e.filler] = "done"
    BY <1>1, <1>2 DEF CacheIsSound
  <2>2. QED
    BY <1>1, <1>2, <1>3, <1>5, <1>10, <2>1, RequestsAre DEF SourceIsDone,
       PlainOK
<1>13. C!StaleOnlyFromOverlap'
  <2>1. ASSUME NEW w \in Stores, at[p] = at[w], C!Misses(p, w)'
        PROVE  source'[p] # p /\ (C!Topic(p) \in C!Related(about[w]) => w \in met'[source'[p]])
    <3>1. pc[w] = "done" /\ t \in Changes[w] /\ e.value # {ErrorText} /\ w \notin e.value
      BY <1>5, <2>1 DEF C!Misses
    <3>2. /\ t \in C!Related(about[w]) => Overlapped(w, e.filler)
          /\ pc[e.filler] = "done"
      BY <1>1, <1>2, <2>1, <3>1 DEF CacheIsSound
    <3>3. QED
      BY <1>2, <1>5, <3>1, <3>2 DEF Overlapped
  <2>2. ASSUME NEW q \in Pulses \ {p}, NEW w \in Stores, at[q] = at[w], C!Misses(q, w)'
        PROVE  source'[q] # q /\ (C!Topic(q) \in C!Related(about[w]) => w \in met'[source'[q]])
    <3>1. C!Misses(q, w)
      BY <1>3, <1>5, <2>2, RequestsAre DEF C!Misses
    <3>2. QED
      BY <1>1, <1>5, <2>2, <3>1 DEF C!StaleOnlyFromOverlap
  <2>3. QED
    BY <2>1, <2>2 DEF C!StaleOnlyFromOverlap
<1>14. QED
  BY <1>4, <1>6, <1>7, <1>9, <1>11, <1>12, <1>13, TypesWillBe DEF PulseInv

\* A pulse that finds none asks, and has met the stores in flight.
LEMMA MissStep ==
  ASSUME PulseInv, NEW p \in Pulses, pc[p] = "idle", C!Miss(at[p], C!Topic(p)),
         before' = [before EXCEPT ![p] = {w \in Stores : pc[w] = "done"}],
         NEW s \in {"asking", "failed"}, pc' = [pc EXCEPT ![p] = s],
         met' = [met EXCEPT ![p] = C!InFlight],
         UNCHANGED <<got, source, now, memory>>
  PROVE  PulseInv'
<1>1. /\ C!TypeOK /\ PlainOK /\ CacheOK /\ at[p] \in Gateways /\ C!Topic(p) \in Topics
      /\ MemoryIsKept /\ ReturnedIsDone /\ InFlightIsMet /\ ReadIsSound
      /\ CacheIsSound /\ SourceIsDone /\ C!StaleOnlyFromOverlap
  BY TypesAre, RequestsAre DEF PulseInv
<1>2. /\ pc' \in [C!Requests -> States] /\ pc'[p] = s
      /\ \A r \in C!Requests \ {p} : pc'[r] = pc[r]
      /\ (\A w \in Stores : pc'[w] = pc[w]) /\ C!InFlight' = C!InFlight
  <2>1. s \in States
    BY DEF States
  <2>2. QED
    BY <1>1, <2>1, PulseMoves
<1>3. CacheOK' /\ \A h \in Gateways, u \in Topics : cache'[h][u] \in {Absent, cache[h][u]}
  <2>1. CacheOK' /\ Dropped(at[p], {C!Topic(p)})
    BY <1>1, MissTells
  <2>2. QED
    BY <2>1 DEF Dropped
<1>4. /\ met'[p] = C!InFlight /\ before'[p] = {w \in Stores : pc[w] = "done"}
      /\ \A q \in Pulses \ {p} : met'[q] = met[q] /\ before'[q] = before[q]
      /\ got' = got /\ source' = source /\ memory' = memory
  BY <1>1 DEF PlainOK
<1>5. PlainOK'
  <2>1. C!InFlight \in SUBSET Stores
    BY DEF C!InFlight
  <2>2. QED
    BY <1>1, <1>2, <2>1 DEF PlainOK
<1>6. MemoryIsKept' /\ ReturnedIsDone'
  BY <1>1, <1>2, <1>4 DEF MemoryIsKept, ReturnedIsDone, PlainOK
<1>7. \A w \in Stores, q \in Pulses \ {p} : Overlapped(w, q)' <=> Overlapped(w, q)
  BY <1>2, <1>4 DEF Overlapped
<1>8. InFlightIsMet' /\ ReadIsSound'
  BY <1>1, <1>2, <1>4, <1>7, RequestsAre DEF InFlightIsMet, ReadIsSound
<1>9. \A q \in Pulses : pc[q] = "done" => pc'[q] = "done" /\ q # p
  BY <1>2, RequestsAre
<1>10. CacheIsSound'
  <2>1. ASSUME NEW h \in Gateways, NEW u \in Topics, cache'[h][u] # Absent
        PROVE  /\ pc'[cache'[h][u].filler] = "done"
               /\ cache'[h][u].value # {ErrorText} =>
                    \A w \in Stores \ cache'[h][u].value :
                      at[w] = h /\ u \in Changes[w] \cap C!Related(about[w])
                        => Overlapped(w, cache[h][u].filler)
               /\ cache'[h][u].filler = cache[h][u].filler
               /\ cache[h][u].filler \in Pulses \ {p}
    <3>1. cache[h][u] # Absent /\ cache'[h][u] = cache[h][u]
      BY <1>3, <2>1
    <3>2. cache[h][u].filler \in Pulses
      BY <1>1, <3>1 DEF CacheOK, C!Entries
    <3>3. QED
      BY <1>1, <1>9, <3>1, <3>2 DEF CacheIsSound
  <2>2. QED
    BY <1>7, <2>1 DEF CacheIsSound
<1>11. SourceIsDone'
  BY <1>1, <1>4, <1>9 DEF SourceIsDone, PlainOK
<1>12. C!StaleOnlyFromOverlap'
  <2>1. ASSUME NEW q \in Pulses, NEW w \in Stores, at[q] = at[w], C!Misses(q, w)'
        PROVE  source'[q] # q /\ (C!Topic(q) \in C!Related(about[w]) => w \in met'[source'[q]])
    <3>1. q # p
      BY <1>2, <2>1 DEF C!Misses
    <3>2. C!Misses(q, w)
      BY <1>2, <1>4, <2>1, <3>1, RequestsAre DEF C!Misses
    <3>3. source[q] # q /\ (C!Topic(q) \in C!Related(about[w]) => w \in met[source[q]])
      BY <1>1, <2>1, <3>2 DEF C!StaleOnlyFromOverlap
    <3>4. source[q] \in Pulses \ {p}
      BY <1>1, <1>9, <3>3 DEF SourceIsDone, PlainOK
    <3>5. QED
      BY <1>4, <3>3, <3>4
  <2>2. QED
    BY <2>1 DEF C!StaleOnlyFromOverlap
<1>13. QED
  BY <1>3, <1>5, <1>6, <1>8, <1>10, <1>11, <1>12, TypesWillBe DEF PulseInv

\* What is read lacks no store that had returned: Neuron has it.
LEMMA ReadStep ==
  ASSUME PulseInv, NEW p \in Pulses, C!Read(p)
  PROVE  PulseInv'
<1>1. /\ C!TypeOK /\ PlainOK /\ CacheOK /\ at[p] \in Gateways /\ C!Topic(p) \in Topics
      /\ MemoryIsKept /\ ReturnedIsDone /\ InFlightIsMet /\ ReadIsSound
      /\ CacheIsSound /\ SourceIsDone /\ C!StaleOnlyFromOverlap
  BY TypesAre, RequestsAre DEF PulseInv
<1>2. PICK context \in {memory[C!Topic(p)], {ErrorText}} : got' = [got EXCEPT ![p] = context]
  BY DEF C!Read
<1>3. /\ pc[p] = "asking" /\ pc' \in [C!Requests -> States] /\ pc'[p] = "composing"
      /\ \A r \in C!Requests \ {p} : pc'[r] = pc[r]
      /\ (\A w \in Stores : pc'[w] = pc[w]) /\ C!InFlight' = C!InFlight
  <2>1. "composing" \in States
    BY DEF States
  <2>2. QED
    BY <1>1, <2>1, PulseMoves DEF C!Read
<1>4. /\ got'[p] = context /\ \A q \in Pulses \ {p} : got'[q] = got[q]
      /\ cache' = cache /\ memory' = memory /\ source' = source /\ before' = before /\ met' = met
  BY <1>1, <1>2 DEF PlainOK, C!Read
<1>5. PlainOK' /\ CacheOK'
  <2>1. context \in C!Contexts
    BY <1>1 DEF PlainOK, C!Contexts
  <2>2. now' = now /\ older' = older
    BY DEF C!Read
  <2>3. C!OneOrderedDict' <=> C!OneOrderedDict
    BY <1>4, <2>2 DEF C!OneOrderedDict, C!Cached, C!InOrder
  <2>4. QED
    BY <1>1, <1>2, <1>3, <1>4, <2>1, <2>2, <2>3 DEF PlainOK, CacheOK
<1>6. \A w \in Stores, q \in Pulses : Overlapped(w, q)' <=> Overlapped(w, q)
  BY <1>3, <1>4 DEF Overlapped
<1>7. MemoryIsKept' /\ ReturnedIsDone' /\ InFlightIsMet'
  BY <1>1, <1>3, <1>4, RequestsAre DEF MemoryIsKept, ReturnedIsDone,
     InFlightIsMet, PlainOK
<1>8. ReadIsSound'
  <2>1. ASSUME NEW w \in Stores, w \notin context, context # {ErrorText},
               C!Topic(p) \in Changes[w]
        PROVE  w \notin before[p] /\ Overlapped(w, p)
    <3>1. pc[w] \notin {"stored", "done"}
      BY <1>1, <2>1 DEF MemoryIsKept
    <3>2. pc[w] = "asking" => w \in met[p]
      BY <1>1, <1>3 DEF InFlightIsMet, C!InFlight
    <3>3. QED
      BY <1>1, <3>1, <3>2 DEF ReturnedIsDone, Overlapped
  <2>2. ASSUME NEW q \in Pulses, pc'[q] = "composing", got'[q] # {ErrorText},
               NEW w \in Stores \ got'[q], C!Topic(q) \in Changes[w]
        PROVE  w \notin before[q] /\ Overlapped(w, q)
    <3>1. CASE q = p
      BY <1>4, <2>1, <2>2, <3>1
    <3>2. CASE q # p
      BY <1>1, <1>3, <1>4, <2>2, <3>2, RequestsAre DEF ReadIsSound
    <3>3. QED
      BY <3>1, <3>2
  <2>3. QED
    BY <1>4, <1>6, <2>2 DEF ReadIsSound
<1>9. \A q \in Pulses : pc[q] = "done" <=> pc'[q] = "done"
  BY <1>3, RequestsAre
<1>10. CacheIsSound'
  <2>1. \A h \in Gateways, u \in Topics : cache[h][u] # Absent => cache[h][u].filler \in Pulses
    BY <1>1 DEF CacheOK, C!Entries
  <2>2. QED
    BY <1>1, <1>4, <1>6, <1>9, <2>1 DEF CacheIsSound
<1>11. SourceIsDone'
  BY <1>1, <1>4, <1>9 DEF SourceIsDone, PlainOK
<1>12. C!StaleOnlyFromOverlap'
  <2>1. \A q \in Pulses, w \in Stores : C!Misses(q, w)' => C!Misses(q, w)
    BY <1>3, <1>4, RequestsAre DEF C!Misses
  <2>2. QED
    BY <1>1, <1>4, <2>1 DEF C!StaleOnlyFromOverlap
<1>13. QED
  BY <1>5, <1>7, <1>8, <1>10, <1>11, <1>12, TypesWillBe DEF PulseInv

\* What is composed is a sound entry, and lacks nothing the pulse was owed.
LEMMA ComposeStep ==
  ASSUME PulseInv, NEW p \in Pulses, C!Compose(p)
  PROVE  PulseInv'
<1> DEFINE g == at[p]
           t == C!Topic(p)
<1>1. /\ C!TypeOK /\ PlainOK /\ CacheOK /\ g \in Gateways /\ t \in Topics
      /\ MemoryIsKept /\ ReturnedIsDone /\ InFlightIsMet /\ ReadIsSound
      /\ CacheIsSound /\ SourceIsDone /\ C!StaleOnlyFromOverlap
  BY TypesAre, RequestsAre DEF PulseInv
<1>2. /\ pc[p] = "composing" /\ pc' \in [C!Requests -> States] /\ pc'[p] = "done"
      /\ \A r \in C!Requests \ {p} : pc'[r] = pc[r]
      /\ (\A w \in Stores : pc'[w] = pc[w]) /\ C!InFlight' = C!InFlight
  <2>1. "done" \in States
    BY DEF States
  <2>2. QED
    BY <1>1, <2>1, PulseMoves DEF C!Compose
<1>3. /\ now' = now /\ memory' = memory /\ got' = got /\ source' = source
      /\ before' = before /\ met' = met
  BY DEF C!Compose
<1>4. /\ CacheOK'
      /\ \A h \in Gateways, u \in Topics :
           \/ cache'[h][u] \in {Absent, cache[h][u]}
           \/ h = g /\ u = t /\ cache'[h][u] = C!Fresh(p, g, t)
  <2>1. C!Put(p, g, t) /\ got[p] \in C!Contexts /\ now \in 0..MaxNow
    BY <1>1 DEF C!Compose, PlainOK
  <2>2. QED
    BY <1>1, <2>1, PutTells
<1>5. PlainOK'
  BY <1>1, <1>2, <1>3 DEF PlainOK
<1>6. \A w \in Stores, q \in Pulses : Overlapped(w, q)' <=> Overlapped(w, q)
  BY <1>2, <1>3 DEF Overlapped
<1>7. \A q \in Pulses : pc[q] = "done" => pc'[q] = "done" /\ q # p
  BY <1>2, RequestsAre
<1>8. MemoryIsKept' /\ ReturnedIsDone' /\ InFlightIsMet' /\ ReadIsSound'
  BY <1>1, <1>2, <1>3, <1>6, RequestsAre
     DEF MemoryIsKept, ReturnedIsDone, InFlightIsMet, ReadIsSound, PlainOK
<1>9. CacheIsSound'
  <2>1. ASSUME NEW h \in Gateways, NEW u \in Topics, cache'[h][u] # Absent
        PROVE  /\ cache'[h][u].filler \in Pulses /\ pc'[cache'[h][u].filler] = "done"
               /\ cache'[h][u].value # {ErrorText} =>
                    \A w \in Stores \ cache'[h][u].value :
                      at[w] = h /\ u \in Changes[w] \cap C!Related(about[w])
                        => Overlapped(w, cache'[h][u].filler)
    <3>1. CASE cache'[h][u] = cache[h][u]
      <4>1. cache[h][u].filler \in Pulses
        BY <1>1, <2>1, <3>1 DEF CacheOK, C!Entries
      <4>2. QED
        BY <1>1, <1>7, <2>1, <3>1, <4>1 DEF CacheIsSound
    <3>2. CASE h = g /\ u = t /\ cache'[h][u] = C!Fresh(p, g, t)
      <4>1. cache'[h][u].filler = p /\ cache'[h][u].value = got[p]
        BY <3>2 DEF C!Fresh
      <4>2. QED
        BY <1>1, <1>2, <3>2, <4>1 DEF ReadIsSound
    <3>3. QED
      BY <1>4, <2>1, <3>1, <3>2
  <2>2. QED
    BY <1>6, <2>1 DEF CacheIsSound
<1>10. SourceIsDone'
  BY <1>1, <1>3, <1>7 DEF SourceIsDone, PlainOK
<1>11. C!StaleOnlyFromOverlap'
  <2>1. \A w \in Stores : ~C!Misses(p, w)'
    BY <1>1, <1>2, <1>3 DEF C!Misses, ReadIsSound
  <2>2. \A q \in Pulses \ {p}, w \in Stores : C!Misses(q, w)' => C!Misses(q, w)
    BY <1>2, <1>3, RequestsAre DEF C!Misses
  <2>3. QED
    BY <1>1, <1>3, <2>1, <2>2 DEF C!StaleOnlyFromOverlap
<1>12. QED
  BY <1>4, <1>5, <1>8, <1>9, <1>10, <1>11, TypesWillBe DEF PulseInv

\* Whatever a store that has not returned does, the pulses are where they were,
\* and what was served stays explained.
LEMMA StoreMoves ==
  ASSUME PulseInv, NEW v \in Stores, pc[v] # "done", NEW s \in States, pc' = [pc EXCEPT ![v] = s],
         UNCHANGED <<got, source, before>>, \A q \in Pulses : met[q] \subseteq met'[q]
  PROVE  /\ pc' \in [C!Requests -> States] /\ pc'[v] = s
         /\ \A r \in C!Requests \ {v} : pc'[r] = pc[r]
         /\ \A q \in Pulses : pc'[q] = pc[q]
         /\ ReturnedIsDone' /\ SourceIsDone' /\ C!StaleOnlyFromOverlap'
<1>1. /\ PlainOK /\ ReturnedIsDone /\ SourceIsDone /\ C!StaleOnlyFromOverlap
  BY TypesAre DEF PulseInv
<1>2. /\ pc' \in [C!Requests -> States] /\ pc'[v] = s
      /\ \A r \in C!Requests \ {v} : pc'[r] = pc[r]
  BY <1>1, RequestsAre DEF PlainOK
<1>3. \A q \in Pulses : pc'[q] = pc[q]
  BY <1>2, RequestsAre
<1>4. ReturnedIsDone'
  <2>1. \A q \in Pulses : \A w \in before[q] : w # v /\ w \in Stores /\ pc[w] = "done"
    BY <1>1 DEF ReturnedIsDone, PlainOK
  <2>2. QED
    BY <1>2, <2>1, RequestsAre DEF ReturnedIsDone
<1>5. SourceIsDone'
  BY <1>1, <1>3 DEF SourceIsDone, PlainOK
<1>6. C!StaleOnlyFromOverlap'
  <2>1. \A q \in Pulses, w \in Stores : C!Misses(q, w)' => C!Misses(q, w)
    BY <1>3 DEF C!Misses
  <2>2. \A q \in Pulses : source'[q] = source[q] /\ met[source[q]] \subseteq met'[source'[q]]
    BY <1>1 DEF PlainOK
  <2>3. QED
    BY <1>1, <2>1, <2>2 DEF C!StaleOnlyFromOverlap
<1>7. QED
  BY <1>2, <1>3, <1>4, <1>5, <1>6

\* A store drops what it will outdate, and meets the pulses in flight.
LEMMA BeginStoreStep ==
  ASSUME PulseInv, NEW v \in Stores, C!BeginStore(v)
  PROVE  PulseInv'
<1>1. /\ C!TypeOK /\ PlainOK /\ CacheOK /\ at[v] \in Gateways
      /\ MemoryIsKept /\ ReturnedIsDone /\ InFlightIsMet /\ ReadIsSound
      /\ CacheIsSound
  BY TypesAre, RequestsAre DEF PulseInv
<1>2. /\ pc[v] = "idle"
      /\ now' = now /\ memory' = memory /\ got' = got /\ source' = source /\ before' = before
  BY DEF C!BeginStore
<1>3. \A q \in Pulses :
        /\ met'[q] = IF pc[q] \in {"asking", "composing"} THEN met[q] \cup {v} ELSE met[q]
        /\ met'[q] \subseteq Stores
  BY <1>1 DEF C!BeginStore, PlainOK
<1>4. /\ pc' \in [C!Requests -> States] /\ pc'[v] = "asking"
      /\ \A r \in C!Requests \ {v} : pc'[r] = pc[r]
      /\ \A q \in Pulses : pc'[q] = pc[q]
      /\ ReturnedIsDone' /\ SourceIsDone' /\ C!StaleOnlyFromOverlap'
  <2>1. \A q \in Pulses : met[q] \subseteq met'[q]
    BY <1>3
  <2>2. "asking" \in States /\ pc' = [pc EXCEPT ![v] = "asking"]
    BY DEF States, C!BeginStore
  <2>3. QED
    BY <1>2, <2>1, <2>2, StoreMoves
<1>5. CacheOK' /\ Dropped(at[v], C!Related(about[v]))
  BY <1>1, InvalidateTells DEF C!BeginStore
<1>6. PlainOK'
  <2>1. met' \in [Pulses -> SUBSET Stores]
    BY <1>1, <1>3 DEF C!BeginStore, PlainOK
  <2>2. QED
    BY <1>1, <1>2, <1>4, <2>1 DEF PlainOK
<1>7. \A w \in Stores \ {v}, q \in Pulses : Overlapped(w, q) => Overlapped(w, q)'
  BY <1>3, <1>4, RequestsAre DEF Overlapped
<1>8. MemoryIsKept'
  BY <1>1, <1>2, <1>4, RequestsAre DEF MemoryIsKept
<1>9. InFlightIsMet'
  <2>1. C!InFlight' = C!InFlight \cup {v}
    BY <1>4, RequestsAre DEF C!InFlight
  <2>2. QED
    BY <1>1, <1>3, <1>4, <2>1 DEF InFlightIsMet
<1>10. ReadIsSound'
  <2>1. \A q \in Pulses : pc[q] = "composing" => v \notin before[q] /\ Overlapped(v, q)'
    BY <1>1, <1>2, <1>3 DEF ReturnedIsDone, Overlapped
  <2>2. QED
    BY <1>1, <1>2, <1>4, <1>7, <2>1 DEF ReadIsSound
<1>11. CacheIsSound'
  <2>1. ASSUME NEW h \in Gateways, NEW u \in Topics, cache'[h][u] # Absent
        PROVE  /\ pc'[cache'[h][u].filler] = "done"
               /\ cache'[h][u].value # {ErrorText} =>
                    \A w \in Stores \ cache'[h][u].value :
                      at[w] = h /\ u \in Changes[w] \cap C!Related(about[w])
                        => Overlapped(w, cache[h][u].filler)'
               /\ cache'[h][u].filler = cache[h][u].filler
    <3>1. cache'[h][u] = cache[h][u] /\ ~(h = at[v] /\ u \in C!Related(about[v]))
      BY <1>5, <2>1 DEF Dropped
    <3>2. cache[h][u].filler \in Pulses
      BY <1>1, <2>1, <3>1 DEF CacheOK, C!Entries
    <3>3. QED
      BY <1>1, <1>4, <1>7, <2>1, <3>1, <3>2 DEF CacheIsSound
  <2>2. QED
    BY <2>1 DEF CacheIsSound, Overlapped
<1>12. QED
  BY <1>4, <1>5, <1>6, <1>8, <1>9, <1>10, <1>11, TypesWillBe DEF PulseInv

\* A step that leaves the cache and the clock alone keeps the cache's types.
LEMMA CacheStays ==
  ASSUME CacheOK, UNCHANGED <<cache, older>>
  PROVE  CacheOK'
<1>1. C!OneOrderedDict' <=> C!OneOrderedDict
  BY DEF C!OneOrderedDict, C!Cached, C!InOrder
<1>2. QED
  BY <1>1 DEF CacheOK

\* A store writes, or ends: it is met by those it was met by.
LEMMA StoreEnds ==
  ASSUME PulseInv, NEW v \in Stores, NEW s \in {"stored", "done", "failed"},
         pc[v] \in {"asking", "stored"}, pc' = [pc EXCEPT ![v] = s],
         UNCHANGED <<now, cache, older, got, source, before, met>>,
         memory' \in [Topics -> SUBSET Stores], MemoryIsKept'
  PROVE  PulseInv'
<1>1. /\ C!TypeOK /\ PlainOK /\ CacheOK
      /\ ReturnedIsDone /\ InFlightIsMet /\ ReadIsSound /\ CacheIsSound
  BY TypesAre DEF PulseInv
<1>2. /\ pc' \in [C!Requests -> States] /\ pc'[v] = s
      /\ \A r \in C!Requests \ {v} : pc'[r] = pc[r]
      /\ \A q \in Pulses : pc'[q] = pc[q]
      /\ ReturnedIsDone' /\ SourceIsDone' /\ C!StaleOnlyFromOverlap'
  <2>1. s \in States /\ pc[v] # "done"
    BY DEF States
  <2>2. QED
    BY <2>1, StoreMoves
<1>3. \A w \in Stores, q \in Pulses : Overlapped(w, q) => Overlapped(w, q)'
  BY <1>2, RequestsAre DEF Overlapped
<1>4. PlainOK' /\ CacheOK'
  BY <1>1, <1>2, CacheStays DEF PlainOK
<1>5. InFlightIsMet'
  <2>1. C!InFlight' \subseteq C!InFlight
    BY <1>2, RequestsAre DEF C!InFlight
  <2>2. QED
    BY <1>1, <1>2, <2>1 DEF InFlightIsMet
<1>6. ReadIsSound'
  BY <1>1, <1>2, <1>3 DEF ReadIsSound
<1>7. CacheIsSound'
  <2>1. \A h \in Gateways, u \in Topics : cache[h][u] # Absent => cache[h][u].filler \in Pulses
    BY <1>1 DEF CacheOK, C!Entries
  <2>2. QED
    BY <1>1, <1>2, <1>3, <2>1 DEF CacheIsSound
<1>8. QED
  BY <1>2, <1>4, <1>5, <1>6, <1>7, TypesWillBe DEF PulseInv

\* Neuron's write reaches every topic it changes.
LEMMA WriteStep ==
  ASSUME PulseInv, NEW v \in Stores, C!Write(v)
  PROVE  PulseInv'
<1>1. PlainOK /\ MemoryIsKept
  BY TypesAre DEF PulseInv
<1>2. /\ pc[v] \in {"asking", "stored"} /\ pc' = [pc EXCEPT ![v] = "stored"]
      /\ UNCHANGED <<now, cache, older, got, source, before, met>>
      /\ \A t \in Topics : memory'[t] = IF t \in Changes[v]
                                        THEN memory[t] \cup {v} ELSE memory[t]
  BY DEF C!Write
<1>3. memory' \in [Topics -> SUBSET Stores]
  BY <1>1 DEF C!Write, PlainOK
<1>4. MemoryIsKept'
  <2>1. \A w \in Stores : w # v => pc'[w] = pc[w]
    BY <1>1, <1>2, RequestsAre DEF PlainOK
  <2>2. QED
    BY <1>1, <1>2, <2>1, RequestsAre DEF MemoryIsKept
<1>5. QED
  BY <1>2, <1>3, <1>4, StoreEnds

\* A store returns only after the write, and may fail at any time.
LEMMA EndStoreStep ==
  ASSUME PulseInv, NEW v \in Stores, C!EndStore(v)
  PROVE  PulseInv'
<1>1. PlainOK /\ MemoryIsKept
  BY TypesAre DEF PulseInv
<1>2. PICK s \in {"done", "failed"} :
        /\ pc[v] \in {"asking", "stored"} /\ pc' = [pc EXCEPT ![v] = s]
        /\ s = "done" => pc[v] = "stored"
  BY DEF C!EndStore
<1>3. UNCHANGED <<now, memory, cache, older, got, source, before, met>>
  BY DEF C!EndStore
<1>4. memory' \in [Topics -> SUBSET Stores]
  BY <1>1, <1>3 DEF PlainOK
<1>5. MemoryIsKept'
  <2>1. /\ pc'[v] = s /\ \A w \in Stores : w # v => pc'[w] = pc[w]
    BY <1>1, <1>2, RequestsAre DEF PlainOK
  <2>2. QED
    BY <1>1, <1>2, <1>3, <2>1 DEF MemoryIsKept
<1>6. QED
  BY <1>2, <1>3, <1>4, <1>5, StoreEnds

\* Time expires entries, which no part of the invariant minds.
LEMMA ClockStep ==
  ASSUME PulseInv, now' \in 0..MaxNow,
         UNCHANGED <<memory, cache, older, pc, got, source, before, met>>
  PROVE  PulseInv'
<1>1. PlainOK /\ CacheOK
  BY TypesAre DEF PulseInv
<1>2. PlainOK' /\ CacheOK'
  BY <1>1, CacheStays DEF PlainOK
<1>3. QED
  BY <1>2, TypesWillBe
     DEF PulseInv, MemoryIsKept, ReturnedIsDone, InFlightIsMet, C!InFlight, ReadIsSound,
         CacheIsSound, Overlapped, SourceIsDone, C!StaleOnlyFromOverlap, C!Misses

\* Every step keeps the invariant.
LEMMA PulseStep == PulseInv /\ (C!Next \/ UNCHANGED pulses) => PulseInv'
<1>1. SUFFICES ASSUME PulseInv, C!Next \/ UNCHANGED pulses PROVE PulseInv'
  OBVIOUS
<1>2. ASSUME NEW p \in Pulses, C!BeginPulse(p) PROVE PulseInv'
  <2>1. CASE C!Hit(at[p], C!Topic(p))
    BY <1>1, <1>2, <2>1, HitStep DEF C!BeginPulse
  <2>2. CASE ~C!Hit(at[p], C!Topic(p))
    <3>1. PICK s \in {"asking", "failed"} : pc' = [pc EXCEPT ![p] = s]
      BY <1>2, <2>2 DEF C!BeginPulse
    <3>2. QED
      BY <1>1, <1>2, <2>2, <3>1, MissStep DEF C!BeginPulse
  <2>3. QED
    BY <2>1, <2>2
<1>3. ASSUME NEW p \in Pulses, C!Read(p) \/ C!Compose(p) PROVE PulseInv'
  BY <1>1, <1>3, ReadStep, ComposeStep
<1>4. ASSUME NEW w \in Stores, C!BeginStore(w) \/ C!Write(w) \/ C!EndStore(w) PROVE PulseInv'
  BY <1>1, <1>4, BeginStoreStep, WriteStep, EndStoreStep
<1>5. CASE C!Tick
  <2>1. now' \in 0..MaxNow
    <3>1. now \in 0..MaxNow
      BY <1>1 DEF PulseInv, C!TypeOK
    <3>2. QED
      BY <1>5, <3>1, CacheIsServed DEF C!Tick
  <2>2. QED
    BY <1>1, <1>5, <2>1, ClockStep DEF C!Tick
<1>6. CASE UNCHANGED pulses
  BY <1>1, <1>6, ClockStep DEF PulseInv, C!TypeOK, pulses
<1>7. QED
  BY <1>1, <1>2, <1>3, <1>4, <1>5, <1>6 DEF C!Next

-----------------------------------------------------------------------------
(* Panel: the inductive invariant.                                         *)

\* A command that a thread of the open panel is still about.
UnderWay(i) == cmd[i].at \in {"free", "shown", "spawned", "noted", "over"}

\* How far a command's threads are tells what its process and its installer can
\* be; one that works without its panel was left by it.  They begin in order.
ThreadsTell ==
  \A i \in P!Starts :
    /\ cmd[i].at \in {"no", "free", "shown"} => child[i] = "none"
    /\ cmd[i].at \in {"spawned", "noted"} => child[i] \in {"live", "ok", "err"}
    /\ cmd[i].at \in {"over", "done"} => child[i] \in {"ok", "err", "failed"} /\ inst[i] # "live"
    /\ child[i] \in {"none", "failed"} => inst[i] = "none"
    /\ inst[i] # "none" => cmd[i].key \in Logged
    /\ UnderWay(i) => up
    /\ cmd[i].at = "lost" /\ P!Works(i) => cmd[i].key \in left
    /\ \A j \in P!Starts : j > i /\ cmd[i].at = "no" => cmd[j].at = "no"

\* The child known for a key has been noted.
KnownAreNoted ==
  \A k \in Keys : procs[k] # 0 => cmd[procs[k]].at \in {"noted", "over", "done"}

\* Unless its key was raced for, a command under way is the only one of its key and
\* the last, is shown until it is over, and is the one that is known.
OneUnderWay ==
  \A i \in P!Starts : UnderWay(i) /\ cmd[i].key \notin raced =>
    /\ \A j \in P!Starts \ {i} : UnderWay(j) => cmd[j].key # cmd[i].key
    /\ \A j \in P!Starts : j > i /\ cmd[j].key = cmd[i].key => cmd[j].at = "no"
    /\ cmd[i].at # "free" => cmd[i].key \in running
    /\ cmd[i].at = "noted" => procs[cmd[i].key] = i

\* A log is of a command that was shown; unless its key was raced for, it is of
\* the one under way, and has an exit line when that one is over, or that one goes
\* on without a log.
LogTells(k) ==
  /\ log[k].by = 0 => log[k].exit = "none"
  /\ log[k].by # 0 => cmd[log[k].by].key = k /\ cmd[log[k].by].at \notin {"no", "free"}
  /\ \A i \in P!Starts \ mute : cmd[i].key = k /\ cmd[i].at \in {"shown", "spawned", "noted"} =>
       /\ log[k].by # 0
       /\ k \notin raced => log[k].by = i /\ log[k].exit = "none"
  /\ k \notin raced =>
       /\ log[k].exit # "none" =>
            /\ cmd[log[k].by].at \in {"over", "done", "lost"}
            /\ child[log[k].by] = log[k].exit /\ ~P!Works(log[k].by)
       /\ log[k].by # 0 /\ log[k].exit = "none" /\ cmd[log[k].by].at \in {"over", "done"} =>
            child[log[k].by] = "failed" \/ log[k].by \in mute
       /\ \A j \in P!Starts : log[k].by # 0 /\ j > log[k].by /\ cmd[j].key = k /\ child[j] # "none" =>
            j \in mute

LogsTell == \A k \in Logged : LogTells(k)

PanelInv == P!TypeOK /\ ThreadsTell /\ KnownAreNoted /\ OneUnderWay /\ LogsTell

-----------------------------------------------------------------------------
(* Panel: each action keeps the invariant.                                 *)

\* Before anything is started.
LEMMA PanelStart == P!Init => PanelInv
<1>1. SUFFICES ASSUME P!Init PROVE PanelInv
  OBVIOUS
<1>2. (CHOOSE k \in Keys : TRUE) \in Keys
  BY LoggedAreKeys
<1>3. P!TypeOK
  BY <1>1, <1>2, Bounds DEF P!Init, P!TypeOK, P!OneAfterAnother, P!Ats
<1>4. QED
  BY <1>1, <1>3 DEF P!Init, PanelInv, ThreadsTell, KnownAreNoted, OneUnderWay, UnderWay, LogsTell, LogTells

\* Whatever happens, the child known for a key is one that was started, and so
\* is the one a log is of.
LEMMA KnownAreStarts ==
  ASSUME P!TypeOK
  PROVE  /\ \A k \in Keys : procs[k] # 0 => procs[k] \in P!Starts
         /\ \A k \in Logged : k \in Keys /\ (log[k].by # 0 => log[k].by \in P!Starts)
         /\ \A i \in P!Starts : cmd[i].key \in Keys /\ i # 0
<1>1. \A n \in 0..MaxStarts : n # 0 => n \in P!Starts
  BY DEF P!Starts
<1>2. \A k \in Keys : procs[k] # 0 => procs[k] \in P!Starts
  BY <1>1 DEF P!TypeOK
<1>3. \A k \in Logged : k \in Keys /\ (log[k].by # 0 => log[k].by \in P!Starts)
  BY <1>1, LoggedAreKeys DEF P!TypeOK
<1>4. \A i \in P!Starts : cmd[i].key \in Keys /\ i # 0
  BY DEF P!TypeOK, P!Starts
<1>5. QED
  BY <1>2, <1>3, <1>4

\* A command moves on, and no other does.
LEMMA Moves ==
  ASSUME P!TypeOK, NEW i \in P!Starts, NEW a \in P!Ats, P!Goes(i, a)
  PROVE  /\ cmd' \in [P!Starts -> [key : Keys, at : P!Ats]]
         /\ cmd'[i].at = a /\ \A j \in P!Starts : cmd'[j].key = cmd[j].key /\ cmd[j].key \in Keys
         /\ \A j \in P!Starts \ {i} : cmd'[j].at = cmd[j].at
BY DEF P!TypeOK, P!Goes

\* A request that is let through.
LEMMA CheckStep ==
  ASSUME PanelInv, NEW k \in Keys, P!Check(k)
  PROVE  PanelInv'
<1>1. /\ P!TypeOK /\ ThreadsTell /\ KnownAreNoted /\ OneUnderWay /\ LogsTell
  BY DEF PanelInv
<1>2. PICK i \in P!Starts :
        /\ up /\ cmd[i].at = "no" /\ \A j \in 1..(i - 1) : cmd[j].at # "no"
        /\ cmd' = [cmd EXCEPT ![i] = [key |-> k, at |-> "free"]]
        /\ raced' = IF \E j \in P!Starts : /\ cmd[j].key = k /\ cmd[j].at \notin {"no", "done", "lost"}
                                           /\ ~(cmd[j].at = "noted" /\ P!Live(j))
                    THEN raced \cup {k} ELSE raced
  BY DEF P!Check
<1>3. UNCHANGED <<up, child, inst, waits, typed, procs, running, shown, log, mute, failed, left>> /\ ~P!Busy(k)
  BY DEF P!Check
<1>4. /\ cmd' \in [P!Starts -> [key : Keys, at : P!Ats]]
      /\ cmd'[i].at = "free" /\ cmd'[i].key = k
      /\ \A j \in P!Starts \ {i} : cmd'[j] = cmd[j]
  BY <1>1, <1>2 DEF P!TypeOK, P!Ats
<1>5. \A l \in Keys : procs[l] # 0 => procs[l] \in P!Starts \ {i}
  BY <1>1, <1>2 DEF P!TypeOK, KnownAreNoted, P!Starts
<1>6. P!TypeOK'
  <2>1. \A l \in Keys : procs[l] # 0 => cmd'[procs[l]].key = l
    BY <1>1, <1>4, <1>5 DEF P!TypeOK
  <2>2. raced' \subseteq Keys
    BY <1>1, <1>2 DEF P!TypeOK
  <2>3. QED
    BY <1>1, <1>2, <1>3, <1>4, <2>1, <2>2 DEF P!TypeOK, P!OneAfterAnother
<1>12. /\ \A j \in P!Starts : j > i => cmd[j].at = "no"
       /\ \A j \in P!Starts : i > j => cmd[j].at # "no"
       /\ child[i] = "none"
  <2>1. \A j \in P!Starts : i > j => j \in 1..(i - 1)
    BY Bounds DEF P!Starts
  <2>2. QED
    BY <1>1, <1>2, <2>1 DEF ThreadsTell
<1>7. ThreadsTell'
  BY <1>1, <1>2, <1>3, <1>4, <1>12 DEF ThreadsTell, UnderWay, P!Works, P!Live
<1>8. KnownAreNoted'
  BY <1>1, <1>3, <1>4, <1>5 DEF KnownAreNoted
<1>9. OneUnderWay'
  <2>1. ASSUME NEW j \in P!Starts, UnderWay(j), cmd[j].key = k, k \notin raced' PROVE FALSE
    <3>1. cmd[j].at = "noted" /\ P!Live(j) /\ k \notin raced
      BY <1>2, <2>1 DEF UnderWay
    <3>2. procs[k] = j
      BY <1>1, <2>1, <3>1 DEF OneUnderWay
    <3>3. QED
      BY <1>3, <3>1, <3>2 DEF P!Busy, P!Polls, P!Starts
  <2>2. ASSUME NEW j \in P!Starts \ {i}, UnderWay(j), cmd[j].key \notin raced'
        PROVE  cmd[j].key # k /\ \A l \in P!Starts : l > j /\ cmd'[l].key = cmd[j].key => cmd'[l].at = "no"
    <3>1. cmd[j].key # k /\ cmd[j].key \notin raced
      BY <1>2, <2>1, <2>2
    <3>2. QED
      BY <1>1, <1>4, <2>2, <3>1 DEF OneUnderWay
  <2>3. \A j \in P!Starts : j > i => cmd'[j].at = "no"
    BY <1>4, <1>12, Bounds DEF P!Starts
  <2>4. QED
    BY <1>1, <1>2, <1>3, <1>4, <2>1, <2>2, <2>3 DEF OneUnderWay, UnderWay
<1>10. LogsTell'
  <2>1. \A l \in Logged : log[l].by # 0 => log[l].by \in P!Starts \ {i}
    BY <1>1, <1>2 DEF P!TypeOK, LogsTell, LogTells, P!Starts
  <2>2. \A l \in Logged : log[l].exit # "none" => log[l].by # 0
    BY <1>1 DEF LogsTell, LogTells
  <2>3. raced \subseteq raced'
    BY <1>2
  <2>4. QED
    BY <1>1, <1>2, <1>3, <1>4, <1>12, <2>1, <2>2, <2>3 DEF LogsTell, LogTells, P!Works, P!Live
<1>11. QED
  BY <1>6, <1>7, <1>8, <1>9, <1>10 DEF PanelInv

\* A command is put among those shown, last.
LEMMA ShownInOrder ==
  ASSUME P!OneAfterAnother, NEW k, k \notin running, P!PutIn(k)
  PROVE  P!OneAfterAnother'
BY DEF P!OneAfterAnother, P!PutIn

\* A command is shown, and its log opened.
LEMMA ShowStep ==
  ASSUME PanelInv, NEW i \in P!Starts, P!Show(i)
  PROVE  PanelInv'
<1> DEFINE k == cmd[i].key
<1>1. /\ P!TypeOK /\ ThreadsTell /\ KnownAreNoted /\ OneUnderWay /\ LogsTell
  BY DEF PanelInv
<1>2. /\ up /\ cmd[i].at = "free" /\ P!Goes(i, "shown")
      /\ running' = running \cup {k}
      /\ UNCHANGED <<up, child, inst, waits, typed, procs, raced, left>>
  BY DEF P!Show, P!At, P!PutIn
<1>3. /\ cmd' \in [P!Starts -> [key : Keys, at : P!Ats]]
      /\ cmd'[i].at = "shown"
      /\ \A j \in P!Starts : cmd'[j].key = cmd[j].key /\ cmd[j].key \in Keys
      /\ \A j \in P!Starts \ {i} : cmd'[j].at = cmd[j].at
  <2>1. "shown" \in P!Ats
    BY DEF P!Ats
  <2>2. QED
    BY <1>1, <1>2, <2>1, Moves
<1>4. P!OneAfterAnother'
  <2>1. CASE k \in running
    BY <1>1, <2>1 DEF P!Show, P!TypeOK, P!OneAfterAnother
  <2>2. CASE k \notin running
    BY <1>1, <2>2, ShownInOrder DEF P!Show, P!TypeOK
  <2>3. QED
    BY <2>1, <2>2
<1>5. /\ log' \in [Logged -> [by : 0..MaxStarts, exit : {"none", "ok", "err"}]]
      /\ \A l \in Logged \ {k} : log'[l] = log[l]
      /\ k \in Logged => \/ log'[k] = [by |-> i, exit |-> "none"]
                         \/ log'[k] = log[k] /\ i \in mute'
      /\ mute' \in {mute, mute \cup {i}} /\ failed' \in 0..MaxFaults
  <2>1. /\ failed' = failed \/ P!Fault
        /\ \/ log' = log /\ (k \in Logged => i \in mute')
           \/ k \in Logged /\ log' = [log EXCEPT ![k] = [by |-> i, exit |-> "none"]]
        /\ mute' \in {mute, mute \cup {i}}
    BY DEF P!Show
  <2>2. failed' \in 0..MaxFaults
    BY <1>1, <2>1, Bounds DEF P!Fault, P!TypeOK
  <2>3. i \in 0..MaxStarts
    BY DEF P!Starts
  <2>4. CASE log' = log /\ (k \in Logged => i \in mute')
    BY <1>1, <2>1, <2>2, <2>4 DEF P!TypeOK
  <2>5. CASE k \in Logged /\ log' = [log EXCEPT ![k] = [by |-> i, exit |-> "none"]]
    BY <1>1, <2>1, <2>2, <2>3, <2>5 DEF P!TypeOK
  <2>6. QED
    BY <2>1, <2>4, <2>5
<1>6. P!TypeOK'
  <2>1. \A l \in Keys : procs'[l] # 0 => cmd'[procs'[l]].key = l
    <3>1. \A l \in Keys : procs[l] # 0 => procs[l] \in P!Starts
      BY <1>1 DEF P!TypeOK, P!Starts
    <3>2. QED
      BY <1>1, <1>2, <1>3, <3>1 DEF P!TypeOK
  <2>2. QED
    BY <1>1, <1>2, <1>3, <1>4, <1>5, <2>1 DEF P!TypeOK
<1>7. ThreadsTell'
  BY <1>1, <1>2, <1>3 DEF ThreadsTell, UnderWay, P!Works, P!Live
<1>8. KnownAreNoted'
  BY <1>1, <1>2, <1>3 DEF KnownAreNoted, P!TypeOK, P!Starts
<1>9. OneUnderWay'
  BY <1>1, <1>2, <1>3 DEF OneUnderWay, UnderWay
<1>10. LogsTell'
  <2>1. \A l \in Logged : log[l].by # 0 => log[l].by \in P!Starts \ {i}
    BY <1>1, <1>2, KnownAreStarts DEF LogsTell, LogTells
  <2>2. ASSUME k \notin raced, NEW j \in P!Starts \ {i}, cmd[j].key = k
        PROVE  cmd[j].at \notin {"shown", "spawned", "noted"} /\ (j > i => child[j] = "none")
    BY <1>1, <1>2, <2>2 DEF OneUnderWay, UnderWay, ThreadsTell
  <2>3. child[i] = "none" /\ i # 0
    BY <1>1, <1>2 DEF ThreadsTell, P!Starts
  <2>4. ASSUME NEW l \in Logged, log'[l] = log[l], l = k => i \in mute' PROVE LogTells(l)'
    BY <1>1, <1>2, <1>3, <1>5, <2>1, <2>3, <2>4 DEF LogsTell, LogTells, P!Works, P!Live
  <2>5. ASSUME NEW l \in Logged, l = k, log'[l] = [by |-> i, exit |-> "none"] PROVE LogTells(l)'
    <3>1. log'[l].by = i /\ log'[l].exit = "none"
      BY <2>5
    <3>2. \A j \in P!Starts : cmd'[j].key = l /\ cmd'[j].at \in {"shown", "spawned", "noted"} /\ l \notin raced
            => j = i
      BY <1>3, <2>2, <2>5
    <3>3. \A j \in P!Starts : j > i /\ cmd'[j].key = l /\ l \notin raced => child'[j] = "none"
      BY <1>2, <1>3, <2>2, <2>3, <2>5
    <3>4. QED
      BY <1>2, <1>3, <2>3, <2>5, <3>1, <3>2, <3>3 DEF LogTells
  <2>6. ASSUME NEW l \in Logged PROVE LogTells(l)'
    <3>1. CASE l # k
      BY <1>5, <2>4, <3>1
    <3>2. CASE l = k /\ log'[l] = [by |-> i, exit |-> "none"]
      BY <2>5, <3>2
    <3>3. CASE l = k /\ log'[l] = log[l] /\ i \in mute'
      BY <2>4, <3>3
    <3>4. QED
      BY <1>5, <3>1, <3>2, <3>3
  <2>7. QED
    BY <2>6 DEF LogsTell
<1>11. QED
  BY <1>6, <1>7, <1>8, <1>9, <1>10 DEF PanelInv

\* The child is there, or could not be spawned.
LEMMA SpawnStep ==
  ASSUME PanelInv, NEW i \in P!Starts, P!Spawn(i)
  PROVE  PanelInv'
<1>1. /\ P!TypeOK /\ ThreadsTell /\ KnownAreNoted /\ OneUnderWay /\ LogsTell
  BY DEF PanelInv
<1>2. PICK a \in {"spawned", "over"} :
        /\ up /\ cmd[i].at = "shown" /\ P!Goes(i, a)
        /\ child' = [child EXCEPT ![i] = IF a = "spawned" THEN "live" ELSE "failed"]
        /\ failed' \in 0..MaxFaults
        /\ UNCHANGED <<up, inst, waits, typed, procs, running, shown, log, mute, raced, left>>
  BY <1>1, Bounds DEF P!Spawn, P!At, P!Fault, P!TypeOK
<1>3. /\ cmd' \in [P!Starts -> [key : Keys, at : P!Ats]]
      /\ cmd'[i].at = a
      /\ \A j \in P!Starts : cmd'[j].key = cmd[j].key /\ cmd[j].key \in Keys
      /\ \A j \in P!Starts \ {i} : cmd'[j].at = cmd[j].at
  <2>1. a \in P!Ats
    BY DEF P!Ats
  <2>2. QED
    BY <1>1, <1>2, <2>1, Moves
<1>4. /\ child' \in [P!Starts -> {"none", "live", "ok", "err", "failed"}]
      /\ child'[i] = (IF a = "spawned" THEN "live" ELSE "failed")
      /\ child[i] = "none" /\ inst[i] = "none"
      /\ \A j \in P!Starts \ {i} : child'[j] = child[j]
  BY <1>1, <1>2 DEF P!TypeOK, ThreadsTell
<1>5. P!TypeOK'
  <2>1. waits \subseteq {j \in P!Starts : child'[j] = "live"}
    BY <1>1, <1>4 DEF P!TypeOK
  <2>2. \A l \in Keys : procs[l] # 0 => cmd'[procs[l]].key = l
    BY <1>1, <1>3, KnownAreStarts DEF P!TypeOK
  <2>3. QED
    BY <1>1, <1>2, <1>3, <1>4, <2>1, <2>2 DEF P!TypeOK, P!OneAfterAnother
<1>6. ThreadsTell'
  BY <1>1, <1>2, <1>3, <1>4 DEF ThreadsTell, UnderWay, P!Works, P!Live
<1>7. KnownAreNoted'
  BY <1>1, <1>2, <1>3, KnownAreStarts DEF KnownAreNoted
<1>8. OneUnderWay'
  BY <1>1, <1>2, <1>3 DEF OneUnderWay, UnderWay
<1>9. LogsTell'
  <2>1. ASSUME NEW k \in Logged, log[k].by = i, k \notin raced
        PROVE  log[k].exit = "none"
    BY <1>1, <1>2, <2>1 DEF LogsTell, LogTells
  <2>2. ASSUME NEW k \in Logged, cmd[i].key = k, k \notin raced, i \notin mute
        PROVE  ~(i > log[k].by)
    BY <1>1, <1>2, <2>2, KnownAreStarts DEF LogsTell, LogTells, P!Starts
  <2>3. QED
    BY <1>1, <1>2, <1>3, <1>4, <2>1, <2>2, KnownAreStarts DEF LogsTell, LogTells, P!Works, P!Live
<1>10. QED
  BY <1>5, <1>6, <1>7, <1>8, <1>9 DEF PanelInv

\* The child is known.
LEMMA NoteStep ==
  ASSUME PanelInv, NEW i \in P!Starts, P!Note(i)
  PROVE  PanelInv'
<1>1. /\ P!TypeOK /\ ThreadsTell /\ KnownAreNoted /\ OneUnderWay /\ LogsTell
  BY DEF PanelInv
<1>2. /\ up /\ cmd[i].at = "spawned" /\ P!Goes(i, "noted")
      /\ procs' = [procs EXCEPT ![cmd[i].key] = i]
      /\ UNCHANGED <<up, child, inst, waits, typed, running, shown, log, mute, failed, raced, left>>
  BY DEF P!Note, P!At
<1>3. /\ cmd' \in [P!Starts -> [key : Keys, at : P!Ats]]
      /\ cmd'[i].at = "noted"
      /\ \A j \in P!Starts : cmd'[j].key = cmd[j].key /\ cmd[j].key \in Keys
      /\ \A j \in P!Starts \ {i} : cmd'[j].at = cmd[j].at
  <2>1. "noted" \in P!Ats
    BY DEF P!Ats
  <2>2. QED
    BY <1>1, <1>2, <2>1, Moves
<1>4. /\ procs' \in [Keys -> 0..MaxStarts]
      /\ \A k \in Keys : procs'[k] = IF k = cmd[i].key THEN i ELSE procs[k]
  BY <1>1, <1>2, <1>3 DEF P!TypeOK, P!Starts
<1>5. P!TypeOK'
  <2>1. \A l \in Keys : procs'[l] # 0 => cmd'[procs'[l]].key = l
    BY <1>1, <1>3, <1>4, KnownAreStarts DEF P!TypeOK
  <2>2. QED
    BY <1>1, <1>2, <1>3, <1>4, <2>1 DEF P!TypeOK, P!OneAfterAnother
<1>6. ThreadsTell'
  BY <1>1, <1>2, <1>3 DEF ThreadsTell, UnderWay, P!Works, P!Live
<1>7. KnownAreNoted'
  BY <1>1, <1>2, <1>3, <1>4, KnownAreStarts DEF KnownAreNoted
<1>8. OneUnderWay'
  BY <1>1, <1>2, <1>3, <1>4 DEF OneUnderWay, UnderWay
<1>9. LogsTell'
  BY <1>1, <1>2, <1>3, KnownAreStarts DEF LogsTell, LogTells, P!Works, P!Live
<1>10. QED
  BY <1>5, <1>6, <1>7, <1>8, <1>9 DEF PanelInv

\* The end of the output is reached, and the exit code logged.
LEMMA FollowStep ==
  ASSUME PanelInv, NEW i \in P!Starts, P!Follow(i)
  PROVE  PanelInv'
<1> DEFINE k == cmd[i].key
<1>1. /\ P!TypeOK /\ ThreadsTell /\ KnownAreNoted /\ OneUnderWay /\ LogsTell
  BY DEF PanelInv
<1>2. /\ up /\ cmd[i].at = "noted" /\ P!Goes(i, "over") /\ ~P!Works(i)
      /\ UNCHANGED <<up, child, inst, waits, typed, procs, running, shown, raced, left>>
  BY DEF P!Follow, P!At, P!AtEnd
<1>3. /\ cmd' \in [P!Starts -> [key : Keys, at : P!Ats]]
      /\ cmd'[i].at = "over"
      /\ \A j \in P!Starts : cmd'[j].key = cmd[j].key /\ cmd[j].key \in Keys
      /\ \A j \in P!Starts \ {i} : cmd'[j].at = cmd[j].at
  <2>1. "over" \in P!Ats
    BY DEF P!Ats
  <2>2. QED
    BY <1>1, <1>2, <2>1, Moves
<1>4. child[i] \in {"ok", "err"}
  BY <1>1, <1>2 DEF ThreadsTell, P!Works, P!Live
<1>5. /\ log' \in [Logged -> [by : 0..MaxStarts, exit : {"none", "ok", "err"}]]
      /\ \A l \in Logged : /\ log'[l].by = log[l].by
                           /\ log'[l].exit = log[l].exit \/ (l = k /\ log'[l].exit = child[i])
      /\ mute' \in {mute, mute \cup {i}} /\ failed' \in 0..MaxFaults
      /\ \/ log' = log /\ (k \in Logged => i \in mute')
         \/ k \in Logged /\ log'[k].exit = child[i] /\ i \notin mute
  <2>1. /\ failed' = failed \/ P!Fault
        /\ mute' \in {mute, mute \cup {i}}
        /\ \/ log' = log /\ (k \in Logged => i \in mute')
           \/ k \in Logged /\ i \notin mute /\ log' = [log EXCEPT ![k].exit = child[i]]
    BY DEF P!Follow
  <2>2. failed' \in 0..MaxFaults
    BY <1>1, <2>1, Bounds DEF P!Fault, P!TypeOK
  <2>3. CASE log' = log /\ (k \in Logged => i \in mute')
    BY <1>1, <2>1, <2>2, <2>3 DEF P!TypeOK
  <2>4. CASE k \in Logged /\ i \notin mute /\ log' = [log EXCEPT ![k].exit = child[i]]
    BY <1>1, <1>4, <2>1, <2>2, <2>4 DEF P!TypeOK
  <2>5. QED
    BY <2>1, <2>3, <2>4
<1>6. P!TypeOK'
  <2>1. \A l \in Keys : procs[l] # 0 => cmd'[procs[l]].key = l
    BY <1>1, <1>3, KnownAreStarts DEF P!TypeOK
  <2>2. QED
    BY <1>1, <1>2, <1>3, <1>5, <2>1 DEF P!TypeOK, P!OneAfterAnother
<1>7. ThreadsTell'
  BY <1>1, <1>2, <1>3, <1>4 DEF ThreadsTell, UnderWay, P!Works, P!Live
<1>8. KnownAreNoted'
  BY <1>1, <1>2, <1>3, KnownAreStarts DEF KnownAreNoted
<1>9. OneUnderWay'
  BY <1>1, <1>2, <1>3 DEF OneUnderWay, UnderWay
<1>10. LogsTell'
  <2>1. \A l \in Logged : log[l].by # 0 => log[l].by \in P!Starts
    BY <1>1, KnownAreStarts
  <2>2. ASSUME NEW l \in Logged, log'[l].exit = log[l].exit, l = k => i \in mute' PROVE LogTells(l)'
    <3>1. log'[l].by = log[l].by
      BY <1>5
    <3>2. log[l].by # i \/ l = k
      BY <1>1, <2>2, KnownAreStarts DEF LogsTell, LogTells
    <3>3. l \notin raced /\ log[l].by = i => log[l].exit = "none"
      BY <1>1, <1>2 DEF LogsTell, LogTells
    <3>4. /\ log'[l].by = 0 => log'[l].exit = "none"
          /\ log'[l].by # 0 => cmd'[log'[l].by].key = l /\ cmd'[log'[l].by].at \notin {"no", "free"}
      BY <1>1, <1>3, <2>1, <2>2, <3>1 DEF LogsTell, LogTells
    <3>5. \A j \in P!Starts \ mute' : cmd'[j].key = l /\ cmd'[j].at \in {"shown", "spawned", "noted"} =>
            /\ log'[l].by # 0
            /\ l \notin raced' => log'[l].by = j /\ log'[l].exit = "none"
      BY <1>1, <1>2, <1>3, <1>5, <2>2, <3>1 DEF LogsTell, LogTells
    <3>6. ASSUME l \notin raced'
          PROVE  /\ log'[l].exit # "none" =>
                      /\ cmd'[log'[l].by].at \in {"over", "done", "lost"}
                      /\ child'[log'[l].by] = log'[l].exit /\ inst'[log'[l].by] # "live"
                 /\ log'[l].by # 0 /\ log'[l].exit = "none" /\ cmd'[log'[l].by].at \in {"over", "done"} =>
                      child'[log'[l].by] = "failed" \/ log'[l].by \in mute'
      BY <1>1, <1>2, <1>3, <1>5, <2>1, <2>2, <3>1, <3>2, <3>3, <3>6 DEF LogsTell, LogTells, P!Works, P!Live
    <3>7. ASSUME l \notin raced'
          PROVE  \A j \in P!Starts : log'[l].by # 0 /\ j > log'[l].by /\ cmd'[j].key = l /\ child'[j] # "none" =>
                   j \in mute'
      BY <1>1, <1>2, <1>3, <1>5, <2>2, <3>1, <3>7 DEF LogsTell, LogTells
    <3>8. log'[l].exit \in {"none", "ok", "err"}
      BY <1>5
    <3>9. QED
      BY <3>4, <3>5, <3>6, <3>7, <3>8 DEF LogTells, P!Works, P!Live
  <2>3. ASSUME NEW l \in Logged, l = k, log'[l].exit = child[i], i \notin mute PROVE LogTells(l)'
    <3>1. log[l].by # 0 /\ log[l].by \in P!Starts /\ (l \notin raced => log[l].by = i)
      BY <1>1, <1>2, <2>1, <2>3 DEF LogsTell, LogTells
    <3>2. log'[l].by = log[l].by /\ log'[l].exit = child[i] /\ log'[l].exit # "none"
      BY <1>4, <1>5, <2>3
    <3>3. cmd'[log[l].by].key = l /\ cmd'[log[l].by].at \notin {"no", "free"}
      BY <1>1, <1>3, <2>3, <3>1 DEF LogsTell, LogTells
    <3>4. l \notin raced => \A j \in P!Starts : cmd'[j].key = l => cmd'[j].at \notin {"shown", "spawned", "noted"}
      BY <1>1, <1>2, <1>3, <2>3 DEF OneUnderWay, UnderWay
    <3>5. l \notin raced => \A j \in P!Starts : j > log[l].by /\ cmd'[j].key = l /\ child'[j] # "none" => j \in mute'
      BY <1>1, <1>2, <1>3, <1>5, <2>3, <3>1 DEF LogsTell, LogTells
    <3>6. QED
      BY <1>2, <1>3, <2>3, <3>1, <3>2, <3>3, <3>4, <3>5 DEF LogTells, P!Works, P!Live
  <2>5. CASE k \in Logged /\ log'[k].exit = child[i] /\ i \notin mute
    <3>1. ASSUME NEW l \in Logged PROVE LogTells(l)'
      <4>1. CASE l = k
        BY <2>3, <2>5, <4>1
      <4>2. CASE l # k
        BY <1>5, <2>2, <4>2
      <4>3. QED
        BY <4>1, <4>2
    <3>2. QED
      BY <3>1 DEF LogsTell
  <2>6. CASE log' = log /\ (k \in Logged => i \in mute')
    <3>1. ASSUME NEW l \in Logged PROVE LogTells(l)'
      BY <2>2, <2>6
    <3>2. QED
      BY <3>1 DEF LogsTell
  <2>7. QED
    BY <1>5, <2>5, <2>6
<1>11. QED
  BY <1>6, <1>7, <1>8, <1>9, <1>10 DEF PanelInv

\* The key goes, whoever put it in.
LEMMA PopStep ==
  ASSUME PanelInv, NEW i \in P!Starts, P!Pop(i)
  PROVE  PanelInv'
<1> DEFINE k == cmd[i].key
<1>1. /\ P!TypeOK /\ ThreadsTell /\ KnownAreNoted /\ OneUnderWay /\ LogsTell
  BY DEF PanelInv
<1>2. /\ up /\ cmd[i].at = "over" /\ P!Goes(i, "done")
      /\ running' = running \ {k} /\ shown' = {e \in shown : k \notin {e[1], e[2]}}
      /\ UNCHANGED <<up, child, inst, waits, typed, procs, log, mute, failed, raced, left>>
  BY DEF P!Pop, P!At
<1>3. /\ cmd' \in [P!Starts -> [key : Keys, at : P!Ats]]
      /\ cmd'[i].at = "done"
      /\ \A j \in P!Starts : cmd'[j].key = cmd[j].key /\ cmd[j].key \in Keys
      /\ \A j \in P!Starts \ {i} : cmd'[j].at = cmd[j].at
  <2>1. "done" \in P!Ats
    BY DEF P!Ats
  <2>2. QED
    BY <1>1, <1>2, <2>1, Moves
<1>4. P!OneAfterAnother'
  <2>1. \A l, m \in running' : <<l, m>> \in shown' <=> <<l, m>> \in shown
    BY <1>2
  <2>2. shown' \subseteq running' \X running'
    BY <1>1, <1>2 DEF P!TypeOK, P!OneAfterAnother
  <2>3. QED
    BY <1>1, <1>2, <2>1, <2>2 DEF P!TypeOK, P!OneAfterAnother
<1>5. P!TypeOK'
  <2>1. \A l \in Keys : procs[l] # 0 => cmd'[procs[l]].key = l
    BY <1>1, <1>3, KnownAreStarts DEF P!TypeOK
  <2>2. QED
    BY <1>1, <1>2, <1>3, <1>4, <2>1 DEF P!TypeOK
<1>6. ThreadsTell'
  BY <1>1, <1>2, <1>3 DEF ThreadsTell, UnderWay, P!Works, P!Live
<1>7. KnownAreNoted'
  BY <1>1, <1>2, <1>3, KnownAreStarts DEF KnownAreNoted
<1>8. OneUnderWay'
  BY <1>1, <1>2, <1>3 DEF OneUnderWay, UnderWay
<1>9. LogsTell'
  BY <1>1, <1>2, <1>3, KnownAreStarts DEF LogsTell, LogTells, P!Works, P!Live
<1>10. QED
  BY <1>5, <1>6, <1>7, <1>8, <1>9 DEF PanelInv

\* Processes end, or are stopped; threads and what the panel keeps of them do not
\* change by that.
LEMMA ProcessesEnd ==
  ASSUME PanelInv, NEW dead \in SUBSET {j \in P!Starts : P!Live(j)},
         child' \in [P!Starts -> {"none", "live", "ok", "err", "failed"}],
         \A j \in dead : child'[j] \in {"ok", "err"},
         \A j \in P!Starts \ dead : child'[j] = child[j],
         waits' \subseteq waits \ dead, typed' \subseteq P!Starts,
         UNCHANGED <<up, cmd, inst, procs, running, shown, log, mute, failed, raced, left>>
  PROVE  PanelInv'
<1>1. /\ P!TypeOK /\ ThreadsTell /\ KnownAreNoted /\ OneUnderWay /\ LogsTell
  BY DEF PanelInv
<1>2. P!TypeOK'
  <2>1. waits' \subseteq {j \in P!Starts : child'[j] = "live"}
    BY <1>1 DEF P!TypeOK
  <2>2. QED
    BY <1>1, <2>1 DEF P!TypeOK, P!OneAfterAnother
<1>3. ThreadsTell'
  BY <1>1 DEF ThreadsTell, UnderWay, P!Works, P!Live
<1>4. KnownAreNoted' /\ OneUnderWay'
  BY <1>1 DEF KnownAreNoted, OneUnderWay, UnderWay
<1>5. LogsTell'
  <2>1. \A j \in dead : P!Live(j) /\ cmd[j].at \notin {"over", "done"}
    BY <1>1 DEF ThreadsTell, P!Live
  <2>2. QED
    BY <1>1, <2>1, KnownAreStarts DEF LogsTell, LogTells, P!Works, P!Live
<1>6. QED
  BY <1>2, <1>3, <1>4, <1>5 DEF PanelInv

\* What is known for some keys is stopped.
LEMMA StopStep ==
  ASSUME PanelInv, NEW ks \in SUBSET Keys, P!Stop(ks)
  PROVE  PanelInv'
<1> DEFINE those == {procs[k] : k \in {k \in ks : P!Polls(k)}}
<1>1. P!TypeOK
  BY DEF PanelInv
<1>2. those \in SUBSET {j \in P!Starts : P!Live(j)}
  BY <1>1, KnownAreStarts DEF P!Polls
<1>3. /\ child' = [j \in P!Starts |-> IF j \in those THEN "err" ELSE child[j]]
      /\ waits' = waits \ those
      /\ UNCHANGED <<up, cmd, inst, typed, procs, running, shown, log, mute, failed, raced, left>>
  BY DEF P!Stop
<1> HIDE DEF those
<1>4. child' \in [P!Starts -> {"none", "live", "ok", "err", "failed"}]
  BY <1>1, <1>3 DEF P!TypeOK
<1>5. typed' \subseteq P!Starts
  BY <1>1, <1>3 DEF P!TypeOK
<1>6. QED
  BY <1>2, <1>3, <1>4, <1>5, ProcessesEnd

\* A line is given, which only ends a wait, or is kept.
LEMMA SendInputStep ==
  ASSUME PanelInv, P!SendInput
  PROVE  PanelInv'
<1>1. P!TypeOK
  BY DEF PanelInv
<1>2. /\ waits' \subseteq waits /\ typed' \subseteq P!Starts
      /\ UNCHANGED <<up, cmd, child, inst, procs, running, shown, log, mute, failed, raced, left>>
  BY <1>1, KnownAreStarts DEF P!SendInput, P!Polls, P!TypeOK
<1>3. child' \in [P!Starts -> {"none", "live", "ok", "err", "failed"}]
  BY <1>1, <1>2 DEF P!TypeOK
<1>4. {} \in SUBSET {j \in P!Starts : P!Live(j)}
  OBVIOUS
<1>5. QED
  BY <1>2, <1>3, <1>4, ProcessesEnd

\* A command ends.
LEMMA EndStep ==
  ASSUME PanelInv, NEW i \in P!Starts, P!End(i)
  PROVE  PanelInv'
<1>1. P!TypeOK
  BY DEF PanelInv
<1>2. /\ P!Live(i) /\ i \notin waits
      /\ UNCHANGED <<up, cmd, inst, waits, typed, procs, running, shown, log, mute, failed, raced, left>>
  BY DEF P!End
<1>3. PICK code \in {"ok", "err"} : child' = [child EXCEPT ![i] = code]
  BY DEF P!End
<1>4. /\ child' \in [P!Starts -> {"none", "live", "ok", "err", "failed"}]
      /\ child'[i] = code /\ \A j \in P!Starts \ {i} : child'[j] = child[j]
  BY <1>1, <1>3 DEF P!TypeOK
<1>5. /\ {i} \in SUBSET {j \in P!Starts : P!Live(j)} /\ waits' \subseteq waits \ {i}
      /\ typed' \subseteq P!Starts
  BY <1>1, <1>2 DEF P!TypeOK
<1>6. QED
  BY <1>2, <1>3, <1>4, <1>5, ProcessesEnd

\* A command asks.
LEMMA AskStep ==
  ASSUME PanelInv, NEW i \in P!Starts, P!Ask(i)
  PROVE  PanelInv'
<1>1. P!TypeOK'
  BY DEF P!Ask, PanelInv, P!TypeOK, P!Live, P!OneAfterAnother
<1>2. UNCHANGED <<up, cmd, child, inst, procs, running, shown, log, mute, failed, raced, left>>
  BY DEF P!Ask
<1>3. QED
  BY <1>1, <1>2 DEF PanelInv, ThreadsTell, KnownAreNoted, OneUnderWay, UnderWay, LogsTell, LogTells,
     P!Works, P!Live

\* An installer begins under a live repair, and ends.
LEMMA InstallerStep ==
  ASSUME PanelInv, NEW i \in P!Starts, P!Install(i) \/ P!Installed(i)
  PROVE  PanelInv'
<1>1. /\ P!TypeOK /\ ThreadsTell /\ KnownAreNoted /\ OneUnderWay /\ LogsTell
  BY DEF PanelInv
<1>2. /\ UNCHANGED <<up, cmd, child, waits, typed, procs, running, shown, log, mute, failed, raced, left>>
      /\ \/ P!Live(i) /\ P!ToLog(i) /\ inst' = [inst EXCEPT ![i] = "live"]
         \/ inst[i] = "live" /\ inst' = [inst EXCEPT ![i] = "ended"]
  BY DEF P!Install, P!Installed
<1>3. /\ inst' \in [P!Starts -> {"none", "live", "ended"}]
      /\ \A j \in P!Starts \ {i} : inst'[j] = inst[j]
      /\ inst'[i] = "live" => P!Live(i) /\ cmd[i].key \in Logged
      /\ inst'[i] # "live" => inst[i] = "live"
  BY <1>1, <1>2 DEF P!TypeOK, P!ToLog
<1>4. P!TypeOK'
  BY <1>1, <1>2, <1>3 DEF P!TypeOK, P!OneAfterAnother
<1>5. ThreadsTell'
  BY <1>1, <1>2, <1>3 DEF ThreadsTell, UnderWay, P!Works, P!Live
<1>6. KnownAreNoted' /\ OneUnderWay'
  BY <1>1, <1>2 DEF KnownAreNoted, OneUnderWay, UnderWay
<1>7. LogsTell'
  BY <1>1, <1>2, <1>3, KnownAreStarts DEF LogsTell, LogTells, P!Works, P!Live
<1>8. QED
  BY <1>4, <1>5, <1>6, <1>7 DEF PanelInv

\* A panel goes, and what works is left.
LEMMA GoneStep ==
  ASSUME PanelInv, NEW killed \in BOOLEAN, P!Gone(killed), failed' \in 0..MaxFaults
  PROVE  PanelInv'
<1>1. /\ P!TypeOK /\ ThreadsTell /\ KnownAreNoted /\ OneUnderWay /\ LogsTell
  BY DEF PanelInv
<1>2. /\ up' = FALSE /\ waits' = {} /\ running' = {} /\ shown' = {}
      /\ procs' = [k \in Keys |-> 0]
      /\ left' = left \cup {cmd[i].key : i \in {i \in P!Starts : P!Works(i)}}
      /\ UNCHANGED <<inst, typed, log, mute, raced>>
  BY DEF P!Gone
<1>3. \A i \in P!Starts :
        /\ cmd'[i].key = cmd[i].key
        /\ cmd'[i].at = IF cmd[i].at \in {"no", "done"} THEN cmd[i].at ELSE "lost"
        /\ child'[i] = IF killed /\ P!Live(i) THEN "err" ELSE child[i]
  BY <1>1 DEF P!Gone, P!TypeOK
<1>4. P!TypeOK'
  <2>1. cmd' \in [P!Starts -> [key : Keys, at : P!Ats]]
    BY <1>1 DEF P!Gone, P!TypeOK, P!Ats
  <2>2. child' \in [P!Starts -> {"none", "live", "ok", "err", "failed"}]
    BY <1>1 DEF P!Gone, P!TypeOK
  <2>3. left' \subseteq Keys
    BY <1>1, <1>2 DEF P!TypeOK
  <2>4. /\ procs' \in [Keys -> 0..MaxStarts] /\ \A k \in Keys : procs'[k] = 0
        /\ P!OneAfterAnother'
    BY <1>2, Bounds DEF P!OneAfterAnother
  <2>5. QED
    BY <1>1, <1>2, <2>1, <2>2, <2>3, <2>4 DEF P!TypeOK
<1>5. ThreadsTell'
  BY <1>1, <1>2, <1>3 DEF ThreadsTell, UnderWay, P!Works, P!Live
<1>6. KnownAreNoted' /\ OneUnderWay'
  BY <1>1, <1>2, <1>3 DEF KnownAreNoted, OneUnderWay, UnderWay
<1>7. LogsTell'
  BY <1>1, <1>2, <1>3, KnownAreStarts DEF LogsTell, LogTells, ThreadsTell, P!Works, P!Live
<1>8. QED
  BY <1>4, <1>5, <1>6, <1>7 DEF PanelInv

\* A step that moves only whether the panel is open keeps the rest.
LEMMA OpenStep ==
  ASSUME PanelInv, up' \in BOOLEAN, up => up',
         UNCHANGED <<cmd, child, inst, waits, typed, procs, running, shown, log, mute, failed, raced, left>>
  PROVE  PanelInv'
<1>1. P!OneAfterAnother' <=> P!OneAfterAnother
  BY DEF P!OneAfterAnother
<1>2. P!TypeOK'
  BY <1>1 DEF PanelInv, P!TypeOK
<1>3. ThreadsTell'
  BY DEF PanelInv, ThreadsTell, UnderWay, P!Works, P!Live
<1>4. KnownAreNoted' /\ OneUnderWay' /\ LogsTell'
  BY DEF PanelInv, KnownAreNoted, OneUnderWay, UnderWay, LogsTell, LogTells, P!Works, P!Live
<1>5. QED
  BY <1>2, <1>3, <1>4 DEF PanelInv

\* Every step of the panel keeps the invariant, and so does one of others.
LEMMA PanelStep == PanelInv /\ (P!Next \/ UNCHANGED panel) => PanelInv'
<1>1. SUFFICES ASSUME PanelInv, P!Next \/ UNCHANGED panel PROVE PanelInv'
  OBVIOUS
<1>2. ASSUME NEW k \in Keys, P!Check(k) \/ P!Stop({k}) PROVE PanelInv'
  <2>1. {k} \in SUBSET Keys
    OBVIOUS
  <2>2. QED
    BY <1>1, <1>2, <2>1, CheckStep, StopStep
<1>3. CASE P!Stop(Keys) \/ P!SendInput
  <2>1. Keys \in SUBSET Keys
    OBVIOUS
  <2>2. QED
    BY <1>1, <1>3, <2>1, StopStep, SendInputStep
<1>4. CASE P!Close
  <2>1. failed' \in 0..MaxFaults
    <3>1. failed \in 0..MaxFaults
      BY <1>1 DEF PanelInv, P!TypeOK
    <3>2. QED
      BY <1>4, <3>1, Bounds DEF P!Close, P!Fault
  <2>2. P!Gone(FALSE)
    BY <1>4 DEF P!Close
  <2>3. QED
    BY <1>1, <2>1, <2>2, GoneStep
<1>5. CASE P!Open \/ UNCHANGED panel
  <2>1. /\ up' \in BOOLEAN /\ (up => up')
        /\ UNCHANGED <<cmd, child, inst, waits, typed, procs, running, shown, log, mute, failed, raced, left>>
    BY <1>1, <1>5 DEF P!Open, panel, PanelInv, P!TypeOK
  <2>2. QED
    BY <1>1, <2>1, OpenStep
<1>6. ASSUME NEW i \in P!Starts, P!Sweep(i) PROVE PanelInv'
  <2>1. failed' \in 0..MaxFaults /\ P!Gone(TRUE)
    BY <1>1, <1>6 DEF P!Sweep, PanelInv, P!TypeOK
  <2>2. QED
    BY <1>1, <2>1, GoneStep
<1>7. ASSUME NEW i \in P!Starts,
             \/ P!Show(i) \/ P!Spawn(i) \/ P!Note(i) \/ P!Follow(i) \/ P!Pop(i)
             \/ P!Ask(i) \/ P!Install(i) \/ P!Installed(i) \/ P!End(i)
      PROVE  PanelInv'
  BY <1>1, <1>7, ShowStep, SpawnStep, NoteStep, FollowStep, PopStep, AskStep, InstallerStep, EndStep
<1>8. QED
  BY <1>1, <1>2, <1>3, <1>4, <1>5, <1>6, <1>7 DEF P!Next

\* What the invariant says of the commands: one of a key at a time, each of them
\* shown and within reach, and its log true.
LEMMA PanelTells == PanelInv => PanelTellsTruth
<1>1. SUFFICES ASSUME PanelInv PROVE PanelTellsTruth
  OBVIOUS
<1>2. /\ P!TypeOK /\ ThreadsTell /\ KnownAreNoted /\ OneUnderWay /\ LogsTell
  BY <1>1 DEF PanelInv
<1>3. P!OneAtATime
  <2>1. ASSUME NEW i \in P!Starts, P!Works(i), cmd[i].key \notin left
        PROVE  UnderWay(i)
    <3>1. cmd[i].at \in P!Ats
      BY <1>2 DEF P!TypeOK
    <3>2. cmd[i].at \notin {"no", "done", "lost"}
      BY <1>2, <2>1 DEF ThreadsTell, P!Works, P!Live
    <3>3. QED
      BY <3>1, <3>2 DEF UnderWay, P!Ats
  <2>2. QED
    BY <1>2, <2>1 DEF P!OneAtATime, OneUnderWay
<1>4. P!ShownAndStoppable
  <2>1. ASSUME NEW i \in P!Starts, cmd[i].at = "noted", P!Live(i), cmd[i].key \notin raced
        PROVE  i \in P!Listed /\ cmd[i].key \in running
    <3>1. procs[cmd[i].key] = i /\ cmd[i].key \in running /\ cmd[i].key \in Keys /\ i # 0
      BY <1>2, <2>1, KnownAreStarts DEF OneUnderWay, UnderWay
    <3>2. P!Polls(cmd[i].key)
      BY <2>1, <3>1 DEF P!Polls
    <3>3. QED
      BY <3>1, <3>2 DEF P!Listed
  <2>2. QED
    BY <2>1 DEF P!ShownAndStoppable
<1>5. P!OutcomeIsTruthful
  <2>1. ASSUME NEW k \in Logged, P!Outcome(k).found, k \notin raced
        PROVE  /\ \A j \in P!Starts :
                    j > log[k].by /\ cmd[j].key = k /\ child[j] # "none" => j \in mute
               /\ IF P!Outcome(k).running
                  THEN \/ P!Works(log[k].by) \/ child[log[k].by] = "failed"
                       \/ cmd[log[k].by].at # "done" \/ log[k].by \in mute
                  ELSE ~P!Works(log[k].by) /\ P!Outcome(k).exit = child[log[k].by]
    BY <1>2, <2>1, KnownAreStarts DEF P!Outcome, LogsTell, LogTells
  <2>2. QED
    BY <2>1 DEF P!OutcomeIsTruthful
<1>6. QED
  BY <1>3, <1>4, <1>5 DEF PanelTellsTruth, P!PanelTellsTruth

-----------------------------------------------------------------------------
(* Wiring: the inductive invariant.                                        *)

\* The command has still to do this.
Left(do, c) == \E s \in op.todo : s.do = do /\ s.on = c
\* No tool has an entry of its own in c.
Clear(c) == \A t \in Tools : ~W!Listed(c, t)

Plans ==
  {<<"register", 1, "put">>, <<"register", 2, "sync">>,
   <<"gateway", 1, "manage">>, <<"gateway", 2, "put">>, <<"gateway", 3, "sync">>,
   <<"install", 1, "put">>, <<"install", 2, "manage">>, <<"install", 3, "hook">>,
   <<"install", 4, "manifest">>,
   <<"standalone", 1, "direct">>, <<"standalone", 2, "release">>, <<"standalone", 3, "drop">>,
   <<"link", 1, "manage">>, <<"link", 2, "put">>, <<"link", 3, "drop">>,
   <<"uninstall", 1, "drop">>, <<"uninstall", 2, "unhook">>, <<"uninstall", 3, "remove">>,
   <<"repair", 1, "drop">>, <<"repair", 2, "wipe">>}

\* What a command has left to do is of its plan, and is about its own slugs.
PlanIsKept ==
  /\ IF op.kind = "none" THEN op = W!NoOp ELSE settled = W!Nothing
  /\ \A s \in op.todo : /\ <<op.kind, s.at, s.do>> \in Plans
                        /\ s.on = "all" <=> s.do \notin {"put", "direct", "drop"}
  /\ op.kind = "register" => op.put = W!Slugs /\ op.drop = {}
  /\ op.kind \in {"gateway", "install"} => op.put = {GM} /\ op.drop = Tools
  /\ op.kind = "standalone" => op.put \subseteq Tools /\ op.drop = {GM}
  /\ op.kind = "link" => op.put = {GM} /\ op.drop \subseteq Tools
  /\ op.kind \in {"uninstall", "repair"} => op.put = {} /\ op.drop = W!Slugs

\* To the gateway: its entry is in the clients that were done, and the tools' are
\* out of them; in the end nothing is unmanaged, the hook deployed and all recorded,
\* but for what is noted as failed.
GatewayTells ==
  op.kind \in {"gateway", "install"} =>
    /\ ~Left("manage", "all") => unmanaged = {} \/ (op.kind = "install" /\ "manage" \in op.bad)
    /\ \A c \in op.oks : /\ ~Left("put", c) /\ entry[c][GM] = "live"
                         /\ c \notin Cli \/ ~mixed => Clear(c)
    /\ ~mixed => \A c \in Json \cup Cli : Left("put", c) \/ Clear(c)
    /\ op.kind = "install" /\ ~Left("hook", "all") /\ Neuron \in Tools =>
         \/ "hook" \in op.bad
         \/ hook.file = "same" /\ ("entry" \in op.bad \/ hook.entry = "live")
    /\ op.kind = "install" /\ ~Left("manifest", "all") =>
         /\ manifest.clients = W!Clients
         /\ Neuron \in Tools /\ "hook" \notin op.bad => manifest.hooks

\* Out of the gateway: the entry of the tool's own is there before it is let go,
\* and the gateway's goes only when nothing is left behind it.
StandaloneTells ==
  op.kind = "standalone" =>
    /\ ~Left("release", "all") => op.put \subseteq unmanaged
    /\ \A c \in W!Clients : Left("drop", c) => Tools \subseteq unmanaged \cup op.put
    /\ \A c \in W!Clients \ op.bad, t \in op.put : ~Left("direct", c) => entry[c][t] = "live"

\* Back to it: the tools are managed and the gateway's entry is there before
\* theirs are taken out.
LinkTells ==
  op.kind = "link" =>
    /\ Left("manage", "all") => \A c \in W!Clients : Left("drop", c)
    /\ ~Left("manage", "all") => op.drop \cap unmanaged = {}
    /\ \A c \in W!Clients \ op.bad : ~Left("put", c) => entry[c][GM] = "live"

\* Away: what was done has nothing of ours.
RemovalTells ==
  /\ op.kind = "uninstall" =>
       /\ \A c \in op.oks : /\ ~Left("drop", c)
                            /\ ~mixed => \A s \in W!Slugs : ~W!Listed(c, s)
       /\ ~mixed => \A c \in Json \cup Cli : Left("drop", c) \/ Clear(c)
  /\ op.kind = "repair" /\ ~mixed /\ Left("wipe", "all") => unmanaged = {}

\* A tool that is managed has no entry of its own, but while a command is on
\* its way to take it out or to let the tool go.
Moving(c, t) ==
  \/ op.kind = "standalone" /\ t \in op.put
  \/ op.kind \in {"gateway", "install"} /\ Left("put", c)
  \/ op.kind = "link" /\ t \in op.drop /\ Left("drop", c)
  \/ op.kind = "uninstall" /\ Left("drop", c)
NoStrays ==
  ~mixed => \A c \in Json \cup Cli, t \in Tools \ unmanaged : W!Listed(c, t) => Moving(c, t)

CommandTells ==
  /\ op.kind = "register" => mixed
  /\ GatewayTells /\ StandaloneTells /\ LinkTells /\ RemovalTells /\ NoStrays

WiringInv == W!TypeOK /\ PlanIsKept /\ CommandTells /\ W!UserServerKept /\ W!Converges

-----------------------------------------------------------------------------
(* Wiring: commands and their steps.                                       *)

\* The clients are who they are, and "all" is none of them.
LEMMA ClientsAre ==
  /\ W!Clients = Clients /\ "all" \notin W!Clients
  /\ Json \subseteq W!Clients /\ Toml \subseteq W!Clients /\ Cli \subseteq W!Clients
  /\ \A c \in W!Clients : /\ rank[c] \in Nat /\ (c \in Cli => c \notin Json \cup Toml)
                          /\ (c \in Toml => c \notin Json) /\ c \in Json \cup Toml \cup Cli
BY WiringRules, ClientsAreApart, ClientsAreRanked DEF Clients, W!Clients

\* The slugs: the gateway's is not a tool's.
LEMMA SlugsAre == GM \in W!Slugs /\ GM \notin Tools /\ Tools \subseteq W!Slugs
                  /\ \A s \in W!Slugs : s = GM \/ s \in Tools
BY WiringRules DEF W!Slugs

\* In a plan, a place has one thing to do and a thing to do one place.
LEMMA PlansTell ==
  ASSUME NEW k, NEW m, NEW n, NEW d, NEW e, <<k, m, d>> \in Plans, <<k, n, e>> \in Plans
  PROVE  m = n <=> d = e
BY DEF Plans

\* A step that is done is no longer left to do, and every other is.
DidStep(do, c, o, b) ==
  /\ op.kind # "none" /\ settled = W!Nothing
  /\ op'.kind = op.kind /\ op'.put = op.put /\ op'.drop = op.drop
  /\ op'.oks = op.oks \cup o /\ op'.bad = op.bad \cup b
  /\ op' \in [kind : W!Kinds, todo : SUBSET W!Steps, put : SUBSET W!Slugs,
              drop : SUBSET W!Slugs, oks : SUBSET W!Clients, bad : SUBSET (W!Clients \cup W!Chores)]
  /\ op'.todo \subseteq op.todo
  /\ Left(do, c) /\ \A d, e : Left(d, e)' <=> Left(d, e) /\ ~(d = do /\ e = c)

\* It is so.
LEMMA StepDone ==
  ASSUME W!TypeOK, PlanIsKept, NEW do, NEW c, W!At(do, c),
         NEW o \in SUBSET W!Clients, NEW b \in SUBSET (W!Clients \cup W!Chores), W!Done(c, o, b)
  PROVE  DidStep(do, c, o, b)
<1>1. PICK s \in op.todo : s.do = do /\ s.on = c /\ W!First(s)
  BY DEF W!At
<1>2. /\ op \in [kind : W!Kinds, todo : SUBSET W!Steps, put : SUBSET W!Slugs,
                 drop : SUBSET W!Slugs, oks : SUBSET W!Clients, bad : SUBSET (W!Clients \cup W!Chores)]
      /\ \A r \in op.todo : r \in W!Steps
  BY DEF W!TypeOK
<1>3. op.kind # "none" /\ settled = W!Nothing
  BY <1>1 DEF PlanIsKept, W!NoOp
<1>4. ASSUME NEW r \in op.todo, r.at = s.at, r.on = s.on PROVE r = s
  <2>1. <<op.kind, r.at, r.do>> \in Plans /\ <<op.kind, s.at, s.do>> \in Plans
    BY <1>1 DEF PlanIsKept
  <2>2. r.do = s.do
    BY <1>4, <2>1, PlansTell
  <2>3. r \in W!Steps /\ s \in W!Steps
    BY <1>2
  <2>4. QED
    BY <1>4, <2>2, <2>3 DEF W!Steps
<1>5. ASSUME NEW r \in op.todo, r.on = c, W!First(r), r # s PROVE FALSE
  <2>1. /\ s.at < r.at \/ (s.at = r.at /\ rank[s.on] < rank[r.on])
        /\ r.at < s.at \/ (s.at = r.at /\ rank[r.on] < rank[s.on])
    BY <1>1, <1>5 DEF W!First
  <2>2. r.at \in 1..4 /\ s.at \in 1..4
    BY <1>2 DEF W!Steps
  <2>3. s.at = r.at
    BY <2>1, <2>2
  <2>4. QED
    BY <1>1, <1>4, <1>5, <2>3
<1>6. op'.todo = op.todo \ {s}
  BY <1>1, <1>2, <1>5 DEF W!Done
<1>7. /\ op'.kind = op.kind /\ op'.put = op.put /\ op'.drop = op.drop
      /\ op'.oks = op.oks \cup o /\ op'.bad = op.bad \cup b
      /\ op' \in [kind : W!Kinds, todo : SUBSET W!Steps, put : SUBSET W!Slugs,
                  drop : SUBSET W!Slugs, oks : SUBSET W!Clients, bad : SUBSET (W!Clients \cup W!Chores)]
  BY <1>2 DEF W!Done
<1>8. \A d, e : Left(d, e)' <=> Left(d, e) /\ ~(d = do /\ e = c)
  <2>1. ASSUME NEW r \in op.todo, r.do = do, r.on = c PROVE r = s
    <3>1. <<op.kind, r.at, r.do>> \in Plans /\ <<op.kind, s.at, s.do>> \in Plans
      BY <1>1 DEF PlanIsKept
    <3>2. r.at = s.at
      BY <1>1, <2>1, <3>1, PlansTell
    <3>3. QED
      BY <1>1, <1>4, <2>1, <3>2
  <2>2. QED
    BY <1>1, <1>6, <2>1 DEF Left
<1>9. QED
  BY <1>1, <1>3, <1>6, <1>7, <1>8 DEF Left, DidStep

\* What comes first leaves nothing of an earlier place.
LEMMA InOrder ==
  ASSUME W!TypeOK, PlanIsKept, NEW do, NEW c, W!At(do, c)
  PROVE  /\ do = "put" => /\ c \in W!Clients /\ op.kind \in {"register", "gateway", "install", "link"}
                          /\ op.kind \in {"gateway", "link"} => ~Left("manage", "all")
         /\ do = "direct" => c \in W!Clients /\ op.kind = "standalone"
         /\ do = "drop" => /\ c \in W!Clients
                           /\ op.kind \in {"standalone", "link", "uninstall", "repair"}
                           /\ op.kind = "standalone" =>
                                ~Left("release", "all") /\ \A d : ~Left("direct", d)
                           /\ op.kind = "link" => ~Left("manage", "all") /\ \A d : ~Left("put", d)
         /\ do = "manage" => op.kind \in {"gateway", "install", "link"}
         /\ do = "release" => op.kind = "standalone" /\ \A d : ~Left("direct", d)
         /\ do = "wipe" => op.kind = "repair"
         /\ do = "hook" => op.kind = "install"
         /\ do = "sync" => op.kind \in {"register", "gateway"}
         /\ do = "manifest" => op.kind = "install"
         /\ do = "unhook" => op.kind = "uninstall"
         /\ do = "remove" => op.kind = "uninstall" /\ \A d : ~Left("drop", d)
<1>1. PICK s \in op.todo : s.do = do /\ s.on = c /\ W!First(s)
  BY DEF W!At
<1>2. \A r \in op.todo : r.at \in 1..4
  BY DEF W!TypeOK, W!Steps
<1>3. ASSUME NEW r \in op.todo PROVE r.at >= s.at
  <2>1. r = s \/ s.at < r.at \/ s.at = r.at
    BY <1>1 DEF W!First
  <2>2. r.at \in Nat /\ s.at \in Nat
    BY <1>2
  <2>3. QED
    BY <2>1, <2>2
<1>4. ASSUME NEW m, NEW d, <<op.kind, m, d>> \in Plans, NEW e, Left(d, e)
      PROVE  \E n \in 1..4 : n >= s.at /\ <<op.kind, n, d>> \in Plans
  BY <1>2, <1>3, <1>4 DEF Left, PlanIsKept
<1>5. <<op.kind, s.at, do>> \in Plans
  BY <1>1 DEF PlanIsKept
<1>6. s.on \in W!Clients <=> do \in {"put", "direct", "drop"}
  BY <1>1, ClientsAre DEF PlanIsKept, W!TypeOK, W!Steps
<1>7. QED
  BY <1>1, <1>4, <1>5, <1>6 DEF Plans

\* While a command is under way none has settled.
LEMMA UnsettledConverges == settled' = W!Nothing => W!Converges'
BY DEF W!Nothing, W!Converges

\* What a client's configuration becomes.
LEMMA Rewritten ==
  ASSUME W!TypeOK, NEW c \in W!Clients, NEW put, NEW drop, W!Rewrite(c, put, drop)
  PROVE  /\ entry' \in [W!Clients -> [W!Slugs -> {"none", "live", "stale"}]]
         /\ \A s \in W!Slugs : entry'[c][s] = IF s \in put THEN "live"
                                              ELSE IF s \in drop THEN "none" ELSE entry[c][s]
         /\ \A d \in W!Clients \ {c} : entry'[d] = entry[d]
BY DEF W!TypeOK, W!Rewrite

\* The .bak is made of what was there.
LEMMA BackedUp ==
  ASSUME W!TypeOK, NEW c \in W!Clients, W!Backup(c)
  PROVE  /\ bak' \subseteq Json \cup Toml
         /\ \A d \in W!Clients \ {c} : d \in bak' <=> d \in bak
         /\ c \in Json \cup Toml /\ c \in mine => c \in bak'
BY ClientsAre DEF W!TypeOK, W!Backup

\* A file that parses and has not the user's server any more was hit.
LEMMA ParsedIsWhole ==
  ASSUME W!TypeOK, W!UserServerKept, NEW c \in W!Clients
  PROVE  /\ W!Parses(c) <=> shape[c] # "cut"
         /\ W!Parses(c) => c \in mine \/ c \in hit
         /\ ~W!Parses(c) => entry[c] = W!Bare /\ c \in Json /\ \A s \in W!Slugs : ~W!Listed(c, s)
BY DEF W!TypeOK, W!UserServerKept, W!Parses, W!Bare, W!Listed

\* A client is written, by the suite or a tool's own engine.
LEMMA PutStep ==
  ASSUME WiringInv, NEW c \in W!Clients, W!Put(c)
  PROVE  WiringInv'
<1>1. /\ W!TypeOK /\ PlanIsKept /\ CommandTells /\ W!UserServerKept /\ W!Converges
  BY DEF WiringInv
<1>2. PICK do \in {"put", "direct"} : W!At(do, c)
  BY DEF W!Put
<1>3. /\ W!Parses(c) /\ W!Backup(c) /\ W!Done(c, {c}, {})
      /\ shape' = [shape EXCEPT ![c] = "whole"]
      /\ UNCHANGED <<mine, unmanaged, manifest, hook, faults, settled, mixed, hit>>
  BY DEF W!Put
<1>4. do = "put" <=> op.kind # "standalone"
  BY <1>1, <1>2, InOrder
<1>5. W!Rewrite(c, op.put, IF do = "put" /\ op.kind # "link" THEN op.drop ELSE {})
  <2>1. W!At("put", c) <=> do = "put"
    BY <1>1, <1>2, <1>4, InOrder
  <2>2. QED
    BY <2>1 DEF W!Put
<1>6. /\ op.kind # "none" /\ settled = W!Nothing
      /\ op'.kind = op.kind /\ op'.put = op.put /\ op'.drop = op.drop
      /\ op'.oks = op.oks \cup {c} /\ op'.bad = op.bad
      /\ op' \in [kind : W!Kinds, todo : SUBSET W!Steps, put : SUBSET W!Slugs,
                  drop : SUBSET W!Slugs, oks : SUBSET W!Clients, bad : SUBSET (W!Clients \cup W!Chores)]
      /\ op'.todo \subseteq op.todo
      /\ Left(do, c) /\ \A d, e : Left(d, e)' <=> Left(d, e) /\ ~(d = do /\ e = c)
  <2>1. {c} \in SUBSET W!Clients /\ {} \in SUBSET W!Clients
    OBVIOUS
  <2>2. DidStep(do, c, {c}, {})
    BY <1>1, <1>2, <1>3, <2>1, StepDone
  <2>3. QED
    BY <2>2 DEF DidStep
<1>7. /\ entry' \in [W!Clients -> [W!Slugs -> {"none", "live", "stale"}]]
      /\ \A s \in op.put : s \in W!Slugs => entry'[c][s] = "live"
      /\ \A s \in W!Slugs \ op.put :
           entry'[c][s] = IF s \in op.drop /\ do = "put" /\ op.kind # "link" THEN "none" ELSE entry[c][s]
      /\ \A d \in W!Clients \ {c} : entry'[d] = entry[d]
  BY <1>1, <1>5, Rewritten
<1>8. /\ bak' \subseteq Json \cup Toml
      /\ \A d \in W!Clients \ {c} : d \in bak' <=> d \in bak
  BY <1>1, <1>3, BackedUp
<1>9. W!TypeOK'
  <2>1. \A d \in W!Clients : shape'[d] = IF d = c THEN "whole" ELSE shape[d]
    BY <1>1, <1>3 DEF W!TypeOK
  <2>2. shape' \in [W!Clients -> {"whole", "empty", "cut"}]
    BY <1>1, <1>3 DEF W!TypeOK
  <2>3. \A d \in W!Clients : shape'[d] # "whole" => d \in Json /\ d \notin mine' /\ entry'[d] = W!Bare
    BY <1>1, <1>3, <1>7, <2>1 DEF W!TypeOK
  <2>4. QED
    BY <1>1, <1>3, <1>6, <1>7, <1>8, <2>2, <2>3 DEF W!TypeOK
<1>10. PlanIsKept'
  BY <1>1, <1>3, <1>6 DEF PlanIsKept
<1>11. GatewayTells'
  BY <1>1, <1>3, <1>4, <1>6, <1>7, SlugsAre, ClientsAre
     DEF CommandTells, GatewayTells, PlanIsKept, Clear, W!Listed
<1>12. StandaloneTells'
  BY <1>1, <1>3, <1>4, <1>6, <1>7, SlugsAre DEF CommandTells, StandaloneTells, PlanIsKept
<1>13. LinkTells'
  BY <1>1, <1>3, <1>4, <1>6, <1>7, SlugsAre DEF CommandTells, LinkTells, PlanIsKept
<1>14. RemovalTells'
  BY <1>1, <1>2, <1>3, <1>6, InOrder DEF RemovalTells
<1>15. NoStrays'
  BY <1>1, <1>2, <1>3, <1>4, <1>6, <1>7, InOrder, SlugsAre, ClientsAre
     DEF CommandTells, NoStrays, Moving, GatewayTells, PlanIsKept, W!Listed, Clear
<1>16. W!UserServerKept'
  BY <1>1, <1>3, <1>8, ParsedIsWhole DEF W!UserServerKept, W!TypeOK
<1>17. QED
  BY <1>1, <1>3, <1>6, <1>9, <1>10, <1>11, <1>12, <1>13, <1>14, <1>15, <1>16, UnsettledConverges
     DEF WiringInv, CommandTells

\* Entries of ours are taken out of a client.
LEMMA DropStep ==
  ASSUME WiringInv, NEW c \in W!Clients, W!Drop(c)
  PROVE  WiringInv'
<1>1. /\ W!TypeOK /\ PlanIsKept /\ CommandTells /\ W!UserServerKept /\ W!Converges
  BY DEF WiringInv
<1>2. /\ W!At("drop", c) /\ W!Parses(c) /\ W!Done(c, {c}, {}) /\ W!Rewrite(c, {}, op.drop)
      /\ bak' = bak \/ W!Backup(c)
      /\ UNCHANGED <<shape, mine, unmanaged, manifest, hook, faults, settled, mixed, hit>>
  BY DEF W!Drop
<1>3. /\ op.kind # "none" /\ settled = W!Nothing
      /\ op'.kind = op.kind /\ op'.put = op.put /\ op'.drop = op.drop
      /\ op'.oks = op.oks \cup {c} /\ op'.bad = op.bad
      /\ op' \in [kind : W!Kinds, todo : SUBSET W!Steps, put : SUBSET W!Slugs,
                  drop : SUBSET W!Slugs, oks : SUBSET W!Clients, bad : SUBSET (W!Clients \cup W!Chores)]
      /\ op'.todo \subseteq op.todo
      /\ Left("drop", c) /\ \A d, e : Left(d, e)' <=> Left(d, e) /\ ~(d = "drop" /\ e = c)
  <2>1. {c} \in SUBSET W!Clients /\ {} \in SUBSET W!Clients
    OBVIOUS
  <2>2. DidStep("drop", c, {c}, {})
    BY <1>1, <1>2, <2>1, StepDone
  <2>3. QED
    BY <2>2 DEF DidStep
<1>4. /\ op.kind \in {"standalone", "link", "uninstall", "repair"}
      /\ op.kind = "standalone" => ~Left("release", "all")
      /\ op.kind = "link" => ~Left("manage", "all") /\ \A d : ~Left("put", d)
  BY <1>1, <1>2, InOrder
<1>5. /\ entry' \in [W!Clients -> [W!Slugs -> {"none", "live", "stale"}]]
      /\ \A s \in W!Slugs : entry'[c][s] = IF s \in op.drop THEN "none" ELSE entry[c][s]
      /\ \A d \in W!Clients \ {c} : entry'[d] = entry[d]
  <2>1. {} \cap W!Slugs = {}
    OBVIOUS
  <2>2. QED
    BY <1>1, <1>2, <2>1, Rewritten
<1>6. /\ bak' \subseteq Json \cup Toml
      /\ \A d \in W!Clients \ {c} : d \in bak' <=> d \in bak
  BY <1>1, <1>2, BackedUp DEF W!TypeOK
<1>7. W!TypeOK'
  <2>1. \A d \in W!Clients : shape[d] # "whole" => d \in Json /\ d \notin mine /\ entry'[d] = W!Bare
    <3>1. CASE shape[c] # "whole"
      <4>1. entry[c] = W!Bare
        BY <1>1, <3>1 DEF W!TypeOK
      <4>2. entry'[c] = W!Bare
        BY <1>5, <4>1 DEF W!Bare
      <4>3. QED
        BY <1>1, <1>5, <4>2 DEF W!TypeOK
    <3>2. CASE shape[c] = "whole"
      BY <1>1, <1>5, <3>2 DEF W!TypeOK
    <3>3. QED
      BY <3>1, <3>2
  <2>2. QED
    BY <1>1, <1>2, <1>3, <1>5, <1>6, <2>1 DEF W!TypeOK
<1>8. PlanIsKept'
  BY <1>1, <1>2, <1>3 DEF PlanIsKept
<1>9. GatewayTells'
  BY <1>3, <1>4 DEF GatewayTells
<1>10. StandaloneTells'
  BY <1>1, <1>2, <1>3, <1>5, SlugsAre DEF CommandTells, StandaloneTells, PlanIsKept
<1>11. LinkTells'
  BY <1>1, <1>2, <1>3, <1>4, <1>5, SlugsAre DEF CommandTells, LinkTells, PlanIsKept
<1>12. RemovalTells'
  BY <1>1, <1>2, <1>3, <1>5, SlugsAre, ClientsAre
     DEF CommandTells, RemovalTells, PlanIsKept, Clear, W!Listed
<1>13. NoStrays'
  BY <1>1, <1>2, <1>3, <1>5, SlugsAre, ClientsAre
     DEF CommandTells, NoStrays, Moving, PlanIsKept, W!Listed
<1>14. W!UserServerKept'
  BY <1>1, <1>2, <1>6, ParsedIsWhole DEF W!UserServerKept
<1>15. QED
  BY <1>1, <1>2, <1>3, <1>4, <1>7, <1>8, <1>9, <1>10, <1>11, <1>12, <1>13, <1>14, UnsettledConverges
     DEF WiringInv, CommandTells

\* A file that cannot be edited is reported.
LEMMA ManualStep ==
  ASSUME WiringInv, NEW c \in W!Clients, W!Manual(c)
  PROVE  WiringInv'
<1>1. /\ W!TypeOK /\ PlanIsKept /\ CommandTells /\ W!UserServerKept /\ W!Converges
  BY DEF WiringInv
<1>2. PICK do \in {"put", "direct", "drop"} :
        W!At(do, c) /\ (~W!Parses(c) \/ (do = "drop" /\ c \in Toml))
  BY DEF W!Manual
<1>3. /\ W!Done(c, {}, {c})
      /\ UNCHANGED <<entry, shape, mine, bak, unmanaged, manifest, hook, faults, settled, mixed, hit>>
  BY DEF W!Manual
<1>4. /\ op.kind # "none" /\ settled = W!Nothing
      /\ op'.kind = op.kind /\ op'.put = op.put /\ op'.drop = op.drop
      /\ op'.oks = op.oks /\ op'.bad = op.bad \cup {c}
      /\ op' \in [kind : W!Kinds, todo : SUBSET W!Steps, put : SUBSET W!Slugs,
                  drop : SUBSET W!Slugs, oks : SUBSET W!Clients, bad : SUBSET (W!Clients \cup W!Chores)]
      /\ op'.todo \subseteq op.todo
      /\ Left(do, c) /\ \A d, e : Left(d, e)' <=> Left(d, e) /\ ~(d = do /\ e = c)
  <2>1. {c} \in SUBSET W!Clients /\ {} \in SUBSET W!Clients
    OBVIOUS
  <2>2. DidStep(do, c, {}, {c})
    BY <1>1, <1>2, <1>3, <2>1, StepDone
  <2>3. QED
    BY <2>2 DEF DidStep
<1>5. /\ do = "put" => op.kind \in {"register", "gateway", "install", "link"}
      /\ do = "direct" => op.kind = "standalone"
      /\ do = "drop" => /\ op.kind \in {"standalone", "link", "uninstall", "repair"}
                        /\ op.kind = "link" => ~Left("manage", "all")
  BY <1>1, <1>2, InOrder
<1>6. c \notin Toml => \A s \in W!Slugs : ~W!Listed(c, s)
  BY <1>1, <1>2, ParsedIsWhole
<1>7. W!TypeOK' /\ PlanIsKept' /\ W!UserServerKept'
  BY <1>1, <1>3, <1>4 DEF W!TypeOK, PlanIsKept, W!UserServerKept
<1>8. ~W!Parses(c) => c \in Json
  BY <1>1, ParsedIsWhole
<1>9. GatewayTells'
  BY <1>1, <1>2, <1>3, <1>4, <1>5, <1>6, <1>8, SlugsAre, ClientsAre
     DEF CommandTells, GatewayTells, Clear, W!Listed
<1>10. StandaloneTells'
  BY <1>1, <1>3, <1>4, SlugsAre DEF CommandTells, StandaloneTells
<1>11. LinkTells'
  BY <1>1, <1>2, <1>3, <1>4, <1>5, <1>8, ClientsAre DEF CommandTells, LinkTells
<1>12. RemovalTells'
  BY <1>1, <1>3, <1>4, <1>6, SlugsAre, ClientsAre
     DEF CommandTells, RemovalTells, Clear, W!Listed
<1>13. NoStrays'
  BY <1>1, <1>3, <1>4, <1>6, SlugsAre, ClientsAre
     DEF CommandTells, NoStrays, Moving, W!Listed
<1>14. QED
  BY <1>1, <1>3, <1>4, <1>7, <1>9, <1>10, <1>11, <1>12, <1>13, UnsettledConverges
     DEF WiringInv, CommandTells

\* What is in the clients' files is of its type.
FilesOK ==
  /\ entry \in [W!Clients -> [W!Slugs -> {"none", "live", "stale"}]]
  /\ shape \in [W!Clients -> {"whole", "empty", "cut"}]
  /\ \A c \in W!Clients : shape[c] # "whole" => c \in Json /\ c \notin mine /\ entry[c] = W!Bare
  /\ mine \subseteq W!Clients /\ bak \subseteq Json \cup Toml /\ hit \subseteq W!Clients

\* A write that fails or is killed leaves a file as it was or torn, and the
\* user's server where it may still be found; the other files stay.
LEMMA TornTells ==
  ASSUME W!TypeOK, W!UserServerKept, NEW c \in W!Clients, c \notin Cli, W!Parses(c),
         \/ W!Torn(c)
         \/ UNCHANGED <<entry, shape, mine, hit>> /\ bak' \in {bak, bak \ {c}}
  PROVE  FilesOK' /\ W!UserServerKept' /\ \A d \in W!Clients \ {c} : entry'[d] = entry[d]
<1>1. CASE UNCHANGED <<entry, shape, mine, hit>> /\ bak' \in {bak, bak \ {c}}
  BY <1>1, ParsedIsWhole DEF FilesOK, W!TypeOK, W!UserServerKept
<1>2. CASE W!Torn(c)
  <2>1. PICK how \in {"empty", "cut"} :
          /\ W!Backup(c) /\ entry' = [entry EXCEPT ![c] = W!Bare] /\ mine' = mine \ {c}
          /\ shape' = [shape EXCEPT ![c] = IF c \in Json THEN how ELSE "whole"]
          /\ hit' = IF c \in Toml \/ how = "empty" THEN hit \cup {c} ELSE hit
    BY <1>2 DEF W!Torn
  <2>2. /\ bak' \subseteq Json \cup Toml /\ (c \in mine => c \in bak')
        /\ \A d \in W!Clients \ {c} : d \in bak' <=> d \in bak
    BY <2>1, BackedUp, ClientsAre
  <2>3. /\ shape' \in [W!Clients -> {"whole", "empty", "cut"}]
        /\ shape'[c] = (IF c \in Json THEN how ELSE "whole")
        /\ \A d \in W!Clients \ {c} : shape'[d] = shape[d]
    BY <2>1 DEF W!TypeOK
  <2>4. W!Bare \in [W!Slugs -> {"none", "live", "stale"}]
    BY DEF W!Bare
  <2>5. /\ entry' \in [W!Clients -> [W!Slugs -> {"none", "live", "stale"}]]
        /\ entry'[c] = W!Bare /\ \A d \in W!Clients \ {c} : entry'[d] = entry[d]
    BY <2>1, <2>4 DEF W!TypeOK
  <2>6. /\ \A d \in W!Clients : shape'[d] # "whole" => d \in Json /\ d \notin mine' /\ entry'[d] = W!Bare
        /\ mine' \subseteq W!Clients /\ hit' \subseteq W!Clients
    BY <2>1, <2>3, <2>5 DEF W!TypeOK
  <2>7. W!UserServerKept'
    BY <2>1, <2>2, <2>3, ParsedIsWhole, ClientsAre DEF W!UserServerKept
  <2>8. QED
    BY <2>2, <2>3, <2>5, <2>6, <2>7 DEF FilesOK
<1>3. QED
  BY <1>1, <1>2

\* A write raises: the client is among the bad ones.
LEMMA WriteFailsStep ==
  ASSUME WiringInv, NEW c \in W!Clients, W!WriteFails(c)
  PROVE  WiringInv'
<1>1. /\ W!TypeOK /\ PlanIsKept /\ CommandTells /\ W!UserServerKept /\ W!Converges
  BY DEF WiringInv
<1>2. PICK do \in {"put", "direct", "drop"} : W!At(do, c)
  BY DEF W!WriteFails
<1>3. /\ c \notin Cli /\ W!Parses(c) /\ W!Fault /\ W!Done(c, {}, {c}) /\ mixed' = TRUE
      /\ \/ W!Torn(c)
         \/ UNCHANGED <<entry, shape, mine, hit>> /\ bak' \in {bak, bak \ {c}}
      /\ UNCHANGED <<unmanaged, manifest, hook, settled>>
  BY DEF W!WriteFails
<1>4. /\ op.kind # "none" /\ settled = W!Nothing
      /\ op'.kind = op.kind /\ op'.put = op.put /\ op'.drop = op.drop
      /\ op'.oks = op.oks /\ op'.bad = op.bad \cup {c}
      /\ op' \in [kind : W!Kinds, todo : SUBSET W!Steps, put : SUBSET W!Slugs,
                  drop : SUBSET W!Slugs, oks : SUBSET W!Clients, bad : SUBSET (W!Clients \cup W!Chores)]
      /\ op'.todo \subseteq op.todo
      /\ Left(do, c) /\ \A d, e : Left(d, e)' <=> Left(d, e) /\ ~(d = do /\ e = c)
  <2>1. {c} \in SUBSET W!Clients /\ {} \in SUBSET W!Clients
    OBVIOUS
  <2>2. DidStep(do, c, {}, {c})
    BY <1>1, <1>2, <1>3, <2>1, StepDone
  <2>3. QED
    BY <2>2 DEF DidStep
<1>5. /\ do = "put" => op.kind \in {"register", "gateway", "install", "link"}
      /\ do = "direct" => op.kind = "standalone"
      /\ do = "drop" => /\ op.kind \in {"standalone", "link", "uninstall", "repair"}
                        /\ op.kind = "link" => ~Left("manage", "all")
  BY <1>1, <1>2, InOrder
<1>6. FilesOK' /\ W!UserServerKept' /\ \A d \in W!Clients \ {c} : entry'[d] = entry[d]
  BY <1>1, <1>3, TornTells
<1>7. W!TypeOK' /\ PlanIsKept'
  <2>1. faults' \in 0..MaxFaults
    BY <1>1, <1>3, Bounds DEF W!TypeOK, W!Fault
  <2>2. QED
    BY <1>1, <1>3, <1>4, <1>6, <2>1 DEF W!TypeOK, FilesOK, PlanIsKept
<1>8. c \notin op.oks \/ op.kind \in {"register", "standalone", "link", "repair"}
  BY <1>1, <1>4, <1>5 DEF CommandTells, GatewayTells, RemovalTells, W!TypeOK, W!Kinds
<1>9. op.oks \subseteq W!Clients
  BY <1>1 DEF W!TypeOK
<1>10. GatewayTells'
  BY <1>1, <1>3, <1>4, <1>5, <1>6, <1>8, <1>9 DEF CommandTells, GatewayTells, Clear, W!Listed
<1>11. StandaloneTells'
  BY <1>1, <1>3, <1>4, <1>6 DEF CommandTells, StandaloneTells
<1>12. LinkTells'
  BY <1>1, <1>3, <1>4, <1>5, <1>6 DEF CommandTells, LinkTells
<1>13. RemovalTells'
  BY <1>1, <1>3, <1>4 DEF CommandTells, RemovalTells
<1>14. NoStrays'
  BY <1>3 DEF NoStrays
<1>15. QED
  BY <1>1, <1>3, <1>4, <1>6, <1>7, <1>10, <1>11, <1>12, <1>13, <1>14, UnsettledConverges
     DEF WiringInv, CommandTells

\* The CLI fails: it says so, or it is not looked at.
LEMMA CliFailsStep ==
  ASSUME WiringInv, NEW c \in W!Clients, W!CliFails(c)
  PROVE  WiringInv'
<1>1. /\ W!TypeOK /\ PlanIsKept /\ CommandTells /\ W!UserServerKept /\ W!Converges
  BY DEF WiringInv
<1>2. PICK do \in {"put", "direct", "drop"} : W!At(do, c)
  BY DEF W!CliFails
<1>3. /\ c \in Cli /\ W!Fault /\ mixed' = TRUE
      /\ UNCHANGED <<shape, mine, bak, unmanaged, manifest, hook, settled, hit>>
  BY DEF W!CliFails
<1>4. /\ do = "put" => op.kind \in {"register", "gateway", "install", "link"}
      /\ do = "direct" => op.kind = "standalone"
      /\ do = "drop" => /\ op.kind \in {"standalone", "link", "uninstall", "repair"}
                        /\ op.kind = "link" => ~Left("manage", "all")
  BY <1>1, <1>2, InOrder
<1>5. PICK o \in SUBSET {c}, b \in SUBSET {c}, put \in SUBSET W!Slugs, drop \in SUBSET W!Slugs :
        /\ W!Done(c, o, b) /\ W!Rewrite(c, put, drop)
        /\ \/ b = {c} /\ o = {} /\ put = {}
           \/ b = {} /\ o = {c} /\ drop = {} /\ put = IF do = "drop" THEN {} ELSE op.put
  <2>1. op.put \in SUBSET W!Slugs /\ op.drop \in SUBSET W!Slugs /\ {} \in SUBSET W!Slugs
    BY <1>1 DEF W!TypeOK
  <2>2. CASE \E gone \in {{}, op.put} :
               /\ W!Rewrite(c, {}, gone \cup IF W!At("put", c) /\ op.kind # "link" THEN op.drop ELSE {})
               /\ W!Done(c, {}, {c})
    <3>1. PICK gone \in {{}, op.put} :
            /\ W!Rewrite(c, {}, gone \cup IF W!At("put", c) /\ op.kind # "link" THEN op.drop ELSE {})
            /\ W!Done(c, {}, {c})
      BY <2>2
    <3>2. gone \cup (IF W!At("put", c) /\ op.kind # "link" THEN op.drop ELSE {}) \in SUBSET W!Slugs
      BY <2>1
    <3>3. {} \in SUBSET {c} /\ {c} \in SUBSET {c}
      OBVIOUS
    <3>4. QED
      BY <2>1, <3>1, <3>2, <3>3
  <2>3. CASE W!Rewrite(c, IF W!At("drop", c) THEN {} ELSE op.put, {}) /\ W!Done(c, {c}, {})
    <3>1. W!At("drop", c) <=> do = "drop"
      <4>1. Left(do, c) /\ (W!At("drop", c) => Left("drop", c))
        BY <1>2 DEF W!At, Left
      <4>2. QED
        BY <1>1, <1>2, <1>4, <4>1, InOrder
    <3>2. {} \in SUBSET {c} /\ {c} \in SUBSET {c}
      OBVIOUS
    <3>3. QED
      BY <2>1, <2>3, <3>1, <3>2
  <2>4. QED
    BY <2>2, <2>3 DEF W!CliFails
<1>6. /\ op.kind # "none" /\ settled = W!Nothing
      /\ op'.kind = op.kind /\ op'.put = op.put /\ op'.drop = op.drop
      /\ op'.oks = op.oks \cup o /\ op'.bad = op.bad \cup b
      /\ op' \in [kind : W!Kinds, todo : SUBSET W!Steps, put : SUBSET W!Slugs,
                  drop : SUBSET W!Slugs, oks : SUBSET W!Clients, bad : SUBSET (W!Clients \cup W!Chores)]
      /\ op'.todo \subseteq op.todo
      /\ Left(do, c) /\ \A d, e : Left(d, e)' <=> Left(d, e) /\ ~(d = do /\ e = c)
  <2>1. o \in SUBSET W!Clients /\ b \in SUBSET W!Clients
    OBVIOUS
  <2>2. DidStep(do, c, o, b)
    BY <1>1, <1>2, <1>5, <2>1, StepDone
  <2>3. QED
    BY <2>2 DEF DidStep
<1>7. /\ entry' \in [W!Clients -> [W!Slugs -> {"none", "live", "stale"}]]
      /\ \A s \in put : s \in W!Slugs => entry'[c][s] = "live"
      /\ \A s \in W!Slugs \ put : entry'[c][s] = IF s \in drop THEN "none" ELSE entry[c][s]
      /\ \A d \in W!Clients \ {c} : entry'[d] = entry[d]
  BY <1>1, <1>5, Rewritten
<1>8. W!TypeOK' /\ PlanIsKept' /\ W!UserServerKept'
  <2>1. faults' \in 0..MaxFaults
    BY <1>1, <1>3, Bounds DEF W!TypeOK, W!Fault
  <2>2. \A d \in W!Clients : shape[d] # "whole" => d # c
    BY <1>1, <1>3, ClientsAre DEF W!TypeOK
  <2>3. \A d \in W!Clients : shape[d] # "whole" => d \in Json /\ d \notin mine /\ entry'[d] = W!Bare
    BY <1>1, <1>7, <2>2 DEF W!TypeOK
  <2>4. QED
    BY <1>1, <1>3, <1>6, <1>7, <2>1, <2>3 DEF W!TypeOK, PlanIsKept, W!UserServerKept
<1>9. c \notin op.oks \/ op.kind \in {"register", "standalone", "link", "repair"}
  BY <1>1, <1>4, <1>6 DEF CommandTells, GatewayTells, RemovalTells, W!TypeOK, W!Kinds
<1>10. op.oks \subseteq W!Clients
  BY <1>1 DEF W!TypeOK
<1>11. GatewayTells'
  BY <1>1, <1>3, <1>4, <1>5, <1>6, <1>7, <1>9, <1>10, SlugsAre
     DEF CommandTells, GatewayTells, PlanIsKept, Clear, W!Listed
<1>12. StandaloneTells'
  BY <1>1, <1>3, <1>4, <1>5, <1>6, <1>7, SlugsAre DEF CommandTells, StandaloneTells, PlanIsKept
<1>13. LinkTells'
  BY <1>1, <1>3, <1>4, <1>5, <1>6, <1>7, SlugsAre DEF CommandTells, LinkTells, PlanIsKept
<1>14. RemovalTells'
  BY <1>1, <1>3, <1>4, <1>5, <1>6 DEF CommandTells, RemovalTells
<1>15. NoStrays'
  BY <1>3 DEF NoStrays
<1>16. QED
  BY <1>1, <1>3, <1>6, <1>8, <1>11, <1>12, <1>13, <1>14, <1>15, UnsettledConverges
     DEF WiringInv, CommandTells

\* The list of unmanaged tools is changed: tools are taken back, or let go.
LEMMA SettingsStep ==
  ASSUME WiringInv, W!Settings \/ W!SettingsFail
  PROVE  WiringInv'
<1>1. /\ W!TypeOK /\ PlanIsKept /\ CommandTells /\ W!UserServerKept /\ W!Converges
  BY DEF WiringInv
<1>2. PICK do \in {"manage", "release", "wipe"} :
        /\ W!At(do, "all")
        /\ \/ /\ W!Done("all", {}, {}) /\ faults' = faults
              /\ unmanaged' = IF do = "release" THEN unmanaged \cup op.put
                              ELSE IF do = "manage" /\ op.kind = "link" THEN unmanaged \ op.drop ELSE {}
           \/ /\ W!Done("all", {}, {"manage"}) /\ W!Fault
              /\ do = "manage" /\ op.kind = "install" /\ unmanaged' = unmanaged
  BY DEF W!Settings, W!SettingsFail
<1>3. UNCHANGED <<entry, shape, mine, bak, manifest, hook, settled, mixed, hit>>
  BY DEF W!Settings, W!SettingsFail
<1> DEFINE fails == do = "manage" /\ op.kind = "install" /\ unmanaged' = unmanaged /\ "manage" \in op'.bad
           done == unmanaged' = IF do = "release" THEN unmanaged \cup op.put
                                ELSE IF do = "manage" /\ op.kind = "link" THEN unmanaged \ op.drop ELSE {}
<1>4. /\ op.kind # "none" /\ settled = W!Nothing
      /\ op'.kind = op.kind /\ op'.put = op.put /\ op'.drop = op.drop
      /\ op'.oks = op.oks /\ op.bad \subseteq op'.bad /\ W!Clients \ op'.bad \subseteq W!Clients \ op.bad
      /\ op' \in [kind : W!Kinds, todo : SUBSET W!Steps, put : SUBSET W!Slugs,
                  drop : SUBSET W!Slugs, oks : SUBSET W!Clients, bad : SUBSET (W!Clients \cup W!Chores)]
      /\ op'.todo \subseteq op.todo
      /\ Left(do, "all") /\ \A d, e : Left(d, e)' <=> Left(d, e) /\ ~(d = do /\ e = "all")
      /\ faults' \in 0..MaxFaults /\ (done \/ fails)
  <2>1. /\ {} \in SUBSET W!Clients
        /\ {} \in SUBSET (W!Clients \cup W!Chores) /\ {"manage"} \in SUBSET (W!Clients \cup W!Chores)
    BY DEF W!Chores
  <2>2. faults' \in 0..MaxFaults
    BY <1>1, <1>2, Bounds DEF W!TypeOK, W!Fault
  <2>3. CASE W!Done("all", {}, {}) /\ done
    <3>1. DidStep(do, "all", {}, {})
      BY <1>1, <1>2, <2>1, <2>3, StepDone
    <3>2. QED
      BY <2>2, <2>3, <3>1 DEF DidStep
  <2>4. CASE W!Done("all", {}, {"manage"}) /\ do = "manage" /\ op.kind = "install" /\ unmanaged' = unmanaged
    <3>1. DidStep(do, "all", {}, {"manage"})
      BY <1>1, <1>2, <2>1, <2>4, StepDone
    <3>2. QED
      BY <2>2, <2>4, <3>1 DEF DidStep
  <2>5. QED
    BY <1>2, <2>3, <2>4
<1>5. /\ do = "manage" => op.kind \in {"gateway", "install", "link"}
      /\ do = "release" => op.kind = "standalone" /\ \A d : ~Left("direct", d)
      /\ do = "wipe" => op.kind = "repair"
  BY <1>1, <1>2, InOrder
<1>6. unmanaged' \subseteq Tools
  BY <1>1, <1>2, <1>5 DEF W!TypeOK, PlanIsKept
<1>7. W!TypeOK' /\ PlanIsKept' /\ W!UserServerKept'
  BY <1>1, <1>3, <1>4, <1>6 DEF W!TypeOK, PlanIsKept, W!UserServerKept
<1>8. GatewayTells'
  BY <1>1, <1>2, <1>3, <1>4, <1>5 DEF CommandTells, GatewayTells, Clear, W!Listed
<1>9. StandaloneTells'
  BY <1>1, <1>2, <1>3, <1>4, <1>5 DEF CommandTells, StandaloneTells
<1>10. LinkTells'
  BY <1>1, <1>2, <1>3, <1>4, <1>5, ClientsAre DEF CommandTells, LinkTells
<1>11. RemovalTells'
  BY <1>1, <1>2, <1>3, <1>4, <1>5 DEF CommandTells, RemovalTells, Clear, W!Listed
<1>12. NoStrays'
  BY <1>1, <1>2, <1>3, <1>4, <1>5, ClientsAre
     DEF CommandTells, NoStrays, Moving, GatewayTells, LinkTells, RemovalTells, PlanIsKept,
         Clear, W!Listed
<1>13. QED
  BY <1>1, <1>3, <1>4, <1>7, <1>8, <1>9, <1>10, <1>11, <1>12, UnsettledConverges
     DEF WiringInv, CommandTells

\* The hook, the manifest and the code come and go apart from the clients.
LEMMA OtherStep ==
  ASSUME WiringInv, W!DeployHook \/ W!DeployFails \/ W!WriteManifest \/ W!RemoveHook \/ W!RemoveCode
  PROVE  WiringInv'
<1>1. /\ W!TypeOK /\ PlanIsKept /\ CommandTells /\ W!UserServerKept /\ W!Converges
  BY DEF WiringInv
<1>2. PICK do \in {"hook", "sync", "manifest", "unhook", "remove"}, b \in {{}, {"hook"}, {"entry"}} :
        /\ W!At(do, "all") /\ W!Done("all", {}, b)
        /\ faults' = faults \/ W!Fault
        /\ b # {} => do = "hook"
        /\ do = "hook" => \/ b = {} /\ hook' = [file |-> "same", entry |-> W!Upsert(hook.entry)]
                         \/ \E file \in {hook.file, "other", "same"} :
                              /\ hook' = [hook EXCEPT !.file = file]
                              /\ b = {"hook"} \/ (b = {"entry"} /\ hook'.file = "same")
        /\ do = "unhook" => \E f \in {"none", hook.file}, e \in {"none", hook.entry} :
                              hook' = [file |-> f, entry |-> e]
        /\ do \notin {"hook", "unhook"} => hook' = hook
        /\ do = "sync" => manifest' = W!Synced(manifest)
        /\ do = "manifest" => manifest' = W!Recorded(manifest)
        /\ do = "remove" => manifest' = [clients |-> {}, hooks |-> FALSE]
        /\ do \in {"hook", "unhook"} => manifest' = manifest
        /\ unmanaged' = IF do = "remove" THEN {} ELSE unmanaged
  <2>1. CASE W!DeployHook
    BY <2>1 DEF W!DeployHook
  <2>2. CASE W!DeployFails
    <3>1. PICK b \in {{"hook"}, {"entry"}} : W!Done("all", {}, b) /\ (b = {"entry"} => hook'.file = "same")
      BY <2>2 DEF W!DeployFails
    <3>2. QED
      BY <2>2, <3>1 DEF W!DeployFails
  <2>3. CASE W!WriteManifest
    BY <2>3 DEF W!WriteManifest
  <2>4. CASE W!RemoveHook
    BY <2>4 DEF W!RemoveHook
  <2>5. CASE W!RemoveCode
    BY <2>5 DEF W!RemoveCode
  <2>6. QED
    BY <2>1, <2>2, <2>3, <2>4, <2>5
<1>3. UNCHANGED <<entry, shape, mine, bak, settled, mixed, hit>>
  BY DEF W!DeployHook, W!DeployFails, W!WriteManifest, W!RemoveHook, W!RemoveCode
<1>4. /\ op.kind # "none" /\ settled = W!Nothing
      /\ op'.kind = op.kind /\ op'.put = op.put /\ op'.drop = op.drop
      /\ op'.oks = op.oks /\ op'.bad = op.bad \cup b /\ W!Clients \ op'.bad \subseteq W!Clients \ op.bad
      /\ op' \in [kind : W!Kinds, todo : SUBSET W!Steps, put : SUBSET W!Slugs,
                  drop : SUBSET W!Slugs, oks : SUBSET W!Clients, bad : SUBSET (W!Clients \cup W!Chores)]
      /\ op'.todo \subseteq op.todo
      /\ Left(do, "all") /\ \A d, e : Left(d, e)' <=> Left(d, e) /\ ~(d = do /\ e = "all")
  <2>1. {} \in SUBSET W!Clients /\ b \in SUBSET (W!Clients \cup W!Chores)
    BY <1>2 DEF W!Chores
  <2>2. DidStep(do, "all", {}, b)
    BY <1>1, <1>2, <2>1, StepDone
  <2>3. QED
    BY <2>2 DEF DidStep
<1>17. faults' \in 0..MaxFaults
  BY <1>1, <1>2, Bounds DEF W!TypeOK, W!Fault
<1>5. /\ do = "hook" => op.kind = "install"
      /\ do = "sync" => op.kind \in {"register", "gateway"}
      /\ do = "manifest" => op.kind = "install"
      /\ do = "unhook" => op.kind = "uninstall"
      /\ do = "remove" => op.kind = "uninstall" /\ \A d : ~Left("drop", d)
  BY <1>1, <1>2, InOrder
<1>6. /\ hook \in [file : {"none", "same", "other"}, entry : {"none", "live", "stale"}]
      /\ manifest \in [clients : SUBSET W!Clients, hooks : BOOLEAN]
  BY <1>1 DEF W!TypeOK
<1>7. do = "hook" => "hook" \in op'.bad \/ (hook'.file = "same" /\ ("entry" \in op'.bad \/ hook'.entry = "live"))
  <2>1. CASE hook' = [file |-> "same", entry |-> W!Upsert(hook.entry)]
    BY <1>6, <2>1 DEF W!Upsert, W!EntryIsDead
  <2>2. QED
    BY <1>2, <1>4, <2>1
<1>8. do = "manifest" => /\ manifest' \in [clients : SUBSET W!Clients, hooks : BOOLEAN]
                         /\ manifest'.clients = W!Clients
                         /\ Neuron \in Tools /\ "hook" \notin op.bad => manifest'.hooks
  <2>1. ASSUME do = "manifest"
        PROVE  manifest' = [manifest EXCEPT !.clients = W!Clients,
                                            !.hooks = @ \/ (Neuron \in Tools /\ "hook" \notin op.bad)]
    BY <1>2, <2>1 DEF W!Recorded
  <2>2. QED
    BY <1>6, <2>1
<1>9. hook' \in [file : {"none", "same", "other"}, entry : {"none", "live", "stale"}]
  <2>1. CASE do = "hook" /\ hook' = [file |-> "same", entry |-> W!Upsert(hook.entry)]
    BY <1>6, <2>1 DEF W!Upsert
  <2>2. ASSUME NEW file \in {hook.file, "other", "same"}, hook' = [hook EXCEPT !.file = file]
        PROVE  hook' \in [file : {"none", "same", "other"}, entry : {"none", "live", "stale"}]
    BY <1>6, <2>2
  <2>3. ASSUME NEW f \in {"none", hook.file}, NEW e \in {"none", hook.entry}, hook' = [file |-> f, entry |-> e]
        PROVE  hook' \in [file : {"none", "same", "other"}, entry : {"none", "live", "stale"}]
    BY <1>6, <2>3
  <2>4. QED
    BY <1>2, <1>6, <2>1, <2>2, <2>3
<1>10. manifest' \in [clients : SUBSET W!Clients, hooks : BOOLEAN]
  <2>1. W!Synced(manifest) \in [clients : SUBSET W!Clients, hooks : BOOLEAN]
    BY <1>1, <1>6 DEF W!Synced, W!TypeOK
  <2>2. /\ [clients |-> {}, hooks |-> FALSE] \in [clients : SUBSET W!Clients, hooks : BOOLEAN]
    OBVIOUS
  <2>3. do # "manifest" => manifest' \in {manifest, W!Synced(manifest), [clients |-> {}, hooks |-> FALSE]}
    BY <1>2
  <2>4. QED
    BY <1>6, <1>8, <2>1, <2>2, <2>3
<1>11. W!TypeOK' /\ PlanIsKept' /\ W!UserServerKept'
  BY <1>1, <1>2, <1>3, <1>4, <1>9, <1>10, <1>17 DEF W!TypeOK, PlanIsKept, W!UserServerKept
<1>12. GatewayTells'
  BY <1>1, <1>2, <1>3, <1>4, <1>5, <1>7, <1>8 DEF CommandTells, GatewayTells, Clear, W!Listed
<1>13. StandaloneTells' /\ LinkTells'
  BY <1>1, <1>2, <1>3, <1>4, <1>5 DEF CommandTells, StandaloneTells, LinkTells
<1>14. RemovalTells'
  BY <1>1, <1>2, <1>3, <1>4, <1>5 DEF CommandTells, RemovalTells, Clear, W!Listed
<1>15. NoStrays'
  BY <1>1, <1>2, <1>3, <1>4, <1>5, ClientsAre
     DEF CommandTells, NoStrays, Moving, RemovalTells, Clear, W!Listed
<1>16. QED
  BY <1>1, <1>3, <1>4, <1>11, <1>12, <1>13, <1>14, <1>15, UnsettledConverges
     DEF WiringInv, CommandTells

\* No command is under way.
LEMMA IdleTells ==
  ASSUME op = W!NoOp
  PROVE  /\ op.kind = "none" /\ op.todo = {} /\ \A d, e : ~Left(d, e)
         /\ PlanIsKept /\ GatewayTells /\ StandaloneTells /\ LinkTells /\ RemovalTells
         /\ (CommandTells <=> NoStrays) /\ \A c, t : ~Moving(c, t)
BY DEF W!NoOp, Left, PlanIsKept, GatewayTells, StandaloneTells, LinkTells, RemovalTells, CommandTells,
   Moving

\* So after a step.
LEMMA IdleWillTell ==
  ASSUME op' = W!NoOp
  PROVE  /\ op'.kind = "none" /\ PlanIsKept' /\ (CommandTells' <=> NoStrays') /\ \A c, t : ~Moving(c, t)'
BY DEF W!NoOp, Left, PlanIsKept, GatewayTells, StandaloneTells, LinkTells, RemovalTells, CommandTells,
   Moving

\* No command under way is of its type.
LEMMA NoOpIsTyped ==
  W!NoOp \in [kind : W!Kinds, todo : SUBSET W!Steps, put : SUBSET W!Slugs,
              drop : SUBSET W!Slugs, oks : SUBSET W!Clients, bad : SUBSET (W!Clients \cup W!Chores)]
BY DEF W!NoOp, W!Kinds

\* A command is over, and what it promised is so.
LEMMA FinishStep ==
  ASSUME WiringInv, W!Finish
  PROVE  WiringInv'
<1>1. /\ W!TypeOK /\ PlanIsKept /\ CommandTells /\ W!UserServerKept /\ W!Converges
  BY DEF WiringInv
<1>2. /\ op.kind # "none" /\ op.todo = {} /\ op' = W!NoOp
      /\ settled' = [kind |-> op.kind, oks |-> op.oks, bad |-> op.bad]
      /\ mixed' = (mixed /\ ~(op.kind \in {"gateway", "install"} /\ op.oks = W!Clients
                              /\ \A c \in Cli, t \in Tools : ~W!Listed(c, t)))
      /\ UNCHANGED <<entry, shape, mine, bak, unmanaged, manifest, hook, faults, hit>>
  BY DEF W!Finish
<1>3. \A d, e : ~Left(d, e)
  BY <1>2 DEF Left
<1>4. W!TypeOK'
  <2>1. settled' \in [kind : W!Kinds, oks : SUBSET W!Clients, bad : SUBSET (W!Clients \cup W!Chores)]
    BY <1>1, <1>2 DEF W!TypeOK
  <2>2. mixed' \in BOOLEAN
    BY <1>2
  <2>3. QED
    BY <1>1, <1>2, <2>1, <2>2, NoOpIsTyped DEF W!TypeOK
<1>5. ~mixed' => ~mixed \/ (op.kind \in {"gateway", "install"} /\ op.oks = W!Clients
                            /\ \A c \in Cli, t \in Tools : ~W!Listed(c, t))
  BY <1>2
<1>6. NoStrays'
  <2>1. ASSUME ~mixed, NEW c \in Json \cup Cli, NEW t \in Tools \ unmanaged, W!Listed(c, t)
        PROVE  FALSE
    <3>1. Moving(c, t)
      BY <1>1, <2>1 DEF CommandTells, NoStrays
    <3>2. op.kind = "standalone" /\ t \in op.put
      BY <1>3, <3>1 DEF Moving
    <3>3. QED
      BY <1>1, <1>3, <2>1, <3>2 DEF CommandTells, StandaloneTells
  <2>2. ASSUME op.kind \in {"gateway", "install"}, op.oks = W!Clients,
               \A c \in Cli, t \in Tools : ~W!Listed(c, t)
        PROVE  \A c \in Json \cup Cli, t \in Tools : ~W!Listed(c, t)
    BY <1>1, <2>2, ClientsAre DEF CommandTells, GatewayTells, Clear
  <2>3. \A c, t : W!Listed(c, t)' <=> W!Listed(c, t)
    BY <1>2 DEF W!Listed
  <2>4. QED
    BY <1>2, <1>5, <2>1, <2>2, <2>3 DEF NoStrays
<1>7. W!Converges'
  <2>1. \A c, s : W!Listed(c, s)' <=> W!Listed(c, s)
    BY <1>2 DEF W!Listed
  <2>2. ASSUME op.kind = "install", op.oks = W!Clients
        PROVE  /\ "manage" \in op.bad \/ unmanaged' = {}
               /\ manifest'.clients = W!Clients
               /\ \A c \in W!Clients : entry'[c][GM] = "live"
               /\ Neuron \in Tools /\ "hook" \notin op.bad =>
                    /\ manifest'.hooks /\ hook'.file = "same"
                    /\ "entry" \in op.bad \/ hook'.entry = "live"
               /\ ~mixed' => \A c \in W!Clients : Clear(c)
    BY <1>1, <1>2, <1>3, <1>5, <2>2, ClientsAre DEF CommandTells, GatewayTells, Clear
  <2>3. ASSUME op.kind = "install", op.oks = W!Clients, ~mixed'
        PROVE  W!McpEntriesOk'
    BY <1>2, <2>2, <2>3, SlugsAre DEF W!McpEntriesOk, Clear, W!Listed
  <2>4. ASSUME op.kind = "uninstall", NEW c \in op.oks, NEW s \in W!Slugs, ~mixed'
        PROVE  ~W!Listed(c, s)
    BY <1>1, <1>5, <2>4 DEF CommandTells, RemovalTells
  <2>5. QED
    BY <1>2, <2>1, <2>2, <2>3, <2>4 DEF W!Converges, W!HookEntryOk, W!HookFileOk, Clear
<1>8. W!UserServerKept'
  BY <1>1, <1>2 DEF W!UserServerKept
<1>9. QED
  BY <1>2, <1>4, <1>6, <1>7, <1>8, IdleWillTell DEF WiringInv

\* A command is killed: whatever it has left, none is under way.
LEMMA KillStep ==
  ASSUME WiringInv, W!Kill
  PROVE  WiringInv'
<1>1. /\ W!TypeOK /\ PlanIsKept /\ W!UserServerKept /\ W!Converges
  BY DEF WiringInv
<1>2. /\ op.kind # "none" /\ W!Fault /\ op' = W!NoOp /\ mixed' = TRUE
      /\ UNCHANGED <<unmanaged, manifest, hook, settled>>
  BY DEF W!Kill
<1>3. FilesOK' /\ W!UserServerKept'
  <2>1. CASE UNCHANGED <<entry, shape, mine, bak, hit>>
    BY <1>1, <2>1 DEF FilesOK, W!TypeOK, W!UserServerKept
  <2>2. ASSUME NEW c \in W!Clients, W!Torn(c) PROVE FilesOK' /\ W!UserServerKept'
    <3>1. c \notin Cli /\ W!Parses(c)
      BY <2>2 DEF W!Torn
    <3>2. QED
      BY <1>1, <2>2, <3>1, TornTells
  <2>3. QED
    BY <2>1, <2>2 DEF W!Kill
<1>4. W!TypeOK'
  <2>1. faults' \in 0..MaxFaults
    BY <1>1, <1>2, Bounds DEF W!TypeOK, W!Fault
  <2>2. QED
    BY <1>1, <1>2, <1>3, <2>1, NoOpIsTyped DEF W!TypeOK, FilesOK
<1>5. NoStrays'
  BY <1>2 DEF NoStrays
<1>6. settled' = W!Nothing
  BY <1>1, <1>2 DEF PlanIsKept
<1>7. QED
  BY <1>2, <1>3, <1>4, <1>5, <1>6, IdleWillTell, UnsettledConverges DEF WiringInv

\* Before a command: the environment moves, or the user takes a .bak.
LEMMA IdleStep ==
  ASSUME WiringInv, W!Rebuild \/ \E c \in W!Clients : W!Restore(c)
  PROVE  WiringInv'
<1>1. /\ W!TypeOK /\ PlanIsKept /\ CommandTells /\ W!UserServerKept
  BY DEF WiringInv
<1>2. /\ op = W!NoOp /\ op' = W!NoOp /\ settled' = W!Nothing
      /\ UNCHANGED <<bak, unmanaged, manifest, faults, mixed, hit>>
  BY DEF W!Rebuild, W!Restore
<1>3. /\ FilesOK' /\ W!UserServerKept'
      /\ \A c \in W!Clients, s \in W!Slugs : W!Listed(c, s)' => W!Listed(c, s)
      /\ hook' \in [file : {"none", "same", "other"}, entry : {"none", "live", "stale"}]
  <2>1. CASE W!Rebuild
    <3>1. /\ entry' = [c \in W!Clients |-> [s \in W!Slugs |-> IF W!Listed(c, s) THEN "stale" ELSE "none"]]
          /\ hook' = [file |-> IF hook.file = "none" THEN "none" ELSE "other",
                      entry |-> IF hook.entry = "none" THEN "none" ELSE "stale"]
          /\ UNCHANGED <<shape, mine>>
      BY <2>1 DEF W!Rebuild
    <3>2. /\ entry' \in [W!Clients -> [W!Slugs -> {"none", "live", "stale"}]]
          /\ \A c \in W!Clients, s \in W!Slugs :
               /\ W!Listed(c, s)' => W!Listed(c, s)
               /\ ~W!Listed(c, s) => entry'[c][s] = "none"
      BY <3>1 DEF W!Listed
    <3>3. ASSUME NEW c \in W!Clients, shape[c] # "whole" PROVE entry'[c] = W!Bare
      BY <1>1, <3>1, <3>3 DEF W!TypeOK, W!Bare, W!Listed
    <3>4. hook' \in [file : {"none", "same", "other"}, entry : {"none", "live", "stale"}]
      BY <3>1
    <3>5. QED
      BY <1>1, <1>2, <3>1, <3>2, <3>3, <3>4 DEF FilesOK, W!TypeOK, W!UserServerKept
  <2>2. ASSUME NEW c \in W!Clients, W!Restore(c)
        PROVE  /\ FilesOK' /\ W!UserServerKept' /\ UNCHANGED <<entry, hook>>
    <3>1. /\ shape[c] = "cut" /\ shape' = [shape EXCEPT ![c] = "whole"]
          /\ mine' = (IF c \in bak THEN mine \cup {c} ELSE mine) /\ UNCHANGED <<entry, hook>>
      BY <2>2 DEF W!Restore
    <3>2. /\ shape' \in [W!Clients -> {"whole", "empty", "cut"}] /\ shape'[c] = "whole"
          /\ \A d \in W!Clients \ {c} : shape'[d] = shape[d]
      BY <1>1, <3>1 DEF W!TypeOK
    <3>3. c \notin mine
      BY <1>1, <3>1 DEF W!TypeOK
    <3>4. QED
      BY <1>1, <1>2, <3>1, <3>2, <3>3 DEF FilesOK, W!TypeOK, W!UserServerKept
  <2>3. ASSUME NEW c \in W!Clients, W!Restore(c)
        PROVE  /\ \A d \in W!Clients, s \in W!Slugs : W!Listed(d, s)' => W!Listed(d, s)
               /\ hook' \in [file : {"none", "same", "other"}, entry : {"none", "live", "stale"}]
    BY <1>1, <2>2, <2>3 DEF W!Listed, W!TypeOK
  <2>4. QED
    BY <2>1, <2>2, <2>3
<1>4. W!TypeOK'
  <2>1. settled' \in [kind : W!Kinds, oks : SUBSET W!Clients, bad : SUBSET (W!Clients \cup W!Chores)]
    BY <1>2 DEF W!Nothing, W!Kinds
  <2>2. QED
    BY <1>1, <1>2, <1>3, <2>1, NoOpIsTyped DEF W!TypeOK, FilesOK
<1>5. NoStrays'
  <2>1. \A c, t : ~Moving(c, t)
    BY <1>2, IdleTells
  <2>2. QED
    BY <1>1, <1>2, <1>3, <2>1, ClientsAre, SlugsAre DEF CommandTells, NoStrays
<1>6. QED
  BY <1>2, <1>3, <1>4, <1>5, IdleWillTell, UnsettledConverges DEF WiringInv

\* The steps of one place of a plan.
LEMMA EachIs ==
  ASSUME NEW n, NEW do, NEW cs, NEW s \in W!Each(n, do, cs)
  PROVE  s.at = n /\ s.do = do /\ s.on \in cs
BY DEF W!Each

\* There is one for each client.
LEMMA EachHas ==
  ASSUME NEW n, NEW do, NEW cs, NEW c \in cs
  PROVE  \E s \in W!Each(n, do, cs) : s.do = do /\ s.on = c
<1>1. [at |-> n, do |-> do, on |-> c] \in W!Each(n, do, cs)
  BY DEF W!Each
<1>2. QED
  BY <1>1

\* They are steps.
LEMMA EachAreSteps ==
  ASSUME NEW n \in 1..4, NEW cs \in SUBSET (W!Clients \cup {"all"}),
         NEW do \in {"put", "direct", "drop", "sync", "manage", "hook", "manifest", "release",
                     "unhook", "remove", "wipe"}
  PROVE  W!Each(n, do, cs) \subseteq W!Steps
BY DEF W!Each, W!Steps

\* What is said of the steps of a plan.
Follows(todo, kind) ==
  \A s \in todo : /\ <<kind, s.at, s.do>> \in Plans
                  /\ s.on = "all" <=> s.do \notin {"put", "direct", "drop"}
Has(todo, do, c) == \E s \in todo : s.do = do /\ s.on = c

\* A command has begun: it has its plan to do, and no tool is where it should not be.
HasBegun(kind, todo, put, drop, mixes) ==
  /\ W!TypeOK' /\ W!UserServerKept' /\ W!Converges' /\ settled' = W!Nothing
  /\ op'.kind = kind /\ op'.put = put /\ op'.drop = drop /\ op'.oks = {} /\ op'.todo = todo
  /\ \A d, e : Left(d, e)' <=> Has(todo, d, e)
  /\ mixed' = (mixed \/ mixes)
  /\ ~mixed' => \A c \in Json \cup Cli, t \in Tools \ unmanaged : ~W!Listed(c, t)
  /\ UNCHANGED <<entry, shape, mine, bak, unmanaged, manifest, hook, faults, hit>>

\* It is so.
LEMMA Began ==
  ASSUME WiringInv, NEW kind \in W!Kinds \ {"none"}, NEW todo \in SUBSET W!Steps,
         NEW put \in SUBSET W!Slugs, NEW drop \in SUBSET W!Slugs, NEW mixes \in BOOLEAN,
         W!Begin(kind, todo, put, drop, mixes)
  PROVE  HasBegun(kind, todo, put, drop, mixes)
<1>1. /\ W!TypeOK /\ CommandTells /\ W!UserServerKept
  BY DEF WiringInv
<1>2. /\ op = W!NoOp /\ settled' = W!Nothing /\ mixed' = (mixed \/ mixes)
      /\ op' = [W!NoOp EXCEPT !.kind = kind, !.todo = todo, !.put = put, !.drop = drop]
      /\ UNCHANGED <<entry, shape, mine, bak, unmanaged, manifest, hook, faults, hit>>
  BY DEF W!Begin
<1>3. /\ op'.kind = kind /\ op'.put = put /\ op'.drop = drop /\ op'.oks = {} /\ op'.todo = todo
      /\ op' \in [kind : W!Kinds, todo : SUBSET W!Steps, put : SUBSET W!Slugs,
                  drop : SUBSET W!Slugs, oks : SUBSET W!Clients, bad : SUBSET (W!Clients \cup W!Chores)]
  BY <1>2 DEF W!NoOp
<1>4. W!TypeOK'
  <2>1. settled' \in [kind : W!Kinds, oks : SUBSET W!Clients, bad : SUBSET (W!Clients \cup W!Chores)]
    BY <1>2 DEF W!Nothing, W!Kinds
  <2>2. mixed' \in BOOLEAN
    BY <1>2
  <2>3. QED
    BY <1>1, <1>2, <1>3, <2>1, <2>2 DEF W!TypeOK
<1>5. W!UserServerKept'
  BY <1>1, <1>2 DEF W!UserServerKept
<1>6. ~mixed' => \A c \in Json \cup Cli, t \in Tools \ unmanaged : ~W!Listed(c, t)
  <2>1. \A c, t : ~Moving(c, t)
    BY <1>2, IdleTells
  <2>2. QED
    BY <1>1, <1>2, <2>1 DEF CommandTells, NoStrays
<1>7. \A d, e : Left(d, e)' <=> Has(todo, d, e)
  BY <1>3 DEF Left, Has
<1>8. QED
  BY <1>2, <1>3, <1>4, <1>5, <1>6, <1>7, UnsettledConverges DEF HasBegun

\* Of the steps of one place.
Place(a, k, do, cs) ==
  /\ a \in SUBSET W!Steps /\ Follows(a, k)
  /\ \A d, e : Has(a, d, e) <=> d = do /\ e \in cs

\* Once or for each client.
LEMMA EachFollows ==
  ASSUME NEW n, NEW k, NEW do, NEW cs \in SUBSET (W!Clients \cup {"all"}),
         <<k, n, do>> \in Plans,
         \A c \in cs : c = "all" <=> do \notin {"put", "direct", "drop"}
  PROVE  Place(W!Each(n, do, cs), k, do, cs)
<1>1. n \in 1..4 /\ do \in {"put", "direct", "drop", "sync", "manage", "hook", "manifest",
                            "release", "unhook", "remove", "wipe"}
  BY DEF Plans
<1>2. Follows(W!Each(n, do, cs), k)
  <2>1. SUFFICES ASSUME NEW s \in W!Each(n, do, cs)
                 PROVE  /\ <<k, s.at, s.do>> \in Plans
                        /\ s.on = "all" <=> s.do \notin {"put", "direct", "drop"}
    BY DEF Follows
  <2>2. s.at = n /\ s.do = do /\ s.on \in cs
    BY EachIs
  <2>3. s.on = "all" <=> s.do \notin {"put", "direct", "drop"}
    BY <2>2
  <2>4. QED
    BY <2>2, <2>3
<1>3. ASSUME NEW d, NEW e, Has(W!Each(n, do, cs), d, e) PROVE d = do /\ e \in cs
  BY <1>3, EachIs DEF Has
<1>4. ASSUME NEW e \in cs PROVE Has(W!Each(n, do, cs), do, e)
  BY EachHas DEF Has
<1>5. W!Each(n, do, cs) \subseteq W!Steps
  BY <1>1, EachAreSteps
<1>6. QED
  BY <1>2, <1>3, <1>4, <1>5 DEF Place

\* For clients.
LEMMA PutsFollow ==
  ASSUME NEW n, NEW k, NEW do \in {"put", "direct", "drop"}, NEW cs \in SUBSET W!Clients,
         <<k, n, do>> \in Plans
  PROVE  Place(W!Each(n, do, cs), k, do, cs)
<1>1. cs \in SUBSET (W!Clients \cup {"all"}) /\ "all" \notin cs
  BY ClientsAre
<1>2. QED
  BY <1>1, EachFollows

\* For all of them.
LEMMA AllFollow ==
  ASSUME NEW n, NEW k, NEW do \in {"put", "direct", "drop"}, <<k, n, do>> \in Plans
  PROVE  LET a == W!Each(n, do, W!Clients)
         IN  /\ a \in SUBSET W!Steps /\ Follows(a, k)
             /\ \A d, e : Has(a, d, e) => d = do
             /\ \A c \in W!Clients : Has(a, do, c)
<1>1. W!Clients \in SUBSET W!Clients
  OBVIOUS
<1>2. Place(W!Each(n, do, W!Clients), k, do, W!Clients)
  BY <1>1, PutsFollow
<1>3. QED
  BY <1>2 DEF Place

\* Once.
LEMMA OnceFollows ==
  ASSUME NEW n, NEW k, NEW do, do \notin {"put", "direct", "drop"}, <<k, n, do>> \in Plans
  PROVE  /\ W!One(n, do) \in SUBSET W!Steps /\ Follows(W!One(n, do), k)
         /\ Has(W!One(n, do), do, "all") /\ \A d, e : Has(W!One(n, do), d, e) => d = do
<1> DEFINE cs == {"all"}
<1>1. cs \in SUBSET (W!Clients \cup {"all"}) /\ (\A c \in cs : c = "all") /\ "all" \in cs
  OBVIOUS
<1>2. W!One(n, do) = W!Each(n, do, cs)
  BY DEF W!One
<1> HIDE DEF cs
<1>3. Place(W!Each(n, do, cs), k, do, cs)
  BY <1>1, EachFollows
<1>4. QED
  BY <1>1, <1>2, <1>3 DEF Place

\* Of two places.
LEMMA BothFollow ==
  ASSUME NEW k, NEW a \in SUBSET W!Steps, NEW b \in SUBSET W!Steps, Follows(a, k), Follows(b, k)
  PROVE  /\ a \cup b \in SUBSET W!Steps /\ Follows(a \cup b, k)
         /\ \A d, e : Has(a \cup b, d, e) <=> Has(a, d, e) \/ Has(b, d, e)
BY DEF Follows, Has

\* A plan that is followed is kept.
LEMMA BegunIsKept ==
  ASSUME NEW todo, op'.todo = todo, Follows(todo, op'.kind), op'.kind # "none",
         settled' = W!Nothing,
         op'.kind = "register" => op'.put = W!Slugs /\ op'.drop = {},
         op'.kind \in {"gateway", "install"} => op'.put = {GM} /\ op'.drop = Tools,
         op'.kind = "standalone" => op'.put \subseteq Tools /\ op'.drop = {GM},
         op'.kind = "link" => op'.put = {GM} /\ op'.drop \subseteq Tools,
         op'.kind \in {"uninstall", "repair"} => op'.put = {} /\ op'.drop = W!Slugs
  PROVE  PlanIsKept'
BY DEF PlanIsKept, Follows


\* Nothing is planned where the plan does not ask for it.
LEMMA IfFollows ==
  ASSUME NEW k, NEW b \in BOOLEAN, NEW a \in SUBSET W!Steps, Follows(a, k)
  PROVE  /\ W!If(b, a) \in SUBSET W!Steps /\ Follows(W!If(b, a), k)
         /\ \A d, e : Has(W!If(b, a), d, e) <=> b /\ Has(a, d, e)
BY DEF W!If, Follows, Has

\* register.
LEMMA RegisterStep ==
  ASSUME WiringInv, NEW only \in Picks, W!Register(only)
  PROVE  WiringInv'
<1> DEFINE A == W!Each(1, "put", only)
           B == W!One(2, "sync")
           todo == A \cup B
           none == {}
<1>1. only \subseteq W!Clients /\ "all" \notin only
  BY WiringRules, ClientsAre
<1>2. <<"register", 1, "put">> \in Plans /\ <<"register", 2, "sync">> \in Plans
  BY DEF Plans
<1>3. A \subseteq W!Steps /\ Follows(A, "register")
  BY <1>1, <1>2, PutsFollow DEF Place
<1>4. B \subseteq W!Steps /\ Follows(B, "register")
  BY <1>2, OnceFollows
<1>5. W!Begin("register", todo, W!Slugs, none, TRUE)
  BY DEF W!Register
<1> HIDE DEF A, B
<1>6. todo \in SUBSET W!Steps /\ Follows(todo, "register")
  BY <1>3, <1>4, BothFollow
<1>7. "register" \in W!Kinds \ {"none"} /\ none \in SUBSET W!Slugs
  BY DEF W!Kinds
<1> HIDE DEF todo
<1>8. none = {}
  OBVIOUS
<1> HIDE DEF none
<1>9. /\ W!TypeOK' /\ W!UserServerKept' /\ W!Converges' /\ settled' = W!Nothing
      /\ op'.kind = "register" /\ op'.put = W!Slugs /\ op'.drop = none /\ op'.todo = todo
      /\ mixed'
  <2>1. HasBegun("register", todo, W!Slugs, none, TRUE)
    BY <1>5, <1>6, <1>7, Began
  <2>2. QED
    BY <2>1 DEF HasBegun
<1>10. PlanIsKept'
  BY <1>6, <1>8, <1>9, BegunIsKept
<1>11. CommandTells'
  BY <1>9 DEF CommandTells, GatewayTells, StandaloneTells, LinkTells, RemovalTells, NoStrays
<1>12. QED
  BY <1>9, <1>10, <1>11 DEF WiringInv

\* To the gateway, or an install, has begun.
LEMMA GatewayBegun ==
  ASSUME WiringInv, NEW only \in Picks, NEW kind \in {"gateway", "install"},
         NEW todo \in SUBSET W!Steps, Follows(todo, kind), Has(todo, "manage", "all"),
         kind = "install" => /\ Neuron \in Tools => Has(todo, "hook", "all")
                             /\ Has(todo, "manifest", "all"),
         \A c \in only : Has(todo, "put", c),
         NEW put, put = {GM}, NEW mixes \in BOOLEAN, mixes = (only # W!Clients),
         W!Begin(kind, todo, put, Tools, mixes)
  PROVE  WiringInv'
<1>1. kind \in W!Kinds \ {"none"} /\ put \in SUBSET W!Slugs /\ Tools \in SUBSET W!Slugs
  BY SlugsAre DEF W!Kinds
<1>2. /\ W!TypeOK' /\ W!UserServerKept' /\ W!Converges' /\ settled' = W!Nothing
      /\ op'.kind = kind /\ op'.put = put /\ op'.drop = Tools /\ op'.oks = {} /\ op'.todo = todo
      /\ \A d, e : Left(d, e)' <=> Has(todo, d, e)
      /\ mixed' = (mixed \/ mixes)
      /\ ~mixed' => \A c \in Json \cup Cli, t \in Tools \ unmanaged : ~W!Listed(c, t)
      /\ UNCHANGED <<entry, unmanaged>>
  <2>1. HasBegun(kind, todo, put, Tools, mixes)
    BY <1>1, Began
  <2>2. QED
    BY <2>1 DEF HasBegun
<1>3. PlanIsKept'
  BY <1>2, BegunIsKept
<1>4. ~mixed' => \A c \in Json \cup Cli : Left("put", c)'
  BY <1>2, ClientsAre
<1>5. GatewayTells'
  BY <1>2, <1>4 DEF GatewayTells
<1>6. NoStrays'
  BY <1>2, <1>4 DEF NoStrays, Moving
<1>7. CommandTells'
  BY <1>2, <1>5, <1>6 DEF CommandTells, StandaloneTells, LinkTells, RemovalTells
<1>8. QED
  BY <1>2, <1>3, <1>7 DEF WiringInv

\* register with gateway.
LEMMA GatewayStep ==
  ASSUME WiringInv, NEW only \in Picks, W!Gateway(only)
  PROVE  WiringInv'
<1> DEFINE A == W!One(1, "manage")
           B == W!Each(2, "put", only)
           D == W!One(3, "sync")
           todo == (A \cup B) \cup D
           put == {GM}
           mixes == only # W!Clients
<1>1. only \subseteq W!Clients /\ "all" \notin only
  BY WiringRules, ClientsAre
<1>2. /\ <<"gateway", 1, "manage">> \in Plans /\ <<"gateway", 2, "put">> \in Plans
      /\ <<"gateway", 3, "sync">> \in Plans
  BY DEF Plans
<1>3. A \subseteq W!Steps /\ Follows(A, "gateway") /\ Has(A, "manage", "all")
  BY <1>2, OnceFollows
<1>4. B \subseteq W!Steps /\ Follows(B, "gateway") /\ \A c \in only : Has(B, "put", c)
  BY <1>1, <1>2, PutsFollow DEF Place
<1>5. D \subseteq W!Steps /\ Follows(D, "gateway")
  BY <1>2, OnceFollows
<1>6. W!Begin("gateway", todo, put, Tools, mixes)
  BY DEF W!Gateway
<1>7. mixes \in BOOLEAN /\ mixes = (only # W!Clients) /\ put = {GM}
  OBVIOUS
<1> HIDE DEF A, B, D, mixes, put
<1>8. A \cup B \in SUBSET W!Steps /\ Follows(A \cup B, "gateway")
  BY <1>3, <1>4, BothFollow
<1>9. todo \in SUBSET W!Steps /\ Follows(todo, "gateway")
  BY <1>5, <1>8, BothFollow
<1>10. Has(todo, "manage", "all") /\ \A c \in only : Has(todo, "put", c)
  BY <1>3, <1>4 DEF Has
<1> HIDE DEF todo
<1>11. QED
  BY <1>6, <1>7, <1>9, <1>10, GatewayBegun

\* install.
LEMMA InstallStep ==
  ASSUME WiringInv, NEW only \in Picks, W!Install(only)
  PROVE  WiringInv'
<1> DEFINE A == W!Each(1, "put", only)
           B == W!One(2, "manage")
           H == W!One(3, "hook")
           D == W!If(Neuron \in Tools, H)
           E == W!One(4, "manifest")
           todo == ((A \cup B) \cup D) \cup E
           put == {GM}
           mixes == only # W!Clients
<1>1. only \subseteq W!Clients /\ "all" \notin only
  BY WiringRules, ClientsAre
<1>2. /\ <<"install", 1, "put">> \in Plans /\ <<"install", 2, "manage">> \in Plans
      /\ <<"install", 3, "hook">> \in Plans /\ <<"install", 4, "manifest">> \in Plans
  BY DEF Plans
<1>3. A \subseteq W!Steps /\ Follows(A, "install") /\ \A c \in only : Has(A, "put", c)
  BY <1>1, <1>2, PutsFollow DEF Place
<1>4. B \subseteq W!Steps /\ Follows(B, "install") /\ Has(B, "manage", "all")
  BY <1>2, OnceFollows
<1>14. H \in SUBSET W!Steps /\ Follows(H, "install") /\ Has(H, "hook", "all")
  BY <1>2, OnceFollows
<1>15. (Neuron \in Tools) \in BOOLEAN
  OBVIOUS
<1> HIDE DEF H
<1>5. D \subseteq W!Steps /\ Follows(D, "install") /\ (Neuron \in Tools => Has(D, "hook", "all"))
  BY <1>14, <1>15, IfFollows
<1>6. E \subseteq W!Steps /\ Follows(E, "install") /\ Has(E, "manifest", "all")
  BY <1>2, OnceFollows
<1>7. W!Begin("install", todo, put, Tools, mixes)
  BY DEF W!Install, W!InstallPlan, H
<1>8. mixes \in BOOLEAN /\ mixes = (only # W!Clients) /\ put = {GM}
  OBVIOUS
<1> HIDE DEF A, B, D, E, mixes, put
<1>9. A \cup B \in SUBSET W!Steps /\ Follows(A \cup B, "install")
  BY <1>3, <1>4, BothFollow
<1>10. (A \cup B) \cup D \in SUBSET W!Steps /\ Follows((A \cup B) \cup D, "install")
  BY <1>5, <1>9, BothFollow
<1>11. todo \in SUBSET W!Steps /\ Follows(todo, "install")
  BY <1>6, <1>10, BothFollow
<1>12. /\ Has(todo, "manage", "all") /\ (Neuron \in Tools => Has(todo, "hook", "all"))
       /\ Has(todo, "manifest", "all")
       /\ \A c \in only : Has(todo, "put", c)
  BY <1>3, <1>4, <1>5, <1>6 DEF Has
<1> HIDE DEF todo
<1>13. QED
  BY <1>7, <1>8, <1>11, <1>12, GatewayBegun

\* deregister: a tool is let go.
LEMMA StandaloneStep ==
  ASSUME WiringInv, NEW t \in Tools, W!Standalone(t)
  PROVE  WiringInv'
<1> DEFINE last == Tools \subseteq unmanaged \cup {t}
           A == W!Each(1, "direct", W!Clients)
           B == W!One(2, "release")
           D == W!Each(3, "drop", W!Clients)
           E == W!If(last, D)
           todo == A \cup (B \cup E)
           put == {t}
           drop == {GM}
<1>1. /\ <<"standalone", 1, "direct">> \in Plans /\ <<"standalone", 2, "release">> \in Plans
      /\ <<"standalone", 3, "drop">> \in Plans
  BY DEF Plans
<1>2. A \in SUBSET W!Steps /\ Follows(A, "standalone")
      /\ (\A d, e : Has(A, d, e) => d = "direct") /\ \A c \in W!Clients : Has(A, "direct", c)
  BY <1>1, AllFollow
<1>3. B \in SUBSET W!Steps /\ Follows(B, "standalone") /\ Has(B, "release", "all")
      /\ \A d, e : Has(B, d, e) => d = "release"
  BY <1>1, OnceFollows
<1>4. D \in SUBSET W!Steps /\ Follows(D, "standalone")
  BY <1>1, AllFollow
<1>5. W!Begin("standalone", todo, put, drop, FALSE)
  BY DEF W!Standalone, W!ReleasePlan
<1>6. /\ last \in BOOLEAN /\ last = (Tools \subseteq unmanaged \cup put)
      /\ drop = {GM} /\ put \subseteq Tools
  OBVIOUS
<1> HIDE DEF A, B, D, last, put, drop
<1>7. E \in SUBSET W!Steps /\ Follows(E, "standalone")
      /\ \A d, e : Has(E, d, e) => last
  BY <1>4, <1>6, IfFollows
<1> HIDE DEF E
<1>8. B \cup E \in SUBSET W!Steps /\ Follows(B \cup E, "standalone")
  BY <1>3, <1>7, BothFollow
<1>9. todo \in SUBSET W!Steps /\ Follows(todo, "standalone")
  BY <1>2, <1>8, BothFollow
<1>10. /\ Has(todo, "release", "all") /\ \A c \in W!Clients : Has(todo, "direct", c)
       /\ \A c : Has(todo, "drop", c) => last
  <2>1. \A d, e : Has(todo, d, e) <=> Has(A, d, e) \/ Has(B, d, e) \/ Has(E, d, e)
    BY DEF Has
  <2>2. QED
    BY <1>2, <1>3, <1>7, <2>1
<1> HIDE DEF todo
<1>11. /\ "standalone" \in W!Kinds \ {"none"} /\ put \in SUBSET W!Slugs
       /\ drop \in SUBSET W!Slugs /\ FALSE \in BOOLEAN
  BY <1>6, SlugsAre DEF W!Kinds
<1>12. /\ W!TypeOK' /\ W!UserServerKept' /\ W!Converges' /\ settled' = W!Nothing
       /\ op'.kind = "standalone" /\ op'.put = put /\ op'.drop = drop /\ op'.todo = todo
       /\ \A d, e : Left(d, e)' <=> Has(todo, d, e)
       /\ ~mixed' => \A c \in Json \cup Cli, u \in Tools \ unmanaged : ~W!Listed(c, u)
       /\ UNCHANGED <<entry, unmanaged>>
  <2>1. HasBegun("standalone", todo, put, drop, FALSE)
    BY <1>5, <1>9, <1>11, Began
  <2>2. QED
    BY <2>1 DEF HasBegun
<1>13. PlanIsKept'
  BY <1>6, <1>9, <1>12, BegunIsKept
<1>14. StandaloneTells'
  BY <1>6, <1>10, <1>12 DEF StandaloneTells
<1>15. NoStrays'
  BY <1>12 DEF NoStrays, W!Listed
<1>16. CommandTells'
  BY <1>12, <1>14, <1>15 DEF CommandTells, GatewayTells, LinkTells, RemovalTells
<1>17. QED
  BY <1>12, <1>13, <1>16 DEF WiringInv

\* link: tools are taken back.
LEMMA LinkStep ==
  ASSUME WiringInv, NEW ts \in SUBSET Tools, W!Link(ts)
  PROVE  WiringInv'
<1> DEFINE A == W!One(1, "manage")
           B == W!Each(2, "put", W!Clients)
           D == W!Each(3, "drop", W!Clients)
           todo == (A \cup B) \cup D
           put == {GM}
<1>1. /\ <<"link", 1, "manage">> \in Plans /\ <<"link", 2, "put">> \in Plans
      /\ <<"link", 3, "drop">> \in Plans
  BY DEF Plans
<1>2. A \in SUBSET W!Steps /\ Follows(A, "link") /\ Has(A, "manage", "all")
  BY <1>1, OnceFollows
<1>3. B \in SUBSET W!Steps /\ Follows(B, "link") /\ \A c \in W!Clients : Has(B, "put", c)
  BY <1>1, AllFollow
<1>4. D \in SUBSET W!Steps /\ Follows(D, "link") /\ \A c \in W!Clients : Has(D, "drop", c)
  BY <1>1, AllFollow
<1>5. W!Begin("link", todo, put, ts, FALSE)
  BY DEF W!Link
<1>6. put = {GM}
  OBVIOUS
<1> HIDE DEF A, B, D, put
<1>7. A \cup B \in SUBSET W!Steps /\ Follows(A \cup B, "link")
  BY <1>2, <1>3, BothFollow
<1>8. todo \in SUBSET W!Steps /\ Follows(todo, "link")
  BY <1>4, <1>7, BothFollow
<1>9. /\ Has(todo, "manage", "all")
      /\ \A c \in W!Clients : Has(todo, "put", c) /\ Has(todo, "drop", c)
  BY <1>2, <1>3, <1>4 DEF Has
<1> HIDE DEF todo
<1>10. /\ "link" \in W!Kinds \ {"none"} /\ put \in SUBSET W!Slugs
       /\ ts \in SUBSET W!Slugs /\ FALSE \in BOOLEAN
  BY <1>6, SlugsAre DEF W!Kinds
<1>11. /\ W!TypeOK' /\ W!UserServerKept' /\ W!Converges' /\ settled' = W!Nothing
       /\ op'.kind = "link" /\ op'.put = put /\ op'.drop = ts /\ op'.todo = todo
       /\ \A d, e : Left(d, e)' <=> Has(todo, d, e)
       /\ ~mixed' => \A c \in Json \cup Cli, u \in Tools \ unmanaged : ~W!Listed(c, u)
       /\ UNCHANGED <<entry, unmanaged>>
  <2>1. HasBegun("link", todo, put, ts, FALSE)
    BY <1>5, <1>8, <1>10, Began
  <2>2. QED
    BY <2>1 DEF HasBegun
<1>12. PlanIsKept'
  BY <1>6, <1>8, <1>11, BegunIsKept
<1>13. LinkTells'
  BY <1>9, <1>11 DEF LinkTells
<1>14. NoStrays'
  BY <1>11 DEF NoStrays, W!Listed
<1>15. CommandTells'
  BY <1>11, <1>13, <1>14 DEF CommandTells, GatewayTells, StandaloneTells, RemovalTells
<1>16. QED
  BY <1>11, <1>12, <1>15 DEF WiringInv

\* uninstall has begun: it goes through the clients, or the user's state is mixed.
LEMMA UninstallBegun ==
  ASSUME WiringInv, NEW todo \in SUBSET W!Steps, Follows(todo, "uninstall"),
         NEW mixes \in BOOLEAN, mixes \/ \A c \in W!Clients : Has(todo, "drop", c),
         NEW none \in {{}}, W!Begin("uninstall", todo, none, W!Slugs, mixes)
  PROVE  WiringInv'
<1>1. "uninstall" \in W!Kinds \ {"none"} /\ none \in SUBSET W!Slugs /\ W!Slugs \in SUBSET W!Slugs
  BY DEF W!Kinds
<1>2. /\ W!TypeOK' /\ W!UserServerKept' /\ W!Converges' /\ settled' = W!Nothing
      /\ op'.kind = "uninstall" /\ op'.put = none /\ op'.drop = W!Slugs /\ op'.todo = todo
      /\ \A d, e : Left(d, e)' <=> Has(todo, d, e)
      /\ mixed' = (mixed \/ mixes)
      /\ ~mixed' => \A c \in Json \cup Cli, t \in Tools \ unmanaged : ~W!Listed(c, t)
      /\ UNCHANGED <<entry, unmanaged>>
  <2>1. HasBegun("uninstall", todo, none, W!Slugs, mixes)
    BY <1>1, Began
  <2>2. QED
    BY <2>1 DEF HasBegun
<1>3. op'.oks = {} /\ none = {}
  BY DEF W!Begin, W!NoOp
<1>4. PlanIsKept'
  BY <1>2, <1>3, BegunIsKept
<1>5. ~mixed' => \A c \in Json \cup Cli : Left("drop", c)'
  BY <1>2, ClientsAre
<1>6. RemovalTells'
  BY <1>2, <1>3, <1>5 DEF RemovalTells
<1>7. NoStrays'
  BY <1>2, <1>5 DEF NoStrays, Moving
<1>8. CommandTells'
  BY <1>2, <1>6, <1>7 DEF CommandTells, GatewayTells, StandaloneTells, LinkTells
<1>9. QED
  BY <1>2, <1>4, <1>8 DEF WiringInv

\* uninstall.
LEMMA UninstallStep ==
  ASSUME WiringInv, W!Uninstall
  PROVE  WiringInv'
<1> DEFINE noted == manifest.clients # {}
           hooks == manifest.hooks
           A == W!Each(1, "drop", W!Clients)
           B == W!One(2, "unhook")
           D == W!One(3, "remove")
           E == W!If(noted, A)
           F == W!If(hooks, B)
           todo == (E \cup F) \cup D
           mixes == manifest.clients = {}
           none == {}
<1>1. /\ <<"uninstall", 1, "drop">> \in Plans /\ <<"uninstall", 2, "unhook">> \in Plans
      /\ <<"uninstall", 3, "remove">> \in Plans
  BY DEF Plans
<1>2. A \in SUBSET W!Steps /\ Follows(A, "uninstall") /\ \A c \in W!Clients : Has(A, "drop", c)
  BY <1>1, AllFollow
<1>3. B \in SUBSET W!Steps /\ Follows(B, "uninstall")
  BY <1>1, OnceFollows
<1>4. D \in SUBSET W!Steps /\ Follows(D, "uninstall")
  BY <1>1, OnceFollows
<1>5. W!Begin("uninstall", todo, none, W!Slugs, mixes)
  BY DEF W!Uninstall, W!RemovalPlan
<1>6. hooks \in BOOLEAN
  BY DEF WiringInv, W!TypeOK
<1>7. noted \in BOOLEAN /\ none = {}
  OBVIOUS
<1>8. mixes \in BOOLEAN
  OBVIOUS
<1>9. mixes \/ noted
  OBVIOUS
<1> HIDE DEF A, B, D, noted, hooks, mixes, none
<1>10. E \in SUBSET W!Steps /\ Follows(E, "uninstall")
      /\ (noted => \A c \in W!Clients : Has(E, "drop", c))
  BY <1>2, <1>7, IfFollows
<1>11. F \in SUBSET W!Steps /\ Follows(F, "uninstall")
  BY <1>3, <1>6, IfFollows
<1> HIDE DEF E, F
<1>12. E \cup F \in SUBSET W!Steps /\ Follows(E \cup F, "uninstall")
  BY <1>10, <1>11, BothFollow
<1>13. todo \in SUBSET W!Steps /\ Follows(todo, "uninstall")
  BY <1>4, <1>12, BothFollow
<1>14. noted => \A c \in W!Clients : Has(todo, "drop", c)
  BY <1>10 DEF Has
<1> HIDE DEF todo
<1>15. QED
  BY <1>5, <1>7, <1>8, <1>9, <1>13, <1>14, UninstallBegun

\* repair.
LEMMA RepairStep ==
  ASSUME WiringInv, NEW registrations \in BOOLEAN, NEW config \in BOOLEAN,
         W!Repair(registrations, config)
  PROVE  WiringInv'
<1> DEFINE A == W!Each(1, "drop", W!Clients)
           B == W!One(2, "wipe")
           E == W!If(registrations, A)
           F == W!If(config, B)
           todo == E \cup F
           mixes == config /\ unmanaged # {}
           none == {}
<1>1. <<"repair", 1, "drop">> \in Plans /\ <<"repair", 2, "wipe">> \in Plans
  BY DEF Plans
<1>2. A \in SUBSET W!Steps /\ Follows(A, "repair") /\ \A d, c : Has(A, d, c) => d = "drop"
  BY <1>1, AllFollow
<1>3. B \in SUBSET W!Steps /\ Follows(B, "repair")
  BY <1>1, OnceFollows
<1>4. W!Begin("repair", todo, none, W!Slugs, mixes)
  BY DEF W!Repair
<1>5. mixes \in BOOLEAN /\ mixes = (config /\ unmanaged # {}) /\ none = {}
  OBVIOUS
<1> HIDE DEF A, B, mixes, none
<1>6. E \in SUBSET W!Steps /\ Follows(E, "repair") /\ ~Has(E, "wipe", "all")
  BY <1>2, IfFollows
<1>7. F \in SUBSET W!Steps /\ Follows(F, "repair") /\ (Has(F, "wipe", "all") => config)
  BY <1>3, IfFollows
<1> HIDE DEF E, F
<1>8. todo \in SUBSET W!Steps /\ Follows(todo, "repair") /\ (Has(todo, "wipe", "all") => config)
  BY <1>6, <1>7, BothFollow
<1> HIDE DEF todo
<1>9. "repair" \in W!Kinds \ {"none"} /\ none \in SUBSET W!Slugs /\ W!Slugs \in SUBSET W!Slugs
  BY <1>5 DEF W!Kinds
<1>10. /\ W!TypeOK' /\ W!UserServerKept' /\ W!Converges' /\ settled' = W!Nothing
       /\ op'.kind = "repair" /\ op'.put = none /\ op'.drop = W!Slugs /\ op'.todo = todo
       /\ \A d, e : Left(d, e)' <=> Has(todo, d, e)
       /\ mixed' = (mixed \/ mixes)
       /\ ~mixed' => \A c \in Json \cup Cli, u \in Tools \ unmanaged : ~W!Listed(c, u)
       /\ UNCHANGED <<entry, unmanaged>>
  <2>1. HasBegun("repair", todo, none, W!Slugs, mixes)
    BY <1>4, <1>5, <1>8, <1>9, Began
  <2>2. QED
    BY <2>1 DEF HasBegun
<1>11. PlanIsKept'
  BY <1>5, <1>8, <1>10, BegunIsKept
<1>12. RemovalTells'
  BY <1>5, <1>8, <1>10 DEF RemovalTells
<1>13. NoStrays'
  BY <1>10 DEF NoStrays, W!Listed
<1>14. CommandTells'
  BY <1>10, <1>12, <1>13 DEF CommandTells, GatewayTells, StandaloneTells, LinkTells
<1>15. QED
  BY <1>10, <1>11, <1>14 DEF WiringInv

-----------------------------------------------------------------------------
(* Wiring: the invariant, and what it tells.                               *)

\* Nothing is wired at first.
LEMMA WiringStart == W!Init => WiringInv
<1> SUFFICES ASSUME W!Init PROVE WiringInv
  OBVIOUS
<1>1. /\ entry = [c \in W!Clients |-> W!Bare] /\ shape = [c \in W!Clients |-> "whole"]
      /\ mine = W!Clients /\ bak = {} /\ unmanaged = {}
      /\ manifest = [clients |-> {}, hooks |-> FALSE]
      /\ hook = [file |-> "none", entry |-> "none"]
      /\ op = W!NoOp /\ faults = 0 /\ settled = W!Nothing /\ mixed = FALSE /\ hit = {}
  BY DEF W!Init
<1>2. W!TypeOK
  <2>1. entry \in [W!Clients -> [W!Slugs -> {"none", "live", "stale"}]]
    BY <1>1 DEF W!Bare
  <2>2. /\ shape \in [W!Clients -> {"whole", "empty", "cut"}]
        /\ \A c \in W!Clients : shape[c] = "whole"
    BY <1>1
  <2>3. /\ manifest \in [clients : SUBSET W!Clients, hooks : BOOLEAN]
        /\ hook \in [file : {"none", "same", "other"}, entry : {"none", "live", "stale"}]
    BY <1>1
  <2>4. faults \in 0..MaxFaults
    BY <1>1, Bounds
  <2>5. settled \in [kind : W!Kinds, oks : SUBSET W!Clients, bad : SUBSET (W!Clients \cup W!Chores)]
    BY <1>1 DEF W!Nothing, W!Kinds
  <2>6. QED
    BY <1>1, <2>1, <2>2, <2>3, <2>4, <2>5, NoOpIsTyped DEF W!TypeOK
<1>3. op.kind = "none" /\ op.todo = {}
  BY <1>1 DEF W!NoOp
<1>4. PlanIsKept
  BY <1>1, <1>3 DEF PlanIsKept
<1>5. NoStrays
  BY <1>1, ClientsAre, SlugsAre DEF NoStrays, W!Listed, W!Bare
<1>6. CommandTells
  BY <1>3, <1>5 DEF CommandTells, GatewayTells, StandaloneTells, LinkTells, RemovalTells
<1>7. W!UserServerKept
  BY <1>1 DEF W!UserServerKept
<1>8. W!Converges
  BY <1>1 DEF W!Converges, W!Nothing
<1>9. QED
  BY <1>2, <1>4, <1>6, <1>7, <1>8 DEF WiringInv

\* Every step keeps it.
LEMMA WiringStep == WiringInv /\ (W!Next \/ UNCHANGED wiring) => WiringInv'
<1> SUFFICES ASSUME WiringInv, W!Next \/ UNCHANGED wiring PROVE WiringInv'
  OBVIOUS
<1>1. CASE UNCHANGED wiring
  <2>1. UNCHANGED <<entry, shape, mine, bak, unmanaged, manifest, hook, op, faults, settled, mixed, hit>>
    BY <1>1 DEF wiring
  <2>2. W!TypeOK'
    BY <2>1 DEF WiringInv, W!TypeOK
  <2>3. PlanIsKept'
    BY <2>1 DEF WiringInv, PlanIsKept
  <2>4. GatewayTells' /\ StandaloneTells' /\ LinkTells' /\ RemovalTells'
    BY <2>1 DEF WiringInv, CommandTells, GatewayTells, StandaloneTells, LinkTells, RemovalTells,
                Left, Clear, W!Listed
  <2>5. NoStrays'
    BY <2>1 DEF WiringInv, CommandTells, NoStrays, Moving, Left, W!Listed
  <2>6. CommandTells'
    BY <2>1, <2>4, <2>5 DEF WiringInv, CommandTells
  <2>7. W!UserServerKept'
    BY <2>1 DEF WiringInv, W!UserServerKept
  <2>8. W!Converges'
    BY <2>1 DEF WiringInv, W!Converges, W!McpEntriesOk, W!HookEntryOk, W!HookFileOk, W!Listed
  <2>9. QED
    BY <2>2, <2>3, <2>6, <2>7, <2>8 DEF WiringInv
<1>2. ASSUME NEW only \in Picks, W!Register(only) \/ W!Gateway(only) \/ W!Install(only)
      PROVE  WiringInv'
  BY <1>2, RegisterStep, GatewayStep, InstallStep
<1>3. ASSUME NEW t \in Tools, W!Standalone(t) PROVE WiringInv'
  BY <1>3, StandaloneStep
<1>4. ASSUME NEW ts \in SUBSET Tools, W!Link(ts) PROVE WiringInv'
  BY <1>4, LinkStep
<1>5. ASSUME NEW registrations \in BOOLEAN, NEW config \in BOOLEAN,
             W!Repair(registrations, config)
      PROVE  WiringInv'
  BY <1>5, RepairStep
<1>6. ASSUME NEW c \in W!Clients,
             W!Put(c) \/ W!Drop(c) \/ W!Manual(c) \/ W!WriteFails(c) \/ W!CliFails(c) \/ W!Restore(c)
      PROVE  WiringInv'
  BY <1>6, PutStep, DropStep, ManualStep, WriteFailsStep, CliFailsStep, IdleStep
<1>7. CASE W!Uninstall
  BY <1>7, UninstallStep
<1>8. CASE W!Settings \/ W!SettingsFail \/ W!DeployHook \/ W!DeployFails \/ W!WriteManifest \/ W!RemoveHook
           \/ W!RemoveCode
  BY <1>8, SettingsStep, OtherStep
<1>9. CASE W!Finish \/ W!Kill \/ W!Rebuild
  BY <1>9, FinishStep, KillStep, IdleStep
<1>10. QED
  BY <1>1, <1>2, <1>3, <1>4, <1>5, <1>6, <1>7, <1>8, <1>9 DEF W!Next

\* It tells that the wiring is sound.
LEMMA WiringTells == WiringInv => W!WiringIsSound
<1> SUFFICES ASSUME WiringInv PROVE W!WiringIsSound
  OBVIOUS
<1>1. ASSUME op = W!NoOp, ~mixed, NEW c \in Json \cup Cli, NEW t \in Tools \ unmanaged
      PROVE  ~W!Listed(c, t)
  <2>1. ~Moving(c, t)
    BY <1>1, IdleTells
  <2>2. QED
    BY <1>1, <2>1 DEF WiringInv, CommandTells, NoStrays
<1>2. W!OneWayIn
  BY <1>1 DEF W!OneWayIn
<1>3. QED
  BY <1>2 DEF WiringInv, W!WiringIsSound

\* What a step must leave reachable.
KeepsReach ==
  \A c \in W!Clients, t \in Tools :
    /\ op.kind \in {"register", "gateway", "standalone", "link"} /\ faults' = faults
    /\ c \notin op'.bad /\ W!Reached(c, t)
    => W!Reached(c, t)'

\* A step that touches no entry, and lets go of no tool.
LEMMA UntouchedReach ==
  ASSUME UNCHANGED entry, unmanaged' \subseteq unmanaged
  PROVE  KeepsReach
BY DEF KeepsReach, W!Reached

\* An entry is put in: the others stay, or the gateway has them all.
LEMMA PutReach ==
  ASSUME WiringInv, NEW c \in W!Clients, W!Put(c)
  PROVE  KeepsReach
<1>1. W!TypeOK /\ PlanIsKept /\ CommandTells
  BY DEF WiringInv
<1>2. PICK do \in {"put", "direct"} : W!At(do, c)
  BY DEF W!Put
<1>3. /\ do = "put" => op.kind \in {"register", "gateway", "install", "link"}
      /\ do = "put" /\ op.kind = "gateway" => ~Left("manage", "all")
      /\ do = "direct" => op.kind = "standalone"
  BY <1>1, <1>2, InOrder
<1>4. PICK drop : /\ W!Rewrite(c, op.put, drop)
                  /\ drop = IF W!At("put", c) /\ op.kind # "link" THEN op.drop ELSE {}
  BY DEF W!Put
<1>5. /\ \A s \in W!Slugs : entry'[c][s] = IF s \in op.put THEN "live"
                                           ELSE IF s \in drop THEN "none" ELSE entry[c][s]
      /\ \A d \in W!Clients \ {c} : entry'[d] = entry[d]
  BY <1>1, <1>4, Rewritten
<1>6. unmanaged' = unmanaged
  BY DEF W!Put
<1>7. op.kind = "standalone" => ~W!At("put", c)
  BY <1>1, InOrder
<1>8. ASSUME NEW t \in Tools, op.kind \in {"register", "gateway", "standalone", "link"},
             W!Reached(c, t)
      PROVE  W!Reached(c, t)'
  <2>1. t \in W!Slugs /\ GM \in W!Slugs /\ t # GM
    BY SlugsAre
  <2>2. CASE op.kind = "register"
    BY <1>1, <1>5, <2>1, <2>2 DEF PlanIsKept, W!Reached
  <2>3. CASE op.kind = "gateway"
    <3>1. unmanaged = {} /\ op.put = {GM}
      BY <1>1, <1>2, <1>3, <2>3 DEF CommandTells, GatewayTells, PlanIsKept
    <3>2. QED
      BY <1>5, <1>6, <2>1, <3>1 DEF W!Reached
  <2>4. CASE op.kind \in {"standalone", "link"}
    <3>1. drop = {}
      BY <1>4, <1>7, <2>4
    <3>2. QED
      BY <1>5, <1>6, <1>8, <2>1, <3>1 DEF W!Reached
  <2>5. QED
    BY <1>8, <2>2, <2>3, <2>4
<1>9. ASSUME NEW d \in W!Clients \ {c}, NEW t \in Tools, W!Reached(d, t)
      PROVE  W!Reached(d, t)'
  BY <1>5, <1>6, <1>9 DEF W!Reached
<1>10. QED
  BY <1>8, <1>9 DEF KeepsReach

\* An entry is taken out: when every tool is let go, or the gateway is there.
LEMMA DropReach ==
  ASSUME WiringInv, NEW c \in W!Clients, W!Drop(c)
  PROVE  KeepsReach
<1>1. W!TypeOK /\ PlanIsKept /\ CommandTells
  BY DEF WiringInv
<1>2. W!At("drop", c) /\ W!Done(c, {c}, {}) /\ W!Rewrite(c, {}, op.drop) /\ unmanaged' = unmanaged
  BY DEF W!Drop
<1>3. /\ op.kind \in {"standalone", "link", "uninstall", "repair"}
      /\ op.kind = "standalone" => ~Left("release", "all")
      /\ op.kind = "link" => ~Left("manage", "all") /\ ~Left("put", c)
  BY <1>1, <1>2, InOrder
<1>4. /\ \A s \in W!Slugs : entry'[c][s] = IF s \in {} THEN "live"
                                           ELSE IF s \in op.drop THEN "none" ELSE entry[c][s]
      /\ \A d \in W!Clients \ {c} : entry'[d] = entry[d]
  BY <1>1, <1>2, Rewritten
<1>5. op'.bad = op.bad
  BY <1>1, <1>2 DEF W!Done, W!TypeOK
<1>6. Left("drop", c)
  BY <1>2 DEF W!At, Left
<1>7. ASSUME NEW t \in Tools, op.kind \in {"standalone", "link"}, c \notin op.bad, W!Reached(c, t)
      PROVE  W!Reached(c, t)'
  <2>1. t \in W!Slugs /\ GM \in W!Slugs /\ t # GM
    BY SlugsAre
  <2>2. CASE op.kind = "standalone"
    <3>1. t \in unmanaged /\ op.drop = {GM}
      BY <1>1, <1>3, <1>6, <2>2 DEF CommandTells, StandaloneTells, PlanIsKept
    <3>2. QED
      BY <1>4, <1>7, <2>1, <3>1 DEF W!Reached
  <2>3. CASE op.kind = "link"
    <3>1. op.drop \subseteq Tools /\ op.drop \cap unmanaged = {} /\ entry[c][GM] = "live"
      BY <1>1, <1>3, <1>7, <2>3 DEF CommandTells, LinkTells, PlanIsKept
    <3>2. entry'[c][GM] = "live"
      BY <1>4, <2>1, <3>1, SlugsAre
    <3>3. CASE t \in op.drop
      BY <1>2, <3>1, <3>2, <3>3 DEF W!Reached
    <3>4. CASE t \notin op.drop
      BY <1>2, <1>4, <1>7, <2>1, <3>2, <3>4 DEF W!Reached
    <3>5. QED
      BY <3>3, <3>4
  <2>4. QED
    BY <1>7, <2>2, <2>3
<1>8. ASSUME NEW d \in W!Clients \ {c}, NEW t \in Tools, W!Reached(d, t)
      PROVE  W!Reached(d, t)'
  BY <1>2, <1>4, <1>8 DEF W!Reached
<1>9. QED
  BY <1>3, <1>5, <1>7, <1>8 DEF KeepsReach

\* A tool is let go when its own entry is there.
LEMMA SettingsReach ==
  ASSUME WiringInv, W!Settings
  PROVE  KeepsReach
<1>1. W!TypeOK /\ PlanIsKept /\ CommandTells
  BY DEF WiringInv
<1>2. UNCHANGED entry /\ W!Done("all", {}, {})
  BY DEF W!Settings
<1>3. op'.bad = op.bad
  BY <1>1, <1>2 DEF W!Done, W!TypeOK
<1>4. CASE unmanaged' \subseteq unmanaged
  BY <1>2, <1>4, UntouchedReach
<1>5. CASE W!At("release", "all") /\ unmanaged' = unmanaged \cup op.put
  <2>1. op.kind = "standalone" /\ \A d : ~Left("direct", d)
    BY <1>1, <1>5, InOrder
  <2>2. \A c \in W!Clients \ op.bad, t \in op.put : entry[c][t] = "live"
    BY <1>1, <2>1 DEF CommandTells, StandaloneTells
  <2>3. QED
    BY <1>2, <1>3, <1>5, <2>2 DEF KeepsReach, W!Reached
<1>6. QED
  BY <1>4, <1>5 DEF W!Settings

\* Whatever the step is.
LEMMA ReachStep == WiringInv /\ (W!Next \/ UNCHANGED wiring) => KeepsReach
<1> SUFFICES ASSUME WiringInv, W!Next \/ UNCHANGED wiring PROVE KeepsReach
  OBVIOUS
<1>1. CASE UNCHANGED wiring
  BY <1>1, UntouchedReach DEF wiring
<1>2. CASE op = W!NoOp
  BY <1>2 DEF KeepsReach, W!NoOp
<1>3. CASE W!Fault
  <2>1. faults \in Nat
    BY Bounds DEF WiringInv, W!TypeOK
  <2>2. faults' # faults
    BY <1>3, <2>1 DEF W!Fault
  <2>3. QED
    BY <2>2 DEF KeepsReach
<1>4. ASSUME NEW c \in W!Clients,
             W!Put(c) \/ W!Drop(c) \/ W!Manual(c) \/ W!WriteFails(c) \/ W!CliFails(c) \/ W!Restore(c)
      PROVE  KeepsReach
  <2>1. CASE W!Put(c)
    BY <2>1, PutReach
  <2>2. CASE W!Drop(c)
    BY <2>2, DropReach
  <2>3. CASE W!Manual(c)
    BY <2>3, UntouchedReach DEF W!Manual
  <2>4. CASE W!WriteFails(c) \/ W!CliFails(c)
    BY <1>3, <2>4 DEF W!WriteFails, W!CliFails
  <2>5. CASE W!Restore(c)
    BY <1>2, <2>5 DEF W!Restore
  <2>6. QED
    BY <1>4, <2>1, <2>2, <2>3, <2>4, <2>5
<1>5. CASE W!Settings
  BY <1>5, SettingsReach
<1>6. CASE W!DeployHook \/ W!DeployFails \/ W!WriteManifest \/ W!RemoveHook \/ W!RemoveCode \/ W!Finish
           \/ W!SettingsFail
  <2>1. UNCHANGED entry /\ unmanaged' \subseteq unmanaged
    BY <1>6 DEF W!DeployHook, W!DeployFails, W!SettingsFail, W!WriteManifest, W!RemoveHook, W!RemoveCode, W!Finish
  <2>2. QED
    BY <2>1, UntouchedReach
<1>7. ASSUME NEW kind, NEW todo, NEW put, NEW drop, NEW mixes,
             W!Begin(kind, todo, put, drop, mixes)
      PROVE  op = W!NoOp
  BY <1>7 DEF W!Begin
<1>8. CASE W!Kill \/ W!Rebuild
  BY <1>2, <1>3, <1>8 DEF W!Kill, W!Rebuild
<1>9. CASE (\E only \in Picks : W!Register(only) \/ W!Gateway(only) \/ W!Install(only))
           \/ (\E t \in Tools : W!Standalone(t))
  BY <1>2, <1>7, <1>9 DEF W!Register, W!Gateway, W!Install, W!Standalone
<1>10. CASE (\E ts \in SUBSET Tools : W!Link(ts)) \/ W!Uninstall
            \/ \E registrations, config \in BOOLEAN : W!Repair(registrations, config)
  BY <1>2, <1>7, <1>10 DEF W!Link, W!Uninstall, W!Repair
<1>11. QED
  BY <1>1, <1>4, <1>5, <1>6, <1>8, <1>9, <1>10 DEF W!Next

-----------------------------------------------------------------------------
(* The theorems.                                                           *)

\* Each part's invariant: the one whose behaviour it is keeps its own, and the
\* others stand still.
UserSideInv == part \in Parts /\ PulseInv /\ PanelInv /\ WiringInv

\* What always holds of the cache, the panel and the wiring.
THEOREM UserSideInvariant == Spec => []UserSideInv
<1>1. Init => UserSideInv
  BY PulseStart, PanelStart, WiringStart DEF Init, UserSideInv
<1>2. UserSideInv /\ [Next]_vars => UserSideInv'
  <2>1. SUFFICES ASSUME UserSideInv, [Next]_vars PROVE UserSideInv'
    OBVIOUS
  <2>2. part' = part
    BY <2>1 DEF Next, vars
  <2>3. /\ C!Next \/ UNCHANGED pulses
        /\ P!Next \/ UNCHANGED panel
        /\ W!Next \/ UNCHANGED wiring
    BY <2>1 DEF Next, vars
  <2>4. PulseInv' /\ PanelInv' /\ WiringInv'
    BY <2>1, <2>3, PulseStep, PanelStep, WiringStep DEF UserSideInv
  <2>5. QED
    BY <2>1, <2>2, <2>4 DEF UserSideInv
<1>3. QED
  BY <1>1, <1>2, PTL DEF Spec

\* Every gateway's cache is one OrderedDict within cache_max_size, whatever is
\* put, touched, expired and invalidated in whatever order; a command of the
\* panel has one thread and one child; and a file of a client that is not whole
\* is a JSON file with nothing of ours, nor of the user's, in it.
THEOREM TypeCorrect == Spec => []TypeOK
<1>1. UserSideInv => TypeOK
  BY DEF UserSideInv, PulseInv, PanelInv, WiringInv, TypeOK
<1>2. QED
  BY <1>1, UserSideInvariant, PTL

\* A pulse that misses a store of its own gateway that had returned before it was
\* answered by an entry the store's text does not name, or one whose filler was in
\* flight while that store was.
THEOREM StalePulsesOverlap == Spec => []StaleOnlyFromOverlap
<1>1. UserSideInv => StaleOnlyFromOverlap
  BY DEF UserSideInv, PulseInv, StaleOnlyFromOverlap
<1>2. QED
  BY <1>1, UserSideInvariant, PTL

\* Unless two starts of a key raced or the panel left it: one command of a key at
\* a time, each of them shown and within reach of a stop, and its log true, but for
\* the commands that could not open or write one.
THEOREM PanelAlwaysTells == Spec => []PanelTellsTruth
<1>1. UserSideInv => PanelTellsTruth
  BY PanelTells DEF UserSideInv
<1>2. QED
  BY <1>1, UserSideInvariant, PTL

\* Whatever commands came before, and wherever one of them was cut off: one way
\* in to each tool once they are over, the user's own servers kept, a full
\* install wired but for the steps of it that failed, an uninstall with nothing of
\* ours left.
THEOREM WiringStaysSound == Spec => []WiringIsSound
<1>1. UserSideInv => WiringIsSound
  BY WiringTells DEF UserSideInv, WiringIsSound
<1>2. QED
  BY <1>1, UserSideInvariant, PTL

\* Moving a tool between the gateway and an entry of its own never takes it away
\* from a client none of whose steps has failed.
THEOREM MovingToolsStayReachable == Spec => ToolsStayReachable
<1>1. UserSideInv /\ [Next]_vars => [KeepsReach]_wiring
  BY ReachStep DEF UserSideInv, Next, vars
<1>2. Spec => W!ToolsStayReachable
  BY <1>1, UserSideInvariant, PTL DEF Spec, W!ToolsStayReachable, KeepsReach, W!vars, wiring
<1>3. QED
  BY <1>2 DEF ToolsStayReachable

=============================================================================
