------------------------------ MODULE PulseCache ------------------------------
(***************************************************************************)
(* The context cache (src/cache.py) under the two handlers of a gateway    *)
(* that use it (src/server.py, call_tool): gray_matter_pulse, which        *)
(* answers from the cache or asks the workers and fills it, and            *)
(* store_turn, which drops the related entries and then has Neuron write.  *)
(* Both await the worker between the two halves, and every gateway process *)
(* has a cache of its own in front of the one memory.                      *)
(*                                                                         *)
(* A text is a sequence of words and Blanks, in lower case (both sides are *)
(* lowered before they are compared).  A pulse normalises its text to a    *)
(* topic, the key of the cache; a store's raw text is only stripped before *)
(* the entries related to it are dropped, so it may change the context of  *)
(* a topic it does not name.  Which contexts a store changes is Neuron's.  *)
(*                                                                         *)
(* The context of a topic is the set of the store_turns it reflects.  A    *)
(* failed worker call answers with an error text; a pulse caches that text *)
(* like any other.                                                         *)
(***************************************************************************)
EXTENDS Integers, FiniteSets, SequencesExt

CONSTANTS
  Gateways,   \* processes, one cache each
  Pulses,     \* gray_matter_pulse requests, each made once
  Stores,     \* store_turn requests, each made once
  Topics,     \* the normalised texts of the pulses
  Changes,    \* Changes[w]: the topics whose context store w changes
  at,         \* at[r]: the gateway that serves request r
  about,      \* about[r]: the text request r names its topic with
  Blank,      \* a character that split() and strip() take for a space
  MaxKey,     \* the length a topic is cut at
  CacheSize,  \* cache_max_size
  HalfTTL,    \* half of cache_ttl_seconds, in ticks
  MaxNow,     \* bound: ticks of the clock in a behaviour
  ErrorText,  \* what a failed worker call answers
  Absent      \* no cache entry

Requests == Pulses \cup Stores

VARIABLES
  now,      \* the clock
  memory,   \* memory[t]: the stores Neuron's context for topic t reflects
  cache,    \* cache[g][t]: the entry for t, or Absent
  older,    \* older[g]: <<t, u>> when t was used longer ago than u, both cached
  pc,       \* pc[r]: where request r is
  got,      \* got[r]: the context pulse r has read or was served
  source,   \* history: the pulse that read what r was served (r itself on a miss)
  before,   \* history: the stores that had returned when r began
  met       \* history: the stores in flight at some time while pulse r was

vars == <<now, memory, cache, older, pc, got, source, before, met>>

Contexts == (SUBSET Stores) \cup {{ErrorText}}
Entries == [time : 0..MaxNow, value : Contexts, hits : 0..4, filler : Pulses]

Cached(g) == {t \in Topics : cache[g][t] # Absent}

\* R orders the topics of C one after another.
InOrder(C, R) ==
  /\ R \subseteq C \X C
  /\ \A t, u \in C : <<t, u>> \in R <=> t # u /\ <<u, t>> \notin R
  /\ \A t, u, v \in C : <<t, u>> \in R /\ <<u, v>> \in R => <<t, v>> \in R

\* The entries are one OrderedDict, within its size.
OneOrderedDict ==
  \A g \in Gateways : /\ InOrder(Cached(g), older[g])
                      /\ IsFiniteSet(Cached(g)) /\ Cardinality(Cached(g)) <= CacheSize

TypeOK ==
  /\ now \in 0..MaxNow
  /\ memory \in [Topics -> SUBSET Stores]
  /\ cache \in [Gateways -> [Topics -> Entries \cup {Absent}]]
  /\ older \in [Gateways -> SUBSET (Topics \X Topics)]
  /\ pc \in [Requests -> {"idle", "asking", "composing", "stored", "done", "failed"}]
  /\ got \in [Pulses -> Contexts]
  /\ source \in [Pulses -> Pulses]
  /\ before \in [Pulses -> SUBSET Stores]
  /\ met \in [Pulses -> SUBSET Stores]
  /\ OneOrderedDict

Init ==
  /\ now = 0
  /\ memory = [t \in Topics |-> {}]
  /\ cache = [g \in Gateways |-> [t \in Topics |-> Absent]]
  /\ older = [g \in Gateways |-> {}]
  /\ pc = [r \in Requests |-> "idle"]
  /\ got = [p \in Pulses |-> {}]
  /\ source = [p \in Pulses |-> p]
  /\ before = [p \in Pulses |-> {}]
  /\ met = [p \in Pulses |-> {}]

-----------------------------------------------------------------------------
(* The texts requests name their topics with.                              *)

\* What stands in text x at the places in I, in their order.
At(x, I) ==
  LET places == SelectSeq([i \in DOMAIN x |-> i], LAMBDA i : i \in I)
  IN  [n \in DOMAIN places |-> x[places[n]]]

\* Place i of text x is between its words, or in one.
Inside(x, i) == /\ \E j \in DOMAIN x : j <= i /\ x[j] # Blank
                /\ \E j \in DOMAIN x : j >= i /\ x[j] # Blank

\* strip(): no blanks at the ends.
Strip(x) == At(x, {i \in DOMAIN x : Inside(x, i)})

\* ' '.join(x.split())[:MaxKey]: nor two of them in a row, and cut.
Normal(x) ==
  LET joined == At(x, {i \in DOMAIN x : Inside(x, i) /\ ~(x[i] = Blank /\ x[i + 1] = Blank)})
  IN  SubSeq(joined, 1, IF Len(joined) > MaxKey THEN MaxKey ELSE Len(joined))

\* The key a pulse's context is cached under.
Topic(p) == Normal(about[p])

\* The keys text x names: one of the two is part of the other.  A text without a
\* word names none.
Related(x) ==
  {t \in Topics : Strip(x) # <<>> /\ (Strip(x) \in SubSeqs(t) \/ t \in SubSeqs(Strip(x)))}

-----------------------------------------------------------------------------
(* cache.py on one gateway's cache.  hits is capped where _ttl_for stops   *)
(* growing: +50% per hit, at most three times the TTL.                     *)

\* The order without some topics, and with t used last.
Without(R, ts) == {e \in R : e[1] \notin ts /\ e[2] \notin ts}
UsedLast(g, t) == Without(older[g], {t}) \cup ((Cached(g) \ {t}) \X {t})

Life(hits) == 2 * HalfTTL + HalfTTL * (IF hits > 4 THEN 4 ELSE hits)

Expired(e) == now - e.time > Life(e.hits)

Hit(g, t) == cache[g][t] # Absent /\ ~Expired(cache[g][t])

\* get() on a hit: one more hit, and the topic is the most recently used.  The
\* time the entry was set stays.
Touch(g, t) ==
  /\ cache' = [cache EXCEPT ![g][t].hits = IF @ = 4 THEN 4 ELSE @ + 1]
  /\ older' = [older EXCEPT ![g] = UsedLast(g, t)]

\* get() on an expired entry deletes it; on an absent one it does nothing.
Miss(g, t) ==
  /\ cache' = [cache EXCEPT ![g][t] = Absent]
  /\ older' = [older EXCEPT ![g] = Without(@, {t})]

Fresh(p, g, t) ==
  [time |-> now, value |-> got[p], filler |-> p,
   hits |-> IF cache[g][t] = Absent THEN 0 ELSE cache[g][t].hits]

\* Mutant of Put: the oldest entry is not evicted.
PutUnbounded(p, g, t) ==
  /\ cache' = [cache EXCEPT ![g][t] = Fresh(p, g, t)]
  /\ older' = [older EXCEPT ![g] = UsedLast(g, t)]

Oldest(keys, R) == CHOOSE t \in keys : \A u \in keys \ {t} : <<t, u>> \in R

\* set(): keep the hits of the entry it replaces, evict the least recently used.
Put(p, g, t) ==
  LET keys == Cached(g) \cup {t}
      used == UsedLast(g, t)
      last == Oldest(keys, used)
  IN  IF Cardinality(keys) > CacheSize
      THEN /\ cache' = [cache EXCEPT ![g][t] = Fresh(p, g, t), ![g][last] = Absent]
           /\ older' = [older EXCEPT ![g] = Without(used, {last})]
      ELSE /\ cache' = [cache EXCEPT ![g][t] = Fresh(p, g, t)]
           /\ older' = [older EXCEPT ![g] = used]

\* Mutant of InvalidateRelated: only the very topic is dropped.
InvalidateTopic(g, x) ==
  /\ cache' = [cache EXCEPT ![g] = [t \in Topics |-> IF t = Normal(x) THEN Absent ELSE @[t]]]
  /\ older' = [older EXCEPT ![g] = Without(@, {Normal(x)})]

InvalidateRelated(g, x) ==
  /\ cache' = [cache EXCEPT ![g] =
                 [t \in Topics |-> IF t \in Related(x) THEN Absent ELSE @[t]]]
  /\ older' = [older EXCEPT ![g] = Without(@, Related(x))]

-----------------------------------------------------------------------------
InFlight == {w \in Stores : pc[w] \in {"asking", "stored"}}

\* gray_matter_pulse: a live entry is the answer; otherwise the workers are
\* asked, unless no server is alive.  (A text without a word is refused before
\* anything is touched.)
BeginPulse(p) ==
  LET g == at[p]  t == Topic(p)
  IN  /\ pc[p] = "idle"
      /\ before' = [before EXCEPT ![p] = {w \in Stores : pc[w] = "done"}]
      /\ \/ /\ Hit(g, t)
            /\ Touch(g, t)
            /\ pc' = [pc EXCEPT ![p] = "done"]
            /\ got' = [got EXCEPT ![p] = cache[g][t].value]
            /\ source' = [source EXCEPT ![p] = cache[g][t].filler]
            /\ UNCHANGED met
         \/ /\ ~Hit(g, t)
            /\ Miss(g, t)
            /\ \E next \in {"asking", "failed"} : pc' = [pc EXCEPT ![p] = next]
            /\ met' = [met EXCEPT ![p] = InFlight]
            /\ UNCHANGED <<got, source>>
      /\ UNCHANGED <<now, memory>>

\* Neuron's worker runs get_context, or the call fails and answers as text.
Read(p) ==
  /\ pc[p] = "asking"
  /\ \E context \in {memory[Topic(p)], {ErrorText}} : got' = [got EXCEPT ![p] = context]
  /\ pc' = [pc EXCEPT ![p] = "composing"]
  /\ UNCHANGED <<now, memory, cache, older, source, before, met>>

\* After the other awaits (NeuRAG, neighbours, bridges, flash) the response is
\* cached and returned.
Compose(p) ==
  /\ pc[p] = "composing"
  /\ Put(p, at[p], Topic(p))
  /\ pc' = [pc EXCEPT ![p] = "done"]
  /\ UNCHANGED <<now, memory, got, source, before, met>>

\* store_turn: the entries its text names go first, then Neuron is asked to write.
BeginStore(w) ==
  /\ pc[w] = "idle"
  /\ InvalidateRelated(at[w], about[w])
  /\ pc' = [pc EXCEPT ![w] = "asking"]
  /\ met' = [p \in Pulses |-> IF pc[p] \in {"asking", "composing"}
                              THEN met[p] \cup {w} ELSE met[p]]
  /\ UNCHANGED <<now, memory, got, source, before>>

Write(w) ==
  /\ pc[w] = "asking"
  /\ memory' = [t \in Topics |-> IF t \in Changes[w]
                                 THEN memory[t] \cup {w} ELSE memory[t]]
  /\ pc' = [pc EXCEPT ![w] = "stored"]
  /\ UNCHANGED <<now, cache, older, got, source, before, met>>

\* The answer comes back; or the call failed, before or after the write.
EndStore(w) ==
  /\ \/ pc[w] = "stored" /\ pc' = [pc EXCEPT ![w] = "done"]
     \/ pc[w] \in {"asking", "stored"} /\ pc' = [pc EXCEPT ![w] = "failed"]
  /\ UNCHANGED <<now, memory, cache, older, got, source, before, met>>

Tick ==
  /\ now < MaxNow
  /\ now' = now + 1
  /\ UNCHANGED <<memory, cache, older, pc, got, source, before, met>>

Next ==
  \/ \E p \in Pulses : BeginPulse(p) \/ Read(p) \/ Compose(p)
  \/ \E w \in Stores : BeginStore(w) \/ Write(w) \/ EndStore(w)
  \/ Tick

Spec == Init /\ [][Next]_vars

-----------------------------------------------------------------------------
\* Pulse p was answered with a context that lacks store w, although w had changed
\* its topic's context and had returned when p began.
Misses(p, w) ==
  /\ pc[p] = "done" /\ w \in before[p]
  /\ Topic(p) \in Changes[w]
  /\ got[p] # {ErrorText} /\ w \notin got[p]

\* server.py:831-833 means the pulse after a store to be fresh.  It is not always:
\* a pulse that misses a store of its own gateway was answered from the cache, and
\* either the store's text does not name the pulse's topic as it is cached (two
\* blanks in a row are enough), or the entry's filler was in flight while that
\* store was: it takes two requests that overlap.
StaleOnlyFromOverlap ==
  \A p \in Pulses, w \in Stores :
    at[p] = at[w] /\ Misses(p, w) =>
      source[p] # p /\ (Topic(p) \in Related(about[w]) => w \in met[source[p]])
=============================================================================
