----------------------------- MODULE Blackboard -----------------------------
(***************************************************************************)
(* The blackboard (src/state.py): values under keys, with a time to live   *)
(* and a version, in a database every gateway process opens.               *)
(*                                                                         *)
(* A version is the greatest one there is plus one, read in a statement    *)
(* and written in the next: two processes may read the same one.  Whoever  *)
(* follows the blackboard asks for what changed since the last version it  *)
(* has seen.                                                               *)
(***************************************************************************)
EXTENDS Naturals, FiniteSets, FiniteSetsExt

CONSTANTS Setters, Keys, MaxVersion

VARIABLES
  state,   \* the table: nothing, or a row with its version, its value and whether it expired
  setting, \* state_set in progress, per process: the key and the version it will have
  sets,    \* values so far: each is the number of its state_set
  seen,   \* the follower's version
  copy,    \* the values it has
  raced    \* ghost: values set while another process was setting one, or while
           \* the versions such a set took back have not come up again

vars == <<state, setting, sets, seen, copy, raced>>

NoRow == [version |-> 0, value |-> 0, expired |-> FALSE]
NoSet == [key |-> {}, version |-> 0, beside |-> FALSE]
Rows == {k \in Keys : state[k] # NoRow}
Setting(p) == setting[p] # NoSet

TypeOK ==
  /\ state \in [Keys -> [version : 0..MaxVersion, value : 0..MaxVersion, expired : BOOLEAN]]
  /\ \A k \in Rows : state[k].version \in 1..state[k].value
  /\ setting \in [Setters -> [key : SUBSET Keys, version : 0..MaxVersion, beside : BOOLEAN]]
  /\ sets \in 0..MaxVersion /\ seen \in 0..MaxVersion
  /\ copy \in [Keys -> 0..MaxVersion] /\ raced \subseteq 1..MaxVersion

Init ==
  /\ state = [k \in Keys |-> NoRow] /\ setting = [p \in Setters |-> NoSet] /\ sets = 0
  /\ seen = 0 /\ copy = [k \in Keys |-> 0] /\ raced = {}

Newest == Max({state[j].version : j \in Keys})
\* Mutants of NextVersion: each key counts for itself; an empty table has a version.
NextVersionOfKey(k) == state[k].version + 1
NextVersionFromOne(k) == IF Newest = 0 THEN 2 ELSE Newest + 1
NextVersion(k) == Newest + 1

\* state_set, its first statement and its second.
ReadVersion(p) ==
  /\ ~Setting(p) /\ sets + Cardinality({q \in Setters : Setting(q)}) < MaxVersion
  /\ \E k \in Keys :
       setting' = [q \in Setters |->
         IF q = p THEN [key |-> {k}, version |-> NextVersion(k),
                        beside |-> \E r \in Setters : Setting(r)]
         ELSE [setting[q] EXCEPT !.beside = @ \/ Setting(q)]]
  /\ UNCHANGED <<state, sets, seen, copy, raced>>

Write(p) ==
  /\ Setting(p)
  /\ sets' = sets + 1
  /\ \E k \in setting[p].key :
       state' = [state EXCEPT ![k] = [version |-> setting[p].version, value |-> sets',
                                      expired |-> FALSE]]
  /\ raced' = IF setting[p].beside \/ (raced # {} /\ Newest < seen)
              THEN raced \cup {sets'} ELSE raced
  /\ setting' = [setting EXCEPT ![p] = NoSet]
  /\ UNCHANGED <<seen, copy>>

\* A process that dies between the two.
Dies(p) ==
  /\ Setting(p) /\ setting' = [setting EXCEPT ![p] = NoSet]
  /\ UNCHANGED <<state, sets, seen, copy, raced>>

\* The time to live of a row ends; the row stays.
Expires ==
  /\ \E k \in Rows : ~state[k].expired /\ state' = [state EXCEPT ![k].expired = TRUE]
  /\ UNCHANGED <<setting, sets, seen, copy, raced>>

\* state_delta has what expired too.
Changed == {k \in Rows : state[k].version > seen}

\* The follower asks, and notes the last version it was given, if any.
Delta ==
  /\ copy' = [k \in Keys |-> IF k \in Changed THEN state[k].value ELSE copy[k]]
  /\ seen' = Max({seen} \cup {state[k].version : k \in Changed})
  /\ UNCHANGED <<state, setting, sets, raced>>

Next ==
  \/ \E p \in Setters : ReadVersion(p) \/ Write(p) \/ Dies(p)
  \/ Expires \/ Delta

\* A follower that keeps the last version misses nothing, expired values
\* included: a key with no news since then has the value it knows, unless that
\* value was set while another process was setting one (the later of the two may
\* write the smaller version, over the newest row: versions go back, and what is
\* set until they come up again is missed too).
DeltaMissesNothing ==
  \A k \in Rows \ Changed : state[k].value \in raced \cup {copy[k]}

=============================================================================
