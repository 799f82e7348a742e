------------------------------ MODULE Migration ------------------------------
(***************************************************************************)
(* The move of a folder of memory to the suite's root (src/paths.py        *)
(* migrate_to_suite_root), by copying, counting and removing, under tools  *)
(* that take the folder from where legacy_or_new finds it.                 *)
(*                                                                         *)
(* A folder is a function from its files to what is in them.  A tool finds *)
(* its folder when it starts, and keeps it; what one writes while the move *)
(* goes on is on its own account, but for a file that is new when the      *)
(* files are counted.                                                      *)
(***************************************************************************)
EXTENDS Naturals, FiniteSets

CONSTANTS Tools, Files, MaxWrites

VARIABLES
  old, new,  \* the two folders
  there,     \* which of them exist
  step,      \* the migration's: none, copying, counting, removing
  todo,      \* the files it still has to copy, or to remove
  failed,    \* copytree has met an error, and raises it at the end
  root,      \* the folder each tool has open
  memory,    \* ghost: everything written, with its file
  behind     \* ghost: something was written behind the migration's back

vars == <<old, new, there, step, todo, failed, root, memory, behind>>

Content == Files \cup (1..MaxWrites)  \* a file's name is what it had in it to begin with
IsFolder(folder) == DOMAIN folder \subseteq Files /\ \A f \in DOMAIN folder : folder[f] \subseteq Content
Empty == [f \in {} |-> {}]
In(folder, f) == IF f \in DOMAIN folder THEN folder[f] ELSE {}
With(folder, f, c) == [g \in DOMAIN folder \cup {f} |-> IF g = f THEN c ELSE folder[g]]
Without(folder, f) == [g \in DOMAIN folder \ {f} |-> folder[g]]

TypeOK ==
  /\ IsFolder(old) /\ IsFolder(new) /\ there \subseteq {"old", "new"}
  /\ step \in {"none", "copying", "counting", "removing"}
  /\ todo \subseteq Files /\ failed \in BOOLEAN
  /\ root \in [Tools -> {"none", "old", "new"}]
  /\ memory \subseteq Files \X Content /\ behind \in BOOLEAN
  /\ (old # Empty => "old" \in there) /\ (new # Empty => "new" \in there)
  /\ (step # "none" => "new" \in there) /\ (step \in {"none", "counting"} => todo = {})
  /\ (step # "copying" => ~failed)

Init ==
  /\ \E fs \in (SUBSET Files) \ {{}} :
       old = [f \in fs |-> {f}] /\ memory = {<<f, f>> : f \in fs}
  /\ new = Empty /\ there = {"old"}
  /\ step = "none" /\ todo = {} /\ failed = FALSE
  /\ root = [t \in Tools |-> "none"] /\ behind = FALSE

-----------------------------------------------------------------------------
(* The migration.                                                          *)

Rest == UNCHANGED <<root, memory, behind>>

\* A destination that exists is left where it is, and so is the original.
Start ==
  /\ step = "none" /\ "old" \in there /\ "new" \notin there
  /\ step' = "copying" /\ there' = there \cup {"new"} /\ todo' = DOMAIN old
  /\ UNCHANGED <<old, new, failed>> /\ Rest

\* copytree: a file that cannot be copied, or not to its end, is an error it
\* goes on after.
CopyFile ==
  /\ step = "copying"
  /\ \E f \in todo :
       /\ \/ new' = With(new, f, In(old, f)) /\ UNCHANGED failed
          \/ \E torn \in {new, With(new, f, {})} : new' = torn /\ failed' = TRUE
       /\ todo' = todo \ {f}
  /\ UNCHANGED <<old, there, step>> /\ Rest

\* Its end: an error that was met ends the migration, the copy staying.
Copied ==
  /\ step = "copying" /\ todo = {}
  /\ step' = IF failed THEN "none" ELSE "counting"
  /\ failed' = FALSE
  /\ UNCHANGED <<old, new, there, todo>> /\ Rest

\* Mutant of Whole: the copy is not counted.
WholeUncounted == TRUE
Whole == Cardinality(DOMAIN new) >= Cardinality(DOMAIN old)
Count ==
  /\ step = "counting"
  /\ \/ ~Whole /\ step' = "none" /\ UNCHANGED todo
     \/ Whole /\ step' = "removing" /\ todo' = DOMAIN old
  /\ UNCHANGED <<old, new, there, failed>> /\ Rest

\* rmtree, errors ignored: a file in use may stay, and the folder with it.
RemoveFile ==
  /\ step = "removing"
  /\ \E f \in todo :
       /\ old' \in {old, Without(old, f)}
       /\ todo' = todo \ {f}
  /\ UNCHANGED <<new, there, step, failed>> /\ Rest

Removed ==
  /\ step = "removing" /\ todo = {}
  /\ step' = "none"
  /\ there' = IF old = Empty THEN {"new"} ELSE there
  /\ UNCHANGED <<old, new, todo, failed>> /\ Rest

Killed ==
  /\ step # "none"
  /\ step' = "none" /\ todo' = {} /\ failed' = FALSE
  /\ UNCHANGED <<old, new, there>> /\ Rest

-----------------------------------------------------------------------------
(* The tools.                                                              *)

\* legacy_or_new
LegacyOrNew == IF "old" \in there /\ "new" \notin there THEN "old" ELSE "new"

Open(t) ==
  /\ root[t] = "none"
  /\ root' = [root EXCEPT ![t] = LegacyOrNew]
  /\ UNCHANGED <<old, new, there, step, todo, failed, memory, behind>>

Close(t) ==
  /\ root[t] # "none"
  /\ root' = [root EXCEPT ![t] = "none"]
  /\ UNCHANGED <<old, new, there, step, todo, failed, memory, behind>>

Write(t) ==
  /\ \E f \in Files, w \in {n \in 1..MaxWrites : \A g \in Files : <<g, n>> \notin memory} :
       /\ \/ /\ root[t] = "old" /\ "old" \in there
             /\ old' = With(old, f, In(old, f) \cup {w}) /\ UNCHANGED <<new, there>>
             /\ behind' = (behind \/ step = "removing"
                                  \/ (step # "none" /\ f \in DOMAIN old \ todo))
          \/ root[t] = "old" /\ "old" \notin there /\ behind' = TRUE
             /\ UNCHANGED <<old, new, there>>
          \/ /\ root[t] = "new"
             /\ new' = With(new, f, In(new, f) \cup {w}) /\ there' = there \cup {"new"}
             /\ behind' = (behind \/ step \in {"copying", "counting"}) /\ UNCHANGED old
       /\ memory' = memory \cup {<<f, w>>}
  /\ UNCHANGED <<step, todo, failed, root>>

Next ==
  \/ Start \/ CopyFile \/ Copied \/ Count \/ RemoveFile \/ Removed \/ Killed
  \/ \E t \in Tools : Open(t) \/ Close(t) \/ Write(t)

-----------------------------------------------------------------------------
(* Properties.                                                             *)

\* However the move is interrupted and whatever fails, what was written is in
\* one of the two folders, unless a tool wrote behind its back.
MemoryIsSomewhere ==
  behind \/ \A m \in memory : m[2] \in In(old, m[1]) \cup In(new, m[1])

\* "se la copia non arriva intera, l'originale e' ancora li' ed e'
\* legacy_or_new() a continuare a leggerlo" (paths.py): whenever no migration is
\* running, what was written is where a tool would look for it now.
LegacyStaysRead ==
  behind \/ step # "none" \/
    \A m \in memory : m[2] \in In(IF LegacyOrNew = "old" THEN old ELSE new, m[1])

=============================================================================
