-------------------------------- MODULE Panel --------------------------------
(***************************************************************************)
(* The commands that the control center (class Api of src/webgui.py) runs  *)
(* and shows: _stream, send_input, stop and process_stop, process_list and *)
(* operation_log.                                                          *)
(*                                                                         *)
(* Each request is handled by a thread of its own; a command that is let   *)
(* through gets another one, which spawns the child and follows its output *)
(* to the end.  Nothing is locked: between the question whether a command  *)
(* of the same key still runs and the moment its child is known, any other *)
(* request may come.  `repair' is a command that runs an installer, which  *)
(* inherits its output, outlives it, and may stop every process of the     *)
(* environment: the panel and its children.                                *)
(***************************************************************************)
EXTENDS Naturals

CONSTANTS
  Keys,       \* the keys of commands
  Logged,     \* those that write a log file and run an installer
  MaxStarts,  \* bound: commands let through
  MaxFaults   \* bound: children that cannot be spawned, panels that are closed,
              \* logs that cannot be opened or written to

Starts == 1..MaxStarts

VARIABLES
  up,       \* the panel is open
  cmd,      \* cmd[i]: the i-th command let through, and how far its threads are
  child,    \* child[i]: its process
  inst,     \* inst[i]: the installer it runs
  waits,    \* commands that have asked a question
  typed,    \* commands with a line on their input they have not read
  procs,    \* _procs: the last child known for a key, 0 for none
  running,  \* _running: the keys shown
  before,   \* <<j, k>> when key j was put in before key k, both shown
  log,      \* the log of a key: whose it is, and its last line if it is an exit
  mute,     \* commands that go on without their log
  faults,
  raced,    \* ghost: keys started while an earlier command was on its way
  left      \* ghost: keys that were running when a panel went

vars == <<up, cmd, child, inst, waits, typed, procs, running, before, log, mute, faults, raced, left>>

Ats == {"no", "free", "shown", "spawned", "noted", "over", "done", "lost"}

\* The keys shown are one after another, as in a dict.
OneAfterAnother ==
  /\ before \subseteq running \X running
  /\ \A j, k \in running : <<j, k>> \in before <=> j # k /\ <<k, j>> \notin before
  /\ \A j, k, l \in running : <<j, k>> \in before /\ <<k, l>> \in before => <<j, l>> \in before

TypeOK ==
  /\ up \in BOOLEAN
  /\ cmd \in [Starts -> [key : Keys, at : Ats]]
  /\ child \in [Starts -> {"none", "live", "ok", "err", "failed"}]
  /\ inst \in [Starts -> {"none", "live", "ended"}]
  /\ waits \subseteq {i \in Starts : child[i] = "live"} /\ typed \subseteq Starts
  /\ procs \in [Keys -> 0..MaxStarts]
  /\ \A k \in Keys : procs[k] # 0 => cmd[procs[k]].key = k
  /\ running \subseteq Keys /\ OneAfterAnother
  /\ log \in [Logged -> [by : 0..MaxStarts, exit : {"none", "ok", "err"}]]
  /\ mute \subseteq Starts
  /\ faults \in 0..MaxFaults
  /\ raced \subseteq Keys /\ left \subseteq Keys
  /\ ~up => running = {} /\ \A k \in Keys : procs[k] = 0

Init ==
  /\ up = TRUE
  /\ cmd = [i \in Starts |-> [key |-> CHOOSE k \in Keys : TRUE, at |-> "no"]]
  /\ child = [i \in Starts |-> "none"] /\ inst = [i \in Starts |-> "none"]
  /\ waits = {} /\ typed = {} /\ mute = {}
  /\ procs = [k \in Keys |-> 0] /\ running = {} /\ before = {}
  /\ log = [k \in Logged |-> [by |-> 0, exit |-> "none"]]
  /\ faults = 0 /\ raced = {} /\ left = {}

Live(i) == child[i] = "live"
Works(i) == Live(i) \/ inst[i] = "live"
Polls(k) == procs[k] # 0 /\ Live(procs[k])
Fault == faults < MaxFaults /\ faults' = faults + 1
At(i, a) == up /\ cmd[i].at = a
Goes(i, a) == cmd' = [cmd EXCEPT ![i].at = a]

-----------------------------------------------------------------------------
(* _stream.                                                                *)

Busy(k) == Polls(k)

\* The request is let through: no child known for the key runs.
Check(k) ==
  \E i \in Starts :
    /\ up /\ cmd[i].at = "no" /\ \A j \in 1..(i - 1) : cmd[j].at # "no"
    /\ ~Busy(k)
    /\ cmd' = [cmd EXCEPT ![i] = [key |-> k, at |-> "free"]]
    /\ raced' = IF \E j \in Starts : /\ cmd[j].key = k /\ cmd[j].at \notin {"no", "done", "lost"}
                                     /\ ~(cmd[j].at = "noted" /\ Live(j))
                THEN raced \cup {k} ELSE raced
    /\ UNCHANGED <<up, child, inst, waits, typed, procs, running, before, log, mute, faults, left>>

PutIn(k) == running' = running \cup {k} /\ before' = before \cup (running \X {k})

\* Mutant of Show: a list of labels.
ShowTwice(i) ==
  /\ At(i, "free") /\ Goes(i, "shown")
  /\ PutIn(cmd[i].key)
  /\ UNCHANGED <<up, child, inst, waits, typed, procs, log, mute, faults, raced, left>>
\* It is shown as running, and its log is opened anew; when that fails, or the
\* first line cannot be written, the command goes on without a log.
Show(i) ==
  /\ At(i, "free") /\ Goes(i, "shown")
  /\ LET k == cmd[i].key
         anew == [log EXCEPT ![k] = [by |-> i, exit |-> "none"]]
     IN  /\ IF k \in running THEN UNCHANGED <<running, before>> ELSE PutIn(k)
         /\ \/ k \notin Logged /\ UNCHANGED <<log, mute, faults>>
            \/ k \in Logged /\ log' = anew /\ UNCHANGED <<mute, faults>>
            \/ k \in Logged /\ log' \in {log, anew} /\ mute' = mute \cup {i} /\ Fault
  /\ UNCHANGED <<up, child, inst, waits, typed, procs, raced, left>>

\* Popen; an executable that is not found is reported, and no exit line written.
Spawn(i) ==
  /\ At(i, "shown")
  /\ \/ Goes(i, "spawned") /\ child' = [child EXCEPT ![i] = "live"] /\ UNCHANGED faults
     \/ Goes(i, "over") /\ child' = [child EXCEPT ![i] = "failed"] /\ Fault
  /\ UNCHANGED <<up, inst, waits, typed, procs, running, before, log, mute, raced, left>>

Note(i) ==
  /\ At(i, "spawned") /\ Goes(i, "noted")
  /\ procs' = [procs EXCEPT ![cmd[i].key] = i]
  /\ UNCHANGED <<up, child, inst, waits, typed, running, before, log, mute, faults, raced, left>>

\* Mutant of AtEnd: the child is waited for, not the end of its output.
AtEndOfChild(i) == ~Live(i)
\* The output ends when nobody holds it any more.
AtEnd(i) == ~Works(i)

\* The last lines: the exit code is written to the log this command opened,
\* which a later one may have opened since; or it has none, or the write fails.
Follow(i) ==
  /\ At(i, "noted") /\ AtEnd(i) /\ Goes(i, "over")
  /\ LET k == cmd[i].key IN
       \/ (k \notin Logged \/ i \in mute) /\ UNCHANGED <<log, mute, faults>>
       \/ /\ k \in Logged /\ i \notin mute
          /\ log' = [log EXCEPT ![k].exit = child[i]] /\ UNCHANGED <<mute, faults>>
       \/ k \in Logged /\ i \notin mute /\ mute' = mute \cup {i} /\ Fault /\ UNCHANGED log
  /\ UNCHANGED <<up, child, inst, waits, typed, procs, running, before, raced, left>>

\* Mutant of Pop: the key stays among those shown.
PopNot(i) ==
  /\ At(i, "over") /\ Goes(i, "done")
  /\ UNCHANGED <<up, child, inst, waits, typed, procs, running, before, log, mute, faults, raced, left>>
\* finally: whoever put the key in, it goes.
Pop(i) ==
  /\ At(i, "over") /\ Goes(i, "done")
  /\ running' = running \ {cmd[i].key}
  /\ before' = {e \in before : cmd[i].key \notin {e[1], e[2]}}
  /\ UNCHANGED <<up, child, inst, waits, typed, procs, log, mute, faults, raced, left>>

-----------------------------------------------------------------------------
(* stop, process_stop and send_input.                                      *)

\* Every child known for the keys asked for is terminated; an installer that
\* it runs is not.
Stop(ks) ==
  /\ up /\ \E k \in ks : Polls(k)
  /\ LET those == {procs[k] : k \in {k \in ks : Polls(k)}} IN
       /\ child' = [i \in Starts |-> IF i \in those THEN "err" ELSE child[i]]
       /\ waits' = waits \ those
  /\ UNCHANGED <<up, cmd, inst, typed, procs, running, before, log, mute, faults, raced, left>>

\* The page names no key: the answer goes to the one shown first.
First(k) == k \in running /\ \A j \in running : <<j, k>> \notin before

\* The line goes to that command's child, whether it has asked or not; more than
\* one it has not read are as one here.
SendInput ==
  /\ up
  /\ \E k \in running :
       /\ First(k) /\ Polls(k)
       /\ IF procs[k] \in waits
          THEN waits' = waits \ {procs[k]} /\ UNCHANGED typed
          ELSE typed' = typed \cup {procs[k]} /\ UNCHANGED waits
  /\ UNCHANGED <<up, cmd, child, inst, procs, running, before, log, mute, faults, raced, left>>

-----------------------------------------------------------------------------
(* The commands themselves.                                                *)

\* A question is answered by what was typed before it, or waits.  A command without
\* a panel has no one to ask: its input is at its end.
Ask(i) ==
  /\ up /\ Live(i) /\ inst[i] # "live" /\ i \notin waits /\ cmd[i].at # "lost"
  /\ IF i \in typed THEN typed' = typed \ {i} /\ UNCHANGED waits
                    ELSE waits' = waits \cup {i} /\ UNCHANGED typed
  /\ UNCHANGED <<up, cmd, child, inst, procs, running, before, log, mute, faults, raced, left>>

\* repair_run: of the panel's commands it is the repairs that write a log and
\* reinstall.
ToLog(i) == cmd[i].key \in Logged

\* cmd_repair calls the installer, and waits for it.
Install(i) ==
  /\ Live(i) /\ ToLog(i) /\ inst[i] = "none" /\ i \notin waits
  /\ inst' = [inst EXCEPT ![i] = "live"]
  /\ UNCHANGED <<up, cmd, child, waits, typed, procs, running, before, log, mute, faults, raced, left>>

Installed(i) ==
  /\ inst[i] = "live"
  /\ inst' = [inst EXCEPT ![i] = "ended"]
  /\ UNCHANGED <<up, cmd, child, waits, typed, procs, running, before, log, mute, faults, raced, left>>

End(i) ==
  /\ Live(i) /\ inst[i] # "live" /\ i \notin waits
  /\ \E code \in {"ok", "err"} : child' = [child EXCEPT ![i] = code]
  /\ UNCHANGED <<up, cmd, inst, waits, typed, procs, running, before, log, mute, faults, raced, left>>

\* The panel goes, with its threads and all it keeps in memory.
Gone(killed) ==
  /\ up /\ up' = FALSE
  /\ cmd' = [i \in Starts |-> IF cmd[i].at \in {"no", "done"} THEN cmd[i]
                              ELSE [cmd[i] EXCEPT !.at = "lost"]]
  /\ child' = [i \in Starts |-> IF killed /\ Live(i) THEN "err" ELSE child[i]]
  /\ waits' = {}
  /\ procs' = [k \in Keys |-> 0] /\ running' = {} /\ before' = {}
  /\ left' = left \cup {cmd[i].key : i \in {i \in Starts : Works(i)}}
  /\ UNCHANGED <<inst, typed, log, mute, raced>>

\* Stop-VenvProcesses.
Sweep(i) == inst[i] = "live" /\ Gone(TRUE) /\ UNCHANGED faults
Close == Fault /\ Gone(FALSE)
Open ==
  /\ ~up /\ up' = TRUE
  /\ UNCHANGED <<cmd, child, inst, waits, typed, procs, running, before, log, mute, faults, raced, left>>

Next ==
  \/ \E k \in Keys : Check(k) \/ Stop({k})
  \/ Stop(Keys) \/ SendInput \/ Close \/ Open
  \/ \E i \in Starts : \/ Show(i) \/ Spawn(i) \/ Note(i) \/ Follow(i) \/ Pop(i)
                       \/ Ask(i) \/ Install(i) \/ Installed(i) \/ End(i) \/ Sweep(i)

\* An answer to what is asked.
Answer == SendInput /\ waits' # waits

\* Threads run on, an installer ends, a command that has nothing to ask ends;
\* the user answers what is asked.
Fairness ==
  /\ WF_vars(Answer)
  /\ \A i \in Starts : /\ WF_vars(Show(i)) /\ WF_vars(Spawn(i)) /\ WF_vars(Note(i))
                       /\ WF_vars(Follow(i)) /\ WF_vars(Pop(i))
                       /\ WF_vars(Installed(i)) /\ SF_vars(End(i))

Spec == Init /\ [][Next]_vars /\ Fairness

-----------------------------------------------------------------------------
(* Properties.                                                             *)

\* One command of a key at a time, its installer counted: two work together
\* only if one was started while the other was on its way in or out, or had
\* been stopped over its installer's head, or came from a panel that is gone.
OneAtATime ==
  \A i, j \in Starts :
    i # j /\ cmd[i].key = cmd[j].key /\ Works(i) /\ Works(j) => cmd[i].key \in raced \cup left

\* process_list, and what stop and process_stop can reach.
Listed == {procs[k] : k \in {k \in Keys : Polls(k)}}

\* A child of this panel that runs is shown, listed and can be stopped, from
\* the moment it is known, unless its key was raced for: the second command's
\* child takes the first one's place, the first one's end takes the key away.
ShownAndStoppable ==
  \A i \in Starts :
    cmd[i].at = "noted" /\ Live(i) /\ cmd[i].key \notin raced =>
      i \in Listed /\ cmd[i].key \in running

\* operation_log of a key.
Outcome(k) ==
  [found |-> log[k].by # 0, running |-> log[k].exit = "none", exit |-> log[k].exit]

\* The log read back tells the truth across panels.  It is of the last command of
\* its key that was started, but for those that went on without one; an exit in it
\* is that command's, which works no more, nor does the installer it ran; no exit
\* means it works, or it never began, or its panel went before the end, or the
\* exit could not be written.
OutcomeIsTruthful ==
  \A k \in Logged : Outcome(k).found /\ k \notin raced =>
    LET i == log[k].by IN
      /\ \A j \in Starts :
           j > i /\ cmd[j].key = k /\ child[j] # "none" => j \in mute
      /\ IF Outcome(k).running
         THEN Works(i) \/ child[i] = "failed" \/ cmd[i].at # "done" \/ i \in mute
         ELSE ~Works(i) /\ Outcome(k).exit = child[i]

\* A command that asks is answered, stopped, or left by its panel, even when
\* the answers go to another one first; one that lost its place in a race is not.
AskerIsAnswered ==
  \A i \in Starts : i \in waits /\ cmd[i].key \notin raced
                      ~> i \notin waits \/ cmd[i].key \in raced

\* The panel tells the truth about the commands it started, and can stop them.
PanelTellsTruth == OneAtATime /\ ShownAndStoppable /\ OutcomeIsTruthful
=============================================================================
