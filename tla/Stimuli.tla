------------------------------- MODULE Stimuli -------------------------------
(***************************************************************************)
(* What nobody asked for and GM says all the same (src/server.py): the     *)
(* pointer to a section of the knowledge base, the flash of a dormant      *)
(* concept, the safety net's note after too many silent turns.             *)
(*                                                                         *)
(* A call of a tool is a sequence of questions to the workers, and the     *)
(* event loop serves other calls while one of them is out: what is checked *)
(* before a question may be different after it.  One process, a gateway    *)
(* (one session) or the daemon, which composes the hooks' recall for many. *)
(***************************************************************************)
EXTENDS Naturals, FiniteSets, FiniteSetsExt

CONSTANTS
  Slots,      \* calls in flight
  Sessions,   \* sessions whose hooks the daemon serves
  SessionsMax, \* _HOOK_SESSIONS_MAX, of which the daemon remembers what it told
  Gateway,    \* the session of a gateway
  Topics, Concepts, Sections,
  FlashGap,   \* FLASH_MIN_GAP
  SafetyGap   \* STIM_SAFETY_GAP

VARIABLES
  daemon,  \* which process this is
  call,    \* the calls in flight: the questions each has out
  last,    \* _last_topic
  since,   \* _calls_since_flash, up to FlashGap
  turns,   \* _turns_since_stim, up to SafetyGap
  held,    \* the sessions in _HOOK_SEEN
  shown,   \* sections pointed at, per session
  flashed, \* concepts flashed, per session
  alive,   \* Neuron is registered and alive
  quiet,   \* ghost: turns answered without a stimulus nor a question for one
  apart,   \* ghost: calls that could flash since a flash was given
  told,    \* ghost: what each session was told, since it was last forgotten
  hasty, twice, mute  \* ghosts: a stimulus came too soon; again; not in time

vars == <<daemon, call, last, since, turns, held, shown, flashed, alive, quiet, apart, told,
          hasty, twice, mute>>
ghosts == <<quiet, apart, told, hasty, twice, mute>>

Who == Sessions \cup {Gateway}
Idle == [kind |-> "none", ses |-> Gateway, topic |-> CHOOSE t \in Topics : TRUE,
         out |-> {}, stim |-> FALSE, beside |-> FALSE, cut |-> FALSE]

TypeOK ==
  /\ call \in [Slots -> [kind : {"none", "tool", "pre_turn", "pulse", "recall"},
                         ses : Who, topic : Topics,
                         out : SUBSET {"work", "kb", "confirm", "extract", "flash", "note"},
                         stim : BOOLEAN, beside : BOOLEAN, cut : BOOLEAN]]
  /\ \A c \in Slots : /\ call[c].kind = "none" <=> call[c].out = {}
                      /\ call[c].kind # "none" => (daemon <=> call[c].kind = "recall")
                      /\ Cardinality(call[c].out) > 1 => call[c].kind = "recall"
  /\ held \subseteq Sessions /\ Cardinality(held) <= SessionsMax
  /\ last \in Topics \cup {"none"} /\ since \in 0..FlashGap /\ turns \in 0..SafetyGap
  /\ shown \in [Who -> SUBSET Sections] /\ flashed \in [Who -> SUBSET Concepts]
  /\ quiet \in 0..SafetyGap /\ apart \in 0..FlashGap
  /\ told \in [Who -> SUBSET (Sections \cup Concepts)]
  /\ quiet <= turns

Init ==
  /\ daemon \in BOOLEAN
  /\ call = [c \in Slots |-> Idle] /\ last = "none"
  /\ since = 0 /\ turns = 0 /\ alive = TRUE
  /\ held = {} /\ shown = [s \in Who |-> {}] /\ flashed = [s \in Who |-> {}]
  /\ quiet = 0 /\ apart = FlashGap /\ told = [s \in Who |-> {}]
  /\ hasty = FALSE /\ twice = FALSE /\ mute = FALSE

UpTo(n, m) == Min({n, m})
Out(c, q) == q \in call[c].out
Others(c, q) == {d \in Slots \ {c} : Out(d, q)}
\* The call waits for an answer to q, knowing who else does.
Waits(c, was, q) ==
  call' = [d \in Slots |->
             IF d = c THEN [was EXCEPT !.out = @ \cup {q}, !.beside = @ \/ Others(c, q) # {}]
             ELSE IF d \in Others(c, q) THEN [call[d] EXCEPT !.beside = TRUE] ELSE call[d]]
Keeps(c, now) == call' = [call EXCEPT ![c] = IF now.out = {} THEN Idle ELSE now]
\* Its turn ends, perhaps with a stimulus that passes whoever waits for a note.
Ends(c, stim) == call' = [d \in Slots |->
                            IF d = c THEN Idle
                            ELSE [call[d] EXCEPT !.beside = @ \/ (stim /\ Out(d, "note"))]]
Tells(ses, x) == told' = [told EXCEPT ![ses] = @ \cup {x}] /\ twice' = (twice \/ x \in told[ses])
\* What a call that is cut may tell is in nobody's account.
CutTells(was) == was.cut /\ UNCHANGED <<shown, flashed, told, twice>>

-----------------------------------------------------------------------------
(* The safety net (_safety_net_note), at the end of a tool's call.         *)

\* The answer goes back, with a stimulus, without, or without though Neuron
\* was asked or is not there to be asked.
Answers(c, stim, tried) ==
  /\ Ends(c, stim)
  /\ quiet' = CASE stim -> 0 [] ~stim /\ tried -> quiet [] OTHER -> UpTo(quiet + 1, SafetyGap)
  /\ mute' = (mute \/ (~stim /\ ~tried /\ quiet + 1 >= SafetyGap))

\* Mutant of Net: the counter starts again before the question.
NetForgets(c, was) ==
  \/ was.stim /\ turns' = 0 /\ Answers(c, TRUE, TRUE)
  \/ ~was.stim /\ turns + 1 < SafetyGap /\ turns' = turns + 1 /\ Answers(c, FALSE, FALSE)
  \/ ~was.stim /\ turns + 1 >= SafetyGap /\ turns' = 0 /\ Waits(c, was, "note")
     /\ UNCHANGED <<quiet, mute>>
Net(c, was) ==
  \/ was.stim /\ turns' = 0 /\ Answers(c, TRUE, TRUE)
  \/ /\ ~was.stim /\ turns' = UpTo(turns + 1, SafetyGap)
     /\ \/ turns + 1 < SafetyGap /\ Answers(c, FALSE, FALSE)
        \/ turns + 1 >= SafetyGap /\ ~alive /\ Answers(c, FALSE, TRUE)
        \/ turns + 1 >= SafetyGap /\ alive /\ Waits(c, was, "note") /\ UNCHANGED <<quiet, mute>>

NoteGiven == turns' = 0

\* Neuron tells what is forgotten, or nothing, or an error.
Note(c) ==
  /\ Out(c, "note")
  /\ \/ NoteGiven /\ Answers(c, TRUE, TRUE)
        /\ hasty' = (hasty \/ (quiet + 1 < SafetyGap /\ ~call[c].beside))
     \/ Answers(c, FALSE, TRUE) /\ UNCHANGED <<turns, hasty>>
  /\ UNCHANGED <<daemon, last, since, held, shown, flashed, alive, apart, told, twice>>

-----------------------------------------------------------------------------
(* The flash (_maybe_flash).                                               *)

\* Whether the flash, first in priority, is within a pulse's budget (_fit).
Fit(flash) == IF flash THEN BOOLEAN ELSE {FALSE}
\* A pulse with a stimulus in it starts the silence again (_stim_seen).
StimSeen(stim) == IF stim THEN turns' = 0 /\ quiet' = 0 ELSE UNCHANGED <<turns, quiet>>

\* What follows the flash, in each kind of call.
AfterFlash(c, was, flash) ==
  \/ was.kind = "pre_turn" /\ Net(c, [was EXCEPT !.stim = @ \/ flash])
  \/ /\ was.kind = "pulse" /\ UNCHANGED mute
     /\ \E fits \in Fit(flash) : Ends(c, was.stim \/ fits) /\ StimSeen(was.stim \/ fits)
  \/ was.kind = "recall" /\ Keeps(c, was) /\ UNCHANGED <<turns, quiet, mute>>

\* At a shift of topic, when the last one is far enough, Neuron is asked.
MaybeFlash(c, was) ==
  /\ last' = was.topic
  /\ since' = UpTo(since + 1, FlashGap) /\ apart' = UpTo(apart + 1, FlashGap)
  /\ IF was.topic # last /\ since + 1 >= FlashGap /\ alive
     THEN Waits(c, was, "flash") /\ UNCHANGED <<turns, quiet, mute>>
     ELSE AfterFlash(c, was, FALSE)

Remember(ses, k) == flashed' = [flashed EXCEPT ![ses] = @ \cup {k}]

Flash(c) ==
  /\ Out(c, "flash")
  /\ LET was == [call[c] EXCEPT !.out = @ \ {"flash"}] IN
       \/ UNCHANGED <<since, flashed, apart, told, hasty, twice>> /\ AfterFlash(c, was, FALSE)
       \/ /\ \/ CutTells(was)
             \/ ~was.cut /\ \E k \in Concepts \ flashed[was.ses] :
                  Remember(was.ses, k) /\ Tells(was.ses, k)
          /\ since' = 0 /\ apart' = 0
          /\ hasty' = (hasty \/ (apart < FlashGap /\ ~was.beside))
          /\ AfterFlash(c, was, TRUE)
  /\ UNCHANGED <<daemon, last, held, shown, alive>>

-----------------------------------------------------------------------------
(* The calls.                                                              *)

\* A pulse that is not cached, a pre_turn, another tool.
Start(c) ==
  /\ call[c] = Idle /\ ~daemon
  /\ \E t \in Topics, k \in {"tool", "pre_turn", "pulse"} :
       call' = [call EXCEPT ![c] = [Idle EXCEPT !.kind = k, !.topic = t, !.out = {"work"}]]
  /\ UNCHANGED <<daemon, last, since, turns, held, shown, flashed, alive, ghosts>>

\* _HOOK_SEEN.clear(), to make room for s: what was told is forgotten for every
\* session.  A recall in flight is cut: the sets it has are in the table no more,
\* so what it may still tell, and what it keeps from its session, is not known.
Forget(s) ==
  /\ held' = {s} /\ shown' = [w \in Who |-> {}] /\ flashed' = [w \in Who |-> {}]
  /\ told' = [w \in Who |-> {}]
Cut(r) == IF r.kind = "recall" THEN [r EXCEPT !.cut = TRUE] ELSE r

\* A hook's recall, of a session in the table or new to it.
Recall(c) ==
  /\ call[c] = Idle /\ daemon
  /\ \E t \in Topics, s \in Sessions :
       LET now == [Idle EXCEPT !.kind = "recall", !.ses = s, !.topic = t,
                               !.out = {"kb", "extract"}]
       IN \/ /\ s \in held \/ Cardinality(held) < SessionsMax
             /\ call' = [call EXCEPT ![c] = now]
             /\ held' = held \cup {s} /\ UNCHANGED <<shown, flashed, told>>
          \/ /\ s \notin held /\ Cardinality(held) >= SessionsMax
             /\ call' = [d \in Slots |-> IF d = c THEN now ELSE Cut(call[d])]
             /\ Forget(s)
  /\ UNCHANGED <<daemon, last, since, turns, alive, quiet, apart, hasty, twice, mute>>

\* _hook_recall: once the topic is extracted, pre_turn and the flash are asked
\* for side by side, the pointer being on its way.
Extract(c) ==
  /\ Out(c, "extract")
  /\ MaybeFlash(c, [call[c] EXCEPT !.out = (@ \ {"extract"}) \cup {"work"}])
  /\ UNCHANGED <<daemon, held, shown, flashed, alive, told, hasty, twice>>

\* The worker's answer, which may have Neuron's own stimulus in it.
Work(c) ==
  /\ Out(c, "work")
  /\ \E stim \in BOOLEAN :
       LET was == [call[c] EXCEPT !.out = @ \ {"work"}, !.stim = stim] IN
         \/ was.kind = "tool" /\ Net(c, was)
         \/ was.kind \in {"pre_turn", "pulse"} /\ Waits(c, was, "kb")
            /\ UNCHANGED <<turns, quiet, mute>>
         \/ was.kind = "recall" /\ Keeps(c, was) /\ UNCHANGED <<turns, quiet, mute>>
  /\ UNCHANGED <<daemon, last, since, held, shown, flashed, alive, apart, told, hasty, twice>>

\* _kb_vector_pointer: a section found is shown once to a session, as far as its
\* set is that of the table.
Pointed(c) ==
  \/ UNCHANGED <<shown, told, twice>>
  \/ ~call[c].cut /\ \E s \in Sections \ shown[call[c].ses] :
       /\ shown' = [shown EXCEPT ![call[c].ses] = @ \cup {s}]
       /\ Tells(call[c].ses, s)

\* A pulse asks for neighbours instead; bridges may have to be confirmed
\* (_bridge_blocks) before the flash.
Knowledge(c) ==
  /\ Out(c, "kb")
  /\ IF call[c].kind = "pulse" THEN UNCHANGED <<shown, told, twice>> ELSE Pointed(c)
  /\ LET was == [call[c] EXCEPT !.out = @ \ {"kb"}] IN
       IF was.kind = "recall"
       THEN Keeps(c, was) /\ UNCHANGED <<last, since, turns, quiet, apart, mute>>
       ELSE \/ Waits(c, was, "confirm") /\ UNCHANGED <<last, since, turns, quiet, apart, mute>>
            \/ MaybeFlash(c, was)
  /\ UNCHANGED <<daemon, held, flashed, alive, hasty>>

Confirm(c) ==
  /\ Out(c, "confirm")
  /\ MaybeFlash(c, [call[c] EXCEPT !.out = @ \ {"confirm"}])
  /\ UNCHANGED <<daemon, held, shown, flashed, alive, told, hasty, twice>>

NeuronChanges ==
  /\ alive' = ~alive
  /\ UNCHANGED <<daemon, call, last, since, turns, held, shown, flashed, ghosts>>

Next ==
  \/ \E c \in Slots : Start(c) \/ Recall(c) \/ Extract(c) \/ Work(c) \/ Knowledge(c) \/ Confirm(c)
                      \/ Flash(c) \/ Note(c)
  \/ NeuronChanges

-----------------------------------------------------------------------------
(* Properties.                                                             *)

\* However calls overlap, a session is pointed at a section once and reminded
\* of a concept once: what was looked up before a question is looked up again
\* after it.  This is so from one clearing of a full _HOOK_SEEN to the next, for
\* the recalls that begin between them: a session forgotten is told again, and
\* one begun before the clearing tells what it would have told.
OnceEach == ~twice

\* Flashes keep their distance from each other, and notes theirs from any
\* stimulus, unless the other one passed while this one was asked for: the
\* counter is read before the question only.
NotTooSoon == ~hasty

\* Silence is broken: no turn ends as the SafetyGap-th silent one, or a later
\* one, unless Neuron was asked and had nothing to say or was not there.
SilenceIsBroken == ~mute

=============================================================================
