--------------------------- MODULE WorkerPipeProps ---------------------------
(***************************************************************************)
(* What WorkerPipe must, and what it was said to, guarantee; the inductive *)
(* invariant behind it; and the refinement mapping to WorkerService.       *)
(***************************************************************************)
EXTENDS WorkerPipe

\* A caller got a line that answers somebody else.
Misdelivered(r) == pc[r] = "answered" /\ line[r] # r

TwoAbandoned ==
  \E a, b \in Requests : a # b /\ pc[a] = "abandoned" /\ pc[b] = "abandoned"

\* The lock serialises only the coroutines.  A job outlives a coroutine that
\* was cancelled, or a schema fetch that timed out, and still reads the same
\* pipe.  One such job reads its own late line; it takes two before a later
\* caller can be handed a line that is not its own.
MisdeliveryNeedsTwoAbandoned ==
  (\E r \in Requests : Misdelivered(r)) => TwoAbandoned

\* A timed-out tool call takes its worker down, so that whoever has the lock
\* next finds a pipe with nobody else's line due on it, unless somebody
\* abandoned a job on that pipe.
CleanPipeForNext ==
  owner = NoReq /\ (\A r \in Requests : pc[r] # "abandoned")
    => stdin = <<>> /\ stdout = <<>> /\ decoded = <<>>

-----------------------------------------------------------------------------
(* The inductive invariant behind MisdeliveryNeedsTwoAbandoned.            *)

\* Who may be where: the lock's holder is the one coroutine doing I/O, and a
\* job still in readline() belongs to it or to a coroutine that left it there.
JobInv ==
  \A r \in Requests :
    /\ pc[r] = "io" <=> owner = r
    /\ pc[r] \in {"idle", "waiting"} => job[r] = "none"
    /\ pc[r] = "io" => job[r] # "none"
    /\ job[r] = "queued" => pc[r] = "io"
    /\ job[r] = "reading" => pc[r] \in {"io", "abandoned"}
    /\ pc[r] = "answered" => job[r] = "returned" /\ line[r] # Eof

\* The raw read is a reading job's.
RawInv == rawlock # NoReq => job[rawlock] = "reading"

\* No job reads and no line is due.
NobodyReads ==
  /\ \A q \in Requests : job[q] # "reading"
  /\ rawlock = NoReq
  /\ stdin = <<>> /\ stdout = <<>> /\ decoded = <<>>

\* Job r reads alone: its line is on its way, or was lost in a crash, or (r
\* being the lock's holder) was swallowed into the decoded buffer.
ReadsAlone(r) ==
  /\ \A q \in Requests : job[q] = "reading" <=> q = r
  /\ rawlock = r
  /\ proc # "none"
  /\ \/ decoded = <<>> /\ stdin = <<r>> /\ stdout = <<>> /\ proc = "up"
     \/ decoded = <<>> /\ stdin = <<>> /\ stdout = <<r>>
     \/ decoded = <<>> /\ stdin = <<>> /\ stdout = <<>> /\ proc = "exited"
     \/ /\ decoded = <<r>> /\ stdin = <<>> /\ stdout = <<>> /\ pc[r] = "io"
        /\ \E a \in Requests : a # r /\ pc[a] = "abandoned"

\* Job a was abandoned in the raw read, the holder's job o waits behind it, and
\* the two lines are due in that order.
ReadsBehind(a, o) ==
  /\ a # o
  /\ \A q \in Requests : job[q] = "reading" <=> q \in {a, o}
  /\ rawlock = a
  /\ pc[a] = "abandoned" /\ pc[o] = "io"
  /\ decoded = <<>>
  /\ \/ stdin = <<a, o>> /\ stdout = <<>> /\ proc = "up"
     \/ stdin = <<o>> /\ stdout = <<a>> /\ proc = "up"
     \/ stdin = <<>> /\ stdout = <<a, o>> /\ proc # "none"
     \/ stdin = <<>> /\ stdout \in {<<a>>, <<>>} /\ proc = "exited"

PipeInv ==
  \/ NobodyReads
  \/ \E r \in Requests : ReadsAlone(r)
  \/ \E a, o \in Requests : ReadsBehind(a, o)

\* A job that came back has its own line, or none.
LineInv == \A r \in Requests : job[r] = "returned" => line[r] \in {r, Eof}

\* Until two jobs have been abandoned, order alone keeps every line with its
\* reader, whatever was cancelled, timed out, reaped or crashed meanwhile.
PipeIInv == JobInv /\ RawInv /\ (TwoAbandoned \/ (PipeInv /\ LineInv))

-----------------------------------------------------------------------------
\* How request r stands with its caller.
OutcomeOf(r) ==
  IF pc[r] = "idle" THEN "unasked"
  ELSE IF pc[r] \in {"waiting", "io"} THEN "pending"
  ELSE IF pc[r] = "abandoned" THEN "deserted"
  ELSE IF pc[r] # "answered" THEN "none"
  ELSE IF line[r] = r THEN "own" ELSE "foreign"

Outcome == [r \in Requests |-> OutcomeOf(r)]

Service == INSTANCE WorkerService WITH outcome <- Outcome

\* The plumbing does what WorkerService promises, liveness included.
ImplementsService == Service!ServiceSpec
=============================================================================
