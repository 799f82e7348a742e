------------------------------ MODULE WorkerPipe ------------------------------
(***************************************************************************)
(* One sub-server's persistent worker (src/_worker.py) as the gateway uses *)
(* it (src/server.py, "Persistent workers"): a child process read and      *)
(* written through one pair of pipes, an asyncio.Lock that admits one      *)
(* request at a time, a blocking write+readline that runs on a thread of   *)
(* the default executor, a 60 s timeout around it, and the background task *)
(* that drops the worker of a server marked dead.                          *)
(*                                                                         *)
(* A request is its own identity: the line the worker prints for r is r.   *)
(* Nothing on the wire carries an identifier, so a reader cannot tell      *)
(* whose line it got; the model can.                                       *)
(*                                                                         *)
(* What is modelled of CPython, from how server.py uses it: TextIOWrapper  *)
(* .readline looks at its decoded buffer once, when it is entered, and     *)
(* then waits for a chunk under the raw reader's lock; a chunk is all that *)
(* is in the pipe; its first line is returned and the rest REPLACES the    *)
(* decoded buffer.  A thread blocked there outlives the coroutine that     *)
(* submitted it.                                                           *)
(***************************************************************************)
EXTENDS Naturals, FiniteSets, SequencesExt

CONSTANTS
  Requests,   \* every request of one behaviour; each is issued at most once
  ToolCalls,  \* those made by _call_server_async; the rest fetch schemas
  Cancellable,\* those whose client may cancel them (notifications/cancelled)
  PoolSize,   \* threads of the default executor this worker may pin
  NoReq,      \* no request
  Eof         \* the empty line readline() returns at end of file

ASSUME RequestsAssumption ==
  /\ ToolCalls \subseteq Requests
  /\ Cancellable \subseteq Requests
  /\ NoReq \notin Requests
  /\ Eof \notin Requests
  /\ NoReq # Eof
  /\ PoolSize \in Nat \ {0}

VARIABLES
  pc,       \* pc[r]: the coroutine that serves request r
  job,      \* job[r]: its _io() job on the executor
  line,     \* line[r]: what readline() returned to that job
  owner,    \* holder of the server's asyncio.Lock
  waiters,  \* the lock's FIFO of waiting coroutines
  proc,     \* the worker in _workers: "none", "up", or "exited" (poll() is set)
  stdin,    \* requests written and not yet read by the worker
  stdout,   \* lines printed and not yet read by the gateway
  decoded,  \* lines already read into the TextIOWrapper's buffer
  rawlock,  \* the job inside the raw read, NoReq if none
  status    \* the ServerEntry's status

pipeVars == <<stdin, stdout, decoded, rawlock>>
lockVars == <<owner, waiters>>
vars == <<pc, job, line, owner, waiters, proc, stdin, stdout, decoded, rawlock, status>>

Leaves == {"answered", "failed", "cancelled", "abandoned"}

Reading == {r \in Requests : job[r] = "reading"}

TypeOK ==
  /\ pc \in [Requests -> {"idle", "waiting", "io"} \cup Leaves]
  /\ job \in [Requests -> {"none", "queued", "reading", "returned", "raised"}]
  /\ line \in [Requests -> Requests \cup {NoReq, Eof}]
  /\ owner \in Requests \cup {NoReq}
  /\ waiters \in Seq(Requests)
  /\ proc \in {"none", "up", "exited"}
  /\ stdin \in Seq(Requests)
  /\ stdout \in Seq(Requests)
  /\ decoded \in Seq(Requests)
  /\ rawlock \in Requests \cup {NoReq}
  /\ status \in {"alive", "sleeping", "dead"}

Init ==
  /\ pc = [r \in Requests |-> "idle"]
  /\ job = [r \in Requests |-> "none"]
  /\ line = [r \in Requests |-> NoReq]
  /\ owner = NoReq
  /\ waiters = <<>>
  /\ proc = "none"
  /\ stdin = <<>>
  /\ stdout = <<>>
  /\ decoded = <<>>
  /\ rawlock = NoReq
  /\ status = "alive"

-----------------------------------------------------------------------------
(* The pipes and the jobs blocked on them.                                 *)

EmptyPipes ==
  /\ stdin' = <<>>
  /\ stdout' = <<>>
  /\ decoded' = <<>>
  /\ rawlock' = NoReq

\* Every job blocked in readline() when its process is gone comes back with "".
EndReads ==
  /\ job' = [r \in Requests |-> IF job[r] = "reading" THEN "returned" ELSE job[r]]
  /\ line' = [r \in Requests |-> IF job[r] = "reading" THEN Eof ELSE line[r]]

\* _reap_worker(p) and _workers.pop(): kill, wait, close the pipes, forget p.
DropWorker ==
  /\ proc' = "none"
  /\ EmptyPipes
  /\ EndReads

\* The raw lock goes to any other job waiting for it.
PassRawLock(r) ==
  LET rest == Reading \ {r}
  IN  IF rest = {} THEN rawlock' = NoReq ELSE rawlock' \in rest

-----------------------------------------------------------------------------
(* The coroutines: _call_server_async and _fetch_tool_schemas.             *)

\* The request arrives and queues on the server's lock.
Submit(r) ==
  /\ pc[r] = "idle"
  /\ pc' = [pc EXCEPT ![r] = "waiting"]
  /\ waiters' = Append(waiters, r)
  /\ UNCHANGED <<job, line, owner, proc, pipeVars, status>>

\* Mutant of Enter: the request does not wait for the lock.
EnterUnlocked(r) ==
  /\ waiters # <<>> /\ Head(waiters) = r /\ pc[r] = "waiting"
  /\ proc = "up"
  /\ owner' = r
  /\ waiters' = Tail(waiters)
  /\ pc' = [pc EXCEPT ![r] = "io"]
  /\ job' = [job EXCEPT ![r] = "queued"]
  /\ UNCHANGED <<line, proc, pipeVars, status>>

\* The lock is granted; _worker_for respawns a worker that is not running
\* (its old pipes go with it) and the job is handed to the executor.
Enter(r) ==
  /\ owner = NoReq
  /\ waiters # <<>> /\ Head(waiters) = r /\ pc[r] = "waiting"
  /\ owner' = r
  /\ waiters' = Tail(waiters)
  /\ pc' = [pc EXCEPT ![r] = "io"]
  /\ \/ /\ proc = "up"
        /\ job' = [job EXCEPT ![r] = "queued"]
        /\ UNCHANGED <<line, proc, pipeVars>>
     \/ /\ proc # "up"
        /\ proc' = "up"
        /\ EmptyPipes
        /\ job' = [q \in Requests |-> IF q = r THEN "queued"
                                      ELSE IF job[q] = "reading" THEN "returned"
                                      ELSE job[q]]
        /\ line' = [q \in Requests |-> IF job[q] = "reading" THEN Eof ELSE line[q]]
  /\ UNCHANGED status

\* A thread starts the job: it writes the request line and enters readline().
StartJob(r) ==
  /\ job[r] = "queued"
  /\ Cardinality(Reading) < PoolSize
  /\ \/ /\ proc # "up"                   \* broken or closed pipe
        /\ job' = [job EXCEPT ![r] = "raised"]
        /\ UNCHANGED <<line, stdin, decoded, rawlock>>
     \/ /\ proc = "up" /\ decoded # <<>> \* a line is already buffered
        /\ stdin' = Append(stdin, r)
        /\ job' = [job EXCEPT ![r] = "returned"]
        /\ line' = [line EXCEPT ![r] = Head(decoded)]
        /\ decoded' = Tail(decoded)
        /\ UNCHANGED rawlock
     \/ /\ proc = "up" /\ decoded = <<>>
        /\ stdin' = Append(stdin, r)
        /\ job' = [job EXCEPT ![r] = "reading"]
        /\ rawlock' = IF rawlock = NoReq THEN r ELSE rawlock
        /\ UNCHANGED <<line, decoded>>
  /\ UNCHANGED <<pc, lockVars, proc, stdout, status>>

\* The coroutine resumes with the job's outcome and releases the lock.
\* Tool calls mark the server dead on an exception (dropping the worker) and on
\* an empty line; a schema fetch returns {} and touches nothing.
Finish(r) ==
  /\ pc[r] = "io"
  /\ owner' = NoReq
  /\ \/ /\ job[r] = "returned" /\ line[r] # Eof
        /\ pc' = [pc EXCEPT ![r] = "answered"]
        /\ UNCHANGED <<job, line, proc, pipeVars, status>>
     \/ /\ job[r] = "returned" /\ line[r] = Eof
        /\ pc' = [pc EXCEPT ![r] = "failed"]
        /\ status' = IF r \in ToolCalls THEN "dead" ELSE status
        /\ UNCHANGED <<job, line, proc, pipeVars>>
     \/ /\ job[r] = "raised"
        /\ pc' = [pc EXCEPT ![r] = "failed"]
        /\ IF r \in ToolCalls
           THEN DropWorker /\ status' = "dead"
           ELSE UNCHANGED <<job, line, proc, pipeVars, status>>
  /\ UNCHANGED waiters

\* Mutant of Timeout: a timed-out call leaves its worker running.
TimeoutKeepsWorker(r) ==
  /\ pc[r] = "io"
  /\ job[r] \in {"queued", "reading"}
  /\ owner' = NoReq
  /\ pc' = [pc EXCEPT ![r] = "failed"]
  /\ job' = [job EXCEPT ![r] = IF @ = "queued" THEN "none" ELSE @]
  /\ UNCHANGED <<line, waiters, proc, pipeVars, status>>

\* wait_for expires while the job has not returned.  A tool call drops the
\* worker; a schema fetch leaves it, and its job, as they are (a job no thread
\* has started yet is cancelled).
Timeout(r) ==
  /\ pc[r] = "io"
  /\ job[r] \in {"queued", "reading"}
  /\ owner' = NoReq
  /\ \/ /\ r \in ToolCalls
        /\ pc' = [pc EXCEPT ![r] = "failed"]
        /\ proc' = "none"
        /\ EmptyPipes
        /\ job' = [q \in Requests |-> IF q = r /\ job[q] = "queued" THEN "none"
                                      ELSE IF job[q] = "reading" THEN "returned"
                                      ELSE job[q]]
        /\ line' = [q \in Requests |-> IF job[q] = "reading" THEN Eof ELSE line[q]]
        /\ status' = "dead"
     \/ /\ r \notin ToolCalls
        /\ pc' = [pc EXCEPT ![r] = IF job[r] = "reading" THEN "abandoned" ELSE "failed"]
        /\ job' = [job EXCEPT ![r] = IF @ = "queued" THEN "none" ELSE @]
        /\ UNCHANGED <<line, proc, pipeVars, status>>
  /\ UNCHANGED waiters

\* The client cancels the request.  CancelledError is not an Exception, so the
\* handlers that drop the worker do not see it: only the lock is released.
CancelWaiting(r) ==
  /\ r \in Cancellable
  /\ pc[r] = "waiting"
  /\ pc' = [pc EXCEPT ![r] = "cancelled"]
  /\ \E i \in 1..Len(waiters) : waiters[i] = r /\ waiters' = RemoveAt(waiters, i)
  /\ UNCHANGED <<job, line, owner, proc, pipeVars, status>>

CancelInFlight(r) ==
  /\ r \in Cancellable
  /\ pc[r] = "io"
  /\ pc' = [pc EXCEPT ![r] = IF job[r] = "reading" THEN "abandoned" ELSE "cancelled"]
  /\ job' = [job EXCEPT ![r] = IF @ = "queued" THEN "none" ELSE @]
  /\ owner' = NoReq
  /\ UNCHANGED <<line, waiters, proc, pipeVars, status>>

-----------------------------------------------------------------------------
(* The worker process and the threads that read from it.                   *)

\* One turn of the worker's loop: read a request, run it, print its line.
Serve ==
  /\ proc = "up"
  /\ stdin # <<>>
  /\ stdin' = Tail(stdin)
  /\ stdout' = Append(stdout, Head(stdin))
  /\ UNCHANGED <<pc, job, line, lockVars, proc, decoded, rawlock, status>>

\* The worker exits by itself (a crash, a failed import): what it printed can
\* still be read, what it had not served is lost.
Crash ==
  /\ proc = "up"
  /\ proc' = "exited"
  /\ stdin' = <<>>
  /\ UNCHANGED <<pc, job, line, lockVars, stdout, decoded, rawlock, status>>

\* The job in the raw read gets all that is in the pipe.
ReadChunk(r) ==
  /\ rawlock = r
  /\ stdout # <<>>
  /\ job' = [job EXCEPT ![r] = "returned"]
  /\ line' = [line EXCEPT ![r] = Head(stdout)]
  /\ decoded' = Tail(stdout)
  /\ stdout' = <<>>
  /\ PassRawLock(r)
  /\ UNCHANGED <<pc, lockVars, proc, stdin, status>>

\* Mutant of ReadEof: the raw lock is not passed on.
ReadEofKeepsRawLock(r) ==
  /\ rawlock = r
  /\ proc = "exited" /\ stdout = <<>>
  /\ job' = [job EXCEPT ![r] = "returned"]
  /\ line' = [line EXCEPT ![r] = Eof]
  /\ decoded' = <<>>
  /\ UNCHANGED <<pc, lockVars, proc, stdin, stdout, rawlock, status>>

\* End of file: "" for the job, and the decoded buffer is cleared.
ReadEof(r) ==
  /\ rawlock = r
  /\ proc = "exited" /\ stdout = <<>>
  /\ job' = [job EXCEPT ![r] = "returned"]
  /\ line' = [line EXCEPT ![r] = Eof]
  /\ decoded' = <<>>
  /\ PassRawLock(r)
  /\ UNCHANGED <<pc, lockVars, proc, stdin, stdout, status>>

-----------------------------------------------------------------------------
(* The background tasks that touch this server.                            *)

\* _reap_dead_workers: it does not take the server's lock.
ReapDead ==
  /\ status = "dead"
  /\ proc # "none"
  /\ DropWorker
  /\ UNCHANGED <<pc, lockVars, status>>

\* Mutant of Sleep: a status no reader of the registry knows.
SleepMisspelt ==
  /\ status # "sleeping"
  /\ status' = "asleep"
  /\ UNCHANGED <<pc, job, line, lockVars, proc, pipeVars>>

\* _sleep_monitor after a long idle: every server becomes "sleeping", a dead
\* one too.  The clock runs from the last call's arrival, so it may strike while
\* calls that arrived before still wait for the lock.
Sleep ==
  /\ status # "sleeping"
  /\ status' = "sleeping"
  /\ UNCHANGED <<pc, job, line, lockVars, proc, pipeVars>>

Coroutine(r) == Enter(r) \/ Finish(r) \/ Timeout(r)
Client(r) == Submit(r) \/ CancelWaiting(r) \/ CancelInFlight(r)
Thread(r) == StartJob(r) \/ ReadChunk(r) \/ ReadEof(r)

Next ==
  \/ \E r \in Requests : Coroutine(r) \/ Client(r) \/ Thread(r)
  \/ Serve
  \/ Crash
  \/ ReapDead
  \/ Sleep

\* The event loop resumes what is runnable and its timers fire.  Nothing is
\* assumed of the worker (it may hang for ever) nor of the clients.
Fairness == \A r \in Requests : WF_vars(Coroutine(r))

Spec == Init /\ [][Next]_vars /\ Fairness
=============================================================================
