-------------------------- MODULE WorkerPipe_proofs --------------------------
(***************************************************************************)
(* WorkerPipe keeps its types, and hands out no foreign line before two    *)
(* jobs have been abandoned, for every set of requests and every pool.     *)
(***************************************************************************)
EXTENDS WorkerPipeProps, SequenceTheorems, TLAPS

\* Taking one element out of a sequence leaves a sequence over the same set.
LEMMA RemoveAtType ==
  ASSUME NEW S, NEW s \in Seq(S), NEW i \in 1..Len(s)
  PROVE  RemoveAt(s, i) \in Seq(S)
<1>1. SubSeq(s, 1, i-1) \in Seq(S)
  BY SubSeqProperties
<1>2. SubSeq(s, i+1, Len(s)) \in Seq(S)
  BY SubSeqProperties
<1>3. QED
  BY <1>1, <1>2, ConcatProperties DEF RemoveAt

PipesTyped ==
  /\ stdin \in Seq(Requests)
  /\ stdout \in Seq(Requests)
  /\ decoded \in Seq(Requests)
  /\ rawlock \in Requests \cup {NoReq}

JobsTyped ==
  /\ job \in [Requests -> {"none", "queued", "reading", "returned", "raised"}]
  /\ line \in [Requests -> Requests \cup {NoReq, Eof}]

\* Fresh pipes are typed.
LEMMA EmptyPipesType ==
  ASSUME EmptyPipes
  PROVE  PipesTyped'
BY EmptySeq DEF EmptyPipes, PipesTyped

\* Ending the blocked reads keeps the jobs typed.
LEMMA EndReadsType ==
  ASSUME JobsTyped, EndReads
  PROVE  JobsTyped'
BY DEF EndReads, JobsTyped

\* The pipes, jobs and statuses keep their types through every step.
LEMMA TypeStep ==
  ASSUME TypeOK, [Next]_vars
  PROVE  TypeOK'
<1>0. PipesTyped /\ JobsTyped
  BY DEF TypeOK, PipesTyped, JobsTyped
<1> DEFINE Rest ==
      /\ pc \in [Requests -> {"idle", "waiting", "io"} \cup Leaves]
      /\ owner \in Requests \cup {NoReq}
      /\ waiters \in Seq(Requests)
      /\ proc \in {"none", "up", "exited"}
      /\ status \in {"alive", "sleeping", "dead"}
<1>a. Rest
  BY DEF TypeOK
<1>b. SUFFICES PipesTyped' /\ JobsTyped' /\ Rest'
  BY DEF TypeOK, PipesTyped, JobsTyped
<1>c. UNCHANGED pipeVars => PipesTyped'
  BY <1>0 DEF pipeVars, PipesTyped
<1>d. UNCHANGED <<job, line>> => JobsTyped'
  BY <1>0 DEF JobsTyped
<1> HIDE DEF Rest
<1>1. ASSUME NEW r \in Requests, Submit(r) PROVE PipesTyped' /\ JobsTyped' /\ Rest'
  BY <1>1, <1>a, <1>c, <1>d DEF Submit, Rest, pipeVars
<1>2. ASSUME NEW r \in Requests, Enter(r) PROVE PipesTyped' /\ JobsTyped' /\ Rest'
  <2>1. Rest'
    BY <1>2, <1>a, HeadTailProperties DEF Enter, Rest
  <2>2. PipesTyped'
    BY <1>2, <1>c, EmptyPipesType DEF Enter, pipeVars
  <2>3. JobsTyped'
    BY <1>2, <1>0 DEF Enter, JobsTyped
  <2>4. QED
    BY <2>1, <2>2, <2>3
<1>3. ASSUME NEW r \in Requests, Finish(r) PROVE PipesTyped' /\ JobsTyped' /\ Rest'
  <2>1. Rest'
    BY <1>3, <1>a DEF Finish, Rest, DropWorker, Leaves
  <2>2. PipesTyped'
    BY <1>3, <1>c, EmptyPipesType DEF Finish, DropWorker, pipeVars
  <2>3. JobsTyped'
    BY <1>3, <1>0, <1>d, EndReadsType DEF Finish, DropWorker
  <2>4. QED
    BY <2>1, <2>2, <2>3
<1>4. ASSUME NEW r \in Requests, Timeout(r) PROVE PipesTyped' /\ JobsTyped' /\ Rest'
  <2>1. Rest'
    BY <1>4, <1>a DEF Timeout, Rest, Leaves
  <2>2. PipesTyped'
    BY <1>4, <1>c, EmptyPipesType DEF Timeout, pipeVars
  <2>3. JobsTyped'
    BY <1>4, <1>0 DEF Timeout, JobsTyped
  <2>4. QED
    BY <2>1, <2>2, <2>3
<1>5. ASSUME NEW r \in Requests, CancelWaiting(r) PROVE PipesTyped' /\ JobsTyped' /\ Rest'
  <2>1. waiters' \in Seq(Requests)
    BY <1>5, <1>a, RemoveAtType DEF CancelWaiting, Rest
  <2>2. QED
    BY <1>5, <1>a, <1>c, <1>d, <2>1 DEF CancelWaiting, Rest, Leaves, pipeVars
<1>6. ASSUME NEW r \in Requests, CancelInFlight(r) PROVE PipesTyped' /\ JobsTyped' /\ Rest'
  <2>1. Rest'
    BY <1>6, <1>a, RequestsAssumption DEF CancelInFlight, Rest, Leaves
  <2>2. PipesTyped'
    BY <1>6, <1>c DEF CancelInFlight, pipeVars
  <2>3. JobsTyped'
    BY <1>6, <1>0 DEF CancelInFlight, JobsTyped
  <2>4. QED
    BY <2>1, <2>2, <2>3
<1>7. ASSUME NEW r \in Requests, StartJob(r) PROVE PipesTyped' /\ JobsTyped' /\ Rest'
  <2>1. Rest'
    BY <1>7, <1>a DEF StartJob, Rest, lockVars
  <2>a. Append(stdin, r) \in Seq(Requests)
    BY <1>0, AppendProperties DEF PipesTyped
  <2>b. decoded # <<>> => Head(decoded) \in Requests /\ Tail(decoded) \in Seq(Requests)
    BY <1>0, HeadTailProperties DEF PipesTyped
  <2>2. PipesTyped'
    BY <1>7, <1>0, <2>a, <2>b DEF StartJob, PipesTyped
  <2>3. JobsTyped'
    BY <1>7, <1>0, <2>b DEF StartJob, JobsTyped
  <2>4. QED
    BY <2>1, <2>2, <2>3
<1>8. ASSUME NEW r \in Requests, ReadChunk(r) PROVE PipesTyped' /\ JobsTyped' /\ Rest'
  <2>1. Rest'
    BY <1>8, <1>a DEF ReadChunk, Rest, lockVars
  <2>2. PipesTyped'
    BY <1>8, <1>0, HeadTailProperties, EmptySeq
       DEF ReadChunk, PassRawLock, Reading, PipesTyped
  <2>3. JobsTyped'
    BY <1>8, <1>0, HeadTailProperties DEF ReadChunk, JobsTyped, PipesTyped
  <2>4. QED
    BY <2>1, <2>2, <2>3
<1>9. ASSUME NEW r \in Requests, ReadEof(r) PROVE PipesTyped' /\ JobsTyped' /\ Rest'
  <2>1. Rest'
    BY <1>9, <1>a DEF ReadEof, Rest, lockVars
  <2>2. PipesTyped'
    BY <1>9, <1>0, EmptySeq DEF ReadEof, PassRawLock, Reading, PipesTyped
  <2>3. JobsTyped'
    BY <1>9, <1>0 DEF ReadEof, JobsTyped
  <2>4. QED
    BY <2>1, <2>2, <2>3
<1>10. ASSUME Serve PROVE PipesTyped' /\ JobsTyped' /\ Rest'
  <2>1. Rest' /\ JobsTyped'
    BY <1>10, <1>a, <1>d DEF Serve, Rest, lockVars
  <2>2. PipesTyped'
    BY <1>10, <1>0, HeadTailProperties, AppendProperties DEF Serve, PipesTyped
  <2>3. QED
    BY <2>1, <2>2
<1>11. ASSUME Crash PROVE PipesTyped' /\ JobsTyped' /\ Rest'
  <2>1. Rest' /\ JobsTyped'
    BY <1>11, <1>a, <1>d DEF Crash, Rest, lockVars
  <2>2. PipesTyped'
    BY <1>11, <1>0, EmptySeq DEF Crash, PipesTyped
  <2>3. QED
    BY <2>1, <2>2
<1>12. ASSUME ReapDead PROVE PipesTyped' /\ JobsTyped' /\ Rest'
  <2>1. Rest'
    BY <1>12, <1>a DEF ReapDead, DropWorker, Rest, lockVars
  <2>2. PipesTyped' /\ JobsTyped'
    BY <1>12, <1>0, EmptyPipesType, EndReadsType DEF ReapDead, DropWorker
  <2>3. QED
    BY <2>1, <2>2
<1>13. ASSUME Sleep PROVE PipesTyped' /\ JobsTyped' /\ Rest'
  BY <1>13, <1>a, <1>c, <1>d DEF Sleep, Rest, lockVars, pipeVars
<1>14. CASE UNCHANGED vars
  BY <1>14, <1>a, <1>c, <1>d DEF vars, Rest, pipeVars
<1>15. QED
  BY <1>1, <1>2, <1>3, <1>4, <1>5, <1>6, <1>7, <1>8, <1>9, <1>10, <1>11,
     <1>12, <1>13, <1>14
     DEF Next, Coroutine, Client, Thread

\* Type correctness of the pipe, its lock, its jobs and the server's status.
THEOREM TypeCorrect == Spec => []TypeOK
<1>1. Init => TypeOK
  BY RequestsAssumption DEF Init, TypeOK
<1>2. TypeOK /\ [Next]_vars => TypeOK'
  BY TypeStep
<1>3. QED
  BY <1>1, <1>2, PTL DEF Spec

-----------------------------------------------------------------------------
(* No foreign line before two abandoned jobs.                              *)

\* The short pipes that occur before two jobs are abandoned.
LEMMA ShortPipes ==
  ASSUME NEW a \in Requests, NEW b \in Requests
  PROVE  /\ Append(<<>>, a) = <<a>>
         /\ Append(<<a>>, b) = <<a, b>>
         /\ Head(<<a>>) = a /\ Tail(<<a>>) = <<>>
         /\ Head(<<a, b>>) = a /\ Tail(<<a, b>>) = <<b>>
         /\ <<a>> # <<>> /\ <<a, b>> # <<>>
<1>1. Append(<<>>, a) = <<a>> /\ Append(<<a>>, b) = <<a, b>>
  <2>1. Append(<<>>, a) = <<a>>
    OBVIOUS
  <2>2. <<a>> \in Seq(Requests) /\ <<a, b>> \in Seq(Requests)
    OBVIOUS
  <2>3. /\ Append(<<a>>, b) \in Seq(Requests)
        /\ Len(Append(<<a>>, b)) = 2
        /\ Append(<<a>>, b)[1] = a /\ Append(<<a>>, b)[2] = b
    BY <2>2, AppendProperties
  <2>4. Len(<<a, b>>) = 2 /\ <<a, b>>[1] = a /\ <<a, b>>[2] = b
    OBVIOUS
  <2>5. \A i \in 1..2 : i = 1 \/ i = 2
    OBVIOUS
  <2>6. QED
    BY <2>1, <2>2, <2>3, <2>4, <2>5, SeqEqual
<1>2. Head(<<a>>) = a /\ Tail(<<a>>) = <<>>
  OBVIOUS
<1>3. Head(<<a, b>>) = a
  OBVIOUS
<1>4. Tail(<<a, b>>) = <<b>>
  OBVIOUS
<1>5. <<a>> # <<>> /\ <<a, b>> # <<>>
  OBVIOUS
<1>6. QED
  BY <1>1, <1>2, <1>3, <1>4, <1>5

\* A coroutine that left a job behind has returned: it never comes back.
LEMMA AbandonedStays ==
  ASSUME TypeOK, [Next]_vars, NEW r \in Requests, pc[r] = "abandoned"
  PROVE  pc'[r] = "abandoned"
<1>1. ASSUME NEW q \in Requests, Client(q) \/ Coroutine(q) PROVE pc'[r] = "abandoned"
  <2>1. CASE Client(q)
    BY <2>1 DEF TypeOK, Client, Submit, CancelWaiting, CancelInFlight
  <2>2. CASE Enter(q)
    BY <2>2 DEF TypeOK, Enter
  <2>3. CASE Finish(q)
    BY <2>3 DEF TypeOK, Finish
  <2>4. CASE Timeout(q)
    BY <2>4 DEF TypeOK, Timeout
  <2>5. QED
    BY <1>1, <2>1, <2>2, <2>3, <2>4 DEF Coroutine
<1>2. ASSUME NEW q \in Requests, Thread(q) PROVE pc'[r] = "abandoned"
  BY <1>2 DEF Thread, StartJob, ReadChunk, ReadEof
<1>3. CASE Serve \/ Crash \/ ReapDead \/ Sleep
  BY <1>3 DEF Serve, Crash, ReapDead, Sleep
<1>4. CASE UNCHANGED vars
  BY <1>4 DEF vars
<1>5. QED
  BY <1>1, <1>2, <1>3, <1>4 DEF Next

\* The lock admits one coroutine, and jobs only read for it or for those gone.
LEMMA JobStep ==
  ASSUME TypeOK, JobInv, RawInv, [Next]_vars
  PROVE  JobInv'
<1> USE RequestsAssumption DEF TypeOK, JobInv
<1>1. ASSUME NEW r \in Requests, Submit(r) PROVE JobInv'
  BY <1>1 DEF Submit
<1>2. ASSUME NEW r \in Requests, Enter(r) PROVE JobInv'
  BY <1>2 DEF Enter
<1>3. ASSUME NEW r \in Requests, Finish(r) PROVE JobInv'
  BY <1>3 DEF Finish, DropWorker, EndReads
<1>4. ASSUME NEW r \in Requests, Timeout(r) PROVE JobInv'
  <2>1. CASE r \in ToolCalls
    BY <1>4, <2>1 DEF Timeout
  <2>2. CASE r \notin ToolCalls
    BY <1>4, <2>2 DEF Timeout
  <2>3. QED
    BY <2>1, <2>2
<1>5. ASSUME NEW r \in Requests, CancelWaiting(r) PROVE JobInv'
  BY <1>5 DEF CancelWaiting
<1>6. ASSUME NEW r \in Requests, CancelInFlight(r) PROVE JobInv'
  BY <1>6 DEF CancelInFlight
<1>7. ASSUME NEW r \in Requests, StartJob(r) PROVE JobInv'
  BY <1>7 DEF StartJob, lockVars
<1>8. ASSUME NEW r \in Requests, ReadChunk(r) PROVE JobInv'
  BY <1>8 DEF ReadChunk, RawInv, lockVars
<1>9. ASSUME NEW r \in Requests, ReadEof(r) PROVE JobInv'
  BY <1>9 DEF ReadEof, RawInv, lockVars
<1>10. CASE Serve \/ Crash \/ Sleep
  BY <1>10 DEF Serve, Crash, Sleep, lockVars
<1>11. CASE ReapDead
  BY <1>11 DEF ReapDead, DropWorker, EndReads, lockVars
<1>12. CASE UNCHANGED vars
  BY <1>12 DEF vars
<1>13. QED
  BY <1>1, <1>2, <1>3, <1>4, <1>5, <1>6, <1>7, <1>8, <1>9, <1>10, <1>11, <1>12
     DEF Next, Coroutine, Client, Thread

\* Only a job in readline() is ever inside the raw read.
LEMMA RawStep ==
  ASSUME TypeOK, JobInv, RawInv, [Next]_vars
  PROVE  RawInv'
<1> USE RequestsAssumption DEF TypeOK, RawInv, EmptyPipes, pipeVars
<1>1. ASSUME NEW r \in Requests, Client(r) PROVE RawInv'
  BY <1>1 DEF JobInv, Client, Submit, CancelWaiting, CancelInFlight
<1>2. ASSUME NEW r \in Requests, Enter(r) PROVE RawInv'
  BY <1>2 DEF JobInv, Enter
<1>3. ASSUME NEW r \in Requests, Finish(r) PROVE RawInv'
  BY <1>3 DEF Finish, DropWorker
<1>4. ASSUME NEW r \in Requests, Timeout(r) PROVE RawInv'
  BY <1>4 DEF Timeout
<1>5. ASSUME NEW r \in Requests, StartJob(r) PROVE RawInv'
  BY <1>5 DEF StartJob
<1>6. ASSUME NEW r \in Requests, ReadChunk(r) PROVE RawInv'
  BY <1>6 DEF ReadChunk, PassRawLock, Reading
<1>7. ASSUME NEW r \in Requests, ReadEof(r) PROVE RawInv'
  BY <1>7 DEF ReadEof, PassRawLock, Reading
<1>8. CASE Serve \/ Crash \/ ReapDead \/ Sleep
  BY <1>8 DEF Serve, Crash, ReapDead, DropWorker, Sleep
<1>9. CASE UNCHANGED vars
  BY <1>9 DEF vars
<1>10. QED
  BY <1>1, <1>2, <1>3, <1>4, <1>5, <1>6, <1>7, <1>8, <1>9 DEF Next, Coroutine,
     Thread

\* A step that empties the pipes and ends every read leaves nobody reading.
LEMMA DroppedPipe ==
  ASSUME TypeOK, LineInv, EmptyPipes,
         line' = [q \in Requests |-> IF job[q] = "reading" THEN Eof ELSE line[q]],
         \A q \in Requests : job'[q] # "reading",
         \A q \in Requests : job'[q] = "returned" => job[q] \in {"reading", "returned"}
  PROVE  PipeInv' /\ LineInv'
<1>1. PipeInv'
  BY DEF EmptyPipes, PipeInv, NobodyReads
<1>2. LineInv'
  BY DEF LineInv
<1>3. QED
  BY <1>1, <1>2

\* A step that touches neither pipes nor reads, and deserts no waiting reader,
\* leaves the shape of the pipe alone.
LEMMA SamePipe ==
  ASSUME TypeOK, JobInv, PipeInv, LineInv, UNCHANGED <<line, proc, pipeVars>>,
         \A q \in Requests : job'[q] = "reading" <=> job[q] = "reading",
         \A q \in Requests : job'[q] = "returned" => job[q] = "returned",
         \A q \in Requests : job[q] = "reading" /\ pc[q] = "io" =>
           pc'[q] = "io" \/ (pc'[q] = "abandoned" /\ ~TwoAbandoned'),
         \A q \in Requests : pc[q] = "abandoned" => pc'[q] = "abandoned"
  PROVE  PipeInv' /\ LineInv'
<1>1. LineInv'
  BY DEF LineInv
<1>2. CASE NobodyReads
  BY <1>1, <1>2 DEF NobodyReads, PipeInv, pipeVars
<1>3. ASSUME NEW r \in Requests, ReadsAlone(r) PROVE PipeInv'
  <2>1. ReadsAlone(r)'
    BY <1>3 DEF ReadsAlone, pipeVars, TwoAbandoned
  <2>2. QED
    BY <2>1 DEF PipeInv
<1>4. ASSUME NEW a \in Requests, NEW o \in Requests, ReadsBehind(a, o) PROVE PipeInv'
  <2>1. ReadsBehind(a, o)'
    BY <1>4 DEF ReadsBehind, pipeVars, TwoAbandoned
  <2>2. QED
    BY <2>1 DEF PipeInv
<1>5. QED
  BY <1>1, <1>2, <1>3, <1>4 DEF PipeInv

\* Until two jobs are abandoned, every step keeps the pipe in one of the three
\* shapes, and every job that comes back holds its own line.
LEMMA PipeStep ==
  ASSUME TypeOK, JobInv, RawInv, PipeInv, LineInv, ~TwoAbandoned', [Next]_vars
  PROVE  PipeInv' /\ LineInv'
<1>0. \A q \in Requests : pc[q] = "abandoned" => pc'[q] = "abandoned"
  BY AbandonedStays
<1>1. ASSUME NEW r \in Requests, Submit(r) PROVE PipeInv' /\ LineInv'
  BY <1>0, <1>1, SamePipe DEF Submit, TypeOK
<1>2. ASSUME NEW r \in Requests, Enter(r) PROVE PipeInv' /\ LineInv'
  <2>1. \A q \in Requests : pc[q] # "io"
    BY <1>2, RequestsAssumption DEF Enter, JobInv
  <2>a. pc[r] = "waiting" /\ job[r] = "none"
    BY <1>2 DEF Enter, JobInv
  <2>2. CASE proc = "up"
    <3>1. UNCHANGED <<line, proc, pipeVars>> /\ job' = [job EXCEPT ![r] = "queued"]
      BY <1>2, <2>2 DEF Enter
    <3>2. /\ \A q \in Requests : job'[q] = "reading" <=> job[q] = "reading"
          /\ \A q \in Requests : job'[q] = "returned" => job[q] = "returned"
      BY <2>a, <3>1 DEF TypeOK
    <3>3. QED
      BY <1>0, <2>1, <3>1, <3>2, SamePipe
  <2>3. CASE proc # "up"
    <3>1. EmptyPipes
      BY <1>2, <2>3 DEF Enter
    <3>2. line' = [q \in Requests |-> IF job[q] = "reading" THEN Eof ELSE line[q]]
      BY <1>2, <2>3 DEF Enter
    <3>3. \A q \in Requests :
            /\ job'[q] # "reading"
            /\ job'[q] = "returned" => job[q] \in {"reading", "returned"}
      BY <1>2, <2>3 DEF Enter, TypeOK
    <3>4. QED
      BY <3>1, <3>2, <3>3, DroppedPipe
  <2>4. QED
    BY <2>2, <2>3
<1>3. ASSUME NEW r \in Requests, Finish(r) PROVE PipeInv' /\ LineInv'
  <2>1. CASE job[r] = "raised" /\ r \in ToolCalls
    <3>1. EmptyPipes /\ EndReads
      BY <1>3, <2>1 DEF Finish, DropWorker
    <3>2. QED
      BY <3>1, DroppedPipe DEF EndReads, TypeOK
  <2>2. CASE ~(job[r] = "raised" /\ r \in ToolCalls)
    <3>1. /\ UNCHANGED <<job, line, proc, pipeVars>>
          /\ job[r] # "reading"
          /\ \A q \in Requests \ {r} : pc'[q] = pc[q]
      BY <1>3, <2>2 DEF Finish, TypeOK
    <3>2. QED
      BY <1>0, <3>1, SamePipe
  <2>3. QED
    BY <2>1, <2>2
<1>4. ASSUME NEW r \in Requests, Timeout(r) PROVE PipeInv' /\ LineInv'
  <2>1. CASE r \in ToolCalls
    <3>1. EmptyPipes
      BY <1>4, <2>1 DEF Timeout
    <3>2. line' = [q \in Requests |-> IF job[q] = "reading" THEN Eof ELSE line[q]]
      BY <1>4, <2>1 DEF Timeout
    <3>3. \A q \in Requests :
            /\ job'[q] # "reading"
            /\ job'[q] = "returned" => job[q] \in {"reading", "returned"}
      BY <1>4, <2>1 DEF Timeout, TypeOK
    <3>4. QED
      BY <3>1, <3>2, <3>3, DroppedPipe
  <2>2. CASE r \notin ToolCalls
    <3>1. /\ UNCHANGED <<line, proc, pipeVars>>
          /\ job' = [job EXCEPT ![r] = IF @ = "queued" THEN "none" ELSE @]
          /\ pc' = [pc EXCEPT ![r] = IF job[r] = "reading" THEN "abandoned" ELSE "failed"]
      BY <1>4, <2>2 DEF Timeout
    <3>2. QED
      BY <1>0, <3>1, SamePipe DEF TypeOK
  <2>3. QED
    BY <2>1, <2>2
<1>5. ASSUME NEW r \in Requests, CancelWaiting(r) PROVE PipeInv' /\ LineInv'
  BY <1>0, <1>5, SamePipe DEF CancelWaiting, TypeOK
<1>6. ASSUME NEW r \in Requests, CancelInFlight(r) PROVE PipeInv' /\ LineInv'
  <2>1. /\ UNCHANGED <<line, proc, pipeVars>>
        /\ job' = [job EXCEPT ![r] = IF @ = "queued" THEN "none" ELSE @]
        /\ pc' = [pc EXCEPT ![r] = IF job[r] = "reading" THEN "abandoned" ELSE "cancelled"]
    BY <1>6 DEF CancelInFlight
  <2>2. QED
    BY <1>0, <2>1, SamePipe DEF TypeOK
<1>7. CASE ReapDead
  <2>1. EmptyPipes /\ EndReads
    BY <1>7 DEF ReapDead, DropWorker
  <2>2. QED
    BY <2>1, DroppedPipe DEF EndReads, TypeOK
<1>8. CASE Sleep
  BY <1>0, <1>8, SamePipe DEF Sleep
<1>9. CASE UNCHANGED vars
  BY <1>0, <1>9, SamePipe DEF vars, pipeVars
<1>10. ASSUME NEW r \in Requests, StartJob(r) PROVE PipeInv' /\ LineInv'
  <2>1. pc[r] = "io" /\ job[r] = "queued" /\ UNCHANGED <<pc, proc, stdout>>
    BY <1>10 DEF StartJob, JobInv
  <2>2. \A q \in Requests : pc[q] = "io" => q = r
    BY <2>1 DEF JobInv
  <2>3. CASE proc # "up"
    <3>1. UNCHANGED <<line, stdin, decoded, rawlock>> /\ job' = [job EXCEPT ![r] = "raised"]
      BY <1>10, <2>3 DEF StartJob
    <3>2. QED
      BY <1>0, <2>1, <3>1, SamePipe DEF TypeOK, pipeVars
  <2>4. CASE proc = "up"
    <3>1. decoded = <<>>
      BY <2>1, <2>2 DEF PipeInv, NobodyReads, ReadsAlone, ReadsBehind
    <3>2. /\ stdin' = Append(stdin, r)
          /\ job' = [job EXCEPT ![r] = "reading"]
          /\ rawlock' = IF rawlock = NoReq THEN r ELSE rawlock
          /\ UNCHANGED <<line, decoded>>
      BY <1>10, <2>4, <3>1 DEF StartJob
    <3>3. LineInv'
      BY <3>2 DEF LineInv, TypeOK
    <3>4. CASE NobodyReads
      <4>1. ReadsAlone(r)'
        BY <2>1, <2>4, <3>2, <3>4, ShortPipes DEF NobodyReads, ReadsAlone,
           TypeOK
      <4>2. QED
        BY <3>3, <4>1 DEF PipeInv
    <3>5. ASSUME NEW a \in Requests, ReadsAlone(a) PROVE PipeInv'
      <4>1. a # r /\ pc[a] = "abandoned" /\ rawlock = a /\ rawlock # NoReq
        BY <2>1, <2>2, <3>5, RequestsAssumption DEF ReadsAlone, JobInv
      <4>2. /\ rawlock' = a
            /\ \A q \in Requests : job'[q] = "reading" <=> q \in {a, r}
        BY <3>2, <3>5, <4>1 DEF ReadsAlone, TypeOK
      <4>3. \/ stdin = <<a>> /\ stdout = <<>>
            \/ stdin = <<>> /\ stdout = <<a>>
        BY <2>4, <3>1, <3>5 DEF ReadsAlone
      <4>4. ReadsBehind(a, r)'
        BY <2>1, <2>4, <3>1, <3>2, <4>1, <4>2, <4>3, ShortPipes DEF ReadsBehind
      <4>5. QED
        BY <4>4 DEF PipeInv
    <3>6. ASSUME NEW a \in Requests, NEW o \in Requests, ReadsBehind(a, o) PROVE FALSE
      BY <2>1, <2>2, <3>6 DEF ReadsBehind
    <3>7. QED
      BY <3>3, <3>4, <3>5, <3>6 DEF PipeInv
  <2>5. QED
    BY <2>3, <2>4
<1>11. CASE Serve
  <2>1. /\ proc = "up" /\ stdin # <<>>
        /\ stdin' = Tail(stdin) /\ stdout' = Append(stdout, Head(stdin))
        /\ UNCHANGED <<pc, job, line, proc, decoded, rawlock>>
    BY <1>11 DEF Serve
  <2>2. LineInv'
    BY <2>1 DEF LineInv
  <2>3. ~NobodyReads
    BY <2>1 DEF NobodyReads
  <2>4. ASSUME NEW r \in Requests, ReadsAlone(r) PROVE PipeInv'
    <3>1. ReadsAlone(r)'
      BY <2>1, <2>4, ShortPipes DEF ReadsAlone
    <3>2. QED
      BY <3>1 DEF PipeInv
  <2>5. ASSUME NEW a \in Requests, NEW o \in Requests, ReadsBehind(a, o) PROVE PipeInv'
    <3>1. \/ stdin = <<a, o>> /\ stdout = <<>>
          \/ stdin = <<o>> /\ stdout = <<a>>
      BY <2>1, <2>5 DEF ReadsBehind
    <3>2. \/ stdin' = <<o>> /\ stdout' = <<a>>
          \/ stdin' = <<>> /\ stdout' = <<a, o>>
      <4>1. CASE stdin = <<a, o>> /\ stdout = <<>>
        <5>1. Head(<<a, o>>) = a /\ Tail(<<a, o>>) = <<o>> /\ Append(<<>>, a) = <<a>>
          BY ShortPipes
        <5>2. QED
          BY <2>1, <4>1, <5>1
      <4>2. CASE stdin = <<o>> /\ stdout = <<a>>
        <5>1. Head(<<o>>) = o /\ Tail(<<o>>) = <<>> /\ Append(<<a>>, o) = <<a, o>>
          BY ShortPipes
        <5>2. QED
          BY <2>1, <4>2, <5>1
      <4>3. QED
        BY <3>1, <4>1, <4>2
    <3>3. ReadsBehind(a, o)'
      BY <2>1, <2>5, <3>2 DEF ReadsBehind
    <3>4. QED
      BY <3>3 DEF PipeInv
  <2>6. QED
    BY <2>2, <2>3, <2>4, <2>5 DEF PipeInv
<1>12. CASE Crash
  <2>1. /\ proc = "up" /\ proc' = "exited" /\ stdin' = <<>>
        /\ UNCHANGED <<pc, job, line, stdout, decoded, rawlock>>
    BY <1>12 DEF Crash
  <2>2. LineInv'
    BY <2>1 DEF LineInv
  <2>3. CASE NobodyReads
    BY <2>1, <2>2, <2>3 DEF NobodyReads, PipeInv
  <2>4. ASSUME NEW r \in Requests, ReadsAlone(r) PROVE PipeInv'
    <3>1. ReadsAlone(r)'
      BY <2>1, <2>4 DEF ReadsAlone
    <3>2. QED
      BY <3>1 DEF PipeInv
  <2>5. ASSUME NEW a \in Requests, NEW o \in Requests, ReadsBehind(a, o) PROVE PipeInv'
    <3>1. ReadsBehind(a, o)'
      BY <2>1, <2>5 DEF ReadsBehind
    <3>2. QED
      BY <3>1 DEF PipeInv
  <2>6. QED
    BY <2>2, <2>3, <2>4, <2>5 DEF PipeInv
<1>13. ASSUME NEW r \in Requests, ReadChunk(r) PROVE PipeInv' /\ LineInv'
  <2>1. /\ rawlock = r /\ stdout # <<>> /\ r # NoReq
        /\ job' = [job EXCEPT ![r] = "returned"]
        /\ line' = [line EXCEPT ![r] = Head(stdout)]
        /\ decoded' = Tail(stdout) /\ stdout' = <<>>
        /\ UNCHANGED <<pc, proc, stdin>>
    BY <1>13, RequestsAssumption DEF ReadChunk
  <2>2. ~NobodyReads
    BY <2>1 DEF NobodyReads
  <2>3. ASSUME NEW q \in Requests, ReadsAlone(q) PROVE PipeInv' /\ LineInv'
    <3>1. q = r /\ stdout = <<r>> /\ stdin = <<>>
      BY <2>1, <2>3 DEF ReadsAlone
    <3>2. Reading \ {r} = {}
      BY <2>3, <3>1 DEF ReadsAlone, Reading
    <3>3. rawlock' = NoReq
      BY <1>13, <3>2 DEF ReadChunk, PassRawLock
    <3>4. NobodyReads'
      BY <2>1, <2>3, <3>1, <3>3, ShortPipes DEF NobodyReads, ReadsAlone, TypeOK
    <3>5. LineInv'
      BY <2>1, <3>1, ShortPipes DEF LineInv, TypeOK
    <3>6. QED
      BY <3>4, <3>5 DEF PipeInv
  <2>4. ASSUME NEW a \in Requests, NEW o \in Requests, ReadsBehind(a, o)
        PROVE  PipeInv' /\ LineInv'
    <3>1. a = r /\ o # r /\ pc[o] = "io" /\ pc[r] = "abandoned"
      BY <2>1, <2>4 DEF ReadsBehind
    <3>2. \/ stdout = <<r>> /\ stdin = <<o>> /\ proc = "up"
          \/ stdout = <<r, o>> /\ stdin = <<>> /\ proc # "none"
          \/ stdout = <<r>> /\ stdin = <<>> /\ proc = "exited"
      BY <2>1, <2>4, <3>1 DEF ReadsBehind
    <3>3. Reading \ {r} = {o}
      BY <2>4, <3>1 DEF ReadsBehind, Reading
    <3>4. rawlock' = o
      BY <1>13, <3>3 DEF ReadChunk, PassRawLock
    <3>5. \A q \in Requests : job'[q] = "reading" <=> q = o
      BY <2>1, <2>4, <3>1 DEF ReadsBehind, TypeOK
    <3>6. ReadsAlone(o)'
      BY <2>1, <3>1, <3>2, <3>4, <3>5, ShortPipes DEF ReadsAlone
    <3>7. LineInv'
      BY <2>1, <3>2, ShortPipes DEF LineInv, TypeOK
    <3>8. QED
      BY <3>6, <3>7 DEF PipeInv
  <2>5. QED
    BY <2>2, <2>3, <2>4 DEF PipeInv
<1>14. ASSUME NEW r \in Requests, ReadEof(r) PROVE PipeInv' /\ LineInv'
  <2>1. /\ rawlock = r /\ stdout = <<>> /\ r # NoReq /\ proc = "exited"
        /\ job' = [job EXCEPT ![r] = "returned"]
        /\ line' = [line EXCEPT ![r] = Eof]
        /\ decoded' = <<>>
        /\ UNCHANGED <<pc, proc, stdin, stdout>>
    BY <1>14, RequestsAssumption DEF ReadEof
  <2>2. ~NobodyReads
    BY <2>1 DEF NobodyReads
  <2>3. LineInv'
    BY <2>1 DEF LineInv, TypeOK
  <2>4. ASSUME NEW q \in Requests, ReadsAlone(q) PROVE PipeInv'
    <3>1. q = r /\ stdin = <<>>
      BY <2>1, <2>4 DEF ReadsAlone
    <3>2. Reading \ {r} = {}
      BY <2>4, <3>1 DEF ReadsAlone, Reading
    <3>3. rawlock' = NoReq
      BY <1>14, <3>2 DEF ReadEof, PassRawLock
    <3>4. NobodyReads'
      BY <2>1, <2>4, <3>1, <3>3 DEF NobodyReads, ReadsAlone, TypeOK
    <3>5. QED
      BY <3>4 DEF PipeInv
  <2>5. ASSUME NEW a \in Requests, NEW o \in Requests, ReadsBehind(a, o) PROVE PipeInv'
    <3>1. a = r /\ o # r /\ pc[o] = "io" /\ stdin = <<>>
      BY <2>1, <2>5, ShortPipes DEF ReadsBehind
    <3>2. Reading \ {r} = {o}
      BY <2>5, <3>1 DEF ReadsBehind, Reading
    <3>3. rawlock' = o
      BY <1>14, <3>2 DEF ReadEof, PassRawLock
    <3>4. \A q \in Requests : job'[q] = "reading" <=> q = o
      BY <2>1, <2>5, <3>1 DEF ReadsBehind, TypeOK
    <3>5. ReadsAlone(o)'
      BY <2>1, <3>1, <3>3, <3>4 DEF ReadsAlone
    <3>6. QED
      BY <3>5 DEF PipeInv
  <2>6. QED
    BY <2>2, <2>3, <2>4, <2>5 DEF PipeInv
<1>15. QED
  BY <1>1, <1>2, <1>3, <1>4, <1>5, <1>6, <1>7, <1>8, <1>9, <1>10, <1>11,
     <1>12, <1>13,
     <1>14 DEF Next, Coroutine, Client, Thread

\* The invariant is inductive.
LEMMA PipeIInvStep ==
  ASSUME TypeOK, PipeIInv, [Next]_vars
  PROVE  PipeIInv'
<1>1. JobInv' /\ RawInv'
  BY JobStep, RawStep DEF PipeIInv
<1>2. CASE TwoAbandoned
  BY <1>1, <1>2, AbandonedStays DEF PipeIInv, TwoAbandoned
<1>3. CASE ~TwoAbandoned
  BY <1>1, <1>3, PipeStep DEF PipeIInv
<1>4. QED
  BY <1>2, <1>3

\* The order of the jobs alone keeps every line with its reader until two jobs
\* have been abandoned on the pipe.
THEOREM PipeInvariant == Spec => []PipeIInv
<1>1. Init => PipeIInv
  BY RequestsAssumption DEF Init, PipeIInv, JobInv, RawInv, PipeInv,
     NobodyReads, LineInv
<1>2. TypeOK /\ PipeIInv /\ [Next]_vars => PipeIInv'
  BY PipeIInvStep
<1>3. QED
  BY <1>1, <1>2, TypeCorrect, PTL DEF Spec

\* No caller of a worker is handed another caller's line before two requests
\* have been abandoned in the middle of a read (server.py:1073-1159).
THEOREM NoEarlyMisdelivery == Spec => []MisdeliveryNeedsTwoAbandoned
<1>1. PipeIInv => MisdeliveryNeedsTwoAbandoned
  BY DEF PipeIInv, JobInv, LineInv, MisdeliveryNeedsTwoAbandoned, Misdelivered
<1>2. QED
  BY <1>1, PipeInvariant, PTL

\* Whoever takes the lock next finds no line due on the pipe, unless a request
\* was abandoned on it: timed-out tool calls take the worker down.
THEOREM CleanPipe == Spec => []CleanPipeForNext
<1>1. TypeOK /\ PipeIInv => CleanPipeForNext
  <2> SUFFICES ASSUME TypeOK, PipeIInv, owner = NoReq,
                      \A r \in Requests : pc[r] # "abandoned"
               PROVE  stdin = <<>> /\ stdout = <<>> /\ decoded = <<>>
    BY DEF CleanPipeForNext
  <2>1. \A r \in Requests : job[r] # "reading"
    BY RequestsAssumption DEF PipeIInv, JobInv
  <2>2. PipeInv
    BY DEF PipeIInv, TwoAbandoned
  <2>3. NobodyReads
    BY <2>1, <2>2 DEF PipeInv, ReadsAlone, ReadsBehind
  <2>4. QED
    BY <2>3 DEF NobodyReads
<1>2. QED
  BY <1>1, PipeInvariant, TypeCorrect, PTL

-----------------------------------------------------------------------------
(* WorkerPipe implements the safety part of WorkerService.                 *)

\* A step moves at most one coroutine, along its path.
LEMMA PcStep ==
  ASSUME TypeOK, JobInv, [Next]_vars
  PROVE  \/ UNCHANGED pc
         \/ \E r \in Requests :
              \/ pc[r] = "idle" /\ pc' = [pc EXCEPT ![r] = "waiting"]
              \/ pc[r] = "waiting" /\ pc' = [pc EXCEPT ![r] = "io"]
              \/ /\ pc[r] \in {"waiting", "io"}
                 /\ \E v \in Leaves : pc' = [pc EXCEPT ![r] = v]
<1> USE DEF Leaves
<1>1. ASSUME NEW r \in Requests, Client(r)
      PROVE  \/ pc[r] = "idle" /\ pc' = [pc EXCEPT ![r] = "waiting"]
             \/ /\ pc[r] \in {"waiting", "io"}
                /\ \E v \in Leaves : pc' = [pc EXCEPT ![r] = v]
  BY <1>1 DEF Client, Submit, CancelWaiting, CancelInFlight
<1>2. ASSUME NEW r \in Requests, Enter(r)
      PROVE  pc[r] = "waiting" /\ pc' = [pc EXCEPT ![r] = "io"]
  BY <1>2 DEF Enter
<1>3. ASSUME NEW r \in Requests, Finish(r)
      PROVE  pc[r] = "io" /\ \E v \in Leaves : pc' = [pc EXCEPT ![r] = v]
  BY <1>3 DEF Finish
<1>4. ASSUME NEW r \in Requests, Timeout(r)
      PROVE  pc[r] = "io" /\ \E v \in Leaves : pc' = [pc EXCEPT ![r] = v]
  BY <1>4 DEF Timeout
<1>5. ASSUME NEW r \in Requests, Thread(r) PROVE UNCHANGED pc
  BY <1>5 DEF Thread, StartJob, ReadChunk, ReadEof
<1>6. CASE Serve \/ Crash \/ ReapDead \/ Sleep
  BY <1>6 DEF Serve, Crash, ReapDead, Sleep
<1>7. CASE UNCHANGED vars
  BY <1>7 DEF vars
<1>8. QED
  BY <1>1, <1>2, <1>3, <1>4, <1>5, <1>6, <1>7 DEF Next, Coroutine

\* The line of a request that was answered is not touched again.
LEMMA AnsweredLineStays ==
  ASSUME TypeOK, JobInv, RawInv, [Next]_vars, NEW q \in Requests, pc[q] = "answered"
  PROVE  line'[q] = line[q]
<1>1. job[q] = "returned"
  BY DEF JobInv
<1> USE <1>1 DEF TypeOK
<1>2. ASSUME NEW r \in Requests, Client(r) PROVE line'[q] = line[q]
  BY <1>2 DEF Client, Submit, CancelWaiting, CancelInFlight
<1>3. ASSUME NEW r \in Requests, Coroutine(r) PROVE line'[q] = line[q]
  <2>1. CASE Enter(r)
    BY <2>1 DEF Enter
  <2>2. CASE Finish(r)
    BY <2>2 DEF Finish, DropWorker, EndReads
  <2>3. CASE Timeout(r)
    BY <2>3 DEF Timeout
  <2>4. QED
    BY <1>3, <2>1, <2>2, <2>3 DEF Coroutine
<1>4. ASSUME NEW r \in Requests, StartJob(r) PROVE line'[q] = line[q]
  BY <1>4 DEF StartJob
<1>5. ASSUME NEW r \in Requests, ReadChunk(r) \/ ReadEof(r) PROVE line'[q] = line[q]
  BY <1>5, RequestsAssumption DEF ReadChunk, ReadEof, RawInv
<1>6. CASE Serve \/ Crash \/ ReapDead \/ Sleep
  BY <1>6 DEF Serve, Crash, ReapDead, DropWorker, EndReads, Sleep
<1>7. CASE UNCHANGED vars
  BY <1>7 DEF vars
<1>8. QED
  BY <1>2, <1>3, <1>4, <1>5, <1>6, <1>7 DEF Next, Thread

\* Every step is one of the service's, or changes no outcome.
LEMMA OutcomeStep ==
  ASSUME TypeOK, PipeIInv, PipeIInv', [Next]_vars
  PROVE  [Service!ServiceNext]_Outcome
<1>1. \A q \in Requests : pc[q] = "answered" => line'[q] = line[q]
  BY AnsweredLineStays DEF PipeIInv
<1>2. CASE UNCHANGED pc
  <2>1. \A q \in Requests : OutcomeOf(q)' = OutcomeOf(q)
    BY <1>1, <1>2 DEF OutcomeOf
  <2>2. QED
    BY <2>1 DEF Outcome
<1>3. ASSUME NEW r \in Requests, pc' # pc,
             \A q \in Requests \ {r} : pc'[q] = pc[q]
      PROVE  Outcome' = [Outcome EXCEPT ![r] = OutcomeOf(r)']
  <2>1. \A q \in Requests \ {r} : OutcomeOf(q)' = OutcomeOf(q)
    BY <1>1, <1>3 DEF OutcomeOf
  <2>2. QED
    BY <2>1 DEF Outcome
<1>4. ASSUME NEW r \in Requests, pc' # pc,
             pc[r] = "idle", pc' = [pc EXCEPT ![r] = "waiting"]
      PROVE  Service!Ask(r)
  <2>1. OutcomeOf(r) = "unasked" /\ OutcomeOf(r)' = "pending"
    BY <1>4 DEF OutcomeOf, TypeOK
  <2>2. Outcome' = [Outcome EXCEPT ![r] = "pending"]
    BY <1>3, <1>4, <2>1 DEF TypeOK
  <2>3. QED
    BY <2>1, <2>2 DEF Outcome, Service!Ask
<1>5. ASSUME NEW r \in Requests, pc[r] = "waiting", pc' = [pc EXCEPT ![r] = "io"]
      PROVE  UNCHANGED Outcome
  <2>1. \A q \in Requests : OutcomeOf(q)' = OutcomeOf(q)
    BY <1>1, <1>5 DEF OutcomeOf, TypeOK
  <2>2. QED
    BY <2>1 DEF Outcome
<1>6. ASSUME NEW r \in Requests, pc[r] \in {"waiting", "io"},
             NEW v \in Leaves, pc' = [pc EXCEPT ![r] = v]
      PROVE  Service!Settle(r) \/ Service!Mistake(r)
  <2>1. pc' # pc /\ \A q \in Requests \ {r} : pc'[q] = pc[q]
    BY <1>6 DEF TypeOK, Leaves
  <2>2. OutcomeOf(r) = "pending" /\ Outcome[r] = "pending"
    BY <1>6 DEF OutcomeOf, Outcome
  <2>3. Outcome' = [Outcome EXCEPT ![r] = OutcomeOf(r)']
    BY <1>3, <2>1
  <2>4. CASE OutcomeOf(r)' = "foreign"
    <3>1. Misdelivered(r)' /\ v = "answered"
      BY <1>6, <2>4 DEF OutcomeOf, Misdelivered, TypeOK, Leaves
    <3>2. TwoAbandoned'
      BY <3>1 DEF PipeIInv, JobInv, LineInv, Misdelivered
    <3>3. PICK a \in Requests, b \in Requests :
            a # b /\ pc'[a] = "abandoned" /\ pc'[b] = "abandoned"
      BY <3>2 DEF TwoAbandoned
    <3>4. pc[a] = "abandoned" /\ pc[b] = "abandoned"
      BY <1>6, <3>1, <3>3 DEF TypeOK
    <3>5. Outcome[a] = "deserted" /\ Outcome[b] = "deserted"
      BY <3>4 DEF Outcome, OutcomeOf
    <3>6. QED
      BY <2>2, <2>3, <2>4, <3>3, <3>5 DEF Service!Mistake
  <2>5. CASE OutcomeOf(r)' # "foreign"
    <3>1. OutcomeOf(r)' \in {"own", "none", "deserted"}
      BY <1>6, <2>5 DEF OutcomeOf, TypeOK, Leaves
    <3>2. QED
      BY <2>2, <2>3, <3>1 DEF Service!Settle
  <2>6. QED
    BY <2>4, <2>5
<1>7. JobInv
  BY DEF PipeIInv
<1>8. QED
  BY <1>2, <1>4, <1>5, <1>6, <1>7, PcStep DEF Service!ServiceNext

\* The gateway's use of a worker implements the service it offers its callers:
\* own answer, no answer, or (after two desertions) somebody else's.
THEOREM PipeImplementsService == Spec => Service!ServiceSafety
<1>1. Init => Service!ServiceInit
  BY DEF Init, Service!ServiceInit, Outcome, OutcomeOf
<1>2. TypeOK /\ PipeIInv /\ PipeIInv' /\ [Next]_vars => [Service!ServiceNext]_Outcome
  BY OutcomeStep
<1>3. QED
  BY <1>1, <1>2, TypeCorrect, PipeInvariant, PTL DEF Spec,
     Service!ServiceSafety
=============================================================================
