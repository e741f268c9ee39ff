----------------------- MODULE SandboxExecutor_proofs -----------------------
(***************************************************************************)
(* Safety of SandboxExecutor, for every number of calls, closers and       *)
(* workers.  IInv (module SandboxExecutorInv) is inductive: one lemma per   *)
(* conjunct shows that every step preserves it, action by action.          *)
(***************************************************************************)
EXTENDS SandboxExecutorInv, SequenceTheorems, TLAPS

-----------------------------------------------------------------------------
(* The queues and pipes keep their types when a message is read or written. *)

\* Reading a message off a queue leaves a queue of the same messages.
LEMMA PopType ==
    ASSUME NEW I, NEW S, NEW f \in [I -> Seq(S)], NEW i, f[i] # <<>>
    PROVE  [f EXCEPT ![i] = Tail(@)] \in [I -> Seq(S)]
<1>1. CASE i \in I
  <2>1. Tail(f[i]) \in Seq(S)
    BY <1>1, HeadTailProperties
  <2> QED
    BY <2>1
<1>2. CASE i \notin I
  BY <1>2
<1> QED
  BY <1>1, <1>2

\* Writing a message to a queue leaves a queue of such messages.
LEMMA PushType ==
    ASSUME NEW I, NEW S, NEW f \in [I -> Seq(S)], NEW i, NEW m \in S
    PROVE  [f EXCEPT ![i] = Append(@, m)] \in [I -> Seq(S)]
<1>1. CASE i \in I
  <2>1. Append(f[i], m) \in Seq(S)
    BY <1>1, AppendProperties
  <2> QED
    BY <2>1
<1>2. CASE i \notin I
  BY <1>2
<1> QED
  BY <1>1, <1>2

\* The reader thread of a worker that runs is still reading, unless a reply it
\* cannot read is in the pipe.
LEMMA LivePump ==
    ASSUME TypeOK, Processes, NEW w \in Workers, Live(w), Len(outbox[w]) = 0
    PROVE  pump[w] = "reading"
<1>1. pump[w] # "off"
  BY DEF Processes, Live
<1>2. pump[w] # "ended"
  BY DEF Processes, Live
<1> QED
  BY <1>1, <1>2 DEF TypeOK

\* Writing to a pipe leaves the message at its head where it is.
LEMMA PushHead ==
    ASSUME NEW S, NEW q \in Seq(S), NEW m \in S
    PROVE  /\ Len(Append(q, m)) > 0
           /\ Len(q) > 0 => Append(q, m)[1] = q[1]
  BY AppendProperties, LenProperties

-----------------------------------------------------------------------------
(* Each conjunct of the invariant is preserved.                            *)

\* Every step keeps the variables in their types.
LEMMA TypeStep == TypeOK /\ [Next]_vars => TypeOK'
<1> SUFFICES ASSUME TypeOK, [Next]_vars PROVE TypeOK'
  OBVIOUS
<1> USE NamesDistinct DEF TypeOK, Threads, Goto, Returning, PCs, Kinds, Rets, Lives,
      callVars, procVars, pipeVars, vars
<1>1. CASE UNCHANGED vars
  BY <1>1
<1>2. ASSUME NEW t \in Threads, Begin(t) PROVE TypeOK'
  BY <1>2 DEF Begin, Reject, Admit, CloseBegin
<1>3. ASSUME NEW c \in Calls, ExecuteStep(c) PROVE TypeOK'
  <2>1. CASE Acquire(c)
    BY <2>1 DEF Acquire
  <2>2. CASE EnsureReuse(c)
    BY <2>2 DEF EnsureReuse, Polled
  <2>3. CASE EnsureSpawn(c)
    BY <2>3 DEF EnsureSpawn
  <2>4. CASE SpawnFails(c)
    BY <2>4 DEF SpawnFails
  <2>5. CASE HandshakeOk(c)
    BY <2>5, PopType DEF HandshakeOk
  <2>6. CASE HandshakeBad(c)
    <3> DEFINE Replies == [Workers -> Seq(Calls \cup {"ready", "eof"})]
    <3>1. CASE responses[at[c]] = <<>>
      BY <2>6, <3>1 DEF HandshakeBad, KillTree
    <3>2. CASE responses[at[c]] # <<>>
      <4>1. [responses EXCEPT ![at[c]] = Tail(@)] \in Replies
        BY <3>2, PopType
      <4>2. responses' = [responses EXCEPT ![at[c]] = Tail(@)]
        BY <2>6, <3>2 DEF HandshakeBad
      <4>3. responses' \in Replies
        BY <4>1, <4>2
      <4> HIDE DEF Replies
      <4> QED
        BY <2>6, <4>3 DEF HandshakeBad, KillTree, Replies
    <3> QED
      BY <3>1, <3>2
  <2>7. CASE WriteRaises(c)
    BY <2>7 DEF WriteRaises
  <2>8. CASE WriteOk(c)
    BY <2>8, PushType DEF WriteOk
  <2>9. CASE WriteBroken(c)
    BY <2>9 DEF WriteBroken
  <2>10. CASE WriteOversized(c)
    BY <2>10 DEF WriteOversized, Die, Returning
  <2>11. CASE AwaitAnswer(c)
    BY <2>11, PopType DEF AwaitAnswer
  <2>12. CASE AwaitEOF(c)
    BY <2>12, PopType DEF AwaitEOF
  <2>13. CASE AwaitTimeout(c)
    BY <2>13 DEF AwaitTimeout
  <2> QED
    BY <1>3, <2>1, <2>2, <2>3, <2>4, <2>5, <2>6, <2>7, <2>8, <2>9, <2>10, <2>11,
          <2>12, <2>13 DEF ExecuteStep
<1>4. ASSUME NEW s \in Closers, ShutdownStep(s) PROVE TypeOK'
  <2>1. CASE CloseAcquire(s)
    BY <2>1 DEF CloseAcquire
  <2>2. CASE StopWrite(s)
    BY <2>2, PushType DEF StopWrite
  <2>3. CASE StopBroken(s)
    BY <2>3 DEF StopBroken
  <2>4. CASE StopWait(s)
    BY <2>4 DEF StopWait
  <2> QED
    BY <1>4, <2>1, <2>2, <2>3, <2>4 DEF ShutdownStep
<1>5. ASSUME NEW t \in Threads, Discard(t) PROVE TypeOK'
  BY <1>5 DEF Discard, KillTree
<1>6. ASSUME NEW t \in Threads, Release(t) PROVE TypeOK'
  BY <1>6 DEF Release
<1>7. ASSUME NEW w \in Workers, PumpStep(w) PROVE TypeOK'
  <2>1. CASE PumpMove(w)
    BY <2>1, PopType, PushType, HeadTailProperties DEF PumpMove
  <2>2. CASE PumpEOF(w)
    BY <2>2, PushType DEF PumpEOF
  <2>3. CASE PumpRaises(w)
    BY <2>3, PushType DEF PumpRaises
  <2> QED
    BY <1>7, <2>1, <2>2, <2>3 DEF PumpStep
<1>8. ASSUME NEW w \in Workers, WorkerStep(w) PROVE TypeOK'
  <2>1. CASE Boot(w)
    <3>1. [outbox EXCEPT ![w] = Append(@, "ready")]
            \in [Workers -> Seq(Calls \cup {"ready"})]
      BY PushType
    <3>2. CASE appUp
      BY <2>1, <3>1, <3>2 DEF Boot
    <3>3. CASE ~appUp
      BY <2>1, <3>3 DEF Boot, Die
    <3> QED
      BY <3>2, <3>3
  <2>2. CASE TakeJob(w)
    BY <2>2, PopType DEF TakeJob
  <2>3. CASE LeaveLoop(w)
    BY <2>3 DEF LeaveLoop, Die
  <2>4. CASE FinishJob(w)
    <3>1. [outbox EXCEPT ![w] = Append(@, job[w])]
            \in [Workers -> Seq(Calls \cup {"ready"})]
      BY <2>4, PushType DEF FinishJob
    <3>2. CASE appUp
      BY <2>4, <3>1, <3>2 DEF FinishJob
    <3>3. CASE ~appUp
      BY <2>4, <3>3 DEF FinishJob, Die
    <3> QED
      BY <3>2, <3>3
  <2>5. CASE Reapable(w)
    BY <2>5 DEF Reapable
  <2> QED
    BY <1>8, <2>1, <2>2, <2>3, <2>4, <2>5 DEF WorkerStep
<1>9. ASSUME NEW w \in Workers,
      StartHelpers(w) \/ EndHelpers(w) \/ Crash(w) PROVE TypeOK'
  <2>1. CASE StartHelpers(w)
    BY <2>1 DEF StartHelpers
  <2>2. CASE EndHelpers(w)
    BY <2>2 DEF EndHelpers
  <2>3. CASE Crash(w)
    BY <2>3 DEF Crash, Die
  <2> QED
    BY <1>9, <2>1, <2>2, <2>3
<1>10. CASE AppExit
  BY <1>10 DEF AppExit
<1> QED
  BY <1>1, <1>2, <1>3, <1>4, <1>5, <1>6, <1>7, <1>8, <1>9, <1>10 DEF Next, ThreadStep

\* Every step keeps the lock with the one thread in a critical section, and
\* execute() and shutdown() in their own code.
LEMMA LockStep == TypeOK /\ Mutex /\ Roles /\ [Next]_vars => Mutex' /\ Roles'
<1> SUFFICES ASSUME TypeOK, Mutex, Roles, [Next]_vars PROVE Mutex' /\ Roles'
  OBVIOUS
<1> USE NamesDistinct DEF TypeOK, Mutex, Roles, Critical, Threads, Goto, PCs,
      callVars, procVars, pipeVars, vars
<1>1. CASE UNCHANGED vars
  BY <1>1
<1>2. ASSUME NEW t \in Threads, Begin(t) PROVE Mutex' /\ Roles'
  BY <1>2 DEF Begin, Reject, Admit, CloseBegin
<1>3. ASSUME NEW c \in Calls, ExecuteStep(c) PROVE Mutex' /\ Roles'
  <2>1. CASE Acquire(c)
    BY <2>1 DEF Acquire
  <2>2. CASE EnsureReuse(c) \/ EnsureSpawn(c) \/ SpawnFails(c)
    BY <2>2 DEF EnsureReuse, EnsureSpawn, SpawnFails
  <2>3. CASE HandshakeOk(c) \/ HandshakeBad(c)
    BY <2>3 DEF HandshakeOk, HandshakeBad
  <2>4. CASE WriteRaises(c) \/ WriteOk(c) \/ WriteBroken(c) \/ WriteOversized(c)
    BY <2>4 DEF WriteRaises, WriteOk, WriteBroken, WriteOversized
  <2>5. CASE AwaitAnswer(c) \/ AwaitEOF(c) \/ AwaitTimeout(c)
    BY <2>5 DEF AwaitAnswer, AwaitEOF, AwaitTimeout
  <2> QED
    BY <1>3, <2>1, <2>2, <2>3, <2>4, <2>5 DEF ExecuteStep
<1>4. ASSUME NEW s \in Closers, ShutdownStep(s) PROVE Mutex' /\ Roles'
  BY <1>4 DEF ShutdownStep, CloseAcquire, StopWrite, StopBroken, StopWait
<1>5. ASSUME NEW t \in Threads, Discard(t) \/ Release(t) PROVE Mutex' /\ Roles'
  BY <1>5 DEF Discard, Release
<1>6. ASSUME NEW w \in Workers,
      PumpStep(w) \/ WorkerStep(w) \/ StartHelpers(w) \/ EndHelpers(w) \/ Crash(w)
      PROVE  Mutex' /\ Roles'
  BY <1>6 DEF PumpStep, PumpMove, PumpEOF, PumpRaises, WorkerStep, Boot, TakeJob, LeaveLoop,
        FinishJob, Reapable, StartHelpers, EndHelpers, Crash
<1>7. CASE AppExit
  BY <1>7 DEF AppExit
<1> QED
  BY <1>1, <1>2, <1>3, <1>4, <1>5, <1>6, <1>7 DEF Next, ThreadStep

\* Every step keeps the books on the processes: in particular no step starts a
\* second worker, because a spawn needs a worker that poll() reports dead.
LEMMA ProcessesStep == IInv /\ [Next]_vars => Processes'
<1> SUFFICES ASSUME IInv, [Next]_vars PROVE Processes'
  OBVIOUS
<1> USE NamesDistinct DEF IInv, Processes, Unreadable, Handles, Booting, Mutex, Roles, Critical,
      Polls, Lives, Polled, TypeOK, Threads, Goto, Returning, PCs, callVars,
            procVars, pipeVars, vars
<1>1. CASE UNCHANGED vars
  BY <1>1
<1>2. ASSUME NEW t \in Threads, Begin(t) PROVE Processes'
  <2>1. CASE Reject(t)
    BY <2>1 DEF Reject
  <2>2. CASE Admit(t)
    BY <2>2 DEF Admit
  <2>3. CASE CloseBegin(t)
    BY <2>3 DEF CloseBegin
  <2> QED
    BY <1>2, <2>1, <2>2, <2>3 DEF Begin
<1>3. ASSUME NEW c \in Calls, ExecuteStep(c) PROVE Processes'
  <2>1. CASE Acquire(c)
    BY <2>1 DEF Acquire
  <2>2. CASE EnsureReuse(c)
    BY <2>2 DEF EnsureReuse
  <2>3. CASE EnsureSpawn(c)
    BY <2>3 DEF EnsureSpawn
  <2>4. CASE SpawnFails(c)
    BY <2>4 DEF SpawnFails
  <2>5. CASE HandshakeOk(c)
    <3> USE <2>5 DEF HandshakeOk
    <3>1. at[c] \in Workers /\ proc[at[c]] # "unused"
      OBVIOUS
    <3>2. ASSUME NEW w \in Workers, Polls(w) PROVE w = at[c]
      <4>1. worker # w
        BY <3>2
      <4>2. PICK d \in Calls : pc[d] = "handshake" /\ at[d] = w
        BY <3>2, <4>1
      <4>3. lock = c /\ lock = d
        BY <4>2
      <4> QED
        BY <4>2, <4>3
    <3>3. worker' # None => proc'[worker'] # "unused"
      BY <3>1
    <3> QED
      BY <3>1, <3>2, <3>3
  <2>6. CASE HandshakeBad(c)
    BY <2>6 DEF HandshakeBad, KillTree, Returning
  <2>7. CASE WriteRaises(c)
    BY <2>7 DEF WriteRaises
  <2>8. CASE WriteOk(c)
    BY <2>8 DEF WriteOk
  <2>9. CASE WriteBroken(c)
    BY <2>9 DEF WriteBroken
  <2>10. CASE WriteOversized(c)
    BY <2>10 DEF WriteOversized, Die, Returning
  <2>11. CASE AwaitAnswer(c)
    BY <2>11 DEF AwaitAnswer
  <2>12. CASE AwaitEOF(c)
    BY <2>12 DEF AwaitEOF
  <2>13. CASE AwaitTimeout(c)
    BY <2>13 DEF AwaitTimeout
  <2> QED
    BY <1>3, <2>1, <2>2, <2>3, <2>4, <2>5, <2>6, <2>7, <2>8, <2>9, <2>10, <2>11,
          <2>12, <2>13 DEF ExecuteStep
<1>4. ASSUME NEW s \in Closers, ShutdownStep(s) PROVE Processes'
  BY <1>4 DEF ShutdownStep, CloseAcquire, StopWrite, StopBroken, StopWait
<1>5. ASSUME NEW t \in Threads, Discard(t) PROVE Processes'
  BY <1>5 DEF Discard, KillTree
<1>6. ASSUME NEW t \in Threads, Release(t) PROVE Processes'
  BY <1>6 DEF Release
<1>7. ASSUME NEW w \in Workers, PumpStep(w) PROVE Processes'
  <2>1. CASE PumpMove(w)
    BY <2>1 DEF PumpMove
  <2>2. CASE PumpEOF(w)
    <3> USE <2>2 DEF PumpEOF
    <3>1. proc[w] \in {"dying", "dead"}
      BY DEF Live
    <3> QED
      BY <3>1
  <2>3. CASE PumpRaises(w)
    <3> USE <2>3 DEF PumpRaises
    <3>1. Len(outbox[w]) > 0 /\ Unreadable(outbox[w][1])
      BY EmptySeq, HeadTailProperties
    <3> QED
      BY <3>1
  <2> QED
    BY <1>7, <2>1, <2>2, <2>3 DEF PumpStep
<1>8. ASSUME NEW w \in Workers, WorkerStep(w) PROVE Processes'
  <2>1. CASE Boot(w)
    <3> USE <2>1 DEF Boot, Die
    <3>1. CASE appUp
      <4>a. /\ outbox[w] \in Seq(Calls \cup {"ready"})
            /\ outbox'[w] = Append(outbox[w], "ready")
        BY <3>1
      <4>1. /\ Len(outbox'[w]) > 0
            /\ Len(outbox[w]) > 0 => outbox'[w][1] = outbox[w][1]
        BY <4>a, PushHead
      <4> QED
        BY <3>1, <4>1
    <3>2. CASE ~appUp
      <4>1. /\ proc[w] = "booting" /\ proc' = [proc EXCEPT ![w] = "dying"]
            /\ job' = [job EXCEPT ![w] = None] /\ outbox' = outbox
        BY <3>2
      <4> QED
        BY <4>1
    <3> QED
      BY <3>1, <3>2
  <2>2. CASE TakeJob(w)
    BY <2>2 DEF TakeJob
  <2>3. CASE LeaveLoop(w)
    BY <2>3 DEF LeaveLoop, Die
  <2>4. CASE FinishJob(w)
    <3> USE <2>4 DEF FinishJob, Die
    <3>1. CASE appUp
      <4>1. /\ Len(outbox'[w]) > 0
            /\ Len(outbox[w]) > 0 => outbox'[w][1] = outbox[w][1]
        BY <3>1, PushHead
      <4> QED
        BY <3>1, <4>1
    <3>2. CASE ~appUp
      <4>1. /\ proc[w] = "serving" /\ proc' = [proc EXCEPT ![w] = "dying"]
            /\ job' = [job EXCEPT ![w] = None] /\ outbox' = outbox
        BY <3>2
      <4> QED
        BY <4>1
    <3> QED
      BY <3>1, <3>2
  <2>5. CASE Reapable(w)
    BY <2>5 DEF Reapable
  <2> QED
    BY <1>8, <2>1, <2>2, <2>3, <2>4, <2>5 DEF WorkerStep
<1>9. ASSUME NEW w \in Workers,
      StartHelpers(w) \/ EndHelpers(w) \/ Crash(w) PROVE Processes'
  <2>1. CASE StartHelpers(w)
    BY <2>1 DEF StartHelpers
  <2>2. CASE EndHelpers(w)
    BY <2>2 DEF EndHelpers
  <2>3. CASE Crash(w)
    <3> USE <2>3 DEF Crash, Die
    <3>1. proc[w] \in {"booting", "serving"}
      BY DEF Live
    <3> QED
      BY <3>1
  <2> QED
    BY <1>9, <2>1, <2>2, <2>3
<1>10. CASE AppExit
  BY <1>10 DEF AppExit
<1> QED
  BY <1>1, <1>2, <1>3, <1>4, <1>5, <1>6, <1>7, <1>8, <1>9, <1>10 DEF Next, ThreadStep

\* Every step keeps results and reported losses true.
LEMMA ResultsStep == IInv /\ [Next]_vars => Results'
<1> SUFFICES ASSUME IInv, [Next]_vars PROVE Results'
  OBVIOUS
<1> USE NamesDistinct DEF IInv, Results, Unreadable, TypeOK, Threads, Goto, Returning, PCs,
      callVars, procVars, pipeVars, vars
<1>1. CASE UNCHANGED vars
  BY <1>1
<1>2. ASSUME NEW t \in Threads, Begin(t) PROVE Results'
  <2>1. CASE Reject(t)
    BY <2>1 DEF Reject
  <2>2. CASE Admit(t)
    BY <2>2 DEF Admit
  <2>3. CASE CloseBegin(t)
    BY <2>3 DEF CloseBegin
  <2> QED
    BY <1>2, <2>1, <2>2, <2>3 DEF Begin
<1>3. ASSUME NEW c \in Calls, ExecuteStep(c) PROVE Results'
  BY <1>3 DEF ExecuteStep, Acquire, EnsureReuse, EnsureSpawn, SpawnFails,
        HandshakeOk, HandshakeBad, KillTree, Returning, WriteRaises, WriteOk,
              WriteBroken, Handles, Processes, Live, Lives, WriteOversized, Die,
                    AwaitAnswer, AwaitEOF, Serving, Coming, Queued, QueuedAfter,
                          AwaitTimeout
<1>4. ASSUME NEW s \in Closers, ShutdownStep(s) PROVE Results'
  BY <1>4 DEF ShutdownStep, CloseAcquire, StopWrite, StopBroken, StopWait
<1>5. ASSUME NEW t \in Threads, Discard(t) PROVE Results'
  BY <1>5 DEF Discard, KillTree
<1>6. ASSUME NEW t \in Threads, Release(t) PROVE Results'
  BY <1>6 DEF Release
<1>7. ASSUME NEW w \in Workers, PumpStep(w) PROVE Results'
  BY <1>7 DEF PumpStep, PumpMove, PumpEOF, PumpRaises
<1>8. ASSUME NEW w \in Workers, WorkerStep(w) PROVE Results'
  <2>1. CASE Boot(w)
    BY <2>1 DEF Boot, Die
  <2>2. CASE TakeJob(w)
    BY <2>2 DEF TakeJob
  <2>3. CASE LeaveLoop(w)
    BY <2>3 DEF LeaveLoop, Die
  <2>4. CASE FinishJob(w)
    BY <2>4 DEF FinishJob, Die
  <2>5. CASE Reapable(w)
    BY <2>5 DEF Reapable
  <2> QED
    BY <1>8, <2>1, <2>2, <2>3, <2>4, <2>5 DEF WorkerStep
<1>9. ASSUME NEW w \in Workers,
      StartHelpers(w) \/ EndHelpers(w) \/ Crash(w) PROVE Results'
  BY <1>9 DEF StartHelpers, EndHelpers, Crash, Die, Live
<1>10. CASE AppExit
  BY <1>10 DEF AppExit
<1> QED
  BY <1>1, <1>2, <1>3, <1>4, <1>5, <1>6, <1>7, <1>8, <1>9, <1>10 DEF Next, ThreadStep

\* Every step keeps a thread working on the executor's own worker.
LEMMA HandlesStep == IInv /\ [Next]_vars => Handles'
<1> SUFFICES ASSUME IInv, [Next]_vars PROVE Handles'
  OBVIOUS
<1> USE NamesDistinct DEF IInv, Handles, Processes, Mutex, Roles, Critical, Polls,
      Live, Lives, Polled, TypeOK, Threads, Goto, Returning, PCs, callVars, procVars,
            pipeVars, vars
<1>1. CASE UNCHANGED vars
  BY <1>1
<1>2. ASSUME NEW t \in Threads, Begin(t) PROVE Handles'
  BY <1>2 DEF Begin, Reject, Admit, CloseBegin
<1>3. ASSUME NEW c \in Calls, ExecuteStep(c) PROVE Handles'
  <2>1. CASE Acquire(c)
    BY <2>1 DEF Acquire
  <2>2. CASE EnsureReuse(c)
    BY <2>2 DEF EnsureReuse
  <2>3. CASE EnsureSpawn(c)
    BY <2>3 DEF EnsureSpawn
  <2>4. CASE SpawnFails(c)
    BY <2>4 DEF SpawnFails
  <2>5. CASE HandshakeOk(c)
    BY <2>5 DEF HandshakeOk
  <2>6. CASE HandshakeBad(c)
    BY <2>6 DEF HandshakeBad, KillTree, Returning
  <2>7. CASE WriteRaises(c)
    BY <2>7 DEF WriteRaises
  <2>8. CASE WriteOk(c)
    BY <2>8 DEF WriteOk
  <2>9. CASE WriteBroken(c)
    BY <2>9 DEF WriteBroken
  <2>10. CASE WriteOversized(c)
    BY <2>10 DEF WriteOversized, Die, Returning
  <2>11. CASE AwaitAnswer(c)
    BY <2>11 DEF AwaitAnswer
  <2>12. CASE AwaitEOF(c)
    BY <2>12 DEF AwaitEOF
  <2>13. CASE AwaitTimeout(c)
    BY <2>13 DEF AwaitTimeout
  <2> QED
    BY <1>3, <2>1, <2>2, <2>3, <2>4, <2>5, <2>6, <2>7, <2>8, <2>9, <2>10, <2>11,
          <2>12, <2>13 DEF ExecuteStep
<1>4. ASSUME NEW s \in Closers, ShutdownStep(s) PROVE Handles'
  BY <1>4 DEF ShutdownStep, CloseAcquire, StopWrite, StopBroken, StopWait
<1>5. ASSUME NEW t \in Threads, Discard(t) PROVE Handles'
  BY <1>5 DEF Discard, KillTree
<1>6. ASSUME NEW t \in Threads, Release(t) PROVE Handles'
  BY <1>6 DEF Release
<1>7. ASSUME NEW w \in Workers, PumpStep(w) PROVE Handles'
  BY <1>7 DEF PumpStep, PumpMove, PumpEOF, PumpRaises
<1>8. ASSUME NEW w \in Workers, WorkerStep(w) PROVE Handles'
  BY <1>8 DEF WorkerStep, Boot, Die, TakeJob, LeaveLoop, FinishJob, Reapable
<1>9. ASSUME NEW w \in Workers,
      StartHelpers(w) \/ EndHelpers(w) \/ Crash(w) PROVE Handles'
  BY <1>9 DEF StartHelpers, EndHelpers, Crash, Die
<1>10. CASE AppExit
  BY <1>10 DEF AppExit
<1> QED
  BY <1>1, <1>2, <1>3, <1>4, <1>5, <1>6, <1>7, <1>8, <1>9, <1>10 DEF Next, ThreadStep

\* Every step leaves a worker that is being started with nothing but its handshake.
LEMMA BootingStep == IInv /\ [Next]_vars => Booting'
<1> SUFFICES ASSUME IInv, [Next]_vars PROVE Booting'
  OBVIOUS
<1> USE NamesDistinct DEF IInv, Booting, Coming, Queued, QueuedAfter, Handles,
      Processes, Mutex, Roles, Critical, Polls, Live, Lives, Polled, TypeOK, Threads,
            Goto, Returning, PCs, callVars, procVars, pipeVars, vars
<1>1. CASE UNCHANGED vars
  BY <1>1
<1>2. ASSUME NEW t \in Threads, Begin(t) PROVE Booting'
  BY <1>2 DEF Begin, Reject, Admit, CloseBegin
<1>3. ASSUME NEW c \in Calls, ExecuteStep(c) PROVE Booting'
  <2>1. CASE Acquire(c)
    BY <2>1 DEF Acquire
  <2>2. CASE EnsureReuse(c)
    BY <2>2 DEF EnsureReuse
  <2>3. CASE EnsureSpawn(c)
    BY <2>3 DEF EnsureSpawn
  <2>4. CASE SpawnFails(c)
    BY <2>4 DEF SpawnFails
  <2>5. CASE HandshakeOk(c)
    BY <2>5 DEF HandshakeOk
  <2>6. CASE HandshakeBad(c)
    BY <2>6 DEF HandshakeBad, KillTree, Returning
  <2>7. CASE WriteRaises(c)
    BY <2>7 DEF WriteRaises
  <2>8. CASE WriteOk(c)
    BY <2>8 DEF WriteOk
  <2>9. CASE WriteBroken(c)
    BY <2>9 DEF WriteBroken
  <2>10. CASE WriteOversized(c)
    BY <2>10 DEF WriteOversized, Die, Returning
  <2>11. CASE AwaitAnswer(c)
    BY <2>11 DEF AwaitAnswer
  <2>12. CASE AwaitEOF(c)
    BY <2>12 DEF AwaitEOF
  <2>13. CASE AwaitTimeout(c)
    BY <2>13 DEF AwaitTimeout
  <2> QED
    BY <1>3, <2>1, <2>2, <2>3, <2>4, <2>5, <2>6, <2>7, <2>8, <2>9, <2>10, <2>11,
          <2>12, <2>13 DEF ExecuteStep
<1>4. ASSUME NEW s \in Closers, ShutdownStep(s) PROVE Booting'
  BY <1>4 DEF ShutdownStep, CloseAcquire, StopWrite, StopBroken, StopWait
<1>5. ASSUME NEW t \in Threads, Discard(t) PROVE Booting'
  BY <1>5 DEF Discard, KillTree
<1>6. ASSUME NEW t \in Threads, Release(t) PROVE Booting'
  BY <1>6 DEF Release
<1>7. ASSUME NEW w \in Workers, PumpStep(w) PROVE Booting'
  <2>1. CASE PumpMove(w)
    BY <2>1 DEF PumpMove
  <2>2. CASE PumpEOF(w)
    <3> USE <2>2 DEF PumpEOF
    <3> SUFFICES ASSUME NEW c \in Calls, pc[c] = "handshake", at[c] = w
                 PROVE  /\ Len(inbox'[w]) = 0 /\ job'[w] = None
                        /\ proc'[w] # "booting" /\ Coming(w, "ready")'
      OBVIOUS
    <3>1. /\ Len(responses[w]) \in Nat
          /\ Len(responses'[w]) = Len(responses[w]) + 1
          /\ responses'[w][Len(responses[w]) + 1] = "eof"
          /\ \A i \in 1..Len(responses[w]) : responses'[w][i] = responses[w][i]
      BY AppendProperties, LenProperties
    <3>2. pump'[w] = "ended" /\ ~Live(w)' /\ Len(outbox'[w]) = 0
      OBVIOUS
    <3>3. /\ Len(inbox[w]) = 0 /\ job[w] = None /\ proc[w] # "booting"
          /\ Queued(w) \/ QueuedAfter(w, "ready")
      OBVIOUS
    <3>4. CASE Queued(w)
      <4>1. Queued(w)'
        BY <3>1, <3>2, <3>4 DEF Queued
      <4> QED
        BY <3>2, <3>3, <4>1 DEF Coming
    <3>5. CASE QueuedAfter(w, "ready")
      <4>a. Len(responses[w]) = 1 /\ responses[w][1] = "ready"
        BY <3>5 DEF QueuedAfter
      <4>b. Len(responses'[w]) = 2 /\ responses'[w][1] = "ready" /\ responses'[w][2] = "eof"
        BY <3>1, <4>a
      <4>1. QueuedAfter(w, "ready")'
        BY <3>2, <4>b DEF QueuedAfter
      <4> QED
        BY <3>2, <3>3, <4>1 DEF Coming
    <3> QED
      BY <3>3, <3>4, <3>5
  <2>3. CASE PumpRaises(w)
    <3> USE <2>3 DEF PumpRaises
    <3>1. Len(outbox[w]) > 0 /\ outbox[w][1] \in Calls
      BY EmptySeq, HeadTailProperties DEF Unreadable
    <3>2. ASSUME NEW c \in Calls, pc[c] = "handshake", at[c] = w PROVE FALSE
      BY <3>1, <3>2
    <3> QED
      BY <3>2
  <2> QED
    BY <1>7, <2>1, <2>2, <2>3 DEF PumpStep
<1>8. ASSUME NEW w \in Workers, WorkerStep(w) PROVE Booting'
  <2>1. CASE Boot(w)
    <3> USE <2>1 DEF Boot, Die
    <3> SUFFICES ASSUME NEW c \in Calls, pc[c] = "handshake", at[c] = w
                 PROVE  /\ Len(inbox'[w]) = 0 /\ job'[w] = None
                        /\ proc'[w] # "booting" /\ Coming(w, "ready")'
      OBVIOUS
    <3>1. Len(outbox[w]) = 0 /\ Queued(w) /\ proc[w] = "booting"
      OBVIOUS
    <3>2. CASE appUp
      BY <3>1, <3>2
    <3>3. CASE ~appUp
      BY <3>1, <3>3
    <3> QED
      BY <3>2, <3>3
  <2>2. CASE TakeJob(w)
    BY <2>2 DEF TakeJob
  <2>3. CASE LeaveLoop(w)
    BY <2>3 DEF LeaveLoop, Die
  <2>4. CASE FinishJob(w)
    BY <2>4 DEF FinishJob, Die
  <2>5. CASE Reapable(w)
    BY <2>5 DEF Reapable
  <2> QED
    BY <1>8, <2>1, <2>2, <2>3, <2>4, <2>5 DEF WorkerStep
<1>9. ASSUME NEW w \in Workers,
      StartHelpers(w) \/ EndHelpers(w) \/ Crash(w) PROVE Booting'
  BY <1>9 DEF StartHelpers, EndHelpers, Crash, Die
<1>10. CASE AppExit
  BY <1>10 DEF AppExit
<1> QED
  BY <1>1, <1>2, <1>3, <1>4, <1>5, <1>6, <1>7, <1>8, <1>9, <1>10 DEF Next, ThreadStep

\* Every step leaves a worker that no call waits for clean: an answer is taken
\* off the queue, and every other way out of the wait discards the worker.
LEMMA IdleStep == IInv /\ [Next]_vars => Idle'
<1> SUFFICES ASSUME IInv, [Next]_vars PROVE Idle'
  OBVIOUS
<1> USE NamesDistinct DEF IInv, Idle, Booting, Serving, Coming, Queued, QueuedAfter,
      Handles, Processes, Mutex, Roles, Critical, Polls, Live, Lives, Polled, TypeOK,
            Threads, Goto, Returning, PCs, callVars, procVars, pipeVars, vars
<1>1. CASE UNCHANGED vars
  BY <1>1
<1>2. ASSUME NEW t \in Threads, Begin(t) PROVE Idle'
  BY <1>2 DEF Begin, Reject, Admit, CloseBegin
<1>3. ASSUME NEW c \in Calls, ExecuteStep(c) PROVE Idle'
  <2>1. CASE Acquire(c)
    BY <2>1 DEF Acquire
  <2>2. CASE EnsureReuse(c)
    BY <2>2 DEF EnsureReuse
  <2>3. CASE EnsureSpawn(c)
    BY <2>3 DEF EnsureSpawn
  <2>4. CASE SpawnFails(c)
    BY <2>4 DEF SpawnFails
  <2>5. CASE HandshakeOk(c)
    <3> USE <2>5 DEF HandshakeOk
    <3>1. Len(inbox[at[c]]) = 0 /\ job[at[c]] = None /\ at[c] \in Workers
      OBVIOUS
    <3>2. Len(responses[at[c]]) > 0 /\ responses[at[c]][1] = "ready"
      BY <3>1, EmptySeq
    <3>3. /\ Len(outbox[at[c]]) = 0 /\ QueuedAfter(at[c], "ready")
          /\ proc[at[c]] # "booting"
      BY <3>1, <3>2
    <3>4. Live(at[c]) => pump[at[c]] = "reading"
      BY <3>1, <3>3, LivePump
    <3>5. Live(at[c]) => Len(responses[at[c]]) = 1 /\ proc[at[c]] = "serving"
      BY <3>3, <3>4 DEF QueuedAfter, Live
    <3>6. Len(responses'[at[c]]) = Len(responses[at[c]]) - 1
      BY <3>1, HeadTailProperties
    <3> QED
      BY <3>1, <3>3, <3>5, <3>6
  <2>6. CASE HandshakeBad(c)
    BY <2>6 DEF HandshakeBad, KillTree, Returning
  <2>7. CASE WriteRaises(c)
    BY <2>7 DEF WriteRaises
  <2>8. CASE WriteOk(c)
    BY <2>8 DEF WriteOk
  <2>9. CASE WriteBroken(c)
    BY <2>9 DEF WriteBroken
  <2>10. CASE WriteOversized(c)
    BY <2>10 DEF WriteOversized, Die, Returning
  <2>11. CASE AwaitAnswer(c)
    <3> USE <2>11 DEF AwaitAnswer
    <3>1. at[c] = worker /\ worker \in Workers
      OBVIOUS
    <3>2. Len(responses[worker]) > 0 /\ responses[worker][1] \in Calls
      BY <3>1, EmptySeq
    <3>3. Len(inbox[worker]) = 0 /\ job[worker] = None
          /\ Len(outbox[worker]) = 0 /\ QueuedAfter(worker, c)
      BY <3>1, <3>2
    <3>4. Live(worker) => pump[worker] = "reading"
      BY <3>1, <3>3, LivePump
    <3>5. Live(worker) => Len(responses[worker]) = 1 /\ proc[worker] = "serving"
      BY <3>1, <3>3, <3>4
    <3>6. Len(responses'[worker]) = Len(responses[worker]) - 1
      BY <3>1, HeadTailProperties
    <3> QED
      BY <3>1, <3>3, <3>5, <3>6
  <2>12. CASE AwaitEOF(c)
    BY <2>12 DEF AwaitEOF
  <2>13. CASE AwaitTimeout(c)
    BY <2>13 DEF AwaitTimeout
  <2> QED
    BY <1>3, <2>1, <2>2, <2>3, <2>4, <2>5, <2>6, <2>7, <2>8, <2>9, <2>10, <2>11,
          <2>12, <2>13 DEF ExecuteStep
<1>4. ASSUME NEW s \in Closers, ShutdownStep(s) PROVE Idle'
  BY <1>4 DEF ShutdownStep, CloseAcquire, StopWrite, StopBroken, StopWait
<1>5. ASSUME NEW t \in Threads, Discard(t) PROVE Idle'
  BY <1>5 DEF Discard, KillTree
<1>6. ASSUME NEW t \in Threads, Release(t) PROVE Idle'
  BY <1>6 DEF Release
<1>7. ASSUME NEW w \in Workers, PumpStep(w) PROVE Idle'
  BY <1>7 DEF PumpStep, PumpMove, PumpEOF, PumpRaises
<1>8. ASSUME NEW w \in Workers, WorkerStep(w) PROVE Idle'
  BY <1>8 DEF WorkerStep, Boot, Die, TakeJob, LeaveLoop, FinishJob, Reapable
<1>9. ASSUME NEW w \in Workers, StartHelpers(w) \/ EndHelpers(w) \/ Crash(w) PROVE Idle'
  BY <1>9 DEF StartHelpers, EndHelpers, Crash, Die
<1>10. CASE AppExit
  BY <1>10 DEF AppExit
<1> QED
  BY <1>1, <1>2, <1>3, <1>4, <1>5, <1>6, <1>7, <1>8, <1>9, <1>10 DEF Next, ThreadStep

\* Every step leaves the awaited worker with the awaiting call's job, once.
LEMMA ServingStep == IInv /\ [Next]_vars => Serving'
<1> SUFFICES ASSUME IInv, [Next]_vars PROVE Serving'
  OBVIOUS
<1> USE NamesDistinct DEF IInv, Idle, Serving, Coming, Queued, QueuedAfter, Handles,
      Processes, Mutex, Roles, Critical, Polls, Live, Lives, Polled, TypeOK, Threads,
            Goto, Returning, PCs, callVars, procVars, pipeVars, vars
<1>1. CASE UNCHANGED vars
  BY <1>1
<1>2. ASSUME NEW t \in Threads, Begin(t) PROVE Serving'
  BY <1>2 DEF Begin, Reject, Admit, CloseBegin
<1>3. ASSUME NEW c \in Calls, ExecuteStep(c) PROVE Serving'
  <2>1. CASE Acquire(c)
    BY <2>1 DEF Acquire
  <2>2. CASE EnsureReuse(c)
    BY <2>2 DEF EnsureReuse
  <2>3. CASE EnsureSpawn(c)
    BY <2>3 DEF EnsureSpawn
  <2>4. CASE SpawnFails(c)
    BY <2>4 DEF SpawnFails
  <2>5. CASE HandshakeOk(c)
    BY <2>5 DEF HandshakeOk
  <2>6. CASE HandshakeBad(c)
    BY <2>6 DEF HandshakeBad, KillTree, Returning
  <2>7. CASE WriteRaises(c)
    BY <2>7 DEF WriteRaises
  <2>8. CASE WriteOk(c)
    <3> USE <2>8 DEF WriteOk
    <3>1. at[c] = worker /\ worker \in Workers /\ Live(worker)
      OBVIOUS
    <3>2. /\ proc[worker] = "serving" /\ job[worker] = None
          /\ Len(inbox[worker]) = 0 /\ Len(outbox[worker]) = 0
          /\ Len(responses[worker]) = 0
      BY <3>1
    <3>3. pump[worker] = "reading"
      BY <3>1, LivePump
    <3>4. Len(inbox'[worker]) = 1 /\ inbox'[worker][1] = c
      BY <3>1, <3>2, AppendProperties
    <3>5. \A d \in Calls : pc'[d] = "await" => d = c
      OBVIOUS
    <3> QED
      BY <3>1, <3>2, <3>3, <3>4, <3>5
  <2>9. CASE WriteBroken(c)
    BY <2>9 DEF WriteBroken
  <2>10. CASE WriteOversized(c)
    BY <2>10 DEF WriteOversized, Die, Returning
  <2>11. CASE AwaitAnswer(c)
    BY <2>11 DEF AwaitAnswer
  <2>12. CASE AwaitEOF(c)
    BY <2>12 DEF AwaitEOF
  <2>13. CASE AwaitTimeout(c)
    BY <2>13 DEF AwaitTimeout
  <2> QED
    BY <1>3, <2>1, <2>2, <2>3, <2>4, <2>5, <2>6, <2>7, <2>8, <2>9, <2>10, <2>11,
          <2>12, <2>13 DEF ExecuteStep
<1>4. ASSUME NEW s \in Closers, ShutdownStep(s) PROVE Serving'
  BY <1>4 DEF ShutdownStep, CloseAcquire, StopWrite, StopBroken, StopWait
<1>5. ASSUME NEW t \in Threads, Discard(t) PROVE Serving'
  BY <1>5 DEF Discard, KillTree
<1>6. ASSUME NEW t \in Threads, Release(t) PROVE Serving'
  BY <1>6 DEF Release
<1>7. ASSUME NEW w \in Workers, PumpStep(w) PROVE Serving'
  <2>1. CASE PumpMove(w)
    BY <2>1 DEF PumpMove
  <2>2. CASE PumpEOF(w)
    <3> USE <2>2 DEF PumpEOF
    <3> SUFFICES ASSUME NEW c \in Calls, pc[c] = "await", worker = w
                 PROVE  Serving'
      OBVIOUS
    <3>1. /\ Len(responses[w]) \in Nat
          /\ Len(responses'[w]) = Len(responses[w]) + 1
          /\ responses'[w][Len(responses[w]) + 1] = "eof"
          /\ \A i \in 1..Len(responses[w]) : responses'[w][i] = responses[w][i]
      BY AppendProperties, LenProperties
    <3>2. \A d \in Calls : pc[d] = "await" => d = c
      OBVIOUS
    <3>3. pump'[w] = "ended" /\ ~Live(w)' /\ Len(outbox'[w]) = 0
      OBVIOUS
    <3>4. job[w] = None /\ (Queued(w) \/ QueuedAfter(w, c))
      OBVIOUS
    <3>5. CASE Queued(w)
      <4>1. Queued(w)'
        BY <3>1, <3>3, <3>5 DEF Queued
      <4> QED
        BY <3>2, <3>3, <3>4, <4>1
    <3>6. CASE QueuedAfter(w, c)
      <4>a. Len(responses[w]) = 1 /\ responses[w][1] = c
        BY <3>6 DEF QueuedAfter
      <4>b. Len(responses'[w]) = 2 /\ responses'[w][1] = c /\ responses'[w][2] = "eof"
        BY <3>1, <4>a
      <4>1. QueuedAfter(w, c)'
        BY <3>3, <4>b DEF QueuedAfter
      <4>2. Len(inbox[w]) = 0
        BY <3>6
      <4> QED
        BY <3>2, <3>3, <3>4, <4>1, <4>2
    <3> QED
      BY <3>4, <3>5, <3>6
  <2>3. CASE PumpRaises(w)
    <3> USE <2>3 DEF PumpRaises
    <3> SUFFICES ASSUME NEW c \in Calls, pc[c] = "await", worker = w
                 PROVE  Serving'
      OBVIOUS
    <3>1. Len(outbox[w]) > 0
      BY EmptySeq
    <3>2. \A d \in Calls : pc[d] = "await" => d = c
      OBVIOUS
    <3>3. /\ Len(inbox[w]) = 0 /\ job[w] = None /\ proc[w] # "booting"
          /\ Len(outbox[w]) = 1 /\ outbox[w][1] = c /\ Queued(w)
      BY <3>1
    <3>4. Len(responses[w]) = 0
      BY <3>3 DEF Queued
    <3>5. Len(responses'[w]) = 1 /\ responses'[w][1] = "eof"
      BY <3>4, AppendProperties
    <3>6. Queued(w)'
      BY <3>5 DEF Queued
    <3> QED
      BY <3>2, <3>3, <3>6
  <2> QED
    BY <1>7, <2>1, <2>2, <2>3 DEF PumpStep
<1>8. ASSUME NEW w \in Workers, WorkerStep(w) PROVE Serving'
  <2>1. CASE Boot(w)
    BY <2>1 DEF Boot, Die
  <2>2. CASE TakeJob(w)
    BY <2>2 DEF TakeJob
  <2>3. CASE LeaveLoop(w)
    BY <2>3 DEF LeaveLoop, Die
  <2>4. CASE FinishJob(w)
    <3> USE <2>4 DEF FinishJob, Die
    <3> SUFFICES ASSUME NEW c \in Calls, pc[c] = "await", worker = w
                 PROVE  /\ proc'[w] # "booting"
                        /\ Len(inbox'[w]) = 0 /\ job'[w] = None /\ Coming(w, c)'
      OBVIOUS
    <3>1. Len(inbox[w]) = 0 /\ job[w] = c /\ Len(outbox[w]) = 0 /\ Queued(w)
      OBVIOUS
    <3>2. CASE appUp
      <4>1. pump[w] = "reading"
        BY LivePump
      <4>2. Len(outbox'[w]) = 1 /\ outbox'[w][1] = c
        BY <3>1, <3>2, AppendProperties
      <4> QED
        BY <3>1, <3>2, <4>1, <4>2
    <3>3. CASE ~appUp
      BY <3>1, <3>3
    <3> QED
      BY <3>2, <3>3
  <2>5. CASE Reapable(w)
    BY <2>5 DEF Reapable
  <2> QED
    BY <1>8, <2>1, <2>2, <2>3, <2>4, <2>5 DEF WorkerStep
<1>9. ASSUME NEW w \in Workers,
      StartHelpers(w) \/ EndHelpers(w) \/ Crash(w) PROVE Serving'
  BY <1>9 DEF StartHelpers, EndHelpers, Crash, Die
<1>10. CASE AppExit
  BY <1>10 DEF AppExit
<1> QED
  BY <1>1, <1>2, <1>3, <1>4, <1>5, <1>6, <1>7, <1>8, <1>9, <1>10 DEF Next, ThreadStep

\* Every step leaves a worker that is still to be discarded with its own call's job.
LEMMA OwnerStep == IInv /\ [Next]_vars => Owner'
<1> SUFFICES ASSUME IInv, [Next]_vars PROVE Owner'
  OBVIOUS
<1> USE NamesDistinct DEF IInv, Owner, Serving, Idle, Handles, Processes, Mutex,
      Roles, Critical, Polls, Live, Lives, Polled, TypeOK, Threads, Goto, Returning,
            PCs, callVars, procVars, pipeVars, vars
<1>1. CASE UNCHANGED vars
  BY <1>1
<1>2. ASSUME NEW t \in Threads, Begin(t) PROVE Owner'
  BY <1>2 DEF Begin, Reject, Admit, CloseBegin
<1>3. ASSUME NEW c \in Calls, ExecuteStep(c) PROVE Owner'
  BY <1>3 DEF ExecuteStep, Acquire, EnsureReuse, EnsureSpawn, SpawnFails,
        HandshakeOk, HandshakeBad, KillTree, Returning, WriteRaises, WriteOk,
              WriteBroken, WriteOversized, Die, AwaitAnswer, AwaitEOF, AwaitTimeout
<1>4. ASSUME NEW s \in Closers, ShutdownStep(s) PROVE Owner'
  BY <1>4 DEF ShutdownStep, CloseAcquire, StopWrite, StopBroken, StopWait
<1>5. ASSUME NEW t \in Threads, Discard(t) PROVE Owner'
  BY <1>5 DEF Discard, KillTree
<1>6. ASSUME NEW t \in Threads, Release(t) PROVE Owner'
  BY <1>6 DEF Release
<1>7. ASSUME NEW w \in Workers, PumpStep(w) PROVE Owner'
  BY <1>7 DEF PumpStep, PumpMove, PumpEOF, PumpRaises
<1>8. ASSUME NEW w \in Workers, WorkerStep(w) PROVE Owner'
  <2>1. CASE Boot(w)
    BY <2>1 DEF Boot, Die
  <2>2. CASE TakeJob(w)
    BY <2>2 DEF TakeJob
  <2>3. CASE LeaveLoop(w)
    BY <2>3 DEF LeaveLoop, Die
  <2>4. CASE FinishJob(w)
    BY <2>4 DEF FinishJob, Die
  <2>5. CASE Reapable(w)
    BY <2>5 DEF Reapable
  <2> QED
    BY <1>8, <2>1, <2>2, <2>3, <2>4, <2>5 DEF WorkerStep
<1>9. ASSUME NEW w \in Workers,
      StartHelpers(w) \/ EndHelpers(w) \/ Crash(w) PROVE Owner'
  BY <1>9 DEF StartHelpers, EndHelpers, Crash, Die
<1>10. CASE AppExit
  BY <1>10 DEF AppExit
<1> QED
  BY <1>1, <1>2, <1>3, <1>4, <1>5, <1>6, <1>7, <1>8, <1>9, <1>10 DEF Next, ThreadStep

\* Every step that answers a call answers it with its own reply.
LEMMA AnswerStep == IInv /\ [Next]_vars => OwnAnswer'
<1> SUFFICES ASSUME IInv, [Next]_vars PROVE OwnAnswer'
  OBVIOUS
<1> USE NamesDistinct DEF IInv, OwnAnswer, Serving, Coming, Queued, QueuedAfter,
      Handles, Processes, Mutex, Roles, Critical, Polls, Live, Lives, Polled, TypeOK,
            Threads, Goto, Returning, PCs, callVars, procVars, pipeVars, vars
<1>1. CASE UNCHANGED vars
  BY <1>1
<1>2. ASSUME NEW t \in Threads, Begin(t) PROVE OwnAnswer'
  BY <1>2 DEF Begin, Reject, Admit, CloseBegin
<1>3. ASSUME NEW c \in Calls, ExecuteStep(c) PROVE OwnAnswer'
  BY <1>3 DEF ExecuteStep, Acquire, EnsureReuse, EnsureSpawn, SpawnFails,
        HandshakeOk, HandshakeBad, KillTree, Returning, WriteRaises, WriteOk,
              WriteBroken, WriteOversized, Die, AwaitAnswer, AwaitEOF, AwaitTimeout
<1>4. ASSUME NEW s \in Closers, ShutdownStep(s) PROVE OwnAnswer'
  BY <1>4 DEF ShutdownStep, CloseAcquire, StopWrite, StopBroken, StopWait
<1>5. ASSUME NEW t \in Threads, Discard(t) PROVE OwnAnswer'
  BY <1>5 DEF Discard, KillTree
<1>6. ASSUME NEW t \in Threads, Release(t) PROVE OwnAnswer'
  BY <1>6 DEF Release
<1>7. ASSUME NEW w \in Workers, PumpStep(w) PROVE OwnAnswer'
  BY <1>7 DEF PumpStep, PumpMove, PumpEOF, PumpRaises
<1>8. ASSUME NEW w \in Workers, WorkerStep(w) PROVE OwnAnswer'
  BY <1>8 DEF WorkerStep, Boot, Die, TakeJob, LeaveLoop, FinishJob, Reapable
<1>9. ASSUME NEW w \in Workers,
      StartHelpers(w) \/ EndHelpers(w) \/ Crash(w) PROVE OwnAnswer'
  BY <1>9 DEF StartHelpers, EndHelpers, Crash, Die
<1>10. CASE AppExit
  BY <1>10 DEF AppExit
<1> QED
  BY <1>1, <1>2, <1>3, <1>4, <1>5, <1>6, <1>7, <1>8, <1>9, <1>10 DEF Next, ThreadStep

-----------------------------------------------------------------------------
(* The invariant holds from the start and through every step.              *)

\* Nothing has happened yet: no thread holds the lock, no process exists.
LEMMA IInvInit == Init => IInv
<1> SUFFICES ASSUME Init PROVE IInv
  OBVIOUS
<1> USE NamesDistinct DEF Init, Threads
<1>1. TypeOK
  <2>1. \A S : <<>> \in Seq(S)
    BY EmptySeq
  <2> QED
    BY <2>1, InputsAreKinds DEF TypeOK, PCs, Rets, Lives
<1>2. Mutex /\ Roles
  BY DEF Mutex, Roles, Critical
<1>3. Processes /\ Results /\ Handles
  BY DEF Processes, Results, Handles, Polls
<1>4. Booting /\ Idle /\ Serving /\ Owner /\ OwnAnswer
  BY DEF Booting, Idle, Serving, Owner, OwnAnswer
<1> QED
  BY <1>1, <1>2, <1>3, <1>4 DEF IInv

\* The conjuncts are preserved together.
LEMMA IInvStep == IInv /\ [Next]_vars => IInv'
<1> SUFFICES ASSUME IInv, [Next]_vars PROVE IInv'
  OBVIOUS
<1>1. TypeOK'
  BY TypeStep DEF IInv
<1>2. Mutex' /\ Roles'
  BY LockStep DEF IInv
<1>3. Processes' /\ Results' /\ Handles'
  BY ProcessesStep, ResultsStep, HandlesStep
<1>4. Booting' /\ Idle' /\ Serving' /\ Owner' /\ OwnAnswer'
  BY BootingStep, IdleStep, ServingStep, OwnerStep, AnswerStep
<1> QED
  BY <1>1, <1>2, <1>3, <1>4 DEF IInv

\* The variables keep their types in every behaviour.
THEOREM TypeCorrect == Spec => []TypeOK
<1>1. Init => TypeOK
  BY IInvInit DEF IInv
<1>2. TypeOK /\ [Next]_vars => TypeOK'
  BY TypeStep
<1> QED
  BY <1>1, <1>2, PTL DEF Spec

\* IInv is an invariant of the executor.
THEOREM Invariance == Spec => []IInv
  BY IInvInit, IInvStep, PTL DEF Spec

-----------------------------------------------------------------------------
(* What the invariant is for.                                              *)

\* The operating system never holds two worker processes, whatever failed.
THEOREM OneWorkerAlways == Spec => []OneWorker
<1>1. IInv => OneWorker
  <2> SUFFICES ASSUME IInv, NEW v \in Workers, NEW w \in Workers, Polls(v), Polls(w)
               PROVE  v = w
    BY DEF OneWorker
  <2>1. CASE worker \in Polled
    BY <2>1 DEF IInv, Processes, Handles, Polled
  <2>2. CASE worker \notin Polled
    <3>1. PICK c \in Calls : pc[c] = "handshake" /\ at[c] = v
      BY <2>2 DEF IInv, Processes, Polled
    <3>2. PICK d \in Calls : pc[d] = "handshake" /\ at[d] = w
      BY <2>2 DEF IInv, Processes, Polled
    <3>3. lock = c /\ lock = d
      BY <3>1, <3>2 DEF IInv, Mutex, Critical, Threads
    <3> QED
      BY <3>1, <3>2, <3>3
  <2> QED
    BY <2>1, <2>2
<1> QED
  BY <1>1, Invariance, PTL

\* No call is ever answered with the result of another call's code.
THEOREM OwnAnswers == Spec => []OwnAnswer
<1>1. IInv => OwnAnswer
  BY DEF IInv
<1> QED
  BY <1>1, Invariance, PTL

\* The code of a call that has returned neither runs nor can start.
THEOREM NoRunaways == Spec => []NoRunaway
<1>1. IInv => NoRunaway
  <2> SUFFICES ASSUME IInv, NEW c \in Calls, pc[c] = "done",
                      NEW w \in Workers, Live(w)
               PROVE  job[w] # c /\ \A i \in 1..Len(inbox[w]) : inbox[w][i] # c
    BY NamesDistinct DEF NoRunaway, IInv, Processes, Live
  <2>1. CASE \E d \in Calls : pc[d] = "handshake" /\ at[d] = w
    BY <2>1, NamesDistinct DEF IInv, Booting
  <2>2. CASE w = worker
    <3>1. CASE \A t \in Threads : pc[t] \notin {"await", "discard", "stopwait"}
      BY <2>2, <3>1, NamesDistinct DEF IInv, Idle
    <3>2. ASSUME NEW t \in Threads, pc[t] \in {"await", "discard", "stopwait"}
          PROVE  job[w] # c /\ \A i \in 1..Len(inbox[w]) : inbox[w][i] # c
      <4>1. t # c
        BY <3>2
      <4> QED
        BY <2>2, <3>2, <4>1, NamesDistinct DEF IInv, Owner
    <3> QED
      BY <3>1, <3>2
  <2> QED
    BY <2>1, <2>2 DEF IInv, Processes, Live, Polls
<1> QED
  BY <1>1, Invariance, PTL

\* Between calls the next call finds nothing of an earlier one.
THEOREM Quiescence == Spec => []QuiescentClean
<1>1. IInv => QuiescentClean
  <2> SUFFICES ASSUME IInv, lock = None, worker \in Workers
               PROVE  /\ job[worker] = None
                      /\ Live(worker) =>
                           /\ proc[worker] = "serving" /\ inbox[worker] = <<>>
                           /\ outbox[worker] = <<>> /\ responses[worker] = <<>>
                           /\ pump[worker] = "reading"
    BY DEF QuiescentClean, IInv, TypeOK
  <2>1. \A t \in Threads : pc[t] \notin Critical
    BY NamesDistinct DEF IInv, Mutex, Threads
  <2>2. Live(worker) =>
          /\ proc[worker] = "serving" /\ job[worker] = None
          /\ Len(inbox[worker]) = 0 /\ Len(outbox[worker]) = 0
          /\ Len(responses[worker]) = 0
    BY <2>1, NamesDistinct DEF IInv, Idle, Critical
  <2>3. job[worker] # None => Live(worker)
    BY DEF IInv, Processes, Live
  <2>4. Live(worker) =>
          inbox[worker] = <<>> /\ outbox[worker] = <<>> /\ responses[worker] = <<>>
    BY <2>2, EmptySeq DEF IInv, TypeOK
  <2>5. Live(worker) => pump[worker] = "reading"
    BY <2>2, LivePump DEF IInv
  <2> QED
    BY <2>2, <2>3, <2>4, <2>5
<1> QED
  BY <1>1, Invariance, PTL

\* A worker reported lost has stopped; one reported stopped has, or its reply
\* was longer than the reader takes.
THEOREM Truthful == Spec => []TruthfulErrors
<1>1. IInv => TruthfulErrors
  BY DEF IInv, Results, TruthfulErrors, Live
<1> QED
  BY <1>1, Invariance, PTL

\* No process is left when shutdown() returns.
THEOREM Shutdown == Spec => []ShutdownComplete
<1>1. IInv => ShutdownComplete
  <2> SUFFICES ASSUME IInv, NEW s \in Closers, pc[s] = "release",
                      NEW w \in Workers, Polls(w)
               PROVE  FALSE
    BY DEF ShutdownComplete
  <2>1. w # worker
    BY NamesDistinct DEF IInv, Handles
  <2>2. PICK c \in Calls : pc[c] = "handshake"
    BY <2>1 DEF IInv, Processes
  <2>3. lock = c /\ lock = s
    BY <2>2 DEF IInv, Mutex, Critical, Threads
  <2> QED
    BY <2>2, <2>3
<1> QED
  BY <1>1, Invariance, PTL

\* The executor lets go of a worker only when that process is dead.
THEOREM HandlesKept == Spec => HandleKept
<1>1. IInv /\ [Next]_vars => (worker' # worker /\ worker # None => proc'[worker] = "dead")
  <2> SUFFICES ASSUME IInv, [Next]_vars, worker' # worker, worker # None
               PROVE  proc'[worker] = "dead"
    OBVIOUS
  <2> USE DEF callVars, procVars, pipeVars, vars
  <2>1. ASSUME NEW c \in Calls, HandshakeOk(c) PROVE proc'[worker] = "dead"
    BY <2>1 DEF HandshakeOk, IInv, TypeOK, Lives, Handles, Processes, Polled, Polls,
          Goto
  <2>2. ASSUME NEW t \in Threads, Discard(t) PROVE proc'[worker] = "dead"
    BY <2>2 DEF Discard, KillTree, IInv, TypeOK
  <2>3. (\E c \in Calls : HandshakeOk(c)) \/ (\E t \in Threads : Discard(t))
    BY DEF Next, Begin, Reject, Admit, CloseBegin, ThreadStep, ExecuteStep, Acquire,
          EnsureReuse, EnsureSpawn, SpawnFails, HandshakeBad, WriteRaises, WriteOk,
                WriteBroken, WriteOversized, AwaitAnswer, AwaitEOF, AwaitTimeout,
                      ShutdownStep, CloseAcquire, StopWrite, StopBroken, StopWait,
                            Release, PumpStep, PumpMove, PumpEOF, PumpRaises, WorkerStep, Boot,
                                  TakeJob, LeaveLoop, FinishJob, Reapable,
                                        StartHelpers, EndHelpers, Crash, AppExit
  <2> QED
    BY <2>1, <2>2, <2>3
<1> QED
  BY <1>1, Invariance, PTL DEF Spec, HandleKept
=============================================================================
