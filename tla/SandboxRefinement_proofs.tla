---------------------- MODULE SandboxRefinement_proofs ----------------------
(***************************************************************************)
(* SandboxExecutor implements SandboxService, for every number of calls,   *)
(* closers and workers.  RInv (module SandboxExecutorInv) adds to IInv where *)
(* the job of a call can be; with it every step of the executor, its reader *)
(* threads and its workers is a step of the service, or none.               *)
(***************************************************************************)
EXTENDS SandboxExecutor_proofs

-----------------------------------------------------------------------------
(* What a queue contains.                                                  *)

\* A message written to a queue is the only one added.
LEMMA ContainsAppend ==
    ASSUME NEW S, NEW q \in Seq(S), NEW x \in S, NEW m
    PROVE  Contains(Append(q, x), m) <=> Contains(q, m) \/ x = m
<1>1. /\ Len(q) \in Nat /\ Len(Append(q, x)) = Len(q) + 1
      /\ \A i \in 1..Len(q) : Append(q, x)[i] = q[i]
      /\ Append(q, x)[Len(q) + 1] = x
  BY AppendProperties, LenProperties
<1> DEFINE r == Append(q, x)
<1> HIDE DEF r
<1>2. /\ Len(q) \in Nat /\ Len(r) = Len(q) + 1
      /\ \A i \in 1..Len(q) : r[i] = q[i]
      /\ r[Len(q) + 1] = x
  BY <1>1 DEF r
<1>3. Contains(r, m) <=> Contains(q, m) \/ x = m
  BY ONLY <1>2 DEF Contains
<1> QED
  BY <1>3 DEF r

\* A message read off a queue is its head; the others stay.
LEMMA ContainsTail ==
    ASSUME NEW S, NEW q \in Seq(S), q # <<>>, NEW m
    PROVE  Contains(q, m) <=> Contains(Tail(q), m) \/ Head(q) = m
<1> DEFINE r == Tail(q)
           h == Head(q)
<1>1. /\ Len(q) \in Nat /\ Len(q) >= 1 /\ Len(r) = Len(q) - 1
      /\ \A i \in 1..Len(q) - 1 : r[i] = q[i + 1]
      /\ h = q[1]
  BY HeadTailProperties, LenProperties, EmptySeq
<1> HIDE DEF r, h
<1>2. ASSUME NEW i \in 1..Len(q), q[i] = m PROVE Contains(r, m) \/ h = m
  <2>1. CASE i = 1
    BY <1>1, <1>2, <2>1
  <2>2. CASE i # 1
    <3>1. i - 1 \in 1..Len(r) /\ i - 1 \in 1..Len(q) - 1 /\ (i - 1) + 1 = i
      BY ONLY <1>1, <1>2, <2>2
    <3>2. r[i - 1] = m
      BY <1>1, <1>2, <3>1
    <3> QED
      BY <3>1, <3>2 DEF Contains
  <2> QED
    BY <2>1, <2>2
<1>3. ASSUME NEW i \in 1..Len(r), r[i] = m PROVE Contains(q, m)
  <2>1. i + 1 \in 1..Len(q) /\ i \in 1..Len(q) - 1
    BY ONLY <1>1, <1>3
  <2>2. q[i + 1] = m
    BY <1>1, <1>3, <2>1
  <2> QED
    BY <2>1, <2>2 DEF Contains
<1>4. h = m => Contains(q, m)
  <2>1. 1 \in 1..Len(q)
    BY ONLY <1>1
  <2> QED
    BY <1>1, <2>1 DEF Contains
<1>5. Contains(q, m) <=> Contains(r, m) \/ h = m
  BY <1>2, <1>3, <1>4 DEF Contains
<1> QED
  BY <1>5 DEF r, h

\* Writing x leaves every other message where it was, in every queue.
LEMMA PushOther ==
    ASSUME NEW I, NEW S, NEW f \in [I -> Seq(S)], NEW i, NEW x \in S,
           NEW j \in I, NEW m, x # m
    PROVE  Contains([f EXCEPT ![i] = Append(@, x)][j], m) <=> Contains(f[j], m)
<1>1. CASE i = j
  <2>1. Contains(Append(f[j], x), m) <=> Contains(f[j], m)
    BY ContainsAppend
  <2> QED
    BY <1>1, <2>1
<1>2. CASE i # j
  BY <1>2
<1> QED
  BY <1>1, <1>2

\* Reading a message leaves every other one where it was, in every queue.
LEMMA PopOther ==
    ASSUME NEW I, NEW S, NEW f \in [I -> Seq(S)], NEW i, f[i] # <<>>,
           NEW j \in I, NEW m, Head(f[i]) # m
    PROVE  Contains([f EXCEPT ![i] = Tail(@)][j], m) <=> Contains(f[j], m)
<1>1. CASE i = j
  <2>1. Contains(Tail(f[j]), m) <=> Contains(f[j], m)
    BY <1>1, ContainsTail
  <2> QED
    BY <1>1, <2>1
<1>2. CASE i # j
  BY <1>2
<1> QED
  BY <1>1, <1>2

-----------------------------------------------------------------------------
(* Where jobs can be, by IInv alone.                                       *)

\* A job that runs is in the executor's own worker, for the call that holds the
\* lock.
LEMMA Running ==
    ASSUME IInv, NEW w \in Workers, NEW c \in Calls, job[w] = c
    PROVE  /\ w = worker /\ proc[w] = "serving" /\ lock = c
           /\ pc[c] \in {"await", "discard"}
           /\ \A v \in Workers : job[v] # None => v = w
<1>1. proc[w] = "serving" /\ c # None /\ Live(w) /\ Polls(w)
  BY NamesDistinct DEF IInv, Processes, Live, Polls
<1>2. w = worker
  BY <1>1, NamesDistinct DEF IInv, Processes, Booting
<1>3. PICK t \in Threads : pc[t] \in {"await", "discard", "stopwait"}
  BY <1>1, <1>2, NamesDistinct DEF IInv, Idle
<1>4. t = c
  BY <1>1, <1>2, <1>3 DEF IInv, Owner
<1>5. pc[c] \in {"await", "discard"} /\ lock = c
  BY <1>3, <1>4 DEF IInv, Roles, Mutex, Critical
<1>6. ASSUME NEW v \in Workers, job[v] # None PROVE v = w
  <2>1. proc[v] = "serving" /\ Polls(v)
    BY <1>6 DEF IInv, Processes, Polls
  <2>2. ~\E d \in Calls : pc[d] = "handshake" /\ at[d] = v
    BY <1>6 DEF IInv, Booting
  <2> QED
    BY <1>2, <2>1, <2>2 DEF IInv, Processes
<1> QED
  BY <1>1, <1>2, <1>5, <1>6

-----------------------------------------------------------------------------
(* How a step moves jobs.                                                  *)

\* The job of c has not moved, as far as w is concerned.
Same(w, c) ==
    /\ job'[w] = c <=> job[w] = c
    /\ Contains(inbox'[w], c) <=> Contains(inbox[w], c)
    /\ Replied(w, c)' <=> Replied(w, c)

\* The step moves no job.
Quiet == \A w \in Workers : \A c \in Calls : Same(w, c)

\* A step that leaves pipes, queues and jobs alone moves none.
LEMMA QuietIfUnchanged ==
    ASSUME UNCHANGED <<job, inbox, outbox, responses>>
    PROVE  Quiet
  BY DEF Quiet, Same, Replied

\* Neither does reading the handshake, or giving up on it.
LEMMA QuietHandshake ==
    ASSUME IInv, NEW c \in Calls, HandshakeOk(c) \/ HandshakeBad(c)
    PROVE  Quiet
<1> DEFINE v == at[c]
           M == Calls \cup {"ready", "eof"}
<1>1. v \in Workers /\ pc[c] = "handshake" /\ responses \in [Workers -> Seq(M)]
  BY DEF HandshakeOk, HandshakeBad, Goto, IInv, Handles, TypeOK
<1>2. responses[v] # <<>> => Head(responses[v]) \notin Calls
  <2>1. responses[v] # <<>> => Head(responses[v]) = responses[v][1]
    OBVIOUS
  <2>2. Len(responses[v]) = 0 <=> responses[v] = <<>>
    BY <1>1, EmptySeq
  <2>3. responses[v] # <<>> => responses[v][1] \in {"ready", "eof"}
    BY <1>1, <2>2 DEF IInv, Booting, Coming, Queued, QueuedAfter
  <2> QED
    BY <2>1, <2>3, NamesDistinct
<1>3. job' = job
  <2>1. CASE HandshakeOk(c)
    BY <2>1 DEF HandshakeOk, procVars
  <2>2. CASE HandshakeBad(c)
    <3>1. job[v] = None
      BY <1>1 DEF IInv, Booting
    <3> QED
      BY <2>2, <3>1 DEF HandshakeBad, KillTree, IInv, TypeOK
  <2> QED
    BY <2>1, <2>2
<1>4. inbox' = inbox /\ outbox' = outbox
  BY DEF HandshakeOk, HandshakeBad
<1>5. \/ responses' = responses
      \/ responses[v] # <<>> /\ responses' = [responses EXCEPT ![v] = Tail(responses[v])]
  BY DEF HandshakeOk, HandshakeBad
<1>6. ASSUME NEW w \in Workers, NEW d \in Calls
      PROVE  Contains(responses'[w], d) <=> Contains(responses[w], d)
  <2>1. CASE responses' = responses
    BY <2>1
  <2>2. CASE responses[v] # <<>> /\ responses' = [responses EXCEPT ![v] = Tail(responses[v])]
    <3>1. Head(responses[v]) # d
      BY <1>2, <2>2
    <3> HIDE DEF M
    <3> QED
      BY <1>1, <2>2, <3>1, PopOther
  <2> QED
    BY <1>5, <2>1, <2>2
<1> QED
  BY <1>3, <1>4, <1>6 DEF Quiet, Same, Replied

\* Nor the end of the stream.
LEMMA QuietEOF ==
    ASSUME IInv, NEW c \in Calls, AwaitEOF(c)
    PROVE  Quiet
<1> DEFINE M == Calls \cup {"ready", "eof"}
<1>1. /\ responses \in [Workers -> Seq(M)] /\ responses[at[c]] # <<>>
      /\ Head(responses[at[c]]) \notin Calls
      /\ responses' = [responses EXCEPT ![at[c]] = Tail(responses[at[c]])]
  BY NamesDistinct DEF AwaitEOF, IInv, TypeOK
<1>2. UNCHANGED <<job, inbox, outbox>>
  BY DEF AwaitEOF, procVars
<1> HIDE DEF M
<1>3. ASSUME NEW w \in Workers, NEW d \in Calls
      PROVE  Contains(responses'[w], d) <=> Contains(responses[w], d)
  BY <1>1, PopOther
<1> QED
  BY <1>2, <1>3 DEF Quiet, Same, Replied

\* Nor a request to stop.
LEMMA QuietStop ==
    ASSUME IInv, NEW s \in Closers, StopWrite(s)
    PROVE  Quiet
<1> DEFINE M == Calls \cup {"stop"}
<1>1. /\ inbox \in [Workers -> Seq(M)] /\ "stop" \in M /\ "stop" \notin Calls
      /\ inbox' = [inbox EXCEPT ![worker] = Append(inbox[worker], "stop")]
  BY NamesDistinct DEF StopWrite, IInv, TypeOK
<1>2. UNCHANGED <<job, outbox, responses>>
  BY DEF StopWrite, procVars
<1> HIDE DEF M
<1>3. ASSUME NEW w \in Workers, NEW d \in Calls
      PROVE  Contains(inbox'[w], d) <=> Contains(inbox[w], d)
  <2>1. "stop" # d
    BY <1>1
  <2> QED
    BY <1>1, <2>1, PushOther
<1> QED
  BY <1>2, <1>3 DEF Quiet, Same, Replied

\* A reply that moves from the pipe to the queue is still one reply.
LEMMA QuietPump ==
    ASSUME IInv, NEW v \in Workers, PumpStep(v)
    PROVE  Quiet
<1> DEFINE M == Calls \cup {"ready", "eof"}
           N == Calls \cup {"ready"}
<1>1. /\ responses \in [Workers -> Seq(M)] /\ outbox \in [Workers -> Seq(N)]
      /\ "eof" \in M /\ "eof" \notin Calls
  BY NamesDistinct DEF IInv, TypeOK
<1> HIDE DEF M, N
<1>2. CASE PumpMove(v)
  <2> DEFINE h == Head(outbox[v])
  <2>1. /\ outbox[v] # <<>>
        /\ responses' = [responses EXCEPT ![v] = Append(responses[v], h)]
        /\ outbox' = [outbox EXCEPT ![v] = Tail(outbox[v])]
        /\ UNCHANGED <<job, inbox>>
    BY <1>2 DEF PumpMove, procVars
  <2>2. h \in N /\ h \in M
    <3>1. h \in N
      BY <1>1, <2>1, HeadTailProperties
    <3> QED
      BY <3>1 DEF M, N
  <2> HIDE DEF h
  <2>3. ASSUME NEW d \in Calls PROVE Replied(v, d)' <=> Replied(v, d)
    <3>1. responses'[v] = Append(responses[v], h) /\ outbox'[v] = Tail(outbox[v])
      BY <1>1, <2>1
    <3>2. Contains(responses'[v], d) <=> Contains(responses[v], d) \/ h = d
      BY <1>1, <2>2, <3>1, ContainsAppend
    <3>3. Contains(outbox[v], d) <=> Contains(outbox'[v], d) \/ h = d
      BY <1>1, <2>1, <3>1, ContainsTail DEF h
    <3> QED
      BY <3>2, <3>3 DEF Replied
  <2>4. ASSUME NEW w \in Workers, w # v
        PROVE  responses'[w] = responses[w] /\ outbox'[w] = outbox[w]
    BY <1>1, <2>1, <2>4
  <2> QED
    BY <2>1, <2>3, <2>4 DEF Quiet, Same, Replied
<1>3. CASE PumpEOF(v) \/ PumpRaises(v)
  <2>1. /\ responses' = [responses EXCEPT ![v] = Append(responses[v], "eof")]
        /\ UNCHANGED <<job, inbox, outbox>>
    BY <1>3 DEF PumpEOF, PumpRaises, procVars
  <2>2. ASSUME NEW w \in Workers, NEW d \in Calls
        PROVE  Contains(responses'[w], d) <=> Contains(responses[w], d)
    <3>1. "eof" # d
      BY <1>1
    <3>2. responses \in [Workers -> Seq(M)] /\ "eof" \in M
      BY <1>1
    <3>3. Contains([responses EXCEPT ![v] = Append(responses[v], "eof")][w], d)
            <=> Contains(responses[w], d)
      BY ONLY <3>1, <3>2, PushOther
    <3> QED
      BY <2>1, <3>3
  <2> QED
    BY <2>1, <2>2 DEF Quiet, Same, Replied
<1> QED
  BY <1>2, <1>3 DEF PumpStep

\* A worker that boots or leaves its loop runs no job, and refuses none.
LEMMA QuietWorker ==
    ASSUME IInv, NEW v \in Workers, Boot(v) \/ LeaveLoop(v) \/ Reapable(v)
    PROVE  Quiet
<1> DEFINE N == Calls \cup {"ready"}
<1>1. outbox \in [Workers -> Seq(N)] /\ "ready" \in N /\ "ready" \notin Calls
  BY NamesDistinct DEF IInv, TypeOK
<1>2. job' = job
  <2>1. job[v] = None \/ Reapable(v)
    BY DEF Boot, LeaveLoop, IInv, Processes
  <2> QED
    BY <2>1 DEF Boot, LeaveLoop, Reapable, Die, IInv, TypeOK
<1>3. UNCHANGED <<inbox, responses>>
  BY DEF Boot, LeaveLoop, Reapable, pipeVars
<1>4. outbox' = outbox \/ outbox' = [outbox EXCEPT ![v] = Append(outbox[v], "ready")]
  BY DEF Boot, LeaveLoop, Reapable, pipeVars
<1> HIDE DEF N
<1>5. ASSUME NEW w \in Workers, NEW d \in Calls
      PROVE  Contains(outbox'[w], d) <=> Contains(outbox[w], d)
  <2>1. CASE outbox' = outbox
    BY <2>1
  <2>2. CASE outbox' = [outbox EXCEPT ![v] = Append(outbox[v], "ready")]
    <3>1. "ready" # d
      BY <1>1
    <3> QED
      BY <1>1, <2>2, <3>1, PushOther
  <2> QED
    BY <1>4, <2>1, <2>2
<1> QED
  BY <1>2, <1>3, <1>5 DEF Quiet, Same, Replied

\* A worker that refuses an oversized frame runs no job.
LEMMA QuietOversized ==
    ASSUME IInv, NEW c \in Calls, WriteOversized(c)
    PROVE  Quiet
<1>1. pc[c] = "write" /\ at[c] = worker /\ worker # None
  BY DEF WriteOversized, Goto, IInv, Handles
<1>2. ASSUME NEW d \in Calls, worker \in Workers, job[worker] = d PROVE FALSE
  <2>1. lock = d /\ pc[d] \in {"await", "discard"}
    BY <1>2, Running
  <2>2. lock = c
    BY <1>1 DEF IInv, Mutex, Critical, Threads
  <2> QED
    BY <1>1, <2>1, <2>2
<1>3. job' = job
  <2>1. worker \in Workers /\ job[worker] = None
    BY <1>1, <1>2 DEF IInv, TypeOK
  <2> QED
    BY <1>1, <2>1 DEF WriteOversized, Die, IInv, TypeOK
<1> QED
  BY <1>3, QuietIfUnchanged DEF WriteOversized, pipeVars

\* A job is written to the pipe of an idle worker.
LEMMA MoveWrite ==
    ASSUME IInv, NEW c \in Calls, WriteOk(c)
    PROVE  /\ at[c] \in Workers /\ pc[c] = "write" /\ pc' = [pc EXCEPT ![c] = "await"]
           /\ Len(inbox[at[c]]) = 0 /\ job' = job
           /\ Contains(inbox'[at[c]], c)
           /\ \A w \in Workers : \A d \in Calls :
                 /\ Replied(w, d)' <=> Replied(w, d)
                 /\ w # at[c] \/ d # c => Same(w, d)
<1> DEFINE v == at[c]
           M == Calls \cup {"stop"}
<1>1. /\ pc[c] = "write" /\ v = worker /\ v \in Workers /\ Live(v)
      /\ pc' = [pc EXCEPT ![c] = "await"]
  BY DEF WriteOk, Goto, IInv, Handles, TypeOK
<1>2. Len(inbox[v]) = 0
  <2>1. \A t \in Threads : pc[t] \notin {"await", "discard", "stopwait"}
    BY <1>1, NamesDistinct DEF IInv, Mutex, Critical, Threads
  <2> QED
    BY <1>1, <2>1, NamesDistinct DEF IInv, Idle
<1>3. /\ inbox \in [Workers -> Seq(M)] /\ c \in M
      /\ inbox' = [inbox EXCEPT ![v] = Append(inbox[v], c)]
      /\ UNCHANGED <<job, outbox, responses>>
  BY DEF WriteOk, IInv, TypeOK, procVars
<1> HIDE DEF M
<1>4. Contains(inbox'[v], c)
  <2>1. Contains(Append(inbox[v], c), c)
    BY <1>1, <1>3, ContainsAppend
  <2> QED
    BY <1>1, <1>3, <2>1
<1>5. ASSUME NEW w \in Workers, NEW d \in Calls, w # v \/ d # c
      PROVE  Contains(inbox'[w], d) <=> Contains(inbox[w], d)
  <2>1. CASE w # v
    BY <1>3, <2>1
  <2>2. CASE d # c
    <3>1. inbox \in [Workers -> Seq(M)] /\ c \in M /\ c # d
      BY <1>3, <2>2
    <3>2. Contains([inbox EXCEPT ![v] = Append(inbox[v], c)][w], d) <=> Contains(inbox[w], d)
      BY ONLY <3>1, PushOther
    <3> QED
      BY <1>3, <3>2
  <2> QED
    BY <1>5, <2>1, <2>2
<1>6. ASSUME NEW w \in Workers, NEW d \in Calls
      PROVE  Replied(w, d)' <=> Replied(w, d)
  BY <1>3 DEF Replied
<1>7. ASSUME NEW w \in Workers, NEW d \in Calls, w # v \/ d # c PROVE Same(w, d)
  <2>1. Contains(inbox'[w], d) <=> Contains(inbox[w], d)
    BY <1>5, <1>7
  <2> QED
    BY <1>3, <2>1 DEF Same, Replied
<1> QED
  BY <1>1, <1>2, <1>3, <1>4, <1>6, <1>7

\* A worker that takes a job takes the only one there is.
LEMMA MoveTake ==
    ASSUME IInv, Uncrowded, NEW w \in Workers, TakeJob(w)
    PROVE  \E c \in Calls :
           /\ Contains(inbox[w], c) /\ ~Contains(inbox'[w], c)
           /\ proc[w] = "serving" /\ job[w] = None /\ job'[w] = c
           /\ Replied(w, c)' <=> Replied(w, c)
           /\ \A v \in Workers : \A d \in Calls : v # w \/ d # c => Same(v, d)
<1> DEFINE M == Calls \cup {"stop"}
           c == Head(inbox[w])
<1>1. /\ inbox \in [Workers -> Seq(M)] /\ inbox[w] # <<>> /\ c \in Calls
      /\ proc[w] = "serving" /\ job[w] = None
      /\ inbox' = [inbox EXCEPT ![w] = Tail(inbox[w])]
      /\ job' = [job EXCEPT ![w] = c]
      /\ UNCHANGED <<outbox, responses>>
  BY DEF TakeJob, IInv, TypeOK
<1>2. job \in [Workers -> Calls \cup {None}]
  BY DEF IInv, TypeOK
<1> HIDE DEF M
<1>3. Contains(inbox[w], c)
  BY <1>1, ContainsTail
<1>4. ~Contains(inbox'[w], c)
  <2> DEFINE n == Len(inbox[w])
  <2>1. n \in Nat /\ n <= 1 /\ n # 0
    BY <1>1, LenProperties, EmptySeq DEF Uncrowded
  <2>2. inbox[w] \in Seq(M) /\ inbox'[w] = Tail(inbox[w])
    BY <1>1
  <2>3. Len(Tail(inbox[w])) = n - 1
    BY ONLY <1>1, <2>2, HeadTailProperties
  <2> HIDE DEF n
  <2>4. n - 1 = 0
    BY ONLY <2>1
  <2>5. Len(inbox'[w]) = 0
    BY ONLY <2>2, <2>3, <2>4
  <2> QED
    BY ONLY <2>5 DEF Contains
<1>5. ASSUME NEW v \in Workers, NEW d \in Calls, v # w \/ d # c
      PROVE  Same(v, d)
  <2>1. CASE v # w
    BY <1>1, <1>2, <2>1 DEF Same, Replied
  <2>2. CASE v = w /\ d # c
    <3>1. job'[v] # d /\ job[v] # d
      BY <1>1, <1>2, <2>2, NamesDistinct
    <3>2. c # d /\ inbox \in [Workers -> Seq(M)] /\ inbox[w] # <<>>
      BY <1>1, <2>2
    <3>3. Contains([inbox EXCEPT ![w] = Tail(inbox[w])][v], d) <=> Contains(inbox[v], d)
      BY ONLY <3>2, PopOther
    <3> QED
      BY <1>1, <3>1, <3>3 DEF Same, Replied
  <2> QED
    BY <1>5, <2>1, <2>2
<1> QED
  BY <1>1, <1>2, <1>3, <1>4, <1>5 DEF Replied

\* A job that ends while the app lives leaves its reply.
LEMMA MoveFinish ==
    ASSUME IInv, NEW w \in Workers, FinishJob(w), appUp
    PROVE  \E c \in Calls :
           /\ job[w] = c /\ job'[w] = None /\ Replied(w, c)'
           /\ inbox' = inbox
           /\ \A v \in Workers : \A d \in Calls : v # w \/ d # c => Same(v, d)
<1> DEFINE N == Calls \cup {"ready"}
<1>1. PICK c \in Calls : job[w] = c
  BY DEF FinishJob, IInv, TypeOK
<1>2. /\ c \in N /\ outbox \in [Workers -> Seq(N)]
      /\ outbox' = [outbox EXCEPT ![w] = Append(outbox[w], c)]
      /\ job' = [job EXCEPT ![w] = None] /\ job \in [Workers -> Calls \cup {None}]
      /\ UNCHANGED <<inbox, responses>>
  BY <1>1 DEF FinishJob, IInv, TypeOK
<1> HIDE DEF N
<1>3. Replied(w, c)' /\ job'[w] = None
  <2>1. Contains(Append(outbox[w], c), c)
    BY <1>2, ContainsAppend
  <2>2. outbox'[w] = Append(outbox[w], c) /\ job'[w] = None
    BY <1>2
  <2> QED
    BY <2>1, <2>2 DEF Replied
<1>4. ASSUME NEW v \in Workers, NEW d \in Calls, v # w \/ d # c
      PROVE  Same(v, d)
  <2>1. CASE v # w
    BY <1>2, <2>1 DEF Same, Replied
  <2>2. CASE v = w /\ d # c
    <3>1. job'[v] # d /\ job[v] # d
      BY <1>1, <1>2, <2>2, NamesDistinct
    <3>2. c # d /\ outbox \in [Workers -> Seq(N)] /\ c \in N
      BY <1>2, <2>2
    <3>3. Contains([outbox EXCEPT ![w] = Append(outbox[w], c)][v], d) <=> Contains(outbox[v], d)
      BY ONLY <3>2, PushOther
    <3> QED
      BY <1>2, <3>1, <3>3 DEF Same, Replied
  <2> QED
    BY <1>4, <2>1, <2>2
<1> QED
  BY <1>1, <1>2, <1>3, <1>4

\* A process that ends takes the job it runs with it, and nothing else.
Stops(w) ==
    /\ job' = [job EXCEPT ![w] = None]
    /\ UNCHANGED <<inbox, outbox, responses>>

\* So end the processes that crash, are killed or cannot reply.
LEMMA MoveStop ==
    ASSUME IInv
    PROVE  /\ \A w \in Workers : Crash(w) \/ (FinishJob(w) /\ ~appUp) => Stops(w)
           /\ \A t \in Threads : Discard(t) => worker \in Workers /\ Stops(worker)
<1>1. ASSUME NEW w \in Workers, Crash(w) \/ (FinishJob(w) /\ ~appUp) PROVE Stops(w)
  BY <1>1 DEF Crash, FinishJob, Die, Stops, pipeVars
<1>2. ASSUME NEW t \in Threads, Discard(t) PROVE worker \in Workers /\ Stops(worker)
  <2>1. worker # None
    BY <1>2 DEF Discard, Goto, IInv, Handles, Threads
  <2> QED
    BY <1>2, <2>1 DEF Discard, KillTree, Stops, pipeVars, IInv, TypeOK
<1> QED
  BY <1>1, <1>2

\* Whatever is not the job that was stopped stays where it is.
LEMMA StopsOnly ==
    ASSUME IInv, NEW w \in Workers, Stops(w)
    PROVE  \A v \in Workers : \A d \in Calls :
               /\ job[w] # d \/ v # w => Same(v, d)
               /\ job[w] = d => job'[v] # d
<1>1. job \in [Workers -> Calls \cup {None}]
  BY DEF IInv, TypeOK
<1>2. ASSUME NEW v \in Workers, NEW d \in Calls, job[w] # d \/ v # w
      PROVE  Same(v, d)
  BY <1>1, <1>2, NamesDistinct DEF Stops, Same, Replied
<1>3. ASSUME NEW v \in Workers, NEW d \in Calls, job[w] = d
      PROVE  job'[v] # d
  <2>1. job[v] # None => v = w
    BY <1>3, Running
  <2> QED
    BY <1>1, <2>1, NamesDistinct DEF Stops
<1> QED
  BY <1>2, <1>3

\* A call reads its own reply.
LEMMA MoveAnswer ==
    ASSUME IInv, NEW c \in Calls, AwaitAnswer(c)
    PROVE  /\ worker \in Workers /\ Replied(worker, c) /\ ans' = [ans EXCEPT ![c] = c]
           /\ job' = job /\ inbox' = inbox /\ job[worker] # c /\ ~Contains(inbox[worker], c)
           /\ \A w \in Workers : Replied(w, c)' => Replied(w, c)
           /\ \A w \in Workers : \A d \in Calls : d # c => Same(w, d)
<1> DEFINE M == Calls \cup {"ready", "eof"}
           v == at[c]
<1>1. /\ responses \in [Workers -> Seq(M)] /\ responses[v] # <<>>
      /\ v = worker /\ v \in Workers /\ pc[c] = "await"
      /\ responses' = [responses EXCEPT ![v] = Tail(responses[v])]
      /\ ans' = [ans EXCEPT ![c] = Head(responses[v])] /\ Head(responses[v]) \in Calls
      /\ UNCHANGED <<job, inbox, outbox>>
  BY DEF AwaitAnswer, Goto, IInv, TypeOK, Handles, procVars
<1>2. /\ Head(responses[v]) = c /\ job[v] # c /\ Len(inbox[v]) = 0
  <2>1. Head(responses[v]) = responses[v][1] /\ Len(responses[v]) # 0
    BY <1>1, EmptySeq
  <2>2. responses[v][1] # "eof"
    BY <1>1, <2>1, NamesDistinct
  <2> QED
    BY <1>1, <2>1, <2>2, NamesDistinct DEF IInv, Serving, Coming, Queued, QueuedAfter
<1> HIDE DEF M
<1>3. Replied(v, c)
  <2>1. Contains(responses[v], c)
    BY <1>1, <1>2, ContainsTail
  <2> QED
    BY <2>1 DEF Replied
<1>4. ~Contains(inbox[v], c)
  BY <1>2 DEF Contains
<1>5. ASSUME NEW w \in Workers, NEW d \in Calls, d # c PROVE Same(w, d)
  <2>1. responses \in [Workers -> Seq(M)] /\ responses[v] # <<>> /\ Head(responses[v]) # d
    BY <1>1, <1>2, <1>5
  <2>2. Contains([responses EXCEPT ![v] = Tail(responses[v])][w], d) <=> Contains(responses[w], d)
    BY ONLY <2>1, PopOther
  <2> QED
    BY <1>1, <2>2 DEF Same, Replied
<1>6. ASSUME NEW w \in Workers, Replied(w, c)' PROVE Replied(w, c)
  <2>1. CASE w = v
    BY <1>3, <2>1
  <2>2. CASE w # v
    BY <1>1, <1>6, <2>2 DEF Replied
  <2> QED
    BY <2>1, <2>2
<1> QED
  BY <1>1, <1>2, <1>3, <1>4, <1>5, <1>6

-----------------------------------------------------------------------------
(* What a step does to a call.                                             *)

\* The step leaves the thread of c where it is.
Unmoved(c) ==
    pc'[c] = pc[c] /\ at'[c] = at[c] /\ ret'[c] = ret[c] /\ ans'[c] = ans[c]

\* Only its own steps move a thread.
LEMMA OwnSteps ==
    ASSUME IInv, [Next]_vars, NEW c \in Calls
    PROVE  Unmoved(c) \/ Begin(c) \/ ThreadStep(c)
<1> DEFINE Own == Unmoved(c) \/ Begin(c) \/ ThreadStep(c)
<1> USE NamesDistinct DEF IInv, TypeOK, Threads, Goto, Returning, Unmoved,
      callVars, procVars, pipeVars, vars
<1>1. CASE UNCHANGED vars
  BY <1>1
<1>2. ASSUME NEW t \in Threads, Begin(t) PROVE Own
  BY <1>2 DEF Begin, Reject, Admit, CloseBegin
<1>3. ASSUME NEW t \in Threads, ThreadStep(t) PROVE Own
  <2>1. CASE t = c
    BY <1>3, <2>1
  <2>2. CASE t # c
    BY <1>3, <2>2 DEF ThreadStep, ExecuteStep, Acquire, EnsureReuse, EnsureSpawn,
          SpawnFails, HandshakeOk, HandshakeBad, WriteRaises, WriteOk, WriteBroken,
          WriteOversized, AwaitAnswer, AwaitEOF, AwaitTimeout, ShutdownStep,
          CloseAcquire, StopWrite, StopBroken, StopWait, Discard, Release
  <2> QED
    BY <2>1, <2>2
<1>4. ASSUME NEW w \in Workers, PumpStep(w) PROVE Own
  BY <1>4 DEF PumpStep, PumpMove, PumpEOF, PumpRaises
<1>5. ASSUME NEW w \in Workers, WorkerStep(w) PROVE Own
  BY <1>5 DEF WorkerStep, Boot, TakeJob, LeaveLoop, FinishJob, Reapable
<1>6. ASSUME NEW w \in Workers,
      StartHelpers(w) \/ EndHelpers(w) \/ Crash(w) PROVE Own
  BY <1>6 DEF StartHelpers, EndHelpers, Crash
<1>7. CASE AppExit
  BY <1>7 DEF AppExit
<1> QED
  BY <1>1, <1>2, <1>3, <1>4, <1>5, <1>6, <1>7 DEF Next

\* The steps of a call on its way to the worker, and the result they leave.
Early == {"lock", "ensure", "handshake", "write"}

Failing == {"nostart", "raised", "lost"}

\* What the own steps of a call do to it.
LEMMA Effects ==
    ASSUME IInv, NEW c \in Calls, Begin(c) \/ ThreadStep(c)
    PROVE  \/ Reject(c)
           \/ Admit(c)
           \/ /\ pc[c] \in Early /\ ans'[c] = ans[c] /\ ~AwaitAnswer(c)
              /\ \/ pc'[c] \in Early /\ ret'[c] = ret[c]
                 \/ pc'[c] = "discard" /\ ret'[c] = "lost"
                 \/ pc'[c] = "release" /\ ret'[c] \in {"nostart", "raised"}
           \/ WriteOk(c)
           \/ AwaitAnswer(c)
           \/ /\ AwaitEOF(c) \/ AwaitTimeout(c)
              /\ pc[c] = "await" /\ pc'[c] = "discard" /\ ret'[c] \in {"eof", "timeout"}
              /\ at'[c] = at[c] /\ ans'[c] = ans[c]
           \/ /\ Discard(c)
              /\ pc[c] = "discard" /\ pc'[c] = "release"
              /\ at'[c] = at[c] /\ ret'[c] = ret[c] /\ ans'[c] = ans[c]
           \/ /\ Release(c)
              /\ pc[c] = "release" /\ pc'[c] = "done"
              /\ at'[c] = at[c] /\ ret'[c] = ret[c] /\ ans'[c] = ans[c]
<1> USE NamesDistinct DEF IInv, TypeOK, Threads, Goto, Returning, Early
<1>1. CASE Begin(c)
  BY <1>1 DEF Begin
<1>2. CASE Acquire(c) \/ EnsureReuse(c) \/ EnsureSpawn(c) \/ SpawnFails(c)
            \/ HandshakeOk(c) \/ HandshakeBad(c)
  BY <1>2 DEF Acquire, EnsureReuse, EnsureSpawn, SpawnFails, HandshakeOk, HandshakeBad,
        AwaitAnswer
<1>3. CASE WriteRaises(c) \/ WriteBroken(c) \/ WriteOversized(c)
  BY <1>3 DEF WriteRaises, WriteBroken, WriteOversized, AwaitAnswer
<1>4. CASE AwaitEOF(c) \/ AwaitTimeout(c)
  BY <1>4 DEF AwaitEOF, AwaitTimeout
<1>5. CASE Discard(c) \/ Release(c)
  BY <1>5 DEF Discard, Release
<1> QED
  BY <1>1, <1>2, <1>3, <1>4, <1>5 DEF ThreadStep, ExecuteStep

-----------------------------------------------------------------------------
(* The invariant.                                                          *)

\* A pipe holds one message at most: whoever writes finds an idle worker.
LEMMA UncrowdedStep == IInv /\ Uncrowded /\ [Next]_vars => Uncrowded'
<1> SUFFICES ASSUME IInv, Uncrowded, [Next]_vars, NEW w \in Workers
             PROVE  Len(inbox'[w]) <= 1
  BY DEF Uncrowded
<1> DEFINE M == Calls \cup {"stop"}
<1>1. inbox \in [Workers -> Seq(M)] /\ "stop" \in M /\ Calls \subseteq M
  BY DEF IInv, TypeOK
<1>2. Len(inbox[w]) <= 1
  BY DEF Uncrowded
<1> HIDE DEF M
<1>3. ASSUME NEW m \in M, Len(inbox[worker]) = 0, worker \in Workers,
             inbox' = [inbox EXCEPT ![worker] = Append(inbox[worker], m)]
      PROVE  Len(inbox'[w]) <= 1
  <2>1. CASE w = worker
    <3>1. Len(Append(inbox[worker], m)) = Len(inbox[worker]) + 1
      BY <1>1, <1>3, AppendProperties
    <3>2. inbox'[w] = Append(inbox[worker], m)
      BY <1>1, <1>3, <2>1
    <3> QED
      BY <1>3, <3>1, <3>2
  <2>2. CASE w # worker
    BY <1>1, <1>2, <1>3, <2>2
  <2> QED
    BY <2>1, <2>2
<1>4. ASSUME NEW c \in Calls, WriteOk(c) PROVE Len(inbox'[w]) <= 1
  <2>1. at[c] = worker /\ worker \in Workers /\ Len(inbox[worker]) = 0
    <3>1. at[c] \in Workers /\ Len(inbox[at[c]]) = 0
      BY <1>4, MoveWrite
    <3> QED
      BY <1>4, <3>1 DEF WriteOk, Goto, IInv, Handles
  <2>2. inbox' = [inbox EXCEPT ![worker] = Append(inbox[worker], c)]
    BY <1>4, <2>1 DEF WriteOk
  <2> QED
    BY <1>1, <1>3, <2>1, <2>2
<1>5. ASSUME NEW s \in Closers, StopWrite(s) PROVE Len(inbox'[w]) <= 1
  <2>1. Live(worker) /\ pc[s] = "stop" /\ worker \in Workers
    BY <1>5 DEF StopWrite, Goto, IInv, Handles, TypeOK
  <2>2. \A t \in Threads : pc[t] \notin {"await", "discard", "stopwait"}
    BY <2>1, NamesDistinct DEF IInv, Mutex, Critical, Threads
  <2>3. Len(inbox[worker]) = 0
    BY <2>1, <2>2, NamesDistinct DEF IInv, Idle
  <2>4. inbox' = [inbox EXCEPT ![worker] = Append(inbox[worker], "stop")]
    BY <1>5 DEF StopWrite
  <2> QED
    BY <1>1, <1>3, <2>1, <2>3, <2>4
<1>6. ASSUME NEW v \in Workers, TakeJob(v) PROVE Len(inbox'[w]) <= 1
  <2>1. inbox[v] # <<>> /\ inbox' = [inbox EXCEPT ![v] = Tail(inbox[v])]
    BY <1>6 DEF TakeJob
  <2>2. CASE w = v
    <3> DEFINE n == Len(inbox[w])
    <3>1. inbox[w] \in Seq(M) /\ inbox[w] # <<>> /\ inbox'[w] = Tail(inbox[w])
      BY <1>1, <2>1, <2>2
    <3>2. Len(inbox'[w]) = n - 1 /\ n \in Nat
      BY ONLY <3>1, HeadTailProperties, LenProperties
    <3> HIDE DEF n
    <3>3. n - 1 <= 1
      BY <1>2, <3>2 DEF n
    <3> QED
      BY <3>2, <3>3
  <2>3. CASE w # v
    BY <1>1, <1>2, <2>1, <2>3
  <2> QED
    BY <2>2, <2>3
<1>7. \/ \E c \in Calls : WriteOk(c)
      \/ \E s \in Closers : StopWrite(s)
      \/ \E v \in Workers : TakeJob(v)
      \/ inbox' = inbox
  BY DEF Next, Begin, Reject, Admit, CloseBegin, ThreadStep, ExecuteStep, Acquire,
        EnsureReuse, EnsureSpawn, SpawnFails, HandshakeOk, HandshakeBad, WriteRaises,
        WriteBroken, WriteOversized, AwaitAnswer, AwaitEOF, AwaitTimeout,
        ShutdownStep, CloseAcquire, StopBroken, StopWait, Discard, Release,
        PumpStep, PumpMove, PumpEOF, PumpRaises, WorkerStep, Boot, LeaveLoop,
        FinishJob, Reapable,
        StartHelpers, EndHelpers, Crash, AppExit, pipeVars, vars
<1> QED
  BY <1>2, <1>4, <1>5, <1>6, <1>7

\* A call returns what the step that ended it set.
LEMMA EndingsStep == IInv /\ Endings /\ [Next]_vars => Endings'
<1> SUFFICES ASSUME IInv, Endings, [Next]_vars, NEW c \in Calls
             PROVE  /\ pc'[c] \notin {"discard", "release", "done"} => ret'[c] = None
                    /\ pc'[c] = "discard" => ret'[c] \in {"lost", "timeout", "eof"}
                    /\ pc'[c] = "release" => ret'[c] \notin {None, "rejected"}
                    /\ ans'[c] # None <=> ret'[c] = "answer"
  BY DEF Endings
<1> DEFINE Goal == /\ pc'[c] \notin {"discard", "release", "done"} => ret'[c] = None
                   /\ pc'[c] = "discard" => ret'[c] \in {"lost", "timeout", "eof"}
                   /\ pc'[c] = "release" => ret'[c] \notin {None, "rejected"}
                   /\ ans'[c] # None <=> ret'[c] = "answer"
<1>1. /\ pc[c] \notin {"discard", "release", "done"} => ret[c] = None
      /\ pc[c] = "discard" => ret[c] \in {"lost", "timeout", "eof"}
      /\ pc[c] = "release" => ret[c] \notin {None, "rejected"}
      /\ ans[c] # None <=> ret[c] = "answer"
      /\ ret[c] \in Rets \cup {None} /\ c \in Threads
      /\ pc \in [Threads -> PCs] /\ ret \in [Calls -> Rets \cup {None}]
      /\ ans \in [Calls -> Calls \cup {None}]
  BY DEF Endings, IInv, TypeOK, Threads
<1>2. CASE Unmoved(c)
  BY <1>1, <1>2 DEF Unmoved
<1>3. CASE Begin(c) \/ ThreadStep(c)
  <2>1. CASE Reject(c)
    <3>1. pc[c] = "new" /\ pc'[c] = "done" /\ ret'[c] = "rejected" /\ ans'[c] = ans[c]
      BY <1>1, <2>1 DEF Reject, Goto, Returning
    <3> QED
      BY ONLY <1>1, <3>1, NoneIsNoResult DEF Rets
  <2>2. CASE Admit(c)
    <3>1. pc[c] = "new" /\ pc'[c] = "lock" /\ ret'[c] = ret[c] /\ ans'[c] = ans[c]
      BY <1>1, <2>2 DEF Admit, Goto
    <3> QED
      BY ONLY <1>1, <3>1, NoneIsNoResult
  <2>3. CASE WriteOk(c)
    <3>1. pc[c] = "write" /\ pc'[c] = "await" /\ ret'[c] = ret[c] /\ ans'[c] = ans[c]
      BY <1>1, <2>3 DEF WriteOk, Goto
    <3> QED
      BY ONLY <1>1, <3>1, NoneIsNoResult
  <2>4. CASE AwaitAnswer(c)
    <3>1. pc'[c] = "release" /\ ret'[c] = "answer" /\ ans'[c] # None
      BY <1>1, <2>4, NamesDistinct DEF AwaitAnswer, Goto, Returning
    <3> QED
      BY ONLY <3>1, NoneIsNoResult DEF Rets
  <2>5. CASE /\ pc[c] \in Early /\ ans'[c] = ans[c]
             /\ \/ pc'[c] \in Early /\ ret'[c] = ret[c]
                \/ pc'[c] = "discard" /\ ret'[c] = "lost"
                \/ pc'[c] = "release" /\ ret'[c] \in {"nostart", "raised"}
    BY ONLY <1>1, <2>5, NoneIsNoResult DEF Early, Rets
  <2>6. CASE /\ pc[c] = "await" /\ pc'[c] = "discard" /\ ret'[c] \in {"eof", "timeout"}
             /\ ans'[c] = ans[c]
    BY ONLY <1>1, <2>6, NoneIsNoResult DEF Rets
  <2>7. CASE /\ ret'[c] = ret[c] /\ ans'[c] = ans[c]
             /\ \/ pc[c] = "discard" /\ pc'[c] = "release"
                \/ pc[c] = "release" /\ pc'[c] = "done"
    BY ONLY <1>1, <2>7, NoneIsNoResult DEF Rets
  <2> QED
    BY <1>3, <2>1, <2>2, <2>3, <2>4, <2>5, <2>6, <2>7, Effects
<1> QED
  BY <1>2, <1>3, OwnSteps
\* Every step moves no job, or one: to a worker, into it, out of it as a reply,
\* out of it for good, or back to its call.
LEMMA JobSteps ==
    ASSUME IInv, [Next]_vars
    PROVE  \/ Quiet /\ ans' = ans
           \/ \E c \in Calls : WriteOk(c) \/ AwaitAnswer(c)
           \/ \E w \in Workers : TakeJob(w) \/ (FinishJob(w) /\ appUp)
           \/ \E w \in Workers : Stops(w) /\ ans' = ans
<1> DEFINE Goal == \/ Quiet /\ ans' = ans
                   \/ \E c \in Calls : WriteOk(c) \/ AwaitAnswer(c)
                   \/ \E w \in Workers : TakeJob(w) \/ (FinishJob(w) /\ appUp)
                   \/ \E w \in Workers : Stops(w) /\ ans' = ans
<1> USE DEF callVars, procVars, pipeVars, vars
<1>1. CASE UNCHANGED vars
  BY <1>1, QuietIfUnchanged
<1>2. ASSUME NEW t \in Threads, Begin(t) PROVE Goal
  BY <1>2, QuietIfUnchanged DEF Begin, Reject, Admit, CloseBegin
<1>3. ASSUME NEW c \in Calls, ExecuteStep(c) PROVE Goal
  <2>1. CASE Acquire(c) \/ EnsureReuse(c) \/ EnsureSpawn(c) \/ SpawnFails(c)
    BY <2>1, QuietIfUnchanged DEF Acquire, EnsureReuse, EnsureSpawn, SpawnFails
  <2>2. CASE HandshakeOk(c) \/ HandshakeBad(c)
    BY <2>2, QuietHandshake DEF HandshakeOk, HandshakeBad
  <2>3. CASE WriteRaises(c) \/ WriteBroken(c) \/ AwaitTimeout(c)
    BY <2>3, QuietIfUnchanged DEF WriteRaises, WriteBroken, AwaitTimeout
  <2>4. CASE WriteOversized(c)
    BY <2>4, QuietOversized DEF WriteOversized
  <2>5. CASE AwaitEOF(c)
    BY <2>5, QuietEOF DEF AwaitEOF
  <2> QED
    BY <1>3, <2>1, <2>2, <2>3, <2>4, <2>5 DEF ExecuteStep
<1>4. ASSUME NEW s \in Closers, ShutdownStep(s) PROVE Goal
  <2>1. CASE StopWrite(s)
    BY <2>1, QuietStop DEF StopWrite
  <2>2. CASE CloseAcquire(s) \/ StopBroken(s) \/ StopWait(s)
    BY <2>2, QuietIfUnchanged DEF CloseAcquire, StopBroken, StopWait
  <2> QED
    BY <1>4, <2>1, <2>2 DEF ShutdownStep
<1>5. ASSUME NEW t \in Threads, Discard(t) PROVE Goal
  BY <1>5, MoveStop DEF Discard
<1>6. ASSUME NEW t \in Threads, Release(t) PROVE Goal
  BY <1>6, QuietIfUnchanged DEF Release
<1>7. ASSUME NEW w \in Workers, PumpStep(w) PROVE Goal
  BY <1>7, QuietPump DEF PumpStep, PumpMove, PumpEOF, PumpRaises
<1>8. ASSUME NEW w \in Workers, WorkerStep(w) PROVE Goal
  <2>1. CASE Boot(w) \/ LeaveLoop(w) \/ Reapable(w)
    BY <2>1, QuietWorker DEF Boot, LeaveLoop, Reapable
  <2>2. CASE FinishJob(w) /\ ~appUp
    BY <2>2, MoveStop DEF FinishJob
  <2> QED
    BY <1>8, <2>1, <2>2 DEF WorkerStep
<1>9. ASSUME NEW w \in Workers, StartHelpers(w) \/ EndHelpers(w) PROVE Goal
  BY <1>9, QuietIfUnchanged DEF StartHelpers, EndHelpers
<1>10. ASSUME NEW w \in Workers, Crash(w) PROVE Goal
  BY <1>10, MoveStop DEF Crash
<1>11. CASE AppExit
  BY <1>11, QuietIfUnchanged DEF AppExit
<1> QED
  BY <1>1, <1>2, <1>3, <1>4, <1>5, <1>6, <1>7, <1>8, <1>9, <1>10, <1>11
     DEF Next, ThreadStep

\* A call whose job was written stays with its worker until it returns.
LEMMA LateStays ==
    ASSUME IInv, [Next]_vars, NEW c \in Calls,
           pc[c] \in {"await", "discard", "release", "done"},
           ret[c] \in {None, "timeout", "eof", "answer"}
    PROVE  /\ at'[c] = at[c]
           /\ pc'[c] \in {"await", "discard", "release", "done"}
           /\ ret'[c] \in {None, "timeout", "eof", "answer"}
<1>1. CASE Unmoved(c)
  BY <1>1 DEF Unmoved
<1>2. CASE AwaitAnswer(c)
  BY <1>2 DEF AwaitAnswer, Goto, Returning, IInv, TypeOK, Threads
<1>3. ~Reject(c) /\ ~Admit(c) /\ ~WriteOk(c)
  BY DEF Reject, Admit, WriteOk, Goto
<1> QED
  BY <1>1, <1>2, <1>3, OwnSteps, Effects DEF Early

\* A job stays with its worker, in one form at a time.
LEMMA WhereaboutsStep ==
    IInv /\ Uncrowded /\ Whereabouts /\ Endings /\ [Next]_vars => Whereabouts'
<1> SUFFICES ASSUME IInv, Uncrowded, Whereabouts, Endings, [Next]_vars,
                    NEW c \in Calls, NEW w \in Workers
             PROVE  /\ Holds(w, c)' =>
                         /\ w = at'[c]
                         /\ pc'[c] \in {"await", "discard", "release", "done"}
                         /\ ret'[c] \in {None, "timeout", "eof", "answer"}
                    /\ job'[w] = c \/ Contains(inbox'[w], c) =>
                         ~Replied(w, c)' /\ ans'[c] = None
                    /\ ~(job'[w] = c /\ Contains(inbox'[w], c))
  BY DEF Whereabouts
<1> DEFINE G1 == Holds(w, c)' =>
                     /\ w = at'[c]
                     /\ pc'[c] \in {"await", "discard", "release", "done"}
                     /\ ret'[c] \in {None, "timeout", "eof", "answer"}
           G2 == /\ job'[w] = c \/ Contains(inbox'[w], c) =>
                      ~Replied(w, c)' /\ ans'[c] = None
                 /\ ~(job'[w] = c /\ Contains(inbox'[w], c))
<1>1. /\ \A v \in Workers : Holds(v, c) =>
           /\ v = at[c]
           /\ pc[c] \in {"await", "discard", "release", "done"}
           /\ ret[c] \in {None, "timeout", "eof", "answer"}
      /\ job[w] = c \/ Contains(inbox[w], c) => ~Replied(w, c) /\ ans[c] = None
      /\ ~(job[w] = c /\ Contains(inbox[w], c))
  BY DEF Whereabouts
<1>2. Holds(w, c) => G1
  BY <1>1, LateStays
<1>3. /\ Holds(w, c) <=> job[w] = c \/ Contains(inbox[w], c) \/ Replied(w, c)
      /\ Holds(w, c)' <=> job'[w] = c \/ Contains(inbox'[w], c) \/ Replied(w, c)'
  BY DEF Holds
<1> HIDE DEF G1
<1>4. ASSUME Same(w, c), ans'[c] = ans[c] PROVE G1 /\ G2
  <2>1. Holds(w, c)' <=> Holds(w, c)
    BY <1>3, <1>4 DEF Same
  <2>2. G1
    BY <1>2, <2>1 DEF G1
  <2> QED
    BY <1>1, <1>4, <2>2 DEF Same
<1>5. ASSUME Quiet, ans' = ans PROVE G1 /\ G2
  <2>1. Same(w, c) /\ ans'[c] = ans[c]
    BY <1>5 DEF Quiet
  <2> QED
    BY <1>4, <2>1
<1>6. ASSUME NEW d \in Calls, WriteOk(d) PROVE G1 /\ G2
  <2>1. ans' = ans
    BY <1>6 DEF WriteOk
  <2>2. CASE w # at[d] \/ d # c
    BY <1>4, <1>6, <2>1, <2>2, MoveWrite
  <2>3. CASE w = at[d] /\ d = c
    <3>1. /\ pc[c] = "write" /\ pc'[c] = "await" /\ at'[c] = at[c] /\ ret'[c] = ret[c]
      BY <1>6, <2>3 DEF WriteOk, Goto, IInv, TypeOK, Threads
    <3>2. ret[c] = None /\ ans[c] = None
      BY <3>1, NoneIsNoResult DEF Endings, Rets
    <3>3. ~Holds(w, c)
      BY <1>1, <3>1
    <3>4. job' = job /\ (Replied(w, c)' <=> Replied(w, c))
      BY <1>6, <2>3, MoveWrite
    <3>5. G2
      BY <1>3, <2>1, <3>2, <3>3, <3>4
    <3> QED
      BY <2>3, <3>1, <3>2, <3>5 DEF G1
  <2> QED
    BY <2>2, <2>3
<1>7. ASSUME NEW d \in Calls, AwaitAnswer(d) PROVE G1 /\ G2
  <2>1. ans' = [ans EXCEPT ![d] = d] /\ ans \in [Calls -> Calls \cup {None}]
    BY <1>7, MoveAnswer DEF IInv, TypeOK
  <2>2. CASE d # c
    BY <1>4, <1>7, <2>1, <2>2, MoveAnswer
  <2>3. CASE d = c
    <3>1. /\ worker \in Workers /\ Replied(worker, c)
          /\ job' = job /\ inbox' = inbox /\ job[worker] # c /\ ~Contains(inbox[worker], c)
          /\ Replied(w, c)' => Replied(w, c)
      BY <1>7, <2>3, MoveAnswer
    <3>2. worker = at[c]
      BY <1>1, <3>1 DEF Holds
    <3>3. ~(job[w] = c \/ Contains(inbox[w], c))
      BY <1>1, <1>3, <3>1, <3>2
    <3>4. Holds(w, c)' => Holds(w, c)
      BY <1>3, <3>1
    <3>5. G1
      BY <1>2, <3>4 DEF G1
    <3> QED
      BY <3>1, <3>3, <3>5
  <2> QED
    BY <2>2, <2>3
<1>8. ASSUME NEW v \in Workers, TakeJob(v) PROVE G1 /\ G2
  <2>1. ans' = ans
    BY <1>8 DEF TakeJob, callVars
  <2>2. PICK d \in Calls :
           /\ Contains(inbox[v], d) /\ ~Contains(inbox'[v], d)
           /\ proc[v] = "serving" /\ job[v] = None /\ job'[v] = d
           /\ Replied(v, d)' <=> Replied(v, d)
           /\ \A u \in Workers : \A e \in Calls : u # v \/ e # d => Same(u, e)
    BY <1>8, MoveTake
  <2>3. CASE w # v \/ c # d
    BY <1>4, <2>1, <2>2, <2>3
  <2>4. CASE w = v /\ c = d
    <3>1. G1
      BY <1>2, <1>3, <2>2, <2>4
    <3> QED
      BY <1>1, <2>1, <2>2, <2>4, <3>1
  <2> QED
    BY <2>3, <2>4
<1>9. ASSUME NEW v \in Workers, FinishJob(v), appUp PROVE G1 /\ G2
  <2>1. ans' = ans
    BY <1>9 DEF FinishJob, callVars
  <2>2. PICK d \in Calls :
           /\ job[v] = d /\ job'[v] = None /\ Replied(v, d)'
           /\ inbox' = inbox
           /\ \A u \in Workers : \A e \in Calls : u # v \/ e # d => Same(u, e)
    BY <1>9, MoveFinish
  <2>3. CASE w # v \/ c # d
    BY <1>4, <2>1, <2>2, <2>3
  <2>4. CASE w = v /\ c = d
    <3>1. G1
      BY <1>2, <1>3, <2>2, <2>4
    <3> QED
      BY <1>1, <2>2, <2>4, <3>1, NamesDistinct
  <2> QED
    BY <2>3, <2>4
<1>10. ASSUME NEW v \in Workers, Stops(v), ans' = ans PROVE G1 /\ G2
  <2>1. CASE job[v] # c \/ w # v
    BY <1>4, <1>10, <2>1, StopsOnly
  <2>2. CASE job[v] = c /\ w = v
    <3>1. job'[w] # c
      BY <1>10, <2>2, StopsOnly
    <3>2. UNCHANGED <<inbox, outbox, responses>>
      BY <1>10 DEF Stops
    <3>3. G1
      BY <1>2, <1>3, <2>2
    <3> QED
      BY <1>1, <2>2, <3>1, <3>2, <3>3
  <2> QED
    BY <2>1, <2>2
<1> HIDE DEF G2
<1>11. G1 /\ G2
  BY <1>5, <1>6, <1>7, <1>8, <1>9, <1>10, JobSteps
<1> QED
  BY <1>11 DEF G1, G2

\* Nothing has been written when the app starts.
LEMMA RInvInit == Init => RInv
<1> SUFFICES ASSUME Init PROVE RInv
  OBVIOUS
<1>1. IInv
  BY IInvInit
<1>2. \A w \in Workers : Len(inbox[w]) = 0 /\ Len(outbox[w]) = 0 /\ Len(responses[w]) = 0
  BY DEF Init
<1>3. Uncrowded
  BY <1>2 DEF Uncrowded
<1>4. ASSUME NEW w \in Workers, NEW c \in Calls PROVE ~Holds(w, c)
  BY <1>2, NamesDistinct DEF Holds, Replied, Contains, Init
<1>5. Whereabouts
  BY <1>4 DEF Whereabouts, Holds
<1>6. Endings
  BY NoneIsNoResult DEF Endings, Init, Threads, Rets
<1> QED
  BY <1>1, <1>3, <1>5, <1>6 DEF RInv

\* Every step keeps the invariant.
LEMMA RInvStep == RInv /\ [Next]_vars => RInv'
  BY IInvStep, UncrowdedStep, WhereaboutsStep, EndingsStep DEF RInv

\* The job of a call is never with two workers, nor in one of them twice: it
\* waits, runs or is answered, and nothing of it is left once its call has the
\* answer but what the executor is about to throw away.
THEOREM JobsKept == Spec => []RInv
  BY RInvInit, RInvStep, PTL DEF Spec
-----------------------------------------------------------------------------
(* The refinement mapping.                                                 *)

Runs(c) == \E w \in Workers : job[w] = c

Waits(c) == \E w \in Workers : Contains(inbox[w], c)

Answered(c) == ans[c] # None \/ \E w \in Workers : Replied(w, c)

\* CallStatus, a case at a time.
StatusCases ==
    \A c \in Calls :
        /\ Runs(c) => CallStatus(c) = "running"
        /\ ~Runs(c) =>
            /\ pc[c] = "new" => CallStatus(c) = "idle"
            /\ pc[c] = "done" => CallStatus(c) = "returned"
            /\ pc[c] \notin {"new", "done"} =>
                /\ Waits(c) => CallStatus(c) = "pending"
                /\ ~Waits(c) =>
                    /\ Answered(c) => CallStatus(c) = "finished"
                    /\ ~Answered(c) =>
                        /\ pc[c] \in Early \/ ret[c] \in Failing => CallStatus(c) = "pending"
                        /\ pc[c] \notin Early /\ ret[c] \notin Failing => CallStatus(c) = "aborted"

\* CallStatus says the same.
LEMMA StatusOf == StatusCases
<1> SUFFICES ASSUME NEW c \in Calls
             PROVE  /\ Runs(c) => CallStatus(c) = "running"
                    /\ ~Runs(c) =>
                        /\ pc[c] = "new" => CallStatus(c) = "idle"
                        /\ pc[c] = "done" => CallStatus(c) = "returned"
                        /\ pc[c] \notin {"new", "done"} =>
                            /\ Waits(c) => CallStatus(c) = "pending"
                            /\ ~Waits(c) =>
                                /\ Answered(c) => CallStatus(c) = "finished"
                                /\ ~Answered(c) =>
                                    /\ pc[c] \in Early \/ ret[c] \in Failing => CallStatus(c) = "pending"
                                    /\ pc[c] \notin Early /\ ret[c] \notin Failing => CallStatus(c) = "aborted"
  BY DEF StatusCases
<1>1. Runs(c) => CallStatus(c) = "running"
  BY DEF CallStatus, Runs
<1>2. ~Runs(c) /\ pc[c] = "new" => CallStatus(c) = "idle"
  BY DEF CallStatus, Runs
<1>3. ~Runs(c) /\ pc[c] = "done" => CallStatus(c) = "returned"
  BY DEF CallStatus, Runs
<1>4. ~Runs(c) /\ pc[c] \notin {"new", "done"} /\ Waits(c) => CallStatus(c) = "pending"
  BY DEF CallStatus, Runs, Waits
<1>5. ~Runs(c) /\ pc[c] \notin {"new", "done"} /\ ~Waits(c) /\ Answered(c)
        => CallStatus(c) = "finished"
  BY DEF CallStatus, Runs, Waits, Answered, Replied
<1>6. ~Runs(c) /\ pc[c] \notin {"new", "done"} /\ ~Waits(c) /\ ~Answered(c)
        => CallStatus(c) = IF pc[c] \in Early \/ ret[c] \in Failing
                           THEN "pending" ELSE "aborted"
  BY DEF CallStatus, Runs, Waits, Answered, Replied, Early, Failing
<1> QED
  BY <1>1, <1>2, <1>3, <1>4, <1>5, <1>6

\* After a step too.
LEMMA StatusOfNext == StatusCases'
  BY StatusOf, PTL
-----------------------------------------------------------------------------
(* What the service sees of a step.                                        *)

Outcome(c) == IF pc[c] = "done" THEN ret[c] ELSE None

Value(c) == IF pc[c] = "done" THEN ans[c] ELSE None

\* Nothing of c changes that the service sees.
Stays(c) ==
    CallStatus(c)' = CallStatus(c) /\ Outcome(c)' = Outcome(c) /\ Value(c)' = Value(c)

\* Nor of the way it returns, when only its code moves.
Silent(c) == Outcome(c)' = Outcome(c) /\ Value(c)' = Value(c)

\* A call that does not return has no outcome.
LEMMA SilentIf ==
    ASSUME NEW c, pc[c] # "done", pc'[c] # "done"
    PROVE  Silent(c)
  BY DEF Silent, Outcome, Value

\* Where the job of a call is decides what the service sees of it.
LEMMA SameSight ==
    ASSUME NEW c \in Calls, \A w \in Workers : Same(w, c), ans'[c] = ans[c]
    PROVE  (Runs(c)' <=> Runs(c)) /\ (Waits(c)' <=> Waits(c)) /\ (Answered(c)' <=> Answered(c))
  BY DEF Same, Runs, Waits, Answered

\* Before its job is written, a call has none anywhere.
LEMMA NotYet ==
    ASSUME RInv, NEW c \in Calls, pc[c] \notin {"await", "discard", "release", "done"}
    PROVE  /\ ~Runs(c) /\ ~Waits(c) /\ ~Answered(c) /\ ret[c] = None /\ ans[c] = None
           /\ \A w \in Workers : ~Holds(w, c)
<1>1. \A w \in Workers : ~Holds(w, c)
  BY DEF RInv, Whereabouts
<1>2. ret[c] = None /\ ans[c] = None
  BY NoneIsNoResult DEF RInv, Endings, Rets
<1> QED
  BY <1>1, <1>2 DEF Runs, Waits, Answered, Holds

\* A job waits or runs or is answered, and only in the worker of its call.
LEMMA OneForm ==
    ASSUME RInv, NEW c \in Calls
    PROVE  /\ Runs(c) => ~Waits(c) /\ ~Answered(c)
           /\ Waits(c) => ~Runs(c) /\ ~Answered(c)
           /\ Runs(c) \/ Waits(c) => ret[c] \notin Failing /\ ans[c] = None
           /\ Runs(c) \/ Waits(c) => pc[c] \in {"await", "discard", "release", "done"}
<1>1. \A v, w \in Workers : Holds(v, c) /\ Holds(w, c) => v = w
  BY DEF RInv, Whereabouts
<1>2. \A w \in Workers : job[w] = c \/ Contains(inbox[w], c) =>
          /\ Holds(w, c) /\ ~Replied(w, c) /\ ans[c] = None
          /\ ~(job[w] = c /\ Contains(inbox[w], c))
          /\ ret[c] \notin Failing
          /\ pc[c] \in {"await", "discard", "release", "done"}
  <2> SUFFICES ASSUME NEW w \in Workers, job[w] = c \/ Contains(inbox[w], c)
               PROVE  /\ Holds(w, c) /\ ~Replied(w, c) /\ ans[c] = None
                      /\ ~(job[w] = c /\ Contains(inbox[w], c))
                      /\ ret[c] \notin Failing
                      /\ pc[c] \in {"await", "discard", "release", "done"}
    OBVIOUS
  <2>1. Holds(w, c)
    BY DEF Holds
  <2>2. ret[c] \in {None, "timeout", "eof", "answer"}
    BY <2>1 DEF RInv, Whereabouts
  <2>3. ret[c] \notin Failing
    BY <2>2, NoneIsNoResult DEF Failing, Rets
  <2> QED
    BY <2>1, <2>3 DEF RInv, Whereabouts
<1>3. \A w \in Workers : Replied(w, c) => Holds(w, c)
  BY DEF Holds
<1> QED
  BY <1>1, <1>2, <1>3 DEF Runs, Waits, Answered

\* What the service sees is all in where the job is and how the call ends.
LEMMA SameStatus ==
    ASSUME NEW c \in Calls,
           Runs(c)' <=> Runs(c), Waits(c)' <=> Waits(c), Answered(c)' <=> Answered(c),
           pc'[c] = "new" <=> pc[c] = "new", pc'[c] = "done" <=> pc[c] = "done",
           pc'[c] \in Early \/ ret'[c] \in Failing <=> pc[c] \in Early \/ ret[c] \in Failing
    PROVE  CallStatus(c)' = CallStatus(c)
  BY StatusOf, StatusOfNext DEF StatusCases

\* The service sees nothing of a call whose job does not move and that neither
\* enters, nor returns, nor writes its job, nor reads its answer.
LEMMA StaysIfSame ==
    ASSUME RInv, [Next]_vars, NEW c \in Calls, \A w \in Workers : Same(w, c),
           ~Reject(c), ~Admit(c), ~Release(c), ~WriteOk(c), ~AwaitAnswer(c)
    PROVE  Stays(c)
<1>1. IInv
  BY DEF RInv
<1>2. CASE Unmoved(c)
  <2>1. /\ Runs(c)' <=> Runs(c)
        /\ Waits(c)' <=> Waits(c)
        /\ Answered(c)' <=> Answered(c)
    BY <1>2, SameSight DEF Unmoved
  <2>2. CallStatus(c)' = CallStatus(c)
    BY <1>2, <2>1, SameStatus DEF Unmoved
  <2> QED
    BY <1>2, <2>2 DEF Stays, Unmoved, Outcome, Value
<1>3. CASE /\ pc[c] \in Early /\ ans'[c] = ans[c]
           /\ \/ pc'[c] \in Early /\ ret'[c] = ret[c]
              \/ pc'[c] = "discard" /\ ret'[c] = "lost"
              \/ pc'[c] = "release" /\ ret'[c] \in {"nostart", "raised"}
  <2>1. /\ Runs(c)' <=> Runs(c)
        /\ Waits(c)' <=> Waits(c)
        /\ Answered(c)' <=> Answered(c)
    BY <1>3, SameSight
  <2>2. /\ pc[c] # "new" /\ pc[c] # "done" /\ pc'[c] # "new" /\ pc'[c] # "done"
        /\ pc[c] \in Early /\ (pc'[c] \in Early \/ ret'[c] \in Failing)
    BY <1>3 DEF Early, Failing
  <2>3. CallStatus(c)' = CallStatus(c)
    BY <2>1, <2>2, SameStatus
  <2> QED
    BY <2>2, <2>3, SilentIf DEF Stays, Silent
<1>4. CASE /\ ans'[c] = ans[c]
           /\ \/ pc[c] = "await" /\ pc'[c] = "discard" /\ ret'[c] \in {"eof", "timeout"}
              \/ pc[c] = "discard" /\ pc'[c] = "release" /\ ret'[c] = ret[c]
  <2>1. /\ Runs(c)' <=> Runs(c)
        /\ Waits(c)' <=> Waits(c)
        /\ Answered(c)' <=> Answered(c)
    BY <1>4, SameSight
  <2>2. /\ pc[c] # "new" /\ pc[c] # "done" /\ pc'[c] # "new" /\ pc'[c] # "done"
        /\ pc[c] \notin Early /\ pc'[c] \notin Early
    BY <1>4 DEF Early
  <2>3. pc[c] = "await" => ret[c] = None /\ ret[c] \notin Failing
    BY NoneIsNoResult DEF RInv, Endings, Failing, Rets
  <2>4. ret'[c] \in Failing <=> ret[c] \in Failing
    BY <1>4, <2>3 DEF Failing
  <2>5. CallStatus(c)' = CallStatus(c)
    BY <2>1, <2>2, <2>4, SameStatus
  <2> QED
    BY <2>2, <2>5, SilentIf DEF Stays, Silent
<1> QED
  BY <1>1, <1>2, <1>3, <1>4, OwnSteps, Effects

\* The step that lets a call in, returns it, writes its job or reads its answer
\* is seen of no other call.
LEMMA OthersStay ==
    ASSUME RInv, [Next]_vars, NEW c \in Calls, NEW d \in Calls, d # c,
           Reject(c) \/ Admit(c) \/ Release(c) \/ WriteOk(c) \/ AwaitAnswer(c)
    PROVE  Stays(d)
<1>1. IInv
  BY DEF RInv
<1>2. \A w \in Workers : Same(w, d)
  <2>1. CASE Reject(c) \/ Admit(c) \/ Release(c)
    BY <2>1, QuietIfUnchanged DEF Reject, Admit, Release, procVars, pipeVars, Quiet
  <2>2. CASE WriteOk(c) \/ AwaitAnswer(c)
    BY <1>1, <2>2, MoveWrite, MoveAnswer
  <2> QED
    BY <2>1, <2>2
<1>3. ~Reject(d) /\ ~Admit(d) /\ ~Release(d) /\ ~WriteOk(d) /\ ~AwaitAnswer(d)
  BY <1>1 DEF Reject, Admit, Release, WriteOk, AwaitAnswer, Goto, IInv, TypeOK, Threads
<1> QED
  BY <1>2, <1>3, StaysIfSame
-----------------------------------------------------------------------------
(* The steps the service sees, each as the one it takes it for.            *)

\* A rejected call returns at once, without a value.
LEMMA RefuseSeen ==
    ASSUME RInv, NEW c \in Calls, Reject(c)
    PROVE  /\ CallStatus(c) = "idle" /\ CallStatus(c)' = "returned"
           /\ Outcome(c)' = "rejected" /\ Value(c)' = Value(c)
<1>1. /\ pc[c] = "new" /\ pc'[c] = "done" /\ ret'[c] = "rejected" /\ ans'[c] = ans[c]
      /\ Quiet
  BY QuietIfUnchanged
     DEF Reject, Goto, Returning, RInv, IInv, TypeOK, Threads, procVars, pipeVars
<1>2. ~Runs(c) /\ ans[c] = None
  BY <1>1, NotYet
<1>3. ~Runs(c)'
  BY <1>1, <1>2, SameSight DEF Quiet
<1>4. CallStatus(c) = "idle"
  BY <1>1, <1>2, StatusOf DEF StatusCases
<1>5. CallStatus(c)' = "returned"
  BY <1>1, <1>3, StatusOfNext DEF StatusCases
<1> QED
  BY <1>1, <1>2, <1>4, <1>5 DEF Outcome, Value

\* An admitted call is pending.
LEMMA SubmitSeen ==
    ASSUME RInv, NEW c \in Calls, Admit(c)
    PROVE  CallStatus(c) = "idle" /\ CallStatus(c)' = "pending" /\ Silent(c)
<1>1. pc[c] = "new" /\ pc'[c] = "lock" /\ ans'[c] = ans[c] /\ Quiet
  BY QuietIfUnchanged DEF Admit, Goto, RInv, IInv, TypeOK, Threads, procVars, pipeVars
<1>2. ~Runs(c) /\ ~Waits(c) /\ ~Answered(c)
  BY <1>1, NotYet
<1>3. ~Runs(c)' /\ ~Waits(c)' /\ ~Answered(c)'
  BY <1>1, <1>2, SameSight DEF Quiet
<1>4. CallStatus(c) = "idle"
  BY <1>1, <1>2, StatusOf DEF StatusCases
<1>5. CallStatus(c)' = "pending"
  <2>1. pc'[c] \in Early /\ pc'[c] # "new" /\ pc'[c] # "done"
    BY <1>1 DEF Early
  <2> QED
    BY <1>3, <2>1, StatusOfNext DEF StatusCases
<1>6. Silent(c)
  BY <1>1, SilentIf
<1> QED
  BY <1>4, <1>5, <1>6

\* A call that writes its job stays pending.
LEMMA WriteUnseen ==
    ASSUME RInv, NEW c \in Calls, WriteOk(c)
    PROVE  Stays(c)
<1>1. IInv /\ pc[c] = "write" /\ pc'[c] = "await"
  BY DEF WriteOk, Goto, RInv, IInv, TypeOK, Threads
<1>2. ~Runs(c) /\ ~Waits(c) /\ ~Answered(c)
  BY <1>1, NotYet
<1>3. ~Runs(c)' /\ Waits(c)'
  BY <1>1, <1>2, MoveWrite DEF Runs, Waits
<1>4. CallStatus(c) = "pending"
  <2>1. pc[c] \in Early /\ pc[c] # "new" /\ pc[c] # "done"
    BY <1>1 DEF Early
  <2> QED
    BY <1>2, <2>1, StatusOf DEF StatusCases
<1>5. CallStatus(c)' = "pending"
  BY <1>1, <1>3, StatusOfNext DEF StatusCases
<1>6. Silent(c)
  BY <1>1, SilentIf
<1> QED
  BY <1>4, <1>5, <1>6 DEF Stays, Silent

\* A call that reads its answer had finished when the reply was written.
LEMMA AnswerUnseen ==
    ASSUME RInv, NEW c \in Calls, AwaitAnswer(c)
    PROVE  Stays(c)
<1>1. IInv /\ pc[c] = "await" /\ pc'[c] = "release"
  BY DEF AwaitAnswer, Goto, RInv, IInv, TypeOK, Threads
<1>2. /\ worker \in Workers /\ Replied(worker, c) /\ job' = job /\ inbox' = inbox
      /\ ans' = [ans EXCEPT ![c] = c] /\ ans \in [Calls -> Calls \cup {None}]
  BY <1>1, MoveAnswer DEF IInv, TypeOK
<1>3. Answered(c) /\ ~Runs(c) /\ ~Waits(c)
  <2>1. Answered(c)
    BY <1>2 DEF Answered
  <2> QED
    BY <2>1, OneForm
<1>4. Answered(c)' /\ ~Runs(c)' /\ ~Waits(c)'
  BY <1>2, <1>3, NamesDistinct DEF Answered, Runs, Waits
<1>5. CallStatus(c) = "finished"
  BY <1>1, <1>3, StatusOf DEF StatusCases
<1>6. CallStatus(c)' = "finished"
  BY <1>1, <1>4, StatusOfNext DEF StatusCases
<1>7. Silent(c)
  BY <1>1, SilentIf
<1> QED
  BY <1>5, <1>6, <1>7 DEF Stays, Silent

\* A call returns its own answer, or an error once its code no longer runs.
LEMMA ReturnSeen ==
    ASSUME RInv, NEW c \in Calls, Release(c)
    PROVE  /\ CallStatus(c)' = "returned" /\ Value(c) = None /\ Outcome(c) = None
           /\ \/ /\ CallStatus(c) = "finished"
                 /\ Outcome(c)' = "answer" /\ Value(c)' = c
              \/ /\ CallStatus(c) \in {"pending", "finished", "aborted"}
                 /\ Outcome(c)' \in Service!Failures /\ Value(c)' = None
<1>1. /\ IInv /\ pc[c] = "release" /\ pc'[c] = "done"
      /\ ret'[c] = ret[c] /\ ans'[c] = ans[c] /\ Quiet
  BY QuietIfUnchanged
     DEF Release, Goto, RInv, IInv, TypeOK, Threads, procVars, pipeVars
<1>2. ~Runs(c)
  BY <1>1, Running DEF Runs
<1>3. ~Runs(c)'
  BY <1>1, <1>2, SameSight DEF Quiet
<1>4. CallStatus(c)' = "returned"
  BY <1>1, <1>3, StatusOfNext DEF StatusCases
<1>5. Outcome(c) = None /\ Value(c) = None /\ Outcome(c)' = ret[c] /\ Value(c)' = ans[c]
  BY <1>1 DEF Outcome, Value
<1>6. CASE ret[c] = "answer"
  <2>1. ans[c] # None /\ ans[c] \in {c, None}
    BY <1>1, <1>6 DEF RInv, Endings, IInv, OwnAnswer
  <2>2. Answered(c)
    BY <2>1 DEF Answered
  <2>3. ~Waits(c)
    BY <2>2, OneForm
  <2>4. CallStatus(c) = "finished"
    BY <1>1, <1>2, <2>2, <2>3, StatusOf DEF StatusCases
  <2> QED
    BY <1>4, <1>5, <1>6, <2>1, <2>4
<1>7. CASE ret[c] # "answer"
  <2>1. ans[c] = None /\ ret[c] \in Service!Failures
    BY <1>1, <1>7 DEF RInv, Endings, IInv, TypeOK, Rets, Service!Failures
  <2>2. CallStatus(c) \in {"pending", "finished", "aborted"}
    BY <1>1, <1>2, StatusOf DEF StatusCases
  <2> QED
    BY <1>4, <1>5, <2>1, <2>2
<1> QED
  BY <1>6, <1>7

\* A call whose code stops without a reply, while it stays where it is or gives
\* up on it, is aborted.
LEMMA AbortSeen ==
    ASSUME RInv, [Next]_vars, NEW w \in Workers, NEW c \in Calls, job[w] = c,
           Stops(w), ans' = ans, ~Release(c)
    PROVE  CallStatus(c) = "running" /\ CallStatus(c)' = "aborted" /\ Silent(c)
<1>1. IInv /\ Runs(c) /\ ~Waits(c) /\ ~Answered(c) /\ pc[c] \in {"await", "discard"}
  <2>1. IInv /\ Runs(c)
    BY DEF RInv, Runs
  <2> QED
    BY <2>1, Running, OneForm
<1>2. ~Runs(c)' /\ ~Waits(c)' /\ ~Answered(c)'
  <2>1. ~Runs(c)'
    BY <1>1, StopsOnly DEF Runs
  <2>2. UNCHANGED <<inbox, outbox, responses, ans>>
    BY DEF Stops
  <2> QED
    BY <1>1, <2>1, <2>2 DEF Waits, Answered, Replied
<1>3. ret[c] \in {None, "timeout", "eof", "answer"}
  BY DEF RInv, Whereabouts, Holds
<1>4. pc'[c] \in {"await", "discard", "release"}
      /\ ret'[c] \in {None, "timeout", "eof", "answer"}
  <2>1. /\ pc'[c] \in {"await", "discard", "release", "done"}
        /\ ret'[c] \in {None, "timeout", "eof", "answer"}
    BY <1>1, <1>3, LateStays
  <2>2. pc'[c] # "done"
    BY <1>1, OwnSteps, Effects DEF Unmoved, Early, Reject, Admit, WriteOk, AwaitAnswer, Goto,
          RInv, IInv, TypeOK, Threads
  <2> QED
    BY <2>1, <2>2
<1>5. pc'[c] \notin Early /\ ret'[c] \notin Failing
  BY <1>4, NoneIsNoResult DEF Early, Failing, Rets
<1>6. CallStatus(c) = "running"
  BY <1>1, StatusOf DEF StatusCases
<1>7. CallStatus(c)' = "aborted"
  BY <1>2, <1>4, <1>5, StatusOfNext DEF StatusCases
<1>8. Silent(c)
  BY <1>1, <1>4, SilentIf
<1> QED
  BY <1>6, <1>7, <1>8

\* A worker takes a job: no other code runs, and this one was pending.
LEMMA StartSeen ==
    ASSUME RInv, [Next]_vars, NEW w \in Workers, TakeJob(w)
    PROVE  \E c \in Calls :
               /\ CallStatus(c) = "pending" /\ CallStatus(c)' = "running" /\ Silent(c)
               /\ \A d \in Calls : CallStatus(d) # "running"
               /\ \A d \in Calls : d # c => Stays(d)
<1>1. /\ IInv /\ Uncrowded /\ pc' = pc /\ at' = at /\ ret' = ret /\ ans' = ans
      /\ proc[w] = "serving" /\ job[w] = None /\ inbox[w] # <<>> /\ Head(inbox[w]) \in Calls
  BY DEF TakeJob, callVars, RInv
<1>2. PICK c \in Calls :
           /\ Contains(inbox[w], c) /\ ~Contains(inbox'[w], c)
           /\ proc[w] = "serving" /\ job[w] = None /\ job'[w] = c
           /\ Replied(w, c)' <=> Replied(w, c)
           /\ \A v \in Workers : \A d \in Calls : v # w \/ d # c => Same(v, d)
  BY <1>1, MoveTake
<1>3. w = worker
  <2>1. Polls(w) /\ Len(inbox[w]) # 0
    BY <1>1, EmptySeq DEF Polls, IInv, TypeOK
  <2> QED
    BY <1>1, <2>1 DEF IInv, Processes, Booting
<1>4. ASSUME NEW v \in Workers, NEW d \in Calls PROVE job[v] # d
  <2>1. job[v] = d => v = worker
    BY <1>1, Running
  <2> QED
    BY <1>1, <1>3, <2>1, NamesDistinct
<1>5. \A d \in Calls : ~Runs(d)
  BY <1>4 DEF Runs
<1>6. \A d \in Calls : CallStatus(d) # "running"
  BY <1>5, StatusOf DEF StatusCases
<1>7. pc[c] \in {"await", "discard"}
  <2>1. PICK t \in Threads : pc[t] \in {"await", "discard", "stopwait"}
    <3>1. Live(worker) /\ Len(inbox[worker]) # 0 /\ worker # None
      BY <1>1, <1>3, EmptySeq, NamesDistinct DEF Live, IInv, TypeOK
    <3> QED
      BY <1>1, <3>1 DEF IInv, Idle
  <2>2. c \in {t, "stop"}
    <3>1. Live(worker)
      BY <1>1, <1>3 DEF Live
    <3>2. \A i \in 1..Len(inbox[worker]) : inbox[worker][i] \in {t, "stop"}
      BY <1>1, <2>1, <3>1 DEF IInv, Owner
    <3> QED
      BY <1>2, <1>3, <3>2 DEF Contains
  <2>3. c = t
    BY <2>2, NamesDistinct
  <2> QED
    BY <1>1, <2>1, <2>3 DEF IInv, Roles
<1>8. CallStatus(c) = "pending"
  <2>1. Waits(c)
    BY <1>2 DEF Waits
  <2> QED
    BY <1>5, <1>7, <2>1, StatusOf DEF StatusCases
<1>9. CallStatus(c)' = "running"
  <2>1. Runs(c)'
    BY <1>2 DEF Runs
  <2> QED
    BY <2>1, StatusOfNext DEF StatusCases
<1>10. Silent(c)
  BY <1>1, <1>7, SilentIf
<1>11. ASSUME NEW d \in Calls, d # c PROVE Stays(d)
  <2>1. ~Reject(d) /\ ~Admit(d) /\ ~Release(d) /\ ~WriteOk(d) /\ ~AwaitAnswer(d)
    BY <1>1 DEF Reject, Admit, Release, WriteOk, AwaitAnswer, Goto, IInv, TypeOK, Threads
  <2> QED
    BY <1>2, <1>11, <2>1, StaysIfSame
<1> QED
  BY <1>6, <1>8, <1>9, <1>10, <1>11

\* A job that ran to its end has finished.
LEMMA FinishSeen ==
    ASSUME RInv, [Next]_vars, NEW w \in Workers, FinishJob(w), appUp
    PROVE  \E c \in Calls :
               /\ CallStatus(c) = "running" /\ CallStatus(c)' = "finished" /\ Silent(c)
               /\ \A d \in Calls : d # c => Stays(d)
<1>1. IInv /\ pc' = pc /\ at' = at /\ ret' = ret /\ ans' = ans
  BY DEF FinishJob, callVars, RInv
<1>2. PICK c \in Calls :
           /\ job[w] = c /\ job'[w] = None /\ Replied(w, c)'
           /\ inbox' = inbox
           /\ \A v \in Workers : \A d \in Calls : v # w \/ d # c => Same(v, d)
  BY <1>1, MoveFinish
<1>3. Runs(c) /\ ~Waits(c) /\ pc[c] \in {"await", "discard"}
  <2>1. Runs(c)
    BY <1>2 DEF Runs
  <2> QED
    BY <1>1, <1>2, <2>1, Running, OneForm
<1>4. ~Runs(c)' /\ ~Waits(c)' /\ Answered(c)'
  <2>1. \A v \in Workers : v # w => job'[v] # c
    <3>1. \A v \in Workers : v # w => job[v] # c
      BY <1>1, <1>2, Running
    <3> QED
      BY <1>2, <3>1 DEF Same
  <2>2. ~Runs(c)'
    BY <1>2, <2>1, NamesDistinct DEF Runs
  <2> QED
    BY <1>2, <1>3, <2>2 DEF Waits, Answered
<1>5. CallStatus(c) = "running"
  BY <1>3, StatusOf DEF StatusCases
<1>6. CallStatus(c)' = "finished"
  BY <1>1, <1>3, <1>4, StatusOfNext DEF StatusCases
<1>7. Silent(c)
  BY <1>1, <1>3, SilentIf
<1>8. ASSUME NEW d \in Calls, d # c PROVE Stays(d)
  <2>1. ~Reject(d) /\ ~Admit(d) /\ ~Release(d) /\ ~WriteOk(d) /\ ~AwaitAnswer(d)
    BY <1>1 DEF Reject, Admit, Release, WriteOk, AwaitAnswer, Goto, IInv, TypeOK, Threads
  <2> QED
    BY <1>2, <1>8, <2>1, StaysIfSame
<1> QED
  BY <1>5, <1>6, <1>7, <1>8
-----------------------------------------------------------------------------
(* The refinement.                                                         *)

\* Every step of the executor is seen as a step of the service, or as none.
LEMMA Seen ==
    ASSUME RInv, [Next]_vars
    PROVE  \/ \A d \in Calls : Stays(d)
           \/ \E c \in Calls :
                /\ \A d \in Calls : d # c => Stays(d)
                /\ \/ /\ CallStatus(c) = "idle" /\ CallStatus(c)' = "pending" /\ Silent(c)
                   \/ /\ CallStatus(c) = "pending" /\ CallStatus(c)' = "running" /\ Silent(c)
                      /\ \A d \in Calls : CallStatus(d) # "running"
                   \/ /\ CallStatus(c) = "running" /\ Silent(c)
                      /\ CallStatus(c)' \in {"finished", "aborted"}
                   \/ /\ CallStatus(c) = "idle" /\ CallStatus(c)' = "returned"
                      /\ Outcome(c)' = "rejected" /\ Value(c)' = Value(c)
                   \/ /\ CallStatus(c) = "finished" /\ CallStatus(c)' = "returned"
                      /\ Outcome(c)' = "answer" /\ Value(c)' = c
                   \/ /\ CallStatus(c) \in {"pending", "finished", "aborted"}
                      /\ CallStatus(c)' = "returned"
                      /\ Outcome(c)' \in Service!Failures /\ Value(c)' = Value(c)
<1> DEFINE Entry(c) == Reject(c) \/ Admit(c) \/ Release(c) \/ WriteOk(c) \/ AwaitAnswer(c)
<1>1. IInv
  BY DEF RInv
<1>2. CASE \E c \in Calls : Entry(c)
  <2>1. PICK c \in Calls : Entry(c)
    BY <1>2
  <2>2. \A d \in Calls : d # c => Stays(d)
    BY <2>1, OthersStay
  <2>3. CASE Reject(c)
    BY <2>2, <2>3, RefuseSeen
  <2>4. CASE Admit(c)
    BY <2>2, <2>4, SubmitSeen
  <2>5. CASE Release(c)
    BY <2>2, <2>5, ReturnSeen
  <2>6. CASE WriteOk(c) \/ AwaitAnswer(c)
    <3>1. Stays(c)
      BY <2>6, WriteUnseen, AnswerUnseen
    <3> QED
      BY <2>2, <3>1
  <2> QED
    BY <2>1, <2>3, <2>4, <2>5, <2>6
<1>3. CASE ~\E c \in Calls : Entry(c)
  <2>1. ASSUME NEW d \in Calls, \A w \in Workers : Same(w, d) PROVE Stays(d)
    BY <1>3, <2>1, StaysIfSame
  <2>2. CASE Quiet
    BY <2>1, <2>2 DEF Quiet
  <2>3. ASSUME NEW w \in Workers, TakeJob(w)
        PROVE  \E c \in Calls :
                 /\ CallStatus(c) = "pending" /\ CallStatus(c)' = "running" /\ Silent(c)
                 /\ \A d \in Calls : CallStatus(d) # "running"
                 /\ \A d \in Calls : d # c => Stays(d)
    BY <2>3, StartSeen
  <2>4. ASSUME NEW w \in Workers, FinishJob(w), appUp
        PROVE  \E c \in Calls :
                 /\ CallStatus(c) = "running" /\ CallStatus(c)' = "finished" /\ Silent(c)
                 /\ \A d \in Calls : d # c => Stays(d)
    BY <2>4, FinishSeen
  <2>5. ASSUME NEW w \in Workers, Stops(w), ans' = ans
        PROVE  \/ \A d \in Calls : Stays(d)
               \/ \E c \in Calls :
                    /\ CallStatus(c) = "running" /\ CallStatus(c)' = "aborted" /\ Silent(c)
                    /\ \A d \in Calls : d # c => Stays(d)
    <3>1. \A d \in Calls : job[w] # d => Stays(d)
      BY <1>1, <2>1, <2>5, StopsOnly
    <3>2. ASSUME NEW c \in Calls, job[w] = c
          PROVE  CallStatus(c) = "running" /\ CallStatus(c)' = "aborted" /\ Silent(c)
      BY <1>3, <2>5, <3>2, AbortSeen
    <3> QED
      BY <3>1, <3>2
  <2>6. \/ Quiet
        \/ \E w \in Workers : TakeJob(w)
        \/ \E w \in Workers : FinishJob(w) /\ appUp
        \/ \E w \in Workers : Stops(w) /\ ans' = ans
    BY <1>1, <1>3, JobSteps
  <2> QED
    BY <2>2, <2>3, <2>4, <2>5, <2>6
<1> QED
  BY <1>2, <1>3

\* The mapping, under names.
Status == [c \in Calls |-> CallStatus(c)]

Outcomes == [c \in Calls |-> Outcome(c)]

Values == [c \in Calls |-> Value(c)]

\* What is seen of one call and not of the others is an update of the mapping.
LEMMA Mapped ==
    ASSUME NEW c \in Calls, \A d \in Calls : d # c => Stays(d)
    PROVE  /\ Status' = [Status EXCEPT ![c] = CallStatus(c)']
           /\ Outcomes' = [Outcomes EXCEPT ![c] = Outcome(c)']
           /\ Values' = [Values EXCEPT ![c] = Value(c)']
  BY DEF Stays, Status, Outcomes, Values

\* What the service's own actions say of the mapping.
LEMMA ServiceSteps ==
    ASSUME NEW c \in Calls
    PROVE  /\ /\ Status[c] = "idle" /\ Status' = [Status EXCEPT ![c] = "pending"]
              /\ UNCHANGED <<Outcomes, Values>>
              => Service!Submit(c)
           /\ /\ Status[c] = "pending" /\ Status' = [Status EXCEPT ![c] = "running"]
              /\ \A d \in Calls : Status[d] # "running"
              /\ UNCHANGED <<Outcomes, Values>>
              => Service!Start(c)
           /\ /\ Status[c] = "running" /\ UNCHANGED <<Outcomes, Values>>
              /\ \/ Status' = [Status EXCEPT ![c] = "finished"]
                 \/ Status' = [Status EXCEPT ![c] = "aborted"]
              => Service!Finish(c) \/ Service!Abort(c)
           /\ /\ Status[c] = "idle" /\ Status' = [Status EXCEPT ![c] = "returned"]
              /\ Outcomes' = [Outcomes EXCEPT ![c] = "rejected"] /\ UNCHANGED Values
              => Service!Refuse(c)
           /\ /\ Status[c] = "finished" /\ Status' = [Status EXCEPT ![c] = "returned"]
              /\ Outcomes' = [Outcomes EXCEPT ![c] = "answer"]
              /\ Values' = [Values EXCEPT ![c] = c]
              => Service!Answer(c)
           /\ /\ Status[c] \in {"pending", "finished", "aborted"}
              /\ Status' = [Status EXCEPT ![c] = "returned"]
              /\ \E o \in Service!Failures : Outcomes' = [Outcomes EXCEPT ![c] = o]
              /\ UNCHANGED Values
              => Service!Fail(c)
  BY DEF Status, Outcomes, Values, Outcome, Value, Service!Move, Service!Submit,
         Service!Start, Service!Finish, Service!Abort, Service!Refuse, Service!Answer,
         Service!Fail
\* A step of the executor is a step of the service, or leaves it alone.
LEMMA RefinementStep ==
    RInv /\ [Next]_vars => [Service!ServiceNext]_(Service!serviceVars)
<1> SUFFICES ASSUME RInv, [Next]_vars
             PROVE  (\E c \in Calls :
                        \/ Service!Submit(c) \/ Service!Start(c) \/ Service!Finish(c)
                        \/ Service!Abort(c) \/ Service!Refuse(c) \/ Service!Answer(c)
                        \/ Service!Fail(c))
                    \/ UNCHANGED <<Status, Outcomes, Values>>
  BY DEF Service!ServiceNext, Service!serviceVars, Status, Outcomes, Values, Outcome, Value
<1>1. CASE \A d \in Calls : Stays(d)
  BY <1>1 DEF Stays, Status, Outcomes, Values
<1>2. ASSUME NEW c \in Calls, \A d \in Calls : d # c => Stays(d)
      PROVE  /\ Status[c] = CallStatus(c)
             /\ Status' = [Status EXCEPT ![c] = CallStatus(c)']
             /\ Outcomes' = [Outcomes EXCEPT ![c] = Outcome(c)']
             /\ Values' = [Values EXCEPT ![c] = Value(c)']
             /\ Silent(c) => UNCHANGED <<Outcomes, Values>>
             /\ Value(c)' = Value(c) => UNCHANGED Values
  <2>1. /\ Status' = [Status EXCEPT ![c] = CallStatus(c)']
        /\ Outcomes' = [Outcomes EXCEPT ![c] = Outcome(c)']
        /\ Values' = [Values EXCEPT ![c] = Value(c)']
    BY <1>2, Mapped
  <2>2. /\ Status[c] = CallStatus(c)
        /\ Outcome(c)' = Outcome(c) => Outcomes' = Outcomes
        /\ Value(c)' = Value(c) => Values' = Values
    BY <2>1 DEF Status, Outcomes, Values
  <2> QED
    BY <2>1, <2>2 DEF Silent
<1>3. ASSUME NEW c \in Calls, \A d \in Calls : d # c => Stays(d)
      PROVE  \A d \in Calls : Status[d] = CallStatus(d)
  BY DEF Status
<1>4. ASSUME NEW c \in Calls, \A d \in Calls : d # c => Stays(d),
             CallStatus(c) = "idle", CallStatus(c)' = "pending", Silent(c)
      PROVE  Service!Submit(c)
  BY <1>2, <1>4, ServiceSteps
<1>5. ASSUME NEW c \in Calls, \A d \in Calls : d # c => Stays(d),
             CallStatus(c) = "pending", CallStatus(c)' = "running", Silent(c),
             \A d \in Calls : CallStatus(d) # "running"
      PROVE  Service!Start(c)
  BY <1>2, <1>3, <1>5, ServiceSteps
<1>6. ASSUME NEW c \in Calls, \A d \in Calls : d # c => Stays(d),
             CallStatus(c) = "running", Silent(c),
             CallStatus(c)' \in {"finished", "aborted"}
      PROVE  Service!Finish(c) \/ Service!Abort(c)
  BY <1>2, <1>6, ServiceSteps
<1>7. ASSUME NEW c \in Calls, \A d \in Calls : d # c => Stays(d),
             CallStatus(c) = "idle", CallStatus(c)' = "returned",
             Outcome(c)' = "rejected", Value(c)' = Value(c)
      PROVE  Service!Refuse(c)
  BY <1>2, <1>7, ServiceSteps
<1>8. ASSUME NEW c \in Calls, \A d \in Calls : d # c => Stays(d),
             CallStatus(c) = "finished", CallStatus(c)' = "returned",
             Outcome(c)' = "answer", Value(c)' = c
      PROVE  Service!Answer(c)
  BY <1>2, <1>8, ServiceSteps
<1>9. ASSUME NEW c \in Calls, \A d \in Calls : d # c => Stays(d),
             CallStatus(c) \in {"pending", "finished", "aborted"},
             CallStatus(c)' = "returned",
             Outcome(c)' \in Service!Failures, Value(c)' = Value(c)
      PROVE  Service!Fail(c)
  BY <1>2, <1>9, ServiceSteps
<1> QED
  BY <1>1, <1>4, <1>5, <1>6, <1>7, <1>8, <1>9, Seen

\* At the start no call has been made of the service either.
LEMMA RefinementInit == Init => Service!ServiceInit
<1> SUFFICES ASSUME Init PROVE Service!ServiceInit
  OBVIOUS
<1>1. RInv /\ \A c \in Calls : pc[c] = "new"
  BY RInvInit DEF Init, Threads
<1>2. \A c \in Calls : CallStatus(c) = "idle"
  BY <1>1, NotYet, StatusOf DEF StatusCases
<1> QED
  BY <1>1, <1>2 DEF Service!ServiceInit

\* The executor, its reader threads, its pipes and its workers, crashes, timeouts
\* and the end of the app included, behave as the service does: code runs at
\* most once and never beside other code, has stopped when its call returns,
\* and is the only source of the value returned.
THEOREM Implementation == Spec => ImplementsService
  BY RefinementInit, RefinementStep, JobsKept, PTL
     DEF Spec, ImplementsService, Service!ServiceSpec
=============================================================================
