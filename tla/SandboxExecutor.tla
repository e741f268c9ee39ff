--------------------------- MODULE SandboxExecutor ---------------------------
(***************************************************************************)
(* The parent side of the sandbox (src/src/sandbox/executor.py) together   *)
(* with the main loop of the worker process it drives                      *)
(* (src/src/sandbox/worker.py) and the pipes between them.                 *)
(*                                                                         *)
(* Threads of the app call execute() and shutdown() on one process-wide    *)
(* executor.  A lock serialises them around one warm worker process.  Jobs *)
(* travel through the worker's stdin pipe, replies through its stdout      *)
(* pipe; a reader thread per worker moves replies onto a queue so that the *)
(* calling thread can time-box its wait.  The worker may die at any time.  *)
(***************************************************************************)
EXTENDS Naturals, Sequences, FiniteSets

CONSTANTS
    Calls,      \* calls of execute(), each made once
    Closers,    \* calls of shutdown(), each made once
    Workers,    \* worker processes that can be spawned, each used once
    None,       \* Python's None
    Inputs      \* what the code of the calls may do: functions to Kinds

ASSUME NamesDistinct ==
    /\ None \notin Calls \cup Closers \cup Workers
    /\ Calls \cap Closers = {}
    /\ {"ready", "stop", "eof", "lost"} \cap (Calls \cup {None}) = {}

VARIABLES
    appUp,      \* the parent process is alive
    lock,       \* SandboxExecutor._lock: the thread holding it
    worker,     \* SandboxExecutor._worker
    kind,       \* what the code of each call does (an input)
    pc,         \* where each thread is
    at,         \* the local `worker` of each thread
    ret,        \* the ExecutionResult a call is about to return
    ans,        \* the call whose code computed the reply a call returns
    proc,       \* life of each worker process
    job,        \* the job a worker is executing
    inbox,      \* stdin pipe of a worker: jobs not yet read
    outbox,     \* stdout pipe of a worker: frames not yet read
    responses,  \* _Worker.responses
    pump,       \* _Worker.reader, the thread running _pump
    helpers     \* processes the worker's code spawned are alive

callVars == <<kind, pc, at, ret, ans>>
pipeVars == <<inbox, outbox, responses, pump>>
procVars == <<proc, job, helpers>>
vars == <<appUp, lock, worker, callVars, procVars, pipeVars>>

Threads == Calls \cup Closers

(* What generated code, or the frame that carries it, can do:               *)
(*   unsafe     validate_code raises                                        *)
(*   halts      run(df) returns or raises, so that the worker replies       *)
(*   loops      run(df) never returns                                       *)
(*   overlong   run(df) raises, and the text of the exception, which nothing *)
(*              bounds, makes a reply above MAX_MESSAGE_BYTES               *)
(*   oversized  the pickled job exceeds MAX_MESSAGE_BYTES                   *)
(*   unsendable pickling raises, before a byte is written                   *)
Kinds == {"unsafe", "halts", "loops", "overlong", "oversized", "unsendable"}

ASSUME InputsAreKinds == Inputs \subseteq [Calls -> Kinds]

\* `_read_frame` in the parent refuses the length the header announces.
Unreadable(m) == m \in Calls /\ kind[m] = "overlong"

PCs == {"new", "lock", "ensure", "handshake", "write", "await",
        "stop", "stopwait", "discard", "release", "done"}

Rets == {"rejected", "nostart", "raised", "lost", "timeout", "eof", "answer"}

ASSUME NoneIsNoResult == None \notin Rets

(* spawned -> booting (imports) -> serving -> dying (descriptors closed, not *)
(* yet reapable: poll() still says None) -> dead (poll() returns a code).    *)
Lives == {"unused", "booting", "serving", "dying", "dead"}

Live(w) == proc[w] \in {"booting", "serving"}       \* holds its pipes open
Polls(w) == proc[w] \in {"booting", "serving", "dying"}   \* poll() is None

Polled == {w \in Workers : Polls(w)}

TypeOK ==
    /\ appUp \in BOOLEAN
    /\ lock \in Threads \cup {None}
    /\ worker \in Workers \cup {None}
    /\ kind \in [Calls -> Kinds]
    /\ pc \in [Threads -> PCs]
    /\ at \in [Threads -> Workers \cup {None}]
    /\ ret \in [Calls -> Rets \cup {None}]
    /\ ans \in [Calls -> Calls \cup {None}]
    /\ proc \in [Workers -> Lives]
    /\ job \in [Workers -> Calls \cup {None}]
    /\ inbox \in [Workers -> Seq(Calls \cup {"stop"})]
    /\ outbox \in [Workers -> Seq(Calls \cup {"ready"})]
    /\ responses \in [Workers -> Seq(Calls \cup {"ready", "eof"})]
    /\ pump \in [Workers -> {"off", "reading", "ended"}]
    /\ helpers \in [Workers -> BOOLEAN]

Init ==
    /\ appUp = TRUE
    /\ lock = None
    /\ worker = None
    /\ kind \in Inputs
    /\ pc = [t \in Threads |-> "new"]
    /\ at = [t \in Threads |-> None]
    /\ ret = [c \in Calls |-> None]
    /\ ans = [c \in Calls |-> None]
    /\ proc = [w \in Workers |-> "unused"]
    /\ job = [w \in Workers |-> None]
    /\ inbox = [w \in Workers |-> <<>>]
    /\ outbox = [w \in Workers |-> <<>>]
    /\ responses = [w \in Workers |-> <<>>]
    /\ pump = [w \in Workers |-> "off"]
    /\ helpers = [w \in Workers |-> FALSE]

-----------------------------------------------------------------------------
(* Steps shared by the handlers.                                           *)

Goto(t, from, to) ==
    /\ appUp
    /\ pc[t] = from
    /\ pc' = [pc EXCEPT ![t] = to]

Returning(c, r) == ret' = [ret EXCEPT ![c] = r]

\* `_kill_process_tree`: nothing at all once poll() reports the worker dead,
\* else SIGKILL to the worker's whole process group.
KillTree(w) ==
    /\ proc' = [proc EXCEPT ![w] = "dead"]
    /\ job' = [job EXCEPT ![w] = None]
    /\ helpers' = [helpers EXCEPT ![w] = @ /\ proc[w] = "dead"]

\* A worker process ends by itself or by the kernel's hand.  The processes it
\* spawned end with it only when the interpreter exits in an orderly way.
Die(w, orderly) ==
    /\ proc' = [proc EXCEPT ![w] = "dying"]
    /\ job' = [job EXCEPT ![w] = None]
    /\ helpers' = [helpers EXCEPT ![w] = @ /\ ~orderly]

-----------------------------------------------------------------------------
(* execute()                                                               *)

\* Gate 1: the validator refuses the code in the parent, outside the lock.
Reject(c) ==
    /\ Goto(c, "new", "done")
    /\ kind[c] = "unsafe"
    /\ Returning(c, "rejected")
    /\ UNCHANGED <<appUp, lock, worker, kind, at, ans, procVars, pipeVars>>

Admit(c) ==
    /\ Goto(c, "new", "lock")
    /\ kind[c] # "unsafe"
    /\ UNCHANGED <<appUp, lock, worker, kind, at, ret, ans, procVars, pipeVars>>

Acquire(c) ==
    /\ Goto(c, "lock", "ensure")
    /\ lock = None
    /\ lock' = c
    /\ UNCHANGED <<appUp, worker, kind, at, ret, ans, procVars, pipeVars>>

\* `_ensure_worker` keeps a worker that poll() does not report dead.
EnsureReuse(c) ==
    /\ Goto(c, "ensure", "write")
    /\ worker \in Polled
    /\ at' = [at EXCEPT ![c] = worker]
    /\ UNCHANGED <<appUp, lock, worker, kind, ret, ans, procVars, pipeVars>>

\* Mutant: `_ensure_worker` forgets the poll() test and always spawns.
EnsureSpawn_Always(c) ==
    /\ Goto(c, "ensure", "handshake")
    /\ \E w \in Workers :
        /\ proc[w] = "unused"
        /\ proc' = [proc EXCEPT ![w] = "booting"]
        /\ pump' = [pump EXCEPT ![w] = "reading"]
        /\ at' = [at EXCEPT ![c] = w]
    /\ UNCHANGED <<appUp, lock, worker, kind, ret, ans, job, helpers,
                   inbox, outbox, responses>>

\* Otherwise it spawns a process and a reader thread; killing the dead worker
\* first does nothing.  `_worker` is set only once the handshake is in.
EnsureSpawn(c) ==
    /\ Goto(c, "ensure", "handshake")
    /\ worker \notin Polled
    /\ \E w \in Workers :
        /\ proc[w] = "unused"
        /\ proc' = [proc EXCEPT ![w] = "booting"]
        /\ pump' = [pump EXCEPT ![w] = "reading"]
        /\ at' = [at EXCEPT ![c] = w]
    /\ UNCHANGED <<appUp, lock, worker, kind, ret, ans, job, helpers,
                   inbox, outbox, responses>>

\* Popen raises: no process exists.
SpawnFails(c) ==
    /\ Goto(c, "ensure", "release")
    /\ worker \notin Polled
    /\ Returning(c, "nostart")
    /\ UNCHANGED <<appUp, lock, worker, kind, at, ans, procVars, pipeVars>>

HandshakeOk(c) ==
    LET w == at[c] IN
    /\ Goto(c, "handshake", "write")
    /\ responses[w] # <<>>
    /\ Head(responses[w]) = "ready"
    /\ responses' = [responses EXCEPT ![w] = Tail(@)]
    /\ worker' = w
    /\ UNCHANGED <<appUp, lock, kind, at, ret, ans, procVars, inbox, outbox, pump>>

\* Mutant: a failed handshake leaves the process it gave up on.
HandshakeBad_NoKill(c) ==
    /\ Goto(c, "handshake", "release")
    /\ responses[at[c]] = <<>>
    /\ Returning(c, "nostart")
    /\ UNCHANGED <<appUp, lock, worker, kind, at, ans, procVars, pipeVars>>

\* No reply within the startup timeout, or the end of the stream.
HandshakeBad(c) ==
    LET w == at[c] IN
    /\ Goto(c, "handshake", "release")
    /\ \/ /\ responses[w] = <<>>
          /\ UNCHANGED responses
       \/ /\ responses[w] # <<>>
          /\ Head(responses[w]) # "ready"
          /\ responses' = [responses EXCEPT ![w] = Tail(@)]
    /\ KillTree(w)
    /\ Returning(c, "nostart")
    /\ UNCHANGED <<appUp, lock, worker, kind, at, ans, inbox, outbox, pump>>

\* write_job raises something that is not an OSError; execute() lets it pass
\* and `with` frees the lock.
WriteRaises(c) ==
    /\ Goto(c, "write", "release")
    /\ kind[c] = "unsendable"
    /\ Returning(c, "raised")
    /\ UNCHANGED <<appUp, lock, worker, kind, at, ans, procVars, pipeVars>>

WriteOk(c) ==
    /\ Goto(c, "write", "await")
    /\ kind[c] \in {"halts", "loops", "overlong"}
    /\ Live(at[c])
    /\ inbox' = [inbox EXCEPT ![at[c]] = Append(@, c)]
    /\ UNCHANGED <<appUp, lock, worker, kind, at, ret, ans, procVars,
                   outbox, responses, pump>>

\* BrokenPipeError: the worker closed its stdin.
WriteBroken(c) ==
    /\ Goto(c, "write", "discard")
    /\ kind[c] # "unsendable"
    /\ ~Live(at[c])
    /\ Returning(c, "lost")
    /\ UNCHANGED <<appUp, lock, worker, kind, at, ans, procVars, pipeVars>>

\* The worker reads the header, refuses the length and leaves its loop while
\* the parent is still writing the body: BrokenPipeError again.
WriteOversized(c) ==
    /\ Goto(c, "write", "discard")
    /\ kind[c] = "oversized"
    /\ Live(at[c])
    /\ Returning(c, "lost")
    /\ Die(at[c], TRUE)
    /\ UNCHANGED <<appUp, lock, worker, kind, at, ans, pipeVars>>

AwaitAnswer(c) ==
    LET w == at[c] IN
    /\ Goto(c, "await", "release")
    /\ responses[w] # <<>>
    /\ Head(responses[w]) \in Calls
    /\ ans' = [ans EXCEPT ![c] = Head(responses[w])]
    /\ responses' = [responses EXCEPT ![w] = Tail(@)]
    /\ Returning(c, "answer")
    /\ UNCHANGED <<appUp, lock, worker, kind, at, procVars, inbox, outbox, pump>>

AwaitEOF(c) ==
    LET w == at[c] IN
    /\ Goto(c, "await", "discard")
    /\ responses[w] # <<>>
    /\ Head(responses[w]) = "eof"
    /\ responses' = [responses EXCEPT ![w] = Tail(@)]
    /\ Returning(c, "eof")
    /\ UNCHANGED <<appUp, lock, worker, kind, at, ans, procVars, inbox, outbox, pump>>

\* Mutant: a timeout is reported but the worker is kept.
AwaitTimeout_KeepsWorker(c) ==
    /\ Goto(c, "await", "release")
    /\ responses[at[c]] = <<>>
    /\ Returning(c, "timeout")
    /\ UNCHANGED <<appUp, lock, worker, kind, at, ans, procVars, pipeVars>>

\* Mutant: `responses.get()` without a timeout.
AwaitTimeout_Never(c) == FALSE

\* Gate 2: the deadline passes with the queue empty.  A reply may still be in
\* the pipe, or reach the queue before the kill.
AwaitTimeout(c) ==
    /\ Goto(c, "await", "discard")
    /\ responses[at[c]] = <<>>
    /\ Returning(c, "timeout")
    /\ UNCHANGED <<appUp, lock, worker, kind, at, ans, procVars, pipeVars>>

\* Mutant: `_discard_worker` drops the handle without the kill.
Discard_NoKill(t) ==
    /\ Goto(t, "discard", "release")
    /\ worker' = None
    /\ UNCHANGED <<appUp, lock, kind, at, ret, ans, procVars, pipeVars>>

\* `_discard_worker`
Discard(t) ==
    /\ Goto(t, "discard", "release")
    /\ KillTree(worker)
    /\ worker' = None
    /\ UNCHANGED <<appUp, lock, kind, at, ret, ans, pipeVars>>

Release(t) ==
    /\ Goto(t, "release", "done")
    /\ lock' = None
    /\ UNCHANGED <<appUp, worker, kind, at, ret, ans, procVars, pipeVars>>

-----------------------------------------------------------------------------
(* shutdown()                                                              *)

CloseBegin(s) ==
    /\ Goto(s, "new", "lock")
    /\ UNCHANGED <<appUp, lock, worker, kind, at, ret, ans, procVars, pipeVars>>

CloseAcquire(s) ==
    /\ Goto(s, "lock", IF worker = None THEN "release" ELSE "stop")
    /\ lock = None
    /\ lock' = s
    /\ UNCHANGED <<appUp, worker, kind, at, ret, ans, procVars, pipeVars>>

\* Ask nicely; a broken pipe skips the wait.
StopWrite(s) ==
    /\ Goto(s, "stop", "stopwait")
    /\ Live(worker)
    /\ inbox' = [inbox EXCEPT ![worker] = Append(@, "stop")]
    /\ UNCHANGED <<appUp, lock, worker, kind, at, ret, ans, procVars,
                   outbox, responses, pump>>

\* Mutant: a broken pipe is taken to mean that the worker is gone already.
StopBroken_Returns(s) ==
    /\ Goto(s, "stop", "release")
    /\ ~Live(worker)
    /\ UNCHANGED <<appUp, lock, worker, kind, at, ret, ans, procVars, pipeVars>>

StopBroken(s) ==
    /\ Goto(s, "stop", "discard")
    /\ ~Live(worker)
    /\ UNCHANGED <<appUp, lock, worker, kind, at, ret, ans, procVars, pipeVars>>

\* process.wait(timeout=3): the worker exited or the wait expired.
StopWait(s) ==
    /\ Goto(s, "stopwait", "discard")
    /\ UNCHANGED <<appUp, lock, worker, kind, at, ret, ans, procVars, pipeVars>>

-----------------------------------------------------------------------------
(* The reader thread, `_pump`                                              *)

PumpMove(w) ==
    /\ appUp
    /\ pump[w] = "reading"
    /\ outbox[w] # <<>>
    /\ ~Unreadable(Head(outbox[w]))
    /\ responses' = [responses EXCEPT ![w] = Append(@, Head(outbox[w]))]
    /\ outbox' = [outbox EXCEPT ![w] = Tail(@)]
    /\ UNCHANGED <<appUp, lock, worker, callVars, procVars, inbox, pump>>

\* Mutant: an empty pipe is taken for its end.
PumpEOF_Empty(w) ==
    /\ appUp
    /\ pump[w] = "reading"
    /\ outbox[w] = <<>>
    /\ responses' = [responses EXCEPT ![w] = Append(@, "eof")]
    /\ pump' = [pump EXCEPT ![w] = "ended"]
    /\ UNCHANGED <<appUp, lock, worker, callVars, procVars, inbox, outbox>>

\* The stream ends once the worker is gone and its last frame was read; a
\* frame the worker was killed in the middle of reads as the end too.
PumpEOF(w) ==
    /\ appUp
    /\ pump[w] = "reading"
    /\ outbox[w] = <<>>
    /\ ~Live(w)
    /\ responses' = [responses EXCEPT ![w] = Append(@, "eof")]
    /\ pump' = [pump EXCEPT ![w] = "ended"]
    /\ UNCHANGED <<appUp, lock, worker, callVars, procVars, inbox, outbox>>

\* `read_result` raises on the length in a header; `suppress` ends the loop and
\* the end of the stream is queued although the worker lives.  The body stays
\* in the pipe, where it holds the worker up in its write until the kill.
PumpRaises(w) ==
    /\ appUp
    /\ pump[w] = "reading"
    /\ outbox[w] # <<>>
    /\ Unreadable(Head(outbox[w]))
    /\ responses' = [responses EXCEPT ![w] = Append(@, "eof")]
    /\ pump' = [pump EXCEPT ![w] = "ended"]
    /\ UNCHANGED <<appUp, lock, worker, callVars, procVars, inbox, outbox>>

-----------------------------------------------------------------------------
(* The worker process, worker.py main().  Writing to a parent that is gone  *)
(* raises, which ends the process.                                         *)

Boot(w) ==
    /\ proc[w] = "booting"
    /\ IF appUp
       THEN /\ proc' = [proc EXCEPT ![w] = "serving"]
            /\ outbox' = [outbox EXCEPT ![w] = Append(@, "ready")]
            /\ UNCHANGED <<job, helpers>>
       ELSE /\ Die(w, TRUE)
            /\ UNCHANGED outbox
    /\ UNCHANGED <<appUp, lock, worker, callVars, inbox, responses, pump>>

TakeJob(w) ==
    /\ proc[w] = "serving"
    /\ job[w] = None
    /\ inbox[w] # <<>>
    /\ Head(inbox[w]) \in Calls
    /\ job' = [job EXCEPT ![w] = Head(inbox[w])]
    /\ inbox' = [inbox EXCEPT ![w] = Tail(@)]
    /\ UNCHANGED <<appUp, lock, worker, callVars, proc, helpers,
                   outbox, responses, pump>>

\* Mutant: the worker does not take the end of stdin for a reason to leave.
LeaveLoop_IgnoresEOF(w) ==
    /\ proc[w] = "serving"
    /\ job[w] = None
    /\ inbox[w] # <<>>
    /\ Head(inbox[w]) = "stop"
    /\ Die(w, TRUE)
    /\ UNCHANGED <<appUp, lock, worker, callVars, pipeVars>>

\* A shutdown job, or the end of stdin because the parent is gone.
LeaveLoop(w) ==
    /\ proc[w] = "serving"
    /\ job[w] = None
    /\ \/ /\ inbox[w] # <<>>
          /\ Head(inbox[w]) = "stop"
       \/ /\ inbox[w] = <<>>
          /\ ~appUp
    /\ Die(w, TRUE)
    /\ UNCHANGED <<appUp, lock, worker, callVars, pipeVars>>

FinishJob(w) ==
    /\ proc[w] = "serving"
    /\ job[w] # None
    /\ kind[job[w]] # "loops"
    /\ IF appUp
       THEN /\ outbox' = [outbox EXCEPT ![w] = Append(@, job[w])]
            /\ job' = [job EXCEPT ![w] = None]
            /\ UNCHANGED <<proc, helpers>>
       ELSE /\ Die(w, TRUE)
            /\ UNCHANGED outbox
    /\ UNCHANGED <<appUp, lock, worker, callVars, inbox, responses, pump>>

\* Generated code starts helper processes (scikit-learn with n_jobs).
StartHelpers(w) ==
    /\ proc[w] = "serving"
    /\ job[w] # None
    /\ ~helpers[w]
    /\ helpers' = [helpers EXCEPT ![w] = TRUE]
    /\ UNCHANGED <<appUp, lock, worker, callVars, proc, job, pipeVars>>

EndHelpers(w) ==
    /\ helpers[w]
    /\ helpers' = [helpers EXCEPT ![w] = FALSE]
    /\ UNCHANGED <<appUp, lock, worker, callVars, proc, job, pipeVars>>

\* Out of memory, a segfault, an operator's kill.
Crash(w) ==
    /\ Live(w)
    /\ Die(w, FALSE)
    /\ UNCHANGED <<appUp, lock, worker, callVars, pipeVars>>

Reapable(w) ==
    /\ proc[w] = "dying"
    /\ proc' = [proc EXCEPT ![w] = "dead"]
    /\ UNCHANGED <<appUp, lock, worker, callVars, job, helpers, pipeVars>>

\* The parent process dies or is stopped; its threads are gone with it.
AppExit ==
    /\ appUp
    /\ appUp' = FALSE
    /\ UNCHANGED <<lock, worker, callVars, procVars, pipeVars>>

-----------------------------------------------------------------------------

Begin(t) ==
    \/ t \in Calls /\ (Reject(t) \/ Admit(t))
    \/ t \in Closers /\ CloseBegin(t)

ExecuteStep(c) ==
    \/ Acquire(c)
    \/ EnsureReuse(c) \/ EnsureSpawn(c) \/ SpawnFails(c)
    \/ HandshakeOk(c) \/ HandshakeBad(c)
    \/ WriteRaises(c) \/ WriteOk(c) \/ WriteBroken(c) \/ WriteOversized(c)
    \/ AwaitAnswer(c) \/ AwaitEOF(c) \/ AwaitTimeout(c)

ShutdownStep(s) ==
    CloseAcquire(s) \/ StopWrite(s) \/ StopBroken(s) \/ StopWait(s)

ThreadStep(t) ==
    \/ t \in Calls /\ ExecuteStep(t)
    \/ t \in Closers /\ ShutdownStep(t)
    \/ Discard(t)
    \/ Release(t)

PumpStep(w) == PumpMove(w) \/ PumpEOF(w) \/ PumpRaises(w)

WorkerStep(w) ==
    Boot(w) \/ TakeJob(w) \/ LeaveLoop(w) \/ FinishJob(w) \/ Reapable(w)

Next ==
    \/ \E t \in Threads : Begin(t) \/ ThreadStep(t)
    \/ \E w \in Workers :
        \/ PumpStep(w) \/ WorkerStep(w)
        \/ StartHelpers(w) \/ EndHelpers(w) \/ Crash(w)
    \/ AppExit

Spec == Init /\ [][Next]_vars

\* The operating system schedules every thread and process that can move, and
\* every wait in execute() and shutdown() has a deadline.  Nothing makes a new
\* call arrive, code fork or end its helpers, a process crash or the app exit.
Fairness ==
    /\ \A t \in Threads : WF_vars(ThreadStep(t))
    /\ \A w \in Workers : WF_vars(PumpStep(w)) /\ WF_vars(WorkerStep(w))

FairSpec == Spec /\ Fairness

-----------------------------------------------------------------------------
(* Safety                                                                  *)

\* One worker bounds the memory the sandbox uses (executor.py lines 125-126):
\* whatever fails in a spawn, a handshake, a write or a wait, the operating
\* system never holds two worker processes at once.
OneWorker == \A v, w \in Workers : Polls(v) /\ Polls(w) => v = w

\* A call that returns an answer returns the one its own code computed.  Jobs
\* and replies carry no identifier: only discarding the worker after a timeout
\* (line 269) keeps a late reply from answering the next call.
OwnAnswer == \A c \in Calls : ans[c] \in {c, None}

\* Once execute() has returned, whatever it returned, its code neither runs nor
\* waits in the pipe of a worker that could still read it (lines 259-285).
NoRunaway ==
    \A c \in Calls : pc[c] = "done" =>
        \A w \in Workers :
            /\ job[w] # c
            /\ Live(w) => \A i \in 1..Len(inbox[w]) : inbox[w][i] # c

\* Between calls a worker that is alive is idle, its pipes and its queue are
\* empty and its reader thread runs, so that the next call finds nothing of an
\* earlier one and somebody to read its own reply.
QuiescentClean ==
    lock = None /\ worker # None =>
        /\ job[worker] = None
        /\ Live(worker) =>
            /\ proc[worker] = "serving"
            /\ inbox[worker] = <<>>
            /\ outbox[worker] = <<>>
            /\ responses[worker] = <<>>
            /\ pump[worker] = "reading"

\* "Sandbox connection lost" (line 262) is only said of a worker that did stop.
\* "The sandbox stopped unexpectedly" (line 282) is also said of one that lives,
\* but of no other call than one whose reply the reader refused for its length.
TruthfulErrors ==
    \A c \in Calls :
        /\ ret[c] = "lost" => ~Live(at[c])
        /\ ret[c] = "eof" => ~Live(at[c]) \/ Unreadable(c)

\* The executor never forgets a process it has not seen dead: `_worker` moves
\* from one worker to another value only when the old process is dead.
HandleKept ==
    [][worker' # worker /\ worker # None => proc'[worker] = "dead"]_vars

\* When shutdown() is about to return, no worker process exists, whether the
\* worker answered the request to stop, ignored it or had closed its pipe.
ShutdownComplete ==
    \A s \in Closers : pc[s] = "release" => \A w \in Workers : ~Polls(w)

-----------------------------------------------------------------------------
(* The executor implements the service its callers rely on.                *)

Contains(q, m) == \E i \in 1..Len(q) : q[i] = m

CallStatus(c) ==
    IF \E w \in Workers : job[w] = c THEN "running"
    ELSE IF pc[c] = "new" THEN "idle"
    ELSE IF pc[c] = "done" THEN "returned"
    ELSE IF \E w \in Workers : Contains(inbox[w], c) THEN "pending"
    ELSE IF \/ ans[c] # None
            \/ \E w \in Workers : Contains(outbox[w], c) \/ Contains(responses[w], c)
         THEN "finished"
    ELSE IF \/ pc[c] \in {"lock", "ensure", "handshake", "write"}
            \/ ret[c] \in {"nostart", "raised", "lost"}
         THEN "pending"
    ELSE "aborted"

Service == INSTANCE SandboxService WITH
    status  <- [c \in Calls |-> CallStatus(c)],
    outcome <- [c \in Calls |-> IF pc[c] = "done" THEN ret[c] ELSE None],
    value   <- [c \in Calls |-> IF pc[c] = "done" THEN ans[c] ELSE None]

\* Every behaviour of the executor, the pipes and the worker is one of the
\* service: code runs at most once and alone, has stopped when its call
\* returns, and is the only source of the value returned.
ImplementsService == Service!ServiceSpec

-----------------------------------------------------------------------------
(* Liveness                                                                *)

\* A call that passed the validator returns, even behind code that loops, a
\* worker that hangs or workers that crash, as long as the app lives.
EveryCallReturns ==
    \A c \in Calls : pc[c] = "lock" ~> pc[c] = "done" \/ ~appUp

\* A worker outlives its app only in generated code that never returns: in
\* every other state the end of stdin or a failed write ends it.
OrphanExits ==
    \A w \in Workers :
        ~appUp ~> ~Polls(w) \/ (job[w] # None /\ kind[job[w]] = "loops")
=============================================================================
