------------------------- MODULE SandboxExecutorInv -------------------------
(***************************************************************************)
(* The inductive invariant of SandboxExecutor.  The safety properties are  *)
(* not inductive: what keeps a late reply from answering the next call is  *)
(* which thread may touch which worker, and what that worker's pipes can   *)
(* hold, at every point of execute() and shutdown().                       *)
(***************************************************************************)
EXTENDS SandboxExecutor

Critical == {"ensure", "handshake", "write", "await",
             "stop", "stopwait", "discard", "release"}

\* The thread that holds the lock is the one thread in a critical section.
Mutex == \A t \in Threads : pc[t] \in Critical <=> lock = t

\* execute() and shutdown() each stay in their own code.
Roles ==
    /\ \A c \in Calls : pc[c] \notin {"stop", "stopwait"}
    /\ \A s \in Closers : pc[s] \notin {"ensure", "handshake", "write", "await"}

\* A worker is unused, or its reader thread was started with it and ends after
\* it or at a reply it cannot read; only a worker that serves has a job; a worker that runs is known to the
\* executor or to the call that awaits its handshake.
Processes ==
    /\ worker # None => proc[worker] # "unused"
    /\ \A w \in Workers :
        /\ job[w] # None => proc[w] = "serving"
        /\ pump[w] = "ended" =>
            \/ proc[w] \in {"dying", "dead"}
            \/ Len(outbox[w]) > 0 /\ Unreadable(outbox[w][1])
        /\ pump[w] = "off" <=> proc[w] = "unused"
        /\ proc[w] = "unused" =>
            Len(inbox[w]) = 0 /\ Len(outbox[w]) = 0 /\ Len(responses[w]) = 0
        /\ Polls(w) => w = worker \/ \E c \in Calls : pc[c] = "handshake" /\ at[c] = w

\* A call has a result only on its way out, and blames a worker that stopped
\* or whose reply could not be read.
Results ==
    \A c \in Calls :
        /\ ret[c] # None => pc[c] \in {"discard", "release", "done"}
        /\ ret[c] \in {"lost", "eof"} =>
            /\ at[c] \in Workers
            /\ \/ proc[at[c]] \in {"dying", "dead"}
               \/ ret[c] = "eof" /\ Unreadable(c)

\* The worker a thread works on is the executor's own.
Handles ==
    /\ \A c \in Calls :
        /\ pc[c] \in {"write", "await", "discard"} => at[c] = worker /\ worker # None
        /\ pc[c] = "handshake" =>
            /\ at[c] \in Workers /\ at[c] # worker /\ proc[at[c]] # "unused"
            /\ worker \notin Polled
    /\ \A s \in Closers :
        /\ pc[s] \in {"stop", "stopwait", "discard"} => worker # None
        /\ pc[s] = "release" => worker = None

\* The queue of w holds what is left of a reply m: nothing when it was read,
\* with the end of the stream behind it once the reader thread has ended.
Queued(w) ==
    IF pump[w] = "ended"
    THEN Len(responses[w]) = 1 /\ responses[w][1] = "eof"
    ELSE Len(responses[w]) = 0

QueuedAfter(w, m) ==
    /\ Len(responses[w]) > 0
    /\ responses[w][1] = m
    /\ IF pump[w] = "ended"
       THEN Len(responses[w]) = 2 /\ responses[w][2] = "eof"
       ELSE Len(responses[w]) = 1

\* The one message m that w was to send is on its way: in the pipe, in the
\* queue, or never to come because w stopped before sending it.
Coming(w, m) ==
    \/ Len(outbox[w]) = 1 /\ outbox[w][1] = m /\ Queued(w)
    \/ Len(outbox[w]) = 0 /\ QueuedAfter(w, m)
    \/ Len(outbox[w]) = 0 /\ Queued(w) /\ ~Live(w)

\* A worker whose handshake is awaited boots, or has sent just the handshake.
Booting ==
    \A c \in Calls : pc[c] = "handshake" =>
        LET w == at[c] IN
        /\ Len(inbox[w]) = 0 /\ job[w] = None
        /\ \/ proc[w] = "booting" /\ Len(outbox[w]) = 0 /\ Queued(w)
           \/ proc[w] # "booting" /\ Coming(w, "ready")

\* A worker no call waits for is idle, unless it has stopped.
Idle ==
    worker # None /\ (\A t \in Threads : pc[t] \notin {"await", "discard", "stopwait"})
        => (Live(worker) =>
               /\ proc[worker] = "serving" /\ job[worker] = None
               /\ Len(inbox[worker]) = 0 /\ Len(outbox[worker]) = 0
               /\ Len(responses[worker]) = 0)

\* A worker some call waits for has that call's job or its reply, once.
Serving ==
    \A c \in Calls : pc[c] = "await" =>
        LET w == worker IN
        /\ proc[w] # "booting"
        /\ \/ /\ Len(inbox[w]) = 1 /\ inbox[w][1] = c
              /\ job[w] = None /\ Len(outbox[w]) = 0 /\ Queued(w)
           \/ /\ Len(inbox[w]) = 0 /\ job[w] = c /\ Len(outbox[w]) = 0 /\ Queued(w)
           \/ Len(inbox[w]) = 0 /\ job[w] = None /\ Coming(w, c)

\* Until it is discarded, a live worker has no job but that of the lock's holder.
Owner ==
    \A t \in Threads : pc[t] \in {"await", "discard", "stopwait"} =>
        (Live(worker) =>
            /\ job[worker] \in {t, None}
            /\ \A i \in 1..Len(inbox[worker]) : inbox[worker][i] \in {t, "stop"})

IInv ==
    /\ TypeOK /\ Mutex /\ Roles /\ Processes /\ Results /\ Handles
    /\ Booting /\ Idle /\ Serving /\ Owner /\ OwnAnswer

-----------------------------------------------------------------------------
(* What the refinement rests on besides: where the job of a call can be, in *)
(* the pipes of workers that are long dead too.                             *)

\* The write of a job finds the pipe empty.
Uncrowded == \A w \in Workers : Len(inbox[w]) <= 1

\* The reply of c is in the pipe or in the queue of w.
Replied(w, c) == Contains(outbox[w], c) \/ Contains(responses[w], c)

\* The job of c was written to w and is still there, in one form or another.
Holds(w, c) == job[w] = c \/ Contains(inbox[w], c) \/ Replied(w, c)

\* A job is with no worker but the one it was written to; there it is waiting,
\* or running, or answered, and once the answer was read, nothing else.
Whereabouts ==
    \A c \in Calls : \A w \in Workers :
        /\ Holds(w, c) =>
            /\ w = at[c]
            /\ pc[c] \in {"await", "discard", "release", "done"}
            /\ ret[c] \in {None, "timeout", "eof", "answer"}
        /\ job[w] = c \/ Contains(inbox[w], c) =>
            ~Replied(w, c) /\ ans[c] = None
        /\ ~(job[w] = c /\ Contains(inbox[w], c))

\* What a call is about to return was set by the step that led there.
Endings ==
    \A c \in Calls :
        /\ pc[c] \notin {"discard", "release", "done"} => ret[c] = None
        /\ pc[c] = "discard" => ret[c] \in {"lost", "timeout", "eof"}
        /\ pc[c] = "release" => ret[c] \notin {None, "rejected"}
        /\ ans[c] # None <=> ret[c] = "answer"

RInv == IInv /\ Uncrowded /\ Whereabouts /\ Endings
=============================================================================
