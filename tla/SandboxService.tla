--------------------------- MODULE SandboxService ---------------------------
(***************************************************************************)
(* What the sandbox promises its callers, with the worker process, its     *)
(* pipes and its reader thread hidden.  Streamlit sessions submit calls of *)
(* SandboxExecutor.execute; each call's code                               *)
(*   - runs at most once, and never while another call's code runs         *)
(*     ("Executions are serialised by a lock", src/src/sandbox/executor.py *)
(*     line 125),                                                          *)
(*   - has stopped by the time its call returns (the timeout "only         *)
(*     meaningful because we can kill", executor.py line 266),             *)
(*   - is the only source of the value its call returns.                   *)
(* SandboxExecutor is shown to implement this module.                      *)
(***************************************************************************)
CONSTANTS
    Calls,      \* the calls of execute(), each made once
    None        \* "no value"

VARIABLES
    status,     \* how far each call and its code have got
    outcome,    \* what kind of ExecutionResult the call returned
    value       \* the call whose code produced the returned value

serviceVars == <<status, outcome, value>>

Statuses == {"idle", "pending", "running", "finished", "aborted", "returned"}

Failures == {"nostart", "raised", "lost", "timeout", "eof"}

Outcomes == Failures \cup {"rejected", "answer"}

ServiceTypeOK ==
    /\ status \in [Calls -> Statuses]
    /\ outcome \in [Calls -> Outcomes \cup {None}]
    /\ value \in [Calls -> Calls \cup {None}]

ServiceInit ==
    /\ status = [c \in Calls |-> "idle"]
    /\ outcome = [c \in Calls |-> None]
    /\ value = [c \in Calls |-> None]

Move(c, from, to) ==
    /\ status[c] \in from
    /\ status' = [status EXCEPT ![c] = to]

\* The call passed the validator and queues for the sandbox.
Submit(c) ==
    /\ Move(c, {"idle"}, "pending")
    /\ UNCHANGED <<outcome, value>>

\* The code starts: alone, and never for a second time.
Start(c) ==
    /\ \A d \in Calls : status[d] # "running"
    /\ Move(c, {"pending"}, "running")
    /\ UNCHANGED <<outcome, value>>

\* The code ran to its end and left a reply.
Finish(c) ==
    /\ Move(c, {"running"}, "finished")
    /\ UNCHANGED <<outcome, value>>

\* The code was stopped: it was killed, or its process died under it.
Abort(c) ==
    /\ Move(c, {"running"}, "aborted")
    /\ UNCHANGED <<outcome, value>>

\* The validator refused the code, which therefore never runs.
Refuse(c) ==
    /\ Move(c, {"idle"}, "returned")
    /\ outcome' = [outcome EXCEPT ![c] = "rejected"]
    /\ UNCHANGED value

\* The call returns the value its own code computed.
Answer(c) ==
    /\ Move(c, {"finished"}, "returned")
    /\ outcome' = [outcome EXCEPT ![c] = "answer"]
    /\ value' = [value EXCEPT ![c] = c]

\* Mutant: a call may fail without waiting for its code to stop.
Fail_BeforeStop(c) ==
    /\ status[c] \in {"pending", "running", "finished", "aborted"}
    /\ status' = [status EXCEPT ![c] = IF @ = "running" THEN @ ELSE "returned"]
    /\ \E o \in Failures : outcome' = [outcome EXCEPT ![c] = o]
    /\ UNCHANGED value

\* The call returns an error.  The code may have finished (its reply came too
\* late or could not be read), been stopped or never started, but it is not running.
Fail(c) ==
    /\ Move(c, {"pending", "finished", "aborted"}, "returned")
    /\ \E o \in Failures : outcome' = [outcome EXCEPT ![c] = o]
    /\ UNCHANGED value

ServiceNext ==
    \E c \in Calls :
        \/ Submit(c) \/ Start(c) \/ Finish(c) \/ Abort(c)
        \/ Refuse(c) \/ Answer(c) \/ Fail(c)

ServiceSpec == ServiceInit /\ [][ServiceNext]_serviceVars
=============================================================================
