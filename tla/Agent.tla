------------------------------- MODULE Agent --------------------------------
(***************************************************************************)
(* generate_and_execute (src/src/agent/agent.py): ask a model for code, run *)
(* the code in the sandbox, feed a failure back to the model, up to a       *)
(* bounded number of attempts; and complete_with_retry                      *)
(* (src/src/llm/factory.py), which repeats a model call that failed in a    *)
(* transient way.  Questions of several sessions run concurrently and share *)
(* the sandbox, which is SandboxService here: attempt a of question q makes *)
(* the call <<q, a>> of execute().                                          *)
(*                                                                          *)
(* Data are abstracted to the attempt they come from: "the code of attempt  *)
(* 2", "the error of attempt 1".                                            *)
(***************************************************************************)
EXTENDS Integers, Sequences, FiniteSets

CONSTANTS
    Questions,
    MaxRepairs,     \* settings.agent.max_repair_attempts
    MaxTries,       \* settings.agent.max_api_retries
    PromptTokens,   \* size of the first prompt of a question
    ReplyTokens,    \* size of a reply of the model
    ErrorTokens,    \* size of a repair prompt
    None

ASSUME SettingsAreIntegers ==
    /\ MaxRepairs \in Int /\ MaxTries \in Int
    /\ PromptTokens \in Nat /\ ReplyTokens \in Nat /\ ErrorTokens \in Nat

MaxAttempts == IF MaxRepairs > 0 THEN 1 + MaxRepairs ELSE 1

Attempts == 1..MaxAttempts

Calls == Questions \X Attempts

VARIABLES
    status, outcome, value,     \* the sandbox, see SandboxService
    phase,      \* where the handling of each question is
    attempt,    \* AgentResult.attempts
    tries,      \* provider calls made for this attempt
    turns,      \* what was appended to the first prompt
    code,       \* AgentResult.generated_code: the attempt that wrote it
    raw,        \* AgentResult.raw_response: the attempt it came from
    result,     \* what the user is shown: prose, a value, an error
    answer,     \* AgentResult.result_text, .figure: the call they come from
    failure,    \* AgentResult.failure_kind
    failed,     \* AgentResult.failed_attempts
    tokens      \* AgentResult.input_tokens + output_tokens

Sandbox == INSTANCE SandboxService

\* None is no number, no outcome of execute() and nothing that is shown.
ASSUME NoneDistinct ==
    /\ None \notin Attempts
    /\ None \notin Sandbox!Outcomes
    /\ None \notin {"prose", "value", "error"}

sandboxVars == <<status, outcome, value>>
replyVars == <<code, raw, tokens>>
endVars == <<result, answer, failure>>
loopVars == <<phase, attempt, tries, turns, failed>>
vars == <<sandboxVars, loopVars, replyVars, endVars>>

Phases == {"idle", "model", "backoff", "execute", "waiting", "done", "raised"}

Failures == {"llm", "rejected", "timeout", "runtime"}

Turns == [says : {"reply", "error"}, of : Attempts]

TypeOK ==
    /\ Sandbox!ServiceTypeOK
    /\ phase \in [Questions -> Phases]
    /\ attempt \in [Questions -> 0..MaxAttempts]
    /\ tries \in [Questions -> Nat]
    /\ turns \in [Questions -> Seq(Turns)]
    /\ code \in [Questions -> Attempts \cup {None}]
    /\ raw \in [Questions -> Attempts \cup {None}]
    /\ result \in [Questions -> {None, "prose", "value", "error"}]
    /\ answer \in [Questions -> Calls \cup {None}]
    /\ failure \in [Questions -> Failures \cup {None}]
    /\ failed \in [Questions -> Seq(Attempts)]
    /\ tokens \in [Questions -> Nat]

Init ==
    /\ Sandbox!ServiceInit
    /\ phase = [q \in Questions |-> "idle"]
    /\ attempt = [q \in Questions |-> 0]
    /\ tries = [q \in Questions |-> 0]
    /\ turns = [q \in Questions |-> <<>>]
    /\ code = [q \in Questions |-> None]
    /\ raw = [q \in Questions |-> None]
    /\ result = [q \in Questions |-> None]
    /\ answer = [q \in Questions |-> None]
    /\ failure = [q \in Questions |-> None]
    /\ failed = [q \in Questions |-> <<>>]
    /\ tokens = [q \in Questions |-> 0]

-----------------------------------------------------------------------------
(* Steps shared by the actions.                                            *)

Goto(q, from, to) ==
    /\ phase[q] = from
    /\ phase' = [phase EXCEPT ![q] = to]

\* `result.error` and `result.failure_kind` are set and the result returned.
GiveUp(q, kind) ==
    /\ result' = [result EXCEPT ![q] = "error"]
    /\ failure' = [failure EXCEPT ![q] = kind]
    /\ UNCHANGED answer

\* The whole conversation is sent with every call: the first prompt, then each
\* failed reply with the repair prompt that answers it.
PromptSize(q) ==
    PromptTokens + (Len(turns[q]) \div 2) * (ReplyTokens + ErrorTokens)

\* Mutant: the usage of the last call replaces the sum.
Delivered_LastOnly(q) ==
    /\ tokens' = [tokens EXCEPT ![q] = PromptSize(q) + ReplyTokens]
    /\ raw' = [raw EXCEPT ![q] = attempt[q]]

\* A reply arrives: its usage is added to the result's.
Delivered(q) ==
    /\ tokens' = [tokens EXCEPT ![q] = @ + PromptSize(q) + ReplyTokens]
    /\ raw' = [raw EXCEPT ![q] = attempt[q]]

-----------------------------------------------------------------------------
(* The question and the model                                              *)

Ask(q) ==
    /\ Goto(q, "idle", "model")
    /\ attempt' = [attempt EXCEPT ![q] = 1]
    /\ UNCHANGED <<sandboxVars, tries, turns, failed, replyVars, endVars>>

\* get_provider raises: no key, an unknown provider.
NoProvider(q) ==
    /\ Goto(q, "idle", "done")
    /\ GiveUp(q, "llm")
    /\ UNCHANGED <<sandboxVars, attempt, tries, turns, failed, replyVars>>

\* A reply with a code block.
ReplyCode(q) ==
    /\ Goto(q, "model", "execute")
    /\ tries[q] < MaxTries
    /\ Delivered(q)
    /\ UNCHANGED <<sandboxVars, attempt, tries, turns, failed, code, endVars>>

\* A reply without one, or an empty reply: the prose is the answer.
ReplyProse(q) ==
    /\ Goto(q, "model", "done")
    /\ tries[q] < MaxTries
    /\ Delivered(q)
    /\ result' = [result EXCEPT ![q] = "prose"]
    /\ UNCHANGED <<sandboxVars, attempt, tries, turns, failed, code, answer, failure>>

\* Mutant: a retry is not counted.
Backoff_Uncounted(q) ==
    /\ Goto(q, "model", "backoff")
    /\ tries[q] < MaxTries - 1
    /\ UNCHANGED <<sandboxVars, attempt, tries, turns, failed, replyVars, endVars>>

\* A transient error with tries left: sleep, then call again.
Backoff(q) ==
    /\ Goto(q, "model", "backoff")
    /\ tries[q] < MaxTries - 1
    /\ tries' = [tries EXCEPT ![q] = @ + 1]
    /\ UNCHANGED <<sandboxVars, attempt, turns, failed, replyVars, endVars>>

Retry(q) ==
    /\ Goto(q, "backoff", "model")
    /\ UNCHANGED <<sandboxVars, attempt, tries, turns, failed, replyVars, endVars>>

\* An error that is not transient, or the last try.  With MaxTries <= 0 the
\* loop body never runs and the call fails without having been made.
ModelFails(q) ==
    /\ Goto(q, "model", "done")
    /\ GiveUp(q, "llm")
    /\ UNCHANGED <<sandboxVars, attempt, tries, turns, failed, replyVars>>

-----------------------------------------------------------------------------
(* The sandbox.  execute() is one call of the service; what it returns is   *)
(* handled in the step in which it returns.                                *)

\* Mutant: the loop goes on after a timeout.
LoopEnds_IgnoresTimeout(q, kind) == attempt[q] = MaxAttempts

\* Mutant: one attempt too many.
LoopEnds_OneMore(q, kind) == kind = "timeout" \/ attempt[q] = MaxAttempts + 1

\* A timeout and the last attempt end the loop.
LoopEnds(q, kind) == kind = "timeout" \/ attempt[q] = MaxAttempts

\* Mutant: each repair prompt is put behind the first prompt again.
Extended_Restarts(q) ==
    <<[says |-> "reply", of |-> attempt[q]], [says |-> "error", of |-> attempt[q]]>>

\* The conversation with the failed reply and the error it led to.
Extended(q) ==
    turns[q] \o <<[says |-> "reply", of |-> attempt[q]],
                  [says |-> "error", of |-> attempt[q]]>>

\* The execution failed: give up, or ask the model to repair its code.
Repair(q, kind) ==
    /\ code' = [code EXCEPT ![q] = attempt[q]]
    /\ failed' = [failed EXCEPT ![q] = Append(@, attempt[q])]
    /\ \/ /\ LoopEnds(q, kind)
          /\ phase' = [phase EXCEPT ![q] = "done"]
          /\ GiveUp(q, kind)
          /\ UNCHANGED <<attempt, tries, turns>>
       \/ /\ ~LoopEnds(q, kind)
          /\ phase' = [phase EXCEPT ![q] = "model"]
          /\ attempt' = [attempt EXCEPT ![q] = @ + 1]
          /\ tries' = [tries EXCEPT ![q] = 0]
          /\ turns' = [turns EXCEPT ![q] = Extended(q)]
          /\ UNCHANGED endVars

Submit(q) ==
    /\ Goto(q, "execute", "waiting")
    /\ Sandbox!Submit(<<q, attempt[q]>>)
    /\ UNCHANGED <<attempt, tries, turns, failed, replyVars, endVars>>

\* The validator refuses the code.
CodeRejected(q) ==
    /\ phase[q] = "execute"
    /\ Sandbox!Refuse(<<q, attempt[q]>>)
    /\ Repair(q, "rejected")
    /\ UNCHANGED <<raw, tokens>>

\* Mutant: the result keeps the code of the first attempt.
CodeWorks_FirstCode(q) ==
    LET a == attempt[q] IN
    /\ Goto(q, "waiting", "done")
    /\ Sandbox!Answer(<<q, a>>)
    /\ code' = [code EXCEPT ![q] = IF @ = None THEN a ELSE @]
    /\ result' = [result EXCEPT ![q] = "value"]
    /\ answer' = [answer EXCEPT ![q] = value'[<<q, a>>]]
    /\ UNCHANGED <<attempt, tries, turns, failed, raw, tokens, failure>>

\* The worker's reply carries a result.
CodeWorks(q) ==
    LET a == attempt[q] IN
    /\ Goto(q, "waiting", "done")
    /\ Sandbox!Answer(<<q, a>>)
    /\ code' = [code EXCEPT ![q] = a]
    /\ result' = [result EXCEPT ![q] = "value"]
    /\ answer' = [answer EXCEPT ![q] = value'[<<q, a>>]]
    /\ UNCHANGED <<attempt, tries, turns, failed, raw, tokens, failure>>

\* The worker's reply carries the exception the code raised.
CodeFails(q) ==
    /\ phase[q] = "waiting"
    /\ Sandbox!Answer(<<q, attempt[q]>>)
    /\ Repair(q, "runtime")
    /\ UNCHANGED <<raw, tokens>>

\* Mutant: a timeout is reported like any other failure of the code.
SandboxFails_OneKind(q) ==
    LET c == <<q, attempt[q]>> IN
    /\ phase[q] = "waiting"
    /\ Sandbox!Fail(c)
    /\ outcome'[c] # "raised"
    /\ Repair(q, "runtime")
    /\ UNCHANGED <<raw, tokens>>

\* execute() reports a timeout, a lost worker or one that would not start; the
\* last two are handled as if the code had failed.
SandboxFails(q) ==
    LET c == <<q, attempt[q]>> IN
    /\ phase[q] = "waiting"
    /\ Sandbox!Fail(c)
    /\ outcome'[c] # "raised"
    /\ Repair(q, IF outcome'[c] = "timeout" THEN "timeout" ELSE "runtime")
    /\ UNCHANGED <<raw, tokens>>

\* execute() itself raises, and so does generate_and_execute.
SandboxRaises(q) ==
    LET c == <<q, attempt[q]>> IN
    /\ Goto(q, "waiting", "raised")
    /\ Sandbox!Fail(c)
    /\ outcome'[c] = "raised"
    /\ UNCHANGED <<attempt, tries, turns, failed, replyVars, endVars>>

\* What the sandbox does while a question waits for it.
SandboxWorks(q) ==
    /\ phase[q] = "waiting"
    /\ LET c == <<q, attempt[q]>> IN
        Sandbox!Start(c) \/ Sandbox!Finish(c) \/ Sandbox!Abort(c)
    /\ UNCHANGED <<loopVars, replyVars, endVars>>

-----------------------------------------------------------------------------

ModelStep(q) ==
    ReplyCode(q) \/ ReplyProse(q) \/ Backoff(q) \/ Retry(q) \/ ModelFails(q)

SandboxReturns(q) ==
    CodeWorks(q) \/ CodeFails(q) \/ SandboxFails(q) \/ SandboxRaises(q)

Proceed(q) == ModelStep(q) \/ Submit(q) \/ CodeRejected(q) \/ SandboxReturns(q)

Next ==
    \E q \in Questions :
        Ask(q) \/ NoProvider(q) \/ Proceed(q) \/ SandboxWorks(q)

Spec == Init /\ [][Next]_vars

\* A provider call returns or raises, a sleep ends, and execute() returns: the
\* last is EveryCallReturns of SandboxExecutor.
Fairness ==
    \A q \in Questions :
        WF_vars(Proceed(q)) /\ WF_vars(SandboxWorks(q))

FairSpec == Spec /\ Fairness

-----------------------------------------------------------------------------
(* Safety                                                                  *)

\* A value shown to the user was computed by the code shown next to it, which
\* is the code of the last reply of this very question, and exactly the
\* attempts before it are listed as failed (agent.py lines 225-246).
AnswerMatchesCode ==
    \A q \in Questions : result[q] = "value" =>
        /\ answer[q] = <<q, attempt[q]>>
        /\ code[q] = attempt[q] /\ raw[q] = attempt[q]
        /\ failed[q] = [i \in 1..attempt[q] - 1 |-> i]
        /\ \A a \in 1..attempt[q] - 1 : outcome[<<q, a>>] # "timeout"

\* The model is asked to repair with the whole history of the question: every
\* failed reply, in order, each followed by its own error (lines 253-257).
PromptIsComplete ==
    \A q \in Questions : phase[q] = "model" =>
        /\ Len(turns[q]) = 2 * (attempt[q] - 1)
        /\ \A i \in 1..attempt[q] - 1 :
            /\ turns[q][2 * i - 1] = [says |-> "reply", of |-> i]
            /\ turns[q][2 * i] = [says |-> "error", of |-> i]
            /\ outcome[<<q, i>>] # None

\* After a timeout neither the model nor the sandbox is asked again for this
\* question (lines 248-251).
TimeoutIsFinal ==
    \A q \in Questions : \A a \in Attempts : outcome[<<q, a>>] = "timeout" =>
        /\ phase[q] = "done" /\ attempt[q] = a
        /\ \A b \in Attempts : b > a => status[<<q, b>>] = "idle"

\* "failure_kind" names what ended the question: the benchmark's taxonomy reads
\* it (lines 53-56), so it must agree with what the sandbox reported.
FailureIsTrue ==
    \A q \in Questions : failure[q] # None =>
        LET last == IF attempt[q] = 0 THEN None ELSE outcome[<<q, attempt[q]>>] IN
        CASE failure[q] = "llm" -> last = None
          [] failure[q] = "rejected" -> last = "rejected"
          [] failure[q] = "timeout" -> last = "timeout"
          [] OTHER -> last \in {"answer", "nostart", "lost", "eof"}

\* "The reported cost is the true cost of answering, not just the last call"
\* (lines 210-211): with n replies delivered it is the sum of n calls, each of
\* which sends the conversation so far, whatever ends the question.
CostIsTrue ==
    \A q \in Questions :
        LET n == IF raw[q] = None THEN 0 ELSE raw[q] IN
        tokens[q] = n * (PromptTokens + ReplyTokens)
                    + ((n * (n - 1)) \div 2) * (ReplyTokens + ErrorTokens)

\* While the model is asked, and once the question is over, no code of this
\* question runs or waits to run.
NothingLeftRunning ==
    \A q \in Questions : phase[q] # "waiting" =>
        \A a \in Attempts : status[<<q, a>>] \in {"idle", "returned"}

-----------------------------------------------------------------------------
(* Liveness                                                                *)

\* Every question that is asked ends: in an answer, an error or an exception.
EveryQuestionEnds ==
    \A q \in Questions : phase[q] = "model" ~> phase[q] \in {"done", "raised"}
=============================================================================
