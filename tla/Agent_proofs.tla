---------------------------- MODULE Agent_proofs ----------------------------
(***************************************************************************)
(* Safety of Agent, for every set of questions, every setting of the repair *)
(* and retry limits and every size of prompts and replies.  IInv (module    *)
(* AgentInv) is inductive: one lemma per conjunct shows that every step     *)
(* preserves it.                                                            *)
(***************************************************************************)
EXTENDS AgentInv, SequenceTheorems, TLAPS

\* Whether MaxRepairs is positive or not, there is at least one attempt.
LEMMA AttemptsExist == MaxAttempts \in Nat /\ MaxAttempts >= 1
  BY SettingsAreIntegers DEF MaxAttempts

\* What execute() returns is not None.
LEMMA NoneIsNoOutcome ==
    None \notin {"nostart", "raised", "lost", "timeout", "eof", "rejected", "answer"}
  BY NoneDistinct DEF Sandbox!Outcomes, Sandbox!Failures

-----------------------------------------------------------------------------
(* Arithmetic of the conversation's size.                                  *)

\* n exchanges are the 2 * n turns of a conversation.
LEMMA HalfOf ==
    ASSUME NEW n \in Nat
    PROVE  n \div 2 \in Nat /\ (2 * n) \div 2 = n
  OBVIOUS

\* n exchanges of w tokens on top of t.
LEMMA SizeType ==
    ASSUME NEW t \in Nat, NEW n \in Nat, NEW w \in Nat
    PROVE  t + n * w \in Nat
  OBVIOUS

\* A prompt has a size.
LEMMA PromptSizeType ==
    ASSUME TypeOK, NEW q \in Questions
    PROVE  PromptSize(q) \in Nat
<1>1. Len(turns[q]) \in Nat
  BY LenProperties DEF TypeOK
<1>2. Len(turns[q]) \div 2 \in Nat
  BY <1>1, HalfOf
<1>3. ReplyTokens + ErrorTokens \in Nat /\ PromptTokens \in Nat
  BY SettingsAreIntegers
<1> QED
  BY <1>2, <1>3, SizeType DEF PromptSize

-----------------------------------------------------------------------------
(* The types.                                                              *)

\* The conversation and the list of failed attempts keep their types.
LEMMA ExtendedType ==
    ASSUME TypeOK, NEW q \in Questions, attempt[q] \in Attempts
    PROVE  Extended(q) \in Seq(Turns) /\ Append(failed[q], attempt[q]) \in Seq(Attempts)
<1>1. turns[q] \in Seq(Turns) /\ failed[q] \in Seq(Attempts)
  BY DEF TypeOK
<1>2. [says |-> "reply", of |-> attempt[q]] \in Turns
      /\ [says |-> "error", of |-> attempt[q]] \in Turns
  BY DEF Turns
<1> QED
  BY <1>1, <1>2, ConcatProperties, AppendProperties DEF Extended

\* A question in the loop is at one of its attempts.
LEMMA AtAttempt ==
    ASSUME TypeOK, Begun, NEW q \in Questions, phase[q] \notin {"idle", "done"}
    PROVE  attempt[q] \in Attempts /\ <<q, attempt[q]>> \in Calls
  BY AttemptsExist DEF TypeOK, Begun, Attempts, Calls

\* Every step keeps the variables in their types.
LEMMA TypeStep == TypeOK /\ Begun /\ [Next]_vars => TypeOK'
<1> SUFFICES ASSUME TypeOK, Begun, [Next]_vars PROVE TypeOK'
  OBVIOUS
<1> USE SettingsAreIntegers, AttemptsExist DEF TypeOK, Goto, Phases, Failures,
      GiveUp, Sandbox!ServiceTypeOK, Sandbox!Move, Sandbox!Statuses,
      Sandbox!Outcomes, Sandbox!Failures,
      sandboxVars, replyVars, endVars, loopVars, vars
<1>1. CASE UNCHANGED vars
  BY <1>1
<1>2. ASSUME NEW q \in Questions, Ask(q) PROVE TypeOK'
  BY <1>2 DEF Ask
<1>3. ASSUME NEW q \in Questions, NoProvider(q) PROVE TypeOK'
  BY <1>3 DEF NoProvider
<1>4. ASSUME NEW q \in Questions, ModelStep(q) PROVE TypeOK'
  <2>1. ASSUME Delivered(q), phase[q] = "model"
        PROVE  raw' \in [Questions -> Attempts \cup {None}] /\ tokens' \in [Questions -> Nat]
    <3>1. tokens[q] + PromptSize(q) + ReplyTokens \in Nat
      BY PromptSizeType
    <3>2. attempt[q] \in Attempts
      BY <2>1, AtAttempt
    <3> QED
      BY <2>1, <3>1, <3>2 DEF Delivered
  <2>2. CASE ReplyCode(q)
    BY <2>1, <2>2 DEF ReplyCode
  <2>3. CASE ReplyProse(q)
    BY <2>1, <2>3 DEF ReplyProse
  <2>4. CASE Backoff(q)
    BY <2>4 DEF Backoff
  <2>5. CASE Retry(q)
    BY <2>5 DEF Retry
  <2>6. CASE ModelFails(q)
    BY <2>6 DEF ModelFails
  <2> QED
    BY <1>4, <2>2, <2>3, <2>4, <2>5, <2>6 DEF ModelStep
<1>5. ASSUME NEW q \in Questions, NEW kind \in Failures, phase[q] \in {"execute", "waiting"},
             Repair(q, kind), UNCHANGED <<raw, tokens>>, Sandbox!ServiceTypeOK'
      PROVE  TypeOK'
  <2>1. attempt[q] \in Attempts /\ <<q, attempt[q]>> \in Calls
    BY <1>5, AtAttempt
  <2>2. failed' \in [Questions -> Seq(Attempts)] /\ code' \in [Questions -> Attempts \cup {None}]
    BY <1>5, <2>1, ExtendedType DEF Repair
  <2>3. CASE LoopEnds(q, kind)
    <3>1. /\ phase' = [phase EXCEPT ![q] = "done"] /\ GiveUp(q, kind)
          /\ UNCHANGED <<attempt, tries, turns>>
      BY <1>5, <2>3 DEF Repair
    <3> QED
      BY <1>5, <2>2, <3>1
  <2>4. CASE ~LoopEnds(q, kind)
    <3>1. /\ phase' = [phase EXCEPT ![q] = "model"]
          /\ attempt' = [attempt EXCEPT ![q] = attempt[q] + 1]
          /\ tries' = [tries EXCEPT ![q] = 0]
          /\ turns' = [turns EXCEPT ![q] = Extended(q)]
          /\ UNCHANGED endVars
      BY <1>5, <2>4 DEF Repair
    <3>2. turns' \in [Questions -> Seq(Turns)]
      BY <2>1, <3>1, ExtendedType
    <3>3. attempt[q] + 1 \in 0..MaxAttempts
      BY <2>1, <2>4 DEF LoopEnds, Attempts
    <3> QED
      BY <1>5, <2>2, <3>1, <3>2, <3>3
  <2> QED
    BY <2>3, <2>4
<1>6. ASSUME NEW q \in Questions, Submit(q) PROVE TypeOK'
  BY <1>6, AtAttempt DEF Submit, Sandbox!Submit
<1>7. ASSUME NEW q \in Questions, CodeRejected(q) PROVE TypeOK'
  <2>1. Sandbox!ServiceTypeOK'
    BY <1>7, AtAttempt DEF CodeRejected, Sandbox!Refuse
  <2> QED
    BY <1>5, <1>7, <2>1 DEF CodeRejected
<1>8. ASSUME NEW q \in Questions, CodeWorks(q) PROVE TypeOK'
  <2>1. Sandbox!ServiceTypeOK'
    BY <1>8, AtAttempt DEF CodeWorks, Sandbox!Answer
  <2> QED
    BY <1>8, <2>1, AtAttempt DEF CodeWorks
<1>9. ASSUME NEW q \in Questions, CodeFails(q) PROVE TypeOK'
  <2>1. Sandbox!ServiceTypeOK'
    BY <1>9, AtAttempt DEF CodeFails, Sandbox!Answer
  <2> QED
    BY <1>5, <1>9, <2>1 DEF CodeFails
<1>10. ASSUME NEW q \in Questions, SandboxFails(q) PROVE TypeOK'
  <2>1. Sandbox!ServiceTypeOK'
    BY <1>10, AtAttempt DEF SandboxFails, Sandbox!Fail
  <2> QED
    BY <1>5, <1>10, <2>1 DEF SandboxFails
<1>11. ASSUME NEW q \in Questions, SandboxRaises(q) PROVE TypeOK'
  BY <1>11, AtAttempt DEF SandboxRaises, Sandbox!Fail
<1>12. ASSUME NEW q \in Questions, SandboxWorks(q) PROVE TypeOK'
  BY <1>12, AtAttempt DEF SandboxWorks, Sandbox!Start, Sandbox!Finish, Sandbox!Abort
<1> QED
  BY <1>1, <1>2, <1>3, <1>4, <1>6, <1>7, <1>8, <1>9, <1>10, <1>11, <1>12
     DEF Next, Proceed, SandboxReturns

-----------------------------------------------------------------------------
(* A question's step.                                                      *)

\* Everything Next does is a step of one question.
Step(q) == Ask(q) \/ NoProvider(q) \/ Proceed(q) \/ SandboxWorks(q)

\* The step of a question touches nothing of another.
LEMMA Frame ==
    ASSUME TypeOK, Begun, NEW q \in Questions, Step(q), NEW r \in Questions, r # q
    PROVE  /\ phase'[r] = phase[r] /\ attempt'[r] = attempt[r]
           /\ turns'[r] = turns[r] /\ code'[r] = code[r] /\ raw'[r] = raw[r]
           /\ result'[r] = result[r] /\ answer'[r] = answer[r]
           /\ failure'[r] = failure[r] /\ failed'[r] = failed[r] /\ tokens'[r] = tokens[r]
           /\ \A a \in Attempts : /\ status'[<<r, a>>] = status[<<r, a>>]
                                /\ outcome'[<<r, a>>] = outcome[<<r, a>>]
<1> USE DEF TypeOK, Sandbox!ServiceTypeOK, Goto, GiveUp, Delivered, Sandbox!Move, Calls,
      sandboxVars, replyVars, endVars, loopVars
<1>1. CASE Ask(q) \/ NoProvider(q)
  BY <1>1 DEF Ask, NoProvider
<1>2. CASE ModelStep(q)
  BY <1>2 DEF ModelStep, ReplyCode, ReplyProse, Backoff, Retry, ModelFails
<1>3. CASE Submit(q) \/ SandboxWorks(q)
  BY <1>3 DEF Submit, SandboxWorks, Sandbox!Submit, Sandbox!Start, Sandbox!Finish, Sandbox!Abort
<1>4. CASE CodeRejected(q)
  BY <1>4 DEF CodeRejected, Sandbox!Refuse, Repair
<1>5. CASE CodeWorks(q)
  BY <1>5 DEF CodeWorks, Sandbox!Answer
<1>6. CASE CodeFails(q)
  BY <1>6 DEF CodeFails, Sandbox!Answer, Repair
<1>7. CASE SandboxFails(q)
  BY <1>7 DEF SandboxFails, Sandbox!Fail, Repair
<1>8. CASE SandboxRaises(q)
  BY <1>8 DEF SandboxRaises, Sandbox!Fail
<1> QED
  BY <1>1, <1>2, <1>3, <1>4, <1>5, <1>6, <1>7, <1>8 DEF Step, Proceed, SandboxReturns

\* The sandbox's outcomes that each failure kind stands for.
Agrees(kind, o) ==
    \/ kind = "rejected" /\ o = "rejected"
    \/ kind = "timeout" /\ o = "timeout"
    \/ kind = "runtime" /\ o \in {"answer", "nostart", "lost", "eof"}

\* The three ways for an attempt to fail are one: the call returns o, and the
\* question goes on as after a failure of that kind.
Failing(q, kind, o) ==
    /\ phase[q] \in {"execute", "waiting"} /\ Agrees(kind, o)
    /\ status' = [status EXCEPT ![<<q, attempt[q]>>] = "returned"]
    /\ outcome' = [outcome EXCEPT ![<<q, attempt[q]>>] = o]
    /\ Repair(q, kind)
    /\ UNCHANGED <<raw, tokens>>

\* A rejection, an exception of the code and a failure of the sandbox are each
\* handled as the failure they are.
LEMMA FailureKinds ==
    ASSUME TypeOK, Begun, NEW q \in Questions,
           CodeRejected(q) \/ CodeFails(q) \/ SandboxFails(q)
    PROVE  \E kind, o : Failing(q, kind, o)
<1>1. CASE CodeRejected(q)
  <2>1. Failing(q, "rejected", "rejected")
    BY <1>1 DEF CodeRejected, Failing, Agrees, Sandbox!Refuse, Sandbox!Move
  <2> QED
    BY <2>1
<1>2. CASE CodeFails(q)
  <2>1. Failing(q, "runtime", "answer")
    BY <1>2 DEF CodeFails, Failing, Agrees, Sandbox!Answer, Sandbox!Move
  <2> QED
    BY <2>1
<1>3. CASE SandboxFails(q)
  <2> DEFINE c == <<q, attempt[q]>>
  <2>1. PICK o \in Sandbox!Failures : outcome' = [outcome EXCEPT ![c] = o]
    BY <1>3 DEF SandboxFails, Sandbox!Fail
  <2>2. outcome'[c] = o
    BY <1>3, <2>1, AtAttempt DEF SandboxFails, TypeOK, Sandbox!ServiceTypeOK
  <2>3. Failing(q, IF o = "timeout" THEN "timeout" ELSE "runtime", o)
    BY <1>3, <2>1, <2>2
       DEF SandboxFails, Failing, Agrees, Sandbox!Fail, Sandbox!Move, Sandbox!Failures
  <2> QED
    BY <2>3
<1> QED
  BY <1>1, <1>2, <1>3

\* What that leaves of the question: it is over, or at its next attempt.
Failed(q, kind, o) ==
    /\ phase[q] \in {"execute", "waiting"} /\ attempt[q] \in Attempts /\ Agrees(kind, o)
    /\ status'[<<q, attempt[q]>>] = "returned" /\ outcome'[<<q, attempt[q]>>] = o
    /\ \A a \in Attempts : a # attempt[q] =>
        status'[<<q, a>>] = status[<<q, a>>] /\ outcome'[<<q, a>>] = outcome[<<q, a>>]
    /\ failed'[q] = Append(failed[q], attempt[q])
    /\ raw' = raw /\ tokens' = tokens
    /\ \/ /\ LoopEnds(q, kind)
          /\ phase'[q] = "done" /\ attempt'[q] = attempt[q]
          /\ result'[q] = "error" /\ failure'[q] = kind
       \/ /\ ~LoopEnds(q, kind)
          /\ phase'[q] = "model" /\ attempt'[q] = attempt[q] + 1
          /\ turns'[q] = Extended(q)
          /\ result'[q] = result[q] /\ failure'[q] = failure[q]

\* A failing step leaves the question so.
LEMMA AfterFailure ==
    ASSUME TypeOK, Begun, NEW q \in Questions, NEW kind, NEW o, Failing(q, kind, o)
    PROVE  Failed(q, kind, o)
  BY AtAttempt DEF Failed, Failing, Repair, GiveUp, endVars, TypeOK, Sandbox!ServiceTypeOK, Calls

\* Every step is one of eight.
LEMMA StepCases ==
    ASSUME TypeOK, Begun, NEW q \in Questions, Step(q)
    PROVE  \/ Ask(q) \/ NoProvider(q) \/ ModelStep(q) \/ Submit(q)
           \/ (\E kind, o : Failed(q, kind, o))
           \/ CodeWorks(q) \/ SandboxRaises(q) \/ SandboxWorks(q)
  BY FailureKinds, AfterFailure DEF Step, Proceed, SandboxReturns

-----------------------------------------------------------------------------
(* Each conjunct of the invariant is preserved.                            *)

\* Attempts are counted from the question on.
LEMMA BegunStep ==
    ASSUME TypeOK, Begun, NEW q \in Questions, Step(q)
    PROVE  Begun'
<1> SUFFICES ASSUME NEW r \in Questions
             PROVE  /\ phase'[r] = "idle" => attempt'[r] = 0
                    /\ attempt'[r] = 0 => phase'[r] \in {"idle", "done"}
  BY DEF Begun
<1>1. CASE r # q
  BY <1>1, Frame DEF Begun
<1>2. CASE r = q
  <2> USE <1>2, AttemptsExist DEF Begun, TypeOK, Goto, Attempts
  <2>1. CASE Ask(q) \/ NoProvider(q)
    BY <2>1 DEF Ask, NoProvider
  <2>2. CASE ModelStep(q)
    BY <2>2 DEF ModelStep, ReplyCode, ReplyProse, Backoff, Retry, ModelFails
  <2>3. ASSUME NEW kind, NEW o, Failed(q, kind, o)
        PROVE  attempt'[q] # 0 /\ phase'[q] # "idle"
    BY <2>3 DEF Failed
  <2>4. CASE Submit(q) \/ CodeWorks(q) \/ SandboxRaises(q) \/ SandboxWorks(q)
    BY <2>4 DEF Submit, CodeWorks, SandboxRaises, SandboxWorks, loopVars
  <2> QED
    BY <2>1, <2>2, <2>3, <2>4, StepCases
<1> QED
  BY <1>1, <1>2

\* An attempt that is followed by another failed, and not by a timeout.
LEMMA PastStep ==
    ASSUME TypeOK, Begun, Past, Present, NEW q \in Questions, Step(q)
    PROVE  Past'
<1> SUFFICES ASSUME NEW r \in Questions, NEW a \in Attempts, a < attempt'[r]
             PROVE  /\ status'[<<r, a>>] = "returned"
                    /\ outcome'[<<r, a>>] \notin {None, "timeout", "raised"}
  BY DEF Past, Attempts
<1>1. CASE r # q
  BY <1>1, Frame DEF Past
<1>2. CASE r = q
  <2> USE <1>2, AttemptsExist DEF Past, TypeOK, Goto, Attempts, Calls, Sandbox!ServiceTypeOK, Sandbox!Move
  <2>1. CASE Ask(q) \/ NoProvider(q)
    BY <2>1 DEF Ask, NoProvider, sandboxVars
  <2>2. CASE ModelStep(q)
    BY <2>2 DEF ModelStep, ReplyCode, ReplyProse, Backoff, Retry, ModelFails, sandboxVars
  <2>3. ASSUME NEW kind, NEW o, Failed(q, kind, o)
        PROVE  /\ status'[<<q, a>>] = "returned"
               /\ outcome'[<<q, a>>] \notin {None, "timeout", "raised"}
    <3>1. CASE a = attempt[q]
      <4>1. /\ status'[<<q, a>>] = "returned" /\ outcome'[<<q, a>>] = o
            /\ Agrees(kind, o) /\ ~LoopEnds(q, kind)
        BY <2>3, <3>1 DEF Failed
      <4>2. o \in {"rejected", "answer", "nostart", "lost", "eof"}
        BY <4>1 DEF Agrees, LoopEnds
      <4> QED
        BY <4>1, <4>2, NoneIsNoOutcome
    <3>2. CASE a # attempt[q]
      <4>1. a < attempt[q]
        BY <2>3, <3>2 DEF Failed
      <4>2. status'[<<q, a>>] = status[<<q, a>>] /\ outcome'[<<q, a>>] = outcome[<<q, a>>]
        BY <2>3, <3>2 DEF Failed
      <4> QED
        BY <4>1, <4>2
    <3> QED
      BY <3>1, <3>2
  <2>4. CASE Submit(q)
    BY <2>4 DEF Submit, Sandbox!Submit
  <2>5. CASE CodeWorks(q)
    BY <2>5 DEF CodeWorks, Sandbox!Answer
  <2>6. CASE SandboxRaises(q)
    BY <2>6 DEF SandboxRaises, Sandbox!Fail
  <2>7. CASE SandboxWorks(q)
    BY <2>7 DEF SandboxWorks, Sandbox!Start, Sandbox!Finish, Sandbox!Abort, loopVars
  <2> QED
    BY <2>1, <2>2, <2>3, <2>4, <2>5, <2>6, <2>7, StepCases
<1> QED
  BY <1>1, <1>2

\* The attempts to come stay untouched.
LEMMA ToComeStep ==
    ASSUME TypeOK, Begun, ToCome, NEW q \in Questions, Step(q)
    PROVE  ToCome'
<1> SUFFICES ASSUME NEW r \in Questions, NEW a \in Attempts, a > attempt'[r]
             PROVE  status'[<<r, a>>] = "idle" /\ outcome'[<<r, a>>] = None
  BY DEF ToCome, Attempts
<1>1. CASE r # q
  BY <1>1, Frame DEF ToCome
<1>2. CASE r = q
  <2> USE <1>2, AttemptsExist DEF ToCome, TypeOK, Goto, Attempts, Calls, Sandbox!ServiceTypeOK, Sandbox!Move
  <2>1. CASE Ask(q) \/ NoProvider(q)
    BY <2>1 DEF Ask, NoProvider, Begun, sandboxVars
  <2>2. CASE ModelStep(q)
    BY <2>2 DEF ModelStep, ReplyCode, ReplyProse, Backoff, Retry, ModelFails, sandboxVars
  <2>3. ASSUME NEW kind, NEW o, Failed(q, kind, o)
        PROVE  status'[<<q, a>>] = "idle" /\ outcome'[<<q, a>>] = None
    <3>1. a > attempt[q] /\ a # attempt[q]
      BY <2>3 DEF Failed
    <3> QED
      BY <2>3, <3>1 DEF Failed
  <2>4. CASE Submit(q)
    BY <2>4 DEF Submit, Sandbox!Submit
  <2>5. CASE CodeWorks(q)
    BY <2>5 DEF CodeWorks, Sandbox!Answer
  <2>6. CASE SandboxRaises(q)
    BY <2>6 DEF SandboxRaises, Sandbox!Fail
  <2>7. CASE SandboxWorks(q)
    BY <2>7 DEF SandboxWorks, Sandbox!Start, Sandbox!Finish, Sandbox!Abort, loopVars
  <2> QED
    BY <2>1, <2>2, <2>3, <2>4, <2>5, <2>6, <2>7, StepCases
<1> QED
  BY <1>1, <1>2

\* The present attempt is where the question's phase says.
LEMMA PresentStep ==
    ASSUME TypeOK, Begun, Present, ToCome, NEW q \in Questions, Step(q)
    PROVE  Present'
<1> DEFINE Here(r, a) ==
      /\ phase[r] = "waiting" <=>
             status[<<r, a>>] \in {"pending", "running", "finished", "aborted"}
      /\ phase[r] \in {"model", "backoff", "execute"} => status[<<r, a>>] = "idle"
      /\ status[<<r, a>>] = "returned" <=> outcome[<<r, a>>] # None
      /\ outcome[<<r, a>>] = "raised" <=> phase[r] = "raised"
<1> SUFFICES ASSUME NEW r \in Questions, NEW a \in Attempts, a = attempt'[r]
             PROVE  Here(r, a)'
  BY DEF Present, Attempts
<1>1. CASE r # q
  BY <1>1, Frame DEF Present
<1>2. CASE r = q
  <2> USE <1>2, AttemptsExist, NoneDistinct
       DEF Present, TypeOK, Goto, Attempts, Calls, Phases,
      Sandbox!ServiceTypeOK, Sandbox!Move, Sandbox!Outcomes, Sandbox!Failures
  <2>1. CASE Ask(q)
    <3>1. status[<<q, a>>] = "idle" /\ outcome[<<q, a>>] = None
      BY <2>1 DEF Ask, Begun, ToCome
    <3> QED
      BY <2>1, <3>1 DEF Ask, sandboxVars
  <2>2. CASE NoProvider(q)
    BY <2>2 DEF NoProvider, Begun
  <2>3. CASE ModelStep(q)
    BY <2>3 DEF ModelStep, ReplyCode, ReplyProse, Backoff, Retry, ModelFails, sandboxVars
  <2>4. ASSUME NEW kind, NEW o, Failed(q, kind, o)
        PROVE  Here(q, a)'
    <3>1. CASE attempt'[q] = attempt[q]
      BY <2>4, <3>1 DEF Failed, Agrees
    <3>2. CASE attempt'[q] = attempt[q] + 1
      <4>1. status[<<q, a>>] = "idle" /\ outcome[<<q, a>>] = None
        BY <3>2 DEF ToCome
      <4>2. status'[<<q, a>>] = "idle" /\ outcome'[<<q, a>>] = None
        BY <2>4, <3>2, <4>1 DEF Failed
      <4> QED
        BY <2>4, <3>2, <4>2 DEF Failed
    <3> QED
      BY <2>4, <3>1, <3>2 DEF Failed
  <2>5. CASE Submit(q)
    BY <2>5 DEF Submit, Sandbox!Submit
  <2>6. CASE CodeWorks(q)
    BY <2>6 DEF CodeWorks, Sandbox!Answer
  <2>7. CASE SandboxRaises(q)
    BY <2>7 DEF SandboxRaises, Sandbox!Fail
  <2>8. CASE SandboxWorks(q)
    BY <2>8 DEF SandboxWorks, Sandbox!Start, Sandbox!Finish, Sandbox!Abort, loopVars
  <2> QED
    BY <2>1, <2>2, <2>3, <2>4, <2>5, <2>6, <2>7, <2>8, StepCases
<1> QED
  BY <1>1, <1>2

\* The last reply is the present attempt's from its delivery on.
LEMMA LastReplyStep ==
    ASSUME TypeOK, Begun, LastReply, NEW q \in Questions, Step(q)
    PROVE  LastReply'
<1> DEFINE Last(r) ==
      /\ phase[r] = "idle" => raw[r] = None
      /\ phase[r] \in {"model", "backoff"} =>
             raw[r] = IF attempt[r] = 1 THEN None ELSE attempt[r] - 1
      /\ phase[r] \in {"execute", "waiting"} => raw[r] = attempt[r]
<1> SUFFICES ASSUME NEW r \in Questions PROVE Last(r)'
  BY DEF LastReply
<1>1. CASE r # q
  BY <1>1, Frame DEF LastReply
<1>2. CASE r = q
  <2> USE <1>2, AttemptsExist DEF LastReply, TypeOK, Goto, Attempts
  <2>1. CASE Ask(q) \/ NoProvider(q)
    BY <2>1 DEF Ask, NoProvider, replyVars
  <2>2. CASE ModelStep(q)
    BY <2>2 DEF ModelStep, ReplyCode, ReplyProse, Backoff, Retry, ModelFails, replyVars, Delivered
  <2>3. ASSUME NEW kind, NEW o, Failed(q, kind, o)
        PROVE  Last(q)'
    <3>1. raw[q] = attempt[q] /\ raw' = raw /\ attempt[q] \in Nat /\ attempt[q] >= 1
      BY <2>3 DEF Failed
    <3>2. phase'[q] = "done" \/ (phase'[q] = "model" /\ attempt'[q] = attempt[q] + 1)
      BY <2>3 DEF Failed
    <3>3. CASE phase'[q] = "done"
      BY <3>3
    <3>4. CASE phase'[q] = "model" /\ attempt'[q] = attempt[q] + 1
      <4>1. attempt'[q] # 1 /\ attempt'[q] - 1 = attempt[q]
        BY ONLY <3>1, <3>4
      <4>2. raw'[q] = attempt'[q] - 1
        BY <3>1, <4>1
      <4> QED
        BY <3>4, <4>1, <4>2
    <3> QED
      BY <3>2, <3>3, <3>4
  <2>4. CASE Submit(q)
    BY <2>4 DEF Submit, replyVars
  <2>5. CASE CodeWorks(q)
    BY <2>5 DEF CodeWorks
  <2>6. CASE SandboxRaises(q)
    BY <2>6 DEF SandboxRaises
  <2>7. CASE SandboxWorks(q)
    BY <2>7 DEF SandboxWorks, loopVars, replyVars
  <2> QED
    BY <2>1, <2>2, <2>3, <2>4, <2>5, <2>6, <2>7, StepCases
<1> QED
  BY <1>1, <1>2

\* The user is shown a result only when the question is over.
LEMMA UnansweredStep ==
    ASSUME TypeOK, Begun, Unanswered, NEW q \in Questions, Step(q)
    PROVE  Unanswered'
<1> SUFFICES ASSUME NEW r \in Questions, phase'[r] # "done"
             PROVE  result'[r] = None /\ failure'[r] = None
  BY DEF Unanswered
<1>1. CASE r # q
  BY <1>1, Frame DEF Unanswered
<1>2. CASE r = q
  <2> USE <1>2 DEF Unanswered, TypeOK, Goto
  <2>1. CASE Ask(q) \/ NoProvider(q)
    BY <2>1 DEF Ask, NoProvider, endVars
  <2>2. CASE ModelStep(q)
    BY <2>2 DEF ModelStep, ReplyCode, ReplyProse, Backoff, Retry, ModelFails, endVars
  <2>3. ASSUME NEW kind, NEW o, Failed(q, kind, o)
        PROVE  result'[q] = None /\ failure'[q] = None
    BY <2>3 DEF Failed
  <2>4. CASE Submit(q) \/ CodeWorks(q) \/ SandboxRaises(q) \/ SandboxWorks(q)
    BY <2>4 DEF Submit, CodeWorks, SandboxRaises, SandboxWorks, loopVars, endVars
  <2> QED
    BY <2>1, <2>2, <2>3, <2>4, StepCases
<1> QED
  BY <1>1, <1>2

\* The list of the attempts up to n, with the next one, is that up to n + 1.
LEMMA AppendNext ==
    ASSUME NEW n \in Nat
    PROVE  Append([i \in 1..n |-> i], n + 1) = [i \in 1..n + 1 |-> i]
<1> DEFINE s == [i \in 1..n |-> i]
           t == Append(s, n + 1)
<1>1. s \in Seq(Nat) /\ Len(s) = n
  BY SMT
<1>2. /\ t \in Seq(Nat) /\ Len(t) = n + 1
      /\ \A i \in 1..n : t[i] = i
      /\ t[n + 1] = n + 1
  BY <1>1, AppendProperties
<1>3. DOMAIN t = 1..n + 1
  BY <1>2, LenProperties
<1>4. \A i \in 1..n + 1 : t[i] = i
  BY <1>2
<1> HIDE DEF t
<1>5. t = [i \in DOMAIN t |-> t[i]]
  BY <1>2, LenProperties
<1> QED
  BY <1>3, <1>4, <1>5 DEF t

\* The conversation and the failed attempts grow together, one attempt at a time.
LEMMA HistoryStep ==
    ASSUME TypeOK, Begun, History, NEW q \in Questions, Step(q)
    PROVE  History'
<1> DEFINE Told(r) ==
      /\ phase[r] = "idle" => failed[r] = <<>> /\ turns[r] = <<>>
      /\ Looping(r) =>
          /\ failed[r] = [i \in 1..attempt[r] - 1 |-> i]
          /\ Len(turns[r]) = 2 * (attempt[r] - 1)
          /\ \A i \in 1..attempt[r] - 1 :
              /\ turns[r][2 * i - 1] = [says |-> "reply", of |-> i]
              /\ turns[r][2 * i] = [says |-> "error", of |-> i]
<1> SUFFICES ASSUME NEW r \in Questions PROVE Told(r)'
  BY DEF History
<1>0. Told(r)
  BY DEF History
<1>1. CASE r # q
  <2>1. /\ phase'[r] = phase[r] /\ attempt'[r] = attempt[r]
        /\ turns'[r] = turns[r] /\ failed'[r] = failed[r]
    BY <1>1, Frame
  <2> QED
    BY ONLY <1>0, <2>1 DEF Looping
<1>2. CASE r = q
  <2>1. CASE Ask(q)
    <3>1. /\ attempt'[r] = 1 /\ phase'[r] = "model"
          /\ turns'[r] = <<>> /\ failed'[r] = <<>>
      BY <1>0, <1>2, <2>1 DEF Ask, Goto, TypeOK
    <3>2. <<>> = [i \in 1..1 - 1 |-> i]
      OBVIOUS
    <3> QED
      BY ONLY <3>1, <3>2
  <2>2. CASE \/ NoProvider(q) \/ ReplyProse(q) \/ ModelFails(q)
             \/ CodeWorks(q) \/ SandboxRaises(q)
    <3>1. phase'[r] \in {"done", "raised"}
      BY <1>2, <2>2
         DEF NoProvider, ReplyProse, ModelFails, CodeWorks, SandboxRaises, Goto, TypeOK
    <3> QED
      BY ONLY <3>1 DEF Looping
  <2>3. CASE ReplyCode(q) \/ Backoff(q) \/ Retry(q) \/ Submit(q) \/ SandboxWorks(q)
    <3>1. /\ phase'[r] # "idle" /\ Looping(r)
          /\ attempt'[r] = attempt[r] /\ turns'[r] = turns[r] /\ failed'[r] = failed[r]
      BY <1>2, <2>3
         DEF ReplyCode, Backoff, Retry, Submit, SandboxWorks, Goto, TypeOK, Looping, loopVars
    <3> QED
      BY ONLY <1>0, <3>1
  <2>4. ASSUME NEW kind, NEW o, Failed(q, kind, o)
        PROVE  Told(r)'
    <3> DEFINE n == attempt[q] - 1
    <3>1. attempt[q] \in Attempts /\ Looping(q) /\ failed'[q] = Append(failed[q], attempt[q])
      BY <2>4 DEF Failed, Looping
    <3>2. n \in Nat /\ n + 1 = attempt[q]
      BY <3>1, AttemptsExist DEF Attempts
    <3>3. CASE phase'[q] = "done"
      BY ONLY <1>2, <3>3 DEF Looping
    <3>4. CASE phase'[q] = "model" /\ attempt'[q] = attempt[q] + 1 /\ turns'[q] = Extended(q)
      <4>1. /\ failed[q] = [i \in 1..n |-> i] /\ Len(turns[q]) = 2 * n
            /\ \A i \in 1..n : /\ turns[q][2 * i - 1] = [says |-> "reply", of |-> i]
                             /\ turns[q][2 * i] = [says |-> "error", of |-> i]
        BY <1>0, <1>2, <3>1
      <4>2. attempt'[q] - 1 = n + 1
        BY ONLY <3>2, <3>4
      <4> HIDE DEF n
      <4>3. failed'[q] = [i \in 1..attempt'[q] - 1 |-> i]
        BY <3>1, <3>2, <4>1, <4>2, AppendNext
      <4> DEFINE x == [says |-> "reply", of |-> attempt[q]]
                 y == [says |-> "error", of |-> attempt[q]]
      <4>4. x \in Turns /\ y \in Turns /\ turns[q] \in Seq(Turns)
        BY <3>1 DEF Turns, TypeOK
      <4>5. turns'[q] = turns[q] \o <<x, y>>
        BY <3>4 DEF Extended
      <4> HIDE DEF x, y
      <4>6. /\ Len(turns'[q]) = 2 * (n + 1)
            /\ \A i \in 1..2 * n : turns'[q][i] = turns[q][i]
            /\ turns'[q][2 * n + 1] = x /\ turns'[q][2 * n + 2] = y
        <5>1. n \in Nat /\ Len(turns[q]) = 2 * n
          BY <3>2, <4>1
        <5> DEFINE s == turns[q]
        <5>2. s \in Seq(Turns) /\ Len(s) = 2 * n
          BY ONLY <4>4, <5>1
        <5> HIDE DEF s
        <5>3. /\ Len(s \o <<x, y>>) = 2 * (n + 1)
              /\ \A i \in 1..2 * n : (s \o <<x, y>>)[i] = s[i]
              /\ (s \o <<x, y>>)[2 * n + 1] = x /\ (s \o <<x, y>>)[2 * n + 2] = y
          BY ONLY <4>4, <5>1, <5>2, SMTT(30)
        <5> QED
          BY ONLY <4>5, <5>3 DEF s
      <4>7. ASSUME NEW i \in 1..attempt'[q] - 1
            PROVE  /\ turns'[q][2 * i - 1] = [says |-> "reply", of |-> i]
                   /\ turns'[q][2 * i] = [says |-> "error", of |-> i]
        <5>1. i \in 1..n + 1
          BY <4>2, <4>7
        <5>2. CASE i = n + 1
          <6>1. 2 * i - 1 = 2 * n + 1 /\ 2 * i = 2 * n + 2
            BY ONLY <3>2, <5>2
          <6> QED
            BY <3>2, <4>6, <5>2, <6>1 DEF x, y
        <5>3. CASE i \in 1..n
          <6>1. 2 * i - 1 \in 1..2 * n /\ 2 * i \in 1..2 * n
            BY ONLY <3>2, <5>3
          <6> QED
            BY <4>1, <4>6, <5>3, <6>1
        <5> QED
          BY ONLY <3>2, <5>1, <5>2, <5>3
      <4> QED
        BY <1>2, <3>4, <4>2, <4>3, <4>6, <4>7
    <3> QED
      BY <2>4, <3>3, <3>4 DEF Failed
  <2> QED
    BY <2>1, <2>2, <2>3, <2>4, StepCases DEF ModelStep
<1> QED
  BY <1>1, <1>2

\* The sum of the numbers below n + 1 is that of the numbers below n, and n.
LEMMA Triangle ==
    ASSUME NEW n \in Nat
    PROVE  /\ (n * (n - 1)) \div 2 \in Nat
           /\ ((n + 1) * (n + 1 - 1)) \div 2 = (n * (n - 1)) \div 2 + n
<1>1. n * (n - 1) \in Nat
  <2>1. CASE n = 0
    BY <2>1
  <2>2. CASE n # 0
    <3>1. n - 1 \in Nat
      BY <2>2
    <3>2. \A k, m \in Nat : k * m \in Nat
      OBVIOUS
    <3> QED
      BY <3>1, <3>2
  <2> QED
    BY <2>1, <2>2
<1>2. (n + 1) * (n + 1 - 1) = n * (n - 1) + 2 * n
  OBVIOUS
<1>3. \A k, m \in Nat : k \div 2 \in Nat /\ (k + 2 * m) \div 2 = k \div 2 + m
  OBVIOUS
<1> QED
  BY <1>1, <1>2, <1>3

\* What n calls have cost.
Cost(n) == n * (PromptTokens + ReplyTokens)
           + ((n * (n - 1)) \div 2) * (ReplyTokens + ErrorTokens)

\* A call that sends n exchanges makes the cost of n calls that of n + 1.
LEMMA CostOfOneMore ==
    ASSUME NEW n \in Nat
    PROVE  Cost(n) + (PromptTokens + n * (ReplyTokens + ErrorTokens)) + ReplyTokens = Cost(n + 1)
<1> DEFINE p == PromptTokens
           r == ReplyTokens
           e == ErrorTokens
<1>0. p \in Nat /\ r \in Nat /\ e \in Nat
  BY SettingsAreIntegers
<1> HIDE DEF p, r, e
<1> DEFINE k == (n * (n - 1)) \div 2
           m == ((n + 1) * (n + 1 - 1)) \div 2
<1>1. k \in Nat /\ m = k + n
  BY Triangle
<1> HIDE DEF k, m
<1>2. (k + n) * (r + e) = k * (r + e) + n * (r + e)
  BY <1>0, <1>1
<1>3. (n + 1) * (p + r) = n * (p + r) + (p + r)
  BY <1>0
<1>4. n * (p + r) \in Nat /\ k * (r + e) \in Nat /\ n * (r + e) \in Nat
  BY <1>0, <1>1
<1>5. n * (p + r) + k * (r + e) + (p + n * (r + e)) + r
      = (n + 1) * (p + r) + m * (r + e)
  BY <1>0, <1>1, <1>2, <1>3, <1>4
<1> QED
  BY <1>5 DEF k, m, p, r, e, Cost

\* The cost grows by one call each time a reply is delivered.
LEMMA CostStep ==
    ASSUME TypeOK, Begun, History, LastReply, CostIsTrue, NEW q \in Questions, Step(q)
    PROVE  CostIsTrue'
<1> DEFINE Replied(r) == IF raw[r] = None THEN 0 ELSE raw[r]
<1> SUFFICES ASSUME NEW r \in Questions PROVE tokens'[r] = Cost(Replied(r)')
  BY DEF CostIsTrue, Cost
<1>0. tokens[r] = Cost(Replied(r))
  BY DEF CostIsTrue, Cost
<1>1. CASE raw'[r] = raw[r] /\ tokens'[r] = tokens[r]
  BY ONLY <1>0, <1>1
<1>2. CASE r = q /\ phase[q] = "model" /\ Delivered(q)
  <2> DEFINE n == attempt[q] - 1
  <2>1. n \in Nat /\ n + 1 = attempt[q]
    <3>1. attempt[q] \in Attempts
      BY <1>2, AtAttempt
    <3> QED
      BY ONLY <3>1, AttemptsExist DEF Attempts
  <2>2. Replied(q) = n /\ Len(turns[q]) = 2 * n
    <3>1. raw[q] = IF attempt[q] = 1 THEN None ELSE attempt[q] - 1
      BY <1>2 DEF LastReply
    <3>2. Len(turns[q]) = 2 * (attempt[q] - 1)
      BY <1>2 DEF History, Looping
    <3>3. n \in Attempts \/ attempt[q] = 1
      <4>1. attempt[q] \in Attempts
        BY <1>2, AtAttempt
      <4> QED
        BY ONLY <2>1, <4>1, AttemptsExist DEF Attempts
    <3>4. CASE attempt[q] = 1
      BY ONLY <3>1, <3>2, <3>4
    <3>5. CASE attempt[q] # 1
      <4>1. n # None
        BY <3>3, <3>5, NoneDistinct
      <4> QED
        BY ONLY <3>1, <3>2, <3>5, <4>1
    <3> QED
      BY <3>4, <3>5
  <2>3. PromptSize(q) = PromptTokens + n * (ReplyTokens + ErrorTokens)
    BY <2>1, <2>2, HalfOf DEF PromptSize
  <2>4. tokens'[q] = tokens[q] + PromptSize(q) + ReplyTokens /\ raw'[q] = attempt[q]
    BY <1>2 DEF Delivered, TypeOK
  <2>5. attempt[q] # None
    BY <1>2, AtAttempt, NoneDistinct
  <2>6. Replied(q)' = n + 1
    BY ONLY <2>1, <2>4, <2>5
  <2>7. Cost(n) + (PromptTokens + n * (ReplyTokens + ErrorTokens)) + ReplyTokens = Cost(n + 1)
    BY <2>1, CostOfOneMore
  <2> QED
    BY ONLY <1>0, <1>2, <2>2, <2>3, <2>4, <2>6, <2>7
<1>3. CASE r # q
  BY <1>1, <1>3, Frame
<1>4. CASE r = q
  <2>1. CASE ReplyCode(q) \/ ReplyProse(q)
    BY <1>2, <1>4, <2>1 DEF ReplyCode, ReplyProse, Goto
  <2>2. CASE \/ Ask(q) \/ NoProvider(q) \/ Backoff(q) \/ Retry(q) \/ ModelFails(q)
             \/ Submit(q) \/ CodeWorks(q) \/ SandboxRaises(q) \/ SandboxWorks(q)
    <3>1. raw' = raw /\ tokens' = tokens
      BY <2>2 DEF Ask, NoProvider, Backoff, Retry, ModelFails, Submit, CodeWorks,
                  SandboxRaises, SandboxWorks, replyVars
    <3> QED
      BY <1>1, <3>1
  <2>3. ASSUME NEW kind, NEW o, Failed(q, kind, o)
        PROVE  raw' = raw /\ tokens' = tokens
    BY <2>3 DEF Failed
  <2> QED
    BY <1>1, <2>1, <2>2, <2>3, StepCases DEF ModelStep
<1> QED
  BY <1>3, <1>4

\* A question that is over takes no step.
LEMMA OverIsOver ==
    ASSUME TypeOK, Begun, NEW q \in Questions, Step(q)
    PROVE  phase[q] \notin {"done", "raised"}
<1>1. CASE \E kind, o : Failed(q, kind, o)
  BY <1>1 DEF Failed
<1>2. CASE ~\E kind, o : Failed(q, kind, o)
  BY <1>2, StepCases
     DEF Ask, NoProvider, ModelStep, ReplyCode, ReplyProse, Backoff, Retry, ModelFails,
         Submit, CodeWorks, SandboxRaises, SandboxWorks, Goto
<1> QED
  BY <1>1, <1>2

\* A failure is named when the question ends in it, after what the sandbox said.
LEMMA FailureStep ==
    ASSUME TypeOK, Begun, Present, Unanswered, FailureIsTrue, NEW q \in Questions, Step(q)
    PROVE  FailureIsTrue'
<1> DEFINE LastOf(r) == IF attempt[r] = 0 THEN None ELSE outcome[<<r, attempt[r]>>]
           True(r) == CASE failure[r] = "llm" -> LastOf(r) = None
                        [] failure[r] = "rejected" -> LastOf(r) = "rejected"
                        [] failure[r] = "timeout" -> LastOf(r) = "timeout"
                        [] OTHER -> LastOf(r) \in {"answer", "nostart", "lost", "eof"}
<1> SUFFICES ASSUME NEW r \in Questions, failure'[r] # None PROVE True(r)'
  BY DEF FailureIsTrue
<1>1. CASE r # q
  <2>1. failure'[r] = failure[r] /\ attempt'[r] = attempt[r]
    BY <1>1, Frame
  <2>2. attempt[r] # 0 => outcome'[<<r, attempt[r]>>] = outcome[<<r, attempt[r]>>]
    <3>1. attempt[r] \in 0..MaxAttempts
      BY DEF TypeOK
    <3>2. attempt[r] # 0 => attempt[r] \in Attempts
      BY ONLY <3>1, AttemptsExist DEF Attempts
    <3> QED
      BY <1>1, <3>2, Frame
  <2>3. True(r)
    BY <2>1 DEF FailureIsTrue
  <2> QED
    BY ONLY <2>1, <2>2, <2>3
<1>2. CASE r = q
  <2>0. failure[q] = None
    BY OverIsOver DEF Unanswered
  <2>1. CASE NoProvider(q)
    <3>1. attempt'[q] = 0 /\ failure'[q] = "llm"
      BY <2>1 DEF NoProvider, Goto, GiveUp, Begun, TypeOK
    <3> QED
      BY ONLY <1>2, <3>1
  <2>2. CASE ModelFails(q)
    <3>1. phase[q] = "model" /\ attempt'[q] = attempt[q] /\ failure'[q] = "llm" /\ outcome' = outcome
      BY <2>2 DEF ModelFails, Goto, GiveUp, TypeOK, sandboxVars
    <3>2. outcome[<<q, attempt[q]>>] = None
      BY <3>1, AtAttempt DEF Present
    <3> QED
      BY ONLY <1>2, <3>1, <3>2
  <2>3. ASSUME NEW kind, NEW o, Failed(q, kind, o)
        PROVE  True(q)'
    <3>1. attempt'[q] = attempt[q] /\ failure'[q] = kind
      BY <1>2, <2>0, <2>3 DEF Failed
    <3>2. attempt[q] # 0 /\ Agrees(kind, o) /\ outcome'[<<q, attempt[q]>>] = o
      BY <2>3, AttemptsExist DEF Failed, Attempts
    <3> QED
      BY ONLY <1>2, <3>1, <3>2 DEF Agrees
  <2>4. CASE \/ Ask(q) \/ ReplyCode(q) \/ ReplyProse(q) \/ Backoff(q) \/ Retry(q)
             \/ Submit(q) \/ CodeWorks(q) \/ SandboxRaises(q) \/ SandboxWorks(q)
    <3>1. failure' = failure
      BY <2>4 DEF Ask, ReplyCode, ReplyProse, Backoff, Retry, Submit, CodeWorks,
                  SandboxRaises, SandboxWorks, endVars
    <3> QED
      BY <1>2, <2>0, <3>1
  <2> QED
    BY <1>2, <2>1, <2>2, <2>3, <2>4, StepCases DEF ModelStep
<1> QED
  BY <1>1, <1>2

\* A value is shown with the code, the reply and the history it belongs to.
LEMMA AnswerStep ==
    ASSUME TypeOK, Begun, Past, LastReply, History, Unanswered, AnswerMatchesCode,
           NEW q \in Questions, Step(q)
    PROVE  AnswerMatchesCode'
<1> DEFINE Own(r) == /\ answer[r] = <<r, attempt[r]>>
                     /\ code[r] = attempt[r] /\ raw[r] = attempt[r]
                     /\ failed[r] = [i \in 1..attempt[r] - 1 |-> i]
                     /\ \A a \in 1..attempt[r] - 1 : outcome[<<r, a>>] # "timeout"
<1> SUFFICES ASSUME NEW r \in Questions, result'[r] = "value" PROVE Own(r)'
  BY DEF AnswerMatchesCode
<1>0. attempt[r] \in 0..MaxAttempts /\ 1..attempt[r] - 1 \subseteq Attempts
  <2>1. attempt[r] \in 0..MaxAttempts
    BY DEF TypeOK
  <2> QED
    BY ONLY <2>1, AttemptsExist DEF Attempts
<1>1. CASE r # q
  <2>1. /\ answer'[r] = answer[r] /\ attempt'[r] = attempt[r] /\ code'[r] = code[r]
        /\ raw'[r] = raw[r] /\ failed'[r] = failed[r] /\ result'[r] = result[r]
    BY <1>1, Frame
  <2>2. \A a \in 1..attempt[r] - 1 : outcome'[<<r, a>>] = outcome[<<r, a>>]
    BY <1>0, <1>1, Frame
  <2>3. Own(r)
    BY <2>1 DEF AnswerMatchesCode
  <2> QED
    BY ONLY <2>1, <2>2, <2>3
<1>2. CASE r = q
  <2>1. CASE CodeWorks(q)
    <3>1. phase[q] = "waiting" /\ attempt[q] \in Attempts /\ <<q, attempt[q]>> \in Calls
      BY <2>1, AtAttempt DEF CodeWorks, Goto
    <3>2. /\ value'[<<q, attempt[q]>>] = <<q, attempt[q]>>
          /\ \A a \in Attempts : a # attempt[q] => outcome'[<<q, a>>] = outcome[<<q, a>>]
      BY <2>1, <3>1
         DEF CodeWorks, Sandbox!Answer, TypeOK, Sandbox!ServiceTypeOK, Calls
    <3>3. /\ answer'[q] = value'[<<q, attempt[q]>>] /\ code'[q] = attempt[q]
          /\ raw'[q] = raw[q] /\ failed'[q] = failed[q] /\ attempt'[q] = attempt[q]
      BY <2>1 DEF CodeWorks, TypeOK
    <3>4. raw[q] = attempt[q] /\ failed[q] = [i \in 1..attempt[q] - 1 |-> i]
      BY <3>1 DEF LastReply, History, Looping
    <3>5. \A a \in 1..attempt[q] - 1 : outcome'[<<q, a>>] # "timeout"
      <4>1. \A a \in 1..attempt[q] - 1 : a \in Attempts /\ a < attempt[q] /\ a # attempt[q]
        BY ONLY <1>0, <1>2
      <4> QED
        BY <3>2, <4>1 DEF Past
    <3> QED
      BY ONLY <1>2, <3>2, <3>3, <3>4, <3>5
  <2>2. CASE ~CodeWorks(q)
    <3>0. result[q] = None
      BY OverIsOver DEF Unanswered
    <3>1. CASE \E kind, o : Failed(q, kind, o)
      BY <1>2, <3>0, <3>1, NoneDistinct DEF Failed
    <3>2. CASE \/ Ask(q) \/ ReplyCode(q) \/ Backoff(q) \/ Retry(q)
               \/ Submit(q) \/ SandboxRaises(q) \/ SandboxWorks(q)
      <4>1. result' = result
        BY <3>2 DEF Ask, ReplyCode, Backoff, Retry, Submit, SandboxRaises, SandboxWorks, endVars
      <4> QED
        BY <1>2, <3>0, <4>1, NoneDistinct
    <3>3. CASE NoProvider(q) \/ ReplyProse(q) \/ ModelFails(q)
      BY <1>2, <3>3 DEF NoProvider, ReplyProse, ModelFails, GiveUp, TypeOK
    <3> QED
      BY <2>2, <3>1, <3>2, <3>3, StepCases DEF ModelStep
  <2> QED
    BY <2>1, <2>2
<1> QED
  BY <1>1, <1>2

-----------------------------------------------------------------------------
(* The invariant.                                                          *)

\* Before a question is asked the invariant holds.
LEMMA IInvInit == Init => IInv
<1> SUFFICES ASSUME Init PROVE IInv
  OBVIOUS
<1> USE AttemptsExist, NoneDistinct DEF Init, Sandbox!ServiceInit
<1>1. TypeOK
  BY DEF TypeOK, Sandbox!ServiceTypeOK, Sandbox!Statuses, Phases
<1>2. Begun /\ Past /\ ToCome /\ LastReply /\ Unanswered
  BY DEF Begun, Past, ToCome, LastReply, Unanswered, Attempts, Calls
<1>3. Present
  BY DEF Present, Attempts
<1>4. History
  BY DEF History, Looping
<1>5. AnswerMatchesCode /\ FailureIsTrue
  BY DEF AnswerMatchesCode, FailureIsTrue
<1>6. CostIsTrue
  <2>1. \A q \in Questions : tokens[q] = 0 /\ raw[q] = None
    OBVIOUS
  <2>2. Cost(0) = 0
    BY SettingsAreIntegers DEF Cost
  <2> QED
    BY ONLY <2>1, <2>2 DEF CostIsTrue, Cost
<1> QED
  BY <1>1, <1>2, <1>3, <1>4, <1>5, <1>6 DEF IInv

\* Every step preserves it.
LEMMA IInvStep == IInv /\ [Next]_vars => IInv'
<1> SUFFICES ASSUME IInv, [Next]_vars PROVE IInv'
  OBVIOUS
<1>1. CASE UNCHANGED vars
  BY <1>1 DEF vars, sandboxVars, loopVars, replyVars, endVars, IInv, TypeOK, Begun, Past,
      Present, ToCome, LastReply, History, Looping, Unanswered, AnswerMatchesCode,
      FailureIsTrue, CostIsTrue, Sandbox!ServiceTypeOK
<1>2. CASE Next
  <2>1. PICK q \in Questions : Step(q)
    BY <1>2 DEF Next, Step
  <2> QED
    BY <2>1, TypeStep, BegunStep, PastStep, PresentStep, ToComeStep, LastReplyStep,
       HistoryStep, UnansweredStep, AnswerStep, FailureStep, CostStep DEF IInv
<1> QED
  BY <1>1, <1>2

\* The invariant holds in every state of the agent.
THEOREM Invariance == Spec => []IInv
  BY IInvInit, IInvStep, PTL DEF Spec

-----------------------------------------------------------------------------
(* What it says of the agent.                                              *)

\* The variables of the agent and of its sandbox keep their types (the result
\* of generate_and_execute is well formed whatever happens).
THEOREM TypeCorrect == Spec => []TypeOK
<1>1. IInv => TypeOK
  BY DEF IInv
<1> QED
  BY <1>1, Invariance, PTL

\* A value the user sees was computed by the code shown next to it, which is
\* the last reply's, behind exactly the failed attempts that are listed.
THEOREM AnswersMatch == Spec => []AnswerMatchesCode
<1>1. IInv => AnswerMatchesCode
  BY DEF IInv
<1> QED
  BY <1>1, Invariance, PTL

\* The failure kind the benchmark reads is what the sandbox reported.
THEOREM FailuresTrue == Spec => []FailureIsTrue
<1>1. IInv => FailureIsTrue
  BY DEF IInv
<1> QED
  BY <1>1, Invariance, PTL

\* The reported cost is that of every call made, each with the conversation so
\* far, however many repairs there were.
THEOREM CostsTrue == Spec => []CostIsTrue
<1>1. IInv => CostIsTrue
  BY DEF IInv
<1> QED
  BY <1>1, Invariance, PTL

\* A repair is asked for with every failed reply and its error, in order, and
\* only when each of those attempts has returned.
THEOREM PromptsComplete == Spec => []PromptIsComplete
<1>1. IInv => PromptIsComplete
  <2> SUFFICES ASSUME IInv, NEW q \in Questions, phase[q] = "model"
               PROVE  /\ Len(turns[q]) = 2 * (attempt[q] - 1)
                      /\ \A i \in 1..attempt[q] - 1 :
                          /\ turns[q][2 * i - 1] = [says |-> "reply", of |-> i]
                          /\ turns[q][2 * i] = [says |-> "error", of |-> i]
                          /\ outcome[<<q, i>>] # None
    BY DEF PromptIsComplete
  <2>1. attempt[q] \in Attempts
    BY AtAttempt DEF IInv
  <2>2. \A i \in 1..attempt[q] - 1 : i \in Attempts /\ i < attempt[q]
    BY ONLY <2>1, AttemptsExist DEF Attempts
  <2> QED
    BY <2>2 DEF IInv, History, Looping, Past
<1> QED
  BY <1>1, Invariance, PTL

\* A timeout is the last thing that happens to a question.
THEOREM TimeoutsFinal == Spec => []TimeoutIsFinal
<1>1. IInv => TimeoutIsFinal
  <2> SUFFICES ASSUME IInv, NEW q \in Questions, NEW a \in Attempts,
                      outcome[<<q, a>>] = "timeout"
               PROVE  /\ phase[q] = "done" /\ attempt[q] = a
                      /\ \A b \in Attempts : b > a => status[<<q, b>>] = "idle"
    BY DEF TimeoutIsFinal
  <2>1. attempt[q] \in Nat /\ a \in Nat
    BY AttemptsExist DEF IInv, TypeOK, Attempts
  <2>2. ~(a < attempt[q]) /\ ~(a > attempt[q])
    BY NoneIsNoOutcome DEF IInv, Past, ToCome
  <2>3. attempt[q] = a
    BY ONLY <2>1, <2>2
  <2>4. phase[q] = "done"
    <3>1. phase[q] # "raised" /\ status[<<q, a>>] = "returned"
      BY <2>3, NoneIsNoOutcome DEF IInv, Present
    <3>2. phase[q] \notin {"model", "backoff", "execute", "waiting"}
      BY <2>3, <3>1 DEF IInv, Present
    <3>3. phase[q] # "idle"
      BY <2>3, AttemptsExist DEF IInv, Begun, Attempts
    <3> QED
      BY <3>1, <3>2, <3>3 DEF IInv, TypeOK, Phases
  <2> QED
    BY <2>3, <2>4 DEF IInv, ToCome
<1> QED
  BY <1>1, Invariance, PTL

\* While the model is asked, and after the question, none of its code is alive.
THEOREM NothingRunning == Spec => []NothingLeftRunning
<1>1. IInv => NothingLeftRunning
  <2> SUFFICES ASSUME IInv, NEW q \in Questions, phase[q] # "waiting", NEW a \in Attempts
               PROVE  status[<<q, a>>] \in {"idle", "returned"}
    BY DEF NothingLeftRunning
  <2>1. attempt[q] \in Nat /\ a \in Nat
    BY AttemptsExist DEF IInv, TypeOK, Attempts
  <2>2. a < attempt[q] \/ a = attempt[q] \/ a > attempt[q]
    BY ONLY <2>1
  <2>3. status[<<q, a>>] \in Sandbox!Statuses
    BY DEF IInv, TypeOK, Sandbox!ServiceTypeOK, Calls
  <2> QED
    BY <2>2, <2>3 DEF IInv, Past, Present, ToCome, Sandbox!Statuses
<1> QED
  BY <1>1, Invariance, PTL
=============================================================================
