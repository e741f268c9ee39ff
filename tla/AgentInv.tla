------------------------------ MODULE AgentInv ------------------------------
(***************************************************************************)
(* The inductive invariant of Agent.  That the result of a question is told *)
(* truly is not inductive: it rests on what the sandbox holds of every      *)
(* attempt of the question, the past ones, the present one and those to     *)
(* come, at each point of the loop of generate_and_execute.                 *)
(***************************************************************************)
EXTENDS Agent

\* The question is in the loop of generate_and_execute.
Looping(q) == phase[q] \in {"model", "backoff", "execute", "waiting"}

\* The first attempt begins with the question.
Begun ==
    \A q \in Questions :
        /\ phase[q] = "idle" => attempt[q] = 0
        /\ attempt[q] = 0 => phase[q] \in {"idle", "done"}

\* Every earlier attempt has returned, with a failure that a repair may follow.
Past ==
    \A q \in Questions : \A a \in Attempts : a < attempt[q] =>
        /\ status[<<q, a>>] = "returned"
        /\ outcome[<<q, a>>] \notin {None, "timeout", "raised"}

\* The present attempt has been submitted only while the question waits for it,
\* and has an outcome only when it has returned.
Present ==
    \A q \in Questions : \A a \in Attempts : a = attempt[q] =>
        /\ phase[q] = "waiting" <=>
               status[<<q, a>>] \in {"pending", "running", "finished", "aborted"}
        /\ phase[q] \in {"model", "backoff", "execute"} => status[<<q, a>>] = "idle"
        /\ status[<<q, a>>] = "returned" <=> outcome[<<q, a>>] # None
        /\ outcome[<<q, a>>] = "raised" <=> phase[q] = "raised"

\* No later attempt has been made.
ToCome ==
    \A q \in Questions : \A a \in Attempts : a > attempt[q] =>
        status[<<q, a>>] = "idle" /\ outcome[<<q, a>>] = None

\* The last reply is the one the present attempt executes, or the one before it.
LastReply ==
    \A q \in Questions :
        /\ phase[q] = "idle" => raw[q] = None
        /\ phase[q] \in {"model", "backoff"} =>
               raw[q] = IF attempt[q] = 1 THEN None ELSE attempt[q] - 1
        /\ phase[q] \in {"execute", "waiting"} => raw[q] = attempt[q]

\* In the loop every earlier attempt, and no other, is in the conversation and
\* in the list of failed attempts.
History ==
    \A q \in Questions :
        /\ phase[q] = "idle" => failed[q] = <<>> /\ turns[q] = <<>>
        /\ Looping(q) =>
            /\ failed[q] = [i \in 1..attempt[q] - 1 |-> i]
            /\ Len(turns[q]) = 2 * (attempt[q] - 1)
            /\ \A i \in 1..attempt[q] - 1 :
                /\ turns[q][2 * i - 1] = [says |-> "reply", of |-> i]
                /\ turns[q][2 * i] = [says |-> "error", of |-> i]

\* The user is shown nothing of a question before it is over.
Unanswered ==
    \A q \in Questions : phase[q] # "done" => result[q] = None /\ failure[q] = None

IInv ==
    /\ TypeOK /\ Begun /\ Past /\ Present /\ ToCome
    /\ LastReply /\ History /\ Unanswered
    /\ AnswerMatchesCode /\ FailureIsTrue /\ CostIsTrue
=============================================================================
