---------------------------- MODULE Conversation ----------------------------
(***************************************************************************)
(* The messages of a model call, as operators: how the agent puts them      *)
(* together (src/src/agent/agent.py) and how every provider normalises them *)
(* (normalize_messages, src/src/llm/base.py).                               *)
(*                                                                          *)
(* A message is a role and a content; a content is the sequence of its      *)
(* words, blank when that is empty.  "Question:" is a word.                 *)
(***************************************************************************)
EXTENDS Integers, Sequences, SequencesExt

Turn(role, content) == [role |-> role, content |-> content]

\* The final user turn of a question.
Prompt(context, query) == <<"Dataset:">> \o context \o <<"Question:">> \o query

\* Few-shot examples, the conversation so far, the question.
BaseMessages(fewShot, history, context, query) ==
    fewShot \o history \o <<Turn("user", Prompt(context, query))>>

\* What a failed attempt adds: the reply, and the error to repair.
WithRepair(messages, reply) ==
    messages \o <<Turn("assistant", reply), Turn("user", <<"failed">>)>>

\* The words of a conversation.
Words(messages) == FlattenSeq([i \in DOMAIN messages |-> messages[i].content])

\* What is left out: a blank turn, and an answer before any question.
Dropped(merged, message) ==
    message.content = <<>> \/ (merged = <<>> /\ message.role # "user")

\* Mutant: of adjacent turns of one role the first is kept.
Merged_Keeps(merged, message) ==
    IF Dropped(merged, message) \/ (merged # <<>> /\ Last(merged).role = message.role)
    THEN merged ELSE Append(merged, message)

\* Adjacent turns of one role become one.
Merged(merged, message) ==
    IF Dropped(merged, message) THEN merged
    ELSE IF merged # <<>> /\ Last(merged).role = message.role
    THEN Append(Front(merged), Turn(message.role, Last(merged).content \o message.content))
    ELSE Append(merged, message)

\* One message after the other; merged[i] is what the first i become.
NormalizeMessages(messages) ==
    LET merged[i \in 0..Len(messages)] ==
            IF i = 0 THEN <<>> ELSE Merged(merged[i - 1], messages[i])
    IN  merged[Len(messages)]
=============================================================================
