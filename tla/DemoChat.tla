------------------------------ MODULE DemoChat ------------------------------
(***************************************************************************)
(* The app without credentials: questions about a dataset are answered by   *)
(* ReplayProvider, the recorded code runs in the sandbox, a failure goes    *)
(* back to the provider as a repair prompt.  An interaction may cut a run   *)
(* anywhere, and leave the question in the history without its answer.      *)
(***************************************************************************)
EXTENDS Replay, Settings

CONSTANTS
    Started,        \* environments the process may be started in
    Recordings,     \* the fixture
    Files,          \* datasets the user may load
    Stem,           \* Path(name).stem of a file
    Texts,          \* questions the user may ask
    FewShot,        \* the examples every conversation starts with
    HistoryTurns,   \* settings.agent.history_turns
    MaxRepairs,     \* settings.agent.max_repair_attempts
    MaxAsks,        \* bound on the questions of a session
    None

ASSUME WordsAreWords ==
    /\ {"Dataset:", "Question:", "columns", "answer", "failed"} \subseteq Word
    /\ Texts \subseteq Seq(Word)

\* The worst overlap of two questions of a dataset is 0.53 (replay_provider.py
\* lines 46-52), and would be 1 if they had the same words.
ASSUME RecordingsAreApart ==
    /\ Recordings \in Seq([dataset : STRING, question : Seq(Word), reply : Seq(Word)])
    /\ \A i, j \in DOMAIN Recordings :
          /\ Recordings[i].dataset = Recordings[j].dataset
          /\ ToSet(Normalise(Recordings[i].question)) = ToSet(Normalise(Recordings[j].question))
          => i = j

\* _few_shot_messages: a question first, and no blank turn.
ASSUME FewShotOpens ==
    /\ FewShot \in Seq([role : {"user", "assistant"}, content : Seq(Word) \ {<<>>}])
    /\ FewShot # <<>> /\ FewShot[1].role = "user"

ASSUME StartedInEnvironments == Started \subseteq Environments

ASSUME FilesAreFiles == None \notin Files

ASSUME LimitIsNat == HistoryTurns \in Nat

VARIABLES
    env,        \* the environment the process was started in
    page,       \* what the page shows
    file,       \* the dataset whose frame is in the session
    name,       \* the stem of the dataset name in the session
    torn,       \* history variable: the last load was cut before its name
    history,    \* the conversation history of the session
    asks,       \* questions asked so far
    query,      \* the question being answered
    messages,   \* the messages of its next model call
    attempt,    \* its attempt
    used,       \* the recording replayed last
    phase,      \* where init_session, generate_and_execute and answer() are
    shown       \* how the question ended

chatVars == <<query, messages, attempt, used, phase, shown>>
dataVars == <<file, name, torn>>
vars == <<env, page, dataVars, history, asks, chatVars>>

\* get_dataset_name's "dataset.csv", where no name was written.
DefaultName == "dataset"

Init ==
    /\ env \in Started /\ page = "start"
    /\ file = None /\ name = DefaultName /\ torn = FALSE
    /\ history = <<>> /\ asks = 0
    /\ query = <<>> /\ messages = <<>> /\ attempt = 0
    /\ used = NoMatch /\ phase = "idle" /\ shown = None

Start ==
    /\ page = "start" /\ page' = Page(env)
    /\ UNCHANGED <<env, dataVars, history, asks, chatVars>>

\* init_session writes the frame, the name and the empty history, in this order.
LoadFrame(f) ==
    /\ page = "demo" /\ phase = "idle" /\ phase' = "naming"
    /\ file' = f /\ shown' = None /\ query' = <<>>
    /\ UNCHANGED <<env, page, name, torn, history, asks, messages, attempt, used>>

LoadName ==
    /\ phase = "naming" /\ phase' = "forgetting"
    /\ name' = Stem[file] /\ torn' = FALSE
    /\ UNCHANGED <<env, page, file, history, asks, query, messages, attempt, used, shown>>

LoadHistory ==
    /\ phase = "forgetting" /\ phase' = "idle"
    /\ history' = <<>>
    /\ UNCHANGED <<env, page, dataVars, asks, query, messages, attempt, used, shown>>

\* add_to_history: history[-limit:], which for a limit of 0 is all of it.
Noted(turn) ==
    LET turns == Append(history, turn)
        limit == 2 * HistoryTurns
    IN  IF limit \in 1..Len(turns) THEN SubSeq(turns, Len(turns) - limit + 1, Len(turns))
        ELSE turns

Ask(text) ==
    /\ page = "demo" /\ file # None /\ phase = "idle" /\ asks < MaxAsks
    /\ asks' = asks + 1 /\ query' = text
    /\ messages' = BaseMessages(FewShot, history, <<"columns">>, text)
    /\ attempt' = 1 /\ phase' = "model" /\ shown' = None
    /\ UNCHANGED <<env, page, dataVars, history, used>>

\* generate_and_execute ends.
End(outcome) == phase' = "answered" /\ shown' = outcome

\* The recorded reply, which has a code block, stands in for the model's.
Replayed ==
    /\ phase = "model"
    /\ used' = Complete(messages, Recordings, name)
    /\ used' # NoMatch
    /\ phase' = "execute"
    /\ UNCHANGED <<env, page, dataVars, history, asks, query, messages, attempt, shown>>

\* "That question isn't part of the offline demo": an LLMError ends the question.
Refused ==
    /\ phase = "model"
    /\ Complete(messages, Recordings, name) = NoMatch
    /\ End("refused")
    /\ UNCHANGED <<env, page, dataVars, history, asks, query, messages, attempt, used>>

CodeWorks ==
    /\ phase = "execute" /\ End("value")
    /\ UNCHANGED <<env, page, dataVars, history, asks, query, messages, attempt, used>>

CodeFails ==
    /\ phase = "execute" /\ attempt <= MaxRepairs
    /\ messages' = WithRepair(messages, used.reply)
    /\ attempt' = attempt + 1 /\ phase' = "model"
    /\ UNCHANGED <<env, page, dataVars, history, asks, query, used, shown>>

\* A timeout, or the failure of the last attempt.
CodeGivesUp ==
    /\ phase = "execute" /\ End("error")
    /\ UNCHANGED <<env, page, dataVars, history, asks, query, messages, attempt, used>>

NoteQuestion ==
    /\ phase = "answered" /\ phase' = "noted"
    /\ history' = Noted(Turn("user", query))
    /\ UNCHANGED <<env, page, dataVars, asks, query, messages, attempt, used, shown>>

NoteAnswer ==
    /\ phase = "noted" /\ phase' = "idle"
    /\ history' = Noted(Turn("assistant", <<"answer">>))
    /\ UNCHANGED <<env, page, dataVars, asks, query, messages, attempt, used, shown>>

\* Another interaction ends the run where it is.
Cut ==
    /\ phase # "idle" /\ phase' = "idle"
    /\ shown' = None /\ torn' = (torn \/ phase = "naming")
    /\ UNCHANGED <<env, page, file, name, history, asks, query, messages, attempt, used>>

Next ==
    \/ Start \/ Replayed \/ Refused \/ CodeWorks \/ CodeFails \/ CodeGivesUp
    \/ NoteQuestion \/ NoteAnswer \/ Cut \/ LoadName \/ LoadHistory
    \/ \E f \in Files : LoadFrame(f)
    \/ \E text \in Texts : Ask(text)

Spec == Init /\ [][Next]_vars

-----------------------------------------------------------------------------
(* Properties                                                              *)

\* "a strictly alternating user/assistant sequence beginning with 'user'", which
\* Bedrock insists on (base.py lines 49-56), and the question ends it, with every
\* word of the conversation in its place: also after cut runs and repairs.
SentAlternates ==
    phase = "model" =>
        LET sent == NormalizeMessages(messages)
        IN  /\ \A i \in DOMAIN sent : sent[i].role = IF i % 2 = 1 THEN "user" ELSE "assistant"
            /\ Last(sent).role = "user"
            /\ Words(sent) = Words(messages)

\* The turns at the end of the conversation that no answer followed.
Unanswered ==
    LET answer == SelectLastInSeq(messages, LAMBDA m : m.role = "assistant")
    IN  { messages[i] : i \in answer + 1..Len(messages) - 1 }

\* The first prompt of a question, and no turn it is merged with has a "Question:".
PlainlyAsked == attempt = 1 /\ \A turn \in Unanswered : ~Contains(turn.content, "Question:")

\* A recorded question of the dataset the page names, asked word for word, gets its
\* own recording, whatever was asked before it and wherever runs were cut
\* (replay_provider.py lines 68-76, 161-184; tests/test_replay.py lines 257-262), except
\* that a cut question with a "Question:" of its own hides it.
OwnRecording ==
    phase = "model" /\ PlainlyAsked =>
        \A i \in InScope(Recordings, name) :
            query = Recordings[i].question =>
                Complete(messages, Recordings, name) = Recordings[i]

\* What runs on a dataset was recorded with it: "replaying customer_churn code
\* onto retail_orders would run real code against the wrong columns" (lines
\* 150-158), also right after another dataset was loaded and when that load was
\* cut after its name.  A load cut between the frame and the name leaves the new
\* frame under the old name, and that one's code runs on it, until the next load.
RunsOnItsDataset == phase = "execute" /\ ~torn => used.dataset = Stem[file]

\* The danger is that "it confidently answers a different question than the one
\* asked" (lines 42-60): a question with exactly the words of a recorded one, in
\* whatever order, case and punctuation, gets that recording and not its neighbour,
\* with the same exception.
NoConfusion ==
    phase = "execute" /\ PlainlyAsked =>
        \A i \in InScope(Recordings, used.dataset) :
            ToSet(Normalise(query)) = ToSet(Normalise(Recordings[i].question)) =>
                used = Recordings[i]

\* validate_provider raises "if the selected provider cannot be used", so that
\* "failures surface immediately instead of mid-conversation" (config.py lines
\* 142-183): the provider of a live page can be called, and constructed too, but
\* for one thing that is not looked at, the groq package (groq_provider.py 26-29).
LivePageCanCall ==
    page = "live" =>
        /\ Callable(env, env.provider)
        /\ \/ GetProvider(env, env.provider) = env.provider
           \/ env.provider = "groq" /\ ~env.groq

\* "demo mode simply has no recording for this question, and it already says so"
\* (agent.py lines 277-278): who is told so asked something else.
RefusalIsTrue ==
    shown = "refused" => Match(Recordings, InScope(Recordings, name), query) = NoMatch
=============================================================================
