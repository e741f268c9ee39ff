------------------------------- MODULE Replay -------------------------------
(***************************************************************************)
(* ReplayProvider (src/src/llm/replay_provider.py), which answers from      *)
(* recorded replies when no model can be reached, as operators.  A          *)
(* recording is a dataset, a question and a reply; the fixture is a         *)
(* sequence of them.                                                        *)
(***************************************************************************)
EXTENDS Conversation, FiniteSets, FiniteSetsExt

CONSTANT
    Spoken      \* what normalise leaves of a word: a sequence of words

Word == DOMAIN Spoken

ASSUME SpokenInWords == \A word \in Word : Spoken[word] \in Seq(Word)

\* Lower case, no punctuation, single spaces.
Normalise(text) == FlattenSeq([i \in DOMAIN text |-> Spoken[text[i]]])

LastUser(messages) == SelectLastInSeq(messages, LAMBDA m : m.role = "user")

\* Mutant: the question is taken to start at the fourth word of the turn.
ExtractQuestion_Fixed(messages) ==
    LET content == messages[LastUser(messages)].content
    IN  SubSeq(content, 4, Len(content))

\* What follows the first "Question:" of the last user turn, or all of it.
ExtractQuestion(messages) ==
    LET content == messages[LastUser(messages)].content
        mark == SelectInSeq(content, LAMBDA word : word = "Question:")
    IN  SubSeq(content, mark + 1, Len(content))

\* Mutant: recordings of every dataset answer.
InScope_All(recordings, dataset) == DOMAIN recordings

\* The places of the recordings made with the dataset.
InScope(recordings, dataset) == {i \in DOMAIN recordings : recordings[i].dataset = dataset}

\* Mutant: the share of the recording's words that were asked.
Overlap_Known(asked, recording) ==
    LET known == ToSet(Normalise(recording.question))
    IN  <<Cardinality(asked \cap known), Cardinality(known)>>

\* Word overlap, as a numerator and a denominator.
Overlap(asked, recording) ==
    LET known == ToSet(Normalise(recording.question))
    IN  <<Cardinality(asked \cap known), Cardinality(asked \cup known)>>

Less(s, t) == s[1] * t[2] < t[1] * s[2]

NoMatch == [dataset |-> "", question |-> <<>>, reply |-> <<>>]

\* _MATCH_THRESHOLD is 0.6.
Enough(score) == 10 * score[1] >= 6 * score[2]

\* The first recording in scope with the largest overlap, if it is large enough.
Closest(recordings, scope, asked) ==
    LET Score(i) == Overlap(asked, recordings[i])
        best == {i \in scope : \A j \in scope : ~Less(Score(i), Score(j))}
    IN  IF best # {} /\ Enough(Score(Min(best))) THEN recordings[Min(best)] ELSE NoMatch

\* The recording of the same question, else the closest one.
Match(recordings, scope, question) ==
    LET target == Normalise(question)
        same == {i \in scope : Normalise(recordings[i].question) = target}
    IN  IF same # {} THEN recordings[Min(same)]
        ELSE IF target = <<>> THEN NoMatch
        ELSE Closest(recordings, scope, ToSet(target))

\* The recording whose reply is replayed for the messages, or NoMatch.
Complete(messages, recordings, dataset) ==
    LET sent == NormalizeMessages(messages)
    IN  IF LastUser(sent) = 0 THEN NoMatch
        ELSE Match(recordings, InScope(recordings, dataset), ExtractQuestion(sent))
=============================================================================
