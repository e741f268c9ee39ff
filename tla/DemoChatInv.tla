----------------------------- MODULE DemoChatInv ----------------------------
(***************************************************************************)
(* The inductive invariant of DemoChat: what a prompt is made of, and what  *)
(* was chosen for it.                                                       *)
(***************************************************************************)
EXTENDS DemoChat

Turns == [role : {"user", "assistant"}, content : Seq(Word)]

\* Of the history and the examples no answer is blank.
Told == { turn \in Turns : turn.role = "assistant" => turn.content # <<>> }

Remembered == history \in Seq(Told) /\ query \in Seq(Word)

\* A prompt opens and ends with the user; the first one of a question ends with it.
Prompted ==
    phase \in {"model", "execute"} =>
        /\ messages \in Seq(Turns) /\ messages # <<>> /\ attempt \in Nat \ {0}
        /\ messages[1].role = "user" /\ messages[1].content # <<>>
        /\ Last(messages).role = "user" /\ Last(messages).content # <<>>
        /\ attempt = 1 =>
              messages \in Seq(Told) /\ Last(messages) = Turn("user", Prompt(<<"columns">>, query))

\* What runs was chosen for the prompt and the name of the dataset.
Chosen ==
    phase = "execute" => used # NoMatch /\ used = Complete(messages, Recordings, name)

\* The name is that of the frame, unless a load is or was cut between the two.
Named ==
    /\ phase \in {"naming", "model", "execute"} => file # None
    /\ file # None /\ phase # "naming" /\ ~torn => name = Stem[file]

\* The page is the one its environment calls for.
Opened == env \in Environments /\ page \in {"start", Page(env)}

IInv == Remembered /\ Prompted /\ Chosen /\ Named /\ Opened
=============================================================================
