----------------------------- MODULE SessionInv -----------------------------
(***************************************************************************)
(* The inductive invariant of Session: what a run of the script has done by *)
(* each point, whatever earlier runs that were cut left behind.             *)
(***************************************************************************)
EXTENDS Session

Loading == {"init", "initName", "initHistory", "initChat"}

Asking == {"say", "think", "remember", "trimUser", "answer", "record", "trimAnswer"}

\* A run that answered its question to the end.
Recorded == pc = "idle" /\ asked # None

\* What drives a run is of its kind, and there when the run needs it.
Stages ==
    /\ trigger.kind = "sample" => trigger.what \in Samples
    /\ trigger.kind \in {"question", "chip"} => trigger.what \in Questions
    /\ pc \in Loading => file \in Files
    /\ pc \in Asking \cup {"clearChat", "chips", "ask"} \/ Recorded => df \in Files
    /\ pc \in Asking => asked \in Questions
    /\ pc \notin Asking \cup {"idle"} => asked = None

EndsWith(s, role) == Len(s) >= 1 /\ s[Len(s)] = Entry(role)

EndsWithTurn(s) ==
    Len(s) >= 2 /\ s[Len(s) - 1] = Entry("user") /\ s[Len(s)] = Entry("assistant")

\* The turn in progress is at the end of the chat, and then of the history.
InProgress ==
    /\ pc \in {"think", "remember", "trimUser", "answer"} => EndsWith(chat, "user")
    /\ pc \in {"record", "trimAnswer"} \/ Recorded => EndsWithTurn(chat)
    /\ pc \in {"trimUser", "answer", "record"} => EndsWith(history, "user")
    /\ pc = "trimAnswer" \/ Recorded => EndsWithTurn(history)

\* Only a history over its limit is trimmed.
Bounded ==
    /\ pc \in {"trimUser", "trimAnswer"} => Len(history) > Limit
    /\ Recorded /\ HistoryTurns # 0 => Len(history) <= Limit

\* The history is emptied before the chat is.
Emptied == pc \in {"initChat", "clearChat"} => history = <<>>

\* Without a cut, the history follows the dataset with the next two writes.
About ==
    ~cut /\ pc \notin {"initName", "initHistory"} =>
        \A i \in 1..Len(history) : history[i].about = df

IInv == TypeOK /\ Stages /\ InProgress /\ Bounded /\ Emptied /\ About /\ HistoryShown
=============================================================================
