------------------------------ MODULE Session -------------------------------
(***************************************************************************)
(* One user's session: the page script (src/app.py) over the session state  *)
(* kept by SessionManager (src/src/session_manager.py).                     *)
(*                                                                         *)
(* Streamlit runs the script from the top after every interaction.  An      *)
(* interaction that arrives while the script runs ends that run where it    *)
(* next touches the session state or draws an element, and starts another:  *)
(* the actions below are the pieces of the script between such points, and  *)
(* the run may be cut before each of them.  A question, a button or a chip  *)
(* is the trigger of one run only; the file in the uploader stays.          *)
(***************************************************************************)
EXTENDS Naturals, Sequences

CONSTANTS
    Uploads,        \* files the user may put into the uploader
    Broken,         \* those that parse_csv_bytes refuses
    Samples,        \* the sample datasets
    NameOf,         \* the name of each file
    Questions,
    HistoryTurns,   \* settings.agent.history_turns
    DemoMode,       \* settings.demo_mode()
    MaxClicks,      \* bound on the interactions
    None

Files == Uploads \cup Samples

ASSUME FilesAreApart ==
    /\ Broken \subseteq Uploads
    /\ Uploads \cap Samples = {}
    /\ None \notin Files \cup Questions
    /\ HistoryTurns \in Nat /\ MaxClicks \in Nat /\ DemoMode \in BOOLEAN

VARIABLES
    uploader,   \* the file in the uploader
    loaded,     \* session_state["_loaded_name"]
    pending,    \* session_state["_pending_query"]
    df,         \* session_state["conversational_df"]
    name,       \* session_state["dataset_name"]
    history,    \* session_state["conversation_history"]
    chat,       \* session_state["chat_messages"]
    pc,         \* where the run is
    trigger,    \* the interaction that started the run
    file,       \* the file the run is loading
    asked,      \* the question the run answers
    drawn,      \* the widgets of the page are on the screen
    clicks,     \* interactions so far
    choice,     \* history variable: the file the user chose last
    parsed,     \* history variable: the uploads that were parsed
    cut         \* history variable: some run was cut short

dataVars == <<df, name>>
talkVars == <<history, chat>>
userVars == <<uploader, clicks, choice, cut>>
runVars == <<pc, trigger, file, asked>>
vars == <<userVars, drawn, loaded, pending, dataVars, talkVars, runVars, parsed>>

Entries == [role : {"user", "assistant"}, what : Questions, about : Files]

Triggers == [kind : {"none", "sample", "clear", "question", "chip"},
             what : Samples \cup Questions \cup {None}]

NoTrigger == [kind |-> "none", what |-> None]

PCs == {"top", "samples", "init", "initName", "initHistory", "initChat",
        "clear", "clearChat", "chips", "ask", "say", "think", "remember",
        "trimUser", "answer", "record", "trimAnswer", "idle"}

TypeOK ==
    /\ uploader \in Uploads \cup {None}
    /\ loaded \in {NameOf[f] : f \in Files} \cup {None}
    /\ pending \in Questions \cup {None}
    /\ df \in Files \cup {None}
    /\ name \in {NameOf[f] : f \in Files} \cup {None}
    /\ history \in Seq(Entries)
    /\ chat \in Seq(Entries)
    /\ pc \in PCs
    /\ trigger \in Triggers
    /\ file \in Files \cup {None}
    /\ asked \in Questions \cup {None}
    /\ drawn \in BOOLEAN
    /\ clicks \in 0..MaxClicks
    /\ choice \in Files \cup {None}
    /\ parsed \subseteq Uploads
    /\ cut \in BOOLEAN

Init ==
    /\ uploader = None /\ loaded = None /\ pending = None
    /\ df = None /\ name = None
    /\ history = <<>> /\ chat = <<>>
    /\ pc = "top" /\ trigger = NoTrigger /\ file = None /\ asked = None
    /\ drawn = FALSE /\ clicks = 0 /\ choice = None /\ parsed = {} /\ cut = FALSE

-----------------------------------------------------------------------------
(* The user.  Streamlit starts a run, and gives up the one in progress.    *)

StartRun(t) ==
    /\ clicks < MaxClicks
    /\ clicks' = clicks + 1
    /\ cut' = (cut \/ pc # "idle")
    /\ pc' = "top"
    /\ trigger' = t
    /\ file' = None
    /\ asked' = None
    /\ UNCHANGED <<drawn, loaded, pending, dataVars, talkVars, parsed>>

ChangeUpload ==
    \E u \in (Uploads \cup {None}) \ {uploader} :
        /\ StartRun(NoTrigger)
        /\ uploader' = u
        /\ choice' = IF u = None THEN choice ELSE u

ClickSample ==
    \E s \in Samples :
        /\ StartRun([kind |-> "sample", what |-> s])
        /\ choice' = s
        /\ UNCHANGED uploader

\* Chips are offered for the datasets that were recorded.
Offered == DemoMode /\ name \in {NameOf[f] : f \in Samples}

\* The other widgets are there once a run with a dataset has drawn them, and
\* stay while later runs go on.
ClickElsewhere ==
    /\ drawn
    /\ \/ StartRun([kind |-> "clear", what |-> None])
       \/ \E q \in Questions : StartRun([kind |-> "question", what |-> q])
       \/ \E q \in Questions : Offered /\ StartRun([kind |-> "chip", what |-> q])
    /\ UNCHANGED <<uploader, choice>>

User == ChangeUpload \/ ClickSample \/ ClickElsewhere

-----------------------------------------------------------------------------
(* The sidebar: upload, samples, "Clear chat history"                       *)

Goto(from, to) ==
    /\ pc = from
    /\ pc' = to

\* parse_csv_bytes returns a data frame.
Parses(f) == f \notin Broken

\* The file in the uploader has another name than the last one that was loaded.
NewUpload == uploader # None /\ NameOf[uploader] # loaded

\* Mutant: the guard's note of the name is forgotten.
MarkUpload_Unmarked ==
    /\ pc = "top"
    /\ NewUpload
    /\ pc' = IF Parses(uploader) THEN "init" ELSE "samples"
    /\ file' = uploader
    /\ parsed' = parsed \cup {uploader}
    /\ UNCHANGED <<userVars, drawn, loaded, pending, dataVars, talkVars,
                   trigger, asked>>

\* A name other than the last one: note it, parse the file.  A file that does
\* not parse is reported and the run goes on.
MarkUpload ==
    /\ pc = "top"
    /\ NewUpload
    /\ pc' = IF Parses(uploader) THEN "init" ELSE "samples"
    /\ loaded' = NameOf[uploader]
    /\ file' = uploader
    /\ parsed' = parsed \cup {uploader}
    /\ UNCHANGED <<userVars, drawn, pending, dataVars, talkVars, trigger,
                   asked>>

SkipUpload ==
    /\ Goto("top", "samples")
    /\ ~NewUpload
    /\ UNCHANGED <<userVars, drawn, loaded, pending, dataVars, talkVars,
                   trigger, file, asked, parsed>>

\* Mutant: the path of the sample is noted where its name is compared.
LoadSample_Path ==
    /\ Goto("samples", "init")
    /\ trigger.kind = "sample"
    /\ loaded' = trigger.what
    /\ file' = trigger.what
    /\ UNCHANGED <<userVars, drawn, pending, dataVars, talkVars, trigger,
                   asked, parsed>>

LoadSample ==
    /\ Goto("samples", "init")
    /\ trigger.kind = "sample"
    /\ loaded' = NameOf[trigger.what]
    /\ file' = trigger.what
    /\ UNCHANGED <<userVars, drawn, pending, dataVars, talkVars, trigger,
                   asked, parsed>>

NoSample ==
    /\ Goto("samples", "clear")
    /\ trigger.kind # "sample"
    /\ UNCHANGED <<userVars, drawn, loaded, pending, dataVars, talkVars,
                   trigger, file, asked, parsed>>

\* init_session: four writes, then st.rerun().
InitDf ==
    /\ Goto("init", "initName")
    /\ df' = file
    /\ UNCHANGED <<userVars, drawn, loaded, pending, name, talkVars,
                   trigger, file, asked, parsed>>

InitName ==
    /\ Goto("initName", "initHistory")
    /\ name' = NameOf[file]
    /\ UNCHANGED <<userVars, drawn, loaded, pending, df, talkVars,
                   trigger, file, asked, parsed>>

\* Mutant: a new dataset keeps the history.
InitHistory_Kept ==
    /\ Goto("initHistory", "initChat")
    /\ UNCHANGED <<userVars, drawn, loaded, pending, dataVars, talkVars,
                   trigger, file, asked, parsed>>

InitHistory ==
    /\ Goto("initHistory", "initChat")
    /\ history' = <<>>
    /\ UNCHANGED <<userVars, drawn, loaded, pending, dataVars, chat,
                   trigger, file, asked, parsed>>

\* st.rerun() starts a run without a trigger.
InitChat ==
    /\ Goto("initChat", "top")
    /\ chat' = <<>>
    /\ trigger' = NoTrigger
    /\ UNCHANGED <<userVars, drawn, loaded, pending, dataVars, history, file,
                   asked, parsed>>

\* Mutant: clear_chat empties the visible chat first.
ClearHistory_ChatFirst ==
    /\ Goto("clear", "clearChat")
    /\ trigger.kind = "clear"
    /\ df # None
    /\ chat' = <<>>
    /\ UNCHANGED <<userVars, drawn, loaded, pending, dataVars, history,
                   trigger, file, asked, parsed>>

\* clear_chat: two writes, then st.rerun().
ClearHistory ==
    /\ Goto("clear", "clearChat")
    /\ trigger.kind = "clear"
    /\ df # None
    /\ history' = <<>>
    /\ UNCHANGED <<userVars, drawn, loaded, pending, dataVars, chat,
                   trigger, file, asked, parsed>>

ClearChat ==
    /\ Goto("clearChat", "top")
    /\ chat' = <<>>
    /\ trigger' = NoTrigger
    /\ UNCHANGED <<userVars, drawn, loaded, pending, dataVars, history, file,
                   asked, parsed>>

\* Without a dataset the page ends here.
NoClear ==
    /\ Goto("clear", IF df = None THEN "idle" ELSE "chips")
    /\ trigger.kind # "clear" \/ df = None
    /\ UNCHANGED <<userVars, drawn, loaded, pending, dataVars, talkVars,
                   trigger, file, asked, parsed>>

-----------------------------------------------------------------------------
(* The page: overview, chips, the chat so far, and one question             *)

DrawChips ==
    /\ Goto("chips", "ask")
    /\ pending' = IF Offered /\ trigger.kind = "chip" THEN trigger.what ELSE pending
    /\ drawn' = TRUE
    /\ UNCHANGED <<userVars, loaded, dataVars, talkVars, trigger, file, asked,
                   parsed>>

\* A pending chip goes before what was typed.
TakeQuestion ==
    LET q == IF pending # None THEN pending
             ELSE IF trigger.kind = "question" THEN trigger.what ELSE None IN
    /\ Goto("ask", IF q = None THEN "idle" ELSE "say")
    /\ pending' = None
    /\ asked' = q
    /\ UNCHANGED <<userVars, drawn, loaded, dataVars, talkVars, trigger, file,
                   parsed>>

Entry(r) == [role |-> r, what |-> asked, about |-> df]

ShowQuestion ==
    /\ Goto("say", "think")
    /\ chat' = Append(chat, Entry("user"))
    /\ UNCHANGED <<userVars, drawn, loaded, pending, dataVars, history,
                   trigger, file, asked, parsed>>

\* generate_and_execute touches no session state: it is over before a run that
\* was cut notices.  It may raise, which ends the run.
Think ==
    /\ pc = "think"
    /\ \/ pc' = "remember" /\ UNCHANGED asked
       \/ pc' = "idle" /\ asked' = None
    /\ UNCHANGED <<userVars, drawn, loaded, pending, dataVars, talkVars,
                   trigger, file, parsed>>

Limit == 2 * HistoryTurns

\* add_to_history up to the assignment of the trimmed list.
Remember(from, role, trim, next) ==
    /\ Goto(from, IF Len(history) + 1 > Limit THEN trim ELSE next)
    /\ history' = Append(history, Entry(role))
    /\ UNCHANGED <<userVars, drawn, loaded, pending, dataVars, chat,
                   trigger, file, asked, parsed>>

\* Mutant: the oldest entries are kept.
LastOnes_First(h, n) == SubSeq(h, 1, n)

\* history[-n:], which is all of it for n = 0.
LastOnes(h, n) == IF n = 0 THEN h ELSE SubSeq(h, Len(h) - n + 1, Len(h))

Trim(from, to) ==
    /\ Goto(from, to)
    /\ history' = LastOnes(history, Limit)
    /\ UNCHANGED <<userVars, drawn, loaded, pending, dataVars, chat,
                   trigger, file, asked, parsed>>

\* The answer or the error is drawn and kept in the chat.
ShowAnswer ==
    /\ Goto("answer", "record")
    /\ chat' = Append(chat, Entry("assistant"))
    /\ UNCHANGED <<userVars, drawn, loaded, pending, dataVars, history,
                   trigger, file, asked, parsed>>

-----------------------------------------------------------------------------

Sidebar ==
    \/ MarkUpload \/ SkipUpload \/ LoadSample \/ NoSample
    \/ InitDf \/ InitName \/ InitHistory \/ InitChat
    \/ ClearHistory \/ ClearChat \/ NoClear

Page ==
    \/ DrawChips \/ TakeQuestion \/ ShowQuestion \/ Think
    \/ Remember("remember", "user", "trimUser", "answer")
    \/ Trim("trimUser", "answer")
    \/ ShowAnswer
    \/ Remember("record", "assistant", "trimAnswer", "idle")
    \/ Trim("trimAnswer", "idle")

Run == Sidebar \/ Page

Next == User \/ Run

Spec == Init /\ [][Next]_vars

\* A run goes on by itself; nothing makes the user act.
FairSpec == Spec /\ WF_vars(Run)

-----------------------------------------------------------------------------
(* Safety                                                                  *)

\* What the model is told of the conversation is on the user's screen: the
\* history holds no turn the chat does not show, wherever runs were cut
\* (session_manager.py lines 208-214 and 282-284, app.py lines 258-299).
HistoryShown ==
    \A i \in 1..Len(history) : \E j \in 1..Len(chat) : chat[j] = history[i]

\* A turn that was not cut is recorded as a pair, question before answer, at
\* the end of the chat and of the history, and the history is within its limit
\* ("Two entries per turn; trim to bound prompt size and cost",
\* session_manager.py line 265), whatever earlier cuts left behind, unless
\* HISTORY_TURNS is 0: then the slice keeps all.
TurnRecorded ==
    pc = "idle" /\ asked # None =>
        LET turn == <<Entry("user"), Entry("assistant")>>
            LastTwo(s) == SubSeq(s, Len(s) - 1, Len(s)) IN
        /\ Len(history) >= 2 /\ LastTwo(history) = turn
        /\ Len(chat) >= 2 /\ LastTwo(chat) = turn
        /\ Len(history) <= Limit

\* "…or try a sample dataset" (app.py line 145): with no run cut short, the
\* sample the user clicked last is the dataset of the page.
SampleStays == pc = "idle" /\ ~cut /\ choice \in Samples => df = choice

\* "A new dataset invalidates prior context - old column references would
\* mislead the model" (session_manager.py lines 211-212): the model is given a
\* history about the dataset of the question.  A load that is cut after its
\* first write breaks this, so it is claimed as long as no run was cut.
ContextOfDataset ==
    pc = "think" /\ ~cut => \A i \in 1..Len(history) : history[i].about = df

-----------------------------------------------------------------------------
(* Liveness                                                                *)

\* The script reruns itself after a load and after a clear; these reruns do not
\* feed one another for ever, whatever is in the uploader.
RunsSettle == []<>(pc = "idle")
=============================================================================
