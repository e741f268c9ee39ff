---------------------------- MODULE Session_proofs --------------------------
(***************************************************************************)
(* The properties of Session hold for all files, questions and names, every *)
(* number of interactions and wherever they cut the runs.                   *)
(***************************************************************************)
EXTENDS SessionInv, SequenceTheorems, TLAPS

-----------------------------------------------------------------------------
(* Sequences that grow at the end and are trimmed at the start.            *)

\* What an entry at the end changes.
LEMMA Appended ==
    ASSUME NEW S, NEW s \in Seq(S), NEW e \in S
    PROVE  /\ Append(s, e) \in Seq(S) /\ Len(s) \in Nat
           /\ Len(Append(s, e)) = Len(s) + 1 /\ Append(s, e)[Len(s) + 1] = e
           /\ \A i \in 1..Len(s) : Append(s, e)[i] = s[i]
  BY AppendProperties, LenProperties

\* history[-n:] of a longer history is its last n entries, and all of it for
\* n = 0: its own entries, the last two in their places.
LEMMA Trimmed ==
    ASSUME NEW S, NEW h \in Seq(S), NEW n \in Nat, n # 1, n < Len(h)
    PROVE  /\ LastOnes(h, n) \in Seq(S)
           /\ n # 0 => Len(LastOnes(h, n)) = n
           /\ Len(LastOnes(h, n)) >= 1 /\ LastOnes(h, n)[Len(LastOnes(h, n))] = h[Len(h)]
           /\ Len(h) >= 2 =>
                 /\ Len(LastOnes(h, n)) >= 2
                 /\ LastOnes(h, n)[Len(LastOnes(h, n)) - 1] = h[Len(h) - 1]
           /\ \A i \in 1..Len(LastOnes(h, n)) : \E j \in 1..Len(h) : LastOnes(h, n)[i] = h[j]
<1>1. Len(h) \in Nat
  BY LenProperties
<1>2. CASE n = 0
  BY <1>1, <1>2 DEF LastOnes
<1>3. CASE n # 0
  <2> DEFINE m == Len(h) - n + 1
             t == SubSeq(h, m, Len(h))
  <2>1. m \in 1..Len(h) /\ Len(h) - m + 1 = n /\ n >= 2
    BY <1>1, <1>3
  <2>2. \A i \in m..Len(h) : h[i] \in S
    <3>1. \A i \in m..Len(h) : i \in 1..Len(h)
      BY <1>1, <2>1
    <3> QED
      BY <3>1, ElementOfSeq
  <2>3. /\ t \in Seq(S) /\ Len(t) = n
        /\ \A i \in 1..n : t[i] = h[m + i - 1]
    <3>1. m \in Int /\ Len(h) \in Int /\ m <= Len(h)
      BY <1>1, <2>1
    <3> HIDE DEF m
    <3>2. /\ t \in Seq(S) /\ Len(t) = IF m <= Len(h) THEN Len(h) - m + 1 ELSE 0
          /\ \A i \in 1..Len(h) - m + 1 : t[i] = h[m + i - 1]
      BY <3>1, <2>2, SubSeqProperties
    <3> QED
      BY <2>1, <3>1, <3>2
  <2>4. LastOnes(h, n) = t
    BY <1>3 DEF LastOnes
  <2> HIDE DEF t
  <2>5. t[n] = h[Len(h)] /\ t[n - 1] = h[Len(h) - 1]
    <3>1. n \in 1..n /\ n - 1 \in 1..n /\ m + n - 1 = Len(h) /\ m + (n - 1) - 1 = Len(h) - 1
      BY <1>1, <2>1
    <3> QED
      BY <2>3, <3>1
  <2>6. ASSUME NEW i \in 1..n PROVE \E j \in 1..Len(h) : t[i] = h[j]
    <3>1. m + i - 1 \in 1..Len(h)
      BY <1>1, <2>1
    <3> QED
      BY <2>3, <3>1
  <2>7. /\ Len(t) = n /\ Len(t) >= 1 /\ t[Len(t)] = h[Len(h)]
        /\ Len(t) >= 2 /\ t[Len(t) - 1] = h[Len(h) - 1]
        /\ \A i \in 1..Len(t) : \E j \in 1..Len(h) : t[i] = h[j]
    BY <2>1, <2>3, <2>5, <2>6
  <2> QED
    BY <2>3, <2>4, <2>7
<1> QED
  BY <1>2, <1>3

\* The end of a sequence is its last two entries.
LEMMA LastTwoEntries ==
    ASSUME NEW S, NEW s \in Seq(S), Len(s) >= 2
    PROVE  SubSeq(s, Len(s) - 1, Len(s)) = <<s[Len(s) - 1], s[Len(s)]>>
<1>1. Len(s) \in Nat
  BY LenProperties
<1> DEFINE m == Len(s) - 1
           t == SubSeq(s, m, Len(s))
<1>2. m \in Int /\ Len(s) \in Int /\ m <= Len(s) /\ Len(s) - m + 1 = 2
  BY <1>1
<1>3. \A i \in m..Len(s) : s[i] \in S
  <2>1. \A i \in m..Len(s) : i \in 1..Len(s)
    BY <1>1
  <2> QED
    BY <2>1, ElementOfSeq
<1> HIDE DEF m
<1>4. /\ t \in Seq(S) /\ Len(t) = IF m <= Len(s) THEN Len(s) - m + 1 ELSE 0
      /\ \A i \in 1..Len(s) - m + 1 : t[i] = s[m + i - 1]
  BY <1>2, <1>3, SubSeqProperties
<1> HIDE DEF t
<1>5. t \in Seq(S) /\ Len(t) = 2 /\ \A i \in 1..2 : t[i] = s[m + i - 1]
  BY ONLY <1>2, <1>4
<1>6. t[1] = s[Len(s) - 1] /\ t[2] = s[Len(s)]
  <2>1. m + 1 - 1 = Len(s) - 1 /\ m + 2 - 1 = Len(s)
    BY <1>1 DEF m
  <2> QED
    BY <1>5, <2>1
<1>7. t = <<t[1], t[2]>>
  BY <1>5
<1> QED
  BY <1>6, <1>7 DEF t, m

-----------------------------------------------------------------------------
(* The steps.                                                              *)

\* The user's interactions start a run, and change the uploader at most.
Starts(t) ==
    /\ StartRun(t) /\ t \in Triggers
    /\ t.kind = "sample" => t.what \in Samples
    /\ t.kind \in {"question", "chip"} => t.what \in Questions
    /\ uploader' \in Uploads \cup {None} /\ choice' \in Files \cup {None}

\* Every interaction of the user is one of those.
LEMMA UserStarts == ASSUME TypeOK, User PROVE \E t : Starts(t)
<1> USE DEF Triggers, Files, TypeOK
<1>1. CASE ChangeUpload
  <2>1. Starts(NoTrigger)
    BY <1>1 DEF ChangeUpload, Starts, NoTrigger
  <2> QED
    BY <2>1
<1>2. CASE ClickSample
  <2>1. PICK s \in Samples : /\ StartRun([kind |-> "sample", what |-> s])
                             /\ choice' = s /\ UNCHANGED uploader
    BY <1>2 DEF ClickSample
  <2>2. Starts([kind |-> "sample", what |-> s])
    BY <2>1 DEF Starts
  <2> QED
    BY <2>2
<1>3. CASE ClickElsewhere
  <2>1. UNCHANGED <<uploader, choice>>
    BY <1>3 DEF ClickElsewhere
  <2>2. CASE StartRun([kind |-> "clear", what |-> None])
    <3>1. Starts([kind |-> "clear", what |-> None])
      BY <2>1, <2>2 DEF Starts
    <3> QED
      BY <3>1
  <2>3. ASSUME NEW q \in Questions, NEW k \in {"question", "chip"},
               StartRun([kind |-> k, what |-> q])
        PROVE  \E t : Starts(t)
    <3>1. Starts([kind |-> k, what |-> q])
      BY <2>1, <2>3 DEF Starts
    <3> QED
      BY <3>1
  <2> QED
    BY <1>3, <2>2, <2>3 DEF ClickElsewhere
<1> QED
  BY <1>1, <1>2, <1>3 DEF User

\* The limit of the history is even, so that it holds whole turns.
LEMMA LimitEven == Limit \in Nat /\ Limit # 1 /\ (HistoryTurns # 0 => Limit >= 2)
  BY FilesAreApart DEF Limit

\* An entry of the turn in progress.
LEMMA EntryTyped ==
    ASSUME TypeOK, Stages, pc \in Asking, NEW role \in {"user", "assistant"}
    PROVE  Entry(role) \in Entries
  BY DEF Stages, Entry, Entries

-----------------------------------------------------------------------------
(* Every step preserves the invariant.                                     *)

\* Types.
LEMMA TypeStep == TypeOK /\ Stages /\ Bounded /\ [Next]_vars => TypeOK'
<1> SUFFICES ASSUME TypeOK, Stages, Bounded, [Next]_vars PROVE TypeOK'
  OBVIOUS
<1> USE DEF vars, dataVars, talkVars, userVars, runVars, Goto, PCs
<1>1. CASE UNCHANGED vars
  BY <1>1 DEF TypeOK
<1>2. CASE User
  <2>1. PICK t : Starts(t)
    BY <1>2, UserStarts
  <2>2. clicks' \in 0..MaxClicks
    BY <2>1, FilesAreApart DEF Starts, StartRun, TypeOK
  <2> QED
    BY <2>1, <2>2 DEF Starts, StartRun, TypeOK
<1>3. CASE MarkUpload \/ SkipUpload
  BY <1>3 DEF MarkUpload, SkipUpload, NewUpload, TypeOK, Files
<1>4. CASE LoadSample \/ NoSample
  BY <1>4 DEF LoadSample, NoSample, TypeOK, Stages, Files
<1>5. CASE InitDf \/ InitName
  BY <1>5 DEF InitDf, InitName, TypeOK, Stages, Loading
<1>6. CASE InitHistory \/ InitChat \/ ClearHistory \/ ClearChat \/ NoClear
  <2>1. <<>> \in Seq(Entries) /\ NoTrigger \in Triggers
    BY EmptySeq DEF NoTrigger, Triggers
  <2>2. CASE InitHistory \/ ClearHistory
    BY <2>1, <2>2 DEF InitHistory, ClearHistory, TypeOK
  <2>3. CASE InitChat \/ ClearChat
    BY <2>1, <2>3 DEF InitChat, ClearChat, TypeOK
  <2>4. CASE NoClear
    BY <2>4 DEF NoClear, TypeOK
  <2> QED
    BY <1>6, <2>2, <2>3, <2>4
<1>7. CASE DrawChips
  BY <1>7 DEF DrawChips, TypeOK, Stages
<1>8. CASE TakeQuestion
  BY <1>8 DEF TakeQuestion, TypeOK, Stages
<1>9. CASE ShowQuestion \/ ShowAnswer
  <2>1. /\ pc \in Asking
        /\ \E role \in {"user", "assistant"} : chat' = Append(chat, Entry(role))
        /\ pc' \in {"think", "record"}
        /\ UNCHANGED <<userVars, drawn, loaded, pending, dataVars, history,
                       trigger, file, asked, parsed>>
    BY <1>9 DEF ShowQuestion, ShowAnswer, Asking
  <2>2. chat' \in Seq(Entries)
    BY <2>1, EntryTyped, Appended DEF TypeOK
  <2> QED
    BY <2>1, <2>2 DEF TypeOK
<1>10. CASE Think
  BY <1>10 DEF Think, TypeOK
<1>11. CASE \/ Remember("remember", "user", "trimUser", "answer")
            \/ Remember("record", "assistant", "trimAnswer", "idle")
  <2>1. /\ pc \in Asking
        /\ \E role \in {"user", "assistant"} : history' = Append(history, Entry(role))
        /\ pc' \in {"trimUser", "answer", "trimAnswer", "idle"}
        /\ UNCHANGED <<userVars, drawn, loaded, pending, dataVars, chat,
                       trigger, file, asked, parsed>>
    BY <1>11 DEF Remember, Asking
  <2>2. history' \in Seq(Entries)
    BY <2>1, EntryTyped, Appended DEF TypeOK
  <2> QED
    BY <2>1, <2>2 DEF TypeOK
<1>12. CASE Trim("trimUser", "answer") \/ Trim("trimAnswer", "idle")
  <2>1. /\ pc \in {"trimUser", "trimAnswer"} /\ pc' \in {"answer", "idle"}
        /\ history' = LastOnes(history, Limit)
        /\ UNCHANGED <<userVars, drawn, loaded, pending, dataVars, chat,
                       trigger, file, asked, parsed>>
    BY <1>12 DEF Trim
  <2>2. history \in Seq(Entries) /\ Limit < Len(history)
    <3>1. history \in Seq(Entries) /\ Len(history) > Limit
      BY <2>1 DEF TypeOK, Bounded
    <3>2. Len(history) \in Nat
      BY <3>1, LenProperties
    <3> QED
      BY <3>1, <3>2, LimitEven
  <2>3. history' \in Seq(Entries)
    BY <2>1, <2>2, LimitEven, Trimmed
  <2> QED
    BY <2>1, <2>3 DEF TypeOK
<1> QED
  BY <1>1, <1>2, <1>3, <1>4, <1>5, <1>6, <1>7, <1>8, <1>9, <1>10, <1>11, <1>12
     DEF Next, Run, Sidebar, Page

\* What drives a run.
LEMMA StagesStep == TypeOK /\ Stages /\ [Next]_vars => Stages'
<1> SUFFICES ASSUME TypeOK, Stages, [Next]_vars PROVE Stages'
  OBVIOUS
<1> USE DEF vars, dataVars, talkVars, userVars, runVars, Goto, Loading, Asking, Recorded
<1>1. CASE UNCHANGED vars
  BY <1>1 DEF Stages
<1>2. CASE User
  <2>1. PICK t : Starts(t)
    BY <1>2, UserStarts
  <2> QED
    BY <2>1 DEF Starts, StartRun, Stages
<1>3. CASE MarkUpload \/ SkipUpload
  BY <1>3 DEF MarkUpload, SkipUpload, NewUpload, TypeOK, Stages, Files
<1>4. CASE LoadSample \/ NoSample
  BY <1>4 DEF LoadSample, NoSample, Stages, Files
<1>5. CASE InitDf \/ InitName
  BY <1>5 DEF InitDf, InitName, Stages
<1>6. CASE InitHistory \/ InitChat
  BY <1>6 DEF InitHistory, InitChat, Stages, NoTrigger
<1>7. CASE ClearHistory \/ ClearChat \/ NoClear
  BY <1>7 DEF ClearHistory, ClearChat, NoClear, Stages, NoTrigger, TypeOK
<1>8. CASE DrawChips
  BY <1>8 DEF DrawChips, Stages
<1>9. CASE TakeQuestion
  BY <1>9, FilesAreApart DEF TakeQuestion, TypeOK, Stages
<1>10. CASE ShowQuestion \/ ShowAnswer \/ Think
  BY <1>10 DEF ShowQuestion, ShowAnswer, Think, Stages
<1>11. CASE \/ Remember("remember", "user", "trimUser", "answer")
            \/ Remember("record", "assistant", "trimAnswer", "idle")
  BY <1>11 DEF Remember, Stages
<1>12. CASE Trim("trimUser", "answer") \/ Trim("trimAnswer", "idle")
  BY <1>12 DEF Trim, Stages
<1> QED
  BY <1>1, <1>2, <1>3, <1>4, <1>5, <1>6, <1>7, <1>8, <1>9, <1>10, <1>11, <1>12
     DEF Next, Run, Sidebar, Page
\* The turn in progress keeps its entries.
LEMMA EntrySame ==
    ASSUME UNCHANGED <<asked, df>>, NEW role
    PROVE  Entry(role)' = Entry(role)
  BY DEF Entry

\* What Remember and Trim do, in the middle and at the end of a turn.
LEMMA RememberDoes ==
    ASSUME TypeOK, Stages, NEW from, NEW role \in {"user", "assistant"}, NEW trim, NEW next,
           Remember(from, role, trim, next), from \in Asking
    PROVE  /\ history' \in Seq(Entries) /\ Len(history) \in Nat
           /\ Len(history') = Len(history) + 1 /\ history'[Len(history) + 1] = Entry(role)
           /\ \A i \in 1..Len(history) : history'[i] = history[i]
           /\ pc = from /\ pc' \in {trim, next}
           /\ pc' = trim \/ Len(history') <= Limit
           /\ pc' = next \/ Len(history') > Limit
           /\ UNCHANGED <<chat, df, asked, cut>>
<1>1. /\ pc = from /\ history' = Append(history, Entry(role))
      /\ pc' = IF Len(history) + 1 > Limit THEN trim ELSE next
      /\ UNCHANGED <<chat, df, asked, cut>>
  BY DEF Remember, Goto, dataVars, userVars
<1>2. history \in Seq(Entries) /\ Entry(role) \in Entries
  BY <1>1, EntryTyped DEF TypeOK
<1>3. /\ history' \in Seq(Entries) /\ Len(history) \in Nat
      /\ Len(history') = Len(history) + 1 /\ history'[Len(history) + 1] = Entry(role)
      /\ \A i \in 1..Len(history) : history'[i] = history[i]
  BY ONLY <1>1, <1>2, Appended
<1> QED
  BY <1>1, <1>3, LimitEven

\* The same of Trim.
LEMMA TrimDoes ==
    ASSUME TypeOK, Bounded, NEW from \in {"trimUser", "trimAnswer"}, NEW to, Trim(from, to)
    PROVE  /\ pc = from /\ pc' = to /\ UNCHANGED <<chat, df, asked, cut>>
           /\ history' \in Seq(Entries)
           /\ HistoryTurns # 0 => Len(history') <= Limit
           /\ Len(history') >= 1 /\ history'[Len(history')] = history[Len(history)]
           /\ Len(history) >= 2 =>
                 Len(history') >= 2 /\ history'[Len(history') - 1] = history[Len(history) - 1]
           /\ \A i \in 1..Len(history') : \E j \in 1..Len(history) : history'[i] = history[j]
<1>1. /\ pc = from /\ pc' = to /\ UNCHANGED <<chat, df, asked, cut>>
      /\ history' = LastOnes(history, Limit)
  BY DEF Trim, Goto, dataVars, userVars
<1>2. history \in Seq(Entries) /\ Len(history) \in Nat /\ Len(history) > Limit
  BY <1>1, LenProperties DEF TypeOK, Bounded
<1>3. Limit \in Nat /\ Limit # 1 /\ Limit < Len(history) /\ (HistoryTurns # 0 => Limit # 0)
  BY <1>2, LimitEven
<1>4. /\ LastOnes(history, Limit) \in Seq(Entries)
      /\ Limit # 0 => Len(LastOnes(history, Limit)) = Limit
      /\ Len(LastOnes(history, Limit)) >= 1
      /\ LastOnes(history, Limit)[Len(LastOnes(history, Limit))] = history[Len(history)]
      /\ Len(history) >= 2 =>
            /\ Len(LastOnes(history, Limit)) >= 2
            /\ LastOnes(history, Limit)[Len(LastOnes(history, Limit)) - 1]
                 = history[Len(history) - 1]
      /\ \A i \in 1..Len(LastOnes(history, Limit)) :
            \E j \in 1..Len(history) : LastOnes(history, Limit)[i] = history[j]
  BY ONLY <1>2, <1>3, Trimmed
<1> QED
  BY <1>1, <1>3, <1>4

\* The same of the two that grow the chat.
LEMMA ShowDoes ==
    ASSUME TypeOK, Stages, ShowQuestion \/ ShowAnswer
    PROVE  \E role \in {"user", "assistant"} :
              /\ pc = IF role = "user" THEN "say" ELSE "answer"
              /\ pc' = IF role = "user" THEN "think" ELSE "record"
              /\ chat' \in Seq(Entries) /\ Len(chat) \in Nat
              /\ Len(chat') = Len(chat) + 1 /\ chat'[Len(chat) + 1] = Entry(role)
              /\ \A i \in 1..Len(chat) : chat'[i] = chat[i]
              /\ UNCHANGED <<history, df, asked, cut>>
<1> USE DEF dataVars, userVars, Goto
<1>1. PICK role \in {"user", "assistant"} :
              /\ pc = IF role = "user" THEN "say" ELSE "answer"
              /\ pc' = IF role = "user" THEN "think" ELSE "record"
              /\ chat' = Append(chat, Entry(role))
              /\ UNCHANGED <<history, df, asked, cut>>
  BY DEF ShowQuestion, ShowAnswer
<1>2. chat \in Seq(Entries) /\ Entry(role) \in Entries
  BY <1>1, EntryTyped DEF TypeOK, Asking
<1>3. /\ chat' \in Seq(Entries) /\ Len(chat) \in Nat
      /\ Len(chat') = Len(chat) + 1 /\ chat'[Len(chat) + 1] = Entry(role)
      /\ \A i \in 1..Len(chat) : chat'[i] = chat[i]
  BY ONLY <1>1, <1>2, Appended
<1> QED
  BY <1>1, <1>3

\* The other steps of a run: they leave the conversation alone, or empty it.
Quiet == UNCHANGED <<chat, history>>

\* Where the run may be after a step that leaves the conversation alone.
LEMMA QuietDoes ==
    ASSUME MarkUpload \/ SkipUpload \/ LoadSample \/ NoSample \/ InitName \/ NoClear
             \/ DrawChips \/ TakeQuestion
    PROVE  /\ Quiet /\ UNCHANGED <<df, cut>>
           /\ pc \notin {"idle", "initHistory"} /\ pc \notin Asking
           /\ pc' \in {"samples", "init", "clear", "initHistory", "chips", "idle", "say", "ask"}
           /\ pc' = "initHistory" <=> pc = "initName"
           /\ pc' = "idle" /\ asked' # None => pc = "clear" /\ UNCHANGED asked
  BY DEF MarkUpload, SkipUpload, LoadSample, NoSample, InitName, NoClear, DrawChips,
         TakeQuestion, Goto, Quiet, dataVars, talkVars, userVars, Asking

\* The user's interactions leave it alone, and cut the run that is in progress.
LEMMA UserDoes ==
    ASSUME TypeOK, User
    PROVE  /\ Quiet /\ UNCHANGED df /\ pc' = "top" /\ asked' = None
           /\ cut' = (cut \/ pc # "idle")
<1>1. PICK t : StartRun(t)
  BY UserStarts DEF Starts
<1> QED
  BY <1>1 DEF StartRun, Quiet, dataVars, talkVars

\* The steps of a run that empty the history or the chat.
LEMMA EmptyDoes ==
    ASSUME InitHistory \/ ClearHistory \/ InitChat \/ ClearChat
    PROVE  /\ pc \in {"initHistory", "clear", "initChat", "clearChat"}
           /\ pc' = IF pc = "initHistory" THEN "initChat"
                    ELSE IF pc = "clear" THEN "clearChat" ELSE "top"
           /\ history' = <<>> \/ (pc \in {"initChat", "clearChat"} /\ history' = history)
           /\ UNCHANGED <<df, asked, cut>>
           /\ chat' = chat \/ (pc \in {"initChat", "clearChat"} /\ chat' = <<>>)
  BY DEF InitHistory, ClearHistory, InitChat, ClearChat, Goto, dataVars, userVars
\* Loading a dataset starts with the data frame.
LEMMA LoadDoes ==
    ASSUME InitDf
    PROVE  Quiet /\ pc = "init" /\ pc' = "initName" /\ UNCHANGED <<asked, cut>>
  BY DEF InitDf, Quiet, Goto, talkVars, userVars

\* The agent leaves the session alone; if it raises, the question is given up.
LEMMA ThinkDoes ==
    ASSUME Think
    PROVE  /\ Quiet /\ pc = "think" /\ UNCHANGED <<df, cut>>
           /\ \/ pc' = "remember" /\ asked' = asked
              \/ pc' = "idle" /\ asked' = None
  BY DEF Think, Quiet, dataVars, talkVars, userVars

Quiets == MarkUpload \/ SkipUpload \/ LoadSample \/ NoSample \/ InitName \/ NoClear
            \/ DrawChips \/ TakeQuestion

Empties == InitHistory \/ ClearHistory \/ InitChat \/ ClearChat

RememberQuestion == Remember("remember", "user", "trimUser", "answer")

RememberAnswer == Remember("record", "assistant", "trimAnswer", "idle")

\* The steps by what they do to the conversation.
LEMMA Steps ==
    ASSUME [Next]_vars
    PROVE  \/ UNCHANGED vars \/ User \/ Quiets \/ InitDf \/ Empties
           \/ (ShowQuestion \/ ShowAnswer) \/ Think \/ RememberQuestion \/ RememberAnswer
           \/ Trim("trimUser", "answer") \/ Trim("trimAnswer", "idle")
  BY DEF Next, Run, Sidebar, Page, Quiets, Empties, RememberQuestion, RememberAnswer

\* A turn is appended to the chat entry by entry, and to the history behind it.
LEMMA ProgressStep ==
    TypeOK /\ Stages /\ Bounded /\ InProgress /\ [Next]_vars => InProgress'
<1> SUFFICES ASSUME TypeOK, Stages, Bounded, InProgress, [Next]_vars PROVE InProgress'
  OBVIOUS
<1> USE DEF EndsWith, EndsWithTurn, Entry
<1>1. CASE UNCHANGED vars
  BY <1>1 DEF vars, talkVars, dataVars, runVars, InProgress, Recorded
<1>2. CASE User
  BY <1>2, UserDoes DEF InProgress, Recorded
<1>3. CASE Quiets
  BY <1>3, QuietDoes DEF Quiets, InProgress, Recorded, Stages, Asking
<1>4. CASE InitDf
  BY <1>4, LoadDoes DEF InProgress, Recorded
<1>5. CASE Empties
  BY <1>5, EmptyDoes DEF Empties, InProgress, Recorded
<1>6. CASE ShowQuestion \/ ShowAnswer
  <2>1. PICK role \in {"user", "assistant"} :
              /\ pc = IF role = "user" THEN "say" ELSE "answer"
              /\ pc' = IF role = "user" THEN "think" ELSE "record"
              /\ chat' \in Seq(Entries) /\ Len(chat) \in Nat
              /\ Len(chat') = Len(chat) + 1 /\ chat'[Len(chat) + 1] = Entry(role)
              /\ \A i \in 1..Len(chat) : chat'[i] = chat[i]
              /\ UNCHANGED <<history, df, asked, cut>>
    BY <1>6, ShowDoes
  <2>2. CASE role = "user"
    BY <2>1, <2>2 DEF InProgress, Recorded
  <2>3. CASE role = "assistant"
    <3>1. /\ pc = "answer" /\ pc' = "record"
          /\ Len(chat) >= 1 /\ chat[Len(chat)] = Entry("user")
          /\ Len(history) >= 1 /\ history[Len(history)] = Entry("user")
      BY <2>1, <2>3 DEF InProgress
    <3>2. /\ Len(chat') >= 2 /\ Len(chat') - 1 = Len(chat) /\ Len(chat) \in 1..Len(chat)
      BY <2>1, <3>1
    <3>3. chat'[Len(chat') - 1] = Entry("user") /\ chat'[Len(chat')] = Entry("assistant")
      BY <2>1, <2>3, <3>1, <3>2
    <3> QED
      BY <2>1, <3>1, <3>2, <3>3 DEF InProgress, Recorded
  <2> QED
    BY <2>2, <2>3
<1>7. CASE Think
  BY <1>7, ThinkDoes DEF Quiet, InProgress, Recorded
<1>8. CASE RememberQuestion
  <2>1. /\ Len(history) \in Nat
        /\ Len(history') = Len(history) + 1 /\ history'[Len(history) + 1] = Entry("user")
        /\ pc = "remember" /\ pc' \in {"trimUser", "answer"}
        /\ UNCHANGED <<chat, df, asked, cut>>
    BY <1>8, RememberDoes DEF RememberQuestion, Asking
  <2> QED
    BY <2>1 DEF InProgress, Recorded
<1>9. CASE RememberAnswer
  <2>1. /\ Len(history) \in Nat
        /\ Len(history') = Len(history) + 1 /\ history'[Len(history) + 1] = Entry("assistant")
        /\ \A i \in 1..Len(history) : history'[i] = history[i]
        /\ pc = "record" /\ pc' \in {"trimAnswer", "idle"}
        /\ UNCHANGED <<chat, df, asked, cut>>
    BY <1>9, RememberDoes DEF RememberAnswer, Asking
  <2>2. /\ Len(history) >= 1 /\ history[Len(history)] = Entry("user")
        /\ Len(chat) >= 2 /\ chat[Len(chat) - 1] = Entry("user")
        /\ chat[Len(chat)] = Entry("assistant")
    BY <2>1 DEF InProgress
  <2>3. Len(history') >= 2 /\ Len(history') - 1 = Len(history) /\ Len(history) \in 1..Len(history)
    BY <2>1, <2>2
  <2>4. /\ history'[Len(history') - 1] = Entry("user")
        /\ history'[Len(history')] = Entry("assistant")
    BY <2>1, <2>2, <2>3
  <2> QED
    BY <2>1, <2>2, <2>3, <2>4 DEF InProgress, Recorded
<1>10. CASE Trim("trimUser", "answer")
  <2>1. /\ pc = "trimUser" /\ pc' = "answer" /\ UNCHANGED <<chat, df, asked, cut>>
        /\ Len(history') >= 1 /\ history'[Len(history')] = history[Len(history)]
    BY <1>10, TrimDoes
  <2> QED
    BY <2>1 DEF InProgress, Recorded
<1>11. CASE Trim("trimAnswer", "idle")
  <2>1. /\ pc = "trimAnswer" /\ pc' = "idle" /\ UNCHANGED <<chat, df, asked, cut>>
        /\ Len(history') >= 1 /\ history'[Len(history')] = history[Len(history)]
        /\ Len(history) >= 2 =>
              Len(history') >= 2 /\ history'[Len(history') - 1] = history[Len(history) - 1]
    BY <1>11, TrimDoes
  <2> QED
    BY <2>1 DEF InProgress, Recorded
<1> QED
  BY <1>1, <1>2, <1>3, <1>4, <1>5, <1>6, <1>7, <1>8, <1>9, <1>10, <1>11, Steps

\* The history is trimmed when it is over its limit, and within it after a turn.
LEMMA BoundedStep == TypeOK /\ Stages /\ Bounded /\ [Next]_vars => Bounded'
<1> SUFFICES ASSUME TypeOK, Stages, Bounded, [Next]_vars PROVE Bounded'
  OBVIOUS
<1> USE DEF Limit
<1>1. CASE UNCHANGED vars
  BY <1>1 DEF vars, talkVars, runVars, Bounded, Recorded
<1>2. CASE User
  BY <1>2, UserDoes DEF Bounded, Recorded
<1>3. CASE Quiets
  BY <1>3, QuietDoes DEF Quiets, Bounded, Recorded, Stages, Asking
<1>4. CASE InitDf
  BY <1>4, LoadDoes DEF Bounded, Recorded
<1>5. CASE Empties
  BY <1>5, EmptyDoes DEF Empties, Bounded, Recorded
<1>6. CASE ShowQuestion \/ ShowAnswer
  BY <1>6, ShowDoes DEF Bounded, Recorded
<1>7. CASE Think
  BY <1>7, ThinkDoes DEF Bounded, Recorded
<1>8. CASE RememberQuestion
  <2>1. /\ pc' \in {"trimUser", "answer"}
        /\ pc' = "answer" \/ Len(history') > Limit
    BY <1>8, RememberDoes DEF RememberQuestion, Asking
  <2> QED
    BY <2>1 DEF Bounded, Recorded
<1>9. CASE RememberAnswer
  <2>1. /\ pc' \in {"trimAnswer", "idle"}
        /\ pc' = "trimAnswer" \/ Len(history') <= Limit
        /\ pc' = "idle" \/ Len(history') > Limit
    BY <1>9, RememberDoes DEF RememberAnswer, Asking
  <2> QED
    BY <2>1 DEF Bounded, Recorded
<1>10. CASE Trim("trimUser", "answer") \/ Trim("trimAnswer", "idle")
  BY <1>10, TrimDoes DEF Bounded, Recorded
<1> QED
  BY <1>1, <1>2, <1>3, <1>4, <1>5, <1>6, <1>7, <1>8, <1>9, <1>10, Steps

\* The history is emptied before the chat is.
LEMMA EmptiedStep == TypeOK /\ Stages /\ Bounded /\ Emptied /\ [Next]_vars => Emptied'
<1> SUFFICES ASSUME TypeOK, Stages, Bounded, Emptied, [Next]_vars PROVE Emptied'
  OBVIOUS
<1>1. CASE UNCHANGED vars
  BY <1>1 DEF vars, talkVars, runVars, Emptied
<1>2. CASE User \/ Quiets \/ InitDf \/ Think
  BY <1>2, UserDoes, QuietDoes, LoadDoes, ThinkDoes DEF Quiets, Emptied
<1>3. CASE Empties
  BY <1>3, EmptyDoes DEF Empties, Emptied
<1>4. CASE ShowQuestion \/ ShowAnswer
  BY <1>4, ShowDoes DEF Emptied
<1>5. CASE RememberQuestion \/ RememberAnswer
  <2>1. CASE RememberQuestion
    <3>1. pc' \in {"trimUser", "answer"}
      BY <2>1, RememberDoes DEF RememberQuestion, Asking
    <3> QED
      BY <3>1 DEF Emptied
  <2>2. CASE RememberAnswer
    <3>1. pc' \in {"trimAnswer", "idle"}
      BY <2>2, RememberDoes DEF RememberAnswer, Asking
    <3> QED
      BY <3>1 DEF Emptied
  <2> QED
    BY <1>5, <2>1, <2>2
<1>6. CASE Trim("trimUser", "answer") \/ Trim("trimAnswer", "idle")
  BY <1>6, TrimDoes DEF Emptied
<1> QED
  BY <1>1, <1>2, <1>3, <1>4, <1>5, <1>6, Steps
\* As long as no run is cut, the history is about the dataset of the page.
LEMMA AboutStep ==
    TypeOK /\ Stages /\ Bounded /\ Emptied /\ About /\ [Next]_vars => About'
<1> SUFFICES ASSUME TypeOK, Stages, Bounded, Emptied, About, [Next]_vars PROVE About'
  OBVIOUS
<1>1. ASSUME history' = <<>> PROVE About'
  BY <1>1 DEF About
<1>2. ASSUME UNCHANGED <<history, df>>, cut' \/ ~cut,
             cut' \/ (pc' \in {"initName", "initHistory"} <=> pc \in {"initName", "initHistory"})
      PROVE  About'
  BY <1>2 DEF About
<1>3. CASE UNCHANGED vars
  BY <1>2, <1>3 DEF vars, talkVars, dataVars, runVars, userVars
<1>4. CASE User
  <2>1. /\ Quiet /\ UNCHANGED df /\ pc' = "top" /\ cut' = (cut \/ pc # "idle")
    BY <1>4, UserDoes
  <2> QED
    BY <1>2, <2>1 DEF Quiet
<1>5. CASE Quiets
  <2>1. /\ Quiet /\ UNCHANGED <<df, cut>> /\ pc # "initHistory"
        /\ pc' = "initHistory" <=> pc = "initName"
        /\ pc' # "initName"
    BY <1>5, QuietDoes DEF Quiets
  <2> QED
    BY <2>1 DEF Quiet, About
<1>6. CASE InitDf
  BY <1>6, LoadDoes DEF About
<1>7. CASE Empties
  <2>1. history' = <<>> \/ (pc \in {"initChat", "clearChat"} /\ history' = history)
    BY <1>7, EmptyDoes DEF Empties
  <2> QED
    BY <1>1, <2>1 DEF Emptied
<1>8. CASE (ShowQuestion \/ ShowAnswer) \/ Think
  BY <1>2, <1>8, ShowDoes, ThinkDoes DEF Quiet
<1>9. ASSUME NEW from, NEW role \in {"user", "assistant"}, NEW trim, NEW next,
             Remember(from, role, trim, next), from \in {"remember", "record"}
      PROVE  About'
  <2>1. /\ Len(history) \in Nat /\ Len(history') = Len(history) + 1
        /\ history'[Len(history) + 1] = Entry(role)
        /\ \A i \in 1..Len(history) : history'[i] = history[i]
        /\ pc = from /\ UNCHANGED <<df, cut>>
    BY <1>9, RememberDoes DEF Asking
  <2> SUFFICES ASSUME ~cut, NEW i \in 1..Len(history') PROVE history'[i].about = df
    BY <2>1 DEF About
  <2>2. CASE i \in 1..Len(history)
    BY <1>9, <2>1, <2>2 DEF About
  <2>3. CASE i = Len(history) + 1
    BY <2>1, <2>3 DEF Entry
  <2> QED
    BY <2>1, <2>2, <2>3
<1>10. ASSUME NEW from \in {"trimUser", "trimAnswer"}, NEW to, Trim(from, to) PROVE About'
  <2>1. /\ pc = from /\ UNCHANGED <<df, cut>>
        /\ \A i \in 1..Len(history') : \E j \in 1..Len(history) : history'[i] = history[j]
    BY <1>10, TrimDoes
  <2> QED
    BY <2>1 DEF About
<1> QED
  BY <1>3, <1>4, <1>5, <1>6, <1>7, <1>8, <1>9, <1>10, Steps DEF RememberQuestion, RememberAnswer

\* Whatever is in the history is on the screen: it gets there first, and it
\* goes last.
LEMMA ShownStep ==
    TypeOK /\ Stages /\ Bounded /\ InProgress /\ Emptied /\ HistoryShown /\ [Next]_vars
      => HistoryShown'
<1> SUFFICES ASSUME TypeOK, Stages, Bounded, InProgress, Emptied, HistoryShown, [Next]_vars
             PROVE  HistoryShown'
  OBVIOUS
<1>1. ASSUME history' = <<>> PROVE HistoryShown'
  BY <1>1 DEF HistoryShown
<1>2. ASSUME UNCHANGED <<history, chat>> PROVE HistoryShown'
  BY <1>2 DEF HistoryShown
<1>3. CASE UNCHANGED vars
  BY <1>2, <1>3 DEF vars, talkVars
<1>4. CASE User \/ Quiets \/ InitDf \/ Think
  BY <1>2, <1>4, UserDoes, QuietDoes, LoadDoes, ThinkDoes DEF Quiets, Quiet
<1>5. CASE Empties
  <2>1. history' = <<>> \/ (pc \in {"initChat", "clearChat"} /\ history' = history)
    BY <1>5, EmptyDoes DEF Empties
  <2> QED
    BY <1>1, <2>1 DEF Emptied
<1>6. CASE ShowQuestion \/ ShowAnswer
  <2>1. /\ Len(chat) \in Nat /\ Len(chat') = Len(chat) + 1 /\ history' = history
        /\ \A i \in 1..Len(chat) : chat'[i] = chat[i]
    BY <1>6, ShowDoes
  <2> SUFFICES ASSUME NEW i \in 1..Len(history)
               PROVE  \E j \in 1..Len(chat') : chat'[j] = history[i]
    BY <2>1 DEF HistoryShown
  <2>2. PICK j \in 1..Len(chat) : chat[j] = history[i]
    BY DEF HistoryShown
  <2>3. j \in 1..Len(chat') /\ chat'[j] = history[i]
    BY <2>1, <2>2
  <2> QED
    BY <2>3
<1>7. ASSUME NEW from, NEW role \in {"user", "assistant"}, NEW trim, NEW next,
             Remember(from, role, trim, next), from \in Asking,
             Len(chat) >= 1, chat[Len(chat)] = Entry(role)
      PROVE  HistoryShown'
  <2>1. /\ Len(history) \in Nat /\ Len(history') = Len(history) + 1
        /\ history'[Len(history) + 1] = Entry(role)
        /\ \A i \in 1..Len(history) : history'[i] = history[i]
        /\ chat' = chat
    BY <1>7, RememberDoes
  <2> SUFFICES ASSUME NEW i \in 1..Len(history')
               PROVE  \E j \in 1..Len(chat) : chat[j] = history'[i]
    BY <2>1 DEF HistoryShown
  <2>2. CASE i \in 1..Len(history)
    BY <2>1, <2>2 DEF HistoryShown
  <2>3. CASE i = Len(history) + 1
    <3>1. Len(chat) \in 1..Len(chat)
      BY <1>7, LenProperties DEF TypeOK
    <3> QED
      BY <1>7, <2>1, <2>3, <3>1
  <2> QED
    BY <2>1, <2>2, <2>3
<1>8. CASE RememberQuestion
  <2>1. pc = "remember"
    BY <1>8 DEF RememberQuestion, Remember, Goto
  <2>2. Len(chat) >= 1 /\ chat[Len(chat)] = Entry("user")
    BY <2>1 DEF InProgress, EndsWith
  <2> QED
    BY <1>7, <1>8, <2>2 DEF RememberQuestion, Asking
<1>9. CASE RememberAnswer
  <2>1. pc = "record"
    BY <1>9 DEF RememberAnswer, Remember, Goto
  <2>2. Len(chat) >= 2 /\ chat[Len(chat)] = Entry("assistant") /\ Len(chat) \in Nat
    BY <2>1, LenProperties DEF InProgress, EndsWithTurn, TypeOK
  <2>3. Len(chat) >= 1
    BY <2>2
  <2> QED
    BY <1>7, <1>9, <2>2, <2>3 DEF RememberAnswer, Asking
<1>10. ASSUME NEW from \in {"trimUser", "trimAnswer"}, NEW to, Trim(from, to)
       PROVE  HistoryShown'
  <2>1. /\ chat' = chat
        /\ \A i \in 1..Len(history') : \E j \in 1..Len(history) : history'[i] = history[j]
    BY <1>10, TrimDoes
  <2> QED
    BY <2>1 DEF HistoryShown
<1> QED
  BY <1>3, <1>4, <1>5, <1>6, <1>8, <1>9, <1>10, Steps

-----------------------------------------------------------------------------
(* The theorems.                                                           *)

\* A session starts with nothing.
LEMMA IInvInit == Init => IInv
<1> SUFFICES ASSUME Init PROVE IInv
  OBVIOUS
<1> USE DEF Init, NoTrigger
<1>1. TypeOK
  <2>1. <<>> \in Seq(Entries) /\ NoTrigger \in Triggers /\ 0 \in 0..MaxClicks
    BY FilesAreApart, EmptySeq DEF Triggers
  <2> QED
    BY <2>1 DEF TypeOK, PCs
<1>2. Stages /\ InProgress /\ Bounded /\ Emptied /\ About /\ HistoryShown
  BY DEF Stages, InProgress, Bounded, Emptied, About, HistoryShown, Recorded, Loading, Asking
<1> QED
  BY <1>1, <1>2 DEF IInv

\* No step of a run and no interaction breaks any part.
LEMMA IInvStep == IInv /\ [Next]_vars => IInv'
  BY TypeStep, StagesStep, ProgressStep, BoundedStep, EmptiedStep, AboutStep, ShownStep DEF IInv

\* The invariant of the session, for any files, questions and interactions.
THEOREM Invariance == Spec => []IInv
<1>1. Init => IInv
  BY IInvInit
<1>2. IInv /\ [Next]_vars => IInv'
  BY IInvStep
<1> QED
  BY <1>1, <1>2, PTL DEF Spec

\* The model is told nothing that the user does not see, wherever runs were cut.
THEOREM HistoryIsShown == Spec => []HistoryShown
<1>1. IInv => HistoryShown
  BY DEF IInv
<1> QED
  BY <1>1, Invariance, PTL

\* A question that was answered without a cut is recorded as one pair, at the end
\* of the chat and of a history within its limit, if the limit is one: for
\* HISTORY_TURNS=0 `history[-0:]` keeps everything.
THEOREM TurnsRecorded == HistoryTurns # 0 => (Spec => []TurnRecorded)
<1> SUFFICES ASSUME HistoryTurns # 0 PROVE Spec => []TurnRecorded
  OBVIOUS
<1>1. IInv => TurnRecorded
  <2> SUFFICES ASSUME IInv, pc = "idle", asked # None
               PROVE  /\ Len(history) >= 2
                      /\ SubSeq(history, Len(history) - 1, Len(history))
                           = <<Entry("user"), Entry("assistant")>>
                      /\ Len(chat) >= 2
                      /\ SubSeq(chat, Len(chat) - 1, Len(chat))
                           = <<Entry("user"), Entry("assistant")>>
                      /\ Len(history) <= Limit
    BY DEF TurnRecorded
  <2>1. EndsWithTurn(history) /\ EndsWithTurn(chat) /\ Len(history) <= Limit
    BY DEF IInv, InProgress, Bounded, Recorded
  <2>2. ASSUME NEW s \in Seq(Entries), EndsWithTurn(s)
        PROVE  Len(s) >= 2 /\ SubSeq(s, Len(s) - 1, Len(s)) = <<Entry("user"), Entry("assistant")>>
    BY <2>2, LastTwoEntries DEF EndsWithTurn
  <2> QED
    BY <2>1, <2>2 DEF IInv, TypeOK
<1> QED
  BY <1>1, Invariance, PTL

\* As long as no run was cut, the model is given a history about the dataset of
\* the question.
THEOREM HistoryFollowsDataset == Spec => []ContextOfDataset
<1>1. IInv => ContextOfDataset
  BY DEF IInv, About, ContextOfDataset
<1> QED
  BY <1>1, Invariance, PTL
=============================================================================
