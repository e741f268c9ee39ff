-------------------------- MODULE WarmWorker_proofs -------------------------
(***************************************************************************)
(* The properties of WarmWorker hold for every set of codes, every limit    *)
(* of the validator and every number of jobs.                               *)
(***************************************************************************)
EXTENDS WarmWorkerInv, SequenceTheorems, WellFoundedInduction, TLAPS

-----------------------------------------------------------------------------
(* What the validator's verdict says of the code.                          *)

\* The first definition of run is where FindRunFunction says, if there is one.
LEMMA FirstDefinition ==
    ASSUME NEW S, NEW top \in Seq(S), FindRunFunction(top) # 0
    PROVE  FindRunFunction(top) \in 1..Len(top) /\ DefinesRun(top[FindRunFunction(top)])
<1> DEFINE I == {i \in 1..Len(top) : DefinesRun(top[i])}
<1>1. I \subseteq Nat
  BY LenProperties
<1>2. FindRunFunction(top) = IF I # {} THEN Min(I) ELSE 0
  BY DEF FindRunFunction, SelectInSeq
<1>3. I # {}
  BY <1>2
<1> HIDE DEF I
<1>4. \E i \in I : \A j \in I : i <= j
  <2>1. PICK i \in I : \A j \in I : <<j, i>> \notin OpToRel(<, Nat)
    BY ONLY <1>1, <1>3, NatLessThanWellFounded, WFMin
  <2>2. \A j \in I : ~(j < i)
    BY <1>1, <2>1 DEF OpToRel
  <2> QED
    BY <1>1, <2>2
<1>5. Min(I) \in I
  BY ONLY <1>4 DEF Min
<1> QED
  BY <1>2, <1>3, <1>5 DEF I

\* Code that passed has no node the policy forbids, and defines run at its top
\* level first as a function that takes the frame.
LEMMA Passed ==
    ASSUME NEW c \in Codes, Validate(c) = "ok"
    PROVE  /\ c.top \in Seq(STRING \X STRING) /\ c.body \in Seq(STRING \X STRING)
           /\ \A i \in 1..Len(c.top) : ~Flagged(c.top[i])
           /\ \A i \in 1..Len(c.body) : ~Flagged(c.body[i])
           /\ FindRunFunction(c.top) \in 1..Len(c.top)
           /\ c.top[FindRunFunction(c.top)][1] = "FunctionDef"
           /\ c.top[FindRunFunction(c.top)][2] # "noargs"
<1>1. c.top \in Seq(STRING \X STRING) /\ c.body \in Seq(STRING \X STRING)
  BY CodesAreCode
<1>2. /\ ~\E node \in Walk(c) : Flagged(node)
      /\ FindRunFunction(c.top) # 0
      /\ TakesDf(c.top[FindRunFunction(c.top)])
  BY DEF Validate
<1>3. /\ DOMAIN c.top = 1..Len(c.top) /\ DOMAIN c.body = 1..Len(c.body)
  BY <1>1, LenProperties
<1>4. /\ \A i \in 1..Len(c.top) : c.top[i] \in Walk(c)
      /\ \A i \in 1..Len(c.body) : c.body[i] \in Walk(c)
  BY <1>3 DEF Walk, ToSet
<1>5. FindRunFunction(c.top) \in 1..Len(c.top) /\ DefinesRun(c.top[FindRunFunction(c.top)])
  BY <1>1, <1>2, FirstDefinition
<1> QED
  BY <1>1, <1>2, <1>4, <1>5 DEF DefinesRun, TakesDf

\* The worker does not refuse an import of code that passed.
LEMMA NoImportRefused ==
    ASSUME NEW node \in STRING \X STRING, ~Flagged(node)
    PROVE  Raises(node) \subseteq {"raised"}
  BY DEF Flagged, VisitImport, VisitImportFrom, AllowedRoots, RestrictedRoots, Raises

\* A plain definition of run that one argument fits binds it to that function,
\* and only the statements of Rebinds bind it at all.
LEMMA BoundTo ==
    ASSUME NEW node \in STRING \X STRING, NEW b \in Binds(node), run \in {None} \cup Anything
    PROVE  /\ b \in {None} \cup Anything
           /\ node[1] = "FunctionDef" /\ node[2] \notin {"noargs", "decorated", "more"}
                 => b = "takesdf"
           /\ ~Rebinds(node) => b = run
<1>1. CASE node[1] = "FunctionDef"
  <2>1. /\ node # <<"Import", "allowed as run">> /\ node # <<"ImportFrom", "allowed as run">>
        /\ node # <<"Call", "global">>
    <3>1. /\ <<"Import", "allowed as run">>[1] = "Import"
          /\ <<"ImportFrom", "allowed as run">>[1] = "ImportFrom"
          /\ <<"Call", "global">>[1] = "Call"
      OBVIOUS
    <3> QED
      BY ONLY <1>1, <3>1
  <2>2. b \in Defined(node[2])
    BY <1>1, <2>1 DEF Binds
  <2>3. b \in Anything /\ (node[2] \notin {"noargs", "decorated", "more"} => b = "takesdf")
    BY <2>2 DEF Defined, Anything
  <2> QED
    BY <1>1, <2>3 DEF Rebinds
<1>2. CASE node[1] # "FunctionDef" /\ Rebinds(node)
  <2>1. b \in {None, run, "value"} \cup Anything
    BY <1>2 DEF Binds
  <2> QED
    BY <1>2, <2>1 DEF Anything
<1>3. CASE ~Rebinds(node)
  <2>1. node[1] \notin {"FunctionDef", "Assign", "Delete", "If", "For"}
    BY <1>3 DEF Rebinds
  <2>2. /\ node # <<"Import", "allowed as run">> /\ node # <<"ImportFrom", "allowed as run">>
        /\ node # <<"Call", "global">>
    BY <1>3 DEF Rebinds
  <2>3. b \in {run}
    BY <2>1, <2>2 DEF Binds
  <2> QED
    BY <2>1, <2>3
<1> QED
  BY <1>1, <1>2, <1>3

\* What is unpacked is what run() returned: the last object if that is a chart,
\* and no text beside a bare one.
LEMMA Unpacked ==
    ASSUME raw \in TupleOf(Objects, 1) \cup TupleOf(Objects, 2)
    PROVE  /\ UnpackResult[1] \in Objects /\ UnpackResult[2] \in Objects
           /\ IsFigure(Last(raw)) =>
                 UnpackResult[2] = Last(raw) /\ (Len(raw) = 1 => UnpackResult[1] = "none")
<1>1. CASE raw \in [1..1 -> Objects]
  <2>1. Len(raw) = 1 /\ raw[1] \in Objects
    BY <1>1
  <2> QED
    BY <2>1 DEF UnpackResult, IsFigure, Last, Objects
<1>2. CASE raw \in [1..2 -> Objects]
  <2>1. Len(raw) = 2 /\ raw[1] \in Objects /\ raw[2] \in Objects
    BY <1>2
  <2> QED
    BY <2>1 DEF UnpackResult, IsFigure, Last, Objects
<1> QED
  BY <1>1, <1>2 DEF TupleOf

-----------------------------------------------------------------------------
(* The steps.                                                              *)

\* The node that runs next, at the top level or in the body of run, is one the
\* policy allows.
LEMMA NextNode ==
    ASSUME TypeOK, Vetted, pc \in {"top", "body"}, ~BlockEnds
    PROVE  /\ Block[line] \in STRING \X STRING /\ ~Flagged(Block[line])
           /\ line \in 1..Len(Block)
<1>1. code \in Codes /\ Validate(code) = "ok"
  BY DEF Vetted, Working
<1>2. /\ Block \in Seq(STRING \X STRING)
      /\ \A i \in 1..Len(Block) : ~Flagged(Block[i])
  BY <1>1, Passed DEF Block
<1>3. line \in 1..Len(Block)
  <2>1. Len(Block) \in Nat /\ line \in Nat \ {0}
    BY <1>2, LenProperties DEF TypeOK
  <2>2. ~(line > Len(Block))
    BY DEF BlockEnds
  <2> QED
    BY ONLY <2>1, <2>2
<1> QED
  BY <1>2, <1>3, ElementOfSeq

\* The ways a job fails: none of them a refused import.
Failing(why) ==
    /\ pc \in {"compile", "top", "body", "figure", "text"}
    /\ why \in {"syntax", "raised", "norun", "misfit"}
    /\ why \in {"norun", "misfit"} => pc = "top" /\ BlockEnds /\ run # "takesdf"
    /\ Fail(why)

\* The actions that make a job fail fail it in one of those ways.
LEMMA FailingSteps ==
    ASSUME TypeOK, Vetted,
           CompileFails \/ NodeRaises \/ NoRun \/ RunMisfits
             \/ SavefigRaises \/ StringifyRaises
    PROVE  \E why : Failing(why)
<1>1. CASE NodeRaises
  <2>1. pc \in {"top", "body"} /\ ~BlockEnds
    BY <1>1 DEF NodeRaises
  <2>2. PICK why \in Raises(Block[line]) : Fail(why)
    BY <1>1 DEF NodeRaises
  <2>3. why = "raised"
    BY <2>1, <2>2, NextNode, NoImportRefused
  <2> QED
    BY <2>1, <2>2, <2>3 DEF Failing
<1>2. CASE CompileFails
  <2>1. Failing("syntax")
    BY <1>2 DEF CompileFails, Failing
  <2> QED
    BY <2>1
<1>3. CASE NoRun
  <2>1. Failing("norun")
    BY <1>3, NoneDistinct DEF NoRun, Failing
  <2> QED
    BY <2>1
<1>4. CASE RunMisfits
  <2>1. Failing("misfit")
    BY <1>4 DEF RunMisfits, Failing
  <2> QED
    BY <2>1
<1>5. CASE SavefigRaises \/ StringifyRaises
  <2>1. Failing("raised")
    BY <1>5 DEF SavefigRaises, StringifyRaises, Failing
  <2> QED
    BY <2>1
<1> QED
  BY <1>1, <1>2, <1>3, <1>4, <1>5

\* What the steps that draw do to the reply.
Drawing(figure, type, warning) ==
    /\ pc = "figure" /\ UNCHANGED open
    /\ Drawn(figure, type, warning)
    /\ Draws
    /\ \/ figure = "none" /\ type = None
          /\ warning \in {None, "too large", "not serializable", "unsupported"}
       \/ figure = "mpl" /\ type = "png" /\ warning = None
       \/ figure = "plotly" /\ type = "plotly_json" /\ warning = None
    /\ IsFigure(UnpackResult[2]) => figure = UnpackResult[2] \/ warning # None

\* Each of them draws the figure, or says why not.
LEMMA DrawingSteps ==
    ASSUME NoFigure \/ SerializeMatplotlib \/ SerializePlotly \/ UnsupportedFigure
    PROVE  \E figure, type, warning : Drawing(figure, type, warning)
<1>1. CASE NoFigure
  <2>1. Drawing("none", None, None)
    BY <1>1 DEF NoFigure, Drawing, Draws, IsFigure
  <2> QED
    BY <2>1
<1>2. CASE SerializeMatplotlib
  <2>1. Drawing("mpl", "png", None) \/ Drawing("none", None, "too large")
    BY <1>2, NoneDistinct DEF SerializeMatplotlib, Drawing, IsFigure
  <2> QED
    BY <2>1
<1>3. CASE SerializePlotly
  <2>1. \/ Drawing("plotly", "plotly_json", None) \/ Drawing("none", None, "too large")
        \/ Drawing("none", None, "not serializable")
    BY <1>3, NoneDistinct DEF SerializePlotly, Drawing, Draws, IsFigure
  <2> QED
    BY <2>1
<1>4. CASE UnsupportedFigure
  <2>1. Drawing("none", None, "unsupported")
    BY <1>4, NoneDistinct DEF UnsupportedFigure, Drawing, Draws, IsFigure
  <2> QED
    BY <2>1
<1> QED
  BY <1>1, <1>2, <1>3, <1>4

\* Every step is one of the worker's own, a node of the code, a failure, the
\* drawing of a chart or the text of the answer.
LEMMA Steps ==
    ASSUME TypeOK, Vetted, [Next]_vars
    PROVE  \/ UNCHANGED vars
           \/ (\E c \in Codes : Send(c)) \/ Dismiss \/ ParentDies
           \/ Boot \/ Leave \/ TakeJob \/ WriteReply \/ WriteFails
           \/ Compile \/ NodeRuns \/ CallRun \/ RunReturns
           \/ (\E why : Failing(why))
           \/ (\E figure, type, warning : Drawing(figure, type, warning))
           \/ Stringify
  BY FailingSteps, DrawingSteps DEF Next, Job
-----------------------------------------------------------------------------
(* Every step preserves the invariant.                                     *)

\* What code prints and draws keeps its type.
LEMMA EffectTyped ==
    ASSUME TypeOK, NEW place \in Places, PrintAt(place) \/ Silent
    PROVE  captured' \in Seq(Places) /\ printed' \in Seq(Places)
<1>1. captured \in Seq(Places) /\ printed \in Seq(Places)
  BY DEF TypeOK
<1>2. Append(captured, place) \in Seq(Places) /\ Append(printed, place) \in Seq(Places)
  BY <1>1, AppendProperties
<1> QED
  BY <1>1, <1>2 DEF PrintAt, Silent

\* A text that is cut keeps its first characters, as many as there is room for.
LEMMA CutKeeps ==
    ASSUME NEW S, NEW text \in Seq(S), NEW limit \in Nat
    PROVE  LET cut == Cut(text, limit) IN
           /\ cut \in [chars : Seq(S), notice : BOOLEAN]
           /\ Begins(cut.chars, text)
           /\ cut.notice <=> Len(text) > limit
           /\ Len(cut.chars) = IF Len(text) > limit THEN limit ELSE Len(text)
<1> DEFINE start == SubSeq(text, 1, limit)
<1>0. Len(text) \in Nat /\ \A i \in 1..Len(text) : text[i] \in S
  BY LenProperties, ElementOfSeq
<1>1. CASE Len(text) > limit
  <2>1. 1 \in Int /\ limit \in Int /\ (\A i \in 1..limit : text[i] \in S)
    BY <1>0, <1>1
  <2>2. /\ start \in Seq(S) /\ Len(start) = (IF 1 <= limit THEN limit - 1 + 1 ELSE 0)
        /\ \A i \in 1..limit - 1 + 1 : start[i] = text[1 + i - 1]
    BY <2>1, SubSeqProperties
  <2> HIDE DEF start
  <2>3. Len(start) = limit
    BY <2>2
  <2>4. \A i \in 1..limit : start[i] = text[i]
    BY <2>2
  <2>5. Cut(text, limit) = [chars |-> start, notice |-> TRUE]
    BY <1>1 DEF Cut, start
  <2> QED
    BY <1>0, <1>1, <2>2, <2>3, <2>4, <2>5 DEF Begins
<1>2. CASE ~(Len(text) > limit)
  <2>1. Cut(text, limit) = [chars |-> text, notice |-> FALSE]
    BY <1>2 DEF Cut
  <2> QED
    BY <1>0, <1>2, <2>1 DEF Begins
<1> QED
  BY <1>1, <1>2

\* Types.
LEMMA TypeStep == TypeOK /\ Vetted /\ Fresh /\ [Next]_vars => TypeOK'
<1> SUFFICES ASSUME TypeOK, Vetted, Fresh, [Next]_vars PROVE TypeOK'
  OBVIOUS
<1> USE DEF vars, jobVars, outVars, Message, Working
<1>1. CASE UNCHANGED vars
  BY <1>1 DEF TypeOK
<1>2. CASE (\E c \in Codes : Send(c)) \/ Dismiss \/ ParentDies
  <2>1. inbox' \in [kind : {"nothing", "job", "shutdown", "eof"}, code : Codes \cup {None}]
    <3>1. ASSUME NEW c \in Codes, Send(c) PROVE inbox' = [kind |-> "job", code |-> c]
      BY <3>1 DEF Send
    <3>2. CASE Dismiss
      BY <3>2 DEF Dismiss
    <3>3. CASE ParentDies
      BY <3>3 DEF ParentDies, TypeOK
    <3> QED
      BY <1>2, <3>1, <3>2, <3>3
  <2>2. /\ parent' \in {"reads", "gone"}
        /\ UNCHANGED <<pc, job, jobVars, reply, open, theme, outVars, channel>>
    BY <1>2 DEF Send, Dismiss, ParentDies, TypeOK
  <2> QED
    BY <2>1, <2>2 DEF TypeOK
<1>3. CASE Boot \/ Leave \/ WriteFails
  BY <1>3 DEF TypeOK, Boot, ApplyChartTheme, Leave, WriteFails
<1>4. CASE TakeJob
  BY <1>4 DEF TypeOK, TakeJob
<1>5. CASE WriteReply
  <2>1. reply' \in Replies
    BY <1>5 DEF WriteReply, NoReply, Replies, Objects
  <2> QED
    BY <1>5, <2>1 DEF TypeOK, WriteReply
<1>6. CASE Compile
  BY <1>6 DEF TypeOK, Compile
<1>7. CASE NodeRuns
  <2>1. /\ pc \in {"top", "body"} /\ Block[line] \in STRING \X STRING
        /\ run' \in IF pc = "top" THEN Binds(Block[line]) ELSE {run}
        /\ Effect(Block[line], pc) /\ line' = line + 1
        /\ UNCHANGED <<pc, inbox, parent, job, code, raw, reply, sysout>>
    BY <1>7, NextNode DEF NodeRuns
  <2>2. run' \in {None} \cup Anything
    BY <2>1, BoundTo DEF TypeOK
  <2>3. captured' \in Seq(Places) /\ printed' \in Seq(Places)
    BY <2>1, EffectTyped DEF Effect, Places
  <2>4. open' \subseteq Nat /\ theme' \in {"house", "other"}
    BY <2>1 DEF Effect, TypeOK
  <2> QED
    BY <2>1, <2>2, <2>3, <2>4 DEF TypeOK
<1>8. CASE CallRun
  BY <1>8 DEF TypeOK, CallRun
<1>9. CASE RunReturns
  BY <1>9 DEF TypeOK, RunReturns
<1>10. ASSUME NEW why, Failing(why) PROVE TypeOK'
  <2>1. /\ pc' = "write" /\ reply' = [NoReply EXCEPT !.error = why] /\ open' = {}
        /\ sysout' = "process" /\ why \in {"syntax", "raised", "norun", "misfit"}
        /\ UNCHANGED <<inbox, parent, job, jobVars, theme, captured, printed, channel>>
    BY <1>10 DEF Failing, Fail, Return, CloseAll
  <2>2. NoReply \in Replies
    <3>1. <<>> \in Seq(Places)
      OBVIOUS
    <3>2. NoReply.stdout \in [chars : Seq(Places), notice : BOOLEAN]
      BY <3>1 DEF NoReply
    <3> QED
      BY <3>2 DEF NoReply, Replies, Objects
  <2>3. reply' \in Replies
    BY <2>1, <2>2 DEF Replies
  <2> QED
    BY <2>1, <2>3 DEF TypeOK
<1>11. ASSUME NEW figure, NEW type, NEW warning, Drawing(figure, type, warning)
       PROVE  TypeOK'
  <2>1. /\ pc' = "text"
        /\ reply' = [reply EXCEPT !.figure = figure, !.type = type, !.warning = warning]
        /\ UNCHANGED <<inbox, parent, job, jobVars, theme, sysout, open>>
        /\ figure \in {"none", "mpl", "plotly"} /\ type \in {None, "png", "plotly_json"}
        /\ warning \in {None, "too large", "not serializable", "unsupported"}
    BY <1>11 DEF Drawing, Drawn
  <2>2. reply' \in Replies
    BY <2>1 DEF Replies, TypeOK
  <2>3. captured' \in Seq(Places) /\ printed' \in Seq(Places)
    BY <1>11, EffectTyped DEF Drawing, Draws, Places
  <2> QED
    BY <2>1, <2>2, <2>3 DEF TypeOK
<1>12. CASE Stringify
  <2>1. /\ pc = "text" /\ pc' = "write" /\ open' = {} /\ sysout' = "process"
        /\ reply' = [reply EXCEPT !.text = CutObject(UnpackResult[1]),
                                  !.stdout = Cut(captured, MaxStdout)]
        /\ UNCHANGED <<inbox, parent, job, jobVars, theme, captured, printed, channel>>
    BY <1>12 DEF Stringify, Return, CloseAll
  <2>2. CutObject(UnpackResult[1]) \in Objects \cup {"cut"}
    BY <2>1, Unpacked DEF Fresh, CutObject
  <2>3. captured \in Seq(Places) /\ reply \in Replies
    BY DEF TypeOK
  <2>4. Cut(captured, MaxStdout) \in [chars : Seq(Places), notice : BOOLEAN]
    BY <2>3, CutKeeps, RoomIsNatural
  <2>5. reply' \in Replies
    BY <2>1, <2>2, <2>3, <2>4 DEF Replies
  <2> QED
    BY <2>1, <2>5 DEF TypeOK
<1> QED
  BY <1>1, <1>2, <1>3, <1>4, <1>5, <1>6, <1>7, <1>8, <1>9, <1>10, <1>11, <1>12, Steps
\* A failure makes the error the whole reply.
LEMMA FailDoes ==
    ASSUME NEW why, Failing(why)
    PROVE  /\ pc' = "write" /\ reply' = [NoReply EXCEPT !.error = why] /\ open' = {}
           /\ sysout' = "process" /\ why \in {"syntax", "raised", "norun", "misfit"}
           /\ pc \in {"compile", "top", "body", "figure", "text"}
           /\ UNCHANGED <<inbox, parent, job, code, line, run, raw, theme,
                          captured, printed, channel>>
  BY DEF Failing, Fail, Return, CloseAll, jobVars

\* Drawing sets the chart's part of the reply, and may print.
LEMMA DrawDoes ==
    ASSUME NEW figure, NEW type, NEW warning, Drawing(figure, type, warning)
    PROVE  /\ pc = "figure" /\ pc' = "text"
           /\ reply = NoReply =>
                 reply' = [error |-> None, text |-> "none", figure |-> figure, type |-> type,
                           stdout |-> [chars |-> <<>>, notice |-> FALSE], warning |-> warning]
           /\ PrintAt("figure") \/ Silent
           /\ UNCHANGED <<inbox, parent, job, code, line, run, raw, theme, sysout, open>>
<1>1. Drawn(figure, type, warning) /\ UNCHANGED open
  BY DEF Drawing
<1>2. ASSUME reply = NoReply
      PROVE  reply' = [error |-> None, text |-> "none", figure |-> figure, type |-> type,
                       stdout |-> [chars |-> <<>>, notice |-> FALSE], warning |-> warning]
  BY <1>1, <1>2 DEF Drawn, NoReply
<1>3. UNCHANGED <<inbox, parent, job, code, line, run, raw, theme, sysout, open>>
  BY <1>1 DEF Drawn, jobVars
<1> QED
  BY <1>1, <1>2, <1>3 DEF Drawing, Drawn, Draws

\* The text and the output complete the reply.
LEMMA TextDoes ==
    ASSUME Stringify
    PROVE  /\ pc = "text" /\ pc' = "write" /\ open' = {} /\ sysout' = "process"
           /\ reply' = [reply EXCEPT !.text = CutObject(UnpackResult[1]),
                                  !.stdout = Cut(captured, MaxStdout)]
           /\ UNCHANGED <<inbox, parent, job, code, line, run, raw, theme,
                          captured, printed, channel>>
  BY DEF Stringify, Return, CloseAll, jobVars

\* A node may print, and leaves the rest of the reply's making alone.
LEMMA NodeDoes ==
    ASSUME NodeRuns
    PROVE  /\ pc \in {"top", "body"} /\ ~BlockEnds /\ line' = line + 1
           /\ run' \in IF pc = "top" THEN Binds(Block[line]) ELSE {run}
           /\ PrintAt(pc) \/ Silent
           /\ UNCHANGED <<pc, inbox, parent, job, code, raw, reply, sysout>>
  BY DEF NodeRuns, Effect

\* Only code that passed is sent, and it is the code that is computed.
LEMMA VettedStep == TypeOK /\ Vetted /\ [Next]_vars => Vetted'
<1> SUFFICES ASSUME TypeOK, Vetted, [Next]_vars PROVE Vetted'
  OBVIOUS
<1> USE DEF vars, jobVars, outVars, Message, Working, Vetted
<1>1. CASE UNCHANGED vars
  BY <1>1
<1>2. CASE (\E c \in Codes : Send(c)) \/ Dismiss \/ ParentDies
  <2>1. ASSUME NEW c \in Codes, Send(c) PROVE Vetted'
    BY <2>1 DEF Send
  <2>2. CASE Dismiss
    BY <2>2 DEF Dismiss
  <2>3. CASE ParentDies
    BY <2>3 DEF ParentDies
  <2> QED
    BY <1>2, <2>1, <2>2, <2>3
<1>3. CASE Boot \/ Leave \/ WriteFails \/ TakeJob \/ WriteReply
  BY <1>3 DEF Boot, Leave, WriteFails, TakeJob, WriteReply, TypeOK
<1>4. CASE Compile \/ CallRun \/ RunReturns
  BY <1>4 DEF Compile, CallRun, RunReturns
<1>5. CASE NodeRuns
  BY <1>5, NodeDoes
<1>6. ASSUME NEW why, Failing(why) PROVE Vetted'
  BY <1>6, FailDoes
<1>7. ASSUME NEW figure, NEW type, NEW warning, Drawing(figure, type, warning)
      PROVE  Vetted'
  BY <1>7, DrawDoes
<1>8. CASE Stringify
  BY <1>8, TextDoes
<1> QED
  BY <1>1, <1>2, <1>3, <1>4, <1>5, <1>6, <1>7, <1>8, Steps

\* The redirect and the figures end with the job.
LEMMA ContainedStep == TypeOK /\ Vetted /\ Contained /\ [Next]_vars => Contained'
<1> SUFFICES ASSUME TypeOK, Vetted, Contained, [Next]_vars PROVE Contained'
  OBVIOUS
<1> USE DEF vars, jobVars, outVars, Contained
<1>1. CASE UNCHANGED vars
  BY <1>1
<1>2. CASE (\E c \in Codes : Send(c)) \/ Dismiss \/ ParentDies
  BY <1>2 DEF Send, Dismiss, ParentDies
<1>3. CASE Boot \/ Leave \/ WriteFails \/ TakeJob \/ WriteReply
  BY <1>3 DEF Boot, Leave, WriteFails, TakeJob, WriteReply
<1>4. CASE Compile \/ CallRun \/ RunReturns
  BY <1>4 DEF Compile, CallRun, RunReturns
<1>5. CASE NodeRuns
  BY <1>5, NodeDoes
<1>6. ASSUME NEW why, Failing(why) PROVE Contained'
  BY <1>6, FailDoes
<1>7. ASSUME NEW figure, NEW type, NEW warning, Drawing(figure, type, warning)
      PROVE  Contained'
  BY <1>7, DrawDoes
<1>8. CASE Stringify
  BY <1>8, TextDoes
<1> QED
  BY <1>1, <1>2, <1>3, <1>4, <1>5, <1>6, <1>7, <1>8, Steps

\* Code prints into the capture while run() and the top level execute, and into
\* the process's own output while a chart is drawn; never into the pipe.
LEMMA Prints ==
    ASSUME TypeOK, Contained, Captured, pc \in Places, PrintAt(pc) \/ Silent
    PROVE  /\ Mirrors(captured', printed')
           /\ pc # "figure" => Len(captured') = Len(printed')
           /\ channel' = channel
<1>1. CASE Silent
  BY <1>1 DEF Silent, Captured, Places
<1>2. CASE PrintAt(pc)
  <2>1. captured \in Seq(Places) /\ printed \in Seq(Places)
    BY DEF TypeOK
  <2>2. /\ Len(captured) \in Nat /\ Len(printed) \in Nat
        /\ Len(captured) <= Len(printed)
        /\ \A i \in 1..Len(captured) : captured[i] = printed[i] /\ captured[i] # "figure"
        /\ \A i \in Len(captured) + 1..Len(printed) : printed[i] = "figure"
        /\ pc # "figure" => Len(captured) = Len(printed)
    BY <2>1, LenProperties DEF Captured, Mirrors, Begins, Places
  <2>3. /\ printed' = Append(printed, pc)
        /\ captured' = IF pc # "figure" THEN Append(captured, pc) ELSE captured
        /\ channel' = channel
    BY <1>2 DEF PrintAt, Contained, Places, ProcessStdout
  <2>4. /\ Len(Append(printed, pc)) = Len(printed) + 1
        /\ \A i \in 1..Len(printed) : Append(printed, pc)[i] = printed[i]
        /\ Append(printed, pc)[Len(printed) + 1] = pc
    BY <2>1, AppendProperties
  <2>5. /\ Len(Append(captured, pc)) = Len(captured) + 1
        /\ \A i \in 1..Len(captured) : Append(captured, pc)[i] = captured[i]
        /\ Append(captured, pc)[Len(captured) + 1] = pc
    BY <2>1, AppendProperties
  <2>6. CASE pc = "figure"
    <3>1. /\ captured' = captured /\ Len(printed') = Len(printed) + 1
          /\ \A i \in 1..Len(printed) : printed'[i] = printed[i]
          /\ printed'[Len(printed) + 1] = "figure"
      BY <2>3, <2>4, <2>6
    <3> QED
      BY ONLY <2>2, <2>3, <2>6, <3>1 DEF Mirrors, Begins
  <2>7. CASE pc # "figure"
    <3>1. /\ Len(printed') = Len(printed) + 1 /\ Len(captured') = Len(captured) + 1
          /\ \A i \in 1..Len(printed) : printed'[i] = printed[i]
          /\ \A i \in 1..Len(captured) : captured'[i] = captured[i]
          /\ printed'[Len(printed) + 1] = pc /\ captured'[Len(captured) + 1] = pc
      BY <2>3, <2>4, <2>5, <2>7
    <3> QED
      BY ONLY <2>2, <2>3, <2>7, <3>1 DEF Mirrors, Begins
  <2> QED
    BY <2>6, <2>7
<1> QED
  BY <1>1, <1>2

\* Where nothing was printed, nothing is held.
LEMMA NothingHeld == Mirrors(<<>>, <<>>) /\ Len(<<>>) = 0
<1>1. Len(<<>>) = 0
  OBVIOUS
<1>2. 1..0 = {}
  OBVIOUS
<1> QED
  BY <1>1, <1>2 DEF Mirrors, Begins

\* The capture takes what is printed under it.
LEMMA CapturedStep ==
    TypeOK /\ Vetted /\ Contained /\ Captured /\ [Next]_vars => Captured'
<1> SUFFICES ASSUME TypeOK, Vetted, Contained, Captured, [Next]_vars PROVE Captured'
  OBVIOUS
<1> USE DEF vars, jobVars, outVars
<1>1. CASE UNCHANGED vars
  BY <1>1 DEF Captured
<1>2. CASE (\E c \in Codes : Send(c)) \/ Dismiss \/ ParentDies
  BY <1>2 DEF Send, Dismiss, ParentDies, Captured
<1>3. CASE Boot \/ Leave \/ WriteFails \/ TakeJob \/ WriteReply
  <2>1. CASE Boot \/ Leave \/ WriteFails \/ TakeJob
    BY <1>3, <2>1 DEF Boot, Leave, WriteFails, TakeJob, Captured
  <2>2. CASE WriteReply
    <3>1. captured' = <<>> /\ printed' = <<>>
      BY <2>2 DEF WriteReply
    <3> QED
      BY <3>1, NothingHeld DEF Captured
  <2> QED
    BY <1>3, <2>1, <2>2
<1>4. CASE Compile \/ CallRun \/ RunReturns
  BY <1>4 DEF Compile, CallRun, RunReturns, Captured
<1>5. CASE NodeRuns
  BY <1>5, NodeDoes, Prints DEF Captured, Places
<1>6. ASSUME NEW why, Failing(why) PROVE Captured'
  BY <1>6, FailDoes DEF Captured
<1>7. ASSUME NEW figure, NEW type, NEW warning, Drawing(figure, type, warning)
      PROVE  Captured'
  BY <1>7, DrawDoes, Prints DEF Captured, Places
<1>8. CASE Stringify
  BY <1>8, TextDoes DEF Captured
<1> QED
  BY <1>1, <1>2, <1>3, <1>4, <1>5, <1>6, <1>7, <1>8, Steps

\* A job starts from nothing, and hands over what run() returned.
LEMMA FreshStep == TypeOK /\ Vetted /\ Fresh /\ [Next]_vars => Fresh'
<1> SUFFICES ASSUME TypeOK, Vetted, Fresh, [Next]_vars PROVE Fresh'
  OBVIOUS
<1> USE DEF vars, jobVars, outVars
<1>1. CASE UNCHANGED vars
  BY <1>1 DEF Fresh
<1>2. CASE (\E c \in Codes : Send(c)) \/ Dismiss \/ ParentDies
  BY <1>2 DEF Send, Dismiss, ParentDies, Fresh
<1>3. CASE Boot \/ Leave \/ WriteFails \/ TakeJob \/ WriteReply
  BY <1>3 DEF Boot, Leave, WriteFails, TakeJob, WriteReply, Fresh
<1>4. CASE Compile \/ CallRun \/ RunReturns
  BY <1>4 DEF Compile, CallRun, RunReturns, Fresh
<1>5. CASE NodeRuns
  BY <1>5, NodeDoes DEF Fresh
<1>6. ASSUME NEW why, Failing(why) PROVE Fresh'
  <2>1. reply'.error = why
    BY <1>6, FailDoes DEF NoReply
  <2> QED
    BY <1>6, <2>1, FailDoes, NoneDistinct DEF Fresh
<1>7. ASSUME NEW figure, NEW type, NEW warning, Drawing(figure, type, warning)
      PROVE  Fresh'
  BY <1>7, DrawDoes DEF Fresh
<1>8. CASE Stringify
  BY <1>8, TextDoes DEF Fresh
<1> QED
  BY <1>1, <1>2, <1>3, <1>4, <1>5, <1>6, <1>7, <1>8, Steps
\* Once run is bound, only later code can bind it otherwise.
LEMMA BoundStep == TypeOK /\ Vetted /\ Fresh /\ Bound /\ [Next]_vars => Bound'
<1> SUFFICES ASSUME TypeOK, Vetted, Fresh, Bound, [Next]_vars PROVE Bound'
  OBVIOUS
<1> USE DEF vars, jobVars, outVars
<1>1. CASE UNCHANGED vars
  BY <1>1 DEF Bound
<1>2. CASE (\E c \in Codes : Send(c)) \/ Dismiss \/ ParentDies
  BY <1>2 DEF Send, Dismiss, ParentDies, Bound
<1>3. CASE Boot \/ Leave \/ WriteFails \/ TakeJob \/ WriteReply
  BY <1>3 DEF Boot, Leave, WriteFails, TakeJob, WriteReply, Bound
<1>4. CASE Compile
  <2>1. /\ code \in Codes /\ Validate(code) = "ok" /\ line = 1
        /\ code' = code /\ line' = line
    BY <1>4 DEF Compile, Vetted, Working, Fresh
  <2>2. FindRunFunction(code.top) \in 1..Len(code.top) /\ Len(code.top) \in Nat
    BY <2>1, Passed, LenProperties
  <2> QED
    BY <2>1, <2>2 DEF Bound
<1>5. CASE CallRun \/ RunReturns
  BY <1>5 DEF CallRun, RunReturns, Bound
<1>6. CASE NodeRuns /\ pc = "top"
  <2> DEFINE top == code.top
             r == FindRunFunction(top)
             node == top[line]
  <2>1. /\ line \in 1..Len(top) /\ node \in STRING \X STRING
        /\ run' \in Binds(node) /\ line' = line + 1 /\ code' = code
    BY <1>6, NodeDoes, NextNode DEF Block
  <2>2. /\ r \in 1..Len(top) /\ Len(top) \in Nat
        /\ top[r][1] = "FunctionDef" /\ top[r][2] # "noargs"
    <3>1. code \in Codes /\ Validate(code) = "ok"
      BY <1>6 DEF Vetted, Working
    <3> QED
      BY <3>1, Passed, LenProperties
  <2>3. line > r => run = "takesdf" \/ Rebound(top, line - 1)
    BY <1>6 DEF Bound
  <2>4. /\ node[1] = "FunctionDef" /\ node[2] \notin {"noargs", "decorated", "more"}
              => run' = "takesdf"
        /\ ~Rebinds(node) => run' = run
    BY <2>1, BoundTo DEF TypeOK
  <2> HIDE DEF top, r, node
  <2>5. line' <= Len(top) + 1 /\ line' - 1 = line /\ line \in Nat /\ r \in Nat
    BY <2>1, <2>2
  <2>6. ASSUME line' > r PROVE run' = "takesdf" \/ Rebound(top, line)
    <3>1. CASE line = r
      BY <2>2, <2>4, <3>1 DEF node, Rebound, r
    <3>2. CASE line > r /\ Rebound(top, line - 1)
      <4>1. CASE top[r][2] \in {"decorated", "more"}
        BY <4>1 DEF Rebound, r
      <4>2. CASE \E i \in r + 1..line - 1 : Rebinds(top[i])
        <5>1. PICK i \in r + 1..line - 1 : Rebinds(top[i])
          BY <4>2
        <5>2. i \in r + 1..line
          BY <2>5, <5>1
        <5> QED
          BY <5>1, <5>2 DEF Rebound, r
      <4> QED
        BY <3>2, <4>1, <4>2 DEF Rebound, r
    <3>3. CASE line > r /\ run = "takesdf"
      <4>1. CASE Rebinds(node)
        <5>1. line \in r + 1..line
          BY <2>5, <3>3
        <5> QED
          BY <4>1, <5>1 DEF Rebound, r, node
      <4>2. CASE ~Rebinds(node)
        BY <2>4, <3>3, <4>2
      <4> QED
        BY <4>1, <4>2
    <3>4. line = r \/ line > r
      BY <2>1, <2>5, <2>6
    <3> QED
      BY <2>3, <3>1, <3>2, <3>3, <3>4
  <2>7. code'.top = top
    BY <2>1 DEF top
  <2> QED
    BY <2>5, <2>6, <2>7 DEF Bound, r
<1>7. CASE NodeRuns /\ pc # "top"
  BY <1>7, NodeDoes DEF Bound
<1>8. ASSUME NEW why, Failing(why) PROVE Bound'
  BY <1>8, FailDoes DEF Bound
<1>9. ASSUME NEW figure, NEW type, NEW warning, Drawing(figure, type, warning)
      PROVE  Bound'
  BY <1>9, DrawDoes DEF Bound
<1>10. CASE Stringify
  BY <1>10, TextDoes DEF Bound
<1> QED
  BY <1>1, <1>2, <1>3, <1>4, <1>5, <1>6, <1>7, <1>8, <1>9, <1>10, Steps

\* The chart, or the reason why there is none, is in the reply before its text.
LEMMA ChartedStep == TypeOK /\ Vetted /\ Fresh /\ Charted /\ [Next]_vars => Charted'
<1> SUFFICES ASSUME TypeOK, Vetted, Fresh, Charted, [Next]_vars PROVE Charted'
  OBVIOUS
<1> USE DEF vars, jobVars, outVars
<1>1. ASSUME UNCHANGED <<reply, raw>>, pc' # "text" \/ pc' = pc PROVE Charted'
  BY <1>1 DEF Charted, UnpackResult
<1>2. ASSUME reply'.figure = "none", reply'.type = None, pc' # "text" PROVE Charted'
  BY <1>2, NoneDistinct DEF Charted
<1>3. CASE (\E c \in Codes : Send(c)) \/ Dismiss \/ ParentDies \/ UNCHANGED vars
  BY <1>1, <1>3 DEF Send, Dismiss, ParentDies
<1>4. CASE Boot \/ Leave \/ WriteFails \/ TakeJob \/ Compile \/ CallRun
  BY <1>1, <1>4 DEF Boot, Leave, WriteFails, TakeJob, Compile, CallRun
<1>5. CASE WriteReply
  BY <1>2, <1>5 DEF WriteReply, NoReply
<1>6. CASE RunReturns
  <2>1. pc = "body" /\ pc' = "figure" /\ reply' = reply
    BY <1>6 DEF RunReturns
  <2>2. reply = NoReply
    BY <2>1 DEF Fresh
  <2> QED
    BY <1>2, <2>1, <2>2 DEF NoReply
<1>7. CASE NodeRuns
  BY <1>1, <1>7, NodeDoes
<1>8. ASSUME NEW why, Failing(why) PROVE Charted'
  BY <1>2, <1>8, FailDoes DEF NoReply
<1>9. ASSUME NEW figure, NEW type, NEW warning, Drawing(figure, type, warning)
      PROVE  Charted'
  <2>1. pc = "figure" /\ raw' = raw
    BY <1>9, DrawDoes
  <2>2. reply = NoReply
    BY <2>1 DEF Fresh
  <2>3. /\ reply'.figure = figure /\ reply'.type = type /\ reply'.warning = warning
        /\ reply'.error = None /\ reply'.text = "none"
    BY <1>9, <2>2, DrawDoes
  <2>4. /\ figure = "mpl" <=> type = "png"
        /\ figure = "plotly" <=> type = "plotly_json"
        /\ IsFigure(UnpackResult[2]) => figure = UnpackResult[2] \/ warning # None
    BY <1>9, NoneDistinct DEF Drawing
  <2>5. UnpackResult' = UnpackResult
    BY <2>1 DEF UnpackResult
  <2> QED
    BY <2>3, <2>4, <2>5 DEF Charted, IsFigure
<1>10. CASE Stringify
  <2>1. /\ pc' = "write" /\ reply \in Replies
        /\ reply' = [reply EXCEPT !.text = CutObject(UnpackResult[1]),
                                  !.stdout = Cut(captured, MaxStdout)]
    BY <1>10, TextDoes DEF TypeOK
  <2>2. reply'.figure = reply.figure /\ reply'.type = reply.type
    BY <2>1 DEF Replies
  <2> QED
    BY <2>1, <2>2 DEF Charted
<1> QED
  BY <1>3, <1>4, <1>5, <1>6, <1>7, <1>8, <1>9, <1>10, Steps
-----------------------------------------------------------------------------
(* The properties.                                                         *)

Answers(n) == [i \in 1..n |-> <<"reply", i>>]

\* One more answer goes to the end of the pipe.
LEMMA OneMoreAnswer ==
    ASSUME NEW n \in Nat
    PROVE  Append(<<<<"ready", 0>>>> \o Answers(n), <<"reply", n + 1>>)
              = <<<<"ready", 0>>>> \o Answers(n + 1)
<1> DEFINE S == {"ready", "reply"} \X Nat
           head == <<<<"ready", 0>>>>
           left == Append(head \o Answers(n), <<"reply", n + 1>>)
           right == head \o Answers(n + 1)
<1>1. head \in Seq(S) /\ Len(head) = 1 /\ head[1] = <<"ready", 0>>
  <2>1. <<"ready", 0>> \in S
    OBVIOUS
  <2> QED
    BY <2>1
<1>2. \A m \in Nat : /\ Answers(m) \in Seq(S) /\ Len(Answers(m)) = m
                     /\ \A i \in 1..m : Answers(m)[i] = <<"reply", i>>
  <2> TAKE m \in Nat
  <2>1. \A i \in 1..m : <<"reply", i>> \in S
    OBVIOUS
  <2>2. Answers(m) \in [1..m -> S]
    BY <2>1 DEF Answers
  <2>3. Answers(m) \in Seq(S) /\ Len(Answers(m)) = m
    BY <2>2, SeqDef
  <2> QED
    BY <2>3 DEF Answers
<1>3. <<"reply", n + 1>> \in S
  OBVIOUS
<1> HIDE DEF head, S, left, right
<1>4. \A m \in Nat : /\ head \o Answers(m) \in Seq(S) /\ Len(head \o Answers(m)) = m + 1
                     /\ \A i \in 1..m + 1 : (head \o Answers(m))[i] =
                            IF i = 1 THEN <<"ready", 0>> ELSE <<"reply", i - 1>>
  <2> TAKE m \in Nat
  <2>1. /\ head \o Answers(m) \in Seq(S)
        /\ Len(head \o Answers(m)) = Len(head) + Len(Answers(m))
        /\ \A i \in 1..Len(head) + Len(Answers(m)) : (head \o Answers(m))[i] =
               IF i <= Len(head) THEN head[i] ELSE Answers(m)[i - Len(head)]
    BY <1>1, <1>2, ConcatProperties
  <2>2. Len(head) = 1 /\ Len(Answers(m)) = m /\ 1 + m = m + 1
    BY <1>1, <1>2
  <2>3. /\ head \o Answers(m) \in Seq(S) /\ Len(head \o Answers(m)) = m + 1
        /\ \A i \in 1..m + 1 : (head \o Answers(m))[i] =
               IF i <= 1 THEN head[i] ELSE Answers(m)[i - 1]
    BY <2>1, <2>2
  <2>4. ASSUME NEW i \in 1..m + 1
        PROVE  (head \o Answers(m))[i] = IF i = 1 THEN <<"ready", 0>> ELSE <<"reply", i - 1>>
    <3>1. CASE i = 1
      BY <1>1, <2>3, <3>1
    <3>2. CASE i # 1
      <4>1. i - 1 \in 1..m /\ ~(i <= 1)
        BY <3>2
      <4>2. Answers(m)[i - 1] = <<"reply", i - 1>>
        BY <1>2, <4>1
      <4> QED
        BY <2>3, <3>2, <4>1, <4>2
    <3> QED
      BY <3>1, <3>2
  <2> QED
    BY <2>3, <2>4
<1>5. /\ left \in Seq(S) /\ Len(left) = n + 2
      /\ \A i \in 1..n + 1 : left[i] = (head \o Answers(n))[i]
      /\ left[n + 2] = <<"reply", n + 1>>
  <2>1. /\ left \in Seq(S) /\ Len(left) = Len(head \o Answers(n)) + 1
        /\ \A i \in 1..Len(head \o Answers(n)) : left[i] = (head \o Answers(n))[i]
        /\ left[Len(head \o Answers(n)) + 1] = <<"reply", n + 1>>
    <3>1. head \o Answers(n) \in Seq(S)
      BY <1>4
    <3> QED
      BY <1>3, <3>1, AppendProperties DEF left
  <2>2. Len(head \o Answers(n)) = n + 1 /\ n + 1 + 1 = n + 2
    BY <1>4
  <2> QED
    BY <2>1, <2>2
<1>6. /\ right \in Seq(S) /\ Len(right) = n + 2
      /\ \A i \in 1..n + 2 : right[i] = IF i = 1 THEN <<"ready", 0>> ELSE <<"reply", i - 1>>
  <2>1. n + 1 \in Nat /\ (n + 1) + 1 = n + 2
    OBVIOUS
  <2> QED
    BY <1>4, <2>1 DEF right
<1>7. ASSUME NEW i \in 1..n + 2 PROVE left[i] = right[i]
  <2>1. CASE i = n + 2
    <3>1. n + 2 \in 1..n + 2 /\ n + 2 # 1 /\ (n + 2) - 1 = n + 1
      OBVIOUS
    <3> QED
      BY <1>5, <1>6, <2>1, <3>1
  <2>2. CASE i # n + 2
    <3>1. i \in 1..n + 1
      BY <2>2
    <3> QED
      BY <1>4, <1>5, <1>6, <3>1
  <2> QED
    BY <2>1, <2>2
<1>8. left = right
  BY <1>5, <1>6, <1>7, SeqEqual
<1> QED
  BY <1>8 DEF left, right, head

\* Only main() writes to the pipe: the greeting, then each reply once.
LEMMA ChannelStep ==
    TypeOK /\ Vetted /\ Contained /\ Captured /\ ChannelFramed /\ [Next]_vars => ChannelFramed'
<1> SUFFICES ASSUME TypeOK, Vetted, Contained, Captured, ChannelFramed, [Next]_vars
             PROVE  ChannelFramed'
  OBVIOUS
<1> USE DEF vars, jobVars, outVars
<1>1. ASSUME UNCHANGED <<channel, job, code>>, pc # "boot", pc' # "boot" PROVE ChannelFramed'
  BY <1>1 DEF ChannelFramed
<1>2. CASE (\E c \in Codes : Send(c)) \/ Leave \/ WriteFails \/ Compile \/ CallRun
             \/ RunReturns \/ ParentDies
  BY <1>1, <1>2 DEF Send, Leave, WriteFails, Compile, CallRun, RunReturns, ParentDies
<1>3. CASE UNCHANGED vars
  BY <1>3 DEF ChannelFramed
<1>4. CASE Dismiss
  BY <1>1, <1>4 DEF Dismiss
<1>5. CASE Boot
  <2>1. /\ pc = "boot" /\ pc' = "read" /\ UNCHANGED <<job, code>>
        /\ channel' = Append(channel, <<"ready", 0>>)
    BY <1>5 DEF Boot
  <2>2. channel = <<>> /\ job = 0 /\ code = None
    BY <2>1 DEF ChannelFramed, Vetted
  <2>3. channel' = <<<<"ready", 0>>>>
    BY <2>1, <2>2
  <2>4. Answers(0) = <<>>
    BY DEF Answers
  <2>5. <<<<"ready", 0>>>> \o <<>> = <<<<"ready", 0>>>>
    <3>1. <<<<"ready", 0>>>> \in Seq({"ready"} \X Nat)
      <4>1. <<"ready", 0>> \in {"ready"} \X Nat
        OBVIOUS
      <4> QED
        BY <4>1
    <3> QED
      BY <3>1, ConcatEmptySeq
  <2> QED
    BY <2>1, <2>2, <2>3, <2>4, <2>5 DEF ChannelFramed, Answers
<1>6. CASE TakeJob
  <2>1. /\ pc = "read" /\ pc' = "compile" /\ channel' = channel /\ job' = job + 1
        /\ code' = inbox.code /\ inbox.kind = "job"
    BY <1>6 DEF TakeJob
  <2>2. code = None /\ code' # None /\ job \in Nat
    BY <2>1, NoneDistinct DEF Vetted, TypeOK
  <2>3. job' - 1 = job
    BY <2>1, <2>2
  <2> QED
    BY <2>1, <2>2, <2>3 DEF ChannelFramed
<1>7. CASE WriteReply
  <2>1. /\ pc = "write" /\ pc' = "read" /\ job' = job /\ code' = None
        /\ channel' = Append(channel, <<"reply", job>>)
    BY <1>7 DEF WriteReply
  <2>2. code # None
    BY <2>1, NoneDistinct DEF Vetted, Working
  <2>3. channel = <<<<"ready", 0>>>> \o Answers(job - 1)
    BY <2>1, <2>2 DEF ChannelFramed, Answers
  <2>4. job - 1 \in Nat /\ (job - 1) + 1 = job
    BY <2>1 DEF TypeOK, Vetted, Working
  <2>5. channel' = <<<<"ready", 0>>>> \o Answers(job)
    BY <2>1, <2>3, <2>4, OneMoreAnswer
  <2> QED
    BY <2>1, <2>5 DEF ChannelFramed, Answers
<1>8. CASE NodeRuns
  BY <1>1, <1>8, NodeDoes, Prints DEF Places
<1>9. ASSUME NEW why, Failing(why) PROVE ChannelFramed'
  BY <1>1, <1>9, FailDoes
<1>10. ASSUME NEW figure, NEW type, NEW warning, Drawing(figure, type, warning)
       PROVE  ChannelFramed'
  BY <1>1, <1>10, DrawDoes, Prints DEF Places
<1>11. CASE Stringify
  BY <1>1, <1>11, TextDoes
<1> QED
  BY <1>2, <1>3, <1>4, <1>5, <1>6, <1>7, <1>8, <1>9, <1>10, <1>11, Steps
\* A chart reaches the answer, or the answer says why it is not in it.
LEMMA ChartKeptStep ==
    TypeOK /\ Vetted /\ Fresh /\ Charted /\ NoChartLost /\ [Next]_vars => NoChartLost'
<1> SUFFICES ASSUME TypeOK, Vetted, Fresh, Charted, NoChartLost, [Next]_vars
             PROVE  NoChartLost'
  OBVIOUS
<1> USE DEF vars, jobVars, outVars
<1>1. ASSUME pc' # "write" PROVE NoChartLost'
  BY <1>1 DEF NoChartLost
<1>2. ASSUME UNCHANGED <<pc, reply, raw>> PROVE NoChartLost'
  BY <1>2 DEF NoChartLost, Last
<1>3. CASE (\E c \in Codes : Send(c)) \/ Dismiss \/ ParentDies \/ UNCHANGED vars
  BY <1>2, <1>3 DEF Send, Dismiss, ParentDies
<1>4. CASE Boot \/ Leave \/ WriteFails \/ TakeJob \/ WriteReply \/ Compile \/ CallRun
             \/ RunReturns
  BY <1>1, <1>4 DEF Boot, Leave, WriteFails, TakeJob, WriteReply, Compile, CallRun, RunReturns
<1>5. CASE NodeRuns
  BY <1>1, <1>5, NodeDoes
<1>6. ASSUME NEW why, Failing(why) PROVE NoChartLost'
  <2>1. reply' = [NoReply EXCEPT !.error = why] /\ why # None
    BY <1>6, FailDoes, NoneDistinct
  <2>2. reply'.error = why /\ reply'.figure = "none" /\ reply'.type = None
    BY <2>1 DEF NoReply
  <2> QED
    BY <2>1, <2>2, NoneDistinct DEF NoChartLost
<1>7. ASSUME NEW figure, NEW type, NEW warning, Drawing(figure, type, warning)
      PROVE  NoChartLost'
  BY <1>1, <1>7, DrawDoes
<1>8. CASE Stringify
  <2>1. /\ pc = "text" /\ raw' = raw /\ reply \in Replies
        /\ reply' = [reply EXCEPT !.text = CutObject(UnpackResult[1]),
                                  !.stdout = Cut(captured, MaxStdout)]
    BY <1>8, TextDoes DEF TypeOK
  <2>2. /\ reply'.figure = reply.figure /\ reply'.type = reply.type
        /\ reply'.error = reply.error /\ reply'.warning = reply.warning
        /\ reply'.text = CutObject(UnpackResult[1])
    BY <2>1 DEF Replies
  <2>3. raw \in TupleOf(Objects, 1) \cup TupleOf(Objects, 2)
    BY <2>1 DEF Fresh
  <2>4. /\ IsFigure(Last(raw)) => UnpackResult[2] = Last(raw)
        /\ IsFigure(Last(raw)) /\ Len(raw) = 1 => UnpackResult[1] = "none"
    BY <2>3, Unpacked
  <2>5. /\ reply.error = None
        /\ (reply.figure = "mpl") = (reply.type = "png")
        /\ (reply.figure = "plotly") = (reply.type = "plotly_json")
        /\ IsFigure(UnpackResult[2]) => reply.figure = UnpackResult[2] \/ reply.warning # None
    BY <2>1 DEF Charted
  <2>6. Last(raw)' = Last(raw) /\ Len(raw)' = Len(raw) /\ IsFigure(Last(raw))' = IsFigure(Last(raw))
    BY <2>1 DEF Last, IsFigure
  <2>7. CutObject("none") = "none"
    BY DEF CutObject
  <2>8. Len(raw)' = 1 /\ IsFigure(Last(raw))' => reply'.text = "none"
    BY <2>2, <2>4, <2>6, <2>7
  <2>9. IsFigure(Last(raw))' => reply'.figure = Last(raw)' \/ reply'.warning # None
    BY <2>2, <2>4, <2>5, <2>6
  <2>10. reply'.error = None
    BY <2>2, <2>5
  <2>11. /\ (reply'.figure = "mpl") = (reply'.type = "png")
         /\ (reply'.figure = "plotly") = (reply'.type = "plotly_json")
    BY <2>2, <2>5
  <2> QED
    BY <2>8, <2>9, <2>10, <2>11 DEF NoChartLost
<1> QED
  BY <1>3, <1>4, <1>5, <1>6, <1>7, <1>8, Steps

\* The output of an answer is that of its own code.
LEMMA OutputStep ==
    TypeOK /\ Vetted /\ Captured /\ OwnOutput /\ [Next]_vars => OwnOutput'
<1> SUFFICES ASSUME TypeOK, Vetted, Captured, OwnOutput, [Next]_vars PROVE OwnOutput'
  OBVIOUS
<1> USE DEF vars, jobVars, outVars
<1>1. ASSUME pc' # "write" PROVE OwnOutput'
  BY <1>1 DEF OwnOutput
<1>2. CASE (\E c \in Codes : Send(c)) \/ Dismiss \/ ParentDies \/ UNCHANGED vars
  BY <1>2 DEF Send, Dismiss, ParentDies, OwnOutput
<1>3. CASE Boot \/ Leave \/ WriteFails \/ TakeJob \/ WriteReply \/ Compile \/ CallRun
             \/ RunReturns
  BY <1>1, <1>3 DEF Boot, Leave, WriteFails, TakeJob, WriteReply, Compile, CallRun, RunReturns
<1>4. CASE NodeRuns
  BY <1>1, <1>4, NodeDoes
<1>5. ASSUME NEW why, Failing(why) PROVE OwnOutput'
  <2>1. reply'.error = why
    BY <1>5, FailDoes DEF NoReply
  <2>2. why # None
    BY <1>5, FailDoes, NoneDistinct
  <2> QED
    BY <2>1, <2>2 DEF OwnOutput
<1>6. ASSUME NEW figure, NEW type, NEW warning, Drawing(figure, type, warning)
      PROVE  OwnOutput'
  BY <1>1, <1>6, DrawDoes
<1>7. CASE Stringify
  <2>1. /\ printed' = printed /\ reply \in Replies
        /\ reply' = [reply EXCEPT !.text = CutObject(UnpackResult[1]),
                                  !.stdout = Cut(captured, MaxStdout)]
    BY <1>7, TextDoes DEF TypeOK
  <2>2. reply'.stdout = Cut(captured, MaxStdout)
    BY <2>1 DEF Replies
  <2> DEFINE shown == Cut(captured, MaxStdout).chars
  <2>3. captured \in Seq(Places) /\ printed \in Seq(Places)
    BY DEF TypeOK
  <2>4. /\ Begins(shown, captured)
        /\ Cut(captured, MaxStdout).notice <=> Len(captured) > MaxStdout
        /\ Len(shown) = IF Len(captured) > MaxStdout THEN MaxStdout ELSE Len(captured)
    BY <2>3, CutKeeps, RoomIsNatural
  <2>5. Begins(captured, printed) /\ Mirrors(captured, printed)
    BY DEF Captured, Mirrors
  <2> HIDE DEF shown
  <2>6. Len(captured) \in Nat /\ Len(printed) \in Nat /\ MaxStdout \in Nat
    BY <2>3, LenProperties, RoomIsNatural
  <2>7. Begins(shown, printed)
    BY ONLY <2>4, <2>5, <2>6 DEF Begins
  <2> DEFINE missing == {i \in Len(shown) + 1..Len(printed) : printed[i] # "figure"}
  <2>8. CASE Len(captured) > MaxStdout
    <3>1. MaxStdout + 1 \in Len(shown) + 1..Len(printed) /\ printed[MaxStdout + 1] # "figure"
      BY ONLY <2>4, <2>5, <2>6, <2>8 DEF Mirrors, Begins
    <3> QED
      BY <2>1, <2>2, <2>4, <2>7, <2>8, <3>1 DEF OwnOutput, shown
  <2>9. CASE ~(Len(captured) > MaxStdout)
    <3>1. missing = {}
      BY ONLY <2>4, <2>5, <2>6, <2>9 DEF Mirrors, Begins
    <3> QED
      BY <2>1, <2>2, <2>4, <2>7, <2>9, <3>1 DEF OwnOutput, shown
  <2> QED
    BY <2>8, <2>9
<1> QED
  BY <1>2, <1>3, <1>4, <1>5, <1>6, <1>7, Steps

\* What the validator looked for is not what a job fails of.
LEMMA VouchStep ==
    TypeOK /\ Vetted /\ Bound /\ Charted /\ ValidatorVouches /\ [Next]_vars => ValidatorVouches'
<1> SUFFICES ASSUME TypeOK, Vetted, Bound, Charted, ValidatorVouches, [Next]_vars
             PROVE  ValidatorVouches'
  OBVIOUS
<1> USE DEF vars, jobVars, outVars
<1>1. ASSUME pc' # "write" PROVE ValidatorVouches'
  BY <1>1 DEF ValidatorVouches
<1>2. ASSUME UNCHANGED <<pc, reply, code>> PROVE ValidatorVouches'
  BY <1>2 DEF ValidatorVouches
<1>3. CASE (\E c \in Codes : Send(c)) \/ Dismiss \/ ParentDies \/ UNCHANGED vars
  BY <1>2, <1>3 DEF Send, Dismiss, ParentDies
<1>4. CASE Boot \/ Leave \/ WriteFails \/ TakeJob \/ WriteReply \/ Compile \/ CallRun
             \/ RunReturns
  BY <1>1, <1>4 DEF Boot, Leave, WriteFails, TakeJob, WriteReply, Compile, CallRun, RunReturns
<1>5. CASE NodeRuns
  BY <1>1, <1>5, NodeDoes
<1>6. ASSUME NEW why, Failing(why) PROVE ValidatorVouches'
  <2>1. reply'.error = why /\ code' = code
    BY <1>6, FailDoes DEF NoReply
  <2>2. why # "import"
    BY <1>6, FailDoes
  <2>3. ASSUME why \in {"norun", "misfit"}
        PROVE  \/ code.top[FindRunFunction(code.top)][2] \in {"decorated", "more"}
               \/ \E i \in FindRunFunction(code.top) + 1..Len(code.top) : Rebinds(code.top[i])
    <3> DEFINE r == FindRunFunction(code.top)
    <3>1. pc = "top" /\ BlockEnds /\ run # "takesdf"
      BY <1>6, <2>3 DEF Failing
    <3>2. code \in Codes /\ Validate(code) = "ok"
      BY <3>1 DEF Vetted, Working
    <3>3. r \in 1..Len(code.top) /\ Len(code.top) \in Nat /\ line \in Nat
      BY <3>2, Passed, LenProperties DEF TypeOK
    <3>4. line > Len(code.top) /\ line <= Len(code.top) + 1
      BY <3>1 DEF BlockEnds, Block, Bound
    <3> HIDE DEF r
    <3>5. line > r /\ line - 1 = Len(code.top)
      BY <3>3, <3>4
    <3>6. Rebound(code.top, line - 1)
      BY <3>1, <3>5 DEF Bound, r
    <3> QED
      BY <3>5, <3>6 DEF Rebound
  <2> QED
    BY <2>1, <2>2, <2>3 DEF ValidatorVouches
<1>7. ASSUME NEW figure, NEW type, NEW warning, Drawing(figure, type, warning)
      PROVE  ValidatorVouches'
  BY <1>1, <1>7, DrawDoes
<1>8. CASE Stringify
  <2>1. /\ pc = "text" /\ reply \in Replies
        /\ reply' = [reply EXCEPT !.text = CutObject(UnpackResult[1]),
                                  !.stdout = Cut(captured, MaxStdout)]
    BY <1>8, TextDoes DEF TypeOK
  <2>2. reply'.error = reply.error /\ reply.error = None
    BY <2>1 DEF Replies, Charted
  <2> QED
    BY <2>2, NoneDistinct DEF ValidatorVouches
<1> QED
  BY <1>3, <1>4, <1>5, <1>6, <1>7, <1>8, Steps

-----------------------------------------------------------------------------
(* The theorems.                                                           *)

\* A worker that has not booted has done nothing.
LEMMA IInvInit == Init => IInv
<1> SUFFICES ASSUME Init PROVE IInv
  OBVIOUS
<1> USE DEF Init, Message, NoReply
<1>1. TypeOK
  BY DEF TypeOK, Replies, Objects
<1>2. Vetted /\ Contained /\ Fresh /\ Bound
  BY DEF Vetted, Contained, Fresh, Bound, Working
<1>3. Captured
  BY NothingHeld DEF Captured
<1>4. Charted /\ ChannelFramed /\ NoChartLost /\ OwnOutput /\ ValidatorVouches
  BY NoneDistinct DEF Charted, ChannelFramed, NoChartLost, OwnOutput, ValidatorVouches
<1> QED
  BY <1>1, <1>2, <1>3, <1>4 DEF IInv

\* No step of the worker, of its code or of its parent breaks any part.
LEMMA IInvStep == IInv /\ [Next]_vars => IInv'
  BY TypeStep, VettedStep, ContainedStep, CapturedStep, FreshStep, BoundStep, ChartedStep,
     ChannelStep, ChartKeptStep, OutputStep, VouchStep DEF IInv

\* The invariant of the worker, over any number of jobs of any code.
THEOREM Invariance == Spec => []IInv
<1>1. Init => IInv
  BY IInvInit
<1>2. IInv /\ [Next]_vars => IInv'
  BY IInvStep
<1> QED
  BY <1>1, <1>2, PTL DEF Spec

\* Between jobs the interpreter has no figure open and its output is its own
\* (worker.py lines 358-362).  Of options, seeds and patched modules it says nothing.
THEOREM NothingLeft == Spec => []NothingLeftOver
<1>1. IInv => NothingLeftOver
  BY DEF IInv, TypeOK, Contained, NothingLeftOver
<1> QED
  BY <1>1, Invariance, PTL

\* The protocol pipe carries the greeting and one reply for each job, in order,
\* whatever the code printed (worker.py lines 23-28).
THEOREM PipeFramed == Spec => []ChannelFramed
<1>1. IInv => ChannelFramed
  BY DEF IInv
<1> QED
  BY <1>1, Invariance, PTL

\* A chart that run() returned where a figure is expected, bare or second in a
\* pair, is in the reply, or the reply says why not (worker.py lines 237-282).
THEOREM ChartsKept == Spec => []NoChartLost
<1>1. IInv => NoChartLost
  BY DEF IInv
<1> QED
  BY <1>1, Invariance, PTL

\* An answer carries the output of its own code, from its start to the return or
\* to the limit, whatever the limit is, and has a notice of what is missing
\* (worker.py lines 285-297, 354).
THEOREM OutputIsOwn == Spec => []OwnOutput
<1>1. IInv => OwnOutput
  BY DEF IInv
<1> QED
  BY <1>1, Invariance, PTL

\* For any code that passed the validator, the worker refuses no import; and a
\* run() that is missing or takes no frame is one that was decorated, required
\* more arguments, or may have been bound again (validator.py lines 250-299).
THEOREM Vouched == Spec => []ValidatorVouches
<1>1. IInv => ValidatorVouches
  BY DEF IInv
<1> QED
  BY <1>1, Invariance, PTL
=============================================================================
