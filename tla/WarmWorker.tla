------------------------------ MODULE WarmWorker ----------------------------
(***************************************************************************)
(* The worker process of the sandbox (src/src/sandbox/worker.py): one       *)
(* interpreter that boots once and then computes job after job.  What a job *)
(* does to the interpreter (open figures, the plot style, sys.stdout) is    *)
(* state the next job meets.  The parent sends a job only when the          *)
(* validator passed its code, and waits for the reply before the next.      *)
(*                                                                          *)
(* Deaths from outside (a kill, an exhausted memory limit) are              *)
(* SandboxExecutor's; here every step is one the worker takes by itself.    *)
(***************************************************************************)
EXTENDS Validator, FiniteSets

CONSTANTS
    Codes,      \* the pieces of code the model may write
    MaxJobs,    \* bound on the jobs of one worker
    MaxStdout,  \* characters of captured output a reply has room for
    None

ASSUME CodesAreCode ==
    Codes \subseteq [chars : Nat, parses : BOOLEAN,
                     top : Seq(STRING \X STRING), body : Seq(STRING \X STRING)]

ASSUME RoomIsNatural == MaxStdout \in Nat

ASSUME NoneDistinct ==
    None \notin Codes \cup {"takesdf", "misfit", "value", "png", "plotly_json",
                            "too large", "not serializable", "unsupported",
                            "syntax", "raised", "import", "norun"}

VARIABLES
    pc,         \* where main() and _execute() are
    inbox,      \* stdin: the message that waits to be read
    parent,     \* whether the parent still reads the replies
    job,        \* jobs taken so far; the number of the one computed
    code,       \* its code
    line,       \* the node of the current block that runs next
    run,        \* what the name `run` is bound to in its namespace
    raw,        \* what run() returned: one object, or the two of a pair
    reply,      \* the reply being put together
    open,       \* the jobs with figures open in pyplot
    theme,      \* the style new figures get
    sysout,     \* what sys.stdout is
    captured,   \* what the capture holds: each character by its place in the job
    printed,    \* all this job has printed, each character by its place
    channel     \* what was written to the protocol pipe, in order

jobVars == <<code, line, run, raw>>
outVars == <<sysout, captured, printed>>
vars == <<pc, inbox, parent, job, jobVars, reply, open, theme, outVars, channel>>

Message(kind) == [kind |-> kind, code |-> None]

Objects == {"none", "text", "long", "broken", "mpl", "plotly"}

\* `_stringify`: what is longer than the limit keeps its first characters and
\* gets a notice.  White space at either end, which strip() takes, is layout.
Cut(text, limit) ==
    IF Len(text) > limit THEN [chars |-> SubSeq(text, 1, limit), notice |-> TRUE]
    ELSE [chars |-> text, notice |-> FALSE]

\* The same of a result, of whose text only the length class is kept.
CutObject(object) == IF object = "long" THEN "cut" ELSE object

NoReply == [error |-> None, text |-> "none", figure |-> "none", type |-> None,
            stdout |-> [chars |-> <<>>, notice |-> FALSE], warning |-> None]

Init ==
    /\ pc = "boot" /\ inbox = Message("nothing") /\ parent = "reads"
    /\ job = 0 /\ code = None /\ line = 1 /\ run = None /\ raw = <<>>
    /\ reply = NoReply /\ open = {} /\ theme = "house"
    /\ sysout = "process" /\ captured = <<>> /\ printed = <<>> /\ channel = <<>>

-----------------------------------------------------------------------------
(* The parent                                                              *)

Send(c) ==
    /\ pc = "read" /\ inbox.kind = "nothing" /\ parent = "reads" /\ job < MaxJobs
    /\ Validate(c) = "ok"
    /\ inbox' = [kind |-> "job", code |-> c]
    /\ UNCHANGED <<pc, parent, job, jobVars, reply, open, theme, outVars, channel>>

\* shutdown() asks the worker to leave, or closes its stdin.
Dismiss ==
    /\ pc = "read" /\ inbox.kind = "nothing"
    /\ inbox' \in {Message("shutdown"), Message("eof")}
    /\ UNCHANGED <<pc, parent, job, jobVars, reply, open, theme, outVars, channel>>

ParentDies ==
    /\ pc \notin {"boot", "exit"} /\ parent = "reads"
    /\ parent' = "gone"
    /\ inbox' = IF inbox.kind = "nothing" THEN Message("eof") ELSE inbox
    /\ UNCHANGED <<pc, job, jobVars, reply, open, theme, outVars, channel>>

-----------------------------------------------------------------------------
(* main()                                                                  *)

\* Mutant: fd 1 is left on the protocol pipe.
ProcessStdout_Protocol(text) == Append(channel, <<text, 0>>)

\* Where output goes that no capture takes: fd 1 was pointed at stderr.
ProcessStdout(text) == channel

\* _apply_chart_theme runs on import.
ApplyChartTheme == theme' = "house"

\* The memory limit is applied before, if the platform can.
Boot ==
    /\ pc = "boot" /\ pc' = "read"
    /\ ApplyChartTheme
    /\ channel' = Append(channel, <<"ready", 0>>)
    /\ UNCHANGED <<inbox, parent, job, jobVars, reply, open, outVars>>

Leave ==
    /\ pc = "read" /\ inbox.kind \in {"shutdown", "eof"}
    /\ pc' = "exit"
    /\ UNCHANGED <<inbox, parent, job, jobVars, reply, open, theme, outVars, channel>>

TakeJob ==
    /\ pc = "read" /\ inbox.kind = "job"
    /\ pc' = "compile"
    /\ code' = inbox.code
    /\ inbox' = Message(IF parent = "gone" THEN "eof" ELSE "nothing")
    /\ job' = job + 1
    /\ UNCHANGED <<parent, line, run, raw, reply, open, theme, outVars, channel>>

\* Mutant: one capture serves all jobs.
WriteReply_KeepsCapture ==
    /\ pc = "write" /\ parent = "reads"
    /\ pc' = "read"
    /\ channel' = Append(channel, <<"reply", job>>)
    /\ code' = None /\ line' = 1 /\ run' = None /\ raw' = <<>> /\ reply' = NoReply
    /\ printed' = <<>>
    /\ UNCHANGED <<inbox, parent, job, open, theme, sysout, captured>>

\* The next job gets a fresh namespace and a fresh capture.
WriteReply ==
    /\ pc = "write" /\ parent = "reads"
    /\ pc' = "read"
    /\ channel' = Append(channel, <<"reply", job>>)
    /\ code' = None /\ line' = 1 /\ run' = None /\ raw' = <<>> /\ reply' = NoReply
    /\ captured' = <<>> /\ printed' = <<>>
    /\ UNCHANGED <<inbox, parent, job, open, theme, sysout>>

\* Nobody is left to report to.
WriteFails ==
    /\ pc = "write" /\ parent = "gone"
    /\ pc' = "exit"
    /\ UNCHANGED <<inbox, parent, job, jobVars, reply, open, theme, outVars, channel>>

-----------------------------------------------------------------------------
(* _execute(): what the code does                                          *)

\* Mutant: only figures that were returned are closed.
CloseAll_Returned == open \ (IF "mpl" \in ToSet(raw) THEN {job} ELSE {})

\* The finally clause.
CloseAll == {}

\* Leaving _execute, and the redirect if it was entered.
Return(r) ==
    /\ pc' = "write"
    /\ reply' = r
    /\ open' = CloseAll
    /\ sysout' = "process"
    /\ UNCHANGED <<inbox, parent, job, jobVars, theme, captured, printed, channel>>

\* Every exception, BaseException too, becomes an error in the reply.
Fail(why) == Return([NoReply EXCEPT !.error = why])

\* Output of generated code at a place.
PrintAt(place) ==
    /\ printed' = Append(printed, place)
    /\ captured' = IF sysout = "capture" THEN Append(captured, place) ELSE captured
    /\ channel' = IF sysout = "capture" THEN channel ELSE ProcessStdout("stray")

Silent == UNCHANGED <<printed, captured, channel>>

\* A node that runs through: what it does to the interpreter.
Effect(node, place) ==
    /\ open' = IF node = <<"Call", "figure">> THEN open \cup {job} ELSE open
    /\ theme' = IF node = <<"Call", "style">> THEN "other" ELSE theme
    /\ IF node = <<"Call", "print">> THEN PrintAt(place) ELSE Silent

\* _ALLOWED_IMPORT_ROOTS, the worker's own list.
RestrictedRoots == {"allowed", "allowed as run"}

\* Why a node raises: any call may, a builtin outside SAFE_BUILTIN_NAMES does, so
\* does `del run` without a run, _restricted_import refuses what is not on its list.
Raises(node) ==
    CASE node = <<"Call", "raise">> -> {"raised"}
      [] node = <<"Name", "unlisted">> -> {"raised"}
      [] node = <<"Delete", "run">> -> IF run = None THEN {"raised"} ELSE {}
      [] node[1] \in {"Import", "ImportFrom"} /\ node[2] \notin RestrictedRoots -> {"import"}
      [] OTHER -> {}

\* What a name can be bound to: a function one argument fits, one it does not
\* fit, or what cannot be called.
Anything == {"takesdf", "misfit", "value"}

\* A definition of run, by its form: what a decorator returns may be anything.
Defined(form) ==
    CASE form \in {"noargs", "more"} -> {"misfit"}
      [] form = "decorated" -> Anything
      [] OTHER -> {"takesdf"}

\* What `run` may be bound to after a top-level node.  Assign stands for every
\* statement that binds the name for sure (with, except and := too), If and For
\* for those that may bind or delete it, Call "global" for a call of a function
\* that declares it global.
Binds(node) ==
    CASE node[1] = "FunctionDef" -> Defined(node[2])
      [] node[1] = "Assign" \/ node = <<"ImportFrom", "allowed as run">> -> Anything
      [] node = <<"Import", "allowed as run">> -> {"value"}
      [] node[1] = "Delete" -> {None}
      [] node[1] \in {"If", "For"} \/ node = <<"Call", "global">> -> {run, None} \cup Anything
      [] OTHER -> {run}

\* The block that runs: the top level, later the body of run.
Block == IF pc = "top" THEN code.top ELSE code.body

BlockEnds == pc \in {"top", "body"} /\ line > Len(Block)

Compile ==
    /\ pc = "compile" /\ pc' = "top"
    /\ sysout' = "capture"
    /\ UNCHANGED <<inbox, parent, job, jobVars, reply, open, theme, captured, printed, channel>>

\* Some errors are found by the compiler only: a return outside a function.
CompileFails == pc = "compile" /\ Fail("syntax")

NodeRuns ==
    /\ pc \in {"top", "body"} /\ ~BlockEnds
    /\ Raises(Block[line]) = {}
    /\ run' \in IF pc = "top" THEN Binds(Block[line]) ELSE {run}
    /\ Effect(Block[line], pc)
    /\ line' = line + 1
    /\ UNCHANGED <<pc, inbox, parent, job, code, raw, reply, sysout>>

NodeRaises ==
    /\ pc \in {"top", "body"} /\ ~BlockEnds
    /\ \E why \in Raises(Block[line]) : Fail(why)

\* `run` must be callable, and take the frame.
NoRun == pc = "top" /\ BlockEnds /\ run \in {None, "value"} /\ Fail("norun")

\* The call raises TypeError.
RunMisfits == pc = "top" /\ BlockEnds /\ run = "misfit" /\ Fail("misfit")

CallRun ==
    /\ pc = "top" /\ BlockEnds /\ run = "takesdf"
    /\ pc' = "body" /\ line' = 1
    /\ UNCHANGED <<inbox, parent, job, code, run, raw, reply, open, theme, outVars, channel>>

\* The body returns anything; the redirect ends.
RunReturns ==
    /\ pc = "body" /\ BlockEnds
    /\ raw' \in TupleOf(Objects, 1) \cup TupleOf(Objects, 2)
    /\ pc' = "figure" /\ sysout' = "process"
    /\ UNCHANGED <<inbox, parent, job, code, line, run, reply, open, theme,
                   captured, printed, channel>>

-----------------------------------------------------------------------------
(* _execute(): the reply                                                   *)

IsFigure(object) == object \in {"mpl", "plotly"}

\* Mutant: a bare figure is taken for a value.
UnpackResult_BareValue == IF Len(raw) = 2 THEN raw ELSE <<raw[1], "none">>

\* A pair is (result, figure) whatever it holds; a bare figure has no result.
UnpackResult ==
    IF Len(raw) = 2 THEN raw
    ELSE IF IsFigure(raw[1]) THEN <<"none", raw[1]>>
    ELSE <<raw[1], "none">>

Drawn(figure, type, warning) ==
    /\ pc' = "text"
    /\ reply' = [reply EXCEPT !.figure = figure, !.type = type, !.warning = warning]
    /\ UNCHANGED <<inbox, parent, job, jobVars, theme, sysout>>

\* Drawing a figure runs code of the figure, tick formatters say.
Draws == PrintAt("figure") \/ Silent

NoFigure ==
    /\ pc = "figure" /\ UnpackResult[2] = "none"
    /\ Drawn("none", None, None) /\ UNCHANGED open /\ Silent

\* savefig runs generated code outside the redirect; plt.close(fig) follows.
SerializeMatplotlib ==
    /\ pc = "figure" /\ UnpackResult[2] = "mpl"
    /\ \/ Drawn("mpl", "png", None)
       \/ Drawn("none", None, "too large")
    /\ Draws /\ UNCHANGED open

SavefigRaises == pc = "figure" /\ UnpackResult[2] = "mpl" /\ Fail("raised")

SerializePlotly ==
    /\ pc = "figure" /\ UnpackResult[2] = "plotly"
    /\ \/ Drawn("plotly", "plotly_json", None)
       \/ Drawn("none", None, "too large")
       \/ Drawn("none", None, "not serializable")
    /\ UNCHANGED open /\ Silent

UnsupportedFigure ==
    /\ pc = "figure" /\ UnpackResult[2] \in {"text", "long", "broken"}
    /\ Drawn("none", None, "unsupported") /\ UNCHANGED open /\ Silent

\* "broken" stands for a value whose conversion to text raises.
Stringify ==
    /\ pc = "text" /\ UnpackResult[1] # "broken"
    /\ Return([reply EXCEPT !.text = CutObject(UnpackResult[1]),
                            !.stdout = Cut(captured, MaxStdout)])

StringifyRaises == pc = "text" /\ UnpackResult[1] = "broken" /\ Fail("raised")

Job ==
    \/ Compile \/ CompileFails \/ NodeRuns \/ NodeRaises \/ NoRun \/ RunMisfits
    \/ CallRun \/ RunReturns \/ NoFigure \/ SerializeMatplotlib \/ SavefigRaises
    \/ SerializePlotly \/ UnsupportedFigure \/ Stringify \/ StringifyRaises

Next ==
    \/ \E c \in Codes : Send(c)
    \/ Dismiss \/ ParentDies \/ Boot \/ Leave \/ TakeJob \/ WriteReply \/ WriteFails
    \/ Job

Spec == Init /\ [][Next]_vars

-----------------------------------------------------------------------------
(* Properties                                                              *)

\* Between jobs no figure of a job is open and sys.stdout is the process's own:
\* "figures accumulate across jobs otherwise" (worker.py line 362), and a
\* redirected sys.stdout would swallow the output of the jobs to come.  Of the
\* rest of the interpreter nothing is said: the style (ThemeHolds), and options,
\* seeds, warning filters and attributes of the injected modules do survive.
NothingLeftOver == pc = "read" => open = {} /\ sysout = "process"

\* The protocol pipe carries the ready message and one reply for each job, in
\* their order, and never output of the code, wherever in a job it printed:
\* "every subsequent response would be garbage" (lines 23-28).
ChannelFramed ==
    channel = IF pc = "boot" THEN <<>> ELSE
        LET answered == IF code = None THEN job ELSE job - 1
        IN  <<<<"ready", 0>>>> \o [i \in 1..answered |-> <<"reply", i>>]

\* A chart that run() returned where a figure is expected, bare or second in a
\* pair, is in the reply under its own type or the reply says why not; a bare one
\* is not shown as text, and a failed job shows nothing (lines 237-282, 345-360).
\* A chart that comes first in a pair is no figure to the code: it becomes the text
\* of the answer, and neither figure nor warning says so.
NoChartLost ==
    pc = "write" =>
        /\ (reply.figure = "mpl") = (reply.type = "png")
        /\ (reply.figure = "plotly") = (reply.type = "plotly_json")
        /\ reply.error # None => reply = [NoReply EXCEPT !.error = reply.error]
        /\ reply.error = None /\ IsFigure(Last(raw)) =>
              /\ reply.figure = Last(raw) \/ reply.warning # None
              /\ Len(raw) = 1 => reply.text = "none"

\* The first characters of one text are those of the other.
Begins(start, text) ==
    /\ Len(start) <= Len(text)
    /\ \A i \in 1..Len(start) : start[i] = text[i]

\* An answer carries what its own code printed up to the return of run(), from
\* its first character on and nothing of another job; what is missing behind
\* was printed while the chart was drawn or had no room, and then, and only
\* then, the answer has the notice of it (worker.py lines 295-297, 354).
OwnOutput ==
    pc = "write" /\ reply.error = None =>
        LET shown == reply.stdout.chars
            missing == {i \in Len(shown) + 1..Len(printed) : printed[i] # "figure"}
        IN  /\ Begins(shown, printed)
            /\ missing # {} => Len(shown) = MaxStdout
            /\ reply.stdout.notice <=> missing # {}

\* The statements after which the name run may be bound otherwise.
Rebinds(node) ==
    \/ node[1] \in {"FunctionDef", "Assign", "Delete", "If", "For"}
    \/ node \in {<<"Import", "allowed as run">>, <<"ImportFrom", "allowed as run">>,
                 <<"Call", "global">>}

\* What the validator let through, the worker does not refuse for the reasons
\* the validator looked for (validator.py lines 250-299): an import never, a
\* run() that is missing or does not fit one argument only when the definition
\* the validator looked at is decorated or requires more arguments, or when
\* code behind it may bind the name again.
ValidatorVouches ==
    pc = "write" =>
        LET first == FindRunFunction(code.top) IN
        /\ reply.error # "import"
        /\ reply.error \in {"norun", "misfit"} =>
              \/ code.top[first][2] \in {"decorated", "more"}
              \/ \E i \in first + 1..Len(code.top) : Rebinds(code.top[i])

\* "Defaults apply to any figure generated code creates, so charts match the page
\* whatever the model writes" (worker.py lines 57-59): at least when a job
\* starts, the house style is in force.
ThemeHolds == pc = "compile" => theme = "house"
=============================================================================
