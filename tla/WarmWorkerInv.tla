---------------------------- MODULE WarmWorkerInv ---------------------------
(***************************************************************************)
(* The inductive invariant of WarmWorker: what is true of the interpreter,  *)
(* of the reply being put together and of the protocol pipe at every point  *)
(* of main() and _execute().                                                *)
(***************************************************************************)
EXTENDS WarmWorker

Working == {"compile", "top", "body", "figure", "text", "write"}

Places == {"top", "body", "figure"}

Replies == [error : {None, "syntax", "raised", "import", "norun", "misfit"},
            text : Objects \cup {"cut"}, figure : {"none", "mpl", "plotly"},
            type : {None, "png", "plotly_json"},
            stdout : [chars : Seq(Places), notice : BOOLEAN],
            warning : {None, "too large", "not serializable", "unsupported"}]

TypeOK ==
    /\ pc \in Working \cup {"boot", "read", "exit"}
    /\ inbox \in [kind : {"nothing", "job", "shutdown", "eof"}, code : Codes \cup {None}]
    /\ parent \in {"reads", "gone"}
    /\ job \in Nat
    /\ code \in Codes \cup {None}
    /\ line \in Nat \ {0}
    /\ run \in {None} \cup Anything
    /\ raw \in {<<>>} \cup TupleOf(Objects, 1) \cup TupleOf(Objects, 2)
    /\ reply \in Replies
    /\ open \subseteq Nat
    /\ theme \in {"house", "other"}
    /\ sysout \in {"process", "capture"}
    /\ captured \in Seq(Places) /\ printed \in Seq(Places)

\* No code that the validator refused reaches the worker.
Vetted ==
    /\ inbox.kind = "job" => inbox.code \in Codes /\ Validate(inbox.code) = "ok"
    /\ pc \in Working => code \in Codes /\ Validate(code) = "ok"
    /\ pc \in {"boot", "read"} => code = None
    /\ pc = "boot" => job = 0
    /\ pc \in Working => job # 0

\* Figures are open and output is redirected inside _execute only.
Contained ==
    /\ sysout = "capture" <=> pc \in {"top", "body"}
    /\ pc \notin {"top", "body", "figure", "text"} => open = {}

\* The capture holds what was printed while it was in place: all that was printed
\* but the last characters, which a chart printed when it was drawn.
Mirrors(held, all) ==
    /\ Begins(held, all)
    /\ \A i \in 1..Len(held) : held[i] # "figure"
    /\ \A i \in Len(held) + 1..Len(all) : all[i] = "figure"

Captured ==
    /\ Mirrors(captured, printed)
    /\ pc \notin {"figure", "text", "write", "exit"} => Len(captured) = Len(printed)

\* A job starts from nothing, and what run() returned is there for the reply.
Fresh ==
    /\ pc \in {"boot", "read", "compile"} =>
        line = 1 /\ run = None /\ printed = <<>> /\ reply = NoReply
    /\ pc \in {"top", "body", "figure"} => reply = NoReply
    /\ pc \in {"figure", "text"} \/ (pc = "write" /\ reply.error = None) =>
        raw \in TupleOf(Objects, 1) \cup TupleOf(Objects, 2)

\* Once the definition of run that the validator looked at has been executed, the
\* name is bound to a function that takes the frame, unless that definition is
\* decorated or requires more, or the name was bound again.
Rebound(top, last) ==
    \/ top[FindRunFunction(top)][2] \in {"decorated", "more"}
    \/ \E i \in FindRunFunction(top) + 1..last : Rebinds(top[i])

Bound ==
    pc = "top" =>
        /\ line <= Len(code.top) + 1
        /\ line > FindRunFunction(code.top) =>
               run = "takesdf" \/ Rebound(code.top, line - 1)

\* The chart is in the reply, or the reply says why not, before the text is.
Charted ==
    /\ reply.figure = "mpl" <=> reply.type = "png"
    /\ reply.figure = "plotly" <=> reply.type = "plotly_json"
    /\ pc = "text" =>
        /\ reply.error = None /\ reply.text = "none"
        /\ IsFigure(UnpackResult[2]) => reply.figure = UnpackResult[2] \/ reply.warning # None

IInv ==
    /\ TypeOK /\ Vetted /\ Contained /\ Captured /\ Fresh /\ Bound /\ Charted
    /\ ChannelFramed /\ NoChartLost /\ OwnOutput /\ ValidatorVouches
=============================================================================
