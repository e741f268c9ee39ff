------------------------------ MODULE Benchmark -----------------------------
(***************************************************************************)
(* The benchmark (eval/run_benchmark.py, eval/tasks.py): every task goes    *)
(* through the agent once per model, is scored on what came back, and the   *)
(* answers scored correct become the fixture the offline demo replays.      *)
(*                                                                          *)
(* The agent is one step here: it returns any of AgentResults, the results  *)
(* Agent's questions can end in.  The process may be interrupted anywhere.  *)
(***************************************************************************)
EXTENDS Integers, Sequences, SequencesExt, FiniteSetsExt, Settings, TLC

CONSTANTS
    Tasks,          \* all tasks: records, with an id in the order of the fixture
    Specs,          \* what --models may name: providers, in order
    MaxAttempts,    \* attempts of the agent
    None

ASSUME TasksAreRecords ==
    Tasks \in Seq([id : Nat, dataset : STRING, question : STRING, category : STRING,
                   chart : BOOLEAN])

ASSUME SpecsAreNames == Specs \in Seq(Names \cup {"other"})

ASSUME NoneIsNoCode == None \notin {0, 1}

VARIABLES
    env,        \* the environment of the process, see Settings
    args,       \* --verify, --no-write, --record, --models, --tasks
    pc,         \* where main is
    spec, task, \* the model and the task at hand, as indices
    reports,    \* one for each model that could be constructed
    csv, md,    \* the report files: whose content they hold
    fixture,    \* the recorded answers on disk: their state and entries
    worker,     \* whether the sandbox has a warm worker
    exit        \* the exit code, 1 for an exception too

files == <<csv, md, fixture>>
vars == <<env, args, pc, spec, task, reports, files, worker, exit>>

OutcomeNames ==
    {"timeout", "rejected", "runtime", "llm", "no_code", "no_figure", "wrong", "pass"}

Args == [verify : BOOLEAN, write : BOOLEAN, record : BOOLEAN, models : BOOLEAN,
         tasks : {"all", "comma", "unknown"}]

\* select_tasks: no option means all, a lone comma names none.
Selected == IF args.tasks = "comma" THEN <<>> ELSE Tasks

\* Without --models the configured provider is run.
SpecsRun == IF args.models THEN Specs ELSE <<env.provider>>

Init ==
    /\ env \in Environments /\ args \in Args
    /\ args.models => env.provider = "groq"    \* it is not read then
    /\ pc = "start" /\ spec = 1 /\ task = 1 /\ reports = <<>>
    /\ csv = "old" /\ md = "old"
    /\ fixture = [state |-> "old", entries |-> <<>>]
    /\ worker = FALSE /\ exit = None

-----------------------------------------------------------------------------
(* Scoring                                                                 *)

\* What generate_and_execute returns.  A repaired or failed answer keeps the code
\* and the reply of an earlier attempt; a text may be one the check chokes on.
AgentResults ==
    { r \in [failure : {None, "llm", "rejected", "timeout", "runtime"}, code : BOOLEAN,
             text : {"none", "right", "wrong", "odd"}, figure : BOOLEAN,
             attempts : 1..MaxAttempts, raw : BOOLEAN] :
        \/ /\ r.failure \in {"llm", None} /\ r.code = (r.attempts > 1)
           /\ r.text = "none" /\ ~r.figure
           /\ r.failure = "llm" => r.raw = r.code
        \/ r.failure \in {"rejected", "timeout", "runtime"} /\ r.code /\ r.raw
           /\ r.text = "none" /\ ~r.figure
        \/ r.failure = None /\ r.code /\ r.raw }

\* task.check: the checks of chart tasks always hold, the others look for the
\* value in the text, of which there may be none.
Check(t, text) == IF t.chart THEN "holds" ELSE
    CASE text = "right" -> "holds" [] text = "odd" -> "raises" [] OTHER -> "fails"

\* Mutant: a chart task is scored by its check alone.
Score_NoFigure(t, r) ==
    IF r.failure # None THEN r.failure
    ELSE IF ~r.code THEN "no_code"
    ELSE IF Check(t, r.text) = "holds" THEN "pass"
    ELSE "wrong"

Score(t, r) ==
    IF r.failure # None THEN r.failure
    ELSE IF ~r.code THEN "no_code"
    ELSE IF t.chart /\ ~r.figure THEN "no_figure"
    ELSE IF Check(t, r.text) = "holds" THEN "pass"
    ELSE "wrong"

\* The results of a provider without credentials: every call fails.
ResultsOf(provider) ==
    IF Callable(env, provider) THEN AgentResults
    ELSE { r \in AgentResults : r.failure = "llm" /\ r.attempts = 1 }

\* The flag of the repair loop counts only for an answer that is right.
TaskRun(t, r) ==
    [task |-> t, outcome |-> Score(t, r), repaired |-> r.failure = None /\ r.attempts > 1]

Passed(run) == run.outcome = "pass"

Count(runs, Test(_)) == Cardinality({i \in DOMAIN runs : Test(runs[i])})

\* Mutant: only the outcomes seen first are counted.
Breakdown_Once(runs) ==
    [o \in OutcomeNames |-> IF \E i \in DOMAIN runs : runs[i].outcome = o THEN 1 ELSE 0]

\* ModelReport.breakdown, with the zero entries.
Breakdown(runs) == [o \in OutcomeNames |-> Count(runs, LAMBDA run : run.outcome = o)]

\* Right only because of the repair loop.
Repaired(runs) == Count(runs, LAMBDA run : Passed(run) /\ run.repaired)

Hits(runs, category) ==
    Count(runs, LAMBDA run : run.task.category = category /\ Passed(run))

\* The reply of an answer that scored correct is kept for --record; what it led to
\* stands for it here.
Recordings(t, r) ==
    IF Score(t, r) = "pass" /\ r.raw
    THEN <<[task |-> t, text |-> r.text, figure |-> r.figure]>> ELSE <<>>

Report(model) == [model |-> model, runs |-> <<>>, recordings |-> <<>>]

WithTask(report, t, r) ==
    [report EXCEPT !.runs = Append(@, TaskRun(t, r)), !.recordings = @ \o Recordings(t, r)]

-----------------------------------------------------------------------------
(* The fixture                                                             *)

Key(entry) == <<entry.task.dataset, entry.task.question>>

\* The recordings of all reports, by their places: a report and one of its entries.
Places == UNION {{m} \X DOMAIN reports[m].recordings : m \in DOMAIN reports}

At(p) == reports[p[1]].recordings[p[2]]

\* The order in which they are gone through, model after model.
Sooner(p, q) == p[1] < q[1] \/ (p[1] = q[1] /\ p[2] < q[2])

\* Mutant: the last model to answer a question owns it.
Kept_LastOwns == {p \in Places : \A q \in Places : Sooner(p, q) => Key(At(q)) # Key(At(p))}

\* The first model to get a question right owns it; a key already seen is skipped.
Kept == {p \in Places : \A q \in Places : Sooner(q, p) => Key(At(q)) # Key(At(p))}

\* The order of the file; the sort leaves entries of one key as they were.
Before(p, q) ==
    \/ At(p).task.id < At(q).task.id
    \/ At(p).task.id = At(q).task.id /\ Sooner(p, q)

Preceding(p) == Cardinality({q \in Kept : Before(q, p)})

\* All recordings, each question once, sorted.
Entries == [k \in 1..Cardinality(Kept) |-> At(CHOOSE p \in Kept : Preceding(p) = k - 1)]

\* load_recordings, as the demo calls it: half a file is not JSON, and yields none.
LoadRecordings == IF fixture.state = "broken" THEN <<>> ELSE fixture.entries

-----------------------------------------------------------------------------
(* main                                                                    *)

Goto(from, to) == pc = from /\ pc' = to

\* The finally clause shuts the worker down whatever ended the try block.
Finish(code) ==
    /\ pc' = "ended" /\ exit' = code
    /\ worker' = FALSE

Begin ==
    /\ Goto("start", IF args.verify THEN "verify" ELSE "construct") /\ args.tasks # "unknown"
    /\ UNCHANGED <<env, args, spec, task, reports, files, worker, exit>>

\* A task id that is not known ends the process before the try block.
UnknownTask ==
    /\ Goto("start", "ended") /\ args.tasks = "unknown" /\ exit' = 1
    /\ UNCHANGED <<env, args, spec, task, reports, files, worker>>

\* Each reference through the sandbox and its own check: never a model's prose.
VerifyTask ==
    /\ pc = "verify" /\ task <= Len(Selected)
    /\ \E r \in { x \in AgentResults : x.code /\ x.attempts = 1 /\ x.failure # "llm" } :
          reports' = <<WithTask(IF reports = <<>> THEN Report("reference") ELSE reports[1],
                                Selected[task], r)>>
    /\ task' = task + 1 /\ worker' = TRUE
    /\ UNCHANGED <<env, args, pc, spec, files, exit>>

Failures == IF reports = <<>> THEN 0 ELSE Count(reports[1].runs, LAMBDA run : ~Passed(run))

Verified ==
    /\ pc = "verify" /\ task > Len(Selected)
    /\ Finish(IF Failures > 0 THEN 1 ELSE 0)
    /\ UNCHANGED <<env, args, spec, task, reports, files>>

\* get_provider; a ConfigError skips the model.
Construct ==
    /\ Goto("construct", "tasks") /\ spec <= Len(SpecsRun)
    /\ GetProvider(env, SpecsRun[spec]) # "ConfigError"
    /\ reports' = Append(reports, Report(SpecsRun[spec]))
    /\ task' = 1
    /\ UNCHANGED <<env, args, spec, files, worker, exit>>

SkipModel ==
    /\ pc = "construct" /\ spec <= Len(SpecsRun)
    /\ GetProvider(env, SpecsRun[spec]) = "ConfigError"
    /\ spec' = spec + 1
    /\ UNCHANGED <<env, args, pc, task, reports, files, worker, exit>>

\* run_task: a reply with code has warmed the worker up.
RunTask ==
    /\ pc = "tasks" /\ task <= Len(Selected)
    /\ \E r \in ResultsOf(SpecsRun[spec]) :
          /\ reports' = [reports EXCEPT ![Len(reports)] = WithTask(@, Selected[task], r)]
          /\ worker' = (worker \/ r.code)
    /\ task' = task + 1
    /\ UNCHANGED <<env, args, pc, spec, files, exit>>

ModelDone ==
    /\ Goto("tasks", "construct") /\ task > Len(Selected)
    /\ spec' = spec + 1
    /\ UNCHANGED <<env, args, task, reports, files, worker, exit>>

NoModels ==
    /\ pc = "construct" /\ spec > Len(SpecsRun) /\ reports = <<>>
    /\ Finish(1)
    /\ UNCHANGED <<env, args, spec, task, reports, files>>

AllModels ==
    /\ Goto("construct", IF args.write THEN "open" ELSE "record")
    /\ spec > Len(SpecsRun) /\ reports # <<>>
    /\ UNCHANGED <<env, args, spec, task, reports, files, worker, exit>>

\* Every file is opened, which empties it, and then written.
OpenCsv ==
    /\ Goto("open", "csv") /\ csv' = "empty"
    /\ UNCHANGED <<env, args, spec, task, reports, md, fixture, worker, exit>>

WriteCsv ==
    /\ Goto("csv", "md") /\ Selected # <<>>
    /\ csv' = "new"
    /\ UNCHANGED <<env, args, spec, task, reports, md, fixture, worker, exit>>

\* The columns are those of the first run: without one an IndexError ends main.
NoRows ==
    /\ pc = "csv" /\ Selected = <<>>
    /\ Finish(1)
    /\ UNCHANGED <<env, args, spec, task, reports, files>>

WriteMarkdown ==
    /\ Goto("md", "record") /\ md' = "new"
    /\ UNCHANGED <<env, args, spec, task, reports, csv, fixture, worker, exit>>

OpenFixture ==
    /\ Goto("record", "fixture") /\ args.record
    /\ fixture' = [state |-> "broken", entries |-> <<>>]
    /\ UNCHANGED <<env, args, spec, task, reports, csv, md, worker, exit>>

WriteFixture ==
    /\ pc = "fixture"
    /\ fixture' = [state |-> "new", entries |-> Entries]
    /\ Finish(0)
    /\ UNCHANGED <<env, args, spec, task, reports, csv, md>>

NoFixture ==
    /\ pc = "record" /\ ~args.record
    /\ Finish(0)
    /\ UNCHANGED <<env, args, spec, task, reports, files>>

\* Mutant: an interrupt leaves the worker behind.
Interrupt_NoFinally ==
    /\ pc \in {"verify", "tasks", "construct", "open", "csv", "md", "record", "fixture"}
    /\ pc' = "ended" /\ exit' = 1
    /\ UNCHANGED <<env, args, spec, task, reports, files, worker>>

\* Ctrl-C, a full disk, a dataset that is missing: an exception out of main.
Interrupt ==
    /\ pc \in {"verify", "tasks", "construct", "open", "csv", "md", "record", "fixture"}
    /\ Finish(1)
    /\ UNCHANGED <<env, args, spec, task, reports, files>>

Next ==
    \/ Begin \/ UnknownTask \/ VerifyTask \/ Verified
    \/ Construct \/ SkipModel \/ RunTask \/ ModelDone \/ NoModels \/ AllModels
    \/ OpenCsv \/ WriteCsv \/ NoRows \/ WriteMarkdown
    \/ OpenFixture \/ WriteFixture \/ NoFixture \/ Interrupt

Spec == Init /\ [][Next]_vars

-----------------------------------------------------------------------------
(* Properties                                                              *)

\* What the demo can replay was computed by code and agreed with the ground truth
\* of its own question: "demo mode can never replay model output that the benchmark
\* did not verify" (run_benchmark.py lines 260-265), also when the file is read
\* after a run that was interrupted while it wrote.
FixtureVerified ==
    \A e \in ToSet(LoadRecordings) : IF e.task.chart THEN e.figure ELSE e.text = "right"

\* The questions a report has a right answer to, and the first answer to one.
Answered(m) == {Key(e) : e \in ToSet(reports[m].recordings)}

AnswerOf(m, key) ==
    LET all == reports[m].recordings IN all[SelectInSeq(all, LAMBDA e : Key(e) = key)]

\* "First model to get a task right owns that question" (line 279): the fixture
\* has every question some model got right, once, with the first such model's
\* answer, in the order replay_provider breaks ties by.
FirstOwns ==
    fixture.state = "new" =>
        LET entries == fixture.entries
        IN  /\ \A i, j \in DOMAIN entries : i < j =>
                  entries[i].task.id <= entries[j].task.id /\ Key(entries[i]) # Key(entries[j])
            /\ UNION {Answered(m) : m \in DOMAIN reports} = {Key(e) : e \in ToSet(entries)}
            /\ \A e \in ToSet(entries) : \A m \in DOMAIN reports :
                  Key(e) \in Answered(m) /\ (\A n \in 1..m - 1 : Key(e) \notin Answered(n)) =>
                      e = AnswerOf(m, Key(e))

\* The tables of a report agree with each other: the taxonomy and the categories
\* account for every task once, and no more answers are credited to the repair
\* loop than were right (lines 91-120, 299-344).
TablesAgree ==
    \A i \in DOMAIN reports :
        LET runs == reports[i].runs
            passed == Count(runs, Passed)
        IN  /\ MapThenSumSet(LAMBDA o : Breakdown(runs)[o], OutcomeNames) = Len(runs)
            /\ Breakdown(runs)["pass"] = passed
            /\ MapThenSumSet(LAMBDA c : Hits(runs, c), {Tasks[j].category : j \in DOMAIN Tasks})
                  = passed
            /\ Repaired(runs) <= passed

\* However main ends, the worker it warmed up has been shut down: "leaving it
\* running would hang the interpreter on exit" (lines 526-528).  Exit code 0 says
\* that the references all passed, or that every model that could be constructed
\* ran every task and each file asked for is this run's; the files that were not
\* asked for are untouched (lines 471-528).
ExitTruthful ==
    /\ exit # None => ~worker
    /\ exit = 0 =>
            /\ \A i \in DOMAIN reports : Len(reports[i].runs) = Len(Selected)
            /\ IF args.verify
               THEN \A i \in DOMAIN reports : Count(reports[i].runs, Passed) = Len(Selected)
               ELSE reports # <<>>
            /\ LET asked == ~args.verify IN
               /\ {csv, md} = {IF asked /\ args.write THEN "new" ELSE "old"}
               /\ fixture.state = IF asked /\ args.record THEN "new" ELSE "old"
=============================================================================
