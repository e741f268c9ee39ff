# A verification project for My Data Analyst

My Data Analyst is a Streamlit app: a user uploads a CSV, asks a question, a language model
writes Python for it, and a sandboxed worker process runs that Python. This directory holds
TLA+ models of the program, TLC configurations that check them on small instances, and
theorems that TLAPS proves for every instance. Every definition is translated from the code;
`PROJECT.json` names the lines each one stands for.

## The system

| Component | State it keeps | Operations | Interacts with |
|---|---|---|---|
| Page script (`app.py`) | none of its own; Streamlit's `session_state` | sidebar (upload, sample, clear), `answer`, `main` | runs from the top at every interaction; an interaction stops the run in progress |
| Session manager (`src/session_manager.py`) | dataset, its name, history for the model, chat messages | `init_session`, `add_to_history`, `add_chat_message`, `clear_chat`, CSV parsing | called by the page |
| Agent (`src/agent/agent.py`) | the result of one question while it is built | `generate_and_execute` | model provider, sandbox executor |
| API retry (`src/llm/factory.py`) | cache of providers | `get_provider`, `complete_with_retry` | providers |
| Providers (`src/llm/`) | client objects; recordings in replay | `complete`, `is_retryable` | network, fixture file |
| Validator (`src/sandbox/validator.py`) | none | `validate_code` | called first by `execute` |
| Executor (`src/sandbox/executor.py`) | `_lock`, `_worker` (process, response queue, reader thread) | `execute`, `shutdown`, `_ensure_worker`, `_spawn`, `_pump`, `_discard_worker` | all sessions' threads call one instance; pipes to the worker |
| Worker (`src/sandbox/worker.py`) | interpreter-wide state of a warm process | `main` loop, `_execute` | stdin and stdout pipes; dies with its parent |
| Wire protocol (`src/sandbox/protocol.py`) | none | frames with a length header | both ends of the pipes |
| Settings (`src/config.py`) | read once from the environment | `validate_provider`, `demo_mode` | everything |
| Benchmark (`eval/`) | reports of a run | `run_task`, `score`, `write_recordings` | agent, executor; its recordings feed the replay provider |
| Prompts, pricing, logging, UI components, styles, demo data generator | none | text and rendering | - |

What is hard here:

* **One warm worker for everybody.** Threads of all sessions share one process through two
  pipes and a queue. Jobs and replies carry no identifier, so which reply belongs to which
  call is a matter of protocol alone. The process may die, hang, loop or be slow at any point,
  and what the parent knows of it (`poll()`, a broken pipe, an end-of-stream mark) is late.
* **A loop of attempts**, each with an inner loop of API tries, that builds its result field
  by field and its prompt turn by turn.
* **Script runs that are cut short.** Streamlit stops and restarts the script between two
  writes to the session state, and what a cut run left is in the next question's prompt.
* **One interpreter for all jobs**, which generated code may change, and whose file descriptor 1
  is also the protocol.
* **Two judges of one thing**: the validator and the worker, `demo_mode` and `get_provider`,
  pandas and `_dedupe_columns` decide the same question by different rules.

What makes each component correct:

* Executor and worker: one worker process at most; an answer is the answer to its own call;
  code has stopped when its call returns; between calls the worker is idle and its pipes are
  empty; an error about a lost worker is true; a shutdown leaves no process; every call returns.
* Agent: the value, the code and the raw reply shown together come from one attempt; the
  repair prompt is the complete history of the question; a timeout is final; the failure kind
  says what happened; the cost covers every delivered reply; every question ends.
* Session: history and chat agree with each other and with the dataset, turns come in pairs,
  the history stays bounded, the dataset on the page is the one last chosen, the reruns the
  script asks for come to an end.
* Worker and validator: a job meets no open figure and no redirected output of the job before it;
  the protocol pipe carries
  replies only; a chart is shown or its loss explained; code that passed the validator is not
  refused for what the validator looked for.
* Replay: a recorded question finds its own recording, on its own dataset; the messages of
  every call alternate; a refusal means that there is no recording.
* Ingestion: every column keeps its place and has a name of its own; what the page and the
  model are told of the columns is what the frame has.
* Benchmark: only verified answers are recorded; tables agree with each other; exit code and
  files tell what was done; the worker is shut down however the run ends.
* Settings: a live page has a provider that can be constructed and called, as far as the page
  looks.

`PROJECT.json` lists under `hazards` every place where one of these can go wrong.

## Modules

| Module | Models | Main definitions |
|---|---|---|
| `SandboxService` | what the executor promises its callers: calls that are pending, run alone, stop, return | `ServiceSpec` |
| `SandboxExecutor` | `executor.py` with the main loop of `worker.py` and the pipes of `protocol.py` | `Spec`, `FairSpec`, all properties |
| `SandboxExecutorInv` | its inductive invariant, and what the refinement needs besides | `IInv`, `RInv` |
| `SandboxExecutor_proofs`, `SandboxRefinement_proofs` | theorems and proofs | |
| `Agent` | `generate_and_execute` and `complete_with_retry`, over `SandboxService` | `Spec`, `FairSpec`, all properties |
| `AgentInv`, `SessionInv`, `WarmWorkerInv`, `DemoChatInv`, `BenchmarkInv`, `IngestInv` | the inductive invariants of these modules | `IInv` |
| `Agent_proofs`, `Session_proofs`, `WarmWorker_proofs`, `DemoChat_proofs`, `Benchmark_proofs`, `Ingest_proofs` | theorems and proofs | |
| `Session` | the page script of `app.py` over the state of `session_manager.py` | `Spec`, `FairSpec`, all properties |
| `Validator` | `validate_code` | `Validate` |
| `WarmWorker` | `worker.py` from the inside: boot, `_execute`, the reply; over `Validator` | `Spec`, all properties |
| `Conversation` | the messages of a call and `normalize_messages` | `NormalizeMessages` |
| `Replay` | `ReplayProvider`; over `Conversation` | `Complete` |
| `Settings` | the choice of a provider and of demo mode | `Page`, `GetProvider` |
| `DemoChat` | the app in demo mode: page, history, agent and replay; over `Replay` and `Settings` | `Spec`, all properties |
| `Benchmark` | `run_benchmark.py`; over `Settings` | `Spec`, all properties |
| `Ingest` | a file on its way to the page and the prompt | `Spec`, all properties |
| `SandboxExecutorMC`, `AgentMC`, `SessionMC`, `WarmWorkerMC`, `DemoChatMC`, `BenchmarkMC`, `IngestMC` | instances for TLC | |

### SandboxExecutor

Each call of `execute()` and `shutdown()` is a thread, made once; `pc` is the point between two
effects where it stands. `lock` and `worker` are `_lock` and `_worker`; `at` is the local
variable `worker` of a call. For each process `inbox` is its stdin pipe, `outbox` its stdout
pipe, `responses` its queue, `pump` its reader thread, `job` what it executes. A process goes
from `booting` to `serving` to `dying` (its descriptors are closed, `poll()` still says None)
to `dead`.

An action is the code between two points at which another thread or process can interfere.
`EnsureReuse`, `EnsureSpawn` and `SpawnFails` are the outcomes of `_ensure_worker` up to the
wait for the handshake; `WriteOk`, `WriteBroken`, `WriteOversized` and `WriteRaises` those of
`write_job`; `AwaitAnswer`, `AwaitEOF`, `AwaitTimeout` those of `_await_response`. A timeout is
possible whenever the queue is empty, which covers every length of time. `Discard` is
`_discard_worker` and `Release` the end of the `with` block. `_kill_process_tree` (`KillTree`)
does nothing when `poll()` reports the process dead, else it kills the whole group; that the kill
succeeds is assumed, as the code assumes it. The reader thread has `PumpMove`, `PumpEOF` for the
end of the stream of a process that stopped, and `PumpRaises`, where `read_result` refuses a reply
of a process that lives and the thread ends with the same mark. The
process side has `Boot`, `TakeJob`, `FinishJob`, `LeaveLoop`, and the environment `Crash`,
`Reapable`, `StartHelpers`, `EndHelpers`, `AppExit`.

What a call's code does is an input (`kind`): refused by the validator, ends, loops, raises
with a text too long for a reply, makes a frame over the limit, or cannot be pickled. A job is represented by the call it belongs to and a
reply by the call whose code computed it, though the code compares neither: that is what
`OwnAnswer` is about.

Abstractions: a frame is atomic, and a frame cut by a kill reads as the end of the stream
(`read_result` raises or returns None, `_pump` treats both alike). Of the replies
that make `read_result` raise only the one above `MAX_MESSAGE_BYTES` is an input, since the worker
sends JSON objects; what is left of it stays in the pipe until the worker is killed. A write does not block; a
worker that is stopped without being dead between two jobs would block a large one, which is
listed as a hazard and not modelled. A reader thread that cannot be started is not modelled.

### Agent

`phase` is where a question stands, `attempt` the loop variable, `tries` the API tries of the
attempt, `turns` what was appended to the first prompt. The fields of `AgentResult` keep the
attempt they come from: `code` is `generated_code`, `raw` is `raw_response`, `answer` the call
that computed `result_text` and the figure, `failed` is `failed_attempts`, `tokens` the sum of
the usage. Attempt `a` of question `q` makes the call `<<q, a>>` of `SandboxService`, whose
actions are conjoined with the agent's: `Submit`, `CodeRejected` (`Refuse`), `CodeWorks` and
`CodeFails` (`Answer`: a reply that carries a result, or the exception), `SandboxFails` and
`SandboxRaises` (`Fail`). Token counts are constants for a first prompt, a reply and a repair
prompt, which is enough to compare sums.

Since `SandboxExecutor` implements `SandboxService` (theorem `Implementation`), what is shown of
`Agent` holds of the agent over the executor, for the safety properties.

### Session

One browser session. Streamlit (external, version 1.50 with its default of fast reruns) starts
a run of the script at every interaction and ends the run in progress at the next point where
it reads or writes `session_state` or draws an element. So each action is the piece of the
script between two such points, `pc` names the piece that comes next, and `User` may start a
new run at any of them. `init_session` and `clear_chat` are therefore several actions
(`InitDf`, `InitName`, `InitHistory`, `InitChat`; `ClearHistory`, `ClearChat`), and so is
`add_to_history` (`Remember` up to the assignment of the trimmed list, `Trim`).
`generate_and_execute` reads no session state, so the long wait is the one state `think`.
`trigger` is what started the run: a button, a chip or a question counts for one run, and is
gone after `st.rerun()`. The file in the uploader stays.

`choice`, `parsed` and `cut` are history variables, used by properties only. Entries of the
history and the chat keep their role, the question they belong to and the dataset it was asked
about; errors and answers are stored by the same sequence of writes and are not told apart.
With fast reruns the old run's thread may be between two such points while the new one runs:
the append to a list that follows its lookup is taken to be atomic with the lookup.

### WarmWorker and Validator

`Validator` is `validate_code` on abstract code: a node of the syntax tree is a pair of its class
and the group of names, or the form, that the visitor tells apart. The tables of names become
three groups, so the length of `validator.py` is mostly in those tables. `TakesDf` keeps that
`args.args` is empty for `run(*args)` and `run(df, /)` too.

`WarmWorker` runs that code node by node in one process. `inbox` is stdin, `channel` everything
written to the protocol pipe; `open`, `theme` and `sysout` are the interpreter's figures, plotting
style and `sys.stdout`; `captured` is the `StringIO` of a job and `printed` a history variable with
what its code printed, character by character; `Cut` is the truncation of `_stringify`, with
the limit of 4,000 as the constant `MaxStdout`. `code` has a top level and a body of `run`. Each node has an effect
(`Effect`), may raise (`Raises`) and may bind `run` (`Binds`): a definition binds it to a
function one argument fits or one it does not, or, when decorated, to anything; an assignment, an
import, `del`, an `if` or a loop and a call of a function that declares it global bind it again. A
result is one object or a pair, of the kinds the reply treats differently (`Objects`). Every exit of
`_execute` goes through `Return`, which has the `finally` clause and the end of the redirect.
The parent sends only code that `Validate` accepts, and one job at a time, which is what
`QuiescentClean` and `OwnAnswer` say of `SandboxExecutor`; that module has the ways the process
dies from outside.

### DemoChat, Replay, Conversation, Settings

A text is a sequence of words and `Spoken` says what `normalise` leaves of each. `Complete`
includes `normalize_messages`, the search for "Question:" in the last user turn, the scope, the
exact match and the overlap in integers (a score is a numerator and a denominator, compared by
cross-multiplication). What the prompt says of the columns is the one word "columns": a column
whose name has "Question:" in it is not modelled. A recording is found by its place in the list: the loops of `_match`
keep the first of the exact matches, and the first of those with the greatest overlap, which is
the least place among them. In `DemoChat` the agent's loop calls `Complete` with the conversation it
has built, execution succeeds or fails, a failure extends the conversation with a repair prompt,
and `Cut` ends a run at any point, so the history holds questions without answers. A load is the
three writes of `init_session` that matter here (`LoadFrame`, `LoadName`, `LoadHistory`), and a cut
may fall between them; `demo_provider` scopes by the name (`name`), the code runs on the frame
(`file`), and the history variable `torn` says that the last load was cut between the two. The entries of
the history are written by `add_to_history` with its trimming. `Settings` is evaluated for every
environment: the name in `LLM_PROVIDER`, the Groq key, the groq package, boto3, AWS credentials.

### Benchmark

`pc` follows `main`; `spec` and `task` are the indices of its loops. An agent result is any record
that `generate_and_execute` can return (`AgentResults`), including code and reply of an earlier
attempt; what the text of an answer says is "right", "wrong", none, or one on which the check
raises. The recordings of all reports are identified by their places, report and position:
`Kept` are those whose key was not seen before, and `Entries` puts them in the order of the
stable sort by their rank in it. A fixture that was cut short gives the demo no recordings; if the
cut falls inside a character of several bytes, reading it raises instead, and the demo has none
either. The report files and the fixture are opened (which empties
them) and written in two steps, and `Interrupt` may come between any two steps.

### Ingest

One file passes the checks of `parse_csv_bytes` in their order, then `compute_data_summary` and
`build_data_context`. A name is a sequence of pieces (a letter, a space, a number with its
dot), which is what stripping and renaming act on. `Mangle` is what pandas does to a repeated
name of a header (external, version 2: it looks for a free number), after which the code strips
and renames again. Null counts are powers of two, so that a sum tells which columns it counted.

## Runs

| Run | Instance | Shows |
|---|---|---|
| `executor` | 2 calls in 12 pairs of kinds, 1 shutdown, 2 workers, fairness; 629,912 states | `OneWorker`, `OwnAnswer`, `NoRunaway`, `QuiescentClean`, `TruthfulErrors`, `ShutdownComplete`, `HandleKept`, the invariant `RInv` of the proofs (which has `IInv` and the type invariant); `EveryCallReturns`, `OrphanExits`; `ImplementsService`: every step is a step of `SandboxService` or a stutter |
| `agent` | 2 questions, 2 repairs, 3 tries; symmetry of questions | `IInv` (with the type invariant), `AnswerMatchesCode`, `PromptIsComplete`, `TimeoutIsFinal`, `FailureIsTrue`, `CostIsTrue`, `NothingLeftRunning` |
| `agent_liveness` | 2 questions, 1 repair, 2 tries, fairness | `EveryQuestionEnds` |
| `session` | 5 interactions, 3 uploads (two of one name, one that does not parse), 1 sample, 2 questions, `HISTORY_TURNS` 1, demo mode, fairness | `IInv` (with the type invariant), `HistoryShown`, `TurnRecorded`, `ContextOfDataset`; `RunsSettle` |
| `worker` | 2 jobs of all code of one or two top-level nodes and nine bodies, code at the limits of the validator, room for one printed character; 392,043 states | `NothingLeftOver`, `ChannelFramed`, `NoChartLost`, `OwnOutput`, `ValidatorVouches` |
| `demo` | 3 recordings of 2 datasets, 4 files (one with the stem of a sample), 9 questions, 3 asked, 1 repair, `HISTORY_TURNS` 1; 3,196,959 states | `SentAlternates`, `OwnRecording`, `RunsOnItsDataset`, `NoConfusion`; `LivePageCanCall` for every environment in which the page is not the demo |
| `benchmark` | 2 tasks (one a chart), 2 models, 2 attempts, every combination of options | `FixtureVerified`, `FirstOwns`, `TablesAgree`, `ExitTruthful` |
| `ingest` | all headers of up to 4 of 6 names, 2 rows, 2 columns listed by name | `ColumnsFaithful`, `ToldTruly` |
| `session_sample`, `worker_theme`, `demo_refusal`, `ingest_columns` | as the runs above (`session_sample`: 4 interactions) | `SampleStays`, `ThemeHolds`, `RefusalIsTrue`, `UniqueColumns` are violated (see below) |

`executor` and `session` check safety and liveness together, under `FairSpec`, which has the
same reachable states as `Spec`. A run with temporal properties uses no symmetry.

**Bounds.** An error of the protocol needs one call that goes wrong and a later one that meets
what it left, on the same worker or on its successor: two calls and two workers, plus a
shutdown that races them. The calls start alike, so of the kinds of their code the run takes
each pair in one order (`MCInputs`): a call that halts or loops with a call of any kind, and two
whose replies are too long. Nine pairs are left out, in which a code that is refused or a job that
is not written whole meets another of these or a reply that is too long.
When the workers run out a call can only fail to spawn one; that branch exists in the code
(`Popen` raising), so the bound adds no behaviour. The theorems remove these bounds for safety.
In `Agent` two repairs and three tries are the program's defaults and two questions are enough
to occupy the sandbox for each other; the liveness run has one repair and two tries, which
still has a retry and a repair in the middle of the loop and at its end. In `Session` five
interactions (`MaxClicks`) give a load, a turn, a turn that is cut, a turn that meets what it
left, and one more load or clear; one turn of history makes every answer trim it. In demo mode
questions can also be typed, so the run has every action.

In `WarmWorker` what a job leaves is met by the next one, so two jobs (`MaxJobs`) suffice; two
top-level nodes are enough for a definition of `run` and whatever stands before or after it.
`MaxCodeChars` is 2 with lengths at, below and above it. In `DemoChat` three questions
(`MaxAsks`) give a cut question, the one merged with it and one after both have been trimmed;
the recordings have a question whose words contain another's, on one dataset, and one on another
dataset. The demo reads nothing of the environment, so of the environments that lead to it the
instance has one for each `LLM_PROVIDER` (`MCStarted`). In `WarmWorker` a limit of one
character cuts the output of any code that prints twice. In `Benchmark` two models and two tasks are what the ownership of a recording and the
order of the fixture need. In `Ingest` a clash of renamed columns needs three names; the run has
four.

**Deadlock** is not checked: each call and question is made once, and a session has a bounded
number of interactions, after which the system rests; the app may exit.

**Fairness.** `SandboxExecutor!FairSpec` asks that each thread of the app, each reader thread
and each worker process that can move does. The operating system schedules them, and every wait
under the lock has a deadline. Calls need not be made, code need not crash, and helper processes
need not end. Weak fairness of a thread at the lock suffices because the calls are finitely
many; starvation by endless arrivals of new calls is neither modelled nor excluded
(`threading.Lock` is not fair). `Agent!FairSpec` asks that a provider call returns or raises,
which the client libraries' timeouts give, that a sleep ends, and that the sandbox moves on,
which is what `EveryCallReturns` says of the executor. `Session!FairSpec` asks only that a run
goes on.

**Disagreements found**, each by a run of its own:

* `SampleStays`: a sample button notes the sample's name as the one loaded (`app.py:149`), so
  the rerun takes the file in the uploader for a new one and loads it over the sample, against
  "…or try a sample dataset" (`app.py:145`).
* `ThemeHolds`: "Defaults apply to any figure generated code creates, so charts match the page
  whatever the model writes" (`worker.py:57-59`), but they are applied once, on import, and a
  job that changes the style changes it for all later jobs of all sessions.
* `RefusalIsTrue`: "demo mode simply has no recording for this question, and it already says so"
  (`agent.py:277-278`). When the code of a recording fails, say because the worker would not
  start or the connection was lost, the repair prompt becomes the last user turn, no recording
  answers it, and the user is told that a recorded question is not part of the demo.
* `UniqueColumns`: `_dedupe_columns` is to "Make column names unique" (`session_manager.py:84`).
  The header `a,a,"a "` becomes `a`, `a.1`, `a ` in pandas, `a`, `a.1`, `a` when stripped, and
  `a`, `a.1`, `a.1` when renamed; `build_data_context` then raises (`agent.py:90-92`) and the
  question takes the page down.

**Further deviations of the code from its documents**, which the models have and no run is spent
on:

* "The sandbox stopped unexpectedly — this usually means the code exhausted available memory"
  (`executor.py:282-283`) is also said of a worker that lives, when its reply is longer than
  `MAX_MESSAGE_BYTES` (`protocol.py:64-65`): the text of an exception has no limit
  (`worker.py:318-321`). The worker is then killed (`PumpRaises` in `SandboxExecutor`).
* `validate_provider` is to raise "if the selected provider cannot be used" so that "failures
  surface immediately instead of mid-conversation" (`config.py:144-146`), but it does not look for
  the groq package: without it the page is live and every question ends in a configuration error
  (`groq_provider.py:26-29`; `GroqProvider` in `Settings`).
* Replaying "customer_churn code onto retail_orders would run real code against the wrong columns"
  (`replay_provider.py:150-158`), which is what happens after a load that was cut between the frame
  and its name (`session_manager.py:209-210`), until another load (`torn` in `DemoChat`).
* A chart that comes first in a pair, as in `(fig, None)`, is shown as the text of the object and
  without a warning (`worker.py:246-247`; `UnpackResult` in `WarmWorker`).
* `_kill_process_tree` promises to "Kill the worker and anything it spawned" (`executor.py:91`)
  and returns at once for a worker that is already dead (`executor.py:96-97`): helper processes
  of a worker that was killed for memory stay (`KillTree` in `SandboxExecutor`).
* The benchmark takes `generated_code is None` to mean "The model chatted instead of analysing"
  (`run_benchmark.py:130-132`), but a prose reply to a repair prompt keeps the code of the failed
  attempt (`agent.py:221-226`; `ReplyProse` in `Agent`, `AgentResults` in `Benchmark`).
* Two repairs are said to keep "worst-case token spend at 3x a normal query"
  (`config.py:106-107`, `.env.example:31`), but each repair resends the conversation with the
  failed replies (`Extended` in `Agent`).
* The upload guard that "does not re-parse the same file" (`app.py:138-139`) compares names and
  ignores a corrected file of the same name (`SkipUpload` in `Session`).
* A chip "sets `_pending_query` earlier in this same run" (`app.py:349-350`); if that run is cut
  the next run answers it (`TakeQuestion` in `Session`).
* `HISTORY_TURNS` is the number of "conversation turns kept in the prompt" (`.env.example:35`);
  for 0 the slice `history[-0:]` keeps all (`LastOnes` in `Session`, `Noted` in `DemoChat`).
* "A missing Bedrock key should skip that row" (`run_benchmark.py:507`), but `boto3.client` needs
  no credentials, so the row is run and every task fails (`ResultsOf` in `Benchmark`).
* "A *misconfigured* provider still is fatal" (`app.py:313`) only when some other provider is
  usable; otherwise the page is the demo (`Page` in `Settings`).
* The demo is to keep a link working "after a key is rotated or a free-tier quota is exhausted"
  (`config.py:197-199`), but `demo_mode` looks only at whether credentials are there.

`ContextOfDataset` ("A new dataset invalidates prior context", `session_manager.py:211-212`)
holds only as long as no run was cut, and says so: a load that is cut between the data frame
and the history, two neighbouring writes, leaves the new data with the old conversation.

Of the interpreter of the warm worker `NothingLeftOver` and `ThemeHolds` speak of figures, output and
style. Pandas options, random seeds, warning filters and attributes of the injected modules survive a
job too (`worker.py:207-225`); the code makes no promise about them and no property is stated.

## Proofs

TLC checks each property on the instances above; the theorems state it for all values of the
constants. Of the 40 properties checked, 36 are theorems; the others are liveness properties. None
of the state properties is inductive as it stands, so each module has an invariant `IInv` that says
what else is true at each point of the code; every action preserves it by a lemma or a step of its
own. TLC checks these invariants too, before and beside the proofs: `RInv` (with `IInv`) in
`Executor.cfg`, `IInv` in `Agent.cfg` and `Session.cfg`; those of `WarmWorkerInv`, `DemoChatInv`,
`BenchmarkInv` and `IngestInv` are known to the MC modules, and a cfg that names `IInv` finds no
error in the states of `worker` (392,043), `demo` (3,196,959), `benchmark` (1,246,544) and `ingest`
(34,283).

| Property | Theorem | For every |
|---|---|---|
| `OneWorker`, `OwnAnswer`, `NoRunaway`, `QuiescentClean`, `TruthfulErrors`, `ShutdownComplete`, `HandleKept` | `SandboxExecutor_proofs`: `OneWorkerAlways`, `OwnAnswers`, `NoRunaways`, `Quiescence`, `Truthful`, `Shutdown`, `HandlesKept` | set of calls, shutdowns and workers |
| `RInv`, `ImplementsService` | `SandboxRefinement_proofs`: `JobsKept`, `Implementation` | the same |
| `IInv`, `AnswerMatchesCode`, `FailureIsTrue`, `CostIsTrue`, `PromptIsComplete`, `TimeoutIsFinal`, `NothingLeftRunning` | `Agent_proofs`: `Invariance`, `AnswersMatch`, `FailuresTrue`, `CostsTrue`, `PromptsComplete`, `TimeoutsFinal`, `NothingRunning` | set of questions, number of repairs and tries, token counts |
| `NothingLeftOver`, `ChannelFramed`, `NoChartLost`, `OwnOutput`, `ValidatorVouches` | `WarmWorker_proofs`: `NothingLeft`, `PipeFramed`, `ChartsKept`, `OutputIsOwn`, `Vouched` | set of code of any length, number of jobs |
| `IInv`, `HistoryShown`, `TurnRecorded`, `ContextOfDataset` | `Session_proofs`: `Invariance`, `HistoryIsShown`, `TurnsRecorded`, `HistoryFollowsDataset` | files, questions, number of interactions, `HISTORY_TURNS` |
| `SentAlternates`, `OwnRecording`, `NoConfusion`, `RunsOnItsDataset`, `LivePageCanCall` | `DemoChat_proofs`: `Alternates`, `RecordedAnswered`, `NeverConfused`, `CodeOnItsDataset`, `LivePage` | recordings told apart by their words, examples, files, texts, limits |
| `ExitTruthful`, `FixtureVerified`, `FirstOwns`, `TablesAgree` | `Benchmark_proofs`: `ExitIsTruthful`, `OnlyVerified`, `FirstAnswerOwns`, `TablesAlwaysAgree` | list of tasks and models, attempts |
| `ColumnsFaithful`, `ToldTruly` | `Ingest_proofs`: `EveryColumnNamed`, `ColumnsTold` | headers, of any length and letters; cap on the columns listed |

**Assumptions.** They say that model values are apart and that parameters have their types, and
TLC evaluates them in the runs:

* `NamesDistinct`, `NoneIsNoResult` (`SandboxExecutor`): calls, shutdowns, workers, None and the
  protocol's marks are different things, and None is no result of a call. In the code they are
  objects of different types.
* `InputsAreKinds` (`SandboxExecutor`): what the codes of the calls may do is chosen among
  functions from calls to `Kinds`, all of them if one likes.
* `SettingsAreIntegers`, `NoneDistinct` (`Agent`): the two limits are any integers, since
  `config.py` does not restrict them; None is no attempt, outcome or text.
* `CodesAreCode`, `NoneDistinct`, `RoomIsNatural` (`WarmWorker`): a piece of code is a length,
  whether it parses, and two sequences of nodes; the limit of the output is a natural number.
* `FilesAreApart` (`Session`): uploads and samples are different files, None is neither a file
  nor a question.
* `SpokenInWords` (`Replay`), `WordsAreWords`, `LimitIsNat` (`DemoChat`): texts, prompts and what
  `normalise` leaves of a word are made of words, and `HISTORY_TURNS` is a natural number.
* `StartedInEnvironments`, `FilesAreFiles` (`DemoChat`): the process is started in some of the
  environments of `Settings`, all of them if one likes; None is no file.
* `RecordingsAreApart` (`DemoChat`): the fixture is a sequence of records, and no two questions of
  one dataset have the same set of words. `replay_provider.py` lines 46-52 give 0.53 as the
  greatest overlap of two different questions, and the same words would give 1.
* `FewShotOpens` (`DemoChat`): the examples, a literal table, begin with a question, and none of
  their turns is blank.
* `TasksAreRecords`, `SpecsAreNames`, `NoneIsNoCode` (`Benchmark`): the task table and the list of
  models are sequences of records and names, and None is no exit code.
* `HeadersAreNames`, `MaxListedIsNat` (`Ingest`): a header is a list of names, which are
  sequences of pieces, and not empty (pandas raises `EmptyDataError` for that); `_MAX_SAMPLE_COLS`
  is a literal.

### The executor

`OwnAnswer` would be broken by a state in which a worker still owes a reply while the next call
writes its job. `IInv` says why that state is not reachable:

* `Mutex` and `Roles`: the thread inside the `with` block is the one that holds the lock, and
  calls and shutdowns stay in their own code;
* `Processes`, `Results`, `Handles`: who knows of which process. A process that is not dead is
  `_worker` or belongs to the call that awaits its handshake; a reader thread has ended only of a
  process that stopped or of one whose reply it could not read, and that one's call is about to
  kill it;
* `Booting`, `Idle`, `Serving`, `Owner`: what the pipes, the queue and the job of a worker may
  hold at each point. A worker that is awaited has exactly one message to give, and it is in
  the inbox, under execution, in the outbox, in the queue, or lost with the worker
  (`Coming`, `Queued`, `QueuedAfter`). A worker nobody waits for has nothing.

`OneWorker` follows from `Processes`, `Handles` and `Mutex`; `NoRunaway` from `Idle` and
`Owner`; `HandleKept` from the step itself and `Handles`.

**The refinement.** The abstract status of a call is computed from where its job is: pending
until a worker has it, running while that worker executes it, finished when its reply is on its
way, aborted when the worker died first, returned when the call is. For a step to change the
status of one call only, the others' jobs must not be found anywhere else, in the pipes of
workers that are long dead too. `IInv` is silent there, so `RInv` adds `Whereabouts` (a job is
with no worker but the one it was written to, in one form), `Uncrowded` (a pipe holds one
message) and `Endings` (what a call is about to return was set by the step that led there).
Then each action is mapped: `Reject` to `Refuse`, `Admit` to `Submit`, `TakeJob` to `Start`,
`FinishJob` to `Finish`, a step in which a worker stops before its reply (a kill, a crash, an
exit) to `Abort`, the return of a call to `Answer` or `Fail`, and every other action to a
stutter.

### The agent

`IInv` (module `AgentInv`) says what the sandbox holds of every attempt of a question:
`Past` attempts have returned with a failure that a repair may follow, the `Present` one is with
the sandbox exactly while the question waits for it, those `ToCome` are untouched. `LastReply`
says which attempt the code and the raw reply come from, and `History` that conversation and
list of failed attempts have every earlier attempt, in order. What the user is shown then
follows at the step that ends the question; `CostIsTrue` is inductive with `History`, which
gives the length of what was sent.

### The worker

`IInv` (module `WarmWorkerInv`) relates the place in `_execute` to what the interpreter holds:
`Contained` (output redirected, figures open), `Captured` (what the capture has of what was
printed), `Fresh`, and `Charted` (the chart is in the reply before the text is). For
`ValidatorVouches` the judgment of the parent meets that of the worker in `Bound`: once the
definition the validator looked at has been executed, `run` is a function that takes the frame
unless that definition is decorated or requires more arguments, or a later node bound the name
again (`Rebound`). For `OwnOutput` what `Captured` says of the whole capture (`Mirrors`) is carried
over to its first characters. `Vetted` is what the parent guarantees.

### The session

`IInv` (module `SessionInv`) says what a run has done by each of its points whatever earlier
runs left: `Stages` (what drives the run is there), `InProgress` (the turn in progress is at the
end of the chat and then of the history), `Bounded`, `Emptied` (the history is empty before the
chat is), `About` (without a cut, the history is about the dataset except between two writes).
`HistoryShown` is part of the invariant: that the history is what the chat shows, in its order,
must survive trimming, cuts and loads at once, and the lemmas at the head of the module say what
an entry at the end, and the removal of the oldest, do to that relation.

`TurnsRecorded` has the hypothesis `HistoryTurns # 0`. For 0 the property is false, because
`history[-0:]` keeps everything and the history outgrows its limit; this is one of the
deviations above.

### The demo and the benchmark

`IInv` (module `DemoChatInv`) says that no turn of the history is a blank answer (`Remembered`),
that a prompt opens and ends with the user, and the first one of a question with that question
(`Prompted`), that what runs is what was chosen for the prompt and the name of the dataset
(`Chosen`), and that this name is that of the frame but for loads that are or were cut between the
two (`Named`). The rest is about the operators.

* `SentAlternates`: one message keeps the merged ones alternating and adds its words after theirs,
  or is dropped (`MergedStep`). The merged messages are a recursive function, and that each of its
  values has the property is a least counterexample (`ChainAlternates`, `ChainWords`).
* `OwnRecording`: a turn of the user that is open when the prompt comes has nothing but the
  questions since the last answer (`ChainUnmarked`, where it matters that no answer is blank), so
  the first "Question:" of what is sent is that of the prompt and what follows it is the question
  (`AfterMark`, `QuestionFound`). Then `Match` decides.
* `NoConfusion`: `MatchNotConfused` says for any recordings that a question with exactly the words
  of one recorded question, in any order and repeated or not, is answered by that recording, if no
  other in scope has the same words. A set of other words has a smaller overlap, by the cardinality
  of a proper subset, and never ties.

Both have the hypothesis `PlainlyAsked`. A repair prompt has no question in its last user turn, so
the text of the error is looked up (see `demo_refusal`), and a cut question that itself contains
"Question:" is merged with the next prompt, which then hands all that follows that word to `Match`.

`CodeOnItsDataset` rests on the scope of the search (`CompleteRecorded`) and on `Named`: neither
frame nor name changes under a question. `LivePage` rests on a comparison of the three places that
decide about a provider, over every environment.

`ExitTruthful` of the benchmark needs `Complete` (how many tasks each report has run by each
point of `main`), `Written` (what the files hold, in the order they are written) and `Owned`
(the worker is there only while `main` is). `FixtureVerified` needs `Recorded`: what a report
keeps of its answers is right, and nothing else gets into the file, whole or cut. `FirstOwns` is
about how the file is made. That every key has a first recording is a least counterexample in the
order of the reports (`Earliest`); that `Entries` names each kept recording once, in order,
follows from the number of recordings that precede each: these numbers are distinct and below
the size of the set, so every place of the file has its recording (`Ranked`, `EntriesRanked`). `TablesAgree` is about
sums over sets: that there is one way to add up is a least counterexample in the size of the set
(`SummedOnce`), and counting the runs with a key in a set is such a way (`CountedOnce`).

### Ingestion

`IInv` (module `IngestInv`) says that the columns are what pandas and then the code make of the
header, so the properties are facts about `DedupeColumns`: the first column of a name keeps it;
of two others, either the names differ, or the later one has more of its name before it and so a
larger number (`BeforePlaces`, `DedupedApart`). That the names pandas gives are names at all needs
that there is always a free number (`FreeName`, one more number than names) and that they are
well defined one after the other (`MangledNames`, by a least counterexample). Names that are
apart select one column each, in the frame and in a dictionary made from it (`ApartNames`).

### Only model-checked

Liveness (`EveryCallReturns`, `OrphanExits`, `EveryQuestionEnds`, `RunsSettle`), which is outside
what the prover can do. The library's induction theorems are out of its reach too; where a proof
above needs an induction over data, it is a least counterexample among the natural numbers.

## Plan

Done: all components with their runs; the refinement of the executor's service and every safety
property the runs check, proved. Next: theorems about what the deviations leave true, in
particular which columns stay apart when a file has a clash of numbered names, and what of
`ContextOfDataset` survives a cut run.

## Not modelled

* The bytes of a frame and the JSON of a result (`protocol.py`): the pipes carry whole messages.
  A frame cut by a kill reads as the end of the stream at both ends, which the models have.
* A call of a provider over the network and the classification of its errors: outcomes of a call
  in `Agent`. A price is a factor of the tokens counted there.
* The process-wide cache of provider objects: two threads may build the same client twice,
  and either is usable.
* `DemoChat` and `Agent` share the agent's loop in two abstractions: `Agent` has what the
  sandbox and the API may do, `DemoChat` what the messages say. `Session` and `Agent` are not
  composed: a question whose run was cut goes on holding the sandbox, and nothing in the code
  bounds that.
* Parsing of environment variables, prompts, logging, rendering, CSS, the table of benchmark
  tasks with their reference programs, and the generator of the sample files: text and data.
