---------------------------- MODULE BenchmarkInv ----------------------------
(***************************************************************************)
(* The inductive invariant behind Benchmark's exit code: how many tasks each*)
(* report has run by each point of main, and what the files hold by then.   *)
(***************************************************************************)
EXTENDS Benchmark

TaskRuns == [task : ToSet(Tasks), outcome : OutcomeNames, repaired : BOOLEAN]

Reports == [model : Names \cup {"other", "reference"}, runs : Seq(TaskRuns),
            recordings : Seq([task : ToSet(Tasks), text : {"none", "right", "wrong", "odd"},
                              figure : BOOLEAN])]

TypeOK ==
    /\ env \in Environments /\ args \in Args
    /\ pc \in {"start", "verify", "construct", "tasks", "open", "csv", "md", "record",
               "fixture", "ended"}
    /\ spec \in Nat \ {0} /\ task \in Nat \ {0}
    /\ reports \in Seq(Reports)
    /\ worker \in BOOLEAN /\ exit \in {None, 0, 1}

Ran(i, n) == Len(reports[i].runs) = n

\* Every model that was constructed has run every task, but the one at hand.
Complete ==
    /\ pc \in {"verify", "tasks"} => task <= Len(Selected) + 1
    /\ pc = "start" => reports = <<>> /\ task = 1
    /\ pc = "verify" =>
        /\ args.verify
        /\ Len(reports) <= 1 /\ \A i \in DOMAIN reports : Ran(i, task - 1)
        /\ reports = <<>> => task = 1
    /\ pc \in {"construct", "tasks", "open", "csv", "md", "record", "fixture"} => ~args.verify
    /\ pc \in {"construct", "open", "csv", "md", "record", "fixture"} =>
        \A i \in DOMAIN reports : Ran(i, Len(Selected))
    /\ pc = "tasks" =>
        /\ reports # <<>> /\ Ran(Len(reports), task - 1)
        /\ \A i \in 1..Len(reports) - 1 : Ran(i, Len(Selected))
    /\ pc \in {"open", "csv", "md", "record", "fixture"} => reports # <<>>

\* What the files hold, in the order they are written.
Written ==
    /\ pc \in {"start", "verify", "construct", "tasks", "open"} => csv = "old"
    /\ pc \in {"open", "csv", "md"} => args.write
    /\ pc = "md" => csv = "new"
    /\ pc \in {"start", "verify", "construct", "tasks", "open", "csv", "md"} => md = "old"
    /\ pc \in {"record", "fixture"} =>
        csv = (IF args.write THEN "new" ELSE "old") /\ md = csv
    /\ pc \notin {"fixture", "ended"} => fixture.state = "old"
    /\ pc = "fixture" => args.record

\* The worker is there only while main is.
Owned ==
    /\ pc \in {"start", "ended"} => ~worker
    /\ exit = None <=> pc # "ended"

\* Of an answer only what the check of its task held for is recorded.
Right(e) == IF e.task.chart THEN e.figure ELSE e.text = "right"

Recorded == \A m \in DOMAIN reports : \A e \in ToSet(reports[m].recordings) : Right(e)

IInv ==
    /\ TypeOK /\ Complete /\ Written /\ Owned /\ Recorded
    /\ ExitTruthful /\ FixtureVerified /\ FirstOwns
=============================================================================
