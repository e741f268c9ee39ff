----------------------------- MODULE DemoChatMC -----------------------------
(***************************************************************************)
(* Instances of DemoChat for TLC: two samples with questions that share     *)
(* words, a file of the user's with the name of a sample and one without,   *)
(* recorded questions and rewordings of them.                               *)
(***************************************************************************)
EXTENDS DemoChatInv, TLC

CONSTANTS orders, churn, copy, own

\* The demo reads nothing of the environment: one for each name is enough.
MCStarted == {e \in Environments : DemoMode(e) => e.groq /\ ~e.boto3 /\ ~e.aws}

MCFiles == {orders, churn, copy, own}

MCStem == (orders :> "orders") @@ (churn :> "churn") @@ (copy :> "orders") @@ (own :> "own")

Total == <<"total", "sales", "?">>
Region == <<"total", "sales", "by", "region">>
Rate == <<"churn", "rate", "?">>

Rec(dataset, question, reply) == [dataset |-> dataset, question |-> question, reply |-> reply]

MCRecordings ==
    <<Rec("churn", Rate, <<"code1">>), Rec("orders", Total, <<"code2">>),
      Rec("orders", Region, <<"code3">>)>>

MCTexts ==
    {Total, Region, Rate, <<"TOTAL", "sales">>, <<"total", "sales", "please">>,
     <<"sales">>, <<"?">>, <<"sales", "by", "region", "total">>, <<"Question:", "total", "sales">>}

Plain == {"total", "sales", "by", "region", "churn", "rate", "please", "columns", "failed",
          "answer", "example", "code", "code1", "code2", "code3", "dataset", "question"}

MCSpoken ==
    [w \in Plain |-> <<w>>] @@ ("?" :> <<>>) @@ ("TOTAL" :> <<"total">>)
    @@ ("Question:" :> <<"question">>) @@ ("Dataset:" :> <<"dataset">>)

MCFewShot == <<Turn("user", <<"example">>), Turn("assistant", <<"code">>)>>
=============================================================================
