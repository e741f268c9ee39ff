---------------------------- MODULE BenchmarkMC -----------------------------
(***************************************************************************)
(* Instances of Benchmark for TLC: a chart task and one that is not.        *)
(***************************************************************************)
EXTENDS BenchmarkInv

MCTasks ==
    <<[id |-> 2, dataset |-> "orders", question |-> "total", category |-> "aggregation",
       chart |-> FALSE],
      [id |-> 1, dataset |-> "churn", question |-> "plot", category |-> "chart",
       chart |-> TRUE]>>

MCSpecs == <<"groq", "bedrock">>
=============================================================================
