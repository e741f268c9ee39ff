---------------------------- MODULE WarmWorkerMC ----------------------------
(***************************************************************************)
(* Instances of WarmWorker for TLC: all code of up to two nodes at the top  *)
(* level with a few bodies, and code at the limits of the validator.        *)
(***************************************************************************)
EXTENDS WarmWorkerInv

Calls == {"print", "figure", "style", "raise"}

Nodes ==
    ({"Attribute"} \X {"dunder", "module", "io", "plain"})
    \cup ({"Name"} \X {"dunder", "forbidden", "safe", "unlisted"})
    \cup ({"Import", "ImportFrom"} \X {"allowed", "allowed as run", "other", "relative"})
    \cup ({"FunctionDef"} \X {"df", "noargs", "starargs", "decorated", "more"})
    \cup ({"Assign", "Delete", "If", "For", "AsyncFunctionDef"} \X {"run"})
    \cup ({"Call"} \X (Calls \cup {"global"}))
    \cup {<<"ClassDef", "any">>}

Bodies ==
    {<<>>, <<<<"Attribute", "dunder">>>>, <<<<"Name", "unlisted">>>>,
     <<<<"Import", "other">>>>, <<<<"Call", "figure">>, <<"Call", "raise">>>>}
    \cup { <<<<"Call", call>>>> : call \in Calls }

CodesDef ==
    [chars : {1}, parses : {TRUE}, body : Bodies,
     top : TupleOf(Nodes, 1) \cup TupleOf(Nodes, 2)]
    \cup [chars : {0, MaxCodeChars, MaxCodeChars + 1}, parses : BOOLEAN, body : {<<>>},
          top : {<<<<"FunctionDef", "df">>>>}]
=============================================================================
