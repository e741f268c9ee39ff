------------------------------ MODULE Validator -----------------------------
(***************************************************************************)
(* validate_code (src/src/sandbox/validator.py), which the parent applies   *)
(* to generated code before a job is sent, as operators on abstract code.   *)
(*                                                                          *)
(* A node is a pair <<class, what>>: its class in the syntax tree and the   *)
(* group of names, or the form, that the visitor tells apart.  A piece of   *)
(* code is a record: its length, whether it parses, the nodes of its top    *)
(* level and the nodes inside the body of run, in order.                     *)
(***************************************************************************)
EXTENDS Integers, Sequences, SequencesExt

CONSTANT MaxCodeChars

ASSUME LimitIsNatural == MaxCodeChars \in Nat

\* FORBIDDEN_MODULE_ATTRS and FORBIDDEN_ATTRIBUTES, and double underscores.
ForbiddenAttributes == {"dunder", "module", "io"}

\* FORBIDDEN_BUILTINS, and double underscores.
ForbiddenNames == {"dunder", "forbidden"}

\* ALLOWED_IMPORT_ROOTS, the roots generated code may import from.  The second
\* form is an import from such a root that gives what it imports the name run.
AllowedRoots == {"allowed", "allowed as run"}

VisitAttribute(what) == what \in ForbiddenAttributes

VisitName(what) == what \in ForbiddenNames

VisitImport(root) == root \notin AllowedRoots

\* The last branch of the visitor, neither a level nor a module, is not syntax.
VisitImportFrom(root) == root = "relative" \/ root \notin AllowedRoots

\* A violation of the policy: the visitor looks at every node, however deep.
Flagged(node) ==
    \/ node[1] = "Attribute" /\ VisitAttribute(node[2])
    \/ node[1] = "Name" /\ VisitName(node[2])
    \/ node[1] = "Import" /\ VisitImport(node[2])
    \/ node[1] = "ImportFrom" /\ VisitImportFrom(node[2])
    \/ node[1] \in {"AsyncFunctionDef", "ClassDef"}

\* Mutant: the whole tree is walked for a definition of run.
DefinesRun_Anywhere(node) == node[1] \in {"FunctionDef", "If"}

\* A definition of run that counts: a plain one at the top level.
DefinesRun(node) == node[1] = "FunctionDef"

\* The first one is looked at; 0 when there is none.
FindRunFunction(top) == SelectInSeq(top, DefinesRun)

\* `args.args` is empty for run(), run(*args) and run(df, /).  Decorators and
\* further arguments are not looked at.
TakesDf(node) == node[2] \notin {"noargs", "starargs"}

Walk(code) == ToSet(code.top) \cup ToSet(code.body)

\* What validate_code says: "ok" or why it raised.
Validate(code) ==
    LET run == FindRunFunction(code.top) IN
    IF code.chars = 0 THEN "empty"
    ELSE IF code.chars > MaxCodeChars THEN "long"
    ELSE IF ~code.parses THEN "syntax"
    ELSE IF \E node \in Walk(code) : Flagged(node) THEN "policy"
    ELSE IF run = 0 THEN "norun"
    ELSE IF ~TakesDf(code.top[run]) THEN "noargument"
    ELSE "ok"
=============================================================================
