------------------------------- MODULE Ingest -------------------------------
(***************************************************************************)
(* How a file becomes a dataset the page can show and the model can be      *)
(* asked about: parse_csv_bytes, compute_data_summary                       *)
(* (src/src/session_manager.py) and build_data_context                      *)
(* (src/src/agent/agent.py).                                                *)
(*                                                                          *)
(* The text of a file is abstracted to what the checks tell apart, a column *)
(* name to a sequence of pieces: letters, a space, a number with its dot.   *)
(***************************************************************************)
EXTENDS Integers, Sequences, SequencesExt, FiniteSets

CONSTANTS
    Letters,        \* what names are made of, besides spaces and numbers
    Headers,        \* the header lines files may have
    MaxMb,          \* settings.data.max_upload_mb
    MaxRows,        \* settings.data.max_rows
    MaxListed,      \* _MAX_SAMPLE_COLS
    None

\* A letter or a space is a piece with the number 0, ".k" one with the number k.
Pieces == (Letters \cup {" ", "."}) \X Nat

Letter(char) == <<char, 0>>

Space == Letter(" ")

Dot(k) == <<".", k>>

ASSUME HeadersAreNames == Headers # {} /\ Headers \subseteq Seq(Seq(Pieces)) \ {<<>>}

ASSUME MaxListedIsNat == MaxListed \in Nat

VARIABLES
    pc,         \* the step the file has come to
    file,       \* the file: its size, bytes, text, rows, header
    text,       \* the decoded text
    rows,       \* rows of the frame
    columns,    \* names of its columns
    error,      \* why the load was refused
    summary,    \* compute_data_summary
    context     \* build_data_context

vars == <<pc, file, text, rows, columns, error, summary, context>>

Encodings == <<"utf-8", "utf-8-sig", "latin-1", "cp1252">>

Texts == {"blank", "nul", "control", "table"}

\* The header of a file in which something else matters.
Plain == CHOOSE header \in Headers : TRUE

\* A file that gets as far as a frame differs in the frame, the others need not.
Files ==
    [mb : 0..MaxMb + 1, bytes : {"utf8", "high"}, text : Texts, parses : {"frame"},
     rows : {1}, header : {Plain}]
    \cup [mb : {1}, bytes : {"utf8"}, text : {"table"},
          parses : {"no columns", "ragged", "other"}, rows : {1}, header : {Plain}]
    \cup [mb : {1}, bytes : {"high"}, text : {"table"}, parses : {"frame"},
          rows : 0..MaxRows + 1, header : Headers]

Init ==
    /\ pc = "upload" /\ file \in Files
    /\ text = None /\ rows = 0 /\ columns = <<>> /\ error = None
    /\ summary = None /\ context = None

-----------------------------------------------------------------------------
(* Operators                                                               *)

\* latin-1 takes any bytes: what is listed after it is never tried.
Accepts(encoding, bytes) == bytes = "utf8" \/ encoding = "latin-1"

Decode(f) == [encoding |-> SelectInSeq(Encodings, LAMBDA e : Accepts(e, f.bytes)), says |-> f.text]

LooksBinary(t) == t.says \in {"nul", "control"}

Numbered(name, k) == Append(name, Dot(k))

\* A name with the first number that is free.
Free(name, taken) ==
    Numbered(name, Min({ k \in 1..Cardinality(taken) + 1 : Numbered(name, k) \notin taken }))

\* pandas makes the names of a header distinct, before any space is stripped.
Mangle(header) ==
    LET names[i \in DOMAIN header] ==
            LET given == { names[j] : j \in 1..i - 1 }
            IN  IF header[i] \notin given THEN header[i]
                ELSE Free(header[i], given \cup ToSet(header))
    IN  names

Strip(name) ==
    LET solid == { i \in DOMAIN name : name[i] # Space }
    IN  IF solid = {} THEN <<>> ELSE SubSeq(name, Min(solid), Max(solid))

Stripped(header) == [i \in DOMAIN header |-> Strip(header[i])]

Before(names, i) == { j \in 1..i - 1 : names[j] = names[i] }

\* Mutant: every further column of a name gets the same number.
DedupeColumns_One(names) ==
    [i \in DOMAIN names |-> IF Before(names, i) = {} THEN names[i] ELSE Numbered(names[i], 1)]

\* The k-th further column of a name gets the number k.
DedupeColumns(names) ==
    [i \in DOMAIN names |->
        IF Before(names, i) = {} THEN names[i]
        ELSE Numbered(names[i], Cardinality(Before(names, i)))]

\* A dictionary by column name: of columns with one name the last one counts.
ByName(names, values) ==
    [name \in ToSet(names) |-> values[SelectLastInSeq(names, LAMBDA n : n = name)]]

\* Null counts of the columns of a frame, in their order.
Nulls(names) == [i \in DOMAIN names |-> 2 ^ i]

Sum(values) == FoldLeft(+, 0, values)

\* Mutant: a cap that drops the last column it should list.
Listed_Short(names) == SubSeq(names, 1, Min({Len(names), MaxListed}) - 1)

\* The columns the model is told about.
Listed(names) == SubSeq(names, 1, Min({Len(names), MaxListed}))

\* df[name] is a frame, which has no dtype, when two columns have the name.
Selects(names, name) == Cardinality({ i \in DOMAIN names : names[i] = name }) = 1

-----------------------------------------------------------------------------
(* parse_csv_bytes                                                         *)

Goto(from, to) == pc = from /\ pc' = to

\* DataLoadError, which the page shows.
Refuse(why) ==
    /\ pc' = "refused" /\ error' = why
    /\ UNCHANGED <<file, text, rows, columns, summary, context>>

RefuseBytes ==
    /\ pc = "upload"
    /\ \/ file.mb = 0 /\ Refuse("empty")
       \/ file.mb > MaxMb /\ Refuse("size")

DecodeBytes ==
    /\ Goto("upload", "decode") /\ file.mb \in 1..MaxMb
    /\ text' = Decode(file)
    /\ UNCHANGED <<file, rows, columns, error, summary, context>>

RefuseText ==
    /\ pc = "decode"
    /\ \/ text.says = "blank" /\ Refuse("blank")
       \/ LooksBinary(text) /\ Refuse("binary")

\* The delimiter is sniffed, or a comma; pandas reads at most MaxRows rows.
ReadCsv ==
    /\ Goto("decode", "parse") /\ text.says = "table" /\ file.parses = "frame"
    /\ rows' = Min({file.rows, MaxRows})
    /\ columns' = Mangle(file.header)
    /\ UNCHANGED <<file, text, error, summary, context>>

ReadCsvFails ==
    /\ pc = "decode" /\ text.says = "table" /\ file.parses # "frame"
    /\ Refuse(file.parses)

RefuseFrame == pc = "parse" /\ rows = 0 /\ Refuse("no rows")

NameColumns ==
    /\ Goto("parse", "loaded") /\ rows > 0
    /\ columns' = DedupeColumns(Stripped(columns))
    /\ UNCHANGED <<file, text, rows, error, summary, context>>

-----------------------------------------------------------------------------
(* The page                                                                *)

Summarise ==
    /\ Goto("loaded", "shown")
    /\ summary' = [nulls |-> ByName(columns, Nulls(columns)), columns |-> columns,
                   total |-> Sum(Nulls(columns))]
    /\ UNCHANGED <<file, text, rows, columns, error, context>>

BuildContext ==
    /\ Goto("shown", "asked")
    /\ \A name \in ToSet(Listed(columns)) : Selects(columns, name)
    /\ context' = [listed |-> Listed(columns), more |-> Max({Len(columns) - MaxListed, 0})]
    /\ UNCHANGED <<file, text, rows, columns, error, summary>>

\* The AttributeError is not caught: the question takes down the page.
ContextRaises ==
    /\ Goto("shown", "crashed")
    /\ \E name \in ToSet(Listed(columns)) : ~Selects(columns, name)
    /\ UNCHANGED <<file, text, rows, columns, error, summary, context>>

Next ==
    \/ RefuseBytes \/ DecodeBytes \/ RefuseText \/ ReadCsv \/ ReadCsvFails \/ RefuseFrame
    \/ NameColumns \/ Summarise \/ BuildContext \/ ContextRaises

Spec == Init /\ [][Next]_vars

-----------------------------------------------------------------------------
(* Properties                                                              *)

\* A numbered name is that of another column: the user's own "a.1", or the one
\* pandas made when the header has "a", " a" and "a" again.
Clash(names) ==
    \E i, j \in DOMAIN names, k \in 1..Len(names) - 1 :
        Before(names, i) # {} /\ names[j] = Numbered(names[i], k)

\* "Duplicates make df['col'] return a DataFrame instead of a Series, which breaks
\* generated code in confusing ways" (session_manager.py lines 86-87): unless
\* numbered names clash, a loaded frame has every column of the file, in order,
\* each with a name of its own, and the first of a name can be asked for by it.
ColumnsFaithful ==
    LET given == Stripped(Mangle(file.header)) IN
    pc \in {"loaded", "shown", "asked", "crashed"} =>
        /\ Len(columns) = Len(given)
        /\ \A i \in DOMAIN given : Before(given, i) = {} => columns[i] = given[i]
        /\ ~Clash(given) => Cardinality(ToSet(columns)) = Len(columns)

\* Unless names clash, the page shows each column its own count of missing values,
\* the counts add up to the total, and any question finds the context: every
\* column is in it by name or in the number of further ones, as many as the cap
\* allows by name (session_manager.py lines 156-194, agent.py lines 79-115).
ToldTruly ==
    ~Clash(Stripped(Mangle(file.header))) =>
        /\ summary # None =>
              LET panel == [i \in DOMAIN columns |-> summary.nulls[columns[i]]]
              IN  panel = Nulls(columns) /\ Sum(panel) = summary.total
        /\ context # None =>
              /\ Len(context.listed) + context.more = Len(columns)
              /\ context.more > 0 => Len(context.listed) = MaxListed
        /\ pc # "crashed"

\* "Make column names unique" (session_manager.py line 84).
UniqueColumns == pc = "loaded" => Cardinality(ToSet(columns)) = Len(columns)
=============================================================================
