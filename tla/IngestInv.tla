------------------------------ MODULE IngestInv ------------------------------
(***************************************************************************)
(* The inductive invariant of Ingest: what has been made of the header, and *)
(* what of that has been told, by each step of a file.                      *)
(***************************************************************************)
EXTENDS Ingest

\* What pandas makes of the header, and what the code makes of that.
Given == Stripped(Mangle(file.header))

Loaded == {"loaded", "shown", "asked", "crashed"}

HeaderIsNames ==
    /\ pc \in {"upload", "decode", "parse", "refused"} \cup Loaded
    /\ file.header \in Seq(Seq(Pieces))

Named ==
    /\ pc = "parse" => columns = Mangle(file.header)
    /\ pc \in Loaded => columns = DedupeColumns(Given)

Summarised ==
    summary # None =>
        /\ pc \in Loaded
        /\ summary = [nulls |-> ByName(columns, Nulls(columns)), columns |-> columns,
                      total |-> Sum(Nulls(columns))]

Described ==
    /\ context # None =>
        /\ pc \in Loaded
        /\ context = [listed |-> Listed(columns), more |-> Max({Len(columns) - MaxListed, 0})]
    /\ pc = "crashed" => \E name \in ToSet(Listed(columns)) : ~Selects(columns, name)

IInv == HeaderIsNames /\ Named /\ Summarised /\ Described
=============================================================================
