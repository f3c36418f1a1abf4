------------------------------- MODULE SqlTools -------------------------------
(***************************************************************************)
(* What the code makes of the answers of Wren's two tools: wren_dry_plan   *)
(* checks a statement, wren_query runs it.  Both answer with an envelope,  *)
(* or raise; a failure becomes a result the graph can go on with - unless  *)
(* its message is empty, or a column has no name: pydantic refuses the     *)
(* result, and the node raises.                                            *)
(***************************************************************************)
EXTENDS Integers

CONSTANT
    MaxRows     \* bound: rows of an answer (max_rows, 100, in the code)

ASSUME ToolsAssumption == MaxRows \in Nat

Raised == "raised"

-----------------------------------------------------------------------------
(* wren_dry_plan.                                                          *)

\* The tool is missing, raises or answers with something else than an object;
\* raises without a word; says ok = False; gives no dialect_sql; or gives it.
DryPlanAnswers == {"fails", "fails_silently", "refused", "no_dialect_sql", "planned"}

\* Only a dry plan that comes with the SQL of the dialect passes.
ValidateSqlSync(answer, attempt, attempts) ==
    IF answer = "planned" THEN "passed"
    ELSE IF answer = "fails_silently" THEN Raised
    ELSE IF attempt >= attempts THEN "failed" ELSE "needs_repair"

-----------------------------------------------------------------------------
(* wren_query.                                                             *)

\* rows is the length of the list the tool sends, objects how many of them are.
\* An answer without ok, data or rows is an empty data set.
DataSets ==
    {d \in [kind : {"data"}, rows : 0..MaxRows, objects : 0..MaxRows, named : BOOLEAN] :
        d.objects <= d.rows}

QueryAnswers ==
    [kind : {"fails", "fails_silently", "not_object", "refused"}] \cup DataSets

NoRows(status) == [status |-> status, rows |-> 0]

\* No rows of a failed query are kept; a row that is not an object is dropped.
ExecuteSqlSync(answer) ==
    IF answer.kind = "data" /\ answer.named
    THEN [status |-> "succeeded", rows |-> answer.objects]
    ELSE IF answer.kind \in {"data", "fails_silently"} THEN NoRows(Raised)
    ELSE NoRows("failed")
=============================================================================
