------------------------- MODULE NestedColumnsField -------------------------
(* NestedColumns as an implementation of NestedField.                      *)
EXTENDS NestedColumns

Status ==
  CASE phase = "collect" \/ phase = "frame"     -> "building"
    [] phase = "schema" -> IF df = Failed THEN "building" ELSE "framed"
    [] phase = "consume" -> "declared"
    [] phase = "done"  -> "complete"
    [] phase = "error" -> "rejected"
    [] phase = "panic" -> "aborted"

Field == INSTANCE NestedField
  WITH status <- Status, Gathered <- HasPositions

(* Whichever branch the dispatch takes, and whatever the struct's own      *)
(* traits return, the field's columns are those of NestedField: one per    *)
(* declared column, each cell the one its own leaf element refers to, and  *)
(* errors only with a reason.                                              *)
ImplementsNestedField == Field!Spec
=============================================================================
