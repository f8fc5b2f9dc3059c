------------------------- MODULE ColumnarFrameTable -------------------------
(* ColumnarFrame as an implementation of DeclaredTable.                    *)
EXTENDS ColumnarFrame

Status ==
  CASE phase \in {"called", "shape", "rows", "build"} -> "building"
    [] phase = "done"  -> "complete"
    [] phase = "error" -> "refused"
    [] phase = "panic" -> "aborted"

Table == INSTANCE DeclaredTable WITH status <- Status

(* However a column is built, in the loop over all items, in one of its    *)
(* own or by a builder, the answer of every entry point is DeclaredTable's *)
(* and there is an error only with a reason.                               *)
ImplementsTable == Table!Spec
=============================================================================
