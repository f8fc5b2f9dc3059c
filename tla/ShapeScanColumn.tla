-------------------------- MODULE ShapeScanColumn --------------------------
(***************************************************************************)
(* The buffers of ShapeScan read back as Arrow reads them, and ShapeScan   *)
(* as an implementation of ListColumn under that reading.                  *)
(***************************************************************************)
EXTENDS ShapeScan

LeafNull(i) == InnerOption /\ LeafKind # "nested" /\ ~valid[i]

(* Series::take with an index past the end returns an error.               *)
Taken(p) == IF p = None THEN None
               ELSE IF p + 1 \in DOMAIN flat THEN flat[p + 1] ELSE Failed

LeafAt(i) ==
  IF LeafNull(i) THEN None
  ELSE CASE LeafKind = "bool" -> bits[i]
         [] LeafKind = "nested" /\ InnerOption -> Taken(positions[i])
         [] OTHER -> flat[i]

LeavesRead == [i \in 1 .. LeafEntries |-> LeafAt(i)]

(* Lists[l]: the lists of layer l whose end offset has been pushed.        *)
ListsRead[l \in Loops] ==
  IF l = Leaf THEN LeavesRead
  ELSE LET child == ListsRead[l + 1] IN
       [r \in 1 .. Len(offsets[l]) - 1 |->
          IF Optional(l) /\ ~validity[l][r] THEN None
          ELSE SubSeq(child, offsets[l][r] + 1, offsets[l][r + 1])]

RowsRead == IF phase = "precount" THEN <<>> ELSE ListsRead[1]

Status ==
  CASE phase = "done"  -> "complete"
    [] phase = "error" -> "rejected"
    [] phase = "panic" -> "aborted"
    [] OTHER           -> "building"

Column == INSTANCE ListColumn
  WITH status <- Status, rows <- RowsRead,
       Gathered <- LeafKind = "nested" /\ InnerOption

(* The two loops over raw buffers are a ListColumn: rows appear one per    *)
(* item, in order, each with the item's own lists, nulls and values, and   *)
(* the only way not to end with all rows is an error that the items        *)
(* themselves justify.                                                     *)
ImplementsListColumn == Column!Spec
=============================================================================
