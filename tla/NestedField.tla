---------------------------- MODULE NestedField ----------------------------
(***************************************************************************)
(* What a nested field promises, with no gathering and no branches: one    *)
(* column for each column the struct declares, in that order and of that   *)
(* dtype, with one cell per leaf element, null where the element is absent *)
(* and otherwise the cell the struct's own frame has for it; or an error,  *)
(* for which the struct's own code or the index range is the reason.       *)
(***************************************************************************)
EXTENDS Integers, Sequences, FiniteSets

CONSTANTS None, Failed, Inputs, Frames, Schemas, Unlisted, Unfillable,
          OutputName, MaxIdx,
          Gathered, Listed   (* The field has optional leaves; has lists.  *)

VARIABLES leaves, status, df, entries, columns

vars == <<leaves, status, df, entries, columns>>

(* The rank of leaf i among the leaves that are present, and those leaves. *)
PresentTo(i) == {j \in 1 .. i : leaves[j] # None}

Rank(i) == Cardinality(PresentTo(i))

Present ==
  [r \in 1 .. Rank(Len(leaves)) |->
     leaves[CHOOSE i \in DOMAIN leaves : leaves[i] # None /\ Rank(i) = r]]

Needed == PresentTo(Len(leaves)) # {}

Conforming(f) == f # Failed /\ f.height = Rank(Len(leaves))

Kept(e) ==
  /\ Needed => e.name \in DOMAIN df.columns /\ df.columns[e.name].dtype = e.dtype
  /\ Listed => e.dtype \notin Unlisted
  /\ Gathered /\ leaves # <<>> /\ ~Needed => e.dtype \notin Unfillable

ColumnOf(e) ==
  [name |-> OutputName[e.name], dtype |-> e.dtype,
   cells |-> [i \in DOMAIN leaves |->
                IF leaves[i] = None THEN None ELSE df.columns[e.name].cells[Rank(i)]]]

Init ==
  /\ leaves \in Inputs
  /\ status = "building" /\ df = Failed /\ entries = <<>> /\ columns = <<>>

UseFrame ==
  /\ status = "building" /\ Needed
  /\ \E f \in Frames[Present] : Conforming(f) /\ df' = f
  /\ status' = "framed"
  /\ UNCHANGED <<leaves, entries, columns>>

UseSchema ==
  /\ status = IF Needed THEN "framed" ELSE "building"
  /\ entries' \in Schemas \ {Failed}
  /\ status' = "declared"
  /\ UNCHANGED <<leaves, df, columns>>

AddColumn ==
  LET e == entries[Len(columns) + 1] IN
  /\ status = "declared" /\ Len(columns) < Len(entries)
  /\ Kept(e)
  /\ columns' = Append(columns, ColumnOf(e))
  /\ UNCHANGED <<leaves, status, df, entries>>

(* An error has one of these reasons.                                      *)
Excused ==
  \/ status = "building" /\ Gathered /\ Rank(Len(leaves)) > MaxIdx + 1
  \/ status = "building" /\ Needed /\ \E f \in Frames[Present] : ~Conforming(f)
  \/ status = (IF Needed THEN "framed" ELSE "building") /\ Failed \in Schemas
  \/ status = "declared" /\ Len(columns) < Len(entries) /\ ~Kept(entries[Len(columns) + 1])

Reject ==
  /\ Excused
  /\ status' = "rejected"
  /\ UNCHANGED <<leaves, df, entries, columns>>

Complete ==
  /\ status = "declared" /\ Len(columns) = Len(entries)
  /\ status' = "complete"
  /\ UNCHANGED <<leaves, df, entries, columns>>

Next == UseFrame \/ UseSchema \/ AddColumn \/ Reject \/ Complete

Spec == Init /\ [][Next]_vars
=============================================================================
