--------------------------- MODULE NestedColumns ---------------------------
(***************************************************************************)
(* How a field whose leaf is another struct becomes columns.  References   *)
(* to the structs that are present are collected into `flat`; the struct's *)
(* own `columnar_from_refs` turns them into a frame; and each column its   *)
(* `schema` declares is taken from that frame, gathered back to the        *)
(* leaf elements of the field, wrapped into its lists and pushed.          *)
(*                                                                         *)
(* The struct's traits may be written by hand: frame and schema are any of *)
(* Frames and Schemas, and need not agree with each other.                 *)
(***************************************************************************)
EXTENDS Integers, Sequences

CONSTANTS
  Shape,         (* The wrappers of the field, see Shapes.                 *)
  Structs,       (* The struct values a leaf element can refer to.         *)
  None,          (* An absent leaf element, or a null cell.                *)
  Failed,        (* An error returned by the struct's own code.            *)
  Inputs,        (* The leaf elements of the field, over all items.        *)
  Frames,        (* What columnar_from_refs may return, given `flat`.      *)
  Schemas,       (* What schema may return.                                *)
  Names, Dtypes, Cells,
  Unlisted,      (* Dtypes whose chunks cannot be a list's child.          *)
  Unfillable,    (* Dtypes that extend_constant makes no nulls of.         *)
  OutputName,    (* OutputName[n]: the pushed name of inner column n.      *)
  MaxIdx         (* The largest gather index, IdxSize::MAX.                *)

(* T, Option<T>, lists of T, and lists of Option<T>. Which lists does not  *)
(* matter here, only that their last offset is the number of elements.     *)
Shapes == {"leafBare", "leafOptional", "vec", "vecInnerOption"}

HasPositions == Shape \in {"leafOptional", "vecInnerOption"}
Listed       == Shape \in {"vec", "vecInnerOption"}

Entry  == [name : Names, dtype : Dtypes]
Column == [name : Names, dtype : Dtypes, cells : Seq(Cells \union {None})]
(* A frame: columns, found by name, of one height.                         *)
IsFrame(f) ==
  /\ f.height \in Nat
  /\ \A n \in DOMAIN f.columns :
       /\ f.columns[n].dtype \in Dtypes
       /\ f.columns[n].cells \in Seq(Cells \union {None})
       /\ Len(f.columns[n].cells) = f.height

ASSUME ShapeAssumption  == Shape \in Shapes
ASSUME NoneAssumption   == None \notin Structs /\ None \notin Nat
(* The bare depth-0 field is only reached with at least one item: the      *)
(* caller returns before for an empty slice.                               *)
ASSUME InputAssumption  ==
  \A s \in Inputs :
    /\ s \in Seq(IF HasPositions THEN Structs \union {None} ELSE Structs)
    /\ Listed \/ s # <<>>
ASSUME ReplyAssumption  ==
  /\ \A s \in Inputs : \A n \in 0 .. Len(s) : [1 .. n -> Structs] \subseteq DOMAIN Frames
  /\ \A p \in DOMAIN Frames : \A f \in Frames[p] : f # Failed => IsFrame(f)
  /\ \A s \in Schemas : s # Failed => s \in Seq(Entry)
  /\ OutputName \in [Names -> Names]
ASSUME BoundAssumption  == MaxIdx \in Nat

VARIABLES
  leaves,     (* The leaf elements of the field.                           *)
  phase,      (* What the block is doing, or how it ended.                 *)
  flat,       (* References to the structs that are present.               *)
  positions,  (* For optional leaves: the index into flat, or None.        *)
  branch,     (* Which of the dispatched arms runs.                        *)
  df,         (* The struct's frame, Failed until there is one.            *)
  entries,    (* The declared columns.                                     *)
  columns     (* The columns pushed so far.                                *)

vars == <<leaves, phase, flat, positions, branch, df, entries, columns>>

Ended == {"done", "error", "panic"}

Fail(how) == phase' = how /\ UNCHANGED <<leaves, flat, positions, branch, df, entries, columns>>

-----------------------------------------------------------------------------
(* Collecting the references.                                              *)

Collected == IF HasPositions THEN Len(positions) ELSE Len(flat)

Collecting(v) ==
  phase = "collect" /\ Collected < Len(leaves) /\ v = leaves[Collected + 1]

CollectAbsentFlat ==
  /\ Collecting(None)
  /\ positions' = Append(positions, Len(flat)) /\ flat' = Append(flat, None)
  /\ UNCHANGED <<leaves, phase, branch, df, entries, columns>>

CollectAbsent ==
  /\ Collecting(None)
  /\ positions' = Append(positions, None)
  /\ UNCHANGED <<leaves, phase, flat, branch, df, entries, columns>>

CollectPresent ==
  \E v \in Structs :
    /\ Collecting(v)
    /\ HasPositions => Len(flat) <= MaxIdx
    /\ positions' = IF HasPositions THEN Append(positions, Len(flat)) ELSE positions
    /\ flat' = Append(flat, v)
    /\ UNCHANGED <<leaves, phase, branch, df, entries, columns>>

(* Flat has outgrown what a gather index can address.                      *)
CollectTooMany ==
  \E v \in Structs :
    Collecting(v) /\ HasPositions /\ Len(flat) > MaxIdx /\ Fail("error")

-----------------------------------------------------------------------------
(* nested_materialize_dispatch. The total is the precounted number of leaf *)
(* elements, or items.len() when there is no list.                         *)

TotalLen == Len(leaves)

BranchWithoutTotal ==
  CASE Shape = "leafBare" -> "direct"
    [] Shape # "leafBare" /\ flat = <<>> -> IF HasPositions THEN "allAbsent" ELSE "empty"
    [] Shape # "leafBare" /\ flat # <<>> -> "direct"

BranchFor ==
  CASE Shape = "leafBare" -> "direct"
    [] Shape = "vec" -> IF flat = <<>> THEN "empty" ELSE "direct"
    [] Shape = "vecInnerOption" /\ TotalLen = 0 -> "empty"
    [] OTHER -> IF flat = <<>> THEN "allAbsent"
                ELSE IF Len(flat) = TotalLen THEN "direct" ELSE "take"

Dispatch ==
  /\ phase = "collect" /\ Collected = Len(leaves)
  /\ branch' = BranchFor
  /\ phase' = IF BranchFor \in {"direct", "take"} THEN "frame" ELSE "schema"
  /\ UNCHANGED <<leaves, flat, positions, df, entries, columns>>

(* Columnar::columnar_from_refs, then validate_nested_frame.               *)
AnyFrame(f) == f # Failed

ValidFrame(f) == f # Failed /\ f.height = Len(flat)

BuildFrame ==
  /\ phase = "frame"
  /\ \E f \in Frames[flat] :
       \/ /\ ValidFrame(f)
          /\ phase' = "schema" /\ df' = f
          /\ UNCHANGED <<leaves, flat, positions, branch, entries, columns>>
       \/ ~ValidFrame(f) /\ Fail("error")

ReadSchema ==
  /\ phase = "schema"
  /\ \E s \in Schemas :
       \/ /\ s # Failed
          /\ phase' = "consume" /\ entries' = s
          /\ UNCHANGED <<leaves, flat, positions, branch, df, columns>>
       \/ s = Failed /\ Fail("error")

-----------------------------------------------------------------------------
(* consume_nested_columns: the loop over the declared columns.             *)

Nulls(n) == [i \in 1 .. n |-> None]

(* Series::take: out of bounds is an error.                                *)
Takeable(cells) ==
  \A i \in DOMAIN positions : positions[i] # None => positions[i] + 1 \in DOMAIN cells

Taken(cells) ==
  [i \in DOMAIN positions |-> IF positions[i] = None THEN None ELSE cells[positions[i] + 1]]

(* df.column, then validate_nested_column_dtype.                           *)
UndeclaredDtype(e) == e.name \in DOMAIN df.columns

Declared(e) == e.name \in DOMAIN df.columns /\ df.columns[e.name].dtype = e.dtype

Built(e) ==
  CASE branch = "direct" -> Declared(e)
    [] branch = "take"   -> Declared(e) /\ Takeable(df.columns[e.name].cells)
    [] branch = "allAbsent" -> e.dtype \notin Unfillable
    [] OTHER             -> TRUE

CellsOf(e) ==
  CASE branch = "direct"    -> df.columns[e.name].cells
    [] branch = "take"      -> Taken(df.columns[e.name].cells)
    [] branch = "empty"     -> <<>>
    [] branch = "allAbsent" -> Nulls(TotalLen)

(* The dtype of the series that is pushed or wrapped.                      *)
DtypeOf(e) == IF branch \in {"direct", "take"} THEN df.columns[e.name].dtype ELSE e.dtype

(* LargeListArray::new panics on offsets past the child; the helper that   *)
(* wraps it up returns an error when the list's Arrow dtype is not that of *)
(* the declared one.                                                       *)
Wrappable(e)  == Listed => Len(CellsOf(e)) >= TotalLen
Assembled(e)  == Listed => DtypeOf(e) = e.dtype /\ e.dtype \notin Unlisted

Consuming(e) == phase = "consume" /\ Len(columns) < Len(entries) /\ e = entries[Len(columns) + 1]

PushColumn ==
  \E e \in Entry :
    /\ Consuming(e) /\ Built(e) /\ Wrappable(e) /\ Assembled(e)
    /\ columns' = Append(columns, [name |-> OutputName[e.name], dtype |-> DtypeOf(e),
                                   cells |-> CellsOf(e)])
    /\ UNCHANGED <<leaves, phase, flat, positions, branch, df, entries>>

RejectColumn ==
  \E e \in Entry :
    /\ Consuming(e) /\ ~(Built(e) /\ Wrappable(e) /\ Assembled(e))
    /\ Fail(IF Built(e) /\ ~Wrappable(e) THEN "panic" ELSE "error")

Finish ==
  /\ phase = "consume" /\ Len(columns) = Len(entries)
  /\ Fail("done")

(* The block has ended.                                                    *)
Return == phase \in Ended /\ UNCHANGED vars

-----------------------------------------------------------------------------
Init ==
  /\ leaves \in Inputs
  /\ phase = "collect"
  /\ flat = <<>> /\ positions = <<>>
  /\ branch = "none" /\ df = Failed /\ entries = <<>> /\ columns = <<>>

Collect == CollectAbsent \/ CollectPresent \/ CollectTooMany
Consume == PushColumn \/ RejectColumn \/ Finish

Next == Collect \/ Dispatch \/ BuildFrame \/ ReadSchema \/ Consume \/ Return

Spec == Init /\ [][Next]_vars
-----------------------------------------------------------------------------
(* Properties.                                                             *)

(* Types, for every shape and whatever the struct's own code returns.      *)
TypeOK ==
  /\ leaves \in Inputs
  /\ phase \in {"collect", "frame", "schema", "consume"} \union Ended
  /\ flat \in Seq(Structs)
  /\ positions \in Seq(Nat \union {None})
  /\ branch \in {"none", "direct", "take", "empty", "allAbsent"}
  /\ df # Failed => df \in Frames[flat]
  /\ entries \in Seq(Entry)
  /\ columns \in Seq(Column) /\ Len(columns) <= Len(entries)

(* LargeListArray::new accepts every child it is given: a frame that the   *)
(* struct's own code returned too short is an error before it is wrapped.  *)
NeverPanics == phase # "panic"
=============================================================================
