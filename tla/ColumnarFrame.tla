--------------------------- MODULE ColumnarFrame ---------------------------
(***************************************************************************)
(* The entry points that the derive writes for one struct: `schema`,       *)
(* `empty_dataframe`, and the three that build a frame from items (a       *)
(* slice's `to_dataframe`, one value's `to_dataframe`, and the batch       *)
(* functions of `Columnar`).  A frame is built in two rounds: one loop     *)
(* over the items that pushes every row-wise field's value to the field's  *)
(* buffers, then one builder per field, in field order, that finishes      *)
(* those buffers or builds a whole column by itself.                       *)
(*                                                                         *)
(* A list field is built as ShapeScan builds it and a nested field as      *)
(* NestedColumns does; here each is one step with the outcome that         *)
(* ListColumn and NestedField promise.  A name is the sequence of its      *)
(* parts between dots.                                                     *)
(***************************************************************************)
EXTENDS Integers, Sequences

CONSTANTS
  Fields,     (* The columns of the struct's IR, in order, see Field.      *)
  Inner,      (* Inner[f]: the entries that `schema` of nested field f's   *)
              (* struct returns.                                           *)
  Fragile,    (* The fields that may fail as a whole: the struct of a      *)
              (* nested one to give a schema or a frame, the cast of a     *)
              (* finished leaf, the offsets of a list.                     *)
  Inputs,     (* The item slices; an item maps a field to its value.       *)
  Values,     (* The values that are present in some field.                *)
  None,       (* An absent value, or a null cell.                          *)
  Encode,     (* What a value is stored as, Failed if its conversion       *)
              (* returns an error.                                         *)
  Failed,
  Default     (* What is stored under a null.                              *)

Calls == {"schema", "empty", "slice", "one", "batch"}

(* How a field is built: in the loop over all items; in a loop of its own  *)
(* (a leaf that is projected out of a tuple); as ShapeScan does; or as     *)
(* NestedColumns does.                                                     *)
Kinds == {"rowwise", "projected", "list", "nested"}

(* Bare values; Option values with a validity bit pushed beside each; with *)
(* a validity bitmap prefilled and written by index; with a bitmap for the *)
(* values, too; and a buffer of Options.                                   *)
Storages == {"plain", "pushed", "indexed", "bits", "options"}

Policies == {"field", "flatten", "prefix"}

Ids  == DOMAIN Fields
Name == Seq(STRING)

Kind(f)    == Fields[f].kind
Storage(f) == Fields[f].storage

IsLeaf(f)     == Kind(f) \in {"rowwise", "projected"}
IsOptional(f) == Storage(f) # "plain"
HasBitmap(f)  == Storage(f) \in {"indexed", "bits"}
HasValidity(f) == Storage(f) \in {"pushed", "indexed", "bits"}

(* Two names that differ at a part both have: neither is the other's       *)
(* beginning.                                                              *)
Apart(a, b) == \E i \in DOMAIN a \intersect DOMAIN b : a[i] # b[i]

Entry == [name : Name, dtype : STRING, lists : Nat]

UniqueNames(cols) ==
  \A i, j \in DOMAIN cols : cols[i].name = cols[j].name => i = j

ASSUME FieldsAssumption ==
  Fields \in Seq([kind : Kinds, storage : Storages, name : Name, dtype : STRING,
                  lists : Nat, policy : Policies, prefix : Name])
(* Rust rejects two fields of one name, no identifier contains a dot, and  *)
(* the elements of a tuple are numbered.                                   *)
ASSUME NamesAssumption  == \A f, g \in Ids : f # g => Apart(Fields[f].name, Fields[g].name)
(* What UniqueSchema below shows of a derived schema is required of one    *)
(* that is written by hand.                                                *)
ASSUME InnerAssumption  ==
  \A f \in Ids : Kind(f) = "nested" =>
    Inner[f] \in Seq(Entry) /\ UniqueNames(Inner[f])
ASSUME InputAssumption  ==
  \A s \in Inputs :
    /\ s \in Seq([Ids -> Values \union {None}])
    /\ \A i \in DOMAIN s : \A f \in Ids :
         /\ IsLeaf(f) /\ s[i][f] = None => IsOptional(f)
         /\ IsLeaf(f) /\ Storage(f) = "bits" /\ s[i][f] # None => Encode[s[i][f]] \in BOOLEAN
         (* Whether a struct can be encoded is up to its own code: Breaks.  *)
         /\ Kind(f) = "nested" /\ s[i][f] # None => Encode[s[i][f]] # Failed
ASSUME NoneAssumption   == None \notin Values

VARIABLES
  call,       (* The function that was called.                             *)
  items,      (* What it was called on; empty when it takes no items.      *)
  phase,      (* What it is doing, or how it ended.                        *)
  loop,       (* The field whose own loop runs, 0 in the loop for all.     *)
  row,        (* The items that the loop has done.                         *)
  slot,       (* The last field that has been pushed for the current item. *)
  buffers,    (* The buffers of each leaf field.                           *)
  at,         (* The fields whose columns or entries have been added.      *)
  columns,    (* Those columns or entries; entries have no cells.          *)
  height      (* The height of the frame that is returned.                 *)

vars == <<call, items, phase, loop, row, slot, buffers, at, columns, height>>

input   == <<call, items>>
looping == <<loop, row, slot>>
result  == <<at, columns, height>>

Ended == {"done", "error", "panic"}

Fail(how) == phase' = how /\ UNCHANGED <<input, looping, buffers, result>>

-----------------------------------------------------------------------------
(* Names and dtypes, as compose_nested_name and the list wrappers give     *)
(* them.                                                                   *)

ComposeUnqualified(f, inner) ==
  IF Fields[f].policy = "prefix" THEN Fields[f].prefix \o inner ELSE inner

ComposeQualified(f, inner) == Fields[f].name \o inner

(* compose_nested_name, which each generator below calls by itself.        *)
ComposeName(f, inner) ==
  CASE Fields[f].policy = "field"   -> Fields[f].name \o inner
    [] Fields[f].policy = "flatten" -> inner
    [] Fields[f].policy = "prefix"  -> Fields[f].prefix \o inner

ColumnOf(f, cells) ==
  [name |-> Fields[f].name, dtype |-> Fields[f].dtype, lists |-> Fields[f].lists, cells |-> cells]

InnerColumnOf(f, e, cells) ==
  [name |-> ComposeName(f, e.name), dtype |-> e.dtype, lists |-> e.lists + Fields[f].lists,
   cells |-> cells]

(* An entry of `schema`, or the empty series of `empty_dataframe`.          *)
Titled(name, dtype, lists) == [name |-> name, dtype |-> dtype, lists |-> lists, cells |-> <<>>]

SchemaEntriesOf(f) ==
  IF Kind(f) = "nested"
  THEN [j \in DOMAIN Inner[f] |->
          Titled(ComposeName(f, Inner[f][j].name), Inner[f][j].dtype,
                 Inner[f][j].lists + Fields[f].lists)]
  ELSE <<Titled(Fields[f].name, Fields[f].dtype, Fields[f].lists)>>

EmptySeriesOfLeaves(f) ==
  IF Kind(f) = "nested"
  THEN [j \in DOMAIN Inner[f] |->
          Titled(ComposeName(f, Inner[f][j].name), Inner[f][j].dtype, Inner[f][j].lists)]
  ELSE <<Titled(Fields[f].name, Fields[f].dtype, Fields[f].lists)>>

EmptySeriesOf(f) ==
  IF Kind(f) = "nested"
  THEN [j \in DOMAIN Inner[f] |->
          Titled(ComposeName(f, Inner[f][j].name), Inner[f][j].dtype,
                 Inner[f][j].lists + Fields[f].lists)]
  ELSE <<Titled(Fields[f].name, Fields[f].dtype, Fields[f].lists)>>

NeedsValidationPrefixed == \E f \in Ids : Fields[f].policy = "prefix"

NeedsUniqueNameValidation == \E f \in Ids : Fields[f].policy # "field"

(* validate_unique_column_names, where it is emitted.                      *)
NamesValid == NeedsUniqueNameValidation => UniqueNames(columns)

-----------------------------------------------------------------------------
(* The buffers of a leaf field.                                            *)

FilledCapacity(n, bit) == <<>>

Filled(n, bit) == [i \in 1 .. n |-> bit]

Fresh(f) ==
  [values   |-> IF Storage(f) = "bits" THEN Filled(Len(items), FALSE) ELSE <<>>,
   validity |-> IF HasBitmap(f) THEN Filled(Len(items), TRUE) ELSE <<>>,
   idx      |-> 0]

Undeclared == [values |-> <<>>, validity |-> <<>>, idx |-> 0]

SetBit(bitmap, i)   == [bitmap EXCEPT ![i + 1] = TRUE]
UnsetBit(bitmap, i) == [bitmap EXCEPT ![i + 1] = FALSE]

Stored(f, v) ==
  IF v # None THEN Encode[v] ELSE IF Storage(f) = "options" THEN None ELSE Default

NewValues(f, b, v) ==
  IF Storage(f) = "bits"
  THEN IF v # None /\ Encode[v] THEN SetBit(b.values, b.idx) ELSE b.values
  ELSE Append(b.values, Stored(f, v))

NewValidity(f, b, v) ==
  CASE Storage(f) = "pushed"          -> Append(b.validity, v # None)
    [] HasBitmap(f) /\ v = None       -> UnsetBit(b.validity, b.idx)
    [] OTHER                          -> b.validity

StepOnValue(f, b, v) == IF HasBitmap(f) /\ v # None THEN b.idx + 1 ELSE b.idx

StepRow(f, b, v) == IF HasBitmap(f) THEN b.idx + 1 ELSE b.idx

Pushed(f, b, v) ==
  [values |-> NewValues(f, b, v), validity |-> NewValidity(f, b, v), idx |-> StepRow(f, b, v)]

(* MutableBitmap::set panics past the bitmap.                              *)
InBounds(f, b, v) ==
  /\ HasBitmap(f) /\ v = None => b.idx < Len(b.validity)
  /\ Storage(f) = "bits" /\ v # None /\ Encode[v] => b.idx < Len(b.values)

(* The array constructors panic on a validity of another length.           *)
Matched(f) == HasValidity(f) => Len(buffers[f].validity) = Len(buffers[f].values)

CellsOf(f) ==
  [i \in DOMAIN buffers[f].values |->
     IF HasValidity(f) /\ ~buffers[f].validity[i] THEN None ELSE buffers[f].values[i]]

-----------------------------------------------------------------------------
(* Entering. `to_dataframe` of a slice tests for no items before it calls  *)
(* the batch function, which tests again; both give `empty_dataframe`.     *)

InLoop(f) == IF loop = 0 THEN Kind(f) = "rowwise" ELSE f = loop

EnterShape ==
  /\ phase = "called" /\ items = <<>>
  /\ phase' = "shape"
  /\ UNCHANGED <<input, looping, buffers, result>>

Enter ==
  /\ phase = "called" /\ items # <<>>
  /\ buffers' = [f \in Ids |-> IF Kind(f) = "rowwise" THEN Fresh(f) ELSE Undeclared]
  /\ phase' = IF \E f \in Ids : InLoop(f) THEN "rows" ELSE "build"
  /\ UNCHANGED <<input, looping, result>>

-----------------------------------------------------------------------------
(* `schema` and `empty_dataframe`: the entries, or empty series, of each   *)
(* field.  An impl that is written by hand may return an error.            *)

ShapeOf(f) == IF call = "schema" THEN SchemaEntriesOf(f) ELSE EmptySeriesOf(f)

AddColumns(f, cols) == at' = f /\ columns' = columns \o cols /\ height' = height

AddShape ==
  /\ phase = "shape" /\ at < Len(Fields)
  /\ AddColumns(at + 1, ShapeOf(at + 1))
  /\ UNCHANGED <<input, phase, looping, buffers>>

(* DataFrame::new_infer_height: the names differ, the heights do not.      *)
IsFrame(cols) ==
  UniqueNames(cols) /\ \A i, j \in DOMAIN cols : Len(cols[i].cells) = Len(cols[j].cells)

HeightOf(cols) == IF cols = <<>> THEN 0 ELSE Len(cols[1].cells)

Return(h) ==
  /\ phase' = "done" /\ height' = h
  /\ UNCHANGED <<input, looping, buffers, at, columns>>

ShapeBreaks ==
  /\ phase = "shape" /\ at < Len(Fields)
  /\ Kind(at + 1) = "nested" /\ at + 1 \in Fragile
  /\ Fail("error")

FinishShape ==
  /\ phase = "shape" /\ at = Len(Fields)
  /\ IF NamesValid /\ (call = "schema" \/ IsFrame(columns)) THEN Return(0) ELSE Fail("error")

-----------------------------------------------------------------------------
(* The push loop. A failing conversion leaves the function with the        *)
(* buffers as they are.                                                    *)

EncodesAll(v) == TRUE

Encodes(v) == v # None => Encode[v] # Failed

Unpushed == {f \in Ids : InLoop(f) /\ f > slot}

PushValue ==
  /\ phase = "rows" /\ row < Len(items)
  /\ \E f \in Unpushed :
       LET v == items[row + 1][f] IN
       /\ \A g \in Unpushed : f <= g
       /\ Encodes(v)
       /\ IF InBounds(f, buffers[f], v)
          THEN /\ buffers' = [buffers EXCEPT ![f] = Pushed(f, @, v)]
               /\ slot' = f
               /\ UNCHANGED <<input, phase, loop, row, result>>
          ELSE Fail("panic")

PushFailing ==
  /\ phase = "rows" /\ row < Len(items)
  /\ \E f \in Unpushed :
       /\ \A g \in Unpushed : f <= g
       /\ ~Encodes(items[row + 1][f])
  /\ Fail("error")

NextRow ==
  /\ phase = "rows" /\ row < Len(items) /\ Unpushed = {}
  /\ row' = row + 1 /\ slot' = 0
  /\ UNCHANGED <<input, phase, loop, buffers, result>>

RowsDone == phase = "rows" /\ row = Len(items)

EndLoop ==
  /\ RowsDone /\ loop = 0
  /\ phase' = "build"
  /\ UNCHANGED <<input, looping, buffers, result>>

-----------------------------------------------------------------------------
(* The builders, in field order.                                           *)

Building(f) == phase = "build" /\ at < Len(Fields) /\ f = at + 1

(* A column as a whole may fail, for what its items do not show.           *)
Breaks(f) == f \in Fragile /\ Fail("error")

FinishBuffers(f) ==
  IF Matched(f)
  THEN \/ /\ phase' = "build"
          /\ AddColumns(f, <<ColumnOf(f, CellsOf(f))>>)
          /\ UNCHANGED <<input, looping, buffers>>
       \/ Breaks(f)
  ELSE Fail("panic")

BuildRowWise ==
  \E f \in Ids : Building(f) /\ Kind(f) = "rowwise" /\ FinishBuffers(f)

(* A projected leaf declares its buffers and runs its loop in its builder. *)
OpenLoop ==
  \E f \in Ids :
    /\ Building(f) /\ Kind(f) = "projected"
    /\ phase' = "rows" /\ loop' = f /\ row' = 0 /\ slot' = 0
    /\ buffers' = [buffers EXCEPT ![f] = Fresh(f)]
    /\ UNCHANGED <<input, result>>

BuildProjected ==
  RowsDone /\ loop # 0 /\ FinishBuffers(loop)

(* What ShapeScan and NestedColumns leave: one cell per item.              *)
Encodable(f) == \A i \in DOMAIN items : Encodes(items[i][f])

Shown(v) == IF v = None THEN None ELSE Encode[v]

BuildList ==
  \E f \in Ids :
    /\ Building(f) /\ Kind(f) = "list"
    /\ IF Encodable(f)
       THEN \/ /\ AddColumns(f, <<ColumnOf(f, [i \in DOMAIN items |-> Shown(items[i][f])])>>)
               /\ UNCHANGED <<input, phase, looping, buffers>>
            \/ Breaks(f)
       ELSE Fail("error")

InnerColumnsOf(f, cells) ==
  [j \in DOMAIN Inner[f] |-> InnerColumnOf(f, Inner[f][j], cells)]

BuildNested ==
  \E f \in Ids :
    /\ Building(f) /\ Kind(f) = "nested"
    /\ \/ /\ AddColumns(f, InnerColumnsOf(f, [i \in DOMAIN items |-> Shown(items[i][f])]))
          /\ UNCHANGED <<input, phase, looping, buffers>>
       \/ Breaks(f)

-----------------------------------------------------------------------------
(* The frame of the columns. With no column the rows are kept by a dummy   *)
(* column that is dropped from the frame.                                  *)

HeightOfNone == 0

KeptHeight == Len(items)

FinishFrame ==
  /\ phase = "build" /\ at = Len(Fields)
  /\ IF NamesValid /\ IsFrame(columns)
     THEN Return(IF columns = <<>> THEN KeptHeight ELSE HeightOf(columns))
     ELSE Fail("error")

(* The caller has its answer.                                              *)
Answered == phase \in Ended /\ UNCHANGED vars

-----------------------------------------------------------------------------
Init ==
  /\ call \in Calls /\ items \in Inputs
  /\ call \in {"schema", "empty"} => items = <<>>
  /\ call = "one" => Len(items) = 1
  /\ phase = "called"
  /\ loop = 0 /\ row = 0 /\ slot = 0
  /\ buffers = [f \in Ids |-> Undeclared]
  /\ at = 0 /\ columns = <<>> /\ height = 0

Shape == AddShape \/ ShapeBreaks \/ FinishShape
Rows  == PushValue \/ PushFailing \/ NextRow \/ EndLoop
Build == BuildRowWise \/ OpenLoop \/ BuildProjected \/ BuildList \/ BuildNested

Next == EnterShape \/ Enter \/ Shape \/ Rows \/ Build \/ FinishFrame \/ Answered

Spec == Init /\ [][Next]_vars
-----------------------------------------------------------------------------
(* Properties.                                                             *)

Stores  == ({Encode[v] : v \in Values} \ {Failed}) \union {None, Default} \union BOOLEAN
Buffers == [values : Seq(Stores), validity : Seq(BOOLEAN), idx : Nat]
Columns == Seq([name : Name, dtype : STRING, lists : Nat, cells : Seq(Stores)])

(* Types, for every struct and every slice of items.                       *)
TypeOK ==
  /\ call \in Calls /\ items \in Inputs
  /\ phase \in {"called", "shape", "rows", "build"} \union Ended
  /\ loop \in Ids \union {0} /\ slot \in Ids \union {0}
  /\ row \in 0 .. Len(items)
  /\ buffers \in [Ids -> Buffers]
  /\ at \in 0 .. Len(Fields)
  /\ columns \in Columns /\ height \in Nat

(* No bit is set past its bitmap and no array is given a validity of       *)
(* another length, although the bitmaps are sized from items.len() before  *)
(* the loop and written through a row index the loop steps by itself.      *)
NeverPanics == phase # "panic"

(* What is returned has distinct names. `schema` does not test this when   *)
(* no field is flattened or prefixed: there the fields' names must do.     *)
UniqueSchema == phase = "done" => UniqueNames(columns)
=============================================================================
