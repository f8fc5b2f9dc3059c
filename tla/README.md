# A verification of df-derive

`#[derive(ToDataFrame)]` turns a slice of Rust structs into a Polars `DataFrame`.
The derive macro (`df-derive-macros`) reads a struct at compile time and writes
the code that fills column buffers row by row, so there are two programs to
verify: the macro, a pipeline of pure passes, and the code it writes, which runs
loops over raw buffers that Arrow then trusts.  This directory holds TLA+ modules
for both, TLC configurations for small instances, and TLAPS proofs.

Paths below are relative to the repository; `codegen/`, `lower/`, ... stand for
`df-derive-macros/src/codegen/`, `df-derive-macros/src/lower/`, ...

## 1. The system

### 1.1 Components

| Component | Code | State it keeps | Operations | What makes it correct |
|---|---|---|---|---|
| Vec shape scan | `codegen/encoder/{shape_walk,vec,emit,wrapper_access}.rs` | offsets, validity and leaf buffers of one field, precounted sizes, a leaf index | precount, declare, scan (null, enter, leave, store), assemble | the buffers read back as the items; the precount is exact; no index falls outside a prefilled bitmap |
| Nested columns | `codegen/encoder/nested_columns.rs`, `nested_leaf.rs`, `codegen/support.rs` | references and gather positions of one nested field, the inner frame | four-way dispatch, frame and dtype validation, gather, list wrapping | every branch yields one series per declared inner column, of the declared dtype and of the length the lists expect |
| Scalar encoders | `codegen/encoder/{leaf,option,stringy}.rs`, `codegen/type_registry/` | value and validity buffers of one scalar field, a row index | push per row, finish | row i of the column is item i, null exactly when the item is |
| Columnar frame | `codegen/{columnar_impl,column_emit,trait_impl,schema,schema_nested}.rs`, `df-derive-core` slice impl | the columns built so far | empty input, row loop, builders in field order, name check, zero columns | one height, the declared schema, no partial frame after an error |
| Tuple projection | `lower/{tuple,projection}.rs`, `codegen/encoder/projected.rs`, `codegen/source_access.rs` | - | projecting element columns through the tuple's wrappers | an element's column has the nulls and lists of both the tuple and the element |
| Type analysis | `type_analysis/` | the nodes of a type still to be analysed, the wrappers of the current one still to be peeled | peeling Option, Vec, smart pointers, Cow and references, descending into tuples | every wrapper is peeled once; it ends |
| Wrapper lowering | `lower/{wrappers,binary}.rs`, `ir/{wrappers,access}.rs` | - | normalising a stack into layers, trimming a `Vec<u8>` leaf | layers, Options and smart pointers are those of the stack |
| Field lowering | `parser.rs`, `lower/{field,leaf,validation}.rs` | the fields still to be lowered, the phase of the current one | matching a leaf and its attributes to an encoding, or rejecting them | what is documented is accepted and nothing else reaches code generation |
| Attribute parsing | `attrs/` | the override or disposition collected so far | one key at a time, conflict errors | order of keys does not matter; a conflict is reported as what it is |
| Scalar conversions | `codegen/type_registry/scalar_transform.rs`, `df-derive-core` `Decimal128Encode` | - | datetime, duration, time, decimal to integers | the stored integer is the value in the declared unit, or an error |
| Runtime paths | `codegen/{config,external_paths}.rs`, `attrs/container.rs` | the override slots of the struct | choosing the module the generated code refers to | explicit over built-in over discovered; one runtime and one Polars |
| Facade | `df-derive-macros/src/lib.rs`, `df-derive/src/lib.rs` | - | configuration, fields, columns, in this order | the first refusal ends the derive |
| Bounds and asserts | `codegen/{bounds,asserts,type_deps}.rs` | - | where-clauses and compile-time trait checks | out of TLC's reach: they constrain rustc, not a run |
| Benchmarks and examples | `comparison-bench/`, `df-derive/{benches,examples}/` | - | timing and showing the derive | decide nothing about it |

### 1.2 How they interact

`lib.rs` parses the container attributes, `parser.rs` lowers each field
(`type_analysis` then `lower`) into the columns of `ir/`, and `codegen/mod.rs`
emits the trait impls.  At run time `[T]::to_dataframe` calls
`T::columnar_to_dataframe`; that runs the row loop and then each whole-column
builder.  A nested builder calls back into another type's
`columnar_from_refs` and `schema`, which may be written by hand, and every
failing conversion leaves the function through `?`.

### 1.3 What is hard

There is no concurrency and nothing is persisted.  What is hard to test here:

* two loops that must agree: sizes counted in the precount are relied on in the scan;
* several buffers that advance at different moments (a validity bit before a
  list, an offset after it, a leaf index of its own, gather positions beside references);
* four branches of nested materialisation chosen from three lengths;
* callbacks into hand-written `Columnar` and `ToDataFrame` impls;
* errors in the middle of a loop, numeric ranges (`i64` offsets, `IdxSize` positions, `i128` decimals);
* wrapper stacks of any depth with Options and smart pointers anywhere in them,
  counted once and walked elsewhere;
* a tuple's wrappers joined with an element's in one pass, and cut off again by length
  in another;
* references that one function adds to an expression and another takes off;
* a dozen checks spread over four phases that together must accept exactly the types
  and attributes that are documented.


## 2. Plan

The order follows what a wrong answer would cost: first the generated loops whose
buffers Arrow trusts, then the frame they are put into, then the compile-time passes
that decide which loop is generated.

| # | Module | Models | Composes / refines | State |
|---|---|---|---|---|
| 1 | `ShapeScan` | precount, scan and assembly of one list column | refines `ListColumn` through `ShapeScanColumn` | done, proved |
| 2 | `NestedColumns` | references, gather positions, dispatch and materialisation of one nested field | refines `NestedField` through `NestedColumnsField`; takes list offsets as ShapeScan leaves them | done, proved |
| 3 | `ColumnarFrame` | all entry points of one struct, scalar buffers, builders in order | refines `DeclaredTable` through `ColumnarFrameTable`; a list or nested builder is one step with the outcome `ListColumn` or `NestedField` promises | done, proved |
| 4 | `WrapperShapes` | normalising a stack into layers, composing a tuple's shape with an element's | used by 5, 6 and 8 | done, proved |
| 5 | `FieldAttributes`, `FieldLowering` | one field: attributes, type analysis, lowering of leaf and wrappers | the first part of 7 | done, proved in 7 |
| 6 | `TupleProjection` | lowered fields to columns | composed by 7 and 8 | done, proved in 7 |
| 7 | `ContainerConfig`, `DeriveInput`, `DerivePromise` | the configuration of the runtime; the whole derive on a struct; what is promised of it | composes 5, 6 and ContainerConfig | done, proved except that it ends |
| 8 | `RustAccess`, `ColumnReading` | the expressions generated for a column, evaluated on rows | composes 4 and 6; the meaning of a path is the abstract specification | done, proved |
| 9 | `LeafConversion` | decimals, durations, instants, times and dates to integers | the nearest value is the abstract specification | done, proved |

What would come next: the arrays that a list of plain booleans is assembled into
(another leaf kind of ShapeScan) and the borrowing of string leaves.  Of the properties, all
safety is proved; that a derive ends is only model-checked (section 5).

## 3. The modules and the code

### 3.1 ShapeScan: two loops over a list column

| Module | Role |
|---|---|
| `ShapeScan` | the generated block: precount loop, declarations, scan loop, assembly |
| `ListColumn` | what a list column promises: the cells read back are the items, or an error for a reason |
| `ShapeScanColumn` | the refinement mapping: reads the buffers back as nested cells |
| `MCShapeScan` | items up to a bound for any shape |
| `ShapeScanProofs` | theorems about the two loops |
| `ShapeScanColumnProofs` | the theorem that they implement `ListColumn` |

Both loops of `shape_walk.rs` are recursive in the generator and nested `for` loops in
the generated code, so the model has a walk with a program counter: `open` is the
innermost loop that runs, `rest[l]` what loop `l` still has to visit.  A precount step
(`PrecountNull`, `PrecountLeaves`, `PrecountEnter`, `PrecountLeave`) only counts; the
scan's steps (`ScanNull`, `ScanEnter`, `ScanLeave`, `ScanLeaf`, with the failing
variants) write `offsets`, `validity` and the leaf buffers at the moments the code
does: a list's validity bit ahead of its elements, its offset after them.  What a leaf
pushes depends on its `LeafKind` (`vec.rs`): a bitmap beside a vector, prefilled and
written at `len() - 1`; a view buffer with a leaf index of its own; two prefilled
bitmaps for bool; references and positions for structs.  Panics of
`MutableBitmap::set` and of the array constructors are a phase of their own.

### 3.2 NestedColumns: four ways to build a struct's columns

`NestedColumns` starts from the leaves a nested field has and collects them one at a
time (`CollectPresent`, `CollectAbsent`, `CollectTooMany`), chooses among the four
branches (`BranchFor`, from `nested_columns.rs` 58-132) and then runs the branch:
`BuildFrame` calls the struct's `columnar_from_refs`, `ReadSchema` its `schema`, and
`PushColumn` or `RejectColumn` handles one declared column at a time.  The frame and
the schema may come from an impl written by hand, so they are arbitrary: `Frames` and
`Schemas` give a set of answers and the model takes any.  A column of nulls alone is made by
`extend_constant`, which fails for the dtypes in `Unfillable`.  `NestedField` says what must
come out: one column per schema entry, of its dtype, whose cells are those of the
struct each leaf refers to, or an error.

### 3.3 ColumnarFrame: the entry points of a struct

| Phase | Code |
|---|---|
| `called` | the call; empty input is sent to `shape` (`lib.rs` 114-119, `columnar_impl.rs` 78-80) |
| `shape` | `schema` and `empty_dataframe`, one field per `AddShape` (`trait_impl.rs` 82-98, `schema.rs`, `schema_nested.rs`) |
| `rows` | a push loop: the one over all items (`loop = 0`, `columnar_impl.rs` 60-64) or that of a projected leaf (`column_emit.rs` 246-254) |
| `build` | the builders in field order (`BuildRowWise`, `OpenLoop` and `BuildProjected`, `BuildList`, `BuildNested`), then `FinishFrame` |
| `done`, `error`, `panic` | how it ended |

A row-wise field has one of five storages, which are the arms of `leaf.rs`: bare
values (`plain`), an optional number's vector and pushed bitmap (`pushed`), the string
and binary views with a prefilled bitmap and a row index (`indexed`), the two bitmaps
of an optional bool (`bits`), and vectors of Options (`options`).  `PushValue` is one
field's push for one item, so an error leaves the buffers of earlier fields one
longer, as in the code.  Names are sequences of parts, because only their equality
and their dots matter.

The three generators of columns are three operators, as they are three functions of the
code: `SchemaEntriesOf` (`build_schema_entries`), `EmptySeriesOf` (`build_empty_series`), and
for a frame's columns `ColumnOf` and `InnerColumnsOf` (`named_from_buf`,
`consume_nested_columns`).  Each wraps the field's lists around an inner dtype by itself; they
share `ComposeName`, because the code has the one function `compose_nested_name` for it.  A
finished column may fail as a whole (`Breaks`): by the cast of a temporal leaf, by an offset of
a list that does not fit, or by a struct's own traits.  Which fields do is the constant
`Fragile`, since nothing in the items tells.  `DeclaredTable` has one notion of a declared
column that all three must meet; it adds one field's declared columns at a time
and either completes with the height of the slice or refuses with a reason.

### 3.4 DeriveInput: the derive itself

| Module | Models |
|---|---|
| `ContainerConfig` | `attrs/container.rs`, `codegen/{config,external_paths}.rs`: overrides are read one at a time, checked together, and completed by what the package depends on |
| `FieldAttributes` | `attrs/{field,field_conflicts,decimal}.rs`: what an item means, and what is said of two |
| `FieldLowering` | `type_analysis/`, `lower/{field,leaf,validation,wrappers,binary,tuple}.rs`: one field, from its attributes to its lowered tree |
| `WrapperShapes` | `ir/{wrappers,access}.rs`, `lower/wrappers.rs`, `lower/projection.rs` 136-215: stacks, shapes and their composition |
| `TupleProjection` | `lower/projection.rs`, `ir/columns.rs`: trees to columns |
| `DeriveInput` | `lib.rs`, `parser.rs`: the three parts in order |
| `DerivePromise` | the properties; which items are accepted, said of their syntax |
| `WrapperShapesProofs` | lemmas about stacks, shapes and their composition |
| `DeriveInputProofs` | theorems about the derive's own state (types, containers, trees, tuples), then that what is accepted is what is promised, and about the columns and their shapes |

`stage` says which part runs: `config`, `fields`, `project`, and `derived` or `failed`
at the end.  While it is `fields`, `phase` is that of the current field: `attributes`,
`analyze`, `lower`, and `lowered`, `skipped` or `error`.  The code's loops take one item
or wrapper a step (`ReadItem`, `PeelWrapper`, `NormalizeWrapper`).  Its recursion over
tuple elements is a stack `work` of paths still to be visited: a type is a tree that
maps the path of each node to the wrappers around it and its base, and `analyzed` and
`lowered` are trees that grow node by node.  A base is a class of types that the code
treats alike (`Numeric`, `u8`, `Struct`, `BareDuration`, ...), and a path of a trait is
its module, its name and whether it has arguments.  An error is a name that says which
check refused: messages are modelled only as far as which attributes they speak of.

### 3.5 ColumnReading: what the generated expressions read

| Module | Models |
|---|---|
| `RustAccess` | `source_access.rs`, `wrapper_access.rs`, `projected.rs`: the expressions, evaluated on a row; what Rust makes of `*`, of methods and of `match` |
| `ColumnReading` | `column_emit.rs`, `option.rs`, `shape_walk.rs`, `vec.rs`: how each column of a projected field is read from a row |
| `ColumnReadingProofs` | the theorem that each reads what its path means |

A row is a field type, the tree of wrapper stacks and bases that Rust has for it, and a
value: how many things there are in each Option (none or one) and in each list.  A place in
a row is a node, the number of its wrappers that are off, and the index taken in each list
on the way; so no two items of a row are the same place.  An expression is a place, an
Option that a method made, or the items of a list, behind any number of references.  A `*`
takes off exactly one reference or pointer, methods look through references, a `match` on a
reference binds references, as in Rust, and what rustc would refuse is `Mistyped`, so that
code that does not compile reads something wrong instead of disappearing.

`ColumnReading` projects a field with `TupleProjection` and reads the row through each column
(`ReadColumn`), choosing the reader as the encoders do: by value, by one reference or by
any, through one Option or a collapsed chain (`option.rs`), in nested loops with the element
of a tuple bound where the projection happens and the tuple's chain cut off, or by copying a
list of plain booleans.  What a column gets is a tree: by the indexes of the items on the
way, a null, a list of so many items, or the leaf of a node at these indexes (`Cell`).
`Meaning` is what the path to a leaf means, said without any of this, from the wrappers as
they are written: after the lists an index path goes through, there is a null if one of the
Options up to the next list or the leaf is absent, and else that list or leaf.  `Reads` is
that the tree has this at each of its index paths, and has exactly the index paths of the
items there are.

### 3.6 LeafConversion: the numbers of a column

`RoundHalfEven` and `TryToMantissa` are `try_to_i128_mantissa` of a decimal
(`df-derive-core/src/lib.rs` 202-241), `DecimalCell` adds the precision test that is
generated around it (`scalar_transform.rs`); `TimeCell` has one case per temporal
type.  Overflow is modelled as what the checked operations make of it, no value.  An
instant and a time of day may have up to two seconds of nanoseconds, as chrono writes a
leap second; it counts as the second after it (`Carried`), as the sum of seconds and
nanoseconds has it, though chrono's own order keeps the two apart.  At the end of a day
that sum is a day's nanoseconds or more; what Polars makes of such a time is outside the model.  The
column is encoded row by row and refused by its first unrepresentable row.  Base, widths,
greatest scale and the thousand between units are constants, so that a narrow instance
has all of its values checked and the proof speaks about 10, 127 bits, 38 and 1000.

## 4. What is checked

| Run | Shows |
|---|---|
| `scan_numeric` | two optional layers over optional numbers, a value without stored form and an offset limit: buffers in step, precount exact and retraced, column read back |
| `scan_bool` | both prefilled bitmaps of `Vec<Option<bool>>`: no write outside them |
| `scan_nested` | `Vec<Option<Vec<Vec<Option<Struct>>>>>` with two gather indices: positions pick the item's own struct at any depth, a third struct is an error |
| `nested_optional` | `Option<Struct>`: none, some or all present, against frames of wrong height, columns or dtypes, failing ones, and a dtype that cannot be filled with nulls |
| `nested_gather` | lists of `Option<Struct>`: all four branches, against the same frames, with two gather indices |
| `frame_leaves` | every storage, a projected leaf, failing conversions and a failing cast, beside a flattened and a prefixed struct |
| `frame_fields` | row-wise, list and nested fields under the Field policy, a struct and a list of which may fail as a whole: names distinct without a test, schema and frames agree |
| `frame_clash` | a flattened name that meets another field's: refused everywhere, returned nowhere |
| `frame_units` | fields that contribute no column: the height survives |
| `derive` | structs whose overrides, attributes, wrappers, bases and tuples vary one part at a time: the derive ends, accepts exactly what is promised, gives one column per leaf in order, each of the shape its path has, and never mixes runtimes |
| `reading` | fields, pairs and pairs in pairs under every short stack, with every Option present and absent and lists of two different items: the expressions of every column type-check and read, at every index, the leaf its path names |
| `conversion` | every value of narrow decimals, durations, instants, times and dates, leap seconds among them: nearest mantissas, refusals only for want of room, no two rows out of order |

Every property also fails on a mutated definition that stands for a plausible bug (an
operator defined beside the original, listed in `PROJECT.json`): counting present
elements only, pushing a default forgotten, an index stepped on one arm of a match,
a branch test left out, the dummy column's height lost.

*Bounds.*  `MaxItems`, `MaxLists` and `MaxLeaves` bound the items, and no counter is
cut off otherwise: `MaxOffset` and `MaxIdx` stand for `i64::MAX` and `IdxSize::MAX` and
are part of the system, with errors at the limit.  Two items suffice for state that
leaks from one item into the next, two lists in a list for offsets that must be
cumulative, and three leaves give every mixture of absent and present (none, some,
all).  Up to three layers make an inner, a middle and an outer one.  The five leaves of
`frame_leaves` have one storage each and do not interact except through the order of
the builders.  The shapes and leaf kinds that no run instantiates (a bare struct, a
list of structs never absent, string views) differ from those that are by a branch of
an operator, and the theorems of section 5 hold for them, too.

In `derive`, fields have up to four wrappers alone and up to three around a pair and
each of its elements, which is one more than any rule looks at; an attribute list has two
items, or three of the ones that conflict; a struct has up to three fields, so that
what one leaves behind meets the next two.  Containers have each pair of overrides, and
package layouts each combination of the built-in crates with a rename and with the crate
deriving in itself.  What varies together is what the code reads together: attributes with
bases and wrappers, tuples with wrappers, overrides with layouts.  In `reading`, stacks
have up to four wrappers (three and three around and in a pair), and a list is empty or has
an item that varies and another that does not.  In `conversion`, base and scale are
10 and 3, the mantissa has values beyond its precision and products beyond `IntMax`, `Kilo` is
2 so that seconds have eight nanoseconds and every instant and duration within the limits
is tried; pairs of rows are taken near zero and at the limits.

*Fairness.*  The generated code is sequential, each loop runs over a slice that is fixed
before it starts, and there is nothing to wait for; no liveness is stated of it.  The
derive is different: it peels types of any shape in loops that run until nothing is left
and descends into tuples, so that it ends (`DeriveEnds`) is a property of the loops.
`WF_vars(Next)` is all that is assumed: a derive is expanded by one thread of the
compiler, which runs while something is left to do.

*Deadlock.*  The models of the generated code check it: every ended call has only its
stuttering step `Answered` or `Return`, and any other stop would be reported.  `derive`,
`reading` and `conversion` allow it, since a derive, a row and a column really end; that a derive does not
stop elsewhere is `DeriveEnds`.

## 5. What is proved

All theorems are for every value of the constants: every depth, shape, leaf kind,
struct, limit and input.  They rest on the assumptions beside the constants, which
say that the values are well typed and, for `ColumnarFrame`, that two fields' names
differ in a part both have (Rust rejects equal field names, and an identifier has no
dot) and that the schema of a nested struct has distinct names (proved for a derived
one: `SchemaNamesUnique`; required of one written by hand).  `InputAssumption` says of the
items derived on that attributes and fields are sequences, that fields are numbered in
their order and that a path has its three parts; `WellFormedField` that a type is a tree:
the root is in it, with every node the nodes on the way to it, only tuples have elements,
and those of a tuple are numbered from 1; and, by `WellFormedArgs`, that the arguments of an
attribute are names with a value, a number for `decimal`, and one unit for `time_unit`, which
is what their parsers get from `syn`.  Any number of fields, attributes, wrappers and
elements is allowed.
`PowerAssumption` says of the number base what `^` is, up to the greatest scale, and that the
greatest power fits into a mantissa (`lib.rs` notes that 10^38 is below 2^127);
`BaseAssumption` that the base is even, which ties need.  `TimeAssumption` and
`RowAssumption` type the units and the rows.  `TypesAssumption` says of the fields that are
read what the type analysis lets through: a tree as above, with stacks of the three wrappers, one of
the four classes of leaves or a tuple at each node, and nothing but pointers around and in a
tuple that is in a tuple (`reject_unsupported_wrapped_nested_tuples`); of their values, that
counts are numbers.

| Theorem | Says |
|---|---|
| `ShapeScanProofs!TypeCorrect`, `BuffersAlwaysInStep` | types; at every point of the scan the buffers of each layer are those of a list array except for the lists still open |
| `ShapeScanProofs!ScanRetracesPrecount`, `PrecountIsExact`, `NoPanic` | the scan meets what the precount counted, in the same order; reservations are exact; no bit is written past a bitmap and no constructor panics |
| `ShapeScanColumnProofs!ScanFillsColumn` | the buffers implement `ListColumn`: rows appear one per item, in order, each with the lists, nulls and values of the item, and an error has a reason in the items |
| `NestedColumnsProofs!NestedTypeCorrect`, `NestedNeverPanics`, `ColumnsAreTheLeaves` | types; no hand-written frame makes a list constructor panic; the four branches implement `NestedField` |
| `ColumnarFrameProofs!FrameTypeCorrect`, `FrameNeverPanics`, `SchemaNamesUnique`, `EveryCallAnswersTheTable` | types; no bit past a bitmap; distinct names; every entry point implements `DeclaredTable` |
| `DeriveInputProofs!DeriveTyped` | every part of a derive is in a state of its own |
| `DeriveInputProofs!BuffersMatchScans`, `TuplesReached` | each boundary of each column counts an Option exactly when its chain has one; a projected chain starts with the tuple's |
| `DeriveInputProofs!NestedTuplesStayBare`, `ConflictsExplained` | the projection's assertion never fails; a conflict is explained by the two attributes in conflict |
| `DeriveInputProofs!ConfigFromOverrides`, `RuntimesNeverMixed`, `PolarsOfOneRuntime` | a configuration is that of overrides checked together; one runtime; one Polars |
| `DeriveInputProofs!AcceptedAreDerived` | a derive that succeeds was on an item that is promised to, and one that fails on another: no check refuses what another accepts, and none is missing |
| `DeriveInputProofs!ColumnForEveryLeaf` | one column for every leaf of every field that is kept, in the order of the declaration |
| `DeriveInputProofs!ShapesFollowTypes` | each column has the list layers and the nullable places that the wrappers around its leaf stand for |
| `ColumnReadingProofs!ColumnsReadRowHolds` | every expression generated for a column has a type, and what it reads is what the path to the leaf means, at every index and nowhere else, for stacks and lists of any length and tuples of any width, nested to any depth |
| `ColumnReadingProofs!IInvHolds` | its invariant: what waits to be projected, the columns there are and the cells that were read |
| `LeafConversionProofs!EveryDecimalNearest` | every decimal is nearest to its row's value, ties to even, within the precision |
| `LeafConversionProofs!RefusalsRight` | a column is refused only for a nearest mantissa with too many digits, or a time that does not fit |
| `LeafConversionProofs!CellsInOrder` | rounding and truncating keep the order of the rows, a leap second counting as the second after it |

*ShapeScan.*  `BuffersInStep` with `TypeOK` is inductive (`IInv`).  That the scan stays
within the precounted sizes is not: it relates two moments of one run.  `ShapeScan`
therefore keeps a history variable `trail`, the spots of the walk at which the
precount counted, with the counts it had reached there.  `JInv` says that the scan is
always at, or on its way to, the next spot of the trail with exactly that much stored,
that every spot but the last has its successor, and that loops inside the innermost
open one are exhausted; from it follow the exact reservations, and from those that no
index leaves a bitmap.

*The column.*  What is read back (`ListsRead`), what should be (`Row`), what cannot be encoded
(`Broken`) and how much is stored below a node (`Weight`) are recursive functions over the
loops, and a sum (`SumTo`) is one over the naturals: the prover takes such a definition
only once a function that satisfies it is shown to exist (`ReadEquation`, `RowEquation` and
their like: built from the leaves outwards).  `KInv` is `JInv` with `ScanAccounted`: there are
lists `q`, one for each open loop, and weights `t` that account for everything stored.  Loop
`m` runs over `q[m]`, and loop `m + 1` over the element of it that is being read (`Walked`);
what has been stored since the list was entered is read back as the rows of the elements done,
none of them broken (`ReadBack`); and from the items inwards, the weights of the elements done
add up to the number of lists of each layer, of leaves and of gathered values (`Weighed`).
Beside that, offsets and indices are in range, lists that are open are valid, and a bitmap is
as it was filled beyond the leaves stored (`InRange`, `OpenIsValid`, `LeavesSound`).  Since
buffers only grow, what was read is read again (`StillRead`); so a list that is left is one more
element done of the list around it (`RowOfLeft`), and when that is the slice of items, a row
appears (`AddedRow`).  A leaf that cannot be encoded, or an index that does not fit, is a part of
the element around it, and so on outwards to the item (`BrokenOutwards`, `WeightOutwards`), which
is the reason `ListColumn` asks an error for.  Null is not a number (`NoneAssumption`), since
otherwise a position could be one.

*NestedColumns.*  `NInv` is `TypeOK`, `NeverPanics`, that the references and positions
are those of the leaves visited (`Gathered`), and that the branch that runs is the one
for these lengths (`Progress`).  Each branch's column is then `NestedField`'s.

*ColumnarFrame.*  `FInv` says what every buffer holds.  A field in the running loop has
been pushed once for each finished item and once more if its turn in this item has
passed (`LoopReads`); a row-wise field whose builder has not run has been pushed for
all items (`WaitingReads`), across the loops that projected leaves run in between;
every column added has one cell per item (`CellsPerItem`); and where the names are not
tested each begins with the name of its own field (`NamesApart`).  The refinement is
proved step by step: pushes are hidden, a builder adds its field's declared columns,
and a failing step has the reason `DeclaredTable` asks for.  That schema and empty series are the
declared columns without cells is `ShapeEntries`.

*The derive.*  `FieldInv` holds the types, that the current field is one the struct has,
and that the trees are `Closed`: the root and every element of a node that was visited has
been visited or is on the stack, so that when the stack is empty no element is missing.
`GoodNorm` says of the normalising loop that the layers so far count an Option exactly when
their chains have one; it needs no more than `OptionCount`, that a chain counts none if and
only if it has none, and `NormalEndGood` hands it to the shape.  `ProjectInv` says that the trees
waiting are closed and their shapes good, that the elements waiting are in the tree of the first
field, and that the columns are good; a step of it is `ComposeGood` and
`ComposedReachable`, the two facts about composed shapes.  `NestInv` relates the phases: a
plain tuple reaches the end of the normalising loop as it started (`Nesting`), and every
element that waits has a tuple above it whose shape it was given (`TreesBare`).  `Taken`
says that what refuses a field with items left is the first of these against the attribute
before it, and `ConflictSpeaks` that no two keys get to the last arm of the match.
`ContainerInv` says that the slots hold what is written on the struct and that a
configuration was made of slots that passed the checks.

*What is accepted.*  The promise is about the syntax of the whole item, and the derive
looks at one piece at a time.  Of one attribute it says which arguments are taken
(`ItemAccepted`: a precision from 1 to 38 and a scale up to it in either order, one of three
units, a prefix or none), without the order in which the parser tests them; `ItemAcceptedAs` is
that the parser refuses exactly the others.  `PromiseInv` says of each phase what the checks passed so
far amount to.  `SlotsRead`: the overrides in the slots are the container's first items, each
accepted and with a key of its own.  `FieldsRead` and `IRsRead`: the fields lowered are the
first ones of the struct, all accepted, and those that are kept have left a tree
(`TreeOf`).  Within a field, `AttrsRead`: the override is the first attribute and was not
refused; `AnalyzeInv`: each node analysed has the wrappers of its type up to what an unsized
base keeps, and no mutable reference (`PeeledSoFar` for the one being peeled); `LowerInv`: the
nodes lowered have leaves that the conversion allows, and shapes of their own wrappers
(`NormalizedSoFar`).  Refusals go the other way: `Decided` and the last conjunct of
`FieldPromise` say that a derive or a field that failed is not accepted, whatever part of
it has not been looked at yet, and that needs that what was passed over before a later check
cannot refuse it either (`TypeRefused`, the attribute rules among them).

*Columns.*  `Projecting` speaks of what waits: every leaf of a kept field has its column or is
below a waiting element or field (`LeavesCovered`), the columns so far are before whatever
waits (`ColumnsFirst`) and in order, and waiting elements are in order, too (`InTurn`).  With
nothing waiting that is `ColumnPerLeaf`.

*Shapes.*  `ShapedBy` relates a shape to a stack of wrappers: as many layers as there are
Vecs, and an Option in a boundary exactly if there is one at that place of the stack.  It is
kept by the normalising loop, one wrapper at a time, and by composing a tuple's shape with an
element's (`NestedComposed`: the composed shape is that of the stacks joined).  `ShapeInv` then
says that every column is laid out as the stack around its path and that what waits carries its
tuple's.  The stacks of a path are those of at most two of its nodes, since a tuple in a tuple
has no list or Option of its own and neither has the tuple around it (`TuplesBare`, from
the promise): that is why one step of composition is enough at any depth.

*Reading.*  `Meaning` speaks of whole stacks, the code of chains that were cut out of them.
So a stack is cut first: `IsCut` says that `v[k]` of its wrappers are off when `k` lists have been
entered, that the chain of a layer is the stretch from there to the next list, and that outside
the first stretch are only the pointers that were counted; the normalising loop keeps it, one
wrapper at a time (`LoweredCut`).  By the cut, the lists around a wrapper can be counted
(`CutLevels`, a cardinality), so what an index path means is decided by one stretch
(`OwnMeaning`), or, for an element of a wrapped tuple, by the last one of the tuple and the
first of the element where they meet (`ElementMeaning`).  On the code's side, a chain is
followed step by step: after `n` steps the expression is the Option or reference of the place
`n` wrappers further in, less the pointers that wait, or `None` once an Option on the way was
absent (`Passed`, `ChainFromPlace`; `ChainFromOpt` from the Option of a tuple, `CollapsedChain`
for Options alone, which are collapsed in another way to the same).  Each way to begin and
to end a chain then is a lemma: a leaf without a list (`PlaceScalar`, `OptionScalar`), a leaf in a list
(`PlaceLeafInList`, `ElementLeafInList`), a list (`LayerFromPlace`, `LayerFromOpt`), an element of a
tuple (`ElementReached`).  The loops are put together by `ListsRead`: if what is bound at an
index path reads the list or leaf that is meant there, and its items are what is bound one
index further, then all that is meant is read and nothing else.  What is bound is said for
the three kinds of columns (`OwnLists`, `OptionalLists`, `ListedLists`), the last with the tuple's
places down to the projection and the element's from there on (`ElementBound`).  `IInv` says
that the columns are of these kinds (`OwnColumn`, `TupleColumn`), which is kept because what
waits is an element of the field's own tuple with its shape, or of a tuple in it with no shape
and only pointers on the way (`WaitingElements`); and of the cells so far what is to be shown.

*Numbers.*  `CellInv` says that each cell is a conversion of its row, and that a refused column
stopped at a row that has none.  A decimal is taken as a fraction of the column's units
(`FractionValue`); a mantissa is the integer nearest to it with ties to even
(`MantissaNearest`, from the three cases of a remainder against half of an even power), of two
fractions in order so are the nearest integers (`NearestOrdered`: if two halves meet, both go to
the same even integer), and so there is only one (`NearestUnique`), which is why a mantissa with
too many digits leaves no other that would have fitted.  For times, dividing downward and
toward zero keep order (`DivisionOrdered`, `TowardZeroOrdered`), carrying a leap second changes no sum
(`CarriedNanos`), and what is out of a word after
dividing was out of a word of units before (`DividedBelow`).

*Induction.*  The library's induction theorems take an operator as a parameter, which the
backends cannot instantiate.  That the naturals are well-founded is a theorem without one, and
`LeastNatural` and `SetInduction` say with it that a set of naturals has a least
element and that a set closed under successor has all of them; sums of exponents (`PowerAdds`), the
recursion over the loops of a scan (`Outwards`), the
steps along a chain, the stacks of a path and the nodes still unvisited of a type are reasoned about this way.

*Only model-checked.*  `DeriveEnds`, which is liveness under fairness.  Every other property of
a run, invariant or refinement, is a theorem.

## 6. What is not modelled

* The arrays that a list of plain booleans is assembled into (`vec.rs` 440-488).  When that
  path is taken, and that it reads what the scan would, is in `ColumnReading`.
* How string leaves borrow (`as_ref`, `as_str`, `to_string`): a string is a value.
* Consecutive Options collapse to one null, as the repository's README says of Polars
  lists, so an item of `ShapeScan` and `ColumnarFrame` has one absent value.
* The parser of Rust syntax (`syn`), the splitting of attributes into items, and the
  reading of Cargo metadata (`proc-macro-crate`): what they find is an input.  Which path
  names which type (`known_types.rs`, `path_match.rs`) is the base of a node.
* The wording of messages, except which attributes a conflict's message speaks of.
* Numbers that are cast without a change (`numeric.rs`): there is nothing that could fail.
* Polars and Arrow: `LargeListArray::new`, `MutableBitmap::set`, `new_infer_height` and
  `take` are modelled by the conditions under which they succeed.
* Where-clauses and compile-time asserts (`bounds.rs`, `asserts.rs`, `type_deps.rs`)
  constrain rustc and have no run.
* Benchmarks and examples, which time and show the derive.
