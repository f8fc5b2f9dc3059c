--------------------------- MODULE FieldLowering ---------------------------
(***************************************************************************)
(* Lowering one field of the deriving struct: its attributes are read, its *)
(* type is analysed, and leaf and wrapper shape of the type and of every   *)
(* tuple element in it are settled, or the derive fails.  The loops of the *)
(* code take one item or wrapper per step, and its recursion over tuple    *)
(* elements is a stack of paths still to be visited.                       *)
(*                                                                         *)
(* A type is a tree: it maps the path of each node (<<>>, <<2>> for the    *)
(* second tuple element, ...) to the wrappers written around the node and  *)
(* the type they are written around.                                       *)
(***************************************************************************)
EXTENDS FieldAttributes, WrapperShapes

LOCAL INSTANCE SequencesExt

Root == <<>>

(* What can be written around a type. Box, Rc and Arc are pointers; str    *)
(* and slices are types only behind a pointer.                             *)
SpineSteps == {"Option", "Vec", "Pointer", "Cow", "Ref", "MutRef"}
Unsized    == {"str", "bytes", "slice"}
Refused    == {"Collection", "BareDuration", "Unsupported"}
RowTypes   == {"Struct", "Generic"}
SizedBases ==
  RowTypes \union {"Numeric", "u8", "String", "Bool", "DateTimeTz", "NaiveDate",
    "NaiveTime", "NaiveDateTime", "StdDuration", "ChronoDuration", "Decimal",
    "Self", "Tuple"}
TypeBases  == SizedBases \union Unsized \union Refused

Borrowed ==
  [Ref |-> [str |-> "BorrowedStr", bytes |-> "BorrowedBytes", slice |-> "BorrowedSlice"],
   Cow |-> [str |-> "CowStr",      bytes |-> "CowBytes",      slice |-> "CowSlice"]]
TextBases     == RowTypes \union {"String", "BorrowedStr", "CowStr"}
BorrowedBases == {Borrowed[s][b] : s \in {"Ref", "Cow"}, b \in Unsized}
AnalyzedBases == SizedBases \union BorrowedBases

Elements(ty, p) == {q \in DOMAIN ty : q # Root /\ Front(q) = p}
ElementSeq(ty, p) == [i \in 1 .. Cardinality(Elements(ty, p)) |-> Append(p, i)]

(* Arguments as they are written: names with a value, a number (a u8) for  *)
(* `decimal`, and for `time_unit` the one value that is its unit.          *)
WellFormedArgs(key, args) ==
  /\ args \in Seq({args[i] : i \in DOMAIN args})
  /\ \A i \in DOMAIN args :
       /\ args[i] = <<args[i][1], args[i][2]>>
       /\ key = "decimal" => args[i][2] \in Nat
  /\ key = "time_unit" => Len(args) = 1 /\ args[1][1] = "unit"

(* A field as it is written: its place in the struct, its attribute items  *)
(* and its type.  Only tuples have elements, which are numbered from 1.    *)
WellFormedField(f) ==
  /\ f.name \in Nat
  /\ f.attrs \in Seq({f.attrs[i] : i \in DOMAIN f.attrs})
  /\ \A i \in DOMAIN f.attrs : WellFormedArgs(f.attrs[i].key, f.attrs[i].args)
  /\ Root \in DOMAIN f.ty /\ DOMAIN f.ty \subseteq Seq(Nat)
  /\ \A p \in DOMAIN f.ty :
       /\ f.ty[p].spine \in Seq(SpineSteps) /\ f.ty[p].base \in TypeBases
       /\ \A n \in 0 .. Len(p) : SubSeq(p, 1, n) \in DOMAIN f.ty
       /\ IsFiniteSet(Elements(f.ty, p))
       /\ Elements(f.ty, p) = {Append(p, i) : i \in 1 .. Cardinality(Elements(f.ty, p))}
       /\ Elements(f.ty, p) # {} => f.ty[p].base = "Tuple"

VARIABLES
  field,      (* The field being lowered.                                  *)
  phase,      (* The part of `lower_field` that runs, or how it ended.     *)
  items,      (* The attribute items still to be read.                     *)
  override,   (* The attribute the field has so far.                       *)
  work,       (* The nodes still to be visited, the current one first.     *)
  rest,       (* The wrappers of the current node still to be dealt with.  *)
  peeled,     (* What peeling the current node has found.                  *)
  analyzed,   (* The nodes analysed: base, wrappers, outer pointers.       *)
  norm,       (* The normalising loop over the current node's wrappers.    *)
  lowered,    (* The nodes lowered: leaf, shape, outer pointers.           *)
  error       (* Why the derive failed.                                    *)

analysis == <<rest, peeled, analyzed>>
lowering == <<norm, lowered>>
fieldVars == <<field, phase, items, override, work, analysis, lowering, error>>

NothingPeeled == [wrappers |-> <<>>, outer |-> 0]
Current       == Head(work)
Over          == {"lowered", "skipped", "error"}

(* What is held in place of a field when there is none.                    *)
NoField == [name |-> 0, attrs |-> <<>>, ty |-> <<>>]

NothingLoaded ==
  /\ field = NoField
  /\ phase = "none"
  /\ items = <<>>
  /\ override = NoAttr
  /\ work = <<>>
  /\ rest = <<>>
  /\ peeled = NothingPeeled
  /\ analyzed = <<>>
  /\ norm = NormalStart
  /\ lowered = <<>>
  /\ error = "none"

LoadField(f) ==
  /\ field' = f
  /\ phase' = "attributes"
  /\ items' = f.attrs
  /\ override' = NoAttr
  /\ work' = <<>>
  /\ rest' = <<>>
  /\ peeled' = NothingPeeled
  /\ analyzed' = <<>>
  /\ norm' = NormalStart
  /\ lowered' = <<>>
  /\ error' = "none"

Fail(why) ==
  /\ phase' = "error"
  /\ error' = why
  /\ UNCHANGED <<field, items, override, work, analysis, lowering>>

-----------------------------------------------------------------------------
(* Attributes: each item is understood before it can conflict.             *)

ItemError(item) ==
  IF ItemRefused(item) # "none" THEN ItemRefused(item)
  ELSE SetOverrideRefused(override, FieldAttr(item))

ReadItem ==
  /\ phase = "attributes" /\ items # <<>>
  /\ ItemError(Head(items)) = "none"
  /\ override' = FieldAttr(Head(items))
  /\ items' = Tail(items)
  /\ UNCHANGED <<field, phase, work, analysis, lowering, error>>

RefuseItem ==
  /\ phase = "attributes" /\ items # <<>>
  /\ ItemError(Head(items)) # "none"
  /\ Fail(ItemError(Head(items)))

(* A skipped field is left alone before its type is looked at.             *)
SkipField ==
  /\ phase = "attributes" /\ items = <<>>
  /\ override.key = "skip"
  /\ phase' = "skipped"
  /\ UNCHANGED <<field, items, override, work, analysis, lowering, error>>

IncludeField ==
  /\ phase = "attributes" /\ items = <<>>
  /\ override.key # "skip"
  /\ phase' = "analyze"
  /\ work' = <<Root>>
  /\ rest' = field.ty[Root].spine
  /\ UNCHANGED <<field, items, override, peeled, analyzed, lowering, error>>

-----------------------------------------------------------------------------
(* Type analysis.                                                          *)

(* `Cow<str>`, `&str` and their slice forms are types of their own.        *)
KeptAsBase ==
  /\ Len(rest) = 1
  /\ Head(rest) \in {"Cow", "Ref"}
  /\ field.ty[Current].base \in Unsized

Peeling == phase = "analyze" /\ work # <<>> /\ rest # <<>> /\ ~KeptAsBase

(* A pointer is counted outside the first Option or Vec, and is an access  *)
(* step inside it.                                                         *)
PeelWrapper ==
  /\ Peeling /\ Head(rest) # "MutRef"
  /\ peeled' =
       CASE Head(rest) \in {"Option", "Vec"} ->
              [peeled EXCEPT !.wrappers = Append(@, Head(rest))]
         [] Head(rest) \notin {"Option", "Vec"} /\ peeled.wrappers = <<>> ->
              [peeled EXCEPT !.outer = @ + 1]
         [] OTHER -> [peeled EXCEPT !.wrappers = Append(@, "SmartPtr")]
  /\ rest' = Tail(rest)
  /\ UNCHANGED <<field, phase, items, override, work, analyzed, lowering, error>>

RefuseMutRef ==
  /\ Peeling /\ Head(rest) = "MutRef"
  /\ Fail("mutable_reference")

BaseError ==
  LET base == field.ty[Current].base
  IN CASE rest = <<>> /\ base \in Unsized \union Refused -> base
       [] rest = <<>> /\ base = "Tuple" /\ Elements(field.ty, Current) = {} -> "unit"
       [] OTHER -> "none"

BaseOf ==
  LET base == field.ty[Current].base
  IN IF rest = <<>> THEN base ELSE Borrowed[Head(rest)][base]

AtBase == phase = "analyze" /\ work # <<>> /\ (rest = <<>> \/ KeptAsBase)

(* Elements are analysed when the tuple is, ahead of what follows it.      *)
AnalyzeBase ==
  /\ AtBase /\ BaseError = "none"
  /\ analyzed' = [p \in DOMAIN analyzed \union {Current} |->
                    IF p = Current
                    THEN [base |-> BaseOf, wrappers |-> peeled.wrappers,
                          outer |-> peeled.outer]
                    ELSE analyzed[p]]
  /\ work' = ElementSeq(field.ty, Current) \o Tail(work)
  /\ rest' = IF work' = <<>> THEN <<>> ELSE field.ty[Head(work')].spine
  /\ peeled' = NothingPeeled
  /\ UNCHANGED <<field, phase, items, override, lowering, error>>

RefuseBase ==
  /\ AtBase /\ BaseError # "none"
  /\ Fail(BaseError)

-----------------------------------------------------------------------------
(* What is checked of the analysed type before it is lowered.              *)

IsTuple(p) == analyzed[p].base = "Tuple"
Wrapped(p) == analyzed[p].wrappers # <<>>

SelfReferenceOutside == analyzed[Root].base = "Self"

SelfReference == \E p \in DOMAIN analyzed : analyzed[p].base = "Self"

WrappedNestedTupleInside ==
  \E p \in DOMAIN analyzed : \E q \in Elements(field.ty, p) :
    IsTuple(p) /\ IsTuple(q) /\ Wrapped(q)

WrappedNestedTuple ==
  \E p \in DOMAIN analyzed : \E q \in Elements(field.ty, p) :
    IsTuple(p) /\ IsTuple(q) /\ (Wrapped(p) \/ Wrapped(q))

(* `as_binary` takes the innermost Vec of a u8 for itself.                 *)
BinaryError ==
  LET base == analyzed[Root].base
      ws   == analyzed[Root].wrappers
  IN CASE base = "Tuple" -> "attribute_on_tuple"
       [] base \in {"BorrowedBytes", "CowBytes"} -> "none"
       [] base \in {"BorrowedSlice", "CowSlice"} -> "binary_of_slice"
       [] base \in TextBases \union (SizedBases \ {"Tuple", "u8"}) -> "binary_of_other"
       [] base = "u8" -> CASE ws = <<>> \/ ws = <<"Option">> -> "binary_of_byte"
                           [] Len(ws) > 1 /\ Last(ws) = "Option" -> "binary_of_optional_byte"
                           [] Len(ws) > 1 /\ Last(ws) = "SmartPtr" -> "binary_of_other"
                           [] Len(ws) > 0 /\ Last(ws) = "Vec" -> "none"

CheckError ==
  CASE SelfReference -> "self_reference"
    [] ~SelfReference /\ WrappedNestedTuple -> "wrapped_nested_tuple"
    [] OTHER -> IF override.key = "as_binary" THEN BinaryError ELSE "none"

RootWrappersUntrimmed == analyzed[Root].wrappers

RootWrappers ==
  LET ws == analyzed[Root].wrappers
  IN IF override.key = "as_binary" /\ analyzed[Root].base = "u8"
     THEN Front(ws) ELSE ws

AnalysisDone == phase = "analyze" /\ work = <<>>

AcceptType ==
  /\ AnalysisDone /\ CheckError = "none"
  /\ phase' = "lower"
  /\ work' = <<Root>>
  /\ rest' = RootWrappers
  /\ UNCHANGED <<field, items, override, peeled, analyzed, lowering, error>>

RefuseType ==
  /\ AnalysisDone /\ CheckError # "none"
  /\ Fail(CheckError)

-----------------------------------------------------------------------------
(* Leaves.  Every conversion lists the bases it accepts.                   *)

ShownBases == AnalyzedBases \
  {"StdDuration", "BorrowedBytes", "CowBytes", "BorrowedSlice", "CowSlice", "Tuple"}
TimedBases == {"DateTimeTz", "NaiveDateTime", "StdDuration", "ChronoDuration"}
PlainBases == AnalyzedBases \ {"BorrowedBytes", "CowBytes", "BorrowedSlice", "CowSlice"}

TimedSpec(base) ==
  IF base \in {"StdDuration", "ChronoDuration"} THEN "Duration" ELSE base

DefaultLeaf(base) ==
  CASE base \in {"Numeric", "u8"} -> [spec |-> "Numeric", value |-> <<>>]
    [] base \in {"BorrowedStr", "CowStr"} -> [spec |-> "AsStr", value |-> <<>>]
    [] base \in {"DateTimeTz", "NaiveDateTime"} -> [spec |-> base, value |-> <<"ms">>]
    [] base \in {"StdDuration", "ChronoDuration"} -> [spec |-> "Duration", value |-> <<"ns">>]
    [] base = "Decimal" -> [spec |-> "Decimal", value |-> <<38, 10>>]
    [] OTHER -> [spec |-> base, value |-> <<>>]

Shape == NormalEnd(norm)

LeafAccepted(base) ==
  IF Current # Root THEN base \in PlainBases
  ELSE CASE override.key = "none" -> base \in PlainBases
    [] override.key = "flatten"   -> base \in RowTypes /\ Shape = Bare
    [] override.key = "as_str"    -> base \in TextBases
    [] override.key = "as_string" -> base \in ShownBases
    [] override.key = "decimal"   -> base \in RowTypes \union {"Decimal"}
    [] override.key = "time_unit" -> base \in TimedBases
    [] override.key = "as_binary" -> TRUE

LeafOf(base) ==
  IF Current # Root \/ override.key \in {"none", "flatten"} THEN DefaultLeaf(base)
  ELSE CASE override.key = "as_str" -> [spec |-> "AsStr", value |-> <<>>]
    [] override.key = "as_string" -> [spec |-> "AsString", value |-> <<>>]
    [] override.key = "as_binary" -> [spec |-> "Binary", value |-> <<>>]
    [] override.key = "decimal"   -> [spec |-> "Decimal", value |-> override.value]
    [] override.key = "time_unit" -> [spec |-> TimedSpec(base), value |-> override.value]

-----------------------------------------------------------------------------
Lowering == phase = "lower" /\ work # <<>>

NormalizeWrapper ==
  /\ Lowering /\ rest # <<>>
  /\ norm' = NormalStep(norm, Head(rest))
  /\ rest' = Tail(rest)
  /\ UNCHANGED <<field, phase, items, override, work, peeled, analyzed, lowered, error>>

(* An element's leaf is settled before its wrappers are normalised, here   *)
(* after: normalising cannot fail and neither reads what the other writes. *)
LowerLeaf ==
  /\ Lowering /\ rest = <<>>
  /\ LeafAccepted(analyzed[Current].base)
  /\ lowered' = [p \in DOMAIN lowered \union {Current} |->
                   IF p = Current
                   THEN [leaf  |-> LeafOf(analyzed[Current].base),
                         shape |-> Shape, outer |-> analyzed[Current].outer]
                   ELSE lowered[p]]
  /\ work' = ElementSeq(field.ty, Current) \o Tail(work)
  /\ rest' = IF work' = <<>> THEN <<>> ELSE analyzed[Head(work')].wrappers
  /\ norm' = NormalStart
  /\ UNCHANGED <<field, phase, items, override, peeled, analyzed, error>>

RefuseLeaf ==
  /\ Lowering /\ rest = <<>>
  /\ ~LeafAccepted(analyzed[Current].base)
  /\ Fail("conversion")

FinishField ==
  /\ phase = "lower" /\ work = <<>>
  /\ phase' = "lowered"
  /\ UNCHANGED <<field, items, override, work, analysis, lowering, error>>

NamePolicy ==
  CASE override.key # "flatten" -> "Field"
    [] override.key = "flatten" /\ override.value = <<>> -> "Flatten"
    [] OTHER -> "Prefix"

FieldIR == [name |-> field.name, tree |-> lowered, policy |-> NamePolicy]

-----------------------------------------------------------------------------
Attributes == ReadItem \/ RefuseItem \/ SkipField \/ IncludeField
Analysis   == PeelWrapper \/ RefuseMutRef \/ AnalyzeBase \/ RefuseBase
                \/ AcceptType \/ RefuseType
Leaves     == NormalizeWrapper \/ LowerLeaf \/ RefuseLeaf \/ FinishField

FieldNext == Attributes \/ Analysis \/ Leaves
=============================================================================
