----------------------------- MODULE RustAccess -----------------------------
(***************************************************************************)
(* The expressions the derive generates to reach a leaf, evaluated.        *)
(*                                                                         *)
(* A row is a field type, a tree of wrapper stacks and bases, and a value  *)
(* of it: how many things there are inside each Option, 0 or 1, and each   *)
(* list.  A place in a row is a node of the tree, the number of wrappers   *)
(* of its stack that are off, and the index taken in each list on the way. *)
(*                                                                         *)
(* An expression is a place, an Option made by a method, or the items that *)
(* a loop runs over, behind any number of references.  An explicit `*`     *)
(* takes off exactly one reference or pointer; methods and fields look     *)
(* through them; and what Rust would not accept is `Mistyped`, and stays.  *)
(***************************************************************************)
EXTENDS WrapperShapes

Place(row, node, depth, at) ==
  [row |-> row, node |-> node, depth |-> depth, at |-> at]

Node(place)        == place.row.ty[place.node]
Inside(place, n)   == [place EXCEPT !.depth = @ + n]
ItemOf(place, i)   == [place EXCEPT !.depth = @ + 1, !.at = Append(@, i)]

(* The next n wrappers of a place are of one kind.                         *)
IsWrapped(place, wrapper, n) ==
  /\ place.depth + n <= Len(Node(place).spine)
  /\ \A i \in 1 .. n : Node(place).spine[place.depth + i] = wrapper
IsBare(place) == place.depth = Len(Node(place).spine)

(* What is inside a place that the value does not speak of: nothing.       *)
Count(place) ==
  LET key == <<place.node, place.depth, place.at>>
  IN IF key \in DOMAIN place.row.value THEN place.row.value[key] ELSE 0

-----------------------------------------------------------------------------
Expr(t, refs, of) == [t |-> t, refs |-> refs, of |-> of]

Mistyped  == Expr("mistyped", 0, <<>>)
At(place) == Expr("place", 0, place)
Ref(x)    == IF x.t = "mistyped" THEN x ELSE [x EXCEPT !.refs = @ + 1]
None      == Expr("none", 0, <<>>)
Some(x)   == IF x.t = "mistyped" THEN x ELSE Expr("some", 0, x)
Items(xs) == Expr("items", 0, xs)

DerefTimes(x, n) ==
  CASE n <= x.refs -> [x EXCEPT !.refs = @ - n]
    [] n > x.refs /\ x.t = "place" /\ IsWrapped(x.of, "SmartPtr", n - x.refs) ->
         At(Inside(x.of, n - x.refs))
    [] OTHER -> Mistyped
Deref(x) == DerefTimes(x, 1)

(* What is behind the references of x, and behind references and pointers. *)
Referent(x) == [x EXCEPT !.refs = 0]
Pointers(place) ==
  CHOOSE n \in 0 .. Len(Node(place).spine) - place.depth :
    IsWrapped(place, "SmartPtr", n) /\ ~IsWrapped(Inside(place, n), "SmartPtr", 1)
Target(x) == IF x.t = "place" THEN At(Inside(x.of, Pointers(x.of))) ELSE Referent(x)

(* The Option that a place is, as a method would have made it.             *)
Opened(x) ==
  IF x.t = "place" /\ IsWrapped(x.of, "Option", 1)
  THEN IF Count(x.of) = 0 THEN None ELSE Some(At(Inside(x.of, 1)))
  ELSE x
IsSome(x)   == x.refs = 0 /\ Opened(x).t = "some"
IsNone(x)   == x.refs = 0 /\ Opened(x).t = "none"
IsOption(x) == IsSome(x) \/ IsNone(x)

(* `x.i`, `x.iter()`, `x.as_ref()`, `x.map(f)`, `x.and_then(f)` and        *)
(* `x.copied()`.                                                           *)
Item(x, i) ==
  LET tuple == Target(x)
  IN IF /\ tuple.t = "place" /\ IsBare(tuple.of) /\ Node(tuple.of).base = "Tuple"
        /\ Append(tuple.of.node, i) \in DOMAIN tuple.of.row.ty
     THEN At(Place(tuple.of.row, Append(tuple.of.node, i), 0, tuple.of.at))
     ELSE Mistyped
Iter(x) ==
  LET list == Target(x)
  IN IF list.t = "place" /\ IsWrapped(list.of, "Vec", 1)
     THEN Items([i \in 1 .. Count(list.of) |-> Ref(At(ItemOf(list.of, i)))])
     ELSE Mistyped
AsRef(x) ==
  LET o == Referent(x)
  IN CASE IsSome(o) -> Some(Ref(Opened(o).of)) [] IsNone(o) -> None [] OTHER -> Mistyped
Map(x, F(_)) ==
  CASE IsSome(x) -> Some(F(Opened(x).of)) [] IsNone(x) -> None [] OTHER -> Mistyped
AndThen(x, F(_)) ==
  CASE IsSome(x) -> IF IsOption(F(Opened(x).of)) THEN F(Opened(x).of) ELSE Mistyped
    [] IsNone(x) -> None
    [] OTHER -> Mistyped
AndThenAsRef(x) == AndThen(x, AsRef)
Copied(x)       == Map(x, Deref)

(* `match x { Some(v) => on(v), None => null }`: a reference to an Option  *)
(* binds a reference to what is in it.                                     *)
Bound(x) ==
  LET v == Opened(Referent(x)).of IN IF x.refs > 0 THEN Ref(v) ELSE v
Match(x, On(_), null) ==
  CASE IsSome(Referent(x)) -> On(Bound(x)) [] IsNone(Referent(x)) -> null [] OTHER -> Mistyped

-----------------------------------------------------------------------------
(* The access chain of a boundary.                                         *)

CollapseOptionsToRef(base, n) ==
  LET collapsed[i \in 1 .. n] ==
        IF i = 1 THEN AsRef(base) ELSE AndThenAsRef(collapsed[i - 1])
  IN IF n = 0 THEN base ELSE collapsed[n]

(* `n` explicit derefs and the one of the reference they start from.       *)
DerefRef(base, n) == IF n = 0 THEN base ELSE Ref(DerefTimes(base, n + 1))
ApplyPending(acc) ==
  IF acc.has_option /\ acc.pending > 0
  THEN Map(acc.expr, LAMBDA x : DerefRef(x, acc.pending))
  ELSE DerefRef(acc.expr, acc.pending)

ChainStart(base) == [expr |-> base, has_option |-> FALSE, pending |-> 0]
ChainStep(acc, step) ==
  IF step = "SmartPtr" THEN [acc EXCEPT !.pending = @ + 1]
  ELSE [expr       |-> IF acc.has_option THEN AndThenAsRef(ApplyPending(acc))
                       ELSE AsRef(ApplyPending(acc)),
        has_option |-> TRUE,
        pending    |-> 0]
ChainEnd(base, chain) ==
  LET acc[i \in 0 .. Len(chain)] ==
        IF i = 0 THEN ChainStart(base) ELSE ChainStep(acc[i - 1], chain[i])
  IN acc[Len(chain)]

Accessed(acc) == [expr |-> ApplyPending(acc), has_option |-> acc.has_option]
AccessChainToRef(base, chain) ==
  IF IsOnlyOptions(chain)
  THEN [expr |-> IF Len(chain) <= 1 THEN base ELSE CollapseOptionsToRef(base, Len(chain)),
        has_option |-> Len(chain) > 0]
  ELSE Accessed(ChainEnd(base, chain))

AccessChainToOptionRef(base, chain) ==
  IF IsOnlyOptions(chain) THEN CollapseOptionsToRef(base, Len(chain))
  ELSE AccessChainToRef(base, chain).expr

-----------------------------------------------------------------------------
(* From the row to the field, and through tuples to an element.  A path    *)
(* comes with the pointers around the field and around each element.       *)

FieldSourceAccess(row, column) ==
  DerefTimes(At(Place(row, <<>>, 0, <<>>)), column.outer[1])

TuplePath(x, column) ==
  LET element[i \in 0 .. Len(column.path)] ==
        IF i = 0 THEN x
        ELSE DerefTimes(Item(element[i - 1], column.path[i]), column.outer[i + 1])
  IN element[Len(column.path)]
ProjectPath(tuple_ref, column) == Ref(TuplePath(Deref(tuple_ref), column))

TupleStaticAccess(row, column) == TuplePath(FieldSourceAccess(row, column), column)

(* Leaves that are Copy are copied out of the tuple, Options and all,      *)
(* unless there is a pointer or a list on the way.                         *)
IsCopyLeaf(column) == column.leaf.spec \in {"Numeric", "Bool"}
IsCopyProjection(column) ==
  /\ IsCopyLeaf(column)
  /\ ~IsVec(column.shape) /\ HasInnerOption(column.shape)
  /\ IsOnlyOptions(column.shape.inner_access)

TupleParentOptionAccess(row, column) ==
  Map(AccessChainToOptionRef(FieldSourceAccess(row, column), column.parent_access),
      LAMBDA tuple : IF IsCopyProjection(column) THEN Deref(ProjectPath(tuple, column))
                     ELSE ProjectPath(tuple, column))

-----------------------------------------------------------------------------
(* Inside a list: the tuple of an item, and the element of that tuple that *)
(* the path ends with.                                                     *)

ProjectElement(tuple_ref, column) ==
  Ref(DerefTimes(Item(Deref(tuple_ref), column.path[Len(column.path)]),
                 column.outer[Len(column.outer)]))

ProjectedLayerBind(item, column) ==
  IF HasOption(column.parent_access)
  THEN Map(AccessChainToOptionRef(item, column.parent_access),
           LAMBDA tuple : ProjectElement(tuple, column))
  ELSE ProjectElement(AccessChainToRef(item, column.parent_access).expr, column)

WholeLeafAccess(column) == column.shape.inner_access

(* The chain of the leaf without that of the tuple it starts with.         *)
LeafProjectionAccess(column) ==
  SubSeq(column.shape.inner_access, Len(column.parent_access) + 1,
         Len(column.shape.inner_access))

ElementAccess(projected_ref, chain) ==
  IF HasOption(chain) THEN AccessChainToOptionRef(projected_ref, chain)
  ELSE AccessChainToRef(projected_ref, chain).expr

ProjectedLeaf(item, column) ==
  LET chain == LeafProjectionAccess(column)
      Element(tuple) == ElementAccess(ProjectElement(tuple, column), chain)
  IN IF HasOption(column.parent_access)
     THEN LET tuple_ref == AccessChainToOptionRef(item, column.parent_access)
          IN IF HasOption(chain) THEN AndThen(tuple_ref, Element) ELSE Map(tuple_ref, Element)
     ELSE Element(AccessChainToRef(item, column.parent_access).expr)

ProjectsLeaf(column) ==
  column.kind = "TupleParentVec" /\ column.projection_layer = Depth(column.shape)
ProjectsAfter(column, k) ==
  column.kind = "TupleParentVec" /\ column.projection_layer = k /\ k < Depth(column.shape)
=============================================================================
