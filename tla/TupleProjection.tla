-------------------------- MODULE TupleProjection --------------------------
(***************************************************************************)
(* Lowered fields turned into columns.  A field that is not a tuple is one *)
(* column; a tuple gives one column per element, and an element that is a  *)
(* tuple itself gives those of its own elements.  Each column records how  *)
(* its values are reached from the field and the shape that the wrappers   *)
(* of tuple and element make together.                                     *)
(***************************************************************************)
EXTENDS WrapperShapes

VARIABLES
  fields,     (* The lowered fields still to be projected, the current one *)
              (* first: name, tree of lowered nodes, name policy.          *)
  elements,   (* The tuple elements of that field still to be projected,   *)
              (* with the wrapper shape of the tuple each belongs to.      *)
  columns     (* The columns so far.                                       *)

vars == <<fields, elements, columns>>

Tree       == Head(fields).tree
IsTuple(p) == Tree[p].leaf.spec = "Tuple"

Arity(p) == Cardinality({q \in DOMAIN Tree : Len(q) = Len(p) + 1 /\ SubSeq(q, 1, Len(p)) = p})
ElementsOf(p, parent) ==
  [i \in 1 .. Arity(p) |-> [path |-> Append(p, i), parent |-> parent]]

(* The outer pointers from the field to the node at a path, step by step.  *)
OuterPointers(p) == [i \in 1 .. Len(p) + 1 |-> Tree[SubSeq(p, 1, i - 1)].outer]

Column(p, kind, parent, shape, policy) ==
  [field            |-> Head(fields).name,
   path             |-> p,
   kind             |-> kind,
   leaf             |-> Tree[p].leaf,
   shape            |-> shape,
   policy           |-> policy,
   outer            |-> OuterPointers(p),
   projection_layer |-> ProjectionLayer(parent),
   parent_access    |-> ParentAccess(parent)]

FieldColumn ==
  Column(<<>>, "Field", Bare, Tree[<<>>].shape, Head(fields).policy)

ElementColumn(e) ==
  Column(e.path, ParentKind(e.parent), e.parent,
         Compose(e.parent, Tree[e.path].shape), "Field")

-----------------------------------------------------------------------------
ProjectField ==
  /\ fields # <<>> /\ elements = <<>>
  /\ ~IsTuple(<<>>)
  /\ columns' = Append(columns, FieldColumn)
  /\ fields' = Tail(fields)
  /\ UNCHANGED elements

OpenTuple ==
  /\ fields # <<>> /\ elements = <<>>
  /\ IsTuple(<<>>)
  /\ elements' = ElementsOf(<<>>, Tree[<<>>].shape)
  /\ UNCHANGED <<fields, columns>>

ProjectElement ==
  /\ elements # <<>>
  /\ ~IsTuple(Head(elements).path)
  /\ columns' = Append(columns, ElementColumn(Head(elements)))
  /\ elements' = Tail(elements)
  /\ fields' = IF elements' = <<>> THEN Tail(fields) ELSE fields

OpenNestedTupleLast ==
  /\ elements # <<>>
  /\ IsTuple(Head(elements).path)
  /\ elements' = Tail(elements) \o ElementsOf(Head(elements).path, Bare)
  /\ UNCHANGED <<fields, columns>>

(* A tuple in a tuple is opened as if nothing were wrapped around either.  *)
OpenNestedTuple ==
  /\ elements # <<>>
  /\ IsTuple(Head(elements).path)
  /\ elements' = ElementsOf(Head(elements).path, Bare) \o Tail(elements)
  /\ UNCHANGED <<fields, columns>>

-----------------------------------------------------------------------------
Next == ProjectField \/ OpenTuple \/ ProjectElement \/ OpenNestedTuple

-----------------------------------------------------------------------------
(* What the projection asserts of a tuple in a tuple: nothing is wrapped   *)
(* around either of them, since the wrappers of neither reach a column.    *)
NestedTuplesBare ==
  \A k \in DOMAIN elements :
    IsTuple(elements[k].path) =>
      elements[k].parent = Bare /\ Tree[elements[k].path].shape = Bare

(* Every boundary of every column counts an Option exactly when its access *)
(* chain has one: the buffers that are declared and frozen are those that  *)
(* the scan fills.                                                         *)
ColumnsConsistent == \A k \in DOMAIN columns : Consistent(columns[k].shape)

(* A projection in the innermost list of a column starts with the wrappers *)
(* of the tuple, which the reader of the leaf strips off.                  *)
IsPrefixOf(s, t) == Len(s) <= Len(t) /\ SubSeq(t, 1, Len(s)) = s
ProjectionsReachable ==
  \A k \in DOMAIN columns :
    LET c == columns[k]
    IN c.kind = "TupleParentVec" =>
         /\ c.projection_layer \in 1 .. Depth(c.shape)
         /\ c.projection_layer = Depth(c.shape)
              => IsPrefixOf(c.parent_access, c.shape.inner_access)
=============================================================================
