--------------------------- MODULE WrapperShapes ---------------------------
(***************************************************************************)
(* Wrapper stacks and the shapes they are normalised into.  A raw stack    *)
(* lists the wrappers of a field type outermost first; a shape has one     *)
(* layer per `Vec`, and keeps the Options and smart pointers met on the    *)
(* way to each `Vec`, and to the leaf, as access chains.                   *)
(*                                                                         *)
(* A shape records how many Options each boundary has next to the chain    *)
(* itself: buffers are declared and frozen by the count, the scan that     *)
(* fills them goes by the chain.                                           *)
(***************************************************************************)
EXTENDS Integers, Sequences, FiniteSets

AccessSteps == {"Option", "SmartPtr"}
RawWrappers == AccessSteps \union {"Vec"}

Chains == Seq(AccessSteps)

OptionLayers(chain) == Cardinality({i \in DOMAIN chain : chain[i] = "Option"})
HasOption(chain)    == \E i \in DOMAIN chain : chain[i] = "Option"
IsOnlyOptions(chain) == \A i \in DOMAIN chain : chain[i] = "Option"
IsSinglePlainOption(chain) == chain = <<"Option">>

-----------------------------------------------------------------------------
(* Shapes.  `LeafShape` is the case without layers: `Bare`, or `Optional`  *)
(* with its count and chain.                                               *)

Layers == [option_layers_above : Nat, access : Chains]
Shapes == [layers : Seq(Layers), inner_option_layers : Nat, inner_access : Chains]

LeafShape(n, chain) ==
  [layers |-> <<>>, inner_option_layers |-> n, inner_access |-> chain]
Bare == LeafShape(0, <<>>)

(* The chain of a leaf without Options is dropped, pointers and all.       *)
FromOptionAccess(n, chain) == IF n = 0 THEN Bare ELSE LeafShape(n, chain)

IsVec(shape)  == shape.layers # <<>>
Depth(shape)  == Len(shape.layers)
HasOuterValidity(layer) == layer.option_layers_above > 0
AnyOuterValidity(shape) ==
  \E k \in DOMAIN shape.layers : HasOuterValidity(shape.layers[k])
HasInnerOption(shape)   == shape.inner_option_layers > 0

-----------------------------------------------------------------------------
(* The normalising loop: its state before the first wrapper, what one      *)
(* wrapper does to it, and the shape made of it after the last.            *)

NormalStart == [layers |-> <<>>, pending |-> <<>>]

NormalStep(norm, wrapper) ==
  IF wrapper = "Vec"
  THEN [layers  |-> Append(norm.layers,
                      [option_layers_above |-> OptionLayers(norm.pending),
                       access              |-> norm.pending]),
        pending |-> <<>>]
  ELSE [norm EXCEPT !.pending = Append(@, wrapper)]

NormalEnd(norm) ==
  IF norm.layers = <<>>
  THEN FromOptionAccess(OptionLayers(norm.pending), norm.pending)
  ELSE [layers              |-> norm.layers,
        inner_option_layers |-> OptionLayers(norm.pending),
        inner_access        |-> norm.pending]

-----------------------------------------------------------------------------
(* A tuple's wrappers composed with those of one of its elements.          *)

PrependOption(chain) == <<"Option">> \o chain
PrependParentOption(parent, chain) ==
  IF OptionLayers(parent) > 0 THEN PrependOption(chain) ELSE chain

(* What is done to layer 1 of an element under a nullable parent.          *)
AddToFirst(layers, n, chain) ==
  [layers EXCEPT ![1] = [option_layers_above |-> @.option_layers_above + n,
                         access              |-> chain]]

ComposeOption(element) ==
  IF IsVec(element)
  THEN [element EXCEPT !.layers =
         AddToFirst(@, 1, PrependOption(element.layers[1].access))]
  ELSE FromOptionAccess(1 + element.inner_option_layers,
                        PrependOption(element.inner_access))

ComposeVecUnprefixed(parent, element) ==
  IF IsVec(element)
  THEN [element EXCEPT !.layers = parent.layers \o
         AddToFirst(@, parent.inner_option_layers, element.layers[1].access)]
  ELSE [layers              |-> parent.layers,
        inner_option_layers |-> parent.inner_option_layers + element.inner_option_layers,
        inner_access        |-> parent.inner_access \o element.inner_access]

ComposeVecElementFirst(parent, element) ==
  IF IsVec(element)
  THEN [element EXCEPT !.layers =
         parent.layers \o AddToFirst(@, parent.inner_option_layers,
           PrependParentOption(parent.inner_access, element.layers[1].access))]
  ELSE [layers              |-> parent.layers,
        inner_option_layers |-> parent.inner_option_layers + element.inner_option_layers,
        inner_access        |-> element.inner_access \o parent.inner_access]

ComposeVec(parent, element) ==
  IF IsVec(element)
  THEN [element EXCEPT !.layers =
         parent.layers \o AddToFirst(@, parent.inner_option_layers,
           PrependParentOption(parent.inner_access, element.layers[1].access))]
  ELSE [layers              |-> parent.layers,
        inner_option_layers |-> parent.inner_option_layers + element.inner_option_layers,
        inner_access        |-> parent.inner_access \o element.inner_access]

(* How a tuple's wrappers reach its elements: statically, through one      *)
(* nullable reference, or inside the innermost list of the tuple.          *)
ParentKind(parent) ==
  CASE IsVec(parent) -> "TupleParentVec"
    [] ~IsVec(parent) /\ HasInnerOption(parent) -> "TupleParentOption"
    [] OTHER -> "TupleStatic"

Compose(parent, element) ==
  CASE ParentKind(parent) = "TupleStatic"       -> element
    [] ParentKind(parent) = "TupleParentOption" -> ComposeOption(element)
    [] ParentKind(parent) = "TupleParentVec"    -> ComposeVec(parent, element)

(* Where a projection happens, 0 for none, and the wrappers between the    *)
(* tuple and what the projection starts from.                              *)
ProjectionLayer(parent) == IF IsVec(parent) THEN Depth(parent) ELSE 0
ParentAccess(parent)    == IF ParentKind(parent) = "TupleStatic" THEN <<>>
                           ELSE parent.inner_access

-----------------------------------------------------------------------------
(* A shape is consistent if each boundary counts an Option exactly when    *)
(* its chain has one.                                                      *)
ConsistentLayer(layer) == HasOuterValidity(layer) <=> HasOption(layer.access)
Consistent(shape) ==
  /\ \A k \in DOMAIN shape.layers : ConsistentLayer(shape.layers[k])
  /\ HasInnerOption(shape) <=> HasOption(shape.inner_access)
=============================================================================
