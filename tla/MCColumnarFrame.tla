-------------------------- MODULE MCColumnarFrame --------------------------
(* Small structs for ColumnarFrame.                                        *)
EXTENDS ColumnarFrameTable, SequencesExt

CONSTANTS MaxItems, p, q, bad, yes, no

MCValues == {p, q, bad, yes, no}

MCEncode ==
  [v \in MCValues |-> CASE v = yes -> TRUE [] v = no -> FALSE [] v = bad -> Failed [] OTHER -> v]

Leaf(kind, storage, name) ==
  [kind |-> kind, storage |-> storage, name |-> name, dtype |-> storage, lists |-> 0,
   policy |-> "field", prefix |-> <<>>]

Struct(name, policy, lists) ==
  [kind |-> "nested", storage |-> "plain", name |-> <<name>>, dtype |-> "struct",
   lists |-> lists, policy |-> policy, prefix |-> <<"pre">>]

E(name, lists) == [name |-> name, dtype |-> "inner", lists |-> lists]

(* One field of each storage, an element of a tuple, and a flattened and a *)
(* prefixed struct whose columns do not clash.                             *)
LeafFields ==
  <<Leaf("rowwise", "plain", <<"a">>), Leaf("rowwise", "pushed", <<"b">>),
    Leaf("projected", "options", <<"t", "field_0">>), Leaf("rowwise", "bits", <<"c">>),
    Struct("s", "flatten", 0), Leaf("rowwise", "indexed", <<"d">>), Struct("x", "prefix", 1)>>
LeafItems ==
  {<<p, v2, v3, v4, q, v6, p>> :
     v2 \in {p, None}, v3 \in {p, bad, None}, v4 \in {yes, no, None}, v6 \in {p, bad, None}}
LeafInner  == <<<<>>, <<>>, <<>>, <<>>, <<E(<<"x">>, 0)>>, <<>>, <<E(<<"x">>, 0)>>>>

(* Structs and a list, all named after their fields. *)
FieldFields ==
  <<Struct("a", "field", 0), Leaf("list", "plain", <<"b">>),
    Leaf("rowwise", "indexed", <<"c">>), Struct("d", "field", 1)>>
FieldItems == {<<v1, v2, v3, v4>> : v1 \in {p, None}, v2 \in {p, bad}, v3 \in {p, None}, v4 \in {p, q}}
FieldInner  == <<<<E(<<"x">>, 0), E(<<"y", "z">>, 1)>>, <<>>, <<>>, <<E(<<"x">>, 0)>>>>

(* A flattened struct that has a column named as a field. *)
ClashFields ==
  <<Leaf("rowwise", "pushed", <<"x">>), Struct("s", "flatten", 0)>>
ClashItems == {<<v1, v2>> : v1 \in {p, None}, v2 \in {p, q}}
ClashInner  == <<<<>>, <<E(<<"y">>, 0), E(<<"x">>, 0)>>>>

(* Structs without a column. *)
UnitFields == <<Struct("a", "field", 0), Struct("b", "flatten", 0)>>
UnitItems == {<<v1, v2>> : v1 \in {p, q, None}, v2 \in {p, q}}
UnitInner  == <<<<>>, <<>>>>

LeafInputs == BoundedSeq(LeafItems, MaxItems)
FieldInputs == BoundedSeq(FieldItems, MaxItems)
ClashInputs == BoundedSeq(ClashItems, MaxItems)
UnitInputs == BoundedSeq(UnitItems, MaxItems)
=============================================================================
