--------------------------- MODULE DerivePromise ---------------------------
(***************************************************************************)
(* What the derive promises of the items it is written on: which it        *)
(* accepts, and the columns it makes of them.  The promise is stated over  *)
(* the syntax of the item, without the phases of DeriveInput.              *)
(***************************************************************************)
EXTENDS DeriveInput

LOCAL INSTANCE SequencesExt

(* Every part of a derive is in a state of its own.                        *)
TypeOK ==
  /\ stage \in {"config", "fields", "project"} \union Ended
  /\ phase \in {"none", "attributes", "analyze", "lower"} \union Over
  /\ override.key \in FieldOverrideKeys \union {"none"}
  /\ rest \in Seq(SpineSteps \union RawWrappers)
  /\ peeled.wrappers \in Seq(RawWrappers) /\ peeled.outer \in Nat
  /\ norm.layers \in Seq(Layers) /\ norm.pending \in Chains
  /\ \A p \in DOMAIN lowered : lowered[p].shape \in Shapes /\ lowered[p].outer \in Nat
  /\ \A k \in DOMAIN columns : columns[k].shape \in Shapes

-----------------------------------------------------------------------------
(* The types and attributes that a field may have.                         *)

NotListed(spine) == \A i \in DOMAIN spine : spine[i] \notin {"Option", "Vec"}
Bytes         == {"bytes", "slice"}
KeptBy(node)  == IF node.base \in Unsized /\ node.spine # <<>> THEN Last(node.spine) ELSE "none"

(* Only a reference or a Cow makes a type of str and of slices, and a      *)
(* tuple has elements.                                                     *)
NodeAccepted(ty, p) ==
  LET node == ty[p]
  IN /\ "MutRef" \notin {node.spine[i] : i \in DOMAIN node.spine}
     /\ node.base \notin Refused \union {"Self"}
     /\ node.base \in Unsized => KeptBy(node) \in {"Ref", "Cow"}
     /\ node.base = "Tuple" => Elements(ty, p) # {}

NestedTupleAccepted(ty) ==
  \A p \in DOMAIN ty : \A q \in Elements(ty, p) :
    ty[p].base = "Tuple" /\ ty[q].base = "Tuple" =>
      NotListed(ty[p].spine) /\ NotListed(ty[q].spine)

(* Raw bytes are columns only as a whole.                                  *)
PlainLeaves(ty) == \A p \in DOMAIN ty : ty[p].base \notin Bytes

(* Whether the innermost list of a u8 is a plain `Vec<u8>`: pointers count *)
(* once they are inside an Option or a Vec.                                *)
ByteList(spine) == spine # <<>> /\ Last(spine) = "Vec"

ConversionAccepted(key, ty) ==
  LET base == ty[Root].base
  IN CASE key = "none"      -> PlainLeaves(ty)
       [] key = "flatten"   -> base \in RowTypes /\ NotListed(ty[Root].spine)
       [] key = "as_str"    -> base \in RowTypes \union {"String", "str"}
       [] key = "as_string" -> base \notin Bytes \union {"Tuple", "StdDuration"}
       [] key = "decimal"   -> base \in RowTypes \union {"Decimal"}
       [] key = "time_unit" -> base \in {"DateTimeTz", "NaiveDateTime", "StdDuration",
                                         "ChronoDuration"}
       [] key = "as_binary" -> base = "bytes" \/ (base = "u8" /\ ByteList(ty[Root].spine))

(* Which arguments an attribute takes: a precision and a scale, in either  *)
(* order, a unit, or a prefix if it likes.                                 *)
ItemAccepted(item) ==
  CASE item.key = "decimal" ->
         /\ Len(item.args) = 2
         /\ \E p \in 1 .. 38 : \E s \in 0 .. p :
              {item.args[1], item.args[2]} = {<<"precision", p>>, <<"scale", s>>}
    [] item.key = "time_unit" -> \E u \in {"ms", "us", "ns"} : item.args = <<<<"unit", u>>>>
    [] item.key = "flatten"   ->
         item.args # <<>> =>
           Len(item.args) = 1 /\ item.args[1][1] = "prefix" /\ item.args[1][2] # ""
    [] OTHER -> item.key \in {"skip", "as_binary", "as_str", "as_string"}

(* Attributes exclude each other, and a field that is skipped may have any *)
(* type at all.                                                            *)
FieldAccepted(f) ==
  /\ Len(f.attrs) <= 1
  /\ \A i \in DOMAIN f.attrs : ItemAccepted(f.attrs[i])
  /\ LET attr == IF f.attrs = <<>> THEN NoAttr ELSE FieldAttr(f.attrs[1])
     IN \/ attr.key = "skip"
        \/ /\ \A p \in DOMAIN f.ty : NodeAccepted(f.ty, p)
           /\ NestedTupleAccepted(f.ty)
           /\ ConversionAccepted(attr.key, f.ty)

(* The attributes a struct may have.  If one of the two traits is that of  *)
(* a built-in runtime, so is the other.                                    *)
IsTrait(path, mod, name) == path.plain /\ path.name = name /\ path.mod = mod
OverridesOf(c, key)      == {i \in DOMAIN c.items : c.items[i].key = key}
ContainerAccepted(c) ==
  /\ \A i \in DOMAIN c.items : c.items[i].key \in C!OverrideKeys /\ c.items[i].path # C!NoPath
  /\ \A key \in C!OverrideKeys : Cardinality(OverridesOf(c, key)) <= 1
  /\ OverridesOf(c, "columnar") # {} => OverridesOf(c, "trait") # {}
  /\ \A i \in OverridesOf(c, "trait"), j \in OverridesOf(c, "columnar"), mod \in C!BuiltinMods :
       IsTrait(c.items[i].path, mod, "ToDataFrame") <=> IsTrait(c.items[j].path, mod, "Columnar")

(* A derive succeeds on the items it is documented for, and on no other:   *)
(* whatever order the attributes are written in, whatever else is wrong    *)
(* with the item, and whichever check comes first.                         *)
DerivesExactly ==
  LET accepted == /\ ContainerAccepted(input.container)
                  /\ input.kind = "struct"
                  /\ \A i \in DOMAIN input.fields : FieldAccepted(input.fields[i])
  IN /\ stage = "derived" => accepted
     /\ stage = "failed" => ~accepted

(* Two attributes that exclude each other are refused with a message about *)
(* those two, in whichever order they are written: the arms of the match   *)
(* leave nothing to its last, which names neither.                         *)
ConflictExplained ==
  phase = "error" /\ items # <<>> =>
    LET keys == {override.key, Head(items).key}
    IN /\ error \in {"duplicate", "different_values"} => Cardinality(keys) = 1
       /\ ItemRefused(Head(items)) = "none" /\ Cardinality(keys) = 2 =>
            keys \subseteq Explains(error)

-----------------------------------------------------------------------------
(* The columns.                                                            *)

Kept(f)      == \A i \in DOMAIN f.attrs : f.attrs[i].key # "skip"
LeafPaths(f) == IF Kept(f) THEN {p \in DOMAIN f.ty : f.ty[p].base # "Tuple"} ELSE {}

PathBefore(p, q) ==
  \E k \in DOMAIN p \cap DOMAIN q :
    p[k] < q[k] /\ \A j \in 1 .. k - 1 : p[j] = q[j]
ColumnBefore(c, d) ==
  \/ c.field < d.field
  \/ c.field = d.field /\ PathBefore(c.path, d.path)

(* There is one column for every leaf of every field that is not skipped,  *)
(* in the order they are declared in.                                      *)
ColumnPerLeaf ==
  stage = "derived" =>
    /\ {<<columns[k].field, columns[k].path>> : k \in DOMAIN columns}
         = UNION {{<<f.name, p>> : p \in LeafPaths(f)} : f \in {input.fields[i] : i \in DOMAIN input.fields}}
    /\ \A j, k \in DOMAIN columns : j < k => ColumnBefore(columns[j], columns[k])

(* The wrappers written around a node, the innermost Vec of a u8 aside     *)
(* that `as_binary` takes, and those of one kind from a field down to a    *)
(* leaf: the length of the path they are on, and their place there.        *)
TakesBytes(f) == \E i \in DOMAIN f.attrs : f.attrs[i].key = "as_binary"
SpineOf(f, p) ==
  IF TakesBytes(f) /\ f.ty[p].base = "u8" THEN Front(f.ty[p].spine) ELSE f.ty[p].spine

Places(spine, kind)  == {i \in DOMAIN spine : spine[i] = kind}
Around(f, p, kind) ==
  UNION {{n} \X Places(SpineOf(f, SubSeq(p, 1, n)), kind) : n \in 0 .. Len(p)}
Outside(v, w)        == v[1] < w[1] \/ (v[1] = w[1] /\ v[2] < w[2])
NullableBelow(f, p, k) ==
  \E w \in Around(f, p, "Option") : Cardinality({v \in Around(f, p, "Vec") : Outside(v, w)}) = k

(* A column is nested as deep as the lists its leaf is in, and is nullable *)
(* exactly at the levels where the type has an Option, whichever part of   *)
(* the type the Options and lists come from.                               *)
ShapeMatchesPath ==
  \A k \in DOMAIN columns :
    LET c == columns[k]
        f == input.fields[c.field]
    IN /\ Depth(c.shape) = Cardinality(Around(f, c.path, "Vec"))
       /\ \A l \in DOMAIN c.shape.layers :
            HasOuterValidity(c.shape.layers[l]) <=> NullableBelow(f, c.path, l - 1)
       /\ HasInnerOption(c.shape) <=> NullableBelow(f, c.path, Depth(c.shape))

-----------------------------------------------------------------------------
(* What the parts owe each other.                                          *)

RuntimesNotMixed     == C!RuntimesNotMixed
OnePolars            == C!OnePolars
NestedTuplesBare     == P!NestedTuplesBare
ColumnsConsistent    == P!ColumnsConsistent
ProjectionsReachable == P!ProjectionsReachable

(* Every derive ends: no field is lowered for ever, and nothing is waited  *)
(* for that does not come.                                                 *)
DeriveEnds == <>(stage \in Ended)
=============================================================================
