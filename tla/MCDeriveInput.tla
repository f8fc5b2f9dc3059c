--------------------------- MODULE MCDeriveInput ---------------------------
(***************************************************************************)
(* Instances of DerivePromise: items that vary one part of the derive at a *)
(* time, and structs with several fields.                                  *)
(***************************************************************************)
EXTENDS DerivePromise

LOCAL INSTANCE SequencesExt

UpTo(S, n) == UNION {[1 .. m -> S] : m \in 0 .. n}

-----------------------------------------------------------------------------
(* Containers.                                                             *)

Path(mod, name, plain) == [mod |-> mod, name |-> name, plain |-> plain]
MCRoots == {"df_derive", "dfd", "df_derive_core", "crate"}

RolePaths(name, own) ==
  {Path(<<root, "dataframe">>, name, TRUE) : root \in MCRoots}
    \union {Path(<<"my", "dataframe">>, name, TRUE), Path(<<"my", "dataframe">>, own, TRUE),
            Path(<<"my", "dataframe">>, name, FALSE), Path(<<"df_derive", "dataframe">>, own, TRUE)}

MCOverrides ==
  {[key |-> "trait", path |-> p] : p \in RolePaths("ToDataFrame", "MyToDataFrame")}
    \union {[key |-> "columnar", path |-> p] : p \in RolePaths("Columnar", "MyColumnar")}
    \union {[key |-> "decimal128_encode", path |-> Path(<<"my">>, "Decimal128Encode", TRUE)],
            [key |-> "trait", path |-> C!NoPath],
            [key |-> "columnar", path |-> Path(<<>>, "Columnar", TRUE)],
            [key |-> "rename", path |-> Path(<<"my">>, "ToDataFrame", TRUE)]}

Crates(facade, core, utils, paft) ==
  [p \in {"df-derive", "df-derive-core", "paft-utils", "paft"} |->
     CASE p = "df-derive" -> facade [] p = "df-derive-core" -> core
       [] p = "paft-utils" -> utils [] p = "paft" -> paft]

MCCrates ==
  {Crates(facade, core, "missing", "paft") :
     facade \in {"missing", "df_derive", "dfd", "itself"}, core \in {"missing", "df_derive_core"}}
    \union {Crates("missing", "itself", "missing", "missing"),
            Crates("missing", "missing", "paft_utils", "paft"),
            Crates("missing", "missing", "missing", "missing")}

Plain == [items |-> <<>>, crates |-> Crates("df_derive", "missing", "missing", "missing"),
          target |-> "app"]

ItemLists ==
  UpTo(MCOverrides, 2) \union
    {<<i, j, k>> : i \in {o \in MCOverrides : o.key = "decimal128_encode"},
                   j \in {o \in MCOverrides : o.key = "trait"},
                   k \in {o \in MCOverrides : o.key = "columnar"}}
MCContainers ==
  {[items |-> is, crates |-> cs, target |-> t] :
     is \in ItemLists, cs \in MCCrates, t \in {"app"}}
    \union {[items |-> is, crates |-> cs, target |-> "df_derive"] :
              is \in ItemLists, cs \in {c \in MCCrates : c["df-derive"] = "itself"}}

-----------------------------------------------------------------------------
(* Fields.                                                                 *)

Attr(key, args) == [key |-> key, args |-> args]
Unit(u)         == Attr("time_unit", <<<<"unit", u>>>>)
Decimal(p, s)   == Attr("decimal", <<<<"precision", p>>, <<"scale", s>>>>)
Prefix(x)       == Attr("flatten", <<<<"prefix", x>>>>)

GoodAttrs ==
  {Attr(k, <<>>) : k \in {"skip", "as_binary", "as_str", "as_string", "flatten"}}
    \union {Unit("ms"), Decimal(10, 2), Prefix("a")}

MCAttrs ==
  GoodAttrs \union
  {Unit("us"), Unit("s"), Decimal(38, 38), Decimal(0, 0), Decimal(39, 2), Decimal(9, 10),
   Decimal(9, 39), Prefix(""), Attr("rename", <<>>),
   Attr("decimal", <<<<"scale", 2>>, <<"precision", 10>>>>),
   Attr("decimal", <<<<"precision", 10>>>>),
   Attr("decimal", <<<<"precision", 10>>, <<"precision", 10>>, <<"scale", 2>>>>),
   Attr("decimal", <<<<"digits", 10>>, <<"scale", 2>>>>),
   Attr("flatten", <<<<"prefix", "a">>, <<"prefix", "b">>>>)}

AnyAttr == {<<>>} \union {<<a>> : a \in GoodAttrs}

Node(spine, base)  == [spine |-> spine, base |-> base]
Leaf(spine, base)  == <<>> :> Node(spine, base)
Field(attrs, ty)   == [name |-> 1, attrs |-> attrs, ty |-> ty]
Wrappers           == {"Option", "Vec", "Pointer"}

AttributeFields ==
  {Field(as, ty) : as \in UpTo(MCAttrs, 2) \union UpTo({Attr("skip", <<>>), Unit("ms"), Unit("us")}, 3),
                   ty \in {Leaf(<<>>, "Struct"), Leaf(<<"Option">>, "DateTimeTz")}}

SizedFields ==
  {Field(as, Leaf(ws, b)) : as \in AnyAttr, ws \in UpTo(Wrappers, 2), b \in SizedBases \union Refused}
UnsizedFields ==
  {Field(as, Leaf(ws, b)) : as \in AnyAttr, ws \in UpTo(SpineSteps, 2), b \in Unsized}
DeepFields ==
  {Field(as, Leaf(ws, b)) : as \in {<<>>, <<Attr("as_binary", <<>>)>>},
                            ws \in UpTo(Wrappers, 4), b \in {"u8", "Struct"}}

(* Tuples: one whose first element varies, and one whose first element is  *)
(* a tuple.                                                                *)
Pair(ws, es, b) ==
  (<<>> :> Node(ws, "Tuple")) @@ (<<1>> :> Node(es, b)) @@ (<<2>> :> Node(<<>>, "Bool"))
WithNested(ws, ns, es) ==
  (<<>> :> Node(ws, "Tuple")) @@ (<<1>> :> Node(ns, "Tuple")) @@ (<<2>> :> Node(<<>>, "Numeric"))
    @@ (<<1, 1>> :> Node(es, "Numeric")) @@ (<<1, 2>> :> Node(<<>>, "Bool"))

PairFields ==
  {Field(<<>>, Pair(ws, es, "Numeric")) : ws \in UpTo(Wrappers, 3), es \in UpTo(Wrappers, 3)}
OtherPairFields ==
  {Field(as, Pair(ws, es, b)) : as \in AnyAttr, ws \in UpTo(Wrappers, 1),
     es \in UpTo(Wrappers, 1), b \in {"u8", "Struct", "Self", "BareDuration", "slice"}}
NestedFields ==
  {Field(<<>>, WithNested(ws, ns, es)) : ws \in UpTo(Wrappers, 2),
     ns \in UpTo(Wrappers, 2), es \in UpTo(Wrappers, 2)}

-----------------------------------------------------------------------------
(* Structs.                                                                *)

SomeFields ==
  {Field(<<>>, Leaf(<<"Vec", "Option">>, "Numeric")), Field(<<Prefix("a")>>, Leaf(<<>>, "Struct")),
   Field(<<Attr("skip", <<>>)>>, Leaf(<<>>, "Unsupported")),
   Field(<<Attr("skip", <<>>), Unit("ms")>>, Leaf(<<>>, "DateTimeTz")),
   Field(<<Attr("as_binary", <<>>)>>, Leaf(<<"Option", "Vec">>, "u8")),
   Field(<<>>, WithNested(<<"Pointer">>, <<"Pointer">>, <<"Vec">>)),
   Field(<<>>, Pair(<<"Option">>, <<"Vec">>, "String")), Field(<<>>, Leaf(<<"Vec">>, "Collection"))}

SeveralFields == {[i \in DOMAIN fs |-> [fs[i] EXCEPT !.name = i]] : fs \in UpTo(SomeFields, 3)}

Item(k, c, fs) == [kind |-> k, container |-> c, fields |-> fs]

SingleFields ==
  AttributeFields \union (SizedFields \union (UnsizedFields \union
    (DeepFields \union (PairFields \union (OtherPairFields \union NestedFields)))))
FieldInputs ==
  {Item("struct", Plain, fs) : fs \in SeveralFields \union {<<f>> : f \in SingleFields}}
ContainerInputs ==
  {Item("struct", c, <<Field(<<>>, Leaf(<<>>, "Numeric"))>>) : c \in MCContainers}
OtherInputs == {Item(k, Plain, <<>>) : k \in {"enum", "union"}}

MCInputs == OtherInputs \union (ContainerInputs \union FieldInputs)
=============================================================================
