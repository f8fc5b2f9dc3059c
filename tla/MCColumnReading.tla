-------------------------- MODULE MCColumnReading --------------------------
(***************************************************************************)
(* Instances of ColumnReading: fields of one leaf, of a pair, and of a     *)
(* pair within a pair, under every stack of wrappers up to a length, each  *)
(* with values that have every Option in it present and absent.            *)
(***************************************************************************)
EXTENDS ColumnReading, TLC

UpTo(S, n) == UNION {[1 .. m -> S] : m \in 0 .. n}
Wrappers   == {"Option", "Vec", "SmartPtr"}
Bases      == {"Numeric", "Bool", "Decimal", "Struct"}

(* The values of a node from a depth on.  A list is empty, or has an item  *)
(* of its own before one that is the same in all.                          *)
RECURSIVE ValuesAt(_, _, _, _)
ValuesAt(ty, p, depth, at) ==
  IF depth < Len(ty[p].spine)
  THEN LET place      == <<p, depth, at>>
           Within(is) == ValuesAt(ty, p, depth + 1, is)
       IN CASE ty[p].spine[depth + 1] = "SmartPtr" -> Within(at)
            [] ty[p].spine[depth + 1] = "Option"   ->
                 {place :> 0} \union {(place :> 1) @@ v : v \in Within(at)}
            [] ty[p].spine[depth + 1] = "Vec"      ->
                 LET last == CHOOSE v \in Within(Append(at, 2)) : TRUE
                 IN {place :> 0}
                      \union {(place :> 2) @@ v @@ last : v \in Within(Append(at, 1))}
  ELSE IF ty[p].base = "Tuple"
       THEN {v @@ w : v \in ValuesAt(ty, Append(p, 1), 0, at),
                      w \in ValuesAt(ty, Append(p, 2), 0, at)}
       ELSE {<<>>}
MCValuesOf(ty) == ValuesAt(ty, <<>>, 0, <<>>)

TypeNode(spine, base) == [spine |-> spine, base |-> base]

SingleTypes == {<<>> :> TypeNode(ws, b) : ws \in UpTo(Wrappers, 4), b \in Bases}

PairTypes ==
  {(<<>> :> TypeNode(ws, "Tuple")) @@ (<<1>> :> TypeNode(es, b))
     @@ (<<2>> :> TypeNode(<<"Vec">>, "Bool")) :
     ws \in UpTo(Wrappers, 3), es \in UpTo(Wrappers, 3), b \in Bases}

(* Around and within a pair in a pair there are pointers alone.            *)
NestedTypes ==
  {(<<>> :> TypeNode(ws, "Tuple")) @@ (<<1>> :> TypeNode(<<>>, "Decimal"))
     @@ (<<2>> :> TypeNode(ns, "Tuple"))
     @@ (<<2, 1>> :> TypeNode(es, b)) @@ (<<2, 2>> :> TypeNode(<<"Option">>, "Bool")) :
     ws \in UpTo({"SmartPtr"}, 2), ns \in UpTo({"SmartPtr"}, 2),
     es \in UpTo(Wrappers, 2), b \in Bases}

MCTypes == NestedTypes \union (SingleTypes \union PairTypes)
=============================================================================
