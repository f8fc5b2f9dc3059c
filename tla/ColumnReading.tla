---------------------------- MODULE ColumnReading ----------------------------
(***************************************************************************)
(* Reading one row of a field into the columns the field was projected to. *)
(* The wrappers of the field are normalised and projected by the modules   *)
(* that do so in a derive, and each column is then read by the expressions *)
(* and loops that are generated for its shape, kind and leaf.              *)
(*                                                                         *)
(* What a column gets from a row is a tree: by the indexes of the items on *)
(* the way, a null, a list of so many items, or the leaf that was read.    *)
(***************************************************************************)
EXTENDS RustAccess

CONSTANTS
  Types,        (* The field types read: trees of wrappers and bases.      *)
  ValuesOf(_)   (* The values of a type.                                   *)

LeafBases == {"Numeric", "Bool", "Decimal", "Struct"}

Pointed(spine) == \A i \in DOMAIN spine : spine[i] = "SmartPtr"
ElementsIn(ty, p) ==
  {q \in DOMAIN ty : Len(q) = Len(p) + 1 /\ SubSeq(q, 1, Len(p)) = p}

(* A type has the elements of its tuples, numbered; around and within a    *)
(* tuple in a tuple there are pointers alone, the analysis refuses others. *)
IsFieldType(ty) ==
  /\ DOMAIN ty \subseteq Seq(Nat) /\ <<>> \in DOMAIN ty
  /\ \A p \in DOMAIN ty :
       /\ ty[p].spine \in Seq(RawWrappers) /\ ty[p].base \in LeafBases \union {"Tuple"}
       /\ IsFiniteSet(ElementsIn(ty, p))
       /\ \A i \in 1 .. Cardinality(ElementsIn(ty, p)) : Append(p, i) \in DOMAIN ty
       /\ \A q \in ElementsIn(ty, p) :
            ty[q].base = "Tuple" => Pointed(ty[p].spine) /\ Pointed(ty[q].spine)

ASSUME TypesAssumption ==
  \A ty \in Types :
    /\ IsFieldType(ty)
    /\ \A value \in ValuesOf(ty) : \A place \in DOMAIN value : value[place] \in Nat

VARIABLES
  row,        (* The type of the field that is read, and its value.        *)
  fields, elements, columns,
  cells       (* What the columns read so far have got from the row.       *)

P == INSTANCE TupleProjection

projectVars == <<fields, elements, columns>>
vars == <<row, projectVars, cells>>

-----------------------------------------------------------------------------
(* The lowered field: pointers outside the first Option or Vec are counted *)
(* and the wrappers from there on are normalised.                          *)

LeadingPointers(spine) ==
  CHOOSE n \in 0 .. Len(spine) :
    /\ \A i \in 1 .. n : spine[i] = "SmartPtr"
    /\ n < Len(spine) => spine[n + 1] # "SmartPtr"

Normalised(wrappers) ==
  LET norm[i \in 0 .. Len(wrappers)] ==
        IF i = 0 THEN NormalStart ELSE NormalStep(norm[i - 1], wrappers[i])
  IN NormalEnd(norm[Len(wrappers)])

LoweredNode(node) ==
  LET outer == LeadingPointers(node.spine)
  IN [leaf  |-> [spec |-> node.base],
      shape |-> Normalised(SubSeq(node.spine, outer + 1, Len(node.spine))),
      outer |-> outer]

LoweredField(ty) ==
  [name |-> 1, tree |-> [p \in DOMAIN ty |-> LoweredNode(ty[p])], policy |-> "Field"]

-----------------------------------------------------------------------------
(* What a column has at an index path: a null, a list, or the leaf of a    *)
(* node, or what its generated code could not be compiled for.             *)

Null           == [t |-> "null", of |-> <<>>]
ListOf(n)      == [t |-> "list", of |-> n]
Leaf(node, at) == [t |-> "leaf", of |-> <<node, at>>]
Wrong          == [t |-> "wrong", of |-> <<>>]

-----------------------------------------------------------------------------
(* What becomes of a leaf.  Numbers and booleans are used by value,        *)
(* decimals are given to the encoder by one reference, and rows collected  *)
(* by references of any depth.                                             *)

Value(x) ==
  IF x.t = "place" /\ x.refs = 0 /\ IsBare(x.of) /\ Node(x.of).base \in LeafBases
  THEN Leaf(x.of.node, x.of.at) ELSE Wrong

ByValue(x)     == Value(x)
ByRef(x, n)    == Value(DerefTimes(x, n))
ByAnyRef(x)    == IF x.refs > 0 THEN Value(Referent(x)) ELSE Wrong

(* In a list every leaf is behind exactly one reference, a row excepted.   *)
InList(x, column) == IF column.leaf.spec = "Struct" THEN ByAnyRef(x) ELSE ByRef(x, 1)

-----------------------------------------------------------------------------
(* Without a list.                                                         *)

(* How many references the encoder of a decimal finds in an Option.        *)
SomeReceiver(column) ==
  IF column.kind = "TupleParentOption" /\ ~IsCopyProjection(column) THEN 2 ELSE 1

ReadBare(access, column) ==
  CASE column.leaf.spec \in {"Numeric", "Bool"} -> ByValue(access)
    [] column.leaf.spec = "Decimal" -> ByRef(Ref(access), 1)
    [] OTHER -> ByAnyRef(Ref(access))

ReadOption(access, column) ==
  CASE column.leaf.spec \in {"Numeric", "Bool"} -> Match(access, ByValue, Null)
    [] column.leaf.spec = "Decimal" ->
         Match(Ref(access), LAMBDA x : ByRef(x, SomeReceiver(column)), Null)
    [] OTHER -> Match(Ref(access), ByAnyRef, Null)

ReadOptionChain(access, column) ==
  LET chain     == column.shape.inner_access
      collapsed == AccessChainToOptionRef(Ref(access), chain)
  IN CASE column.leaf.spec \in {"Numeric", "Bool"} -> Match(Copied(collapsed), ByValue, Null)
       [] column.leaf.spec = "Decimal" -> Match(Ref(collapsed), LAMBDA x : ByRef(x, 2), Null)
       [] OTHER ->
            Match(IF IsOnlyOptions(chain) THEN CollapseOptionsToRef(access, Len(chain))
                  ELSE AccessChainToRef(Ref(access), chain).expr, ByAnyRef, Null)

-----------------------------------------------------------------------------
(* With lists.                                                             *)

(* Where the leaf of an item is found, and what is made of it there.       *)
LeafAccess(item, column) ==
  LET chain == column.shape.inner_access
  IN CASE ProjectsLeaf(column) -> ProjectedLeaf(item, column)
       [] ~ProjectsLeaf(column) /\ (chain = <<>> \/ IsSinglePlainOption(chain)) -> item
       [] OTHER -> AccessChainToRef(item, chain).expr
ReadFound(found, column) ==
  IF HasInnerOption(column.shape) THEN Match(found, LAMBDA x : InList(x, column), Null)
  ELSE InList(found, column)
LeafInList(item, column) == ReadFound(LeafAccess(item, column), column)

(* The items of layer k behind what its loop is bound to.                  *)
ItemsBehind(access) ==
  IF access.has_option THEN Match(access.expr, Iter, None) ELSE Iter(access.expr)
ReadLayer(bind, k, column) ==
  ItemsBehind(AccessChainToRef(bind, column.shape.layers[k].access))

(* What an item of layer k is bound to in the loop within.                 *)
LayerBind(item, k, column) ==
  IF ProjectsAfter(column, k) THEN ProjectedLayerBind(item, column) ELSE item

(* The loops of the outer k layers: by its indexes, every item they come   *)
(* to, as it is bound.                                                     *)
ReadItems(access, column) ==
  LET items[k \in 0 .. Depth(column.shape)] ==
        IF k = 0 THEN [is \in {<<>>} |-> Ref(access)]
        ELSE LET outer    == items[k - 1]
                 List(is) == ReadLayer(outer[is], k, column)
                 Lists    == {is \in DOMAIN outer : Len(is) = k - 1 /\ List(is).t = "items"}
                 inner    == UNION {{Append(is, i) : i \in DOMAIN List(is).of} : is \in Lists}
             IN [is \in DOMAIN outer \union inner |->
                   IF is \in DOMAIN outer THEN outer[is]
                   ELSE LayerBind(List(SubSeq(is, 1, k - 1)).of[is[k]], k, column)]
  IN items[Depth(column.shape)]

ListRead(list) ==
  CASE list.t = "items" -> ListOf(Len(list.of))
    [] list.t = "none"  -> Null
    [] OTHER            -> Wrong
ReadEach(items, column) ==
  [is \in DOMAIN items |->
     IF Len(is) = Depth(column.shape) THEN LeafInList(items[is], column)
     ELSE ListRead(ReadLayer(items[is], Len(is) + 1, column))]
ReadLists(access, column) == ReadEach(ReadItems(access, column), column)

(* A list of plain booleans is copied without the scan.                    *)
IsPlainBoolList(column) ==
  /\ column.leaf.spec = "Bool" /\ column.kind # "TupleParentVec"
  /\ Depth(column.shape) = 1 /\ ~AnyOuterValidity(column.shape)
  /\ column.shape.inner_access = <<>>
CopiedList(access) ==
  LET list == Iter(Ref(access))
  IN [is \in {<<>>} \union {<<i>> : i \in DOMAIN list.of} |->
        IF is = <<>> THEN ListRead(list) ELSE ByRef(list.of[is[1]], 1)]

-----------------------------------------------------------------------------
ColumnAccess(column) ==
  CASE column.kind \in {"Field", "TupleParentVec"} -> FieldSourceAccess(row, column)
    [] column.kind = "TupleStatic"       -> TupleStaticAccess(row, column)
    [] OTHER                             -> TupleParentOptionAccess(row, column)

Scalar(access, column) ==
  CASE column.shape = Bare -> ReadBare(access, column)
    [] IsSinglePlainOption(column.shape.inner_access) -> ReadOption(access, column)
    [] OTHER -> ReadOptionChain(access, column)

Read(access, column) ==
  CASE ~IsVec(column.shape)    -> [is \in {<<>>} |-> Scalar(access, column)]
    [] IsPlainBoolList(column) -> CopiedList(access)
    [] OTHER -> ReadLists(access, column)
Cell(column) == Read(ColumnAccess(column), column)

Project ==
  /\ P!Next
  /\ UNCHANGED <<row, cells>>

ReadColumn ==
  /\ fields = <<>> /\ Len(cells) < Len(columns)
  /\ cells' = Append(cells, Cell(columns[Len(cells) + 1]))
  /\ UNCHANGED <<row, projectVars>>

Init ==
  /\ \E ty \in Types : \E v \in ValuesOf(ty) : row = [ty |-> ty, value |-> v]
  /\ fields = <<LoweredField(row.ty)>> /\ elements = <<>> /\ columns = <<>>
  /\ cells = <<>>
Next == Project \/ ReadColumn
Spec == Init /\ [][Next]_vars

-----------------------------------------------------------------------------
(* What a leaf path means, from the wrappers as they are written: the      *)
(* <<m, d>> on the way to the leaf is the wrapper of depth d around the    *)
(* m-th element.  After the lists that an index path goes through come     *)
(* pointers, which are looked through, and Options, of which none may be   *)
(* absent, up to the next list or the leaf.                                *)

Spine(ty, path, m) == ty[SubSeq(path, 1, m)].spine
Stages(ty, path, wrapper) ==
  {s \in UNION {{m} \X (0 .. Len(Spine(ty, path, m)) - 1) : m \in 0 .. Len(path)} :
     Spine(ty, path, s[1])[s[2] + 1] = wrapper}
ListsAround(ty, path, s) ==
  {r \in Stages(ty, path, "Vec") : r[1] < s[1] \/ (r[1] = s[1] /\ r[2] < s[2])}

Meaning(of, path, is) ==
  LET Here(wrapper) == {s \in Stages(of.ty, path, wrapper) :
                          Cardinality(ListsAround(of.ty, path, s)) = Len(is)}
      CountAt(s)    == Count(Place(of, SubSeq(path, 1, s[1]), s[2], is))
      absent        == \E s \in Here("Option") : CountAt(s) = 0
  IN CASE absent                        -> Null
       [] ~absent /\ Here("Vec") # {}   -> ListOf(CountAt(CHOOSE s \in Here("Vec") : TRUE))
       [] OTHER                         -> Leaf(path, is)

ItemsAt(cell, is) == IF cell[is].t = "list" THEN 1 .. cell[is].of ELSE {}

(* Every expression that is generated has a type, and what it reads is     *)
(* what the path to the leaf means, all of it and nothing else: the chains *)
(* are split over layers, stripped of the tuple's own and prefixed with    *)
(* its Option on the way, and each is undone by a different loop.          *)
Reads(cell, of, path) ==
  /\ <<>> \in DOMAIN cell
  /\ \A is \in DOMAIN cell : cell[is] = Meaning(of, path, is)
  /\ \A is \in DOMAIN cell : \A i \in ItemsAt(cell, is) : Append(is, i) \in DOMAIN cell
  /\ \A is \in DOMAIN cell \ {<<>>} :
       LET outer == SubSeq(is, 1, Len(is) - 1)
       IN outer \in DOMAIN cell /\ is[Len(is)] \in ItemsAt(cell, outer)
ColumnsReadRow == \A k \in DOMAIN cells : Reads(cells[k], row, columns[k].path)
=============================================================================
