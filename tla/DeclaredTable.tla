--------------------------- MODULE DeclaredTable ---------------------------
(***************************************************************************)
(* What the entry points of a derived struct promise, with no loops and no *)
(* buffers.  Whichever is called, the answer has, field by field, the      *)
(* columns that the struct declares, all names distinct, with one cell for *)
(* each item, in the order of the items, null exactly where the value is   *)
(* absent; it has as many rows as there are items, also without columns.   *)
(* So the schema, the empty frame and every frame agree on names, dtypes   *)
(* and order.  Otherwise it is an error for which there is a reason.       *)
(***************************************************************************)
EXTENDS Integers, Sequences

CONSTANTS Fields, Inner, Fragile, Inputs, None, Encode, Failed

VARIABLES items, status, at, columns, height

vars == <<items, status, at, columns, height>>

Shown(v) == IF v = None THEN None ELSE Encode[v]

Cells(f) == [i \in DOMAIN items |-> Shown(items[i][f])]

NestedName(f, inner) ==
  CASE Fields[f].policy = "field"   -> Fields[f].name \o inner
    [] Fields[f].policy = "flatten" -> inner
    [] Fields[f].policy = "prefix"  -> Fields[f].prefix \o inner

Declared(f) ==
  IF Fields[f].kind = "nested"
  THEN [j \in DOMAIN Inner[f] |->
          [name |-> NestedName(f, Inner[f][j].name), dtype |-> Inner[f][j].dtype,
           lists |-> Inner[f][j].lists + Fields[f].lists, cells |-> Cells(f)]]
  ELSE <<[name |-> Fields[f].name, dtype |-> Fields[f].dtype, lists |-> Fields[f].lists,
          cells |-> Cells(f)]>>

Unencodable(f) ==
  /\ Fields[f].kind # "nested"
  /\ \E i \in DOMAIN items : items[i][f] # None /\ Encode[items[i][f]] = Failed

(* Without items only the structs are called.                              *)
Breaks(f) == f \in Fragile /\ (Fields[f].kind = "nested" \/ items # <<>>)

Clash == \E i, j \in DOMAIN columns : i # j /\ columns[i].name = columns[j].name

Init ==
  /\ items \in Inputs
  /\ status = "building" /\ at = 0 /\ columns = <<>> /\ height = 0

Add ==
  /\ status = "building" /\ at < Len(Fields)
  /\ ~Unencodable(at + 1)
  /\ at' = at + 1
  /\ columns' = columns \o Declared(at + 1)
  /\ UNCHANGED <<items, status, height>>

Complete ==
  /\ status = "building" /\ at = Len(Fields) /\ ~Clash
  /\ status' = "complete" /\ height' = Len(items)
  /\ UNCHANGED <<items, at, columns>>

(* The reasons: a value that cannot be encoded, a struct or another column *)
(* that fails as a whole, or a name that two columns have.                 *)
Excused ==
  \/ \E f \in DOMAIN Fields : Unencodable(f)
  \/ at < Len(Fields) /\ Breaks(at + 1)
  \/ at = Len(Fields) /\ Clash

Refuse ==
  /\ status = "building" /\ Excused
  /\ status' = "refused"
  /\ UNCHANGED <<items, at, columns, height>>

Next == Add \/ Complete \/ Refuse

Spec == Init /\ [][Next]_vars
=============================================================================
