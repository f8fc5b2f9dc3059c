----------------------------- MODULE ListColumn -----------------------------
(***************************************************************************)
(* What a column of nested lists promises, with no buffers: one row per    *)
(* item in the order of the items, a row being the item's own nested lists *)
(* with None for every null list and null leaf and the stored form of every*)
(* leaf value; or an error, and then no column at all, when a leaf has no  *)
(* stored form or there are more entries than the format can number.       *)
(***************************************************************************)
EXTENDS Integers, Sequences

CONSTANTS Depth, None, Node, Encode, Failed, Inputs, MaxOffset, MaxIdx, Gathered

VARIABLES items, status, rows

vars == <<items, status, rows>>

Leaf == Depth + 1

(* Row[l][n]: the value of node n of loop l in the column.                 *)
Row[l \in 1 .. Leaf] ==
  [n \in Node[l] |->
     CASE n = None -> None
       [] n # None /\ l = Leaf -> Encode[n]
       [] OTHER -> [i \in DOMAIN n |-> Row[l + 1][n[i]]]]

(* Whether a node of loop l holds a leaf that has no stored form.          *)
Broken[l \in 1 .. Leaf] ==
  [n \in Node[l] |->
     CASE n = None -> FALSE
       [] n # None /\ l = Leaf -> Encode[n] = Failed
       [] OTHER -> \E i \in DOMAIN n : Broken[l + 1][n[i]]]

(* The sum of the first n numbers of f.                                    *)
SumTo(f, n) ==
  LET sum[m \in 0 .. n] == IF m = 0 THEN 0 ELSE sum[m - 1] + f[m] IN sum[n]

(* Weight[l][k][n]: the number of entries of layer k below a node of loop l,  *)
(* where layer Leaf has the leaf elements and layer Leaf + 1 only those    *)
(* that are not null.                                                      *)
Weight[l \in 1 .. Leaf] ==
  [k \in 1 .. Leaf + 1 |->
     [n \in Node[l] |->
        IF l = k THEN 1
        ELSE IF n = None THEN 0
        ELSE IF l = Leaf THEN 1
        ELSE SumTo([i \in DOMAIN n |-> Weight[l + 1][k][n[i]]], Len(n))]]

EntriesTo(k, n) == SumTo([i \in DOMAIN items |-> Weight[1][k][items[i]]], n)

(* The first n items need a list offset or a gather index out of range.    *)
Oversized(n) ==
  \/ \E k \in 2 .. Leaf : EntriesTo(k, n) > MaxOffset
  \/ Gathered /\ EntriesTo(Leaf + 1, n) > MaxIdx + 1

Init == items \in Inputs /\ status = "building" /\ rows = <<>>

AddRow ==
  LET item == items[Len(rows) + 1] IN
  /\ status = "building" /\ Len(rows) < Len(items)
  /\ ~Broken[1][item] /\ ~Oversized(Len(rows) + 1)
  /\ rows' = Append(rows, Row[1][item])
  /\ UNCHANGED <<items, status>>

Reject ==
  /\ status = "building" /\ Len(rows) < Len(items)
  /\ Broken[1][items[Len(rows) + 1]] \/ Oversized(Len(rows) + 1)
  /\ status' = "rejected"
  /\ UNCHANGED <<items, rows>>

Complete ==
  /\ status = "building" /\ Len(rows) = Len(items)
  /\ status' = "complete"
  /\ UNCHANGED <<items, rows>>

Next == AddRow \/ Reject \/ Complete

Spec == Init /\ [][Next]_vars
=============================================================================
