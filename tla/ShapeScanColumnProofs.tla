----------------------- MODULE ShapeScanColumnProofs -----------------------
(***************************************************************************)
(* ShapeScan implements ListColumn, for every depth, leaf kind and input:  *)
(* the rows read back from its buffers appear one per item, each with the  *)
(* lists, nulls and values of the item, and an error has a reason in the   *)
(* items.                                                                  *)
(*                                                                         *)
(* The invariant says that some lists, which the open loops run over, and  *)
(* some weights account for every entry stored: what is stored since a     *)
(* list was entered is the rows of the elements of it that are done, and   *)
(* what is numbered adds up, from the items inwards, to what is stored. A  *)
(* list that is left then is one more element done of the list around it;  *)
(* when that is the slice of items, a row appears. Buffers only grow, so   *)
(* what was read stays. An element that cannot be stored is a part of the  *)
(* element around it, and so on out to the item.                           *)
(***************************************************************************)
EXTENDS ShapeScanColumn, ShapeScanProofs, WellFoundedInduction, NaturalsInduction

-----------------------------------------------------------------------------
(* Recursion.                                                              *)

(* The naturals are well founded.                                          *)
LEMMA LessWellFounded == IsWellFoundedOn({ss \in Nat \X Nat : ss[1] < ss[2]}, Nat)
BY NatLessThanWellFounded DEF OpToRel

(* Induction on the naturals, for a set.                                   *)
LEMMA SetInduction ==
  ASSUME NEW S, 0 \in S, \A n \in Nat : n \in S => n + 1 \in S
  PROVE  Nat \subseteq S
<1> DEFINE T == Nat \ S
<1> SUFFICES ASSUME T # {} PROVE FALSE
  OBVIOUS
<1>1. T \subseteq Nat
  OBVIOUS
<1>2. PICK x \in T : \A y \in T : ~(<<y, x>> \in {ss \in Nat \X Nat : ss[1] < ss[2]})
  <2> HIDE DEF T
  <2> QED BY <1>1, LessWellFounded, WFMin
<1>3. x \in Nat /\ x # 0 /\ x - 1 \in Nat /\ (x - 1) + 1 = x /\ x - 1 < x
  OBVIOUS
<1>4. x - 1 \in T
  BY <1>3
<1> QED BY <1>2, <1>3, <1>4

(* From the innermost loop outwards.                                       *)
LEMMA Outwards ==
  ASSUME NEW n \in Nat \ {0}, NEW S, n \in S,
         \A l \in 1 .. n - 1 : l + 1 \in S => l \in S
  PROVE  1 .. n \subseteq S
<1> DEFINE T == {j \in Nat : j < n => n - j \in S}
<1>1. 0 \in T
  OBVIOUS
<1>2. ASSUME NEW j \in Nat, j \in T PROVE j + 1 \in T
  <2> SUFFICES ASSUME j + 1 < n PROVE n - (j + 1) \in S
    OBVIOUS
  <2>1. n - (j + 1) \in 1 .. n - 1 /\ (n - (j + 1)) + 1 = n - j /\ j < n
    OBVIOUS
  <2> QED BY <1>2, <2>1
<1>3. Nat \subseteq T
  <2> HIDE DEF T
  <2> QED BY <1>1, <1>2, SetInduction
<1>4. ASSUME NEW l \in 1 .. n PROVE l \in S
  <2>1. n - l \in Nat /\ n - l < n /\ n - (n - l) = l
    OBVIOUS
  <2> QED BY <1>3, <2>1
<1> QED BY <1>4

(* The loops are those of the layers and that of the leaves.               *)
LEMMA LoopsAre ==
  /\ Leaf \in Nat \ {0} /\ Depth \in Nat \ {0} /\ Leaf = Depth + 1
  /\ Loops = 1 .. Leaf /\ Layers = 1 .. Leaf - 1 /\ Leaf \in Loops
  /\ \A l \in Layers : l \in Loops /\ l + 1 \in Loops /\ l # Leaf /\ l \in Nat
BY DepthAssumption DEF Leaf, Loops, Layers

-----------------------------------------------------------------------------
(* Sums.                                                                   *)

(* s is the recursive function that SumTo defines.                         *)
IsSum(s, f, n) == s = [m \in 0 .. n |-> IF m = 0 THEN 0 ELSE s[m - 1] + f[m]]

(* That function exists: it is glued from its initial parts.               *)
LEMMA SumExists ==
  ASSUME NEW f, NEW n \in Nat
  PROVE  \E s : IsSum(s, f, n)
<1> DEFINE T == {m \in Nat : \E s : IsSum(s, f, m)}
<1>1. 0 \in T
  <2> DEFINE s == [m \in 0 .. 0 |-> 0]
  <2>1. s = [m \in 0 .. 0 |-> IF m = 0 THEN 0 ELSE s[m - 1] + f[m]]
    OBVIOUS
  <2> QED BY <2>1 DEF IsSum
<1>2. ASSUME NEW m \in Nat, m \in T PROVE m + 1 \in T
  <2>1. PICK s : IsSum(s, f, m)
    BY <1>2
  <2> DEFINE g == [j \in 0 .. m + 1 |-> IF j = m + 1 THEN s[m] + f[m + 1] ELSE s[j]]
  <2>2. ASSUME NEW j \in 0 .. m + 1
        PROVE  g[j] = IF j = 0 THEN 0 ELSE g[j - 1] + f[j]
    <3>1. CASE j = m + 1
      BY <3>1
    <3>2. CASE j # m + 1
      <4>1. j \in 0 .. m /\ j # m + 1 /\ (j # 0 => j - 1 \in 0 .. m /\ j - 1 # m + 1)
        BY <3>2
      <4>2. s[j] = IF j = 0 THEN 0 ELSE s[j - 1] + f[j]
        BY <2>1, <4>1 DEF IsSum
      <4>3. g[j] = s[j] /\ (j # 0 => g[j - 1] = s[j - 1])
        BY <4>1
      <4> QED BY <4>2, <4>3
    <3> QED BY <3>1, <3>2
  <2>3. IsSum(g, f, m + 1)
    <3>1. g = [j \in 0 .. m + 1 |-> g[j]]
      OBVIOUS
    <3> HIDE DEF g
    <3> QED BY <2>2, <3>1 DEF IsSum
  <2> QED BY <2>3
<1>3. Nat \subseteq T
  <2> HIDE DEF T
  <2> QED BY <1>1, <1>2, SetInduction
<1> QED BY <1>3

(* It depends only on the numbers that are summed.                         *)
LEMMA SumsAgree ==
  ASSUME NEW f, NEW g, NEW n \in Nat, NEW m \in Nat, NEW s, NEW t,
         IsSum(s, f, n), IsSum(t, g, m), NEW k \in Nat, k <= n, k <= m,
         \A i \in 1 .. k : f[i] = g[i]
  PROVE  s[k] = t[k]
<1> DEFINE T == {j \in Nat : j <= k => s[j] = t[j]}
<1>1. 0 \in T
  BY DEF IsSum
<1>2. ASSUME NEW j \in Nat, j \in T PROVE j + 1 \in T
  <2> SUFFICES ASSUME j + 1 <= k PROVE s[j + 1] = t[j + 1]
    OBVIOUS
  <2>1. j + 1 \in 0 .. n /\ j + 1 \in 0 .. m /\ j + 1 # 0 /\ (j + 1) - 1 = j
        /\ j + 1 \in 1 .. k /\ j <= k
    OBVIOUS
  <2>2. s[j + 1] = s[j] + f[j + 1] /\ t[j + 1] = t[j] + g[j + 1]
    BY <2>1 DEF IsSum
  <2> QED BY <1>2, <2>1, <2>2
<1>3. Nat \subseteq T
  <2> HIDE DEF T
  <2> QED BY <1>1, <1>2, SetInduction
<1> QED BY <1>3

(* SumTo is a value of that function.                                      *)
LEMMA SumIs ==
  ASSUME NEW f, NEW n \in Nat
  PROVE  \E s : IsSum(s, f, n) /\ Column!SumTo(f, n) = s[n]
<1>1. \E s : s = [m \in 0 .. n |-> IF m = 0 THEN 0 ELSE s[m - 1] + f[m]]
  BY SumExists DEF IsSum
<1> DEFINE c == CHOOSE s : s = [m \in 0 .. n |-> IF m = 0 THEN 0 ELSE s[m - 1] + f[m]]
<1>2. c = [m \in 0 .. n |-> IF m = 0 THEN 0 ELSE c[m - 1] + f[m]]
  BY <1>1
<1>3. Column!SumTo(f, n) = c[n]
  BY DEF Column!SumTo
<1> QED BY <1>2, <1>3 DEF IsSum

(* The empty sum.                                                          *)
LEMMA SumZero ==
  ASSUME NEW f
  PROVE  Column!SumTo(f, 0) = 0
<1>1. PICK s : IsSum(s, f, 0) /\ Column!SumTo(f, 0) = s[0]
  BY SumIs
<1> QED BY <1>1 DEF IsSum

(* A sum with one more number.                                             *)
LEMMA SumStep ==
  ASSUME NEW f, NEW n \in Nat
  PROVE  Column!SumTo(f, n + 1) = Column!SumTo(f, n) + f[n + 1]
<1>1. PICK s : IsSum(s, f, n) /\ Column!SumTo(f, n) = s[n]
  BY SumIs
<1>2. PICK t : IsSum(t, f, n + 1) /\ Column!SumTo(f, n + 1) = t[n + 1]
  BY SumIs
<1>3. s[n] = t[n]
  BY <1>1, <1>2, SumsAgree
<1>4. t[n + 1] = t[n] + f[n + 1]
  BY <1>2 DEF IsSum
<1> QED BY <1>1, <1>2, <1>3, <1>4

(* Equal numbers have equal sums.                                          *)
LEMMA SumSame ==
  ASSUME NEW f, NEW g, NEW n \in Nat, \A i \in 1 .. n : f[i] = g[i]
  PROVE  Column!SumTo(f, n) = Column!SumTo(g, n)
<1>1. PICK s : IsSum(s, f, n) /\ Column!SumTo(f, n) = s[n]
  BY SumIs
<1>2. PICK t : IsSum(t, g, n) /\ Column!SumTo(g, n) = t[n]
  BY SumIs
<1> QED BY <1>1, <1>2, SumsAgree

(* Sums of naturals are naturals that only grow.                           *)
LEMMA SumGrows ==
  ASSUME NEW f, NEW n \in Nat, \A i \in 1 .. n : f[i] \in Nat
  PROVE  /\ Column!SumTo(f, n) \in Nat
         /\ \A m \in 0 .. n : Column!SumTo(f, m) \in Nat /\ Column!SumTo(f, m) <= Column!SumTo(f, n)
         /\ \A m \in 0 .. n - 1 : Column!SumTo(f, m) + f[m + 1] <= Column!SumTo(f, n)
<1> DEFINE S(j) == Column!SumTo(f, j)
           T == {j \in Nat : j <= n => S(j) \in Nat /\ \A m \in 0 .. j : S(m) \in Nat /\ S(m) <= S(j)}
<1>0. S(0) = 0 /\ \A j \in Nat : S(j + 1) = S(j) + f[j + 1]
  BY SumZero, SumStep
<1> HIDE DEF S
<1>1. 0 \in T
  BY <1>0
<1>2. ASSUME NEW j \in Nat, j \in T PROVE j + 1 \in T
  <2> SUFFICES ASSUME j + 1 <= n
               PROVE  S(j + 1) \in Nat /\ \A m \in 0 .. j + 1 : S(m) \in Nat /\ S(m) <= S(j + 1)
    OBVIOUS
  <2>1. f[j + 1] \in Nat /\ S(j) \in Nat /\ \A m \in 0 .. j : S(m) \in Nat /\ S(m) <= S(j)
    BY <1>2
  <2>2. S(j + 1) \in Nat /\ S(j) <= S(j + 1)
    BY <1>0, <2>1
  <2>3. ASSUME NEW m \in 0 .. j + 1 PROVE S(m) \in Nat /\ S(m) <= S(j + 1)
    <3>1. m \in 0 .. j \/ m = j + 1
      OBVIOUS
    <3> QED BY <2>1, <2>2, <3>1
  <2> QED BY <2>2, <2>3
<1>3. n \in T
  <2> HIDE DEF T
  <2> QED BY <1>1, <1>2, SetInduction
<1>4. S(n) \in Nat /\ \A m \in 0 .. n : S(m) \in Nat /\ S(m) <= S(n)
  BY <1>3
<1>5. ASSUME NEW m \in 0 .. n - 1 PROVE S(m) + f[m + 1] <= S(n)
  <2>1. m \in Nat /\ m + 1 \in 0 .. n
    OBVIOUS
  <2> QED BY <1>0, <1>4, <2>1
<1> QED BY <1>4, <1>5 DEF S

-----------------------------------------------------------------------------
(* The recursions over the loops, one step at a time.                      *)

(* One level of ListColumn's Row, given the level inside it. *)
RowOf(l, inner) ==
  [n \in Node[l] |->
     CASE n = None -> None
       [] n # None /\ l = Leaf -> Encode[n]
       [] OTHER -> [i \in DOMAIN n |-> inner[n[i]]]]

(* Leaves have nothing inside them.                                        *)
LEMMA RowLeaf ==
  ASSUME NEW x, NEW y
  PROVE  RowOf(Leaf, x) = RowOf(Leaf, y)
BY DEF RowOf

(* Row exists: it is built from the leaves outwards.                       *)
LEMMA RowExists == \E f : f = [l \in Loops |-> RowOf(l, f[l + 1])]
<1> DEFINE Solved(f, j) == f = [l \in j .. Leaf |-> RowOf(l, f[l + 1])]
           T == {j \in Loops : \E f : Solved(f, j)}
<1>1. Leaf \in T
  <2> DEFINE f == [l \in Leaf .. Leaf |-> RowOf(Leaf, 0)]
  <2>1. ASSUME NEW l \in Leaf .. Leaf PROVE f[l] = RowOf(l, f[l + 1])
    <3>1. l = Leaf
      BY LoopsAre
    <3>2. RowOf(Leaf, 0) = RowOf(Leaf, f[l + 1])
      BY RowLeaf
    <3> QED BY <3>1, <3>2
  <2>2. Solved(f, Leaf)
    BY <2>1
  <2> QED BY <2>2, LoopsAre
<1>2. ASSUME NEW j \in 1 .. Leaf - 1, j + 1 \in T PROVE j \in T
  <2>0. j \in Nat /\ j # Leaf /\ j < Leaf /\ j \in Loops
    BY LoopsAre
  <2>1. PICK f : Solved(f, j + 1)
    BY <1>2
  <2> DEFINE g == [l \in j .. Leaf |-> IF l = j THEN RowOf(j, f[j + 1]) ELSE f[l]]
  <2>2. ASSUME NEW l \in j .. Leaf PROVE g[l] = RowOf(l, g[l + 1])
    <3>1. CASE l = j
      <4>1. g[l + 1] = f[j + 1]
        BY <2>0, <3>1, LoopsAre
      <4> QED BY <3>1, <4>1
    <3>2. CASE l # j
      <4>1. l \in j + 1 .. Leaf
        BY <2>0, <3>2, LoopsAre
      <4>2. g[l] = RowOf(l, f[l + 1])
        BY <2>1, <3>2, <4>1
      <4>3. CASE l = Leaf
        BY <4>2, <4>3, RowLeaf
      <4>4. CASE l # Leaf
        <5>1. g[l + 1] = f[l + 1]
          BY <2>0, <4>1, <4>4, LoopsAre
        <5> QED BY <4>2, <5>1
      <4> QED BY <4>3, <4>4
    <3> QED BY <3>1, <3>2
  <2>3. g = [l \in j .. Leaf |-> g[l]]
    OBVIOUS
  <2>4. Solved(g, j)
    <3> HIDE DEF g
    <3> QED BY <2>2, <2>3
  <2> QED BY <2>0, <2>4
<1>3. 1 \in T
  <2> HIDE DEF T
  <2>1. 1 .. Leaf \subseteq T
    BY <1>1, <1>2, LoopsAre, Outwards
  <2> QED BY <2>1, LoopsAre
<1> QED BY <1>3, LoopsAre

(* Row is what its definition says, on every loop.                         *)
LEMMA RowEquation == \A l \in Loops : Column!Row[l] = RowOf(l, Column!Row[l + 1])
<1> DEFINE c == CHOOSE f : f = [l \in Loops |-> RowOf(l, f[l + 1])]
<1>1. c = [l \in Loops |-> RowOf(l, c[l + 1])]
  BY RowExists
<1>2. Column!Row = c
  BY LoopsAre DEF Column!Row, RowOf, Column!Leaf
<1> QED BY <1>1, <1>2


(* One level of ListColumn's Broken, given the level inside it.            *)
BrokenOf(l, inner) ==
  [n \in Node[l] |->
     CASE n = None -> FALSE
       [] n # None /\ l = Leaf -> Encode[n] = Failed
       [] OTHER -> \E i \in DOMAIN n : inner[n[i]]]

(* Leaves have nothing inside them.                                        *)
LEMMA BrokenLeaf ==
  ASSUME NEW x, NEW y
  PROVE  BrokenOf(Leaf, x) = BrokenOf(Leaf, y)
BY DEF BrokenOf

(* Broken exists: it is built from the leaves outwards.                    *)
LEMMA BrokenExists == \E f : f = [l \in Loops |-> BrokenOf(l, f[l + 1])]
<1> DEFINE Solved(f, j) == f = [l \in j .. Leaf |-> BrokenOf(l, f[l + 1])]
           T == {j \in Loops : \E f : Solved(f, j)}
<1>1. Leaf \in T
  <2> DEFINE f == [l \in Leaf .. Leaf |-> BrokenOf(Leaf, 0)]
  <2>1. ASSUME NEW l \in Leaf .. Leaf PROVE f[l] = BrokenOf(l, f[l + 1])
    <3>1. l = Leaf
      BY LoopsAre
    <3>2. BrokenOf(Leaf, 0) = BrokenOf(Leaf, f[l + 1])
      BY BrokenLeaf
    <3> QED BY <3>1, <3>2
  <2>2. Solved(f, Leaf)
    BY <2>1
  <2> QED BY <2>2, LoopsAre
<1>2. ASSUME NEW j \in 1 .. Leaf - 1, j + 1 \in T PROVE j \in T
  <2>0. j \in Nat /\ j # Leaf /\ j < Leaf /\ j \in Loops
    BY LoopsAre
  <2>1. PICK f : Solved(f, j + 1)
    BY <1>2
  <2> DEFINE g == [l \in j .. Leaf |-> IF l = j THEN BrokenOf(j, f[j + 1]) ELSE f[l]]
  <2>2. ASSUME NEW l \in j .. Leaf PROVE g[l] = BrokenOf(l, g[l + 1])
    <3>1. CASE l = j
      <4>1. g[l + 1] = f[j + 1]
        BY <2>0, <3>1, LoopsAre
      <4> QED BY <3>1, <4>1
    <3>2. CASE l # j
      <4>1. l \in j + 1 .. Leaf
        BY <2>0, <3>2, LoopsAre
      <4>2. g[l] = BrokenOf(l, f[l + 1])
        BY <2>1, <3>2, <4>1
      <4>3. CASE l = Leaf
        BY <4>2, <4>3, BrokenLeaf
      <4>4. CASE l # Leaf
        <5>1. g[l + 1] = f[l + 1]
          BY <2>0, <4>1, <4>4, LoopsAre
        <5> QED BY <4>2, <5>1
      <4> QED BY <4>3, <4>4
    <3> QED BY <3>1, <3>2
  <2>3. g = [l \in j .. Leaf |-> g[l]]
    OBVIOUS
  <2>4. Solved(g, j)
    <3> HIDE DEF g
    <3> QED BY <2>2, <2>3
  <2> QED BY <2>0, <2>4
<1>3. 1 \in T
  <2> HIDE DEF T
  <2>1. 1 .. Leaf \subseteq T
    BY <1>1, <1>2, LoopsAre, Outwards
  <2> QED BY <2>1, LoopsAre
<1> QED BY <1>3, LoopsAre

(* Broken is what its definition says, on every loop.                      *)
LEMMA BrokenEquation == \A l \in Loops : Column!Broken[l] = BrokenOf(l, Column!Broken[l + 1])
<1> DEFINE c == CHOOSE f : f = [l \in Loops |-> BrokenOf(l, f[l + 1])]
<1>1. c = [l \in Loops |-> BrokenOf(l, c[l + 1])]
  BY BrokenExists
<1>2. Column!Broken = c
  BY LoopsAre DEF Column!Broken, BrokenOf, Column!Leaf
<1> QED BY <1>1, <1>2


(* One level of ListColumn's Weight, given the level inside it.            *)
WeightOf(l, inner) ==
  [k \in 1 .. Leaf + 1 |->
     [n \in Node[l] |->
        IF l = k THEN 1
        ELSE IF n = None THEN 0
        ELSE IF l = Leaf THEN 1
        ELSE Column!SumTo([i \in DOMAIN n |-> inner[k][n[i]]], Len(n))]]

(* Leaves have nothing inside them.                                        *)
LEMMA WeightLeaf ==
  ASSUME NEW x, NEW y
  PROVE  WeightOf(Leaf, x) = WeightOf(Leaf, y)
BY DEF WeightOf

(* Weight exists: it is built from the leaves outwards.                    *)
LEMMA WeightExists == \E f : f = [l \in Loops |-> WeightOf(l, f[l + 1])]
<1> DEFINE Solved(f, j) == f = [l \in j .. Leaf |-> WeightOf(l, f[l + 1])]
           T == {j \in Loops : \E f : Solved(f, j)}
<1>1. Leaf \in T
  <2> DEFINE f == [l \in Leaf .. Leaf |-> WeightOf(Leaf, 0)]
  <2>1. ASSUME NEW l \in Leaf .. Leaf PROVE f[l] = WeightOf(l, f[l + 1])
    <3>1. l = Leaf
      BY LoopsAre
    <3>2. WeightOf(Leaf, 0) = WeightOf(Leaf, f[l + 1])
      BY WeightLeaf
    <3> QED BY <3>1, <3>2
  <2>2. Solved(f, Leaf)
    BY <2>1
  <2> QED BY <2>2, LoopsAre
<1>2. ASSUME NEW j \in 1 .. Leaf - 1, j + 1 \in T PROVE j \in T
  <2>0. j \in Nat /\ j # Leaf /\ j < Leaf /\ j \in Loops
    BY LoopsAre
  <2>1. PICK f : Solved(f, j + 1)
    BY <1>2
  <2> DEFINE g == [l \in j .. Leaf |-> IF l = j THEN WeightOf(j, f[j + 1]) ELSE f[l]]
  <2>2. ASSUME NEW l \in j .. Leaf PROVE g[l] = WeightOf(l, g[l + 1])
    <3>1. CASE l = j
      <4>1. g[l + 1] = f[j + 1]
        BY <2>0, <3>1, LoopsAre
      <4> QED BY <3>1, <4>1
    <3>2. CASE l # j
      <4>1. l \in j + 1 .. Leaf
        BY <2>0, <3>2, LoopsAre
      <4>2. g[l] = WeightOf(l, f[l + 1])
        BY <2>1, <3>2, <4>1
      <4>3. CASE l = Leaf
        BY <4>2, <4>3, WeightLeaf
      <4>4. CASE l # Leaf
        <5>1. g[l + 1] = f[l + 1]
          BY <2>0, <4>1, <4>4, LoopsAre
        <5> QED BY <4>2, <5>1
      <4> QED BY <4>3, <4>4
    <3> QED BY <3>1, <3>2
  <2>3. g = [l \in j .. Leaf |-> g[l]]
    OBVIOUS
  <2>4. Solved(g, j)
    <3> HIDE DEF g
    <3> QED BY <2>2, <2>3
  <2> QED BY <2>0, <2>4
<1>3. 1 \in T
  <2> HIDE DEF T
  <2>1. 1 .. Leaf \subseteq T
    BY <1>1, <1>2, LoopsAre, Outwards
  <2> QED BY <2>1, LoopsAre
<1> QED BY <1>3, LoopsAre

(* Weight is what its definition says, on every loop.                      *)
LEMMA WeightEquation == \A l \in Loops : Column!Weight[l] = WeightOf(l, Column!Weight[l + 1])
<1> DEFINE c == CHOOSE f : f = [l \in Loops |-> WeightOf(l, f[l + 1])]
<1>1. c = [l \in Loops |-> WeightOf(l, c[l + 1])]
  BY WeightExists
<1>2. Column!Weight = c
  BY LoopsAre DEF Column!Weight, WeightOf, Column!Leaf
<1> QED BY <1>1, <1>2


(* One level of what is read back, given the level inside it.              *)
ReadOf(l, child) ==
  IF l = Leaf THEN LeavesRead
  ELSE [r \in 1 .. Len(offsets[l]) - 1 |->
          IF Optional(l) /\ ~validity[l][r] THEN None
          ELSE SubSeq(child, offsets[l][r] + 1, offsets[l][r + 1])]

(* Leaves have nothing inside them.                                        *)
LEMMA ReadLeaf ==
  ASSUME NEW x, NEW y
  PROVE  ReadOf(Leaf, x) = ReadOf(Leaf, y)
BY DEF ReadOf

(* ListsRead exists: it is built from the leaves outwards.                 *)
LEMMA ReadExists == \E f : f = [l \in Loops |-> ReadOf(l, f[l + 1])]
<1> DEFINE Solved(f, j) == f = [l \in j .. Leaf |-> ReadOf(l, f[l + 1])]
           T == {j \in Loops : \E f : Solved(f, j)}
<1>1. Leaf \in T
  <2> DEFINE f == [l \in Leaf .. Leaf |-> ReadOf(Leaf, 0)]
  <2>1. ASSUME NEW l \in Leaf .. Leaf PROVE f[l] = ReadOf(l, f[l + 1])
    <3>1. l = Leaf
      BY LoopsAre
    <3>2. ReadOf(Leaf, 0) = ReadOf(Leaf, f[l + 1])
      BY ReadLeaf
    <3> QED BY <3>1, <3>2
  <2>2. Solved(f, Leaf)
    BY <2>1
  <2> QED BY <2>2, LoopsAre
<1>2. ASSUME NEW j \in 1 .. Leaf - 1, j + 1 \in T PROVE j \in T
  <2>0. j \in Nat /\ j # Leaf /\ j < Leaf /\ j \in Loops
    BY LoopsAre
  <2>1. PICK f : Solved(f, j + 1)
    BY <1>2
  <2> DEFINE g == [l \in j .. Leaf |-> IF l = j THEN ReadOf(j, f[j + 1]) ELSE f[l]]
  <2>2. ASSUME NEW l \in j .. Leaf PROVE g[l] = ReadOf(l, g[l + 1])
    <3>1. CASE l = j
      <4>1. g[l + 1] = f[j + 1]
        BY <2>0, <3>1, LoopsAre
      <4> QED BY <3>1, <4>1
    <3>2. CASE l # j
      <4>1. l \in j + 1 .. Leaf
        BY <2>0, <3>2, LoopsAre
      <4>2. g[l] = ReadOf(l, f[l + 1])
        BY <2>1, <3>2, <4>1
      <4>3. CASE l = Leaf
        BY <4>2, <4>3, ReadLeaf
      <4>4. CASE l # Leaf
        <5>1. g[l + 1] = f[l + 1]
          BY <2>0, <4>1, <4>4, LoopsAre
        <5> QED BY <4>2, <5>1
      <4> QED BY <4>3, <4>4
    <3> QED BY <3>1, <3>2
  <2>3. g = [l \in j .. Leaf |-> g[l]]
    OBVIOUS
  <2>4. Solved(g, j)
    <3> HIDE DEF g
    <3> QED BY <2>2, <2>3
  <2> QED BY <2>0, <2>4
<1>3. 1 \in T
  <2> HIDE DEF T
  <2>1. 1 .. Leaf \subseteq T
    BY <1>1, <1>2, LoopsAre, Outwards
  <2> QED BY <2>1, LoopsAre
<1> QED BY <1>3, LoopsAre

(* ListsRead is what its definition says, on every loop.                   *)
LEMMA ReadEquation == \A l \in Loops : ListsRead[l] = ReadOf(l, ListsRead[l + 1])
<1> DEFINE c == CHOOSE f : f = [l \in Loops |-> ReadOf(l, f[l + 1])]
<1>1. c = [l \in Loops |-> ReadOf(l, c[l + 1])]
  BY ReadExists
<1>2. ListsRead = c
  BY LoopsAre DEF ListsRead, ReadOf, Column!Leaf
<1> QED BY <1>1, <1>2
-----------------------------------------------------------------------------
(* What is read back, list by list.                                        *)

(* How many lists of loop m, or leaf elements, have been stored.           *)
Count(m) == IF m = Leaf THEN LeafEntries ELSE Len(offsets[m]) - 1

(* L is what offsets o and validity v say, entry by entry.                 *)
Reads(L, o, v) ==
  \A m \in Layers : \A r \in 1 .. Len(o[m]) - 1 :
    L[m][r] = IF Optional(m) /\ ~v[m][r] THEN None
              ELSE [i \in 1 .. o[m][r + 1] - o[m][r] |-> L[m + 1][o[m][r] + i]]

(* L has c[m] entries on loop m.                                           *)
Sized(L, c) == \A m \in Loops : c[m] \in Nat /\ L[m] = [r \in 1 .. c[m] |-> L[m][r]]

(* No offset points past the lists stored.                                 *)
Within(o, c) ==
  \A m \in Layers :
    /\ o[m] \in Seq(Nat) /\ Len(o[m]) \in Nat \ {0} /\ Len(o[m]) = c[m] + 1
    /\ \A r \in 1 .. Len(o[m]) : o[m][r] \in Nat /\ o[m][r] <= c[m + 1]

(* What every loop has stored.                                             *)
Counts == [m \in Loops |-> Count(m)]

(* The buffers can be assembled, as ShapeScanProofs shows they can.        *)
InStep == LayersOK /\ LeavesOK /\ \A k \in Layers : LayerInStep(k)

(* A layer's entries are what the loop inside it has stored.               *)
LEMMA EntriesCounted == \A l \in Layers : Entries(l) = Count(l + 1)
BY LoopsAre DEF Entries, Count

(* The last offset is the largest.                                         *)
LEMMA OffsetsAscend ==
  ASSUME NEW s \in Seq(Nat), OffsetsAccepted(s), NEW r \in 1 .. Len(s)
  PROVE  s[r] <= s[Len(s)]
<1> DEFINE T == {i \in 1 .. Len(s) : s[i] <= s[Len(s)]}
<1>0. Len(s) \in Nat \ {0}
  BY LenProperties DEF OffsetsAccepted
<1>1. Len(s) \in T
  BY <1>0
<1>2. ASSUME NEW i \in 1 .. Len(s) - 1, i + 1 \in T PROVE i \in T
  <2>1. i \in 1 .. Len(s) /\ i + 1 \in 2 .. Len(s) /\ (i + 1) - 1 = i
    BY <1>0
  <2>2. s[i] <= s[i + 1]
    BY <2>1 DEF OffsetsAccepted
  <2>3. s[i] \in Nat /\ s[i + 1] \in Nat /\ s[Len(s)] \in Nat
    BY <1>0, <2>1
  <2> QED BY <1>2, <2>1, <2>2, <2>3
<1>3. 1 .. Len(s) \subseteq T
  <2> HIDE DEF T
  <2> QED BY <1>0, <1>1, <1>2, Outwards
<1> QED BY <1>3

(* A part of a column, entry by entry.                                     *)
LEMMA SubSeqIs ==
  ASSUME NEW s, NEW a \in Nat, NEW b \in Nat, a <= b
  PROVE  SubSeq(s, a + 1, b) = [i \in 1 .. b - a |-> s[a + i]]
<1> DEFINE S == {s[i] : i \in a + 1 .. b}
<1>1. \A i \in a + 1 .. b : s[i] \in S
  OBVIOUS
<1> HIDE DEF S
<1>2. SubSeq(s, a + 1, b) \in Seq(S) /\ Len(SubSeq(s, a + 1, b)) = b - a
  BY <1>1, SubSeqProperties
<1>3. \A i \in 1 .. b - a : SubSeq(s, a + 1, b)[i] = s[a + i]
  BY <1>1, SubSeqProperties
<1> QED BY <1>2, <1>3

(* Buffers that are in step are read back entry by entry.                  *)
LEMMA ReadShape ==
  InStep => Reads(ListsRead, offsets, validity) /\ Sized(ListsRead, Counts) /\ Within(offsets, Counts)
<1> SUFFICES ASSUME InStep
             PROVE  Reads(ListsRead, offsets, validity) /\ Sized(ListsRead, Counts) /\ Within(offsets, Counts)
  OBVIOUS
<1> USE DEF InStep
<1>1. ASSUME NEW m \in Layers
      PROVE  /\ offsets[m] \in Seq(Nat) /\ Len(offsets[m]) \in Nat \ {0}
             /\ Counts[m] \in Nat /\ Len(offsets[m]) = Counts[m] + 1
             /\ Counts[m + 1] = Entries(m) /\ Entries(m) \in Nat
             /\ OffsetsAccepted(offsets[m]) /\ offsets[m][Len(offsets[m])] <= Entries(m)
  <2>1. offsets[m] \in Seq(Nat) /\ Len(offsets[m]) \in Nat \ {0}
    BY LenProperties DEF LayersOK, LayerInStep
  <2>2. Counts[m] = Len(offsets[m]) - 1
    BY LoopsAre DEF Counts, Count
  <2>3. Counts[m + 1] = Entries(m)
    BY LoopsAre, EntriesCounted DEF Counts
  <2>4. Entries(m) \in Nat
    BY EntriesTyped DEF LayerInStep
  <2> QED BY <2>1, <2>2, <2>3, <2>4 DEF LayerInStep
<1>2. ASSUME NEW m \in Layers, NEW r \in 1 .. Len(offsets[m])
      PROVE  offsets[m][r] \in Nat /\ offsets[m][r] <= Counts[m + 1]
  <2>1. offsets[m][r] \in Nat /\ offsets[m][Len(offsets[m])] \in Nat
    BY <1>1
  <2>2. offsets[m][r] <= offsets[m][Len(offsets[m])]
    BY <1>1, OffsetsAscend
  <2> QED BY <1>1, <2>1, <2>2
<1>3. Within(offsets, Counts)
  BY <1>1, <1>2 DEF Within
<1>4. ASSUME NEW m \in Layers
      PROVE  ListsRead[m] = [r \in 1 .. Len(offsets[m]) - 1 |->
                IF Optional(m) /\ ~validity[m][r] THEN None
                ELSE SubSeq(ListsRead[m + 1], offsets[m][r] + 1, offsets[m][r + 1])]
  BY ReadEquation, LoopsAre DEF ReadOf
<1>5. Sized(ListsRead, Counts)
  <2>1. ASSUME NEW m \in Layers PROVE Counts[m] \in Nat /\ ListsRead[m] = [r \in 1 .. Counts[m] |-> ListsRead[m][r]]
    <3>1. Len(offsets[m]) - 1 = Counts[m]
      BY <1>1
    <3> QED BY <1>1, <1>4, <3>1
  <2>2. Counts[Leaf] = LeafEntries /\ Counts[Leaf] \in Nat
    <3>1. Depth \in Layers /\ Depth + 1 = Leaf
      BY LoopsAre
    <3> QED BY <1>1, <3>1, LoopsAre DEF Counts, Count
  <2>3. ListsRead[Leaf] = [r \in 1 .. Counts[Leaf] |-> ListsRead[Leaf][r]]
    BY <2>2, ReadEquation, LoopsAre DEF ReadOf, LeavesRead
  <2> QED BY <2>1, <2>2, <2>3, LoopsAre DEF Sized
<1>6. Reads(ListsRead, offsets, validity)
  <2> SUFFICES ASSUME NEW m \in Layers, NEW r \in 1 .. Len(offsets[m]) - 1
               PROVE  ListsRead[m][r] = IF Optional(m) /\ ~validity[m][r] THEN None
                        ELSE [i \in 1 .. offsets[m][r + 1] - offsets[m][r] |-> ListsRead[m + 1][offsets[m][r] + i]]
    BY DEF Reads
  <2>1. r \in 1 .. Len(offsets[m]) /\ r + 1 \in 1 .. Len(offsets[m])
        /\ r + 1 \in 2 .. Len(offsets[m]) /\ (r + 1) - 1 = r
    BY <1>1
  <2>2. PICK a, b : /\ a = offsets[m][r] /\ b = offsets[m][r + 1] /\ a \in Nat /\ b \in Nat
                    /\ a <= b
    BY <1>1, <1>2, <2>1 DEF OffsetsAccepted
  <2>4. SubSeq(ListsRead[m + 1], a + 1, b) = [i \in 1 .. b - a |-> ListsRead[m + 1][a + i]]
    <3>1. \A s : SubSeq(s, a + 1, b) = [i \in 1 .. b - a |-> s[a + i]]
      <4>1. a \in Nat /\ b \in Nat /\ a <= b
        BY <2>2
      <4> SUFFICES ASSUME NEW s PROVE SubSeq(s, a + 1, b) = [i \in 1 .. b - a |-> s[a + i]]
        OBVIOUS
      <4> QED BY <4>1, SubSeqIs
    <3> QED BY <3>1
  <2>5. ListsRead[m][r] = IF Optional(m) /\ ~validity[m][r] THEN None
                          ELSE SubSeq(ListsRead[m + 1], offsets[m][r] + 1, offsets[m][r + 1])
    BY <1>4
  <2> QED BY <2>2, <2>4, <2>5, Zenon
<1> QED BY <1>3, <1>5, <1>6

(* Buffers that only grow leave what was read as it was.                   *)
LEMMA ReadStays ==
  ASSUME NEW L, NEW o, NEW v, NEW c, NEW L2, NEW o2, NEW v2, NEW c2,
         Reads(L, o, v), Sized(L, c), Within(o, c),
         Reads(L2, o2, v2), Sized(L2, c2), Within(o2, c2),
         \A m \in Loops : c[m] <= c2[m],
         \A m \in Layers : \A r \in 1 .. Len(o[m]) : o2[m][r] = o[m][r],
         \A m \in Layers : Optional(m) => \A r \in 1 .. c[m] : v2[m][r] = v[m][r],
         \A i \in 1 .. c[Leaf] : L2[Leaf][i] = L[Leaf][i]
  PROVE  \A m \in Loops : \A i \in 1 .. c[m] : L2[m][i] = L[m][i]
<1> DEFINE T == {m \in Loops : \A i \in 1 .. c[m] : L2[m][i] = L[m][i]}
<1>1. Leaf \in T
  BY LoopsAre
<1>2. ASSUME NEW m \in 1 .. Leaf - 1, m + 1 \in T PROVE m \in T
  <2>1. m \in Layers /\ m \in Loops /\ m + 1 \in Loops
    BY LoopsAre
  <2> SUFFICES ASSUME NEW r \in 1 .. c[m] PROVE L2[m][r] = L[m][r]
    BY <2>1
  <2>2. /\ c[m] \in Nat /\ c2[m] \in Nat /\ c[m] <= c2[m] /\ c[m + 1] \in Nat
        /\ Len(o[m]) = c[m] + 1 /\ Len(o2[m]) = c2[m] + 1
    BY <2>1 DEF Sized, Within
  <2>3. /\ r \in 1 .. Len(o[m]) - 1 /\ r \in 1 .. Len(o2[m]) - 1
        /\ r \in 1 .. Len(o[m]) /\ r + 1 \in 1 .. Len(o[m])
    BY <2>2
  <2>4. PICK a, b : /\ a = o[m][r] /\ b = o[m][r + 1] /\ a \in Nat /\ b \in Nat
                    /\ a <= c[m + 1] /\ b <= c[m + 1]
    BY <2>1, <2>3 DEF Within
  <2>5. o2[m][r] = a /\ o2[m][r + 1] = b
    BY <2>1, <2>3, <2>4
  <2>6. [i \in 1 .. b - a |-> L2[m + 1][a + i]] = [i \in 1 .. b - a |-> L[m + 1][a + i]]
    <3>1. ASSUME NEW i \in 1 .. b - a PROVE L2[m + 1][a + i] = L[m + 1][a + i]
      <4>1. a + i \in 1 .. c[m + 1]
        <5>1. PICK k : k = c[m + 1] /\ k \in Nat /\ b <= k
          BY <2>2, <2>4
        <5>2. a \in Nat /\ b \in Nat /\ i \in 1 .. b - a
          BY <2>4
        <5>3. a + i \in 1 .. k
          BY <5>1, <5>2
        <5> QED BY <5>1, <5>3
      <4>2. \A j \in 1 .. c[m + 1] : L2[m + 1][j] = L[m + 1][j]
        BY <1>2
      <4> QED BY <4>1, <4>2
    <3> QED BY <3>1
  <2>7. L[m][r] = IF Optional(m) /\ ~v[m][r] THEN None ELSE [i \in 1 .. b - a |-> L[m + 1][a + i]]
    BY <2>1, <2>3, <2>4 DEF Reads
  <2>8. L2[m][r] = IF Optional(m) /\ ~v2[m][r] THEN None ELSE [i \in 1 .. b - a |-> L2[m + 1][a + i]]
    <3>1. L2[m][r] = IF Optional(m) /\ ~v2[m][r] THEN None
                     ELSE [i \in 1 .. o2[m][r + 1] - o2[m][r] |-> L2[m + 1][o2[m][r] + i]]
      BY <2>1, <2>3 DEF Reads
    <3> QED BY <2>5, <3>1, Zenon
  <2>9. Optional(m) => v2[m][r] = v[m][r]
    BY <2>1
  <2> QED BY <2>6, <2>7, <2>8, <2>9
<1>3. 1 .. Leaf \subseteq T
  <2> HIDE DEF T
  <2> QED BY <1>1, <1>2, LoopsAre, Outwards
<1> QED BY <1>3, LoopsAre
-----------------------------------------------------------------------------
(* What ListColumn says of one node.                                       *)

(* A list that is not null is a sequence of nodes one loop further in.     *)
LEMMA ListsAreSeqs ==
  ASSUME NEW m \in Layers, NEW n \in Node[m], n # None
  PROVE  n \in Seq(Node[m + 1]) /\ Len(n) \in Nat /\ DOMAIN n = 1 .. Len(n)
         /\ \A i \in 1 .. Len(n) : n[i] \in Node[m + 1]
<1>1. n \in Seq(Node[m + 1])
  BY NodeAssumption
<1> QED BY <1>1

(* Its row.                                                                *)
LEMMA RowIs ==
  ASSUME NEW m \in Loops, NEW n \in Node[m]
  PROVE  /\ n = None => Column!Row[m][n] = None
         /\ n # None /\ m = Leaf => Column!Row[m][n] = Encode[n]
         /\ n # None /\ m # Leaf =>
              Column!Row[m][n] = [i \in 1 .. Len(n) |-> Column!Row[m + 1][n[i]]]
<1>1. Column!Row[m] = RowOf(m, Column!Row[m + 1])
  BY RowEquation
<1>2. Column!Row[m][n] = CASE n = None -> None
                           [] n # None /\ m = Leaf -> Encode[n]
                           [] OTHER -> [i \in DOMAIN n |-> Column!Row[m + 1][n[i]]]
  BY <1>1 DEF RowOf
<1>3. n # None /\ m # Leaf => DOMAIN n = 1 .. Len(n)
  BY ListsAreSeqs, LoopsAre
<1> QED BY <1>2, <1>3

(* Whether it holds a value that cannot be encoded.                        *)
LEMMA BrokenIs ==
  ASSUME NEW m \in Loops, NEW n \in Node[m]
  PROVE  /\ n = None => ~Column!Broken[m][n]
         /\ n # None /\ m = Leaf => (Column!Broken[m][n] <=> Encode[n] = Failed)
         /\ n # None /\ m # Leaf =>
              (Column!Broken[m][n] <=> \E i \in 1 .. Len(n) : Column!Broken[m + 1][n[i]])
<1>1. Column!Broken[m] = BrokenOf(m, Column!Broken[m + 1])
  BY BrokenEquation
<1>2. Column!Broken[m][n] = CASE n = None -> FALSE
                              [] n # None /\ m = Leaf -> Encode[n] = Failed
                              [] OTHER -> \E i \in DOMAIN n : Column!Broken[m + 1][n[i]]
  BY <1>1 DEF BrokenOf
<1>3. n # None /\ m # Leaf => DOMAIN n = 1 .. Len(n)
  BY ListsAreSeqs, LoopsAre
<1> QED BY <1>2, <1>3

(* The weights of the elements of a list that loop m runs over.            *)
Weights(m, k, s) == [i \in DOMAIN s |-> Column!Weight[m][k][s[i]]]

(* Its weight in each layer.                                               *)
LEMMA WeightIs ==
  ASSUME NEW m \in Loops, NEW k \in 1 .. Leaf + 1, NEW n \in Node[m]
  PROVE  /\ m = k => Column!Weight[m][k][n] = 1
         /\ m # k /\ n = None => Column!Weight[m][k][n] = 0
         /\ m # k /\ n # None /\ m = Leaf => Column!Weight[m][k][n] = 1
         /\ m # k /\ n # None /\ m # Leaf =>
              Column!Weight[m][k][n] = Column!SumTo(Weights(m + 1, k, n), Len(n))
<1>1. Column!Weight[m] = WeightOf(m, Column!Weight[m + 1])
  BY WeightEquation
<1>2. Column!Weight[m][k][n] =
        IF m = k THEN 1
        ELSE IF n = None THEN 0
        ELSE IF m = Leaf THEN 1
        ELSE Column!SumTo([i \in DOMAIN n |-> Column!Weight[m + 1][k][n[i]]], Len(n))
  BY <1>1 DEF WeightOf
<1> QED BY <1>2 DEF Weights

(* Weights are naturals.                                                   *)
LEMMA WeightType ==
  \A m \in Loops : \A k \in 1 .. Leaf + 1 : \A n \in Node[m] : Column!Weight[m][k][n] \in Nat
<1> DEFINE T == {m \in Loops : \A k \in 1 .. Leaf + 1 : \A n \in Node[m] : Column!Weight[m][k][n] \in Nat}
<1>1. Leaf \in T
  BY WeightIs, LoopsAre
<1>2. ASSUME NEW m \in 1 .. Leaf - 1, m + 1 \in T PROVE m \in T
  <2>1. m \in Layers /\ m \in Loops /\ m # Leaf /\ m + 1 \in Loops
    BY LoopsAre
  <2> SUFFICES ASSUME NEW k \in 1 .. Leaf + 1, NEW n \in Node[m], m # k, n # None
               PROVE  Column!SumTo(Weights(m + 1, k, n), Len(n)) \in Nat
    BY <2>1, WeightIs
  <2>2. Len(n) \in Nat /\ DOMAIN n = 1 .. Len(n) /\ \A i \in 1 .. Len(n) : n[i] \in Node[m + 1]
    BY <2>1, ListsAreSeqs
  <2>3. \A i \in 1 .. Len(n) : Weights(m + 1, k, n)[i] \in Nat
    BY <1>2, <2>2 DEF Weights
  <2> QED BY <2>2, <2>3, SumGrows
<1>3. 1 .. Leaf \subseteq T
  <2> HIDE DEF T
  <2> QED BY <1>1, <1>2, LoopsAre, Outwards
<1> QED BY <1>3, LoopsAre

(* The weight of the elements read so far is within that of them all.      *)
LEMMA WeightsGrow ==
  ASSUME NEW m \in Loops, NEW k \in 1 .. Leaf + 1, NEW s \in Seq(Node[m])
  PROVE  /\ \A i \in 1 .. Len(s) : Weights(m, k, s)[i] = Column!Weight[m][k][s[i]]
                                   /\ Column!Weight[m][k][s[i]] \in Nat
         /\ \A j \in 0 .. Len(s) :
              /\ Column!SumTo(Weights(m, k, s), j) \in Nat
              /\ Column!SumTo(Weights(m, k, s), j) <= Column!SumTo(Weights(m, k, s), Len(s))
         /\ \A j \in 0 .. Len(s) - 1 :
              /\ Column!SumTo(Weights(m, k, s), j + 1)
                   = Column!SumTo(Weights(m, k, s), j) + Column!Weight[m][k][s[j + 1]]
              /\ Column!SumTo(Weights(m, k, s), j) + Column!Weight[m][k][s[j + 1]]
                   <= Column!SumTo(Weights(m, k, s), Len(s))
<1>1. Len(s) \in Nat /\ DOMAIN s = 1 .. Len(s) /\ \A i \in 1 .. Len(s) : s[i] \in Node[m]
  BY LenProperties
<1>2. \A i \in 1 .. Len(s) : Weights(m, k, s)[i] = Column!Weight[m][k][s[i]]
                             /\ Column!Weight[m][k][s[i]] \in Nat
  BY <1>1, WeightType DEF Weights
<1>3. PICK f : f = Weights(m, k, s)
  OBVIOUS
<1>4. \A i \in 1 .. Len(s) : f[i] \in Nat
  BY <1>2, <1>3
<1>5. \A j \in 0 .. Len(s) : Column!SumTo(f, j) \in Nat /\ Column!SumTo(f, j) <= Column!SumTo(f, Len(s))
  BY <1>1, <1>4, SumGrows
<1>6. ASSUME NEW j \in 0 .. Len(s) - 1
      PROVE  /\ Column!SumTo(f, j + 1) = Column!SumTo(f, j) + f[j + 1]
             /\ Column!SumTo(f, j) + f[j + 1] <= Column!SumTo(f, Len(s))
             /\ f[j + 1] = Column!Weight[m][k][s[j + 1]]
  <2>1. j \in Nat /\ j + 1 \in 1 .. Len(s)
    BY <1>1
  <2>2. f[j + 1] = Column!Weight[m][k][s[j + 1]]
    BY <1>2, <1>3, <2>1
  <2>3. Column!SumTo(f, j) + f[j + 1] <= Column!SumTo(f, Len(s))
    BY <1>1, <1>4, SumGrows
  <2> QED BY <2>1, <2>2, <2>3, SumStep
<1> QED BY <1>2, <1>3, <1>5, <1>6
-----------------------------------------------------------------------------
(* The lists the open loops run over. c[m] counts what loop m has stored,  *)
(* b[m] what it had stored when the list it runs over was entered, o is    *)
(* the innermost open loop and r what the iterators have still to yield.   *)

(* A loop outside the innermost one is inside an element.                  *)
Inside(m, o) == IF m < o THEN 1 ELSE 0

(* d elements of s are done, h is being read, and t are to come.           *)
Placed(s, d, h, t) ==
  d + h + Len(t) = Len(s) /\ \A i \in 1 .. Len(t) : t[i] = s[d + h + i]

(* Loop m runs over q[m], and the next loop over the element it is in.     *)
RunsOver(q, c, b, o, r, m) ==
  /\ q[m] \in Seq(Node[m])
  /\ b[m] <= c[m]
  /\ Placed(q[m], c[m] - b[m], Inside(m, o), r[m])
  /\ m < o => q[m + 1] # None /\ q[m + 1] = q[m][c[m] - b[m] + 1]

(* The open loops run over q.                                              *)
Walked(q, c, b, o, r) ==
  /\ q \in [Loops -> Seq(Elements)]
  /\ \A m \in 1 .. o : RunsOver(q, c, b, o, r, m)

(* The types of these.                                                     *)
Measures(c, b, o, r) ==
  /\ c \in [Loops -> Nat] /\ b \in [Loops -> Nat] /\ o \in Loops
  /\ r \in Rests

(* So are those of one open loop.                                          *)
LEMMA MeasuresAt ==
  ASSUME NEW c, NEW b, NEW o, NEW r, Measures(c, b, o, r)
  PROVE  /\ o \in Loops /\ o \in Nat \ {0} /\ o \in 1 .. o /\ o \in 1 .. Leaf
         /\ \A m \in 1 .. o : /\ m \in Loops /\ m \in Nat \ {0}
                              /\ c[m] \in Nat /\ b[m] \in Nat /\ r[m] \in Seq(Node[m])
<1>1. o \in Loops
  BY DEF Measures
<1>2. o \in Nat \ {0} /\ o \in 1 .. o /\ o \in 1 .. Leaf
  BY <1>1, LoopsAre
<1>3. ASSUME NEW m \in 1 .. o
      PROVE  /\ m \in Loops /\ m \in Nat \ {0}
             /\ c[m] \in Nat /\ b[m] \in Nat /\ r[m] \in Seq(Node[m])
  <2>1. m \in Loops /\ m \in Nat \ {0}
    BY <1>2, LoopsAre
  <2> QED BY <2>1 DEF Measures, Rests
<1> QED BY <1>1, <1>2, <1>3

(* Taking the next element.                                                *)
LEMMA NextPlaced ==
  ASSUME NEW S, NEW s \in Seq(S), NEW t \in Seq(S), t # <<>>, NEW d \in Nat, Placed(s, d, 0, t)
  PROVE  /\ Placed(s, d + 1, 0, Tail(t)) /\ Placed(s, d, 1, Tail(t))
         /\ Head(t) = s[d + 1] /\ Head(t) \in S /\ d \in 0 .. Len(s) - 1
<1>1. /\ Len(t) \in Nat \ {0} /\ Head(t) = t[1] /\ t[1] \in S /\ Len(Tail(t)) = Len(t) - 1
      /\ \A i \in 1 .. Len(t) - 1 : Tail(t)[i] = t[i + 1]
  OBVIOUS
<1>2. Len(s) \in Nat /\ d + Len(t) = Len(s) /\ \A i \in 1 .. Len(t) : t[i] = s[d + i]
  BY <1>1 DEF Placed
<1>3. ASSUME NEW i \in 1 .. Len(t) - 1 PROVE Tail(t)[i] = s[d + 1 + i]
  <2>1. i + 1 \in 1 .. Len(t) /\ d + (i + 1) = d + 1 + i
    BY <1>1
  <2> QED BY <1>1, <1>2, <2>1
<1>4. d + 1 + Len(Tail(t)) = Len(s) /\ d \in 0 .. Len(s) - 1 /\ Head(t) = s[d + 1]
  BY <1>1, <1>2
<1>5. Placed(s, d, 1, Tail(t))
  BY <1>1, <1>3, <1>4 DEF Placed
<1>6. Placed(s, d + 1, 0, Tail(t))
  BY <1>1, <1>3, <1>4 DEF Placed
<1> QED BY <1>1, <1>4, <1>5, <1>6

(* Leaving the element that was being read.                                *)
LEMMA LastPlaced ==
  ASSUME NEW S, NEW s \in Seq(S), NEW t \in Seq(S), NEW d \in Nat, Placed(s, d, 1, t)
  PROVE  Placed(s, d + 1, 0, t) /\ d \in 0 .. Len(s) - 1
<1>1. Len(s) \in Nat /\ Len(t) \in Nat
  OBVIOUS
<1>2. d + 1 + Len(t) = Len(s)
  BY DEF Placed
<1> QED BY <1>1, <1>2 DEF Placed

(* Entering a list: it is what the next loop runs over.                    *)
LEMMA WalkEnters ==
  ASSUME NEW q, NEW c, NEW b, NEW o, NEW r, NEW r2, Measures(c, b, o, r), Walked(q, c, b, o, r),
         o < Leaf, r[o] # <<>>, Head(r[o]) # None, b[o + 1] = c[o + 1],
         \A m \in 1 .. o - 1 : r2[m] = r[m],
         r2[o] = Tail(r[o]), r2[o + 1] = Head(r[o])
  PROVE  Walked([q EXCEPT ![o + 1] = Head(r[o])], c, b, o + 1, r2)
<1>1. o \in Layers /\ o \in Nat \ {0} /\ o + 1 \in Loops /\ o \in Loops /\ o \in 1 .. o
  BY LoopsAre DEF Measures
<1>2. r[o] \in Seq(Node[o])
  BY <1>1 DEF Measures, Rests
<1>3. PICK x : x = Head(r[o])
  OBVIOUS
<1>4. x \in Node[o]
  BY <1>2, <1>3, HeadTailProperties
<1>5. x \in Seq(Node[o + 1]) /\ x \in Seq(Elements)
  BY <1>1, <1>3, <1>4, NodeAssumption, ElementsOfLoops
<1>6. PICK p : p = [q EXCEPT ![o + 1] = x]
  OBVIOUS
<1>7. p \in [Loops -> Seq(Elements)] /\ p[o + 1] = x
      /\ \A m \in 1 .. o : p[m] = q[m]
  BY <1>1, <1>5, <1>6, LoopsAre DEF Walked
<1>8. ASSUME NEW m \in 1 .. o PROVE RunsOver(p, c, b, o + 1, r2, m)
  <2>1. m \in Loops /\ m \in Nat /\ c[m] \in Nat /\ b[m] \in Nat /\ p[m] = q[m] /\ m < o + 1
    <3>1. m \in Loops /\ m \in Nat /\ c[m] \in Nat /\ b[m] \in Nat
      BY MeasuresAt
    <3> QED BY <1>1, <1>7, <3>1
  <2>2. RunsOver(q, c, b, o, r, m)
    BY DEF Walked
  <2>3. CASE m = o
    <3>1. PICK d \in Nat : d = c[m] - b[m]
      BY <2>1, <2>2 DEF RunsOver
    <3>2. Inside(m, o) = 0 /\ Inside(m, o + 1) = 1
      BY <1>1, <2>3 DEF Inside
    <3>3. q[o] \in Seq(Node[o]) /\ Placed(q[o], d, 0, r[o])
      BY <2>2, <2>3, <3>1, <3>2 DEF RunsOver
    <3>4. Placed(q[o], d, 1, Tail(r[o])) /\ x = q[o][d + 1]
      BY <1>2, <1>3, <3>3, NextPlaced
    <3> QED BY <1>3, <1>7, <2>1, <2>2, <2>3, <3>1, <3>2, <3>4 DEF RunsOver
  <2>4. CASE m # o
    <3>1. m \in 1 .. o - 1 /\ m < o /\ m + 1 \in 1 .. o
      BY <1>1, <2>1, <2>4
    <3>2. p[m + 1] = q[m + 1] /\ r2[m] = r[m] /\ Inside(m, o) = Inside(m, o + 1)
      BY <1>1, <1>7, <2>1, <3>1 DEF Inside
    <3> QED BY <2>1, <2>2, <3>1, <3>2 DEF RunsOver
  <2> QED BY <2>3, <2>4
<1>9. RunsOver(p, c, b, o + 1, r2, o + 1)
  <2>1. c[o + 1] \in Nat /\ b[o + 1] \in Nat /\ c[o + 1] - b[o + 1] = 0
        /\ Inside(o + 1, o + 1) = 0 /\ b[o + 1] <= c[o + 1] /\ ~(o + 1 < o + 1)
    BY <1>1 DEF Measures, Inside
  <2>2. p[o + 1] = x /\ r2[o + 1] = x /\ Len(x) \in Nat
    BY <1>3, <1>5, <1>7
  <2>3. Placed(x, 0, 0, x)
    BY <2>2 DEF Placed
  <2>4. p[o + 1] \in Seq(Node[o + 1])
    BY <1>5, <2>2
  <2> QED BY <2>1, <2>2, <2>3, <2>4 DEF RunsOver
<1>10. \A m \in 1 .. o + 1 : RunsOver(p, c, b, o + 1, r2, m)
  <2>1. \A m \in 1 .. o + 1 : m \in 1 .. o \/ m = o + 1
    BY <1>1
  <2> QED BY <1>8, <1>9, <2>1
<1>11. Walked(p, c, b, o + 1, r2)
  BY <1>7, <1>10 DEF Walked
<1> QED BY <1>3, <1>6, <1>11

(* An element is done without being entered.                               *)
LEMMA WalkCloses ==
  ASSUME NEW q, NEW c, NEW b, NEW o, NEW r, NEW c2, NEW b2, NEW r2,
         Measures(c, b, o, r), Walked(q, c, b, o, r), r[o] # <<>>,
         \A m \in 1 .. o : b2[m] = b[m], \A m \in 1 .. o - 1 : c2[m] = c[m] /\ r2[m] = r[m],
         c2[o] = c[o] + 1, r2[o] = Tail(r[o])
  PROVE  Walked(q, c2, b2, o, r2) /\ Head(r[o]) = q[o][c[o] - b[o] + 1]
         /\ c[o] - b[o] \in 0 .. Len(q[o]) - 1
<1>1. o \in Nat \ {0} /\ o \in Loops /\ o \in 1 .. o
  BY LoopsAre DEF Measures
<1>2. r[o] \in Seq(Node[o])
  BY <1>1 DEF Measures, Rests
<1>4. c[o] \in Nat /\ b[o] \in Nat /\ RunsOver(q, c, b, o, r, o) /\ Inside(o, o) = 0
  BY <1>1 DEF Measures, Walked, Inside
<1>5. PICK d \in Nat : d = c[o] - b[o]
  BY <1>4 DEF RunsOver
<1>6. q[o] \in Seq(Node[o]) /\ Placed(q[o], d, 0, r[o])
  BY <1>4, <1>5 DEF RunsOver
<1>7. Placed(q[o], d + 1, 0, r2[o]) /\ Head(r[o]) = q[o][d + 1] /\ d \in 0 .. Len(q[o]) - 1
  BY <1>2, <1>6, NextPlaced
<1>8. RunsOver(q, c2, b2, o, r2, o)
  <2>1. c2[o] = c[o] + 1 /\ b2[o] = b[o]
    BY <1>1
  <2>2. c2[o] - b2[o] = d + 1 /\ b2[o] <= c2[o] /\ ~(o < o)
    <3>1. c[o] \in Nat /\ b[o] \in Nat /\ o \in Nat
      BY <1>1, <1>4
    <3> QED BY <1>5, <2>1, <3>1
  <2> QED BY <1>4, <1>6, <1>7, <2>2 DEF RunsOver
<1>9. ASSUME NEW m \in 1 .. o, m # o PROVE RunsOver(q, c2, b2, o, r2, m)
  <2>1. m \in 1 .. o - 1 /\ RunsOver(q, c, b, o, r, m)
    BY <1>1, <1>9 DEF Walked
  <2>2. c2[m] = c[m] /\ b2[m] = b[m] /\ r2[m] = r[m]
    BY <2>1
  <2> QED BY <2>1, <2>2 DEF RunsOver
<1> QED BY <1>5, <1>7, <1>8, <1>9 DEF Walked

(* The list that loop o has read to its end, and its place in the list     *)
(* around it.                                                              *)
ReadToEnd(q, c, b, o, p) ==
  /\ q[o] = q[p][c[p] - b[p] + 1] /\ q[o] # None /\ q[o] \in Node[p]
  /\ c[p] - b[p] \in 0 .. Len(q[p]) - 1
  /\ c[o] - b[o] = Len(q[o])

(* A loop at its end has stored every element of its list.                 *)
LEMMA ListReadToEnd ==
  ASSUME NEW q, NEW c, NEW b, NEW o, NEW r, NEW p, p = o - 1,
         Measures(c, b, o, r), Walked(q, c, b, o, r), o > 1, r[o] = <<>>
  PROVE  /\ ReadToEnd(q, c, b, o, p)
         /\ p \in Nat \ {0} /\ p + 1 = o /\ p \in Loops /\ p \in 1 .. o /\ p < o /\ p # o
         /\ c[p] - b[p] \in Nat /\ q[p] \in Seq(Node[p])
         /\ Placed(q[p], c[p] - b[p] + 1, 0, r[p])
<1>0. o \in Nat \ {0} /\ o \in 1 .. Leaf
  BY LoopsAre DEF Measures
<1>1. p \in Nat \ {0} /\ p + 1 = o /\ p \in Loops /\ p \in 1 .. o /\ o \in 1 .. o
      /\ o \in Loops /\ p < o
  <2>1. o - 1 \in Nat \ {0} /\ o - 1 \in 1 .. Leaf /\ (o - 1) + 1 = o /\ o - 1 \in 1 .. o /\ o - 1 < o
    BY <1>0, LoopsAre
  <2> QED BY <1>0, <2>1, LoopsAre
<1>2. RunsOver(q, c, b, o, r, o) /\ RunsOver(q, c, b, o, r, p)
      /\ Inside(p, o) = 1 /\ Inside(o, o) = 0
  BY <1>1 DEF Walked, Inside
<1>3. c[p] \in Nat /\ b[p] \in Nat /\ r[p] \in Seq(Node[p])
  BY <1>0, <1>1 DEF Measures, Rests
<1>4. PICK d \in Nat : d = c[p] - b[p]
  BY <1>2, <1>3 DEF RunsOver
<1>5. q[p] \in Seq(Node[p]) /\ Placed(q[p], d, 1, r[p]) /\ q[o] # None /\ q[o] = q[p][d + 1]
  BY <1>1, <1>2, <1>4 DEF RunsOver
<1>6. Placed(q[p], d + 1, 0, r[p]) /\ d \in 0 .. Len(q[p]) - 1
  BY <1>3, <1>5, LastPlaced
<1>7. q[o] \in Node[p]
  <2>1. Len(q[p]) \in Nat /\ d + 1 \in 1 .. Len(q[p])
    BY <1>5, <1>6
  <2> QED BY <1>5, <2>1
<1>8. c[o] - b[o] = Len(q[o])
  <2>1. Len(r[o]) = 0 /\ c[o] \in Nat /\ b[o] \in Nat
    BY <1>1 DEF Measures
  <2>2. c[o] - b[o] + 0 + 0 = Len(q[o])
    BY <1>2, <2>1 DEF RunsOver, Placed
  <2> QED BY <2>1, <2>2
<1>9. ReadToEnd(q, c, b, o, p)
  BY <1>4, <1>5, <1>6, <1>7, <1>8 DEF ReadToEnd
<1> QED BY <1>1, <1>4, <1>5, <1>6, <1>9

(* Leaving a list that was read to its end.                                *)
LEMMA WalkLeaves ==
  ASSUME NEW q, NEW c, NEW b, NEW o, NEW r, NEW c2, NEW b2, NEW p, p = o - 1,
         Measures(c, b, o, r), Walked(q, c, b, o, r), o > 1, r[o] = <<>>,
         \A m \in 1 .. p : b2[m] = b[m], \A m \in 1 .. p - 1 : c2[m] = c[m],
         c2[p] = c[p] + 1
  PROVE  Walked(q, c2, b2, p, r)
<1>1. /\ p \in Nat \ {0} /\ p + 1 = o /\ p \in Loops /\ p \in 1 .. o /\ p < o /\ p \in 1 .. p
      /\ c[p] - b[p] \in Nat /\ q[p] \in Seq(Node[p])
      /\ Placed(q[p], c[p] - b[p] + 1, 0, r[p])
  BY ListReadToEnd
<1>2. c[p] \in Nat /\ b[p] \in Nat /\ c2[p] = c[p] + 1 /\ b2[p] = b[p] /\ Inside(p, p) = 0
  BY <1>1 DEF Measures, Inside
<1>3. PICK d \in Nat : d = c[p] - b[p]
  BY <1>1
<1>4. RunsOver(q, c2, b2, p, r, p)
  <2>1. c2[p] - b2[p] = d + 1 /\ b2[p] <= c2[p] /\ ~(p < p)
    BY <1>1, <1>2, <1>3
  <2> QED BY <1>1, <1>2, <1>3, <2>1 DEF RunsOver
<1>5. ASSUME NEW m \in 1 .. p, m # p PROVE RunsOver(q, c2, b2, p, r, m)
  <2>1. m \in 1 .. p - 1 /\ m \in 1 .. p /\ m \in 1 .. o /\ m < o /\ m < p
    BY <1>1, <1>5
  <2>2. c2[m] = c[m] /\ b2[m] = b[m] /\ RunsOver(q, c, b, o, r, m) /\ Inside(m, o) = Inside(m, p)
    BY <2>1 DEF Walked, Inside
  <2> QED BY <2>1, <2>2 DEF RunsOver
<1> QED BY <1>4, <1>5 DEF Walked
-----------------------------------------------------------------------------
(* What has been stored of the open lists, and how much of it there is.    *)

(* Every element done is read back as its row, and none is broken.         *)
ReadBack(q, c, b, o, L) ==
  \A m \in 1 .. o : \A i \in 1 .. c[m] - b[m] :
    L[m][b[m] + i] = Column!Row[m][q[m][i]] /\ ~Column!Broken[m][q[m][i]]

(* Nested optional leaves are stored apart and gathered by position.       *)
Gathered == LeafKind = "nested" /\ InnerOption

(* What is numbered: lists and leaves, and the values gathered.            *)
Numbered == {k \in 1 .. Leaf + 1 : k = Leaf + 1 => Gathered}

(* What d elements of loop m add to number k.                              *)
StoredBelow(m, k, s, d) == IF k < m THEN 0 ELSE Column!SumTo(Weights(m, k, s), d)

(* t[m][k] adds up number k from the items down to loop m: at the innermost *)
(* loop it is all there is.                                                *)
Weighed(q, t, c, b, o, n) ==
  /\ t \in [0 .. Leaf -> [1 .. Leaf + 1 -> Nat]]
  /\ \A k \in Numbered : t[0][k] = 0 /\ t[o][k] = n[k]
  /\ \A m \in 1 .. o : \A k \in Numbered : t[m][k] = t[m - 1][k] + StoredBelow(m, k, q[m], c[m] - b[m])

(* A list just entered has nothing stored.                                 *)
LEMMA BackEnters ==
  ASSUME NEW q, NEW q2, NEW c, NEW b, NEW o, NEW r, NEW L, NEW L2,
         Measures(c, b, o, r), ReadBack(q, c, b, o, L), o < Leaf, b[o + 1] = c[o + 1],
         \A m \in 1 .. o : q2[m] = q[m] /\ b[m] <= c[m],
         \A m \in Loops : \A i \in 1 .. c[m] : L2[m][i] = L[m][i]
  PROVE  ReadBack(q2, c, b, o + 1, L2)
<1>1. o \in Nat \ {0} /\ o \in Loops /\ o + 1 \in Loops
  <2>1. o \in Loops
    BY DEF Measures
  <2> QED BY <2>1, LoopsAre
<1> SUFFICES ASSUME NEW m \in 1 .. o + 1, NEW i \in 1 .. c[m] - b[m]
             PROVE  L2[m][b[m] + i] = Column!Row[m][q2[m][i]] /\ ~Column!Broken[m][q2[m][i]]
  BY DEF ReadBack
<1>2. m \in Loops /\ c[m] \in Nat /\ b[m] \in Nat
  <2>1. m \in Loops
    BY <1>1, LoopsAre
  <2> QED BY <2>1 DEF Measures
<1>3. m # o + 1
  BY <1>2
<1>4. m \in 1 .. o
  BY <1>1, <1>3
<1>5. b[m] + i \in 1 .. c[m]
  BY <1>2, <1>4
<1> QED BY <1>2, <1>4, <1>5 DEF ReadBack

(* Loop p stores the element x of the list it runs over, and is now the    *)
(* innermost open one.                                                     *)
Stores(q, c, b, o, r, L, c2, b2, L2, p, x) ==
  /\ Measures(c, b, o, r) /\ ReadBack(q, c, b, o, L) /\ p \in 1 .. o
  /\ \A m \in 1 .. p : b2[m] = b[m] /\ b[m] <= c[m]
  /\ \A m \in 1 .. p - 1 : c2[m] = c[m]
  /\ c2[p] = c[p] + 1
  /\ \A m \in Loops : \A i \in 1 .. c[m] : L2[m][i] = L[m][i]
  /\ x = q[p][c[p] - b[p] + 1]
  /\ L2[p][c[p] + 1] = Column!Row[p][x] /\ ~Column!Broken[p][x]

(* Then all the elements done are read back as before, and x is.           *)
LEMMA BackCloses ==
  ASSUME NEW q, NEW c, NEW b, NEW o, NEW r, NEW L, NEW c2, NEW b2, NEW L2, NEW p, NEW x,
         Stores(q, c, b, o, r, L, c2, b2, L2, p, x)
  PROVE  ReadBack(q, c2, b2, p, L2)
<1>0. /\ Measures(c, b, o, r) /\ ReadBack(q, c, b, o, L) /\ p \in 1 .. o
      /\ \A m \in 1 .. p : b2[m] = b[m] /\ b[m] <= c[m]
      /\ \A m \in 1 .. p - 1 : c2[m] = c[m]
      /\ c2[p] = c[p] + 1
      /\ \A m \in Loops : \A i \in 1 .. c[m] : L2[m][i] = L[m][i]
      /\ x = q[p][c[p] - b[p] + 1]
      /\ L2[p][c[p] + 1] = Column!Row[p][x] /\ ~Column!Broken[p][x]
  BY DEF Stores
<1>1. o \in 1 .. Leaf /\ p \in Nat \ {0} /\ p \in Loops /\ p \in 1 .. p
  <2>1. o \in Loops /\ p \in 1 .. o
    BY <1>0 DEF Measures
  <2> QED BY <2>1, LoopsAre
<1> USE <1>0
<1> SUFFICES ASSUME NEW m \in 1 .. p, NEW i \in 1 .. c2[m] - b2[m]
             PROVE  L2[m][b2[m] + i] = Column!Row[m][q[m][i]] /\ ~Column!Broken[m][q[m][i]]
  BY DEF ReadBack
<1>2. m \in Loops /\ m \in 1 .. o /\ c[m] \in Nat /\ b[m] \in Nat /\ b2[m] = b[m] /\ b[m] <= c[m]
  <2>1. m \in 1 .. o
    BY <1>1
  <2> QED BY <2>1, MeasuresAt
<1>3. CASE i \in 1 .. c[m] - b[m]
  <2>1. b[m] + i \in 1 .. c[m]
    BY <1>2, <1>3
  <2>2. L2[m][b[m] + i] = L[m][b[m] + i]
    BY <1>2, <2>1
  <2> QED BY <1>2, <1>3, <2>2 DEF ReadBack
<1>4. CASE i \notin 1 .. c[m] - b[m]
  <2>1. m = p
    <3>1. m # p => m \in 1 .. p - 1
      BY <1>1
    <3> QED BY <1>2, <1>4, <3>1
  <2>2. i = c[p] - b[p] + 1 /\ b[p] + i = c[p] + 1
    BY <1>2, <1>4, <2>1
  <2> QED BY <1>2, <2>1, <2>2
<1> QED BY <1>3, <1>4

(* A list just entered adds nothing.                                       *)
LEMMA WeighedEnters ==
  ASSUME NEW q, NEW q2, NEW t, NEW c, NEW b, NEW o, NEW r, NEW n,
         Measures(c, b, o, r), Weighed(q, t, c, b, o, n), o < Leaf, b[o + 1] = c[o + 1],
         \A m \in 1 .. o : q2[m] = q[m]
  PROVE  Weighed(q2, [t EXCEPT ![o + 1] = t[o]], c, b, o + 1, n)
<1>1. o \in Nat \ {0} /\ o \in Loops /\ o + 1 \in Loops /\ o \in 0 .. Leaf /\ o + 1 \in 0 .. Leaf
      /\ \A m \in 1 .. o : m - 1 \in 0 .. o
  BY LoopsAre DEF Measures
<1>2. PICK u : u = [t EXCEPT ![o + 1] = t[o]]
  OBVIOUS
<1>3. u \in [0 .. Leaf -> [1 .. Leaf + 1 -> Nat]] /\ u[o + 1] = t[o] /\ \A m \in 0 .. o : u[m] = t[m]
  BY <1>1, <1>2 DEF Weighed
<1>4. \A k \in Numbered : u[0][k] = 0 /\ u[o + 1][k] = n[k]
  BY <1>1, <1>3 DEF Weighed
<1>5. ASSUME NEW m \in 1 .. o + 1, NEW k \in Numbered
      PROVE  u[m][k] = u[m - 1][k] + StoredBelow(m, k, q2[m], c[m] - b[m])
  <2>1. CASE m = o + 1
    <3>1. c[m] - b[m] = 0 /\ m - 1 = o /\ m - 1 \in 0 .. o
      BY <1>1, <2>1 DEF Measures
    <3>2. StoredBelow(m, k, q2[m], c[m] - b[m]) = 0
      BY <3>1, SumZero DEF StoredBelow
    <3>3. t[o][k] \in Nat
      BY <1>1 DEF Weighed, Numbered
    <3> QED BY <1>1, <1>3, <2>1, <3>1, <3>2, <3>3
  <2>2. CASE m # o + 1
    <3>1. m \in 1 .. o /\ m \in 0 .. o /\ m - 1 \in 0 .. o
      BY <1>1, <2>2
    <3> QED BY <1>3, <3>1 DEF Weighed
  <2> QED BY <2>1, <2>2
<1> QED BY <1>2, <1>3, <1>4, <1>5 DEF Weighed

(* Loop p is done with the element x, which adds its weight.               *)
Adds(q, t, c, b, o, r, n, c2, b2, n2, p, x) ==
  /\ Measures(c, b, o, r) /\ Weighed(q, t, c, b, o, n) /\ p \in 1 .. o
  /\ \A m \in 1 .. p : b2[m] = b[m] /\ b[m] <= c[m]
  /\ \A m \in 1 .. p - 1 : c2[m] = c[m]
  /\ c2[p] = c[p] + 1
  /\ q[p] \in Seq(Node[p]) /\ c[p] - b[p] \in 0 .. Len(q[p]) - 1
  /\ x = q[p][c[p] - b[p] + 1] /\ n2 \in [1 .. Leaf + 1 -> Nat]
  /\ \A k \in Numbered : n2[k] = t[p][k] + IF k < p THEN 0 ELSE Column!Weight[p][k][x]

(* An element that is done adds its weight.                                *)
LEMMA WeighedCloses ==
  ASSUME NEW q, NEW t, NEW c, NEW b, NEW o, NEW r, NEW n, NEW c2, NEW b2, NEW n2, NEW p, NEW x,
         Adds(q, t, c, b, o, r, n, c2, b2, n2, p, x)
  PROVE  Weighed(q, [t EXCEPT ![p] = n2], c2, b2, p, n2)
<1>0. /\ Measures(c, b, o, r) /\ Weighed(q, t, c, b, o, n) /\ p \in 1 .. o
      /\ \A m \in 1 .. p : b2[m] = b[m] /\ b[m] <= c[m]
      /\ \A m \in 1 .. p - 1 : c2[m] = c[m]
      /\ c2[p] = c[p] + 1
      /\ q[p] \in Seq(Node[p]) /\ c[p] - b[p] \in 0 .. Len(q[p]) - 1
      /\ x = q[p][c[p] - b[p] + 1] /\ n2 \in [1 .. Leaf + 1 -> Nat]
      /\ \A k \in Numbered : n2[k] = t[p][k] + IF k < p THEN 0 ELSE Column!Weight[p][k][x]
  BY DEF Adds
<1>1. o \in 1 .. Leaf /\ p \in Nat \ {0} /\ p \in Loops /\ p \in 1 .. p /\ p \in 0 .. Leaf
      /\ \A m \in 1 .. p : m - 1 \in 0 .. p - 1
  <2>1. o \in Loops /\ p \in 1 .. o
    BY <1>0 DEF Measures
  <2> QED BY <2>1, LoopsAre
<1> USE <1>0
<1>2. PICK u : u = [t EXCEPT ![p] = n2]
  OBVIOUS
<1>3. u \in [0 .. Leaf -> [1 .. Leaf + 1 -> Nat]] /\ u[p] = n2 /\ \A m \in 0 .. p - 1 : u[m] = t[m]
  BY <1>1, <1>2 DEF Weighed
<1>4. \A k \in Numbered : u[0][k] = 0 /\ u[p][k] = n2[k]
  BY <1>1, <1>3 DEF Weighed
<1>5. ASSUME NEW m \in 1 .. p, NEW k \in Numbered
      PROVE  u[m][k] = u[m - 1][k] + StoredBelow(m, k, q[m], c2[m] - b2[m])
  <2>0. m \in 1 .. o /\ m \in Nat /\ k \in 1 .. Leaf + 1
    BY <1>1 DEF Numbered
  <2>1. t[m][k] = t[m - 1][k] + StoredBelow(m, k, q[m], c[m] - b[m])
    BY <2>0 DEF Weighed
  <2>2. CASE m = p
    <3>1. PICK d : d = c[p] - b[p] /\ d \in 0 .. Len(q[p]) - 1 /\ d \in Nat
      OBVIOUS
    <3>2. c2[p] - b2[p] = d + 1
      BY <1>1, <3>1 DEF Measures
    <3>3. Column!SumTo(Weights(p, k, q[p]), d + 1) = Column!SumTo(Weights(p, k, q[p]), d) + Column!Weight[p][k][x]
      BY <1>1, <2>0, <3>1, WeightsGrow
    <3>4. Column!SumTo(Weights(p, k, q[p]), d) \in Nat /\ t[p - 1][k] \in Nat /\ Column!Weight[p][k][x] \in Nat
      <4>1. d \in 0 .. Len(q[p]) /\ d + 1 \in 1 .. Len(q[p])
        BY <3>1, LenProperties
      <4>2. Column!SumTo(Weights(p, k, q[p]), d) \in Nat /\ Column!Weight[p][k][q[p][d + 1]] \in Nat
        BY <1>1, <2>0, <4>1, WeightsGrow
      <4>3. p - 1 \in 0 .. Leaf
        BY <1>1, LoopsAre
      <4> QED BY <2>0, <3>1, <4>2, <4>3 DEF Weighed
    <3>5. u[p][k] = t[p][k] + IF k < p THEN 0 ELSE Column!Weight[p][k][x]
      BY <1>3
    <3>6. u[p - 1][k] = t[p - 1][k]
      BY <1>1, <1>3
    <3>7. CASE k < p
      BY <2>1, <2>2, <3>1, <3>2, <3>4, <3>5, <3>6, <3>7 DEF StoredBelow
    <3>8. CASE ~(k < p)
      <4>1. t[p][k] = t[p - 1][k] + Column!SumTo(Weights(p, k, q[p]), d)
        BY <2>1, <2>2, <3>1, <3>8 DEF StoredBelow
      <4>2. u[p][k] = t[p - 1][k] + Column!SumTo(Weights(p, k, q[p]), d + 1)
        BY <3>3, <3>4, <3>5, <3>8, <4>1
      <4> QED BY <2>2, <3>2, <3>6, <3>8, <4>2 DEF StoredBelow
    <3> QED BY <3>7, <3>8
  <2>3. CASE m # p
    <3>1. m \in 1 .. p - 1 /\ m \in 0 .. p - 1 /\ m - 1 \in 0 .. p - 1
      BY <1>1, <2>0, <2>3
    <3> QED BY <1>3, <2>1, <3>1
  <2> QED BY <2>2, <2>3
<1> QED BY <1>2, <1>3, <1>4, <1>5 DEF Weighed

(* The list that is left: its row, its soundness and its weight.           *)
LEMMA RowOfLeft ==
  ASSUME NEW q, NEW c, NEW b, NEW o, NEW r, NEW L, Measures(c, b, o, r), ReadBack(q, c, b, o, L),
         o > 1, q[o] \in Node[o - 1], q[o] # None, c[o] - b[o] = Len(q[o])
  PROVE  /\ Column!Row[o - 1][q[o]] = [i \in 1 .. c[o] - b[o] |-> L[o][b[o] + i]]
         /\ ~Column!Broken[o - 1][q[o]]
<1>1. o \in 1 .. o /\ o - 1 \in Loops /\ o - 1 # Leaf /\ (o - 1) + 1 = o
  BY LoopsAre DEF Measures
<1>2. \A i \in 1 .. Len(q[o]) : L[o][b[o] + i] = Column!Row[o][q[o][i]] /\ ~Column!Broken[o][q[o][i]]
  BY <1>1 DEF ReadBack
<1>3. Column!Row[o - 1][q[o]] = [i \in 1 .. Len(q[o]) |-> Column!Row[o][q[o][i]]]
  BY <1>1, RowIs
<1>4. ~Column!Broken[o - 1][q[o]]
  BY <1>1, <1>2, BrokenIs
<1> QED BY <1>2, <1>3, <1>4

(* The list that is left weighs what its elements added.                   *)
LEMMA WeightOfLeft ==
  ASSUME NEW q, NEW t, NEW c, NEW b, NEW o, NEW r, NEW n, Measures(c, b, o, r),
         Weighed(q, t, c, b, o, n), o > 1,
         q[o] \in Node[o - 1], q[o] # None, c[o] - b[o] = Len(q[o]), NEW k \in Numbered
  PROVE  n[k] + (IF k = o - 1 THEN 1 ELSE 0)
           = t[o - 1][k] + IF k < o - 1 THEN 0 ELSE Column!Weight[o - 1][k][q[o]]
<1>1. o \in 1 .. o /\ o - 1 \in Loops /\ o - 1 # Leaf /\ (o - 1) + 1 = o /\ k \in 1 .. Leaf + 1 /\ o \in 1 .. Leaf
      /\ o - 1 \in 0 .. Leaf
  BY LoopsAre DEF Measures, Numbered
<1>2. n[k] = t[o - 1][k] + IF k < o THEN 0 ELSE Column!SumTo(Weights(o, k, q[o]), Len(q[o]))
  BY <1>1 DEF Weighed, StoredBelow
<1>3. t[o - 1][k] \in Nat
  BY <1>1 DEF Weighed
<1>4. CASE k < o - 1
  BY <1>1, <1>2, <1>3, <1>4
<1>5. CASE k = o - 1
  BY <1>1, <1>2, <1>3, <1>5, WeightIs
<1>6. CASE k > o - 1
  <2>1. Column!Weight[o - 1][k][q[o]] = Column!SumTo(Weights(o, k, q[o]), Len(q[o]))
    BY <1>1, <1>6, WeightIs
  <2>2. n[k] = t[o - 1][k] + Column!Weight[o - 1][k][q[o]] /\ n[k] \in Nat
    <3>1. ~(k < o)
      BY <1>1, <1>6
    <3>2. t[o][k] \in Nat /\ t[o][k] = n[k]
      BY <1>1, LoopsAre DEF Weighed
    <3> QED BY <1>2, <2>1, <3>1, <3>2
  <2> QED BY <1>1, <1>6, <2>2
<1> QED BY <1>1, <1>4, <1>5, <1>6
-----------------------------------------------------------------------------
(* The invariant.                                                          *)

(* What loop m had stored when the list it runs over was entered.          *)
StoredBefore(m) == IF m = 1 THEN 0 ELSE offsets[m - 1][Len(offsets[m - 1])]

(* What every loop had stored.                                             *)
Bases == [m \in Loops |-> StoredBefore(m)]

(* How much there is of everything numbered.                               *)
Numbers == [k \in 1 .. Leaf + 1 |-> IF k = Leaf + 1 THEN Len(flat) ELSE Count(k)]

(* Some lists and weights account for all that is stored.                  *)
Accounted(q, t) ==
  /\ Walked(q, Counts, Bases, open, rest) /\ q[1] = items
  /\ ReadBack(q, Counts, Bases, open, ListsRead)
  /\ Weighed(q, t, Counts, Bases, open, Numbers)

(* Offsets and gather indices are in range, and what the loops that are    *)
(* not open have stored belongs to lists that are closed.                  *)
InRange ==
  /\ \A m \in 2 .. Leaf : Bases[m] <= MaxOffset /\ (m > open => Bases[m] = Counts[m])
  /\ Gathered => Len(flat) <= MaxIdx + 1

(* The list that is open is a valid one.                                   *)
OpenIsValid == \A m \in Layers : m < open /\ Optional(m) => validity[m][Counts[m] + 1]

(* Positions point into what is gathered; the bitmaps are as they were     *)
(* filled beyond the leaves stored.                                        *)
LeavesSound ==
  /\ Gathered => \A i \in 1 .. Len(positions) : positions[i] = None \/ positions[i] + 1 \in 1 .. Len(flat)
  /\ LeafKind = "bool" => \A i \in 1 .. Len(bits) : i > LeafEntries => bits[i] = FALSE
  /\ InnerOption /\ LeafKind # "nested" => \A i \in 1 .. Len(valid) : i > LeafEntries => valid[i] = TRUE

(* The accounts of the scan.                                               *)
ScanAccounted == phase = "scan" => (\E q, t : Accounted(q, t)) /\ InRange /\ OpenIsValid /\ LeavesSound

(* With the earlier invariant it is inductive.                             *)
KInv == JInv /\ ScanAccounted

(* What the earlier invariant says of counts, bases and what is read.      *)
Stands ==
  /\ InStep /\ Measures(Counts, Bases, open, rest)
  /\ Reads(ListsRead, offsets, validity) /\ Sized(ListsRead, Counts) /\ Within(offsets, Counts)
  /\ ListsRead[Leaf] = LeavesRead /\ Counts[Leaf] = LeafEntries
  /\ Bases[1] = 0 /\ Numbers \in [1 .. Leaf + 1 -> Nat]
  /\ \A k \in Numbered :
       (k \in Loops /\ Numbers[k] = Counts[k]) \/ (k = Leaf + 1 /\ Gathered /\ Numbers[k] = Len(flat))
  /\ \A m \in Layers :
       /\ Counts[m] = Len(offsets[m]) - 1 /\ Counts[m + 1] = Entries(m)
       /\ Bases[m + 1] = offsets[m][Len(offsets[m])] /\ Bases[m + 1] <= Counts[m + 1]
       /\ Optional(m) => validity[m] \in Seq(BOOLEAN) /\ Len(validity[m]) = Counts[m] + OpenLists(m)

(* It says so in every state of the scan.                                  *)
LEMMA Standing == JInv /\ phase = "scan" => Stands
<1> SUFFICES ASSUME JInv, phase = "scan" PROVE Stands
  OBVIOUS
<1>1. InStep
  BY DEF JInv, IInv, TypeOK, BuffersInStep, InStep
<1>2. Reads(ListsRead, offsets, validity) /\ Sized(ListsRead, Counts) /\ Within(offsets, Counts)
  BY <1>1, ReadShape
<1>3. ListsRead[Leaf] = LeavesRead
  BY ReadEquation, LoopsAre DEF ReadOf
<1>4. Counts[Leaf] = LeafEntries /\ Bases[1] = 0
  BY LoopsAre DEF Counts, Count, Bases, StoredBefore
<1>5. ASSUME NEW m \in Layers
      PROVE  /\ Counts[m] = Len(offsets[m]) - 1 /\ Counts[m + 1] = Entries(m)
             /\ Bases[m + 1] = offsets[m][Len(offsets[m])] /\ Bases[m + 1] <= Counts[m + 1]
             /\ Bases[m + 1] \in Nat
             /\ Optional(m) => validity[m] \in Seq(BOOLEAN) /\ Len(validity[m]) = Counts[m] + OpenLists(m)
  <2>1. Counts[m] = Len(offsets[m]) - 1 /\ Counts[m + 1] = Entries(m)
    BY LoopsAre, EntriesCounted DEF Counts, Count
  <2>2. Bases[m + 1] = offsets[m][Len(offsets[m])]
    <3>1. m + 1 \in Loops /\ m + 1 # 1 /\ (m + 1) - 1 = m
      BY LoopsAre
    <3> QED BY <3>1 DEF Bases, StoredBefore
  <2>3. Len(offsets[m]) \in 1 .. Len(offsets[m])
    BY <1>2 DEF Within
  <2>4. Bases[m + 1] \in Nat /\ Bases[m + 1] <= Counts[m + 1]
    BY <1>2, <2>2, <2>3 DEF Within
  <2>5. ASSUME Optional(m) PROVE validity[m] \in Seq(BOOLEAN) /\ Len(validity[m]) = Counts[m] + OpenLists(m)
    BY <1>1, <2>1, <2>5 DEF InStep, LayersOK, LayerInStep
  <2> QED BY <2>1, <2>2, <2>4, <2>5
<1>6. Measures(Counts, Bases, open, rest)
  <2>1. Counts \in [Loops -> Nat]
    <3>1. \A m \in Loops : Counts[m] \in Nat
      BY <1>2 DEF Sized
    <3> QED BY <3>1 DEF Counts
  <2>2. \A m \in Loops : Bases[m] \in Nat
    <3>1. \A m \in Loops : m = 1 \/ (m - 1 \in Layers /\ (m - 1) + 1 = m)
      BY LoopsAre
    <3> QED BY <1>4, <1>5, <3>1
  <2>3. Bases \in [Loops -> Nat]
    BY <2>2 DEF Bases
  <2> QED BY <2>1, <2>3 DEF Measures, JInv, IInv, TypeOK, WalkOK
<1>7. ASSUME NEW k \in Numbered
      PROVE  (k \in Loops /\ Numbers[k] = Counts[k]) \/ (k = Leaf + 1 /\ Gathered /\ Numbers[k] = Len(flat))
  <2>1. k \in 1 .. Leaf + 1 /\ (k = Leaf + 1 => Gathered)
    BY DEF Numbered
  <2>2. Numbers[k] = IF k = Leaf + 1 THEN Len(flat) ELSE Count(k)
    BY <2>1 DEF Numbers
  <2>3. CASE k = Leaf + 1
    BY <2>1, <2>2, <2>3
  <2>4. CASE k # Leaf + 1
    <3>1. k \in Loops
      BY <2>1, <2>4, LoopsAre
    <3> QED BY <2>2, <2>4, <3>1 DEF Counts
  <2> QED BY <2>3, <2>4
<1>8. Numbers \in [1 .. Leaf + 1 -> Nat]
  <2>1. Len(flat) \in Nat
    BY <1>1, LenProperties DEF InStep, LeavesOK
  <2>2. \A m \in Loops : Count(m) \in Nat
    BY <1>6 DEF Measures, Counts
  <2>3. \A k \in 1 .. Leaf + 1 : k = Leaf + 1 \/ k \in Loops
    BY LoopsAre
  <2> QED BY <2>1, <2>2, <2>3 DEF Numbers
<1> QED BY <1>1, <1>2, <1>3, <1>4, <1>5, <1>6, <1>7, <1>8 DEF Stands

(* A number is a count of lists or leaves, or of the values gathered.      *)
NumbersCount ==
  \A k \in Numbered :
    /\ k \in 1 .. Leaf + 1 /\ Numbers[k] \in Nat
    /\ k \in Loops => k # Leaf + 1 /\ Numbers[k] = Counts[k]
    /\ k \notin Loops => k = Leaf + 1 /\ Gathered /\ Numbers[k] = Len(flat)

LEMMA NumberIs == Stands => NumbersCount
<1> SUFFICES ASSUME Stands, NEW k \in Numbered
             PROVE  /\ k \in 1 .. Leaf + 1 /\ Numbers[k] \in Nat
                    /\ k \in Loops => k # Leaf + 1 /\ Numbers[k] = Counts[k]
                    /\ k \notin Loops => k = Leaf + 1 /\ Gathered /\ Numbers[k] = Len(flat)
  BY DEF NumbersCount
<1>1. k \in 1 .. Leaf + 1
  BY DEF Numbered
<1>2. Numbers \in [1 .. Leaf + 1 -> Nat]
  BY DEF Stands
<1>3. Leaf + 1 \notin Loops
  BY LoopsAre
<1>4. (k \in Loops /\ Numbers[k] = Counts[k]) \/ (k = Leaf + 1 /\ Gathered /\ Numbers[k] = Len(flat))
  BY DEF Stands
<1> QED BY <1>1, <1>2, <1>3, <1>4

(* Before and after a step of the scan.                                    *)
LEMMA NumbersAre ==
  ASSUME Stands, Stands', NEW k \in Numbered
  PROVE  /\ k \in 1 .. Leaf + 1 /\ Numbers[k] \in Nat /\ Numbers'[k] \in Nat
         /\ k \in Loops => k # Leaf + 1 /\ Numbers[k] = Counts[k] /\ Numbers'[k] = Counts'[k]
         /\ k \notin Loops => k = Leaf + 1 /\ Gathered /\ Numbers[k] = Len(flat) /\ Numbers'[k] = Len(flat')
<1>1. (Stands => NumbersCount)'
  BY NumberIs, PTL
<1>2. /\ k \in 1 .. Leaf + 1 /\ Numbers'[k] \in Nat
      /\ k \in Loops => k # Leaf + 1 /\ Numbers'[k] = Counts'[k]
      /\ k \notin Loops => k = Leaf + 1 /\ Numbers'[k] = Len(flat')
  BY <1>1 DEF NumbersCount
<1> QED BY <1>2, NumberIs DEF NumbersCount

(* Closing a list of layer l: one more is stored, and the child's next     *)
(* list begins where this one ends.                                        *)
LEMMA ListClosed ==
  ASSUME Stands, Stands', NEW l \in Layers, PushOffset(l), UNCHANGED <<flat, positions, leafIdx>>
  PROVE  /\ \A m \in Loops : Counts'[m] = IF m = l THEN Counts[m] + 1 ELSE Counts[m]
         /\ \A m \in Loops : Bases'[m] = IF m = l + 1 THEN Counts[m] ELSE Bases[m]
         /\ \A m \in Layers : \A r \in 1 .. Len(offsets[m]) : offsets'[m][r] = offsets[m][r]
         /\ offsets[l][Counts[l] + 1] = Bases[l + 1]
         /\ offsets'[l][Counts[l] + 2] = Counts[l + 1]
<1>1. LayersOK /\ LeavesOK /\ \A k \in Layers : LayerInStep(k)
  BY DEF Stands, InStep
<1>2. /\ \A k \in Layers : k # l => offsets'[k] = offsets[k]
      /\ Len(offsets'[l]) = Len(offsets[l]) + 1
      /\ offsets'[l][Len(offsets'[l])] = Entries(l)
  BY <1>1, OffsetPushed
<1>3. offsets[l] \in Seq(Nat) /\ Len(offsets[l]) \in Nat /\ Entries(l) \in Nat /\ offsets'[l] = Append(offsets[l], Entries(l))
  BY <1>1, EntriesTyped, LenProperties DEF LayersOK, PushOffset, LayerInStep
<1>4. LeafEntries' = LeafEntries
  BY DEF LeafEntries
<1>5. ASSUME NEW m \in Loops
      PROVE  /\ Counts'[m] = IF m = l THEN Counts[m] + 1 ELSE Counts[m]
             /\ Bases'[m] = IF m = l + 1 THEN Counts[m] ELSE Bases[m]
  <2>1. m \in Layers \/ (m = Leaf /\ m # l)
    BY LoopsAre
  <2>2. m = 1 \/ (m - 1 \in Layers /\ (m - 1) + 1 = m /\ m # 1)
    BY LoopsAre
  <2>3. Counts'[m] = IF m = l THEN Counts[m] + 1 ELSE Counts[m]
    BY <1>2, <1>3, <1>4, <2>1 DEF Stands
  <2>4. Bases'[m] = IF m = l + 1 THEN Counts[m] ELSE Bases[m]
    <3>1. l # 0 /\ l + 1 # 1
      BY LoopsAre
    <3>2. CASE m = 1
      BY <3>1, <3>2 DEF Stands
    <3>3. CASE m # 1
      <4>1. m - 1 \in Layers /\ (m - 1) + 1 = m /\ (m = l + 1 <=> m - 1 = l)
        BY <2>2, <3>3, LoopsAre
      <4>2. Bases[m] = offsets[m - 1][Len(offsets[m - 1])] /\ Bases'[m] = offsets'[m - 1][Len(offsets'[m - 1])]
            /\ Counts[m] = Entries(m - 1)
        BY <4>1 DEF Stands
      <4> QED BY <1>2, <4>1, <4>2
    <3> QED BY <3>2, <3>3
  <2> QED BY <2>3, <2>4
<1>6. \A m \in Layers : \A r \in 1 .. Len(offsets[m]) : offsets'[m][r] = offsets[m][r]
  <2>1. \A r \in 1 .. Len(offsets[l]) : Append(offsets[l], Entries(l))[r] = offsets[l][r]
    BY <1>3
  <2> QED BY <1>2, <1>3, <2>1
<1>7. Counts[l] + 1 = Len(offsets[l]) /\ Counts[l] + 2 = Len(offsets'[l])
  BY <1>2, <1>3 DEF Stands
<1> QED BY <1>2, <1>5, <1>6, <1>7 DEF Stands

(* What a step of the scan has to leave alone for all that was read to be  *)
(* read again.                                                             *)
LEMMA StillRead ==
  ASSUME Stands, Stands',
         \A m \in Loops : Counts[m] <= Counts'[m],
         \A m \in Layers : \A r \in 1 .. Len(offsets[m]) : offsets'[m][r] = offsets[m][r],
         \A m \in Layers : Optional(m) => \A r \in 1 .. Counts[m] : validity'[m][r] = validity[m][r],
         \A i \in 1 .. LeafEntries : LeavesRead'[i] = LeavesRead[i]
  PROVE  \A m \in Loops : \A i \in 1 .. Counts[m] : ListsRead'[m][i] = ListsRead[m][i]
<1>1. /\ Reads(ListsRead, offsets, validity) /\ Sized(ListsRead, Counts) /\ Within(offsets, Counts)
      /\ ListsRead[Leaf] = LeavesRead /\ Counts[Leaf] = LeafEntries
  BY DEF Stands
<1>2. /\ Reads(ListsRead', offsets', validity') /\ Sized(ListsRead', Counts') /\ Within(offsets', Counts')
      /\ ListsRead'[Leaf] = LeavesRead'
  BY DEF Stands, Reads, Sized, Within
<1>3. \A i \in 1 .. Counts[Leaf] : ListsRead'[Leaf][i] = ListsRead[Leaf][i]
  BY <1>1, <1>2
<1> QED BY <1>1, <1>2, <1>3, ReadStays

(* Leaves are read as before when no leaf buffer changed.                  *)
LEMMA SameLeaves ==
  ASSUME UNCHANGED <<flat, bits, valid, positions, leafIdx>>
  PROVE  LeavesRead' = LeavesRead /\ LeafEntries' = LeafEntries
BY DEF LeavesRead, LeafEntries, LeafAt, LeafNull, Taken

(* What a bit pushed leaves in place.                                      *)
LEMMA BitPushed ==
  ASSUME Stands, NEW l \in Layers, NEW b \in BOOLEAN, PushValidity(l, b)
  PROVE  /\ \A m \in Layers : m # l => validity'[m] = validity[m]
         /\ ~Optional(l) => validity' = validity
         /\ Optional(l) => \A r \in 1 .. Len(validity[l]) : validity'[l][r] = validity[l][r]
         /\ Optional(l) => validity'[l][Len(validity[l]) + 1] = b
<1>1. LayersOK /\ validity[l] \in Seq(BOOLEAN)
  BY DEF Stands, InStep, LayersOK
<1>2. CASE Optional(l)
  <2>1. validity' = [validity EXCEPT ![l] = Append(validity[l], b)]
    BY <1>2 DEF PushValidity
  <2>2. validity'[l] = Append(validity[l], b) /\ \A m \in Layers : m # l => validity'[m] = validity[m]
    BY <1>1, <2>1 DEF LayersOK
  <2>3. /\ \A r \in 1 .. Len(validity[l]) : Append(validity[l], b)[r] = validity[l][r]
        /\ Append(validity[l], b)[Len(validity[l]) + 1] = b
    BY <1>1
  <2> QED BY <1>2, <2>2, <2>3
<1>3. CASE ~Optional(l)
  BY <1>3 DEF PushValidity
<1> QED BY <1>2, <1>3

(* A null list read back.                                                  *)
LEMMA NullRead ==
  ASSUME Stands, Stands', phase = "scan", AtElement, Next1(open) = None,
         PushValidity(open, FALSE), PushOffset(open), UNCHANGED <<flat, bits, valid, positions, leafIdx>>
  PROVE  /\ open \in Layers /\ Optional(open)
         /\ \A m \in Loops : \A i \in 1 .. Counts[m] : ListsRead'[m][i] = ListsRead[m][i]
         /\ ListsRead'[open][Counts[open] + 1] = None
<1>1. open \in Layers /\ open \in Nat /\ open \in Loops
  BY LoopsAre DEF AtElement, Stands, Measures
<1>2. Optional(open)
  <2>1. rest[open] \in Seq(Node[open]) /\ rest[open] # <<>>
    BY <1>1 DEF Stands, Measures, Rests, AtElement
  <2> QED BY <2>1, HeadTailProperties DEF Next1, Optional
<1>3. LeavesRead' = LeavesRead /\ LeafEntries' = LeafEntries
  BY SameLeaves
<1>4. \A m \in Layers : Optional(m) => Len(validity[m]) \in Nat /\ Counts[m] \in Nat /\ Counts[m] <= Len(validity[m])
  <2> SUFFICES ASSUME NEW m \in Layers, Optional(m)
               PROVE  Len(validity[m]) \in Nat /\ Counts[m] \in Nat /\ Counts[m] <= Len(validity[m])
    OBVIOUS
  <2>1. Len(validity[m]) = Counts[m] + OpenLists(m) /\ OpenLists(m) \in {0, 1}
    BY DEF Stands, OpenLists
  <2>2. Counts[m] \in Nat
    BY LoopsAre DEF Stands, Measures
  <2> QED BY <2>1, <2>2
<1>5. ASSUME NEW m \in Layers, Optional(m), NEW r \in 1 .. Counts[m]
      PROVE  validity'[m][r] = validity[m][r]
  <2>1. r \in 1 .. Len(validity[m])
    BY <1>4, <1>5
  <2> QED BY <1>1, <1>5, <2>1, BitPushed
<1>6. /\ \A m \in Loops : Counts'[m] = IF m = open THEN Counts[m] + 1 ELSE Counts[m]
      /\ \A m \in Layers : \A r \in 1 .. Len(offsets[m]) : offsets'[m][r] = offsets[m][r]
  BY <1>1, ListClosed
<1>7. \A m \in Loops : Counts[m] \in Nat /\ Counts[m] <= Counts'[m]
  <2>1. \A m \in Loops : Counts[m] \in Nat
    BY DEF Stands, Measures
  <2> QED BY <1>6, <2>1
<1>8. \A m \in Loops : \A i \in 1 .. Counts[m] : ListsRead'[m][i] = ListsRead[m][i]
  BY <1>3, <1>5, <1>6, <1>7, StillRead
<1>9. ListsRead'[open][Counts[open] + 1] = None
  <2>1. Len(validity[open]) = Counts[open] /\ Counts[open] \in Nat
    BY <1>1, <1>2, <1>7 DEF Stands, OpenLists
  <2>2. validity'[open][Counts[open] + 1] = FALSE
    BY <1>1, <1>2, <2>1, BitPushed
  <2>3. Len(offsets'[open]) - 1 = Counts[open] + 1
    BY <1>1, <1>6 DEF Stands
  <2>4. Counts[open] + 1 \in 1 .. Len(offsets'[open]) - 1
    BY <2>1, <2>3
  <2>5. Reads(ListsRead', offsets', validity')
    BY DEF Stands, Reads
  <2> QED BY <1>1, <1>2, <2>2, <2>4, <2>5 DEF Reads
<1> QED BY <1>1, <1>2, <1>8, <1>9

(* The list that is left read back.                                        *)
LEMMA LeftRead ==
  ASSUME Stands, Stands', AtEnd, OpenIsValid, PushOffset(open - 1),
         UNCHANGED <<validity, flat, bits, valid, positions, leafIdx>>
  PROVE  /\ open - 1 \in Layers
         /\ \A m \in Loops : \A i \in 1 .. Counts[m] : ListsRead'[m][i] = ListsRead[m][i]
         /\ ListsRead'[open - 1][Counts[open - 1] + 1]
              = [i \in 1 .. Counts[open] - Bases[open] |-> ListsRead[open][Bases[open] + i]]
<1>1. PICK p \in Layers : p = open - 1 /\ p + 1 = open /\ p \in Loops /\ open \in Loops /\ p # open /\ p < open
  BY LoopsAre DEF AtEnd, Stands, Measures
<1>2. LeavesRead' = LeavesRead /\ LeafEntries' = LeafEntries
  BY SameLeaves
<1>3. /\ \A m \in Loops : Counts'[m] = IF m = p THEN Counts[m] + 1 ELSE Counts[m]
      /\ \A m \in Layers : \A r \in 1 .. Len(offsets[m]) : offsets'[m][r] = offsets[m][r]
      /\ offsets[p][Counts[p] + 1] = Bases[p + 1]
      /\ offsets'[p][Counts[p] + 2] = Counts[p + 1]
  BY <1>1, ListClosed
<1>4. \A m \in Loops : Counts[m] \in Nat /\ Bases[m] \in Nat /\ Counts[m] <= Counts'[m]
  <2>1. \A m \in Loops : Counts[m] \in Nat /\ Bases[m] \in Nat
    BY DEF Stands, Measures
  <2> QED BY <1>3, <2>1
<1>5. \A m \in Loops : \A i \in 1 .. Counts[m] : ListsRead'[m][i] = ListsRead[m][i]
  BY <1>2, <1>3, <1>4, StillRead
<1>6. Len(offsets[p]) = Counts[p] + 1 /\ Len(offsets'[p]) = Counts[p] + 2
  <2>1. Within(offsets, Counts) /\ Within(offsets', Counts')
    BY DEF Stands, Within
  <2>2. Len(offsets[p]) = Counts[p] + 1 /\ Len(offsets'[p]) = Counts'[p] + 1
    BY <1>1, <2>1 DEF Within
  <2> QED BY <1>1, <1>3, <1>4, <2>2
<1>7. Counts[p] + 1 \in 1 .. Len(offsets[p]) /\ Counts[p] + 1 \in 1 .. Len(offsets'[p]) - 1
  BY <1>1, <1>4, <1>6
<1>8. ~(Optional(p) /\ ~validity'[p][Counts[p] + 1])
  BY <1>1 DEF OpenIsValid
<1>9. PICK n, a, k : n = Counts[p] + 1 /\ a = Bases[open] /\ k = Counts[open] /\ a \in Nat /\ k \in Nat /\ n + 1 = Counts[p] + 2
  BY <1>1, <1>4
<1>10. offsets'[p][n] = a /\ offsets'[p][n + 1] = k
  BY <1>1, <1>3, <1>7, <1>9
<1>11. ListsRead'[p][n] = [i \in 1 .. k - a |-> ListsRead'[p + 1][a + i]]
  <2>1. Reads(ListsRead', offsets', validity')
    BY DEF Stands, Reads
  <2>2. ListsRead'[p][n] = [i \in 1 .. offsets'[p][n + 1] - offsets'[p][n] |-> ListsRead'[p + 1][offsets'[p][n] + i]]
    <3>1. n \in 1 .. Len(offsets'[p]) - 1 /\ ~(Optional(p) /\ ~validity'[p][n])
      BY <1>7, <1>8, <1>9
    <3> QED BY <2>1, <3>1 DEF Reads
  <2> QED BY <1>10, <2>2, Zenon
<1>12. \A i \in 1 .. k - a : ListsRead'[p + 1][a + i] = ListsRead[open][a + i]
  <2> SUFFICES ASSUME NEW i \in 1 .. k - a PROVE ListsRead'[open][a + i] = ListsRead[open][a + i]
    BY <1>1
  <2>1. a + i \in 1 .. k
    BY <1>9
  <2> QED BY <1>1, <1>5, <1>9, <2>1
<1> QED BY <1>1, <1>5, <1>9, <1>11, <1>12

-----------------------------------------------------------------------------
(* A leaf stored and read back.                                            *)

(* The leaf that becomes entry e is read back as v, and all before as they *)
(* were.                                                                   *)
StoredAs(v, e) ==
  /\ \A i \in 1 .. e - 1 : LeafAt(i)' = LeafAt(i)
  /\ LeafAt(e)' = IF v = None THEN None ELSE Encode[v]

(* Writing a bit leaves the others.                                        *)
LEMMA BitIsSet ==
  ASSUME NEW s \in Seq(BOOLEAN), NEW e \in DOMAIN s, NEW b \in BOOLEAN,
         NEW t, t = [s EXCEPT ![e] = b]
  PROVE  /\ t \in Seq(BOOLEAN) /\ Len(t) = Len(s) /\ t[e] = b
         /\ \A i \in 1 .. Len(s) : i # e => t[i] = s[i]
<1>1. t \in Seq(BOOLEAN) /\ Len(t) = Len(s)
  BY SetIsBits
<1>2. DOMAIN s = 1 .. Len(s)
  BY LenProperties
<1> QED BY <1>1, <1>2

(* A bool leaf, in two bitmaps.                                            *)
LEMMA BoolStored ==
  ASSUME LeavesOK, LeafSizes, LeavesSound, CountsOK, phase = "scan", LeafEntries < total, LeafKind = "bool",
         NEW v \in Node[Leaf], Fits(v), Store(v), NEW e, e = LeafEntries + 1
  PROVE  StoredAs(v, e) /\ LeavesSound'
<1>1. LeafEntries = leafIdx /\ leafIdx \in Nat /\ Slot = e /\ total \in Nat /\ e \in 1 .. total /\ leafIdx' = e
  BY DEF LeafEntries, Slot, Indexed, LeavesOK, CountsOK, Store, StepIdx
<1>2. LeafEntries' = e
  BY <1>1 DEF LeafEntries
<1>3. bits \in Seq(BOOLEAN) /\ Len(bits) = total /\ bits[e] = FALSE /\ e \in DOMAIN bits
  BY <1>1 DEF LeavesOK, LeafSizes, LeavesSound
<1>4. InnerOption => valid \in Seq(BOOLEAN) /\ Len(valid) = total /\ valid[e] = TRUE /\ e \in DOMAIN valid
  BY <1>1 DEF LeavesOK, LeafSizes, LeavesSound
<1>5. CASE v = None
  <2>1. InnerOption
    BY <1>5 DEF InnerOption, Optional
  <2>2. valid' = [valid EXCEPT ![e] = FALSE] /\ bits' = bits
    BY <1>1, <1>5 DEF Store, StoreNull, Clear
  <2>3. valid' \in Seq(BOOLEAN) /\ Len(valid') = total /\ valid'[e] = FALSE
        /\ \A i \in 1 .. total : i # e => valid'[i] = valid[i]
    BY <1>4, <2>1, <2>2, BitIsSet
  <2>4. StoredAs(v, e)
    <3>1. \A i \in 1 .. e - 1 : i \in 1 .. total /\ i # e
      BY <1>1
    <3>2. \A i \in 1 .. e - 1 : LeafAt(i)' = LeafAt(i)
      BY <2>2, <2>3, <3>1 DEF LeafAt, LeafNull
    <3>3. LeafAt(e)' = None
      <4>1. LeafNull(e)'
        BY <2>1, <2>3 DEF LeafNull
      <4> QED BY <4>1 DEF LeafAt
    <3> QED BY <1>5, <3>2, <3>3 DEF StoredAs
  <2>5. LeavesSound'
    BY <1>1, <1>2, <1>3, <1>4, <2>1, <2>2, <2>3 DEF LeavesSound, Gathered
  <2> QED BY <2>4, <2>5
<1>6. CASE v # None
  <2>1. valid' = valid /\ bits' = (IF Encode[v] THEN [bits EXCEPT ![e] = TRUE] ELSE bits) /\ Encode[v] \in BOOLEAN
    BY <1>1, <1>6, LeafAssumption DEF Store, StoreValue, BoolValue, SetBit
  <2>2. bits' \in Seq(BOOLEAN) /\ Len(bits') = total /\ bits'[e] = Encode[v]
        /\ \A i \in 1 .. total : i # e => bits'[i] = bits[i]
    <3>1. CASE Encode[v]
      <4>1. Encode[v] = TRUE /\ bits' = [bits EXCEPT ![e] = TRUE]
        BY <2>1, <3>1
      <4>2. bits' \in Seq(BOOLEAN) /\ Len(bits') = Len(bits) /\ bits'[e] = TRUE
            /\ \A i \in 1 .. Len(bits) : i # e => bits'[i] = bits[i]
        BY <1>3, <4>1, BitIsSet
      <4> QED BY <1>3, <4>1, <4>2
    <3>2. CASE ~Encode[v]
      BY <1>3, <2>1, <3>2
    <3> QED BY <3>1, <3>2
  <2>3. StoredAs(v, e)
    <3>0. valid' = valid /\ \A i \in 1 .. e - 1 : i \in 1 .. total /\ i # e
      BY <1>1, <2>1
    <3>1. \A i \in 1 .. e - 1 : LeafAt(i)' = LeafAt(i)
      BY <2>2, <3>0 DEF LeafAt, LeafNull
    <3>2. LeafAt(e)' = Encode[v]
      BY <1>1, <1>4, <2>1, <2>2 DEF LeafAt, LeafNull
    <3> QED BY <1>6, <3>1, <3>2 DEF StoredAs
  <2>4. LeavesSound'
    BY <1>1, <1>2, <1>3, <1>4, <2>1, <2>2 DEF LeavesSound, Gathered
  <2> QED BY <2>3, <2>4
<1> QED BY <1>5, <1>6

(* A leaf pushed to its values, with a validity bit if it is optional.     *)
LEMMA PushedStored ==
  ASSUME LeavesOK, LeafSizes, LeavesSound, CountsOK, phase = "scan", LeafEntries < total,
         LeafKind # "bool", ~Gathered,
         NEW v \in Node[Leaf], Fits(v), Store(v), NEW e, e = LeafEntries + 1
  PROVE  StoredAs(v, e) /\ LeavesSound'
<1>1. LeafEntries = Len(flat) /\ Len(flat) \in Nat /\ total \in Nat /\ e \in 1 .. total
  BY DEF LeafEntries, LeavesOK, CountsOK, Gathered
<1>2. v = None => InnerOption /\ LeafKind # "nested" /\ Slot = e
  BY <1>1, KindAssumption DEF InnerOption, Optional, Gathered, Slot, Indexed, LeafSizes, LeafKinds
<1>3. PICK x : flat' = Append(flat, x) /\ (v # None => x = Encode[v])
  BY <1>2, KindAssumption DEF Store, StoreNull, StoreValue, NestedValue, PushedValue, LeafKinds
<1>4. Len(flat') = e /\ flat'[e] = x /\ \A i \in 1 .. e - 1 : flat'[i] = flat[i]
  BY <1>1, <1>3 DEF LeavesOK
<1>5. LeafEntries' = e
  BY <1>4 DEF LeafEntries, Gathered
<1>6. InnerOption /\ LeafKind # "nested" =>
        valid \in Seq(BOOLEAN) /\ Len(valid) = total /\ valid[e] = TRUE /\ e \in DOMAIN valid
  BY <1>1 DEF LeavesOK, LeafSizes, LeavesSound
<1>7. v # None => valid' = valid
  BY DEF Store, StoreValue
<1>8. v = None => valid' = [valid EXCEPT ![e] = FALSE]
  BY <1>2 DEF Store, StoreNull, Clear
<1>9. InnerOption /\ LeafKind # "nested" =>
        /\ Len(valid') = total /\ (v = None => valid'[e] = FALSE) /\ (v # None => valid'[e] = TRUE)
        /\ \A i \in 1 .. total : i # e => valid'[i] = valid[i]
  <2>1. CASE v = None
    BY <1>6, <1>8, <2>1, BitIsSet
  <2>2. CASE v # None
    BY <1>6, <1>7, <2>2
  <2> QED BY <2>1, <2>2
<1>10. StoredAs(v, e)
  <2>1. \A i \in 1 .. e - 1 : LeafAt(i)' = LeafAt(i)
    BY <1>1, <1>4, <1>9 DEF LeafAt, LeafNull, Gathered
  <2>2. LeafAt(e)' = IF v = None THEN None ELSE Encode[v]
    BY <1>1, <1>2, <1>3, <1>4, <1>9 DEF LeafAt, LeafNull, Gathered
  <2> QED BY <2>1, <2>2 DEF StoredAs
<1>11. LeavesSound'
  BY <1>1, <1>5, <1>6, <1>9 DEF LeavesSound, Gathered
<1> QED BY <1>10, <1>11

(* An optional nested leaf, by its position.                               *)
LEMMA GatheredStored ==
  ASSUME LeavesOK, LeavesSound, Gathered,
         NEW v \in Node[Leaf], Store(v), NEW e, e = LeafEntries + 1
  PROVE  StoredAs(v, e) /\ LeavesSound'
<1>1. LeafEntries = Len(positions) /\ Len(positions) \in Nat /\ Len(flat) \in Nat /\ e \in Nat
      /\ LeafKind = "nested" /\ InnerOption
  BY DEF LeafEntries, LeavesOK, Gathered
<1>2. CASE v = None
  <2>1. positions' = Append(positions, None) /\ flat' = flat
    BY <1>1, <1>2 DEF Store, StoreNull
  <2>2. Len(positions') = e /\ positions'[e] = None /\ \A i \in 1 .. e - 1 : positions'[i] = positions[i]
    BY <1>1, <2>1 DEF LeavesOK
  <2>3. StoredAs(v, e)
    BY <1>1, <1>2, <2>1, <2>2 DEF StoredAs, LeafAt, LeafNull, Taken
  <2>4. LeavesSound'
    <3>1. \A i \in 1 .. e : i = e \/ i \in 1 .. Len(positions)
      BY <1>1
    <3> QED BY <1>1, <2>1, <2>2, <3>1 DEF LeavesSound, Gathered
  <2> QED BY <2>3, <2>4
<1>3. CASE v # None
  <2>1. positions' = Append(positions, Len(flat)) /\ flat' = Append(flat, Encode[v])
    BY <1>1, <1>3 DEF Store, StoreValue, NestedValue
  <2>2. Len(positions') = e /\ positions'[e] = Len(flat) /\ \A i \in 1 .. e - 1 : positions'[i] = positions[i]
    BY <1>1, <2>1 DEF LeavesOK
  <2>3. Len(flat') = Len(flat) + 1 /\ flat'[Len(flat) + 1] = Encode[v] /\ \A i \in 1 .. Len(flat) : flat'[i] = flat[i]
    BY <1>1, <2>1 DEF LeavesOK
  <2>4. DOMAIN flat = 1 .. Len(flat) /\ DOMAIN flat' = 1 .. Len(flat')
    BY <1>1, <2>1 DEF LeavesOK
  <2>5. Len(flat) # None
    BY <1>1, NoneAssumption
  <2>6. ASSUME NEW i \in 1 .. e - 1 PROVE LeafAt(i)' = LeafAt(i)
    <3>1. i \in 1 .. Len(positions) /\ positions'[i] = positions[i]
      BY <1>1, <2>2
    <3>2. positions[i] = None \/ (positions[i] + 1 \in 1 .. Len(flat) /\ positions[i] + 1 \in 1 .. Len(flat'))
      BY <1>1, <2>3, <3>1 DEF LeavesSound
    <3>4. LeafAt(i)' = IF positions[i] = None THEN None ELSE flat'[positions[i] + 1]
      BY <1>1, <2>4, <3>1, <3>2 DEF LeafAt, LeafNull, Taken
    <3>5. LeafAt(i) = IF positions[i] = None THEN None ELSE flat[positions[i] + 1]
      BY <1>1, <2>4, <3>1, <3>2 DEF LeafAt, LeafNull, Taken
    <3> QED BY <2>3, <3>2, <3>4, <3>5
  <2>7. LeafAt(e)' = Encode[v]
    BY <1>1, <2>2, <2>3, <2>4, <2>5 DEF LeafAt, LeafNull, Taken
  <2>8. LeavesSound'
    <3>1. \A i \in 1 .. e : i = e \/ i \in 1 .. Len(positions)
      BY <1>1
    <3>2. ASSUME NEW i \in 1 .. e PROVE positions'[i] = None \/ positions'[i] + 1 \in 1 .. Len(flat')
      <4>1. CASE i = e
        BY <1>1, <2>2, <2>3, <4>1
      <4>2. CASE i # e
        <5>1. i \in 1 .. Len(positions) /\ positions'[i] = positions[i]
          BY <1>1, <2>2, <4>2
        <5> QED BY <1>1, <2>3, <5>1 DEF LeavesSound
      <4> QED BY <4>1, <4>2
    <3> QED BY <1>1, <2>2, <3>2 DEF LeavesSound, Gathered
  <2> QED BY <1>3, <2>6, <2>7, <2>8 DEF StoredAs
<1> QED BY <1>2, <1>3

-----------------------------------------------------------------------------
(* Every step of the scan keeps the accounts.                              *)

(* What an account says of one open loop.                                  *)
LEMMA LoopAccounted ==
  ASSUME Stands, NEW q, Walked(q, Counts, Bases, open, rest), NEW m \in 1 .. open
  PROVE  /\ m \in Loops /\ q[m] \in Seq(Node[m])
         /\ Counts[m] \in Nat /\ Bases[m] \in Nat /\ Bases[m] <= Counts[m]
BY LoopsAre DEF Stands, Measures, Walked, RunsOver

(* Before and after a step of the scan.                                    *)
LEMMA StandingBoth ==
  ASSUME JInv, JInv', phase = "scan", phase' = "scan"
  PROVE  Stands /\ Stands'
<1>1. (JInv /\ phase = "scan" => Stands)'
  BY Standing, PTL
<1> QED BY <1>1, Standing

(* A null list.                                                            *)
LEMMA NullAccounted ==
  ASSUME KInv, JInv', ScanNull, phase' = "scan"
  PROVE  ScanAccounted'
<1>1. phase = "scan" /\ AtElement /\ Next1(open) = None
  BY DEF ScanNull
<1>2. Stands /\ Stands'
  BY <1>1, StandingBoth DEF KInv
<1>3. /\ Entries(open) <= MaxOffset /\ SkipElement /\ PushValidity(open, FALSE) /\ PushOffset(open)
      /\ UNCHANGED <<items, flat, bits, valid, positions, leafIdx>>
  BY <1>1 DEF ScanNull, Fail
<1>4. PICK q, t : Accounted(q, t)
  BY <1>1 DEF KInv, ScanAccounted
<1>5. InRange /\ OpenIsValid /\ LeavesSound
  BY <1>1 DEF KInv, ScanAccounted
<1>6. /\ open \in Layers /\ Optional(open)
      /\ \A m \in Loops : \A i \in 1 .. Counts[m] : ListsRead'[m][i] = ListsRead[m][i]
      /\ ListsRead'[open][Counts[open] + 1] = None
  BY <1>1, <1>2, <1>3, NullRead
<1>7. /\ \A m \in Loops : Counts'[m] = IF m = open THEN Counts[m] + 1 ELSE Counts[m]
      /\ \A m \in Loops : Bases'[m] = IF m = open + 1 THEN Counts[m] ELSE Bases[m]
  BY <1>2, <1>3, <1>6, ListClosed
<1>8. /\ Measures(Counts, Bases, open, rest) /\ Walked(q, Counts, Bases, open, rest) /\ q[1] = items
      /\ ReadBack(q, Counts, Bases, open, ListsRead) /\ Weighed(q, t, Counts, Bases, open, Numbers)
  BY <1>2, <1>4 DEF Accounted, Stands
<1>9. /\ open \in Nat \ {0} /\ open \in Loops /\ open + 1 \in Loops /\ open \in 1 .. open /\ open # Leaf
      /\ \A m \in 1 .. open : m \in Loops /\ m # open + 1
      /\ \A m \in 1 .. open - 1 : m \in Loops /\ m # open + 1 /\ m # open
  BY <1>6, LoopsAre
<1>10. /\ open' = open /\ rest'[open] = Tail(rest[open]) /\ rest[open] # <<>>
       /\ \A m \in Loops : m # open => rest'[m] = rest[m]
  BY <1>1, <1>3, <1>9, <1>8 DEF SkipElement, Measures, Rests, AtElement
<1>11. /\ \A m \in 1 .. open : Bases'[m] = Bases[m]
       /\ \A m \in 1 .. open - 1 : Counts'[m] = Counts[m] /\ rest'[m] = rest[m]
       /\ Counts'[open] = Counts[open] + 1
  BY <1>7, <1>9, <1>10
<1>12. /\ Walked(q, Counts', Bases', open, rest')
       /\ None = q[open][Counts[open] - Bases[open] + 1]
       /\ Counts[open] - Bases[open] \in 0 .. Len(q[open]) - 1
  <2>1. /\ Walked(q, Counts', Bases', open, rest')
        /\ Head(rest[open]) = q[open][Counts[open] - Bases[open] + 1]
        /\ Counts[open] - Bases[open] \in 0 .. Len(q[open]) - 1
    BY <1>8, <1>10, <1>11, WalkCloses
  <2> QED BY <1>1, <2>1 DEF Next1
<1>13. \A m \in 1 .. open : q[m] \in Seq(Node[m]) /\ Bases[m] <= Counts[m]
  BY <1>2, <1>8, LoopAccounted
<1>14. None \in Node[open]
  BY <1>6 DEF Optional
<1>15. ReadBack(q, Counts', Bases', open, ListsRead')
  <2>1. Column!Row[open][None] = None /\ ~Column!Broken[open][None]
    BY <1>9, <1>14, RowIs, BrokenIs
  <2>2. Stores(q, Counts, Bases, open, rest, ListsRead, Counts', Bases', ListsRead', open, None)
    BY <1>6, <1>8, <1>9, <1>11, <1>12, <1>13, <2>1 DEF Stores
  <2> QED BY <2>2, BackCloses
<1>16. Weighed(q, [t EXCEPT ![open] = Numbers'], Counts', Bases', open, Numbers')
  <2>1. Numbers' \in [1 .. Leaf + 1 -> Nat]
    BY <1>2 DEF Stands
  <2>2. ASSUME NEW k \in Numbered
        PROVE  Numbers'[k] = t[open][k] + IF k < open THEN 0 ELSE Column!Weight[open][k][None]
    <3>1. k \in 1 .. Leaf + 1 /\ t[open][k] = Numbers[k] /\ Numbers[k] \in Nat
      BY <1>2, <1>8 DEF Stands, Weighed, Numbered
    <3>2. Numbers'[k] = Numbers[k] + (IF k = open THEN 1 ELSE 0)
      <4>1. CASE k \in Loops
        <5>1. Numbers'[k] = Counts'[k] /\ Numbers[k] = Counts[k]
          BY <1>2, <4>1, NumbersAre
        <5> QED BY <1>7, <3>1, <4>1, <5>1
      <4>2. CASE k \notin Loops
        <5>1. k # open /\ Numbers'[k] = Len(flat') /\ Numbers[k] = Len(flat)
          BY <1>2, <1>9, <4>2, NumbersAre
        <5> QED BY <1>3, <3>1, <5>1
      <4> QED BY <4>1, <4>2
    <3>3. Column!Weight[open][k][None] = IF k = open THEN 1 ELSE 0
      BY <1>9, <1>14, <3>1, WeightIs
    <3> QED BY <1>9, <3>1, <3>2, <3>3
  <2>3. Adds(q, t, Counts, Bases, open, rest, Numbers, Counts', Bases', Numbers', open, None)
    BY <1>8, <1>9, <1>11, <1>12, <1>13, <2>1, <2>2 DEF Adds
  <2> QED BY <2>3, WeighedCloses
<1>17. \E p, u : Accounted(p, u)'
  <2>1. PICK u : u = [t EXCEPT ![open] = Numbers']
    OBVIOUS
  <2>2. Weighed(q, u, Counts', Bases', open, Numbers')
    BY <1>16, <2>1
  <2>3. Accounted(q, u)'
    BY <1>3, <1>8, <1>10, <1>12, <1>15, <2>2 DEF Accounted
  <2> QED BY <2>3
<1>18. InRange'
  <2>1. ASSUME NEW m \in 2 .. Leaf
        PROVE  Bases'[m] <= MaxOffset /\ (m > open => Bases'[m] = Counts'[m])
    <3>1. m \in Loops /\ Bases[m] <= MaxOffset /\ (m > open => Bases[m] = Counts[m] /\ m # open)
      BY <1>5, <1>9, LoopsAre DEF InRange
    <3>2. m = open + 1 => Counts[m] = Entries(open)
      BY <1>2, <1>6 DEF Stands
    <3> QED BY <1>3, <1>7, <3>1, <3>2
  <2> QED BY <1>3, <1>5, <1>10, <2>1 DEF InRange
<1>19. OpenIsValid'
  <2> SUFFICES ASSUME NEW m \in Layers, m < open, Optional(m) PROVE validity'[m][Counts'[m] + 1]
    BY <1>10 DEF OpenIsValid
  <2>1. m # open /\ m \in Loops
    BY <1>9, LoopsAre
  <2>2. validity'[m] = validity[m] /\ Counts'[m] = Counts[m]
    BY <1>2, <1>3, <1>6, <1>7, <2>1, BitPushed
  <2> QED BY <1>5, <2>2 DEF OpenIsValid
<1>20. LeavesSound'
  BY <1>3, <1>5 DEF LeavesSound, LeafEntries
<1> QED BY <1>17, <1>18, <1>19, <1>20 DEF ScanAccounted

(* Counts and bases are those of these buffers.                            *)
LEMMA SameCounts ==
  ASSUME UNCHANGED <<offsets, flat, positions, leafIdx>>
  PROVE  Counts' = Counts /\ Bases' = Bases /\ Numbers' = Numbers
BY DEF Counts, Bases, Numbers, Count, StoredBefore, LeafEntries

(* Entering a list leaves what was read as it was.                         *)
LEMMA EnterRead ==
  ASSUME Stands, Stands', open \in Layers, PushValidity(open, TRUE),
         UNCHANGED <<offsets, flat, bits, valid, positions, leafIdx>>
  PROVE  /\ \A m \in Loops : \A i \in 1 .. Counts[m] : ListsRead'[m][i] = ListsRead[m][i]
         /\ Counts' = Counts
<1>1. Counts' = Counts /\ LeavesRead' = LeavesRead
  BY SameCounts, SameLeaves
<1>2. /\ \A m \in Layers : Optional(m) => Len(validity[m]) = Counts[m] + OpenLists(m)
      /\ \A m \in Loops : Counts[m] \in Nat
  BY DEF Stands, Measures
<1>3. ASSUME NEW m \in Layers, Optional(m), NEW r \in 1 .. Counts[m] PROVE validity'[m][r] = validity[m][r]
  <2>1. r \in 1 .. Len(validity[m])
    BY <1>2, <1>3, LoopsAre DEF OpenLists
  <2> QED BY <1>3, <2>1, BitPushed
<1>4. \A m \in Loops : Counts[m] <= Counts'[m]
  BY <1>1, <1>2
<1> QED BY <1>1, <1>3, <1>4, StillRead

(* A list that is entered.                                                 *)
LEMMA EnterAccounted ==
  ASSUME KInv, JInv', ScanEnter
  PROVE  ScanAccounted'
<1>1. /\ phase = "scan" /\ phase' = "scan" /\ AtElement /\ Next1(open) # None /\ EnterList
      /\ PushValidity(open, TRUE) /\ UNCHANGED <<items, offsets, flat, bits, valid, positions, leafIdx>>
  BY DEF ScanEnter
<1>2. Stands /\ Stands'
  BY <1>1, StandingBoth DEF KInv
<1>3. PICK q, t : Accounted(q, t)
  BY <1>1 DEF KInv, ScanAccounted
<1>4. InRange /\ OpenIsValid /\ LeavesSound
  BY <1>1 DEF KInv, ScanAccounted
<1>5. Counts' = Counts /\ Bases' = Bases /\ Numbers' = Numbers /\ LeavesRead' = LeavesRead
  BY <1>1, SameCounts, SameLeaves
<1>6. /\ Measures(Counts, Bases, open, rest) /\ Walked(q, Counts, Bases, open, rest) /\ q[1] = items
      /\ ReadBack(q, Counts, Bases, open, ListsRead) /\ Weighed(q, t, Counts, Bases, open, Numbers)
  BY <1>2, <1>3 DEF Accounted, Stands
<1>7. /\ open \in Layers /\ open \in Nat \ {0} /\ open \in Loops /\ open + 1 \in Loops /\ open < Leaf
      /\ 1 # open + 1 /\ 1 \in Loops /\ open + 1 # open /\ open + 1 \in 2 .. Leaf
      /\ \A m \in 1 .. open - 1 : m \in Loops /\ m # open /\ m # open + 1
      /\ \A m \in 1 .. open : m \in Loops /\ m # open + 1
  <2>1. open \in Loops /\ open <= Depth
    BY <1>1, <1>6 DEF AtElement, Measures
  <2>2. open \in Layers
    BY <2>1, LoopsAre
  <2> QED BY <2>2, LoopsAre
<1>8. /\ open' = open + 1 /\ rest[open] # <<>> /\ Head(rest[open]) # None
      /\ rest'[open] = Tail(rest[open]) /\ rest'[open + 1] = Head(rest[open])
      /\ \A m \in 1 .. open - 1 : rest'[m] = rest[m]
  BY <1>1, <1>6, <1>7 DEF EnterList, Measures, Rests, AtElement, Next1
<1>9. Bases[open + 1] = Counts[open + 1]
  BY <1>4, <1>7 DEF InRange
<1>10. PICK p : p = [q EXCEPT ![open + 1] = Head(rest[open])]
  OBVIOUS
<1>11. p[1] = items /\ \A m \in 1 .. open : p[m] = q[m]
  BY <1>6, <1>7, <1>10 DEF Walked
<1>12. Walked(p, Counts, Bases, open + 1, rest')
  BY <1>6, <1>7, <1>8, <1>9, <1>10, WalkEnters
<1>13. /\ \A m \in Layers : Optional(m) => Len(validity[m]) = Counts[m] + OpenLists(m)
       /\ \A m \in Loops : Counts[m] \in Nat
  BY <1>2 DEF Stands, Measures
<1>14. \A m \in Loops : \A i \in 1 .. Counts[m] : ListsRead'[m][i] = ListsRead[m][i]
  BY <1>1, <1>2, <1>7, EnterRead
<1>15. ReadBack(p, Counts, Bases, open + 1, ListsRead')
  <2>1. \A m \in 1 .. open : Bases[m] <= Counts[m]
    BY <1>2, <1>6, LoopAccounted
  <2> QED BY <1>6, <1>7, <1>9, <1>11, <1>14, <2>1, BackEnters
<1>16. PICK u : u = [t EXCEPT ![open + 1] = t[open]]
  OBVIOUS
<1>17. Weighed(p, u, Counts, Bases, open + 1, Numbers)
  BY <1>6, <1>7, <1>9, <1>11, <1>16, WeighedEnters
<1>18. Accounted(p, u)'
  BY <1>1, <1>5, <1>8, <1>11, <1>12, <1>15, <1>17 DEF Accounted
<1>19. InRange'
  <2>1. \A m \in 2 .. Leaf : m > open + 1 => m > open
    BY <1>7
  <2> QED BY <1>1, <1>4, <1>5, <1>8, <2>1 DEF InRange
<1>20. OpenIsValid'
  <2> SUFFICES ASSUME NEW m \in Layers, m < open + 1, Optional(m) PROVE validity'[m][Counts[m] + 1]
    BY <1>5, <1>8 DEF OpenIsValid
  <2>1. CASE m = open
    <3>1. Len(validity[m]) = Counts[m]
      BY <1>7, <1>13, <2>1, LoopsAre DEF OpenLists
    <3> QED BY <1>1, <1>2, <2>1, <3>1, BitPushed
  <2>2. CASE m # open
    <3>1. m < open
      BY <1>7, <2>2, LoopsAre
    <3>2. validity'[m] = validity[m]
      BY <1>1, <1>2, <1>7, <2>2, BitPushed
    <3> QED BY <1>4, <3>1, <3>2 DEF OpenIsValid
  <2> QED BY <2>1, <2>2
<1>21. LeavesSound'
  BY <1>1, <1>4 DEF LeavesSound, LeafEntries
<1>22. \E p2, u2 : Accounted(p2, u2)'
  BY <1>18
<1> QED BY <1>19, <1>20, <1>21, <1>22 DEF ScanAccounted

(* One more list of layer l, or one more leaf, is one more of its number.  *)
LEMMA NumbersOfList ==
  ASSUME Stands, Stands', NEW l \in Layers, PushOffset(l), UNCHANGED <<flat, positions, leafIdx>>,
         NEW k \in Numbered
  PROVE  Numbers'[k] = Numbers[k] + (IF k = l THEN 1 ELSE 0)
<1>1. k \in 1 .. Leaf + 1 /\ Numbers[k] \in Nat
  BY NumbersAre
<1>2. \A m \in Loops : Counts'[m] = IF m = l THEN Counts[m] + 1 ELSE Counts[m]
  BY ListClosed
<1>3. CASE k \in Loops
  <2>1. Numbers'[k] = Counts'[k] /\ Numbers[k] = Counts[k]
    BY <1>3, NumbersAre
  <2> QED BY <1>1, <1>2, <1>3, <2>1
<1>4. CASE k \notin Loops
  <2>1. k # l /\ Numbers'[k] = Len(flat') /\ Numbers[k] = Len(flat)
    <3>1. l \in Loops
      BY LoopsAre
    <3> QED BY <1>4, <3>1, NumbersAre
  <2> QED BY <1>1, <2>1
<1> QED BY <1>3, <1>4

(* A list that is left.                                                    *)
LEMMA LeaveAccounted ==
  ASSUME KInv, JInv', ScanLeave, phase' = "scan"
  PROVE  ScanAccounted'
<1>1. phase = "scan" /\ AtEnd
  BY DEF ScanLeave
<1>2. Stands /\ Stands'
  BY <1>1, StandingBoth DEF KInv
<1>3. /\ Entries(open - 1) <= MaxOffset /\ LeaveList /\ PushOffset(open - 1)
      /\ UNCHANGED <<items, validity, flat, bits, valid, positions, leafIdx>>
  BY <1>1 DEF ScanLeave, Fail
<1>4. PICK q, t : Accounted(q, t)
  BY <1>1 DEF KInv, ScanAccounted
<1>5. InRange /\ OpenIsValid /\ LeavesSound
  BY <1>1 DEF KInv, ScanAccounted
<1>6. /\ Measures(Counts, Bases, open, rest) /\ Walked(q, Counts, Bases, open, rest) /\ q[1] = items
      /\ ReadBack(q, Counts, Bases, open, ListsRead) /\ Weighed(q, t, Counts, Bases, open, Numbers)
  BY <1>2, <1>4 DEF Accounted, Stands
<1>7. PICK p : p = open - 1
  OBVIOUS
<1>8. /\ p \in Layers /\ p \in Loops /\ p \in Nat /\ p + 1 = open /\ p \in 1 .. open /\ open \in Loops /\ open > 1
      /\ rest[open] = <<>> /\ \A m \in 1 .. p : m \in Loops /\ m # open /\ m \in 1 .. open
      /\ \A m \in 1 .. p - 1 : m \in Loops /\ m # open /\ m # p
      /\ open - 2 = p - 1 /\ p # open
  BY <1>1, <1>6, <1>7, LoopsAre DEF AtEnd, Measures
<1>9. /\ \A m \in Loops : \A i \in 1 .. Counts[m] : ListsRead'[m][i] = ListsRead[m][i]
      /\ ListsRead'[p][Counts[p] + 1]
           = [i \in 1 .. Counts[open] - Bases[open] |-> ListsRead[open][Bases[open] + i]]
  BY <1>1, <1>2, <1>3, <1>5, <1>7, LeftRead
<1>10. PushOffset(p)
  BY <1>3, <1>7
<1>11. /\ \A m \in Loops : Counts'[m] = IF m = p THEN Counts[m] + 1 ELSE Counts[m]
       /\ \A m \in Loops : Bases'[m] = IF m = open THEN Counts[m] ELSE Bases[m]
  BY <1>2, <1>3, <1>8, <1>10, ListClosed
<1>12. /\ \A m \in 1 .. p : Bases'[m] = Bases[m]
       /\ \A m \in 1 .. p - 1 : Counts'[m] = Counts[m]
       /\ Counts'[p] = Counts[p] + 1
  BY <1>8, <1>11
<1>13. open' = p /\ rest' = rest
  BY <1>3, <1>7 DEF LeaveList
<1>14. /\ Walked(q, Counts', Bases', p, rest)
       /\ q[open] = q[p][Counts[p] - Bases[p] + 1] /\ q[open] # None
       /\ Counts[p] - Bases[p] \in 0 .. Len(q[p]) - 1
       /\ Counts[open] - Bases[open] = Len(q[open]) /\ q[open] \in Node[p]
  <2>1. Walked(q, Counts', Bases', p, rest)
    BY <1>6, <1>7, <1>8, <1>12, WalkLeaves
  <2>2. ReadToEnd(q, Counts, Bases, open, p)
    BY <1>6, <1>7, <1>8, ListReadToEnd
  <2> QED BY <2>1, <2>2 DEF ReadToEnd
<1>15. /\ Column!Row[p][q[open]] = [i \in 1 .. Counts[open] - Bases[open] |-> ListsRead[open][Bases[open] + i]]
       /\ ~Column!Broken[p][q[open]]
  <2>1. q[open] \in Node[open - 1]
    BY <1>7, <1>14
  <2> QED BY <1>6, <1>7, <1>8, <1>14, <2>1, RowOfLeft
<1>16. \A m \in 1 .. p : q[m] \in Seq(Node[m]) /\ Bases[m] <= Counts[m]
  <2>1. \A m \in 1 .. open : q[m] \in Seq(Node[m]) /\ Bases[m] <= Counts[m]
    BY <1>2, <1>6, LoopAccounted
  <2> QED BY <1>8, <2>1
<1>17. ReadBack(q, Counts', Bases', p, ListsRead')
  <2>1. ListsRead'[p][Counts[p] + 1] = Column!Row[p][q[open]]
    BY <1>9, <1>15
  <2>2. Stores(q, Counts, Bases, open, rest, ListsRead, Counts', Bases', ListsRead', p, q[open])
    BY <1>6, <1>8, <1>9, <1>12, <1>14, <1>15, <1>16, <2>1 DEF Stores
  <2> QED BY <2>2, BackCloses
<1>18. Weighed(q, [t EXCEPT ![p] = Numbers'], Counts', Bases', p, Numbers')
  <2>1. Numbers' \in [1 .. Leaf + 1 -> Nat]
    BY <1>2 DEF Stands
  <2>2. ASSUME NEW k \in Numbered
        PROVE  Numbers'[k] = t[p][k] + IF k < p THEN 0 ELSE Column!Weight[p][k][q[open]]
    <3>1. Numbers'[k] = Numbers[k] + (IF k = p THEN 1 ELSE 0)
      BY <1>2, <1>3, <1>8, <1>10, NumbersOfList
    <3>2. q[open] \in Node[open - 1]
      BY <1>7, <1>14
    <3>3. Numbers[k] + (IF k = open - 1 THEN 1 ELSE 0)
            = t[open - 1][k] + IF k < open - 1 THEN 0 ELSE Column!Weight[open - 1][k][q[open]]
      BY <1>6, <1>8, <1>14, <3>2, WeightOfLeft
    <3> QED BY <1>7, <3>1, <3>3
  <2>3. p \in 1 .. p
    BY <1>8
  <2>4. Adds(q, t, Counts, Bases, open, rest, Numbers, Counts', Bases', Numbers', p, q[open])
    BY <1>6, <1>8, <1>12, <1>14, <1>16, <2>1, <2>2, <2>3 DEF Adds
  <2> QED BY <2>4, WeighedCloses
<1>19. \E p2, u : Accounted(p2, u)'
  <2>1. PICK u : u = [t EXCEPT ![p] = Numbers']
    OBVIOUS
  <2>2. Weighed(q, u, Counts', Bases', p, Numbers')
    BY <1>18, <2>1
  <2>3. Accounted(q, u)'
    BY <1>3, <1>6, <1>13, <1>14, <1>17, <2>2 DEF Accounted
  <2> QED BY <2>3
<1>20. InRange'
  <2>1. ASSUME NEW m \in 2 .. Leaf
        PROVE  Bases'[m] <= MaxOffset /\ (m > p => Bases'[m] = Counts'[m])
    <3>1. m \in Loops /\ Bases[m] <= MaxOffset /\ (m > open => Bases[m] = Counts[m])
      BY <1>5, LoopsAre DEF InRange
    <3>2. Counts[open] = Entries(p) /\ Entries(p) <= MaxOffset
      BY <1>2, <1>3, <1>7, <1>8 DEF Stands
    <3>3. m > p => m # p /\ (m = open \/ m > open)
      BY <1>8, <3>1, LoopsAre
    <3> QED BY <1>11, <3>1, <3>2, <3>3
  <2> QED BY <1>3, <1>5, <1>13, <2>1 DEF InRange
<1>21. OpenIsValid'
  <2> SUFFICES ASSUME NEW m \in Layers, m < p, Optional(m) PROVE validity'[m][Counts'[m] + 1]
    BY <1>13 DEF OpenIsValid
  <2>1. m # p /\ m \in Loops /\ m < open
    BY <1>8, LoopsAre
  <2>2. Counts'[m] = Counts[m]
    BY <1>11, <2>1
  <2> QED BY <1>3, <1>5, <2>1, <2>2 DEF OpenIsValid
<1>22. LeavesSound'
  BY <1>3, <1>5 DEF LeavesSound, LeafEntries
<1> QED BY <1>19, <1>20, <1>21, <1>22 DEF ScanAccounted

(* Whatever its kind, a leaf is stored as the next entry.                  *)
LEMMA LeafStored ==
  ASSUME KInv, ScanLeaf, NEW e, e = LeafEntries + 1
  PROVE  \E v \in Node[Leaf] :
           /\ AtLeaf(v) /\ Store(v) /\ (v # None => Encode[v] # Failed /\ Addressable)
           /\ LeafEntries \in Nat /\ LeafEntries' = e
           /\ StoredAs(v, e) /\ LeavesSound'
<1>1. PICK v \in Node[Leaf] :
        /\ AtLeaf(v) /\ (v # None => Encode[v] # Failed /\ Addressable)
        /\ IF Fits(v) THEN Store(v) ELSE Fail("panic")
  BY DEF ScanLeaf
<1>2. phase = "scan" /\ LeavesOK /\ CountsOK /\ LeafSizes /\ LeavesSound
  BY <1>1 DEF AtLeaf, KInv, JInv, IInv, TypeOK, ScanAccounted
<1>3. PICK k \in 1 .. Len(trail) : RetracedAt(k)
  BY <1>2 DEF KInv, JInv, PrecountRetraced, RetracedAt
<1>4. LeafEntries < total
  BY <1>1, <1>3, LeavesRemain DEF KInv, JInv
<1>5. Fits(v)
  BY <1>2, <1>4, NextLeafFits
<1>6. Store(v)
  BY <1>1, <1>5
<1>7. LeafEntries \in Nat /\ LeafEntries' = e
  BY <1>2, <1>6, StoreAdvances
<1>8. CASE LeafKind = "bool"
  <2>1. StoredAs(v, e) /\ LeavesSound'
    BY <1>2, <1>4, <1>5, <1>6, <1>8, BoolStored
  <2> QED BY <1>1, <1>6, <1>7, <2>1
<1>9. CASE LeafKind # "bool" /\ ~Gathered
  <2>1. StoredAs(v, e) /\ LeavesSound'
    BY <1>2, <1>4, <1>5, <1>6, <1>9, PushedStored
  <2> QED BY <1>1, <1>6, <1>7, <2>1
<1>10. CASE Gathered
  <2>1. StoredAs(v, e) /\ LeavesSound'
    BY <1>2, <1>6, <1>10, GatheredStored
  <2> QED BY <1>1, <1>6, <1>7, <2>1
<1> QED BY <1>8, <1>9, <1>10

(* Only a present leaf is gathered.                                        *)
LEMMA GatheredGrow ==
  ASSUME LeavesOK, Gathered, NEW v \in Node[Leaf], Store(v)
  PROVE  Len(flat) \in Nat /\ Len(flat') = Len(flat) + (IF v = None THEN 0 ELSE 1)
<1>1. Len(flat) \in Nat /\ LeafKind = "nested"
  BY LenProperties DEF LeavesOK, Gathered
<1>2. CASE v = None
  BY <1>1, <1>2 DEF Store, StoreNull
<1>3. CASE v # None
  <2>1. flat' = Append(flat, Encode[v])
    BY <1>1, <1>3 DEF Store, StoreValue, NestedValue
  <2> QED BY <1>1, <1>3, <2>1 DEF LeavesOK
<1> QED BY <1>2, <1>3

(* A leaf stored and read back.                                            *)
LEMMA LeafRead ==
  ASSUME Stands, Stands', NEW e, e = LeafEntries + 1, NEW v, StoredAs(v, e), LeafEntries \in Nat,
         LeafEntries' = e, UNCHANGED <<offsets, validity>>
  PROVE  /\ \A m \in Loops : Counts'[m] = IF m = Leaf THEN Counts[m] + 1 ELSE Counts[m]
         /\ Bases' = Bases
         /\ \A m \in Loops : \A i \in 1 .. Counts[m] : ListsRead'[m][i] = ListsRead[m][i]
         /\ ListsRead'[Leaf][Counts[Leaf] + 1] = IF v = None THEN None ELSE Encode[v]
<1>1. ASSUME NEW m \in Loops PROVE Counts'[m] = IF m = Leaf THEN Counts[m] + 1 ELSE Counts[m]
  BY DEF Counts, Count
<1>2. Bases' = Bases
  BY DEF Bases, StoredBefore
<1>3. LeavesRead' = [i \in 1 .. e |-> LeafAt(i)'] /\ LeavesRead = [i \in 1 .. LeafEntries |-> LeafAt(i)]
  BY DEF LeavesRead
<1>4. \A i \in 1 .. LeafEntries : LeavesRead'[i] = LeavesRead[i]
  <2>1. \A i \in 1 .. LeafEntries : i \in 1 .. e /\ i \in 1 .. e - 1
    OBVIOUS
  <2> QED BY <1>3, <2>1 DEF StoredAs
<1>5. LeavesRead'[e] = IF v = None THEN None ELSE Encode[v]
  <2>1. e \in 1 .. e
    OBVIOUS
  <2> QED BY <1>3, <2>1 DEF StoredAs
<1>6. \A m \in Loops : Counts[m] \in Nat /\ Counts[m] <= Counts'[m]
  <2>1. \A m \in Loops : Counts[m] \in Nat
    BY DEF Stands, Measures
  <2> QED BY <1>1, <2>1
<1>7. \A m \in Loops : \A i \in 1 .. Counts[m] : ListsRead'[m][i] = ListsRead[m][i]
  BY <1>4, <1>6, StillRead
<1>8. ListsRead'[Leaf] = LeavesRead' /\ Counts[Leaf] + 1 = e
  BY DEF Stands
<1> QED BY <1>1, <1>2, <1>5, <1>7, <1>8

(* A leaf.                                                                 *)
LEMMA LeafAccounted ==
  ASSUME KInv, JInv', ScanLeaf
  PROVE  ScanAccounted'
<1>0. PICK e : e = LeafEntries + 1
  OBVIOUS
<1>1. PICK v \in Node[Leaf] :
        /\ AtLeaf(v) /\ Store(v) /\ (v # None => Encode[v] # Failed /\ Addressable)
        /\ LeafEntries \in Nat /\ LeafEntries' = e
        /\ StoredAs(v, e) /\ LeavesSound'
  BY <1>0, LeafStored
<1>2. /\ phase = "scan" /\ phase' = "scan" /\ open = Leaf /\ rest[Leaf] # <<>> /\ v = Head(rest[Leaf])
      /\ SkipElement /\ UNCHANGED <<items, offsets, validity>>
  BY <1>1 DEF AtLeaf, Store, Next1
<1>3. Stands /\ Stands'
  BY <1>2, StandingBoth DEF KInv
<1>4. PICK q, t : Accounted(q, t)
  BY <1>2 DEF KInv, ScanAccounted
<1>5. InRange /\ OpenIsValid
  BY <1>2 DEF KInv, ScanAccounted
<1>6. /\ Measures(Counts, Bases, Leaf, rest) /\ Walked(q, Counts, Bases, Leaf, rest) /\ q[1] = items
      /\ ReadBack(q, Counts, Bases, Leaf, ListsRead) /\ Weighed(q, t, Counts, Bases, Leaf, Numbers)
  BY <1>2, <1>3, <1>4 DEF Accounted, Stands
<1>7. /\ \A m \in Loops : Counts'[m] = IF m = Leaf THEN Counts[m] + 1 ELSE Counts[m]
      /\ Bases' = Bases
      /\ \A m \in Loops : \A i \in 1 .. Counts[m] : ListsRead'[m][i] = ListsRead[m][i]
      /\ ListsRead'[Leaf][Counts[Leaf] + 1] = IF v = None THEN None ELSE Encode[v]
  BY <1>0, <1>1, <1>2, <1>3, LeafRead
<1>8. /\ Leaf \in Loops /\ Leaf \in Nat /\ Leaf \in 1 .. Leaf
      /\ \A m \in 1 .. Leaf - 1 : m \in Loops /\ m # Leaf
  BY LoopsAre
<1>9. /\ open' = Leaf /\ rest'[Leaf] = Tail(rest[Leaf])
      /\ \A m \in 1 .. Leaf - 1 : rest'[m] = rest[m]
  BY <1>2, <1>6, <1>8 DEF SkipElement, Measures, Rests
<1>10. /\ \A m \in 1 .. Leaf : Bases'[m] = Bases[m]
       /\ \A m \in 1 .. Leaf - 1 : Counts'[m] = Counts[m] /\ rest'[m] = rest[m]
       /\ Counts'[Leaf] = Counts[Leaf] + 1
  BY <1>7, <1>8, <1>9
<1>11. /\ Walked(q, Counts', Bases', Leaf, rest')
       /\ v = q[Leaf][Counts[Leaf] - Bases[Leaf] + 1]
       /\ Counts[Leaf] - Bases[Leaf] \in 0 .. Len(q[Leaf]) - 1
  <2>1. /\ Walked(q, Counts', Bases', Leaf, rest')
        /\ Head(rest[Leaf]) = q[Leaf][Counts[Leaf] - Bases[Leaf] + 1]
        /\ Counts[Leaf] - Bases[Leaf] \in 0 .. Len(q[Leaf]) - 1
    BY <1>2, <1>6, <1>9, <1>10, WalkCloses
  <2> QED BY <1>2, <2>1
<1>12. \A m \in 1 .. Leaf : q[m] \in Seq(Node[m]) /\ Bases[m] <= Counts[m]
  <2>1. Walked(q, Counts, Bases, open, rest) /\ open = Leaf
    BY <1>2, <1>6
  <2> QED BY <1>3, <2>1, LoopAccounted
<1>13. ReadBack(q, Counts', Bases', Leaf, ListsRead')
  <2>1. ListsRead'[Leaf][Counts[Leaf] + 1] = Column!Row[Leaf][v] /\ ~Column!Broken[Leaf][v]
    BY <1>1, <1>7, <1>8, RowIs, BrokenIs
  <2>2. /\ Measures(Counts, Bases, Leaf, rest) /\ ReadBack(q, Counts, Bases, Leaf, ListsRead)
        /\ Leaf \in 1 .. Leaf
    BY <1>6, <1>8
  <2>3. /\ \A m \in 1 .. Leaf : Bases'[m] = Bases[m] /\ Bases[m] <= Counts[m]
        /\ \A m \in 1 .. Leaf - 1 : Counts'[m] = Counts[m]
        /\ Counts'[Leaf] = Counts[Leaf] + 1
    BY <1>10, <1>12
  <2>4. Stores(q, Counts, Bases, Leaf, rest, ListsRead, Counts', Bases', ListsRead', Leaf, v)
    BY <1>7, <1>11, <2>1, <2>2, <2>3 DEF Stores
  <2> QED BY <2>4, BackCloses
<1>14. LeavesOK
  BY <1>3 DEF Stands, InStep
<1>15. Weighed(q, [t EXCEPT ![Leaf] = Numbers'], Counts', Bases', Leaf, Numbers')
  <2>1. Numbers' \in [1 .. Leaf + 1 -> Nat]
    BY <1>3 DEF Stands
  <2>2. ASSUME NEW k \in Numbered
        PROVE  Numbers'[k] = t[Leaf][k] + IF k < Leaf THEN 0 ELSE Column!Weight[Leaf][k][v]
    <3>1. k \in 1 .. Leaf + 1 /\ t[Leaf][k] = Numbers[k] /\ Numbers[k] \in Nat
      BY <1>3, <1>6 DEF Stands, Weighed, Numbered
    <3>2. CASE k \in Loops
      <4>1. Numbers'[k] = Counts'[k] /\ Numbers[k] = Counts[k] /\ k # Leaf + 1 /\ (k < Leaf <=> k # Leaf)
        <5>1. k \in 1 .. Leaf + 1 /\ k # Leaf + 1 /\ Leaf \in Nat
          BY <3>1, <1>3, <3>2, <1>8, NumbersAre
        <5> QED BY <1>3, <3>2, <5>1, NumbersAre
      <4>2. k = Leaf => Column!Weight[Leaf][k][v] = 1
        BY <1>8, <3>1, WeightIs
      <4> QED BY <1>7, <3>1, <3>2, <4>1, <4>2
    <3>3. CASE k \notin Loops
      <4>1. k = Leaf + 1 /\ ~(k < Leaf) /\ k # Leaf /\ Gathered
            /\ Numbers'[k] = Len(flat') /\ Numbers[k] = Len(flat)
        BY <1>3, <1>8, <3>3, NumbersAre
      <4>2. Column!Weight[Leaf][k][v] = IF v = None THEN 0 ELSE 1
        BY <1>8, <3>1, <4>1, WeightIs
      <4>3. Len(flat') = Len(flat) + (IF v = None THEN 0 ELSE 1)
        BY <1>1, <1>14, <4>1, GatheredGrow
      <4> QED BY <3>1, <4>1, <4>2, <4>3
    <3> QED BY <3>2, <3>3
  <2>3. \A m \in 1 .. Leaf : Bases'[m] = Bases[m] /\ Bases[m] <= Counts[m]
    BY <1>10, <1>12
  <2>4. q[Leaf] \in Seq(Node[Leaf])
    BY <1>8, <1>12
  <2>5. /\ Measures(Counts, Bases, Leaf, rest) /\ Weighed(q, t, Counts, Bases, Leaf, Numbers)
        /\ Leaf \in 1 .. Leaf
        /\ \A m \in 1 .. Leaf - 1 : Counts'[m] = Counts[m]
        /\ Counts'[Leaf] = Counts[Leaf] + 1
    BY <1>6, <1>8, <1>10
  <2>6. Adds(q, t, Counts, Bases, Leaf, rest, Numbers, Counts', Bases', Numbers', Leaf, v)
    BY <1>11, <2>1, <2>2, <2>3, <2>4, <2>5 DEF Adds
  <2> QED BY <2>6, WeighedCloses
<1>16. \E p, u : Accounted(p, u)'
  <2>1. PICK u : u = [t EXCEPT ![Leaf] = Numbers']
    OBVIOUS
  <2>2. Weighed(q, u, Counts', Bases', Leaf, Numbers')
    BY <1>15, <2>1
  <2>3. Accounted(q, u)'
    BY <1>2, <1>6, <1>9, <1>11, <1>13, <2>2 DEF Accounted
  <2> QED BY <2>3
<1>17. InRange'
  <2>1. \A m \in 2 .. Leaf : Bases'[m] <= MaxOffset /\ (m > Leaf => Bases'[m] = Counts'[m])
    BY <1>5, <1>7, <1>8 DEF InRange
  <2>2. ASSUME Gathered PROVE Len(flat') <= MaxIdx + 1
    <3>1. Len(flat) \in Nat /\ Len(flat') = Len(flat) + (IF v = None THEN 0 ELSE 1)
      BY <1>1, <1>14, <2>2, GatheredGrow
    <3>2. v # None => Len(flat) <= MaxIdx
      BY <1>1, <2>2 DEF Gathered, Addressable
    <3> QED BY <1>5, <2>2, <3>1, <3>2, BoundAssumption DEF InRange
  <2> QED BY <1>9, <2>1, <2>2 DEF InRange, Gathered
<1>18. OpenIsValid'
  <2> SUFFICES ASSUME NEW m \in Layers, m < Leaf, Optional(m) PROVE validity'[m][Counts'[m] + 1]
    BY <1>9 DEF OpenIsValid
  <2>1. m # Leaf /\ m \in Loops
    BY LoopsAre
  <2>2. Counts'[m] = Counts[m]
    BY <1>7, <2>1
  <2> QED BY <1>2, <1>5, <2>2 DEF OpenIsValid
<1> QED BY <1>1, <1>16, <1>17, <1>18 DEF ScanAccounted

(* Empty buffers account for nothing read.                                 *)
LEMMA DeclareAccounted ==
  ASSUME KInv, JInv', DeclareBuffers
  PROVE  ScanAccounted'
<1>1. /\ phase' = "scan" /\ open' = 1 /\ rest' = [rest EXCEPT ![1] = items] /\ items' = items
      /\ rest \in [Loops -> Seq(Elements)] /\ items \in Seq(Node[1]) /\ CountsOK
  BY InputAssumption DEF DeclareBuffers, KInv, JInv, IInv, TypeOK, WalkOK, Rests
<1>2. Stands'
  <2>1. (JInv /\ phase = "scan" => Stands)'
    BY Standing, PTL
  <2> QED BY <1>1, <2>1
<1>3. 1 \in Loops /\ Len(items) \in Nat /\ items \in Seq(Elements) /\ rest'[1] = items
  BY <1>1, LoopsAre, ElementsOfLoops, LenProperties
<1>4. LeafEntries' = 0 /\ flat' = <<>> /\ positions' = <<>> /\ Len(flat') = 0
  BY KindAssumption DEF DeclareBuffers, LeafEntries, LeafKinds
<1>5. \A m \in Loops : Counts'[m] = 0 /\ Bases'[m] = 0
  <2>1. ASSUME NEW m \in Layers PROVE offsets'[m] = <<0>> /\ Len(offsets'[m]) = 1 /\ offsets'[m][Len(offsets'[m])] = 0
    BY DEF DeclareBuffers, Seed
  <2>2. ASSUME NEW m \in Loops PROVE Counts'[m] = 0
    <3>1. m = Leaf \/ m \in Layers
      BY LoopsAre
    <3> QED BY <1>4, <2>1, <3>1 DEF Counts, Count
  <2>3. ASSUME NEW m \in Loops PROVE Bases'[m] = 0
    <3>1. m = 1 \/ m - 1 \in Layers
      BY LoopsAre
    <3> QED BY <2>1, <3>1 DEF Bases, StoredBefore
  <2> QED BY <2>2, <2>3
<1>6. PICK q : q = [m \in Loops |-> IF m = 1 THEN items ELSE <<>>]
  OBVIOUS
<1>7. q \in [Loops -> Seq(Elements)] /\ q[1] = items
  BY <1>3, <1>6
<1>8. Walked(q, Counts', Bases', 1, rest')
  <2>1. Placed(items, 0, 0, items)
    BY <1>3 DEF Placed
  <2>2. Counts'[1] - Bases'[1] = 0 /\ Bases'[1] <= Counts'[1] /\ Inside(1, 1) = 0
    BY <1>3, <1>5 DEF Inside
  <2>3. RunsOver(q, Counts', Bases', 1, rest', 1)
    BY <1>1, <1>3, <1>7, <2>1, <2>2 DEF RunsOver
  <2>4. \A m \in 1 .. 1 : m = 1
    OBVIOUS
  <2> QED BY <1>7, <2>3, <2>4 DEF Walked
<1>9. ReadBack(q, Counts', Bases', 1, ListsRead')
  <2>1. \A m \in 1 .. 1 : m = 1
    OBVIOUS
  <2> QED BY <1>3, <1>5, <2>1 DEF ReadBack
<1>10. PICK t : t = [m \in 0 .. Leaf |-> [k \in 1 .. Leaf + 1 |-> 0]]
  OBVIOUS
<1>11. Weighed(q, t, Counts', Bases', 1, Numbers')
  <2>1. t \in [0 .. Leaf -> [1 .. Leaf + 1 -> Nat]] /\ \A k \in Numbered : t[0][k] = 0 /\ t[1][k] = 0
    BY <1>10, LoopsAre DEF Numbered
  <2>2. ASSUME NEW k \in Numbered PROVE Numbers'[k] = 0
    BY <1>2, <1>4, <1>5 DEF Stands
  <2>3. ASSUME NEW k \in Numbered PROVE StoredBelow(1, k, q[1], Counts'[1] - Bases'[1]) = 0
    <3>1. Counts'[1] - Bases'[1] = 0
      BY <1>3, <1>5
    <3> QED BY <3>1, SumZero DEF StoredBelow
  <2>4. \A m \in 1 .. 1 : m = 1
    OBVIOUS
  <2> QED BY <2>1, <2>2, <2>3, <2>4 DEF Weighed
<1>12. Accounted(q, t)'
  BY <1>1, <1>7, <1>8, <1>9, <1>11 DEF Accounted
<1>13. InRange'
  <2>1. \A m \in 2 .. Leaf : m \in Loops
    BY LoopsAre
  <2> QED BY <1>4, <1>5, <2>1, BoundAssumption DEF InRange, Gathered
<1>14. OpenIsValid'
  BY <1>1, LoopsAre DEF OpenIsValid
<1>15. LeavesSound'
  <2>1. LeafKind = "bool" => bits' = [i \in 1 .. total |-> FALSE]
    BY DEF DeclareBuffers, Filled
  <2>2. InnerOption /\ LeafKind # "nested" => valid' = [i \in 1 .. total |-> TRUE]
    BY DEF DeclareBuffers, Filled
  <2>3. total \in Nat
    BY <1>1 DEF CountsOK
  <2>4. LeafKind = "bool" => \A i \in 1 .. Len(bits') : bits'[i] = FALSE
    BY <2>1, <2>3
  <2>5. InnerOption /\ LeafKind # "nested" => \A i \in 1 .. Len(valid') : valid'[i] = TRUE
    BY <2>2, <2>3
  <2> QED BY <1>4, <2>4, <2>5 DEF LeavesSound, Gathered
<1>16. \E p, u : Accounted(p, u)'
  BY <1>12
<1> QED BY <1>13, <1>14, <1>15, <1>16 DEF ScanAccounted

-----------------------------------------------------------------------------
(* The invariant of the accounts.                                          *)

(* It holds before the scan.                                               *)
LEMMA AccountsStart == Init => KInv
BY RetraceStarts DEF Init, KInv, ScanAccounted

(* It depends on the variables alone.                                      *)
LEMMA AccountsUntouched ==
  ASSUME KInv, UNCHANGED vars
  PROVE  ScanAccounted'
<1>1. UNCHANGED <<items, phase, open, rest, offsets, validity, flat, bits, valid, positions, leafIdx>>
  BY DEF vars, walk, buffers
<1>2. Counts' = Counts /\ Bases' = Bases /\ Numbers' = Numbers /\ LeavesRead' = LeavesRead
      /\ LeafEntries' = LeafEntries
  BY <1>1, SameCounts, SameLeaves
<1>3. ListsRead' = ListsRead
  BY <1>1, <1>2 DEF ListsRead
<1>4. \A q, t : Accounted(q, t) => Accounted(q, t)'
  BY <1>1, <1>2, <1>3 DEF Accounted
<1>5. (InRange => InRange') /\ (OpenIsValid => OpenIsValid') /\ (LeavesSound => LeavesSound')
  BY <1>1, <1>2 DEF InRange, OpenIsValid, LeavesSound
<1> QED BY <1>1, <1>4, <1>5 DEF KInv, ScanAccounted

(* Every step keeps it.                                                    *)
LEMMA AccountsKept == KInv /\ [Next]_vars => KInv'
<1> SUFFICES ASSUME KInv, [Next]_vars PROVE KInv'
  OBVIOUS
<1>0. JInv'
  BY RetraceKept DEF KInv
<1>1. CASE phase' # "scan"
  BY <1>0, <1>1 DEF KInv, ScanAccounted
<1>2. CASE phase' = "scan"
  <2>1. CASE Precount
    BY <1>2, <2>1 DEF Precount, PrecountNull, PrecountLeaves, PrecountEnter, PrecountLeave
  <2>2. CASE DeclareBuffers
    BY <1>0, <2>2, DeclareAccounted DEF KInv
  <2>3. CASE ScanNull
    BY <1>0, <1>2, <2>3, NullAccounted DEF KInv
  <2>4. CASE ScanEnter
    BY <1>0, <2>4, EnterAccounted DEF KInv
  <2>5. CASE ScanLeave
    BY <1>0, <1>2, <2>5, LeaveAccounted DEF KInv
  <2>6. CASE ScanLeaf
    BY <1>0, <2>6, LeafAccounted DEF KInv
  <2>7. CASE ScanFailing \/ ScanTooMany
    BY <1>2, <2>7 DEF ScanFailing, ScanTooMany, Fail
  <2>8. CASE Assemble
    BY <1>2, <2>8 DEF Assemble
  <2>9. CASE UNCHANGED vars
    BY <1>0, <2>9, AccountsUntouched DEF KInv
  <2> QED BY <2>1, <2>2, <2>3, <2>4, <2>5, <2>6, <2>7, <2>8, <2>9 DEF Next, Scan, Return
<1> QED BY <1>1, <1>2

(* So it holds throughout.                                                 *)
LEMMA Accounts == Spec => []KInv
BY AccountsStart, AccountsKept, PTL DEF Spec

-----------------------------------------------------------------------------
(* From the element being read out to its item.                            *)

(* An element that is broken breaks the item it is in.                     *)
LEMMA BrokenOutwards ==
  ASSUME NEW q, NEW c, NEW b, NEW o, NEW r, Measures(c, b, o, r), Walked(q, c, b, o, r),
         NEW p \in 1 .. o, c[p] - b[p] \in 0 .. Len(q[p]) - 1,
         Column!Broken[p][q[p][c[p] - b[p] + 1]]
  PROVE  c[1] - b[1] \in 0 .. Len(q[1]) - 1 /\ Column!Broken[1][q[1][c[1] - b[1] + 1]]
<1> DEFINE S == {m \in 1 .. p : c[m] - b[m] \in 0 .. Len(q[m]) - 1
                                /\ Column!Broken[m][q[m][c[m] - b[m] + 1]]}
<1>0. o \in 1 .. Leaf /\ p \in Nat \ {0} /\ p \in 1 .. p
  BY LoopsAre DEF Measures
<1>1. p \in S
  BY <1>0
<1>2. ASSUME NEW m \in 1 .. p - 1, m + 1 \in S PROVE m \in S
  <2>1. m \in 1 .. o /\ m + 1 \in 1 .. o /\ m < o /\ m \in Layers /\ m \in Loops /\ m # Leaf /\ m \in 1 .. p
    BY <1>0, LoopsAre
  <2>2. RunsOver(q, c, b, o, r, m) /\ RunsOver(q, c, b, o, r, m + 1)
    BY <2>1 DEF Walked
  <2>3. PICK d, e : d = c[m] - b[m] /\ e = c[m + 1] - b[m + 1]
    OBVIOUS
  <2>4. d \in Nat /\ q[m] \in Seq(Node[m]) /\ Len(q[m]) \in Nat
    <3>1. c[m] \in Nat /\ b[m] \in Nat
      BY <2>1 DEF Measures
    <3>2. b[m] <= c[m] /\ q[m] \in Seq(Node[m])
      BY <2>2 DEF RunsOver
    <3>3. Len(q[m]) \in Nat
      BY <3>2, LenProperties
    <3>4. ASSUME NEW u \in Nat, NEW v \in Nat, v <= u PROVE u - v \in Nat
      BY <3>4
    <3> QED BY <2>3, <3>1, <3>2, <3>3, <3>4
  <2>5. q[m + 1] # None /\ q[m + 1] = q[m][d + 1] /\ Placed(q[m], d, 1, r[m]) /\ Len(r[m]) \in Nat
    <3>1. r[m] \in Seq(Node[m]) /\ Inside(m, o) = 1
      BY <2>1 DEF Measures, Rests, Inside
    <3>2. Placed(q[m], d, 1, r[m]) /\ (m < o => q[m + 1] # None /\ q[m + 1] = q[m][d + 1])
      BY <2>2, <2>3, <3>1 DEF RunsOver
    <3>3. Len(r[m]) \in Nat
      BY <3>1, LenProperties
    <3> QED BY <2>1, <3>2, <3>3
  <2>6. d \in 0 .. Len(q[m]) - 1
    <3>1. d + 1 + Len(r[m]) = Len(q[m]) /\ Len(r[m]) \in Nat
      BY <2>5 DEF Placed
    <3>2. d \in Nat /\ Len(q[m]) \in Nat
      BY <2>4
    <3>3. ASSUME NEW u \in Nat, NEW v \in Nat, NEW w \in Nat, u + 1 + v = w PROVE u \in 0 .. w - 1
      BY <3>3
    <3> QED BY <3>1, <3>2, <3>3
  <2>7. q[m][d + 1] \in Node[m]
    <3>1. d + 1 \in 1 .. Len(q[m])
      BY <2>4, <2>6
    <3> QED BY <2>4, <3>1
  <2>8. e + 1 \in 1 .. Len(q[m + 1]) /\ Column!Broken[m + 1][q[m + 1][e + 1]]
    <3>1. e \in 0 .. Len(q[m + 1]) - 1 /\ Column!Broken[m + 1][q[m + 1][e + 1]]
      BY <1>2, <2>3
    <3>2. Len(q[m + 1]) \in Nat
      BY <2>2 DEF RunsOver
    <3> QED BY <3>1, <3>2
  <2>9. Column!Broken[m][q[m][d + 1]]
    BY <2>1, <2>5, <2>7, <2>8, BrokenIs
  <2> QED BY <2>1, <2>3, <2>6, <2>9
<1>3. 1 .. p \subseteq S
  <2> HIDE DEF S
  <2> QED BY <1>0, <1>1, <1>2, Outwards
<1>4. 1 \in S
  BY <1>0, <1>3
<1> QED BY <1>4

(* All that is stored, and the element being read, are within the weight of *)
(* the items up to this one.                                               *)
LEMMA WeightOutwards ==
  ASSUME NEW q, NEW t, NEW c, NEW b, NEW o, NEW r, NEW n,
         Measures(c, b, o, r), Walked(q, c, b, o, r), Weighed(q, t, c, b, o, n),
         NEW p \in 1 .. o, NEW k \in Numbered, k >= p, NEW y \in Nat,
         c[p] - b[p] \in 0 .. Len(q[p]) - 1,
         y <= t[p][k] + Column!Weight[p][k][q[p][c[p] - b[p] + 1]]
  PROVE  /\ c[1] - b[1] \in 0 .. Len(q[1]) - 1
         /\ y <= Column!SumTo(Weights(1, k, q[1]), c[1] - b[1] + 1)
<1> DEFINE S == {m \in 1 .. p : c[m] - b[m] \in 0 .. Len(q[m]) - 1
                                /\ y <= t[m][k] + Column!Weight[m][k][q[m][c[m] - b[m] + 1]]}
<1>0. o \in 1 .. Leaf /\ p \in Nat \ {0} /\ p \in 1 .. p /\ k \in 1 .. Leaf + 1 /\ 1 \in 1 .. p /\ 1 \in 1 .. o
  <2>1. o \in 1 .. Leaf /\ k \in 1 .. Leaf + 1
    BY LoopsAre DEF Measures, Numbered
  <2>2. p \in 1 .. o /\ o \in Nat
    BY <2>1, LoopsAre
  <2> QED BY <2>1, <2>2
<1>a. \A m \in 0 .. Leaf : t[m][k] \in Nat
  BY <1>0 DEF Weighed
<1>1. p \in S
  BY <1>0
<1>2. ASSUME NEW m \in 1 .. p - 1, m + 1 \in S PROVE m \in S
  <2>1. m \in 1 .. o /\ m + 1 \in 1 .. o /\ m < o /\ m \in Layers /\ m \in Loops /\ m # Leaf /\ m \in 1 .. p
        /\ m + 1 \in Loops /\ m # k /\ ~(k < m + 1) /\ m \in 0 .. Leaf /\ (m + 1) - 1 = m
    BY <1>0, LoopsAre
  <2>2. RunsOver(q, c, b, o, r, m) /\ RunsOver(q, c, b, o, r, m + 1)
    BY <2>1 DEF Walked
  <2>3. PICK d, e : d = c[m] - b[m] /\ e = c[m + 1] - b[m + 1]
    OBVIOUS
  <2>4. d \in Nat /\ q[m] \in Seq(Node[m]) /\ Len(q[m]) \in Nat
    <3>1. c[m] \in Nat /\ b[m] \in Nat
      BY <2>1 DEF Measures
    <3>2. b[m] <= c[m] /\ q[m] \in Seq(Node[m])
      BY <2>2 DEF RunsOver
    <3>3. Len(q[m]) \in Nat
      BY <3>2, LenProperties
    <3>4. ASSUME NEW u \in Nat, NEW v \in Nat, v <= u PROVE u - v \in Nat
      BY <3>4
    <3> QED BY <2>3, <3>1, <3>2, <3>3, <3>4
  <2>5. q[m + 1] # None /\ q[m + 1] = q[m][d + 1] /\ Placed(q[m], d, 1, r[m]) /\ Len(r[m]) \in Nat
    <3>1. r[m] \in Seq(Node[m]) /\ Inside(m, o) = 1
      BY <2>1 DEF Measures, Rests, Inside
    <3>2. Placed(q[m], d, 1, r[m]) /\ (m < o => q[m + 1] # None /\ q[m + 1] = q[m][d + 1])
      BY <2>2, <2>3, <3>1 DEF RunsOver
    <3>3. Len(r[m]) \in Nat
      BY <3>1, LenProperties
    <3> QED BY <2>1, <3>2, <3>3
  <2>6. d \in 0 .. Len(q[m]) - 1
    <3>1. d + 1 + Len(r[m]) = Len(q[m]) /\ Len(r[m]) \in Nat
      BY <2>5 DEF Placed
    <3>2. d \in Nat /\ Len(q[m]) \in Nat
      BY <2>4
    <3>3. ASSUME NEW u \in Nat, NEW v \in Nat, NEW w \in Nat, u + 1 + v = w PROVE u \in 0 .. w - 1
      BY <3>3
    <3> QED BY <3>1, <3>2, <3>3
  <2>7. q[m][d + 1] \in Node[m]
    <3>1. d + 1 \in 1 .. Len(q[m])
      BY <2>4, <2>6
    <3> QED BY <2>4, <3>1
  <2>8. PICK s : s = q[m + 1]
    OBVIOUS
  <2>9. s \in Seq(Node[m + 1]) /\ e \in 0 .. Len(s) - 1
        /\ y <= t[m + 1][k] + Column!Weight[m + 1][k][s[e + 1]]
    BY <1>2, <2>2, <2>3, <2>8 DEF RunsOver
  <2>10. t[m + 1][k] = t[m][k] + Column!SumTo(Weights(m + 1, k, s), e)
    <3>1. t[m + 1][k] = t[(m + 1) - 1][k] + StoredBelow(m + 1, k, q[m + 1], c[m + 1] - b[m + 1])
      BY <2>1 DEF Weighed
    <3> QED BY <2>1, <2>3, <2>8, <3>1 DEF StoredBelow
  <2>11. Column!Weight[m][k][s] = Column!SumTo(Weights(m + 1, k, s), Len(s))
    <3>1. s \in Node[m] /\ s # None
      BY <2>5, <2>7, <2>8
    <3> QED BY <1>0, <2>1, <3>1, WeightIs
  <2>12. PICK f, g, h : /\ f = Column!SumTo(Weights(m + 1, k, s), e)
                        /\ g = Column!Weight[m + 1][k][s[e + 1]]
                        /\ h = Column!SumTo(Weights(m + 1, k, s), Len(s))
    OBVIOUS
  <2>13. f \in Nat /\ g \in Nat /\ h \in Nat /\ f + g <= h
    <3>1. e \in 0 .. Len(s) /\ e + 1 \in 1 .. Len(s) /\ Len(s) \in 0 .. Len(s)
      BY <2>9, LenProperties
    <3>2. f \in Nat /\ h \in Nat
      BY <1>0, <2>1, <2>9, <2>12, <3>1, WeightsGrow
    <3>3. g \in Nat
      BY <1>0, <2>1, <2>9, <2>12, <3>1, WeightsGrow
    <3>4. f + g <= h
      BY <1>0, <2>1, <2>9, <2>12, WeightsGrow
    <3> QED BY <3>2, <3>3, <3>4
  <2>14. y <= t[m][k] + h
    <3>1. t[m][k] \in Nat
      BY <1>a, <2>1
    <3>2. y <= (t[m][k] + f) + g
      BY <2>9, <2>10, <2>12
    <3>3. ASSUME NEW u \in Nat, y <= (u + f) + g PROVE y <= u + h
      BY <1>0, <2>13, <3>3
    <3> QED BY <3>1, <3>2, <3>3
  <2>15. Column!Weight[m][k][q[m][d + 1]] = h
    BY <2>5, <2>8, <2>11, <2>12
  <2> QED BY <2>1, <2>3, <2>6, <2>14, <2>15
<1>3. 1 .. p \subseteq S
  <2> HIDE DEF S
  <2> QED BY <1>0, <1>1, <1>2, Outwards
<1>4. 1 \in S
  BY <1>0, <1>3
<1>5. PICK d : d = c[1] - b[1] /\ d \in 0 .. Len(q[1]) - 1 /\ y <= t[1][k] + Column!Weight[1][k][q[1][d + 1]]
  BY <1>4
<1>6. q[1] \in Seq(Node[1]) /\ 1 \in Loops
  <2>1. 1 \in 1 .. o /\ 1 \in Loops
    BY <1>0, LoopsAre
  <2>2. RunsOver(q, c, b, o, r, 1)
    BY <1>0, <2>1 DEF Walked
  <2> QED BY <2>1, <2>2 DEF RunsOver
<1>7. Column!SumTo(Weights(1, k, q[1]), d + 1)
        = Column!SumTo(Weights(1, k, q[1]), d) + Column!Weight[1][k][q[1][d + 1]]
  BY <1>0, <1>5, <1>6, WeightsGrow
<1>8. t[1][k] = Column!SumTo(Weights(1, k, q[1]), d)
  <2>1. t[1][k] = t[1 - 1][k] + StoredBelow(1, k, q[1], c[1] - b[1])
    BY <1>0 DEF Weighed
  <2>2. t[0][k] = 0 /\ ~(k < 1) /\ 1 - 1 = 0
    BY <1>0 DEF Weighed
  <2>3. Column!SumTo(Weights(1, k, q[1]), d) \in Nat
    <3>1. d \in 0 .. Len(q[1])
      BY <1>5, <1>6, LenProperties
    <3> QED BY <1>0, <1>6, <3>1, WeightsGrow
  <2> QED BY <1>5, <2>1, <2>2, <2>3 DEF StoredBelow
<1> QED BY <1>5, <1>7, <1>8

-----------------------------------------------------------------------------
(* The rows.                                                               *)

(* R is a sequence of c rows.                                              *)
RowsAre(R, c) == c \in Nat /\ R = [i \in 1 .. c |-> R[i]]

(* It is one of some set of rows.                                          *)
LEMMA RowsHave ==
  ASSUME NEW R, NEW c, RowsAre(R, c)
  PROVE  Len(R) = c /\ \E S : R \in Seq(S)
<1> DEFINE S == {R[i] : i \in 1 .. c}
<1>1. c \in Nat /\ R = [i \in 1 .. c |-> R[i]] /\ \A i \in 1 .. c : R[i] \in S
  BY DEF RowsAre
<1> HIDE DEF S
<1>2. R \in [1 .. c -> S]
  BY <1>1
<1>3. R \in Seq(S) /\ Len(R) = c
  BY <1>1, <1>2
<1> QED BY <1>3

(* a is s with x behind it.                                                *)
Extended(a, s, x) ==
  /\ a = [i \in 1 .. Len(s) + 1 |-> a[i]]
  /\ a[Len(s) + 1] = x /\ \A i \in 1 .. Len(s) : a[i] = s[i]

(* Appending extends.                                                      *)
LEMMA AppendIs ==
  ASSUME NEW S, NEW s \in Seq(S), NEW x \in S
  PROVE  Extended(Append(s, x), s, x)
<1>1. Append(s, x) \in Seq(S) /\ Len(Append(s, x)) = Len(s) + 1
  BY AppendProperties
<1>2. Append(s, x)[Len(s) + 1] = x
  BY AppendProperties
<1>3. \A i \in 1 .. Len(s) : Append(s, x)[i] = s[i]
  BY AppendProperties
<1>4. PICK a : a = Append(s, x)
  OBVIOUS
<1>5. a = [i \in 1 .. Len(s) + 1 |-> a[i]]
  <2>1. a \in Seq(S) /\ Len(a) = Len(s) + 1
    BY <1>1, <1>4
  <2>2. a \in [1 .. Len(a) -> S]
    BY <2>1, LenProperties
  <2> QED BY <2>1, <2>2
<1>6. a[Len(s) + 1] = x /\ \A i \in 1 .. Len(s) : a[i] = s[i]
  BY <1>2, <1>3, <1>4, Zenon
<1> QED BY <1>4, <1>5, <1>6 DEF Extended

(* One more row is appended.                                               *)
LEMMA RowAdded ==
  ASSUME NEW R, NEW R2, NEW c, NEW x, RowsAre(R, c), RowsAre(R2, c + 1),
         \A i \in 1 .. c : R2[i] = R[i], R2[c + 1] = x
  PROVE  R2 = Append(R, x)
<1>1. c \in Nat /\ Len(R) = c
  BY RowsHave DEF RowsAre
<1>2. PICK S : R \in Seq(S)
  BY RowsHave
<1>3. PICK T : T = S \union {x} /\ R \in Seq(T) /\ x \in T
  <2>1. S \subseteq S \union {x}
    OBVIOUS
  <2> QED BY <1>2, <2>1, SeqMonotonic
<1>4. PICK a : a = Append(R, x)
  OBVIOUS
<1>a. a = [i \in 1 .. c + 1 |-> a[i]] /\ a[c + 1] = x /\ \A i \in 1 .. c : a[i] = R[i]
  <2>1. Extended(a, R, x)
    BY <1>3, <1>4, AppendIs
  <2> QED BY <1>1, <2>1 DEF Extended
<1>5. R2 = [i \in 1 .. c + 1 |-> R2[i]]
  BY DEF RowsAre
<1>6. ASSUME NEW i \in 1 .. c + 1 PROVE R2[i] = a[i]
  <2>1. i \in 1 .. c \/ i = c + 1
    BY <1>1
  <2> QED BY <1>a, <2>1
<1> QED BY <1>4, <1>a, <1>5, <1>6

(* Rows that agree are the same.                                           *)
LEMMA RowsSame ==
  ASSUME NEW R, NEW R2, NEW c, RowsAre(R, c), RowsAre(R2, c), \A i \in 1 .. c : R2[i] = R[i]
  PROVE  R2 = R
BY DEF RowsAre

(* The rows read back are as many as the items done.                       *)
LEMMA RowsCounted == Stands /\ phase = "scan" => RowsAre(RowsRead, Counts[1]) /\ RowsRead = ListsRead[1]
BY LoopsAre DEF Stands, Sized, RowsAre, RowsRead

(* Before and after a step of the scan.                                    *)
LEMMA RowsCountedBoth ==
  ASSUME Stands, Stands', phase = "scan", phase' = "scan"
  PROVE  /\ RowsAre(RowsRead, Counts[1]) /\ RowsRead = ListsRead[1]
         /\ RowsAre(RowsRead', Counts'[1]) /\ RowsRead' = ListsRead'[1]
<1>1. (Stands /\ phase = "scan" => RowsAre(RowsRead, Counts[1]) /\ RowsRead = ListsRead[1])'
  BY RowsCounted, PTL
<1>2. (Stands /\ phase = "scan")'
  OBVIOUS
<1>3. (RowsAre(RowsRead, Counts[1]) /\ RowsRead = ListsRead[1])'
  BY <1>1, <1>2
<1>4. RowsAre(RowsRead', Counts'[1]) /\ RowsRead' = ListsRead'[1]
  BY <1>3 DEF RowsAre
<1> QED BY <1>4, RowsCounted

(* A step that stores nothing below the items themselves keeps the rows.   *)
LEMMA RowsKeptRead ==
  ASSUME Stands, Stands', phase = "scan", phase' = "scan", Counts'[1] = Counts[1],
         \A m \in Loops : \A i \in 1 .. Counts[m] : ListsRead'[m][i] = ListsRead[m][i]
  PROVE  RowsRead' = RowsRead
<1>1. /\ RowsAre(RowsRead, Counts[1]) /\ RowsRead = ListsRead[1]
      /\ RowsAre(RowsRead', Counts'[1]) /\ RowsRead' = ListsRead'[1] /\ 1 \in Loops
  BY RowsCountedBoth, LoopsAre
<1>2. PICK R, R2, c : R = RowsRead /\ R2 = RowsRead' /\ c = Counts[1]
  OBVIOUS
<1>3. RowsAre(R, c) /\ RowsAre(R2, c) /\ \A i \in 1 .. c : R2[i] = R[i]
  BY <1>1, <1>2
<1>4. R2 = R
  BY <1>3, RowsSame
<1> QED BY <1>2, <1>4

-----------------------------------------------------------------------------
(* Offsets and gather indices out of range.                                *)

(* The first n of s have too much of something numbered.                   *)
OversizedBy(s, n) ==
  \/ \E k \in 2 .. Leaf : Column!SumTo(Weights(1, k, s), n) > MaxOffset
  \/ Gathered /\ Column!SumTo(Weights(1, Leaf + 1, s), n) > MaxIdx + 1

(* That is what ListColumn says of the items.                              *)
LEMMA OversizedIs ==
  ASSUME NEW n
  PROVE  Column!Oversized(n) <=> OversizedBy(items, n)
BY DEF Column!Oversized, Column!EntriesTo, Column!Leaf, Leaf, OversizedBy, Weights, Gathered

(* Between items every entry stored belongs to an item that has been read. *)
LEMMA InRangeBetweenItems == KInv /\ phase = "scan" /\ open = 1 => ~OversizedBy(items, Counts[1])
<1> SUFFICES ASSUME KInv, phase = "scan", open = 1 PROVE ~OversizedBy(items, Counts[1])
  OBVIOUS
<1>1. Stands
  BY Standing DEF KInv
<1>2. PICK q, t : Accounted(q, t)
  BY DEF KInv, ScanAccounted
<1>3. InRange
  BY DEF KInv, ScanAccounted
<1>4. /\ Weighed(q, t, Counts, Bases, 1, Numbers) /\ q[1] = items /\ Bases[1] = 0
      /\ Measures(Counts, Bases, open, rest) /\ Numbers \in [1 .. Leaf + 1 -> Nat]
      /\ Walked(q, Counts, Bases, 1, rest)
  BY <1>1, <1>2 DEF Accounted, Stands
<1>5. 1 \in Loops /\ Counts[1] \in Nat /\ Counts[1] - Bases[1] = Counts[1] /\ Counts[1] \in 0 .. Len(items)
      /\ items \in Seq(Node[1])
  <2>1. 1 \in Loops /\ Counts[1] \in Nat /\ rest[1] \in Seq(Node[1])
    BY <1>4, LoopsAre DEF Measures, Rests
  <2>2. RunsOver(q, Counts, Bases, 1, rest, 1)
    BY <1>4 DEF Walked
  <2>3. items \in Seq(Node[1]) /\ Placed(items, Counts[1] - Bases[1], Inside(1, 1), rest[1])
    BY <1>4, <2>2 DEF RunsOver
  <2>4. Counts[1] + 0 + Len(rest[1]) = Len(items)
    BY <1>4, <2>1, <2>3 DEF Placed, Inside
  <2>5. Len(rest[1]) \in Nat /\ Len(items) \in Nat
    BY <2>1, <2>3, LenProperties
  <2> QED BY <1>4, <2>1, <2>3, <2>4, <2>5
<1>6. ASSUME NEW k \in Numbered PROVE Numbers[k] = Column!SumTo(Weights(1, k, items), Counts[1])
  <2>1. k \in 1 .. Leaf + 1 /\ ~(k < 1)
    BY LoopsAre DEF Numbered
  <2>2. t[0][k] = 0 /\ t[1][k] = Numbers[k] /\ t[1][k] = t[1 - 1][k] + StoredBelow(1, k, items, Counts[1])
    BY <1>4, <1>5 DEF Weighed
  <2>3. Column!SumTo(Weights(1, k, items), Counts[1]) \in Nat
    BY <1>5, <2>1, WeightsGrow
  <2> QED BY <2>1, <2>2, <2>3 DEF StoredBelow
<1>7. ASSUME NEW k \in 2 .. Leaf PROVE ~(Column!SumTo(Weights(1, k, items), Counts[1]) > MaxOffset)
  <2>1. k \in Numbered /\ k \in Loops /\ k > open /\ k # Leaf + 1
    BY LoopsAre DEF Numbered
  <2>2. Numbers[k] = Counts[k] /\ Counts[k] = Bases[k] /\ Bases[k] <= MaxOffset /\ Counts[k] \in Nat
    BY <1>1, <1>3, <2>1, NumberIs DEF NumbersCount, InRange
  <2> QED BY <1>6, <2>1, <2>2, BoundAssumption
<1>8. ASSUME Gathered PROVE ~(Column!SumTo(Weights(1, Leaf + 1, items), Counts[1]) > MaxIdx + 1)
  <2>1. Leaf + 1 \in Numbered /\ Leaf + 1 \notin Loops
    BY <1>8, LoopsAre DEF Numbered
  <2>2. Numbers[Leaf + 1] = Len(flat) /\ Len(flat) <= MaxIdx + 1 /\ Numbers[Leaf + 1] \in Nat
    BY <1>1, <1>3, <1>8, <2>1, NumberIs DEF NumbersCount, InRange
  <2> QED BY <1>6, <2>1, <2>2, BoundAssumption
<1> QED BY <1>7, <1>8 DEF OversizedBy

-----------------------------------------------------------------------------
(* The steps of ListColumn.                                                *)

(* Returning an error.                                                     *)
LEMMA Rejected ==
  ASSUME Stands, phase = "scan", Fail("error"), NEW n, n = Counts[1], n \in 0 .. Len(items) - 1,
         Column!Broken[1][items[n + 1]] \/ OversizedBy(items, n + 1)
  PROVE  Column!Next
<1>1. Status = "building" /\ Status' = "rejected" /\ items' = items
  BY DEF Status, Fail
<1>2. RowsRead' = RowsRead
  <2>1. UNCHANGED <<offsets, validity, flat, bits, valid, positions, leafIdx>> /\ phase' = "error"
    BY DEF Fail, buffers
  <2>2. LeavesRead' = LeavesRead
    BY <2>1, SameLeaves
  <2>3. ListsRead' = ListsRead
    BY <2>1, <2>2 DEF ListsRead
  <2> QED BY <2>1, <2>3 DEF RowsRead
<1>3. Len(RowsRead) = n
  BY RowsCounted, RowsHave
<1>4. Column!Reject
  BY <1>1, <1>2, <1>3, OversizedIs DEF Column!Reject
<1> QED BY <1>4 DEF Column!Next

(* More of number k than there may be, before the next item is done.       *)
LEMMA TooMany ==
  ASSUME NEW s, NEW n, NEW k \in Numbered, NEW y \in Nat,
         k > 1, y > (IF k = Leaf + 1 THEN MaxIdx + 1 ELSE MaxOffset),
         Column!SumTo(Weights(1, k, s), n) \in Nat, y <= Column!SumTo(Weights(1, k, s), n)
  PROVE  OversizedBy(s, n)
<1>1. k \in 1 .. Leaf + 1 /\ (k = Leaf + 1 => Gathered)
  BY DEF Numbered
<1>2. CASE k = Leaf + 1
  BY <1>1, <1>2, BoundAssumption DEF OversizedBy
<1>3. CASE k # Leaf + 1
  <2>1. k \in 2 .. Leaf
    BY <1>1, <1>3, LoopsAre
  <2> QED BY <1>3, <2>1, BoundAssumption DEF OversizedBy
<1> QED BY <1>2, <1>3

(* An entry that must not be numbered, met in the list that loop p reads.  *)
LEMMA OversizedHere ==
  ASSUME Stands, phase = "scan", Fail("error"), NEW q, NEW t, Accounted(q, t),
         NEW p \in 1 .. open, NEW k \in Numbered, k >= p, k > 1, NEW y \in Nat,
         Counts[p] - Bases[p] \in 0 .. Len(q[p]) - 1,
         y <= t[p][k] + Column!Weight[p][k][q[p][Counts[p] - Bases[p] + 1]],
         y > (IF k = Leaf + 1 THEN MaxIdx + 1 ELSE MaxOffset)
  PROVE  Column!Next
<1>1. /\ Measures(Counts, Bases, open, rest) /\ Walked(q, Counts, Bases, open, rest) /\ q[1] = items
      /\ Weighed(q, t, Counts, Bases, open, Numbers) /\ Bases[1] = 0
  BY DEF Accounted, Stands
<1>2. /\ Counts[1] - Bases[1] \in 0 .. Len(q[1]) - 1
      /\ y <= Column!SumTo(Weights(1, k, q[1]), Counts[1] - Bases[1] + 1)
  BY <1>1, WeightOutwards
<1>3. PICK n : n = Counts[1] /\ n = Counts[1] - Bases[1]
  BY <1>1, LoopsAre DEF Measures
<1>4. n \in 0 .. Len(items) - 1 /\ y <= Column!SumTo(Weights(1, k, items), n + 1)
  BY <1>1, <1>2, <1>3
<1>5. Column!SumTo(Weights(1, k, items), n + 1) \in Nat
  <2>1. 1 \in Loops /\ 1 \in 1 .. open
    BY <1>1, LoopsAre DEF Measures
  <2>2. items \in Seq(Node[1])
    BY <1>1, <2>1 DEF Walked, RunsOver
  <2>3. n + 1 \in 0 .. Len(items)
    BY <1>4, <2>2, LenProperties
  <2> QED BY <2>1, <2>2, <2>3, WeightsGrow DEF Numbered
<1>6. OversizedBy(items, n + 1)
  BY <1>4, <1>5, TooMany
<1> QED BY <1>3, <1>4, <1>6, Rejected

(* A broken value, met in the list that loop p reads.                      *)
LEMMA BrokenHere ==
  ASSUME Stands, phase = "scan", Fail("error"), NEW q, NEW t, Accounted(q, t),
         NEW p \in 1 .. open,
         Counts[p] - Bases[p] \in 0 .. Len(q[p]) - 1,
         Column!Broken[p][q[p][Counts[p] - Bases[p] + 1]]
  PROVE  Column!Next
<1>1. /\ Measures(Counts, Bases, open, rest) /\ Walked(q, Counts, Bases, open, rest) /\ q[1] = items
      /\ Bases[1] = 0
  BY DEF Accounted, Stands
<1>2. /\ Counts[1] - Bases[1] \in 0 .. Len(q[1]) - 1
      /\ Column!Broken[1][q[1][Counts[1] - Bases[1] + 1]]
  BY <1>1, BrokenOutwards
<1>3. PICK n : n = Counts[1] /\ n = Counts[1] - Bases[1]
  BY <1>1, LoopsAre DEF Measures
<1>4. n \in 0 .. Len(items) - 1 /\ Column!Broken[1][items[n + 1]]
  BY <1>1, <1>2, <1>3
<1> QED BY <1>3, <1>4, Rejected

(* The element that the innermost loop is at, in the list it runs over.    *)
LEMMA ElementMet ==
  ASSUME Stands, NEW q, NEW t, Accounted(q, t), rest[open] # <<>>
  PROVE  /\ open \in 1 .. open /\ open \in Loops
         /\ Head(rest[open]) = q[open][Counts[open] - Bases[open] + 1]
         /\ Counts[open] - Bases[open] \in 0 .. Len(q[open]) - 1
<1>1. Measures(Counts, Bases, open, rest) /\ Walked(q, Counts, Bases, open, rest)
  BY DEF Accounted, Stands
<1>2. open \in 1 .. open /\ open \in Loops /\ Inside(open, open) = 0
  BY <1>1, LoopsAre DEF Measures, Inside
<1>3. /\ Counts[open] \in Nat /\ Bases[open] \in Nat /\ RunsOver(q, Counts, Bases, open, rest, open)
      /\ rest[open] \in Seq(Node[open])
  BY <1>1, <1>2 DEF Measures, Walked, Rests
<1>4. PICK d \in Nat : d = Counts[open] - Bases[open]
  BY <1>3 DEF RunsOver
<1>5. q[open] \in Seq(Node[open]) /\ Placed(q[open], d, 0, rest[open])
  BY <1>2, <1>3, <1>4 DEF RunsOver
<1>6. Head(rest[open]) = q[open][d + 1] /\ d \in 0 .. Len(q[open]) - 1
  BY <1>3, <1>5, NextPlaced
<1> QED BY <1>2, <1>4, <1>6

(* A row appears.                                                          *)
LEMMA AddedRow ==
  ASSUME Stands, Stands', KInv', phase = "scan", phase' = "scan", open' = 1, items' = items,
         NEW n, n = Counts[1], n \in 0 .. Len(items) - 1, Counts'[1] = n + 1,
         \A m \in Loops : \A i \in 1 .. Counts[m] : ListsRead'[m][i] = ListsRead[m][i],
         ListsRead'[1][n + 1] = Column!Row[1][items[n + 1]],
         ~Column!Broken[1][items[n + 1]]
  PROVE  Column!Next
<1>1. /\ RowsAre(RowsRead, n) /\ RowsRead = ListsRead[1]
      /\ RowsAre(RowsRead', n + 1) /\ RowsRead' = ListsRead'[1] /\ 1 \in Loops
  BY RowsCountedBoth, LoopsAre
<1>2. RowsRead' = Append(RowsRead, Column!Row[1][items[n + 1]])
  <2>1. PICK R, R2, x : R = RowsRead /\ R2 = RowsRead' /\ x = Column!Row[1][items[n + 1]]
    OBVIOUS
  <2>2. RowsAre(R, n) /\ RowsAre(R2, n + 1) /\ (\A i \in 1 .. n : R2[i] = R[i]) /\ R2[n + 1] = x
    BY <1>1, <2>1
  <2>3. R2 = Append(R, x)
    BY <2>2, RowAdded
  <2> QED BY <2>1, <2>3
<1>3. Len(RowsRead) = n
  BY <1>1, RowsHave
<1>4. ~OversizedBy(items, n + 1)
  <2>1. (KInv /\ phase = "scan" /\ open = 1 => ~OversizedBy(items, Counts[1]))'
    BY InRangeBetweenItems, PTL
  <2>2. ~OversizedBy(items', Counts'[1])
    BY <2>1 DEF OversizedBy, Gathered, InnerOption, Optional
  <2> QED BY <2>2
<1>5. Status = "building" /\ Status' = "building"
  BY DEF Status
<1>6. Column!AddRow
  BY <1>2, <1>3, <1>4, <1>5, OversizedIs DEF Column!AddRow
<1> QED BY <1>6 DEF Column!Next

(* What ListColumn sees does not change.                                   *)
Stutters == UNCHANGED <<items, Status, RowsRead>>

(* An invariant state of the scan.                                         *)
LEMMA ScanState ==
  ASSUME KInv, phase = "scan"
  PROVE  /\ Stands /\ InRange /\ OpenIsValid /\ LeavesSound /\ \E q, t : Accounted(q, t)
         /\ Measures(Counts, Bases, open, rest) /\ Bases[1] = 0
BY Standing DEF KInv, ScanAccounted, Stands

(* A null list is a row if it is an item, else a part of one.              *)
LEMMA NullSimulated ==
  ASSUME KInv, KInv', ScanNull
  PROVE  Column!Next \/ Stutters
<1>1. phase = "scan" /\ AtElement /\ Next1(open) = None /\ rest[open] # <<>> /\ Head(rest[open]) = None
  BY DEF ScanNull, AtElement, Next1
<1>2. Stands /\ Measures(Counts, Bases, open, rest) /\ Bases[1] = 0 /\ InRange
  BY <1>1, ScanState
<1>3. PICK q, t : Accounted(q, t)
  BY <1>1, ScanState
<1>4. open \in Layers /\ open \in Loops /\ open \in Nat /\ open \in 1 .. Leaf - 1
  BY <1>1, <1>2, LoopsAre DEF AtElement, Measures
<1>5. /\ open \in 1 .. open /\ None = q[open][Counts[open] - Bases[open] + 1]
      /\ Counts[open] - Bases[open] \in 0 .. Len(q[open]) - 1
  BY <1>1, <1>2, <1>3, ElementMet
<1>6. None \in Node[open]
  <2>1. rest[open] \in Seq(Node[open])
    BY <1>2, <1>4 DEF Measures, Rests
  <2> QED BY <1>1, <2>1, HeadTailProperties
<1>7. CASE Entries(open) > MaxOffset /\ Fail("error")
  <2>1. PICK k : k = open + 1
    OBVIOUS
  <2>2. k \in Numbered /\ k >= open /\ k > 1 /\ k # Leaf + 1 /\ k \in Loops /\ k # open /\ k \in 1 .. Leaf + 1
    BY <1>4, <2>1, LoopsAre DEF Numbered
  <2>3. Numbers[k] = Counts[k] /\ Counts[k] = Entries(open) /\ Numbers[k] \in Nat
    BY <1>2, <1>4, <2>1, <2>2, LoopsAre DEF Stands
  <2>4. t[open][k] = Numbers[k] /\ Column!Weight[open][k][None] = 0
    BY <1>3, <1>4, <1>6, <2>2, WeightIs DEF Accounted, Weighed
  <2>5. Numbers[k] <= t[open][k] + Column!Weight[open][k][q[open][Counts[open] - Bases[open] + 1]]
    BY <1>5, <2>3, <2>4
  <2>6. Numbers[k] > (IF k = Leaf + 1 THEN MaxIdx + 1 ELSE MaxOffset)
    BY <1>7, <2>2, <2>3
  <2> QED BY <1>1, <1>2, <1>3, <1>5, <1>7, <2>2, <2>3, <2>5, <2>6, OversizedHere
<1>8. CASE ~(Entries(open) > MaxOffset /\ Fail("error"))
  <2>1. /\ SkipElement /\ PushValidity(open, FALSE) /\ PushOffset(open) /\ phase' = "scan"
        /\ UNCHANGED <<items, flat, bits, valid, positions, leafIdx>>
    BY <1>1, <1>8 DEF ScanNull
  <2>2. Stands'
    BY <1>1, <2>1, StandingBoth DEF KInv
  <2>3. /\ \A m \in Loops : \A i \in 1 .. Counts[m] : ListsRead'[m][i] = ListsRead[m][i]
        /\ ListsRead'[open][Counts[open] + 1] = None
    BY <1>1, <1>2, <2>1, <2>2, NullRead
  <2>4. \A m \in Loops : Counts'[m] = IF m = open THEN Counts[m] + 1 ELSE Counts[m]
    BY <1>2, <1>4, <2>1, <2>2, ListClosed
  <2>5. CASE open = 1
    <3>1. PICK n : n = Counts[1] /\ n = Counts[1] - Bases[1]
      BY <1>2, LoopsAre DEF Measures
    <3>2. q[1] = items
      BY <1>3 DEF Accounted
    <3>3. n \in 0 .. Len(items) - 1 /\ items[n + 1] = None /\ Counts'[1] = n + 1
      BY <1>4, <1>5, <2>4, <2>5, <3>1, <3>2
    <3>4. Column!Row[1][None] = None /\ ~Column!Broken[1][None]
      BY <1>4, <1>6, <2>5, RowIs, BrokenIs
    <3>5. open' = 1
      BY <2>1, <2>5 DEF SkipElement
    <3>6. ListsRead'[1][n + 1] = Column!Row[1][items[n + 1]] /\ ~Column!Broken[1][items[n + 1]]
      BY <2>3, <2>5, <3>1, <3>3, <3>4
    <3> QED BY <1>1, <1>2, <2>1, <2>2, <2>3, <3>1, <3>3, <3>5, <3>6, AddedRow
  <2>6. CASE open # 1
    <3>1. Counts'[1] = Counts[1]
      BY <2>4, <2>6, LoopsAre
    <3>2. RowsRead' = RowsRead
      BY <1>1, <1>2, <2>1, <2>2, <2>3, <3>1, RowsKeptRead
    <3> QED BY <1>1, <2>1, <3>2 DEF Stutters, Status
  <2> QED BY <2>5, <2>6
<1> QED BY <1>7, <1>8

(* A list that is left is a row if it is an item, else a part of one.      *)
LEMMA LeaveSimulated ==
  ASSUME KInv, KInv', ScanLeave
  PROVE  Column!Next \/ Stutters
<1>1. phase = "scan" /\ AtEnd /\ open > 1 /\ rest[open] = <<>>
  BY DEF ScanLeave, AtEnd
<1>2. Stands /\ Measures(Counts, Bases, open, rest) /\ Bases[1] = 0 /\ OpenIsValid
  BY <1>1, ScanState
<1>3. PICK q, t : Accounted(q, t)
  BY <1>1, ScanState
<1>4. PICK p : p = open - 1
  OBVIOUS
<1>5. /\ Walked(q, Counts, Bases, open, rest) /\ ReadBack(q, Counts, Bases, open, ListsRead)
      /\ Weighed(q, t, Counts, Bases, open, Numbers) /\ q[1] = items
  BY <1>3 DEF Accounted
<1>6. /\ ReadToEnd(q, Counts, Bases, open, p)
      /\ p \in Nat \ {0} /\ p + 1 = open /\ p \in Loops /\ p \in 1 .. open /\ p < open /\ p # open
  BY <1>1, <1>2, <1>4, <1>5, ListReadToEnd
<1>7. open \in Loops /\ p \in Layers /\ open \in Nat
  BY <1>2, <1>6, LoopsAre DEF Measures
<1>8. /\ q[open] = q[p][Counts[p] - Bases[p] + 1] /\ q[open] # None /\ q[open] \in Node[p]
      /\ Counts[p] - Bases[p] \in 0 .. Len(q[p]) - 1
      /\ Counts[open] - Bases[open] = Len(q[open]) /\ q[open] \in Node[open - 1]
  BY <1>4, <1>6 DEF ReadToEnd
<1>9. CASE Entries(p) > MaxOffset /\ Fail("error")
  <2>1. PICK k : k = open
    OBVIOUS
  <2>2. k \in Numbered /\ k >= p /\ k > 1 /\ k # Leaf + 1 /\ k \in Loops /\ k # p /\ ~(k < p) /\ k \in 1 .. Leaf + 1
    BY <1>1, <1>6, <1>7, <2>1, LoopsAre DEF Numbered
  <2>3. Numbers[k] = Counts[k] /\ Counts[k] = Entries(p) /\ Numbers[k] \in Nat
    BY <1>2, <1>6, <1>7, <2>1, <2>2, LoopsAre DEF Stands
  <2>4. Numbers[k] + (IF k = open - 1 THEN 1 ELSE 0)
          = t[open - 1][k] + IF k < open - 1 THEN 0 ELSE Column!Weight[open - 1][k][q[open]]
    BY <1>1, <1>2, <1>5, <1>8, <2>2, WeightOfLeft
  <2>5. Numbers[k] = t[p][k] + Column!Weight[p][k][q[p][Counts[p] - Bases[p] + 1]]
    BY <1>4, <1>8, <2>2, <2>3, <2>4
  <2>6. Numbers[k] > (IF k = Leaf + 1 THEN MaxIdx + 1 ELSE MaxOffset)
    BY <1>9, <2>2, <2>3
  <2>7. Numbers[k] <= t[p][k] + Column!Weight[p][k][q[p][Counts[p] - Bases[p] + 1]]
    BY <2>3, <2>5
  <2> QED BY <1>1, <1>2, <1>3, <1>6, <1>8, <1>9, <2>2, <2>3, <2>6, <2>7, OversizedHere
<1>10. CASE ~(Entries(p) > MaxOffset /\ Fail("error"))
  <2>1. /\ LeaveList /\ PushOffset(open - 1) /\ PushOffset(p) /\ phase' = "scan"
        /\ UNCHANGED <<items, validity, flat, bits, valid, positions, leafIdx>>
    BY <1>1, <1>4, <1>10 DEF ScanLeave
  <2>2. Stands'
    BY <1>1, <2>1, StandingBoth DEF KInv
  <2>3. /\ \A m \in Loops : \A i \in 1 .. Counts[m] : ListsRead'[m][i] = ListsRead[m][i]
        /\ ListsRead'[p][Counts[p] + 1]
             = [i \in 1 .. Counts[open] - Bases[open] |-> ListsRead[open][Bases[open] + i]]
    BY <1>1, <1>2, <1>4, <2>1, <2>2, LeftRead
  <2>4. \A m \in Loops : Counts'[m] = IF m = p THEN Counts[m] + 1 ELSE Counts[m]
    BY <1>2, <1>7, <2>1, <2>2, ListClosed
  <2>5. CASE p = 1
    <3>1. PICK n : n = Counts[1] /\ n = Counts[1] - Bases[1]
      BY <1>2, LoopsAre DEF Measures
    <3>2. n \in 0 .. Len(items) - 1 /\ items[n + 1] = q[open] /\ Counts'[1] = n + 1
      BY <1>5, <1>6, <1>8, <2>4, <2>5, <3>1
    <3>3. /\ Column!Row[open - 1][q[open]] = [i \in 1 .. Counts[open] - Bases[open] |-> ListsRead[open][Bases[open] + i]]
          /\ ~Column!Broken[open - 1][q[open]]
      BY <1>1, <1>2, <1>5, <1>8, RowOfLeft
    <3>4. open' = 1
      BY <1>4, <2>1, <2>5 DEF LeaveList
    <3>5. ListsRead'[1][n + 1] = Column!Row[1][items[n + 1]] /\ ~Column!Broken[1][items[n + 1]]
      BY <1>4, <2>3, <2>5, <3>1, <3>2, <3>3
    <3> QED BY <1>1, <1>2, <2>1, <2>2, <2>3, <3>1, <3>2, <3>4, <3>5, AddedRow
  <2>6. CASE p # 1
    <3>1. Counts'[1] = Counts[1]
      BY <2>4, <2>6, LoopsAre
    <3>2. RowsRead' = RowsRead
      BY <1>1, <1>2, <2>1, <2>2, <2>3, <3>1, RowsKeptRead
    <3> QED BY <1>1, <2>1, <3>2 DEF Stutters, Status
  <2> QED BY <2>5, <2>6
<1> QED BY <1>9, <1>10

(* Entering a list stores nothing that is read.                            *)
LEMMA EnterSimulated ==
  ASSUME KInv, KInv', ScanEnter
  PROVE  Stutters
<1>1. /\ phase = "scan" /\ phase' = "scan" /\ AtElement /\ PushValidity(open, TRUE)
      /\ UNCHANGED <<items, offsets, flat, bits, valid, positions, leafIdx>>
  BY DEF ScanEnter
<1>2. Stands /\ Stands'
  BY <1>1, StandingBoth DEF KInv
<1>3. open \in Layers
  BY <1>1, <1>2, LoopsAre DEF AtElement, Stands, Measures
<1>4. /\ \A m \in Loops : \A i \in 1 .. Counts[m] : ListsRead'[m][i] = ListsRead[m][i]
      /\ Counts' = Counts
  BY <1>1, <1>2, <1>3, EnterRead
<1>5. RowsRead' = RowsRead
  BY <1>1, <1>2, <1>4, RowsKeptRead
<1> QED BY <1>1, <1>5 DEF Stutters, Status

(* A leaf is never an item.                                                *)
LEMMA LeafSimulated ==
  ASSUME KInv, KInv', ScanLeaf
  PROVE  Stutters
<1>0. PICK e : e = LeafEntries + 1
  OBVIOUS
<1>1. PICK v \in Node[Leaf] :
        /\ AtLeaf(v) /\ Store(v) /\ LeafEntries \in Nat /\ LeafEntries' = e /\ StoredAs(v, e)
  BY <1>0, LeafStored
<1>2. phase = "scan" /\ phase' = "scan" /\ UNCHANGED <<items, offsets, validity>>
  BY <1>1 DEF AtLeaf, Store
<1>3. Stands /\ Stands'
  BY <1>2, StandingBoth DEF KInv
<1>4. /\ \A m \in Loops : Counts'[m] = IF m = Leaf THEN Counts[m] + 1 ELSE Counts[m]
      /\ \A m \in Loops : \A i \in 1 .. Counts[m] : ListsRead'[m][i] = ListsRead[m][i]
  BY <1>0, <1>1, <1>2, <1>3, LeafRead
<1>5. Counts'[1] = Counts[1]
  BY <1>4, LoopsAre
<1>6. RowsRead' = RowsRead
  BY <1>2, <1>3, <1>4, <1>5, RowsKeptRead
<1> QED BY <1>2, <1>6 DEF Stutters, Status

(* A leaf that cannot be encoded breaks its item.                          *)
LEMMA FailingSimulated ==
  ASSUME KInv, ScanFailing
  PROVE  Column!Next
<1>1. PICK v \in Node[Leaf] \ {None} : AtLeaf(v) /\ Encode[v] = Failed /\ Fail("error")
  BY DEF ScanFailing
<1>2. phase = "scan" /\ open = Leaf /\ rest[open] # <<>> /\ v = Head(rest[open])
  BY <1>1 DEF AtLeaf, Next1
<1>3. Stands
  BY <1>2, ScanState
<1>4. PICK q, t : Accounted(q, t)
  BY <1>2, ScanState
<1>5. /\ open \in 1 .. open /\ v = q[open][Counts[open] - Bases[open] + 1]
      /\ Counts[open] - Bases[open] \in 0 .. Len(q[open]) - 1
  BY <1>2, <1>3, <1>4, ElementMet
<1>6. Column!Broken[open][v]
  BY <1>1, <1>2, LoopsAre, BrokenIs
<1>7. Column!Broken[open][q[open][Counts[open] - Bases[open] + 1]]
  BY <1>5, <1>6
<1> QED BY <1>1, <1>2, <1>3, <1>4, <1>5, <1>7, BrokenHere

(* An index that does not fit is met only where the items have too many    *)
(* entries.                                                                *)
LEMMA TooManySimulated ==
  ASSUME KInv, ScanTooMany
  PROVE  Column!Next
<1>1. PICK v \in Node[Leaf] \ {None} : AtLeaf(v) /\ ~Addressable /\ Fail("error")
  BY DEF ScanTooMany
<1>2. phase = "scan" /\ open = Leaf /\ rest[open] # <<>> /\ v = Head(rest[open])
  BY <1>1 DEF AtLeaf, Next1
<1>3. Stands
  BY <1>2, ScanState
<1>4. PICK q, t : Accounted(q, t)
  BY <1>2, ScanState
<1>5. /\ open \in 1 .. open /\ v = q[open][Counts[open] - Bases[open] + 1]
      /\ Counts[open] - Bases[open] \in 0 .. Len(q[open]) - 1
  BY <1>2, <1>3, <1>4, ElementMet
<1>6. PICK k : k = Leaf + 1
  OBVIOUS
<1>7. Gathered /\ k \in Numbered /\ k \notin Loops /\ k >= open /\ k > 1 /\ k # Leaf /\ k \in 1 .. Leaf + 1
  BY <1>1, <1>2, <1>6, LoopsAre DEF Addressable, Gathered, Numbered
<1>8. Numbers[k] = Len(flat) /\ Numbers[k] \in Nat /\ Len(flat) > MaxIdx
  BY <1>1, <1>3, <1>6, <1>7, LoopsAre, BoundAssumption DEF Stands, Addressable
<1>9. t[open][k] = Numbers[k]
  BY <1>4, <1>7 DEF Accounted, Weighed
<1>10. Column!Weight[open][k][v] = 1
  BY <1>1, <1>2, <1>7, LoopsAre, WeightIs
<1>11. PICK y \in Nat : y = Numbers[k] + 1
  BY <1>8
<1>12. y <= t[open][k] + Column!Weight[open][k][q[open][Counts[open] - Bases[open] + 1]]
  BY <1>5, <1>8, <1>9, <1>10, <1>11
<1>13. y > (IF k = Leaf + 1 THEN MaxIdx + 1 ELSE MaxOffset)
  BY <1>6, <1>8, <1>11, BoundAssumption
<1> QED BY <1>1, <1>2, <1>3, <1>4, <1>5, <1>7, <1>12, <1>13, OversizedHere

(* The column is assembled when every item has its row.                    *)
LEMMA AssembleSimulated ==
  ASSUME KInv, Assemble
  PROVE  Column!Next
<1>1. phase = "scan" /\ AllRead /\ UNCHANGED <<items, buffers>>
  BY DEF Assemble
<1>2. Stands
  BY <1>1, ScanState
<1>3. phase' = "done"
  <2>1. PICK k \in 1 .. Len(trail) : RetracedAt(k)
    BY <1>1 DEF KInv, JInv, PrecountRetraced, RetracedAt
  <2>2. phase' \in {"error", "done"}
    BY <2>1, AssembleAccepted DEF KInv, JInv
  <2>3. \A l \in Layers : OffsetsAccepted(offsets[l])
    BY <1>2 DEF Stands, InStep, LayerInStep
  <2>4. phase' # "error"
    BY <2>3 DEF Assemble
  <2> QED BY <2>2, <2>4
<1>4. RowsRead' = RowsRead
  <2>1. UNCHANGED <<offsets, validity, flat, bits, valid, positions, leafIdx>>
    BY <1>1 DEF buffers
  <2>2. LeavesRead' = LeavesRead
    BY <2>1, SameLeaves
  <2>3. ListsRead' = ListsRead
    BY <2>1, <2>2 DEF ListsRead
  <2> QED BY <1>1, <1>3, <2>3 DEF RowsRead
<1>5. Len(RowsRead) = Len(items)
  <2>1. Len(RowsRead) = Counts[1]
    BY <1>1, <1>2, RowsCounted, RowsHave
  <2>2. Balance(Len(offsets[1]), Len(rest[1]), OpenLists(1), Len(items))
    BY <1>1 DEF KInv, JInv, RowsAndItems
  <2>3. Len(rest[1]) = 0 /\ OpenLists(1) = 0
    BY <1>1 DEF AllRead, OpenLists
  <2>4. Counts[1] = Len(offsets[1]) - 1 /\ Counts[1] \in Nat /\ Len(offsets[1]) \in Nat
    <3>1. 1 \in Layers /\ 1 \in Loops
      BY LoopsAre
    <3> QED BY <1>2, <3>1 DEF Stands, Measures, Within
  <2> QED BY <2>1, <2>2, <2>3, <2>4 DEF Balance
<1>6. Status = "building" /\ Status' = "complete"
  BY <1>1, <1>3 DEF Status
<1>7. Column!Complete
  BY <1>1, <1>4, <1>5, <1>6 DEF Column!Complete
<1> QED BY <1>7 DEF Column!Next

(* Declaring the buffers shows no row.                                     *)
LEMMA DeclareSimulated ==
  ASSUME KInv, KInv', DeclareBuffers
  PROVE  Stutters
<1>1. phase = "precount" /\ phase' = "scan" /\ items' = items
  BY DEF DeclareBuffers
<1>2. (Stands /\ phase = "scan" => RowsAre(RowsRead, Counts[1]) /\ RowsRead = ListsRead[1])'
  BY RowsCounted, PTL
<1>3. (JInv /\ phase = "scan" => Stands)'
  BY Standing, PTL
<1>4. RowsAre(RowsRead', Counts'[1])
  BY <1>1, <1>2, <1>3 DEF KInv, RowsAre
<1>5. Counts'[1] = 0
  <2>1. 1 \in Layers /\ 1 \in Loops /\ 1 # Leaf
    BY LoopsAre
  <2>2. Len(offsets'[1]) = 1
    BY <2>1 DEF DeclareBuffers, Seed
  <2> QED BY <2>1, <2>2 DEF Counts, Count
<1>6. RowsRead' = <<>> /\ RowsRead = <<>>
  BY <1>1, <1>4, <1>5 DEF RowsAre, RowsRead
<1> QED BY <1>1, <1>6 DEF Stutters, Status

(* Precounting shows none.                                                 *)
LEMMA PrecountSimulated ==
  ASSUME Precount
  PROVE  Stutters
<1>1. phase = "precount" /\ phase' = "precount" /\ items' = items
  BY DEF Precount, PrecountNull, PrecountLeaves, PrecountEnter, PrecountLeave
<1> QED BY <1>1 DEF Stutters, Status, RowsRead

(* Nor does a step that changes nothing.                                   *)
LEMMA UntouchedSimulated ==
  ASSUME UNCHANGED vars
  PROVE  Stutters
<1>1. UNCHANGED <<items, phase, offsets, validity, flat, bits, valid, positions, leafIdx>>
  BY DEF vars, buffers
<1>2. LeavesRead' = LeavesRead
  BY <1>1, SameLeaves
<1>3. ListsRead' = ListsRead
  BY <1>1, <1>2 DEF ListsRead
<1> QED BY <1>1, <1>3 DEF Stutters, Status, RowsRead

(* Every step is one of ListColumn, or none.                               *)
LEMMA StepSimulated == KInv /\ KInv' /\ [Next]_vars => [Column!Next]_(Column!vars)
<1> SUFFICES ASSUME KInv, KInv', [Next]_vars PROVE Column!Next \/ Stutters
  BY DEF Stutters, Column!vars
<1>1. CASE Precount
  BY <1>1, PrecountSimulated
<1>2. CASE DeclareBuffers
  BY <1>2, DeclareSimulated
<1>3. CASE ScanNull
  BY <1>3, NullSimulated
<1>4. CASE ScanEnter
  BY <1>4, EnterSimulated
<1>5. CASE ScanLeave
  BY <1>5, LeaveSimulated
<1>6. CASE ScanLeaf
  BY <1>6, LeafSimulated
<1>7. CASE ScanFailing
  BY <1>7, FailingSimulated
<1>8. CASE ScanTooMany
  BY <1>8, TooManySimulated
<1>9. CASE Assemble
  BY <1>9, AssembleSimulated
<1>10. CASE UNCHANGED vars
  BY <1>10, UntouchedSimulated
<1> QED BY <1>1, <1>2, <1>3, <1>4, <1>5, <1>6, <1>7, <1>8, <1>9, <1>10 DEF Next, Scan, Return

(* The two loops over raw buffers are a ListColumn, for every depth, leaf  *)
(* kind and input: rows appear one per item, in order, each with the       *)
(* item's own lists, nulls and values, and an error is only ever one that  *)
(* the items themselves justify.                                           *)
THEOREM ScanFillsColumn == Spec => ImplementsListColumn
<1>1. Init => Column!Init
  BY DEF Init, Column!Init, Status, RowsRead
<1> QED BY <1>1, StepSimulated, Accounts, PTL DEF Spec, ImplementsListColumn, Column!Spec
=============================================================================
