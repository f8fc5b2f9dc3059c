------------------------ MODULE ColumnReadingProofs ------------------------
(***************************************************************************)
(* Every column reads its path, for every field type and every value: the  *)
(* access chains, the projections out of tuples and the loops that are     *)
(* generated for a column come to the leaf that the wrappers as they are   *)
(* written lead to.                                                        *)
(*                                                                         *)
(* A chain is followed step by step: the expression so far is behind the   *)
(* wrappers it has passed, or None where one of their Options is absent,   *)
(* less the pointers it has still to take off. Normalising cuts the stack  *)
(* of a node at its lists, composing joins the last stretch of a tuple to  *)
(* the first of an element, and the meaning of a path is given stretch by  *)
(* stretch; so the loops, one for each stretch, come to the same places.   *)
(***************************************************************************)
EXTENDS ColumnReading, WrapperShapesProofs

-----------------------------------------------------------------------------
(* Recursion.                                                              *)

(* Induction on the naturals, for a set.                                   *)
LEMMA SetInduction ==
  ASSUME NEW S, 0 \in S, \A n \in Nat : n \in S => n + 1 \in S
  PROVE  Nat \subseteq S
<1> DEFINE T == Nat \ S
<1> SUFFICES ASSUME T # {} PROVE FALSE
  OBVIOUS
<1>1. T \subseteq Nat
  OBVIOUS
<1>2. PICK x \in T : \A y \in T : x <= y
  <2> HIDE DEF T
  <2> QED BY <1>1, LeastNatural
<1>3. x \in Nat /\ x # 0 /\ x - 1 \in Nat /\ (x - 1) + 1 = x /\ ~(x <= x - 1)
  BY <1>2
<1>4. x - 1 \in T
  BY <1>3
<1> QED BY <1>2, <1>3, <1>4

(* The states of the loop over a chain.                                    *)
IsChain(acc, base, chain, n) ==
  acc = [i \in 0 .. n |-> IF i = 0 THEN ChainStart(base) ELSE ChainStep(acc[i - 1], chain[i])]

(* The loop over a chain has its states.                                   *)
LEMMA ChainExists ==
  ASSUME NEW base, NEW chain, NEW n \in Nat
  PROVE  \E acc : IsChain(acc, base, chain, n)
<1> DEFINE T == {m \in Nat : \E acc : IsChain(acc, base, chain, m)}
<1>1. 0 \in T
  <2> DEFINE acc == [i \in 0 .. 0 |-> ChainStart(base)]
  <2>1. acc = [i \in 0 .. 0 |-> IF i = 0 THEN ChainStart(base) ELSE ChainStep(acc[i - 1], chain[i])]
    OBVIOUS
  <2> QED BY <2>1 DEF IsChain
<1>2. ASSUME NEW m \in Nat, m \in T PROVE m + 1 \in T
  <2>1. PICK acc : IsChain(acc, base, chain, m)
    BY <1>2
  <2> DEFINE g == [i \in 0 .. m + 1 |-> IF i = m + 1 THEN ChainStep(acc[m], chain[m + 1]) ELSE acc[i]]
  <2>2. ASSUME NEW i \in 0 .. m + 1
        PROVE  g[i] = IF i = 0 THEN ChainStart(base) ELSE ChainStep(g[i - 1], chain[i])
    <3>1. CASE i = m + 1
      BY <3>1
    <3>2. CASE i # m + 1
      <4>1. i \in 0 .. m /\ i # m + 1 /\ (i # 0 => i - 1 \in 0 .. m /\ i - 1 # m + 1)
        BY <3>2
      <4>2. acc[i] = IF i = 0 THEN ChainStart(base) ELSE ChainStep(acc[i - 1], chain[i])
        BY <2>1, <4>1 DEF IsChain
      <4>3. g[i] = acc[i] /\ (i # 0 => g[i - 1] = acc[i - 1])
        BY <4>1
      <4> QED BY <4>2, <4>3
    <3> QED BY <3>1, <3>2
  <2>3. g = [i \in 0 .. m + 1 |-> g[i]]
    OBVIOUS
  <2>4. IsChain(g, base, chain, m + 1)
    <3> HIDE DEF g
    <3> QED BY <2>2, <2>3 DEF IsChain
  <2> QED BY <2>4
<1>3. Nat \subseteq T
  <2> HIDE DEF T
  <2> QED BY <1>1, <1>2, SetInduction
<1> QED BY <1>3

(* The end of a chain is reached step by step.                             *)
LEMMA ChainEndIs ==
  ASSUME NEW base, NEW chain, Len(chain) \in Nat
  PROVE  \E acc : /\ acc[0] = ChainStart(base)
                  /\ \A i \in 1 .. Len(chain) : acc[i] = ChainStep(acc[i - 1], chain[i])
                  /\ ChainEnd(base, chain) = acc[Len(chain)]
<1>1. \E acc : IsChain(acc, base, chain, Len(chain))
  BY ChainExists
<1> DEFINE acc == CHOOSE acc : acc = [i \in 0 .. Len(chain) |->
                     IF i = 0 THEN ChainStart(base) ELSE ChainStep(acc[i - 1], chain[i])]
<1>2. acc = [i \in 0 .. Len(chain) |->
               IF i = 0 THEN ChainStart(base) ELSE ChainStep(acc[i - 1], chain[i])]
  BY <1>1 DEF IsChain
<1>3. ChainEnd(base, chain) = acc[Len(chain)]
  BY DEF ChainEnd
<1> HIDE DEF acc
<1>4. acc[0] = ChainStart(base) /\ \A i \in 1 .. Len(chain) : acc[i] = ChainStep(acc[i - 1], chain[i])
  BY <1>2
<1> QED BY <1>3, <1>4

(* The Options that are collapsed one after the other.                     *)
IsCollapse(c, base, n) ==
  c = [i \in 1 .. n |-> IF i = 1 THEN AsRef(base) ELSE AndThenAsRef(c[i - 1])]

(* Collapsing Options has its states.                                      *)
LEMMA CollapseExists ==
  ASSUME NEW base, NEW n \in Nat
  PROVE  \E c : IsCollapse(c, base, n)
<1> DEFINE T == {m \in Nat : \E c : IsCollapse(c, base, m)}
<1>1. 0 \in T
  <2> DEFINE c == [i \in 1 .. 0 |-> base]
  <2>1. c = [i \in 1 .. 0 |-> IF i = 1 THEN AsRef(base) ELSE AndThenAsRef(c[i - 1])]
    OBVIOUS
  <2> QED BY <2>1 DEF IsCollapse
<1>2. ASSUME NEW m \in Nat, m \in T PROVE m + 1 \in T
  <2>1. PICK c : IsCollapse(c, base, m)
    BY <1>2
  <2> DEFINE Next1 == IF m = 0 THEN AsRef(base) ELSE AndThenAsRef(c[m])
             g == [i \in 1 .. m + 1 |-> IF i = m + 1 THEN Next1 ELSE c[i]]
  <2>2. ASSUME NEW i \in 1 .. m + 1
        PROVE  g[i] = IF i = 1 THEN AsRef(base) ELSE AndThenAsRef(g[i - 1])
    <3>1. CASE i = m + 1
      BY <3>1
    <3>2. CASE i # m + 1
      <4>1. i \in 1 .. m /\ i # m + 1 /\ (i # 1 => i - 1 \in 1 .. m /\ i - 1 # m + 1)
        BY <3>2
      <4>2. c[i] = IF i = 1 THEN AsRef(base) ELSE AndThenAsRef(c[i - 1])
        BY <2>1, <4>1 DEF IsCollapse
      <4>3. g[i] = c[i] /\ (i # 1 => g[i - 1] = c[i - 1])
        BY <4>1
      <4> QED BY <4>2, <4>3
    <3> QED BY <3>1, <3>2
  <2>3. g = [i \in 1 .. m + 1 |-> g[i]]
    OBVIOUS
  <2>4. IsCollapse(g, base, m + 1)
    <3> HIDE DEF g
    <3> QED BY <2>2, <2>3 DEF IsCollapse
  <2> QED BY <2>4
<1>3. Nat \subseteq T
  <2> HIDE DEF T
  <2> QED BY <1>1, <1>2, SetInduction
<1> QED BY <1>3

(* Options are collapsed one after the other.                              *)
LEMMA CollapseIs ==
  ASSUME NEW base, NEW n \in Nat \ {0}
  PROVE  \E c : /\ c[1] = AsRef(base)
                /\ \A i \in 2 .. n : c[i] = AndThenAsRef(c[i - 1])
                /\ CollapseOptionsToRef(base, n) = c[n]
<1>1. \E c : IsCollapse(c, base, n)
  BY CollapseExists
<1> DEFINE c == CHOOSE c : c = [i \in 1 .. n |->
                     IF i = 1 THEN AsRef(base) ELSE AndThenAsRef(c[i - 1])]
<1>2. c = [i \in 1 .. n |-> IF i = 1 THEN AsRef(base) ELSE AndThenAsRef(c[i - 1])]
  BY <1>1 DEF IsCollapse
<1>3. CollapseOptionsToRef(base, n) = c[n]
  BY DEF CollapseOptionsToRef
<1> HIDE DEF c
<1>4. c[1] = AsRef(base) /\ \A i \in 2 .. n : c[i] = AndThenAsRef(c[i - 1])
  <2>1. 1 \in 1 .. n
    OBVIOUS
  <2>2. c[1] = AsRef(base)
    BY <1>2, <2>1
  <2>3. ASSUME NEW i \in 2 .. n PROVE c[i] = AndThenAsRef(c[i - 1])
    <3>1. i \in 1 .. n /\ i # 1
      OBVIOUS
    <3> QED BY <1>2, <3>1
  <2> QED BY <2>2, <2>3
<1> QED BY <1>3, <1>4

(* The states of the normalising loop.                                     *)
IsNorm(f, wrappers, n) ==
  f = [i \in 0 .. n |-> IF i = 0 THEN NormalStart ELSE NormalStep(f[i - 1], wrappers[i])]

(* The normalising loop has its states.                                    *)
LEMMA NormExists ==
  ASSUME NEW wrappers, NEW n \in Nat
  PROVE  \E f : IsNorm(f, wrappers, n)
<1> DEFINE T == {m \in Nat : \E f : IsNorm(f, wrappers, m)}
<1>1. 0 \in T
  <2> DEFINE f == [i \in 0 .. 0 |-> NormalStart]
  <2>1. f = [i \in 0 .. 0 |-> IF i = 0 THEN NormalStart ELSE NormalStep(f[i - 1], wrappers[i])]
    OBVIOUS
  <2> QED BY <2>1 DEF IsNorm
<1>2. ASSUME NEW m \in Nat, m \in T PROVE m + 1 \in T
  <2>1. PICK f : IsNorm(f, wrappers, m)
    BY <1>2
  <2> DEFINE g == [i \in 0 .. m + 1 |-> IF i = m + 1 THEN NormalStep(f[m], wrappers[m + 1]) ELSE f[i]]
  <2>2. ASSUME NEW i \in 0 .. m + 1
        PROVE  g[i] = IF i = 0 THEN NormalStart ELSE NormalStep(g[i - 1], wrappers[i])
    <3>1. CASE i = m + 1
      BY <3>1
    <3>2. CASE i # m + 1
      <4>1. i \in 0 .. m /\ i # m + 1 /\ (i # 0 => i - 1 \in 0 .. m /\ i - 1 # m + 1)
        BY <3>2
      <4>2. f[i] = IF i = 0 THEN NormalStart ELSE NormalStep(f[i - 1], wrappers[i])
        BY <2>1, <4>1 DEF IsNorm
      <4>3. g[i] = f[i] /\ (i # 0 => g[i - 1] = f[i - 1])
        BY <4>1
      <4> QED BY <4>2, <4>3
    <3> QED BY <3>1, <3>2
  <2>3. g = [i \in 0 .. m + 1 |-> g[i]]
    OBVIOUS
  <2>4. IsNorm(g, wrappers, m + 1)
    <3> HIDE DEF g
    <3> QED BY <2>2, <2>3 DEF IsNorm
  <2> QED BY <2>4
<1>3. Nat \subseteq T
  <2> HIDE DEF T
  <2> QED BY <1>1, <1>2, SetInduction
<1> QED BY <1>3

(* The normalised shape is reached wrapper by wrapper.                     *)
LEMMA NormIs ==
  ASSUME NEW wrappers, Len(wrappers) \in Nat
  PROVE  \E f : /\ f[0] = NormalStart
                /\ \A i \in 1 .. Len(wrappers) : f[i] = NormalStep(f[i - 1], wrappers[i])
                /\ Normalised(wrappers) = NormalEnd(f[Len(wrappers)])
<1>1. \E f : IsNorm(f, wrappers, Len(wrappers))
  BY NormExists
<1> DEFINE f == CHOOSE f : f = [i \in 0 .. Len(wrappers) |->
                     IF i = 0 THEN NormalStart ELSE NormalStep(f[i - 1], wrappers[i])]
<1>2. f = [i \in 0 .. Len(wrappers) |-> IF i = 0 THEN NormalStart ELSE NormalStep(f[i - 1], wrappers[i])]
  BY <1>1 DEF IsNorm
<1>3. Normalised(wrappers) = NormalEnd(f[Len(wrappers)])
  BY DEF Normalised
<1> HIDE DEF f
<1>4. f[0] = NormalStart
  <2>1. 0 \in 0 .. Len(wrappers)
    OBVIOUS
  <2> QED BY <1>2, <2>1
<1>5. ASSUME NEW i \in 1 .. Len(wrappers) PROVE f[i] = NormalStep(f[i - 1], wrappers[i])
  <2>1. i \in 0 .. Len(wrappers) /\ i # 0
    OBVIOUS
  <2> QED BY <1>2, <2>1
<1> QED BY <1>3, <1>4, <1>5

(* What an element of a tuple is, behind its pointers.                     *)
ElementStep(x, i, column) ==
  DerefTimes(Item(x, column.path[i]), column.outer[i + 1])

(* The tuples that a path goes through.                                    *)
IsTuples(f, x, column, n) ==
  f = [i \in 0 .. n |-> IF i = 0 THEN x ELSE ElementStep(f[i - 1], i, column)]

(* Going through tuples has its states.                                    *)
LEMMA TuplesExists ==
  ASSUME NEW x, NEW column, NEW n \in Nat
  PROVE  \E f : IsTuples(f, x, column, n)
<1> DEFINE T == {m \in Nat : \E f : IsTuples(f, x, column, m)}
<1>1. 0 \in T
  <2> DEFINE f == [i \in 0 .. 0 |-> x]
  <2>1. f = [i \in 0 .. 0 |-> IF i = 0 THEN x ELSE ElementStep(f[i - 1], i, column)]
    OBVIOUS
  <2> QED BY <2>1 DEF IsTuples
<1>2. ASSUME NEW m \in Nat, m \in T PROVE m + 1 \in T
  <2>1. PICK f : IsTuples(f, x, column, m)
    BY <1>2
  <2> DEFINE g == [i \in 0 .. m + 1 |-> IF i = m + 1 THEN ElementStep(f[m], m + 1, column) ELSE f[i]]
  <2>2. ASSUME NEW i \in 0 .. m + 1
        PROVE  g[i] = IF i = 0 THEN x ELSE ElementStep(g[i - 1], i, column)
    <3>1. CASE i = m + 1
      BY <3>1
    <3>2. CASE i # m + 1
      <4>1. i \in 0 .. m /\ i # m + 1 /\ (i # 0 => i - 1 \in 0 .. m /\ i - 1 # m + 1)
        BY <3>2
      <4>2. f[i] = IF i = 0 THEN x ELSE ElementStep(f[i - 1], i, column)
        BY <2>1, <4>1 DEF IsTuples
      <4>3. g[i] = f[i] /\ (i # 0 => g[i - 1] = f[i - 1])
        BY <4>1
      <4> QED BY <4>2, <4>3
    <3> QED BY <3>1, <3>2
  <2>3. g = [i \in 0 .. m + 1 |-> g[i]]
    OBVIOUS
  <2>4. IsTuples(g, x, column, m + 1)
    <3> HIDE DEF g
    <3> QED BY <2>2, <2>3 DEF IsTuples
  <2> QED BY <2>4
<1>3. Nat \subseteq T
  <2> HIDE DEF T
  <2> QED BY <1>1, <1>2, SetInduction
<1> QED BY <1>3

ThroughTuples(f, x, column) ==
  /\ f[0] = x
  /\ \A i \in 1 .. Len(column.path) : f[i] = ElementStep(f[i - 1], i, column)
  /\ TuplePath(x, column) = f[Len(column.path)]

(* The end of a path is reached tuple by tuple.                            *)
LEMMA TuplesIs ==
  ASSUME NEW x, NEW column, Len(column.path) \in Nat
  PROVE  \E f : ThroughTuples(f, x, column)
<1>1. \E f : IsTuples(f, x, column, Len(column.path))
  BY TuplesExists
<1> DEFINE f == CHOOSE f : f = [i \in 0 .. Len(column.path) |->
                     IF i = 0 THEN x ELSE ElementStep(f[i - 1], i, column)]
<1>2. f = [i \in 0 .. Len(column.path) |-> IF i = 0 THEN x ELSE ElementStep(f[i - 1], i, column)]
  BY <1>1 DEF IsTuples
<1>3. TuplePath(x, column) = f[Len(column.path)]
  BY DEF TuplePath, ElementStep
<1> HIDE DEF f
<1>4. f[0] = x
  <2>1. 0 \in 0 .. Len(column.path)
    OBVIOUS
  <2> QED BY <1>2, <2>1
<1>5. ASSUME NEW i \in 1 .. Len(column.path) PROVE f[i] = ElementStep(f[i - 1], i, column)
  <2>1. i \in 0 .. Len(column.path) /\ i # 0
    OBVIOUS
  <2> QED BY <1>2, <2>1
<1>6. ThroughTuples(f, x, column)
  BY <1>3, <1>4, <1>5 DEF ThroughTuples
<1> QED BY <1>6

(* One more loop.                                                          *)
Inner(outer, k, column) ==
  UNION {{Append(is, i) : i \in DOMAIN ReadLayer(outer[is], k, column).of} :
           is \in {is \in DOMAIN outer : Len(is) = k - 1 /\ ReadLayer(outer[is], k, column).t = "items"}}
ItemsStep(outer, k, column) ==
  [is \in DOMAIN outer \union Inner(outer, k, column) |->
     IF is \in DOMAIN outer THEN outer[is]
     ELSE LayerBind(ReadLayer(outer[SubSeq(is, 1, k - 1)], k, column).of[is[k]], k, column)]
ItemsStart(access) == [is \in {<<>>} |-> Ref(access)]

(* The items that the loops come to.                                       *)
IsLoops(f, access, column, n) ==
  f = [i \in 0 .. n |-> IF i = 0 THEN ItemsStart(access) ELSE ItemsStep(f[i - 1], i, column)]

(* Nested loops have their items.                                          *)
LEMMA LoopsExists ==
  ASSUME NEW access, NEW column, NEW n \in Nat
  PROVE  \E f : IsLoops(f, access, column, n)
<1> DEFINE T == {m \in Nat : \E f : IsLoops(f, access, column, m)}
<1>1. 0 \in T
  <2> DEFINE f == [i \in 0 .. 0 |-> ItemsStart(access)]
  <2>1. f = [i \in 0 .. 0 |-> IF i = 0 THEN ItemsStart(access) ELSE ItemsStep(f[i - 1], i, column)]
    OBVIOUS
  <2> QED BY <2>1 DEF IsLoops
<1>2. ASSUME NEW m \in Nat, m \in T PROVE m + 1 \in T
  <2>1. PICK f : IsLoops(f, access, column, m)
    BY <1>2
  <2> DEFINE g == [i \in 0 .. m + 1 |-> IF i = m + 1 THEN ItemsStep(f[m], m + 1, column) ELSE f[i]]
  <2>2. ASSUME NEW i \in 0 .. m + 1
        PROVE  g[i] = IF i = 0 THEN ItemsStart(access) ELSE ItemsStep(g[i - 1], i, column)
    <3>1. CASE i = m + 1
      BY <3>1
    <3>2. CASE i # m + 1
      <4>1. i \in 0 .. m /\ i # m + 1 /\ (i # 0 => i - 1 \in 0 .. m /\ i - 1 # m + 1)
        BY <3>2
      <4>2. f[i] = IF i = 0 THEN ItemsStart(access) ELSE ItemsStep(f[i - 1], i, column)
        BY <2>1, <4>1 DEF IsLoops
      <4>3. g[i] = f[i] /\ (i # 0 => g[i - 1] = f[i - 1])
        BY <4>1
      <4> QED BY <4>2, <4>3
    <3> QED BY <3>1, <3>2
  <2>3. g = [i \in 0 .. m + 1 |-> g[i]]
    OBVIOUS
  <2>4. IsLoops(g, access, column, m + 1)
    <3> HIDE DEF g
    <3> QED BY <2>2, <2>3 DEF IsLoops
  <2> QED BY <2>4
<1>3. Nat \subseteq T
  <2> HIDE DEF T
  <2> QED BY <1>1, <1>2, SetInduction
<1> QED BY <1>3

(* The items are come to loop by loop.                                     *)
LEMMA LoopsIs ==
  ASSUME NEW access, NEW column, Depth(column.shape) \in Nat
  PROVE  \E f : /\ f[0] = ItemsStart(access)
                /\ \A i \in 1 .. Depth(column.shape) : f[i] = ItemsStep(f[i - 1], i, column)
                /\ ReadItems(access, column) = f[Depth(column.shape)]
<1>1. \E f : IsLoops(f, access, column, Depth(column.shape))
  BY LoopsExists
<1> DEFINE f == CHOOSE f : f = [i \in 0 .. Depth(column.shape) |->
                     IF i = 0 THEN ItemsStart(access) ELSE ItemsStep(f[i - 1], i, column)]
<1>2. f = [i \in 0 .. Depth(column.shape) |-> IF i = 0 THEN ItemsStart(access) ELSE ItemsStep(f[i - 1], i, column)]
  BY <1>1 DEF IsLoops
<1>3. ReadItems(access, column) = f[Depth(column.shape)]
  BY DEF ReadItems, ItemsStep, ItemsStart, Inner
<1> HIDE DEF f
<1>4. f[0] = ItemsStart(access)
  <2>1. 0 \in 0 .. Depth(column.shape)
    OBVIOUS
  <2> QED BY <1>2, <2>1
<1>5. ASSUME NEW i \in 1 .. Depth(column.shape) PROVE f[i] = ItemsStep(f[i - 1], i, column)
  <2>1. i \in 0 .. Depth(column.shape) /\ i # 0
    OBVIOUS
  <2> QED BY <1>2, <2>1
<1> QED BY <1>3, <1>4, <1>5

-----------------------------------------------------------------------------
(* Expressions.                                                            *)

(* A place behind some references, and an Option that a method made.       *)
Refs(place, r)  == Expr("place", r, place)
Opt(absent, x)  == IF absent THEN None ELSE Expr("some", 0, x)

(* A place in a row, and the wrapper after the next n.                     *)
IsPlace(p) ==
  /\ p = Place(p.row, p.node, p.depth, p.at)
  /\ Node(p).spine \in Seq(RawWrappers)
  /\ p.depth \in 0 .. Len(Node(p).spine)
WrapperAt(p, n) == Node(p).spine[p.depth + n + 1]

(* With more wrappers off, a place is a place of the same node.            *)
LEMMA InsidePlace ==
  ASSUME NEW p, IsPlace(p), NEW n \in Nat, p.depth + n <= Len(Node(p).spine)
  PROVE  /\ IsPlace(Inside(p, n)) /\ Node(Inside(p, n)) = Node(p)
         /\ Inside(p, n) = Place(p.row, p.node, p.depth + n, p.at)
         /\ Inside(p, n).depth = p.depth + n
         /\ n = 0 => Inside(p, n) = p
<1>1. Inside(p, n) = Place(p.row, p.node, p.depth + n, p.at)
  BY DEF Inside, Place, IsPlace
<1>2. /\ Inside(p, n).row = p.row /\ Inside(p, n).node = p.node /\ Inside(p, n).depth = p.depth + n
      /\ Inside(p, n).at = p.at
  BY <1>1 DEF Place
<1>3. Node(Inside(p, n)) = Node(p)
  BY <1>2 DEF Node
<1>4. p.depth + n \in 0 .. Len(Node(p).spine) /\ (n = 0 => p.depth + n = p.depth)
  BY DEF IsPlace
<1>5. n = 0 => Inside(p, n) = p
  BY <1>1, <1>4 DEF IsPlace
<1>6. IsPlace(Inside(p, n))
  BY <1>1, <1>2, <1>3, <1>4 DEF IsPlace
<1> QED BY <1>1, <1>2, <1>3, <1>5, <1>6

(* Wrappers are taken off in one go or in two.                             *)
LEMMA InsideInside ==
  ASSUME NEW p, IsPlace(p), NEW n \in Nat, NEW m \in Nat, p.depth + n + m <= Len(Node(p).spine)
  PROVE  Inside(Inside(p, n), m) = Inside(p, n + m)
<1>1. /\ p.depth + n <= Len(Node(p).spine) /\ p.depth \in Nat /\ Len(Node(p).spine) \in Nat
      /\ p.depth + (n + m) = (p.depth + n) + m /\ n + m \in Nat
  BY DEF IsPlace
<1>2. /\ IsPlace(Inside(p, n)) /\ Node(Inside(p, n)) = Node(p)
      /\ Inside(p, n) = Place(p.row, p.node, p.depth + n, p.at)
  BY <1>1, InsidePlace
<1>3. Inside(p, n + m) = Place(p.row, p.node, p.depth + (n + m), p.at)
  BY <1>1, InsidePlace
<1>4. Inside(Inside(p, n), m) = Place(p.row, p.node, (p.depth + n) + m, p.at)
  <2> DEFINE q == Inside(p, n)
  <2>1. q.depth = p.depth + n /\ q.row = p.row /\ q.node = p.node /\ q.at = p.at
    BY <1>2 DEF Place
  <2>2. Inside(q, m) = Place(q.row, q.node, q.depth + m, q.at)
    <3> HIDE DEF q
    <3> QED BY <1>1, <1>2, <2>1, InsidePlace DEF q
  <2> QED BY <2>1, <2>2
<1> QED BY <1>1, <1>3, <1>4

(* What a place behind references is made of.                              *)
LEMMA RefsAre ==
  ASSUME NEW p, NEW r \in Nat
  PROVE  /\ At(p) = Refs(p, 0) /\ Ref(Refs(p, r)) = Refs(p, r + 1)
         /\ Ref(Refs(p, 0)) = Refs(p, 1)
         /\ Some(Refs(p, r)) = Opt(FALSE, Refs(p, r))
         /\ Refs(p, r).t = "place" /\ Refs(p, r).refs = r /\ Refs(p, r).of = p
         /\ Referent(Refs(p, r)) = Refs(p, 0)
BY DEF At, Refs, Expr, Ref, Some, Opt, Referent

(* Taking off references that are there.                                   *)
LEMMA DerefRefs ==
  ASSUME NEW p, NEW r \in Nat, NEW n \in 0 .. r
  PROVE  DerefTimes(Refs(p, r), n) = Refs(p, r - n)
BY DEF DerefTimes, Refs, Expr

(* Taking off all references and then pointers.                            *)
LEMMA DerefPointers ==
  ASSUME NEW p, NEW r \in Nat, NEW n \in Nat, r < n, IsWrapped(p, "SmartPtr", n - r)
  PROVE  DerefTimes(Refs(p, r), n) = Refs(Inside(p, n - r), 0)
<1>1. Refs(p, r).t = "place" /\ Refs(p, r).refs = r /\ Refs(p, r).of = p
  BY RefsAre
<1> HIDE DEF Refs
<1>2. n > r /\ ~(n <= r)
  OBVIOUS
<1>3. DerefTimes(Refs(p, r), n) = At(Inside(p, n - r))
  BY <1>1, <1>2 DEF DerefTimes
<1> QED BY <1>3, RefsAre

(* Taking off the pointers of a boundary from the reference to it.         *)
LEMMA DerefRefPlace ==
  ASSUME NEW p, IsPlace(p), NEW r \in Nat, NEW n \in Nat, IsWrapped(p, "SmartPtr", n), n > 0 => r = 1
  PROVE  DerefRef(Refs(p, r), n) = IF n = 0 THEN Refs(p, r) ELSE Refs(Inside(p, n), 1)
<1>1. CASE n = 0
  BY <1>1 DEF DerefRef
<1>2. CASE n # 0
  <2>1. n + 1 \in Nat /\ r < n + 1 /\ (n + 1) - r = n /\ r = 1
    BY <1>2
  <2>2. DerefTimes(Refs(p, r), n + 1) = Refs(Inside(p, n), 0)
    BY <2>1, DerefPointers
  <2> QED BY <1>2, <2>2, RefsAre DEF DerefRef
<1> QED BY <1>1, <1>2

(* Options of the row, and those that a method made.                       *)
LEMMA OpenedPlace ==
  ASSUME NEW p, IsWrapped(p, "Option", 1)
  PROVE  /\ Opened(Refs(p, 0)) = Opt(Count(p) = 0, Refs(Inside(p, 1), 0))
         /\ IsSome(Refs(p, 0)) <=> Count(p) # 0
         /\ IsNone(Refs(p, 0)) <=> Count(p) = 0
<1>1. Refs(p, 0).t = "place" /\ Refs(p, 0).refs = 0 /\ Refs(p, 0).of = p
  BY RefsAre
<1>2. Some(At(Inside(p, 1))) = Opt(FALSE, Refs(Inside(p, 1), 0))
  BY RefsAre
<1>3. Opened(Refs(p, 0)) = Opt(Count(p) = 0, Refs(Inside(p, 1), 0))
  BY <1>1, <1>2 DEF Opened, Opt
<1>4. Opened(Refs(p, 0)).t = IF Count(p) = 0 THEN "none" ELSE "some"
  BY <1>3 DEF Opt, None, Expr
<1> QED BY <1>1, <1>3, <1>4 DEF IsSome, IsNone

(* An Option that a method made is that Option.                            *)
LEMMA OpenedOpt ==
  ASSUME NEW absent \in BOOLEAN, NEW x
  PROVE  /\ Opened(Opt(absent, x)) = Opt(absent, x)
         /\ IsSome(Opt(absent, x)) <=> ~absent
         /\ IsNone(Opt(absent, x)) <=> absent
         /\ IsOption(Opt(absent, x))
         /\ ~absent => Opened(Opt(absent, x)).of = x
         /\ Opt(absent, x).refs = 0
<1>1. Opt(absent, x).t = (IF absent THEN "none" ELSE "some") /\ Opt(absent, x).refs = 0
      /\ (~absent => Opt(absent, x).of = x)
  BY DEF Opt, None, Expr
<1>2. Opened(Opt(absent, x)) = Opt(absent, x)
  BY <1>1 DEF Opened
<1> QED BY <1>1, <1>2 DEF IsSome, IsNone, IsOption

(* `as_ref` of a place that is an Option, however many references it is    *)
(* behind.                                                                 *)
LEMMA AsRefPlace ==
  ASSUME NEW p, NEW r \in Nat, IsWrapped(p, "Option", 1)
  PROVE  AsRef(Refs(p, r)) = Opt(Count(p) = 0, Refs(Inside(p, 1), 1))
<1>1. Referent(Refs(p, r)) = Refs(p, 0)
  BY RefsAre
<1>2. Count(p) # 0 => Opened(Refs(p, 0)).of = Refs(Inside(p, 1), 0)
  BY OpenedPlace DEF Opt, Expr
<1>3. Some(Ref(Refs(Inside(p, 1), 0))) = Opt(FALSE, Refs(Inside(p, 1), 1))
  <2>1. Ref(Refs(Inside(p, 1), 0)) = Refs(Inside(p, 1), 1) /\ 1 \in Nat
    BY RefsAre
  <2>2. Some(Refs(Inside(p, 1), 1)) = Opt(FALSE, Refs(Inside(p, 1), 1))
    BY <2>1, RefsAre
  <2> QED BY <2>1, <2>2
<1>4. CASE Count(p) = 0
  BY <1>1, <1>4, OpenedPlace DEF AsRef, Opt
<1>5. CASE Count(p) # 0
  <2>1. AsRef(Refs(p, r)) = Some(Ref(Refs(Inside(p, 1), 0)))
    BY <1>1, <1>2, <1>5, OpenedPlace DEF AsRef
  <2> QED BY <1>3, <1>5, <2>1 DEF Opt
<1> QED BY <1>4, <1>5

(* Methods on the Options that methods make.                               *)
LEMMA AndThenAsRefOpt ==
  ASSUME NEW absent \in BOOLEAN, NEW p, NEW r \in Nat, IsWrapped(p, "Option", 1)
  PROVE  AndThenAsRef(Opt(absent, Refs(p, r)))
           = Opt(absent \/ Count(p) = 0, Refs(Inside(p, 1), 1))
<1> DEFINE x == Opt(absent, Refs(p, r))
           y == Opt(Count(p) = 0, Refs(Inside(p, 1), 1))
<1>1. /\ IsSome(x) <=> ~absent
      /\ IsNone(x) <=> absent
      /\ ~absent => Opened(x).of = Refs(p, r)
  BY OpenedOpt
<1>2. AsRef(Refs(p, r)) = y /\ IsOption(y)
  BY AsRefPlace, OpenedOpt
<1> HIDE DEF x, y
<1>3. CASE absent
  <2>1. AndThenAsRef(x) = None
    BY <1>1, <1>3 DEF AndThenAsRef, AndThen
  <2> QED BY <1>3, <2>1 DEF Opt, x
<1>4. CASE ~absent
  <2>1. AndThenAsRef(x) = y
    BY <1>1, <1>2, <1>4 DEF AndThenAsRef, AndThen
  <2> QED BY <1>4, <2>1 DEF Opt, x, y
<1> QED BY <1>3, <1>4

(* The pointers that wait are taken off within the Option.                 *)
LEMMA ApplyPendingOpt ==
  ASSUME NEW absent \in BOOLEAN, NEW p, IsPlace(p), NEW r \in Nat, NEW n \in Nat,
         IsWrapped(p, "SmartPtr", n), n > 0 => r = 1
  PROVE  ApplyPending([expr |-> Opt(absent, Refs(p, r)), has_option |-> TRUE, pending |-> n])
           = Opt(absent, Refs(Inside(p, n), IF n = 0 THEN r ELSE 1))
<1> DEFINE x   == Opt(absent, Refs(p, r))
           acc == [expr |-> x, has_option |-> TRUE, pending |-> n]
<1>0. acc.expr = x /\ acc.has_option = TRUE /\ acc.pending = n
  OBVIOUS
<1>1. /\ IsSome(x) <=> ~absent
      /\ IsNone(x) <=> absent
      /\ ~absent => Opened(x).of = Refs(p, r)
  BY OpenedOpt
<1>2. DerefRef(Refs(p, r), n) = IF n = 0 THEN Refs(p, r) ELSE Refs(Inside(p, n), 1)
  BY DerefRefPlace
<1>6. n = 0 => Inside(p, n) = p
  BY InsidePlace DEF IsPlace
<1> HIDE DEF x, acc
<1>3. CASE n = 0
  <2>1. ApplyPending(acc) = x
    BY <1>0, <1>3 DEF ApplyPending, DerefRef
  <2> QED BY <1>3, <1>6, <2>1 DEF x, acc
<1>4. CASE n # 0 /\ absent
  <2>1. n > 0
    BY <1>4
  <2>2. ApplyPending(acc) = None
    BY <1>0, <1>1, <1>4, <2>1 DEF ApplyPending, Map
  <2> QED BY <1>4, <2>2 DEF x, acc, Opt
<1>5. CASE n # 0 /\ ~absent
  <2>1. n > 0
    BY <1>5
  <2>2. ApplyPending(acc) = Some(Refs(Inside(p, n), 1))
    BY <1>0, <1>1, <1>2, <1>5, <2>1 DEF ApplyPending, Map
  <2>3. ApplyPending(acc) = Opt(FALSE, Refs(Inside(p, n), 1))
    BY <2>2, RefsAre
  <2> QED BY <1>5, <2>3 DEF x, acc, Opt
<1> QED BY <1>3, <1>4, <1>5

-----------------------------------------------------------------------------
(* Following a chain.                                                      *)

(* The chain is what comes next around the place.                          *)
Segment(p, chain) ==
  /\ chain \in Seq(AccessSteps) /\ p.depth + Len(chain) <= Len(Node(p).spine)
  /\ \A i \in 1 .. Len(chain) : chain[i] = WrapperAt(p, i - 1)

(* One of the Options among the next n wrappers is absent.                 *)
Absent(p, n) == \E i \in 0 .. n - 1 : WrapperAt(p, i) = "Option" /\ Count(Inside(p, i)) = 0

(* The loop is past n wrappers and at least one Option, with m pointers to *)
(* take off; r is the number of references it started with.                *)
PassedWith(acc, p, n, gone, r, m) ==
  /\ IsWrapped(Inside(p, n - m), "SmartPtr", m)
  /\ acc = [expr       |-> Opt(gone \/ Absent(p, n), Refs(Inside(p, n - m), IF n = m THEN r ELSE 1)),
            has_option |-> TRUE,
            pending    |-> m]
Passed(acc, p, n, gone, r) == \E m \in 0 .. n : PassedWith(acc, p, n, gone, r, m)

(* A place behind several references comes only before an Option.          *)
FirstIsOption(p, n, r) == n > 0 /\ r # 1 => WrapperAt(p, 0) = "Option"

(* One more wrapper may be one more absent Option.                         *)
LEMMA AbsentNext ==
  ASSUME NEW p, NEW n \in Nat
  PROVE  /\ Absent(p, n + 1) <=> Absent(p, n) \/ (WrapperAt(p, n) = "Option" /\ Count(Inside(p, n)) = 0)
         /\ ~Absent(p, 0)
<1>1. 0 .. (n + 1) - 1 = (0 .. n - 1) \union {n}
  OBVIOUS
<1> QED BY <1>1 DEF Absent

(* One more wrapper is an Option to be opened, or one more pointer that    *)
(* waits.                                                                  *)
LEMMA WrappedNext ==
  ASSUME NEW p, IsPlace(p), NEW n \in Nat, NEW m \in 0 .. n,
         p.depth + n + 1 <= Len(Node(p).spine)
  PROVE  /\ WrapperAt(p, n) = "Option" /\ m = 0 => IsWrapped(Inside(p, n), "Option", 1)
         /\ WrapperAt(p, n) = "SmartPtr" /\ IsWrapped(Inside(p, n - m), "SmartPtr", m)
              => IsWrapped(Inside(p, n - m), "SmartPtr", m + 1)
<1>1. p.depth \in Nat /\ Len(Node(p).spine) \in Nat
  BY DEF IsPlace
<1>2. n - m \in Nat /\ p.depth + (n - m) <= Len(Node(p).spine) /\ p.depth + n <= Len(Node(p).spine)
  BY <1>1
<1>3. /\ Node(Inside(p, n - m)) = Node(p) /\ Inside(p, n - m).depth = p.depth + (n - m)
      /\ Node(Inside(p, n)) = Node(p) /\ Inside(p, n).depth = p.depth + n
  BY <1>2, InsidePlace
<1>4. ASSUME WrapperAt(p, n) = "Option" PROVE IsWrapped(Inside(p, n), "Option", 1)
  BY <1>1, <1>3, <1>4 DEF IsWrapped, WrapperAt
<1>5. ASSUME WrapperAt(p, n) = "SmartPtr", IsWrapped(Inside(p, n - m), "SmartPtr", m)
      PROVE  IsWrapped(Inside(p, n - m), "SmartPtr", m + 1)
  <2>1. (p.depth + (n - m)) + (m + 1) = p.depth + n + 1
    BY <1>1
  <2>2. ASSUME NEW i \in 1 .. m + 1 PROVE Node(p).spine[(p.depth + (n - m)) + i] = "SmartPtr"
    <3>1. CASE i = m + 1
      BY <1>5, <2>1, <3>1 DEF WrapperAt
    <3>2. CASE i # m + 1
      <4>1. i \in 1 .. m
        BY <3>2
      <4> QED BY <1>3, <1>5, <4>1 DEF IsWrapped
    <3> QED BY <3>1, <3>2
  <2> QED BY <1>3, <2>1, <2>2 DEF IsWrapped
<1> QED BY <1>4, <1>5

(* The next step of the loop over a chain that has had an Option.          *)
LEMMA PassedNext ==
  ASSUME NEW p, IsPlace(p), NEW n \in Nat, NEW gone \in BOOLEAN, NEW r \in Nat, NEW acc,
         p.depth + n + 1 <= Len(Node(p).spine), Passed(acc, p, n, gone, r),
         WrapperAt(p, n) \in AccessSteps, FirstIsOption(p, n + 1, r)
  PROVE  Passed(ChainStep(acc, WrapperAt(p, n)), p, n + 1, gone, r)
<1>1. PICK m \in 0 .. n : PassedWith(acc, p, n, gone, r, m)
  BY DEF Passed
<1>2. /\ acc.expr = Opt(gone \/ Absent(p, n), Refs(Inside(p, n - m), IF n = m THEN r ELSE 1))
      /\ acc.has_option = TRUE /\ acc.pending = m
      /\ acc = [expr |-> acc.expr, has_option |-> acc.has_option, pending |-> acc.pending]
      /\ IsWrapped(Inside(p, n - m), "SmartPtr", m)
  BY <1>1 DEF PassedWith
<1>3. /\ p.depth \in Nat /\ Len(Node(p).spine) \in Nat /\ n - m \in Nat
      /\ p.depth + (n - m) + m <= Len(Node(p).spine) /\ p.depth + (n - m) <= Len(Node(p).spine)
      /\ p.depth + n <= Len(Node(p).spine) /\ (n - m) + m = n
  BY DEF IsPlace
<1>4. CASE WrapperAt(p, n) = "SmartPtr"
  <2>1. ChainStep(acc, "SmartPtr") = [expr |-> acc.expr, has_option |-> TRUE, pending |-> m + 1]
    BY <1>2 DEF ChainStep
  <2>2. IsWrapped(Inside(p, (n + 1) - (m + 1)), "SmartPtr", m + 1)
    <3>1. (n + 1) - (m + 1) = n - m
      OBVIOUS
    <3> QED BY <1>2, <1>4, <3>1, WrappedNext
  <2>3. Absent(p, n + 1) <=> Absent(p, n)
    BY <1>4, AbsentNext
  <2>4. (n + 1) - (m + 1) = n - m /\ (n + 1 = m + 1 <=> n = m) /\ m + 1 \in 0 .. n + 1
    OBVIOUS
  <2>5. PassedWith(ChainStep(acc, "SmartPtr"), p, n + 1, gone, r, m + 1)
    BY <1>2, <2>1, <2>2, <2>3, <2>4, Zenon DEF PassedWith
  <2> QED BY <1>4, <2>4, <2>5 DEF Passed
<1>5. CASE WrapperAt(p, n) = "Option"
  <2> DEFINE q == Inside(p, n - m)
             s == IF n = m THEN r ELSE 1
             a == gone \/ Absent(p, n)
  <2>1. IsPlace(q) /\ Node(q) = Node(p)
    BY <1>3, InsidePlace
  <2>2. m > 0 => s = 1
    <3> SUFFICES ASSUME m > 0, n = m, r # 1 PROVE FALSE
      OBVIOUS
    <3>1. WrapperAt(p, 0) = "Option"
      BY DEF FirstIsOption
    <3>2. Inside(p, 0) = p /\ n - m = 0
      BY <1>3, InsidePlace
    <3>3. IsWrapped(p, "SmartPtr", m) /\ 1 \in 1 .. m /\ p.depth + 0 + 1 = p.depth + 1
      BY <1>2, <1>3, <3>2
    <3>4. WrapperAt(p, 0) = "SmartPtr"
      BY <3>3 DEF IsWrapped, WrapperAt
    <3> QED BY <3>1, <3>4
  <2>3. a \in BOOLEAN /\ s \in Nat /\ acc = [expr |-> Opt(a, Refs(q, s)), has_option |-> TRUE, pending |-> m]
    BY <1>2
  <2>4. ApplyPending(acc) = Opt(a, Refs(Inside(q, m), IF m = 0 THEN s ELSE 1))
    <3> HIDE DEF q, s, a
    <3>1. IsWrapped(q, "SmartPtr", m)
      BY <1>2 DEF q
    <3> QED BY <2>1, <2>2, <2>3, <3>1, ApplyPendingOpt
  <2>5. Inside(q, m) = Inside(p, n) /\ IsWrapped(Inside(p, n), "Option", 1)
    <3>1. Inside(q, m) = Inside(p, (n - m) + m)
      BY <1>3, InsideInside
    <3>2. IsWrapped(Inside(p, n), "Option", 1)
      BY <1>5, WrappedNext
    <3> QED BY <1>3, <3>1, <3>2
  <2>6. AndThenAsRef(ApplyPending(acc))
          = Opt(a \/ Count(Inside(p, n)) = 0, Refs(Inside(Inside(p, n), 1), 1))
    <3> DEFINE s2 == IF m = 0 THEN s ELSE 1
    <3>1. s2 \in Nat
      BY <2>3
    <3>2. ApplyPending(acc) = Opt(a, Refs(Inside(p, n), s2))
      BY <2>4, <2>5
    <3> HIDE DEF a, s2
    <3> QED BY <2>3, <2>5, <3>1, <3>2, AndThenAsRefOpt
  <2>7. Inside(Inside(p, n), 1) = Inside(p, n + 1)
    BY <1>3, InsideInside
  <2>8. a \/ Count(Inside(p, n)) = 0 <=> gone \/ Absent(p, n + 1)
    BY <1>5, AbsentNext
  <2>9. ChainStep(acc, "Option")
          = [expr |-> Opt(gone \/ Absent(p, n + 1), Refs(Inside(p, n + 1), 1)),
             has_option |-> TRUE, pending |-> 0]
    <3>1. ChainStep(acc, "Option") = [expr |-> AndThenAsRef(ApplyPending(acc)), has_option |-> TRUE, pending |-> 0]
      BY <1>2 DEF ChainStep
    <3>2. (a \/ Count(Inside(p, n)) = 0) = (gone \/ Absent(p, n + 1))
      BY <2>8
    <3> QED BY <2>6, <2>7, <3>1, <3>2
  <2>10. PassedWith(ChainStep(acc, "Option"), p, n + 1, gone, r, 0)
    <3>1. (n + 1) - 0 = n + 1 /\ n + 1 # 0
      OBVIOUS
    <3>2. IsWrapped(Inside(p, n + 1), "SmartPtr", 0)
      <4>1. Inside(p, n + 1).depth = p.depth + (n + 1) /\ Node(Inside(p, n + 1)) = Node(p)
        BY <1>3, InsidePlace
      <4> QED BY <1>3, <4>1 DEF IsWrapped
    <3> QED BY <2>9, <3>1, <3>2, Zenon DEF PassedWith
  <2> QED BY <1>5, <2>10 DEF Passed
<1> QED BY <1>4, <1>5 DEF AccessSteps

(* The whole of the loop, from an Option that a method made.               *)
LEMMA PassedEnd ==
  ASSUME NEW p, IsPlace(p), NEW n \in Nat, NEW gone \in BOOLEAN, NEW r \in Nat, NEW acc,
         p.depth + n <= Len(Node(p).spine), Passed(acc, p, n, gone, r), FirstIsOption(p, n, r)
  PROVE  ApplyPending(acc) = Opt(gone \/ Absent(p, n), Refs(Inside(p, n), IF n = 0 THEN r ELSE 1))
<1>1. PICK m \in 0 .. n : PassedWith(acc, p, n, gone, r, m)
  BY DEF Passed
<1> DEFINE q == Inside(p, n - m)
           s == IF n = m THEN r ELSE 1
           a == gone \/ Absent(p, n)
<1>2. acc = [expr |-> Opt(a, Refs(q, s)), has_option |-> TRUE, pending |-> m] /\ IsWrapped(q, "SmartPtr", m)
  BY <1>1 DEF PassedWith
<1>3. /\ p.depth \in Nat /\ Len(Node(p).spine) \in Nat /\ n - m \in Nat
      /\ p.depth + (n - m) + m <= Len(Node(p).spine) /\ p.depth + (n - m) <= Len(Node(p).spine)
      /\ (n - m) + m = n
  BY DEF IsPlace
<1>4. IsPlace(q) /\ Node(q) = Node(p) /\ Inside(q, m) = Inside(p, n)
  BY <1>3, InsidePlace, InsideInside
<1>5. m > 0 => s = 1
  <2> SUFFICES ASSUME m > 0, n = m, r # 1 PROVE FALSE
    OBVIOUS
  <2>1. WrapperAt(p, 0) = "Option"
    BY DEF FirstIsOption
  <2>2. Inside(p, 0) = p /\ n - m = 0
    BY <1>3, InsidePlace
  <2>3. IsWrapped(p, "SmartPtr", m) /\ 1 \in 1 .. m /\ p.depth + 0 + 1 = p.depth + 1
    BY <1>2, <1>3, <2>2
  <2>4. WrapperAt(p, 0) = "SmartPtr"
    BY <2>3 DEF IsWrapped, WrapperAt
  <2> QED BY <2>1, <2>4
<1>6. a \in BOOLEAN /\ s \in Nat
  OBVIOUS
<1>7. ApplyPending(acc) = Opt(a, Refs(Inside(q, m), IF m = 0 THEN s ELSE 1))
  <2> HIDE DEF q, s, a
  <2> QED BY <1>2, <1>4, <1>5, <1>6, ApplyPendingOpt
<1>8. (IF m = 0 THEN s ELSE 1) = (IF n = 0 THEN r ELSE 1)
  BY <1>5
<1> QED BY <1>4, <1>7, <1>8

(* An Option that a method made is where a chain starts.                   *)
LEMMA PassedStart ==
  ASSUME NEW p, IsPlace(p), NEW gone \in BOOLEAN, NEW r \in Nat
  PROVE  Passed([expr |-> Opt(gone, Refs(p, r)), has_option |-> TRUE, pending |-> 0], p, 0, gone, r)
<1>1. /\ Inside(p, 0 - 0) = p /\ p.depth \in Nat /\ p.depth + 0 <= Len(Node(p).spine)
  BY InsidePlace DEF IsPlace
<1>2. IsWrapped(p, "SmartPtr", 0) /\ ~Absent(p, 0)
  BY <1>1, AbsentNext DEF IsWrapped
<1>3. (gone \/ Absent(p, 0)) = gone
  BY <1>2
<1>4. PassedWith([expr |-> Opt(gone, Refs(p, r)), has_option |-> TRUE, pending |-> 0], p, 0, gone, r, 0)
  BY <1>1, <1>2, <1>3, Zenon DEF PassedWith
<1> QED BY <1>4 DEF Passed

(* The loop over a chain, once it has had an Option.                       *)
LEMMA PassedAll ==
  ASSUME NEW p, IsPlace(p), NEW chain, Segment(p, chain), NEW gone \in BOOLEAN, NEW r \in Nat, NEW k \in Nat,
         k <= Len(chain), FirstIsOption(p, Len(chain), r),
         NEW f, Passed(f[k], p, k, gone, r),
         \A i \in k + 1 .. Len(chain) : f[i] = ChainStep(f[i - 1], chain[i])
  PROVE  Passed(f[Len(chain)], p, Len(chain), gone, r)
<1> DEFINE T == {j \in Nat : k + j <= Len(chain) => Passed(f[k + j], p, k + j, gone, r)}
<1>0. Len(chain) \in Nat /\ p.depth \in Nat /\ Len(Node(p).spine) \in Nat
      /\ p.depth + Len(chain) <= Len(Node(p).spine)
      /\ \A i \in 1 .. Len(chain) : chain[i] = WrapperAt(p, i - 1) /\ chain[i] \in AccessSteps
  BY DEF Segment, IsPlace
<1>1. 0 \in T
  OBVIOUS
<1>2. ASSUME NEW j \in Nat, j \in T PROVE j + 1 \in T
  <2> SUFFICES ASSUME k + (j + 1) <= Len(chain) PROVE Passed(f[k + (j + 1)], p, k + (j + 1), gone, r)
    OBVIOUS
  <2> DEFINE n == k + j
  <2>1. /\ n \in Nat /\ n + 1 = k + (j + 1) /\ n + 1 \in k + 1 .. Len(chain) /\ (n + 1) - 1 = n
        /\ n + 1 \in 1 .. Len(chain) /\ n <= Len(chain) /\ p.depth + n + 1 <= Len(Node(p).spine)
        /\ 0 < n + 1 /\ 0 < Len(chain)
    BY <1>0
  <2>2. Passed(f[n], p, n, gone, r)
    BY <1>2, <2>1
  <2>3. f[n + 1] = ChainStep(f[n], WrapperAt(p, n)) /\ WrapperAt(p, n) \in AccessSteps
    <3>1. f[n + 1] = ChainStep(f[(n + 1) - 1], chain[n + 1]) /\ chain[n + 1] = WrapperAt(p, (n + 1) - 1)
          /\ chain[n + 1] \in AccessSteps
      BY <1>0, <2>1
    <3> QED BY <2>1, <3>1
  <2>4. FirstIsOption(p, n + 1, r)
    BY <2>1 DEF FirstIsOption
  <2> HIDE DEF n
  <2>5. Passed(ChainStep(f[n], WrapperAt(p, n)), p, n + 1, gone, r)
    BY <2>1, <2>2, <2>3, <2>4, PassedNext
  <2> QED BY <2>1, <2>3, <2>5
<1>3. Nat \subseteq T
  <2> HIDE DEF T
  <2> QED BY <1>1, <1>2, SetInduction
<1>4. Len(chain) - k \in T /\ k + (Len(chain) - k) = Len(chain)
  BY <1>0, <1>3
<1> QED BY <1>4

(* The items of two sequences, one after the other.                        *)
LEMMA Concatenation ==
  ASSUME NEW S, NEW a \in Seq(S), NEW b \in Seq(S)
  PROVE  /\ a \o b \in Seq(S) /\ Len(a \o b) = Len(a) + Len(b)
         /\ \A i \in 1 .. Len(a) + Len(b) : (a \o b)[i] = IF i <= Len(a) THEN a[i] ELSE b[i - Len(a)]
OBVIOUS

(* A chain with an Option in front.                                        *)
Prepended(long, chain) ==
  /\ long \in Seq(AccessSteps) /\ Len(long) = Len(chain) + 1 /\ long[1] = "Option"
  /\ \A i \in 1 .. Len(chain) : long[i + 1] = chain[i]

(* What an Option in front makes of a chain.                               *)
LEMMA PrependIs ==
  ASSUME NEW chain \in Seq(AccessSteps)
  PROVE  Prepended(PrependOption(chain), chain)
<1>1. PICK o, n : o = <<"Option">> /\ n = Len(chain)
  OBVIOUS
<1>2. o \in Seq(AccessSteps) /\ Len(o) = 1 /\ o[1] = "Option" /\ n \in Nat
  BY <1>1 DEF AccessSteps
<1>3. PICK long : long = o \o chain
  OBVIOUS
<1>4. /\ long \in Seq(AccessSteps) /\ Len(long) = 1 + n
      /\ \A i \in 1 .. 1 + n : long[i] = IF i <= 1 THEN o[i] ELSE chain[i - 1]
  BY <1>1, <1>2, <1>3, Concatenation
<1>5. long[1] = "Option"
  <2>1. 1 \in 1 .. 1 + n /\ 1 <= 1
    BY <1>2
  <2> QED BY <1>2, <1>4, <2>1
<1>6. ASSUME NEW i \in 1 .. n PROVE long[i + 1] = chain[i]
  <2>1. i + 1 \in 1 .. 1 + n /\ ~(i + 1 <= 1) /\ (i + 1) - 1 = i
    BY <1>2
  <2> QED BY <1>4, <2>1
<1>7. 1 + n = n + 1
  BY <1>2
<1>8. long = PrependOption(chain)
  BY <1>1, <1>3 DEF PrependOption
<1> QED BY <1>1, <1>4, <1>5, <1>6, <1>7, <1>8 DEF Prepended

(* From an Option that a method made, over a chain that an Option begins.  *)
OptPassed(base, p, chain, gone, r) ==
  /\ ApplyPending(ChainEnd(base, PrependOption(chain)))
       = Opt(gone \/ Absent(p, Len(chain)),
             Refs(Inside(p, Len(chain)), IF chain = <<>> THEN r ELSE 1))
  /\ ChainEnd(base, PrependOption(chain)).has_option = TRUE

(* A chain with an Option in front opens the Option it starts from and     *)
(* then goes on.                                                           *)
LEMMA ChainFromOpt ==
  ASSUME NEW p, IsPlace(p), NEW chain, Segment(p, chain), NEW gone \in BOOLEAN, NEW r \in Nat,
         NEW base, AsRef(base) = Opt(gone, Refs(p, r)), FirstIsOption(p, Len(chain), r)
  PROVE  OptPassed(base, p, chain, gone, r)
<1> DEFINE n    == Len(chain)
           long == PrependOption(chain)
<1>1. /\ n \in Nat /\ chain \in Seq(AccessSteps) /\ p.depth + n <= Len(Node(p).spine)
      /\ p.depth \in Nat /\ Len(Node(p).spine) \in Nat
  BY DEF Segment, IsPlace
<1>2. /\ long \in Seq(AccessSteps) /\ Len(long) = n + 1 /\ long[1] = "Option"
      /\ \A i \in 1 .. n : long[i + 1] = chain[i]
  BY <1>1, PrependIs DEF Prepended
<1> HIDE DEF long
<1>3. PICK f : /\ f[0] = ChainStart(base)
               /\ \A i \in 1 .. Len(long) : f[i] = ChainStep(f[i - 1], long[i])
               /\ ChainEnd(base, long) = f[Len(long)]
  <2>1. Len(long) \in Nat
    BY <1>1, <1>2
  <2> QED BY <2>1, ChainEndIs
<1>4. f[1] = [expr |-> Opt(gone, Refs(p, r)), has_option |-> TRUE, pending |-> 0]
  <2>1. 1 \in 1 .. Len(long) /\ 1 - 1 = 0
    BY <1>1, <1>2
  <2>2. f[1] = ChainStep(ChainStart(base), "Option")
    BY <1>2, <1>3, <2>1
  <2>3. ApplyPending(ChainStart(base)) = base
    BY DEF ApplyPending, ChainStart, DerefRef
  <2>4. ChainStep(ChainStart(base), "Option") = [expr |-> AsRef(base), has_option |-> TRUE, pending |-> 0]
    <3>1. ChainStart(base).has_option = FALSE
      BY DEF ChainStart
    <3> QED BY <2>3, <3>1 DEF ChainStep
  <2> QED BY <2>2, <2>4
<1> DEFINE g == [i \in 0 .. n |-> f[i + 1]]
<1>5. /\ g[0] = [expr |-> Opt(gone, Refs(p, r)), has_option |-> TRUE, pending |-> 0]
      /\ g[n] = ChainEnd(base, long)
      /\ \A i \in 0 + 1 .. n : g[i] = ChainStep(g[i - 1], chain[i])
  <2>1. g[0] = f[1] /\ g[n] = f[n + 1]
    BY <1>1
  <2>2. ASSUME NEW i \in 1 .. n PROVE g[i] = ChainStep(g[i - 1], chain[i])
    <3>1. i + 1 \in 1 .. Len(long) /\ (i + 1) - 1 = i /\ i \in 0 .. n /\ i - 1 \in 0 .. n /\ (i - 1) + 1 = i
      BY <1>1, <1>2
    <3>2. f[i + 1] = ChainStep(f[i], long[i + 1])
      BY <1>3, <3>1
    <3> QED BY <1>2, <3>1, <3>2
  <2> QED BY <1>2, <1>3, <1>4, <2>1, <2>2
<1> HIDE DEF g
<1>6. Passed(g[0], p, 0, gone, r)
  BY <1>5, PassedStart
<1>7. Passed(g[n], p, n, gone, r)
  <2>1. 0 \in Nat /\ 0 <= n
    BY <1>1
  <2> QED BY <1>5, <1>6, <2>1, PassedAll
<1>8. ApplyPending(g[n]) = Opt(gone \/ Absent(p, n), Refs(Inside(p, n), IF n = 0 THEN r ELSE 1))
  BY <1>1, <1>7, PassedEnd
<1>9. n = 0 <=> chain = <<>>
  BY <1>1
<1>10. g[n].has_option = TRUE
  BY <1>7 DEF Passed, PassedWith
<1> QED BY <1>5, <1>8, <1>9, <1>10 DEF long, OptPassed


(* From a reference to a place, over the chain that comes next.            *)
Started(acc, base, p, k, chain, r) ==
  IF \E i \in 1 .. k : chain[i] = "Option" THEN Passed(acc, p, k, FALSE, r)
  ELSE acc = [expr |-> base, has_option |-> FALSE, pending |-> k]

(* Up to its first Option, a chain has only pointers.                      *)
LEMMA PointersOnly ==
  ASSUME NEW p, IsPlace(p), NEW chain, Segment(p, chain), NEW k \in 0 .. Len(chain),
         ~\E i \in 1 .. k : chain[i] = "Option"
  PROVE  IsWrapped(p, "SmartPtr", k) /\ ~Absent(p, k)
<1>1. /\ p.depth \in Nat /\ Len(Node(p).spine) \in Nat /\ Len(chain) \in Nat
      /\ p.depth + Len(chain) <= Len(Node(p).spine)
      /\ \A i \in 1 .. Len(chain) : chain[i] = WrapperAt(p, i - 1) /\ chain[i] \in AccessSteps
  BY DEF Segment, IsPlace
<1>2. ASSUME NEW i \in 1 .. k PROVE WrapperAt(p, i - 1) = "SmartPtr"
  <2>1. i \in 1 .. Len(chain)
    BY <1>1
  <2>2. chain[i] \in AccessSteps /\ chain[i] # "Option" /\ chain[i] = WrapperAt(p, i - 1)
    BY <1>1, <2>1
  <2> QED BY <2>2 DEF AccessSteps
<1>3. ASSUME NEW i \in 1 .. k PROVE Node(p).spine[p.depth + i] = "SmartPtr"
  <2>1. p.depth + (i - 1) + 1 = p.depth + i
    BY <1>1
  <2> QED BY <1>2, <2>1 DEF WrapperAt
<1>4. ASSUME NEW i \in 0 .. k - 1 PROVE WrapperAt(p, i) # "Option"
  <2>1. i + 1 \in 1 .. k /\ (i + 1) - 1 = i
    OBVIOUS
  <2> QED BY <1>2, <2>1
<1>5. IsWrapped(p, "SmartPtr", k)
  BY <1>1, <1>3 DEF IsWrapped
<1>6. ~Absent(p, k)
  BY <1>4 DEF Absent
<1> QED BY <1>5, <1>6

(* The next step of the loop over a chain, with an Option before or        *)
(* without.                                                                *)
LEMMA StartedNext ==
  ASSUME NEW p, IsPlace(p), NEW chain, Segment(p, chain), NEW r \in Nat, FirstIsOption(p, Len(chain), r),
         NEW k \in Nat, k + 1 <= Len(chain), NEW acc, Started(acc, Refs(p, r), p, k, chain, r)
  PROVE  Started(ChainStep(acc, chain[k + 1]), Refs(p, r), p, k + 1, chain, r)
<1>1. /\ p.depth \in Nat /\ Len(Node(p).spine) \in Nat /\ Len(chain) \in Nat
      /\ p.depth + Len(chain) <= Len(Node(p).spine)
      /\ p.depth + k <= Len(Node(p).spine) /\ p.depth + k + 1 <= Len(Node(p).spine)
      /\ chain[k + 1] = WrapperAt(p, k) /\ chain[k + 1] \in AccessSteps /\ k \in 0 .. Len(chain)
  <2>1. k + 1 \in 1 .. Len(chain) /\ (k + 1) - 1 = k /\ Len(chain) \in Nat
    BY DEF Segment
  <2> QED BY <2>1 DEF Segment, IsPlace
<1>2. (\E i \in 1 .. k + 1 : chain[i] = "Option") <=> (\E i \in 1 .. k : chain[i] = "Option") \/ chain[k + 1] = "Option"
  <2>1. 1 .. k + 1 = (1 .. k) \union {k + 1}
    OBVIOUS
  <2> QED BY <2>1
<1>3. CASE \E i \in 1 .. k : chain[i] = "Option"
  <2>1. Passed(acc, p, k, FALSE, r)
    BY <1>3 DEF Started
  <2>2. FirstIsOption(p, k + 1, r)
    BY <1>1 DEF FirstIsOption
  <2>3. Passed(ChainStep(acc, WrapperAt(p, k)), p, k + 1, FALSE, r)
    BY <1>1, <2>1, <2>2, PassedNext
  <2> QED BY <1>1, <1>2, <1>3, <2>3 DEF Started
<1>4. CASE ~\E i \in 1 .. k : chain[i] = "Option"
  <2>1. acc = [expr |-> Refs(p, r), has_option |-> FALSE, pending |-> k]
    BY <1>4 DEF Started
  <2>2. CASE chain[k + 1] = "SmartPtr"
    <3>1. ChainStep(acc, "SmartPtr") = [expr |-> Refs(p, r), has_option |-> FALSE, pending |-> k + 1]
      BY <2>1 DEF ChainStep
    <3> QED BY <1>2, <1>4, <2>2, <3>1 DEF Started
  <2>3. CASE chain[k + 1] = "Option"
    <3>1. IsWrapped(p, "SmartPtr", k) /\ ~Absent(p, k)
      BY <1>1, <1>4, PointersOnly
    <3>2. k > 0 => r = 1
      <4> SUFFICES ASSUME k > 0, r # 1 PROVE FALSE
        OBVIOUS
      <4>1. WrapperAt(p, 0) = "Option"
        BY <1>1 DEF FirstIsOption
      <4>2. 1 \in 1 .. k /\ p.depth + 0 + 1 = p.depth + 1
        BY <1>1
      <4> QED BY <3>1, <4>1, <4>2 DEF IsWrapped, WrapperAt
    <3>3. ApplyPending(acc) = DerefRef(Refs(p, r), k)
      BY <2>1 DEF ApplyPending
    <3>4. DerefRef(Refs(p, r), k) = Refs(Inside(p, k), IF k = 0 THEN r ELSE 1)
      <4>1. DerefRef(Refs(p, r), k) = IF k = 0 THEN Refs(p, r) ELSE Refs(Inside(p, k), 1)
        BY <3>1, <3>2, DerefRefPlace
      <4>2. k = 0 => Inside(p, k) = p
        BY <1>1, InsidePlace
      <4> QED BY <4>1, <4>2
    <3>5. IsWrapped(Inside(p, k), "Option", 1)
      <4>1. WrapperAt(p, k) = "Option" /\ 0 \in 0 .. k
        BY <1>1, <2>3
      <4> QED BY <1>1, <4>1, WrappedNext
    <3>6. AsRef(ApplyPending(acc)) = Opt(Count(Inside(p, k)) = 0, Refs(Inside(Inside(p, k), 1), 1))
      <4> DEFINE s == IF k = 0 THEN r ELSE 1
      <4>1. s \in Nat /\ ApplyPending(acc) = Refs(Inside(p, k), s)
        BY <3>3, <3>4
      <4> HIDE DEF s
      <4> QED BY <3>5, <4>1, AsRefPlace
    <3>7. Inside(Inside(p, k), 1) = Inside(p, k + 1)
      BY <1>1, InsideInside
    <3>8. (FALSE \/ Absent(p, k + 1)) = (Count(Inside(p, k)) = 0)
      BY <1>1, <2>3, <3>1, AbsentNext
    <3>9. ChainStep(acc, "Option")
            = [expr |-> Opt(FALSE \/ Absent(p, k + 1), Refs(Inside(p, k + 1), 1)),
               has_option |-> TRUE, pending |-> 0]
      <4>1. ChainStep(acc, "Option") = [expr |-> AsRef(ApplyPending(acc)), has_option |-> TRUE, pending |-> 0]
        BY <2>1 DEF ChainStep
      <4> QED BY <3>6, <3>7, <3>8, <4>1
    <3>10. PassedWith(ChainStep(acc, "Option"), p, k + 1, FALSE, r, 0)
      <4>1. (k + 1) - 0 = k + 1 /\ k + 1 # 0
        OBVIOUS
      <4>2. IsWrapped(Inside(p, k + 1), "SmartPtr", 0)
        <5>1. Inside(p, k + 1).depth = p.depth + (k + 1) /\ Node(Inside(p, k + 1)) = Node(p)
          BY <1>1, InsidePlace
        <5> QED BY <1>1, <5>1 DEF IsWrapped
      <4> QED BY <3>9, <4>1, <4>2, Zenon DEF PassedWith
    <3>11. 0 \in 0 .. k + 1
      OBVIOUS
    <3> QED BY <1>2, <2>3, <3>10, <3>11 DEF Passed, Started
  <2> QED BY <1>1, <2>2, <2>3 DEF AccessSteps
<1> QED BY <1>3, <1>4

(* The loop over the chain that comes next is past all of it at the end.   *)
LEMMA ChainFromPlace ==
  ASSUME NEW p, IsPlace(p), NEW chain, Segment(p, chain), NEW r \in Nat, FirstIsOption(p, Len(chain), r)
  PROVE  /\ ChainEnd(Refs(p, r), chain).has_option = HasOption(chain)
         /\ HasOption(chain) =>
              ApplyPending(ChainEnd(Refs(p, r), chain))
                = Opt(Absent(p, Len(chain)), Refs(Inside(p, Len(chain)), 1))
         /\ ~HasOption(chain) =>
              /\ ApplyPending(ChainEnd(Refs(p, r), chain))
                   = IF chain = <<>> THEN Refs(p, r) ELSE Refs(Inside(p, Len(chain)), 1)
              /\ ~Absent(p, Len(chain))
<1> DEFINE n == Len(chain)
<1>1. /\ n \in Nat /\ chain \in Seq(AccessSteps) /\ p.depth + n <= Len(Node(p).spine)
      /\ p.depth \in Nat /\ Len(Node(p).spine) \in Nat /\ DOMAIN chain = 1 .. n
  BY DEF Segment, IsPlace
<1>2. PICK f : /\ f[0] = ChainStart(Refs(p, r))
               /\ \A i \in 1 .. n : f[i] = ChainStep(f[i - 1], chain[i])
               /\ ChainEnd(Refs(p, r), chain) = f[n]
  BY <1>1, ChainEndIs
<1> DEFINE T == {k \in Nat : k <= n => Started(f[k], Refs(p, r), p, k, chain, r)}
<1>3. 0 \in T
  <2>1. ~\E i \in 1 .. 0 : chain[i] = "Option"
    OBVIOUS
  <2> QED BY <1>2, <2>1 DEF Started, ChainStart
<1>4. ASSUME NEW k \in Nat, k \in T PROVE k + 1 \in T
  <2> SUFFICES ASSUME k + 1 <= n PROVE Started(f[k + 1], Refs(p, r), p, k + 1, chain, r)
    OBVIOUS
  <2>1. k + 1 \in 1 .. n /\ (k + 1) - 1 = k /\ k <= n
    BY <1>1
  <2>2. Started(f[k], Refs(p, r), p, k, chain, r) /\ f[k + 1] = ChainStep(f[k], chain[k + 1])
    BY <1>2, <1>4, <2>1
  <2> QED BY <2>1, <2>2, StartedNext
<1>5. Nat \subseteq T
  <2> HIDE DEF T
  <2> QED BY <1>3, <1>4, SetInduction
<1>6. Started(f[n], Refs(p, r), p, n, chain, r)
  BY <1>1, <1>5
<1>7. HasOption(chain) <=> \E i \in 1 .. n : chain[i] = "Option"
  BY <1>1 DEF HasOption
<1>8. n = 0 <=> chain = <<>>
  BY <1>1
<1>9. CASE HasOption(chain)
  <2>1. Passed(f[n], p, n, FALSE, r)
    BY <1>6, <1>7, <1>9 DEF Started
  <2>2. f[n].has_option = TRUE
    BY <2>1 DEF Passed, PassedWith
  <2>3. ApplyPending(f[n]) = Opt(FALSE \/ Absent(p, n), Refs(Inside(p, n), IF n = 0 THEN r ELSE 1))
    <3> DEFINE gone == FALSE
    <3>1. PICK acc, k : acc = f[n] /\ k = n
      OBVIOUS
    <3>2. k \in Nat /\ p.depth + k <= Len(Node(p).spine) /\ FirstIsOption(p, k, r)
      BY <1>1, <3>1
    <3>3. gone \in BOOLEAN /\ Passed(acc, p, k, gone, r)
      BY <2>1, <3>1
    <3> HIDE DEF gone, n
    <3>4. ApplyPending(acc) = Opt(gone \/ Absent(p, k), Refs(Inside(p, k), IF k = 0 THEN r ELSE 1))
      BY <3>2, <3>3, PassedEnd
    <3> QED BY <3>1, <3>4 DEF gone
  <2>4. n # 0
    BY <1>1, <1>7, <1>9
  <2>5. HasOption(chain) = TRUE /\ (FALSE \/ Absent(p, n)) = Absent(p, n)
    BY <1>9 DEF HasOption, Absent
  <2> QED BY <1>2, <1>9, <2>2, <2>3, <2>4, <2>5
<1>10. CASE ~HasOption(chain)
  <2>1. f[n] = [expr |-> Refs(p, r), has_option |-> FALSE, pending |-> n]
    BY <1>6, <1>7, <1>10 DEF Started
  <2>2. ApplyPending(f[n]) = DerefRef(Refs(p, r), n)
    BY <2>1 DEF ApplyPending
  <2>3. IsWrapped(p, "SmartPtr", n) /\ ~Absent(p, n)
    BY <1>1, <1>7, <1>10, PointersOnly
  <2>4. n > 0 => r = 1
    <3> SUFFICES ASSUME n > 0, r # 1 PROVE FALSE
      OBVIOUS
    <3>1. WrapperAt(p, 0) = "Option"
      BY DEF FirstIsOption
    <3>2. 1 \in 1 .. n /\ p.depth + 0 + 1 = p.depth + 1
      BY <1>1
    <3> QED BY <2>3, <3>1, <3>2 DEF IsWrapped, WrapperAt
  <2>5. DerefRef(Refs(p, r), n) = IF n = 0 THEN Refs(p, r) ELSE Refs(Inside(p, n), 1)
    BY <1>1, <2>3, <2>4, DerefRefPlace
  <2>6. HasOption(chain) = FALSE
    BY <1>10 DEF HasOption
  <2>7. f[n].has_option = FALSE
    BY <2>1
  <2>8. ApplyPending(f[n]) = IF chain = <<>> THEN Refs(p, r) ELSE Refs(Inside(p, n), 1)
    BY <1>8, <2>2, <2>5
  <2> QED BY <1>2, <1>10, <2>3, <2>6, <2>7, <2>8
<1> QED BY <1>9, <1>10

(* Options alone, one after the other, are what the loop makes of them.    *)
LEMMA CollapsedChain ==
  ASSUME NEW base, NEW chain \in Seq(AccessSteps), IsOnlyOptions(chain), chain # <<>>
  PROVE  ChainEnd(base, chain)
           = [expr |-> CollapseOptionsToRef(base, Len(chain)), has_option |-> TRUE, pending |-> 0]
<1> DEFINE n == Len(chain)
           After(x) == [expr |-> x, has_option |-> TRUE, pending |-> 0]
<1>1. n \in Nat \ {0} /\ \A i \in 1 .. n : chain[i] = "Option"
  BY DEF IsOnlyOptions
<1>2. PICK f : /\ f[0] = ChainStart(base)
               /\ \A i \in 1 .. n : f[i] = ChainStep(f[i - 1], chain[i])
               /\ ChainEnd(base, chain) = f[n]
  BY <1>1, ChainEndIs
<1>3. PICK c : /\ c[1] = AsRef(base)
               /\ \A i \in 2 .. n : c[i] = AndThenAsRef(c[i - 1])
               /\ CollapseOptionsToRef(base, n) = c[n]
  BY <1>1, CollapseIs
<1> DEFINE T == {k \in Nat : k + 1 <= n => f[k + 1] = After(c[k + 1])}
<1>4. 0 \in T
  <2>1. 1 \in 1 .. n /\ 1 - 1 = 0 /\ 0 + 1 = 1
    BY <1>1
  <2>2. f[1] = ChainStep(ChainStart(base), "Option")
    BY <1>1, <1>2, <2>1
  <2>3. ApplyPending(ChainStart(base)) = base /\ ChainStart(base).has_option = FALSE
    BY DEF ApplyPending, ChainStart, DerefRef
  <2>4. ChainStep(ChainStart(base), "Option") = After(AsRef(base))
    BY <2>3 DEF ChainStep
  <2> QED BY <1>3, <2>1, <2>2, <2>4
<1>5. ASSUME NEW k \in Nat, k \in T PROVE k + 1 \in T
  <2> SUFFICES ASSUME (k + 1) + 1 <= n PROVE f[(k + 1) + 1] = After(c[(k + 1) + 1])
    OBVIOUS
  <2> DEFINE m == k + 1
  <2>1. /\ m \in Nat /\ m + 1 \in 1 .. n /\ m + 1 \in 2 .. n /\ (m + 1) - 1 = m /\ m <= n
        /\ (k + 1) + 1 = m + 1
    BY <1>1
  <2>2. f[m] = After(c[m])
    BY <1>5, <2>1
  <2> HIDE DEF m
  <2>3. f[m + 1] = ChainStep(After(c[m]), "Option")
    BY <1>1, <1>2, <2>1, <2>2
  <2>4. ApplyPending(After(c[m])) = c[m]
    BY DEF ApplyPending, DerefRef
  <2>5. ChainStep(After(c[m]), "Option") = After(AndThenAsRef(c[m]))
    BY <2>4 DEF ChainStep
  <2>6. c[m + 1] = AndThenAsRef(c[m])
    BY <1>3, <2>1
  <2> QED BY <2>1, <2>3, <2>5, <2>6
<1>6. Nat \subseteq T
  <2> HIDE DEF T
  <2> QED BY <1>4, <1>5, SetInduction
<1>7. n - 1 \in T /\ (n - 1) + 1 = n
  BY <1>1, <1>6
<1> QED BY <1>2, <1>3, <1>7

(* What an access is, whichever of its cases it is generated by.           *)
LEMMA AccessIs ==
  ASSUME NEW base, NEW chain \in Seq(AccessSteps)
  PROVE  /\ AccessChainToRef(base, chain).expr
              = IF chain = <<>> \/ IsSinglePlainOption(chain) THEN base
                ELSE ApplyPending(ChainEnd(base, chain))
         /\ AccessChainToRef(base, chain).has_option
              = IF chain = <<>> THEN FALSE ELSE ChainEnd(base, chain).has_option
         /\ chain # <<>> => AccessChainToOptionRef(base, chain) = ApplyPending(ChainEnd(base, chain))
<1>1. Len(chain) \in Nat /\ DOMAIN chain = 1 .. Len(chain) /\ (chain = <<>> <=> Len(chain) = 0)
  OBVIOUS
<1>2. IsOnlyOptions(chain) => (IsSinglePlainOption(chain) <=> Len(chain) = 1)
  <2>1. chain = <<"Option">> <=> Len(chain) = 1 /\ chain[1] = "Option"
    BY Single
  <2>2. IsOnlyOptions(chain) /\ Len(chain) = 1 => chain[1] = "Option"
    BY <1>1 DEF IsOnlyOptions
  <2> QED BY <2>1, <2>2 DEF IsSinglePlainOption
<1>3. IsSinglePlainOption(chain) => IsOnlyOptions(chain)
  BY DEF IsSinglePlainOption, IsOnlyOptions
<1>4. chain = <<>> => IsOnlyOptions(chain)
  BY DEF IsOnlyOptions
<1>5. ASSUME IsOnlyOptions(chain), chain # <<>>
      PROVE  /\ ApplyPending(ChainEnd(base, chain)) = CollapseOptionsToRef(base, Len(chain))
             /\ ChainEnd(base, chain).has_option = TRUE
  <2>1. ChainEnd(base, chain)
          = [expr |-> CollapseOptionsToRef(base, Len(chain)), has_option |-> TRUE, pending |-> 0]
    BY <1>5, CollapsedChain
  <2> QED BY <2>1 DEF ApplyPending, DerefRef
<1>6. CASE ~IsOnlyOptions(chain)
  <2>1. AccessChainToRef(base, chain)
          = [expr |-> ApplyPending(ChainEnd(base, chain)), has_option |-> ChainEnd(base, chain).has_option]
    BY <1>6 DEF AccessChainToRef, Accessed
  <2>2. AccessChainToOptionRef(base, chain) = ApplyPending(ChainEnd(base, chain))
    BY <1>6, <2>1 DEF AccessChainToOptionRef
  <2>3. /\ AccessChainToRef(base, chain).expr = ApplyPending(ChainEnd(base, chain))
        /\ AccessChainToRef(base, chain).has_option = ChainEnd(base, chain).has_option
    BY <2>1
  <2> QED BY <1>3, <1>4, <1>6, <2>2, <2>3
<1>7. CASE IsOnlyOptions(chain)
  <2>1. AccessChainToRef(base, chain)
          = [expr |-> IF Len(chain) <= 1 THEN base ELSE CollapseOptionsToRef(base, Len(chain)),
             has_option |-> Len(chain) > 0]
    BY <1>7 DEF AccessChainToRef
  <2>2. AccessChainToOptionRef(base, chain) = CollapseOptionsToRef(base, Len(chain))
    BY <1>7 DEF AccessChainToOptionRef
  <2>3. Len(chain) <= 1 <=> chain = <<>> \/ IsSinglePlainOption(chain)
    BY <1>1, <1>2, <1>7
  <2>4. (Len(chain) > 0) = (chain # <<>>)
    BY <1>1
  <2>5. AccessChainToRef(base, chain).expr = IF Len(chain) <= 1 THEN base ELSE CollapseOptionsToRef(base, Len(chain))
    BY <2>1
  <2>6. AccessChainToRef(base, chain).has_option = (chain # <<>>)
    BY <2>1, <2>4
  <2> QED BY <1>5, <1>7, <2>2, <2>3, <2>5, <2>6
<1> QED BY <1>6, <1>7

(* From a place, an access comes to what is after its chain; no step but a *)
(* single Option, which is left to the match on it.                        *)
LEMMA PlaceAccess ==
  ASSUME NEW p, IsPlace(p), NEW chain, Segment(p, chain), NEW r \in Nat, FirstIsOption(p, Len(chain), r)
  PROVE  /\ AccessChainToRef(Refs(p, r), chain).has_option = HasOption(chain)
         /\ AccessChainToRef(Refs(p, r), chain).expr
              = IF chain = <<>> \/ IsSinglePlainOption(chain) THEN Refs(p, r)
                ELSE IF HasOption(chain)
                     THEN Opt(Absent(p, Len(chain)), Refs(Inside(p, Len(chain)), 1))
                     ELSE Refs(Inside(p, Len(chain)), 1)
         /\ HasOption(chain) =>
              AccessChainToOptionRef(Refs(p, r), chain)
                = Opt(Absent(p, Len(chain)), Refs(Inside(p, Len(chain)), 1))
         /\ ~HasOption(chain) => ~Absent(p, Len(chain))
<1>1. chain \in Seq(AccessSteps)
  BY DEF Segment
<1>2. chain = <<>> => ~HasOption(chain) /\ HasOption(chain) = FALSE
  BY DEF HasOption
<1>3. /\ ChainEnd(Refs(p, r), chain).has_option = HasOption(chain)
      /\ HasOption(chain) =>
           ApplyPending(ChainEnd(Refs(p, r), chain))
             = Opt(Absent(p, Len(chain)), Refs(Inside(p, Len(chain)), 1))
      /\ ~HasOption(chain) =>
           /\ ApplyPending(ChainEnd(Refs(p, r), chain))
                = IF chain = <<>> THEN Refs(p, r) ELSE Refs(Inside(p, Len(chain)), 1)
           /\ ~Absent(p, Len(chain))
  BY ChainFromPlace
<1>4. /\ AccessChainToRef(Refs(p, r), chain).expr
           = IF chain = <<>> \/ IsSinglePlainOption(chain) THEN Refs(p, r)
             ELSE ApplyPending(ChainEnd(Refs(p, r), chain))
      /\ AccessChainToRef(Refs(p, r), chain).has_option
           = IF chain = <<>> THEN FALSE ELSE ChainEnd(Refs(p, r), chain).has_option
      /\ chain # <<>> => AccessChainToOptionRef(Refs(p, r), chain) = ApplyPending(ChainEnd(Refs(p, r), chain))
  BY <1>1, AccessIs
<1> QED BY <1>2, <1>3, <1>4

(* What an access makes of an Option in front of the chain.                *)
OptReached(base, p, chain, gone, r) ==
  /\ AccessChainToRef(base, PrependOption(chain)).has_option = TRUE
  /\ chain = <<>> => AccessChainToRef(base, PrependOption(chain)).expr = base
  /\ chain # <<>> => AccessChainToRef(base, PrependOption(chain)).expr
                        = Opt(gone \/ Absent(p, Len(chain)), Refs(Inside(p, Len(chain)), 1))
  /\ AccessChainToOptionRef(base, PrependOption(chain))
       = Opt(gone \/ Absent(p, Len(chain)),
             Refs(Inside(p, Len(chain)), IF chain = <<>> THEN r ELSE 1))

(* From an Option, an access comes to what is after the chain within.      *)
LEMMA OptAccess ==
  ASSUME NEW p, IsPlace(p), NEW chain, Segment(p, chain), NEW gone \in BOOLEAN, NEW r \in Nat,
         NEW base, AsRef(base) = Opt(gone, Refs(p, r)), FirstIsOption(p, Len(chain), r)
  PROVE  OptReached(base, p, chain, gone, r)
<1> DEFINE long == PrependOption(chain)
           found == Opt(gone \/ Absent(p, Len(chain)), Refs(Inside(p, Len(chain)), IF chain = <<>> THEN r ELSE 1))
<1>1. /\ long \in Seq(AccessSteps) /\ long # <<>>
      /\ IsSinglePlainOption(long) <=> chain = <<>>
  <2>1. chain \in Seq(AccessSteps)
    BY DEF Segment
  <2>2. Len(chain) \in Nat /\ (chain = <<>> <=> Len(chain) = 0)
    BY <2>1
  <2>3. long \in Seq(AccessSteps) /\ Len(long) = Len(chain) + 1 /\ long[1] = "Option"
    BY <2>1, PrependIs DEF Prepended
  <2> HIDE DEF long
  <2>4. long = <<"Option">> <=> Len(long) = 1 /\ long[1] = "Option"
    BY <2>3, Single
  <2>5. long = <<"Option">> <=> chain = <<>>
    BY <2>2, <2>3, <2>4
  <2>6. long # <<>>
    BY <2>2, <2>3
  <2> QED BY <2>3, <2>5, <2>6 DEF IsSinglePlainOption
<1>2. ApplyPending(ChainEnd(base, long)) = found
  <2>1. OptPassed(base, p, chain, gone, r)
    BY ChainFromOpt
  <2> QED BY <2>1 DEF OptPassed
<1>3. ChainEnd(base, long).has_option = TRUE
  <2>1. OptPassed(base, p, chain, gone, r)
    BY ChainFromOpt
  <2> QED BY <2>1 DEF OptPassed
<1> HIDE DEF long, found
<1>4. /\ AccessChainToRef(base, long).expr
           = IF long = <<>> \/ IsSinglePlainOption(long) THEN base
             ELSE ApplyPending(ChainEnd(base, long))
      /\ AccessChainToRef(base, long).has_option
           = IF long = <<>> THEN FALSE ELSE ChainEnd(base, long).has_option
      /\ long # <<>> => AccessChainToOptionRef(base, long) = ApplyPending(ChainEnd(base, long))
  BY <1>1, AccessIs
<1>5. /\ AccessChainToRef(base, long).has_option = TRUE
      /\ AccessChainToRef(base, long).expr = IF chain = <<>> THEN base ELSE found
      /\ AccessChainToOptionRef(base, long) = found
  BY <1>1, <1>2, <1>3, <1>4
<1>6. chain # <<>> => found = Opt(gone \/ Absent(p, Len(chain)), Refs(Inside(p, Len(chain)), 1))
  BY DEF found
<1> QED BY <1>5, <1>6 DEF long, found, OptReached

-----------------------------------------------------------------------------
(* The items of a list.                                                    *)

(* What a match binds when the Option it is on is not absent.              *)
Found(x, absent, y) ==
  /\ IsSome(Referent(x)) <=> ~absent
  /\ IsNone(Referent(x)) <=> absent
  /\ ~absent => Bound(x) = y

(* A reference to an Option that a method made, and back.                  *)
LEMMA UnderReference ==
  ASSUME NEW x, NEW of, x = Expr("none", 0, of) \/ x = Expr("some", 0, of)
  PROVE  Referent(x) = x /\ Ref(x).refs = 1 /\ Referent(Ref(x)) = x
<1>1. PICK t : x = Expr(t, 0, of) /\ t # "mistyped"
  OBVIOUS
<1>2. x.t # "mistyped" /\ Referent(x) = x
  BY <1>1 DEF Expr, Referent
<1>3. Ref(x) = Expr(t, 1, of)
  BY <1>1, <1>2 DEF Expr, Ref
<1> QED BY <1>1, <1>2, <1>3 DEF Expr, Referent

(* A match on an Option that a method made, or on a reference to it.       *)
LEMMA FoundOpt ==
  ASSUME NEW absent \in BOOLEAN, NEW p, NEW r \in Nat
  PROVE  /\ Found(Opt(absent, Refs(p, r)), absent, Refs(p, r))
         /\ Found(Ref(Opt(absent, Refs(p, r))), absent, Refs(p, r + 1))
         /\ AsRef(Opt(absent, Refs(p, r))) = Opt(absent, Refs(p, r + 1))
         /\ AsRef(Ref(Opt(absent, Refs(p, r)))) = Opt(absent, Refs(p, r + 1))
<1> DEFINE x == Opt(absent, Refs(p, r))
<1>1. /\ IsSome(x) <=> ~absent
      /\ IsNone(x) <=> absent
      /\ ~absent => Opened(x).of = Refs(p, r)
      /\ x.refs = 0
  BY OpenedOpt
<1>2. /\ Referent(x) = x /\ Ref(x).refs = 1 /\ Referent(Ref(x)) = x
  <2>1. absent => x = Expr("none", 0, <<>>)
    BY DEF Opt, None
  <2>2. ~absent => x = Expr("some", 0, Refs(p, r))
    BY DEF Opt
  <2> HIDE DEF x
  <2> QED BY <2>1, <2>2, UnderReference
<1>3. Ref(Refs(p, r)) = Refs(p, r + 1) /\ Some(Refs(p, r + 1)) = Opt(FALSE, Refs(p, r + 1))
  <2>1. r + 1 \in Nat
    OBVIOUS
  <2> QED BY <2>1, RefsAre
<1> HIDE DEF x
<1>4. Found(x, absent, Refs(p, r))
  BY <1>1, <1>2 DEF Found, Bound
<1>5. Found(Ref(x), absent, Refs(p, r + 1))
  BY <1>1, <1>2, <1>3 DEF Found, Bound
<1>6. ASSUME NEW y, Referent(y) = x PROVE AsRef(y) = Opt(absent, Refs(p, r + 1))
  <2>1. CASE absent
    BY <1>1, <1>6, <2>1 DEF AsRef, Opt
  <2>2. CASE ~absent
    <3>1. AsRef(y) = Some(Ref(Refs(p, r)))
      BY <1>1, <1>6, <2>2 DEF AsRef
    <3> QED BY <1>3, <2>2, <3>1 DEF Opt
  <2> QED BY <2>1, <2>2
<1> QED BY <1>2, <1>4, <1>5, <1>6 DEF x

(* A match on a place that is an Option.                                   *)
LEMMA FoundPlace ==
  ASSUME NEW p, NEW r \in Nat, IsWrapped(p, "Option", 1)
  PROVE  Found(Refs(p, r), Count(p) = 0, Refs(Inside(p, 1), IF r = 0 THEN 0 ELSE 1))
<1>1. Referent(Refs(p, r)) = Refs(p, 0) /\ Refs(p, r).refs = r
  BY RefsAre
<1>2. /\ Opened(Refs(p, 0)) = Opt(Count(p) = 0, Refs(Inside(p, 1), 0))
      /\ IsSome(Refs(p, 0)) <=> Count(p) # 0
      /\ IsNone(Refs(p, 0)) <=> Count(p) = 0
  BY OpenedPlace
<1>3. Ref(Refs(Inside(p, 1), 0)) = Refs(Inside(p, 1), 1)
  BY RefsAre
<1>4. ASSUME Count(p) # 0 PROVE Bound(Refs(p, r)) = Refs(Inside(p, 1), IF r = 0 THEN 0 ELSE 1)
  <2>1. Opened(Refs(p, 0)).of = Refs(Inside(p, 1), 0)
    BY <1>2, <1>4 DEF Opt, Expr
  <2> QED BY <1>1, <1>3, <2>1 DEF Bound
<1> QED BY <1>1, <1>2, <1>4 DEF Found

(* The items of a list, or nothing where the list itself is absent.        *)
ItemsOf(q)        == Items([i \in 1 .. Count(q) |-> Refs(ItemOf(q, i), 1)])
ListAt(absent, q) == IF absent THEN None ELSE ItemsOf(q)

(* The items of a place that is a list.                                    *)
LEMMA IterPlace ==
  ASSUME NEW p, IsPlace(p), NEW r \in Nat, IsWrapped(p, "Vec", 1)
  PROVE  Iter(Refs(p, r)) = ItemsOf(p)
<1>1. /\ p.depth \in Nat /\ Len(Node(p).spine) \in Nat /\ p.depth + 1 <= Len(Node(p).spine)
      /\ Node(p).spine[p.depth + 1] = "Vec"
  <2>1. 1 \in 1 .. 1
    OBVIOUS
  <2> QED BY <2>1 DEF IsWrapped, IsPlace
<1>2. Inside(p, 0) = p /\ IsWrapped(p, "SmartPtr", 0)
  <2>1. p.depth + 0 <= Len(Node(p).spine)
    BY <1>1
  <2> QED BY <2>1, InsidePlace DEF IsWrapped
<1>3. ASSUME NEW n \in Nat, n # 0 PROVE ~IsWrapped(p, "SmartPtr", n)
  <2>1. 1 \in 1 .. n
    BY <1>3
  <2> QED BY <1>1, <2>1 DEF IsWrapped
<1>4. Pointers(p) = 0
  <2> DEFINE W(n) == IsWrapped(p, "SmartPtr", n) /\ ~IsWrapped(Inside(p, n), "SmartPtr", 1)
  <2>1. 0 \in 0 .. Len(Node(p).spine) - p.depth /\ W(0)
    <3>1. ~IsWrapped(p, "SmartPtr", 1) /\ 0 \in 0 .. Len(Node(p).spine) - p.depth
      BY <1>1, <1>3
    <3> QED BY <1>2, <3>1
  <2>2. \A n \in 0 .. Len(Node(p).spine) - p.depth : W(n) => n = 0
    BY <1>3
  <2>3. Pointers(p) = CHOOSE n \in 0 .. Len(Node(p).spine) - p.depth : W(n)
    BY DEF Pointers
  <2> HIDE DEF W
  <2> QED BY <2>1, <2>2, <2>3
<1>5. Refs(p, r).t = "place" /\ Refs(p, r).of = p /\ At(p) = Refs(p, 0)
      /\ Refs(p, 0).t = "place" /\ Refs(p, 0).of = p
  BY RefsAre
<1>6. Target(Refs(p, r)) = Refs(p, 0)
  BY <1>2, <1>4, <1>5 DEF Target
<1>7. Iter(Refs(p, r)) = Items([i \in 1 .. Count(p) |-> Ref(At(ItemOf(p, i)))])
  BY <1>5, <1>6 DEF Iter
<1>8. \A i : Ref(At(ItemOf(p, i))) = Refs(ItemOf(p, i), 1)
  BY RefsAre
<1> QED BY <1>7, <1>8 DEF ItemsOf

(* Behind a reference to what the list is in.                              *)
LEMMA LayerFromPlace ==
  ASSUME NEW p, IsPlace(p), NEW chain, Segment(p, chain), IsWrapped(Inside(p, Len(chain)), "Vec", 1),
         NEW k, NEW column, column.shape.layers[k].access = chain
  PROVE  ReadLayer(Refs(p, 1), k, column) = ListAt(Absent(p, Len(chain)), Inside(p, Len(chain)))
<1> DEFINE q == Inside(p, Len(chain))
           access == AccessChainToRef(Refs(p, 1), chain)
           a == Absent(p, Len(chain))
<1>1. /\ FirstIsOption(p, Len(chain), 1) /\ Len(chain) \in Nat /\ p.depth + Len(chain) <= Len(Node(p).spine)
      /\ chain \in Seq(AccessSteps)
  BY DEF FirstIsOption, Segment
<1>2. IsPlace(q) /\ (Len(chain) = 0 => q = p)
  BY <1>1, InsidePlace
<1>3. /\ access.has_option = HasOption(chain)
      /\ access.expr = IF chain = <<>> \/ IsSinglePlainOption(chain) THEN Refs(p, 1)
                       ELSE IF HasOption(chain) THEN Opt(a, Refs(q, 1)) ELSE Refs(q, 1)
      /\ ~HasOption(chain) => ~a
  BY <1>1, PlaceAccess
<1>4. Iter(Refs(q, 1)) = ItemsOf(q)
  <2> HIDE DEF q
  <2> QED BY <1>2, IterPlace DEF q
<1>5. ReadLayer(Refs(p, 1), k, column)
        = IF access.has_option THEN Match(access.expr, Iter, None) ELSE Iter(access.expr)
  BY DEF ReadLayer, ItemsBehind
<1>6. ASSUME NEW x, Found(x, a, Refs(q, 1)) PROVE Match(x, Iter, None) = ListAt(a, q)
  BY <1>4, <1>6 DEF Match, Found, ListAt
<1>7. CASE ~HasOption(chain)
  <2>1. ~IsSinglePlainOption(chain)
    BY <1>7 DEF IsSinglePlainOption, HasOption
  <2>2. access.expr = Refs(q, 1)
    <3>1. chain = <<>> => Len(chain) = 0
      OBVIOUS
    <3> QED BY <1>2, <1>3, <1>7, <2>1, <3>1
  <2> QED BY <1>3, <1>4, <1>5, <1>7, <2>2 DEF ListAt
<1>8. CASE HasOption(chain)
  <2>1. chain # <<>>
    BY <1>8 DEF HasOption
  <2>2. CASE IsSinglePlainOption(chain)
    <3>1. Len(chain) = 1 /\ chain[1] = "Option" /\ 1 \in 1 .. Len(chain)
      BY <2>2 DEF IsSinglePlainOption
    <3>2. WrapperAt(p, 0) = "Option"
      BY <3>1 DEF Segment
    <3>3. IsWrapped(p, "Option", 1)
      <4>1. p.depth + 0 + 1 <= Len(Node(p).spine) /\ 0 \in 0 .. 0 /\ Inside(p, 0) = p
        <5>1. p.depth \in Nat /\ p.depth + 0 <= Len(Node(p).spine)
          BY DEF IsPlace
        <5> QED BY <1>1, <3>1, <5>1, InsidePlace
      <4>2. IsWrapped(Inside(p, 0), "Option", 1)
        BY <3>2, <4>1, WrappedNext
      <4> QED BY <4>1, <4>2
    <3>4. a = (Count(p) = 0)
      <4>1. Inside(p, 0) = p
        BY InsidePlace DEF IsPlace
      <4>2. 0 .. Len(chain) - 1 = {0}
        BY <3>1
      <4> QED BY <3>2, <4>1, <4>2 DEF Absent
    <3>5. Found(Refs(p, 1), a, Refs(q, 1))
      <4>1. Found(Refs(p, 1), Count(p) = 0, Refs(Inside(p, 1), IF 1 = 0 THEN 0 ELSE 1))
        BY <3>3, FoundPlace
      <4> QED BY <3>1, <3>4, <4>1
    <3> QED BY <1>3, <1>5, <1>6, <1>8, <2>2, <3>5
  <2>3. CASE ~IsSinglePlainOption(chain)
    <3>1. access.expr = Opt(a, Refs(q, 1))
      BY <1>3, <1>8, <2>1, <2>3
    <3>2. a \in BOOLEAN
      BY DEF Absent
    <3>3. Found(Opt(a, Refs(q, 1)), a, Refs(q, 1))
      <4> HIDE DEF a, q
      <4> QED BY <3>2, FoundOpt
    <3> QED BY <1>3, <1>5, <1>6, <1>8, <3>1, <3>3
  <2> QED BY <2>2, <2>3
<1> QED BY <1>7, <1>8

(* Behind an Option that was made of the tuple's own.                      *)
LEMMA LayerFromOpt ==
  ASSUME NEW p, IsPlace(p), NEW chain, Segment(p, chain), IsWrapped(Inside(p, Len(chain)), "Vec", 1),
         NEW gone \in BOOLEAN, NEW r \in Nat, NEW b \in Nat, NEW base,
         AsRef(base) = Opt(gone, Refs(p, r)), Found(base, gone, Refs(p, b)),
         FirstIsOption(p, Len(chain), r),
         NEW k, NEW column, column.shape.layers[k].access = PrependOption(chain)
  PROVE  ReadLayer(base, k, column) = ListAt(gone \/ Absent(p, Len(chain)), Inside(p, Len(chain)))
<1> DEFINE q == Inside(p, Len(chain))
           a == gone \/ Absent(p, Len(chain))
           access == AccessChainToRef(base, PrependOption(chain))
<1>1. /\ access.has_option = TRUE
      /\ access.expr = IF chain = <<>> THEN base ELSE Opt(a, Refs(q, 1))
  <2>1. OptReached(base, p, chain, gone, r)
    BY OptAccess
  <2> QED BY <2>1 DEF OptReached
<1>2. Len(chain) \in Nat /\ p.depth + Len(chain) <= Len(Node(p).spine) /\ (chain = <<>> <=> Len(chain) = 0)
  BY DEF Segment
<1>3. IsPlace(q) /\ (Len(chain) = 0 => q = p)
  BY <1>2, InsidePlace
<1>4. ASSUME NEW n \in Nat PROVE Iter(Refs(q, n)) = ItemsOf(q)
  <2> HIDE DEF q
  <2> QED BY <1>3, IterPlace DEF q
<1>5. ReadLayer(base, k, column) = Match(access.expr, Iter, None)
  BY <1>1 DEF ReadLayer, ItemsBehind
<1>6. ASSUME NEW x, NEW n \in Nat, Found(x, a, Refs(q, n)) PROVE Match(x, Iter, None) = ListAt(a, q)
  <2>1. Iter(Refs(q, n)) = ItemsOf(q)
    BY <1>4
  <2> QED BY <1>6, <2>1 DEF Match, Found, ListAt
<1>7. CASE chain = <<>>
  <2>1. ~Absent(p, 0)
    BY AbsentNext
  <2>2. a = gone /\ q = p
    BY <1>2, <1>3, <1>7, <2>1
  <2>3. Found(base, a, Refs(q, b))
    BY <2>2
  <2>4. access.expr = base
    BY <1>1, <1>7
  <2> HIDE DEF a, q, access
  <2> QED BY <1>5, <1>6, <2>3, <2>4 DEF a, q
<1>8. CASE chain # <<>>
  <2>1. access.expr = Opt(a, Refs(q, 1)) /\ a \in BOOLEAN
    BY <1>1, <1>8
  <2>2. Found(Opt(a, Refs(q, 1)), a, Refs(q, 1))
    <3> HIDE DEF a, q
    <3> QED BY <2>1, FoundOpt
  <2> QED BY <1>5, <1>6, <2>1, <2>2
<1> QED BY <1>7, <1>8

-----------------------------------------------------------------------------
(* Where the lists of a stack are.                                         *)

(* A chain is the stretch of a stack after `from` wrappers, up to `to`.    *)
IsStretch(chain, spine, from, to) ==
  /\ chain \in Seq(AccessSteps) /\ from + Len(chain) = to
  /\ \A j \in 1 .. Len(chain) : chain[j] = spine[from + j]

(* The layers that the first i wrappers of a stack make, after its outer   *)
(* pointers: v[k] wrappers are off when the k-th list is.                  *)
IsCut(layers, inner, spine, v, i) ==
  /\ v \in [0 .. Len(layers) -> 0 .. i] /\ i \in 0 .. Len(spine)
  /\ \A j \in 1 .. v[0] : spine[j] = "SmartPtr"
  /\ v[0] < Len(spine) => spine[v[0] + 1] # "SmartPtr"
  /\ layers \in Seq(Layers)
  /\ \A k \in 1 .. Len(layers) :
       /\ v[k - 1] < v[k] /\ spine[v[k]] = "Vec"
       /\ IsStretch(layers[k].access, spine, v[k - 1], v[k] - 1)
       /\ layers[k].option_layers_above = OptionLayers(layers[k].access)
  /\ IsStretch(inner, spine, v[Len(layers)], i)
IsShapeCut(shape, spine, v) ==
  /\ shape = [layers              |-> shape.layers,
              inner_option_layers |-> OptionLayers(shape.inner_access),
              inner_access        |-> shape.inner_access]
  /\ IsCut(shape.layers, shape.inner_access, spine, v, Len(spine))

(* The outer pointers of a stack are those before anything else.           *)
LEMMA LeadingIs ==
  ASSUME NEW spine \in Seq(RawWrappers)
  PROVE  /\ LeadingPointers(spine) \in 0 .. Len(spine)
         /\ \A i \in 1 .. LeadingPointers(spine) : spine[i] = "SmartPtr"
         /\ LeadingPointers(spine) < Len(spine) => spine[LeadingPointers(spine) + 1] # "SmartPtr"
<1> DEFINE T == {n \in 0 .. Len(spine) : n < Len(spine) => spine[n + 1] # "SmartPtr"}
           W(n) == /\ \A i \in 1 .. n : spine[i] = "SmartPtr"
                   /\ n < Len(spine) => spine[n + 1] # "SmartPtr"
<1>1. Len(spine) \in Nat /\ Len(spine) \in T /\ T \subseteq Nat
  OBVIOUS
<1>2. PICK n \in T : \A m \in T : n <= m
  <2> HIDE DEF T
  <2> QED BY <1>1, LeastNatural
<1>3. ASSUME NEW i \in 1 .. n PROVE spine[i] = "SmartPtr"
  <2>1. i - 1 \in 0 .. Len(spine) /\ i - 1 < Len(spine) /\ (i - 1) + 1 = i /\ ~(n <= i - 1)
    BY <1>1, <1>2
  <2>2. i - 1 \notin T
    BY <1>2, <2>1
  <2> QED BY <2>1, <2>2
<1>4. n \in 0 .. Len(spine) /\ W(n)
  BY <1>2, <1>3
<1>5. LeadingPointers(spine) = CHOOSE m \in 0 .. Len(spine) : W(m)
  BY DEF LeadingPointers
<1>6. LeadingPointers(spine) \in 0 .. Len(spine) /\ W(LeadingPointers(spine))
  <2> HIDE DEF W
  <2> QED BY <1>4, <1>5
<1> QED BY <1>6

(* What is left of a sequence without its first n items.                   *)
LEMMA RestOf ==
  ASSUME NEW S, NEW s \in Seq(S), NEW n \in 0 .. Len(s)
  PROVE  /\ SubSeq(s, n + 1, Len(s)) \in Seq(S) /\ Len(SubSeq(s, n + 1, Len(s))) = Len(s) - n
         /\ \A i \in 1 .. Len(s) - n : SubSeq(s, n + 1, Len(s))[i] = s[n + i]
<1>1. /\ SubSeq(s, n + 1, Len(s)) \in Seq(S) /\ Len(SubSeq(s, n + 1, Len(s))) = Len(s) - n
  OBVIOUS
<1>2. ASSUME NEW i \in 1 .. Len(s) - n PROVE SubSeq(s, n + 1, Len(s))[i] = s[n + i]
  OBVIOUS
<1> QED BY <1>1, <1>2

(* A stretch starts empty.                                                 *)
LEMMA StretchStart ==
  ASSUME NEW spine, NEW n \in Nat
  PROVE  IsStretch(<<>>, spine, n, n)
BY DEF IsStretch

(* A stretch grows by a wrapper that is no list.                           *)
LEMMA StretchNext ==
  ASSUME NEW spine, NEW n \in Nat, NEW i \in Nat, NEW chain, IsStretch(chain, spine, n, i),
         spine[i + 1] \in AccessSteps
  PROVE  IsStretch(Append(chain, spine[i + 1]), spine, n, i + 1)
<1> DEFINE long == Append(chain, spine[i + 1])
<1>1. chain \in Seq(AccessSteps) /\ n + Len(chain) = i /\ \A j \in 1 .. Len(chain) : chain[j] = spine[n + j]
  BY DEF IsStretch
<1>2. /\ long \in Seq(AccessSteps) /\ Len(long) = Len(chain) + 1 /\ long[Len(chain) + 1] = spine[i + 1]
      /\ \A j \in 1 .. Len(chain) : long[j] = chain[j]
  BY <1>1
<1>3. Len(chain) \in Nat
  BY <1>1
<1> HIDE DEF long
<1>4. ASSUME NEW j \in 1 .. Len(long) PROVE long[j] = spine[n + j]
  <2>1. CASE j = Len(chain) + 1
    <3>1. n + j = i + 1
      BY <1>1, <1>3, <2>1
    <3> QED BY <1>2, <2>1, <3>1
  <2>2. CASE j # Len(chain) + 1
    <3>1. j \in 1 .. Len(chain)
      BY <1>2, <1>3, <2>2
    <3> QED BY <1>1, <1>2, <3>1
  <2> QED BY <2>1, <2>2
<1>5. n + Len(long) = i + 1
  BY <1>1, <1>2, <1>3
<1> QED BY <1>2, <1>4, <1>5 DEF IsStretch, long

(* After the outer pointers a stack has not been cut.                      *)
LEMMA CutStart ==
  ASSUME NEW spine \in Seq(RawWrappers)
  PROVE  LET v == [k \in 0 .. 0 |-> LeadingPointers(spine)]
         IN IsCut(<<>>, <<>>, spine, v, LeadingPointers(spine))
<1> DEFINE o == LeadingPointers(spine)
           v == [k \in 0 .. 0 |-> o]
<1>1. /\ o \in 0 .. Len(spine) /\ o \in Nat
      /\ \A i \in 1 .. o : spine[i] = "SmartPtr"
      /\ o < Len(spine) => spine[o + 1] # "SmartPtr"
  BY LeadingIs
<1> HIDE DEF o
<1>2. v[0] = o /\ v \in [0 .. 0 -> 0 .. o]
  BY <1>1
<1> HIDE DEF v
<1>3. <<>> \in Seq(Layers) /\ Len(<<>>) = 0 /\ 1 .. 0 = {}
  OBVIOUS
<1>4. IsCut(<<>>, <<>>, spine, v, o)
  BY <1>1, <1>2, <1>3, StretchStart DEF IsCut
<1> QED BY <1>4 DEF o, v

(* A wrapper that is no list goes on with the stretch.                     *)
LEMMA CutAccess ==
  ASSUME NEW layers, NEW inner, NEW spine \in Seq(RawWrappers), NEW v, NEW i \in Nat, i + 1 <= Len(spine),
         IsCut(layers, inner, spine, v, i), spine[i + 1] # "Vec"
  PROVE  IsCut(layers, Append(inner, spine[i + 1]), spine, v, i + 1)
<1>1. /\ v \in [0 .. Len(layers) -> 0 .. i] /\ layers \in Seq(Layers)
      /\ IsStretch(inner, spine, v[Len(layers)], i)
  BY DEF IsCut
<1>2. v[Len(layers)] \in Nat /\ spine[i + 1] \in AccessSteps
  <2>1. Len(layers) \in 0 .. Len(layers) /\ i + 1 \in 1 .. Len(spine)
    BY <1>1
  <2> QED BY <1>1, <2>1 DEF RawWrappers, AccessSteps
<1>3. IsStretch(Append(inner, spine[i + 1]), spine, v[Len(layers)], i + 1)
  BY <1>1, <1>2, StretchNext
<1>4. v \in [0 .. Len(layers) -> 0 .. i + 1] /\ i + 1 \in 0 .. Len(spine)
  BY <1>1
<1> QED BY <1>3, <1>4 DEF IsCut

(* A list ends the stretch and starts another.                             *)
LEMMA CutVec ==
  ASSUME NEW layers, NEW inner, NEW spine \in Seq(RawWrappers), NEW v, NEW i \in Nat, i + 1 <= Len(spine),
         IsCut(layers, inner, spine, v, i), spine[i + 1] = "Vec"
  PROVE  \E w : IsCut(Append(layers, [option_layers_above |-> OptionLayers(inner), access |-> inner]),
                      <<>>, spine, w, i + 1)
<1> DEFINE d == Len(layers)
           layer == [option_layers_above |-> OptionLayers(inner), access |-> inner]
           long == Append(layers, layer)
           w == [k \in 0 .. d + 1 |-> IF k = d + 1 THEN i + 1 ELSE v[k]]
<1>1. /\ v \in [0 .. d -> 0 .. i] /\ layers \in Seq(Layers) /\ d \in Nat /\ i \in 0 .. Len(spine)
      /\ IsStretch(inner, spine, v[d], i) /\ inner \in Seq(AccessSteps)
      /\ \A j \in 1 .. v[0] : spine[j] = "SmartPtr"
      /\ v[0] < Len(spine) => spine[v[0] + 1] # "SmartPtr"
      /\ \A k \in 1 .. d :
           /\ v[k - 1] < v[k] /\ spine[v[k]] = "Vec"
           /\ IsStretch(layers[k].access, spine, v[k - 1], v[k] - 1)
           /\ layers[k].option_layers_above = OptionLayers(layers[k].access)
  BY DEF IsCut, IsStretch
<1>2. /\ w \in [0 .. d + 1 -> 0 .. i + 1] /\ w[d + 1] = i + 1
      /\ \A k \in 0 .. d : w[k] = v[k]
  BY <1>1
<1>3. layer \in Layers
  <2>1. OptionLayers(inner) \in Nat
    BY <1>1, OptionCount DEF Chains
  <2> QED BY <1>1, <2>1 DEF Layers, Chains
<1> HIDE DEF w
<1>4. /\ long \in Seq(Layers) /\ Len(long) = d + 1 /\ long[d + 1] = layer
      /\ \A k \in 1 .. d : long[k] = layers[k]
  <2> HIDE DEF layer
  <2> QED BY <1>1, <1>3
<1>5. layer.access = inner /\ layer.option_layers_above = OptionLayers(inner)
  OBVIOUS
<1> HIDE DEF long, layer
<1>6. ASSUME NEW k \in 1 .. d + 1
      PROVE  /\ w[k - 1] < w[k] /\ spine[w[k]] = "Vec"
             /\ IsStretch(long[k].access, spine, w[k - 1], w[k] - 1)
             /\ long[k].option_layers_above = OptionLayers(long[k].access)
  <2>1. CASE k = d + 1
    <3>1. k - 1 = d /\ d \in 0 .. d /\ w[k - 1] = v[d] /\ w[k] = i + 1 /\ v[d] \in 0 .. i /\ (i + 1) - 1 = i
      BY <1>1, <1>2, <2>1
    <3>2. v[d] < i + 1
      BY <3>1
    <3> QED BY <1>1, <1>4, <1>5, <2>1, <3>1, <3>2
  <2>2. CASE k # d + 1
    <3>1. k \in 1 .. d /\ k - 1 \in 0 .. d /\ k \in 0 .. d
      BY <1>1, <2>2
    <3>2. w[k - 1] = v[k - 1] /\ w[k] = v[k] /\ long[k] = layers[k]
      BY <1>2, <1>4, <3>1
    <3> QED BY <1>1, <3>1, <3>2
  <2> QED BY <2>1, <2>2
<1>7. IsStretch(<<>>, spine, w[d + 1], i + 1)
  <2>1. i + 1 \in Nat
    OBVIOUS
  <2> QED BY <1>2, <2>1, StretchStart
<1>8. w[0] = v[0] /\ i + 1 \in 0 .. Len(spine)
  BY <1>1, <1>2
<1>9. IsCut(long, <<>>, spine, w, i + 1)
  BY <1>1, <1>2, <1>4, <1>6, <1>7, <1>8 DEF IsCut
<1> QED BY <1>9 DEF long, layer

(* Every stack is cut where its lists are.                                 *)
LEMMA LoweredCut ==
  ASSUME NEW node, node.spine \in Seq(RawWrappers)
  PROVE  /\ \E v : /\ IsShapeCut(LoweredNode(node).shape, node.spine, v)
                   /\ v[0] = LeadingPointers(node.spine)
         /\ LoweredNode(node).outer = LeadingPointers(node.spine)
         /\ LoweredNode(node).leaf.spec = node.base
<1> DEFINE s == node.spine
           o == LeadingPointers(s)
           w == SubSeq(s, o + 1, Len(s))
<1>1. o \in 0 .. Len(s) /\ Len(s) \in Nat
  BY LeadingIs
<1>2. Len(w) = Len(s) - o /\ \A i \in 1 .. Len(w) : w[i] = s[o + i]
  <2> HIDE DEF o
  <2> QED BY <1>1, RestOf
<1>3. LoweredNode(node).outer = o /\ LoweredNode(node).leaf.spec = node.base
      /\ LoweredNode(node).shape = Normalised(w)
  BY DEF LoweredNode
<1>4. Len(w) \in Nat
  <2> HIDE DEF w
  <2> QED BY <1>1, <1>2
<1> HIDE DEF w
<1>5. PICK f : /\ f[0] = NormalStart
               /\ \A i \in 1 .. Len(w) : f[i] = NormalStep(f[i - 1], w[i])
               /\ Normalised(w) = NormalEnd(f[Len(w)])
  BY <1>4, NormIs
<1> DEFINE Good(i) == \E v : IsCut(f[i].layers, f[i].pending, s, v, o + i) /\ v[0] = o
           T == {i \in Nat : i <= Len(w) => Good(i)}
<1>6. 0 \in T
  <2> DEFINE v == [k \in 0 .. 0 |-> o]
  <2>1. IsCut(<<>>, <<>>, s, v, o) /\ v[0] = o
    <3>1. v[0] = o
      OBVIOUS
    <3> QED BY <3>1, CutStart
  <2>2. f[0].layers = <<>> /\ f[0].pending = <<>> /\ o + 0 = o
    BY <1>1, <1>5 DEF NormalStart
  <2> HIDE DEF v, o
  <2> QED BY <2>1, <2>2
<1>7. ASSUME NEW i \in Nat, i \in T PROVE i + 1 \in T
  <2> SUFFICES ASSUME i + 1 <= Len(w) PROVE Good(i + 1)
    OBVIOUS
  <2>1. /\ i + 1 \in 1 .. Len(w) /\ (i + 1) - 1 = i /\ i <= Len(w) /\ o + (i + 1) = (o + i) + 1
        /\ o + i \in Nat /\ (o + i) + 1 <= Len(s)
    <3>1. Len(w) = Len(s) - o
      BY <1>2
    <3> HIDE DEF o
    <3> QED BY <1>1, <1>4, <3>1
  <2>2. PICK v : IsCut(f[i].layers, f[i].pending, s, v, o + i) /\ v[0] = o
    BY <1>7, <2>1
  <2>3. f[i + 1] = NormalStep(f[i], s[(o + i) + 1])
    <3>1. w[i + 1] = s[o + (i + 1)]
      BY <1>2, <2>1
    <3> QED BY <1>5, <2>1, <3>1
  <2>4. CASE s[(o + i) + 1] = "Vec"
    <3>1. /\ f[i + 1].layers = Append(f[i].layers, [option_layers_above |-> OptionLayers(f[i].pending),
                                                    access              |-> f[i].pending])
          /\ f[i + 1].pending = <<>>
      BY <2>3, <2>4 DEF NormalStep
    <3>2. PICK u : IsCut(f[i + 1].layers, f[i + 1].pending, s, u, (o + i) + 1)
      BY <2>1, <2>2, <2>4, <3>1, CutVec
    <3>3. u[0] = o
      <4>1. /\ u[0] \in Nat /\ u[0] <= Len(s) /\ o \in Nat
            /\ \A j \in 1 .. u[0] : s[j] = "SmartPtr"
            /\ u[0] < Len(s) => s[u[0] + 1] # "SmartPtr"
        <5>1. Len(f[i + 1].layers) \in Nat /\ 0 \in 0 .. Len(f[i + 1].layers)
          BY <3>2 DEF IsCut
        <5>2. u[0] \in 0 .. (o + i) + 1
          BY <3>2, <5>1 DEF IsCut
        <5> QED BY <1>1, <2>1, <3>2, <5>2 DEF IsCut
      <4>2. /\ \A j \in 1 .. o : s[j] = "SmartPtr"
            /\ o < Len(s) => s[o + 1] # "SmartPtr"
        BY LeadingIs
      <4>3. ~(u[0] < o)
        <5> HIDE DEF o
        <5> SUFFICES ASSUME u[0] < o PROVE FALSE
          OBVIOUS
        <5>1. u[0] + 1 \in 1 .. o /\ u[0] < Len(s)
          BY <1>1, <4>1
        <5> QED BY <4>1, <4>2, <5>1
      <4>4. ~(o < u[0])
        <5> HIDE DEF o
        <5> SUFFICES ASSUME o < u[0] PROVE FALSE
          OBVIOUS
        <5>1. o + 1 \in 1 .. u[0] /\ o < Len(s)
          BY <1>1, <4>1
        <5> QED BY <4>1, <4>2, <5>1
      <4> HIDE DEF o
      <4> QED BY <4>1, <4>3, <4>4
    <3> QED BY <2>1, <3>2, <3>3
  <2>5. CASE s[(o + i) + 1] # "Vec"
    <3>1. f[i + 1].layers = f[i].layers /\ f[i + 1].pending = Append(f[i].pending, s[(o + i) + 1])
      <4>1. f[i + 1] = [f[i] EXCEPT !.pending = Append(@, s[(o + i) + 1])]
        BY <2>3, <2>5 DEF NormalStep
      <4> QED BY <4>1
    <3>2. IsCut(f[i + 1].layers, f[i + 1].pending, s, v, (o + i) + 1)
      BY <2>1, <2>2, <2>5, <3>1, CutAccess
    <3> QED BY <2>1, <2>2, <3>2
  <2> QED BY <2>4, <2>5
<1>8. Nat \subseteq T
  <2> HIDE DEF T
  <2> QED BY <1>6, <1>7, SetInduction
<1>9. PICK v : IsCut(f[Len(w)].layers, f[Len(w)].pending, s, v, Len(s)) /\ v[0] = o
  <2>1. o + Len(w) = Len(s) /\ Len(w) <= Len(w)
    BY <1>1, <1>2, <1>4
  <2>2. Good(Len(w))
    BY <1>4, <1>8, <2>1
  <2> QED BY <2>1, <2>2
<1> DEFINE norm == f[Len(w)]
           shape == NormalEnd(norm)
<1>10. /\ norm.pending \in Seq(AccessSteps) /\ norm.layers \in Seq(Layers)
       /\ v \in [0 .. Len(norm.layers) -> 0 .. Len(s)]
       /\ IsStretch(norm.pending, s, v[Len(norm.layers)], Len(s))
       /\ v[0] < Len(s) => s[v[0] + 1] # "SmartPtr"
  BY <1>9 DEF IsCut, IsStretch
<1> HIDE DEF norm
<1>11. ASSUME norm.layers = <<>>, ~HasOption(norm.pending) PROVE norm.pending = <<>>
  <2> SUFFICES ASSUME norm.pending # <<>> PROVE FALSE
    OBVIOUS
  <2>1. 1 \in 1 .. Len(norm.pending) /\ Len(norm.layers) = 0 /\ norm.pending[1] \in AccessSteps
        /\ 1 \in DOMAIN norm.pending /\ Len(norm.pending) \in Nat
    BY <1>10, <1>11
  <2>2. norm.pending[1] = s[v[0] + 1] /\ v[0] + Len(norm.pending) = Len(s)
    BY <1>10, <2>1 DEF IsStretch
  <2>3. v[0] \in Nat
    BY <1>10, <2>1
  <2>4. norm.pending[1] = "Option"
    <3>1. v[0] < Len(s)
      BY <1>1, <2>1, <2>2, <2>3
    <3> QED BY <1>10, <2>1, <2>2, <3>1 DEF AccessSteps
  <2> QED BY <1>11, <2>1, <2>4 DEF HasOption
<1>12. shape = [layers              |-> norm.layers,
                inner_option_layers |-> OptionLayers(norm.pending),
                inner_access        |-> norm.pending]
  <2>1. OptionLayers(norm.pending) \in Nat /\ (OptionLayers(norm.pending) > 0 <=> HasOption(norm.pending))
    BY <1>10, OptionCount DEF Chains
  <2>2. CASE norm.layers = <<>> /\ OptionLayers(norm.pending) = 0
    <3>1. ~HasOption(norm.pending)
      BY <2>1, <2>2
    <3>2. norm.pending = <<>>
      BY <1>11, <2>2, <3>1
    <3> QED BY <2>2, <3>2 DEF NormalEnd, FromOptionAccess, Bare, LeafShape
  <2>3. CASE norm.layers = <<>> /\ OptionLayers(norm.pending) # 0
    BY <2>3 DEF NormalEnd, FromOptionAccess, LeafShape
  <2>4. CASE norm.layers # <<>>
    BY <2>4 DEF NormalEnd
  <2> QED BY <2>2, <2>3, <2>4
<1>13. IsShapeCut(shape, s, v)
  <2>1. shape.layers = norm.layers /\ shape.inner_access = norm.pending
        /\ shape.inner_option_layers = OptionLayers(norm.pending)
    BY <1>12
  <2> HIDE DEF shape
  <2> QED BY <1>9, <1>12, <2>1 DEF IsShapeCut, norm
<1> QED BY <1>3, <1>5, <1>9, <1>13 DEF norm

-----------------------------------------------------------------------------
(* How many lists are around a wrapper.                                    *)

IsPath(ty, path) ==
  Len(path) \in Nat /\ \A m \in 0 .. Len(path) : Spine(ty, path, m) \in Seq(RawWrappers)
LevelIs(ty, path, m, d, n) ==
  /\ IsFiniteSet(ListsAround(ty, path, <<m, d>>))
  /\ Cardinality(ListsAround(ty, path, <<m, d>>)) = n

(* The wrappers of one kind on a path, by element and depth.               *)
LEMMA StageIs ==
  ASSUME NEW ty, NEW path, IsPath(ty, path), NEW wrapper
  PROVE  /\ \A s \in Stages(ty, path, wrapper) :
              /\ s = <<s[1], s[2]>> /\ s[1] \in 0 .. Len(path)
              /\ s[2] \in 0 .. Len(Spine(ty, path, s[1])) - 1
              /\ Spine(ty, path, s[1])[s[2] + 1] = wrapper
         /\ \A m \in 0 .. Len(path) : \A d \in 0 .. Len(Spine(ty, path, m)) - 1 :
              <<m, d>> \in Stages(ty, path, wrapper) <=> Spine(ty, path, m)[d + 1] = wrapper
<1> DEFINE All == UNION {{m} \X (0 .. Len(Spine(ty, path, m)) - 1) : m \in 0 .. Len(path)}
<1>1. \A s \in All : /\ s = <<s[1], s[2]>> /\ s[1] \in 0 .. Len(path)
                     /\ s[2] \in 0 .. Len(Spine(ty, path, s[1])) - 1
  OBVIOUS
<1>2. \A m \in 0 .. Len(path) : \A d \in 0 .. Len(Spine(ty, path, m)) - 1 : <<m, d>> \in All
  OBVIOUS
<1>3. Stages(ty, path, wrapper) = {s \in All : Spine(ty, path, s[1])[s[2] + 1] = wrapper}
  BY DEF Stages
<1>4. \A m, d : <<m, d>>[1] = m /\ <<m, d>>[2] = d
  OBVIOUS
<1> HIDE DEF All
<1>5. \A m \in 0 .. Len(path) : \A d \in 0 .. Len(Spine(ty, path, m)) - 1 :
         <<m, d>> \in Stages(ty, path, wrapper) <=> Spine(ty, path, m)[d + 1] = wrapper
  BY <1>2, <1>3, <1>4
<1> QED BY <1>1, <1>3, <1>5

(* A wrapper of a kind is one of that kind.                                *)
LEMMA StageAt ==
  ASSUME NEW ty, NEW path, IsPath(ty, path), NEW wrapper, NEW m, NEW d,
         m \in 0 .. Len(path), d \in 0 .. Len(Spine(ty, path, m)) - 1,
         Spine(ty, path, m)[d + 1] = wrapper
  PROVE  <<m, d>> \in Stages(ty, path, wrapper)
BY StageIs

(* The lists around a wrapper are those of the elements before, and of its *)
(* own node further out.                                                   *)
LEMMA AroundIs ==
  ASSUME NEW ty, NEW path, IsPath(ty, path), NEW m \in Nat, NEW d \in Nat
  PROVE  ListsAround(ty, path, <<m, d>>)
           = {r \in Stages(ty, path, "Vec") : r[1] < m \/ (r[1] = m /\ r[2] < d)}
BY DEF ListsAround

(* No list is around the outermost wrapper.                                *)
LEMMA LevelStart ==
  ASSUME NEW ty, NEW path, IsPath(ty, path)
  PROVE  LevelIs(ty, path, 0, 0, 0)
<1>1. ASSUME NEW r \in Stages(ty, path, "Vec") PROVE ~(r[1] < 0 \/ (r[1] = 0 /\ r[2] < 0))
  <2>1. r[1] \in Nat /\ r[2] \in Nat
    <3>1. r[1] \in 0 .. Len(path) /\ r[2] \in 0 .. Len(Spine(ty, path, r[1])) - 1
      BY StageIs
    <3> QED BY <3>1
  <2> QED BY <2>1
<1>2. ListsAround(ty, path, <<0, 0>>) = {}
  BY <1>1, AroundIs
<1> QED BY <1>2, FS_EmptySet DEF LevelIs

(* The lists around an element are those around and of its tuple.          *)
LEMMA LevelNext ==
  ASSUME NEW ty, NEW path, IsPath(ty, path), NEW m \in Nat, m + 1 <= Len(path), NEW n,
         LevelIs(ty, path, m, Len(Spine(ty, path, m)), n)
  PROVE  LevelIs(ty, path, m + 1, 0, n)
<1>1. Len(path) \in Nat /\ m \in 0 .. Len(path)
  BY DEF IsPath
<1>2. Len(Spine(ty, path, m)) \in Nat
  BY <1>1 DEF IsPath
<1>3. ASSUME NEW r \in Stages(ty, path, "Vec")
      PROVE  r[1] < m + 1 \/ (r[1] = m + 1 /\ r[2] < 0)
               <=> r[1] < m \/ (r[1] = m /\ r[2] < Len(Spine(ty, path, m)))
  <2>1. r[1] \in 0 .. Len(path) /\ r[2] \in 0 .. Len(Spine(ty, path, r[1])) - 1
    BY StageIs
  <2>2. r[1] = m => r[2] \in 0 .. Len(Spine(ty, path, m)) - 1
    BY <2>1
  <2>3. r[1] \in Nat /\ r[2] \in Int /\ ~(r[2] < 0)
    BY <2>1
  <2> QED BY <1>2, <2>2, <2>3
<1>4. ListsAround(ty, path, <<m + 1, 0>>) = ListsAround(ty, path, <<m, Len(Spine(ty, path, m))>>)
  <2> DEFINE e == Len(Spine(ty, path, m))
             A(i, j) == {r \in Stages(ty, path, "Vec") : r[1] < i \/ (r[1] = i /\ r[2] < j)}
  <2>1. A(m + 1, 0) = A(m, e)
    BY <1>3
  <2>2. ListsAround(ty, path, <<m + 1, 0>>) = A(m + 1, 0)
    BY AroundIs
  <2>3. ListsAround(ty, path, <<m, e>>) = A(m, e)
    BY <1>2, AroundIs
  <2> QED BY <2>1, <2>2, <2>3
<1> QED BY <1>4 DEF LevelIs

(* A list is around all that comes after it; nothing else is.              *)
LEMMA LevelStep ==
  ASSUME NEW ty, NEW path, IsPath(ty, path), NEW m \in 0 .. Len(path), NEW d \in Nat,
         d + 1 <= Len(Spine(ty, path, m)), NEW n \in Nat, LevelIs(ty, path, m, d, n)
  PROVE  /\ Spine(ty, path, m)[d + 1] = "Vec" => LevelIs(ty, path, m, d + 1, n + 1)
         /\ Spine(ty, path, m)[d + 1] # "Vec" => LevelIs(ty, path, m, d + 1, n)
<1> DEFINE A == ListsAround(ty, path, <<m, d>>)
           B == ListsAround(ty, path, <<m, d + 1>>)
<1>1. m \in Nat /\ d + 1 \in Nat /\ Len(Spine(ty, path, m)) \in Nat /\ d \in 0 .. Len(Spine(ty, path, m)) - 1
  BY DEF IsPath
<1>2. IsFiniteSet(A) /\ Cardinality(A) = n
  BY DEF LevelIs
<1>3. /\ A = {r \in Stages(ty, path, "Vec") : r[1] < m \/ (r[1] = m /\ r[2] < d)}
      /\ B = {r \in Stages(ty, path, "Vec") : r[1] < m \/ (r[1] = m /\ r[2] < d + 1)}
  BY <1>1, AroundIs
<1>4. ASSUME NEW r \in Stages(ty, path, "Vec")
      PROVE  /\ r[1] = m /\ r[2] < d + 1 <=> (r[1] = m /\ r[2] < d) \/ r = <<m, d>>
             /\ r = <<r[1], r[2]>>
  <2>1. /\ r = <<r[1], r[2]>> /\ r[1] \in 0 .. Len(path)
        /\ r[2] \in 0 .. Len(Spine(ty, path, r[1])) - 1
    BY StageIs
  <2>2. r[2] \in Int /\ (r[2] < d + 1 <=> r[2] < d \/ r[2] = d)
    BY <2>1
  <2>3. r = <<m, d>> <=> r[1] = m /\ r[2] = d
    <3>1. <<m, d>>[1] = m /\ <<m, d>>[2] = d
      OBVIOUS
    <3> QED BY <2>1, <3>1
  <2> QED BY <2>1, <2>2, <2>3
<1>5. <<m, d>>[1] = m /\ <<m, d>>[2] = d /\ ~(m < m) /\ ~(d < d)
  OBVIOUS
<1>6. <<m, d>> \notin A
  <2> HIDE DEF A
  <2> QED BY <1>3, <1>5
<1>7. <<m, d>> \in Stages(ty, path, "Vec") <=> Spine(ty, path, m)[d + 1] = "Vec"
  BY <1>1, StageIs
<1> HIDE DEF A, B
<1>8. CASE Spine(ty, path, m)[d + 1] = "Vec"
  <2>1. B = A \union {<<m, d>>}
    <3>1. ASSUME NEW r PROVE r \in B <=> r \in A \/ r = <<m, d>>
      BY <1>3, <1>4, <1>5, <1>7, <1>8
    <3> QED BY <3>1
  <2>2. IsFiniteSet(B) /\ Cardinality(B) = n + 1
    BY <1>2, <1>6, <2>1, FS_AddElement
  <2> QED BY <1>8, <2>2 DEF LevelIs, B
<1>9. CASE Spine(ty, path, m)[d + 1] # "Vec"
  <2>1. B = A
    BY <1>3, <1>4, <1>7, <1>9
  <2> QED BY <1>2, <1>9, <2>1 DEF LevelIs, B
<1> QED BY <1>8, <1>9

(* The wrappers between two lists, up to the second.                       *)
Within(layers, spine, v, d, k) ==
  v[k] <= d /\ IF k < Len(layers) THEN d < v[k + 1] ELSE d <= Len(spine)

(* Within a stretch there is no list.                                      *)
LEMMA NoListWithin ==
  ASSUME NEW layers, NEW inner, NEW spine, NEW v, IsCut(layers, inner, spine, v, Len(spine)),
         NEW k \in 0 .. Len(layers), NEW d \in Nat, d + 1 <= Len(spine),
         v[k] <= d, Within(layers, spine, v, d + 1, k)
  PROVE  spine[d + 1] \in AccessSteps
<1>1. /\ Len(layers) \in Nat /\ v \in [0 .. Len(layers) -> 0 .. Len(spine)] /\ Len(spine) \in Nat
      /\ \A j \in 1 .. Len(layers) : IsStretch(layers[j].access, spine, v[j - 1], v[j] - 1)
      /\ IsStretch(inner, spine, v[Len(layers)], Len(spine))
  BY DEF IsCut
<1>2. v[k] \in Nat
  <2>1. v[k] \in 0 .. Len(spine)
    BY <1>1
  <2> QED BY <2>1
<1>3. ASSUME NEW chain, NEW to \in Int, IsStretch(chain, spine, v[k], to), d + 1 <= to
      PROVE  spine[d + 1] \in AccessSteps
  <2>1. chain \in Seq(AccessSteps) /\ v[k] + Len(chain) = to /\ \A j \in 1 .. Len(chain) : chain[j] = spine[v[k] + j]
    BY <1>3 DEF IsStretch
  <2> DEFINE j == (d + 1) - v[k]
  <2>2. Len(chain) \in Nat
    BY <2>1
  <2>3. j \in 1 .. Len(chain) /\ v[k] + j = d + 1
    BY <1>2, <1>3, <2>1, <2>2
  <2>4. chain[j] \in AccessSteps
    BY <2>1, <2>3
  <2> QED BY <2>1, <2>3, <2>4
<1>4. CASE k < Len(layers)
  <2>1. k + 1 \in 1 .. Len(layers) /\ (k + 1) - 1 = k /\ k + 1 \in 0 .. Len(layers)
    BY <1>1, <1>4
  <2>2. IsStretch(layers[k + 1].access, spine, v[k], v[k + 1] - 1) /\ v[k + 1] \in Nat
    <3>1. IsStretch(layers[k + 1].access, spine, v[(k + 1) - 1], v[k + 1] - 1)
      BY <1>1, <2>1
    <3>2. v[k + 1] \in 0 .. Len(spine)
      BY <1>1, <2>1
    <3> QED BY <1>1, <2>1, <3>1, <3>2
  <2>3. d + 1 <= v[k + 1] - 1
    BY <1>4, <2>2 DEF Within
  <2> QED BY <1>3, <2>2, <2>3
<1>5. CASE ~(k < Len(layers))
  <2>1. k = Len(layers)
    BY <1>1, <1>5
  <2> QED BY <1>1, <1>3, <2>1
<1> QED BY <1>4, <1>5

(* The wrappers of the k-th stretch have k lists of their stack around     *)
(* them.                                                                   *)
LEMMA CutLevels ==
  ASSUME NEW ty, NEW path, IsPath(ty, path), NEW m \in 0 .. Len(path), NEW layers, NEW inner, NEW v,
         IsCut(layers, inner, Spine(ty, path, m), v, Len(Spine(ty, path, m))),
         NEW b \in Nat, LevelIs(ty, path, m, 0, b), NEW d \in 0 .. Len(Spine(ty, path, m))
  PROVE  /\ d < v[0] => LevelIs(ty, path, m, d, b)
         /\ \A k \in 0 .. Len(layers) :
              Within(layers, Spine(ty, path, m), v, d, k) => LevelIs(ty, path, m, d, b + k)
         /\ v[0] <= d => \E k \in 0 .. Len(layers) : Within(layers, Spine(ty, path, m), v, d, k)
<1> DEFINE s == Spine(ty, path, m)
           n == Len(layers)
           In(e, k) == Within(layers, s, v, e, k)
           A(e) == e < v[0] => LevelIs(ty, path, m, e, b)
           B(e) == \A k \in 0 .. n : In(e, k) => LevelIs(ty, path, m, e, b + k)
           C(e) == v[0] <= e => \E k \in 0 .. n : In(e, k)
           T == {e \in Nat : e <= Len(s) => A(e) /\ B(e) /\ C(e)}
<1>1. /\ n \in Nat /\ v \in [0 .. n -> 0 .. Len(s)] /\ Len(s) \in Nat
      /\ \A j \in 1 .. v[0] : s[j] = "SmartPtr"
      /\ \A k \in 1 .. n : v[k - 1] < v[k] /\ s[v[k]] = "Vec"
  BY DEF IsCut
<1>2. ASSUME NEW k \in 0 .. n PROVE v[k] \in Nat /\ v[k] <= Len(s) /\ (k < n => v[k + 1] \in Nat /\ v[k] < v[k + 1])
  <2>1. v[k] \in Nat /\ v[k] <= Len(s)
    BY <1>1
  <2>2. ASSUME k < n PROVE v[k + 1] \in Nat /\ v[k] < v[k + 1]
    <3>1. k + 1 \in 1 .. n /\ (k + 1) - 1 = k /\ k + 1 \in 0 .. n
      BY <1>1, <2>2
    <3>2. v[k + 1] \in 0 .. Len(s)
      BY <1>1, <3>1
    <3>3. v[(k + 1) - 1] < v[k + 1]
      BY <1>1, <3>1
    <3> QED BY <3>1, <3>2, <3>3
  <2> QED BY <2>1, <2>2
<1>3. 0 \in 0 .. n /\ v[0] \in Nat
  BY <1>1, <1>2
<1> HIDE DEF s, n
<1>4. 0 \in T
  <2>1. A(0)
    OBVIOUS
  <2>2. B(0)
    <3> SUFFICES ASSUME NEW k \in 0 .. n, In(0, k) PROVE LevelIs(ty, path, m, 0, b + k)
      OBVIOUS
    <3>1. v[k] = 0
      BY <1>2 DEF Within
    <3>2. k = 0
      <4> SUFFICES ASSUME k # 0 PROVE FALSE
        OBVIOUS
      <4>1. k \in 1 .. n /\ k - 1 \in 0 .. n
        BY <1>1
      <4>2. v[k - 1] < v[k] /\ v[k - 1] \in Nat
        BY <1>1, <1>2, <4>1
      <4> QED BY <3>1, <4>2
    <3> QED BY <3>2
  <2>3. C(0)
    <3>1. ASSUME v[0] <= 0 PROVE In(0, 0)
      <4>1. v[0] = 0
        BY <1>3, <3>1
      <4>2. CASE 0 < n
        <5>1. v[0] < v[0 + 1] /\ v[0 + 1] \in Nat
          BY <1>2, <1>3, <4>2
        <5> QED BY <4>1, <4>2, <5>1 DEF Within, n
      <4>3. CASE ~(0 < n)
        BY <1>1, <4>1, <4>3 DEF Within, n
      <4> QED BY <4>2, <4>3
    <3> QED BY <1>3, <3>1
  <2> QED BY <2>1, <2>2, <2>3
<1>5. ASSUME NEW e \in Nat, e \in T PROVE e + 1 \in T
  <2> SUFFICES ASSUME e + 1 <= Len(s) PROVE A(e + 1) /\ B(e + 1) /\ C(e + 1)
    OBVIOUS
  <2>0. A(e) /\ B(e) /\ C(e)
    BY <1>1, <1>5
  <2>1. ASSUME NEW l \in Nat, LevelIs(ty, path, m, e, l)
        PROVE  /\ s[e + 1] = "Vec" => LevelIs(ty, path, m, e + 1, l + 1)
               /\ s[e + 1] # "Vec" => LevelIs(ty, path, m, e + 1, l)
    BY <2>1, LevelStep DEF s
  <2>2. A(e + 1)
    <3> SUFFICES ASSUME e + 1 < v[0] PROVE LevelIs(ty, path, m, e + 1, b)
      OBVIOUS
    <3>1. e + 1 \in 1 .. v[0] /\ e < v[0]
      BY <1>3
    <3>2. s[e + 1] = "SmartPtr"
      BY <1>1, <3>1
    <3> QED BY <2>0, <2>1, <3>1, <3>2
  <2>3. B(e + 1)
    <3> SUFFICES ASSUME NEW k \in 0 .. n, In(e + 1, k) PROVE LevelIs(ty, path, m, e + 1, b + k)
      OBVIOUS
    <3>0. v[k] \in Nat /\ v[k] <= e + 1
      BY <1>2 DEF Within
    <3>1. CASE v[k] <= e
      <4>1. In(e, k)
        <5>1. CASE k < n
          BY <1>2, <3>1, <5>1 DEF Within, n
        <5>2. CASE ~(k < n)
          BY <1>1, <3>1, <5>2 DEF Within, n
        <5> QED BY <5>1, <5>2
      <4>2. LevelIs(ty, path, m, e, b + k) /\ b + k \in Nat
        BY <2>0, <4>1
      <4>3. s[e + 1] \in AccessSteps
        <5>1. IsCut(layers, inner, s, v, Len(s)) /\ k \in 0 .. Len(layers) /\ Within(layers, s, v, e + 1, k)
          BY DEF s, n
        <5> QED BY <3>1, <5>1, NoListWithin
      <4>4. s[e + 1] # "Vec"
        BY <4>3 DEF AccessSteps
      <4> QED BY <2>1, <4>2, <4>4
    <3>2. CASE ~(v[k] <= e) /\ k = 0
      <4>1. v[0] = e + 1 /\ e + 1 \in 1 .. v[0] /\ e < v[0]
        BY <3>0, <3>2
      <4>2. s[e + 1] = "SmartPtr" /\ b + k = b
        BY <1>1, <3>2, <4>1
      <4> QED BY <2>0, <2>1, <4>1, <4>2
    <3>3. CASE ~(v[k] <= e) /\ k # 0
      <4>1. v[k] = e + 1 /\ k \in 1 .. n /\ k - 1 \in 0 .. n /\ k - 1 < n /\ (k - 1) + 1 = k
        BY <1>1, <3>0, <3>3
      <4>2. s[e + 1] = "Vec" /\ v[k - 1] < e + 1 /\ v[k - 1] \in Nat
        BY <1>1, <1>2, <4>1
      <4>3. In(e, k - 1)
        BY <4>1, <4>2 DEF Within, n
      <4>4. LevelIs(ty, path, m, e, b + (k - 1)) /\ b + (k - 1) \in Nat /\ (b + (k - 1)) + 1 = b + k
        BY <2>0, <4>1, <4>3
      <4>5. LevelIs(ty, path, m, e + 1, (b + (k - 1)) + 1)
        BY <2>1, <4>2, <4>4
      <4> QED BY <4>4, <4>5
    <3> QED BY <3>1, <3>2, <3>3
  <2>4. C(e + 1)
    <3> SUFFICES ASSUME v[0] <= e + 1 PROVE \E k \in 0 .. n : In(e + 1, k)
      OBVIOUS
    <3>1. CASE v[0] = e + 1
      <4>1. CASE 0 < n
        <5>1. v[0] < v[0 + 1] /\ v[0 + 1] \in Nat
          BY <1>2, <1>3, <4>1
        <5>2. In(e + 1, 0)
          BY <3>1, <4>1, <5>1 DEF Within, n
        <5> QED BY <1>3, <5>2
      <4>2. CASE ~(0 < n)
        <5>1. In(e + 1, 0)
          BY <3>1, <4>2 DEF Within, n
        <5> QED BY <1>3, <5>1
      <4> QED BY <4>1, <4>2
    <3>2. CASE v[0] # e + 1
      <4>1. PICK k \in 0 .. n : In(e, k)
        <5>1. v[0] <= e
          BY <1>3, <3>2
        <5> QED BY <2>0, <5>1
      <4>2. v[k] \in Nat /\ v[k] <= e
        BY <1>2, <4>1 DEF Within
      <4>3. CASE k < n /\ v[k + 1] = e + 1
        <5>1. k + 1 \in 0 .. n
          BY <1>1, <4>3
        <5>2. In(e + 1, k + 1)
          <6>1. CASE k + 1 < n
            <7>1. v[k + 1] < v[(k + 1) + 1]
              BY <1>2, <5>1, <6>1
            <7> QED BY <4>3, <6>1, <7>1 DEF Within, n
          <6>2. CASE ~(k + 1 < n)
            BY <4>3, <6>2 DEF Within, n
          <6> QED BY <6>1, <6>2
        <5> QED BY <5>1, <5>2
      <4>4. CASE k < n /\ v[k + 1] # e + 1
        <5>1. v[k + 1] \in Nat /\ e < v[k + 1]
          BY <1>2, <4>1, <4>4 DEF Within, n
        <5>2. In(e + 1, k)
          BY <4>2, <4>4, <5>1 DEF Within, n
        <5> QED BY <5>2
      <4>5. CASE ~(k < n)
        <5>1. In(e + 1, k)
          BY <4>2, <4>5 DEF Within, n
        <5> QED BY <5>1
      <4> QED BY <4>3, <4>4, <4>5
    <3> QED BY <3>1, <3>2
  <2> QED BY <2>2, <2>3, <2>4
<1>6. Nat \subseteq T
  <2> HIDE DEF T
  <2> QED BY <1>4, <1>5, SetInduction
<1>7. d \in Nat /\ d <= Len(s)
  BY <1>1 DEF s
<1>8. A(d) /\ B(d) /\ C(d)
  BY <1>6, <1>7
<1> QED BY <1>8 DEF s, n

(* How many wrappers come after the k-th list, before the next or the leaf.*)
StretchLen(layers, spine, v, k) ==
  IF k < Len(layers) THEN (v[k + 1] - 1) - v[k] ELSE Len(spine) - v[k]

CutFacts(layers, inner, spine, v, k) ==
  /\ Len(layers) \in Nat /\ Len(spine) \in Nat
  /\ v[k] \in Nat /\ v[k] <= Len(spine)
  /\ k < Len(layers) =>
       /\ v[k + 1] \in Nat /\ v[k] < v[k + 1] /\ v[k + 1] <= Len(spine) /\ spine[v[k + 1]] = "Vec"
       /\ IsStretch(layers[k + 1].access, spine, v[k], v[k + 1] - 1)
       /\ layers[k + 1].option_layers_above = OptionLayers(layers[k + 1].access)
  /\ k = Len(layers) => IsStretch(inner, spine, v[k], Len(spine))

(* Where the k-th stretch begins and ends.                                 *)
LEMMA CutBounds ==
  ASSUME NEW layers, NEW inner, NEW spine, NEW v, IsCut(layers, inner, spine, v, Len(spine)),
         NEW k \in 0 .. Len(layers)
  PROVE  /\ Len(layers) \in Nat /\ Len(spine) \in Nat
         /\ v[k] \in Nat /\ v[k] <= Len(spine)
         /\ k < Len(layers) =>
              /\ v[k + 1] \in Nat /\ v[k] < v[k + 1] /\ v[k + 1] <= Len(spine) /\ spine[v[k + 1]] = "Vec"
              /\ IsStretch(layers[k + 1].access, spine, v[k], v[k + 1] - 1)
              /\ layers[k + 1].option_layers_above = OptionLayers(layers[k + 1].access)
         /\ k = Len(layers) => IsStretch(inner, spine, v[k], Len(spine))
<1>1. /\ Len(layers) \in Nat /\ v \in [0 .. Len(layers) -> 0 .. Len(spine)] /\ Len(spine) \in Nat
      /\ \A j \in 1 .. Len(layers) :
           /\ v[j - 1] < v[j] /\ spine[v[j]] = "Vec"
           /\ IsStretch(layers[j].access, spine, v[j - 1], v[j] - 1)
           /\ layers[j].option_layers_above = OptionLayers(layers[j].access)
      /\ IsStretch(inner, spine, v[Len(layers)], Len(spine))
  BY DEF IsCut
<1>2. v[k] \in Nat /\ v[k] <= Len(spine)
  BY <1>1
<1>3. ASSUME k < Len(layers)
      PROVE  /\ v[k + 1] \in Nat /\ v[k] < v[k + 1] /\ v[k + 1] <= Len(spine) /\ spine[v[k + 1]] = "Vec"
             /\ IsStretch(layers[k + 1].access, spine, v[k], v[k + 1] - 1)
             /\ layers[k + 1].option_layers_above = OptionLayers(layers[k + 1].access)
  <2>1. k + 1 \in 1 .. Len(layers) /\ (k + 1) - 1 = k /\ k + 1 \in 0 .. Len(layers)
    BY <1>1, <1>3
  <2>2. /\ v[(k + 1) - 1] < v[k + 1] /\ spine[v[k + 1]] = "Vec"
        /\ IsStretch(layers[k + 1].access, spine, v[(k + 1) - 1], v[k + 1] - 1)
        /\ layers[k + 1].option_layers_above = OptionLayers(layers[k + 1].access)
    BY <1>1, <2>1
  <2>3. v[k + 1] \in 0 .. Len(spine)
    BY <1>1, <2>1
  <2> QED BY <1>1, <2>1, <2>2, <2>3
<1> QED BY <1>1, <1>2, <1>3

(* The one list after k lists is the next.                                 *)
OneList(layers, spine, v, d, k) ==
  Within(layers, spine, v, d, k) /\ spine[d + 1] = "Vec" <=> k < Len(layers) /\ d = v[k + 1] - 1

(* Where the k-th stretch begins and ends, and what its chain is.          *)
LEMMA CutHas ==
  ASSUME NEW layers, NEW inner, NEW spine, NEW v, IsCut(layers, inner, spine, v, Len(spine)),
         NEW k \in 0 .. Len(layers)
  PROVE  CutFacts(layers, inner, spine, v, k)
BY CutBounds DEF CutFacts

(* A stretch has one list, at its end, unless it is the last.              *)
LEMMA StretchVec ==
  ASSUME NEW layers, NEW inner, NEW spine, NEW v, IsCut(layers, inner, spine, v, Len(spine)),
         NEW k \in 0 .. Len(layers), NEW d \in 0 .. Len(spine) - 1
  PROVE  OneList(layers, spine, v, d, k)
<1>1. /\ Len(layers) \in Nat /\ Len(spine) \in Nat /\ v[k] \in Nat
      /\ k < Len(layers) => v[k + 1] \in Nat /\ v[k] < v[k + 1] /\ spine[v[k + 1]] = "Vec"
  BY CutBounds
<1>2. ASSUME Within(layers, spine, v, d, k), spine[d + 1] = "Vec" PROVE k < Len(layers) /\ d = v[k + 1] - 1
  <2> SUFFICES ASSUME ~(k < Len(layers) /\ d = v[k + 1] - 1) PROVE FALSE
    OBVIOUS
  <2>1. v[k] <= d /\ d \in Nat /\ d + 1 <= Len(spine)
    BY <1>1, <1>2 DEF Within
  <2>2. Within(layers, spine, v, d + 1, k)
    <3>1. CASE k < Len(layers)
      <4>1. d < v[k + 1] /\ d # v[k + 1] - 1
        BY <1>2, <3>1 DEF Within
      <4> QED BY <1>1, <2>1, <3>1, <4>1 DEF Within
    <3>2. CASE ~(k < Len(layers))
      BY <1>1, <2>1, <3>2 DEF Within
    <3> QED BY <3>1, <3>2
  <2>3. spine[d + 1] \in AccessSteps
    BY <2>1, <2>2, NoListWithin
  <2> QED BY <1>2, <2>3 DEF AccessSteps
<1>3. ASSUME k < Len(layers), d = v[k + 1] - 1 PROVE Within(layers, spine, v, d, k) /\ spine[d + 1] = "Vec"
  BY <1>1, <1>3 DEF Within
<1> QED BY <1>2, <1>3 DEF OneList

(* The Options of a stretch are those its chain passes.                    *)
LEMMA StretchOptions ==
  ASSUME NEW of, NEW node, NEW is, NEW layers, NEW inner, NEW v,
         IsCut(layers, inner, of.ty[node].spine, v, Len(of.ty[node].spine)), NEW k \in 0 .. Len(layers)
  PROVE  (\E d \in 0 .. Len(of.ty[node].spine) - 1 :
            /\ Within(layers, of.ty[node].spine, v, d, k)
            /\ of.ty[node].spine[d + 1] = "Option" /\ Count(Place(of, node, d, is)) = 0)
          <=> Absent(Place(of, node, v[k], is), StretchLen(layers, of.ty[node].spine, v, k))
<1> DEFINE s == of.ty[node].spine
           p == Place(of, node, v[k], is)
           l == StretchLen(layers, s, v, k)
<1>1. /\ Len(layers) \in Nat /\ Len(s) \in Nat /\ v[k] \in Nat /\ v[k] <= Len(s)
      /\ k < Len(layers) => v[k + 1] \in Nat /\ v[k] < v[k + 1] /\ v[k + 1] <= Len(s) /\ s[v[k + 1]] = "Vec"
  <2>1. CutFacts(layers, inner, s, v, k)
    BY CutHas
  <2> QED BY <2>1 DEF CutFacts
<1>2. p.row = of /\ p.node = node /\ p.depth = v[k] /\ p.at = is
  BY DEF Place
<1>3. Node(p).spine = s
  BY <1>2 DEF Node
<1>4. ASSUME NEW i PROVE Inside(p, i) = Place(of, node, v[k] + i, is)
  BY DEF Inside, Place
<1>5. ASSUME NEW i PROVE WrapperAt(p, i) = s[v[k] + i + 1]
  BY <1>2, <1>3 DEF WrapperAt
<1> HIDE DEF s, p
<1>6. ASSUME NEW d \in 0 .. Len(s) - 1, Within(layers, s, v, d, k), s[d + 1] = "Option",
             Count(Place(of, node, d, is)) = 0
      PROVE  Absent(p, l)
  <2> DEFINE i == d - v[k]
  <2>1. v[k] <= d /\ v[k] + i = d /\ i \in Nat /\ v[k] + i + 1 = d + 1
    BY <1>1, <1>6 DEF Within
  <2>2. i <= l - 1 /\ l \in Int
    <3>1. CASE k < Len(layers)
      <4>1. d < v[k + 1]
        BY <1>6, <3>1 DEF Within
      <4>2. d + 1 # v[k + 1]
        BY <1>1, <1>6, <3>1
      <4>3. l = v[k + 1] - 1 - v[k]
        BY <3>1 DEF StretchLen
      <4>4. PICK x, y : x = v[k] /\ y = v[k + 1]
        OBVIOUS
      <4>5. x \in Nat /\ y \in Nat /\ d \in Nat /\ d < y /\ d + 1 # y
        BY <1>1, <3>1, <4>1, <4>2, <4>4
      <4>6. d - x <= (y - 1 - x) - 1 /\ y - 1 - x \in Int
        BY <4>5
      <4> QED BY <4>3, <4>4, <4>6
    <3>2. CASE ~(k < Len(layers))
      <4>1. l = Len(s) - v[k]
        BY <3>2 DEF StretchLen
      <4>2. v[k] \in Nat /\ Len(s) \in Nat /\ d \in 0 .. Len(s) - 1
        BY <1>1, <1>6
      <4> QED BY <4>1, <4>2
    <3> QED BY <3>1, <3>2
  <2>3. WrapperAt(p, i) = "Option" /\ Inside(p, i) = Place(of, node, d, is)
    BY <1>4, <1>5, <1>6, <2>1
  <2>4. i \in 0 .. l - 1
    BY <2>1, <2>2
  <2> QED BY <1>6, <2>3, <2>4 DEF Absent
<1>7. ASSUME Absent(p, l)
      PROVE  \E d \in 0 .. Len(s) - 1 :
               Within(layers, s, v, d, k) /\ s[d + 1] = "Option" /\ Count(Place(of, node, d, is)) = 0
  <2>1. PICK i \in 0 .. l - 1 : WrapperAt(p, i) = "Option" /\ Count(Inside(p, i)) = 0
    BY <1>7 DEF Absent
  <2> DEFINE d == v[k] + i
  <2>2. s[d + 1] = "Option" /\ Count(Place(of, node, d, is)) = 0
    BY <1>4, <1>5, <2>1
  <2>3. d \in 0 .. Len(s) - 1 /\ Within(layers, s, v, d, k)
    <3>1. CASE k < Len(layers)
      <4>1. l = (v[k + 1] - 1) - v[k]
        BY <3>1 DEF StretchLen
      <4>2. PICK x, y, to : x = v[k] /\ y = v[k + 1] /\ to = l
        OBVIOUS
      <4>3. x \in Nat /\ y \in Nat /\ to = (y - 1) - x /\ i \in 0 .. to - 1
        BY <1>1, <3>1, <4>1, <4>2
      <4>4. i \in Nat /\ x + i < y /\ x + i \in Nat /\ x <= x + i
        BY <4>3
      <4>5. i \in Nat /\ d < v[k + 1] /\ d \in Nat /\ v[k] <= d
        BY <4>2, <4>4
      <4>6. v[k + 1] <= Len(s) /\ v[k + 1] \in Nat /\ Len(s) \in Nat
        BY <1>1, <3>1
      <4>7. d \in 0 .. Len(s) - 1
        BY <4>5, <4>6
      <4> QED BY <3>1, <4>5, <4>7 DEF Within
    <3>2. CASE ~(k < Len(layers))
      <4>1. l = Len(s) - v[k]
        BY <3>2 DEF StretchLen
      <4>2. i \in Nat /\ d < Len(s) /\ d \in Nat /\ v[k] <= d
        BY <1>1, <4>1
      <4> QED BY <1>1, <3>2, <4>2 DEF Within
    <3> QED BY <3>1, <3>2
  <2> QED BY <2>2, <2>3
<1> QED BY <1>6, <1>7 DEF s, p

(* The wrappers of one kind that have n lists around them.                 *)
HereAt(ty, path, m, d, wrapper, n) ==
  /\ m \in 0 .. Len(path) /\ d \in 0 .. Len(Spine(ty, path, m)) - 1
  /\ Spine(ty, path, m)[d + 1] = wrapper /\ Cardinality(ListsAround(ty, path, <<m, d>>)) = n

(* Which they are, when the lists of the m-th element are after b others.  *)
HereIs(ty, path, m, d, wrapper, n, b, layers, v) ==
  HereAt(ty, path, m, d, wrapper, n)
    <=> /\ Spine(ty, path, m)[d + 1] = wrapper
        /\ n - b \in 0 .. Len(layers) /\ Within(layers, Spine(ty, path, m), v, d, n - b)

(* The wrappers of a node that have n lists around them are those of one   *)
(* stretch.                                                                *)
LEMMA NodeHere ==
  ASSUME NEW ty, NEW path, IsPath(ty, path), NEW m \in 0 .. Len(path), NEW layers, NEW inner, NEW v,
         IsCut(layers, inner, Spine(ty, path, m), v, Len(Spine(ty, path, m))),
         NEW b \in Nat, LevelIs(ty, path, m, 0, b), NEW d \in 0 .. Len(Spine(ty, path, m)) - 1,
         NEW wrapper \in {"Option", "Vec"}, NEW n \in Nat
  PROVE  HereIs(ty, path, m, d, wrapper, n, b, layers, v)
<1> DEFINE s == Spine(ty, path, m)
<1>0. Len(s) \in Nat /\ Len(layers) \in Nat /\ v[0] \in Nat /\ \A j \in 1 .. v[0] : s[j] = "SmartPtr"
  <2>1. Len(layers) \in Nat
    BY DEF IsCut
  <2>2. 0 \in 0 .. Len(layers)
    BY <2>1
  <2> QED BY <2>2, CutBounds DEF IsCut
<1>1. /\ d < v[0] => LevelIs(ty, path, m, d, b)
      /\ \A k \in 0 .. Len(layers) : Within(layers, s, v, d, k) => LevelIs(ty, path, m, d, b + k)
      /\ v[0] <= d => \E k \in 0 .. Len(layers) : Within(layers, s, v, d, k)
  <2>1. d \in 0 .. Len(s)
    BY <1>0
  <2> QED BY <2>1, CutLevels
<1>2. HereAt(ty, path, m, d, wrapper, n)
        <=> s[d + 1] = wrapper /\ Cardinality(ListsAround(ty, path, <<m, d>>)) = n
  BY DEF HereAt
<1> HIDE DEF s
<1>3. ASSUME s[d + 1] = wrapper, Cardinality(ListsAround(ty, path, <<m, d>>)) = n
      PROVE  n - b \in 0 .. Len(layers) /\ Within(layers, s, v, d, n - b)
  <2>1. ~(d < v[0])
    <3> SUFFICES ASSUME d < v[0] PROVE FALSE
      OBVIOUS
    <3>1. d + 1 \in 1 .. v[0]
      BY <1>0
    <3> QED BY <1>0, <1>3, <3>1
  <2>2. PICK k \in 0 .. Len(layers) : Within(layers, s, v, d, k)
    BY <1>0, <1>1, <2>1
  <2>3. LevelIs(ty, path, m, d, b + k)
    BY <1>1, <2>2
  <2>4. n = b + k
    BY <1>3, <2>3 DEF LevelIs
  <2>5. n - b = k
    BY <2>4
  <2> QED BY <2>2, <2>5
<1>4. ASSUME n - b \in 0 .. Len(layers), Within(layers, s, v, d, n - b)
      PROVE  Cardinality(ListsAround(ty, path, <<m, d>>)) = n
  <2>1. LevelIs(ty, path, m, d, b + (n - b))
    BY <1>1, <1>4
  <2>2. b + (n - b) = n
    OBVIOUS
  <2> QED BY <2>1, <2>2 DEF LevelIs
<1> QED BY <1>2, <1>3, <1>4 DEF HereIs, s

(* A stack of pointers adds no list.                                       *)
LEMMA PointedLevel ==
  ASSUME NEW ty, NEW path, IsPath(ty, path), NEW m \in 0 .. Len(path), Pointed(Spine(ty, path, m)),
         NEW b \in Nat, LevelIs(ty, path, m, 0, b)
  PROVE  LevelIs(ty, path, m, Len(Spine(ty, path, m)), b)
<1> DEFINE s == Spine(ty, path, m)
           T == {d \in Nat : d <= Len(s) => LevelIs(ty, path, m, d, b)}
<1>1. Len(s) \in Nat /\ \A j \in 1 .. Len(s) : s[j] = "SmartPtr"
  BY DEF IsPath, Pointed
<1>2. 0 \in T
  OBVIOUS
<1>3. ASSUME NEW d \in Nat, d \in T PROVE d + 1 \in T
  <2> SUFFICES ASSUME d + 1 <= Len(s) PROVE LevelIs(ty, path, m, d + 1, b)
    OBVIOUS
  <2>1. d <= Len(s) /\ d + 1 \in 1 .. Len(s)
    BY <1>1
  <2>2. LevelIs(ty, path, m, d, b) /\ s[d + 1] # "Vec"
    BY <1>1, <1>3, <2>1
  <2> QED BY <2>2, LevelStep
<1>4. Nat \subseteq T
  <2> HIDE DEF T
  <2> QED BY <1>2, <1>3, SetInduction
<1> QED BY <1>1, <1>4

(* The meaning of an index path, from the wrappers that have as many lists *)
(* around them as it goes through.                                         *)
GoneAt(of, path, is) ==
  \E m \in 0 .. Len(path) : \E d \in 0 .. Len(Spine(of.ty, path, m)) - 1 :
    HereAt(of.ty, path, m, d, "Option", Len(is)) /\ Count(Place(of, SubSeq(path, 1, m), d, is)) = 0

(* What an index path means, when what is at it is known.                  *)
LEMMA MeaningIs ==
  ASSUME NEW of, NEW path, IsPath(of.ty, path), NEW is
  PROVE  /\ GoneAt(of, path, is) => Meaning(of, path, is) = Null
         /\ \A m, d : /\ ~GoneAt(of, path, is) /\ HereAt(of.ty, path, m, d, "Vec", Len(is))
                      /\ \A n, e : HereAt(of.ty, path, n, e, "Vec", Len(is)) => n = m /\ e = d
                      => Meaning(of, path, is) = ListOf(Count(Place(of, SubSeq(path, 1, m), d, is)))
         /\ ~GoneAt(of, path, is) /\ (\A m, d : ~HereAt(of.ty, path, m, d, "Vec", Len(is)))
              => Meaning(of, path, is) = Leaf(path, is)
<1> DEFINE Here(wrapper) == {s \in Stages(of.ty, path, wrapper) :
                               Cardinality(ListsAround(of.ty, path, s)) = Len(is)}
           CountAt(s)    == Count(Place(of, SubSeq(path, 1, s[1]), s[2], is))
           absent        == \E s \in Here("Option") : CountAt(s) = 0
<1>1. Meaning(of, path, is)
        = CASE absent                      -> Null
            [] ~absent /\ Here("Vec") # {} -> ListOf(CountAt(CHOOSE s \in Here("Vec") : TRUE))
            [] OTHER                       -> Leaf(path, is)
  BY DEF Meaning
<1>2. \A m, d : <<m, d>>[1] = m /\ <<m, d>>[2] = d
  OBVIOUS
<1>3. ASSUME NEW wrapper
      PROVE  /\ \A s \in Here(wrapper) : s = <<s[1], s[2]>> /\ HereAt(of.ty, path, s[1], s[2], wrapper, Len(is))
             /\ \A m, d : HereAt(of.ty, path, m, d, wrapper, Len(is)) => <<m, d>> \in Here(wrapper)
  <2>1. /\ \A s \in Stages(of.ty, path, wrapper) :
              /\ s = <<s[1], s[2]>> /\ s[1] \in 0 .. Len(path)
              /\ s[2] \in 0 .. Len(Spine(of.ty, path, s[1])) - 1
              /\ Spine(of.ty, path, s[1])[s[2] + 1] = wrapper
         /\ \A m \in 0 .. Len(path) : \A d \in 0 .. Len(Spine(of.ty, path, m)) - 1 :
              <<m, d>> \in Stages(of.ty, path, wrapper) <=> Spine(of.ty, path, m)[d + 1] = wrapper
    BY StageIs
  <2>2. ASSUME NEW s \in Here(wrapper)
        PROVE  s = <<s[1], s[2]>> /\ HereAt(of.ty, path, s[1], s[2], wrapper, Len(is))
    <3>1. /\ s \in Stages(of.ty, path, wrapper) /\ Cardinality(ListsAround(of.ty, path, s)) = Len(is)
      OBVIOUS
    <3>2. PICK m, d : m = s[1] /\ d = s[2]
      OBVIOUS
    <3>3. s = <<m, d>>
      BY <2>1, <3>1, <3>2
    <3>4. HereAt(of.ty, path, m, d, wrapper, Len(is))
      BY <2>1, <3>1, <3>2, <3>3 DEF HereAt
    <3> QED BY <3>2, <3>3, <3>4
  <2>3. ASSUME NEW m, NEW d, HereAt(of.ty, path, m, d, wrapper, Len(is)) PROVE <<m, d>> \in Here(wrapper)
    <3>1. /\ m \in 0 .. Len(path) /\ d \in 0 .. Len(Spine(of.ty, path, m)) - 1
          /\ Spine(of.ty, path, m)[d + 1] = wrapper /\ Cardinality(ListsAround(of.ty, path, <<m, d>>)) = Len(is)
      BY <2>3 DEF HereAt
    <3>2. <<m, d>> \in Stages(of.ty, path, wrapper)
      BY <3>1, StageAt
    <3> QED BY <3>1, <3>2
  <2> QED BY <2>2, <2>3
<1> HIDE DEF Here
<1>4. absent <=> GoneAt(of, path, is)
  <2>1. ASSUME absent PROVE GoneAt(of, path, is)
    <3>1. PICK s \in Here("Option") : CountAt(s) = 0
      BY <2>1
    <3>2. HereAt(of.ty, path, s[1], s[2], "Option", Len(is))
      BY <1>3, <3>1
    <3>3. s[1] \in 0 .. Len(path) /\ s[2] \in 0 .. Len(Spine(of.ty, path, s[1])) - 1
      BY <3>2 DEF HereAt
    <3> QED BY <3>1, <3>2, <3>3 DEF GoneAt
  <2>2. ASSUME GoneAt(of, path, is) PROVE absent
    <3>1. PICK m, d : HereAt(of.ty, path, m, d, "Option", Len(is)) /\ Count(Place(of, SubSeq(path, 1, m), d, is)) = 0
      BY <2>2 DEF GoneAt
    <3>2. <<m, d>> \in Here("Option") /\ CountAt(<<m, d>>) = 0
      BY <1>2, <1>3, <3>1
    <3> QED BY <3>2
  <2> QED BY <2>1, <2>2
<1>5. ASSUME GoneAt(of, path, is) PROVE Meaning(of, path, is) = Null
  <2>1. absent
    BY <1>4, <1>5
  <2> HIDE DEF absent
  <2> QED BY <1>1, <2>1
<1>6. ASSUME NEW m, NEW d, ~GoneAt(of, path, is), HereAt(of.ty, path, m, d, "Vec", Len(is)),
             \A n, e : HereAt(of.ty, path, n, e, "Vec", Len(is)) => n = m /\ e = d
      PROVE  Meaning(of, path, is) = ListOf(Count(Place(of, SubSeq(path, 1, m), d, is)))
  <2>1. ~absent
    BY <1>4, <1>6
  <2>2. <<m, d>> \in Here("Vec")
    BY <1>3, <1>6
  <2>3. ASSUME NEW s \in Here("Vec") PROVE s = <<m, d>>
    <3>1. s = <<s[1], s[2]>> /\ HereAt(of.ty, path, s[1], s[2], "Vec", Len(is))
      BY <1>3
    <3>2. s[1] = m /\ s[2] = d
      BY <1>6, <3>1
    <3> QED BY <3>1, <3>2
  <2>4. (CHOOSE s \in Here("Vec") : TRUE) = <<m, d>> /\ Here("Vec") # {}
    BY <2>2, <2>3
  <2>5. CountAt(<<m, d>>) = Count(Place(of, SubSeq(path, 1, m), d, is))
    BY <1>2
  <2> HIDE DEF absent, CountAt
  <2>6. Meaning(of, path, is) = ListOf(CountAt(CHOOSE s \in Here("Vec") : TRUE))
    BY <1>1, <2>1, <2>4
  <2> QED BY <2>4, <2>5, <2>6
<1>7. ASSUME ~GoneAt(of, path, is), \A m, d : ~HereAt(of.ty, path, m, d, "Vec", Len(is))
      PROVE  Meaning(of, path, is) = Leaf(path, is)
  <2>1. ~absent
    BY <1>4, <1>7
  <2>2. Here("Vec") = {}
    BY <1>3, <1>7
  <2> HIDE DEF absent, CountAt
  <2> QED BY <1>1, <2>1, <2>2
<1> QED BY <1>5, <1>6, <1>7

-----------------------------------------------------------------------------
(* What an index path means for a leaf whose lists are all its own.        *)

(* The wrappers of a node between the lists that an index path goes        *)
(* through and what comes next: absent, the list, or the leaf.             *)
StretchGone(of, node, layers, v, k, is) ==
  Absent(Place(of, node, v[k], is), StretchLen(layers, of.ty[node].spine, v, k))
StretchEnd(of, node, layers, v, k, is) ==
  Inside(Place(of, node, v[k], is), StretchLen(layers, of.ty[node].spine, v, k))
Outcome(absent, x) == IF absent THEN Null ELSE x

EndsAtList(of, node, layers, v, k, is) ==
  StretchEnd(of, node, layers, v, k, is) = Place(of, node, v[k + 1] - 1, is)

(* What a stretch ends at is its list.                                     *)
LEMMA ListEnd ==
  ASSUME NEW of, NEW node, NEW is, NEW layers, NEW inner, NEW v,
         IsCut(layers, inner, of.ty[node].spine, v, Len(of.ty[node].spine)),
         NEW k \in 0 .. Len(layers), k < Len(layers)
  PROVE  EndsAtList(of, node, layers, v, k, is)
<1>1. v[k] \in Nat /\ v[k + 1] \in Nat
  BY CutBounds
<1>2. v[k] + ((v[k + 1] - 1) - v[k]) = v[k + 1] - 1
  BY <1>1
<1>3. StretchLen(layers, of.ty[node].spine, v, k) = (v[k + 1] - 1) - v[k]
  BY DEF StretchLen
<1>4. ASSUME NEW i PROVE Inside(Place(of, node, v[k], is), i) = Place(of, node, v[k] + i, is)
  BY DEF Inside, Place
<1> QED BY <1>2, <1>3, <1>4 DEF StretchEnd, EndsAtList

(* A path is the longest of the paths it starts with.                      *)
LEMMA WholePath ==
  ASSUME NEW ty, NEW path \in Seq(Nat)
  PROVE  /\ Len(path) \in Nat /\ SubSeq(path, 1, Len(path)) = path /\ SubSeq(path, 1, 0) = <<>>
         /\ Spine(ty, path, Len(path)) = ty[path].spine /\ Spine(ty, path, 0) = ty[<<>>].spine
<1>1. Len(path) \in Nat /\ SubSeq(path, 1, Len(path)) = path /\ SubSeq(path, 1, 0) = <<>>
  OBVIOUS
<1> QED BY <1>1 DEF Spine

OwnMeant(of, path, layers, v, is) ==
  Outcome(StretchGone(of, path, layers, v, Len(is), is),
          IF Len(is) < Len(layers) THEN ListOf(Count(StretchEnd(of, path, layers, v, Len(is), is)))
          ELSE Leaf(path, is))

(* A leaf whose lists are all its own: the stretch after the lists of the  *)
(* index path, and what it ends at.                                        *)
LEMMA OwnMeaning ==
  ASSUME NEW of, NEW path \in Seq(Nat), IsPath(of.ty, path),
         \A m \in 0 .. Len(path) - 1 : Pointed(Spine(of.ty, path, m)),
         NEW layers, NEW inner, NEW v,
         IsCut(layers, inner, of.ty[path].spine, v, Len(of.ty[path].spine)),
         NEW is \in Seq(Nat), Len(is) <= Len(layers)
  PROVE  Meaning(of, path, is) = OwnMeant(of, path, layers, v, is)
<1> DEFINE L == Len(path)
           n == Len(is)
           s == of.ty[path].spine
<1>1. /\ L \in Nat /\ SubSeq(path, 1, L) = path /\ Spine(of.ty, path, L) = s /\ n \in Nat
      /\ n \in 0 .. Len(layers) /\ Len(layers) \in Nat
  <2>1. n \in Nat /\ Len(layers) \in Nat
    BY DEF IsCut
  <2> QED BY <2>1, WholePath
<1>2. LevelIs(of.ty, path, L, 0, 0)
  <2> DEFINE T == {m \in Nat : m <= L => LevelIs(of.ty, path, m, 0, 0)}
  <2>1. 0 \in T
    BY LevelStart
  <2>2. ASSUME NEW m \in Nat, m \in T PROVE m + 1 \in T
    <3> SUFFICES ASSUME m + 1 <= L PROVE LevelIs(of.ty, path, m + 1, 0, 0)
      OBVIOUS
    <3>1. m \in 0 .. L /\ m \in 0 .. L - 1 /\ LevelIs(of.ty, path, m, 0, 0)
      BY <1>1, <2>2
    <3>2. LevelIs(of.ty, path, m, Len(Spine(of.ty, path, m)), 0)
      BY <3>1, PointedLevel
    <3> QED BY <3>2, LevelNext
  <2>3. Nat \subseteq T
    <3> HIDE DEF T
    <3> QED BY <2>1, <2>2, SetInduction
  <2> QED BY <1>1, <2>3
<1> HIDE DEF L, s
<1>3. ASSUME NEW m, NEW d, NEW wrapper \in {"Option", "Vec"}, HereAt(of.ty, path, m, d, wrapper, n)
      PROVE  m = L /\ d \in 0 .. Len(s) - 1 /\ s[d + 1] = wrapper /\ Within(layers, s, v, d, n)
  <2>1. /\ m \in 0 .. L /\ d \in 0 .. Len(Spine(of.ty, path, m)) - 1
        /\ Spine(of.ty, path, m)[d + 1] = wrapper
    BY <1>3 DEF HereAt, L
  <2>2. m = L
    <3> SUFFICES ASSUME m # L PROVE FALSE
      OBVIOUS
    <3>1. m \in 0 .. L - 1
      BY <1>1, <2>1
    <3>2. Pointed(Spine(of.ty, path, m)) /\ Spine(of.ty, path, m) \in Seq(RawWrappers)
      BY <2>1, <3>1 DEF IsPath, L
    <3>3. d + 1 \in DOMAIN Spine(of.ty, path, m)
      BY <2>1, <3>2
    <3> QED BY <2>1, <3>2, <3>3 DEF Pointed
  <2>3. Within(layers, s, v, d, n - 0)
    <3>1. /\ d \in 0 .. Len(Spine(of.ty, path, L)) - 1 /\ L \in 0 .. L /\ 0 \in Nat
          /\ IsCut(layers, inner, Spine(of.ty, path, L), v, Len(Spine(of.ty, path, L)))
          /\ HereAt(of.ty, path, L, d, wrapper, n)
      BY <1>1, <1>3, <2>1, <2>2 DEF s
    <3>2. HereIs(of.ty, path, L, d, wrapper, n, 0, layers, v)
      BY <1>1, <1>2, <3>1, NodeHere DEF L
    <3>3. Within(layers, Spine(of.ty, path, L), v, d, n - 0)
      BY <3>1, <3>2 DEF HereIs
    <3> QED BY <1>1, <3>3
  <2>4. n - 0 = n
    BY <1>1
  <2> QED BY <1>1, <2>1, <2>2, <2>3, <2>4
<1>4. ASSUME NEW d \in 0 .. Len(s) - 1, NEW wrapper \in {"Option", "Vec"}, s[d + 1] = wrapper,
             Within(layers, s, v, d, n)
      PROVE  HereAt(of.ty, path, L, d, wrapper, n)
  <2>1. n - 0 = n /\ L \in 0 .. L
    BY <1>1
  <2>2. HereIs(of.ty, path, L, d, wrapper, n, 0, layers, v)
    BY <1>1, <1>2, <1>4, <2>1, NodeHere DEF L, s
  <2> QED BY <1>1, <1>4, <2>1, <2>2 DEF HereIs
<1>5. GoneAt(of, path, is) <=> StretchGone(of, path, layers, v, n, is)
  <2>1. GoneAt(of, path, is)
          <=> \E d \in 0 .. Len(s) - 1 :
                Within(layers, s, v, d, n) /\ s[d + 1] = "Option" /\ Count(Place(of, path, d, is)) = 0
    <3>1. ASSUME GoneAt(of, path, is)
          PROVE  \E d \in 0 .. Len(s) - 1 :
                   Within(layers, s, v, d, n) /\ s[d + 1] = "Option" /\ Count(Place(of, path, d, is)) = 0
      <4>1. PICK m, d : HereAt(of.ty, path, m, d, "Option", n) /\ Count(Place(of, SubSeq(path, 1, m), d, is)) = 0
        BY <3>1 DEF GoneAt
      <4>2. m = L /\ d \in 0 .. Len(s) - 1 /\ s[d + 1] = "Option" /\ Within(layers, s, v, d, n)
        BY <1>3, <4>1
      <4>3. SubSeq(path, 1, m) = path
        BY <1>1, <4>2
      <4> QED BY <4>1, <4>2, <4>3
    <3>2. ASSUME NEW d \in 0 .. Len(s) - 1, Within(layers, s, v, d, n), s[d + 1] = "Option",
                 Count(Place(of, path, d, is)) = 0
          PROVE  GoneAt(of, path, is)
      <4>1. HereAt(of.ty, path, L, d, "Option", n)
        BY <1>4, <3>2
      <4>2. L \in 0 .. L /\ d \in 0 .. Len(Spine(of.ty, path, L)) - 1 /\ SubSeq(path, 1, L) = path
        BY <1>1
      <4> QED BY <3>2, <4>1, <4>2 DEF GoneAt, L
    <3> QED BY <3>1, <3>2
  <2>2. (\E d \in 0 .. Len(s) - 1 :
           Within(layers, s, v, d, n) /\ s[d + 1] = "Option" /\ Count(Place(of, path, d, is)) = 0)
          <=> StretchGone(of, path, layers, v, n, is)
    BY <1>1, StretchOptions DEF StretchGone, s
  <2> QED BY <2>1, <2>2
<1>6. ASSUME NEW d \in 0 .. Len(s) - 1
      PROVE  Within(layers, s, v, d, n) /\ s[d + 1] = "Vec" <=> n < Len(layers) /\ d = v[n + 1] - 1
  <2>1. OneList(layers, s, v, d, n)
    BY <1>1, StretchVec DEF s
  <2> QED BY <2>1 DEF OneList
<1>7. CASE GoneAt(of, path, is)
  BY <1>5, <1>7, MeaningIs DEF Outcome, OwnMeant
<1>8. CASE ~GoneAt(of, path, is) /\ n < Len(layers)
  <2> DEFINE d == v[n + 1] - 1
  <2>1. v[n + 1] \in Nat /\ v[n] \in Nat /\ v[n] < v[n + 1] /\ v[n + 1] <= Len(s) /\ Len(s) \in Nat
    BY <1>1, <1>8, CutBounds DEF s
  <2>2. d \in 0 .. Len(s) - 1
    BY <2>1
  <2>3. HereAt(of.ty, path, L, d, "Vec", n)
    BY <1>4, <1>6, <1>8, <2>2
  <2>4. \A m, e : HereAt(of.ty, path, m, e, "Vec", n) => m = L /\ e = d
    BY <1>3, <1>6
  <2> HIDE DEF d
  <2>5. Meaning(of, path, is) = ListOf(Count(Place(of, SubSeq(path, 1, L), d, is)))
    BY <1>8, <2>3, <2>4, MeaningIs
  <2>6. StretchEnd(of, path, layers, v, n, is) = Place(of, path, d, is)
    <3>1. EndsAtList(of, path, layers, v, n, is)
      BY <1>1, <1>8, ListEnd
    <3> QED BY <3>1 DEF EndsAtList, d
  <2> QED BY <1>1, <1>5, <1>8, <2>5, <2>6 DEF Outcome, OwnMeant
<1>9. CASE ~GoneAt(of, path, is) /\ ~(n < Len(layers))
  <2>1. \A m, d : ~HereAt(of.ty, path, m, d, "Vec", n)
    BY <1>3, <1>6, <1>9
  <2> QED BY <1>5, <1>9, <2>1, MeaningIs DEF Outcome, OwnMeant
<1> QED BY <1>7, <1>8, <1>9

(* Of an element of a wrapped tuple: the lists of the tuple come first.    *)
TupleMeaning(of, path, outer, v, layers, w, is) ==
  LET n == Len(is)
      a == Len(outer)
  IN IF n < a
     THEN Outcome(StretchGone(of, <<>>, outer, v, n, is),
                  ListOf(Count(StretchEnd(of, <<>>, outer, v, n, is))))
     ELSE Outcome((n = a /\ StretchGone(of, <<>>, outer, v, n, is)) \/ StretchGone(of, path, layers, w, n - a, is),
                  IF n - a < Len(layers)
                  THEN ListOf(Count(StretchEnd(of, path, layers, w, n - a, is)))
                  ELSE Leaf(path, is))

TupleCase(of, path, outer, last, v, layers, inner, w, is) ==
  /\ path \in Seq(Nat) /\ Len(path) = 1 /\ IsPath(of.ty, path)
  /\ IsCut(outer, last, of.ty[<<>>].spine, v, Len(of.ty[<<>>].spine))
  /\ IsCut(layers, inner, of.ty[path].spine, w, Len(of.ty[path].spine))
  /\ is \in Seq(Nat) /\ Len(is) <= Len(outer) + Len(layers)

(* An element of a wrapped tuple: the stretches of the tuple, and then the *)
(* element's, of which the first continues the tuple's last.               *)
LEMMA ElementMeaning ==
  ASSUME NEW of, NEW path, NEW outer, NEW last, NEW v, NEW layers, NEW inner, NEW w, NEW is,
         TupleCase(of, path, outer, last, v, layers, inner, w, is)
  PROVE  Meaning(of, path, is) = TupleMeaning(of, path, outer, v, layers, w, is)
<1> DEFINE n == Len(is)
           a == Len(outer)
           s == of.ty[<<>>].spine
           t == of.ty[path].spine
<1>0. /\ path \in Seq(Nat) /\ Len(path) = 1 /\ IsPath(of.ty, path)
      /\ IsCut(outer, last, of.ty[<<>>].spine, v, Len(of.ty[<<>>].spine))
      /\ IsCut(layers, inner, of.ty[path].spine, w, Len(of.ty[path].spine))
      /\ is \in Seq(Nat) /\ Len(is) <= Len(outer) + Len(layers)
  BY DEF TupleCase
<1> USE <1>0
<1>1. /\ n \in Nat /\ a \in Nat /\ Len(layers) \in Nat /\ Len(path) = 1
      /\ SubSeq(path, 1, 1) = path /\ SubSeq(path, 1, 0) = <<>>
      /\ Spine(of.ty, path, 0) = s /\ Spine(of.ty, path, 1) = t
  <2>1. n \in Nat /\ a \in Nat /\ Len(layers) \in Nat
    BY DEF IsCut
  <2>2. SubSeq(path, 1, Len(path)) = path /\ SubSeq(path, 1, 0) = <<>>
        /\ Spine(of.ty, path, Len(path)) = t /\ Spine(of.ty, path, 0) = s
    BY WholePath
  <2> QED BY <2>1, <2>2
<1>2. LevelIs(of.ty, path, 0, 0, 0)
  BY LevelStart
<1> HIDE DEF s, t
<1>3. /\ IsCut(outer, last, s, v, Len(s)) /\ IsCut(layers, inner, t, w, Len(t))
      /\ s = of.ty[<<>>].spine /\ t = of.ty[path].spine
  BY DEF s, t
<1>4. LevelIs(of.ty, path, 1, 0, a)
  <2>1. v[a] \in Nat /\ v[a] <= Len(s) /\ Len(s) \in Nat /\ a \in 0 .. a
    BY <1>1, <1>3, CutBounds
  <2>2. Within(outer, s, v, Len(s), a)
    BY <1>1, <2>1 DEF Within
  <2>3. /\ 0 \in 0 .. Len(path) /\ Len(s) \in 0 .. Len(s) /\ 0 + a = a /\ 0 \in Nat
        /\ 0 + 1 <= Len(path) /\ 0 + 1 = 1
    BY <1>1, <2>1
  <2>4. LevelIs(of.ty, path, 0, Len(s), 0 + a)
    BY <1>1, <1>2, <1>3, <2>1, <2>2, <2>3, CutLevels
  <2>5. LevelIs(of.ty, path, 0, Len(Spine(of.ty, path, 0)), a)
    BY <1>1, <2>3, <2>4
  <2>6. LevelIs(of.ty, path, 0 + 1, 0, a)
    BY <2>3, <2>5, LevelNext
  <2> QED BY <2>3, <2>6
<1>5. ASSUME NEW d \in 0 .. Len(s) - 1, NEW wrapper \in {"Option", "Vec"}
      PROVE  HereAt(of.ty, path, 0, d, wrapper, n)
               <=> s[d + 1] = wrapper /\ n <= a /\ Within(outer, s, v, d, n)
  <2>1. 0 \in 0 .. Len(path) /\ n - 0 = n /\ 0 \in Nat /\ (n \in 0 .. a <=> n <= a)
    BY <1>1
  <2>2. HereAt(of.ty, path, 0, d, wrapper, n)
          <=> Spine(of.ty, path, 0)[d + 1] = wrapper /\ n - 0 \in 0 .. a /\ Within(outer, Spine(of.ty, path, 0), v, d, n - 0)
    <3>1. d \in 0 .. Len(Spine(of.ty, path, 0)) - 1 /\ n \in Nat
          /\ IsCut(outer, last, Spine(of.ty, path, 0), v, Len(Spine(of.ty, path, 0)))
      BY <1>1, <1>3
    <3>2. HereIs(of.ty, path, 0, d, wrapper, n, 0, outer, v)
      BY <1>2, <2>1, <3>1, NodeHere
    <3> QED BY <3>2 DEF HereIs
  <2> QED BY <1>1, <2>1, <2>2
<1>6. ASSUME NEW d \in 0 .. Len(t) - 1, NEW wrapper \in {"Option", "Vec"}
      PROVE  HereAt(of.ty, path, 1, d, wrapper, n)
               <=> t[d + 1] = wrapper /\ a <= n /\ Within(layers, t, w, d, n - a)
  <2>1. 1 \in 0 .. Len(path) /\ (n - a \in 0 .. Len(layers) <=> a <= n)
    BY <1>1
  <2>2. HereAt(of.ty, path, 1, d, wrapper, n)
          <=> Spine(of.ty, path, 1)[d + 1] = wrapper /\ n - a \in 0 .. Len(layers) /\ Within(layers, Spine(of.ty, path, 1), w, d, n - a)
    <3>1. d \in 0 .. Len(Spine(of.ty, path, 1)) - 1 /\ n \in Nat /\ a \in Nat
          /\ IsCut(layers, inner, Spine(of.ty, path, 1), w, Len(Spine(of.ty, path, 1)))
      BY <1>1, <1>3
    <3>2. HereIs(of.ty, path, 1, d, wrapper, n, a, layers, w)
      BY <1>4, <2>1, <3>1, NodeHere
    <3> QED BY <3>2 DEF HereIs
  <2> QED BY <1>1, <2>1, <2>2
<1>7. ASSUME NEW m, NEW d, NEW wrapper, HereAt(of.ty, path, m, d, wrapper, n)
      PROVE  (m = 0 /\ d \in 0 .. Len(s) - 1) \/ (m = 1 /\ d \in 0 .. Len(t) - 1)
  <2>1. m \in 0 .. Len(path) /\ d \in 0 .. Len(Spine(of.ty, path, m)) - 1
    BY <1>7 DEF HereAt
  <2>2. m = 0 \/ m = 1
    BY <1>1, <2>1
  <2> QED BY <1>1, <2>1, <2>2
<1> DEFINE GoneOuter == n <= a /\ StretchGone(of, <<>>, outer, v, n, is)
           GoneInner == a <= n /\ StretchGone(of, path, layers, w, n - a, is)
<1>8. GoneAt(of, path, is) <=> GoneOuter \/ GoneInner
  <2> DEFINE G0 == \E d \in 0 .. Len(s) - 1 :
                     Within(outer, s, v, d, n) /\ s[d + 1] = "Option" /\ Count(Place(of, <<>>, d, is)) = 0
             G1 == \E d \in 0 .. Len(t) - 1 :
                     Within(layers, t, w, d, n - a) /\ t[d + 1] = "Option" /\ Count(Place(of, path, d, is)) = 0
  <2>1. n <= a => (G0 <=> StretchGone(of, <<>>, outer, v, n, is))
    <3>1. n <= a => n \in 0 .. Len(outer)
      BY <1>1
    <3> QED BY <3>1, StretchOptions DEF StretchGone, s
  <2>2. a <= n => (G1 <=> StretchGone(of, path, layers, w, n - a, is))
    <3>1. a <= n => n - a \in 0 .. Len(layers)
      BY <1>1
    <3> QED BY <3>1, StretchOptions DEF StretchGone, t
  <2>3. ASSUME GoneAt(of, path, is) PROVE (n <= a /\ G0) \/ (a <= n /\ G1)
    <3>1. PICK m, d : HereAt(of.ty, path, m, d, "Option", n) /\ Count(Place(of, SubSeq(path, 1, m), d, is)) = 0
      BY <2>3 DEF GoneAt
    <3>2. CASE m = 0 /\ d \in 0 .. Len(s) - 1
      BY <1>1, <1>5, <3>1, <3>2
    <3>3. CASE m = 1 /\ d \in 0 .. Len(t) - 1
      BY <1>1, <1>6, <3>1, <3>3
    <3> QED BY <1>7, <3>1, <3>2, <3>3
  <2>4. ASSUME n <= a, NEW d \in 0 .. Len(s) - 1,
               Within(outer, s, v, d, n), s[d + 1] = "Option", Count(Place(of, <<>>, d, is)) = 0
        PROVE  GoneAt(of, path, is)
    <3>1. HereAt(of.ty, path, 0, d, "Option", n)
      BY <1>5, <2>4
    <3>2. 0 \in 0 .. Len(path) /\ d \in 0 .. Len(Spine(of.ty, path, 0)) - 1
      BY <1>1
    <3> QED BY <1>1, <2>4, <3>1, <3>2 DEF GoneAt
  <2>5. ASSUME a <= n, NEW d \in 0 .. Len(t) - 1,
               Within(layers, t, w, d, n - a), t[d + 1] = "Option", Count(Place(of, path, d, is)) = 0
        PROVE  GoneAt(of, path, is)
    <3>1. HereAt(of.ty, path, 1, d, "Option", n)
      BY <1>6, <2>5
    <3>2. 1 \in 0 .. Len(path) /\ d \in 0 .. Len(Spine(of.ty, path, 1)) - 1
      BY <1>1
    <3> QED BY <1>1, <2>5, <3>1, <3>2 DEF GoneAt
  <2> QED BY <2>1, <2>2, <2>3, <2>4, <2>5
<1>9. ASSUME NEW d \in 0 .. Len(s) - 1, n <= a
      PROVE  Within(outer, s, v, d, n) /\ s[d + 1] = "Vec" <=> n < a /\ d = v[n + 1] - 1
  <2>1. n \in 0 .. Len(outer)
    BY <1>1, <1>9
  <2>2. IsCut(outer, last, s, v, Len(s))
    BY <1>3
  <2>3. OneList(outer, s, v, d, n)
    BY <2>1, <2>2, StretchVec
  <2> QED BY <2>3 DEF OneList
<1>10. ASSUME NEW d \in 0 .. Len(t) - 1, a <= n
       PROVE  Within(layers, t, w, d, n - a) /\ t[d + 1] = "Vec" <=> n - a < Len(layers) /\ d = w[(n - a) + 1] - 1
  <2>1. n - a \in 0 .. Len(layers)
    BY <1>1, <1>10
  <2>2. IsCut(layers, inner, t, w, Len(t))
    BY <1>3
  <2>3. OneList(layers, t, w, d, n - a)
    BY <2>1, <2>2, StretchVec
  <2> QED BY <2>3 DEF OneList
<1>11. CASE GoneAt(of, path, is)
  <2>1. Meaning(of, path, is) = Null
    BY <1>11, MeaningIs
  <2>2. CASE n < a
    <3>1. StretchGone(of, <<>>, outer, v, n, is)
      BY <1>1, <1>8, <1>11, <2>2
    <3> QED BY <2>1, <2>2, <3>1 DEF TupleMeaning, Outcome
  <2>3. CASE ~(n < a)
    <3>1. (n = a /\ StretchGone(of, <<>>, outer, v, n, is)) \/ StretchGone(of, path, layers, w, n - a, is)
      BY <1>1, <1>8, <1>11, <2>3
    <3> QED BY <2>1, <2>3, <3>1 DEF TupleMeaning, Outcome
  <2> QED BY <2>2, <2>3
<1>12. CASE ~GoneAt(of, path, is) /\ n < a
  <2> DEFINE d == v[n + 1] - 1
  <2>0. n \in 0 .. Len(outer) /\ ~(a <= n) /\ n <= a
    BY <1>1, <1>12
  <2>1. v[n + 1] \in Nat /\ v[n] \in Nat /\ v[n] < v[n + 1] /\ v[n + 1] <= Len(s) /\ Len(s) \in Nat
    <3>1. CutFacts(outer, last, s, v, n)
      BY <1>3, <2>0, CutHas
    <3> QED BY <1>1, <1>12, <3>1 DEF CutFacts
  <2>2. d \in 0 .. Len(s) - 1
    BY <2>1
  <2>3. HereAt(of.ty, path, 0, d, "Vec", n)
    BY <1>5, <1>9, <1>12, <2>0, <2>2
  <2>4. ASSUME NEW m, NEW e, HereAt(of.ty, path, m, e, "Vec", n) PROVE m = 0 /\ e = d
    <3>1. CASE m = 1 /\ e \in 0 .. Len(t) - 1
      BY <1>6, <2>0, <2>4, <3>1
    <3>2. CASE m = 0 /\ e \in 0 .. Len(s) - 1
      BY <1>5, <1>9, <2>0, <2>4, <3>2
    <3> QED BY <1>7, <2>4, <3>1, <3>2
  <2> HIDE DEF d
  <2>5. Meaning(of, path, is) = ListOf(Count(Place(of, SubSeq(path, 1, 0), d, is)))
    BY <1>12, <2>3, <2>4, MeaningIs
  <2>6. StretchEnd(of, <<>>, outer, v, n, is) = Place(of, <<>>, d, is)
    <3>1. EndsAtList(of, <<>>, outer, v, n, is)
      BY <1>3, <1>12, <2>0, ListEnd
    <3> QED BY <3>1 DEF EndsAtList, d
  <2>7. ~StretchGone(of, <<>>, outer, v, n, is)
    BY <1>8, <1>12, <2>0
  <2> QED BY <1>1, <1>12, <2>5, <2>6, <2>7 DEF TupleMeaning, Outcome
<1>13. CASE ~GoneAt(of, path, is) /\ ~(n < a) /\ n - a < Len(layers)
  <2> DEFINE k == n - a
             d == w[k + 1] - 1
  <2>0. k \in 0 .. Len(layers) /\ a <= n /\ (n <= a => n = a)
    BY <1>1, <1>13
  <2>1. w[k + 1] \in Nat /\ w[k] \in Nat /\ w[k] < w[k + 1] /\ w[k + 1] <= Len(t) /\ Len(t) \in Nat
    <3> HIDE DEF k
    <3>1. k < Len(layers)
      BY <1>13 DEF k
    <3> QED BY <1>3, <2>0, <3>1, CutBounds
  <2>2. d \in 0 .. Len(t) - 1
    <3>1. PICK x, y : x = w[k + 1] /\ y = Len(t)
      OBVIOUS
    <3>2. x \in Nat /\ y \in Nat /\ 0 < x /\ x <= y
      BY <2>1, <3>1
    <3>3. x - 1 \in 0 .. y - 1
      BY <3>2
    <3> QED BY <3>1, <3>3
  <2>3. HereAt(of.ty, path, 1, d, "Vec", n)
    BY <1>6, <1>10, <1>13, <2>0, <2>2
  <2>4. ASSUME NEW m, NEW e, HereAt(of.ty, path, m, e, "Vec", n) PROVE m = 1 /\ e = d
    <3>1. CASE m = 1 /\ e \in 0 .. Len(t) - 1
      BY <1>6, <1>10, <2>0, <2>4, <3>1
    <3>2. CASE m = 0 /\ e \in 0 .. Len(s) - 1
      BY <1>5, <1>9, <1>13, <2>4, <3>2
    <3> QED BY <1>7, <2>4, <3>1, <3>2
  <2>5. Meaning(of, path, is) = ListOf(Count(Place(of, SubSeq(path, 1, 1), d, is)))
    <3> HIDE DEF d
    <3> QED BY <1>13, <2>3, <2>4, MeaningIs
  <2>6. StretchEnd(of, path, layers, w, k, is) = Place(of, path, d, is)
    <3> HIDE DEF k
    <3>1. k < Len(layers)
      BY <1>13 DEF k
    <3>2. EndsAtList(of, path, layers, w, k, is)
      BY <1>3, <2>0, <3>1, ListEnd
    <3> QED BY <3>2 DEF EndsAtList
  <2>7. ~((n = a /\ StretchGone(of, <<>>, outer, v, n, is)) \/ StretchGone(of, path, layers, w, k, is))
    BY <1>1, <1>8, <1>13, <2>0
  <2> HIDE DEF d
  <2> QED BY <1>1, <1>13, <2>5, <2>6, <2>7 DEF TupleMeaning, Outcome
<1>14. CASE ~GoneAt(of, path, is) /\ ~(n < a) /\ ~(n - a < Len(layers))
  <2>0. a <= n /\ (n <= a => n = a)
    BY <1>1, <1>14
  <2>1. ASSUME NEW m, NEW d, HereAt(of.ty, path, m, d, "Vec", n) PROVE FALSE
    <3>1. CASE m = 1 /\ d \in 0 .. Len(t) - 1
      BY <1>6, <1>10, <1>14, <2>0, <2>1, <3>1
    <3>2. CASE m = 0 /\ d \in 0 .. Len(s) - 1
      BY <1>5, <1>9, <1>14, <2>1, <3>2
    <3> QED BY <1>7, <2>1, <3>1, <3>2
  <2>2. Meaning(of, path, is) = Leaf(path, is)
    BY <1>14, <2>1, MeaningIs
  <2>3. ~((n = a /\ StretchGone(of, <<>>, outer, v, n, is)) \/ StretchGone(of, path, layers, w, n - a, is))
    BY <1>1, <1>8, <1>14, <2>0
  <2> QED BY <1>14, <2>2, <2>3 DEF TupleMeaning, Outcome
<1> QED BY <1>11, <1>12, <1>13, <1>14

-----------------------------------------------------------------------------
(* Leaves.                                                                 *)

(* A place with all its wrappers off, and a leaf there.                    *)
IsLeafAt(q) == IsBare(q) /\ Node(q).base \in LeafBases

(* A leaf is read by value, by the references it is behind, or by any.     *)
LEMMA LeafValues ==
  ASSUME NEW q, IsLeafAt(q), NEW r \in Nat, NEW column
  PROVE  /\ r = 0 => ByValue(Refs(q, r)) = Leaf(q.node, q.at)
         /\ ByRef(Refs(q, r), r) = Leaf(q.node, q.at)
         /\ r > 0 => ByAnyRef(Refs(q, r)) = Leaf(q.node, q.at)
         /\ r = 1 => InList(Refs(q, r), column) = Leaf(q.node, q.at)
<1>1. Value(Refs(q, 0)) = Leaf(q.node, q.at)
  BY DEF Value, Refs, Expr, IsLeafAt
<1>2. DerefTimes(Refs(q, r), r) = Refs(q, 0)
  <2>1. r \in 0 .. r /\ r - r = 0
    OBVIOUS
  <2> QED BY <2>1, DerefRefs
<1>3. Referent(Refs(q, r)) = Refs(q, 0) /\ Refs(q, r).refs = r
  BY RefsAre
<1> QED BY <1>1, <1>2, <1>3 DEF ByValue, ByRef, ByAnyRef, InList

(* What the last boundary of a list makes of what is found there.          *)
FoundInList(column, x, absent, q) ==
  IF HasInnerOption(column.shape) THEN Found(x, absent, Refs(q, 1)) ELSE x = Refs(q, 1) /\ ~absent

(* The leaf of an item is read behind one reference.                       *)
LEMMA InListLeaf ==
  ASSUME NEW q, IsLeafAt(q), NEW absent \in BOOLEAN, NEW column, NEW x, FoundInList(column, x, absent, q)
  PROVE  ReadFound(x, column) = Outcome(absent, Leaf(q.node, q.at))
<1>1. CASE HasInnerOption(column.shape)
  <2>1. Found(x, absent, Refs(q, 1)) /\ 1 \in Nat
    BY <1>1 DEF FoundInList
  <2>2. InList(Refs(q, 1), column) = Leaf(q.node, q.at)
    BY <2>1, LeafValues
  <2>3. Match(x, LAMBDA y : InList(y, column), Null) = Outcome(absent, Leaf(q.node, q.at))
    BY <2>1, <2>2 DEF Found, Match, Outcome
  <2> QED BY <1>1, <2>3 DEF ReadFound
<1>2. CASE ~HasInnerOption(column.shape)
  <2>1. x = Refs(q, 1) /\ ~absent /\ 1 \in Nat
    BY <1>2 DEF FoundInList
  <2>2. InList(Refs(q, 1), column) = Leaf(q.node, q.at)
    BY <2>1, LeafValues
  <2> QED BY <1>2, <2>1, <2>2 DEF Outcome, ReadFound
<1> QED BY <1>1, <1>2

(* The first wrapper after the outer pointers of a node, or after a list,  *)
(* may be anything; a chain of one Option is that Option.                  *)
LEMMA SingleOption ==
  ASSUME NEW p, IsPlace(p), NEW chain, Segment(p, chain), IsSinglePlainOption(chain)
  PROVE  /\ Len(chain) = 1 /\ HasOption(chain) /\ chain # <<>> /\ IsWrapped(p, "Option", 1)
         /\ Absent(p, Len(chain)) <=> Count(p) = 0
<1>1. Len(chain) = 1 /\ HasOption(chain) /\ chain # <<>> /\ chain[1] = "Option"
  BY DEF IsSinglePlainOption, HasOption
<1>2. WrapperAt(p, 0) = "Option" /\ p.depth + 1 <= Len(Node(p).spine) /\ p.depth \in Nat
  <2>1. chain[1] = WrapperAt(p, 1 - 1) /\ p.depth + 1 <= Len(Node(p).spine)
    BY <1>1 DEF Segment
  <2> QED BY <1>1, <2>1 DEF IsPlace
<1>3. IsWrapped(p, "Option", 1)
  <2>1. Node(p).spine[p.depth + 1] = "Option"
    BY <1>2 DEF WrapperAt
  <2>2. \A i \in 1 .. 1 : i = 1
    OBVIOUS
  <2> QED BY <1>2, <2>1, <2>2 DEF IsWrapped
<1>4. Inside(p, 0) = p
  BY InsidePlace, <1>2
<1>5. Absent(p, 1) <=> Count(p) = 0
  <2>1. \A i \in 0 .. 1 - 1 : i = 0
    OBVIOUS
  <2>2. 0 \in 0 .. 1 - 1
    OBVIOUS
  <2> QED BY <1>2, <1>4, <2>1, <2>2 DEF Absent
<1> QED BY <1>1, <1>3, <1>5

(* The leaf behind a reference to the last list's item, or to a field.     *)
LEMMA PlaceLeafInList ==
  ASSUME NEW p, IsPlace(p), NEW chain, Segment(p, chain), IsLeafAt(Inside(p, Len(chain))),
         NEW column, column.shape.inner_access = chain, HasInnerOption(column.shape) <=> HasOption(chain),
         ~ProjectsLeaf(column)
  PROVE  LeafInList(Refs(p, 1), column) = Outcome(Absent(p, Len(chain)), Leaf(p.node, p.at))
<1> DEFINE q == Inside(p, Len(chain))
           gone == Absent(p, Len(chain))
           found == AccessChainToRef(Refs(p, 1), chain).expr
<1>1. FirstIsOption(p, Len(chain), 1) /\ 1 \in Nat
  BY DEF FirstIsOption
<1>2. /\ found = IF chain = <<>> \/ IsSinglePlainOption(chain) THEN Refs(p, 1)
                 ELSE IF HasOption(chain) THEN Opt(gone, Refs(q, 1)) ELSE Refs(q, 1)
      /\ ~HasOption(chain) => ~gone
  BY <1>1, PlaceAccess
<1>3. q.node = p.node /\ q.at = p.at /\ (chain = <<>> => q = p) /\ gone \in BOOLEAN
  <2>1. Len(chain) \in Nat /\ p.depth + Len(chain) <= Len(Node(p).spine) /\ (chain = <<>> => Len(chain) = 0)
    BY DEF Segment
  <2>2. q = Place(p.row, p.node, p.depth + Len(chain), p.at) /\ (Len(chain) = 0 => q = p)
    BY <2>1, InsidePlace
  <2> QED BY <2>1, <2>2 DEF Place, Absent
<1>4. LeafInList(Refs(p, 1), column) = ReadFound(found, column)
  <2>1. (CASE ProjectsLeaf(column) -> ProjectedLeaf(Refs(p, 1), column)
           [] ~ProjectsLeaf(column) /\ (chain = <<>> \/ IsSinglePlainOption(chain)) -> Refs(p, 1)
           [] OTHER -> found) = found
    <3> HIDE DEF q, gone, found
    <3> QED BY <1>2
  <2> QED BY <2>1 DEF LeafInList, LeafAccess
<1> HIDE DEF found, q
<1>5. FoundInList(column, found, gone, q)
  <2>1. CASE IsSinglePlainOption(chain)
    <3>1. /\ Len(chain) = 1 /\ HasOption(chain) /\ IsWrapped(p, "Option", 1)
          /\ gone <=> Count(p) = 0
      BY <2>1, SingleOption
    <3>2. Found(Refs(p, 1), Count(p) = 0, Refs(Inside(p, 1), 1))
      BY <1>1, <3>1, FoundPlace
    <3> QED BY <1>2, <2>1, <3>1, <3>2 DEF FoundInList, Found, q
  <2>2. CASE ~IsSinglePlainOption(chain) /\ HasOption(chain)
    <3>1. chain # <<>>
      BY <2>2 DEF HasOption
    <3>2. Found(Opt(gone, Refs(q, 1)), gone, Refs(q, 1))
      BY <1>1, <1>3, FoundOpt
    <3> QED BY <1>2, <2>2, <3>1, <3>2 DEF FoundInList
  <2>3. CASE ~IsSinglePlainOption(chain) /\ ~HasOption(chain)
    BY <1>2, <1>3, <2>3 DEF FoundInList
  <2> QED BY <2>1, <2>2, <2>3
<1>6. IsLeafAt(q)
  BY DEF q
<1> HIDE DEF gone
<1>7. ReadFound(found, column) = Outcome(gone, Leaf(q.node, q.at))
  BY <1>3, <1>5, <1>6, InListLeaf
<1> QED BY <1>3, <1>4, <1>7 DEF gone

-----------------------------------------------------------------------------
(* Elements of tuples.                                                     *)

(* The pointers of a place are taken off one by one.                       *)
LEMMA DerefPlace ==
  ASSUME NEW p, IsPlace(p), NEW n \in Nat, IsWrapped(p, "SmartPtr", n)
  PROVE  DerefTimes(Refs(p, 0), n) = Refs(Inside(p, n), 0)
<1>1. CASE n = 0
  <2>1. DerefTimes(Refs(p, 0), 0) = Refs(p, 0)
    <3>1. 0 \in Nat /\ 0 \in 0 .. 0 /\ 0 - 0 = 0
      OBVIOUS
    <3> QED BY <3>1, DerefRefs
  <2>2. Inside(p, 0) = p
    <3>1. p.depth + 0 <= Len(Node(p).spine)
      BY DEF IsPlace
    <3> QED BY <3>1, InsidePlace
  <2> QED BY <1>1, <2>1, <2>2
<1>2. CASE n # 0
  <2>1. 0 \in Nat /\ 0 < n /\ n - 0 = n
    BY <1>2
  <2> QED BY <2>1, DerefPointers
<1> QED BY <1>1, <1>2

(* The element of a tuple.                                                 *)
LEMMA TupleItem ==
  ASSUME NEW q, IsPlace(q), IsBare(q), Node(q).base = "Tuple", NEW i, Append(q.node, i) \in DOMAIN q.row.ty
  PROVE  Item(Refs(q, 0), i) = Refs(Place(q.row, Append(q.node, i), 0, q.at), 0)
<1>1. q.depth = Len(Node(q).spine) /\ Len(Node(q).spine) \in Nat
  BY DEF IsPlace, IsBare
<1>2. Inside(q, 0) = q
  BY <1>1, InsidePlace
<1>3. Pointers(q) = 0
  <2>1. \A n \in 0 .. Len(Node(q).spine) - q.depth : n = 0
    BY <1>1
  <2>2. 0 \in 0 .. Len(Node(q).spine) - q.depth
    BY <1>1
  <2>3. IsWrapped(q, "SmartPtr", 0)
    BY <1>1 DEF IsWrapped
  <2>4. ~IsWrapped(q, "SmartPtr", 1)
    BY <1>1 DEF IsWrapped
  <2>5. Pointers(q) = CHOOSE n \in 0 .. Len(Node(q).spine) - q.depth :
                        IsWrapped(q, "SmartPtr", n) /\ ~IsWrapped(Inside(q, n), "SmartPtr", 1)
    BY DEF Pointers
  <2> QED BY <1>2, <2>1, <2>2, <2>3, <2>4, <2>5
<1>4. Refs(q, 0).t = "place" /\ Refs(q, 0).of = q /\ At(q).t = "place" /\ At(q).of = q
  BY DEF Refs, At, Expr
<1>5. Target(Refs(q, 0)) = At(q)
  BY <1>2, <1>3, <1>4 DEF Target
<1> HIDE DEF IsPlace
<1>6. Item(Refs(q, 0), i) = At(Place(q.row, Append(q.node, i), 0, q.at))
  BY <1>4, <1>5 DEF Item
<1> QED BY <1>6 DEF At, Refs

(* The place of an element behind its pointers, and the way there.         *)
ElementAt(q, column, i) == Place(q.row, Append(q.node, column.path[i]), column.outer[i + 1], q.at)
IsTuplePlace(q, column, i) ==
  /\ IsPlace(q) /\ IsBare(q) /\ Node(q).base = "Tuple"
  /\ Append(q.node, column.path[i]) \in DOMAIN q.row.ty
  /\ IsPlace(Place(q.row, Append(q.node, column.path[i]), 0, q.at))
  /\ column.outer[i + 1] \in Nat
  /\ IsWrapped(Place(q.row, Append(q.node, column.path[i]), 0, q.at), "SmartPtr", column.outer[i + 1])

(* The element of a tuple, behind its own pointers.                        *)
LEMMA ElementIs ==
  ASSUME NEW q, NEW column, NEW i, IsTuplePlace(q, column, i)
  PROVE  ElementStep(Refs(q, 0), i, column) = Refs(ElementAt(q, column, i), 0)
<1> DEFINE c == Place(q.row, Append(q.node, column.path[i]), 0, q.at)
           n == column.outer[i + 1]
<1>1. Item(Refs(q, 0), column.path[i]) = Refs(c, 0)
  BY TupleItem DEF IsTuplePlace
<1>2. IsPlace(c) /\ n \in Nat /\ IsWrapped(c, "SmartPtr", n)
  BY DEF IsTuplePlace
<1>3. c = [row |-> q.row, node |-> Append(q.node, column.path[i]), depth |-> 0, at |-> q.at]
  BY DEF Place
<1> HIDE DEF c, n
<1>4. DerefTimes(Refs(c, 0), n) = Refs(Inside(c, n), 0)
  BY <1>2, DerefPlace
<1>5. Inside(c, n) = ElementAt(q, column, i)
  <2>1. c.depth + n = n /\ Inside(c, n) = [c EXCEPT !.depth = c.depth + n]
    BY <1>2, <1>3 DEF Inside
  <2> QED BY <1>3, <2>1 DEF ElementAt, Place, n
<1> QED BY <1>1, <1>4, <1>5 DEF ElementStep, n

(* The element of the tuple that is behind a reference.                    *)
LEMMA ProjectedElement ==
  ASSUME NEW q, NEW column, Len(column.path) = 1, Len(column.outer) = 2, IsTuplePlace(q, column, 1)
  PROVE  ProjectElement(Refs(q, 1), column) = Refs(ElementAt(q, column, 1), 1)
<1>1. Deref(Refs(q, 1)) = Refs(q, 0)
  <2>1. 1 \in Nat /\ 1 \in 0 .. 1 /\ 1 - 1 = 0
    OBVIOUS
  <2> QED BY <2>1, DerefRefs DEF Deref
<1>2. ElementStep(Refs(q, 0), 1, column) = Refs(ElementAt(q, column, 1), 0)
  BY ElementIs
<1>3. 1 + 1 = 2
  OBVIOUS
<1>4. ProjectElement(Refs(q, 1), column) = Ref(Refs(ElementAt(q, column, 1), 0))
  BY <1>1, <1>2, <1>3 DEF ProjectElement, ElementStep
<1> QED BY <1>4, RefsAre

(* The leaf of an element, in the innermost list of its tuple.             *)
LEMMA ElementLeafInList ==
  ASSUME NEW p, IsPlace(p), NEW last, Segment(p, last),
         NEW c, IsPlace(c), NEW inner, Segment(c, inner), IsLeafAt(Inside(c, Len(inner))),
         NEW column, ProjectsLeaf(column), column.parent_access = last, LeafProjectionAccess(column) = inner,
         ProjectElement(Refs(Inside(p, Len(last)), 1), column) = Refs(c, 1),
         HasInnerOption(column.shape) <=> HasOption(last) \/ HasOption(inner)
  PROVE  LeafInList(Refs(p, 1), column)
           = Outcome(Absent(p, Len(last)) \/ Absent(c, Len(inner)), Leaf(c.node, c.at))
<1> DEFINE q == Inside(p, Len(last))
           e == Inside(c, Len(inner))
           gone == Absent(p, Len(last))
           lost == Absent(c, Len(inner))
           element == ElementAccess(Refs(c, 1), inner)
           found == ProjectedLeaf(Refs(p, 1), column)
<1>1. 1 \in Nat /\ FirstIsOption(p, Len(last), 1) /\ FirstIsOption(c, Len(inner), 1)
  BY DEF FirstIsOption
<1>2. e.node = c.node /\ e.at = c.at /\ (inner = <<>> => e = c) /\ gone \in BOOLEAN /\ lost \in BOOLEAN
  <2>1. Len(inner) \in Nat /\ c.depth + Len(inner) <= Len(Node(c).spine) /\ (inner = <<>> => Len(inner) = 0)
    BY DEF Segment
  <2>2. e = Place(c.row, c.node, c.depth + Len(inner), c.at) /\ (Len(inner) = 0 => e = c)
    BY <2>1, InsidePlace
  <2> QED BY <2>1, <2>2 DEF Place, Absent
<1>3. last = <<>> => q = p
  <2>1. last = <<>> => Len(last) = 0 /\ p.depth + 0 <= Len(Node(p).spine)
    BY DEF IsPlace
  <2> QED BY <2>1, InsidePlace
<1>4. IsSinglePlainOption(last) => HasOption(last)
  BY DEF IsSinglePlainOption, HasOption
<1>5. IsSinglePlainOption(inner) => HasOption(inner)
  BY DEF IsSinglePlainOption, HasOption
<1> HIDE DEF e, q
<1>6. /\ HasOption(inner) => element = Opt(lost, Refs(e, 1))
      /\ ~HasOption(inner) => element = Refs(e, 1) /\ ~lost
  <2>1. /\ AccessChainToRef(Refs(c, 1), inner).expr
              = IF inner = <<>> \/ IsSinglePlainOption(inner) THEN Refs(c, 1)
                ELSE IF HasOption(inner) THEN Opt(lost, Refs(e, 1)) ELSE Refs(e, 1)
        /\ HasOption(inner) => AccessChainToOptionRef(Refs(c, 1), inner) = Opt(lost, Refs(e, 1))
        /\ ~HasOption(inner) => ~lost
    BY <1>1, PlaceAccess DEF e
  <2> HIDE DEF lost
  <2> QED BY <1>2, <1>5, <2>1 DEF ElementAccess
<1>7. /\ HasOption(last) => AccessChainToOptionRef(Refs(p, 1), last) = Opt(gone, Refs(q, 1))
      /\ ~HasOption(last) => AccessChainToRef(Refs(p, 1), last).expr = Refs(q, 1) /\ ~gone
  <2>1. /\ AccessChainToRef(Refs(p, 1), last).expr
              = IF last = <<>> \/ IsSinglePlainOption(last) THEN Refs(p, 1)
                ELSE IF HasOption(last) THEN Opt(gone, Refs(q, 1)) ELSE Refs(q, 1)
        /\ HasOption(last) => AccessChainToOptionRef(Refs(p, 1), last) = Opt(gone, Refs(q, 1))
        /\ ~HasOption(last) => ~gone
    BY <1>1, PlaceAccess DEF q
  <2> HIDE DEF gone
  <2> QED BY <1>3, <1>4, <2>1
<1>8. ProjectElement(Refs(q, 1), column) = Refs(c, 1)
  BY DEF q
<1>9. gone \in BOOLEAN /\ lost \in BOOLEAN
  BY <1>2
<1> HIDE DEF gone, lost, element
<1>10. FoundInList(column, found, gone \/ lost, e)
  <2>1. CASE ~HasOption(last)
    <3>1. found = element
      BY <1>7, <1>8, <2>1 DEF ProjectedLeaf, element
    <3>2. CASE HasOption(inner)
      <4>1. Found(Opt(lost, Refs(e, 1)), lost, Refs(e, 1))
        BY <1>1, <1>9, FoundOpt
      <4>2. (gone \/ lost) = lost
        BY <1>7, <1>9, <2>1
      <4> QED BY <1>6, <3>1, <3>2, <4>1, <4>2 DEF FoundInList
    <3>3. CASE ~HasOption(inner)
      BY <1>6, <1>7, <2>1, <3>1, <3>3 DEF FoundInList
    <3> QED BY <3>2, <3>3
  <2>2. CASE HasOption(last)
    <3>1. found = Opt(gone \/ lost, Refs(e, 1))
      <4>1. /\ IsSome(Opt(gone, Refs(q, 1))) <=> ~gone
            /\ IsNone(Opt(gone, Refs(q, 1))) <=> gone
            /\ ~gone => Opened(Opt(gone, Refs(q, 1))).of = Refs(q, 1)
        BY <1>9, OpenedOpt
      <4>2. Some(Refs(e, 1)) = Opt(FALSE, Refs(e, 1))
        BY <1>1, RefsAre
      <4>3. IsOption(Opt(lost, Refs(e, 1)))
        BY <1>9, OpenedOpt
      <4>4. CASE HasOption(inner)
        <5>1. found = AndThen(Opt(gone, Refs(q, 1)), LAMBDA t : ElementAccess(ProjectElement(t, column), inner))
          BY <1>7, <2>2, <4>4 DEF ProjectedLeaf
        <5>2. found = IF gone THEN None ELSE Opt(lost, Refs(e, 1))
          BY <1>6, <1>8, <4>1, <4>3, <4>4, <5>1 DEF AndThen, element
        <5> QED BY <5>2 DEF Opt
      <4>5. CASE ~HasOption(inner)
        <5>1. found = Map(Opt(gone, Refs(q, 1)), LAMBDA t : ElementAccess(ProjectElement(t, column), inner))
          BY <1>7, <2>2, <4>5 DEF ProjectedLeaf
        <5>2. found = IF gone THEN None ELSE Some(Refs(e, 1))
          BY <1>6, <1>8, <4>1, <4>5, <5>1 DEF Map, element
        <5> QED BY <1>6, <4>2, <4>5, <5>2 DEF Opt
      <4> QED BY <4>4, <4>5
    <3>2. Found(Opt(gone \/ lost, Refs(e, 1)), gone \/ lost, Refs(e, 1))
      <4>1. (gone \/ lost) \in BOOLEAN
        OBVIOUS
      <4> QED BY <1>1, <4>1, FoundOpt
    <3> QED BY <2>2, <3>1, <3>2 DEF FoundInList
  <2> QED BY <2>1, <2>2
<1>11. LeafInList(Refs(p, 1), column) = ReadFound(found, column)
  BY DEF LeafInList, LeafAccess
<1> HIDE DEF found
<1>12. ReadFound(found, column) = Outcome(gone \/ lost, Leaf(e.node, e.at))
  <2>1. IsLeafAt(e) /\ (gone \/ lost) \in BOOLEAN
    BY DEF e
  <2> QED BY <1>10, <2>1, InListLeaf
<1> QED BY <1>2, <1>11, <1>12 DEF gone, lost

-----------------------------------------------------------------------------
(* Leaves without a list.                                                  *)

(* A match that uses the leaf by value.                                    *)
LEMMA MatchByValue ==
  ASSUME NEW q, IsLeafAt(q), NEW absent \in BOOLEAN, NEW x, Found(x, absent, Refs(q, 0))
  PROVE  Match(x, ByValue, Null) = Outcome(absent, Leaf(q.node, q.at))
<1>1. 0 \in Nat
  OBVIOUS
<1>2. ByValue(Refs(q, 0)) = Leaf(q.node, q.at)
  BY <1>1, LeafValues
<1> QED BY <1>2 DEF Found, Match, Outcome

(* A match that uses the leaf by references.                               *)
LEMMA MatchByAnyRef ==
  ASSUME NEW q, IsLeafAt(q), NEW absent \in BOOLEAN, NEW r \in Nat, r > 0, NEW x, Found(x, absent, Refs(q, r))
  PROVE  Match(x, ByAnyRef, Null) = Outcome(absent, Leaf(q.node, q.at))
<1>1. ByAnyRef(Refs(q, r)) = Leaf(q.node, q.at)
  BY LeafValues
<1> QED BY <1>1 DEF Found, Match, Outcome

(* A single Option, and a chain, in what an Option holds behind r          *)
(* references or in the place of an Option.                                *)
LEMMA OptionLeaf ==
  ASSUME NEW q, IsLeafAt(q), NEW absent \in BOOLEAN, NEW access, NEW column,
         column.leaf.spec \in {"Numeric", "Bool"} => Found(access, absent, Refs(q, 0)),
         SomeReceiver(column) \in Nat \ {0},
         Found(Ref(access), absent, Refs(q, SomeReceiver(column)))
  PROVE  ReadOption(access, column) = Outcome(absent, Leaf(q.node, q.at))
<1>1. CASE column.leaf.spec \in {"Numeric", "Bool"}
  <2>1. Match(access, ByValue, Null) = Outcome(absent, Leaf(q.node, q.at))
    BY <1>1, MatchByValue
  <2> QED BY <1>1, <2>1 DEF ReadOption
<1>2. CASE column.leaf.spec = "Decimal"
  <2>1. ByRef(Refs(q, SomeReceiver(column)), SomeReceiver(column)) = Leaf(q.node, q.at)
    BY LeafValues
  <2>2. Match(Ref(access), LAMBDA x : ByRef(x, SomeReceiver(column)), Null) = Outcome(absent, Leaf(q.node, q.at))
    BY <2>1 DEF Found, Match, Outcome
  <2> QED BY <1>2, <2>2 DEF ReadOption
<1>3. CASE column.leaf.spec \notin {"Numeric", "Bool", "Decimal"}
  <2>1. SomeReceiver(column) > 0
    OBVIOUS
  <2>2. Match(Ref(access), ByAnyRef, Null) = Outcome(absent, Leaf(q.node, q.at))
    BY <2>1, MatchByAnyRef
  <2> QED BY <1>3, <2>2 DEF ReadOption
<1> QED BY <1>1, <1>2, <1>3

(* A chain of Options and pointers reads the leaf after it.                *)
LEMMA OptionChainLeaf ==
  ASSUME NEW q, IsLeafAt(q), NEW absent \in BOOLEAN, NEW access, NEW column, NEW chain,
         column.shape.inner_access = chain, chain # <<>>, ~IsSinglePlainOption(chain),
         AccessChainToOptionRef(Ref(access), chain) = Opt(absent, Refs(q, 1)),
         AccessChainToRef(Ref(access), chain).expr = Opt(absent, Refs(q, 1)),
         IsOnlyOptions(chain) => AccessChainToOptionRef(access, chain) = Opt(absent, Refs(q, 1))
  PROVE  ReadOptionChain(access, column) = Outcome(absent, Leaf(q.node, q.at))
<1> DEFINE o == Opt(absent, Refs(q, 1))
<1>1. 1 \in Nat /\ 0 \in Nat /\ 1 > 0 /\ 1 + 1 = 2 /\ 2 \in Nat
  OBVIOUS
<1>2. Found(o, absent, Refs(q, 1)) /\ Found(Ref(o), absent, Refs(q, 2))
  BY <1>1, FoundOpt
<1>3. AccessChainToOptionRef(Ref(access), column.shape.inner_access) = o
  OBVIOUS
<1>4. CASE column.leaf.spec \in {"Numeric", "Bool"}
  <2>1. Deref(Refs(q, 1)) = Refs(q, 0)
    <3>1. 1 \in 0 .. 1 /\ 1 - 1 = 0
      OBVIOUS
    <3> QED BY <1>1, <3>1, DerefRefs DEF Deref
  <2>2. Copied(o) = Opt(absent, Refs(q, 0))
    <3>1. /\ IsSome(o) <=> ~absent
          /\ IsNone(o) <=> absent
          /\ ~absent => Opened(o).of = Refs(q, 1)
      BY OpenedOpt
    <3>2. Some(Refs(q, 0)) = Opt(FALSE, Refs(q, 0))
      BY <1>1, RefsAre
    <3> HIDE DEF o
    <3>3. Copied(o) = IF absent THEN None ELSE Some(Refs(q, 0))
      BY <2>1, <3>1 DEF Copied, Map
    <3> QED BY <3>2, <3>3 DEF Opt
  <2>3. Found(Opt(absent, Refs(q, 0)), absent, Refs(q, 0))
    BY <1>1, FoundOpt
  <2>4. Match(Copied(o), ByValue, Null) = Outcome(absent, Leaf(q.node, q.at))
    BY <2>2, <2>3, MatchByValue
  <2> HIDE DEF o
  <2> QED BY <1>3, <1>4, <2>4 DEF ReadOptionChain
<1>5. CASE column.leaf.spec = "Decimal"
  <2>1. ByRef(Refs(q, 2), 2) = Leaf(q.node, q.at)
    BY <1>1, LeafValues
  <2> HIDE DEF o
  <2>2. Match(Ref(o), LAMBDA x : ByRef(x, 2), Null) = Outcome(absent, Leaf(q.node, q.at))
    BY <1>2, <2>1 DEF Found, Match, Outcome
  <2> QED BY <1>3, <1>5, <2>2 DEF ReadOptionChain
<1>6. CASE column.leaf.spec \notin {"Numeric", "Bool", "Decimal"}
  <2>1. Match(o, ByAnyRef, Null) = Outcome(absent, Leaf(q.node, q.at))
    BY <1>1, <1>2, MatchByAnyRef
  <2>2. (IF IsOnlyOptions(chain) THEN CollapseOptionsToRef(access, Len(chain))
         ELSE AccessChainToRef(Ref(access), chain).expr) = o
    BY DEF AccessChainToOptionRef
  <2>3. ReadOptionChain(access, column)
          = Match(IF IsOnlyOptions(chain) THEN CollapseOptionsToRef(access, Len(chain))
                  ELSE AccessChainToRef(Ref(access), chain).expr, ByAnyRef, Null)
    BY <1>6 DEF ReadOptionChain
  <2> QED BY <2>1, <2>2, <2>3
<1> QED BY <1>4, <1>5, <1>6

(* A field, or an element that is not under an Option of its tuple.        *)
LEMMA PlaceScalar ==
  ASSUME NEW p, IsPlace(p), NEW chain, Segment(p, chain), IsLeafAt(Inside(p, Len(chain))),
         chain # <<>> => WrapperAt(p, 0) = "Option",
         NEW column, column.shape.inner_access = chain, column.shape = Bare <=> chain = <<>>,
         SomeReceiver(column) = 1
  PROVE  Scalar(Refs(p, 0), column) = Outcome(Absent(p, Len(chain)), Leaf(p.node, p.at))
<1> DEFINE q == Inside(p, Len(chain))
           gone == Absent(p, Len(chain))
<1>1. /\ 0 \in Nat /\ 1 \in Nat /\ Len(chain) \in Nat /\ p.depth + Len(chain) <= Len(Node(p).spine)
      /\ chain = <<>> <=> Len(chain) = 0
      /\ Ref(Refs(p, 0)) = Refs(p, 1)
  <2>1. Len(chain) \in Nat /\ p.depth + Len(chain) <= Len(Node(p).spine) /\ (chain = <<>> <=> Len(chain) = 0)
    BY DEF Segment
  <2> QED BY <2>1, RefsAre
<1>2. q.node = p.node /\ q.at = p.at /\ (chain = <<>> => q = p) /\ gone \in BOOLEAN
  <2>1. q = Place(p.row, p.node, p.depth + Len(chain), p.at) /\ (Len(chain) = 0 => q = p)
    BY <1>1, InsidePlace
  <2> QED BY <1>1, <2>1 DEF Place, Absent
<1>3. CASE chain = <<>>
  <2>1. ~gone
    BY <1>1, <1>3, AbsentNext
  <2>2. Scalar(Refs(p, 0), column) = ReadBare(Refs(p, 0), column)
    BY <1>3 DEF Scalar, IsSinglePlainOption
  <2>3. ByValue(Refs(p, 0)) = Leaf(p.node, p.at) /\ ByRef(Refs(p, 1), 1) = Leaf(p.node, p.at)
        /\ ByAnyRef(Refs(p, 1)) = Leaf(p.node, p.at)
    <3>1. IsLeafAt(p) /\ 1 > 0
      BY <1>2, <1>3
    <3> QED BY <1>1, <3>1, LeafValues
  <2> HIDE DEF gone
  <2>4. ReadBare(Refs(p, 0), column) = Leaf(p.node, p.at)
    BY <1>1, <2>3 DEF ReadBare
  <2> QED BY <2>1, <2>2, <2>4 DEF Outcome, gone
<1>4. CASE IsSinglePlainOption(chain)
  <2>1. Len(chain) = 1 /\ chain # <<>> /\ IsWrapped(p, "Option", 1) /\ (gone <=> Count(p) = 0)
    BY <1>4, SingleOption
  <2>2. Scalar(Refs(p, 0), column) = ReadOption(Refs(p, 0), column)
    BY <1>4, <2>1 DEF Scalar
  <2>3. Found(Refs(p, 0), gone, Refs(q, 0)) /\ Found(Refs(p, 1), gone, Refs(q, 1))
    <3>1. Found(Refs(p, 0), Count(p) = 0, Refs(Inside(p, 1), 0)) /\ Found(Refs(p, 1), Count(p) = 0, Refs(Inside(p, 1), 1))
      BY <1>1, <2>1, FoundPlace
    <3> QED BY <2>1, <3>1 DEF Found
  <2> HIDE DEF q, gone
  <2>4. IsLeafAt(q)
    BY DEF q
  <2>5. ReadOption(Refs(p, 0), column) = Outcome(gone, Leaf(q.node, q.at))
    <3>1. SomeReceiver(column) \in Nat \ {0} /\ Found(Ref(Refs(p, 0)), gone, Refs(q, SomeReceiver(column)))
      BY <1>1, <2>3
    <3> QED BY <1>2, <2>3, <2>4, <3>1, OptionLeaf
  <2> QED BY <1>2, <2>2, <2>5 DEF gone
<1>5. CASE chain # <<>> /\ ~IsSinglePlainOption(chain)
  <2>1. Scalar(Refs(p, 0), column) = ReadOptionChain(Refs(p, 0), column)
    BY <1>5 DEF Scalar
  <2>2. HasOption(chain)
    <3>1. Len(chain) > 0 /\ 1 \in 1 .. Len(chain) /\ 1 - 1 = 0
      BY <1>1, <1>5
    <3>2. chain[1] = "Option" /\ 1 \in DOMAIN chain
      BY <1>5, <3>1 DEF Segment
    <3> QED BY <3>2 DEF HasOption
  <2>3. \A r \in Nat : FirstIsOption(p, Len(chain), r)
    BY <1>5 DEF FirstIsOption
  <2>4. AccessChainToRef(Refs(p, 1), chain).expr = Opt(gone, Refs(q, 1))
    BY <1>1, <1>5, <2>2, <2>3, PlaceAccess
  <2>5. AccessChainToOptionRef(Refs(p, 1), chain) = Opt(gone, Refs(q, 1))
    BY <1>1, <2>2, <2>3, PlaceAccess
  <2>6. AccessChainToOptionRef(Refs(p, 0), chain) = Opt(gone, Refs(q, 1))
    BY <1>1, <2>2, <2>3, PlaceAccess
  <2> HIDE DEF q, gone
  <2>7. IsLeafAt(q)
    BY DEF q
  <2>8. ReadOptionChain(Refs(p, 0), column) = Outcome(gone, Leaf(q.node, q.at))
    BY <1>1, <1>2, <1>5, <2>4, <2>5, <2>6, <2>7, OptionChainLeaf
  <2> QED BY <1>2, <2>1, <2>8 DEF gone
<1> QED BY <1>3, <1>4, <1>5

(* An element under an Option of its tuple.                                *)
LEMMA OptionScalar ==
  ASSUME NEW c, IsPlace(c), NEW chain, Segment(c, chain), IsLeafAt(Inside(c, Len(chain))),
         chain # <<>> => WrapperAt(c, 0) = "Option", NEW gone \in BOOLEAN,
         NEW column, column.kind = "TupleParentOption", column.shape.inner_access = PrependOption(chain),
         ~IsVec(column.shape), HasInnerOption(column.shape), column.shape # Bare
  PROVE  Scalar(Opt(gone, Refs(c, IF IsCopyProjection(column) THEN 0 ELSE 1)), column)
           = Outcome(gone \/ Absent(c, Len(chain)), Leaf(c.node, c.at))
<1> DEFINE q == Inside(c, Len(chain))
           lost == Absent(c, Len(chain))
           r == IF IsCopyProjection(column) THEN 0 ELSE 1
           access == Opt(gone, Refs(c, r))
           whole == PrependOption(chain)
<1>1. /\ r \in Nat /\ r + 1 \in Nat /\ 0 \in Nat /\ 1 \in Nat /\ Len(chain) \in Nat
      /\ c.depth + Len(chain) <= Len(Node(c).spine)
      /\ chain = <<>> <=> Len(chain) = 0
      /\ chain \in Seq(AccessSteps)
  BY DEF Segment
<1>2. q.node = c.node /\ q.at = c.at /\ (chain = <<>> => q = c) /\ lost \in BOOLEAN
  <2>1. q = Place(c.row, c.node, c.depth + Len(chain), c.at) /\ (Len(chain) = 0 => q = c)
    BY <1>1, InsidePlace
  <2> QED BY <1>1, <2>1 DEF Place, Absent
<1>3. whole # <<>> /\ (IsSinglePlainOption(whole) <=> chain = <<>>)
  <2>1. <<"Option">> \in Seq(AccessSteps) /\ Len(<<"Option">>) = 1
    BY DEF AccessSteps
  <2>2. Len(whole) = 1 + Len(chain)
    BY <1>1, <2>1, Concatenation DEF PrependOption
  <2>3. chain = <<>> => whole = <<"Option">>
    BY DEF PrependOption
  <2> HIDE DEF whole
  <2>4. whole = <<"Option">> => Len(whole) = 1
    OBVIOUS
  <2>5. whole = <<>> => Len(whole) = 0
    OBVIOUS
  <2> QED BY <1>1, <2>2, <2>3, <2>4, <2>5 DEF IsSinglePlainOption
<1>4. SomeReceiver(column) = r + 1
  BY DEF SomeReceiver
<1>5. /\ Found(access, gone, Refs(c, r)) /\ Found(Ref(access), gone, Refs(c, r + 1))
      /\ AsRef(access) = Opt(gone, Refs(c, r + 1)) /\ AsRef(Ref(access)) = Opt(gone, Refs(c, r + 1))
  BY <1>1, FoundOpt
<1>6. column.leaf.spec \in {"Numeric", "Bool"} /\ chain = <<>> => r = 0
  <2>1. IsOnlyOptions(<<"Option">>)
    <3>1. DOMAIN <<"Option">> = {1} /\ <<"Option">>[1] = "Option"
      OBVIOUS
    <3> QED BY <3>1 DEF IsOnlyOptions
  <2> QED BY <1>3, <2>1 DEF IsCopyProjection, IsCopyLeaf, IsSinglePlainOption
<1>7. IsLeafAt(q)
  OBVIOUS
<1> HIDE DEF r, q, lost, access
<1>8. CASE chain = <<>>
  <2>1. ~lost
    BY <1>1, <1>8, AbsentNext DEF lost
  <2>2. Scalar(access, column) = ReadOption(access, column)
    BY <1>3, <1>8 DEF Scalar
  <2>3. SomeReceiver(column) \in Nat \ {0}
    BY <1>1, <1>4
  <2>4. ReadOption(access, column) = Outcome(gone, Leaf(q.node, q.at))
    BY <1>2, <1>4, <1>5, <1>6, <1>7, <1>8, <2>3, OptionLeaf
  <2>5. (gone \/ lost) = gone
    BY <2>1
  <2> QED BY <1>2, <2>2, <2>4, <2>5 DEF lost, access, r
<1>9. CASE chain # <<>>
  <2>1. Scalar(access, column) = ReadOptionChain(access, column)
    BY <1>3, <1>9 DEF Scalar
  <2>2. FirstIsOption(c, Len(chain), r + 1)
    BY <1>9 DEF FirstIsOption
  <2>3. OptReached(Ref(access), c, chain, gone, r + 1) /\ OptReached(access, c, chain, gone, r + 1)
    BY <1>1, <1>5, <2>2, OptAccess
  <2>4. /\ AccessChainToRef(Ref(access), whole).expr = Opt(gone \/ lost, Refs(q, 1))
        /\ AccessChainToOptionRef(Ref(access), whole) = Opt(gone \/ lost, Refs(q, 1))
        /\ AccessChainToOptionRef(access, whole) = Opt(gone \/ lost, Refs(q, 1))
    BY <1>9, <2>3 DEF OptReached, lost, q
  <2>5. (gone \/ lost) \in BOOLEAN
    OBVIOUS
  <2> HIDE DEF whole
  <2>6. column.shape.inner_access = whole
    BY DEF whole
  <2>7. ReadOptionChain(access, column) = Outcome(gone \/ lost, Leaf(q.node, q.at))
    BY <1>3, <1>7, <1>9, <2>4, <2>5, <2>6, OptionChainLeaf
  <2> QED BY <1>2, <2>1, <2>7 DEF lost, access, r
<1> QED BY <1>8, <1>9

-----------------------------------------------------------------------------
(* The loops.                                                              *)

(* What a loop over the items of an index path comes to: nothing, or the   *)
(* items that are bound as expected.                                       *)
LoopReads(bound, meant, column, is) ==
  LET list == ReadLayer(bound[is], Len(is) + 1, column)
  IN \/ list = None /\ meant[is] = Null
     \/ \E xs, n : /\ list = Items(xs) /\ n \in Nat /\ DOMAIN xs = 1 .. n /\ Len(xs) = n
                   /\ meant[is] = ListOf(n)
                   /\ \A i \in 1 .. n : LayerBind(xs[i], Len(is) + 1, column) = bound[Append(is, i)]

(* By index path, what is bound there and what it means.                   *)
IsReading(bound, meant, column) ==
  /\ \A is \in Seq(Nat) : Len(is) < Depth(column.shape) => LoopReads(bound, meant, column, is)
  /\ \A is \in Seq(Nat) : Len(is) = Depth(column.shape) =>
       LeafInList(bound[is], column) = meant[is] /\ meant[is].t # "list"

MeantItems(meant, is) == IF meant[is].t = "list" THEN 1 .. meant[is].of ELSE {}

(* The list that a loop runs over is the one that is meant.                *)
LEMMA LoopItems ==
  ASSUME NEW bound, NEW meant, NEW column, NEW is \in Seq(Nat), LoopReads(bound, meant, column, is)
  PROVE  LET list == ReadLayer(bound[is], Len(is) + 1, column)
         IN /\ ListRead(list) = meant[is]
            /\ list.t = "items" <=> meant[is].t = "list"
            /\ list.t = "items" => DOMAIN list.of = MeantItems(meant, is)
            /\ MeantItems(meant, is) \subseteq Nat
            /\ \A i \in MeantItems(meant, is) :
                 LayerBind(list.of[i], Len(is) + 1, column) = bound[Append(is, i)]
<1> DEFINE list == ReadLayer(bound[is], Len(is) + 1, column)
<1>1. CASE list = None /\ meant[is] = Null
  <2>1. meant[is].t = "null" /\ list.t = "none"
    BY <1>1 DEF None, Null, Expr
  <2> HIDE DEF list
  <2>2. ListRead(list) = Null
    BY <2>1 DEF ListRead
  <2> QED BY <1>1, <2>1, <2>2 DEF MeantItems, list
<1>2. CASE \E xs, n : /\ list = Items(xs) /\ n \in Nat /\ DOMAIN xs = 1 .. n /\ Len(xs) = n
                      /\ meant[is] = ListOf(n)
                      /\ \A i \in 1 .. n : LayerBind(xs[i], Len(is) + 1, column) = bound[Append(is, i)]
  <2>1. PICK xs, n : /\ list = Items(xs) /\ n \in Nat /\ DOMAIN xs = 1 .. n /\ Len(xs) = n
                     /\ meant[is] = ListOf(n)
                     /\ \A i \in 1 .. n : LayerBind(xs[i], Len(is) + 1, column) = bound[Append(is, i)]
    BY <1>2
  <2>2. list.t = "items" /\ list.of = xs /\ meant[is].t = "list" /\ meant[is].of = n
    BY <2>1 DEF Items, ListOf, Expr
  <2>3. MeantItems(meant, is) = 1 .. n
    BY <2>2 DEF MeantItems
  <2> HIDE DEF list
  <2>4. ListRead(list) = meant[is]
    BY <2>1, <2>2 DEF ListRead
  <2> QED BY <2>1, <2>2, <2>3, <2>4 DEF list
<1> QED BY <1>1, <1>2 DEF LoopReads

(* Every index path of items, and no other.                                *)
ReadSoFar(items, bound, meant, k) ==
  /\ DOMAIN items \subseteq {is \in Seq(Nat) : Len(is) <= k} /\ <<>> \in DOMAIN items
  /\ \A is \in DOMAIN items : items[is] = bound[is]
  /\ \A is \in DOMAIN items : Len(is) < k => \A i \in MeantItems(meant, is) : Append(is, i) \in DOMAIN items
  /\ \A is \in DOMAIN items \ {<<>>} :
       /\ SubSeq(is, 1, Len(is) - 1) \in DOMAIN items
       /\ is[Len(is)] \in MeantItems(meant, SubSeq(is, 1, Len(is) - 1))

(* One more loop comes to the items of one more list.                      *)
LEMMA ReadNext ==
  ASSUME NEW items, NEW bound, NEW meant, NEW column, IsReading(bound, meant, column), NEW k \in Nat,
         k + 1 <= Depth(column.shape), Depth(column.shape) \in Nat, ReadSoFar(items, bound, meant, k)
  PROVE  ReadSoFar(ItemsStep(items, k + 1, column), bound, meant, k + 1)
<1> DEFINE inner == Inner(items, k + 1, column)
           next == ItemsStep(items, k + 1, column)
           Of(is) == ReadLayer(items[is], k + 1, column)
<1>1. (k + 1) - 1 = k /\ k + 1 \in Nat
  OBVIOUS
<1>2. ASSUME NEW is \in DOMAIN items, Len(is) = k
      PROVE  /\ is \in Seq(Nat)
             /\ Of(is).t = "items" <=> meant[is].t = "list"
             /\ Of(is).t = "items" => DOMAIN Of(is).of = MeantItems(meant, is)
             /\ MeantItems(meant, is) \subseteq Nat
             /\ \A i \in MeantItems(meant, is) : LayerBind(Of(is).of[i], k + 1, column) = bound[Append(is, i)]
  <2>1. is \in Seq(Nat) /\ items[is] = bound[is]
    BY DEF ReadSoFar
  <2>2. LoopReads(bound, meant, column, is)
    BY <1>2, <2>1 DEF IsReading
  <2> QED BY <1>2, <2>1, <2>2, LoopItems
<1>3. \A x : x \in inner <=> \E is \in DOMAIN items : Len(is) = k /\ \E i \in MeantItems(meant, is) : x = Append(is, i)
  <2>1. ASSUME NEW x \in inner
        PROVE  \E is \in DOMAIN items : Len(is) = k /\ \E i \in MeantItems(meant, is) : x = Append(is, i)
    <3>1. PICK is \in DOMAIN items : /\ Len(is) = k /\ Of(is).t = "items"
                                     /\ \E i \in DOMAIN Of(is).of : x = Append(is, i)
      BY <1>1, <2>1 DEF Inner
    <3> QED BY <1>2, <3>1
  <2>2. ASSUME NEW is \in DOMAIN items, Len(is) = k, NEW i \in MeantItems(meant, is)
        PROVE  Append(is, i) \in inner
    <3>1. Of(is).t = "items" /\ i \in DOMAIN Of(is).of
      BY <1>2, <2>2 DEF MeantItems
    <3> QED BY <1>1, <2>2, <3>1 DEF Inner
  <2> HIDE DEF inner
  <2> QED BY <2>1, <2>2
<1>4. /\ DOMAIN next = DOMAIN items \union inner
      /\ \A is \in DOMAIN items : next[is] = items[is]
      /\ \A x \in inner : x \notin DOMAIN items =>
           next[x] = LayerBind(Of(SubSeq(x, 1, k)).of[x[k + 1]], k + 1, column)
  <2>1. next = [x \in DOMAIN items \union inner |->
                  IF x \in DOMAIN items THEN items[x]
                  ELSE LayerBind(Of(SubSeq(x, 1, k)).of[x[k + 1]], k + 1, column)]
    BY <1>1 DEF ItemsStep
  <2> HIDE DEF inner, next, Of
  <2> QED BY <2>1
<1> HIDE DEF inner, next
<1>5. ASSUME NEW is \in Seq(Nat), NEW i \in Nat
      PROVE  /\ Append(is, i) \in Seq(Nat) /\ Len(Append(is, i)) = Len(is) + 1
             /\ SubSeq(Append(is, i), 1, Len(is)) = is /\ Append(is, i)[Len(is) + 1] = i
             /\ Append(is, i) # <<>>
  OBVIOUS
<1>6. ASSUME NEW x \in inner
      PROVE  \E is \in DOMAIN items : \E i \in MeantItems(meant, is) :
               /\ Len(is) = k /\ x = Append(is, i) /\ x \in Seq(Nat) /\ Len(x) = k + 1
               /\ SubSeq(x, 1, k) = is /\ x[k + 1] = i /\ x \notin DOMAIN items /\ x # <<>>
               /\ next[x] = bound[x]
  <2>1. PICK is \in DOMAIN items : Len(is) = k /\ \E i \in MeantItems(meant, is) : x = Append(is, i)
    BY <1>3
  <2>2. PICK i \in MeantItems(meant, is) : x = Append(is, i)
    BY <2>1
  <2>3. is \in Seq(Nat) /\ i \in Nat /\ LayerBind(Of(is).of[i], k + 1, column) = bound[Append(is, i)]
    BY <1>2, <2>1
  <2> HIDE DEF Of
  <2>4. /\ x \in Seq(Nat) /\ Len(x) = k + 1 /\ SubSeq(x, 1, k) = is /\ x[k + 1] = i /\ x # <<>>
    BY <1>5, <2>1, <2>2, <2>3
  <2>5. x \notin DOMAIN items
    <3>1. ~(k + 1 <= k)
      OBVIOUS
    <3> QED BY <2>4, <3>1 DEF ReadSoFar
  <2>6. next[x] = LayerBind(Of(is).of[i], k + 1, column)
    BY <1>4, <2>4, <2>5
  <2> QED BY <2>1, <2>2, <2>3, <2>4, <2>5, <2>6
<1> HIDE DEF Of
<1>7. DOMAIN next \subseteq {is \in Seq(Nat) : Len(is) <= k + 1} /\ <<>> \in DOMAIN next
  <2>1. ASSUME NEW is \in DOMAIN items PROVE is \in Seq(Nat) /\ Len(is) <= k + 1
    <3>1. is \in Seq(Nat) /\ Len(is) <= k /\ Len(is) \in Nat
      BY DEF ReadSoFar
    <3> QED BY <3>1
  <2>2. ASSUME NEW x \in inner PROVE x \in Seq(Nat) /\ Len(x) <= k + 1
    <3>1. x \in Seq(Nat) /\ Len(x) = k + 1
      BY <1>6
    <3> QED BY <3>1
  <2>3. <<>> \in DOMAIN items
    BY DEF ReadSoFar
  <2> QED BY <1>4, <2>1, <2>2, <2>3
<1>8. \A is \in DOMAIN next : next[is] = bound[is]
  <2>1. \A is \in DOMAIN items : items[is] = bound[is]
    BY DEF ReadSoFar
  <2> QED BY <1>4, <1>6, <2>1
<1>9. ASSUME NEW is \in DOMAIN next, Len(is) < k + 1, NEW i \in MeantItems(meant, is)
      PROVE  Append(is, i) \in DOMAIN next
  <2>1. is \in DOMAIN items
    <3>1. is \notin inner
      <4>1. ~(k + 1 < k + 1)
        OBVIOUS
      <4> QED BY <1>6, <1>9, <4>1
    <3> QED BY <1>4, <3>1
  <2>2. Len(is) < k \/ Len(is) = k
    <3>1. Len(is) \in Nat
      BY <2>1 DEF ReadSoFar
    <3> QED BY <1>9, <3>1
  <2>3. CASE Len(is) < k
    <3>1. Append(is, i) \in DOMAIN items
      BY <2>1, <2>3 DEF ReadSoFar
    <3> QED BY <1>4, <3>1
  <2>4. CASE Len(is) = k
    <3>1. Append(is, i) \in inner
      BY <1>3, <2>1, <2>4
    <3> QED BY <1>4, <3>1
  <2> QED BY <2>2, <2>3, <2>4
<1>10. ASSUME NEW x \in DOMAIN next \ {<<>>}
       PROVE  SubSeq(x, 1, Len(x) - 1) \in DOMAIN next /\ x[Len(x)] \in MeantItems(meant, SubSeq(x, 1, Len(x) - 1))
  <2>1. CASE x \in DOMAIN items
    BY <1>4, <2>1 DEF ReadSoFar
  <2>2. CASE x \in inner
    <3>1. PICK is \in DOMAIN items : \E i \in MeantItems(meant, is) :
            Len(x) = k + 1 /\ SubSeq(x, 1, k) = is /\ x[k + 1] = i
      BY <1>6, <2>2
    <3> QED BY <1>1, <1>4, <3>1
  <2> QED BY <1>4, <2>1, <2>2
<1> QED BY <1>7, <1>8, <1>9, <1>10 DEF ReadSoFar, next

(* All of the loops: every item is read as it is meant, and all of them.   *)
ReadsAs(cell, meant) ==
  /\ DOMAIN cell \subseteq Seq(Nat) /\ <<>> \in DOMAIN cell
  /\ \A is \in DOMAIN cell : cell[is] = meant[is]
  /\ \A is \in DOMAIN cell : \A i \in MeantItems(meant, is) : Append(is, i) \in DOMAIN cell
  /\ \A is \in DOMAIN cell \ {<<>>} :
       /\ SubSeq(is, 1, Len(is) - 1) \in DOMAIN cell
       /\ is[Len(is)] \in MeantItems(meant, SubSeq(is, 1, Len(is) - 1))

(* All the loops come to everything that is meant.                         *)
LEMMA ListsRead ==
  ASSUME NEW access, NEW bound, NEW meant, NEW column, Depth(column.shape) \in Nat,
         bound[<<>>] = Ref(access), IsReading(bound, meant, column)
  PROVE  /\ ReadsAs(ReadLists(access, column), meant)
         /\ \A is \in DOMAIN ReadLists(access, column) : Len(is) <= Depth(column.shape)
<1> DEFINE D == Depth(column.shape)
           items == ReadItems(access, column)
<1>1. PICK f : /\ f[0] = ItemsStart(access)
               /\ \A i \in 1 .. D : f[i] = ItemsStep(f[i - 1], i, column)
               /\ items = f[D]
  BY LoopsIs
<1> DEFINE T == {k \in Nat : k <= D => ReadSoFar(f[k], bound, meant, k)}
<1>2. 0 \in T
  <2>1. f[0] = [is \in {<<>>} |-> Ref(access)]
    BY <1>1 DEF ItemsStart
  <2>2. DOMAIN f[0] = {<<>>} /\ f[0][<<>>] = Ref(access)
    BY <2>1
  <2>3. <<>> \in Seq(Nat) /\ Len(<<>>) = 0
    OBVIOUS
  <2>4. bound[<<>>] = Ref(access) /\ ~(0 < 0) /\ 0 <= 0
    OBVIOUS
  <2> DEFINE items0 == f[0]
  <2> HIDE DEF items0
  <2>6. /\ DOMAIN items0 = {<<>>} /\ items0[<<>>] = bound[<<>>]
    BY <2>2, <2>4 DEF items0
  <2>7. ReadSoFar(items0, bound, meant, 0)
    BY <2>3, <2>4, <2>6 DEF ReadSoFar
  <2> QED BY <2>7 DEF items0
<1>3. ASSUME NEW k \in Nat, k \in T PROVE k + 1 \in T
  <2> SUFFICES ASSUME k + 1 <= D PROVE ReadSoFar(f[k + 1], bound, meant, k + 1)
    OBVIOUS
  <2>1. k + 1 \in 1 .. D /\ (k + 1) - 1 = k /\ k <= D
    OBVIOUS
  <2>2. f[k + 1] = ItemsStep(f[(k + 1) - 1], k + 1, column)
    BY <1>1, <2>1
  <2>3. ReadSoFar(f[k], bound, meant, k)
    BY <1>3, <2>1
  <2>4. ReadSoFar(ItemsStep(f[k], k + 1, column), bound, meant, k + 1)
    BY <2>3, ReadNext
  <2> QED BY <2>1, <2>2, <2>4
<1>4. Nat \subseteq T
  <2> HIDE DEF T
  <2> QED BY <1>2, <1>3, SetInduction
<1>5. ReadSoFar(items, bound, meant, D)
  BY <1>1, <1>4
<1> DEFINE cell == ReadLists(access, column)
<1>6. /\ DOMAIN cell = DOMAIN items
      /\ \A is \in DOMAIN items :
           cell[is] = IF Len(is) = D THEN LeafInList(items[is], column)
                      ELSE ListRead(ReadLayer(items[is], Len(is) + 1, column))
  <2> HIDE DEF items, D
  <2>1. cell = [is \in DOMAIN items |->
                  IF Len(is) = D THEN LeafInList(items[is], column)
                  ELSE ListRead(ReadLayer(items[is], Len(is) + 1, column))]
    BY DEF ReadLists, ReadEach, items, D
  <2> HIDE DEF cell
  <2> QED BY <2>1
<1> HIDE DEF items, cell
<1>7. ASSUME NEW is \in DOMAIN items
      PROVE  /\ is \in Seq(Nat) /\ Len(is) \in Nat /\ Len(is) <= D
             /\ cell[is] = meant[is]
             /\ \A i \in MeantItems(meant, is) : Append(is, i) \in DOMAIN items
  <2>1. is \in Seq(Nat) /\ Len(is) \in Nat /\ Len(is) <= D /\ items[is] = bound[is]
    BY <1>5 DEF ReadSoFar
  <2>2. CASE Len(is) = D
    <3>1. LeafInList(bound[is], column) = meant[is] /\ meant[is].t # "list"
      BY <2>1, <2>2 DEF IsReading
    <3>2. MeantItems(meant, is) = {}
      BY <3>1 DEF MeantItems
    <3> QED BY <1>6, <2>1, <2>2, <3>1, <3>2
  <2>3. CASE Len(is) # D
    <3>1. Len(is) < D
      BY <2>1, <2>3
    <3>2. LoopReads(bound, meant, column, is)
      BY <2>1, <3>1 DEF IsReading
    <3>3. ListRead(ReadLayer(bound[is], Len(is) + 1, column)) = meant[is]
      BY <2>1, <3>2, LoopItems
    <3>4. \A i \in MeantItems(meant, is) : Append(is, i) \in DOMAIN items
      BY <1>5, <3>1 DEF ReadSoFar
    <3> QED BY <1>6, <2>1, <2>3, <3>3, <3>4
  <2> QED BY <2>2, <2>3
<1>8. <<>> \in DOMAIN items /\ \A is \in DOMAIN items \ {<<>>} :
        /\ SubSeq(is, 1, Len(is) - 1) \in DOMAIN items
        /\ is[Len(is)] \in MeantItems(meant, SubSeq(is, 1, Len(is) - 1))
  BY <1>5 DEF ReadSoFar
<1>9. ReadsAs(cell, meant)
  BY <1>6, <1>7, <1>8 DEF ReadsAs
<1> QED BY <1>6, <1>7, <1>9 DEF cell

(* What is read as it is meant is what the path means.                     *)
LEMMA ReadsMeaning ==
  ASSUME NEW cell, NEW meant, NEW of, NEW path, ReadsAs(cell, meant),
         \A is \in DOMAIN cell : Meaning(of, path, is) = meant[is]
  PROVE  Reads(cell, of, path)
<1>1. ASSUME NEW is \in DOMAIN cell PROVE ItemsAt(cell, is) = MeantItems(meant, is)
  BY DEF ItemsAt, MeantItems, ReadsAs
<1> QED BY <1>1 DEF Reads, ReadsAs

-----------------------------------------------------------------------------
(* Columns whose lists are all their own.                                  *)

IsRow(of) == IsFieldType(of.ty) /\ \A place \in DOMAIN of.value : of.value[place] \in Nat

(* There are so many things in a place of a row.                           *)
LEMMA CountIsNat ==
  ASSUME NEW of, IsRow(of), NEW p, p.row = of
  PROVE  Count(p) \in Nat
BY DEF IsRow, Count

(* The chain of a boundary is what comes next at the places there.         *)
ChainAt(layers, inner, k) == IF k < Len(layers) THEN layers[k + 1].access ELSE inner

IsStretchPlace(of, node, layers, inner, v, k, is) ==
  LET p     == Place(of, node, v[k], is)
      chain == ChainAt(layers, inner, k)
  IN /\ IsPlace(p) /\ Segment(p, chain) /\ Len(chain) = StretchLen(layers, of.ty[node].spine, v, k)
     /\ StretchGone(of, node, layers, v, k, is) <=> Absent(p, Len(chain))
     /\ StretchEnd(of, node, layers, v, k, is) = Inside(p, Len(chain))
     /\ k < Len(layers) => IsWrapped(Inside(p, Len(chain)), "Vec", 1)
     /\ ~(k < Len(layers)) => IsBare(Inside(p, Len(chain)))
     /\ Node(Inside(p, Len(chain))) = of.ty[node]
     /\ k = 0 /\ chain # <<>> => WrapperAt(p, 0) = "Option"

(* Where a stretch begins its chain is what comes next, and the list or    *)
(* the leaf is after it.                                                   *)
LEMMA StretchPlace ==
  ASSUME NEW of, NEW node, NEW is, of.ty[node].spine \in Seq(RawWrappers), NEW layers, NEW inner, NEW v,
         IsCut(layers, inner, of.ty[node].spine, v, Len(of.ty[node].spine)), NEW k \in 0 .. Len(layers)
  PROVE  IsStretchPlace(of, node, layers, inner, v, k, is)
<1> DEFINE s == of.ty[node].spine
           p == Place(of, node, v[k], is)
           chain == ChainAt(layers, inner, k)
           n == Len(chain)
<1>1. /\ Len(layers) \in Nat /\ Len(s) \in Nat
      /\ v[k] \in Nat /\ v[k] <= Len(s)
      /\ k < Len(layers) =>
           /\ v[k + 1] \in Nat /\ v[k] < v[k + 1] /\ v[k + 1] <= Len(s) /\ s[v[k + 1]] = "Vec"
           /\ IsStretch(layers[k + 1].access, s, v[k], v[k + 1] - 1)
      /\ k = Len(layers) => IsStretch(inner, s, v[k], Len(s))
  <2>1. CutFacts(layers, inner, s, v, k)
    BY CutHas
  <2> QED BY <2>1 DEF CutFacts
<1>2. p.row = of /\ p.node = node /\ p.depth = v[k] /\ p.at = is /\ Node(p) = of.ty[node] /\ Node(p).spine = s
  BY DEF Place, Node
<1>3. p = Place(p.row, p.node, p.depth, p.at)
  BY <1>2
<1>4. v[0] < Len(s) => s[v[0] + 1] # "SmartPtr"
  BY DEF IsCut
<1>5. s \in Seq(RawWrappers)
  OBVIOUS
<1> HIDE DEF s, p
<1>6. IsPlace(p)
  BY <1>1, <1>2, <1>3, <1>5 DEF IsPlace
<1>7. \A i : WrapperAt(p, i) = s[v[k] + i + 1]
  BY <1>2 DEF WrapperAt
<1>8. PICK to : /\ IsStretch(chain, s, v[k], to) /\ to \in Nat /\ to <= Len(s)
                /\ (k < Len(layers) => to = v[k + 1] - 1) /\ (~(k < Len(layers)) => to = Len(s))
  <2>1. CASE k < Len(layers)
    <3>1. chain = layers[k + 1].access /\ v[k + 1] - 1 \in Nat /\ v[k + 1] - 1 <= Len(s)
      BY <1>1, <2>1 DEF ChainAt
    <3> QED BY <1>1, <2>1, <3>1
  <2>2. CASE ~(k < Len(layers))
    <3>1. chain = inner /\ k = Len(layers)
      BY <1>1, <2>2 DEF ChainAt
    <3> QED BY <1>1, <2>2, <3>1
  <2> QED BY <2>1, <2>2
<1> HIDE DEF chain
<1>9. chain \in Seq(AccessSteps) /\ v[k] + n = to /\ n \in Nat /\ \A j \in 1 .. n : chain[j] = s[v[k] + j]
  BY <1>8 DEF IsStretch
<1>10. Segment(p, chain)
  <2>1. \A j \in 1 .. n : v[k] + (j - 1) + 1 = v[k] + j
    BY <1>1, <1>9
  <2>2. \A j \in 1 .. n : chain[j] = WrapperAt(p, j - 1)
    BY <1>7, <1>9, <2>1
  <2> QED BY <1>2, <1>8, <1>9, <2>2 DEF Segment
<1>11. n = StretchLen(layers, s, v, k)
  BY <1>1, <1>8, <1>9 DEF StretchLen
<1>12. /\ Inside(p, n).depth = to /\ Node(Inside(p, n)) = of.ty[node]
  <2>1. p.depth + n <= Len(Node(p).spine)
    BY <1>2, <1>8, <1>9
  <2> QED BY <1>2, <1>6, <1>9, <2>1, InsidePlace
<1>13. k < Len(layers) => IsWrapped(Inside(p, n), "Vec", 1)
  <2> SUFFICES ASSUME k < Len(layers) PROVE IsWrapped(Inside(p, n), "Vec", 1)
    OBVIOUS
  <2>1. to + 1 = v[k + 1] /\ to + 1 <= Len(s) /\ s[to + 1] = "Vec"
    BY <1>1, <1>8
  <2>2. Node(Inside(p, n)).spine = s
    BY <1>12 DEF s
  <2>3. \A i \in 1 .. 1 : i = 1
    OBVIOUS
  <2> QED BY <1>12, <2>1, <2>2, <2>3 DEF IsWrapped
<1>14. ~(k < Len(layers)) => IsBare(Inside(p, n))
  BY <1>8, <1>12 DEF IsBare, s
<1>15. k = 0 /\ chain # <<>> => WrapperAt(p, 0) = "Option"
  <2> SUFFICES ASSUME k = 0, chain # <<>> PROVE WrapperAt(p, 0) = "Option"
    OBVIOUS
  <2>1. 1 \in 1 .. n /\ n > 0
    BY <1>9
  <2>2. chain[1] = s[v[0] + 1] /\ chain[1] \in AccessSteps /\ v[0] < Len(s)
    BY <1>1, <1>8, <1>9, <2>1
  <2>3. s[v[0] + 1] = "Option"
    BY <1>4, <2>2 DEF AccessSteps
  <2>4. v[k] + 0 + 1 = v[0] + 1
    BY <1>1
  <2> QED BY <1>7, <2>3, <2>4
<1>16. /\ StretchGone(of, node, layers, v, k, is) <=> Absent(p, n)
       /\ StretchEnd(of, node, layers, v, k, is) = Inside(p, n)
  BY <1>11 DEF StretchGone, StretchEnd, s, p
<1> QED BY <1>6, <1>10, <1>11, <1>12, <1>13, <1>14, <1>15, <1>16 DEF IsStretchPlace, s, p, chain

(* The items after one more list.                                          *)
NextItemIs(of, node, layers, v, k, is, i) ==
  /\ ItemOf(StretchEnd(of, node, layers, v, k, is), i) = Place(of, node, v[k + 1], Append(is, i))
  /\ StretchEnd(of, node, layers, v, k, is).row = of

(* An item of the list of a stretch is where the next begins.              *)
LEMMA NextItem ==
  ASSUME NEW of, NEW node, NEW is, NEW layers, NEW inner, NEW v,
         IsCut(layers, inner, of.ty[node].spine, v, Len(of.ty[node].spine)),
         NEW k \in 0 .. Len(layers), k < Len(layers), NEW i
  PROVE  NextItemIs(of, node, layers, v, k, is, i)
<1>1. EndsAtList(of, node, layers, v, k, is)
  BY ListEnd
<1>2. v[k + 1] \in Nat /\ (v[k + 1] - 1) + 1 = v[k + 1]
  BY CutBounds
<1>3. StretchEnd(of, node, layers, v, k, is) = Place(of, node, v[k + 1] - 1, is)
  BY <1>1 DEF EndsAtList
<1> DEFINE p == Place(of, node, v[k + 1] - 1, is)
<1>4. p = [row |-> of, node |-> node, depth |-> v[k + 1] - 1, at |-> is]
  BY DEF Place
<1> HIDE DEF p
<1>5. ItemOf(p, i) = [row |-> of, node |-> node, depth |-> (v[k + 1] - 1) + 1, at |-> Append(is, i)]
  <2>1. p.depth = v[k + 1] - 1 /\ p.at = is
    BY <1>4
  <2>2. ItemOf(p, i) = [p EXCEPT !.depth = p.depth + 1, !.at = Append(p.at, i)]
    BY DEF ItemOf
  <2> QED BY <1>4, <2>1, <2>2
<1>6. ItemOf(p, i) = Place(of, node, v[k + 1], Append(is, i))
  BY <1>2, <1>5 DEF Place
<1>7. StretchEnd(of, node, layers, v, k, is) = p /\ p.row = of
  BY <1>3, <1>4 DEF p
<1> QED BY <1>6, <1>7 DEF NextItemIs

(* A loop over the list of a boundary.                                     *)
LEMMA StretchLoop ==
  ASSUME NEW bound, NEW meant, NEW column, NEW is, NEW absent \in BOOLEAN, NEW q, Count(q) \in Nat,
         ReadLayer(bound[is], Len(is) + 1, column) = ListAt(absent, q),
         meant[is] = Outcome(absent, ListOf(Count(q))),
         \A i \in 1 .. Count(q) : LayerBind(Refs(ItemOf(q, i), 1), Len(is) + 1, column) = bound[Append(is, i)]
  PROVE  LoopReads(bound, meant, column, is)
<1>1. CASE absent
  BY <1>1 DEF LoopReads, ListAt, Outcome
<1>2. CASE ~absent
  <2> DEFINE xs == [i \in 1 .. Count(q) |-> Refs(ItemOf(q, i), 1)]
  <2>1. DOMAIN xs = 1 .. Count(q) /\ Len(xs) = Count(q) /\ \A i \in 1 .. Count(q) : xs[i] = Refs(ItemOf(q, i), 1)
    <3>1. xs \in Seq({xs[i] : i \in 1 .. Count(q)})
      OBVIOUS
    <3> QED BY <3>1
  <2>2. ReadLayer(bound[is], Len(is) + 1, column) = Items(xs) /\ meant[is] = ListOf(Count(q))
    BY <1>2 DEF ListAt, ItemsOf, Outcome
  <2> HIDE DEF xs
  <2> QED BY <2>1, <2>2 DEF LoopReads
<1> QED BY <1>1, <1>2

(* One layer of a stack that has the lists of an element, or of the tuple. *)
StretchCase(of, node, is, layers, v, k, column, bound, meant) ==
  /\ column.shape.layers[Len(is) + 1].access = layers[k + 1].access
  /\ bound[is] = Refs(Place(of, node, v[k], is), 1)
  /\ meant[is] = Outcome(StretchGone(of, node, layers, v, k, is),
                         ListOf(Count(StretchEnd(of, node, layers, v, k, is))))
  /\ \A i \in Nat : LayerBind(Refs(Place(of, node, v[k + 1], Append(is, i)), 1), Len(is) + 1, column)
                       = bound[Append(is, i)]

(* A loop reads what is meant, if it starts where its stretch does.        *)
LEMMA StretchReads ==
  ASSUME NEW of, IsRow(of), NEW node, NEW is \in Seq(Nat), of.ty[node].spine \in Seq(RawWrappers),
         NEW layers, NEW inner, NEW v,
         IsCut(layers, inner, of.ty[node].spine, v, Len(of.ty[node].spine)),
         NEW k \in 0 .. Len(layers), k < Len(layers),
         NEW column, NEW bound, NEW meant, StretchCase(of, node, is, layers, v, k, column, bound, meant)
  PROVE  LoopReads(bound, meant, column, is)
<1> DEFINE p == Place(of, node, v[k], is)
           q == StretchEnd(of, node, layers, v, k, is)
           gone == StretchGone(of, node, layers, v, k, is)
           chain == layers[k + 1].access
<1>0. /\ column.shape.layers[Len(is) + 1].access = layers[k + 1].access
      /\ bound[is] = Refs(p, 1) /\ meant[is] = Outcome(gone, ListOf(Count(q)))
      /\ \A i \in Nat : LayerBind(Refs(Place(of, node, v[k + 1], Append(is, i)), 1), Len(is) + 1, column)
                           = bound[Append(is, i)]
  BY DEF StretchCase
<1>1. ChainAt(layers, inner, k) = chain
  BY DEF ChainAt
<1>2. IsPlace(p) /\ Segment(p, chain) /\ IsWrapped(Inside(p, Len(chain)), "Vec", 1)
      /\ (gone <=> Absent(p, Len(chain))) /\ q = Inside(p, Len(chain))
  <2>1. IsStretchPlace(of, node, layers, inner, v, k, is)
    BY StretchPlace
  <2> QED BY <1>1, <2>1 DEF IsStretchPlace
<1>3. ReadLayer(Refs(p, 1), Len(is) + 1, column) = ListAt(Absent(p, Len(chain)), Inside(p, Len(chain)))
  <2> HIDE DEF p, chain
  <2>1. column.shape.layers[Len(is) + 1].access = chain
    BY <1>0 DEF chain
  <2> QED BY <1>2, <2>1, LayerFromPlace
<1>4. gone \in BOOLEAN
  BY DEF StretchGone, Absent
<1>5. Count(q) \in Nat
  <2>1. NextItemIs(of, node, layers, v, k, is, 0)
    BY NextItem
  <2>2. q.row = of
    BY <2>1 DEF NextItemIs
  <2> HIDE DEF q
  <2> QED BY <2>2, CountIsNat
<1>6. \A i \in 1 .. Count(q) : LayerBind(Refs(ItemOf(q, i), 1), Len(is) + 1, column) = bound[Append(is, i)]
  <2> SUFFICES ASSUME NEW i \in 1 .. Count(q)
               PROVE  LayerBind(Refs(ItemOf(q, i), 1), Len(is) + 1, column) = bound[Append(is, i)]
    OBVIOUS
  <2>1. ItemOf(q, i) = Place(of, node, v[k + 1], Append(is, i))
    <3>1. NextItemIs(of, node, layers, v, k, is, i)
      BY NextItem
    <3> QED BY <3>1 DEF NextItemIs
  <2>2. i \in Nat
    BY <1>5
  <2> QED BY <1>0, <2>1, <2>2
<1>7. ReadLayer(bound[is], Len(is) + 1, column) = ListAt(gone, q)
  <2>1. ListAt(Absent(p, Len(chain)), Inside(p, Len(chain))) = ListAt(gone, q)
    BY <1>2, <1>4 DEF ListAt
  <2> QED BY <1>0, <1>3, <2>1
<1> HIDE DEF q, gone
<1> QED BY <1>0, <1>4, <1>5, <1>6, <1>7, StretchLoop DEF q, gone

IsOwn(of, column, v) ==
  /\ IsRow(of) /\ column.path \in Seq(Nat) /\ IsPath(of.ty, column.path)
  /\ of.ty[column.path].spine \in Seq(RawWrappers) /\ of.ty[column.path].base \in LeafBases
  /\ \A m \in 0 .. Len(column.path) - 1 : Pointed(Spine(of.ty, column.path, m))
  /\ IsShapeCut(column.shape, of.ty[column.path].spine, v)
  /\ column.kind # "TupleParentVec"

(* A column of its own shape has its node's cut, and no projection.        *)
LEMMA OwnIs ==
  ASSUME NEW of, NEW column, NEW v, IsOwn(of, column, v)
  PROVE  LET s == of.ty[column.path].spine
         IN /\ IsCut(column.shape.layers, column.shape.inner_access, s, v, Len(s))
            /\ Depth(column.shape) = Len(column.shape.layers) /\ Depth(column.shape) \in Nat
            /\ HasInnerOption(column.shape) <=> HasOption(column.shape.inner_access)
            /\ \A k : ~ProjectsAfter(column, k)
            /\ ~ProjectsLeaf(column)
            /\ column.shape.layers \in Seq(Layers)
<1> DEFINE s == of.ty[column.path].spine
<1>1. /\ IsCut(column.shape.layers, column.shape.inner_access, s, v, Len(s))
      /\ column.shape.inner_option_layers = OptionLayers(column.shape.inner_access)
  <2>1. /\ column.shape = [layers              |-> column.shape.layers,
                           inner_option_layers |-> OptionLayers(column.shape.inner_access),
                           inner_access        |-> column.shape.inner_access]
        /\ IsCut(column.shape.layers, column.shape.inner_access, s, v, Len(s))
    BY DEF IsOwn, IsShapeCut
  <2>2. column.shape.inner_option_layers = OptionLayers(column.shape.inner_access)
    <3>1. PICK a, b, c : column.shape = [layers |-> a, inner_option_layers |-> b, inner_access |-> c]
                         /\ b = OptionLayers(column.shape.inner_access)
      BY <2>1
    <3> QED BY <3>1
  <2> QED BY <2>1, <2>2
<1>2. Len(column.shape.layers) \in Nat /\ column.shape.layers \in Seq(Layers) /\ column.shape.inner_access \in Chains
  BY <1>1 DEF IsCut, IsStretch, Chains
<1>3. HasInnerOption(column.shape) <=> HasOption(column.shape.inner_access)
  BY <1>1, <1>2, OptionCount DEF HasInnerOption
<1>4. column.kind # "TupleParentVec"
  BY DEF IsOwn
<1> QED BY <1>1, <1>2, <1>3, <1>4 DEF Depth, ProjectsAfter, ProjectsLeaf

(* The leaf after all lists of an element, behind a reference to the item. *)
LeafAtEnd(of, node, layers, v, is, column) ==
  LeafInList(Refs(Place(of, node, v[Len(layers)], is), 1), column)
    = Outcome(StretchGone(of, node, layers, v, Len(layers), is), Leaf(node, is))

(* After the last stretch, the leaf is read.                               *)
LEMMA StretchLeaf ==
  ASSUME NEW of, NEW node, NEW is, of.ty[node].spine \in Seq(RawWrappers), of.ty[node].base \in LeafBases,
         NEW layers, NEW inner, NEW v,
         IsCut(layers, inner, of.ty[node].spine, v, Len(of.ty[node].spine)),
         NEW column, column.shape.inner_access = inner, HasInnerOption(column.shape) <=> HasOption(inner),
         ~ProjectsLeaf(column)
  PROVE  LeafAtEnd(of, node, layers, v, is, column)
<1> DEFINE k == Len(layers)
           p == Place(of, node, v[k], is)
<1>1. k \in 0 .. Len(layers) /\ ~(k < Len(layers))
  BY DEF IsCut
<1>2. IsStretchPlace(of, node, layers, inner, v, k, is)
  BY <1>1, StretchPlace
<1>3. ChainAt(layers, inner, k) = inner
  BY <1>1 DEF ChainAt
<1>4. p.node = node /\ p.at = is
  BY DEF Place
<1>5. /\ IsPlace(p) /\ Segment(p, inner) /\ IsLeafAt(Inside(p, Len(inner)))
      /\ StretchGone(of, node, layers, v, k, is) <=> Absent(p, Len(inner))
  BY <1>1, <1>2, <1>3 DEF IsStretchPlace, IsLeafAt
<1> HIDE DEF p, k
<1>6. LeafInList(Refs(p, 1), column) = Outcome(Absent(p, Len(inner)), Leaf(p.node, p.at))
  BY <1>5, PlaceLeafInList
<1>7. Outcome(Absent(p, Len(inner)), Leaf(node, is)) = Outcome(StretchGone(of, node, layers, v, k, is), Leaf(node, is))
  BY <1>5 DEF Outcome
<1> QED BY <1>4, <1>6, <1>7 DEF p, k, LeafAtEnd

(* The loops over a column of its own shape read its path.                 *)
LEMMA OwnLists ==
  ASSUME NEW of, NEW column, NEW v, IsOwn(of, column, v)
  PROVE  Reads(ReadLists(Refs(Place(of, column.path, v[0], <<>>), 0), column), of, column.path)
<1> DEFINE path == column.path
           layers == column.shape.layers
           inner == column.shape.inner_access
           s == of.ty[path].spine
           D == Depth(column.shape)
           bound == [is \in Seq(Nat) |-> Refs(Place(of, path, v[Len(is)], is), 1)]
           meant == [is \in Seq(Nat) |-> OwnMeant(of, path, layers, v, is)]
           access == Refs(Place(of, path, v[0], <<>>), 0)
<1>1. /\ IsCut(layers, inner, s, v, Len(s)) /\ D = Len(layers) /\ D \in Nat
      /\ HasInnerOption(column.shape) <=> HasOption(inner)
      /\ \A k : ~ProjectsAfter(column, k)
      /\ ~ProjectsLeaf(column)
  BY OwnIs
<1>2. /\ IsRow(of) /\ path \in Seq(Nat) /\ IsPath(of.ty, path) /\ s \in Seq(RawWrappers) /\ of.ty[path].base \in LeafBases
      /\ \A m \in 0 .. Len(path) - 1 : Pointed(Spine(of.ty, path, m))
  BY DEF IsOwn
<1>3. ASSUME NEW is \in Seq(Nat), Len(is) < D PROVE LoopReads(bound, meant, column, is)
  <2> DEFINE k == Len(is)
  <2>1. k \in 0 .. Len(layers) /\ k < Len(layers)
    BY <1>1, <1>3
  <2>2. bound[is] = Refs(Place(of, path, v[k], is), 1)
    OBVIOUS
  <2>3. meant[is] = Outcome(StretchGone(of, path, layers, v, k, is), ListOf(Count(StretchEnd(of, path, layers, v, k, is))))
    BY <2>1 DEF OwnMeant
  <2>4. ASSUME NEW i \in Nat
        PROVE  LayerBind(Refs(Place(of, path, v[k + 1], Append(is, i)), 1), Len(is) + 1, column) = bound[Append(is, i)]
    <3>1. Append(is, i) \in Seq(Nat) /\ Len(Append(is, i)) = k + 1
      OBVIOUS
    <3>2. bound[Append(is, i)] = Refs(Place(of, path, v[k + 1], Append(is, i)), 1)
      BY <3>1
    <3> HIDE DEF bound
    <3> QED BY <1>1, <3>2 DEF LayerBind
  <2>5. column.shape.layers[Len(is) + 1].access = layers[k + 1].access
    OBVIOUS
  <2> HIDE DEF bound, meant, layers, inner, s, path
  <2>7. StretchCase(of, path, is, layers, v, k, column, bound, meant)
    BY <2>2, <2>3, <2>4, <2>5 DEF StretchCase
  <2> HIDE DEF k
  <2>6. /\ IsCut(layers, inner, of.ty[path].spine, v, Len(of.ty[path].spine))
        /\ of.ty[path].spine \in Seq(RawWrappers)
    BY <1>1, <1>2 DEF s
  <2> QED BY <1>2, <2>1, <2>6, <2>7, StretchReads
<1>4. ASSUME NEW is \in Seq(Nat), Len(is) = D
      PROVE  LeafInList(bound[is], column) = meant[is] /\ meant[is].t # "list"
  <2>1. bound[is] = Refs(Place(of, path, v[Len(layers)], is), 1)
    BY <1>1, <1>4
  <2>2. meant[is] = Outcome(StretchGone(of, path, layers, v, Len(layers), is), Leaf(path, is))
    <3>1. ~(Len(is) < Len(layers)) /\ Len(is) = Len(layers)
      BY <1>1, <1>4
    <3> QED BY <3>1 DEF OwnMeant
  <2>3. meant[is].t # "list"
    BY <2>2 DEF Outcome, Null, Leaf
  <2> HIDE DEF bound, meant, layers, inner, s, path
  <2>4. /\ IsCut(layers, inner, of.ty[path].spine, v, Len(of.ty[path].spine))
        /\ of.ty[path].spine \in Seq(RawWrappers) /\ of.ty[path].base \in LeafBases
        /\ column.shape.inner_access = inner
    BY <1>1, <1>2 DEF s, inner
  <2>5. LeafInList(Refs(Place(of, path, v[Len(layers)], is), 1), column)
          = Outcome(StretchGone(of, path, layers, v, Len(layers), is), Leaf(path, is))
    <3>1. LeafAtEnd(of, path, layers, v, is, column)
      BY <1>1, <2>4, StretchLeaf
    <3> QED BY <3>1 DEF LeafAtEnd
  <2> QED BY <2>1, <2>2, <2>3, <2>5
<1>5. bound[<<>>] = Ref(access)
  <2>1. <<>> \in Seq(Nat) /\ Len(<<>>) = 0
    OBVIOUS
  <2>2. bound[<<>>] = Refs(Place(of, path, v[0], <<>>), 1)
    BY <2>1
  <2> HIDE DEF bound, path
  <2>3. Ref(Refs(Place(of, path, v[0], <<>>), 0)) = Refs(Place(of, path, v[0], <<>>), 1)
    <3>1. 0 \in Nat
      OBVIOUS
    <3> QED BY <3>1, RefsAre
  <2> QED BY <2>2, <2>3
<1>6. ASSUME NEW is \in Seq(Nat), Len(is) <= D PROVE Meaning(of, path, is) = meant[is]
  <2>1. Len(is) <= Len(layers)
    BY <1>1, <1>6
  <2>2. Meaning(of, path, is) = OwnMeant(of, path, layers, v, is)
    <3> HIDE DEF layers, inner, s, path
    <3>1. IsCut(layers, inner, of.ty[path].spine, v, Len(of.ty[path].spine))
      BY <1>1 DEF s
    <3> QED BY <1>2, <2>1, <3>1, OwnMeaning
  <2> QED BY <2>2
<1> HIDE DEF bound, meant, access, layers, inner, s
<1>7. IsReading(bound, meant, column)
  BY <1>3, <1>4 DEF IsReading
<1>8. /\ ReadsAs(ReadLists(access, column), meant)
      /\ \A is \in DOMAIN ReadLists(access, column) : Len(is) <= D
  BY <1>1, <1>5, <1>7, ListsRead
<1>9. \A is \in DOMAIN ReadLists(access, column) : Meaning(of, path, is) = meant[is]
  <2>1. DOMAIN ReadLists(access, column) \subseteq Seq(Nat)
    BY <1>8 DEF ReadsAs
  <2> QED BY <1>6, <1>8, <2>1
<1>10. Reads(ReadLists(access, column), of, path)
  BY <1>8, <1>9, ReadsMeaning
<1> QED BY <1>10 DEF access

(* A column without a list has one cell.                                   *)
LEMMA ScalarReads ==
  ASSUME NEW of, NEW path, NEW x, x = Meaning(of, path, <<>>), x.t # "list"
  PROVE  Reads([is \in {<<>>} |-> x], of, path)
<1> DEFINE cell == [is \in {<<>>} |-> x]
<1>1. DOMAIN cell = {<<>>} /\ cell[<<>>] = x
  OBVIOUS
<1> HIDE DEF cell
<1>2. ItemsAt(cell, <<>>) = {}
  BY <1>1 DEF ItemsAt
<1>3. Reads(cell, of, path)
  BY <1>1, <1>2 DEF Reads
<1> QED BY <1>3 DEF cell

(* A chain of nothing has no Option.                                       *)
LEMMA NoOptions ==
  OptionLayers(<<>>) = 0 /\ ~HasOption(<<>>) /\ <<>> \in Chains
<1>1. {i \in DOMAIN <<>> : <<>>[i] = "Option"} = {}
  OBVIOUS
<1>2. OptionLayers(<<>>) = 0
  BY <1>1, FS_EmptySet DEF OptionLayers
<1> QED BY <1>2 DEF HasOption, Chains

(* Without a list, the leaf or the null that there is.                     *)
LEMMA OwnScalar ==
  ASSUME NEW of, NEW column, NEW v, IsOwn(of, column, v), ~IsVec(column.shape), column.kind # "TupleParentOption"
  PROVE  Reads([is \in {<<>>} |-> Scalar(Refs(Place(of, column.path, v[0], <<>>), 0), column)], of, column.path)
<1> DEFINE path == column.path
           layers == column.shape.layers
           inner == column.shape.inner_access
           s == of.ty[path].spine
           p == Place(of, path, v[0], <<>>)
<1>1. IsCut(layers, inner, s, v, Len(s)) /\ Depth(column.shape) = Len(layers) /\ Depth(column.shape) \in Nat
  BY OwnIs
<1>2. /\ IsRow(of) /\ path \in Seq(Nat) /\ IsPath(of.ty, path) /\ s \in Seq(RawWrappers) /\ of.ty[path].base \in LeafBases
      /\ \A m \in 0 .. Len(path) - 1 : Pointed(Spine(of.ty, path, m))
      /\ IsShapeCut(column.shape, s, v)
  BY DEF IsOwn
<1>3. layers = <<>> /\ Len(layers) = 0 /\ 0 \in 0 .. Len(layers) /\ ~(0 < Len(layers))
  BY DEF IsVec
<1>4. column.shape = Bare <=> inner = <<>>
  <2>1. column.shape = [layers |-> layers, inner_option_layers |-> OptionLayers(inner), inner_access |-> inner]
    BY <1>2 DEF IsShapeCut
  <2>2. Bare = [layers |-> <<>>, inner_option_layers |-> 0, inner_access |-> <<>>]
    BY DEF Bare, LeafShape
  <2> HIDE DEF layers, inner
  <2>3. inner = <<>> => column.shape = Bare
    BY <1>3, <2>1, <2>2, NoOptions
  <2>4. Bare.inner_access = <<>>
    BY <2>2
  <2> QED BY <2>3, <2>4 DEF inner
<1>5. SomeReceiver(column) = 1
  BY DEF SomeReceiver
<1> HIDE DEF layers, inner, s, path
<1>6. IsStretchPlace(of, path, layers, inner, v, 0, <<>>)
  <2>1. of.ty[path].spine \in Seq(RawWrappers) /\ IsCut(layers, inner, of.ty[path].spine, v, Len(of.ty[path].spine))
    BY <1>1, <1>2 DEF s
  <2> QED BY <1>3, <2>1, StretchPlace
<1>7. ChainAt(layers, inner, 0) = inner
  BY <1>3 DEF ChainAt
<1>8. /\ IsPlace(p) /\ Segment(p, inner) /\ IsLeafAt(Inside(p, Len(inner)))
      /\ inner # <<>> => WrapperAt(p, 0) = "Option"
      /\ StretchGone(of, path, layers, v, 0, <<>>) <=> Absent(p, Len(inner))
  BY <1>2, <1>3, <1>6, <1>7 DEF IsStretchPlace, IsLeafAt
<1>9. p.node = path /\ p.at = <<>>
  BY DEF Place
<1> HIDE DEF p
<1>10. Scalar(Refs(p, 0), column) = Outcome(Absent(p, Len(inner)), Leaf(path, <<>>))
  <2>1. Scalar(Refs(p, 0), column) = Outcome(Absent(p, Len(inner)), Leaf(p.node, p.at))
    <3>1. column.shape.inner_access = inner
      BY DEF inner
    <3> QED BY <1>4, <1>5, <1>8, <3>1, PlaceScalar
  <2> QED BY <1>9, <2>1
<1>11. Meaning(of, path, <<>>) = Outcome(Absent(p, Len(inner)), Leaf(path, <<>>))
  <2>1. <<>> \in Seq(Nat) /\ Len(<<>>) = 0 /\ Len(<<>>) <= Len(layers)
    BY <1>3
  <2>2. IsCut(layers, inner, of.ty[path].spine, v, Len(of.ty[path].spine))
    BY <1>1 DEF s
  <2>3. Meaning(of, path, <<>>) = OwnMeant(of, path, layers, v, <<>>)
    BY <1>2, <2>1, <2>2, OwnMeaning
  <2>4. OwnMeant(of, path, layers, v, <<>>) = Outcome(StretchGone(of, path, layers, v, 0, <<>>), Leaf(path, <<>>))
    BY <1>3, <2>1 DEF OwnMeant
  <2> QED BY <1>8, <2>3, <2>4 DEF Outcome
<1>12. Scalar(Refs(p, 0), column).t # "list"
  BY <1>10 DEF Outcome, Null, Leaf
<1> QED BY <1>10, <1>11, <1>12, ScalarReads DEF p, path

(* A list that is copied has no Option in it.                              *)
LEMMA OwnCopied ==
  ASSUME NEW of, NEW column, NEW v, IsOwn(of, column, v), IsPlainBoolList(column)
  PROVE  Reads(CopiedList(Refs(Place(of, column.path, v[0], <<>>), 0)), of, column.path)
<1> DEFINE path == column.path
           layers == column.shape.layers
           inner == column.shape.inner_access
           s == of.ty[path].spine
           p == Place(of, path, v[0], <<>>)
           meant == [is \in Seq(Nat) |-> OwnMeant(of, path, layers, v, is)]
           cell == CopiedList(Refs(p, 0))
<1>1. /\ IsCut(layers, inner, s, v, Len(s)) /\ Depth(column.shape) = Len(layers) /\ layers \in Seq(Layers)
  BY OwnIs
<1>2. /\ IsRow(of) /\ path \in Seq(Nat) /\ IsPath(of.ty, path) /\ s \in Seq(RawWrappers) /\ of.ty[path].base \in LeafBases
      /\ \A m \in 0 .. Len(path) - 1 : Pointed(Spine(of.ty, path, m))
  BY DEF IsOwn
<1>3. Len(layers) = 1 /\ inner = <<>> /\ ~HasOuterValidity(layers[1])
  <2>1. Len(layers) = 1 /\ inner = <<>> /\ ~AnyOuterValidity(column.shape)
    BY <1>1 DEF IsPlainBoolList
  <2>2. 1 \in DOMAIN layers
    BY <1>1, <2>1
  <2> QED BY <2>1, <2>2 DEF AnyOuterValidity
<1> HIDE DEF layers, inner, s, path
<1>4. of.ty[path].spine \in Seq(RawWrappers) /\ IsCut(layers, inner, of.ty[path].spine, v, Len(of.ty[path].spine))
  BY <1>1, <1>2 DEF s
<1>5. 0 \in 0 .. Len(layers) /\ 1 \in 0 .. Len(layers) /\ 0 < Len(layers) /\ ~(1 < Len(layers)) /\ 0 + 1 = 1
  BY <1>3
<1>6. layers[1].access = <<>>
  <2>1. IsStretchPlace(of, path, layers, inner, v, 0, <<>>)
    BY <1>4, <1>5, StretchPlace
  <2>2. ChainAt(layers, inner, 0) = layers[1].access
    BY <1>5 DEF ChainAt
  <2>3. layers[1] \in Layers
    <3>1. layers \in Seq(Layers)
      BY <1>1
    <3> QED BY <1>3, <3>1
  <2>4. layers[1].access \in Chains
    BY <2>3 DEF Layers
  <2>5. layers[1].option_layers_above = OptionLayers(layers[1].access)
    BY <1>1, <1>3 DEF IsCut
  <2>6. ~HasOption(layers[1].access)
    BY <1>3, <2>4, <2>5, OptionCount DEF HasOuterValidity
  <2> SUFFICES ASSUME layers[1].access # <<>> PROVE FALSE
    OBVIOUS
  <2>7. WrapperAt(p, 0) = "Option" /\ Segment(p, layers[1].access)
    BY <2>1, <2>2 DEF IsStretchPlace
  <2>8. 1 \in DOMAIN layers[1].access /\ layers[1].access[1] = "Option"
    <3>1. layers[1].access \in Seq(AccessSteps)
      BY <2>4 DEF Chains
    <3>2. 1 \in 1 .. Len(layers[1].access) /\ 1 - 1 = 0 /\ DOMAIN layers[1].access = 1 .. Len(layers[1].access)
      BY <3>1
    <3> QED BY <2>7, <3>2 DEF Segment
  <2> QED BY <2>6, <2>8 DEF HasOption
<1>7. /\ IsPlace(p) /\ IsWrapped(p, "Vec", 1) /\ p.row = of
      /\ ~StretchGone(of, path, layers, v, 0, <<>>) /\ StretchEnd(of, path, layers, v, 0, <<>>) = p
  <2>1. IsStretchPlace(of, path, layers, inner, v, 0, <<>>)
    BY <1>4, <1>5, StretchPlace
  <2>2. ChainAt(layers, inner, 0) = <<>>
    BY <1>5, <1>6 DEF ChainAt
  <2>3. /\ IsPlace(p) /\ IsWrapped(Inside(p, 0), "Vec", 1)
        /\ StretchGone(of, path, layers, v, 0, <<>>) <=> Absent(p, 0)
        /\ StretchEnd(of, path, layers, v, 0, <<>>) = Inside(p, 0)
    <3>1. Len(<<>>) = 0
      OBVIOUS
    <3> QED BY <1>5, <2>1, <2>2, <3>1 DEF IsStretchPlace
  <2>4. Inside(p, 0) = p
    <3>1. p.depth + 0 <= Len(Node(p).spine)
      BY <2>3 DEF IsPlace
    <3> QED BY <2>3, <3>1, InsidePlace
  <2>5. ~Absent(p, 0)
    <3>1. 0 \in Nat
      OBVIOUS
    <3> HIDE DEF p
    <3> QED BY <3>1, AbsentNext
  <2>6. p.row = of
    BY DEF Place
  <2> QED BY <2>3, <2>4, <2>5, <2>6
<1>8. Count(p) \in Nat
  BY <1>2, <1>7, CountIsNat
<1>9. Iter(Ref(Refs(p, 0))) = ItemsOf(p)
  <2>1. 0 \in Nat /\ 1 \in Nat
    OBVIOUS
  <2> HIDE DEF p
  <2> QED BY <1>7, <2>1, RefsAre, IterPlace
<1>10. ASSUME NEW i \in 1 .. Count(p)
       PROVE  ByRef(Refs(ItemOf(p, i), 1), 1) = Leaf(path, <<i>>) /\ meant[<<i>>] = Leaf(path, <<i>>)
  <2>1. <<i>> \in Seq(Nat) /\ Len(<<i>>) = 1 /\ Append(<<>>, i) = <<i>>
    BY <1>8
  <2>2. NextItemIs(of, path, layers, v, 0, <<>>, i)
    BY <1>4, <1>5, NextItem
  <2>3. ItemOf(p, i) = Place(of, path, v[1], <<i>>)
    BY <1>5, <1>7, <2>1, <2>2 DEF NextItemIs
  <2>4. IsStretchPlace(of, path, layers, inner, v, 1, <<i>>)
    BY <1>4, <1>5, StretchPlace
  <2>5. ChainAt(layers, inner, 1) = <<>>
    BY <1>3, <1>5 DEF ChainAt
  <2> DEFINE q == Place(of, path, v[1], <<i>>)
  <2>6. q.node = path /\ q.at = <<i>>
    BY DEF Place
  <2>7. IsLeafAt(q) /\ ~StretchGone(of, path, layers, v, 1, <<i>>)
    <3>1. /\ IsPlace(q) /\ IsBare(Inside(q, 0)) /\ Node(Inside(q, 0)) = of.ty[path]
          /\ StretchGone(of, path, layers, v, 1, <<i>>) <=> Absent(q, 0)
      <4>1. Len(<<>>) = 0
        OBVIOUS
      <4> QED BY <1>5, <2>4, <2>5, <4>1 DEF IsStretchPlace
    <3> HIDE DEF q
    <3>2. Inside(q, 0) = q
      <4>1. q.depth + 0 <= Len(Node(q).spine)
        BY <3>1 DEF IsPlace
      <4> QED BY <3>1, <4>1, InsidePlace
    <3>3. ~Absent(q, 0)
      <4>1. 0 \in Nat
        OBVIOUS
      <4> QED BY <4>1, AbsentNext
    <3> QED BY <1>2, <3>1, <3>2, <3>3 DEF IsLeafAt
  <2>8. meant[<<i>>] = Leaf(path, <<i>>)
    <3>1. meant[<<i>>] = OwnMeant(of, path, layers, v, <<i>>)
      BY <2>1
    <3> HIDE DEF meant
    <3> QED BY <1>5, <2>1, <2>7, <3>1 DEF OwnMeant, Outcome
  <2> HIDE DEF q
  <2>9. ByRef(Refs(q, 1), 1) = Leaf(path, <<i>>)
    <3>1. 1 \in Nat
      OBVIOUS
    <3> QED BY <2>6, <2>7, <3>1, LeafValues
  <2> QED BY <2>3, <2>8, <2>9 DEF q
<1>11. meant[<<>>] = ListOf(Count(p))
  <2>1. <<>> \in Seq(Nat) /\ Len(<<>>) = 0
    OBVIOUS
  <2>2. meant[<<>>] = OwnMeant(of, path, layers, v, <<>>)
    BY <2>1
  <2> HIDE DEF meant, p
  <2> QED BY <1>5, <1>7, <2>1, <2>2 DEF OwnMeant, Outcome
<1> HIDE DEF p, meant
<1> DEFINE xs == [i \in 1 .. Count(p) |-> Refs(ItemOf(p, i), 1)]
<1>12. /\ DOMAIN xs = 1 .. Count(p) /\ Len(xs) = Count(p)
       /\ \A i \in 1 .. Count(p) : xs[i] = Refs(ItemOf(p, i), 1)
  <2>1. xs \in Seq({xs[i] : i \in 1 .. Count(p)})
    BY <1>8
  <2> QED BY <1>8, <2>1
<1>13. ItemsOf(p).t = "items" /\ ItemsOf(p).of = xs
  BY DEF ItemsOf, Items, Expr
<1> HIDE DEF xs
<1>14. /\ DOMAIN cell = {<<>>} \union {<<i>> : i \in 1 .. Count(p)}
       /\ cell[<<>>] = meant[<<>>]
       /\ \A i \in 1 .. Count(p) : cell[<<i>>] = meant[<<i>>]
  <2>1. cell = [is \in {<<>>} \union {<<i>> : i \in 1 .. Count(p)} |->
                  IF is = <<>> THEN ListRead(ItemsOf(p)) ELSE ByRef(xs[is[1]], 1)]
    BY <1>9, <1>12, <1>13 DEF CopiedList
  <2>2. ListRead(ItemsOf(p)) = ListOf(Count(p))
    BY <1>12, <1>13 DEF ListRead
  <2>3. \A i : <<i>> # <<>> /\ <<i>>[1] = i
    OBVIOUS
  <2> HIDE DEF cell
  <2>4. ASSUME NEW i \in 1 .. Count(p) PROVE cell[<<i>>] = meant[<<i>>]
    <3>1. cell[<<i>>] = ByRef(xs[i], 1)
      BY <2>1, <2>3
    <3> QED BY <1>10, <1>12, <3>1
  <2> QED BY <1>11, <2>1, <2>2, <2>4
<1> HIDE DEF cell
<1>15. meant[<<>>].t = "list" /\ meant[<<>>].of = Count(p) /\ \A i \in 1 .. Count(p) : meant[<<i>>].t # "list"
  <2>1. \A n : ListOf(n).t = "list" /\ ListOf(n).of = n
    BY DEF ListOf
  <2>2. \A i : Leaf(path, <<i>>).t = "leaf"
    BY DEF Leaf
  <2>3. meant[<<>>].t = "list" /\ meant[<<>>].of = Count(p)
    BY <1>11, <2>1
  <2>4. \A i \in 1 .. Count(p) : meant[<<i>>].t # "list"
    BY <1>10, <2>2
  <2> QED BY <2>3, <2>4
<1>16. \A i \in Nat : <<i>> \in Seq(Nat) /\ <<i>> # <<>> /\ Len(<<i>>) = 1 /\ <<i>>[1] = i
                      /\ SubSeq(<<i>>, 1, 1 - 1) = <<>> /\ Append(<<>>, i) = <<i>>
  OBVIOUS
<1>17. ReadsAs(cell, meant)
  <2>1. MeantItems(meant, <<>>) = 1 .. Count(p) /\ \A i \in 1 .. Count(p) : MeantItems(meant, <<i>>) = {}
    BY <1>15 DEF MeantItems
  <2>2. \A i \in 1 .. Count(p) : i \in Nat
    BY <1>8
  <2>3. <<>> \in Seq(Nat)
    OBVIOUS
  <2>4. ASSUME NEW i \in 1 .. Count(p)
        PROVE  /\ <<i>> \in Seq(Nat) /\ <<i>> # <<>> /\ Append(<<>>, i) = <<i>> /\ <<i>> \in DOMAIN cell
               /\ SubSeq(<<i>>, 1, Len(<<i>>) - 1) = <<>> /\ <<i>>[Len(<<i>>)] = i
    BY <1>14, <1>16, <2>2
  <2>5. DOMAIN cell \subseteq Seq(Nat) /\ <<>> \in DOMAIN cell /\ \A is \in DOMAIN cell : cell[is] = meant[is]
    <3>1. ASSUME NEW is \in DOMAIN cell PROVE is \in Seq(Nat) /\ cell[is] = meant[is]
      <4>1. CASE is = <<>>
        BY <1>14, <2>3, <4>1
      <4>2. CASE is # <<>>
        <5>1. PICK j \in 1 .. Count(p) : is = <<j>>
          BY <1>14, <4>2
        <5> QED BY <1>14, <2>4, <5>1
      <4> QED BY <4>1, <4>2
    <3>2. <<>> \in DOMAIN cell
      BY <1>14
    <3> QED BY <3>1, <3>2
  <2>6. ASSUME NEW is \in DOMAIN cell, NEW i \in MeantItems(meant, is) PROVE Append(is, i) \in DOMAIN cell
    <3>1. CASE is = <<>>
      BY <2>1, <2>4, <2>6, <3>1
    <3>2. CASE is # <<>>
      <4>1. PICK j \in 1 .. Count(p) : is = <<j>>
        BY <1>14, <3>2
      <4> QED BY <2>1, <2>6, <4>1
    <3> QED BY <3>1, <3>2
  <2>7. ASSUME NEW is \in DOMAIN cell \ {<<>>}
        PROVE  SubSeq(is, 1, Len(is) - 1) \in DOMAIN cell /\ is[Len(is)] \in MeantItems(meant, SubSeq(is, 1, Len(is) - 1))
    <3>1. PICK j \in 1 .. Count(p) : is = <<j>>
      BY <1>14
    <3> QED BY <2>1, <2>4, <2>5, <3>1
  <2> QED BY <2>5, <2>6, <2>7 DEF ReadsAs
<1>18. \A is \in DOMAIN cell : Meaning(of, path, is) = meant[is]
  <2>1. ASSUME NEW is \in Seq(Nat), Len(is) <= Len(layers) PROVE Meaning(of, path, is) = meant[is]
    <3>1. Meaning(of, path, is) = OwnMeant(of, path, layers, v, is)
      BY <1>2, <1>4, <2>1, OwnMeaning
    <3> QED BY <3>1 DEF meant
  <2>2. <<>> \in Seq(Nat) /\ Len(<<>>) <= Len(layers)
    BY <1>3
  <2>3. \A i \in 1 .. Count(p) : <<i>> \in Seq(Nat) /\ Len(<<i>>) <= Len(layers)
    BY <1>3, <1>8, <1>16
  <2> QED BY <1>14, <2>1, <2>2, <2>3
<1>19. Reads(cell, of, path)
  BY <1>17, <1>18, ReadsMeaning
<1> QED BY <1>19 DEF cell, p, path

-----------------------------------------------------------------------------
(* Elements of a wrapped tuple.                                            *)

(* The column of an element: the shape of the tuple, composed with the     *)
(* element's own.                                                          *)
IsElement(of, column, parent, v, own, w) ==
  /\ IsRow(of) /\ column.path \in Seq(Nat) /\ Len(column.path) = 1 /\ IsPath(of.ty, column.path)
  /\ column.path \in DOMAIN of.ty
  /\ of.ty[<<>>].spine \in Seq(RawWrappers) /\ of.ty[<<>>].base = "Tuple"
  /\ of.ty[column.path].spine \in Seq(RawWrappers) /\ of.ty[column.path].base \in LeafBases
  /\ IsShapeCut(parent, of.ty[<<>>].spine, v) /\ IsShapeCut(own, of.ty[column.path].spine, w)
  /\ Len(column.outer) = 2 /\ column.outer[1] = v[0] /\ column.outer[2] = w[0]
  /\ column.kind = ParentKind(parent) /\ column.parent_access = parent.inner_access
  /\ column.projection_layer = ProjectionLayer(parent)
  /\ column.shape = Compose(parent, own)

(* What a cut says of its shape.                                           *)
ShapeFacts(shape, spine, v) ==
  /\ shape = [layers              |-> shape.layers,
              inner_option_layers |-> shape.inner_option_layers,
              inner_access        |-> shape.inner_access]
  /\ shape.inner_option_layers = OptionLayers(shape.inner_access)
  /\ shape.layers \in Seq(Layers) /\ Len(shape.layers) \in Nat
  /\ shape.inner_access \in Seq(AccessSteps) /\ shape.inner_option_layers \in Nat
  /\ HasInnerOption(shape) <=> HasOption(shape.inner_access)
  /\ shape.inner_option_layers > 0 <=> HasOption(shape.inner_access)
  /\ v[0] \in Nat /\ v[0] <= Len(spine) /\ \A i \in 1 .. v[0] : spine[i] = "SmartPtr"
  /\ IsCut(shape.layers, shape.inner_access, spine, v, Len(spine))

(* The shape of a stack and its cut.                                       *)
LEMMA ShapeIs ==
  ASSUME NEW shape, NEW spine, NEW v, IsShapeCut(shape, spine, v)
  PROVE  ShapeFacts(shape, spine, v)
<1>1. /\ shape = [layers              |-> shape.layers,
                  inner_option_layers |-> OptionLayers(shape.inner_access),
                  inner_access        |-> shape.inner_access]
      /\ IsCut(shape.layers, shape.inner_access, spine, v, Len(spine))
  BY DEF IsShapeCut
<1>2. shape.inner_option_layers = OptionLayers(shape.inner_access)
  <2>1. PICK a, b, c : shape = [layers |-> a, inner_option_layers |-> b, inner_access |-> c]
                       /\ b = OptionLayers(shape.inner_access)
    BY <1>1
  <2> QED BY <2>1
<1>3. Len(shape.layers) \in Nat /\ shape.layers \in Seq(Layers) /\ shape.inner_access \in Seq(AccessSteps)
  BY <1>1 DEF IsCut, IsStretch
<1>4. OptionLayers(shape.inner_access) \in Nat /\ (OptionLayers(shape.inner_access) > 0 <=> HasOption(shape.inner_access))
  <2>1. shape.inner_access \in Chains
    BY <1>3 DEF Chains
  <2> QED BY <2>1, OptionCount
<1>5. v[0] \in Nat /\ v[0] <= Len(spine)
  <2>1. 0 \in 0 .. Len(shape.layers)
    BY <1>3
  <2> QED BY <1>1, <2>1, CutBounds
<1>6. \A i \in 1 .. v[0] : spine[i] = "SmartPtr"
  BY <1>1 DEF IsCut
<1> QED BY <1>1, <1>2, <1>3, <1>4, <1>5, <1>6 DEF ShapeFacts, HasInnerOption

(* From the tuple to the element, by a reference or from the field.        *)
ReachesElement(of, column, parent, v, w, at) ==
  LET q == StretchEnd(of, <<>>, parent.layers, v, Len(parent.layers), at)
      c == Place(of, column.path, w[0], at)
  IN /\ ElementStep(Refs(q, 0), 1, column) = Refs(c, 0)
     /\ ProjectElement(Refs(q, 1), column) = Refs(c, 1)
     /\ ProjectPath(Refs(q, 1), column) = Refs(c, 1)

(* From the tuple, by a reference or without, the element.                 *)
LEMMA ElementReached ==
  ASSUME NEW of, NEW column, NEW parent, NEW v, NEW own, NEW w, IsElement(of, column, parent, v, own, w), NEW at
  PROVE  ReachesElement(of, column, parent, v, w, at)
<1> DEFINE k == Len(parent.layers)
           q == StretchEnd(of, <<>>, parent.layers, v, k, at)
           path == column.path
           c == Place(of, path, w[0], at)
           c0 == Place(of, path, 0, at)
           s == of.ty[<<>>].spine
           t == of.ty[path].spine
<1>1. /\ path \in Seq(Nat) /\ Len(path) = 1 /\ path \in DOMAIN of.ty
      /\ s \in Seq(RawWrappers) /\ t \in Seq(RawWrappers) /\ of.ty[<<>>].base = "Tuple"
      /\ Len(column.outer) = 2 /\ column.outer[2] = w[0]
  BY DEF IsElement
<1>2. ShapeFacts(parent, s, v) /\ ShapeFacts(own, t, w)
  BY ShapeIs DEF IsElement
<1>3. IsStretchPlace(of, <<>>, parent.layers, parent.inner_access, v, k, at)
  <2>1. k \in 0 .. Len(parent.layers)
    BY <1>2 DEF ShapeFacts
  <2>2. IsCut(parent.layers, parent.inner_access, s, v, Len(s))
    BY <1>2 DEF ShapeFacts
  <2> HIDE DEF k
  <2> QED BY <1>1, <2>1, <2>2, StretchPlace
<1>4. IsPlace(q) /\ IsBare(q) /\ Node(q).base = "Tuple" /\ q.row = of /\ q.node = <<>> /\ q.at = at
  <2> DEFINE p == Place(of, <<>>, v[k], at)
             n == Len(parent.inner_access)
  <2>1. ~(k < k) /\ ChainAt(parent.layers, parent.inner_access, k) = parent.inner_access
    BY <1>2 DEF ChainAt, ShapeFacts
  <2>2. IsPlace(p) /\ Segment(p, parent.inner_access) /\ q = Inside(p, n) /\ IsBare(Inside(p, n))
        /\ Node(Inside(p, n)) = of.ty[<<>>]
    BY <2>1, <1>3 DEF IsStretchPlace
  <2>3. n \in Nat /\ p.depth + n <= Len(Node(p).spine)
    BY <2>2 DEF Segment
  <2>4. p.row = of /\ p.node = <<>> /\ p.at = at
    BY DEF Place
  <2> HIDE DEF p, n, q
  <2>5. IsPlace(Inside(p, n)) /\ Inside(p, n) = Place(p.row, p.node, p.depth + n, p.at)
    BY <2>2, <2>3, InsidePlace
  <2>6. Inside(p, n).row = of /\ Inside(p, n).node = <<>> /\ Inside(p, n).at = at
    BY <2>4, <2>5 DEF Place
  <2> QED BY <1>1, <2>2, <2>5, <2>6
<1>5. Append(<<>>, path[1]) = path
  <2>1. Len(Append(<<>>, path[1])) = 1 /\ Append(<<>>, path[1])[1] = path[1] /\ path[1] \in Nat
    BY <1>1
  <2> QED BY <1>1, <2>1
<1>6. IsPlace(c0) /\ w[0] \in Nat /\ IsWrapped(c0, "SmartPtr", w[0])
  <2>1. w[0] \in Nat /\ w[0] <= Len(t) /\ Len(t) \in Nat /\ \A i \in 1 .. w[0] : t[i] = "SmartPtr"
    BY <1>1, <1>2 DEF ShapeFacts
  <2>2. c0.row = of /\ c0.node = path /\ c0.depth = 0 /\ c0.at = at /\ Node(c0).spine = t
    BY DEF Place, Node
  <2>3. c0 = Place(c0.row, c0.node, c0.depth, c0.at)
    BY <2>2
  <2> HIDE DEF c0, t
  <2>4. \A i \in 1 .. w[0] : 0 + i = i
    BY <2>1
  <2> QED BY <1>1, <2>1, <2>2, <2>3, <2>4 DEF IsPlace, IsWrapped
<1>7. 1 + 1 = 2
  OBVIOUS
<1> HIDE DEF q
<1>8. IsTuplePlace(q, column, 1)
  <2>1. Append(q.node, column.path[1]) = path
    BY <1>4, <1>5
  <2>2. column.outer[1 + 1] = w[0]
    BY <1>1, <1>7
  <2>3. Place(q.row, Append(q.node, column.path[1]), 0, q.at) = c0
    BY <1>4, <2>1
  <2> HIDE DEF c0
  <2> QED BY <1>1, <1>4, <1>6, <2>1, <2>2, <2>3 DEF IsTuplePlace
<1>9. ElementAt(q, column, 1) = c
  BY <1>1, <1>4, <1>5, <1>7 DEF ElementAt
<1>10. ElementStep(Refs(q, 0), 1, column) = Refs(c, 0)
  BY <1>8, <1>9, ElementIs
<1>11. ProjectElement(Refs(q, 1), column) = Refs(c, 1)
  <2> HIDE DEF c
  <2> QED BY <1>1, <1>8, <1>9, ProjectedElement
<1>12. ProjectPath(Refs(q, 1), column) = Refs(c, 1)
  <2>1. Deref(Refs(q, 1)) = Refs(q, 0)
    <3>1. 1 \in Nat /\ 1 \in 0 .. 1 /\ 1 - 1 = 0
      OBVIOUS
    <3> QED BY <3>1, DerefRefs DEF Deref
  <2>2. Len(column.path) = 1
    BY <1>1
  <2>3. \E f : ThroughTuples(f, Refs(q, 0), column)
    <3>1. Len(column.path) \in Nat
      BY <2>2
    <3> QED BY <3>1, TuplesIs
  <2>4. PICK f : ThroughTuples(f, Refs(q, 0), column)
    BY <2>3
  <2>5. /\ f[0] = Refs(q, 0)
         /\ \A i \in 1 .. Len(column.path) : f[i] = ElementStep(f[i - 1], i, column)
         /\ TuplePath(Refs(q, 0), column) = f[Len(column.path)]
    BY <2>4 DEF ThroughTuples
  <2>6. 1 \in 1 .. Len(column.path) /\ 1 - 1 = 0
    BY <2>2
  <2>7. TuplePath(Refs(q, 0), column) = Refs(c, 0)
    <3>1. f[1] = ElementStep(f[1 - 1], 1, column)
      BY <2>5, <2>6
    <3> QED BY <1>10, <2>2, <2>5, <2>6, <3>1
  <2> HIDE DEF c
  <2>8. Ref(Refs(c, 0)) = Refs(c, 1)
    <3>1. 0 \in Nat
      OBVIOUS
    <3> QED BY <3>1, RefsAre
  <2> QED BY <2>1, <2>7, <2>8 DEF ProjectPath
<1> QED BY <1>10, <1>11, <1>12 DEF ReachesElement, q

(* A loop that starts behind the Option of the tuple.                      *)
OptStretchCase(of, node, is, layers, w, gone, base, r, b, column, bound, meant) ==
  LET c == Place(of, node, w[0], is)
  IN /\ gone \in BOOLEAN /\ r \in Nat /\ b \in Nat
     /\ AsRef(base) = Opt(gone, Refs(c, r)) /\ Found(base, gone, Refs(c, b))
     /\ column.shape.layers[Len(is) + 1].access = PrependOption(layers[1].access)
     /\ bound[is] = base
     /\ meant[is] = Outcome(gone \/ StretchGone(of, node, layers, w, 0, is),
                            ListOf(Count(StretchEnd(of, node, layers, w, 0, is))))
     /\ \A i \in Nat : LayerBind(Refs(Place(of, node, w[1], Append(is, i)), 1), Len(is) + 1, column)
                          = bound[Append(is, i)]

(* The first list of an element, behind the tuple's Option.                *)
LEMMA OptStretchReads ==
  ASSUME NEW of, IsRow(of), NEW node, NEW is \in Seq(Nat), of.ty[node].spine \in Seq(RawWrappers),
         NEW layers, NEW inner, NEW w,
         IsCut(layers, inner, of.ty[node].spine, w, Len(of.ty[node].spine)), 0 < Len(layers),
         NEW gone, NEW base, NEW r, NEW b, NEW column, NEW bound, NEW meant,
         OptStretchCase(of, node, is, layers, w, gone, base, r, b, column, bound, meant)
  PROVE  LoopReads(bound, meant, column, is)
<1> DEFINE c == Place(of, node, w[0], is)
           q == StretchEnd(of, node, layers, w, 0, is)
           lost == StretchGone(of, node, layers, w, 0, is)
           chain == layers[1].access
<1>1. /\ gone \in BOOLEAN /\ r \in Nat /\ b \in Nat
      /\ AsRef(base) = Opt(gone, Refs(c, r)) /\ Found(base, gone, Refs(c, b))
      /\ column.shape.layers[Len(is) + 1].access = PrependOption(chain)
      /\ bound[is] = base
      /\ meant[is] = Outcome(gone \/ lost, ListOf(Count(q)))
      /\ \A i \in Nat : LayerBind(Refs(Place(of, node, w[1], Append(is, i)), 1), Len(is) + 1, column)
                           = bound[Append(is, i)]
  BY DEF OptStretchCase
<1>2. 0 \in 0 .. Len(layers) /\ 0 + 1 = 1 /\ Len(layers) \in Nat
  BY DEF IsCut
<1>3. ChainAt(layers, inner, 0) = chain
  BY <1>2 DEF ChainAt
<1>4. IsPlace(c) /\ Segment(c, chain) /\ IsWrapped(Inside(c, Len(chain)), "Vec", 1)
      /\ (lost <=> Absent(c, Len(chain))) /\ q = Inside(c, Len(chain))
      /\ (chain # <<>> => WrapperAt(c, 0) = "Option")
  <2>1. IsStretchPlace(of, node, layers, inner, w, 0, is)
    BY <1>2, StretchPlace
  <2> QED BY <1>3, <2>1 DEF IsStretchPlace
<1>5. FirstIsOption(c, Len(chain), r)
  <2>1. Len(chain) > 0 => chain # <<>>
    OBVIOUS
  <2> QED BY <1>4, <2>1 DEF FirstIsOption
<1>6. lost \in BOOLEAN
  BY DEF StretchGone, Absent
<1>7. Count(q) \in Nat
  <2>1. NextItemIs(of, node, layers, w, 0, is, 0)
    BY <1>2, NextItem
  <2>2. q.row = of
    BY <2>1 DEF NextItemIs
  <2> HIDE DEF q
  <2> QED BY <2>2, CountIsNat
<1>8. \A i \in 1 .. Count(q) : LayerBind(Refs(ItemOf(q, i), 1), Len(is) + 1, column) = bound[Append(is, i)]
  <2> SUFFICES ASSUME NEW i \in 1 .. Count(q)
               PROVE  LayerBind(Refs(ItemOf(q, i), 1), Len(is) + 1, column) = bound[Append(is, i)]
    OBVIOUS
  <2>1. ItemOf(q, i) = Place(of, node, w[1], Append(is, i))
    <3>1. NextItemIs(of, node, layers, w, 0, is, i)
      BY <1>2, NextItem
    <3> QED BY <1>2, <3>1 DEF NextItemIs
  <2>2. i \in Nat
    BY <1>7
  <2> QED BY <1>1, <2>1, <2>2
<1> HIDE DEF c, chain
<1>9. ReadLayer(base, Len(is) + 1, column) = ListAt(gone \/ Absent(c, Len(chain)), Inside(c, Len(chain)))
  BY <1>1, <1>4, <1>5, LayerFromOpt
<1>10. ReadLayer(bound[is], Len(is) + 1, column) = ListAt(gone \/ lost, q)
  <2>1. ListAt(gone \/ Absent(c, Len(chain)), Inside(c, Len(chain))) = ListAt(gone \/ lost, q)
    BY <1>4 DEF ListAt
  <2> QED BY <1>1, <1>9, <2>1
<1>11. (gone \/ lost) \in BOOLEAN
  OBVIOUS
<1> HIDE DEF q, lost
<1> QED BY <1>1, <1>7, <1>8, <1>10, <1>11, StretchLoop

(* The field behind its pointers.                                          *)
LEMMA FieldReached ==
  ASSUME NEW of, NEW column, NEW n, column.outer[1] = n, n \in Nat,
         of.ty[<<>>].spine \in Seq(RawWrappers), n <= Len(of.ty[<<>>].spine),
         \A i \in 1 .. n : of.ty[<<>>].spine[i] = "SmartPtr"
  PROVE  FieldSourceAccess(of, column) = Refs(Place(of, <<>>, n, <<>>), 0)
<1> DEFINE p == Place(of, <<>>, 0, <<>>)
           s == of.ty[<<>>].spine
<1>1. p.row = of /\ p.node = <<>> /\ p.depth = 0 /\ p.at = <<>> /\ Node(p).spine = s
  BY DEF Place, Node
<1>2. p = Place(p.row, p.node, p.depth, p.at)
  BY <1>1
<1>3. At(p) = Refs(p, 0)
  BY DEF At, Refs
<1>4. \A i \in 1 .. n : 0 + i = i
  OBVIOUS
<1>5. s \in Seq(RawWrappers) /\ Len(s) \in Nat /\ n <= Len(s) /\ \A i \in 1 .. n : s[i] = "SmartPtr"
  OBVIOUS
<1>6. FieldSourceAccess(of, column) = DerefTimes(Refs(p, 0), n)
  BY <1>3 DEF FieldSourceAccess
<1> HIDE DEF p, s
<1>7. IsPlace(p) /\ IsWrapped(p, "SmartPtr", n)
  BY <1>1, <1>2, <1>4, <1>5 DEF IsPlace, IsWrapped
<1>8. 0 + n = n /\ p.depth + n <= Len(Node(p).spine)
  BY <1>1, <1>5
<1>9. Inside(p, n) = Place(of, <<>>, n, <<>>)
  <2>1. Inside(p, n) = Place(p.row, p.node, p.depth + n, p.at)
    BY <1>7, <1>8, InsidePlace
  <2> QED BY <1>1, <1>8, <2>1
<1> QED BY <1>6, <1>7, <1>9, DerefPlace

(* What the column of an element is made of.                               *)
ElementFacts(of, column, parent, v, own, w) ==
  /\ ShapeFacts(parent, of.ty[<<>>].spine, v) /\ ShapeFacts(own, of.ty[column.path].spine, w)
  /\ IsRow(of) /\ column.path \in Seq(Nat) /\ Len(column.path) = 1
  /\ of.ty[<<>>].spine \in Seq(RawWrappers) /\ of.ty[column.path].spine \in Seq(RawWrappers)
  /\ of.ty[column.path].base \in LeafBases
  /\ column.kind = ParentKind(parent) /\ column.parent_access = parent.inner_access
  /\ column.projection_layer = ProjectionLayer(parent) /\ column.shape = Compose(parent, own)
  /\ FieldSourceAccess(of, column) = Refs(Place(of, <<>>, v[0], <<>>), 0)

(* A column of an element has the shapes of the two stacks.                *)
LEMMA ElementHas ==
  ASSUME NEW of, NEW column, NEW parent, NEW v, NEW own, NEW w, IsElement(of, column, parent, v, own, w)
  PROVE  ElementFacts(of, column, parent, v, own, w)
<1>1. ShapeFacts(parent, of.ty[<<>>].spine, v) /\ ShapeFacts(own, of.ty[column.path].spine, w)
  BY ShapeIs DEF IsElement
<1>2. /\ v[0] \in Nat /\ v[0] <= Len(of.ty[<<>>].spine)
      /\ \A i \in 1 .. v[0] : of.ty[<<>>].spine[i] = "SmartPtr"
  BY <1>1 DEF ShapeFacts
<1>3. column.outer[1] = v[0] /\ of.ty[<<>>].spine \in Seq(RawWrappers)
  BY DEF IsElement
<1>4. FieldSourceAccess(of, column) = Refs(Place(of, <<>>, v[0], <<>>), 0)
  BY <1>2, <1>3, FieldReached
<1> QED BY <1>1, <1>4 DEF IsElement, ElementFacts

ElementMeant(of, column, parent, v, own, w, is) ==
  Meaning(of, column.path, is) = TupleMeaning(of, column.path, parent.layers, v, own.layers, w, is)

(* What an element's index paths mean, by the two cuts.                    *)
LEMMA ElementMeans ==
  ASSUME NEW of, NEW column, NEW parent, NEW v, NEW own, NEW w, IsElement(of, column, parent, v, own, w),
         NEW is \in Seq(Nat), Len(is) <= Len(parent.layers) + Len(own.layers)
  PROVE  ElementMeant(of, column, parent, v, own, w, is)
<1> DEFINE path == column.path
<1>1. path \in Seq(Nat) /\ Len(path) = 1 /\ IsPath(of.ty, path)
  BY DEF IsElement
<1>2. /\ IsCut(parent.layers, parent.inner_access, of.ty[<<>>].spine, v, Len(of.ty[<<>>].spine))
      /\ IsCut(own.layers, own.inner_access, of.ty[path].spine, w, Len(of.ty[path].spine))
  BY DEF IsElement, IsShapeCut
<1> HIDE DEF path
<1>3. Meaning(of, path, is) = TupleMeaning(of, path, parent.layers, v, own.layers, w, is)
  <2>1. PICK outer, last, layers, inner :
          outer = parent.layers /\ last = parent.inner_access /\ layers = own.layers /\ inner = own.inner_access
    OBVIOUS
  <2>2. /\ IsCut(outer, last, of.ty[<<>>].spine, v, Len(of.ty[<<>>].spine))
        /\ IsCut(layers, inner, of.ty[path].spine, w, Len(of.ty[path].spine))
        /\ Len(is) <= Len(outer) + Len(layers)
    BY <1>2, <2>1
  <2>3. TupleCase(of, path, outer, last, v, layers, inner, w, is)
    BY <1>1, <2>2 DEF TupleCase
  <2>4. Meaning(of, path, is) = TupleMeaning(of, path, outer, v, layers, w, is)
    BY <2>3, ElementMeaning
  <2> QED BY <2>1, <2>4
<1> QED BY <1>3 DEF ElementMeant, path

-----------------------------------------------------------------------------
(* Elements of an optional tuple.                                          *)

(* The Option of the tuple, with a reference to the element in it, or the  *)
(* element itself where it is copied.                                      *)
OptionalAccess(of, column, parent, v, w) ==
  TupleParentOptionAccess(of, column)
    = Opt(StretchGone(of, <<>>, parent.layers, v, 0, <<>>),
          Refs(Place(of, column.path, w[0], <<>>), IF IsCopyProjection(column) THEN 0 ELSE 1))

(* The Option of an optional tuple holds the element, or a reference to    *)
(* it.                                                                     *)
LEMMA OptionalReached ==
  ASSUME NEW of, NEW column, NEW parent, NEW v, NEW own, NEW w, IsElement(of, column, parent, v, own, w),
         ~IsVec(parent), HasInnerOption(parent)
  PROVE  OptionalAccess(of, column, parent, v, w)
<1> DEFINE p == Place(of, <<>>, v[0], <<>>)
           last == parent.inner_access
           q == StretchEnd(of, <<>>, parent.layers, v, 0, <<>>)
           c == Place(of, column.path, w[0], <<>>)
           gone == StretchGone(of, <<>>, parent.layers, v, 0, <<>>)
<1>1. ElementFacts(of, column, parent, v, own, w)
  BY ElementHas
<1>2. Len(parent.layers) = 0
  BY DEF IsVec
<1>3. ReachesElement(of, column, parent, v, w, <<>>)
  BY ElementReached
<1>4. ProjectPath(Refs(q, 1), column) = Refs(c, 1)
  BY <1>2, <1>3 DEF ReachesElement
<1>5. IsStretchPlace(of, <<>>, parent.layers, last, v, 0, <<>>)
  <2>1. 0 \in 0 .. Len(parent.layers)
    BY <1>2
  <2>2. of.ty[<<>>].spine \in Seq(RawWrappers)
        /\ IsCut(parent.layers, parent.inner_access, of.ty[<<>>].spine, v, Len(of.ty[<<>>].spine))
    BY <1>1 DEF ElementFacts, ShapeFacts
  <2> QED BY <2>1, <2>2, StretchPlace
<1>6. IsPlace(p) /\ Segment(p, last) /\ (gone <=> Absent(p, Len(last))) /\ q = Inside(p, Len(last))
      /\ (last # <<>> => WrapperAt(p, 0) = "Option")
  <2>1. ChainAt(parent.layers, last, 0) = last
    BY <1>2 DEF ChainAt
  <2> QED BY <1>5, <2>1 DEF IsStretchPlace
<1>7. HasOption(last)
  BY <1>1 DEF ElementFacts, ShapeFacts
<1>8. FirstIsOption(p, Len(last), 0)
  <2>1. Len(last) > 0 => last # <<>>
    OBVIOUS
  <2> QED BY <1>6, <2>1 DEF FirstIsOption
<1>9. FieldSourceAccess(of, column) = Refs(p, 0) /\ column.parent_access = last
  BY <1>1 DEF ElementFacts
<1>10. gone \in BOOLEAN
  BY DEF StretchGone, Absent
<1>11. Refs(c, 0) = Deref(Refs(c, 1)) /\ 0 \in Nat /\ 1 \in Nat
  <2>1. 1 \in 0 .. 1 /\ 1 - 1 = 0 /\ 1 \in Nat /\ 0 \in Nat
    OBVIOUS
  <2> QED BY <2>1, DerefRefs DEF Deref
<1>12. Some(Refs(c, 0)) = Opt(FALSE, Refs(c, 0)) /\ Some(Refs(c, 1)) = Opt(FALSE, Refs(c, 1))
  BY <1>11, RefsAre
<1>13. TupleParentOptionAccess(of, column)
         = Map(AccessChainToOptionRef(Refs(p, 0), last),
               LAMBDA tuple : IF IsCopyProjection(column) THEN Deref(ProjectPath(tuple, column))
                              ELSE ProjectPath(tuple, column))
  BY <1>9 DEF TupleParentOptionAccess
<1> HIDE DEF p, last, q, c, gone
<1>14. AccessChainToOptionRef(Refs(p, 0), last) = Opt(gone, Refs(q, 1))
  <2>1. AccessChainToOptionRef(Refs(p, 0), last) = Opt(Absent(p, Len(last)), Refs(Inside(p, Len(last)), 1))
    BY <1>6, <1>7, <1>8, <1>11, PlaceAccess
  <2>2. Opt(Absent(p, Len(last)), Refs(Inside(p, Len(last)), 1)) = Opt(gone, Refs(q, 1))
    BY <1>6 DEF Opt
  <2> QED BY <2>1, <2>2
<1>15. /\ IsSome(Opt(gone, Refs(q, 1))) <=> ~gone
       /\ IsNone(Opt(gone, Refs(q, 1))) <=> gone
       /\ ~gone => Opened(Opt(gone, Refs(q, 1))).of = Refs(q, 1)
  BY <1>10, OpenedOpt
<1>16. CASE gone
  <2>1. TupleParentOptionAccess(of, column) = None
    BY <1>13, <1>14, <1>15, <1>16 DEF Map
  <2> QED BY <1>16, <2>1 DEF OptionalAccess, Opt, gone
<1>17. CASE ~gone
  <2>1. TupleParentOptionAccess(of, column)
          = IF IsCopyProjection(column) THEN Some(Deref(Refs(c, 1))) ELSE Some(Refs(c, 1))
    BY <1>4, <1>13, <1>14, <1>15, <1>17 DEF Map
  <2>2. TupleParentOptionAccess(of, column) = Opt(gone, Refs(c, IF IsCopyProjection(column) THEN 0 ELSE 1))
    BY <1>11, <1>12, <1>17, <2>1 DEF Opt
  <2> QED BY <2>2 DEF OptionalAccess, gone, c
<1> QED BY <1>10, <1>16, <1>17

(* Under an Option, a shape has that Option in front of its first chain.   *)
OptionComposed(shape, own) ==
  /\ IsVec(own) =>
       /\ Len(shape.layers) = Len(own.layers) /\ shape.inner_access = own.inner_access
       /\ HasInnerOption(shape) <=> HasInnerOption(own)
       /\ shape.layers[1].access = PrependOption(own.layers[1].access)
       /\ \A k \in 2 .. Len(own.layers) : shape.layers[k].access = own.layers[k].access
       /\ AnyOuterValidity(shape) /\ IsVec(shape)
  /\ ~IsVec(own) =>
       /\ shape.inner_access = PrependOption(own.inner_access) /\ ~IsVec(shape)
       /\ HasInnerOption(shape) /\ shape # Bare

(* Composing puts the Option of the tuple in front of the first chain.     *)
LEMMA OptionComposes ==
  ASSUME NEW own, NEW spine, NEW w, ShapeFacts(own, spine, w)
  PROVE  OptionComposed(ComposeOption(own), own)
<1>1. own.inner_option_layers \in Nat /\ own.layers \in Seq(Layers) /\ Len(own.layers) \in Nat
      /\ own = [layers |-> own.layers, inner_option_layers |-> own.inner_option_layers,
                inner_access |-> own.inner_access]
  BY DEF ShapeFacts
<1>2. CASE ~IsVec(own)
  <2>1. 1 + own.inner_option_layers \in Nat /\ 1 + own.inner_option_layers > 0 /\ 1 + own.inner_option_layers # 0
    BY <1>1
  <2>2. ComposeOption(own) = LeafShape(1 + own.inner_option_layers, PrependOption(own.inner_access))
    BY <1>2, <2>1 DEF ComposeOption, FromOptionAccess
  <2>3. PICK n : n = 1 + own.inner_option_layers
    OBVIOUS
  <2>4. /\ LeafShape(n, PrependOption(own.inner_access)).inner_access = PrependOption(own.inner_access)
        /\ LeafShape(n, PrependOption(own.inner_access)).layers = <<>>
        /\ LeafShape(n, PrependOption(own.inner_access)).inner_option_layers = n
        /\ Bare.inner_option_layers = 0
    BY DEF LeafShape, Bare
  <2>5. LeafShape(n, PrependOption(own.inner_access)) # Bare
    BY <2>1, <2>3, <2>4
  <2> QED BY <1>2, <2>1, <2>2, <2>3, <2>4, <2>5 DEF OptionComposed, IsVec, HasInnerOption
<1>3. CASE IsVec(own)
  <2>1. own.layers # <<>> /\ 1 \in DOMAIN own.layers /\ 1 \in 1 .. Len(own.layers)
    BY <1>1, <1>3 DEF IsVec
  <2>2. PICK first : first = PrependOption(own.layers[1].access)
    OBVIOUS
  <2>3. PICK layers : layers = AddToFirst(own.layers, 1, first)
    OBVIOUS
  <2>4. /\ layers \in Seq([option_layers_above : Int, access : {first}] \union Layers)
        /\ Len(layers) = Len(own.layers)
        /\ layers[1] = [option_layers_above |-> own.layers[1].option_layers_above + 1, access |-> first]
        /\ \A k \in 2 .. Len(own.layers) : layers[k] = own.layers[k]
    <3>1. own.layers[1] \in Layers
      BY <1>1, <2>1
    <3>2. own.layers[1].option_layers_above \in Nat
      BY <3>1 DEF Layers
    <3>3. [option_layers_above |-> own.layers[1].option_layers_above + 1, access |-> first]
            \in [option_layers_above : Int, access : {first}]
      BY <3>2
    <3>4. PICK x : x = [option_layers_above |-> own.layers[1].option_layers_above + 1, access |-> first]
      OBVIOUS
    <3>5. layers = [own.layers EXCEPT ![1] = x]
      BY <2>3, <3>4 DEF AddToFirst
    <3>6. x \in [option_layers_above : Int, access : {first}] \union Layers
      BY <3>3, <3>4
    <3>7. PICK S : S = [option_layers_above : Int, access : {first}] \union Layers
      OBVIOUS
    <3>8. own.layers \in Seq(S) /\ x \in S
      BY <1>1, <3>6, <3>7
    <3>9. layers \in Seq(S) /\ Len(layers) = Len(own.layers) /\ layers[1] = x
          /\ \A k \in 2 .. Len(own.layers) : layers[k] = own.layers[k]
      BY <2>1, <3>5, <3>8, <1>1
    <3> QED BY <3>4, <3>7, <3>9
  <2>5. /\ layers[1].access = first
        /\ layers[1].option_layers_above > 0
    <3>1. own.layers[1] \in Layers
      BY <1>1, <2>1
    <3>2. own.layers[1].option_layers_above \in Nat
      BY <3>1 DEF Layers
    <3>3. PICK n : n = own.layers[1].option_layers_above
      OBVIOUS
    <3>4. layers[1].option_layers_above = n + 1 /\ layers[1].access = first
      BY <2>4, <3>3
    <3> QED BY <3>2, <3>3, <3>4
  <2>6. 1 \in DOMAIN layers /\ layers # <<>>
    BY <1>1, <2>1, <2>4
  <2>7. ComposeOption(own) = [own EXCEPT !.layers = layers]
    BY <1>3, <2>2, <2>3 DEF ComposeOption
  <2>8. /\ ComposeOption(own).layers = layers /\ ComposeOption(own).inner_access = own.inner_access
        /\ ComposeOption(own).inner_option_layers = own.inner_option_layers
    <3>1. PICK a, b, c : own = [layers |-> a, inner_option_layers |-> b, inner_access |-> c]
      BY <1>1
    <3> QED BY <2>7, <3>1
  <2>9. PICK shape : shape = ComposeOption(own)
    OBVIOUS
  <2>10. /\ shape.layers = layers /\ shape.inner_access = own.inner_access
         /\ shape.inner_option_layers = own.inner_option_layers
    BY <2>8, <2>9
  <2>11. AnyOuterValidity(shape) /\ IsVec(shape)
    BY <2>5, <2>6, <2>10 DEF AnyOuterValidity, HasOuterValidity, IsVec
  <2>12. OptionComposed(shape, own)
    BY <1>3, <2>2, <2>4, <2>5, <2>10, <2>11 DEF OptionComposed, HasInnerOption
  <2> QED BY <2>9, <2>12
<1> QED BY <1>2, <1>3

(* An element of an optional tuple without a list reads its path.          *)
LEMMA OptionalScalar ==
  ASSUME NEW of, NEW column, NEW parent, NEW v, NEW own, NEW w, IsElement(of, column, parent, v, own, w),
         ~IsVec(parent), HasInnerOption(parent), ~IsVec(own)
  PROVE  Reads([is \in {<<>>} |-> Scalar(TupleParentOptionAccess(of, column), column)], of, column.path)
<1> DEFINE c == Place(of, column.path, w[0], <<>>)
           chain == own.inner_access
           gone == StretchGone(of, <<>>, parent.layers, v, 0, <<>>)
           lost == StretchGone(of, column.path, own.layers, w, 0, <<>>)
           path == column.path
<1>1. ElementFacts(of, column, parent, v, own, w)
  BY ElementHas
<1>2. Len(parent.layers) = 0 /\ Len(own.layers) = 0
  BY DEF IsVec
<1>3. column.kind = "TupleParentOption" /\ column.shape = ComposeOption(own)
  BY <1>1 DEF ElementFacts, ParentKind, Compose
<1>4. /\ column.shape.inner_access = PrependOption(chain) /\ ~IsVec(column.shape)
      /\ HasInnerOption(column.shape) /\ column.shape # Bare
  <2>1. OptionComposed(ComposeOption(own), own)
    BY <1>1, OptionComposes DEF ElementFacts
  <2> QED BY <1>3, <2>1 DEF OptionComposed
<1>5. IsStretchPlace(of, path, own.layers, chain, w, 0, <<>>)
  <2>1. 0 \in 0 .. Len(own.layers)
    BY <1>2
  <2>2. of.ty[path].spine \in Seq(RawWrappers)
        /\ IsCut(own.layers, own.inner_access, of.ty[path].spine, w, Len(of.ty[path].spine))
    BY <1>1 DEF ElementFacts, ShapeFacts
  <2> HIDE DEF path
  <2> QED BY <2>1, <2>2, StretchPlace
<1>6. IsPlace(c) /\ Segment(c, chain) /\ (lost <=> Absent(c, Len(chain))) /\ IsBare(Inside(c, Len(chain)))
      /\ Node(Inside(c, Len(chain))) = of.ty[path] /\ (chain # <<>> => WrapperAt(c, 0) = "Option")
  <2>1. ChainAt(own.layers, chain, 0) = chain /\ ~(0 < Len(own.layers))
    BY <1>2 DEF ChainAt
  <2> QED BY <1>5, <2>1 DEF IsStretchPlace
<1>7. IsLeafAt(Inside(c, Len(chain)))
  BY <1>1, <1>6 DEF IsLeafAt, ElementFacts
<1>8. TupleParentOptionAccess(of, column) = Opt(gone, Refs(c, IF IsCopyProjection(column) THEN 0 ELSE 1))
  BY OptionalReached DEF OptionalAccess
<1>9. gone \in BOOLEAN /\ lost \in BOOLEAN
  BY DEF StretchGone, Absent
<1>10. c.node = path /\ c.at = <<>>
  BY DEF Place
<1>11. <<>> \in Seq(Nat) /\ Len(<<>>) = 0
  OBVIOUS
<1>12. Meaning(of, path, <<>>) = Outcome(gone \/ lost, Leaf(path, <<>>))
  <2>1. ElementMeant(of, column, parent, v, own, w, <<>>)
    <3>1. 0 <= Len(parent.layers) + Len(own.layers)
      BY <1>2
    <3> QED BY <1>11, <3>1, ElementMeans
  <2>2. Meaning(of, path, <<>>) = TupleMeaning(of, path, parent.layers, v, own.layers, w, <<>>)
    BY <2>1 DEF ElementMeant
  <2>3. 0 - 0 = 0 /\ ~(0 < 0)
    OBVIOUS
  <2> QED BY <1>2, <1>11, <2>2, <2>3 DEF TupleMeaning
<1> HIDE DEF c, chain, gone, lost
<1>13. Scalar(TupleParentOptionAccess(of, column), column)
         = Outcome(gone \/ Absent(c, Len(chain)), Leaf(c.node, c.at))
  BY <1>3, <1>4, <1>6, <1>7, <1>8, <1>9, OptionScalar
<1>14. Scalar(TupleParentOptionAccess(of, column), column) = Meaning(of, path, <<>>)
  BY <1>6, <1>10, <1>12, <1>13 DEF Outcome
<1>15. Meaning(of, path, <<>>).t # "list"
  BY <1>12 DEF Outcome, Null, Leaf
<1>16. Scalar(TupleParentOptionAccess(of, column), column).t # "list"
  BY <1>14, <1>15
<1> QED BY <1>14, <1>16, ScalarReads

(* What an element's index paths mean, and that reading them as they are   *)
(* meant is reading the path.                                              *)
ElementMeanings(of, column, parent, v, own, w) ==
  [is \in Seq(Nat) |-> TupleMeaning(of, column.path, parent.layers, v, own.layers, w, is)]

(* Loops that read what is meant read the path of an element.              *)
LEMMA ElementReads ==
  ASSUME NEW of, NEW column, NEW parent, NEW v, NEW own, NEW w, IsElement(of, column, parent, v, own, w),
         NEW access, NEW bound, bound[<<>>] = Ref(access),
         Depth(column.shape) = Len(parent.layers) + Len(own.layers),
         IsReading(bound, ElementMeanings(of, column, parent, v, own, w), column)
  PROVE  Reads(ReadLists(access, column), of, column.path)
<1> DEFINE D == Depth(column.shape)
           path == column.path
<1>1. PICK meant : meant = ElementMeanings(of, column, parent, v, own, w)
  OBVIOUS
<1>2. D \in Nat
  <2>1. ElementFacts(of, column, parent, v, own, w)
    BY ElementHas
  <2>2. Len(parent.layers) \in Nat /\ Len(own.layers) \in Nat
    BY <2>1 DEF ElementFacts, ShapeFacts
  <2>3. PICK a, b : a = Len(parent.layers) /\ b = Len(own.layers)
    OBVIOUS
  <2>4. PICK d : d = D
    OBVIOUS
  <2>5. d = a + b
    BY <2>3, <2>4
  <2>6. a \in Nat /\ b \in Nat
    BY <2>2, <2>3
  <2>7. d \in Nat
    BY <2>5, <2>6
  <2> QED BY <2>4, <2>7
<1>3. ASSUME NEW is \in Seq(Nat), Len(is) <= D PROVE Meaning(of, path, is) = meant[is]
  <2>1. ElementMeant(of, column, parent, v, own, w, is)
    BY <1>3, ElementMeans
  <2> QED BY <1>1, <2>1 DEF ElementMeant, ElementMeanings
<1> HIDE DEF path
<1>4. IsReading(bound, meant, column)
  BY <1>1
<1>5. /\ ReadsAs(ReadLists(access, column), meant)
      /\ \A is \in DOMAIN ReadLists(access, column) : Len(is) <= D
  BY <1>2, <1>4, ListsRead
<1>6. \A is \in DOMAIN ReadLists(access, column) : Meaning(of, path, is) = meant[is]
  <2>1. DOMAIN ReadLists(access, column) \subseteq Seq(Nat)
    BY <1>5 DEF ReadsAs
  <2> QED BY <1>3, <1>5, <2>1
<1>7. Reads(ReadLists(access, column), of, path)
  BY <1>5, <1>6, ReadsMeaning
<1> QED BY <1>7 DEF path

(* The loops over an element of an optional tuple read its path.           *)
LEMMA OptionalLists ==
  ASSUME NEW of, NEW column, NEW parent, NEW v, NEW own, NEW w, IsElement(of, column, parent, v, own, w),
         ~IsVec(parent), HasInnerOption(parent), IsVec(own)
  PROVE  /\ Reads(ReadLists(TupleParentOptionAccess(of, column), column), of, column.path)
         /\ ~IsPlainBoolList(column) /\ IsVec(column.shape)
<1> DEFINE path == column.path
           layers == own.layers
           inner == own.inner_access
           D == Depth(column.shape)
           access == TupleParentOptionAccess(of, column)
           bound == [is \in Seq(Nat) |-> IF is = <<>> THEN Ref(access)
                                         ELSE Refs(Place(of, path, w[Len(is)], is), 1)]
           meant == ElementMeanings(of, column, parent, v, own, w)
           gone == StretchGone(of, <<>>, parent.layers, v, 0, <<>>)
<1>1. ElementFacts(of, column, parent, v, own, w)
  BY ElementHas
<1>2. Len(parent.layers) = 0
  BY DEF IsVec
<1>3. /\ IsCut(layers, inner, of.ty[path].spine, w, Len(of.ty[path].spine)) /\ Len(layers) \in Nat
      /\ HasInnerOption(own) <=> HasOption(inner)
      /\ IsRow(of) /\ of.ty[path].spine \in Seq(RawWrappers) /\ of.ty[path].base \in LeafBases
  BY <1>1 DEF ElementFacts, ShapeFacts
<1>4. column.kind = "TupleParentOption" /\ column.shape = ComposeOption(own)
  BY <1>1 DEF ElementFacts, ParentKind, Compose
<1>5. /\ D = Len(layers) /\ column.shape.inner_access = inner
      /\ HasInnerOption(column.shape) <=> HasOption(inner)
      /\ column.shape.layers[1].access = PrependOption(layers[1].access)
      /\ \A k \in 2 .. Len(layers) : column.shape.layers[k].access = layers[k].access
      /\ AnyOuterValidity(column.shape) /\ IsVec(column.shape)
  <2>1. OptionComposed(ComposeOption(own), own)
    BY <1>1, OptionComposes DEF ElementFacts
  <2> QED BY <1>3, <1>4, <2>1 DEF OptionComposed, Depth
<1>6. (\A k : ~ProjectsAfter(column, k)) /\ ~ProjectsLeaf(column)
  BY <1>4 DEF ProjectsAfter, ProjectsLeaf
<1>7. D > 0 /\ D \in Nat
  BY <1>3, <1>5 DEF IsVec
<1>8. access = Opt(gone, Refs(Place(of, path, w[0], <<>>), 1))
  <2>1. ~IsCopyProjection(column)
    BY <1>5 DEF IsCopyProjection
  <2>2. OptionalAccess(of, column, parent, v, w)
    BY OptionalReached
  <2> QED BY <2>1, <2>2 DEF OptionalAccess
<1>9. gone \in BOOLEAN
  BY DEF StretchGone, Absent
<1>10. ASSUME NEW is \in Seq(Nat), is # <<>> PROVE bound[is] = Refs(Place(of, path, w[Len(is)], is), 1)
  BY <1>10
<1>11. bound[<<>>] = Ref(access)
  <2>1. <<>> \in Seq(Nat)
    OBVIOUS
  <2> QED BY <2>1
<1>12. ASSUME NEW is \in Seq(Nat), NEW k \in Nat, Len(is) + 1 = k, NEW i \in Nat
       PROVE  LayerBind(Refs(Place(of, path, w[k], Append(is, i)), 1), Len(is) + 1, column) = bound[Append(is, i)]
  <2>1. Append(is, i) \in Seq(Nat) /\ Len(Append(is, i)) = k /\ Append(is, i) # <<>>
    BY <1>12
  <2>2. bound[Append(is, i)] = Refs(Place(of, path, w[k], Append(is, i)), 1)
    BY <1>10, <2>1
  <2> HIDE DEF bound
  <2> QED BY <1>6, <2>2 DEF LayerBind
<1>13. ASSUME NEW is \in Seq(Nat), 0 < Len(is)
       PROVE  meant[is] = Outcome(StretchGone(of, path, layers, w, Len(is), is),
                                  IF Len(is) < Len(layers) THEN ListOf(Count(StretchEnd(of, path, layers, w, Len(is), is)))
                                  ELSE Leaf(path, is))
  <2>1. PICK n : n = Len(is)
    OBVIOUS
  <2>2. n \in Nat /\ n - 0 = n /\ ~(n < 0) /\ ~(n = 0)
    BY <1>13, <2>1
  <2>3. meant[is] = TupleMeaning(of, path, parent.layers, v, layers, w, is)
    BY DEF ElementMeanings
  <2> HIDE DEF meant, path, layers
  <2>4. TupleMeaning(of, path, parent.layers, v, layers, w, is)
          = Outcome(StretchGone(of, path, layers, w, n, is),
                    IF n < Len(layers) THEN ListOf(Count(StretchEnd(of, path, layers, w, n, is))) ELSE Leaf(path, is))
    BY <1>2, <2>1, <2>2 DEF TupleMeaning, Outcome
  <2> QED BY <2>1, <2>3, <2>4
<1>14. meant[<<>>] = Outcome(gone \/ StretchGone(of, path, layers, w, 0, <<>>),
                             ListOf(Count(StretchEnd(of, path, layers, w, 0, <<>>))))
  <2>1. <<>> \in Seq(Nat) /\ Len(<<>>) = 0 /\ 0 - 0 = 0 /\ ~(0 < 0)
    OBVIOUS
  <2>2. meant[<<>>] = TupleMeaning(of, path, parent.layers, v, layers, w, <<>>)
    BY <2>1 DEF ElementMeanings
  <2>3. 0 < Len(layers)
    BY <1>5, <1>7
  <2> HIDE DEF meant, path, layers
  <2> QED BY <1>2, <2>1, <2>2, <2>3 DEF TupleMeaning
<1>15. ASSUME NEW is \in Seq(Nat), Len(is) < D PROVE LoopReads(bound, meant, column, is)
  <2>1. CASE is = <<>>
    <3> DEFINE c == Place(of, path, w[0], is)
    <3>1. Len(is) = 0 /\ 0 + 1 = 1 /\ 0 < Len(layers) /\ 1 \in Nat /\ 2 \in Nat /\ 1 + 1 = 2
      BY <1>5, <1>7, <2>1
    <3>2. PICK base : base = Ref(access)
      OBVIOUS
    <3>3. base = Ref(Opt(gone, Refs(c, 1)))
      BY <1>8, <2>1, <3>2
    <3>4. bound[is] = base
      BY <1>11, <2>1, <3>2
    <3>5. meant[is] = Outcome(gone \/ StretchGone(of, path, layers, w, 0, is),
                              ListOf(Count(StretchEnd(of, path, layers, w, 0, is))))
      BY <1>14, <2>1
    <3>6. column.shape.layers[Len(is) + 1].access = PrependOption(layers[1].access)
      BY <1>5, <3>1
    <3>7. \A i \in Nat : LayerBind(Refs(Place(of, path, w[1], Append(is, i)), 1), Len(is) + 1, column)
                            = bound[Append(is, i)]
      BY <1>12, <3>1
    <3> HIDE DEF bound, meant, layers, inner, path, gone, access, c
    <3>8. AsRef(base) = Opt(gone, Refs(c, 2)) /\ Found(base, gone, Refs(c, 2))
      BY <1>9, <3>1, <3>3, FoundOpt
    <3>9. OptStretchCase(of, path, is, layers, w, gone, base, 2, 2, column, bound, meant)
      BY <1>9, <3>1, <3>4, <3>5, <3>6, <3>7, <3>8 DEF OptStretchCase, c
    <3> QED BY <1>3, <3>1, <3>9, OptStretchReads
  <2>2. CASE is # <<>>
    <3> DEFINE k == Len(is)
    <3>1. k \in 0 .. Len(layers) /\ k < Len(layers) /\ 0 < k /\ k \in Nat /\ k + 1 \in 2 .. Len(layers) /\ k + 1 \in Nat
      BY <1>3, <1>5, <1>15, <2>2
    <3>2. bound[is] = Refs(Place(of, path, w[k], is), 1)
      BY <1>10, <2>2
    <3>3. meant[is] = Outcome(StretchGone(of, path, layers, w, k, is), ListOf(Count(StretchEnd(of, path, layers, w, k, is))))
      BY <1>13, <3>1
    <3>4. \A i \in Nat : LayerBind(Refs(Place(of, path, w[k + 1], Append(is, i)), 1), Len(is) + 1, column) = bound[Append(is, i)]
      BY <1>12, <3>1
    <3>5. column.shape.layers[Len(is) + 1].access = layers[k + 1].access
      BY <1>5, <3>1
    <3> HIDE DEF bound, meant, layers, inner, path
    <3>6. StretchCase(of, path, is, layers, w, k, column, bound, meant)
      BY <3>2, <3>3, <3>4, <3>5 DEF StretchCase
    <3> HIDE DEF k
    <3> QED BY <1>3, <3>1, <3>6, StretchReads
  <2> QED BY <2>1, <2>2
<1>16. ASSUME NEW is \in Seq(Nat), Len(is) = D
       PROVE  LeafInList(bound[is], column) = meant[is] /\ meant[is].t # "list"
  <2>1. Len(is) = Len(layers) /\ is # <<>> /\ 0 < Len(is) /\ ~(Len(is) < Len(layers))
    BY <1>5, <1>7, <1>16
  <2>2. bound[is] = Refs(Place(of, path, w[Len(layers)], is), 1)
    BY <1>10, <2>1
  <2>3. meant[is] = Outcome(StretchGone(of, path, layers, w, Len(layers), is), Leaf(path, is))
    BY <1>13, <2>1
  <2> HIDE DEF bound, meant, layers, inner, path
  <2>4. meant[is].t # "list"
    BY <2>3 DEF Outcome, Null, Leaf
  <2>5. LeafAtEnd(of, path, layers, w, is, column)
    BY <1>3, <1>5, <1>6, StretchLeaf
  <2> QED BY <2>2, <2>3, <2>4, <2>5 DEF LeafAtEnd
<1> HIDE DEF bound, meant, access
<1>17. IsReading(bound, meant, column)
  BY <1>15, <1>16 DEF IsReading
<1>18. D = Len(parent.layers) + Len(own.layers)
  BY <1>2, <1>3, <1>5
<1>19. Reads(ReadLists(access, column), of, path)
  BY <1>11, <1>17, <1>18, ElementReads DEF meant
<1>20. ~IsPlainBoolList(column)
  BY <1>5 DEF IsPlainBoolList
<1> QED BY <1>5, <1>19, <1>20 DEF access

-----------------------------------------------------------------------------
(* Elements of a tuple in lists.                                           *)

(* Adding to the first layer leaves the others.                            *)
LEMMA AddedFirst ==
  ASSUME NEW layers \in Seq(Layers), layers # <<>>, NEW n \in Nat, NEW chain \in Seq(AccessSteps)
  PROVE  /\ AddToFirst(layers, n, chain) \in Seq(Layers)
         /\ Len(AddToFirst(layers, n, chain)) = Len(layers)
         /\ AddToFirst(layers, n, chain)[1].access = chain
         /\ \A k \in 2 .. Len(layers) : AddToFirst(layers, n, chain)[k] = layers[k]
<1> DEFINE first == [option_layers_above |-> layers[1].option_layers_above + n, access |-> chain]
           added == AddToFirst(layers, n, chain)
<1>1. 1 \in DOMAIN layers /\ layers[1] \in Layers
  OBVIOUS
<1>2. first \in Layers /\ first.access = chain
  BY <1>1 DEF Layers, Chains
<1> HIDE DEF first
<1>3. added = [layers EXCEPT ![1] = first]
  BY DEF AddToFirst, first
<1>4. added \in Seq(Layers) /\ Len(added) = Len(layers) /\ added[1] = first
  BY <1>1, <1>2, <1>3
<1>5. ASSUME NEW k \in 2 .. Len(layers) PROVE added[k] = layers[k]
  BY <1>1, <1>2, <1>3
<1> QED BY <1>2, <1>4, <1>5

(* The lists of the tuple come first, then those of the element; what is   *)
(* between the two is nullable if the tuple is, and without a list of the  *)
(* element the chains are joined.                                          *)
ListsComposed(shape, parent, own) ==
  LET a == Len(parent.layers)
      b == Len(own.layers)
      last == parent.inner_access
  IN /\ Depth(shape) = a + b /\ Depth(shape) \in Nat
     /\ \A k \in 1 .. a : shape.layers[k].access = parent.layers[k].access
     /\ b = 0 => /\ shape.inner_access = last \o own.inner_access
                 /\ HasInnerOption(shape) <=> HasOption(last) \/ HasOption(own.inner_access)
     /\ b > 0 => /\ shape.inner_access = own.inner_access
                 /\ HasInnerOption(shape) <=> HasOption(own.inner_access)
                 /\ shape.layers[a + 1].access
                      = IF HasOption(last) THEN PrependOption(own.layers[1].access) ELSE own.layers[1].access
                 /\ \A k \in 2 .. b : shape.layers[a + k].access = own.layers[k].access

(* Composing appends the layers of the element to those of the tuple.      *)
LEMMA ListsCompose ==
  ASSUME NEW own, NEW parent, NEW s, NEW v, NEW t, NEW w, ShapeFacts(parent, s, v), ShapeFacts(own, t, w)
  PROVE  ListsComposed(ComposeVec(parent, own), parent, own)
<1> DEFINE a == Len(parent.layers)
           b == Len(own.layers)
           last == parent.inner_access
           n == parent.inner_option_layers
<1>1. /\ parent.layers \in Seq(Layers) /\ a \in Nat /\ n \in Nat /\ last \in Seq(AccessSteps)
      /\ n > 0 <=> HasOption(last)
      /\ n = OptionLayers(last)
  BY DEF ShapeFacts
<1>2. /\ own.layers \in Seq(Layers) /\ b \in Nat /\ own.inner_option_layers \in Nat
      /\ own.inner_access \in Seq(AccessSteps)
      /\ own.inner_option_layers > 0 <=> HasOption(own.inner_access)
      /\ own = [layers |-> own.layers, inner_option_layers |-> own.inner_option_layers,
                inner_access |-> own.inner_access]
  BY DEF ShapeFacts
<1>3. PICK shape : shape = ComposeVec(parent, own)
  OBVIOUS
<1>4. CASE ~IsVec(own)
  <2>1. b = 0
    BY <1>4 DEF IsVec
  <2>2. shape = [layers              |-> parent.layers,
                 inner_option_layers |-> n + own.inner_option_layers,
                 inner_access        |-> last \o own.inner_access]
    BY <1>3, <1>4 DEF ComposeVec
  <2>3. PICK m : m = own.inner_option_layers
    OBVIOUS
  <2>4. m \in Nat /\ n + m > 0 <=> n > 0 \/ m > 0
    BY <1>1, <1>2, <2>3
  <2>5. /\ shape.layers = parent.layers /\ shape.inner_option_layers = n + m
        /\ shape.inner_access = last \o own.inner_access
    BY <2>2, <2>3
  <2>6. HasInnerOption(shape) <=> HasOption(last) \/ HasOption(own.inner_access)
    BY <1>1, <1>2, <2>3, <2>4, <2>5 DEF HasInnerOption
  <2>7. Depth(shape) = a + b /\ Depth(shape) \in Nat
    BY <1>1, <2>1, <2>5 DEF Depth
  <2>8. ~(b > 0)
    BY <2>1
  <2> QED BY <1>3, <2>1, <2>5, <2>6, <2>7, <2>8 DEF ListsComposed
<1>5. CASE IsVec(own)
  <2>1. own.layers # <<>> /\ 1 \in 1 .. b /\ b > 0 /\ b # 0 /\ own.layers[1] \in Layers
    BY <1>2, <1>5 DEF IsVec
  <2>2. own.layers[1].access \in Seq(AccessSteps)
    BY <2>1 DEF Layers, Chains
  <2>3. PICK first : first = PrependParentOption(last, own.layers[1].access)
    OBVIOUS
  <2>4. first = IF HasOption(last) THEN PrependOption(own.layers[1].access) ELSE own.layers[1].access
    BY <1>1, <2>3 DEF PrependParentOption
  <2>5. first \in Seq(AccessSteps)
    BY <2>2, <2>4, PrependedOption DEF Chains
  <2>6. PICK layers : layers = AddToFirst(own.layers, n, first)
    OBVIOUS
  <2>7. /\ layers \in Seq(Layers) /\ Len(layers) = b /\ layers[1].access = first
        /\ \A k \in 2 .. b : layers[k] = own.layers[k]
    <3>1. PICK old, m : old = own.layers /\ m = n
      OBVIOUS
    <3>2. old \in Seq(Layers) /\ old # <<>> /\ m \in Nat
      BY <1>1, <1>2, <2>1, <3>1
    <3> HIDE DEF a, b, last, n
    <3>3. /\ AddToFirst(old, m, first) \in Seq(Layers) /\ Len(AddToFirst(old, m, first)) = Len(old)
          /\ AddToFirst(old, m, first)[1].access = first
          /\ \A k \in 2 .. Len(old) : AddToFirst(old, m, first)[k] = old[k]
      BY <2>5, <3>2, AddedFirst
    <3>4. AddToFirst(old, m, first) = layers
      BY <2>6, <3>1
    <3> QED BY <3>1, <3>3, <3>4 DEF b
  <2>8. shape = [own EXCEPT !.layers = parent.layers \o layers]
    BY <1>3, <1>5, <2>3, <2>6 DEF ComposeVec
  <2>9. /\ shape.layers = parent.layers \o layers /\ shape.inner_access = own.inner_access
        /\ shape.inner_option_layers = own.inner_option_layers
    <3>1. PICK x, y, z : own = [layers |-> x, inner_option_layers |-> y, inner_access |-> z]
      BY <1>2
    <3> QED BY <2>8, <3>1
  <2> HIDE DEF last, n, a, b
  <2>10. /\ Len(shape.layers) = a + b
         /\ \A i \in 1 .. a + b : shape.layers[i] = IF i <= a THEN parent.layers[i] ELSE layers[i - a]
    <3>1. PICK x, y : x = parent.layers /\ y = layers
      OBVIOUS
    <3>2. x \in Seq(Layers) /\ y \in Seq(Layers)
      BY <1>1, <2>7, <3>1
    <3>3. /\ Len(x \o y) = Len(x) + Len(y)
          /\ \A i \in 1 .. Len(x) + Len(y) : (x \o y)[i] = IF i <= Len(x) THEN x[i] ELSE y[i - Len(x)]
      BY <3>2, Concatenation
    <3>4. Len(x) = a /\ Len(y) = b /\ shape.layers = x \o y
      BY <2>7, <2>9, <3>1 DEF a
    <3> QED BY <3>1, <3>3, <3>4
  <2>11. \A k \in 1 .. a : shape.layers[k].access = parent.layers[k].access
    <3>1. \A k \in 1 .. a : k \in 1 .. a + b /\ k <= a
      BY <1>1, <1>2
    <3> QED BY <2>10, <3>1
  <2>12. ASSUME NEW k \in 1 .. b PROVE shape.layers[a + k] = layers[k]
    <3>1. a + k \in 1 .. a + b /\ ~(a + k <= a) /\ (a + k) - a = k
      BY <1>1, <1>2
    <3> QED BY <2>10, <3>1
  <2>13. shape.layers[a + 1].access = first
    BY <2>1, <2>7, <2>12
  <2>14. ASSUME NEW k \in 2 .. b PROVE shape.layers[a + k].access = own.layers[k].access
    <3>1. k \in 1 .. b
      BY <1>2
    <3> QED BY <2>7, <2>12, <3>1
  <2>15. HasInnerOption(shape) <=> HasOption(own.inner_access)
    BY <1>2, <2>9 DEF HasInnerOption
  <2>16. Depth(shape) = a + b /\ Depth(shape) \in Nat
    BY <1>1, <1>2, <2>10 DEF Depth
  <2>17. /\ \A k \in 2 .. b : shape.layers[a + k].access = own.layers[k].access
         /\ shape.layers[a + 1].access
              = IF HasOption(last) THEN PrependOption(own.layers[1].access) ELSE own.layers[1].access
    BY <2>4, <2>13, <2>14
  <2>18. ListsComposed(shape, parent, own)
    BY <2>1, <2>9, <2>11, <2>15, <2>16, <2>17 DEF ListsComposed, last, a, b
  <2> QED BY <1>3, <2>18
<1> QED BY <1>4, <1>5

(* The tuple of the last item of its lists, and the element in it.         *)
ProjectedItem(of, column, parent, v, w, is) ==
  LET a    == Len(parent.layers)
      last == parent.inner_access
      p    == Place(of, <<>>, v[a], is)
      c    == Place(of, column.path, w[0], is)
      gone == StretchGone(of, <<>>, parent.layers, v, a, is)
  IN /\ IsPlace(p) /\ Segment(p, last) /\ (gone <=> Absent(p, Len(last)))
     /\ ProjectElement(Refs(Inside(p, Len(last)), 1), column) = Refs(c, 1)
     /\ ~HasOption(last) => ~gone
     /\ ProjectedLayerBind(Refs(p, 1), column)
          = IF HasOption(last) THEN Opt(gone, Refs(c, 1)) ELSE Refs(c, 1)

(* From an item of the innermost list of the tuple, the element.           *)
LEMMA ItemProjected ==
  ASSUME NEW of, NEW column, NEW parent, NEW v, NEW own, NEW w, IsElement(of, column, parent, v, own, w),
         IsVec(parent), NEW is
  PROVE  ProjectedItem(of, column, parent, v, w, is)
<1> DEFINE a == Len(parent.layers)
           last == parent.inner_access
           p == Place(of, <<>>, v[a], is)
           q == StretchEnd(of, <<>>, parent.layers, v, a, is)
           c == Place(of, column.path, w[0], is)
           gone == StretchGone(of, <<>>, parent.layers, v, a, is)
<1>1. ElementFacts(of, column, parent, v, own, w)
  BY ElementHas
<1>2. a \in Nat
  BY <1>1 DEF ElementFacts, ShapeFacts
<1>3. ReachesElement(of, column, parent, v, w, is)
  BY ElementReached
<1>4. ProjectElement(Refs(q, 1), column) = Refs(c, 1)
  BY <1>3 DEF ReachesElement
<1>5. IsStretchPlace(of, <<>>, parent.layers, last, v, a, is)
  <2>1. a \in 0 .. Len(parent.layers)
    BY <1>2
  <2>2. of.ty[<<>>].spine \in Seq(RawWrappers)
        /\ IsCut(parent.layers, parent.inner_access, of.ty[<<>>].spine, v, Len(of.ty[<<>>].spine))
    BY <1>1 DEF ElementFacts, ShapeFacts
  <2> HIDE DEF a
  <2> QED BY <2>1, <2>2, StretchPlace
<1>6. IsPlace(p) /\ Segment(p, last) /\ (gone <=> Absent(p, Len(last))) /\ q = Inside(p, Len(last))
  <2>1. ChainAt(parent.layers, last, a) = last
    BY <1>2 DEF ChainAt
  <2> QED BY <1>5, <2>1 DEF IsStretchPlace
<1>7. column.parent_access = last
  BY <1>1 DEF ElementFacts
<1>8. FirstIsOption(p, Len(last), 1) /\ 1 \in Nat
  BY DEF FirstIsOption
<1>9. gone \in BOOLEAN
  BY DEF StretchGone, Absent
<1>10. Some(Refs(c, 1)) = Opt(FALSE, Refs(c, 1))
  BY <1>8, RefsAre
<1> HIDE DEF p, last, q, c, gone, a
<1>11. /\ HasOption(last) => AccessChainToOptionRef(Refs(p, 1), last)
                               = Opt(Absent(p, Len(last)), Refs(Inside(p, Len(last)), 1))
       /\ ~HasOption(last) => ~Absent(p, Len(last))
       /\ ~HasOption(last) => AccessChainToRef(Refs(p, 1), last).expr
                                = IF last = <<>> THEN Refs(p, 1) ELSE Refs(Inside(p, Len(last)), 1)
  <2>1. IsSinglePlainOption(last) => HasOption(last)
    BY DEF IsSinglePlainOption, HasOption
  <2> QED BY <1>6, <1>8, <2>1, PlaceAccess
<1>12. CASE HasOption(last)
  <2>1. AccessChainToOptionRef(Refs(p, 1), last) = Opt(gone, Refs(q, 1))
    BY <1>6, <1>11, <1>12 DEF Opt
  <2>2. /\ IsSome(Opt(gone, Refs(q, 1))) <=> ~gone
        /\ IsNone(Opt(gone, Refs(q, 1))) <=> gone
        /\ ~gone => Opened(Opt(gone, Refs(q, 1))).of = Refs(q, 1)
    BY <1>9, OpenedOpt
  <2>3. ProjectedLayerBind(Refs(p, 1), column)
          = Map(Opt(gone, Refs(q, 1)), LAMBDA tuple : ProjectElement(tuple, column))
    BY <1>7, <1>12, <2>1 DEF ProjectedLayerBind
  <2>4. Map(Opt(gone, Refs(q, 1)), LAMBDA tuple : ProjectElement(tuple, column)) = Opt(gone, Refs(c, 1))
    <3>1. CASE gone
      BY <2>2, <3>1 DEF Map, Opt
    <3>2. CASE ~gone
      <4>1. Map(Opt(gone, Refs(q, 1)), LAMBDA tuple : ProjectElement(tuple, column)) = Some(Refs(c, 1))
        BY <1>4, <2>2, <3>2 DEF Map
      <4> QED BY <1>10, <3>2, <4>1 DEF Opt
    <3> QED BY <1>9, <3>1, <3>2
  <2> QED BY <1>4, <1>6, <1>12, <2>3, <2>4 DEF ProjectedItem, p, last, c, gone, a
<1>13. CASE ~HasOption(last)
  <2>1. last = <<>> => q = p
    <3>1. last = <<>> => Len(last) = 0
      OBVIOUS
    <3>2. Inside(p, 0) = p
      <4>1. 0 \in Nat /\ p.depth + 0 <= Len(Node(p).spine)
        BY <1>6 DEF IsPlace
      <4> QED BY <1>6, <4>1, InsidePlace
    <3> QED BY <1>6, <3>1, <3>2
  <2>2. AccessChainToRef(Refs(p, 1), last).expr = Refs(q, 1)
    BY <1>6, <1>11, <1>13, <2>1
  <2>3. ProjectedLayerBind(Refs(p, 1), column) = Refs(c, 1)
    BY <1>4, <1>7, <1>13, <2>2 DEF ProjectedLayerBind
  <2> QED BY <1>4, <1>6, <1>11, <1>13, <2>3 DEF ProjectedItem, p, last, c, gone, a
<1> QED BY <1>12, <1>13

(* What is bound to the items: places of the tuple's wrappers, then of the *)
(* element's, and between the two the Option of the tuple, if it has one.  *)
ElementBound(of, column, parent, v, own, w, is) ==
  LET n == Len(is)
      a == Len(parent.layers)
      c == Place(of, column.path, w[n - a], is)
  IN IF n < a \/ (n = a /\ Len(own.layers) = 0) THEN Refs(Place(of, <<>>, v[n], is), 1)
     ELSE IF n = a /\ HasOption(parent.inner_access)
     THEN Opt(StretchGone(of, <<>>, parent.layers, v, a, is), Refs(c, 1))
     ELSE Refs(c, 1)
ElementsBound(of, column, parent, v, own, w) ==
  [is \in Seq(Nat) |-> ElementBound(of, column, parent, v, own, w, is)]

(* What the columns of a tuple in lists have in common.                    *)
ListedFacts(of, column, parent, v, own, w) ==
  /\ ElementFacts(of, column, parent, v, own, w)
  /\ ListsComposed(column.shape, parent, own)
  /\ Len(parent.layers) \in Nat /\ Len(parent.layers) > 0 /\ Len(own.layers) \in Nat
  /\ column.kind = "TupleParentVec" /\ column.projection_layer = Len(parent.layers)
  /\ Depth(column.shape) = Len(parent.layers) + Len(own.layers)
  /\ \A is : ProjectedItem(of, column, parent, v, w, is)

(* What the projection makes of the item of a tuple in lists.              *)
LEMMA ListedHas ==
  ASSUME NEW of, NEW column, NEW parent, NEW v, NEW own, NEW w, IsElement(of, column, parent, v, own, w),
         IsVec(parent)
  PROVE  ListedFacts(of, column, parent, v, own, w)
<1>1. ElementFacts(of, column, parent, v, own, w)
  BY ElementHas
<1>2. Len(parent.layers) \in Nat /\ Len(own.layers) \in Nat /\ parent.layers \in Seq(Layers)
  BY <1>1 DEF ElementFacts, ShapeFacts
<1>3. parent.layers # <<>>
  BY DEF IsVec
<1>4. Len(parent.layers) > 0
  <2>1. PICK s : s = parent.layers
    OBVIOUS
  <2>2. s \in Seq(Layers) /\ s # <<>>
    BY <1>2, <1>3, <2>1
  <2>3. Len(s) > 0
    BY <2>2
  <2> QED BY <2>1, <2>3
<1>5. column.kind = "TupleParentVec" /\ column.projection_layer = Len(parent.layers)
      /\ column.shape = ComposeVec(parent, own)
  BY <1>1 DEF ElementFacts, ParentKind, Compose, ProjectionLayer, Depth
<1>6. ListsComposed(ComposeVec(parent, own), parent, own)
  <2>1. ShapeFacts(parent, of.ty[<<>>].spine, v) /\ ShapeFacts(own, of.ty[column.path].spine, w)
    BY <1>1 DEF ElementFacts
  <2> QED BY <2>1, ListsCompose
<1>7. \A is : ProjectedItem(of, column, parent, v, w, is)
  BY ItemProjected
<1>8. Depth(column.shape) = Len(parent.layers) + Len(own.layers)
  BY <1>5, <1>6 DEF ListsComposed
<1> QED BY <1>1, <1>2, <1>4, <1>5, <1>6, <1>7, <1>8 DEF ListedFacts

(* Taking an item of a list of the tuple, or of the element.               *)
ItemsBound(of, column, parent, v, own, w, is) ==
  LET n == Len(is)
      a == Len(parent.layers)
  IN /\ n < a => \A i \in Nat :
            LayerBind(Refs(Place(of, <<>>, v[n + 1], Append(is, i)), 1), n + 1, column)
              = ElementsBound(of, column, parent, v, own, w)[Append(is, i)]
     /\ a <= n => \A i \in Nat :
            LayerBind(Refs(Place(of, column.path, w[(n - a) + 1], Append(is, i)), 1), n + 1, column)
              = ElementsBound(of, column, parent, v, own, w)[Append(is, i)]

(* The items of a list are bound as they are expected to be.               *)
LEMMA ItemsAreBound ==
  ASSUME NEW of, NEW column, NEW parent, NEW v, NEW own, NEW w, ListedFacts(of, column, parent, v, own, w),
         NEW is \in Seq(Nat), Len(is) < Depth(column.shape)
  PROVE  ItemsBound(of, column, parent, v, own, w, is)
<1> DEFINE a == Len(parent.layers)
           b == Len(own.layers)
           bound == ElementsBound(of, column, parent, v, own, w)
<1>1. /\ a \in Nat /\ b \in Nat /\ column.kind = "TupleParentVec" /\ column.projection_layer = a
      /\ Depth(column.shape) = a + b
      /\ \A j : ProjectedItem(of, column, parent, v, w, j)
  BY DEF ListedFacts
<1>2. PICK n, D : n = Len(is) /\ D = Depth(column.shape)
  OBVIOUS
<1>20. n \in Nat
  BY <1>2
<1>21. n < D /\ D = a + b
  BY <1>1, <1>2
<1> HIDE DEF a, b
<1>3. n \in Nat /\ n < a + b
  BY <1>20, <1>21
<1>4. ASSUME NEW i \in Nat
      PROVE  /\ Append(is, i) \in Seq(Nat) /\ Len(Append(is, i)) = n + 1
             /\ bound[Append(is, i)] = ElementBound(of, column, parent, v, own, w, Append(is, i))
  BY <1>2 DEF ElementsBound
<1>5. ASSUME NEW x, n + 1 # a \/ b = 0 PROVE LayerBind(x, n + 1, column) = x
  <2>1. ~(a = n + 1 /\ n + 1 < a + b)
    BY <1>1, <1>3, <1>5
  <2>2. ~ProjectsAfter(column, n + 1)
    BY <1>1, <2>1 DEF ProjectsAfter
  <2> QED BY <2>2 DEF LayerBind
<1>6. ASSUME NEW x, n + 1 = a, b # 0 PROVE LayerBind(x, n + 1, column) = ProjectedLayerBind(x, column)
  <2>1. a < Depth(column.shape)
    <3>1. a < a + b
      BY <1>1, <1>6
    <3> QED BY <1>1, <3>1
  <2>2. ProjectsAfter(column, n + 1)
    BY <1>1, <1>6, <2>1 DEF ProjectsAfter
  <2> QED BY <2>2 DEF LayerBind
<1> HIDE DEF bound
<1>7. ASSUME n < a, NEW i \in Nat
      PROVE  LayerBind(Refs(Place(of, <<>>, v[n + 1], Append(is, i)), 1), n + 1, column) = bound[Append(is, i)]
  <2>1. PICK j : j = Append(is, i)
    OBVIOUS
  <2>2. Len(j) = n + 1 /\ bound[j] = ElementBound(of, column, parent, v, own, w, j)
    BY <1>4, <2>1
  <2>3. n + 1 < a \/ n + 1 = a
    BY <1>1, <1>3, <1>7
  <2>4. CASE n + 1 < a \/ (n + 1 = a /\ b = 0)
    <3>1. n + 1 # a \/ b = 0
      BY <1>1, <1>3, <2>4
    <3>2. bound[j] = Refs(Place(of, <<>>, v[n + 1], j), 1)
      BY <2>2, <2>4 DEF ElementBound, a, b
    <3> QED BY <1>5, <2>1, <3>1, <3>2
  <2>5. CASE n + 1 = a /\ b # 0
    <3>1. a - a = 0 /\ ~(a < a)
      BY <1>1
    <3>2. bound[j] = IF HasOption(parent.inner_access)
                     THEN Opt(StretchGone(of, <<>>, parent.layers, v, a, j), Refs(Place(of, column.path, w[0], j), 1))
                     ELSE Refs(Place(of, column.path, w[0], j), 1)
      BY <2>2, <2>5, <3>1 DEF ElementBound, a, b
    <3>3. ProjectedItem(of, column, parent, v, w, j)
      BY <1>1
    <3>4. ProjectedLayerBind(Refs(Place(of, <<>>, v[a], j), 1), column) = bound[j]
      BY <3>2, <3>3 DEF ProjectedItem, a
    <3> QED BY <1>6, <2>1, <2>5, <3>4
  <2> QED BY <2>3, <2>4, <2>5
<1>8. ASSUME a <= n, NEW i \in Nat
      PROVE  LayerBind(Refs(Place(of, column.path, w[(n - a) + 1], Append(is, i)), 1), n + 1, column)
               = bound[Append(is, i)]
  <2>1. PICK j : j = Append(is, i)
    OBVIOUS
  <2>2. Len(j) = n + 1 /\ bound[j] = ElementBound(of, column, parent, v, own, w, j)
    BY <1>4, <2>1
  <2>3. n + 1 # a /\ ~(n + 1 < a) /\ (n + 1) - a = (n - a) + 1
    BY <1>1, <1>3, <1>8
  <2>4. bound[j] = Refs(Place(of, column.path, w[(n - a) + 1], j), 1)
    BY <2>2, <2>3 DEF ElementBound, a
  <2> QED BY <1>5, <2>1, <2>3, <2>4
<1>9. \A i \in Nat : n < a =>
        LayerBind(Refs(Place(of, <<>>, v[n + 1], Append(is, i)), 1), n + 1, column) = bound[Append(is, i)]
  BY <1>7
<1>10. \A i \in Nat : a <= n =>
        LayerBind(Refs(Place(of, column.path, w[(n - a) + 1], Append(is, i)), 1), n + 1, column)
          = bound[Append(is, i)]
  BY <1>8
<1> QED BY <1>2, <1>9, <1>10 DEF ItemsBound, a, bound

(* A list of the tuple.                                                    *)
LEMMA TupleListRead ==
  ASSUME NEW of, NEW column, NEW parent, NEW v, NEW own, NEW w, ListedFacts(of, column, parent, v, own, w),
         NEW is \in Seq(Nat), Len(is) < Len(parent.layers)
  PROVE  LoopReads(ElementsBound(of, column, parent, v, own, w),
                   ElementMeanings(of, column, parent, v, own, w), column, is)
<1> DEFINE layers == parent.layers
           a == Len(layers)
           bound == ElementsBound(of, column, parent, v, own, w)
           meant == ElementMeanings(of, column, parent, v, own, w)
<1>1. PICK n : n = Len(is)
  OBVIOUS
<1>2. n \in Nat /\ n < a /\ a \in Nat /\ n \in 0 .. a /\ n + 1 \in 1 .. a
  BY <1>1 DEF ListedFacts
<1>3. Len(is) < Depth(column.shape)
  <2>1. PICK b, D : b = Len(own.layers) /\ D = Depth(column.shape)
    OBVIOUS
  <2>2. b \in Nat /\ D = a + b
    BY <2>1 DEF ListedFacts
  <2> HIDE DEF a
  <2>3. n < D
    BY <1>2, <2>2
  <2> QED BY <1>1, <2>1, <2>3
<1>4. ItemsBound(of, column, parent, v, own, w, is)
  BY <1>3, ItemsAreBound
<1>5. \A i \in Nat : LayerBind(Refs(Place(of, <<>>, v[n + 1], Append(is, i)), 1), Len(is) + 1, column) = bound[Append(is, i)]
  BY <1>1, <1>2, <1>4 DEF ItemsBound
<1>6. bound[is] = Refs(Place(of, <<>>, v[n], is), 1)
  BY <1>1, <1>2 DEF ElementsBound, ElementBound
<1>7. meant[is] = Outcome(StretchGone(of, <<>>, layers, v, n, is), ListOf(Count(StretchEnd(of, <<>>, layers, v, n, is))))
  BY <1>1, <1>2 DEF ElementMeanings, TupleMeaning
<1>8. column.shape.layers[Len(is) + 1].access = layers[n + 1].access
  <2>1. \A k \in 1 .. a : column.shape.layers[k].access = layers[k].access
    BY DEF ListedFacts, ListsComposed
  <2> QED BY <1>1, <1>2, <2>1
<1>9. /\ IsRow(of) /\ of.ty[<<>>].spine \in Seq(RawWrappers)
      /\ IsCut(layers, parent.inner_access, of.ty[<<>>].spine, v, Len(of.ty[<<>>].spine))
  BY DEF ListedFacts, ElementFacts, ShapeFacts
<1> HIDE DEF bound, meant, layers
<1>10. StretchCase(of, <<>>, is, layers, v, n, column, bound, meant)
  BY <1>5, <1>6, <1>7, <1>8 DEF StretchCase
<1>11. LoopReads(bound, meant, column, is)
  BY <1>2, <1>9, <1>10, StretchReads
<1> QED BY <1>11 DEF bound, meant

(* A list of the element; the first starts behind the Option of the tuple. *)
LEMMA ElementListRead ==
  ASSUME NEW of, NEW column, NEW parent, NEW v, NEW own, NEW w, ListedFacts(of, column, parent, v, own, w),
         NEW is \in Seq(Nat), Len(parent.layers) <= Len(is), Len(is) < Depth(column.shape)
  PROVE  LoopReads(ElementsBound(of, column, parent, v, own, w),
                   ElementMeanings(of, column, parent, v, own, w), column, is)
<1> DEFINE layers == own.layers
           a == Len(parent.layers)
           b == Len(layers)
           path == column.path
           bound == ElementsBound(of, column, parent, v, own, w)
           meant == ElementMeanings(of, column, parent, v, own, w)
           gone == StretchGone(of, <<>>, parent.layers, v, a, is)
<1>1. PICK n : n = Len(is)
  OBVIOUS
<1>2. PICK k : k = n - a
  OBVIOUS
<1>3. n \in Nat /\ a \in Nat /\ b \in Nat /\ a <= n /\ n < a + b
  <2>1. PICK D : D = Depth(column.shape)
    OBVIOUS
  <2>2. n < D /\ D = a + b
    BY <1>1, <2>1 DEF ListedFacts
  <2>3. a \in Nat /\ b \in Nat
    BY DEF ListedFacts
  <2>4. n \in Nat /\ a <= n
    BY <1>1
  <2> HIDE DEF a, b
  <2>5. n < a + b
    BY <2>2
  <2> QED BY <2>3, <2>4, <2>5
<1>4. /\ k \in 0 .. b /\ k < b /\ ~(n < a) /\ (n = a <=> k = 0) /\ n + 1 = a + (k + 1) /\ k + 1 \in 1 .. b
      /\ k # 0 => k + 1 \in 2 .. b
      /\ b > 0 /\ b # 0 /\ k \in Nat
  <2> HIDE DEF a, b
  <2> QED BY <1>2, <1>3
<1>5. ItemsBound(of, column, parent, v, own, w, is)
  BY ItemsAreBound
<1>6. \A i \in Nat : LayerBind(Refs(Place(of, path, w[k + 1], Append(is, i)), 1), Len(is) + 1, column) = bound[Append(is, i)]
  BY <1>1, <1>2, <1>3, <1>5 DEF ItemsBound
<1>7. bound[is] = IF k = 0 /\ HasOption(parent.inner_access) THEN Opt(gone, Refs(Place(of, path, w[k], is), 1))
                  ELSE Refs(Place(of, path, w[k], is), 1)
  <2>1. bound[is] = ElementBound(of, column, parent, v, own, w, is)
    BY DEF ElementsBound
  <2> HIDE DEF bound
  <2> QED BY <1>1, <1>2, <1>4, <2>1 DEF ElementBound
<1>8. meant[is] = Outcome((k = 0 /\ gone) \/ StretchGone(of, path, layers, w, k, is),
                          ListOf(Count(StretchEnd(of, path, layers, w, k, is))))
  <2>1. meant[is] = TupleMeaning(of, path, parent.layers, v, layers, w, is)
    BY DEF ElementMeanings
  <2> HIDE DEF meant, path
  <2>2. TupleMeaning(of, path, parent.layers, v, layers, w, is)
          = Outcome((n = a /\ StretchGone(of, <<>>, parent.layers, v, n, is)) \/ StretchGone(of, path, layers, w, k, is),
                    ListOf(Count(StretchEnd(of, path, layers, w, k, is))))
    BY <1>1, <1>2, <1>4 DEF TupleMeaning
  <2>3. (n = a /\ StretchGone(of, <<>>, parent.layers, v, n, is)) <=> (k = 0 /\ gone)
    BY <1>4
  <2> QED BY <2>1, <2>2, <2>3 DEF Outcome
<1>9. /\ k = 0 => column.shape.layers[Len(is) + 1].access
                    = IF HasOption(parent.inner_access) THEN PrependOption(layers[1].access) ELSE layers[1].access
      /\ k # 0 => column.shape.layers[Len(is) + 1].access = layers[k + 1].access
  <2>1. /\ column.shape.layers[a + 1].access
             = IF HasOption(parent.inner_access) THEN PrependOption(layers[1].access) ELSE layers[1].access
        /\ \A j \in 2 .. b : column.shape.layers[a + j].access = layers[j].access
    BY <1>4 DEF ListedFacts, ListsComposed
  <2>2. k = 0 => Len(is) + 1 = a + 1
    BY <1>1, <1>4
  <2>3. Len(is) + 1 = a + (k + 1)
    BY <1>1, <1>4
  <2> QED BY <1>4, <2>1, <2>2, <2>3
<1>10. /\ IsRow(of) /\ of.ty[path].spine \in Seq(RawWrappers)
       /\ IsCut(layers, own.inner_access, of.ty[path].spine, w, Len(of.ty[path].spine))
  BY DEF ListedFacts, ElementFacts, ShapeFacts
<1>11. ~HasOption(parent.inner_access) => ~gone
  <2>1. ProjectedItem(of, column, parent, v, w, is)
    BY DEF ListedFacts
  <2> QED BY <2>1 DEF ProjectedItem
<1>12. gone \in BOOLEAN
  BY DEF StretchGone, Absent
<1> HIDE DEF bound, meant, layers, path, gone, a
<1>13. CASE k = 0 /\ HasOption(parent.inner_access)
  <2> DEFINE c == Place(of, path, w[0], is)
  <2>1. PICK base : base = Opt(gone, Refs(c, 1))
    OBVIOUS
  <2>2. 1 \in Nat /\ 2 \in Nat /\ 1 + 1 = 2 /\ 0 + 1 = 1
    OBVIOUS
  <2>3. bound[is] = base
    BY <1>7, <1>13, <2>1
  <2>4. meant[is] = Outcome(gone \/ StretchGone(of, path, layers, w, 0, is),
                            ListOf(Count(StretchEnd(of, path, layers, w, 0, is))))
    BY <1>8, <1>13
  <2>5. column.shape.layers[Len(is) + 1].access = PrependOption(layers[1].access)
    BY <1>9, <1>13
  <2>6. \A i \in Nat : LayerBind(Refs(Place(of, path, w[1], Append(is, i)), 1), Len(is) + 1, column) = bound[Append(is, i)]
    BY <1>6, <1>13, <2>2
  <2> HIDE DEF c
  <2>7. AsRef(base) = Opt(gone, Refs(c, 2)) /\ Found(base, gone, Refs(c, 1))
    BY <1>12, <2>1, <2>2, FoundOpt
  <2>8. OptStretchCase(of, path, is, layers, w, gone, base, 2, 1, column, bound, meant)
    BY <1>12, <2>2, <2>3, <2>4, <2>5, <2>6, <2>7 DEF OptStretchCase, c
  <2>9. 0 < Len(layers)
    BY <1>4
  <2>10. LoopReads(bound, meant, column, is)
    BY <1>10, <2>8, <2>9, OptStretchReads
  <2> QED BY <2>10 DEF bound, meant
<1>14. CASE ~(k = 0 /\ HasOption(parent.inner_access))
  <2>1. bound[is] = Refs(Place(of, path, w[k], is), 1)
    BY <1>7, <1>14
  <2>2. meant[is] = Outcome(StretchGone(of, path, layers, w, k, is), ListOf(Count(StretchEnd(of, path, layers, w, k, is))))
    <3>1. ~(k = 0 /\ gone)
      BY <1>11, <1>14
    <3>2. ((k = 0 /\ gone) \/ StretchGone(of, path, layers, w, k, is)) <=> StretchGone(of, path, layers, w, k, is)
      BY <3>1
    <3> QED BY <1>8, <3>2 DEF Outcome
  <2>3. column.shape.layers[Len(is) + 1].access = layers[k + 1].access
    <3>1. k = 0 => k + 1 = 1
      OBVIOUS
    <3> QED BY <1>9, <1>14, <3>1
  <2>4. StretchCase(of, path, is, layers, w, k, column, bound, meant)
    BY <1>6, <2>1, <2>2, <2>3 DEF StretchCase
  <2>5. k \in 0 .. Len(layers) /\ k < Len(layers)
    BY <1>4
  <2>6. LoopReads(bound, meant, column, is)
    BY <1>10, <2>4, <2>5, StretchReads
  <2> QED BY <2>6 DEF bound, meant
<1> QED BY <1>13, <1>14

(* The leaf behind an item of the last list, the tuple's or the element's. *)
LEMMA ListedLeafRead ==
  ASSUME NEW of, NEW column, NEW parent, NEW v, NEW own, NEW w, ListedFacts(of, column, parent, v, own, w),
         NEW is \in Seq(Nat), Len(is) = Depth(column.shape)
  PROVE  LET meant == ElementMeanings(of, column, parent, v, own, w)
         IN /\ LeafInList(ElementsBound(of, column, parent, v, own, w)[is], column) = meant[is]
            /\ meant[is].t # "list"
<1> DEFINE layers == own.layers
           a == Len(parent.layers)
           b == Len(layers)
           path == column.path
           inner == own.inner_access
           last == parent.inner_access
           bound == ElementsBound(of, column, parent, v, own, w)
           meant == ElementMeanings(of, column, parent, v, own, w)
           gone == StretchGone(of, <<>>, parent.layers, v, a, is)
           lost == StretchGone(of, path, layers, w, b, is)
<1>1. PICK n : n = Len(is)
  OBVIOUS
<1>2. n \in Nat /\ a \in Nat /\ b \in Nat /\ a > 0 /\ n = a + b /\ Depth(column.shape) = a + b
  <2>1. PICK D : D = Depth(column.shape)
    OBVIOUS
  <2>2. n = D /\ D = a + b
    BY <1>1, <2>1 DEF ListedFacts
  <2>3. a \in Nat /\ b \in Nat /\ a > 0
    BY DEF ListedFacts
  <2>4. n \in Nat
    BY <1>1
  <2> QED BY <2>1, <2>2, <2>3, <2>4
<1>3. bound[is] = ElementBound(of, column, parent, v, own, w, is)
      /\ meant[is] = TupleMeaning(of, path, parent.layers, v, layers, w, is)
  BY DEF ElementsBound, ElementMeanings
<1>4. /\ column.kind = "TupleParentVec" /\ column.projection_layer = a /\ column.parent_access = last
      /\ ListsComposed(column.shape, parent, own)
      /\ ProjectedItem(of, column, parent, v, w, is)
  BY DEF ListedFacts, ElementFacts
<1>5. /\ IsRow(of) /\ of.ty[path].spine \in Seq(RawWrappers) /\ of.ty[path].base \in LeafBases
      /\ IsCut(layers, inner, of.ty[path].spine, w, Len(of.ty[path].spine))
      /\ inner \in Seq(AccessSteps) /\ last \in Seq(AccessSteps)
  BY DEF ListedFacts, ElementFacts, ShapeFacts
<1>6. gone \in BOOLEAN /\ lost \in BOOLEAN
  BY DEF StretchGone, Absent
<1>7. CASE b > 0
  <2>1. ~(n < a) /\ n # a /\ n - a = b /\ ~(b < b) /\ a # a + b
    <3> HIDE DEF a, b
    <3> QED BY <1>2, <1>7
  <2>2. bound[is] = Refs(Place(of, path, w[b], is), 1)
    <3> HIDE DEF bound
    <3> QED BY <1>1, <1>3, <2>1 DEF ElementBound
  <2>3. meant[is] = Outcome(lost, Leaf(path, is))
    <3> HIDE DEF meant, path
    <3>1. (n = a /\ StretchGone(of, <<>>, parent.layers, v, n, is)) \/ StretchGone(of, path, layers, w, n - a, is) <=> lost
      BY <2>1
    <3>2. meant[is] = Outcome((n = a /\ StretchGone(of, <<>>, parent.layers, v, n, is)) \/ StretchGone(of, path, layers, w, n - a, is),
                              Leaf(path, is))
      BY <1>1, <1>3, <2>1 DEF TupleMeaning
    <3> QED BY <3>1, <3>2 DEF Outcome
  <2>4. ~ProjectsLeaf(column)
    BY <1>2, <1>4, <2>1 DEF ProjectsLeaf
  <2>5. column.shape.inner_access = inner /\ (HasInnerOption(column.shape) <=> HasOption(inner))
    BY <1>4, <1>7 DEF ListsComposed
  <2> HIDE DEF bound, meant, layers, inner, path
  <2>6. LeafAtEnd(of, path, layers, w, is, column)
    BY <1>5, <2>4, <2>5, StretchLeaf
  <2>7. meant[is].t # "list"
    BY <2>3 DEF Outcome, Null, Leaf
  <2>8. LeafInList(bound[is], column) = meant[is]
    BY <2>2, <2>3, <2>6 DEF LeafAtEnd
  <2> QED BY <2>7, <2>8 DEF bound, meant
<1>8. CASE b = 0
  <2> DEFINE p == Place(of, <<>>, v[a], is)
             c == Place(of, path, w[0], is)
  <2>1. ~(n < a) /\ n = a /\ n - a = 0 /\ ~(0 < b)
    <3> HIDE DEF a, b
    <3> QED BY <1>2, <1>8
  <2>2. bound[is] = Refs(p, 1)
    <3> HIDE DEF bound
    <3> QED BY <1>1, <1>3, <1>8, <2>1 DEF ElementBound
  <2>3. meant[is] = Outcome(gone \/ lost, Leaf(path, is))
    <3> HIDE DEF meant, path
    <3>1. (n = a /\ StretchGone(of, <<>>, parent.layers, v, n, is)) \/ StretchGone(of, path, layers, w, n - a, is) <=> gone \/ lost
      BY <1>8, <2>1
    <3>2. meant[is] = Outcome((n = a /\ StretchGone(of, <<>>, parent.layers, v, n, is)) \/ StretchGone(of, path, layers, w, n - a, is),
                              Leaf(path, is))
      BY <1>1, <1>3, <2>1 DEF TupleMeaning
    <3> QED BY <3>1, <3>2 DEF Outcome
  <2>4. ProjectsLeaf(column)
    BY <1>2, <1>4, <1>8 DEF ProjectsLeaf
  <2>5. /\ column.shape.inner_access = last \o inner
        /\ HasInnerOption(column.shape) <=> HasOption(last) \/ HasOption(inner)
    BY <1>4, <1>8 DEF ListsComposed
  <2>6. LeafProjectionAccess(column) = inner
    <3>1. PICK x, y : x = last /\ y = inner
      OBVIOUS
    <3>2. x \in Seq(AccessSteps) /\ y \in Seq(AccessSteps)
      BY <1>5, <3>1
    <3>3. x \o y \in Seq(AccessSteps) /\ Len(x \o y) = Len(x) + Len(y)
          /\ \A i \in 1 .. Len(x) + Len(y) : (x \o y)[i] = IF i <= Len(x) THEN x[i] ELSE y[i - Len(x)]
      BY <3>2, Concatenation
    <3>4. PICK s : s = x \o y
      OBVIOUS
    <3>5. Len(x) \in 0 .. Len(s) /\ s \in Seq(AccessSteps) /\ Len(s) - Len(x) = Len(y)
      BY <3>2, <3>3, <3>4
    <3>6. PICK u : u = SubSeq(s, Len(x) + 1, Len(s))
      OBVIOUS
    <3>7. u \in Seq(AccessSteps) /\ Len(u) = Len(s) - Len(x) /\ \A i \in 1 .. Len(s) - Len(x) : u[i] = s[Len(x) + i]
      BY <3>5, <3>6, RestOf
    <3>8. \A i \in 1 .. Len(y) : u[i] = y[i]
      <4> SUFFICES ASSUME NEW i \in 1 .. Len(y) PROVE u[i] = y[i]
        OBVIOUS
      <4>1. Len(x) + i \in 1 .. Len(x) + Len(y) /\ ~(Len(x) + i <= Len(x)) /\ (Len(x) + i) - Len(x) = i
        BY <3>2
      <4> QED BY <3>3, <3>4, <3>5, <3>7, <4>1
    <3>9. u = y
      <4>1. Len(u) = Len(y) /\ u \in Seq(AccessSteps)
        BY <3>5, <3>7
      <4> QED BY <3>2, <3>8, <4>1
    <3> QED BY <1>4, <2>5, <3>1, <3>4, <3>6, <3>9 DEF LeafProjectionAccess
  <2>7. /\ IsPlace(p) /\ Segment(p, last) /\ (gone <=> Absent(p, Len(last)))
        /\ ProjectElement(Refs(Inside(p, Len(last)), 1), column) = Refs(c, 1)
    BY <1>4 DEF ProjectedItem
  <2>8. /\ IsPlace(c) /\ Segment(c, inner) /\ (lost <=> Absent(c, Len(inner))) /\ IsLeafAt(Inside(c, Len(inner)))
    <3>1. IsStretchPlace(of, path, layers, inner, w, 0, is)
      <4>1. 0 \in 0 .. Len(layers)
        BY <1>8
      <4> HIDE DEF layers, inner, path
      <4> QED BY <1>5, <4>1, StretchPlace
    <3>2. ~(0 < Len(layers)) /\ ChainAt(layers, inner, 0) = inner
      BY <1>8 DEF ChainAt
    <3>3. lost <=> StretchGone(of, path, layers, w, 0, is)
      BY <1>8
    <3> QED BY <1>5, <3>1, <3>2, <3>3 DEF IsStretchPlace, IsLeafAt
  <2>9. c.node = path /\ c.at = is
    BY DEF Place
  <2>10. meant[is].t # "list"
    BY <2>3 DEF Outcome, Null, Leaf
  <2> HIDE DEF bound, meant, layers, inner, path, p, c, gone, lost, last
  <2>11. LeafInList(Refs(p, 1), column)
           = Outcome(Absent(p, Len(last)) \/ Absent(c, Len(inner)), Leaf(c.node, c.at))
    BY <1>4, <2>4, <2>5, <2>6, <2>7, <2>8, ElementLeafInList
  <2>12. LeafInList(bound[is], column) = meant[is]
    BY <2>2, <2>3, <2>7, <2>8, <2>9, <2>11 DEF Outcome
  <2> QED BY <2>10, <2>12 DEF bound, meant
<1> QED BY <1>2, <1>7, <1>8

(* The loops over an element of a tuple in lists read its path.            *)
LEMMA ListedLists ==
  ASSUME NEW of, NEW column, NEW parent, NEW v, NEW own, NEW w, IsElement(of, column, parent, v, own, w),
         IsVec(parent)
  PROVE  /\ Reads(ReadLists(FieldSourceAccess(of, column), column), of, column.path)
         /\ ~IsPlainBoolList(column) /\ IsVec(column.shape)
<1> DEFINE access == FieldSourceAccess(of, column)
<1>1. ListedFacts(of, column, parent, v, own, w)
  BY ListedHas
<1>2. PICK bound, meant, D, a : /\ bound = ElementsBound(of, column, parent, v, own, w)
                                /\ meant = ElementMeanings(of, column, parent, v, own, w)
                                /\ D = Depth(column.shape) /\ a = Len(parent.layers)
  OBVIOUS
<1>3. ASSUME NEW is \in Seq(Nat), Len(is) < D PROVE LoopReads(bound, meant, column, is)
  <2>1. Len(is) < a \/ a <= Len(is)
    <3>1. a \in Nat /\ Len(is) \in Nat
      BY <1>1, <1>2 DEF ListedFacts
    <3> QED BY <3>1
  <2> QED BY <1>1, <1>2, <1>3, <2>1, TupleListRead, ElementListRead
<1>4. ASSUME NEW is \in Seq(Nat), Len(is) = D
      PROVE  LeafInList(bound[is], column) = meant[is] /\ meant[is].t # "list"
  BY <1>1, <1>2, <1>4, ListedLeafRead
<1>5. IsReading(bound, meant, column)
  BY <1>2, <1>3, <1>4 DEF IsReading
<1>6. bound[<<>>] = Ref(access)
  <2>1. access = Refs(Place(of, <<>>, v[0], <<>>), 0)
    BY <1>1 DEF ListedFacts, ElementFacts
  <2>2. <<>> \in Seq(Nat) /\ Len(<<>>) = 0 /\ 0 \in Nat
    OBVIOUS
  <2>3. 0 < Len(parent.layers)
    BY <1>1 DEF ListedFacts
  <2>4. bound[<<>>] = Refs(Place(of, <<>>, v[0], <<>>), 1)
    BY <1>2, <2>2, <2>3 DEF ElementsBound, ElementBound
  <2> HIDE DEF access
  <2>5. Ref(access) = Refs(Place(of, <<>>, v[0], <<>>), 1)
    BY <2>1, <2>2, RefsAre
  <2> QED BY <2>4, <2>5
<1>7. Depth(column.shape) = Len(parent.layers) + Len(own.layers)
  BY <1>1 DEF ListedFacts
<1>8. ~IsPlainBoolList(column)
  BY <1>1 DEF ListedFacts, IsPlainBoolList
<1>9. IsVec(column.shape)
  <2>1. Len(parent.layers) \in Nat /\ Len(parent.layers) > 0 /\ Len(own.layers) \in Nat
    BY <1>1 DEF ListedFacts
  <2>2. PICK x, y : x = Len(parent.layers) /\ y = Len(own.layers)
    OBVIOUS
  <2>3. x \in Nat /\ x > 0 /\ y \in Nat /\ D = x + y
    BY <1>2, <1>7, <2>1, <2>2
  <2>4. D # 0
    BY <2>3
  <2> QED BY <1>2, <2>4 DEF IsVec, Depth
<1> HIDE DEF access
<1>10. Reads(ReadLists(access, column), of, column.path)
  BY <1>2, <1>5, <1>6, <1>7, ElementReads
<1> QED BY <1>8, <1>9, <1>10 DEF access

-----------------------------------------------------------------------------
(* Columns as they are projected.                                          *)

(* The tuples on the way to an element, and the pointers around each.      *)
Follows(of, column) ==
  /\ IsRow(of) /\ column.path \in DOMAIN of.ty /\ of.ty[column.path].base \in LeafBases
  /\ \A m \in 0 .. Len(column.path) - 1 :
       /\ SubSeq(column.path, 1, m) \in DOMAIN of.ty
       /\ of.ty[SubSeq(column.path, 1, m)].base = "Tuple"
  /\ Len(column.outer) = Len(column.path) + 1
  /\ \A m \in 0 .. Len(column.path) :
       column.outer[m + 1] = LoweredNode(of.ty[SubSeq(column.path, 1, m)]).outer
(* A field, or an element with nothing but pointers around its tuples.     *)
OwnColumn(of, column) ==
  /\ Follows(of, column) /\ column.kind \in {"Field", "TupleStatic"}
  /\ column.kind = "Field" => column.path = <<>>
  /\ \A m \in 0 .. Len(column.path) - 1 : Pointed(Spine(of.ty, column.path, m))
  /\ column.shape = LoweredNode(of.ty[column.path]).shape
(* An element of the field's own tuple, with more around it.               *)
TupleColumn(of, column) ==
  LET parent == LoweredNode(of.ty[<<>>]).shape
  IN /\ Follows(of, column) /\ Len(column.path) = 1
     /\ column.kind = ParentKind(parent) /\ column.kind # "TupleStatic"
     /\ column.parent_access = parent.inner_access /\ column.projection_layer = ProjectionLayer(parent)
     /\ column.shape = Compose(parent, LoweredNode(of.ty[column.path]).shape)

(* What the way to an element has, step by step.                           *)
WayIs(of, column) ==
  /\ column.path \in Seq(Nat) /\ Len(column.path) \in Nat /\ IsPath(of.ty, column.path)
  /\ of.ty[<<>>].spine \in Seq(RawWrappers) /\ of.ty[column.path].spine \in Seq(RawWrappers)
  /\ SubSeq(column.path, 1, Len(column.path)) = column.path /\ SubSeq(column.path, 1, 0) = <<>>
  /\ \A m \in 0 .. Len(column.path) :
       /\ SubSeq(column.path, 1, m) \in DOMAIN of.ty
       /\ of.ty[SubSeq(column.path, 1, m)].spine \in Seq(RawWrappers)
       /\ column.outer[m + 1] = LeadingPointers(of.ty[SubSeq(column.path, 1, m)].spine)
  /\ column.outer[1] = LeadingPointers(of.ty[<<>>].spine)
  /\ FieldSourceAccess(of, column) = Refs(Place(of, <<>>, column.outer[1], <<>>), 0)

(* A node of a type has a path and a stack.                                *)
LEMMA TypeIs ==
  ASSUME NEW of, IsRow(of), NEW p \in DOMAIN of.ty
  PROVE  p \in Seq(Nat) /\ of.ty[p].spine \in Seq(RawWrappers)
BY DEF IsRow, IsFieldType

(* On the way to a leaf are tuples, each behind its outer pointers.        *)
LEMMA WayHas ==
  ASSUME NEW of, NEW column, Follows(of, column)
  PROVE  WayIs(of, column)
<1> DEFINE path == column.path
<1>1. IsRow(of) /\ path \in DOMAIN of.ty
  BY DEF Follows
<1>2. path \in Seq(Nat) /\ of.ty[path].spine \in Seq(RawWrappers)
  BY <1>1, TypeIs
<1>3. Len(path) \in Nat /\ SubSeq(path, 1, Len(path)) = path /\ SubSeq(path, 1, 0) = <<>>
  <2> HIDE DEF path
  <2> QED BY <1>2, WholePath
<1>4. ASSUME NEW m \in 0 .. Len(path)
      PROVE  /\ SubSeq(path, 1, m) \in DOMAIN of.ty
             /\ of.ty[SubSeq(path, 1, m)].spine \in Seq(RawWrappers)
  <2>1. SubSeq(path, 1, m) \in DOMAIN of.ty
    <3>1. m = Len(path) \/ m \in 0 .. Len(path) - 1
      BY <1>3
    <3> QED BY <1>1, <1>3, <3>1 DEF Follows
  <2> QED BY <1>1, <2>1, TypeIs
<1>5. ASSUME NEW m \in 0 .. Len(path)
      PROVE  column.outer[m + 1] = LeadingPointers(of.ty[SubSeq(path, 1, m)].spine)
  <2>1. column.outer[m + 1] = LoweredNode(of.ty[SubSeq(path, 1, m)]).outer
    BY DEF Follows
  <2>2. of.ty[SubSeq(path, 1, m)].spine \in Seq(RawWrappers)
    BY <1>4
  <2> QED BY <2>1, <2>2, LoweredCut
<1>6. IsPath(of.ty, path)
  BY <1>3, <1>4 DEF IsPath, Spine
<1>7. 0 \in 0 .. Len(path) /\ 0 + 1 = 1
  BY <1>3
<1>8. of.ty[<<>>].spine \in Seq(RawWrappers)
  BY <1>3, <1>4, <1>7
<1>9. column.outer[1] = LeadingPointers(of.ty[<<>>].spine)
  BY <1>3, <1>5, <1>7
<1>10. FieldSourceAccess(of, column) = Refs(Place(of, <<>>, column.outer[1], <<>>), 0)
  <2>1. PICK s, n : s = of.ty[<<>>].spine /\ n = column.outer[1]
    OBVIOUS
  <2>2. s \in Seq(RawWrappers) /\ n = LeadingPointers(s)
    BY <1>8, <1>9, <2>1
  <2>3. n \in 0 .. Len(s) /\ \A i \in 1 .. n : s[i] = "SmartPtr"
    BY <2>2, LeadingIs
  <2>4. n \in Nat /\ n <= Len(s)
    BY <2>2, <2>3
  <2> QED BY <1>8, <2>1, <2>3, <2>4, FieldReached
<1> HIDE DEF path
<1>11. \A m \in 0 .. Len(path) :
         /\ SubSeq(path, 1, m) \in DOMAIN of.ty
         /\ of.ty[SubSeq(path, 1, m)].spine \in Seq(RawWrappers)
         /\ column.outer[m + 1] = LeadingPointers(of.ty[SubSeq(path, 1, m)].spine)
  BY <1>4, <1>5
<1> QED BY <1>2, <1>3, <1>6, <1>8, <1>9, <1>10, <1>11 DEF WayIs, path

(* All pointers of a stack of pointers are outer ones.                     *)
LEMMA PointedLeads ==
  ASSUME NEW spine \in Seq(RawWrappers), Pointed(spine)
  PROVE  LeadingPointers(spine) = Len(spine)
<1>1. LeadingPointers(spine) \in 0 .. Len(spine)
      /\ (LeadingPointers(spine) < Len(spine) => spine[LeadingPointers(spine) + 1] # "SmartPtr")
  BY LeadingIs
<1>2. PICK n : n = LeadingPointers(spine)
  OBVIOUS
<1>3. CASE n < Len(spine)
  <2>1. n + 1 \in DOMAIN spine
    BY <1>1, <1>2, <1>3
  <2> QED BY <1>1, <1>2, <1>3, <2>1 DEF Pointed
<1> QED BY <1>1, <1>2, <1>3

(* Through the tuples, one after the other.                                *)
ReachedBy(of, column, x, m) ==
  x = Refs(Place(of, SubSeq(column.path, 1, m), column.outer[m + 1], <<>>), 0)

(* One more item of a path.                                                *)
LEMMA PathGrows ==
  ASSUME NEW path \in Seq(Nat), NEW i \in 1 .. Len(path)
  PROVE  Append(SubSeq(path, 1, i - 1), path[i]) = SubSeq(path, 1, i)
<1>1. PICK here, next : here = SubSeq(path, 1, i - 1) /\ next = SubSeq(path, 1, i)
  OBVIOUS
<1>2. PICK n : n = Len(path)
  OBVIOUS
<1>3. n \in Nat /\ i \in Nat /\ i - 1 \in Nat /\ 1 <= i /\ i <= n /\ i - 1 <= n
  BY <1>2
<1>4. \A j \in 1 .. i : path[j] \in Nat
  BY <1>2, <1>3
<1>5. here = [j \in 1 .. i - 1 |-> path[j]] /\ next = [j \in 1 .. i |-> path[j]]
  BY <1>1, <1>3
<1>6. here \in Seq(Nat) /\ Len(here) = i - 1
  <2>1. here \in [1 .. i - 1 -> Nat]
    BY <1>3, <1>4, <1>5
  <2> QED BY <1>3, <1>5, <2>1
<1>7. Len(next) = i /\ next \in Seq(Nat)
  <2>1. next \in [1 .. i -> Nat]
    BY <1>3, <1>4, <1>5
  <2> QED BY <1>3, <1>5, <2>1
<1>8. PICK u : u = Append(here, path[i])
  OBVIOUS
<1>9. path[i] \in Nat
  BY <1>3, <1>4
<1>10. u \in Seq(Nat) /\ Len(u) = i /\ (\A j \in 1 .. i - 1 : u[j] = here[j]) /\ u[i] = path[i]
  BY <1>3, <1>6, <1>8, <1>9
<1>11. \A j \in 1 .. i : u[j] = next[j]
  <2>1. \A j \in 1 .. i : j = i \/ j \in 1 .. i - 1
    BY <1>3
  <2> QED BY <1>3, <1>5, <1>10, <2>1
<1>12. u = next
  BY <1>7, <1>10, <1>11
<1> QED BY <1>1, <1>8, <1>12

(* From a tuple with nothing but pointers around it, the next.             *)
LEMMA NextReached ==
  ASSUME NEW of, NEW column, OwnColumn(of, column), NEW i \in 1 .. Len(column.path), NEW x,
         ReachedBy(of, column, x, i - 1)
  PROVE  ReachedBy(of, column, ElementStep(x, i, column), i)
<1> DEFINE path == column.path
           here == SubSeq(path, 1, i - 1)
           next == SubSeq(path, 1, i)
           q == Place(of, here, column.outer[i], <<>>)
           c0 == Place(of, next, 0, <<>>)
<1>1. WayIs(of, column) /\ Follows(of, column)
  BY WayHas DEF OwnColumn
<1>2. Len(path) \in Nat /\ path \in Seq(Nat)
  BY <1>1 DEF WayIs
<1>3. i - 1 \in 0 .. Len(path) - 1 /\ i - 1 \in 0 .. Len(path) /\ i \in 0 .. Len(path) /\ (i - 1) + 1 = i
  BY <1>2
<1>4. /\ here \in DOMAIN of.ty /\ of.ty[here].spine \in Seq(RawWrappers)
      /\ column.outer[i] = LeadingPointers(of.ty[here].spine)
      /\ next \in DOMAIN of.ty /\ of.ty[next].spine \in Seq(RawWrappers)
      /\ column.outer[i + 1] = LeadingPointers(of.ty[next].spine)
  BY <1>1, <1>3 DEF WayIs
<1>5. of.ty[here].base = "Tuple" /\ Pointed(of.ty[here].spine)
  BY <1>1, <1>3 DEF Follows, OwnColumn, Spine
<1>6. Append(here, path[i]) = next
  BY <1>2, PathGrows
<1>7. column.outer[i] = Len(of.ty[here].spine) /\ Len(of.ty[here].spine) \in Nat
  BY <1>4, <1>5, PointedLeads
<1>8. q.row = of /\ q.node = here /\ q.depth = column.outer[i] /\ q.at = <<>> /\ Node(q) = of.ty[here]
  BY DEF Place, Node
<1>9. c0.row = of /\ c0.node = next /\ c0.depth = 0 /\ c0.at = <<>> /\ Node(c0) = of.ty[next]
  BY DEF Place, Node
<1>10. q = Place(q.row, q.node, q.depth, q.at) /\ c0 = Place(c0.row, c0.node, c0.depth, c0.at)
  BY <1>8, <1>9
<1>11. PICK n, t : n = column.outer[i + 1] /\ t = of.ty[next].spine
  OBVIOUS
<1>12. n \in Nat /\ n <= Len(t) /\ t \in Seq(RawWrappers) /\ \A j \in 1 .. n : t[j] = "SmartPtr"
  <2>1. t \in Seq(RawWrappers) /\ n = LeadingPointers(t)
    BY <1>4, <1>11
  <2>2. n \in 0 .. Len(t) /\ \A j \in 1 .. n : t[j] = "SmartPtr"
    BY <2>1, LeadingIs
  <2> QED BY <2>1, <2>2
<1>13. x = Refs(q, 0)
  BY <1>3 DEF ReachedBy
<1> HIDE DEF q, c0, here, next
<1>14. IsPlace(q) /\ IsBare(q)
  BY <1>4, <1>7, <1>8, <1>10 DEF IsPlace, IsBare
<1>15. IsPlace(c0) /\ IsWrapped(c0, "SmartPtr", n)
  <2>1. \A j \in 1 .. n : 0 + j = j
    BY <1>12
  <2> QED BY <1>9, <1>10, <1>11, <1>12, <2>1 DEF IsPlace, IsWrapped
<1>16. IsTuplePlace(q, column, i)
  <2>1. Append(q.node, column.path[i]) = next
    BY <1>6, <1>8
  <2>2. Place(q.row, Append(q.node, column.path[i]), 0, q.at) = c0
    BY <1>8, <2>1 DEF c0
  <2> QED BY <1>4, <1>5, <1>8, <1>11, <1>12, <1>14, <1>15, <2>1, <2>2 DEF IsTuplePlace
<1>17. ElementAt(q, column, i) = Place(of, next, column.outer[i + 1], <<>>)
  BY <1>6, <1>8 DEF ElementAt
<1>18. ElementStep(Refs(q, 0), i, column) = Refs(ElementAt(q, column, i), 0)
  BY <1>16, ElementIs
<1> QED BY <1>13, <1>17, <1>18 DEF ReachedBy, next

(* Through all tuples, the element the path ends with.                     *)
LEMMA PathReached ==
  ASSUME NEW of, NEW column, OwnColumn(of, column)
  PROVE  ReachedBy(of, column, TuplePath(FieldSourceAccess(of, column), column), Len(column.path))
<1> DEFINE path == column.path
           x == FieldSourceAccess(of, column)
<1>1. WayIs(of, column)
  BY WayHas DEF OwnColumn
<1>2. Len(path) \in Nat /\ SubSeq(path, 1, 0) = <<>>
  BY <1>1 DEF WayIs
<1>3. ReachedBy(of, column, x, 0)
  <2>1. 0 + 1 = 1 /\ x = Refs(Place(of, <<>>, column.outer[1], <<>>), 0)
    BY <1>1 DEF WayIs
  <2> QED BY <1>2, <2>1 DEF ReachedBy
<1>4. PICK f : ThroughTuples(f, x, column)
  BY <1>2, TuplesIs
<1>5. /\ f[0] = x
      /\ \A i \in 1 .. Len(path) : f[i] = ElementStep(f[i - 1], i, column)
      /\ TuplePath(x, column) = f[Len(path)]
  BY <1>4 DEF ThroughTuples
<1> DEFINE S == {i \in Nat : i <= Len(path) => ReachedBy(of, column, f[i], i)}
<1>6. 0 \in S
  BY <1>3, <1>5
<1>7. ASSUME NEW n \in Nat, n \in S PROVE n + 1 \in S
  <2> SUFFICES ASSUME n + 1 <= Len(path) PROVE ReachedBy(of, column, f[n + 1], n + 1)
    OBVIOUS
  <2>1. PICK i : i = n + 1
    OBVIOUS
  <2>2. i \in 1 .. Len(path) /\ i - 1 = n /\ n <= Len(path)
    BY <1>2, <2>1
  <2>3. ReachedBy(of, column, f[n], n)
    BY <1>7, <2>2
  <2> HIDE DEF S, x
  <2>4. f[i] = ElementStep(f[n], i, column)
    BY <1>5, <2>2
  <2>5. ReachedBy(of, column, ElementStep(f[n], i, column), i)
    <3>1. ReachedBy(of, column, f[n], i - 1)
      BY <2>2, <2>3
    <3> QED BY <2>2, <3>1, NextReached
  <2> QED BY <2>1, <2>4, <2>5
<1> HIDE DEF S
<1>8. Nat \subseteq S
  BY <1>6, <1>7, SetInduction
<1>9. Len(path) \in S
  BY <1>2, <1>8
<1>10. ReachedBy(of, column, f[Len(path)], Len(path))
  <2>1. PICK n : n = Len(path)
    OBVIOUS
  <2>2. n \in Nat /\ n <= n
    BY <1>2, <2>1
  <2>3. n \in S
    BY <1>9, <2>1
  <2>4. n <= Len(path) => ReachedBy(of, column, f[n], n)
    BY <2>3 DEF S
  <2>5. n <= Len(path)
    BY <2>1, <2>2
  <2> QED BY <2>1, <2>4, <2>5
<1> QED BY <1>5, <1>10

(* Where a column starts to read.                                          *)
LEMMA OwnAccess ==
  ASSUME NEW column, OwnColumn(row, column)
  PROVE  ColumnAccess(column) = Refs(Place(row, column.path, LeadingPointers(row.ty[column.path].spine), <<>>), 0)
<1> DEFINE path == column.path
           m == Len(path)
<1>1. WayIs(row, column) /\ column.kind \in {"Field", "TupleStatic"} /\ (column.kind = "Field" => path = <<>>)
  BY WayHas DEF OwnColumn
<1>2. /\ m \in Nat /\ SubSeq(path, 1, m) = path
      /\ \A i \in 0 .. m : column.outer[i + 1] = LeadingPointers(row.ty[SubSeq(path, 1, i)].spine)
  BY <1>1 DEF WayIs
<1>3. column.outer[m + 1] = LeadingPointers(row.ty[path].spine)
  <2>1. m \in 0 .. m
    BY <1>2
  <2> QED BY <1>2, <2>1
<1>4. CASE column.kind = "Field"
  <2>1. path = <<>>
    BY <1>1, <1>4
  <2>2. FieldSourceAccess(row, column) = Refs(Place(row, <<>>, column.outer[1], <<>>), 0)
        /\ column.outer[1] = LeadingPointers(row.ty[<<>>].spine)
    BY <1>1 DEF WayIs
  <2>3. ColumnAccess(column) = FieldSourceAccess(row, column)
    BY <1>4 DEF ColumnAccess
  <2> QED BY <2>1, <2>2, <2>3
<1>5. CASE column.kind = "TupleStatic"
  <2>1. ReachedBy(row, column, TuplePath(FieldSourceAccess(row, column), column), m)
    BY PathReached
  <2>2. TuplePath(FieldSourceAccess(row, column), column) = Refs(Place(row, path, column.outer[m + 1], <<>>), 0)
    BY <1>2, <2>1 DEF ReachedBy
  <2>3. ColumnAccess(column) = TuplePath(FieldSourceAccess(row, column), column)
    BY <1>5 DEF ColumnAccess, TupleStaticAccess
  <2> QED BY <1>3, <2>2, <2>3
<1> QED BY <1>1, <1>4, <1>5

(* Without a list there is none to be copied.                              *)
LEMMA NotVecIsNotCopied ==
  ASSUME NEW column, ~IsVec(column.shape)
  PROVE  ~IsPlainBoolList(column)
<1>1. Depth(column.shape) = 0
  BY DEF IsVec, Depth
<1> QED BY <1>1 DEF IsPlainBoolList

(* A field, or an element that has only pointers around its tuples, reads  *)
(* its path.                                                               *)
LEMMA OwnColumnReads ==
  ASSUME NEW column, OwnColumn(row, column)
  PROVE  Reads(Cell(column), row, column.path)
<1> DEFINE path == column.path
           s == row.ty[path].spine
<1>1. WayIs(row, column) /\ Follows(row, column)
  BY WayHas DEF OwnColumn
<1>2. s \in Seq(RawWrappers) /\ IsRow(row) /\ row.ty[path].base \in LeafBases /\ path \in Seq(Nat) /\ IsPath(row.ty, path)
  BY <1>1 DEF WayIs, Follows
<1>3. PICK v : IsShapeCut(LoweredNode(row.ty[path]).shape, s, v) /\ v[0] = LeadingPointers(s)
  BY <1>2, LoweredCut
<1>4. IsOwn(row, column, v)
  BY <1>2, <1>3 DEF IsOwn, OwnColumn
<1>5. ColumnAccess(column) = Refs(Place(row, path, v[0], <<>>), 0)
  BY <1>3, OwnAccess
<1>6. column.kind # "TupleParentOption"
  BY DEF OwnColumn
<1>7. CASE ~IsVec(column.shape)
  <2>1. ~IsPlainBoolList(column)
    BY <1>7, NotVecIsNotCopied
  <2>2. PICK access : access = Refs(Place(row, path, v[0], <<>>), 0)
    OBVIOUS
  <2>3. ColumnAccess(column) = access
    BY <1>5, <2>2
  <2>4. Cell(column) = [is \in {<<>>} |-> Scalar(access, column)]
    BY <1>7, <2>1, <2>3 DEF Cell, Read
  <2>5. Reads([is \in {<<>>} |-> Scalar(access, column)], row, path)
    BY <1>4, <1>6, <1>7, <2>2, OwnScalar
  <2> QED BY <2>4, <2>5
<1>8. CASE IsVec(column.shape) /\ IsPlainBoolList(column)
  <2>1. Cell(column) = CopiedList(Refs(Place(row, path, v[0], <<>>), 0))
    BY <1>5, <1>8 DEF Cell, Read
  <2> QED BY <1>4, <1>8, <2>1, OwnCopied
<1>9. CASE IsVec(column.shape) /\ ~IsPlainBoolList(column)
  <2>1. Cell(column) = ReadLists(Refs(Place(row, path, v[0], <<>>), 0), column)
    BY <1>5, <1>9 DEF Cell, Read
  <2> QED BY <1>4, <2>1, OwnLists
<1> QED BY <1>7, <1>8, <1>9

(* An element of a wrapped tuple reads its path.                           *)
LEMMA TupleColumnReads ==
  ASSUME NEW column, TupleColumn(row, column)
  PROVE  Reads(Cell(column), row, column.path)
<1> DEFINE path == column.path
           parent == LoweredNode(row.ty[<<>>]).shape
           own == LoweredNode(row.ty[path]).shape
<1>1. WayIs(row, column) /\ Follows(row, column) /\ Len(path) = 1
  BY WayHas DEF TupleColumn
<1>2. /\ row.ty[path].spine \in Seq(RawWrappers) /\ IsRow(row) /\ row.ty[path].base \in LeafBases
      /\ path \in Seq(Nat) /\ IsPath(row.ty, path) /\ path \in DOMAIN row.ty
      /\ row.ty[<<>>].spine \in Seq(RawWrappers)
      /\ SubSeq(path, 1, 0) = <<>> /\ SubSeq(path, 1, 1) = path
  BY <1>1 DEF WayIs, Follows
<1>3. /\ row.ty[<<>>].base = "Tuple" /\ Len(column.outer) = 2
      /\ column.outer[1] = LeadingPointers(row.ty[<<>>].spine)
      /\ column.outer[2] = LeadingPointers(row.ty[path].spine)
  <2>1. 0 \in 0 .. Len(path) - 1 /\ 1 \in 0 .. Len(path) /\ 1 + 1 = 2
    BY <1>1
  <2> QED BY <1>1, <1>2, <2>1 DEF WayIs, Follows
<1>4. PICK v : IsShapeCut(parent, row.ty[<<>>].spine, v) /\ v[0] = LeadingPointers(row.ty[<<>>].spine)
  BY <1>2, LoweredCut
<1>5. PICK w : IsShapeCut(own, row.ty[path].spine, w) /\ w[0] = LeadingPointers(row.ty[path].spine)
  BY <1>2, LoweredCut
<1>6. /\ column.kind = ParentKind(parent) /\ column.kind # "TupleStatic"
      /\ column.parent_access = parent.inner_access /\ column.projection_layer = ProjectionLayer(parent)
      /\ column.shape = Compose(parent, own)
  BY DEF TupleColumn
<1> HIDE DEF parent, own
<1>7. IsElement(row, column, parent, v, own, w)
  BY <1>1, <1>2, <1>3, <1>4, <1>5, <1>6 DEF IsElement
<1>8. CASE IsVec(parent)
  <2>1. column.kind = "TupleParentVec"
    BY <1>6, <1>8 DEF ParentKind
  <2>2. ColumnAccess(column) = FieldSourceAccess(row, column)
    BY <2>1 DEF ColumnAccess
  <2>3. Reads(ReadLists(FieldSourceAccess(row, column), column), row, path)
        /\ ~IsPlainBoolList(column) /\ IsVec(column.shape)
    BY <1>7, <1>8, ListedLists
  <2>4. Cell(column) = ReadLists(FieldSourceAccess(row, column), column)
    BY <2>2, <2>3 DEF Cell, Read
  <2> QED BY <2>3, <2>4
<1>9. CASE ~IsVec(parent)
  <2>1. column.kind = "TupleParentOption" /\ HasInnerOption(parent)
    BY <1>6, <1>9 DEF ParentKind
  <2>2. ColumnAccess(column) = TupleParentOptionAccess(row, column)
    BY <2>1 DEF ColumnAccess
  <2>3. CASE IsVec(own)
    <3>1. Reads(ReadLists(TupleParentOptionAccess(row, column), column), row, path)
          /\ ~IsPlainBoolList(column) /\ IsVec(column.shape)
      BY <1>7, <1>9, <2>1, <2>3, OptionalLists
    <3>2. Cell(column) = ReadLists(TupleParentOptionAccess(row, column), column)
      BY <2>2, <3>1 DEF Cell, Read
    <3> QED BY <3>1, <3>2
  <2>4. CASE ~IsVec(own)
    <3>1. Reads([is \in {<<>>} |-> Scalar(TupleParentOptionAccess(row, column), column)], row, path)
      BY <1>7, <1>9, <2>1, <2>4, OptionalScalar
    <3>2. ~IsVec(column.shape)
      <4>1. OptionComposed(ComposeOption(own), own)
        BY <1>5, ShapeIs, OptionComposes
      <4>2. column.shape = ComposeOption(own)
        BY <1>6, <2>1 DEF Compose
      <4> QED BY <2>4, <4>1, <4>2 DEF OptionComposed
    <3>3. ~IsPlainBoolList(column)
      BY <3>2, NotVecIsNotCopied
    <3>4. Cell(column) = [is \in {<<>>} |-> Scalar(TupleParentOptionAccess(row, column), column)]
      BY <2>2, <3>2, <3>3 DEF Cell, Read
    <3> QED BY <3>1, <3>4
  <2> QED BY <2>3, <2>4
<1> QED BY <1>8, <1>9

-----------------------------------------------------------------------------
(* What the projection makes of the tree of a field.                       *)

(* The projection tells tuples apart as the reading does.                  *)
LEMMA SameParentKind ==
  ASSUME NEW s
  PROVE  P!ParentKind(s) = ParentKind(s) /\ P!IsVec(s) = IsVec(s)
BY DEF P!ParentKind, ParentKind, P!IsVec, IsVec, P!HasInnerOption, HasInnerOption

(* The projection counts as the reading does.                              *)
LEMMA SameCardinality == \A S : P!Cardinality(S) = Cardinality(S)
BY Zenon DEF P!Cardinality, Cardinality

(* The projection composes shapes as the reading does.                     *)
LEMMA SameCompose ==
  ASSUME NEW parent, NEW element
  PROVE  P!Compose(parent, element) = Compose(parent, element)
<1>1. P!ParentKind(parent) = ParentKind(parent) /\ P!IsVec(parent) = IsVec(parent) /\ P!IsVec(element) = IsVec(element)
  BY SameParentKind
<1>2. /\ \A n, c : P!FromOptionAccess(n, c) = FromOptionAccess(n, c)
      /\ \A l, n, c : P!AddToFirst(l, n, c) = AddToFirst(l, n, c)
      /\ \A c : P!PrependOption(c) = PrependOption(c)
      /\ \A p, c : P!PrependParentOption(p, c) = PrependParentOption(p, c)
  <2>1. ASSUME NEW n, NEW c PROVE P!FromOptionAccess(n, c) = FromOptionAccess(n, c)
    BY Zenon DEF P!FromOptionAccess, FromOptionAccess, P!Bare, Bare, P!LeafShape, LeafShape
  <2>2. ASSUME NEW l, NEW n, NEW c PROVE P!AddToFirst(l, n, c) = AddToFirst(l, n, c)
    BY Zenon DEF P!AddToFirst, AddToFirst
  <2>3. ASSUME NEW c PROVE P!PrependOption(c) = PrependOption(c)
    BY Zenon DEF P!PrependOption, PrependOption
  <2>4. ASSUME NEW p, NEW c PROVE P!PrependParentOption(p, c) = PrependParentOption(p, c)
    <3>1. P!OptionLayers(p) = OptionLayers(p)
      <4> DEFINE S == {i \in DOMAIN p : p[i] = "Option"}
      <4>1. P!OptionLayers(p) = P!Cardinality(S) /\ OptionLayers(p) = Cardinality(S)
        BY Zenon DEF P!OptionLayers, OptionLayers
      <4> QED BY <4>1, SameCardinality
    <3> QED BY <2>3, <3>1, Zenon DEF P!PrependParentOption, PrependParentOption
  <2> QED BY <2>1, <2>2, <2>3, <2>4, Zenon
<1>3. P!ComposeOption(element) = ComposeOption(element)
  BY <1>1, <1>2, Zenon DEF P!ComposeOption, ComposeOption
<1>4. P!ComposeVec(parent, element) = ComposeVec(parent, element)
  BY <1>1, <1>2, Zenon DEF P!ComposeVec, ComposeVec
<1> QED BY <1>1, <1>3, <1>4, Zenon DEF P!Compose, Compose

(* The projection's layers and chains are those of the reading.            *)
LEMMA SameProjection ==
  ASSUME NEW parent
  PROVE  /\ P!ProjectionLayer(parent) = ProjectionLayer(parent)
         /\ P!ParentAccess(parent) = ParentAccess(parent) /\ P!Bare = Bare
<1>1. P!ParentKind(parent) = ParentKind(parent) /\ P!IsVec(parent) = IsVec(parent)
  BY SameParentKind
<1>2. P!Depth(parent) = Depth(parent)
  BY DEF P!Depth, Depth
<1>3. P!ProjectionLayer(parent) = ProjectionLayer(parent)
  BY <1>1, <1>2, Zenon DEF P!ProjectionLayer, ProjectionLayer
<1>4. P!ParentAccess(parent) = ParentAccess(parent)
  BY <1>1, Zenon DEF P!ParentAccess, ParentAccess
<1>5. P!Bare = Bare
  BY Zenon DEF P!Bare, Bare, P!LeafShape, LeafShape
<1> QED BY <1>3, <1>4, <1>5

(* The elements that wait: of the field's own tuple with its shape, of a   *)
(* tuple in it with no shape at all, and pointers on the whole way.        *)
OnTheWay(of, path) ==
  \A m \in 0 .. Len(path) - 1 :
    SubSeq(path, 1, m) \in DOMAIN of.ty /\ of.ty[SubSeq(path, 1, m)].base = "Tuple"
PointedWay(of, path) ==
  \A m \in 0 .. Len(path) - 1 : Pointed(of.ty[SubSeq(path, 1, m)].spine)
RootShape(of) == LoweredNode(of.ty[<<>>]).shape
WaitsWell(of, e) ==
  /\ Len(e.path) > 0 /\ OnTheWay(of, e.path)
  /\ \/ Len(e.path) = 1 /\ e.parent = RootShape(of)
     \/ Len(e.path) > 1 /\ e.parent = Bare /\ PointedWay(of, e.path)
WaitingElements(of) ==
  {e \in [path : DOMAIN of.ty, parent : {RootShape(of), Bare}] : WaitsWell(of, e)}

TreeIs(of) ==
  /\ P!Tree = [p \in DOMAIN of.ty |-> LoweredNode(of.ty[p])]
  /\ \A p \in DOMAIN of.ty : P!IsTuple(p) <=> of.ty[p].base = "Tuple"

(* The tree that is projected is the lowered field.                        *)
LEMMA CurrentTree ==
  ASSUME IsRow(row), fields = <<LoweredField(row.ty)>>
  PROVE  TreeIs(row)
<1>1. Head(fields) = LoweredField(row.ty)
  OBVIOUS
<1>2. P!Tree = [p \in DOMAIN row.ty |-> LoweredNode(row.ty[p])]
  BY <1>1 DEF P!Tree, LoweredField
<1>3. ASSUME NEW p \in DOMAIN row.ty PROVE P!IsTuple(p) <=> row.ty[p].base = "Tuple"
  <2>1. P!Tree[p] = LoweredNode(row.ty[p])
    BY <1>2
  <2>2. LoweredNode(row.ty[p]).leaf.spec = row.ty[p].base
    BY TypeIs, LoweredCut
  <2> QED BY <2>1, <2>2 DEF P!IsTuple
<1> QED BY <1>2, <1>3 DEF TreeIs

(* A tuple without a list or an Option around it has pointers alone.       *)
LEMMA StaticPointed ==
  ASSUME NEW spine \in Seq(RawWrappers), NEW node, node.spine = spine,
         ParentKind(LoweredNode(node).shape) = "TupleStatic"
  PROVE  Pointed(spine)
<1> DEFINE shape == LoweredNode(node).shape
           inner == shape.inner_access
<1>1. PICK v : IsShapeCut(shape, spine, v)
  BY LoweredCut
<1>2. ShapeFacts(shape, spine, v)
  BY <1>1, ShapeIs
<1>3. ~IsVec(shape) /\ ~HasInnerOption(shape)
  BY DEF ParentKind
<1>4. Len(shape.layers) = 0 /\ ~HasOption(inner)
  BY <1>2, <1>3 DEF IsVec, ShapeFacts
<1>5. /\ IsCut(shape.layers, inner, spine, v, Len(spine)) /\ v[0] \in Nat /\ v[0] <= Len(spine)
      /\ \A i \in 1 .. v[0] : spine[i] = "SmartPtr"
  BY <1>2 DEF ShapeFacts
<1> HIDE DEF shape, inner
<1>6. /\ v[0] < Len(spine) => spine[v[0] + 1] # "SmartPtr"
      /\ IsStretch(inner, spine, v[0], Len(spine))
  BY <1>4, <1>5 DEF IsCut
<1>7. PICK n : n = v[0]
  OBVIOUS
<1>8. /\ n \in Nat /\ inner \in Seq(AccessSteps) /\ n + Len(inner) = Len(spine)
      /\ \A j \in 1 .. Len(inner) : inner[j] = spine[n + j]
  BY <1>5, <1>6, <1>7 DEF IsStretch
<1>9. CASE Len(inner) = 0
  <2>1. n = Len(spine)
    BY <1>8, <1>9
  <2> QED BY <1>5, <1>7, <2>1 DEF Pointed
<1>10. CASE Len(inner) # 0
  <2>1. 1 \in 1 .. Len(inner) /\ 1 \in DOMAIN inner /\ n < Len(spine) /\ inner[1] \in AccessSteps
    BY <1>8, <1>10
  <2>2. inner[1] # "SmartPtr"
    BY <1>6, <1>7, <1>8, <2>1
  <2>3. inner[1] = "Option"
    BY <2>1, <2>2 DEF AccessSteps
  <2> QED BY <1>4, <2>1, <2>3 DEF HasOption
<1> QED BY <1>9, <1>10

(* An index up to n is n or one before.                                    *)
LEMMA UpToLast ==
  ASSUME NEW n \in Nat, NEW m \in 0 .. n
  PROVE  m = n \/ m \in 0 .. n - 1
OBVIOUS

(* A path without its last item.                                           *)
LEMMA FrontIs ==
  ASSUME NEW p \in Seq(Nat), Len(p) > 0, NEW n, n = Len(p), NEW front, front = SubSeq(p, 1, n - 1)
  PROVE  /\ n \in Nat /\ n - 1 \in 0 .. n - 1 /\ Len(front) = n - 1 /\ front \in Seq(Nat)
         /\ n = (n - 1) + 1
<1>1. n \in Nat /\ n > 0
  OBVIOUS
<1>2. n - 1 \in Nat /\ n - 1 \in 0 .. n - 1 /\ n = (n - 1) + 1 /\ n - 1 <= n
  BY <1>1
<1>3. front = [i \in 1 .. n - 1 |-> p[i]]
  BY <1>2
<1>4. \A i \in 1 .. n - 1 : p[i] \in Nat
  BY <1>1, <1>2
<1>5. front \in [1 .. n - 1 -> Nat]
  BY <1>3, <1>4
<1> QED BY <1>1, <1>2, <1>3, <1>5

(* A path with one more item.                                              *)
LEMMA Extended ==
  ASSUME NEW p \in Seq(Nat), NEW i \in Nat, NEW path, path = Append(p, i)
  PROVE  /\ path \in Seq(Nat) /\ Len(path) = Len(p) + 1 /\ Len(p) \in Nat
         /\ \A m \in 0 .. Len(p) - 1 : SubSeq(path, 1, m) = SubSeq(p, 1, m)
         /\ SubSeq(path, 1, Len(p)) = p
<1>1. /\ path \in Seq(Nat) /\ Len(path) = Len(p) + 1 /\ Len(p) \in Nat
      /\ \A j \in 1 .. Len(p) : path[j] = p[j]
  OBVIOUS
<1>2. ASSUME NEW m \in 0 .. Len(p) PROVE SubSeq(path, 1, m) = SubSeq(p, 1, m)
  <2>1. /\ SubSeq(path, 1, m) \in Seq(Nat) /\ Len(SubSeq(path, 1, m)) = m
        /\ SubSeq(p, 1, m) \in Seq(Nat) /\ Len(SubSeq(p, 1, m)) = m
        /\ \A j \in 1 .. m : SubSeq(path, 1, m)[j] = path[j] /\ SubSeq(p, 1, m)[j] = p[j]
    BY <1>1
  <2>2. \A j \in 1 .. m : path[j] = p[j]
    BY <1>1
  <2>3. PICK x, y : x = SubSeq(path, 1, m) /\ y = SubSeq(p, 1, m)
    OBVIOUS
  <2>4. x \in Seq(Nat) /\ y \in Seq(Nat) /\ Len(x) = m /\ Len(y) = m /\ \A j \in 1 .. m : x[j] = y[j]
    BY <2>1, <2>2, <2>3
  <2>5. x = y
    BY <2>4
  <2> QED BY <2>3, <2>5
<1>3. SubSeq(p, 1, Len(p)) = p
  BY WholePath
<1>4. Len(p) \in 0 .. Len(p) /\ \A m \in 0 .. Len(p) - 1 : m \in 0 .. Len(p)
  BY <1>1
<1> QED BY <1>1, <1>2, <1>3, <1>4

(* Opening a tuple that waits, or the field's own.                         *)
LEMMA PointedAround ==
  ASSUME NEW of, IsRow(of), NEW p \in DOMAIN of.ty, Len(p) > 0, OnTheWay(of, p), of.ty[p].base = "Tuple"
  PROVE  Pointed(of.ty[SubSeq(p, 1, Len(p) - 1)].spine) /\ Pointed(of.ty[p].spine)
<1> DEFINE front == SubSeq(p, 1, Len(p) - 1)
<1>1. p \in Seq(Nat)
  BY TypeIs
<1>2. PICK n : n = Len(p)
  OBVIOUS
<1>3. /\ n \in Nat /\ n - 1 \in 0 .. n - 1 /\ Len(front) = n - 1 /\ front \in Seq(Nat)
      /\ n = (n - 1) + 1
  BY <1>1, <1>2, FrontIs
<1>4. front \in DOMAIN of.ty
  BY <1>2, <1>3 DEF OnTheWay
<1>5. Len(p) = Len(front) + 1 /\ SubSeq(p, 1, Len(front)) = front
  BY <1>2, <1>3
<1>6. p \in ElementsIn(of.ty, front)
  BY <1>5 DEF ElementsIn
<1> HIDE DEF front
<1>7. \A q \in ElementsIn(of.ty, front) :
        of.ty[q].base = "Tuple" => Pointed(of.ty[front].spine) /\ Pointed(of.ty[q].spine)
  BY <1>4 DEF IsRow, IsFieldType
<1>8. Pointed(of.ty[front].spine) /\ Pointed(of.ty[p].spine)
  BY <1>6, <1>7
<1> QED BY <1>8 DEF front

(* The elements of a tuple wait as they should.                            *)
LEMMA TupleElements ==
  ASSUME NEW of, IsRow(of), NEW p \in DOMAIN of.ty, of.ty[p].base = "Tuple",
         NEW parent,
         \/ p = <<>> /\ parent = RootShape(of)
         \/ parent = Bare /\ \E e \in WaitingElements(of) : e.path = p,
         NEW i \in 1 .. Cardinality(ElementsIn(of.ty, p))
  PROVE  [path |-> Append(p, i), parent |-> parent] \in WaitingElements(of)
<1>1. p \in Seq(Nat) /\ IsFiniteSet(ElementsIn(of.ty, p)) /\ Append(p, i) \in DOMAIN of.ty
  BY TypeIs DEF IsRow, IsFieldType
<1>2. i \in Nat
  BY <1>1, FS_CardinalityType
<1>3. PICK path : path = Append(p, i)
  OBVIOUS
<1>4. /\ path \in Seq(Nat) /\ Len(path) = Len(p) + 1 /\ Len(p) \in Nat
      /\ \A m \in 0 .. Len(p) - 1 : SubSeq(path, 1, m) = SubSeq(p, 1, m)
      /\ SubSeq(path, 1, Len(p)) = p
  BY <1>1, <1>2, <1>3, Extended
<1>5. OnTheWay(of, p)
  <2>1. CASE p = <<>>
    <3>1. Len(p) - 1 = -1 /\ 0 .. -1 = {}
      BY <2>1
    <3> QED BY <3>1 DEF OnTheWay
  <2>2. CASE \E e \in WaitingElements(of) : e.path = p
    BY <2>2 DEF WaitingElements, WaitsWell
  <2> QED BY <2>1, <2>2
<1>6. OnTheWay(of, path) /\ Len(path) > 0
  <2>1. ASSUME NEW m \in 0 .. Len(path) - 1
        PROVE  SubSeq(path, 1, m) \in DOMAIN of.ty /\ of.ty[SubSeq(path, 1, m)].base = "Tuple"
    <3>1. m \in 0 .. Len(p)
      BY <1>4
    <3>2. m = Len(p) \/ m \in 0 .. Len(p) - 1
      BY <1>4, <3>1, UpToLast
    <3>3. CASE m = Len(p)
      BY <1>4, <3>3
    <3>4. CASE m \in 0 .. Len(p) - 1
      <4>1. SubSeq(path, 1, m) = SubSeq(p, 1, m)
        BY <1>4, <3>4
      <4> QED BY <1>5, <3>4, <4>1 DEF OnTheWay
    <3> QED BY <3>2, <3>3, <3>4
  <2> QED BY <1>4, <2>1 DEF OnTheWay
<1>7. CASE p = <<>> /\ parent = RootShape(of)
  <2>1. Len(path) = 1
    BY <1>4, <1>7
  <2>2. PICK e : e = [path |-> path, parent |-> parent]
    OBVIOUS
  <2>3. e.path = path /\ e.parent = parent /\ e \in [path : DOMAIN of.ty, parent : {RootShape(of), Bare}]
    BY <1>1, <1>3, <1>7, <2>2
  <2>4. WaitsWell(of, e)
    BY <1>6, <1>7, <2>1, <2>3 DEF WaitsWell
  <2> QED BY <1>3, <2>2, <2>3, <2>4 DEF WaitingElements
<1>8. CASE parent = Bare /\ \E e \in WaitingElements(of) : e.path = p
  <2>1. PICK e0 \in WaitingElements(of) : e0.path = p
    BY <1>8
  <2>2. WaitsWell(of, e0) /\ Len(p) > 0
    BY <2>1 DEF WaitingElements, WaitsWell
  <2>3. Pointed(of.ty[SubSeq(p, 1, Len(p) - 1)].spine) /\ Pointed(of.ty[p].spine)
    BY <1>5, <2>2, PointedAround
  <2>4. \A m \in 0 .. Len(p) - 1 : Pointed(of.ty[SubSeq(p, 1, m)].spine)
    <3>1. CASE Len(p) = 1
      <4> SUFFICES ASSUME NEW m \in 0 .. Len(p) - 1 PROVE Pointed(of.ty[SubSeq(p, 1, m)].spine)
        OBVIOUS
      <4>1. m = Len(p) - 1
        BY <3>1
      <4>2. Pointed(of.ty[SubSeq(p, 1, Len(p) - 1)].spine)
        BY <2>3
      <4> QED BY <4>1, <4>2, Zenon
    <3>2. CASE Len(p) > 1
      <4>1. Len(p) # 1
        BY <1>4, <3>2
      <4>2. PointedWay(of, p)
        BY <2>1, <2>2, <4>1, Zenon DEF WaitsWell
      <4> QED BY <4>2 DEF PointedWay
    <3>3. PICK n : n = Len(p)
      OBVIOUS
    <3>4. n \in Nat /\ n > 0
      BY <1>4, <2>2, <3>3
    <3>5. n = 1 \/ n > 1
      BY <3>4
    <3> QED BY <3>1, <3>2, <3>3, <3>5
  <2>5. PointedWay(of, path)
    <3> SUFFICES ASSUME NEW m \in 0 .. Len(path) - 1 PROVE Pointed(of.ty[SubSeq(path, 1, m)].spine)
      BY DEF PointedWay
    <3>1. m \in 0 .. Len(p)
      BY <1>4
    <3>2. m = Len(p) \/ m \in 0 .. Len(p) - 1
      BY <1>4, <3>1, UpToLast
    <3>3. CASE m = Len(p)
      BY <1>4, <2>3, <3>3
    <3>4. CASE m \in 0 .. Len(p) - 1
      <4>1. SubSeq(path, 1, m) = SubSeq(p, 1, m)
        BY <1>4, <3>4
      <4> QED BY <2>4, <3>4, <4>1
    <3> QED BY <3>2, <3>3, <3>4
  <2>6. Len(path) > 1
    BY <1>4, <2>2
  <2>7. PICK e : e = [path |-> path, parent |-> parent]
    OBVIOUS
  <2>8. e.path = path /\ e.parent = parent /\ e \in [path : DOMAIN of.ty, parent : {RootShape(of), Bare}]
    BY <1>1, <1>3, <1>8, <2>7
  <2>9. WaitsWell(of, e)
    BY <1>6, <1>8, <2>5, <2>6, <2>8 DEF WaitsWell
  <2> QED BY <1>3, <2>7, <2>8, <2>9 DEF WaitingElements
<1> QED BY <1>7, <1>8

(* What opening a tuple leaves to wait are its elements.                   *)
LEMMA OpenedElements ==
  ASSUME IsRow(row), TreeIs(row), NEW p \in DOMAIN row.ty, row.ty[p].base = "Tuple",
         NEW parent,
         \/ p = <<>> /\ parent = RootShape(row)
         \/ parent = Bare /\ \E e \in WaitingElements(row) : e.path = p
  PROVE  P!ElementsOf(p, parent) \in Seq(WaitingElements(row))
<1> DEFINE n == Cardinality(ElementsIn(row.ty, p))
<1>1. IsFiniteSet(ElementsIn(row.ty, p))
  BY DEF IsRow, IsFieldType
<1>2. n \in Nat
  BY <1>1, FS_CardinalityType
<1>3. P!Arity(p) = n
  <2>1. DOMAIN P!Tree = DOMAIN row.ty
    BY DEF TreeIs
  <2> QED BY <2>1, SameCardinality, Zenon DEF P!Arity, ElementsIn
<1>4. \A i \in 1 .. n : [path |-> Append(p, i), parent |-> parent] \in WaitingElements(row)
  BY TupleElements
<1> HIDE DEF n
<1>5. P!ElementsOf(p, parent) = [i \in 1 .. n |-> [path |-> Append(p, i), parent |-> parent]]
  BY <1>3, Zenon DEF P!ElementsOf
<1>6. PICK S : S = WaitingElements(row)
  OBVIOUS
<1>7. [i \in 1 .. n |-> [path |-> Append(p, i), parent |-> parent]] \in [1 .. n -> S]
  BY <1>4, <1>6
<1>8. P!ElementsOf(p, parent) \in [1 .. n -> S]
  BY <1>5, <1>7, Zenon
<1> QED BY <1>2, <1>6, <1>8

(* The columns that the projection adds.                                   *)
LEMMA ColumnMade ==
  ASSUME NEW p, NEW kind, NEW parent, NEW shape, NEW policy, NEW column,
         column = P!Column(p, kind, parent, shape, policy)
  PROVE  /\ column.path = p /\ column.kind = kind /\ column.leaf = P!Tree[p].leaf
         /\ column.shape = shape /\ column.outer = P!OuterPointers(p)
         /\ column.projection_layer = ProjectionLayer(parent)
         /\ column.parent_access = ParentAccess(parent)
<1>1. P!ProjectionLayer(parent) = ProjectionLayer(parent) /\ P!ParentAccess(parent) = ParentAccess(parent)
  BY SameProjection
<1>2. /\ column.path = p /\ column.kind = kind /\ column.leaf = P!Tree[p].leaf
      /\ column.shape = shape /\ column.outer = P!OuterPointers(p)
      /\ column.projection_layer = P!ProjectionLayer(parent)
      /\ column.parent_access = P!ParentAccess(parent)
  BY DEF P!Column
<1> QED BY <1>1, <1>2

(* A column of a leaf on the way follows its path.                         *)
LEMMA ColumnFollows ==
  ASSUME IsRow(row), TreeIs(row), NEW column, NEW p \in DOMAIN row.ty, column.path = p,
         OnTheWay(row, p), row.ty[p].base \in LeafBases, column.outer = P!OuterPointers(p)
  PROVE  Follows(row, column)
<1>1. p \in Seq(Nat) /\ Len(p) \in Nat /\ SubSeq(p, 1, Len(p)) = p
  <2>1. p \in Seq(Nat)
    BY TypeIs
  <2> QED BY <2>1, WholePath
<1>2. PICK n : n = Len(p)
  OBVIOUS
<1>3. P!OuterPointers(p) = [i \in 1 .. n + 1 |-> P!Tree[SubSeq(p, 1, i - 1)].outer]
  BY <1>2 DEF P!OuterPointers
<1>4. Len(column.outer) = n + 1
  BY <1>1, <1>2, <1>3
<1>5. ASSUME NEW m \in 0 .. n
      PROVE  column.outer[m + 1] = LoweredNode(row.ty[SubSeq(p, 1, m)]).outer
  <2>1. m + 1 \in 1 .. n + 1 /\ (m + 1) - 1 = m
    BY <1>1, <1>2
  <2>2. column.outer[m + 1] = P!Tree[SubSeq(p, 1, m)].outer
    <3>1. PICK j : j = m + 1
      OBVIOUS
    <3>2. j \in 1 .. n + 1 /\ j - 1 = m
      BY <2>1, <3>1
    <3>3. column.outer[j] = P!Tree[SubSeq(p, 1, j - 1)].outer
      BY <1>3, <3>2
    <3> QED BY <3>1, <3>2, <3>3
  <2>3. SubSeq(p, 1, m) \in DOMAIN row.ty
    <3>1. m = n \/ m \in 0 .. n - 1
      BY <1>1, <1>2, UpToLast
    <3>2. CASE m = n
      BY <1>1, <1>2, <3>2
    <3>3. CASE m \in 0 .. n - 1
      BY <1>2, <3>3 DEF OnTheWay
    <3> QED BY <3>1, <3>2, <3>3
  <2>4. P!Tree[SubSeq(p, 1, m)] = LoweredNode(row.ty[SubSeq(p, 1, m)])
    BY <2>3 DEF TreeIs
  <2> QED BY <2>2, <2>4
<1>6. \A m \in 0 .. Len(p) : column.outer[m + 1] = LoweredNode(row.ty[SubSeq(p, 1, m)]).outer
  BY <1>2, <1>5
<1>7. Len(column.outer) = Len(p) + 1
  BY <1>2, <1>4
<1> QED BY <1>6, <1>7 DEF Follows, OnTheWay

(* The column of a field without a tuple is its own.                       *)
LEMMA FieldColumnProper ==
  ASSUME IsRow(row), TreeIs(row), row.ty[<<>>].base # "Tuple"
  PROVE  OwnColumn(row, P!FieldColumn)
<1>1. <<>> \in DOMAIN row.ty /\ row.ty[<<>>].base \in LeafBases
  BY DEF IsRow, IsFieldType
<1>2. P!Tree[<<>>] = LoweredNode(row.ty[<<>>])
  BY <1>1 DEF TreeIs
<1>3. PICK column : column = P!FieldColumn
  OBVIOUS
<1>4. /\ column.path = <<>> /\ column.kind = "Field" /\ column.shape = LoweredNode(row.ty[<<>>]).shape
      /\ column.outer = P!OuterPointers(<<>>)
  <2>1. PICK shape, policy, parent : column = P!Column(<<>>, "Field", parent, shape, policy) /\ shape = P!Tree[<<>>].shape
    BY <1>3 DEF P!FieldColumn
  <2>2. /\ column.path = <<>> /\ column.kind = "Field" /\ column.shape = shape
        /\ column.outer = P!OuterPointers(<<>>)
    BY <2>1, ColumnMade
  <2> QED BY <1>2, <2>1, <2>2
<1>5. Len(<<>>) = 0 /\ 0 .. 0 - 1 = {}
  OBVIOUS
<1>6. OnTheWay(row, <<>>)
  BY <1>5 DEF OnTheWay
<1>7. Follows(row, column)
  BY <1>1, <1>4, <1>6, ColumnFollows
<1>8. OwnColumn(row, column)
  BY <1>4, <1>5, <1>7 DEF OwnColumn
<1> QED BY <1>3, <1>8

(* A tuple with nothing around it is projected without a wrapper.          *)
LEMMA BareIsStatic == ParentKind(Bare) = "TupleStatic"
BY DEF ParentKind, Bare, LeafShape, IsVec, HasInnerOption

(* Elements of a bare tuple keep their shapes; others have the chain of    *)
(* theirs.                                                                 *)
LEMMA PlainTuple ==
  ASSUME NEW parent, NEW element
  PROVE  /\ ParentKind(parent) = "TupleStatic" => Compose(parent, element) = element
         /\ ParentKind(parent) # "TupleStatic" => ParentAccess(parent) = parent.inner_access
BY DEF Compose, ParentAccess

(* The column of an element that waited is proper.                         *)
LEMMA ElementColumnProper ==
  ASSUME IsRow(row), TreeIs(row), NEW e \in WaitingElements(row), row.ty[e.path].base # "Tuple"
  PROVE  OwnColumn(row, P!ElementColumn(e)) \/ TupleColumn(row, P!ElementColumn(e))
<1> DEFINE own == LoweredNode(row.ty[e.path]).shape
<1>1. PICK p, parent : p = e.path /\ parent = e.parent
  OBVIOUS
<1>2. p \in DOMAIN row.ty /\ Len(p) > 0 /\ OnTheWay(row, p) /\ row.ty[p].base \in LeafBases
  <2>1. WaitsWell(row, e) /\ e.path \in DOMAIN row.ty
    BY DEF WaitingElements
  <2>2. row.ty[e.path].base \in LeafBases
    BY <2>1 DEF IsRow, IsFieldType
  <2> QED BY <1>1, <2>1, <2>2 DEF WaitsWell
<1>3. \/ Len(p) = 1 /\ parent = RootShape(row)
      \/ Len(p) > 1 /\ parent = Bare /\ PointedWay(row, p)
  <2>1. WaitsWell(row, e)
    BY DEF WaitingElements
  <2> QED BY <1>1, <2>1 DEF WaitsWell
<1>4. p \in Seq(Nat) /\ SubSeq(p, 1, 0) = <<>>
  <2>1. p \in Seq(Nat)
    BY <1>2, TypeIs
  <2> QED BY <2>1, WholePath
<1>5. P!Tree[p].shape = own
  BY <1>1, <1>2 DEF TreeIs
<1>6. PICK column : column = P!ElementColumn(e)
  OBVIOUS
<1> HIDE DEF own
<1>7. /\ column.path = p /\ column.kind = ParentKind(parent) /\ column.shape = Compose(parent, own)
      /\ column.outer = P!OuterPointers(p) /\ column.projection_layer = ProjectionLayer(parent)
      /\ column.parent_access = ParentAccess(parent)
  <2>1. P!ParentKind(parent) = ParentKind(parent) /\ P!Compose(parent, own) = Compose(parent, own)
    BY SameParentKind, SameCompose
  <2>2. column = P!Column(p, ParentKind(parent), parent, Compose(parent, own), "Field")
    BY <1>1, <1>5, <1>6, <2>1 DEF P!ElementColumn
  <2> QED BY <2>2, ColumnMade
<1>8. Follows(row, column)
  BY <1>2, <1>7, ColumnFollows
<1>9. CASE ParentKind(parent) = "TupleStatic"
  <2>1. PointedWay(row, p)
    <3>1. CASE Len(p) = 1 /\ parent = RootShape(row)
      <4>1. <<>> \in DOMAIN row.ty
        BY DEF IsRow, IsFieldType
      <4>2. Pointed(row.ty[<<>>].spine)
        <5>1. row.ty[<<>>].spine \in Seq(RawWrappers)
          BY <4>1, TypeIs
        <5> QED BY <1>9, <3>1, <5>1, StaticPointed DEF RootShape
      <4>3. \A m \in 0 .. Len(p) - 1 : m = 0
        BY <3>1
      <4> QED BY <1>4, <4>2, <4>3 DEF PointedWay
    <3> QED BY <1>3, <3>1
  <2>2. column.shape = own
    BY <1>7, <1>9, PlainTuple
  <2>3. column.shape = LoweredNode(row.ty[column.path]).shape
    BY <1>1, <1>7, <2>2 DEF own
  <2>4. column.kind = "TupleStatic"
    BY <1>7, <1>9
  <2>5. \A m \in 0 .. Len(column.path) - 1 : Pointed(Spine(row.ty, column.path, m))
    BY <1>7, <2>1 DEF PointedWay, Spine
  <2>6. OwnColumn(row, column)
    BY <1>8, <2>3, <2>4, <2>5 DEF OwnColumn
  <2> QED BY <1>6, <2>6
<1>10. CASE ParentKind(parent) # "TupleStatic"
  <2>1. Len(p) = 1 /\ parent = RootShape(row)
    BY <1>3, <1>10, BareIsStatic
  <2>2. column.parent_access = parent.inner_access
    BY <1>7, <1>10, PlainTuple
  <2>3. column.shape = Compose(parent, LoweredNode(row.ty[column.path]).shape)
    BY <1>1, <1>7 DEF own
  <2>4. TupleColumn(row, column)
    BY <1>7, <1>8, <1>10, <2>1, <2>2, <2>3 DEF TupleColumn, RootShape
  <2> QED BY <1>6, <2>4
<1> QED BY <1>9, <1>10

-----------------------------------------------------------------------------
(* The invariant of the specification.                                     *)

IsList(s) == s \in Seq({s[k] : k \in DOMAIN s})

GrownBy(s, x, t) ==
  /\ Len(s) \in Nat /\ DOMAIN s = 1 .. Len(s)
  /\ IsList(t) /\ Len(t) = Len(s) + 1 /\ DOMAIN t = 1 .. Len(s) + 1
  /\ \A k \in DOMAIN s : t[k] = s[k]
  /\ t[Len(s) + 1] = x

(* A list has its indexes.                                                 *)
LEMMA ListHas ==
  ASSUME NEW s, IsList(s)
  PROVE  Len(s) \in Nat /\ DOMAIN s = 1 .. Len(s)
BY DEF IsList

(* A function on the first m numbers is a sequence.                        *)
LEMMA FunctionIsList ==
  ASSUME NEW m \in Nat, NEW T, NEW t \in [1 .. m -> T]
  PROVE  t \in Seq(T)
OBVIOUS

(* A list with one more item.                                              *)
LEMMA ListGrown ==
  ASSUME NEW s, IsList(s), NEW x, NEW t, t = Append(s, x)
  PROVE  GrownBy(s, x, t)
<1>1. PICK S : S = {s[k] : k \in DOMAIN s} \union {x}
  OBVIOUS
<1>2. PICK R : R = {s[k] : k \in DOMAIN s}
  OBVIOUS
<1>3. s \in Seq(R) /\ \A k \in DOMAIN s : s[k] \in S
  BY <1>1, <1>2 DEF IsList
<1>4. PICK n : n = Len(s)
  OBVIOUS
<1>5. n \in Nat /\ DOMAIN s = 1 .. n /\ s = [k \in 1 .. n |-> s[k]]
  BY <1>3, <1>4
<1>6. s \in [1 .. n -> S]
  BY <1>3, <1>5
<1>7. s \in Seq(S) /\ x \in S
  BY <1>1, <1>5, <1>6
<1>8. /\ t \in Seq(S) /\ Len(t) = n + 1 /\ DOMAIN t = 1 .. n + 1
      /\ (\A k \in 1 .. n : t[k] = s[k]) /\ t[n + 1] = x
  BY <1>4, <1>5, <1>7
<1>9. IsList(t)
  <2>1. PICK T : T = {t[k] : k \in DOMAIN t}
    OBVIOUS
  <2>2. t = [k \in 1 .. n + 1 |-> t[k]] /\ \A k \in 1 .. n + 1 : t[k] \in T
    BY <1>5, <1>8, <2>1
  <2>3. t \in [1 .. n + 1 -> T]
    BY <2>2
  <2>4. PICK m : m = n + 1
    OBVIOUS
  <2>5. m \in Nat /\ t \in [1 .. m -> T]
    BY <1>5, <2>3, <2>4
  <2>6. t \in Seq(T)
    BY <2>5, FunctionIsList
  <2> QED BY <2>1, <2>6 DEF IsList
<1> QED BY <1>4, <1>5, <1>8, <1>9 DEF GrownBy

(* The columns are as a tuple or the field itself gives them.              *)
Proper(of, cs) == \A k \in DOMAIN cs : OwnColumn(of, cs[k]) \/ TupleColumn(of, cs[k])

(* The cells so far, of the first columns.                                 *)
CellsRead(of, cs, ds) ==
  /\ Len(ds) <= Len(cs)
  /\ \A k \in DOMAIN ds : Reads(ds[k], of, cs[k].path)

(* A field is projected as long as it is there, and an element waits only  *)
(* while it is; every column is proper, which is what reading it takes.    *)
IInv ==
  /\ IsRow(row)
  /\ fields = <<LoweredField(row.ty)>> \/ fields = <<>>
  /\ elements \in Seq(WaitingElements(row))
  /\ elements # <<>> => fields # <<>>
  /\ IsList(columns) /\ Proper(row, columns)
  /\ IsList(cells) /\ CellsRead(row, columns, cells)

(* One more proper column leaves what was read.                            *)
LEMMA ColumnsGrown ==
  ASSUME NEW of, NEW cs, IsList(cs), Proper(of, cs), NEW ds, IsList(ds), CellsRead(of, cs, ds),
         NEW column, OwnColumn(of, column) \/ TupleColumn(of, column),
         NEW grown, grown = Append(cs, column)
  PROVE  IsList(grown) /\ Proper(of, grown) /\ CellsRead(of, grown, ds)
<1>1. /\ Len(cs) \in Nat /\ DOMAIN cs = 1 .. Len(cs)
      /\ IsList(grown) /\ Len(grown) = Len(cs) + 1 /\ DOMAIN grown = 1 .. Len(cs) + 1
      /\ \A k \in DOMAIN cs : grown[k] = cs[k]
      /\ grown[Len(cs) + 1] = column
  <2>1. GrownBy(cs, column, grown)
    BY ListGrown
  <2> QED BY <2>1 DEF GrownBy
<1>2. Len(ds) \in Nat /\ DOMAIN ds = 1 .. Len(ds)
  BY ListHas
<1>3. PICK n, m : n = Len(cs) /\ m = Len(ds)
  OBVIOUS
<1>4. \A k \in DOMAIN grown : k \in DOMAIN cs \/ k = Len(cs) + 1
  BY <1>1
<1>5. Proper(of, grown)
  <2> SUFFICES ASSUME NEW k \in DOMAIN grown
               PROVE  OwnColumn(of, grown[k]) \/ TupleColumn(of, grown[k])
    BY DEF Proper
  <2>1. CASE k \in DOMAIN cs
    BY <1>1, <2>1, Zenon DEF Proper
  <2>2. CASE k = Len(cs) + 1
    BY <1>1, <2>2, Zenon
  <2> QED BY <1>4, <2>1, <2>2
<1>6. m <= n
  BY <1>3 DEF CellsRead
<1>7. Len(ds) <= Len(grown) /\ \A k \in DOMAIN ds : k \in DOMAIN cs
  BY <1>1, <1>2, <1>3, <1>6
<1>8. \A k \in DOMAIN ds : Reads(ds[k], of, grown[k].path)
  <2> SUFFICES ASSUME NEW k \in DOMAIN ds PROVE Reads(ds[k], of, grown[k].path)
    OBVIOUS
  <2>1. grown[k] = cs[k] /\ Reads(ds[k], of, cs[k].path)
    BY <1>1, <1>7, Zenon DEF CellsRead
  <2> QED BY <2>1
<1> QED BY <1>1, <1>5, <1>7, <1>8 DEF CellsRead

(* One more column has been read.                                          *)
LEMMA CellsGrown ==
  ASSUME NEW of, NEW cs, IsList(cs), NEW ds, IsList(ds), CellsRead(of, cs, ds), Len(ds) < Len(cs),
         NEW cell, Reads(cell, of, cs[Len(ds) + 1].path), NEW grown, grown = Append(ds, cell)
  PROVE  IsList(grown) /\ CellsRead(of, cs, grown)
<1>1. /\ Len(ds) \in Nat /\ DOMAIN ds = 1 .. Len(ds)
      /\ IsList(grown) /\ Len(grown) = Len(ds) + 1 /\ DOMAIN grown = 1 .. Len(ds) + 1
      /\ \A k \in DOMAIN ds : grown[k] = ds[k]
      /\ grown[Len(ds) + 1] = cell
  <2>1. GrownBy(ds, cell, grown)
    BY ListGrown
  <2> QED BY <2>1 DEF GrownBy
<1>2. Len(cs) \in Nat
  BY ListHas
<1>3. PICK n, m : n = Len(cs) /\ m = Len(ds)
  OBVIOUS
<1>4. n \in Nat /\ m \in Nat /\ m < n
  BY <1>1, <1>2, <1>3
<1>5. m + 1 <= n
  BY <1>4
<1>6. Len(grown) <= Len(cs)
  BY <1>1, <1>3, <1>5
<1>7. \A k \in DOMAIN grown : k \in DOMAIN ds \/ k = Len(ds) + 1
  BY <1>1
<1>8. ASSUME NEW k \in DOMAIN grown PROVE Reads(grown[k], of, cs[k].path)
  <2>1. CASE k \in DOMAIN ds
    <3>1. grown[k] = ds[k] /\ Reads(ds[k], of, cs[k].path)
      BY <1>1, <2>1, Zenon DEF CellsRead
    <3> QED BY <3>1
  <2>2. CASE k = Len(ds) + 1
    BY <1>1, <2>2, Zenon
  <2> QED BY <1>7, <2>1, <2>2
<1> QED BY <1>1, <1>6, <1>8 DEF CellsRead

(* What a step of the projection finds.                                    *)
LEMMA InTree ==
  ASSUME IInv, fields # <<>>
  PROVE  TreeIs(row) /\ IsRow(row) /\ fields = <<LoweredField(row.ty)>> /\ Tail(fields) = <<>>
<1>1. IsRow(row) /\ fields = <<LoweredField(row.ty)>>
  BY DEF IInv
<1>2. Tail(fields) = <<>>
  BY <1>1
<1> QED BY <1>1, <1>2, CurrentTree

(* The element whose turn it is, and those that go on waiting.             *)
LEMMA FirstWaiting ==
  ASSUME IInv, elements # <<>>
  PROVE  /\ Head(elements) \in WaitingElements(row) /\ Tail(elements) \in Seq(WaitingElements(row))
         /\ fields # <<>>
<1>1. PICK S : S = WaitingElements(row)
  OBVIOUS
<1>2. elements \in Seq(S) /\ elements # <<>> /\ fields # <<>>
  BY <1>1 DEF IInv
<1>3. Head(elements) \in S /\ Tail(elements) \in Seq(S)
  BY <1>2
<1> QED BY <1>1, <1>2, <1>3

(* The projection finds a tuple where the type has one.                    *)
LEMMA IsTupleThere ==
  ASSUME IInv, fields # <<>>, NEW p \in DOMAIN row.ty
  PROVE  P!IsTuple(p) <=> row.ty[p].base = "Tuple"
<1>1. TreeIs(row)
  BY InTree
<1> QED BY <1>1 DEF TreeIs

(* Projecting a field without a tuple keeps the invariant.                 *)
LEMMA ProjectFieldKeeps ==
  ASSUME IInv, P!ProjectField, row' = row, cells' = cells
  PROVE  IInv'
<1>1. /\ fields # <<>> /\ elements = <<>> /\ ~P!IsTuple(<<>>)
      /\ columns' = Append(columns, P!FieldColumn) /\ fields' = Tail(fields) /\ elements' = elements
  BY DEF P!ProjectField
<1>2. TreeIs(row) /\ IsRow(row) /\ Tail(fields) = <<>>
  BY <1>1, InTree
<1>3. <<>> \in DOMAIN row.ty
  BY <1>2 DEF IsRow, IsFieldType
<1>4. row.ty[<<>>].base # "Tuple"
  BY <1>1, <1>3, IsTupleThere
<1>5. OwnColumn(row, P!FieldColumn)
  BY <1>2, <1>4, FieldColumnProper
<1>6. IsList(columns) /\ Proper(row, columns) /\ IsList(cells) /\ CellsRead(row, columns, cells)
      /\ elements \in Seq(WaitingElements(row))
  BY DEF IInv
<1>7. PICK cs, column : cs = columns' /\ column = P!FieldColumn
  OBVIOUS
<1>8. IsList(cs) /\ Proper(row, cs) /\ CellsRead(row, cs, cells)
  <2>1. cs = Append(columns, column) /\ OwnColumn(row, column)
    BY <1>1, <1>5, <1>7
  <2> QED BY <1>6, <2>1, ColumnsGrown
<1>9. fields' = <<>> /\ elements' = <<>> /\ elements' \in Seq(WaitingElements(row))
  BY <1>1, <1>2, <1>6
<1> QED BY <1>2, <1>6, <1>7, <1>8, <1>9 DEF IInv

(* Opening the field's tuple keeps the invariant.                          *)
LEMMA OpenTupleKeeps ==
  ASSUME IInv, P!OpenTuple, row' = row, cells' = cells
  PROVE  IInv'
<1>1. /\ fields # <<>> /\ elements = <<>> /\ P!IsTuple(<<>>)
      /\ elements' = P!ElementsOf(<<>>, P!Tree[<<>>].shape) /\ fields' = fields /\ columns' = columns
  BY DEF P!OpenTuple
<1>2. TreeIs(row) /\ IsRow(row) /\ fields = <<LoweredField(row.ty)>>
  BY <1>1, InTree
<1>3. <<>> \in DOMAIN row.ty
  BY <1>2 DEF IsRow, IsFieldType
<1>4. row.ty[<<>>].base = "Tuple" /\ P!Tree[<<>>].shape = RootShape(row)
  <2>1. row.ty[<<>>].base = "Tuple"
    BY <1>1, <1>3, IsTupleThere
  <2>2. P!Tree[<<>>] = LoweredNode(row.ty[<<>>])
    BY <1>2, <1>3 DEF TreeIs
  <2> QED BY <2>1, <2>2 DEF RootShape
<1>5. P!ElementsOf(<<>>, RootShape(row)) \in Seq(WaitingElements(row))
  <2>1. PICK p, parent : p = <<>> /\ parent = RootShape(row)
    OBVIOUS
  <2>2. P!ElementsOf(p, parent) \in Seq(WaitingElements(row))
    BY <1>2, <1>3, <1>4, <2>1, OpenedElements
  <2> QED BY <2>1, <2>2
<1>6. elements' \in Seq(WaitingElements(row))
  BY <1>1, <1>4, <1>5
<1> QED BY <1>1, <1>2, <1>6 DEF IInv

(* Projecting an element keeps the invariant.                              *)
LEMMA ProjectElementKeeps ==
  ASSUME IInv, P!ProjectElement, row' = row, cells' = cells
  PROVE  IInv'
<1>1. /\ elements # <<>> /\ ~P!IsTuple(Head(elements).path)
      /\ columns' = Append(columns, P!ElementColumn(Head(elements)))
      /\ elements' = Tail(elements)
      /\ fields' = IF elements' = <<>> THEN Tail(fields) ELSE fields
  BY DEF P!ProjectElement
<1>2. /\ Head(elements) \in WaitingElements(row) /\ Tail(elements) \in Seq(WaitingElements(row))
      /\ fields # <<>>
  BY <1>1, FirstWaiting
<1>3. TreeIs(row) /\ IsRow(row) /\ fields = <<LoweredField(row.ty)>> /\ Tail(fields) = <<>>
  BY <1>2, InTree
<1>4. PICK e : e = Head(elements)
  OBVIOUS
<1>5. e \in WaitingElements(row) /\ e.path \in DOMAIN row.ty /\ ~P!IsTuple(e.path)
  BY <1>1, <1>2, <1>4 DEF WaitingElements
<1>6. row.ty[e.path].base # "Tuple"
  BY <1>2, <1>5, IsTupleThere
<1>7. PICK column : column = P!ElementColumn(e)
  OBVIOUS
<1>8. OwnColumn(row, column) \/ TupleColumn(row, column)
  BY <1>3, <1>5, <1>6, <1>7, ElementColumnProper
<1>9. IsList(columns) /\ Proper(row, columns) /\ IsList(cells) /\ CellsRead(row, columns, cells)
  BY DEF IInv
<1>10. PICK cs : cs = columns'
  OBVIOUS
<1>11. IsList(cs) /\ Proper(row, cs) /\ CellsRead(row, cs, cells)
  <2>1. cs = Append(columns, column)
    BY <1>1, <1>4, <1>7, <1>10
  <2> QED BY <1>8, <1>9, <2>1, ColumnsGrown
<1>12. fields' = fields \/ (fields' = <<>> /\ elements' = <<>>)
  BY <1>1, <1>3
<1>13. elements' \in Seq(WaitingElements(row))
  BY <1>1, <1>2
<1>14. /\ fields' = <<LoweredField(row.ty)>> \/ fields' = <<>>
       /\ elements' # <<>> => fields' # <<>>
  BY <1>2, <1>3, <1>12
<1> QED BY <1>3, <1>9, <1>10, <1>11, <1>13, <1>14 DEF IInv

(* Opening a tuple in a tuple keeps the invariant.                         *)
LEMMA OpenNestedTupleKeeps ==
  ASSUME IInv, P!OpenNestedTuple, row' = row, cells' = cells
  PROVE  IInv'
<1>1. /\ elements # <<>> /\ P!IsTuple(Head(elements).path)
      /\ elements' = P!ElementsOf(Head(elements).path, P!Bare) \o Tail(elements)
      /\ fields' = fields /\ columns' = columns
  BY DEF P!OpenNestedTuple
<1>2. /\ Head(elements) \in WaitingElements(row) /\ Tail(elements) \in Seq(WaitingElements(row))
      /\ fields # <<>>
  BY <1>1, FirstWaiting
<1>3. TreeIs(row) /\ IsRow(row) /\ fields = <<LoweredField(row.ty)>>
  BY <1>2, InTree
<1>4. PICK e, p, parent : e = Head(elements) /\ p = e.path /\ parent = Bare
  OBVIOUS
<1>5. e \in WaitingElements(row) /\ p \in DOMAIN row.ty /\ P!IsTuple(p)
  BY <1>1, <1>2, <1>4 DEF WaitingElements
<1>6. row.ty[p].base = "Tuple"
  BY <1>2, <1>5, IsTupleThere
<1>7. parent = Bare /\ \E w \in WaitingElements(row) : w.path = p
  BY <1>4, <1>5
<1>8. P!ElementsOf(p, parent) \in Seq(WaitingElements(row))
  BY <1>3, <1>5, <1>6, <1>7, OpenedElements
<1>9. P!Bare = Bare
  BY SameProjection
<1>10. PICK S, opened, rest : S = WaitingElements(row) /\ opened = P!ElementsOf(p, parent) /\ rest = Tail(elements)
  OBVIOUS
<1>11. opened \in Seq(S) /\ rest \in Seq(S)
  BY <1>2, <1>8, <1>10
<1>12. opened \o rest \in Seq(S)
  BY <1>11
<1>13. elements' = opened \o rest
  BY <1>1, <1>4, <1>9, <1>10
<1>14. elements' \in Seq(WaitingElements(row))
  BY <1>10, <1>12, <1>13
<1> QED BY <1>1, <1>2, <1>3, <1>14 DEF IInv

(* Reading a column keeps the invariant.                                   *)
LEMMA ReadColumnKeeps ==
  ASSUME IInv, ReadColumn
  PROVE  IInv'
<1>1. /\ Len(cells) < Len(columns) /\ cells' = Append(cells, Cell(columns[Len(cells) + 1]))
      /\ row' = row /\ fields' = fields /\ elements' = elements /\ columns' = columns
  BY DEF ReadColumn, projectVars
<1>2. IsList(columns) /\ Proper(row, columns) /\ IsList(cells) /\ CellsRead(row, columns, cells)
  BY DEF IInv
<1>3. Len(cells) + 1 \in DOMAIN columns
  <2>1. Len(columns) \in Nat /\ DOMAIN columns = 1 .. Len(columns)
    BY <1>2, ListHas
  <2>2. Len(cells) \in Nat
    BY <1>2, ListHas
  <2> QED BY <1>1, <2>1, <2>2
<1>4. PICK column : column = columns[Len(cells) + 1]
  OBVIOUS
<1>5. OwnColumn(row, column) \/ TupleColumn(row, column)
  BY <1>2, <1>3, <1>4 DEF Proper
<1>6. Reads(Cell(column), row, column.path)
  BY <1>5, OwnColumnReads, TupleColumnReads
<1>7. PICK ds, cell : ds = cells' /\ cell = Cell(column)
  OBVIOUS
<1>8. IsList(ds) /\ CellsRead(row, columns, ds)
  <2>1. ds = Append(cells, cell)
    BY <1>1, <1>4, <1>7
  <2>2. Reads(cell, row, columns[Len(cells) + 1].path)
    BY <1>4, <1>6, <1>7
  <2> QED BY <1>1, <1>2, <2>1, <2>2, CellsGrown
<1> QED BY <1>1, <1>7, <1>8 DEF IInv

(* A list that nothing is in yet.                                          *)
LEMMA EmptyList == IsList(<<>>) /\ Len(<<>>) = 0 /\ DOMAIN <<>> = {}
<1>1. Len(<<>>) = 0 /\ DOMAIN <<>> = {} /\ \A S : <<>> \in Seq(S)
  OBVIOUS
<1> QED BY <1>1 DEF IsList

(* The invariant holds of every field before it is projected.              *)
LEMMA InitHolds ==
  ASSUME Init
  PROVE  IInv
<1>1. /\ \E ty \in Types : \E v \in ValuesOf(ty) : row = [ty |-> ty, value |-> v]
      /\ fields = <<LoweredField(row.ty)>> /\ elements = <<>> /\ columns = <<>> /\ cells = <<>>
  BY DEF Init
<1>2. PICK ty \in Types : \E v \in ValuesOf(ty) : row = [ty |-> ty, value |-> v]
  BY <1>1
<1>3. PICK v \in ValuesOf(ty) : row = [ty |-> ty, value |-> v]
  BY <1>2
<1>4. IsRow(row)
  <2>1. row.ty = ty /\ row.value = v
    BY <1>3
  <2> QED BY <2>1, TypesAssumption DEF IsRow
<1>5. IsList(<<>>) /\ Len(<<>>) = 0 /\ DOMAIN <<>> = {} /\ <<>> \in Seq(WaitingElements(row))
  BY EmptyList
<1>6. Proper(row, <<>>) /\ CellsRead(row, <<>>, <<>>)
  BY <1>5 DEF Proper, CellsRead
<1> QED BY <1>1, <1>4, <1>5, <1>6 DEF IInv

(* The invariant of the reading: the elements that wait are elements of    *)
(* the field's tuples with nothing but pointers where their wrappers are   *)
(* left out, every column is a proper one, and every cell so far has what  *)
(* the path to its leaf means.                                             *)
THEOREM IInvHolds == Spec => []IInv
<1>1. Init => IInv
  BY InitHolds
<1>2. IInv /\ [Next]_vars => IInv'
  <2> SUFFICES ASSUME IInv, [Next]_vars PROVE IInv'
    OBVIOUS
  <2>1. CASE Project
    <3>1. P!Next /\ row' = row /\ cells' = cells
      BY <2>1 DEF Project
    <3>2. CASE P!ProjectField
      BY <3>1, <3>2, ProjectFieldKeeps
    <3>3. CASE P!OpenTuple
      BY <3>1, <3>3, OpenTupleKeeps
    <3>4. CASE P!ProjectElement
      BY <3>1, <3>4, ProjectElementKeeps
    <3>5. CASE P!OpenNestedTuple
      BY <3>1, <3>5, OpenNestedTupleKeeps
    <3> QED BY <3>1, <3>2, <3>3, <3>4, <3>5 DEF P!Next
  <2>2. CASE ReadColumn
    BY <2>2, ReadColumnKeeps
  <2>3. CASE UNCHANGED vars
    <3>1. row' = row /\ fields' = fields /\ elements' = elements /\ columns' = columns /\ cells' = cells
      BY <2>3 DEF vars, projectVars
    <3> QED BY <3>1 DEF IInv
  <2> QED BY <2>1, <2>2, <2>3 DEF Next
<1> QED BY <1>1, <1>2, PTL DEF Spec

(* Every column of every field, under every stack of wrappers, reads what  *)
(* the path to its leaf means: each loop of the generated code undoes its  *)
(* part of the chains, and every expression in it has a type.              *)
THEOREM ColumnsReadRowHolds == Spec => []ColumnsReadRow
<1>1. IInv => ColumnsReadRow
  BY DEF IInv, CellsRead, ColumnsReadRow
<1> QED BY <1>1, IInvHolds, PTL
=============================================================================
