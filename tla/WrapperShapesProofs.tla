------------------------ MODULE WrapperShapesProofs ------------------------
(***************************************************************************)
(* Lemmas about wrapper shapes: normalising and composing give shapes that *)
(* count an Option at a boundary exactly when the chain there has one, and *)
(* composing puts the tuple's chain in front of the element's.             *)
(***************************************************************************)
EXTENDS WrapperShapes, FiniteSetTheorems, TLAPS

GoodShape(shape) == shape \in Shapes /\ Consistent(shape)
GoodNorm(norm) ==
  /\ norm = [layers |-> norm.layers, pending |-> norm.pending]
  /\ norm.layers \in Seq(Layers) /\ norm.pending \in Chains
  /\ \A k \in DOMAIN norm.layers : ConsistentLayer(norm.layers[k])

LEMMA OptionCount ==
  ASSUME NEW chain \in Chains
  PROVE  OptionLayers(chain) \in Nat /\ (OptionLayers(chain) > 0 <=> HasOption(chain))
<1> DEFINE S == {i \in DOMAIN chain : chain[i] = "Option"}
<1>1. IsFiniteSet(1 .. Len(chain)) /\ S \subseteq 1 .. Len(chain)
  BY FS_Interval DEF Chains
<1>2. IsFiniteSet(S)
  BY <1>1, FS_Subset
<1>3. Cardinality(S) \in Nat /\ (Cardinality(S) = 0 <=> S = {})
  BY <1>2, FS_CardinalityType, FS_EmptySet
<1>4. HasOption(chain) <=> S # {}
  BY DEF HasOption
<1> HIDE DEF S
<1>5. OptionLayers(chain) = Cardinality(S)
  BY DEF OptionLayers, S
<1> QED BY <1>3, <1>4, <1>5

LEMMA ConcatOption ==
  ASSUME NEW a \in Chains, NEW b \in Chains
  PROVE  a \o b \in Chains /\ (HasOption(a \o b) <=> HasOption(a) \/ HasOption(b))
<1>1. a \in Seq(AccessSteps) /\ b \in Seq(AccessSteps)
  BY DEF Chains
<1>2. /\ a \o b \in Seq(AccessSteps) /\ Len(a \o b) = Len(a) + Len(b)
      /\ \A i \in 1 .. Len(a \o b) :
           (a \o b)[i] = IF i <= Len(a) THEN a[i] ELSE b[i - Len(a)]
  BY <1>1
<1>3. ASSUME HasOption(a \o b) PROVE HasOption(a) \/ HasOption(b)
  <2>1. PICK i \in 1 .. Len(a \o b) : (a \o b)[i] = "Option"
    BY <1>2, <1>3 DEF HasOption
  <2>2. CASE i <= Len(a)
    <3>1. i \in DOMAIN a /\ a[i] = "Option"
      BY <1>1, <1>2, <2>1, <2>2
    <3> QED BY <3>1 DEF HasOption
  <2>3. CASE i > Len(a)
    <3>1. i - Len(a) \in DOMAIN b /\ b[i - Len(a)] = "Option"
      BY <1>1, <1>2, <2>1, <2>3
    <3> QED BY <3>1 DEF HasOption
  <2> QED BY <1>1, <2>2, <2>3
<1>4. ASSUME HasOption(a) PROVE HasOption(a \o b)
  <2>1. PICK i \in DOMAIN a : a[i] = "Option"
    BY <1>4 DEF HasOption
  <2>2. i \in DOMAIN (a \o b) /\ (a \o b)[i] = "Option"
    BY <1>1, <1>2, <2>1
  <2> QED BY <2>2 DEF HasOption
<1>5. ASSUME HasOption(b) PROVE HasOption(a \o b)
  <2>1. PICK i \in DOMAIN b : b[i] = "Option"
    BY <1>5 DEF HasOption
  <2>2. Len(a) + i \in DOMAIN (a \o b) /\ (a \o b)[Len(a) + i] = "Option"
    BY <1>1, <1>2, <2>1
  <2> QED BY <2>2 DEF HasOption
<1> QED BY <1>2, <1>3, <1>4, <1>5 DEF Chains

LEMMA ConcatPrefix ==
  ASSUME NEW a \in Seq(AccessSteps), NEW b \in Seq(AccessSteps), NEW s, s = a \o b
  PROVE  Len(a) <= Len(s) /\ SubSeq(s, 1, Len(a)) = a
<1> DEFINE start == SubSeq(s, 1, Len(a))
<1>1. s \in Seq(AccessSteps) /\ Len(s) = Len(a) + Len(b) /\ \A i \in 1 .. Len(a) : s[i] = a[i]
  OBVIOUS
<1>2. start \in Seq(AccessSteps) /\ Len(start) = Len(a) /\ \A i \in 1 .. Len(a) : start[i] = s[i]
  BY <1>1
<1> HIDE DEF start
<1>3. start = a
  BY <1>1, <1>2
<1>4. Len(a) <= Len(s)
  BY <1>1
<1> QED BY <1>3, <1>4 DEF start

LEMMA PrependedOption ==
  ASSUME NEW chain \in Chains
  PROVE  PrependOption(chain) \in Chains /\ HasOption(PrependOption(chain))
<1>1. <<"Option">> \in Chains /\ HasOption(<<"Option">>)
  BY DEF Chains, AccessSteps, HasOption
<1> QED BY <1>1, ConcatOption DEF PrependOption

-----------------------------------------------------------------------------
(* Induction over the natural numbers, by a least counterexample.          *)

LEMMA LessWellFounded == IsWellFoundedOn({ss \in Nat \X Nat : ss[1] < ss[2]}, Nat)
BY NatLessThanWellFounded DEF OpToRel

LEMMA LeastNatural ==
  ASSUME NEW T, T \subseteq Nat, T # {}
  PROVE  \E x \in T : \A y \in T : x <= y
<1> DEFINE R == {ss \in Nat \X Nat : ss[1] < ss[2]}
<1>1. IsWellFoundedOn(R, Nat)
  BY LessWellFounded
<1>2. \A x, y \in Nat : <<y, x>> \in R <=> y < x
  OBVIOUS
<1> HIDE DEF R
<1>3. \E x \in T : \A y \in T : ~(<<y, x>> \in R)
  BY <1>1, WFMin, Zenon
<1>4. PICK x \in T : \A y \in T : ~(<<y, x>> \in R)
  BY <1>3
<1>5. ASSUME NEW y \in T PROVE x <= y
  <2>1. ~(y < x) /\ x \in Nat /\ y \in Nat
    BY <1>2, <1>4
  <2> QED BY <2>1
<1> QED BY <1>5

(* What starts a sequence.                                                 *)
LEMMA StartOf ==
  ASSUME NEW S, NEW s \in Seq(S), NEW n \in 0 .. Len(s)
  PROVE  /\ SubSeq(s, 1, n) \in Seq(S) /\ Len(SubSeq(s, 1, n)) = n
         /\ \A i \in 1 .. n : SubSeq(s, 1, n)[i] = s[i]
         /\ DOMAIN SubSeq(s, 1, n) = 1 .. n
OBVIOUS

LEMMA LastOfStart ==
  ASSUME NEW S, NEW s \in Seq(S), s # <<>>
  PROVE  /\ Len(s) \in Nat \ {0} /\ Len(s) - 1 \in 0 .. Len(s) /\ s[Len(s)] \in S
         /\ SubSeq(s, 1, Len(s) - 1) \in Seq(S) /\ Len(SubSeq(s, 1, Len(s) - 1)) = Len(s) - 1
         /\ s = Append(SubSeq(s, 1, Len(s) - 1), s[Len(s)])
<1>1. Len(s) \in Nat \ {0} /\ Len(s) - 1 \in 0 .. Len(s) /\ s[Len(s)] \in S
  OBVIOUS
<1> DEFINE t == SubSeq(s, 1, Len(s) - 1)
<1>2. /\ t \in Seq(S) /\ Len(t) = Len(s) - 1
      /\ \A i \in 1 .. Len(s) - 1 : t[i] = s[i]
  BY <1>1, StartOf
<1> HIDE DEF t
<1>3. Append(t, s[Len(s)]) = s
  BY <1>1, <1>2
<1> QED BY <1>1, <1>2, <1>3 DEF t

LEMMA Single ==
  ASSUME NEW S, NEW s \in Seq(S), NEW x
  PROVE  s = <<x>> <=> Len(s) = 1 /\ s[1] = x
<1>1. ASSUME Len(s) = 1, s[1] = x PROVE s = <<x>>
  <2>1. PICK t : t = <<x>>
    OBVIOUS
  <2>2. x \in S
    BY <1>1
  <2>3. t \in Seq(S) /\ Len(t) = 1 /\ t[1] = x
    BY <2>1, <2>2
  <2>4. \A i \in 1 .. 1 : s[i] = t[i]
    BY <1>1, <2>3
  <2>5. s = t
    BY <1>1, <2>3, <2>4
  <2> QED BY <2>1, <2>5
<1> QED BY <1>1

LEMMA OneStep ==
  ASSUME NEW S, NEW s \in Seq(S), Len(s) = 1
  PROVE  s # <<>> /\ SubSeq(s, 1, Len(s) - 1) = <<>>
<1>1. Len(s) - 1 = 0 /\ 0 \in 0 .. Len(s)
  OBVIOUS
<1>2. SubSeq(s, 1, 0) \in Seq(S) /\ Len(SubSeq(s, 1, 0)) = 0
  BY <1>1, StartOf
<1>3. SubSeq(s, 1, 0) = <<>>
  <2>1. \A t \in Seq(S) : Len(t) = 0 => t = <<>>
    OBVIOUS
  <2> QED BY <1>2, <2>1, Zenon
<1> QED BY <1>1, <1>3

LEMMA HeadAndTail ==
  ASSUME NEW S, NEW s \in Seq(S), s # <<>>
  PROVE  /\ Head(s) = s[1] /\ 1 \in DOMAIN s /\ Head(s) \in S
         /\ Tail(s) \in Seq(S) /\ Len(Tail(s)) = Len(s) - 1 /\ Len(s) \in Nat \ {0}
         /\ DOMAIN s = 1 .. Len(s)
         /\ Tail(s) = <<>> <=> Len(s) <= 1
         /\ Tail(s) = <<>> => DOMAIN s = {1}
         /\ \A i \in 1 .. Len(s) - 1 : Tail(s)[i] = s[i + 1]
<1>1. /\ Len(s) \in Nat \ {0} /\ DOMAIN s = 1 .. Len(s) /\ Head(s) = s[1] /\ Head(s) \in S
      /\ Tail(s) \in Seq(S) /\ Len(Tail(s)) = Len(s) - 1
      /\ \A i \in 1 .. Len(s) - 1 : Tail(s)[i] = s[i + 1]
  OBVIOUS
<1>2. Tail(s) = <<>> <=> Len(Tail(s)) = 0
  <2>1. PICK t : t = Tail(s)
    OBVIOUS
  <2>2. t \in Seq(S)
    BY <1>1, <2>1, Zenon
  <2>3. t = <<>> <=> Len(t) = 0
    BY <2>2
  <2> QED BY <2>1, <2>3, Zenon
<1>3. Len(s) = 1 => DOMAIN s = {1}
  BY <1>1
<1> QED BY <1>1, <1>2, <1>3

(* One step of a sequence that is read from the front.                     *)
(* A chain that is one step longer.                                        *)
LEMMA AppendedOption ==
  ASSUME NEW s \in Seq(AccessSteps), NEW x \in AccessSteps
  PROVE  HasOption(Append(s, x)) <=> HasOption(s) \/ x = "Option"
<1> DEFINE n == Len(s)
           t == Append(s, x)
<1>1. /\ n \in Nat /\ DOMAIN s = 1 .. n /\ DOMAIN t = 1 .. n + 1 /\ t[n + 1] = x
      /\ \A i \in 1 .. n : t[i] = s[i]
  OBVIOUS
<1> HIDE DEF n, t
<1>2. HasOption(t) <=> HasOption(s) \/ x = "Option"
  BY <1>1 DEF HasOption
<1> QED BY <1>2 DEF t

LEMMA ConcatMove ==
  ASSUME NEW S, NEW s \in Seq(S), NEW r \in Seq(S), r # <<>>
  PROVE  /\ Head(r) \in S /\ Tail(r) \in Seq(S) /\ Append(s, Head(r)) \in Seq(S)
         /\ s \o r = Append(s, Head(r)) \o Tail(r)
         /\ Len(s) + 1 \in DOMAIN (s \o r) /\ (s \o r)[Len(s) + 1] = Head(r)
         /\ Len(r) = 1 <=> Tail(r) = <<>>
         /\ Len(r) = 1 => s \o r = Append(s, Head(r))
<1>1. /\ Head(r) \in S /\ Tail(r) \in Seq(S) /\ Append(s, Head(r)) \in Seq(S)
      /\ Len(r) \in Nat \ {0} /\ Head(r) = r[1] /\ Len(s) \in Nat
      /\ Len(Tail(r)) = Len(r) - 1 /\ \A i \in 1 .. Len(r) - 1 : Tail(r)[i] = r[i + 1]
  OBVIOUS
<1> DEFINE t == Append(s, Head(r))
           u == Tail(r)
<1>2. /\ Len(t) = Len(s) + 1 /\ t \in Seq(S) /\ t[Len(s) + 1] = r[1]
      /\ \A i \in 1 .. Len(s) : t[i] = s[i]
      /\ u \in Seq(S) /\ Len(u) = Len(r) - 1 /\ \A i \in 1 .. Len(r) - 1 : u[i] = r[i + 1]
  BY <1>1
<1> HIDE DEF t, u
<1>3. s \o r = t \o u
  <2>0. Len(t) \in Nat /\ Len(u) \in Nat /\ Len(t) + Len(u) = Len(s) + Len(r)
    BY <1>1, <1>2
  <2>1. s \o r \in Seq(S) /\ t \o u \in Seq(S) /\ Len(s \o r) = Len(s) + Len(r) /\ Len(t \o u) = Len(s) + Len(r)
    <3>1. s \o r \in Seq(S) /\ Len(s \o r) = Len(s) + Len(r)
      OBVIOUS
    <3>2. t \o u \in Seq(S) /\ Len(t \o u) = Len(t) + Len(u)
      <4>1. t \in Seq(S) /\ u \in Seq(S)
        BY <1>2
      <4> QED BY <4>1
    <3> QED BY <2>0, <3>1, <3>2
  <2>2. ASSUME NEW i \in 1 .. Len(s) + Len(r) PROVE (s \o r)[i] = (t \o u)[i]
    <3>1. CASE i <= Len(s)
      BY <1>1, <1>2, <3>1
    <3>2. CASE i = Len(s) + 1
      BY <1>1, <1>2, <3>2
    <3>3. CASE i > Len(s) + 1
      <4>1. (s \o r)[i] = r[i - Len(s)]
        BY <1>1, <3>3
      <4>2. (t \o u)[i] = u[i - (Len(s) + 1)] /\ i - (Len(s) + 1) \in 1 .. Len(r) - 1
        BY <1>1, <1>2, <3>3
      <4>3. u[i - (Len(s) + 1)] = r[(i - (Len(s) + 1)) + 1]
        BY <1>2, <4>2
      <4>4. (i - (Len(s) + 1)) + 1 = i - Len(s)
        BY <1>1
      <4> QED BY <4>1, <4>2, <4>3, <4>4
    <3>4. i <= Len(s) \/ i = Len(s) + 1 \/ i > Len(s) + 1
      BY <1>1
    <3> QED BY <3>1, <3>2, <3>3, <3>4
  <2>3. PICK a, b : a = s \o r /\ b = t \o u
    OBVIOUS
  <2>4. /\ a \in Seq(S) /\ b \in Seq(S) /\ Len(a) = Len(b)
        /\ \A i \in 1 .. Len(a) : a[i] = b[i]
    BY <2>1, <2>2, <2>3
  <2>5. a = b
    BY <2>4
  <2> QED BY <2>3, <2>5, Zenon
<1>4. Len(s) + 1 \in DOMAIN (s \o r) /\ (s \o r)[Len(s) + 1] = Head(r)
  BY <1>1
<1>5. Len(r) = 1 <=> u = <<>>
  BY <1>1, <1>2
<1>6. u = <<>> => t \o u = t
  BY <1>2
<1> QED BY <1>1, <1>3, <1>4, <1>5, <1>6 DEF t, u

-----------------------------------------------------------------------------
(* The normalising loop.                                                   *)
LEMMA NormalStartGood == GoodNorm(NormalStart)
BY DEF GoodNorm, NormalStart, Chains

LEMMA NormalStepGood ==
  ASSUME NEW norm, GoodNorm(norm), NEW wrapper \in RawWrappers
  PROVE  GoodNorm(NormalStep(norm, wrapper))
<1> DEFINE next == NormalStep(norm, wrapper)
<1>1. CASE wrapper = "Vec"
  <2> DEFINE layer == [option_layers_above |-> OptionLayers(norm.pending), access |-> norm.pending]
  <2>1. layer \in Layers /\ ConsistentLayer(layer)
    BY OptionCount DEF GoodNorm, Layers, ConsistentLayer, HasOuterValidity
  <2> HIDE DEF layer
  <2>2. next = [layers |-> Append(norm.layers, layer), pending |-> <<>>]
    BY <1>1 DEF NormalStep, layer
  <2>3. next.layers \in Seq(Layers) /\ next.pending \in Chains
    BY <2>1, <2>2 DEF GoodNorm, Chains
  <2>4. ASSUME NEW k \in DOMAIN next.layers PROVE ConsistentLayer(next.layers[k])
    BY <2>1, <2>2 DEF GoodNorm
  <2> QED BY <2>2, <2>3, <2>4 DEF GoodNorm
<1>2. CASE wrapper # "Vec"
  <2>1. next = [layers |-> norm.layers, pending |-> Append(norm.pending, wrapper)]
    BY <1>2 DEF NormalStep, GoodNorm
  <2>2. Append(norm.pending, wrapper) \in Chains
    BY <1>2 DEF GoodNorm, Chains, RawWrappers
  <2> QED BY <2>1, <2>2 DEF GoodNorm
<1> QED BY <1>1, <1>2

LEMMA BareGood == GoodShape(Bare)
<1>1. Bare = [layers |-> <<>>, inner_option_layers |-> 0, inner_access |-> <<>>]
  BY DEF Bare, LeafShape
<1>2. ~HasOption(<<>>)
  BY DEF HasOption
<1> QED BY <1>1, <1>2 DEF GoodShape, Shapes, Chains, Consistent, HasInnerOption

LEMMA NormalEndGood ==
  ASSUME NEW norm, GoodNorm(norm)
  PROVE  GoodShape(NormalEnd(norm))
<1>1. OptionLayers(norm.pending) \in Nat /\ (OptionLayers(norm.pending) > 0 <=> HasOption(norm.pending))
  BY OptionCount DEF GoodNorm
<1>2. CASE norm.layers = <<>> /\ OptionLayers(norm.pending) = 0
  BY <1>2, BareGood DEF NormalEnd, FromOptionAccess
<1>3. CASE norm.layers # <<>> \/ OptionLayers(norm.pending) # 0
  <2>1. NormalEnd(norm) = [layers              |-> norm.layers,
                           inner_option_layers |-> OptionLayers(norm.pending),
                           inner_access        |-> norm.pending]
    BY <1>1, <1>3 DEF NormalEnd, FromOptionAccess, LeafShape
  <2> QED BY <1>1, <2>1 DEF GoodNorm, GoodShape, Shapes, Consistent, HasInnerOption
<1> QED BY <1>2, <1>3

-----------------------------------------------------------------------------
(* Composition.                                                            *)

LEMMA AddedToFirst ==
  ASSUME NEW layers \in Seq(Layers), layers # <<>>, NEW n \in Nat, NEW chain \in Chains,
         \A k \in DOMAIN layers : ConsistentLayer(layers[k]),
         HasOption(chain) <=> n + layers[1].option_layers_above > 0
  PROVE  /\ AddToFirst(layers, n, chain) \in Seq(Layers)
         /\ Len(AddToFirst(layers, n, chain)) = Len(layers)
         /\ \A k \in DOMAIN AddToFirst(layers, n, chain) :
              ConsistentLayer(AddToFirst(layers, n, chain)[k])
<1> DEFINE first == [option_layers_above |-> layers[1].option_layers_above + n, access |-> chain]
           added == AddToFirst(layers, n, chain)
<1>1. 1 \in DOMAIN layers /\ layers[1] \in Layers
  OBVIOUS
<1>2. first \in Layers /\ ConsistentLayer(first)
  BY <1>1 DEF Layers, ConsistentLayer, HasOuterValidity
<1> HIDE DEF first
<1>3. added = [layers EXCEPT ![1] = first]
  BY DEF AddToFirst, first
<1>4. added \in Seq(Layers) /\ Len(added) = Len(layers)
  BY <1>1, <1>2, <1>3
<1>5. ASSUME NEW k \in DOMAIN added PROVE ConsistentLayer(added[k])
  BY <1>1, <1>2, <1>3
<1> QED BY <1>4, <1>5

LEMMA FirstLayer ==
  ASSUME NEW shape, GoodShape(shape), IsVec(shape)
  PROVE  /\ shape.layers \in Seq(Layers) /\ shape.layers # <<>>
         /\ \A k \in DOMAIN shape.layers : ConsistentLayer(shape.layers[k])
         /\ shape.layers[1].access \in Chains /\ shape.layers[1].option_layers_above \in Nat
         /\ HasOption(shape.layers[1].access) <=> shape.layers[1].option_layers_above > 0
<1>1. shape.layers \in Seq(Layers) /\ shape.layers # <<>>
  BY DEF GoodShape, Shapes, IsVec
<1>2. \A k \in DOMAIN shape.layers : ConsistentLayer(shape.layers[k])
  BY DEF GoodShape, Consistent
<1>3. 1 \in DOMAIN shape.layers /\ shape.layers[1] \in Layers
  BY <1>1
<1> QED BY <1>1, <1>2, <1>3 DEF Layers, ConsistentLayer, HasOuterValidity

LEMMA ComposeOptionGood ==
  ASSUME NEW element, GoodShape(element)
  PROVE  GoodShape(ComposeOption(element))
<1>1. CASE IsVec(element)
  <2> DEFINE chain  == PrependOption(element.layers[1].access)
             layers == AddToFirst(element.layers, 1, chain)
  <2>1. chain \in Chains /\ HasOption(chain)
    BY <1>1, FirstLayer, PrependedOption
  <2> HIDE DEF chain
  <2>2. layers \in Seq(Layers) /\ \A k \in DOMAIN layers : ConsistentLayer(layers[k])
    BY <1>1, <2>1, FirstLayer, AddedToFirst
  <2> HIDE DEF layers
  <2>3. ComposeOption(element) = [element EXCEPT !.layers = layers]
    BY <1>1 DEF ComposeOption, layers, chain
  <2> QED BY <2>2, <2>3 DEF GoodShape, Shapes, Consistent, HasInnerOption
<1>2. CASE ~IsVec(element)
  <2> DEFINE n     == 1 + element.inner_option_layers
             chain == PrependOption(element.inner_access)
  <2>1. chain \in Chains /\ HasOption(chain) /\ n \in Nat /\ n > 0
    BY PrependedOption DEF GoodShape, Shapes
  <2> HIDE DEF chain, n
  <2>2. ComposeOption(element) = [layers |-> <<>>, inner_option_layers |-> n, inner_access |-> chain]
    BY <1>2, <2>1 DEF ComposeOption, FromOptionAccess, LeafShape, n, chain
  <2> QED BY <2>1, <2>2 DEF GoodShape, Shapes, Consistent, HasInnerOption
<1> QED BY <1>1, <1>2

LEMMA JoinedLayers ==
  ASSUME NEW a \in Seq(Layers), NEW b \in Seq(Layers),
         \A k \in DOMAIN a : ConsistentLayer(a[k]), \A k \in DOMAIN b : ConsistentLayer(b[k])
  PROVE  /\ a \o b \in Seq(Layers) /\ Len(a \o b) = Len(a) + Len(b)
         /\ \A k \in DOMAIN (a \o b) : ConsistentLayer((a \o b)[k])
<1>1. /\ a \o b \in Seq(Layers) /\ Len(a \o b) = Len(a) + Len(b)
      /\ \A k \in 1 .. Len(a) + Len(b) : (a \o b)[k] = IF k <= Len(a) THEN a[k] ELSE b[k - Len(a)]
  OBVIOUS
<1>2. ASSUME NEW k \in DOMAIN (a \o b) PROVE ConsistentLayer((a \o b)[k])
  <2>1. CASE k <= Len(a)
    BY <1>1, <2>1
  <2>2. CASE k > Len(a)
    <3>1. k - Len(a) \in DOMAIN b /\ (a \o b)[k] = b[k - Len(a)]
      BY <1>1, <2>2
    <3> QED BY <3>1
  <2> QED BY <1>1, <2>1, <2>2
<1> QED BY <1>1, <1>2

LEMMA ComposeVecGood ==
  ASSUME NEW parent, GoodShape(parent), IsVec(parent), NEW element, GoodShape(element)
  PROVE  /\ GoodShape(ComposeVec(parent, element))
         /\ Depth(ComposeVec(parent, element)) = Depth(parent) + Depth(element)
         /\ Depth(element) = 0 =>
              ComposeVec(parent, element).inner_access = parent.inner_access \o element.inner_access
<1>1. /\ parent.layers \in Seq(Layers) /\ \A k \in DOMAIN parent.layers : ConsistentLayer(parent.layers[k])
      /\ parent.inner_access \in Chains /\ parent.inner_option_layers \in Nat
      /\ parent.inner_option_layers > 0 <=> HasOption(parent.inner_access)
  BY DEF GoodShape, Shapes, Consistent, HasInnerOption
<1>2. /\ element.layers \in Seq(Layers)
      /\ element.inner_access \in Chains /\ element.inner_option_layers \in Nat
      /\ element.inner_option_layers > 0 <=> HasOption(element.inner_access)
  BY DEF GoodShape, Shapes, Consistent, HasInnerOption
<1>3. CASE IsVec(element)
  <2> DEFINE chain  == PrependParentOption(parent.inner_access, element.layers[1].access)
             added  == AddToFirst(element.layers, parent.inner_option_layers, chain)
             layers == parent.layers \o added
  <2>1. /\ chain \in Chains
        /\ HasOption(chain) <=> HasOption(parent.inner_access) \/ HasOption(element.layers[1].access)
    BY <1>1, <1>3, FirstLayer, PrependedOption, OptionCount DEF PrependParentOption
  <2>2. HasOption(chain) <=> parent.inner_option_layers + element.layers[1].option_layers_above > 0
    BY <1>1, <1>3, <2>1, FirstLayer
  <2> HIDE DEF chain
  <2>3. /\ added \in Seq(Layers) /\ Len(added) = Len(element.layers)
        /\ \A k \in DOMAIN added : ConsistentLayer(added[k])
    BY <1>1, <1>3, <2>1, <2>2, FirstLayer, AddedToFirst
  <2> HIDE DEF added
  <2>4. /\ layers \in Seq(Layers) /\ Len(layers) = Len(parent.layers) + Len(element.layers)
        /\ \A k \in DOMAIN layers : ConsistentLayer(layers[k])
    BY <1>1, <2>3, JoinedLayers
  <2> HIDE DEF layers
  <2>5. ComposeVec(parent, element) = [element EXCEPT !.layers = layers]
    BY <1>3 DEF ComposeVec, layers, added, chain
  <2>6. Depth(element) # 0
    BY <1>2, <1>3 DEF IsVec, Depth
  <2> QED BY <2>4, <2>5, <2>6 DEF GoodShape, Shapes, Consistent, HasInnerOption, Depth
<1>4. CASE ~IsVec(element)
  <2> DEFINE n     == parent.inner_option_layers + element.inner_option_layers
             chain == parent.inner_access \o element.inner_access
  <2>1. chain \in Chains /\ n \in Nat /\ (n > 0 <=> HasOption(chain))
    BY <1>1, <1>2, ConcatOption
  <2> HIDE DEF chain, n
  <2>2. ComposeVec(parent, element) =
          [layers |-> parent.layers, inner_option_layers |-> n, inner_access |-> chain]
    BY <1>4 DEF ComposeVec, n, chain
  <2>3. Depth(element) = 0
    BY <1>4 DEF IsVec, Depth
  <2>4. Depth(parent) \in Nat
    BY <1>1 DEF Depth
  <2> QED BY <1>1, <2>1, <2>2, <2>3, <2>4 DEF GoodShape, Shapes, Consistent, HasInnerOption, Depth, chain
<1> QED BY <1>3, <1>4

LEMMA ComposeGood ==
  ASSUME NEW parent, GoodShape(parent), NEW element, GoodShape(element)
  PROVE  GoodShape(Compose(parent, element))
<1>1. CASE IsVec(parent)
  BY <1>1, ComposeVecGood DEF Compose, ParentKind
<1>2. CASE ~IsVec(parent)
  BY <1>2, ComposeOptionGood DEF Compose, ParentKind
<1> QED BY <1>1, <1>2

(* What a projection inside a list starts with is in front of the chain of *)
(* the leaf, if that is where it happens.                                  *)
LEMMA ComposedReachable ==
  ASSUME NEW parent, GoodShape(parent), NEW element, GoodShape(element),
         ParentKind(parent) = "TupleParentVec"
  PROVE  LET shape == Compose(parent, element)
         IN /\ ProjectionLayer(parent) \in 1 .. Depth(shape)
            /\ ProjectionLayer(parent) = Depth(shape) =>
                 /\ Len(ParentAccess(parent)) <= Len(shape.inner_access)
                 /\ SubSeq(shape.inner_access, 1, Len(ParentAccess(parent))) = ParentAccess(parent)
<1> DEFINE shape == Compose(parent, element)
<1>1. IsVec(parent)
  BY DEF ParentKind
<1>2. /\ Depth(parent) \in Nat \ {0} /\ Depth(element) \in Nat
      /\ parent.inner_access \in Seq(AccessSteps) /\ element.inner_access \in Seq(AccessSteps)
  BY <1>1 DEF IsVec, Depth, GoodShape, Shapes, Chains
<1>3. /\ shape = ComposeVec(parent, element)
      /\ ProjectionLayer(parent) = Depth(parent) /\ ParentAccess(parent) = parent.inner_access
  BY <1>1 DEF Compose, ParentKind, ProjectionLayer, ParentAccess
<1>4. Depth(shape) = Depth(parent) + Depth(element)
  BY <1>1, <1>3, ComposeVecGood
<1>5. Depth(element) = 0 => shape.inner_access = parent.inner_access \o element.inner_access
  BY <1>1, <1>3, ComposeVecGood
<1> HIDE DEF shape
<1>6. Depth(element) = 0 =>
        /\ Len(parent.inner_access) <= Len(shape.inner_access)
        /\ SubSeq(shape.inner_access, 1, Len(parent.inner_access)) = parent.inner_access
  BY <1>2, <1>5, ConcatPrefix
<1>7. CASE Depth(element) = 0
  BY <1>2, <1>3, <1>4, <1>6, <1>7 DEF shape
<1>8. CASE Depth(element) # 0
  BY <1>2, <1>3, <1>4, <1>8 DEF shape
<1> QED BY <1>7, <1>8

-----------------------------------------------------------------------------
(* Depth and nullable levels: what a shape is made of d Vecs, and of the   *)
(* Options below exactly k of them for every k in N.                       *)

Nested(shape, d, N) ==
  /\ Depth(shape) = d
  /\ \A l \in 1 .. d : HasOuterValidity(shape.layers[l]) <=> l - 1 \in N
  /\ HasInnerOption(shape) <=> d \in N
NestedSoFar(norm, d, N) ==
  /\ Len(norm.layers) = d
  /\ \A l \in 1 .. d : HasOuterValidity(norm.layers[l]) <=> l - 1 \in N
  /\ HasOption(norm.pending) <=> d \in N

LEMMA NestedStart == NestedSoFar(NormalStart, 0, {})
BY DEF NestedSoFar, NormalStart, HasOption

LEMMA NestedStep ==
  ASSUME NEW norm, GoodNorm(norm), NEW d \in Nat, NEW N \in SUBSET (0 .. d),
         NestedSoFar(norm, d, N), NEW wrapper \in RawWrappers
  PROVE  /\ wrapper = "Vec"    => NestedSoFar(NormalStep(norm, wrapper), d + 1, N)
         /\ wrapper = "Option" => NestedSoFar(NormalStep(norm, wrapper), d, N \union {d})
         /\ wrapper \notin {"Vec", "Option"} => NestedSoFar(NormalStep(norm, wrapper), d, N)
<1> DEFINE next == NormalStep(norm, wrapper)
<1>1. norm.layers \in Seq(Layers) /\ norm.pending \in Seq(AccessSteps)
  BY DEF GoodNorm, Chains
<1>2. CASE wrapper = "Vec"
  <2> DEFINE layer == [option_layers_above |-> OptionLayers(norm.pending), access |-> norm.pending]
  <2>1. HasOuterValidity(layer) <=> d \in N
    BY <1>1, OptionCount DEF HasOuterValidity, NestedSoFar, Chains
  <2> HIDE DEF layer
  <2>2. next.layers = Append(norm.layers, layer) /\ next.pending = <<>>
    BY <1>2 DEF NormalStep, layer
  <2> HIDE DEF next
  <2>3. Len(next.layers) = d + 1 /\ \A l \in 1 .. d : next.layers[l] = norm.layers[l]
    BY <1>1, <2>2 DEF NestedSoFar
  <2>4. next.layers[d + 1] = layer
    BY <1>1, <2>2 DEF NestedSoFar
  <2>5. ASSUME NEW l \in 1 .. d + 1 PROVE HasOuterValidity(next.layers[l]) <=> l - 1 \in N
    <3>1. CASE l = d + 1
      BY <2>1, <2>4, <3>1
    <3>2. CASE l # d + 1
      <4>1. l \in 1 .. d
        BY <3>2
      <4>2. next.layers[l] = norm.layers[l]
        BY <2>3, <4>1
      <4>3. HasOuterValidity(norm.layers[l]) <=> l - 1 \in N
        BY <4>1 DEF NestedSoFar
      <4> QED BY <4>2, <4>3
    <3> QED BY <3>1, <3>2
  <2>6. ~HasOption(next.pending) /\ d + 1 \notin N
    BY <2>2 DEF HasOption
  <2>7. NestedSoFar(next, d + 1, N)
    BY <2>3, <2>5, <2>6 DEF NestedSoFar
  <2> QED BY <1>2, <2>7 DEF next
<1>3. CASE wrapper # "Vec"
  <2>1. next.layers = norm.layers /\ next.pending = Append(norm.pending, wrapper)
    BY <1>3 DEF NormalStep, GoodNorm
  <2> HIDE DEF next
  <2>2. HasOption(next.pending) <=> HasOption(norm.pending) \/ wrapper = "Option"
    <3>1. wrapper \in AccessSteps
      BY <1>3 DEF RawWrappers
    <3> QED BY <1>1, <2>1, <3>1, AppendedOption
  <2>3. CASE wrapper = "Option"
    <3>1. \A l \in 1 .. d : l - 1 \in N <=> l - 1 \in N \union {d}
      OBVIOUS
    <3>2. NestedSoFar(next, d, N \union {d})
      BY <2>1, <2>2, <2>3, <3>1 DEF NestedSoFar
    <3> QED BY <2>3, <3>2 DEF next
  <2>4. CASE wrapper # "Option"
    <3>1. NestedSoFar(next, d, N)
      BY <2>1, <2>2, <2>4 DEF NestedSoFar
    <3> QED BY <1>3, <2>4, <3>1 DEF next
  <2> QED BY <2>3, <2>4
<1> QED BY <1>2, <1>3

LEMMA NestedEnd ==
  ASSUME NEW norm, GoodNorm(norm), NEW d \in Nat, NEW N, NestedSoFar(norm, d, N)
  PROVE  /\ Nested(NormalEnd(norm), d, N)
         /\ NormalEnd(norm) = Bare <=> d = 0 /\ 0 \notin N
<1>1. OptionLayers(norm.pending) \in Nat /\ (OptionLayers(norm.pending) > 0 <=> d \in N)
  BY OptionCount DEF GoodNorm, NestedSoFar
<1>2. norm.layers = <<>> <=> d = 0
  BY DEF GoodNorm, NestedSoFar
<1>3. CASE d = 0 /\ OptionLayers(norm.pending) = 0
  <2>1. NormalEnd(norm) = Bare
    BY <1>2, <1>3 DEF NormalEnd, FromOptionAccess
  <2>2. Bare.layers = <<>> /\ Bare.inner_option_layers = 0
    BY DEF Bare, LeafShape
  <2> QED BY <1>1, <1>3, <2>1, <2>2 DEF Nested, Depth, HasInnerOption
<1>4. CASE ~(d = 0 /\ OptionLayers(norm.pending) = 0)
  <2>1. NormalEnd(norm) = [layers              |-> norm.layers,
                           inner_option_layers |-> OptionLayers(norm.pending),
                           inner_access        |-> norm.pending]
    BY <1>1, <1>2, <1>4 DEF NormalEnd, FromOptionAccess, LeafShape
  <2>2. /\ NormalEnd(norm).layers = norm.layers
        /\ NormalEnd(norm).inner_option_layers = OptionLayers(norm.pending)
    BY <2>1
  <2>3. Bare.layers = <<>> /\ Bare.inner_option_layers = 0
    BY DEF Bare, LeafShape
  <2>4. NormalEnd(norm) # Bare
    BY <1>2, <1>4, <2>2, <2>3
  <2> QED BY <1>1, <1>4, <2>2, <2>4 DEF Nested, NestedSoFar, Depth, HasInnerOption
<1> QED BY <1>3, <1>4

(* An element's levels are below all those of its tuple.                   *)
Below(d, N) == {d + k : k \in N}

LEMMA NestedOption ==
  ASSUME NEW element, GoodShape(element), NEW d \in Nat, NEW N \in SUBSET (0 .. d), Nested(element, d, N)
  PROVE  Nested(ComposeOption(element), d, {0} \union N)
<1> DEFINE s == ComposeOption(element)
<1>1. element.layers \in Seq(Layers) /\ element.inner_option_layers \in Nat
  BY DEF GoodShape, Shapes
<1>2. CASE IsVec(element)
  <2> DEFINE layers == AddToFirst(element.layers, 1, PrependOption(element.layers[1].access))
  <2>1. d > 0 /\ Len(element.layers) = d /\ element.layers[1] \in Layers
    BY <1>1, <1>2 DEF Nested, Depth, IsVec
  <2>2. /\ Len(layers) = d
        /\ layers[1].option_layers_above = element.layers[1].option_layers_above + 1
        /\ \A l \in 2 .. d : layers[l] = element.layers[l]
    BY <1>1, <2>1 DEF AddToFirst
  <2>3. s = [element EXCEPT !.layers = layers]
    BY <1>2 DEF ComposeOption
  <2> HIDE DEF layers
  <2>4. s.layers = layers /\ s.inner_option_layers = element.inner_option_layers
    BY <2>3 DEF GoodShape, Shapes
  <2> HIDE DEF s
  <2>5. HasOuterValidity(layers[1])
    BY <2>1, <2>2 DEF HasOuterValidity, Layers
  <2>6. ASSUME NEW l \in 1 .. d PROVE HasOuterValidity(s.layers[l]) <=> l - 1 \in {0} \union N
    <3>1. CASE l = 1
      BY <2>4, <2>5, <3>1
    <3>2. CASE l # 1
      BY <2>2, <2>4, <3>2 DEF Nested
    <3> QED BY <3>1, <3>2
  <2>7. Depth(s) = d /\ (HasInnerOption(s) <=> d \in {0} \union N)
    BY <2>1, <2>2, <2>4 DEF Nested, Depth, HasInnerOption
  <2> QED BY <2>6, <2>7 DEF Nested, s
<1>3. CASE ~IsVec(element)
  <2>1. d = 0
    BY <1>3 DEF Nested, Depth, IsVec
  <2>2. s = LeafShape(1 + element.inner_option_layers, PrependOption(element.inner_access))
    BY <1>1, <1>3 DEF ComposeOption, FromOptionAccess
  <2>3. s.layers = <<>> /\ s.inner_option_layers = 1 + element.inner_option_layers
    BY <2>2 DEF LeafShape
  <2> QED BY <1>1, <2>1, <2>3 DEF Nested, Depth, HasInnerOption
<1> QED BY <1>2, <1>3

LEMMA NestedVec ==
  ASSUME NEW parent, GoodShape(parent), IsVec(parent), NEW d \in Nat, NEW N \in SUBSET (0 .. d),
         Nested(parent, d, N),
         NEW element, GoodShape(element), NEW e \in Nat, NEW M \in SUBSET (0 .. e), Nested(element, e, M)
  PROVE  Nested(ComposeVec(parent, element), d + e, N \union Below(d, M))
<1> DEFINE s == ComposeVec(parent, element)
           O == N \union Below(d, M)
<1>1. /\ element.layers \in Seq(Layers) /\ element.inner_option_layers \in Nat /\ Len(element.layers) = e
      /\ parent.layers \in Seq(Layers) /\ parent.inner_option_layers \in Nat /\ Len(parent.layers) = d
  BY DEF GoodShape, Shapes, Nested, Depth
<1>2. /\ \A k \in 0 .. d - 1 : k \in O <=> k \in N
      /\ d \in O <=> d \in N \/ 0 \in M
      /\ \A k \in 1 .. e : d + k \in O <=> k \in M
  BY DEF Below
<1> HIDE DEF O
<1>3. CASE IsVec(element)
  <2> DEFINE chain == PrependParentOption(parent.inner_access, element.layers[1].access)
             first == [option_layers_above |-> element.layers[1].option_layers_above + parent.inner_option_layers,
                       access |-> chain]
             added == AddToFirst(element.layers, parent.inner_option_layers, chain)
             layers == parent.layers \o added
  <2>1. e > 0 /\ element.layers[1] \in Layers
    BY <1>1, <1>3 DEF IsVec
  <2>2. HasOuterValidity(first) <=> d \in N \/ 0 \in M
    <3>1. element.layers[1].option_layers_above \in Nat
      BY <2>1 DEF Layers
    <3>2. element.layers[1].option_layers_above > 0 <=> 0 \in M
      BY <2>1 DEF Nested, HasOuterValidity
    <3>3. parent.inner_option_layers > 0 <=> d \in N
      BY DEF Nested, HasInnerOption
    <3>4. first.option_layers_above = element.layers[1].option_layers_above + parent.inner_option_layers
      OBVIOUS
    <3> QED BY <1>1, <3>1, <3>2, <3>3, <3>4 DEF HasOuterValidity
  <2>3. added = [element.layers EXCEPT ![1] = first]
    BY DEF AddToFirst
  <2> HIDE DEF first, chain
  <2>4. DOMAIN added = 1 .. e /\ Len(added) = e /\ added[1] = first /\ \A l \in 2 .. e : added[l] = element.layers[l]
    BY <1>1, <2>1, <2>3
  <2>5. s = [element EXCEPT !.layers = layers]
    BY <1>3 DEF ComposeVec, chain
  <2>6. /\ Len(layers) = d + e
        /\ \A l \in 1 .. d + e : layers[l] = IF l <= d THEN parent.layers[l] ELSE added[l - d]
    <3>1. PICK T : added \in Seq(T)
      <4>1. added \in [1 .. e -> {added[i] : i \in 1 .. e}]
        BY <2>3, <2>4, <1>1
      <4>2. added \in Seq({added[i] : i \in 1 .. e})
        BY <4>1
      <4> QED BY <4>2
    <3>2. parent.layers \in Seq(Layers) /\ Len(parent.layers) = d /\ Len(added) = e
      BY <1>1, <2>4
    <3> HIDE DEF added
    <3>3. Len(parent.layers \o added) = Len(parent.layers) + Len(added)
      BY <3>1, <3>2
    <3>4. \A l \in 1 .. Len(parent.layers) + Len(added) : (parent.layers \o added)[l] =
            IF l <= Len(parent.layers) THEN parent.layers[l] ELSE added[l - Len(parent.layers)]
      BY <3>1, <3>2
    <3> QED BY <3>2, <3>3, <3>4
  <2> HIDE DEF layers, added
  <2>7. s.layers = layers /\ s.inner_option_layers = element.inner_option_layers
    BY <2>5 DEF GoodShape, Shapes
  <2> HIDE DEF s
  <2>8. ASSUME NEW l \in 1 .. d + e PROVE HasOuterValidity(s.layers[l]) <=> l - 1 \in O
    <3>1. CASE l <= d
      <4>1. s.layers[l] = parent.layers[l] /\ l \in 1 .. d /\ l - 1 \in 0 .. d - 1
        BY <2>6, <2>7, <3>1
      <4> QED BY <1>2, <4>1 DEF Nested
    <3>2. CASE l = d + 1
      <4>1. s.layers[l] = first
        BY <2>4, <2>6, <2>7, <3>2
      <4>2. l - 1 = d
        BY <3>2
      <4> QED BY <1>2, <2>2, <4>1, <4>2
    <3>3. CASE l > d + 1
      <4>1. s.layers[l] = element.layers[l - d] /\ l - d \in 2 .. e
        BY <2>4, <2>6, <2>7, <3>3
      <4>2. HasOuterValidity(s.layers[l]) <=> (l - d) - 1 \in M
        BY <4>1 DEF Nested
      <4>3. (l - d) - 1 \in 1 .. e /\ d + ((l - d) - 1) = l - 1
        BY <4>1
      <4> QED BY <1>2, <4>2, <4>3
    <3> QED BY <3>1, <3>2, <3>3
  <2>9. Depth(s) = d + e
    BY <2>6, <2>7 DEF Depth
  <2>10. HasInnerOption(s) <=> d + e \in O
    <3>1. HasInnerOption(s) <=> e \in M
      BY <2>7 DEF Nested, HasInnerOption
    <3>2. e \in 1 .. e
      BY <2>1
    <3> QED BY <1>2, <3>1, <3>2
  <2> QED BY <2>8, <2>9, <2>10 DEF Nested, s, O
<1>4. CASE ~IsVec(element)
  <2>1. e = 0
    BY <1>1, <1>4 DEF IsVec
  <2>2. /\ s.layers = parent.layers
        /\ s.inner_option_layers = parent.inner_option_layers + element.inner_option_layers
    BY <1>4 DEF ComposeVec
  <2> HIDE DEF s
  <2>3. parent.inner_option_layers > 0 <=> d \in N
    BY DEF Nested, HasInnerOption
  <2>4. element.inner_option_layers > 0 <=> 0 \in M
    BY <2>1 DEF Nested, HasInnerOption
  <2>5. HasInnerOption(s) <=> d \in O
    BY <1>1, <1>2, <2>2, <2>3, <2>4 DEF HasInnerOption
  <2>6. \A l \in 1 .. d : l - 1 \in 0 .. d - 1
    OBVIOUS
  <2>7. \A l \in 1 .. d : HasOuterValidity(s.layers[l]) <=> l - 1 \in O
    BY <1>2, <2>2, <2>6 DEF Nested
  <2> QED BY <1>1, <2>1, <2>2, <2>5, <2>7 DEF Nested, Depth, s, O
<1> QED BY <1>3, <1>4

LEMMA NestedComposed ==
  ASSUME NEW parent, GoodShape(parent), NEW d \in Nat, NEW N \in SUBSET (0 .. d), Nested(parent, d, N),
         NEW element, GoodShape(element), NEW e \in Nat, NEW M \in SUBSET (0 .. e), Nested(element, e, M)
  PROVE  Nested(Compose(parent, element), d + e, N \union Below(d, M))
<1>1. CASE IsVec(parent)
  <2>1. Compose(parent, element) = ComposeVec(parent, element)
    BY <1>1 DEF Compose, ParentKind
  <2> QED BY <1>1, <2>1, NestedVec
<1>2. CASE ~IsVec(parent)
  <2>0. d = 0
    <3>1. parent.layers = <<>>
      BY <1>2 DEF IsVec
    <3> QED BY <3>1 DEF Nested, Depth
  <2>1. d = 0 /\ d + e = e /\ Below(d, M) = M /\ (HasInnerOption(parent) <=> 0 \in N)
    <3>1. \A k \in M : d + k = k
      BY <2>0
    <3>2. Below(d, M) = M
      BY <3>1 DEF Below
    <3>3. HasInnerOption(parent) <=> 0 \in N
      BY <2>0 DEF Nested
    <3> QED BY <2>0, <3>2, <3>3
  <2>2. CASE HasInnerOption(parent)
    <3>1. Compose(parent, element) = ComposeOption(element)
      BY <1>2, <2>2 DEF Compose, ParentKind
    <3>2. N = {0}
      <4>1. N \subseteq {0}
        BY <2>0
      <4> QED BY <2>1, <2>2, <4>1
    <3>3. Nested(ComposeOption(element), e, {0} \union M)
      BY NestedOption
    <3> QED BY <2>1, <3>1, <3>2, <3>3
  <2>3. CASE ~HasInnerOption(parent)
    <3>1. Compose(parent, element) = element
      BY <1>2, <2>3 DEF Compose, ParentKind
    <3>2. N \union M = M
      <4>1. N = {}
        BY <2>0, <2>1, <2>3
      <4> QED BY <4>1
    <3> QED BY <2>1, <3>1, <3>2
  <2> QED BY <2>2, <2>3
<1> QED BY <1>1, <1>2
=============================================================================
