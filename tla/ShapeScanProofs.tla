-------------------------- MODULE ShapeScanProofs ---------------------------
(***************************************************************************)
(* Proofs about ShapeScan for every depth, leaf kind and input.  First the *)
(* buffers and their types.  Then that the scan retraces the precount,     *)
(* hence stores exactly what was counted, hence never writes past a        *)
(* prefilled bitmap.                                                       *)
(*                                                                         *)
(* The precount and the scan are two runs of one deterministic walk.  The  *)
(* history variable `trail` records the spots of the first; the invariant  *)
(* ties every state of the second to one of them.                          *)
(***************************************************************************)
EXTENDS ShapeScan, SequenceTheorems, TLAPS

(* Writing a bit inside a bitmap keeps its type and length.                *)
LEMMA SetIsBits ==
  ASSUME NEW s \in Seq(BOOLEAN), NEW i \in DOMAIN s, NEW b \in BOOLEAN
  PROVE  /\ [s EXCEPT ![i] = b] \in Seq(BOOLEAN)
         /\ Len([s EXCEPT ![i] = b]) = Len(s)
BY ExceptSeq, LenProperties

(* Appending to a sequence keeps its type and adds one to its length.      *)
LEMMA AppendTyped ==
  ASSUME NEW S, NEW s \in Seq(S), NEW e \in S
  PROVE  Append(s, e) \in Seq(S) /\ Len(Append(s, e)) = Len(s) + 1
OBVIOUS

(* A prefilled bitmap has the precounted length.                           *)
LEMMA FilledIsBits ==
  ASSUME total \in Nat, NEW b \in BOOLEAN
  PROVE  Filled(b) \in Seq(BOOLEAN) /\ Len(Filled(b)) = total
BY DEF Filled

(* What one loop can meet is among the elements of all loops.              *)
LEMMA ElementsOfLoops ==
  ASSUME NEW l \in Loops, NEW s \in Seq(Node[l])
  PROVE  s \in Seq(Elements)
<1>1. Node[l] \subseteq Elements
  BY DEF Elements
<1> QED
  BY <1>1, SeqMonotonic

(* The walk stays inside the lists of the items.                           *)
LEMMA WalkTyped ==
  ASSUME WalkOK,
         \/ EnterList /\ AtElement /\ Next1(open) # None
         \/ SkipElement /\ rest[open] # <<>>
         \/ LeaveList /\ AtEnd
  PROVE  open' \in Loops /\ rest' \in Rests
<1>1. CASE EnterList /\ AtElement /\ Next1(open) # None
  <2>1. open \in Layers /\ open + 1 \in Loops
    BY <1>1, DepthAssumption DEF AtElement, WalkOK, Loops, Layers
  <2>2. Tail(rest[open]) \in Seq(Node[open]) /\ Next1(open) \in Node[open]
    BY <1>1, <2>1, HeadTailProperties DEF AtElement, WalkOK, Rests, Loops, Layers, Next1
  <2>3. Next1(open) \in Seq(Node[open + 1])
    BY <1>1, <2>1, <2>2, NodeAssumption
  <2>4. /\ open # open + 1
        /\ Tail(rest[open]) \in Seq(Elements) /\ Next1(open) \in Seq(Elements)
    <3>1. open \in Loops /\ open # open + 1
      BY <2>1, DepthAssumption DEF Layers, Loops
    <3>2. Tail(rest[open]) \in Seq(Elements)
      BY <2>2, <3>1, ElementsOfLoops
    <3>3. Next1(open) \in Seq(Elements)
      BY <2>1, <2>3, ElementsOfLoops
    <3> QED
      BY <3>1, <3>2, <3>3
  <2>5. /\ rest' \in [Loops -> Seq(Elements)]
        /\ \A l \in Loops : rest'[l] \in Seq(Node[l])
    <3>1. rest \in [Loops -> Seq(Elements)] /\ \A l \in Loops : rest[l] \in Seq(Node[l])
      BY DEF WalkOK, Rests
    <3>2. rest' = [rest EXCEPT ![open] = Tail(rest[open]), ![open + 1] = Next1(open)]
      BY <1>1, <2>1, <2>4, <3>1 DEF EnterList
    <3>3. rest' \in [Loops -> Seq(Elements)]
      BY <2>4, <3>1, <3>2
    <3>4. ASSUME NEW l \in Loops PROVE rest'[l] \in Seq(Node[l])
      BY <2>1, <2>2, <2>3, <2>4, <3>1, <3>2
    <3> QED
      BY <3>3, <3>4
  <2> QED
    BY <1>1, <2>1, <2>5 DEF EnterList, Rests
<1>2. CASE SkipElement /\ rest[open] # <<>>
  <2>1. Tail(rest[open]) \in Seq(Node[open]) /\ Tail(rest[open]) \in Seq(Elements)
    BY <1>2, HeadTailProperties DEF WalkOK, Rests
  <2>2. /\ rest' \in [Loops -> Seq(Elements)]
        /\ \A l \in Loops : rest'[l] \in Seq(Node[l])
    BY <1>2, <2>1 DEF SkipElement, WalkOK, Rests
  <2> QED
    BY <1>2, <2>2 DEF SkipElement, WalkOK, Rests
<1>3. CASE LeaveList /\ AtEnd
  BY <1>3, DepthAssumption DEF LeaveList, AtEnd, WalkOK, Loops
<1> QED
  BY <1>1, <1>2, <1>3

(* Counting one more list keeps the counters natural numbers.              *)
LEMMA CountsTyped ==
  ASSUME CountsOK, NEW l \in Layers
  PROVE  CountedLists(l) \in [1 .. Depth - 1 -> Nat]
BY DepthAssumption DEF CountsOK, CountedLists, Counted, Layers

(* The number of entries of a child array is a natural number.             *)
LEMMA EntriesTyped ==
  ASSUME LayersOK, LeavesOK, NEW l \in Layers, \A k \in Layers : Len(offsets[k]) > 0
  PROVE  LeafEntries \in Nat /\ Entries(l) \in Nat
<1>1. LeafEntries \in Nat
  BY KindAssumption DEF LeafEntries, LeavesOK
<1>2. CASE l # Depth
  <2>1. l + 1 \in Layers
    BY <1>2, DepthAssumption DEF Layers
  <2>2. Len(offsets[l + 1]) \in Nat
    BY <2>1, LenProperties DEF LayersOK
  <2> QED
    BY <1>1, <1>2, <2>1, <2>2 DEF Entries
<1> QED
  BY <1>1, <1>2 DEF Entries

(* A leaf step keeps the type of the leaf buffers.                         *)
LEMMA StoreTyped ==
  ASSUME LeavesOK, NEW v \in Node[Leaf], Store(v), Fits(v)
  PROVE  LeavesOK'
<1>1. leafIdx' \in Nat
  BY DEF Store, StepIdx, LeavesOK
<1>2. CASE v = None
  <2>1. Default \in Stored
    BY DEF Stored
  <2>2. valid' \in Seq(BOOLEAN)
    <3>1. CASE LeafKind = "nested"
      BY <1>2, <3>1 DEF Store, StoreNull, LeavesOK
    <3>2. CASE LeafKind # "nested"
      <4>1. Slot \in DOMAIN valid
        BY <1>2, <3>2 DEF Fits
      <4>2. valid' = [valid EXCEPT ![Slot] = FALSE]
        BY <1>2, <3>2 DEF Store, StoreNull, Clear
      <4> QED
        BY <4>1, <4>2, SetIsBits DEF LeavesOK
    <3> QED
      BY <3>1, <3>2
  <2>3. StoreNull
    BY <1>2 DEF Store
  <2>4. flat' \in Seq(Stored)
    BY <2>1, <2>3, AppendTyped DEF StoreNull, LeavesOK
  <2>5. positions' \in Seq(Nat \union {None}) /\ bits' \in Seq(BOOLEAN)
    BY <2>3, AppendTyped DEF StoreNull, LeavesOK
  <2> QED
    BY <1>1, <2>2, <2>4, <2>5 DEF LeavesOK
<1>3. CASE v # None
  <2>1. Encode[v] \in Stored
    BY <1>3 DEF Stored
  <2>2. CASE LeafKind = "bool"
    <3>1. BoolValue(v) /\ UNCHANGED valid
      BY <1>3, <2>2 DEF Store, StoreValue
    <3>2. CASE Encode[v]
      <4>1. Slot \in DOMAIN bits
        BY <1>3, <2>2, <3>2 DEF Fits
      <4>2. bits' = [bits EXCEPT ![Slot] = TRUE]
        BY <3>1, <3>2 DEF BoolValue, SetBit
      <4>3. bits' \in Seq(BOOLEAN)
        BY <4>1, <4>2, SetIsBits DEF LeavesOK
      <4> QED
        BY <1>1, <3>1, <4>3 DEF BoolValue, LeavesOK
    <3>3. CASE ~Encode[v]
      BY <1>1, <3>1, <3>3 DEF BoolValue, LeavesOK
    <3> QED
      BY <3>2, <3>3
  <2>3. CASE LeafKind = "nested"
    <3>1. NestedValue(v) /\ UNCHANGED valid
      BY <1>3, <2>3 DEF Store, StoreValue
    <3>2. flat' \in Seq(Stored) /\ Len(flat) \in Nat \union {None}
      BY <2>1, <3>1, AppendTyped, LenProperties DEF NestedValue, LeavesOK
    <3>3. positions' \in Seq(Nat \union {None})
      BY <3>1, <3>2, AppendTyped DEF NestedValue, LeavesOK
    <3> QED
      BY <1>1, <3>1, <3>2, <3>3 DEF NestedValue, LeavesOK
  <2>4. CASE LeafKind \in {"numeric", "string"}
    <3>1. PushedValue(v) /\ UNCHANGED valid
      BY <1>3, <2>4 DEF Store, StoreValue
    <3>2. flat' \in Seq(Stored)
      BY <2>1, <3>1, AppendTyped DEF PushedValue, LeavesOK
    <3> QED
      BY <1>1, <3>1, <3>2 DEF PushedValue, LeavesOK
  <2> QED
    BY <2>2, <2>3, <2>4, KindAssumption DEF LeafKinds
<1> QED
  BY <1>2, <1>3

-----------------------------------------------------------------------------
(* The inductive invariant of the scan: an offset is a natural number only *)
(* because every offsets buffer was seeded, so typing needs BuffersInStep. *)
IInv == TypeOK /\ BuffersInStep

(* The invariant holds before the precount loop starts.                    *)
LEMMA Initially == Init => IInv
<1> SUFFICES ASSUME Init PROVE IInv
  OBVIOUS
<1>1. items \in Seq(Node[1])
  BY InputAssumption DEF Init
<1>2. WalkOK
  <2>1. open \in Loops /\ open <= Depth
    BY DepthAssumption DEF Init, StartOfItems, Loops
  <2>2. rest = [l \in Loops |-> IF l = 1 THEN items ELSE <<>>]
    BY DEF Init, StartOfItems
  <2>3. ASSUME NEW l \in Loops PROVE rest[l] \in Seq(Node[l])
    <3>1. CASE l = 1
      BY <1>1, <3>1 DEF Init, StartOfItems
    <3>2. CASE l # 1
      BY <3>2 DEF Init, StartOfItems
    <3> QED
      BY <3>1, <3>2
  <2>4. rest \in Rests
    BY <2>2, <2>3, ElementsOfLoops DEF Rests
  <2> QED
    BY <2>1, <2>4 DEF Init, WalkOK
<1>3. CountsOK /\ LayersOK /\ LeavesOK
  BY DEF Init, CountsOK, LayersOK, LeavesOK
<1>4. BuffersInStep
  BY DEF Init, BuffersInStep
<1> QED
  BY <1>2, <1>3, <1>4 DEF IInv, TypeOK

(* The precount loop moves the walk and the counts, and no buffer.         *)
LEMMA PrecountKeeps ==
  ASSUME IInv, Precount
  PROVE  IInv'
<1> USE DEF IInv, TypeOK
<1>1. phase = "precount" /\ open \in Layers /\ UNCHANGED <<items, phase, buffers>>
  BY DEF Precount, PrecountNull, PrecountLeaves, PrecountEnter, PrecountLeave,
         WalkOK, Loops, Layers
<1>2. LayersOK' /\ LeavesOK' /\ BuffersInStep'
  BY <1>1 DEF buffers, LayersOK, LeavesOK, BuffersInStep
<1>3. CASE PrecountNull
  <2>1. WalkOK'
    BY <1>1, <1>3, WalkTyped DEF PrecountNull, AtElement, SkipElement, WalkOK
  <2>2. CountsOK'
    BY <1>1, <1>3, CountsTyped DEF PrecountNull, CountsOK
  <2> QED
    BY <1>2, <2>1, <2>2
<1>4. CASE PrecountLeaves
  <2>1. WalkOK'
    BY <1>1, <1>4, WalkTyped DEF PrecountLeaves, AtElement, SkipElement, WalkOK
  <2>2. Next1(open) \in Node[open]
    BY <1>1, <1>4, HeadTailProperties
    DEF PrecountLeaves, AtElement, Next1, WalkOK, Rests, Loops, Layers
  <2>3. Len(Next1(open)) \in Nat
    BY <1>1, <1>4, <2>2, NodeAssumption, LenProperties DEF PrecountLeaves
  <2>4. CountsOK'
    BY <1>1, <1>4, <2>3, CountsTyped DEF PrecountLeaves, CountsOK
  <2> QED
    BY <1>2, <2>1, <2>4
<1>5. CASE PrecountEnter
  <2>1. WalkOK'
    <3>1. EnterList /\ AtElement /\ Next1(open) # None /\ open' <= Depth
      BY <1>1, <1>5, DepthAssumption DEF PrecountEnter, EnterList, Layers
    <3> QED
      BY <1>1, <3>1, WalkTyped DEF WalkOK
  <2> QED
    BY <1>2, <1>5, <2>1 DEF PrecountEnter, counted, CountsOK
<1>6. CASE PrecountLeave
  <2>1. WalkOK'
    BY <1>1, <1>6, WalkTyped, DepthAssumption DEF PrecountLeave, LeaveList, WalkOK, Layers
  <2>2. open - 1 \in Layers
    BY <1>1, <1>6, DepthAssumption DEF PrecountLeave, AtEnd, Layers
  <2>3. CountsOK'
    BY <1>6, <2>2, CountsTyped DEF PrecountLeave, CountsOK
  <2> QED
    BY <1>2, <2>1, <2>3
<1> QED
  BY <1>3, <1>4, <1>5, <1>6 DEF Precount

(* The buffers are declared with a seeded offset and prefilled bitmaps.    *)
LEMMA DeclareKeeps ==
  ASSUME IInv, DeclareBuffers
  PROVE  IInv'
<1> USE DEF IInv, TypeOK
<1>1. items \in Seq(Node[1]) /\ 1 \in Loops
  BY InputAssumption, DepthAssumption DEF WalkOK, Loops
<1>2. WalkOK'
  <2>1. items \in Seq(Elements)
    BY <1>1, ElementsOfLoops
  <2>2. /\ rest' \in [Loops -> Seq(Elements)]
        /\ \A l \in Loops : rest'[l] \in Seq(Node[l])
    BY <1>1, <2>1 DEF DeclareBuffers, WalkOK, Rests
  <2> QED
    BY <1>1, <2>2, DepthAssumption DEF DeclareBuffers, WalkOK, Rests
<1>3. CountsOK' /\ LayersOK'
  BY DEF DeclareBuffers, counted, CountsOK, LayersOK, Seed
<1>4. LeavesOK'
  <2>1. Filled(TRUE) \in Seq(BOOLEAN) /\ Filled(FALSE) \in Seq(BOOLEAN)
    BY FilledIsBits DEF CountsOK
  <2>2. bits' \in {Filled(FALSE), <<>>} /\ valid' \in {Filled(TRUE), <<>>}
    BY DEF DeclareBuffers
  <2>3. bits' \in Seq(BOOLEAN) /\ valid' \in Seq(BOOLEAN)
    BY <2>1, <2>2, EmptySeq
  <2>4. flat' = <<>> /\ positions' = <<>> /\ leafIdx' = 0
    BY DEF DeclareBuffers
  <2> QED
    BY <2>3, <2>4 DEF LeavesOK
<1>5. \A l \in Layers : Len(offsets'[l]) = 1 /\ offsets'[l][1] = 0
  BY DEF DeclareBuffers, Seed
<1>6. \A l \in Layers : validity'[l] = <<>> /\ OpenLists(l)' = 0
  BY DepthAssumption DEF DeclareBuffers, OpenLists, Layers
<1>7. LeafEntries' = 0
  BY KindAssumption DEF DeclareBuffers, LeafEntries, LeafKinds
<1>8. \A l \in Layers : Entries(l)' = 0
  BY <1>5, <1>7, DepthAssumption DEF Entries, Layers
<1>9. BuffersInStep'
  BY <1>5, <1>6, <1>8 DEF BuffersInStep, LayerInStep, OffsetsAccepted
<1> QED
  BY <1>2, <1>3, <1>4, <1>9

-----------------------------------------------------------------------------
(* The steps of the scan.                                                  *)

(* Returning an error or panicking changes only the phase.                 *)
LEMMA FailKeeps ==
  ASSUME IInv, NEW how \in {"error", "panic"}, Fail(how)
  PROVE  IInv'
<1> USE DEF IInv, TypeOK
<1>1. phase' = how /\ UNCHANGED <<items, open, rest, total, counters>>
  BY DEF Fail, walk, counted
<1>2. WalkOK' /\ CountsOK'
  BY <1>1 DEF WalkOK, CountsOK, Ended
<1>3. LayersOK' /\ LeavesOK'
  BY DEF Fail, buffers, LayersOK, LeavesOK
<1>4. BuffersInStep'
  BY <1>1 DEF BuffersInStep
<1> QED
  BY <1>2, <1>3, <1>4

(* Pushing an offset: it closes the layer's list where its child ends.     *)
LEMMA OffsetPushed ==
  ASSUME LayersOK, LeavesOK, \A k \in Layers : LayerInStep(k),
         NEW l \in Layers, PushOffset(l)
  PROVE  /\ offsets' \in [Layers -> Seq(Nat)]
         /\ \A k \in Layers : k # l => offsets'[k] = offsets[k]
         /\ Len(offsets'[l]) = Len(offsets[l]) + 1
         /\ offsets'[l][1] = 0
         /\ OffsetsAccepted(offsets'[l])
         /\ offsets'[l][Len(offsets'[l])] = Entries(l)
<1>1. Entries(l) \in Nat
  BY EntriesTyped DEF LayerInStep
<1>2. offsets[l] \in Seq(Nat) /\ Len(offsets[l]) \in Nat /\ Len(offsets[l]) > 0
  BY LenProperties DEF LayersOK, LayerInStep
<1>3. offsets'[l] = Append(offsets[l], Entries(l))
  BY DEF PushOffset, LayersOK
<1>4. offsets' \in [Layers -> Seq(Nat)] /\ \A k \in Layers : k # l => offsets'[k] = offsets[k]
  BY <1>1, <1>2, AppendTyped DEF PushOffset, LayersOK
<1>5. /\ Len(offsets'[l]) = Len(offsets[l]) + 1
      /\ \A i \in 1 .. Len(offsets[l]) : offsets'[l][i] = offsets[l][i]
      /\ offsets'[l][Len(offsets[l]) + 1] = Entries(l)
  BY <1>1, <1>2, <1>3
<1>6. /\ offsets[l][1] = 0 /\ OffsetsAccepted(offsets[l])
      /\ offsets[l][Len(offsets[l])] <= Entries(l)
  BY DEF LayerInStep
<1>7. OffsetsAccepted(offsets'[l])
  <2> DEFINE n == Len(offsets[l])
  <2> SUFFICES ASSUME NEW i \in 2 .. n + 1
               PROVE  offsets'[l][i - 1] <= offsets'[l][i]
    BY <1>5 DEF OffsetsAccepted
  <2>1. n \in Nat /\ n > 0 /\ i \in Nat BY <1>2
  <2>2. CASE i = n + 1
    <3>1. offsets'[l][i] = Entries(l) BY <1>5, <2>2
    <3>2. i - 1 = n /\ n \in 1 .. n BY <2>1, <2>2
    <3>3. offsets'[l][i - 1] = offsets[l][n] BY <1>5, <3>2
    <3> QED BY <1>6, <3>1, <3>3
  <2>3. CASE i \in 2 .. n
    <3>1. i \in 1 .. n /\ i - 1 \in 1 .. n BY <2>1, <2>3
    <3>2. offsets'[l][i] = offsets[l][i] /\ offsets'[l][i - 1] = offsets[l][i - 1]
      BY <1>5, <3>1
    <3>3. offsets[l][i - 1] <= offsets[l][i] BY <1>6, <2>3 DEF OffsetsAccepted
    <3> QED BY <3>2, <3>3
  <2> QED
    BY <2>1, <2>2, <2>3
<1> QED
  BY <1>2, <1>4, <1>5, <1>6, <1>7

(* It adds one entry to the child of the layer around it, and no other.    *)
LEMMA EntriesAfterPush ==
  ASSUME LayersOK, LeavesOK, \A k \in Layers : LayerInStep(k),
         NEW l \in Layers, PushOffset(l), UNCHANGED <<flat, positions, leafIdx>>
  PROVE  \A k \in Layers : Entries(k)' = IF k = l - 1 THEN Entries(k) + 1 ELSE Entries(k)
<1>1. LeafEntries' = LeafEntries
  BY DEF LeafEntries
<1> SUFFICES ASSUME NEW k \in Layers
             PROVE  Entries(k)' = IF k = l - 1 THEN Entries(k) + 1 ELSE Entries(k)
  OBVIOUS
<1>2. CASE k = Depth
  BY <1>1, <1>2, DepthAssumption DEF Entries, Layers
<1>3. CASE k # Depth
  <2>1. k + 1 \in Layers /\ Len(offsets[k + 1]) \in Nat
    BY <1>3, DepthAssumption, LenProperties DEF Layers, LayersOK
  <2>2. Entries(k) = Len(offsets[k + 1]) - 1 /\ Entries(k)' = Len(offsets'[k + 1]) - 1
    BY <1>3 DEF Entries
  <2>3. CASE k = l - 1
    BY <2>1, <2>2, <2>3, OffsetPushed DEF Layers
  <2>4. CASE k # l - 1
    BY <2>1, <2>2, <2>4, OffsetPushed DEF Layers
  <2> QED
    BY <2>3, <2>4
<1> QED
  BY <1>2, <1>3

(* Pushing a validity bit touches one layer, and only an optional one.     *)
LEMMA ValidityPushed ==
  ASSUME LayersOK, NEW l \in Layers, NEW b \in BOOLEAN, PushValidity(l, b)
  PROVE  /\ validity' \in [Layers -> Seq(BOOLEAN)]
         /\ \A k \in Layers : k # l => validity'[k] = validity[k]
         /\ Optional(l) => Len(validity'[l]) = Len(validity[l]) + 1
<1>1. validity[l] \in Seq(BOOLEAN)
  BY DEF LayersOK
<1>2. /\ Append(validity[l], b) \in Seq(BOOLEAN)
      /\ Len(Append(validity[l], b)) = Len(validity[l]) + 1
  BY <1>1, AppendTyped
<1>3. CASE Optional(l)
  BY <1>2, <1>3 DEF PushValidity, LayersOK
<1>4. CASE ~Optional(l)
  BY <1>4 DEF PushValidity, LayersOK
<1> QED
  BY <1>3, <1>4

(* What a layer's offsets promise survives the closing of any list.        *)
OffsetsInStep(l) ==
  /\ Len(offsets[l]) > 0 /\ offsets[l][1] = 0
  /\ OffsetsAccepted(offsets[l])
  /\ offsets[l][Len(offsets[l])] <= Entries(l)

(* Pushing an offset keeps every layer's offsets within its child.         *)
LEMMA OffsetsStayInStep ==
  ASSUME LayersOK, LeavesOK, \A k \in Layers : LayerInStep(k),
         NEW l \in Layers, PushOffset(l), UNCHANGED <<flat, positions, leafIdx>>
  PROVE  \A k \in Layers : OffsetsInStep(k)'
<1> SUFFICES ASSUME NEW k \in Layers
             PROVE  OffsetsInStep(k)'
  OBVIOUS
<1>1. /\ Entries(k) \in Nat /\ Entries(k)' >= Entries(k)
      /\ k = l => Entries(k)' = Entries(k)
  BY EntriesTyped, EntriesAfterPush DEF LayerInStep, Layers
<1>2. CASE k = l
  BY <1>1, <1>2, OffsetPushed, LenProperties DEF OffsetsInStep, LayersOK
<1>3. CASE k # l
  <2>1. offsets'[k] = offsets[k] /\ offsets[k] \in Seq(Nat) /\ Len(offsets[k]) \in Nat
    BY <1>3, OffsetPushed, LenProperties DEF LayersOK
  <2>2. offsets[k][Len(offsets[k])] \in Nat
    BY <2>1 DEF LayerInStep
  <2>3. Entries(k)' \in Nat
    <3>1. k = l - 1 \/ k # l - 1
      OBVIOUS
    <3> QED
      BY <1>1, <3>1, EntriesAfterPush
  <2>4. offsets'[k][Len(offsets'[k])] <= Entries(k)'
    BY <1>1, <2>1, <2>2, <2>3 DEF LayerInStep
  <2>5. Len(offsets'[k]) > 0 /\ offsets'[k][1] = 0 /\ OffsetsAccepted(offsets'[k])
    BY <2>1 DEF LayerInStep
  <2> QED
    BY <2>4, <2>5 DEF OffsetsInStep
<1> QED
  BY <1>2, <1>3

(* A null list pushes its bit and its offset in the same step.             *)
LEMMA ScanNullKeeps ==
  ASSUME IInv, ScanNull
  PROVE  IInv'
<1> USE DEF IInv, TypeOK
<1>1. /\ phase = "scan" /\ open \in Layers /\ rest[open] # <<>>
      /\ \A k \in Layers : LayerInStep(k)
  BY DEF ScanNull, AtElement, WalkOK, Loops, Layers, BuffersInStep
<1>2. CASE Fail("error")
  BY <1>2, FailKeeps
<1>3. CASE ~Fail("error")
  <2>1. /\ SkipElement /\ PushValidity(open, FALSE) /\ PushOffset(open)
        /\ UNCHANGED <<items, phase, total, counters, flat, bits, valid, positions, leafIdx>>
    BY <1>3 DEF ScanNull, counted
  <2>a. open' \in Loops /\ rest' \in Rests
    BY <1>1, <2>1, WalkTyped
  <2>2. WalkOK' /\ CountsOK' /\ LeavesOK'
    BY <1>1, <2>1, <2>a DEF WalkOK, CountsOK, LeavesOK, counted
  <2>3. LayersOK'
    BY <1>1, <2>1, OffsetPushed, ValidityPushed DEF LayersOK
  <2>4. ASSUME NEW k \in Layers PROVE LayerInStep(k)'
    <3>1. OffsetsInStep(k)'
      BY <1>1, <2>1, OffsetsStayInStep
    <3>2. OpenLists(k)' = OpenLists(k) /\ OpenLists(k) \in Nat
      BY <2>1 DEF SkipElement, OpenLists
    <3>3. Len(validity[k]) \in Nat /\ Len(offsets[k]) \in Nat
      BY LenProperties DEF LayersOK
    <3>4. ASSUME Optional(k)
          PROVE  Len(validity'[k]) = Len(offsets'[k]) - 1 + OpenLists(k)'
      <4>1. CASE k = open
        <5>1. Len(offsets'[k]) = Len(offsets[k]) + 1
          BY <1>1, <2>1, <4>1, OffsetPushed
        <5>2. Len(validity'[k]) = Len(validity[k]) + 1
          BY <1>1, <2>1, <3>4, <4>1, ValidityPushed
        <5>3. Len(validity[k]) = Len(offsets[k]) - 1 + OpenLists(k)
          BY <1>1, <3>4 DEF LayerInStep
        <5> QED
          BY <3>2, <3>3, <5>1, <5>2, <5>3
      <4>2. CASE k # open
        BY <1>1, <2>1, <3>2, <3>4, <4>2, OffsetPushed, ValidityPushed DEF LayerInStep
      <4> QED
        BY <4>1, <4>2
    <3> QED
      BY <3>1, <3>4 DEF OffsetsInStep, LayerInStep
  <2> QED
    BY <2>2, <2>3, <2>4 DEF BuffersInStep
<1> QED
  BY <1>2, <1>3

(* Leaving a list pushes the offset its validity bit was waiting for.      *)
LEMMA ScanLeaveKeeps ==
  ASSUME IInv, ScanLeave
  PROVE  IInv'
<1> USE DEF IInv, TypeOK
<1>1. /\ phase = "scan" /\ open \in Loops /\ open - 1 \in Layers
      /\ \A k \in Layers : LayerInStep(k)
  BY DepthAssumption DEF ScanLeave, AtEnd, WalkOK, Loops, Layers, BuffersInStep
<1>2. CASE Fail("error")
  BY <1>2, FailKeeps
<1>3. CASE ~Fail("error")
  <2>1. /\ LeaveList /\ AtEnd /\ PushOffset(open - 1)
        /\ UNCHANGED <<items, phase, counted, validity, flat, bits, valid, positions, leafIdx>>
    BY <1>3 DEF ScanLeave
  <2>2. WalkOK' /\ CountsOK' /\ LeavesOK'
    BY <1>1, <2>1, WalkTyped DEF WalkOK, CountsOK, LeavesOK, counted
  <2>3. LayersOK'
    BY <1>1, <2>1, OffsetPushed DEF LayersOK
  <2>4. ASSUME NEW k \in Layers PROVE LayerInStep(k)'
    <3>1. OffsetsInStep(k)'
      BY <1>1, <2>1, OffsetsStayInStep
    <3>2. Len(validity[k]) \in Nat /\ Len(offsets[k]) \in Nat
      BY LenProperties DEF LayersOK
    <3>3. /\ k = open - 1 => OpenLists(k) = 1 /\ OpenLists(k)' = 0
          /\ k # open - 1 => OpenLists(k)' = OpenLists(k)
      BY <1>1, <2>1, DepthAssumption DEF LeaveList, OpenLists, Loops, Layers
    <3>4. Optional(k) => Len(validity'[k]) = Len(offsets'[k]) - 1 + OpenLists(k)'
      <4>1. CASE k = open - 1
        BY <1>1, <2>1, <3>2, <3>3, <4>1, OffsetPushed DEF LayerInStep
      <4>2. CASE k # open - 1
        BY <1>1, <2>1, <3>3, <4>2, OffsetPushed DEF LayerInStep
      <4> QED
        BY <4>1, <4>2
    <3> QED
      BY <3>1, <3>4 DEF OffsetsInStep, LayerInStep
  <2> QED
    BY <2>2, <2>3, <2>4 DEF BuffersInStep
<1> QED
  BY <1>2, <1>3

(* Entering a list pushes its bit ahead of its offset.                     *)
LEMMA ScanEnterKeeps ==
  ASSUME IInv, ScanEnter
  PROVE  IInv'
<1> USE DEF IInv, TypeOK
<1>a. /\ phase = "scan" /\ EnterList /\ AtElement /\ Next1(open) # None
      /\ PushValidity(open, TRUE)
      /\ UNCHANGED <<items, phase, total, counters, offsets, flat, bits, valid, positions, leafIdx>>
  BY DEF ScanEnter, counted
<1>b. open \in Layers /\ \A k \in Layers : LayerInStep(k)
  BY <1>a, DepthAssumption DEF AtElement, WalkOK, Loops, Layers, BuffersInStep
<1>1. /\ phase = "scan" /\ open \in Layers /\ EnterList /\ AtElement /\ Next1(open) # None
      /\ \A k \in Layers : LayerInStep(k)
      /\ PushValidity(open, TRUE)
      /\ UNCHANGED <<items, phase, total, counters, offsets, flat, bits, valid, positions, leafIdx>>
  BY <1>a, <1>b
<1>2. open' \in Loops /\ rest' \in Rests
  BY <1>1, WalkTyped
<1>3. WalkOK' /\ CountsOK' /\ LeavesOK'
  BY <1>1, <1>2 DEF WalkOK, CountsOK, LeavesOK
<1>4. LayersOK'
  BY <1>1, ValidityPushed DEF LayersOK
<1>5. \A k \in Layers : Entries(k)' = Entries(k)
  BY <1>1 DEF Entries, LeafEntries
<1>6. ASSUME NEW k \in Layers PROVE LayerInStep(k)'
  <2>1. OffsetsInStep(k)'
    BY <1>1, <1>5 DEF OffsetsInStep, LayerInStep
  <2>2. Len(validity[k]) \in Nat /\ Len(offsets[k]) \in Nat
    BY LenProperties DEF LayersOK
  <2>3. /\ k = open => OpenLists(k) = 0 /\ OpenLists(k)' = 1
        /\ k # open => OpenLists(k)' = OpenLists(k)
    BY <1>1, DepthAssumption DEF EnterList, OpenLists, Layers
  <2>4. ASSUME Optional(k)
        PROVE  Len(validity'[k]) = Len(offsets'[k]) - 1 + OpenLists(k)'
    <3>1. Len(validity[k]) = Len(offsets[k]) - 1 + OpenLists(k)
      BY <1>1, <2>4 DEF LayerInStep
    <3>2. CASE k = open
      <4>1. Len(validity'[k]) = Len(validity[k]) + 1
        BY <1>1, <2>4, <3>2, ValidityPushed
      <4> QED
        BY <1>1, <2>2, <2>3, <3>1, <3>2, <4>1
    <3>3. CASE k # open
      BY <1>1, <2>3, <3>1, <3>3, ValidityPushed
    <3> QED
      BY <3>2, <3>3
  <2> QED
    BY <2>1, <2>4 DEF OffsetsInStep, LayerInStep
<1> QED
  BY <1>1, <1>3, <1>4, <1>6 DEF BuffersInStep

(* Whatever the leaf kind, one element stored is one more leaf entry.      *)
LEMMA StoreAdvances ==
  ASSUME LeavesOK, NEW v \in Node[Leaf], Store(v)
  PROVE  LeafEntries \in Nat /\ LeafEntries' = LeafEntries + 1
<1>1. Len(flat) \in Nat /\ Len(positions) \in Nat /\ leafIdx \in Nat
  BY LenProperties DEF LeavesOK
<1>2. CASE LeafKind = "bool"
  BY <1>1, <1>2 DEF Store, StepIdx, Indexed, LeafEntries
<1>3. CASE LeafKind = "nested" /\ InnerOption
  <2>1. \E p : positions' = Append(positions, p)
    BY <1>3 DEF Store, StoreNull, StoreValue, NestedValue
  <2>2. Len(positions') = Len(positions) + 1
    <3>1. PICK p : positions' = Append(positions, p)
      BY <2>1
    <3> QED
      BY <3>1 DEF LeavesOK
  <2> QED
    BY <1>1, <1>3, <2>2 DEF LeafEntries
<1>4. CASE LeafKind = "nested" /\ ~InnerOption
  <2>1. v # None
    BY <1>4 DEF InnerOption, Optional
  <2>2. flat' = Append(flat, Encode[v])
    BY <1>4, <2>1 DEF Store, StoreValue, NestedValue
  <2>3. Len(flat') = Len(flat) + 1
    BY <2>2 DEF LeavesOK
  <2> QED
    BY <1>1, <1>4, <2>3 DEF LeafEntries
<1>5. CASE LeafKind \in {"numeric", "string"}
  <2>1. \E e : flat' = Append(flat, e)
    BY <1>5 DEF Store, StoreNull, StoreValue, PushedValue
  <2>2. Len(flat') = Len(flat) + 1
    <3>1. PICK e : flat' = Append(flat, e)
      BY <2>1
    <3> QED
      BY <3>1 DEF LeavesOK
  <2> QED
    BY <1>1, <1>5, <2>2 DEF LeafEntries
<1> QED
  BY <1>2, <1>3, <1>4, <1>5, KindAssumption DEF LeafKinds

(* Storing a leaf touches no list buffer and only lengthens the child.     *)
LEMMA ScanLeafKeeps ==
  ASSUME IInv, ScanLeaf
  PROVE  IInv'
<1> USE DEF IInv, TypeOK
<1>1. PICK v \in Node[Leaf] : AtLeaf(v) /\ IF Fits(v) THEN Store(v) ELSE Fail("panic")
  BY DEF ScanLeaf
<1>2. CASE ~Fits(v)
  BY <1>1, <1>2, FailKeeps
<1>3. CASE Fits(v)
  <2>1. /\ phase = "scan" /\ open = Leaf /\ rest[open] # <<>> /\ SkipElement /\ Store(v)
        /\ UNCHANGED <<items, phase, total, counters, offsets, validity>>
    BY <1>1, <1>3 DEF AtLeaf, Store, counted
  <2>2. open' \in Loops /\ rest' \in Rests
    BY <2>1, WalkTyped
  <2>3. WalkOK' /\ CountsOK' /\ LayersOK'
    BY <2>1, <2>2 DEF WalkOK, CountsOK, LayersOK
  <2>4. LeavesOK'
    BY <1>3, <2>1, StoreTyped
  <2>5. ASSUME NEW k \in Layers PROVE LayerInStep(k)'
    <3>1. LayerInStep(k) /\ OpenLists(k)' = OpenLists(k)
      BY <2>1 DEF BuffersInStep, SkipElement, OpenLists
    <3>2. Entries(k) \in Nat /\ Entries(k)' >= Entries(k) /\ Entries(k)' \in Nat
      <4>1. CASE k = Depth
        BY <2>1, <4>1, StoreAdvances DEF Entries
      <4>2. CASE k # Depth
        BY <2>1, <4>2, EntriesTyped DEF Entries, BuffersInStep, LayerInStep
      <4> QED
        BY <4>1, <4>2
    <3>3. offsets[k][Len(offsets[k])] \in Nat
      BY <3>1, LenProperties DEF LayersOK, LayerInStep
    <3> QED
      BY <2>1, <3>1, <3>2, <3>3 DEF LayerInStep
  <2> QED
    BY <2>3, <2>4, <2>5 DEF BuffersInStep
<1> QED
  BY <1>2, <1>3

(* Assembling reads the buffers and ends the function.                     *)
LEMMA AssembleKeeps ==
  ASSUME IInv, Assemble
  PROVE  IInv'
<1> USE DEF IInv, TypeOK
<1>1. phase = "scan" /\ phase' \in Ended
      /\ UNCHANGED <<items, open, rest, total, counters, buffers>>
  BY DEF Assemble, Ended, walk, counted
<1>2. WalkOK' /\ CountsOK' /\ LayersOK' /\ LeavesOK'
  BY <1>1 DEF buffers, WalkOK, CountsOK, LayersOK, LeavesOK, Ended
<1>3. ASSUME NEW k \in Layers PROVE LayerInStep(k)'
  BY <1>1 DEF BuffersInStep, LayerInStep, OpenLists, Entries, LeafEntries, buffers
<1> QED
  BY <1>2, <1>3 DEF BuffersInStep

-----------------------------------------------------------------------------
(* Every step keeps the invariant.                                         *)
LEMMA InvariantKept == IInv /\ [Next]_vars => IInv'
<1> SUFFICES ASSUME IInv, [Next]_vars PROVE IInv'
  OBVIOUS
<1>1. CASE Precount
  BY <1>1, PrecountKeeps
<1>2. CASE DeclareBuffers
  BY <1>2, DeclareKeeps
<1>3. CASE ScanNull \/ ScanEnter \/ ScanLeave \/ ScanLeaf
  BY <1>3, ScanNullKeeps, ScanEnterKeeps, ScanLeaveKeeps, ScanLeafKeeps
<1>4. CASE ScanFailing \/ ScanTooMany
  BY <1>4, FailKeeps DEF ScanFailing, ScanTooMany
<1>5. CASE Assemble
  BY <1>5, AssembleKeeps
<1>6. CASE UNCHANGED vars
  <2>1. UNCHANGED <<items, phase, open, rest, total, counters, buffers>>
    BY <1>6 DEF vars, walk, counted
  <2>2. TypeOK'
    BY <2>1 DEF IInv, TypeOK, buffers, WalkOK, CountsOK, LayersOK, LeavesOK
  <2>3. BuffersInStep'
    BY <2>1 DEF IInv, buffers, BuffersInStep, LayerInStep, OpenLists, Entries, LeafEntries
  <2> QED
    BY <2>2, <2>3 DEF IInv
<1> QED
  BY <1>1, <1>2, <1>3, <1>4, <1>5, <1>6 DEF Next, Scan, Return

(* The invariant holds in every reachable state.                           *)
LEMMA Invariant == Spec => []IInv
BY Initially, InvariantKept, PTL DEF Spec

(* Every reachable state of the generated loops is well typed, for every   *)
(* depth, leaf kind and input.                                             *)
THEOREM TypeCorrect == Spec => []TypeOK
<1>1. IInv => TypeOK
  BY DEF IInv
<1> QED
  BY <1>1, Invariant, PTL

(* At every step of the scan every layer's buffers could be assembled up   *)
(* to its open list: for every depth and every input.                      *)
THEOREM BuffersAlwaysInStep == Spec => []BuffersInStep
<1>1. IInv => BuffersInStep
  BY DEF IInv
<1> QED
  BY <1>1, Invariant, PTL

-----------------------------------------------------------------------------
Spots == [open : Layers, rest : Rests, total : Nat, counters : [1 .. Depth - 1 -> Nat]]

-----------------------------------------------------------------------------
(* SpotAfter, case by case.                                                *)

(* The spot after a null list.                                             *)
LEMMA AfterNull ==
  ASSUME NEW s \in Spots, s.rest[s.open] # <<>>, Head(s.rest[s.open]) = None
  PROVE  SpotAfter(s) = [open |-> s.open, rest |-> [s.rest EXCEPT ![s.open] = Tail(@)],
                         total |-> s.total, counters |-> Counted(s.counters, s.open)]
BY DEF SpotAfter, Spots

(* The spot after a list of leaves, which is counted whole.                *)
LEMMA AfterLeaves ==
  ASSUME NEW s \in Spots, s.rest[s.open] # <<>>, Head(s.rest[s.open]) # None, s.open = Depth
  PROVE  SpotAfter(s) = [open |-> s.open, rest |-> [s.rest EXCEPT ![s.open] = Tail(@)],
                         total |-> s.total + Len(Head(s.rest[s.open])),
                         counters |-> Counted(s.counters, s.open)]
BY DEF SpotAfter, Spots

(* The spot after entering a list of lists.                                *)
LEMMA AfterEnter ==
  ASSUME NEW s \in Spots, s.rest[s.open] # <<>>, Head(s.rest[s.open]) # None, s.open # Depth
  PROVE  SpotAfter(s) = [open |-> s.open + 1,
                         rest |-> [[s.rest EXCEPT ![s.open] = Tail(@)]
                                     EXCEPT ![s.open + 1] = Head(s.rest[s.open])],
                         total |-> s.total, counters |-> s.counters]
BY DEF SpotAfter, Spots

(* The spot after leaving a list of lists.                                 *)
LEMMA AfterLeave ==
  ASSUME NEW s \in Spots, s.rest[s.open] = <<>>
  PROVE  SpotAfter(s) = [open |-> s.open - 1, rest |-> s.rest,
                         total |-> s.total, counters |-> Counted(s.counters, s.open - 1)]
BY DEF SpotAfter, Spots

(* Every step of the precount goes to the spot after the current one.      *)
LEMMA PrecountSteps ==
  ASSUME IInv, Precount
  PROVE  /\ Here \in Spots /\ ~AtLast(Here)
         /\ Here' = SpotAfter(Here)
         /\ trail' = Append(trail, Here)
<1> USE DEF IInv, TypeOK
<1>1. phase = "precount" /\ open \in Layers /\ trail' = Append(trail, Here)
  BY DEF Precount, PrecountNull, PrecountLeaves, PrecountEnter, PrecountLeave,
         WalkOK, Loops, Layers, Remember
<1>2. Here \in Spots
  BY <1>1 DEF Here, Spots, WalkOK, CountsOK
<1>3. Here.open = open /\ Here.rest = rest /\ Here.total = total /\ Here.counters = counters
  BY DEF Here
<1>4. CASE PrecountNull
  <2>1. rest[open] # <<>> /\ Head(rest[open]) = None
    BY <1>4 DEF PrecountNull, AtElement, Next1
  <2>2. /\ open' = open /\ rest' = [rest EXCEPT ![open] = Tail(@)]
        /\ total' = total /\ counters' = Counted(counters, open)
    BY <1>4 DEF PrecountNull, SkipElement, CountedLists
  <2> QED
    BY <1>1, <1>2, <1>3, <2>1, <2>2, AfterNull DEF Here, AtLast
<1>5. CASE PrecountLeaves
  <2>1. rest[open] # <<>> /\ Head(rest[open]) # None /\ open = Depth
    BY <1>5 DEF PrecountLeaves, AtElement, Next1
  <2>2. /\ open' = open /\ rest' = [rest EXCEPT ![open] = Tail(@)]
        /\ total' = total + Len(Head(rest[open])) /\ counters' = Counted(counters, open)
    BY <1>5 DEF PrecountLeaves, SkipElement, CountedLists, Next1
  <2> QED
    BY <1>1, <1>2, <1>3, <2>1, <2>2, AfterLeaves DEF Here, AtLast
<1>6. CASE PrecountEnter
  <2>1. rest[open] # <<>> /\ Head(rest[open]) # None /\ open # Depth
    BY <1>1, <1>6, DepthAssumption DEF PrecountEnter, AtElement, Next1, Layers
  <2>2. /\ open' = open + 1 /\ total' = total /\ counters' = counters
        /\ rest' = [[rest EXCEPT ![open] = Tail(@)] EXCEPT ![open + 1] = Head(rest[open])]
    BY <1>6 DEF PrecountEnter, EnterList, Next1, counted
  <2> QED
    BY <1>1, <1>2, <1>3, <2>1, <2>2, AfterEnter DEF Here, AtLast
<1>7. CASE PrecountLeave
  <2>1. rest[open] = <<>> /\ open # 1
    BY <1>1, <1>7 DEF PrecountLeave, AtEnd, Layers
  <2>2. /\ open' = open - 1 /\ rest' = rest /\ total' = total
        /\ counters' = Counted(counters, open - 1)
    BY <1>7 DEF PrecountLeave, LeaveList, CountedLists
  <2> QED
    BY <1>1, <1>2, <1>3, <2>1, <2>2, AfterLeave DEF Here, AtLast
<1> QED
  BY <1>4, <1>5, <1>6, <1>7 DEF Precount

-----------------------------------------------------------------------------
(* What the trail records.                                                 *)

(* No spot of the trail has counted more than has been counted now.        *)
Below(s) == s.total <= total /\ \A l \in 1 .. Depth - 1 : s.counters[l] <= counters[l]

TrailLinked ==
  /\ trail \in Seq(Spots)
  /\ trail # <<>> => trail[1] = Start
  /\ \A k \in 1 .. Len(trail) - 1 : trail[k + 1] = SpotAfter(trail[k]) /\ ~AtLast(trail[k])
  /\ \A k \in 1 .. Len(trail) : Below(trail[k])

TrailUnderway ==
  phase = "precount" =>
    /\ trail = <<>> => Here = Start
    /\ trail # <<>> => Here = SpotAfter(trail[Len(trail)]) /\ ~AtLast(trail[Len(trail)])

TrailComplete ==
  phase \in {"scan", "done"} =>
    /\ trail # <<>> /\ AtLast(trail[Len(trail)])
    /\ trail[Len(trail)].total = total /\ trail[Len(trail)].counters = counters

TrailInv == TrailLinked /\ TrailUnderway /\ TrailComplete

(* Counting a list never lowers a counter.                                 *)
LEMMA CountedGrows ==
  ASSUME NEW c \in [1 .. Depth - 1 -> Nat], NEW l \in Layers
  PROVE  /\ Counted(c, l) \in [1 .. Depth - 1 -> Nat]
         /\ \A j \in 1 .. Depth - 1 : c[j] <= Counted(c, l)[j]
<1>1. CASE l = 1
  BY <1>1 DEF Counted
<1>2. CASE l # 1
  <2>1. l - 1 \in 1 .. Depth - 1
    BY <1>2, DepthAssumption DEF Layers
  <2>2. Counted(c, l) = [c EXCEPT ![l - 1] = @ + 1]
    BY <1>2 DEF Counted
  <2> QED
    BY <2>1, <2>2
<1> QED
  BY <1>1, <1>2

(* The precount loop never lowers a count.                                 *)
LEMMA PrecountGrows ==
  ASSUME IInv, Precount
  PROVE  total <= total' /\ \A j \in 1 .. Depth - 1 : counters[j] <= counters'[j]
<1> USE DEF IInv, TypeOK
<1>1. open \in Layers /\ total \in Nat /\ counters \in [1 .. Depth - 1 -> Nat]
  BY DEF Precount, PrecountNull, PrecountLeaves, PrecountEnter, PrecountLeave,
         WalkOK, CountsOK, Loops, Layers
<1>2. CASE PrecountNull
  <2>1. total' = total /\ counters' = Counted(counters, open)
    BY <1>2 DEF PrecountNull, CountedLists
  <2>2. \A j \in 1 .. Depth - 1 : counters[j] <= Counted(counters, open)[j]
    BY <1>1, CountedGrows
  <2> QED
    BY <1>1, <2>1, <2>2
<1>3. CASE PrecountLeaves
  <2>1. Next1(open) \in Node[open]
    BY <1>1, <1>3, HeadTailProperties
    DEF PrecountLeaves, AtElement, Next1, WalkOK, Rests, Loops, Layers
  <2>2. Len(Next1(open)) \in Nat
    BY <1>1, <1>3, <2>1, NodeAssumption, LenProperties DEF PrecountLeaves
  <2>3. total' = total + Len(Next1(open)) /\ counters' = Counted(counters, open)
    BY <1>3 DEF PrecountLeaves, CountedLists
  <2>4. \A j \in 1 .. Depth - 1 : counters[j] <= Counted(counters, open)[j]
    BY <1>1, CountedGrows
  <2> QED
    BY <1>1, <2>2, <2>3, <2>4
<1>4. CASE PrecountEnter
  BY <1>1, <1>4 DEF PrecountEnter, counted
<1>5. CASE PrecountLeave
  <2>1. open - 1 \in Layers
    BY <1>1, <1>5, DepthAssumption DEF PrecountLeave, AtEnd, Layers
  <2>2. total' = total /\ counters' = Counted(counters, open - 1)
    BY <1>5 DEF PrecountLeave, CountedLists
  <2>3. \A j \in 1 .. Depth - 1 : counters[j] <= Counted(counters, open - 1)[j]
    BY <1>1, <2>1, CountedGrows
  <2> QED
    BY <1>1, <2>2, <2>3
<1> QED
  BY <1>2, <1>3, <1>4, <1>5 DEF Precount

(* Appending the current spot to the trail keeps it linked.                *)
LEMMA TrailExtended ==
  ASSUME IInv, TrailLinked, TrailUnderway, phase = "precount",
         Here \in Spots, trail' = Append(trail, Here), items' = items,
         total <= total', total' \in Nat,
         counters' \in [1 .. Depth - 1 -> Nat],
         \A j \in 1 .. Depth - 1 : counters[j] <= counters'[j]
  PROVE  /\ TrailLinked'
         /\ trail' # <<>> /\ trail'[Len(trail')] = Here
<1>a. trail \in Seq(Spots) /\ Len(trail) \in Nat
  BY DEF TrailLinked
<1>b. /\ trail' \in Seq(Spots) /\ Len(trail') = Len(trail) + 1
      /\ \A k \in 1 .. Len(trail) : trail'[k] = trail[k]
      /\ trail'[Len(trail) + 1] = Here
  BY <1>a
<1>c. trail # <<>> <=> Len(trail) \in Nat \ {0}
  BY <1>a
<1>1. /\ trail \in Seq(Spots) /\ Len(trail) \in Nat
      /\ trail' \in Seq(Spots) /\ Len(trail') = Len(trail) + 1
      /\ \A k \in 1 .. Len(trail) : trail'[k] = trail[k]
      /\ trail'[Len(trail) + 1] = Here
      /\ trail # <<>> <=> Len(trail) \in Nat \ {0}
  BY <1>a, <1>b, <1>c
<1>2. trail'[1] = Start'
  <2>1. Start' = Start
    BY DEF Start
  <2>2. CASE trail = <<>>
    BY <1>1, <2>1, <2>2 DEF TrailUnderway
  <2>3. CASE trail # <<>>
    BY <1>1, <2>1, <2>3 DEF TrailLinked
  <2> QED
    BY <2>2, <2>3
<1>3. ASSUME NEW k \in 1 .. Len(trail') - 1
      PROVE  trail'[k + 1] = SpotAfter(trail'[k]) /\ ~AtLast(trail'[k])
  <2>1. CASE k = Len(trail)
    BY <1>1, <2>1 DEF TrailUnderway
  <2>2. CASE k \in 1 .. Len(trail) - 1
    BY <1>1, <2>2 DEF TrailLinked
  <2> QED
    BY <1>1, <2>1, <2>2
<1>4. ASSUME NEW k \in 1 .. Len(trail')
      PROVE  Below(trail[k])'
  <2>1. total \in Nat /\ counters \in [1 .. Depth - 1 -> Nat]
    BY DEF IInv, TypeOK, CountsOK
  <2>2. Below(trail'[k])
    <3>1. CASE k = Len(trail) + 1
      BY <1>1, <2>1, <3>1 DEF Here, Below
    <3>2. CASE k \in 1 .. Len(trail)
      BY <1>1, <3>2 DEF TrailLinked
    <3> QED
      BY <1>1, <3>1, <3>2
  <2>3. trail'[k] \in Spots
    BY <1>1
  <2>4. trail'[k].total \in Nat /\ trail'[k].counters \in [1 .. Depth - 1 -> Nat]
    BY <2>3 DEF Spots
  <2>5. trail'[k].total <= total'
    BY <2>1, <2>2, <2>4 DEF Below
  <2>6. ASSUME NEW j \in 1 .. Depth - 1 PROVE trail'[k].counters[j] <= counters'[j]
    <3>1. /\ trail'[k].counters[j] \in Nat /\ counters[j] \in Nat /\ counters'[j] \in Nat
          /\ trail'[k].counters[j] <= counters[j] /\ counters[j] <= counters'[j]
      BY <2>1, <2>2, <2>4 DEF Below
    <3> QED
      BY <3>1
  <2> QED
    BY <2>5, <2>6 DEF Below
<1> QED
  BY <1>1, <1>2, <1>3, <1>4 DEF TrailLinked

(* The trail is empty before the first step.                               *)
LEMMA TrailStart == Init => TrailInv
<1> SUFFICES ASSUME Init PROVE TrailInv
  OBVIOUS
<1>1. trail = <<>> /\ phase = "precount" /\ Here = Start
  BY DEF Init, StartOfItems, Here, Start
<1> QED
  BY <1>1 DEF TrailInv, TrailLinked, TrailUnderway, TrailComplete

(* Each precount step adds the spot it left to the trail.                  *)
LEMMA TrailOfPrecount ==
  ASSUME IInv, TrailInv, Precount
  PROVE  TrailInv'
<1>1. /\ phase = "precount" /\ phase' = "precount" /\ items' = items
      /\ trail' = Append(trail, Here) /\ Here \in Spots /\ ~AtLast(Here)
      /\ Here' = SpotAfter(Here)
  BY PrecountSteps
  DEF Precount, PrecountNull, PrecountLeaves, PrecountEnter, PrecountLeave
<1>2. CountsOK' /\ total <= total' /\ \A j \in 1 .. Depth - 1 : counters[j] <= counters'[j]
  BY PrecountKeeps, PrecountGrows DEF IInv, TypeOK
<1>3. TrailLinked' /\ trail' # <<>> /\ trail'[Len(trail')] = Here
  BY <1>1, <1>2, TrailExtended DEF TrailInv, CountsOK
<1>4. TrailUnderway' /\ TrailComplete'
  BY <1>1, <1>3 DEF TrailUnderway, TrailComplete
<1> QED
  BY <1>3, <1>4 DEF TrailInv

(* Declaring the buffers completes the trail with the last spot.           *)
LEMMA TrailOfDeclare ==
  ASSUME IInv, TrailInv, DeclareBuffers
  PROVE  /\ TrailInv'
         /\ trail' # <<>> /\ trail'[1] = Start
<1>1. /\ phase = "precount" /\ phase' = "scan" /\ AllRead /\ items' = items
      /\ total' = total /\ counters' = counters /\ trail' = Append(trail, Here)
  BY DEF DeclareBuffers, counted, Remember
<1>2. CountsOK /\ Here \in Spots /\ AtLast(Here)
  BY <1>1, DepthAssumption
  DEF AllRead, Here, Spots, AtLast, IInv, TypeOK, WalkOK, CountsOK, Layers
<1>3. total <= total' /\ \A j \in 1 .. Depth - 1 : counters[j] <= counters'[j]
  BY <1>1, <1>2 DEF CountsOK
<1>4. TrailLinked' /\ trail' # <<>> /\ trail'[Len(trail')] = Here
  BY <1>1, <1>2, <1>3, TrailExtended DEF TrailInv, CountsOK
<1>5. TrailUnderway' /\ TrailComplete'
  BY <1>1, <1>2, <1>4 DEF TrailUnderway, TrailComplete, Here
<1>6. trail'[1] = Start
  BY <1>1, <1>4 DEF TrailLinked, Start
<1> QED
  BY <1>4, <1>5, <1>6 DEF TrailInv

(* After that the trail and the counts no longer change.                   *)
LEMMA TrailUntouched ==
  ASSUME TrailInv, UNCHANGED <<items, total, counters, trail>>,
         \/ phase = "scan" /\ phase' \in {"scan"} \union Ended
         \/ UNCHANGED <<phase, open, rest>>
  PROVE  TrailInv'
<1>1. TrailLinked'
  BY DEF TrailInv, TrailLinked, Start, Below
<1>2. TrailUnderway'
  BY DEF TrailInv, TrailUnderway, Here, Start, Ended
<1>3. TrailComplete'
  BY DEF TrailInv, TrailComplete, Ended
<1> QED
  BY <1>1, <1>2, <1>3 DEF TrailInv

-----------------------------------------------------------------------------
(* The scan against the trail.                                             *)

Running == {"precount", "scan", "done"}

(* Nothing is left over in the iterator of a loop that is not open.        *)
Sealed == phase \in Running => \A l \in Loops : l > open => rest[l] = <<>>

(* The bitmaps of the leaves have the precounted length, and a running     *)
(* leaf index counts what has been pushed.                                 *)
LeafSizes ==
  phase \in {"scan", "done"} =>
    /\ LeafKind = "bool" => Len(bits) = total
    /\ InnerOption /\ LeafKind # "nested" => Len(valid) = total
    /\ LeafKind = "string" /\ InnerOption => leafIdx = Len(flat)

(* Of n items, r are to be read, u are open, and the rest have an offset   *)
(* besides the seed.                                                       *)
Balance(o, r, u, n) == o - 1 + r + u = n

(* Rows of the outermost layer, items to come and the item being read.     *)
RowsAndItems ==
  phase \in {"scan", "done"} =>
    Balance(Len(offsets[1]), Len(rest[1]), OpenLists(1), Len(items))

DoneAtEnd == phase = "done" => AllRead

JInv ==
  /\ IInv /\ TrailInv /\ Sealed /\ LeafSizes /\ RowsAndItems /\ DoneAtEnd
  /\ PrecountRetraced /\ NeverPanics

(* Loops inside the innermost open one stay exhausted or unused.           *)
LEMMA SealedKept ==
  ASSUME WalkOK, Sealed, phase \in Running,
         \/ EnterList /\ AtElement
         \/ SkipElement /\ rest[open] # <<>>
         \/ LeaveList /\ AtEnd
         \/ UNCHANGED <<open, rest>>
  PROVE  Sealed'
<1>1. open \in Loops /\ rest \in [Loops -> Seq(Elements)]
      /\ \A l \in Loops : l > open => rest[l] = <<>>
  BY DEF WalkOK, Rests, Sealed
<1> SUFFICES ASSUME NEW l \in Loops, l > open'
             PROVE  rest'[l] = <<>>
  BY DEF Sealed
<1>2. CASE EnterList /\ AtElement
  BY <1>1, <1>2, DepthAssumption DEF EnterList, AtElement, Loops
<1>3. CASE SkipElement /\ rest[open] # <<>>
  BY <1>1, <1>3, DepthAssumption DEF SkipElement, Loops
<1>4. CASE LeaveList /\ AtEnd
  <2>1. l > open \/ l = open
    BY <1>1, <1>4, DepthAssumption DEF LeaveList, Loops
  <2> QED
    BY <1>1, <1>4, <2>1 DEF LeaveList, AtEnd
<1>5. CASE UNCHANGED <<open, rest>>
  BY <1>1, <1>5
<1> QED
  BY <1>2, <1>3, <1>4, <1>5

(* Skipping an item, entering its list and leaving it keep the balance.    *)
LEMMA RowsAreMoved ==
  ASSUME NEW o \in Nat, NEW r \in Nat, NEW u, NEW n \in Nat,
         Balance(o, r, u, n), u \in {0, 1}
  PROVE  /\ Balance(o + 1, r - 1, u, n)
         /\ u = 0 => Balance(o, r - 1, 1, n)
         /\ u = 1 => Balance(o + 1, r, 0, n)
  BY DEF Balance

(* The offsets of the outermost layer, the items to read and the open item *)
(* keep their balance.                                                     *)
LEMMA RowsKept ==
  ASSUME IInv, RowsAndItems, phase = "scan",
         ScanNull \/ ScanEnter \/ ScanLeave \/ ScanLeaf
  PROVE  RowsAndItems'
<1> SUFFICES ASSUME phase' = "scan"
             PROVE  Balance(Len(offsets'[1]), Len(rest'[1]), OpenLists(1)', Len(items'))
  <2>1. phase' \in {"scan", "error", "panic"}
    BY DEF ScanNull, ScanEnter, ScanLeave, ScanLeaf, Fail, Store
  <2> QED
    BY <2>1 DEF RowsAndItems
<1> USE DEF IInv, TypeOK
<1>0. Balance(Len(offsets[1]), Len(rest[1]), OpenLists(1), Len(items))
  BY DEF RowsAndItems
<1>1. /\ \A k \in Layers : LayerInStep(k)
      /\ 1 \in Layers /\ 1 \in Loops /\ open \in Loops
  BY DepthAssumption DEF BuffersInStep, Layers, Loops, WalkOK
<1>2. Len(rest[1]) \in Nat /\ Len(offsets[1]) \in Nat /\ Len(items) \in Nat /\ OpenLists(1) \in {0, 1}
  BY <1>1, InputAssumption, LenProperties DEF WalkOK, Rests, LayersOK, OpenLists
<1>3. rest \in [Loops -> Seq(Elements)] /\ Leaf # 1
  BY DepthAssumption DEF WalkOK, Rests, Leaf
<1>m. /\ Balance(Len(offsets[1]) + 1, Len(rest[1]) - 1, OpenLists(1), Len(items))
      /\ OpenLists(1) = 0 => Balance(Len(offsets[1]), Len(rest[1]) - 1, 1, Len(items))
      /\ OpenLists(1) = 1 => Balance(Len(offsets[1]) + 1, Len(rest[1]), 0, Len(items))
  BY <1>0, <1>2, RowsAreMoved, Zenon
<1>4. CASE ScanNull
  <2>1. SkipElement /\ PushOffset(open) /\ items' = items
        /\ open \in Layers /\ rest[open] # <<>>
    BY <1>4, <1>1 DEF ScanNull, Fail, AtElement, Loops, Layers
  <2>2. CASE open = 1
    <3>1. Len(offsets'[1]) = Len(offsets[1]) + 1
      BY <1>1, <2>1, <2>2, OffsetPushed
    <3>2. Len(rest'[1]) = Len(rest[1]) - 1
      BY <1>3, <1>1, <2>1, <2>2 DEF SkipElement
    <3>3. OpenLists(1)' = OpenLists(1) /\ OpenLists(1) \in Nat /\ items' = items
      BY <2>1 DEF SkipElement, OpenLists
    <3> QED
      BY <1>m, <3>1, <3>2, <3>3
  <2>3. CASE open # 1
    <3>1. offsets'[1] = offsets[1] /\ rest'[1] = rest[1] /\ OpenLists(1)' = OpenLists(1)
      BY <1>1, <1>3, <2>1, <2>3, OffsetPushed DEF SkipElement, OpenLists
    <3> QED
      BY <1>0, <2>1, <3>1
  <2> QED
    BY <2>2, <2>3
<1>5. CASE ScanEnter
  <2>1. EnterList /\ items' = items /\ offsets' = offsets /\ open \in Layers /\ rest[open] # <<>>
    BY <1>5, <1>1 DEF ScanEnter, AtElement, Loops, Layers
  <2>2. CASE open = 1
    <3>1. Len(rest'[1]) = Len(rest[1]) - 1 /\ OpenLists(1) = 0 /\ OpenLists(1)' = 1
      BY <1>1, <1>3, <2>1, <2>2 DEF EnterList, OpenLists
    <3>2. items' = items /\ offsets'[1] = offsets[1]
      BY <2>1
    <3> QED
      BY <1>m, <3>1, <3>2
  <2>3. CASE open # 1
    <3>1. rest'[1] = rest[1] /\ OpenLists(1)' = OpenLists(1)
      BY <1>1, <1>3, <2>1, <2>3 DEF EnterList, OpenLists, Layers
    <3> QED
      BY <1>0, <2>1, <3>1
  <2> QED
    BY <2>2, <2>3
<1>6. CASE ScanLeave
  <2>1. LeaveList /\ PushOffset(open - 1) /\ items' = items /\ rest' = rest /\ open - 1 \in Layers
    BY <1>6, <1>1, DepthAssumption DEF ScanLeave, Fail, AtEnd, LeaveList, Loops, Layers
  <2>2. CASE open - 1 = 1
    <3>1. Len(offsets'[1]) = Len(offsets[1]) + 1
      BY <1>1, <2>1, <2>2, OffsetPushed
    <3>2. OpenLists(1) = 1 /\ OpenLists(1)' = 0
      BY <1>1, <2>1, <2>2 DEF LeaveList, OpenLists, Loops
    <3>3. items' = items /\ rest'[1] = rest[1]
      BY <2>1
    <3> QED
      BY <1>m, <3>1, <3>2, <3>3
  <2>3. CASE open - 1 # 1
    <3>1. offsets'[1] = offsets[1] /\ OpenLists(1)' = OpenLists(1)
      BY <1>1, <2>1, <2>3, OffsetPushed DEF LeaveList, OpenLists, Loops, Layers
    <3> QED
      BY <1>0, <2>1, <3>1
  <2> QED
    BY <2>2, <2>3
<1>7. CASE ScanLeaf
  <2>1. PICK v \in Node[Leaf] : AtLeaf(v) /\ Store(v)
    BY <1>7 DEF ScanLeaf, Fail
  <2>2. SkipElement /\ open = Leaf /\ items' = items /\ offsets' = offsets
    BY <2>1 DEF AtLeaf, Store
  <2>3. rest'[1] = rest[1] /\ OpenLists(1)' = OpenLists(1)
    BY <1>1, <1>3, <2>2 DEF SkipElement, OpenLists
  <2> QED
    BY <1>0, <2>2, <2>3
<1> QED
  BY <1>4, <1>5, <1>6, <1>7

-----------------------------------------------------------------------------
(* The leaf bitmaps.                                                       *)

(* They are declared with the precounted length.                           *)
LEMMA SizesDeclared ==
  ASSUME CountsOK, DeclareBuffers
  PROVE  LeafSizes'
<1>1. Len(Filled(TRUE)) = total /\ Len(Filled(FALSE)) = total
  BY FilledIsBits DEF CountsOK
<1>2. /\ total' = total /\ flat' = <<>> /\ leafIdx' = 0
      /\ LeafKind = "bool" => bits' = Filled(FALSE)
      /\ InnerOption /\ LeafKind # "nested" => valid' = Filled(TRUE)
  BY DEF DeclareBuffers, counted
<1> QED
  BY <1>1, <1>2 DEF LeafSizes

(* Overwriting a bit keeps their length.                                   *)
LEMMA SizesStored ==
  ASSUME LeavesOK, LeafSizes, phase = "scan", NEW v \in Node[Leaf], Fits(v), Store(v)
  PROVE  LeafSizes'
<1>0. total' = total /\ phase' = phase
  BY DEF Store, counted
<1>1. Len(bits') = Len(bits)
  <2>1. CASE v # None /\ LeafKind = "bool" /\ Encode[v]
    <3>1. Slot \in DOMAIN bits /\ bits' = [bits EXCEPT ![Slot] = TRUE]
      BY <2>1 DEF Fits, Store, StoreValue, BoolValue, SetBit
    <3> QED
      BY <3>1, SetIsBits DEF LeavesOK
  <2>2. CASE ~(v # None /\ LeafKind = "bool" /\ Encode[v])
    BY <2>2, KindAssumption
    DEF Store, StoreValue, StoreNull, BoolValue, NestedValue, PushedValue, LeafKinds
  <2> QED
    BY <2>1, <2>2
<1>2. Len(valid') = Len(valid)
  <2>1. CASE v = None /\ LeafKind # "nested"
    <3>1. Slot \in DOMAIN valid /\ valid' = [valid EXCEPT ![Slot] = FALSE]
      BY <2>1 DEF Fits, Store, StoreNull, Clear
    <3> QED
      BY <3>1, SetIsBits DEF LeavesOK
  <2>2. CASE ~(v = None /\ LeafKind # "nested")
    BY <2>2 DEF Store, StoreNull, StoreValue
  <2> QED
    BY <2>1, <2>2
<1>3. ASSUME LeafKind = "string", InnerOption
      PROVE  leafIdx' = Len(flat')
  <2>1. \E e : flat' = Append(flat, e)
    BY <1>3 DEF Store, StoreNull, StoreValue, PushedValue
  <2>2. Len(flat') = Len(flat) + 1
    <3>1. PICK e : flat' = Append(flat, e)
      BY <2>1
    <3> QED
      BY <3>1 DEF LeavesOK
  <2>3. leafIdx' = leafIdx + 1 /\ leafIdx = Len(flat)
    BY <1>3 DEF Store, StepIdx, Indexed, LeafSizes
  <2> QED
    BY <2>2, <2>3
<1> QED
  BY <1>0, <1>1, <1>2, <1>3 DEF LeafSizes

(* While fewer leaves are stored than were counted, the next one fits.     *)
LEMMA NextLeafFits ==
  ASSUME LeavesOK, CountsOK, LeafSizes, phase = "scan", LeafEntries < total,
         NEW v \in Node[Leaf]
  PROVE  Fits(v)
<1>1. Len(flat) \in Nat /\ leafIdx \in Nat /\ total \in Nat
  BY LenProperties DEF LeavesOK, CountsOK
<1>2. ASSUME v = None, LeafKind # "nested"
      PROVE  Slot \in DOMAIN valid
  <2>1. InnerOption
    BY <1>2 DEF InnerOption, Optional
  <2>2. Len(valid) = total /\ DOMAIN valid = 1 .. Len(valid)
    BY <1>2, <2>1, LenProperties DEF LeafSizes, LeavesOK
  <2>3. Slot = LeafEntries + 1 /\ LeafEntries \in Nat
    BY <1>1, <1>2, <2>1, KindAssumption DEF Slot, Indexed, LeafEntries, LeafSizes, LeafKinds
  <2> QED
    BY <1>1, <2>2, <2>3
<1>3. ASSUME v # None, LeafKind = "bool"
      PROVE  Slot \in DOMAIN bits
  <2>1. Len(bits) = total /\ DOMAIN bits = 1 .. Len(bits)
    BY <1>3, LenProperties DEF LeafSizes, LeavesOK
  <2>2. Slot = LeafEntries + 1 /\ LeafEntries \in Nat
    BY <1>1, <1>3 DEF Slot, Indexed, LeafEntries
  <2> QED
    BY <1>1, <2>1, <2>2
<1> QED
  BY <1>2, <1>3 DEF Fits

-----------------------------------------------------------------------------
(* The scan passes the spots of the trail.                                 *)

RetracedAt(k) ==
  \/ OnSpot(trail[k])
  \/ k < Len(trail) /\ BetweenSpots(trail[k], trail[k + 1])

(* While scanning, every spot of the trail but the last has its successor. *)
LEMMA TrailSpots ==
  ASSUME TrailInv, phase = "scan", NEW k \in 1 .. Len(trail)
  PROVE  /\ trail[k] \in Spots /\ Below(trail[k])
         /\ ~AtLast(trail[k]) =>
              k + 1 \in 1 .. Len(trail) /\ trail[k + 1] \in Spots /\ trail[k + 1] = SpotAfter(trail[k])
<1>1. trail \in Seq(Spots) /\ Len(trail) \in Nat /\ AtLast(trail[Len(trail)])
  BY DEF TrailInv, TrailLinked, TrailComplete
<1>2. trail[k] \in Spots /\ Below(trail[k])
  BY <1>1 DEF TrailInv, TrailLinked
<1>3. ASSUME ~AtLast(trail[k])
      PROVE  k + 1 \in 1 .. Len(trail) /\ trail[k + 1] \in Spots /\ trail[k + 1] = SpotAfter(trail[k])
  <2>1. k # Len(trail)
    BY <1>1, <1>3
  <2>2. k \in 1 .. Len(trail) - 1 /\ k + 1 \in 1 .. Len(trail)
    BY <1>1, <2>1
  <2> QED
    BY <1>1, <2>2 DEF TrailInv, TrailLinked
<1> QED
  BY <1>2, <1>3

(* The buffers are declared on the first spot.                             *)
LEMMA RetraceOfDeclare ==
  ASSUME IInv, Sealed, TrailInv, DeclareBuffers
  PROVE  PrecountRetraced'
<1>1. trail' # <<>> /\ trail'[1] = Start /\ TrailInv'
  BY TrailOfDeclare
<1>2. 1 \in 1 .. Len(trail')
  BY <1>1 DEF TrailInv, TrailLinked
<1>3. /\ open = 1 /\ rest[1] = <<>> /\ open' = 1 /\ items' = items
      /\ rest' = [rest EXCEPT ![1] = items] /\ rest \in [Loops -> Seq(Elements)]
  BY DEF DeclareBuffers, AllRead, IInv, TypeOK, WalkOK, Rests
<1>4. \A l \in Loops : l # 1 => rest[l] = <<>>
  BY <1>3 DEF Sealed, Running, DeclareBuffers, Loops
<1>5. rest' = Start.rest
  BY <1>3, <1>4 DEF Start
<1>6. LeafEntries' = 0
  BY KindAssumption DEF DeclareBuffers, LeafEntries, LeafKinds
<1>7. \A l \in 2 .. Depth : Len(offsets'[l]) - 1 = Start.counters[l - 1]
  BY DepthAssumption DEF DeclareBuffers, Seed, Start, Layers
<1>8. OnSpot(trail[1])'
  <2>1. Start.open = 1 /\ Start.total = 0
    BY DEF Start
  <2>2. trail'[1].open = 1 /\ trail'[1].rest = Start.rest /\ trail'[1].total = 0
        /\ trail'[1].counters = Start.counters
    BY <1>1, <2>1
  <2> QED
    BY <1>3, <1>5, <1>6, <1>7, <2>2 DEF OnSpot, CountersMatch
<1> QED
  BY <1>2, <1>8 DEF PrecountRetraced

(* Closing a list of layer l in the scan is counting one in the precount.  *)
LEMMA CountersAfterPush ==
  ASSUME LayersOK, LeavesOK, \A k \in Layers : LayerInStep(k),
         NEW s \in Spots, CountersMatch(s), NEW l \in Layers, PushOffset(l)
  PROVE  \A j \in 2 .. Depth : Len(offsets'[j]) - 1 = Counted(s.counters, l)[j - 1]
<1> SUFFICES ASSUME NEW j \in 2 .. Depth
             PROVE  Len(offsets'[j]) - 1 = Counted(s.counters, l)[j - 1]
  OBVIOUS
<1>a. j \in Layers /\ j - 1 \in 1 .. Depth - 1 /\ j # 1
  BY DepthAssumption DEF Layers
<1>b. Len(offsets[j]) - 1 = s.counters[j - 1] /\ s.counters \in [1 .. Depth - 1 -> Nat]
  BY DEF CountersMatch, Spots
<1>c. Len(offsets[j]) \in Nat
  BY <1>a, LenProperties DEF LayersOK
<1>1. /\ j \in Layers /\ j - 1 \in 1 .. Depth - 1 /\ j # 1
      /\ Len(offsets[j]) - 1 = s.counters[j - 1]
      /\ s.counters \in [1 .. Depth - 1 -> Nat]
      /\ Len(offsets[j]) \in Nat
  BY <1>a, <1>b, <1>c
<1>2. CASE j = l
  <2>1. Len(offsets'[j]) = Len(offsets[j]) + 1
    BY <1>2, OffsetPushed
  <2>a. Counted(s.counters, l) = [s.counters EXCEPT ![j - 1] = @ + 1]
    BY <1>1, <1>2 DEF Counted
  <2>2. Counted(s.counters, l)[j - 1] = s.counters[j - 1] + 1
    BY <1>1, <2>a
  <2>3. Len(offsets'[j]) - 1 = (Len(offsets[j]) - 1) + 1
    BY <1>1, <2>1
  <2> QED
    BY <1>1, <2>2, <2>3
<1>3. CASE j # l
  <2>1. offsets'[j] = offsets[j]
    BY <1>1, <1>3, OffsetPushed
  <2>2. Counted(s.counters, l)[j - 1] = s.counters[j - 1]
    BY <1>1, <1>3 DEF Counted, Layers
  <2> QED
    BY <1>1, <2>1, <2>2
<1> QED
  BY <1>2, <1>3

(* On a spot the scan is between leaf elements, and inside a leaf list it  *)
(* is between two spots.                                                   *)
LEMMA WhereOnTheTrail ==
  ASSUME IInv, TrailInv, phase = "scan", NEW k \in 1 .. Len(trail), RetracedAt(k)
  PROVE  /\ open \in Layers => OnSpot(trail[k])
         /\ open = Leaf => k < Len(trail) /\ BetweenSpots(trail[k], trail[k + 1])
<1>1. trail[k].open \in Layers
  BY TrailSpots DEF Spots
<1>2. Leaf \notin Layers
  BY DepthAssumption DEF Layers, Leaf
<1> QED
  BY <1>1, <1>2 DEF RetracedAt, OnSpot, BetweenSpots

(* A null list takes the scan to the next spot.                            *)
LEMMA ScanNullRetraces ==
  ASSUME IInv, TrailInv, ScanNull, phase' = "scan", NEW k \in 1 .. Len(trail), RetracedAt(k)
  PROVE  k + 1 \in 1 .. Len(trail) /\ OnSpot(trail[k + 1])'
<1> USE DEF IInv, TypeOK
<1>1. /\ phase = "scan" /\ open \in Layers /\ rest[open] # <<>> /\ Head(rest[open]) = None
      /\ SkipElement /\ PushOffset(open)
      /\ UNCHANGED <<trail, flat, positions, leafIdx>>
  BY DEF ScanNull, Fail, AtElement, Next1, WalkOK, Loops, Layers
<1>2. OnSpot(trail[k])
  BY <1>1, WhereOnTheTrail
<1>3. ~AtLast(trail[k])
  BY <1>1, <1>2 DEF OnSpot, AtLast
<1>4. /\ k + 1 \in 1 .. Len(trail) /\ trail[k] \in Spots
      /\ trail[k + 1] = SpotAfter(trail[k])
  BY <1>1, <1>3, TrailSpots
<1>5. /\ trail[k + 1].open = open /\ trail[k + 1].rest = [rest EXCEPT ![open] = Tail(@)]
      /\ trail[k + 1].total = trail[k].total
      /\ trail[k + 1].counters = Counted(trail[k].counters, open)
  BY <1>1, <1>2, <1>4, AfterNull DEF OnSpot
<1>6. LeafEntries' = LeafEntries
  BY <1>1 DEF LeafEntries
<1>7. \A j \in 2 .. Depth : Len(offsets'[j]) - 1 = trail[k + 1].counters[j - 1]
  BY <1>1, <1>2, <1>4, <1>5, CountersAfterPush DEF OnSpot, BuffersInStep
<1> QED
  BY <1>1, <1>2, <1>4, <1>5, <1>6, <1>7 DEF OnSpot, CountersMatch, SkipElement

(* An entered list takes the scan to, or on its way to, the next spot.     *)
LEMMA ScanEnterRetraces ==
  ASSUME IInv, TrailInv, Sealed, ScanEnter, NEW k \in 1 .. Len(trail), RetracedAt(k)
  PROVE  \/ k + 1 \in 1 .. Len(trail) /\ OnSpot(trail[k + 1])'
         \/ k + 1 \in 1 .. Len(trail) /\ BetweenSpots(trail[k], trail[k + 1])'
<1> USE DEF IInv, TypeOK
<1>1. /\ phase = "scan" /\ open \in Layers /\ rest[open] # <<>> /\ Head(rest[open]) # None
      /\ open' = open + 1
      /\ rest' = [rest EXCEPT ![open] = Tail(@), ![open + 1] = Head(rest[open])]
      /\ UNCHANGED <<trail, offsets, flat, positions, leafIdx>>
  BY DEF ScanEnter, EnterList, AtElement, Next1, WalkOK, Loops, Layers
<1>2. OnSpot(trail[k])
  BY <1>1, WhereOnTheTrail
<1>3. ~AtLast(trail[k])
  BY <1>1, <1>2 DEF OnSpot, AtLast
<1>4. /\ k + 1 \in 1 .. Len(trail) /\ trail[k] \in Spots
      /\ trail[k + 1] = SpotAfter(trail[k])
  BY <1>1, <1>3, TrailSpots
<1>5. LeafEntries' = LeafEntries
  BY <1>1 DEF LeafEntries
<1>6. \A j \in 2 .. Depth : Len(offsets'[j]) - 1 = trail[k].counters[j - 1]
  BY <1>1, <1>2 DEF OnSpot, CountersMatch
<1>7. CASE open # Depth
  <2>1. /\ trail[k + 1].open = open + 1 /\ trail[k + 1].rest = rest'
        /\ trail[k + 1].total = trail[k].total /\ trail[k + 1].counters = trail[k].counters
    BY <1>1, <1>2, <1>4, <1>7, AfterEnter DEF OnSpot
  <2> QED
    BY <1>1, <1>2, <1>4, <1>5, <1>6, <2>1 DEF OnSpot, CountersMatch
<1>8. CASE open = Depth
  <2>1. /\ trail[k + 1].open = Depth /\ trail[k + 1].rest = [rest EXCEPT ![open] = Tail(@)]
        /\ trail[k + 1].total = trail[k].total + Len(Head(rest[open]))
        /\ trail[k + 1].counters = Counted(trail[k].counters, Depth)
    <3>1. trail[k].open = open /\ trail[k].rest = rest /\ trail[k].open = Depth
      BY <1>2, <1>8 DEF OnSpot
    <3>2. SpotAfter(trail[k])
            = [open |-> trail[k].open, rest |-> [trail[k].rest EXCEPT ![trail[k].open] = Tail(@)],
               total |-> trail[k].total + Len(Head(trail[k].rest[trail[k].open])),
               counters |-> Counted(trail[k].counters, trail[k].open)]
      BY <1>1, <1>4, <3>1, AfterLeaves
    <3> QED
      BY <1>4, <1>8, <3>1, <3>2
  <2>2. rest \in [Loops -> Seq(Elements)] /\ open \in Loops /\ Leaf \in Loops /\ Leaf # open
        /\ open' = Leaf /\ rest[Leaf] = <<>>
    BY <1>1, <1>8, DepthAssumption DEF WalkOK, Rests, Loops, Leaf, Sealed, Running
  <2>3. rest'[Leaf] = Head(rest[open]) /\ [rest' EXCEPT ![Leaf] = <<>>] = trail[k + 1].rest
    BY <1>1, <1>8, <2>1, <2>2 DEF Leaf
  <2>4. LeafEntries' + Len(rest'[Leaf]) = trail[k + 1].total
    BY <1>2, <1>5, <2>1, <2>3 DEF OnSpot
  <2> QED
    BY <1>1, <1>4, <1>6, <2>1, <2>2, <2>3, <2>4 DEF BetweenSpots, CountersMatch
<1> QED
  BY <1>7, <1>8

(* Closing a list goes on to the next spot, whether the list held leaf     *)
(* elements or lists.                                                      *)
LEMMA ScanLeaveRetraces ==
  ASSUME IInv, TrailInv, ScanLeave, phase' = "scan", NEW k \in 1 .. Len(trail), RetracedAt(k)
  PROVE  k + 1 \in 1 .. Len(trail) /\ OnSpot(trail[k + 1])'
<1> USE DEF IInv, TypeOK
<1>1. /\ phase = "scan" /\ open \in Loops /\ open - 1 \in Layers /\ rest[open] = <<>>
      /\ open' = open - 1 /\ rest' = rest /\ PushOffset(open - 1)
      /\ UNCHANGED <<trail, flat, positions, leafIdx>>
  BY DepthAssumption DEF ScanLeave, Fail, AtEnd, LeaveList, WalkOK, Loops, Layers
<1>2. LeafEntries' = LeafEntries
  BY <1>1 DEF LeafEntries
<1>3. \A j \in Layers : LayerInStep(j)
  BY <1>1 DEF BuffersInStep
<1>4. CASE open = Leaf
  <2>1. k < Len(trail) /\ BetweenSpots(trail[k], trail[k + 1])
    BY <1>1, <1>4, WhereOnTheTrail
  <2>2. k + 1 \in 1 .. Len(trail) /\ trail[k] \in Spots
    BY <1>1, <2>1, TrailSpots DEF TrailInv, TrailLinked
  <2>3. open - 1 = Depth /\ Leaf \in Loops /\ rest \in [Loops -> Seq(Elements)]
    BY <1>1, <1>4, DepthAssumption DEF Leaf, Loops, WalkOK, Rests
  <2>4. /\ trail[k + 1].open = open' /\ trail[k + 1].rest = rest'
        /\ trail[k + 1].counters = Counted(trail[k].counters, Depth)
    BY <1>1, <1>4, <2>1, <2>3 DEF BetweenSpots
  <2>5. LeafEntries' = trail[k + 1].total
    <3>1. LeafEntries + Len(rest[Leaf]) = trail[k + 1].total /\ Len(rest[Leaf]) = 0
      BY <1>1, <1>4, <2>1 DEF BetweenSpots
    <3>2. LeafEntries \in Nat
      BY <1>1, <1>3, EntriesTyped DEF LayerInStep
    <3> QED
      BY <1>2, <3>1, <3>2
  <2>6. \A j \in 2 .. Depth : Len(offsets'[j]) - 1 = trail[k + 1].counters[j - 1]
    BY <1>1, <1>3, <2>1, <2>2, <2>3, <2>4, CountersAfterPush DEF BetweenSpots
  <2> QED
    BY <1>1, <2>2, <2>4, <2>5, <2>6 DEF OnSpot, CountersMatch
<1>5. CASE open \in Layers
  <2>1. OnSpot(trail[k])
    BY <1>1, <1>5, WhereOnTheTrail
  <2>2. ~AtLast(trail[k])
    BY <1>1, <2>1 DEF OnSpot, AtLast, Layers
  <2>3. /\ k + 1 \in 1 .. Len(trail) /\ trail[k] \in Spots
        /\ trail[k + 1] = SpotAfter(trail[k])
    BY <1>1, <2>2, TrailSpots
  <2>4. /\ trail[k + 1].open = open - 1 /\ trail[k + 1].rest = rest
        /\ trail[k + 1].total = trail[k].total
        /\ trail[k + 1].counters = Counted(trail[k].counters, open - 1)
    BY <1>1, <2>1, <2>3, AfterLeave DEF OnSpot
  <2>5. \A j \in 2 .. Depth : Len(offsets'[j]) - 1 = trail[k + 1].counters[j - 1]
    BY <1>1, <1>3, <2>1, <2>3, <2>4, CountersAfterPush DEF OnSpot
  <2> QED
    BY <1>1, <1>2, <2>1, <2>3, <2>4, <2>5 DEF OnSpot, CountersMatch
<1> QED
  BY <1>1, <1>4, <1>5, DepthAssumption DEF Loops, Layers, Leaf

(* A stored element moves from the elements to come to those stored.       *)
LEMMA ScanLeafRetraces ==
  ASSUME IInv, TrailInv, NEW v \in Node[Leaf], AtLeaf(v), Store(v),
         NEW k \in 1 .. Len(trail), RetracedAt(k)
  PROVE  k < Len(trail)' /\ BetweenSpots(trail[k], trail[k + 1])'
<1> USE DEF IInv, TypeOK
<1>1. /\ phase = "scan" /\ open = Leaf /\ rest[Leaf] # <<>>
      /\ open' = open /\ rest' = [rest EXCEPT ![open] = Tail(@)]
      /\ UNCHANGED <<trail, offsets>>
  BY DEF AtLeaf, Store, SkipElement
<1>2. k < Len(trail) /\ BetweenSpots(trail[k], trail[k + 1])
  BY <1>1, WhereOnTheTrail
<1>3. rest \in [Loops -> Seq(Elements)] /\ Leaf \in Loops
  BY DepthAssumption DEF WalkOK, Rests, Leaf, Loops
<1>4. /\ [rest' EXCEPT ![Leaf] = <<>>] = [rest EXCEPT ![Leaf] = <<>>]
      /\ rest'[Leaf] = Tail(rest[Leaf])
  BY <1>1, <1>3
<1>5. /\ Len(rest'[Leaf]) = Len(rest[Leaf]) - 1
      /\ Len(rest'[Leaf]) \in Nat /\ Len(rest[Leaf]) \in Nat
  BY <1>1, <1>3, <1>4
<1>6. LeafEntries \in Nat /\ LeafEntries' = LeafEntries + 1
  BY StoreAdvances
<1>7. LeafEntries + Len(rest[Leaf]) = trail[k + 1].total
  BY <1>2 DEF BetweenSpots
<1>8. LeafEntries' + Len(rest'[Leaf]) = trail[k + 1].total
  <2>1. (LeafEntries + 1) + (Len(rest[Leaf]) - 1) = LeafEntries + Len(rest[Leaf])
    BY <1>5, <1>6
  <2> QED
    BY <1>5, <1>6, <1>7, <2>1
<1> QED
  BY <1>1, <1>2, <1>4, <1>8 DEF BetweenSpots, CountersMatch

(* Inside a leaf list fewer leaves are stored than were counted.           *)
LEMMA LeavesRemain ==
  ASSUME IInv, TrailInv, NEW v \in Node[Leaf], AtLeaf(v),
         NEW k \in 1 .. Len(trail), RetracedAt(k)
  PROVE  LeafEntries < total
<1> USE DEF IInv, TypeOK
<1>1. phase = "scan" /\ open = Leaf /\ rest[Leaf] # <<>>
  BY DEF AtLeaf
<1>2. k < Len(trail) /\ BetweenSpots(trail[k], trail[k + 1])
  BY <1>1, WhereOnTheTrail
<1>3. k + 1 \in 1 .. Len(trail)
  BY <1>2 DEF TrailInv, TrailLinked
<1>4. trail[k + 1].total \in Nat /\ trail[k + 1].total <= total /\ total \in Nat
  BY <1>1, <1>3, TrailSpots DEF Spots, Below, CountsOK
<1>5. LeafEntries \in Nat
  BY <1>1, DepthAssumption, EntriesTyped DEF BuffersInStep, LayerInStep, Layers
<1>6. rest[Leaf] \in Seq(Elements)
  BY DepthAssumption DEF WalkOK, Rests, Leaf, Loops
<1>7. Len(rest[Leaf]) \in Nat /\ Len(rest[Leaf]) > 0
  BY <1>1, <1>6
<1>8. LeafEntries + Len(rest[Leaf]) = trail[k + 1].total
  BY <1>2 DEF BetweenSpots
<1>9. LeafEntries < trail[k + 1].total
  BY <1>5, <1>7, <1>8
<1> QED
  BY <1>4, <1>5, <1>9

-----------------------------------------------------------------------------
(* The end of the scan.                                                    *)

(* When all items are read the scan is on the last spot of the trail, so   *)
(* it has stored all that was counted.                                     *)
LEMMA AllStored ==
  ASSUME IInv, TrailInv, RowsAndItems, phase \in {"scan", "done"}, AllRead,
         NEW k \in 1 .. Len(trail), RetracedAt(k)
  PROVE  LeafEntries = total /\ \A l \in Layers : Len(offsets[l]) - 1 = Reserved(l)
<1>1. open = 1 /\ rest[1] = <<>> /\ open # Leaf
  BY DepthAssumption DEF AllRead, Leaf
<1>2. OnSpot(trail[k])
  BY <1>1 DEF RetracedAt, BetweenSpots
<1>3. trail \in Seq(Spots) /\ Len(trail) \in Nat /\ AtLast(trail[k])
  BY <1>1, <1>2 DEF TrailInv, TrailLinked, OnSpot, AtLast
<1>4. k = Len(trail)
  <2>1. k \notin 1 .. Len(trail) - 1
    BY <1>3 DEF TrailInv, TrailLinked
  <2> QED
    BY <1>3, <2>1
<1>5. trail[k].total = total /\ trail[k].counters = counters
  BY <1>4 DEF TrailInv, TrailComplete
<1>6. ASSUME NEW l \in Layers PROVE Len(offsets[l]) - 1 = Reserved(l)
  <2>1. CASE l = 1
    <3>1. Balance(Len(offsets[1]), Len(rest[1]), OpenLists(1), Len(items))
      BY DEF RowsAndItems
    <3>2. Len(rest[1]) = 0 /\ OpenLists(1) = 0 /\ Len(offsets[1]) \in Nat
      BY <1>1, <2>1, LenProperties DEF OpenLists, IInv, TypeOK, LayersOK
    <3>3. Balance(Len(offsets[1]), 0, 0, Len(items))
      BY <3>1, <3>2
    <3>4. ASSUME NEW o \in Nat, Balance(o, 0, 0, Len(items)) PROVE o - 1 = Len(items)
      BY <3>4 DEF Balance
    <3> QED
      BY <2>1, <3>2, <3>3, <3>4 DEF Reserved
  <2>2. CASE l # 1
    BY <1>2, <1>5, <2>2, DepthAssumption DEF OnSpot, CountersMatch, Reserved, Layers
  <2> QED
    BY <2>1, <2>2
<1> QED
  BY <1>2, <1>5, <1>6 DEF OnSpot

(* Then the Arrow constructors accept the buffers.                         *)
LEMMA AssembleAccepted ==
  ASSUME IInv, TrailInv, LeafSizes, RowsAndItems, Assemble,
         NEW k \in 1 .. Len(trail), RetracedAt(k)
  PROVE  phase' \in {"error", "done"}
<1> USE DEF IInv, TypeOK
<1>1. phase = "scan" /\ AllRead /\ LeafEntries = total
  BY AllStored DEF Assemble
<1>2. LeafLength = LeafEntries
  BY <1>1 DEF LeafLength, LeafEntries, LeafSizes
<1>3. LeafAccepted
  BY <1>1, <1>2 DEF LeafAccepted, LeafSizes
<1>4. ASSUME NEW l \in Layers PROVE ListAccepted(l, ChildLength(l))
  <2>1. LayerInStep(l) /\ OpenLists(l) = 0 /\ Len(offsets[l]) \in Nat
    BY <1>1, LenProperties DEF BuffersInStep, AllRead, OpenLists, Layers, LayersOK
  <2>2. ChildLength(l) = Entries(l)
    BY <1>2 DEF ChildLength, Entries
  <2>3. ASSUME Optional(l) PROVE Len(validity[l]) = Len(offsets[l]) - 1
    <3>1. Len(validity[l]) = Len(offsets[l]) - 1 + 0
      BY <2>1, <2>3 DEF LayerInStep
    <3> QED
      BY <2>1, <3>1
  <2> QED
    BY <2>1, <2>2, <2>3 DEF LayerInStep, ListAccepted
<1> QED
  BY <1>3, <1>4 DEF Assemble

-----------------------------------------------------------------------------
(* The invariant of the retrace and what follows from it.                  *)

(* The invariant holds before the precount loop starts.                    *)
LEMMA RetraceStarts == Init => JInv
<1> SUFFICES ASSUME Init PROVE JInv
  OBVIOUS
<1>1. phase = "precount" /\ open = 1 /\ rest = [l \in Loops |-> IF l = 1 THEN items ELSE <<>>]
  BY DEF Init, StartOfItems
<1>2. Sealed /\ LeafSizes /\ RowsAndItems /\ DoneAtEnd /\ PrecountRetraced /\ NeverPanics
  BY <1>1
  DEF Sealed, LeafSizes, RowsAndItems, DoneAtEnd, PrecountRetraced, NeverPanics
<1> QED
  BY <1>2, Initially, TrailStart DEF JInv

(* The precount keeps the invariant.                                       *)
LEMMA RetraceOfPrecount ==
  ASSUME JInv, Precount
  PROVE  JInv'
<1>1. phase = "precount" /\ phase' = "precount" /\ WalkOK
  BY DEF Precount, PrecountNull, PrecountLeaves, PrecountEnter, PrecountLeave, JInv, IInv, TypeOK
<1>2. \/ EnterList /\ AtElement
      \/ SkipElement /\ rest[open] # <<>>
      \/ LeaveList /\ AtEnd
  BY DEF Precount, PrecountNull, PrecountLeaves, PrecountEnter, PrecountLeave, AtElement
<1>3. Sealed'
  BY <1>1, <1>2, SealedKept DEF JInv, Running
<1>4. LeafSizes' /\ RowsAndItems' /\ DoneAtEnd' /\ PrecountRetraced' /\ NeverPanics'
  BY <1>1 DEF LeafSizes, RowsAndItems, DoneAtEnd, PrecountRetraced, NeverPanics
<1> QED
  BY <1>3, <1>4, PrecountKeeps, TrailOfPrecount DEF JInv

(* So does the declaration of the buffers.                                 *)
LEMMA RetraceOfDeclaring ==
  ASSUME JInv, DeclareBuffers
  PROVE  JInv'
<1>1. /\ phase' = "scan" /\ open = 1 /\ open' = 1 /\ rest[1] = <<>> /\ items' = items
      /\ rest' = [rest EXCEPT ![1] = items] /\ rest \in [Loops -> Seq(Elements)]
  BY DEF DeclareBuffers, AllRead, JInv, IInv, TypeOK, WalkOK, Rests
<1>2. Sealed'
  <2>1. \A l \in Loops : l > 1 => rest[l] = <<>>
    BY <1>1 DEF JInv, Sealed, Running, DeclareBuffers
  <2> QED
    BY <1>1, <2>1 DEF Sealed, Loops
<1>3. LeafSizes'
  BY SizesDeclared DEF JInv, IInv, TypeOK
<1>4. RowsAndItems'
  <2>1. rest'[1] = items /\ Len(offsets'[1]) = 1 /\ OpenLists(1)' = 0
    BY <1>1, DepthAssumption DEF DeclareBuffers, Seed, OpenLists, Loops, Layers
  <2>2. Len(items) \in Nat
    BY InputAssumption, LenProperties DEF JInv, IInv, TypeOK, WalkOK
  <2>3. Balance(1, Len(items), 0, Len(items))
    BY <2>2 DEF Balance
  <2> QED
    BY <1>1, <2>1, <2>3 DEF RowsAndItems
<1>5. DoneAtEnd' /\ NeverPanics'
  BY <1>1 DEF DoneAtEnd, NeverPanics
<1> QED
  BY <1>2, <1>3, <1>4, <1>5, DeclareKeeps, TrailOfDeclare, RetraceOfDeclare DEF JInv

(* A step that returns an error owes nothing more.                         *)
LEMMA RetraceOfError ==
  ASSUME JInv, IInv', phase = "scan", phase' = "error",
         UNCHANGED <<items, total, counters, trail>>
  PROVE  JInv'
<1>1. TrailInv'
  BY TrailUntouched DEF JInv, Ended
<1>2. /\ Sealed' /\ LeafSizes' /\ RowsAndItems' /\ DoneAtEnd'
      /\ PrecountRetraced' /\ NeverPanics'
  BY DEF Sealed, Running, LeafSizes, RowsAndItems, DoneAtEnd, PrecountRetraced, NeverPanics
<1> QED
  BY <1>1, <1>2 DEF JInv

(* A step between leaf elements keeps the leaf bitmaps as they are.        *)
LEMMA RetraceOfLists ==
  ASSUME JInv, ScanNull \/ ScanEnter \/ ScanLeave
  PROVE  JInv'
<1>1. /\ phase = "scan" /\ phase' \in {"scan", "error"}
      /\ UNCHANGED <<items, total, counters, trail, flat, bits, valid, leafIdx>>
  BY DEF ScanNull, ScanEnter, ScanLeave, Fail, counted, buffers
<1>2. IInv'
  BY ScanNullKeeps, ScanEnterKeeps, ScanLeaveKeeps DEF JInv
<1>3. CASE phase' = "error"
  BY <1>1, <1>2, <1>3, RetraceOfError
<1>4. CASE phase' = "scan"
  <2>1. TrailInv'
    BY <1>1, <1>4, TrailUntouched DEF JInv
  <2>2. \/ EnterList /\ AtElement
        \/ SkipElement /\ rest[open] # <<>>
        \/ LeaveList /\ AtEnd
    BY <1>4 DEF ScanNull, ScanEnter, ScanLeave, Fail, AtElement
  <2>3. Sealed'
    BY <1>1, <2>2, SealedKept DEF JInv, IInv, TypeOK, Running
  <2>4. LeafSizes'
    BY <1>1, <1>4 DEF JInv, LeafSizes
  <2>5. RowsAndItems'
    BY <1>1, RowsKept DEF JInv
  <2>6. PrecountRetraced'
    <3>1. PICK k \in 1 .. Len(trail) : RetracedAt(k)
      BY <1>1 DEF JInv, PrecountRetraced, RetracedAt
    <3>2. \/ k + 1 \in 1 .. Len(trail) /\ OnSpot(trail[k + 1])'
          \/ k + 1 \in 1 .. Len(trail) /\ BetweenSpots(trail[k], trail[k + 1])'
      BY <1>4, <3>1, ScanNullRetraces, ScanEnterRetraces, ScanLeaveRetraces DEF JInv
    <3>3. trail' = trail /\ Len(trail) \in Nat
      BY <1>1 DEF JInv, TrailInv, TrailLinked
    <3> QED
      BY <3>2, <3>3 DEF PrecountRetraced
  <2>7. DoneAtEnd' /\ NeverPanics'
    BY <1>4 DEF DoneAtEnd, NeverPanics
  <2> QED
    BY <1>2, <2>1, <2>3, <2>4, <2>5, <2>6, <2>7 DEF JInv
<1> QED
  BY <1>1, <1>3, <1>4

(* So does a stored leaf, which therefore fits the bitmaps.                *)
LEMMA RetraceOfLeaf ==
  ASSUME JInv, ScanLeaf
  PROVE  JInv'
<1>1. PICK v \in Node[Leaf] : AtLeaf(v) /\ IF Fits(v) THEN Store(v) ELSE Fail("panic")
  BY DEF ScanLeaf
<1>2. phase = "scan"
  BY <1>1 DEF AtLeaf
<1>3. PICK k \in 1 .. Len(trail) : RetracedAt(k)
  BY <1>2 DEF JInv, PrecountRetraced, RetracedAt
<1>4. Fits(v) /\ Store(v)
  <2>1. LeafEntries < total
    BY <1>1, <1>3, LeavesRemain DEF JInv
  <2>2. Fits(v)
    BY <1>2, <2>1, NextLeafFits DEF JInv, IInv, TypeOK
  <2> QED
    BY <1>1, <2>2
<1>5. /\ phase' = "scan" /\ SkipElement /\ rest[open] # <<>>
      /\ UNCHANGED <<items, total, counters, trail>>
  BY <1>1, <1>2, <1>4 DEF Store, AtLeaf, counted
<1>6. IInv'
  BY ScanLeafKeeps DEF JInv
<1>7. TrailInv'
  BY <1>2, <1>5, TrailUntouched DEF JInv
<1>8. Sealed' /\ LeafSizes' /\ RowsAndItems'
  BY <1>2, <1>4, <1>5, SealedKept, SizesStored, RowsKept DEF JInv, IInv, TypeOK, Running
<1>9. PrecountRetraced'
  <2>1. k < Len(trail)' /\ BetweenSpots(trail[k], trail[k + 1])'
    BY <1>1, <1>3, <1>4, ScanLeafRetraces DEF JInv
  <2> QED
    BY <1>5, <2>1 DEF PrecountRetraced
<1>10. DoneAtEnd' /\ NeverPanics'
  BY <1>5 DEF DoneAtEnd, NeverPanics
<1> QED
  BY <1>6, <1>7, <1>8, <1>9, <1>10 DEF JInv

(* So does the assembly, whose checks therefore all succeed.               *)
LEMMA RetraceOfAssembly ==
  ASSUME JInv, Assemble
  PROVE  JInv'
<1>1. phase = "scan" /\ AllRead
      /\ UNCHANGED <<items, open, rest, total, counters, buffers, trail>>
  BY DEF Assemble, walk, counted
<1>2. PICK k \in 1 .. Len(trail) : RetracedAt(k)
  BY <1>1 DEF JInv, PrecountRetraced, RetracedAt
<1>3. phase' \in {"error", "done"}
  BY <1>2, AssembleAccepted DEF JInv
<1>4. IInv'
  BY AssembleKeeps DEF JInv
<1>5. CASE phase' = "error"
  BY <1>1, <1>4, <1>5, RetraceOfError
<1>6. CASE phase' = "done"
  <2>1. TrailInv'
    BY <1>1, <1>6, TrailUntouched DEF JInv, Ended
  <2>2. Sealed' /\ DoneAtEnd' /\ NeverPanics'
    BY <1>1, <1>6 DEF JInv, Sealed, Running, DoneAtEnd, NeverPanics, AllRead
  <2>3. LeafSizes' /\ RowsAndItems'
    BY <1>1 DEF JInv, buffers, LeafSizes, RowsAndItems, OpenLists
  <2>a. LeafEntries' = LeafEntries /\ UNCHANGED <<open, rest, offsets, trail>>
    BY <1>1 DEF LeafEntries, buffers
  <2>b. CountersMatch(trail[k])' <=> CountersMatch(trail[k])
    BY <2>a DEF CountersMatch
  <2>4. \/ OnSpot(trail[k])'
        \/ k < Len(trail) /\ BetweenSpots(trail[k], trail[k + 1])'
    <3>1. CASE OnSpot(trail[k])
      BY <2>a, <2>b, <3>1 DEF OnSpot
    <3>2. CASE k < Len(trail) /\ BetweenSpots(trail[k], trail[k + 1])
      BY <2>a, <2>b, <3>2 DEF BetweenSpots
    <3> QED
      BY <1>2, <3>1, <3>2 DEF RetracedAt
  <2>5. PrecountRetraced'
    BY <1>1, <2>4 DEF PrecountRetraced
  <2> QED
    BY <1>4, <2>1, <2>2, <2>3, <2>5 DEF JInv
<1> QED
  BY <1>3, <1>5, <1>6

(* Every step keeps the invariant.                                         *)
LEMMA RetraceKept == JInv /\ [Next]_vars => JInv'
<1> SUFFICES ASSUME JInv, [Next]_vars PROVE JInv'
  OBVIOUS
<1>1. CASE Precount
  BY <1>1, RetraceOfPrecount
<1>2. CASE DeclareBuffers
  BY <1>2, RetraceOfDeclaring
<1>3. CASE ScanNull \/ ScanEnter \/ ScanLeave
  BY <1>3, RetraceOfLists
<1>4. CASE ScanLeaf
  BY <1>4, RetraceOfLeaf
<1>5. CASE ScanFailing \/ ScanTooMany
  <2>1. phase = "scan" /\ phase' = "error" /\ UNCHANGED <<items, total, counters, trail>>
    BY <1>5 DEF ScanFailing, ScanTooMany, AtLeaf, Fail, counted
  <2>2. IInv'
    BY <1>5, FailKeeps DEF ScanFailing, ScanTooMany, JInv
  <2> QED
    BY <2>1, <2>2, RetraceOfError
<1>6. CASE Assemble
  BY <1>6, RetraceOfAssembly
<1>7. CASE UNCHANGED vars
  <2>1. UNCHANGED <<items, phase, open, rest, total, counters, buffers, trail>>
    BY <1>7 DEF vars, walk, counted
  <2>2. IInv'
    BY <1>7, InvariantKept DEF JInv
  <2>3. TrailInv'
    BY <2>1, TrailUntouched DEF JInv
  <2>4. Sealed' /\ LeafSizes' /\ RowsAndItems' /\ DoneAtEnd' /\ NeverPanics'
    BY <2>1
    DEF JInv, buffers, Sealed, LeafSizes, RowsAndItems, OpenLists, DoneAtEnd, AllRead, NeverPanics
  <2>5. PrecountRetraced'
    BY <2>1
    DEF JInv, buffers, PrecountRetraced, OnSpot, BetweenSpots, CountersMatch, LeafEntries
  <2> QED
    BY <2>2, <2>3, <2>4, <2>5 DEF JInv
<1> QED
  BY <1>1, <1>2, <1>3, <1>4, <1>5, <1>6, <1>7 DEF Next, Scan, Return

(* The invariant holds in every reachable state.                           *)
LEMMA Retrace == Spec => []JInv
BY RetraceStarts, RetraceKept, PTL DEF Spec

(* What was counted is never exceeded, and used up at the end.             *)
LEMMA ExactWhenRetraced == JInv => PrecountExact
<1> SUFFICES ASSUME JInv, phase \in {"scan", "done"} PROVE PrecountExact
  BY DEF PrecountExact
<1> USE DEF JInv, IInv, TypeOK
<1>1. PICK k \in 1 .. Len(trail) : RetracedAt(k)
  BY DEF PrecountRetraced, RetracedAt
<1>2. CASE phase = "done"
  <2>1. LeafEntries = total /\ \A l \in Layers : Len(offsets[l]) - 1 = Reserved(l)
    BY <1>1, <1>2, AllStored DEF DoneAtEnd
  <2>2. total \in Nat /\ \A l \in Layers : Reserved(l) \in Nat
    <3>1. Len(items) \in Nat
      BY InputAssumption, LenProperties DEF WalkOK
    <3> QED
      BY <3>1, DepthAssumption DEF CountsOK, Reserved, Layers
  <2> QED
    BY <2>1, <2>2 DEF PrecountExact
<1>3. CASE phase = "scan"
  <2>1. trail \in Seq(Spots) /\ Len(trail) \in Nat
    BY DEF TrailInv, TrailLinked
  <2>2. trail[k] \in Spots /\ Below(trail[k]) /\ CountersMatch(trail[k])
    BY <1>1, <1>3, TrailSpots DEF RetracedAt, OnSpot, BetweenSpots
  <2>3. LeafEntries <= total
    <3>1. CASE OnSpot(trail[k])
      BY <2>2, <3>1 DEF OnSpot, Below
    <3>2. CASE k < Len(trail) /\ BetweenSpots(trail[k], trail[k + 1])
      <4>1. k + 1 \in 1 .. Len(trail)
        BY <2>1, <3>2
      <4>2. trail[k + 1].total \in Nat /\ trail[k + 1].total <= total /\ total \in Nat
        BY <1>3, <4>1, TrailSpots DEF Spots, Below, CountsOK
      <4>3. LeafEntries \in Nat
        BY <1>3, DepthAssumption, EntriesTyped DEF BuffersInStep, LayerInStep, Layers
      <4>4. rest[Leaf] \in Seq(Elements)
        BY DepthAssumption DEF WalkOK, Rests, Leaf, Loops
      <4>5. Len(rest[Leaf]) \in Nat /\ LeafEntries + Len(rest[Leaf]) = trail[k + 1].total
        BY <3>2, <4>4, LenProperties DEF BetweenSpots
      <4>6. LeafEntries <= trail[k + 1].total
        BY <4>3, <4>5
      <4> QED
        BY <4>2, <4>3, <4>6
    <3> QED
      BY <1>1, <3>1, <3>2 DEF RetracedAt
  <2>4. ASSUME NEW l \in Layers PROVE Len(offsets[l]) - 1 <= Reserved(l)
    <3>1. CASE l = 1
      <4>1. Balance(Len(offsets[1]), Len(rest[1]), OpenLists(1), Len(items))
        BY <1>3 DEF RowsAndItems
      <4>2. Len(offsets[1]) \in Nat /\ Len(rest[1]) \in Nat /\ OpenLists(1) \in Nat
            /\ Len(items) \in Nat
        BY <3>1, DepthAssumption, InputAssumption, LenProperties
        DEF OpenLists, LayersOK, WalkOK, Rests, Loops
      <4>3. ASSUME NEW o \in Nat, NEW r \in Nat, NEW u \in Nat, NEW n \in Nat, Balance(o, r, u, n)
            PROVE  o - 1 <= n
        BY <4>3 DEF Balance
      <4> QED
        BY <3>1, <4>1, <4>2, <4>3 DEF Reserved
    <3>2. CASE l # 1
      <4>1. l \in 2 .. Depth /\ l - 1 \in 1 .. Depth - 1
        BY <3>2, DepthAssumption DEF Layers
      <4> QED
        BY <2>2, <3>2, <4>1 DEF CountersMatch, Below, Reserved
    <3> QED
      BY <3>1, <3>2
  <2> QED
    BY <1>3, <2>3, <2>4 DEF PrecountExact
<1> QED
  BY <1>2, <1>3

-----------------------------------------------------------------------------
(* The scan passes the spots of the precount in order, with as much stored *)
(* at each as was counted there, for every depth, leaf kind and input.     *)
THEOREM ScanRetracesPrecount == Spec => []PrecountRetraced
<1>1. JInv => PrecountRetraced
  BY DEF JInv
<1> QED
  BY <1>1, Retrace, PTL

(* No buffer outgrows what ShapePrecount reserved for it, and a finished   *)
(* scan has used the reservations up.                                      *)
THEOREM PrecountIsExact == Spec => []PrecountExact
BY ExactWhenRetraced, Retrace, PTL

(* The generated loops never panic: every index written lies inside its    *)
(* prefilled bitmap and the Arrow constructors accept what was filled.     *)
THEOREM NoPanic == Spec => []NeverPanics
<1>1. JInv => NeverPanics
  BY DEF JInv
<1> QED
  BY <1>1, Retrace, PTL
=============================================================================
