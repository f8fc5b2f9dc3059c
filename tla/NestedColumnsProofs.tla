------------------------ MODULE NestedColumnsProofs ------------------------
(***************************************************************************)
(* The columns of a nested field are those of NestedField, for every shape,*)
(* every input and every behaviour of the struct's own traits.             *)
(*                                                                         *)
(* Gathered ties flat and positions to the ranks of the leaves read so far;*)
(* Progress ties the branch, the frame and the schema to the phase.        *)
(***************************************************************************)
EXTENDS NestedColumnsField, FiniteSetTheorems, SequenceTheorems, TLAPS

PresentIn(i) == Field!PresentTo(i)
RankOf(i)    == Field!Rank(i)

-----------------------------------------------------------------------------
(* Ranks.                                                                  *)

(* The abstract specification counts present leaves with its own copy of    *)
(* Cardinality.                                                            *)
LEMMA RankIsCardinality ==
  ASSUME NEW i
  PROVE  RankOf(i) = Cardinality(PresentIn(i))
BY DEF RankOf, PresentIn, Field!Rank, Field!Cardinality, Cardinality

(* A rank is a natural number, at most the index, and grows with it.       *)
LEMMA RankTyped ==
  ASSUME NEW i \in Nat
  PROVE  /\ IsFiniteSet(PresentIn(i)) /\ RankOf(i) \in Nat /\ RankOf(i) <= i
         /\ RankOf(i) = i => \A j \in 1 .. i : leaves[j] # None
         /\ RankOf(i) = 0 <=> PresentIn(i) = {}
<1>1. /\ IsFiniteSet(1 .. i) /\ Cardinality(1 .. i) = i
  BY FS_Interval
<1>2. PresentIn(i) \in SUBSET (1 .. i)
  BY DEF PresentIn, Field!PresentTo
<1>3. /\ IsFiniteSet(PresentIn(i)) /\ Cardinality(PresentIn(i)) <= i
      /\ i = Cardinality(PresentIn(i)) => 1 .. i = PresentIn(i)
  BY <1>1, <1>2, FS_Subset
<1>4. Cardinality(PresentIn(i)) \in Nat
  BY <1>3, FS_CardinalityType
<1>5. RankOf(i) = Cardinality(PresentIn(i))
  BY RankIsCardinality
<1>6. 1 .. i = PresentIn(i) => \A j \in 1 .. i : leaves[j] # None
  BY DEF PresentIn, Field!PresentTo
<1> QED
  BY <1>3, <1>4, <1>5, <1>6, FS_EmptySet

(* The next leaf raises the rank by one exactly when it is present.        *)
LEMMA RankStep ==
  ASSUME NEW i \in Nat
  PROVE  RankOf(i + 1) = IF leaves[i + 1] = None THEN RankOf(i) ELSE RankOf(i) + 1
<1>1. IsFiniteSet(PresentIn(i))
  BY RankTyped
<1>2. RankOf(i) = Cardinality(PresentIn(i)) /\ RankOf(i + 1) = Cardinality(PresentIn(i + 1))
  BY RankIsCardinality
<1>3. CASE leaves[i + 1] = None
  <2>1. PresentIn(i + 1) = PresentIn(i)
    BY <1>3 DEF PresentIn, Field!PresentTo
  <2> QED
    BY <1>2, <1>3, <2>1
<1>4. CASE leaves[i + 1] # None
  <2>1. PresentIn(i + 1) = PresentIn(i) \cup {i + 1} /\ i + 1 \notin PresentIn(i)
    BY <1>4 DEF PresentIn, Field!PresentTo
  <2> QED
    BY <1>1, <1>2, <1>4, <2>1, FS_AddElement
<1> QED
  BY <1>3, <1>4

(* Ranks never decrease, and no two present leaves share one.              *)
LEMMA RankGrows ==
  ASSUME NEW i \in Nat, NEW j \in Nat, i <= j
  PROVE  /\ RankOf(i) <= RankOf(j)
         /\ i < j /\ leaves[j] # None => RankOf(i) < RankOf(j)
<1>1. RankOf(i) <= RankOf(j)
  <2>1. PresentIn(i) \in SUBSET PresentIn(j)
    BY DEF PresentIn, Field!PresentTo
  <2>2. IsFiniteSet(PresentIn(j))
    BY RankTyped
  <2>3. RankOf(i) = Cardinality(PresentIn(i)) /\ RankOf(j) = Cardinality(PresentIn(j))
    BY RankIsCardinality
  <2> QED
    BY <2>1, <2>2, <2>3, FS_Subset
<1>2. ASSUME i < j, leaves[j] # None PROVE RankOf(i) < RankOf(j)
  <2>1. PresentIn(i) \in SUBSET PresentIn(j) /\ j \in PresentIn(j) /\ j \notin PresentIn(i)
    BY <1>2 DEF PresentIn, Field!PresentTo
  <2>2. IsFiniteSet(PresentIn(j))
    BY RankTyped
  <2>3. /\ Cardinality(PresentIn(i)) <= Cardinality(PresentIn(j))
        /\ Cardinality(PresentIn(i)) # Cardinality(PresentIn(j))
    BY <2>1, <2>2, FS_Subset
  <2>4. RankOf(i) = Cardinality(PresentIn(i)) /\ RankOf(j) = Cardinality(PresentIn(j))
    BY RankIsCardinality
  <2>5. RankOf(i) \in Nat /\ RankOf(j) \in Nat
    BY RankTyped
  <2> QED
    BY <2>3, <2>4, <2>5
<1> QED
  BY <1>1, <1>2

-----------------------------------------------------------------------------
(* The inductive invariant.                                                *)

(* Of the leaves read so far, flat has the present ones in order, and the  *)
(* position of each is one less than its rank.                             *)
Gathered ==
  /\ Collected <= Len(leaves)
  /\ Len(flat) = RankOf(Collected)
  /\ \A i \in 1 .. Collected : leaves[i] # None => flat[RankOf(i)] = leaves[i]
  /\ \A r \in 1 .. Len(flat) : \E i \in 1 .. Collected : leaves[i] # None /\ RankOf(i) = r
  /\ HasPositions =>
       \A i \in 1 .. Collected :
         positions[i] = IF leaves[i] = None THEN None ELSE RankOf(i) - 1

WithFrame == {"direct", "take"}

Progress ==
  /\ phase \in {"frame", "schema", "consume", "done"} =>
       Collected = Len(leaves) /\ branch = BranchFor
  /\ phase \in {"collect", "frame"} => df = Failed
  /\ phase = "frame" => branch \in WithFrame
  /\ phase \in {"schema", "consume", "done"} =>
       IF branch \in WithFrame THEN df \in Frames[flat] /\ ValidFrame(df) ELSE df = Failed
  /\ phase \in {"collect", "frame", "schema"} => entries = <<>> /\ columns = <<>>
  /\ phase \in {"consume", "done"} => entries \in Schemas \ {Failed}

NInv == TypeOK /\ Gathered /\ Progress /\ NeverPanics

LEMMA RankFixed ==
  ASSUME leaves' = leaves
  PROVE  \A i : RankOf(i)' = RankOf(i)
BY DEF RankOf, Field!Rank, Field!PresentTo

(* What TypeOK says of the collected sequences and the next leaf.          *)
LEMMA CollectTyped ==
  ASSUME TypeOK
  PROVE  /\ leaves \in Seq(Structs \cup {None}) /\ Len(leaves) \in Nat
         /\ ~HasPositions => leaves \in Seq(Structs)
         /\ Len(flat) \in Nat /\ Len(positions) \in Nat /\ Collected \in Nat
<1>1. leaves \in Seq(IF HasPositions THEN Structs \union {None} ELSE Structs)
  BY InputAssumption DEF TypeOK
<1>2. ~HasPositions => leaves \in Seq(Structs)
  BY <1>1
<1>3. leaves \in Seq(Structs \cup {None})
  BY <1>1, SeqMonotonic
<1>4. Len(flat) \in Nat /\ Len(positions) \in Nat
  BY LenProperties DEF TypeOK
<1> QED
  BY <1>2, <1>3, <1>4, LenProperties DEF Collected

(* Nothing read, nothing gathered.                                         *)
LEMMA GatherStarts == Init => NInv
<1> SUFFICES ASSUME Init PROVE NInv
  OBVIOUS
<1>1. TypeOK
  BY DEF Init, TypeOK, Ended
<1>2. Collected = 0 /\ Len(leaves) \in Nat
  BY <1>1, CollectTyped DEF Init, Collected
<1>3. RankOf(0) = 0
  BY RankTyped
<1>4. Gathered
  BY <1>2, <1>3 DEF Init, Gathered
<1> QED
  BY <1>1, <1>4 DEF Init, NInv, Progress, NeverPanics

(* An absent leaf gets a null position and leaves flat alone.              *)
LEMMA AbsentGathered ==
  ASSUME NInv, CollectAbsent
  PROVE  NInv'
<1> USE DEF NInv
<1>1. /\ phase = "collect" /\ Collected < Len(leaves) /\ leaves[Collected + 1] = None
      /\ positions' = Append(positions, None)
      /\ UNCHANGED <<leaves, phase, flat, branch, df, entries, columns>>
  BY DEF CollectAbsent, Collecting
<1>2. Len(leaves) \in Nat /\ Collected \in Nat /\ Len(positions) \in Nat
  BY CollectTyped
<1>3. HasPositions
  <2>1. Collected + 1 \in 1 .. Len(leaves)
    BY <1>1, <1>2
  <2> QED
    BY <1>1, <2>1, CollectTyped, NoneAssumption, ElementOfSeq
<1>4. Collected = Len(positions) /\ Collected' = Collected + 1
  BY <1>1, <1>3, AppendProperties DEF Collected, TypeOK
<1>5. TypeOK'
  BY <1>1, AppendProperties DEF TypeOK
<1>6. RankOf(Collected + 1) = RankOf(Collected)
  BY <1>1, <1>2, RankStep
<1>7. \A i : RankOf(i)' = RankOf(i)
  BY <1>1, RankFixed
<1>8. \A i \in 1 .. Collected : positions'[i] = positions[i]
  BY <1>1, <1>4, AppendProperties DEF TypeOK
<1>9. positions'[Collected + 1] = None
  BY <1>1, <1>4, AppendProperties DEF TypeOK
<1>10. Gathered'
  <2>0. RankOf(Collected)' = RankOf(Collected + 1)
    BY <1>1, <1>4 DEF RankOf, Field!Rank, Field!PresentTo
  <2>1. Collected' <= Len(leaves') /\ Len(flat') = RankOf(Collected)'
    BY <1>1, <1>2, <1>4, <1>6, <2>0 DEF Gathered
  <2>2. ASSUME NEW i \in 1 .. Collected'
        PROVE  /\ leaves'[i] # None => flat'[RankOf(i)'] = leaves'[i]
               /\ positions'[i] = IF leaves'[i] = None THEN None ELSE RankOf(i)' - 1
    <3>1. CASE i = Collected + 1
      BY <1>1, <1>9, <3>1
    <3>2. CASE i # Collected + 1
      <4>1. i \in 1 .. Collected
        BY <1>2, <1>4, <3>2
      <4> QED
        BY <1>1, <1>3, <1>7, <1>8, <4>1 DEF Gathered
    <3> QED
      BY <3>1, <3>2
  <2>3. ASSUME NEW r \in 1 .. Len(flat')
        PROVE  \E i \in 1 .. Collected' : leaves'[i] # None /\ RankOf(i)' = r
    <3>1. PICK i \in 1 .. Collected : leaves[i] # None /\ RankOf(i) = r
      BY <1>1 DEF Gathered
    <3>2. i \in 1 .. Collected'
      BY <1>2, <1>4
    <3> QED
      BY <1>1, <1>7, <3>1, <3>2
  <2> QED
    BY <2>1, <2>2, <2>3 DEF Gathered
<1> QED
  BY <1>1, <1>5, <1>10 DEF Progress, NeverPanics

(* A present leaf gets the next place in flat, which is its rank.          *)
LEMMA PresentGathered ==
  ASSUME NInv, CollectPresent
  PROVE  NInv'
<1> USE DEF NInv
<1>1. PICK v \in Structs :
        /\ phase = "collect" /\ Collected < Len(leaves) /\ leaves[Collected + 1] = v
        /\ positions' = IF HasPositions THEN Append(positions, Len(flat)) ELSE positions
        /\ flat' = Append(flat, v)
        /\ UNCHANGED <<leaves, phase, branch, df, entries, columns>>
  BY DEF CollectPresent, Collecting
<1>2. Len(leaves) \in Nat /\ Collected \in Nat /\ Len(positions) \in Nat /\ Len(flat) \in Nat
  BY CollectTyped
<1>3. v # None
  BY NoneAssumption
<1>4. /\ Len(flat') = Len(flat) + 1 /\ flat' \in Seq(Structs)
      /\ positions' \in Seq(Nat \union {None})
      /\ HasPositions => Len(positions') = Len(positions) + 1
  BY <1>1, <1>2, AppendProperties DEF TypeOK
<1>5. Collected' = Collected + 1
  BY <1>4 DEF Collected, HasPositions
<1>6. TypeOK'
  BY <1>1, <1>4 DEF TypeOK, Progress
<1>7. RankOf(Collected + 1) = RankOf(Collected) + 1
  BY <1>1, <1>2, <1>3, RankStep
<1>8. \A i : RankOf(i)' = RankOf(i)
  BY <1>1, RankFixed
<1>9. /\ \A r \in 1 .. Len(flat) : flat'[r] = flat[r]
      /\ flat'[Len(flat) + 1] = v
      /\ HasPositions => \A i \in 1 .. Len(positions) : positions'[i] = positions[i]
      /\ HasPositions => positions'[Len(positions) + 1] = Len(flat)
  BY <1>1, <1>2, AppendProperties DEF TypeOK
<1>10. Gathered'
  <2>0. RankOf(Collected)' = RankOf(Collected + 1)
    BY <1>1, <1>5 DEF RankOf, Field!Rank, Field!PresentTo
  <2>1. Collected' <= Len(leaves') /\ Len(flat') = RankOf(Collected)'
    BY <1>1, <1>2, <1>4, <1>5, <1>7, <2>0 DEF Gathered
  <2>2. ASSUME NEW i \in 1 .. Collected', leaves[i] # None
        PROVE  flat'[RankOf(i)] = leaves[i]
    <3>1. CASE i = Collected + 1
      BY <1>1, <1>2, <1>7, <1>9, <3>1 DEF Gathered
    <3>2. CASE i # Collected + 1
      <4>1. i \in 1 .. Collected /\ i \in Nat
        BY <1>2, <1>5, <3>2
      <4>2. RankOf(i) \in Nat /\ RankOf(i) <= RankOf(Collected) /\ RankOf(i) # 0
        <5>1. RankOf(i) \in Nat /\ RankOf(i) <= RankOf(Collected)
          BY <1>2, <4>1, RankTyped, RankGrows
        <5>2. i \in PresentIn(i)
          BY <2>2, <4>1 DEF PresentIn, Field!PresentTo
        <5> QED
          BY <4>1, <5>1, <5>2, RankTyped
      <4>3. RankOf(i) \in 1 .. Len(flat)
        BY <1>2, <4>2 DEF Gathered
      <4> QED
        BY <1>9, <2>2, <4>1, <4>3 DEF Gathered
    <3> QED
      BY <3>1, <3>2
  <2>3. ASSUME HasPositions, NEW i \in 1 .. Collected'
        PROVE  positions'[i] = IF leaves[i] = None THEN None ELSE RankOf(i) - 1
    <3>1. Collected = Len(positions)
      BY <2>3 DEF Collected
    <3>2. CASE i = Collected + 1
      BY <1>1, <1>2, <1>3, <1>7, <1>9, <2>3, <3>1, <3>2 DEF Gathered
    <3>3. CASE i # Collected + 1
      <4>1. i \in 1 .. Collected
        BY <1>2, <1>5, <3>3
      <4> QED
        BY <1>9, <2>3, <3>1, <4>1 DEF Gathered
    <3> QED
      BY <3>2, <3>3
  <2>4. ASSUME NEW r \in 1 .. Len(flat')
        PROVE  \E i \in 1 .. Collected' : leaves[i] # None /\ RankOf(i) = r
    <3>1. CASE r = Len(flat) + 1
      <4>1. Collected + 1 \in 1 .. Collected'
        BY <1>2, <1>5
      <4> QED
        BY <1>1, <1>3, <1>7, <3>1, <4>1 DEF Gathered
    <3>2. CASE r # Len(flat) + 1
      <4>1. r \in 1 .. Len(flat)
        BY <1>2, <1>4, <3>2
      <4>2. PICK i \in 1 .. Collected : leaves[i] # None /\ RankOf(i) = r
        BY <4>1 DEF Gathered
      <4>3. i \in 1 .. Collected'
        BY <1>2, <1>5
      <4> QED
        BY <4>2, <4>3
    <3> QED
      BY <3>1, <3>2
  <2> QED
    BY <1>1, <1>8, <2>1, <2>2, <2>3, <2>4 DEF Gathered
<1> QED
  BY <1>1, <1>6, <1>10 DEF Progress, NeverPanics

-----------------------------------------------------------------------------
(* Once every leaf has been read.                                          *)

(* Flat is exactly the present leaves, and the branch asks for the frame   *)
(* exactly when there are any; without gathering no leaf is absent.        *)
LEMMA AllGathered ==
  ASSUME NInv, Collected = Len(leaves)
  PROVE  /\ Len(flat) = RankOf(Len(leaves))
         /\ flat = Field!Present
         /\ Field!Needed <=> flat # <<>>
         /\ BranchFor \in WithFrame <=> Field!Needed
         /\ BranchFor = "direct" => Len(flat) = Len(leaves)
         /\ BranchFor = "take" => HasPositions
         /\ BranchFor = "allAbsent" <=> HasPositions /\ leaves # <<>> /\ ~Field!Needed
<1> USE DEF NInv
<1>1. /\ leaves \in Seq(Structs \cup {None}) /\ Len(leaves) \in Nat
      /\ ~HasPositions => leaves \in Seq(Structs)
      /\ Len(flat) \in Nat
  BY CollectTyped
<1>2. Len(flat) = RankOf(Len(leaves))
  BY DEF Gathered
<1>3. flat = Field!Present
  <2>1. Field!Present = [r \in 1 .. RankOf(Len(leaves)) |->
           leaves[CHOOSE i \in DOMAIN leaves : leaves[i] # None /\ RankOf(i) = r]]
    BY DEF Field!Present, RankOf
  <2>2. DOMAIN leaves = 1 .. Len(leaves)
    BY <1>1, LenProperties
  <2>3. ASSUME NEW r \in 1 .. Len(flat)
        PROVE  flat[r] = leaves[CHOOSE i \in DOMAIN leaves : leaves[i] # None /\ RankOf(i) = r]
    <3>1. \E i \in DOMAIN leaves : leaves[i] # None /\ RankOf(i) = r
      BY <2>2 DEF Gathered
    <3>2. PICK j \in DOMAIN leaves :
             /\ j = CHOOSE i \in DOMAIN leaves : leaves[i] # None /\ RankOf(i) = r
             /\ leaves[j] # None /\ RankOf(j) = r
      BY <3>1
    <3>3. flat[r] = leaves[j]
      BY <2>2, <3>2 DEF Gathered
    <3> QED
      BY <3>2, <3>3
  <2>4. flat = [r \in 1 .. Len(flat) |-> flat[r]]
    BY DEF TypeOK
  <2> QED
    BY <1>2, <2>1, <2>3, <2>4, Zenon
<1>4. Field!Needed <=> flat # <<>>
  <2>1. Field!Needed <=> RankOf(Len(leaves)) # 0
    BY <1>1, RankTyped DEF Field!Needed, PresentIn
  <2> QED
    BY <1>2, <2>1, EmptySeq DEF TypeOK
<1>5. ~HasPositions => Len(flat) = Len(leaves)
  BY DEF Collected
<1>6. ~Listed => leaves # <<>>
  BY InputAssumption DEF TypeOK
<1>7. leaves = <<>> <=> Len(leaves) = 0
  BY <1>1, EmptySeq
<1>8. flat = <<>> <=> Len(flat) = 0
  BY EmptySeq DEF TypeOK
<1>9. TotalLen = 0 => flat = <<>>
  <2>1. RankOf(Len(leaves)) <= Len(leaves)
    BY <1>1, RankTyped
  <2> QED
    BY <1>1, <1>2, <1>8, <2>1 DEF TotalLen
<1>10. /\ BranchFor \in WithFrame <=> flat # <<>>
       /\ BranchFor = "direct" => Len(flat) = Len(leaves)
       /\ BranchFor = "take" => HasPositions
       /\ BranchFor = "allAbsent" <=> HasPositions /\ leaves # <<>> /\ flat = <<>>
  BY <1>5, <1>6, <1>7, <1>8, <1>9, ShapeAssumption
     DEF BranchFor, WithFrame, Shapes, HasPositions, Listed, TotalLen
<1> QED
  BY <1>2, <1>3, <1>4, <1>10

(* The frame of a run that needs one has a column of its height for each   *)
(* name it has.                                                            *)
LEMMA FrameTyped ==
  ASSUME NInv, phase \in {"schema", "consume", "done"}, branch \in WithFrame
  PROVE  df # Failed /\ IsFrame(df) /\ df.height = Len(flat)
<1> USE DEF NInv
<1>1. df \in Frames[flat] /\ ValidFrame(df)
  BY DEF Progress
<1>2. flat \in DOMAIN Frames
  <2>1. /\ Len(leaves) \in Nat /\ Len(flat) \in Nat /\ leaves \in Inputs
        /\ RankOf(Len(leaves)) <= Len(leaves)
    BY CollectTyped, RankTyped DEF TypeOK
  <2>2. Len(flat) \in 0 .. Len(leaves)
    BY <2>1, AllGathered DEF Progress
  <2>3. flat \in [1 .. Len(flat) -> Structs]
    BY DEF TypeOK
  <2> QED
    BY <2>1, <2>2, <2>3, ReplyAssumption
<1> QED
  BY <1>1, <1>2, ReplyAssumption DEF ValidFrame

(* The cells of a column that is built are those of the leaves themselves, *)
(* so there are as many as the lists need, of the declared dtype.          *)
LEMMA CellsAreOwn ==
  ASSUME NInv, phase = "consume", NEW e \in Entry,
         branch \in WithFrame => Declared(e)
  PROVE  /\ CellsOf(e) = Field!ColumnOf(e).cells
         /\ CellsOf(e) \in Seq(Cells \union {None}) /\ Len(CellsOf(e)) = Len(leaves)
         /\ DtypeOf(e) = e.dtype
         /\ branch = "take" => Takeable(df.columns[e.name].cells)
<1> USE DEF NInv
<1>0. /\ Len(leaves) \in Nat /\ DOMAIN leaves = 1 .. Len(leaves)
      /\ Len(positions) \in Nat /\ DOMAIN positions = 1 .. Len(positions)
  BY CollectTyped, LenProperties DEF TypeOK
<1>1. /\ Collected = Len(leaves) /\ branch = BranchFor /\ Len(flat) = RankOf(Len(leaves))
      /\ branch = "direct" => Len(flat) = Len(leaves)
      /\ branch = "take" => HasPositions
      /\ Field!Needed <=> branch \in WithFrame
  BY AllGathered DEF Progress
<1>2. branch \in {"direct", "take", "empty", "allAbsent"}
  BY <1>1, ShapeAssumption DEF BranchFor, Shapes
<1>3. DtypeOf(e) = e.dtype
  BY <1>2 DEF DtypeOf, WithFrame, Declared
<1>4. DEFINE own == [i \in DOMAIN leaves |->
                       IF leaves[i] = None THEN None ELSE df.columns[e.name].cells[RankOf(i)]]
<1>5. Field!ColumnOf(e).cells = own
  BY DEF Field!ColumnOf, RankOf
<1>6. ASSUME branch \in WithFrame
      PROVE  /\ df.columns[e.name].cells \in Seq(Cells \union {None})
             /\ Len(df.columns[e.name].cells) = Len(flat)
  BY <1>6, FrameTyped DEF IsFrame, Declared
<1>7. ASSUME ~Field!Needed, NEW i \in DOMAIN leaves PROVE leaves[i] = None
  BY <1>0, <1>7 DEF Field!Needed, Field!PresentTo
<1>8. CASE branch = "direct"
  <2>1. \A i \in 1 .. Len(leaves) : leaves[i] # None
    BY <1>0, <1>1, <1>8, RankTyped
  <2>2. ASSUME NEW i \in 1 .. Len(leaves) PROVE RankOf(i) = i
    <3>1. PresentIn(i) = 1 .. i
      BY <2>1, <1>0 DEF PresentIn, Field!PresentTo
    <3> QED
      BY <3>1, RankIsCardinality, FS_Interval
  <2>3. CellsOf(e) = df.columns[e.name].cells
    BY <1>8 DEF CellsOf
  <2>4. CellsOf(e) \in Seq(Cells \union {None}) /\ Len(CellsOf(e)) = Len(leaves)
    BY <1>1, <1>6, <1>8, <2>3 DEF WithFrame
  <2>5. CellsOf(e) = [i \in 1 .. Len(leaves) |-> CellsOf(e)[i]]
    BY <2>4
  <2>6. own = [i \in 1 .. Len(leaves) |-> CellsOf(e)[i]]
    BY <1>0, <2>1, <2>2, <2>3
  <2> QED
    BY <1>3, <1>5, <1>8, <2>4, <2>5, <2>6
<1>9. CASE branch = "take"
  <2>1. HasPositions /\ Len(positions) = Len(leaves)
    BY <1>1, <1>9 DEF Collected
  <2>2. ASSUME NEW i \in DOMAIN leaves, leaves[i] # None
        PROVE  positions[i] + 1 = RankOf(i) /\ RankOf(i) \in 1 .. Len(flat)
    <3>1. RankOf(i) \in Nat /\ RankOf(i) <= RankOf(Len(leaves)) /\ i \in PresentIn(i)
      <4>1. i \in Nat /\ i <= Len(leaves) /\ i \in 1 .. i
        BY <1>0, <2>2
      <4>2. i \in PresentIn(i)
        BY <2>2, <4>1 DEF PresentIn, Field!PresentTo
      <4> QED
        BY <1>0, <4>1, <4>2, RankTyped, RankGrows
    <3>2. RankOf(i) # 0
      BY <1>0, <3>1, RankTyped
    <3>3. positions[i] = RankOf(i) - 1
      BY <1>0, <1>1, <2>1, <2>2 DEF Gathered
    <3> QED
      BY <1>1, <3>1, <3>2, <3>3
  <2>3. ASSUME NEW i \in DOMAIN leaves PROVE positions[i] = None <=> leaves[i] = None
    <3>1. leaves[i] = None => positions[i] = None
      BY <1>0, <1>1, <2>1 DEF Gathered
    <3>2. ASSUME leaves[i] # None PROVE positions[i] # None
      <4>1. RankOf(i) - 1 \in Nat /\ positions[i] = RankOf(i) - 1
        BY <1>0, <1>1, <2>1, <2>2, <3>2 DEF Gathered
      <4> QED
        BY <4>1, NoneAssumption
    <3> QED
      BY <3>1, <3>2
  <2>4. CellsOf(e) = own
    <3>1. CellsOf(e) = [i \in DOMAIN leaves |->
             IF positions[i] = None THEN None ELSE df.columns[e.name].cells[positions[i] + 1]]
      BY <1>0, <1>9, <2>1 DEF CellsOf, Taken
    <3> QED
      BY <2>2, <2>3, <3>1
  <2>5. Takeable(df.columns[e.name].cells)
    BY <1>0, <1>6, <1>9, <2>1, <2>2, <2>3, LenProperties DEF Takeable, WithFrame
  <2>6. own \in Seq(Cells \union {None}) /\ Len(own) = Len(leaves)
    <3>1. ASSUME NEW i \in DOMAIN leaves PROVE own[i] \in Cells \union {None}
      BY <1>6, <1>9, <2>2, <3>1, ElementOfSeq DEF WithFrame
    <3>2. own \in [1 .. Len(leaves) -> Cells \union {None}]
      BY <1>0, <3>1
    <3> QED
      BY <1>0, <3>2
  <2> QED
    BY <1>3, <1>5, <2>4, <2>5, <2>6
<1>10. CASE branch \in {"empty", "allAbsent"}
  <2>1. ~Field!Needed
    BY <1>1, <1>10 DEF WithFrame
  <2>2. \A i \in DOMAIN leaves : leaves[i] = None
    BY <1>7, <2>1
  <2>3. own = [i \in 1 .. Len(leaves) |-> None]
    BY <1>0, <2>2
  <2>4. own \in Seq(Cells \union {None}) /\ Len(own) = Len(leaves)
    BY <1>0, <2>3
  <2>5. CASE branch = "allAbsent"
    BY <1>3, <1>5, <2>3, <2>4, <2>5 DEF CellsOf, Nulls, TotalLen
  <2>6. CASE branch = "empty"
    <3>1. Len(leaves) = 0
      <4>1. CASE Shape = "vecInnerOption"
        BY <1>1, <2>6, <4>1 DEF BranchFor, TotalLen
      <4>2. CASE Shape # "vecInnerOption"
        <5>1. Shape = "vec" /\ flat = <<>>
          BY <1>1, <2>6, <4>2, ShapeAssumption DEF BranchFor, Shapes
        <5> QED
          BY <1>1, <5>1, EmptySeq DEF Collected, HasPositions
      <4> QED
        BY <4>1, <4>2
    <3>2. own = <<>> /\ CellsOf(e) = <<>>
      BY <2>3, <2>4, <2>6, <3>1, EmptySeq DEF CellsOf
    <3> QED
      BY <1>3, <1>5, <2>4, <2>6, <3>2
  <2> QED
    BY <1>10, <2>5, <2>6
<1> QED
  BY <1>2, <1>8, <1>9, <1>10

-----------------------------------------------------------------------------
(* Every step keeps the invariant and is a step of NestedField or none.    *)

(* Gathered speaks only of the leaves, flat and positions.                 *)
LEMMA GatheredKept ==
  ASSUME Gathered, UNCHANGED <<leaves, flat, positions>>
  PROVE  Gathered' /\ Collected' = Collected /\ BranchFor' = BranchFor
<1>1. \A i : RankOf(i)' = RankOf(i)
  BY RankFixed
<1>2. Collected' = Collected /\ BranchFor' = BranchFor
  BY DEF Collected, BranchFor, TotalLen
<1>3. RankOf(Collected)' = RankOf(Collected)
  BY <1>2 DEF RankOf, Field!Rank, Field!PresentTo
<1> QED
  BY <1>1, <1>2, <1>3 DEF Gathered

(* An error is allowed to end the block at any point.                      *)
LEMMA ErrorKeeps ==
  ASSUME NInv, Fail("error")
  PROVE  NInv'
<1> USE DEF NInv
<1>1. TypeOK' /\ NeverPanics'
  BY DEF Fail, TypeOK, NeverPanics, Ended
<1>2. Gathered'
  BY GatheredKept DEF Fail
<1>3. Progress'
  BY DEF Fail, Progress
<1> QED
  BY <1>1, <1>2, <1>3

(* Collecting is invisible to the abstract specification, except for the   *)
(* error when there are too many structs to index.                         *)
LEMMA CollectSteps ==
  ASSUME NInv, Collect
  PROVE  NInv' /\ (Field!Next \/ UNCHANGED Field!vars)
<1> USE DEF NInv
<1>1. CASE CollectAbsent
  <2>1. NInv'
    BY <1>1, AbsentGathered
  <2>2. UNCHANGED <<leaves, phase, df, entries, columns>>
    BY <1>1 DEF CollectAbsent
  <2> QED
    BY <2>1, <2>2 DEF Field!vars, Status
<1>2. CASE CollectPresent
  <2>1. NInv'
    BY <1>2, PresentGathered
  <2>2. UNCHANGED <<leaves, phase, df, entries, columns>>
    BY <1>2 DEF CollectPresent
  <2> QED
    BY <2>1, <2>2 DEF Field!vars, Status
<1>3. CASE CollectTooMany
  <2>1. PICK v \in Structs :
          /\ phase = "collect" /\ Collected < Len(leaves) /\ leaves[Collected + 1] = v
          /\ HasPositions /\ Len(flat) > MaxIdx /\ Fail("error")
    BY <1>3 DEF CollectTooMany, Collecting
  <2>2. Len(leaves) \in Nat /\ Collected \in Nat /\ Len(flat) \in Nat
    BY CollectTyped
  <2>3. RankOf(Collected + 1) = RankOf(Collected) + 1
    BY <2>1, <2>2, RankStep, NoneAssumption
  <2>4. RankOf(Collected + 1) <= RankOf(Len(leaves)) /\ RankOf(Len(leaves)) \in Nat
    BY <2>1, <2>2, RankGrows, RankTyped
  <2>5. RankOf(Len(leaves)) > MaxIdx + 1
    BY <2>1, <2>2, <2>3, <2>4, BoundAssumption DEF Gathered
  <2>6. Field!Excused
    BY <2>1, <2>5 DEF Field!Excused, Status, RankOf
  <2>7. Field!Reject
    BY <2>1, <2>6 DEF Field!Reject, Fail, Status
  <2> QED
    BY <2>1, <2>7, ErrorKeeps DEF Field!Next
<1> QED
  BY <1>1, <1>2, <1>3 DEF Collect

(* Choosing a branch is invisible; it settles whether the frame is needed. *)
LEMMA DispatchSteps ==
  ASSUME NInv, Dispatch
  PROVE  NInv' /\ (Field!Next \/ UNCHANGED Field!vars)
<1> USE DEF NInv
<1>1. /\ phase = "collect" /\ Collected = Len(leaves) /\ branch' = BranchFor
      /\ phase' = IF BranchFor \in WithFrame THEN "frame" ELSE "schema"
      /\ UNCHANGED <<leaves, flat, positions, df, entries, columns>>
  BY DEF Dispatch, WithFrame
<1>2. Gathered' /\ Collected' = Collected /\ BranchFor' = BranchFor
  BY <1>1, GatheredKept
<1>3. BranchFor \in {"none", "direct", "take", "empty", "allAbsent"}
  BY ShapeAssumption DEF BranchFor, Shapes
<1>4. TypeOK' /\ NeverPanics'
  BY <1>1, <1>3 DEF TypeOK, NeverPanics
<1>5. Progress'
  BY <1>1, <1>2 DEF Progress
<1>6. Status' = Status
  BY <1>1 DEF Status, Progress
<1> QED
  BY <1>1, <1>2, <1>4, <1>5, <1>6 DEF Field!vars

(* A frame of the right height is kept, any other is an error that the     *)
(* struct's own code is the reason for.                                    *)
LEMMA BuildFrameSteps ==
  ASSUME NInv, BuildFrame
  PROVE  NInv' /\ (Field!Next \/ UNCHANGED Field!vars)
<1> USE DEF NInv
<1>1. PICK f \in Frames[flat] :
        /\ phase = "frame"
        /\ \/ /\ ValidFrame(f) /\ phase' = "schema" /\ df' = f
              /\ UNCHANGED <<leaves, flat, positions, branch, entries, columns>>
           \/ ~ValidFrame(f) /\ Fail("error")
  BY DEF BuildFrame
<1>2. /\ Collected = Len(leaves) /\ branch = BranchFor /\ branch \in WithFrame /\ df = Failed
      /\ Len(flat) = RankOf(Len(leaves)) /\ flat = Field!Present /\ Field!Needed
  BY <1>1, AllGathered DEF Progress
<1>3. Field!Conforming(f) <=> ValidFrame(f)
  BY <1>2 DEF Field!Conforming, ValidFrame, RankOf
<1>4. CASE ValidFrame(f)
  <2>1. /\ phase' = "schema" /\ df' = f /\ f # Failed
        /\ UNCHANGED <<leaves, flat, positions, branch, entries, columns>>
    BY <1>1, <1>4 DEF ValidFrame
  <2>2. Gathered' /\ Collected' = Collected /\ BranchFor' = BranchFor
    BY <2>1, GatheredKept
  <2>3. TypeOK' /\ NeverPanics'
    BY <2>1 DEF TypeOK, NeverPanics
  <2>4. Progress'
    BY <1>1, <1>2, <1>4, <2>1, <2>2 DEF Progress, ValidFrame
  <2>5. Field!UseFrame
    BY <1>1, <1>2, <1>3, <1>4, <2>1 DEF Field!UseFrame, Status
  <2> QED
    BY <2>2, <2>3, <2>4, <2>5 DEF Field!Next
<1>5. CASE ~ValidFrame(f)
  <2>1. Fail("error")
    BY <1>1, <1>5
  <2>2. Field!Excused
    BY <1>1, <1>2, <1>3, <1>5 DEF Field!Excused, Status
  <2>3. Field!Reject
    BY <2>1, <2>2 DEF Field!Reject, Fail, Status
  <2> QED
    BY <2>1, <2>3, ErrorKeeps DEF Field!Next
<1> QED
  BY <1>4, <1>5

(* The schema is read once, after the frame if there is one.               *)
LEMMA ReadSchemaSteps ==
  ASSUME NInv, ReadSchema
  PROVE  NInv' /\ (Field!Next \/ UNCHANGED Field!vars)
<1> USE DEF NInv
<1>1. PICK s \in Schemas :
        /\ phase = "schema"
        /\ \/ /\ s # Failed /\ phase' = "consume" /\ entries' = s
              /\ UNCHANGED <<leaves, flat, positions, branch, df, columns>>
           \/ s = Failed /\ Fail("error")
  BY DEF ReadSchema
<1>2. /\ Collected = Len(leaves) /\ branch = BranchFor
      /\ Field!Needed <=> branch \in WithFrame
  BY <1>1, AllGathered DEF Progress
<1>3. Status = IF Field!Needed THEN "framed" ELSE "building"
  BY <1>1, <1>2 DEF Status, Progress, ValidFrame
<1>4. CASE s # Failed
  <2>1. /\ phase' = "consume" /\ entries' = s /\ s \in Schemas \ {Failed}
        /\ UNCHANGED <<leaves, flat, positions, branch, df, columns>>
    BY <1>1, <1>4
  <2>2. Gathered' /\ Collected' = Collected /\ BranchFor' = BranchFor
    BY <2>1, GatheredKept
  <2>3. s \in Seq(Entry) /\ columns = <<>>
    BY <1>1, <1>4, ReplyAssumption DEF Progress
  <2>4. TypeOK' /\ NeverPanics'
    BY <2>1, <2>3 DEF TypeOK, NeverPanics
  <2>5. Progress'
    BY <1>1, <1>2, <2>1, <2>2 DEF Progress, ValidFrame
  <2>6. Field!UseSchema
    BY <1>3, <2>1 DEF Field!UseSchema, Status
  <2> QED
    BY <2>2, <2>4, <2>5, <2>6 DEF Field!Next
<1>5. CASE s = Failed
  <2>1. Fail("error") /\ Failed \in Schemas
    BY <1>1, <1>5
  <2>2. Field!Excused
    BY <1>3, <2>1 DEF Field!Excused
  <2>3. Field!Reject
    BY <2>1, <2>2 DEF Field!Reject, Fail, Status
  <2> QED
    BY <2>1, <2>3, ErrorKeeps DEF Field!Next
<1> QED
  BY <1>4, <1>5

(* A declared column is built from the leaves' own cells, or the struct's  *)
(* frame is the reason why it is not; no list panics on its child.         *)
LEMMA ConsumeSteps ==
  ASSUME NInv, Consume
  PROVE  NInv' /\ (Field!Next \/ UNCHANGED Field!vars)
<1> USE DEF NInv
<1>1. /\ phase = "consume"
      /\ Len(columns) \in Nat /\ Len(entries) \in Nat /\ Len(columns) <= Len(entries)
  BY LenProperties DEF Consume, PushColumn, RejectColumn, Finish, Consuming, TypeOK
<1>2. /\ Status = "declared"
      /\ Field!Needed <=> branch \in WithFrame
      /\ branch = "allAbsent" <=> HasPositions /\ leaves # <<>> /\ ~Field!Needed
  BY <1>1, AllGathered DEF Status, Progress
<1>3. ASSUME NEW e \in Entry, Consuming(e)
      PROVE  /\ e = entries[Len(columns) + 1] /\ Len(columns) < Len(entries)
             /\ Field!Kept(e) <=> Built(e) /\ Wrappable(e) /\ Assembled(e)
             /\ Built(e) => Wrappable(e)
             /\ Built(e) => /\ CellsOf(e) = Field!ColumnOf(e).cells /\ DtypeOf(e) = e.dtype
                            /\ CellsOf(e) \in Seq(Cells \union {None})
  <2>1. e = entries[Len(columns) + 1] /\ Len(columns) < Len(entries)
    BY <1>3 DEF Consuming
  <2>2. CASE ~(branch \in WithFrame => Declared(e))
    <3>1. ~Built(e)
      BY <2>2 DEF Built, WithFrame
    <3>2. ~Field!Kept(e)
      BY <1>2, <2>2 DEF Field!Kept, Declared
    <3> QED
      BY <2>1, <3>1, <3>2
  <2>3. CASE branch \in WithFrame => Declared(e)
    <3>1. /\ CellsOf(e) = Field!ColumnOf(e).cells /\ DtypeOf(e) = e.dtype
          /\ CellsOf(e) \in Seq(Cells \union {None}) /\ Len(CellsOf(e)) = Len(leaves)
          /\ branch = "take" => Takeable(df.columns[e.name].cells)
      BY <1>1, <2>3, CellsAreOwn
    <3>2. Built(e) <=> (branch = "allAbsent" => e.dtype \notin Unfillable)
      BY <2>3, <3>1 DEF Built, WithFrame
    <3>3. Wrappable(e)
      BY <3>1, CollectTyped DEF Wrappable, TotalLen
    <3>4. Field!Kept(e) <=> Built(e) /\ Assembled(e)
      BY <1>2, <2>3, <3>1, <3>2 DEF Field!Kept, Assembled, Declared
    <3> QED
      BY <2>1, <3>1, <3>2, <3>3, <3>4
  <2> QED
    BY <2>2, <2>3
<1>4. CASE PushColumn
  <2>1. PICK e \in Entry :
          /\ Consuming(e) /\ Built(e) /\ Wrappable(e) /\ Assembled(e)
          /\ columns' = Append(columns, [name |-> OutputName[e.name], dtype |-> DtypeOf(e),
                                         cells |-> CellsOf(e)])
          /\ UNCHANGED <<leaves, phase, flat, positions, branch, df, entries>>
    BY <1>4 DEF PushColumn
  <2>2. Gathered' /\ Collected' = Collected /\ BranchFor' = BranchFor
    BY <2>1, GatheredKept
  <2>3. e.name \in Names /\ e.dtype \in Dtypes /\ OutputName[e.name] \in Names
    BY ReplyAssumption DEF Entry
  <2>4. [name |-> OutputName[e.name], dtype |-> DtypeOf(e), cells |-> CellsOf(e)] \in Column
    BY <1>3, <2>1, <2>3 DEF Column
  <2>5. columns' \in Seq(Column) /\ Len(columns') = Len(columns) + 1
    BY <2>1, <2>4, AppendProperties DEF TypeOK
  <2>6. TypeOK' /\ NeverPanics'
    BY <1>1, <1>3, <2>1, <2>5 DEF TypeOK, NeverPanics
  <2>7. Progress'
    BY <1>1, <2>1, <2>2 DEF Progress, ValidFrame
  <2>8. Field!ColumnOf(e) =
          [name |-> OutputName[e.name], dtype |-> DtypeOf(e), cells |-> CellsOf(e)]
    BY <1>3, <2>1 DEF Field!ColumnOf
  <2>9. Field!AddColumn
    BY <1>2, <1>3, <2>1, <2>8 DEF Field!AddColumn, Status
  <2> QED
    BY <2>2, <2>6, <2>7, <2>9 DEF Field!Next
<1>5. CASE RejectColumn
  <2>1. PICK e \in Entry :
          /\ Consuming(e) /\ ~(Built(e) /\ Wrappable(e) /\ Assembled(e))
          /\ Fail(IF Built(e) /\ ~Wrappable(e) THEN "panic" ELSE "error")
    BY <1>5 DEF RejectColumn
  <2>2. Fail("error")
    BY <1>3, <2>1
  <2>3. Field!Excused
    BY <1>2, <1>3, <2>1 DEF Field!Excused
  <2>4. Field!Reject
    BY <2>2, <2>3 DEF Field!Reject, Fail, Status
  <2> QED
    BY <2>2, <2>4, ErrorKeeps DEF Field!Next
<1>6. CASE Finish
  <2>1. /\ Len(columns) = Len(entries) /\ phase' = "done"
        /\ UNCHANGED <<leaves, flat, positions, branch, df, entries, columns>>
    BY <1>6 DEF Finish, Fail
  <2>2. Gathered' /\ Collected' = Collected /\ BranchFor' = BranchFor
    BY <2>1, GatheredKept
  <2>3. TypeOK' /\ NeverPanics'
    BY <2>1 DEF TypeOK, NeverPanics, Ended
  <2>4. Progress'
    BY <1>1, <2>1, <2>2 DEF Progress, ValidFrame
  <2>5. Field!Complete
    BY <1>2, <2>1 DEF Field!Complete, Status
  <2> QED
    BY <2>2, <2>3, <2>4, <2>5 DEF Field!Next
<1> QED
  BY <1>4, <1>5, <1>6 DEF Consume

(* Every step, and a stutter, keeps the invariant and refines.             *)
LEMMA StepSimulates ==
  NInv /\ [Next]_vars => NInv' /\ [Field!Next]_(Field!vars)
<1> SUFFICES ASSUME NInv, [Next]_vars PROVE NInv' /\ [Field!Next]_(Field!vars)
  OBVIOUS
<1>1. CASE Collect \/ Dispatch \/ BuildFrame \/ ReadSchema \/ Consume
  BY <1>1, CollectSteps, DispatchSteps, BuildFrameSteps, ReadSchemaSteps, ConsumeSteps
<1>2. CASE UNCHANGED vars
  <2>1. UNCHANGED <<leaves, phase, flat, positions, branch, df, entries, columns>>
    BY <1>2 DEF vars
  <2>2. Gathered' /\ Collected' = Collected /\ BranchFor' = BranchFor
    BY <2>1, GatheredKept DEF NInv
  <2>3. TypeOK' /\ NeverPanics'
    BY <2>1 DEF NInv, TypeOK, NeverPanics
  <2>4. Progress'
    BY <2>1, <2>2 DEF NInv, Progress, ValidFrame
  <2> QED
    BY <2>1, <2>2, <2>3, <2>4 DEF NInv, Field!vars, Status
<1> QED
  BY <1>1, <1>2 DEF Next, Return

(* The initial states are initial states of the abstract specification.    *)
LEMMA InitSimulates == Init => Field!Init
BY DEF Init, Field!Init, Status

(* No frame and no schema that a hand-written struct may return leads the  *)
(* generated code to a panic, for any shape and number of leaves.          *)
THEOREM NestedNeverPanics == Spec => []NeverPanics
<1>1. NInv => NeverPanics
  BY DEF NInv
<1> QED
  BY <1>1, GatherStarts, StepSimulates, PTL DEF Spec

(* All four branches give what NestedField promises: each declared column, *)
(* each cell that of its own leaf, and errors only with a reason.          *)
THEOREM ColumnsAreTheLeaves == Spec => ImplementsNestedField
BY GatherStarts, StepSimulates, InitSimulates, PTL
   DEF Spec, ImplementsNestedField, Field!Spec

(* The collected references, positions and columns keep their types.       *)
THEOREM NestedTypeCorrect == Spec => []TypeOK
<1>1. NInv => TypeOK
  BY DEF NInv
<1> QED
  BY <1>1, GatherStarts, StepSimulates, PTL DEF Spec
=============================================================================
