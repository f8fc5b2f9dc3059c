------------------------ MODULE ColumnarFrameProofs ------------------------
(* Theorems about ColumnarFrame: types, no panic, distinct names, and that *)
(* every entry point answers as DeclaredTable does.                        *)
EXTENDS ColumnarFrameTable, SequenceTheorems, TLAPS

ItemsType(s) == s \in Seq([Ids -> Values \union {None}])

-----------------------------------------------------------------------------
(* What the first n pushes for field f leave in its buffers, for a slice s *)
(* of items.                                                               *)

Present(s, f, n, i) == i <= n /\ s[i][f] # None

ReadsPlain(s, b, f, n) ==
  Len(b.values) = n /\ \A i \in 1 .. n : b.values[i] = Shown(s[i][f])

ReadsPushed(s, b, f, n) ==
  /\ Len(b.values) = n /\ Len(b.validity) = n
  /\ \A i \in 1 .. n :
       b.validity[i] = (s[i][f] # None) /\ (s[i][f] # None => b.values[i] = Encode[s[i][f]])

ReadsBitmap(s, b, f, n) ==
  /\ Len(b.validity) = Len(s) /\ b.idx = n
  /\ \A i \in 1 .. Len(s) : b.validity[i] = (i <= n => s[i][f] # None)

ReadsIndexed(s, b, f, n) ==
  Len(b.values) = n /\ \A i \in 1 .. n : s[i][f] # None => b.values[i] = Encode[s[i][f]]

ReadsBits(s, b, f, n) ==
  /\ Len(b.values) = Len(s)
  /\ \A i \in 1 .. Len(s) : b.values[i] = (Present(s, f, n, i) /\ Encode[s[i][f]])

Reads(s, b, f, n) ==
  /\ \A i \in 1 .. n : Encodes(s[i][f])
  /\ Storage(f) \in {"plain", "options"} => ReadsPlain(s, b, f, n)
  /\ Storage(f) = "pushed"  => ReadsPushed(s, b, f, n)
  /\ HasBitmap(f)           => ReadsBitmap(s, b, f, n)
  /\ Storage(f) = "indexed" => ReadsIndexed(s, b, f, n)
  /\ Storage(f) = "bits"    => ReadsBits(s, b, f, n)

-----------------------------------------------------------------------------
(* The assumptions, in the form the steps use them.                        *)

(* The parts of a field of the IR.                                         *)
LEMMA FieldType ==
  ASSUME NEW f \in Ids
  PROVE  /\ Kind(f) \in Kinds /\ Storage(f) \in Storages
         /\ Fields[f].name \in Name /\ Fields[f].prefix \in Name
         /\ Fields[f].dtype \in STRING /\ Fields[f].lists \in Nat
         /\ Fields[f].policy \in Policies
         /\ f \in 1 .. Len(Fields) /\ f \in Nat
<1> DEFINE R == [kind : Kinds, storage : Storages, name : Name, dtype : STRING,
                 lists : Nat, policy : Policies, prefix : Name]
<1>1. Fields[f] \in R
  <2>1. Fields \in Seq(R) BY FieldsAssumption
  <2> HIDE DEF R
  <2> QED BY <2>1 DEF Ids
<1>2. f \in 1 .. Len(Fields) /\ f \in Nat
  BY FieldsAssumption DEF Ids
<1> QED BY <1>1, <1>2 DEF Kind, Storage

(* Fields are numbered from one.                                           *)
LEMMA IdsAre == Ids = 1 .. Len(Fields) /\ Len(Fields) \in Nat
BY FieldsAssumption DEF Ids

(* What is assumed of the items, field by field.                           *)
LEMMA InputType ==
  ASSUME NEW s \in Inputs
  PROVE  /\ ItemsType(s)
         /\ \A i \in DOMAIN s : \A f \in Ids :
              /\ s[i][f] \in Values \union {None}
              /\ IsLeaf(f) /\ s[i][f] = None => IsOptional(f)
              /\ IsLeaf(f) /\ Storage(f) = "bits" /\ s[i][f] # None => Encode[s[i][f]] \in BOOLEAN
              /\ Kind(f) = "nested" => Encodes(s[i][f])
<1>1. ItemsType(s) BY InputAssumption DEF ItemsType
<1>2. ASSUME NEW i \in DOMAIN s, NEW f \in Ids PROVE s[i][f] \in Values \union {None}
  <2>1. s[i] \in [Ids -> Values \union {None}] BY <1>1 DEF ItemsType
  <2> QED BY <2>1
<1> QED BY <1>1, <1>2, InputAssumption DEF Encodes

(* What a value that can be encoded is stored as.                          *)
LEMMA EncodedType ==
  ASSUME NEW v \in Values \union {None}, Encodes(v), v # None
  PROVE  Encode[v] \in Stores
BY DEF Encodes, Stores

-----------------------------------------------------------------------------
(* The buffers of one field.                                               *)

(* Freshly declared buffers hold the values of no item.                    *)
LEMMA FreshReads ==
  ASSUME NEW f \in Ids, IsLeaf(f), items \in Inputs
  PROVE  Fresh(f) \in Buffers /\ Reads(items, Fresh(f), f, 0)
<1>1. ItemsType(items) /\ Len(items) \in Nat
  BY InputType DEF ItemsType
<1>2. Storage(f) \in Storages BY FieldType
<1> DEFINE Unset == Filled(Len(items), FALSE)
           Set   == Filled(Len(items), TRUE)
<1>3. /\ Unset \in Seq(BOOLEAN) /\ Len(Unset) = Len(items)
      /\ Set \in Seq(BOOLEAN) /\ Len(Set) = Len(items)
      /\ \A i \in 1 .. Len(items) : Unset[i] = FALSE /\ Set[i] = TRUE
  BY <1>1 DEF Filled
<1>4. Unset \in Seq(Stores) BY <1>1 DEF Filled, Stores
<1>a. /\ Fresh(f).values = IF Storage(f) = "bits" THEN Unset ELSE <<>>
      /\ Fresh(f).validity = IF HasBitmap(f) THEN Set ELSE <<>>
      /\ Fresh(f).idx = 0
  BY DEF Fresh
<1> HIDE DEF Unset, Set
<1>b. /\ Storage(f) # "bits" => Fresh(f).values = <<>>
      /\ Storage(f) = "bits" => Fresh(f).values = Unset
      /\ ~HasBitmap(f) => Fresh(f).validity = <<>>
      /\ HasBitmap(f) => Fresh(f).validity = Set
  BY <1>a, Zenon
<1>5. Fresh(f) \in Buffers
  <2>0. <<>> \in Seq(Stores) /\ <<>> \in Seq(BOOLEAN) OBVIOUS
  <2>1. Fresh(f).values \in Seq(Stores) BY <2>0, <1>b, <1>4, Zenon
  <2>2. Fresh(f).validity \in Seq(BOOLEAN) BY <2>0, <1>b, <1>3, Zenon
  <2> QED BY <2>1, <2>2, <1>a DEF Buffers, Fresh
<1>6. Storage(f) \in {"plain", "options"} => ReadsPlain(items, Fresh(f), f, 0)
  BY <1>b DEF ReadsPlain
<1>7. Storage(f) = "pushed" => ReadsPushed(items, Fresh(f), f, 0)
  BY <1>b DEF ReadsPushed, HasBitmap
<1>8. HasBitmap(f) => ReadsBitmap(items, Fresh(f), f, 0)
  BY <1>a, <1>b, <1>3, <1>1 DEF ReadsBitmap
<1>9. Storage(f) = "indexed" => ReadsIndexed(items, Fresh(f), f, 0)
  BY <1>b DEF ReadsIndexed
<1>10. Storage(f) = "bits" => ReadsBits(items, Fresh(f), f, 0)
  BY <1>b, <1>3, <1>1 DEF ReadsBits, Present
<1> QED BY <1>5, <1>6, <1>7, <1>8, <1>9, <1>10 DEF Reads

(* Writing a bit inside a bitmap.                                          *)
LEMMA BitAt ==
  ASSUME NEW S, NEW w \in Seq(S), NEW k \in 1 .. Len(w), NEW x \in S
  PROVE  /\ [w EXCEPT ![k] = x] \in Seq(S) /\ Len([w EXCEPT ![k] = x]) = Len(w)
         /\ \A i \in 1 .. Len(w) : [w EXCEPT ![k] = x][i] = IF i = k THEN x ELSE w[i]
<1>1. k \in DOMAIN w OBVIOUS
<1> QED BY <1>1, ExceptSeq, LenProperties

(* Clearing a bit inside a bitmap.                                         *)
LEMMA UnsetBitAt ==
  ASSUME NEW w \in Seq(BOOLEAN), NEW n \in Nat, n + 1 \in 1 .. Len(w)
  PROVE  /\ UnsetBit(w, n) \in Seq(BOOLEAN) /\ Len(UnsetBit(w, n)) = Len(w)
         /\ \A i \in 1 .. Len(w) : UnsetBit(w, n)[i] = IF i = n + 1 THEN FALSE ELSE w[i]
<1> DEFINE x == FALSE
<1>1. x \in BOOLEAN BY DEF Stores
<1> HIDE DEF x
<1>2. /\ [w EXCEPT ![n + 1] = x] \in Seq(BOOLEAN) /\ Len([w EXCEPT ![n + 1] = x]) = Len(w)
      /\ \A i \in 1 .. Len(w) : [w EXCEPT ![n + 1] = x][i] = IF i = n + 1 THEN x ELSE w[i]
  BY <1>1, BitAt
<1> QED BY <1>2, Zenon DEF UnsetBit, x

(* Setting a bit inside a bitmap.                                          *)
LEMMA SetBitAt ==
  ASSUME NEW w \in Seq(Stores), NEW n \in Nat, n + 1 \in 1 .. Len(w)
  PROVE  /\ SetBit(w, n) \in Seq(Stores) /\ Len(SetBit(w, n)) = Len(w)
         /\ \A i \in 1 .. Len(w) : SetBit(w, n)[i] = IF i = n + 1 THEN TRUE ELSE w[i]
<1> DEFINE x == TRUE
<1>1. x \in Stores BY DEF Stores
<1> HIDE DEF x
<1>2. /\ [w EXCEPT ![n + 1] = x] \in Seq(Stores) /\ Len([w EXCEPT ![n + 1] = x]) = Len(w)
      /\ \A i \in 1 .. Len(w) : [w EXCEPT ![n + 1] = x][i] = IF i = n + 1 THEN x ELSE w[i]
  BY <1>1, BitAt
<1> QED BY <1>2, Zenon DEF SetBit, x

(* A push in bounds keeps the buffers' types and their reading.            *)
LEMMA PushKeeps ==
  ASSUME NEW s \in Inputs, NEW f \in Ids, IsLeaf(f), NEW n \in 0 .. Len(s) - 1,
         NEW b \in Buffers, Reads(s, b, f, n), Encodes(s[n + 1][f])
  PROVE  LET v == s[n + 1][f] IN
         /\ InBounds(f, b, v)
         /\ Pushed(f, b, v) \in Buffers
         /\ Reads(s, Pushed(f, b, v), f, n + 1)
<1> DEFINE v == s[n + 1][f]
           c == Pushed(f, b, v)
<1>1. /\ ItemsType(s) /\ Len(s) \in Nat /\ DOMAIN s = 1 .. Len(s)
      /\ n \in Nat /\ n + 1 \in 1 .. Len(s) /\ n + 1 \in DOMAIN s
  BY InputType DEF ItemsType
<1>2. /\ v \in Values \union {None} /\ (v = None => IsOptional(f))
      /\ Storage(f) = "bits" /\ v # None => Encode[v] \in BOOLEAN
  BY <1>1, InputType
<1>3. /\ b.values \in Seq(Stores) /\ b.validity \in Seq(BOOLEAN) /\ b.idx \in Nat
  BY DEF Buffers
<1>4. /\ c.values = NewValues(f, b, v) /\ c.validity = NewValidity(f, b, v)
      /\ c.idx = StepRow(f, b, v)
  BY DEF Pushed
<1>5. Storage(f) \in Storages BY FieldType
<1>6. v # None => Encode[v] \in Stores /\ Encode[v] # Failed
  BY <1>2, EncodedType DEF Encodes
<1>7. \A i \in 1 .. n + 1 : i \in 1 .. n \/ i = n + 1
  BY <1>1
<1>8. \A i \in 1 .. n + 1 : Encodes(s[i][f])
  BY <1>7 DEF Reads
<1>9. v # None => Shown(v) = Encode[v]
  BY DEF Shown
<1> HIDE DEF v, c
<1>10. CASE Storage(f) \in {"plain", "options"}
  <2>1. ~HasBitmap(f) BY <1>10 DEF HasBitmap
  <2>2. Stored(f, v) = Shown(v) /\ Stored(f, v) \in Stores
    BY <1>10, <1>2, <1>6, <1>9 DEF Stored, Shown, IsOptional, Stores
  <2>3. c.values = Append(b.values, Stored(f, v)) /\ c.validity = b.validity /\ c.idx = b.idx
    BY <1>4, <1>10, <2>1 DEF NewValues, NewValidity, StepRow
  <2>4. c.values \in Seq(Stores) BY <2>2, <2>3, <1>3
  <2>5. Len(b.values) = n /\ \A i \in 1 .. n : b.values[i] = Shown(s[i][f])
    BY <1>10 DEF Reads, ReadsPlain
  <2>6. Len(c.values) = n + 1 /\ \A i \in 1 .. n + 1 : c.values[i] = Shown(s[i][f])
    <3>1. Len(c.values) = n + 1 BY <2>3, <2>5, <1>3
    <3>2. c.values[n + 1] = Shown(v) BY <2>2, <2>3, <2>5, <1>3
    <3>3. \A i \in 1 .. n : c.values[i] = b.values[i] BY <2>3, <2>5, <1>3, <1>1
    <3> QED BY <3>1, <3>2, <3>3, <2>5, <1>7 DEF v
  <2>7. c \in Buffers BY <2>3, <2>4, <1>3 DEF c, Pushed, Buffers
  <2> QED
    BY <1>8, <1>10, <2>1, <2>6, <2>7 DEF Reads, ReadsPlain, InBounds, v, c
<1>11. CASE Storage(f) = "pushed"
  <2>1. ~HasBitmap(f) BY <1>11 DEF HasBitmap
  <2>2. Stored(f, v) \in Stores /\ (v # None => Stored(f, v) = Encode[v])
    BY <1>11, <1>6 DEF Stored, Stores
  <2>3. c.values = Append(b.values, Stored(f, v)) /\ c.idx = b.idx
    BY <1>4, <1>11, <2>1 DEF NewValues, StepRow
  <2>4. c.validity = Append(b.validity, v # None)
    BY <1>4, <1>11, <2>1 DEF NewValidity, HasBitmap
  <2>5. c.values \in Seq(Stores) BY <2>2, <2>3, <1>3
  <2>6. c.validity \in Seq(BOOLEAN) BY <2>4, <1>3
  <2>7. c \in Buffers BY <2>3, <2>5, <2>6, <1>3 DEF c, Pushed, Buffers
  <2>8. ReadsPushed(s, b, f, n) BY <1>11 DEF Reads
  <2>9. Len(c.values) = n + 1 /\ Len(c.validity) = n + 1
    BY <2>3, <2>4, <2>8, <1>3 DEF ReadsPushed
  <2>10. c.validity[n + 1] = (v # None) /\ (v # None => c.values[n + 1] = Encode[v])
    BY <2>2, <2>3, <2>4, <2>8, <1>3 DEF ReadsPushed
  <2>11. \A i \in 1 .. n : c.values[i] = b.values[i] /\ c.validity[i] = b.validity[i]
    BY <2>3, <2>4, <2>8, <1>3, <1>1 DEF ReadsPushed
  <2>12. ReadsPushed(s, c, f, n + 1)
    BY <2>8, <2>9, <2>10, <2>11, <1>7 DEF ReadsPushed, v
  <2> QED
    BY <1>8, <1>11, <2>1, <2>7, <2>12 DEF Reads, InBounds, v, c
<1>14. ASSUME HasBitmap(f)
       PROVE  /\ c.validity \in Seq(BOOLEAN) /\ c.idx = n + 1 /\ c.idx \in Nat
              /\ ReadsBitmap(s, c, f, n + 1) /\ b.idx < Len(b.validity) /\ b.idx = n
  <2>1. ReadsBitmap(s, b, f, n) BY <1>14 DEF Reads
  <2>2. b.idx = n /\ Len(b.validity) = Len(s)
    BY <2>1 DEF ReadsBitmap
  <2>3. c.idx = n + 1 BY <1>14, <1>4, <2>2 DEF StepRow
  <2>4. c.validity = IF v = None THEN UnsetBit(b.validity, n) ELSE b.validity
    BY <1>14, <1>4, <2>2 DEF NewValidity, HasBitmap
  <2>5. FALSE \in BOOLEAN /\ n + 1 \in 1 .. Len(b.validity) BY <2>2, <1>1
  <2>c. /\ UnsetBit(b.validity, n) \in Seq(BOOLEAN)
        /\ Len(UnsetBit(b.validity, n)) = Len(b.validity)
        /\ \A i \in 1 .. Len(b.validity) :
             UnsetBit(b.validity, n)[i] = IF i = n + 1 THEN FALSE ELSE b.validity[i]
    BY <2>5, <1>1, <1>3, UnsetBitAt
  <2>a. /\ UnsetBit(b.validity, n) \in Seq(BOOLEAN)
        /\ Len(UnsetBit(b.validity, n)) = Len(s)
        /\ \A i \in 1 .. Len(s) :
             UnsetBit(b.validity, n)[i] = IF i = n + 1 THEN FALSE ELSE b.validity[i]
    BY <2>c, <2>2, Zenon
  <2>6. c.validity \in Seq(BOOLEAN) /\ Len(c.validity) = Len(s)
    BY <2>a, <2>4, <2>2, <1>3, Zenon
  <2>b. \A i \in 1 .. Len(s) :
          c.validity[i] = IF v = None /\ i = n + 1 THEN FALSE ELSE b.validity[i]
    BY <2>a, <2>4
  <2>7. ASSUME NEW i \in 1 .. Len(s)
        PROVE  c.validity[i] = (i <= n + 1 => s[i][f] # None)
    <3>1. b.validity[i] = (i <= n => s[i][f] # None) BY <2>1 DEF ReadsBitmap
    <3>2. CASE i = n + 1
      <4>1. ~(i <= n) /\ i <= n + 1 /\ s[i][f] = v BY <3>2, <1>1 DEF v
      <4>2. b.validity[i] = TRUE BY <3>1, <4>1
      <4>3. c.validity[i] = IF v = None THEN FALSE ELSE TRUE BY <2>b, <3>2, <4>2
      <4> QED BY <4>1, <4>3
    <3>3. CASE i # n + 1
      <4>1. c.validity[i] = b.validity[i] BY <3>3, <2>b
      <4>2. i <= n + 1 <=> i <= n BY <3>3, <1>1
      <4> QED BY <4>1, <4>2, <3>1
    <3> QED BY <3>2, <3>3
  <2> QED BY <2>2, <2>3, <2>6, <2>7, <1>1 DEF ReadsBitmap
<1>12. CASE Storage(f) = "indexed"
  <2>1. HasBitmap(f) BY <1>12 DEF HasBitmap
  <2>2. Stored(f, v) \in Stores /\ (v # None => Stored(f, v) = Encode[v])
    BY <1>12, <1>6 DEF Stored, Stores
  <2>3. c.values = Append(b.values, Stored(f, v))
    BY <1>4, <1>12 DEF NewValues
  <2>5. c.values \in Seq(Stores) BY <2>2, <2>3, <1>3
  <2>7. c \in Buffers BY <2>1, <1>14, <2>5, <1>3 DEF c, Pushed, Buffers
  <2>8. ReadsIndexed(s, b, f, n) BY <1>12 DEF Reads
  <2>9. Len(c.values) = n + 1 /\ (v # None => c.values[n + 1] = Encode[v])
    BY <2>2, <2>3, <2>8, <1>3 DEF ReadsIndexed
  <2>11. \A i \in 1 .. n : c.values[i] = b.values[i]
    BY <2>3, <2>8, <1>3, <1>1 DEF ReadsIndexed
  <2>12. ReadsIndexed(s, c, f, n + 1)
    BY <2>8, <2>9, <2>11, <1>7 DEF ReadsIndexed, v
  <2> QED
    BY <1>8, <1>12, <1>14, <2>1, <2>7, <2>12 DEF Reads, InBounds, v, c
<1>13. CASE Storage(f) = "bits"
  <2>1. HasBitmap(f) BY <1>13 DEF HasBitmap
  <2>2. ReadsBits(s, b, f, n) /\ b.idx = n BY <1>13, <2>1, <1>14 DEF Reads
  <2>3. c.values = IF v # None /\ Encode[v] THEN SetBit(b.values, n) ELSE b.values
    BY <1>4, <1>13, <2>2 DEF NewValues
  <2>4. /\ TRUE \in Stores /\ Len(b.values) = Len(s) /\ n + 1 \in 1 .. Len(b.values)
    BY <2>2, <1>1 DEF Stores, ReadsBits
  <2>c. /\ SetBit(b.values, n) \in Seq(Stores)
        /\ Len(SetBit(b.values, n)) = Len(b.values)
        /\ \A i \in 1 .. Len(b.values) :
             SetBit(b.values, n)[i] = IF i = n + 1 THEN TRUE ELSE b.values[i]
    BY <2>4, <1>1, <1>3, SetBitAt
  <2>a. /\ SetBit(b.values, n) \in Seq(Stores)
        /\ Len(SetBit(b.values, n)) = Len(s)
        /\ \A i \in 1 .. Len(s) :
             SetBit(b.values, n)[i] = IF i = n + 1 THEN TRUE ELSE b.values[i]
    BY <2>c, <2>4, Zenon
  <2>5. c.values \in Seq(Stores) /\ Len(c.values) = Len(s)
    BY <2>a, <2>3, <2>4, <1>3, Zenon
  <2>b. \A i \in 1 .. Len(s) :
          c.values[i] = IF i = n + 1 /\ v # None /\ Encode[v] THEN TRUE ELSE b.values[i]
    BY <2>a, <2>3
  <2>7. c \in Buffers BY <2>1, <1>14, <2>5, <1>3 DEF c, Pushed, Buffers
  <2>8. ASSUME NEW i \in 1 .. Len(s)
        PROVE  c.values[i] = (Present(s, f, n + 1, i) /\ Encode[s[i][f]])
    <3>1. b.values[i] = (Present(s, f, n, i) /\ Encode[s[i][f]]) BY <2>2 DEF ReadsBits
    <3>2. CASE i = n + 1
      <4>1. ~Present(s, f, n, i) /\ (Present(s, f, n + 1, i) <=> v # None)
        BY <3>2, <1>1 DEF Present, v
      <4>2. b.values[i] = FALSE BY <3>1, <4>1
      <4>3. c.values[i] = IF v # None /\ Encode[v] THEN TRUE ELSE FALSE
        BY <2>b, <3>2, <4>2
      <4> QED BY <4>1, <4>3, <3>2, <1>2, <1>13 DEF v
    <3>3. CASE i # n + 1
      <4>1. c.values[i] = b.values[i] BY <3>3, <2>b
      <4>2. Present(s, f, n + 1, i) <=> Present(s, f, n, i) BY <3>3, <1>1 DEF Present
      <4> QED BY <4>1, <4>2, <3>1
    <3> QED BY <3>2, <3>3
  <2>9. ReadsBits(s, c, f, n + 1) BY <2>5, <2>8 DEF ReadsBits
  <2>10. b.idx < Len(b.validity) /\ b.idx < Len(b.values)
    BY <2>1, <1>14, <2>2, <1>1 DEF ReadsBits
  <2> QED
    BY <1>8, <1>13, <1>14, <2>1, <2>7, <2>9, <2>10 DEF Reads, InBounds, v, c
<1> QED BY <1>5, <1>10, <1>11, <1>12, <1>13 DEF Storages, v, c

(* Full buffers have a validity of their length and show the items.        *)
LEMMA FullBuffers ==
  ASSUME NEW f \in Ids, IsLeaf(f), items \in Inputs, buffers[f] \in Buffers,
         Reads(items, buffers[f], f, Len(items))
  PROVE  Matched(f) /\ CellsOf(f) = [i \in DOMAIN items |-> Shown(items[i][f])]
<1> DEFINE b == buffers[f]
<1>1. ItemsType(items) /\ Len(items) \in Nat /\ DOMAIN items = 1 .. Len(items)
  BY InputType DEF ItemsType
<1>2. b.values \in Seq(Stores) /\ b.validity \in Seq(BOOLEAN)
  BY DEF Buffers
<1>3. Storage(f) \in Storages BY FieldType
<1>4. ASSUME HasValidity(f)
      PROVE  /\ Len(b.values) = Len(items) /\ Len(b.validity) = Len(items)
             /\ \A i \in 1 .. Len(items) :
                  /\ b.validity[i] <=> items[i][f] # None
                  /\ items[i][f] # None => b.values[i] = Encode[items[i][f]]
  <2>1. CASE Storage(f) = "pushed"
    BY <2>1, <1>1 DEF Reads, ReadsPushed
  <2>2. CASE Storage(f) = "indexed"
    <3>1. ReadsBitmap(items, b, f, Len(items)) /\ ReadsIndexed(items, b, f, Len(items))
      BY <2>2 DEF Reads, HasBitmap
    <3>2. \A i \in 1 .. Len(items) : i <= Len(items) BY <1>1
    <3>3. \A i \in 1 .. Len(items) : b.validity[i] <=> items[i][f] # None
      BY <3>1, <3>2 DEF ReadsBitmap
    <3> QED BY <3>1, <3>3 DEF ReadsIndexed, ReadsBitmap
  <2>3. CASE Storage(f) = "bits"
    <3>1. ReadsBitmap(items, b, f, Len(items)) /\ ReadsBits(items, b, f, Len(items))
      BY <2>3 DEF Reads, HasBitmap
    <3>2. ASSUME NEW i \in 1 .. Len(items), items[i][f] # None
          PROVE  b.values[i] = Encode[items[i][f]]
      <4>1. b.values[i] = (Present(items, f, Len(items), i) /\ Encode[items[i][f]])
        BY <3>1 DEF ReadsBits
      <4>2. Present(items, f, Len(items), i) BY <3>2, <1>1 DEF Present
      <4>3. Encode[items[i][f]] \in BOOLEAN BY <3>2, <2>3, <1>1, InputType
      <4> QED BY <4>1, <4>2, <4>3
    <3>3. \A i \in 1 .. Len(items) : i <= Len(items) BY <1>1
    <3>4. \A i \in 1 .. Len(items) : b.validity[i] <=> items[i][f] # None
      BY <3>1, <3>3 DEF ReadsBitmap
    <3> QED BY <3>1, <3>2, <3>4 DEF ReadsBits, ReadsBitmap
  <2> QED BY <1>4, <2>1, <2>2, <2>3 DEF HasValidity
<1>5. CASE HasValidity(f)
  <2>1. Matched(f) BY <1>4, <1>5 DEF Matched
  <2>2. DOMAIN b.values = DOMAIN items BY <1>1, <1>2, <1>4, <1>5
  <2>3. ASSUME NEW i \in DOMAIN items
        PROVE  (IF HasValidity(f) /\ ~b.validity[i] THEN None ELSE b.values[i]) = Shown(items[i][f])
    BY <1>1, <1>4, <1>5 DEF Shown
  <2> QED BY <2>1, <2>2, <2>3 DEF CellsOf
<1>6. CASE ~HasValidity(f)
  <2>1. Storage(f) \in {"plain", "options"} BY <1>3, <1>6 DEF HasValidity, Storages
  <2>2. ReadsPlain(items, b, f, Len(items)) BY <2>1 DEF Reads
  <2>3. DOMAIN b.values = DOMAIN items BY <1>1, <1>2, <2>2 DEF ReadsPlain
  <2>4. \A i \in DOMAIN items : b.values[i] = Shown(items[i][f])
    BY <1>1, <2>2 DEF ReadsPlain
  <2> QED BY <1>6, <2>3, <2>4 DEF CellsOf, Matched
<1> QED BY <1>5, <1>6

-----------------------------------------------------------------------------
(* Adding the columns of a field.                                          *)

(* Name s begins with name p.                                              *)
Begins(p, s) == Len(p) <= Len(s) /\ \A i \in 1 .. Len(p) : s[i] = p[i]

(* Names that begin with names that are apart differ.                      *)
LEMMA ApartNames ==
  ASSUME NEW a \in Name, NEW b \in Name, NEW s \in Name, Begins(a, s), Begins(b, s)
  PROVE  ~Apart(a, b)
BY DEF Apart, Begins, Name

(* The name an inner column gets begins with the field's under Field.      *)
LEMMA Prefixed ==
  ASSUME NEW p \in Name, NEW a \in Name, NEW b \in Name
  PROVE  /\ p \o a \in Name /\ Begins(p, p \o a)
         /\ p \o a = p \o b => a = b
<1>1. p \o a \in Name /\ Begins(p, p \o a)
  BY DEF Name, Begins
<1>2. ASSUME p \o a = p \o b PROVE a = b
  <2>1. Len(a) = Len(b)
    <3>1. Len(p \o a) = Len(p) + Len(a) /\ Len(p \o b) = Len(p) + Len(b) BY DEF Name
    <3>2. Len(p) \in Nat /\ Len(a) \in Nat /\ Len(b) \in Nat BY DEF Name
    <3> QED BY <3>1, <3>2, <1>2
  <2>2. ASSUME NEW i \in 1 .. Len(a) PROVE a[i] = b[i]
    <3>1. (p \o a)[Len(p) + i] = a[i] /\ (p \o b)[Len(p) + i] = b[i]
      BY <2>1 DEF Name
    <3> QED BY <3>1, <1>2
  <2> QED BY <2>1, <2>2, SeqEqual DEF Name
<1> QED BY <1>1, <1>2

(* The columns of a field with the given cells, whoever adds them.         *)
EntriesOf(f, cells) ==
  IF Kind(f) = "nested" THEN InnerColumnsOf(f, cells) ELSE <<ColumnOf(f, cells)>>

(* The entries of schema and the empty series are those of no cells.       *)
LEMMA ShapeEntries ==
  ASSUME NEW f
  PROVE  ShapeOf(f) = EntriesOf(f, <<>>)
<1>1. CASE Kind(f) = "nested"
  <2>1. /\ SchemaEntriesOf(f) = InnerColumnsOf(f, <<>>)
        /\ EmptySeriesOf(f) = InnerColumnsOf(f, <<>>)
    BY <1>1 DEF SchemaEntriesOf, EmptySeriesOf, InnerColumnsOf, InnerColumnOf, Titled
  <2> QED BY <1>1, <2>1 DEF ShapeOf, EntriesOf
<1>2. CASE Kind(f) # "nested"
  BY <1>2 DEF ShapeOf, SchemaEntriesOf, EmptySeriesOf, EntriesOf, ColumnOf, Titled
<1> QED BY <1>1, <1>2

(* A field's columns are columns, whose names differ if the inner ones do. *)
LEMMA EntriesType ==
  ASSUME NEW f \in Ids, NEW cells \in Seq(Stores)
  PROVE  /\ EntriesOf(f, cells) \in Columns
         /\ \A j \in DOMAIN EntriesOf(f, cells) : EntriesOf(f, cells)[j].cells = cells
         /\ ~NeedsUniqueNameValidation =>
              /\ \A j \in DOMAIN EntriesOf(f, cells) : Begins(Fields[f].name, EntriesOf(f, cells)[j].name)
              /\ UniqueNames(EntriesOf(f, cells))
<1> DEFINE es == EntriesOf(f, cells)
           C  == [name : Name, dtype : STRING, lists : Nat, cells : Seq(Stores)]
<1>1. CASE Kind(f) = "nested"
  <2>1. /\ Inner[f] \in Seq(Entry) /\ UniqueNames(Inner[f])
    BY <1>1, InnerAssumption
  <2>2. DOMAIN es = DOMAIN Inner[f] /\ es = [j \in DOMAIN Inner[f] |-> InnerColumnOf(f, Inner[f][j], cells)]
    BY <1>1 DEF EntriesOf, InnerColumnsOf
  <2>3. ASSUME NEW j \in DOMAIN Inner[f]
        PROVE  /\ InnerColumnOf(f, Inner[f][j], cells) \in C
               /\ es[j].cells = cells /\ es[j].name = ComposeName(f, Inner[f][j].name)
               /\ Inner[f][j].name \in Name
    <3>1. Inner[f][j] \in Entry BY <2>1
    <3>2. ComposeName(f, Inner[f][j].name) \in Name
      BY <3>1, FieldType, Prefixed DEF ComposeName, Policies, Entry
    <3>3. Inner[f][j].lists + Fields[f].lists \in Nat /\ Inner[f][j].dtype \in STRING
      BY <3>1, FieldType DEF Entry
    <3> QED BY <2>2, <3>1, <3>2, <3>3 DEF InnerColumnOf, Entry
  <2>4. es \in Columns
    <3>1. Len(Inner[f]) \in Nat /\ DOMAIN Inner[f] = 1 .. Len(Inner[f]) BY <2>1
    <3>2. es \in [1 .. Len(Inner[f]) -> C] BY <2>2, <2>3, <3>1
    <3> HIDE DEF es, C
    <3>3. es \in Seq(C) BY <3>1, <3>2
    <3> QED BY <3>3 DEF Columns, C, es
  <2>5. ASSUME ~NeedsUniqueNameValidation, NEW j \in DOMAIN Inner[f]
        PROVE  es[j].name = Fields[f].name \o Inner[f][j].name
    <3>1. Fields[f].policy = "field" BY <2>5 DEF NeedsUniqueNameValidation
    <3> QED BY <2>3, <3>1 DEF ComposeName
  <2>a. Fields[f].name \in Name BY FieldType
  <2> HIDE DEF es
  <2>6. ASSUME ~NeedsUniqueNameValidation, NEW j \in DOMAIN Inner[f]
        PROVE  Begins(Fields[f].name, es[j].name)
    BY <2>3, <2>5, <2>6, <2>a, Prefixed
  <2>7. ASSUME ~NeedsUniqueNameValidation, NEW i \in DOMAIN Inner[f], NEW j \in DOMAIN Inner[f],
               es[i].name = es[j].name
        PROVE  i = j
    <3>1. Inner[f][i].name = Inner[f][j].name
      <4>1. Fields[f].name \o Inner[f][i].name = Fields[f].name \o Inner[f][j].name
        <5>1. es[i].name = Fields[f].name \o Inner[f][i].name BY <2>5, <2>7
        <5>2. es[j].name = Fields[f].name \o Inner[f][j].name BY <2>5, <2>7
        <5> QED BY <5>1, <5>2, <2>7, Zenon
      <4> QED BY <2>3, <4>1, <2>a, Prefixed
    <3> QED BY <2>1, <3>1 DEF UniqueNames
  <2> QED BY <2>2, <2>3, <2>4, <2>6, <2>7 DEF UniqueNames, es
<1>2. CASE Kind(f) # "nested"
  <2>1. es = <<ColumnOf(f, cells)>> BY <1>2 DEF EntriesOf
  <2>2. ColumnOf(f, cells) \in C BY FieldType DEF ColumnOf
  <2>3. ColumnOf(f, cells).name = Fields[f].name /\ ColumnOf(f, cells).cells = cells
    BY DEF ColumnOf
  <2>4. Begins(Fields[f].name, Fields[f].name) BY FieldType DEF Begins, Name
  <2> HIDE DEF C
  <2>5. <<ColumnOf(f, cells)>> \in Seq(C) BY <2>2
  <2>6. es \in Columns BY <2>1, <2>5 DEF C, Columns
  <2> QED BY <2>1, <2>3, <2>4, <2>6 DEF UniqueNames
<1> QED BY <1>1, <1>2

(* The parts of the invariant.  The loops that are open:                   *)
Flow ==
  /\ phase = "called" => at = 0 /\ columns = <<>> /\ loop = 0 /\ row = 0 /\ slot = 0
  /\ phase = "shape" => items = <<>>
  /\ phase \in {"rows", "build"} => items # <<>>
  /\ phase = "rows" /\ loop = 0 => at = 0
  /\ phase = "rows" /\ loop # 0 => at < Len(Fields) /\ loop = at + 1 /\ Kind(loop) = "projected"
  /\ phase = "rows" /\ row = Len(items) => slot = 0

(* A field in the loop has been pushed for each item the loop has done,    *)
(* and for the current item if its slot has been passed.                   *)
Pushes(f) == IF f <= slot THEN row + 1 ELSE row

LoopReads ==
  phase = "rows" =>
    \A f \in Ids : InLoop(f) => Reads(items, buffers[f], f, Pushes(f))

(* A row-wise field whose builder has not run yet has buffers for all      *)
(* items once the loop for all is over.                                    *)
WaitingReads ==
  phase = "build" \/ (phase = "rows" /\ loop # 0) =>
    \A f \in Ids : Kind(f) = "rowwise" /\ at < f => Reads(items, buffers[f], f, Len(items))

CellsPerItem == \A j \in DOMAIN columns : Len(columns[j].cells) = Len(items)

(* Where names are not tested, each begins with the name of its field.     *)
NamesApart ==
  ~NeedsUniqueNameValidation =>
    /\ \A j \in DOMAIN columns : \E f \in Ids : f <= at /\ Begins(Fields[f].name, columns[j].name)
    /\ UniqueNames(columns)

FInv ==
  /\ TypeOK /\ Flow /\ LoopReads /\ WaitingReads /\ CellsPerItem /\ NamesApart
  /\ NeverPanics /\ UniqueSchema

-----------------------------------------------------------------------------
(* Adding a field's columns keeps what is said of the columns.             *)
LEMMA Joined ==
  ASSUME NEW S, NEW a \in Seq(S), NEW b \in Seq(S)
  PROVE  /\ a \o b \in Seq(S)
         /\ Len(a) \in Nat /\ Len(b) \in Nat
         /\ DOMAIN (a \o b) = 1 .. Len(a) + Len(b)
         /\ DOMAIN a = 1 .. Len(a) /\ DOMAIN b = 1 .. Len(b)
         /\ \A j \in DOMAIN a : (a \o b)[j] = a[j]
         /\ \A j \in DOMAIN (a \o b) : j \notin DOMAIN a =>
              j - Len(a) \in DOMAIN b /\ (a \o b)[j] = b[j - Len(a)]
OBVIOUS

(* Adding a field's columns keeps their types, heights and names.          *)
LEMMA AddKeeps ==
  ASSUME TypeOK, CellsPerItem, NamesApart, at < Len(Fields),
         NEW cells \in Seq(Stores), Len(cells) = Len(items), items' = items,
         at' = at + 1, columns' = columns \o EntriesOf(at + 1, cells)
  PROVE  at' \in 0 .. Len(Fields) /\ columns' \in Columns /\ CellsPerItem' /\ NamesApart'
<1> DEFINE es == EntriesOf(at + 1, cells)
           C  == [name : Name, dtype : STRING, lists : Nat, cells : Seq(Stores)]
<1>1. at + 1 \in Ids /\ at \in Nat /\ Len(Fields) \in Nat
  BY IdsAre DEF TypeOK
<1>2. /\ es \in Columns
      /\ \A j \in DOMAIN es : es[j].cells = cells
      /\ ~NeedsUniqueNameValidation =>
           /\ \A j \in DOMAIN es : Begins(Fields[at + 1].name, es[j].name)
           /\ UniqueNames(es)
  BY <1>1, EntriesType
<1> HIDE DEF es, C
<1>3. columns \in Seq(C) /\ es \in Seq(C)
  BY <1>2 DEF TypeOK, Columns, C
<1>4. columns' = columns \o es BY DEF es
<1>5. columns' \in Columns
  <2>0. columns \o es \in Seq(C) BY <1>3, Joined
  <2>1. columns' \in Seq(C) BY <2>0, <1>4, Zenon
  <2> QED BY <2>1 DEF C, Columns
<1>6. /\ Len(columns) \in Nat /\ Len(es) \in Nat
      /\ DOMAIN columns' = 1 .. Len(columns) + Len(es)
      /\ DOMAIN columns = 1 .. Len(columns) /\ DOMAIN es = 1 .. Len(es)
      /\ \A j \in DOMAIN columns : columns'[j] = columns[j]
      /\ \A j \in DOMAIN columns' : j \notin DOMAIN columns =>
           j - Len(columns) \in DOMAIN es /\ columns'[j] = es[j - Len(columns)]
  <2>1. /\ Len(columns) \in Nat /\ Len(es) \in Nat
        /\ DOMAIN (columns \o es) = 1 .. Len(columns) + Len(es)
        /\ DOMAIN columns = 1 .. Len(columns) /\ DOMAIN es = 1 .. Len(es)
        /\ \A j \in DOMAIN columns : (columns \o es)[j] = columns[j]
        /\ \A j \in DOMAIN (columns \o es) : j \notin DOMAIN columns =>
             j - Len(columns) \in DOMAIN es /\ (columns \o es)[j] = es[j - Len(columns)]
    BY <1>3, Joined
  <2> QED BY <2>1, <1>4, Zenon
<1>7. CellsPerItem'
  BY <1>2, <1>6 DEF CellsPerItem
<1>8. NamesApart'
  <2> SUFFICES ASSUME ~NeedsUniqueNameValidation
               PROVE  /\ \A j \in DOMAIN columns' :
                           \E f \in Ids : f <= at' /\ Begins(Fields[f].name, columns'[j].name)
                      /\ UniqueNames(columns')
    BY DEF NamesApart, NeedsUniqueNameValidation, UniqueNames, Ids
  <2>1. ASSUME NEW j \in DOMAIN columns'
        PROVE  \E f \in Ids : /\ f <= at' /\ Begins(Fields[f].name, columns'[j].name)
                              /\ (f = at + 1 <=> j \notin DOMAIN columns)
    <3>1. CASE j \in DOMAIN columns
      <4>1. PICK f \in Ids : f <= at /\ Begins(Fields[f].name, columns[j].name)
        BY <3>1 DEF NamesApart
      <4>2. f \in Nat /\ f <= at + 1 /\ f # at + 1 BY <4>1, <1>1, IdsAre
      <4> QED BY <4>1, <4>2, <3>1, <1>6
    <3>2. CASE j \notin DOMAIN columns
      BY <3>2, <1>1, <1>2, <1>6
    <3> QED BY <3>1, <3>2
  <2>2. ASSUME NEW i \in DOMAIN columns', NEW j \in DOMAIN columns',
               columns'[i].name = columns'[j].name
        PROVE  i = j
    <3>1. PICK f \in Ids : /\ Begins(Fields[f].name, columns'[i].name)
                           /\ (f = at + 1 <=> i \notin DOMAIN columns)
      BY <2>1
    <3>2. PICK g \in Ids : /\ Begins(Fields[g].name, columns'[j].name)
                           /\ (g = at + 1 <=> j \notin DOMAIN columns)
      BY <2>1
    <3>3. f = g
      <4>1. columns'[i].name \in Name /\ Fields[f].name \in Name /\ Fields[g].name \in Name
        <5>1. columns' \in Seq(C) BY <1>5 DEF Columns, C
        <5>2. columns'[i] \in C BY <5>1
        <5> QED BY <5>2, FieldType DEF C
      <4>2. ~Apart(Fields[f].name, Fields[g].name)
        BY <4>1, <3>1, <3>2, <2>2, ApartNames
      <4> QED BY <4>2, NamesAssumption
    <3>4. CASE i \in DOMAIN columns
      BY <3>1, <3>2, <3>3, <3>4, <1>6, <2>2 DEF NamesApart, UniqueNames
    <3>5. CASE i \notin DOMAIN columns
      <4>1. j \notin DOMAIN columns BY <3>1, <3>2, <3>3, <3>5
      <4>2. es[i - Len(columns)].name = es[j - Len(columns)].name
        BY <4>1, <3>5, <1>6, <2>2
      <4>3. i - Len(columns) = j - Len(columns)
        BY <4>1, <4>2, <3>5, <1>2, <1>6 DEF UniqueNames
      <4> QED BY <4>3, <1>6
    <3> QED BY <3>4, <3>5
  <2> QED BY <2>1, <2>2 DEF UniqueNames
<1> QED BY <1>1, <1>5, <1>7, <1>8

(* The items are a sequence.                                               *)
LEMMA ItemsLength ==
  ASSUME TypeOK
  PROVE  /\ ItemsType(items) /\ Len(items) \in Nat /\ DOMAIN items = 1 .. Len(items)
         /\ (items = <<>> <=> Len(items) = 0)
<1>1. ItemsType(items) BY InputType DEF TypeOK
<1> QED BY <1>1 DEF ItemsType

(* The invariant holds when the function is called.                        *)
LEMMA FInvInit ==
  Init => FInv
<1> SUFFICES ASSUME Init PROVE FInv OBVIOUS
<1>1. Len(items) \in Nat BY InputType DEF Init, ItemsType
<1>2. Undeclared \in Buffers
  <2>1. <<>> \in Seq(Stores) /\ <<>> \in Seq(BOOLEAN) OBVIOUS
  <2> QED BY <2>1 DEF Undeclared, Buffers
<1>3. columns \in Columns BY DEF Init, Columns
<1>4. buffers \in [Ids -> Buffers] BY <1>2 DEF Init
<1>5. TypeOK BY <1>1, <1>3, <1>4, IdsAre DEF Init, TypeOK, Ended
<1>6. Flow /\ LoopReads /\ WaitingReads BY DEF Init, Flow, LoopReads, WaitingReads
<1>7. CellsPerItem /\ NamesApart /\ NeverPanics /\ UniqueSchema
  BY DEF Init, CellsPerItem, NamesApart, NeverPanics, UniqueSchema, UniqueNames
<1> QED BY <1>5, <1>6, <1>7 DEF FInv

(* An action that only ends the call, or stutters.                         *)
LEMMA EndKeeps ==
  ASSUME FInv, phase' \in {"error", "done"}, phase' = "done" => UniqueNames(columns),
         height' \in Nat, UNCHANGED <<input, looping, buffers, at, columns>>
  PROVE  FInv'
<1> USE DEF FInv, input, looping
<1>1. TypeOK' BY DEF TypeOK, Ended
<1>2. Flow' /\ LoopReads' /\ WaitingReads' BY DEF Flow, LoopReads, WaitingReads
<1>3. CellsPerItem' BY DEF CellsPerItem
<1>4. NamesApart' /\ UniqueSchema' /\ NeverPanics'
  BY DEF NamesApart, UniqueSchema, NeverPanics, UniqueNames, NeedsUniqueNameValidation, Ids
<1> QED BY <1>1, <1>2, <1>3, <1>4

(* Returning an error changes only the phase.                              *)
LEMMA FailKeeps ==
  ASSUME FInv, Fail("error")
  PROVE  FInv'
<1>1. UNCHANGED <<input, looping, buffers, at, columns>> /\ height' = height /\ phase' = "error"
  BY DEF Fail, result, input, looping
<1> QED BY <1>1, EndKeeps DEF FInv, TypeOK

(* Nothing that is said of the columns changes.                            *)
LEMMA ColumnsKeep ==
  ASSUME FInv, UNCHANGED <<items, at, columns>>
  PROVE  CellsPerItem' /\ NamesApart' /\ (phase' # "done" => UniqueSchema')
BY DEF FInv, CellsPerItem, NamesApart, UniqueSchema, UniqueNames, NeedsUniqueNameValidation, Ids

(* Entering declares the buffers of the row-wise fields, or none.          *)
LEMMA EnterKeeps ==
  ASSUME FInv, EnterShape \/ Enter
  PROVE  FInv'
<1> USE DEF FInv, input, looping, result
<1>1. CASE EnterShape
  <2>1. TypeOK' BY <1>1 DEF EnterShape, TypeOK
  <2>2. Flow' /\ LoopReads' /\ WaitingReads'
    BY <1>1 DEF EnterShape, Flow, LoopReads, WaitingReads
  <2>3. CellsPerItem' /\ NamesApart' /\ UniqueSchema' /\ NeverPanics'
    BY <1>1, ColumnsKeep DEF EnterShape, NeverPanics
  <2> QED BY <2>1, <2>2, <2>3
<1>2. CASE Enter
  <2>1. ASSUME NEW f \in Ids
        PROVE  /\ (IF Kind(f) = "rowwise" THEN Fresh(f) ELSE Undeclared) \in Buffers
               /\ Kind(f) = "rowwise" => Reads(items, Fresh(f), f, 0)
    <3>1. items \in Inputs BY DEF TypeOK
    <3>2. Kind(f) = "rowwise" => Fresh(f) \in Buffers /\ Reads(items, Fresh(f), f, 0)
      BY <3>1, FreshReads DEF IsLeaf
    <3>3. Undeclared \in Buffers
      <4>1. <<>> \in Seq(Stores) /\ <<>> \in Seq(BOOLEAN) OBVIOUS
      <4> QED BY <4>1 DEF Undeclared, Buffers
    <3> QED BY <3>2, <3>3
  <2>2. /\ buffers' = [f \in Ids |-> IF Kind(f) = "rowwise" THEN Fresh(f) ELSE Undeclared]
        /\ phase' = (IF \E f \in Ids : InLoop(f) THEN "rows" ELSE "build")
        /\ loop = 0 /\ loop' = 0 /\ row' = 0 /\ slot' = 0 /\ at = 0
        /\ items # <<>> /\ UNCHANGED <<input, at, columns, height>>
    BY <1>2 DEF Enter, Flow
  <2>3. TypeOK' BY <2>1, <2>2, ItemsLength DEF TypeOK
  <2>4. Flow' BY <2>2, ItemsLength DEF Flow
  <2>5. LoopReads'
    <3> SUFFICES ASSUME NEW f \in Ids, InLoop(f)'
                 PROVE  Reads(items, buffers[f], f, Pushes(f))'
      BY DEF LoopReads, Ids
    <3>1. Kind(f) = "rowwise" BY <2>2 DEF InLoop, Kind
    <3>2. buffers'[f] = Fresh(f) BY <2>2, <3>1
    <3>3. Pushes(f)' = 0 BY <2>2, FieldType DEF Pushes
    <3>4. items' = items BY <2>2
    <3>5. Reads(items', buffers'[f], f, Pushes(f)') BY <2>1, <3>1, <3>2, <3>3, <3>4
    <3> QED BY <3>5
  <2>6. WaitingReads'
    <3>1. CASE \E f \in Ids : InLoop(f) BY <2>2, <3>1 DEF WaitingReads
    <3>2. CASE ~\E f \in Ids : InLoop(f)
      BY <2>2, <3>2 DEF WaitingReads, InLoop, Kind, Ids
    <3> QED BY <3>1, <3>2
  <2>7. CellsPerItem' /\ NamesApart' /\ UniqueSchema' /\ NeverPanics'
    BY <2>2, ColumnsKeep DEF NeverPanics
  <2> QED BY <2>3, <2>4, <2>5, <2>6, <2>7
<1> QED BY <1>1, <1>2

(* schema and empty_dataframe keep the invariant.                          *)
LEMMA ShapeKeeps ==
  ASSUME FInv, Shape
  PROVE  FInv'
<1> USE DEF FInv, input, looping, result
<1>1. CASE AddShape
  <2>1. /\ phase = "shape" /\ phase' = "shape" /\ items = <<>> /\ at < Len(Fields)
        /\ at' = at + 1 /\ columns' = columns \o EntriesOf(at + 1, <<>>)
        /\ UNCHANGED <<input, looping, buffers, height>>
    BY <1>1, ShapeEntries DEF AddShape, AddColumns, Flow
  <2>2. <<>> \in Seq(Stores) /\ Len(<<>>) = Len(items) BY <2>1
  <2>3. at' \in 0 .. Len(Fields) /\ columns' \in Columns /\ CellsPerItem' /\ NamesApart'
    BY <2>1, <2>2, AddKeeps
  <2>4. TypeOK' BY <2>1, <2>3 DEF TypeOK
  <2>5. Flow' /\ LoopReads' /\ WaitingReads' /\ NeverPanics' /\ UniqueSchema'
    BY <2>1 DEF Flow, LoopReads, WaitingReads, NeverPanics, UniqueSchema
  <2> QED BY <2>3, <2>4, <2>5
<1>2. CASE ShapeBreaks
  BY <1>2, FailKeeps DEF ShapeBreaks
<1>3. CASE FinishShape
  <2>1. CASE NamesValid /\ (call = "schema" \/ IsFrame(columns))
    <3>1. Return(0) BY <1>3, <2>1 DEF FinishShape
    <3>2. UniqueNames(columns) BY <2>1 DEF NamesValid, IsFrame, NamesApart
    <3> QED BY <3>1, <3>2, EndKeeps DEF Return
  <2>2. CASE ~(NamesValid /\ (call = "schema" \/ IsFrame(columns)))
    BY <1>3, <2>2, FailKeeps DEF FinishShape
  <2> QED BY <2>1, <2>2
<1> QED BY <1>1, <1>2, <1>3 DEF Shape

(* The fields of a loop are leaves.                                        *)
LEMMA LoopLeaf ==
  ASSUME FInv, phase = "rows", NEW f \in Ids, InLoop(f)
  PROVE  IsLeaf(f)
BY DEF FInv, Flow, InLoop, IsLeaf

(* A push keeps every buffer in step with the loop, and stays in bounds.   *)
LEMMA PushKeepsInv ==
  ASSUME FInv, PushValue
  PROVE  FInv'
<1> USE DEF FInv, input, looping, result
<1>1. PICK f \in Unpushed :
        LET v == items[row + 1][f] IN
        /\ \A g \in Unpushed : f <= g
        /\ Encodes(v)
        /\ IF InBounds(f, buffers[f], v)
           THEN /\ buffers' = [buffers EXCEPT ![f] = Pushed(f, @, v)]
                /\ slot' = f
                /\ UNCHANGED <<input, phase, loop, row, result>>
           ELSE Fail("panic")
  BY DEF PushValue
<1> DEFINE v == items[row + 1][f]
<1>2. /\ phase = "rows" /\ row < Len(items) /\ f \in Ids /\ InLoop(f) /\ f > slot
      /\ items \in Inputs /\ row \in 0 .. Len(items) - 1 /\ IsLeaf(f)
  BY <1>1, ItemsLength, LoopLeaf DEF PushValue, Unpushed, TypeOK
<1>3. buffers[f] \in Buffers BY <1>2 DEF TypeOK
<1>4. Pushes(f) = row BY <1>2, FieldType DEF Pushes, TypeOK
<1>5. Reads(items, buffers[f], f, row) BY <1>2, <1>4 DEF LoopReads
<1>6. /\ InBounds(f, buffers[f], v) /\ Pushed(f, buffers[f], v) \in Buffers
      /\ Reads(items, Pushed(f, buffers[f], v), f, row + 1)
  BY <1>1, <1>2, <1>3, <1>5, PushKeeps
<1>7. /\ buffers' = [buffers EXCEPT ![f] = Pushed(f, buffers[f], v)]
      /\ slot' = f /\ UNCHANGED <<input, phase, loop, row, result>>
  BY <1>1, <1>6
<1>8. TypeOK' BY <1>2, <1>6, <1>7 DEF TypeOK
<1>9. Flow'
  <2>1. /\ phase' = "rows" /\ items' = items /\ at' = at /\ loop' = loop /\ row' = row
        /\ row < Len(items) /\ row \in Nat /\ Len(items) \in Nat
    BY <1>2, <1>7, ItemsLength
  <2>2. Flow BY DEF FInv
  <2> HIDE DEF FInv
  <2> QED BY <2>1, <2>2, <1>2 DEF Flow
<1>10. LoopReads'
  <2> SUFFICES ASSUME NEW g \in Ids, InLoop(g)
               PROVE  Reads(items, buffers'[g], g, IF g <= f THEN row + 1 ELSE row)
    BY <1>7 DEF LoopReads, InLoop, Pushes, Ids
  <2>1. Reads(items, buffers[g], g, Pushes(g)) BY <1>2 DEF LoopReads
  <2>2. g \in Nat /\ f \in Nat /\ slot \in Nat BY <1>2, IdsAre DEF TypeOK
  <2>3. CASE g = f
    <3>1. buffers'[g] = Pushed(f, buffers[f], v) BY <2>3, <1>7, <1>2 DEF TypeOK
    <3>2. (IF g <= f THEN row + 1 ELSE row) = row + 1 BY <2>3, <2>2
    <3> QED BY <3>1, <3>2, <2>3, <1>6
  <2>4. CASE g # f
    <3>1. buffers'[g] = buffers[g] BY <2>4, <1>7 DEF TypeOK
    <3>2. g <= f <=> g <= slot
      <4>1. g > slot => g \in Unpushed BY DEF Unpushed
      <4>2. g > slot => f <= g BY <4>1, <1>1
      <4> QED BY <4>2, <2>2, <2>4, <1>2
    <3> QED BY <3>1, <3>2, <2>1 DEF Pushes
  <2> QED BY <2>3, <2>4
<1>11. WaitingReads'
  <2> SUFFICES ASSUME loop # 0, NEW g \in Ids, Kind(g) = "rowwise", at < g
               PROVE  Reads(items, buffers'[g], g, Len(items))
    BY <1>2, <1>7 DEF WaitingReads, Kind, Ids
  <2>1. g # f BY <1>2 DEF Flow, InLoop
  <2>2. buffers'[g] = buffers[g] BY <2>1, <1>7 DEF TypeOK
  <2> QED BY <2>2, <1>2 DEF WaitingReads
<1>12. CellsPerItem' /\ NamesApart' /\ UniqueSchema' /\ NeverPanics'
  BY <1>2, <1>7, ColumnsKeep DEF NeverPanics
<1> QED BY <1>8, <1>9, <1>10, <1>11, <1>12

(* So do the other steps of the push loop.                                 *)
LEMMA RowsKeep ==
  ASSUME FInv, Rows
  PROVE  FInv'
<1> USE DEF FInv, input, looping, result
<1>1. CASE PushValue BY <1>1, PushKeepsInv
<1>2. CASE PushFailing BY <1>2, FailKeeps DEF PushFailing
<1>3. CASE NextRow
  <2>1. /\ phase = "rows" /\ row < Len(items) /\ Unpushed = {}
        /\ row' = row + 1 /\ slot' = 0
        /\ UNCHANGED <<input, phase, loop, buffers, result>>
    BY <1>3 DEF NextRow
  <2>2. TypeOK' BY <2>1, ItemsLength DEF TypeOK
  <2>3. Flow' BY <2>1 DEF Flow
  <2>4. LoopReads'
    <3> SUFFICES ASSUME NEW g \in Ids, InLoop(g)
                 PROVE  Reads(items, buffers[g], g, IF g <= 0 THEN row + 2 ELSE row + 1)
      BY <2>1 DEF LoopReads, InLoop, Pushes, Ids, TypeOK
    <3>1. Reads(items, buffers[g], g, Pushes(g)) BY <2>1 DEF LoopReads
    <3>2. g \in Nat /\ g > 0 /\ slot \in Nat BY IdsAre DEF TypeOK
    <3>3. g <= slot BY <2>1, <3>2 DEF Unpushed
    <3> QED BY <3>1, <3>2, <3>3 DEF Pushes
  <2>5. WaitingReads' BY <2>1 DEF WaitingReads, Kind, Ids
  <2>6. CellsPerItem' /\ NamesApart' /\ UniqueSchema' /\ NeverPanics'
    BY <2>1, ColumnsKeep DEF NeverPanics
  <2> QED BY <2>2, <2>3, <2>4, <2>5, <2>6
<1>4. CASE EndLoop
  <2>1. /\ phase = "rows" /\ row = Len(items) /\ loop = 0 /\ slot = 0
        /\ phase' = "build" /\ UNCHANGED <<input, looping, buffers, result>>
    BY <1>4 DEF EndLoop, RowsDone, Flow
  <2>2. TypeOK' BY <2>1 DEF TypeOK
  <2>3. Flow' /\ LoopReads' BY <2>1 DEF Flow, LoopReads
  <2>4. WaitingReads'
    <3> SUFFICES ASSUME NEW g \in Ids, Kind(g) = "rowwise"
                 PROVE  Reads(items, buffers[g], g, Len(items))
      BY <2>1 DEF WaitingReads, Kind, Ids
    <3>1. InLoop(g) BY <2>1 DEF InLoop
    <3>2. Pushes(g) = Len(items) BY <2>1, IdsAre DEF Pushes
    <3> QED BY <3>1, <3>2, <2>1 DEF LoopReads
  <2>5. CellsPerItem' /\ NamesApart' /\ UniqueSchema' /\ NeverPanics'
    BY <2>1, ColumnsKeep DEF NeverPanics
  <2> QED BY <2>2, <2>3, <2>4, <2>5
<1> QED BY <1>1, <1>2, <1>3, <1>4 DEF Rows

(* The cells that a builder gives a field: one for each item.              *)
ShownCells(f) == [i \in DOMAIN items |-> Shown(items[i][f])]

(* A field that can be encoded has one cell per item.                      *)
LEMMA ShownType ==
  ASSUME TypeOK, NEW f \in Ids, Encodable(f)
  PROVE  ShownCells(f) \in Seq(Stores) /\ Len(ShownCells(f)) = Len(items)
<1>1. /\ Len(items) \in Nat /\ DOMAIN items = 1 .. Len(items) /\ items \in Inputs
  BY ItemsLength DEF TypeOK
<1>2. ASSUME NEW i \in DOMAIN items PROVE Shown(items[i][f]) \in Stores
  <2>1. items[i][f] \in Values \union {None} /\ Encodes(items[i][f])
    BY <1>1, InputType DEF Encodable
  <2>2. None \in Stores BY DEF Stores
  <2> QED BY <2>1, <2>2, EncodedType DEF Shown
<1> QED BY <1>1, <1>2 DEF ShownCells

(* A builder adds the columns its field declares, opens a loop of its own, *)
(* or fails for a reason its field has.                                    *)
LEMMA BuildAdds ==
  ASSUME FInv, Build
  PROVE  \/ /\ Fail("error") /\ phase \in {"rows", "build"} /\ at < Len(Fields)
            /\ \/ Kind(at + 1) = "list" /\ ~Encodable(at + 1)
               \/ at + 1 \in Fragile
         \/ OpenLoop
         \/ /\ phase \in {"rows", "build"} /\ phase' = "build" /\ at < Len(Fields)
            /\ Encodable(at + 1)
            /\ at' = at + 1 /\ columns' = columns \o EntriesOf(at + 1, ShownCells(at + 1))
            /\ UNCHANGED <<input, looping, buffers, height>>
<1> USE DEF FInv
<1>1. ASSUME NEW f \in Ids, IsLeaf(f), FinishBuffers(f), f = at + 1, phase \in {"rows", "build"},
             Reads(items, buffers[f], f, Len(items))
      PROVE  /\ at < Len(Fields)
             /\ \/ Fail("error") /\ at + 1 \in Fragile
                \/ /\ phase' = "build" /\ Encodable(at + 1)
                   /\ at' = at + 1
                   /\ columns' = columns \o EntriesOf(at + 1, ShownCells(at + 1))
                   /\ UNCHANGED <<input, looping, buffers, height>>
  <2>1. Matched(f) /\ CellsOf(f) = ShownCells(f)
    BY <1>1, FullBuffers DEF TypeOK, ShownCells
  <2>2. \/ /\ phase' = "build" /\ AddColumns(f, <<ColumnOf(f, ShownCells(f))>>)
           /\ UNCHANGED <<input, looping, buffers>>
        \/ f \in Fragile /\ Fail("error")
    BY <1>1, <2>1 DEF FinishBuffers, Breaks
  <2>3. Kind(f) # "nested" BY <1>1 DEF IsLeaf
  <2>4. at < Len(Fields) BY <1>1, IdsAre DEF TypeOK
  <2>5. Encodable(f) BY <1>1, ItemsLength DEF Encodable, Reads
  <2>6. EntriesOf(f, ShownCells(f)) = <<ColumnOf(f, ShownCells(f))>> BY <2>3 DEF EntriesOf
  <2>7. AddColumns(f, <<ColumnOf(f, ShownCells(f))>>) =>
          at' = f /\ columns' = columns \o EntriesOf(f, ShownCells(f)) /\ height' = height
    BY <2>6 DEF AddColumns
  <2> QED BY <1>1, <2>2, <2>4, <2>5, <2>7
<1>2. CASE BuildRowWise
  <2>1. PICK f \in Ids : Building(f) /\ Kind(f) = "rowwise" /\ FinishBuffers(f)
    BY <1>2 DEF BuildRowWise
  <2>2. phase = "build" /\ f = at + 1 /\ IsLeaf(f) /\ at < f
    BY <2>1 DEF Building, IsLeaf, TypeOK
  <2>3. Reads(items, buffers[f], f, Len(items)) BY <2>1, <2>2 DEF WaitingReads
  <2> QED BY <2>1, <2>2, <2>3, <1>1
<1>3. CASE BuildProjected
  <2>1. /\ phase = "rows" /\ row = Len(items) /\ loop # 0 /\ FinishBuffers(loop)
        /\ slot = 0 /\ loop = at + 1 /\ loop \in Ids /\ IsLeaf(loop)
    BY <1>3 DEF BuildProjected, RowsDone, Flow, TypeOK, IsLeaf
  <2>2. Pushes(loop) = Len(items) BY <2>1, IdsAre DEF Pushes
  <2>3. Reads(items, buffers[loop], loop, Len(items))
    BY <2>1, <2>2 DEF LoopReads, InLoop
  <2> QED BY <2>1, <2>3, <1>1
<1>4. CASE BuildList
  <2>1. PICK f \in Ids :
          /\ Building(f) /\ Kind(f) = "list"
          /\ IF Encodable(f)
             THEN \/ /\ AddColumns(f, <<ColumnOf(f, ShownCells(f))>>)
                     /\ UNCHANGED <<input, phase, looping, buffers>>
                  \/ f \in Fragile /\ Fail("error")
             ELSE Fail("error")
    BY <1>4 DEF BuildList, ShownCells, Breaks
  <2>2. phase = "build" /\ at < Len(Fields) /\ f = at + 1 BY <2>1 DEF Building
  <2>3. EntriesOf(f, ShownCells(f)) = <<ColumnOf(f, ShownCells(f))>>
    BY <2>1 DEF EntriesOf
  <2>4. CASE Encodable(f) BY <2>1, <2>2, <2>3, <2>4 DEF AddColumns
  <2>5. CASE ~Encodable(f) BY <2>1, <2>2, <2>5
  <2> QED BY <2>4, <2>5
<1>5. CASE BuildNested
  <2>1. PICK f \in Ids :
          /\ Building(f) /\ Kind(f) = "nested"
          /\ \/ /\ AddColumns(f, EntriesOf(f, ShownCells(f)))
                /\ UNCHANGED <<input, phase, looping, buffers>>
             \/ f \in Fragile /\ Fail("error")
    BY <1>5 DEF BuildNested, ShownCells, EntriesOf, Breaks
  <2>2. phase = "build" /\ at < Len(Fields) /\ f = at + 1 BY <2>1 DEF Building
  <2>3. Encodable(f) BY <2>1, InputType DEF Encodable, TypeOK
  <2> QED BY <2>1, <2>2, <2>3 DEF AddColumns
<1>6. CASE OpenLoop BY <1>6
<1> QED BY <1>2, <1>3, <1>4, <1>5, <1>6 DEF Build

(* The builders keep the invariant.                                        *)
LEMMA BuildKeeps ==
  ASSUME FInv, Build
  PROVE  FInv'
<1> USE DEF FInv, input, looping, result
<1>1. CASE Fail("error") BY <1>1, FailKeeps
<1>2. CASE OpenLoop
  <2>1. PICK f \in Ids :
          /\ Building(f) /\ Kind(f) = "projected"
          /\ phase' = "rows" /\ loop' = f /\ row' = 0 /\ slot' = 0
          /\ buffers' = [buffers EXCEPT ![f] = Fresh(f)]
          /\ UNCHANGED <<input, result>>
    BY <1>2 DEF OpenLoop
  <2>2. phase = "build" /\ at < Len(Fields) /\ f = at + 1 /\ IsLeaf(f) BY <2>1 DEF Building, IsLeaf
  <2>3. Fresh(f) \in Buffers /\ Reads(items, Fresh(f), f, 0)
    BY <2>2, FreshReads DEF TypeOK
  <2>4. TypeOK' BY <2>1, <2>3, ItemsLength DEF TypeOK
  <2>5. Flow' BY <2>1, <2>2, ItemsLength DEF Flow, TypeOK
  <2>6. f \in Nat /\ f > 0 BY IdsAre
  <2>7. LoopReads'
    <3> SUFFICES ASSUME NEW g \in Ids, InLoop(g)' PROVE Reads(items, buffers'[g], g, Pushes(g)')
      BY <2>1 DEF LoopReads, Ids
    <3>1. g = f BY <2>1, <2>6 DEF InLoop
    <3>2. buffers'[g] = Fresh(f) BY <2>1, <3>1 DEF TypeOK
    <3>3. Pushes(g)' = 0 BY <2>1, <2>6, <3>1 DEF Pushes
    <3> QED BY <3>1, <3>2, <3>3, <2>3
  <2>8. WaitingReads'
    <3> SUFFICES ASSUME NEW g \in Ids, Kind(g) = "rowwise", at < g
                 PROVE  Reads(items, buffers'[g], g, Len(items))
      BY <2>1 DEF WaitingReads, Kind, Ids
    <3>1. buffers'[g] = buffers[g] BY <2>1 DEF TypeOK
    <3> QED BY <3>1, <2>2 DEF WaitingReads
  <2>9. CellsPerItem' /\ NamesApart' /\ UniqueSchema' /\ NeverPanics'
    BY <2>1, ColumnsKeep DEF NeverPanics
  <2> QED BY <2>4, <2>5, <2>7, <2>8, <2>9
<1>3. CASE /\ phase \in {"rows", "build"} /\ phase' = "build" /\ at < Len(Fields)
           /\ Encodable(at + 1)
           /\ at' = at + 1 /\ columns' = columns \o EntriesOf(at + 1, ShownCells(at + 1))
           /\ UNCHANGED <<input, looping, buffers, height>>
  <2>1. at + 1 \in Ids /\ at \in Nat BY <1>3, IdsAre DEF TypeOK
  <2>2. ShownCells(at + 1) \in Seq(Stores) /\ Len(ShownCells(at + 1)) = Len(items)
    BY <1>3, <2>1, ShownType
  <2>3. at' \in 0 .. Len(Fields) /\ columns' \in Columns /\ CellsPerItem' /\ NamesApart'
    BY <1>3, <2>2, AddKeeps
  <2>4. TypeOK' BY <1>3, <2>3 DEF TypeOK
  <2>5. Flow' /\ LoopReads' /\ UniqueSchema' /\ NeverPanics'
    BY <1>3 DEF Flow, LoopReads, UniqueSchema, NeverPanics
  <2>6. WaitingReads'
    <3> SUFFICES ASSUME NEW g \in Ids, Kind(g) = "rowwise", at + 1 < g
                 PROVE  Reads(items, buffers[g], g, Len(items))
      BY <1>3 DEF WaitingReads, Kind, Ids
    <3>1. at < g BY <2>1, IdsAre
    <3>2. phase = "rows" => loop # 0
      <4>1. CASE BuildProjected BY <4>1 DEF BuildProjected
      <4>2. CASE ~BuildProjected
        <5>1. phase = "build"
          BY <4>2 DEF Build, BuildRowWise, BuildList, BuildNested, OpenLoop, Building
        <5> QED BY <5>1
      <4> QED BY <4>1, <4>2
    <3> QED BY <3>1, <3>2, <1>3 DEF WaitingReads
  <2> QED BY <2>3, <2>4, <2>5, <2>6
<1> QED BY <1>1, <1>2, <1>3, BuildAdds

(* A frame is as high as the slice, also without columns.                  *)
LEMMA FrameHeight ==
  ASSUME FInv
  PROVE  (IF columns = <<>> THEN KeptHeight ELSE HeightOf(columns)) = Len(items)
<1>1. CASE columns = <<>> BY <1>1 DEF KeptHeight
<1>2. CASE columns # <<>>
  <2>1. 1 \in DOMAIN columns BY <1>2 DEF FInv, TypeOK, Columns
  <2> QED BY <2>1, <1>2 DEF FInv, CellsPerItem, HeightOf
<1> QED BY <1>1, <1>2

(* So does the test of the names and the height of the frame.              *)
LEMMA FinishKeeps ==
  ASSUME FInv, FinishFrame
  PROVE  FInv'
<1>1. CASE NamesValid /\ IsFrame(columns)
  <2>1. Return(IF columns = <<>> THEN KeptHeight ELSE HeightOf(columns))
    BY <1>1 DEF FinishFrame
  <2>2. UniqueNames(columns) BY <1>1 DEF IsFrame
  <2>3. (IF columns = <<>> THEN KeptHeight ELSE HeightOf(columns)) = Len(items)
    BY FrameHeight
  <2>4. Len(items) \in Nat BY ItemsLength DEF FInv
  <2> QED BY <2>1, <2>2, <2>3, <2>4, EndKeeps DEF Return
<1>2. CASE ~(NamesValid /\ IsFrame(columns))
  BY <1>2, FailKeeps DEF FinishFrame
<1> QED BY <1>1, <1>2

(* Every step keeps the invariant.                                         *)
LEMMA FInvNext ==
  FInv /\ [Next]_vars => FInv'
<1> SUFFICES ASSUME FInv, [Next]_vars PROVE FInv' OBVIOUS
<1>1. CASE Next /\ ~UNCHANGED vars
  BY <1>1, EnterKeeps, ShapeKeeps, RowsKeep, BuildKeeps, FinishKeeps DEF Next, Answered
<1>2. CASE UNCHANGED vars
  <2>1. TypeOK' /\ Flow' /\ NeverPanics'
    BY <1>2 DEF FInv, vars, TypeOK, Flow, NeverPanics, InLoop
  <2>2. LoopReads' /\ WaitingReads'
    BY <1>2 DEF FInv, vars, LoopReads, WaitingReads, InLoop, Pushes
  <2>3. CellsPerItem' /\ NamesApart' /\ UniqueSchema'
    BY <1>2, ColumnsKeep DEF FInv, vars, UniqueSchema
  <2> QED BY <2>1, <2>2, <2>3 DEF FInv
<1> QED BY <1>1, <1>2

(* The invariant holds in every reachable state.                           *)
LEMMA Reached == Spec => []FInv
<1> QED BY FInvInit, FInvNext, PTL DEF Spec

-----------------------------------------------------------------------------
(* Type correctness, for every struct, every slice of items and whichever  *)
(* entry point of trait_impl.rs and columnar_impl.rs is called.            *)
THEOREM FrameTypeCorrect == Spec => []TypeOK
BY Reached, PTL DEF FInv

(* The bitmaps that leaf.rs sizes from items.len() and writes through a    *)
(* row index are never written past their end, and every array is given a  *)
(* validity of its own length.                                             *)
THEOREM FrameNeverPanics == Spec => []NeverPanics
BY Reached, PTL DEF FInv

(* The names of what schema() and the frame functions return are distinct, *)
(* also where needs_unique_name_validation leaves the test out.            *)
THEOREM SchemaNamesUnique == Spec => []UniqueSchema
BY Reached, PTL DEF FInv
-----------------------------------------------------------------------------
(* Every answer is DeclaredTable's.                                        *)

Working == {"called", "shape", "rows", "build"}

(* What the abstract operators say, in the terms of the model.             *)
LEMMA TableTerms ==
  ASSUME NEW f \in Ids
  PROVE  /\ Table!Declared(f) = EntriesOf(f, ShownCells(f))
         /\ Table!Unencodable(f) <=> Kind(f) # "nested" /\ ~Encodable(f)
         /\ Table!Breaks(f) <=> f \in Fragile /\ (Kind(f) = "nested" \/ items # <<>>)
<1>1. Table!Cells(f) = ShownCells(f)
  BY DEF Table!Cells, Table!Shown, ShownCells, Shown
<1>2. ASSUME NEW inner PROVE Table!NestedName(f, inner) = ComposeName(f, inner)
  BY DEF Table!NestedName, ComposeName
<1>3. Table!Declared(f) = EntriesOf(f, ShownCells(f))
  BY <1>1, <1>2 DEF Table!Declared, EntriesOf, Kind, ColumnOf, InnerColumnsOf, InnerColumnOf
<1> QED BY <1>3 DEF Table!Unencodable, Table!Breaks, Encodable, Encodes, Kind

(* Two columns of one name.                                                *)
LEMMA TableClash == Table!Clash <=> ~UniqueNames(columns)
BY DEF Table!Clash, UniqueNames

(* The status the phase stands for.                                        *)
LEMMA StatusIs ==
  /\ phase \in Working => Status = "building"
  /\ phase = "done"  => Status = "complete"
  /\ phase = "error" => Status = "refused"
BY DEF Status, Working

(* The status the next phase stands for.                                   *)
LEMMA StatusNext ==
  /\ phase' \in Working => Status' = "building"
  /\ phase' = "done"  => Status' = "complete"
  /\ phase' = "error" => Status' = "refused"
BY DEF Status, Working

(* A step that adds no column and does not end the call is not seen.       *)
LEMMA Hidden ==
  ASSUME phase \in Working, phase' \in Working, UNCHANGED <<items, at, columns, height>>
  PROVE  UNCHANGED Table!vars
BY StatusIs, StatusNext DEF Table!vars

(* A field's columns added are a step of the table.                        *)
LEMMA Added ==
  ASSUME FInv, phase \in Working, phase' \in Working, at < Len(Fields), items' = items,
         Kind(at + 1) = "nested" \/ Encodable(at + 1),
         AddColumns(at + 1, EntriesOf(at + 1, ShownCells(at + 1)))
  PROVE  Table!Add
<1>1. at + 1 \in Ids BY IdsAre DEF FInv, TypeOK
<1> QED BY <1>1, TableTerms, StatusIs, StatusNext DEF Table!Add, AddColumns

(* An error with a reason is a step of the table.                          *)
LEMMA Refused ==
  ASSUME phase \in Working, Fail("error"), Table!Excused
  PROVE  Table!Refuse
BY StatusIs, StatusNext DEF Table!Refuse, Fail, input, result

(* The end of a frame, or of a schema, whose names have been tested.       *)
LEMMA Completed ==
  ASSUME phase \in Working, at = Len(Fields), UniqueNames(columns), Return(Len(items))
  PROVE  Table!Complete
BY StatusIs, StatusNext, TableClash DEF Table!Complete, Return, input

(* The steps of schema and empty_dataframe.                                *)
LEMMA ShapeAnswers ==
  ASSUME FInv, Shape
  PROVE  Table!Next
<1>1. phase = "shape" /\ items = <<>> /\ phase \in Working /\ Len(items) = 0
  BY DEF Shape, AddShape, ShapeBreaks, FinishShape, FInv, Flow, Working
<1>2. CASE AddShape
  <2>1. at + 1 \in Ids BY <1>2, IdsAre DEF AddShape, FInv, TypeOK
  <2>2. ShownCells(at + 1) = <<>> BY <1>1 DEF ShownCells
  <2>3. Encodable(at + 1) BY <1>1 DEF Encodable
  <2>4. AddColumns(at + 1, EntriesOf(at + 1, ShownCells(at + 1)))
    BY <1>2, <2>2, ShapeEntries DEF AddShape
  <2> QED BY <1>1, <1>2, <2>3, <2>4, Added DEF AddShape, input, Table!Next
<1>3. CASE ShapeBreaks
  <2>1. at + 1 \in Ids BY <1>3, IdsAre DEF ShapeBreaks, FInv, TypeOK
  <2>2. Table!Excused BY <1>3, <2>1, TableTerms DEF ShapeBreaks, Table!Excused
  <2> QED BY <1>1, <1>3, <2>2, Refused DEF ShapeBreaks, Table!Next
<1>4. CASE FinishShape
  <2>1. at = Len(Fields) BY <1>4 DEF FinishShape
  <2>2. \A i, j \in DOMAIN columns : Len(columns[i].cells) = Len(columns[j].cells)
    BY DEF FInv, CellsPerItem
  <2>3. CASE UniqueNames(columns)
    <3>1. Return(Len(items)) BY <1>1, <1>4, <2>2, <2>3 DEF FinishShape, NamesValid, IsFrame
    <3> QED BY <1>1, <2>1, <2>3, <3>1, Completed DEF Table!Next
  <2>4. CASE ~UniqueNames(columns)
    <3>1. ~NamesValid BY <2>4 DEF NamesValid, FInv, NamesApart
    <3>2. Fail("error") BY <1>4, <3>1 DEF FinishShape
    <3>3. Table!Excused BY <2>1, <2>4, TableClash DEF Table!Excused
    <3> QED BY <1>1, <3>2, <3>3, Refused DEF Table!Next
  <2> QED BY <2>3, <2>4
<1> QED BY <1>2, <1>3, <1>4 DEF Shape

(* A push is hidden; a conversion that fails refuses the table.            *)
LEMMA RowsAnswer ==
  ASSUME FInv, FInv', Rows
  PROVE  Table!Next \/ UNCHANGED Table!vars
<1>1. phase = "rows" /\ phase \in Working
  BY DEF Rows, PushValue, PushFailing, NextRow, EndLoop, RowsDone, Working
<1>2. CASE PushValue
  <2>1. UNCHANGED <<input, phase, loop, row, result>> \/ Fail("panic")
    BY <1>2 DEF PushValue
  <2>2. ~Fail("panic") BY DEF Fail, FInv, NeverPanics
  <2> QED BY <1>1, <2>1, <2>2, Hidden DEF input, result
<1>3. CASE PushFailing
  <2>1. PICK f \in Unpushed : ~Encodes(items[row + 1][f]) BY <1>3 DEF PushFailing
  <2>2. f \in Ids /\ IsLeaf(f) BY <1>1, <2>1, LoopLeaf DEF Unpushed, FInv
  <2>3. row + 1 \in DOMAIN items BY <1>3, ItemsLength DEF PushFailing, FInv, TypeOK
  <2>4. Table!Unencodable(f)
    BY <2>1, <2>2, <2>3, TableTerms DEF Encodable, IsLeaf
  <2>5. Table!Excused BY <2>2, <2>4 DEF Table!Excused, Ids
  <2> QED BY <1>1, <1>3, <2>5, Refused DEF PushFailing, Table!Next
<1>4. CASE NextRow BY <1>1, <1>4, Hidden DEF NextRow, input, result
<1>5. CASE EndLoop
  <2>1. phase' \in Working BY <1>5 DEF EndLoop, Working
  <2> QED BY <1>1, <1>5, <2>1, Hidden DEF EndLoop, input, result
<1> QED BY <1>2, <1>3, <1>4, <1>5 DEF Rows

(* The builders add a field's columns, or fail with a reason.              *)
LEMMA BuildAnswers ==
  ASSUME FInv, Build
  PROVE  Table!Next \/ UNCHANGED Table!vars
<1>1. CASE OpenLoop
  <2>1. phase \in Working /\ phase' \in Working /\ UNCHANGED <<items, at, columns, height>>
    BY <1>1 DEF OpenLoop, Building, Working, input, result
  <2> QED BY <2>1, Hidden
<1>2. CASE /\ phase \in {"rows", "build"} /\ phase' = "build" /\ at < Len(Fields)
           /\ Encodable(at + 1)
           /\ at' = at + 1 /\ columns' = columns \o EntriesOf(at + 1, ShownCells(at + 1))
           /\ UNCHANGED <<input, looping, buffers, height>>
  <2>1. phase \in Working /\ phase' \in Working BY <1>2 DEF Working
  <2> QED BY <1>2, <2>1, Added DEF AddColumns, input, Table!Next
<1>3. CASE /\ Fail("error") /\ phase \in {"rows", "build"} /\ at < Len(Fields)
           /\ \/ Kind(at + 1) = "list" /\ ~Encodable(at + 1)
              \/ at + 1 \in Fragile
  <2>1. phase \in Working BY <1>3 DEF Working
  <2>2. at + 1 \in Ids /\ items # <<>> BY <1>3, IdsAre DEF FInv, TypeOK, Flow
  <2>3. Table!Excused BY <1>3, <2>2, TableTerms DEF Table!Excused, Ids
  <2> QED BY <1>3, <2>1, <2>3, Refused DEF Table!Next
<1> QED BY <1>1, <1>2, <1>3, BuildAdds

(* The end of a frame completes the table unless two names clash.          *)
LEMMA FinishAnswers ==
  ASSUME FInv, FinishFrame
  PROVE  Table!Next
<1>1. phase \in Working /\ at = Len(Fields) BY DEF FinishFrame, Working
<1>2. \A i, j \in DOMAIN columns : Len(columns[i].cells) = Len(columns[j].cells)
  BY DEF FInv, CellsPerItem
<1>3. CASE UniqueNames(columns)
  <2>1. Return(IF columns = <<>> THEN KeptHeight ELSE HeightOf(columns))
    BY <1>2, <1>3 DEF FinishFrame, NamesValid, IsFrame
  <2>2. (IF columns = <<>> THEN KeptHeight ELSE HeightOf(columns)) = Len(items)
    BY FrameHeight
  <2> QED BY <1>1, <1>3, <2>1, <2>2, Completed DEF Table!Next
<1>4. CASE ~UniqueNames(columns)
  <2>1. Fail("error") BY <1>4 DEF FinishFrame, IsFrame
  <2>2. Table!Excused BY <1>1, <1>4, TableClash DEF Table!Excused
  <2> QED BY <1>1, <2>1, <2>2, Refused DEF Table!Next
<1> QED BY <1>3, <1>4

(* Every step is a step of the table, or hidden from it.                   *)
LEMMA StepAnswers ==
  FInv /\ FInv' /\ [Next]_vars => [Table!Next]_(Table!vars)
<1> SUFFICES ASSUME FInv, FInv', [Next]_vars PROVE Table!Next \/ UNCHANGED Table!vars
  OBVIOUS
<1>1. CASE UNCHANGED vars BY <1>1 DEF vars, Table!vars, Status
<1>2. CASE EnterShape \/ Enter
  <2>1. /\ phase \in Working /\ phase' \in Working
        /\ UNCHANGED <<items, at, columns, height>>
    BY <1>2 DEF EnterShape, Enter, Working, input, result
  <2> QED BY <2>1, Hidden
<1> QED
  BY <1>1, <1>2, ShapeAnswers, RowsAnswer, BuildAnswers, FinishAnswers DEF Next, Answered

(* Every entry point answers as DeclaredTable does: the columns the struct *)
(* declares in field order, one cell per item, null where the value is     *)
(* absent, the height of the slice, an error only for a reason the table   *)
(* has; for every struct and every slice of items.                         *)
THEOREM EveryCallAnswersTheTable == Spec => ImplementsTable
<1>1. Init => Table!Init
  BY StatusIs DEF Init, Table!Init, Working
<1>2. Spec => Init /\ [][Next]_vars /\ []FInv BY Reached DEF Spec
<1> QED BY <1>1, <1>2, StepAnswers, PTL DEF ImplementsTable, Table!Spec
=============================================================================
