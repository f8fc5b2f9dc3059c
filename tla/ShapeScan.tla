----------------------------- MODULE ShapeScan -----------------------------
(***************************************************************************)
(* The code that `df-derive` generates for one field of `Depth` nested     *)
(* `Vec` layers: a first loop over the items that counts (`ShapePrecount`),*)
(* the declaration of the buffers with the counted sizes, a second loop    *)
(* that fills them (`ShapeScan`), and the assembly of the buffers into one *)
(* list array per layer.  The loops are unrolled into steps: one step      *)
(* takes the next element of the innermost open loop or closes that loop.  *)
(*                                                                         *)
(* Loop 1 runs over the items, loop l + 1 over the elements of the list    *)
(* that loop l is at; loop Depth + 1 runs over leaf elements.              *)
(***************************************************************************)
EXTENDS Integers, Sequences

CONSTANTS
  Depth,      (* The number of `Vec` layers of the field.                  *)
  LeafKind,   (* How leaves are stored, see LeafKinds.                     *)
  None,       (* `Option::None`, after all Options of one boundary have    *)
              (* been collapsed to one.                                    *)
  Node,       (* Node[l]: what loop l can meet. Lists for l <= Depth,      *)
              (* leaf elements for l = Depth + 1, and None where the       *)
              (* field's type has an Option at that boundary.              *)
  Encode,     (* What a leaf value is stored as, Failed if its conversion  *)
              (* returns an error.                                         *)
  Failed,
  Default,    (* What is stored under a null leaf.                         *)
  Inputs,     (* The item slices the loops are run on.                     *)
  MaxOffset,  (* The largest list offset, i64::MAX.                        *)
  MaxIdx      (* The largest gather index, IdxSize::MAX.                   *)

LeafKinds == {"numeric", "string", "bool", "nested"}

Layers == 1 .. Depth
Loops  == 1 .. Depth + 1
Leaf   == Depth + 1

ASSUME DepthAssumption == Depth \in Nat \ {0}
ASSUME KindAssumption  == LeafKind \in LeafKinds
ASSUME NodeAssumption  ==
  \A l \in Layers : \A n \in Node[l] : n # None => n \in Seq(Node[l + 1])
ASSUME LeafAssumption  ==
  \A v \in Node[Leaf] : LeafKind = "bool" /\ v # None => Encode[v] \in BOOLEAN
ASSUME NoneAssumption  == None \notin Nat
ASSUME InputAssumption == \A s \in Inputs : s \in Seq(Node[1])
ASSUME BoundAssumption == MaxOffset \in Nat /\ MaxIdx \in Nat

VARIABLES
  items,      (* The slice being encoded.                                  *)
  phase,      (* The loop that runs, or how the function ended.            *)
  open,       (* The innermost open loop.                                  *)
  rest,       (* rest[l]: what the iterator of loop l has still to yield.  *)
  total,      (* The precounted number of leaf elements.                   *)
  counters,   (* counters[l]: the precounted number of lists of layer      *)
              (* l + 1.                                                    *)
  offsets,    (* offsets[l]: the offsets buffer of layer l.                *)
  validity,   (* validity[l]: the validity bitmap of layer l.              *)
  flat,       (* The leaf values pushed so far.                            *)
  bits,       (* The values bitmap of a bool leaf, sized by total.         *)
  valid,      (* The leaf validity bitmap, sized by total.                 *)
  positions,  (* For nested leaves: the index into flat, or None.          *)
  leafIdx,    (* The running leaf index of string and bool leaves.         *)
  trail       (* History: the spots the precount passed, first to last.    *)

walk    == <<open, rest>>
counted == <<total, counters>>
buffers == <<offsets, validity, flat, bits, valid, positions, leafIdx>>
vars    == <<items, phase, walk, counted, buffers, trail>>

(* A boundary has an Option iff None can be met there.                     *)
Optional(l) == None \in Node[l]
InnerOption == Optional(Leaf)

Ended == {"done", "error", "panic"}

-----------------------------------------------------------------------------
(* Walking the loops.                                                      *)

StartOfItems == open = 1 /\ rest = [l \in Loops |-> IF l = 1 THEN items ELSE <<>>]

Next1(l) == Head(rest[l])

(* The next element of the innermost loop is a list that is entered.       *)
EnterList ==
  /\ open' = open + 1
  /\ rest' = [rest EXCEPT ![open] = Tail(@), ![open + 1] = Next1(open)]

(* The next element of the innermost loop is consumed in one step.         *)
SkipElement ==
  /\ open' = open
  /\ rest' = [rest EXCEPT ![open] = Tail(@)]

(* The innermost loop is exhausted; the loop around it goes on.            *)
LeaveList ==
  /\ open' = open - 1
  /\ rest' = rest

AtElement == open <= Depth /\ rest[open] # <<>>
AtEnd     == open > 1 /\ rest[open] = <<>>
AllRead   == open = 1 /\ rest[1] = <<>>

-----------------------------------------------------------------------------
(* The precount loop. One more list of layer l has been counted; the       *)
(* outermost layer needs no counter, items.len() is its count.             *)

Counted(c, l) == IF l = 1 THEN c ELSE [c EXCEPT ![l - 1] = @ + 1]

CountedLists(l) == Counted(counters, l)

Here == [open |-> open, rest |-> rest, total |-> total, counters |-> counters]

Remember == trail' = Append(trail, Here)

PrecountNullUncounted ==
  /\ phase = "precount" /\ AtElement /\ Next1(open) = None
  /\ SkipElement
  /\ Remember
  /\ UNCHANGED <<items, phase, counted, buffers>>

PrecountNull ==
  /\ phase = "precount" /\ AtElement /\ Next1(open) = None
  /\ SkipElement
  /\ counters' = CountedLists(open)
  /\ Remember
  /\ UNCHANGED <<items, phase, total, buffers>>

PrecountPresentLeaves ==
  /\ phase = "precount" /\ AtElement /\ Next1(open) # None
  /\ open = Depth
  /\ SkipElement
  /\ total' = total + Len(SelectSeq(Next1(open), LAMBDA v : v # None))
  /\ counters' = CountedLists(open)
  /\ Remember
  /\ UNCHANGED <<items, phase, buffers>>

PrecountLeaves ==
  /\ phase = "precount" /\ AtElement /\ Next1(open) # None
  /\ open = Depth
  /\ SkipElement
  /\ total' = total + Len(Next1(open))
  /\ counters' = CountedLists(open)
  /\ Remember
  /\ UNCHANGED <<items, phase, buffers>>

PrecountEnter ==
  /\ phase = "precount" /\ AtElement /\ Next1(open) # None
  /\ open < Depth
  /\ EnterList
  /\ Remember
  /\ UNCHANGED <<items, phase, counted, buffers>>

PrecountLeave ==
  /\ phase = "precount" /\ AtEnd
  /\ LeaveList
  /\ counters' = CountedLists(open - 1)
  /\ Remember
  /\ UNCHANGED <<items, phase, total, buffers>>

-----------------------------------------------------------------------------
(* Declaring the buffers. Values and validity bitmaps of the leaves are    *)
(* filled to their final length here and only overwritten by the scan.     *)

Filled(b) == [i \in 1 .. total |-> b]

SeedUnseeded == <<>>

Seed == <<0>>

DeclareBuffers ==
  /\ phase = "precount" /\ AllRead
  /\ phase' = "scan"
  /\ open' = 1
  /\ rest' = [rest EXCEPT ![1] = items]
  /\ offsets' = [l \in Layers |-> Seed]
  /\ validity' = [l \in Layers |-> <<>>]
  /\ flat' = <<>>
  /\ bits' = IF LeafKind = "bool" THEN Filled(FALSE) ELSE <<>>
  /\ valid' = IF InnerOption /\ LeafKind # "nested" THEN Filled(TRUE) ELSE <<>>
  /\ positions' = <<>>
  /\ leafIdx' = 0
  /\ Remember
  /\ UNCHANGED <<items, counted>>

-----------------------------------------------------------------------------
(* The scan loop.                                                          *)

(* The number of leaf elements stored so far, the offset that a list of    *)
(* the last layer ends at.                                                 *)
LeafEntries ==
  CASE LeafKind = "bool" -> leafIdx
    [] LeafKind = "nested" /\ InnerOption -> Len(positions)
    [] OTHER -> Len(flat)

(* The number of entries of the child array of layer l.                    *)
Entries(l) == IF l = Depth THEN LeafEntries ELSE Len(offsets[l + 1]) - 1

Fail(how) == phase' = how /\ UNCHANGED <<items, walk, counted, buffers, trail>>

PushPresence(l, b) ==
  validity' = IF Optional(l) /\ b THEN [validity EXCEPT ![l] = Append(@, b)] ELSE validity

PushValidity(l, b) ==
  validity' = IF Optional(l) THEN [validity EXCEPT ![l] = Append(@, b)] ELSE validity

PushOffset(l) == offsets' = [offsets EXCEPT ![l] = Append(@, Entries(l))]

ScanNull ==
  /\ phase = "scan" /\ AtElement /\ Next1(open) = None
  /\ \/ /\ Entries(open) <= MaxOffset
        /\ SkipElement
        /\ PushValidity(open, FALSE)
        /\ PushOffset(open)
        /\ UNCHANGED <<items, phase, counted, trail, flat, bits, valid, positions, leafIdx>>
     \/ Entries(open) > MaxOffset /\ Fail("error")

ScanEnter ==
  /\ phase = "scan" /\ AtElement /\ Next1(open) # None
  /\ EnterList
  /\ PushValidity(open, TRUE)
  /\ UNCHANGED <<items, phase, counted, trail, offsets, flat, bits, valid, positions, leafIdx>>

ScanLeave ==
  /\ phase = "scan" /\ AtEnd
  /\ \/ /\ Entries(open - 1) <= MaxOffset
        /\ LeaveList
        /\ PushOffset(open - 1)
        /\ UNCHANGED <<items, phase, counted, trail, validity, flat, bits, valid, positions, leafIdx>>
     \/ Entries(open - 1) > MaxOffset /\ Fail("error")

-----------------------------------------------------------------------------
(* Storing one leaf element. MutableBitmap::set panics past the end.       *)

Clear(bm, i) == [bm EXCEPT ![i] = FALSE]
SetBit(bm, i) == [bm EXCEPT ![i] = TRUE]

(* string_like_leaf_pieces and bool_*_leaf_pieces keep an index of their   *)
(* own; a string leaf without inner Option declares none.                  *)
Indexed == LeafKind = "bool" \/ (LeafKind = "string" /\ InnerOption)

StepIdxOnNull == leafIdx' = IF Indexed /\ Next1(Leaf) = None THEN leafIdx + 1 ELSE leafIdx

StepIdx == leafIdx' = IF Indexed THEN leafIdx + 1 ELSE leafIdx

(* The slot that the element about to be stored has in the prefilled       *)
(* bitmaps, counted from 1.                                                *)
Slot == IF Indexed THEN leafIdx + 1 ELSE Len(flat) + 1

AtLeaf(v) == phase = "scan" /\ open = Leaf /\ rest[Leaf] # <<>> /\ v = Next1(Leaf)

(* The bit that storing v would set lies inside the prefilled bitmap.      *)
Fits(v) ==
  CASE v = None /\ LeafKind # "nested" -> Slot \in DOMAIN valid
    [] v # None /\ LeafKind = "bool"   -> Encode[v] => Slot \in DOMAIN bits
    [] OTHER                           -> TRUE

(* A gather index for the next referenced struct exists.                   *)
Addressable == LeafKind = "nested" /\ InnerOption => Len(flat) <= MaxIdx

PushedValue(v) == flat' = Append(flat, Encode[v]) /\ UNCHANGED <<bits, positions>>

BoolValue(v) ==
  /\ bits' = IF Encode[v] THEN SetBit(bits, Slot) ELSE bits
  /\ UNCHANGED <<flat, positions>>

NestedValueAtPosition(v) ==
  /\ positions' = IF InnerOption THEN Append(positions, Len(positions)) ELSE positions
  /\ flat' = Append(flat, Encode[v])
  /\ UNCHANGED bits

NestedValue(v) ==
  /\ positions' = IF InnerOption THEN Append(positions, Len(flat)) ELSE positions
  /\ flat' = Append(flat, Encode[v])
  /\ UNCHANGED bits

StoreValue(v) ==
  /\ CASE LeafKind = "bool"   -> BoolValue(v)
       [] LeafKind = "nested" -> NestedValue(v)
       [] OTHER               -> PushedValue(v)
  /\ UNCHANGED valid

StoreNullWithoutDefault ==
  /\ valid' = IF LeafKind = "nested" THEN valid ELSE Clear(valid, Slot)
  /\ positions' = IF LeafKind = "nested" THEN Append(positions, None) ELSE positions
  /\ UNCHANGED <<flat, bits>>

StoreNull ==
  /\ flat' = IF LeafKind \in {"numeric", "string"} THEN Append(flat, Default) ELSE flat
  /\ valid' = IF LeafKind = "nested" THEN valid ELSE Clear(valid, Slot)
  /\ positions' = IF LeafKind = "nested" THEN Append(positions, None) ELSE positions
  /\ UNCHANGED bits

Store(v) ==
  /\ IF v = None THEN StoreNull ELSE StoreValue(v)
  /\ SkipElement /\ StepIdx
  /\ UNCHANGED <<items, phase, counted, trail, offsets, validity>>

ScanLeaf ==
  \E v \in Node[Leaf] :
    /\ AtLeaf(v)
    /\ v # None => Encode[v] # Failed /\ Addressable
    /\ IF Fits(v) THEN Store(v) ELSE Fail("panic")

(* The `?` of the leaf conversion returns before anything is stored.       *)
ScanFailing ==
  \E v \in Node[Leaf] \ {None} :
    AtLeaf(v) /\ Encode[v] = Failed /\ Fail("error")

(* More referenced structs than a gather index can address.                *)
ScanTooMany ==
  \E v \in Node[Leaf] \ {None} :
    AtLeaf(v) /\ Encode[v] # Failed /\ ~Addressable /\ Fail("error")

-----------------------------------------------------------------------------
(* Assembling the list arrays. The checks are those of the Arrow           *)
(* constructors the generated code calls.                                  *)

(* OffsetsBuffer::try_from.                                                *)
OffsetsAccepted(o) == Len(o) > 0 /\ \A i \in 2 .. Len(o) : o[i - 1] <= o[i]

(* The length of the leaf array, and the validity it is paired with.       *)
LeafLength ==
  CASE LeafKind = "bool" -> Len(bits)
    [] LeafKind = "nested" /\ InnerOption -> Len(positions)
    [] OTHER -> Len(flat)

LeafAccepted == InnerOption /\ LeafKind # "nested" => Len(valid) = LeafLength

(* LargeListArray::new over a child array of the given length.             *)
ListAccepted(l, child) ==
  /\ offsets[l][Len(offsets[l])] <= child
  /\ Optional(l) => Len(validity[l]) = Len(offsets[l]) - 1

ChildLength(l) == IF l = Depth THEN LeafLength ELSE Len(offsets[l + 1]) - 1

Assemble ==
  /\ phase = "scan" /\ AllRead
  /\ phase' = IF \E l \in Layers : ~OffsetsAccepted(offsets[l]) THEN "error"
              ELSE IF LeafAccepted /\ \A l \in Layers : ListAccepted(l, ChildLength(l))
              THEN "done" ELSE "panic"
  /\ UNCHANGED <<items, walk, counted, buffers, trail>>

(* The function has returned.                                              *)
Return == phase \in Ended /\ UNCHANGED vars

-----------------------------------------------------------------------------
Init ==
  /\ items \in Inputs
  /\ phase = "precount"
  /\ StartOfItems
  /\ total = 0 /\ counters = [l \in 1 .. Depth - 1 |-> 0]
  /\ offsets = [l \in Layers |-> <<>>] /\ validity = [l \in Layers |-> <<>>]
  /\ flat = <<>> /\ bits = <<>> /\ valid = <<>> /\ positions = <<>> /\ leafIdx = 0
  /\ trail = <<>>

Precount == PrecountNull \/ PrecountLeaves \/ PrecountEnter \/ PrecountLeave

Scan ==
  \/ ScanNull \/ ScanEnter \/ ScanLeave
  \/ ScanLeaf \/ ScanFailing \/ ScanTooMany

Next == Precount \/ DeclareBuffers \/ Scan \/ Assemble \/ Return

Spec == Init /\ [][Next]_vars

-----------------------------------------------------------------------------
(* Properties.                                                             *)

Elements == UNION {Node[l] : l \in Loops}

Rests == {r \in [Loops -> Seq(Elements)] : \A l \in Loops : r[l] \in Seq(Node[l])}

WalkOK ==
  /\ items \in Inputs
  /\ phase \in {"precount", "scan"} \union Ended
  /\ open \in Loops /\ (phase = "precount" => open <= Depth)
  /\ rest \in Rests

CountsOK == total \in Nat /\ counters \in [1 .. Depth - 1 -> Nat]

LayersOK == offsets \in [Layers -> Seq(Nat)] /\ validity \in [Layers -> Seq(BOOLEAN)]

Stored == {Encode[v] : v \in Node[Leaf] \ {None}} \union {Default}

LeavesOK ==
  /\ flat \in Seq(Stored)
  /\ bits \in Seq(BOOLEAN) /\ valid \in Seq(BOOLEAN)
  /\ positions \in Seq(Nat \union {None})
  /\ leafIdx \in Nat

(* Every variable has its type; the iterator of loop l only ever yields    *)
(* what loop l can meet.                                                   *)
TypeOK == WalkOK /\ CountsOK /\ LayersOK /\ LeavesOK

OpenLists(l) == IF l < open THEN 1 ELSE 0

LayerInStep(l) ==
  /\ Len(offsets[l]) > 0 /\ offsets[l][1] = 0
  /\ OffsetsAccepted(offsets[l])
  /\ offsets[l][Len(offsets[l])] <= Entries(l)
  /\ Optional(l) => Len(validity[l]) = Len(offsets[l]) - 1 + OpenLists(l)

(* At every point of the scan the buffers of every layer could be          *)
(* assembled up to the lists that are still open: offsets start at 0,      *)
(* never decrease and never point past the child's entries, and a layer's  *)
(* validity bitmap is one bit ahead of its offsets exactly while one of    *)
(* its lists is open (build_layer pushes the bit before the loop over the  *)
(* list and the offset after it).                                          *)
BuffersInStep == phase \in {"scan", "done"} => \A l \in Layers : LayerInStep(l)

(* What the precount counted is what the scan stores: no buffer outgrows   *)
(* its reservation while the scan runs, and a scan that ends has used all  *)
(* of every reservation (ShapePrecount and ShapeScan walk the same lists). *)
Reserved(l) == IF l = 1 THEN Len(items) ELSE counters[l - 1]

PrecountExact ==
  /\ phase \in {"scan", "done"} =>
       /\ LeafEntries <= total
       /\ \A l \in Layers : Len(offsets[l]) - 1 <= Reserved(l)
  /\ phase = "done" =>
       /\ LeafEntries = total
       /\ \A l \in Layers : Len(offsets[l]) - 1 = Reserved(l)

(* The precount passed the spots of `trail`, and each follows from the one *)
(* before it by the next element of the walk.                              *)
Start == [open |-> 1, rest |-> [l \in Loops |-> IF l = 1 THEN items ELSE <<>>],
          total |-> 0, counters |-> [l \in 1 .. Depth - 1 |-> 0]]

SpotAfter(s) ==
  LET l    == s.open
      node == Head(s.rest[l])
      tail == [s.rest EXCEPT ![l] = Tail(@)] IN
  CASE s.rest[l] = <<>> ->
         [s EXCEPT !.open = l - 1, !.counters = Counted(@, l - 1)]
    [] s.rest[l] # <<>> /\ node = None ->
         [s EXCEPT !.rest = tail, !.counters = Counted(@, l)]
    [] s.rest[l] # <<>> /\ node # None /\ l = Depth ->
         [s EXCEPT !.rest = tail, !.total = @ + Len(node), !.counters = Counted(@, l)]
    [] OTHER ->
         [s EXCEPT !.open = l + 1, !.rest = [tail EXCEPT ![l + 1] = node]]

AtLast(s) == s.open = 1 /\ s.rest[1] = <<>>

(* While the scan is between leaf elements it stands on a spot of the      *)
(* trail with as much stored as had been counted there; inside a leaf list *)
(* it is on its way from one spot to the next.                             *)
CountersMatch(s) == \A l \in 2 .. Depth : Len(offsets[l]) - 1 = s.counters[l - 1]

OnSpot(s) ==
  /\ open = s.open /\ rest = s.rest
  /\ LeafEntries = s.total /\ CountersMatch(s)

BetweenSpots(s, t) ==
  /\ open = Leaf /\ t.open = Depth /\ t.rest = [rest EXCEPT ![Leaf] = <<>>]
  /\ LeafEntries + Len(rest[Leaf]) = t.total
  /\ CountersMatch(s) /\ t.counters = Counted(s.counters, Depth)

(* The scan retraces the precount: it passes the spots the precount passed,*)
(* in order, and at each has stored what the precount had counted there.   *)
PrecountRetraced ==
  phase \in {"scan", "done"} =>
    \E k \in 1 .. Len(trail) :
      \/ OnSpot(trail[k])
      \/ k < Len(trail) /\ BetweenSpots(trail[k], trail[k + 1])

(* The generated code never panics: no leaf is written past the end of a   *)
(* prefilled bitmap, and the Arrow constructors accept the buffers.        *)
NeverPanics == phase # "panic"
=============================================================================
