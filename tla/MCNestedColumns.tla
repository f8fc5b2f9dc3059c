-------------------------- MODULE MCNestedColumns --------------------------
(* Small instances of NestedColumns: a struct whose frame and schema agree *)
(* or differ in height, columns or dtypes, or fail.                        *)
EXTENDS NestedColumnsField, SequencesExt

CONSTANTS MaxLeaves, x, y, num, str, cat

MCNames   == {x, y}
MCDtypes  == {num, str, cat}
MCInputs  ==
  {s \in BoundedSeq(IF HasPositions THEN Structs \union {None} ELSE Structs, MaxLeaves) :
     Listed \/ s # <<>>}
MCFlats   == BoundedSeq(Structs, MaxLeaves)
MCCells   == (0 .. MaxLeaves) \X (Structs \union {None})
MCOutputName == [n \in MCNames |-> n]

(* Cell k of a column tells its row and struct; surplus cells tell none. *)
CellsFor(p, h) == [k \in 1 .. h |-> IF k <= Len(p) THEN <<k, p[k]>> ELSE <<0, None>>]

FrameOf(p, h, dtypes) ==
  [height |-> h, columns |-> [n \in DOMAIN dtypes |-> [dtype |-> dtypes[n], cells |-> CellsFor(p, h)]]]

MCFrames ==
  [p \in MCFlats |->
     {Failed} \union
     {FrameOf(p, h, d) : h \in {Len(p) - 1, Len(p), Len(p) + 1} \ {-1},
                         d \in {[n \in {x} |-> num], [n \in {x, y} |-> num],
                                [n \in {x, y} |-> IF n = x THEN num ELSE str]}}]

MCSchemas ==
  {Failed, <<>>, <<[name |-> x, dtype |-> num]>>,
   <<[name |-> x, dtype |-> num], [name |-> y, dtype |-> str]>>,
   <<[name |-> y, dtype |-> cat], [name |-> x, dtype |-> num]>>}

MCUnlisted   == {cat}
MCUnfillable == {str}
=============================================================================
