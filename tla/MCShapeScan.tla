---------------------------- MODULE MCShapeScan ----------------------------
(* Small instances of ShapeScan: every shape of `Depth` layers over leaf   *)
(* lists of at most MaxLeaves elements and lists of at most MaxLists lists.*)
EXTENDS ShapeScanColumn, SequencesExt

CONSTANTS
  OptionalLayers,  (* The loops whose elements may be None.                *)
  Values,          (* The leaf values.                                     *)
  BadValues,       (* Those that have no stored form.                      *)
  TrueValues,      (* Those that a bool leaf stores as TRUE.               *)
  MaxItems, MaxLists, MaxLeaves

OrNone(l, S) == IF l \in OptionalLayers THEN S \union {None} ELSE S

MCNode[l \in 1 .. Depth + 1] ==
  OrNone(l, IF l = Depth + 1 THEN Values
            ELSE BoundedSeq(MCNode[l + 1], IF l = Depth THEN MaxLeaves ELSE MaxLists))

MCEncode ==
  [v \in Values |-> CASE v \in BadValues     -> Failed
                     [] LeafKind = "bool"   -> v \in TrueValues
                     [] OTHER               -> v]

MCInputs == BoundedSeq(MCNode[1], MaxItems)
=============================================================================
