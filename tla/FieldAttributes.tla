-------------------------- MODULE FieldAttributes --------------------------
(***************************************************************************)
(* What one item of a field's `#[df_derive(...)]` attributes means, and    *)
(* what happens when a second one is met.  An item is its key and its      *)
(* arguments, a sequence of <<name, value>> pairs; strings that are not    *)
(* names of the language stand for themselves.                             *)
(***************************************************************************)
EXTENDS Integers, Sequences

LOCAL INSTANCE FiniteSetsExt

FieldOverrideKeys ==
  {"skip", "as_binary", "as_str", "as_string", "decimal", "time_unit", "flatten"}

MaxPrecision == 38
TimeUnits == {"ms", "us", "ns"}

(* An attribute that was understood: its key and value.                    *)
NoAttr == [key |-> "none", value |-> <<>>]

Named(args, name) == {i \in DOMAIN args : args[i][1] = name}
ArgValue(args, name) == args[CHOOSE i \in Named(args, name) : TRUE][2]

-----------------------------------------------------------------------------
(* The arguments of `decimal(...)` and `flatten(...)` are read in order    *)
(* and the first that is refused ends the derive.                          *)

DecimalRange(name, n) ==
  IF name = "precision" THEN n \in 1 .. MaxPrecision ELSE n <= MaxPrecision

ArgRefused(key, args, i) ==
  LET name  == args[i][1]
      value == args[i][2]
      names == IF key = "decimal" THEN {"precision", "scale"} ELSE {"prefix"}
      fits  == IF key = "decimal" THEN DecimalRange(name, value) ELSE value # ""
      first == {j \in Named(args, name) : j < i}
  IN CASE name \notin names -> "unknown_argument"
       [] name \in names /\ ~fits -> "argument_out_of_range"
       [] name \in names /\ fits /\ first # {} ->
            IF \A j \in first : args[j][2] = value
            THEN "duplicate_argument" ELSE "different_arguments"
       [] OTHER -> "none"

FirstRefused(key, args) ==
  LET refused == {i \in DOMAIN args : ArgRefused(key, args, i) # "none"}
  IN IF refused = {} THEN "none" ELSE ArgRefused(key, args, Min(refused))

DecimalRefused(args) ==
  LET first == FirstRefused("decimal", args)
  IN CASE first # "none" -> first
       [] first = "none" /\ \E name \in {"precision", "scale"} : Named(args, name) = {} ->
            "argument_missing"
       [] OTHER -> IF ArgValue(args, "scale") > ArgValue(args, "precision")
                   THEN "scale_exceeds_precision" ELSE "none"

ItemRefusedIfKnown(item) ==
  CASE item.key = "decimal"   -> DecimalRefused(item.args)
    [] item.key = "time_unit" -> IF ArgValue(item.args, "unit") \in TimeUnits
                                 THEN "none" ELSE "unknown_time_unit"
    [] item.key = "flatten"   -> FirstRefused("flatten", item.args)
    [] OTHER -> "none"

(* Why an item is refused on its own, "none" if it is not.                 *)
ItemRefused(item) ==
  CASE item.key \notin FieldOverrideKeys -> "unknown_key"
    [] item.key = "decimal"   -> DecimalRefused(item.args)
    [] item.key = "time_unit" -> IF ArgValue(item.args, "unit") \in TimeUnits
                                 THEN "none" ELSE "unknown_time_unit"
    [] item.key = "flatten"   -> FirstRefused("flatten", item.args)
    [] OTHER -> "none"

FieldAttr(item) ==
  [key   |-> item.key,
   value |-> CASE item.key = "decimal" ->
                    <<ArgValue(item.args, "precision"), ArgValue(item.args, "scale")>>
               [] item.key = "time_unit" -> <<ArgValue(item.args, "unit")>>
               [] item.key = "flatten" /\ item.args # <<>> -> <<ArgValue(item.args, "prefix")>>
               [] OTHER -> <<>>]

-----------------------------------------------------------------------------
(* What the derive says of two attributes of one field, existing first.    *)

DuplicateMessage(existing, incoming) ==
  IF existing.key \in {"decimal", "time_unit"} /\ existing.value # incoming.value
  THEN "different_values" ELSE "duplicate"

ConflictMessageInOrder(existing, incoming) ==
  LET pair == {existing.key, incoming.key}
      text == {"as_str", "as_string"}
  IN CASE pair = text -> "as_str_and_as_string"
       [] existing.key = "decimal" /\ incoming.key \in text -> "decimal_and_text"
       [] pair \in {{"time_unit", t} : t \in text} -> "time_unit_and_text"
       [] pair = {"decimal", "time_unit"} -> "decimal_and_time_unit"
       [] "skip" \in pair -> "skip_and_any"
       [] "flatten" \in pair /\ "skip" \notin pair -> "flatten_and_any"
       [] "as_binary" \in pair /\ pair \cap {"skip", "flatten"} = {} -> "as_binary_and_override"
       [] OTHER -> "incompatible"

(* The arms of the match, in order; a pair of keys stands for both orders. *)
ConflictMessage(existing, incoming) ==
  LET pair == {existing.key, incoming.key}
      text == {"as_str", "as_string"}
  IN CASE pair = text -> "as_str_and_as_string"
       [] pair \in {{"decimal", t} : t \in text} -> "decimal_and_text"
       [] pair \in {{"time_unit", t} : t \in text} -> "time_unit_and_text"
       [] pair = {"decimal", "time_unit"} -> "decimal_and_time_unit"
       [] "skip" \in pair -> "skip_and_any"
       [] "flatten" \in pair /\ "skip" \notin pair -> "flatten_and_any"
       [] "as_binary" \in pair /\ pair \cap {"skip", "flatten"} = {} -> "as_binary_and_override"
       [] OTHER -> "incompatible"

(* The attributes a message speaks of.                                     *)
Explains(message) ==
  CASE message = "as_str_and_as_string"  -> {"as_str", "as_string"}
    [] message = "decimal_and_text"      -> {"decimal", "as_str", "as_string"}
    [] message = "time_unit_and_text"    -> {"time_unit", "as_str", "as_string"}
    [] message = "decimal_and_time_unit" -> {"decimal", "time_unit"}
    [] message \in {"skip_and_any", "flatten_and_any"} -> FieldOverrideKeys
    [] message = "as_binary_and_override" ->
         {"as_binary", "as_str", "as_string", "decimal", "time_unit"}
    [] OTHER -> {}

(* Why a field that has one attribute refuses the next, "none" if it takes *)
(* it.                                                                     *)
SetOverrideRefused(existing, incoming) ==
  CASE existing = NoAttr -> "none"
    [] existing # NoAttr /\ existing.key = incoming.key ->
         DuplicateMessage(existing, incoming)
    [] OTHER -> ConflictMessage(existing, incoming)
=============================================================================
