--------------------------- MODULE LeafConversion ---------------------------
(***************************************************************************)
(* The numbers that a column gets for decimals, durations, times and       *)
(* instants: row by row, until one of them cannot be represented, which    *)
(* refuses the whole column.                                               *)
(*                                                                         *)
(* A conversion that may fail gives the set of its results: the number, or *)
(* nothing.  The number base, the widths of integers and the units of time *)
(* are parameters: 10, 2^127 - 1 for IntMax, 2^63 - 1 for WordMax, 38 for  *)
(* MaxScale and 1000 for Kilo in the program.                              *)
(***************************************************************************)
EXTENDS Integers, Sequences

CONSTANTS
  Base,       (* Of decimals.                                              *)
  MaxScale,   (* The scale and the precision of a decimal column at most.  *)
  IntMax,     (* The greatest mantissa.                                    *)
  WordMax,    (* The greatest duration or instant of a column.             *)
  Kilo,       (* Nanoseconds in a microsecond, and so on to seconds.       *)
  EpochDay,   (* The day number of 1970-01-01.                             *)
  Columns,    (* The columns encoded.                                      *)
  RowsOf(_)   (* The rows of a column.                                     *)

Decimals == [mantissa : Int, scale : 0 .. MaxScale]
DecimalColumns == {[kind |-> "Decimal", precision |-> p, scale |-> s] :
                     p \in 1 .. MaxScale, s \in 0 .. MaxScale}

(* Seconds, and nanoseconds within the second: twice as many as there are  *)
(* in an instant or a time of day that is in a leap second.                *)
Second      == Kilo * Kilo * Kilo
Durations   == [secs : Int, nanos : 0 .. Second - 1]
Moments     == [secs : Int, nanos : 0 .. 2 * Second - 1]
Dates       == [day : Int]
TimeColumns == [kind : {"StdDuration", "ChronoDuration", "DateTime", "NaiveTime", "NaiveDate"},
                unit : {"ns", "us", "ms"}]

ValuesIn(c) ==
  CASE c.kind = "Decimal" -> Decimals
    [] c.kind \in {"StdDuration", "ChronoDuration"} -> Durations
    [] c.kind \in {"DateTime", "NaiveTime"} -> Moments
    [] c.kind = "NaiveDate" -> Dates

ASSUME BaseAssumption == Base \in Nat /\ Base > 1 /\ Base % 2 = 0
ASSUME ScaleAssumption == MaxScale \in Nat /\ IntMax \in Nat
(* What `^` is; and 10^38 < 2^127: a power of the base never overflows by  *)
(* itself.                                                                 *)
ASSUME PowerAssumption ==
  /\ Base ^ 0 = 1 /\ \A n \in 0 .. MaxScale : Base ^ (n + 1) = Base * Base ^ n
  /\ Base ^ MaxScale <= IntMax
ASSUME TimeAssumption == Kilo \in Nat \ {0} /\ WordMax \in Nat /\ EpochDay \in Int
ASSUME RowAssumption == \A c \in Columns :
  c \in DecimalColumns \union TimeColumns /\ \A rs \in RowsOf(c) : rs \in Seq(ValuesIn(c))

VARIABLES
  column,     (* What the column holds.                                    *)
  rows,       (* Its rows.                                                 *)
  cells,      (* The numbers of the rows so far.                           *)
  outcome     (* Whether the column is still encoded, or how it ended.     *)

vars == <<column, rows, cells, outcome>>

Abs(n) == IF n < 0 THEN -n ELSE n
Within(n, max) == {m \in {n} : -max - 1 <= m /\ m <= max}

-----------------------------------------------------------------------------
(* Decimals.                                                               *)

RoundHalfUp(mantissa, pow) ==
  LET rounded == (Abs(mantissa) + pow \div 2) \div pow
  IN IF mantissa < 0 THEN -rounded ELSE rounded

RoundHalfEven(mantissa, pow) ==
  LET q == Abs(mantissa) \div pow
      r == Abs(mantissa) % pow
      half == pow \div 2
      rounded == CASE r > half -> q + 1 [] r < half -> q [] r = half -> q + (q % 2)
  IN IF mantissa < 0 THEN -rounded ELSE rounded

TryToMantissa(d, target) ==
  CASE target > MaxScale -> {}
    [] target <= MaxScale /\ d.scale = target -> {d.mantissa}
    [] target <= MaxScale /\ d.scale < target ->
         Within(d.mantissa * Base ^ (target - d.scale), IntMax)
    [] target <= MaxScale /\ d.scale > target ->
         {RoundHalfEven(d.mantissa, Base ^ (d.scale - target))}

DecimalCellCut(d) ==
  {m \in TryToMantissa(d, column.scale) : Abs(m) < Base ^ (column.precision - 1)}

DecimalCell(d) ==
  {m \in TryToMantissa(d, column.scale) : Abs(m) < Base ^ column.precision}

-----------------------------------------------------------------------------
(* Times.                                                                  *)

Per(unit) == CASE unit = "ns" -> 1 [] unit = "us" -> Kilo [] unit = "ms" -> Kilo * Kilo

NanosWithinSecond(t) == t.secs * Second + (t.nanos % Second)

NanosOf(t) == t.secs * Second + t.nanos
TowardZero(n, per) == IF n < 0 THEN -(Abs(n) \div per) ELSE n \div per

(* Milliseconds of a chrono duration, and all but the nanoseconds of an    *)
(* instant, are in range whatever the value.                               *)
TimeCell(t) ==
  CASE column.kind = "StdDuration" -> Within(NanosOf(t) \div Per(column.unit), WordMax)
    [] column.kind = "ChronoDuration" ->
         LET n == TowardZero(NanosOf(t), Per(column.unit))
         IN IF column.unit = "ms" THEN {n} ELSE Within(n, WordMax)
    [] column.kind = "DateTime" ->
         LET n == NanosOf(t) \div Per(column.unit)
         IN IF column.unit = "ns" THEN Within(n, WordMax) ELSE {n}
    [] column.kind = "NaiveTime" -> {NanosOf(t)}
    [] column.kind = "NaiveDate" -> {t.day - EpochDay}

Converted(v) == IF column.kind = "Decimal" THEN DecimalCell(v) ELSE TimeCell(v)

-----------------------------------------------------------------------------
Encoding == outcome = "encoding"
MoreRows == Len(cells) < Len(rows)
Row      == rows[Len(cells) + 1]

EncodeRow ==
  /\ Encoding /\ MoreRows
  /\ \E cell \in Converted(Row) : cells' = Append(cells, cell)
  /\ UNCHANGED <<column, rows, outcome>>

RefuseRow ==
  /\ Encoding /\ MoreRows
  /\ Converted(Row) = {}
  /\ outcome' = "refused"
  /\ UNCHANGED <<column, rows, cells>>

FinishColumn ==
  /\ Encoding /\ ~MoreRows
  /\ outcome' = "finished"
  /\ UNCHANGED <<column, rows, cells>>

Init ==
  /\ column \in Columns /\ rows \in RowsOf(column)
  /\ cells = <<>>
  /\ outcome = "encoding"
Next == EncodeRow \/ RefuseRow \/ FinishColumn
Spec == Init /\ [][Next]_vars

-----------------------------------------------------------------------------
(* A mantissa that stands for the value of a decimal at the column's       *)
(* scale: the value itself where the scale has room for it, and else the   *)
(* nearest, the even one of two that are equally near.                     *)
Nearest(d, m) ==
  IF d.scale <= column.scale THEN m = d.mantissa * Base ^ (column.scale - d.scale)
  ELSE LET pow  == Base ^ (d.scale - column.scale)
           away == 2 * Abs(d.mantissa - m * pow)
       IN away < pow \/ (away = pow /\ m % 2 = 0)

Allowed(m) == Abs(m) < Base ^ column.precision

(* Every decimal of a column is the nearest to its row's value, ties go to *)
(* the even one, and it has no more digits than the column declares.       *)
DecimalsNearest ==
  column.kind = "Decimal" =>
    \A i \in DOMAIN cells : Nearest(rows[i], cells[i]) /\ Allowed(cells[i])

(* A column is refused only if its nearest mantissa has too many digits,   *)
(* or the duration or instant does not fit: a multiplication that          *)
(* overflows, or a value rounded up to one digit more, says no more and no *)
(* less than that.                                                         *)
RefusedRightly ==
  outcome = "refused" =>
    IF column.kind = "Decimal"
    THEN \A m \in 1 - Base ^ column.precision .. Base ^ column.precision - 1 : ~Nearest(Row, m)
    ELSE Abs(NanosOf(Row)) > WordMax * Per(column.unit)

(* When a time is: one in a leap second, whose nanoseconds make more than  *)
(* a second, is as late as one in the second after it.                     *)
Carried(t) ==
  IF t.nanos < Second THEN t ELSE [secs |-> t.secs + 1, nanos |-> t.nanos - Second]
NoLater(t, u) == t.secs < u.secs \/ (t.secs = u.secs /\ t.nanos <= u.nanos)

(* Rows and their cells are in the same order: rounding and truncating,    *)
(* below zero as above it, never change places, and a leap second is never *)
(* put before a time it is after, nor after one of the second that follows *)
(* which is later still.                                                   *)
AtMost(v, w) ==
  CASE column.kind = "Decimal"   -> v.mantissa * Base ^ w.scale <= w.mantissa * Base ^ v.scale
    [] column.kind = "NaiveDate" -> v.day <= w.day
    [] OTHER -> NoLater(Carried(v), Carried(w))
CellsOrdered ==
  \A i, j \in DOMAIN cells : AtMost(rows[i], rows[j]) => cells[i] <= cells[j]
=============================================================================
