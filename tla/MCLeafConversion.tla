-------------------------- MODULE MCLeafConversion --------------------------
(***************************************************************************)
(* Instances of LeafConversion: every value of a narrow decimal, duration, *)
(* instant and time of day, alone, and pairs of them near zero and near    *)
(* the limits.                                                             *)
(***************************************************************************)
EXTENDS LeafConversion

SrcMax == 127
SrcMaxScale == 2

Decimal(p, s)     == [kind |-> "Decimal", precision |-> p, scale |-> s]
Timed(kind, unit) == [kind |-> kind, unit |-> unit]
Units             == {"ns", "us", "ms"}

AnyDecimal == [mantissa : -SrcMax .. SrcMax, scale : 0 .. SrcMaxScale]
Times(secs) == [secs : secs, nanos : 0 .. Second - 1]
Leaps(secs) == [secs : secs, nanos : 0 .. 2 * Second - 1]

(* What a chrono duration or instant cannot be more than.                  *)
SomeDurations == {t \in Times(-64 .. 63) : Abs(NanosOf(t)) <= WordMax * Per("ms")}
SomeInstants  == {t \in Leaps(-32 .. 31) : Abs(NanosOf(t)) <= WordMax * Per("us")}

ValuesOf(c) ==
  CASE c.kind = "Decimal" -> AnyDecimal
    [] c.kind = "StdDuration"    -> Times(0 .. 70)
    [] c.kind = "ChronoDuration" -> SomeDurations
    [] c.kind = "DateTime"       -> SomeInstants
    [] c.kind = "NaiveTime" -> Leaps(0 .. 2)
    [] c.kind = "NaiveDate" -> [day : 0 .. 9]

SomeOf(c) ==
  CASE c.kind = "Decimal" ->
         [mantissa : (-26 .. 26) \union {-SrcMax, SrcMax}, scale : 0 .. SrcMaxScale]
    [] c.kind = "StdDuration"    -> Times(0 .. 3)
    [] c.kind = "ChronoDuration" -> Times(-2 .. 2)
    [] c.kind = "DateTime"       -> Leaps(-2 .. 2)
    [] c.kind \in {"NaiveTime", "NaiveDate"} -> ValuesOf(c)

MCColumns ==
  {Decimal(p, s) : p \in 1 .. MaxScale, s \in 0 .. MaxScale}
    \union {Timed(k, u) : k \in {"StdDuration", "ChronoDuration", "DateTime"}, u \in Units}
    \union {Timed("NaiveTime", "ns"), Timed("NaiveDate", "ns")}
Paired(c) == c.kind = "Decimal" => c \in {Decimal(2, 0), Decimal(2, 1)}

MCRowsOf(c) ==
  {<<v>> : v \in ValuesOf(c)}
    \union IF Paired(c) THEN {<<v, w>> : v \in SomeOf(c), w \in SomeOf(c)} ELSE {}
=============================================================================
