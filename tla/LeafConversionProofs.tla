------------------------ MODULE LeafConversionProofs ------------------------
(***************************************************************************)
(* The numbers of a column, for every precision, scale and unit, and every *)
(* row: decimals are nearest to the rows, ties to even, and within the     *)
(* precision; a column is refused only for what cannot be represented; and *)
(* cells are in the order of their rows.                                   *)
(***************************************************************************)
EXTENDS LeafConversion, WellFoundedInduction, NaturalsInduction, TLAPS

-----------------------------------------------------------------------------
(* Powers: what follows of them from what `^` is.                          *)

LEMMA LessWellFounded == IsWellFoundedOn({ss \in Nat \X Nat : ss[1] < ss[2]}, Nat)
BY NatLessThanWellFounded DEF OpToRel

LEMMA SetInduction ==
  ASSUME NEW S, 0 \in S, \A n \in Nat : n \in S => n + 1 \in S
  PROVE  Nat \subseteq S
<1> DEFINE T == Nat \ S
<1> SUFFICES ASSUME T # {} PROVE FALSE
  OBVIOUS
<1>1. T \subseteq Nat
  OBVIOUS
<1>2. PICK x \in T : \A y \in T : ~(<<y, x>> \in {ss \in Nat \X Nat : ss[1] < ss[2]})
  <2> HIDE DEF T
  <2> QED BY <1>1, LessWellFounded, WFMin
<1>3. x \in Nat /\ x # 0 /\ x - 1 \in Nat /\ (x - 1) + 1 = x /\ x - 1 < x
  OBVIOUS
<1>4. x - 1 \in T
  BY <1>3
<1> QED BY <1>2, <1>3, <1>4

LEMMA PowerType ==
  ASSUME NEW n \in 0 .. MaxScale
  PROVE  Base ^ n \in Nat \ {0} /\ (n > 0 => Base ^ n % 2 = 0)
<1> DEFINE S == {k \in Nat : k <= MaxScale => Base ^ k \in Nat \ {0} /\ (k > 0 => Base ^ k % 2 = 0)}
<1>1. 0 \in S
  BY PowerAssumption
<1>2. ASSUME NEW k \in Nat, k \in S PROVE k + 1 \in S
  <2> SUFFICES ASSUME k + 1 <= MaxScale
               PROVE  Base ^ (k + 1) \in Nat \ {0} /\ Base ^ (k + 1) % 2 = 0
    OBVIOUS
  <2>1. k \in 0 .. MaxScale
    BY ScaleAssumption
  <2>2. PICK p : p = Base ^ k
    OBVIOUS
  <2>3. p \in Nat \ {0}
    BY <1>2, <2>1, <2>2
  <2>4. Base ^ (k + 1) = Base * p
    BY <2>1, <2>2, PowerAssumption
  <2>5. PICK h \in Nat : Base = 2 * h /\ h > 0
    <3>1. Base = 2 * (Base \div 2) /\ Base \div 2 \in Nat /\ Base \div 2 > 0
      BY BaseAssumption
    <3> QED BY <3>1
  <2>6. h * p \in Nat /\ h * p > 0 /\ Base * p = 2 * (h * p)
    BY <2>3, <2>5
  <2>7. \A x \in Nat : (2 * x) % 2 = 0
    OBVIOUS
  <2> QED BY <2>4, <2>6, <2>7
<1>3. n \in S
  <2> HIDE DEF S
  <2> QED BY <1>1, <1>2, SetInduction
<1> QED BY <1>3

LEMMA PowerAdds ==
  ASSUME NEW a \in Nat, NEW b \in Nat, a + b <= MaxScale
  PROVE  Base ^ (a + b) = Base ^ a * Base ^ b
<1> DEFINE S == {k \in Nat : k + b <= MaxScale => Base ^ (k + b) = Base ^ k * Base ^ b}
<1>0. Base \in Nat /\ MaxScale \in Nat
  BY BaseAssumption, ScaleAssumption
<1>1. 0 \in S
  <2> SUFFICES ASSUME 0 + b <= MaxScale PROVE Base ^ (0 + b) = Base ^ 0 * Base ^ b
    OBVIOUS
  <2>1. b \in 0 .. MaxScale /\ 0 + b = b
    BY <1>0
  <2>2. Base ^ b \in Nat /\ Base ^ 0 = 1
    BY <2>1, PowerType, PowerAssumption
  <2> QED BY <2>1, <2>2
<1>2. ASSUME NEW k \in Nat, k \in S PROVE k + 1 \in S
  <2> SUFFICES ASSUME (k + 1) + b <= MaxScale PROVE Base ^ ((k + 1) + b) = Base ^ (k + 1) * Base ^ b
    OBVIOUS
  <2>1. /\ k \in 0 .. MaxScale /\ b \in 0 .. MaxScale /\ k + b \in 0 .. MaxScale
        /\ (k + 1) + b = (k + b) + 1
    BY <1>0
  <2>2. PICK p : p = Base ^ k
    OBVIOUS
  <2>3. PICK q : q = Base ^ b
    OBVIOUS
  <2>4. p \in Nat /\ q \in Nat
    BY <2>1, <2>2, <2>3, PowerType
  <2>5. Base ^ (k + b) = p * q
    BY <1>2, <2>1, <2>2, <2>3
  <2>6. Base ^ (k + 1) = Base * p /\ Base ^ ((k + 1) + b) = Base * (p * q)
    BY <2>1, <2>2, <2>5, PowerAssumption
  <2>7. Base * (p * q) = (Base * p) * q
    BY <1>0, <2>4
  <2> QED BY <2>3, <2>6, <2>7
<1>3. a \in S
  <2> HIDE DEF S
  <2> QED BY <1>1, <1>2, SetInduction
<1> QED BY <1>3

LEMMA PowerBounded ==
  ASSUME NEW n \in 0 .. MaxScale
  PROVE  Base ^ n <= IntMax
<1>1. PICK k : k = MaxScale - n
  OBVIOUS
<1>2. MaxScale \in Nat /\ IntMax \in Nat /\ k \in 0 .. MaxScale /\ n + k = MaxScale
  BY <1>1, ScaleAssumption
<1>3. PICK p : p = Base ^ n
  OBVIOUS
<1>4. PICK q : q = Base ^ k
  OBVIOUS
<1>5. p \in Nat /\ q \in Nat \ {0} /\ Base ^ MaxScale = p * q
  <2>1. Base ^ (n + k) = p * q
    <3>1. n \in Nat /\ k \in Nat /\ n + k <= MaxScale
      BY <1>2
    <3> QED BY <3>1, <1>3, <1>4, PowerAdds
  <2> QED BY <1>2, <1>3, <1>4, <2>1, PowerType
<1>6. p <= p * q
  BY <1>5
<1>7. p * q \in Nat /\ p * q <= IntMax
  BY <1>5, PowerAssumption
<1> QED BY <1>2, <1>3, <1>5, <1>6, <1>7

-----------------------------------------------------------------------------
(* Rounding.                                                               *)

(* What division leaves over, and that it keeps order.                     *)
LEMMA Division ==
  ASSUME NEW a \in Int, NEW pow \in Nat \ {0}
  PROVE  /\ a \div pow \in Int /\ (a >= 0 => a \div pow >= 0)
         /\ a % pow \in Int /\ a % pow >= 0 /\ a % pow < pow
         /\ a = pow * (a \div pow) + (a % pow)
OBVIOUS

LEMMA Parity == ASSUME NEW n \in Nat PROVE n % 2 = 0 \/ n % 2 = 1
OBVIOUS

LEMMA AbsType ==
  ASSUME NEW n \in Int
  PROVE  /\ Abs(n) \in Nat /\ Abs(-n) = Abs(n)
         /\ n >= 0 => Abs(n) = n
         /\ n <= 0 => Abs(n) = -n
BY DEF Abs

(* The magnitude that rounding half to even gives is the nearest one.      *)
LEMMA RoundedNearest ==
  ASSUME NEW a \in Nat, NEW half \in Nat \ {0}, NEW pow, pow = 2 * half,
         NEW q \in Nat, NEW r \in 0 .. pow - 1, NEW qpow \in Nat, qpow = q * pow, a = qpow + r,
         NEW rounded, rounded = CASE r > half -> q + 1 [] r < half -> q [] r = half -> q + (q % 2)
  PROVE  /\ rounded \in Nat
         /\ 2 * Abs(a - rounded * pow) < pow
              \/ (2 * Abs(a - rounded * pow) = pow /\ rounded % 2 = 0)
<1>1. CASE r < half
  <2>1. rounded = q /\ a - rounded * pow = r
    BY <1>1
  <2> QED BY <1>1, <2>1 DEF Abs
<1>2. CASE r > half
  <2>1. rounded = q + 1
    BY <1>2
  <2>2. (q + 1) * pow = qpow + pow
    OBVIOUS
  <2>3. a - rounded * pow = r - pow
    BY <2>1, <2>2
  <2> QED BY <1>2, <2>1, <2>3 DEF Abs
<1>3. CASE r = half
  <2>1. rounded = q + (q % 2)
    BY <1>3
  <2>2. CASE q % 2 = 0
    <3>1. rounded = q /\ a - rounded * pow = r
      BY <2>1, <2>2
    <3> QED BY <1>3, <2>2, <3>1 DEF Abs
  <2>3. CASE q % 2 = 1
    <3>1. rounded = q + 1 /\ rounded % 2 = 0
      BY <2>1, <2>3
    <3>2. (q + 1) * pow = qpow + pow
      OBVIOUS
    <3>3. a - rounded * pow = r - pow
      BY <3>1, <3>2
    <3> QED BY <1>3, <3>1, <3>3 DEF Abs
  <2>4. q % 2 = 0 \/ q % 2 = 1
    BY Parity
  <2> QED BY <2>2, <2>3, <2>4
<1> QED BY <1>1, <1>2, <1>3

LEMMA RoundHalfEvenNearest ==
  ASSUME NEW m \in Int, NEW pow \in Nat \ {0}, pow % 2 = 0
  PROVE  LET n    == RoundHalfEven(m, pow)
             away == 2 * Abs(m - n * pow)
         IN n \in Int /\ (away < pow \/ (away = pow /\ n % 2 = 0))
<1> DEFINE a       == Abs(m)
           q       == a \div pow
           r       == a % pow
           half    == pow \div 2
           rounded == CASE r > half -> q + 1 [] r < half -> q [] r = half -> q + (q % 2)
           n       == RoundHalfEven(m, pow)
<1>1. a \in Nat
  BY AbsType
<1>2. q \in Nat /\ r \in 0 .. pow - 1 /\ a = pow * q + r
  <2>1. /\ q \in Int /\ q >= 0
        /\ r \in Int /\ r >= 0 /\ r < pow
        /\ a = pow * q + r
    <3> HIDE DEF a
    <3>1. a \in Int /\ a >= 0 /\ pow \in Nat \ {0}
      BY <1>1
    <3> QED BY <3>1, Division
  <2> HIDE DEF q, r, a
  <2> QED BY <2>1
<1>3. half \in Nat \ {0} /\ pow = 2 * half
  OBVIOUS
<1>4. q * pow \in Nat /\ a = q * pow + r
  BY <1>2
<1>5. n = IF m < 0 THEN -rounded ELSE rounded
  BY DEF RoundHalfEven
<1>9. rounded = CASE r > half -> q + 1 [] r < half -> q [] r = half -> q + (q % 2)
  OBVIOUS
<1> DEFINE qpow == q * pow
<1>10. qpow = q * pow /\ qpow \in Nat /\ a = qpow + r
  BY <1>4
<1> HIDE DEF a, q, r, half, n, rounded, qpow
<1>6. /\ rounded \in Nat
      /\ 2 * Abs(a - rounded * pow) < pow
           \/ (2 * Abs(a - rounded * pow) = pow /\ rounded % 2 = 0)
  BY <1>1, <1>2, <1>3, <1>9, <1>10, RoundedNearest
<1>7. CASE m >= 0
  <2>1. a = m /\ n = rounded
    BY <1>5, <1>7, AbsType DEF n, a
  <2> QED BY <1>6, <2>1 DEF n
<1>8. CASE m < 0
  <2>1. a = -m /\ n = -rounded
    BY <1>5, <1>8, AbsType DEF n, a
  <2>2. rounded * pow \in Int /\ n * pow = -(rounded * pow)
    BY <1>6, <2>1
  <2>3. m - n * pow = -(a - rounded * pow)
    BY <2>1, <2>2
  <2>4. Abs(m - n * pow) = Abs(a - rounded * pow)
    BY <1>1, <2>2, <2>3, AbsType
  <2>5. n % 2 = 0 <=> rounded % 2 = 0
    BY <1>6, <2>1
  <2> QED BY <1>6, <2>1, <2>4, <2>5 DEF n
<1> QED BY <1>7, <1>8

-----------------------------------------------------------------------------
(* The nearest integer to a fraction, the even one of two.                 *)

NearestTo(n, a, p) ==
  2 * Abs(a - n * p) < p \/ (2 * Abs(a - n * p) = p /\ n % 2 = 0)

LEMMA Consecutive == ASSUME NEW n \in Int, n % 2 = 0 PROVE (n + 1) % 2 # 0
OBVIOUS

LEMMA Products ==
  ASSUME NEW x \in Int, NEW y \in Int, NEW k \in Nat
  PROVE  /\ x * k \in Int /\ (x <= y => x * k <= y * k)
         /\ (x < y /\ k > 0 => x * k < y * k)
OBVIOUS

LEMMA Cancelled ==
  ASSUME NEW x \in Int, NEW y \in Int, NEW k \in Nat \ {0}, x * k <= y * k
  PROVE  x <= y
<1> SUFFICES ASSUME y < x PROVE FALSE
  OBVIOUS
<1>1. y * k < x * k
  BY Products
<1>2. x * k \in Int /\ y * k \in Int
  OBVIOUS
<1> QED BY <1>1, <1>2

(* Of two fractions the nearest to the smaller is not the greater: halves  *)
(* that meet go to the same even integer.                                  *)
LEMMA NearestOrdered ==
  ASSUME NEW a \in Int, NEW p \in Nat \ {0}, NEW n \in Int, NearestTo(n, a, p),
         NEW c \in Int, NEW q \in Nat \ {0}, NEW m \in Int, NearestTo(m, c, q),
         a * q <= c * p
  PROVE  n <= m
<1> SUFFICES ASSUME n > m PROVE FALSE
  OBVIOUS
<1> PICK np : np = n * p
  OBVIOUS
<1> PICK mq : mq = m * q
  OBVIOUS
<1>1. np \in Int /\ mq \in Int
  OBVIOUS
<1>2. 2 * a >= 2 * np - p /\ (2 * a = 2 * np - p => n % 2 = 0)
  BY <1>1 DEF NearestTo, Abs
<1>3. 2 * c <= 2 * mq + q /\ (2 * c = 2 * mq + q => m % 2 = 0)
  BY <1>1 DEF NearestTo, Abs
<1> PICK pq : pq = p * q
  OBVIOUS
<1> PICK npq : npq = n * pq
  OBVIOUS
<1> PICK mpq : mpq = m * pq
  OBVIOUS
<1>4. pq \in Nat /\ pq > 0 /\ npq \in Int /\ mpq \in Int
  <2>1. pq \in Nat /\ pq > 0
    OBVIOUS
  <2> QED BY <2>1
<1>5. np * q = npq /\ mq * p = mpq
  OBVIOUS
<1> PICK aq : aq = a * q
  OBVIOUS
<1> PICK cp : cp = c * p
  OBVIOUS
<1>6. aq \in Int /\ cp \in Int /\ aq <= cp
  OBVIOUS
<1>7. /\ 2 * aq >= 2 * npq - pq
      /\ (2 * a > 2 * np - p => 2 * aq > 2 * npq - pq)
  <2>1. (2 * np - p) * q = 2 * npq - pq /\ (2 * a) * q = 2 * aq
    <3>1. (2 * np - p) * q = 2 * (np * q) - p * q /\ (2 * a) * q = 2 * (a * q)
      BY <1>1
    <3> QED BY <3>1, <1>5
  <2> PICK x : x = 2 * np - p
    OBVIOUS
  <2> PICK y : y = 2 * a
    OBVIOUS
  <2>2. x \in Int /\ y \in Int /\ q \in Nat /\ q > 0
    BY <1>1
  <2>3. /\ (x <= y => x * q <= y * q)
        /\ (x < y /\ q > 0 => x * q < y * q)
    BY <2>2, Products
  <2> QED BY <1>2, <1>4, <1>6, <2>1, <2>2, <2>3
<1>8. /\ 2 * cp <= 2 * mpq + pq
      /\ (2 * c < 2 * mq + q => 2 * cp < 2 * mpq + pq)
  <2>1. (2 * mq + q) * p = 2 * mpq + pq /\ (2 * c) * p = 2 * cp
    <3>1. (2 * mq + q) * p = 2 * (mq * p) + p * q /\ (2 * c) * p = 2 * (c * p)
      BY <1>1
    <3> QED BY <3>1, <1>5
  <2> PICK x : x = 2 * c
    OBVIOUS
  <2> PICK y : y = 2 * mq + q
    OBVIOUS
  <2>2. x \in Int /\ y \in Int /\ p \in Nat /\ p > 0
    BY <1>1
  <2>3. /\ (x <= y => x * p <= y * p)
        /\ (x < y /\ p > 0 => x * p < y * p)
    BY <2>2, Products
  <2> QED BY <1>3, <1>4, <1>6, <2>1, <2>2, <2>3
<1>9. npq >= mpq + pq
  <2>1. (m + 1) * pq = mpq + pq
    BY <1>4
  <2>2. m + 1 \in Int /\ m + 1 <= n
    OBVIOUS
  <2> PICK k : k = m + 1
    OBVIOUS
  <2>3. k * pq <= n * pq
    BY <2>2, <1>4, Products
  <2> QED BY <2>1, <2>3
<1>10. npq = mpq + pq /\ 2 * a = 2 * np - p /\ 2 * c = 2 * mq + q
  BY <1>1, <1>2, <1>3, <1>4, <1>6, <1>7, <1>8, <1>9
<1>11. n = m + 1
  <2> SUFFICES ASSUME n > m + 1 PROVE FALSE
    OBVIOUS
  <2> PICK k : k = m + 1
    OBVIOUS
  <2>1. k \in Int /\ k < n /\ k * pq = mpq + pq
    BY <1>4
  <2>2. k * pq < n * pq
    BY <2>1, <1>4, Products
  <2> QED BY <1>4, <1>10, <2>1, <2>2
<1> QED BY <1>2, <1>3, <1>10, <1>11, Consecutive

-----------------------------------------------------------------------------
(* A decimal as a fraction of the column's units.                          *)

Numerator(d)   == IF d.scale <= column.scale THEN d.mantissa * Base ^ (column.scale - d.scale)
                  ELSE d.mantissa
Denominator(d) == IF d.scale <= column.scale THEN 1 ELSE Base ^ (d.scale - column.scale)

LEMMA DecimalTypes ==
  ASSUME column \in DecimalColumns, NEW d \in Decimals
  PROVE  /\ MaxScale \in Nat /\ column.kind = "Decimal"
         /\ column.scale \in 0 .. MaxScale /\ column.precision \in 1 .. MaxScale
         /\ d.scale \in 0 .. MaxScale /\ d.mantissa \in Int
         /\ (d.scale <= column.scale => column.scale - d.scale \in 0 .. MaxScale)
         /\ (d.scale > column.scale =>
               d.scale - column.scale \in 0 .. MaxScale /\ d.scale - column.scale > 0)
<1>1. /\ MaxScale \in Nat /\ column.kind = "Decimal"
      /\ column.scale \in 0 .. MaxScale /\ column.precision \in 1 .. MaxScale
      /\ d.scale \in 0 .. MaxScale /\ d.mantissa \in Int
  BY ScaleAssumption DEF DecimalColumns, Decimals
<1> QED BY <1>1

LEMMA FractionType ==
  ASSUME column \in DecimalColumns, NEW d \in Decimals
  PROVE  Numerator(d) \in Int /\ Denominator(d) \in Nat \ {0}
<1>1. CASE d.scale <= column.scale
  <2>1. PICK pow : pow = Base ^ (column.scale - d.scale)
    OBVIOUS
  <2>2. pow \in Nat
    BY <1>1, <2>1, DecimalTypes, PowerType
  <2>3. d.mantissa \in Int
    BY DecimalTypes
  <2> QED BY <1>1, <2>1, <2>2, <2>3 DEF Numerator, Denominator
<1>2. CASE ~(d.scale <= column.scale)
  <2>1. d.scale > column.scale /\ d.mantissa \in Int
    BY <1>2, DecimalTypes
  <2>2. Base ^ (d.scale - column.scale) \in Nat \ {0}
    BY <2>1, DecimalTypes, PowerType
  <2> QED BY <1>2, <2>1, <2>2 DEF Numerator, Denominator
<1> QED BY <1>1, <1>2

(* The fraction is the value: mantissa / Base ^ scale, Base ^ column.scale *)
(* times.                                                                  *)
LEMMA FractionValue ==
  ASSUME column \in DecimalColumns, NEW d \in Decimals
  PROVE  Numerator(d) * Base ^ d.scale = (d.mantissa * Base ^ column.scale) * Denominator(d)
<1>0. /\ d.mantissa \in Int /\ d.scale \in Nat /\ column.scale \in Nat
      /\ d.scale \in 0 .. MaxScale /\ column.scale \in 0 .. MaxScale /\ MaxScale \in Nat
  BY DecimalTypes
<1>1. PICK m : m = d.mantissa
  OBVIOUS
<1>2. PICK s : s = d.scale
  OBVIOUS
<1>3. PICK t : t = column.scale
  OBVIOUS
<1>4. PICK bs : bs = Base ^ s
  OBVIOUS
<1>5. PICK bt : bt = Base ^ t
  OBVIOUS
<1>6. bs \in Nat /\ bt \in Nat
  BY <1>0, <1>2, <1>3, <1>4, <1>5, PowerType
<1>7. CASE s <= t
  <2>1. PICK k : k = t - s
    OBVIOUS
  <2>2. k \in Nat /\ s \in Nat /\ k + s = t /\ k + s <= MaxScale /\ k \in 0 .. MaxScale
    BY <1>0, <1>2, <1>3, <1>7, <2>1
  <2>3. PICK b : b = Base ^ k
    OBVIOUS
  <2>4. b \in Nat
    BY <2>2, <2>3, PowerType
  <2>5. Base ^ (k + s) = b * bs
    BY <2>2, <2>3, <1>4, PowerAdds
  <2>6. bt = b * bs
    BY <2>2, <2>5, <1>5
  <2>7. Numerator(d) = m * b /\ Denominator(d) = 1
    BY <1>1, <1>2, <1>3, <1>7, <2>1, <2>3 DEF Numerator, Denominator
  <2>8. (m * b) * bs = (m * (b * bs)) * 1
    BY <1>0, <1>1, <1>6, <2>4
  <2> QED BY <1>1, <1>2, <1>3, <1>4, <1>5, <2>6, <2>7, <2>8
<1>8. CASE ~(s <= t)
  <2>1. PICK k : k = s - t
    OBVIOUS
  <2>2. k \in Nat /\ t \in Nat /\ k + t = s /\ k + t <= MaxScale /\ k \in 0 .. MaxScale
    BY <1>0, <1>2, <1>3, <1>8, <2>1
  <2>3. PICK b : b = Base ^ k
    OBVIOUS
  <2>4. b \in Nat
    BY <2>2, <2>3, PowerType
  <2>5. Base ^ (k + t) = b * bt
    BY <2>2, <2>3, <1>5, PowerAdds
  <2>6. bs = b * bt
    BY <2>2, <2>5, <1>4
  <2>7. Numerator(d) = m /\ Denominator(d) = b
    BY <1>1, <1>2, <1>3, <1>8, <2>1, <2>3 DEF Numerator, Denominator
  <2>8. m * (b * bt) = (m * bt) * b
    BY <1>0, <1>1, <1>6, <2>4
  <2> QED BY <1>1, <1>2, <1>3, <1>4, <1>5, <2>6, <2>7, <2>8
<1> QED BY <1>7, <1>8

LEMMA NearestFraction ==
  ASSUME column \in DecimalColumns, NEW d \in Decimals, NEW m \in Int
  PROVE  Nearest(d, m) <=> NearestTo(m, Numerator(d), Denominator(d))
<1>1. CASE d.scale <= column.scale
  <2>1. PICK a : a = Numerator(d)
    OBVIOUS
  <2>2. a \in Int /\ a = d.mantissa * Base ^ (column.scale - d.scale) /\ Denominator(d) = 1
    BY <1>1, <2>1, FractionType DEF Numerator, Denominator
  <2>3. NearestTo(m, a, 1) <=> m = a
    BY <2>2 DEF NearestTo, Abs
  <2> QED BY <1>1, <2>1, <2>2, <2>3 DEF Nearest
<1>2. CASE ~(d.scale <= column.scale)
  BY <1>2 DEF Nearest, NearestTo, Numerator, Denominator
<1> QED BY <1>1, <1>2

(* Decimals in the order of their values are fractions in that order.      *)
LEMMA Scaled ==
  ASSUME NEW a \in Int, NEW p \in Nat, NEW x \in Nat \ {0}, NEW m \in Int,
         NEW c \in Int, NEW q \in Nat, NEW y \in Nat \ {0}, NEW n \in Int,
         NEW b \in Nat, a * x = (m * b) * p, c * y = (n * b) * q, m * y <= n * x
  PROVE  a * q <= c * p
<1>1. PICK bpq : bpq = (b * p) * q
  OBVIOUS
<1>2. bpq \in Nat
  BY <1>1
<1>3. PICK aq : aq = a * q
  OBVIOUS
<1>4. PICK cp : cp = c * p
  OBVIOUS
<1>5. PICK xy : xy = x * y
  OBVIOUS
<1>6. aq \in Int /\ cp \in Int /\ xy \in Nat \ {0}
  BY <1>3, <1>4, <1>5
<1>7. aq * xy = (m * y) * bpq
  <2>1. aq * xy = (a * x) * (q * y)
    BY <1>3, <1>5
  <2>2. ((m * b) * p) * (q * y) = (m * y) * bpq
    BY <1>1
  <2> QED BY <2>1, <2>2
<1>8. cp * xy = (n * x) * bpq
  <2>1. cp * xy = (c * y) * (p * x)
    BY <1>4, <1>5
  <2>2. ((n * b) * q) * (p * x) = (n * x) * bpq
    BY <1>1
  <2> QED BY <2>1, <2>2
<1>9. (m * y) * bpq <= (n * x) * bpq
  <2>1. PICK u : u = m * y
    OBVIOUS
  <2>2. PICK w : w = n * x
    OBVIOUS
  <2>3. u \in Int /\ w \in Int /\ u <= w
    BY <2>1, <2>2
  <2>4. u * bpq <= w * bpq
    BY <2>3, <1>2, Products
  <2> QED BY <2>1, <2>2, <2>4
<1>10. aq <= cp
  BY <1>6, <1>7, <1>8, <1>9, Cancelled
<1> QED BY <1>3, <1>4, <1>10

LEMMA FractionsOrdered ==
  ASSUME column \in DecimalColumns, NEW v \in Decimals, NEW w \in Decimals, AtMost(v, w)
  PROVE  Numerator(v) * Denominator(w) <= Numerator(w) * Denominator(v)
<1>1. /\ Numerator(v) \in Int /\ Denominator(v) \in Nat
      /\ Numerator(w) \in Int /\ Denominator(w) \in Nat
  BY FractionType
<1>2. /\ Base ^ v.scale \in Nat \ {0} /\ Base ^ w.scale \in Nat \ {0}
      /\ Base ^ column.scale \in Nat
      /\ v.mantissa \in Int /\ w.mantissa \in Int
  BY DecimalTypes, PowerType
<1>3. v.mantissa * Base ^ w.scale <= w.mantissa * Base ^ v.scale
  BY DecimalTypes DEF AtMost
<1>4. /\ Numerator(v) * Base ^ v.scale = (v.mantissa * Base ^ column.scale) * Denominator(v)
      /\ Numerator(w) * Base ^ w.scale = (w.mantissa * Base ^ column.scale) * Denominator(w)
  BY FractionValue
<1>5. PICK a, p, c, q : a = Numerator(v) /\ p = Denominator(v) /\ c = Numerator(w) /\ q = Denominator(w)
  OBVIOUS
<1>6. PICK x, y, b : x = Base ^ v.scale /\ y = Base ^ w.scale /\ b = Base ^ column.scale
  OBVIOUS
<1>7. PICK m, n : m = v.mantissa /\ n = w.mantissa
  OBVIOUS
<1>8. /\ a \in Int /\ p \in Nat /\ c \in Int /\ q \in Nat
      /\ x \in Nat \ {0} /\ y \in Nat \ {0} /\ b \in Nat /\ m \in Int /\ n \in Int
  BY <1>1, <1>2, <1>5, <1>6, <1>7
<1>9. a * x = (m * b) * p /\ c * y = (n * b) * q /\ m * y <= n * x
  BY <1>3, <1>4, <1>5, <1>6, <1>7
<1>10. a * q <= c * p
  BY <1>8, <1>9, Scaled
<1> QED BY <1>5, <1>10

-----------------------------------------------------------------------------
(* What a decimal's mantissa is for the column's scale.                    *)

LEMMA MantissaNearest ==
  ASSUME column \in DecimalColumns, NEW d \in Decimals,
         NEW m \in TryToMantissa(d, column.scale)
  PROVE  m \in Int /\ Nearest(d, m)
<1> DEFINE target == column.scale
<1>0. /\ MaxScale \in Nat /\ target \in 0 .. MaxScale /\ d.scale \in 0 .. MaxScale
      /\ d.mantissa \in Int
  BY DecimalTypes
<1>1. CASE d.scale = target
  <2>1. m = d.mantissa
    BY <1>0, <1>1 DEF TryToMantissa
  <2>2. target - d.scale = 0
    BY <1>0, <1>1
  <2>3. d.mantissa * Base ^ (target - d.scale) = d.mantissa
    BY <1>0, <2>2, PowerAssumption
  <2> QED BY <1>0, <1>1, <2>1, <2>3 DEF Nearest
<1>2. CASE d.scale < target
  <2>1. m = d.mantissa * Base ^ (target - d.scale)
    BY <1>0, <1>2 DEF TryToMantissa, Within
  <2>2. PICK pow : pow = Base ^ (target - d.scale)
    OBVIOUS
  <2>3. pow \in Nat
    BY <1>0, <1>2, <2>2, PowerType
  <2>4. m \in Int
    BY <1>0, <2>1, <2>2, <2>3
  <2> QED BY <1>0, <1>2, <2>1, <2>4 DEF Nearest
<1>3. CASE d.scale > target
  <2> DEFINE pow == Base ^ (d.scale - target)
  <2>1. m = RoundHalfEven(d.mantissa, pow)
    BY <1>0, <1>3 DEF TryToMantissa
  <2>2. pow \in Nat \ {0} /\ pow % 2 = 0
    BY <1>0, <1>3, PowerType
  <2> HIDE DEF pow
  <2>3. LET away == 2 * Abs(d.mantissa - m * pow)
        IN m \in Int /\ (away < pow \/ (away = pow /\ m % 2 = 0))
    BY <1>0, <2>1, <2>2, RoundHalfEvenNearest
  <2> QED BY <1>0, <1>3, <2>3 DEF Nearest, pow
<1> QED BY <1>0, <1>1, <1>2, <1>3

(* Only one mantissa is nearest.                                           *)
LEMMA NearestUnique ==
  ASSUME column \in DecimalColumns, NEW d \in Decimals,
         NEW m \in Int, Nearest(d, m), NEW n \in Int, Nearest(d, n)
  PROVE  m = n
<1> PICK a : a = Numerator(d)
  OBVIOUS
<1> PICK p : p = Denominator(d)
  OBVIOUS
<1>1. a \in Int /\ p \in Nat \ {0} /\ a * p <= a * p
  <2>1. a \in Int /\ p \in Nat \ {0}
    BY FractionType
  <2> PICK x : x = a * p
    OBVIOUS
  <2>2. x \in Int
    BY <2>1
  <2> QED BY <2>1, <2>2
<1>2. NearestTo(m, a, p) /\ NearestTo(n, a, p)
  BY NearestFraction
<1>3. m <= n /\ n <= m
  BY <1>1, <1>2, NearestOrdered
<1> QED BY <1>3

LEMMA DecimalsOrdered ==
  ASSUME column \in DecimalColumns, NEW v \in Decimals, NEW w \in Decimals, AtMost(v, w),
         NEW m \in DecimalCell(v), NEW n \in DecimalCell(w)
  PROVE  m <= n
<1>1. m \in Int /\ Nearest(v, m) /\ n \in Int /\ Nearest(w, n)
  BY MantissaNearest DEF DecimalCell
<1>2. /\ NearestTo(m, Numerator(v), Denominator(v))
      /\ NearestTo(n, Numerator(w), Denominator(w))
  BY <1>1, NearestFraction
<1>3. /\ Numerator(v) \in Int /\ Denominator(v) \in Nat \ {0}
      /\ Numerator(w) \in Int /\ Denominator(w) \in Nat \ {0}
  BY FractionType
<1>4. Numerator(v) * Denominator(w) <= Numerator(w) * Denominator(v)
  BY FractionsOrdered
<1> QED BY <1>1, <1>2, <1>3, <1>4, NearestOrdered

(* A decimal is refused only if no mantissa within the precision is the    *)
(* nearest one.                                                            *)
LEMMA DecimalRefused ==
  ASSUME column \in DecimalColumns, NEW d \in Decimals, DecimalCell(d) = {},
         NEW m \in 1 - Base ^ column.precision .. Base ^ column.precision - 1
  PROVE  ~Nearest(d, m)
<1> SUFFICES ASSUME Nearest(d, m) PROVE FALSE
  OBVIOUS
<1> PICK top : top = Base ^ column.precision
  OBVIOUS
<1>0. /\ MaxScale \in Nat /\ column.scale \in 0 .. MaxScale /\ d.scale \in 0 .. MaxScale
      /\ column.precision \in 0 .. MaxScale /\ d.mantissa \in Int
  BY DecimalTypes
<1>1. top \in Nat /\ top <= IntMax /\ IntMax \in Nat
  BY <1>0, PowerType, PowerBounded, ScaleAssumption
<1>2. m \in Int /\ 1 - top <= m /\ m <= top - 1
  BY <1>1
<1>3. Abs(m) < top
  BY <1>1, <1>2 DEF Abs
<1>4. m \notin TryToMantissa(d, column.scale)
  BY <1>3 DEF DecimalCell
<1>5. CASE d.scale >= column.scale
  <2>1. PICK n \in TryToMantissa(d, column.scale) : TRUE
    BY <1>0, <1>5 DEF TryToMantissa
  <2>2. n = m
    BY <1>2, <2>1, MantissaNearest, NearestUnique
  <2> QED BY <1>4, <2>1, <2>2
<1>6. CASE d.scale < column.scale
  <2>1. m = d.mantissa * Base ^ (column.scale - d.scale)
    BY <1>0, <1>6 DEF Nearest
  <2>2. TryToMantissa(d, column.scale) = Within(m, IntMax)
    BY <1>0, <1>6, <2>1 DEF TryToMantissa
  <2>3. m \in Within(m, IntMax)
    BY <1>1, <1>2 DEF Within
  <2> QED BY <1>4, <2>2, <2>3
<1> QED BY <1>0, <1>5, <1>6

-----------------------------------------------------------------------------
(* Durations, instants and times of day.                                   *)

LEMMA UnitType ==
  /\ Kilo \in Nat \ {0} /\ WordMax \in Nat /\ EpochDay \in Int /\ Second \in Nat \ {0}
  /\ \A u \in {"ns", "us", "ms"} : Per(u) \in Nat \ {0}
<1>1. Kilo \in Nat \ {0} /\ WordMax \in Nat /\ EpochDay \in Int
  BY TimeAssumption
<1>2. PICK k : k = Kilo * Kilo
  OBVIOUS
<1>3. k \in Nat \ {0} /\ k * Kilo \in Nat \ {0}
  BY <1>1, <1>2
<1> QED BY <1>1, <1>2, <1>3 DEF Second, Per

LEMMA NanosType == ASSUME NEW t \in Durations \union Moments PROVE NanosOf(t) \in Int
<1>1. Second \in Nat \ {0}
  BY UnitType
<1>2. t.secs \in Int /\ t.nanos \in Int
  BY <1>1 DEF Durations, Moments
<1>3. t.secs * Second \in Int
  BY <1>1, <1>2
<1> QED BY <1>2, <1>3 DEF NanosOf

(* Dividing keeps order, rounding down or toward zero.                     *)
LEMMA DivisionOrdered ==
  ASSUME NEW x \in Int, NEW y \in Int, x <= y, NEW per \in Nat \ {0}
  PROVE  x \div per \in Int /\ x \div per <= y \div per
OBVIOUS

LEMMA TowardZeroOrdered ==
  ASSUME NEW x \in Int, NEW y \in Int, x <= y, NEW per \in Nat \ {0}
  PROVE  TowardZero(x, per) \in Int /\ TowardZero(x, per) <= TowardZero(y, per)
<1>1. \A a \in Int : a >= 0 => a \div per \in Int /\ a \div per >= 0
  BY Division
<1>2. CASE x < 0 /\ y < 0
  <2>1. -y \in Int /\ -x \in Int /\ -y <= -x
    BY <1>2
  <2>2. (-y) \div per <= (-x) \div per /\ (-y) \div per \in Int /\ (-x) \div per \in Int
    BY <2>1, DivisionOrdered
  <2>3. TowardZero(x, per) = -((-x) \div per) /\ TowardZero(y, per) = -((-y) \div per)
    BY <1>2 DEF TowardZero, Abs
  <2> QED BY <2>2, <2>3
<1>3. CASE x < 0 /\ y >= 0
  <2>1. (-x) \div per \in Int /\ (-x) \div per >= 0 /\ y \div per \in Int /\ y \div per >= 0
    BY <1>1, <1>3
  <2>2. TowardZero(x, per) = -((-x) \div per) /\ TowardZero(y, per) = y \div per
    BY <1>3 DEF TowardZero, Abs
  <2> QED BY <2>1, <2>2
<1>4. CASE x >= 0 /\ y >= 0
  <2>1. TowardZero(x, per) = x \div per /\ TowardZero(y, per) = y \div per
    BY <1>4 DEF TowardZero
  <2> QED BY <2>1, DivisionOrdered
<1> QED BY <1>2, <1>3, <1>4

(* What is out of a word after dividing was out of a word of units before. *)
LEMMA DividedBelow ==
  ASSUME NEW n \in Int, NEW per \in Nat \ {0}, NEW max \in Nat,
         NEW q \in Int, NEW r \in 0 .. per - 1, n = per * q + r, ~(-max - 1 <= q /\ q <= max)
  PROVE  Abs(n) > max * per
<1>1. max * per \in Nat /\ per * q \in Int
  OBVIOUS
<1>2. CASE q > max
  <2>1. PICK e : e = q - max - 1
    OBVIOUS
  <2>2. e \in Nat /\ q = max + 1 + e
    BY <1>2, <2>1
  <2>3. per * q = max * per + per + per * e
    BY <2>2
  <2>4. per * e \in Nat
    BY <2>2
  <2> QED BY <1>1, <2>3, <2>4 DEF Abs
<1>3. CASE q < -max - 1
  <2>1. PICK e : e = -max - 2 - q
    OBVIOUS
  <2>2. e \in Nat /\ q = -max - 2 - e
    BY <1>3, <2>1
  <2>3. per * q = -(max * per) - 2 * per - per * e
    BY <2>2
  <2>4. per * e \in Nat
    BY <2>2
  <2> QED BY <1>1, <2>3, <2>4 DEF Abs
<1> QED BY <1>2, <1>3

LEMMA DivisionRefused ==
  ASSUME NEW n \in Int, NEW per \in Nat \ {0}, NEW max \in Nat, Within(n \div per, max) = {}
  PROVE  Abs(n) > max * per
<1>1. PICK q : q = n \div per
  OBVIOUS
<1>2. PICK r : r = n % per
  OBVIOUS
<1>3. q \in Int /\ r \in 0 .. per - 1 /\ n = per * q + r
  BY <1>1, <1>2, Division
<1>4. ~(-max - 1 <= q /\ q <= max)
  BY <1>1 DEF Within
<1> QED BY <1>3, <1>4, DividedBelow

LEMMA TowardZeroRefused ==
  ASSUME NEW n \in Int, NEW per \in Nat \ {0}, NEW max \in Nat,
         Within(TowardZero(n, per), max) = {}
  PROVE  Abs(n) > max * per
<1>1. CASE n >= 0
  <2>1. TowardZero(n, per) = n \div per
    BY <1>1 DEF TowardZero
  <2> QED BY <2>1, DivisionRefused
<1>2. CASE n < 0
  <2>1. PICK q : q = (-n) \div per
    OBVIOUS
  <2>2. PICK r : r = (-n) % per
    OBVIOUS
  <2>3. -n \in Int /\ -n >= 0
    BY <1>2
  <2>4. q \in Int /\ q >= 0 /\ r \in 0 .. per - 1 /\ -n = per * q + r
    BY <2>1, <2>2, <2>3, Division
  <2>5. TowardZero(n, per) = -q
    BY <1>2, <2>1 DEF TowardZero, Abs
  <2>6. ~(-max - 1 <= q /\ q <= max)
    BY <2>4, <2>5 DEF Within
  <2>7. Abs(-n) > max * per
    BY <2>3, <2>4, <2>6, DividedBelow
  <2> QED BY <2>7, AbsType
<1> QED BY <1>1, <1>2

(* In a row that is refused there is a duration or instant that does not   *)
(* fit.                                                                    *)
LEMMA TimeRefused ==
  ASSUME column \in TimeColumns, NEW t \in ValuesIn(column), TimeCell(t) = {}
  PROVE  Abs(NanosOf(t)) > WordMax * Per(column.unit)
<1>1. /\ column.unit \in {"ns", "us", "ms"}
      /\ column.kind \in {"StdDuration", "ChronoDuration", "DateTime", "NaiveTime", "NaiveDate"}
  BY DEF TimeColumns
<1>2. WordMax \in Nat /\ Per(column.unit) \in Nat \ {0}
  BY <1>1, UnitType
<1>3. CASE column.kind \in {"StdDuration", "ChronoDuration"}
  <2>1. NanosOf(t) \in Int
    BY <1>3, NanosType DEF ValuesIn
  <2>2. CASE column.kind = "StdDuration"
    <3>1. Within(NanosOf(t) \div Per(column.unit), WordMax) = {}
      BY <2>2 DEF TimeCell
    <3> QED BY <1>2, <2>1, <3>1, DivisionRefused
  <2>3. CASE column.kind = "ChronoDuration"
    <3>1. Within(TowardZero(NanosOf(t), Per(column.unit)), WordMax) = {}
      BY <2>3 DEF TimeCell
    <3> QED BY <1>2, <2>1, <3>1, TowardZeroRefused
  <2> QED BY <1>3, <2>2, <2>3
<1>4. CASE column.kind = "DateTime"
  <2>1. NanosOf(t) \in Int
    BY <1>4, NanosType DEF ValuesIn
  <2>2. Within(NanosOf(t) \div Per(column.unit), WordMax) = {}
    BY <1>4 DEF TimeCell
  <2> QED BY <1>2, <2>1, <2>2, DivisionRefused
<1>5. CASE column.kind \in {"NaiveTime", "NaiveDate"}
  BY <1>5 DEF TimeCell
<1> QED BY <1>1, <1>3, <1>4, <1>5

(* Carrying a leap second leaves its nanoseconds as they are.              *)
LEMMA CarriedNanos ==
  ASSUME NEW t \in Durations \union Moments
  PROVE  /\ Carried(t).secs \in Int /\ Carried(t).nanos \in 0 .. Second - 1
         /\ NanosOf(t) = NanosOf(Carried(t))
<1>1. Second \in Nat \ {0}
  BY UnitType
<1>2. t.secs \in Int /\ t.nanos \in 0 .. 2 * Second - 1
  BY <1>1 DEF Durations, Moments
<1>3. CASE t.nanos < Second
  BY <1>1, <1>2, <1>3 DEF Carried
<1>4. CASE ~(t.nanos < Second)
  <2>1. Carried(t).secs = t.secs + 1 /\ Carried(t).nanos = t.nanos - Second
    BY <1>4 DEF Carried
  <2>2. PICK x : x = t.secs
    OBVIOUS
  <2>3. (x + 1) * Second = x * Second + Second /\ x * Second \in Int
    BY <1>1, <1>2, <2>2
  <2>4. NanosOf(t) = x * Second + t.nanos
        /\ NanosOf(Carried(t)) = (x + 1) * Second + (t.nanos - Second)
    BY <2>1, <2>2 DEF NanosOf
  <2>5. NanosOf(t) = NanosOf(Carried(t))
    BY <1>1, <1>2, <2>3, <2>4
  <2> QED BY <1>1, <1>2, <1>4, <2>1, <2>5
<1> QED BY <1>3, <1>4

(* Of two times with less than a second of nanoseconds, the later has the  *)
(* more nanoseconds.                                                       *)
LEMMA NanosCompare ==
  ASSUME NEW t, NEW u, NoLater(t, u),
         t.secs \in Int, t.nanos \in 0 .. Second - 1,
         u.secs \in Int, u.nanos \in 0 .. Second - 1
  PROVE  NanosOf(t) \in Int /\ NanosOf(u) \in Int /\ NanosOf(t) <= NanosOf(u)
<1>1. Second \in Nat \ {0}
  BY UnitType
<1>2. t.secs < u.secs \/ (t.secs = u.secs /\ t.nanos <= u.nanos)
  BY DEF NoLater
<1> PICK ts : ts = t.secs * Second
  OBVIOUS
<1> PICK us : us = u.secs * Second
  OBVIOUS
<1>3. ts \in Int /\ us \in Int
  BY <1>1
<1>4. t.secs < u.secs => ts + Second <= us
  <2> SUFFICES ASSUME t.secs < u.secs PROVE ts + Second <= us
    OBVIOUS
  <2>1. PICK e : e = u.secs - t.secs - 1
    OBVIOUS
  <2>2. e \in Nat /\ u.secs = t.secs + 1 + e
    BY <2>1
  <2>3. PICK x : x = t.secs
    OBVIOUS
  <2>4. (x + 1 + e) * Second = x * Second + Second + e * Second
    BY <1>1, <2>2, <2>3
  <2>5. e * Second \in Nat
    BY <1>1, <2>2
  <2> QED BY <1>1, <1>3, <2>2, <2>3, <2>4, <2>5
<1>5. NanosOf(t) = ts + t.nanos /\ NanosOf(u) = us + u.nanos
  BY DEF NanosOf
<1> QED BY <1>1, <1>2, <1>3, <1>4, <1>5

LEMMA NanosOrdered ==
  ASSUME column \in TimeColumns, column.kind # "NaiveDate",
         NEW v \in ValuesIn(column), NEW w \in ValuesIn(column), AtMost(v, w)
  PROVE  NanosOf(v) \in Int /\ NanosOf(w) \in Int /\ NanosOf(v) <= NanosOf(w)
<1>1. column.kind \in {"StdDuration", "ChronoDuration", "DateTime", "NaiveTime"}
  BY DEF TimeColumns
<1>2. v \in Durations \union Moments /\ w \in Durations \union Moments
  BY <1>1 DEF ValuesIn
<1>3. NoLater(Carried(v), Carried(w))
  BY <1>1 DEF AtMost
<1>4. /\ Carried(v).secs \in Int /\ Carried(v).nanos \in 0 .. Second - 1
      /\ NanosOf(v) = NanosOf(Carried(v))
  BY <1>2, CarriedNanos
<1>5. /\ Carried(w).secs \in Int /\ Carried(w).nanos \in 0 .. Second - 1
      /\ NanosOf(w) = NanosOf(Carried(w))
  BY <1>2, CarriedNanos
<1>6. NanosOf(Carried(v)) \in Int /\ NanosOf(Carried(w)) \in Int
      /\ NanosOf(Carried(v)) <= NanosOf(Carried(w))
  BY <1>3, <1>4, <1>5, NanosCompare
<1> QED BY <1>4, <1>5, <1>6

LEMMA TimeType ==
  ASSUME column \in TimeColumns, NEW t \in ValuesIn(column)
  PROVE  TimeCell(t) \subseteq Int
<1>1. /\ column.unit \in {"ns", "us", "ms"}
      /\ column.kind \in {"StdDuration", "ChronoDuration", "DateTime", "NaiveTime", "NaiveDate"}
  BY DEF TimeColumns
<1>2. EpochDay \in Int /\ Per(column.unit) \in Nat \ {0}
  BY <1>1, UnitType
<1>3. CASE column.kind = "NaiveDate"
  <2>1. t.day \in Int
    BY <1>3 DEF ValuesIn, Dates
  <2> QED BY <1>2, <1>3, <2>1 DEF TimeCell
<1>4. CASE column.kind # "NaiveDate"
  <2>1. NanosOf(t) \in Int
    BY <1>1, <1>4, NanosType DEF ValuesIn
  <2>2. PICK n : n = NanosOf(t)
    OBVIOUS
  <2>3. PICK per : per = Per(column.unit)
    OBVIOUS
  <2>4. n \in Int /\ n <= n /\ n \div per \in Int /\ TowardZero(n, per) \in Int
    BY <1>2, <2>1, <2>2, <2>3, DivisionOrdered, TowardZeroOrdered
  <2> QED BY <1>1, <1>4, <2>2, <2>3, <2>4 DEF TimeCell, Within
<1> QED BY <1>3, <1>4

LEMMA TimesOrdered ==
  ASSUME column \in TimeColumns, NEW v \in ValuesIn(column), NEW w \in ValuesIn(column),
         AtMost(v, w), NEW m \in TimeCell(v), NEW n \in TimeCell(w)
  PROVE  m <= n
<1>1. /\ column.unit \in {"ns", "us", "ms"}
      /\ column.kind \in {"StdDuration", "ChronoDuration", "DateTime", "NaiveTime", "NaiveDate"}
  BY DEF TimeColumns
<1>2. EpochDay \in Int /\ Per(column.unit) \in Nat \ {0}
  BY <1>1, UnitType
<1>3. CASE column.kind = "NaiveDate"
  <2>1. v.day \in Int /\ w.day \in Int /\ v.day <= w.day
    BY <1>3 DEF ValuesIn, Dates, AtMost
  <2>2. m = v.day - EpochDay /\ n = w.day - EpochDay
    BY <1>3 DEF TimeCell
  <2> QED BY <1>2, <2>1, <2>2
<1>4. CASE column.kind # "NaiveDate"
  <2>1. PICK x : x = NanosOf(v)
    OBVIOUS
  <2>2. PICK y : y = NanosOf(w)
    OBVIOUS
  <2>3. PICK per : per = Per(column.unit)
    OBVIOUS
  <2>4. x \in Int /\ y \in Int /\ x <= y /\ per \in Nat \ {0}
    BY <1>2, <1>4, <2>1, <2>2, <2>3, NanosOrdered
  <2>5. /\ x \div per <= y \div per
        /\ TowardZero(x, per) <= TowardZero(y, per)
    BY <2>4, DivisionOrdered, TowardZeroOrdered
  <2>6. \/ m = x \div per /\ n = y \div per
        \/ m = TowardZero(x, per) /\ n = TowardZero(y, per)
        \/ m = x /\ n = y
    BY <1>1, <1>4, <2>1, <2>2, <2>3 DEF TimeCell, Within
  <2> QED BY <2>4, <2>5, <2>6
<1> QED BY <1>3, <1>4

-----------------------------------------------------------------------------
(* The invariant: every cell is a conversion of its row, and what refused  *)
(* the column is a row with none.                                          *)
CellInv ==
  /\ column \in Columns /\ rows \in RowsOf(column)
  /\ cells \in Seq(Int) /\ Len(cells) <= Len(rows)
  /\ \A i \in DOMAIN cells : cells[i] \in Converted(rows[i])
  /\ RefusedRightly

LEMMA RowsTyped ==
  ASSUME column \in Columns, rows \in RowsOf(column)
  PROVE  /\ rows \in Seq(ValuesIn(column))
         /\ \/ column \in DecimalColumns /\ column.kind = "Decimal" /\ ValuesIn(column) = Decimals
            \/ column \in TimeColumns /\ column.kind # "Decimal"
<1>1. column \in DecimalColumns \union TimeColumns /\ rows \in Seq(ValuesIn(column))
  BY RowAssumption
<1>2. column \in DecimalColumns => column.kind = "Decimal" /\ ValuesIn(column) = Decimals
  BY DEF DecimalColumns, ValuesIn
<1>3. column \in TimeColumns => column.kind # "Decimal"
  BY DEF TimeColumns
<1> QED BY <1>1, <1>2, <1>3

LEMMA ConvertedType ==
  ASSUME column \in Columns, rows \in RowsOf(column), NEW v \in ValuesIn(column)
  PROVE  Converted(v) \subseteq Int
<1>1. CASE column \in DecimalColumns /\ column.kind = "Decimal" /\ ValuesIn(column) = Decimals
  <2>1. ASSUME NEW m \in DecimalCell(v) PROVE m \in Int
    BY <1>1, <2>1, MantissaNearest DEF DecimalCell
  <2> QED BY <1>1, <2>1 DEF Converted
<1>2. CASE column \in TimeColumns /\ column.kind # "Decimal"
  BY <1>2, TimeType DEF Converted
<1> QED BY <1>1, <1>2, RowsTyped

LEMMA InitCells == Init => CellInv
<1> SUFFICES ASSUME Init PROVE CellInv
  OBVIOUS
<1>1. column \in Columns /\ rows \in RowsOf(column) /\ cells = <<>> /\ outcome = "encoding"
  BY DEF Init
<1>2. rows \in Seq(ValuesIn(column))
  BY <1>1, RowsTyped
<1>3. RefusedRightly
  BY <1>1 DEF RefusedRightly
<1> QED BY <1>1, <1>2, <1>3 DEF CellInv

LEMMA CellEncoded ==
  ASSUME CellInv, EncodeRow
  PROVE  CellInv'
<1>1. PICK cell \in Converted(Row) : cells' = Append(cells, cell)
  BY DEF EncodeRow
<1>2. /\ column' = column /\ rows' = rows /\ outcome' = outcome /\ outcome = "encoding"
      /\ Len(cells) < Len(rows)
  BY DEF EncodeRow, MoreRows, Encoding
<1>3. /\ column \in Columns /\ rows \in RowsOf(column) /\ cells \in Seq(Int)
      /\ \A i \in DOMAIN cells : cells[i] \in Converted(rows[i])
  BY DEF CellInv
<1>4. rows \in Seq(ValuesIn(column))
  BY <1>3, RowsTyped
<1>5. Len(cells) \in Nat /\ Row = rows[Len(cells) + 1] /\ Row \in ValuesIn(column)
  BY <1>2, <1>3, <1>4 DEF Row
<1>6. cell \in Int
  BY <1>3, <1>5, ConvertedType
<1>7. cells' \in Seq(Int) /\ Len(cells') = Len(cells) + 1 /\ Len(cells') <= Len(rows)
  BY <1>1, <1>2, <1>3, <1>4, <1>6
<1>8. ASSUME NEW i \in DOMAIN cells' PROVE cells'[i] \in Converted(rows[i])
  <2>1. CASE i = Len(cells) + 1
    BY <1>1, <1>3, <1>5, <1>6, <2>1
  <2>2. CASE i # Len(cells) + 1
    <3>1. i \in DOMAIN cells /\ cells'[i] = cells[i]
      BY <1>1, <1>3, <1>6, <1>7, <2>2
    <3> QED BY <1>3, <3>1
  <2> QED BY <2>1, <2>2
<1>9. ASSUME NEW i \in DOMAIN cells' PROVE (Converted(rows[i]))' = Converted(rows[i])
  BY <1>2 DEF Converted, DecimalCell, TimeCell
<1>10. RefusedRightly'
  BY <1>2 DEF RefusedRightly
<1> QED BY <1>2, <1>3, <1>7, <1>8, <1>9, <1>10 DEF CellInv

LEMMA RowRefused ==
  ASSUME CellInv, RefuseRow
  PROVE  CellInv'
<1>1. /\ column' = column /\ rows' = rows /\ cells' = cells
      /\ Converted(Row) = {} /\ Len(cells) < Len(rows)
  BY DEF RefuseRow, MoreRows
<1>2. /\ column \in Columns /\ rows \in RowsOf(column) /\ cells \in Seq(Int)
      /\ Len(cells) <= Len(rows) /\ \A i \in DOMAIN cells : cells[i] \in Converted(rows[i])
  BY DEF CellInv
<1>3. Row \in ValuesIn(column)
  <2>1. rows \in Seq(ValuesIn(column)) /\ Len(cells) \in Nat
    BY <1>2, RowsTyped
  <2> QED BY <1>1, <2>1 DEF Row
<1>4. IF column.kind = "Decimal"
      THEN \A m \in 1 - Base ^ column.precision .. Base ^ column.precision - 1 : ~Nearest(Row, m)
      ELSE Abs(NanosOf(Row)) > WordMax * Per(column.unit)
  <2>1. CASE column \in DecimalColumns /\ column.kind = "Decimal" /\ ValuesIn(column) = Decimals
    <3>1. DecimalCell(Row) = {}
      BY <1>1, <2>1 DEF Converted
    <3> QED BY <1>3, <2>1, <3>1, DecimalRefused
  <2>2. CASE column \in TimeColumns /\ column.kind # "Decimal"
    <3>1. TimeCell(Row) = {}
      BY <1>1, <2>2 DEF Converted
    <3> QED BY <1>3, <2>2, <3>1, TimeRefused
  <2> QED BY <1>2, <2>1, <2>2, RowsTyped
<1>5. RefusedRightly'
  <2>1. Row' = Row
    BY <1>1 DEF Row
  <2> QED BY <1>1, <1>4, <2>1 DEF RefusedRightly, Nearest
<1>6. ASSUME NEW i \in DOMAIN cells PROVE (Converted(rows[i]))' = Converted(rows[i])
  BY <1>1 DEF Converted, DecimalCell, TimeCell
<1> QED BY <1>1, <1>2, <1>5, <1>6 DEF CellInv

LEMMA NextCells == CellInv /\ [Next]_vars => CellInv'
<1> SUFFICES ASSUME CellInv, [Next]_vars PROVE CellInv'
  OBVIOUS
<1>1. CASE EncodeRow
  BY <1>1, CellEncoded
<1>2. CASE RefuseRow
  BY <1>2, RowRefused
<1>3. CASE FinishColumn \/ UNCHANGED vars
  <2>1. column' = column /\ rows' = rows /\ cells' = cells
    BY <1>3 DEF FinishColumn, vars
  <2>2. outcome' = "refused" => outcome = "refused"
    BY <1>3 DEF FinishColumn, vars
  <2>3. RefusedRightly'
    <3>1. Row' = Row
      BY <2>1 DEF Row
    <3>2. RefusedRightly
      BY DEF CellInv
    <3> QED BY <2>1, <2>2, <3>1, <3>2 DEF RefusedRightly, Nearest
  <2>4. ASSUME NEW i \in DOMAIN cells PROVE (Converted(rows[i]))' = Converted(rows[i])
    BY <2>1 DEF Converted, DecimalCell, TimeCell
  <2> QED BY <2>1, <2>3, <2>4 DEF CellInv
<1> QED BY <1>1, <1>2, <1>3 DEF Next

LEMMA CellsConverted == Spec => []CellInv
BY InitCells, NextCells, PTL DEF Spec

(* Every decimal of every column is nearest to the value of its row, and   *)
(* has no more digits than declared, for every precision and scale, and    *)
(* every mantissa.                                                         *)
THEOREM EveryDecimalNearest == Spec => []DecimalsNearest
<1>1. CellInv => DecimalsNearest
  <2> SUFFICES ASSUME CellInv, column.kind = "Decimal", NEW i \in DOMAIN cells
               PROVE  Nearest(rows[i], cells[i]) /\ Allowed(cells[i])
    BY DEF DecimalsNearest
  <2>1. /\ column \in DecimalColumns /\ rows \in Seq(Decimals) /\ cells \in Seq(Int)
        /\ Len(cells) <= Len(rows) /\ cells[i] \in DecimalCell(rows[i])
    BY RowsTyped DEF CellInv, Converted
  <2>2. rows[i] \in Decimals
    BY <2>1
  <2> QED BY <2>1, <2>2, MantissaNearest DEF DecimalCell, Allowed
<1> QED BY <1>1, CellsConverted, PTL

(* A column is refused only for a row whose nearest mantissa has too many  *)
(* digits, or that does not fit a word of the column's unit: for every     *)
(* width, base and unit.                                                   *)
THEOREM RefusalsRight == Spec => []RefusedRightly
<1>1. CellInv => RefusedRightly
  BY DEF CellInv
<1> QED BY <1>1, CellsConverted, PTL

(* Rounding and truncating never change the order of two rows, of any      *)
(* values: a leap second counts as the second after it.                    *)
THEOREM CellsInOrder == Spec => []CellsOrdered
<1>1. CellInv => CellsOrdered
  <2> SUFFICES ASSUME CellInv, NEW i \in DOMAIN cells, NEW j \in DOMAIN cells,
                      AtMost(rows[i], rows[j])
               PROVE  cells[i] <= cells[j]
    BY DEF CellsOrdered
  <2>1. /\ rows \in Seq(ValuesIn(column)) /\ cells \in Seq(Int) /\ Len(cells) <= Len(rows)
        /\ cells[i] \in Converted(rows[i]) /\ cells[j] \in Converted(rows[j])
    BY RowsTyped DEF CellInv
  <2>2. rows[i] \in ValuesIn(column) /\ rows[j] \in ValuesIn(column)
    BY <2>1
  <2>3. CASE column \in DecimalColumns /\ column.kind = "Decimal" /\ ValuesIn(column) = Decimals
    <3>1. cells[i] \in DecimalCell(rows[i]) /\ cells[j] \in DecimalCell(rows[j])
      BY <2>1, <2>3 DEF Converted
    <3> QED BY <2>2, <2>3, <3>1, DecimalsOrdered
  <2>4. CASE column \in TimeColumns /\ column.kind # "Decimal"
    <3>1. cells[i] \in TimeCell(rows[i]) /\ cells[j] \in TimeCell(rows[j])
      BY <2>1, <2>4 DEF Converted
    <3> QED BY <2>2, <2>4, <3>1, TimesOrdered
  <2> QED BY <2>3, <2>4, RowsTyped DEF CellInv
<1> QED BY <1>1, CellsConverted, PTL
=============================================================================
