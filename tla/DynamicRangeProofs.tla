--------------------------- MODULE DynamicRangeProofs --------------------------
(* The dynamic range blocks whose law needs no power or root (peak detector,   *)
(* clipper, the three peak limiters, noise gate), for any word width, signal   *)
(* format, sample, threshold and time: they only turn down, their curve is     *)
(* monotonic, and they arrive.                                                 *)
(*                                                                             *)
(* The argument is one of brackets: a division that rounds stays between two   *)
(* integers that bracket its quotient, whichever way it rounds, so a gain      *)
(* between 0 and 1 stays there and shrinks what it is applied to, and an       *)
(* average stays between what it averages.                                     *)
EXTENDS DynamicRange, TLAPS

-------------------------------------------------------------------------------
(* Division, the rounding of floating point and the extraction of fixed point. *)

\* Integers that bracket a quotient bracket its division.
LEMMA DivBetween ==
  ASSUME NEW n \in Int, NEW d \in Nat \ {0}, NEW lo \in Int, NEW hi \in Int,
         lo * d <= n, n < hi * d + d
  PROVE  n \div d \in Int /\ lo <= n \div d /\ n \div d <= hi
<1> DEFINE q == n \div d
<1>1. q \in Int /\ d * q <= n /\ n < d * q + d
  OBVIOUS
<1> HIDE DEF q
<1>2. lo <= q
  <2> SUFFICES ASSUME q <= lo - 1 PROVE FALSE
    BY <1>1
  <2>1. d * q <= d * (lo - 1)
    BY <1>1
  <2>2. d * (lo - 1) = lo * d - d
    OBVIOUS
  <2> QED BY <1>1, <2>1, <2>2
<1>3. q <= hi
  <2> SUFFICES ASSUME hi + 1 <= q PROVE FALSE
    BY <1>1
  <2>1. d * (hi + 1) <= d * q
    BY <1>1
  <2>2. d * (hi + 1) = hi * d + d
    OBVIOUS
  <2> QED BY <1>1, <2>1, <2>2
<1> QED BY <1>1, <1>2, <1>3 DEF q

\* What a division leaves.
LEMMA DivRemainder ==
  ASSUME NEW n \in Int, NEW d \in Nat \ {0}
  PROVE  n \div d \in Int /\ (n \div d) * d <= n /\ n < (n \div d) * d + d
  OBVIOUS

\* A larger dividend has no smaller quotient, a larger divisor no larger one.
LEMMA DivMonotone ==
  ASSUME NEW m \in Int, NEW n \in Int, NEW d \in Nat \ {0}, m <= n
  PROVE  m \div d <= n \div d
<1> DEFINE q == m \div d
           r == n \div d
<1>1. q \in Int /\ r \in Int /\ q * d <= m /\ n < r * d + d
  BY DivRemainder
<1> HIDE DEF q, r
<1>2. q <= r
  <2> SUFFICES ASSUME r + 1 <= q PROVE FALSE
    BY <1>1
  <2>1. (r + 1) * d <= q * d
    BY <1>1
  <2>2. (r + 1) * d = r * d + d
    BY <1>1
  <2>3. r * d \in Int /\ q * d \in Int
    BY <1>1
  <2> QED BY <1>1, <2>1, <2>2, <2>3
<1> QED BY <1>2 DEF q, r

LEMMA DivAntitone ==
  ASSUME NEW n \in Nat, NEW c \in Nat \ {0}, NEW d \in Nat \ {0}, c <= d
  PROVE  n \div d <= n \div c
<1> DEFINE q == n \div d
           r == n \div c
<1>1. q \in Int /\ r \in Int /\ q * d <= n /\ n < r * c + c /\ 0 <= r
  <2>1. 0 * c <= n /\ n < n * c + c
    OBVIOUS
  <2> QED BY <2>1, DivRemainder, DivBetween
<1> HIDE DEF q, r
<1>2. q <= r
  <2> SUFFICES ASSUME r + 1 <= q PROVE FALSE
    BY <1>1
  <2>1. (r + 1) * c <= q * c /\ q * c <= q * d
    BY <1>1
  <2>2. (r + 1) * c = r * c + c
    BY <1>1
  <2>3. r * c \in Int /\ q * c \in Int /\ q * d \in Int
    BY <1>1
  <2> QED BY <1>1, <2>1, <2>2, <2>3
<1> QED BY <1>2 DEF q, r

LEMMA NearestBetween ==
  ASSUME NEW n \in Int, NEW d \in Nat \ {0}, NEW lo \in Int, NEW hi \in Int,
         lo * d <= n, n <= hi * d
  PROVE  Nearest(n, d) \in Int /\ lo <= Nearest(n, d) /\ Nearest(n, d) <= hi
<1>1. lo * (2 * d) <= 2 * n + d /\ 2 * n + d < hi * (2 * d) + 2 * d
  OBVIOUS
<1> QED BY <1>1, DivBetween DEF Nearest

LEMMA UnitRange == Unit \in Nat /\ 1 < Unit /\ MaxInt = Unit - 1 /\ MinInt = -Unit
  BY FixedPointAssumption DEF MaxInt, MinInt

\* The two arithmetics' unity is 1.0 or the word just below.
LEMMA UnityRange ==
  ASSUME NEW a \in Arithmetics
  PROVE  /\ Unit \in Nat /\ 1 < Unit /\ MaxInt = Unit - 1 /\ MinInt = -Unit
         /\ Unity(a) \in Nat /\ Unity(a) <= Unit
         /\ a = "xcore" => Unity(a) = MaxInt
  BY FixedPointAssumption DEF Arithmetics, Unity, MaxInt, MinInt

\* An extraction of 64 bits always is a word, and no clamp is felt between
\* words that bracket it.
LEMMA ExtractBetween ==
  ASSUME NEW x \in Int, NEW lo \in Word, NEW hi \in Word,
         lo * Unit <= x, x < hi * Unit + Unit
  PROVE  /\ MultSatExtract(x, 1, Unit) = x \div Unit
         /\ MultSatExtract(x, 1, Unit) \in lo .. hi
<1>1. Unit \in Nat /\ 1 < Unit /\ lo \in Int /\ hi \in Int /\ -Unit <= lo /\ hi <= Unit - 1
  BY FixedPointAssumption DEF Word, MinInt, MaxInt
<1>2. -(Unit * Unit) <= lo * Unit /\ hi * Unit + Unit <= Unit * Unit
  <2>1. (-Unit) * Unit <= lo * Unit /\ (hi + 1) * Unit <= Unit * Unit
    BY <1>1
  <2>2. (-Unit) * Unit = -(Unit * Unit) /\ (hi + 1) * Unit = hi * Unit + Unit
    BY <1>1
  <2> QED BY <1>1, <2>1, <2>2
<1>3. Clamp(x * 1, MinInt * Unit, Unit * Unit - 1) = x
  <2>1. MinInt * Unit = -(Unit * Unit) /\ Unit * Unit \in Int /\ x * 1 = x
    BY <1>1 DEF MinInt
  <2>2. x >= -(Unit * Unit) /\ x <= Unit * Unit - 1
    BY <1>1, <1>2
  <2> QED BY <2>1, <2>2 DEF Clamp
<1>4. MultSatExtract(x, 1, Unit) = x \div Unit
  BY <1>3 DEF MultSatExtract
<1> QED BY <1>1, <1>4, DivBetween

LEMMA ExtractWord ==
  ASSUME NEW x \in Int
  PROVE  MultSatExtract(x, 1, Unit) \in Word
<1>1. Unit \in Nat /\ 1 < Unit /\ MinInt = -Unit /\ MaxInt = Unit - 1
  BY FixedPointAssumption DEF MinInt, MaxInt
<1> DEFINE v == Clamp(x * 1, MinInt * Unit, Unit * Unit - 1)
<1>2. v \in Int /\ MinInt * Unit <= v /\ v <= Unit * Unit - 1
  <2>1. MinInt * Unit \in Int /\ Unit * Unit \in Int /\ x * 1 \in Int
    BY <1>1
  <2>2. MinInt * Unit <= Unit * Unit - 1
    BY <1>1
  <2> QED BY <2>1, <2>2 DEF Clamp
<1> HIDE DEF v
<1>3. MaxInt * Unit + Unit = Unit * Unit /\ MinInt \in Int /\ MaxInt \in Int
  BY <1>1
<1>4. v \div Unit \in Int /\ MinInt <= v \div Unit /\ v \div Unit <= MaxInt
  BY <1>1, <1>2, <1>3, DivBetween
<1> QED BY <1>1, <1>4 DEF MultSatExtract, Word, v

LEMMA ExtractMonotone ==
  ASSUME NEW x \in Int, NEW y \in Int, x <= y
  PROVE  MultSatExtract(x, 1, Unit) <= MultSatExtract(y, 1, Unit)
<1> DEFINE v(z) == Clamp(z * 1, MinInt * Unit, Unit * Unit - 1)
<1>1. Unit \in Nat \ {0} /\ MinInt * Unit \in Int /\ Unit * Unit - 1 \in Int
      /\ MinInt * Unit <= Unit * Unit - 1
  BY FixedPointAssumption DEF MinInt
<1>2. v(x) \in Int /\ v(y) \in Int /\ v(x) <= v(y)
  BY <1>1 DEF Clamp
<1> HIDE DEF v
<1>3. v(x) \div Unit <= v(y) \div Unit
  BY <1>1, <1>2, DivMonotone
<1> QED BY <1>3 DEF MultSatExtract, v

\* A word is what it was.
LEMMA Int32Word ==
  ASSUME NEW x \in Word
  PROVE  Int32(x) = x
<1>1. x \in Int /\ x + Unit \in 0 .. 2 * Unit - 1 /\ Unit \in Nat /\ 0 < Unit
  BY FixedPointAssumption DEF Word, MinInt, MaxInt
<1>2. (x + Unit) % (2 * Unit) = x + Unit
  BY <1>1
<1> QED BY <1>1, <1>2 DEF Int32

-------------------------------------------------------------------------------
(* Gains and averages.                                                         *)

\* A gain from 0 to unity never makes a sample larger, nor turns it over.
LEMMA ApplyGainShrinks ==
  ASSUME NEW a \in Arithmetics, NEW s \in Word, NEW g \in 0 .. Unity(a)
  PROVE  /\ ApplyGain(a, s, g) \in Int
         /\ Magnitude(ApplyGain(a, s, g)) <= Magnitude(s)
<1> DEFINE lo == IF s < 0 THEN s ELSE 0
           hi == IF s < 0 THEN 0 ELSE s
<1>1. s \in Int /\ lo \in Word /\ hi \in Word /\ g \in Int /\ 0 <= g /\ g <= Unit
  BY UnityRange DEF Word
<1>2. lo * Unit <= s * g /\ s * g <= hi * Unit /\ s * g \in Int
  <2>1. CASE s < 0
    <3>1. s * Unit <= s * g /\ s * g <= 0
      BY <1>1, <2>1, UnityRange
    <3> QED BY <1>1, <2>1, <3>1, UnityRange
  <2>2. CASE ~(s < 0)
    <3>1. s * g <= s * Unit /\ 0 <= s * g
      BY <1>1, <2>2, UnityRange
    <3> QED BY <1>1, <2>2, <3>1, UnityRange
  <2> QED BY <2>1, <2>2
<1>3. ApplyGain(a, s, g) \in Int /\ lo <= ApplyGain(a, s, g) /\ ApplyGain(a, s, g) <= hi
  <2>1. CASE a = "float"
    <3> HIDE DEF lo, hi
    <3>1. lo \in Int /\ hi \in Int
      BY <1>1, UnityRange DEF Word
    <3>2. Nearest(s * g, Unit) \in Int /\ lo <= Nearest(s * g, Unit) /\ Nearest(s * g, Unit) <= hi
      BY <1>2, <3>1, NearestBetween, UnityRange
    <3> QED BY <2>1, <3>2 DEF ApplyGain
  <2>2. CASE a # "float"
    <3> DEFINE x == Unit \div 2 + s * g
    <3>1. Unit \div 2 \in Int /\ 0 <= Unit \div 2 /\ Unit \div 2 < Unit
      BY UnityRange
    <3>2. x \in Int /\ lo * Unit <= x /\ x < hi * Unit + Unit
      <4>1. lo * Unit \in Int /\ hi * Unit \in Int
        BY <1>1, UnityRange DEF Word
      <4> HIDE DEF lo, hi
      <4> QED BY <1>2, <3>1, <4>1, UnityRange
    <3> HIDE DEF x, lo, hi
    <3>3. MultSatExtract(x, 1, Unit) \in lo .. hi
      BY <1>1, <3>2, ExtractBetween
    <3>4. ApplyGain(a, s, g) = MultSatExtract(x, 1, Unit)
      BY <2>2 DEF ApplyGain, x
    <3> QED BY <1>1, <3>3, <3>4 DEF Word
  <2> QED BY <2>1, <2>2
<1> QED BY <1>1, <1>3 DEF Magnitude

\* The words an average may be formed of: any value in floating point.
Averageable(a) == IF a = "xcore" THEN 0 .. MaxInt ELSE Int

\* An average is between what it averages, and stops only where a step is less
\* than it can resolve; in fixed point never above its goal.
LEMMA EmaMoves ==
  ASSUME NEW a \in Arithmetics, NEW v \in Averageable(a), NEW goal \in Averageable(a),
         NEW alpha \in 0 .. Unit, arith = a
  PROVE  /\ CalcEma(a, v, goal, alpha) \in Int
         /\ MovesTo(v, CalcEma(a, v, goal, alpha), goal, alpha)
<1> DEFINE lo == Smaller(v, goal)
           hi == Larger(v, goal)
           step == alpha * (goal - v)
           next == CalcEma(a, v, goal, alpha)
<1>1. /\ v \in Int /\ goal \in Int /\ alpha \in Int /\ 0 <= alpha /\ alpha <= Unit
      /\ lo \in Int /\ hi \in Int
  BY UnityRange DEF Averageable, Smaller, Larger
<1>2. step \in Int /\ lo * Unit <= v * Unit + step /\ v * Unit + step <= hi * Unit
  <2>1. CASE v <= goal
    <3>1. 0 <= step /\ step <= Unit * (goal - v)
      BY <1>1, <2>1, UnityRange
    <3>2. lo = v /\ hi = goal
      BY <1>1, <2>1 DEF Smaller, Larger
    <3>3. Unit * (goal - v) = goal * Unit - v * Unit /\ step \in Int
      BY <1>1, UnityRange
    <3> HIDE DEF step, lo, hi
    <3> QED BY <1>1, <3>1, <3>2, <3>3, UnityRange
  <2>2. CASE goal < v
    <3>1. Unit * (goal - v) <= step /\ step <= 0
      BY <1>1, <2>2, UnityRange
    <3>2. lo = goal /\ hi = v
      BY <1>1, <2>2 DEF Smaller, Larger
    <3>3. Unit * (goal - v) = goal * Unit - v * Unit /\ step \in Int
      BY <1>1, UnityRange
    <3> HIDE DEF step, lo, hi
    <3> QED BY <1>1, <3>1, <3>2, <3>3, UnityRange
  <2> QED BY <1>1, <2>1, <2>2
<1>2a. Magnitude(goal - v) * alpha = Magnitude(step)
  <2>1. CASE v <= goal
    <3>1. 0 <= step /\ step = (goal - v) * alpha
      BY <1>1, <2>1
    <3> HIDE DEF step
    <3> QED BY <1>1, <2>1, <3>1 DEF Magnitude
  <2>2. CASE goal < v
    <3>1. step <= 0 /\ -step = (-(goal - v)) * alpha
      BY <1>1, <2>2
    <3>2. Magnitude(goal - v) = -(goal - v)
      BY <1>1, <2>2 DEF Magnitude
    <3> HIDE DEF step
    <3> QED BY <1>1, <1>2, <3>1, <3>2 DEF Magnitude
  <2> QED BY <1>1, <2>1, <2>2
<1>3. CASE a = "float"
  <2>1. next = Nearest(v * Unit + step, Unit)
    <3>1. (Unit - alpha) * v + alpha * goal = v * Unit + step
      BY <1>1, UnityRange
    <3> QED BY <1>3, <3>1 DEF CalcEma
  <2> HIDE DEF step, next, lo, hi
  <2>2. v * Unit + step \in Int
    BY <1>1, <1>2, UnityRange
  <2>3. next \in Int /\ lo <= next /\ next <= hi
    BY <1>1, <1>2, <2>1, <2>2, NearestBetween, UnityRange
  <2>4. next = v => -Unit <= 2 * step /\ 2 * step < Unit
    <3> DEFINE x == 2 * (v * Unit + step) + Unit
               d == 2 * Unit
    <3>1. x \in Int /\ d \in Nat \ {0} /\ next = x \div d
      BY <2>1, <2>2, UnityRange DEF Nearest
    <3> HIDE DEF x, d
    <3>2. next * d <= x /\ x < next * d + d
      BY <3>1, DivRemainder
    <3>3. next = v => v * (2 * Unit) <= 2 * (v * Unit + step) + Unit
                   /\ 2 * (v * Unit + step) + Unit < v * (2 * Unit) + 2 * Unit
      BY <3>2 DEF x, d
    <3>4. v * (2 * Unit) = 2 * (v * Unit) /\ v * Unit \in Int
      BY <1>1, UnityRange
    <3> QED BY <1>2, <3>3, <3>4, UnityRange
  <2>5. next = v => Magnitude(goal - v) * alpha < Unit
    <3> QED BY <1>2, <2>4, <1>2a, UnityRange DEF Magnitude
  <2> QED BY <1>3, <2>3, <2>5 DEF MovesTo, lo, hi, next
<1>4. CASE a = "xcore"
  <2>1. /\ v \in Word /\ goal \in Word /\ lo \in Word /\ hi \in Word
        /\ 0 <= v /\ v <= MaxInt /\ 0 <= goal /\ goal <= MaxInt
    BY <1>1, <1>4, UnityRange DEF Averageable, Word, Smaller, Larger
  <2>2. Int32(goal - v) = goal - v
    <3>1. goal - v \in Word
      BY <1>1, <2>1, UnityRange DEF Word
    <3> QED BY <3>1, Int32Word
  <2>3. next = MultSatExtract(v * Unit + step, 1, Unit)
    <3>1. (goal - v) * alpha = step
      BY <1>1
    <3> QED BY <1>4, <2>2, <3>1 DEF CalcEma
  <2> HIDE DEF step, next, lo, hi
  <2>4. v * Unit + step \in Int /\ v * Unit + step < hi * Unit + Unit
    BY <1>1, <1>2, UnityRange
  <2>5. next = (v * Unit + step) \div Unit /\ next \in lo .. hi
    BY <1>2, <2>1, <2>3, <2>4, ExtractBetween
  <2>6. next = v => 0 <= step /\ step < Unit
    <3> DEFINE x == v * Unit + step
    <3>1. x \in Int /\ next = x \div Unit /\ Unit \in Nat \ {0}
      BY <2>4, <2>5, UnityRange
    <3> HIDE DEF x
    <3>2. next * Unit <= x /\ x < next * Unit + Unit
      BY <3>1, DivRemainder
    <3>3. next = v => v * Unit <= v * Unit + step /\ v * Unit + step < v * Unit + Unit
      BY <3>2 DEF x
    <3>4. v * Unit \in Int
      BY <1>1, UnityRange
    <3> QED BY <1>2, <3>3, <3>4, UnityRange
  <2>7. next = v => Magnitude(goal - v) * alpha < Unit /\ (alpha > 0 => v <= goal)
    <3>1. alpha > 0 /\ goal < v => step < 0
      BY <1>1 DEF step
    <3> QED BY <1>1, <1>2, <2>6, <1>2a, <3>1 DEF Magnitude
  <2>8. next \in Int /\ lo <= next /\ next <= hi
    BY <1>1, <2>5
  <2> QED BY <2>7, <2>8 DEF MovesTo, lo, hi, next
<1> QED BY <1>3, <1>4 DEF Arithmetics

\* An average of a larger goal is no smaller.
LEMMA EmaMonotone ==
  ASSUME NEW a \in Arithmetics, NEW v \in Averageable(a), NEW alpha \in 0 .. Unit,
         NEW g1 \in Averageable(a), NEW g2 \in Averageable(a), g1 <= g2
  PROVE  CalcEma(a, v, g1, alpha) <= CalcEma(a, v, g2, alpha)
<1> DEFINE s(g) == alpha * (g - v)
<1>1. /\ v \in Int /\ g1 \in Int /\ g2 \in Int /\ alpha \in Int /\ 0 <= alpha
      /\ v * Unit \in Int
  BY UnityRange DEF Averageable
<1>2. s(g1) \in Int /\ s(g2) \in Int /\ s(g1) <= s(g2)
  BY <1>1
<1>3. CASE a = "float"
  <2>1. ASSUME NEW g \in Int
        PROVE  CalcEma(a, v, g, alpha) = (2 * (v * Unit + s(g)) + Unit) \div (2 * Unit)
    <3>1. (Unit - alpha) * v + alpha * g = v * Unit + s(g)
      BY <1>1, UnityRange
    <3> QED BY <1>3, <3>1 DEF CalcEma, Nearest
  <2> HIDE DEF s
  <2>2. 2 * (v * Unit + s(g1)) + Unit <= 2 * (v * Unit + s(g2)) + Unit
    BY <1>1, <1>2, UnityRange
  <2> QED BY <1>1, <1>2, <2>1, <2>2, DivMonotone, UnityRange
<1>4. CASE a = "xcore"
  <2>1. ASSUME NEW g \in Averageable(a)
        PROVE  CalcEma(a, v, g, alpha) = MultSatExtract(v * Unit + s(g), 1, Unit)
    <3>1. g - v \in Word /\ g \in Int
      BY <1>4, UnityRange DEF Averageable, Word
    <3>2. Int32(g - v) * alpha = s(g)
      BY <1>1, <3>1, Int32Word
    <3> QED BY <1>4, <3>2 DEF CalcEma
  <2> HIDE DEF s
  <2>2. v * Unit + s(g1) <= v * Unit + s(g2)
    BY <1>1, <1>2, UnityRange
  <2> QED BY <1>1, <1>2, <2>1, <2>2, ExtractMonotone, UnityRange
<1> QED BY <1>3, <1>4 DEF Arithmetics

\* Every time gives a smoothing factor from 0 to 1.
LEMMA AlphaRange ==
  ASSUME NEW a \in Arithmetics, NEW time \in Int
  PROVE  AlphaFromTime(a, time) \in 0 .. Unit
<1>1. CASE time <= 2
  BY <1>1, UnityRange DEF AlphaFromTime
<1>2. CASE time > 2
  <2>1. 0 * time <= 2 * Unit /\ 2 * Unit <= Unit * time
    BY <1>2, UnityRange
  <2>2. Nearest(2 * Unit, time) \in Int /\ 0 <= Nearest(2 * Unit, time) /\ Nearest(2 * Unit, time) <= Unit
    BY <1>2, <2>1, NearestBetween, UnityRange
  <2> QED BY <1>2, <2>2, UnityRange DEF AlphaFromTime
<1> QED BY <1>1, <1>2

-------------------------------------------------------------------------------
(* The laws.                                                                   *)

\* A threshold over a level at or above it is a gain, in both arithmetics.
LEMMA RatioRange ==
  ASSUME NEW t \in Nat, NEW l \in Nat \ {0}, t < l
  PROVE  /\ Ratio(t, l) = (t * Unit) \div l
         /\ Ratio(t, l) \in 0 .. MaxInt
<1>1. t * Unit \in Int /\ 0 * l <= t * Unit /\ t * Unit < (Unit - 1) * l + l
  <2>1. t * Unit <= (l - 1) * Unit /\ 0 <= t * Unit
    BY UnitRange
  <2>2. (l - 1) * Unit = l * Unit - Unit /\ (Unit - 1) * l + l = l * Unit
    BY UnitRange
  <2>3. t * Unit \in Int /\ l * Unit \in Int
    BY UnitRange
  <2> QED BY <2>1, <2>2, <2>3, UnitRange
<1>2. (t * Unit) \div l \in Int /\ 0 <= (t * Unit) \div l /\ (t * Unit) \div l <= Unit - 1
  BY <1>1, DivBetween, UnitRange
<1>3. (t * Unit) \div l \in Word
  BY <1>2, UnitRange DEF Word
<1> QED BY <1>2, <1>3, Int32Word, UnitRange DEF Ratio

LEMMA PeakGainRange ==
  ASSUME NEW a \in Arithmetics, NEW t \in Nat, NEW l \in Nat \ {0}
  PROVE  LimiterPeakGain(a, l, t) \in 0 .. Unity(a)
<1>1. CASE a = "float"
  <2>1. t * Unit \in Nat
    BY UnityRange
  <2>2. Nearest(t * Unit, l) \in Int /\ 0 <= Nearest(t * Unit, l)
    <3>1. 0 * l <= t * Unit /\ t * Unit <= (t * Unit) * l
      BY <2>1
    <3> QED BY <2>1, <3>1, NearestBetween
  <2> QED BY <1>1, <2>2, UnityRange DEF LimiterPeakGain, Smaller, Unity
<1>2. CASE a = "xcore"
  BY <1>2, RatioRange, UnityRange DEF LimiterPeakGain
<1> QED BY <1>1, <1>2 DEF Arithmetics

\* A louder signal is not limited less.
LEMMA PeakGainFalls ==
  ASSUME NEW a \in Arithmetics, NEW t \in Nat, NEW l \in Nat \ {0}, NEW m \in Nat \ {0}, l <= m
  PROVE  LimiterPeakGain(a, m, t) <= LimiterPeakGain(a, l, t)
<1> DEFINE n == t * Unit
<1>1. n \in Nat
  BY UnityRange
<1>2. CASE a = "float"
  <2> DEFINE q == Nearest(n, m)
             r == Nearest(n, l)
  <2>1. n * l \in Int /\ 0 * l <= n /\ n <= n * l /\ 0 * m <= n /\ n <= n * m
    BY <1>1
  <2>2. q \in Int /\ r \in Int /\ 0 <= r
    BY <1>1, <2>1, NearestBetween
  <2>3. q * (2 * m) <= 2 * n + m /\ 2 * n + l < r * (2 * l) + 2 * l
    <3>1. q = (2 * n + m) \div (2 * m) /\ r = (2 * n + l) \div (2 * l)
      BY DEF Nearest
    <3>2. /\ 2 * n + m \in Int /\ 2 * m \in Nat \ {0}
          /\ 2 * n + l \in Int /\ 2 * l \in Nat \ {0}
      BY <1>1
    <3> HIDE DEF n, q, r
    <3> QED BY <3>1, <3>2, DivRemainder
  <2> HIDE DEF n, q, r
  <2>4. q <= r
    <3> SUFFICES ASSUME r + 1 <= q PROVE FALSE
      BY <2>2
    <3>1. m * (2 * q - 1) <= 2 * n
      <4>1. m * (2 * q - 1) = q * (2 * m) - m /\ q * (2 * m) \in Int
        BY <2>2
      <4> QED BY <1>1, <2>3, <4>1
    <3>2. l * (2 * q - 1) <= m * (2 * q - 1) /\ l * (2 * r + 1) <= l * (2 * q - 1)
      BY <2>2
    <3>3. l * (2 * r + 1) = r * (2 * l) + l /\ r * (2 * l) \in Int
      BY <2>2
    <3>4. l * (2 * q - 1) \in Int /\ m * (2 * q - 1) \in Int
      BY <2>2
    <3> QED BY <1>1, <2>3, <3>1, <3>2, <3>3, <3>4
  <2>5. LimiterPeakGain(a, m, t) = Smaller(Unit, q) /\ LimiterPeakGain(a, l, t) = Smaller(Unit, r)
    BY <1>2 DEF LimiterPeakGain, q, r, n
  <2> QED BY <2>2, <2>4, <2>5, UnityRange DEF Smaller
<1>3. CASE a = "xcore"
  <2>1. CASE t < l
    <3>1. Ratio(t, m) = n \div m /\ Ratio(t, l) = n \div l
      BY <2>1, RatioRange
    <3>2. n \div m <= n \div l
      BY <1>1, DivAntitone
    <3> QED BY <1>3, <2>1, <3>1, <3>2 DEF LimiterPeakGain
  <2>2. CASE l <= t
    <3>1. LimiterPeakGain(a, l, t) = MaxInt
      BY <1>3, <2>2 DEF LimiterPeakGain
    <3>2. LimiterPeakGain(a, m, t) \in 0 .. MaxInt
      BY <1>3, PeakGainRange, UnityRange
    <3> QED BY <3>1, <3>2, UnityRange
  <2> QED BY <2>1, <2>2
<1> QED BY <1>2, <1>3 DEF Arithmetics

-------------------------------------------------------------------------------
(* The blocks.                                                                 *)

\* The kinds of which all this is proved, and those of them that have a law.
PeakLimiters == {"limiter_peak", "hard_limiter_peak", "limiter_peak_stereo"}
LawPeaks == PeakLimiters \union {"noise_gate"}
Peaks == LawPeaks \union {"envelope_detector_peak", "clipper"}

Loudest(e) == Larger(1, Max({e[c] : c \in DOMAIN e}))

\* The loudest of one or two channels is one of them, and at least one step.
LEMMA LoudestOf ==
  ASSUME NEW k, NEW e \in [Channels(k) -> Int]
  PROVE  /\ Loudest(e) \in Nat \ {0}
         /\ \A c \in DOMAIN e : e[c] <= Loudest(e)
         /\ Loudest(e) = 1 \/ \E c \in DOMAIN e : e[c] = Loudest(e)
<1> DEFINE S == {e[c] : c \in DOMAIN e}
<1>1. \E x \in S : \A y \in S : x >= y
  <2>1. CASE Channels(k) = {1, 2}
    <3>1. S = {e[1], e[2]} /\ e[1] \in Int /\ e[2] \in Int
      BY <2>1
    <3> HIDE DEF S
    <3> QED BY <3>1
  <2>2. CASE Channels(k) = {1}
    <3>1. S = {e[1]} /\ e[1] \in Int
      BY <2>2
    <3> HIDE DEF S
    <3> QED BY <3>1
  <2> QED BY <2>1, <2>2 DEF Channels
<1>2. Max(S) \in S /\ \A y \in S : Max(S) >= y
  BY <1>1 DEF Max
<1>3. Max(S) \in Int /\ \A c \in DOMAIN e : e[c] \in Int /\ e[c] <= Max(S)
  <2>1. \A c \in DOMAIN e : e[c] \in Int /\ e[c] \in S
    OBVIOUS
  <2>2. S \subseteq Int
    OBVIOUS
  <2> HIDE DEF S
  <2> QED BY <1>2, <2>1, <2>2
<1>4. \E c \in DOMAIN e : e[c] = Max(S)
  BY <1>2
<1> HIDE DEF S
<1>5. Loudest(e) = Larger(1, Max(S))
  BY DEF Loudest, S
<1> QED BY <1>3, <1>4, <1>5 DEF Larger

\* What the law asks for is a gain.
LEMMA LawRange ==
  ASSUME arith \in Arithmetics, level \in Nat,
         NEW k \in LawPeaks, NEW e \in [Channels(k) -> Int]
  PROVE  GainCalc(k, e) \in 0 .. Unity(arith)
<1>1. ThresholdOf(k, level) \in Nat
  BY UnityRange DEF ThresholdOf, Threshold, Power2, LawPeaks, PeakLimiters, PeakKinds,
     SaturateInt32, Clamp, Larger
<1>2. Loudest(e) \in Nat \ {0}
  BY LoudestOf
<1>3. CASE k \in PeakLimiters
  <2>1. GainCalc(k, e) = LimiterPeakGain(arith, Loudest(e), ThresholdOf(k, level))
    BY <1>3 DEF GainCalc, Loudest, PeakLimiters
  <2> QED BY <1>1, <1>2, <2>1, PeakGainRange
<1>4. CASE k = "noise_gate"
  <2>1. GainCalc(k, e) = NoiseGateGain(arith, Loudest(e), ThresholdOf(k, level))
    BY <1>4 DEF GainCalc, Loudest
  <2> QED BY <2>1, UnityRange DEF NoiseGateGain
<1> QED BY <1>3, <1>4 DEF LawPeaks

\* One step more in every channel: a limiter's law asks for no more, a gate's for
\* no less.
LEMMA LawMonotone ==
  ASSUME arith \in Arithmetics, level \in Nat,
         NEW k \in LawPeaks, NEW e \in [Channels(k) -> Int],
         NEW f, f = [c \in DOMAIN e |-> e[c] + 1]
  PROVE  /\ k \in PeakLimiters => GainCalc(k, f) <= GainCalc(k, e)
         /\ k = "noise_gate" => GainCalc(k, e) <= GainCalc(k, f)
<1>1. ThresholdOf(k, level) \in Nat
  BY UnityRange DEF ThresholdOf, Threshold, Power2, LawPeaks, PeakLimiters, PeakKinds,
     SaturateInt32, Clamp, Larger
<1>2. f \in [Channels(k) -> Int] /\ DOMAIN f = DOMAIN e
  OBVIOUS
<1>3. Loudest(e) <= Loudest(f) /\ Loudest(e) \in Nat \ {0} /\ Loudest(f) \in Nat \ {0}
  <2>1. Loudest(f) \in Nat \ {0} /\ \A c \in DOMAIN e : e[c] + 1 <= Loudest(f)
    BY <1>2, LoudestOf
  <2>2. Loudest(e) \in Nat \ {0} /\ (Loudest(e) = 1 \/ \E c \in DOMAIN e : e[c] = Loudest(e))
    BY LoudestOf
  <2> QED BY <2>1, <2>2
<1>4. CASE k \in PeakLimiters
  <2>1. /\ GainCalc(k, e) = LimiterPeakGain(arith, Loudest(e), ThresholdOf(k, level))
        /\ GainCalc(k, f) = LimiterPeakGain(arith, Loudest(f), ThresholdOf(k, level))
    BY <1>4 DEF GainCalc, Loudest, PeakLimiters
  <2>2. k # "noise_gate"
    BY <1>4 DEF PeakLimiters
  <2> QED BY <1>1, <1>3, <2>1, <2>2, PeakGainFalls
<1>5. CASE k = "noise_gate"
  <2>1. /\ GainCalc(k, e) = NoiseGateGain(arith, Loudest(e), ThresholdOf(k, level))
        /\ GainCalc(k, f) = NoiseGateGain(arith, Loudest(f), ThresholdOf(k, level))
    BY <1>5 DEF GainCalc, Loudest
  <2> QED BY <1>1, <1>3, <1>5, <2>1, UnityRange DEF NoiseGateGain, PeakLimiters
<1> QED BY <1>4, <1>5 DEF LawPeaks

-------------------------------------------------------------------------------
(* The invariant: the attributes are what a caller may set, the detectors hold *)
(* words, and the gain is one.                                                 *)

IInv ==
  /\ kind \in Kinds /\ arith \in Arithmetics
  /\ level \in Nat /\ attack \in Int /\ release \in Int
  /\ input \in Inputs(kind)
  /\ env \in [Channels(kind) -> Int]
  /\ arith = "xcore" => env \in [Channels(kind) -> Word]
  /\ gain \in 0 .. Unity(arith)

LEMMA UnityAverageable ==
  ASSUME NEW a \in Arithmetics, NEW g \in 0 .. Unity(a)
  PROVE  g \in Averageable(a)
  BY UnityRange DEF Averageable

\* A block of one of these kinds plays and listens to words.
LEMMA InputWords ==
  ASSUME NEW k \in Peaks, NEW i \in Inputs(k)
  PROVE  \A c \in Channels(k) : i.signal[c] \in Word /\ i.detect[c] \in Word
<1>1. PICK f \in Frames(k) : i = [signal |-> f, detect |-> f]
  BY DEF Inputs, Peaks, LawPeaks, PeakLimiters, SidechainKinds
<1>2. \A c \in Channels(k) : f[c] \in Word
  BY DynamicRangeAssumption DEF Frames, Channels, StereoKinds
<1> QED BY <1>1, <1>2

\* A detector keeps its type.
LEMMA DetectTyped ==
  ASSUME arith \in Arithmetics, attack \in Int, release \in Int,
         NEW k \in Peaks, NEW v \in Int, NEW s \in Word
  PROVE  /\ Heard(k, s) \in Nat
         /\ DetectorAlpha(v, Heard(k, s)) \in 0 .. Unit
         /\ Detect(k, v, s) \in Int
         /\ arith = "xcore" => Detect(k, v, s) \in Word
<1> DEFINE h == Heard(k, s)
           alpha == DetectorAlpha(v, h)
<1>1. h \in Nat
  BY UnitRange DEF Heard, Power2, PeakKinds, Peaks, LawPeaks, PeakLimiters, Magnitude, Word
<1>2. alpha \in 0 .. Unit
  BY AlphaRange DEF DetectorAlpha, Alpha
<1> HIDE DEF h, alpha
<1>3. Detect(k, v, s) = CalcEma(arith, v, h, alpha)
  BY DEF Detect, h, alpha
<1>4. CASE arith = "float"
  <2>1. (Unit - alpha) * v + alpha * h \in Int /\ Unit \in Nat \ {0}
    BY <1>1, <1>2, UnitRange
  <2>2. Nearest((Unit - alpha) * v + alpha * h, Unit) \in Int
    BY <2>1 DEF Nearest
  <2> QED BY <1>1, <1>2, <1>3, <1>4, <2>2 DEF CalcEma, h, alpha
<1>5. CASE arith = "xcore"
  <2>1. Int32(h - v) \in Int
    BY <1>1, UnitRange DEF Int32
  <2>2. v * Unit + Int32(h - v) * alpha \in Int
    BY <1>2, <2>1, UnitRange
  <2>3. Detect(k, v, s) \in Word
    BY <1>3, <1>5, <2>2, ExtractWord DEF CalcEma
  <2> QED BY <1>1, <1>2, <2>3, UnitRange DEF Word, h, alpha
<1> QED BY <1>4, <1>5 DEF Arithmetics

\* A smoothed gain is a gain.
LEMMA SmoothTyped ==
  ASSUME arith \in Arithmetics, attack \in Int, release \in Int,
         NEW k, NEW g \in 0 .. Unity(arith), NEW target \in 0 .. Unity(arith)
  PROVE  /\ GainAlpha(k, g, target) \in 0 .. Unit
         /\ SmoothGain(k, g, target) \in 0 .. Unity(arith)
         /\ MovesTo(g, SmoothGain(k, g, target), target, GainAlpha(k, g, target))
<1> DEFINE alpha == GainAlpha(k, g, target)
<1>1. alpha \in 0 .. Unit
  BY AlphaRange DEF GainAlpha, Alpha
<1> HIDE DEF alpha
<1>2. /\ CalcEma(arith, g, target, alpha) \in Int
      /\ MovesTo(g, CalcEma(arith, g, target, alpha), target, alpha)
  BY <1>1, UnityAverageable, EmaMoves
<1>3. CalcEma(arith, g, target, alpha) \in 0 .. Unity(arith)
  BY <1>2, UnityRange DEF MovesTo, Smaller, Larger
<1> QED BY <1>1, <1>2, <1>3 DEF SmoothGain, alpha

\* A sample through detectors, law and smoothing.
LEMMA StepTyped ==
  ASSUME Kinds \subseteq Peaks, IInv, NEW heard, Step(heard), kind \in LawPeaks,
         \A c \in Channels(kind) : heard[c] \in Word
  PROVE  IInv'
<1> USE DEF IInv
<1> DEFINE e == [c \in Channels(kind) |-> Detect(kind, env[c], heard[c])]
           target == GainCalc(kind, e)
<1>1. \A c \in Channels(kind) : Detect(kind, env[c], heard[c]) \in Int
        /\ (arith = "xcore" => Detect(kind, env[c], heard[c]) \in Word)
  BY DetectTyped DEF Peaks
<1>2. e \in [Channels(kind) -> Int] /\ (arith = "xcore" => e \in [Channels(kind) -> Word])
  BY <1>1
<1>3. target \in 0 .. Unity(arith)
  BY <1>2, LawRange
<1>4. env' = e /\ gain' = SmoothGain(kind, gain, target)
  <2>1. target # NotANumber
    BY <1>3, UnityRange DEF NotANumber
  <2> QED BY <2>1 DEF Step
<1>5. gain' \in 0 .. Unity(arith)
  BY <1>3, <1>4, SmoothTyped
<1>6. UNCHANGED <<kind, arith, attributes, knee, input>>
  BY DEF Step
<1> HIDE DEF e, target
<1> QED BY <1>2, <1>4, <1>5, <1>6 DEF attributes, Channels, Inputs, Frames, Unity

LEMMA ResetTyped ==
  ASSUME kind \in Kinds, arith \in Arithmetics
  PROVE  /\ [c \in Channels(kind) |-> ResetEnvelope(kind, arith)] \in [Channels(kind) -> Int]
         /\ arith = "xcore" =>
              [c \in Channels(kind) |-> ResetEnvelope(kind, arith)] \in [Channels(kind) -> Word]
         /\ Unity(arith) \in 0 .. Unity(arith)
<1>1. ResetEnvelope(kind, arith) \in Int /\ (arith = "xcore" => ResetEnvelope(kind, arith) \in Word)
  BY FixedPointAssumption, UnitRange DEF ResetEnvelope, Word
<1> QED BY <1>1, UnityRange

LEMMA InitTyped == Kinds \subseteq Peaks /\ Init => IInv
<1> SUFFICES ASSUME Init PROVE IInv
  OBVIOUS
<1>1. kind \in Kinds /\ arith \in Arithmetics
  BY DEF Init, Arithmetics
<1>2. level \in Nat /\ attack \in Int /\ release \in Int
  BY DynamicRangeAssumption DEF Init
<1> QED BY <1>1, <1>2, ResetTyped DEF Init, IInv

LEMMA NextTyped == Kinds \subseteq Peaks /\ IInv /\ [Next]_vars => IInv'
<1> SUFFICES ASSUME Kinds \subseteq Peaks, IInv, [Next]_vars PROVE IInv'
  OBVIOUS
<1> USE DEF IInv
<1>0. kind \in Peaks
  OBVIOUS
<1>1. CASE Feed
  BY <1>1 DEF Feed, attributes
<1>2. CASE ProcessDetector
  <2>1. \A c \in Channels(kind) : Detect(kind, env[c], input.detect[c]) \in Int
          /\ (arith = "xcore" => Detect(kind, env[c], input.detect[c]) \in Word)
    BY <1>0, InputWords, DetectTyped
  <2> QED BY <1>2, <2>1 DEF ProcessDetector, attributes
<1>3. CASE Reset
  BY <1>3, ResetTyped DEF Reset, ResetState, attributes
<1>4. CASE ProcessLimiter \/ ProcessExpander \/ ProcessStereo \/ ProcessCompressor
           \/ ProcessSidechainMono \/ ProcessSidechainStereo
  <2>1. kind \in LawPeaks /\ Step(input.signal)
    BY <1>0, <1>4 DEF ProcessLimiter, ProcessExpander, ProcessStereo, ProcessCompressor,
       ProcessSidechainMono, ProcessSidechainStereo, Peaks, LawPeaks, PeakLimiters, Limiters,
       Expanders, Compressors, SidechainKinds, StereoKinds
  <2>2. \A c \in Channels(kind) : input.signal[c] \in Word
    BY <1>0, InputWords
  <2> QED BY <2>1, <2>2, StepTyped
<1>5. ASSUME NEW lev \in Levels, SetThreshold(lev) PROVE IInv'
  BY <1>5, DynamicRangeAssumption DEF SetThreshold
<1>6. ASSUME NEW time \in Times, SetAttack(time) \/ SetRelease(time) PROVE IInv'
  BY <1>6, DynamicRangeAssumption DEF SetAttack, SetRelease
<1>7. ASSUME NEW r \in Ratios, SetRatio(r) PROVE IInv'
  BY <1>7 DEF SetRatio
<1>8. ASSUME NEW p \in Presets, SetParameters(p) PROVE IInv'
  <2>1. Remake(p)
    BY <1>8 DEF SetParameters, LimiterRMS, LimiterPeak, HardLimiterPeak, Clipper, CompressorRMS,
       CompressorSidechain, CompressorSidechainStereo, EnvelopeDetectorPeak, EnvelopeDetectorRMS,
       NoiseGate, NoiseSuppressorExpander
  <2>2. p[1] \in Nat /\ p[2] \in Int /\ p[3] \in Int
    BY DynamicRangeAssumption
  <2> QED BY <2>1, <2>2, ResetTyped DEF Remake, ResetState
<1>9. CASE UNCHANGED vars
  BY <1>9 DEF vars, attributes
<1> QED BY <1>1, <1>2, <1>3, <1>4, <1>5, <1>6, <1>7, <1>8, <1>9 DEF Next

-------------------------------------------------------------------------------
(* What the run checks, for every constant.                                    *)

\* Whatever a block of these kinds has played and whatever was set, no output
\* sample is larger than the sample it comes from.
THEOREM OnlyTurnsDown == Kinds \subseteq Peaks => (Spec => []NeverLouder)
<1> SUFFICES ASSUME Kinds \subseteq Peaks PROVE Spec => []NeverLouder
  OBVIOUS
<1>1. IInv => NeverLouder
  <2> SUFFICES ASSUME IInv, kind \notin Detectors, NEW c \in Channels(kind)
               PROVE  Magnitude(Output[c]) <= Magnitude(input.signal[c])
    BY DEF NeverLouder
  <2> DEFINE s == input.signal[c]
             y == ApplyGain(arith, s, gain)
             t == ThresholdOf(kind, level)
  <2>1. s \in Word /\ s \in Int
    BY InputWords, UnitRange DEF IInv, Word
  <2>2. y \in Int /\ Magnitude(y) <= Magnitude(s)
    BY <2>1, ApplyGainShrinks DEF IInv
  <2>3. t \in Nat
    BY UnitRange DEF IInv, ThresholdOf, Threshold, Power2, Peaks, LawPeaks, PeakLimiters,
       PeakKinds, SaturateInt32, Clamp, Larger
  <2>4. Output[c] \in {Clip(s, t), Clip(y, t), y}
    BY DEF Output, Amplify
  <2> HIDE DEF s, y, t
  <2>5. ASSUME NEW x \in Int PROVE Magnitude(Clip(x, t)) <= Magnitude(x)
    BY <2>3 DEF Magnitude, Clip, Clamp
  <2>6. Magnitude(Clip(y, t)) \in Int /\ Magnitude(y) \in Int /\ Magnitude(s) \in Int
    BY <2>1, <2>2, <2>3 DEF Magnitude, Clip, Clamp
  <2>7. Magnitude(Output[c]) <= Magnitude(s)
    BY <2>1, <2>2, <2>4, <2>5, <2>6
  <2> QED BY <2>7 DEF s
<1>2. IInv /\ [Next]_vars => IInv'
  BY NextTyped
<1> QED BY <1>1, <1>2, InitTyped, PTL DEF Spec

\* One step up in every channel never makes the next gain of a limiter larger nor
\* that of a gate smaller, although attack and release smooth it differently.
THEOREM CurveMonotone == Kinds \subseteq Peaks => (Spec => []GainCurveMonotone)
<1> SUFFICES ASSUME Kinds \subseteq Peaks PROVE Spec => []GainCurveMonotone
  OBVIOUS
<1>1. ASSUME IInv, NEW t \in 0 .. Unity(arith), NEW u \in 0 .. Unity(arith), t <= u
      PROVE  /\ SmoothGain(kind, gain, t) <= SmoothGain(kind, gain, u)
             /\ 0 <= SmoothGain(kind, gain, t)
  <2>1. /\ SmoothGain(kind, gain, t) \in 0 .. Unity(arith)
        /\ SmoothGain(kind, gain, u) \in 0 .. Unity(arith)
        /\ MovesTo(gain, SmoothGain(kind, gain, t), t, GainAlpha(kind, gain, t))
        /\ MovesTo(gain, SmoothGain(kind, gain, u), u, GainAlpha(kind, gain, u))
        /\ GainAlpha(kind, gain, t) \in 0 .. Unit
    BY <1>1, SmoothTyped DEF IInv
  <2>2. gain \in Int /\ t \in Int /\ u \in Int /\ Unity(arith) \in Int
    BY <1>1, UnityRange DEF IInv
  <2>3. CASE t < gain /\ gain <= u
    BY <2>1, <2>2, <2>3 DEF MovesTo, Smaller, Larger
  <2>4. CASE (t < gain) = (u < gain)
    <3>1. GainAlpha(kind, gain, t) = GainAlpha(kind, gain, u)
      BY <2>4 DEF GainAlpha
    <3>2. t \in Averageable(arith) /\ u \in Averageable(arith) /\ gain \in Averageable(arith)
      BY <1>1, UnityAverageable DEF IInv
    <3>3. SmoothGain(kind, gain, t) <= SmoothGain(kind, gain, u)
      BY <1>1, <2>1, <3>1, <3>2, EmaMonotone DEF SmoothGain, IInv
    <3> QED BY <2>1, <2>2, <3>3
  <2> QED BY <1>1, <2>2, <2>3, <2>4
<1>2. IInv => GainCurveMonotone
  <2> SUFFICES ASSUME IInv PROVE GainCurveMonotone
    OBVIOUS
  <2> DEFINE above == [c \in DOMAIN env |-> env[c] + 1]
  <2>1. CASE kind \in LawPeaks
    <3>1. env \in [Channels(kind) -> Int] /\ above \in [Channels(kind) -> Int]
      BY DEF IInv
    <3>2. GainCalc(kind, env) \in 0 .. Unity(arith) /\ GainCalc(kind, above) \in 0 .. Unity(arith)
      BY <2>1, <3>1, LawRange DEF IInv
    <3>3. /\ kind \in PeakLimiters => GainCalc(kind, above) <= GainCalc(kind, env)
          /\ kind = "noise_gate" => GainCalc(kind, env) <= GainCalc(kind, above)
      BY <2>1, LawMonotone DEF IInv
    <3> HIDE DEF above
    <3>4. /\ kind \in PeakLimiters => 0 <= NextGain(above) /\ NextGain(above) <= NextGain(env)
          /\ kind = "noise_gate" => NextGain(env) <= NextGain(above)
      BY <1>1, <3>2, <3>3 DEF NextGain
    <3> QED BY <2>1, <3>4 DEF GainCurveMonotone, above, LawPeaks, PeakLimiters, Limiters,
             Compressors, SidechainKinds, Expanders
  <2>2. CASE kind \notin LawPeaks
    BY <2>2 DEF IInv, GainCurveMonotone, Peaks, LawPeaks, PeakLimiters, Limiters, Compressors,
       SidechainKinds, Expanders
  <2> QED BY <2>1, <2>2
<1>3. IInv /\ [Next]_vars => IInv'
  BY NextTyped
<1> QED BY <1>2, <1>3, InitTyped, PTL DEF Spec

\* Envelope and gain go towards what is heard and what the law asks for, never
\* past it, and stop only where one step is less than the format resolves.
THEOREM Arrives == Kinds \subseteq Peaks => (Spec => []SmoothingArrives)
<1> SUFFICES ASSUME Kinds \subseteq Peaks PROVE Spec => []SmoothingArrives
  OBVIOUS
<1>1. IInv => SmoothingArrives
  <2> SUFFICES ASSUME IInv, kind # "clipper", \A c \in DOMAIN env : env[c] >= 0
               PROVE  SmoothingArrives
    BY DEF SmoothingArrives
  <2> USE DEF IInv
  <2>1. ASSUME NEW c \in DOMAIN env, Heard(kind, input.detect[c]) <= MaxInt
        PROVE  MovesTo(env[c], Detect(kind, env[c], input.detect[c]),
                       Heard(kind, input.detect[c]),
                       DetectorAlpha(env[c], Heard(kind, input.detect[c])))
    <3> DEFINE s == input.detect[c]
               h == Heard(kind, s)
               alpha == DetectorAlpha(env[c], h)
    <3>1. c \in Channels(kind) /\ s \in Word /\ kind \in Peaks
      BY InputWords
    <3>2. h \in Nat /\ alpha \in 0 .. Unit
      BY <3>1, DetectTyped
    <3>3. env[c] \in Averageable(arith) /\ h \in Averageable(arith)
      BY <2>1, <3>1, <3>2, UnitRange DEF Averageable, Word
    <3> HIDE DEF h, alpha
    <3>4. MovesTo(env[c], CalcEma(arith, env[c], h, alpha), h, alpha)
      BY <3>2, <3>3, EmaMoves
    <3> QED BY <3>4 DEF Detect, h, alpha
  <2>2. ASSUME kind \notin Detectors
        PROVE  MovesTo(gain, SmoothGain(kind, gain, GainCalc(kind, env)), GainCalc(kind, env),
                       GainAlpha(kind, gain, GainCalc(kind, env)))
    <3>1. kind \in LawPeaks
      BY <2>2 DEF Peaks, Detectors
    <3>2. GainCalc(kind, env) \in 0 .. Unity(arith)
      BY <3>1, LawRange
    <3> QED BY <3>2, SmoothTyped
  <2> QED BY <2>1, <2>2 DEF SmoothingArrives
<1>2. IInv /\ [Next]_vars => IInv'
  BY NextTyped
<1> QED BY <1>1, <1>2, InitTyped, PTL DEF Spec
===============================================================================
