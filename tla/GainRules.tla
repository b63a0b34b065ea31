------------------------------ MODULE GainRules -------------------------------
(* The gain laws of audio_dsp/dsp/drc/drc_utils.py: how a level and a          *)
(* threshold give the gain a dynamic range block moves to, in the two          *)
(* arithmetics every block has, "float" (process) and "xcore" (process_xcore). *)
(* A level is on the signal's grid, a gain and a smoothing factor on Unit's.   *)
EXTENDS FixedPoint

\* A float32 holds a value just below 1.0 in steps of Float32Step words, and
\* smaller values more finely.
CONSTANT Float32Step

ASSUME GainRulesAssumption == Float32Step \in Nat \ {0}

Arithmetics == {"float", "xcore"}

\* Unity gain: exactly 1.0 in floating point, the largest word in fixed point.
Unity(arith) == IF arith = "float" THEN Unit ELSE MaxInt

Float32(g) == IF 2 * g < Unit THEN g ELSE Float32Step * Nearest(g, Float32Step)

\* (g / Unit) ^ (p / d), for 0 <= g: the largest step whose d-th power does not
\* exceed it. The square root is Power(g, 1, 2).
Power(g, p, d) ==
  LET Below(r) == IF p <= d THEN r ^ d <= g ^ p * Unit ^ (d - p)
                            ELSE r ^ d * Unit ^ (p - d) <= g ^ p
  IN  IF p = 0 THEN Unit ELSE CHOOSE r \in 0 .. Larger(g, Unit) : Below(r) /\ ~Below(r + 1)

\* calculate_threshold: the level in the signal's format, squared for a block
\* that follows the power of the signal; the fixed point one is at least 1.
Threshold(arith, level, power) ==
  LET t == SaturateInt32(IF power THEN Nearest(level * level, One) ELSE level)
  IN  IF arith = "float" THEN t ELSE Larger(1, t)

\* alpha_from_time, for a time counted in samples: 2 / time, at most 1.0.
AlphaFromTime(arith, time) ==
  IF time <= 2 THEN Unity(arith) ELSE Nearest(2 * Unit, time)

\* A ratio below 1 counts as 1. The compressor's exponent is (1 - 1/ratio) / 2,
\* kept as a fraction; the expander's is 1 - ratio, kept without its sign.
CompressorSlope(ratio) == LET r == Larger(ratio, 1) IN <<r - 1, 2 * r>>
ExpanderSlope(ratio) == Larger(ratio, 1) - 1

RoundedEma(arith, x, y, alpha) ==   \* mutant: fixed point rounds to nearest
  Nearest((Unit - alpha) * x + alpha * y, Unit)

\* One step of the exponential moving average from x towards y.
CalcEma(arith, x, y, alpha) ==
  IF arith = "float"
  THEN Nearest((Unit - alpha) * x + alpha * y, Unit)
  ELSE MultSatExtract(x * Unit + Int32(y - x) * alpha, 1, Unit)

ApplyGain(arith, sample, gain) ==
  IF arith = "float"
  THEN Nearest(sample * gain, Unit)
  ELSE MultSatExtract(Unit \div 2 + sample * gain, 1, Unit)

\* The threshold over the level, as a gain.
Ratio(threshold, level) == Int32((threshold * Unit) \div level)

UncutPeakGain(arith, level, threshold) ==   \* mutant: no limit at unity
  IF arith = "float" THEN Nearest(threshold * Unit, level)
  ELSE IF threshold >= level THEN MaxInt ELSE Ratio(threshold, level)

WrappedPeakGain(arith, level, threshold) ==   \* mutant: the ratio at the threshold wraps
  IF arith = "float" THEN Smaller(Unit, Nearest(threshold * Unit, level))
  ELSE IF threshold > level THEN MaxInt ELSE Ratio(threshold, level)

LimiterPeakGain(arith, level, threshold) ==
  IF arith = "float" THEN Smaller(Unit, Nearest(threshold * Unit, level))
  ELSE IF threshold >= level THEN MaxInt
  ELSE Ratio(threshold, level)

LimiterRmsGain(arith, level, threshold) ==
  IF arith = "float"
  THEN Smaller(Unit, Power(Smaller(Unit, Nearest(threshold * Unit, level)), 1, 2))
  ELSE IF threshold >= level THEN MaxInt
  ELSE Power(Ratio(threshold, level), 1, 2)

CompressorRmsGain(arith, level, threshold, slope) ==
  IF arith = "float"
  THEN Power(Smaller(Unit, Nearest(threshold * Unit, level)), slope[1], slope[2])
  ELSE IF slope[1] = 0 \/ threshold >= level THEN MaxInt
  ELSE LET g == Float32(Power(Float32(Ratio(threshold, level)), slope[1], slope[2]))
       IN  IF g >= Unit THEN MaxInt ELSE g

NoiseGateGain(arith, level, threshold) ==
  IF level < threshold THEN 0 ELSE Unity(arith)

\* The expander multiplies by an inverse of the threshold kept with twice the
\* digits, because the level is the smaller of the two.
ExpanderGain(arith, level, threshold, slope) ==
  IF arith = "float"
  THEN IF level >= threshold THEN Unit
       ELSE Power(Nearest(level * Unit, threshold), slope, 1)
  ELSE IF slope = 0 \/ threshold <= level THEN MaxInt
  ELSE LET inverse == (2 * Unit * Unit - 1) \div threshold
           g == Float32(Power(Float32((level * inverse) \div (2 * Unit)), slope, 1))
       IN  IF g >= Unit THEN MaxInt ELSE g

\* The soft knee: a straight line in the power of the signal from (x1, 1.0) to
\* (x2, y2), where x1 is 5 dB under the threshold, x2 half way from the
\* threshold to 5 dB over it and y2 what the hard knee gives there.
NoKnee == [start |-> 0, end |-> 0, y2 |-> 0]

Knee(threshold, slope) ==
  [start |-> Nearest(6 * threshold, 19),
   end   |-> Smaller(Nearest(25 * threshold, 12), MaxInt),
   y2    |-> Power(Nearest(12 * Unit, 25), slope[1], slope[2])]

\* Below the knee, on its line and above it. There is no test for a result of
\* 1.0 or more, which wraps, nor for a ratio that has wrapped below zero, whose
\* fractional power is not a number.
NotANumber == 2 * Unit

SoftKneeGain(level, threshold, slope, knee) ==
  IF level < knee.start THEN MaxInt
  ELSE IF level < knee.end
  THEN Int32(Unit - ((Unit - knee.y2) * (level - knee.start)) \div (knee.end - knee.start))
  ELSE IF Ratio(threshold, level) < 0 THEN NotANumber
  ELSE Int32(Float32(Power(Float32(Ratio(threshold, level)), slope[1], slope[2])))
===============================================================================
