------------------------------ MODULE FixedPoint ------------------------------
(* The 32-bit arithmetic of audio_dsp/dsp/utils.py on words of any width.      *)
(* A shift by n bits is a division by 2^n that rounds down, so formats are     *)
(* named by their unit and not by their bit count: Unit is 2^31, the 1.0 of a  *)
(* gain or of a smoothing factor and the first value past the largest word;    *)
(* One is the 1.0 of the signal, 2^Q_sig with Q_sig = 27, or of a gain in      *)
(* Q_GAIN = 27: the two formats are the same.                                  *)
(*                                                                             *)
(* The floating point twin of every block works on the same grid: a float is   *)
(* the nearest multiple of its format's last place, the rounding of IEEE       *)
(* doubles with fewer digits; it never wraps.                                  *)
EXTENDS Integers

CONSTANTS Unit, One

ASSUME FixedPointAssumption == Unit \in Nat /\ One \in Nat /\ 1 < One /\ One < Unit

MaxInt == Unit - 1
MinInt == -Unit
Word == MinInt .. MaxInt

Smaller(a, b) == IF a < b THEN a ELSE b
Larger(a, b) == IF a > b THEN a ELSE b
Clamp(v, lo, hi) == IF v < lo THEN lo ELSE IF v > hi THEN hi ELSE v
Magnitude(v) == IF v < 0 THEN -v ELSE v

\* The wrap of a value to a word.
Int32(v) == ((v + Unit) % (2 * Unit)) - Unit

\* Clamping to a word. The vector unit's clamp is symmetric.
SaturateInt32(v) == Clamp(v, MinInt, MaxInt)
SaturateInt32Vpu(v) == Clamp(v, -MaxInt, MaxInt)

\* The quotient n / d rounded to the nearest integer.
Nearest(n, d) == (2 * n + d) \div (2 * d)

\* The product held in 64 bits, clamped so that what is left after dropping the
\* digits below unit q is a word.
MultSatExtract(x, y, q) == Clamp(x * y, MinInt * q, Unit * q - 1) \div q

\* The product of two words in the vector unit's format, rounded to nearest.
VpuMult(x, y, q) == (x * y + q \div 2) \div q

\* check_time_units and time_to_samples: an unknown unit counts samples, a
\* negative time is none.
CheckTimeUnits(units) == IF units \in {"samples", "ms", "s"} THEN units ELSE "samples"
SamplesPer(fs, units) ==
  CASE CheckTimeUnits(units) = "s" -> fs
    [] CheckTimeUnits(units) = "ms" -> fs \div 1000
    [] OTHER -> 1
TimeToSamples(fs, time, units) == Larger(time, 0) * SamplesPer(fs, units)
===============================================================================
