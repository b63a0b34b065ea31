----------------------------- MODULE BiquadDesign ------------------------------
(* The filter designs of audio_dsp/dsp/biquad.py. A design function turns a    *)
(* frequency, a width and a gain into the six numbers of a second order        *)
(* section, <<b0, b1, b2, a0, a1, a2>>; only their ratios matter, so every     *)
(* design is a tuple of integers here. A parameter is a number over Grid: c is *)
(* the cosine of the filter's frequency, alpha its width, g a gain. How those  *)
(* three come from Hertz, quality and decibels is left out.                    *)
EXTENDS FixedPoint

CONSTANT Grid

ASSUME BiquadDesignAssumption == Grid \in Nat \ {0}

\* A numerator over the denominator most designs share.
Resonance(b, c, alpha) == <<b[1], b[2], b[3], Grid + alpha, -2 * c, Grid - alpha>>

Bypass == <<1, 0, 0, 1, 0, 0>>
Mute == <<0, 0, 0, 1, 0, 0>>
Gain(g) == <<g, 0, 0, Grid, 0, 0>>

Lowpass(c, alpha) ==
  <<Grid - c, 2 * (Grid - c), Grid - c, 2 * (Grid + alpha), -4 * c, 2 * (Grid - alpha)>>

Highpass(c, alpha) ==
  <<Grid + c, -2 * (Grid + c), Grid + c, 2 * (Grid + alpha), -4 * c, 2 * (Grid - alpha)>>

Bandpass(c, alpha) == Resonance(<<alpha, 0, -alpha>>, c, alpha)
Bandstop(c, alpha) == Resonance(<<Grid, -2 * c, Grid>>, c, alpha)
Notch(c, alpha) == Resonance(<<Grid, -2 * c, Grid>>, c, alpha)
Allpass(c, alpha) == Resonance(<<Grid - alpha, -2 * c, Grid + alpha>>, c, alpha)

Peaking(c, alpha, g) ==
  <<g * (Grid * Grid + alpha * g), -2 * c * Grid * g, g * (Grid * Grid - alpha * g),
    Grid * Grid * (g + alpha), -2 * c * Grid * g, Grid * Grid * (g - alpha)>>

\* Its frequency comes as the tangent k of half the angle; width is k over the quality.
ConstantQ(k, width, g) ==
  LET side == k * k + Grid * Grid
      middle == 2 * (k * k - Grid * Grid)
  IN  IF g > Grid
      THEN <<side + g * width, middle, side - g * width,
             side + Grid * width, middle, side - Grid * width>>
      ELSE <<g * (side + Grid * width), g * middle, g * (side - Grid * width),
             g * side + Grid * Grid * width, g * middle, g * side - Grid * Grid * width>>

\* In a shelf beta is twice the root of the gain times the width.
Lowshelf(c, beta, g) ==
  <<g * ((g + Grid) * Grid - (g - Grid) * c + beta * Grid),
    2 * g * ((g - Grid) * Grid - (g + Grid) * c),
    g * ((g + Grid) * Grid - (g - Grid) * c - beta * Grid),
    Grid * ((g + Grid) * Grid + (g - Grid) * c + beta * Grid),
    -2 * Grid * ((g - Grid) * Grid + (g + Grid) * c),
    Grid * ((g + Grid) * Grid + (g - Grid) * c - beta * Grid)>>

Highshelf(c, beta, g) ==
  <<g * ((g + Grid) * Grid + (g - Grid) * c + beta * Grid),
    -2 * g * ((g - Grid) * Grid + (g + Grid) * c),
    g * ((g + Grid) * Grid + (g - Grid) * c - beta * Grid),
    Grid * ((g + Grid) * Grid - (g - Grid) * c + beta * Grid),
    2 * Grid * ((g - Grid) * Grid - (g + Grid) * c),
    Grid * ((g + Grid) * Grid - (g - Grid) * c - beta * Grid)>>

\* The Linkwitz transform moves the poles d0, d1 of a speaker to c0, c1; gn is the
\* bilinear transform's frequency.
Linkwitz(d0, d1, c0, c1, gn) ==
  <<d0 + gn * d1 + gn * gn, 2 * (d0 - gn * gn), d0 - gn * d1 + gn * gn,
    c0 + gn * c1 + gn * gn, 2 * (c0 - gn * gn), c0 - gn * c1 + gn * gn>>

-------------------------------------------------------------------------------
(* What update_coeffs makes of a design: coefficients in a format whose 1.0 is *)
(* Unit / 2, the numerator shifted down until it fits.                         *)

Half == Unit \div 2

\* The loudest numerator's whole octaves above 1.0.
Loudest(d) == Larger(Larger(Magnitude(d[1]), Magnitude(d[2])), Magnitude(d[3]))
Octaves(d, s) == (s > 0 => 2 ^ s * d[4] <= Loudest(d)) /\ Loudest(d) < 2 ^ (s + 1) * d[4]
GetBShift(d) == CHOOSE s \in 0 .. Unit : Octaves(d, s)

RoundToQ30(d) ==
  LET over == d[4] * 2 ^ GetBShift(d)
  IN  <<Nearest(d[1] * Half, over), Nearest(d[2] * Half, over), Nearest(d[3] * Half, over),
        Nearest(-d[5] * Half, d[4]), Nearest(-d[6] * Half, d[4])>>

\* Both poles inside the unit circle, and every coefficient a word.
Stable(q) == Magnitude(q[5]) < Half /\ Magnitude(q[4]) < Half - q[5]
Accepted(d) == LET q == RoundToQ30(d) IN Stable(q) /\ \A i \in 1 .. 5 : q[i] \in Word

-------------------------------------------------------------------------------
(* What a design promises at the two ends of the spectrum, where z is 1 and -1.*)

DcOut(d) == d[1] + d[2] + d[3]
DcIn(d) == d[4] + d[5] + d[6]
NyquistOut(d) == d[1] - d[2] + d[3]
NyquistIn(d) == d[4] - d[5] + d[6]
StableDesign(d) == d[4] > 0 /\ Magnitude(d[6]) < d[4] /\ Magnitude(d[5]) < d[4] + d[6]
===============================================================================
