-------------------------------- MODULE Biquad ---------------------------------
(* The blocks biquad and biquad_slew of audio_dsp/dsp/biquad.py in fixed point *)
(* and the stages Biquad and BiquadSlew around them: a second order section    *)
(* whose filter is replaced while it runs. The plain block starts again with   *)
(* the new filter; the slewing one moves coefficient by coefficient, and may   *)
(* have to change the format of its numerator, by one bit at a time, under a   *)
(* signal that is already in flight.                                           *)
EXTENDS BiquadDesign, FiniteSetsExt

CONSTANTS
  Designs,       \* the filters a caller asks for
  BiquadFrames,  \* a sample per channel
  SlewShifts,
  MaxFilters     \* how often the filter is set

ASSUME BiquadAssumption ==
  /\ \A d \in Designs : d \in [1 .. 6 -> Int] /\ d[4] > 0 /\ \E s \in 0 .. Unit : Octaves(d, s)
  /\ \A f \in BiquadFrames : /\ f \in [DOMAIN f -> Word] /\ 1 \in DOMAIN f
                            /\ \A g \in BiquadFrames : DOMAIN g = DOMAIN f
  /\ SlewShifts \subseteq Nat /\ MaxFilters \in Nat

\* The block: slews or not, the coefficients in use and those aimed at, the
\* numerator's shift and how much of it is still to be undone, and per channel
\* the last two inputs and outputs; fresh are the channels in which these are
\* still the floats that reset_state puts there, until the first sample makes
\* integers of them. asked is the stage's parameters, the last filter that was
\* accepted, and sets how often it was set.
VARIABLE biquad

BiquadBlock(slews, d, channels) ==
  [kind |-> "biquad", slews |-> slews, coeffs |-> RoundToQ30(d), target |-> RoundToQ30(d),
   shift |-> GetBShift(d), remaining |-> 0, slew |-> 2,
   x |-> [c \in channels |-> <<0, 0>>], y |-> [c \in channels |-> <<0, 0>>], fresh |-> channels,
   asked |-> d, sets |-> 0]

Silent(b) ==
  [b EXCEPT !.x = [c \in DOMAIN b.x |-> <<0, 0>>], !.y = [c \in DOMAIN b.y |-> <<0, 0>>],
            !.fresh = DOMAIN b.y]

-------------------------------------------------------------------------------
(* update_coeffs. The shift is taken over before the filter is checked, and a  *)
(* filter that does not pass raises.                                           *)

Refused(b, d) == [b EXCEPT !.shift = GetBShift(d)]

UpdateCoeffs(b, d) ==
  Silent([b EXCEPT !.shift = GetBShift(d), !.coeffs = RoundToQ30(d), !.target = RoundToQ30(d),
                   !.asked = d])

\* More headroom is taken at once: the numerator in use and the outputs heard
\* are shifted down. Less is only noted, for process to take bit by bit.
ShiftDown(v, by) == v \div 2 ^ by

UpdateSlewed(b, d) ==
  LET change == b.shift - GetBShift(d)
      aimed == [b EXCEPT !.target = RoundToQ30(d), !.asked = d, !.shift = GetBShift(d)]
  IN  IF change > 0 THEN [aimed EXCEPT !.remaining = change, !.shift = b.shift]
      ELSE [aimed EXCEPT
              !.coeffs = [i \in 1 .. 5 |-> IF i <= 3 THEN ShiftDown(b.coeffs[i], -change) ELSE b.coeffs[i]],
              !.y = [c \in DOMAIN b.y |-> [i \in 1 .. 2 |-> ShiftDown(b.y[c][i], -change)]]]

-------------------------------------------------------------------------------
(* process_channels_xcore: slew, then filter.                                  *)

\* What the coefficients move to while the numerator is still shifted further.
Aim(b) == [i \in 1 .. 5 |-> IF i <= 3 THEN ShiftDown(b.target[i], b.remaining) ELSE b.target[i]]

SlewedCoeffs(b) ==
  [i \in 1 .. 5 |-> b.coeffs[i] + ShiftDown(SaturateInt32Vpu(Aim(b)[i] - b.coeffs[i]), b.slew)]

\* mutants: a bit more room than needed; the outputs forgotten
HeadroomTooShy(b) ==
  /\ \A i \in 1 .. 3 : Magnitude(b.coeffs[i]) < Half \div 2
  /\ \A c \in DOMAIN b.y, i \in 1 .. 2 : Magnitude(b.y[c][i]) < Half
HeadroomOfCoeffs(b) == \A i \in 1 .. 3 : Magnitude(b.coeffs[i]) < Half

\* A bit of shift is given back once numerator and outputs have room for it.
HasHeadroom(b) ==
  /\ \A i \in 1 .. 3 : Magnitude(b.coeffs[i]) < Half
  /\ \A c \in DOMAIN b.y, i \in 1 .. 2 : Magnitude(b.y[c][i]) < Half

\* The numerator is doubled before the outputs are, and these only when all of
\* them are integers: a float cannot be shifted and raises, with the shift not
\* yet counted.
DoubleNumerator(b) ==
  [b EXCEPT !.coeffs = [i \in 1 .. 5 |-> IF i <= 3 THEN Int32(2 * @[i]) ELSE @[i]]]

GiveBack(b) ==
  [DoubleNumerator(b) EXCEPT !.y = [c \in DOMAIN b.y |-> [i \in 1 .. 2 |-> Int32(2 * b.y[c][i])]],
                             !.remaining = @ - 1, !.shift = @ - 1]

Moved(b) == [b EXCEPT !.coeffs = SlewedCoeffs(b)]
GivesBack(b) == b.slews /\ b.remaining > 0 /\ HasHeadroom(Moved(b))
StopsHalfWay(b) == GivesBack(b) /\ b.fresh # {}

Slew(b) ==
  IF ~b.slews THEN b
  ELSE IF StopsHalfWay(b) THEN DoubleNumerator(Moved(b))
  ELSE IF GivesBack(b) THEN GiveBack(Moved(b)) ELSE Moved(b)

\* process_xcore of one channel.
Filter(b, c, sample) ==
  LET q == b.coeffs
  IN  SaturateInt32(VpuMult(sample, q[1], Half) + VpuMult(b.x[c][1], q[2], Half)
        + VpuMult(b.x[c][2], q[3], Half) + VpuMult(b.y[c][1], q[4], Half) + VpuMult(b.y[c][2], q[5], Half))

Filtered(b, frame, channels) ==
  [b EXCEPT !.x = [c \in DOMAIN b.x |-> IF c \in channels THEN <<frame[c], b.x[c][1]>> ELSE b.x[c]],
            !.y = [c \in DOMAIN b.y |->
                     IF c \in channels THEN <<Filter(b, c, frame[c]), b.y[c][1]>> ELSE b.y[c]],
            !.fresh = @ \ channels]

\* Nor can anything be shifted by less than nothing: with a negative shift the
\* first channel raises once it has stored its sample.
Processed(b, frame) ==
  IF StopsHalfWay(b) THEN Slew(b)
  ELSE Filtered(Slew(b), frame, IF Slew(b).shift < 0 THEN {1} ELSE DOMAIN b.y)

\* What the channel puts out: its last output without the numerator's shift.
BiquadOutput(b, c) == SaturateInt32(b.y[c][1] * 2 ^ b.shift)

-------------------------------------------------------------------------------
BiquadInit ==
  \E slews \in BOOLEAN : biquad = BiquadBlock(slews, Bypass, DOMAIN CHOOSE f \in BiquadFrames : TRUE)

\* The stage's set_parameters; update_coeffs raises for a filter it refuses.
Asked(b, d) ==
  IF ~Accepted(d) THEN Refused(b, d) ELSE IF b.slews THEN UpdateSlewed(b, d) ELSE UpdateCoeffs(b, d)

Counted(b) == [b EXCEPT !.sets = @ + 1]

SetFilter(d) ==
  /\ biquad.kind = "biquad" /\ biquad.sets < MaxFilters
  /\ biquad' = Counted(Asked(biquad, d))

\* set_slew_shift sets all the parameters again.
SetSlewShift(s) ==
  /\ biquad.kind = "biquad" /\ biquad.slews /\ biquad.sets < MaxFilters
  /\ biquad' = Counted([Asked(biquad, biquad.asked) EXCEPT !.slew = Larger(s, 1)])

ProcessBiquad(frame) ==
  /\ biquad.kind = "biquad"
  /\ biquad' = Processed(biquad, frame)

BiquadNext ==
  \/ \E d \in Designs : SetFilter(d)
  \/ \E s \in SlewShifts : SetSlewShift(s)
  \/ \E frame \in BiquadFrames : ProcessBiquad(frame)

-------------------------------------------------------------------------------
\* The shift leads to the asked filter's; a call that does not raise; a slew that
\* has filtered a sample and would not move again; how far a coefficient is from
\* what it slews to, in the target's format.
AtTargetShift(b) == b.shift - b.remaining = GetBShift(b.asked)
PutsOut(b) == ~StopsHalfWay(b) /\ Slew(b).shift >= 0
AtRest(b) == b.fresh = {} /\ Slew(b) = b /\ \A c \in DOMAIN b.y : b.y[c] = <<0, 0>>
Astray(b, i) ==
  IF i <= 3 THEN Magnitude(b.coeffs[i] * 2 ^ b.remaining - b.target[i])
  ELSE Magnitude(b.coeffs[i] - b.target[i])
===============================================================================
