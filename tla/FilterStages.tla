----------------------------- MODULE FilterStages ------------------------------
(* The filter stages of a pipeline, each with the block that does its work: a  *)
(* behaviour is the life of one stage, a biquad, an FIR filter or a reverb.    *)
EXTENDS Biquad, BlockFir, Reverb

VARIABLE stage   \* which of the three lives

Idle == [kind |-> "none"]
vars == <<stage, biquad, fir, verb>>

Init ==
  \/ stage = "biquad" /\ BiquadInit /\ fir = Idle /\ verb = Idle
  \/ stage = "fir" /\ FirInit /\ biquad = Idle /\ verb = Idle
  \/ stage = "reverb" /\ VerbInit /\ biquad = Idle /\ fir = Idle

Next ==
  \/ BiquadNext /\ UNCHANGED <<stage, fir, verb>>
  \/ FirNext /\ UNCHANGED <<stage, biquad, verb>>
  \/ VerbNext /\ UNCHANGED <<stage, biquad, fir>>

Spec == Init /\ [][Next]_vars

-------------------------------------------------------------------------------
\* A slew that has come to rest in silence owes no shift any more: the steps
\* that wait for headroom are never left waiting, so the stage ends up with the
\* numerator it was asked for and not with a share of it. (biquad_slew)
SlewComesToRest ==
  stage = "biquad" => (AtTargetShift(biquad) /\ AtRest(biquad) => biquad.remaining = 0)

\* Changing the format of the numerator under a running signal is not heard: a
\* step of the slew that puts a frame out leaves every output still in flight at
\* the loudness it had, and takes no coefficient further from its target than
\* the bits that the outstanding shift cannot hold. (biquad_slew)
SlewIsSmooth ==
  [][stage = "biquad" /\ biquad'.sets = biquad.sets /\ PutsOut(biquad) =>
       /\ \A c \in DOMAIN biquad.y :
            biquad'.y[c][2] * 2 ^ biquad'.shift = biquad.y[c][1] * 2 ^ biquad.shift
       /\ AtTargetShift(biquad) => \A i \in 1 .. 5 : 
            Astray(biquad', i) <= Larger(Astray(biquad, i), 2 ^ biquad.remaining)]_vars

\* "The applied coefficients are slewed towards the new target values": with
\* every frame, whether it can be put out or not. (biquad_slew)
CoeffsSlewTowards ==
  [][stage = "biquad" /\ biquad'.sets = biquad.sets /\ AtTargetShift(biquad) =>
       \A i \in 1 .. 5 : Astray(biquad', i) <= Larger(Astray(biquad, i), 2 ^ biquad.remaining)]_vars

\* Whatever the ring, the window or the phases: what a filter puts out is the
\* convolution of everything it heard; exactly, but for the rounding of each tap
\* in fixed point. (fir_direct, fir_block_td, fir_block_fd)
FirIsConvolution ==
  stage = "fir" /\ fir.kind # "none" /\ fir.heard # << >> =>
    \A i \in DOMAIN fir.out :
      IF fir.kind = "direct"
      THEN 2 * Magnitude(fir.out[i] * FirUnit - Convolution(fir, i)) <= (Len(fir.taps) + 1) * FirUnit
      ELSE fir.out[i] = Convolution(fir, i)

\* "force the comb filter/all pass feedback to converge to zero and avoid limit
\* noise": once the input is silent a reverb's tail ends, whatever its settings
\* did before, and nothing comes back. (scale_sat_int64_to_int32_floor)
SilenceDecays ==
  stage = "reverb" /\ verb.silent > MaxTail => \A s \in DOMAIN verb.out : verb.out[s] = 0

\* The plate's taps and the rings they read advance by counters of their own and
\* never drift apart, through resets and new settings. (reverb_plate_stereo)
TapsTrackDelays ==
  stage = "reverb" /\ verb.kind = "plate" =>
    \A s \in Sides, n \in 0 .. 6 :
      LET ring == TapRing(verb, s, n)
      IN  (ring.idx - verb.taps[s][n]) % ring.delay = PlateTaps[s][n] % ring.delay

\* "The applied coefficients are slewed towards the new target values": whatever
\* filters were asked for, and when, the shift in use is that of the last one,
\* or will be when what is outstanding is given back. (biquad_slew)
TargetShift == stage = "biquad" => AtTargetShift(biquad)
===============================================================================
