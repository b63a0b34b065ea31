----------------------------- MODULE DynamicRange -----------------------------
(* A dynamic range control block of audio_dsp/dsp/drc and the stage around it: *)
(* an envelope detector per detection channel, a gain law, and a gain that     *)
(* moves towards what the law asks for. The kinds share one structure and      *)
(* differ in the detector, the law, the direction the attack time is for, the  *)
(* number of channels and what the detector listens to.                        *)
EXTENDS GainRules, Sequences, FiniteSetsExt

CONSTANTS
  Kinds,       \* the blocks to look at, of AllKinds
  Samples,     \* the sample values of one input channel
  Pairs,       \* and of two
  Levels,      \* threshold levels, before calculate_threshold
  Times,       \* attack and release times, in samples
  Ratios,      \* compression and expansion ratios
  Presets      \* parameters of a stage: <<level, attack, release, ratio>>

VARIABLES
  kind, arith,            \* which block, processed in which arithmetic
  level, attack, release, ratio,  \* the attributes a caller sets
  knee,                   \* the soft knee's line, computed from them
  input,                  \* the samples being fed: signal and detection channels
  env, gain               \* the block's state

attributes == <<level, attack, release, ratio>>
vars == <<kind, arith, attributes, knee, input, env, gain>>

Detectors == {"envelope_detector_peak", "envelope_detector_rms"}
PeakKinds == {"envelope_detector_peak", "limiter_peak", "hard_limiter_peak",
              "limiter_peak_stereo", "noise_gate", "noise_suppressor_expander"}
Limiters == {"limiter_peak", "hard_limiter_peak", "limiter_rms", "limiter_peak_stereo"}
Expanders == {"noise_gate", "noise_suppressor_expander"}
SidechainKinds == {"compressor_rms_sidechain_mono", "compressor_rms_sidechain_stereo"}
StereoKinds == {"limiter_peak_stereo", "compressor_rms_stereo", "compressor_rms_sidechain_stereo"}
Compressors == {"compressor_rms", "compressor_rms_softknee", "compressor_rms_stereo"} \union SidechainKinds
AllKinds == Detectors \union {"clipper"} \union Limiters \union Expanders \union Compressors

\* The kinds that have a ratio.
RatioKinds == Compressors \union {"noise_suppressor_expander"}

ASSUME DynamicRangeAssumption ==
  /\ Kinds \subseteq AllKinds
  /\ Samples \subseteq Word /\ Pairs \subseteq Samples \X Samples /\ Levels \subseteq Nat
  /\ Times \subseteq Int /\ Ratios \subseteq Nat
  /\ Presets \subseteq Levels \X Times \X Times \X Ratios

RatioOf(k, r) == IF k \in RatioKinds THEN r ELSE 1

Power2(k) == k \notin PeakKinds \union {"clipper"}
Channels(k) == IF k \in StereoKinds THEN {1, 2} ELSE {1}
Frames(k) == IF k \in StereoKinds THEN Pairs ELSE {<<s>> : s \in Samples}

\* What the block hears: the channels it changes and those it listens to, which
\* are the same except with a side chain.
Inputs(k) ==
  IF k \in SidechainKinds THEN [signal : Frames(k), detect : Frames(k)]
  ELSE {[signal |-> f, detect |-> f] : f \in Frames(k)}

ThresholdOf(k, lev) == Threshold(arith, lev, Power2(k))
Alpha(time) == AlphaFromTime(arith, time)

-------------------------------------------------------------------------------
(* The block.                                                                  *)

\* reset_state: silence was heard, or full scale by the blocks that close on
\* silence, and the gain is open.
ResetEnvelope(k, a) == IF k \in Expanders THEN (IF a = "float" THEN One ELSE One - 1) ELSE 0
ResetState ==
  /\ env' = [c \in Channels(kind) |-> ResetEnvelope(kind, arith)]
  /\ gain' = Unity(arith)

\* What a detector follows: the magnitude or the power of the sample.
Heard(k, sample) ==
  IF ~Power2(k) THEN Magnitude(sample)
  ELSE IF arith = "float" THEN Nearest(sample * sample, One)
  ELSE MultSatExtract(One \div 2 + sample * sample, 1, One)

DetectorAlpha(e, heard) == Alpha(IF heard > e THEN attack ELSE release)

Detect(k, e, sample) ==
  LET heard == Heard(k, sample)
  IN  CalcEma(arith, e, heard, DetectorAlpha(e, heard))

\* The gain the law asks for when the detectors stand at e: the loudest channel
\* decides, and the least level is one step.
GainCalc(k, e) ==
  LET loudest == Larger(1, Max({e[c] : c \in DOMAIN e}))
      t == ThresholdOf(k, level)
  IN  CASE k \in {"limiter_peak", "hard_limiter_peak", "limiter_peak_stereo"} -> LimiterPeakGain(arith, loudest, t)
        [] k = "limiter_rms" -> LimiterRmsGain(arith, loudest, t)
        [] k = "noise_gate" -> NoiseGateGain(arith, loudest, t)
        [] k = "noise_suppressor_expander" -> ExpanderGain(arith, loudest, t, ExpanderSlope(ratio))
        [] k = "compressor_rms_softknee" -> SoftKneeGain(loudest, t, CompressorSlope(ratio), knee)
        [] OTHER -> CompressorRmsGain(arith, loudest, t, CompressorSlope(ratio))

\* The attack time of a compressor is for a falling gain, that of an expander
\* for a rising one.
GainAlpha(k, g, target) ==
  Alpha(IF (target < g) = (k \in Expanders) THEN release ELSE attack)

SmoothGain(k, g, target) == CalcEma(arith, g, target, GainAlpha(k, g, target))

\* clipper.process and the last step of the hard limiter.
Clip(sample, t) == Clamp(sample, -t, t)

\* What comes out for a sample once the gain has moved: the envelope itself from
\* a detector.
Amplify(k, g, sample) ==
  LET y == ApplyGain(arith, sample, g)
  IN  CASE k = "clipper" -> Clip(sample, ThresholdOf(k, level))
        [] k = "hard_limiter_peak" -> Clip(y, ThresholdOf(k, level))
        [] OTHER -> y

Output == [c \in Channels(kind) |->
             IF kind \in Detectors THEN env[c] ELSE Amplify(kind, gain, input.signal[c])]

-------------------------------------------------------------------------------
(* What changes it.                                                            *)

\* The source goes on to feed another value.
Feed ==
  /\ input' \in Inputs(kind)
  /\ UNCHANGED <<kind, arith, attributes, knee, env, gain>>

\* A detector on its own.
ProcessDetector ==
  /\ kind \in Detectors
  /\ env' = [c \in Channels(kind) |-> Detect(kind, env[c], input.detect[c])]
  /\ UNCHANGED <<kind, arith, attributes, knee, input, gain>>

\* A sample of each channel through detectors, law, smoothing and gain. The
\* conversion of a result that is not a number raises, after the detectors moved.
Step(heard) ==
  /\ \E e \in {[c \in Channels(kind) |-> Detect(kind, env[c], heard[c])]} :
       \E target \in {GainCalc(kind, e)} :
         /\ env' = e
         /\ gain' = IF target = NotANumber THEN gain ELSE SmoothGain(kind, gain, target)
  /\ UNCHANGED <<kind, arith, attributes, knee, input>>

\* process and process_xcore of each family: what is played decides, or with a
\* side chain what it is given to listen to.
ProcessLimiter == kind \in Limiters \ StereoKinds /\ Step(input.signal)
ProcessCompressor == kind \in Compressors \ (StereoKinds \union SidechainKinds) /\ Step(input.signal)
ProcessExpander == kind \in Expanders /\ Step(input.signal)
ProcessStereo == kind \in StereoKinds \ SidechainKinds /\ Step(input.signal)
ProcessSidechainMono == kind \in SidechainKinds \ StereoKinds /\ Step(input.detect)
ProcessSidechainStereo == kind \in SidechainKinds \cap StereoKinds /\ Step(input.detect)

\* The attributes' setters. Only the ratio's computes the knee.
SetThreshold(lev) ==
  /\ level' = lev
  /\ UNCHANGED <<kind, arith, attack, release, ratio, knee, input, env, gain>>

SetAttack(time) ==
  /\ attack' = time
  /\ UNCHANGED <<kind, arith, level, release, ratio, knee, input, env, gain>>

SetRelease(time) ==
  /\ release' = time
  /\ UNCHANGED <<kind, arith, level, attack, ratio, knee, input, env, gain>>

KneeOf(k, lev, r) ==
  IF k = "compressor_rms_softknee" THEN Knee(ThresholdOf(k, lev), CompressorSlope(r)) ELSE NoKnee

SetRatio(r) ==
  /\ kind \in RatioKinds
  /\ ratio' = r
  /\ knee' = KneeOf(kind, level, r)
  /\ UNCHANGED <<kind, arith, level, attack, release, input, env, gain>>

Reset ==
  /\ ResetState
  /\ UNCHANGED <<kind, arith, attributes, knee, input>>

\* set_parameters of the stages, which all make a new block of the new
\* attributes; a clipper has only a threshold and a detector only times.
Remake(p) ==
  /\ level' = p[1] /\ attack' = p[2] /\ release' = p[3]
  /\ ratio' = RatioOf(kind, p[4])
  /\ knee' = NoKnee
  /\ ResetState
  /\ UNCHANGED <<kind, arith, input>>

LimiterRMS(p) == kind = "limiter_rms" /\ Remake(p)
LimiterPeak(p) == kind = "limiter_peak" /\ Remake(p)
HardLimiterPeak(p) == kind = "hard_limiter_peak" /\ Remake(p)
Clipper(p) == kind = "clipper" /\ Remake(p)
CompressorRMS(p) == kind = "compressor_rms" /\ Remake(p)
CompressorSidechain(p) == kind = "compressor_rms_sidechain_mono" /\ Remake(p)
CompressorSidechainStereo(p) == kind = "compressor_rms_sidechain_stereo" /\ Remake(p)
EnvelopeDetectorPeak(p) == kind = "envelope_detector_peak" /\ Remake(p)
EnvelopeDetectorRMS(p) == kind = "envelope_detector_rms" /\ Remake(p)
NoiseGate(p) == kind = "noise_gate" /\ Remake(p)
NoiseSuppressorExpander(p) == kind = "noise_suppressor_expander" /\ Remake(p)

SetParameters(p) ==
  \/ LimiterRMS(p) \/ LimiterPeak(p) \/ HardLimiterPeak(p) \/ Clipper(p)
  \/ CompressorRMS(p) \/ CompressorSidechain(p) \/ CompressorSidechainStereo(p)
  \/ EnvelopeDetectorPeak(p) \/ EnvelopeDetectorRMS(p)
  \/ NoiseGate(p) \/ NoiseSuppressorExpander(p)

-------------------------------------------------------------------------------
Init ==
  /\ kind \in Kinds
  /\ arith \in (IF kind = "compressor_rms_softknee" THEN {"xcore"} ELSE Arithmetics)
  /\ \E p \in Presets : level = p[1] /\ attack = p[2] /\ release = p[3]
                    /\ ratio = RatioOf(kind, p[4])
  /\ knee = KneeOf(kind, level, ratio)
  /\ input \in Inputs(kind)
  /\ env = [c \in Channels(kind) |-> ResetEnvelope(kind, arith)]
  /\ gain = Unity(arith)

Next ==
  \/ Feed \/ ProcessDetector \/ Reset
  \/ ProcessLimiter \/ ProcessCompressor \/ ProcessExpander
  \/ ProcessStereo \/ ProcessSidechainMono \/ ProcessSidechainStereo
  \/ \E lev \in Levels : SetThreshold(lev)
  \/ \E time \in Times : SetAttack(time) \/ SetRelease(time)
  \/ \E r \in Ratios : SetRatio(r)
  \/ \E p \in Presets : SetParameters(p)

Spec == Init /\ [][Next]_vars

-------------------------------------------------------------------------------
(* What it promises.                                                           *)

TypeOK ==
  /\ kind \in Kinds /\ arith \in Arithmetics
  /\ env \in [Channels(kind) -> IF arith = "xcore" THEN Word ELSE 0 .. Unit * Unit]
  /\ gain \in IF arith = "xcore" THEN Word ELSE 0 .. Unit

\* A dynamic range block only turns down: whatever was played and set before,
\* no output sample is larger than the input sample it comes from.
NeverLouder ==
  kind \notin Detectors =>
    \A c \in Channels(kind) : Magnitude(Output[c]) <= Magnitude(input.signal[c])

\* Around the level the detectors show, the next gain is monotonic: a louder
\* signal is not turned down less by a compressor, nor more by an expander, and
\* no gain turns the signal over. Excepted is a soft knee computed for another
\* threshold, or one whose line has wrapped.
KneeHolds == kind = "compressor_rms_softknee" =>
  knee = KneeOf(kind, level, ratio) /\ GainCalc(kind, env) >= 0 /\ gain >= 0

NextGain(e) == SmoothGain(kind, gain, GainCalc(kind, e))

GainCurveMonotone ==
  LET above == [c \in DOMAIN env |-> env[c] + 1]
  IN  /\ kind \in Limiters \union Compressors /\ KneeHolds
           => 0 <= NextGain(above) /\ NextGain(above) <= NextGain(env)
      /\ kind \in Expanders => NextGain(env) <= NextGain(above)

\* A moving average goes towards its goal and never past it, and it only stops
\* closer to it than one step can resolve; in fixed point never above it.
MovesTo(v, next, goal, alpha) ==
  /\ Smaller(v, goal) <= next /\ next <= Larger(v, goal)
  /\ next = v => /\ Magnitude(goal - v) * alpha < Unit
                 /\ arith = "xcore" /\ alpha > 0 => v <= goal

\* While the input stays what it is, envelope and gain settle on what the law
\* asks for: a limiter limits, a compressor that has turned down comes back, a
\* gate that has closed opens. Excepted is the lowest word, whose magnitude is
\* no word, and what a block that has heard it takes for its envelope.
SmoothingArrives ==
  kind # "clipper" /\ KneeHolds /\ (\A c \in DOMAIN env : env[c] >= 0) =>
    /\ \A c \in DOMAIN env :
         LET heard == Heard(kind, input.detect[c])
         IN  heard <= MaxInt => MovesTo(env[c], Detect(kind, env[c], input.detect[c]), heard, DetectorAlpha(env[c], heard))
    /\ kind \notin Detectors =>
         LET target == GainCalc(kind, env)
         IN  MovesTo(gain, SmoothGain(kind, gain, target), target, GainAlpha(kind, gain, target))

\* What the detectors' documentation says of a signal above the envelope: it
\* ramps up. The lowest word makes it fall.
EnvelopeRampsUp ==
  kind # "clipper" => \A c \in DOMAIN env :
    Heard(kind, input.detect[c]) > env[c] => Detect(kind, env[c], input.detect[c]) >= env[c]
===============================================================================
