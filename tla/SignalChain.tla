----------------------------- MODULE SignalChain ------------------------------
(* The blocks of audio_dsp/dsp/signal_chain.py and the stages around them in   *)
(* audio_dsp/stages/signal_chain.py: one stage object of any kind, its stored  *)
(* parameters, the DSP block that its control fields are read from, and the    *)
(* samples that go through. A gain is on the signal's grid (Q_GAIN = Q_sig),   *)
(* a crossfader's gain on Unit's.                                              *)
EXTENDS FixedPoint, Sequences

CONSTANTS
  Kinds,        \* the stages to look at, of AllKinds
  Frames,       \* the frames of one sample per channel that are fed
  Gains,        \* gains a caller asks for
  MaxGain,      \* what +24 dB is: a caller's gain is cut to it
  Shifts,       \* slew rates, as the power of two divided by
  Positions,    \* switch positions
  SlewStep,     \* how far a sample takes the switch through its crossfade
  MaxDelay, Delays, Units, Fs,   \* the delay line, times in any unit
  Mixes,        \* crossfader mixes, on Unit's grid
  MixGains,     \* and the gains of both inputs each gives, on Unit's grid
  Routes        \* channel states of a router

VARIABLES
  kind, arith,  \* the stage, and whether process or process_xcore runs
  parameters,   \* stage.parameters
  units,        \* what the stage takes its delay to be in
  block,        \* stage.dsp_block
  input, output,
  past, calm    \* delay: the frames heard, newest first, and samples since a change

vars == <<kind, arith, parameters, units, block, input, output, past, calm>>

AllKinds == {"bypass", "fork", "mixer", "adder", "subtractor", "fixed_gain", "volume_control",
             "switch", "switch_slew", "switch_stereo", "delay", "crossfader",
             "crossfader_stereo", "router_4to1"}

ASSUME SignalChainAssumption ==
  /\ Kinds \subseteq AllKinds
  /\ \A f \in Frames : f \in Seq(Word)
  /\ Gains \subseteq Nat /\ MaxGain \in 1 .. MaxInt /\ Shifts \subseteq Nat \ {0}
  /\ SlewStep \in Nat \ {0} /\ MaxDelay \in Nat \ {0} /\ Delays \subseteq Int /\ Fs \in Nat
  /\ One * (Unit \div One) = Unit
  /\ MixGains \in [Mixes -> (0 .. MaxInt) \X (0 .. MaxInt)]

\* Inputs of a stage.
NIn(k) == CASE k \in {"bypass", "fork", "fixed_gain", "volume_control", "delay"} -> 1
            [] k \in {"mixer", "adder", "subtractor", "crossfader"} -> 2
            [] k \in {"switch", "switch_slew"} -> 3
            [] OTHER -> 4
Inputs(k) == {f \in Frames : Len(f) = NIn(k)}

-------------------------------------------------------------------------------
(* process and process_xcore of the blocks without memory.                     *)

CheckGain(g) == Smaller(g, MaxGain)

\* A sample times a gain, rounded; both arithmetics saturate.
Scaled(x, g) ==
  IF arith = "float" THEN SaturateInt32(Nearest(x * g, One))
  ELSE MultSatExtract(One \div 2 + x * g, 1, One)

Total(xs) ==
  LET upTo[i \in 0 .. Len(xs)] == IF i = 0 THEN 0 ELSE upTo[i - 1] + xs[i]
  IN  upTo[Len(xs)]

\* The mixer scales every input and adds; in fixed point each scaled input
\* saturates before the sum does.
Mixed(xs, g) ==
  IF arith = "float" THEN SaturateInt32(Nearest(Total(xs) * g, One))
  ELSE MultSatExtract(Total([i \in DOMAIN xs |-> Scaled(xs[i], g)]), 2, 2)

DifferenceWraps(xs) == Int32(xs[1] - xs[2])   \* mutant: no clamp
Difference(xs) ==
  IF arith = "float" THEN SaturateInt32(xs[1] - xs[2])
  ELSE MultSatExtract(2 * xs[1] - 2 * xs[2], 1, 2)

\* Only the fixed point router saturates.
Routed(xs, states) ==
  LET sum == Total([i \in DOMAIN xs |-> IF states[i] THEN xs[i] ELSE 0])
  IN  IF arith = "float" THEN sum ELSE MultSatExtract(2 * sum, 1, 2)

Crossfaded(xs, gains) ==
  LET n == Len(xs) \div 2
      Sum(i) == xs[i] * gains[1] + xs[i + n] * gains[2]
  IN  [i \in 1 .. n |-> IF arith = "float" THEN Nearest(Sum(i), Unit)
                        ELSE MultSatExtract(Unit \div 2 + Sum(i), 1, Unit)]

\* One step of a gain towards its target, the given part of the way.
Slewed(g, target, part) ==
  IF arith = "float" THEN g + Nearest(target - g, part) ELSE g + (target - g) \div part

\* The fade of the slewing switch: half a cosine, fitted by an odd cubic whose
\* coefficients are -1.5112 and 0.5115, rounded so that like theirs it stays below
\* 1 at the start and above 0 at the end; the counter runs from -Unit/2 to Unit/2.
CosApprox(counter) ==
  LET half == Unit \div 2
      square == (counter * counter) \div half
      slope == (square * (1 + (5115 * half) \div 10000)) \div half - (15112 * half) \div 10000
  IN  (counter * slope) \div half + half

Faded(xs, counter, from, to) ==
  LET g1 == CosApprox(counter)
  IN  IF arith = "float" THEN Nearest((Unit - g1) * xs[to] + g1 * xs[from], Unit)
      ELSE MultSatExtract(MaxInt - g1, xs[to], Unit) + MultSatExtract(g1, xs[from], Unit)

-------------------------------------------------------------------------------
(* The blocks: what a constructor makes of the parameters.                     *)

\* The setter of target_gain_db, mute and unmute.
TargetGain(b, g) ==
  IF b.mute THEN [b EXCEPT !.saved = CheckGain(g)] ELSE [b EXCEPT !.target = CheckGain(g)]
Mute(b) ==
  IF b.mute THEN b ELSE [b EXCEPT !.saved = b.target, !.target = 0, !.mute = TRUE]
Unmute(b) ==
  IF b.mute THEN [b EXCEPT !.mute = FALSE, !.target = b.saved] ELSE b

VolumeBlock(g, shift, mute) ==
  LET open == [target |-> CheckGain(g), saved |-> 0, mute |-> FALSE, shift |-> shift, gain |-> 0]
      made == IF mute THEN Mute(open) ELSE open
  IN  [made EXCEPT !.gain = made.target]

\* A negative or too long delay is cut to the line; set_delay keeps the buffer.
CutDelay(time, u) == Smaller(TimeToSamples(Fs, time, u), MaxDelay)
DelayBlock(time, u) ==
  [delay |-> CutDelay(time, u), units |-> CheckTimeUnits(u), idx |-> 0,
   buffer |-> [i \in 0 .. MaxDelay - 1 |-> 0]]

\* move_switch: out of range it warns and stays. The stereo switch counts its
\* inputs and not its pairs.
InRange(k, position) == position \in 0 .. NIn(k) - 1
MoveSwitch(k, b, position) ==
  IF ~InRange(k, position) THEN b
  ELSE IF k = "switch_slew" /\ position # b.position
  THEN [position |-> position, last |-> b.position, switching |-> TRUE, counter |-> -(Unit \div 2)]
  ELSE [b EXCEPT !.position = position]

SwitchBlock(k) ==
  IF k = "switch_slew" THEN [position |-> 0, last |-> 0, switching |-> FALSE, counter |-> -(Unit \div 2)]
  ELSE [position |-> 0]

Switches == {"switch", "switch_slew", "switch_stereo"}
Crossfaders == {"crossfader", "crossfader_stereo"}
DefaultRoute == <<TRUE, FALSE, FALSE, FALSE>>

\* The parameters of a new stage and what set_parameters may be given. A delay
\* is in the units of the stage.
ParameterValues(k) ==
  CASE k \in {"mixer", "fixed_gain"} -> [gain : Gains]
    [] k = "volume_control" -> [gain : Gains, mute : BOOLEAN]
    [] k \in Switches -> [position : Positions \cap Nat]
    [] k = "delay" -> [delay : {d \in Delays : d >= 0}]
    [] k \in Crossfaders -> [mix : Mixes]
    [] k = "router_4to1" -> [states : {r \in Routes : Len(r) = 4}]
    [] OTHER -> {<<>>}

NewBlock(k, p, u) ==
  CASE k \in {"mixer", "fixed_gain"} -> [gain |-> CheckGain(p.gain)]
    [] k = "adder" -> [gain |-> One]
    [] k = "volume_control" -> VolumeBlock(p.gain, 2, p.mute)
    [] k \in Switches -> SwitchBlock(k)
    [] k = "delay" -> DelayBlock(p.delay, u)
    [] k \in Crossfaders -> [target |-> MixGains[p.mix], gains |-> MixGains[p.mix]]
    [] k = "router_4to1" -> [states |-> p.states]
    [] OTHER -> <<>>

-------------------------------------------------------------------------------
(* What changes them.                                                          *)

Feed ==
  /\ input' \in Inputs(kind)
  /\ UNCHANGED <<kind, arith, units, parameters, block, output, past, calm>>

\* set_parameters of each stage; set_gain, set_mute_state, move_switch, set_mix,
\* set_delay and set_channel_states only build its argument.
SetMixer(p) == kind = "mixer" /\ block' = [gain |-> CheckGain(p.gain)]
SetFixedGain(p) == kind = "fixed_gain" /\ block' = [gain |-> CheckGain(p.gain)]

SetVolume(p) ==
  /\ kind = "volume_control"
  /\ LET b == TargetGain(block, p.gain) IN block' = IF p.mute THEN Mute(b) ELSE Unmute(b)

SetSwitch(p) == kind = "switch" /\ block' = MoveSwitch(kind, block, p.position)
SetSwitchSlew(p) == kind = "switch_slew" /\ block' = MoveSwitch(kind, block, p.position)
SetSwitchStereo(p) == kind = "switch_stereo" /\ block' = MoveSwitch(kind, block, p.position)

\* A delay above the line's raises, after the parameters were stored. The unit
\* a caller names is not passed on: the stage's own is used.
SetDelay(p) ==
  /\ kind = "delay"
  /\ block' = IF p.delay > MaxDelay \div SamplesPer(Fs, units) THEN block
              ELSE [block EXCEPT !.units = units, !.delay = CutDelay(p.delay, units)]

\* Only the target is computed: the gains slew to it.
Mix(b, mix) == [b EXCEPT !.target = MixGains[mix]]
SetCrossfader(p) == kind = "crossfader" /\ block' = Mix(block, p.mix)
SetCrossfaderStereo(p) == kind = "crossfader_stereo" /\ block' = Mix(block, p.mix)

SetStates(p) ==
  /\ kind = "router_4to1"
  /\ block' = [states |-> p.states]

SetParameters ==
  /\ \E p \in ParameterValues(kind) :
       /\ parameters' = p
       /\ \/ SetMixer(p) \/ SetFixedGain(p) \/ SetVolume(p) \/ SetDelay(p) \/ SetStates(p)
          \/ SetSwitch(p) \/ SetSwitchSlew(p) \/ SetSwitchStereo(p)
          \/ SetCrossfader(p) \/ SetCrossfaderStereo(p)
  /\ calm' = 0
  /\ UNCHANGED <<kind, arith, units, input, output, past>>

\* make_volume_control rebuilds the block and leaves the parameters.
MakeVolumeControl(g, shift, mute) ==
  /\ kind = "volume_control"
  /\ block' = VolumeBlock(g, shift, mute)
  /\ UNCHANGED <<kind, arith, units, parameters, input, output, past, calm>>

\* The block's own methods with arguments no stage passes on: a unit, a negative
\* or too long time; a position out of range; the wrong number of states.
BlockSetDelay(time, u) ==
  /\ kind = "delay"
  /\ block' = [block EXCEPT !.units = CheckTimeUnits(u), !.delay = CutDelay(time, u)]
  /\ calm' = 0
  /\ UNCHANGED <<kind, arith, units, parameters, input, output, past>>

BlockMoveSwitch(position) ==
  /\ kind \in Switches
  /\ block' = MoveSwitch(kind, block, position)
  /\ UNCHANGED <<kind, arith, units, parameters, input, output, past, calm>>

BlockSetStates(states) ==
  /\ kind = "router_4to1"
  /\ block' = IF Len(states) = 4 THEN [states |-> states] ELSE block
  /\ UNCHANGED <<kind, arith, units, parameters, input, output, past, calm>>

-------------------------------------------------------------------------------
(* One sample of every channel.                                                *)

\* Every input twice in a row: the outputs with the same index modulo 2 are a fork.
Forked(xs) == [i \in 1 .. 2 * Len(xs) |-> xs[(i + 1) \div 2]]

\* process_frame of the stereo switch makes its two outputs one array, in which
\* the right sample overwrites the left one.
StereoFrame(pair) == <<pair[2], pair[2]>>

\* What comes out of block b for the input; a gain that slews has slewed.
Played(b) ==
  CASE kind \in {"mixer", "adder"} -> <<Mixed(input, b.gain)>>
    [] kind = "subtractor" -> <<Difference(input)>>
    [] kind = "fixed_gain" -> <<Scaled(input[1], b.gain)>>
    [] kind = "volume_control" -> <<Scaled(input[1], b.gain)>>
    [] kind = "router_4to1" -> <<Routed(input, b.states)>>
    [] kind = "switch_stereo" -> StereoFrame(SubSeq(input, 2 * b.position + 1, 2 * b.position + 2))
    [] kind \in Crossfaders -> Crossfaded(input, b.gains)
    [] kind = "fork" -> Forked(input)
    [] OTHER -> input

Process ==
  /\ kind \notin {"delay", "switch", "switch_slew"}
  /\ kind = "switch_stereo" => 2 * block.position < Len(input)   \* else it raises
  /\ block' = CASE kind = "volume_control" -> [block EXCEPT !.gain = Slewed(block.gain, block.target, 2 ^ block.shift)]
                [] kind \in Crossfaders -> [block EXCEPT !.gains =
                     [i \in 1 .. 2 |-> Slewed(block.gains[i], block.target[i], 4)]]
                [] OTHER -> block
  /\ output' = Played(block')
  /\ UNCHANGED <<kind, arith, units, parameters, input, past, calm>>

\* The fade ends when its counter passes Unit / 2.
FadeRunsOn(counter) == counter <= Unit   \* mutant: the counter in another format
StillFading(counter) == counter <= Unit \div 2

ProcessSwitch ==
  /\ kind \in {"switch", "switch_slew"}
  /\ IF kind = "switch_slew" /\ block.switching
     THEN LET next == block.counter + SlewStep
          IN  /\ output' = <<Faded(input, block.counter, block.last + 1, block.position + 1)>>
              /\ block' = [block EXCEPT !.counter = next, !.switching = StillFading(next)]
     ELSE /\ output' = <<input[block.position + 1]>>
          /\ UNCHANGED block
  /\ UNCHANGED <<kind, arith, units, parameters, input, past, calm>>

LateIndex(b) == IF b.idx + 1 > b.delay THEN 0 ELSE b.idx + 1   \* mutant: one slot too many
NextIndex(b) == IF b.idx + 1 >= b.delay THEN 0 ELSE b.idx + 1

\* The delay line: the oldest sample out, the new one in its place, and round.
ProcessDelay ==
  /\ kind = "delay"
  /\ output' = <<block.buffer[block.idx]>>
  /\ block' = [block EXCEPT !.buffer[block.idx] = input[1],
                            !.idx = NextIndex(block)]
  /\ past' = SubSeq(<<input[1]>> \o past, 1, Smaller(Len(past), MaxDelay) + 1)
  /\ calm' = Smaller(calm + 1, MaxDelay + 2)
  /\ UNCHANGED <<kind, arith, units, parameters, input>>

-------------------------------------------------------------------------------
Init ==
  /\ kind \in Kinds /\ arith \in {"float", "xcore"}
  /\ parameters \in ParameterValues(kind)
  /\ units \in (IF kind = "delay" THEN {u \in Units : CheckTimeUnits(u) = u /\ SamplesPer(Fs, u) <= MaxDelay} ELSE {"samples"})
  /\ block = NewBlock(kind, parameters, units)
  /\ input \in Inputs(kind)
  /\ output = <<>> /\ past = <<>> /\ calm = 0

Next ==
  \/ Feed \/ SetParameters \/ Process \/ ProcessSwitch \/ ProcessDelay
  \/ \E g \in Gains, shift \in Shifts, mute \in BOOLEAN : MakeVolumeControl(g, shift, mute)
  \/ \E time \in Delays, u \in Units : BlockSetDelay(time, u)
  \/ \E position \in Positions : BlockMoveSwitch(position)
  \/ \E states \in Routes : BlockSetStates(states)

Spec == Init /\ [][Next]_vars

-------------------------------------------------------------------------------
(* Properties.                                                                 *)

\* What the exact sum of a kind's weighted inputs is, times Unit, and whether
\* one input alone is out of range after its own gain.
Weights(b) ==
  CASE kind \in {"mixer", "adder"} -> [i \in DOMAIN input |-> b.gain * (Unit \div One)]
    [] kind = "fixed_gain" -> <<b.gain * (Unit \div One)>>
    [] kind = "subtractor" -> <<Unit, -Unit>>
    [] kind = "router_4to1" -> [i \in 1 .. 4 |-> IF b.states[i] THEN Unit ELSE 0]
    [] kind = "crossfader" -> b.gains
Weighted(b) == [i \in DOMAIN input |-> input[i] * Weights(b)[i]]
Summing == {"mixer", "adder", "fixed_gain", "subtractor", "router_4to1", "crossfader"}
OneTooLoud(b) == \E i \in DOMAIN input : Weighted(b)[i] \notin MinInt * Unit .. MaxInt * Unit

\* A stage that sums weighted inputs gives the exact sum, clamped to a word, to
\* within the rounding of each term, in either arithmetic: no partial sum wraps,
\* and saturation happens once, unless one input is out of range by itself. The
\* floating point router and crossfader do not clamp.
SumsSaturateOnce ==
  [][(Process /\ kind \in Summing /\ ~OneTooLoud(block')) =>
       LET exact == Total(Weighted(block')) \div Unit
           unclamped == arith = "float" /\ kind \in {"router_4to1", "crossfader"}
           wanted == IF unclamped THEN exact ELSE SaturateInt32(exact)
       IN  Magnitude(output'[1] - wanted) <= Len(input)]_vars

\* While the slewing switch fades, in either arithmetic and whatever moves came in
\* between, a sample stays between the two inputs it fades from and to, with room
\* for rounding: the fitted cosine never overshoots, and the two gains add up.
FadeStaysBetween ==
  [][(ProcessSwitch /\ kind = "switch_slew" /\ block.switching) =>
       LET a == input[block.last + 1]
           b == input[block.position + 1]
       IN  output'[1] \in Smaller(a, b) - 2 .. Larger(a, b) + 2]_vars

\* A delay line settles: some samples after the last change of its delay, even one
\* that left the index outside the part now used, or that raised half way, every
\* sample comes out exactly as late as the delay says, and one sample late for none.
DelayedByDelay ==
  (kind = "delay" /\ calm >= Larger(block.delay, 1) + 2) =>
     output[1] = past[Larger(block.delay, 1) + 1]

\* The two outputs of the stereo switch are the left and the right channel of the
\* selected pair (dsp/signal_chain.py:860, "the output is a stereo pair").
StereoPairKept ==
  [][(Process /\ kind = "switch_stereo") =>
       output' = SubSeq(input, 2 * block.position + 1, 2 * block.position + 2)]_vars
===============================================================================
