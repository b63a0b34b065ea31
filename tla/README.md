# A TLA+ model of lib_audio_dsp

lib_audio_dsp is a library for building audio DSP pipelines on xcore devices. A
pipeline is designed in Python as a graph of stages on numbered threads; a code
generator writes one C function per thread; the threads run on hardware logical
cores, pass frames of samples to each other over channels, and are tuned at run
time by control threads that read and write the stages' parameters.

This directory holds TLA+ modules for two kinds of code. In the first, correctness
depends on order: threads that share memory without a common lock, a network of
blocking transfers, tuning from a host over a link that may refuse or answer late,
algorithms that rewrite a graph. In the second, the DSP blocks, it depends on long
sequences of samples and settings that meet the edges of fixed-point arithmetic:
rings, fades, envelopes, filters that change while they run. TLC checks the modules on
small instances; TLAPS proves the safety of the hand-over protocols and of tuning from
end to end, of the latency check and of what generated threads deliver, of the JSON loader,
of the volume stage, of the delay line, the fading switch and the summing blocks, of filter
designs and their slew and of a part of the dynamic range blocks for every value of their
constants. `PROJECT.json` lists the runs, the mutants, the
theorems, the hazards, and for every definition the lines of code it stands for.

## 1. Inventory

### Run-time, on the device

| component | state | operations |
|---|---|---|
| run-time control, `stages/adsp_control.c`, `adsp_module.h` | `module_control_t`: config struct, `config_rw_state`, `cmd_id`, `current_controller`, software lock | `adsp_read_module_config`, `adsp_write_module_config`, the xscope loop around them |
| stage handlers, `stages/*.c` | each stage's own struct, with a copy of its config | `<name>_init`, `_process`, `_control` |
| application FIFO, `adsp_fifo.h` | buffer, head, volatile state, one channel | `write_start`, `write`, `write_done`, `read_start`, `read`, `read_done` |
| source and sink, `adsp_pipeline.h` | FIFOs, channel ends, muxes | `adsp_pipeline_source`, `_sink`, `_sink_nowait` |
| generated threads, written by `design/pipeline.py` | edge arrays, `read_count`, control flag | send, select, control, process |
| signal chain and volume, `dsp/signal_chain.c`, `stages/volume_control.c` | gain, target and saved gain, slew shift, mute state | per-sample slew, set gain, mute, unmute, delay, switch |
| run-time DSP kernels, `src/dsp`, `src/control` | as the Python blocks below | the same arithmetic in C and assembly |
| bump allocator | one block, one pointer | allocate |

### Design-time, in Python

| component | state | operations |
|---|---|---|
| pipeline design, `design/pipeline.py`, `stage.py`, `thread.py` | threads, stages, edges with their `crossings` | `begin`, `next_thread`, `stage`, `set_outputs` |
| code generation, `design/pipeline.py` | none; it reads the design | resolve, edges by thread, muxes, thread functions |
| JSON loading, `design/parse_json.py` | the graph, the queue of nodes, the edges made so far | `insert_forks`, `make_pipeline`, `update_pipeline` |
| signal chain blocks, `dsp/signal_chain.py`, `dsp/generic.py`, `stages/signal_chain.py` | gains, fade counter, delay line with its index, stored parameters | `process`, `process_xcore`, frame methods, setters, `set_parameters` |
| dynamic range control, `dsp/drc`, its stages | envelope per detection channel, gain, thresholds, soft knee | detect, gain law, smoothing, setters, reset |
| biquads, `dsp/biquad.py` | coefficients in use and aimed at, shift, shift still owed, two inputs and outputs per channel | `update_coeffs`, slew, filter |
| FIR filters, `fir.py`, `td_block_fir.py`, `fd_block_fir.py` | ring; window; spectra of earlier frames | scale, cut in phases, process |
| reverbs, `reverb*.py`, `filters.py` | rings of combs, allpasses and delays, tap counters, predelay | settings, reset, process |
| tuning, `tuning/`, `tuning/transport/` | configs last sent, validated flag, queue of answers | `ConfigSender`, read, write, connect |
| graph, executor | node and edge lists | sort, run |

### How they interact

* The **application** calls source and sink, from one thread or from two. Source
  writes a FIFO per input thread; sink receives from the channels of the output
  threads.
* **DSP threads** exchange frames over channels, which block, and wait for all
  their sources with one select. Between frames each calls the control handler of
  its stages.
* **Control threads** share `module_control_t` with the DSP thread. They exclude
  one another with a software lock that the DSP thread never takes; only
  `config_rw_state` hands the struct from one side to the other.
* The **host** tunes over xscope: messages queue in the server, one control thread on
  the device turns each into calls it retries until SUCCESS, and answers come back
  by a callback into a queue.
* The **designer's** calls decide the order of everything above: the numbering of
  threads, the order in which a thread sends, the muxes. The design classes try to
  refuse what would misalign or block the network.

### What is hard, and what would make it right

* Shared memory without a common lock (control, FIFO): the two sides' copies must not
  overlap, no write may be torn or lost, and no notification lost or doubled.
* Contention and retries (control): several controllers find one another's half
  finished reads; reads are given up; a lock may be lost again and again.
* A network of blocking transfers (threads): samples of one frame must meet, every
  output must be late by the number of threads crossed, and nothing may wait in a
  circle. Overload, the order of sends and an application that pauses all matter.
* A check that remembers too little (crossings): it follows one path of many and counts
  sets of threads.
* Indices into a list that grows while it is walked (forks), and a queue that goes
  round until the nodes can be built or will never be (loading).
* Settings written one field at a time and applied, or overwritten by a read, as a
  whole (volume); a shift that rounds down (slew).
* A memory of what was sent, on a host whose calls may fail half way, and answers that do
  not say what they answer (tuning).
* Settings that change under a signal in flight: a ring that shrinks and grows (delay), a
  fade that is restarted (switch), a number format that changes while outputs are still
  in the recursion (biquad slew), taps and rings with counters of their own (plate).
* Rounding in a loop: an average that stops short or turns round (envelopes), a tail that
  never ends (reverbs), a sum that wraps before it is clamped (mixers), a quotient that
  is no word (limiters).
* An algorithm cut in pieces that must be the whole again (block FIRs).

The hazards in `PROJECT.json` name the line where each of these bites.

## 2. Modules

| module | models | code |
|---|---|---|
| `ControlMailbox` | what the control interface promises: one command at a time, whole | `adsp_control.h` |
| `StageControl` | the protocol, one shared access per step | `adsp_control.c`, `biquad_slew.c`, `switch_slew.c`, `envelope_detector_peak.c`, `cascaded_biquads.c` |
| `FrameSlot` | what the FIFO promises: a place for one frame | `adsp_fifo.h` |
| `AdspFifo` | the FIFO, one load or store per step | `adsp_fifo.h` |
| `ThreadCrossings` | the design calls and their latency check | `pipeline.py`, `stage.py`, `thread.py` |
| `PipelineDesign` | what the generator derives from a design (no state) | `pipeline.py` |
| `DspPipeline` | the generated threads and the application | `pipeline.py`, `adsp_pipeline.h` |
| `JsonPipeline` | `insert_forks`, `make_pipeline` | `parse_json.py` |
| `VolumeControl` | the volume stage and its config | `signal_chain.c`, `volume_control.c` |
| `TuningHost` | host, link, control thread and stage, from end to end | `tuning/`, `tuning/transport/`, `adsp_control.c` |
| `FixedPoint` | words, wrap, saturation, products (no state) | `dsp/utils.py`, `dsp/generic.py` |
| `GainRules` | thresholds, time constants, gain laws (no state) | `drc_utils.py` |
| `DynamicRange` | every block and stage of drc | `drc/*.py`, `stages/limiter.py`, `compressor*.py`, `noise_*.py`, `envelope_detector.py` |
| `SignalChain` | every block and stage of the signal chain | `dsp/signal_chain.py`, `stages/signal_chain.py` |
| `BiquadDesign` | the filter designs and their format (no state); those no run asks for are there for the theorems | `dsp/biquad.py` |
| `Biquad` | the section, plain and slewing, and its stages | `dsp/biquad.py`, `stages/biquad.py` |
| `BlockFir` | three FIR filters | `fir.py`, `td_block_fir.py`, `fd_block_fir.py` |
| `Reverb` | room, stereo room, plate | `reverb*.py`, `filters.py`, `stages/reverb.py` |
| `FilterStages` | one stage with one of these three blocks | as these |

`MC<module>` gives a module's constants their values, `<module>Proofs` holds its
theorems (`ControlProofs` those of `StageControl` and `TuningHost`). Definitions marked as faulty variants are mutations of one definition
each; no next-state relation uses them.

**Composition.** `StageControl` refines `ControlMailbox`, `AdspFifo` refines
`FrameSlot`. `DspPipeline` uses both results: its input FIFOs are one-frame slots,
filled in one step and emptied in one step, and a command to a stage is one flag that
its thread takes down. `VolumeControl` uses the first: a write or a read is one step
on each side. `TuningHost` extends `StageControl`: its control thread is the one
controller of a stage, and every step of the protocol below it is a step of
`StageControl`, not of the mailbox. `FilterStages` puts `Biquad`, `BlockFir` and
`Reverb` under one next-state relation; `BiquadDesign`, `GainRules` and `FixedPoint`
are the arithmetic they share. `PipelineDesign` repeats the acceptance test of `ThreadCrossings`, on
whole designs, so that `DspPipeline` runs exactly the designs the classes accept.

### StageControl

Variables are the fields of `module_control_t` (`config`, `rw`, `cmdId`, `owner`,
`lock`), each control thread's program counter, request, payload and remaining words
of its memcpy, and the DSP thread's. `state` is the stage's own copy, which answers
reads; `live` is what `process()` runs with. The two differ where a handler copies
config twice, as the slewed stages do.

A memcpy is one step per word in any order: this is what makes a torn write
possible in the model. `cmd_id` and `current_controller` are only touched with the
lock held, so their stores are part of the step that stores `config_rw_state`. A
failed `swlock_try_acquire` returns BUSY and changes nothing, a stuttering step. A
failed `xassert` leads to `"trap"`, where the thread stays with the lock in its hand.
The handler has three shapes, chosen by constants: plain; with `Dynamic` words, which
the DSP thread moves by itself and a write does not touch (gains, envelopes); and with
`LateWords`, which it goes over again after it has cleared `config_rw_state`. `control` has
the plain shape (there `ProcessFrame` changes nothing), `tuning` the other two.

The fields are not `volatile` and there is no barrier. The model takes program
order, which is what a build has that does not reorder the copies across the stores.

### AdspFifo

`state`, `head`, `buffer` as in the struct, `words` for the notifications in the
channel; head counts writes. The producer's and the consumer's calls are split at
every access to these. The channel is external: it holds what it is sent; that it
never holds two words is a property.

### ThreadCrossings

The model holds the *kinds* of edges a design has: the crossings an edge carries, the
thread it comes from, and, for the properties only, the delays of all paths that
lead to it. A Fork yields any number of edges of one kind, so kinds are not used up;
designs of any size over the given threads are covered, not one list of stages. The
crossings are a set, since every use of the list in the code takes `set(...)` of it.

### PipelineDesign and DspPipeline

`PipelineDesign` computes from a list of stages what `_filter_edges_by_thread` and
`_generate_dsp_muxes` compute: where each thread sends, in which order, what it waits
for, and the order in which sink receives. In `DspPipeline` every thread goes round
`out` → `select` (→ `take`, in the middle of a case) → `process`. A transfer on a
channel is one step of both sides. A frame is represented by the number of the source
call it came with; 0 is the silence the edge arrays start with, and a stage that is
given different frames makes `Mixed`. A record in `Setups` gives the design, whether
the application calls source and sink from two threads or one, and the timing
assumptions: `on_time` (every thread finishes within the frame period, so the
pipeline is at rest when the next period begins) and `quick_reads` (receiving, in a thread or
in the sink call, is quicker than processing). The latter two matter: see section 5. `IsDesign` says
which designs the calls of `Pipeline.stage` and `set_outputs` make. A pipeline input given to
`set_outputs` is left out, since no thread would send it, and so is a thread that sends nothing.
`NoCircularWait` asks of a program that no set of hand-overs of a frame wait for one another: a thread
sends to its destinations in order and before it reads, and the sink reads the threads in order.
`InTime` puts together what the theorems on time need of a setup.

### JsonPipeline

One step per key of `consumer_map`, then one per look at the head of the queue. Edges
of the file keep their names; `Origin` follows a fork back to the edge it was put
behind. `ThreadNode` and `ForkPosition` keep the code's index arithmetic, errors
included; an index or key that does not exist leads to `"crashed"`.

### VolumeControl

`vol` is `volume_control_t` for one channel (all channels get the same calls),
`config` the struct, `wanted` what the host asked for last. The arithmetic shift is
`\div` by 2^shift, which rounds down in TLA+ as the shift does. Gains are small
naturals: the properties tell only order and zero apart, and every step lies between
gain and target, so no width can overflow that the targets fit in.

### TuningHost

The host is one sequential program: `Tune` changes a parameter, `BeginCall` to `EndCall`
is `ConfigSender.__call__`, `BeginReading` and `TakeAnswer` are a read. `uploads` is what the
server holds for the device, in order; `Accepted` or `Refused` is the result of
`publish`, which nobody looks at. On the device `TakeUpload` takes the next message and
`Retry` is the loop around the call, whose steps are `StageControl`'s. An answer
carries what it answers in the model only; the host does not compare. A read that
finds no answer gives up (`Timeout`): freely if nothing can answer it any more, and up
to `MaxLate` times while the answer is still to come. `told` and `interrupted` are history
for the properties.

### FixedPoint, GainRules

A word has `Unit` instead of 2^31, a signal's 1.0 is `One` instead of 2^27; a shift is a
floored division, so any word width is an instance. Products, wraps and clamps follow
`utils.py` with all their roundings. The floating point twin of a block runs on the same
grid, rounded to nearest, and never wraps. A power or a root is the largest step whose
power does not exceed it. Decibels and seconds are given as the factors and sample counts
that the conversions make of them, negative and zero ones included.

### DynamicRange

`kind` names one of the 14 blocks. They share `env` (one envelope per detection channel),
`gain` and the attributes; `Detect`, `GainCalc` and `SmoothGain` branch on the kind where the
classes override a method. `Feed` sets the next samples, the `Process...` actions are the
process methods, and the setters are actions of their own, so that thresholds,
times and ratios change at any moment. The soft knee is a line computed by the ratio's
setter only, as in the code.

### SignalChain

`kind` names one of 14 stages; `block` is the DSP block, `parameters` what the stage has
stored: `set_parameters` of the delay stores before the block may refuse. `Process`,
`ProcessSwitch`, `ProcessDelay` are the sample methods in both arithmetics, `StereoFrame` the frame
method that differs. The delay line's cells, index and wrap are the code's; `past` and
`calm` are history (what was heard, how long nothing changed). The fade's cosine is
the polynomial the code fits, on a counter in its own format.

### BiquadDesign, Biquad

A design is six integers over a grid, of which only ratios matter; frequency is its
cosine, so no trigonometry is left. `GetBShift` and `RoundToQ30` make coefficients of
it. The slewing block keeps the numerator in use at a shift (`shift`), of which `remaining` is
still to be given back, bit by bit, when coefficients and outputs have a bit of headroom;
`Filter` is the recursion with its 64-bit sum. A filter that is refused leaves its
shift behind, as in the code.

Two calls of the slewing block raise half way, and `Processed` leaves what the code
leaves. Until its first sample a channel's last outputs are the floats of `reset_state`
(`fresh`): giving back a shift doubles the numerator (`DoubleNumerator`, `biquad.py:493`), raises at
the first `x << 1` and has not counted the shift (`StopsHalfWay`). With a shift below zero
`process_xcore` raises in the first channel, which by then has stored its sample. `PutsOut`
tells the calls that do not raise. The floating point methods have neither error.

### BlockFir, Reverb

A spectrum in `BlockFir` stands for the block it is the spectrum of, and the product of
two for their circular convolution: this keeps the wrap that a wrong cut in phases
causes. `heard` and `out` are history. `Reverb` has all the rings with their indices,
the combs' and allpasses' feedback with rounding towards zero, and the plate's taps with
their own counters. `PlayFrame` and the setters act `MaxPlayed` times, then `PlaySilence` goes
on.

## 3. Runs

| run | shows | instance |
|---|---|---|
| `control` | no overlapping copies, no torn or lost write, the `cmd_id` assertion, every command taken by the DSP thread, refinement of `ControlMailbox` | 2 controllers, 2 words, 2 commands (both words; one word), 2 values, reads may be given up; 480 740 states |
| `tuning` | what the sender remembers is applied unless an upload or a call failed half way, a read returns what was written before it, every retried command completes, no deadlock | a stage with one parameter it reads late and one level of its own, another stage, malformed values, 2 messages in the server; 770 536 states |
| `fifo` | no overlapping access, one notification, refinement of `FrameSlot`, every frame taken | 3 writes per frame, 1-bit samples; 1 544 states |
| `crossings` | crossings count every path's delay, outputs aligned, no cycle of threads | 4 threads, `next_thread` only; 69 799 states |
| `pipeline` | only samples of one frame meet, sink is late by the crossings, every source and sink call returns, every command is served | every design of at most 4 stages on 2 inputs, or 3 forking stages on 1; one or two application threads; 117 486 states |
| `json` | one consumer per edge, sources kept, exactly the buildable graphs accepted, loading ends | every graph of at most 2 nodes with 2 inputs or 3 with 1, in any order, cyclic ones included, and with 1 node edges that nothing makes; 102 895 states |
| `volume` | no overshoot, a muted stage never louder, fades to exactly 0, host's settings kept | gains 0, 1, 5, 8; shifts 0 to 2; 5 184 states |
| `drc` | output never louder than input, next gain monotonic in the level, envelope and gain arrive | all kinds, both arithmetics; 368 136 states |
| `signal` | sums saturate once, a fade stays between its inputs, a delay settles | all kinds, both arithmetics; 659 664 states |
| `filters` | the slew comes to rest and is not heard, each FIR is the convolution, a reverb falls silent, the plate's taps stay where they belong | 4 filters, 5 tap sequences, 2 rooms and a plate with 2 settings each; 887 522 states |

Two more, `pipeline_hang` and `filters_slew`, are expected to fail; see section 5.

**Bounds**, and why they are enough.

* `control`, `tuning`: two controllers contend, and a third only waits as the second does;
  two words are the fewest that a torn write needs, and two overlapping commands the fewest
  that a wrong `cmd_id` needs. (The invariants of `StageControl` are proved for any number
  of each.) `MaxUploads` = 2 lets a message wait behind a write and a read that the thread
  still retries, and be refused. `MaxLate` = 0 because one late answer already breaks
  every later read (section 5); a timeout that nothing answers stays possible. With
  `MaxLate` = 1 and one upload the three properties hold as well (1.6 million states).
* `fifo`: three writes show head at the start, inside and at the end of the buffer.
* `crossings`: four threads hold two branches of two threads, which is where the first-input
  rule could go wrong.
* `pipeline`: four stages on two inputs reach every shape a thread can have (two sources, two
  destinations, several edges on one link); frames are numbered modulo `NumFrames` = 4,
  more than any of these designs is deep.
* `json`: two forks with a node between them are the smallest case in which a recorded
  position is stale. (What the run checks but for `LoadingEnds` is proved for any graph.)
* `volume`: the gains have distance 1, which a shift rounds to 0 in one direction only.
* `drc`, `signal`, `filters`: words are 4 or 7 bits wide with a few bits of headroom. The
  samples are the loudest words, the lowest (whose magnitude is no word), silence and
  one or two between; gains lie below, at and above the largest word; delays at 0,
  1, the length of the line, beyond it and below 0. In `filters` a filter is set `MaxFilters`
  = 2 times (3 in `filters_slew`, the fewest that lose a shift). That is too few for a shift
  below zero, which a refused filter leaves while another shift is owed: `FilterStagesOwing.cfg`, kept
  beside the suite, sets three of three filters, reaches it, and all five properties
  hold (143 672 states). An FIR hears `MaxHeard` = 6
  samples, more than its taps and two frames; its taps are shorter than, as long as
  and longer than a frame and a block, in every combination of advance, overlap and
  block size the code accepts; a reverb is played `MaxPlayed` = 4 steps, each a frame,
  a change of settings or a reset, and watched for twice `MaxTail` = 60 silent ones, its
  rings 1 to 4 cells long.

Deadlock is checked in `tuning`, `volume`, `drc` and `signal`. The others may stop: a program stops at a failed
assertion, a finished design and a loaded graph have no next step, an application may
make no further call, and a bound on the calls ends a run of `filters`.

## 4. Fairness

* **Threads.** Every DSP thread is a logical core of its own with guaranteed issue slots,
  and calls each handler at least once per frame and while it waits. So: weak fairness
  of the handler in `StageControl`, of the consumer in `AdspFifo`, of each thread in
  `DspPipeline`.
* **Control threads.** One that is in a call, or in the retry loop the API asks for
  (`adsp_control.c` spins until SUCCESS), keeps running. But `swlock_try_acquire` has no
  queue: nothing makes an attempt at a contended lock succeed. A weakly fair `Acquire`
  is not enough when another controller takes the lock between any two attempts, and
  strong fairness is nothing the code provides. `CommandCompletes` is therefore checked
  where there is one controller, in `tuning`; with several, only that the *stage* takes each
  command (`StageDrains`). In `TuningHost` the handler and `Retry` are weakly fair; the host
  and the link promise nothing.
* **Application.** In `AdspFifo` the producer may stop after any transaction. In
  `DspPipeline` a call that can go on goes on; for `AppCallsReturn` and `ControlServed`
  the application also keeps making calls, without which a pipeline waits by design.
* **Samples** keep coming in `VolumeControl`; the JSON loader is one sequential program. The
  DSP blocks have no liveness property: that they arrive is stated per step
  (`SmoothingArrives`), after a number of samples (`DelayedByDelay`, `SilenceDecays`), or at
  rest (`SlewComesToRest`).

## 5. Where the code departs from its documentation

Two runs of the suite show a departure that TLC finds:

* `pipeline_hang`: a design of four threads made with `next_thread` only, accepted by
  every check, stops for good: a thread sends first to a peer that cannot read yet,
  and the application waits for the other output. Its hand-overs wait in a circle
  (`LateWaitsInCircle`); a design on time whose hand-overs do not cannot stop so (`CallsNeverStuck`).
* `filters_slew`: a filter set while the slewing biquad still owes a shift loses count of
  what is owed, and the stage ends with half the gain asked for.

Seven more configurations that fail are kept beside the suite; `tlc -config X.cfg MC<module>` shows each:

* `StageControlLateTorn.cfg`, `LiveMatchesState`: `biquad_slew_control` and
  `switch_slew_control` clear `config_rw_state` and then read config. A second write can be
  copied in meanwhile, and frames are processed with a mix of two writes, which no read
  reports. (The next handler call repairs it: `SettledAgreement` holds.)
* `VolumeControlUnmute.cfg`, `UnmuteRestores`: a parameter read while the stage is muted
  stores the target gain 0 into config; the write that unmutes then saves this 0 as
  the gain to restore.
* `JsonPipelineForkThread.cfg`, `ForkOnProducerThread`: with two forks, the second is put on
  the thread of a neighbour of its producer.
* `SignalChainStereo.cfg`, `StereoPairKept`: `process_frame` of the stereo switch returns
  the right channel twice.
* `TuningHostLate.cfg`, `AnswerToOwnRead`: after a read that timed out too early, every later
  read gets the answer to the one before it.
* `TuningHostForgets.cfg`, `MemoryIsSent`: an upload that `publish` could not make is
  remembered as made, since its result is dropped; and a call that raises half way leaves
  a parameter on the device that, set back by the designer, is never sent again.
* `FilterStagesFresh.cfg`, `CoeffsSlewTowards`: a filter with less shift, asked for before the
  first sample, has its shift given back half: the numerator is doubled, then the
  outputs, still floats, raise TypeError, and the shift stays owed. The coefficients jump away from the
  target although "the applied coefficients are slewed towards the new target values"
  (`biquad.py:290-291`). The next call raises again, until a coefficient has no headroom left; with a numerator aimed
  at zero and `slew_shift` 1, which halves what the error doubled, every call does. Only the
  fixed point methods do this.

Others were met while modelling and are kept out of the passing runs by a constant or
a condition, named here so that nobody takes a run for more than it shows:

* With `thread=` (`Placement = TRUE`) a path may leave a thread and come back. Crossings
  are compared as sets, so the design is accepted although two threads wait for each
  other: `NoThreadCycle` and `LatencyAgrees` fail. All JSON files place stages so.
* A thread may be fed by a pipeline input and by another thread in a design that
  `set_outputs` accepts; the generator's assertion then fails (`Generatable`).
* A thread with two sources counts reads, not sources (a TODO at `pipeline.py:633`).
  At overload it reads one source twice and pairs different frames from then on.
  `StageInputsAligned` holds at any speed where no thread has two sources, and with any number of
  sources when every thread is on time and every read is quick (both proved, section 6). The sink's
  reads count too: in `Forking` thread 1 hands a frame to thread 3 before thread 2, and thread 3 can take
  it only when the sink has emptied it; a sink call that is held up for as long as
  thread 0 needs for a frame lets thread 2 read thread 0 twice.
* When the application stops reading, a thread blocks in a send and serves no control,
  although the comment at `pipeline.py:619` wants control without audio to work.
* A read that was given up can be collected later by the same controller with stale
  settings, although `adsp_control.h` says the stage can never be read again; with
  another `cmd_id` the assertion fails and the program stops.
* A volume stage designed to start muted starts audible: init ignores `mute_state`.
* A shared edge of a graph input that is not named `inputs` raises KeyError.
* The lowest word has no magnitude: a sample of it makes an envelope fall
  (`EnvelopeRampsUp`, which no run checks, fails). `SmoothingArrives` excepts it.
* Setting the threshold of the soft knee compressor leaves the knee of the old one:
  `KneeHolds` in the properties.
* A delay stage that is given a delay it refuses shows it as its parameter; a refused
  biquad filter leaves its shift with the old coefficients (`AtTargetShift` in
  `SlewIsSmooth`). If a shift is owed then, the shift in use may go below zero, and every call
  raises with the first channel's sample stored.
* `SlewIsSmooth` speaks of the frames that are put out (`PutsOut`), `SlewComesToRest` of a slew whose
  channels have all filtered a sample (`AtRest`): before, a slew may owe its shift for ever, as
  above.

## 6. Theorems

All constants are arbitrary, within the named assumptions of the modules (sets of
words, commands and so on have the obvious types, model values are outside the sets
they complement).

**ControlProofs**, the control interface. `TypeCorrect`, `ConfigExclusive`, `SettledCorrect`, `NeverTraps`.
`TypeOK` alone is not inductive: `EndWrite` stores the command of a request that
must be there, which `RequestInv` says. `NoConfigRace` rests on `MutexInv` (whoever is
between acquire and release holds the lock) and `HandOverInv` (in which state of
`config_rw_state` each side copies): the holder of the lock is the only one to leave
`none_pending` and `read_updated`, the DSP thread the only one to leave the pending
states. It assumes `LateWords = {}`, without which it is false. `SettledAgreement` adds
`ConfigInv` and `LiveInv`, which say for every word why the copies may differ *now*,
and needs no such assumption: it covers the stages that read late, as in `tuning`.
`NoTrap` rests on `ReaderInv`: as long as no read has been given up, the caller of a
pending read is still there, with the command it asked with.

`ControlIsMailbox`: under the same assumption `StageControl` implements `ControlMailbox`,
step by step. A write changes the mailbox in one step, where its memcpy begins: until the
copy ends, the words that `config` will hold are taken from the payload (`Bringing`). `MapInv`
is what the refinement mapping comes to in each phase; with it every action of the code
maps to one action of the mailbox or leaves the mailbox as it is. It needs, besides the
invariants above, that the requester of a pending command is known (`OwnerInv`) and
that only one controller copies (`OneCopyInv`).

**ControlProofs**, tuning. `TuningIsControl`, `OwnWritesRead`, `MemoryCorrect`, for any stage, any order of
parameters, any validation mode and any capacity of the server. The host's side reaches
into the stage only where the control thread takes a message, and that is a command's
beginning because every message carries words that `config` can hold (`HostTyped`): so
`TuningSpec` implements `StageControl`'s `Spec`, and what is proved of that holds end to
end. `ReadsOwnWrites` rests on three more invariants: `SentInv` (the value last uploaded for a word is in the last
message that writes it, else in the control thread's hands, else in `config`), `CopyInv`
(what a memcpy has copied is the same on both sides until the lock is released; the
handler's publication does not disturb it, by `ConfigInv`) and `WaitInv` (until a
read times out there is at most one, in exactly one of three places, with nothing
behind it).

`MemoryIsApplied` (what `ConfigSender` remembers is what the stage applies) follows from
`ReadsOwnWrites`' invariants and two about the host: `DueInv` (a call that uploads has
yet to send some of the values that differ from its memory, and the values it will
send) and `MemoryInv` (what is remembered was the last value told for all its words, but for
the call that is under way). It assumes `SettingsApart`: no two
parameters share a word of `config`, and no word is one that the handler overwrites. A volume
control, whose reads overwrite the gain in `config`, is not such a stage, and no stage that
violates the assumption is claimed anything about.

**AdspFifoProofs.** `TypeCorrect`, `NotifiedOnce`, `FifoExclusive`, `FifoImplementsSlot`, for any
number of channels. `PhaseInv` (who owns the buffer), `WordInv` (a waiting frame's
notification is in exactly one of three places) and `CopyInv` (how far each copy is) are
the strengthening; the frame becomes visible with the store of the state, before the
notification.

**PipelineProofs**, the design. `TypeCorrect`, and for `Placement = FALSE` `LatencyCorrect`,
`OutputsCorrect`, `NoCycle`, for any number of threads. The check is sound because the
threads of a path ascend: the newest thread is among an edge's crossings exactly when the
edge comes from it (`EdgeInv`), so the set grows by one where the delay does; and every
link goes up (`LinksAscend`), so the lowest thread of any group has no source in it.

**PipelineProofs**, the generated threads. `AlignmentCorrect` and `DeliveryCorrect`: for a design in
which every thread reads from one other (`OneSource`), with any number of threads, edges,
channels and input FIFOs, `StageInputsAligned` and `LatencyIsCrossings` hold however fast or slow the
threads and the application are: nothing is assumed of `on_time`, `quick_reads` or the order of
the calls. The invariant `PipeInv` counts three things that the program does not: what
each thread has processed (r), the source calls that filled their FIFOs (c) and the sink calls (k).
A thread that has been round r times holds frame r + 1 less its depth (`NodeInv`); across a link as
many batches have been sent as received, and of the batch under way both ends have
counted the same edges (`LinkInv`); a FIFO is behind c by what its thread has read (`FifoInv`); and a
channel end is behind k by the batch that the sink still waits for, of which the thread has sent as
many edges as the sink has past its first (`OutInv`). That a thread sends one edge
after the other to one destination after the other, while its receivers are anywhere in their own round,
is all in these counts. `ProcessedIs` shows that stages that have inputs of one frame make that frame in
whatever order they are connected, by descent over the stages.

**PipelineProofs**, threads with several sources. At any speed the properties are false there (section
5). `AlignmentOnTime`, `DeliveryOnTime` and `CallsNeverStuck` are about the setups that are `InTime`: all
threads keep the frame period, reads are quicker than processing, the stages were made in the
order of their threads, and `NoCircularWait`. Then, for any number of threads, sources,
destinations and edges and with source and sink called in any order, the two properties hold, the
pipeline never comes to rest in the middle of a sink call, and a source call never waits for a FIFO. All
setups of the run that are on time meet `InTime` (`OnTimeIsInTime`, which TLC evaluates), those with two
sources among them; `Late` fails the last condition only, and hangs.

In `TimedInv` every thread has processed k frames, or k - 1 and is on its way. A thread that has its k is
back at the start of its sends (`TimedNode`); the reads that are left are the sources whose batch
number k has not come (`Waited`), which is what `read_count` does not say by itself and what fails at
overload: a source that is a frame ahead is read twice. That it never is, is `TimedWave`: as
soon as one thread has processed, no thread has anything left to send. `AllSent` proves that for
the moment before, when nothing can be received (`quick_reads`): of the batches that are not sent, take
one that waits for no other (`NoCircularWait`); its thread is at it, and its receiver has sent everything
and not processed, so it reads, or it is the sink, which has been emptied up to this thread. With all
sent, a thread has nothing to mix. The frame period closes the wave: the app begins the next one at
rest, when by the same lemma every thread has caught up (`AtRest`). What an edge carries follows from
the crossings of its stage alone (`LayersAgree`), which ascend along a path since stages were made in
the order of their threads.


What is assumed of a design is that it is one (`SetupsAssumption`). That the generator makes of it
what the threads rely on is proved: `DesignWellGenerated`. `InOrder` lists a finite set, each member
once and at the place that counts those before it (`InOrderLists`), so both ends of a link list the
same edges in one order (`LinksAgree`), and the entries of one thread stand together in the sink's order,
because what is sorted by thread has all members of a lower thread before them (`BlockOfList`,
`EndsAgree`). The crossings count the threads of every path (`DepthsCount`), since the first stage of a
thread takes its input from the one source, before any stage of the thread, and adds
the thread; every later stage of the thread has the same crossings (`ChainCrossings`, by the least stage that would not).
That `StageCrossings` is what its recursive definition says is itself shown, by extending it stage by
stage (`CrossingsDefined`).

**JsonPipelineProofs.** `TypeIsCorrect`, `EdgesHaveOneConsumer`, `SourcesAreKept`, `RefusalIsRight`,
for graphs of any size in any file order; all that is assumed of a graph is that it is one
(`JsonAssumption`). `insert_forks` finds a consumer by the position it has in the file plus
the number of forks so far. That is right although most forks go elsewhere than to
the front: keys come in the order of their first consumer, which is where the fork goes, so
every fork so far is in front of every consumer that is still to be looked at (`NextIsFirst`,
`PlaceInv`). Hence each consumer has its own edge until its turn comes, and from then on
an output of the one fork of that edge (`CarriesInv`, `ForkInv`), and no two consumers the same one,
because the place of a consumer among those of a key is a count that grows along the order
(`ForkOutputs`).

`make_pipeline`: `MadeInv` says that `edge_map` is what the input and the created stages make, and
that no created stage belongs to a group of nodes that wait for one another; `TimerInv` that the
last `waiting_timer` nodes of the queue are not ready. When the timer passes the count, that is
the whole queue: the nodes in it are then such a group, or the forks in it wait for an
edge that nothing makes. The proof showed that the property had to count graph outputs: a graph
whose only fault is an output edge that nothing makes is refused when the edge is shared
(its fork waits for ever) and raises KeyError when it is not.

**VolumeControlProofs.** `TypeCorrect`, `MutedNeverLouder`, `WantedCorrect`. `SlewBetween`
shows that a floored division moves the gain towards the target and never past it, for
any divisor; `MutedTarget` (a muted stage's target is 0) makes the mute one-way;
`Agreed` relates what was asked for to target and saved gain, with a write pending or
not. The last theorem assumes `~StartMuted` and `~MutedReads`, without which it is false.

**DynamicRangeProofs.** `OnlyTurnsDown`, `CurveMonotone`, `Arrives`: the three properties of
`drc`, in both arithmetics, for any word width, signal format, samples and settings, for
the peak detector, the clipper, the three peak limiters and the noise gate. A
division that rounds stays between two integers that bracket its quotient, whichever way
it rounds (`DivBetween`): so an average stays between what it averages, and a gain below 1
shrinks what it multiplies. The strengthening types envelope and gain as words within
their ranges, which the quotient's wrap at exactly 1.0 would break were it not for
the comparison before it. The other kinds need `^` or a root found by CHOOSE, which no
backend reasons about.

**SignalChainProofs.** The three properties of the run.

`DelaySettles`, for a line of any length and any sequence of changes
in any unit. The first sample after a change may be written outside the part of the
line now in use, but it brings the index back inside (`Inside`); from then on the sample
heard j samples ago is j cells behind the index, round the part in use (`Kept`), so after
a full round the cell at the index holds the one that is due (`Heard`).

`FadeCorrect`, for words of at least 16 bits, any fade step and any moves at any moment. The
counter is within the fade while the switch fades (`FadeInv`): the test that ends the
fade comes after each step, and a move starts it again at the front. There the fitted
cubic is a gain between 0 and 1 (`CosIsGain`), with every rounding of the code: its
peak, 0.99985 (`CubicPeak`), leaves room for roundings of less than two steps each
once a step is small enough, which is what 16 bits are for; narrower words are left to
the run. Then neither product is clamped, and a mean of two samples lies between them
(`FadedBetween`). The proof did not go through for the coefficients the model had,
rounded to three digits: wide words overshoot with them, by eight steps in a hundred
thousand. The program's own, -1622688857 and 549248075 in Q30, do not; the model now has
them to four digits.

`SumsCorrect`, for words and gains of any size, in either arithmetic, while gains slew. The
only state it needs is that gains stay integers (`SumInv`). The rest is
arithmetic: clamping before and after digits are dropped is the same (`ClampedFloor`), an
input in range by itself is not clamped (`ScaledInRange`), and rounding each term or the
sum differs by less than a step for each term (`RoundedFloor`, `FloorSum`). It needs that
the signal's 1.0 divides a gain's (`SignalChainAssumption`): both are powers of two.

**FilterStagesProofs.** The designs: six theorems, for any grid, frequency, width
and gain: what each passes and stops at the two ends of the spectrum, that an allpass is
its denominator backwards, and that designs on the common denominator, peaking filter
and shelves are stable. They are polynomial identities and inequalities that a wrong
factor or sign breaks.

The plate: `TapsCorrect`, for rings of any length and any taps within them. A tap and
the ring it reads advance together (`AllMoved`), so the difference of the two is the tap's
age or that less the ring's length (`TapsInv`), which no reset or new setting touches.

The slew: `SlewSmooth` and `SlewRests`, for any designs, word width and slew. `BiquadInv`
says that the block aims at the last design that was accepted and that only a slewing block
owes a shift. A step of the slew lies between the coefficient and what it aims at
(`SlewTowards`), and giving back a bit doubles everything that `HasHeadroom` let
through without a wrap (`SlewedBlock`, which has a case for the call that raises half
way: of it only the invariant is claimed). `SlewSmooth` is about the frames that are put out,
`SlewRests` about a block that has filtered a sample in every channel; section 5 shows what
happens otherwise. The backends know no law of exponents;
`PowersOfTwo` gets it from the library's count of the subsets of an interval. `SlewRests`
assumes `SlewHasRoom`: no numerator coefficient of a design is, in its own format, within
twice the slew's rounding of the most negative word. The proof showed that the
assumption is needed: the test for headroom, `abs(...) < 2**30` (`biquad.py:485`), refuses
-2^30, although doubling it is no overflow, so a coefficient that aims there with one
bit of shift owed comes to rest with the bit never given back. TLC
finds it with `Grid = 32`, `Designs = {Gain(-112), Gain(-63)}`. The effect is small (the filter
is right to within a rounding step, and so is its gain) and no document says
otherwise, so it is recorded here and not as a finding. The configurations of the runs meet
the assumption.

The FIR filters: `BlockFirExact` and `FirExact`, for filters of any length, any frames,
overlaps and block sizes. Both sides of `FirIsConvolution` are folds over the taps, and what a
fold computes is not to be had by the library's induction theorems. The fold is taken
apart by hand instead: the library's existence of minimal elements (`WFMin`) gives an
induction over the subsets of a finite set (`SubsetInduction`), the fold's inner function
exists (`IterDefined`), and from there on sums behave as sums do: a member can be taken out, terms
moved, scaled and left out, disjoint sets added (`TotalTakes` to `TotalPart`). The
invariant says what each buffer holds of the past (`HeardAt`): the ring read from `idx`
round, the window a frame back, each spectrum its block of as many frames ago as its place
in the queue. For the frequency domain it also needs that a block built has room for a frame beside
a phase (`FilterSizeWorks`, `PhasesFit`: then no tap wraps round, `CircularIs`) and that
only a phase that is the whole filter is not as long as a frame, which lets the phases' sums add up
to the filter's (`SlicesTotal`). The direct filter rounds each product and the shift back
(`VpuRounds`, `NearestRounds`, `BothRound`); `FirExact` assumes `FirHasRoom`, that the
taps' loudest sum and its rounding fit a word. Louder filters saturate, which is no
convolution, and may be shifted down, which drops bits of the taps. `BlockFirExact` needs no
assumption. The runs' filters meet it, the loudest of them exactly.

**Only model-checked:** everything temporal under fairness (`CommandCompletes`,
`StageDrains`, `FrameTaken`, `AppCallsReturn`, `ControlServed`, `LoadingEnds`,
`FadesToSilence`), which is out of TLAPS's reach; and `SilenceDecays`, which is about the number
of steps it takes. Of `AppCallsReturn` the half that is no liveness is proved for pipelines in time: no
state is one in which nothing moves and a call waits.

## 7. Not modelled

* `adsp_pipeline_sink_nowait`; initialisation order of the generated `main`; profiling.
* The C and assembly kernels (`src/dsp`, `src/control`): the repository tests them bit for
  bit against the Python blocks modelled here. Where a stage's C code takes another way (the
  predelay of the reverbs, the volume stage) the hazards or a module of its own name it.
* Accuracy: how frequency, quality, decibels and seconds become coefficients, and how far
  fixed point is from floating point beyond the rounding of a step. The floating point
  versions of biquads, FIRs and reverbs. The plate's delay lines hold float64
  (`signal_chain.py:1082`), so its largest products (`reverb_plate.py:376-384`, 407-424) lose low bits
  beyond 2^53; `Reverb` keeps these bits, and no property depends on them.
* Cascades and graphic equalisers: sections one behind the other, without state of their
  own.
* `update_pipeline`, the pydantic models, text formats, drawing, build scripts, the byte
  layouts and ctypes calls of the tuning transport, graph sort and executor, bump allocator.
* Compiler and memory ordering below program order.

The status of each component, with its reason, is in `PROJECT.json`.

## 8. Plan

What the project was planned to hold and does, apart from these, in the order of their worth:

1. **DspPipeline**: `sink_nowait`; threads of several sources placed with `thread=`, whose stages
   need not be made in the order of their threads.
2. **Biquad slew** with the count of owed shifts corrected, to show that `TargetShift`
   then holds.
3. **Cascades and graphic equaliser**, on top of `Biquad`; the topological sort of `graph.py`.
4. **Bump allocator** and the sizes that Python computes for it.
