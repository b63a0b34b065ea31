------------------------------- MODULE BlockFir --------------------------------
(* The FIR filters of audio_dsp/dsp: fir_direct, a sample at a time over a     *)
(* ring; fir_block_td, a frame at a time over a sliding window; fir_block_fd,  *)
(* a frame at a time in the frequency domain, where a filter longer than a     *)
(* frame is cut in phases that meet the spectra of earlier frames. A spectrum  *)
(* stands here for the block it is the spectrum of, and their product for the  *)
(* circular convolution of the blocks. One channel: the code treats each alike.*)
EXTENDS FixedPoint, Sequences, SequencesExt

CONSTANTS
  FirFilters,   \* the tap sequences of the coefficient files, in units of 1/Half
  Advances,     \* frame_advance and
  Overlaps,     \* frame_overlap of a block filter
  BlockSizes,   \* nfft, 0 to leave the choice to the generator
  VpuBlock,     \* the only frame_advance of a time domain block filter, 8
  FirGains,     \* gain_db of a frequency domain filter, as a factor
  FirSamples,
  MaxHeard      \* how many samples a run feeds

ASSUME BlockFirAssumption ==
  /\ FirFilters \subseteq Seq(Int) /\ << >> \notin FirFilters
  /\ Advances \cup Overlaps \cup BlockSizes \cup FirGains \cup {VpuBlock, MaxHeard} \subseteq Nat
  /\ FirSamples \subseteq Word /\ 0 \in FirSamples

\* The block: its design, its buffers, and as history what it has heard and
\* given back, the newest sample first.
VARIABLE fir

FirUnit == Unit \div 2
Total(f, S) == FoldSet(LAMBDA i, sum : sum + f[i], 0, S)

-------------------------------------------------------------------------------
(* fir_direct.check_coeff_scaling: the largest shift up, or the smallest down, *)
(* that leaves the taps words, and then what the eight stripes of the vector   *)
(* unit's accumulators need, of eight bits more than a word each.              *)

Stripes == 8
Accumulator == 256 * Unit

Shifted(v, s) == IF s < 0 THEN Nearest(v, 2 ^ (-s)) ELSE v * 2 ^ s
AtMost(v, s, limit) == IF s < 0 THEN v <= limit * 2 ^ (-s) ELSE v * 2 ^ s <= limit

StripeSum(taps, k) ==
  Total([i \in DOMAIN taps |-> Magnitude(taps[i])], {i \in DOMAIN taps : i % Stripes = k})

FirShifts == -8 .. 8
FitsVpu(taps, s) ==
  /\ \A i \in DOMAIN taps : AtMost(Magnitude(taps[i]), s, MaxInt)
  /\ \A k \in 0 .. Stripes - 1 : AtMost(StripeSum(taps, k), s, Accumulator - 1)
CoeffShift(taps) == CHOOSE s \in FirShifts :
  FitsVpu(taps, s) /\ \A t \in FirShifts : FitsVpu(taps, t) => t <= s

-------------------------------------------------------------------------------
(* fir_direct: the ring holds the newest sample at idx and older ones behind   *)
(* it; idx then moves one down, to the oldest. Taps count from 0 in the ring.  *)

Direct(taps) ==
  [kind |-> "direct", taps |-> taps, gain |-> 1, advance |-> 1, shift |-> CoeffShift(taps),
   ring |-> [i \in 0 .. Len(taps) - 1 |-> 0], idx |-> Len(taps) - 1,
   heard |-> << >>, out |-> << >>]

RingIndex(b, i) == IF i = 0 THEN Len(b.taps) - 1 ELSE i - 1

\* The convolution in two halves: idx to the end, then 0 to idx.
DirectSum(ring, idx, taps, shift) ==
  LET n == Len(taps)
      product(slot, tap) == VpuMult(ring[slot], Shifted(taps[tap + 1], shift), FirUnit)
  IN  Total([t \in 0 .. n - 1 |-> IF t < n - idx THEN product(idx + t, t) ELSE product(t - (n - idx), t)],
            0 .. n - 1)

ShiftBack(acc, shift) == IF shift > 0 THEN Nearest(acc, 2 ^ shift) ELSE acc * 2 ^ (-shift)

ProcessDirect(b, frame) ==
  LET ring == [b.ring EXCEPT ![b.idx] = frame[1]]
  IN  [b EXCEPT !.ring = ring, !.idx = RingIndex(b, @),
                !.out = <<SaturateInt32(ShiftBack(DirectSum(ring, b.idx, b.taps, b.shift), b.shift))>>]

-------------------------------------------------------------------------------
(* fir_block_td: a window of a frame and the samples before it that its first  *)
(* sample still meets, rolled by a frame afterwards. Values are over FirUnit.  *)

\* generate_td_fir raises for any other frame.
TimeDomain(taps, advance) ==
  IF advance # VpuBlock THEN [kind |-> "none"]
  ELSE [kind |-> "td", taps |-> taps, gain |-> 1, advance |-> advance,
        window |-> [i \in 0 .. Len(taps) + advance - 2 |-> 0], heard |-> << >>, out |-> << >>]

\* The new frame in the last places, and np.roll by a frame.
Filled(window, frame) ==
  LET size == Cardinality(DOMAIN window)
  IN  [i \in DOMAIN window |->
         IF i < size - Len(frame) THEN window[i] ELSE frame[i - (size - Len(frame)) + 1]]
Rolled(window, by) == [i \in DOMAIN window |-> window[(i + by) % Cardinality(DOMAIN window)]]

\* np.convolve where the window covers all the taps.
Convolve(window, taps, i) == Total([t \in 1 .. Len(taps) |-> taps[t] * window[i - t]], 1 .. Len(taps))

ProcessTimeDomain(b, frame) ==
  LET n == Len(b.taps)
      window == [i \in DOMAIN b.window |->
                   IF i < n - 1 THEN b.window[i] ELSE frame[i - (n - 1) + 1]]
  IN  [b EXCEPT !.window = Rolled(window, b.advance),
                !.out = [i \in 1 .. b.advance |-> Convolve(window, b.taps, n - 1 + i)]]

-------------------------------------------------------------------------------
(* generate_fd_fir and _get_filter_phases: the size of a block and how many    *)
(* phases the filter is cut in. A filter that has its taps and a whole frame   *)
(* in one block needs one phase; else a phase has a frame of taps, and a block *)
(* that is still too short is doubled, or refused when the caller chose it.    *)

AutoSize(advance) == 2 * CHOOSE n \in {2 ^ k : k \in 0 .. advance} : n >= advance /\ n \div 2 < advance

SinglePhaseWraps(nfft, taps, advance, overlap) ==   \* mutant: one tap too many
  overlap + advance <= nfft + 2 - Len(taps)
SinglePhase(nfft, taps, advance, overlap) == overlap + advance <= nfft + 1 - Len(taps)
MultiPhase(nfft, advance, overlap) == overlap + advance <= nfft + 1 - advance
Doublings(nfft) == {nfft * 2 ^ k : k \in 0 .. 3}

\* The first of the sizes that works, 0 when none does.
FilterSize(asked, taps, advance, overlap) ==
  LET works(n) == SinglePhase(n, taps, advance, overlap) \/ MultiPhase(n, advance, overlap)
      sizes == IF asked = 0 THEN Doublings(AutoSize(advance)) ELSE {asked}
  IN  IF \E n \in sizes : works(n)
      THEN CHOOSE n \in sizes : works(n) /\ \A m \in sizes : works(m) => n <= m
      ELSE 0

TapsPerPhase(nfft, taps, advance, overlap) ==
  IF SinglePhase(nfft, taps, advance, overlap) THEN Len(taps) ELSE advance
Phases(taps, perPhase) == (Len(taps) + perPhase - 1) \div perPhase

\* The taps with the gain, cut in phases and each padded to a block.
PhaseBlocks(taps, gain, perPhase, nfft) ==
  [p \in 0 .. Phases(taps, perPhase) - 1 |->
     [i \in 0 .. nfft - 1 |->
        IF i < perPhase /\ p * perPhase + i < Len(taps) THEN gain * taps[p * perPhase + i + 1] ELSE 0]]

FrequencyDomain(taps, advance, overlap, asked, gain) ==
  LET nfft == FilterSize(asked, taps, advance, overlap)
      perPhase == TapsPerPhase(nfft, taps, advance, overlap)
      silence == [i \in 0 .. nfft - 1 |-> 0]
  IN  IF nfft = 0 THEN [kind |-> "none"]
      ELSE [kind |-> "fd", taps |-> taps, gain |-> gain, advance |-> advance,
            phases |-> PhaseBlocks(taps, gain, perPhase, nfft),
            window |-> silence, spectra |-> [p \in 0 .. Phases(taps, perPhase) - 1 |-> silence],
            heard |-> << >>, out |-> << >>]

-------------------------------------------------------------------------------
(* fir_block_fd.process_frame: the spectrum of the window joins those of the   *)
(* frames before it, each is multiplied by its phase, and of the sum's block   *)
(* the last frame is put out.                                                  *)

Circular(block, taps, i) ==
  LET n == Cardinality(DOMAIN block)
  IN  Total([k \in 0 .. n - 1 |-> taps[k] * block[(i - k) % n]], 0 .. n - 1)

ProcessFrequencyDomain(b, frame) ==
  LET window == Filled(b.window, frame)
      spectra == [b.spectra EXCEPT ![0] = window]
      nfft == Cardinality(DOMAIN window)
  IN  [b EXCEPT !.window = Rolled(window, b.advance), !.spectra = Rolled(spectra, -1),
                !.out = [i \in 1 .. b.advance |->
                           Total([p \in DOMAIN spectra |->
                                    Circular(spectra[p], b.phases[p], nfft - b.advance + i - 1)],
                                 DOMAIN spectra)]]

-------------------------------------------------------------------------------
\* Each frame has at most one sample that is not silent.
Frames(advance) ==
  {[i \in 1 .. advance |-> IF i = at THEN s ELSE 0] : at \in 1 .. advance, s \in FirSamples}

FirInit ==
  \E taps \in FirFilters :
    \/ fir = Direct(taps)
    \/ \E advance \in Advances :
         \/ fir = TimeDomain(taps, advance)
         \/ \E overlap \in Overlaps, asked \in BlockSizes, gain \in FirGains :
              fir = FrequencyDomain(taps, advance, overlap, asked, gain)

Heard(b, frame) == [b EXCEPT !.heard = Reverse(frame) \o @]

FirStep(kind, Process(_, _)) ==
  /\ fir.kind = kind /\ Len(fir.heard) + fir.advance <= MaxHeard
  /\ \E frame \in Frames(fir.advance) : fir' = Heard(Process(fir, frame), frame)

DirectSample == FirStep("direct", ProcessDirect)
TimeDomainFrame == FirStep("td", ProcessTimeDomain)
FrequencyDomainFrame == FirStep("fd", ProcessFrequencyDomain)

FirNext == DirectSample \/ TimeDomainFrame \/ FrequencyDomainFrame

-------------------------------------------------------------------------------
\* What any of the filters promises for the i-th sample of its last frame: the
\* convolution of all it ever heard, times its gain, over FirUnit.
Convolution(b, i) ==
  LET age(t) == b.advance - i + t   \* of the sample that tap t meets
  IN  b.gain * Total([t \in {t \in DOMAIN b.taps : age(t) <= Len(b.heard)} |-> b.taps[t] * b.heard[age(t)]],
                     {t \in DOMAIN b.taps : age(t) <= Len(b.heard)})
===============================================================================
