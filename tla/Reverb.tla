-------------------------------- MODULE Reverb ---------------------------------
(* The reverbs of audio_dsp/dsp in fixed point: reverb_room and its stereo     *)
(* twin, a bank of comb filters summed into a chain of allpasses, and          *)
(* reverb_plate_stereo, two cross-coupled delay lines read at fixed taps. All  *)
(* memory is in rings that are written where they are read, so a ring delays   *)
(* by its length. A feedback path rounds towards zero; a gain to nearest.      *)
EXTENDS FixedPoint, Sequences, SequencesExt

CONSTANTS
  CombLengths,     \* of the left side, with the most of max_room_size
  AllpassLengths,
  Spread,          \* how much longer the right side's are
  PlateAllpasses,  \* lengths of the plate's six allpasses, its delays, and the
  PlateDelays,     \* allpasses at the head of its two paths, numbered from 0
  PlateHeads,
  PlateTaps,       \* side -> tap -> age of the sample it reads
  Predelay,
  EffectGain,      \* of the wet sound of a room, in units of 1/One
  RoomSettings, PlateSettings,
  VerbFrames,      \* the left and right samples fed
  MaxPlayed,       \* how many steps the input and the caller act
  MaxTail          \* how long a tail may last in silence

Sides == {"l", "r"}

ASSUME ReverbAssumption ==
  /\ CombLengths \in Seq(Nat \ {0}) /\ AllpassLengths \in Seq(Nat \ {0}) /\ Spread \in Nat
  /\ VerbFrames \subseteq [Sides -> Word] /\ MaxPlayed \in Nat /\ MaxTail \in Nat /\ Predelay \in Nat \ {0}

VARIABLE verb

-------------------------------------------------------------------------------
(* reverb_base.                                                                *)

FloatToQVerb(x) == Smaller(x, MaxInt)

Floored(v) == Clamp(v, MinInt * Unit, Unit * Unit - 1) \div Unit   \* mutant: always down
\* scale_sat_int64_to_int32_floor: back to a word, towards zero.
TowardsZero(v) ==
  Clamp(IF v < 0 THEN v + Unit - 1 ELSE v, MinInt * Unit, Unit * Unit - 1) \div Unit

ApplyGain(x, gain) == MultSatExtract(x * gain + Unit \div 2, 1, Unit)
TwoMaccs(x, y, gain, other) == MultSatExtract(x * gain + y * other + Unit \div 2, 1, Unit)

\* The gains of the wet, the other side's wet and the dry sound.
VerbGains(p) ==
  [pregain |-> FloatToQVerb(p.pregain), dry |-> FloatToQVerb(p.dry),
   wet1 |-> FloatToQVerb((p.wet * (Unit + p.width)) \div (2 * Unit)),
   wet2 |-> FloatToQVerb((p.wet * (Unit - p.width)) \div (2 * Unit))]

\* A ring: its cells, where it stands, and how much of it is used.
Ring(length) == [cells |-> [i \in 0 .. length - 1 |-> 0], idx |-> 0, delay |-> length]
Oldest(ring) == ring.cells[ring.idx]
Push(ring, v) ==
  [ring EXCEPT !.cells[ring.idx] = v, !.idx = IF @ + 1 >= ring.delay THEN 0 ELSE @ + 1]
SetRing(ring, delay) == [ring EXCEPT !.delay = Smaller(delay, Cardinality(DOMAIN ring.cells))]
Emptied(ring) == [ring EXCEPT !.cells = [i \in DOMAIN ring.cells |-> 0]]

-------------------------------------------------------------------------------
(* comb_fv and allpass_fv, the room's parts. A comb's echo passes a one pole   *)
(* low pass on its way back, whose two weights add up to Unit.                 *)

Damp1(damping) == Larger(damping - 1, 1)
Damp2(damping) == MaxInt - Damp1(damping) + 1

Comb(length) == [ring |-> Ring(length), store |-> 0]
CombStep(c, x, damping, feedback) ==
  LET store == TowardsZero(Oldest(c.ring) * Damp2(damping) + c.store * Damp1(damping))
  IN  [ring |-> Push(c.ring, TowardsZero(x * Unit + store * feedback)), store |-> store]

AllpassFvOut(ring, x) == SaturateInt32(Oldest(ring) - x)
AllpassFvStep(ring, x) == Push(ring, TowardsZero(x * Unit + Oldest(ring) * (Unit \div 2)))

\* What enters each allpass of a chain, and after the last what leaves it.
Through(chain, Out(_, _), x) ==
  LET at[k \in 1 .. Len(chain) + 1] == IF k = 1 THEN x ELSE Out(chain[k - 1], at[k - 1])
  IN  at

-------------------------------------------------------------------------------
(* reverb_room and reverb_room_stereo.                                         *)

RoomSide(spread) ==
  [combs |-> [k \in DOMAIN CombLengths |-> Comb(CombLengths[k] + spread)],
   allpasses |-> [k \in DOMAIN AllpassLengths |-> Ring(AllpassLengths[k] + spread)]]

Feedback(decay) == (28 * decay + 70 * Unit) \div 100

\* A side after room_size is set: a share of every length.
Share(length, size) == (length * size) \div Unit
Resized(side, size, spread) ==
  [combs |-> [k \in DOMAIN side.combs |->
     [side.combs[k] EXCEPT !.ring = SetRing(@, Share(CombLengths[k], size) + Share(spread, size))]],
   allpasses |-> [k \in DOMAIN side.allpasses |->
     SetRing(side.allpasses[k], Share(AllpassLengths[k], size) + Share(spread, size))]]

SpreadOf(side) == IF side = "l" THEN 0 ELSE Spread

\* set_parameters; the predelay it assigns is not the delay's.
SetRoom(v, p) ==
  [v EXCEPT !.p = p, !.side = [s \in DOMAIN v.side |-> Resized(v.side[s], p.size, SpreadOf(s))]]

Room(sides, p) ==
  SetRoom([kind |-> "room", p |-> p, predelay |-> Ring(Predelay), played |-> 0, silent |-> 0,
           side |-> [s \in sides |-> RoomSide(SpreadOf(s))], out |-> [s \in sides |-> 0]], p)

SideSum(side) ==
  SaturateInt32(FoldSeq(LAMBDA c, sum : sum + Oldest(c.ring), 0, side.combs))

SideStep(side, x, p) ==
  LET at == Through(side.allpasses, AllpassFvOut, SideSum(side))
  IN  [combs |-> [k \in DOMAIN side.combs |->
                    CombStep(side.combs[k], x, p.damping, FloatToQVerb(Feedback(p.decay)))],
       allpasses |-> [k \in DOMAIN side.allpasses |-> AllpassFvStep(side.allpasses[k], at[k])]]

\* What the caller hears: both wet sounds and its own dry one.
Blend(wet, frame, p, effect) ==
  LET g == VerbGains(p)
      other(s) == IF s = "l" THEN "r" ELSE "l"
      mixed(s) == IF DOMAIN wet = Sides THEN TwoMaccs(wet[s], wet[other(s)], g.wet1, g.wet2)
                  ELSE ApplyGain(wet[s], FloatToQVerb(p.wet))
  IN  [s \in DOMAIN wet |->
         SaturateInt32(MultSatExtract(mixed(s) * effect + One \div 2, 1, One)
                       + ApplyGain(frame[s], g.dry))]

\* The mono reverb delays its input and then scales it, the others the reverse.
VerbIn(v, frame) ==
  IF DOMAIN v.out = Sides THEN TwoMaccs(frame["l"], frame["r"], VerbGains(v.p).pregain, VerbGains(v.p).pregain)
  ELSE frame["l"]
VerbDelayed(v) ==
  IF DOMAIN v.out = Sides THEN Oldest(v.predelay)
  ELSE ApplyGain(Oldest(v.predelay), VerbGains(v.p).pregain)

RoomFrame(v, frame) ==
  LET wet == [s \in DOMAIN v.side |->
                LET chain == v.side[s].allpasses
                IN  Through(chain, AllpassFvOut, SideSum(v.side[s]))[Len(chain) + 1]]
  IN  [v EXCEPT !.predelay = Push(@, VerbIn(v, frame)),
                !.side = [s \in DOMAIN v.side |-> SideStep(v.side[s], VerbDelayed(v), v.p)],
                !.out = Blend(wet, frame, v.p, EffectGain)]

-------------------------------------------------------------------------------
(* filters.py: the plate's one pole low pass and its allpass, whose gain may   *)
(* be negative.                                                                *)

LowpassStep(store, x, b0) == TowardsZero(x * Damp1(b0) + store * Damp2(b0))

AllpassNode(ring, x, gain) == TowardsZero(x * Unit - Oldest(ring) * gain)
AllpassOut(ring, x, gain) == TowardsZero(Oldest(ring) * Unit + AllpassNode(ring, x, gain) * gain)
AllpassStep(ring, x, gain) == Push(ring, AllpassNode(ring, x, gain))

-------------------------------------------------------------------------------
(* reverb_plate_stereo. A sound passes a low pass and four allpasses, enters   *)
(* two paths with the decayed end of the other, and is read at seven taps a    *)
(* side. Path k has head k, delays 2k and 2k + 1 and allpass 4 + k.            *)

Path(s) == IF s = "l" THEN 0 ELSE 1

\* What the n-th tap of a side reads, and with which sign.
TapRing(v, s, n) ==
  CASE n \in {0, 1} -> v.delay[2 * Path(s)]
    [] n = 2 -> v.allpass[4 + Path(s)]
    [] n = 3 -> v.delay[2 * Path(s) + 1]
    [] n = 4 -> v.delay[(2 * Path(s) + 2) % 4]
    [] n = 5 -> v.allpass[5 - Path(s)]
    [] OTHER -> v.delay[(2 * Path(s) + 3) % 4]
TapSign(n) == IF n \in {0, 1, 3} THEN 1 ELSE -1

\* How long that ring is; no tap reads a sample it has lost.
TapLength(s, n) == TapRing([delay |-> PlateDelays, allpass |-> PlateAllpasses], s, n)

ASSUME PlateAssumption ==
  /\ PlateDelays \in [0 .. 3 -> Nat \ {0}] /\ PlateAllpasses \in [0 .. 5 -> Nat \ {0}]
  /\ \A s \in Sides, n \in 0 .. 6 : PlateTaps[s][n] \in 1 .. TapLength(s, n)

\* A tap starts as many cells short of its ring's end as its age.
AgedTaps == [s \in Sides |-> [n \in 0 .. 6 |-> TapLength(s, n) - PlateTaps[s][n]]]

Plate(p) ==
  [kind |-> "plate", p |-> p, predelay |-> Ring(Predelay), played |-> 0, silent |-> 0,
   out |-> [s \in Sides |-> 0], low |-> [k \in 0 .. 2 |-> 0],
   allpass |-> [k \in 0 .. 5 |-> Ring(PlateAllpasses[k])],
   delay |-> [k \in 0 .. 3 |-> Ring(PlateDelays[k])],
   head |-> [k \in 0 .. 1 |-> Ring(PlateHeads[k])], taps |-> AgedTaps]

\* set_parameters; the gains of the allpasses follow from it.
SetPlate(v, p) == [v EXCEPT !.p = p]

AllpassGain(p, k) ==
  CASE k \in {0, 1} -> FloatToQVerb(p.early)
    [] k \in {2, 3} -> FloatToQVerb((p.early * 54613) \div 65536)
    [] OTHER -> Clamp(p.decay + (15 * Unit) \div 100, Unit \div 4, Unit \div 2)

\* The diffused input, and what each path makes of it before its second delay. The
\* code's delay lines hold floats: where its product with the decay is beyond 2^53
\* it loses low bits that are kept here.
Diffused(v, x) ==
  LET at[k \in 0 .. 4] ==
        IF k = 0 THEN LowpassStep(v.low[0], x, v.p.bandwidth)
        ELSE AllpassOut(v.allpass[k - 1], at[k - 1], AllpassGain(v.p, k - 1))
  IN  at

EntersPath(v, x, k) ==
  TowardsZero(x * Unit + FloatToQVerb(v.p.decay) * Oldest(v.delay[3 - 2 * k]))
EntersLow(v, k) == LowpassStep(v.low[k + 1], Oldest(v.delay[2 * k]), Unit - v.p.damping)
EntersAllpass(v, k) == ApplyGain(EntersLow(v, k), FloatToQVerb(v.p.decay))

\* The rings after a frame.
PlateMoved(v, x) ==
  LET at == Diffused(v, x)
      late == -FloatToQVerb(v.p.late)
      entered(k) == EntersPath(v, at[4], k)
  IN  [v EXCEPT
         !.low = [k \in 0 .. 2 |-> IF k = 0 THEN at[0] ELSE EntersLow(v, k - 1)],
         !.allpass = [k \in 0 .. 5 |->
            AllpassStep(v.allpass[k], IF k < 4 THEN at[k] ELSE EntersAllpass(v, k - 4), AllpassGain(v.p, k))],
         !.head = [k \in 0 .. 1 |-> AllpassStep(v.head[k], entered(k), late)],
         !.delay = [k \in 0 .. 3 |->
            Push(v.delay[k],
                 IF k % 2 = 0 THEN AllpassOut(v.head[k \div 2], entered(k \div 2), late)
                 ELSE AllpassOut(v.allpass[4 + k \div 2], EntersAllpass(v, k \div 2), AllpassGain(v.p, 4 + k \div 2)))]]

TapSum(v, s) ==
  LET sum == FoldSet(LAMBDA n, acc : acc + TapSign(n) * TapRing(v, s, n).cells[v.taps[s][n]], 0, 0 .. 6)
  IN  MultSatExtract(Nearest(3 * sum, 5), 1, 1)

EarlyTap(tap, length) == IF tap + 2 >= length THEN 0 ELSE tap + 1   \* mutant: one cell early
NextTap(tap, length) == IF tap + 1 >= length THEN 0 ELSE tap + 1
MovedTaps(v) == [s \in Sides |-> [n \in 0 .. 6 |-> NextTap(v.taps[s][n], TapRing(v, s, n).delay)]]

PlateEffect == (One * 9) \div 10   \* -1 dB
PlateFrame(v, frame) ==
  LET moved == PlateMoved(v, VerbDelayed(v))
  IN  [moved EXCEPT !.predelay = Push(@, VerbIn(v, frame)), !.taps = MovedTaps(v),
                    !.out = Blend([s \in Sides |-> TapSum(moved, s)], frame, v.p, PlateEffect)]

-------------------------------------------------------------------------------
\* reset_state: the memories, not where they stand.
ResetVerb(v) ==
  IF v.kind = "plate"
  THEN [v EXCEPT !.predelay = Emptied(@), !.low = [k \in 0 .. 2 |-> 0],
                 !.allpass = [k \in 0 .. 5 |-> Emptied(v.allpass[k])],
                 !.delay = [k \in 0 .. 3 |-> Emptied(v.delay[k])],
                 !.head = [k \in 0 .. 1 |-> Emptied(v.head[k])]]
  ELSE [v EXCEPT !.predelay = Emptied(@),
                 !.side = [s \in DOMAIN v.side |->
                    [combs |-> [k \in DOMAIN CombLengths |->
                                  [ring |-> Emptied(v.side[s].combs[k].ring), store |-> 0]],
                     allpasses |-> [k \in DOMAIN AllpassLengths |-> Emptied(v.side[s].allpasses[k])]]]]

VerbInit ==
  \/ \E p \in RoomSettings, sides \in {{"l"}, Sides} : verb = Room(sides, p)
  \/ \E p \in PlateSettings : verb = Plate(p)

Acted(v) == [v EXCEPT !.played = @ + 1]
Play(frame) == IF verb.kind = "room" THEN RoomFrame(verb, frame) ELSE PlateFrame(verb, frame)

SetParametersRoom ==
  /\ verb.kind = "room" /\ verb.played < MaxPlayed
  /\ \E p \in RoomSettings : verb' = Acted(SetRoom(verb, p))

SetParametersPlate ==
  /\ verb.kind = "plate" /\ verb.played < MaxPlayed
  /\ \E p \in PlateSettings : verb' = Acted(SetPlate(verb, p))

ResetReverb == verb.kind # "none" /\ verb.played < MaxPlayed /\ verb' = Acted(ResetVerb(verb))

PlayFrame ==
  /\ verb.kind # "none" /\ verb.played < MaxPlayed
  /\ \E frame \in VerbFrames : \E v \in {Play(frame)} : verb' = Acted(v)

\* The input has gone silent for good; a run watches twice the tail.
PlaySilence ==
  /\ verb.kind # "none" /\ verb.played = MaxPlayed /\ verb.silent < 2 * MaxTail
  /\ \E v \in {Play([s \in Sides |-> 0])} : verb' = [v EXCEPT !.silent = @ + 1]

VerbNext == SetParametersRoom \/ SetParametersPlate \/ ResetReverb \/ PlayFrame \/ PlaySilence
===============================================================================
