-------------------------- MODULE FilterStagesProofs ---------------------------
(* The filter stages: what the designs promise at the ends of the spectrum and *)
(* that their poles are inside the unit circle, that the slew of a biquad is   *)
(* smooth and comes to rest, that the plate's taps never drift from the rings  *)
(* they read, and that every FIR filter is a convolution, however it keeps the *)
(* past and cuts its taps; for every grid, word width and length.              *)
EXTENDS FilterStages, FiniteSetTheorems, SequenceTheorems, WellFoundedInduction, TLAPS

-------------------------------------------------------------------------------
(* The designs, on any grid. They are identities of polynomials: a factor in   *)
(* the wrong coefficient, or a sign, breaks them. What an end is worth is the  *)
(* quotient of DcOut and DcIn, or of NyquistOut and NyquistIn; here it is      *)
(* cross multiplied.                                                           *)

\* A lowpass passes a constant unchanged and stops the highest frequency, a
\* highpass the other way round. (make_biquad_lowpass, make_biquad_highpass)
THEOREM PassEnds ==
  ASSUME NEW c \in Int, NEW alpha \in Int
  PROVE  /\ LET d == Lowpass(c, alpha) IN DcOut(d) = DcIn(d) /\ NyquistOut(d) = 0
         /\ LET d == Highpass(c, alpha) IN DcOut(d) = 0 /\ NyquistOut(d) = NyquistIn(d)
<1> USE BiquadDesignAssumption DEF DcOut, DcIn, NyquistOut, NyquistIn
<1>1. LET d == Lowpass(c, alpha) IN DcOut(d) = DcIn(d) /\ NyquistOut(d) = 0
  BY DEF Lowpass
<1>2. LET d == Highpass(c, alpha) IN DcOut(d) = 0 /\ NyquistOut(d) = NyquistIn(d)
  BY DEF Highpass
<1> QED BY <1>1, <1>2

\* A bandpass stops both ends, a bandstop and a notch pass both, and an allpass
\* has its denominator backwards as its numerator, so that it is as loud
\* everywhere. (make_biquad_bandpass, _bandstop, _notch, _allpass)
THEOREM BandEnds ==
  ASSUME NEW c \in Int, NEW alpha \in Int
  PROVE  /\ LET d == Bandpass(c, alpha) IN DcOut(d) = 0 /\ NyquistOut(d) = 0
         /\ LET d == Bandstop(c, alpha) IN DcOut(d) = DcIn(d) /\ NyquistOut(d) = NyquistIn(d)
         /\ LET d == Notch(c, alpha) IN DcOut(d) = DcIn(d) /\ NyquistOut(d) = NyquistIn(d)
         /\ LET d == Allpass(c, alpha) IN d[1] = d[6] /\ d[2] = d[5] /\ d[3] = d[4]
<1> USE BiquadDesignAssumption DEF DcOut, DcIn, NyquistOut, NyquistIn
<1> USE DEF Resonance
<1>1. LET d == Bandpass(c, alpha) IN DcOut(d) = 0 /\ NyquistOut(d) = 0
  BY DEF Bandpass
<1>2. LET d == Bandstop(c, alpha) IN DcOut(d) = DcIn(d) /\ NyquistOut(d) = NyquistIn(d)
  BY DEF Bandstop
<1>3. LET d == Notch(c, alpha) IN DcOut(d) = DcIn(d) /\ NyquistOut(d) = NyquistIn(d)
  BY DEF Notch
<1>4. LET d == Allpass(c, alpha) IN d[1] = d[6] /\ d[2] = d[5] /\ d[3] = d[4]
  BY DEF Allpass
<1> QED BY <1>1, <1>2, <1>3, <1>4

\* Peaking and constant Q filters leave both ends alone, whether they boost or
\* cut. (make_biquad_peaking, make_biquad_constant_q)
THEOREM PeakEnds ==
  ASSUME NEW c \in Int, NEW alpha \in Int, NEW k \in Int, NEW width \in Int, NEW g \in Int
  PROVE  /\ LET d == Peaking(c, alpha, g) IN DcOut(d) = DcIn(d) /\ NyquistOut(d) = NyquistIn(d)
         /\ LET d == ConstantQ(k, width, g) IN DcOut(d) = DcIn(d) /\ NyquistOut(d) = NyquistIn(d)
<1> USE BiquadDesignAssumption DEF DcOut, DcIn, NyquistOut, NyquistIn
<1>1. LET d == Peaking(c, alpha, g) IN DcOut(d) = DcIn(d) /\ NyquistOut(d) = NyquistIn(d)
  BY DEF Peaking
<1>2. LET d == ConstantQ(k, width, g) IN DcOut(d) = DcIn(d) /\ NyquistOut(d) = NyquistIn(d)
  BY DEF ConstantQ
<1> QED BY <1>1, <1>2

\* A low shelf raises the lowest frequency by its gain (g is its square root)
\* and leaves the highest alone; a high shelf the other way round.
\* (make_biquad_lowshelf, make_biquad_highshelf)
THEOREM ShelfEnds ==
  ASSUME NEW c \in Int, NEW beta \in Int, NEW g \in Int
  PROVE  /\ LET d == Lowshelf(c, beta, g)
            IN  /\ DcOut(d) * (Grid * Grid) = DcIn(d) * (g * g)
                /\ NyquistOut(d) = NyquistIn(d)
         /\ LET d == Highshelf(c, beta, g)
            IN  /\ DcOut(d) = DcIn(d)
                /\ NyquistOut(d) * (Grid * Grid) = NyquistIn(d) * (g * g)
<1> USE BiquadDesignAssumption DEF DcOut, DcIn, NyquistOut, NyquistIn
<1>1. LET d == Lowshelf(c, beta, g)
      IN  DcOut(d) * (Grid * Grid) = DcIn(d) * (g * g) /\ NyquistOut(d) = NyquistIn(d)
  <2> DEFINE d == Lowshelf(c, beta, g)
  <2>1. DcOut(d) = 4 * g * g * (Grid - c) /\ DcIn(d) = 4 * Grid * Grid * (Grid - c)
    BY DEF Lowshelf
  <2>2. NyquistOut(d) = NyquistIn(d)
    BY DEF Lowshelf
  <2>3. (4 * g * g * (Grid - c)) * (Grid * Grid) = (4 * Grid * Grid * (Grid - c)) * (g * g)
    OBVIOUS
  <2> HIDE DEF d, DcOut, DcIn, NyquistOut, NyquistIn
  <2>4. DcOut(d) * (Grid * Grid) = DcIn(d) * (g * g)
    BY <2>1, <2>3
  <2> QED BY <2>2, <2>4 DEF d
<1>2. LET d == Highshelf(c, beta, g)
      IN  DcOut(d) = DcIn(d) /\ NyquistOut(d) * (Grid * Grid) = NyquistIn(d) * (g * g)
  <2> DEFINE d == Highshelf(c, beta, g)
  <2>1. NyquistOut(d) = 4 * g * g * (Grid + c) /\ NyquistIn(d) = 4 * Grid * Grid * (Grid + c)
    BY DEF Highshelf
  <2>2. DcOut(d) = DcIn(d)
    BY DEF Highshelf
  <2>3. (4 * g * g * (Grid + c)) * (Grid * Grid) = (4 * Grid * Grid * (Grid + c)) * (g * g)
    OBVIOUS
  <2> HIDE DEF d, DcOut, DcIn, NyquistOut, NyquistIn
  <2>4. NyquistOut(d) * (Grid * Grid) = NyquistIn(d) * (g * g)
    BY <2>1, <2>3
  <2> QED BY <2>2, <2>4 DEF d
<1> QED BY <1>1, <1>2

\* Every design built on the common denominator has its poles inside the unit
\* circle, for any frequency between the ends and any width. (biquad.py)
THEOREM ResonantStable ==
  ASSUME NEW c \in Int, NEW alpha \in Int, -Grid < c, c < Grid, 0 < alpha
  PROVE  /\ StableDesign(Lowpass(c, alpha)) /\ StableDesign(Highpass(c, alpha))
         /\ StableDesign(Bandpass(c, alpha)) /\ StableDesign(Bandstop(c, alpha))
         /\ StableDesign(Notch(c, alpha)) /\ StableDesign(Allpass(c, alpha))
<1> USE BiquadDesignAssumption DEF StableDesign, Magnitude, Resonance
<1>1. StableDesign(Lowpass(c, alpha)) /\ StableDesign(Highpass(c, alpha))
  BY DEF Lowpass, Highpass
<1>2. StableDesign(Bandpass(c, alpha)) /\ StableDesign(Bandstop(c, alpha))
  BY DEF Bandpass, Bandstop
<1>3. StableDesign(Notch(c, alpha)) /\ StableDesign(Allpass(c, alpha))
  BY DEF Notch, Allpass
<1> QED BY <1>1, <1>2, <1>3

\* So have the peaking filter and the shelves, for any gain above zero.
\* (make_biquad_peaking, make_biquad_lowshelf, make_biquad_highshelf)
THEOREM GainStable ==
  ASSUME NEW c \in Int, NEW width \in Int, NEW g \in Int,
         -Grid < c, c < Grid, 0 < width, 0 < g
  PROVE  /\ StableDesign(Peaking(c, width, g))
         /\ StableDesign(Lowshelf(c, width, g)) /\ StableDesign(Highshelf(c, width, g))
<1> USE BiquadDesignAssumption
<1>1. StableDesign(Peaking(c, width, g))
  <2> DEFINE d == Peaking(c, width, g)
  <2>1. Grid * Grid > 0 /\ Grid * Grid * g > 0 /\ Grid * Grid * width > 0
    OBVIOUS
  <2>2. c * Grid * g < Grid * Grid * g /\ -(Grid * Grid * g) < c * Grid * g
    OBVIOUS
  <2>3. d[4] = Grid * Grid * g + Grid * Grid * width
    BY DEF Peaking
  <2>4. d[5] = -2 * (c * Grid * g) /\ d[6] = Grid * Grid * g - Grid * Grid * width
    BY DEF Peaking
  <2> HIDE DEF d
  <2> QED BY <2>1, <2>2, <2>3, <2>4 DEF StableDesign, Magnitude, d
\* The denominator of a shelf with side s, middle t and width u.
<1>2. ASSUME NEW s \in Int, NEW t \in Int, NEW u \in Int, 0 < u, -s < t, t < s,
             NEW d, d[4] = Grid * (s + u), d[5] = 2 * Grid * t, d[6] = Grid * (s - u)
      PROVE  StableDesign(d)
  <2>1. Grid * s > 0 /\ Grid * u > 0 /\ -(Grid * s) < Grid * t /\ Grid * t < Grid * s
    BY <1>2
  <2>2. d[4] = Grid * s + Grid * u /\ d[5] = 2 * (Grid * t) /\ d[6] = Grid * s - Grid * u
    BY <1>2
  <2> QED BY <2>1, <2>2 DEF StableDesign, Magnitude
<1>3. width * Grid > 0 /\ g * (Grid + c) > 0 /\ g * (Grid - c) > 0
      /\ Grid * (Grid + c) > 0 /\ Grid * (Grid - c) > 0
  OBVIOUS
<1>4. StableDesign(Lowshelf(c, width, g))
  <2> DEFINE s == (g + Grid) * Grid + (g - Grid) * c
             t == -((g - Grid) * Grid + (g + Grid) * c)
             u == width * Grid
             d == Lowshelf(c, width, g)
  <2>1. s + t = 2 * (Grid * (Grid - c)) /\ s - t = 2 * (g * (Grid + c))
    OBVIOUS
  <2>2. d[4] = Grid * (s + u) /\ d[5] = 2 * Grid * t /\ d[6] = Grid * (s - u)
    BY DEF Lowshelf
  <2>3. s \in Int /\ t \in Int /\ u \in Int /\ 0 < u /\ -s < t /\ t < s
    BY <1>3, <2>1
  <2> HIDE DEF s, t, u, d
  <2>4. StableDesign(d)
    BY <1>2, <2>2, <2>3
  <2> QED BY <2>4 DEF d
<1>5. StableDesign(Highshelf(c, width, g))
  <2> DEFINE s == (g + Grid) * Grid - (g - Grid) * c
             t == (g - Grid) * Grid - (g + Grid) * c
             u == width * Grid
             d == Highshelf(c, width, g)
  <2>1. s + t = 2 * (g * (Grid - c)) /\ s - t = 2 * (Grid * (Grid + c))
    OBVIOUS
  <2>2. d[4] = Grid * (s + u) /\ d[5] = 2 * Grid * t /\ d[6] = Grid * (s - u)
    BY DEF Highshelf
  <2>3. s \in Int /\ t \in Int /\ u \in Int /\ 0 < u /\ -s < t /\ t < s
    BY <1>3, <2>1
  <2> HIDE DEF s, t, u, d
  <2>4. StableDesign(d)
    BY <1>2, <2>2, <2>3
  <2> QED BY <2>4 DEF d
<1> QED BY <1>1, <1>4, <1>5

-------------------------------------------------------------------------------
(* The plate's taps.                                                           *)

\* A ring of a given length that stands within it.
RingOf(ring, length) ==
  /\ {"cells", "idx", "delay"} \subseteq DOMAIN ring
  /\ ring.delay = length /\ ring.idx \in 0 .. length - 1

\* Writing a sample moves a ring as a tap moves.
LEMMA PushMoves ==
  ASSUME NEW length \in Nat \ {0}, NEW ring, RingOf(ring, length), NEW x
  PROVE  RingOf(Push(ring, x), length) /\ Push(ring, x).idx = NextTap(ring.idx, length)
BY DEF RingOf, Push, NextTap

LEMMA EmptiedStays ==
  ASSUME NEW length, NEW ring, RingOf(ring, length)
  PROVE  RingOf(Emptied(ring), length) /\ Emptied(ring).idx = ring.idx
BY DEF RingOf, Emptied

\* How far a tap is behind the place where its ring is written.
Behind(v, s, n) == TapRing(v, s, n).idx - v.taps[s][n]

PlateRings(v) ==
  /\ \A k \in 0 .. 3 : RingOf(v.delay[k], PlateDelays[k])
  /\ \A k \in 0 .. 5 : RingOf(v.allpass[k], PlateAllpasses[k])

\* A tap is its age behind the ring's writing, round the ring's end.
TapsInv(v) ==
  \A s \in Sides, n \in 0 .. 6 :
    /\ v.taps[s][n] \in 0 .. TapLength(s, n) - 1
    /\ Behind(v, s, n) \in {PlateTaps[s][n], PlateTaps[s][n] - TapLength(s, n)}

VerbFields == {"kind", "p", "predelay", "played", "silent", "out"}
PlateFields == VerbFields \cup {"low", "allpass", "delay", "head", "taps"}
VerbInv(v) ==
  /\ v.kind \in {"room", "plate"} /\ VerbFields \subseteq DOMAIN v
  /\ v.kind = "room" => "side" \in DOMAIN v
  /\ v.kind = "plate" => PlateFields \subseteq DOMAIN v /\ PlateRings(v) /\ TapsInv(v)

\* The rings of w are those of v, and all have moved by a sample.
AllMoved(v, w) ==
  /\ \A k \in 0 .. 3 : w.delay[k].idx = NextTap(v.delay[k].idx, PlateDelays[k])
  /\ \A k \in 0 .. 5 : w.allpass[k].idx = NextTap(v.allpass[k].idx, PlateAllpasses[k])

LEMMA TapRingLength ==
  ASSUME NEW v, PlateRings(v), NEW s \in Sides, NEW n \in 0 .. 6
  PROVE  RingOf(TapRing(v, s, n), TapLength(s, n)) /\ TapLength(s, n) \in Nat \ {0}
<1>1. n = 0 \/ n = 1 \/ n = 2 \/ n = 3 \/ n = 4 \/ n = 5 \/ n = 6
  OBVIOUS
<1>2. s = "l" \/ s = "r"
  BY DEF Sides
<1> QED BY <1>1, <1>2, PlateAssumption DEF TapRing, TapLength, Path, PlateRings

LEMMA TapRingMoves ==
  ASSUME NEW v, NEW w, AllMoved(v, w), NEW s \in Sides, NEW n \in 0 .. 6
  PROVE  TapRing(w, s, n).idx = NextTap(TapRing(v, s, n).idx, TapLength(s, n))
<1>1. n = 0 \/ n = 1 \/ n = 2 \/ n = 3 \/ n = 4 \/ n = 5 \/ n = 6
  OBVIOUS
<1>2. s = "l" \/ s = "r"
  BY DEF Sides
<1> QED BY <1>1, <1>2 DEF TapRing, TapLength, Path, AllMoved

LEMMA MovedTapsKeep ==
  ASSUME NEW v, NEW w, PlateRings(v), TapsInv(v), AllMoved(v, w), w.taps = MovedTaps(v)
  PROVE  TapsInv(w)
<1> SUFFICES ASSUME NEW s \in Sides, NEW n \in 0 .. 6
             PROVE  /\ w.taps[s][n] \in 0 .. TapLength(s, n) - 1
                    /\ Behind(w, s, n) \in {PlateTaps[s][n], PlateTaps[s][n] - TapLength(s, n)}
  BY DEF TapsInv
<1> DEFINE length == TapLength(s, n)
           idx == TapRing(v, s, n).idx
           tap == v.taps[s][n]
           age == PlateTaps[s][n]
<1>1. length \in Nat \ {0} /\ idx \in 0 .. length - 1 /\ TapRing(v, s, n).delay = length
  BY TapRingLength DEF RingOf
<1>2. w.taps[s][n] = NextTap(tap, length)
  BY <1>1 DEF MovedTaps
<1>3. TapRing(w, s, n).idx = NextTap(idx, length)
  BY TapRingMoves
<1>4. tap \in 0 .. length - 1 /\ idx - tap \in {age, age - length}
  BY DEF TapsInv, Behind
<1>5. age \in 1 .. length
  BY PlateAssumption
<1> HIDE DEF length, idx, tap, age
<1> QED BY <1>1, <1>2, <1>3, <1>4, <1>5 DEF NextTap, Behind, length, age

LEMMA PlateMovedMoves ==
  ASSUME NEW v, NEW x, PlateFields \subseteq DOMAIN v, PlateRings(v)
  PROVE  LET w == PlateMoved(v, x)
         IN  AllMoved(v, w) /\ PlateRings(w) /\ w.kind = v.kind /\ DOMAIN w = DOMAIN v
<1> DEFINE w == PlateMoved(v, x)
<1>1. \A k \in 0 .. 3 : \E y : w.delay[k] = Push(v.delay[k], y)
  BY DEF PlateMoved, PlateFields
<1>2. \A k \in 0 .. 5 : \E y : w.allpass[k] = Push(v.allpass[k], y)
  BY DEF PlateMoved, PlateFields, AllpassStep
<1>3. w.kind = v.kind /\ DOMAIN w = DOMAIN v
  BY DEF PlateMoved, PlateFields, VerbFields
<1> HIDE DEF w
<1>4. \A k \in 0 .. 3 : PlateDelays[k] \in Nat \ {0}
  BY PlateAssumption
<1>5. \A k \in 0 .. 5 : PlateAllpasses[k] \in Nat \ {0}
  BY PlateAssumption
<1>6. \A k \in 0 .. 3 : RingOf(w.delay[k], PlateDelays[k]) /\ w.delay[k].idx = NextTap(v.delay[k].idx, PlateDelays[k])
  BY <1>1, <1>4, PushMoves DEF PlateRings
<1>7. \A k \in 0 .. 5 : RingOf(w.allpass[k], PlateAllpasses[k]) /\ w.allpass[k].idx = NextTap(v.allpass[k].idx, PlateAllpasses[k])
  BY <1>2, <1>5, PushMoves DEF PlateRings
<1> QED BY <1>3, <1>6, <1>7 DEF AllMoved, PlateRings, w

LEMMA PlayKeeps ==
  ASSUME VerbInv(verb), NEW frame
  PROVE  VerbInv(Play(frame)) /\ Play(frame).kind = verb.kind
<1> DEFINE v == verb
<1>1. CASE v.kind = "room"
  BY <1>1 DEF Play, RoomFrame, VerbInv, VerbFields
<1>2. CASE v.kind = "plate"
  <2> DEFINE moved == PlateMoved(v, VerbDelayed(v))
             w == PlateFrame(v, frame)
  <2>1. PlateFields \subseteq DOMAIN v /\ PlateRings(v) /\ TapsInv(v)
    BY <1>2 DEF VerbInv
  <2>2. AllMoved(v, moved) /\ PlateRings(moved) /\ moved.kind = v.kind /\ DOMAIN moved = DOMAIN v
    BY <2>1, PlateMovedMoves
  <2> HIDE DEF moved
  <2>3. /\ w.delay = moved.delay /\ w.allpass = moved.allpass /\ w.kind = moved.kind
        /\ DOMAIN w = DOMAIN moved /\ w.taps = MovedTaps(v)
    BY <2>1, <2>2 DEF PlateFrame, PlateFields, VerbFields, moved
  <2> HIDE DEF w
  <2>4. AllMoved(v, w) /\ PlateRings(w)
    BY <2>2, <2>3 DEF AllMoved, PlateRings
  <2>5. TapsInv(w)
    BY <2>1, <2>3, <2>4, MovedTapsKeep
  <2>6. Play(frame) = w
    BY <1>2 DEF Play, w
  <2> QED BY <1>2, <2>1, <2>2, <2>3, <2>4, <2>5, <2>6 DEF VerbInv, PlateFields
<1> QED BY <1>1, <1>2 DEF VerbInv

LEMMA ResetKeeps ==
  ASSUME NEW v, VerbInv(v)
  PROVE  VerbInv(ResetVerb(v))
<1>1. CASE v.kind = "room"
  BY <1>1 DEF ResetVerb, VerbInv, VerbFields
<1>2. CASE v.kind = "plate"
  <2> DEFINE w == ResetVerb(v)
  <2>1. PlateFields \subseteq DOMAIN v /\ PlateRings(v) /\ TapsInv(v)
    BY <1>2 DEF VerbInv
  <2>2. /\ w.kind = v.kind /\ DOMAIN w = DOMAIN v /\ w.taps = v.taps
        /\ \A k \in 0 .. 3 : w.delay[k] = Emptied(v.delay[k])
        /\ \A k \in 0 .. 5 : w.allpass[k] = Emptied(v.allpass[k])
    BY <1>2, <2>1 DEF ResetVerb, PlateFields, VerbFields
  <2> HIDE DEF w
  <2>3. /\ \A k \in 0 .. 3 : RingOf(w.delay[k], PlateDelays[k]) /\ w.delay[k].idx = v.delay[k].idx
        /\ \A k \in 0 .. 5 : RingOf(w.allpass[k], PlateAllpasses[k]) /\ w.allpass[k].idx = v.allpass[k].idx
    BY <2>1, <2>2, EmptiedStays DEF PlateRings
  <2>4. PlateRings(w)
    BY <2>3 DEF PlateRings
  <2>5. \A s \in Sides, n \in 0 .. 6 : TapRing(w, s, n).idx = TapRing(v, s, n).idx
    BY <2>3 DEF Sides, TapRing, Path
  <2>6. TapsInv(w)
    BY <2>1, <2>2, <2>5 DEF TapsInv, Behind
  <2> QED BY <1>2, <2>1, <2>2, <2>4, <2>6 DEF VerbInv, w, PlateFields
<1> QED BY <1>1, <1>2 DEF VerbInv

\* New settings move no ring of a plate.
LEMMA SetKeeps ==
  ASSUME NEW v, VerbInv(v), NEW p
  PROVE  /\ v.kind = "room" => VerbInv(SetRoom(v, p))
         /\ v.kind = "plate" => VerbInv(SetPlate(v, p))
<1>1. CASE v.kind = "room"
  BY <1>1 DEF SetRoom, VerbInv, VerbFields
<1>2. CASE v.kind = "plate"
  BY <1>2 DEF SetPlate, VerbInv, VerbFields, PlateFields, PlateRings, TapsInv, Behind, TapRing
<1> QED BY <1>1, <1>2

\* Counting the steps changes nothing that is heard.
LEMMA CountKeeps ==
  ASSUME NEW v, VerbInv(v)
  PROVE  VerbInv(Acted(v)) /\ VerbInv([v EXCEPT !.silent = @ + 1])
<1>1. ASSUME NEW w, w.kind = v.kind, DOMAIN w = DOMAIN v,
             w.kind = "plate" => w.delay = v.delay /\ w.allpass = v.allpass /\ w.taps = v.taps
      PROVE  VerbInv(w)
  BY <1>1 DEF VerbInv, PlateRings, TapsInv, Behind, TapRing
<1> QED BY <1>1 DEF Acted, VerbInv, VerbFields, PlateFields

LEMMA RingStarts == \A n \in Nat \ {0} : RingOf(Ring(n), n) /\ Ring(n).idx = 0
BY DEF Ring, RingOf

LEMMA InitVerbInv == VerbInit => VerbInv(verb)
<1>1. ASSUME NEW sides, NEW p, verb = Room(sides, p) PROVE VerbInv(verb)
  BY <1>1 DEF Room, SetRoom, VerbInv, VerbFields
<1>2. ASSUME NEW p, verb = Plate(p) PROVE VerbInv(verb)
  <2>1. /\ verb.kind = "plate" /\ PlateFields \subseteq DOMAIN verb /\ verb.taps = AgedTaps
        /\ \A k \in 0 .. 3 : verb.delay[k] = Ring(PlateDelays[k])
        /\ \A k \in 0 .. 5 : verb.allpass[k] = Ring(PlateAllpasses[k])
    BY <1>2 DEF Plate, PlateFields, VerbFields
  <2>2. /\ \A k \in 0 .. 3 : PlateDelays[k] \in Nat \ {0}
        /\ \A k \in 0 .. 5 : PlateAllpasses[k] \in Nat \ {0}
    BY PlateAssumption
  <2>3. PlateRings(verb)
    BY <2>1, <2>2, RingStarts DEF PlateRings
  <2>4. \A s \in Sides, n \in 0 .. 6 : TapRing(verb, s, n).idx = 0
    BY <2>1, <2>2, RingStarts DEF Sides, TapRing, Path
  <2>5. TapsInv(verb)
    <3> SUFFICES ASSUME NEW s \in Sides, NEW n \in 0 .. 6
                 PROVE  /\ verb.taps[s][n] \in 0 .. TapLength(s, n) - 1
                        /\ Behind(verb, s, n) \in {PlateTaps[s][n], PlateTaps[s][n] - TapLength(s, n)}
      BY DEF TapsInv
    <3>1. verb.taps[s][n] = TapLength(s, n) - PlateTaps[s][n] /\ TapRing(verb, s, n).idx = 0
      BY <2>1, <2>4 DEF AgedTaps
    <3>2. TapLength(s, n) \in Nat \ {0} /\ PlateTaps[s][n] \in 1 .. TapLength(s, n)
      BY <2>3, TapRingLength, PlateAssumption
    <3> QED BY <3>1, <3>2 DEF Behind
  <2> QED BY <2>1, <2>3, <2>5 DEF VerbInv, PlateFields
<1> QED BY <1>1, <1>2 DEF VerbInit

LEMMA StepVerbInv == VerbInv(verb) /\ VerbNext => VerbInv(verb')
<1> SUFFICES ASSUME VerbInv(verb), VerbNext PROVE VerbInv(verb')
  OBVIOUS
<1>1. CASE SetParametersRoom \/ SetParametersPlate
  BY <1>1, SetKeeps, CountKeeps DEF SetParametersRoom, SetParametersPlate
<1>2. CASE ResetReverb
  BY <1>2, ResetKeeps, CountKeeps DEF ResetReverb
<1>3. CASE PlayFrame \/ PlaySilence
  BY <1>3, PlayKeeps, CountKeeps DEF PlayFrame, PlaySilence
<1> QED BY <1>1, <1>2, <1>3 DEF VerbNext

\* Counting from the end of a ring or from its start comes to the same.
LEMMA RoundTheEnd ==
  ASSUME NEW length \in Nat \ {0}, NEW age \in 1 .. length
  PROVE  (age - length) % length = age % length
<1>1. CASE age = length
  BY <1>1
<1>2. CASE age < length
  BY <1>2
<1> QED BY <1>1, <1>2

\* For a plate of any lengths and taps, whatever it plays, is set to or reset in:
\* every tap reads the sample of its age. (reverb_plate_stereo)
THEOREM TapsCorrect == Spec => []TapsTrackDelays
<1> DEFINE Inv == stage = "reverb" => VerbInv(verb)
<1>1. Init => Inv
  BY InitVerbInv DEF Init
<1>2. Inv /\ [Next]_vars => Inv'
  <2> SUFFICES ASSUME VerbInv(verb), [Next]_vars, stage = "reverb" PROVE VerbInv(verb')
    BY DEF Next, vars, VerbInv
  <2> QED BY StepVerbInv DEF Next, vars
<1>3. Inv => TapsTrackDelays
  <2> SUFFICES ASSUME VerbInv(verb), verb.kind = "plate", NEW s \in Sides, NEW n \in 0 .. 6
               PROVE  (TapRing(verb, s, n).idx - verb.taps[s][n]) % TapRing(verb, s, n).delay
                        = PlateTaps[s][n] % TapRing(verb, s, n).delay
    BY DEF TapsTrackDelays
  <2> DEFINE length == TapLength(s, n)
             age == PlateTaps[s][n]
             behind == TapRing(verb, s, n).idx - verb.taps[s][n]
  <2>1. TapRing(verb, s, n).delay = length /\ length \in Nat \ {0} /\ age \in 1 .. length
    BY TapRingLength, PlateAssumption DEF VerbInv, RingOf
  <2>2. behind \in {age, age - length}
    BY DEF VerbInv, TapsInv, Behind
  <2> HIDE DEF length, age, behind
  <2>3. behind % length = age % length
    BY <2>1, <2>2, RoundTheEnd
  <2> QED BY <2>1, <2>3 DEF length, age, behind
<1> QED BY <1>1, <1>2, <1>3, PTL DEF Spec

-------------------------------------------------------------------------------
(* The slewing biquad. First the arithmetic of shifts.                         *)

\* The provers have no law of exponents; the library counts subsets with one.
LEMMA PowersOfTwo == \A n \in Nat : 2 ^ n \in Nat \ {0} /\ 2 ^ (n + 1) = 2 * 2 ^ n
<1> SUFFICES ASSUME NEW n \in Nat PROVE 2 ^ n \in Nat \ {0} /\ 2 ^ (n + 1) = 2 * 2 ^ n
  OBVIOUS
<1> DEFINE A == SUBSET (1 .. n)
           B == {T \cup {n + 1} : T \in A}
<1>1. /\ IsFiniteSet(1 .. n) /\ Cardinality(1 .. n) = n
      /\ IsFiniteSet(1 .. n + 1) /\ Cardinality(1 .. n + 1) = n + 1
  BY FS_Interval
<1>2. IsFiniteSet(A) /\ Cardinality(A) = 2 ^ n
  BY <1>1, FS_SUBSET
<1>3. Cardinality(SUBSET (1 .. n + 1)) = 2 ^ (n + 1)
  BY <1>1, FS_SUBSET
<1>4. ExistsBijection(A, B)
  <2> DEFINE f == [T \in A |-> T \cup {n + 1}]
  <2>1. f \in [A -> B]
    OBVIOUS
  <2>2. \A T \in A : n + 1 \notin T
    OBVIOUS
  <2>3. \A T, U \in A : f[T] = f[U] => T = U
    BY <2>2
  <2>4. \A V \in B : \E T \in A : f[T] = V
    OBVIOUS
  <2> HIDE DEF f
  <2> QED BY <2>1, <2>3, <2>4, Zenon DEF ExistsBijection, Bijection, Injection, Surjection, IsInjective
<1>5. IsFiniteSet(B) /\ Cardinality(B) = Cardinality(A)
  BY <1>2, <1>4, FS_Bijection
<1>6. A \cup B = SUBSET (1 .. n + 1)
  <2>1. ASSUME NEW V \in SUBSET (1 .. n + 1) PROVE V \in A \cup B
    <3>1. CASE n + 1 \in V
      <4>1. V \ {n + 1} \in A
        BY <2>1
      <4>2. V = (V \ {n + 1}) \cup {n + 1}
        BY <3>1
      <4> QED BY <4>1, <4>2
    <3>2. CASE n + 1 \notin V
      BY <2>1, <3>2
    <3> QED BY <3>1, <3>2
  <2>2. ASSUME NEW V \in A \cup B PROVE V \in SUBSET (1 .. n + 1)
    BY <2>2
  <2> QED BY <2>1, <2>2
<1>7. A \cap B = {}
  OBVIOUS
<1>8. Cardinality(A \cup B) = Cardinality(A) + Cardinality(B) - Cardinality(A \cap B)
  BY <1>2, <1>5, FS_Union
<1>9. Cardinality(A \cap B) = 0
  BY <1>7, FS_EmptySet
<1>10. 2 ^ n \in Nat
  BY <1>2, FS_CardinalityType
<1>11. 2 ^ n # 0
  <2>1. A # {}
    OBVIOUS
  <2> HIDE DEF A
  <2> QED BY <1>2, <2>1, FS_EmptySet
<1> HIDE DEF A, B
<1>12. 2 ^ (n + 1) = Cardinality(A) + Cardinality(B) - Cardinality(A \cap B)
  BY <1>3, <1>6, <1>8, Zenon
<1>13. Cardinality(A) = 2 ^ n /\ Cardinality(B) = 2 ^ n
  BY <1>2, <1>5, Zenon
<1>14. 2 ^ (n + 1) = 2 ^ n + 2 ^ n
  BY <1>9, <1>10, <1>12, <1>13
<1> QED BY <1>10, <1>11, <1>14

-------------------------------------------------------------------------------
LEMMA QuotientOf ==
  ASSUME NEW v \in Int, NEW d \in Nat \ {0}
  PROVE  v \div d \in Int /\ d * (v \div d) <= v /\ v < d * (v \div d) + d
OBVIOUS

LEMMA Monotone ==
  ASSUME NEW d \in Nat, NEW u \in Int, NEW v \in Int, u <= v
  PROVE  u * d <= v * d
<1>1. (v - u) * d >= 0
  OBVIOUS
<1>2. (v - u) * d = v * d - u * d
  OBVIOUS
<1> QED BY <1>1, <1>2

\* A quotient is between 0 and what is divided.
LEMMA ShiftShrinks ==
  ASSUME NEW v \in Int, NEW d \in Nat \ {0}
  PROVE  (0 <= v => 0 <= v \div d /\ v \div d <= v) /\ (v <= 0 => v <= v \div d /\ v \div d <= 0)
<1> DEFINE q == v \div d
<1>1. q \in Int /\ d * q <= v /\ v < d * q + d
  BY QuotientOf
<1> HIDE DEF q
<1>2. CASE 0 <= v
  <2>1. q >= 0
    <3>1. CASE q <= -1
      <4>1. q * d <= -1 * d
        BY <1>1, <3>1, Monotone
      <4> QED BY <1>1, <1>2, <4>1
    <3> QED BY <1>1, <3>1
  <2>2. q * 1 <= q * d
    <3>1. 1 * q <= d * q
      BY <1>1, <2>1, Monotone
    <3> QED BY <1>1, <3>1
  <2> QED BY <1>1, <1>2, <2>1, <2>2 DEF q
<1>3. CASE v < 0
  <2>1. q <= -1
    <3>1. CASE q >= 0
      <4>1. 0 * d <= q * d
        BY <1>1, <3>1, Monotone
      <4> QED BY <1>1, <1>3, <4>1
    <3> QED BY <1>1, <3>1
  <2>2. v <= q
    <3>1. (-q - 1) * 1 <= (-q - 1) * d
      <4>1. 1 * (-q - 1) <= d * (-q - 1)
        BY <1>1, <2>1, Monotone
      <4> QED BY <1>1, <4>1
    <3>2. (-q - 1) * d = -(q * d) - d
      BY <1>1
    <3> QED BY <1>1, <3>1, <3>2
  <2> QED BY <2>1, <2>2 DEF q
<1> QED BY <1>2, <1>3

\* One step of a coefficient's slew: towards its aim and not past it.
Between(u, v, w) == (u <= w => u <= v /\ v <= w) /\ (w <= u => w <= v /\ v <= u)

LEMMA SlewTowards ==
  ASSUME NEW q \in Int, NEW aim \in Int, NEW d \in Nat \ {0}
  PROVE  LET next == q + SaturateInt32Vpu(aim - q) \div d
         IN  next \in Int /\ Between(q, next, aim)
<1> DEFINE gap == SaturateInt32Vpu(aim - q)
           step == gap \div d
<1>1. MaxInt \in Nat
  BY FixedPointAssumption DEF MaxInt
<1>2. gap \in Int /\ (0 <= aim - q => 0 <= gap /\ gap <= aim - q) /\ (aim - q <= 0 => aim - q <= gap /\ gap <= 0)
  BY <1>1 DEF SaturateInt32Vpu, Clamp
<1> HIDE DEF gap
<1>3. step \in Int /\ (0 <= gap => 0 <= step /\ step <= gap) /\ (gap <= 0 => gap <= step /\ step <= 0)
  BY <1>2, ShiftShrinks, QuotientOf
<1> HIDE DEF step
<1>4. (q + step) \in Int /\ Between(q, q + step, aim)
  BY <1>2, <1>3 DEF Between
<1> QED BY <1>4 DEF step, gap

\* In the target's format that brings a coefficient no further from it than what
\* the outstanding shift cannot hold.
LEMMA SlewNoFurther ==
  ASSUME NEW q \in Int, NEW next \in Int, NEW t \in Int, NEW p \in Nat \ {0}, Between(q, next, t \div p)
  PROVE  Magnitude(next * p - t) <= Larger(Magnitude(q * p - t), p)
<1> DEFINE aim == t \div p
<1>1. aim \in Int /\ p * aim <= t /\ t < p * aim + p
  BY QuotientOf
<1> HIDE DEF aim
<1>2. q * p \in Int /\ next * p \in Int /\ aim * p \in Int /\ aim * p = p * aim
  BY <1>1
<1>3. CASE q <= aim
  <2>1. q * p <= next * p /\ next * p <= aim * p
    BY <1>1, <1>3, Monotone DEF Between, aim
  <2> QED BY <1>1, <1>2, <2>1 DEF Magnitude, Larger
<1>4. CASE aim <= q
  <2>1. aim * p <= next * p /\ next * p <= q * p
    BY <1>1, <1>4, Monotone DEF Between, aim
  <2> QED BY <1>1, <1>2, <2>1 DEF Magnitude, Larger
<1> QED BY <1>1, <1>3, <1>4

LEMMA DoubledIsWord ==
  ASSUME NEW v \in Int, Magnitude(v) < Half
  PROVE  Int32(2 * v) = 2 * v
<1>1. Half \in Int /\ 2 * Half <= Unit /\ Unit \in Nat \ {0}
  BY FixedPointAssumption DEF Half
<1>2. 0 <= 2 * v + Unit /\ 2 * v + Unit < 2 * Unit
  BY <1>1 DEF Magnitude
<1>3. (2 * v + Unit) % (2 * Unit) = 2 * v + Unit
  BY <1>1, <1>2
<1> QED BY <1>1, <1>3 DEF Int32

-------------------------------------------------------------------------------
\* The shift of a design is a number of octaves, and its coefficients integers.
IsDesign(d) == (\A i \in 1 .. 6 : d[i] \in Int) /\ d[4] > 0 /\ \E s \in 0 .. Unit : Octaves(d, s)

LEMMA AskedAreDesigns == \A d \in Designs \cup {Bypass} : IsDesign(d)
<1>1. \A d \in Designs : IsDesign(d)
  BY BiquadAssumption DEF IsDesign
<1>2. IsDesign(Bypass)
  <2>1. 2 ^ (0 + 1) = 2
    BY PowersOfTwo
  <2>2. Loudest(Bypass) = 1
    BY DEF Loudest, Bypass, Larger, Magnitude
  <2>3. Octaves(Bypass, 0)
    BY <2>1, <2>2 DEF Octaves, Bypass
  <2> QED BY <2>3, FixedPointAssumption DEF IsDesign, Bypass
<1> QED BY <1>1, <1>2

LEMMA DesignRounded ==
  ASSUME NEW d, IsDesign(d)
  PROVE  /\ GetBShift(d) \in Nat /\ Octaves(d, GetBShift(d))
         /\ \A i \in 1 .. 5 : RoundToQ30(d)[i] \in Int
<1>1. GetBShift(d) \in 0 .. Unit /\ Octaves(d, GetBShift(d))
  BY DEF GetBShift, IsDesign
<1>2. \A n \in Int, m \in Nat \ {0} : Nearest(n, m) \in Int
  BY QuotientOf DEF Nearest
<1>3. 2 ^ GetBShift(d) \in Nat \ {0}
  BY <1>1, PowersOfTwo
<1> DEFINE over == d[4] * 2 ^ GetBShift(d)
<1>4. over \in Nat \ {0} /\ d[4] \in Nat \ {0}
  BY <1>3 DEF IsDesign
<1>5. Half \in Int
  BY FixedPointAssumption DEF Half
<1>6. \A i \in 1 .. 6 : d[i] * Half \in Int /\ -d[i] * Half \in Int
  BY <1>5 DEF IsDesign
<1>7. \A i \in 1 .. 6 : Nearest(d[i] * Half, over) \in Int /\ Nearest(-d[i] * Half, d[4]) \in Int
  BY <1>2, <1>4, <1>6
<1> QED BY <1>1, <1>7 DEF RoundToQ30

BiquadFields ==
  {"kind", "slews", "coeffs", "target", "shift", "remaining", "slew", "x", "y", "fresh", "asked", "sets"}

SlewsUsed == SlewShifts \cup {1, 2}

\* The block aims at the last design that was accepted; only a slew has shift
\* outstanding.
BiquadInv(b) ==
  /\ BiquadFields \subseteq DOMAIN b /\ b.kind = "biquad" /\ b.slews \in BOOLEAN
  /\ b.shift \in Int /\ b.remaining \in Nat /\ b.sets \in Nat /\ b.slew \in SlewsUsed
  /\ ~b.slews => b.remaining = 0
  /\ b.asked \in Designs \cup {Bypass} /\ Accepted(b.asked) /\ b.target = RoundToQ30(b.asked)
  /\ \A i \in 1 .. 5 : b.coeffs[i] \in Int
  /\ DOMAIN b.x = DOMAIN b.y /\ \A f \in BiquadFrames : DOMAIN f = DOMAIN b.y
  /\ \A c \in DOMAIN b.y : {b.x[c][1], b.x[c][2], b.y[c][1], b.y[c][2]} \subseteq Int

LEMMA BypassRounded == Half \in Nat \ {0} /\ Half < Unit /\ RoundToQ30(Bypass) = <<Half, 0, 0, 0, 0>>
<1>1. IsDesign(Bypass)
  BY AskedAreDesigns
<1>2. GetBShift(Bypass) \in Nat /\ Octaves(Bypass, GetBShift(Bypass))
  BY <1>1, DesignRounded
<1>3. Loudest(Bypass) = 1
  BY DEF Loudest, Bypass, Larger, Magnitude
<1>4. GetBShift(Bypass) = 0
  <2> SUFFICES ASSUME GetBShift(Bypass) > 0 PROVE FALSE
    BY <1>2
  <2> DEFINE s == GetBShift(Bypass)
  <2>1. 2 ^ s <= 1
    BY <1>2, <1>3, PowersOfTwo DEF Octaves, Bypass
  <2>2. s - 1 \in Nat /\ s = (s - 1) + 1
    BY <1>2
  <2>3. 2 ^ ((s - 1) + 1) = 2 * 2 ^ (s - 1) /\ 2 ^ (s - 1) \in Nat \ {0}
    BY <2>2, PowersOfTwo
  <2> QED BY <2>1, <2>2, <2>3
<1>5. 2 ^ 0 = 1
  OBVIOUS
<1>6. Half \in Nat \ {0} /\ Half < Unit
  BY FixedPointAssumption DEF Half
<1>7. Nearest(1 * Half, 1) = Half /\ Nearest(0 * Half, 1) = 0 /\ Nearest(-0 * Half, 1) = 0
  BY <1>6 DEF Nearest
<1>8. RoundToQ30(Bypass) = <<Half, 0, 0, 0, 0>>
  BY <1>4, <1>5, <1>7 DEF RoundToQ30, Bypass
<1> QED BY <1>6, <1>8

LEMMA BypassAccepted == Accepted(Bypass)
BY BypassRounded, FixedPointAssumption DEF Accepted, Stable, Magnitude, Word, MinInt, MaxInt

LEMMA InitBiquadInv == BiquadInit => BiquadInv(biquad)
<1> SUFFICES ASSUME BiquadInit PROVE BiquadInv(biquad)
  OBVIOUS
<1> DEFINE channels == DOMAIN CHOOSE f \in BiquadFrames : TRUE
<1>1. PICK slews \in BOOLEAN : biquad = BiquadBlock(slews, Bypass, channels)
  BY DEF BiquadInit
<1>2. \A f \in BiquadFrames : DOMAIN f = channels
  BY BiquadAssumption
<1> HIDE DEF channels
<1>3. IsDesign(Bypass) /\ Accepted(Bypass)
  BY AskedAreDesigns, BypassAccepted
<1>4. GetBShift(Bypass) \in Nat /\ \A i \in 1 .. 5 : RoundToQ30(Bypass)[i] \in Int
  BY <1>3, DesignRounded
<1> QED BY <1>1, <1>2, <1>3, <1>4 DEF BiquadBlock, BiquadInv, BiquadFields, SlewsUsed

\* A new filter: refused, taken over at once, or aimed at.
LEMMA AskedKeeps ==
  ASSUME NEW b, BiquadInv(b), NEW d \in Designs \cup {Bypass}
  PROVE  BiquadInv(Asked(b, d)) /\ Asked(b, d).sets = b.sets
<1> USE DEF BiquadFields
<1>1. GetBShift(d) \in Nat /\ \A i \in 1 .. 5 : RoundToQ30(d)[i] \in Int
  BY AskedAreDesigns, DesignRounded
<1>2. CASE ~Accepted(d)
  BY <1>1, <1>2 DEF Asked, Refused, BiquadInv
<1>3. CASE Accepted(d) /\ ~b.slews
  <2> DEFINE w == UpdateCoeffs(b, d)
  <2>1. /\ DOMAIN w = DOMAIN b /\ w.kind = b.kind /\ w.slews = b.slews /\ w.shift = GetBShift(d)
        /\ w.remaining = b.remaining /\ w.sets = b.sets /\ w.slew = b.slew /\ w.asked = d
        /\ w.target = RoundToQ30(d) /\ w.coeffs = RoundToQ30(d)
        /\ w.x = [c \in DOMAIN b.x |-> <<0, 0>>] /\ w.y = [c \in DOMAIN b.y |-> <<0, 0>>]
    BY DEF UpdateCoeffs, Silent, BiquadInv
  <2> HIDE DEF w
  <2>2. BiquadInv(w)
    BY <1>1, <1>3, <2>1 DEF BiquadInv
  <2>3. Asked(b, d) = w
    BY <1>3 DEF Asked, w
  <2> QED BY <2>1, <2>2, <2>3
<1>4. CASE Accepted(d) /\ b.slews
  <2> DEFINE w == UpdateSlewed(b, d)
             change == b.shift - GetBShift(d)
  <2>0. Asked(b, d) = w
    BY <1>4 DEF Asked
  <2>1. /\ DOMAIN w = DOMAIN b /\ w.kind = b.kind /\ w.slews = b.slews /\ w.sets = b.sets
        /\ w.slew = b.slew /\ w.asked = d /\ w.target = RoundToQ30(d) /\ w.x = b.x
    BY DEF UpdateSlewed, BiquadInv
  <2>2. change \in Int
    BY <1>1 DEF BiquadInv
  <2>3. CASE change > 0
    <3>1. w.remaining = change /\ w.shift = b.shift /\ w.coeffs = b.coeffs /\ w.y = b.y
      BY <2>3 DEF UpdateSlewed, BiquadInv
    <3> HIDE DEF w, change
    <3> QED BY <1>1, <1>4, <2>0, <2>1, <2>2, <2>3, <3>1 DEF BiquadInv
  <2>4. CASE ~(change > 0)
    <3>1. /\ w.remaining = b.remaining /\ w.shift = GetBShift(d)
          /\ w.coeffs = [i \in 1 .. 5 |-> IF i <= 3 THEN ShiftDown(b.coeffs[i], -change) ELSE b.coeffs[i]]
          /\ w.y = [c \in DOMAIN b.y |-> [i \in 1 .. 2 |-> ShiftDown(b.y[c][i], -change)]]
      BY <2>4 DEF UpdateSlewed, BiquadInv
    <3>2. -change \in Nat
      BY <2>2, <2>4
    <3> HIDE DEF w, change
    <3>3. \A v \in Int : ShiftDown(v, -change) \in Int
      BY <3>2, PowersOfTwo, QuotientOf DEF ShiftDown
    <3>4. \A i \in 1 .. 5 : w.coeffs[i] \in Int
      BY <3>1, <3>3 DEF BiquadInv
    <3>5. DOMAIN w.y = DOMAIN b.y /\ \A c \in DOMAIN b.y : w.y[c][1] \in Int /\ w.y[c][2] \in Int
      BY <3>1, <3>3 DEF BiquadInv
    <3> QED BY <1>1, <1>4, <2>0, <2>1, <3>1, <3>4, <3>5 DEF BiquadInv
  <2> QED BY <2>3, <2>4
<1> QED BY <1>2, <1>3, <1>4 DEF BiquadInv

\* What a step of the slew does to a block, before it may give back a shift.
LEMMA SlewShape ==
  ASSUME NEW b, BiquadInv(b), b.slews
  PROVE  /\ 2 ^ b.slew \in Nat \ {0} /\ 2 ^ b.remaining \in Nat \ {0}
         /\ \A i \in 1 .. 5 : /\ b.target[i] \in Int /\ Aim(b)[i] \in Int
                              /\ SlewedCoeffs(b)[i] \in Int
                              /\ Between(b.coeffs[i], SlewedCoeffs(b)[i], Aim(b)[i])
<1>1. b.slew \in Nat
  BY BiquadAssumption DEF BiquadInv, SlewsUsed
<1>2. 2 ^ b.slew \in Nat \ {0} /\ 2 ^ b.remaining \in Nat \ {0}
  BY <1>1, PowersOfTwo DEF BiquadInv
<1>3. \A i \in 1 .. 5 : b.target[i] \in Int /\ b.coeffs[i] \in Int
  BY AskedAreDesigns, DesignRounded DEF BiquadInv
<1>4. \A i \in 1 .. 5 : Aim(b)[i] \in Int
  BY <1>2, <1>3, QuotientOf DEF Aim, ShiftDown
<1>5. \A i \in 1 .. 5 : SlewedCoeffs(b)[i] = b.coeffs[i] + SaturateInt32Vpu(Aim(b)[i] - b.coeffs[i]) \div 2 ^ b.slew
  BY DEF SlewedCoeffs, ShiftDown
<1>6. \A i \in 1 .. 5 : SlewedCoeffs(b)[i] \in Int /\ Between(b.coeffs[i], SlewedCoeffs(b)[i], Aim(b)[i])
  BY <1>2, <1>3, <1>4, <1>5, SlewTowards
<1> QED BY <1>2, <1>3, <1>4, <1>6

\* A step of the slew only moves; or doubles the numerator and stops there; or
\* gives back a shift, which leaves every number what it was worth.
LEMMA SlewedBlock ==
  ASSUME NEW b, BiquadInv(b), b.slews
  PROVE  LET w == Slew(b)
         IN  \/ w = Moved(b) /\ ~GivesBack(b)
             \/ /\ StopsHalfWay(b)
                /\ DOMAIN w = DOMAIN b /\ \A field \in BiquadFields \ {"coeffs"} : w[field] = b[field]
                /\ \A i \in 1 .. 5 : w.coeffs[i] \in Int
             \/ /\ ~StopsHalfWay(b) /\ b.remaining > 0
                /\ DOMAIN w = DOMAIN b
                /\ \A field \in BiquadFields \ {"coeffs", "y", "remaining", "shift"} : w[field] = b[field]
                /\ w.remaining = b.remaining - 1 /\ w.shift = b.shift - 1
                /\ \A i \in 1 .. 3 : w.coeffs[i] = 2 * SlewedCoeffs(b)[i]
                /\ \A i \in 4 .. 5 : w.coeffs[i] = SlewedCoeffs(b)[i]
                /\ DOMAIN w.y = DOMAIN b.y
                /\ \A c \in DOMAIN b.y, i \in 1 .. 2 : w.y[c][i] = 2 * b.y[c][i]
<1> DEFINE slewed == Moved(b)
           w == Slew(b)
<1>1. BiquadFields \subseteq DOMAIN b
  BY DEF BiquadInv
<1>2. DOMAIN slewed = DOMAIN b /\ slewed.coeffs = SlewedCoeffs(b) /\ slewed.remaining = b.remaining
      /\ slewed.shift = b.shift /\ slewed.y = b.y
      /\ \A field \in BiquadFields \ {"coeffs"} : slewed[field] = b[field]
  BY <1>1 DEF Moved, BiquadFields
<1>3. CASE ~GivesBack(b)
  BY <1>3 DEF Slew, StopsHalfWay
<1>4. CASE GivesBack(b)
  <2> HIDE DEF slewed
  <2> DEFINE doubled == DoubleNumerator(slewed)
  <2>1. b.remaining > 0 /\ HasHeadroom(slewed)
    BY <1>4 DEF GivesBack, slewed
  <2>2. \A i \in 1 .. 3 : Int32(2 * SlewedCoeffs(b)[i]) = 2 * SlewedCoeffs(b)[i]
    BY <1>2, <2>1, SlewShape, DoubledIsWord DEF HasHeadroom
  <2>3. /\ DOMAIN doubled = DOMAIN b
        /\ doubled.coeffs = [i \in 1 .. 5 |-> IF i <= 3 THEN Int32(2 * slewed.coeffs[i]) ELSE slewed.coeffs[i]]
        /\ \A field \in BiquadFields \ {"coeffs"} : doubled[field] = b[field]
    BY <1>1, <1>2 DEF DoubleNumerator, BiquadFields
  <2>4. /\ \A i \in 1 .. 3 : doubled.coeffs[i] = 2 * SlewedCoeffs(b)[i]
        /\ \A i \in 4 .. 5 : doubled.coeffs[i] = SlewedCoeffs(b)[i]
    BY <1>2, <2>2, <2>3
  <2>5. CASE StopsHalfWay(b)
    <3>1. w = doubled
      BY <2>5 DEF Slew, slewed, Moved
    <3>2. \A i \in 1 .. 5 : doubled.coeffs[i] \in Int
      BY <2>4, SlewShape
    <3> QED BY <2>3, <2>5, <3>1, <3>2
  <2>6. CASE ~StopsHalfWay(b)
    <3>1. w = GiveBack(slewed)
      BY <1>4, <2>6 DEF Slew, slewed
    <3>2. \A c \in DOMAIN b.y, i \in 1 .. 2 : Int32(2 * b.y[c][i]) = 2 * b.y[c][i]
      <4>1. \A c \in DOMAIN b.y, i \in 1 .. 2 : b.y[c][i] \in Int /\ Magnitude(b.y[c][i]) < Half
        BY <1>2, <2>1 DEF HasHeadroom, BiquadInv
      <4> QED BY <4>1, DoubledIsWord
    <3>3. doubled.remaining = b.remaining /\ doubled.shift = b.shift
      BY <2>3 DEF BiquadFields
    <3> DEFINE ys == [c \in DOMAIN slewed.y |-> [i \in 1 .. 2 |-> Int32(2 * slewed.y[c][i])]]
    <3>4. w = [doubled EXCEPT !.y = ys, !.remaining = @ - 1, !.shift = @ - 1]
      BY <3>1 DEF GiveBack
    <3> HIDE DEF doubled, w, ys
    <3>5. /\ DOMAIN w = DOMAIN b /\ w.remaining = b.remaining - 1 /\ w.shift = b.shift - 1
          /\ w.coeffs = doubled.coeffs /\ w.y = ys
          /\ \A field \in BiquadFields \ {"coeffs", "y", "remaining", "shift"} : w[field] = doubled[field]
      BY <1>1, <2>3, <3>3, <3>4 DEF BiquadFields
    <3>6. DOMAIN w.y = DOMAIN b.y /\ \A c \in DOMAIN b.y, i \in 1 .. 2 : w.y[c][i] = 2 * b.y[c][i]
      BY <1>2, <3>2, <3>5 DEF ys
    <3>7. \A field \in BiquadFields \ {"coeffs", "y", "remaining", "shift"} : w[field] = b[field]
      BY <2>3, <3>5
    <3> QED BY <2>1, <2>4, <2>6, <3>5, <3>6, <3>7 DEF w
  <2> QED BY <2>5, <2>6
<1> QED BY <1>3, <1>4

LEMMA SlewKeeps ==
  ASSUME NEW b, BiquadInv(b)
  PROVE  BiquadInv(Slew(b)) /\ Slew(b).sets = b.sets
<1>1. CASE ~b.slews
  BY <1>1 DEF Slew
<1>2. CASE b.slews
  <2> DEFINE w == Slew(b)
             OnlyCoeffs == DOMAIN w = DOMAIN b /\ \A field \in BiquadFields \ {"coeffs"} : w[field] = b[field]
  <2>1. ASSUME OnlyCoeffs, \A i \in 1 .. 5 : w.coeffs[i] \in Int
        PROVE  BiquadInv(w) /\ w.sets = b.sets
    <3> HIDE DEF w
    <3>1. /\ w.kind = b.kind /\ w.slews = b.slews /\ w.target = b.target /\ w.slew = b.slew
          /\ w.x = b.x /\ w.y = b.y /\ w.asked = b.asked /\ w.sets = b.sets
          /\ w.remaining = b.remaining /\ w.shift = b.shift
      BY <2>1 DEF BiquadFields
    <3> QED BY <2>1, <3>1 DEF BiquadInv
  <2>2. CASE w = Moved(b)
    <3>1. DOMAIN w = DOMAIN b /\ w.coeffs = SlewedCoeffs(b)
          /\ \A field \in BiquadFields \ {"coeffs"} : w[field] = b[field]
      BY <2>2 DEF Moved, BiquadInv, BiquadFields
    <3> HIDE DEF w
    <3>2. \A i \in 1 .. 5 : w.coeffs[i] \in Int
      BY <1>2, <3>1, SlewShape
    <3> QED BY <2>1, <3>1, <3>2 DEF w
  <2>3. CASE StopsHalfWay(b) /\ OnlyCoeffs /\ \A i \in 1 .. 5 : w.coeffs[i] \in Int
    BY <2>1, <2>3
  <2>4. CASE ~(w = Moved(b)) /\ ~StopsHalfWay(b)
    <3>1. /\ b.remaining > 0 /\ DOMAIN w = DOMAIN b
          /\ \A field \in BiquadFields \ {"coeffs", "y", "remaining", "shift"} : w[field] = b[field]
          /\ w.remaining = b.remaining - 1 /\ w.shift = b.shift - 1
          /\ \A i \in 1 .. 3 : w.coeffs[i] = 2 * SlewedCoeffs(b)[i]
          /\ \A i \in 4 .. 5 : w.coeffs[i] = SlewedCoeffs(b)[i]
          /\ DOMAIN w.y = DOMAIN b.y
          /\ \A c \in DOMAIN b.y, i \in 1 .. 2 : w.y[c][i] = 2 * b.y[c][i]
      BY <1>2, <2>4, SlewedBlock
    <3> HIDE DEF w
    <3>2. \A i \in 1 .. 5 : w.coeffs[i] \in Int
      <4>1. \A i \in 1 .. 5 : SlewedCoeffs(b)[i] \in Int
        BY <1>2, SlewShape
      <4> QED BY <3>1, <4>1
    <3>3. /\ w.kind = b.kind /\ w.slews = b.slews /\ w.target = b.target /\ w.slew = b.slew
          /\ w.x = b.x /\ w.asked = b.asked /\ w.sets = b.sets
      BY <3>1 DEF BiquadFields
    <3>4. \A c \in DOMAIN b.y : w.y[c][1] \in Int /\ w.y[c][2] \in Int
      BY <3>1 DEF BiquadInv
    <3>5. BiquadInv(w)
      BY <1>2, <3>1, <3>2, <3>3, <3>4 DEF BiquadInv
    <3> QED BY <3>3, <3>5 DEF w
  <2> HIDE DEF w
  <2> QED BY <1>2, <2>2, <2>3, <2>4, SlewedBlock DEF w
<1> QED BY <1>1, <1>2 DEF BiquadInv

\* Filtering some of the channels changes neither coefficients nor format.
LEMMA FilterKeeps ==
  ASSUME NEW b, BiquadInv(b), NEW frame \in BiquadFrames, NEW channels
  PROVE  LET w == Filtered(b, frame, channels)
         IN  /\ BiquadInv(w) /\ w.sets = b.sets /\ w.coeffs = b.coeffs /\ w.target = b.target
             /\ w.shift = b.shift /\ w.remaining = b.remaining
             /\ \A c \in channels \cap DOMAIN b.y : w.y[c][2] = b.y[c][1]
<1> DEFINE w == Filtered(b, frame, channels)
<1>1. Half \in Nat \ {0} /\ Unit \in Nat
  BY FixedPointAssumption DEF Half
<1>2. \A u \in Int, v \in Int : VpuMult(u, v, Half) \in Int
  <2> SUFFICES ASSUME NEW u \in Int, NEW v \in Int PROVE VpuMult(u, v, Half) \in Int
    OBVIOUS
  <2>1. u * v + Half \div 2 \in Int
    BY <1>1
  <2> QED BY <1>1, <2>1, QuotientOf DEF VpuMult
<1>3. \A c \in DOMAIN b.y : frame[c] \in Int
  BY BiquadAssumption, FixedPointAssumption DEF BiquadInv, Word, MinInt, MaxInt
<1>4. \A c \in DOMAIN b.y : Filter(b, c, frame[c]) \in Int
  <2> SUFFICES ASSUME NEW c \in DOMAIN b.y PROVE Filter(b, c, frame[c]) \in Int
    OBVIOUS
  <2> DEFINE q == b.coeffs
  <2>1. /\ q[1] \in Int /\ q[2] \in Int /\ q[3] \in Int /\ q[4] \in Int /\ q[5] \in Int /\ frame[c] \in Int
        /\ b.x[c][1] \in Int /\ b.x[c][2] \in Int /\ b.y[c][1] \in Int /\ b.y[c][2] \in Int
    BY <1>3 DEF BiquadInv
  <2>2. /\ VpuMult(frame[c], q[1], Half) \in Int /\ VpuMult(b.x[c][1], q[2], Half) \in Int
        /\ VpuMult(b.x[c][2], q[3], Half) \in Int /\ VpuMult(b.y[c][1], q[4], Half) \in Int
        /\ VpuMult(b.y[c][2], q[5], Half) \in Int
    BY <1>2, <2>1
  <2>3. \A v \in Int : SaturateInt32(v) \in Int
    BY <1>1 DEF SaturateInt32, Clamp, MinInt, MaxInt
  <2> QED BY <2>2, <2>3 DEF Filter
<1> DEFINE xs == [c \in DOMAIN b.x |-> IF c \in channels THEN <<frame[c], b.x[c][1]>> ELSE b.x[c]]
           ys == [c \in DOMAIN b.y |-> IF c \in channels THEN <<Filter(b, c, frame[c]), b.y[c][1]>> ELSE b.y[c]]
<1>5. DOMAIN w = DOMAIN b /\ w.x = xs /\ w.y = ys
      /\ \A field \in BiquadFields \ {"x", "y", "fresh"} : w[field] = b[field]
  <2>1. w = [b EXCEPT !.x = xs, !.y = ys, !.fresh = @ \ channels]
    BY DEF Filtered
  <2> HIDE DEF xs, ys, w
  <2>2. BiquadFields \subseteq DOMAIN b
    BY DEF BiquadInv
  <2> QED BY <2>1, <2>2 DEF BiquadFields
<1> HIDE DEF w
<1>6. /\ w.kind = b.kind /\ w.slews = b.slews /\ w.target = b.target /\ w.slew = b.slew /\ w.asked = b.asked
      /\ w.sets = b.sets /\ w.coeffs = b.coeffs /\ w.remaining = b.remaining /\ w.shift = b.shift
  BY <1>5 DEF BiquadFields
<1>7. DOMAIN w.x = DOMAIN b.x /\ DOMAIN w.y = DOMAIN b.y /\ DOMAIN b.x = DOMAIN b.y
  BY <1>5 DEF BiquadInv
<1>8. \A c \in DOMAIN b.y : {w.x[c][1], w.x[c][2], w.y[c][1], w.y[c][2]} \subseteq Int
  <2> SUFFICES ASSUME NEW c \in DOMAIN b.y
               PROVE  {w.x[c][1], w.x[c][2], w.y[c][1], w.y[c][2]} \subseteq Int
    OBVIOUS
  <2>1. {b.x[c][1], b.x[c][2], b.y[c][1], b.y[c][2]} \subseteq Int
    BY DEF BiquadInv
  <2>2. CASE c \in channels
    BY <1>3, <1>4, <1>5, <1>7, <2>1, <2>2
  <2>3. CASE c \notin channels
    <3>1. w.x[c] = b.x[c] /\ w.y[c] = b.y[c]
      BY <1>5, <1>7, <2>3
    <3> QED BY <2>1, <3>1
  <2> QED BY <2>2, <2>3
<1>9. \A c \in channels \cap DOMAIN b.y : w.y[c][2] = b.y[c][1]
  BY <1>5
<1> QED BY <1>5, <1>6, <1>7, <1>8, <1>9 DEF BiquadInv, w

LEMMA ProcessedKeeps ==
  ASSUME NEW b, BiquadInv(b), NEW frame \in BiquadFrames
  PROVE  BiquadInv(Processed(b, frame)) /\ Processed(b, frame).sets = b.sets
BY SlewKeeps, FilterKeeps DEF Processed

LEMMA StepBiquadInv == BiquadInv(biquad) /\ BiquadNext => BiquadInv(biquad')
<1> SUFFICES ASSUME BiquadInv(biquad), BiquadNext PROVE BiquadInv(biquad')
  OBVIOUS
<1>1. ASSUME NEW b, BiquadInv(b) PROVE BiquadInv(Counted(b)) /\ Counted(b).sets = b.sets + 1
  <2>1. /\ DOMAIN Counted(b) = DOMAIN b /\ Counted(b).sets = b.sets + 1
        /\ \A field \in BiquadFields \ {"sets"} : Counted(b)[field] = b[field]
    BY <1>1 DEF Counted, BiquadInv, BiquadFields
  <2> QED BY <1>1, <2>1 DEF BiquadInv, BiquadFields
<1>2. ASSUME NEW d \in Designs, SetFilter(d) PROVE BiquadInv(biquad')
  BY <1>1, <1>2, AskedKeeps DEF SetFilter
<1>3. ASSUME NEW s \in SlewShifts, SetSlewShift(s) PROVE BiquadInv(biquad')
  <2> DEFINE b == Asked(biquad, biquad.asked)
             w == [b EXCEPT !.slew = Larger(s, 1)]
  <2>1. BiquadInv(b)
    BY AskedKeeps DEF BiquadInv
  <2>2. Larger(s, 1) \in SlewsUsed
    BY DEF Larger, SlewsUsed
  <2> HIDE DEF b
  <2>3. /\ DOMAIN w = DOMAIN b /\ w.slew = Larger(s, 1)
        /\ \A field \in BiquadFields \ {"slew"} : w[field] = b[field]
    BY <2>1 DEF BiquadInv, BiquadFields
  <2> HIDE DEF w
  <2>4. BiquadInv(w)
    BY <2>1, <2>2, <2>3 DEF BiquadInv, BiquadFields
  <2>5. biquad' = Counted(w)
    BY <1>3 DEF SetSlewShift, w, b
  <2> QED BY <1>1, <2>4, <2>5
<1>4. ASSUME NEW f \in BiquadFrames, ProcessBiquad(f) PROVE BiquadInv(biquad')
  BY <1>4, ProcessedKeeps DEF ProcessBiquad
<1> QED BY <1>2, <1>3, <1>4 DEF BiquadNext

\* What a frame that is put out does to the format and to what is in flight.
LEMMA FrameIsSmooth ==
  ASSUME BiquadInv(biquad), PutsOut(biquad), NEW f \in BiquadFrames, ProcessBiquad(f)
  PROVE  /\ \A c \in DOMAIN biquad.y :
              biquad'.y[c][2] * 2 ^ biquad'.shift = biquad.y[c][1] * 2 ^ biquad.shift
         /\ \A i \in 1 .. 5 : Astray(biquad', i) <= Larger(Astray(biquad, i), 2 ^ biquad.remaining)
<1> DEFINE w == Slew(biquad)
<1>1. w.shift >= 0 /\ ~StopsHalfWay(biquad) /\ biquad' = Filtered(w, f, DOMAIN biquad.y)
  <2>1. w.shift >= 0 /\ ~StopsHalfWay(biquad)
    BY DEF PutsOut
  <2>2. ~(w.shift < 0)
    BY <2>1, SlewKeeps DEF BiquadInv
  <2> QED BY <2>1, <2>2 DEF ProcessBiquad, Processed
<1>2. BiquadInv(w) /\ \A g \in BiquadFrames : DOMAIN g = DOMAIN w.y /\ DOMAIN g = DOMAIN biquad.y
  BY SlewKeeps DEF BiquadInv
<1>3. /\ biquad'.shift = w.shift /\ biquad'.remaining = w.remaining /\ biquad'.coeffs = w.coeffs
      /\ biquad'.target = w.target /\ \A c \in DOMAIN w.y : biquad'.y[c][2] = w.y[c][1]
  <2> HIDE DEF w
  <2>1. DOMAIN w.y = DOMAIN biquad.y
    BY <1>2
  <2> QED BY <1>1, <1>2, <2>1, FilterKeeps
<1>4. \A i \in 1 .. 5 : biquad.coeffs[i] \in Int /\ biquad.target[i] \in Int
  BY AskedAreDesigns, DesignRounded DEF BiquadInv
<1>5. biquad.remaining \in Nat /\ 2 ^ biquad.remaining \in Nat \ {0}
  BY PowersOfTwo DEF BiquadInv
<1>6. \A i \in 1 .. 5 : Astray(biquad, i) \in Nat
  <2>1. \A i \in 1 .. 5 : biquad.coeffs[i] * 2 ^ biquad.remaining \in Int
    BY <1>4, <1>5
  <2> QED BY <1>4, <2>1 DEF Astray, Magnitude
<1>7. CASE w.coeffs = biquad.coeffs /\ w.y = biquad.y /\ w.shift = biquad.shift
           /\ w.remaining = biquad.remaining /\ w.target = biquad.target
  <2>1. \A i \in 1 .. 5 : Astray(biquad', i) = Astray(biquad, i)
    BY <1>3, <1>7 DEF Astray
  <2> QED BY <1>3, <1>5, <1>6, <1>7, <2>1 DEF Larger
<1>8. CASE biquad.slews
  <2> DEFINE next == SlewedCoeffs(biquad)
             slewed == Moved(biquad)
  <2>1. \A i \in 1 .. 5 : next[i] \in Int /\ Between(biquad.coeffs[i], next[i], Aim(biquad)[i])
    BY <1>8, SlewShape
  <2> HIDE DEF next
  <2>2. \A i \in 1 .. 3 : Magnitude(next[i] * 2 ^ biquad.remaining - biquad.target[i])
                            <= Larger(Astray(biquad, i), 2 ^ biquad.remaining)
    <3> SUFFICES ASSUME NEW i \in 1 .. 3
                 PROVE  Magnitude(next[i] * 2 ^ biquad.remaining - biquad.target[i])
                          <= Larger(Astray(biquad, i), 2 ^ biquad.remaining)
      OBVIOUS
    <3>1. Aim(biquad)[i] = biquad.target[i] \div 2 ^ biquad.remaining
      BY DEF Aim, ShiftDown
    <3>2. Between(biquad.coeffs[i], next[i], biquad.target[i] \div 2 ^ biquad.remaining)
      BY <2>1, <3>1
    <3>3. biquad.coeffs[i] \in Int /\ next[i] \in Int /\ biquad.target[i] \in Int
      BY <1>4, <2>1
    <3>4. Magnitude(next[i] * 2 ^ biquad.remaining - biquad.target[i])
            <= Larger(Magnitude(biquad.coeffs[i] * 2 ^ biquad.remaining - biquad.target[i]), 2 ^ biquad.remaining)
      BY <1>5, <3>2, <3>3, SlewNoFurther
    <3> QED BY <3>4 DEF Astray
  <2>3. \A i \in 4 .. 5 : Magnitude(next[i] - biquad.target[i]) <= Larger(Astray(biquad, i), 2 ^ biquad.remaining)
    <3>1. \A i \in 4 .. 5 : Between(biquad.coeffs[i], next[i], biquad.target[i])
      BY <2>1 DEF Aim
    <3> QED BY <1>4, <1>5, <2>1, <3>1 DEF Between, Astray, Magnitude, Larger
  <2>4. CASE w = slewed
    <3>1. w.coeffs = next /\ w.y = biquad.y /\ w.shift = biquad.shift /\ w.remaining = biquad.remaining
          /\ w.target = biquad.target
      BY <2>4 DEF Moved, BiquadInv, BiquadFields, next
    <3>2. \A i \in 1 .. 5 : Astray(biquad', i) <= Larger(Astray(biquad, i), 2 ^ biquad.remaining)
      BY <1>3, <2>2, <2>3, <3>1 DEF Astray
    <3> QED BY <1>3, <3>1, <3>2
  <2>5. CASE ~(w = slewed)
    <3>0. /\ biquad.remaining > 0 /\ w.remaining = biquad.remaining - 1 /\ w.shift = biquad.shift - 1
          /\ \A field \in BiquadFields \ {"coeffs", "y", "remaining", "shift"} : w[field] = biquad[field]
          /\ \A i \in 1 .. 3 : w.coeffs[i] = 2 * next[i]
          /\ \A i \in 4 .. 5 : w.coeffs[i] = next[i]
          /\ DOMAIN w.y = DOMAIN biquad.y
          /\ \A c \in DOMAIN biquad.y, i \in 1 .. 2 : w.y[c][i] = 2 * biquad.y[c][i]
      BY <1>1, <1>8, <2>5, SlewedBlock DEF next
    <3> HIDE DEF w
    <3>1. /\ biquad.remaining > 0 /\ w.remaining = biquad.remaining - 1 /\ w.shift = biquad.shift - 1
          /\ w.target = biquad.target
          /\ \A i \in 1 .. 3 : w.coeffs[i] = 2 * next[i]
          /\ \A i \in 4 .. 5 : w.coeffs[i] = next[i]
          /\ DOMAIN w.y = DOMAIN biquad.y
          /\ \A c \in DOMAIN biquad.y : w.y[c][1] = 2 * biquad.y[c][1]
      BY <3>0 DEF BiquadFields
    <3>2. /\ 2 ^ biquad.remaining = 2 * 2 ^ w.remaining /\ 2 ^ w.remaining \in Nat
          /\ 2 ^ biquad.shift = 2 * 2 ^ w.shift /\ 2 ^ w.shift \in Nat
      <4>1. \A n \in Nat \ {0} : 2 ^ n = 2 * 2 ^ (n - 1) /\ 2 ^ (n - 1) \in Nat
        <5> SUFFICES ASSUME NEW n \in Nat \ {0} PROVE 2 ^ n = 2 * 2 ^ (n - 1) /\ 2 ^ (n - 1) \in Nat
          OBVIOUS
        <5>1. n - 1 \in Nat /\ (n - 1) + 1 = n
          OBVIOUS
        <5> QED BY <5>1, PowersOfTwo
      <4>2. biquad.remaining \in Nat \ {0} /\ biquad.shift \in Nat \ {0}
        BY <1>1, <1>5, <3>1 DEF BiquadInv
      <4> QED BY <3>1, <4>1, <4>2
    <3>3. \A i \in 1 .. 3 : w.coeffs[i] * 2 ^ w.remaining = next[i] * 2 ^ biquad.remaining
      BY <2>1, <3>1, <3>2
    <3>4. \A i \in 1 .. 5 : Astray(biquad', i) <= Larger(Astray(biquad, i), 2 ^ biquad.remaining)
      BY <1>3, <2>2, <2>3, <3>1, <3>3 DEF Astray
    <3>5. \A c \in DOMAIN biquad.y : w.y[c][1] * 2 ^ w.shift = biquad.y[c][1] * 2 ^ biquad.shift
      BY <3>1, <3>2 DEF BiquadInv
    <3> QED BY <1>3, <3>1, <3>4, <3>5
  <2> QED BY <2>4, <2>5
<1>9. CASE ~biquad.slews
  BY <1>7, <1>9 DEF Slew
<1> QED BY <1>8, <1>9 DEF BiquadInv

BiquadStageInv ==
  /\ stage = "biquad" => BiquadInv(biquad) /\ fir.kind = "none" /\ verb.kind = "none"
  /\ stage # "biquad" => biquad.kind = "none"

LEMMA OnlyOneLives == (fir.kind = "none" => ~FirNext) /\ (verb.kind = "none" => ~VerbNext)
<1>1. fir.kind = "none" => ~FirNext
  BY DEF FirNext, DirectSample, TimeDomainFrame, FrequencyDomainFrame, FirStep
<1>2. verb.kind = "none" => ~VerbNext
  BY DEF VerbNext, SetParametersRoom, SetParametersPlate, ResetReverb, PlayFrame, PlaySilence
<1> QED BY <1>1, <1>2

LEMMA BiquadStage == (Init => BiquadStageInv) /\ (BiquadStageInv /\ [Next]_vars => BiquadStageInv')
<1>1. Init => BiquadStageInv
  BY InitBiquadInv DEF Init, Idle, BiquadStageInv
<1>2. BiquadStageInv /\ [Next]_vars => BiquadStageInv'
  <2>1. BiquadNext => biquad.kind = "biquad"
    BY DEF BiquadNext, SetFilter, SetSlewShift, ProcessBiquad
  <2> QED BY <2>1, StepBiquadInv, OnlyOneLives DEF Next, vars, BiquadStageInv
<1> QED BY <1>1, <1>2

\* For any filters, word width and slew: while coefficients slew, and change their
\* format bit by bit, no output in flight changes its loudness, and no coefficient
\* moves away from its target. (biquad_slew.process_channels_xcore)
THEOREM SlewSmooth == Spec => SlewIsSmooth
<1> DEFINE Smooth ==
      stage = "biquad" /\ biquad'.sets = biquad.sets /\ PutsOut(biquad) =>
        /\ \A c \in DOMAIN biquad.y :
             biquad'.y[c][2] * 2 ^ biquad'.shift = biquad.y[c][1] * 2 ^ biquad.shift
        /\ AtTargetShift(biquad) => \A i \in 1 .. 5 :
             Astray(biquad', i) <= Larger(Astray(biquad, i), 2 ^ biquad.remaining)
<1>1. BiquadStageInv /\ Next /\ ~UNCHANGED vars => Smooth
  <2> SUFFICES ASSUME BiquadStageInv, BiquadInv(biquad), stage = "biquad", Next, ~UNCHANGED vars,
                      biquad'.sets = biquad.sets, PutsOut(biquad)
               PROVE  Smooth
    BY DEF BiquadStageInv
  <2>0. BiquadNext
    BY OnlyOneLives DEF Next, BiquadStageInv
  <2>1. ASSUME NEW f \in BiquadFrames, ProcessBiquad(f) PROVE Smooth
    BY <2>1, FrameIsSmooth
  <2>2. ASSUME NEW d \in Designs, SetFilter(d) PROVE FALSE
    <3>1. Asked(biquad, d).sets = biquad.sets /\ BiquadInv(Asked(biquad, d))
      BY AskedKeeps
    <3>2. biquad'.sets = biquad.sets + 1
      BY <2>2, <3>1 DEF SetFilter, Counted, BiquadInv, BiquadFields
    <3> QED BY <3>2 DEF BiquadInv
  <2>3. ASSUME NEW s \in SlewShifts, SetSlewShift(s) PROVE FALSE
    <3>1. Asked(biquad, biquad.asked).sets = biquad.sets /\ BiquadInv(Asked(biquad, biquad.asked))
      BY AskedKeeps DEF BiquadInv
    <3>2. biquad'.sets = biquad.sets + 1
      BY <2>3, <3>1 DEF SetSlewShift, Counted, BiquadInv, BiquadFields
    <3> QED BY <3>2 DEF BiquadInv
  <2> QED BY <2>0, <2>1, <2>2, <2>3 DEF BiquadNext
<1> QED BY <1>1, BiquadStage, PTL DEF Spec, SlewIsSmooth

-------------------------------------------------------------------------------
\* Words have an even number of units above zero, and no filter has a numerator
\* coefficient within twice the slew's rounding of the most negative word: half
\* of that word never passes the test for headroom, abs() < 2**30.
SlewHasRoom ==
  /\ Unit % 2 = 0
  /\ \A d \in Designs \cup {Bypass}, s \in SlewsUsed :
       Accepted(d) => \A i \in 1 .. 3 : 2 * 2 ^ s <= RoundToQ30(d)[i] + Unit

\* A coefficient that no longer slews is within a step below what it aims at.
LEMMA SlewStops ==
  ASSUME NEW q \in Int, NEW aim \in Int, NEW d \in Nat \ {0}, d <= MaxInt,
         q + SaturateInt32Vpu(aim - q) \div d = q
  PROVE  aim - d < q /\ q <= aim
<1> DEFINE gap == SaturateInt32Vpu(aim - q)
<1>1. MaxInt \in Nat /\ gap \in Int
  BY FixedPointAssumption DEF MaxInt, SaturateInt32Vpu, Clamp
<1>2. gap \div d \in Int /\ d * (gap \div d) <= gap /\ gap < d * (gap \div d) + d
  BY <1>1, QuotientOf
<1>3. q + gap \div d = q
  OBVIOUS
<1> DEFINE step == gap \div d
<1> HIDE DEF gap, step
<1>4. step = 0
  BY <1>2, <1>3 DEF step
<1>5. 0 <= gap /\ gap < d
  BY <1>1, <1>2, <1>4 DEF step
<1> QED BY <1>1, <1>5 DEF SaturateInt32Vpu, Clamp, gap

\* Half of a coefficient, or less of it, has headroom.
LEMMA ShareHasHeadroom ==
  ASSUME NEW t \in Word, NEW p \in Nat, 2 <= p, NEW s \in Nat \ {0}, NEW q \in Int,
         Unit % 2 = 0, 2 * s <= t + Unit, s <= Half, t \div p - s < q, q <= t \div p
  PROVE  Magnitude(q) < Half
<1> DEFINE aim == t \div p
<1>1. Unit = 2 * Half /\ Half \in Nat \ {0} /\ t \in Int /\ -Unit <= t /\ t < Unit
  BY FixedPointAssumption DEF Half, Word, MinInt, MaxInt
<1>2. aim \in Int /\ p * aim <= t /\ t < p * aim + p
  BY <1>1, QuotientOf
<1> HIDE DEF aim
<1>3. aim < Half
  <2>1. CASE aim >= 0
    <3>1. 2 * aim <= p * aim
      BY <1>2, <2>1, Monotone
    <3> QED BY <1>1, <1>2, <3>1
  <2> QED BY <1>1, <1>2, <2>1
<1>4. s - Half <= aim
  <2>1. CASE aim <= -1
    <3>1. 2 * (-aim - 1) <= p * (-aim - 1)
      BY <1>2, <2>1, Monotone
    <3>2. p * (-aim - 1) = -(p * aim) - p
      BY <1>2
    <3> QED BY <1>1, <1>2, <3>1, <3>2
  <2> QED BY <1>1, <1>2, <2>1
<1> QED BY <1>1, <1>2, <1>3, <1>4 DEF Magnitude, aim

\* At rest and in silence a block that still owes a shift would give it back.
LEMMA RestOwesNothing ==
  ASSUME SlewHasRoom, NEW b, BiquadInv(b), AtRest(b)
  PROVE  b.remaining = 0
<1> SUFFICES ASSUME b.remaining > 0 PROVE FALSE
  BY DEF BiquadInv
<1> DEFINE slewed == Moved(b)
           step == 2 ^ b.slew
           p == 2 ^ b.remaining
<1>1. b.slews /\ b.remaining \in Nat \ {0} /\ b.slew \in SlewsUsed
  BY DEF BiquadInv
<1>2. Slew(b) = slewed /\ ~HasHeadroom(slewed)
  <2>1. Slew(b).remaining = b.remaining
    BY DEF AtRest
  <2>2. b.remaining - 1 # b.remaining
    BY <1>1
  <2>3. ~StopsHalfWay(b)
    BY DEF AtRest, StopsHalfWay
  <2>4. \/ Slew(b) = slewed /\ ~GivesBack(b)
        \/ Slew(b).remaining = b.remaining - 1
    BY <1>1, <2>3, SlewedBlock
  <2> HIDE DEF slewed
  <2> QED BY <1>1, <2>1, <2>2, <2>4 DEF GivesBack, slewed
<1>3. SlewedCoeffs(b) = b.coeffs
  BY <1>2 DEF AtRest, Moved, BiquadInv, BiquadFields
<1>4. step \in Nat \ {0} /\ p \in Nat \ {0} /\ \A i \in 1 .. 5 : b.target[i] \in Int
  BY <1>1, SlewShape
<1>5. 2 <= p
  <2>1. b.remaining - 1 \in Nat /\ (b.remaining - 1) + 1 = b.remaining
    BY <1>1
  <2>2. p = 2 * 2 ^ (b.remaining - 1) /\ 2 ^ (b.remaining - 1) \in Nat \ {0}
    BY <2>1, PowersOfTwo
  <2> QED BY <2>2
<1>6. Half \in Nat \ {0} /\ Unit = 2 * Half /\ step <= Half
  <2>1. Half \in Nat \ {0} /\ Unit = 2 * Half
    BY BypassRounded, FixedPointAssumption DEF SlewHasRoom, Half
  <2>2. 2 * step <= RoundToQ30(Bypass)[2] + Unit
    BY <1>1, BypassAccepted DEF SlewHasRoom
  <2> QED BY <1>4, <2>1, <2>2, BypassRounded
<1> HIDE DEF p
<1>7. \A i \in 1 .. 3 : b.target[i] \in Word /\ 2 * step <= b.target[i] + Unit
  BY <1>1 DEF SlewHasRoom, BiquadInv, Accepted
<1> HIDE DEF step
<1>8. \A i \in 1 .. 3 : b.coeffs[i] \in Int /\ b.coeffs[i] <= b.target[i] \div p /\ b.target[i] \div p - step < b.coeffs[i]
  <2> SUFFICES ASSUME NEW i \in 1 .. 3
               PROVE  b.coeffs[i] \in Int /\ b.coeffs[i] <= b.target[i] \div p
                        /\ b.target[i] \div p - step < b.coeffs[i]
    OBVIOUS
  <2>1. b.coeffs[i] \in Int /\ b.target[i] \div p \in Int
    BY <1>4, QuotientOf DEF BiquadInv
  <2>2. Aim(b)[i] = b.target[i] \div p
    BY DEF Aim, ShiftDown, p
  <2>3. SlewedCoeffs(b)[i] = b.coeffs[i] + SaturateInt32Vpu(Aim(b)[i] - b.coeffs[i]) \div step
    BY DEF SlewedCoeffs, ShiftDown, step
  <2>4. b.coeffs[i] + SaturateInt32Vpu(b.target[i] \div p - b.coeffs[i]) \div step = b.coeffs[i]
    BY <1>3, <2>2, <2>3
  <2>5. step <= MaxInt
    BY <1>4, <1>6 DEF MaxInt
  <2> QED BY <1>4, <2>1, <2>4, <2>5, SlewStops
<1>9. \A i \in 1 .. 3 : Magnitude(b.coeffs[i]) < Half
  BY <1>4, <1>5, <1>6, <1>7, <1>8, ShareHasHeadroom DEF SlewHasRoom
<1>10. \A c \in DOMAIN b.y, i \in 1 .. 2 : Magnitude(b.y[c][i]) < Half
  BY <1>6 DEF AtRest, Magnitude
<1>11. slewed.coeffs = b.coeffs /\ slewed.y = b.y
  BY <1>3 DEF Moved, BiquadInv, BiquadFields
<1> QED BY <1>2, <1>9, <1>10, <1>11 DEF HasHeadroom

\* For any filters that leave the slew room, words and slews: once the slew moves
\* no more in silence it owes no shift. (biquad_slew.process_channels_xcore)
THEOREM SlewRests == ASSUME SlewHasRoom PROVE Spec => []SlewComesToRest
<1>1. BiquadStageInv => SlewComesToRest
  BY RestOwesNothing DEF BiquadStageInv, SlewComesToRest
<1> QED BY <1>1, BiquadStage, PTL DEF Spec
-------------------------------------------------------------------------------
(* Sums over a set. *)

\* A set of numbers has a least one.
LEMMA LeastOf ==
  ASSUME NEW T \in SUBSET Nat, T # {}
  PROVE  \E x \in T : \A y \in T : x <= y
<1> DEFINE LessThan == OpToRel(<, Nat)
<1>1. \A x, y \in Nat : <<x, y>> \in LessThan <=> x < y
  BY DEF OpToRel
<1>2. IsWellFoundedOn(LessThan, Nat)
  BY NatLessThanWellFounded
<1> HIDE DEF LessThan
<1>3. PICK x \in T : \A y \in T : ~ (<<y, x>> \in LessThan)
  BY <1>2, WFMin
<1>4. \A y \in T : y \in Nat /\ x \in Nat /\ ~ (y < x)
  BY <1>1, <1>3
<1>5. \A y \in T : x <= y
  BY <1>4
<1> QED BY <1>5

\* What holds of a set when it holds of the set less any member, holds of every
\* subset of a finite one.
LEMMA SubsetInduction ==
  ASSUME NEW S, IsFiniteSet(S), NEW G, {} \in G,
         \A A \in SUBSET S : A # {} /\ (\A x \in A : A \ {x} \in G) => A \in G
  PROVE  SUBSET S \subseteq G
<1> DEFINE bad == {n \in Nat : \E A \in SUBSET S : Cardinality(A) = n /\ A \notin G}
<1>1. \A A \in SUBSET S : IsFiniteSet(A) /\ Cardinality(A) \in Nat
  BY FS_Subset, FS_CardinalityType
<1>2. bad = {}
  <2> SUFFICES ASSUME bad # {} PROVE FALSE
    OBVIOUS
  <2>1. bad \in SUBSET Nat
    OBVIOUS
  <2>2. PICK n \in bad : \A m \in bad : n <= m
    <3> HIDE DEF bad
    <3> QED BY <2>1, LeastOf
  <2>3. PICK A \in SUBSET S : Cardinality(A) = n /\ A \notin G
    BY <2>2
  <2>4. PICK x \in A : A \ {x} \notin G
    BY <2>3
  <2>5. A \ {x} \in SUBSET S /\ Cardinality(A \ {x}) = n - 1 /\ Cardinality(A \ {x}) \in Nat
    BY <1>1, <2>3, FS_RemoveElement
  <2>6. Cardinality(A \ {x}) \in bad
    BY <2>4, <2>5
  <2>7. n \in Nat /\ n - 1 \in bad
    BY <2>1, <2>5, <2>6
  <2> QED BY <2>2, <2>7
<1> QED BY <1>1, <1>2

\* One step of the fold that Total is.
Part(f, iter, s) ==
  IF s = {} THEN 0 ELSE iter[s \ {CHOOSE x \in s : TRUE}] + f[CHOOSE x \in s : TRUE]
IterOf(f, S) == CHOOSE iter : iter = [s \in SUBSET S |-> Part(f, iter, s)]

LEMMA IterDefined ==
  ASSUME NEW S, IsFiniteSet(S), NEW f
  PROVE  IterOf(f, S) = [s \in SUBSET S |-> Part(f, IterOf(f, S), s)]
<1> DEFINE upTo(n) == {s \in SUBSET S : Cardinality(s) <= n}
           good == {n \in Nat : \E g : g = [s \in upTo(n) |-> Part(f, g, s)]}
<1>1. \A A \in SUBSET S : IsFiniteSet(A) /\ Cardinality(A) \in Nat /\ Cardinality(A) <= Cardinality(S)
  BY FS_Subset, FS_CardinalityType
<1>2. Cardinality(S) \in Nat
  BY FS_CardinalityType
<1>3. 0 \in good
  <2> DEFINE g == [s \in upTo(0) |-> 0]
  <2>1. \A s \in upTo(0) : s = {}
    <3> SUFFICES ASSUME NEW s \in upTo(0) PROVE s = {}
      OBVIOUS
    <3>1. IsFiniteSet(s) /\ Cardinality(s) = 0
      BY <1>1
    <3> QED BY <3>1, FS_EmptySet
  <2>2. g = [s \in upTo(0) |-> Part(f, g, s)]
    BY <2>1 DEF Part
  <2> HIDE DEF g, upTo
  <2> QED BY <2>2
<1>4. ASSUME NEW n \in Nat, n \in good PROVE n + 1 \in good
  <2>1. PICK g : g = [s \in upTo(n) |-> Part(f, g, s)]
    BY <1>4
  <2> DEFINE h == [s \in upTo(n + 1) |-> Part(f, g, s)]
  <2>2. upTo(n) \subseteq upTo(n + 1)
    BY <1>1
  <2>3. \A s \in upTo(n) : h[s] = g[s]
    <3> HIDE DEF upTo
    <3> QED BY <2>1, <2>2
  <2>4. ASSUME NEW s \in upTo(n + 1), s # {}
        PROVE  s \ {CHOOSE x \in s : TRUE} \in upTo(n)
    <3> DEFINE x == CHOOSE x \in s : TRUE
    <3>1. x \in s
      BY <2>4
    <3> HIDE DEF x
    <3>2. s \in SUBSET S /\ Cardinality(s) <= n + 1
      OBVIOUS
    <3>3. s \ {x} \in SUBSET S /\ Cardinality(s \ {x}) = Cardinality(s) - 1
      BY <1>1, <3>1, <3>2, FS_RemoveElement
    <3>4. Cardinality(s) \in Nat
      BY <1>1
    <3>5. Cardinality(s \ {x}) <= n
      BY <3>2, <3>3, <3>4
    <3> QED BY <3>3, <3>5 DEF x
  <2>5. \A s \in upTo(n + 1) : Part(f, h, s) = Part(f, g, s)
    <3> HIDE DEF upTo, h
    <3> QED BY <2>3, <2>4 DEF Part
  <2>6. h = [s \in upTo(n + 1) |-> Part(f, h, s)]
    <3> HIDE DEF upTo
    <3> QED BY <2>5
  <2> HIDE DEF h, upTo
  <2> QED BY <2>6
<1>5. Cardinality(S) \in good
  <2> DEFINE bad == {n \in Nat : n \notin good}
  <2> SUFFICES ASSUME bad # {} PROVE FALSE
    BY <1>2
  <2> HIDE DEF good
  <2>1. PICK n \in bad : \A m \in bad : n <= m
    BY LeastOf
  <2>2. n # 0 /\ n - 1 \in Nat /\ n - 1 \in good /\ (n - 1) + 1 = n
    BY <1>3, <2>1
  <2> QED BY <1>4, <2>1, <2>2
<1>6. upTo(Cardinality(S)) = SUBSET S
  BY <1>1
<1>7. PICK g : g = [s \in SUBSET S |-> Part(f, g, s)]
  <2>1. PICK g : g = [s \in upTo(Cardinality(S)) |-> Part(f, g, s)]
    BY <1>5
  <2> HIDE DEF upTo
  <2> QED BY <1>6, <2>1
<1> QED BY <1>7 DEF IterOf

\* Total is that fold.
LEMMA TotalIsIter ==
  ASSUME NEW S, NEW f
  PROVE  Total(f, S) = IterOf(f, S)[S]
BY DEF Total, FoldSet, MapThenFoldSet, IterOf, Part

LEMMA TotalUnfold ==
  ASSUME NEW S, IsFiniteSet(S), NEW f
  PROVE  Total(f, S) = IF S = {} THEN 0
                       ELSE Total(f, S \ {CHOOSE x \in S : TRUE}) + f[CHOOSE x \in S : TRUE]
<1> DEFINE i == IterOf(f, S)
<1>1. i = [s \in SUBSET S |-> Part(f, i, s)]
  BY IterDefined
<1> HIDE DEF i
<1>2. \A A \in SUBSET S : i[A] = Part(f, i, A)
  BY <1>1
<1>3. ASSUME NEW T \in SUBSET S PROVE IterOf(f, T)[T] = i[T]
  <2> DEFINE j == IterOf(f, T)
             G == {A \in SUBSET T : j[A] = i[A]}
  <2>1. IsFiniteSet(T)
    BY FS_Subset
  <2>2. j = [s \in SUBSET T |-> Part(f, j, s)]
    BY <2>1, IterDefined
  <2> HIDE DEF j
  <2>3. \A A \in SUBSET T : j[A] = Part(f, j, A) /\ i[A] = Part(f, i, A)
    BY <1>2, <2>2
  <2>4. {} \in G
    BY <2>3 DEF Part
  <2>5. ASSUME NEW A \in SUBSET T, A # {}, \A x \in A : A \ {x} \in G
        PROVE  A \in G
    <3>1. A \ {CHOOSE x \in A : TRUE} \in G
      BY <2>5
    <3>2. j[A] = j[A \ {CHOOSE x \in A : TRUE}] + f[CHOOSE x \in A : TRUE]
      BY <2>3, <2>5 DEF Part
    <3>3. i[A] = i[A \ {CHOOSE x \in A : TRUE}] + f[CHOOSE x \in A : TRUE]
      BY <2>3, <2>5 DEF Part
    <3> QED BY <3>1, <3>2, <3>3
  <2>6. SUBSET T \subseteq G
    <3> HIDE DEF G
    <3> QED BY <2>1, <2>4, <2>5, SubsetInduction
  <2> QED BY <2>6 DEF j
<1>4. \A T \in SUBSET S : Total(f, T) = i[T]
  BY <1>3, TotalIsIter
<1> QED BY <1>2, <1>4 DEF Part

\* The sum of numbers is a number, and any member can be taken out of it.
LEMMA TotalTakes ==
  ASSUME NEW S, IsFiniteSet(S), NEW f, \A i \in S : f[i] \in Int
  PROVE  /\ \A A \in SUBSET S : /\ Total(f, A) \in Int
                                /\ \A x \in A : Total(f, A) = Total(f, A \ {x}) + f[x]
         /\ Total(f, {}) = 0
<1>1. \A A \in SUBSET S : IsFiniteSet(A)
  BY FS_Subset
<1>2. Total(f, {}) = 0
  BY <1>1, TotalUnfold
<1>3. ASSUME NEW A \in SUBSET S, A # {}
      PROVE  \E c \in A : Total(f, A) = Total(f, A \ {c}) + f[c]
  BY <1>1, <1>3, TotalUnfold
<1>4. \A A \in SUBSET S : Total(f, A) \in Int
  <2> DEFINE G == {A \in SUBSET S : Total(f, A) \in Int}
  <2>1. \A A \in SUBSET S : A # {} /\ (\A x \in A : A \ {x} \in G) => A \in G
    <3> SUFFICES ASSUME NEW A \in SUBSET S, A # {}, \A x \in A : A \ {x} \in G
                 PROVE  Total(f, A) \in Int
      OBVIOUS
    <3>1. PICK c \in A : Total(f, A) = Total(f, A \ {c}) + f[c]
      BY <1>3
    <3>2. Total(f, A \ {c}) \in Int /\ f[c] \in Int
      OBVIOUS
    <3> QED BY <3>1, <3>2
  <2>2. {} \in G
    BY <1>2
  <2>3. SUBSET S \subseteq G
    <3> HIDE DEF G
    <3> QED BY <2>1, <2>2, SubsetInduction
  <2> QED BY <2>3
<1>5. \A A \in SUBSET S : \A x \in A : Total(f, A) = Total(f, A \ {x}) + f[x]
  <2> DEFINE G == {A \in SUBSET S : \A x \in A : Total(f, A) = Total(f, A \ {x}) + f[x]}
  <2>1. ASSUME NEW A \in SUBSET S, A # {}, \A x \in A : A \ {x} \in G
        PROVE  A \in G
    <3>1. PICK c \in A : Total(f, A) = Total(f, A \ {c}) + f[c]
      BY <1>3, <2>1
    <3>2. ASSUME NEW x \in A PROVE Total(f, A) = Total(f, A \ {x}) + f[x]
      <4>1. CASE x = c
        BY <3>1, <4>1
      <4>2. CASE x # c
        <5>1. Total(f, A \ {c}) = Total(f, (A \ {c}) \ {x}) + f[x]
          BY <2>1, <4>2
        <5> DEFINE u == Total(f, (A \ {x}) \ {c})
        <5>2. Total(f, A \ {x}) = Total(f, (A \ {x}) \ {c}) + f[c]
          BY <2>1, <4>2
        <5>3. (A \ {c}) \ {x} = (A \ {x}) \ {c}
          OBVIOUS
        <5>4. Total(f, (A \ {x}) \ {c}) \in Int /\ f[x] \in Int /\ f[c] \in Int
          BY <1>4
        <5>5. Total(f, A) = (u + f[x]) + f[c] /\ Total(f, A \ {x}) = u + f[c] /\ u \in Int
          BY <3>1, <5>1, <5>2, <5>3, <5>4
        <5> HIDE DEF u
        <5> QED BY <5>4, <5>5
      <4> QED BY <4>1, <4>2
    <3> QED BY <3>2
  <2>2. {} \in G
    OBVIOUS
  <2>3. SUBSET S \subseteq G
    <3> HIDE DEF G
    <3> QED BY <2>1, <2>2, SubsetInduction
  <2> QED BY <2>3
<1> QED BY <1>2, <1>4, <1>5

\* Sums of the same numbers over sets that correspond are equal.
LEMMA TotalMoved ==
  ASSUME NEW S, IsFiniteSet(S), NEW T, NEW f, NEW g, NEW h \in Bijection(S, T),
         \A i \in S : f[i] \in Int /\ g[h[i]] = f[i]
  PROVE  Total(f, S) = Total(g, T)
<1> DEFINE im(A) == {h[i] : i \in A}
           G == {A \in SUBSET S : Total(f, A) = Total(g, im(A))}
<1>1. /\ h \in [S -> T] /\ \A i, j \in S : h[i] = h[j] => i = j
      /\ \A t \in T : \E i \in S : h[i] = t
  BY DEF Bijection, Injection, Surjection, IsInjective
<1>2. IsFiniteSet(T)
  BY FS_Bijection DEF ExistsBijection
<1>3. \A t \in T : g[t] \in Int
  BY <1>1
<1>4. {} \in G
  <2>1. Total(f, {}) = 0 /\ Total(g, {}) = 0
    BY <1>2, <1>3, TotalTakes
  <2>2. im({}) = {}
    OBVIOUS
  <2> QED BY <2>1, <2>2
<1>5. ASSUME NEW A \in SUBSET S, A # {}, \A x \in A : A \ {x} \in G
      PROVE  A \in G
  <2>1. PICK x \in A : TRUE
    BY <1>5
  <2>2. Total(f, A) = Total(f, A \ {x}) + f[x]
    BY TotalTakes
  <2>3. im(A) \in SUBSET T /\ h[x] \in im(A)
    BY <1>1
  <2>4. Total(g, im(A)) = Total(g, im(A) \ {h[x]}) + g[h[x]]
    <3> HIDE DEF im
    <3> QED BY <1>2, <1>3, <2>3, TotalTakes
  <2>5. im(A) \ {h[x]} = im(A \ {x})
    BY <1>1
  <2>6. Total(f, A \ {x}) = Total(g, im(A \ {x}))
    BY <1>5
  <2> QED BY <2>2, <2>4, <2>5, <2>6
<1>6. SUBSET S \subseteq G
  <2> HIDE DEF G
  <2> QED BY <1>4, <1>5, SubsetInduction
<1>7. im(S) = T
  BY <1>1
<1> QED BY <1>6, <1>7

\* Where the terms are the same, so are the sums.
LEMMA TotalSame ==
  ASSUME NEW S, IsFiniteSet(S), NEW f, NEW g, \A i \in S : f[i] \in Int /\ g[i] = f[i]
  PROVE  Total(f, S) = Total(g, S)
<1> DEFINE h == [i \in S |-> i]
<1>1. h \in Bijection(S, S)
  BY DEF Bijection, Injection, Surjection, IsInjective
<1>2. \A i \in S : f[i] \in Int /\ g[h[i]] = f[i]
  OBVIOUS
<1> HIDE DEF h
<1> QED BY <1>1, <1>2, TotalMoved

\* Terms that are 0 can be left out.
LEMMA TotalWithout ==
  ASSUME NEW S, IsFiniteSet(S), NEW T \in SUBSET S, NEW f,
         \A i \in S : f[i] \in Int /\ (i \notin T => f[i] = 0)
  PROVE  Total(f, S) = Total(f, T)
<1> DEFINE G == {A \in SUBSET S : Total(f, A) = Total(f, A \cap T)}
<1>1. {} \in G
  OBVIOUS
<1>2. ASSUME NEW A \in SUBSET S, A # {}, \A x \in A : A \ {x} \in G
      PROVE  A \in G
  <2>1. PICK x \in A : TRUE
    BY <1>2
  <2>2. /\ Total(f, A) = Total(f, A \ {x}) + f[x]
        /\ Total(f, A \ {x}) \in Int
    BY TotalTakes
  <2>3. Total(f, A \ {x}) = Total(f, (A \ {x}) \cap T)
    BY <1>2
  <2>4. CASE x \in T
    <3>1. x \in A \cap T /\ A \cap T \in SUBSET S /\ (A \cap T) \ {x} = (A \ {x}) \cap T
      BY <2>4
    <3>2. Total(f, A \cap T) = Total(f, (A \cap T) \ {x}) + f[x]
      BY <3>1, TotalTakes
    <3> QED BY <2>2, <2>3, <3>1, <3>2
  <2>5. CASE x \notin T
    <3>1. (A \ {x}) \cap T = A \cap T /\ f[x] = 0
      BY <2>5
    <3>2. Total(f, A) = Total(f, A \ {x})
      BY <2>2, <3>1
    <3> QED BY <2>3, <3>1, <3>2
  <2> QED BY <2>4, <2>5
<1>3. SUBSET S \subseteq G
  <2> HIDE DEF G
  <2> QED BY <1>1, <1>2, SubsetInduction
<1>4. S \cap T = T
  OBVIOUS
<1> QED BY <1>3, <1>4

\* A factor can be taken out of a sum.
LEMMA TotalTimes ==
  ASSUME NEW S, IsFiniteSet(S), NEW f, NEW g, NEW k \in Int,
         \A i \in S : f[i] \in Int /\ g[i] = k * f[i]
  PROVE  Total(g, S) = k * Total(f, S)
<1> DEFINE G == {A \in SUBSET S : Total(g, A) = k * Total(f, A)}
<1>1. \A i \in S : g[i] \in Int
  OBVIOUS
<1>2. {} \in G
  <2>1. Total(f, {}) = 0 /\ Total(g, {}) = 0
    BY <1>1, TotalTakes
  <2> QED BY <2>1
<1>3. ASSUME NEW A \in SUBSET S, A # {}, \A x \in A : A \ {x} \in G
      PROVE  A \in G
  <2>1. PICK x \in A : TRUE
    BY <1>3
  <2> DEFINE u == Total(f, A \ {x})
  <2>2. Total(f, A) = u + f[x] /\ u \in Int
    BY TotalTakes
  <2>3. Total(g, A) = Total(g, A \ {x}) + g[x]
    BY <1>1, TotalTakes
  <2>4. Total(g, A \ {x}) = k * u
    BY <1>3
  <2>5. g[x] = k * f[x] /\ f[x] \in Int
    OBVIOUS
  <2> HIDE DEF u
  <2>6. k * (u + f[x]) = k * u + k * f[x]
    BY <2>2, <2>5
  <2> QED BY <2>2, <2>3, <2>4, <2>5, <2>6
<1>4. SUBSET S \subseteq G
  <2> HIDE DEF G
  <2> QED BY <1>2, <1>3, SubsetInduction
<1> QED BY <1>4

\* Sums over sets that do not meet add up.
LEMMA TotalUnion ==
  ASSUME NEW S, IsFiniteSet(S), NEW f, \A i \in S : f[i] \in Int,
         NEW A \in SUBSET S, NEW B \in SUBSET S, A \cap B = {}
  PROVE  Total(f, A \cup B) = Total(f, A) + Total(f, B)
<1> DEFINE G == {C \in SUBSET B : Total(f, A \cup C) = Total(f, A) + Total(f, C)}
<1>1. IsFiniteSet(B) /\ Total(f, A) \in Int
  BY FS_Subset, TotalTakes
<1>2. {} \in G
  <2>1. Total(f, {}) = 0 /\ A \cup {} = A
    BY TotalTakes
  <2> QED BY <1>1, <2>1
<1>3. ASSUME NEW C \in SUBSET B, C # {}, \A x \in C : C \ {x} \in G
      PROVE  C \in G
  <2>1. PICK x \in C : TRUE
    BY <1>3
  <2>2. Total(f, C) = Total(f, C \ {x}) + f[x] /\ Total(f, C \ {x}) \in Int /\ f[x] \in Int
    BY TotalTakes
  <2>3. A \cup C \in SUBSET S /\ x \in A \cup C /\ (A \cup C) \ {x} = A \cup (C \ {x})
    OBVIOUS
  <2>4. Total(f, A \cup C) = Total(f, A \cup (C \ {x})) + f[x]
    BY <2>3, TotalTakes
  <2>5. Total(f, A \cup (C \ {x})) = Total(f, A) + Total(f, C \ {x})
    BY <1>3
  <2> QED BY <1>1, <2>2, <2>4, <2>5
<1>4. SUBSET B \subseteq G
  <2> HIDE DEF G
  <2> QED BY <1>1, <1>2, <1>3, SubsetInduction
<1> QED BY <1>4

\* A sum is not louder than its terms together, and as far off as they are.
LEMMA TotalOff ==
  ASSUME NEW S, IsFiniteSet(S), NEW f, NEW g, NEW q \in Nat,
         \A i \in S : f[i] \in Int /\ g[i] \in Int /\ 2 * Magnitude(q * f[i] - g[i]) <= q
  PROVE  2 * Magnitude(q * Total(f, S) - Total(g, S)) <= Cardinality(S) * q
<1> DEFINE G == {A \in SUBSET S :
                   2 * Magnitude(q * Total(f, A) - Total(g, A)) <= Cardinality(A) * q}
<1>1. \A A \in SUBSET S : /\ IsFiniteSet(A) /\ Cardinality(A) \in Nat
                          /\ Total(f, A) \in Int /\ Total(g, A) \in Int
  BY FS_Subset, FS_CardinalityType, TotalTakes
<1>2. {} \in G
  <2>1. Total(f, {}) = 0 /\ Total(g, {}) = 0 /\ Cardinality({}) = 0
    BY TotalTakes, FS_EmptySet
  <2>2. q * 0 = 0 /\ 0 * q = 0
    OBVIOUS
  <2> QED BY <2>1, <2>2 DEF Magnitude
<1>3. ASSUME NEW A \in SUBSET S, A # {}, \A x \in A : A \ {x} \in G
      PROVE  A \in G
  <2>1. PICK x \in A : TRUE
    BY <1>3
  <2> DEFINE B == A \ {x}
             m == Cardinality(B)
             u == Total(f, B)
             v == Total(g, B)
  <2>2. Total(f, A) = u + f[x] /\ Total(g, A) = v + g[x]
    BY TotalTakes
  <2>3. Cardinality(A) = m + 1
    BY <1>1, FS_RemoveElement
  <2>4. 2 * Magnitude(q * u - v) <= m * q
    BY <1>3
  <2>5. u \in Int /\ v \in Int /\ m \in Nat /\ f[x] \in Int /\ g[x] \in Int
    BY <1>1
  <2>6. 2 * Magnitude(q * f[x] - g[x]) <= q
    OBVIOUS
  <2> HIDE DEF B, m, u, v
  <2>7. q * (u + f[x]) = q * u + q * f[x] /\ (m + 1) * q = m * q + q
    BY <2>5
  <2>8. q * u \in Int /\ q * f[x] \in Int /\ m * q \in Int
    BY <2>5
  <2>9. 2 * Magnitude((q * u + q * f[x]) - (v + g[x])) <= m * q + q
    BY <2>4, <2>5, <2>6, <2>8 DEF Magnitude
  <2> QED BY <2>2, <2>3, <2>7, <2>9
<1>4. SUBSET S \subseteq G
  <2> HIDE DEF G
  <2> QED BY <1>2, <1>3, SubsetInduction
<1> QED BY <1>4

LEMMA TotalLoud ==
  ASSUME NEW S, IsFiniteSet(S), NEW f, NEW g, NEW q \in Nat,
         \A i \in S : f[i] \in Int /\ g[i] \in Nat /\ Magnitude(f[i]) <= g[i] * q
  PROVE  Magnitude(Total(f, S)) <= Total(g, S) * q
<1> DEFINE G == {A \in SUBSET S : Magnitude(Total(f, A)) <= Total(g, A) * q}
<1>1. \A A \in SUBSET S : Total(f, A) \in Int /\ Total(g, A) \in Int
  BY TotalTakes
<1>2. {} \in G
  <2>1. Total(f, {}) = 0 /\ Total(g, {}) = 0
    BY TotalTakes
  <2>2. 0 * q = 0
    OBVIOUS
  <2> QED BY <2>1, <2>2 DEF Magnitude
<1>3. ASSUME NEW A \in SUBSET S, A # {}, \A x \in A : A \ {x} \in G
      PROVE  A \in G
  <2>1. PICK x \in A : TRUE
    BY <1>3
  <2> DEFINE u == Total(f, A \ {x})
             v == Total(g, A \ {x})
  <2>2. Total(f, A) = u + f[x] /\ Total(g, A) = v + g[x]
    BY TotalTakes
  <2>3. Magnitude(u) <= v * q /\ Magnitude(f[x]) <= g[x] * q
    BY <1>3
  <2>4. u \in Int /\ v \in Int /\ f[x] \in Int /\ g[x] \in Nat
    BY <1>1
  <2> HIDE DEF u, v
  <2>5. (v + g[x]) * q = v * q + g[x] * q /\ v * q \in Int /\ g[x] * q \in Int
    BY <2>4
  <2>6. Magnitude(u + f[x]) <= v * q + g[x] * q
    BY <2>3, <2>4, <2>5 DEF Magnitude
  <2> QED BY <2>2, <2>5, <2>6
<1>4. SUBSET S \subseteq G
  <2> HIDE DEF G
  <2> QED BY <1>2, <1>3, SubsetInduction
<1> QED BY <1>4

\* The sum of magnitudes over a part is no more than over the whole.
LEMMA TotalPart ==
  ASSUME NEW S, IsFiniteSet(S), NEW f, \A i \in S : f[i] \in Nat, NEW A \in SUBSET S
  PROVE  Total(f, A) \in Nat /\ Total(f, A) <= Total(f, S)
<1> DEFINE G == {C \in SUBSET S : Total(f, C) \in Nat}
<1>0. \A i \in S : f[i] \in Int
  OBVIOUS
<1>1. {} \in G
  <2>1. Total(f, {}) = 0
    BY <1>0, TotalTakes
  <2> QED BY <2>1
<1>2. ASSUME NEW C \in SUBSET S, C # {}, \A x \in C : C \ {x} \in G
      PROVE  C \in G
  <2>1. PICK x \in C : TRUE
    BY <1>2
  <2>2. Total(f, C) = Total(f, C \ {x}) + f[x]
    BY <1>0, TotalTakes
  <2>3. Total(f, C \ {x}) \in Nat /\ f[x] \in Nat
    BY <1>2
  <2> QED BY <2>2, <2>3
<1>3. SUBSET S \subseteq G
  <2> HIDE DEF G
  <2> QED BY <1>1, <1>2, SubsetInduction
<1> DEFINE rest == S \ A
<1>4. Total(f, A \cup rest) = Total(f, A) + Total(f, rest)
  <2>1. A \cap rest = {} /\ rest \in SUBSET S
    OBVIOUS
  <2> HIDE DEF rest
  <2> QED BY <1>0, <2>1, TotalUnion
<1>5. A \cup rest = S
  OBVIOUS
<1>6. Total(f, A) \in Nat /\ Total(f, rest) \in Nat
  BY <1>3
<1> HIDE DEF G, rest
<1>7. Total(f, S) = Total(f, A) + Total(f, rest)
  BY <1>4, <1>5, Zenon
<1> QED BY <1>6, <1>7

-------------------------------------------------------------------------------
(* What a filter has heard, as far back as anyone asks: before the first       *)
(* sample there was silence.                                                   *)

HeardAt(h, age) == IF age \in 1 .. Len(h) THEN h[age] ELSE 0

FirShape(b) ==
  /\ b.taps \in Seq(Int) /\ b.taps # << >>
  /\ b.gain \in Int /\ b.advance \in Nat /\ b.heard \in Seq(Word)

WordOf(v) == v \in Int /\ Magnitude(v) <= Unit

LEMMA HeardIsWord == ASSUME NEW h \in Seq(Word), NEW age \in Int PROVE WordOf(HeardAt(h, age))
<1>1. Unit \in Nat /\ \A w \in Word : WordOf(w)
  BY FixedPointAssumption DEF Word, MinInt, MaxInt, WordOf, Magnitude
<1>2. age \in 1 .. Len(h) => h[age] \in Word
  BY ElementOfSeq, LenProperties
<1> QED BY <1>1, <1>2 DEF HeardAt, WordOf, Magnitude

\* After a frame: its samples are the youngest, all others are a frame older.
LEMMA HeardNext ==
  ASSUME NEW h \in Seq(Word), NEW n \in Nat, NEW f \in [1 .. n -> Word]
  PROVE  /\ Reverse(f) \o h \in Seq(Word) /\ Len(Reverse(f) \o h) = n + Len(h)
         /\ \A a \in 1 .. n : HeardAt(Reverse(f) \o h, a) = f[n + 1 - a]
         /\ \A a \in Int : a > 0 => HeardAt(Reverse(f) \o h, n + a) = HeardAt(h, a)
<1>1. f \in Seq(Word) /\ Len(f) = n
  OBVIOUS
<1>2. Reverse(f) = [i \in 1 .. n |-> f[n - i + 1]]
  BY <1>1 DEF Reverse
<1>3. Reverse(f) \in [1 .. n -> Word]
  BY <1>2
<1>4. Reverse(f) \in Seq(Word) /\ Len(Reverse(f)) = n
  BY <1>3
<1> DEFINE g == Reverse(f) \o h
<1>5. /\ g \in Seq(Word) /\ Len(g) = n + Len(h)
      /\ \A i \in 1 .. n + Len(h) : g[i] = IF i <= n THEN Reverse(f)[i] ELSE h[i - n]
  BY <1>4, ConcatProperties, LenProperties
<1>6. Len(h) \in Nat
  BY LenProperties
<1> HIDE DEF g
<1>7. \A a \in 1 .. n : HeardAt(g, a) = f[n + 1 - a]
  BY <1>2, <1>5, <1>6 DEF HeardAt
<1>8. \A a \in Int : a > 0 => HeardAt(g, n + a) = HeardAt(h, a)
  BY <1>5, <1>6 DEF HeardAt
<1> QED BY <1>5, <1>7, <1>8 DEF g

\* The convolution, over all the taps.
Term(b, i) == [t \in 1 .. Len(b.taps) |-> b.taps[t] * HeardAt(b.heard, b.advance - i + t)]

LEMMA TermIsInt ==
  ASSUME NEW b, FirShape(b), NEW i \in Int
  PROVE  /\ IsFiniteSet(1 .. Len(b.taps)) /\ Cardinality(1 .. Len(b.taps)) = Len(b.taps)
         /\ Len(b.taps) \in Nat \ {0}
         /\ \A t \in 1 .. Len(b.taps) :
              b.taps[t] \in Int /\ WordOf(HeardAt(b.heard, b.advance - i + t)) /\ Term(b, i)[t] \in Int
<1>1. Len(b.taps) \in Nat \ {0}
  BY LenProperties, EmptySeq DEF FirShape
<1>2. \A t \in 1 .. Len(b.taps) : b.taps[t] \in Int
  BY ElementOfSeq DEF FirShape
<1>3. \A t \in 1 .. Len(b.taps) : WordOf(HeardAt(b.heard, b.advance - i + t))
  <2> SUFFICES ASSUME NEW t \in 1 .. Len(b.taps) PROVE WordOf(HeardAt(b.heard, b.advance - i + t))
    OBVIOUS
  <2>1. b.advance - i + t \in Int
    BY <1>1 DEF FirShape
  <2> QED BY <2>1, HeardIsWord DEF FirShape
<1>4. \A t \in 1 .. Len(b.taps) : Term(b, i)[t] \in Int
  BY <1>2, <1>3 DEF Term, WordOf
<1>5. 1 \in Int /\ Len(b.taps) \in Int
  BY <1>1
<1> QED BY <1>1, <1>2, <1>3, <1>4, <1>5, FS_Interval

LEMMA ConvolutionOf ==
  ASSUME NEW b, FirShape(b), NEW i \in 1 .. b.advance
  PROVE  Convolution(b, i) = b.gain * Total(Term(b, i), 1 .. Len(b.taps))
<1> DEFINE n == Len(b.taps)
           S == 1 .. n
           age(t) == b.advance - i + t
           T == {t \in DOMAIN b.taps : age(t) <= Len(b.heard)}
           f == [t \in T |-> b.taps[t] * b.heard[age(t)]]
           g == Term(b, i)
<1>1. IsFiniteSet(S) /\ \A t \in S : g[t] \in Int
  BY TermIsInt
<1>2. DOMAIN b.taps = S /\ Len(b.heard) \in Nat /\ b.advance \in Nat /\ n \in Nat
  BY LenProperties DEF FirShape
<1>3. T \in SUBSET S
  BY <1>2
<1>4. \A t \in S : g[t] = b.taps[t] * HeardAt(b.heard, age(t))
  BY DEF Term
<1>5. \A t \in T : f[t] = g[t]
  <2> SUFFICES ASSUME NEW t \in T PROVE f[t] = g[t]
    OBVIOUS
  <2>1. age(t) \in 1 .. Len(b.heard)
    BY <1>2
  <2> QED BY <1>2, <1>4, <2>1 DEF HeardAt
<1>6. \A t \in S : t \notin T => g[t] = 0
  <2> SUFFICES ASSUME NEW t \in S, t \notin T PROVE g[t] = 0
    OBVIOUS
  <2>1. age(t) \notin 1 .. Len(b.heard) /\ b.taps[t] \in Int
    BY <1>2, TermIsInt
  <2> QED BY <1>4, <2>1 DEF HeardAt
<1>7. Total(g, S) = Total(g, T)
  <2> HIDE DEF g, S, T, n
  <2> QED BY <1>1, <1>3, <1>6, TotalWithout
<1>8. Total(g, T) = Total(f, T)
  <2>1. IsFiniteSet(T) /\ \A t \in T : g[t] \in Int
    BY <1>1, <1>3, FS_Subset
  <2> HIDE DEF g, f, S, T, n
  <2> QED BY <1>5, <2>1, TotalSame
<1>9. Convolution(b, i) = b.gain * Total(f, T)
  BY DEF Convolution
<1> QED BY <1>7, <1>8, <1>9

Exact(b) == b.heard # << >> => \A i \in DOMAIN b.out : b.out[i] = Convolution(b, i)

LEMMA FrameOfWords == \A n \in Nat : \A f \in Frames(n) : n # 0 /\ f \in [1 .. n -> Word]
BY BlockFirAssumption DEF Frames

BlockFields == {"kind", "taps", "gain", "advance", "window", "heard", "out"}

Played(b, w, o, f) == Heard([b EXCEPT !.window = w, !.out = o], f)

LEMMA PlayedFields ==
  ASSUME NEW b, DOMAIN b = BlockFields, NEW w, NEW o, NEW f
  PROVE  /\ DOMAIN Played(b, w, o, f) = BlockFields
         /\ \A x \in {"kind", "taps", "gain", "advance"} : Played(b, w, o, f)[x] = b[x]
         /\ Played(b, w, o, f).window = w /\ Played(b, w, o, f).out = o
         /\ Played(b, w, o, f).heard = Reverse(f) \o b.heard
<1>1. \A x \in BlockFields : x \in DOMAIN b
  OBVIOUS
<1> QED BY <1>1 DEF Heard, Played, BlockFields

LEMMA NoWrap == \A m \in Nat, i \in Int : 0 <= i /\ i < m => i % m = i
OBVIOUS

-------------------------------------------------------------------------------
(* The time domain block filter: the window holds what the first sample of a   *)
(* frame still meets, and the roll brings it there.                            *)

TdInv(b) ==
  /\ b.kind = "td" /\ DOMAIN b = BlockFields /\ FirShape(b) /\ b.gain = 1
  /\ DOMAIN b.window = 0 .. Len(b.taps) + b.advance - 2
  /\ \A j \in 0 .. Len(b.taps) - 2 : b.window[j] = HeardAt(b.heard, Len(b.taps) - 1 - j)
  /\ Exact(b)

LEMMA TdStarts ==
  ASSUME NEW taps \in FirFilters, NEW advance \in Advances
  PROVE  TimeDomain(taps, advance).kind = "none" \/ TdInv(TimeDomain(taps, advance))
<1> DEFINE b == TimeDomain(taps, advance)
<1>1. taps \in Seq(Int) /\ taps # << >> /\ advance \in Nat
  BY BlockFirAssumption
<1>2. Len(taps) \in Nat \ {0}
  BY <1>1, LenProperties, EmptySeq
<1>3. CASE advance = VpuBlock
  <2>1. FirShape(b)
    BY <1>1, <1>3 DEF TimeDomain, FirShape
  <2>2. \A j \in 0 .. Len(taps) - 2 : b.window[j] = 0 /\ HeardAt(<< >>, Len(taps) - 1 - j) = 0
    BY <1>1, <1>2, <1>3 DEF TimeDomain, HeardAt
  <2> QED BY <1>1, <1>3, <2>1, <2>2 DEF TimeDomain, TdInv, BlockFields, Exact
<1>4. CASE advance # VpuBlock
  BY <1>4 DEF TimeDomain
<1> QED BY <1>3, <1>4

LEMMA TdKeeps ==
  ASSUME NEW b, TdInv(b), NEW f \in Frames(b.advance)
  PROVE  TdInv(Heard(ProcessTimeDomain(b, f), f))
<1> DEFINE n == Len(b.taps)
           a == b.advance
           h == Reverse(f) \o b.heard
           w == [i \in DOMAIN b.window |-> IF i < n - 1 THEN b.window[i] ELSE f[i - (n - 1) + 1]]
           c == Heard(ProcessTimeDomain(b, f), f)
<1>1. n \in Nat \ {0} /\ a \in Nat \ {0} /\ f \in [1 .. a -> Word] /\ b.heard \in Seq(Word)
  BY FrameOfWords, LenProperties, EmptySeq DEF TdInv, FirShape
<1>2. /\ h \in Seq(Word)
      /\ \A i \in 1 .. a : HeardAt(h, i) = f[a + 1 - i]
      /\ \A i \in Int : i > 0 => HeardAt(h, a + i) = HeardAt(b.heard, i)
  BY <1>1, HeardNext
<1>3. /\ c.kind = "td" /\ DOMAIN c = BlockFields
      /\ c.taps = b.taps /\ c.gain = 1 /\ c.advance = a /\ c.heard = h
      /\ c.window = Rolled(w, a)
      /\ c.out = [i \in 1 .. a |-> Convolve(w, b.taps, n - 1 + i)]
  <2> DEFINE o == [i \in 1 .. a |-> Convolve(w, b.taps, n - 1 + i)]
             r == Rolled(w, a)
  <2>1. c = Played(b, r, o, f)
    BY DEF ProcessTimeDomain, Played
  <2>2. DOMAIN b = BlockFields /\ b.kind = "td" /\ b.gain = 1
    BY DEF TdInv
  <2> HIDE DEF c, r, o, w
  <2>3. /\ DOMAIN c = BlockFields /\ c.window = r /\ c.out = o /\ c.heard = h
        /\ \A x \in {"kind", "taps", "gain", "advance"} : c[x] = b[x]
    BY <2>1, <2>2, PlayedFields
  <2>4. c.kind = b.kind /\ c.taps = b.taps /\ c.gain = b.gain /\ c.advance = b.advance
    BY <2>3
  <2> QED BY <2>2, <2>3, <2>4 DEF r, o
<1>4. DOMAIN w = 0 .. n + a - 2 /\ Cardinality(0 .. n + a - 2) = n + a - 1
  <2>1. 0 \in Int /\ n + a - 2 \in Int
    BY <1>1
  <2>2. Cardinality(0 .. n + a - 2) = n + a - 1
    <3> HIDE DEF n, a
    <3> QED BY <1>1, <2>1, FS_Interval
  <2> QED BY <2>2 DEF TdInv
<1>5. \A j \in 0 .. n + a - 2 : w[j] = HeardAt(h, a + n - 1 - j)
  <2> SUFFICES ASSUME NEW j \in 0 .. n + a - 2 PROVE w[j] = HeardAt(h, a + n - 1 - j)
    OBVIOUS
  <2>1. CASE j < n - 1
    <3>1. w[j] = HeardAt(b.heard, n - 1 - j)
      <4>1. w[j] = b.window[j]
        BY <1>4, <2>1
      <4>2. j \in 0 .. n - 2
        <5> HIDE DEF n, a
        <5> QED BY <1>1, <2>1
      <4>3. b.window[j] = HeardAt(b.heard, n - 1 - j)
        BY <4>2 DEF TdInv
      <4> HIDE DEF w, n
      <4> QED BY <4>1, <4>3
    <3>2. n - 1 - j \in Int /\ n - 1 - j > 0 /\ a + (n - 1 - j) = a + n - 1 - j
      BY <1>1, <2>1
    <3> HIDE DEF h, w
    <3> QED BY <1>2, <3>1, <3>2
  <2>2. CASE ~ (j < n - 1)
    <3>1. w[j] = f[j - (n - 1) + 1]
      BY <1>4, <2>2
    <3>2. a + n - 1 - j \in 1 .. a /\ a + 1 - (a + n - 1 - j) = j - (n - 1) + 1
      <4> HIDE DEF n, a
      <4> QED BY <1>1, <2>2
    <3> HIDE DEF h, w
    <3> QED BY <1>2, <3>1, <3>2
  <2> QED BY <2>1, <2>2
<1>6. FirShape(c)
  BY <1>2, <1>3 DEF TdInv, FirShape
<1>7. \A j \in 0 .. n - 2 : c.window[j] = HeardAt(h, n - 1 - j)
  <2> SUFFICES ASSUME NEW j \in 0 .. n - 2 PROVE c.window[j] = HeardAt(h, n - 1 - j)
    OBVIOUS
  <2>1. j \in 0 .. n + a - 2 /\ j + a \in 0 .. n + a - 2 /\ a + n - 1 - (j + a) = n - 1 - j
    BY <1>1
  <2>2. (j + a) % (n + a - 1) = j + a
    <3> HIDE DEF n, a
    <3>1. n + a - 1 \in Nat /\ j + a \in Int /\ 0 <= j + a /\ j + a < n + a - 1
      BY <1>1, <2>1
    <3> QED BY <3>1, NoWrap
  <2> HIDE DEF w, h, c
  <2> QED BY <1>3, <1>4, <1>5, <2>1, <2>2 DEF Rolled
<1>8. DOMAIN c.window = 0 .. n + a - 2
  <2> HIDE DEF w, h, c
  <2> QED BY <1>3, <1>4 DEF Rolled
<1>9. ASSUME NEW i \in 1 .. a PROVE c.out[i] = Convolution(c, i)
  <2> DEFINE g == [t \in 1 .. n |-> b.taps[t] * w[n - 1 + i - t]]
  <2>1. \A t \in 1 .. n : Term(c, i)[t] = b.taps[t] * HeardAt(h, a - i + t)
    BY <1>3 DEF Term
  <2>2. \A t \in 1 .. n : n - 1 + i - t \in 0 .. n + a - 2 /\ a + n - 1 - (n - 1 + i - t) = a - i + t
    BY <1>1
  <2>3. \A t \in 1 .. n : g[t] = Term(c, i)[t]
    <3> HIDE DEF w, h, c
    <3> QED BY <1>5, <2>1, <2>2
  <2>4. IsFiniteSet(1 .. n) /\ \A t \in 1 .. n : Term(c, i)[t] \in Int
    BY <1>3, <1>6, TermIsInt
  <2>5. Total(g, 1 .. n) = Total(Term(c, i), 1 .. n)
    <3> HIDE DEF g, n, c
    <3> QED BY <2>3, <2>4, TotalSame
  <2>6. c.out[i] = Total(g, 1 .. n)
    BY <1>3 DEF Convolve
  <2>7. Convolution(c, i) = 1 * Total(Term(c, i), 1 .. n)
    BY <1>3, <1>6, ConvolutionOf
  <2>8. Total(Term(c, i), 1 .. n) \in Int
    <3> HIDE DEF n, c
    <3> QED BY <2>4, TotalTakes
  <2> HIDE DEF g, n, c
  <2> QED BY <2>5, <2>6, <2>7, <2>8
<1>10. Exact(c)
  <2>1. DOMAIN c.out = 1 .. a
    BY <1>3
  <2> HIDE DEF c
  <2> QED BY <1>9, <2>1 DEF Exact
<1>11. TdInv(c)
  <2> HIDE DEF c, h, w
  <2> QED BY <1>3, <1>6, <1>7, <1>8, <1>10 DEF TdInv
<1> QED BY <1>11

-------------------------------------------------------------------------------
(* The size of a block of the frequency domain filter: whatever was asked for, *)
(* a filter that is built has room for a frame beside a phase.                 *)

LEMMA PowerOutgrows == \A n \in Nat : n <= 2 ^ n
<1> DEFINE bad == {n \in Nat : ~ (n <= 2 ^ n)}
<1> SUFFICES ASSUME bad # {} PROVE FALSE
  OBVIOUS
<1>1. PICK n \in bad : \A m \in bad : n <= m
  <2>1. bad \in SUBSET Nat
    OBVIOUS
  <2> HIDE DEF bad
  <2> QED BY <2>1, LeastOf
<1>2. n \in Nat /\ 2 ^ n \in Nat \ {0} /\ ~ (n <= 2 ^ n)
  BY <1>1, PowersOfTwo
<1>3. CASE n = 0
  BY <1>2, <1>3
<1>4. CASE n # 0
  <2>1. n - 1 \in Nat /\ (n - 1) + 1 = n
    BY <1>2, <1>4
  <2>2. n - 1 <= 2 ^ (n - 1)
    BY <1>1, <2>1
  <2>3. 2 ^ (n - 1) \in Nat \ {0} /\ 2 ^ ((n - 1) + 1) = 2 * 2 ^ (n - 1)
    BY <2>1, PowersOfTwo
  <2>4. 2 ^ n = 2 * 2 ^ (n - 1)
    BY <2>1, <2>3
  <2> QED BY <1>2, <2>1, <2>2, <2>3, <2>4
<1> QED BY <1>3, <1>4

LEMMA AutoSizeIsNat == \A advance \in Nat \ {0} : AutoSize(advance) \in Nat \ {0}
<1> SUFFICES ASSUME NEW advance \in Nat \ {0} PROVE AutoSize(advance) \in Nat \ {0}
  OBVIOUS
<1> DEFINE P == {2 ^ k : k \in 0 .. advance}
           T == {n \in P : n >= advance}
<1>1. \A k \in 0 .. advance : 2 ^ k \in Nat \ {0}
  BY PowersOfTwo
<1>2. P \in SUBSET (Nat \ {0})
  BY <1>1
<1>3. advance \in 0 .. advance /\ 2 ^ advance \in P
  OBVIOUS
<1>4. 2 ^ advance \in T
  BY <1>2, <1>3, PowerOutgrows
<1>5. T \in SUBSET Nat /\ T # {}
  BY <1>2, <1>4
<1>6. PICK n \in T : \A m \in T : n <= m
  <2> HIDE DEF T
  <2> QED BY <1>5, LeastOf
<1>7. PICK k \in 0 .. advance : n = 2 ^ k
  BY <1>6
<1>8. n \div 2 < advance
  <2>1. CASE k = 0
    <3>1. n = 1
      BY <1>7, <2>1
    <3> QED BY <3>1
  <2>2. CASE k # 0
    <3>1. k - 1 \in Nat /\ (k - 1) + 1 = k /\ k - 1 \in 0 .. advance
      BY <2>2
    <3> DEFINE u == 2 ^ (k - 1)
    <3>2. u \in Nat \ {0} /\ 2 ^ ((k - 1) + 1) = 2 * u
      BY <3>1, PowersOfTwo
    <3>3. u \in P
      BY <3>1
    <3>4. n = 2 * u
      BY <1>7, <3>1, <3>2
    <3> HIDE DEF u
    <3>5. n \div 2 = u
      BY <3>2, <3>4
    <3>6. ~ (n <= u)
      BY <3>2, <3>4
    <3>7. u \notin T
      <4> HIDE DEF T
      <4> QED BY <1>6, <3>6
    <3> QED BY <3>2, <3>3, <3>5, <3>7
  <2> QED BY <2>1, <2>2
<1>9. \E m \in P : m >= advance /\ m \div 2 < advance
  BY <1>6, <1>8
<1> DEFINE c == CHOOSE m \in P : m >= advance /\ m \div 2 < advance
<1>10. c \in P
  BY <1>9
<1>11. AutoSize(advance) = 2 * c
  BY DEF AutoSize
<1> HIDE DEF c, P
<1> QED BY <1>2, <1>10, <1>11

Works(n, taps, advance, overlap) ==
  SinglePhase(n, taps, advance, overlap) \/ MultiPhase(n, advance, overlap)

LEMMA FilterSizeWorks ==
  ASSUME NEW taps, NEW advance \in Nat \ {0}, NEW overlap \in Nat, NEW asked \in Nat,
         FilterSize(asked, taps, advance, overlap) # 0
  PROVE  /\ FilterSize(asked, taps, advance, overlap) \in Nat
         /\ Works(FilterSize(asked, taps, advance, overlap), taps, advance, overlap)
<1> DEFINE works(n) == Works(n, taps, advance, overlap)
           sizes == IF asked = 0 THEN Doublings(AutoSize(advance)) ELSE {asked}
           size == CHOOSE n \in sizes : works(n) /\ \A m \in sizes : works(m) => n <= m
           good == {n \in sizes : works(n)}
<1>1. FilterSize(asked, taps, advance, overlap) = IF \E n \in sizes : works(n) THEN size ELSE 0
  BY DEF FilterSize, Works
<1>2. sizes \in SUBSET Nat
  <2>1. \A k \in 0 .. 3 : AutoSize(advance) * 2 ^ k \in Nat
    BY AutoSizeIsNat, PowersOfTwo
  <2> QED BY <2>1 DEF Doublings
<1> HIDE DEF works, sizes
<1>3. good \in SUBSET Nat /\ good # {}
  BY <1>1, <1>2
<1>4. PICK n \in good : \A m \in good : n <= m
  <2> HIDE DEF good
  <2> QED BY <1>3, LeastOf
<1>5. size \in sizes /\ works(size)
  BY <1>4
<1> HIDE DEF size
<1> QED BY <1>1, <1>2, <1>5 DEF works

\* A block has room for a frame beside a phase, the phases cover the taps, and
\* only one that is the whole filter is not as long as a frame.
LEMMA PhasesFit ==
  ASSUME NEW taps \in Seq(Int), taps # << >>, NEW advance \in Nat \ {0}, NEW overlap \in Nat,
         NEW nfft \in Nat, Works(nfft, taps, advance, overlap)
  PROVE  LET per == TapsPerPhase(nfft, taps, advance, overlap)
         IN  /\ per \in Nat \ {0} /\ per + advance <= nfft + 1
             /\ Phases(taps, per) \in Nat \ {0} /\ Len(taps) <= Phases(taps, per) * per
             /\ Phases(taps, per) = 1 \/ per = advance
<1> DEFINE per == TapsPerPhase(nfft, taps, advance, overlap)
           n == Len(taps)
           v == n + per - 1
<1>1. n \in Nat \ {0}
  BY LenProperties, EmptySeq
<1>2. /\ per \in Nat \ {0} /\ per + advance <= nfft + 1
      /\ per = n \/ per = advance
  BY <1>1 DEF Works, TapsPerPhase, SinglePhase, MultiPhase
<1>3. Phases(taps, per) = v \div per
  BY DEF Phases
<1> HIDE DEF per, n
<1>4. v \in Int /\ v >= per /\ v >= n
  BY <1>1, <1>2
<1> DEFINE q == v \div per
<1>5. q \in Int /\ per * q <= v /\ v < per * q + per
  BY <1>2, <1>4, QuotientOf
<1>6. per = n => v = 2 * per - 1
  BY <1>1, <1>2
<1> HIDE DEF v, q
<1>7. per * q = q * per
  BY <1>2, <1>5
<1>8. q >= 1
  <2> SUFFICES ASSUME q <= 0 PROVE FALSE
    BY <1>5
  <2>1. q * per <= 0 * per
    BY <1>2, <1>5, Monotone
  <2> QED BY <1>2, <1>4, <1>5, <1>7, <2>1
<1>9. n <= q * per
  <2>1. v < q * per + per /\ q * per \in Int
    BY <1>2, <1>5, <1>7
  <2> QED BY <1>1, <1>2, <2>1 DEF v
<1>10. per = n => q = 1
  <2> SUFFICES ASSUME per = n, q >= 2 PROVE FALSE
    BY <1>5, <1>8
  <2>1. 2 * per <= q * per
    BY <1>2, <1>5, Monotone
  <2> QED BY <1>2, <1>5, <1>6, <1>7, <2>1
<1>11. Phases(taps, per) = q
  BY <1>3 DEF q
<1> QED BY <1>2, <1>5, <1>8, <1>9, <1>10, <1>11 DEF per, n

-------------------------------------------------------------------------------
(* The frequency domain block filter: each phase meets the frames that are as  *)
(* much older as the phase is further down the filter.                         *)

Loud(b, i) == [t \in 1 .. Len(b.taps) |-> b.gain * Term(b, i)[t]]

\* The taps of the phase that begins after the first ones.
Slice(n, first, per) == {t \in 1 .. n : first < t /\ t <= first + per}

LEMMA TimesInTurn == \A x, y, z \in Int : (x * y) * z = x * (y * z)
OBVIOUS

\* A phase and the block it meets.
Meets(b, nfft, per, first, block, phase) ==
  /\ DOMAIN block = 0 .. nfft - 1
  /\ \A j \in 0 .. nfft - 1 : block[j] = HeardAt(b.heard, nfft - j + first)
  /\ phase = [k \in 0 .. nfft - 1 |-> IF k < per /\ first + k < Len(b.taps)
                                      THEN b.gain * b.taps[first + k + 1] ELSE 0]

\* A circular convolution with a phase is the convolution with its taps, where
\* the block is long enough that none of them wraps.
LEMMA CircularIs ==
  ASSUME NEW b, FirShape(b), NEW i \in 1 .. b.advance,
         NEW nfft \in Nat, NEW per \in Nat \ {0}, per + b.advance <= nfft + 1, NEW first \in Nat,
         NEW block, NEW phase, Meets(b, nfft, per, first, block, phase)
  PROVE  Circular(block, phase, nfft - b.advance + i - 1) = Total(Loud(b, i), Slice(Len(b.taps), first, per))
<1> DEFINE n == Len(b.taps)
           a == b.advance
           at == nfft - a + i - 1
           K == 0 .. nfft - 1
           S == {k \in K : k < per /\ first + k < n}
           T == Slice(n, first, per)
           g == Loud(b, i)
           f == [k \in K |-> phase[k] * block[(at - k) % nfft]]
           m == [k \in S |-> first + k + 1]
<1>1. n \in Nat \ {0} /\ a \in Nat \ {0} /\ i \in 1 .. a /\ b.gain \in Int /\ per + a <= nfft + 1
  BY TermIsInt DEF FirShape
<1>2. \A t \in 1 .. n : /\ b.taps[t] \in Int /\ WordOf(HeardAt(b.heard, a - i + t))
                        /\ g[t] = b.gain * (b.taps[t] * HeardAt(b.heard, a - i + t)) /\ g[t] \in Int
  <2> SUFFICES ASSUME NEW t \in 1 .. n
               PROVE  /\ b.taps[t] \in Int /\ WordOf(HeardAt(b.heard, a - i + t))
                      /\ g[t] = b.gain * (b.taps[t] * HeardAt(b.heard, a - i + t)) /\ g[t] \in Int
    OBVIOUS
  <2>1. b.taps[t] \in Int /\ WordOf(HeardAt(b.heard, a - i + t)) /\ Term(b, i)[t] \in Int
    BY TermIsInt
  <2>2. g[t] = b.gain * Term(b, i)[t] /\ Term(b, i)[t] = b.taps[t] * HeardAt(b.heard, a - i + t)
    BY DEF Loud, Term
  <2> HIDE DEF g, a
  <2> QED BY <1>1, <2>1, <2>2
<1>3. Circular(block, phase, at) = Total(f, K)
  <2>1. Cardinality(0 .. nfft - 1) = nfft
    <3>1. 0 \in Int /\ nfft - 1 \in Int /\ 0 <= nfft - 1
      <4> HIDE DEF a
      <4> QED BY <1>1
    <3> QED BY <3>1, FS_Interval
  <2> HIDE DEF at
  <2> QED BY <2>1 DEF Circular, Meets
<1> HIDE DEF n, a, g
<1>4. ASSUME NEW k \in S
      PROVE  k \in K /\ m[k] = first + k + 1 /\ m[k] \in T /\ m[k] \in 1 .. n /\ f[k] = g[m[k]] /\ f[k] \in Int
  <2>1. k \in K /\ first + k + 1 \in 1 .. n /\ m[k] = first + k + 1 /\ m[k] \in T
    BY <1>1 DEF Slice
  <2>2. (at - k) \in 0 .. nfft - 1
    BY <1>1
  <2>3. (at - k) % nfft = at - k
    BY <2>2, NoWrap
  <2>4. block[at - k] = HeardAt(b.heard, nfft - (at - k) + first)
    BY <2>2 DEF Meets
  <2>5. nfft - (at - k) + first = a - i + m[k]
    BY <1>1, <2>1
  <2>6. phase[k] = b.gain * b.taps[m[k]]
    BY <2>1 DEF n, Meets
  <2> DEFINE x == b.taps[m[k]]
             y == HeardAt(b.heard, a - i + m[k])
  <2>7. x \in Int /\ y \in Int /\ g[m[k]] = b.gain * (x * y) /\ g[m[k]] \in Int
    BY <1>2, <2>1 DEF WordOf
  <2>8. f[k] = (b.gain * x) * y
    <3> HIDE DEF at, m, x, y
    <3>1. f[k] = phase[k] * block[(at - k) % nfft]
      OBVIOUS
    <3> QED BY <2>3, <2>4, <2>5, <2>6, <3>1 DEF x, y
  <2> HIDE DEF x, y, f, m
  <2>9. (b.gain * x) * y = b.gain * (x * y)
    BY <1>1, <2>7, TimesInTurn
  <2> QED BY <2>1, <2>7, <2>8, <2>9
<1>5. \A k \in K : k \notin S => f[k] = 0
  <2> SUFFICES ASSUME NEW k \in K, k \notin S PROVE f[k] = 0
    OBVIOUS
  <2>1. phase[k] = 0
    BY DEF n, Meets
  <2>2. at - k \in Int /\ nfft \in Nat \ {0}
    BY <1>1
  <2>3. (at - k) % nfft \in 0 .. nfft - 1
    <3> HIDE DEF at
    <3> QED BY <2>2
  <2>4. WordOf(block[(at - k) % nfft])
    <3> DEFINE j == (at - k) % nfft
    <3>1. block[j] = HeardAt(b.heard, nfft - j + first) /\ nfft - j + first \in Int
      <4>1. j \in 0 .. nfft - 1
        BY <2>3
      <4> HIDE DEF j
      <4> QED BY <4>1 DEF Meets
    <3> HIDE DEF j
    <3>2. WordOf(HeardAt(b.heard, nfft - j + first))
      BY <3>1, HeardIsWord DEF FirShape
    <3> QED BY <3>1, <3>2 DEF j
  <2> HIDE DEF at
  <2>5. f[k] = phase[k] * block[(at - k) % nfft]
    OBVIOUS
  <2> QED BY <2>1, <2>4, <2>5 DEF WordOf
<1>6. S \in SUBSET K /\ IsFiniteSet(K) /\ IsFiniteSet(S)
  <2>1. IsFiniteSet(K)
    BY FS_Interval
  <2> QED BY <2>1, FS_Subset
<1>7. m \in Bijection(S, T)
  <2>1. m \in [S -> T]
    BY <1>4
  <2>2. \A k, l \in S : m[k] = m[l] => k = l
    BY <1>4
  <2>3. \A t \in T : \E k \in S : m[k] = t
    <3> SUFFICES ASSUME NEW t \in T PROVE \E k \in S : m[k] = t
      OBVIOUS
    <3>1. t \in 1 .. n /\ first < t /\ t <= first + per
      BY DEF Slice
    <3>2. t - first - 1 \in 0 .. nfft - 1
      BY <1>1, <3>1
    <3>3. t - first - 1 < per /\ first + (t - first - 1) < n /\ first + (t - first - 1) + 1 = t
      BY <1>1, <3>1
    <3>4. t - first - 1 \in S
      BY <3>2, <3>3
    <3> QED BY <3>3, <3>4
  <2> HIDE DEF m, S, T
  <2> QED BY <2>1, <2>2, <2>3, Zenon DEF Bijection, Injection, Surjection, IsInjective
<1>8. Total(f, S) = Total(g, T)
  <2> HIDE DEF m, f, S, T
  <2>1. \A k \in S : f[k] \in Int /\ g[m[k]] = f[k]
    BY <1>4
  <2>2. IsFiniteSet(S)
    BY <1>6
  <2> QED BY <1>7, <2>1, <2>2, TotalMoved
<1>9. Total(f, K) = Total(f, S)
  <2>1. \A k \in K : f[k] \in Int /\ (k \notin S => f[k] = 0)
    <3> HIDE DEF f, m, S
    <3> QED BY <1>4, <1>5
  <2> HIDE DEF f, m, S, K
  <2> QED BY <1>6, <2>1, TotalWithout
<1> QED BY <1>3, <1>8, <1>9 DEF n, g, a

LEMMA TotalNext ==
  ASSUME NEW many \in Nat, NEW g, \A p \in 0 .. many - 1 : g[p] \in Int, NEW d \in 0 .. many - 1
  PROVE  Total(g, 0 .. d) = Total(g, 0 .. d - 1) + g[d]
<1>1. IsFiniteSet(0 .. many - 1)
  BY FS_Interval
<1>2. 0 .. d \in SUBSET (0 .. many - 1) /\ d \in 0 .. d /\ (0 .. d) \ {d} = 0 .. d - 1
  OBVIOUS
<1>3. \A C \in SUBSET (0 .. many - 1) : \A x \in C : Total(g, C) = Total(g, C \ {x}) + g[x]
  BY <1>1, TotalTakes
<1>4. Total(g, 0 .. d) = Total(g, (0 .. d) \ {d}) + g[d]
  BY <1>2, <1>3
<1> QED BY <1>2, <1>4

LEMMA SliceNext ==
  ASSUME NEW n \in Nat, NEW f, \A t \in 1 .. n : f[t] \in Int, NEW e \in Nat, NEW per \in Nat
  PROVE  Total(f, {t \in 1 .. n : t <= e + per}) =
           Total(f, {t \in 1 .. n : t <= e}) + Total(f, Slice(n, e, per))
<1> DEFINE N == 1 .. n
           U == {t \in N : t <= e}
           V == Slice(n, e, per)
<1>1. IsFiniteSet(N) /\ \A t \in N : f[t] \in Int
  BY FS_Interval
<1>2. U \in SUBSET N /\ V \in SUBSET N /\ U \cap V = {}
  BY DEF Slice
<1>3. U \cup V = {t \in N : t <= e + per}
  BY DEF Slice
<1>4. Total(f, U \cup V) = Total(f, U) + Total(f, V)
  <2> HIDE DEF U, V, N
  <2> QED BY <1>1, <1>2, TotalUnion
<1> QED BY <1>3, <1>4

InSlices(g, f, n, per, many) == \A p \in 0 .. many - 1 : g[p] = Total(f, Slice(n, p * per, per))

\* The phases' sums together are the whole sum.
LEMMA SlicesTotal ==
  ASSUME NEW n \in Nat, NEW per \in Nat \ {0}, NEW many \in Nat, n <= many * per,
         NEW f, \A t \in 1 .. n : f[t] \in Int,
         NEW g, InSlices(g, f, n, per, many)
  PROVE  Total(g, 0 .. many - 1) = Total(f, 1 .. n)
<1> DEFINE N == 1 .. n
           upTo(e) == {t \in N : t <= e}
           bad == {c \in Nat : c <= many /\ Total(g, 0 .. c - 1) # Total(f, upTo(c * per))}
<1>1. IsFiniteSet(N) /\ IsFiniteSet(0 .. many - 1)
  BY FS_Interval
<1>2. \A T \in SUBSET N : Total(f, T) \in Int
  BY <1>1, TotalTakes
<1>3. \A e : Slice(n, e, per) \in SUBSET N
  BY DEF Slice
<1>4. \A p \in 0 .. many - 1 : g[p] \in Int
  <2> HIDE DEF N
  <2> QED BY <1>2, <1>3 DEF InSlices
<1>5. bad = {}
  <2> SUFFICES ASSUME bad # {} PROVE FALSE
    OBVIOUS
  <2>1. PICK c \in bad : \A d \in bad : c <= d
    <3>1. bad \in SUBSET Nat
      OBVIOUS
    <3> HIDE DEF bad
    <3> QED BY <3>1, LeastOf
  <2>2. c \in Nat /\ c <= many /\ Total(g, 0 .. c - 1) # Total(f, upTo(c * per))
    BY <2>1
  <2>3. CASE c = 0
    <3>1. upTo(c * per) = {} /\ 0 .. c - 1 = {}
      BY <2>3
    <3>2. Total(f, {}) = 0 /\ Total(g, {}) = 0
      BY <1>1, <1>4, TotalTakes
    <3> QED BY <2>2, <3>1, <3>2
  <2>4. CASE c # 0
    <3> DEFINE d == c - 1
               e == d * per
    <3>1. d \in Nat /\ d <= many /\ d \in 0 .. many - 1 /\ c = d + 1 /\ ~ (c <= d)
      BY <2>2, <2>4
    <3> HIDE DEF d
    <3>2. Total(g, 0 .. d - 1) = Total(f, upTo(d * per))
      BY <2>1, <3>1
    <3>3. c * per = e + per /\ e \in Nat
      BY <3>1
    <3>5. Total(g, 0 .. c - 1) = Total(g, 0 .. d - 1) + g[d]
      <4>1. 0 .. c - 1 = 0 .. d
        BY <3>1
      <4>2. Total(g, 0 .. d) = Total(g, 0 .. d - 1) + g[d]
        BY <1>4, <3>1, TotalNext
      <4> QED BY <4>1, <4>2
    <3>7. g[d] = Total(f, Slice(n, e, per))
      BY <3>1 DEF InSlices
    <3> HIDE DEF e
    <3>9. Total(f, upTo(e + per)) = Total(f, upTo(e)) + Total(f, Slice(n, e, per))
      BY <3>3, SliceNext
    <3> HIDE DEF upTo, N
    <3>10. Total(f, upTo(e + per)) = Total(g, 0 .. d - 1) + g[d]
      BY <3>2, <3>7, <3>9, Zenon DEF e
    <3> QED BY <2>2, <3>3, <3>5, <3>10
  <2> QED BY <2>3, <2>4
<1>6. upTo(many * per) = N
  BY <1>1
<1>7. many \notin bad
  BY <1>5
<1>8. Total(g, 0 .. many - 1) = Total(f, upTo(many * per))
  BY <1>7
<1> QED BY <1>6, <1>8

FdFields == BlockFields \cup {"phases", "spectra"}

\* How a block is cut, and what its buffers hold of what it heard.
FdCut(b, nfft, per, many) ==
  /\ per + b.advance <= nfft + 1 /\ Len(b.taps) <= many * per /\ (many = 1 \/ per = b.advance)
  /\ DOMAIN b.phases = 0 .. many - 1 /\ DOMAIN b.spectra = 0 .. many - 1 /\ DOMAIN b.window = 0 .. nfft - 1
  /\ \A p \in 0 .. many - 1 :
       b.phases[p] = [k \in 0 .. nfft - 1 |-> IF k < per /\ p * per + k < Len(b.taps)
                                              THEN b.gain * b.taps[p * per + k + 1] ELSE 0]
FdHolds(b, nfft, many) ==
  /\ \A j \in 0 .. nfft - b.advance - 1 : b.window[j] = HeardAt(b.heard, nfft - b.advance - j)
  /\ \A p \in 1 .. many - 1 :
       /\ DOMAIN b.spectra[p] = 0 .. nfft - 1
       /\ \A j \in 0 .. nfft - 1 : b.spectra[p][j] = HeardAt(b.heard, nfft - j + (p - 1) * b.advance)
FdInv(b) ==
  /\ b.kind = "fd" /\ DOMAIN b = FdFields /\ FirShape(b)
  /\ b.advance # 0 => \E nfft \in Nat, per \in Nat \ {0}, many \in Nat \ {0} :
                         FdCut(b, nfft, per, many) /\ FdHolds(b, nfft, many)
  /\ Exact(b)

LEMMA FdStarts ==
  ASSUME NEW taps \in FirFilters, NEW advance \in Advances, NEW overlap \in Overlaps,
         NEW asked \in BlockSizes, NEW gain \in FirGains
  PROVE  \/ FrequencyDomain(taps, advance, overlap, asked, gain).kind = "none"
         \/ FdInv(FrequencyDomain(taps, advance, overlap, asked, gain))
<1> DEFINE b == FrequencyDomain(taps, advance, overlap, asked, gain)
           nfft == FilterSize(asked, taps, advance, overlap)
           per == TapsPerPhase(nfft, taps, advance, overlap)
           many == Phases(taps, per)
           silence == [i \in 0 .. nfft - 1 |-> 0]
<1>1. /\ taps \in Seq(Int) /\ taps # << >> /\ advance \in Nat /\ overlap \in Nat /\ asked \in Nat /\ gain \in Nat
  BY BlockFirAssumption
<1>2. CASE nfft = 0
  BY <1>2 DEF FrequencyDomain
<1>3. CASE nfft # 0
  <2>1. b = [kind |-> "fd", taps |-> taps, gain |-> gain, advance |-> advance,
             phases |-> PhaseBlocks(taps, gain, per, nfft),
             window |-> silence, spectra |-> [p \in 0 .. many - 1 |-> silence],
             heard |-> << >>, out |-> << >>]
    BY <1>3 DEF FrequencyDomain
  <2> HIDE DEF b
  <2>2. b.kind = "fd" /\ DOMAIN b = FdFields /\ FirShape(b) /\ Exact(b)
    <3> HIDE DEF nfft, per, many, silence
    <3> QED BY <1>1, <2>1 DEF FdFields, BlockFields, FirShape, Exact
  <2>3. ASSUME advance # 0
        PROVE  /\ nfft \in Nat /\ per \in Nat \ {0} /\ many \in Nat \ {0}
               /\ FdCut(b, nfft, per, many) /\ FdHolds(b, nfft, many)
    <3>1. nfft \in Nat /\ Works(nfft, taps, advance, overlap)
      BY <1>1, <1>3, <2>3, FilterSizeWorks
    <3>2. /\ per \in Nat \ {0} /\ per + advance <= nfft + 1
          /\ many \in Nat \ {0} /\ Len(taps) <= many * per /\ (many = 1 \/ per = advance)
      <4> HIDE DEF nfft
      <4> QED BY <1>1, <2>3, <3>1, PhasesFit
    <3>3. /\ b.taps = taps /\ b.gain = gain /\ b.advance = advance /\ b.heard = << >>
          /\ b.window = silence /\ b.spectra = [p \in 0 .. many - 1 |-> silence]
          /\ b.phases = [p \in 0 .. many - 1 |->
               [k \in 0 .. nfft - 1 |-> IF k < per /\ p * per + k < Len(taps)
                                        THEN gain * taps[p * per + k + 1] ELSE 0]]
      <4> HIDE DEF nfft, per, silence
      <4> QED BY <2>1 DEF PhaseBlocks
    <3> HIDE DEF nfft, per, many
    <3>4. FdCut(b, nfft, per, many)
      BY <3>2, <3>3 DEF FdCut
    <3>5. \A j \in Int : HeardAt(<< >>, j) = 0
      BY DEF HeardAt
    <3>6. FdHolds(b, nfft, many)
      <4>1. \A j \in 0 .. nfft - b.advance - 1 : b.window[j] = 0 /\ nfft - b.advance - j \in Int
        BY <1>1, <2>3, <3>1, <3>3
      <4>2. ASSUME NEW p \in 1 .. many - 1, NEW j \in 0 .. nfft - 1
            PROVE  b.spectra[p] = silence /\ b.spectra[p][j] = 0 /\ nfft - j + (p - 1) * b.advance \in Int
        BY <1>1, <3>1, <3>2, <3>3
      <4>3. ASSUME NEW p \in 1 .. many - 1 PROVE DOMAIN b.spectra[p] = 0 .. nfft - 1
        BY <3>2, <3>3
      <4> HIDE DEF silence
      <4> QED BY <3>3, <3>5, <4>1, <4>2, <4>3 DEF FdHolds
    <3> QED BY <3>1, <3>2, <3>4, <3>6
  <2>4. b.advance = advance
    BY <2>1
  <2> HIDE DEF nfft, per, many
  <2> QED BY <2>2, <2>3, <2>4 DEF FdInv, b
<1> QED BY <1>2, <1>3

PlayedIn(b, w, s, o, f) == Heard([b EXCEPT !.window = w, !.spectra = s, !.out = o], f)

LEMMA PlayedInFields ==
  ASSUME NEW b, DOMAIN b = FdFields, NEW w, NEW s, NEW o, NEW f
  PROVE  /\ DOMAIN PlayedIn(b, w, s, o, f) = FdFields
         /\ \A x \in {"kind", "taps", "gain", "advance", "phases"} : PlayedIn(b, w, s, o, f)[x] = b[x]
         /\ PlayedIn(b, w, s, o, f).window = w /\ PlayedIn(b, w, s, o, f).out = o
         /\ PlayedIn(b, w, s, o, f).spectra = s
         /\ PlayedIn(b, w, s, o, f).heard = Reverse(f) \o b.heard
<1>1. \A x \in FdFields : x \in DOMAIN b
  OBVIOUS
<1> QED BY <1>1 DEF Heard, PlayedIn, FdFields, BlockFields

LEMMA FdKeeps ==
  ASSUME NEW b, FdInv(b), NEW f \in Frames(b.advance)
  PROVE  FdInv(Heard(ProcessFrequencyDomain(b, f), f))
<1> DEFINE n == Len(b.taps)
           a == b.advance
           h == Reverse(f) \o b.heard
           w == Filled(b.window, f)
           s == [b.spectra EXCEPT ![0] = w]
           size == Cardinality(DOMAIN w)
           o == [i \in 1 .. a |-> Total([p \in DOMAIN s |-> Circular(s[p], b.phases[p], size - a + i - 1)], DOMAIN s)]
           c == Heard(ProcessFrequencyDomain(b, f), f)
<1>1. n \in Nat \ {0} /\ a \in Nat \ {0} /\ f \in [1 .. a -> Word] /\ b.heard \in Seq(Word)
  BY FrameOfWords, LenProperties, EmptySeq DEF FdInv, FirShape
<1>2. /\ h \in Seq(Word)
      /\ \A i \in 1 .. a : HeardAt(h, i) = f[a + 1 - i]
      /\ \A i \in Int : i > 0 => HeardAt(h, a + i) = HeardAt(b.heard, i)
  BY <1>1, HeardNext
<1>3. /\ c.kind = "fd" /\ DOMAIN c = FdFields
      /\ c.taps = b.taps /\ c.gain = b.gain /\ c.advance = a /\ c.phases = b.phases /\ c.heard = h
      /\ c.window = Rolled(w, a) /\ c.spectra = Rolled(s, -1) /\ c.out = o
  <2> DEFINE r == Rolled(w, a)
             q == Rolled(s, -1)
  <2>1. c = PlayedIn(b, r, q, o, f)
    BY DEF ProcessFrequencyDomain, PlayedIn
  <2>2. DOMAIN b = FdFields /\ b.kind = "fd"
    BY DEF FdInv
  <2> HIDE DEF c, r, q, o, w
  <2>3. /\ DOMAIN c = FdFields /\ c.window = r /\ c.spectra = q /\ c.out = o /\ c.heard = h
        /\ \A x \in {"kind", "taps", "gain", "advance", "phases"} : c[x] = b[x]
    BY <2>1, <2>2, PlayedInFields
  <2>4. c.kind = b.kind /\ c.taps = b.taps /\ c.gain = b.gain /\ c.advance = b.advance /\ c.phases = b.phases
    BY <2>3
  <2> QED BY <2>2, <2>3, <2>4 DEF r, q
<1>4. PICK nfft \in Nat, per \in Nat \ {0}, many \in Nat \ {0} : FdCut(b, nfft, per, many) /\ FdHolds(b, nfft, many)
  BY <1>1 DEF FdInv
<1>5. nfft >= a /\ per + a <= nfft + 1 /\ n <= many * per /\ (many = 1 \/ per = a)
  BY <1>1, <1>4 DEF FdCut
<1>6. FirShape(c)
  BY <1>2, <1>3 DEF FdInv, FirShape
<1> HIDE DEF c, h, o, n, a
<1>7. /\ DOMAIN w = 0 .. nfft - 1 /\ size = nfft
      /\ \A j \in 0 .. nfft - 1 : w[j] = IF j < nfft - a THEN b.window[j] ELSE f[j - (nfft - a) + 1]
  <2>1. DOMAIN b.window = 0 .. nfft - 1
    BY <1>4 DEF FdCut
  <2>2. Cardinality(0 .. nfft - 1) = nfft
    <3>1. 0 \in Int /\ nfft - 1 \in Int /\ 0 <= nfft - 1
      BY <1>1, <1>5
    <3> QED BY <3>1, FS_Interval
  <2>3. Len(f) = a
    BY <1>1
  <2> QED BY <2>1, <2>2, <2>3 DEF Filled
<1> HIDE DEF w, size
<1>8. \A j \in 0 .. nfft - 1 : w[j] = HeardAt(h, nfft - j)
  <2> SUFFICES ASSUME NEW j \in 0 .. nfft - 1 PROVE w[j] = HeardAt(h, nfft - j)
    OBVIOUS
  <2>1. CASE j < nfft - a
    <3>1. b.window[j] = HeardAt(b.heard, nfft - a - j)
      BY <1>1, <1>4, <2>1 DEF FdHolds, a
    <3>2. nfft - a - j \in Int /\ nfft - a - j > 0 /\ a + (nfft - a - j) = nfft - j
      BY <1>1, <2>1
    <3>3. HeardAt(h, a + (nfft - a - j)) = HeardAt(b.heard, nfft - a - j)
      BY <1>2, <3>2
    <3> QED BY <1>7, <2>1, <3>1, <3>2, <3>3
  <2>2. CASE ~ (j < nfft - a)
    <3>1. nfft - j \in 1 .. a /\ a + 1 - (nfft - j) = j - (nfft - a) + 1
      BY <1>1, <1>5, <2>2
    <3> QED BY <1>2, <1>7, <2>2, <3>1
  <2> QED BY <2>1, <2>2
<1>9. /\ DOMAIN s = 0 .. many - 1
      /\ \A p \in 0 .. many - 1 : /\ DOMAIN s[p] = 0 .. nfft - 1
                                  /\ \A j \in 0 .. nfft - 1 : s[p][j] = HeardAt(h, nfft - j + p * a)
  <2>1. DOMAIN s = 0 .. many - 1
    BY <1>4 DEF FdCut
  <2>2. 0 \in 0 .. many - 1 /\ s[0] = w /\ \A p \in 1 .. many - 1 : s[p] = b.spectra[p]
    BY <1>4 DEF FdCut
  <2> HIDE DEF s
  <2>3. ASSUME NEW p \in 1 .. many - 1
        PROVE  /\ DOMAIN s[p] = 0 .. nfft - 1
               /\ \A j \in 0 .. nfft - 1 : s[p][j] = HeardAt(h, nfft - j + p * a)
    <3>1. DOMAIN s[p] = 0 .. nfft - 1
      BY <1>4, <2>2, <2>3 DEF FdHolds
    <3>2. ASSUME NEW j \in 0 .. nfft - 1 PROVE s[p][j] = HeardAt(h, nfft - j + p * a)
      <4> DEFINE e == (p - 1) * a
      <4>1. e \in Nat /\ p * a = e + a
        BY <1>1
      <4>2. s[p][j] = HeardAt(b.heard, nfft - j + e)
        BY <1>4, <2>2, <2>3, <3>2 DEF FdHolds, a
      <4> HIDE DEF e
      <4>3. nfft - j + e \in Int /\ nfft - j + e > 0 /\ a + (nfft - j + e) = nfft - j + (e + a)
        BY <1>1, <4>1
      <4>4. HeardAt(h, a + (nfft - j + e)) = HeardAt(b.heard, nfft - j + e)
        BY <1>2, <4>3
      <4> QED BY <4>1, <4>2, <4>3, <4>4
    <3> QED BY <3>1, <3>2
  <2>4. 0 * a = 0 /\ \A j \in 0 .. nfft - 1 : nfft - j + 0 = nfft - j
    BY <1>1
  <2>5. \A j \in 0 .. nfft - 1 : s[0][j] = HeardAt(h, nfft - j + 0 * a)
    BY <1>8, <2>2, <2>4
  <2>6. \A p \in 0 .. many - 1 : p = 0 \/ p \in 1 .. many - 1
    OBVIOUS
  <2> QED BY <1>7, <2>1, <2>2, <2>3, <2>5, <2>6
<1> HIDE DEF s
<1>10. FdCut(c, nfft, per, many)
  <2>1. DOMAIN c.window = 0 .. nfft - 1 /\ DOMAIN c.spectra = 0 .. many - 1
    BY <1>3, <1>7, <1>9 DEF Rolled
  <2>2. ASSUME NEW p \in 0 .. many - 1
        PROVE  c.phases[p] = [k \in 0 .. nfft - 1 |-> IF k < per /\ p * per + k < Len(c.taps)
                                                      THEN c.gain * c.taps[p * per + k + 1] ELSE 0]
    <3>1. b.phases[p] = [k \in 0 .. nfft - 1 |-> IF k < per /\ p * per + k < Len(b.taps)
                                                 THEN b.gain * b.taps[p * per + k + 1] ELSE 0]
      BY <1>4 DEF FdCut
    <3>2. c.taps = b.taps /\ c.gain = b.gain /\ c.phases = b.phases
      BY <1>3
    <3> QED BY <3>1, <3>2, Zenon
  <2>3. DOMAIN c.phases = 0 .. many - 1 /\ c.advance = a /\ Len(c.taps) = n
    BY <1>3, <1>4 DEF FdCut, n
  <2> QED BY <1>5, <2>1, <2>2, <2>3 DEF FdCut
<1>11. FdHolds(c, nfft, many)
  <2>1. ASSUME NEW j \in 0 .. nfft - a - 1 PROVE c.window[j] = HeardAt(h, nfft - a - j)
    <3>1. j \in 0 .. nfft - 1 /\ j + a \in 0 .. nfft - 1 /\ nfft - (j + a) = nfft - a - j
      BY <1>1
    <3>2. (j + a) % nfft = j + a
      BY <3>1, NoWrap
    <3>3. c.window[j] = w[j + a]
      BY <1>3, <1>7, <3>1, <3>2 DEF Rolled, size
    <3> QED BY <1>8, <3>1, <3>3
  <2>2. ASSUME NEW p \in 1 .. many - 1 PROVE c.spectra[p] = s[p - 1] /\ p - 1 \in 0 .. many - 1
    <3>1. p - 1 \in 0 .. many - 1 /\ p \in 0 .. many - 1 /\ p + (-1) = p - 1
      OBVIOUS
    <3>2. (p + (-1)) % many = p - 1
      BY <3>1, NoWrap
    <3>3. Cardinality(0 .. many - 1) = many
      <4>1. 0 \in Int /\ many - 1 \in Int /\ 0 <= many - 1
        OBVIOUS
      <4> QED BY <4>1, FS_Interval
    <3> QED BY <1>3, <1>9, <3>1, <3>2, <3>3 DEF Rolled
  <2> QED BY <1>3, <1>9, <2>1, <2>2 DEF FdHolds
<1>12. ASSUME NEW i \in 1 .. a PROVE c.out[i] = Convolution(c, i)
  <2> DEFINE L == Loud(c, i)
             at == nfft - a + i - 1
             g == [p \in 0 .. many - 1 |-> Circular(s[p], b.phases[p], at)]
  <2>1. c.out[i] = Total(g, 0 .. many - 1)
    BY <1>3, <1>7, <1>9 DEF o
  <2>2. \A p \in 0 .. many - 1 : p * per \in Nat /\ p * a = p * per
    <3> SUFFICES ASSUME NEW p \in 0 .. many - 1 PROVE p * per \in Nat /\ p * a = p * per
      OBVIOUS
    <3>1. CASE many = 1
      <4>1. p = 0
        BY <3>1
      <4> QED BY <1>1, <4>1
    <3>2. CASE per = a
      BY <3>2
    <3> QED BY <1>5, <3>1, <3>2
  <2>3. \A p \in 0 .. many - 1 : Meets(c, nfft, per, p * per, s[p], b.phases[p])
    <3> SUFFICES ASSUME NEW p \in 0 .. many - 1 PROVE Meets(c, nfft, per, p * per, s[p], b.phases[p])
      OBVIOUS
    <3>1. /\ DOMAIN s[p] = 0 .. nfft - 1
          /\ \A j \in 0 .. nfft - 1 : s[p][j] = HeardAt(c.heard, nfft - j + p * per)
      BY <1>3, <1>9, <2>2
    <3>2. b.phases[p] = [k \in 0 .. nfft - 1 |-> IF k < per /\ p * per + k < Len(b.taps)
                                                 THEN b.gain * b.taps[p * per + k + 1] ELSE 0]
      BY <1>4 DEF FdCut
    <3> QED BY <1>3, <3>1, <3>2 DEF Meets
  <2>4. \A p \in 0 .. many - 1 : g[p] = Total(L, Slice(n, p * per, per))
    <3> SUFFICES ASSUME NEW p \in 0 .. many - 1 PROVE g[p] = Total(L, Slice(n, p * per, per))
      OBVIOUS
    <3> DEFINE first == p * per
    <3>1. first \in Nat /\ Meets(c, nfft, per, first, s[p], b.phases[p])
      BY <2>2, <2>3
    <3> HIDE DEF first
    <3>2. i \in 1 .. c.advance /\ per + c.advance <= nfft + 1
      BY <1>3, <1>5
    <3>3. Circular(s[p], b.phases[p], nfft - c.advance + i - 1) = Total(L, Slice(Len(c.taps), first, per))
      BY <1>6, <3>1, <3>2, CircularIs
    <3>4. g[p] = Circular(s[p], b.phases[p], nfft - c.advance + i - 1) /\ Len(c.taps) = n
      BY <1>3 DEF n
    <3> HIDE DEF g, L
    <3> QED BY <3>3, <3>4 DEF first
  <2>5. IsFiniteSet(1 .. n) /\ \A t \in 1 .. n : Term(c, i)[t] \in Int /\ L[t] = c.gain * Term(c, i)[t]
    <3>1. Len(c.taps) = n
      BY <1>3 DEF n
    <3> QED BY <1>6, <3>1, TermIsInt DEF Loud
  <2>6. c.gain \in Int
    BY <1>6 DEF FirShape
  <2> HIDE DEF g, L
  <2>7. \A t \in 1 .. n : L[t] \in Int
    BY <2>5, <2>6
  <2>8. Total(g, 0 .. many - 1) = Total(L, 1 .. n)
    <3>1. InSlices(g, L, n, per, many)
      BY <2>4 DEF InSlices
    <3> QED BY <1>1, <1>5, <2>7, <3>1, SlicesTotal
  <2>9. Total(L, 1 .. n) = c.gain * Total(Term(c, i), 1 .. n)
    BY <2>5, <2>6, TotalTimes
  <2>10. Convolution(c, i) = c.gain * Total(Term(c, i), 1 .. n)
    BY <1>3, <1>6, ConvolutionOf DEF n
  <2> QED BY <2>1, <2>8, <2>9, <2>10
<1>13. Exact(c)
  <2>1. DOMAIN c.out = 1 .. a
    BY <1>3 DEF o
  <2> QED BY <1>12, <2>1 DEF Exact
<1> QED BY <1>3, <1>6, <1>10, <1>11, <1>13 DEF FdInv, c

-------------------------------------------------------------------------------
(* fir_direct. The loudest sum of the taps leaves room in a word, for it and   *)
(* for what the products' rounding adds.                                       *)

Loudness(taps) == Total([i \in DOMAIN taps |-> Magnitude(taps[i])], DOMAIN taps)
FirHasRoom == \A taps \in FirFilters :
  2 * (Loudness(taps) * Unit) + (Len(taps) + 1) * FirUnit <= 2 * (FirUnit * MaxInt)

LEMMA FirUnitIs == FirUnit \in Nat \ {0} /\ 2 * FirUnit <= Unit /\ Unit \in Nat \ {0, 1, 2}
BY FixedPointAssumption DEF FirUnit

LEMMA TapIsQuiet ==
  ASSUME NEW taps \in Seq(Int)
  PROVE  /\ IsFiniteSet(1 .. Len(taps)) /\ DOMAIN taps = 1 .. Len(taps) /\ Loudness(taps) \in Nat
         /\ \A i \in 1 .. Len(taps) : Magnitude(taps[i]) \in Nat /\ Magnitude(taps[i]) <= Loudness(taps)
         /\ \A k \in Int : StripeSum(taps, k) \in Nat /\ StripeSum(taps, k) <= Loudness(taps)
<1> DEFINE S == 1 .. Len(taps)
           f == [i \in S |-> Magnitude(taps[i])]
<1>1. IsFiniteSet(S) /\ DOMAIN taps = S
  <2>1. 1 \in Int /\ Len(taps) \in Int
    BY LenProperties
  <2> QED BY <2>1, LenProperties, FS_Interval
<1>2. Loudness(taps) = Total(f, S)
  BY <1>1 DEF Loudness
<1>3. \A i \in S : f[i] = Magnitude(taps[i]) /\ f[i] \in Nat /\ f[i] \in Int
  BY ElementOfSeq DEF Magnitude
<1> HIDE DEF f, S
<1>4. \A A \in SUBSET S : Total(f, A) \in Nat /\ Total(f, A) <= Total(f, S)
  BY <1>1, <1>3, TotalPart
<1>5. ASSUME NEW i \in S PROVE f[i] <= Total(f, S)
  <2>1. Total(f, {}) = 0 /\ \A A \in SUBSET S : \A x \in A : Total(f, A) = Total(f, A \ {x}) + f[x]
    BY <1>1, <1>3, TotalTakes
  <2>2. Total(f, {i}) = Total(f, {i} \ {i}) + f[i] /\ {i} \ {i} = {}
    BY <2>1
  <2>3. Total(f, {i}) = f[i]
    BY <1>3, <2>1, <2>2
  <2> QED BY <1>4, <2>3
<1>6. ASSUME NEW k \in Int PROVE StripeSum(taps, k) \in Nat /\ StripeSum(taps, k) <= Total(f, S)
  <2> DEFINE A == {i \in S : i % Stripes = k}
  <2>1. StripeSum(taps, k) = Total(f, A)
    BY <1>1 DEF StripeSum, f
  <2>2. A \in SUBSET S
    OBVIOUS
  <2> HIDE DEF A
  <2> QED BY <1>4, <2>1, <2>2
<1> QED BY <1>1, <1>2, <1>3, <1>4, <1>5, <1>6 DEF S

\* A filter with that room is never shifted down.
LEMMA ShiftIsUp ==
  ASSUME FirHasRoom, NEW taps \in FirFilters
  PROVE  CoeffShift(taps) \in Nat
<1> DEFINE loud == Loudness(taps)
<1>1. taps \in Seq(Int) /\ Len(taps) \in Nat
  BY BlockFirAssumption, LenProperties
<1>2. 2 * (loud * Unit) + (Len(taps) + 1) * FirUnit <= 2 * (FirUnit * MaxInt) /\ loud \in Nat
  BY <1>1, TapIsQuiet DEF FirHasRoom
<1>0. loud \in Nat /\ DOMAIN taps = 1 .. Len(taps)
  BY <1>1, TapIsQuiet
<1>3. loud <= MaxInt
  <2> HIDE DEF loud
  <2>1. MaxInt \in Nat /\ 2 * FirUnit <= Unit /\ FirUnit \in Nat /\ Unit \in Nat \ {0}
    BY FirUnitIs DEF MaxInt
  <2>2. (Len(taps) + 1) * FirUnit >= 0
    BY <1>1, <2>1
  <2>3. (2 * FirUnit) * MaxInt <= Unit * MaxInt
    BY <2>1, Monotone
  <2>4. 2 * (FirUnit * MaxInt) = (2 * FirUnit) * MaxInt /\ Unit * MaxInt = MaxInt * Unit
    BY <2>1
  <2>5. loud * Unit \in Nat
    BY <1>2, <2>1
  <2>6. loud * Unit <= MaxInt * Unit
    BY <1>1, <1>2, <2>1, <2>2, <2>3, <2>4, <2>5
  <2> SUFFICES ASSUME MaxInt + 1 <= loud PROVE FALSE
    BY <1>2, <2>1
  <2>7. (MaxInt + 1) * Unit <= loud * Unit
    BY <1>2, <2>1, Monotone
  <2>8. (MaxInt + 1) * Unit = MaxInt * Unit + Unit /\ MaxInt * Unit \in Nat
    BY <2>1
  <2> QED BY <2>1, <2>5, <2>6, <2>7, <2>8
<1>4. MaxInt <= Accumulator - 1
  BY FirUnitIs DEF MaxInt, Accumulator
<1>5. FitsVpu(taps, 0)
  <2>1. \A v \in Nat, limit \in Int : v <= limit => AtMost(v, 0, limit)
    BY DEF AtMost
  <2>2. MaxInt \in Int /\ Accumulator - 1 \in Int
    BY FirUnitIs DEF MaxInt, Accumulator
  <2>3. \A i \in DOMAIN taps : Magnitude(taps[i]) \in Nat /\ Magnitude(taps[i]) <= MaxInt
    <3>1. \A i \in 1 .. Len(taps) : Magnitude(taps[i]) \in Nat /\ Magnitude(taps[i]) <= loud
      BY <1>1, TapIsQuiet
    <3> HIDE DEF loud
    <3> QED BY <1>0, <1>3, <2>2, <3>1
  <2>4. \A k \in 0 .. Stripes - 1 : StripeSum(taps, k) \in Nat /\ StripeSum(taps, k) <= Accumulator - 1
    <3> SUFFICES ASSUME NEW k \in 0 .. Stripes - 1
                 PROVE  StripeSum(taps, k) \in Nat /\ StripeSum(taps, k) <= Accumulator - 1
      OBVIOUS
    <3>1. k \in Int
      BY DEF Stripes
    <3>2. StripeSum(taps, k) \in Nat /\ StripeSum(taps, k) <= loud
      BY <1>1, <3>1, TapIsQuiet
    <3> DEFINE x == StripeSum(taps, k)
    <3> HIDE DEF loud, x
    <3>3. x \in Nat /\ x <= loud
      BY <3>2 DEF x
    <3>4. x <= Accumulator - 1
      BY <1>0, <1>3, <1>4, <2>2, <3>3
    <3> QED BY <3>3, <3>4 DEF x
  <2> QED BY <2>1, <2>2, <2>3, <2>4 DEF FitsVpu
<1> DEFINE T == {e \in 0 .. 16 : FitsVpu(taps, 8 - e)}
<1>6. T \in SUBSET Nat /\ 8 \in T
  BY <1>5
<1>7. PICK e \in T : \A d \in T : e <= d
  <2> HIDE DEF T
  <2> QED BY <1>6, LeastOf
<1>8. 8 - e \in FirShifts /\ FitsVpu(taps, 8 - e)
  BY <1>7 DEF FirShifts
<1>9. \A t \in FirShifts : FitsVpu(taps, t) => t <= 8 - e
  <2> SUFFICES ASSUME NEW t \in FirShifts, FitsVpu(taps, t) PROVE t <= 8 - e
    OBVIOUS
  <2>1. 8 - t \in 0 .. 16 /\ 8 - (8 - t) = t
    BY DEF FirShifts
  <2>2. 8 - t \in T
    BY <2>1
  <2>3. e <= 8 - t
    BY <1>7, <2>2
  <2> QED BY <1>7, <2>1, <2>3 DEF FirShifts
<1>10. /\ CoeffShift(taps) \in FirShifts
       /\ \A t \in FirShifts : FitsVpu(taps, t) => t <= CoeffShift(taps)
  <2>1. \E s \in FirShifts : FitsVpu(taps, s) /\ \A t \in FirShifts : FitsVpu(taps, t) => t <= s
    BY <1>8, <1>9
  <2> QED BY <2>1 DEF CoeffShift
<1>11. 0 \in FirShifts
  BY DEF FirShifts
<1>12. 0 <= CoeffShift(taps)
  BY <1>5, <1>10, <1>11
<1> QED BY <1>10, <1>12 DEF FirShifts

DirectFields == {"kind", "taps", "gain", "advance", "shift", "ring", "idx", "heard", "out"}
Slot(i, n) == IF i < n THEN i ELSE i - n

\* A word of rounding for each tap, and one for the shift back.
Close(b) == b.heard # << >> =>
  \A i \in DOMAIN b.out : 2 * Magnitude(b.out[i] * FirUnit - Convolution(b, i)) <= (Len(b.taps) + 1) * FirUnit

DirectInv(b) ==
  /\ b.kind = "direct" /\ DOMAIN b = DirectFields /\ FirShape(b) /\ b.gain = 1 /\ b.advance = 1
  /\ b.taps \in FirFilters /\ b.shift = CoeffShift(b.taps)
  /\ b.idx \in 0 .. Len(b.taps) - 1 /\ DOMAIN b.ring = 0 .. Len(b.taps) - 1
  /\ \A k \in 1 .. Len(b.taps) : b.ring[Slot(b.idx + k, Len(b.taps))] = HeardAt(b.heard, k)
  /\ FirHasRoom => Close(b)

LEMMA DirectStarts == ASSUME NEW taps \in FirFilters PROVE DirectInv(Direct(taps))
<1> DEFINE b == Direct(taps)
<1>1. taps \in Seq(Int) /\ taps # << >>
  BY BlockFirAssumption
<1>2. Len(taps) \in Nat \ {0}
  BY <1>1, LenProperties, EmptySeq
<1>3. /\ b.kind = "direct" /\ DOMAIN b = DirectFields /\ b.taps = taps /\ b.gain = 1 /\ b.advance = 1
      /\ b.shift = CoeffShift(taps) /\ b.ring = [i \in 0 .. Len(taps) - 1 |-> 0] /\ b.idx = Len(taps) - 1
      /\ b.heard = << >> /\ b.out = << >>
  BY DEF Direct, DirectFields
<1> HIDE DEF b
<1>4. FirShape(b) /\ Close(b)
  BY <1>1, <1>3 DEF FirShape, Close
<1>5. ASSUME NEW k \in 1 .. Len(taps)
      PROVE  b.ring[Slot(b.idx + k, Len(taps))] = 0 /\ HeardAt(b.heard, k) = 0
  BY <1>2, <1>3 DEF Slot, HeardAt
<1> QED BY <1>2, <1>3, <1>4, <1>5 DEF DirectInv, b

\* A product of the vector unit is rounded once.
LEMMA VpuRounds ==
  ASSUME NEW x \in Int, NEW y \in Int, NEW q \in Nat \ {0}
  PROVE  VpuMult(x, y, q) \in Int /\ 2 * Magnitude(q * VpuMult(x, y, q) - x * y) <= q
<1> DEFINE v == x * y
           u == v + q \div 2
<1>1. v \in Int /\ q \div 2 \in Nat /\ 2 * (q \div 2) <= q /\ q < 2 * (q \div 2) + 2
  OBVIOUS
<1> HIDE DEF v
<1>2. u \in Int
  BY <1>1
<1>3. u \div q \in Int /\ q * (u \div q) <= u /\ u < q * (u \div q) + q
  <2> HIDE DEF u
  <2> QED BY <1>2, QuotientOf
<1> DEFINE r == u \div q
<1>4. VpuMult(x, y, q) = r
  BY DEF VpuMult, v
<1> HIDE DEF r
<1>5. q * r \in Int /\ q * r <= u /\ u < q * r + q
  BY <1>3 DEF r
<1> DEFINE p == q * r
<1>6. p \in Int /\ p <= u /\ u < p + q
  BY <1>5
<1> HIDE DEF p
<1>7. 2 * Magnitude(p - v) <= q
  BY <1>1, <1>6 DEF Magnitude
<1> QED BY <1>3, <1>4, <1>7 DEF p, v, r

LEMMA NearestRounds ==
  ASSUME NEW v \in Int, NEW d \in Nat \ {0}
  PROVE  Nearest(v, d) \in Int /\ 2 * Magnitude(d * Nearest(v, d) - v) <= d
<1> DEFINE u == 2 * v + d
           e == 2 * d
           r == u \div e
<1>1. u \in Int /\ e \in Nat \ {0}
  OBVIOUS
<1>2. r \in Int /\ e * r <= u /\ u < e * r + e
  <2> HIDE DEF u, e
  <2> QED BY <1>1, QuotientOf
<1>3. Nearest(v, d) = r
  BY DEF Nearest
<1> HIDE DEF r
<1>4. e * r = 2 * (d * r) /\ d * r \in Int
  BY <1>2
<1> DEFINE p == d * r
<1>5. p \in Int /\ 2 * p <= 2 * v + d /\ 2 * v + d < 2 * p + 2 * d
  BY <1>2, <1>4
<1> HIDE DEF p
<1>6. 2 * Magnitude(p - v) <= d
  BY <1>5 DEF Magnitude
<1> QED BY <1>2, <1>3, <1>6 DEF p

\* Rounded tap by tap in a format 2 ^ s finer, and once on the way back.
LEMMA BothRound ==
  ASSUME NEW q \in Nat \ {0}, NEW n \in Nat, NEW d \in Nat \ {0},
         NEW sum \in Int, NEW acc \in Int, NEW r \in Int,
         2 * Magnitude(q * acc - d * sum) <= n * q, 2 * Magnitude(d * r - acc) <= d
  PROVE  2 * Magnitude(r * q - sum) <= (n + 1) * q
<1> DEFINE x == q * acc - d * sum
           y == d * r - acc
           z == r * q - sum
<1>1. x \in Int /\ y \in Int /\ z \in Int /\ q * acc \in Int /\ d * sum \in Int /\ d * r \in Int
  OBVIOUS
<1>2. q * y = q * (d * r) - q * acc
  <2> DEFINE w == d * r
  <2>1. w \in Int
    OBVIOUS
  <2> HIDE DEF w
  <2>2. q * (w - acc) = q * w - q * acc
    BY <2>1
  <2> QED BY <2>2 DEF w
<1>3. q * (d * r) = d * (r * q)
  <2>1. q * (d * r) = (d * r) * q
    OBVIOUS
  <2> QED BY <2>1, TimesInTurn
<1>4. d * z = d * (r * q) - d * sum
  <2> DEFINE w == r * q
  <2>1. w \in Int
    OBVIOUS
  <2> HIDE DEF w
  <2>2. d * (w - sum) = d * w - d * sum
    BY <2>1
  <2> QED BY <2>2 DEF w
<1>5. d * z = q * y + x
  <2> DEFINE t == d * (r * q)
             k == q * y
             e == d * z
             v == q * acc
             g == d * sum
  <2>1. t \in Int /\ k \in Int /\ e \in Int /\ v \in Int /\ g \in Int
    OBVIOUS
  <2>2. k = t - v /\ e = t - g /\ x = v - g
    BY <1>2, <1>3, <1>4
  <2> HIDE DEF t, k, e, v, g, x
  <2>3. e = k + x
    BY <2>1, <2>2
  <2> QED BY <2>3 DEF e, k
<1> HIDE DEF x, y, z
<1>6. 2 * y <= d /\ -d <= 2 * y
  BY <1>1 DEF Magnitude, y
<1>7. 2 * x <= n * q /\ -(n * q) <= 2 * x /\ n * q \in Nat
  BY <1>1 DEF Magnitude, x
<1>8. 2 * (q * y) <= d * q /\ -(d * q) <= 2 * (q * y) /\ q * y \in Int /\ d * q \in Nat
  <2>1. (2 * y) * q <= d * q /\ (-d) * q <= (2 * y) * q
    BY <1>1, <1>6, Monotone
  <2>2. (2 * y) * q = 2 * (q * y) /\ (-d) * q = -(d * q)
    BY <1>1
  <2>3. q * y \in Int /\ d * q \in Nat
    BY <1>1
  <2> QED BY <2>1, <2>2, <2>3
<1>9. n * q <= d * (n * q)
  <2> DEFINE m == n * q
  <2>1. m \in Nat
    BY <1>7
  <2> HIDE DEF m
  <2>2. 1 * m <= d * m
    BY <2>1, Monotone
  <2> QED BY <2>1, <2>2 DEF m
<1> DEFINE B == (n + 1) * q
<1>10. d * B = d * (n * q) + d * q /\ B \in Nat
  <2> DEFINE m == n * q
  <2>1. B = m + q /\ m \in Nat
    BY <1>7
  <2> HIDE DEF m, B
  <2>2. d * (m + q) = d * m + d * q
    BY <2>1
  <2> QED BY <2>1, <2>2 DEF m
<1>11. 2 * (d * z) <= d * B /\ -(d * B) <= 2 * (d * z) /\ d * z \in Int /\ d * B \in Nat
  <2> DEFINE k == q * y
             e == d * z
             m == n * q
             g == d * (n * q)
             h == d * q
             j == d * B
  <2>1. e = k + x /\ 2 * k <= h /\ -h <= 2 * k /\ 2 * x <= m /\ -m <= 2 * x /\ m <= g /\ j = g + h
    BY <1>5, <1>7, <1>8, <1>9, <1>10
  <2>2. e \in Int /\ k \in Int /\ h \in Nat /\ m \in Nat /\ g \in Nat /\ j \in Nat
    <3>1. m \in Nat
      BY <1>7
    <3> HIDE DEF m
    <3>2. d * m \in Nat
      BY <3>1
    <3> QED BY <1>1, <1>8, <1>10, <3>1, <3>2 DEF m
  <2> HIDE DEF k, e, m, g, h, j
  <2>3. 2 * e <= j /\ -j <= 2 * e
    BY <1>1, <2>1, <2>2
  <2> QED BY <2>2, <2>3 DEF e, j
<1> HIDE DEF B
<1>12. 2 * z <= B
  <2> SUFFICES ASSUME B + 1 <= 2 * z PROVE FALSE
    BY <1>1, <1>10
  <2>1. (B + 1) * d <= (2 * z) * d
    BY <1>1, <1>10, Monotone
  <2>2. (B + 1) * d = d * B + d /\ (2 * z) * d = 2 * (d * z)
    BY <1>1, <1>10
  <2> QED BY <1>11, <2>1, <2>2
<1>13. -B <= 2 * z
  <2> SUFFICES ASSUME 2 * z <= -B - 1 PROVE FALSE
    BY <1>1, <1>10
  <2>1. (2 * z) * d <= (-B - 1) * d
    BY <1>1, <1>10, Monotone
  <2>2. (-B - 1) * d = -(d * B) - d /\ (2 * z) * d = 2 * (d * z)
    BY <1>1, <1>10
  <2> QED BY <1>11, <2>1, <2>2
<1> QED BY <1>1, <1>10, <1>12, <1>13 DEF Magnitude, z, B

\* The products of the taps with the ring, from idx on.
RoundTheRing(ring, idx, taps, s, Q) == \A t \in 1 .. Len(taps) :
  Q[t] \in Int /\ Q[t] = VpuMult(ring[Slot(idx + t - 1, Len(taps))], Shifted(taps[t], s), FirUnit)

\* In place of the halves: the ring read from idx round to idx.
LEMMA DirectSumIs ==
  ASSUME NEW taps, Len(taps) \in Nat \ {0}, NEW idx \in 0 .. Len(taps) - 1, NEW ring, NEW s, NEW Q,
         RoundTheRing(ring, idx, taps, s, Q)
  PROVE  DirectSum(ring, idx, taps, s) = Total(Q, 1 .. Len(taps))
<1> DEFINE n == Len(taps)
           product(slot, tap) == VpuMult(ring[slot], Shifted(taps[tap + 1], s), FirUnit)
           P == [t \in 0 .. n - 1 |-> IF t < n - idx THEN product(idx + t, t) ELSE product(t - (n - idx), t)]
           m == [t \in 0 .. n - 1 |-> t + 1]
<1>1. DirectSum(ring, idx, taps, s) = Total(P, 0 .. n - 1)
  BY DEF DirectSum
<1>0. /\ n \in Nat \ {0} /\ idx \in 0 .. n - 1
      /\ \A t \in 1 .. n :
           Q[t] \in Int /\ Q[t] = VpuMult(ring[Slot(idx + t - 1, n)], Shifted(taps[t], s), FirUnit)
  BY DEF RoundTheRing
<1> HIDE DEF n
<1>2. ASSUME NEW t \in 0 .. n - 1 PROVE P[t] = Q[t + 1] /\ Q[t + 1] \in Int /\ m[t] = t + 1
  <2>1. t + 1 \in 1 .. n /\ idx + (t + 1) - 1 = idx + t
    BY <1>0
  <2>2. Slot(idx + t, n) = IF t < n - idx THEN idx + t ELSE t - (n - idx)
    BY <1>0 DEF Slot
  <2>3. P[t] = product(Slot(idx + t, n), t)
    BY <2>2
  <2> HIDE DEF P
  <2>4. P[t] = Q[t + 1]
    BY <1>0, <2>1, <2>3
  <2> QED BY <1>0, <2>1, <2>4
<1>3. m \in Bijection(0 .. n - 1, 1 .. n)
  <2>1. m \in [0 .. n - 1 -> 1 .. n]
    BY <1>0
  <2>2. \A i, j \in 0 .. n - 1 : m[i] = m[j] => i = j
    BY <1>0
  <2>3. \A t \in 1 .. n : \E i \in 0 .. n - 1 : m[i] = t
    <3> SUFFICES ASSUME NEW t \in 1 .. n PROVE \E i \in 0 .. n - 1 : m[i] = t
      OBVIOUS
    <3>1. t - 1 \in 0 .. n - 1 /\ m[t - 1] = t
      BY <1>0
    <3> QED BY <3>1
  <2> HIDE DEF m
  <2> QED BY <2>1, <2>2, <2>3, Zenon DEF Bijection, Injection, Surjection, IsInjective
<1> HIDE DEF P, m
<1>4. \A t \in 0 .. n - 1 : P[t] \in Int /\ Q[m[t]] = P[t]
  BY <1>2
<1>5. IsFiniteSet(0 .. n - 1)
  BY <1>0, FS_Interval
<1> DEFINE A == 0 .. n - 1
           B == 1 .. n
<1>6. Total(P, A) = Total(Q, B)
  <2>1. m \in Bijection(A, B) /\ IsFiniteSet(A) /\ \A t \in A : P[t] \in Int /\ Q[m[t]] = P[t]
    BY <1>3, <1>4, <1>5
  <2> HIDE DEF A, B
  <2> QED BY <2>1, TotalMoved
<1> QED BY <1>1, <1>6 DEF n

Rung(b, r, i, o, f) == Heard([b EXCEPT !.ring = r, !.idx = i, !.out = o], f)

LEMMA RungFields ==
  ASSUME NEW b, DOMAIN b = DirectFields, NEW r, NEW i, NEW o, NEW f
  PROVE  /\ DOMAIN Rung(b, r, i, o, f) = DirectFields
         /\ \A x \in {"kind", "taps", "gain", "advance", "shift"} : Rung(b, r, i, o, f)[x] = b[x]
         /\ Rung(b, r, i, o, f).ring = r /\ Rung(b, r, i, o, f).idx = i /\ Rung(b, r, i, o, f).out = o
         /\ Rung(b, r, i, o, f).heard = Reverse(f) \o b.heard
<1>1. \A x \in DirectFields : x \in DOMAIN b
  OBVIOUS
<1> QED BY <1>1 DEF Heard, Rung, DirectFields

\* The sum that the ring's halves add up to, and the word that is put out.
LEMMA DirectIsClose ==
  ASSUME FirHasRoom, NEW b, FirShape(b), b.gain = 1, b.advance = 1, b.taps \in FirFilters,
         NEW s \in Nat, NEW idx \in 0 .. Len(b.taps) - 1, NEW ring,
         \A t \in 1 .. Len(b.taps) : ring[Slot(idx + t - 1, Len(b.taps))] = HeardAt(b.heard, t),
         NEW out, out = SaturateInt32(ShiftBack(DirectSum(ring, idx, b.taps, s), s))
  PROVE  2 * Magnitude(out * FirUnit - Convolution(b, 1)) <= (Len(b.taps) + 1) * FirUnit
<1> DEFINE n == Len(b.taps)
           N == 1 .. n
           T == Term(b, 1)
           d == 2 ^ s
           G == [t \in N |-> d * T[t]]
           Q == [t \in N |-> VpuMult(HeardAt(b.heard, t), b.taps[t] * d, FirUnit)]
           acc == DirectSum(ring, idx, b.taps, s)
           r == ShiftBack(acc, s)
           conv == Total(T, N)
<1>1. /\ IsFiniteSet(N) /\ Cardinality(N) = n /\ n \in Nat \ {0}
      /\ \A t \in N : b.taps[t] \in Int /\ WordOf(HeardAt(b.heard, t)) /\ T[t] \in Int
                      /\ T[t] = b.taps[t] * HeardAt(b.heard, t)
  <2>1. /\ IsFiniteSet(N) /\ Cardinality(N) = n /\ n \in Nat \ {0}
        /\ \A t \in N : b.taps[t] \in Int /\ WordOf(HeardAt(b.heard, b.advance - 1 + t)) /\ T[t] \in Int
    BY TermIsInt
  <2>2. \A t \in N : b.advance - 1 + t = t
    <3> HIDE DEF n
    <3> QED BY <2>1
  <2>3. \A t \in N : T[t] = b.taps[t] * HeardAt(b.heard, b.advance - 1 + t)
    BY DEF Term
  <2> HIDE DEF N, T, n
  <2> QED BY <2>1, <2>2, <2>3
<1>2. d \in Nat \ {0} /\ FirUnit \in Nat \ {0}
  BY PowersOfTwo, FirUnitIs
<1>3. Convolution(b, 1) = conv /\ conv \in Int
  <2>1. Convolution(b, 1) = 1 * conv
    BY ConvolutionOf
  <2>2. conv \in Int
    <3> HIDE DEF N, T
    <3> QED BY <1>1, TotalTakes
  <2> HIDE DEF conv
  <2> QED BY <2>1, <2>2
<1> HIDE DEF d, T
<1>4. \A t \in N : /\ G[t] = d * T[t] /\ G[t] \in Int /\ Q[t] \in Int
                   /\ 2 * Magnitude(FirUnit * Q[t] - G[t]) <= FirUnit
  <2> SUFFICES ASSUME NEW t \in N
               PROVE  /\ G[t] = d * T[t] /\ G[t] \in Int /\ Q[t] \in Int
                      /\ 2 * Magnitude(FirUnit * Q[t] - G[t]) <= FirUnit
    OBVIOUS
  <2> DEFINE x == HeardAt(b.heard, t)
             y == b.taps[t]
  <2>1. x \in Int /\ y \in Int /\ T[t] = y * x /\ T[t] \in Int
    BY <1>1 DEF WordOf
  <2>2. G[t] = d * T[t] /\ Q[t] = VpuMult(x, y * d, FirUnit)
    OBVIOUS
  <2> HIDE DEF x, y, G, Q
  <2>3. x * (y * d) = d * (y * x)
    <3>1. d * (y * x) = (d * y) * x /\ d * y = y * d /\ (y * d) * x = x * (y * d)
      BY <1>2, <2>1, TimesInTurn
    <3> QED BY <3>1
  <2>4. y * d \in Int /\ d * T[t] \in Int
    BY <1>2, <2>1
  <2>5. VpuMult(x, y * d, FirUnit) \in Int /\ 2 * Magnitude(FirUnit * VpuMult(x, y * d, FirUnit) - x * (y * d)) <= FirUnit
    BY <1>2, <2>1, <2>4, VpuRounds
  <2> QED BY <2>1, <2>2, <2>3, <2>4, <2>5
<1>5. acc = Total(Q, N)
  <2>1. \A t \in N : Shifted(b.taps[t], s) = b.taps[t] * d
    BY DEF Shifted, d
  <2>2. \A t \in N : Q[t] = VpuMult(ring[Slot(idx + t - 1, n)], Shifted(b.taps[t], s), FirUnit)
    BY <2>1
  <2>3. RoundTheRing(ring, idx, b.taps, s, Q)
    <3>1. \A t \in 1 .. n : Q[t] \in Int
      <4> HIDE DEF Q, n
      <4> QED BY <1>4
    <3> HIDE DEF Q
    <3> QED BY <2>2, <3>1 DEF RoundTheRing
  <2>4. Len(b.taps) \in Nat \ {0}
    BY <1>1
  <2> HIDE DEF Q
  <2> QED BY <2>3, <2>4, DirectSumIs
<1> HIDE DEF G, Q, n
<1>6. acc \in Int /\ 2 * Magnitude(FirUnit * acc - d * conv) <= n * FirUnit
  <2> HIDE DEF N
  <2>1. Total(Q, N) \in Int
    BY <1>1, <1>4, TotalTakes
  <2>2. Total(G, N) = d * Total(T, N)
    BY <1>1, <1>2, <1>4, TotalTimes
  <2>3. 2 * Magnitude(FirUnit * Total(Q, N) - Total(G, N)) <= Cardinality(N) * FirUnit
    BY <1>1, <1>2, <1>4, TotalOff
  <2> HIDE DEF acc
  <2> QED BY <1>1, <1>5, <2>1, <2>2, <2>3
<1> HIDE DEF acc, conv
<1>7. r \in Int /\ 2 * Magnitude(d * r - acc) <= d
  <2>1. CASE s > 0
    <3>1. r = Nearest(acc, d)
      BY <2>1 DEF ShiftBack, d
    <3> QED BY <1>2, <1>6, <3>1, NearestRounds
  <2>2. CASE ~ (s > 0)
    <3>1. s = 0 /\ -s = 0
      BY <2>2
    <3>2. d = 1 /\ r = acc * 1
      BY <3>1 DEF ShiftBack, d
    <3>3. r = acc
      BY <1>6, <3>2
    <3> HIDE DEF r
    <3>4. d * r - acc = 0
      BY <1>6, <3>2, <3>3
    <3> QED BY <1>6, <3>2, <3>3, <3>4 DEF Magnitude
  <2> QED BY <2>1, <2>2
<1> HIDE DEF r
<1>8. 2 * Magnitude(r * FirUnit - conv) <= (n + 1) * FirUnit
  BY <1>1, <1>2, <1>3, <1>6, <1>7, BothRound
<1>9. Magnitude(conv) <= Loudness(b.taps) * Unit /\ Loudness(b.taps) \in Nat
  <2> DEFINE L == [t \in N |-> Magnitude(b.taps[t])]
  <2>1. Loudness(b.taps) = Total(L, N) /\ Loudness(b.taps) \in Nat
    <3>1. DOMAIN b.taps = N /\ Loudness(b.taps) \in Nat
      BY TapIsQuiet DEF FirShape, n
    <3> QED BY <3>1 DEF Loudness
  <2>2. Unit \in Nat
    BY FirUnitIs
  <2>3. ASSUME NEW t \in N PROVE T[t] \in Int /\ L[t] \in Nat /\ Magnitude(T[t]) <= L[t] * Unit
    <3> DEFINE x == HeardAt(b.heard, t)
               y == b.taps[t]
               mx == Magnitude(x)
               my == Magnitude(y)
    <3>1. x \in Int /\ y \in Int /\ T[t] = y * x /\ T[t] \in Int /\ Magnitude(x) <= Unit /\ L[t] = my
      BY <1>1 DEF WordOf
    <3> HIDE DEF x, y, L, N
    <3>2. mx \in Nat /\ my \in Nat /\ mx <= Unit
      BY <3>1 DEF Magnitude
    <3>3. Magnitude(y * x) = my * mx
      <4>1. (x < 0 => mx = -x) /\ (~ (x < 0) => mx = x) /\ (y < 0 => my = -y) /\ (~ (y < 0) => my = y)
        BY DEF Magnitude
      <4>2. y * (-x) = -(y * x) /\ (-y) * x = -(y * x) /\ (-y) * (-x) = y * x
        BY <3>1
      <4>3. my * mx \in Nat /\ y * x \in Int
        BY <3>1, <3>2
      <4>4. my * mx = y * x \/ my * mx = -(y * x)
        BY <4>1, <4>2, Zenon
      <4> HIDE DEF mx, my
      <4> QED BY <4>3, <4>4 DEF Magnitude
    <3> HIDE DEF mx, my
    <3>4. mx * my <= Unit * my
      BY <2>2, <3>2, Monotone
    <3>5. mx * my = my * mx /\ Unit * my = my * Unit
      BY <2>2, <3>2
    <3> QED BY <3>1, <3>2, <3>3, <3>4, <3>5
  <2> HIDE DEF L, N
  <2>4. \A t \in N : T[t] \in Int /\ L[t] \in Nat /\ Magnitude(T[t]) <= L[t] * Unit
    BY <2>3
  <2>5. Magnitude(Total(T, N)) <= Total(L, N) * Unit
    BY <1>1, <2>2, <2>4, TotalLoud
  <2> QED BY <2>1, <2>5 DEF conv
<1>10. out = r
  <2> DEFINE loud == Loudness(b.taps) * Unit
             round == (n + 1) * FirUnit
             full == FirUnit * MaxInt
             z == r * FirUnit
  <2>1. 2 * loud + round <= 2 * full
    BY DEF FirHasRoom, n
  <2>2. loud \in Nat /\ round \in Nat /\ full \in Int /\ z \in Int /\ MaxInt \in Nat /\ Unit = MaxInt + 1
    <3>1. Unit \in Nat \ {0}
      BY FirUnitIs
    <3> QED BY <1>1, <1>2, <1>7, <1>9, <3>1 DEF MaxInt
  <2>3. Magnitude(conv) <= loud /\ 2 * Magnitude(z - conv) <= round
    BY <1>8, <1>9
  <2> HIDE DEF loud, round, full, z
  <2>4. z <= full /\ -full <= z
    BY <1>3, <2>1, <2>2, <2>3 DEF Magnitude
  <2>5. r <= MaxInt
    <3> SUFFICES ASSUME MaxInt + 1 <= r PROVE FALSE
      BY <1>7, <2>2
    <3>1. (MaxInt + 1) * FirUnit <= r * FirUnit
      BY <1>2, <1>7, <2>2, Monotone
    <3>2. (MaxInt + 1) * FirUnit = FirUnit * MaxInt + FirUnit
      BY <1>2, <2>2
    <3> QED BY <1>2, <2>2, <2>4, <3>1, <3>2 DEF z, full
  <2>6. -MaxInt <= r
    <3> SUFFICES ASSUME r <= -MaxInt - 1 PROVE FALSE
      BY <1>7, <2>2
    <3>1. r * FirUnit <= (-MaxInt - 1) * FirUnit
      BY <1>2, <1>7, <2>2, Monotone
    <3>2. (-MaxInt - 1) * FirUnit = -(FirUnit * MaxInt) - FirUnit
      BY <1>2, <2>2
    <3> QED BY <1>2, <2>2, <2>4, <3>1, <3>2 DEF z, full
  <2>7. out = SaturateInt32(r)
    BY DEF r, acc
  <2> QED BY <1>7, <2>2, <2>5, <2>6, <2>7 DEF SaturateInt32, Clamp, MinInt
<1> QED BY <1>3, <1>8, <1>10 DEF n

LEMMA DirectKeeps ==
  ASSUME NEW b, DirectInv(b), NEW f \in Frames(b.advance)
  PROVE  DirectInv(Heard(ProcessDirect(b, f), f))
<1> DEFINE n == Len(b.taps)
           h == Reverse(f) \o b.heard
           r == [b.ring EXCEPT ![b.idx] = f[1]]
           next == RingIndex(b, b.idx)
           out == SaturateInt32(ShiftBack(DirectSum(r, b.idx, b.taps, b.shift), b.shift))
           o == <<out>>
           c == Heard(ProcessDirect(b, f), f)
<1>1. n \in Nat \ {0} /\ b.advance = 1 /\ f \in [1 .. 1 -> Word] /\ b.heard \in Seq(Word) /\ b.idx \in 0 .. n - 1
  BY FrameOfWords, LenProperties, EmptySeq DEF DirectInv, FirShape
<1>2. /\ h \in Seq(Word) /\ HeardAt(h, 1) = f[1]
      /\ \A k \in Int : k > 0 => HeardAt(h, 1 + k) = HeardAt(b.heard, k)
  <2>1. /\ h \in Seq(Word) /\ \A i \in 1 .. 1 : HeardAt(h, i) = f[1 + 1 - i]
        /\ \A k \in Int : k > 0 => HeardAt(h, 1 + k) = HeardAt(b.heard, k)
    BY <1>1, HeardNext
  <2> HIDE DEF h
  <2> QED BY <2>1
<1>3. /\ c.kind = "direct" /\ DOMAIN c = DirectFields
      /\ c.taps = b.taps /\ c.gain = b.gain /\ c.advance = b.advance /\ c.shift = b.shift /\ c.heard = h
      /\ c.ring = r /\ c.idx = next /\ c.out = o
  <2>1. DOMAIN b = DirectFields /\ b.kind = "direct"
    BY DEF DirectInv
  <2>2. b.idx = b["idx"] /\ "idx" \in DOMAIN b /\ "ring" \in DOMAIN b
    BY <2>1 DEF DirectFields
  <2>3. c = Rung(b, r, next, o, f)
    BY DEF ProcessDirect, Rung
  <2> HIDE DEF c, r, next, o
  <2>4. /\ DOMAIN c = DirectFields /\ c.ring = r /\ c.idx = next /\ c.out = o /\ c.heard = h
        /\ \A x \in {"kind", "taps", "gain", "advance", "shift"} : c[x] = b[x]
    BY <2>1, <2>3, RungFields
  <2>5. c.kind = b.kind /\ c.taps = b.taps /\ c.gain = b.gain /\ c.advance = b.advance /\ c.shift = b.shift
    BY <2>4
  <2> QED BY <2>1, <2>4, <2>5
<1> HIDE DEF c, h, n
<1>4. FirShape(c)
  BY <1>2, <1>3 DEF DirectInv, FirShape
<1>5. DOMAIN r = 0 .. n - 1 /\ next \in 0 .. n - 1 /\ next = IF b.idx = 0 THEN n - 1 ELSE b.idx - 1
  BY <1>1 DEF DirectInv, RingIndex, n
<1>6. \A t \in 1 .. n : r[Slot(b.idx + t - 1, n)] = HeardAt(h, t)
  <2> SUFFICES ASSUME NEW t \in 1 .. n PROVE r[Slot(b.idx + t - 1, n)] = HeardAt(h, t)
    OBVIOUS
  <2>1. DOMAIN b.ring = 0 .. n - 1
    BY DEF DirectInv, n
  <2>2. CASE t = 1
    <3>1. Slot(b.idx + t - 1, n) = b.idx
      BY <1>1, <2>2 DEF Slot
    <3> QED BY <1>1, <1>2, <2>1, <2>2, <3>1
  <2>3. CASE t # 1
    <3>1. /\ Slot(b.idx + t - 1, n) = Slot(b.idx + (t - 1), n)
          /\ t - 1 \in 1 .. n /\ t - 1 \in Int /\ t - 1 > 0 /\ 1 + (t - 1) = t
          /\ Slot(b.idx + (t - 1), n) # b.idx /\ Slot(b.idx + (t - 1), n) \in 0 .. n - 1
      BY <1>1, <2>3 DEF Slot
    <3>2. b.ring[Slot(b.idx + (t - 1), n)] = HeardAt(b.heard, t - 1)
      BY <3>1 DEF DirectInv, n
    <3>3. HeardAt(h, 1 + (t - 1)) = HeardAt(b.heard, t - 1)
      BY <1>2, <3>1
    <3>4. r[Slot(b.idx + (t - 1), n)] = b.ring[Slot(b.idx + (t - 1), n)]
      BY <2>1, <3>1
    <3> QED BY <3>1, <3>2, <3>3, <3>4
  <2> QED BY <2>2, <2>3
<1> HIDE DEF r, next
<1>7. \A t \in 1 .. n : c.ring[Slot(c.idx + t, n)] = HeardAt(h, t)
  <2> SUFFICES ASSUME NEW t \in 1 .. n PROVE c.ring[Slot(c.idx + t, n)] = HeardAt(h, t)
    OBVIOUS
  <2>1. Slot(next + t, n) = Slot(b.idx + t - 1, n)
    BY <1>1, <1>5 DEF Slot
  <2> QED BY <1>3, <1>6, <2>1
<1>8. ASSUME FirHasRoom PROVE Close(c)
  <2>1. b.taps \in FirFilters /\ b.shift = CoeffShift(b.taps) /\ b.gain = 1
    BY DEF DirectInv
  <2>2. b.shift \in Nat
    BY <1>8, <2>1, ShiftIsUp
  <2>3. out = SaturateInt32(ShiftBack(DirectSum(r, b.idx, c.taps, b.shift), b.shift))
    BY <1>3
  <2> HIDE DEF out
  <2>4. b.idx \in 0 .. Len(c.taps) - 1 /\ c.gain = 1 /\ c.advance = 1 /\ c.taps \in FirFilters
    BY <1>1, <1>3, <2>1 DEF n
  <2>5. \A t \in 1 .. Len(c.taps) : r[Slot(b.idx + t - 1, Len(c.taps))] = HeardAt(c.heard, t)
    BY <1>3, <1>6 DEF n
  <2>6. 2 * Magnitude(out * FirUnit - Convolution(c, 1)) <= (Len(c.taps) + 1) * FirUnit
    BY <1>4, <1>8, <2>2, <2>3, <2>4, <2>5, DirectIsClose
  <2>7. DOMAIN c.out = {1} /\ c.out[1] = out
    BY <1>3
  <2> QED BY <2>6, <2>7 DEF Close
<1>9. c.taps \in FirFilters /\ c.shift = CoeffShift(c.taps) /\ c.gain = 1 /\ c.advance = 1 /\ Len(c.taps) = n
  BY <1>3 DEF DirectInv, n
<1>10. DirectInv(c)
  BY <1>3, <1>4, <1>5, <1>7, <1>8, <1>9 DEF DirectInv
<1> QED BY <1>10 DEF c

-------------------------------------------------------------------------------
\* The FIR stage, whichever filter it is.
FirInv(b) == b.kind = "none" \/ DirectInv(b) \/ TdInv(b) \/ FdInv(b)
FirStageInv == IF stage = "fir" THEN FirInv(fir) ELSE fir.kind = "none"

LEMMA StepFirInv == FirInv(fir) /\ FirNext => FirInv(fir')
<1> SUFFICES ASSUME FirInv(fir), FirNext PROVE FirInv(fir')
  OBVIOUS
<1>1. CASE DirectSample
  <2>1. PICK f \in Frames(fir.advance) : fir' = Heard(ProcessDirect(fir, f), f)
    BY <1>1 DEF DirectSample, FirStep
  <2>2. DirectInv(fir)
    BY <1>1 DEF DirectSample, FirStep, FirInv, TdInv, FdInv
  <2> QED BY <2>1, <2>2, DirectKeeps DEF FirInv
<1>2. CASE TimeDomainFrame
  <2>1. PICK f \in Frames(fir.advance) : fir' = Heard(ProcessTimeDomain(fir, f), f)
    BY <1>2 DEF TimeDomainFrame, FirStep
  <2>2. TdInv(fir)
    BY <1>2 DEF TimeDomainFrame, FirStep, FirInv, DirectInv, FdInv
  <2> QED BY <2>1, <2>2, TdKeeps DEF FirInv
<1>3. CASE FrequencyDomainFrame
  <2>1. PICK f \in Frames(fir.advance) : fir' = Heard(ProcessFrequencyDomain(fir, f), f)
    BY <1>3 DEF FrequencyDomainFrame, FirStep
  <2>2. FdInv(fir)
    BY <1>3 DEF FrequencyDomainFrame, FirStep, FirInv, DirectInv, TdInv
  <2> QED BY <2>1, <2>2, FdKeeps DEF FirInv
<1> QED BY <1>1, <1>2, <1>3 DEF FirNext

LEMMA FirStage == Spec => []FirStageInv
<1>1. Init => FirStageInv
  <2>1. FirInit => FirInv(fir)
    BY DirectStarts, TdStarts, FdStarts DEF FirInit, FirInv
  <2> QED BY <2>1 DEF Init, FirStageInv, Idle
<1>2. FirStageInv /\ [Next]_vars => FirStageInv'
  BY StepFirInv, OnlyOneLives DEF Next, vars, FirStageInv
<1> QED BY <1>1, <1>2, PTL DEF Spec

\* For any filters, frames, overlaps and sizes that were asked for: a block filter
\* puts out the convolution of everything it heard, to the last place, whether
\* the generator cut it in phases or not. (fir_block_td, fir_block_fd)
THEOREM BlockFirExact == Spec => [](stage = "fir" /\ fir.kind # "direct" => FirIsConvolution)
<1>1. FirStageInv => (stage = "fir" /\ fir.kind # "direct" => FirIsConvolution)
  BY DEF FirStageInv, FirInv, DirectInv, TdInv, FdInv, Exact, FirIsConvolution
<1> QED BY <1>1, FirStage, PTL

\* For any filters that leave a word room, and words: every sample any FIR filter
\* puts out is the convolution of all it heard, but for half a unit for each tap
\* and one for the shift. (fir_direct, fir_block_td, fir_block_fd)
THEOREM FirExact == ASSUME FirHasRoom PROVE Spec => []FirIsConvolution
<1>1. FirStageInv => FirIsConvolution
  <2>1. TdInv(fir) \/ FdInv(fir) => fir.kind # "direct" /\ Exact(fir)
    BY DEF TdInv, FdInv
  <2>2. DirectInv(fir) => fir.kind = "direct" /\ Close(fir)
    BY DEF DirectInv
  <2> QED BY <2>1, <2>2 DEF FirStageInv, FirInv, Exact, Close, FirIsConvolution
<1> QED BY <1>1, FirStage, PTL
===============================================================================
