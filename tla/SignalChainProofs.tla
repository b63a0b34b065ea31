--------------------------- MODULE SignalChainProofs ---------------------------
(* The three properties of the signal chain, for any constants.                *)
(*                                                                             *)
(* The delay line settles after every change of its delay, whatever its        *)
(* length. The first sample after a change may be written outside the part of  *)
(* the line now in use, but it brings the index back inside it. From then on   *)
(* the sample heard j samples ago is j cells behind the index, round the part  *)
(* in use (Kept), so the cell at the index holds the one that is due.          *)
(*                                                                             *)
(* The fading switch stays between its two inputs. Its counter is within the   *)
(* fade while it fades (FadeInv), where the fitted cubic is a gain from 0 to 1 *)
(* (CosIsGain): its peak is 0.99985, and the roundings cost less than two      *)
(* steps, which wide words can afford. Then neither product is clamped, and    *)
(* a mean of two samples is between them.                                      *)
(*                                                                             *)
(* A stage that sums gives the clamped exact sum to within a step for each     *)
(* input: clamping before and after the digits are dropped is the same, and    *)
(* an input that is in range by itself is not clamped.                         *)
EXTENDS SignalChain, TLAPS

\* The cells of the line in use, and the cell j behind the index.
Used == Larger(block.delay, 1)
Behind(idx, j, n) == IF j <= idx THEN idx - j ELSE idx - j + n

Cells == 0 .. MaxDelay - 1
Lines == [delay : 0 .. MaxDelay, units : {"samples", "ms", "s"}, idx : Cells, buffer : [Cells -> Word]]

LineTyped ==
  /\ block \in Lines
  /\ input \in Inputs("delay")
  /\ past \in Seq(Word)
  /\ calm \in 0 .. MaxDelay + 2
  /\ calm <= Len(past) \/ MaxDelay < Len(past)
  /\ units \in {"samples", "ms", "s"}

Inside == calm >= 1 => block.idx < Used

Kept == \A j \in 1 .. Used : j < calm => block.buffer[Behind(block.idx, j, Used)] = past[j]

Heard == calm >= Used + 2 => output[1] = past[Used + 1]

IInv == kind = "delay" => LineTyped /\ Inside /\ Kept /\ Heard

-------------------------------------------------------------------------------
\* A delay is cut to the line, in whatever unit it comes.
LEMMA CutDelayTyped ==
  ASSUME NEW time \in Int, NEW u
  PROVE  /\ CutDelay(time, u) \in 0 .. MaxDelay
         /\ CheckTimeUnits(u) \in {"samples", "ms", "s"}
<1>1. SamplesPer(Fs, u) \in Nat
  BY SignalChainAssumption DEF SamplesPer
<1>2. TimeToSamples(Fs, time, u) \in Nat
  BY <1>1 DEF TimeToSamples, Larger
<1> QED BY <1>2, SignalChainAssumption DEF CutDelay, Smaller, CheckTimeUnits

\* A change of the delay starts the count of samples again.
LEMMA ChangeInv ==
  ASSUME IInv, kind = "delay", kind' = kind, block' \in Lines, calm' = 0,
         UNCHANGED <<units, input, past>>
  PROVE  IInv'
<1>1. LineTyped'
  BY SignalChainAssumption DEF IInv, LineTyped, Inputs, NIn
<1>2. Used' \in Nat /\ Used' >= 1
  BY <1>1, SignalChainAssumption DEF LineTyped, Lines, Used, Larger
<1>3. Inside' /\ Heard'
  <2>1. ~(calm' >= 1)
    OBVIOUS
  <2>2. \A n \in Nat : ~(calm' >= n + 2)
    OBVIOUS
  <2> QED BY <1>2, <2>1, <2>2 DEF Inside, Heard
<1>4. Kept'
  BY <1>2 DEF Kept
<1> QED BY <1>1, <1>3, <1>4 DEF IInv

\* A sample through the line.
LEMMA ProcessInv ==
  ASSUME IInv, ProcessDelay
  PROVE  IInv'
<1> USE DEF IInv
<1> DEFINE n == Used
           idx == block.idx
           x == input[1]
           long == <<x>> \o past
           last == Smaller(Len(past), MaxDelay) + 1
<1>1. /\ kind = "delay" /\ kind' = kind
      /\ LineTyped /\ Inside /\ Kept
      /\ output' = <<block.buffer[idx]>>
      /\ block' = [block EXCEPT !.buffer[idx] = x, !.idx = NextIndex(block)]
      /\ past' = SubSeq(long, 1, last)
      /\ calm' = Smaller(calm + 1, MaxDelay + 2)
      /\ input' = input /\ units' = units
  BY DEF ProcessDelay
<1>2. MaxDelay \in Nat \ {0} /\ idx \in Cells /\ block.delay \in 0 .. MaxDelay /\ x \in Word
  <2>1. NIn("delay") = 1
    BY DEF NIn
  <2>2. input \in Seq(Word) /\ Len(input) = 1
    BY <1>1, <2>1, SignalChainAssumption DEF LineTyped, Inputs
  <2>3. x \in Word
    BY <2>2
  <2>4. MaxDelay \in Nat \ {0}
    BY SignalChainAssumption
  <2> HIDE DEF x
  <2> QED BY <1>1, <2>3, <2>4 DEF LineTyped, Lines
<1>3. /\ block'.delay = block.delay /\ block'.units = block.units
      /\ block'.idx = NextIndex(block)
      /\ block'.buffer = [block.buffer EXCEPT ![idx] = x]
      /\ block' \in Lines
  <2>1. block \in Lines
    BY <1>1 DEF LineTyped
  <2>2. NextIndex(block) \in Cells
    BY <1>2 DEF NextIndex, Cells
  <2>3. [block.buffer EXCEPT ![idx] = x] \in [Cells -> Word]
    BY <1>2, <2>1 DEF Lines
  <2> HIDE DEF x
  <2>4. block' = [block EXCEPT !.buffer = [block.buffer EXCEPT ![idx] = x], !.idx = NextIndex(block)]
    BY <1>1, <2>1 DEF Lines
  <2> QED BY <2>1, <2>2, <2>3, <2>4 DEF Lines
<1>4. n \in 1 .. MaxDelay /\ Used' = n
  BY <1>2, <1>3 DEF Used, Larger
<1>5. /\ past' \in Seq(Word) /\ Len(past') = last
      /\ past'[1] = x
      /\ \A j \in 1 .. MaxDelay : j <= Len(past) => past'[j + 1] = past[j]
  <2>1. long \in Seq(Word) /\ Len(long) = Len(past) + 1 /\ Len(past) \in Nat
    BY <1>1, <1>2 DEF LineTyped
  <2>2. long[1] = x /\ \A j \in 1 .. Len(past) : long[j + 1] = past[j]
    BY <1>1, <1>2 DEF LineTyped
  <2>3. last \in 1 .. Len(long)
    BY <1>2, <2>1 DEF Smaller
  <2> HIDE DEF long, last
  <2>4. past' \in Seq(Word) /\ Len(past') = last /\ \A j \in 1 .. last : past'[j] = long[j]
    BY <1>1, <2>1, <2>3
  <2>5. \A j \in 1 .. MaxDelay : j <= Len(past) => j + 1 \in 1 .. last
    BY <1>2, <2>1 DEF last, Smaller
  <2> QED BY <2>1, <2>2, <2>3, <2>4, <2>5
<1>6. calm' \in 0 .. MaxDelay + 2 /\ (calm' <= last \/ MaxDelay < last)
      /\ calm' >= 1 /\ calm' <= calm + 1 /\ calm \in Nat /\ Len(past) \in Nat
  BY <1>1, <1>2 DEF LineTyped, Smaller
<1>7. LineTyped'
  BY <1>1, <1>3, <1>5, <1>6 DEF LineTyped
<1>8. NextIndex(block) \in Cells /\ NextIndex(block) < n
  BY <1>2 DEF NextIndex, Cells, Used, Larger
<1>9. Inside'
  BY <1>3, <1>4, <1>8 DEF Inside
\* Where the cells behind the new index were.
<1>10. ASSUME calm >= 1
       PROVE  /\ Behind(NextIndex(block), 1, n) = idx
              /\ \A j \in 1 .. n - 1 : /\ Behind(NextIndex(block), j + 1, n) = Behind(idx, j, n)
                                       /\ Behind(idx, j, n) # idx /\ Behind(idx, j, n) \in Cells
  <2>1. idx < n
    BY <1>1, <1>10 DEF Inside
  <2> QED BY <1>2, <1>4, <2>1 DEF Behind, NextIndex, Cells, Used, Larger
<1>11. Kept'
  <2> SUFFICES ASSUME NEW j \in 1 .. n, j < calm'
               PROVE  block'.buffer[Behind(NextIndex(block), j, n)] = past'[j]
    BY <1>3, <1>4 DEF Kept
  <2>1. calm >= 1
    BY <1>6
  <2>2. block.buffer \in [Cells -> Word]
    BY <1>1 DEF LineTyped, Lines
  <2>3. CASE j = 1
    BY <1>2, <1>3, <1>5, <1>10, <2>1, <2>2, <2>3
  <2>4. CASE j > 1
    <3> DEFINE i == j - 1
    <3>1. i \in 1 .. n - 1 /\ i \in 1 .. n /\ i < calm /\ i + 1 = j
      BY <1>4, <1>6, <2>4
    <3> HIDE DEF i
    <3>2. block.buffer[Behind(idx, i, n)] = past[i]
      BY <1>1, <3>1 DEF Kept
    <3>3. Behind(NextIndex(block), j, n) = Behind(idx, i, n)
          /\ Behind(idx, i, n) # idx /\ Behind(idx, i, n) \in Cells
      BY <1>10, <2>1, <3>1
    <3>4. i <= Len(past) /\ i \in 1 .. MaxDelay
      BY <1>1, <1>2, <1>4, <1>6, <3>1 DEF LineTyped
    <3>5. past'[j] = past[i]
      BY <1>5, <3>1, <3>4
    <3> QED BY <1>2, <1>3, <2>2, <3>2, <3>3, <3>5
  <2> QED BY <1>4, <2>3, <2>4
<1>12. Heard'
  <2> SUFFICES ASSUME calm' >= n + 2 PROVE output'[1] = past'[n + 1]
    BY <1>4 DEF Heard
  <2>1. n \in 1 .. n /\ n < calm /\ calm >= 1
    BY <1>4, <1>6
  <2>2. Behind(idx, n, n) = idx
    <3>1. idx < n
      BY <1>1, <2>1 DEF Inside
    <3> QED BY <1>2, <1>4, <3>1 DEF Behind, Cells
  <2>3. block.buffer[idx] = past[n]
    BY <1>1, <2>1, <2>2 DEF Kept
  <2>4. n <= Len(past)
    <3>1. Len(past) \in Nat /\ (calm <= Len(past) \/ MaxDelay < Len(past))
      BY <1>1, <1>6 DEF LineTyped
    <3> QED BY <1>2, <1>4, <1>6, <2>1, <3>1
  <2> QED BY <1>1, <1>4, <1>5, <2>3, <2>4
<1> QED BY <1>7, <1>9, <1>11, <1>12

-------------------------------------------------------------------------------
\* A delay in the stage's parameters, and the block made of it.
LEMMA DelayParameter ==
  ASSUME NEW p \in ParameterValues("delay")
  PROVE  p.delay \in Int
<1>1. ParameterValues("delay") = [delay : {d \in Delays : d >= 0}]
  BY DEF ParameterValues, Switches, Crossfaders
<1>2. p \in [delay : {d \in Delays : d >= 0}]
  BY <1>1, Zenon
<1>3. p.delay \in {d \in Delays : d >= 0}
  BY <1>2
<1> QED BY <1>3, SignalChainAssumption

LEMMA NewDelay ==
  ASSUME NEW p, NEW u
  PROVE  NewBlock("delay", p, u) = DelayBlock(p.delay, u)
BY DEF NewBlock, Switches, Crossfaders

LEMMA InitInv == Init => IInv
<1> SUFFICES ASSUME Init, kind = "delay" PROVE LineTyped /\ Inside /\ Kept /\ Heard
  BY DEF IInv
<1>1. parameters.delay \in Int
  <2>1. parameters \in ParameterValues("delay")
    BY DEF Init
  <2> QED BY <2>1, DelayParameter
<1>2. block = DelayBlock(parameters.delay, units) /\ CheckTimeUnits(units) = units
  BY NewDelay DEF Init
<1>3. block \in Lines
  BY <1>1, <1>2, CutDelayTyped, SignalChainAssumption, FixedPointAssumption
     DEF DelayBlock, Lines, Cells, Word, MinInt, MaxInt
<1>4. calm = 0 /\ past = <<>> /\ input \in Inputs("delay")
  BY DEF Init
<1>5. Used \in Nat /\ Used >= 1
  BY <1>3, SignalChainAssumption DEF Lines, Used, Larger
<1>6. units \in {"samples", "ms", "s"}
  BY <1>2 DEF CheckTimeUnits
<1>7. LineTyped
  BY <1>3, <1>4, <1>6, SignalChainAssumption DEF LineTyped
<1>8. Inside /\ Heard
  BY <1>4, <1>5 DEF Inside, Heard
<1>9. Kept
  BY <1>4, <1>5 DEF Kept
<1> QED BY <1>7, <1>8, <1>9

LEMMA NextInv == IInv /\ [Next]_vars => IInv'
<1> SUFFICES ASSUME IInv, [Next]_vars PROVE IInv'
  OBVIOUS
<1>1. CASE kind # "delay" /\ kind' = kind
  BY <1>1 DEF IInv
<1>2. kind' = kind
  BY DEF Next, vars, Feed, SetParameters, Process, ProcessSwitch, ProcessDelay, MakeVolumeControl,
     BlockSetDelay, BlockMoveSwitch, BlockSetStates
<1>3. ASSUME kind = "delay" PROVE IInv'
  <2> USE <1>3
  <2>1. CASE Feed
    BY <2>1 DEF Feed, IInv, LineTyped, Inside, Kept, Heard, Used
  <2>2. CASE SetParameters
    <3>1. PICK p \in ParameterValues("delay") : SetDelay(p)
      BY <2>2 DEF SetParameters, SetMixer, SetFixedGain, SetVolume, SetStates, SetSwitch,
         SetSwitchSlew, SetSwitchStereo, SetCrossfader, SetCrossfaderStereo
    <3>2. p.delay \in Int
      BY DelayParameter
    <3>3. block \in Lines /\ units \in {"samples", "ms", "s"}
      BY DEF IInv, LineTyped
    <3>4. block' \in Lines
      BY <3>1, <3>2, <3>3, CutDelayTyped DEF SetDelay, Lines
    <3> QED BY <2>2, <3>4, ChangeInv DEF SetParameters
  <2>3. ASSUME NEW time \in Delays, NEW u \in Units, BlockSetDelay(time, u) PROVE IInv'
    <3>1. block \in Lines /\ time \in Int
      BY SignalChainAssumption DEF IInv, LineTyped
    <3>2. block' \in Lines
      BY <2>3, <3>1, CutDelayTyped DEF BlockSetDelay, Lines
    <3> QED BY <2>3, <3>2, ChangeInv DEF BlockSetDelay
  <2>4. CASE ProcessDelay
    BY <2>4, ProcessInv
  <2>5. ASSUME NEW position \in Positions, BlockMoveSwitch(position) PROVE IInv'
    BY <2>5 DEF BlockMoveSwitch, Switches
  <2>6. CASE UNCHANGED vars
    BY <2>6 DEF vars, IInv, LineTyped, Inside, Kept, Heard, Used
  <2> QED BY <2>1, <2>2, <2>3, <2>4, <2>5, <2>6
          DEF Next, Process, ProcessSwitch, MakeVolumeControl, BlockSetStates
<1> QED BY <1>1, <1>2, <1>3

\* For a line of any length, fed any samples while its delay is changed in any
\* unit and at any moment: once it is left alone for as long as the delay, every
\* sample comes out exactly that late.
THEOREM DelaySettles == Spec => []DelayedByDelay
<1>1. IInv => DelayedByDelay
  BY DEF IInv, Heard, Used, DelayedByDelay
<1> QED BY <1>1, InitInv, NextInv, PTL DEF Spec

-------------------------------------------------------------------------------
(* Quotients that round down, and clamping.                                    *)

\* A quotient rounded down is the one integer whose multiples enclose the value.
LEMMA Floor ==
  ASSUME NEW v \in Int, NEW d \in Nat \ {0}
  PROVE  /\ v \div d \in Int
         /\ d * (v \div d) <= v
         /\ v < d * (v \div d) + d
BY Z3

LEMMA FloorUnique ==
  ASSUME NEW v \in Int, NEW d \in Nat \ {0}, NEW q \in Int, d * q <= v, v < d * q + d
  PROVE  v \div d = q
<1> DEFINE r == v \div d
<1>1. r \in Int /\ d * r <= v /\ v < d * r + d
  BY Floor
<1> HIDE DEF r
<1>2. d * (q - r) < d /\ d * (r - q) < d
  BY <1>1
<1>3. q - r < 1
  <2> SUFFICES ASSUME q - r >= 1 PROVE FALSE
    BY <1>1
  <2>1. d * (q - r) >= d
    <3> DEFINE e == q - r - 1
    <3>1. e \in Nat /\ d * (q - r) = d * e + d
      BY <1>1
    <3>2. d * e >= 0
      BY <3>1
    <3> QED BY <3>1, <3>2, <1>1
  <2> QED BY <1>1, <1>2, <2>1
<1>4. r - q < 1
  <2> SUFFICES ASSUME r - q >= 1 PROVE FALSE
    BY <1>1
  <2>1. d * (r - q) >= d
    <3> DEFINE e == r - q - 1
    <3>1. e \in Nat /\ d * (r - q) = d * e + d
      BY <1>1
    <3>2. d * e >= 0
      BY <3>1
    <3> QED BY <3>1, <3>2, <1>1
  <2> QED BY <1>1, <1>2, <2>1
<1> QED BY <1>1, <1>3, <1>4 DEF r

\* It grows with the value.
LEMMA FloorMonotone ==
  ASSUME NEW v \in Int, NEW w \in Int, NEW d \in Nat \ {0}, v <= w
  PROVE  v \div d <= w \div d
<1> DEFINE q == v \div d
           r == w \div d
<1>1. q \in Int /\ r \in Int /\ d * q <= v /\ w < d * r + d
  BY Floor
<1> HIDE DEF q, r
<1>2. SUFFICES ASSUME q > r PROVE FALSE
  BY <1>1 DEF q, r
<1>3. q - r - 1 \in Nat /\ d * (q - r - 1) >= 0
  BY <1>1, <1>2
<1>4. d * q = d * (q - r - 1) + d * r + d
  BY <1>1
<1> QED BY <1>1, <1>3, <1>4

\* A value and its divisor may be scaled alike.
LEMMA FloorScales ==
  ASSUME NEW v \in Int, NEW d \in Nat \ {0}, NEW k \in Nat \ {0}
  PROVE  (v * k) \div (k * d) = v \div d
<1> DEFINE q == v \div d
<1>1. q \in Int /\ d * q <= v /\ v < d * q + d
  BY Floor
<1> HIDE DEF q
<1>2. k * (v - d * q) >= 0 /\ k * (d * q + d - v - 1) >= 0
  BY <1>1
<1>3. v * k \in Int /\ k * d \in Nat \ {0} /\ (k * d) * q \in Int
  BY <1>1
<1>4. (k * d) * q <= v * k
  BY <1>1, <1>2
<1>5. v * k < (k * d) * q + k * d
  BY <1>1, <1>2
<1>6. (v * k) \div (k * d) = q
  BY <1>1, <1>3, <1>4, <1>5, FloorUnique
<1> QED BY <1>6 DEF q

\* Rounding to nearest is rounding down, or one more.
LEMMA NearestFloor ==
  ASSUME NEW v \in Int, NEW d \in Nat \ {0}
  PROVE  /\ Nearest(v, d) \in Int
         /\ Nearest(v, d) - v \div d \in {0, 1}
<1> DEFINE q == v \div d
           e == Nearest(v, d)
<1>1. q \in Int /\ d * q <= v /\ v < d * q + d
  BY Floor
<1>2. e \in Int /\ (2 * d) * e <= 2 * v + d /\ 2 * v + d < (2 * d) * e + 2 * d
  <2>1. 2 * v + d \in Int /\ 2 * d \in Nat \ {0}
    OBVIOUS
  <2> QED BY <2>1, Floor DEF Nearest
<1> HIDE DEF q, e
<1>3. d * (e - q) > -d /\ d * (e - q) < 2 * d
  BY <1>1, <1>2
<1>4. e - q >= 0
  <2> SUFFICES ASSUME e - q <= -1 PROVE FALSE
    BY <1>1, <1>2
  <2>1. d * (q - e - 1) >= 0
    BY <1>1, <1>2
  <2> QED BY <1>1, <1>2, <1>3, <2>1
<1>5. e - q <= 1
  <2> SUFFICES ASSUME e - q >= 2 PROVE FALSE
    BY <1>1, <1>2
  <2>1. d * (e - q - 2) >= 0
    BY <1>1, <1>2
  <2> QED BY <1>1, <1>2, <1>3, <2>1
<1>6. e \in Int /\ e - q \in {0, 1}
  BY <1>1, <1>2, <1>4, <1>5
<1> QED BY <1>6, Zenon DEF q, e

\* Clamping before dropping digits and after is the same.
LEMMA ClampedFloor ==
  ASSUME NEW v \in Int, NEW d \in Nat \ {0}
  PROVE  MultSatExtract(v, 1, d) = SaturateInt32(v \div d)
<1> DEFINE q == v \div d
           m == v * 1
<1>1. q \in Int /\ d * q <= v /\ v < d * q + d
  BY Floor
<1>2. Unit \in Nat /\ m = v /\ MinInt = -Unit /\ MaxInt = Unit - 1
  BY FixedPointAssumption DEF MinInt, MaxInt
<1>3. MultSatExtract(v, 1, d) = Clamp(v, -Unit * d, Unit * d - 1) \div d
  BY <1>2 DEF MultSatExtract
<1>4. SaturateInt32(q) = Clamp(q, -Unit, Unit - 1)
  BY <1>2 DEF SaturateInt32
<1> HIDE DEF q, m
<1>5. CASE v < -Unit * d
  <2>1. Clamp(v, -Unit * d, Unit * d - 1) = -Unit * d
    BY <1>5 DEF Clamp
  <2>2. (-Unit * d) \div d = -Unit
    BY <1>2, FloorUnique
  <2>3. d * (q + Unit) < 0
    BY <1>1, <1>2, <1>5
  <2>4. q < -Unit
    <3> SUFFICES ASSUME q + Unit >= 0 PROVE FALSE
      BY <1>1, <1>2
    <3>1. d * (q + Unit) >= 0
      BY <1>1, <1>2
    <3> QED BY <1>1, <1>2, <2>3, <3>1
  <2> QED BY <1>1, <1>2, <1>3, <1>4, <2>1, <2>2, <2>4 DEF Clamp, q
<1>6. CASE v > Unit * d - 1
  <2>1. v >= -Unit * d
    <3>1. Unit * d \in Nat
      BY <1>2
    <3> QED BY <1>6, <3>1
  <2>2. Clamp(v, -Unit * d, Unit * d - 1) = Unit * d - 1
    <3> DEFINE cap == Unit * d
    <3>1. cap \in Int /\ v >= -cap /\ v > cap - 1
      BY <1>2, <1>6, <2>1
    <3> HIDE DEF cap
    <3>2. Clamp(v, -cap, cap - 1) = cap - 1
      BY <3>1 DEF Clamp
    <3> QED BY <3>2 DEF cap
  <2>3. (Unit * d - 1) \div d = Unit - 1
    <3>1. Unit * d - 1 \in Int /\ Unit - 1 \in Int
          /\ d * (Unit - 1) <= Unit * d - 1 /\ Unit * d - 1 < d * (Unit - 1) + d
      BY <1>2
    <3> QED BY <3>1, FloorUnique
  <2>4. q >= Unit
    <3> SUFFICES ASSUME Unit - 1 - q >= 0 PROVE FALSE
      BY <1>1, <1>2
    <3>1. d * (Unit - 1 - q) >= 0
      BY <1>1, <1>2
    <3> QED BY <1>1, <1>2, <1>6, <3>1
  <2> QED BY <1>1, <1>2, <1>3, <1>4, <2>2, <2>3, <2>4 DEF Clamp, q
<1>7. CASE v >= -Unit * d /\ v <= Unit * d - 1
  <2>1. Clamp(v, -Unit * d, Unit * d - 1) = v
    BY <1>7, <1>2 DEF Clamp
  <2>2. q >= -Unit
    <3> SUFFICES ASSUME -Unit - 1 - q >= 0 PROVE FALSE
      BY <1>1, <1>2
    <3>1. d * (-Unit - 1 - q) >= 0
      BY <1>1, <1>2
    <3> QED BY <1>1, <1>2, <1>7, <3>1
  <2>3. q <= Unit - 1
    <3> SUFFICES ASSUME q - Unit >= 0 PROVE FALSE
      BY <1>1, <1>2
    <3>1. d * (q - Unit) >= 0
      BY <1>1, <1>2
    <3> QED BY <1>1, <1>2, <1>7, <3>1
  <2> QED BY <1>1, <1>2, <1>3, <1>4, <2>1, <2>2, <2>3 DEF Clamp, q
<1>8. -Unit * d \in Int /\ Unit * d \in Int
  BY <1>2
<1> QED BY <1>5, <1>6, <1>7, <1>8

\* Clamping brings nothing further apart.
LEMMA ClampNear ==
  ASSUME NEW v \in Int, NEW w \in Int, NEW n \in Nat, Magnitude(v - w) <= n
  PROVE  Magnitude(SaturateInt32(v) - SaturateInt32(w)) <= n
BY FixedPointAssumption DEF Magnitude, SaturateInt32, Clamp, MinInt, MaxInt

-------------------------------------------------------------------------------
(* The fade.                                                                   *)

\* A common factor above zero may be dropped.
LEMMA Cancel ==
  ASSUME NEW d \in Nat \ {0}, NEW a \in Int, NEW b \in Int, d * a <= d * b
  PROVE  a <= b
<1> SUFFICES ASSUME a - b - 1 >= 0 PROVE FALSE
  OBVIOUS
<1>1. d * (a - b - 1) >= 0
  OBVIOUS
<1> QED BY <1>1

\* The fitted cubic stays below 1: its peak is where three times the smaller
\* coefficient takes the square of 0.9924 to the larger one.
LEMMA CubicPeak ==
  ASSUME NEW x \in Nat, NEW h \in Nat
  PROVE  15625000000 * (15112 * (h * h * x) - 5115 * (x * x * x)) <= 156226940057430 * (h * h * h)
<1> DEFINE r == 2500 * x - 2481 * h
           s == 2500 * x + 4962 * h
           Q == h * h * x
           K == x * x * x
           H == h * h * h
<1>1. r \in Int /\ s \in Nat
  OBVIOUS
<1>2. r * r \in Nat
  <2> HIDE DEF r
  <2> QED BY <1>1
<1>3. (r * r) * s >= 0
  <2> DEFINE rr == r * r
  <2> HIDE DEF r, s
  <2>1. rr \in Nat
    BY <1>2
  <2> HIDE DEF rr
  <2>2. rr * s >= 0
    BY <1>1, <2>1
  <2> QED BY <2>2 DEF rr
<1>4. (r * r) * s = 15625000000 * K - 46165207500 * Q + 30542901282 * H
  OBVIOUS
<1>5. Q \in Nat /\ K \in Nat /\ H \in Nat
  <2>1. h * h \in Nat /\ x * x \in Nat
    OBVIOUS
  <2> QED BY <2>1
<1> HIDE DEF r, s, Q, K, H
<1>6. 15625000000 * K - 46165207500 * Q + 30542901282 * H >= 0
  BY <1>3, <1>4
<1>7. 15625000000 * (15112 * Q - 5115 * K) <= 156226940057430 * H
  BY <1>5, <1>6
<1> QED BY <1>7 DEF Q, K, H

\* The polynomial with every rounding of the code, on a counter x of at most h:
\* A and B are its coefficients, S the square, T what the cubic term adds to the slope.
LEMMA FitBounded ==
  ASSUME NEW h \in Nat, 16384 <= h, NEW x \in 0 .. h,
         NEW A \in Nat, NEW B \in Nat, NEW S \in Nat, NEW T \in Nat,
         10000 * A <= 15112 * h, 5115 * h <= 10000 * B, 10000 * B <= 5115 * h + 10000,
         h * S <= x * x, x * x < h * S + h, h * T <= S * B, S * B < h * T + h
  PROVE  x * (A - T) <= h * h
<1> DEFINE D == A - T
           hh == h * h
<1>1. hh \in Nat /\ x \in Nat /\ D \in Int /\ h \in Nat \ {0}
  OBVIOUS
\* Both roundings cost less than one step each.
<1>2. h * D <= h * A - S * B + h
  OBVIOUS
<1>3. hh * D <= hh * A - (x * x) * B + h * B + hh
  <2>1. h * (h * A - S * B + h - h * D) >= 0
    <3> DEFINE e == h * A - S * B + h - h * D
    <3>1. e \in Nat
      BY <1>1, <1>2
    <3> HIDE DEF e
    <3>2. h * e >= 0
      BY <3>1
    <3> QED BY <3>2 DEF e
  <2>2. (h * S + h - x * x) * B >= 0
    <3> DEFINE e == h * S + h - x * x
    <3>1. e \in Nat
      BY <1>1
    <3> HIDE DEF e
    <3>2. e * B >= 0
      BY <3>1
    <3> QED BY <3>2 DEF e
  <2>3. hh * D = h * (h * D) /\ h * (h * A - S * B + h - h * D) = hh * A - (h * S) * B + hh - hh * D
    BY <1>1
  <2>4. (h * S + h - x * x) * B = (h * S) * B + h * B - (x * x) * B
    BY <1>1
  <2> QED BY <1>1, <2>1, <2>2, <2>3, <2>4
<1> DEFINE E == hh * A - (x * x) * B + h * B + hh - hh * D
<1>4. x * E >= 0
  <2>1. E \in Nat
    BY <1>1, <1>3
  <2> HIDE DEF E
  <2> QED BY <1>1, <2>1
<1> DEFINE G == h * (15112 * (h * h * x) - 5115 * (x * x * x) + 15115 * (h * x) + 10000 * x)
<1>5. 10000 * (x * (E + hh * D)) <= G
  <2>1. (x * hh) * (15112 * h - 10000 * A) >= 0
    <3>1. x * hh \in Nat /\ 15112 * h - 10000 * A \in Nat
      BY <1>1
    <3> QED BY <3>1
  <2>2. (x * x * x) * (10000 * B - 5115 * h) >= 0
    <3>1. x * x * x \in Nat /\ 10000 * B - 5115 * h \in Nat
      BY <1>1
    <3> QED BY <3>1
  <2>3. (x * h) * (5115 * h + 10000 - 10000 * B) >= 0
    <3>1. x * h \in Nat /\ 5115 * h + 10000 - 10000 * B \in Nat
      BY <1>1
    <3> QED BY <3>1
  <2>4. G - 10000 * (x * (E + hh * D))
          = (x * hh) * (15112 * h - 10000 * A) + (x * x * x) * (10000 * B - 5115 * h)
            + (x * h) * (5115 * h + 10000 - 10000 * B)
    BY <1>1
  <2> QED BY <1>1, <2>1, <2>2, <2>3, <2>4
<1>6. h * (10000 * (h * (x * D))) <= G
  <2>1. h * (10000 * (h * (x * D))) = 10000 * (x * (E + hh * D)) - 10000 * (x * E)
    BY <1>1
  <2> QED BY <1>1, <1>4, <1>5, <2>1
<1> DEFINE L == 10000 * (h * (x * D))
           M == 15112 * (h * h * x) - 5115 * (x * x * x) + 15115 * (h * x) + 10000 * x
           H == h * hh
<1>7. L <= M
  <2>1. L \in Int /\ M \in Int
    BY <1>1
  <2> HIDE DEF L
  <2> HIDE DEF M
  <2>2. h * L <= h * M
    BY <1>6 DEF L, M
  <2> QED BY <1>1, <2>1, <2>2, Cancel
<1>8. M <= 10000 * H
  <2> DEFINE F == 15112 * (h * h * x) - 5115 * (x * x * x)
             hx == h * x
  <2>1. 15625000000 * F <= 156226940057430 * H
    BY <1>1, CubicPeak
  <2>2. hx <= hh
    <3>1. h * (h - x) >= 0
      BY <1>1
    <3> QED BY <1>1, <3>1
  <2>3. 16384 * hh <= H /\ x <= hh
    <3>1. (h - 16384) * hh >= 0
      BY <1>1
    <3>2. h <= hh
      BY <1>1
    <3> QED BY <1>1, <3>1, <3>2
  <2>4. F \in Int /\ hx \in Int /\ H \in Nat
    BY <1>1
  <2>5. M = F + 15115 * hx + 10000 * x
    OBVIOUS
  <2>6. h <= hh /\ 16384 * h <= hh
    BY <1>1
  <2> HIDE DEF F, hx, H, M, hh
  <2> QED BY <1>1, <2>1, <2>2, <2>3, <2>4, <2>5, <2>6
<1>9. h * (x * D) <= h * hh
  <2> DEFINE y == h * (x * D)
             z == h * hh
  <2>1. y \in Int /\ z \in Int
    BY <1>1
  <2>2. 10000 * y <= M /\ M <= 10000 * z /\ M \in Int
    BY <1>1, <1>7, <1>8
  <2> HIDE DEF y, z, M
  <2> QED BY <2>1, <2>2 DEF y, z
<1>10. x * D <= hh
  <2>1. x * D \in Int
    BY <1>1
  <2> QED BY <1>1, <1>9, <2>1, Cancel
<1> QED BY <1>10

\* So the gain of the fade is one: never below zero, never above 1.
LEMMA CosIsGain ==
  ASSUME 32768 <= Unit, NEW c \in Int, -(Unit \div 2) <= c, c <= Unit \div 2
  PROVE  CosApprox(c) \in 0 .. Unit
<1> DEFINE h == Unit \div 2
           A == (15112 * h) \div 10000
           B == 1 + (5115 * h) \div 10000
           S == (c * c) \div h
           T == (S * B) \div h
           D == A - T
           g == (c * (T - A)) \div h
           x == Magnitude(c)
<1>1. h \in Nat /\ 16384 <= h /\ 2 * h <= Unit /\ Unit \in Nat
  BY FixedPointAssumption
<1>2. CosApprox(c) = g + h
  BY DEF CosApprox
<1>3. x \in 0 .. h /\ x * x = c * c /\ (c = x \/ c = -x) /\ c * c \in Nat
  <2>1. -h <= c /\ c <= h /\ h \in Nat
    BY <1>1
  <2> HIDE DEF h
  <2> QED BY <2>1 DEF Magnitude
<1> HIDE DEF h
<1>4. A \in Nat /\ 10000 * A <= 15112 * h /\ 15112 * h < 10000 * A + 10000
  BY <1>1
<1>5. B \in Nat /\ 5115 * h <= 10000 * B /\ 10000 * B <= 5115 * h + 10000
  BY <1>1
<1>6. S \in Nat /\ h * S <= x * x /\ x * x < h * S + h
  <2> DEFINE v == c * c
  <2>1. v \in Nat /\ v = x * x /\ h \in Nat \ {0} /\ S = v \div h
    BY <1>1, <1>3
  <2> HIDE DEF v, x, S, A, B
  <2>2. v \div h \in Int /\ h * (v \div h) <= v /\ v < h * (v \div h) + h
    BY <2>1, Floor
  <2>3. v \div h \in Nat
    <3>1. 0 \div h <= v \div h /\ 0 \div h = 0
      BY <2>1, FloorMonotone, FloorUnique
    <3> QED BY <2>2, <3>1
  <2> QED BY <2>1, <2>2, <2>3
<1> HIDE DEF A, B, S, x
<1>7. T \in Nat /\ h * T <= S * B /\ S * B < h * T + h
  <2> DEFINE v == S * B
  <2>1. v \in Nat /\ h \in Nat \ {0}
    BY <1>1, <1>5, <1>6
  <2> HIDE DEF v
  <2>2. v \div h \in Int /\ h * (v \div h) <= v /\ v < h * (v \div h) + h
    BY <2>1, Floor
  <2>3. v \div h \in Nat
    <3>1. 0 \div h <= v \div h /\ 0 \div h = 0
      BY <2>1, FloorMonotone, FloorUnique
    <3> QED BY <2>2, <3>1
  <2> QED BY <2>1, <2>2, <2>3 DEF v
<1> HIDE DEF T
<1>8. x * D <= h * h
  BY <1>1, <1>3, <1>4, <1>5, <1>6, <1>7, FitBounded
\* The slope is downwards all the way.
<1>9. D >= 0
  <2>1. S <= h
    <3>1. x * x <= h * h
      <4>1. (h - x) * (h + x) >= 0
        <5>1. h - x \in Nat /\ h + x \in Nat
          BY <1>1, <1>3
        <5> QED BY <5>1
      <4> QED BY <1>1, <1>3, <4>1
    <3>2. h * S <= h * h
      BY <1>1, <1>3, <1>6, <3>1
    <3> QED BY <1>1, <1>6, <3>2, Cancel
  <2>2. T <= B
    <3>1. (h - S) * B >= 0
      BY <1>1, <1>5, <1>6, <2>1
    <3>2. h * T <= h * B
      BY <1>1, <1>5, <1>6, <1>7, <3>1
    <3> QED BY <1>1, <1>5, <1>7, <3>2, Cancel
  <2>3. B <= A
    BY <1>1, <1>4, <1>5
  <2> QED BY <1>4, <1>5, <1>7, <2>2, <2>3
<1>10. -(h * h) <= c * (T - A) /\ c * (T - A) <= h * h
  <2>1. x * D >= 0
    BY <1>3, <1>4, <1>7, <1>9
  <2>2. c * (T - A) = x * D \/ c * (T - A) = -(x * D)
    <3>1. CASE c = x
      <4>1. x * (T - A) = -(x * D)
        BY <1>3, <1>4, <1>7
      <4> QED BY <3>1, <4>1
    <3>2. CASE c = -x
      <4>1. (-x) * (T - A) = x * D
        BY <1>3, <1>4, <1>7
      <4> QED BY <3>2, <4>1
    <3> QED BY <1>3, <3>1, <3>2
  <2>3. x * D \in Int /\ h * h \in Int
    BY <1>1, <1>3, <1>4, <1>7
  <2> DEFINE y == x * D
             z == c * (T - A)
             hh == h * h
  <2> HIDE DEF y, z, hh
  <2>4. y >= 0 /\ (z = y \/ z = -y) /\ y \in Int /\ hh \in Int /\ y <= hh
    BY <1>8, <2>1, <2>2, <2>3 DEF y, z, hh
  <2>5. -hh <= z /\ z <= hh
    BY <2>4
  <2> QED BY <2>5 DEF z, hh
<1>11. g \in -h .. h
  <2> DEFINE z == c * (T - A)
             hh == h * h
  <2>1. z \in Int /\ hh \in Int /\ -hh <= z /\ z <= hh /\ h \in Nat \ {0}
    BY <1>1, <1>4, <1>7, <1>10
  <2>2. hh \div h = h /\ (-hh) \div h = -h
    <3>1. h * h <= hh /\ hh < h * h + h /\ h * (-h) <= -hh /\ -hh < h * (-h) + h /\ -h \in Int /\ -hh \in Int
      BY <1>1
    <3> HIDE DEF hh, z
    <3>2. hh \div h = h
      BY <2>1, <3>1, FloorUnique
    <3>3. (-hh) \div h = -h
      BY <2>1, <3>1, FloorUnique
    <3> QED BY <3>2, <3>3
  <2> HIDE DEF z, hh
  <2>3. z \div h \in Int /\ (-hh) \div h <= z \div h /\ z \div h <= hh \div h
    BY <2>1, FloorMonotone, Floor
  <2>4. z \div h \in -h .. h
    BY <1>1, <2>2, <2>3
  <2> QED BY <2>4 DEF z
<1> HIDE DEF g
<1> QED BY <1>1, <1>2, <1>11

\* The fading switch: its positions are inputs, and while it fades its counter is
\* within the fade, whenever it was moved.
Slewing == [position : 0 .. 2, last : 0 .. 2, switching : BOOLEAN, counter : Int]
WithinFade == -(Unit \div 2) .. Unit \div 2

FadeInv ==
  /\ input \in Inputs(kind)
  /\ kind = "switch_slew" =>
       /\ block \in Slewing
       /\ block.switching => block.counter \in WithinFade

\* The samples a stage is fed.
LEMMA InputTyped ==
  ASSUME input \in Inputs(kind)
  PROVE  input \in Seq(Word) /\ Len(input) = NIn(kind) /\ \A i \in 1 .. NIn(kind) : input[i] \in Word /\ input[i] \in Int
<1>1. input \in Seq(Word) /\ Len(input) = NIn(kind)
  BY SignalChainAssumption DEF Inputs
<1>2. \A i \in 1 .. Len(input) : input[i] \in Word
  BY <1>1
<1>3. Word \subseteq Int
  BY FixedPointAssumption DEF Word, MinInt, MaxInt
<1> QED BY <1>1, <1>2, <1>3

\* A move, from wherever and to wherever, in range or not.
LEMMA MoveFades ==
  ASSUME FadeInv, kind = "switch_slew", NEW position,
         kind' = kind, input' = input, block' = MoveSwitch(kind, block, position)
  PROVE  FadeInv'
<1>1. block \in Slewing /\ (block.switching => block.counter \in WithinFade)
  BY DEF FadeInv
<1>2. NIn(kind) = 3
  BY DEF NIn
<1>3. -(Unit \div 2) \in WithinFade
  BY FixedPointAssumption DEF WithinFade
<1>4. CASE position \notin 0 .. 2
  BY <1>1, <1>2, <1>4 DEF FadeInv, MoveSwitch, InRange, Inputs
<1>5. CASE position \in 0 .. 2 /\ position # block.position
  <2>1. block' = [position |-> position, last |-> block.position, switching |-> TRUE, counter |-> -(Unit \div 2)]
    BY <1>2, <1>5 DEF MoveSwitch, InRange
  <2>2. -(Unit \div 2) \in Int
    BY FixedPointAssumption
  <2> DEFINE start == -(Unit \div 2)
  <2>3. start \in Int /\ start \in WithinFade /\ block.position \in 0 .. 2
    BY <1>1, <1>3, <2>2 DEF Slewing
  <2> HIDE DEF start
  <2>4. block' = [position |-> position, last |-> block.position, switching |-> TRUE, counter |-> start]
    BY <2>1 DEF start
  <2>5. block' \in Slewing /\ block'.counter \in WithinFade
    <3> DEFINE from == block.position
               moved == [position |-> position, last |-> from, switching |-> TRUE, counter |-> start]
    <3>1. from \in 0 .. 2
      BY <2>3
    <3> HIDE DEF from
    <3>2. moved \in Slewing /\ moved.counter = start
      BY <1>5, <2>3, <3>1 DEF Slewing
    <3> QED BY <2>3, <2>4, <3>2 DEF from
  <2> QED BY <2>5 DEF FadeInv, Inputs
<1>6. CASE position \in 0 .. 2 /\ position = block.position
  <2>1. block' = [block EXCEPT !.position = position]
    BY <1>2, <1>6 DEF MoveSwitch, InRange
  <2>2. block' = block
    BY <1>1, <1>6, <2>1 DEF Slewing
  <2> QED BY <2>2 DEF FadeInv, Inputs
<1> QED BY <1>4, <1>5, <1>6

\* It holds of a new block ...
LEMMA FadeInit == Init => FadeInv
<1> SUFFICES ASSUME Init PROVE FadeInv
  OBVIOUS
<1>1. input \in Inputs(kind)
  BY DEF Init
<1>2. ASSUME kind = "switch_slew"
      PROVE  block = [position |-> 0, last |-> 0, switching |-> FALSE, counter |-> -(Unit \div 2)]
  <2>1. block = NewBlock("switch_slew", parameters, units)
    BY <1>2 DEF Init
  <2>2. NewBlock("switch_slew", parameters, units) = SwitchBlock("switch_slew")
    BY DEF NewBlock, Switches, Crossfaders
  <2> QED BY <2>1, <2>2 DEF SwitchBlock
<1>3. -(Unit \div 2) \in Int
  BY FixedPointAssumption
<1> DEFINE start == -(Unit \div 2)
<1> HIDE DEF start
<1>4. start \in Int /\ (kind = "switch_slew" =>
        block = [position |-> 0, last |-> 0, switching |-> FALSE, counter |-> start])
  BY <1>2, <1>3 DEF start
<1>5. kind = "switch_slew" => block \in Slewing /\ ~block.switching
  <2> DEFINE still == [position |-> 0, last |-> 0, switching |-> FALSE, counter |-> start]
  <2>1. still \in Slewing
    BY <1>4 DEF Slewing
  <2>2. ~still.switching
    OBVIOUS
  <2> QED BY <1>4, <2>1, <2>2
<1> QED BY <1>1, <1>5 DEF FadeInv

\* ... after a sample ...
LEMMA FadeStep ==
  ASSUME FadeInv, ProcessSwitch
  PROVE  FadeInv'
<1>1. CASE kind # "switch_slew"
  BY <1>1 DEF FadeInv, ProcessSwitch, Inputs
<1>2. CASE kind = "switch_slew" /\ ~block.switching
  BY <1>2 DEF FadeInv, ProcessSwitch, Inputs
<1>3. CASE kind = "switch_slew" /\ block.switching
  <2> DEFINE next == block.counter + SlewStep
  <2>1. block' = [block EXCEPT !.counter = next, !.switching = StillFading(next)]
        /\ kind' = kind /\ input' = input
    BY <1>3 DEF ProcessSwitch
  <2>2. block \in Slewing /\ block.counter \in WithinFade
    BY <1>3 DEF FadeInv
  <2>3. next \in Int /\ StillFading(next) \in BOOLEAN /\ (StillFading(next) => next \in WithinFade)
    BY <2>2, SignalChainAssumption, FixedPointAssumption DEF StillFading, WithinFade
  <2> HIDE DEF next
  <2>4. block' \in Slewing /\ block'.counter = next /\ block'.switching = StillFading(next)
    BY <2>1, <2>2, <2>3 DEF Slewing
  <2> QED BY <2>1, <2>3, <2>4 DEF FadeInv, Inputs
<1> QED BY <1>1, <1>2, <1>3

\* ... and after any step.
LEMMA FadeNext == FadeInv /\ [Next]_vars => FadeInv'
<1> SUFFICES ASSUME FadeInv, [Next]_vars PROVE FadeInv'
  OBVIOUS
<1>1. CASE Feed
  BY <1>1 DEF Feed, FadeInv, Inputs
<1>2. CASE SetParameters
  <2>1. PICK p \in ParameterValues(kind) :
          SetMixer(p) \/ SetFixedGain(p) \/ SetVolume(p) \/ SetDelay(p) \/ SetStates(p)
          \/ SetSwitch(p) \/ SetSwitchSlew(p) \/ SetSwitchStereo(p)
          \/ SetCrossfader(p) \/ SetCrossfaderStereo(p)
    BY <1>2 DEF SetParameters
  <2>2. kind' = kind /\ input' = input
    BY <1>2 DEF SetParameters
  <2>3. CASE kind = "switch_slew"
    <3>1. block' = MoveSwitch(kind, block, p.position)
      BY <2>1, <2>3 DEF SetMixer, SetFixedGain, SetVolume, SetDelay, SetStates, SetSwitch,
         SetSwitchSlew, SetSwitchStereo, SetCrossfader, SetCrossfaderStereo
    <3> QED BY <2>2, <2>3, <3>1, MoveFades
  <2>4. CASE kind # "switch_slew"
    BY <2>2, <2>4 DEF FadeInv, Inputs
  <2> QED BY <2>3, <2>4
<1>3. CASE ProcessSwitch
  BY <1>3, FadeStep
<1>4. ASSUME NEW position \in Positions, BlockMoveSwitch(position) PROVE FadeInv'
  <2>1. block' = MoveSwitch(kind, block, position) /\ kind' = kind /\ input' = input
    BY <1>4 DEF BlockMoveSwitch
  <2>2. CASE kind = "switch_slew"
    BY <2>1, <2>2, MoveFades
  <2>3. CASE kind # "switch_slew"
    BY <2>1, <2>3 DEF FadeInv, Inputs
  <2> QED BY <2>2, <2>3
<1>5. CASE Process
  <2>1. kind' = kind /\ input' = input /\ (kind = "switch_slew" => FALSE \/ block' = block)
    BY <1>5 DEF Process, Crossfaders
  <2> QED BY <2>1 DEF FadeInv, Inputs
<1>6. CASE UNCHANGED vars
  BY <1>6 DEF FadeInv, Inputs, vars
<1>7. ASSUME kind # "switch_slew", kind' = kind, input' = input PROVE FadeInv'
  BY <1>7 DEF FadeInv, Inputs
<1>8. CASE ProcessDelay
  BY <1>7, <1>8 DEF ProcessDelay
<1>9. ASSUME NEW g, NEW shift, NEW mute, MakeVolumeControl(g, shift, mute) PROVE FadeInv'
  BY <1>7, <1>9 DEF MakeVolumeControl
<1>10. ASSUME NEW time, NEW u, BlockSetDelay(time, u) PROVE FadeInv'
  BY <1>7, <1>10 DEF BlockSetDelay
<1>11. ASSUME NEW states, BlockSetStates(states) PROVE FadeInv'
  BY <1>7, <1>11 DEF BlockSetStates
<1> QED BY <1>1, <1>2, <1>3, <1>4, <1>5, <1>6, <1>8, <1>9, <1>10, <1>11 DEF Next

\* What the two gains make of two samples.
LEMMA FadedBetween ==
  ASSUME NEW a \in Word, NEW b \in Word, NEW g \in 0 .. Unit
  PROVE  /\ Nearest((Unit - g) * b + g * a, Unit) \in Smaller(a, b) .. Larger(a, b)
         /\ MultSatExtract(MaxInt - g, b, Unit) + MultSatExtract(g, a, Unit)
              \in Smaller(a, b) - 2 .. Larger(a, b) + 1
<1> DEFINE lo == Smaller(a, b)
           hi == Larger(a, b)
           pa == g * a
           pb == (Unit - g) * b
           v == pb + pa
<1>1. Unit \in Nat \ {0} /\ MaxInt = Unit - 1 /\ MinInt = -Unit /\ g \in Int /\ a \in Int /\ b \in Int
      /\ -Unit <= a /\ a < Unit /\ -Unit <= b /\ b < Unit
  BY FixedPointAssumption DEF MaxInt, MinInt, Word
<1>2. lo \in Int /\ hi \in Int /\ lo <= a /\ lo <= b /\ a <= hi /\ b <= hi
  BY <1>1 DEF Smaller, Larger
<1> HIDE DEF lo, hi
<1>3. pa \in Int /\ pb \in Int /\ Unit * lo <= v /\ v <= Unit * hi
  <2>1. g * (a - lo) >= 0 /\ (Unit - g) * (b - lo) >= 0 /\ g * (hi - a) >= 0 /\ (Unit - g) * (hi - b) >= 0
    <3>1. g \in Nat /\ Unit - g \in Nat /\ a - lo \in Nat /\ b - lo \in Nat /\ hi - a \in Nat /\ hi - b \in Nat
      BY <1>1, <1>2
    <3> QED BY <3>1
  <2> QED BY <1>1, <1>2, <2>1
<1>4. -(Unit * Unit) <= pa /\ pa < Unit * Unit
  <2>1. g * (a + Unit) >= 0 /\ g * (Unit - a) >= 0 /\ (Unit - g) * Unit >= 0 /\ g * (Unit - 1 - a) >= 0
    <3>1. g \in Nat /\ Unit - g \in Nat /\ a + Unit \in Nat /\ Unit - a \in Nat /\ Unit - 1 - a \in Nat /\ Unit \in Nat
      BY <1>1
    <3> QED BY <3>1
  <2>2. g * (a + Unit) = pa + g * Unit /\ g * (Unit - 1 - a) = g * Unit - g - pa
        /\ (Unit - g) * Unit = Unit * Unit - g * Unit /\ g * Unit \in Int /\ Unit * Unit \in Int
    BY <1>1
  <2>3. g = 0 => pa = 0
    BY <1>1
  <2>4. Unit * Unit > 0
    BY <1>1
  <2> DEFINE gu == g * Unit
             uu == Unit * Unit
  <2>5. pa + gu >= 0 /\ gu - g - pa >= 0 /\ uu - gu >= 0 /\ gu \in Int /\ uu \in Int /\ uu > 0 /\ g >= 0
    BY <1>1, <2>1, <2>2, <2>4
  <2> HIDE DEF pa, gu, uu
  <2>6. -uu <= pa /\ pa < uu
    BY <1>1, <1>3, <2>3, <2>5
  <2> QED BY <2>6 DEF uu
<1>5. -(Unit * Unit) <= pb - b /\ pb - b < Unit * Unit
  <2> DEFINE k == MaxInt - g
  <2>1. k \in -1 .. Unit - 1 /\ pb - b = k * b
    BY <1>1
  <2>2. CASE k = -1
    <3>1. k * b = -b
      BY <1>1, <2>2
    <3>2. Unit <= Unit * Unit
      BY <1>1
    <3>3. Unit = 1 => b \in {-1, 0}
      BY <1>1
    <3>4. Unit > 1 => Unit < Unit * Unit
      BY <1>1
    <3>5. Unit # 1
      BY FixedPointAssumption
    <3> QED BY <1>1, <2>1, <3>1, <3>2, <3>4, <3>5
  <2>3. CASE k >= 0
    <3> HIDE DEF k
    <3>1. k * (b + Unit) >= 0 /\ k * (Unit - b) >= 0 /\ (Unit - 1 - k) * Unit >= 0
      <4>1. k \in Nat /\ Unit - 1 - k \in Nat /\ b + Unit \in Nat /\ Unit - b \in Nat /\ Unit \in Nat
        BY <1>1, <2>1, <2>3
      <4> QED BY <4>1
    <3>2. k * (b + Unit) = k * b + k * Unit /\ k * (Unit - b) = k * Unit - k * b
          /\ (Unit - 1 - k) * Unit = Unit * Unit - Unit - k * Unit
          /\ k * Unit \in Int /\ Unit * Unit \in Int /\ k * b \in Int
      BY <1>1, <2>1
    <3> DEFINE kb == k * b
               ku == k * Unit
               uu == Unit * Unit
    <3>3. kb + ku >= 0 /\ ku - kb >= 0 /\ uu - Unit - ku >= 0 /\ kb \in Int /\ ku \in Int /\ uu \in Int
      BY <3>1, <3>2
    <3> HIDE DEF kb, ku, uu
    <3>4. -uu <= kb /\ kb < uu
      BY <1>1, <3>3
    <3> QED BY <2>1, <3>4 DEF kb, uu
  <2> QED BY <1>1, <2>1, <2>2, <2>3
\* Neither product is clamped.
<1>6. MultSatExtract(g, a, Unit) = pa \div Unit /\ MultSatExtract(MaxInt - g, b, Unit) = (pb - b) \div Unit
  <2>1. \A w \in Int : -(Unit * Unit) <= w /\ w < Unit * Unit => Clamp(w, MinInt * Unit, Unit * Unit - 1) = w
    <3>1. MinInt * Unit = -(Unit * Unit) /\ Unit * Unit \in Int
      BY <1>1
    <3> QED BY <3>1 DEF Clamp
  <2>2. (MaxInt - g) * b = pb - b
    BY <1>1
  <2> HIDE DEF pa, pb
  <2>3. Clamp(pa, MinInt * Unit, Unit * Unit - 1) = pa
    BY <1>3, <1>4, <2>1
  <2>4. Clamp(pb - b, MinInt * Unit, Unit * Unit - 1) = pb - b
    <3>1. pb - b \in Int
      BY <1>1, <1>3
    <3> QED BY <1>5, <2>1, <3>1
  <2> QED BY <2>2, <2>3, <2>4 DEF MultSatExtract, pa
<1> DEFINE q == pa \div Unit
           r == (pb - b) \div Unit
<1>7. q \in Int /\ Unit * q <= pa /\ pa < Unit * q + Unit
      /\ r \in Int /\ Unit * r <= pb - b /\ pb - b < Unit * r + Unit
  <2>1. pb - b \in Int
    BY <1>1, <1>3
  <2> HIDE DEF pa, pb
  <2> QED BY <1>1, <1>3, <2>1, Floor
<1> DEFINE e == Nearest(v, Unit)
<1>8. e - v \div Unit \in {0, 1} /\ e \in Int /\ (2 * Unit) * e <= 2 * v + Unit /\ 2 * v + Unit < (2 * Unit) * e + 2 * Unit
  <2>1. v \in Int
    BY <1>3
  <2> HIDE DEF v
  <2>2. 2 * v + Unit \in Int /\ 2 * Unit \in Nat \ {0}
    BY <1>1, <2>1
  <2> QED BY <1>1, <2>1, <2>2, Floor, NearestFloor DEF Nearest
<1> HIDE DEF pa, pb, q, r, e
<1>9. lo <= e /\ e <= hi
  <2>1. v \in Int
    BY <1>3
  <2> HIDE DEF v
  <2>2. lo <= e
    <3> SUFFICES ASSUME lo - e - 1 >= 0 PROVE FALSE
      BY <1>2, <1>8
    <3>1. Unit * (lo - e - 1) >= 0
      BY <1>1, <1>2, <1>8
    <3> QED BY <1>1, <1>2, <1>3, <1>8, <2>1, <3>1
  <2>3. e <= hi
    <3> SUFFICES ASSUME e - hi - 1 >= 0 PROVE FALSE
      BY <1>2, <1>8
    <3>1. Unit * (e - hi - 1) >= 0
      BY <1>1, <1>2, <1>8
    <3> QED BY <1>1, <1>2, <1>3, <1>8, <2>1, <3>1
  <2> QED BY <2>2, <2>3
<1>10. lo - 2 <= r + q /\ r + q <= hi + 1
  <2>1. lo - 2 <= r + q
    <3> SUFFICES ASSUME lo - 3 - r - q >= 0 PROVE FALSE
      BY <1>2, <1>7
    <3>1. Unit * (lo - 3 - r - q) >= 0
      BY <1>1, <1>2, <1>7
    <3> QED BY <1>1, <1>2, <1>3, <1>7, <3>1
  <2>2. r + q <= hi + 1
    <3> SUFFICES ASSUME r + q - hi - 2 >= 0 PROVE FALSE
      BY <1>2, <1>7
    <3>1. Unit * (r + q - hi - 2) >= 0
      BY <1>1, <1>2, <1>7
    <3> QED BY <1>1, <1>2, <1>3, <1>7, <3>1
  <2> QED BY <2>1, <2>2
<1>11. e \in lo .. hi /\ r + q \in lo - 2 .. hi + 1
  BY <1>2, <1>7, <1>8, <1>9, <1>10
<1> QED BY <1>6, <1>11 DEF e, q, r, v, pa, pb, lo, hi

\* One sample of a fade.
LEMMA FadeSample ==
  ASSUME 32768 <= Unit, FadeInv, ProcessSwitch, kind = "switch_slew", block.switching
  PROVE  LET a == input[block.last + 1]
             b == input[block.position + 1]
         IN  output'[1] \in Smaller(a, b) - 2 .. Larger(a, b) + 2
<1> DEFINE a == input[block.last + 1]
           b == input[block.position + 1]
           g == CosApprox(block.counter)
<1>1. block \in Slewing /\ block.counter \in WithinFade
  BY DEF FadeInv
<1>2. a \in Word /\ b \in Word
  <2>1. NIn(kind) = 3
    BY DEF NIn
  <2>2. \A k \in 1 .. NIn(kind) : input[k] \in Word
    BY InputTyped DEF FadeInv
  <2>3. block.last \in 0 .. 2 /\ block.position \in 0 .. 2
    BY <1>1 DEF Slewing
  <2> DEFINE i == block.last + 1
             j == block.position + 1
  <2>4. \A k \in 1 .. 3 : input[k] \in Word
    BY <2>1, <2>2
  <2>5. i \in 1 .. 3 /\ j \in 1 .. 3
    BY <2>3
  <2> HIDE DEF i, j
  <2>6. input[i] \in Word /\ input[j] \in Word
    BY <2>4, <2>5
  <2> QED BY <2>6 DEF i, j
<1>3. g \in 0 .. Unit
  <2>1. -(Unit \div 2) <= block.counter /\ block.counter <= Unit \div 2 /\ block.counter \in Int
    <3>1. Unit \div 2 \in Int
      BY FixedPointAssumption
    <3> DEFINE half == Unit \div 2
    <3>2. half \in Int /\ block.counter \in -half .. half
      BY <1>1, <3>1 DEF WithinFade
    <3> HIDE DEF half
    <3>3. -half <= block.counter /\ block.counter <= half /\ block.counter \in Int
      BY <3>2
    <3> QED BY <3>3 DEF half
  <2> QED BY <2>1, CosIsGain
<1>4. output'[1] = Faded(input, block.counter, block.last + 1, block.position + 1)
  BY DEF ProcessSwitch
<1>5. output'[1] = IF arith = "float" THEN Nearest((Unit - g) * b + g * a, Unit)
                   ELSE MultSatExtract(MaxInt - g, b, Unit) + MultSatExtract(g, a, Unit)
  BY <1>4 DEF Faded
<1> HIDE DEF a, b, g
<1>6. /\ Nearest((Unit - g) * b + g * a, Unit) \in Smaller(a, b) .. Larger(a, b)
      /\ MultSatExtract(MaxInt - g, b, Unit) + MultSatExtract(g, a, Unit)
           \in Smaller(a, b) - 2 .. Larger(a, b) + 1
  BY <1>2, <1>3, FadedBetween
<1>7. Smaller(a, b) \in Int /\ Larger(a, b) \in Int
  BY <1>2, FixedPointAssumption DEF Smaller, Larger, Word, MinInt, MaxInt
<1>8. output'[1] \in Smaller(a, b) - 2 .. Larger(a, b) + 2
  BY <1>5, <1>6, <1>7
<1> QED BY <1>8 DEF a, b

\* For words of 16 bits and more, any step of the fade, any samples and any moves at
\* any moment, in either arithmetic: while the switch fades, a sample is between the
\* two it fades from and to.
THEOREM FadeCorrect ==
  ASSUME 32768 <= Unit
  PROVE  Spec => FadeStaysBetween
<1>1. FadeInv /\ [Next]_vars =>
        [(ProcessSwitch /\ kind = "switch_slew" /\ block.switching) =>
           LET a == input[block.last + 1]
               b == input[block.position + 1]
           IN  output'[1] \in Smaller(a, b) - 2 .. Larger(a, b) + 2]_vars
  BY FadeSample
<1> QED BY <1>1, FadeInit, FadeNext, PTL DEF Spec, FadeStaysBetween

-------------------------------------------------------------------------------
(* The sums.                                                                   *)

\* The sum of up to four inputs, which is as many as a stage has.
LEMMA TotalOf ==
  ASSUME NEW n \in 1 .. 4, NEW xs \in [1 .. n -> Int]
  PROVE  /\ n = 1 => Total(xs) = xs[1]
         /\ n = 2 => Total(xs) = xs[1] + xs[2]
         /\ n = 4 => Total(xs) = xs[1] + xs[2] + xs[3] + xs[4]
<1>1. xs \in Seq(Int) /\ Len(xs) = n
  OBVIOUS
<1> DEFINE upTo == CHOOSE f : f = [i \in 0 .. n |-> IF i = 0 THEN 0 ELSE f[i - 1] + xs[i]]
           part == [i \in 0 .. n |-> CASE i = 0 -> 0 [] i = 1 -> xs[1] [] i = 2 -> xs[1] + xs[2]
                                       [] i = 3 -> xs[1] + xs[2] + xs[3]
                                       [] OTHER -> xs[1] + xs[2] + xs[3] + xs[4]]
<1>2. part = [i \in 0 .. n |-> IF i = 0 THEN 0 ELSE part[i - 1] + xs[i]]
  <2> SUFFICES ASSUME NEW i \in 0 .. n
               PROVE  part[i] = IF i = 0 THEN 0 ELSE part[i - 1] + xs[i]
    OBVIOUS
  <2>1. CASE i = 0
    BY <2>1
  <2>2. CASE i = 1
    BY <2>2
  <2>3. CASE i = 2
    BY <2>3
  <2>4. CASE i = 3
    BY <2>4
  <2>5. CASE i = 4
    BY <2>5
  <2> QED BY <2>1, <2>2, <2>3, <2>4, <2>5
<1>3. upTo = [i \in 0 .. n |-> IF i = 0 THEN 0 ELSE upTo[i - 1] + xs[i]]
  <2> HIDE DEF part
  <2> QED BY <1>2
<1>4. Total(xs) = upTo[n]
  BY <1>1 DEF Total
<1> HIDE DEF upTo
<1>5. upTo[0] = 0 /\ \A i \in 1 .. n : upTo[i] = upTo[i - 1] + xs[i]
  BY <1>3
<1>6. upTo[1] = xs[1]
  BY <1>5
<1> QED BY <1>4, <1>5, <1>6

\* Adding half a step before rounding down.
LEMMA RoundedFloor ==
  ASSUME NEW v \in Int, NEW d \in Nat \ {0}
  PROVE  /\ (d \div 2 + v) \div d \in Int
         /\ (d \div 2 + v) \div d - v \div d \in {0, 1}
<1> DEFINE q == v \div d
           r == (d \div 2 + v) \div d
           h == d \div 2
<1>1. h \in Nat /\ 2 * h <= d
  BY Z3
<1> HIDE DEF h
<1>2. h + v \in Int /\ q \in Int /\ r \in Int
  BY <1>1, Floor DEF h
<1>3. d * q <= v /\ v < d * q + d /\ d * r <= h + v /\ h + v < d * r + d
  BY <1>2, Floor DEF h
<1> HIDE DEF q, r
<1>4. d * (r - q) > -d /\ d * (r - q) < 2 * d
  BY <1>1, <1>2, <1>3
<1>5. r - q >= 0
  <2> SUFFICES ASSUME q - r - 1 >= 0 PROVE FALSE
    BY <1>2
  <2>1. d * (q - r - 1) >= 0
    BY <1>2
  <2> QED BY <1>2, <1>4, <2>1
<1>6. r - q <= 1
  <2> SUFFICES ASSUME r - q - 2 >= 0 PROVE FALSE
    BY <1>2
  <2>1. d * (r - q - 2) >= 0
    BY <1>2
  <2> QED BY <1>2, <1>4, <2>1
<1>7. r \in Int /\ r - q \in {0, 1}
  BY <1>2, <1>5, <1>6
<1> QED BY <1>7, Zenon DEF q, r, h

\* Rounding down before adding loses at most one step.
LEMMA FloorSum ==
  ASSUME NEW v \in Int, NEW w \in Int, NEW d \in Nat \ {0}
  PROVE  (v + w) \div d - v \div d - w \div d \in {0, 1}
<1> DEFINE q == v \div d
           r == w \div d
           s == (v + w) \div d
<1>1. q \in Int /\ r \in Int /\ s \in Int
      /\ d * q <= v /\ v < d * q + d /\ d * r <= w /\ w < d * r + d
      /\ d * s <= v + w /\ v + w < d * s + d
  BY Floor
<1> HIDE DEF q, r, s
<1>2. d * (s - q - r) > -d /\ d * (s - q - r) < 2 * d
  BY <1>1
<1>3. s - q - r >= 0
  <2> SUFFICES ASSUME q + r - s - 1 >= 0 PROVE FALSE
    BY <1>1
  <2>1. d * (q + r - s - 1) >= 0
    BY <1>1
  <2> QED BY <1>1, <1>2, <2>1
<1>4. s - q - r <= 1
  <2> SUFFICES ASSUME s - q - r - 2 >= 0 PROVE FALSE
    BY <1>1
  <2>1. d * (s - q - r - 2) >= 0
    BY <1>1
  <2> QED BY <1>1, <1>2, <2>1
<1>5. s - q - r \in {0, 1}
  BY <1>1, <1>3, <1>4
<1> QED BY <1>5, Zenon DEF q, r, s

\* The rounding of a sum that loses its lowest bit again.
LEMMA Doubled ==
  ASSUME NEW v \in Int
  PROVE  MultSatExtract(v, 2, 2) = SaturateInt32(v) /\ MultSatExtract(2 * v, 1, 2) = SaturateInt32(v)
<1>1. 2 * v \in Int /\ (2 * v) \div 2 = v /\ v * 2 = (2 * v) * 1
  OBVIOUS
<1>2. MultSatExtract(2 * v, 1, 2) = SaturateInt32(v)
  BY <1>1, ClampedFloor
<1> QED BY <1>1, <1>2 DEF MultSatExtract

\* The signal's 1.0 divides a gain's.
LEMMA UnitOfOne ==
  /\ Unit \div One \in Nat \ {0} /\ Unit = (Unit \div One) * One
  /\ One \in Nat \ {0} /\ Unit \in Nat \ {0} /\ MinInt = -Unit /\ MaxInt = Unit - 1
<1>1. Unit \in Nat /\ One \in Nat /\ 1 < One /\ One < Unit /\ One * (Unit \div One) = Unit
  BY FixedPointAssumption, SignalChainAssumption
<1> DEFINE k == Unit \div One
<1>2. k \in Int /\ One * k = Unit
  BY <1>1
<1> HIDE DEF k
<1>3. Unit = k * One
  BY <1>1, <1>2
<1>4. k \in Nat \ {0}
  <2> SUFFICES ASSUME -k >= 0 PROVE FALSE
    BY <1>2
  <2>1. (-k) * One >= 0
    BY <1>1, <1>2
  <2> QED BY <1>1, <1>2, <1>3, <2>1
<1> QED BY <1>1, <1>3, <1>4 DEF k, MinInt, MaxInt

\* One scaled input, in either arithmetic, and how far it is from the exact one.
LEMMA ScaledNear ==
  ASSUME NEW x \in Int, NEW g \in Int
  PROVE  /\ Scaled(x, g) \in Int
         /\ Scaled(x, g) - SaturateInt32((x * g) \div One) \in {0, 1}
<1> DEFINE p == x * g
           e == p \div One
<1>1. p \in Int /\ One \in Nat \ {0}
  BY UnitOfOne
<1>2. (One \div 2 + p) * 1 = One \div 2 + p /\ One \div 2 + p \in Int
  BY <1>1
<1> HIDE DEF p
<1>3. e \in Int
  BY <1>1, Floor
<1>4. ASSUME NEW r \in Int, r - e \in {0, 1}
      PROVE  /\ SaturateInt32(r) \in Int
             /\ SaturateInt32(r) - SaturateInt32(e) \in {0, 1}
  BY <1>3, <1>4, UnitOfOne DEF SaturateInt32, Clamp
<1>5. CASE arith = "float"
  <2>1. Nearest(p, One) \in Int /\ Nearest(p, One) - e \in {0, 1}
    BY <1>1, NearestFloor
  <2>2. Scaled(x, g) = SaturateInt32(Nearest(p, One))
    BY <1>5 DEF Scaled, p
  <2> QED BY <1>4, <2>1, <2>2 DEF p
<1>6. CASE arith # "float"
  <2> DEFINE r == (One \div 2 + p) \div One
  <2>1. r \in Int /\ r - e \in {0, 1}
    BY <1>1, RoundedFloor
  <2>2. Scaled(x, g) = SaturateInt32(r)
    <3>1. Scaled(x, g) = MultSatExtract(One \div 2 + p, 1, One)
      BY <1>6 DEF Scaled, p
    <3> QED BY <1>1, <1>2, <3>1, ClampedFloor
  <2> HIDE DEF e, r
  <2> QED BY <1>4, <2>1, <2>2 DEF p, e
<1> QED BY <1>5, <1>6

\* An input that is in range after its gain is not clamped.
LEMMA ScaledInRange ==
  ASSUME NEW x \in Int, NEW g \in Int,
         x * (g * (Unit \div One)) \in MinInt * Unit .. MaxInt * Unit
  PROVE  SaturateInt32((x * g) \div One) = (x * g) \div One
         /\ (x * (g * (Unit \div One))) \div Unit = (x * g) \div One
<1> DEFINE k == Unit \div One
           p == x * g
           w == x * (g * k)
           e == p \div One
<1>1. k \in Nat \ {0} /\ Unit = k * One /\ One \in Nat \ {0} /\ Unit \in Nat \ {0}
      /\ MinInt = -Unit /\ MaxInt = Unit - 1
  BY UnitOfOne
<1> HIDE DEF k
<1>2. w = p * k /\ p \in Int /\ w \in Int
  BY <1>1
<1> HIDE DEF p
<1>3. w \div Unit = e
  BY <1>1, <1>2, FloorScales
<1>4. MinInt * Unit <= w /\ w <= MaxInt * Unit /\ MinInt \in Int /\ MaxInt \in Int
      /\ MinInt * Unit \in Int /\ MaxInt * Unit \in Int
  BY <1>1, <1>2 DEF k
<1> HIDE DEF w
<1>5. (MinInt * Unit) \div Unit = MinInt /\ (MaxInt * Unit) \div Unit = MaxInt
  <2>1. Unit * MinInt = MinInt * Unit /\ Unit * MaxInt = MaxInt * Unit
    BY <1>1, <1>4
  <2> DEFINE lo == MinInt * Unit
             hi == MaxInt * Unit
  <2>2. lo \in Int /\ hi \in Int /\ Unit * MinInt <= lo /\ lo < Unit * MinInt + Unit
        /\ Unit * MaxInt <= hi /\ hi < Unit * MaxInt + Unit
    BY <1>1, <1>4, <2>1
  <2> HIDE DEF lo, hi
  <2>3. lo \div Unit = MinInt
    BY <1>1, <1>4, <2>2, FloorUnique
  <2>4. hi \div Unit = MaxInt
    BY <1>1, <1>4, <2>2, FloorUnique
  <2> QED BY <2>3, <2>4 DEF lo, hi
<1>6. MinInt <= w \div Unit /\ w \div Unit <= MaxInt /\ w \div Unit \in Int
  <2> DEFINE lo == MinInt * Unit
             hi == MaxInt * Unit
  <2>1. lo \in Int /\ hi \in Int /\ lo <= w /\ w <= hi /\ lo \div Unit = MinInt /\ hi \div Unit = MaxInt
    BY <1>4, <1>5
  <2> HIDE DEF lo, hi
  <2> QED BY <1>1, <1>2, <2>1, FloorMonotone, Floor
<1> HIDE DEF e
<1>7. SaturateInt32(e) = e
  BY <1>1, <1>3, <1>6 DEF SaturateInt32, Clamp
<1> QED BY <1>3, <1>7 DEF e, p, w, k

\* What SumsSaturateOnce says of a block b that plays.
SumIsNear(b) ==
  LET exact == Total(Weighted(b)) \div Unit
      unclamped == arith = "float" /\ kind \in {"router_4to1", "crossfader"}
      wanted == IF unclamped THEN exact ELSE SaturateInt32(exact)
  IN  Magnitude(Played(b)[1] - wanted) <= Len(input)

\* The terms of the exact sum.
LEMMA WeightedTyped ==
  ASSUME input \in Inputs(kind), NEW b, NEW w, w = Weights(b), \A i \in 1 .. NIn(kind) : w[i] \in Int
  PROVE  /\ Weighted(b) \in [1 .. NIn(kind) -> Int]
         /\ \A i \in 1 .. NIn(kind) : Weighted(b)[i] = input[i] * w[i]
         /\ DOMAIN input = 1 .. NIn(kind)
<1>1. input \in Seq(Word) /\ Len(input) = NIn(kind) /\ \A i \in 1 .. NIn(kind) : input[i] \in Int
  BY InputTyped
<1>2. DOMAIN input = 1 .. NIn(kind)
  BY <1>1
<1>3. Weighted(b) = [i \in 1 .. NIn(kind) |-> input[i] * w[i]]
  BY <1>2 DEF Weighted
<1>4. \A i \in 1 .. NIn(kind) : input[i] * w[i] \in Int
  BY <1>1
<1> QED BY <1>2, <1>3, <1>4

\* No term is out of range where none is too loud.
LEMMA InRangeAlone ==
  ASSUME NEW b, ~OneTooLoud(b), NEW i \in DOMAIN input
  PROVE  Weighted(b)[i] \in MinInt * Unit .. MaxInt * Unit
BY DEF OneTooLoud

\* Mixer and adder.
LEMMA MixerSum ==
  ASSUME input \in Inputs(kind), kind \in {"mixer", "adder"}, NEW b, b.gain \in Int, ~OneTooLoud(b)
  PROVE  SumIsNear(b)
<1> DEFINE x == input[1]
           y == input[2]
           g == b.gain
           k == Unit \div One
           exact == Total(Weighted(b)) \div Unit
           p == x * g
           q == y * g
           e == (p + q) \div One
<1>1. NIn(kind) = 2 /\ kind \in {"mixer", "adder"}
  BY DEF NIn
<1>2. Len(input) = 2 /\ x \in Int /\ y \in Int /\ input \in Seq(Word) /\ input \in [1 .. 2 -> Int]
  <2>1. Len(input) = 2 /\ input \in Seq(Word) /\ \A i \in 1 .. 2 : input[i] \in Int
    BY <1>1, InputTyped
  <2> QED BY <2>1
<1>3. k \in Nat \ {0} /\ Unit = k * One /\ One \in Nat \ {0} /\ Unit \in Nat \ {0}
  BY UnitOfOne
<1>4. g * k \in Int /\ p \in Int /\ q \in Int /\ g \in Int
  <2> HIDE DEF k
  <2> QED BY <1>2, <1>3
<1>5. Weights(b) = [i \in DOMAIN input |-> g * k]
  BY <1>1 DEF Weights
<1>6. /\ Weighted(b) \in [1 .. 2 -> Int] /\ DOMAIN input = 1 .. 2
      /\ Weighted(b)[1] = x * (g * k) /\ Weighted(b)[2] = y * (g * k)
  <2> DEFINE w == [i \in DOMAIN input |-> g * k]
  <2>1. \A i \in 1 .. 2 : w[i] = g * k
    BY <1>2
  <2> HIDE DEF w
  <2>2. w = Weights(b) /\ \A i \in 1 .. NIn(kind) : w[i] \in Int
    BY <1>1, <1>4, <1>5, <2>1 DEF w
  <2> QED BY <1>1, <2>1, <2>2, WeightedTyped
<1>7. exact = e
  <2>1. Total(Weighted(b)) = x * (g * k) + y * (g * k)
    BY <1>6, TotalOf
  <2> HIDE DEF k
  <2>2. x * (g * k) + y * (g * k) = (p + q) * k
    <3>1. x \in Int /\ y \in Int /\ g \in Int /\ k \in Int
      BY <1>2, <1>3, <1>4
    <3> HIDE DEF x, y, g
    <3> QED BY <3>1
  <2> HIDE DEF p, q
  <2>3. ((p + q) * k) \div (k * One) = (p + q) \div One
    BY <1>3, <1>4, FloorScales
  <2> QED BY <1>3, <2>1, <2>2, <2>3
<1>8. /\ x * (g * k) \in MinInt * Unit .. MaxInt * Unit
      /\ y * (g * k) \in MinInt * Unit .. MaxInt * Unit
  BY <1>6, InRangeAlone
<1>9. /\ SaturateInt32(p \div One) = p \div One /\ SaturateInt32(q \div One) = q \div One
  <2>1. SaturateInt32((x * g) \div One) = (x * g) \div One
    <3>1. x \in Int /\ g \in Int /\ x * (g * (Unit \div One)) \in MinInt * Unit .. MaxInt * Unit
      BY <1>2, <1>4, <1>8
    <3> HIDE DEF x, g
    <3> QED BY <3>1, ScaledInRange
  <2>2. SaturateInt32((y * g) \div One) = (y * g) \div One
    <3>1. y \in Int /\ g \in Int /\ y * (g * (Unit \div One)) \in MinInt * Unit .. MaxInt * Unit
      BY <1>2, <1>4, <1>8
    <3> HIDE DEF y, g
    <3> QED BY <3>1, ScaledInRange
  <2> QED BY <2>1, <2>2
<1>10. Played(b) = <<Mixed(input, g)>>
  BY <1>1 DEF Played, Crossfaders
<1> HIDE DEF k
<1>11. e \in Int /\ p \div One \in Int /\ q \div One \in Int
  <2> HIDE DEF p, q
  <2> QED BY <1>3, <1>4, Floor
<1>12. CASE arith = "float"
  <2>1. Total(input) = x + y
    BY <1>2, TotalOf
  <2>2. Mixed(input, g) = SaturateInt32(Nearest(p + q, One))
    <3>1. (x + y) * g = p + q
      BY <1>2, <1>4
    <3> QED BY <1>12, <2>1, <3>1 DEF Mixed
  <2>3. Nearest(p + q, One) \in Int /\ Nearest(p + q, One) - e \in {0, 1}
    <3> HIDE DEF p, q
    <3> QED BY <1>3, <1>4, NearestFloor
  <2> DEFINE r == Nearest(p + q, One)
  <2> HIDE DEF r, e
  <2>4. Magnitude(r - e) <= 2
    BY <1>11, <2>3 DEF Magnitude, r
  <2>5. Magnitude(SaturateInt32(r) - SaturateInt32(e)) <= 2
    BY <1>11, <2>3, <2>4, ClampNear DEF r
  <2> QED BY <1>1, <1>2, <1>7, <1>10, <2>2, <2>5 DEF SumIsNear, r
<1>13. CASE arith # "float"
  <2> DEFINE s == Scaled(x, g)
             t == Scaled(y, g)
             u == [i \in DOMAIN input |-> Scaled(input[i], g)]
  <2>1. s \in Int /\ t \in Int /\ s - p \div One \in {0, 1} /\ t - q \div One \in {0, 1}
    BY <1>2, <1>4, <1>9, ScaledNear
  <2>2. Total(u) = s + t
    <3>1. u[1] = s /\ u[2] = t /\ u \in [1 .. 2 -> Int]
      <4> HIDE DEF s, t
      <4>1. \A i \in 1 .. 2 : i = 1 \/ i = 2
        OBVIOUS
      <4>2. Scaled(input[1], g) = s /\ Scaled(input[2], g) = t
        BY DEF s, t
      <4> QED BY <1>6, <2>1, <4>1, <4>2
    <3> HIDE DEF u
    <3> QED BY <3>1, TotalOf
  <2>3. Mixed(input, g) = SaturateInt32(s + t)
    <3>1. Mixed(input, g) = MultSatExtract(Total(u), 2, 2)
      BY <1>13 DEF Mixed
    <3> HIDE DEF s, t, u
    <3> QED BY <2>1, <2>2, <3>1, Doubled
  <2>4. e - p \div One - q \div One \in {0, 1}
    <3> HIDE DEF p, q
    <3> QED BY <1>3, <1>4, FloorSum
  <2> DEFINE pe == p \div One
             qe == q \div One
  <2> HIDE DEF s, t, u, e, pe, qe
  <2>5. Magnitude(s + t - e) <= 2
    BY <1>11, <2>1, <2>4 DEF Magnitude, pe, qe
  <2>6. Magnitude(SaturateInt32(s + t) - SaturateInt32(e)) <= 2 /\ s + t \in Int
    BY <1>11, <2>1, <2>5, ClampNear
  <2> QED BY <1>1, <1>2, <1>7, <1>10, <2>3, <2>6 DEF SumIsNear
<1> QED BY <1>12, <1>13

\* A fixed gain.
LEMMA FixedGainSum ==
  ASSUME input \in Inputs(kind), kind = "fixed_gain", NEW b, b.gain \in Int, ~OneTooLoud(b)
  PROVE  SumIsNear(b)
<1> DEFINE x == input[1]
           g == b.gain
           k == Unit \div One
           exact == Total(Weighted(b)) \div Unit
           e == (x * g) \div One
<1>1. NIn(kind) = 1
  BY DEF NIn
<1>2. Len(input) = 1 /\ x \in Int
  BY <1>1, InputTyped
<1>3. k \in Nat \ {0} /\ Unit = k * One /\ One \in Nat \ {0} /\ Unit \in Nat \ {0}
  BY UnitOfOne
<1>4. g * k \in Int /\ x * g \in Int /\ g \in Int
  <2> HIDE DEF k
  <2> QED BY <1>2, <1>3
<1>5. /\ Weighted(b) \in [1 .. 1 -> Int] /\ DOMAIN input = 1 .. 1
      /\ Weighted(b)[1] = x * (g * k)
  <2> DEFINE w == <<g * k>>
  <2>1. w = Weights(b)
    BY DEF Weights
  <2> HIDE DEF k
  <2>2. w[1] = g * k /\ \A i \in 1 .. NIn(kind) : w[i] \in Int
    BY <1>1, <1>4
  <2> HIDE DEF w
  <2>3. /\ Weighted(b) \in [1 .. NIn(kind) -> Int] /\ DOMAIN input = 1 .. NIn(kind)
        /\ \A i \in 1 .. NIn(kind) : Weighted(b)[i] = input[i] * w[i]
    BY <2>1, <2>2, WeightedTyped, Zenon
  <2> QED BY <1>1, <2>2, <2>3
<1>6. x * (g * k) \in MinInt * Unit .. MaxInt * Unit
  BY <1>5, InRangeAlone
<1>7. SaturateInt32(e) = e /\ (x * (g * k)) \div Unit = e
  <2>1. x \in Int /\ g \in Int /\ x * (g * (Unit \div One)) \in MinInt * Unit .. MaxInt * Unit
    BY <1>2, <1>4, <1>6
  <2> HIDE DEF x, g
  <2> QED BY <2>1, ScaledInRange
<1>8. exact = e
  <2>1. Total(Weighted(b)) = x * (g * k)
    BY <1>5, TotalOf
  <2> QED BY <1>7, <2>1
<1>9. Played(b) = <<Scaled(x, g)>>
  BY DEF Played, Crossfaders
<1>10. Scaled(x, g) \in Int /\ Scaled(x, g) - SaturateInt32(e) \in {0, 1} /\ e \in Int
  <2>1. e \in Int
    BY <1>3, <1>4, Floor
  <2> QED BY <1>2, <1>4, <2>1, ScaledNear
<1> DEFINE s == Scaled(x, g)
<1> HIDE DEF s, e
<1>11. Magnitude(s - e) <= 1
  BY <1>7, <1>10 DEF Magnitude, s
<1> QED BY <1>2, <1>7, <1>8, <1>9, <1>11 DEF SumIsNear, s

\* The subtractor.
LEMMA SubtractorSum ==
  ASSUME input \in Inputs(kind), kind = "subtractor", NEW b
  PROVE  SumIsNear(b)
<1> DEFINE x == input[1]
           y == input[2]
           exact == Total(Weighted(b)) \div Unit
<1>1. NIn(kind) = 2
  BY DEF NIn
<1>2. Len(input) = 2 /\ x \in Int /\ y \in Int
  BY <1>1, InputTyped
<1>3. Unit \in Nat \ {0}
  BY FixedPointAssumption
<1>4. Weighted(b) \in [1 .. 2 -> Int] /\ Weighted(b)[1] = x * Unit /\ Weighted(b)[2] = y * (-Unit)
  <2> DEFINE w == <<Unit, -Unit>>
  <2>1. w = Weights(b)
    BY DEF Weights
  <2>2. w[1] = Unit /\ w[2] = -Unit /\ \A i \in 1 .. NIn(kind) : w[i] \in Int
    BY <1>1, <1>3
  <2> HIDE DEF w
  <2>3. /\ Weighted(b) \in [1 .. NIn(kind) -> Int] /\ DOMAIN input = 1 .. NIn(kind)
        /\ \A i \in 1 .. NIn(kind) : Weighted(b)[i] = input[i] * w[i]
    BY <2>1, <2>2, WeightedTyped, Zenon
  <2> QED BY <1>1, <2>2, <2>3
<1>5. exact = x - y
  <2>1. Total(Weighted(b)) = x * Unit + y * (-Unit)
    BY <1>4, TotalOf
  <2> HIDE DEF x, y
  <2>2. x * Unit + y * (-Unit) = Unit * (x - y)
    BY <1>2, <1>3
  <2> DEFINE v == Unit * (x - y)
  <2>3. v \in Int /\ x - y \in Int /\ Unit * (x - y) <= v /\ v < Unit * (x - y) + Unit
    BY <1>2, <1>3
  <2> HIDE DEF v
  <2>4. v \div Unit = x - y
    BY <1>3, <2>3, FloorUnique
  <2> QED BY <2>1, <2>2, <2>4 DEF v
<1>6. Played(b) = <<Difference(input)>>
  BY DEF Played, Crossfaders
<1>7. Difference(input) = SaturateInt32(x - y)
  <2>1. 2 * x - 2 * y = 2 * (x - y)
    BY <1>2
  <2>2. MultSatExtract(2 * (x - y), 1, 2) = SaturateInt32(x - y)
    BY <1>2, Doubled
  <2> QED BY <2>1, <2>2 DEF Difference
<1> DEFINE s == SaturateInt32(x - y)
<1>8. s \in Int
  BY <1>2, FixedPointAssumption DEF SaturateInt32, Clamp, MinInt, MaxInt
<1> HIDE DEF s, x, y
<1>9. Magnitude(s - s) <= 2
  BY <1>8 DEF Magnitude
<1> QED BY <1>2, <1>5, <1>6, <1>7, <1>9 DEF SumIsNear, s

\* The router.
LEMMA RouterSum ==
  ASSUME input \in Inputs(kind), kind = "router_4to1", NEW b
  PROVE  SumIsNear(b)
<1> DEFINE exact == Total(Weighted(b)) \div Unit
           on(i) == IF b.states[i] THEN input[i] ELSE 0
           u == [i \in DOMAIN input |-> on(i)]
           w == [i \in 1 .. 4 |-> IF b.states[i] THEN Unit ELSE 0]
           sum == on(1) + on(2) + on(3) + on(4)
<1>1. NIn(kind) = 4
  BY DEF NIn
<1>2. Len(input) = 4 /\ \A i \in 1 .. 4 : on(i) \in Int
  BY <1>1, InputTyped
<1>3. Unit \in Nat \ {0}
  BY FixedPointAssumption
<1>4. Weights(b) = w
  BY DEF Weights
<1>5. /\ Weighted(b) \in [1 .. 4 -> Int] /\ DOMAIN input = 1 .. 4
      /\ \A i \in 1 .. 4 : Weighted(b)[i] = Unit * on(i)
  <2>1. \A i \in 1 .. 4 : w[i] \in Int /\ input[i] * w[i] = Unit * on(i)
    <3> SUFFICES ASSUME NEW i \in 1 .. 4 PROVE w[i] \in Int /\ input[i] * w[i] = Unit * on(i)
      OBVIOUS
    <3>1. input[i] \in Int
      BY <1>1, InputTyped
    <3> QED BY <1>3, <3>1
  <2>2. w = Weights(b) /\ \A i \in 1 .. NIn(kind) : w[i] \in Int
    BY <1>1, <1>4, <2>1
  <2> HIDE DEF w, on
  <2>3. /\ Weighted(b) \in [1 .. NIn(kind) -> Int] /\ DOMAIN input = 1 .. NIn(kind)
        /\ \A i \in 1 .. NIn(kind) : Weighted(b)[i] = input[i] * w[i]
    BY <2>2, WeightedTyped, Zenon
  <2> QED BY <1>1, <2>1, <2>3
<1>6. sum \in Int /\ exact = sum
  <2> DEFINE a1 == on(1)
             a2 == on(2)
             a3 == on(3)
             a4 == on(4)
  <2>1. a1 \in Int /\ a2 \in Int /\ a3 \in Int /\ a4 \in Int
    BY <1>2
  <2>2. Total(Weighted(b)) = Unit * a1 + Unit * a2 + Unit * a3 + Unit * a4
    <3> HIDE DEF on
    <3> QED BY <1>5, TotalOf
  <2>3. sum = a1 + a2 + a3 + a4
    OBVIOUS
  <2> HIDE DEF a1, a2, a3, a4, sum
  <2>4. Unit * a1 + Unit * a2 + Unit * a3 + Unit * a4 = Unit * sum /\ sum \in Int
    BY <1>3, <2>1, <2>3
  <2> DEFINE v == Unit * sum
  <2>5. v \in Int /\ Unit * sum <= v /\ v < Unit * sum + Unit
    BY <1>3, <2>4
  <2> HIDE DEF v
  <2>6. v \div Unit = sum
    BY <1>3, <2>4, <2>5, FloorUnique
  <2> QED BY <2>2, <2>4, <2>6 DEF v
<1>7. Total(u) = sum
  <2>1. u \in [1 .. 4 -> Int] /\ u[1] = on(1) /\ u[2] = on(2) /\ u[3] = on(3) /\ u[4] = on(4)
    <3> HIDE DEF on
    <3> QED BY <1>2, <1>5
  <2> HIDE DEF u, on
  <2> QED BY <2>1, TotalOf
<1>8. Played(b) = <<Routed(input, b.states)>>
  BY DEF Played, Crossfaders
<1>9. Routed(input, b.states) = IF arith = "float" THEN sum ELSE SaturateInt32(sum)
  <2>1. Routed(input, b.states) = IF arith = "float" THEN Total(u) ELSE MultSatExtract(2 * Total(u), 1, 2)
    BY DEF Routed
  <2> HIDE DEF u, sum
  <2> QED BY <1>6, <1>7, <2>1, Doubled
<1> HIDE DEF sum
<1> DEFINE s == IF arith = "float" THEN sum ELSE SaturateInt32(sum)
<1>10. s \in Int
  BY <1>6, FixedPointAssumption DEF SaturateInt32, Clamp, MinInt, MaxInt
<1>11. Played(b)[1] = s
  BY <1>8, <1>9
<1>12. s = IF arith = "float" /\ kind \in {"router_4to1", "crossfader"} THEN exact ELSE SaturateInt32(exact)
  BY <1>6
<1> HIDE DEF s
<1>13. Magnitude(s - s) <= 4
  BY <1>10 DEF Magnitude
<1> QED BY <1>2, <1>11, <1>12, <1>13 DEF SumIsNear

\* The crossfader, with gains anywhere on their way.
LEMMA CrossfaderSum ==
  ASSUME input \in Inputs(kind), kind = "crossfader", NEW b, b.gains[1] \in Int, b.gains[2] \in Int
  PROVE  SumIsNear(b)
<1> DEFINE x == input[1]
           y == input[2]
           g == b.gains[1]
           h == b.gains[2]
           v == x * g + y * h
           exact == Total(Weighted(b)) \div Unit
           e == v \div Unit
<1>1. NIn(kind) = 2
  BY DEF NIn
<1>2. Len(input) = 2 /\ x \in Int /\ y \in Int /\ g \in Int /\ h \in Int /\ v \in Int
  <2>1. Len(input) = 2 /\ x \in Int /\ y \in Int /\ g \in Int /\ h \in Int
    BY <1>1, InputTyped
  <2> HIDE DEF x, y, g, h
  <2> QED BY <2>1
<1>3. Unit \in Nat \ {0} /\ e \in Int
  <2>1. Unit \in Nat \ {0}
    BY FixedPointAssumption
  <2> HIDE DEF v
  <2> QED BY <1>2, <2>1, Floor
<1>4. Weighted(b) \in [1 .. 2 -> Int] /\ Weighted(b)[1] = x * g /\ Weighted(b)[2] = y * h
  <2> DEFINE w == b.gains
  <2>1. w = Weights(b)
    BY DEF Weights
  <2>2. \A i \in 1 .. NIn(kind) : w[i] \in Int
    <3>1. \A i \in 1 .. 2 : i = 1 \/ i = 2
      OBVIOUS
    <3> QED BY <1>1, <1>2, <3>1
  <2>3. /\ Weighted(b) \in [1 .. NIn(kind) -> Int] /\ DOMAIN input = 1 .. NIn(kind)
        /\ \A i \in 1 .. NIn(kind) : Weighted(b)[i] = input[i] * w[i]
    <3> HIDE DEF w
    <3> QED BY <2>1, <2>2, WeightedTyped, Zenon
  <2> QED BY <1>1, <2>3
<1>5. exact = e
  <2>1. Total(Weighted(b)) = v
    BY <1>4, TotalOf
  <2> QED BY <2>1
<1> DEFINE r == IF arith = "float" THEN Nearest(v, Unit) ELSE MultSatExtract(Unit \div 2 + v, 1, Unit)
<1>6. Played(b)[1] = r
  <2>1. Played(b) = Crossfaded(input, b.gains)
    BY DEF Played, Crossfaders
  <2>2. Len(input) \div 2 = 1
    BY <1>2
  <2>3. Crossfaded(input, b.gains)[1] = r
    <3> DEFINE n == Len(input) \div 2
    <3>1. n = 1
      BY <2>2
    <3> HIDE DEF n
    <3> QED BY <3>1 DEF Crossfaded, n
  <2> QED BY <2>1, <2>3
<1>7. CASE arith = "float"
  <2>1. r \in Int /\ r - e \in {0, 1}
    <3> HIDE DEF v
    <3> QED BY <1>2, <1>3, <1>7, NearestFloor
  <2> HIDE DEF r, e
  <2>2. Magnitude(r - e) <= 2
    BY <1>3, <2>1 DEF Magnitude
  <2> QED BY <1>2, <1>5, <1>6, <1>7, <2>2 DEF SumIsNear
<1>8. CASE arith # "float"
  <2> DEFINE s == (Unit \div 2 + v) \div Unit
  <2>1. s \in Int /\ s - e \in {0, 1} /\ Unit \div 2 + v \in Int
    <3> HIDE DEF v
    <3> QED BY <1>2, <1>3, RoundedFloor
  <2>2. r = SaturateInt32(s)
    <3> HIDE DEF v
    <3> QED BY <1>3, <1>8, <2>1, ClampedFloor
  <2> HIDE DEF s, e
  <2>3. Magnitude(s - e) <= 2
    BY <1>3, <2>1 DEF Magnitude
  <2>4. Magnitude(SaturateInt32(s) - SaturateInt32(e)) <= 2
    BY <1>3, <2>1, <2>3, ClampNear
  <2> HIDE DEF r
  <2> QED BY <1>2, <1>5, <1>6, <1>8, <2>2, <2>4 DEF SumIsNear
<1> QED BY <1>7, <1>8

\* The gains of the stages that sum are integers, and a crossfader's target too.
Pair(g) == g[1] \in Int /\ g[2] \in Int
Fading == \E t, g : block = [target |-> t, gains |-> g] /\ Pair(t) /\ Pair(g)

SumInv ==
  /\ input \in Inputs(kind)
  /\ kind \in {"mixer", "adder", "fixed_gain"} => block.gain \in Int
  /\ kind = "crossfader" => Fading

\* What set_parameters may bring.
LEMMA GainParameter ==
  ASSUME NEW k \in {"mixer", "fixed_gain"}, NEW p \in ParameterValues(k)
  PROVE  CheckGain(p.gain) \in Int
<1>1. ParameterValues(k) = [gain : Gains]
  BY DEF ParameterValues, Switches, Crossfaders
<1>2. p \in [gain : Gains]
  BY <1>1, Zenon
<1>3. p.gain \in Int
  <2>1. p.gain \in Gains
    BY <1>2
  <2>2. Gains \subseteq Nat
    BY SignalChainAssumption
  <2>3. p.gain \in Nat
    BY <2>1, <2>2, Zenon
  <2> QED BY <2>3
<1>4. MaxGain \in Int
  BY SignalChainAssumption, FixedPointAssumption DEF MaxInt
<1> QED BY <1>3, <1>4 DEF CheckGain, Smaller

\* The same of a crossfader.
LEMMA MixParameter ==
  ASSUME NEW p \in ParameterValues("crossfader")
  PROVE  Pair(MixGains[p.mix])
<1>1. ParameterValues("crossfader") = [mix : Mixes]
  BY DEF ParameterValues, Switches, Crossfaders
<1>2. p \in [mix : Mixes]
  BY <1>1, Zenon
<1>3. p.mix \in Mixes
  BY <1>2
<1>4. MixGains[p.mix] \in (0 .. MaxInt) \X (0 .. MaxInt)
  BY <1>3, SignalChainAssumption
<1> QED BY <1>4 DEF Pair

\* The gains of a new block are integers ...
LEMMA SumInit == Init => SumInv
<1> SUFFICES ASSUME Init PROVE SumInv
  OBVIOUS
<1>1. input \in Inputs(kind) /\ parameters \in ParameterValues(kind) /\ block = NewBlock(kind, parameters, units)
  BY DEF Init
<1>2. CASE kind \in {"mixer", "fixed_gain"}
  <2>1. NewBlock(kind, parameters, units) = [gain |-> CheckGain(parameters.gain)]
    BY <1>2 DEF NewBlock, Switches, Crossfaders
  <2>2. CheckGain(parameters.gain) \in Int
    BY <1>1, <1>2, GainParameter
  <2> QED BY <1>1, <1>2, <2>1, <2>2 DEF SumInv
<1>3. CASE kind = "adder"
  <2>1. NewBlock(kind, parameters, units) = [gain |-> One]
    BY <1>3 DEF NewBlock, Switches, Crossfaders
  <2> QED BY <1>1, <1>3, <2>1, FixedPointAssumption DEF SumInv
<1>4. CASE kind = "crossfader"
  <2> DEFINE t == MixGains[parameters.mix]
  <2>1. NewBlock(kind, parameters, units) = [target |-> t, gains |-> t]
    BY <1>4 DEF NewBlock, Switches, Crossfaders
  <2>2. Pair(t)
    BY <1>1, <1>4, MixParameter
  <2> HIDE DEF t
  <2> QED BY <1>1, <1>4, <2>1, <2>2 DEF SumInv, Fading
<1>5. CASE kind \notin {"mixer", "fixed_gain", "adder", "crossfader"}
  BY <1>1, <1>5 DEF SumInv
<1> QED BY <1>2, <1>3, <1>4, <1>5

\* ... and after new parameters ...
LEMMA SetSum ==
  ASSUME SumInv, SetParameters
  PROVE  SumInv'
<1>1. PICK p \in ParameterValues(kind) :
        SetMixer(p) \/ SetFixedGain(p) \/ SetVolume(p) \/ SetDelay(p) \/ SetStates(p)
        \/ SetSwitch(p) \/ SetSwitchSlew(p) \/ SetSwitchStereo(p)
        \/ SetCrossfader(p) \/ SetCrossfaderStereo(p)
  BY DEF SetParameters
<1>2. kind' = kind /\ input' = input /\ input \in Inputs(kind)
  BY DEF SetParameters, SumInv
<1>3. CASE kind \in {"mixer", "fixed_gain"}
  <2>1. block' = [gain |-> CheckGain(p.gain)]
    BY <1>1, <1>3 DEF SetMixer, SetFixedGain, SetVolume, SetDelay, SetStates, SetSwitch,
       SetSwitchSlew, SetSwitchStereo, SetCrossfader, SetCrossfaderStereo
  <2>2. CheckGain(p.gain) \in Int
    BY <1>1, <1>3, GainParameter
  <2> QED BY <1>2, <1>3, <2>1, <2>2 DEF SumInv, Inputs
<1>4. kind # "adder"
  BY <1>1 DEF SetMixer, SetFixedGain, SetVolume, SetDelay, SetStates, SetSwitch,
     SetSwitchSlew, SetSwitchStereo, SetCrossfader, SetCrossfaderStereo
<1>5. CASE kind = "crossfader"
  <2> DEFINE u == MixGains[p.mix]
  <2>1. block' = [block EXCEPT !.target = u]
    BY <1>1, <1>5 DEF SetMixer, SetFixedGain, SetVolume, SetDelay, SetStates, SetSwitch,
       SetSwitchSlew, SetSwitchStereo, SetCrossfader, SetCrossfaderStereo, Mix
  <2>2. Pair(u)
    BY <1>1, <1>5, MixParameter
  <2>3. PICK t, g : block = [target |-> t, gains |-> g] /\ Pair(t) /\ Pair(g)
    BY <1>5 DEF SumInv, Fading
  <2> HIDE DEF u
  <2>4. block' = [target |-> u, gains |-> g]
    BY <2>1, <2>3
  <2>5. Fading'
    BY <2>2, <2>3, <2>4 DEF Fading, Pair
  <2> QED BY <1>2, <1>5, <2>5 DEF SumInv, Inputs
<1>6. CASE kind \notin {"mixer", "fixed_gain", "adder", "crossfader"}
  BY <1>2, <1>6 DEF SumInv, Inputs
<1> QED BY <1>3, <1>4, <1>5, <1>6

\* One step of a slewing gain.
LEMMA SlewedInt ==
  ASSUME NEW g \in Int, NEW t \in Int
  PROVE  Slewed(g, t, 4) \in Int
<1>1. t - g \in Int /\ (t - g) \div 4 \in Int
  OBVIOUS
<1>2. Nearest(t - g, 4) \in Int
  BY <1>1, NearestFloor
<1> QED BY <1>1, <1>2 DEF Slewed

\* ... after a sample, in which gains may slew ...
LEMMA ProcessSum ==
  ASSUME SumInv, Process
  PROVE  SumInv'
<1>1. kind' = kind /\ input' = input /\ input \in Inputs(kind)
  BY DEF Process, SumInv
<1>2. CASE kind = "crossfader"
  <2> DEFINE new == [i \in 1 .. 2 |-> Slewed(block.gains[i], block.target[i], 4)]
  <2>1. block' = [block EXCEPT !.gains = new]
    BY <1>2 DEF Process, Crossfaders
  <2>2. PICK t, g : block = [target |-> t, gains |-> g] /\ Pair(t) /\ Pair(g)
    BY <1>2 DEF SumInv, Fading
  <2>3. block.gains = g /\ block.target = t
    BY <2>2
  <2>4. Slewed(g[1], t[1], 4) \in Int /\ Slewed(g[2], t[2], 4) \in Int
    BY <2>2, SlewedInt DEF Pair
  <2>5. new[1] \in Int /\ new[2] \in Int
    BY <2>3, <2>4
  <2> HIDE DEF new
  <2>6. block' = [target |-> t, gains |-> new]
    BY <2>1, <2>2
  <2>7. Fading'
    BY <2>2, <2>5, <2>6 DEF Fading, Pair
  <2> QED BY <1>1, <1>2, <2>7 DEF SumInv, Inputs
<1>3. CASE kind \in {"mixer", "adder", "fixed_gain"}
  <2>1. block' = block
    BY <1>3 DEF Process, Crossfaders
  <2> QED BY <1>1, <1>3, <2>1 DEF SumInv, Inputs
<1>4. CASE kind \notin {"mixer", "fixed_gain", "adder", "crossfader"}
  BY <1>1, <1>4 DEF SumInv, Inputs
<1> QED BY <1>2, <1>3, <1>4

\* ... and after any step.
LEMMA SumNext == SumInv /\ [Next]_vars => SumInv'
<1> SUFFICES ASSUME SumInv, [Next]_vars PROVE SumInv'
  OBVIOUS
<1>1. CASE Feed
  BY <1>1 DEF Feed, SumInv, Inputs, Fading
<1>2. CASE SetParameters
  BY <1>2, SetSum
<1>3. CASE Process
  BY <1>3, ProcessSum
<1>4. CASE UNCHANGED vars
  BY <1>4 DEF SumInv, Inputs, Fading, vars
<1>5. ASSUME kind \notin {"mixer", "fixed_gain", "adder", "crossfader"}, kind' = kind, input' = input PROVE SumInv'
  BY <1>5 DEF SumInv, Inputs
<1>6. CASE ProcessSwitch
  BY <1>5, <1>6 DEF ProcessSwitch
<1>7. CASE ProcessDelay
  BY <1>5, <1>7 DEF ProcessDelay
<1>8. ASSUME NEW g, NEW shift, NEW mute, MakeVolumeControl(g, shift, mute) PROVE SumInv'
  BY <1>5, <1>8 DEF MakeVolumeControl
<1>9. ASSUME NEW time, NEW u, BlockSetDelay(time, u) PROVE SumInv'
  BY <1>5, <1>9 DEF BlockSetDelay
<1>10. ASSUME NEW position, BlockMoveSwitch(position) PROVE SumInv'
  BY <1>5, <1>10 DEF BlockMoveSwitch, Switches
<1>11. ASSUME NEW states, BlockSetStates(states) PROVE SumInv'
  BY <1>5, <1>11 DEF BlockSetStates
<1> QED BY <1>1, <1>2, <1>3, <1>4, <1>6, <1>7, <1>8, <1>9, <1>10, <1>11 DEF Next

\* One sample of a stage that sums.
LEMMA SumSample ==
  ASSUME SumInv, SumInv', Process, kind \in Summing, ~OneTooLoud(block')
  PROVE  LET exact == Total(Weighted(block')) \div Unit
             unclamped == arith = "float" /\ kind \in {"router_4to1", "crossfader"}
             wanted == IF unclamped THEN exact ELSE SaturateInt32(exact)
         IN  Magnitude(output'[1] - wanted) <= Len(input)
<1> DEFINE b == block'
<1>1. output' = Played(b) /\ input \in Inputs(kind) /\ kind' = kind
  BY DEF Process, SumInv
<1>2. /\ kind \in {"mixer", "adder", "fixed_gain"} => b.gain \in Int
      /\ kind = "crossfader" => b.gains[1] \in Int /\ b.gains[2] \in Int
  <2>1. kind \in {"mixer", "adder", "fixed_gain"} => b.gain \in Int
    BY <1>1 DEF SumInv
  <2>2. ASSUME kind = "crossfader" PROVE b.gains[1] \in Int /\ b.gains[2] \in Int
    <3>1. Fading'
      BY <1>1, <2>2 DEF SumInv
    <3>2. PICK t, g : b = [target |-> t, gains |-> g] /\ Pair(t) /\ Pair(g)
      BY <3>1 DEF Fading, Pair
    <3> QED BY <3>2 DEF Pair
  <2> QED BY <2>1, <2>2
<1>3. ~OneTooLoud(b)
  OBVIOUS
<1> HIDE DEF b
<1>4. SumIsNear(b)
  BY <1>1, <1>2, <1>3, MixerSum, FixedGainSum, SubtractorSum, RouterSum, CrossfaderSum DEF Summing
<1> QED BY <1>1, <1>4 DEF SumIsNear, b

\* For words and gains of any size, in either arithmetic and with a gain that slews:
\* a mixer, adder, fixed gain, subtractor, router or crossfader gives the exact sum
\* of its weighted inputs, clamped once.
THEOREM SumsCorrect == Spec => SumsSaturateOnce
<1>1. SumInv /\ SumInv' /\ [Next]_vars =>
        [(Process /\ kind \in Summing /\ ~OneTooLoud(block')) =>
           LET exact == Total(Weighted(block')) \div Unit
               unclamped == arith = "float" /\ kind \in {"router_4to1", "crossfader"}
               wanted == IF unclamped THEN exact ELSE SaturateInt32(exact)
           IN  Magnitude(output'[1] - wanted) <= Len(input)]_vars
  BY SumSample
<1> QED BY <1>1, SumInit, SumNext, PTL DEF Spec, SumsSaturateOnce
===============================================================================
