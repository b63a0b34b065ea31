------------------------- MODULE VolumeControlProofs -------------------------
(***************************************************************************)
(* What TLAPS proves of VolumeControl, for any set of gains and shifts.    *)
(***************************************************************************)
EXTENDS VolumeControl, TLAPS

-----------------------------------------------------------------------------
(* The slew.                                                                 *)

\* One sample moves the gain towards the target and never past it.
LEMMA SlewBetween ==
  ASSUME NEW g \in Nat, NEW t \in Nat, NEW d \in Nat \ {0}
  PROVE  LET n == g + ((t - g) \div d)
         IN  /\ n \in Int
             /\ t >= g => g <= n /\ n <= t
             /\ t <= g => t <= n /\ n <= g
<1> DEFINE q == (t - g) \div d
           r == (t - g) % d
<1>1. q \in Int /\ r \in Int /\ 0 <= r /\ r < d /\ t - g = d * q + r
  BY SMT
<1>2. CASE t >= g
  <2>1. q >= 0
    BY <1>1, <1>2, SMT
  <2>2. q <= t - g
    <3>1. d * q >= q
      BY <1>1, <2>1, SMT
    <3> QED BY <1>1, <3>1, SMT
  <2>3. t = g => q = 0
    BY <1>1, <2>1, <2>2, SMT
  <2> QED BY <1>1, <1>2, <2>1, <2>2, <2>3, SMT
<1>3. CASE t < g
  <2>1. q < 0
    BY <1>1, <1>3, SMT
  <2>2. q >= t - g
    <3>1. SUFFICES ASSUME q <= t - g - 1 PROVE FALSE
      BY <1>1, SMT
    <3>2. d * q <= q
      BY <1>1, <2>1, SMT
    <3>3. d * q <= d * (t - g - 1)
      BY <1>1, <3>1, SMT
    <3>4. d * (t - g - 1) = d * (t - g) - d
      BY SMT
    <3>5. d * (t - g) <= t - g
      BY <1>3, SMT
    <3> QED BY <1>1, <3>3, <3>4, <3>5, SMT
  <2> QED BY <1>1, <1>3, <2>1, <2>2, SMT
<1> QED BY <1>2, <1>3, SMT

-----------------------------------------------------------------------------
(* Types, and the gain within the range of the targets.                      *)

\* A muted stage is on its way to silence, whatever the host reads or writes.
MutedTarget == vol.mute_state = 1 => vol.target_gain = 0

LEMMA InitTyped == Init => TypeOK /\ MutedTarget
<1> SUFFICES ASSUME Init PROVE TypeOK /\ MutedTarget
  OBVIOUS
<1>1. wanted \in [gain : Gains, muted : Bit]
  BY DEF Init, Bit
<1>2. config \in Settings /\ rw = "none_pending"
  BY <1>1, VolumeAssumption DEF Init, Settings, Bit
<1>3. config.target_gain \in Gains /\ config.slew \in Divisors
  BY <1>2 DEF Settings
<1>4. config.target_gain \in Nat /\ 0 \in Gains
  BY <1>3, VolumeAssumption
<1>5. vol = [gain |-> config.target_gain, target_gain |-> config.target_gain,
             saved_gain |-> 0, slew |-> config.slew, mute_state |-> 0]
  BY DEF Init
<1>6. vol \in Volume /\ vol.gain = config.target_gain /\ vol.mute_state = 0
  BY <1>3, <1>4, <1>5 DEF Volume, Bit
<1>7. vol.gain >= 0 /\ \E g \in Gains : vol.gain <= g
  BY <1>3, <1>4, <1>6
<1> QED BY <1>1, <1>2, <1>6, <1>7 DEF TypeOK, MutedTarget

\* A command leaves the gain alone: only samples move it.
LEMMA ApplyTyped ==
  ASSUME TypeOK, MutedTarget, ApplyWrite
  PROVE  TypeOK' /\ MutedTarget' /\ vol'.gain = vol.gain
<1> DEFINE set == [SetGain(vol, config.target_gain) EXCEPT !.slew = config.slew]
<1>1. vol \in Volume /\ config \in Settings
  BY DEF TypeOK
<1>2. set \in Volume /\ set.gain = vol.gain /\ set.mute_state = vol.mute_state
      /\ (vol.mute_state = 1 => set.target_gain = vol.target_gain)
  BY <1>1 DEF SetGain, Volume, Settings, Bit
<1>3. Mute(set) \in Volume /\ Mute(set).gain = vol.gain
      /\ Mute(set).mute_state = 1 /\ Mute(set).target_gain = 0
  BY <1>2, VolumeAssumption DEF Mute, Volume, Bit, MutedTarget
<1>4. Unmute(set) \in Volume /\ Unmute(set).gain = vol.gain
      /\ Unmute(set).mute_state = 0
  BY <1>2 DEF Unmute, Volume, Bit
<1>5. vol' = IF config.mute_state = 1 THEN Mute(set) ELSE Unmute(set)
  BY DEF ApplyWrite
<1>6. vol' \in Volume /\ vol'.gain = vol.gain /\ MutedTarget'
  BY <1>3, <1>4, <1>5 DEF MutedTarget
<1> QED BY <1>6 DEF TypeOK, ApplyWrite

LEMMA SampleTyped ==
  ASSUME TypeOK, MutedTarget, ProcessSample
  PROVE  /\ TypeOK' /\ MutedTarget'
         /\ vol.mute_state = 1 => vol'.gain <= vol.gain
<1> DEFINE g == vol.gain
           t == vol.target_gain
           d == vol.slew
<1>1. g \in Nat /\ t \in Nat /\ d \in Nat \ {0} /\ t \in Gains
  <2>1. g \in Int /\ g >= 0 /\ t \in Gains /\ d \in Divisors
    BY DEF TypeOK, Volume
  <2>2. g \in Nat
    BY <2>1
  <2>3. t \in Nat
    BY <2>1, VolumeAssumption
  <2>4. d \in Nat \ {0}
    BY <2>1, VolumeAssumption
  <2> QED BY <2>1, <2>2, <2>3, <2>4
<1>2. Slewed(vol) \in Int
      /\ (t >= g => g <= Slewed(vol) /\ Slewed(vol) <= t)
      /\ (t <= g => t <= Slewed(vol) /\ Slewed(vol) <= g)
  BY <1>1, SlewBetween DEF Slewed
<1>3. vol' = [vol EXCEPT !.gain = Slewed(vol)]
  BY DEF ProcessSample
<1>4. vol' \in Volume /\ vol'.gain = Slewed(vol) /\ MutedTarget'
  BY <1>2, <1>3 DEF TypeOK, Volume, MutedTarget
<1>5. vol'.gain >= 0
  BY <1>1, <1>2, <1>4
<1>6. \E x \in Gains : vol'.gain <= x
  <2>1. PICK x \in Gains : g <= x
    BY DEF TypeOK
  <2>2. vol'.gain <= g \/ vol'.gain <= t
    BY <1>1, <1>2, <1>4
  <2>3. x \in Nat
    BY <2>1, VolumeAssumption
  <2> QED BY <1>1, <1>2, <1>4, <2>1, <2>2, <2>3
<1>7. vol.mute_state = 1 => vol'.gain <= vol.gain
  BY <1>1, <1>2, <1>4 DEF MutedTarget
<1> QED BY <1>4, <1>5, <1>6, <1>7 DEF TypeOK, ProcessSample

LEMMA NextTyped ==
  ASSUME TypeOK, MutedTarget, [Next]_vars
  PROVE  /\ TypeOK' /\ MutedTarget'
         /\ vol.mute_state = 1 => vol'.gain <= vol.gain
<1>0. vol.gain \in Int
  BY DEF TypeOK, Volume
<1>1. CASE Host
  <2>1. vol' = vol
    BY <1>1 DEF Host, WriteTargetGain, WriteSlewShift, WriteMuteState, Write,
                StartRead, FinishRead
  <2>2. config' \in Settings /\ wanted' \in [gain : Gains, muted : Bit]
    BY <1>1 DEF TypeOK, Settings, Host, WriteTargetGain, WriteSlewShift,
                WriteMuteState, Write, StartRead, FinishRead, Bit
  <2>3. rw' \in {"none_pending", "write_pending", "read_pending", "read_updated"}
    BY <1>1 DEF Host, WriteTargetGain, WriteSlewShift, WriteMuteState, Write,
                StartRead, FinishRead
  <2> QED BY <1>0, <2>1, <2>2, <2>3 DEF TypeOK, MutedTarget
<1>2. CASE ProcessSample
  BY <1>2, SampleTyped
<1>3. CASE ApplyWrite
  BY <1>0, <1>3, ApplyTyped
<1>4. CASE PublishRead
  BY <1>0, <1>4 DEF TypeOK, MutedTarget, PublishRead, Settings, Volume
<1>5. CASE UNCHANGED vars
  BY <1>0, <1>5 DEF vars, TypeOK, MutedTarget
<1> QED BY <1>1, <1>2, <1>3, <1>4, <1>5 DEF Next

\* The types, and the gain between 0 and the largest target: the slew never
\* overshoots, for any shift.
THEOREM TypeCorrect == Spec => []TypeOK
<1>1. Init => TypeOK /\ MutedTarget
  BY InitTyped
<1>2. TypeOK /\ MutedTarget /\ [Next]_vars => (TypeOK /\ MutedTarget)'
  BY NextTyped
<1> QED BY <1>1, <1>2, PTL DEF Spec

\* No command and no sample makes a muted stage louder.
THEOREM MutedNeverLouder == Spec => NeverLouderWhileMuted
<1>1. Init => TypeOK /\ MutedTarget
  BY InitTyped
<1>2. TypeOK /\ MutedTarget /\ [Next]_vars => (TypeOK /\ MutedTarget)'
  BY NextTyped
<1>3. TypeOK /\ MutedTarget /\ [Next]_vars =>
        [vol.mute_state = 1 /\ vol'.mute_state = 1 => vol'.gain <= vol.gain]_vars
  BY NextTyped
<1> QED BY <1>1, <1>2, <1>3, PTL DEF Spec, NeverLouderWhileMuted

-----------------------------------------------------------------------------
(* What the host asked for is what the stage does.                           *)

\* config holds what the host asked for at all times, because only an unmuted
\* stage overwrites it; the stage agrees except while a write is pending.
Agreed ==
  /\ config.target_gain = wanted.gain
  /\ config.mute_state = wanted.muted
  /\ rw # "write_pending" =>
       /\ vol.mute_state = wanted.muted
       /\ vol.target_gain = IF wanted.muted = 1 THEN 0 ELSE wanted.gain
  /\ rw \in {"read_pending", "read_updated"} => wanted.muted = 0

LEMMA NextAgreed ==
  ASSUME ~MutedReads, TypeOK, MutedTarget, Agreed, [Next]_vars
  PROVE  Agreed'
<1>0. vol \in Volume /\ config \in Settings /\ wanted \in [gain : Gains, muted : Bit]
  BY DEF TypeOK
<1>1. ASSUME NEW g \in Gains, WriteTargetGain(g) PROVE Agreed'
  BY <1>0, <1>1 DEF Agreed, WriteTargetGain, Write, Settings
<1>2. ASSUME NEW d \in Divisors, WriteSlewShift(d) PROVE Agreed'
  BY <1>0, <1>2 DEF Agreed, WriteSlewShift, Write, Settings
<1>3. ASSUME NEW m \in Bit, WriteMuteState(m) PROVE Agreed'
  BY <1>0, <1>3 DEF Agreed, WriteMuteState, Write, Settings
<1>4. CASE StartRead
  BY <1>0, <1>4 DEF Agreed, StartRead, Bit
<1>5. CASE FinishRead
  BY <1>5 DEF Agreed, FinishRead
<1>6. CASE ProcessSample
  BY <1>0, <1>6 DEF Agreed, ProcessSample, Volume
<1>7. CASE ApplyWrite
  <2> DEFINE set == [SetGain(vol, config.target_gain) EXCEPT !.slew = config.slew]
  <2>1. set \in Volume /\ set.mute_state = vol.mute_state
        /\ (vol.mute_state = 0 => set.target_gain = wanted.gain)
        /\ (vol.mute_state = 1 => set.saved_gain = wanted.gain /\ set.target_gain = 0)
    BY <1>0 DEF SetGain, Volume, Settings, Agreed, MutedTarget
  <2>2. vol' = IF wanted.muted = 1 THEN Mute(set) ELSE Unmute(set)
    BY <1>7 DEF ApplyWrite, Agreed
  <2>3. Mute(set).mute_state = 1 /\ Mute(set).target_gain = 0
    BY <2>1 DEF Mute, Volume, Bit
  <2>4. Unmute(set).mute_state = 0 /\ Unmute(set).target_gain = wanted.gain
    BY <2>1 DEF Unmute, Volume, Bit
  <2> QED BY <1>0, <1>7, <2>2, <2>3, <2>4 DEF Agreed, ApplyWrite, Bit
<1>8. CASE PublishRead
  BY <1>0, <1>8 DEF Agreed, PublishRead
<1>9. CASE UNCHANGED vars
  BY <1>9 DEF vars, Agreed
<1> QED BY <1>1, <1>2, <1>3, <1>4, <1>5, <1>6, <1>7, <1>8, <1>9 DEF Next, Host

\* When the design starts the stage unmuted and the host reads nothing while
\* it is muted, a settled stage does what the host asked for last: muting and
\* unmuting in any order with gain changes restores the gain asked for.
THEOREM WantedCorrect == ~StartMuted /\ ~MutedReads /\ Spec => []TargetWanted
<1> SUFFICES ASSUME ~StartMuted, ~MutedReads PROVE Spec => []TargetWanted
  OBVIOUS
<1>1. Init => TypeOK /\ MutedTarget /\ Agreed
  <2> SUFFICES ASSUME Init PROVE Agreed
    BY InitTyped
  <2>1. wanted.muted = 0 /\ rw = "none_pending"
    BY DEF Init
  <2>2. config.target_gain = wanted.gain /\ config.mute_state = 0
    BY <2>1 DEF Init
  <2>3. vol.mute_state = 0 /\ vol.target_gain = config.target_gain
    BY DEF Init
  <2> QED BY <2>1, <2>2, <2>3 DEF Agreed
<1>2. TypeOK /\ MutedTarget /\ Agreed /\ [Next]_vars => (TypeOK /\ MutedTarget /\ Agreed)'
  BY NextTyped, NextAgreed
<1>3. Agreed => TargetWanted
  BY DEF Agreed, TargetWanted
<1> QED BY <1>1, <1>2, <1>3, PTL DEF Spec
=============================================================================
