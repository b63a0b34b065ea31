---------------------------- MODULE VolumeControl ----------------------------
(***************************************************************************)
(* The volume_control stage: the gain slewed once per sample, mute and     *)
(* unmute, and the config struct the host writes one field at a time and   *)
(* the stage applies as a whole.  That a write or a read is one step here  *)
(* is what StageControl shows of the protocol.  All channels run through   *)
(* the same code with the same values, so one stands for them all; samples *)
(* themselves are left out.                                                *)
(***************************************************************************)
EXTENDS Integers

CONSTANTS
  Gains,       \* the target gains the host may ask for
  Divisors,    \* 2^slew_shift, for the shifts the host may ask for
  StartMuted,  \* whether the design may ask for a stage that starts muted
  MutedReads   \* whether the host also reads parameters while the stage is muted

ASSUME VolumeAssumption ==
  /\ Gains \subseteq Nat
  /\ 0 \in Gains
  /\ Divisors \subseteq Nat \ {0}
  /\ StartMuted \in BOOLEAN
  /\ MutedReads \in BOOLEAN

VARIABLES
  vol,     \* volume_control_t: what the DSP thread works with
  config,  \* volume_control_config_t, without the read-only gain
  rw,      \* config_rw_state
  wanted   \* history: the gain and the mute state the host asked for last

vars == <<vol, config, rw, wanted>>

Bit == {0, 1}
Settings == [target_gain : Gains, slew : Divisors, mute_state : Bit]
Volume == [gain : Int, target_gain : Gains, saved_gain : Gains,
           slew : Divisors, mute_state : Bit]

\* The generator writes a muted stage's target as 0 and its gain nowhere.
Init ==
  /\ wanted \in [gain : Gains, muted : IF StartMuted THEN Bit ELSE {0}]
  /\ \E d \in Divisors :
       config = [target_gain |-> IF wanted.muted = 1 THEN 0 ELSE wanted.gain,
                 slew |-> d, mute_state |-> wanted.muted]
  /\ vol = [gain |-> config.target_gain, target_gain |-> config.target_gain,
            saved_gain |-> 0, slew |-> config.slew, mute_state |-> 0]
  /\ rw = "none_pending"

-----------------------------------------------------------------------------
(* Faulty variants of the operations below, one mistake each.  No action uses *)
(* them: they show what the properties notice.                               *)

\* Rounds towards zero, as a division in C would.
SlewedTowardsZero(v) ==
  IF v.target_gain >= v.gain
  THEN v.gain + ((v.target_gain - v.gain) \div v.slew)
  ELSE v.gain - ((v.gain - v.target_gain) \div v.slew)

\* Takes the difference the other way round.
SlewedAway(v) == v.gain + ((v.gain - v.target_gain) \div v.slew)

\* Sets the target whether or not the stage is muted.
SetGainAnyway(v, g) == [v EXCEPT !.target_gain = g]

\* Forgets to put the saved gain back.
UnmuteOnly(v) == [v EXCEPT !.mute_state = 0]

-----------------------------------------------------------------------------
(* The operations on volume_control_t.                                       *)

\* The gain one sample later.  \div rounds down, as the arithmetic shift does.
Slewed(v) == v.gain + ((v.target_gain - v.gain) \div v.slew)

SetGain(v, g) ==
  IF v.mute_state = 0 THEN [v EXCEPT !.target_gain = g]
                      ELSE [v EXCEPT !.saved_gain = g]

Mute(v) ==
  IF v.mute_state = 0
  THEN [v EXCEPT !.mute_state = 1, !.saved_gain = v.target_gain, !.target_gain = 0]
  ELSE v

Unmute(v) ==
  IF v.mute_state = 1
  THEN [v EXCEPT !.mute_state = 0, !.target_gain = v.saved_gain]
  ELSE v

-----------------------------------------------------------------------------
(* The host: one field per command.                                          *)

Write(field, value) ==
  /\ rw = "none_pending"
  /\ config' = [config EXCEPT ![field] = value]
  /\ rw' = "write_pending"
  /\ UNCHANGED vol

WriteTargetGain(g) ==
  /\ Write("target_gain", g)
  /\ wanted' = [wanted EXCEPT !.gain = g]

WriteSlewShift(d) ==
  /\ Write("slew", d)
  /\ UNCHANGED wanted

WriteMuteState(m) ==
  /\ Write("mute_state", m)
  /\ wanted' = [wanted EXCEPT !.muted = m]

StartRead ==
  /\ rw = "none_pending"
  /\ MutedReads \/ wanted.muted = 0
  /\ rw' = "read_pending"
  /\ UNCHANGED <<vol, config, wanted>>

FinishRead ==
  /\ rw = "read_updated"
  /\ rw' = "none_pending"
  /\ UNCHANGED <<vol, config, wanted>>

-----------------------------------------------------------------------------
(* The DSP thread.                                                           *)

ProcessSample ==
  /\ vol' = [vol EXCEPT !.gain = Slewed(vol)]
  /\ UNCHANGED <<config, rw, wanted>>

\* The whole of config is applied, whichever field was written.
ApplyWrite ==
  /\ rw = "write_pending"
  /\ LET set == [SetGain(vol, config.target_gain) EXCEPT !.slew = config.slew]
     IN vol' = IF config.mute_state = 1 THEN Mute(set) ELSE Unmute(set)
  /\ rw' = "none_pending"
  /\ UNCHANGED <<config, wanted>>

\* The whole of config is overwritten, whichever field is read.
PublishRead ==
  /\ rw = "read_pending"
  /\ config' = [target_gain |-> vol.target_gain, slew |-> vol.slew,
                mute_state |-> vol.mute_state]
  /\ rw' = "read_updated"
  /\ UNCHANGED <<vol, wanted>>

Host ==
  \/ \E g \in Gains : WriteTargetGain(g)
  \/ \E d \in Divisors : WriteSlewShift(d)
  \/ \E m \in Bit : WriteMuteState(m)
  \/ StartRead
  \/ FinishRead

Next == Host \/ ProcessSample \/ ApplyWrite \/ PublishRead

Spec == Init /\ [][Next]_vars

\* Samples keep coming.
FairSpec == Spec /\ WF_vars(ProcessSample)

-----------------------------------------------------------------------------
(* Properties.                                                               *)

\* The struct and the settings keep their types; the gain never leaves the
\* range of the targets, so the slew neither goes below 0 nor overshoots.
TypeOK ==
  /\ vol \in Volume
  /\ config \in Settings
  /\ rw \in {"none_pending", "write_pending", "read_pending", "read_updated"}
  /\ wanted \in [gain : Gains, muted : Bit]
  /\ vol.gain >= 0
  /\ \E g \in Gains : vol.gain <= g

\* Once nothing is pending the stage is muted exactly when the host asked for
\* it last, and its target is the gain the host asked for last, before or
\* during the mute: unmuting restores it.
\* (adsp_volume_control_set_gain, _mute and _unmute.)
TargetWanted ==
  rw = "none_pending" =>
    /\ vol.mute_state = wanted.muted
    /\ vol.target_gain = IF wanted.muted = 1 THEN 0 ELSE wanted.gain

\* "Unmuting will restore the pre-mute target gain": once nothing is pending
\* and the host asked for sound, the target is the gain it asked for last.
UnmuteRestores ==
  rw = "none_pending" /\ wanted.muted = 0 => vol.target_gain = wanted.gain

\* While the stage is muted no command and no sample makes it louder: a new
\* gain takes no effect until it is unmuted.
NeverLouderWhileMuted ==
  [][vol.mute_state = 1 /\ vol'.mute_state = 1 => vol'.gain <= vol.gain]_vars

\* A muted stage becomes silent: the shifted difference never rounds to 0
\* before the gain has come down all the way.
FadesToSilence == vol.mute_state = 1 ~> (vol.gain = 0 \/ vol.mute_state = 0)
=============================================================================
