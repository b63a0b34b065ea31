------------------------------ MODULE FrameSlot ------------------------------
(***************************************************************************)
(* What adsp_fifo_t promises: a place for one frame.  The producer puts a  *)
(* frame when the place is free, the consumer takes exactly the frame that *)
(* was put, once.                                                          *)
(***************************************************************************)
CONSTANTS
  Frames,  \* the frames a producer can send
  Empty    \* no frame

VARIABLES
  slot,   \* the frame waiting to be taken, or Empty
  taken   \* the last frame the consumer took, or Empty

Init == slot = Empty /\ taken = Empty

Put ==
  /\ slot = Empty
  /\ slot' \in Frames
  /\ UNCHANGED taken

Take ==
  /\ slot # Empty
  /\ taken' = slot
  /\ slot' = Empty

Next == Put \/ Take

Spec == Init /\ [][Next]_<<slot, taken>>

\* The consumer never stops taking what is there.
FairSpec == Spec /\ WF_<<slot, taken>>(Take)
=============================================================================
