----------------------------- MODULE MCAdspFifo -----------------------------
(* A FIFO whose frames have three audio channels of one-bit samples. *)
EXTENDS AdspFifo

MCSamples == {0, 1}
=============================================================================
