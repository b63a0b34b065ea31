--------------------------- MODULE MCVolumeControl ---------------------------
(* VolumeControl with four gains and the slew shifts 0 to 2.                 *)
EXTENDS VolumeControl

SomeGains == {0, 1, 5, 8}
SomeDivisors == {1, 2, 4}
=============================================================================
