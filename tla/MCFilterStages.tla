---------------------------- MODULE MCFilterStages -----------------------------
(* Small filters. The designs are a loud inverting gain, a resonant low pass,  *)
(* a large boost and a low pass at half the sampling rate, which is refused;   *)
(* the FIR taps are shorter than, as long as and longer than a frame and a     *)
(* block; the reverbs have rings of one to three cells and settings from dull  *)
(* and short to bright and long.                                               *)
EXTENDS FilterStages

MCDesigns == {Gain(-14), Lowpass(1, 3), Peaking(-1, 2, 12), Lowpass(-4, 0)}
MCSlewDesigns == {Gain(-14), Lowpass(1, 3)}
\* The last one is refused, and has no shift.
MCOwingDesigns == MCSlewDesigns \cup {Lowpass(4, 0)}
MCBiquadFrames == {<<0>>, <<35>>}

MCFirFilters == {<<16>>, <<16, -8>>, <<16, -8, 4>>, <<16, 8, 4, -2>>, <<6, 10, -4, 2, 8>>}
MCFirSamples == {0, 10, -14}

MCCombs == <<2, 3>>
MCAllpasses == <<2, 1>>
MCPlateAllpasses == [k \in 0 .. 5 |-> 1 + (k % 2)]
MCPlateDelays == [k \in 0 .. 3 |-> IF k = 0 THEN 3 ELSE 2]
MCPlateHeads == [k \in 0 .. 1 |-> 1]
MCPlateTaps == [s \in Sides |-> [n \in 0 .. 6 |-> IF n = 1 THEN 2 ELSE 1]]

MCRoomSettings ==
  {[size |-> 64, damping |-> 24, decay |-> 32, pregain |-> 48, wet |-> 64, dry |-> 24, width |-> 64],
   [size |-> 36, damping |-> 64, decay |-> 64, pregain |-> 64, wet |-> 48, dry |-> 0, width |-> 16]}
MCPlateSettings ==
  {[bandwidth |-> 56, damping |-> 16, decay |-> 32, early |-> 48, late |-> 44, pregain |-> 48,
    wet |-> 64, dry |-> 24, width |-> 64],
   [bandwidth |-> 64, damping |-> 0, decay |-> 60, early |-> 32, late |-> 64, pregain |-> 64,
    wet |-> 48, dry |-> 0, width |-> 16]}
MCVerbFrames == {[s \in Sides |-> 0], [s \in Sides |-> IF s = "l" THEN 40 ELSE -63]}
===============================================================================
