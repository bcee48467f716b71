----------------------------- MODULE MCBitMask -----------------------------
(***************************************************************************)
(* Masks that fill their word, or reach two bits into the next; the ids at *)
(* both sides of the boundary, the last one and past the length.           *)
(***************************************************************************)
EXTENDS BitMask

TestLens   == {64, 66}
TestProbes == {0, 63, 64, 65, 66, 128}
=============================================================================
