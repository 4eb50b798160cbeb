---------------------------- MODULE MCAfkWindows ----------------------------
(***************************************************************************)
(* A small instance of AfkWindows for TLC.                                 *)
(***************************************************************************)
EXTENDS AfkWindows

TwoThresholds == {3, 4}
Seconds7 == 0 .. 7

\* Two apart, one of them next to where polls record; one that bridges the
\* gap, and the two shapes the handler refuses.
SomeRanges == {Range(1, 1), Range(3, 3), Range(2, 2), Range(0, 2), Range(3, 2)}
=============================================================================
