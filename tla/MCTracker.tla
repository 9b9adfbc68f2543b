------------------------------ MODULE MCTracker ------------------------------
(* The tracker on small instances, for TLC. *)
EXTENDS Tracker

OneMessage == {[type |-> "HEARTBEAT", gimbal |-> FALSE]}

(* Gaps: next to each other, far apart, and across the wrap at 255. *)
GapSeqs == {0, 1, 3, 255}
NoDelay == {0}

(* Heartbeat periods, in quarters of a millisecond, two of which stand for the  *)
(* microsecond: none, at the least healthy average, above the greatest and not   *)
(* a whole number of microseconds, and longer than the initial minimum.          *)
BeatPeriods == {0, 200 * Milli, 2500 * Milli + 1, 1000000 * Milli}
==============================================================================
