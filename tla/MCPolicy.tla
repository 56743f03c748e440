------------------------------ MODULE MCPolicy ------------------------------
(* The policy with small timers; see README.md for the scale. *)
EXTENDS PolicyHistory

MCAbsences == {2, 3}
AllFrames == {"hot", "quiet", "near", "far"}
RadarFrames == {"hot", "quiet"}
=============================================================================
