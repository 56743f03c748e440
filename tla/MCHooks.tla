------------------------------ MODULE MCHooks ------------------------------
(* The hook gate with small timers; see README.md for the scale. *)
EXTENDS HookHistory

MCAbsences == {2}
RadarFrames == {"hot", "quiet"}
MCLevels == {"active", "quiet", "away"}
=============================================================================
