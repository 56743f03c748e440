------------------------------ MODULE MCDaemon ------------------------------
(* The whole loop with timers of one unit or two; see README.md. *)
EXTENDS Daemon

MCAbsences == {1}
BasicFrames == {"near", "far"}
AllOutcomes == {"done", "unknown", "unchanged"}
OnlyDone == {"done"}
DoneOrFailed == {"done", "unchanged"}
MCLevels == {"active", "idle"}
FewLevels == {"quiet", "away"}
IdleLevel == {"idle"}
LeavingLevels == {"idle", "away"}
=============================================================================
