------------------------------ MODULE MCMedia ------------------------------
(* Sound and players after the verdict; see README.md for the bounds. *)
EXTENDS MediaFollow

CONSTANT film

MCPlayers == {film}
MCAbsences == {2}
BasicFrames == {"near", "far"}
MCLevels == {"active", "quiet"}
=============================================================================
