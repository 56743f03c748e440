------------------------------ MODULE MCFloor ------------------------------
(***************************************************************************)
(* Three noises whose thresholds are the minimum, between and the maximum. *)
(***************************************************************************)
EXTENDS FloorLearner

MCEnergies == {0, 1, 3}
=============================================================================
