------------------------------ MODULE MCAudio ------------------------------
(* The audio fade with two applications; see README.md for the bounds. *)
EXTENDS AudioFade

CONSTANTS browser, voice

MCApps == {browser, voice}
MCUserVolumes == [a \in MCApps |-> IF a = browser THEN {3, 4} ELSE {4}]
MCOneVolume == [a \in MCApps |-> {4}]
=============================================================================
