------------------------------- MODULE Clock -------------------------------
(***************************************************************************)
(* The daemon never asks what time it is: every use it makes of a          *)
(* time.Time is `now.Sub(t)` compared with a threshold, or t.IsZero().     *)
(* A timestamp is therefore kept as its AGE, the time since it was taken,  *)
(* in units the configuration chooses.  Ages saturate at Cap, which every  *)
(* model takes above the thresholds its guards compare with, so each such  *)
(* comparison has the answer the code gets while time itself is unbounded  *)
(* and the state space is finite.                                          *)
(*                                                                         *)
(* Go's Sub uses the monotonic reading, which stands still while the       *)
(* machine is suspended: a suspend is a step in which no age changes.      *)
(***************************************************************************)
EXTENDS Integers

CONSTANT Cap                    \* the age at which ages stop growing

ASSUME CapAssumption == Cap \in Nat \ {0}

Age == 0..Cap

Unset == -1                     \* time.Time{}, where the code asks IsZero

Stamp == Age \cup {Unset}

\* One unit of time passes for a timestamp.
Older(a) == IF a \in 0..(Cap - 1) THEN a + 1 ELSE a

\* A saturating count.
AtMost(n, bound) == IF n > bound THEN bound ELSE n
=============================================================================
