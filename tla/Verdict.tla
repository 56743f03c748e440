------------------------------ MODULE Verdict ------------------------------
(***************************************************************************)
(* What src/policy.go promises of the verdict, with no frame, no energy    *)
(* and no window in it: the desk reads present or empty, and one clock     *)
(* decides.  It is that of the run of readings which could turn the        *)
(* verdict: of the empty ones since the daemon knows nothing, of the time  *)
(* since the last present one, or of the present ones in an absence.       *)
(***************************************************************************)
EXTENDS Clock

CONSTANTS
  Timers,         \* the away timers there are
  Debounce        \* an absence ends when the desk reads present this long

VARIABLES
  verdict,        \* "unknown", "present" or "away"
  since,          \* age of the run, Unset without one
  timer           \* the away timer in force

vars == <<verdict, since, timer>>

Init == verdict = "unknown" /\ since = Unset /\ timer \in Timers

\* A reading that begins a run, or is of one.
Run == IF since = Unset THEN 0 ELSE since

ReadsPresent ==
  /\ IF verdict = "away" /\ Run < Debounce
     THEN verdict' = "away" /\ since' = Run
     ELSE verdict' = "present" /\ since' = 0
  /\ UNCHANGED timer

ReadsEmpty ==
  /\ IF verdict = "away" \/ Run >= timer
     THEN verdict' = "away" /\ since' = Unset
     ELSE since' = Run /\ UNCHANGED verdict
  /\ UNCHANGED timer

\* After a resume.
Forget == verdict' = "unknown" /\ since' = Unset /\ UNCHANGED timer

SetTimer(d) == timer' = d /\ UNCHANGED <<verdict, since>>

Elapse == since' = Older(since) /\ UNCHANGED <<verdict, timer>>

Next ==
  \/ ReadsPresent
  \/ ReadsEmpty
  \/ Forget
  \/ \E d \in Timers : SetTimer(d)
  \/ Elapse

Spec == Init /\ [][Next]_vars
=============================================================================
