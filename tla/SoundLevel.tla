----------------------------- MODULE SoundLevel -----------------------------
(***************************************************************************)
(* What src/audio.go promises the main loop, with no stream in it: a fade  *)
(* level, which the loop moves with apply, and a mutex, which only a ramp  *)
(* (or the undoing of a fade at start) keeps for longer than a call.       *)
(* A repair of the watch takes it too, for no longer than that: an apply   *)
(* that meets one is an apply that never came.                             *)
(* AudioFade implements it; MediaFollow is built on it.                    *)
(***************************************************************************)
CONSTANT Levels              \* the fade levels; 0 is full volume

VARIABLES
  level,                     \* audio.level, the level last applied
  busy                       \* the mutex is kept, and apply does nothing

soundVars == <<level, busy>>

Init == level = 0 /\ busy = FALSE

\* apply(l) where it does something.  apply(0) goes on to end the fade, which
\* may keep the mutex for a while.
Apply(l) ==
  /\ ~busy /\ l # level
  /\ level' = l
  /\ IF l = 0 THEN busy' \in BOOLEAN ELSE busy' = FALSE

\* rampUp, which waits for the mutex: nothing to put back, or a ramp.
RampTakes ==
  /\ ~busy
  /\ \/ level' = 0 /\ UNCHANGED busy
     \/ busy' = TRUE /\ UNCHANGED level

\* The fade is over.
Ends == busy /\ busy' = FALSE /\ level' = 0

\* A restarted daemon is back at full volume, putting back what it finds.
Crash == level' = 0 /\ busy' = FALSE

Undo == ~busy /\ level = 0 /\ busy' = TRUE /\ UNCHANGED level

Next ==
  \/ \E l \in Levels : Apply(l)
  \/ RampTakes
  \/ Ends
  \/ Crash
  \/ Undo

\* Whoever keeps the mutex lets go of it.
Spec == Init /\ [][Next]_soundVars /\ []<>~busy
=============================================================================
