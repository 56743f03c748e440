----------------------------- MODULE InputLayer -----------------------------
(***************************************************************************)
(* The conventional layer under the radar: how recently someone touched    *)
(* the keyboard or mouse.  hypridle writes a level to a file; the daemon   *)
(* reads the file on every tick and believes it only while a process named *)
(* hypridle runs, which it looks up at most once per CheckEvery            *)
(* (src/input.go, src/main.go's tick).                                     *)
(***************************************************************************)
EXTENDS Clock

CONSTANTS
  CheckEvery,       \* how long a look at /proc is believed (30 s)
  UnknownCap,       \* how far the age of an unknown input is told apart
  WrittenLevels     \* the levels hypridle writes

ASSUME InputAssumption ==
  /\ CheckEvery \in Nat /\ UnknownCap \in Nat
  /\ Cap >= CheckEvery /\ Cap >= UnknownCap
  /\ WrittenLevels \subseteq {"active", "quiet", "idle", "away"}

VARIABLES
  hypridle,         \* the process runs
  inputFile,        \* the level in the file, "unknown" for none or garbage
  checked,          \* age of the last look at /proc
  alive,            \* what it found
  unknownSince      \* age of the first tick of an unknown input, if it is

inputVars == <<hypridle, inputFile, checked, alive, unknownSince>>

InputTypeOK ==
  /\ hypridle \in BOOLEAN /\ alive \in BOOLEAN
  /\ inputFile \in WrittenLevels \cup {"unknown"}
  /\ checked \in (0..CheckEvery) \cup {Unset}
  /\ unknownSince \in (0..UnknownCap) \cup {Unset}

InputInit ==
  /\ hypridle \in BOOLEAN
  /\ inputFile \in WrittenLevels \cup {"unknown"}
  /\ checked = Unset /\ alive = FALSE
  /\ unknownSince = Unset

InputStart ==
  /\ checked' = Unset /\ alive' = FALSE /\ unknownSince' = Unset
  /\ UNCHANGED <<hypridle, inputFile>>

\* Mutant: the first look is believed for good.
LookOnce ==
  IF checked # Unset THEN UNCHANGED <<checked, alive>>
  ELSE checked' = 0 /\ alive' = hypridle

\* processAlive.get: the cached answer, or a new look.
Look ==
  IF checked # Unset /\ checked < CheckEvery
  THEN UNCHANGED <<checked, alive>>
  ELSE checked' = 0 /\ alive' = hypridle

\* readInput, after Look.
ReadInput == IF alive' THEN inputFile ELSE "unknown"

\* The tick's part: look, read, and time an unknown input.
InputTick ==
  /\ Look
  /\ unknownSince' = IF ReadInput # "unknown" THEN Unset
                     ELSE IF unknownSince = Unset THEN 0 ELSE unknownSince
  /\ UNCHANGED <<hypridle, inputFile>>

\* The unknownFor the tick hands to Want.
UnknownFor == IF unknownSince' = Unset THEN 0 ELSE unknownSince'

InputElapse ==
  /\ checked' = AtMost(Older(checked), CheckEvery)
  /\ unknownSince' = AtMost(Older(unknownSince), UnknownCap)
  /\ UNCHANGED <<hypridle, inputFile, alive>>

(* hypridle: external.  A listener writes a level; the process dies and is  *)
(* restarted, which leaves the file as it was until a listener runs again.  *)

Listener(level) ==
  /\ hypridle
  /\ inputFile' = level
  /\ UNCHANGED <<hypridle, checked, alive, unknownSince>>

HypridleDies ==
  /\ hypridle /\ hypridle' = FALSE
  /\ UNCHANGED <<inputFile, checked, alive, unknownSince>>

HypridleStarts ==
  /\ ~hypridle /\ hypridle' = TRUE
  /\ UNCHANGED <<inputFile, checked, alive, unknownSince>>
=============================================================================
