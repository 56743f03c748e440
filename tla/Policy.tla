------------------------------- MODULE Policy -------------------------------
(***************************************************************************)
(* The presence policy of src/policy.go: a stream of sensor frames becomes *)
(* a debounced verdict (present, away, or not known yet), and the verdict  *)
(* together with the input level becomes the wanted TV state.              *)
(*                                                                         *)
(* A frame is what the policy tells apart of it:                           *)
(*   "hot"    an engineering frame with near-gate energy >= EnergyMin      *)
(*   "quiet"  an engineering frame below it                                *)
(*   "near"   a basic (or ToF) frame with a target within MaxDistance      *)
(*   "far"    a basic frame without one                                    *)
(* The timestamps of struct Policy keep their names and hold ages          *)
(* (Clock.tla).  A zero lastFrame, confirmedAt, presentAt or rawSince is   *)
(* the age Cap: the code reads them only through comparisons that the zero *)
(* time answers the same way.                                              *)
(***************************************************************************)
EXTENDS Clock

CONSTANTS
  Absences,         \* the away timers the flag and the live override can set
  MaxAbsence,       \* the longest of them
  Debounce,         \* raw-present this long -> present
  StaleAfter,       \* no frame this long -> the radar is out
  Fade,             \* the screen dims this long before the timer runs out
  Blackout,         \* the TV stays on behind black this long after departure
  InputUnknownCap,  \* the radar alone keeps the TV on at most this long
  ConfirmFrames,    \* hot frames that make one raw-present reading ...
  ConfirmWindow,    \* ... when they are at most this old
  FrameKinds        \* the frames this sensor sends

ASSUME PolicyAssumption ==
  /\ Absences \subseteq 1..MaxAbsence
  /\ Absences # {}
  /\ MaxAbsence \in Nat /\ Debounce \in Nat /\ StaleAfter \in Nat
  /\ Fade \in Nat /\ Blackout \in Nat /\ InputUnknownCap \in Nat
  /\ ConfirmFrames \in Nat \ {0}
  /\ ConfirmWindow \in Nat
  /\ FrameKinds \subseteq {"hot", "quiet", "near", "far"}

\* Ages saturate above everything they are compared with.
ASSUME CapAboveThresholds ==
  Cap > MaxAbsence /\ Cap > Debounce /\ Cap > StaleAfter
  /\ Cap > ConfirmWindow /\ Cap > Blackout /\ Cap > InputUnknownCap

VARIABLES
  absence,        \* the away timer in force
  lastFrame,      \* age of the last frame
  raw,            \* the undebounced reading
  rawSince,       \* age of the current raw-present run
  recent,         \* recent[i]: age of the i-th newest hot frame
  confirmedAt,    \* age of the frame that last renewed presence
  present,        \* the debounced verdict ...
  presentKnown,   \* ... once there is one
  presentAt,      \* age of the verdict
  absentSince     \* age of the first empty frame while there is none

policyVars == <<absence, lastFrame, raw, rawSince, recent, confirmedAt,
                present, presentKnown, presentAt, absentSince>>

verdictVars == <<present, presentKnown, presentAt, confirmedAt, absentSince>>

TypeOK ==
  /\ absence \in Absences
  /\ lastFrame \in Age /\ rawSince \in Age
  /\ confirmedAt \in Age /\ presentAt \in Age
  /\ absentSince \in Stamp
  /\ recent \in [1..ConfirmFrames -> Age]
  /\ raw \in BOOLEAN /\ present \in BOOLEAN /\ presentKnown \in BOOLEAN

PolicyInit ==
  /\ absence \in Absences
  /\ lastFrame = Cap /\ rawSince = Cap /\ confirmedAt = Cap /\ presentAt = Cap
  /\ absentSince = Unset
  /\ recent = [i \in 1..ConfirmFrames |-> Cap]
  /\ raw = FALSE /\ present = FALSE /\ presentKnown = FALSE

-----------------------------------------------------------------------------
(* Observe *)

(* Each operator marked "Mutant" is the definition that follows it with a   *)
(* plausible bug, for checking that a property would notice; nothing else   *)
(* uses it.                                                                 *)

\* Mutant: the list is trimmed one entry too late.
RecentAfterUntrimmed(f) ==
  IF f = "hot"
  THEN [i \in 1..(ConfirmFrames + 1) |-> IF i = 1 THEN 0
                                         ELSE recent[AtMost(i - 1, ConfirmFrames)]]
  ELSE recent

\* p.recent once frame f is in.  Only the ConfirmFrames newest matter: the
\* slice, trimmed to ConfirmWindow, is long enough iff the ConfirmFrames-th
\* newest is young enough.
RecentAfter(f) ==
  IF f = "hot"
  THEN [i \in 1..ConfirmFrames |-> IF i = 1 THEN 0 ELSE recent[i - 1]]
  ELSE recent

\* Mutant: hot frames count however old they are.
ConfirmedAtAnyAge(hits) == hits[ConfirmFrames] < Cap

Confirmed(hits) == hits[ConfirmFrames] <= ConfirmWindow

\* A quiet frame still reads present while enough hot ones are in the window.
RawPresent(f) ==
  \/ f = "near"
  \/ f = "hot" /\ Confirmed(RecentAfter(f))
  \/ f = "quiet" /\ ConfirmFrames > 1 /\ Confirmed(recent)

\* With no verdict, a raw-present reading is one.
SeedPresent ==
  /\ ~presentKnown /\ raw'
  /\ present' = TRUE /\ presentKnown' = TRUE
  /\ presentAt' = 0 /\ confirmedAt' = 0
  /\ absentSince' = Unset

\* Mutant: every empty frame restarts the wait for the first verdict.
EarnAbsenceAnew ==
  /\ ~presentKnown /\ ~raw'
  /\ absentSince' = 0
  /\ IF absentSince' >= absence
     THEN present' = FALSE /\ presentKnown' = TRUE /\ presentAt' = 0
     ELSE UNCHANGED <<present, presentKnown, presentAt>>
  /\ UNCHANGED confirmedAt

\* With no verdict, absence is earned over the whole timer.
EarnAbsence ==
  /\ ~presentKnown /\ ~raw'
  /\ absentSince' = IF absentSince = Unset THEN 0 ELSE absentSince
  /\ IF absentSince' >= absence
     THEN present' = FALSE /\ presentKnown' = TRUE /\ presentAt' = 0
     ELSE UNCHANGED <<present, presentKnown, presentAt>>
  /\ UNCHANGED confirmedAt

Renew ==
  /\ presentKnown /\ present /\ raw'
  /\ confirmedAt' = 0
  /\ UNCHANGED <<present, presentKnown, presentAt, absentSince>>

\* Mutant: an arrival leaves the absence clock where the last presence had it.
ArriveOnOldClock ==
  /\ presentKnown /\ ~present /\ raw' /\ rawSince' >= Debounce
  /\ present' = TRUE /\ presentAt' = 0
  /\ UNCHANGED <<presentKnown, confirmedAt, absentSince>>

\* Mutant: the run's start is compared before this frame has set it.
ArriveTooSoon ==
  /\ presentKnown /\ ~present /\ raw' /\ rawSince >= Debounce
  /\ present' = TRUE /\ presentAt' = 0 /\ confirmedAt' = 0
  /\ UNCHANGED <<presentKnown, absentSince>>

Arrive ==
  /\ presentKnown /\ ~present /\ raw' /\ rawSince' >= Debounce
  /\ present' = TRUE /\ presentAt' = 0 /\ confirmedAt' = 0
  /\ UNCHANGED <<presentKnown, absentSince>>

Depart ==
  /\ presentKnown /\ present /\ ~raw' /\ confirmedAt >= absence
  /\ present' = FALSE /\ presentAt' = 0
  /\ UNCHANGED <<presentKnown, confirmedAt, absentSince>>

\* A verdict this frame leaves as it is.
Keep ==
  /\ presentKnown
  /\ \/ ~present /\ raw' /\ rawSince' < Debounce
     \/ ~present /\ ~raw'
     \/ present /\ ~raw' /\ confirmedAt < absence
  /\ UNCHANGED verdictVars

\* Mutant: every raw-present frame starts the run over.
ObserveNewRun(f) ==
  /\ lastFrame' = 0
  /\ recent' = RecentAfter(f)
  /\ raw' = RawPresent(f)
  /\ rawSince' = IF raw' THEN 0 ELSE rawSince
  /\ SeedPresent \/ EarnAbsence \/ Renew \/ Arrive \/ Depart \/ Keep
  /\ UNCHANGED absence

Observe(f) ==
  /\ lastFrame' = 0
  /\ recent' = RecentAfter(f)
  /\ raw' = RawPresent(f)
  /\ rawSince' = IF raw' /\ ~raw THEN 0 ELSE rawSince
  /\ SeedPresent \/ EarnAbsence \/ Renew \/ Arrive \/ Depart \/ Keep
  /\ UNCHANGED absence

-----------------------------------------------------------------------------
(* The other writers of the policy's state *)

\* Mutant: the empty run from before the suspend still counts.
ResetKeepsAbsence ==
  /\ lastFrame' = Cap /\ rawSince' = Cap /\ raw' = FALSE
  /\ presentKnown' = FALSE
  /\ UNCHANGED <<absence, recent, confirmedAt, present, presentAt, absentSince>>

\* After resume.  The verdict's value and stamps and `recent` stay behind.
Reset ==
  /\ lastFrame' = Cap /\ rawSince' = Cap /\ raw' = FALSE
  /\ presentKnown' = FALSE /\ absentSince' = Unset
  /\ UNCHANGED <<absence, recent, confirmedAt, present, presentAt>>

\* A new process starts from nothing.
PolicyStart ==
  /\ absence' \in Absences
  /\ lastFrame' = Cap /\ rawSince' = Cap /\ confirmedAt' = Cap /\ presentAt' = Cap
  /\ absentSince' = Unset
  /\ recent' = [i \in 1..ConfirmFrames |-> Cap]
  /\ raw' = FALSE /\ present' = FALSE /\ presentKnown' = FALSE

\* The tick applies a changed away-timer override.
SetAbsence(d) ==
  /\ absence' = d
  /\ UNCHANGED <<lastFrame, raw, rawSince, recent, verdictVars>>

PolicyElapse ==
  /\ lastFrame' = Older(lastFrame) /\ rawSince' = Older(rawSince)
  /\ recent' = [i \in 1..ConfirmFrames |-> Older(recent[i])]
  /\ confirmedAt' = Older(confirmedAt) /\ presentAt' = Older(presentAt)
  /\ absentSince' = Older(absentSince)
  /\ UNCHANGED <<absence, raw, present, presentKnown>>

-----------------------------------------------------------------------------
(* What the loop reads of it *)

SensorStale == lastFrame > StaleAfter

\* In twentieths, rounded half up as math.Round does.
FadeLevel ==
  IF ~presentKnown \/ SensorStale \/ Fade = 0 THEN 0
  ELSE IF ~present THEN 20
  ELSE IF raw \/ confirmedAt <= absence - Fade THEN 0
  ELSE LET into == confirmedAt - (absence - Fade)
       IN  IF into >= Fade THEN 20 ELSE (40 * into + Fade) \div (2 * Fade)

Inputs == {"unknown", "active", "quiet", "idle", "away"}

RadarHealthy == presentKnown /\ ~SensorStale

Answer(want, why) == [want |-> want, why |-> why]

Want(in, unknownFor) ==
  CASE in = "away"   -> Answer("off", "input")
    [] in = "active" -> Answer("on", "input")
    [] in \in {"unknown", "quiet", "idle"} /\ RadarHealthy ->
         IF in = "unknown" /\ InputUnknownCap > 0
            /\ unknownFor >= InputUnknownCap
         THEN Answer("off", "input cap")
         ELSE IF present THEN Answer("on", "radar present")
                         ELSE Answer("off", "radar away")
    [] in = "quiet" /\ ~RadarHealthy -> Answer("on", "radar out")
    [] in = "idle" /\ ~RadarHealthy  -> Answer("off", "radar out")
    [] in = "unknown" /\ ~RadarHealthy ->
         IF SensorStale THEN Answer("off", "radar out")
                        ELSE Answer("none", "waiting")

\* Mutant: the blackout never ends.
InBlackoutForGood(answer) ==
  /\ answer.want = "off" /\ answer.why = "radar away"
  /\ Blackout > 0 /\ ~present

InBlackout(answer) ==
  /\ answer.want = "off" /\ answer.why = "radar away"
  /\ Blackout > 0 /\ ~present /\ presentAt < Blackout

HoldBlack(answer) ==
  IF InBlackout(answer) THEN Answer("none", "blackout") ELSE answer
=============================================================================
