---------------------------- MODULE PolicyHistory ----------------------------
(***************************************************************************)
(* The policy on its own, fed by any sensor: frames of any kind in any     *)
(* order, outages of any length, suspends, and a user moving the away      *)
(* timer.  History variables record what the sensor really delivered, in   *)
(* terms the policy's own fields play no part in, so that the properties   *)
(* relate the verdict to the frames and not to the policy's bookkeeping.   *)
(***************************************************************************)
EXTENDS Policy

VARIABLES
  hotAge,      \* age of the newest frame that shows a body (hot or near)
  hotSince,    \* such frames since start or the last Reset, up to ConfirmFrames
  sightedAge,  \* age of the last frame read raw-present
  emptyAge,    \* age of the last frame read raw-absent
  streamAge    \* age of the first frame since the radar was last out

historyVars == <<hotAge, hotSince, sightedAge, emptyAge, streamAge>>

vars == <<policyVars, historyVars>>

ShowsBody(f) == f \in {"hot", "near"}

HistoryInit ==
  /\ hotAge = Cap /\ hotSince = 0
  /\ sightedAge = Cap /\ emptyAge = Cap
  /\ streamAge = Cap

NoteFrame(f) ==
  /\ hotAge' = IF ShowsBody(f) THEN 0 ELSE hotAge
  /\ hotSince' = AtMost(IF ShowsBody(f) THEN hotSince + 1 ELSE hotSince,
                        ConfirmFrames)
  /\ sightedAge' = IF raw' THEN 0 ELSE sightedAge
  /\ emptyAge' = IF raw' THEN emptyAge ELSE 0
  /\ streamAge' = IF SensorStale THEN 0 ELSE streamAge

Sense(f) == Observe(f) /\ NoteFrame(f)

Resume == Reset /\ hotSince' = 0
          /\ UNCHANGED <<hotAge, sightedAge, emptyAge, streamAge>>

Override(d) == SetAbsence(d) /\ UNCHANGED historyVars

Elapse ==
  /\ PolicyElapse
  /\ hotAge' = Older(hotAge) /\ sightedAge' = Older(sightedAge)
  /\ emptyAge' = Older(emptyAge) /\ streamAge' = Older(streamAge)
  /\ UNCHANGED hotSince

Init == PolicyInit /\ HistoryInit

Next ==
  \/ \E f \in FrameKinds : Sense(f)
  \/ Resume
  \/ \E d \in Absences : Override(d)
  \/ Elapse

Spec == Init /\ [][Next]_vars

HistoryTypeOK ==
  /\ TypeOK
  /\ hotAge \in Age /\ sightedAge \in Age /\ emptyAge \in Age
  /\ streamAge \in Age
  /\ hotSince \in 0..ConfirmFrames

-----------------------------------------------------------------------------
(* Safety *)

Away == presentKnown /\ ~present

AtDesk == presentKnown /\ present

\* A healthy radar never says "present" on the strength of old news: while it
\* does, some frame showed a body within the away timer, the confirmation
\* window and the tolerated silence together.  Quiet frames alone cannot
\* renew a presence for ever (policy.go:118 lets them for the window).
NoGhostPresence ==
  AtDesk /\ ~SensorStale => hotAge < MaxAbsence + ConfirmWindow + StaleAfter

\* A verdict turns to "away" only when the whole away timer in force has
\* passed since the desk last read raw-present: through restarts, resumes,
\* outages and changes of the timer (policy.go:98-101, 126).
DepartureIsEarned == [][~Away /\ Away' => sightedAge' >= absence']_vars

\* A known "away" turns to "present" only after Debounce without a single
\* raw-absent frame (policy.go:117-123).
ArrivalIsDebounced == [][Away /\ AtDesk' => emptyAge' >= Debounce]_vars

-----------------------------------------------------------------------------
(* Liveness.  Time passes, and a sensor that is plugged in streams about   *)
(* ten frames a second, well over one in a unit of time.                   *)

Frames == \E f \in FrameKinds : Sense(f)

FairSpec == Spec /\ WF_vars(Elapse) /\ WF_lastFrame(Frames)

Streaming == lastFrame <= 1

AwakeFromNowOn == [][~Resume]_vars

QuietFromNowOn == [][\A f \in FrameKinds : Sense(f) => ~ShowsBody(f)]_vars

BodyFromNowOn == [][\A f \in FrameKinds : Sense(f) => ShowsBody(f)]_vars

\* An empty room ends "away", whatever the sensor saw before and however the
\* timer is moved meanwhile.
EmptyRoomGoesAway ==
  <>QuietFromNowOn /\ <>AwakeFromNowOn => <>[]Away

\* A body in front of a streaming sensor ends "present".
BodyIsSeen ==
  <>BodyFromNowOn /\ <>AwakeFromNowOn /\ <>[]Streaming => <>[]AtDesk

-----------------------------------------------------------------------------
(* The abstraction *)

\* Which of the policy's stamps the next reading is compared with.
RunAge ==
  IF ~presentKnown THEN absentSince
  ELSE IF present THEN confirmedAt
  ELSE IF raw THEN rawSince ELSE Unset

Simple == INSTANCE Verdict WITH
            Timers <- Absences, timer <- absence, since <- RunAge,
            verdict <- IF ~presentKnown THEN "unknown"
                       ELSE IF present THEN "present" ELSE "away"

\* Of all that the policy keeps one stamp decides at a time, and nothing left
\* over from an earlier verdict, an outage or a resume ever does: the verdict
\* turns at the first reading after its timer has run out, neither earlier
\* nor later, and on nothing but a reading or a resume (policy.go:78-133, 332).
IsAVerdict == Simple!Spec

-----------------------------------------------------------------------------
(* What the documentation says and the code does not do *)

\* policy.go:17 ("raw-absent this long -> absent") and docs/flags.md: the desk
\* reads empty for the whole away timer before the verdict turns.  In the code
\* the timer also runs while the radar is out and has "no opinion", so the
\* first raw-absent frame after an outage can turn the verdict by itself.
AbsenceIsWatched == [][AtDesk /\ Away' => streamAge' >= absence']_vars

\* policy.go:330: Reset forgets the timing state, because after a resume the
\* last reading is arbitrarily old.  So a verdict formed after it should rest
\* on frames that came after it; `recent` is not forgotten.
FreshStartAfterReset == AtDesk => hotSince >= ConfirmFrames
=============================================================================
