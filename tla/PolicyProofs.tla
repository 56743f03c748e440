---------------------------- MODULE PolicyProofs ----------------------------
(***************************************************************************)
(* What the policy guarantees for every setting of its timers: the safety  *)
(* properties of PolicyHistory.tla, from one inductive invariant.          *)
(***************************************************************************)
EXTENDS PolicyHistory, PolicyLemmas

\* Every over-threshold frame in `recent` is at least as old as the newest
\* frame that showed a body.
HitsAreBodies == \A i \in 1..ConfirmFrames : hotAge <= recent[i]

\* A raw-present run holds no raw-absent frame.
RunIsUnbroken == raw => rawSince <= emptyAge

\* While present, the clock that absence is measured by never lags behind
\* the last raw-present frame, was restarted by a reading no staler than the
\* confirmation window, and had not run out when the last frame came in.
PresenceIsDated ==
  AtDesk => /\ confirmedAt <= sightedAge
            /\ hotAge <= confirmedAt + ConfirmWindow
            /\ confirmedAt < lastFrame + MaxAbsence

\* The same for the clock that runs while there is no verdict.
EmptinessIsDated ==
  ~presentKnown /\ absentSince # Unset => absentSince <= sightedAge

IndInv ==
  HistoryTypeOK /\ HitsAreBodies /\ RunIsUnbroken
  /\ PresenceIsDated /\ EmptinessIsDated

-----------------------------------------------------------------------------
(* Frames *)

\* A raw-present reading is backed by a body within the window.
LEMMA RawMeansBody ==
  ASSUME IndInv, NEW f \in FrameKinds, RawPresent(f)
  PROVE  ShowsBody(f) \/ hotAge <= ConfirmWindow
<1>1. CASE f \in {"hot", "near"}
  BY <1>1 DEF ShowsBody
<1>2. CASE f = "quiet" /\ recent[ConfirmFrames] <= ConfirmWindow
  BY <1>2, PolicyAssumption, SMT
     DEF IndInv, HitsAreBodies, HistoryTypeOK, TypeOK, Age
<1>3. QED
  BY <1>1, <1>2 DEF RawPresent, Confirmed

\* What a frame does whatever the verdict.
LEMMA SenseFrame ==
  ASSUME IndInv, NEW f \in FrameKinds, Sense(f)
  PROVE  /\ raw' \in BOOLEAN /\ rawSince' \in Age /\ lastFrame' = 0
         /\ absence' = absence
         /\ recent' \in [1..ConfirmFrames -> Age]
         /\ HitsAreBodies' /\ RunIsUnbroken'
         /\ raw' => hotAge' <= ConfirmWindow /\ sightedAge' = 0
         /\ hotAge' <= hotAge
         /\ ~raw' => sightedAge' = sightedAge
         /\ hotAge' \in Age /\ sightedAge' \in Age /\ emptyAge' \in Age
         /\ streamAge' \in Age /\ hotSince' \in 0..ConfirmFrames
<1> USE DEF Sense, NoteFrame
<1>1. raw' \in BOOLEAN /\ rawSince' \in Age /\ lastFrame' = 0
      /\ absence' = absence
  BY SomeAge DEF Observe, RawPresent, IndInv, HistoryTypeOK, TypeOK
<1>2. recent' \in [1..ConfirmFrames -> Age]
  BY RecentAfterType DEF Observe, IndInv, HistoryTypeOK
<1>3. hotAge' \in Age /\ sightedAge' \in Age /\ emptyAge' \in Age
      /\ streamAge' \in Age
  BY SomeAge DEF IndInv, HistoryTypeOK
<1>4. hotSince' \in 0..ConfirmFrames
  BY PolicyAssumption, SMT DEF AtMost, IndInv, HistoryTypeOK
<1>5. hotAge' <= hotAge
  BY SMT DEF IndInv, HistoryTypeOK, Age
<1>6. HitsAreBodies'
  <2>1. CASE f = "hot"
    BY <2>1, <1>2, SMT DEF HitsAreBodies, ShowsBody, Age
  <2>2. CASE f # "hot"
    BY <2>2, <1>3, <1>5, SMT
       DEF Observe, RecentAfter, HitsAreBodies, IndInv, HistoryTypeOK,
           TypeOK, Age
  <2>3. QED BY <2>1, <2>2
<1>7. RunIsUnbroken'
  BY <1>3, SMT DEF Observe, RunIsUnbroken, IndInv, HistoryTypeOK, TypeOK, Age
<1>8. raw' => hotAge' <= ConfirmWindow /\ sightedAge' = 0
  <2> SUFFICES ASSUME raw' PROVE hotAge' <= ConfirmWindow /\ sightedAge' = 0
    OBVIOUS
  <2>1. ShowsBody(f) \/ hotAge <= ConfirmWindow
    BY RawMeansBody DEF Observe
  <2>2. 0 <= ConfirmWindow
    BY PolicyAssumption, SMT
  <2>3. QED
    BY <2>1, <2>2
<1>9. ~raw' => sightedAge' = sightedAge
  OBVIOUS
<1>10. QED
  BY <1>1, <1>2, <1>3, <1>4, <1>5, <1>6, <1>7, <1>8, <1>9

-----------------------------------------------------------------------------
(* The invariant *)

LEMMA InitIndInv == Init => IndInv
<1> SUFFICES ASSUME Init PROVE IndInv
  OBVIOUS
<1> USE DEF Init, PolicyInit, HistoryInit
<1>1. HistoryTypeOK
  <2>1. recent \in [1..ConfirmFrames -> Age]
    BY SomeAge
  <2>2. hotSince \in 0..ConfirmFrames
    BY PolicyAssumption, SMT
  <2>3. QED
    BY <2>1, <2>2, SomeAge DEF HistoryTypeOK, TypeOK, Stamp
<1>2. HitsAreBodies
  BY CapAssumption, SMT DEF HitsAreBodies
<1>3. RunIsUnbroken /\ PresenceIsDated /\ EmptinessIsDated
  BY DEF RunIsUnbroken, PresenceIsDated, EmptinessIsDated, AtDesk
<1>4. QED
  BY <1>1, <1>2, <1>3 DEF IndInv

\* One step per thing a frame can do to the verdict.
LEMMA SenseIndInv ==
  ASSUME IndInv, NEW f \in FrameKinds, Sense(f)
  PROVE  IndInv'
<1> USE SenseFrame
<1>a. absence \in 1..MaxAbsence
  BY PolicyAssumption DEF IndInv, HistoryTypeOK, TypeOK
<1>t. HistoryTypeOK'
  BY ObserveType DEF Sense, IndInv, HistoryTypeOK
<1> USE DEF IndInv, HistoryTypeOK, TypeOK, AtDesk
<1>1. CASE SeedPresent
  <2>1. PresenceIsDated' /\ EmptinessIsDated'
    BY <1>1, <1>a, PolicyAssumption, SMT
       DEF SeedPresent, PresenceIsDated, EmptinessIsDated, Age
  <2>2. QED BY <1>t, <2>1
<1>2. CASE EarnAbsence
  <2>1. PresenceIsDated' /\ EmptinessIsDated'
    BY <1>2, SomeAge, SMT
       DEF EarnAbsence, PresenceIsDated, EmptinessIsDated, Age, Unset
  <2>2. QED BY <1>t, <2>1
<1>3. CASE Renew
  <2>1. PresenceIsDated' /\ EmptinessIsDated'
    BY <1>3, <1>a, PolicyAssumption, SMT
       DEF Renew, PresenceIsDated, EmptinessIsDated, Age
  <2>2. QED BY <1>t, <2>1
<1>4. CASE Arrive
  <2>1. presentKnown' /\ confirmedAt' = 0 /\ sightedAge' = 0
        /\ lastFrame' = 0 /\ hotAge' <= ConfirmWindow
    BY <1>4 DEF Arrive
  <2>2. PresenceIsDated' /\ EmptinessIsDated'
    BY <1>t, <2>1, <1>a, PolicyAssumption, SMT
       DEF PresenceIsDated, EmptinessIsDated, Age
  <2>3. QED BY <1>t, <2>2
<1>5. CASE Depart
  BY <1>5, <1>t DEF Depart, PresenceIsDated, EmptinessIsDated
<1>6. CASE Keep
  <2>1. EmptinessIsDated'
    BY <1>6 DEF Keep, verdictVars, EmptinessIsDated
  <2>2. AtDesk' => AtDesk /\ ~raw' /\ confirmedAt < absence
    BY <1>6 DEF Keep, verdictVars
  <2>3. confirmedAt' = confirmedAt /\ lastFrame' = 0 /\ hotAge' <= hotAge
    BY <1>6 DEF Keep, verdictVars
  <2>4. ASSUME AtDesk' PROVE PresenceIsDated'
    <3>1. sightedAge' = sightedAge /\ confirmedAt < absence
      BY <2>2, <2>4
    <3>2. confirmedAt <= sightedAge /\ hotAge <= confirmedAt + ConfirmWindow
      BY <2>2, <2>4 DEF PresenceIsDated
    <3>3. QED
      BY <3>1, <3>2, <2>3, <1>a, PolicyAssumption, SMT
         DEF PresenceIsDated, Age
  <2>5. QED BY <1>t, <2>1, <2>4 DEF PresenceIsDated
<1>7. QED
  BY <1>1, <1>2, <1>3, <1>4, <1>5, <1>6 DEF Sense, Observe

LEMMA ElapseIndInv ==
  ASSUME IndInv, Elapse
  PROVE  IndInv'
<1> USE DEF Elapse, PolicyElapse, IndInv
<1>1. HistoryTypeOK'
  BY OlderAge, OlderStamp, PolicyAssumption, SMT DEF HistoryTypeOK, TypeOK
<1>2. HitsAreBodies'
  BY OlderKeepsOrder, PolicyAssumption, SMT
     DEF HitsAreBodies, HistoryTypeOK, TypeOK
<1>3. RunIsUnbroken'
  BY OlderKeepsOrder, SMT DEF RunIsUnbroken, HistoryTypeOK, TypeOK
<1>4. PresenceIsDated'
  BY MaxAbsencePositive, PolicyAssumption, OlderKeepsOrder, SMT
     DEF PresenceIsDated, AtDesk, HistoryTypeOK, TypeOK
<1>5. EmptinessIsDated'
  BY OlderStamp, OlderKeepsOrder, SMT
     DEF EmptinessIsDated, HistoryTypeOK, TypeOK, Stamp, Unset
<1>6. QED
  BY <1>1, <1>2, <1>3, <1>4, <1>5

LEMMA ResumeIndInv ==
  ASSUME IndInv, Resume
  PROVE  IndInv'
<1> USE DEF Resume, Reset, IndInv
<1>1. HistoryTypeOK'
  <2>1. hotSince' \in 0..ConfirmFrames
    BY PolicyAssumption, SMT
  <2>2. QED
    BY <2>1, SomeAge DEF HistoryTypeOK, TypeOK, Stamp
<1>2. HitsAreBodies' /\ RunIsUnbroken' /\ PresenceIsDated'
      /\ EmptinessIsDated'
  BY DEF HitsAreBodies, RunIsUnbroken, PresenceIsDated, EmptinessIsDated,
         AtDesk
<1>3. QED
  BY <1>1, <1>2

LEMMA OverrideIndInv ==
  ASSUME IndInv, NEW d \in Absences, Override(d)
  PROVE  IndInv'
<1> USE DEF Override, SetAbsence, verdictVars, historyVars, IndInv
<1>1. HistoryTypeOK'
  BY DEF HistoryTypeOK, TypeOK
<1>2. HitsAreBodies' /\ RunIsUnbroken' /\ PresenceIsDated'
      /\ EmptinessIsDated'
  BY DEF HitsAreBodies, RunIsUnbroken, PresenceIsDated, EmptinessIsDated,
         AtDesk
<1>3. QED
  BY <1>1, <1>2

LEMMA NextIndInv == IndInv /\ [Next]_vars => IndInv'
<1> SUFFICES ASSUME IndInv, [Next]_vars PROVE IndInv'
  OBVIOUS
<1>1. CASE UNCHANGED vars
  BY <1>1 DEF vars, policyVars, historyVars, IndInv, HistoryTypeOK, TypeOK,
              HitsAreBodies, RunIsUnbroken, PresenceIsDated,
              EmptinessIsDated, AtDesk
<1>2. QED
  BY <1>1, SenseIndInv, ResumeIndInv, OverrideIndInv, ElapseIndInv DEF Next

\* The policy's dates bound the ages of the frames behind its verdict (Observe).
THEOREM Invariant == Spec => []IndInv
  BY InitIndInv, NextIndInv, PTL DEF Spec

-----------------------------------------------------------------------------
(* The results *)

\* Every variable of the policy keeps to its type.
THEOREM TypeCorrect == Spec => []HistoryTypeOK
<1>1. IndInv => HistoryTypeOK
  BY DEF IndInv
<1>2. QED
  BY <1>1, Invariant, PTL

\* A healthy radar's "present" is never older news than the away timer, the
\* confirmation window and the tolerated silence together (Observe).
THEOREM NoGhost == Spec => []NoGhostPresence
<1>1. IndInv => NoGhostPresence
  BY PolicyAssumption, SMT
     DEF IndInv, NoGhostPresence, PresenceIsDated, AtDesk, SensorStale,
         HistoryTypeOK, TypeOK, Age
<1>2. QED
  BY <1>1, Invariant, PTL

\* A verdict turns to "away" only after the whole away timer without a
\* raw-present reading.
THEOREM Departures == Spec => DepartureIsEarned
<1>1. IndInv /\ [Next]_vars => [~Away /\ Away' => sightedAge' >= absence']_vars
  <2> SUFFICES ASSUME IndInv, Next, ~Away, Away'
               PROVE  sightedAge' >= absence'
    OBVIOUS
  <2>1. ASSUME NEW f \in FrameKinds, Sense(f) PROVE sightedAge' >= absence'
    <3>1. Depart \/ (EarnAbsence /\ absentSince' >= absence)
      <4>1. ~SeedPresent /\ ~Renew /\ ~Arrive
        BY DEF Away, SeedPresent, Renew, Arrive
      <4>2. ~Keep
        <5>1. Keep => present' = present /\ presentKnown' = presentKnown
          BY SMT DEF Keep, verdictVars
        <5>2. QED
          BY <5>1 DEF Away
      <4>3. EarnAbsence => absentSince' >= absence
        BY DEF Away, EarnAbsence
      <4>4. QED
        BY <2>1, <4>1, <4>2, <4>3 DEF Sense, Observe
    <3>2. ~raw' /\ sightedAge' = sightedAge /\ absence' = absence
      BY <2>1, <3>1, SenseFrame DEF Depart, EarnAbsence
    <3>3. CASE Depart
      BY <3>2, <3>3, PolicyAssumption, SMT
         DEF Depart, IndInv, PresenceIsDated, AtDesk, HistoryTypeOK, TypeOK,
             Age
    <3>4. CASE EarnAbsence /\ absentSince' >= absence
      BY <3>2, <3>4, PolicyAssumption, SMT
         DEF EarnAbsence, IndInv, EmptinessIsDated, HistoryTypeOK, TypeOK,
             Age, Stamp, Unset
    <3>5. QED BY <3>1, <3>3, <3>4
  <2>2. ~ Resume /\ ~ Elapse /\ ~ \E d \in Absences : Override(d)
    BY DEF Resume, Reset, Elapse, PolicyElapse, Override, SetAbsence,
           verdictVars, Away
  <2>3. QED BY <2>1, <2>2 DEF Next
<1>2. QED
  BY <1>1, Invariant, PTL DEF Spec, DepartureIsEarned

\* A known "away" turns to "present" only after Debounce without a
\* raw-absent frame.
THEOREM Arrivals == Spec => ArrivalIsDebounced
<1>1. IndInv /\ [Next]_vars => [Away /\ AtDesk' => emptyAge' >= Debounce]_vars
  <2> SUFFICES ASSUME IndInv, Next, Away, AtDesk'
               PROVE  emptyAge' >= Debounce
    OBVIOUS
  <2>1. ASSUME NEW f \in FrameKinds, Sense(f) PROVE emptyAge' >= Debounce
    <3>1. Arrive
      BY <2>1 DEF Sense, Observe, Away, AtDesk, SeedPresent, EarnAbsence,
                  Renew, Arrive, Depart, Keep, verdictVars
    <3>2. rawSince' \in Age /\ emptyAge' \in Age /\ rawSince' <= emptyAge'
      BY <2>1, <3>1, SenseFrame DEF RunIsUnbroken, Arrive
    <3>3. QED
      BY <3>1, <3>2, PolicyAssumption, SMT DEF Arrive, Age
  <2>2. ~ Resume /\ ~ Elapse /\ ~ \E d \in Absences : Override(d)
    BY DEF Resume, Reset, Elapse, PolicyElapse, Override, SetAbsence,
           verdictVars, Away, AtDesk
  <2>3. QED BY <2>1, <2>2 DEF Next
<1>2. QED
  BY <1>1, Invariant, PTL DEF Spec, ArrivalIsDebounced

-----------------------------------------------------------------------------
(* The abstraction *)

\* A frame is a reading, present or empty, whatever it was read from.
LEMMA SenseIsAReading ==
  ASSUME IndInv, NEW f \in FrameKinds, Sense(f)
  PROVE  Simple!ReadsPresent \/ Simple!ReadsEmpty
<1> USE DEF Simple!ReadsPresent, Simple!ReadsEmpty, Simple!Run, RunAge
<1>0. /\ confirmedAt \in Int /\ confirmedAt # Unset /\ absence \in Int
      /\ rawSince \in Int /\ rawSince # Unset /\ Debounce \in Int
  BY PolicyAssumption, SMT
     DEF IndInv, HistoryTypeOK, TypeOK, Age, Unset
<1>1. absence' = absence /\ rawSince' = (IF raw' /\ ~raw THEN 0 ELSE rawSince)
  BY DEF Sense, Observe
<1>2. Simple!Unset = Unset
  BY DEF Simple!Unset, Unset
<1>3. CASE SeedPresent
  BY <1>1, <1>3 DEF SeedPresent
<1>4. CASE EarnAbsence
  BY <1>0, <1>1, <1>2, <1>4 DEF EarnAbsence
<1>5. CASE Renew
  BY <1>1, <1>5 DEF Renew
<1>6. CASE Arrive
  BY <1>0, <1>1, <1>2, <1>6 DEF Arrive
<1>7. CASE Depart
  BY <1>0, <1>1, <1>2, <1>7 DEF Depart
<1>8. CASE Keep
  <2>1. /\ presentKnown' = presentKnown /\ present' = present
        /\ confirmedAt' = confirmedAt /\ presentKnown
    BY <1>8 DEF Keep, verdictVars
  <2>2. CASE ~present /\ raw' /\ rawSince' < Debounce
    <3>1. raw => rawSince < Debounce
      BY <1>1, <2>2
    <3>2. ~raw => 0 < Debounce /\ rawSince' = 0
      BY <1>1, <2>2
    <3>3. QED
      BY <1>0, <1>1, <1>2, <2>1, <2>2, <3>1, <3>2
  <2>3. CASE ~present /\ ~raw'
    BY <1>1, <1>2, <2>1, <2>3
  <2>4. CASE present /\ ~raw' /\ confirmedAt < absence
    <3>1. ~(confirmedAt >= absence)
      BY <1>0, <2>4
    <3>2. QED
      BY <1>0, <1>1, <1>2, <2>1, <2>4, <3>1
  <2>5. QED
    BY <1>8, <2>2, <2>3, <2>4 DEF Keep
<1>9. QED
  BY <1>3, <1>4, <1>5, <1>6, <1>7, <1>8 DEF Sense, Observe

\* Of the policy's stamps one decides at a time: every step of the policy is a
\* step of Verdict, or none of its business, for all timers and any frames, and
\* of its fields no other than the one that RunAge names has a say
\* (policy.go:78-133, 332).
THEOREM PolicyIsAVerdict == Spec => IsAVerdict
<1>1. Init => Simple!Init
  BY DEF Init, PolicyInit, Simple!Init, Simple!Unset, Unset, RunAge
<1>2. IndInv /\ [Next]_vars => [Simple!Next]_(Simple!vars)
  <2> SUFFICES ASSUME IndInv, [Next]_vars
               PROVE  [Simple!Next]_(Simple!vars)
    OBVIOUS
  <2>1. ASSUME NEW f \in FrameKinds, Sense(f) PROVE Simple!Next
    BY <2>1, SenseIsAReading DEF Simple!Next
  <2>2. CASE Resume
    <3>1. Simple!Forget
      BY <2>2 DEF Resume, Reset, Simple!Forget, Simple!Unset, Unset, RunAge
    <3>2. QED
      BY <3>1 DEF Simple!Next
  <2>3. ASSUME NEW d \in Absences, Override(d) PROVE Simple!Next
    <3>1. Simple!SetTimer(d)
      BY <2>3 DEF Override, SetAbsence, verdictVars, Simple!SetTimer, RunAge
    <3>2. QED
      BY <3>1 DEF Simple!Next
  <2>4. CASE Elapse
    <3>1. Older(Unset) = Unset
      BY CapAssumption, SMT DEF Older, Unset
    <3>2. Simple!Elapse
      BY <2>4, <3>1 DEF Elapse, PolicyElapse, Older, Simple!Elapse,
                        Simple!Older, RunAge
    <3>3. QED
      BY <3>2 DEF Simple!Next
  <2>5. CASE UNCHANGED vars
    BY <2>5 DEF vars, policyVars, Simple!vars, RunAge
  <2>6. QED
    BY <2>1, <2>2, <2>3, <2>4, <2>5 DEF Next
<1>3. QED
  BY <1>1, <1>2, Invariant, PTL DEF Spec, IsAVerdict, Simple!Spec
=============================================================================
