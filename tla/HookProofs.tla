----------------------------- MODULE HookProofs -----------------------------
(***************************************************************************)
(* What the hook gate guarantees for every setting of its timers: its      *)
(* variables keep their types, and the light does not answer a phantom.    *)
(***************************************************************************)
EXTENDS HookHistory, PolicyLemmas

-----------------------------------------------------------------------------
(* Types *)

LEMMA HookSetType ==
  ASSUME HookTypeOK, NEW action \in {"on", "off"}, HookSet(action)
  PROVE  HookTypeOK'
<1>1. 0 \in 0..Quick
  BY HookAssumption, SMT
<1>2. QED
  BY <1>1 DEF HookSet, HookTypeOK

LEMMA GateTickType ==
  ASSUME TypeOK_Hooks, NEW in \in Levels, NEW paused, NEW unknownFor,
         GateTick(in, paused, unknownFor)
  PROVE  TypeOK_Hooks'
<1> DEFINE answer == IF paused /\ in # "away" THEN Answer("none", "paused")
                     ELSE Want(in, unknownFor)
<1>1. answer.want \in {"on", "off", "none"}
  BY LevelsAssumption, WantType DEF Answer
<1>2. HookTypeOK'
  <2>1. CASE HookNext(answer) = "none"
    BY <2>1 DEF GateTick, HookTick, hookVars, HookTypeOK, TypeOK_Hooks
  <2>2. CASE HookNext(answer) # "none"
    <3>1. HookNext(answer) \in {"on", "off"}
      BY <1>1, <2>2 DEF HookNext
    <3>2. QED
      BY <2>2, <3>1, HookSetType DEF GateTick, HookTick, TypeOK_Hooks
  <2>3. QED
    BY <2>1, <2>2
<1>3. byRadar' \in BOOLEAN
  BY DEF GateTick, TypeOK_Hooks
<1>4. QED
  BY <1>2, <1>3 DEF GateTick, policyVars, TypeOK, TypeOK_Hooks

LEMMA InitTypeOK == Init => TypeOK_Hooks
<1> SUFFICES ASSUME Init PROVE TypeOK_Hooks
  OBVIOUS
<1>1. 0 \in 0..Quick /\ 0 \in 0..Dwell /\ 0 \in 0..HitsCap
  BY HookAssumption, PolicyAssumption, SMT DEF HitsCap
<1>2. QED
  BY <1>1, PolicyInitType DEF Init, HookInit, HookTypeOK, TypeOK_Hooks

LEMMA NextTypeOK == TypeOK_Hooks /\ [Next]_vars => TypeOK_Hooks'
<1> SUFFICES ASSUME TypeOK_Hooks, [Next]_vars PROVE TypeOK_Hooks'
  OBVIOUS
<1>a. TypeOK /\ HookTypeOK /\ hits \in 0..HitsCap /\ byRadar \in BOOLEAN
  BY DEF TypeOK_Hooks
<1>1. ASSUME NEW f \in FrameKinds, Sense(f) PROVE TypeOK_Hooks'
  <2>1. TypeOK'
    BY <1>a, <1>1, ObserveType DEF Sense
  <2>2. HookTypeOK'
    <3>1. offAt # Unset => offAt \in 0..Quick
      BY <1>a DEF HookTypeOK
    <3>2. AtMost(presentAt, Dwell) \in 0..Dwell /\ 0 \in 0..Dwell
          /\ 0 \in 0..Quick
      BY <1>a, HookAssumption, SMT DEF AtMost, TypeOK, Age
    <3>3. arrivalGap' \in 0..Quick /\ renewal' \in 0..Dwell
      BY <1>a, <1>1, <3>1, <3>2 DEF Sense, HookObserve, HookTypeOK
    <3>4. QED
      BY <1>a, <1>1, <3>3 DEF Sense, HookObserve, HookTypeOK
  <2>3. hits' \in 0..HitsCap
    BY <1>a, <1>1, PolicyAssumption, SMT DEF Sense, HitsCap
  <2>4. QED
    BY <1>a, <1>1, <2>1, <2>2, <2>3 DEF Sense, TypeOK_Hooks
<1>2. ASSUME NEW in \in Levels, Tick(in) PROVE TypeOK_Hooks'
  BY <1>2, GateTickType DEF Tick
<1>3. CASE SleepOff
  <2>1. HookTypeOK'
    BY <1>a, <1>3, HookSetType DEF SleepOff
  <2>2. QED
    BY <1>a, <1>3, <2>1 DEF SleepOff, policyVars, TypeOK, TypeOK_Hooks
<1>4. CASE Resume
  BY <1>a, <1>4, ResetType
     DEF Resume, hookVars, historyVars, HookTypeOK, TypeOK_Hooks
<1>5. CASE Elapse
  <2>1. Quick \in Nat /\ Quick <= Cap
    BY HookAssumption, CapAssumption, SMT
  <2>2. HookTypeOK'
    BY <1>a, <1>5, <2>1, OlderBounded DEF Elapse, HookElapse, HookTypeOK
  <2>3. QED
    BY <1>a, <1>5, <2>2, PolicyElapseType
       DEF Elapse, historyVars, TypeOK_Hooks
<1>6. CASE UNCHANGED vars
  BY <1>a, <1>6 DEF vars, policyVars, hookVars, historyVars, TypeOK,
                    HookTypeOK, TypeOK_Hooks
<1>7. QED
  BY <1>1, <1>2, <1>3, <1>4, <1>5, <1>6 DEF Next

\* Every variable of the gate, the policy and the history keeps its type.
THEOREM TypeCorrect == Spec => []TypeOK_Hooks
  BY InitTypeOK, NextTypeOK, PTL DEF Spec

-----------------------------------------------------------------------------
(* Phantoms *)

AtDesk == presentKnown /\ present

\* Nobody is present without a hot frame since the desk last turned "away".
HitBeforePresence == AtDesk => hits >= 1

\* As long as there is none, no quiet frame can read present: the frames in
\* `recent` are not enough, or a quiet frame never reads present at all.
NoHitNoPresence == hits = 0 => ConfirmFrames = 1 \/ ~Confirmed(recent)

\* A hot frame newer than the verdict comes on top of the one that made it,
\* and of the hot frames between them.
HitsSinceArrival ==
  AtDesk => \A i \in 1..ConfirmFrames : recent[i] < presentAt => hits > i

\* So a verdict renewed for the whole dwell has outlived its first window.
RenewalIsEarned == AtDesk /\ renewal >= Dwell => hits > ConfirmFrames

PhantomInv ==
  HitBeforePresence /\ NoHitNoPresence /\ HitsSinceArrival /\ RenewalIsEarned

\* The sensor sends engineering frames, and its window is shorter than the
\* dwell: 4 s by default against the constant 5 s (main.go:69, 489).
ShortWindow == FrameKinds \subseteq {"hot", "quiet"} /\ ConfirmWindow < Dwell

LEMMA HitsGrow ==
  ASSUME TypeOK_Hooks, NEW f, Sense(f), ~Depart
  PROVE  /\ hits' \in Nat /\ hits <= hits'
         /\ f = "hot" => hits' > hits \/ hits' = HitsCap
         /\ f # "hot" => hits' = hits
         /\ f = "hot" => hits' >= 1
  BY PolicyAssumption, SMT DEF TypeOK_Hooks, Sense, HitsCap

\* What a frame that reads present has behind it.
LEMMA RawMeansHits ==
  ASSUME ShortWindow, NEW f \in FrameKinds, RawPresent(f)
  PROVE  \/ f = "hot" /\ Confirmed(RecentAfter(f))
         \/ f = "quiet" /\ ConfirmFrames > 1 /\ Confirmed(recent)
  BY DEF ShortWindow, RawPresent

\* One step per thing a frame can do to the verdict.
LEMMA SensePhantomInv ==
  ASSUME TypeOK_Hooks, TypeOK_Hooks', PhantomInv, ShortWindow,
         NEW f \in FrameKinds, Sense(f)
  PROVE  PhantomInv'
<1>a. /\ Observe(f) /\ HookObserve /\ TypeOK /\ f \in {"hot", "quiet"}
      /\ recent' = RecentAfter(f) /\ raw' = RawPresent(f)
  BY DEF Sense, Observe, TypeOK_Hooks, ShortWindow
<1>b. /\ recent \in [1..ConfirmFrames -> Age]
      /\ recent' \in [1..ConfirmFrames -> Age]
      /\ presentAt \in Age /\ presentAt' \in Age
      /\ hits \in Nat /\ hits' \in Nat /\ hits <= HitsCap /\ hits' <= HitsCap
      /\ renewal' \in Nat
  <2>1. /\ recent \in [1..ConfirmFrames -> Age]
        /\ recent' \in [1..ConfirmFrames -> Age]
        /\ presentAt \in Age /\ presentAt' \in Age
    BY DEF TypeOK_Hooks, TypeOK
  <2>2. /\ hits \in 0..HitsCap /\ hits' \in 0..HitsCap
        /\ renewal' \in 0..Dwell /\ HitsCap \in Nat
    BY PolicyAssumption, SMT DEF TypeOK_Hooks, HookTypeOK, HitsCap
  <2>3. QED
    BY <2>1, <2>2, SMT
<1>c. ConfirmFrames \in Nat \ {0} /\ ConfirmWindow \in Nat /\ Dwell \in Nat
      /\ ConfirmWindow < Dwell
  BY PolicyAssumption, HookAssumption DEF ShortWindow
<1>1. NoHitNoPresence'
  <2>1. CASE Depart
    <3>1. ~RawPresent(f)
      BY <1>a, <2>1 DEF Depart
    <3>2. CASE f = "hot"
      BY <1>a, <3>1, <3>2 DEF RawPresent, Confirmed, NoHitNoPresence
    <3>3. CASE f = "quiet"
      <4>1. recent' = recent
        BY <1>a, <3>3 DEF RecentAfter
      <4>2. ~(ConfirmFrames > 1) \/ ~Confirmed(recent)
        BY <3>1, <3>3 DEF RawPresent
      <4>3. ConfirmFrames = 1 \/ ~Confirmed(recent)
        BY <1>c, <4>2, SMT
      <4>4. QED
        BY <4>1, <4>3 DEF NoHitNoPresence, Confirmed
    <3>4. QED
      BY <1>a, <3>2, <3>3
  <2>2. CASE ~Depart /\ f = "hot"
    <3>1. hits' >= 1 /\ hits' \in Nat
      BY <2>2, HitsGrow
    <3>2. hits' # 0
      BY <3>1, SMT
    <3>3. QED
      BY <3>2 DEF NoHitNoPresence
  <2>3. CASE ~Depart /\ f = "quiet"
    <3>1. hits' = hits /\ recent' = recent
      BY <1>a, <2>3, HitsGrow DEF RecentAfter
    <3>2. QED
      BY <3>1 DEF PhantomInv, NoHitNoPresence, Confirmed
  <2>4. QED
    BY <1>a, <2>1, <2>2, <2>3
<1>2. CASE SeedPresent \/ Arrive
  <2>1. raw' /\ presentAt' = 0 /\ renewal' = 0 /\ ~Depart
    <3>1. raw' /\ presentAt' = 0 /\ ~Depart /\ ~Renew
      BY <1>2 DEF SeedPresent, Arrive, Depart, Renew
    <3>2. renewal' = 0
      BY <1>a, <1>2, <3>1 DEF HookObserve
    <3>3. QED
      BY <3>1, <3>2
  <2>2. hits' >= 1
    <3>1. CASE f = "hot"
      BY <2>1, <3>1, HitsGrow
    <3>2. CASE f = "quiet" /\ ConfirmFrames > 1 /\ Confirmed(recent)
      <4>1. hits # 0
        BY <1>c, <3>2, SMT DEF PhantomInv, NoHitNoPresence
      <4>2. QED
        BY <1>b, <2>1, <3>2, <4>1, HitsGrow, SMT
    <3>3. QED
      BY <1>a, <2>1, <3>1, <3>2, RawMeansHits
  <2>3. HitBeforePresence'
    BY <2>2 DEF HitBeforePresence
  <2>4. HitsSinceArrival'
    BY <1>b, <2>1, SMT DEF HitsSinceArrival, Age
  <2>5. RenewalIsEarned'
    <3>1. ~(renewal' >= Dwell)
      BY <1>c, <2>1, SMT
    <3>2. QED
      BY <3>1 DEF RenewalIsEarned
  <2>6. QED
    BY <1>1, <2>3, <2>4, <2>5 DEF PhantomInv
<1>3. CASE EarnAbsence \/ Depart \/ (Keep /\ ~present)
  <2>1. ~AtDesk'
    BY <1>3 DEF EarnAbsence, Depart, Keep, verdictVars, AtDesk
  <2>2. QED
    BY <1>1, <2>1
       DEF PhantomInv, HitBeforePresence, HitsSinceArrival, RenewalIsEarned
<1>4. CASE Renew \/ (Keep /\ present)
  <2>1. AtDesk /\ presentAt' = presentAt /\ ~Depart
    BY <1>4, <1>a DEF Renew, Keep, verdictVars, Depart, AtDesk
  <2>2. hits >= 1 /\ hits <= hits'
    BY <2>1, HitsGrow DEF PhantomInv, HitBeforePresence
  <2>3. HitBeforePresence'
    BY <1>b, <2>2, SMT DEF HitBeforePresence
  <2>4. ASSUME NEW i \in 1..ConfirmFrames, recent'[i] < presentAt
        PROVE  hits' > i
    <3>1. CASE f = "quiet"
      <4>1. recent' = recent /\ hits' = hits
        BY <1>a, <2>1, <3>1, HitsGrow DEF RecentAfter
      <4>2. QED
        BY <2>1, <2>4, <4>1 DEF PhantomInv, HitsSinceArrival
    <3>2. CASE f = "hot"
      <4>1. recent'[i] = IF i = 1 THEN 0 ELSE recent[i - 1]
        BY <1>a, <3>2 DEF RecentAfter
      <4>2. hits >= i
        <5>1. CASE i = 1
          BY <1>b, <2>2, <5>1, SMT
        <5>2. CASE i # 1
          <6>1. i - 1 \in 1..ConfirmFrames
            BY <1>c, <5>2, SMT
          <6>2. recent[i - 1] < presentAt
            BY <2>4, <4>1, <5>2
          <6>3. hits > i - 1
            BY <2>1, <6>1, <6>2 DEF PhantomInv, HitsSinceArrival
          <6>4. QED
            BY <1>b, <6>3, SMT
        <5>3. QED
          BY <5>1, <5>2
      <4>3. hits' > hits \/ hits' = ConfirmFrames + 1
        BY <2>1, <3>2, HitsGrow DEF HitsCap
      <4>4. QED
        BY <1>b, <1>c, <4>2, <4>3, SMT
    <3>3. QED
      BY <1>a, <3>1, <3>2
  <2>5. HitsSinceArrival'
    BY <2>1, <2>4 DEF HitsSinceArrival
  <2>6. RenewalIsEarned'
    <3>1. CASE Renew
      <4>1. renewal' = AtMost(presentAt, Dwell) /\ raw'
        BY <1>a, <3>1 DEF HookObserve, Renew, SeedPresent, Arrive
      <4>2. recent'[ConfirmFrames] <= ConfirmWindow
        <5>1. \/ Confirmed(RecentAfter(f))
              \/ f = "quiet" /\ Confirmed(recent)
          BY <1>a, <4>1, RawMeansHits
        <5>2. f = "quiet" => RecentAfter(f) = recent
          BY DEF RecentAfter
        <5>3. QED
          BY <1>a, <5>1, <5>2 DEF Confirmed
      <4>3. renewal' >= Dwell => recent'[ConfirmFrames] < presentAt
        <5>1. ConfirmFrames \in 1..ConfirmFrames
          BY <1>c, SMT
        <5>2. recent'[ConfirmFrames] \in Age
          BY <1>b, <5>1
        <5>3. QED
          BY <1>b, <1>c, <4>1, <4>2, <5>2, SMT DEF AtMost, Age
      <4>4. renewal' >= Dwell => hits' > ConfirmFrames
        <5>1. ConfirmFrames \in 1..ConfirmFrames
          BY <1>c, SMT
        <5>2. QED
          BY <2>4, <4>3, <5>1
      <4>5. QED
        BY <4>4 DEF RenewalIsEarned
    <3>2. CASE Keep /\ present
      <4>1. renewal' = renewal
        BY <1>a, <3>2 DEF HookObserve, Keep, Renew, SeedPresent, Arrive
      <4>2. renewal >= Dwell => hits > ConfirmFrames
        BY <2>1 DEF PhantomInv, RenewalIsEarned
      <4>3. QED
        BY <1>b, <1>c, <2>2, <4>1, <4>2, SMT DEF RenewalIsEarned
    <3>3. QED
      BY <1>4, <3>1, <3>2
  <2>7. QED
    BY <1>1, <2>3, <2>5, <2>6 DEF PhantomInv
<1>5. QED
  BY <1>a, <1>2, <1>3, <1>4 DEF Observe

LEMMA InitPhantomInv == ShortWindow /\ Init => PhantomInv
<1> SUFFICES ASSUME ShortWindow, Init PROVE PhantomInv
  OBVIOUS
<1>1. ~presentKnown /\ recent = [i \in 1..ConfirmFrames |-> Cap]
  BY DEF Init, PolicyInit
<1>2. ~Confirmed(recent)
  <2>1. ConfirmFrames \in 1..ConfirmFrames /\ ~(Cap <= ConfirmWindow)
    BY PolicyAssumption, CapAssumption, CapAboveThresholds, SMT
  <2>2. QED
    BY <1>1, <2>1 DEF Confirmed
<1>3. QED
  BY <1>1, <1>2 DEF PhantomInv, HitBeforePresence, NoHitNoPresence,
                    HitsSinceArrival, RenewalIsEarned, AtDesk

LEMMA NextPhantomInv ==
  ShortWindow /\ TypeOK_Hooks /\ PhantomInv /\ [Next]_vars => PhantomInv'
<1> SUFFICES ASSUME ShortWindow, TypeOK_Hooks, PhantomInv, [Next]_vars
             PROVE  PhantomInv'
  OBVIOUS
<1>a. ASSUME UNCHANGED <<policyVars, renewal, hits>> PROVE PhantomInv'
  BY <1>a DEF policyVars, PhantomInv, HitBeforePresence, NoHitNoPresence,
              HitsSinceArrival, RenewalIsEarned, AtDesk, Confirmed
<1>1. ASSUME NEW f \in FrameKinds, Sense(f) PROVE PhantomInv'
  BY <1>1, NextTypeOK, SensePhantomInv
<1>2. ASSUME NEW in \in Levels, Tick(in) PROVE PhantomInv'
  BY <1>2, <1>a DEF Tick, GateTick, HookTick, HookSet, hookVars
<1>3. CASE SleepOff
  BY <1>3, <1>a DEF SleepOff, HookSet
<1>4. CASE Resume
  BY <1>4 DEF Resume, Reset, hookVars, historyVars, PhantomInv,
              HitBeforePresence, NoHitNoPresence, HitsSinceArrival,
              RenewalIsEarned, AtDesk, Confirmed
<1>5. CASE Elapse
  <2>a. /\ recent \in [1..ConfirmFrames -> Age] /\ presentAt \in Age
        /\ ConfirmFrames \in 1..ConfirmFrames /\ ConfirmWindow \in Int
    BY PolicyAssumption, SMT DEF TypeOK_Hooks, TypeOK
  <2>1. /\ recent' = [i \in 1..ConfirmFrames |-> Older(recent[i])]
        /\ presentAt' = Older(presentAt)
        /\ UNCHANGED <<present, presentKnown, renewal, hits>>
    BY <1>5 DEF Elapse, PolicyElapse, HookElapse, historyVars
  <2>2. NoHitNoPresence'
    <3>1. recent[ConfirmFrames] <= recent'[ConfirmFrames]
          /\ recent[ConfirmFrames] \in Age /\ recent'[ConfirmFrames] \in Age
      BY <2>a, <2>1, OlderAge
    <3>2. Confirmed(recent)' => Confirmed(recent)
      BY <2>a, <3>1, SMT DEF Confirmed, Age
    <3>3. QED
      BY <2>1, <3>2 DEF PhantomInv, NoHitNoPresence
  <2>3. ASSUME NEW i \in 1..ConfirmFrames, recent'[i] < presentAt'
        PROVE  recent[i] < presentAt
    <3>1. recent'[i] = Older(recent[i]) /\ recent[i] \in Age
      BY <2>a, <2>1
    <3>2. 0 \in Nat /\ Older(recent[i]) \in Age /\ Older(presentAt) \in Age
      BY <2>a, <3>1, OlderAge
    <3>3. presentAt <= recent[i] => Older(presentAt) <= Older(recent[i])
      BY <2>a, <3>1, <3>2, OlderKeepsOrder
    <3>4. QED
      BY <2>a, <2>1, <2>3, <3>1, <3>2, <3>3, SMT DEF Age
  <2>4. HitsSinceArrival'
    BY <2>1, <2>3 DEF PhantomInv, HitsSinceArrival, AtDesk
  <2>5. QED
    BY <2>1, <2>2, <2>4
       DEF PhantomInv, HitBeforePresence, RenewalIsEarned, AtDesk
<1>6. CASE UNCHANGED vars
  BY <1>6, <1>a DEF vars, hookVars, historyVars
<1>7. QED
  BY <1>1, <1>2, <1>3, <1>4, <1>5, <1>6 DEF Next

\* An answer in the radar's name is a present body's.
LEMMA RadarAnswer ==
  ASSUME NEW in \in Inputs, NEW unknownFor,
         Want(in, unknownFor) = Answer("on", "radar present")
  PROVE  AtDesk
<1>1. CASE in = "away"
  BY <1>1 DEF Want, Answer
<1>2. CASE in = "active"
  BY <1>2 DEF Want, Answer
<1>3. CASE in \in {"unknown", "quiet", "idle"} /\ RadarHealthy
  BY <1>3 DEF Want, Answer, RadarHealthy, AtDesk
<1>4. CASE in \in {"unknown", "quiet", "idle"} /\ ~RadarHealthy
  BY <1>4 DEF Want, Answer
<1>5. QED
  BY <1>1, <1>2, <1>3, <1>4 DEF Inputs

\* A step that turns the light on in the radar's name, soon after "off", has
\* got past the gate's suspicion.
LEMMA FiringIsEarned ==
  ASSUME TypeOK_Hooks, PhantomInv, [Next]_vars,
         FiresRadarOn, offAt # Unset, arrivalGap \in 1..(Quick - 1)
  PROVE  hits > ConfirmFrames
<1>a. arrivalGap < Quick /\ renewal \in Int /\ Dwell \in Int
  BY HookAssumption, SMT DEF TypeOK_Hooks, HookTypeOK
<1>1. PICK in \in Levels : Tick(in)
  <2>1. fired' # fired /\ fired' # "off"
    BY DEF FiresRadarOn
  <2>2. ASSUME NEW f \in FrameKinds, Sense(f) PROVE FALSE
    BY <2>1, <2>2 DEF Sense, HookObserve
  <2>3. CASE SleepOff
    BY <2>1, <2>3 DEF SleepOff, HookSet
  <2>4. CASE Resume \/ Elapse \/ UNCHANGED vars
    BY <2>1, <2>4 DEF Resume, Elapse, HookElapse, vars, hookVars
  <2>5. QED
    BY <2>2, <2>3, <2>4 DEF Next
<1>2. PICK paused \in BOOLEAN, unknownFor \in {0, InputUnknownCap} :
        GateTick(in, paused, unknownFor)
  BY <1>1 DEF Tick
<1> DEFINE answer == IF paused /\ in # "away" THEN Answer("none", "paused")
                     ELSE Want(in, unknownFor)
<1>3. HookNext(answer) # "none"
  BY <1>2 DEF GateTick, HookTick, hookVars, FiresRadarOn
<1>4. answer = Answer("on", "radar present")
  BY <1>2, <1>3 DEF GateTick, FiresRadarOn
<1>5. AtDesk
  <2>1. in \in Inputs
    BY LevelsAssumption
  <2>2. ~(paused /\ in # "away")
    BY <1>4 DEF Answer
  <2>3. QED
    BY <1>4, <2>1, <2>2, RadarAnswer
<1>6. ~Suspicious(answer)
  BY <1>3 DEF HookNext
<1> HIDE DEF answer
<1>7. ~(renewal < Dwell)
  <2>1. answer.want = "on" /\ answer.why = "radar present"
    BY <1>4 DEF Answer
  <2>2. QED
    BY <1>6, <1>a, <2>1 DEF Suspicious
<1>8. QED
  BY <1>a, <1>5, <1>7, SMT DEF PhantomInv, RenewalIsEarned

\* With a window shorter than the dwell, ConfirmFrames hot frames and then
\* nothing, however they fall among ticks, sleeps and resumes, do not turn the
\* light back on soon after "off".
THEOREM PhantomsStayDark == ShortWindow => (Spec => PhantomStaysDark)
<1>1. ShortWindow /\ Init => ShortWindow /\ TypeOK_Hooks /\ PhantomInv
  BY InitTypeOK, InitPhantomInv
<1>2. ShortWindow /\ TypeOK_Hooks /\ PhantomInv /\ [Next]_vars
        => (ShortWindow /\ TypeOK_Hooks /\ PhantomInv)'
  BY NextTypeOK, NextPhantomInv DEF ShortWindow
<1>3. TypeOK_Hooks /\ PhantomInv /\ [Next]_vars
        => [FiresRadarOn /\ offAt # Unset /\ arrivalGap \in 1..(Quick - 1)
            => hits > ConfirmFrames]_vars
  BY FiringIsEarned
<1>4. QED
  BY <1>1, <1>2, <1>3, PTL DEF Spec, PhantomStaysDark
=============================================================================
