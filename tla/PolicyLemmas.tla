---------------------------- MODULE PolicyLemmas ----------------------------
(***************************************************************************)
(* Facts about ages and about the policy's actions, for the proofs of the  *)
(* modules that use the policy: PolicyProofs, HookProofs and DaemonProofs. *)
(***************************************************************************)
EXTENDS Policy, TLAPS

-----------------------------------------------------------------------------
(* Ages *)

LEMMA SomeAge == 0 \in Age /\ Cap \in Age
  BY CapAssumption, SMT DEF Age

\* Ageing keeps an age an age, and keeps the order of two ages and any
\* positive bound on their difference, although ages saturate.
LEMMA OlderAge == \A a \in Age : Older(a) \in Age /\ a <= Older(a)
  BY CapAssumption, SMT DEF Age, Older

LEMMA OlderStamp ==
  \A a \in Stamp : Older(a) \in Stamp /\ (Older(a) = Unset <=> a = Unset)
  BY CapAssumption, SMT DEF Stamp, Age, Older, Unset

LEMMA OlderKeepsOrder ==
  \A a \in Age, b \in Age, d \in Nat :
    /\ a <= b => Older(a) <= Older(b)
    /\ a <= b + d => Older(a) <= Older(b) + d
    /\ d > 0 /\ a < b + d => Older(a) < Older(b) + d
<1>1. \A a \in Age : Older(a) = IF a = Cap THEN Cap ELSE a + 1
  BY CapAssumption, SMT DEF Age, Older
<1>2. Cap \in Nat /\ \A a \in Age : a \in Nat /\ a <= Cap
  BY CapAssumption, SMT DEF Age
<1>3. SUFFICES ASSUME NEW a \in Age, NEW b \in Age, NEW d \in Nat
               PROVE  /\ a <= b => Older(a) <= Older(b)
                      /\ a <= b + d => Older(a) <= Older(b) + d
                      /\ d > 0 /\ a < b + d => Older(a) < Older(b) + d
  OBVIOUS
<1>4. CASE b = Cap
  BY <1>1, <1>2, <1>4, SMT
<1>5. CASE b # Cap
  BY <1>1, <1>2, <1>5, SMT
<1>6. QED
  BY <1>4, <1>5

\* A stamp that is kept only up to a bound stays within it as it ages.
LEMMA OlderBounded ==
  \A bound \in Nat : bound <= Cap =>
    /\ \A a \in 0..bound : AtMost(Older(a), bound) \in 0..bound
    /\ AtMost(Older(Unset), bound) = Unset
  BY CapAssumption, SMT DEF AtMost, Older, Unset

LEMMA MaxAbsencePositive == MaxAbsence \in Nat /\ MaxAbsence > 0
<1>1. PICK d \in Absences : TRUE
  BY PolicyAssumption
<1>2. MaxAbsence \in Nat /\ d \in 1..MaxAbsence
  BY PolicyAssumption
<1>3. QED
  BY <1>2, SMT

-----------------------------------------------------------------------------
(* The policy's actions keep its types *)

LEMMA PolicyInitType == PolicyInit => TypeOK
  BY SomeAge DEF PolicyInit, TypeOK, Stamp

LEMMA PolicyStartType == PolicyStart => TypeOK'
  BY SomeAge DEF PolicyStart, TypeOK, Stamp

LEMMA RecentAfterType ==
  ASSUME TypeOK, NEW f \in FrameKinds
  PROVE  RecentAfter(f) \in [1..ConfirmFrames -> Age]
  BY SomeAge, PolicyAssumption, SMT DEF TypeOK, RecentAfter

LEMMA ObserveType ==
  ASSUME TypeOK, NEW f \in FrameKinds, Observe(f)
  PROVE  TypeOK'
<1>1. raw' \in BOOLEAN /\ rawSince' \in Age /\ lastFrame' \in Age
      /\ absence' \in Absences
  BY SomeAge DEF Observe, RawPresent, TypeOK
<1>2. recent' \in [1..ConfirmFrames -> Age]
  BY RecentAfterType DEF Observe
<1>3. /\ present' \in BOOLEAN /\ presentKnown' \in BOOLEAN
      /\ presentAt' \in Age /\ confirmedAt' \in Age /\ absentSince' \in Stamp
  <2> USE SomeAge DEF TypeOK, Stamp
  <2>1. CASE SeedPresent
    BY <2>1 DEF SeedPresent
  <2>2. CASE EarnAbsence
    BY <2>2 DEF EarnAbsence
  <2>3. CASE Renew
    BY <2>3 DEF Renew
  <2>4. CASE Arrive
    BY <2>4 DEF Arrive
  <2>5. CASE Depart
    BY <2>5 DEF Depart
  <2>6. CASE Keep
    BY <2>6 DEF Keep, verdictVars
  <2>7. QED
    BY <2>1, <2>2, <2>3, <2>4, <2>5, <2>6 DEF Observe
<1>4. QED
  BY <1>1, <1>2, <1>3 DEF TypeOK

LEMMA ResetType == TypeOK /\ Reset => TypeOK'
  BY SomeAge DEF Reset, TypeOK, Stamp

LEMMA SetAbsenceType ==
  ASSUME TypeOK, NEW d \in Absences, SetAbsence(d)
  PROVE  TypeOK'
  BY DEF SetAbsence, verdictVars, TypeOK

LEMMA PolicyElapseType == TypeOK /\ PolicyElapse => TypeOK'
  BY OlderAge, OlderStamp, PolicyAssumption, SMT DEF PolicyElapse, TypeOK

-----------------------------------------------------------------------------
(* The policy's answers *)

LEMMA WantType ==
  ASSUME NEW in \in Inputs, NEW unknownFor
  PROVE  Want(in, unknownFor).want \in {"on", "off", "none"}
<1>1. CASE in = "away"
  BY <1>1 DEF Want, Answer
<1>2. CASE in = "active"
  BY <1>2 DEF Want, Answer
<1>3. CASE in \in {"unknown", "quiet", "idle"} /\ RadarHealthy
  BY <1>3 DEF Want, Answer
<1>4. CASE in \in {"unknown", "quiet", "idle"} /\ ~RadarHealthy
  BY <1>4 DEF Want, Answer
<1>5. QED
  BY <1>1, <1>2, <1>3, <1>4 DEF Inputs

\* A TV that is wanted on is wanted on by a keyboard in use, by a body before
\* a healthy radar, or by a keyboard touched not long ago when the radar is
\* out.
LEMMA WantOn ==
  ASSUME NEW in \in Inputs, NEW unknownFor, Want(in, unknownFor).want = "on"
  PROVE  \/ in = "active"
         \/ in = "quiet" /\ ~RadarHealthy
         \/ /\ in \in {"unknown", "quiet", "idle"} /\ RadarHealthy /\ present
            /\ ~(in = "unknown" /\ InputUnknownCap > 0
                 /\ unknownFor >= InputUnknownCap)
<1>1. CASE in = "away"
  BY <1>1 DEF Want, Answer
<1>2. CASE in = "idle" /\ ~RadarHealthy
  BY <1>2 DEF Want, Answer
<1>3. CASE in = "unknown" /\ ~RadarHealthy
  BY <1>3 DEF Want, Answer
<1>4. CASE in \in {"unknown", "quiet", "idle"} /\ RadarHealthy
  BY <1>4 DEF Want, Answer
<1>5. QED
  BY <1>1, <1>2, <1>3, <1>4 DEF Inputs
=============================================================================
