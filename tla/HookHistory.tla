----------------------------- MODULE HookHistory -----------------------------
(***************************************************************************)
(* The hook gate over the policy, as the main loop runs them: frames,      *)
(* ticks that hand the policy's answer to the gate, and sleeps.  Input is  *)
(* whatever a tick happens to read.  History variables count the frames    *)
(* that could have earned an "on".                                         *)
(***************************************************************************)
EXTENDS HookGate

CONSTANT Levels       \* the input levels a tick may read

ASSUME LevelsAssumption == Levels \subseteq Inputs

VARIABLES
  hits,        \* hot frames since the desk last turned "away", saturating
  byRadar      \* the hooks' last action was the radar's "on"

historyVars == <<hits, byRadar>>

vars == <<policyVars, hookVars, historyVars>>

HitsCap == ConfirmFrames + 1

Init ==
  /\ PolicyInit /\ \E tv \in {"?", "on", "off"} : HookInit(tv)
  /\ hits = 0 /\ byRadar = FALSE

Sense(f) ==
  /\ Observe(f) /\ HookObserve
  /\ hits' = IF Depart THEN 0
             ELSE IF f = "hot" /\ hits < HitsCap THEN hits + 1 ELSE hits
  /\ UNCHANGED byRadar

\* A paused or held tick has no answer to give; unknownFor is either fresh
\* or past the cap.
GateTick(in, paused, unknownFor) ==
  LET answer == IF paused /\ in # "away" THEN Answer("none", "paused")
                ELSE Want(in, unknownFor)
  IN /\ HookTick(answer)
     /\ byRadar' = IF HookNext(answer) = "none" THEN byRadar
                   ELSE answer = Answer("on", "radar present")
     /\ UNCHANGED <<policyVars, hits>>

Tick(in) == \E paused \in BOOLEAN, unknownFor \in {0, InputUnknownCap} :
              GateTick(in, paused, unknownFor)

PlainTick(in) == GateTick(in, FALSE, 0)

SleepOff ==
  /\ HookSet("off") /\ byRadar' = FALSE
  /\ UNCHANGED <<policyVars, hits>>

Resume == Reset /\ UNCHANGED <<hookVars, historyVars>>

Elapse == PolicyElapse /\ HookElapse /\ UNCHANGED historyVars

Next ==
  \/ \E f \in FrameKinds : Sense(f)
  \/ \E in \in Levels : Tick(in)
  \/ SleepOff
  \/ Resume
  \/ Elapse

Spec == Init /\ [][Next]_vars

\* Frames keep coming and the loop keeps ticking (tickSlow is a second).  The
\* properties below are about a keyboard that stays quiet from some point on,
\* and the tick that reads "quiet" is then the one that keeps coming.
FairSpec ==
  /\ Spec
  /\ WF_vars(Elapse)
  /\ WF_lastFrame(\E f \in FrameKinds : Sense(f))
  /\ WF_vars(PlainTick("quiet"))

TypeOK_Hooks ==
  /\ TypeOK /\ HookTypeOK
  /\ hits \in 0..HitsCap /\ byRadar \in BOOLEAN

-----------------------------------------------------------------------------
FiresRadarOn == fired # "on" /\ fired' = "on" /\ byRadar'

\* A phantom, ConfirmFrames hot frames and then nothing, does not turn the
\* light back on after the hooks' recent "off", however the frames, the
\* ticks and the confirmation window fall (policy.go:259-286).
PhantomStaysDark ==
  [][FiresRadarOn /\ offAt # Unset /\ arrivalGap \in 1..(Quick - 1)
     => hits > ConfirmFrames]_vars

\* From some point on every frame shows the body and every tick reads a
\* quiet keyboard.
SeatedFromNowOn ==
  [][/\ ~Resume /\ ~SleepOff
     /\ \A f \in FrameKinds : Sense(f) => f = "hot"
     /\ \A in \in Levels : Tick(in) => PlainTick("quiet")]_vars

EmptyFromNowOn ==
  [][/\ ~Resume /\ ~SleepOff
     /\ \A f \in FrameKinds : Sense(f) => f = "quiet"
     /\ \A in \in Levels : Tick(in) => PlainTick("quiet")]_vars

Streaming == lastFrame <= 1

\* The gate delays a real return, it never swallows it: someone who sits down
\* and stays gets "on", and an empty desk ends with the hooks told "off".
ReturnIsHeard ==
  /\ <>SeatedFromNowOn /\ <>[]Streaming => <>[](fired = "on")
  /\ <>EmptyFromNowOn /\ <>[]Streaming => <>[](fired = "off")
=============================================================================
