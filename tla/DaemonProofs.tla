---------------------------- MODULE DaemonProofs ----------------------------
(***************************************************************************)
(* What the main loop guarantees for every setting of its timers and every *)
(* environment: its variables keep their types, two runs of the script     *)
(* never overlap, and the panel is turned on only for a reason.            *)
(***************************************************************************)
EXTENDS Daemon, PolicyLemmas, SequenceTheorems

-----------------------------------------------------------------------------
(* Types *)

\* While a suspend is on its way or the machine sleeps, the only signal the
\* loop can have left is the one that announced it.
SleepIsAnnounced == power # "awake" => sleepEvents \in {<<>>, <<"before">>}

TypeInv == TypeOK_Daemon /\ SleepIsAnnounced

LEMMA HookObserveType ==
  ASSUME TypeOK, HookTypeOK, HookObserve
  PROVE  HookTypeOK'
<1>1. offAt = Unset => 0 \in 0..Quick
  BY HookAssumption, SMT
<1>2. offAt # Unset => offAt \in 0..Quick
  BY DEF HookTypeOK
<1>3. AtMost(presentAt, Dwell) \in 0..Dwell /\ 0 \in 0..Dwell
  BY HookAssumption, SMT DEF AtMost, TypeOK, Age
<1>4. arrivalGap' \in 0..Quick /\ renewal' \in 0..Dwell
  BY <1>1, <1>2, <1>3 DEF HookObserve, HookTypeOK
<1>5. QED
  BY <1>4 DEF HookObserve, HookTypeOK

LEMMA HookSetType ==
  ASSUME HookTypeOK, NEW action \in {"on", "off"}, HookSet(action)
  PROVE  HookTypeOK'
<1>1. 0 \in 0..Quick
  BY HookAssumption, SMT
<1>2. QED
  BY <1>1 DEF HookSet, HookTypeOK

LEMMA HookTickType ==
  ASSUME HookTypeOK, NEW answer, answer.want \in {"on", "off", "none"},
         HookTick(answer)
  PROVE  HookTypeOK'
<1>1. CASE HookNext(answer) = "none"
  BY <1>1 DEF HookTick, hookVars, HookTypeOK
<1>2. CASE HookNext(answer) # "none"
  <2>1. HookNext(answer) \in {"on", "off"}
    BY <1>2 DEF HookNext
  <2>2. QED
    BY <1>2, <2>1, HookSetType DEF HookTick
<1>3. QED
  BY <1>1, <1>2

LEMMA HookElapseType == HookTypeOK /\ HookElapse => HookTypeOK'
<1>1. Quick \in Nat /\ Quick <= Cap
  BY HookAssumption, CapAssumption, SMT
<1>2. QED
  BY <1>1, OlderBounded DEF HookElapse, HookTypeOK

LEMMA InputTickType == InputTypeOK /\ InputTick => InputTypeOK'
<1>1. 0 \in 0..CheckEvery /\ 0 \in 0..UnknownCap
  BY InputAssumption, SMT
<1>2. QED
  BY <1>1 DEF InputTick, Look, InputTypeOK

LEMMA InputElapseType == InputTypeOK /\ InputElapse => InputTypeOK'
<1>1. /\ CheckEvery \in Nat /\ CheckEvery <= Cap
      /\ UnknownCap \in Nat /\ UnknownCap <= Cap
  BY InputAssumption, CapAssumption, SMT
<1>2. QED
  BY <1>1, OlderBounded DEF InputElapse, InputTypeOK

\* What the tick reads is a level, and so its answer a wish.
LEMMA TickAnswerType ==
  ASSUME InputTypeOK, InputTick
  PROVE  /\ ReadInput \in Inputs
         /\ Allowed(Want(ReadInput, UnknownFor), ReadInput).want
              \in {"on", "off", "none"}
<1>1. ReadInput \in Inputs
  BY InputAssumption DEF InputTypeOK, InputTick, Look, ReadInput, Inputs
<1>2. Want(ReadInput, UnknownFor).want \in {"on", "off", "none"}
  BY <1>1, WantType
<1>3. QED
  BY <1>1, <1>2 DEF Allowed, Answer

LEMMA HoldBlackType ==
  ASSUME NEW answer, answer.want \in {"on", "off", "none"}
  PROVE  HoldBlack(answer).want \in {"on", "off", "none"}
  BY DEF HoldBlack, Answer

LEMMA DecideType ==
  ASSUME ActuatorTypeOK, NEW want \in {"on", "off", "none"}, DecideTick(want)
  PROVE  ActuatorTypeOK'
<1>1. Decision(want) \in {"on", "off", "none"}
  BY DEF Decision
<1>2. CASE Decision(want) = "none"
  BY <1>2, ActuatorAssumption, SMT DEF DecideTick, Decide, ActuatorTypeOK
<1>3. CASE Decision(want) # "none"
  <2>1. Decision(want) \in {"on", "off"}
    BY <1>1, <1>3
  <2>2. attempts' \in 0..AttemptCap /\ lastAttempt' \in 0..MaxBackoff
    BY <1>3, ActuatorAssumption, SMT
       DEF DecideTick, Decide, AtMost, ActuatorTypeOK
  <2>3. runs' \in [{"on", "off"} -> Nat]
    BY <1>3, <2>1, SMT DEF DecideTick, Decide, ActuatorTypeOK
  <2>4. QED
    BY <1>3, <2>1, <2>2, <2>3 DEF DecideTick, Decide, ActuatorTypeOK
<1>4. QED
  BY <1>2, <1>3

LEMMA RecordedType ==
  ASSUME tv \in TVStates, NEW action \in {"on", "off"}, NEW o \in Outcomes
  PROVE  Recorded(action, o) \in TVStates
<1>1. o \in {"done", "unknown", "unchanged"}
  BY ActuatorAssumption
<1>2. QED
  BY <1>1 DEF Recorded, TVStates

LEMMA RunEndsType ==
  ASSUME ActuatorTypeOK, NEW action \in {"on", "off"}, NEW o \in Outcomes,
         RunEnds(action, o)
  PROVE  ActuatorTypeOK'
<1>1. runs' \in [{"on", "off"} -> Nat]
  BY SMT DEF RunEnds, ActuatorTypeOK
<1>2. tv' \in TVStates
  BY RecordedType DEF RunEnds, ActuatorTypeOK
<1>3. QED
  BY <1>1, <1>2 DEF RunEnds, ActuatorTypeOK

LEMMA ActuatorStartType ==
  ASSUME ActuatorTypeOK, ActuatorStart
  PROVE  ActuatorTypeOK'
<1>1. MaxBackoff \in 0..MaxBackoff /\ 0 \in 0..AttemptCap /\ 0 \in Nat
  BY ActuatorAssumption, SMT
<1>2. QED
  BY <1>1 DEF ActuatorStart, ActuatorTypeOK

LEMMA ActuatorElapseType ==
  ActuatorTypeOK /\ ActuatorElapse => ActuatorTypeOK'
<1>1. MaxBackoff \in Nat /\ MaxBackoff <= Cap
  BY ActuatorAssumption, CapAssumption, SMT
<1>2. QED
  BY <1>1, OlderBounded DEF ActuatorElapse, ActuatorTypeOK

LEMMA InitTypeInv == Init => TypeInv
<1> SUFFICES ASSUME Init PROVE TypeInv
  OBVIOUS
<1>1. TypeOK
  BY PolicyInitType DEF Init
<1>2. HookTypeOK
  <2>1. 0 \in 0..Quick /\ 0 \in 0..Dwell
    BY HookAssumption, SMT
  <2>2. QED
    BY <2>1 DEF Init, HookInit, ActuatorInit, HookTypeOK, TVStates
<1>3. InputTypeOK
  BY DEF Init, InputInit, InputTypeOK
<1>4. ActuatorTypeOK
  <2>1. MaxBackoff \in 0..MaxBackoff /\ 0 \in 0..AttemptCap /\ 0 \in Nat
    BY ActuatorAssumption, SMT
  <2>2. QED
    BY <2>1 DEF Init, ActuatorInit, ActuatorTypeOK
<1>5. QED
  BY <1>1, <1>2, <1>3, <1>4, SomeAge
     DEF Init, TypeInv, TypeOK_Daemon, SleepIsAnnounced, Stamp

\* What the actions that leave a part's variables alone do to its types.
LEMMA UnchangedTypes ==
  /\ TypeOK /\ UNCHANGED policyVars => TypeOK'
  /\ HookTypeOK /\ UNCHANGED hookVars => HookTypeOK'
  /\ InputTypeOK /\ UNCHANGED inputVars => InputTypeOK'
  /\ ActuatorTypeOK /\ UNCHANGED actuatorVars => ActuatorTypeOK'
<1>1. TypeOK /\ UNCHANGED policyVars => TypeOK'
  BY DEF policyVars, TypeOK
<1>2. HookTypeOK /\ UNCHANGED hookVars => HookTypeOK'
  BY DEF hookVars, HookTypeOK
<1>3. InputTypeOK /\ UNCHANGED inputVars => InputTypeOK'
  BY DEF inputVars, InputTypeOK
<1>4. ActuatorTypeOK /\ UNCHANGED actuatorVars => ActuatorTypeOK'
  BY DEF actuatorVars, ActuatorTypeOK
<1>5. QED
  BY <1>1, <1>2, <1>3, <1>4

\* The same for the loop's own variables.
LoopTypeOK ==
  /\ scenario \in Scenarios
  /\ mode \in {"normal", "paused", "held"}
  /\ power \in {"awake", "going", "asleep"}
  /\ sleepEvents \in {<<>>, <<"before">>, <<"after">>, <<"before", "after">>}
  /\ inhibited \in BOOLEAN /\ offRun \in BOOLEAN /\ ticked \in BOOLEAN
  /\ deadFor \in Stamp
  /\ SleepIsAnnounced

LEMMA TypeInvParts ==
  TypeInv <=> TypeOK /\ HookTypeOK /\ InputTypeOK /\ ActuatorTypeOK /\ LoopTypeOK
  BY DEF TypeInv, TypeOK_Daemon, LoopTypeOK

LEMMA NextEventType ==
  ASSUME LoopTypeOK, NEW event, NextSleepEvent(event)
  PROVE  /\ sleepEvents' \in {<<>>, <<"before">>, <<"after">>}
         /\ power # "awake" => sleepEvents' = <<>>
<1>1. sleepEvents \in {<<"before">>, <<"after">>, <<"before", "after">>}
  BY DEF LoopTypeOK, NextSleepEvent
<1>2. CASE sleepEvents = <<"before", "after">>
  <2>1. Tail(sleepEvents) = <<"after">>
    BY <1>2
  <2>2. power = "awake"
    BY <1>2 DEF LoopTypeOK, SleepIsAnnounced
  <2>3. QED
    BY <2>1, <2>2 DEF NextSleepEvent
<1>3. CASE sleepEvents \in {<<"before">>, <<"after">>}
  <2>1. Tail(sleepEvents) = <<>>
    <3>1. Tail(<<"before">>) = <<>> /\ Tail(<<"after">>) = <<>>
      OBVIOUS
    <3>2. QED
      BY <1>3, <3>1
  <2>2. QED
    BY <2>1 DEF NextSleepEvent
<1>4. QED
  BY <1>1, <1>2, <1>3

LEMMA AppendToOne ==
  ASSUME NEW a, NEW b
  PROVE  Append(<<a>>, b) = <<a, b>>
<1> DEFINE both == Append(<<a>>, b)
<1>1. <<a>> \in Seq({a, b}) /\ Len(<<a>>) = 1 /\ <<a>>[1] = a
  OBVIOUS
<1>2. /\ <<a, b>> \in Seq({a, b}) /\ Len(<<a, b>>) = 2
      /\ <<a, b>>[1] = a /\ <<a, b>>[2] = b
  OBVIOUS
<1>3. both \in Seq({a, b}) /\ Len(both) = 2 /\ both[1] = a /\ both[2] = b
  BY <1>1, AppendProperties
<1> HIDE DEF both
<1>4. both = <<a, b>>
  BY <1>2, <1>3, SeqEqual
<1>5. QED
  BY <1>4 DEF both

LEMMA NextTypeInv == TypeInv /\ [Next]_vars => TypeInv'
<1> SUFFICES ASSUME TypeInv, [Next]_vars PROVE TypeInv'
  OBVIOUS
<1>a. TypeOK /\ HookTypeOK /\ InputTypeOK /\ ActuatorTypeOK /\ LoopTypeOK
  BY TypeInvParts
<1>b. ASSUME TypeOK', HookTypeOK', InputTypeOK', ActuatorTypeOK', LoopTypeOK'
      PROVE  TypeInv'
  BY <1>b DEF TypeInv, TypeOK_Daemon, LoopTypeOK
<1>c. ASSUME UNCHANGED <<loopVars, deadFor>> PROVE LoopTypeOK'
  BY <1>a, <1>c DEF loopVars, LoopTypeOK, SleepIsAnnounced
<1> USE <1>a, UnchangedTypes
<1>1. ASSUME NEW f \in FrameKinds, HandleFrame(f) PROVE TypeInv'
  <2>1. TypeOK' /\ HookTypeOK'
    BY <1>1, ObserveType, HookObserveType DEF HandleFrame
  <2>2. QED
    BY <1>1, <1>b, <1>c, <2>1 DEF HandleFrame
<1>2. ASSUME NEW d \in Absences, HandleTick(d) PROVE TypeInv'
  <2> DEFINE answer == Allowed(Want(ReadInput, UnknownFor), ReadInput)
  <2>1. TypeOK' /\ InputTypeOK'
    BY <1>2, SetAbsenceType, InputTickType DEF HandleTick
  <2>2. answer.want \in {"on", "off", "none"}
    BY <1>2, TickAnswerType DEF HandleTick
  <2>3. HookTick(answer) /\ DecideTick(HoldBlack(answer).want)
    BY <1>2 DEF HandleTick
  <2>4. HookTypeOK' /\ ActuatorTypeOK'
    BY <2>2, <2>3, HookTickType, HoldBlackType, DecideType
  <2>5. LoopTypeOK'
    BY <1>2 DEF HandleTick, LoopTypeOK, SleepIsAnnounced
  <2>6. QED
    BY <1>b, <2>1, <2>4, <2>5
<1>3. CASE HandleDoneMsg
  <2>1. ActuatorTypeOK'
    BY <1>3 DEF HandleDoneMsg, HandleDone, ActuatorTypeOK
  <2>2. QED
    BY <1>3, <1>b, <1>c, <2>1 DEF HandleDoneMsg
<1>4. CASE BeforeSleep
  <2>1. HookTypeOK'
    BY <1>4, HookSetType DEF BeforeSleep
  <2>2. ActuatorTypeOK'
    BY <1>4 DEF BeforeSleep, ActuatorTypeOK
  <2>3. LoopTypeOK'
    BY <1>4, NextEventType DEF BeforeSleep, LoopTypeOK, SleepIsAnnounced
  <2>4. QED
    BY <1>4, <1>b, <2>1, <2>2, <2>3 DEF BeforeSleep
<1>5. ASSUME NEW o \in Outcomes, SleepRunEnds(o) PROVE TypeInv'
  <2>1. ActuatorTypeOK'
    BY <1>5, RecordedType DEF SleepRunEnds, ActuatorTypeOK
  <2>2. LoopTypeOK'
    BY <1>5 DEF SleepRunEnds, Release, LoopTypeOK, SleepIsAnnounced
  <2>3. QED
    BY <1>5, <1>b, <2>1, <2>2 DEF SleepRunEnds
<1>6. CASE BeforeSleepBusy
  <2>1. LoopTypeOK'
    BY <1>6, NextEventType
       DEF BeforeSleepBusy, Release, LoopTypeOK, SleepIsAnnounced
  <2>2. QED
    BY <1>6, <1>b, <2>1 DEF BeforeSleepBusy
<1>7. CASE AfterSleep
  <2>1. TypeOK' /\ ActuatorTypeOK'
    <3>1. 0 \in 0..AttemptCap
      BY ActuatorAssumption, SMT
    <3>2. QED
      BY <1>7, <3>1, ResetType DEF AfterSleep, ForgetAttempts, ActuatorTypeOK
  <2>2. LoopTypeOK'
    BY <1>7, NextEventType DEF AfterSleep, LoopTypeOK, SleepIsAnnounced
  <2>3. QED
    BY <1>7, <1>b, <2>1, <2>2 DEF AfterSleep
<1>8. CASE DaemonRestarts
  <2>1. TypeOK' /\ ActuatorTypeOK'
    BY <1>8, PolicyStartType, ActuatorStartType DEF DaemonRestarts
  <2>2. HookTypeOK'
    <3>1. 0 \in 0..Quick /\ 0 \in 0..Dwell
      BY HookAssumption, SMT
    <3>2. QED
      BY <1>8, <3>1
         DEF DaemonRestarts, HookStart, HookTypeOK, ActuatorTypeOK, TVStates
  <2>3. InputTypeOK'
    BY <1>8 DEF DaemonRestarts, InputStart, InputTypeOK
  <2>4. LoopTypeOK'
    BY <1>8, SomeAge DEF DaemonRestarts, LoopTypeOK, SleepIsAnnounced, Stamp
  <2>5. QED
    BY <1>b, <2>1, <2>2, <2>3, <2>4
<1>9. ASSUME NEW a \in {"on", "off"}, NEW o \in Outcomes, ScriptEnds(a, o)
      PROVE  TypeInv'
  <2>1. ActuatorTypeOK'
    BY <1>9, RunEndsType DEF ScriptEnds
  <2>2. QED
    BY <1>9, <1>b, <1>c, <2>1 DEF ScriptEnds
<1>10. CASE Announce
  <2>1. LoopTypeOK'
    BY <1>10 DEF Announce, LoopTypeOK, SleepIsAnnounced
  <2>2. QED
    BY <1>10, <1>b, <2>1 DEF Announce
<1>11. CASE Suspend
  <2>1. LoopTypeOK'
    BY <1>11 DEF Suspend, LoopTypeOK, SleepIsAnnounced
  <2>2. QED
    BY <1>11, <1>b, <2>1 DEF Suspend
<1>12. CASE Wake
  <2>1. sleepEvents \in {<<>>, <<"before">>}
    BY <1>12 DEF Wake, LoopTypeOK, SleepIsAnnounced
  <2>2. sleepEvents' \in {<<"after">>, <<"before", "after">>}
    <3>1. CASE sleepEvents = <<>>
      BY <1>12, <3>1, Append(<<>>, "after") = <<"after">> DEF Wake
    <3>2. CASE sleepEvents = <<"before">>
      BY <1>12, <3>2, AppendToOne DEF Wake
    <3>3. QED
      BY <2>1, <3>1, <3>2
  <2>3. LoopTypeOK'
    BY <1>12, <2>2 DEF Wake, LoopTypeOK, SleepIsAnnounced
  <2>4. QED
    BY <1>12, <1>b, <2>3 DEF Wake
<1>13. ASSUME NEW m \in {"normal", "paused", "held"}, User(m) PROVE TypeInv'
  <2>1. LoopTypeOK'
    BY <1>13 DEF User, LoopTypeOK, SleepIsAnnounced
  <2>2. QED
    BY <1>13, <1>b, <2>1 DEF User
<1>14. ASSUME NEW level \in WrittenLevels, Keyboard(level) PROVE TypeInv'
  <2>1. InputTypeOK'
    BY <1>14 DEF Keyboard, Listener, InputTypeOK
  <2>2. QED
    BY <1>14, <1>b, <1>c, <2>1 DEF Keyboard
<1>15. CASE Crash \/ Restart
  <2>1. InputTypeOK'
    BY <1>15 DEF Crash, Restart, HypridleDies, HypridleStarts, InputTypeOK
  <2>2. LoopTypeOK'
    BY <1>15, SomeAge
       DEF Crash, Restart, loopVars, LoopTypeOK, SleepIsAnnounced, Stamp
  <2>3. QED
    BY <1>15, <1>b, <2>1, <2>2 DEF Crash, Restart
<1>16. ASSUME NEW state \in TVStates, Remote(state) PROVE TypeInv'
  <2>1. ActuatorTypeOK'
    BY <1>16 DEF Remote, Meddle, ActuatorTypeOK
  <2>2. QED
    BY <1>16, <1>b, <1>c, <2>1 DEF Remote
<1>17. CASE Elapse
  <2>1. TypeOK' /\ HookTypeOK' /\ InputTypeOK' /\ ActuatorTypeOK'
    BY <1>17, PolicyElapseType, HookElapseType, InputElapseType,
       ActuatorElapseType DEF Elapse
  <2>2. LoopTypeOK'
    BY <1>17, OlderStamp DEF Elapse, LoopTypeOK, SleepIsAnnounced
  <2>3. QED
    BY <1>b, <2>1, <2>2
<1>18. CASE UNCHANGED vars
  BY <1>18, <1>b, <1>c DEF vars
<1>19. QED
  BY <1>1, <1>2, <1>3, <1>4, <1>5, <1>6, <1>7, <1>8, <1>9, <1>10, <1>11, <1>12,
     <1>13, <1>14, <1>15, <1>16, <1>17, <1>18 DEF Next

\* Every variable of the loop and of its parts keeps to its type, through
\* suspends, restarts and crashes.
THEOREM TypeCorrect == Spec => []TypeOK_Daemon
<1>1. TypeInv => TypeOK_Daemon
  BY DEF TypeInv
<1>2. QED
  BY <1>1, InitTypeInv, NextTypeInv, PTL DEF Spec

-----------------------------------------------------------------------------
(* One run of the script at a time *)

\* A run counts until the loop has taken its end off `done`, and the flag
\* `busy` is set for as long.  OneScriptAtATime does not speak of the flag,
\* which is all that a tick and the sleep path look at.
Jobs == ScriptsRunning + (IF done = "none" THEN 0 ELSE 1)

BusyMeansOneJob == Jobs <= 1 /\ (~busy => Jobs = 0)

\* The same, without the sums.
LEMMA JobsAre ==
  ASSUME ActuatorTypeOK
  PROVE  BusyMeansOneJob <=>
           /\ runs["on"] + runs["off"] <= 1
           /\ offRun => runs["on"] = 0 /\ runs["off"] = 0
           /\ done # "none" => runs["on"] = 0 /\ runs["off"] = 0 /\ ~offRun
           /\ ~busy => /\ runs["on"] = 0 /\ runs["off"] = 0
                       /\ ~offRun /\ done = "none"
<1>1. runs["on"] \in Nat /\ runs["off"] \in Nat
  BY DEF ActuatorTypeOK
<1>2. QED
  BY <1>1, SMT DEF BusyMeansOneJob, Jobs, ScriptsRunning

LEMMA DecideBusy ==
  ASSUME ActuatorTypeOK, BusyMeansOneJob,
         NEW want \in {"on", "off", "none"}, DecideTick(want), UNCHANGED offRun
  PROVE  BusyMeansOneJob'
<1>1. ActuatorTypeOK'
  BY DecideType
<1>2. CASE Decision(want) = "none"
  BY <1>2 DEF DecideTick, Decide, BusyMeansOneJob, Jobs, ScriptsRunning
<1>3. CASE Decision(want) # "none"
  <2>1. ~busy /\ Decision(want) \in {"on", "off"}
    BY <1>3 DEF Decision
  <2>2. runs["on"] = 0 /\ runs["off"] = 0 /\ ~offRun /\ done = "none"
    BY <2>1, JobsAre
  <2>3. busy' /\ runs' = [runs EXCEPT ![Decision(want)] = @ + 1] /\ done' = done
    BY <1>3 DEF DecideTick, Decide
  <2>4. runs'["on"] + runs'["off"] = 1
    BY <2>1, <2>2, <2>3, SMT DEF ActuatorTypeOK
  <2>5. QED
    BY <1>1, <2>2, <2>3, <2>4, SMT DEF BusyMeansOneJob, Jobs, ScriptsRunning
<1>4. QED
  BY <1>2, <1>3

LEMMA NextScriptInv ==
  TypeInv /\ TypeInv' /\ BusyMeansOneJob /\ [Next]_vars => BusyMeansOneJob'
<1> SUFFICES ASSUME TypeInv, TypeInv', BusyMeansOneJob, [Next]_vars
             PROVE  BusyMeansOneJob'
  OBVIOUS
<1>a. ActuatorTypeOK /\ ActuatorTypeOK' /\ InputTypeOK
  BY DEF TypeInv, TypeOK_Daemon
<1>b. runs["on"] \in Nat /\ runs["off"] \in Nat
  BY <1>a DEF ActuatorTypeOK
<1>c. ASSUME UNCHANGED <<busy, runs, done, offRun>> PROVE BusyMeansOneJob'
  BY <1>c DEF BusyMeansOneJob, Jobs, ScriptsRunning
<1> USE DEF actuatorVars, loopVars
<1>1. ASSUME NEW d \in Absences, HandleTick(d) PROVE BusyMeansOneJob'
  <2> DEFINE answer == Allowed(Want(ReadInput, UnknownFor), ReadInput)
  <2>1. HoldBlack(answer).want \in {"on", "off", "none"}
    BY <1>a, <1>1, TickAnswerType, HoldBlackType DEF HandleTick
  <2>2. DecideTick(HoldBlack(answer).want) /\ UNCHANGED offRun
    BY <1>1 DEF HandleTick
  <2>3. QED
    BY <1>a, <2>1, <2>2, DecideBusy
<1>2. CASE HandleDoneMsg
  <2>1. done # "none" /\ done' = "none" /\ ~busy' /\ UNCHANGED <<runs, offRun>>
    BY <1>2 DEF HandleDoneMsg, HandleDone
  <2>2. QED
    BY <1>a, <2>1, JobsAre, SMT DEF BusyMeansOneJob, Jobs, ScriptsRunning
<1>3. CASE BeforeSleep
  <2>1. ~busy /\ busy' /\ offRun' /\ UNCHANGED <<runs, done>>
    BY <1>3 DEF BeforeSleep
  <2>2. QED
    BY <1>a, <2>1, JobsAre, SMT DEF BusyMeansOneJob, Jobs, ScriptsRunning
<1>4. ASSUME NEW o \in Outcomes, SleepRunEnds(o) PROVE BusyMeansOneJob'
  <2>1. offRun /\ ~busy' /\ ~offRun' /\ UNCHANGED <<runs, done>>
    BY <1>4 DEF SleepRunEnds
  <2>2. QED
    BY <1>a, <2>1, JobsAre, SMT DEF BusyMeansOneJob, Jobs, ScriptsRunning
<1>5. CASE DaemonRestarts
  <2>1. runs'["on"] = 0 /\ runs'["off"] = 0 /\ done' = "none" /\ ~offRun'
    BY <1>5 DEF DaemonRestarts, ActuatorStart
  <2>2. QED
    BY <2>1, SMT DEF BusyMeansOneJob, Jobs, ScriptsRunning
<1>6. ASSUME NEW a \in {"on", "off"}, NEW o \in Outcomes, ScriptEnds(a, o)
      PROVE  BusyMeansOneJob'
  <2>1. /\ runs[a] > 0 /\ runs' = [runs EXCEPT ![a] = @ - 1] /\ done' = a
        /\ UNCHANGED <<busy, offRun>>
    BY <1>6 DEF ScriptEnds, RunEnds
  <2>2. busy /\ ~offRun /\ runs["on"] + runs["off"] = 1
    BY <1>a, <1>b, <2>1, JobsAre, SMT
  <2>3. runs'["on"] = 0 /\ runs'["off"] = 0
    BY <1>a, <1>b, <2>1, <2>2, SMT DEF ActuatorTypeOK
  <2>4. QED
    BY <2>1, <2>2, <2>3, SMT DEF BusyMeansOneJob, Jobs, ScriptsRunning
<1>7. QED
  <2>1. ASSUME UNCHANGED actuatorVars, UNCHANGED offRun PROVE BusyMeansOneJob'
    BY <1>c, <2>1
  <2>2. ASSUME NEW f \in FrameKinds, HandleFrame(f) PROVE BusyMeansOneJob'
    BY <2>2, <2>1 DEF HandleFrame
  <2>3. CASE AfterSleep
    BY <2>3, <1>c DEF AfterSleep, ForgetAttempts
  <2>4. CASE BeforeSleepBusy \/ Announce \/ Suspend \/ Wake
    BY <2>4, <2>1 DEF BeforeSleepBusy, Announce, Suspend, Wake
  <2>5. ASSUME NEW m, User(m) \/ Keyboard(m) PROVE BusyMeansOneJob'
    BY <2>5, <2>1 DEF User, Keyboard
  <2>6. CASE Crash \/ Restart
    BY <2>6, <2>1 DEF Crash, Restart
  <2>7. ASSUME NEW state, Remote(state) PROVE BusyMeansOneJob'
    BY <2>7, <1>c DEF Remote, Meddle
  <2>8. CASE Elapse
    BY <2>8, <1>c DEF Elapse, ActuatorElapse
  <2>9. CASE UNCHANGED vars
    BY <2>9, <1>c DEF vars
  <2>10. QED
    BY <1>1, <1>2, <1>3, <1>4, <1>5, <1>6, <2>2, <2>3, <2>4, <2>5, <2>6, <2>7,
       <2>8, <2>9 DEF Next

\* busy is set exactly while the tick's run is under way: by the start of its
\* goroutine, through its message on `done`, to the loop's taking of it
\* (main.go:409-414).
THEOREM ScriptInvariant == Spec => [](TypeInv /\ BusyMeansOneJob)
<1>1. Init => BusyMeansOneJob
  BY SMT DEF Init, ActuatorInit, BusyMeansOneJob, Jobs, ScriptsRunning
<1>2. QED
  BY <1>1, InitTypeInv, NextTypeInv, NextScriptInv, PTL DEF Spec

\* Two runs of the script never overlap, be they the tick's or the sleep
\* path's, and a finished one never waits for room on `done`.
THEOREM ScriptsExcludeEachOther == Spec => []OneScriptAtATime
<1>1. TypeInv /\ BusyMeansOneJob => OneScriptAtATime
  <2> SUFFICES ASSUME TypeInv, BusyMeansOneJob PROVE OneScriptAtATime
    OBVIOUS
  <2>1. /\ ActuatorTypeOK /\ offRun \in BOOLEAN
        /\ runs["on"] \in Nat /\ runs["off"] \in Nat
    BY DEF TypeInv, TypeOK_Daemon, ActuatorTypeOK
  <2>2. QED
    BY <2>1, JobsAre, SMT DEF OneScriptAtATime, ScriptsRunning
<1>2. QED
  BY <1>1, ScriptInvariant, PTL

-----------------------------------------------------------------------------
(* Lit for a reason *)

\* deadFor is -1 while hypridle runs, and so below every bound.
DeathIsDated == hypridle <=> deadFor = Unset

\* A look at /proc that is believed was taken after hypridle was last seen.
LookIsDated ==
  alive /\ checked # Unset /\ checked < CheckEvery => deadFor <= checked

\* While the input is taken to be known, hypridle has not been gone for longer
\* than a look is believed and the unit until the next tick.
DeathIsNoticed ==
  unknownSince = Unset => /\ deadFor <= CheckEvery + 1
                          /\ ticked => deadFor <= CheckEvery

\* And while it is not, the age of the unknown input, which the cap is
\* compared with, lags behind by no more than that.
UnknownIsDated ==
  unknownSince # Unset /\ unknownSince < UnknownCap
    => deadFor <= CheckEvery + unknownSince + 1

\* The clock that absence is measured by had not run out when the last frame
\* came in.
PresenceIsDated ==
  presentKnown /\ present => confirmedAt < lastFrame + MaxAbsence

HypridleInv == DeathIsDated /\ LookIsDated /\ DeathIsNoticed /\ UnknownIsDated

ReasonInv == HypridleInv /\ PresenceIsDated

LEMMA CountsUp ==
  /\ \A a \in Stamp : Older(a) <= a + 1
  /\ \A bound \in Nat : bound <= Cap =>
       \A a \in 0..bound :
         AtMost(Older(a), bound) < bound => AtMost(Older(a), bound) = a + 1
  BY CapAssumption, SMT DEF AtMost, Older, Stamp, Age, Unset

\* A tick that takes hypridle to be alive has just seen it, or did so less
\* than CheckEvery ago.
LEMMA LookTells ==
  ASSUME HypridleInv, InputTick
  PROVE  alive' => \/ deadFor = Unset
                   \/ checked # Unset /\ checked < CheckEvery
                      /\ deadFor <= checked
<1>1. CASE checked # Unset /\ checked < CheckEvery
  BY <1>1 DEF InputTick, Look, HypridleInv, LookIsDated
<1>2. CASE ~(checked # Unset /\ checked < CheckEvery)
  BY <1>2 DEF InputTick, Look, HypridleInv, DeathIsDated
<1>3. QED
  BY <1>1, <1>2

LEMMA TickHypridle ==
  ASSUME TypeInv, HypridleInv, InputTick, ticked', UNCHANGED deadFor
  PROVE  HypridleInv'
<1>1. /\ deadFor \in Age \cup {Unset} /\ CheckEvery \in Nat
      /\ checked \in (0..CheckEvery) \cup {Unset}
      /\ unknownSince \in (0..UnknownCap) \cup {Unset}
  BY InputAssumption DEF TypeInv, TypeOK_Daemon, InputTypeOK, Stamp
<1>2. DeathIsDated'
  BY DEF InputTick, HypridleInv, DeathIsDated
<1>3. checked' # Unset /\ (alive' /\ checked' < CheckEvery => deadFor <= checked')
  <2>1. CASE checked # Unset /\ checked < CheckEvery
    BY <2>1 DEF InputTick, Look, HypridleInv, LookIsDated
  <2>2. CASE ~(checked # Unset /\ checked < CheckEvery)
    BY <2>2, <1>1, SMT
       DEF InputTick, Look, HypridleInv, DeathIsDated, Unset
  <2>3. QED
    BY <2>1, <2>2
<1>4. alive' => deadFor <= CheckEvery
  <2>1. \/ deadFor = Unset
        \/ checked # Unset /\ checked < CheckEvery /\ deadFor <= checked
        => deadFor <= CheckEvery
    BY <1>1, SMT DEF Age, Unset
  <2>2. QED
    BY <2>1, LookTells
<1>5. unknownSince' = Unset => alive'
  <2>1. unknownSince' = Unset => ReadInput # "unknown"
    BY <1>1, SMT DEF InputTick, Unset
  <2>2. QED
    BY <2>1 DEF ReadInput
<1>6. DeathIsNoticed'
  BY <1>1, <1>4, <1>5, SMT DEF DeathIsNoticed, Age, Unset
<1>7. UnknownIsDated'
  BY <1>1, SMT
     DEF InputTick, HypridleInv, DeathIsNoticed, UnknownIsDated, Age, Unset
<1>8. QED
  BY <1>2, <1>3, <1>6, <1>7 DEF HypridleInv, LookIsDated

LEMMA ElapseHypridle ==
  ASSUME TypeInv, HypridleInv, Elapse
  PROVE  HypridleInv'
<1>1. /\ deadFor \in Stamp /\ CheckEvery \in Nat /\ UnknownCap \in Nat
      /\ CheckEvery <= Cap /\ UnknownCap <= Cap
      /\ checked \in (0..CheckEvery) \cup {Unset}
      /\ unknownSince \in (0..UnknownCap) \cup {Unset}
  BY InputAssumption, SMT DEF TypeInv, TypeOK_Daemon, InputTypeOK
<1>2. /\ deadFor' \in Stamp /\ deadFor' <= deadFor + 1
      /\ deadFor' = Unset <=> deadFor = Unset
      /\ offRun => deadFor' = deadFor
  <2>1. deadFor <= deadFor + 1
    BY <1>1, SMT DEF Stamp, Age, Unset
  <2>2. QED
    BY <1>1, <2>1, OlderStamp, CountsUp DEF Elapse
<1>3. /\ checked = Unset => checked' = Unset
      /\ checked # Unset /\ checked' < CheckEvery => checked' = checked + 1
      /\ unknownSince = Unset => unknownSince' = Unset
      /\ unknownSince # Unset => unknownSince' # Unset
      /\ unknownSince # Unset /\ unknownSince' < UnknownCap
           => unknownSince' = unknownSince + 1
  <2>1. \A n \in Nat : \A m \in 0..n : m # Unset
    BY SMT DEF Unset
  <2>2. QED
    BY <1>1, <2>1, CountsUp, OlderBounded DEF Elapse, InputElapse
<1>4. UNCHANGED <<hypridle, alive>> /\ ~ticked' /\ (ticked \/ offRun)
  BY DEF Elapse, InputElapse
<1>5. DeathIsDated'
  BY <1>2, <1>4 DEF HypridleInv, DeathIsDated
<1>6. LookIsDated'
  BY <1>1, <1>2, <1>3, <1>4, SMT
     DEF HypridleInv, LookIsDated, Stamp, Age, Unset
<1>7. DeathIsNoticed'
  BY <1>1, <1>2, <1>3, <1>4, SMT
     DEF HypridleInv, DeathIsNoticed, Stamp, Age, Unset
<1>8. UnknownIsDated'
  BY <1>1, <1>2, <1>3, <1>4, SMT
     DEF HypridleInv, UnknownIsDated, Stamp, Age, Unset
<1>9. QED
  BY <1>5, <1>6, <1>7, <1>8 DEF HypridleInv

LEMMA NextHypridleInv ==
  TypeInv /\ HypridleInv /\ [Next]_vars => HypridleInv'
<1> SUFFICES ASSUME TypeInv, HypridleInv, [Next]_vars PROVE HypridleInv'
  OBVIOUS
<1>a. /\ CheckEvery \in Nat
      /\ checked \in (0..CheckEvery) \cup {Unset}
      /\ unknownSince \in (0..UnknownCap) \cup {Unset}
      /\ deadFor \in Stamp
  BY InputAssumption DEF TypeInv, TypeOK_Daemon, InputTypeOK
<1>b. ASSUME UNCHANGED <<inputVars, ticked, deadFor>> PROVE HypridleInv'
  BY <1>b DEF inputVars, HypridleInv, DeathIsDated, LookIsDated,
              DeathIsNoticed, UnknownIsDated
<1> USE DEF loopVars
<1>1. ASSUME NEW d \in Absences, HandleTick(d) PROVE HypridleInv'
  BY <1>1, TickHypridle DEF HandleTick
<1>2. CASE DaemonRestarts
  <2>1. /\ checked' = Unset /\ unknownSince' = Unset /\ ~ticked'
        /\ hypridle' = hypridle /\ deadFor' = IF hypridle THEN Unset ELSE 0
    BY <1>2 DEF DaemonRestarts, InputStart
  <2>2. QED
    BY <1>a, <2>1, SMT
       DEF HypridleInv, DeathIsDated, LookIsDated, DeathIsNoticed,
           UnknownIsDated, Unset
<1>3. ASSUME NEW level, Keyboard(level) PROVE HypridleInv'
  BY <1>3 DEF Keyboard, Listener, HypridleInv, DeathIsDated, LookIsDated,
              DeathIsNoticed, UnknownIsDated
<1>4. CASE Crash \/ Restart
  <2>1. /\ UNCHANGED <<checked, alive, unknownSince, ticked>>
        /\ \/ ~hypridle' /\ deadFor' = 0
           \/ hypridle' /\ deadFor' = Unset
    BY <1>4 DEF Crash, Restart, HypridleDies, HypridleStarts
  <2>2. QED
    BY <1>a, <2>1, SMT
       DEF HypridleInv, DeathIsDated, LookIsDated, DeathIsNoticed,
           UnknownIsDated, Unset
<1>5. CASE Elapse
  BY <1>5, ElapseHypridle
<1>6. QED
  <2>1. ASSUME NEW f \in FrameKinds, HandleFrame(f) PROVE HypridleInv'
    BY <2>1, <1>b DEF HandleFrame
  <2>2. CASE HandleDoneMsg \/ BeforeSleep \/ BeforeSleepBusy \/ AfterSleep
    BY <2>2, <1>b DEF HandleDoneMsg, BeforeSleep, BeforeSleepBusy, AfterSleep
  <2>3. ASSUME NEW o, SleepRunEnds(o) PROVE HypridleInv'
    BY <2>3, <1>b DEF SleepRunEnds
  <2>4. ASSUME NEW a, NEW o, ScriptEnds(a, o) PROVE HypridleInv'
    BY <2>4, <1>b DEF ScriptEnds
  <2>5. CASE Announce \/ Suspend \/ Wake
    BY <2>5, <1>b DEF Announce, Suspend, Wake
  <2>6. ASSUME NEW m, User(m) \/ Remote(m) PROVE HypridleInv'
    BY <2>6, <1>b DEF User, Remote
  <2>7. CASE UNCHANGED vars
    BY <2>7, <1>b DEF vars
  <2>8. QED
    BY <1>1, <1>2, <1>3, <1>4, <1>5, <2>1, <2>2, <2>3, <2>4, <2>5, <2>6, <2>7
       DEF Next

LEMMA NextPresenceIsDated ==
  TypeInv /\ PresenceIsDated /\ [Next]_vars => PresenceIsDated'
<1> SUFFICES ASSUME TypeInv, PresenceIsDated, [Next]_vars
             PROVE  PresenceIsDated'
  OBVIOUS
<1>a. /\ TypeOK /\ confirmedAt \in Age /\ lastFrame \in Age
      /\ MaxAbsence \in Nat /\ MaxAbsence > 0 /\ absence \in 1..MaxAbsence
  BY MaxAbsencePositive, PolicyAssumption DEF TypeInv, TypeOK_Daemon, TypeOK
<1>b. ASSUME UNCHANGED <<presentKnown, present, confirmedAt, lastFrame>>
      PROVE  PresenceIsDated'
  BY <1>b DEF PresenceIsDated
<1>1. ASSUME NEW f \in FrameKinds, HandleFrame(f) PROVE PresenceIsDated'
  <2>1. Observe(f) /\ lastFrame' = 0
    BY <1>1 DEF HandleFrame, Observe
  <2>2. presentKnown' /\ present' => confirmedAt' < MaxAbsence
    <3>1. CASE SeedPresent \/ Renew \/ Arrive
      <4>1. confirmedAt' = 0
        BY <3>1 DEF SeedPresent, Renew, Arrive
      <4>2. QED
        BY <4>1, <1>a
    <3>2. CASE EarnAbsence \/ Depart
      BY <3>2 DEF EarnAbsence, Depart
    <3>3. CASE Keep
      BY <3>3, <1>a, SMT DEF Keep, verdictVars, Age
    <3>4. QED
      BY <2>1, <3>1, <3>2, <3>3 DEF Observe
  <2>3. QED
    BY <2>1, <2>2, <1>a, SMT DEF PresenceIsDated
<1>2. ASSUME NEW d \in Absences, HandleTick(d) PROVE PresenceIsDated'
  BY <1>2, <1>b DEF HandleTick, SetAbsence, verdictVars
<1>3. CASE AfterSleep \/ DaemonRestarts
  BY <1>3 DEF AfterSleep, DaemonRestarts, Reset, PolicyStart, PresenceIsDated
<1>4. CASE Elapse
  BY <1>4, <1>a, OlderKeepsOrder DEF Elapse, PolicyElapse, PresenceIsDated
<1>5. ASSUME UNCHANGED policyVars PROVE PresenceIsDated'
  BY <1>5, <1>b DEF policyVars
<1>6. QED
  <2>1. CASE HandleDoneMsg \/ BeforeSleep \/ BeforeSleepBusy
    BY <2>1, <1>5 DEF HandleDoneMsg, BeforeSleep, BeforeSleepBusy
  <2>2. ASSUME NEW o, SleepRunEnds(o) PROVE PresenceIsDated'
    BY <2>2, <1>5 DEF SleepRunEnds
  <2>3. ASSUME NEW a, NEW o, ScriptEnds(a, o) PROVE PresenceIsDated'
    BY <2>3, <1>5 DEF ScriptEnds
  <2>4. CASE Announce \/ Suspend \/ Wake \/ Crash \/ Restart
    BY <2>4, <1>5 DEF Announce, Suspend, Wake, Crash, Restart
  <2>5. ASSUME NEW m, User(m) \/ Remote(m) \/ Keyboard(m) PROVE PresenceIsDated'
    BY <2>5, <1>5 DEF User, Remote, Keyboard
  <2>6. CASE UNCHANGED vars
    BY <2>6, <1>5 DEF vars
  <2>7. QED
    BY <1>1, <1>2, <1>3, <1>4, <2>1, <2>2, <2>3, <2>4, <2>5, <2>6 DEF Next

LEMMA InitReasonInv == Init => ReasonInv
<1> SUFFICES ASSUME Init PROVE ReasonInv
  OBVIOUS
<1>1. /\ checked = Unset /\ unknownSince = Unset /\ ~ticked /\ ~presentKnown
      /\ deadFor = IF hypridle THEN Unset ELSE 0
  BY DEF Init, InputInit, PolicyInit
<1>2. CheckEvery \in Nat /\ Unset = -1 /\ hypridle \in BOOLEAN
  BY InputAssumption DEF Init, InputInit, Unset
<1>3. QED
  BY <1>1, <1>2, SMT
     DEF ReasonInv, HypridleInv, DeathIsDated, LookIsDated, DeathIsNoticed,
         UnknownIsDated, PresenceIsDated

LEMMA NextReasonInv == TypeInv /\ ReasonInv /\ [Next]_vars => ReasonInv'
  BY NextHypridleInv, NextPresenceIsDated DEF ReasonInv

\* A script run "on" is started by a tick whose policy wants the TV on.
LEMMA OnlyTicksStart ==
  ASSUME TypeInv, [Next]_vars, Starts("on")
  PROVE  \E d \in Absences :
           /\ HandleTick(d)
           /\ Want(ReadInput, UnknownFor).want = "on"
<1>a. ActuatorTypeOK /\ InputTypeOK /\ runs["on"] \in Nat
  BY DEF TypeInv, TypeOK_Daemon, ActuatorTypeOK
<1>b. ~(runs' = runs)
  BY <1>a, SMT DEF Starts
<1>1. ASSUME NEW d \in Absences, HandleTick(d)
      PROVE  Want(ReadInput, UnknownFor).want = "on"
  <2> DEFINE answer == Allowed(Want(ReadInput, UnknownFor), ReadInput)
             want == HoldBlack(answer).want
  <2>1. DecideTick(want)
    BY <1>1 DEF HandleTick
  <2>2. Decision(want) = "on"
    <3>1. Decision(want) # "none"
      BY <2>1, <1>b DEF DecideTick, Decide
    <3>2. answer.want \in {"on", "off", "none"}
      BY <1>a, <1>1, TickAnswerType DEF HandleTick
    <3>3. Decision(want) \in {"on", "off"}
      BY <3>1, <3>2, HoldBlackType DEF Decision
    <3>4. runs' = [runs EXCEPT ![Decision(want)] = @ + 1]
      BY <2>1, <3>1 DEF DecideTick, Decide
    <3>5. Decision(want) # "off"
      BY <1>a, <3>4, SMT DEF Starts, ActuatorTypeOK
    <3>6. QED
      BY <3>3, <3>5
  <2>3. HoldBlack(answer).want = "on"
    BY <2>2 DEF Decision
  <2>4. answer.want = "on"
    BY <2>3 DEF HoldBlack, Answer
  <2>5. QED
    BY <2>4 DEF Allowed, Answer
<1>2. \E d \in Absences : HandleTick(d)
  <2> SUFFICES ASSUME ~\E d \in Absences : HandleTick(d) PROVE FALSE
    OBVIOUS
  <2>1. ASSUME UNCHANGED actuatorVars PROVE FALSE
    BY <1>b, <2>1 DEF actuatorVars
  <2>2. ASSUME NEW f \in FrameKinds, HandleFrame(f) PROVE FALSE
    BY <2>2, <2>1 DEF HandleFrame
  <2>3. CASE HandleDoneMsg \/ AfterSleep \/ BeforeSleep \/ Elapse
    BY <2>3, <1>b DEF HandleDoneMsg, HandleDone, AfterSleep, ForgetAttempts,
                      BeforeSleep, Elapse, ActuatorElapse
  <2>4. ASSUME NEW o, SleepRunEnds(o) PROVE FALSE
    BY <2>4, <1>b DEF SleepRunEnds
  <2>5. CASE BeforeSleepBusy \/ Announce \/ Suspend \/ Wake \/ Crash \/ Restart
    BY <2>5, <2>1 DEF BeforeSleepBusy, Announce, Suspend, Wake, Crash, Restart
  <2>6. CASE DaemonRestarts
    <3>1. runs'["on"] = 0
      BY <2>6 DEF DaemonRestarts, ActuatorStart
    <3>2. QED
      BY <1>a, <3>1, SMT DEF Starts
  <2>7. ASSUME NEW a \in {"on", "off"}, NEW o \in Outcomes, ScriptEnds(a, o)
        PROVE  FALSE
    <3>1. runs' = [runs EXCEPT ![a] = @ - 1]
      BY <2>7 DEF ScriptEnds, RunEnds
    <3>2. QED
      BY <1>a, <3>1, SMT DEF Starts, ActuatorTypeOK
  <2>8. ASSUME NEW m, User(m) \/ Keyboard(m) PROVE FALSE
    BY <2>8, <2>1 DEF User, Keyboard
  <2>9. ASSUME NEW state, Remote(state) PROVE FALSE
    BY <2>9, <1>b DEF Remote, Meddle
  <2>10. CASE UNCHANGED vars
    BY <2>10, <2>1 DEF vars
  <2>11. QED
    BY <2>2, <2>3, <2>4, <2>5, <2>6, <2>7, <2>8, <2>9, <2>10 DEF Next
<1>3. QED
  BY <1>1, <1>2

LEMMA TickIsForAReason ==
  ASSUME TypeInv, ReasonInv, HypridleInv', NEW d \in Absences, HandleTick(d),
         Want(ReadInput, UnknownFor).want = "on"
  PROVE  \/ /\ inputFile \in {"active", "quiet"}
            /\ deadFor = Unset \/ deadFor < CheckEvery
         \/ /\ present /\ confirmedAt < MaxAbsence + StaleAfter
            /\ \/ deadFor = Unset \/ InputUnknownCap = 0
               \/ deadFor < CheckEvery + InputUnknownCap + 1
<1>a. /\ InputTypeOK /\ TypeOK /\ InputTick /\ SetAbsence(d)
      /\ deadFor' = deadFor
  BY DEF TypeInv, TypeOK_Daemon, HandleTick
<1>b. /\ deadFor \in Age \cup {Unset} /\ confirmedAt \in Age
      /\ lastFrame \in Age /\ StaleAfter \in Nat /\ MaxAbsence \in Nat
      /\ CheckEvery \in Nat /\ InputUnknownCap \in Nat
      /\ UnknownCap = InputUnknownCap
      /\ checked \in (0..CheckEvery) \cup {Unset}
      /\ unknownSince \in (0..UnknownCap) \cup {Unset}
  BY <1>a, PolicyAssumption, InputAssumption, DaemonAssumption
     DEF TypeInv, TypeOK_Daemon, TypeOK, InputTypeOK, Stamp
<1>c. /\ UNCHANGED <<lastFrame, present, presentKnown, confirmedAt, inputFile>>
  BY <1>a DEF SetAbsence, verdictVars, InputTick
<1>1. alive' => deadFor = Unset \/ deadFor < CheckEvery
  <2>1. checked # Unset /\ checked < CheckEvery /\ deadFor <= checked
        => deadFor = Unset \/ deadFor < CheckEvery
    BY <1>b, SMT DEF Age, Unset
  <2>2. QED
    BY <1>a, <2>1, LookTells DEF ReasonInv
<1>2. ReadInput \in Inputs
  BY <1>a, TickAnswerType
<1>3. CASE ReadInput \in {"active", "quiet"}
  BY <1>1, <1>3 DEF ReadInput
<1>4. CASE /\ RadarHealthy /\ present
           /\ ~(ReadInput = "unknown" /\ InputUnknownCap > 0
                /\ UnknownFor >= InputUnknownCap)
  <2>1. confirmedAt < MaxAbsence + StaleAfter
    BY <1>4, <1>b, SMT
       DEF ReasonInv, PresenceIsDated, RadarHealthy, SensorStale, Age
  <2>2. CASE InputUnknownCap = 0
    BY <1>4, <2>1, <2>2
  <2>3. CASE alive' /\ InputUnknownCap # 0
    <3>1. deadFor = Unset \/ deadFor < CheckEvery + InputUnknownCap + 1
      BY <1>1, <1>b, <2>3, SMT DEF Age
    <3>2. QED
      BY <1>4, <2>1, <3>1
  <2>4. CASE ~alive' /\ InputUnknownCap # 0
    <3>1. ReadInput = "unknown" /\ unknownSince' # Unset
      BY <2>4, <1>a, <1>b, SMT DEF ReadInput, InputTick, Unset
    <3>2. unknownSince' \in 0..UnknownCap
      BY <1>a, <3>1, InputTickType DEF InputTypeOK
    <3>3. unknownSince' < UnknownCap
      BY <1>4, <1>b, <2>4, <3>1, <3>2, SMT DEF UnknownFor
    <3>4. deadFor <= CheckEvery + unknownSince' + 1
      BY <1>a, <3>1, <3>3 DEF HypridleInv, UnknownIsDated
    <3>5. deadFor < CheckEvery + InputUnknownCap + 1
      <4>1. deadFor \in Int /\ unknownSince' \in Int /\ CheckEvery \in Int
        BY <1>b, <3>2, SMT DEF Age, Unset
      <4>2. unknownSince' < InputUnknownCap /\ InputUnknownCap \in Int
        BY <1>b, <3>3, SMT
      <4>3. \A a, b, c, e \in Int : a <= b + c + 1 /\ c < e => a < b + e + 1
        BY SMT
      <4>4. QED
        BY <3>4, <4>1, <4>2, <4>3
    <3>6. QED
      BY <1>4, <2>1, <3>5
  <2>5. QED
    BY <2>2, <2>3, <2>4
<1>5. QED
  BY <1>2, <1>3, <1>4, WantOn

\* However frames, ticks, crashes of hypridle, restarts and suspends fall, the
\* loop turns the panel on only for a keyboard touched lately or a body
\* confirmed within the away timer; a dead hypridle postpones the dark by its
\* cache and the input cap and by no more.
THEOREM LightHasAReason == Spec => LitForAReason
<1> DEFINE Reason == \/ /\ inputFile \in {"active", "quiet"}
                        /\ deadFor = Unset \/ deadFor < CheckEvery
                     \/ /\ present /\ confirmedAt < MaxAbsence + StaleAfter
                        /\ \/ deadFor = Unset \/ InputUnknownCap = 0
                           \/ deadFor < CheckEvery + InputUnknownCap + 1
<1>1. TypeInv /\ ReasonInv /\ [Next]_vars => [Starts("on") => Reason]_vars
  <2> SUFFICES ASSUME TypeInv, ReasonInv, [Next]_vars, Starts("on")
               PROVE  Reason
    OBVIOUS
  <2>1. HypridleInv'
    BY NextHypridleInv DEF ReasonInv
  <2>2. QED
    BY <2>1, OnlyTicksStart, TickIsForAReason
<1>2. QED
  BY <1>1, InitTypeInv, NextTypeInv, InitReasonInv, NextReasonInv, PTL
     DEF Spec, LitForAReason
=============================================================================
