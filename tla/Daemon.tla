------------------------------- MODULE Daemon -------------------------------
(***************************************************************************)
(* The main loop of src/main.go: one goroutine that takes, in no set       *)
(* order, a frame, a tick, the end of a script run or a sleep event, and   *)
(* runs its handler to the end; around it the script's goroutine, logind,  *)
(* hypridle, the user and the room.                                        *)
(*                                                                         *)
(* The tick is modelled with everything it does to the TV and the hooks.   *)
(* What it does to audio and media players only reads the state kept here. *)
(***************************************************************************)
EXTENDS HookGate, InputLayer, Actuator, Sequences

CONSTANTS
  Scenarios      \* what the environment may do, one set for each behaviour

ASSUME DaemonAssumption ==
  /\ Scenarios \subseteq SUBSET {"sleep", "delay expires", "crash", "hold",
                                 "meddle", "outage", "restart"}
  /\ UnknownCap = InputUnknownCap

VARIABLES
  scenario,      \* what the environment may do in this behaviour
  mode,          \* "normal", "paused" (pause file) or "held" (unexpired hold)
  power,         \* "awake", "going" (logind announced a suspend), "asleep"
  sleepEvents,   \* PrepareForSleep signals the loop has not taken
  inhibited,     \* this suspend's delay inhibitor is still open
  offRun,        \* the loop is blocked in the sleep path's own "off" run
  ticked,        \* the loop has ticked in this unit of time
  deadFor        \* history: for how long a free loop has had no hypridle

loopVars == <<scenario, mode, power, sleepEvents, inhibited, offRun, ticked>>

vars == <<policyVars, hookVars, inputVars, actuatorVars, loopVars, deadFor>>

May(happening) == happening \in scenario

Running == power # "asleep"           \* processes run

LoopFree == Running /\ ~offRun        \* the loop is at its select

Init ==
  /\ scenario \in Scenarios
  /\ PolicyInit /\ InputInit /\ ActuatorInit /\ HookInit(tv)
  /\ mode = "normal" /\ power = "awake" /\ sleepEvents = <<>>
  /\ inhibited = TRUE /\ offRun = FALSE /\ ticked = FALSE
  /\ deadFor = IF hypridle THEN Unset ELSE 0

TypeOK_Daemon ==
  /\ TypeOK /\ HookTypeOK /\ InputTypeOK /\ ActuatorTypeOK
  /\ scenario \in Scenarios
  /\ mode \in {"normal", "paused", "held"}
  /\ power \in {"awake", "going", "asleep"}
  /\ sleepEvents \in {<<>>, <<"before">>, <<"after">>, <<"before", "after">>}
  /\ inhibited \in BOOLEAN /\ offRun \in BOOLEAN /\ ticked \in BOOLEAN
  /\ deadFor \in Stamp

-----------------------------------------------------------------------------
(* The loop's handlers *)

HandleFrame(f) ==
  /\ LoopFree
  /\ Observe(f) /\ HookObserve
  /\ UNCHANGED <<inputVars, actuatorVars, loopVars, deadFor>>

\* Mutant: a pause stops the tick whatever the input says.
AllowedUnlessPaused(answer, in) ==
  IF mode = "normal" THEN answer ELSE Answer("none", mode)

\* A pause or a hold leaves the tick without an answer; only the hour
\* without input goes through a pause, and nothing goes through a hold.
Allowed(answer, in) ==
  IF mode = "normal" \/ (mode = "paused" /\ in = "away")
  THEN answer ELSE Answer("none", mode)

HandleTick(d) ==
  /\ LoopFree
  /\ SetAbsence(d)
  /\ InputTick
  /\ LET answer == Allowed(Want(ReadInput, UnknownFor), ReadInput)
     IN /\ HookTick(answer)
        /\ DecideTick(HoldBlack(answer).want)
  /\ ticked' = TRUE
  /\ UNCHANGED <<scenario, mode, power, sleepEvents, inhibited, offRun,
                 deadFor>>

HandleDoneMsg ==
  /\ LoopFree
  /\ HandleDone
  /\ UNCHANGED <<policyVars, hookVars, inputVars, loopVars, deadFor>>

NextSleepEvent(event) ==
  /\ LoopFree
  /\ sleepEvents # <<>> /\ Head(sleepEvents) = event
  /\ sleepEvents' = Tail(sleepEvents)

\* release: closes the inhibitor this event carries, which after an expired
\* delay and a resume is no longer the one in force.
Release == inhibited' = (inhibited /\ power # "going")

\* Mutant: the sleep path does not ask whether a run is in progress.
BeforeSleepAnyway ==
  /\ NextSleepEvent("before")
  /\ HookSet("off")
  /\ offRun' = TRUE /\ busy' = TRUE
  /\ UNCHANGED <<policyVars, inputVars, tv, runs, done, lastDecision,
                 lastAttempt, attempts, scenario, mode, power, inhibited,
                 ticked, deadFor>>

\* PrepareForSleep(true) while no run is in progress: the hooks hear "off"
\* and the loop runs the script itself, holding up logind.
BeforeSleep ==
  /\ NextSleepEvent("before") /\ ~busy
  /\ HookSet("off")
  /\ offRun' = TRUE /\ busy' = TRUE
  /\ UNCHANGED <<policyVars, inputVars, tv, runs, done, lastDecision,
                 lastAttempt, attempts, scenario, mode, power, inhibited,
                 ticked, deadFor>>

\* Mutant: the sleep path's run does not free the actuator.
SleepRunEndsStaysBusy(outcome) ==
  /\ Running /\ offRun
  /\ tv' = Recorded("off", outcome)
  /\ offRun' = FALSE
  /\ Release
  /\ UNCHANGED <<policyVars, hookVars, inputVars, runs, done, lastDecision,
                 lastAttempt, attempts, scenario, mode, power, sleepEvents,
                 ticked, deadFor, busy>>

SleepRunEnds(outcome) ==
  /\ Running /\ offRun
  /\ tv' = Recorded("off", outcome)
  /\ offRun' = FALSE /\ busy' = FALSE
  /\ Release
  /\ UNCHANGED <<policyVars, hookVars, inputVars, runs, done, lastDecision,
                 lastAttempt, attempts, scenario, mode, power, sleepEvents,
                 ticked, deadFor>>

\* PrepareForSleep(true) while a run is in progress: only the release.
BeforeSleepBusy ==
  /\ NextSleepEvent("before") /\ busy
  /\ Release
  /\ UNCHANGED <<policyVars, hookVars, inputVars, actuatorVars, scenario,
                 mode, power, offRun, ticked, deadFor>>

AfterSleep ==
  /\ NextSleepEvent("after")
  /\ Reset /\ ForgetAttempts
  /\ UNCHANGED <<hookVars, inputVars, scenario, mode, power, inhibited,
                 offRun, ticked, deadFor>>

\* The process ends, whatever it was doing, and is started again
\* (Restart=always).  Its inhibitor ends with it; a new one is not given
\* while a suspend is on its way.
DaemonRestarts ==
  /\ May("restart") /\ Running
  /\ PolicyStart /\ HookStart(tv) /\ InputStart /\ ActuatorStart
  /\ sleepEvents' = <<>> /\ inhibited' = (power = "awake")
  /\ offRun' = FALSE /\ ticked' = FALSE
  /\ deadFor' = IF hypridle THEN Unset ELSE 0
  /\ UNCHANGED <<scenario, mode, power>>

-----------------------------------------------------------------------------
(* The rest of the machine, and the room *)

ScriptEnds(action, outcome) ==
  /\ Running /\ RunEnds(action, outcome)
  /\ UNCHANGED <<policyVars, hookVars, inputVars, loopVars, deadFor>>

Announce ==
  /\ May("sleep") /\ power = "awake" /\ sleepEvents = <<>> /\ ~offRun
  /\ power' = "going" /\ sleepEvents' = <<"before">>
  /\ UNCHANGED <<policyVars, hookVars, inputVars, actuatorVars, scenario, mode,
                 inhibited, offRun, ticked, deadFor>>

Suspend ==
  /\ power = "going" /\ (~inhibited \/ May("delay expires"))
  /\ power' = "asleep"
  /\ UNCHANGED <<policyVars, hookVars, inputVars, actuatorVars, scenario, mode,
                 sleepEvents, inhibited, offRun, ticked, deadFor>>

Wake ==
  /\ power = "asleep"
  /\ power' = "awake" /\ inhibited' = TRUE
  /\ sleepEvents' = Append(sleepEvents, "after")
  /\ UNCHANGED <<policyVars, hookVars, inputVars, actuatorVars, scenario,
                 mode, offRun, ticked, deadFor>>

User(m) ==
  /\ May("hold") /\ Running /\ mode' = m
  /\ UNCHANGED <<policyVars, hookVars, inputVars, actuatorVars, scenario,
                 power, sleepEvents, inhibited, offRun, ticked, deadFor>>

Keyboard(level) ==
  /\ Running /\ Listener(level)
  /\ UNCHANGED <<policyVars, hookVars, actuatorVars, loopVars, deadFor>>

Crash ==
  /\ May("crash") /\ Running /\ HypridleDies /\ deadFor' = 0
  /\ UNCHANGED <<policyVars, hookVars, actuatorVars, loopVars>>

Restart ==
  /\ May("crash") /\ Running /\ HypridleStarts /\ deadFor' = Unset
  /\ UNCHANGED <<policyVars, hookVars, actuatorVars, loopVars>>

Remote(state) ==
  /\ May("meddle") /\ Running /\ Meddle(state)
  /\ UNCHANGED <<policyVars, hookVars, inputVars, loopVars, deadFor>>

\* A unit is at least tickSlow, so a loop that is not blocked ticks in it;
\* a sensor without outages sends a frame in it.
Elapse ==
  /\ Running
  /\ ticked \/ offRun
  /\ May("outage") \/ lastFrame = 0
  /\ PolicyElapse /\ HookElapse /\ InputElapse /\ ActuatorElapse
  /\ ticked' = FALSE /\ deadFor' = IF offRun THEN deadFor ELSE Older(deadFor)
  /\ UNCHANGED <<scenario, mode, power, sleepEvents, inhibited, offRun>>

Next ==
  \/ \E f \in FrameKinds : HandleFrame(f)
  \/ \E d \in Absences : HandleTick(d)
  \/ HandleDoneMsg
  \/ BeforeSleep
  \/ \E o \in Outcomes : SleepRunEnds(o)
  \/ BeforeSleepBusy
  \/ AfterSleep
  \/ DaemonRestarts
  \/ \E a \in {"on", "off"}, o \in Outcomes : ScriptEnds(a, o)
  \/ Announce
  \/ Suspend
  \/ Wake
  \/ \E m \in {"normal", "paused", "held"} : User(m)
  \/ \E level \in WrittenLevels : Keyboard(level)
  \/ Crash
  \/ Restart
  \/ \E state \in TVStates : Remote(state)
  \/ Elapse

Spec == Init /\ [][Next]_vars

-----------------------------------------------------------------------------
(* Safety *)

Starts(action) == runs'[action] > runs[action]

ScriptsRunning == runs["on"] + runs["off"] + (IF offRun THEN 1 ELSE 0)

\* However ticks, finished runs and sleep events interleave, two runs of the
\* script never overlap, and a finished run never waits for room on `done`
\* (busy, main.go:266, 273, 409).
OneScriptAtATime ==
  /\ ScriptsRunning <= 1
  /\ done # "none" => ScriptsRunning = 0

\* The loop turns the panel on only for a reason that is still true or that
\* it can have missed for no longer than its own caches and caps: a recently
\* touched keyboard, reported by a hypridle dead for less than CheckEvery,
\* or a body confirmed within the away timer, and then, with hypridle dead,
\* only until the input cap, if one is set, has run out (input.go:43,
\* policy.go:43).
LitForAReason ==
  [][Starts("on") =>
       \/ /\ inputFile \in {"active", "quiet"}
          /\ deadFor = Unset \/ deadFor < CheckEvery
       \/ /\ present /\ confirmedAt < MaxAbsence + StaleAfter
          /\ \/ deadFor = Unset \/ InputUnknownCap = 0
             \/ deadFor < CheckEvery + InputUnknownCap + 1
    ]_vars

-----------------------------------------------------------------------------
(* Liveness                                                                *)
(*                                                                         *)
(* The loop's select takes each ready case with the same chance, so none   *)
(* is passed over for ever; a script run is bounded by actuatorTimeout;    *)
(* a machine that sleeps wakes up; time passes.  That the script succeeds  *)
(* again and again when it is run again and again is the hardware's share. *)
(* No frame is ever due, where May("outage"): a radar may never speak       *)
(* again, and only Occupied supposes one that does.                        *)

FairSpec ==
  /\ Spec
  /\ WF_vars(Elapse)
  /\ WF_vars(\E d \in Absences : HandleTick(d))
  /\ WF_vars(HandleDoneMsg)
  /\ WF_vars(BeforeSleep) /\ WF_vars(BeforeSleepBusy) /\ WF_vars(AfterSleep)
  /\ WF_vars(\E o \in Outcomes : SleepRunEnds(o))
  /\ WF_vars(Suspend) /\ WF_vars(Wake)
  /\ \A a \in {"on", "off"} :
       /\ WF_vars(\E o \in Outcomes : ScriptEnds(a, o))
       /\ SF_vars(ScriptEnds(a, "done"))

EveryoneElseIsDone ==
  ~Announce /\ ~DaemonRestarts /\ ~\E state \in TVStates : Remote(state)

\* Someone sits at the desk from some point on, with hypridle running and no
\* hold, and nobody else works the TV or restarts the daemon.
Occupied ==
  /\ <>[][\A f \in FrameKinds : HandleFrame(f) => f \in {"hot", "near"}]_vars
  /\ <>[][EveryoneElseIsDone]_vars
  /\ <>[](hypridle /\ inputFile \in {"active", "quiet", "idle"})
  /\ <>[](mode = "normal" /\ lastFrame <= 1)

\* Nobody is there from some point on: by a radar that sees no body, if it
\* says anything at all, and by the keyboard, or hypridle is gone.  There is
\* no hold, and no pause but one that an hour without input goes through.
Deserted ==
  /\ <>[][\A f \in FrameKinds : HandleFrame(f) => f \in {"quiet", "far"}]_vars
  /\ <>[][EveryoneElseIsDone]_vars
  /\ <>[](~hypridle \/ inputFile \in {"idle", "away"})
  /\ <>[]\/ mode = "normal"
         \/ mode = "paused" /\ hypridle /\ inputFile = "away"

\* The panel and the light follow whoever sits down, after failed runs,
\* hypridle's crashes, a restart, a hold, or a suspend whose "off" comes after
\* the resume (policy.go:203, main.go:268-302, 332-341, 736) ...
OccupiedIsLit == Occupied => <>[](tv = "on" /\ fired = "on")

\* ... and an abandoned OLED ends dark, with a radar that works, flaps or has
\* died, and whatever hypridle, the script, a restart, a suspend that did not
\* wait or a hold left behind (policy.go:203).
DesertedIsDark == Deserted => <>[](tv = "off" /\ fired = "off")

-----------------------------------------------------------------------------
(* What the documentation says and the code does not do *)

\* docs/architecture.md: "A logind delay inhibitor turns the TV off before
\* suspend."
DarkWhileAsleep == power = "asleep" => tv = "off"
=============================================================================
