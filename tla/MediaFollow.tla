----------------------------- MODULE MediaFollow -----------------------------
(***************************************************************************)
(* Sound and media players follow the verdict: the tick of src/main.go     *)
(* from the audio-follow flag to the fade, with the players of             *)
(* src/mpris.go.  It reads the policy's verdict and fade, the input level, *)
(* the pause and hold files and the flag file, all of which others change  *)
(* between two ticks, and it acts on the edges it has seen itself.         *)
(*                                                                         *)
(* Sound is SoundLevel.tla, which AudioFade implements.  D-Bus answers:    *)
(* a player that does not is one that is gone.                             *)
(***************************************************************************)
EXTENDS Policy

CONSTANTS
  Players,        \* bus names of media players
  MaxRamps,       \* rampUp goroutines waiting for the mutex, counted to here
  MediaLevels,    \* the input levels of this instance
  Scenarios       \* what the environment may do, one set for each behaviour

ASSUME MediaAssumption ==
  /\ MaxRamps \in Nat \ {0}
  /\ MediaLevels \subseteq Inputs
  /\ Scenarios \subseteq SUBSET {"hold", "flag", "sleep", "touch",
                                "pause fails", "play fails", "repair"}

VARIABLES
  scenario,       \* what the environment may do in this behaviour
  status,         \* each player's PlaybackStatus, "" when it is gone
  paused,         \* mpris.paused: the players pauseAll stopped
  lastPresent, lastKnown,  \* the verdict the last tick saw, once it saw one
  audioNoted,     \* the flag the last tick saw
  level, busy,    \* the sound (SoundLevel.tla)
  ramps,          \* rampUp goroutines that wait for the mutex
  input,          \* the level hypridle reports
  observeOnly,    \* the pause file exists or a hold is in force
  follow,         \* the audio-follow flag is not "off"
  ticked,         \* a tick has seen this level in this unit of time
  ours,           \* history: paused by the daemon and not touched since
  left            \* history: those of ours it has left for good (see Return)

followVars == <<paused, lastPresent, lastKnown, audioNoted>>

mediaVars == <<status, ours, left>>

userVars == <<scenario, input, observeOnly, follow>>

soundVars == <<level, busy, ramps>>

vars == <<policyVars, followVars, soundVars, mediaVars, userVars, ticked>>

FadeLevels == 0..20

Sound == INSTANCE SoundLevel WITH Levels <- FadeLevels

Statuses == {"Playing", "Paused", ""}

May(happening) == happening \in scenario

TypeOK_Media ==
  /\ TypeOK /\ scenario \in Scenarios
  /\ status \in [Players -> Statuses]
  /\ paused \subseteq Players /\ ours \subseteq Players /\ left \subseteq ours
  /\ lastPresent \in BOOLEAN /\ lastKnown \in BOOLEAN
  /\ audioNoted \in BOOLEAN
  /\ level \in FadeLevels /\ busy \in BOOLEAN /\ ramps \in 0..MaxRamps
  /\ input \in MediaLevels /\ observeOnly \in BOOLEAN /\ follow \in BOOLEAN
  /\ ticked \in BOOLEAN

Init ==
  /\ PolicyInit /\ Sound!Init /\ scenario \in Scenarios
  /\ status \in [Players -> Statuses]
  /\ paused = {} /\ ours = {} /\ left = {}
  /\ lastPresent = FALSE /\ lastKnown = FALSE
  /\ input \in MediaLevels /\ observeOnly = FALSE
  /\ follow = TRUE /\ audioNoted = TRUE
  /\ ramps = 0 /\ ticked = FALSE

-----------------------------------------------------------------------------
(* The tick *)

\* pauseAll: the players that play are paused, those that refuse are not
\* remembered, and the list of the last time is dropped.
PauseAll ==
  \E refused \in SUBSET {p \in Players : status[p] = "Playing"} :
    LET stopped == {p \in Players : status[p] = "Playing"} \ refused
    IN /\ refused # {} => May("pause fails")
       /\ status' = [p \in Players |-> IF p \in stopped THEN "Paused"
                                       ELSE status[p]]
       /\ paused' = stopped
       /\ ours' = ours \cup stopped
       /\ left' = left \ stopped

\* resume: those of the list that still sit paused play again, unless they
\* refuse; the list is dropped either way.
ResumePlayers ==
  LET still == {p \in paused : status[p] = "Paused"}
  IN \E refused \in SUBSET still :
       LET played == still \ refused
       IN /\ refused # {} => May("play fails")
          /\ status' = [p \in Players |-> IF p \in played THEN "Playing"
                                          ELSE status[p]]
          /\ paused' = {}
          /\ ours' = ours \ played
          /\ left' = (left \ played) \cup (refused \cap ours)

MoreRamps == AtMost(ramps + 1, MaxRamps)

\* The fade level after apply(l) from the loop, which waits until the call is
\* over.  A ramp keeps the mutex, and so may a repair of the watch (taken).
Applied(l, taken) == IF busy \/ taken THEN level ELSE l

\* The tick's edge: a verdict other than the one the last tick saw.
Edge == presentKnown /\ lastKnown /\ present # lastPresent

Acts == follow /\ ~observeOnly

\* What the fade asks of the sound while someone is taken to be there.
FadeMoves ==
  /\ presentKnown /\ present /\ Acts /\ input # "active"
  /\ \/ FadeLevel \in 1..19
     \/ FadeLevel = 0 /\ level \in 1..19

Return == Edge /\ present /\ Acts

\* A return that the flag, a pause or a hold keeps from resuming anyone.  The
\* tick notes the verdict and never comes back to it.
ReturnLeft == Edge /\ present /\ ~Acts

Departure == Edge /\ ~present /\ Acts

\* Mutant: the tick forgets the verdict while there is none.
NoteVerdictOrNone ==
  /\ lastPresent' = present
  /\ lastKnown' = presentKnown
  /\ audioNoted' = follow

\* Whatever came of it, the tick has seen this verdict and this flag.
NoteVerdict ==
  /\ lastPresent' = IF presentKnown THEN present ELSE lastPresent
  /\ lastKnown' = (lastKnown \/ presentKnown)
  /\ audioNoted' = follow

\* Mutant: a fade that was cancelled is left where it was.
SoundTickNoRestore(taken) ==
  /\ IF follow # audioNoted /\ ~follow /\ level > 0
     THEN ramps' = MoreRamps /\ UNCHANGED level
     ELSE IF Departure THEN level' = Applied(20, taken) /\ UNCHANGED ramps
     ELSE /\ ramps' = IF Return THEN MoreRamps ELSE ramps
          /\ level' = IF FadeMoves /\ FadeLevel > 0
                      THEN Applied(FadeLevel, taken) ELSE level
  /\ UNCHANGED busy

\* The flag switched off mid-fade, a return, a departure, and the fade.  A
\* return is a ramp, whose goroutine may come to the mutex before or after the
\* fade of the same tick.
SoundTick(taken) ==
  /\ IF follow # audioNoted /\ ~follow /\ level > 0
     THEN ramps' = MoreRamps /\ UNCHANGED level
     ELSE IF Departure THEN level' = Applied(20, taken) /\ UNCHANGED ramps
     ELSE /\ ramps' = IF Return THEN MoreRamps ELSE ramps
          /\ \/ level' = IF FadeMoves THEN Applied(FadeLevel, taken) ELSE level
             \/ Return /\ UNCHANGED level
  /\ UNCHANGED busy

\* The mutex is in a repair's hands (taken) when the tick comes to apply, or
\* it is not.
HandleTick(taken) ==
  /\ taken => May("repair")
  /\ SoundTick(taken)
  /\ IF Return THEN ResumePlayers
     ELSE IF Departure THEN PauseAll
     ELSE /\ left' = IF ReturnLeft THEN ours ELSE left
          /\ UNCHANGED <<status, paused, ours>>
  /\ NoteVerdict
  /\ ticked' = TRUE
  /\ UNCHANGED <<policyVars, userVars>>

-----------------------------------------------------------------------------
(* The loop's other handlers, and rampUp's goroutine *)

HandleFrame(f) ==
  /\ Observe(f)
  /\ UNCHANGED <<followVars, soundVars, mediaVars, userVars, ticked>>

AfterSleep ==
  /\ May("sleep") /\ Reset
  /\ UNCHANGED <<followVars, soundVars, mediaVars, userVars, ticked>>

\* Mutant: the loop itself waits for the mutex again and again.
RampTakesUnasked ==
  /\ Sound!RampTakes
  /\ ramps' = ramps - 1
  /\ UNCHANGED <<policyVars, followVars, mediaVars, userVars, ticked>>

RampTakes ==
  /\ ramps > 0 /\ Sound!RampTakes
  /\ ramps' = ramps - 1
  /\ UNCHANGED <<policyVars, followVars, mediaVars, userVars, ticked>>

RampEnds ==
  /\ Sound!Ends
  /\ UNCHANGED <<policyVars, followVars, ramps, mediaVars, userVars, ticked>>

-----------------------------------------------------------------------------
(* The user and the players: external *)

\* A player starts, stops, quits, or is paused by its user; at the desk or
\* from a phone.
Touch(p, s) ==
  /\ May("touch") /\ status[p] # s
  /\ status' = [status EXCEPT ![p] = s]
  /\ ours' = ours \ {p} /\ left' = left \ {p}
  /\ UNCHANGED <<policyVars, followVars, soundVars, userVars, ticked>>

\* A level that is written wakes a tick, which sees it before the next.
Keyboard(l) ==
  /\ ticked /\ input' = l /\ ticked' = FALSE
  /\ UNCHANGED <<policyVars, followVars, soundVars, mediaVars, scenario,
                 observeOnly, follow>>

Hold(on) ==
  /\ May("hold") /\ observeOnly' = on
  /\ UNCHANGED <<policyVars, followVars, soundVars, mediaVars, scenario, input,
                 follow, ticked>>

SwitchFollow(on) ==
  /\ May("flag") /\ follow' = on
  /\ UNCHANGED <<policyVars, followVars, soundVars, mediaVars, scenario, input,
                 observeOnly, ticked>>

\* A unit is at least tickSlow.
Elapse ==
  /\ ticked /\ PolicyElapse /\ ticked' = FALSE
  /\ UNCHANGED <<followVars, soundVars, mediaVars, userVars>>

Next ==
  \/ \E taken \in BOOLEAN : HandleTick(taken)
  \/ \E f \in FrameKinds : HandleFrame(f)
  \/ AfterSleep
  \/ RampTakes
  \/ RampEnds
  \/ \E p \in Players, s \in Statuses : Touch(p, s)
  \/ \E l \in MediaLevels : Keyboard(l)
  \/ \E on \in BOOLEAN : Hold(on) \/ SwitchFollow(on)
  \/ Elapse

Spec == Init /\ [][Next]_vars

-----------------------------------------------------------------------------
(* Liveness.  Time passes, the sensor streams, the loop ticks, a ramp      *)
(* comes to the mutex and lets go of it (SoundLevel.tla), and the ticks of *)
(* a fade do not all of them meet a repair, which takes milliseconds.      *)

FairSpec ==
  /\ Spec
  /\ WF_vars(Elapse) /\ WF_lastFrame(\E f \in FrameKinds : HandleFrame(f))
  /\ WF_vars(\E taken \in BOOLEAN : HandleTick(taken))
  /\ SF_vars(FadeMoves /\ HandleTick(FALSE))
  /\ WF_vars(RampTakes) /\ WF_vars(RampEnds)

AtDesk == presentKnown /\ present

\* Someone who is back, or never left, hears at full volume again as soon as
\* the keyboard rests once: through cancelled fades, ramps that meet a fade,
\* the flag switched on and off, holds, and suspends.  The verdict must not
\* have changed under a hold (main.go:345-381).
SoundComesBack ==
  /\ [](Edge => ~observeOnly)
  /\ <>[](AtDesk /\ FadeLevel = 0 /\ ~observeOnly)
  /\ []<>(input # "active")
  => <>[](level = 0)

\* Someone who is back finds playing whatever the daemon paused and nobody
\* has touched: also when the verdict was lost in a suspend and formed anew,
\* when holds, pauses and the flag came and went, on both sides of it, and when
\* they left twice.  Only two ends are open, and a player comes to neither by
\* any other way (main.go:363-373, mpris.go:60-96): one that refused to play
\* (mpris.go:89-92), and one whose owner came back under a hold, a pause or
\* with the flag off.
PlayersComeBack == <>[]AtDesk => <>[](ours \subseteq left)

-----------------------------------------------------------------------------
(* What the documentation says and the code does not do *)

\* main.go:374: "Audio follows the same fade as the screen."  The fade shown
\* to the screen is 0 while input is active (main.go:783); the sound stays
\* where the fade had got to.
AudioFollowsTheScreen ==
  ticked /\ Acts /\ AtDesk /\ input = "active"
    => level = 0 \/ busy \/ ramps > 0

\* mpris.go:10: the daemon "resumes exactly those players when someone is
\* back".  A verdict that changed under a hold is noted and never acted on,
\* so who came back under one finds the players silent when it has ended.
PlayersComeBackAfterAHold ==
  []follow /\ <>[](AtDesk /\ ~observeOnly) => <>[](ours = {})

\* mpris.go:10-12: the daemon resumes players "leaving anything that was
\* already paused (or that the user touched meanwhile) alone".  resume looks at
\* the status alone: a player its user started and paused again plays.
TouchedIsLeftAlone ==
  [][(\E taken \in BOOLEAN : HandleTick(taken))
     => \A p \in Players : status'[p] = "Playing" => \/ status[p] = "Playing"
                                                  \/ p \in ours]_vars
=============================================================================
