------------------------------ MODULE ToFSensor ------------------------------
(***************************************************************************)
(* The laptop's ToF sensor and the gate that switches it off while someone *)
(* types (src/tof.go): the main loop sets the gate, readToF opens and      *)
(* closes sessions, and each session has a goroutine of its own that waits *)
(* for the gate to close.  Both wait for the same wake token, a channel    *)
(* with room for one.                                                      *)
(*                                                                         *)
(* What a report says is a member of Readings.  The goroutine that reads   *)
(* the device and the one that forwards are one: between them is a         *)
(* channel without room.                                                   *)
(*                                                                         *)
(* Assumed of the Go scheduler (Prompt): a goroutine that has been told to *)
(* end does so before the next tick and before the pauses of seconds that  *)
(* separate two sessions are over.                                         *)
(***************************************************************************)
EXTENDS Naturals, Sequences

CONSTANTS
  Readings,       \* what the sensor can report
  Room,           \* frames the channel to the main loop holds (64)
  Happenings      \* what the environment of this instance may do

ToFAssumption ==
  /\ Room \in Nat \ {0}
  /\ Happenings \subseteq {"failures", "kill", "stop"}

VARIABLES
  process,        \* "up", "stopping" (ctx is done), "stopped" or "killed"
  on, token,      \* sensorGate: on, and whether wake holds its token
  reader,         \* where readToF is
  watcher,        \* the session's goroutine: "none", "select", "woken"
  cancelled,      \* the session's context is done
  enabled,        \* enable_sensor in sysfs
  last,           \* streamToF's last reading, "none" while it has none
  frames,         \* the channel to the main loop
  heard           \* what the loop last heard of the sensor, or "none"

gateVars == <<on, token>>

sessionVars == <<watcher, cancelled>>

streamVars == <<last, frames, heard>>

vars == <<process, gateVars, reader, sessionVars, enabled, streamVars>>

May(happening) == happening \in Happenings

Running == process \in {"up", "stopping"}

Reading == Readings \cup {"none"}

TypeOK ==
  /\ process \in {"up", "stopping", "stopped", "killed"}
  /\ on \in BOOLEAN /\ token \in BOOLEAN /\ enabled \in BOOLEAN
  /\ reader \in {"check", "wait", "enable", "open", "stream", "close",
                 "after", "nap", "done"}
  /\ watcher \in {"none", "select", "woken"} /\ cancelled \in BOOLEAN
  /\ last \in Reading /\ heard \in Reading
  /\ frames \in UNION {[1..n -> Readings] : n \in 0..Room}

\* A daemon that runs with the other sensor.
Unused ==
  /\ process = "stopped" /\ on = TRUE /\ token = FALSE /\ reader = "done"
  /\ watcher = "none" /\ cancelled = FALSE
  /\ last = "none" /\ frames = <<>> /\ heard = "none"
  /\ enabled = FALSE

\* newSensorGate opens the gate, and readToF's first look finds it open: the
\* first tick is a quarter of a second away.
Init ==
  /\ process = "up" /\ on = TRUE /\ token = FALSE /\ reader = "enable"
  /\ watcher = "none" /\ cancelled = FALSE
  /\ last = "none" /\ frames = <<>> /\ heard = "none"
  /\ enabled \in BOOLEAN

-----------------------------------------------------------------------------
(* The main loop *)

Prompt == watcher # "none" => ~cancelled

\* Mutant: only the opening of the gate wakes anybody.
SetWakesOnOpen(open) ==
  /\ process = "up" /\ Prompt
  /\ on # open
  /\ on' = open /\ token' = (token \/ open)
  /\ UNCHANGED <<process, reader, sessionVars, enabled, streamVars>>

\* sensorGate.set, from the tick.
Set(open) ==
  /\ process = "up" /\ Prompt
  /\ on # open
  /\ on' = open /\ token' = TRUE
  /\ UNCHANGED <<process, reader, sessionVars, enabled, streamVars>>

Take ==
  /\ process = "up" /\ frames # <<>>
  /\ heard' = Head(frames) /\ frames' = Tail(frames)
  /\ UNCHANGED <<process, gateVars, reader, sessionVars, enabled, last>>

-----------------------------------------------------------------------------
(* readToF *)

Reader(from, to) == Running /\ reader = from /\ reader' = to

Check ==
  /\ Reader("check", IF process = "stopping" THEN "done"
                     ELSE IF on THEN "enable" ELSE "wait")
  /\ UNCHANGED <<process, gateVars, sessionVars, enabled, streamVars>>

\* Woken by a token, or by the end of ctx.
Woken ==
  /\ Reader("wait", "check")
  /\ \/ process = "stopping" /\ UNCHANGED token
     \/ token /\ token' = FALSE
  /\ UNCHANGED <<process, on, sessionVars, enabled, streamVars>>

\* Mutant: the switch is written whatever state it is in, and the kernel
\* answers EINVAL to the state it is already in.
EnableAnyway ==
  /\ Running /\ reader = "enable"
  /\ reader' = IF enabled THEN "nap" ELSE "open"
  /\ enabled' = TRUE
  /\ UNCHANGED <<process, gateVars, sessionVars, streamVars>>

\* findToF and setToF(name, true), which leaves a switch alone that is on.
Enable ==
  /\ Reader("enable", "open") /\ enabled' = TRUE
  /\ UNCHANGED <<process, gateVars, sessionVars, streamVars>>

\* A sensor that is not there, or may not be switched, is not on.
NotFound ==
  /\ May("failures") /\ ~enabled /\ Reader("enable", "nap")
  /\ UNCHANGED <<process, gateVars, sessionVars, enabled, streamVars>>

\* A session starts, with its goroutine.
Open ==
  /\ Prompt /\ Reader("open", "stream")
  /\ watcher' = "select" /\ cancelled' = FALSE
  /\ last' = "none"
  /\ UNCHANGED <<process, gateVars, enabled, frames, heard>>

OpenFails ==
  /\ May("failures") /\ Reader("open", "nap") /\ enabled' = FALSE
  /\ UNCHANGED <<process, gateVars, sessionVars, streamVars>>

\* cancel, Close and setToF(name, false).
Close ==
  /\ Reader("close", "after")
  /\ cancelled' = TRUE /\ enabled' = FALSE
  /\ last' = "none"
  /\ UNCHANGED <<process, gateVars, watcher, frames, heard>>

After ==
  /\ Reader("after", IF process = "up" /\ ~on THEN "check" ELSE "nap")
  /\ UNCHANGED <<process, gateVars, sessionVars, enabled, streamVars>>

\* Two or five seconds, or the end of ctx.
NapEnds ==
  /\ Prompt /\ Reader("nap", "check")
  /\ UNCHANGED <<process, gateVars, sessionVars, enabled, streamVars>>

-----------------------------------------------------------------------------
(* The session's goroutine *)

WatcherTakes ==
  /\ Running /\ watcher = "select" /\ token
  /\ token' = FALSE /\ watcher' = "woken"
  /\ UNCHANGED <<process, on, reader, cancelled, enabled, streamVars>>

\* It looks at the gate and ends the session, or waits on.
WatcherLooks ==
  /\ Running /\ watcher = "woken"
  /\ IF on THEN watcher' = "select" /\ UNCHANGED cancelled
           ELSE watcher' = "none" /\ cancelled' = TRUE
  /\ UNCHANGED <<process, gateVars, reader, enabled, streamVars>>

SessionDone == cancelled \/ process = "stopping"

WatcherEnds ==
  /\ Running /\ watcher = "select" /\ SessionDone
  /\ watcher' = "none"
  /\ UNCHANGED <<process, gateVars, reader, cancelled, enabled, streamVars>>

-----------------------------------------------------------------------------
(* streamToF *)

\* Mutant: room is looked for one frame too late.
SentTooMany(r) == IF Len(frames) <= Room THEN Append(frames, r) ELSE frames

\* send: a frame for which there is no room is dropped.
Sent(r) == IF Len(frames) < Room THEN Append(frames, r) ELSE frames

\* The sensor reports only a change.
Sample(r) ==
  /\ Running /\ reader = "stream" /\ r # last
  /\ last' = r /\ frames' = Sent(r)
  /\ UNCHANGED <<process, gateVars, reader, sessionVars, enabled, heard>>

\* Mutant: beats stop once the loop has heard something.
BeatOnlyFirst ==
  /\ Running /\ reader = "stream" /\ last # "none" /\ heard = "none"
  /\ frames' = Sent(last)
  /\ UNCHANGED <<process, gateVars, reader, sessionVars, enabled, last, heard>>

Beat ==
  /\ Running /\ reader = "stream" /\ last # "none"
  /\ frames' = Sent(last)
  /\ UNCHANGED <<process, gateVars, reader, sessionVars, enabled, last, heard>>

StreamEnds ==
  /\ Reader("stream", "close") /\ SessionDone
  /\ UNCHANGED <<process, gateVars, sessionVars, enabled, streamVars>>

ReadFails ==
  /\ May("failures") /\ Reader("stream", "close")
  /\ UNCHANGED <<process, gateVars, sessionVars, enabled, streamVars>>

-----------------------------------------------------------------------------
(* The process *)

Stop ==
  /\ May("stop") /\ process = "up" /\ process' = "stopping"
  /\ UNCHANGED <<gateVars, reader, sessionVars, enabled, streamVars>>

\* Mutant: main does not wait for the reader.
ExitAtOnce ==
  /\ process = "stopping" /\ process' = "stopped"
  /\ UNCHANGED <<gateVars, reader, sessionVars, enabled, streamVars>>

\* main waits for readToF, which takes much less than the two seconds it has.
Exit ==
  /\ process = "stopping" /\ reader = "done" /\ process' = "stopped"
  /\ UNCHANGED <<gateVars, reader, sessionVars, enabled, streamVars>>

\* Killed, or out of a power that did not take the sensor along.
Kill ==
  /\ May("kill") /\ Running /\ process' = "killed" /\ last' = "none"
  /\ UNCHANGED <<gateVars, reader, sessionVars, enabled, frames, heard>>

Start ==
  /\ ~Running
  /\ process' = "up" /\ on' = TRUE /\ token' = FALSE /\ reader' = "enable"
  /\ watcher' = "none" /\ cancelled' = FALSE
  /\ last' = "none" /\ frames' = <<>> /\ heard' = "none"
  /\ UNCHANGED enabled

Next ==
  \/ \E open \in BOOLEAN : Set(open)
  \/ Take
  \/ Check
  \/ Woken
  \/ Enable
  \/ NotFound
  \/ Open
  \/ OpenFails
  \/ Close
  \/ After
  \/ NapEnds
  \/ WatcherTakes
  \/ WatcherLooks
  \/ WatcherEnds
  \/ \E r \in Readings : Sample(r)
  \/ Beat
  \/ StreamEnds
  \/ ReadFails
  \/ Stop
  \/ Exit
  \/ Kill
  \/ Start

-----------------------------------------------------------------------------
(* Safety *)

\* A daemon that was stopped, and not killed, leaves the sensor switched off,
\* whatever it was doing, and whatever state a killed one had left the sensor
\* in (main.go:150, 221, tof.go:203).
StoppedLeavesItOff == process = "stopped" => ~enabled

-----------------------------------------------------------------------------
(* Liveness.  Goroutines go on, and pauses end.                            *)

Fairness ==
  /\ WF_vars(Take) /\ WF_vars(Check) /\ WF_vars(Woken)
  /\ WF_vars(Enable \/ NotFound) /\ WF_vars(Open \/ OpenFails)
  /\ WF_vars(Close) /\ WF_vars(After) /\ WF_vars(NapEnds)
  /\ WF_vars(WatcherTakes) /\ WF_vars(WatcherLooks) /\ WF_vars(WatcherEnds)
  /\ WF_vars(Beat) /\ WF_vars(StreamEnds) /\ WF_vars(Exit)

NoFailure == ~NotFound /\ ~OpenFails /\ ~ReadFails

\* A gate that stays open ends with the sensor being read: no wake token is
\* taken by a goroutine that has no use for it, and a switch left on by a
\* killed daemon is no obstacle (tof.go:118, 153-212).
WakesForTheDesk ==
  <>[](process = "up" /\ on) /\ <>[][NoFailure]_vars
    => <>[](reader = "stream" /\ enabled)

\* A gate that stays closed ends with the sensor off, wherever readToF was
\* when it closed (tof.go:127).
SleepsWhileTyping == <>[](process = "up" /\ ~on) => <>[]~enabled

\* What the sensor sees reaches the loop, unless it changes first, though a
\* frame that finds the channel full is dropped (tof.go:250: "the next beat
\* carries the same news").
NewsArrives == \A r \in Readings : last = r ~> heard = r \/ last # r
=============================================================================
