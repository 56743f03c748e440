# Verification of deskpresence

`deskpresence` is a daemon that watches a desk with a presence sensor and turns a TV (an OLED, so
"when in doubt, off") on and off, fades screen and audio before it does, pauses media players, and
tells arrive/leave hooks. This directory holds TLA+ models of it, the TLC configurations that check
them, and theorems about them with proofs checked by TLAPS. The source is a flat Go package; line
numbers below refer to it.

    tlc -workers 2 -config MCPolicy.cfg MCPolicy       # a run; the table below lists them
    tlapm PolicyProofs.tla                             # proofs; one module of them for each part

## The system

One goroutine, the loop of `main.go:218-425`, owns nearly all state. Its `select` takes, in no set
order, a sensor frame, a write of the input file, the end of an actuator run, a sleep event of
logind, or a tick, and runs that handler to the end. Around it run the sensor reader, the actuator
script (in a goroutine), the logind watcher, the audio ramp (a goroutine), the HTTP server, and, as
processes of their own, hypridle's listeners (`deskpresence input ...`) and the user's subcommands
(`hold`, `absence`), which talk to the daemon through small files.

| component | state | operations | what makes it correct |
|---|---|---|---|
| presence policy (`policy.go:16-261, 330-339`) | the debounced verdict, the recent hot frames, six timestamps | `Observe`, `Reset`, `Want`, `HoldBlack`, `FadeLevel` | departures earned over the whole timer, arrivals debounced, no presence without a body, and both verdicts reached eventually |
| hook gate (`policy.go:263-299`) | last action given, when the last "off" was | `next`, `set` | phantoms do not turn the light on, real returns do |
| actuator (`policy.go:301-328`, `main.go:428-508`) | `busy`, attempts, backoff, the state file | `Decide`, `run`, the `done` message | one run at a time, goes on trying, never stuck |
| input layer (`input.go`, `main.go:304-323`) | the input file, the cached look at `/proc`, since when input is unknown | `readInput`, `processAlive.get`, `runInput`, `watchInput` | a dead hypridle's level is believed for 30 s at most; the radar alone lights the panel up to a cap |
| main loop and suspend (`main.go:166-425, 700-759`) | the above, logind's inhibitor | one handler per `select` case | the panel is lit for a reason, ends lit for an occupant and dark for an empty desk; suspend finds it dark |
| audio fade (`audio.go`, `streamrestore.go`) | snapshot, level, pending restores, the saved file | `apply`, `rampUp`, `restoreSaved` | every faded stream gets its volume back, through races and crashes |
| media players (`mpris.go`, `main.go:343-382`) | the players paused, the verdict last acted on | `pauseAll`, `resume` | who comes back finds playing what was paused, and the sound up |
| ToF sensor and its gate (`tof.go`) | on/off wish, wake token, a session with its goroutine, sysfs's switch | `set`, `readToF`, `setToF`, `streamToF` | the sensor is read while wanted and off otherwise, also after a stop or a kill |
| floor learner (`floor.go`, `main.go:132-140, 236-242, 297-300`) | a histogram per slot, the last threshold, a file | `observe`, `threshold`, `save`, `load`, `floorTeaches` | the threshold follows the room's noise, and is not forgotten for want of frames |
| radar parser and serial reader (`ld2410.go`, `main.go:559-647`) | the parser's buffer, the last frame's length, VMIN | `Feed`, `Need`, `readSerial` | whole frames only, in order and without delay, after lost bytes, stalls and unplugs |
| hold, absence, flag and status files (`main.go:799-940, 972-978`) | files | the commands, `holdUntil`, `fileDuration.read` | what was asked last is what the daemon follows, and a hold ends |
| live view (`http.go`, `history.go`) | subscribers, last status | `publish`, `serve` | not modelled |
| replay, `config.go`, `version.go`, units | I/O and command-line dialogue | | not modelled |

Hard parts: five kinds of event in any order, each handler reading what others left; the actuator
handed to a goroutine; a suspend that may or may not wait; an environment in which the sensor,
hypridle and the script each fail on their own; and a dozen timers whose comparisons decide. The
hazards, each with its line, are listed in `PROJECT.json`.

## Modules

| module | models | lines |
|---|---|---|
| `Clock` | timestamps as saturating ages | |
| `Policy` | `Policy.Observe`, `Reset`, `Want`, `HoldBlack`, `FadeLevel` | `policy.go` |
| `Verdict` | what `Observe` promises of the verdict: readings, and one clock | `policy.go:78-133` |
| `PolicyHistory` | the policy under every stream of frames; history variables and properties | |
| `PolicyLemmas` | lemmas about `Clock` and `Policy` that three of the proof modules use | |
| `PolicyProofs`, `HookProofs`, `DaemonProofs`, `AudioProofs`, `FilesProofs`, `SensorProofs`, `FloorProofs` | theorems about `PolicyHistory`, `HookHistory`, `Daemon`, `AudioFade`, `StateFiles`, `Sensors`, `FloorLearner` | |
| `HookGate` | `hookGate` on top of `Policy` | `policy.go:263-299` |
| `HookHistory` | frames, ticks and sleeps driving the gate; properties | `main.go:332-392` |
| `InputLayer` | `processAlive`, `readInput`, the tick's input part, hypridle | `input.go`, `main.go:304-323` |
| `Actuator` | `Decide`, `run`, `busy`, `done` | `policy.go:301-328`, `main.go:409-414, 459-508` |
| `Daemon` | the loop over all of these, logind, the user; properties | `main.go:218-425, 700-759` |
| `AudioFade` | the fade of the streams' volumes, its undoing, the pending applications; properties | `audio.go`, `streamrestore.go` |
| `SoundLevel` | what the loop sees of the sound: a level, and a mutex that `apply` may find taken | `audio.go:361-432` |
| `MediaFollow` | the tick's audio and media part over `Policy` and `SoundLevel`, the players; properties | `mpris.go`, `main.go:343-382` |
| `Disk` | names, inodes, open files (external) | |
| `StateFiles` | the commands' processes and the tick's reads, one system call a step; properties | `input.go`, `main.go:799-940` |
| `ToFSensor` | the gate, `readToF`, its session's goroutine, the heartbeat; properties | `tof.go` |
| `RadarStream` | the line byte by byte, the tty, `readSerial`, `Parser`; properties | `ld2410.go`, `main.go:559-647` |
| `Sensors` | a daemon with one of the two readers | `main.go:154-165` |
| `FloorLearner` | `floorLearner` in the loop with its own threshold; properties | `floor.go` |
| `MCPolicy`, `MCHooks`, `MCDaemon`, `MCAudio`, `MCMedia`, `MCFiles`, `MCSensors`, `MCFloor` | values for TLC | |

`HookGate` and `PolicyHistory` extend `Policy`, and `PolicyHistory` is shown to implement `Verdict`
(`IsAVerdict`); `Daemon` extends `HookGate`, `InputLayer` and
`Actuator`, whose variables are disjoint, and each of its handlers conjoins one action of each.
`MediaFollow` extends `Policy` too. `AudioFade` and `MediaFollow` meet in `SoundLevel`: `AudioFade`
is shown to implement it (`KeepsTheLevel`), and `MediaFollow` uses it in the fade's place.
`Sensors` extends `RadarStream` and has an instance of `ToFSensor`: a daemon starts one of the readers. `StateFiles` extends `Disk`.
What the parts hand to each other elsewhere is chosen freely by the one that takes it: any frame at
any time for the policy, any input level for the gate, any verdict for the learner.
Operators marked "Mutant" are the following definition with a plausible bug; they only serve to
show that a property notices it.

### How state and actions correspond

- **Time.** The code never uses a time but to compare `now.Sub(t)` with a threshold or ask
  `t.IsZero()`. A timestamp is kept as its age, saturating at `Cap`, which assumptions place above
  every threshold it is compared with; `Elapse` makes everything a unit older. Go's monotonic clock
  stands still in a suspend, so no age grows while the machine sleeps. Where the code subtracts two
  stamps (`presentAt - offAt`, `confirmedAt - presentAt` in the gate) the difference is a variable,
  updated where either stamp is.
- **Frames.** The policy tells four kinds apart: `hot` and `quiet` (engineering frames at or over
  the threshold, and under it), `near` and `far` (basic or ToF frames with and without a target).
  The learned threshold moves frames between hot and quiet; as every sequence of kinds is allowed,
  that is included.
- **`Observe`** is one action with the code's branches as disjuncts, named `SeedPresent`,
  `EarnAbsence`, `Renew`, `Arrive`, `Depart`, `Keep`. `recent` keeps the ages of the newest
  `ConfirmFrames` hot frames: the slice, trimmed to the window, is long enough exactly when the
  oldest of these is in it.
- **The tick** (`Daemon!HandleTick`) is one step: override of the away timer, look at `/proc`, read
  the input, `Want`, the pause rule, the hooks, `HoldBlack`, `Decide`, start of a run. Its audio and
  media part is the tick of `MediaFollow`, its reads of files those of `StateFiles`, its gate the
  `Set` of `ToFSensor`, its threshold the tick of `FloorLearner`; alerts and status are left out.
  Which tick comes when is free, so an early tick (`tick.Reset(time.Millisecond)`) is included.
- **Time in the loop.** A unit of time is at least `tickSlow` (a second), so `Elapse` waits until
  the loop has ticked in the unit, unless the loop is blocked in the sleep path's own run. Without
  `outage` the sensor sends a frame in each unit.
- **The script** is external. A run ends `done` (the state file says what was asked), `unknown`
  (it says the TV could not be asked) or `unchanged` (failed, abandoned, killed at its timeout).
- **Suspend.** `Announce` is PrepareForSleep(true), `Suspend` happens once the inhibitor is closed,
  or without it when `delay expires`, `Wake` brings PrepareForSleep(false) and a new inhibitor. The
  next suspend is not announced before the loop has taken this one's two events.
- **Restart of the daemon** (`DaemonRestarts`): each part starts over from what the code starts
  with: no verdict, no look at `/proc`, the hooks at the TV's recorded state. A script in progress
  ends with the service.
- **`Scenarios`** are the sets of troubles a behaviour of `Daemon` may meet, one chosen at the start:
  `sleep`, `delay expires`, `crash` (of hypridle), `hold` (pause and hold files), `meddle` (somebody
  else works the TV), `outage`, `restart` (of the daemon). `MediaFollow`
  has scenarios as well; `Happenings` says the same of the other modules, for all their behaviours.
- **The audio fade.** The mutex is a variable, `mu`, naming its holder, so everything the code does
  without it falls between the steps of a holder: streams that open, end, pause and are turned up or
  down, the watch's goroutine, a crash. `apply` is two steps, the snapshot with its file (`Apply`)
  and the writing (`FadeTo`); `rampUp` is one step a pass (`RampPass`); `forget` one step for each
  application's stand-in (`Repair`, `RepairFails`), and one for its end (`ForgetEnds`). One listing
  of the streams with the writes that follow it is one step. WirePlumber is `remembered`: what was
  last written on an application's stream is where its next one starts. `chosen` records which volumes
  users gave an application since the last fade began, so a *faded* volume is one outside `chosen`. A
  ramp waiting for the mutex is not state: a call may come at any time. The watch on pending
  applications is `watch`, and `news` an event that a living one has reported and nobody has read:
  `FixPending` takes it, and does nothing with it under a fade; `CountPending` is the count after it;
  a stream that comes while no watch lives makes no news. `unheard` records the pending applications
  with a stream of which no watch has told, or only a fade's. An application has at most one stream
  here: of several the fade sets all to one volume, and `fixPending` only the first it finds, after
  which the entry is gone (`audio.go:302-309`). Several streams, the day after which a pending entry expires, and a
  `pactl` that does not start or whose writes fail, are left out. Happenings there: `crash`, `repair-fails`, `repair-fails-at-start`
  (in `restoreSaved`), `watch-dies`, `late-stream` (a stream that opens while its application waits
  for a stand-in).
- **The sound, for the loop** (`SoundLevel`) is the level `audio.Level()` reports and whether a call of
  `apply` would find the mutex taken. `AudioFade` maps it by `level` and the mutex held by a ramp, the end of
  a fade or the undoing of a crash's.
- **Sound and players.** `MediaFollow`'s tick has the code's four parts in their order: the flag
  switched off, the verdict's edge, what is noted of it, the fade. A ramp is a goroutine that waits for
  the mutex (`ramps` of them), so it may come before or after the fade of the same tick. `taken` is a
  mutex that a repair of the watch has when the tick comes to `apply`, which then does nothing. A player may
  be started, stopped, closed or paused by its user at any time, and refuse to pause or to play; `ours`
  is what the daemon has paused and nobody has touched since, `left` those of them that refused to play
  or whose owner's return was noted without being acted on.
- **Files.** A process's `os.WriteFile` is two steps, the open that truncates and the write that ends
  in the close, and a file lives on under an open descriptor when its name goes to another. The tick
  reads in the code's order (the override's stat, its read, the hold, its removal, the input), each a
  step. A hold is kept as the time left; what is unreadable is `<<>>`. `mtime` compares the override's
  with the one the tick knows: a write moves it, or leaves it in the same tick of the kernel's clock.
- **The ToF reader** has one value of `reader` for each place it can be in, and its session's goroutine
  the three it can be in between looks at the gate. `enabled` is sysfs's switch, which outlives the
  daemon. The device's own goroutine in `streamToF` and the one that forwards are one.
- **The radar's line** carries frames to scale: two bytes of header, one of length, a payload of three or
  four, two of footer. Each byte knows which frame it is from, for the properties only. A read takes
  what the tty holds; the goroutine parks and is woken when VMIN bytes are there.
- **The learner** keeps the set of the frames counted, with the ages of their slots. A slot past the
  window stays in memory until the next frame, as in the code. The verdict and the TV's state are any,
  frame by frame; what they decide is the part `Teaches`.

## Runs

| run | module / cfg | checks | states | time |
|---|---|---|---|---|
| `policy` | `MCPolicy` | type, `NoGhostPresence`, `DepartureIsEarned`, `ArrivalIsDebounced`, `EmptyRoomGoesAway`, `BodyIsSeen`, `IsAVerdict` | 342 k | 35 s |
| `hooks` | `MCHooks` | `PhantomStaysDark`, `ReturnIsHeard` | 432 k | 60 s |
| `daemon` | `MCDaemon` | type, `OneScriptAtATime`, `LitForAReason` | 4.8 M | 95 s |
| `daemon_live` | `MCDaemonLive` | `OccupiedIsLit`, `DesertedIsDark`: hypridle crashes, the radar fails or dies, runs fail, restarts; holds and pauses | 566 k | 143 s |
| `daemon_live_sleep` | `MCDaemonSleep` | the same two: suspends, also with a delay that expires, and the radar | 518 k | 87 s |
| `suspend` | `MCSuspend` | `DarkWhileAsleep`, violated | | 3 s |
| `audio` | `MCAudio` | type, `EveryFadeIsOnRecord`, `NoStreamStaysFaded`, `PendingIsWatched`, `KeepsTheLevel` | 319 k | 30 s |
| `audio_restart` | `MCAudioRestart` | `EveryFadeIsOnRecord`, violated | | 2 s |
| `media` | `MCMedia` | type, `PlayersComeBack`, `SoundComesBack` | 634 k | 160 s |
| `files` | `MCFiles` | type, `RestsAtLastLevel`, `TouchIsHeard`, `OverrideIsFollowed`, `HoldExpires` | 239 k | 100 s |
| `sensors` | `MCSensors` | type, `StoppedLeavesItOff`, `WakesForTheDesk`, `SleepsWhileTyping`, `NewsArrives`, `OnlyFramesInOrder`, `NoFrameWaits`, `FramesKeepComing` | 85 k | 80 s |
| `floor` | `MCFloor` | type, `FallsOnlyOnFreshFrames`, `ThresholdFollowsTheNoise` | 62 k | 16 s |

What they show:

- **policy.** Whatever the sensor sends, with outages, resumes and changes of the timer: "away" is
  only ever reached when the whole timer in force has passed since the last raw-present frame;
  "present" after a known "away" only after `Debounce` without a raw-absent frame; a healthy radar
  never stays "present" longer than timer, confirmation window and tolerated silence together
  after the last frame that showed a body; an empty room ends "away" and a seated body "present".
  `IsAVerdict` is a refinement: of the policy's stamps one decides at a time (`RunAge`), each step of
  the policy is a step of `Verdict` with that one for its clock, and the verdict turns at the first
  reading after its timer, neither earlier nor later. So what `Reset`, an arrival or an earlier verdict
  leaves in the others never matters, except for `recent`, which decides what a reading is.
- **hooks.** A phantom (`ConfirmFrames` hot frames, then nothing) never gets an "on" out of the
  gate soon after an "off", and someone who stays always does. The first needs
  `ConfirmWindow < Dwell`: the quiet frames a phantom's window lets through renew presence for up
  to that window. The code's values satisfy it (4 s and 5 s), and nothing enforces it: with
  `-confirm-window 5s` phantoms pass the gate. `PhantomsStayDark` proves that it is enough.
- **daemon.** Every "on" run is started on a keyboard touched recently, by a hypridle dead for no
  longer than the cached look, or on a body the radar confirmed within the timer, and without
  hypridle no longer than the input cap (counted by each daemon process anew).
  The tick's runs and the sleep path's never overlap, and the goroutine of a run never waits for room
  on `done`.
- **daemon_live**, **daemon_live_sleep.** Panel and hooks end on for someone who stays and off for an
  empty desk, whatever was left by failed runs with crashes of hypridle, outages and restarts or with
  holds and pauses (`daemon_live`), or by suspends, waited for or not (`daemon_live_sleep`). The troubles of
  these three groups do not meet in one behaviour: that would have too many states. The desk ends dark also with a
  radar that never speaks again, and under a pause that stays, when hypridle reports an hour without input.
- **audio.** A volume nobody chose that WirePlumber would hand to an application is on record with
  one somebody did choose, at every step at which the daemon may be killed.
  Once the fade is over no application goes on playing at such a volume: not one whose stream ended during
  the fade or was paused during it, not one whose stand-in failed, not after a crash; except a stream of
  which no watch has told (`unheard`, see `MCAudioWatch` below). What is pending is watched again and
  again, whenever a watch died or ended. `KeepsTheLevel` is the refinement: every step of the fade is a
  step of `SoundLevel` or none of its business, and whoever keeps the mutex lets go of it.
- **media.** Who is back, or never left, finds playing what the daemon paused and nobody has touched,
  also when the verdict was lost in a suspend and formed anew, when they left twice, and when holds and the
  flag came in between; except a player that refused to play, and those of an owner who came back
  under a hold, a pause or with the flag off (see below).
  They hear at full volume again as soon as the keyboard rests once, through cancelled
  fades, ramps and repairs that meet a fade, suspends and the flag, if the verdict does not change under
  a hold.
- **files.** However hypridle's listeners fall over each other on one temporary file, the input file
  ends at the level they were run to say, and the loop is told of it or about to look. The override
  in force ends as the file has it, clamped, or as the flag when there is none, unless the file's last
  write left the mtime where the tick had seen it (`MCFilesClock` below). A hold ends.
- **sensors.** A gate that stays open ends with the ToF sensor being read, and one that stays closed
  with it switched off: no wake token is taken by a wait that has no use for it. A stopped daemon
  leaves the switch off wherever its reader was and whatever a killed one had left; what the sensor sees
  reaches the loop although full channels drop frames. The radar's parser hands on each whole frame
  once and in order and makes none up; VMIN never lets the reader sleep on a whole frame, whatever was
  lost before; and after stalls and unplugs, frames come again.
- **floor.** While the daemon runs the threshold falls only on enough frames from within the window, so
  neither ageing nor the first frames after a long sit undo what was learned; and over a deserted room
  it ends at the noise plus the margin, from above and from below, however wrong it was.

### Bounds, and why they are enough

`Cap` is above every threshold, so ages past it are alike. All other constants are small numbers
that keep the *order* of the code's timers where an order matters, since guards only compare:

- `MCPolicy`: two away timers (2, 3), `Debounce` 1, `StaleAfter` 1, confirmation of 2 frames in a
  window of 2. Timers are longer than one unit, so frames fall before, at and after each of
  them, and all four kinds of frames mix.
- `MCHooks`: `Quick` 4 > `Dwell` 3 > `ConfirmWindow` 2, the order of the code's 2 min, 5 s, 4 s;
  an away timer of 2 lets a departure, an "off" and a return all fall within `Quick`.
  `Blackout` is 0 there, because the gate is handed the answer before the blackout is applied
  and knows of it only that `Quick` is at least as long.
- `MCDaemon*`: `MCDaemon` has four scenarios, each of troubles that meet in the code: what hypridle, the
  radar and a restart leave to the caches and caps; a hold over an outage; somebody else at the TV; and
  suspends whose delay expires, with a restart. `MCDaemonLive` has the first
  two of these, `MCDaemonSleep` suspends over an outage. Timers of one unit (boundary values 0, 1 and "past it" each occur), one-frame
  confirmation, because confirmation is the subject of `MCPolicy` and `MCHooks`, and basic frames.
  `MaxBackoff = MinBackoff` there: how backoff grows does not matter to these properties.
  `Cap` is 3 where `LitForAReason` compares with 3, otherwise 2.
  hypridle writes `active` and `idle` in `MCDaemon` (the one that lights by itself and the one that
  leaves it to the radar), `idle` and `away` in `MCDaemonLive` (`away` goes through a pause), `idle` alone
  in `MCDaemonSleep`, where the radar decides and every run succeeds, and `quiet` and `away` in `MCSuspend`.
- `MCAudio*`: two applications, because `forget` repairs one while the other goes on and one watch
  serves all that is pending. Each has one volume its user chooses; `MCAudioVolumes.cfg`, which is not in
  the table, lets the browser's user choose between two, so that one may be set that is neither faded nor the
  original, and all five properties hold there too (2.4 M states, over 4 minutes). Levels are 0 and
  silence: the ramp of two steps writes the volume in between. One late pass: a second does what the first
  does. A crash is left out while something is pending that the state file does not know (the code keeps
  that in memory only).
- `MCMedia*`: one player, because each is on its own in the list, and refuses, leaves and is touched on
  its own; a fade of two units, so that one is cancelled half way; one waiting ramp, because each does
  the same; instant debounce, because `MCPolicy` has that. `sleep` is the reset after a resume,
  `repair` the mutex in the hands of the watch. There are two scenarios: the audio flag and a player that
  refuses to pause do not meet a resume of the machine.
- `MCFiles*`: three processes, since two listeners share the temporary file and a third comes between
  their steps; the three files are used one at a time (`Uses`), as no step of the code reads one for
  another. Two levels ("quiet" and "active"), holds of one and two units, an override under and one over
  its clamps. Two processes and one unit do for what is violated.
- `MCSensors`: room for two ToF frames, so that the channel fills; frames of eight and nine bytes, a tty
  of ten, so that a read takes a whole frame and some, and one lost byte between two opens. The proofs
  have any tty that holds a frame, and up to seven lost bytes.
- `MCFloor`: three noises, whose thresholds are the minimum, between and the maximum; a window of two
  slots of three frames, of which two are enough; a quantile of two thirds.
- `sleepEvents` holds at most the two events of one suspend (see above); `attempts` stops counting
  where every further one waits `MaxBackoff`.

### Fairness

- Time passes (`WF(Elapse)`). In the properties of the policy, the gate and the media part that say so
  the sensor streams (`WF_lastFrame`): it sends ten frames a second. `Daemon` assumes no such thing:
  `OccupiedIsLit` supposes a radar that speaks from some point on, `DesertedIsDark` one that is dead or alive.
- Go's `select` picks among ready cases at random, so each ready handler is eventually run (WF on
  each handler).
- `actuatorTimeout` ends every run (WF on its end). That a run tried again and again succeeds now
  and then (SF on `ScriptEnds(a, "done")`) is the hardware's share; without it nothing can be lit.
- A machine that goes to sleep wakes up (WF on `Suspend`, `Wake`).
- The fade: each holder of the mutex goes on (WF on its steps), and the watch's goroutine reads what
  pactl has reported (WF on `FixPending`, `CountPending`, `WatchEnds`, `WatchRetries`): `sync.Mutex` does
  not starve a waiter, and whoever holds it lets go. That there is anything to report, that streams
  open, end or change, that the watch lives, or that anybody calls `apply`, is not assumed.
- Media: the loop ticks (WF), ramps come to the mutex and end (WF), and of the ticks of a fade
  that is to be applied not every one meets a repair (SF on `FadeMoves /\ HandleTick(FALSE)`): a
  repair takes milliseconds, and ticks are a quarter of a second apart or more.
- Files: a process goes on to its end, and time passes. Sensors: each goroutine goes on, naps end, the ToF
  sensor's heartbeat ticks; the radar sends, and a radar that is gone is plugged in again. Learner: the
  radar sends, the tick comes, slots pass.

`OccupiedIsLit` and `DesertedIsDark` assume the room settles: the same kind of frames, if any come,
no further suspend, nobody else working the TV, no restart, no hold, and no pause (or, for
`DesertedIsDark`, any pausing under an hour without input), from some point on. Before that point anything
may have happened that the run's scenario names.

### Further assumptions

- **Media.** For the sound the verdict must not change under a hold or a pause (`[](Edge => ~observeOnly)`):
  the code notes such an edge without acting on it, and a level of 1 is nothing that the fade restores.
  For the players nothing is assumed: those of such a return are in `left`.
- **Audio.** One stream for each application (see above). `NoStreamStaysFaded` excepts the `unheard`.
- **Files.** hypridle runs all along (`InputLayer` has its crashes). Its listeners' moments lie further
  apart than a process lives, and so does a unit of a hold's time.
- **ToF.** A goroutine that has been told to end does so before the next tick and before a pause of two
  seconds is over. Switching off does not fail. A sensor that is not found is not on.
- **Radar.** No byte of a payload is one of a header, a footer or a length, and fewer bytes are lost
  between two opens than a frame has: there is no checksum, and the loss of exactly a frame's length
  splices two into one that cannot be told from a real one. A sensor sends one kind of frame after
  `enterEngineering`. The deadline of three seconds passes only over a line that is stalled. Setting
  VMIN does not fail.
- **Learner.** A slot (ten minutes) is longer than a tick, a slot of a deserted room is full of frames,
  and `-energy-min` is not over 70. A crash may lose up to a slot of learning: the file is written when
  a frame opens the next.

### What the code does that its documentation does not say

Found by a run:

- `suspend`: with a run in progress the sleep path skips its "off" (`main.go:273`), and ticks
  between the release of the inhibitor and the suspend can start an "on", so the machine can sleep
  with the TV on (against `docs/architecture.md:74`).
- `audio_restart`: a restart takes the fade it finds for complete (`audio.go:246`); if the stand-in
  of an application fails then, what is pending is a volume of zero, and a stream that comes back
  half faded is not recognised (against `audio.go:41-44, 47-48`).

Others. Each has a configuration of its own, outside the table, whose property TLC finds violated in
seconds:

- `MCAudioWatch.cfg`, `PendingIsPutBack`: a stream of a pending application that comes while the watch is
  dead or over, or whose event is spent on a fade that then has nothing of its own to write, stays at the
  faded volume: nobody looks for it when the watch is back (`audio.go:290, 349-355` against
  `audio.go:41-44`). The next `change` or `new` of any stream, or the next fade, would find it.
- `MCMediaTouched.cfg`, `TouchedIsLeftAlone`: a player that its user starts and pauses again while away
  plays when they are back (`mpris.go:84` against `mpris.go:10-12`).
- `MCFilesClock.cfg`, `OverrideIsAlwaysFollowed`: a tick that reads the override between the open and the
  write of one tick of the kernel's clock keeps the flag until the next write (`main.go:831` against
  `main.go:284-287`).
- `MCFilesClamp.cfg`, `ClampIsAsCommented`: `parseAbsence` says "clamped to 5 s..30 min" and clamps to
  10..60 s (`main.go:843` against `main.go:862-867`; `docs/flags.md:31` has the latter).
- `MCFilesTorn.cfg`, `NeverHalfAFile`: listeners that resume together share one temporary file, so one may
  rename what another has just truncated, and the daemon reads an empty input file, which is an unknown
  level until the next read (`input.go:96` against `input.go:84`).
- `MCPolicyOutage.cfg`, `AbsenceIsWatched`: the away timer also runs while the radar is out, so the
  first empty frame after an outage can turn the verdict at once (`policy.go:126` against
  `policy.go:17`, `main.go:62`).
- `MCPolicyReset.cfg`, `FreshStartAfterReset`: `Reset` does not forget `recent` (`policy.go:332`
  against its comment), so a hot frame from before a suspend counts towards presence after it.
- `MCAudioLate.cfg`, `NoStreamStaysFaded` with `late-stream`: a stream opened while `forget` works on
  its application's stand-in starts faded and stays so: the stand-in corrects what is remembered, not
  the stream that is already there (`audio.go:258` against `docs/architecture.md:61`).
- `MCMediaHeld.cfg`, `PlayersComeBackAfterAHold`: who comes back under a hold finds the players silent
  when it has ended (`main.go:363` against `mpris.go:10`). One that refuses to play is not tried again
  either (`mpris.go:89-92`).
- `MCMediaTyping.cfg`, `AudioFollowsTheScreen`: the keyboard lights the screen at once, and leaves the
  sound where a cancelled fade had got to until it rests (`main.go:377` against `main.go:374`).

The comment of `floorTeaches` (`floor.go:56`) says that a learner filtered by the threshold could only
ever fall. Frames just under the threshold let it rise, by less than the margin at a time.

## Proofs

Each theorem holds for all values of the constants that satisfy the named assumptions of the modules
it is about (`CapAssumption`, `PolicyAssumption`, `HookAssumption`, `AudioAssumption`, ...). The
assumptions say what the code's flags and constants guarantee; hypotheses beyond them are in the table.

| module | theorem | statement |
|---|---|---|
| `PolicyProofs` | `TypeCorrect` | `Spec => []HistoryTypeOK` |
| | `NoGhost` | `Spec => []NoGhostPresence` |
| | `Departures` | `Spec => DepartureIsEarned` |
| | `Arrivals` | `Spec => ArrivalIsDebounced` |
| | `PolicyIsAVerdict` | `Spec => IsAVerdict` |
| `HookProofs` | `TypeCorrect` | `Spec => []TypeOK_Hooks` |
| | `PhantomsStayDark` | `ShortWindow => (Spec => PhantomStaysDark)` |
| `DaemonProofs` | `TypeCorrect` | `Spec => []TypeOK_Daemon` |
| | `ScriptsExcludeEachOther` | `Spec => []OneScriptAtATime` |
| | `LightHasAReason` | `Spec => LitForAReason` |
| `AudioProofs` | `TypeCorrect` | `Spec => []TypeOK` |
| | `EveryFadeIsRemembered` | `OrderlyWorld => (Spec => []EveryFadeIsOnRecord)` |
| | `FadeKeepsTheLevel` | `Spec => Sound!Init /\ [][Sound!Next]_(Sound!soundVars)` |
| `FilesProofs` | `TypeCorrect` | `Spec /\ []AFileIsFree => []TypeOK_Files` |
| | `ListenersAgree` | `Spec /\ []AFileIsFree => []RestsAtLastLevel` |
| | `TouchesAreHeard` | `Spec /\ []AFileIsFree => []TouchIsHeard` |
| `SensorProofs` | `StoppedSwitchesOff` | `FairSpec => []StoppedLeavesItOff` |
| | `ReadersTypeCorrect` | `FairSpec => []TypeOK_Sensors` |
| | `FramesInOrder` | `FairSpec => []OnlyFramesInOrder` |
| | `NeverSleepsOnAFrame` | `FairSpec => []NoFrameWaits` |
| `FloorProofs` | `TypeCorrect` | `Spec => []TypeOK_Floor` |
| | `FallsOnFreshFrames` | `Spec => FallsOnlyOnFreshFrames` |

No invariant is inductive as it stands; TLC checked each strengthening on the module's run first.

- **Policy.** `NoGhostPresence` relates the verdict to frames through `confirmedAt`, which quiet frames
  renew. `IndInv` adds what that needs: `HitsAreBodies` (the newest hot frame of `recent` is no older
  than any frame in the window, and was a body), `RunIsUnbroken` (no raw-absent frame since `rawSince`
  while the reading is raw-present), `PresenceIsDated` (`confirmedAt` is no older than the last sighting
  while present, and a sighting has a body behind it within the window) and `EmptinessIsDated`
  (`absentSince` is no older than the last sighting). `PolicyIsAVerdict` has one step for each branch of
  `Observe`, and needs the types: a stamp that decides is set.
- **Hooks.** `PhantomInv` counts the hot frames behind a presence: there is at least one
  (`HitBeforePresence`, which `NoHitNoPresence` keeps), one more for each that is newer than the verdict
  (`HitsSinceArrival`), and a presence that has been renewed for the whole dwell has more than
  `ConfirmFrames` of them (`RenewalIsEarned`): those that made it are out of the window by then. This
  is where `ShortWindow` comes in: the frames are a radar's, and `-confirm-window`, 4 s by default
  (`main.go:69`), is shorter than the dwell, a constant of 5 s (`main.go:489`).
- **Loop.** `OneScriptAtATime` needs `BusyMeansOneJob`: `busy` is true exactly while one goroutine runs
  or its message waits, and the sleep path runs the script only if it is not. Types need
  `SleepIsAnnounced`: at most the two signals of one suspend wait. `LitForAReason` needs to know what
  the cached look at `/proc` says of hypridle: `ReasonInv` dates it (`LookIsDated`, `DeathIsDated`,
  `DeathIsNoticed`, `UnknownIsDated`) and dates the verdict (`PresenceIsDated`). With a cap of 0
  (`-input-unknown-cap 0`) the radar alone lights the panel for as long as hypridle is dead, and
  `LitForAReason` says so.
- **Audio.** `RecordInv` says of every application, for every step at which a crash may come, where its
  volume is: as somebody chose it, or faded and held by the memory, the file or the pending list
  (`Heard`, `Original`, `Written`, `PendingIsFaded`, `Elsewhere`, `OnTheWay`, `PutBack`, `Forgetting`),
  and `FileIsMemory` that the file is what the memory was when it was saved. `OrderlyWorld` excludes
  what the code does not handle: a stream that opens during its application's repair, and a repair that
  fails at a restart, both of which break the property (with the happenings of `MCAudioLate` and `MCAudioRestart`); and it supposes
  that no volume a user chooses is exactly one that the fade would have written for another choice, which
  no comparison of volumes can tell apart (`sameVolume`, `audio.go:83`).
  `FadeKeepsTheLevel` is `KeepsTheLevel` without fairness: that every ramp ends stays with the run.
- **Files.** `FilesInv`: no two names lead to one file, a file says what its name is for, and who has it
  open will write that. `ListenersInv`: while listeners are on their way they all write `reported`; the
  temporary file is good or held by one who will make it so, and is to be renamed by one of them; the input
  file is good, or somebody is on the way. `AFileIsFree` is a disk that is not full: who creates a
  file gets an inode nobody has. It holds of every state of `MCFiles`; what a program does without one
  is not modelled.
- **ToF sensor.** `OffBetweenSessions` lists where `readToF` has the sensor off, `ReaderFirst` that main
  does not return before it has ended. Steps of the serial reader leave all of this alone.
- **Radar.** `Traced` says where the bytes come from that the tty and the parser hold: there is a history
  of frames, each with its kind and how long ago it began, and each byte has a place in one of them, in
  the order sent, less the lost ones. With fewer bytes lost than a frame has (`Losses`, at most 7), what
  looks like a frame, with its header, length and footer where they belong, is then a whole frame of the
  sensor (`TracedSound`): the footer is too near for the bytes of another frame to stand in between. Of
  bytes of which that is true, `Feed` hands on all the whole frames there are, in order, and
  leaves less than a frame, with all of one that has begun (`FoundGets`). `Found` is a function recursive
  over the buffer. That such a function exists (`ScanExists`) and that it finds this from every place on
  is proved with the greatest place from which it would not, which cannot be: `Feeds` only looks further
  ahead (`FeedsLooksAhead`). `OpenInv` adds that what is due is what is whole among the bytes held, and
  `Wakes` that VMIN is met when a frame is due, and asks for no more than what the frame under way still
  lacks when none is and no byte of this one is lost. So no read that a whole frame would allow is waited for. A
  sensor that has gone over to engineering mode, whose frames are longer, does not go back while it has
  power; with frames that got shorter VMIN would be too large.
- **Learner.** `Settled`: frames past the window are held only while they change nothing, as the last tick
  took over what they say and ageing keeps it (`AgedTeachTheSame`); `InForce`: the policy's threshold
  is the one learned. So a tick that makes the threshold fall has no frame past the window to count. Types need
  `Spread`, that what is held lies within one window, and that enough frames have a quantile
  (`QuantileIsEnergy`, over `FiniteHasEnds`: a finite set of numbers has a least and a greatest).

### Only model-checked

- All liveness, and with it the fairness part of `KeepsTheLevel`: out of the prover's reach.
- `TypeOK_Media`: `MediaFollow`'s safety lies in its liveness properties; its type is not worth a module
  of proofs of its own.

All other invariants and action properties of the passing runs, and the refinement of `Verdict`, are
theorems, some under the hypotheses that the table gives. `TypeOK_Hooks` is a theorem only: the proof leaves a
run nothing to add.

## Plan

Modelled are all components with control of their own, and their safety is proved. What is left is a
property on the first ticks after a start or a resume, when a radar that has not spoken yet counts as
stale and idle input alone decides (`policy.go:235`).

## Not modelled

The live view (hub, HTTP server, history, page), the status file and the alerts only display. The
radar's configuration dialogue runs with the daemon stopped. Decoding of a ToF report or a radar
payload is data; version and unit files have no behaviour. In the audio fade, applications with several
streams, the day after which a pending entry expires, and a `pactl` that does not start are left out.
`alert` runs two programs in the loop without a bound; how long they take is theirs.
