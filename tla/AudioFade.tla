----------------------------- MODULE AudioFade -----------------------------
(***************************************************************************)
(* The audio fade of src/audio.go with its stand-ins (streamrestore.go).   *)
(* The fade moves the volume of every playing application; WirePlumber     *)
(* remembers each volume written and hands it to the application's next    *)
(* stream, so whoever writes a faded volume must see to it that it is      *)
(* taken back, also for a stream that has ended, after a crash, and while  *)
(* a ramp in a goroutine of its own holds the mutex.                       *)
(*                                                                         *)
(* Volumes are whole units; sameVolume is less than one.  The maps of      *)
(* struct audio are functions on the applications they hold.  The calls of *)
(* apply and rampUp come in any order, more than the loop makes.           *)
(* An application has at most one stream here.  The fade writes all of an  *)
(* application's, but fixPending only the first it finds, and then drops   *)
(* the entry (audio.go:302-309): of several that came back faded, the      *)
(* others stay so, which this module does not show.  Also left out: the    *)
(* day after which a pending entry expires, and a pactl that does not      *)
(* start or answer.                                                        *)
(***************************************************************************)
EXTENDS Integers

CONSTANTS
  Apps,
  Full,           \* the loudest volume, in units
  UserVolumes,    \* the volumes users give each; none of them a faded one
  Depth,          \* fade levels: 0 is full volume, Depth silence
  RampSteps,      \* passes of the ramp ...
  LatePasses,     \* ... and full-volume passes after it
  Happenings      \* what the environment of this instance may do

ASSUME AudioAssumption ==
  /\ Full \in Nat /\ UserVolumes \in [Apps -> (SUBSET (1..Full)) \ {{}}]
  /\ Depth \in Nat \ {0} /\ RampSteps \in Nat \ {0} /\ LatePasses \in Nat
  /\ Happenings \subseteq {"crash", "watch-dies", "late-stream",
                           "repair-fails", "repair-fails-at-start"}

VARIABLES
  stream,         \* each application's stream: "none", "playing", "corked"
  vol,            \* its volume, 0 without a stream
  remembered,     \* the volume stream-restore holds for the application
  chosen,         \* history: the volumes a user has given it
  up,             \* the daemon runs
  level, orig, lastSet, pending,    \* struct audio
  file,           \* the originals in the state file
  mu,             \* who holds the mutex: "free", "fade", "ramp", "forget",
                  \* or "undo", the forget of restoreSaved
  target,         \* the level a fade in progress moves to
  pass, live,     \* rampUp's next pass, and the applications it has put back
  todo,           \* the applications forget has still to repair
  watch,          \* pactl subscribe: "off", "on", "counting" (an event was
                  \* handled, what is pending is to be counted), "ending"
  retry,          \* a watch that ended is to be started again
  news,           \* it has reported a sink-input event nobody has read
  unheard         \* history: pending applications with a faded stream that no
                  \* watch has reported, or only to a fade in progress

world == <<stream, vol, remembered, chosen>>

fadeVars == <<level, orig, lastSet, file>>

muVars == <<mu, target, pass, live, todo>>

watchVars == <<watch, retry, news>>

vars == <<world, up, fadeVars, pending, muVars, watchVars, unheard>>

Empty == [a \in {} |-> 0]

Volume == 0..Full

MapsTo(S) == UNION {[D -> S] : D \in SUBSET Apps}

TypeOK ==
  /\ stream \in [Apps -> {"none", "playing", "corked"}]
  /\ vol \in [Apps -> Volume] /\ remembered \in [Apps -> Volume]
  /\ chosen \in [Apps -> SUBSET (1..Full)]
  /\ up \in BOOLEAN /\ level \in 0..Depth /\ target \in 0..Depth
  /\ orig \in MapsTo(Volume) /\ lastSet \in MapsTo(Volume)
  /\ file \in MapsTo(Volume)
  /\ pending \in MapsTo([orig : Volume, faded : Volume])
  /\ mu \in {"free", "fade", "ramp", "forget", "undo"}
  /\ pass \in 0..(RampSteps + LatePasses)
  /\ live \subseteq Apps /\ todo \subseteq Apps
  /\ watch \in {"off", "on", "counting", "ending"}
  /\ retry \in BOOLEAN /\ news \in BOOLEAN
  /\ unheard \subseteq Apps

Init ==
  /\ stream \in [Apps -> {"none", "playing"}]
  /\ remembered \in {v \in [Apps -> Volume] :
                       \A a \in Apps : v[a] \in UserVolumes[a]}
  /\ vol = [a \in Apps |-> IF stream[a] = "none" THEN 0 ELSE remembered[a]]
  /\ chosen = [a \in Apps |-> {remembered[a]}]
  /\ up = TRUE /\ level = 0 /\ target = 0
  /\ orig = Empty /\ lastSet = Empty /\ pending = Empty /\ file = Empty
  /\ mu = "free" /\ pass = 0 /\ live = {} /\ todo = {}
  /\ watch = "off" /\ retry = FALSE /\ news = FALSE
  /\ unheard = {}

-----------------------------------------------------------------------------
(* The streams *)

Playing == {a \in Apps : stream[a] = "playing"}

Live == {a \in Apps : stream[a] # "none"}

\* int(v*frac*100 + 0.5)
Scaled(v, num, den) == (2 * v * num + den) \div (2 * den)

\* The applications in A get the volumes in V, on the stream and in
\* stream-restore.
Write(A, V) ==
  /\ vol' = [a \in Apps |-> IF a \in A THEN V[a] ELSE vol[a]]
  /\ remembered' = [a \in Apps |-> IF a \in A THEN V[a] ELSE remembered[a]]
  /\ UNCHANGED <<stream, chosen>>

Listening == watch \in {"on", "counting"}

\* A stream is new or changed ('remove' is not looked at).
Event == news' = (news \/ Listening) /\ UNCHANGED <<watch, retry>>

\* A volume written anew is a change.
EventIfMoved ==
  /\ news' = (news \/ (Listening /\ vol' # vol))
  /\ UNCHANGED <<watch, retry>>

\* Mutant: paused streams are left alone.
FoundPlaying == DOMAIN orig \cap Playing

\* setAll: every live stream of a remembered application, paused or not.
Found == DOMAIN orig \cap Live

SetAll(num, den) ==
  LET scaled == [a \in DOMAIN orig |-> Scaled(orig[a], num, den)]
  IN /\ Write(Found, scaled)
     /\ lastSet' = [a \in DOMAIN lastSet \cup Found |->
                      IF a \in Found THEN scaled[a] ELSE lastSet[a]]

-----------------------------------------------------------------------------
(* apply *)

Stale(a) == a \in DOMAIN pending /\ vol[a] = pending[a].faded

\* Mutant: a volume is an original whatever is pending.
SnapshotAsHeard ==
  /\ orig' = [a \in Playing |-> vol[a]]
  /\ file' = IF Playing = {} THEN file ELSE orig'

\* snapshot: playing streams only.  A pending application still at its faded
\* volume counts as its true original.
Snapshot ==
  /\ orig' = [a \in Playing |-> IF Stale(a) THEN pending[a].orig ELSE vol[a]]
  /\ file' = IF Playing = {} THEN file ELSE orig'

\* Mutant: the mutex is not asked.
ApplyAnyway(l) ==
  /\ up /\ l # level
  /\ mu' = "fade" /\ target' = l
  /\ IF l > 0 /\ orig = Empty THEN Snapshot ELSE UNCHANGED <<orig, file>>
  /\ UNCHANGED <<world, up, level, lastSet, pending, pass, live, todo,
                 watchVars, unheard>>

\* A call that finds the mutex taken, or the level unchanged, does nothing.
Apply(l) ==
  /\ up /\ mu = "free" /\ l # level
  /\ mu' = "fade" /\ target' = l
  /\ IF l > 0 /\ orig = Empty THEN Snapshot ELSE UNCHANGED <<orig, file>>
  /\ UNCHANGED <<world, up, level, lastSet, pending, pass, live, todo,
                 watchVars, unheard>>

\* What forget has to repair: written, below the original, and not put back.
Forsaken(back) ==
  {a \in DOMAIN orig \ back : a \in DOMAIN lastSet' /\ lastSet'[a] < orig[a]}

FadeTo ==
  /\ mu = "fade"
  /\ SetAll(Depth - target, Depth)
  /\ level' = target /\ target' = 0
  /\ IF target = 0 THEN mu' = "forget" /\ todo' = Forsaken(Found)
                   ELSE mu' = "free" /\ UNCHANGED todo
  /\ EventIfMoved
  /\ UNCHANGED <<up, orig, file, pending, pass, live, unheard>>

-----------------------------------------------------------------------------
(* rampUp *)

\* A goroutine of its own, started by the loop, waits for the mutex here.
RampTakes ==
  /\ up /\ mu = "free"
  /\ IF orig = Empty
     THEN level' = 0 /\ UNCHANGED <<mu, pass>>
     ELSE mu' = "ramp" /\ pass' = 1 /\ UNCHANGED level
  /\ UNCHANGED <<world, up, orig, lastSet, file, pending, target, live, todo,
                 watchVars, unheard>>

\* Mutant: one late pass too many.
RampPassOnceMore ==
  /\ mu = "ramp"
  /\ SetAll(IF pass < RampSteps THEN pass ELSE RampSteps, RampSteps)
  /\ live' = IF pass < RampSteps THEN {} ELSE live \cup Found
  /\ IF pass <= RampSteps + LatePasses
     THEN pass' = pass + 1 /\ UNCHANGED <<mu, todo>>
     ELSE pass' = 0 /\ mu' = "forget" /\ todo' = Forsaken(live')
  /\ EventIfMoved
  /\ UNCHANGED <<up, level, orig, file, pending, target, unheard>>

\* A stream counts as put back by the last step of the ramp or a late pass.
RampPass ==
  /\ mu = "ramp"
  /\ SetAll(IF pass < RampSteps THEN pass ELSE RampSteps, RampSteps)
  /\ live' = IF pass < RampSteps THEN {} ELSE live \cup Found
  /\ IF pass < RampSteps + LatePasses
     THEN pass' = pass + 1 /\ UNCHANGED <<mu, todo>>
     ELSE pass' = 0 /\ mu' = "forget" /\ todo' = Forsaken(live')
  /\ EventIfMoved
  /\ UNCHANGED <<up, level, orig, file, pending, target, unheard>>

-----------------------------------------------------------------------------
(* forget: repairs one application after the other, each for up to seconds *)

\* repair finds stream-restore at the original (ok), above it (kept), or
\* below it, which it takes for the fade's.  The stand-in is a stream too.
Repair(a) ==
  /\ mu \in {"forget", "undo"} /\ a \in todo
  /\ todo' = todo \ {a}
  /\ remembered' = IF remembered[a] < orig[a]
                   THEN [remembered EXCEPT ![a] = orig[a]] ELSE remembered
  /\ Event
  /\ UNCHANGED <<stream, vol, chosen, up, fadeVars, pending, mu, target, pass,
                 live, unheard>>

RepairFails(a) ==
  /\ \/ mu = "forget" /\ "repair-fails" \in Happenings
     \/ mu = "undo" /\ "repair-fails-at-start" \in Happenings
  /\ a \in todo
  /\ todo' = todo \ {a}
  /\ pending' = [b \in DOMAIN pending \cup {a} |->
                   IF b = a THEN [orig |-> orig[a], faded |-> lastSet[a]]
                   ELSE pending[b]]
  /\ UNCHANGED <<world, up, fadeVars, mu, target, pass, live, watchVars, unheard>>

ForgetEnds ==
  /\ mu \in {"forget", "undo"} /\ todo = {}
  /\ mu' = "free" /\ level' = 0 /\ live' = {}
  /\ orig' = Empty /\ lastSet' = Empty /\ file' = Empty
  /\ watch' = IF pending # Empty /\ watch = "off" THEN "on" ELSE watch
  /\ UNCHANGED <<world, up, pending, target, pass, todo, retry, news, unheard>>

-----------------------------------------------------------------------------
(* The watch on pending applications *)

\* fixPending on a sink-input event: nothing while a fade is on.  What it
\* writes is an event again.
FixPending ==
  /\ watch = "on" /\ mu = "free" /\ news
  /\ LET back == IF orig = Empty THEN {a \in Playing : Stale(a)} ELSE {}
     IN /\ vol' = [a \in Apps |-> IF a \in back THEN pending[a].orig
                                  ELSE vol[a]]
        /\ remembered' = [a \in Apps |-> IF a \in back THEN pending[a].orig
                                         ELSE remembered[a]]
        /\ pending' = [a \in DOMAIN pending \ back |-> pending[a]]
        /\ news' = (back # {})
  /\ unheard' = IF orig = Empty THEN {}
                ELSE unheard \cup {a \in Playing \ DOMAIN orig : Stale(a)}
  /\ watch' = "counting"
  /\ UNCHANGED <<stream, chosen, up, fadeVars, muVars, retry>>

CountPending ==
  /\ watch = "counting" /\ mu = "free"
  /\ IF pending = Empty THEN watch' = "ending" /\ news' = FALSE
                         ELSE watch' = "on" /\ UNCHANGED news
  /\ UNCHANGED <<world, up, fadeVars, pending, muVars, retry, unheard>>

\* What pactl has reported is still read.
WatchDies ==
  /\ "watch-dies" \in Happenings /\ watch = "on" /\ ~news
  /\ watch' = "ending"
  /\ UNCHANGED <<world, up, fadeVars, pending, muVars, retry, news, unheard>>

\* Mutant: a watch that died is not missed.
WatchEndsForGood ==
  /\ watch = "ending" /\ mu = "free"
  /\ watch' = "off" /\ UNCHANGED <<retry, news>>
  /\ UNCHANGED <<world, up, fadeVars, pending, muVars, unheard>>

WatchEnds ==
  /\ watch = "ending" /\ mu = "free"
  /\ watch' = "off" /\ retry' = (retry \/ pending # Empty)
  /\ UNCHANGED <<world, up, fadeVars, pending, muVars, news, unheard>>

\* Nobody looks for the streams that came in the meantime.
WatchRetries ==
  /\ retry /\ mu = "free"
  /\ retry' = FALSE
  /\ watch' = IF watch = "off" /\ pending # Empty THEN "on" ELSE watch
  /\ UNCHANGED <<world, up, fadeVars, pending, muVars, news, unheard>>

-----------------------------------------------------------------------------
(* Crash and restart of the daemon *)

\* What is pending is lost, as only a fade is saved: no crash is considered
\* while an application is pending that the state file does not know.
Crash ==
  /\ "crash" \in Happenings /\ up
  /\ DOMAIN pending \subseteq DOMAIN file
  /\ up' = FALSE
  /\ level' = 0 /\ orig' = Empty /\ lastSet' = Empty /\ pending' = Empty
  /\ mu' = "free" /\ target' = 0 /\ pass' = 0 /\ live' = {} /\ todo' = {}
  /\ watch' = "off" /\ retry' = FALSE /\ news' = FALSE
  /\ unheard' = {}
  /\ UNCHANGED <<world, file>>

\* restoreSaved: live streams below their originals are put back, the rest
\* repaired.
Start ==
  /\ ~up /\ up' = TRUE
  /\ IF file = Empty
     THEN UNCHANGED <<vol, remembered, orig, lastSet, mu, todo>>
     ELSE /\ vol' = [a \in Apps |-> IF a \in DOMAIN file \cap Live
                                       /\ vol[a] < file[a]
                                    THEN file[a] ELSE vol[a]]
          /\ remembered' = [a \in Apps |-> IF vol'[a] # vol[a] THEN vol'[a]
                                           ELSE remembered[a]]
          /\ orig' = file
          /\ lastSet' = [a \in DOMAIN file |-> 0]
          /\ mu' = "undo"
          /\ todo' = {a \in DOMAIN file \ Live : lastSet'[a] < file[a]}
  /\ UNCHANGED <<stream, chosen, level, file, pending, target, pass, live,
                 watchVars, unheard>>

-----------------------------------------------------------------------------
(* The applications and their users: external *)

\* A stream of a comes, or plays again.
Comes(a) ==
  /\ Event
  /\ unheard' = IF /\ a \in DOMAIN pending /\ vol'[a] = pending[a].faded
                   /\ ~Listening
                THEN unheard \cup {a} ELSE unheard

\* The next stream starts at the remembered volume.
Open(a) ==
  /\ stream[a] = "none"
  /\ a \notin todo \/ "late-stream" \in Happenings
  /\ stream' = [stream EXCEPT ![a] = "playing"]
  /\ vol' = [vol EXCEPT ![a] = remembered[a]]
  /\ UNCHANGED <<remembered, chosen, up, fadeVars, pending, muVars>>
  /\ Comes(a)

Close(a) ==
  /\ a \in Live
  /\ stream' = [stream EXCEPT ![a] = "none"]
  /\ vol' = [vol EXCEPT ![a] = 0]
  /\ unheard' = unheard \ {a}
  /\ UNCHANGED <<remembered, chosen, up, fadeVars, pending, muVars,
                 watchVars>>

Cork(a) ==
  /\ a \in Live
  /\ stream' = [stream EXCEPT ![a] =
                  IF @ = "playing" THEN "corked" ELSE "playing"]
  /\ UNCHANGED <<vol, remembered, chosen, up, fadeVars, pending, muVars>>
  /\ Comes(a)

\* During a fade the volume is the fade's, and the choice before it or the one
\* made during it may win.
UserSets(a, v) ==
  /\ a \in Live /\ v # vol[a]
  /\ vol' = [vol EXCEPT ![a] = v]
  /\ remembered' = [remembered EXCEPT ![a] = v]
  /\ chosen' = [chosen EXCEPT ![a] =
                  IF a \in DOMAIN orig \cup DOMAIN file THEN @ \cup {v}
                  ELSE {v}]
  /\ Event
  /\ unheard' = unheard \ {a}
  /\ UNCHANGED <<stream, up, fadeVars, pending, muVars>>

Next ==
  \/ \E l \in 0..Depth : Apply(l)
  \/ FadeTo
  \/ RampTakes
  \/ RampPass
  \/ \E a \in Apps : Repair(a) \/ RepairFails(a)
  \/ ForgetEnds
  \/ FixPending
  \/ CountPending
  \/ WatchDies
  \/ WatchEnds
  \/ WatchRetries
  \/ Crash
  \/ Start
  \/ \E a \in Apps : Open(a) \/ Close(a) \/ Cork(a)
  \/ \E a \in Apps : \E v \in UserVolumes[a] : UserSets(a, v)

Spec == Init /\ [][Next]_vars

-----------------------------------------------------------------------------
(* Safety *)

\* Wherever the daemon is stopped or interrupted, a volume nobody chose that
\* WirePlumber would hand to an application is on record with a volume
\* somebody did choose: in memory or in the state file during a fade, as
\* pending after one (audio.go:36-48, 168-187, 255-283).
EveryFadeIsOnRecord ==
  \A a \in Apps : remembered[a] \notin chosen[a] =>
    \/ a \in DOMAIN orig /\ orig[a] \in chosen[a]
    \/ a \in DOMAIN file /\ file[a] \in chosen[a]
    \/ /\ a \in DOMAIN pending /\ pending[a].orig \in chosen[a]
       /\ pending[a].faded = remembered[a]

-----------------------------------------------------------------------------
(* Liveness.  The daemon's goroutines go on, and read what pactl reports.  *)
(* That anything happens which it could report is not assumed.             *)

FairSpec ==
  /\ Spec
  /\ WF_vars(FadeTo) /\ WF_vars(RampPass)
  /\ WF_vars(\E a \in Apps : Repair(a) \/ RepairFails(a))
  /\ WF_vars(ForgetEnds)
  /\ WF_vars(FixPending) /\ WF_vars(CountPending)
  /\ WF_vars(WatchEnds) /\ WF_vars(WatchRetries)

\* Once the fade is over, no stream goes on playing at a volume nobody chose:
\* not one that ended mid-fade and came back, not one paused during it, not one
\* whose stand-in failed, not one a crashed daemon had faded (audio.go:31-48).
\* Not so the unheard, for which see PendingIsPutBack.
NoStreamStaysFaded ==
  <>[](up /\ level = 0) => \A a \in Apps :
     []<>(stream[a] # "playing" \/ vol[a] \in chosen[a] \/ a \in unheard)

\* When the fades are over, whatever is pending is watched again and again,
\* whether one ended because pactl died or because nothing was pending just
\* before a fade added to it (audio.go:279, 341-355).
PendingIsWatched ==
  <>[](up /\ level = 0) => []<>(pending = Empty \/ Listening)

\* What the comment says and the code does not do: "while any is [pending],
\* `pactl subscribe` watches for sink-input events, and a stream of a pending
\* application showing the faded volume is put back" (audio.go:41-44).
PendingIsPutBack ==
  <>[](up /\ level = 0) => \A a \in Apps :
     []<>(stream[a] # "playing" \/ ~Stale(a))

-----------------------------------------------------------------------------
(* The abstraction                                                         *)

Sound == INSTANCE SoundLevel WITH
           Levels <- 0..Depth,
           busy <- mu \in {"ramp", "forget", "undo"}

\* The main loop can take the fade for a level and a mutex: whatever happens
\* to streams, stand-ins and pending applications, apply moves the level only
\* while nobody ramps, a ramp leaves it alone to the end and ends at 0, and
\* every ramp lets go of the mutex (audio.go:362-426).
KeepsTheLevel == Sound!Spec
=============================================================================
