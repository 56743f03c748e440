----------------------------- MODULE StateFiles -----------------------------
(***************************************************************************)
(* The commands that talk to the running daemon through files, and the     *)
(* daemon's tick that reads them: `input` (src/input.go), `hold` and       *)
(* `absence` (src/main.go).  Every command is a process of its own; the    *)
(* tick stats, reads and removes in steps between which they run.          *)
(*                                                                         *)
(* hypridle, which is alive all along, runs one process per listener that  *)
(* resumes, at the same moment, and one per timeout; two such moments are  *)
(* further apart than a process lives.  A unit of time is longer than a    *)
(* process lives too.  Modification times come from the kernel's coarse    *)
(* clock: a write in the same of its ticks as the last leaves them alone.  *)
(***************************************************************************)
EXTENDS Disk, FiniteSets

CONSTANTS
  Procs,            \* processes that can run at once
  Uses,             \* the sets of commands that a behaviour may use
  Levels,           \* the levels hypridle's timeouts write, beside "active"
  Longest,          \* the longest hold, in units
  Overrides,        \* what users write as the away timer
  Flag,             \* the -absence flag
  MinAway, MaxAway  \* an override is taken as at least and at most this

Level(l) == <<"level", l>>
Until(r) == <<"until", r>>
Away(d) == <<"away", d>>

Reports == Levels \cup {"active"}

ASSUME FilesAssumption ==
  /\ Names = {"input", "tmp", "hold", "absence"}
  /\ 0 \notin Files /\ \A n \in Names : Inodes(n) \subseteq Files
  /\ Contents = {<<>>} \cup {Level(l) : l \in Reports}
                  \cup {Until(r) : r \in 0..Longest}
                  \cup {Away(d) : d \in Overrides}
  /\ Uses \subseteq SUBSET {"input", "hold", "absence"}
  /\ Longest \in Nat \ {0}
  /\ Overrides \subseteq Nat
  /\ Flag \in Nat /\ MinAway \in Nat /\ MaxAway \in Nat /\ MinAway <= MaxAway

VARIABLES
  used,           \* the commands that this behaviour uses
  at,             \* at[p]: where process p is, "idle" when there is none
  cmd,            \* cmd[p]: what it writes, <<>> when nothing
  fd,             \* fd[p]: the file it has open, or 0
  tick,           \* where the tick is, "rest" between two ticks
  wake,           \* the loop has been told of an input write (watchInput)
  mtime,          \* the override's mtime against the one the tick knows
  absence,        \* the away timer in force
  held,           \* the last tick found a hold
  level,          \* the level the daemon last read, or "unknown"
  asked,          \* history: the longest hold still asked for
  reported        \* history: what hypridle's last processes were to write

procVars == <<used, at, cmd, fd>>

loopVars == <<absence, held, level>>

histVars == <<asked, reported>>

vars == <<dir, data, used, at, cmd, fd, tick, wake, mtime, absence, held, level,
          asked, reported>>

\* "same": it has been written since and carries the same time.
MTimes == {"known", "moved", "same"}

TypeOK_Files ==
  /\ DiskTypeOK
  /\ used \in Uses
  /\ at \in [Procs -> {"idle", "started", "opened", "written", "expired"}]
  /\ cmd \in [Procs -> Contents]
  /\ fd \in [Procs -> Files \cup {0}]
  /\ tick \in {"rest", "absence", "hold", "expired", "input"}
  /\ wake \in BOOLEAN /\ mtime \in MTimes /\ held \in BOOLEAN
  /\ absence = Flag \/ absence \in MinAway..MaxAway
  /\ level \in Reports \cup {"unknown"}
  /\ asked \in 0..Longest
  /\ reported \in Reports \cup {"unknown"}

Init ==
  /\ DiskInit
  /\ used \in Uses
  /\ at = [p \in Procs |-> "idle"] /\ cmd = [p \in Procs |-> <<>>]
  /\ fd = [p \in Procs |-> 0]
  /\ tick = "rest" /\ wake = FALSE /\ mtime = "moved"
  /\ absence = Flag /\ held = FALSE /\ level = "unknown"
  /\ asked = 0 /\ reported = "unknown"

-----------------------------------------------------------------------------
(* Processes *)

Open == {fd[p] : p \in Procs}

StillOpen(p) == {fd[q] : q \in Procs \ {p}}

IsInput(p) == cmd[p] # <<>> /\ cmd[p][1] = "level"

IsHold(p) == cmd[p] # <<>> /\ cmd[p][1] = "until"

PathOf(content) ==
  CASE content[1] = "level" -> "tmp"
    [] content[1] = "until" -> "hold"
    [] content[1] = "away"  -> "absence"

Ends(p) ==
  /\ at' = [at EXCEPT ![p] = "idle"]
  /\ cmd' = [cmd EXCEPT ![p] = <<>>]
  /\ fd' = [fd EXCEPT ![p] = 0]

\* The override's mtime after a write at a time that the tick knows or not.
Moves == IF mtime = "moved" THEN {"moved"} ELSE {"moved", "same"}

\* The open in process p's os.WriteFile of c.
OpenToWrite(p, c) ==
  LET file == Opens(PathOf(c), Open)
  IN /\ Truncate(PathOf(c), file)
     /\ at' = [at EXCEPT ![p] = "opened"]
     /\ cmd' = [cmd EXCEPT ![p] = c]
     /\ fd' = [fd EXCEPT ![p] = file]
     /\ mtime' \in IF PathOf(c) = "absence" THEN Moves ELSE {mtime}

\* Mutant: the watch asks for renames only.
ClosesUnheard(f) == wake

\* IN_CLOSE_WRITE, of a file that by now may have the watched name.
Closes(f) == wake \/ dir["input"] = f

\* The write and the close in os.WriteFile, with which `hold` and `absence`
\* are done.
FinishWrite(p) ==
  /\ at[p] = "opened"
  /\ Write(fd[p], cmd[p], StillOpen(p))
  /\ wake' = Closes(fd[p])
  /\ mtime' \in IF dir["absence"] = fd[p] THEN Moves ELSE {mtime}
  /\ IF IsInput(p)
     THEN /\ at' = [at EXCEPT ![p] = "written"]
          /\ fd' = [fd EXCEPT ![p] = 0]
          /\ UNCHANGED cmd
     ELSE Ends(p)
  /\ UNCHANGED <<used, tick, loopVars, histVars>>

-----------------------------------------------------------------------------
(* `input` *)

OpenTmp(p) ==
  /\ at[p] = "started"
  /\ OpenToWrite(p, cmd[p])
  /\ UNCHANGED <<used, tick, wake, loopVars, histVars>>

\* Mutant: a listener that cannot rename takes its word back.
RenameInputOrRemove(p) ==
  /\ at[p] = "written"
  /\ IF Exists("tmp")
     THEN Rename("tmp", "input", Open) /\ wake' = TRUE
     ELSE Remove("input", Open) /\ UNCHANGED wake
  /\ Ends(p)
  /\ UNCHANGED <<used, tick, mtime, loopVars, histVars>>

\* The rename, which fails when another listener has done it.
RenameInput(p) ==
  /\ at[p] = "written"
  /\ IF Exists("tmp")
     THEN Rename("tmp", "input", Open) /\ wake' = TRUE
     ELSE UNCHANGED <<dir, data, wake>>
  /\ Ends(p)
  /\ UNCHANGED <<used, tick, mtime, loopVars, histVars>>

-----------------------------------------------------------------------------
(* hypridle: external *)

Reporting == \E p \in Procs : IsInput(p)

\* hypridle starts one process for every p in P, to report l.
Run(P, l) ==
  /\ "input" \in used /\ ~Reporting
  /\ \A p \in P : at[p] = "idle"
  /\ reported' = l
  /\ at' = [p \in Procs |-> IF p \in P THEN "started" ELSE at[p]]
  /\ cmd' = [p \in Procs |-> IF p \in P THEN Level(l) ELSE cmd[p]]
  /\ UNCHANGED <<dir, data, used, fd, tick, wake, mtime, loopVars, asked>>

\* One listener after another times out.
Timeout(p) == \E l \in Levels : Run({p}, l)

\* Every listener that had timed out resumes.
Resume(P) == P # {} /\ Run(P, "active")

-----------------------------------------------------------------------------
(* `hold` and `absence` *)

RunHold(p, r) ==
  /\ "hold" \in used
  /\ at[p] = "idle"
  /\ OpenToWrite(p, Until(r))
  /\ asked' = IF r > asked THEN r ELSE asked
  /\ UNCHANGED <<used, tick, wake, loopVars, reported>>

RunAbsence(p, d) ==
  /\ "absence" \in used
  /\ at[p] = "idle"
  /\ OpenToWrite(p, Away(d))
  /\ UNCHANGED <<used, tick, wake, loopVars, histVars>>

\* `hold off` and `absence off`.
RunOff(name) ==
  /\ Exists(name)
  /\ Remove(name, Open)
  /\ UNCHANGED <<procVars, tick, wake, mtime, loopVars, histVars>>

\* Mutant: the time in the file is not compared with the clock.
NeverExpires(content) == content = <<>>

\* holdUntil finds a hold that is over or cannot be read.
Expired(content) == content \in {<<>>, Until(0)}

\* `hold` without an argument looks, and like the tick removes what it finds
\* to be over.
Query(p) ==
  /\ at[p] = "idle" /\ Exists("hold") /\ Expired(Says("hold"))
  /\ at' = [at EXCEPT ![p] = "expired"]
  /\ UNCHANGED <<dir, data, used, cmd, fd, tick, wake, mtime, loopVars, histVars>>

QueryRemoves(p) ==
  /\ at[p] = "expired"
  /\ Remove("hold", Open)
  /\ Ends(p)
  /\ UNCHANGED <<used, tick, wake, mtime, loopVars, histVars>>

\* A unit of time.
Elapse ==
  /\ tick = "rest" /\ asked > 0
  /\ \A p \in Procs : ~IsHold(p)
  /\ asked' = asked - 1
  /\ data' = [f \in Files |->
                IF \E r \in 1..Longest : data[f] = Until(r)
                THEN Until(data[f][2] - 1) ELSE data[f]]
  /\ UNCHANGED <<dir, procVars, tick, wake, mtime, loopVars, reported>>

-----------------------------------------------------------------------------
(* The tick *)

Clamp(d) == IF d < MinAway THEN MinAway ELSE IF d > MaxAway THEN MaxAway ELSE d

\* Mutant: an override counts as it is.
ParsedUnclamped(content) == IF content = <<>> THEN Flag ELSE content[2]

\* parseAbsence; what says nothing means the flag.
Parsed(content) == IF content = <<>> THEN Flag ELSE Clamp(content[2])

\* The tick knows the time it has read the file for, and none of a missing one.
StatSeen == IF ~Exists("absence") THEN "moved"
            ELSE IF mtime = "moved" THEN "known" ELSE mtime

\* Mutant: an override that is taken away leaves its timer in force.
TickBeginsKeeping ==
  /\ tick = "rest"
  /\ wake' \in {wake, FALSE}
  /\ tick' = IF Exists("absence") /\ mtime = "moved" THEN "absence" ELSE "hold"
  /\ mtime' = StatSeen
  /\ UNCHANGED <<dir, data, procVars, loopVars, histVars>>

\* Due by its period, or at once after an input write.
TickBegins ==
  /\ tick = "rest"
  /\ wake' \in {wake, FALSE}
  /\ IF ~Exists("absence")
     THEN absence' = Flag /\ tick' = "hold"
     ELSE /\ tick' = IF mtime = "moved" THEN "absence" ELSE "hold"
          /\ UNCHANGED absence
  /\ mtime' = StatSeen
  /\ UNCHANGED <<dir, data, procVars, held, level, histVars>>

\* fileDuration.read, past its stat.
ReadAbsence ==
  /\ tick = "absence" /\ tick' = "hold"
  /\ absence' = Parsed(Says("absence"))
  /\ UNCHANGED <<dir, data, procVars, wake, mtime, held, level, histVars>>

\* holdUntil's read.
ReadHold ==
  /\ tick = "hold"
  /\ tick' = IF Exists("hold") /\ Expired(Says("hold")) THEN "expired" ELSE "input"
  /\ held' = (Exists("hold") /\ ~Expired(Says("hold")))
  /\ UNCHANGED <<dir, data, procVars, wake, mtime, absence, level, histVars>>

\* holdUntil's remove, of whatever has the name by now.
RemoveHold ==
  /\ tick = "expired" /\ tick' = "input"
  /\ Remove("hold", Open)
  /\ UNCHANGED <<procVars, wake, mtime, loopVars, histVars>>

Understood(content) == IF content = <<>> THEN "unknown" ELSE content[2]

\* readInput.
ReadInput ==
  /\ tick = "input" /\ tick' = "rest"
  /\ level' = Understood(Says("input"))
  /\ UNCHANGED <<dir, data, procVars, wake, mtime, absence, held, histVars>>

Tick == TickBegins \/ ReadAbsence \/ ReadHold \/ RemoveHold \/ ReadInput

Proceeds(p) == OpenTmp(p) \/ FinishWrite(p) \/ RenameInput(p) \/ QueryRemoves(p)

Next ==
  \/ \E p \in Procs : Proceeds(p) \/ Timeout(p) \/ Query(p)
  \/ \E p \in Procs, r \in 1..Longest : RunHold(p, r)
  \/ \E p \in Procs, d \in Overrides : RunAbsence(p, d)
  \/ \E P \in SUBSET Procs : Resume(P)
  \/ \E name \in {"hold", "absence"} : RunOff(name)
  \/ Elapse
  \/ Tick

Spec == Init /\ [][Next]_vars

\* Processes run to their end, time passes and the loop ticks.
FairSpec ==
  /\ Spec
  /\ \A p \in Procs : WF_vars(Proceeds(p))
  /\ WF_vars(Elapse) /\ WF_vars(Tick)

-----------------------------------------------------------------------------
(* Safety *)

\* However the listeners that resume together fall over each other on the one
\* temporary file, once they have all ended the file says what they were run
\* to say (input.go:100).
RestsAtLastLevel ==
  ~Reporting /\ reported # "unknown" => Says("input") = Level(reported)

\* What the file says is what the daemon has read, or the loop has been told
\* to look, or is on its way to, or a process still has the file open: a touch
\* never waits for the tick's period (input.go:106).
TouchIsHeard ==
  \/ level = Understood(Says("input"))
  \/ wake
  \/ tick # "rest"
  \/ \E p \in Procs : fd[p] # 0 /\ fd[p] = dir["input"]

-----------------------------------------------------------------------------
(* Liveness *)

\* An override that stays is followed, clamped, and one that is taken away
\* gives the flag back, however its writes fall into the tick; unless its last
\* write left the time that the tick already knows, and then until the next
\* that does not (main.go:285, 831).
OverrideIsFollowed ==
  \A d \in MinAway..MaxAway \cup {Flag} :
    Parsed(Says("absence")) = d
      ~> absence = d \/ Parsed(Says("absence")) # d \/ mtime = "same"

\* A hold ends: "it expires itself so a forgotten one cannot leave the OLED
\* unguarded" (main.go:286).
HoldExpires == asked = 0 ~> ~held \/ asked > 0

-----------------------------------------------------------------------------
(* What does not hold *)

\* "The write is atomic so the daemon never reads half a file" (input.go:84):
\* with hypridle alive a level once read stays known.
NeverHalfAFile == [][level # "unknown" => level' # "unknown"]_vars

\* "The away timer follows its override file while the daemon runs"
\* (main.go:284).  A tick that reads the file between the open and the write of
\* one clock tick has taken it for bad, and does not look again.
OverrideIsAlwaysFollowed ==
  \A d \in MinAway..MaxAway :
    Parsed(Says("absence")) = d ~> absence = d \/ Parsed(Says("absence")) # d

\* parseAbsence: "clamped to 5 s..30 min" (main.go:843).  The code under that
\* comment clamps to 10..60 s, which is MinAway..MaxAway: an override outside,
\* yet within the comment's, is not the timer.
ClampIsAsCommented ==
  [][tick = "absence" /\ Says("absence") # <<>> /\ tick' # tick
     => absence' = Says("absence")[2]]_vars
=============================================================================
