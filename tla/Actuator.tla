------------------------------ MODULE Actuator ------------------------------
(***************************************************************************)
(* Policy.Decide and the actuator (src/policy.go, src/main.go): the wanted *)
(* state is compared with the state the script last recorded, and a script *)
(* run is started whenever they differ, one at a time, with backoff        *)
(* between repeats.  A run ends in one of Outcomes: "done" records the     *)
(* requested state, "unknown" records that the TV could not be asked,      *)
(* "unchanged" records nothing (a failed, abandoned or killed run).        *)
(***************************************************************************)
EXTENDS Clock

CONSTANTS
  MinBackoff, MaxBackoff,
  AttemptCap,       \* attempts past this all wait MaxBackoff
  Outcomes          \* how a run of the script can end

ASSUME ActuatorAssumption ==
  /\ MinBackoff \in Nat \ {0} /\ MaxBackoff \in Nat
  /\ MinBackoff <= MaxBackoff /\ MaxBackoff <= Cap
  /\ AttemptCap \in Nat \ {0} /\ MinBackoff * 2^(AttemptCap - 1) >= MaxBackoff
  /\ Outcomes \subseteq {"done", "unknown", "unchanged"}

TVStates == {"on", "off", "?"}

VARIABLES
  tv,               \* the state file
  busy,             \* the loop's flag
  runs,             \* how many script runs of each action are in progress
  done,             \* the channel a finished run reports on, of capacity 1
  lastDecision, lastAttempt, attempts

actuatorVars == <<tv, busy, runs, done, lastDecision, lastAttempt, attempts>>

ActuatorTypeOK ==
  /\ tv \in TVStates /\ busy \in BOOLEAN
  /\ runs \in [{"on", "off"} -> Nat]
  /\ done \in {"none", "on", "off"}
  /\ lastDecision \in {"none", "on", "off"}
  /\ lastAttempt \in 0..MaxBackoff
  /\ attempts \in 0..AttemptCap

ActuatorInit ==
  /\ tv \in TVStates /\ busy = FALSE
  /\ runs = [a \in {"on", "off"} |-> 0]
  /\ done = "none"
  /\ lastDecision = "none" /\ lastAttempt = MaxBackoff /\ attempts = 0

\* A new daemon.  The script of the old one died with it, unrecorded.
ActuatorStart ==
  /\ busy' = FALSE /\ runs' = [a \in {"on", "off"} |-> 0] /\ done' = "none"
  /\ lastDecision' = "none" /\ lastAttempt' = MaxBackoff /\ attempts' = 0
  /\ UNCHANGED tv

\* 30 s, doubled per attempt, at most 10 min.  (A shift past the width of
\* the duration gives a value the code also replaces by the maximum.)
Backoff(n) == AtMost(MinBackoff * 2^(n - 1), MaxBackoff)

\* Mutant: what was tried once is not tried again.
DecisionOnce(want) ==
  IF busy \/ want \in {"none", tv} \/ (want = lastDecision /\ attempts > 0)
  THEN "none" ELSE want

\* The action Decide asks for, "none" for nothing to do.
Decision(want) ==
  IF \/ busy \/ want \in {"none", tv}
     \/ want = lastDecision /\ attempts > 0 /\ lastAttempt < Backoff(attempts)
  THEN "none" ELSE want

\* Decide and what the tick does with its answer.
Decide(want) ==
  LET action == Decision(want)
      counted == IF want = lastDecision THEN attempts ELSE 0
  IN IF action = "none"
     THEN /\ attempts' = IF ~busy /\ want = tv THEN 0 ELSE attempts
          /\ UNCHANGED <<busy, runs, lastDecision, lastAttempt>>
     ELSE /\ lastDecision' = action /\ lastAttempt' = 0
          /\ attempts' = AtMost(counted + 1, AttemptCap)
          /\ busy' = TRUE
          /\ runs' = [runs EXCEPT ![action] = @ + 1]

DecideTick(want) == Decide(want) /\ UNCHANGED <<tv, done>>

\* What a run of the script leaves in the state file.
Recorded(action, outcome) ==
  CASE outcome = "done" -> action
    [] outcome = "unknown" -> "?"
    [] outcome = "unchanged" -> tv

\* Mutant: a run that never started ends.
RunEndsTwice(action, outcome) ==
  /\ done = "none"
  /\ tv' = Recorded(action, outcome)
  /\ runs' = [runs EXCEPT ![action] = @ - 1]
  /\ done' = action
  /\ UNCHANGED <<busy, lastDecision, lastAttempt, attempts>>

\* A run in its goroutine ends, and reports once the channel has room.
RunEnds(action, outcome) ==
  /\ runs[action] > 0 /\ done = "none"
  /\ tv' = Recorded(action, outcome)
  /\ runs' = [runs EXCEPT ![action] = @ - 1]
  /\ done' = action
  /\ UNCHANGED <<busy, lastDecision, lastAttempt, attempts>>

HandleDone ==
  /\ done # "none"
  /\ done' = "none" /\ busy' = FALSE
  /\ UNCHANGED <<tv, runs, lastDecision, lastAttempt, attempts>>

\* Someone else runs the script, or the TV's own remote is recorded.
Meddle(state) ==
  /\ tv' = state
  /\ UNCHANGED <<busy, runs, done, lastDecision, lastAttempt, attempts>>

\* Policy.Reset's share of this state.
ForgetAttempts ==
  /\ attempts' = 0
  /\ UNCHANGED <<tv, busy, runs, done, lastDecision, lastAttempt>>

ActuatorElapse ==
  /\ lastAttempt' = AtMost(Older(lastAttempt), MaxBackoff)
  /\ UNCHANGED <<tv, busy, runs, done, lastDecision, attempts>>
=============================================================================
