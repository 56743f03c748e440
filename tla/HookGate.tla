------------------------------ MODULE HookGate ------------------------------
(***************************************************************************)
(* When the arrive/leave hooks hear the policy's answer: struct hookGate   *)
(* of src/policy.go.  Two of its guards subtract one timestamp from        *)
(* another; ages saturate, so the two differences are kept as variables    *)
(* that change where either timestamp does.                                *)
(***************************************************************************)
EXTENDS Policy

CONSTANTS
  Quick,        \* a radar return this soon after "off" is suspicious ...
                \* (the longer of hookQuick and Blackout)
  Dwell         \* ... until presence has been renewed for this long

ASSUME HookAssumption == Quick \in Nat /\ Dwell \in Nat /\ Quick >= Blackout
                         /\ Cap > Quick /\ Cap > Dwell

VARIABLES
  fired,        \* the last action the hooks were given, "?" at first
  offAt,        \* age of their last "off", told apart up to Quick
  arrivalGap,   \* presentAt - offAt, 0 when negative, at most Quick
  renewal       \* confirmedAt - presentAt while present, at most Dwell

hookVars == <<fired, offAt, arrivalGap, renewal>>

HookTypeOK ==
  /\ fired \in {"?", "on", "off"}
  /\ offAt \in (0..Quick) \cup {Unset}
  /\ arrivalGap \in 0..Quick /\ renewal \in 0..Dwell

\* Seeded from the TV state file, so a restart does not replay a hello.
HookInit(tv) ==
  /\ fired = tv
  /\ offAt = Unset
  /\ arrivalGap = 0 /\ renewal = 0

\* Mutant: the gate waits for the verdict to grow old, not to be renewed.
SuspiciousWhileYoung(answer) ==
  /\ answer.want = "on" /\ answer.why = "radar present"
  /\ offAt # Unset
  /\ arrivalGap < Quick /\ presentAt < Dwell

HookStart(tv) ==
  /\ fired' = tv /\ offAt' = Unset
  /\ arrivalGap' = 0 /\ renewal' = 0

Suspicious(answer) ==
  /\ answer.want = "on" /\ answer.why = "radar present"
  /\ offAt # Unset
  /\ arrivalGap < Quick /\ renewal < Dwell

\* next: what to fire now, "none" for nothing.
HookNext(answer) ==
  IF answer.want = fired \/ Suspicious(answer) THEN "none" ELSE answer.want

\* set: also used by the sleep path, which fires "off" itself.
HookSet(action) ==
  /\ fired' = action
  /\ offAt' = IF action = "off" THEN 0 ELSE offAt
  /\ arrivalGap' = IF action = "off" THEN 0 ELSE arrivalGap
  /\ UNCHANGED renewal

HookTick(answer) ==
  IF HookNext(answer) = "none" THEN UNCHANGED hookVars
  ELSE HookSet(HookNext(answer))

\* Mutant: renewed presence moves presentAt along.
HookObserveNoRenewal ==
  /\ arrivalGap' = IF SeedPresent \/ Arrive
                   THEN IF offAt = Unset THEN 0 ELSE offAt
                   ELSE arrivalGap
  /\ renewal' = 0
  /\ UNCHANGED <<fired, offAt>>

\* The differences follow the verdict's stamps when a frame moves them.
HookObserve ==
  /\ arrivalGap' = IF SeedPresent \/ Arrive
                   THEN IF offAt = Unset THEN 0 ELSE offAt
                   ELSE arrivalGap
  /\ renewal' = CASE SeedPresent \/ Arrive -> 0
                  [] Renew -> AtMost(presentAt, Dwell)
                  [] OTHER -> renewal
  /\ UNCHANGED <<fired, offAt>>

HookElapse ==
  /\ offAt' = AtMost(Older(offAt), Quick)
  /\ UNCHANGED <<fired, arrivalGap, renewal>>
=============================================================================
