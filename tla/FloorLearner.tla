---------------------------- MODULE FloorLearner ----------------------------
(***************************************************************************)
(* The floor learner (src/floor.go): the presence threshold is learned     *)
(* from the frames the daemon takes for an empty room.  Its state is a     *)
(* histogram of energies per slot of time, the last threshold learned, and *)
(* a file that is written when a frame opens a new slot.  It stands in a   *)
(* loop with its own result: a frame of the radar's "away" teaches only if *)
(* it lies under the threshold the learner made (floorTeaches).            *)
(*                                                                         *)
(* The histogram is kept as the set of the frames it counts, each with the *)
(* age of its slot, so time passes by ageing.  A slot past the window      *)
(* stays in memory until a frame opens the next one; the file's copy of it *)
(* is skipped by load and is forgotten here at once.                       *)
(***************************************************************************)
EXTENDS Integers, FiniteSets

CONSTANTS
    Energies,        \* the near-gate energies a frame may carry
    Slots,           \* how many slots the window holds (36)
    MinFrames,       \* fewer frames are no opinion (3000)
    PerSlot,         \* how many frames fit into a slot
    Num, Den,        \* the quantile, Num/Den (0.995)
    Margin, Lowest,  \* the margin (4), the clamps: -energy-min ...
    Highest          \* ... and 70

ASSUME FloorAssumption ==
    /\ Energies \subseteq Nat /\ IsFiniteSet(Energies)
    /\ {Slots, MinFrames, Den, Margin, Lowest} \subseteq Nat \ {0}
    /\ Num \in 1..Den
    /\ Highest \in Nat /\ Lowest <= Highest
    /\ PerSlot \in Nat /\ PerSlot >= MinFrames

VARIABLES
    hist,            \* the frames held: slot's age, energy, number therein
    lastSlot,        \* where the slot of the last frame is: none, now, past
    learned,         \* the last threshold learned, 0 = never
    saved,           \* the file: [hist, learned]
    EnergyMin,       \* the policy's threshold
    inputNoted,      \* did the last tick note an hour without input?
    steady           \* the noise of a room deserted for good, or Unsettled

floorVars == <<hist, lastSlot, learned, saved, EnergyMin>>
vars == <<floorVars, inputNoted, steady>>

Unsettled == -1

Frames == [age : 0..(2 * Slots - 1), energy : Energies, number : 1..PerSlot]

InWindow(f) == f.age < Slots

Clamp(t) == IF t < Lowest THEN Lowest ELSE IF t > Highest THEN Highest ELSE t
-----------------------------------------------------------------------------
(***************************************************************************)
(* threshold                                                               *)
(***************************************************************************)
\* Is the quantile of the frames reached at energy i?
Reached(h, i) ==
    Cardinality({f \in h : f.energy <= i}) >= (Cardinality(h) * Num) \div Den

Quantile(h) ==
    CHOOSE e \in Energies :
        Reached(h, e) /\ \A i \in Energies : Reached(h, i) => e <= i

\* Without enough fresh frames the threshold falls back to the minimum, as it
\* did before the last one learned was kept.
LearnedOrForgotten(h, before) ==
    IF Cardinality(h) < MinFrames THEN Lowest
    ELSE Clamp(Quantile(h) + Margin)

\* f.learned after a call of threshold.
Learned(h, before) ==
    IF Cardinality(h) < MinFrames THEN before
    ELSE Clamp(Quantile(h) + Margin)

\* What the policy's threshold becomes; without an opinion it stays.
Threshold(l, current) == IF l = 0 THEN current ELSE Clamp(l)
-----------------------------------------------------------------------------
(***************************************************************************)
(* observe                                                                 *)
(***************************************************************************)
InSlot(h, e) == {f \in h : f.age = 0 /\ f.energy = e}

Counted(h, e) ==
    h \cup {[age |-> 0, energy |-> e, number |-> Cardinality(InSlot(h, e)) + 1]}

\* Slots past the window are dropped from memory.
Dropped(h) == {f \in h : InWindow(f)}

\* A new slot that leaves the aged ones where they are.
FloorObserveKeeps(e) ==
    /\ lastSlot' = "now"
    /\ hist' = Counted(hist, e)
    /\ saved' = IF lastSlot = "past"
                THEN [hist |-> Dropped(hist'), learned |-> learned]
                ELSE saved

\* The first frame of a slot drops what has aged, and saves.
FloorObserve(e) ==
    /\ lastSlot' = "now"
    /\ hist' = IF lastSlot = "now" THEN Counted(hist, e)
                                   ELSE Dropped(Counted(hist, e))
    /\ saved' = IF lastSlot = "past" THEN [hist |-> hist', learned |-> learned]
                                     ELSE saved

\* Every source is held to the threshold.
TeachesUnder(empty, e) == (inputNoted \/ empty) /\ e < EnergyMin

\* empty: the verdict is known, it is "away", and the TV is off.
Teaches(empty, e) == inputNoted \/ (empty /\ e < EnergyMin)

Sent == Cardinality({f \in hist : f.age = 0})

\* A frame that carries gate energies.  The verdict and the TV's state are
\* any; a slot holds no more frames than the radar sends in it.
HandleFrame ==
    \E e \in Energies, empty \in BOOLEAN :
        /\ steady \in {Unsettled, e}
        /\ Sent < PerSlot
        /\ Teaches(empty, e)
        /\ FloorObserve(e)
        /\ UNCHANGED <<learned, EnergyMin, inputNoted, steady>>
-----------------------------------------------------------------------------
\* The tick takes over the threshold, then notes the input level.
HandleTick ==
    /\ learned' = Learned(hist, learned)
    /\ EnergyMin' = Threshold(learned', EnergyMin)
    /\ inputNoted' \in IF steady = Unsettled THEN BOOLEAN ELSE {TRUE}
    /\ UNCHANGED <<hist, lastSlot, saved, steady>>

Aged(h) == {[f EXCEPT !.age = @ + 1] : f \in h}

\* A slot of time passes.  It is far longer than a tick, and over a deserted
\* room the radar fills it.  Once every frame held is past the window their
\* ages no longer matter, and stop.
SlotPasses ==
    /\ learned = Learned(hist, learned)
    /\ EnergyMin = Threshold(learned, EnergyMin)
    /\ steady = Unsettled \/ Sent = PerSlot
    /\ hist' = IF Dropped(hist) = {} THEN hist ELSE Aged(hist)
    /\ saved' = [saved EXCEPT !.hist = Dropped(Aged(@))]
    /\ lastSlot' = IF lastSlot = "none" THEN "none" ELSE "past"
    /\ UNCHANGED <<learned, EnergyMin, inputNoted, steady>>

\* The daemon stops or is killed, and starts: load, then threshold.
FloorStart ==
    /\ hist' = saved.hist
    /\ learned' = Learned(hist', saved.learned)
    /\ EnergyMin' = Threshold(learned', Lowest)
    /\ lastSlot' = "none"
    /\ inputNoted' = FALSE
    /\ UNCHANGED saved

Restart == steady = Unsettled /\ FloorStart /\ UNCHANGED steady

\* From here on nobody comes, and every frame has the energy n.
Deserted ==
    /\ steady = Unsettled
    /\ steady' \in Energies
    /\ UNCHANGED <<floorVars, inputNoted>>
-----------------------------------------------------------------------------
Init ==
    /\ hist = {}
    /\ lastSlot = "none"
    /\ learned = 0
    /\ saved = [hist |-> {}, learned |-> 0]
    /\ EnergyMin = Lowest
    /\ inputNoted = FALSE
    /\ steady = Unsettled

Next == HandleFrame \/ HandleTick \/ SlotPasses \/ Restart \/ Deserted

\* The radar sends, the tick comes and time passes.
Fairness == WF_vars(HandleFrame) /\ WF_vars(HandleTick) /\ WF_vars(SlotPasses)

Spec == Init /\ [][Next]_vars /\ Fairness
-----------------------------------------------------------------------------
\* The learner's variables keep their types: the ages of what it holds stay
\* bounded because a new slot drops what has aged, the file holds nothing past
\* the window, and the threshold stays between its clamps.
TypeOK_Floor ==
    /\ hist \subseteq Frames
    /\ lastSlot \in {"none", "now", "past"}
    /\ learned \in {0} \cup Lowest..Highest
    /\ saved \in [hist : SUBSET {f \in Frames : InWindow(f)},
                  learned : {0} \cup Lowest..Highest]
    /\ EnergyMin \in Lowest..Highest
    /\ inputNoted \in BOOLEAN
    /\ steady \in Energies \cup {Unsettled}

\* While the daemon runs, the threshold falls only on enough frames from
\* within the window, by the clock and not by what memory still holds: after a
\* long sit the first few frames of an empty room do not undo what was learned
\* (src/floor.go:24, the flapping of 2026-10-18).
FallsOnlyOnFreshFrames ==
    [][EnergyMin' < EnergyMin /\ ~Restart =>
           Cardinality(Dropped(hist)) >= MinFrames]_vars

\* Over a room nobody comes back to, with the same noise in every frame, the
\* threshold ends at that noise plus the margin and stays: up, for a radar
\* stuck on "present" by noise over the threshold, and down
\* (src/floor.go:18 and 54).
ThresholdFollowsTheNoise ==
    \A n \in Energies :
        <>(steady = n) => <>[](EnergyMin = Clamp(n + Margin))
=============================================================================
