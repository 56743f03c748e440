----------------------------- MODULE FloorProofs -----------------------------
(***************************************************************************)
(* What the floor learner guarantees for any energies, any window, any     *)
(* quantile and any number of frames: its types, with the threshold        *)
(* between its clamps, and when the threshold may fall.                    *)
(***************************************************************************)
EXTENDS FloorLearner, FiniteSetTheorems, TLAPS

-----------------------------------------------------------------------------
(* Finite sets of numbers *)

IsLeast(x, S) == x \in S /\ \A y \in S : x <= y

IsGreatest(x, S) == x \in S /\ \A y \in S : y <= x

HasEnds(S) == (\E x \in S : IsLeast(x, S)) /\ (\E x \in S : IsGreatest(x, S))

\* Every finite set of numbers that is not empty has a least and a greatest.
LEMMA FiniteHasEnds ==
  ASSUME NEW S \in SUBSET Int, IsFiniteSet(S), S # {}
  PROVE  HasEnds(S)
<1> DEFINE Endless == {U \in SUBSET S : U # {} /\ ~HasEnds(U)}
<1>1. SUFFICES ASSUME Endless # {} PROVE FALSE
  OBVIOUS
<1>2. IsWellFoundedOn(StrictSubsetOrdering(S), SUBSET S)
  BY FS_StrictSubsetOrderingWellFounded, FS_FiniteSubsetsOfFinite
<1>3. Endless \subseteq SUBSET S
  OBVIOUS
<1>4. \E U \in Endless : \A V \in Endless : ~(<<V, U>> \in StrictSubsetOrdering(S))
  <2> HIDE DEF Endless
  <2> QED
    BY <1>1, <1>2, <1>3, WFMin
<1>5. PICK U \in Endless :
        \A V \in Endless : ~(<<V, U>> \in StrictSubsetOrdering(S))
  BY <1>4
<1>6. PICK x \in U : TRUE
  OBVIOUS
<1> DEFINE Rest == U \ {x}
<1>7. Rest \in SUBSET S /\ U \in SUBSET S /\ Rest \subseteq U /\ Rest # U
  OBVIOUS
<1>8. <<Rest, U>> \in StrictSubsetOrdering(S)
  BY <1>7 DEF StrictSubsetOrdering
<1>9. Rest = {} \/ HasEnds(Rest)
  BY <1>5, <1>7, <1>8
<1>10. CASE Rest = {}
  <2>1. U = {x} /\ x \in Int
    BY <1>10
  <2>2. HasEnds(U)
    BY <2>1 DEF HasEnds, IsLeast, IsGreatest
  <2>3. QED
    BY <2>2
<1>11. CASE HasEnds(Rest)
  <2>1. PICK l \in Rest : \A y \in Rest : l <= y
    BY <1>11 DEF HasEnds, IsLeast
  <2>2. PICK g \in Rest : \A y \in Rest : y <= g
    BY <1>11 DEF HasEnds, IsGreatest
  <2>3. l \in Int /\ g \in Int /\ x \in Int /\ U \subseteq Int
    OBVIOUS
  <2>4. IsLeast(IF l <= x THEN l ELSE x, U)
    BY <2>1, <2>3 DEF IsLeast
  <2>5. IsGreatest(IF x <= g THEN g ELSE x, U)
    BY <2>2, <2>3 DEF IsGreatest
  <2>6. HasEnds(U)
    BY <2>4, <2>5 DEF HasEnds, IsLeast, IsGreatest
  <2>7. QED
    BY <2>6
<1>12. QED
  BY <1>9, <1>10, <1>11

\* A share of at most everything is at most everything.
LEMMA ShareOfAll ==
  ASSUME NEW n \in Nat
  PROVE  (n * Num) \div Den <= n
<1>1. Num \in Nat /\ Den \in Nat \ {0} /\ Num <= Den
  BY FloorAssumption
<1>2. n * Num <= n * Den
  BY <1>1
<1>3. QED
  BY <1>1, <1>2

-----------------------------------------------------------------------------
(* The quantile *)

\* Enough frames have a quantile, which is an energy.
LEMMA QuantileIsEnergy ==
  ASSUME NEW h \in SUBSET Frames, IsFiniteSet(h), Cardinality(h) >= MinFrames
  PROVE  Quantile(h) \in Energies
<1> DEFINE Enough == {i \in Energies : Reached(h, i)}
<1>1. Energies \in SUBSET Int /\ IsFiniteSet(Energies)
      /\ MinFrames \in Nat \ {0}
  BY FloorAssumption
<1>2. Cardinality(h) \in Nat /\ h # {}
  BY <1>1, FS_CardinalityType, FS_EmptySet
<1>3. Energies # {}
  BY <1>2 DEF Frames
<1>4. PICK top \in Energies : \A y \in Energies : y <= top
  BY <1>1, <1>3, FiniteHasEnds DEF HasEnds, IsGreatest
<1>5. {f \in h : f.energy <= top} = h
  BY <1>4 DEF Frames
<1>6. Reached(h, top)
  BY <1>2, <1>5, ShareOfAll DEF Reached
<1>7. Enough \in SUBSET Int /\ IsFiniteSet(Enough) /\ Enough # {}
  BY <1>1, <1>6, FS_Subset
<1>8. PICK e \in Enough : \A y \in Enough : e <= y
  <2> HIDE DEF Enough
  <2> QED
    BY <1>7, FiniteHasEnds DEF HasEnds, IsLeast
<1>9. \E q \in Energies :
        Reached(h, q) /\ \A i \in Energies : Reached(h, i) => q <= i
  BY <1>8
<1>10. QED
  BY <1>9 DEF Quantile

LEMMA ClampType ==
  ASSUME NEW t \in Int
  PROVE  Clamp(t) \in Lowest..Highest
BY FloorAssumption DEF Clamp

LEMMA LearnedType ==
  ASSUME NEW h \in SUBSET Frames, IsFiniteSet(h),
         NEW l \in {0} \cup Lowest..Highest
  PROVE  Learned(h, l) \in {0} \cup Lowest..Highest
<1>1. CASE Cardinality(h) < MinFrames
  BY <1>1 DEF Learned
<1>2. CASE ~(Cardinality(h) < MinFrames)
  <2>1. Cardinality(h) \in Nat /\ MinFrames \in Nat
    BY FS_CardinalityType, FloorAssumption
  <2>2. Quantile(h) \in Energies
    BY <1>2, <2>1, QuantileIsEnergy
  <2>3. Energies \subseteq Nat /\ Margin \in Nat
    BY FloorAssumption
  <2>4. Quantile(h) \in Nat
    BY <2>2, <2>3
  <2>5. Quantile(h) + Margin \in Int
    BY <2>3, <2>4
  <2>6. QED
    BY <1>2, <2>5, ClampType DEF Learned
<1>3. QED
  BY <1>1, <1>2

\* Learned from the same frames twice is learned once.
LEMMA LearnedTwice ==
  ASSUME NEW h, NEW l
  PROVE  Learned(h, Learned(h, l)) = Learned(h, l)
BY DEF Learned

\* The threshold lies between the clamps, and to clamp it again changes nothing.
LEMMA ThresholdType ==
  ASSUME NEW l \in {0} \cup Lowest..Highest, NEW c \in Lowest..Highest
  PROVE  /\ Threshold(l, c) \in Lowest..Highest
         /\ Threshold(l, Threshold(l, c)) = Threshold(l, c)
BY FloorAssumption DEF Threshold, Clamp

-----------------------------------------------------------------------------
(* Ageing *)

Older(f) == [f EXCEPT !.age = @ + 1]

\* Ageing keeps every frame, and its energy.
LEMMA AgedOnes ==
  ASSUME NEW h \in SUBSET [age : Nat, energy : Energies, number : Nat],
         IsFiniteSet(h)
  PROVE  /\ IsFiniteSet(Aged(h)) /\ Cardinality(Aged(h)) = Cardinality(h)
         /\ \A f \in h : /\ Older(f).age = f.age + 1
                         /\ Older(f).energy = f.energy
                         /\ Older(f).number = f.number
<1> DEFINE ageing == [f \in h |-> Older(f)]
<1>1. Aged(h) = {Older(f) : f \in h}
  BY DEF Aged, Older
<1>2. \A f \in h : /\ f \in [age : Nat, energy : Energies, number : Nat]
                   /\ Older(f).age = f.age + 1
                   /\ Older(f).energy = f.energy
                   /\ Older(f).number = f.number
                   /\ f.age \in Nat
  BY DEF Older
<1>3. \A f, g \in h : Older(f) = Older(g) => f = g
  <2> SUFFICES ASSUME NEW f \in h, NEW g \in h, Older(f) = Older(g)
               PROVE  f = g
    OBVIOUS
  <2>1. f.age = g.age /\ f.energy = g.energy /\ f.number = g.number
    BY <1>2
  <2>2. QED
    BY <1>2, <2>1
<1>4. ageing \in Bijection(h, Aged(h))
  BY <1>1, <1>3 DEF Bijection, Injection, Surjection, IsInjective
<1>5. ExistsBijection(h, Aged(h))
  BY <1>4 DEF ExistsBijection
<1>6. QED
  BY <1>2, <1>5, FS_Bijection

\* So what they teach does not change with their age.
LEMMA AgedTeachTheSame ==
  ASSUME NEW h \in SUBSET Frames, IsFiniteSet(h)
  PROVE  \A l : Learned(Aged(h), l) = Learned(h, l)
<1> DEFINE Wide == [age : Nat, energy : Energies, number : Nat]
<1>1. h \in SUBSET Wide
  BY FloorAssumption DEF Frames
<1>2. Cardinality(Aged(h)) = Cardinality(h)
  BY <1>1, AgedOnes
<1>3. \A i \in Energies : Reached(Aged(h), i) <=> Reached(h, i)
  <2> SUFFICES ASSUME NEW i \in Energies
               PROVE  Reached(Aged(h), i) <=> Reached(h, i)
    OBVIOUS
  <2> DEFINE low == {f \in h : f.energy <= i}
  <2>1. low \in SUBSET Wide /\ IsFiniteSet(low)
    BY <1>1, FS_Subset
  <2>2. {f \in Aged(h) : f.energy <= i} = Aged(low)
    <3>1. \A f \in h : Older(f).energy = f.energy
      BY <1>1, AgedOnes
    <3>2. Aged(h) = {Older(f) : f \in h} /\ Aged(low) = {Older(f) : f \in low}
      BY DEF Aged, Older
    <3> HIDE DEF Wide
    <3>3. QED
      BY <3>1, <3>2
  <2>3. Cardinality(Aged(low)) = Cardinality(low)
    BY <2>1, AgedOnes
  <2>4. QED
    BY <1>2, <2>2, <2>3 DEF Reached
<1>4. Quantile(Aged(h)) = Quantile(h)
  BY <1>3, Zenon DEF Quantile
<1>5. QED
  BY <1>2, <1>4 DEF Learned

-----------------------------------------------------------------------------
(* The invariant *)

\* What is held lies within one window, and what a tick took over: a slot
\* that has aged out of it is the floor's only while it changes nothing.
Spread == \A f, g \in hist : f.age < g.age + Slots

NowIsFresh == lastSlot = "now" => Dropped(hist) = hist

InForce == EnergyMin = Threshold(learned, EnergyMin)

Settled == Dropped(hist) = hist \/ learned = Learned(hist, learned)

FloorInv ==
  /\ TypeOK_Floor
  /\ IsFiniteSet(hist) /\ IsFiniteSet(saved.hist)
  /\ Spread /\ NowIsFresh /\ InForce /\ Settled

LEMMA FloorInvInit == Init => FloorInv
<1> SUFFICES ASSUME Init PROVE FloorInv
  OBVIOUS
<1>1. Lowest \in Lowest..Highest
  BY FloorAssumption
<1>2. IsFiniteSet({}) /\ Dropped({}) = {}
  BY FS_EmptySet DEF Dropped
<1>3. TypeOK_Floor
  BY <1>1 DEF Init, TypeOK_Floor, Unsettled
<1>4. QED
  BY <1>2, <1>3 DEF Init, FloorInv, Spread, NowIsFresh, InForce, Settled,
                    Threshold

\* What a frame makes of the histogram.
LEMMA CountedHolds ==
  ASSUME FloorInv, NEW e \in Energies, Sent < PerSlot
  PROVE  /\ Counted(hist, e) \in SUBSET Frames
         /\ IsFiniteSet(Counted(hist, e))
         /\ \A f \in Counted(hist, e) \ hist : f.age = 0
<1> DEFINE n == Cardinality(InSlot(hist, e)) + 1
           f0 == [age |-> 0, energy |-> e, number |-> n]
           fresh == {f \in hist : f.age = 0}
<1>1. IsFiniteSet(fresh) /\ InSlot(hist, e) \in SUBSET fresh
  BY FS_Subset DEF InSlot, FloorInv
<1>2. /\ Cardinality(InSlot(hist, e)) \in Nat /\ Cardinality(fresh) \in Nat
      /\ Cardinality(InSlot(hist, e)) <= Cardinality(fresh)
  BY <1>1, FS_Subset, FS_CardinalityType
<1>3. n \in 1..PerSlot
  BY <1>2, FloorAssumption DEF Sent
<1>4. 0 \in 0..(2 * Slots - 1)
  BY FloorAssumption
<1>5. f0 \in Frames
  BY <1>3, <1>4 DEF Frames
<1>6. Counted(hist, e) = hist \cup {f0}
  BY DEF Counted
<1>7. IsFiniteSet(hist \cup {f0})
  BY FS_AddElement DEF FloorInv
<1>8. f0.age = 0
  OBVIOUS
<1> HIDE DEF f0
<1>9. QED
  BY <1>5, <1>6, <1>7, <1>8 DEF FloorInv, TypeOK_Floor

LEMMA FrameKeeps == FloorInv /\ HandleFrame => FloorInv'
<1> SUFFICES ASSUME FloorInv, NEW e \in Energies, Sent < PerSlot,
                    FloorObserve(e),
                    UNCHANGED <<learned, EnergyMin, inputNoted, steady>>
             PROVE  FloorInv'
  BY DEF HandleFrame
<1> DEFINE now == Counted(hist, e)
<1>1. /\ now \in SUBSET Frames /\ IsFiniteSet(now)
      /\ \A f \in now \ hist : f.age = 0
  BY CountedHolds
<1> HIDE DEF now
<1>2. Slots \in Nat \ {0}
  BY FloorAssumption
<1>3. /\ hist' \in SUBSET Frames /\ IsFiniteSet(hist')
      /\ \A f \in hist' : InWindow(f)
  <2>1. CASE lastSlot = "now"
    <3>1. hist' = now /\ Dropped(hist) = hist
      BY <2>1 DEF FloorObserve, now, FloorInv, NowIsFresh
    <3>2. \A f \in hist : f.age < Slots
      BY <3>1 DEF Dropped, InWindow
    <3>3. QED
      BY <1>1, <1>2, <3>1, <3>2 DEF InWindow
  <2>2. CASE lastSlot # "now"
    <3>1. hist' = Dropped(now)
      BY <2>2 DEF FloorObserve, now
    <3>2. Dropped(now) \in SUBSET now /\ \A f \in Dropped(now) : InWindow(f)
      BY DEF Dropped
    <3>3. IsFiniteSet(Dropped(now))
      BY <1>1, <3>2, FS_Subset
    <3>4. QED
      BY <1>1, <3>1, <3>2, <3>3
  <2>3. QED
    BY <2>1, <2>2
<1>4. Dropped(hist') = hist'
  BY <1>3 DEF Dropped
<1>5. saved' = saved \/ saved' = [hist |-> hist', learned |-> learned]
  BY DEF FloorObserve
<1>6. /\ saved' \in [hist : SUBSET {f \in Frames : InWindow(f)},
                     learned : {0} \cup Lowest..Highest]
      /\ IsFiniteSet(saved'.hist)
  BY <1>3, <1>5 DEF FloorInv, TypeOK_Floor
<1>7. TypeOK_Floor'
  BY <1>3, <1>6 DEF FloorInv, TypeOK_Floor, FloorObserve
<1>8. Spread'
  <2>1. \A f \in hist' : f.age \in Nat /\ f.age < Slots
    BY <1>2, <1>3 DEF Frames, InWindow
  <2>2. QED
    BY <1>2, <2>1 DEF Spread
<1>9. NowIsFresh' /\ Settled' /\ InForce'
  BY <1>4 DEF NowIsFresh, Settled, InForce, FloorInv, Dropped, InWindow, Threshold, Clamp
<1>10. QED
  BY <1>3, <1>6, <1>7, <1>8, <1>9 DEF FloorInv

LEMMA TickKeeps == FloorInv /\ HandleTick => FloorInv'
<1> SUFFICES ASSUME FloorInv, HandleTick PROVE FloorInv'
  OBVIOUS
<1>1. /\ hist \in SUBSET Frames /\ IsFiniteSet(hist)
      /\ learned \in {0} \cup Lowest..Highest /\ EnergyMin \in Lowest..Highest
  BY DEF FloorInv, TypeOK_Floor
<1>2. learned' \in {0} \cup Lowest..Highest
  BY <1>1, LearnedType DEF HandleTick
<1>3. EnergyMin' \in Lowest..Highest /\ EnergyMin' = Threshold(learned', EnergyMin')
  BY <1>1, <1>2, ThresholdType DEF HandleTick
<1>4. learned' = Learned(hist', learned')
  BY LearnedTwice DEF HandleTick
<1>5. TypeOK_Floor'
  BY <1>2, <1>3 DEF FloorInv, TypeOK_Floor, HandleTick
<1>6. Spread' /\ NowIsFresh'
  BY DEF FloorInv, HandleTick, Spread, NowIsFresh, Dropped, InWindow
<1>7. InForce'
  BY <1>3 DEF InForce, Threshold, Clamp
<1>8. Settled'
  BY <1>4 DEF Settled, Learned, Quantile, Reached, Clamp
<1>9. QED
  BY <1>5, <1>6, <1>7, <1>8 DEF FloorInv, HandleTick

\* A slot's passing makes every frame older; what that does to the histogram.
LEMMA AgedFits ==
  ASSUME FloorInv, Dropped(hist) # {}
  PROVE  /\ Aged(hist) \in SUBSET Frames /\ IsFiniteSet(Aged(hist))
         /\ \A f, g \in Aged(hist) : f.age < g.age + Slots
<1> DEFINE Wide == [age : Nat, energy : Energies, number : Nat]
<1>1. hist \in SUBSET Frames /\ IsFiniteSet(hist) /\ Slots \in Nat \ {0}
  BY FloorAssumption DEF FloorInv, TypeOK_Floor
<1>2. hist \in SUBSET Wide
  BY <1>1, FloorAssumption DEF Frames
<1>3. /\ IsFiniteSet(Aged(hist))
      /\ \A f \in hist : /\ Older(f).age = f.age + 1
                         /\ Older(f).energy = f.energy
                         /\ Older(f).number = f.number
  BY <1>1, <1>2, AgedOnes
<1>4. PICK young \in hist : young.age < Slots
  BY DEF Dropped, InWindow
<1>5. \A f \in hist : f.age \in Nat /\ f.age + 1 < 2 * Slots
  <2> SUFFICES ASSUME NEW f \in hist
               PROVE  f.age \in Nat /\ f.age + 1 < 2 * Slots
    OBVIOUS
  <2>1. f.age < young.age + Slots
    BY DEF FloorInv, Spread
  <2>2. f.age \in Nat /\ young.age \in Nat
    BY <1>1 DEF Frames
  <2>3. QED
    BY <1>1, <1>4, <2>1, <2>2
<1>6. \A f \in hist : Older(f) \in Frames
  <2> SUFFICES ASSUME NEW f \in hist PROVE Older(f) \in Frames
    OBVIOUS
  <2>1. f.age + 1 \in 0..(2 * Slots - 1)
    BY <1>1, <1>5
  <2>2. f \in [age : 0..(2 * Slots - 1), energy : Energies, number : 1..PerSlot]
    BY <1>1 DEF Frames
  <2>3. QED
    BY <2>1, <2>2 DEF Older, Frames
<1>7. Aged(hist) = {Older(f) : f \in hist}
  BY DEF Aged, Older
<1>8. \A f, g \in hist : Older(f).age < Older(g).age + Slots
  <2> SUFFICES ASSUME NEW f \in hist, NEW g \in hist
               PROVE  Older(f).age < Older(g).age + Slots
    OBVIOUS
  <2>1. f.age < g.age + Slots
    BY DEF FloorInv, Spread
  <2>2. f.age \in Nat /\ g.age \in Nat
    BY <1>5
  <2>3. QED
    BY <1>1, <1>3, <2>1, <2>2
<1>9. QED
  BY <1>3, <1>6, <1>7, <1>8

\* What the file keeps of what it holds, when a slot passes.
LEMMA FileAges ==
  ASSUME FloorInv
  PROVE  /\ Dropped(Aged(saved.hist)) \in SUBSET {f \in Frames : InWindow(f)}
         /\ IsFiniteSet(Dropped(Aged(saved.hist)))
<1> DEFINE kept == saved.hist
           Wide == [age : Nat, energy : Energies, number : Nat]
<1>1. /\ kept \in SUBSET Frames /\ IsFiniteSet(kept) /\ Slots \in Nat \ {0}
      /\ \A f \in kept : InWindow(f)
  BY FloorAssumption DEF FloorInv, TypeOK_Floor
<1> HIDE DEF kept
<1>2. kept \in SUBSET Wide
  BY <1>1, FloorAssumption DEF Frames
<1>3. IsFiniteSet(Aged(kept))
  BY <1>1, <1>2, AgedOnes
<1>4. \A f \in kept : Older(f) \in Frames
  <2> SUFFICES ASSUME NEW f \in kept PROVE Older(f) \in Frames
    OBVIOUS
  <2>1. f \in [age : 0..(2 * Slots - 1), energy : Energies, number : 1..PerSlot]
    BY <1>1 DEF Frames
  <2>2. f.age \in Nat /\ f.age < Slots
    BY <1>1, <2>1 DEF InWindow
  <2>3. f.age + 1 \in 0..(2 * Slots - 1)
    BY <1>1, <2>2
  <2>4. QED
    BY <2>1, <2>3 DEF Older, Frames
<1>5. Aged(kept) = {Older(f) : f \in kept}
  BY DEF Aged, Older
<1>6. Dropped(Aged(kept)) \in SUBSET Aged(kept)
  BY DEF Dropped
<1>7. IsFiniteSet(Dropped(Aged(kept)))
  BY <1>3, <1>6, FS_Subset
<1>8. Dropped(Aged(kept)) \in SUBSET {f \in Frames : InWindow(f)}
  BY <1>4, <1>5 DEF Dropped
<1>9. QED
  BY <1>7, <1>8 DEF kept

LEMMA SlotKeeps == FloorInv /\ SlotPasses => FloorInv'
<1> SUFFICES ASSUME FloorInv, SlotPasses PROVE FloorInv'
  OBVIOUS
<1>1. hist \in SUBSET Frames /\ IsFiniteSet(hist) /\ Spread
  BY DEF FloorInv, TypeOK_Floor
<1>2. /\ hist' \in SUBSET Frames /\ IsFiniteSet(hist')
      /\ \A f, g \in hist' : f.age < g.age + Slots
      /\ Learned(hist', learned) = Learned(hist, learned)
  <2>1. CASE Dropped(hist) = {}
    <3>1. hist' = hist
      BY <2>1 DEF SlotPasses
    <3>2. QED
      BY <1>1, <3>1 DEF Spread
  <2>2. CASE Dropped(hist) # {}
    <3>1. hist' = Aged(hist)
      BY <2>2 DEF SlotPasses
    <3>2. Learned(Aged(hist), learned) = Learned(hist, learned)
      BY <1>1, AgedTeachTheSame
    <3>3. QED
      BY <2>2, <3>1, <3>2, AgedFits
  <2>3. QED
    BY <2>1, <2>2
<1>3. /\ saved' = [saved EXCEPT !.hist = Dropped(Aged(@))]
      /\ Dropped(Aged(saved.hist)) \in SUBSET {f \in Frames : InWindow(f)}
      /\ IsFiniteSet(Dropped(Aged(saved.hist)))
  BY FileAges DEF SlotPasses
<1>4. saved \in [hist : SUBSET {f \in Frames : InWindow(f)},
                 learned : {0} \cup Lowest..Highest]
  BY DEF FloorInv, TypeOK_Floor
<1>5. /\ saved' \in [hist : SUBSET {f \in Frames : InWindow(f)},
                     learned : {0} \cup Lowest..Highest]
      /\ saved'.hist = Dropped(Aged(saved.hist))
  BY <1>3, <1>4
<1>6. TypeOK_Floor'
  BY <1>2, <1>5 DEF FloorInv, TypeOK_Floor, SlotPasses
<1>7. learned' = learned /\ EnergyMin' = EnergyMin /\ lastSlot' # "now"
      /\ learned = Learned(hist, learned)
  BY DEF SlotPasses
<1>8. Spread' /\ NowIsFresh'
  BY <1>2, <1>7 DEF Spread, NowIsFresh
<1>9. InForce'
  BY <1>7 DEF FloorInv, InForce, Threshold, Clamp
<1>10. Learned(hist', learned') = learned'
  BY <1>2, <1>7
<1>11. Settled'
  BY <1>10 DEF Settled, Learned, Quantile, Reached, Clamp
<1>12. QED
  BY <1>2, <1>3, <1>5, <1>6, <1>8, <1>9, <1>11 DEF FloorInv

LEMMA StartKeeps == FloorInv /\ Restart => FloorInv'
<1> SUFFICES ASSUME FloorInv, Restart PROVE FloorInv'
  OBVIOUS
<1>1. /\ saved.hist \in SUBSET Frames /\ IsFiniteSet(saved.hist)
      /\ \A f \in saved.hist : f.age < Slots
      /\ saved.learned \in {0} \cup Lowest..Highest
  BY DEF FloorInv, TypeOK_Floor, InWindow
<1>2. hist' = saved.hist /\ lastSlot' = "none" /\ saved' = saved
  BY DEF Restart, FloorStart
<1>3. learned' = Learned(saved.hist, saved.learned)
      /\ EnergyMin' = Threshold(learned', Lowest)
  BY <1>2 DEF Restart, FloorStart
<1>4. learned' \in {0} \cup Lowest..Highest
  BY <1>1, <1>3, LearnedType
<1>5. Lowest \in Lowest..Highest
  BY FloorAssumption
<1>6. EnergyMin' \in Lowest..Highest /\ EnergyMin' = Threshold(learned', EnergyMin')
  BY <1>3, <1>4, <1>5, ThresholdType
<1>7. TypeOK_Floor'
  BY <1>1, <1>2, <1>4, <1>6 DEF FloorInv, TypeOK_Floor, Restart, FloorStart
<1>8. Spread'
  <2>1. \A f \in saved.hist : f.age \in Nat /\ f.age < Slots
    BY <1>1 DEF Frames
  <2>2. Slots \in Nat
    BY FloorAssumption
  <2>3. QED
    BY <1>2, <2>1, <2>2 DEF Spread
<1>9. Dropped(hist') = hist'
  BY <1>1, <1>2 DEF Dropped, InWindow
<1>10. NowIsFresh' /\ Settled'
  BY <1>2, <1>9 DEF NowIsFresh, Settled, Dropped, InWindow
<1>11. InForce'
  BY <1>6 DEF InForce, Threshold, Clamp
<1>12. QED
  BY <1>1, <1>2, <1>7, <1>8, <1>10, <1>11 DEF FloorInv

LEMMA FloorInvStep == FloorInv /\ [Next]_vars => FloorInv'
<1> SUFFICES ASSUME FloorInv, [Next]_vars PROVE FloorInv'
  OBVIOUS
<1>1. CASE UNCHANGED floorVars /\ (UNCHANGED <<inputNoted, steady>> \/ Deserted)
  <2>1. UNCHANGED <<hist, lastSlot, learned, saved, EnergyMin>>
    BY <1>1 DEF floorVars
  <2>2. TypeOK_Floor'
    BY <1>1, <2>1 DEF FloorInv, TypeOK_Floor, Deserted
  <2>3. /\ Spread' /\ NowIsFresh' /\ InForce' /\ Settled'
        /\ IsFiniteSet(hist)' /\ IsFiniteSet(saved.hist)'
    BY <2>1 DEF FloorInv, Spread, NowIsFresh, InForce, Settled, Dropped,
                InWindow, Threshold, Clamp, Learned, Quantile, Reached
  <2>4. QED
    BY <2>2, <2>3 DEF FloorInv
<1>2. CASE HandleFrame
  BY <1>2, FrameKeeps
<1>3. CASE HandleTick
  BY <1>3, TickKeeps
<1>4. CASE SlotPasses
  BY <1>4, SlotKeeps
<1>5. CASE Restart
  BY <1>5, StartKeeps
<1>6. QED
  BY <1>1, <1>2, <1>3, <1>4, <1>5 DEF Next, vars, Deserted, floorVars

\* The invariant of the floor learner.
THEOREM FloorInvariant == Spec => []FloorInv
<1>1. QED
  BY FloorInvInit, FloorInvStep, PTL DEF Spec

\* The learner's variables keep their types: the ages of what it holds stay
\* bounded, the file holds nothing past the window, a slot no more frames than
\* the radar sends in it, and the threshold stays between -energy-min and its
\* maximum (floor.go:71-135).
THEOREM TypeCorrect == Spec => []TypeOK_Floor
<1>1. FloorInv => TypeOK_Floor
  BY DEF FloorInv
<1>2. QED
  BY <1>1, FloorInvariant, PTL

-----------------------------------------------------------------------------
(* When the threshold falls *)

Fresh == Cardinality(Dropped(hist)) >= MinFrames

Falls == EnergyMin' < EnergyMin

\* A tick that has no frame past the window to count counts fresh ones; one
\* that has repeats what was learned before.
LEMMA TickFallsOnFresh == FloorInv /\ HandleTick /\ Falls => Fresh
<1> SUFFICES ASSUME FloorInv, HandleTick, Falls, ~Fresh PROVE FALSE
  OBVIOUS
<1>1. learned' = learned
  <2>1. CASE Dropped(hist) = hist
    <3>1. Cardinality(hist) \in Nat /\ MinFrames \in Nat
      BY FS_CardinalityType, FloorAssumption DEF FloorInv
    <3>2. Cardinality(hist) < MinFrames
      BY <2>1, <3>1 DEF Fresh
    <3>3. QED
      BY <3>2 DEF HandleTick, Learned
  <2>2. CASE learned = Learned(hist, learned)
    BY <2>2 DEF HandleTick
  <2>3. QED
    BY <2>1, <2>2 DEF FloorInv, Settled
<1>2. EnergyMin' = EnergyMin
  BY <1>1 DEF HandleTick, FloorInv, InForce
<1>3. EnergyMin \in Int
  BY FloorAssumption DEF FloorInv, TypeOK_Floor
<1>4. QED
  BY <1>2, <1>3 DEF Falls

LEMMA NextFallsOnFresh ==
  FloorInv /\ [Next]_vars => [Falls /\ ~Restart => Fresh]_vars
<1> SUFFICES ASSUME FloorInv, [Next]_vars, Falls, ~Restart PROVE Fresh
  OBVIOUS
<1>1. EnergyMin \in Int
  BY FloorAssumption DEF FloorInv, TypeOK_Floor
<1>2. EnergyMin' # EnergyMin
  BY <1>1 DEF Falls
<1>3. HandleTick
  BY <1>2 DEF Next, vars, floorVars, HandleFrame, SlotPasses, Deserted
<1>4. QED
  BY <1>3, TickFallsOnFresh

\* While the daemon runs, the threshold falls only on enough frames from
\* within the window: neither the first few frames of an empty room after a
\* long sit, nor those that memory holds past their time, undo what was
\* learned (floor.go:24, the flapping of 2026-10-18).
THEOREM FallsOnFreshFrames == Spec => FallsOnlyOnFreshFrames
<1>1. FloorInv /\ [Next]_vars
        => [EnergyMin' < EnergyMin /\ ~Restart =>
              Cardinality(Dropped(hist)) >= MinFrames]_vars
  BY NextFallsOnFresh DEF Falls, Fresh
<1>2. QED
  BY <1>1, FloorInvariant, PTL DEF Spec, FallsOnlyOnFreshFrames
=============================================================================
