---------------------------- MODULE AudioProofs ----------------------------
(***************************************************************************)
(* What the audio fade guarantees for every set of applications, volumes   *)
(* and ramps: it implements the level and the mutex of SoundLevel, step by *)
(* step, and a volume that nobody chose is always on record.               *)
(***************************************************************************)
EXTENDS AudioFade, TLAPS

-----------------------------------------------------------------------------
(* Types *)

LEMMA Maps ==
  ASSUME NEW S, NEW f
  PROVE  f \in MapsTo(S) <=>
           \E D \in SUBSET Apps : f \in [D -> S]
  BY DEF MapsTo

LEMMA MapsAre ==
  ASSUME NEW S, NEW f \in MapsTo(S)
  PROVE  /\ DOMAIN f \subseteq Apps
         /\ f = [a \in DOMAIN f |-> f[a]]
         /\ \A a \in DOMAIN f : f[a] \in S
  BY DEF MapsTo

LEMMA MapIs ==
  ASSUME NEW S, NEW D \in SUBSET Apps, NEW f \in [D -> S]
  PROVE  f \in MapsTo(S)
  BY DEF MapsTo

LEMMA EmptyMap == \A S : Empty \in MapsTo(S) /\ DOMAIN Empty = {}
<1>1. \A S : Empty \in [{} -> S]
  BY DEF Empty
<1>2. DOMAIN Empty = {} /\ {} \in SUBSET Apps
  BY DEF Empty
<1>3. QED
  BY <1>1, <1>2, MapIs

\* Rounded division stays below a bound its numerator stays below.
LEMMA DivAtMost ==
  ASSUME NEW x \in Nat, NEW m \in Nat \ {0}, NEW k \in Nat, x < m * (k + 1)
  PROVE  x \div m \in 0..k
<1> DEFINE q == x \div m
<1>1. q \in Nat /\ m * q <= x
  BY SMT
<1>2. m * q < m * (k + 1)
  BY <1>1, SMT
<1> HIDE DEF q
<1>3. q < k + 1
  BY <1>1, <1>2, SMT
<1>4. q \in 0..k
  BY <1>1, <1>3, SMT
<1>5. QED
  BY <1>4 DEF q

\* A scaled volume is a volume and no louder; at the full scale it is the same.
LEMMA ScaledIs ==
  ASSUME NEW v \in Volume, NEW n \in Nat, NEW d \in Nat \ {0}, n <= d
  PROVE  /\ Scaled(v, n, d) \in Volume
         /\ Scaled(v, n, d) <= v
         /\ Scaled(v, d, d) = v
<1> DEFINE x == 2 * v * n + d
           m == 2 * d
<1>1. v \in Nat /\ v <= Full /\ Full \in Nat
  BY AudioAssumption, SMT DEF Volume
<1>2. m \in Nat \ {0} /\ x \in Nat
  BY <1>1, SMT
<1>3. x < m * (v + 1)
  <2>1. v * n <= v * d
    BY <1>1, SMT
  <2>2. m * (v + 1) = 2 * (v * d) + 2 * d /\ 2 * v * n = 2 * (v * n)
    BY <1>1, SMT
  <2>3. v * n \in Int /\ v * d \in Int
    BY <1>1, SMT
  <2>4. QED
    BY <2>1, <2>2, <2>3, SMT
<1>4. x \div m \in 0..v
  <2> HIDE DEF x, m
  <2>1. QED
    BY <1>1, <1>2, <1>3, DivAtMost
<1>5. (2 * v * d + d) \div (2 * d) = v
  <2>1. /\ 2 * v * d + d \in Nat /\ 2 * d \in Nat \ {0}
        /\ 2 * v * d + d < (2 * d) * (v + 1) /\ (2 * d) * v <= 2 * v * d + d
    BY <1>1, SMT
  <2>2. \A y \in Nat, k \in Nat \ {0} :
          y < k * (v + 1) /\ k * v <= y => y \div k = v
    BY <1>1, SMT
  <2>3. QED
    BY <2>1, <2>2
<1>6. Scaled(v, n, d) \in 0..v
  BY <1>4 DEF Scaled
<1>7. QED
  BY <1>1, <1>5, <1>6, SMT DEF Scaled, Volume

-----------------------------------------------------------------------------
(* The level and the mutex *)

\* A fade in progress moves the level, and a daemon that is down has neither a
\* level nor the mutex.
LevelInv ==
  /\ level \in 0..Depth /\ target \in 0..Depth
  /\ mu \in {"free", "fade", "ramp", "forget", "undo"}
  /\ mu = "fade" => target # level
  /\ ~up => mu = "free" /\ level = 0

LEMMA LevelInvariant == Spec => []LevelInv
<1>0. 0 \in 0..Depth
  BY AudioAssumption, SMT
<1>1. Init => LevelInv
  BY <1>0 DEF Init, LevelInv
<1>2. LevelInv /\ [Next]_vars => LevelInv'
  <2> SUFFICES ASSUME LevelInv, [Next]_vars PROVE LevelInv'
    OBVIOUS
  <2> USE DEF LevelInv
  <2>a. ASSUME UNCHANGED <<level, target, mu, up>> PROVE LevelInv'
    BY <2>a
  <2>1. ASSUME NEW l \in 0..Depth, Apply(l) PROVE LevelInv'
    BY <2>1 DEF Apply
  <2>2. CASE FadeTo \/ RampTakes \/ RampPass \/ ForgetEnds \/ Crash
    BY <1>0, <2>2 DEF FadeTo, RampTakes, RampPass, ForgetEnds, Crash
  <2>3. CASE Start
    BY <2>3 DEF Start
  <2>4. ASSUME NEW a, Repair(a) \/ RepairFails(a) PROVE LevelInv'
    BY <2>4, <2>a DEF Repair, RepairFails, fadeVars
  <2>5. CASE FixPending \/ CountPending \/ WatchDies \/ WatchEnds \/ WatchRetries
    BY <2>5, <2>a
       DEF FixPending, CountPending, WatchDies, WatchEnds, WatchRetries,
           fadeVars, muVars
  <2>6. ASSUME NEW a, Open(a) \/ Close(a) \/ Cork(a) PROVE LevelInv'
    BY <2>6, <2>a DEF Open, Close, Cork, fadeVars, muVars
  <2>7. ASSUME NEW a, NEW v, UserSets(a, v) PROVE LevelInv'
    BY <2>7, <2>a DEF UserSets, fadeVars, muVars
  <2>8. CASE UNCHANGED vars
    BY <2>8, <2>a DEF vars, fadeVars, muVars
  <2>9. QED
    BY <2>1, <2>2, <2>3, <2>4, <2>5, <2>6, <2>7, <2>8 DEF Next
<1>3. QED
  BY <1>1, <1>2, PTL DEF Spec

Keeps == mu \in {"ramp", "forget", "undo"}

\* Each step of the fade is a step of the level and the mutex, or leaves both
\* alone: apply moves the level only while nobody ramps, and a ramp leaves it
\* alone to the end and ends at 0.  (That every ramp ends is not in here.)
THEOREM FadeKeepsTheLevel ==
  Spec => Sound!Init /\ [][Sound!Next]_(Sound!soundVars)
<1>0. 0 \in 0..Depth
  BY AudioAssumption, SMT
<1>1. Init => Sound!Init
  BY DEF Init, Sound!Init
<1>2. LevelInv /\ [Next]_vars => [Sound!Next]_(Sound!soundVars)
  <2> SUFFICES ASSUME LevelInv, [Next]_vars
               PROVE  [Sound!Next]_(Sound!soundVars)
    OBVIOUS
  <2>a. ASSUME level' = level, Keeps' = Keeps
        PROVE  UNCHANGED Sound!soundVars
    BY <2>a DEF Keeps, Sound!soundVars
  <2>b. ASSUME UNCHANGED <<level, mu>> PROVE UNCHANGED Sound!soundVars
    BY <2>b, <2>a DEF Keeps
  <2>1. ASSUME NEW l \in 0..Depth, Apply(l)
        PROVE  UNCHANGED Sound!soundVars
    BY <2>1, <2>a DEF Apply, Keeps
  <2>2. CASE FadeTo
    <3>1. Sound!Apply(target)
      BY <2>2 DEF FadeTo, LevelInv, Sound!Apply
    <3>2. QED
      BY <3>1 DEF LevelInv, Sound!Next
  <2>3. CASE RampTakes
    <3>1. Sound!RampTakes
      BY <2>3 DEF RampTakes, Sound!RampTakes
    <3>2. QED
      BY <3>1 DEF Sound!Next
  <2>4. CASE RampPass
    BY <2>4, <2>a DEF RampPass, Keeps
  <2>5. ASSUME NEW a, Repair(a) \/ RepairFails(a)
        PROVE  UNCHANGED Sound!soundVars
    BY <2>5, <2>b DEF Repair, RepairFails, fadeVars
  <2>6. CASE ForgetEnds
    <3>1. Sound!Ends
      BY <2>6 DEF ForgetEnds, Sound!Ends
    <3>2. QED
      BY <3>1 DEF Sound!Next
  <2>7. CASE FixPending \/ CountPending \/ WatchDies \/ WatchEnds \/ WatchRetries
    BY <2>7, <2>b
       DEF FixPending, CountPending, WatchDies, WatchEnds, WatchRetries,
           fadeVars, muVars
  <2>8. CASE Crash
    <3>1. Sound!Crash
      BY <2>8 DEF Crash, Sound!Crash
    <3>2. QED
      BY <3>1 DEF Sound!Next
  <2>9. CASE Start
    <3>1. CASE file = Empty
      BY <2>9, <3>1, <2>b DEF Start
    <3>2. CASE file # Empty
      <4>1. Sound!Undo
        BY <2>9, <3>2 DEF Start, LevelInv, Sound!Undo
      <4>2. QED
        BY <4>1 DEF Sound!Next
    <3>3. QED
      BY <3>1, <3>2
  <2>10. ASSUME NEW a, Open(a) \/ Close(a) \/ Cork(a)
         PROVE  UNCHANGED Sound!soundVars
    BY <2>10, <2>b DEF Open, Close, Cork, fadeVars, muVars
  <2>11. ASSUME NEW a, NEW v, UserSets(a, v)
         PROVE  UNCHANGED Sound!soundVars
    BY <2>11, <2>b DEF UserSets, fadeVars, muVars
  <2>12. CASE UNCHANGED vars
    BY <2>12, <2>b DEF vars, fadeVars, muVars
  <2>13. QED
    BY <2>1, <2>2, <2>3, <2>4, <2>5, <2>6, <2>7, <2>8, <2>9, <2>10, <2>11,
       <2>12 DEF Next
<1>3. QED
  BY <1>1, <1>2, LevelInvariant, PTL DEF Spec

-----------------------------------------------------------------------------
(* Type correctness *)

\* What forget has still to repair was recorded and written.
TodoWasWritten ==
  mu \in {"forget", "undo"} => todo \subseteq DOMAIN orig \cap DOMAIN lastSet

TypeInv == TypeOK /\ TodoWasWritten

\* What a write of all streams leaves, application by application.
LEMMA SetAllDoes ==
  ASSUME TypeOK, NEW num \in Nat, NEW den \in Nat \ {0}, num <= den,
         SetAll(num, den)
  PROVE  /\ UNCHANGED <<stream, chosen>>
         /\ vol' \in [Apps -> Volume] /\ remembered' \in [Apps -> Volume]
         /\ lastSet' \in MapsTo(Volume)
         /\ DOMAIN lastSet' = DOMAIN lastSet \cup Found
         /\ \A a \in Found :
              /\ lastSet'[a] = Scaled(orig[a], num, den)
              /\ vol'[a] = lastSet'[a] /\ remembered'[a] = lastSet'[a]
         /\ \A a \in Apps \ Found :
              vol'[a] = vol[a] /\ remembered'[a] = remembered[a]
         /\ \A a \in DOMAIN lastSet \ Found : lastSet'[a] = lastSet[a]
<1> DEFINE scaled == [a \in DOMAIN orig |-> Scaled(orig[a], num, den)]
<1>1. /\ Write(Found, scaled)
      /\ lastSet' = [a \in DOMAIN lastSet \cup Found |->
                       IF a \in Found THEN scaled[a] ELSE lastSet[a]]
  BY DEF SetAll
<1>2. /\ DOMAIN orig \subseteq Apps /\ DOMAIN lastSet \subseteq Apps
      /\ \A a \in DOMAIN orig : orig[a] \in Volume
      /\ \A a \in DOMAIN lastSet : lastSet[a] \in Volume
  BY MapsAre DEF TypeOK
<1>3. Found \subseteq DOMAIN orig
  BY DEF Found
<1>4. \A a \in Found : scaled[a] = Scaled(orig[a], num, den)
                        /\ scaled[a] \in Volume
  BY <1>2, <1>3, ScaledIs
<1> HIDE DEF scaled
<1>5. /\ vol \in [Apps -> Volume] /\ remembered \in [Apps -> Volume]
      /\ vol' = [a \in Apps |-> IF a \in Found THEN scaled[a] ELSE vol[a]]
      /\ remembered' = [a \in Apps |-> IF a \in Found THEN scaled[a]
                                       ELSE remembered[a]]
      /\ UNCHANGED <<stream, chosen>>
  BY <1>1 DEF Write, TypeOK
<1>6. vol' \in [Apps -> Volume] /\ remembered' \in [Apps -> Volume]
  BY <1>4, <1>5
<1>7. lastSet' \in [DOMAIN lastSet \cup Found -> Volume]
  BY <1>1, <1>2, <1>4
<1>8. DOMAIN lastSet \cup Found \in SUBSET Apps
  BY <1>2, <1>3
<1>9. lastSet' \in MapsTo(Volume)
  BY <1>7, <1>8, MapIs
<1>10. \A a \in DOMAIN lastSet \cup Found :
         lastSet'[a] = IF a \in Found THEN scaled[a] ELSE lastSet[a]
  BY <1>1
<1>11. Found \subseteq Apps
  BY <1>2, <1>3
<1>12. \A a \in Found : /\ lastSet'[a] = Scaled(orig[a], num, den)
                        /\ vol'[a] = lastSet'[a] /\ remembered'[a] = lastSet'[a]
  BY <1>4, <1>5, <1>10, <1>11
<1>13. /\ \A a \in Apps \ Found :
              vol'[a] = vol[a] /\ remembered'[a] = remembered[a]
       /\ \A a \in DOMAIN lastSet \ Found : lastSet'[a] = lastSet[a]
  BY <1>5, <1>10
<1>14. QED
  BY <1>5, <1>6, <1>7, <1>9, <1>12, <1>13

LEMMA InitTypes == Init => TypeInv
<1> SUFFICES ASSUME Init PROVE TypeInv
  OBVIOUS
<1>1. /\ 0 \in Volume /\ 0 \in 0..Depth /\ 0 \in 0..(RampSteps + LatePasses)
      /\ \A a \in Apps : UserVolumes[a] \subseteq 1..Full
  BY AudioAssumption, SMT DEF Volume
<1>2. /\ orig \in MapsTo(Volume) /\ lastSet \in MapsTo(Volume)
      /\ file \in MapsTo(Volume)
      /\ pending \in MapsTo([orig : Volume, faded : Volume])
  BY EmptyMap DEF Init
<1>3. remembered \in [Apps -> Volume] /\ \A a \in Apps : {remembered[a]} \subseteq 1..Full
  BY <1>1 DEF Init
<1>4. vol \in [Apps -> Volume] /\ chosen \in [Apps -> SUBSET (1..Full)]
  BY <1>1, <1>3 DEF Init
<1>5. stream \in [Apps -> {"none", "playing", "corked"}]
  BY DEF Init
<1>6. QED
  BY <1>1, <1>2, <1>3, <1>4, <1>5 DEF Init, TypeInv, TypeOK, TodoWasWritten

LEMMA NextTypes == TypeInv /\ [Next]_vars => TypeInv'
<1> SUFFICES ASSUME TypeInv, [Next]_vars PROVE TypeInv'
  OBVIOUS
<1>0. /\ 0 \in Volume /\ 0 \in 0..Depth /\ 0 \in 0..(RampSteps + LatePasses)
      /\ 1 \in 0..(RampSteps + LatePasses)
      /\ \A a \in Apps : UserVolumes[a] \subseteq 1..Full
      /\ \A v \in 1..Full : v \in Volume
  BY AudioAssumption, SMT DEF Volume
<1>t. TypeOK /\ TodoWasWritten
  BY DEF TypeInv
<1>m. /\ DOMAIN orig \subseteq Apps /\ DOMAIN lastSet \subseteq Apps
      /\ DOMAIN file \subseteq Apps /\ DOMAIN pending \subseteq Apps
      /\ \A a \in DOMAIN orig : orig[a] \in Volume
      /\ \A a \in DOMAIN lastSet : lastSet[a] \in Volume
      /\ \A a \in DOMAIN file : file[a] \in Volume
      /\ \A a \in DOMAIN pending :
           pending[a] \in [orig : Volume, faded : Volume]
  <2>1. /\ orig \in MapsTo(Volume) /\ lastSet \in MapsTo(Volume)
        /\ file \in MapsTo(Volume)
        /\ pending \in MapsTo([orig : Volume, faded : Volume])
    BY <1>t DEF TypeOK
  <2>2. DOMAIN orig \subseteq Apps /\ \A a \in DOMAIN orig : orig[a] \in Volume
    BY <2>1, MapsAre
  <2>3. /\ DOMAIN lastSet \subseteq Apps
        /\ \A a \in DOMAIN lastSet : lastSet[a] \in Volume
    BY <2>1, MapsAre
  <2>4. DOMAIN file \subseteq Apps /\ \A a \in DOMAIN file : file[a] \in Volume
    BY <2>1, MapsAre
  <2>5. /\ DOMAIN pending \subseteq Apps
        /\ \A a \in DOMAIN pending :
             pending[a] \in [orig : Volume, faded : Volume]
    BY <2>1, MapsAre
  <2>6. QED
    BY <2>2, <2>3, <2>4, <2>5
<1>e. /\ Empty \in MapsTo(Volume)
      /\ Empty \in MapsTo([orig : Volume, faded : Volume])
  BY EmptyMap
<1> DEFINE WatchTypes == /\ watch \in {"off", "on", "counting", "ending"}
                         /\ retry \in BOOLEAN /\ news \in BOOLEAN
                         /\ unheard \subseteq Apps
<1>w. /\ Event /\ unheard' \subseteq Apps => WatchTypes'
      /\ EventIfMoved /\ unheard' = unheard => WatchTypes'
      /\ UNCHANGED <<watchVars, unheard>> => WatchTypes'
  BY <1>t DEF Event, EventIfMoved, Listening, watchVars, TypeOK
<1>1. ASSUME NEW l \in 0..Depth, Apply(l) PROVE TypeInv'
  <2>1. orig' \in MapsTo(Volume) /\ file' \in MapsTo(Volume)
    <3>1. CASE Snapshot
      <4>1. orig' = [a \in Playing |->
                       IF Stale(a) THEN pending[a].orig ELSE vol[a]]
        BY <3>1 DEF Snapshot
      <4>2. Playing \in SUBSET Apps
        BY DEF Playing
      <4>3. \A a \in Playing :
              (IF Stale(a) THEN pending[a].orig ELSE vol[a]) \in Volume
        BY <1>t, <1>m, <4>2 DEF Stale, TypeOK
      <4>4. orig' \in [Playing -> Volume]
        BY <4>1, <4>3
      <4>5. QED
        BY <1>t, <3>1, <4>2, <4>4, MapIs DEF Snapshot, TypeOK
    <3>2. CASE UNCHANGED <<orig, file>>
      BY <1>t, <3>2 DEF TypeOK
    <3>3. QED
      BY <1>1, <3>1, <3>2 DEF Apply
  <2>2. QED
    BY <1>1, <1>t, <2>1
       DEF Apply, TypeInv, TypeOK, TodoWasWritten, world, watchVars
<1>2. CASE FadeTo
  <2>1. Depth \in Nat \ {0} /\ Depth - target \in Nat /\ Depth - target <= Depth
    BY <1>t, AudioAssumption, SMT DEF TypeOK
  <2>2. SetAll(Depth - target, Depth)
    BY <1>2 DEF FadeTo
  <2>3. /\ UNCHANGED <<stream, chosen>>
        /\ vol' \in [Apps -> Volume] /\ remembered' \in [Apps -> Volume]
        /\ lastSet' \in MapsTo(Volume)
    BY <1>t, <2>1, <2>2, SetAllDoes
  <2>4. Forsaken(Found) \subseteq DOMAIN orig \cap DOMAIN lastSet'
    BY DEF Forsaken
  <2>w. WatchTypes'
    BY <1>w, <1>2 DEF FadeTo
  <2>5. TypeOK'
    BY <1>0, <1>2, <1>m, <1>t, <2>3, <2>4, <2>w DEF FadeTo, TypeOK
  <2>6. TodoWasWritten'
    BY <1>2, <2>4 DEF FadeTo, TodoWasWritten
  <2>7. QED
    BY <2>5, <2>6 DEF TypeInv
<1>3. CASE RampTakes
  BY <1>3, <1>0, <1>t
     DEF RampTakes, TypeInv, TypeOK, TodoWasWritten, world, watchVars
<1>4. CASE RampPass
  <2> DEFINE n == IF pass < RampSteps THEN pass ELSE RampSteps
  <2>1. n \in Nat /\ RampSteps \in Nat \ {0} /\ n <= RampSteps
    BY <1>t, AudioAssumption, SMT DEF TypeOK
  <2>2. SetAll(n, RampSteps)
    BY <1>4 DEF RampPass
  <2> HIDE DEF n
  <2>3. /\ UNCHANGED <<stream, chosen>>
        /\ vol' \in [Apps -> Volume] /\ remembered' \in [Apps -> Volume]
        /\ lastSet' \in MapsTo(Volume)
    BY <1>t, <2>1, <2>2, SetAllDoes
  <2>4. Forsaken(live') \subseteq DOMAIN orig \cap DOMAIN lastSet'
    BY DEF Forsaken
  <2>5. pass < RampSteps + LatePasses => pass + 1 \in 0..(RampSteps + LatePasses)
    BY <1>t, AudioAssumption, SMT DEF TypeOK
  <2>6. Found \subseteq Apps
    BY <1>m DEF Found
  <2>w. WatchTypes'
    BY <1>w, <1>4 DEF RampPass
  <2>7. TypeOK'
    BY <1>0, <1>4, <1>m, <1>t, <2>3, <2>4, <2>5, <2>6, <2>w DEF RampPass, TypeOK
  <2>8. TodoWasWritten'
    BY <1>4, <2>4 DEF RampPass, TodoWasWritten
  <2>9. QED
    BY <2>7, <2>8 DEF TypeInv
<1>5. ASSUME NEW a \in Apps, Repair(a) PROVE TypeInv'
  <2>1. orig[a] \in Volume
    BY <1>5, <1>m, <1>t DEF Repair, TodoWasWritten
  <2>2. remembered' \in [Apps -> Volume]
    BY <1>5, <1>t, <2>1 DEF Repair, TypeOK
  <2>w. WatchTypes'
    BY <1>w, <1>5, <1>t DEF Repair, TypeOK
  <2>3. QED
    BY <1>5, <1>t, <2>2, <2>w
       DEF Repair, TypeInv, TypeOK, TodoWasWritten, fadeVars
<1>6. ASSUME NEW a \in Apps, RepairFails(a) PROVE TypeInv'
  <2>1. orig[a] \in Volume /\ lastSet[a] \in Volume
    BY <1>6, <1>m, <1>t DEF RepairFails, TodoWasWritten
  <2>2. [orig |-> orig[a], faded |-> lastSet[a]]
          \in [orig : Volume, faded : Volume]
    BY <2>1
  <2>3. pending' \in [DOMAIN pending \cup {a} -> [orig : Volume, faded : Volume]]
    BY <1>6, <1>m, <2>2 DEF RepairFails
  <2>4. DOMAIN pending \cup {a} \in SUBSET Apps
    BY <1>m
  <2>5. pending' \in MapsTo([orig : Volume, faded : Volume])
    BY <2>3, <2>4, MapIs
  <2>6. QED
    BY <1>6, <1>t, <2>5
       DEF RepairFails, TypeInv, TypeOK, TodoWasWritten, world, fadeVars,
           watchVars
<1>7. CASE ForgetEnds
  BY <1>7, <1>0, <1>e, <1>t
     DEF ForgetEnds, TypeInv, TypeOK, TodoWasWritten, world
<1>8. CASE FixPending
  <2> DEFINE back == IF orig = Empty THEN {a \in Playing : Stale(a)} ELSE {}
             left == DOMAIN pending \ back
             missed == {a \in Playing \ DOMAIN orig : Stale(a)}
  <2>1. /\ vol' = [a \in Apps |-> IF a \in back THEN pending[a].orig
                                  ELSE vol[a]]
        /\ remembered' = [a \in Apps |-> IF a \in back THEN pending[a].orig
                                         ELSE remembered[a]]
        /\ pending' = [a \in left |-> pending[a]]
        /\ watch' = "counting" /\ news' = (back # {}) /\ retry' = retry
        /\ unheard' = IF orig = Empty THEN {} ELSE unheard \cup missed
    BY <1>8 DEF FixPending
  <2>2. \A a \in back : pending[a].orig \in Volume
    BY <1>m DEF Stale
  <2>3. /\ left \in SUBSET Apps /\ left \subseteq DOMAIN pending
        /\ missed \subseteq Apps
    BY <1>m DEF Playing
  <2> HIDE DEF back, left, missed
  <2>4. pending' \in [left -> [orig : Volume, faded : Volume]]
    BY <1>m, <2>1, <2>3
  <2>5. pending' \in MapsTo([orig : Volume, faded : Volume])
    BY <2>3, <2>4, MapIs
  <2>6. vol' \in [Apps -> Volume] /\ remembered' \in [Apps -> Volume]
    BY <1>t, <2>1, <2>2 DEF TypeOK
  <2>7. WatchTypes'
    BY <1>t, <2>1, <2>3 DEF TypeOK
  <2>8. QED
    BY <1>8, <1>t, <2>5, <2>6, <2>7
       DEF FixPending, TypeInv, TypeOK, TodoWasWritten, fadeVars, muVars
<1>9. CASE CountPending \/ WatchDies \/ WatchEnds \/ WatchRetries
  BY <1>9, <1>t
     DEF CountPending, WatchDies, WatchEnds, WatchRetries, TypeInv, TypeOK,
         TodoWasWritten, world, fadeVars, muVars
<1>10. CASE Crash
  BY <1>10, <1>0, <1>e, <1>t DEF Crash, TypeInv, TypeOK, TodoWasWritten, world
<1>11. CASE Start
  <2>1. vol' \in [Apps -> Volume]
    BY <1>11, <1>m, <1>t DEF Start, TypeOK
  <2>2. remembered' \in [Apps -> Volume]
    BY <1>11, <1>t, <2>1 DEF Start, TypeOK
  <2>3. lastSet' \in MapsTo(Volume) /\ orig' \in MapsTo(Volume)
    <3>1. [a \in DOMAIN file |-> 0] \in [DOMAIN file -> Volume]
      BY <1>0
    <3>2. [a \in DOMAIN file |-> 0] \in MapsTo(Volume)
      BY <1>m, <3>1, MapIs
    <3>3. QED
      BY <1>11, <1>t, <3>2 DEF Start, TypeOK
  <2>4. todo' \subseteq Apps /\ mu' \in {"free", "fade", "ramp", "forget", "undo"}
    BY <1>11, <1>m, <1>t DEF Start, TypeOK
  <2>5. TypeOK'
    BY <1>11, <1>t, <2>1, <2>2, <2>3, <2>4 DEF Start, TypeOK, watchVars
  <2>6. TodoWasWritten'
    BY <1>11, <1>t DEF Start, TodoWasWritten
  <2>7. QED
    BY <2>5, <2>6 DEF TypeInv
<1>12. ASSUME NEW a \in Apps, Open(a) \/ Close(a) \/ Cork(a) PROVE TypeInv'
  <2>1. /\ stream' \in [Apps -> {"none", "playing", "corked"}]
        /\ vol' \in [Apps -> Volume]
    BY <1>0, <1>12, <1>t DEF Open, Close, Cork, TypeOK
  <2>2. UNCHANGED <<remembered, chosen, up, fadeVars, pending, muVars>>
    BY <1>12 DEF Open, Close, Cork
  <2>3. WatchTypes'
    <3>1. unheard' \subseteq Apps
      BY <1>12, <1>t DEF Open, Close, Cork, Comes, TypeOK
    <3>2. CASE Open(a) \/ Cork(a)
      BY <1>w, <3>1, <3>2 DEF Open, Cork, Comes
    <3>3. CASE Close(a)
      BY <1>t, <3>1, <3>3 DEF Close, TypeOK, watchVars
    <3>4. QED
      BY <1>12, <3>2, <3>3
  <2>4. QED
    BY <1>t, <2>1, <2>2, <2>3
       DEF TypeInv, TypeOK, TodoWasWritten, fadeVars, muVars
<1>13. ASSUME NEW a \in Apps, NEW v \in UserVolumes[a], UserSets(a, v)
       PROVE  TypeInv'
  <2>1. v \in Volume /\ v \in 1..Full
    BY <1>0
  <2>2. /\ vol' \in [Apps -> Volume] /\ remembered' \in [Apps -> Volume]
        /\ chosen' \in [Apps -> SUBSET (1..Full)]
    BY <1>13, <1>t, <2>1 DEF UserSets, TypeOK
  <2>w. WatchTypes'
    BY <1>w, <1>13, <1>t DEF UserSets, TypeOK
  <2>3. QED
    BY <1>13, <1>t, <2>2, <2>w
       DEF UserSets, TypeInv, TypeOK, TodoWasWritten, fadeVars, muVars
<1>14. CASE UNCHANGED vars
  BY <1>14, <1>t
     DEF TypeInv, TypeOK, TodoWasWritten, vars, world, fadeVars, muVars,
         watchVars
<1>15. QED
  BY <1>1, <1>2, <1>3, <1>4, <1>5, <1>6, <1>7, <1>8, <1>9, <1>10, <1>11,
     <1>12, <1>13, <1>14 DEF Next

LEMMA TypeInvariant == Spec => []TypeInv
  BY InitTypes, NextTypes, PTL DEF Spec

\* Every variable of the fade keeps its type: volumes stay between silence and
\* the loudest, through every scaling, and the maps speak of applications
\* (struct audio, audio.go:50-84).
THEOREM TypeCorrect == Spec => []TypeOK
<1>1. TypeInv => TypeOK
  BY DEF TypeInv
<1>2. QED
  BY <1>1, TypeInvariant, PTL

-----------------------------------------------------------------------------
(* Every faded volume is on record.  The invariant follows one application *)
(* a through a fade: what stream-restore remembers for it is somebody's    *)
(* choice, or it is the volume the fade wrote last, and who wrote it still *)
(* knows the original.                                                     *)

\* What the theorem supposes.  A stream that opens while its own repair waits
\* and a repair that fails at the start both break the property; each has a
\* run of its own.  And no user chooses what the fade would have written, which
\* the code could not tell apart either (sameVolume, audio.go:83).
OrderlyWorld ==
  /\ "late-stream" \notin Happenings
  /\ "repair-fails-at-start" \notin Happenings
  /\ \A a \in Apps : \A v \in UserVolumes[a] :
       /\ \A n \in 0..Depth :
            Scaled(v, n, Depth) = v \/ Scaled(v, n, Depth) \notin UserVolumes[a]
       /\ \A n \in 0..RampSteps :
            \/ Scaled(v, n, RampSteps) = v
            \/ Scaled(v, n, RampSteps) \notin UserVolumes[a]

\* Stream-restore holds what somebody chose ...
Wanted(a) == remembered[a] \in chosen[a]

\* ... or what the fade left, and pending knows what it was before.
Pended(a) ==
  /\ a \in DOMAIN pending /\ pending[a].orig \in chosen[a]
  /\ pending[a].faded = remembered[a]

\* A live stream plays at what is remembered, and users choose their volumes.
Heard(a) ==
  /\ a \in Live => vol[a] = remembered[a]
  /\ chosen[a] \subseteq UserVolumes[a]

\* An original is a choice, and the fade only goes below it.
Original(a) ==
  a \in DOMAIN file =>
    file[a] \in chosen[a] /\ (Wanted(a) \/ remembered[a] <= file[a])

\* What was written is the original, or a volume no user gives.
Written(a) ==
  a \in DOMAIN lastSet =>
    /\ a \in DOMAIN orig /\ lastSet[a] <= orig[a]
    /\ lastSet[a] = orig[a] \/ lastSet[a] \notin UserVolumes[a]

PendingIsFaded(a) ==
  a \in DOMAIN pending =>
    /\ pending[a].faded < pending[a].orig
    /\ pending[a].faded \notin UserVolumes[a]

\* An application no fade is at work on.
Elsewhere(a) == a \notin DOMAIN file => Wanted(a) \/ Pended(a)

\* During a fade or a ramp, the last write is what is remembered.
OnTheWay(a) ==
  mu \in {"free", "fade", "ramp"} /\ a \in DOMAIN orig =>
      \/ Wanted(a)
      \/ a \in DOMAIN lastSet /\ remembered[a] = lastSet[a]
      \/ a \notin DOMAIN lastSet /\ Pended(a)

\* What the ramp has put back is what somebody chose.
PutBack(a) ==
  /\ mu = "ramp" /\ a \in live => a \in DOMAIN orig /\ Wanted(a)
  /\ mu \in {"free", "fade"} => a \notin live

\* forget has still to repair what was written below the original for a stream
\* that is gone, and nothing else.
Forgetting(a) ==
  /\ mu \in {"forget", "undo"} =>
       /\ a \in todo => /\ a \in DOMAIN lastSet /\ a \notin Live
                        /\ lastSet[a] < orig[a]
       /\ a \in DOMAIN orig \ todo => Wanted(a) \/ Pended(a)
  /\ mu = "forget" /\ a \in todo => Wanted(a) \/ remembered[a] = lastSet[a]
  /\ mu \notin {"forget", "undo"} => a \notin todo

OnRecord(a) ==
  /\ Heard(a) /\ Original(a) /\ Written(a) /\ PendingIsFaded(a)
  /\ Elsewhere(a) /\ OnTheWay(a) /\ PutBack(a) /\ Forgetting(a)

\* The state file is what the running daemon has in memory.
FileIsMemory ==
  /\ up => file = orig
  /\ ~up => orig = Empty /\ lastSet = Empty /\ pending = Empty /\ mu = "free"

RecordInv == FileIsMemory /\ \A a \in Apps : OnRecord(a)

LEMMA InitRecord == Init => RecordInv
<1> SUFFICES ASSUME Init PROVE RecordInv
  OBVIOUS
<1>1. FileIsMemory
  BY DEF Init, FileIsMemory
<1>2. ASSUME NEW a \in Apps PROVE OnRecord(a)
  <2>1. DOMAIN Empty = {}
    BY DEF Empty
  <2>2. /\ remembered[a] \in UserVolumes[a] /\ chosen[a] = {remembered[a]}
        /\ a \in Live => vol[a] = remembered[a]
    BY DEF Init, Live
  <2>3. QED
    BY <2>1, <2>2
       DEF Init, OnRecord, Wanted, Heard, Original, Written, PendingIsFaded,
           Elsewhere, OnTheWay, PutBack, Forgetting
<1>3. QED
  BY <1>1, <1>2 DEF RecordInv

\* What a step proof knows of one application: its volumes are numbers.
LEMMA VolumesOf ==
  ASSUME TypeOK, NEW a \in Apps
  PROVE  /\ vol[a] \in Int /\ remembered[a] \in Int
         /\ a \in DOMAIN orig => orig[a] \in Int
         /\ a \in DOMAIN lastSet => lastSet[a] \in Int
         /\ a \in DOMAIN file => file[a] \in Int /\ file[a] >= 0
         /\ a \in DOMAIN pending =>
              pending[a].orig \in Int /\ pending[a].faded \in Int
         /\ UserVolumes[a] \subseteq Int /\ \A v \in UserVolumes[a] : 0 < v
<1>1. /\ orig \in MapsTo(Volume) /\ lastSet \in MapsTo(Volume)
      /\ file \in MapsTo(Volume)
      /\ pending \in MapsTo([orig : Volume, faded : Volume])
      /\ vol[a] \in Volume /\ remembered[a] \in Volume
  BY DEF TypeOK
<1>2. \A v \in Volume : v \in Int /\ v >= 0
  BY AudioAssumption, SMT DEF Volume
<1>3. /\ a \in DOMAIN orig => orig[a] \in Volume
      /\ a \in DOMAIN lastSet => lastSet[a] \in Volume
      /\ a \in DOMAIN file => file[a] \in Volume
  BY <1>1, MapsAre
<1>4. a \in DOMAIN pending =>
        pending[a].orig \in Volume /\ pending[a].faded \in Volume
  <2>1. a \in DOMAIN pending => pending[a] \in [orig : Volume, faded : Volume]
    BY <1>1, MapsAre
  <2>2. QED
    BY <2>1
<1>5. UserVolumes[a] \subseteq 1..Full
  BY AudioAssumption
<1>6. UserVolumes[a] \subseteq Int /\ \A v \in UserVolumes[a] : 0 < v
  BY <1>5, AudioAssumption, SMT
<1>7. QED
  BY <1>1, <1>2, <1>3, <1>4, <1>6

LEMMA ApplyRecord ==
  ASSUME TypeInv, RecordInv, NEW l \in 0..Depth, Apply(l)
  PROVE  RecordInv'
<1>0. /\ up /\ file = orig /\ mu = "free" /\ mu' = "fade"
      /\ UNCHANGED <<world, up, lastSet, pending, live, todo>>
  BY DEF Apply, RecordInv, FileIsMemory
<1>1. CASE UNCHANGED <<orig, file>>
  <2>1. FileIsMemory'
    BY <1>0, <1>1 DEF FileIsMemory
  <2>2. ASSUME NEW a \in Apps PROVE OnRecord(a)'
    <3>1. OnRecord(a)
      BY DEF RecordInv
    <3>2. QED
      BY <1>0, <1>1, <3>1
         DEF OnRecord, Wanted, Pended, Heard, Original, Written, PendingIsFaded,
             Elsewhere, OnTheWay, PutBack, Forgetting, world, Live
  <2>3. QED
    BY <2>1, <2>2 DEF RecordInv
<1>2. CASE orig = Empty /\ Snapshot
  <2>0. DOMAIN orig = {}
    BY <1>2 DEF Empty
  <2>1. /\ orig' = [a \in Playing |->
                      IF Stale(a) THEN pending[a].orig ELSE vol[a]]
        /\ file' = orig'
    <3>1. CASE Playing = {}
      BY <1>0, <1>2, <3>1 DEF Snapshot, Empty
    <3>2. CASE Playing # {}
      BY <1>2, <3>2 DEF Snapshot
    <3>3. QED
      BY <3>1, <3>2
  <2>2. FileIsMemory'
    BY <1>0, <2>1 DEF FileIsMemory
  <2>3. ASSUME NEW a \in Apps PROVE OnRecord(a)'
    <3>1. OnRecord(a)
      BY DEF RecordInv
    <3>2. /\ vol[a] \in Int /\ remembered[a] \in Int
          /\ a \in DOMAIN pending =>
               pending[a].orig \in Int /\ pending[a].faded \in Int
      BY VolumesOf DEF TypeInv
    <3>3. a \notin DOMAIN orig /\ a \notin DOMAIN file /\ a \notin DOMAIN lastSet
      BY <1>0, <2>0, <3>1 DEF OnRecord, Written
    <3>4. Wanted(a) \/ Pended(a)
      BY <3>1, <3>3 DEF OnRecord, Elsewhere
    <3>5. Wanted(a)' = Wanted(a) /\ Pended(a)' = Pended(a)
      BY <1>0 DEF Wanted, Pended, world
    <3>6. CASE a \notin Playing
      <4>1. a \notin DOMAIN orig' /\ a \notin DOMAIN file'
        BY <2>1, <3>6
      <4>2. QED
        BY <1>0, <3>1, <3>3, <3>4, <3>5, <4>1
           DEF OnRecord, Heard, Original, Written, PendingIsFaded, Elsewhere,
               OnTheWay, PutBack, Forgetting, world, Live
    <3>7. CASE a \in Playing
      <4>1. /\ a \in DOMAIN orig' /\ a \in DOMAIN file' /\ a \in Live
            /\ file'[a] = IF Stale(a) THEN pending[a].orig ELSE vol[a]
        BY <2>1, <3>7 DEF Playing, Live
      <4>2. vol[a] = remembered[a] /\ chosen[a] \subseteq UserVolumes[a]
        BY <3>1, <4>1 DEF OnRecord, Heard
      <4>3. CASE Stale(a)
        <5>1. /\ a \in DOMAIN pending /\ pending[a].faded = remembered[a]
              /\ pending[a].faded < pending[a].orig
              /\ pending[a].faded \notin UserVolumes[a]
          BY <3>1, <4>2, <4>3 DEF Stale, OnRecord, PendingIsFaded
        <5>2. pending[a].orig \in chosen[a]
          BY <3>4, <4>2, <5>1 DEF Wanted, Pended
        <5>3. file'[a] \in chosen[a] /\ remembered[a] <= file'[a]
          BY <3>2, <4>1, <4>3, <5>1, <5>2
        <5>4. QED
          BY <5>3, <4>1, <1>0, <3>1, <3>3, <3>4, <3>5
             DEF OnRecord, Heard, Original, Written, PendingIsFaded, Elsewhere,
                 OnTheWay, PutBack, Forgetting, world, Live
      <4>4. CASE ~Stale(a)
        <5>1. Wanted(a) /\ file'[a] = remembered[a]
          BY <3>4, <4>1, <4>2, <4>4 DEF Stale, Pended
        <5>2. file'[a] \in chosen[a]
          BY <5>1 DEF Wanted
        <5>3. QED
          BY <5>1, <5>2, <4>1, <1>0, <3>1, <3>3, <3>4, <3>5
             DEF OnRecord, Heard, Original, Written, PendingIsFaded, Elsewhere,
                 OnTheWay, PutBack, Forgetting, world, Live
      <4>5. QED
        BY <4>3, <4>4
    <3>8. QED
      BY <3>6, <3>7
  <2>4. QED
    BY <2>2, <2>3 DEF RecordInv
<1>3. QED
  BY <1>1, <1>2 DEF Apply

\* What a write of all streams leaves on record, whoever made it.
LEMMA SetAllRecord ==
  ASSUME TypeInv, RecordInv, NEW num \in Nat, NEW den \in Nat \ {0},
         num <= den, SetAll(num, den), UNCHANGED <<orig, file, pending, up>>,
         up, mu \in {"fade", "ramp"}, NEW a \in Apps,
         \A v \in UserVolumes[a] :
           \/ Scaled(v, num, den) = v
           \/ Scaled(v, num, den) \notin UserVolumes[a]
  PROVE  /\ Heard(a)' /\ Original(a)' /\ Written(a)' /\ PendingIsFaded(a)'
         /\ Elsewhere(a)'
         /\ a \in DOMAIN orig =>
              \/ Wanted(a)'
              \/ a \in DOMAIN lastSet' /\ remembered'[a] = lastSet'[a]
              \/ a \notin DOMAIN lastSet' /\ Pended(a)'
         /\ a \notin Found => Wanted(a)' = Wanted(a)
         /\ num = den /\ a \in Found => Wanted(a)'
<1>1. TypeOK /\ OnRecord(a) /\ file = orig
  BY DEF TypeInv, RecordInv, FileIsMemory
<1>2. /\ vol[a] \in Int /\ remembered[a] \in Int
      /\ a \in DOMAIN orig => orig[a] \in Int
      /\ a \in DOMAIN lastSet => lastSet[a] \in Int
  BY <1>1, VolumesOf
<1>3. /\ UNCHANGED <<stream, chosen>>
      /\ DOMAIN lastSet' = DOMAIN lastSet \cup Found
      /\ \A b \in Found :
           /\ lastSet'[b] = Scaled(orig[b], num, den)
           /\ vol'[b] = lastSet'[b] /\ remembered'[b] = lastSet'[b]
      /\ \A b \in Apps \ Found :
           vol'[b] = vol[b] /\ remembered'[b] = remembered[b]
      /\ \A b \in DOMAIN lastSet \ Found : lastSet'[b] = lastSet[b]
  BY <1>1, SetAllDoes
<1>4. chosen'[a] = chosen[a] /\ (a \in Live' <=> a \in Live)
  BY <1>3 DEF Live
<1>5. CASE a \in Found
  <2>1. a \in DOMAIN orig /\ a \in DOMAIN file /\ a \in DOMAIN lastSet'
    BY <1>1, <1>3, <1>5 DEF Found
  <2>2. /\ lastSet'[a] = Scaled(orig[a], num, den)
        /\ vol'[a] = lastSet'[a] /\ remembered'[a] = lastSet'[a]
    BY <1>3, <1>5
  <2>3. orig[a] \in chosen[a] /\ chosen[a] \subseteq UserVolumes[a]
    BY <1>1, <2>1 DEF OnRecord, Original, Heard
  <2>4. orig[a] \in Volume
    BY <1>1, <2>1, MapsAre DEF TypeOK
  <2>5. /\ lastSet'[a] <= orig[a] /\ lastSet'[a] \in Int
        /\ num = den => lastSet'[a] = orig[a]
    <3>1. \A v \in Volume : v \in Int
      BY AudioAssumption, SMT DEF Volume
    <3>2. QED
      BY <2>2, <2>4, <3>1, ScaledIs
  <2>6. lastSet'[a] = orig[a] \/ lastSet'[a] \notin UserVolumes[a]
    BY <2>2, <2>3
  <2>7. QED
    BY <1>1, <1>4, <1>5, <2>1, <2>2, <2>3, <2>5, <2>6
       DEF OnRecord, Wanted, Pended, Heard, Original, Written, PendingIsFaded,
           Elsewhere
<1>6. CASE a \notin Found
  <2>1. /\ vol'[a] = vol[a] /\ remembered'[a] = remembered[a]
        /\ (a \in DOMAIN lastSet' <=> a \in DOMAIN lastSet)
        /\ a \in DOMAIN lastSet => lastSet'[a] = lastSet[a]
    BY <1>3, <1>6
  <2>2. Wanted(a)' = Wanted(a) /\ Pended(a)' = Pended(a)
    BY <1>4, <2>1 DEF Wanted, Pended
  <2>3. a \in DOMAIN orig =>
          \/ Wanted(a)'
          \/ a \in DOMAIN lastSet' /\ remembered'[a] = lastSet'[a]
          \/ a \notin DOMAIN lastSet' /\ Pended(a)'
    BY <1>1, <2>1, <2>2 DEF OnRecord, OnTheWay
  <2>4. QED
    BY <1>1, <1>4, <1>6, <2>1, <2>2, <2>3
       DEF OnRecord, Heard, Original, Written, PendingIsFaded, Elsewhere
<1>7. QED
  BY <1>5, <1>6

\* What a write leaves for forget: the applications not put back are unheard.
LEMMA ForsakenRecord ==
  ASSUME TypeInv, RecordInv, mu \in {"fade", "ramp"}, up, NEW a \in Apps,
         NEW back, Found \subseteq back,
         a \in back /\ a \in DOMAIN orig => Wanted(a)',
         UNCHANGED <<stream, orig, file, pending>>,
         lastSet' \in MapsTo(Volume),
         Heard(a)', Original(a)', Written(a)', PendingIsFaded(a)',
         Elsewhere(a)',
         a \in DOMAIN orig =>
           \/ Wanted(a)'
           \/ a \in DOMAIN lastSet' /\ remembered'[a] = lastSet'[a]
           \/ a \notin DOMAIN lastSet' /\ Pended(a)',
         mu' = "forget", todo' = Forsaken(back)
  PROVE  OnRecord(a)'
<1>1. TypeOK /\ file = orig /\ (a \in Live' <=> a \in Live)
  BY DEF TypeInv, RecordInv, FileIsMemory, Live
<1>2. /\ a \in DOMAIN orig => orig[a] \in Int
      /\ a \in DOMAIN lastSet' => lastSet'[a] \in Int
  <2>1. a \in DOMAIN orig => orig[a] \in Int
    BY <1>1, VolumesOf
  <2>2. a \in DOMAIN lastSet' => lastSet'[a] \in Volume
    BY MapsAre
  <2>3. \A v \in Volume : v \in Int
    BY AudioAssumption, SMT DEF Volume
  <2>4. QED
    BY <2>1, <2>2, <2>3
<1>3. a \in todo' <=> /\ a \in DOMAIN orig /\ a \notin back
                     /\ a \in DOMAIN lastSet' /\ lastSet'[a] < orig[a]
  BY DEF Forsaken
<1>4. a \in todo' => a \notin Live'
  BY <1>1, <1>3 DEF Found
<1>5. a \in todo' => Wanted(a)' \/ remembered'[a] = lastSet'[a]
  BY <1>3
<1>6. a \in DOMAIN orig \ todo' => Wanted(a)' \/ Pended(a)'
  <2> SUFFICES ASSUME a \in DOMAIN orig, a \notin todo', a \notin back,
                      a \in DOMAIN lastSet', remembered'[a] = lastSet'[a]
               PROVE  Wanted(a)'
    OBVIOUS
  <2>1. lastSet'[a] = orig[a]
    BY <1>2, <1>3 DEF Written
  <2>2. orig'[a] \in chosen'[a]
    BY <1>1 DEF Original
  <2>3. QED
    BY <2>1, <2>2 DEF Wanted
<1>7. OnTheWay(a)' /\ PutBack(a)'
  BY DEF OnTheWay, PutBack
<1>8. Forgetting(a)'
  BY <1>3, <1>4, <1>5, <1>6 DEF Forgetting
<1>9. QED
  BY <1>7, <1>8 DEF OnRecord

LEMMA FadeRecord ==
  ASSUME OrderlyWorld, TypeInv, RecordInv, FadeTo
  PROVE  RecordInv'
<1>0. /\ mu = "fade" /\ UNCHANGED <<orig, file, pending, up, live>>
      /\ SetAll(Depth - target, Depth)
  BY DEF FadeTo
<1>1. up /\ TypeOK /\ FileIsMemory'
  BY <1>0 DEF RecordInv, FileIsMemory, TypeInv
<1>2. /\ Depth \in Nat \ {0} /\ Depth - target \in Nat /\ Depth - target <= Depth
      /\ Depth - target \in 0..Depth /\ (target = 0 => Depth - target = Depth)
  BY <1>1, AudioAssumption, SMT DEF TypeOK
<1>3. UNCHANGED stream /\ lastSet' \in MapsTo(Volume)
  BY <1>0, <1>1, <1>2, SetAllDoes
<1>4. ASSUME NEW a \in Apps PROVE OnRecord(a)'
  <2>1. \A v \in UserVolumes[a] :
          \/ Scaled(v, Depth - target, Depth) = v
          \/ Scaled(v, Depth - target, Depth) \notin UserVolumes[a]
    BY <1>2 DEF OrderlyWorld
  <2>2. /\ Heard(a)' /\ Original(a)' /\ Written(a)' /\ PendingIsFaded(a)'
        /\ Elsewhere(a)'
        /\ a \in DOMAIN orig =>
             \/ Wanted(a)'
             \/ a \in DOMAIN lastSet' /\ remembered'[a] = lastSet'[a]
             \/ a \notin DOMAIN lastSet' /\ Pended(a)'
        /\ Depth - target = Depth /\ a \in Found => Wanted(a)'
    BY <1>0, <1>1, <1>2, <2>1, SetAllRecord
  <2>3. a \notin todo /\ a \notin live
    BY <1>0 DEF RecordInv, OnRecord, PutBack, Forgetting
  <2>4. CASE target = 0
    <3>1. mu' = "forget" /\ todo' = Forsaken(Found)
      BY <2>4 DEF FadeTo
    <3>2. QED
      BY <1>0, <1>1, <1>2, <1>3, <2>2, <2>4, <3>1, ForsakenRecord
  <2>5. CASE target # 0
    <3>1. mu' = "free" /\ UNCHANGED todo
      BY <2>5 DEF FadeTo
    <3>2. OnTheWay(a)' /\ PutBack(a)' /\ Forgetting(a)'
      BY <1>0, <2>2, <2>3, <3>1 DEF OnTheWay, PutBack, Forgetting
    <3>3. QED
      BY <2>2, <3>2 DEF OnRecord
  <2>6. QED
    BY <2>4, <2>5
<1>5. QED
  BY <1>1, <1>4 DEF RecordInv

LEMMA RampRecord ==
  ASSUME OrderlyWorld, TypeInv, RecordInv, RampPass
  PROVE  RecordInv'
<1> DEFINE n == IF pass < RampSteps THEN pass ELSE RampSteps
<1>0. /\ mu = "ramp" /\ UNCHANGED <<orig, file, pending, up>>
      /\ SetAll(n, RampSteps)
  BY DEF RampPass
<1>1. up /\ TypeOK /\ FileIsMemory'
  BY <1>0 DEF RecordInv, FileIsMemory, TypeInv
<1>2. /\ RampSteps \in Nat \ {0} /\ n \in Nat /\ n <= RampSteps
      /\ n \in 0..RampSteps /\ (~(pass < RampSteps) => n = RampSteps)
      /\ ~(pass < RampSteps + LatePasses) => ~(pass < RampSteps)
  BY <1>1, AudioAssumption, SMT DEF TypeOK
<1> HIDE DEF n
<1>3. UNCHANGED stream /\ lastSet' \in MapsTo(Volume)
  BY <1>0, <1>1, <1>2, SetAllDoes
<1>4. ASSUME NEW a \in Apps PROVE OnRecord(a)'
  <2>1. \A v \in UserVolumes[a] :
          \/ Scaled(v, n, RampSteps) = v
          \/ Scaled(v, n, RampSteps) \notin UserVolumes[a]
    BY <1>2 DEF OrderlyWorld
  <2>2. /\ Heard(a)' /\ Original(a)' /\ Written(a)' /\ PendingIsFaded(a)'
        /\ Elsewhere(a)'
        /\ a \in DOMAIN orig =>
             \/ Wanted(a)'
             \/ a \in DOMAIN lastSet' /\ remembered'[a] = lastSet'[a]
             \/ a \notin DOMAIN lastSet' /\ Pended(a)'
        /\ a \notin Found => Wanted(a)' = Wanted(a)
        /\ n = RampSteps /\ a \in Found => Wanted(a)'
    BY <1>0, <1>1, <1>2, <2>1, SetAllRecord
  <2>3. a \notin todo /\ (a \in live => a \in DOMAIN orig /\ Wanted(a))
    BY <1>0 DEF RecordInv, OnRecord, PutBack, Forgetting
  <2>4. a \in live' => a \in DOMAIN orig /\ Wanted(a)'
    <3>1. live' = IF pass < RampSteps THEN {} ELSE live \cup Found
      BY DEF RampPass
    <3>2. QED
      BY <1>2, <2>2, <2>3, <3>1 DEF Found
  <2>5. CASE pass < RampSteps + LatePasses
    <3>1. mu' = "ramp" /\ UNCHANGED todo
      BY <1>0, <2>5 DEF RampPass
    <3>2. OnTheWay(a)' /\ PutBack(a)' /\ Forgetting(a)'
      BY <1>0, <2>2, <2>3, <2>4, <3>1 DEF OnTheWay, PutBack, Forgetting
    <3>3. QED
      BY <2>2, <3>2 DEF OnRecord
  <2>6. CASE ~(pass < RampSteps + LatePasses)
    <3>1. mu' = "forget" /\ todo' = Forsaken(live') /\ Found \subseteq live'
      BY <1>2, <2>6 DEF RampPass
    <3>2. a \in live' /\ a \in DOMAIN orig => Wanted(a)'
      BY <2>4
    <3> DEFINE back == live'
    <3>3. /\ mu' = "forget" /\ todo' = Forsaken(back) /\ Found \subseteq back
          /\ a \in back /\ a \in DOMAIN orig => Wanted(a)'
      BY <3>1, <3>2
    <3> HIDE DEF back
    <3>4. QED
      BY <1>0, <1>1, <1>3, <2>2, <3>3, ForsakenRecord
  <2>7. QED
    BY <2>5, <2>6
<1>5. QED
  BY <1>1, <1>4 DEF RecordInv

\* A repair holds the mutex, and works from what the daemon wrote.
LEMMA RepairAt ==
  ASSUME TypeInv, RecordInv, NEW b \in Apps, mu \in {"forget", "undo"},
         b \in todo
  PROVE  /\ up /\ file = orig /\ b \notin Live
         /\ b \in DOMAIN lastSet /\ b \in DOMAIN orig /\ b \in DOMAIN file
         /\ orig[b] \in chosen[b] /\ lastSet[b] < orig[b]
         /\ orig[b] \in Int /\ lastSet[b] \in Int /\ remembered[b] \in Int
         /\ lastSet[b] \notin UserVolumes[b]
<1>1. OnRecord(b) /\ up /\ file = orig
  BY DEF RecordInv, FileIsMemory
<1>2. b \in DOMAIN lastSet /\ lastSet[b] < orig[b] /\ b \notin Live
  BY <1>1 DEF OnRecord, Forgetting
<1>3. b \in DOMAIN orig
  BY <1>1, <1>2 DEF OnRecord, Written
<1>4. orig[b] \in chosen[b]
  BY <1>1, <1>3 DEF OnRecord, Original
<1>5. orig[b] \in Int /\ lastSet[b] \in Int /\ remembered[b] \in Int
  BY <1>2, <1>3, VolumesOf DEF TypeInv
<1>6. lastSet[b] \notin UserVolumes[b]
  BY <1>1, <1>2, <1>5 DEF OnRecord, Written
<1>7. QED
  BY <1>1, <1>2, <1>3, <1>4, <1>5, <1>6

LEMMA RepairRecord ==
  ASSUME TypeInv, RecordInv, NEW b \in Apps, Repair(b)
  PROVE  RecordInv'
<1>0. /\ mu \in {"forget", "undo"} /\ b \in todo /\ todo' = todo \ {b}
      /\ UNCHANGED <<stream, vol, chosen, up, orig, lastSet, file, pending, mu,
                     live>>
  BY DEF Repair, fadeVars
<1>1. FileIsMemory'
  BY <1>0 DEF RecordInv, FileIsMemory
<1>2. ASSUME NEW a \in Apps PROVE OnRecord(a)'
  <2>1. OnRecord(a)
    BY DEF RecordInv
  <2>2. a \in Live' <=> a \in Live
    BY <1>0 DEF Live
  <2>3. CASE a # b
    <3>1. remembered'[a] = remembered[a]
      BY <2>3 DEF Repair, TypeInv, TypeOK
    <3>2. a \in todo' <=> a \in todo
      BY <1>0, <2>3
    <3>3. QED
      BY <1>0, <2>1, <2>2, <3>1, <3>2
         DEF OnRecord, Wanted, Pended, Heard, Original, Written, PendingIsFaded,
             Elsewhere, OnTheWay, PutBack, Forgetting
  <2>4. CASE a = b
    <3>1. /\ up /\ file = orig /\ a \notin Live
          /\ a \in DOMAIN file /\ orig[a] \in chosen[a]
          /\ orig[a] \in Int /\ remembered[a] \in Int
      BY <1>0, <2>4, RepairAt
    <3>2. remembered'[a] = IF remembered[a] < orig[a] THEN orig[a]
                           ELSE remembered[a]
      BY <2>4 DEF Repair, TypeInv, TypeOK
    <3>3. remembered[a] \in chosen[a] \/ remembered[a] <= orig[a]
      BY <2>1, <3>1 DEF OnRecord, Original, Wanted
    <3>4. Wanted(a)'
      BY <1>0, <3>1, <3>2, <3>3 DEF Wanted
    <3>5. a \notin todo'
      BY <1>0, <2>4
    <3>6. QED
      BY <1>0, <2>1, <2>2, <3>1, <3>4, <3>5
         DEF OnRecord, Heard, Original, Written, PendingIsFaded, Elsewhere,
             OnTheWay, PutBack, Forgetting
  <2>5. QED
    BY <2>3, <2>4
<1>3. QED
  BY <1>1, <1>2 DEF RecordInv

LEMMA RepairFailsRecord ==
  ASSUME OrderlyWorld, TypeInv, RecordInv, NEW b \in Apps, RepairFails(b)
  PROVE  RecordInv'
<1>0. /\ mu = "forget" /\ b \in todo /\ todo' = todo \ {b}
      /\ UNCHANGED <<world, up, orig, lastSet, file, mu, live>>
      /\ pending' = [c \in DOMAIN pending \cup {b} |->
                       IF c = b THEN [orig |-> orig[b], faded |-> lastSet[b]]
                       ELSE pending[c]]
  BY DEF RepairFails, OrderlyWorld, fadeVars
<1>1. up /\ FileIsMemory'
  BY <1>0 DEF RecordInv, FileIsMemory
<1>2. ASSUME NEW a \in Apps PROVE OnRecord(a)'
  <2>1. OnRecord(a)
    BY DEF RecordInv
  <2>2. (a \in Live' <=> a \in Live) /\ Wanted(a)' = Wanted(a)
    BY <1>0 DEF Live, Wanted, world
  <2>3. CASE a # b
    <3>1. /\ a \in DOMAIN pending' <=> a \in DOMAIN pending
          /\ a \in DOMAIN pending => pending'[a] = pending[a]
      BY <1>0, <2>3
    <3>2. a \in todo' <=> a \in todo
      BY <1>0, <2>3
    <3>3. Pended(a)' = Pended(a)
      BY <1>0, <3>1 DEF Pended, world
    <3>4. QED
      BY <1>0, <2>1, <2>2, <3>1, <3>2, <3>3
         DEF OnRecord, Heard, Original, Written, PendingIsFaded, Elsewhere,
             OnTheWay, PutBack, Forgetting, world
  <2>4. CASE a = b
    <3>1. /\ a \in DOMAIN file /\ orig[a] \in chosen[a]
          /\ lastSet[a] < orig[a] /\ lastSet[a] \notin UserVolumes[a]
      BY <1>0, <2>4, RepairAt
    <3>2. /\ a \in DOMAIN pending' /\ pending'[a].orig = orig[a]
          /\ pending'[a].faded = lastSet[a]
      BY <1>0, <2>4
    <3>3. Wanted(a) \/ remembered[a] = lastSet[a]
      BY <1>0, <2>1, <2>4 DEF OnRecord, Forgetting
    <3>4. Wanted(a)' \/ Pended(a)'
      BY <1>0, <2>2, <3>1, <3>2, <3>3 DEF Pended, world
    <3>5. a \notin todo' /\ PendingIsFaded(a)'
      BY <1>0, <2>4, <3>1, <3>2 DEF PendingIsFaded
    <3>6. QED
      BY <1>0, <2>1, <2>2, <3>1, <3>4, <3>5
         DEF OnRecord, Heard, Original, Written, Elsewhere, OnTheWay, PutBack,
             Forgetting, world
  <2>5. QED
    BY <2>3, <2>4
<1>3. QED
  BY <1>1, <1>2 DEF RecordInv

LEMMA ForgetEndsRecord ==
  ASSUME TypeInv, RecordInv, ForgetEnds
  PROVE  RecordInv'
<1>0. /\ mu \in {"forget", "undo"} /\ todo = {} /\ mu' = "free" /\ live' = {}
      /\ orig' = Empty /\ lastSet' = Empty /\ file' = Empty
      /\ UNCHANGED <<world, up, pending, todo>> /\ DOMAIN Empty = {}
  BY DEF ForgetEnds, Empty
<1>1. up /\ file = orig /\ FileIsMemory'
  BY <1>0 DEF RecordInv, FileIsMemory
<1>2. ASSUME NEW a \in Apps PROVE OnRecord(a)'
  <2>1. OnRecord(a)
    BY DEF RecordInv
  <2>2. Wanted(a) \/ Pended(a)
    BY <1>0, <1>1, <2>1 DEF OnRecord, Elsewhere, Forgetting
  <2>3. Wanted(a)' = Wanted(a) /\ Pended(a)' = Pended(a)
    BY <1>0 DEF Wanted, Pended, world
  <2>4. QED
    BY <1>0, <2>1, <2>2, <2>3
       DEF OnRecord, Heard, Original, Written, PendingIsFaded, Elsewhere,
           OnTheWay, PutBack, Forgetting, world, Live
<1>3. QED
  BY <1>1, <1>2 DEF RecordInv

LEMMA FixPendingRecord ==
  ASSUME TypeInv, RecordInv, FixPending
  PROVE  RecordInv'
<1> DEFINE back == IF orig = Empty THEN {a \in Playing : Stale(a)} ELSE {}
           left == DOMAIN pending \ back
<1>0. /\ mu = "free" /\ DOMAIN Empty = {}
      /\ UNCHANGED <<stream, chosen, up, orig, lastSet, file, mu, live, todo>>
      /\ vol' = [a \in Apps |-> IF a \in back THEN pending[a].orig
                                ELSE vol[a]]
      /\ remembered' = [a \in Apps |-> IF a \in back THEN pending[a].orig
                                       ELSE remembered[a]]
      /\ pending' = [a \in left |-> pending[a]]
  BY DEF FixPending, fadeVars, muVars, Empty
<1>1. FileIsMemory'
  <2>1. ~up => pending' = Empty
    <3> SUFFICES ASSUME ~up PROVE pending' = Empty
      OBVIOUS
    <3>1. left = {}
      BY <1>0 DEF RecordInv, FileIsMemory
    <3> HIDE DEF left
    <3>2. QED
      BY <1>0, <3>1 DEF Empty
  <2>2. QED
    BY <1>0, <2>1 DEF RecordInv, FileIsMemory
<1>2. ASSUME NEW a \in Apps PROVE OnRecord(a)'
  <2>1. OnRecord(a) /\ FileIsMemory
    BY DEF RecordInv
  <2>2. a \in Live' <=> a \in Live
    BY <1>0 DEF Live
  <2>3. CASE a \in back
    <3>1. /\ orig = Empty /\ a \in Live /\ a \in DOMAIN pending
          /\ vol[a] = pending[a].faded
      BY <2>3 DEF Playing, Live, Stale
    <3>2. up /\ file = Empty
      BY <1>0, <2>1, <3>1 DEF FileIsMemory
    <3>3. /\ remembered[a] = pending[a].faded
          /\ pending[a].faded \notin UserVolumes[a]
          /\ chosen[a] \subseteq UserVolumes[a]
      BY <2>1, <3>1 DEF OnRecord, Heard, PendingIsFaded
    <3>4. Pended(a)
      BY <1>0, <2>1, <3>2, <3>3 DEF OnRecord, Elsewhere, Wanted
    <3>5. /\ vol'[a] = pending[a].orig /\ remembered'[a] = pending[a].orig
          /\ a \notin DOMAIN pending'
      BY <1>0, <2>3
    <3> HIDE DEF back, left
    <3>6. Wanted(a)'
      BY <1>0, <3>4, <3>5 DEF Wanted, Pended
    <3>7. a \notin DOMAIN orig /\ a \notin DOMAIN file
      BY <1>0, <3>1, <3>2
    <3>8. QED
      BY <1>0, <2>1, <2>2, <3>5, <3>6, <3>7
         DEF OnRecord, Heard, Original, Written, PendingIsFaded, Elsewhere,
             OnTheWay, PutBack, Forgetting
  <2>4. CASE a \notin back
    <3>1. /\ vol'[a] = vol[a] /\ remembered'[a] = remembered[a]
          /\ a \in DOMAIN pending' <=> a \in DOMAIN pending
          /\ a \in DOMAIN pending => pending'[a] = pending[a]
      BY <1>0, <2>4
    <3> HIDE DEF back, left
    <3>2. Wanted(a)' = Wanted(a) /\ Pended(a)' = Pended(a)
      BY <1>0, <3>1 DEF Wanted, Pended
    <3>3. QED
      BY <1>0, <2>1, <2>2, <3>1, <3>2
         DEF OnRecord, Heard, Original, Written, PendingIsFaded, Elsewhere,
             OnTheWay, PutBack, Forgetting
  <2>5. QED
    BY <2>3, <2>4
<1>3. QED
  BY <1>1, <1>2 DEF RecordInv

LEMMA CrashRecord ==
  ASSUME TypeInv, RecordInv, Crash
  PROVE  RecordInv'
<1>0. /\ DOMAIN pending \subseteq DOMAIN file /\ ~up' /\ DOMAIN Empty = {}
      /\ orig' = Empty /\ lastSet' = Empty /\ pending' = Empty /\ mu' = "free"
      /\ live' = {} /\ todo' = {} /\ UNCHANGED <<world, file>>
  BY DEF Crash, Empty
<1>1. FileIsMemory'
  BY <1>0 DEF FileIsMemory
<1>2. ASSUME NEW a \in Apps PROVE OnRecord(a)'
  <2>1. OnRecord(a)
    BY DEF RecordInv
  <2>2. a \notin DOMAIN file => Wanted(a)
    BY <1>0, <2>1 DEF OnRecord, Elsewhere, Pended
  <2>3. Wanted(a)' = Wanted(a)
    BY <1>0 DEF Wanted, world
  <2>4. QED
    BY <1>0, <2>1, <2>2, <2>3
       DEF OnRecord, Heard, Original, Written, PendingIsFaded, Elsewhere,
           OnTheWay, PutBack, Forgetting, world, Live
<1>3. QED
  BY <1>1, <1>2 DEF RecordInv

LEMMA StartRecord ==
  ASSUME TypeInv, RecordInv, Start
  PROVE  RecordInv'
<1>0. /\ ~up /\ up' /\ orig = Empty /\ lastSet = Empty /\ pending = Empty
      /\ mu = "free" /\ DOMAIN Empty = {} /\ TypeOK
      /\ UNCHANGED <<stream, chosen, file, pending, live>>
  BY DEF Start, RecordInv, FileIsMemory, Empty, TypeInv
<1>1. CASE file = Empty
  <2>1. UNCHANGED <<vol, remembered, orig, lastSet, mu, todo>>
    BY <1>1 DEF Start
  <2>2. FileIsMemory'
    BY <1>0, <1>1, <2>1 DEF FileIsMemory
  <2>3. ASSUME NEW a \in Apps PROVE OnRecord(a)'
    <3>1. OnRecord(a)
      BY DEF RecordInv
    <3>2. QED
      BY <1>0, <2>1, <3>1
         DEF OnRecord, Wanted, Pended, Heard, Original, Written, PendingIsFaded,
             Elsewhere, OnTheWay, PutBack, Forgetting, Live
  <2>4. QED
    BY <2>2, <2>3 DEF RecordInv
<1>2. CASE file # Empty
  <2>1. /\ vol' = [a \in Apps |-> IF a \in DOMAIN file \cap Live
                                     /\ vol[a] < file[a]
                                  THEN file[a] ELSE vol[a]]
        /\ remembered' = [a \in Apps |-> IF vol'[a] # vol[a] THEN vol'[a]
                                         ELSE remembered[a]]
        /\ orig' = file /\ mu' = "undo"
        /\ lastSet' = [a \in DOMAIN file |-> 0]
        /\ todo' = {a \in DOMAIN file \ Live : lastSet'[a] < file[a]}
    BY <1>2 DEF Start
  <2>2. FileIsMemory'
    BY <1>0, <2>1 DEF FileIsMemory
  <2>3. ASSUME NEW a \in Apps PROVE OnRecord(a)'
    <3>1. OnRecord(a)
      BY DEF RecordInv
    <3>2. /\ vol[a] \in Int /\ remembered[a] \in Int
          /\ a \in DOMAIN file => file[a] \in Int /\ file[a] >= 0
          /\ \A v \in UserVolumes[a] : 0 < v
      BY <1>0, VolumesOf
    <3>3. /\ a \in Live' <=> a \in Live
          /\ a \in DOMAIN pending' <=> a \in DOMAIN pending
          /\ a \in Live => vol[a] = remembered[a]
          /\ chosen[a] \subseteq UserVolumes[a] /\ chosen'[a] = chosen[a]
          /\ a \notin live
      BY <1>0, <3>1 DEF Live, OnRecord, Heard, PutBack
    <3>4. CASE a \notin DOMAIN file
      <4>1. /\ vol'[a] = vol[a] /\ remembered'[a] = remembered[a]
            /\ a \notin DOMAIN orig' /\ a \notin DOMAIN lastSet'
            /\ a \notin todo'
        BY <2>1, <3>4
      <4>2. Wanted(a)' = Wanted(a) /\ Pended(a)' = Pended(a)
        BY <1>0, <4>1 DEF Wanted, Pended
      <4>3. QED
        BY <1>0, <2>1, <3>1, <3>3, <3>4, <4>1, <4>2
           DEF OnRecord, Heard, Original, Written, PendingIsFaded, Elsewhere,
               OnTheWay, PutBack, Forgetting
    <3>5. CASE a \in DOMAIN file
      <4>1. file[a] \in chosen[a] /\ (Wanted(a) \/ remembered[a] <= file[a])
        BY <3>1, <3>5 DEF OnRecord, Original
      <4>2. 0 < file[a] /\ 0 \notin UserVolumes[a] /\ file[a] \in Int
        BY <3>2, <3>3, <3>5, <4>1
      <4>3. a \in DOMAIN lastSet' /\ lastSet'[a] = 0 /\ a \in DOMAIN orig'
        BY <2>1, <3>5
      <4>4. a \in todo' <=> a \notin Live
        BY <2>1, <3>5, <4>2, <4>3
      <4>5. CASE a \in Live
        <5>1. vol'[a] = IF vol[a] < file[a] THEN file[a] ELSE vol[a]
          BY <2>1, <3>5, <4>5
        <5>2. remembered'[a] = vol'[a]
          BY <2>1, <3>3, <4>5
        <5>3. vol[a] < file[a] \/ vol[a] \in chosen[a]
          BY <3>2, <3>3, <4>1, <4>2, <4>5 DEF Wanted
        <5>4. Wanted(a)'
          BY <3>3, <4>1, <5>1, <5>2, <5>3 DEF Wanted
        <5>5. QED
          BY <1>0, <2>1, <3>1, <3>3, <3>5, <4>1, <4>2, <4>3, <4>4, <4>5, <5>2,
             <5>4
             DEF OnRecord, Heard, Original, Written, PendingIsFaded, Elsewhere,
                 OnTheWay, PutBack, Forgetting
      <4>6. CASE a \notin Live
        <5>1. vol'[a] = vol[a]
          BY <2>1, <4>6
        <5>2. remembered'[a] = remembered[a]
          BY <2>1, <5>1
        <5>3. Wanted(a)' = Wanted(a)
          BY <3>3, <5>2 DEF Wanted
        <5>4. QED
          BY <1>0, <2>1, <3>1, <3>3, <3>5, <4>1, <4>2, <4>3, <4>4, <4>6, <5>2,
             <5>3
             DEF OnRecord, Heard, Original, Written, PendingIsFaded, Elsewhere,
                 OnTheWay, PutBack, Forgetting
      <4>7. QED
        BY <4>5, <4>6
    <3>6. QED
      BY <3>4, <3>5
  <2>4. QED
    BY <2>2, <2>3 DEF RecordInv
<1>3. QED
  BY <1>1, <1>2

LEMMA StreamRecord ==
  ASSUME OrderlyWorld, TypeInv, RecordInv, NEW b \in Apps,
         Open(b) \/ Close(b) \/ Cork(b)
  PROVE  RecordInv'
<1>0. /\ UNCHANGED <<remembered, chosen, up, orig, lastSet, file, pending, mu,
                     live, todo>>
      /\ TypeOK
  BY DEF Open, Close, Cork, fadeVars, muVars, TypeInv
<1>1. FileIsMemory'
  BY <1>0 DEF RecordInv, FileIsMemory
<1>2. ASSUME NEW a \in Apps PROVE OnRecord(a)'
  <2>1. OnRecord(a)
    BY DEF RecordInv
  <2>2. Wanted(a)' = Wanted(a) /\ Pended(a)' = Pended(a)
    BY <1>0 DEF Wanted, Pended
  <2>3. /\ a \in Live' => vol'[a] = remembered'[a]
        /\ a \in todo /\ a \notin Live => a \notin Live'
    <3>1. CASE Open(b)
      <4>1. stream' = [stream EXCEPT ![b] = "playing"]
        BY <3>1 DEF Open
      <4>2. vol' = [vol EXCEPT ![b] = remembered[b]] /\ b \notin todo
        BY <3>1 DEF Open, OrderlyWorld
      <4>3. QED
        BY <1>0, <2>1, <4>1, <4>2 DEF Live, OnRecord, Heard, TypeOK
    <3>2. CASE Close(b)
      <4>1. stream' = [stream EXCEPT ![b] = "none"] /\ vol' = [vol EXCEPT ![b] = 0]
        BY <3>2 DEF Close
      <4>2. QED
        BY <1>0, <2>1, <4>1 DEF Live, OnRecord, Heard, TypeOK
    <3>3. CASE Cork(b)
      <4>1. stream' = [stream EXCEPT ![b] =
                         IF @ = "playing" THEN "corked" ELSE "playing"]
        BY <3>3 DEF Cork
      <4>2. UNCHANGED vol /\ b \in Live
        BY <3>3 DEF Cork
      <4>3. QED
        BY <1>0, <2>1, <4>1, <4>2 DEF Live, OnRecord, Heard, TypeOK
    <3>4. QED
      BY <3>1, <3>2, <3>3
  <2>4. QED
    BY <1>0, <2>1, <2>2, <2>3
       DEF OnRecord, Heard, Original, Written, PendingIsFaded, Elsewhere,
           OnTheWay, PutBack, Forgetting
<1>3. QED
  BY <1>1, <1>2 DEF RecordInv

LEMMA UserRecord ==
  ASSUME TypeInv, RecordInv, NEW b \in Apps, NEW v \in UserVolumes[b],
         UserSets(b, v)
  PROVE  RecordInv'
<1>0. /\ UNCHANGED <<stream, up, orig, lastSet, file, pending, mu, live, todo>>
      /\ TypeOK /\ b \in Live
  BY DEF UserSets, fadeVars, muVars, TypeInv
<1>1. FileIsMemory'
  BY <1>0 DEF RecordInv, FileIsMemory
<1>2. ASSUME NEW a \in Apps PROVE OnRecord(a)'
  <2>1. OnRecord(a)
    BY DEF RecordInv
  <2>2. a \in Live' <=> a \in Live
    BY <1>0 DEF Live
  <2>3. CASE a # b
    <3>1. /\ vol'[a] = vol[a] /\ remembered'[a] = remembered[a]
          /\ chosen'[a] = chosen[a]
      BY <1>0, <2>3 DEF UserSets, TypeOK
    <3>2. Wanted(a)' = Wanted(a) /\ Pended(a)' = Pended(a)
      BY <1>0, <3>1 DEF Wanted, Pended
    <3>3. QED
      BY <1>0, <2>1, <2>2, <3>1, <3>2
         DEF OnRecord, Heard, Original, Written, PendingIsFaded, Elsewhere,
             OnTheWay, PutBack, Forgetting
  <2>4. CASE a = b
    <3>1. /\ vol'[a] = v /\ remembered'[a] = v
          /\ chosen'[a] = IF a \in DOMAIN orig \cup DOMAIN file
                          THEN chosen[a] \cup {v} ELSE {v}
      BY <1>0, <2>4 DEF UserSets, TypeOK
    <3>2. Wanted(a)' /\ chosen'[a] \subseteq UserVolumes[a]
      BY <2>1, <2>4, <3>1 DEF Wanted, OnRecord, Heard
    <3>3. a \in DOMAIN file => file'[a] \in chosen'[a]
      BY <1>0, <2>1, <3>1 DEF OnRecord, Original
    <3>4. QED
      BY <1>0, <2>1, <2>2, <2>4, <3>1, <3>2, <3>3
         DEF OnRecord, Heard, Original, Written, PendingIsFaded, Elsewhere,
             OnTheWay, PutBack, Forgetting
  <2>5. QED
    BY <2>3, <2>4
<1>3. QED
  BY <1>1, <1>2 DEF RecordInv

LEMMA NextRecord ==
  OrderlyWorld /\ TypeInv /\ RecordInv /\ [Next]_vars => RecordInv'
<1> SUFFICES ASSUME OrderlyWorld, TypeInv, RecordInv, [Next]_vars
             PROVE  RecordInv'
  OBVIOUS
<1>b. ASSUME UNCHANGED <<stream, vol, remembered, chosen, up, orig, lastSet,
                         file, pending, mu, live, todo>>
      PROVE  RecordInv'
  <2>1. FileIsMemory'
    BY <1>b DEF RecordInv, FileIsMemory
  <2>2. ASSUME NEW a \in Apps PROVE OnRecord(a)'
    <3>1. OnRecord(a)
      BY DEF RecordInv
    <3>2. QED
      BY <1>b, <3>1
         DEF OnRecord, Wanted, Pended, Heard, Original, Written, PendingIsFaded,
             Elsewhere, OnTheWay, PutBack, Forgetting, Live
  <2>3. QED
    BY <2>1, <2>2 DEF RecordInv
<1>1. ASSUME NEW l \in 0..Depth, Apply(l) PROVE RecordInv'
  BY <1>1, ApplyRecord
<1>2. CASE FadeTo
  BY <1>2, FadeRecord
<1>3. CASE RampTakes
  <2>1. CASE orig = Empty
    BY <1>3, <2>1, <1>b DEF RampTakes, world
  <2>2. CASE orig # Empty
    <3>0. /\ mu = "free" /\ mu' = "ramp"
          /\ UNCHANGED <<world, up, orig, lastSet, file, pending, live, todo>>
      BY <1>3, <2>2 DEF RampTakes
    <3>1. FileIsMemory'
      BY <1>3, <3>0 DEF RampTakes, RecordInv, FileIsMemory
    <3>2. ASSUME NEW a \in Apps PROVE OnRecord(a)'
      <4>1. OnRecord(a)
        BY DEF RecordInv
      <4>2. QED
        BY <3>0, <4>1
           DEF OnRecord, Wanted, Pended, Heard, Original, Written,
               PendingIsFaded, Elsewhere, OnTheWay, PutBack, Forgetting, Live,
               world
    <3>3. QED
      BY <3>1, <3>2 DEF RecordInv
  <2>3. QED
    BY <2>1, <2>2
<1>4. CASE RampPass
  BY <1>4, RampRecord
<1>5. ASSUME NEW a \in Apps, Repair(a) PROVE RecordInv'
  BY <1>5, RepairRecord
<1>6. ASSUME NEW a \in Apps, RepairFails(a) PROVE RecordInv'
  BY <1>6, RepairFailsRecord
<1>7. CASE ForgetEnds
  BY <1>7, ForgetEndsRecord
<1>8. CASE FixPending
  BY <1>8, FixPendingRecord
<1>9. CASE CountPending \/ WatchDies \/ WatchEnds \/ WatchRetries
  BY <1>9, <1>b
     DEF CountPending, WatchDies, WatchEnds, WatchRetries, world, fadeVars,
         muVars
<1>10. CASE Crash
  BY <1>10, CrashRecord
<1>11. CASE Start
  BY <1>11, StartRecord
<1>12. ASSUME NEW a \in Apps, Open(a) \/ Close(a) \/ Cork(a) PROVE RecordInv'
  BY <1>12, StreamRecord
<1>13. ASSUME NEW a \in Apps, NEW v \in UserVolumes[a], UserSets(a, v)
       PROVE  RecordInv'
  BY <1>13, UserRecord
<1>14. CASE UNCHANGED vars
  BY <1>14, <1>b DEF vars, world, fadeVars, muVars
<1>15. QED
  BY <1>1, <1>2, <1>3, <1>4, <1>5, <1>6, <1>7, <1>8, <1>9, <1>10, <1>11,
     <1>12, <1>13, <1>14 DEF Next

\* Wherever the daemon is stopped, crashed or interrupted, for any number of
\* applications, users and steps of the ramp: a volume nobody chose that
\* stream-restore would hand to an application is on record with one somebody
\* did choose (audio.go:36-48, 168-187, 255-283).
THEOREM EveryFadeIsRemembered == OrderlyWorld => (Spec => []EveryFadeIsOnRecord)
<1>1. OrderlyWorld /\ Init => OrderlyWorld /\ RecordInv
  BY InitRecord
<1>2. OrderlyWorld /\ RecordInv /\ TypeInv /\ [Next]_vars
        => (OrderlyWorld /\ RecordInv)'
  <2>1. OrderlyWorld => OrderlyWorld'
    BY DEF OrderlyWorld, Scaled
  <2>2. QED
    BY <2>1, NextRecord
<1>3. RecordInv => EveryFadeIsOnRecord
  <2> SUFFICES ASSUME RecordInv, NEW a \in Apps, remembered[a] \notin chosen[a]
               PROVE  \/ a \in DOMAIN file /\ file[a] \in chosen[a]
                      \/ /\ a \in DOMAIN pending /\ pending[a].orig \in chosen[a]
                         /\ pending[a].faded = remembered[a]
    BY DEF EveryFadeIsOnRecord
  <2>1. OnRecord(a)
    BY DEF RecordInv
  <2>2. CASE a \in DOMAIN file
    BY <2>1, <2>2 DEF OnRecord, Original
  <2>3. CASE a \notin DOMAIN file
    BY <2>1, <2>3 DEF OnRecord, Elsewhere, Wanted, Pended
  <2>4. QED
    BY <2>2, <2>3
<1>4. QED
  BY <1>1, <1>2, <1>3, TypeInvariant, PTL DEF Spec
=============================================================================
