---------------------------- MODULE SensorProofs ----------------------------
(***************************************************************************)
(* What the readers of the two sensors guarantee: that of the ToF sensor   *)
(* for any readings, any channel to the main loop and any of the things    *)
(* that may happen to it, that of the radar for a tty of any size and any  *)
(* bytes lost, as long as these are fewer than a frame has.                *)
(*                                                                         *)
(* A daemon runs one of them, and a step of the one leaves the state of    *)
(* the other alone, so each has an invariant of its own: ToFInv below, and *)
(* RadarInv, which rests on what Feed's loop finds (FoundGets) in bytes    *)
(* that are what the sensor sent, in its order, less a few (Traced).       *)
(***************************************************************************)
EXTENDS Sensors, FiniteSetTheorems, WellFoundedInduction, SequenceTheorems,
        TLAPS

-----------------------------------------------------------------------------
(* The reader of the ToF sensor *)

\* Where readToF is when it has switched the sensor off, or not yet on.
HasItOff == {"check", "wait", "after", "nap", "done"}

OffBetweenSessions == reader \in HasItOff => ~enabled

\* main does not return before readToF has.
ReaderFirst == process = "stopped" => reader = "done"

ToFInv == ToF!TypeOK /\ OffBetweenSessions /\ ReaderFirst

\* The channel to the main loop, as sequences see it.
LEMMA Channel ==
  ToF!TypeOK => frames \in Seq(Readings) /\ Len(frames) <= Room
<1> SUFFICES ASSUME ToF!TypeOK
             PROVE  frames \in Seq(Readings) /\ Len(frames) <= Room
  OBVIOUS
<1>1. PICK n \in 0..Room : frames \in [1..n -> Readings]
  BY DEF ToF!TypeOK
<1>2. QED
  BY <1>1, SensorsAssumption DEF ToF!ToFAssumption

LEMMA ChannelType ==
  ASSUME NEW s \in Seq(Readings), Len(s) <= Room
  PROVE  s \in UNION {[1..n -> Readings] : n \in 0..Room}
<1>1. Len(s) \in 0..Room /\ s \in [1..Len(s) -> Readings]
  BY SensorsAssumption DEF ToF!ToFAssumption
<1>2. QED
  BY <1>1

LEMMA SentFits ==
  ASSUME ToF!TypeOK, NEW r \in Readings
  PROVE  ToF!Sent(r) \in UNION {[1..n -> Readings] : n \in 0..Room}
<1>1. frames \in Seq(Readings) /\ Len(frames) <= Room
  BY Channel
<1>2. ToF!Sent(r) \in Seq(Readings) /\ Len(ToF!Sent(r)) <= Room
  BY <1>1, SensorsAssumption DEF ToF!Sent, ToF!ToFAssumption
<1>3. QED
  BY <1>2, ChannelType

LEMMA TakenFits ==
  ASSUME ToF!TypeOK, frames # <<>>
  PROVE  /\ Head(frames) \in Readings
         /\ Tail(frames) \in UNION {[1..n -> Readings] : n \in 0..Room}
<1>1. frames \in Seq(Readings) /\ Len(frames) <= Room
  BY Channel
<1>2. /\ Head(frames) \in Readings
      /\ Tail(frames) \in Seq(Readings) /\ Len(Tail(frames)) <= Room
  BY <1>1, SensorsAssumption DEF ToF!ToFAssumption
<1>3. QED
  BY <1>2, ChannelType

-----------------------------------------------------------------------------
LEMMA ToFInvInit == ReadersInit => ToFInv
<1>1. <<>> \in UNION {[1..n -> Readings] : n \in 0..Room}
  BY ChannelType, SensorsAssumption DEF ToF!ToFAssumption
<1>2. ToF!Init => ToFInv
  BY <1>1 DEF ToF!Init, ToFInv, ToF!TypeOK, ToF!Reading, OffBetweenSessions,
              ReaderFirst, HasItOff
<1>3. ToF!Unused => ToFInv
  BY <1>1 DEF ToF!Unused, ToFInv, ToF!TypeOK, ToF!Reading, OffBetweenSessions,
              ReaderFirst, HasItOff
<1>4. QED
  BY <1>2, <1>3 DEF ReadersInit

LEMMA ToFStepKeeps ==
  ASSUME ToFInv, ToF!Next
  PROVE  ToFInv'
<1> USE DEF ToFInv, OffBetweenSessions, ReaderFirst, HasItOff, ToF!TypeOK,
            ToF!Reading, ToF!Running, ToF!gateVars, ToF!sessionVars,
            ToF!streamVars, ToF!Reader
<1>1. ASSUME NEW open \in BOOLEAN, ToF!Set(open) PROVE ToFInv'
  BY <1>1 DEF ToF!Set
<1>2. CASE ToF!Take
  <2>1. /\ heard' \in Readings
        /\ frames' \in UNION {[1..n -> Readings] : n \in 0..Room}
    BY <1>2, TakenFits DEF ToF!Take
  <2>2. QED
    BY <1>2, <2>1 DEF ToF!Take
<1>3. CASE ToF!Check
  BY <1>3 DEF ToF!Check
<1>4. CASE ToF!Woken
  BY <1>4 DEF ToF!Woken
<1>5. CASE ToF!Enable
  BY <1>5 DEF ToF!Enable
<1>6. CASE ToF!NotFound
  BY <1>6 DEF ToF!NotFound
<1>7. CASE ToF!Open
  BY <1>7 DEF ToF!Open
<1>8. CASE ToF!OpenFails
  BY <1>8 DEF ToF!OpenFails
<1>9. CASE ToF!Close
  BY <1>9 DEF ToF!Close
<1>10. CASE ToF!After
  BY <1>10 DEF ToF!After
<1>11. CASE ToF!NapEnds
  BY <1>11 DEF ToF!NapEnds
<1>12. CASE ToF!WatcherTakes
  BY <1>12 DEF ToF!WatcherTakes
<1>13. CASE ToF!WatcherLooks
  BY <1>13 DEF ToF!WatcherLooks
<1>14. CASE ToF!WatcherEnds
  BY <1>14 DEF ToF!WatcherEnds
<1>15. ASSUME NEW r \in Readings, ToF!Sample(r) PROVE ToFInv'
  <2>1. frames' \in UNION {[1..n -> Readings] : n \in 0..Room}
    BY <1>15, SentFits DEF ToF!Sample
  <2>2. QED
    BY <1>15, <2>1 DEF ToF!Sample
<1>16. CASE ToF!Beat
  <2>1. frames' \in UNION {[1..n -> Readings] : n \in 0..Room}
    BY <1>16, SentFits DEF ToF!Beat
  <2>2. QED
    BY <1>16, <2>1 DEF ToF!Beat
<1>17. CASE ToF!StreamEnds
  BY <1>17 DEF ToF!StreamEnds
<1>18. CASE ToF!ReadFails
  BY <1>18 DEF ToF!ReadFails
<1>19. CASE ToF!Stop
  BY <1>19 DEF ToF!Stop
<1>20. CASE ToF!Exit
  BY <1>20 DEF ToF!Exit
<1>21. CASE ToF!Kill
  BY <1>21 DEF ToF!Kill
<1>22. CASE ToF!Start
  <2>1. <<>> \in UNION {[1..n -> Readings] : n \in 0..Room}
    BY ChannelType, SensorsAssumption DEF ToF!ToFAssumption
  <2>2. QED
    BY <1>22, <2>1 DEF ToF!Start
<1>23. QED
  BY <1>1, <1>2, <1>3, <1>4, <1>5, <1>6, <1>7, <1>8, <1>9, <1>10, <1>11,
     <1>12, <1>13, <1>14, <1>15, <1>16, <1>17, <1>18, <1>19, <1>20, <1>21,
     <1>22 DEF ToF!Next

LEMMA ToFInvStep == ToFInv /\ [ReadersNext]_allVars => ToFInv'
<1> SUFFICES ASSUME ToFInv, [ReadersNext]_allVars PROVE ToFInv'
  OBVIOUS
<1>1. CASE ToF!Next
  BY <1>1, ToFStepKeeps
<1>2. CASE UNCHANGED tofVars
  BY <1>2 DEF ToFInv, OffBetweenSessions, ReaderFirst, ToF!TypeOK, tofVars
<1>3. QED
  BY <1>1, <1>2 DEF ReadersNext, allVars

\* The invariant of the ToF sensor's reader, its gate and its session
\* (tof.go:118-260).
THEOREM ToFInvariant == FairSpec => []ToFInv
<1>1. QED
  BY ToFInvInit, ToFInvStep, PTL DEF FairSpec

\* The ToF sensor's variables keep their types; in particular the channel to
\* the main loop never holds more than it has room for (main.go's frames,
\* tof.go:250).
THEOREM ToFTypeCorrect == FairSpec => []ToF!TypeOK
<1>1. ToFInv => ToF!TypeOK
  BY DEF ToFInv
<1>2. QED
  BY <1>1, ToFInvariant, PTL

\* A daemon that was stopped leaves the ToF sensor off: whatever readToF was
\* doing when the signal came, whatever failed, and whatever state a killed
\* daemon had left the switch in (main.go:150, tof.go:203).
THEOREM StoppedSwitchesOff == FairSpec => []StoppedLeavesItOff
<1>1. ToFInv => StoppedLeavesItOff
  BY DEF ToFInv, OffBetweenSessions, ReaderFirst, HasItOff,
         StoppedLeavesItOff, ToF!StoppedLeavesItOff
<1>2. QED
  BY <1>1, ToFInvariant, PTL

-----------------------------------------------------------------------------
(* Least and greatest *)

\* Neither Found nor First is recursive over data the provers can follow: what
\* they use of the naturals is that a set of them has a least element.
LEMMA HasLeast ==
  ASSUME NEW n \in Nat, NEW U \in SUBSET (1..n), U # {}
  PROVE  \E x \in U : \A y \in U : x <= y
<1> DEFINE Below == {1..x : x \in U}
<1>1. \A x \in U : IsFiniteSet(1..x) /\ 1..x \subseteq 1..n
  BY FS_Interval
<1>2. Below \subseteq FiniteSubsetsOf(1..n) /\ Below # {}
  BY <1>1 DEF FiniteSubsetsOf
<1>3. \E b \in Below : \A c \in Below : ~(<<c, b>> \in StrictSubsetOrdering(1..n))
  <2> HIDE DEF Below
  <2> QED
    BY <1>2, FS_StrictSubsetOrderingWellFounded, WFMin
<1>4. PICK x \in U : \A y \in U : ~(<<1..y, 1..x>> \in StrictSubsetOrdering(1..n))
  BY <1>3
<1>5. ASSUME NEW y \in U, ~(x <= y) PROVE FALSE
  <2>1. 1..y \subseteq 1..x /\ 1..x \subseteq 1..n
    BY <1>5
  <2>2. x \in 1..x /\ x \notin 1..y
    BY <1>5
  <2>3. <<1..y, 1..x>> \in StrictSubsetOrdering(1..n)
    BY <2>1, <2>2 DEF StrictSubsetOrdering
  <2>4. QED
    BY <1>4, <2>3
<1>6. QED
  BY <1>5

LEMMA HasGreatest ==
  ASSUME NEW n \in Nat, NEW U \in SUBSET (1..n), U # {}
  PROVE  \E x \in U : \A y \in U : y <= x
<1> DEFINE Turned == {n + 1 - x : x \in U}
<1>1. Turned \in SUBSET (1..n) /\ Turned # {}
  <2>1. \A x \in U : x \in 1..n /\ n + 1 - x \in 1..n
    OBVIOUS
  <2>2. QED
    BY <2>1
<1>2. \E z \in Turned : \A y \in Turned : z <= y
  <2> HIDE DEF Turned
  <2> QED
    BY <1>1, HasLeast
<1>3. PICK x \in U : \A y \in U : n + 1 - x <= n + 1 - y
  BY <1>2
<1>4. QED
  BY <1>3

-----------------------------------------------------------------------------
(* The wire format *)

Symbols == {"F4", "F3", "F8", "F7", "type", "AA", "datum", "gates"} \cup Kinds

Bytes == [is : Symbols, of : Nat]

LEMMA WireAt ==
  ASSUME NEW k \in Kinds, NEW p \in 1..WireLength(k)
  PROVE  Wire(k)[p] = IF p <= 3 THEN <<"F4", "F3", k>>[p]
                      ELSE IF p <= WireLength(k) - 2 THEN Payload(k)[p - 3]
                      ELSE <<"F8", "F7">>[p - WireLength(k) + 2]
<1> DEFINE head == <<"F4", "F3", k>>
<1> DEFINE load == Payload(k)
<1> DEFINE foot == <<"F8", "F7">>
<1>1. /\ head \in Seq(Symbols) /\ Len(head) = 3
      /\ foot \in Seq(Symbols) /\ Len(foot) = 2
  BY DEF Symbols
<1>2. load \in Seq(Symbols) /\ Len(load) = WireLength(k) - 5
  <2>1. CASE k = "basic"
    BY <2>1 DEF Symbols, Payload, WireLength
  <2>2. CASE k = "engineering"
    BY <2>2 DEF Symbols, Payload, WireLength
  <2>3. QED
    BY <2>1, <2>2 DEF Kinds
<1>3. WireLength(k) \in 8..9
  BY DEF WireLength
<1> HIDE DEF head, load, foot
<1>4. /\ head \o load \in Seq(Symbols)
      /\ Len(head \o load) = WireLength(k) - 2
      /\ \A i \in 1..(WireLength(k) - 2) :
           (head \o load)[i] = IF i <= 3 THEN head[i] ELSE load[i - 3]
  <2>1. /\ head \o load \in Seq(Symbols)
        /\ Len(head \o load) = Len(head) + Len(load)
        /\ \A i \in 1..(Len(head) + Len(load)) :
             (head \o load)[i] =
               IF i <= Len(head) THEN head[i] ELSE load[i - Len(head)]
    BY <1>1, <1>2, ConcatProperties
  <2>2. Len(head) + Len(load) = WireLength(k) - 2
    BY <1>1, <1>2, <1>3
  <2>3. QED
    BY <1>1, <2>1, <2>2
<1>5. \A i \in 1..WireLength(k) :
        ((head \o load) \o foot)[i] =
          IF i <= WireLength(k) - 2 THEN (head \o load)[i]
          ELSE foot[i - (WireLength(k) - 2)]
  <2> DEFINE front == head \o load
  <2>1. front \in Seq(Symbols) /\ Len(front) = WireLength(k) - 2
    BY <1>4
  <2> HIDE DEF front
  <2>2. \A i \in 1..(Len(front) + Len(foot)) :
          (front \o foot)[i] =
            IF i <= Len(front) THEN front[i] ELSE foot[i - Len(front)]
    BY <1>1, <2>1, ConcatProperties
  <2>3. \A i \in 1..WireLength(k) :
          (front \o foot)[i] =
            IF i <= WireLength(k) - 2 THEN front[i]
            ELSE foot[i - (WireLength(k) - 2)]
    <3>1. Len(front) + Len(foot) = WireLength(k)
      BY <1>1, <1>3, <2>1
    <3>2. QED
      BY <2>1, <2>2, <3>1
  <2>4. QED
    BY <2>3 DEF front
<1>6. Wire(k) = (head \o load) \o foot
  BY DEF Wire, head, load, foot
<1>7. p - (WireLength(k) - 2) = p - WireLength(k) + 2
  BY <1>3
<1>8. p \in 1..(WireLength(k) - 2) \/ ~(p <= WireLength(k) - 2)
  BY <1>3
<1>9. p <= 3 => p <= WireLength(k) - 2
  BY <1>3
<1>10. Wire(k)[p] = IF p <= WireLength(k) - 2 THEN (head \o load)[p]
                   ELSE foot[p - (WireLength(k) - 2)]
  BY <1>5, <1>6
<1>11. p <= WireLength(k) - 2 =>
         (head \o load)[p] = IF p <= 3 THEN head[p] ELSE load[p - 3]
  BY <1>4, <1>8
<1>12. QED
  BY <1>7, <1>9, <1>10, <1>11 DEF head, load, foot

LEMMA WireFacts ==
  ASSUME NEW k \in Kinds
  PROVE  /\ WireLength(k) \in 8..9
         /\ \A p \in 1..WireLength(k) :
              /\ Wire(k)[p] \in Symbols
              /\ Wire(k)[p] = "F4" <=> p = 1
              /\ Wire(k)[p] = "F3" <=> p = 2
              /\ Wire(k)[p] = "AA" <=> p = 5
              /\ Wire(k)[p] = "F8" <=> p = WireLength(k) - 1
              /\ Wire(k)[p] = "F7" <=> p = WireLength(k)
              /\ Wire(k)[p] \in Kinds <=> p = 3
         /\ Wire(k)[3] = k
<1>1. CASE k = "basic"
  BY <1>1, WireAt, SMTT(30) DEF WireLength, Kinds, Symbols, Payload
<1>2. CASE k = "engineering"
  BY <1>2, WireAt, SMTT(30) DEF WireLength, Kinds, Symbols, Payload
<1>3. QED
  BY <1>1, <1>2 DEF Kinds

-----------------------------------------------------------------------------
(* What Feed's loop finds *)

\* A header at place h, and the kind of frame it announces.
HeaderAt(bytes, h) ==
  h \in 1..(Len(bytes) - 1) /\ bytes[h].is = "F4" /\ bytes[h + 1].is = "F3"

KindAt(bytes, h, k) == h + 2 <= Len(bytes) /\ bytes[h + 2].is = k

LEMMA SaysHeader ==
  ASSUME NEW bytes \in Seq(Bytes), NEW h \in Nat \ {0}
  PROVE  SaysAt(bytes, h, Header) <=> HeaderAt(bytes, h)
<1>1. Len(Header) = 2 /\ Header[1] = "F4" /\ Header[2] = "F3"
  BY DEF Header
<1>2. 1..2 = {1, 2} /\ h + 1 - 1 = h /\ h + 2 - 1 = h + 1
  OBVIOUS
<1>3. Len(bytes) \in Nat
  OBVIOUS
<1>4. SaysAt(bytes, h, Header) <=>
        /\ h + 2 <= Len(bytes) + 1
        /\ bytes[h].is = "F4" /\ bytes[h + 1].is = "F3"
  BY <1>1, <1>2 DEF SaysAt
<1>5. h + 2 <= Len(bytes) + 1 <=> h \in 1..(Len(bytes) - 1)
  BY <1>3
<1>6. QED
  BY <1>4, <1>5 DEF HeaderAt

LEMMA AnnouncedIs ==
  ASSUME NEW bytes \in Seq(Bytes), NEW h \in Nat
  PROVE  Announced(bytes, h) = {k \in Kinds : KindAt(bytes, h, k)}
<1>1. ASSUME NEW k \in Kinds
      PROVE  SaysAt(bytes, h + 2, <<k>>) <=> KindAt(bytes, h, k)
  <2>1. Len(<<k>>) = 1 /\ <<k>>[1] = k /\ 1..1 = {1}
    OBVIOUS
  <2>2. h + 2 + 1 - 1 = h + 2 /\ (h + 2 + 1 <= Len(bytes) + 1 <=> h + 2 <= Len(bytes))
    OBVIOUS
  <2>3. QED
    BY <2>1, <2>2 DEF SaysAt, KindAt
<1>2. QED
  BY <1>1 DEF Announced

LEMMA AheadIs ==
  ASSUME NEW bytes \in Seq(Bytes), NEW i \in 1..(Len(bytes) + 1)
  PROVE  /\ Ahead(bytes, i) \in i..(Len(bytes) + 1)
         /\ Ahead(bytes, i) <= Len(bytes) => HeaderAt(bytes, Ahead(bytes, i))
         /\ \A h \in i..Len(bytes) :
              HeaderAt(bytes, h) => Ahead(bytes, i) <= h
<1> DEFINE Heads == {h \in i..Len(bytes) : SaysAt(bytes, h, Header)}
<1> DEFINE Stops == {Len(bytes) + 1} \cup Heads
<1>1. Len(bytes) \in Nat
  OBVIOUS
<1>2. Heads \subseteq i..Len(bytes) /\ i \in 1..(Len(bytes) + 1)
  OBVIOUS
<1>3. Stops \subseteq i..(Len(bytes) + 1) /\ Len(bytes) + 1 \in Stops
      /\ Stops \in SUBSET (1..(Len(bytes) + 1)) /\ Stops # {}
  <2> HIDE DEF Heads
  <2>1. ASSUME NEW x \in Stops PROVE x \in i..(Len(bytes) + 1)
    BY <1>1, <1>2
  <2>2. i..(Len(bytes) + 1) \subseteq 1..(Len(bytes) + 1)
    BY <1>1
  <2>3. QED
    BY <2>1, <2>2
<1>4. \E x \in Stops : \A y \in Stops : x <= y
  <2> HIDE DEF Stops
  <2>1. QED
    <3>1. Len(bytes) + 1 \in Nat
      BY <1>1
    <3>2. QED
      BY <1>3, <3>1, HasLeast
<1>5. Ahead(bytes, i) = CHOOSE x \in Stops : \A y \in Stops : x <= y
  BY DEF Ahead, First
<1>6. Ahead(bytes, i) \in Stops /\ \A y \in Stops : Ahead(bytes, i) <= y
  <2> HIDE DEF Stops
  <2> QED
    BY <1>4, <1>5
<1>7. Ahead(bytes, i) \in i..(Len(bytes) + 1)
  <2> HIDE DEF Stops
  <2> QED
    BY <1>3, <1>6
<1>8. ASSUME Ahead(bytes, i) <= Len(bytes) PROVE HeaderAt(bytes, Ahead(bytes, i))
  <2>1. Ahead(bytes, i) # Len(bytes) + 1
    BY <1>1, <1>8
  <2>2. Ahead(bytes, i) \in Heads
    BY <1>6, <2>1
  <2>3. Ahead(bytes, i) \in Nat \ {0}
    BY <1>1, <1>7
  <2>4. QED
    BY <2>2, <2>3, SaysHeader
<1>9. ASSUME NEW h \in i..Len(bytes), HeaderAt(bytes, h)
      PROVE  Ahead(bytes, i) <= h
  <2>1. h \in Nat \ {0}
    OBVIOUS
  <2>2. h \in Stops
    BY <1>9, <2>1, SaysHeader
  <2>3. QED
    BY <1>6, <2>2
<1>10. QED
  BY <1>7, <1>8, <1>9

\* The loop never looks back.
LEMMA FeedsLooksAhead ==
  ASSUME NEW bytes \in Seq(Bytes), NEW i \in 1..(Len(bytes) + 1), NEW f, NEW g,
         \A j \in (i + 1)..(Len(bytes) + 1) : f[j] = g[j]
  PROVE  Feeds(bytes, f, i) = Feeds(bytes, g, i)
<1> DEFINE h == Ahead(bytes, i)
<1> DEFINE k == CHOOSE x \in Announced(bytes, h) : TRUE
<1>1. h \in i..(Len(bytes) + 1) /\ Len(bytes) \in Nat
  BY AheadIs
<1>2. CASE h > Len(bytes)
  BY <1>2 DEF Feeds
<1>3. CASE ~(h > Len(bytes))
  <2>1. h + 1 \in (i + 1)..(Len(bytes) + 1)
    BY <1>1, <1>3
  <2>2. f[h + 1] = g[h + 1]
    BY <2>1
  <2>3. CASE Announced(bytes, h) = {}
    BY <1>3, <2>2, <2>3 DEF Feeds
  <2>4. CASE Announced(bytes, h) # {}
    <3>1. k \in Kinds
      BY <2>4 DEF Announced
    <3>2. WireLength(k) \in 8..9
      BY <3>1, WireFacts
    <3>3. f[Skip(h, k)] = g[Skip(h, k)]
      BY <2>2 DEF Skip
    <3>4. CASE h + WireLength(k) > Len(bytes) + 1
      BY <1>3, <2>4, <3>4 DEF Feeds
    <3>5. CASE ~(h + WireLength(k) > Len(bytes) + 1)
      <4>1. h + WireLength(k) \in (i + 1)..(Len(bytes) + 1)
        BY <1>1, <3>2, <3>5
      <4>2. f[h + WireLength(k)] = g[h + WireLength(k)]
        BY <4>1
      <4>3. QED
        BY <1>3, <2>4, <3>3, <3>5, <4>2, Zenon DEF Feeds
    <3>6. QED
      BY <3>4, <3>5
  <2>5. QED
    BY <2>3, <2>4
<1>4. QED
  BY <1>2, <1>3

\* So there is a function from the bytes' places to what it makes of the rest.
LEMMA ScanExists ==
  ASSUME NEW bytes \in Seq(Bytes)
  PROVE  \E scan : scan = [i \in 1..(Len(bytes) + 1) |-> Feeds(bytes, scan, i)]
<1> DEFINE N == Len(bytes) + 1
<1> DEFINE ScanFrom(m) == \E f : f = [i \in m..N |-> Feeds(bytes, f, i)]
<1>1. N \in Nat \ {0}
  OBVIOUS
<1> HIDE DEF N
<1>2. ASSUME NEW m \in 1..(N + 1), ~ScanFrom(m), \A x \in (m + 1)..(N + 1) : ScanFrom(x)
      PROVE  FALSE
  <2>1. CASE m = N + 1
    <3> DEFINE f == [i \in m..N |-> 0]
    <3>1. m..N = {}
      BY <1>1, <2>1
    <3>2. f = [i \in m..N |-> Feeds(bytes, f, i)]
      BY <3>1
    <3>3. QED
      BY <1>2, <3>2
  <2>2. CASE m # N + 1
    <3>1. m \in 1..N /\ m + 1 \in (m + 1)..(N + 1)
      BY <1>1, <2>2
    <3>2. ScanFrom(m + 1)
      BY <1>2, <3>1
    <3>3. PICK f : f = [i \in (m + 1)..N |-> Feeds(bytes, f, i)]
      BY <3>2
    <3> DEFINE g == [i \in m..N |-> IF i = m THEN Feeds(bytes, f, m) ELSE f[i]]
    <3>4. \A j \in (m + 1)..N : g[j] = f[j]
      BY <1>1, <3>1
    <3>5. ASSUME NEW i \in m..N PROVE g[i] = Feeds(bytes, g, i)
      <4>1. i \in 1..N /\ \A j \in (i + 1)..N : j \in (m + 1)..N
        BY <1>1, <3>1
      <4>2. \A j \in (i + 1)..N : f[j] = g[j]
        BY <3>4, <4>1
      <4> HIDE DEF g
      <4>3. Feeds(bytes, f, i) = Feeds(bytes, g, i)
        BY <4>1, <4>2, FeedsLooksAhead DEF N
      <4>4. i = m \/ i \in (m + 1)..N
        BY <1>1, <3>1
      <4>5. i \in (m + 1)..N => f[i] = Feeds(bytes, f, i)
        BY <3>3
      <4>6. g[i] = Feeds(bytes, f, i)
        BY <4>4, <4>5 DEF g
      <4>7. QED
        BY <4>3, <4>6
    <3>6. g = [i \in m..N |-> g[i]]
      OBVIOUS
    <3> HIDE DEF g
    <3>7. g = [i \in m..N |-> Feeds(bytes, g, i)]
      BY <3>5, <3>6
    <3>8. QED
      BY <1>2, <3>7
  <2>3. QED
    BY <2>1, <2>2
<1> DEFINE Lacking == {m \in 1..(N + 1) : ~ScanFrom(m)}
<1>3. CASE Lacking = {}
  <2>1. ScanFrom(1)
    BY <1>1, <1>3
  <2>2. QED
    BY <2>1 DEF N
<1>4. CASE Lacking # {}
  <2>1. Lacking \in SUBSET (1..(N + 1)) /\ N + 1 \in Nat
    BY <1>1
  <2>2. \E x \in Lacking : \A y \in Lacking : y <= x
    <3> HIDE DEF Lacking
    <3> QED
      BY <1>4, <2>1, HasGreatest
  <2>3. PICK x \in Lacking : \A y \in Lacking : y <= x
    BY <2>2
  <2>4. x \in 1..(N + 1) /\ ~ScanFrom(x)
    OBVIOUS
  <2>5. ASSUME NEW y \in (x + 1)..(N + 1) PROVE ScanFrom(y)
    <3>1. y \in 1..(N + 1) /\ ~(y <= x)
      BY <1>1, <2>4
    <3>2. QED
      BY <2>3, <3>1
  <2>6. QED
    BY <1>2, <2>4, <2>5
<1>5. QED
  BY <1>3, <1>4

LEMMA FoundIs ==
  ASSUME NEW bytes \in Seq(Bytes)
  PROVE  \E scan : /\ scan = [i \in 1..(Len(bytes) + 1) |-> Feeds(bytes, scan, i)]
                   /\ Found(bytes) = scan[1]
<1> DEFINE Is(scan) == scan = [i \in 1..(Len(bytes) + 1) |-> Feeds(bytes, scan, i)]
<1>1. Is(CHOOSE scan : Is(scan))
  BY ScanExists
<1>2. Found(bytes) = (CHOOSE scan : Is(scan))[1]
  BY DEF Found
<1>3. QED
  BY <1>1, <1>2

-----------------------------------------------------------------------------
(* Whole frames among the bytes *)

\* From place h on stands all of the frame of kind k that was sent m before.
Whole(bytes, h, k, m) ==
  /\ h + WireLength(k) <= Len(bytes) + 1
  /\ \A j \in 0..(WireLength(k) - 1) :
       bytes[h + j].is = Wire(k)[j + 1] /\ bytes[h + j].of = m

WholeAt(bytes, h, k) == \E m \in Nat : Whole(bytes, h, k, m)

\* How many frames ago those were sent that are whole among the bytes.
WholeIn(bytes) ==
  {m \in Nat : \E h \in 1..Len(bytes), k \in Kinds : Whole(bytes, h, k, m)}

\* What looks like a frame is one.
Sound(bytes) ==
  \A h \in 1..Len(bytes), k \in Kinds :
    /\ HeaderAt(bytes, h) /\ KindAt(bytes, h, k) /\ IsFrame(bytes, h, k)
    /\ h + WireLength(k) <= Len(bytes) + 1
    => WholeAt(bytes, h, k)

\* From place c on stands the beginning of a frame of kind k, if anything.
Begun(bytes, c, k) ==
  /\ c \in 1..(Len(bytes) + 1) /\ Len(bytes) + 1 < c + WireLength(k)
  /\ \A i \in c..Len(bytes) : bytes[i].is = Wire(k)[i - c + 1]

LEMMA WholeLooksLikeOne ==
  ASSUME NEW bytes \in Seq(Bytes), NEW h \in Nat \ {0}, NEW k \in Kinds,
         WholeAt(bytes, h, k)
  PROVE  /\ HeaderAt(bytes, h) /\ KindAt(bytes, h, k) /\ IsFrame(bytes, h, k)
         /\ h + WireLength(k) <= Len(bytes) + 1
<1>1. PICK m \in Nat : Whole(bytes, h, k, m)
  BY DEF WholeAt
<1>2. WireLength(k) \in 8..9 /\ Len(bytes) \in Nat
      /\ h + WireLength(k) <= Len(bytes) + 1
  BY <1>1, WireFacts DEF Whole
<1>3. ASSUME NEW j \in 0..(WireLength(k) - 1)
      PROVE  bytes[h + j].is = Wire(k)[j + 1]
  BY <1>1 DEF Whole
<1>4. /\ Wire(k)[1] = "F4" /\ Wire(k)[2] = "F3" /\ Wire(k)[3] = k
      /\ Wire(k)[5] = "AA"
      /\ Wire(k)[WireLength(k) - 1] = "F8" /\ Wire(k)[WireLength(k)] = "F7"
  <2>1. {1, 2, 3, 5, WireLength(k) - 1, WireLength(k)} \subseteq 1..WireLength(k)
    BY <1>2
  <2>2. QED
    BY <2>1, WireFacts
<1>5. /\ bytes[h].is = "F4" /\ bytes[h + 1].is = "F3" /\ bytes[h + 2].is = k
      /\ bytes[h + 4].is = "AA"
      /\ bytes[h + WireLength(k) - 2].is = "F8"
      /\ bytes[h + WireLength(k) - 1].is = "F7"
  <2>1. {0, 1, 2, 4, WireLength(k) - 2, WireLength(k) - 1}
          \subseteq 0..(WireLength(k) - 1)
    BY <1>2
  <2>2. /\ bytes[h + 0].is = Wire(k)[0 + 1] /\ bytes[h + 1].is = Wire(k)[1 + 1]
        /\ bytes[h + 2].is = Wire(k)[2 + 1] /\ bytes[h + 4].is = Wire(k)[4 + 1]
        /\ bytes[h + (WireLength(k) - 2)].is = Wire(k)[(WireLength(k) - 2) + 1]
        /\ bytes[h + (WireLength(k) - 1)].is = Wire(k)[(WireLength(k) - 1) + 1]
    BY <1>3, <2>1
  <2>3. /\ h + 0 = h /\ 0 + 1 = 1 /\ 1 + 1 = 2 /\ 2 + 1 = 3 /\ 4 + 1 = 5
        /\ h + (WireLength(k) - 2) = h + WireLength(k) - 2
        /\ h + (WireLength(k) - 1) = h + WireLength(k) - 1
        /\ (WireLength(k) - 2) + 1 = WireLength(k) - 1
        /\ (WireLength(k) - 1) + 1 = WireLength(k)
    BY <1>2
  <2>4. QED
    BY <1>4, <2>2, <2>3
<1>6. HeaderAt(bytes, h) /\ KindAt(bytes, h, k)
  BY <1>2, <1>5 DEF HeaderAt, KindAt
<1>7. IsFrame(bytes, h, k)
  <2>1. Len(Footer) = 2 /\ Footer[1] = "F8" /\ Footer[2] = "F7"
    BY DEF Footer
  <2>2. SaysAt(bytes, h + WireLength(k) - 2, Footer)
    <3>1. 1..2 = {1, 2}
      OBVIOUS
    <3>2. /\ h + WireLength(k) - 2 + 1 - 1 = h + WireLength(k) - 2
          /\ h + WireLength(k) - 2 + 2 - 1 = h + WireLength(k) - 1
          /\ h + WireLength(k) - 2 + 2 <= Len(bytes) + 1
      BY <1>2
    <3>3. QED
      BY <1>5, <2>1, <3>1, <3>2 DEF SaysAt
  <2>3. SaysAt(bytes, h + 4, <<"AA">>)
    <3>1. Len(<<"AA">>) = 1 /\ <<"AA">>[1] = "AA" /\ 1..1 = {1}
      OBVIOUS
    <3>2. h + 4 + 1 - 1 = h + 4 /\ h + 4 + 1 <= Len(bytes) + 1
      BY <1>2
    <3>3. QED
      BY <1>5, <3>1, <3>2 DEF SaysAt
  <2>4. QED
    BY <2>2, <2>3 DEF IsFrame
<1>8. QED
  BY <1>2, <1>6, <1>7

\* No frame begins within another.
LEMMA NoneWithin ==
  ASSUME NEW bytes \in Seq(Bytes), NEW h \in Nat \ {0}, NEW k \in Kinds,
         WholeAt(bytes, h, k),
         NEW x \in h..(h + WireLength(k) - 1), bytes[x].is = "F4"
  PROVE  x = h
<1>1. WireLength(k) \in 8..9
  BY WireFacts
<1>2. PICK m \in Nat : Whole(bytes, h, k, m)
  BY DEF WholeAt
<1>3. x - h \in 0..(WireLength(k) - 1) /\ h + (x - h) = x
      /\ (x - h) + 1 \in 1..WireLength(k)
  BY <1>1
<1>4. bytes[x].is = Wire(k)[(x - h) + 1]
  BY <1>2, <1>3 DEF Whole
<1>5. (x - h) + 1 = 1
  BY <1>3, <1>4, WireFacts
<1>6. QED
  BY <1>5

\* From place i on: r.frames are the whole frames, r.rest is what is left, which
\* is shorter than a frame and leaves nothing out of one that has begun at c.
Gets(bytes, c, i, r) ==
  /\ r.frames \in Seq([at : Nat \ {0}, kind : Kinds])
  /\ r.rest \in i..(Len(bytes) + 1) /\ Len(bytes) + 1 <= r.rest + 8
  /\ i <= c => r.rest <= c
  /\ \A a \in 1..Len(r.frames) :
       /\ i <= r.frames[a].at
       /\ r.frames[a].at + WireLength(r.frames[a].kind) <= r.rest
       /\ WholeAt(bytes, r.frames[a].at, r.frames[a].kind)
  /\ \A a, b \in 1..Len(r.frames) : a < b => r.frames[a].at < r.frames[b].at
  /\ \A h \in i..Len(bytes), k \in Kinds :
       WholeAt(bytes, h, k) => \E a \in 1..Len(r.frames) : r.frames[a].at = h

\* Nothing found.
LEMMA GetsNothing ==
  ASSUME NEW bytes \in Seq(Bytes), NEW c \in Nat, NEW i \in 1..(Len(bytes) + 1),
         NEW rest \in i..(Len(bytes) + 1), Len(bytes) + 1 <= rest + 8,
         i <= c => rest <= c,
         \A h \in i..Len(bytes), k \in Kinds : ~WholeAt(bytes, h, k)
  PROVE  Gets(bytes, c, i, [frames |-> <<>>, rest |-> rest])
<1>1. <<>> \in Seq([at : Nat \ {0}, kind : Kinds]) /\ Len(<<>>) = 0
      /\ 1..0 = {}
  OBVIOUS
<1>2. QED
  BY <1>1 DEF Gets

\* Nothing at h, the first header from i on.
LEMMA GetsFurther ==
  ASSUME NEW bytes \in Seq(Bytes), NEW c \in Nat, NEW i \in 1..(Len(bytes) + 1),
         NEW h \in i..Len(bytes), i <= c => h + 1 <= c, NEW r,
         Gets(bytes, c, h + 1, r),
         \A x \in i..h, k \in Kinds : ~WholeAt(bytes, x, k)
  PROVE  Gets(bytes, c, i, r)
<1>1. Len(bytes) \in Nat
  OBVIOUS
<1>2. /\ r.frames \in Seq([at : Nat \ {0}, kind : Kinds])
      /\ r.rest \in (h + 1)..(Len(bytes) + 1) /\ Len(bytes) + 1 <= r.rest + 8
      /\ h + 1 <= c => r.rest <= c
  BY DEF Gets
<1>3. /\ \A a \in 1..Len(r.frames) :
           /\ h + 1 <= r.frames[a].at
           /\ r.frames[a].at + WireLength(r.frames[a].kind) <= r.rest
           /\ WholeAt(bytes, r.frames[a].at, r.frames[a].kind)
      /\ \A a, b \in 1..Len(r.frames) : a < b => r.frames[a].at < r.frames[b].at
      /\ \A x \in (h + 1)..Len(bytes), k \in Kinds :
           WholeAt(bytes, x, k) => \E a \in 1..Len(r.frames) : r.frames[a].at = x
  BY DEF Gets
<1>4. r.rest \in i..(Len(bytes) + 1) /\ (i <= c => r.rest <= c)
  BY <1>1, <1>2
<1>5. \A a \in 1..Len(r.frames) : i <= r.frames[a].at
  <2> SUFFICES ASSUME NEW a \in 1..Len(r.frames) PROVE i <= r.frames[a].at
    OBVIOUS
  <2>1. r.frames[a] \in [at : Nat \ {0}, kind : Kinds]
    BY <1>2, ElementOfSeq
  <2>2. h + 1 <= r.frames[a].at /\ r.frames[a].at \in Nat
    BY <1>3, <2>1
  <2>3. QED
    BY <2>2
<1>6. \A x \in i..Len(bytes) : x \in i..h \/ x \in (h + 1)..Len(bytes)
  BY <1>1
<1>7. \A x \in i..Len(bytes), k \in Kinds :
        WholeAt(bytes, x, k) => \E a \in 1..Len(r.frames) : r.frames[a].at = x
  BY <1>3, <1>6
<1>8. QED
  BY <1>2, <1>3, <1>4, <1>5, <1>7 DEF Gets

\* A frame at h, the first header from i on.
LEMMA GetsOne ==
  ASSUME NEW bytes \in Seq(Bytes), NEW c \in Nat, NEW i \in 1..(Len(bytes) + 1),
         NEW h \in i..Len(bytes), NEW k \in Kinds, NEW end \in Nat,
         end = h + WireLength(k), WholeAt(bytes, h, k), i <= c => end <= c, NEW r,
         Gets(bytes, c, end, r),
         \A x \in i..(end - 1), l \in Kinds : WholeAt(bytes, x, l) => x = h
  PROVE  Gets(bytes, c, i,
              [frames |-> <<[at |-> h, kind |-> k]>> \o r.frames, rest |-> r.rest])
<1> DEFINE Places == [at : Nat \ {0}, kind : Kinds]
<1> DEFINE one == <<[at |-> h, kind |-> k]>>
<1> DEFINE all == one \o r.frames
<1>1. Len(bytes) \in Nat /\ WireLength(k) \in 8..9 /\ h \in Nat \ {0}
  BY WireFacts
<1>2. /\ r.frames \in Seq(Places)
      /\ r.rest \in end..(Len(bytes) + 1) /\ Len(bytes) + 1 <= r.rest + 8
      /\ end <= c => r.rest <= c
  BY DEF Gets
<1>3. /\ \A a \in 1..Len(r.frames) :
           /\ end <= r.frames[a].at
           /\ r.frames[a].at + WireLength(r.frames[a].kind) <= r.rest
           /\ WholeAt(bytes, r.frames[a].at, r.frames[a].kind)
      /\ \A a, b \in 1..Len(r.frames) : a < b => r.frames[a].at < r.frames[b].at
      /\ \A x \in end..Len(bytes), l \in Kinds :
           WholeAt(bytes, x, l) => \E a \in 1..Len(r.frames) : r.frames[a].at = x
  BY DEF Gets
<1>4. one \in Seq(Places) /\ Len(one) = 1 /\ one[1] = [at |-> h, kind |-> k]
  BY <1>1
<1>5. /\ Len(r.frames) \in Nat
      /\ \A a \in 1..Len(r.frames) :
           r.frames[a].at \in Nat /\ r.frames[a].kind \in Kinds
  <2>1. \A a \in 1..Len(r.frames) : r.frames[a] \in Places
    <3> HIDE DEF Places
    <3> QED
      BY <1>2, ElementOfSeq
  <2>2. QED
    BY <1>2, <2>1, SMTT(30)
<1> HIDE DEF one, Places
<1>6. /\ all \in Seq(Places) /\ Len(all) = Len(r.frames) + 1
      /\ \A a \in 1..(1 + Len(r.frames)) :
           all[a] = IF a <= 1 THEN one[a] ELSE r.frames[a - 1]
  <2>1. /\ all \in Seq(Places) /\ Len(all) = Len(one) + Len(r.frames)
        /\ \A a \in 1..(Len(one) + Len(r.frames)) :
             all[a] = IF a <= Len(one) THEN one[a] ELSE r.frames[a - Len(one)]
    BY <1>2, <1>4, ConcatProperties
  <2>2. Len(one) + Len(r.frames) = Len(r.frames) + 1
        /\ 1 + Len(r.frames) = Len(r.frames) + 1
    BY <1>4, <1>5
  <2> HIDE DEF all
  <2>3. QED
    BY <1>4, <2>1, <2>2
<1> HIDE DEF all
<1>7. all[1] = [at |-> h, kind |-> k]
  BY <1>4, <1>5, <1>6
<1>8. ASSUME NEW a \in 1..Len(all)
      PROVE  a = 1 \/ (a - 1 \in 1..Len(r.frames) /\ all[a] = r.frames[a - 1])
  BY <1>5, <1>6, SMTT(30)
<1>9. ASSUME NEW a \in 1..Len(r.frames)
      PROVE  a + 1 \in 1..Len(all) /\ all[a + 1] = r.frames[a]
  <2>1. a + 1 \in 1..(1 + Len(r.frames)) /\ ~(a + 1 <= 1) /\ a + 1 - 1 = a
        /\ a + 1 \in 1..(Len(r.frames) + 1)
    BY <1>5
  <2>2. QED
    BY <1>6, <2>1
<1>10. r.rest \in i..(Len(bytes) + 1) /\ (i <= c => r.rest <= c)
  BY <1>1, <1>2
<1>11. ASSUME NEW a \in 1..Len(all)
       PROVE  /\ i <= all[a].at
              /\ all[a].at + WireLength(all[a].kind) <= r.rest
              /\ WholeAt(bytes, all[a].at, all[a].kind)
  <2>1. CASE a = 1
    BY <1>1, <1>2, <1>7, <2>1
  <2>2. CASE a - 1 \in 1..Len(r.frames) /\ all[a] = r.frames[a - 1]
    <3>1. r.frames[a - 1].at \in Nat
      BY <1>5, <2>2
    <3>2. i <= end
      BY <1>1
    <3>3. QED
      BY <1>3, <2>2, <3>1, <3>2
  <2>3. QED
    BY <1>8, <2>1, <2>2
<1>12. ASSUME NEW a \in 1..Len(all), NEW b \in 1..Len(all), a < b
       PROVE  all[a].at < all[b].at
  <2>1. b - 1 \in 1..Len(r.frames) /\ all[b] = r.frames[b - 1]
    BY <1>8, <1>12
  <2>2. end <= r.frames[b - 1].at /\ r.frames[b - 1].at \in Nat
    BY <1>3, <1>5, <2>1
  <2>3. CASE a = 1
    BY <1>1, <1>7, <2>1, <2>2, <2>3, SMTT(30)
  <2>4. CASE a - 1 \in 1..Len(r.frames) /\ all[a] = r.frames[a - 1]
    <3>1. a - 1 < b - 1
      BY <1>12
    <3>2. QED
      BY <1>3, <2>1, <2>4, <3>1
  <2>5. QED
    BY <1>8, <2>3, <2>4
<1>13. ASSUME NEW x \in i..Len(bytes), NEW l \in Kinds, WholeAt(bytes, x, l)
       PROVE  \E a \in 1..Len(all) : all[a].at = x
  <2>1. CASE x \in end..Len(bytes)
    <3>1. PICK a \in 1..Len(r.frames) : r.frames[a].at = x
      BY <1>3, <1>13, <2>1
    <3>2. QED
      BY <1>9, <3>1
  <2>2. CASE x \notin end..Len(bytes)
    <3>1. x \in i..(end - 1)
      BY <1>1, <2>2
    <3>2. x = h
      BY <1>13, <3>1
    <3>3. 1 \in 1..Len(all)
      BY <1>5, <1>6
    <3>4. QED
      BY <1>7, <3>2, <3>3
  <2>3. QED
    BY <2>1, <2>2
<1>14. QED
  <2>1. Gets(bytes, c, i, [frames |-> all, rest |-> r.rest])
    BY <1>2, <1>6, <1>10, <1>11, <1>12, <1>13 DEF Gets, Places
  <2>2. QED
    BY <2>1 DEF all, one

\* One step of the loop, when it makes of the bytes further on what it should.
LEMMA FeedsGets ==
  ASSUME NEW bytes \in Seq(Bytes), Sound(bytes), NEW kd \in Kinds, NEW c,
         Begun(bytes, c, kd), NEW i \in 1..(Len(bytes) + 1), NEW scan,
         \A j \in (i + 1)..(Len(bytes) + 1) : Gets(bytes, c, j, scan[j])
  PROVE  Gets(bytes, c, i, Feeds(bytes, scan, i))
<1> DEFINE N == Len(bytes)
<1> DEFINE h == Ahead(bytes, i)
<1> DEFINE k == CHOOSE x \in Announced(bytes, h) : TRUE
<1>1. /\ N \in Nat /\ i \in 1..(N + 1) /\ h \in i..(N + 1)
      /\ h <= N => HeaderAt(bytes, h)
      /\ \A x \in i..N : HeaderAt(bytes, x) => h <= x
  BY AheadIs
<1>2. /\ c \in 1..(N + 1) /\ N + 1 < c + WireLength(kd)
      /\ \A x \in c..N : bytes[x].is = Wire(kd)[x - c + 1]
      /\ WireLength(kd) \in 8..9
  BY WireFacts DEF Begun
<1>3. \A x \in i..N, l \in Kinds : WholeAt(bytes, x, l) =>
        /\ HeaderAt(bytes, x) /\ KindAt(bytes, x, l) /\ IsFrame(bytes, x, l)
        /\ x + WireLength(l) <= N + 1 /\ WireLength(l) \in 8..9
  BY WholeLooksLikeOne, WireFacts
<1>4. \A x \in i..N, l \in Kinds : WholeAt(bytes, x, l) => h <= x
  BY <1>1, <1>3
<1>5. c \in Nat
  BY <1>2
\* A frame that has begun is not passed over.
<1>6. c < N => HeaderAt(bytes, c)
  <2> SUFFICES ASSUME c < N PROVE HeaderAt(bytes, c)
    OBVIOUS
  <2>1. c \in c..N /\ c + 1 \in c..N /\ c - c + 1 = 1 /\ c + 1 - c + 1 = 2
    BY <1>1, <1>2
  <2>2. bytes[c].is = Wire(kd)[1] /\ bytes[c + 1].is = Wire(kd)[2]
    <3>1. \A x \in c..N : bytes[x].is = Wire(kd)[x - c + 1]
      BY <1>2
    <3>2. bytes[c].is = Wire(kd)[c - c + 1]
      BY <2>1, <3>1
    <3>3. ASSUME NEW x, x = c + 1 PROVE bytes[x].is = Wire(kd)[2]
      <4>1. x \in c..N /\ x - c + 1 = 2
        BY <1>1, <1>2, <3>3
      <4>2. bytes[x].is = Wire(kd)[x - c + 1]
        BY <3>1, <4>1
      <4>3. QED
        BY <4>1, <4>2
    <3>4. QED
      BY <2>1, <3>2, <3>3
  <2>3. 1 \in 1..WireLength(kd) /\ 2 \in 1..WireLength(kd)
    BY <1>2
  <2>4. bytes[c].is = "F4" /\ bytes[c + 1].is = "F3"
    BY <2>2, <2>3, WireFacts
  <2>5. c \in 1..(N - 1)
    BY <1>1, <1>2
  <2>6. QED
    BY <2>4, <2>5 DEF HeaderAt
<1>7. i <= c => h <= c \/ N <= c
  <2> SUFFICES ASSUME i <= c, c < N PROVE h <= c
    BY <1>1, <1>2
  <2>1. c \in i..N
    BY <1>1, <1>2
  <2>2. QED
    BY <1>1, <1>6, <2>1
<1>8. c + 2 <= N => bytes[c + 2].is = kd
  <2> SUFFICES ASSUME c + 2 <= N PROVE bytes[c + 2].is = kd
    OBVIOUS
  <2>1. c + 2 \in c..N /\ c + 2 - c + 1 = 3
    BY <1>1, <1>2
  <2>2. QED
    BY <1>2, <2>1, WireFacts
<1> HIDE DEF h, k, N
<1>9. CASE h > N
  <2>1. Feeds(bytes, scan, i) = [frames |-> <<>>, rest |-> Kept(bytes, i)]
    BY <1>9 DEF Feeds, h, N
  <2>2. Kept(bytes, i) \in i..(N + 1) /\ N + 1 <= Kept(bytes, i) + 8
        /\ (i <= c => Kept(bytes, i) <= c)
    <3>1. Kept(bytes, i) = IF i > N THEN i ELSE N
      BY DEF Kept, N
    <3>2. i <= c => N <= c
      BY <1>1, <1>2, <1>7, <1>9
    <3>3. QED
      BY <1>1, <1>2, <3>1, <3>2
  <2>3. \A x \in i..N, l \in Kinds : ~WholeAt(bytes, x, l)
    BY <1>1, <1>4, <1>9
  <2>4. QED
    BY <1>5, <2>1, <2>2, <2>3, GetsNothing DEF N
<1>10. CASE ~(h > N)
  <2>1. HeaderAt(bytes, h) /\ h \in i..N /\ h + 1 <= N
    BY <1>1, <1>10 DEF HeaderAt, N
  <2>2. i <= c => h <= c
    BY <1>1, <1>2, <1>7, <2>1
  <2>3. h \in Nat \ {0}
    BY <1>1
  <2>4. Announced(bytes, h) = {l \in Kinds : KindAt(bytes, h, l)}
    BY <2>3, AnnouncedIs
  <2>5. CASE h + 2 > N
    <3>1. Feeds(bytes, scan, i) = [frames |-> <<>>, rest |-> h]
      BY <1>10, <2>5 DEF Feeds, h, N
    <3>2. h \in i..(N + 1) /\ N + 1 <= h + 8
      BY <1>1, <2>1, <2>5
    <3>3. \A x \in i..N, l \in Kinds : ~WholeAt(bytes, x, l)
      BY <1>1, <1>3, <1>4, <2>5
    <3>4. QED
      BY <1>5, <2>2, <3>1, <3>2, <3>3, GetsNothing DEF N
  <2>6. ASSUME ~(h + 2 > N), h # c, scan[h + 1] = Feeds(bytes, scan, i),
               \A l \in Kinds : ~WholeAt(bytes, h, l)
        PROVE  Gets(bytes, c, i, Feeds(bytes, scan, i))
    <3>1. h + 1 \in (i + 1)..(N + 1)
      BY <1>1, <2>1
    <3>2. Gets(bytes, c, h + 1, scan[h + 1])
      BY <3>1 DEF N
    <3>3. i <= c => h + 1 <= c
      BY <1>1, <1>2, <2>2, <2>6
    <3>4. \A x \in i..h, l \in Kinds : ~WholeAt(bytes, x, l)
      <4>1. ASSUME NEW x \in i..h, NEW l \in Kinds, WholeAt(bytes, x, l)
            PROVE  FALSE
        <5>1. x \in i..N
          BY <1>1, <2>1
        <5>2. h <= x
          BY <1>4, <4>1, <5>1
        <5>3. x = h
          BY <1>1, <5>2
        <5>4. QED
          BY <2>6, <4>1, <5>3
      <4>2. QED
        BY <4>1
    <3>5. QED
      BY <1>5, <2>1, <2>6, <3>2, <3>3, <3>4, GetsFurther DEF N
  <2>7. CASE ~(h + 2 > N) /\ Announced(bytes, h) = {}
    <3>1. Feeds(bytes, scan, i) = scan[h + 1]
      BY <1>10, <2>7 DEF Feeds, h, N
    <3>2. \A l \in Kinds : ~KindAt(bytes, h, l)
      BY <2>4, <2>7
    <3>3. \A l \in Kinds : ~WholeAt(bytes, h, l)
      BY <1>3, <2>1, <3>2
    <3>4. h # c
      <4>1. SUFFICES ASSUME h = c PROVE FALSE
        OBVIOUS
      <4>2. c + 2 <= N
        BY <1>1, <1>2, <2>7, <4>1
      <4>3. KindAt(bytes, h, kd)
        BY <1>8, <4>1, <4>2 DEF KindAt, N
      <4>4. QED
        BY <3>2, <4>3
    <3>5. QED
      BY <2>6, <2>7, <3>1, <3>3, <3>4
  <2>8. CASE ~(h + 2 > N) /\ Announced(bytes, h) # {}
    <3>1. k \in Kinds /\ KindAt(bytes, h, k)
      BY <2>4, <2>8 DEF k
    <3>2. \A l \in Kinds : KindAt(bytes, h, l) => l = k
      BY <3>1 DEF KindAt
    <3>3. WireLength(k) \in 8..9
      BY <3>1, WireFacts
    <3>4. h = c => k = kd
      BY <1>1, <1>2, <1>8, <2>8, <3>1 DEF KindAt, N
    <3>5. CASE h + WireLength(k) > N + 1
      <4>1. Feeds(bytes, scan, i) = [frames |-> <<>>, rest |-> h]
        BY <1>10, <2>8, <3>5 DEF Feeds, h, N, k
      <4>2. h \in i..(N + 1) /\ N + 1 <= h + 8
        BY <1>1, <2>1, <3>3, <3>5
      <4>3. ASSUME NEW x \in i..N, NEW l \in Kinds, WholeAt(bytes, x, l)
            PROVE  FALSE
        <5>1. h <= x /\ x + WireLength(l) <= N + 1 /\ WireLength(l) \in 8..9
              /\ KindAt(bytes, x, l)
          BY <1>3, <1>4, <4>3
        <5>2. x = h
          BY <1>1, <3>3, <3>5, <5>1
        <5>3. l = k
          BY <3>2, <5>1, <5>2
        <5>4. QED
          BY <1>1, <3>3, <3>5, <5>1, <5>2, <5>3
      <4>4. QED
        BY <1>5, <2>2, <4>1, <4>2, <4>3, GetsNothing DEF N
    <3>6. CASE ~(h + WireLength(k) > N + 1)
      <4>1. h # c
        BY <1>1, <1>2, <3>3, <3>4, <3>6
      <4>2. CASE ~IsFrame(bytes, h, k)
        <5>1. Feeds(bytes, scan, i) = scan[h + 1]
          BY <1>10, <2>8, <3>6, <4>2 DEF Feeds, h, N, k, Skip
        <5>2. \A l \in Kinds : ~WholeAt(bytes, h, l)
          BY <1>3, <2>1, <3>2, <4>2
        <5>3. QED
          BY <2>6, <2>8, <4>1, <5>1, <5>2
      <4>3. CASE IsFrame(bytes, h, k)
        <5> DEFINE end == h + WireLength(k)
        <5>1. Feeds(bytes, scan, i) =
                [frames |-> <<[at |-> h, kind |-> k]>> \o scan[end].frames,
                 rest |-> scan[end].rest]
          BY <1>10, <2>8, <3>6, <4>3 DEF Feeds, h, N, k
        <5>2. end \in (i + 1)..(N + 1) /\ end \in Nat
          BY <1>1, <2>1, <3>3, <3>6
        <5>3. Gets(bytes, c, end, scan[end])
          BY <5>2 DEF N
        <5>4. h \in 1..N /\ h + WireLength(k) <= N + 1
          BY <1>1, <2>1, <3>3, <3>6
        <5>5. WholeAt(bytes, h, k)
          BY <2>1, <3>1, <4>3, <5>4 DEF Sound, N
        <5>6. ASSUME NEW x \in h..(h + WireLength(k) - 1), bytes[x].is = "F4" PROVE x = h
          BY <2>3, <3>1, <5>5, <5>6, NoneWithin, Zenon
        <5>7. ASSUME i <= c, ~(end <= c) PROVE FALSE
          <6>1. c \in h..(h + WireLength(k) - 1) /\ c + 1 <= N + 1
            BY <1>1, <1>2, <2>2, <3>3, <3>6, <5>7
          <6>2. c \in c..N /\ c - c + 1 = 1 /\ 1 \in 1..WireLength(kd)
            BY <1>1, <1>2, <6>1
          <6>3. bytes[c].is = "F4"
            <7>1. bytes[c].is = Wire(kd)[c - c + 1]
              BY <1>2, <6>2, Zenon
            <7>2. bytes[c].is = Wire(kd)[1]
              BY <6>2, <7>1
            <7>3. QED
              BY <6>2, <7>2, WireFacts
          <6>4. QED
            BY <4>1, <5>6, <6>1, <6>3
        <5>8. ASSUME NEW x \in i..(end - 1), NEW l \in Kinds, WholeAt(bytes, x, l)
              PROVE  x = h
          <6>1. x \in i..N
            BY <1>1, <5>2
          <6>2. h <= x /\ HeaderAt(bytes, x)
            BY <1>3, <1>4, <5>8, <6>1
          <6>3. x \in h..(h + WireLength(k) - 1)
            BY <1>1, <3>3, <6>2
          <6>4. QED
            BY <5>6, <6>2, <6>3 DEF HeaderAt
        <5>9. QED
          <6> HIDE DEF end
          <6>1. end = h + WireLength(k)
            BY DEF end
          <6>2. QED
            BY <1>5, <2>1, <3>1, <5>1, <5>2, <5>3, <5>5, <5>7, <5>8, <6>1,
               GetsOne, ZenonT(30) DEF N
      <4>4. QED
        BY <4>2, <4>3
    <3>7. QED
      BY <3>5, <3>6
  <2>9. QED
    BY <2>5, <2>7, <2>8
<1>11. QED
  BY <1>9, <1>10

\* What Feed hands on of a buffer in which every frame is one: the whole ones,
\* in their order.
LEMMA FoundGets ==
  ASSUME NEW bytes \in Seq(Bytes), Sound(bytes), NEW kd \in Kinds, NEW c,
         Begun(bytes, c, kd)
  PROVE  Gets(bytes, c, 1, Found(bytes))
<1> DEFINE N == Len(bytes) + 1
<1>1. PICK scan : /\ scan = [i \in 1..N |-> Feeds(bytes, scan, i)]
                  /\ Found(bytes) = scan[1]
  BY FoundIs
<1>2. N \in Nat \ {0}
  OBVIOUS
<1> HIDE DEF N
<1> DEFINE Wrong == {i \in 1..N : ~Gets(bytes, c, i, scan[i])}
<1>3. CASE Wrong = {}
  <2>1. 1 \in 1..N
    BY <1>2
  <2>2. Gets(bytes, c, 1, scan[1])
    BY <1>3, <2>1
  <2>3. QED
    BY <1>1, <2>2
<1>4. CASE Wrong # {}
  <2>1. Wrong \in SUBSET (1..N)
    OBVIOUS
  <2>2. \E x \in Wrong : \A y \in Wrong : y <= x
    <3> HIDE DEF Wrong
    <3> QED
      BY <1>2, <1>4, <2>1, HasGreatest
  <2>3. PICK x \in Wrong : \A y \in Wrong : y <= x
    BY <2>2
  <2>4. x \in 1..N /\ ~Gets(bytes, c, x, scan[x])
    OBVIOUS
  <2>5. ASSUME NEW y \in (x + 1)..N PROVE Gets(bytes, c, y, scan[y])
    <3>1. y \in 1..N /\ ~(y <= x)
      BY <1>2, <2>4
    <3>2. QED
      BY <2>3, <3>1
  <2>6. scan[x] = Feeds(bytes, scan, x)
    BY <1>1, <2>4
  <2>7. Gets(bytes, c, x, Feeds(bytes, scan, x))
    BY <2>4, <2>5, FeedsGets DEF N
  <2>8. QED
    BY <2>4, <2>6, <2>7
<1>5. QED
  BY <1>3, <1>4

-----------------------------------------------------------------------------
(* Where the bytes come from *)

\* The frame m before the one under way is of kind K[m], and since it began
\* the sensor has sent B[m] bytes; since byte i, it included, it has sent D[i].
\* Of the frame under way, of kind k, n bytes are sent, and lost bytes are not
\* among these.
Traced(K, B, D, bytes, k, n, lost) ==
  /\ K \in [Nat -> Kinds] /\ K[0] = k
  /\ B \in [Nat -> Nat] /\ B[0] = n
  /\ \A m \in Nat : n + 8 * m <= B[m] /\ WireLength(K[m]) <= WireLength(k)
  /\ \A m, l \in Nat : l < m => B[l] + WireLength(K[m]) <= B[m]
  /\ D \in [1..Len(bytes) -> Nat]
  /\ \A i \in 1..Len(bytes) :
       D[i] + i >= Len(bytes) + 1 /\ D[i] + i <= Len(bytes) + 1 + lost
  /\ \A i, j \in 1..Len(bytes) : i < j => D[j] + j <= D[i] + i
  /\ \A i \in 1..Len(bytes) : \E p \in 0..(WireLength(K[bytes[i].of]) - 1) :
       /\ bytes[i].is = Wire(K[bytes[i].of])[p + 1]
       /\ D[i] + p = B[bytes[i].of]

LEMMA PlaceOf ==
  ASSUME NEW bytes \in Seq(Bytes), NEW k \in Kinds, NEW n \in Nat, NEW lost \in Nat,
         NEW K, NEW B, NEW D, Traced(K, B, D, bytes, k, n, lost),
         NEW i \in 1..Len(bytes), NEW m, m = bytes[i].of
  PROVE  /\ m \in Nat /\ K[m] \in Kinds /\ B[m] \in Nat /\ D[i] \in Nat
         /\ WireLength(K[m]) \in 8..9
         /\ D[i] <= B[m] /\ B[m] < D[i] + WireLength(K[m])
         /\ bytes[i].is = "F4" => D[i] = B[m]
         /\ bytes[i].is = "F3" => D[i] + 1 = B[m]
         /\ bytes[i].is \in Kinds => D[i] + 2 = B[m] /\ bytes[i].is = K[m]
         /\ bytes[i].is = "F7" => D[i] + WireLength(K[m]) = B[m] + 1
         /\ bytes[i].is = Wire(K[m])[B[m] - D[i] + 1]
<1>1. bytes[i] \in Bytes
  BY ElementOfSeq
<1>2. m \in Nat
  BY <1>1 DEF Bytes
<1>3. K[m] \in Kinds /\ B[m] \in Nat /\ D[i] \in Nat
  BY <1>2 DEF Traced
<1>4. WireLength(K[m]) \in 8..9
  BY <1>3, WireFacts
<1>5. PICK p \in 0..(WireLength(K[m]) - 1) :
        bytes[i].is = Wire(K[m])[p + 1] /\ D[i] + p = B[m]
  BY DEF Traced
<1>6. /\ p + 1 \in 1..WireLength(K[m]) /\ p \in Nat
      /\ p = B[m] - D[i]
  BY <1>3, <1>4, <1>5
<1>7. /\ bytes[i].is = "F4" => p + 1 = 1
      /\ bytes[i].is = "F3" => p + 1 = 2
      /\ bytes[i].is \in Kinds => p + 1 = 3 /\ bytes[i].is = K[m]
      /\ bytes[i].is = "F7" => p + 1 = WireLength(K[m])
  BY <1>3, <1>5, <1>6, WireFacts
<1>8. /\ D[i] <= B[m] /\ B[m] < D[i] + WireLength(K[m])
      /\ p + 1 = 1 => D[i] = B[m]
      /\ p + 1 = 2 => D[i] + 1 = B[m]
      /\ p + 1 = 3 => D[i] + 2 = B[m]
      /\ p + 1 = WireLength(K[m]) => D[i] + WireLength(K[m]) = B[m] + 1
  <2> DEFINE d == D[i]
  <2> DEFINE b == B[m]
  <2> DEFINE w == WireLength(K[m])
  <2>1. d \in Nat /\ b \in Nat /\ w \in 8..9 /\ p \in 0..(w - 1) /\ d + p = b
    BY <1>3, <1>4, <1>5
  <2> HIDE DEF d, b, w
  <2>2. /\ d <= b /\ b < d + w
        /\ p + 1 = 1 => d = b
        /\ p + 1 = 2 => d + 1 = b
        /\ p + 1 = 3 => d + 2 = b
        /\ p + 1 = w => d + w = b + 1
    BY <2>1
  <2>3. QED
    BY <2>2 DEF d, b, w
<1>9. QED
  BY <1>2, <1>3, <1>4, <1>5, <1>6, <1>7, <1>8

\* With fewer bytes lost than a frame has, the bytes of one that has its header
\* and its end among these are all there, and between these two.
LEMMA TracedSound ==
  ASSUME NEW bytes \in Seq(Bytes), NEW kd \in Kinds, NEW n \in Nat, NEW lost \in 0..7,
         NEW K, NEW B, NEW D, Traced(K, B, D, bytes, kd, n, lost)
  PROVE  Sound(bytes)
<1> SUFFICES ASSUME NEW h \in 1..Len(bytes), NEW k \in Kinds,
                    HeaderAt(bytes, h), KindAt(bytes, h, k), IsFrame(bytes, h, k),
                    h + WireLength(k) <= Len(bytes) + 1
             PROVE  WholeAt(bytes, h, k)
  BY DEF Sound
<1> DEFINE m == bytes[h].of
<1> DEFINE e == h + WireLength(k) - 1
<1>1. Len(bytes) \in Nat /\ WireLength(k) \in 8..9 /\ h \in 1..Len(bytes)
  BY WireFacts
<1>2. \A i \in 1..Len(bytes) :
        D[i] \in Nat
        /\ D[i] + i >= Len(bytes) + 1 /\ D[i] + i <= Len(bytes) + 1 + lost
  BY DEF Traced
<1>3. \A i, j \in 1..Len(bytes) : i < j => D[j] + j <= D[i] + i
  BY DEF Traced
<1>4. \A a \in Nat : B[a] \in Nat /\ K[a] \in Kinds
  BY DEF Traced
<1> DEFINE Length(a) == WireLength(K[a])
<1>4a. \A a \in Nat : Length(a) \in 8..9
  BY <1>4, WireFacts
<1>4b. \A a, b \in Nat : b < a => B[b] + Length(a) <= B[a]
  BY DEF Traced
<1> HIDE DEF Length
<1>5. /\ m \in Nat /\ D[h] = B[m] /\ B[m] \in Nat
  BY PlaceOf DEF HeaderAt
<1>6. K[m] = k
  <2> DEFINE q == bytes[h + 2].of
  <2>1. h + 2 \in 1..Len(bytes) /\ bytes[h + 2].is = k
    BY <1>1 DEF KindAt
  <2>2. q \in Nat /\ K[q] = k /\ D[h + 2] + 2 = B[q] /\ D[h + 2] \in Nat
    <3>1. bytes[h + 2].is \in Kinds
      BY <2>1
    <3>2. /\ q \in Nat /\ D[h + 2] + 2 = B[q] /\ bytes[h + 2].is = K[q]
          /\ D[h + 2] \in Nat
      BY <2>1, <3>1, PlaceOf
    <3>3. QED
      BY <2>1, <3>2
  <2> DEFINE d == D[h + 2]
  <2>3. /\ d + (h + 2) <= D[h] + h /\ D[h] \in Nat
        /\ D[h] + h <= d + (h + 2) + lost
    <3>1. h < h + 2 /\ h \in 1..Len(bytes)
      BY <1>1
    <3>2. d + (h + 2) <= D[h] + h
      BY <1>3, <2>1, <3>1
    <3>3. d + (h + 2) >= Len(bytes) + 1 /\ D[h] + h <= Len(bytes) + 1 + lost
          /\ D[h] \in Nat /\ d \in Nat
      BY <1>2, <2>1, <3>1
    <3> HIDE DEF d
    <3>4. QED
      BY <1>1, <3>2, <3>3
  <2>4. B[q] \in Nat
    BY <1>4, <2>2
  <2> HIDE DEF q, m, d
  <2>5. B[q] <= B[m] /\ B[m] <= B[q] + 7
    <3> DEFINE bq == B[q]
    <3> DEFINE bm == B[m]
    <3>1. /\ bq \in Nat /\ bm \in Nat /\ d \in Nat /\ d + 2 = bq
          /\ d + (h + 2) <= bm + h /\ bm + h <= d + (h + 2) + lost
      BY <1>5, <2>2, <2>3, <2>4 DEF d
    <3> HIDE DEF bq, bm
    <3>2. bq <= bm /\ bm <= bq + 7
      BY <1>1, <3>1
    <3>3. QED
      BY <3>2 DEF bq, bm
  <2>6. ASSUME m < q PROVE FALSE
    <3>1. B[m] + Length(q) <= B[q] /\ Length(q) \in 8..9
      BY <1>4a, <1>4b, <1>5, <2>2, <2>6
    <3>2. QED
      BY <1>5, <2>4, <2>5, <3>1
  <2>7. ASSUME q < m PROVE FALSE
    <3>1. B[q] + Length(m) <= B[m] /\ Length(m) \in 8..9
      BY <1>4a, <1>4b, <1>5, <2>2, <2>7
    <3>2. QED
      BY <1>5, <2>4, <2>5, <3>1
  <2>8. QED
    BY <1>5, <2>2, <2>6, <2>7
<1>6a. Length(m) = WireLength(k)
  BY <1>6 DEF Length
<1>7. /\ e \in 1..Len(bytes) /\ h < e /\ D[e] \in Nat
      /\ D[e] + WireLength(k) = D[h] + 1
  <2> DEFINE q == bytes[e].of
  <2>1. e \in 1..Len(bytes) /\ h < e
    BY <1>1
  <2>2. bytes[e].is = "F7"
    <3>1. Len(Footer) = 2 /\ Footer[2] = "F7"
      BY DEF Footer
    <3>2. bytes[h + WireLength(k) - 2 + 2 - 1].is = Footer[2]
      BY <3>1 DEF IsFrame, SaysAt
    <3>3. h + WireLength(k) - 2 + 2 - 1 = e
      BY <1>1
    <3>4. QED
      BY <3>1, <3>2, <3>3
  <2> HIDE DEF e
  <2>3. /\ q \in Nat /\ D[e] + Length(q) = B[q] + 1 /\ D[e] \in Nat
        /\ Length(q) \in 8..9 /\ B[q] \in Nat
    BY <2>1, <2>2, PlaceOf DEF Length
  <2>4. D[e] + e <= D[h] + h /\ D[h] + h <= D[e] + e + lost
    <3>1. D[e] + e <= D[h] + h
      BY <1>1, <1>3, <2>1
    <3>2. D[e] + e >= Len(bytes) + 1 /\ D[h] + h <= Len(bytes) + 1 + lost
      BY <1>1, <1>2, <2>1
    <3> DEFINE dh == D[h]
    <3> DEFINE de == D[e]
    <3>3. /\ dh \in Nat /\ de \in Nat /\ de + e >= Len(bytes) + 1
          /\ dh + h <= Len(bytes) + 1 + lost
      BY <1>5, <2>3, <3>2
    <3> HIDE DEF dh, de
    <3>4. dh + h <= de + e + lost
      BY <1>1, <2>1, <3>3
    <3>5. QED
      BY <3>1, <3>4 DEF dh, de
  <2>5. e = h + WireLength(k) - 1
    BY DEF e
  <2> HIDE DEF q, m
  <2> DEFINE bq == B[q]
  <2> DEFINE bm == B[m]
  <2> DEFINE wq == Length(q)
  <2> DEFINE w == WireLength(k)
  <2> DEFINE de == D[e]
  <2>6. /\ bq \in Nat /\ bm \in Nat /\ de \in Nat /\ wq \in 8..9 /\ w \in 8..9
        /\ de + wq = bq + 1 /\ e = h + w - 1 /\ h \in Nat /\ lost <= 7
        /\ de + e <= bm + h /\ bm + h <= de + e + lost
    BY <1>1, <1>5, <2>3, <2>4, <2>5
  <2>7. ASSUME q < m PROVE FALSE
    <3>1. bq + w <= bm
      BY <1>4b, <1>5, <1>6a, <2>3, <2>7
    <3> HIDE DEF bq, bm, wq, w, de
    <3>2. QED
      BY <2>6, <3>1
  <2>8. ASSUME m < q PROVE FALSE
    <3>1. bm + wq <= bq
      BY <1>4b, <1>5, <2>3, <2>8
    <3> HIDE DEF bq, bm, wq, w, de
    <3>2. QED
      BY <2>6, <3>1
  <2>9. q = m
    BY <1>5, <2>3, <2>7, <2>8
  <2>10. QED
    BY <1>5, <1>6a, <2>1, <2>3, <2>9
<1>8. ASSUME NEW j \in 0..(WireLength(k) - 1)
      PROVE  bytes[h + j].is = Wire(k)[j + 1] /\ bytes[h + j].of = m
  <2> DEFINE x == h + j
  <2> DEFINE q == bytes[x].of
  <2>1. x \in 1..Len(bytes) /\ h <= x /\ x <= e /\ x = h + j
    BY <1>1
  <2> HIDE DEF x
  <2>2. /\ q \in Nat /\ B[q] \in Nat /\ D[x] \in Nat /\ Length(q) \in 8..9
        /\ D[x] <= B[q] /\ B[q] < D[x] + Length(q)
        /\ bytes[x].is = Wire(K[q])[B[q] - D[x] + 1]
    BY <2>1, PlaceOf DEF Length
  <2>3. e = h + WireLength(k) - 1
    OBVIOUS
  <2> HIDE DEF e, q, m
  <2>4. x = h \/ D[x] + x <= D[h] + h
    BY <1>1, <1>3, <2>1
  <2>5. x = e \/ D[e] + e <= D[x] + x
    BY <1>1, <1>3, <1>7, <2>1
  <2>6. D[x] + j = B[m]
    <3> DEFINE d == D[x]
    <3> DEFINE g == D[e]
    <3> DEFINE w == WireLength(k)
    <3> DEFINE u == D[h]
    <3>1. /\ d \in Nat /\ g \in Nat /\ u \in Nat /\ w \in 8..9 /\ h \in Nat
          /\ g + w = u + 1 /\ e = h + w - 1 /\ x = h + j
          /\ d + x <= u + h /\ g + e <= d + x
      <4>1. D[x] + x <= D[h] + h
        BY <1>1, <1>5, <2>1, <2>2, <2>4
      <4>2. D[e] + e <= D[x] + x
        BY <1>1, <1>7, <2>1, <2>2, <2>5
      <4>3. QED
        BY <1>1, <1>5, <1>7, <2>1, <2>2, <2>3, <4>1, <4>2
    <3> HIDE DEF d, g, w, u
    <3>2. d + j = u
      BY <3>1
    <3>3. QED
      BY <1>5, <3>2 DEF d, u
  <2> DEFINE bq == B[q]
  <2> DEFINE bm == B[m]
  <2> DEFINE wq == Length(q)
  <2> DEFINE w == WireLength(k)
  <2> DEFINE d == D[x]
  <2>6a. /\ bq \in Nat /\ bm \in Nat /\ d \in Nat /\ wq \in 8..9 /\ w \in 8..9
         /\ d <= bq /\ bq < d + wq /\ d + j = bm /\ j \in 0..(w - 1)
    BY <1>1, <1>5, <2>2, <2>6
  <2>7. ASSUME q < m PROVE FALSE
    <3>1. bq + w <= bm
      BY <1>4b, <1>5, <1>6a, <2>2, <2>7
    <3> HIDE DEF bq, bm, wq, w, d
    <3>2. QED
      BY <2>6a, <3>1
  <2>8. ASSUME m < q PROVE FALSE
    <3>1. bm + wq <= bq
      BY <1>4b, <1>5, <2>2, <2>8
    <3> HIDE DEF bq, bm, wq, w, d
    <3>2. QED
      BY <2>6a, <3>1
  <2>9. q = m
    BY <1>5, <2>2, <2>7, <2>8
  <2>10. B[q] - D[x] + 1 = j + 1
    BY <2>2, <2>6, <2>9
  <2>11. QED
    BY <1>6, <2>2, <2>9, <2>10 DEF x, q
<1>9. QED
  BY <1>5, <1>8 DEF WholeAt, Whole

LEMMA WholeOf ==
  ASSUME NEW bytes \in Seq(Bytes), NEW k \in Kinds, NEW n \in Nat, NEW lost \in Nat,
         NEW K, NEW B, NEW D, Traced(K, B, D, bytes, k, n, lost),
         NEW h \in 1..Len(bytes), NEW l \in Kinds, NEW m \in Nat,
         Whole(bytes, h, l, m)
  PROVE  /\ bytes[h].is = "F4" /\ bytes[h].of = m
         /\ K[m] = l /\ D[h] = B[m] /\ B[m] \in Nat
<1>1. WireLength(l) \in 8..9 /\ Len(bytes) \in Nat
  BY WireFacts
<1>2. bytes[h].is = Wire(l)[1] /\ bytes[h].of = m
  <2>1. 0 \in 0..(WireLength(l) - 1)
    BY <1>1
  <2>2. bytes[h + 0].is = Wire(l)[0 + 1] /\ bytes[h + 0].of = m
    BY <2>1 DEF Whole
  <2>3. h + 0 = h /\ 0 + 1 = 1
    OBVIOUS
  <2>4. QED
    BY <2>2, <2>3
<1>3. bytes[h].is = "F4"
  <2>1. 1 \in 1..WireLength(l)
    BY <1>1
  <2>2. QED
    BY <1>2, <2>1, WireFacts
<1>4. h + 2 \in 1..Len(bytes) /\ bytes[h + 2].is = l /\ bytes[h + 2].of = m
  <2>1. 2 \in 0..(WireLength(l) - 1)
    BY <1>1
  <2>2. bytes[h + 2].is = Wire(l)[2 + 1] /\ bytes[h + 2].of = m
    BY <2>1 DEF Whole
  <2>3. Wire(l)[2 + 1] = l
    BY WireFacts
  <2>4. h + WireLength(l) <= Len(bytes) + 1
    BY DEF Whole
  <2>5. h + 2 \in 1..Len(bytes)
    BY <1>1, <2>4
  <2>6. QED
    BY <2>2, <2>3, <2>5
<1>5. D[h] = B[m] /\ B[m] \in Nat
  BY <1>2, <1>3, PlaceOf
<1>6. bytes[h + 2].is = K[m]
  <2>1. bytes[h + 2].is \in Kinds
    BY <1>4
  <2>2. QED
    BY <1>4, <2>1, PlaceOf
<1>7. QED
  BY <1>2, <1>3, <1>4, <1>5, <1>6

\* Of two whole frames the one further on is the later.
LEMMA WholeInOrder ==
  ASSUME NEW bytes \in Seq(Bytes), NEW k \in Kinds, NEW n \in Nat, NEW lost \in Nat,
         NEW K, NEW B, NEW D, Traced(K, B, D, bytes, k, n, lost),
         NEW h \in 1..Len(bytes), NEW l \in Kinds, NEW m \in Nat,
         Whole(bytes, h, l, m),
         NEW x \in 1..Len(bytes), NEW o \in Kinds, NEW q \in Nat,
         Whole(bytes, x, o, q), h < x
  PROVE  q < m
<1>1. K[m] = l /\ D[h] = B[m] /\ B[m] \in Nat
  BY WholeOf
<1>2. K[q] = o /\ D[x] = B[q] /\ B[q] \in Nat
  BY WholeOf
<1>3. D[x] + x <= D[h] + h
  BY DEF Traced
<1> DEFINE bm == B[m]
<1> DEFINE bq == B[q]
<1>4. bm \in Nat /\ bq \in Nat /\ bq + x <= bm + h /\ WireLength(o) \in 8..9
  BY <1>1, <1>2, <1>3, WireFacts
<1>5. m < q => bm + WireLength(o) <= bq
  BY <1>2 DEF Traced
<1>6. m = q => bm = bq
  OBVIOUS
<1> HIDE DEF bm, bq
<1>7. ~(m < q) /\ m # q
  BY <1>4, <1>5, <1>6
<1>8. QED
  BY <1>7

\* A whole frame is not the one under way, and not from before all that the
\* bytes, and the lost ones, can be of.
LEMMA WholeIsPast ==
  ASSUME NEW bytes \in Seq(Bytes), NEW k \in Kinds, NEW n \in Nat, NEW lost \in Nat,
         NEW K, NEW B, NEW D, Traced(K, B, D, bytes, k, n, lost),
         NEW h \in 1..Len(bytes), NEW l \in Kinds, NEW m \in Nat,
         Whole(bytes, h, l, m)
  PROVE  /\ 8 * m <= Len(bytes) + lost
         /\ n < WireLength(k) => m >= 1
         /\ WireLength(l) <= WireLength(k)
<1>1. K[m] = l /\ D[h] = B[m] /\ B[m] \in Nat
  BY WholeOf
<1>2. D[h] + h >= Len(bytes) + 1 /\ D[h] + h <= Len(bytes) + 1 + lost
  BY DEF Traced
<1>3. h + WireLength(l) <= Len(bytes) + 1
  BY DEF Whole
<1>4. n + 8 * m <= B[m] /\ WireLength(K[m]) <= WireLength(k) /\ K[0] = k /\ B[0] = n
  BY DEF Traced
<1>5. WireLength(l) \in 8..9 /\ WireLength(k) \in 8..9 /\ Len(bytes) \in Nat
  BY WireFacts
<1> DEFINE bm == B[m]
<1>6. /\ bm \in Nat /\ bm + h >= Len(bytes) + 1 /\ bm + h <= Len(bytes) + 1 + lost
      /\ n + 8 * m <= bm
  BY <1>1, <1>2, <1>4
<1>7. m = 0 => bm = n /\ l = k
  BY <1>1, <1>4
<1> HIDE DEF bm
<1>8. 8 * m <= Len(bytes) + lost
  BY <1>5, <1>6
<1>9. ASSUME n < WireLength(k) PROVE m >= 1
  <2>1. m = 0 => FALSE
    BY <1>3, <1>5, <1>6, <1>7, <1>9
  <2>2. QED
    BY <2>1
<1>10. QED
  BY <1>1, <1>4, <1>8, <1>9

-----------------------------------------------------------------------------
(* Bytes leave the sensor *)

Longer(B) == [m \in Nat |-> B[m] + 1]

\* What stays of a history when one byte more is sent.
LEMMA TracedOn ==
  ASSUME NEW bytes \in Seq(Bytes), NEW k \in Kinds, NEW n \in Nat, NEW lost \in Nat,
         NEW K, NEW B, NEW D, Traced(K, B, D, bytes, k, n, lost)
  PROVE  /\ Longer(B) \in [Nat -> Nat] /\ Longer(B)[0] = n + 1
         /\ \A m \in Nat : n + 1 + 8 * m <= Longer(B)[m]
         /\ \A m, l \in Nat :
              l < m => Longer(B)[l] + WireLength(K[m]) <= Longer(B)[m]
<1>1. \A m \in Nat : B[m] \in Nat /\ n + 8 * m <= B[m] /\ K[m] \in Kinds
  BY DEF Traced
<1>2. B[0] = n
  BY DEF Traced
<1>3. Longer(B) \in [Nat -> Nat] /\ \A m \in Nat : Longer(B)[m] = B[m] + 1
  <2>1. ASSUME NEW m \in Nat PROVE B[m] + 1 \in Nat
    <3> DEFINE b == B[m]
    <3>1. b \in Nat
      BY <1>1
    <3> HIDE DEF b
    <3>2. b + 1 \in Nat
      BY <3>1
    <3>3. QED
      BY <3>2 DEF b
  <2>2. QED
    BY <2>1 DEF Longer
<1>4. ASSUME NEW m \in Nat PROVE n + 1 + 8 * m <= B[m] + 1
  <2> DEFINE b == B[m]
  <2>1. b \in Nat /\ n + 8 * m <= b
    BY <1>1
  <2> HIDE DEF b
  <2>2. n + 1 + 8 * m <= b + 1
    BY <2>1
  <2>3. QED
    BY <2>2 DEF b
<1>5. ASSUME NEW m \in Nat, NEW l \in Nat, l < m
      PROVE  B[l] + 1 + WireLength(K[m]) <= B[m] + 1
  <2> DEFINE b == B[m]
  <2> DEFINE a == B[l]
  <2> DEFINE w == WireLength(K[m])
  <2>1. b \in Nat /\ a \in Nat /\ w \in 8..9
    BY <1>1, WireFacts
  <2>2. a + w <= b
    BY <1>5 DEF Traced
  <2> HIDE DEF a, b, w
  <2>3. a + 1 + w <= b + 1
    BY <2>1, <2>2
  <2>4. QED
    BY <2>3 DEF a, b, w
<1>6. QED
  BY <1>2, <1>3, <1>4, <1>5

LEMMA TracedArrives ==
  ASSUME NEW bytes \in Seq(Bytes), NEW k \in Kinds, NEW n \in Nat, NEW lost \in Nat,
         NEW K, NEW B, NEW D, Traced(K, B, D, bytes, k, n, lost),
         n < WireLength(k), NEW byte \in Bytes,
         byte.is = Wire(k)[n + 1], byte.of = 0
  PROVE  \E E : Traced(K, Longer(B), E, Append(bytes, byte), k, n + 1, lost)
<1> DEFINE N == Len(bytes)
<1> DEFINE more == Append(bytes, byte)
<1> DEFINE C == Longer(B)
<1> DEFINE E == [i \in 1..(N + 1) |-> IF i = N + 1 THEN 1 ELSE D[i] + 1]
<1>1. N \in Nat /\ WireLength(k) \in 8..9
  BY WireFacts
<1>2. /\ Len(more) = N + 1 /\ more[N + 1] = byte
      /\ \A i \in 1..N : more[i] = bytes[i]
  BY AppendProperties
<1>3. /\ C \in [Nat -> Nat] /\ C[0] = n + 1
      /\ \A m \in Nat : n + 1 + 8 * m <= C[m]
      /\ \A m, l \in Nat : l < m => C[l] + WireLength(K[m]) <= C[m]
  BY TracedOn
<1>4. /\ K \in [Nat -> Kinds] /\ K[0] = k
      /\ \A m \in Nat : WireLength(K[m]) <= WireLength(k)
  BY DEF Traced
<1>5. \A i \in 1..N : /\ D[i] \in Nat
                      /\ D[i] + i >= N + 1 /\ D[i] + i <= N + 1 + lost
  BY DEF Traced
<1> HIDE DEF N, more
<1>6. E[N + 1] = 1 /\ E \in [1..(N + 1) -> Nat]
      /\ \A i \in 1..N : E[i] = D[i] + 1
  BY <1>1, <1>5
<1>7. ASSUME NEW i \in 1..N
      PROVE  /\ E[i] + i >= (N + 1) + 1 /\ E[i] + i <= (N + 1) + 1 + lost
             /\ E[i] = D[i] + 1 /\ D[i] \in Nat
  <2> DEFINE d == D[i]
  <2>1. d \in Nat /\ d + i >= N + 1 /\ d + i <= N + 1 + lost /\ E[i] = d + 1
    BY <1>5, <1>6
  <2> HIDE DEF d, E
  <2>2. d + 1 + i >= (N + 1) + 1 /\ d + 1 + i <= (N + 1) + 1 + lost
    BY <1>1, <2>1
  <2>3. QED
    BY <2>1, <2>2 DEF d
<1>8. \A i \in 1..(N + 1) : i = N + 1 \/ i \in 1..N
  BY <1>1
<1> HIDE DEF E
<1>9. ASSUME NEW i \in 1..(N + 1)
      PROVE  E[i] + i >= (N + 1) + 1 /\ E[i] + i <= (N + 1) + 1 + lost
  BY <1>1, <1>6, <1>7, <1>8
<1>10. ASSUME NEW i \in 1..(N + 1), NEW j \in 1..(N + 1), i < j
       PROVE  E[j] + j <= E[i] + i
  <2>1. i \in 1..N
    BY <1>1, <1>10
  <2>2. CASE j = N + 1
    BY <1>1, <1>6, <1>9, <2>2
  <2>3. CASE j \in 1..N
    <3> DEFINE a == D[i]
    <3> DEFINE b == D[j]
    <3>1. b + j <= a + i
      BY <1>10, <2>1, <2>3 DEF Traced, N
    <3>2. a \in Nat /\ b \in Nat /\ E[i] = a + 1 /\ E[j] = b + 1
      BY <1>7, <2>1, <2>3
    <3> HIDE DEF a, b
    <3>3. b + 1 + j <= a + 1 + i
      BY <1>1, <3>1, <3>2
    <3>4. QED
      BY <3>2, <3>3
  <2>4. QED
    BY <1>8, <2>2, <2>3
<1>11. ASSUME NEW i \in 1..(N + 1)
       PROVE  \E p \in 0..(WireLength(K[more[i].of]) - 1) :
                 /\ more[i].is = Wire(K[more[i].of])[p + 1]
                 /\ E[i] + p = C[more[i].of]
  <2>1. CASE i = N + 1
    <3>1. n \in 0..(WireLength(k) - 1) /\ 1 + n = n + 1
      BY <1>1
    <3>2. QED
      BY <1>2, <1>3, <1>4, <1>6, <2>1, <3>1
  <2>2. CASE i \in 1..N
    <3> DEFINE m == bytes[i].of
    <3>1. m \in Nat /\ B[m] \in Nat
      BY <2>2, PlaceOf DEF N
    <3>2. PICK p \in 0..(WireLength(K[m]) - 1) :
            bytes[i].is = Wire(K[m])[p + 1] /\ D[i] + p = B[m]
      BY <2>2 DEF Traced, N
    <3>3. WireLength(K[m]) \in 8..9
      BY <1>4, <3>1, WireFacts
    <3>4. E[i] + p = C[m]
      <4>1. C[m] = B[m] + 1 /\ E[i] = D[i] + 1 /\ D[i] \in Nat /\ p \in Nat
        BY <1>7, <2>2, <3>1, <3>3 DEF Longer
      <4> DEFINE d == D[i]
      <4>2. d \in Nat /\ d + p = B[m]
        BY <3>2, <4>1
      <4> HIDE DEF d
      <4>3. d + 1 + p = d + p + 1
        BY <4>1, <4>2
      <4>4. QED
        BY <4>1, <4>2, <4>3 DEF d
    <3>5. more[i] = bytes[i]
      BY <1>2, <2>2
    <3> HIDE DEF C
    <3>6. QED
      BY <3>2, <3>4, <3>5
  <2>3. QED
    BY <1>8, <2>1, <2>2
<1> HIDE DEF C
<1>12. Traced(K, C, E, more, k, n + 1, lost)
  BY <1>2, <1>3, <1>4, <1>6, <1>9, <1>10, <1>11 DEF Traced
<1>13. QED
  BY <1>12 DEF C, more

LEMMA TracedLost ==
  ASSUME NEW bytes \in Seq(Bytes), NEW k \in Kinds, NEW n \in Nat, NEW lost \in Nat,
         NEW K, NEW B, NEW D, Traced(K, B, D, bytes, k, n, lost)
  PROVE  \E E : Traced(K, Longer(B), E, bytes, k, n + 1, lost + 1)
<1> DEFINE N == Len(bytes)
<1> DEFINE C == Longer(B)
<1> DEFINE E == [i \in 1..N |-> D[i] + 1]
<1>1. N \in Nat
  OBVIOUS
<1>3. /\ C \in [Nat -> Nat] /\ C[0] = n + 1
      /\ \A m \in Nat : n + 1 + 8 * m <= C[m]
      /\ \A m, l \in Nat : l < m => C[l] + WireLength(K[m]) <= C[m]
  BY TracedOn
<1>4. /\ K \in [Nat -> Kinds] /\ K[0] = k
      /\ \A m \in Nat : WireLength(K[m]) <= WireLength(k)
  BY DEF Traced
<1>5. \A i \in 1..N : /\ D[i] \in Nat
                      /\ D[i] + i >= N + 1 /\ D[i] + i <= N + 1 + lost
  BY DEF Traced
<1>6. E \in [1..N -> Nat] /\ \A i \in 1..N : E[i] = D[i] + 1
  BY <1>5
<1> HIDE DEF N, E
<1>7. ASSUME NEW i \in 1..N
      PROVE  E[i] + i >= N + 1 /\ E[i] + i <= N + 1 + (lost + 1)
  <2> DEFINE d == D[i]
  <2>1. d \in Nat /\ d + i >= N + 1 /\ d + i <= N + 1 + lost /\ E[i] = d + 1
    BY <1>5, <1>6
  <2> HIDE DEF d
  <2>2. d + 1 + i >= N + 1 /\ d + 1 + i <= N + 1 + (lost + 1)
    BY <1>1, <2>1
  <2>3. QED
    BY <2>1, <2>2
<1>8. ASSUME NEW i \in 1..N, NEW j \in 1..N, i < j
      PROVE  E[j] + j <= E[i] + i
  <2> DEFINE a == D[i]
  <2> DEFINE b == D[j]
  <2>1. b + j <= a + i
    BY <1>8 DEF Traced, N
  <2>2. a \in Nat /\ b \in Nat /\ E[i] = a + 1 /\ E[j] = b + 1
    BY <1>5, <1>6
  <2> HIDE DEF a, b
  <2>3. b + 1 + j <= a + 1 + i
    BY <1>1, <2>1, <2>2
  <2>4. QED
    BY <2>2, <2>3
<1>9. ASSUME NEW i \in 1..N
      PROVE  \E p \in 0..(WireLength(K[bytes[i].of]) - 1) :
                /\ bytes[i].is = Wire(K[bytes[i].of])[p + 1]
                /\ E[i] + p = C[bytes[i].of]
  <2> DEFINE m == bytes[i].of
  <2>1. m \in Nat /\ B[m] \in Nat
    BY PlaceOf DEF N
  <2>2. PICK p \in 0..(WireLength(K[m]) - 1) :
          bytes[i].is = Wire(K[m])[p + 1] /\ D[i] + p = B[m]
    BY DEF Traced, N
  <2>3. WireLength(K[m]) \in 8..9
    BY <1>4, <2>1, WireFacts
  <2>4. E[i] + p = C[m]
    <3>1. C[m] = B[m] + 1 /\ E[i] = D[i] + 1 /\ D[i] \in Nat /\ p \in Nat
      BY <1>5, <1>6, <2>1, <2>3 DEF Longer
    <3> DEFINE d == D[i]
    <3>2. d \in Nat /\ d + p = B[m]
      BY <2>2, <3>1
    <3> HIDE DEF d
    <3>3. d + 1 + p = d + p + 1
      BY <3>1, <3>2
    <3>4. QED
      BY <3>1, <3>2, <3>3 DEF d
  <2> HIDE DEF C
  <2>5. QED
    BY <2>2, <2>4
<1> HIDE DEF C
<1>10. Traced(K, C, E, bytes, k, n + 1, lost + 1)
  BY <1>3, <1>4, <1>6, <1>7, <1>8, <1>9 DEF Traced, N
<1>11. QED
  BY <1>10 DEF C

LEMMA BackIs ==
  ASSUME NEW bytes \in Seq(Bytes)
  PROVE  /\ Back(bytes) \in Seq(Bytes) /\ Len(Back(bytes)) = Len(bytes)
         /\ \A i \in 1..Len(bytes) :
              /\ Back(bytes)[i].is = bytes[i].is
              /\ Back(bytes)[i].of = bytes[i].of + 1
              /\ bytes[i].of \in Nat
<1>1. \A i \in 1..Len(bytes) : bytes[i] \in Bytes
  BY ElementOfSeq
<1>2. \A b \in Bytes : /\ [b EXCEPT !.of = @ + 1] \in Bytes
                       /\ [b EXCEPT !.of = @ + 1].is = b.is
                       /\ [b EXCEPT !.of = @ + 1].of = b.of + 1
                       /\ b.of \in Nat
  BY DEF Bytes
<1>3. \A i \in 1..Len(bytes) : [bytes[i] EXCEPT !.of = @ + 1] \in Bytes
  BY <1>1, <1>2
<1>4. Len(bytes) \in Nat
  OBVIOUS
<1>5. Back(bytes) \in Seq(Bytes) /\ Len(Back(bytes)) = Len(bytes)
  BY <1>3, <1>4 DEF Back
<1>6. \A i \in 1..Len(bytes) : Back(bytes)[i] = [bytes[i] EXCEPT !.of = @ + 1]
  BY DEF Back
<1>7. QED
  BY <1>1, <1>2, <1>5, <1>6

LEMMA BackConcat ==
  ASSUME NEW a \in Seq(Bytes), NEW b \in Seq(Bytes)
  PROVE  Back(a) \o Back(b) = Back(a \o b)
<1>1. /\ a \o b \in Seq(Bytes) /\ Len(a \o b) = Len(a) + Len(b)
      /\ \A i \in 1..(Len(a) + Len(b)) :
           (a \o b)[i] = IF i <= Len(a) THEN a[i] ELSE b[i - Len(a)]
  BY ConcatProperties
<1>2. /\ Back(a) \in Seq(Bytes) /\ Back(b) \in Seq(Bytes)
      /\ Len(Back(a)) = Len(a) /\ Len(Back(b)) = Len(b)
      /\ Back(a \o b) \in Seq(Bytes) /\ Len(Back(a \o b)) = Len(a) + Len(b)
  BY <1>1, BackIs
<1>3. /\ Back(a) \o Back(b) \in Seq(Bytes)
      /\ Len(Back(a) \o Back(b)) = Len(Back(a)) + Len(Back(b))
      /\ \A i \in 1..(Len(Back(a)) + Len(Back(b))) :
           (Back(a) \o Back(b))[i] =
             IF i <= Len(Back(a)) THEN Back(a)[i] ELSE Back(b)[i - Len(Back(a))]
  <2> DEFINE c == Back(a)
  <2> DEFINE d == Back(b)
  <2>1. c \in Seq(Bytes) /\ d \in Seq(Bytes)
    BY <1>2
  <2> HIDE DEF c, d
  <2>2. /\ c \o d \in Seq(Bytes) /\ Len(c \o d) = Len(c) + Len(d)
        /\ \A i \in 1..(Len(c) + Len(d)) :
             (c \o d)[i] = IF i <= Len(c) THEN c[i] ELSE d[i - Len(c)]
    BY <2>1, ConcatProperties
  <2>3. QED
    BY <2>2 DEF c, d
<1>4. Len(a) \in Nat /\ Len(b) \in Nat
  OBVIOUS
<1>5. ASSUME NEW i \in 1..(Len(a) + Len(b))
      PROVE  (Back(a) \o Back(b))[i] = Back(a \o b)[i]
  <2>1. Back(a \o b)[i] = [(a \o b)[i] EXCEPT !.of = @ + 1]
    BY <1>1 DEF Back
  <2>2. CASE i <= Len(a)
    <3>1. i \in 1..Len(a)
      BY <1>4, <2>2
    <3>2. Back(a)[i] = [a[i] EXCEPT !.of = @ + 1]
      BY <3>1 DEF Back
    <3>3. (a \o b)[i] = a[i] /\ (Back(a) \o Back(b))[i] = Back(a)[i]
      BY <1>1, <1>2, <1>3, <2>2
    <3>4. QED
      BY <2>1, <3>2, <3>3
  <2>3. CASE ~(i <= Len(a))
    <3>1. i - Len(a) \in 1..Len(b)
      BY <1>4, <2>3
    <3>2. Back(b)[i - Len(a)] = [b[i - Len(a)] EXCEPT !.of = @ + 1]
      BY <3>1 DEF Back
    <3>3. (a \o b)[i] = b[i - Len(a)]
          /\ (Back(a) \o Back(b))[i] = Back(b)[i - Len(a)]
      BY <1>1, <1>2, <1>3, <2>3
    <3>4. QED
      BY <2>1, <3>2, <3>3
  <2>4. QED
    BY <2>2, <2>3
<1>6. QED
  BY <1>2, <1>3, <1>5, SeqEqual

\* The frame under way is whole, and the next is of a kind as long or longer.
LEMMA TracedNext ==
  ASSUME NEW bytes \in Seq(Bytes), NEW k \in Kinds, NEW lost \in Nat,
         NEW K, NEW B, NEW D, Traced(K, B, D, bytes, k, WireLength(k), lost),
         NEW next \in Kinds, WireLength(k) <= WireLength(next)
  PROVE  \E L, C : Traced(L, C, D, Back(bytes), next, 0, lost)
<1> DEFINE L == [m \in Nat |-> IF m = 0 THEN next ELSE K[m - 1]]
<1> DEFINE C == [m \in Nat |-> IF m = 0 THEN 0 ELSE B[m - 1]]
<1> DEFINE w == WireLength(k)
<1>1. /\ w \in 8..9 /\ WireLength(next) \in 8..9 /\ w <= WireLength(next)
  BY WireFacts
<1>2. /\ B \in [Nat -> Nat] /\ B[0] = w /\ K \in [Nat -> Kinds]
      /\ \A m \in Nat : w + 8 * m <= B[m] /\ WireLength(K[m]) <= w
      /\ \A m, l \in Nat : l < m => B[l] + WireLength(K[m]) <= B[m]
  BY DEF Traced
<1>3. \A m \in Nat : m = 0 \/ m - 1 \in Nat
  OBVIOUS
<1>4. L \in [Nat -> Kinds] /\ C \in [Nat -> Nat] /\ L[0] = next /\ C[0] = 0
  BY <1>2, <1>3
<1>5. \A m \in Nat : C[m + 1] = B[m] /\ L[m + 1] = K[m]
  <2> SUFFICES ASSUME NEW m \in Nat PROVE C[m + 1] = B[m] /\ L[m + 1] = K[m]
    OBVIOUS
  <2>1. m + 1 \in Nat /\ m + 1 # 0 /\ m + 1 - 1 = m
    OBVIOUS
  <2>2. QED
    BY <2>1
<1> HIDE DEF L, C
<1>6. ASSUME NEW m \in Nat
      PROVE  0 + 8 * m <= C[m] /\ WireLength(L[m]) <= WireLength(next)
  <2>1. CASE m = 0
    BY <1>1, <1>4, <2>1
  <2>2. CASE m # 0
    <3>1. PICK l \in Nat : m = l + 1
      BY <1>3, <2>2
    <3> DEFINE b == B[l]
    <3> DEFINE v == WireLength(K[l])
    <3>2. C[m] = b /\ WireLength(L[m]) = v
      BY <1>5, <3>1
    <3>3. b \in Nat /\ w + 8 * l <= b /\ v <= w
      BY <1>2
    <3>3a. v \in 8..9
      BY <1>2, WireFacts
    <3> HIDE DEF b, v, w
    <3>4. 0 + 8 * m <= b /\ v <= WireLength(next)
      BY <1>1, <3>1, <3>3, <3>3a
    <3>5. QED
      BY <3>2, <3>4
  <2>3. QED
    BY <2>1, <2>2
<1>7. ASSUME NEW m \in Nat, NEW l \in Nat, l < m
      PROVE  C[l] + WireLength(L[m]) <= C[m]
  <2>1. PICK j \in Nat : m = j + 1
    BY <1>3, <1>7
  <2> DEFINE b == B[j]
  <2> DEFINE v == WireLength(K[j])
  <2>1a. C[m] = b /\ WireLength(L[m]) = v
    BY <1>5, <2>1
  <2>1b. v \in 8..9
    BY <1>2, WireFacts
  <2>1c. b \in Nat /\ v <= w /\ w + 8 * j <= b
    BY <1>2
  <2>2. C[m] = b /\ WireLength(L[m]) = v /\ b \in Nat /\ v \in 8..9 /\ v <= w
        /\ w + 8 * j <= b
    BY <2>1a, <2>1b, <2>1c
  <2>3. CASE l = 0
    <3> HIDE DEF b, v, w
    <3>1. 0 + v <= b
      BY <1>1, <2>2
    <3>2. QED
      BY <1>4, <2>2, <2>3, <3>1
  <2>4. CASE l # 0
    <3>1. PICK i \in Nat : l = i + 1
      BY <1>3, <2>4
    <3>2. i < j
      BY <1>7, <2>1, <3>1
    <3>3. B[i] + v <= b /\ C[l] = B[i]
      BY <1>2, <1>5, <3>1, <3>2
    <3>4. QED
      BY <2>2, <3>3
  <2>5. QED
    BY <2>3, <2>4
<1>8. /\ Len(Back(bytes)) = Len(bytes)
      /\ \A i \in 1..Len(bytes) :
           /\ Back(bytes)[i].is = bytes[i].is
           /\ Back(bytes)[i].of = bytes[i].of + 1 /\ bytes[i].of \in Nat
  BY BackIs
<1>9. ASSUME NEW i \in 1..Len(bytes)
      PROVE  \E p \in 0..(WireLength(L[Back(bytes)[i].of]) - 1) :
                /\ Back(bytes)[i].is = Wire(L[Back(bytes)[i].of])[p + 1]
                /\ D[i] + p = C[Back(bytes)[i].of]
  <2>1. \E p \in 0..(WireLength(K[bytes[i].of]) - 1) :
           /\ bytes[i].is = Wire(K[bytes[i].of])[p + 1]
           /\ D[i] + p = B[bytes[i].of]
    BY DEF Traced
  <2>2. L[Back(bytes)[i].of] = K[bytes[i].of] /\ C[Back(bytes)[i].of] = B[bytes[i].of]
    BY <1>5, <1>8
  <2>3. QED
    BY <1>8, <2>1, <2>2
<1>10. /\ D \in [1..Len(bytes) -> Nat]
       /\ \A i \in 1..Len(bytes) :
            D[i] + i >= Len(bytes) + 1 /\ D[i] + i <= Len(bytes) + 1 + lost
       /\ \A i, j \in 1..Len(bytes) : i < j => D[j] + j <= D[i] + i
  BY DEF Traced
<1>11. Traced(L, C, D, Back(bytes), next, 0, lost)
  BY <1>4, <1>6, <1>7, <1>8, <1>9, <1>10 DEF Traced
<1>12. QED
  BY <1>11

\* The buffer is what Feed leaves of the bytes.
LEMMA TracedRest ==
  ASSUME NEW bytes \in Seq(Bytes), NEW k \in Kinds, NEW n \in Nat, NEW lost \in Nat,
         NEW K, NEW B, NEW D, Traced(K, B, D, bytes, k, n, lost),
         NEW r \in 1..(Len(bytes) + 1), NEW left \in Seq(Bytes),
         Len(left) = Len(bytes) + 1 - r,
         \A i \in 1..Len(left) : left[i] = bytes[r - 1 + i]
  PROVE  \E E : Traced(K, B, E, left, k, n, lost)
<1> DEFINE N == Len(bytes)
<1> DEFINE M == Len(left)
<1> DEFINE E == [i \in 1..M |-> D[r - 1 + i]]
<1>1. N \in Nat /\ M \in Nat /\ M = N + 1 - r /\ r \in 1..(N + 1)
  OBVIOUS
<1> HIDE DEF N, M
<1>2. \A i \in 1..M : r - 1 + i \in 1..N
  BY <1>1
<1>3. \A i \in 1..N : D[i] \in Nat
                      /\ D[i] + i >= N + 1 /\ D[i] + i <= N + 1 + lost
  BY DEF Traced, N
<1>4. E \in [1..M -> Nat] /\ \A i \in 1..M : E[i] = D[r - 1 + i]
  BY <1>2, <1>3
<1> HIDE DEF E
<1>5. ASSUME NEW i \in 1..M
      PROVE  E[i] + i >= M + 1 /\ E[i] + i <= M + 1 + lost
  <2> DEFINE x == r - 1 + i
  <2> DEFINE d == D[x]
  <2>1. x \in 1..N /\ x = r - 1 + i
    BY <1>2
  <2> HIDE DEF x
  <2>2. d \in Nat /\ d + x >= N + 1 /\ d + x <= N + 1 + lost
    BY <1>3, <2>1
  <2>3. E[i] = d
    BY <1>4 DEF x
  <2> HIDE DEF d
  <2>4. d + i >= M + 1 /\ d + i <= M + 1 + lost
    BY <1>1, <2>1, <2>2
  <2>5. QED
    BY <2>3, <2>4
<1>6. ASSUME NEW i \in 1..M, NEW j \in 1..M, i < j
      PROVE  E[j] + j <= E[i] + i
  <2> DEFINE x == r - 1 + i
  <2> DEFINE y == r - 1 + j
  <2> DEFINE a == D[x]
  <2> DEFINE b == D[y]
  <2>1. x \in 1..N /\ y \in 1..N /\ x < y /\ x = r - 1 + i /\ y = r - 1 + j
    BY <1>1, <1>2, <1>6
  <2>2. E[i] = a /\ E[j] = b
    BY <1>4
  <2> HIDE DEF x, y
  <2>3. b + y <= a + x /\ a \in Nat /\ b \in Nat
    BY <1>3, <2>1 DEF Traced, N
  <2> HIDE DEF a, b
  <2>4. b + j <= a + i
    BY <1>1, <2>1, <2>3
  <2>5. QED
    BY <2>2, <2>4
<1>7. ASSUME NEW i \in 1..M
      PROVE  \E p \in 0..(WireLength(K[left[i].of]) - 1) :
                /\ left[i].is = Wire(K[left[i].of])[p + 1]
                /\ E[i] + p = B[left[i].of]
  <2> DEFINE x == r - 1 + i
  <2>1. x \in 1..N /\ left[i] = bytes[x] /\ E[i] = D[x]
    BY <1>2, <1>4 DEF M
  <2> HIDE DEF x
  <2>2. QED
    BY <2>1 DEF Traced, N
<1>8. /\ K \in [Nat -> Kinds] /\ K[0] = k
      /\ B \in [Nat -> Nat] /\ B[0] = n
      /\ \A m \in Nat : n + 8 * m <= B[m] /\ WireLength(K[m]) <= WireLength(k)
      /\ \A m, l \in Nat : l < m => B[l] + WireLength(K[m]) <= B[m]
  BY DEF Traced
<1>9. Traced(K, B, E, left, k, n, lost)
  BY <1>4, <1>5, <1>6, <1>7, <1>8, Zenon DEF Traced, M
<1>10. QED
  BY <1>9

\* The sensor has sent frames of this kind before the line was opened.
LEMMA TracedOpened ==
  ASSUME NEW k \in Kinds, NEW n \in Nat
  PROVE  \E K, B, D : Traced(K, B, D, <<>>, k, n, 0)
<1> DEFINE w == WireLength(k)
<1> DEFINE K == [m \in Nat |-> k]
<1> DEFINE B == [m \in Nat |-> n + m * w]
<1> DEFINE D == [i \in 1..0 |-> 0]
<1>1. w = 8 \/ w = 9
  BY DEF WireLength
<1>2. \A m \in Nat : m * w \in Nat /\ 8 * m <= m * w
  BY <1>1
<1>3. ASSUME NEW m \in Nat, NEW l \in Nat, l < m
      PROVE  n + l * w + w <= n + m * w
  <2>1. CASE w = 8
    BY <1>3, <2>1
  <2>2. CASE w = 9
    BY <1>3, <2>2
  <2>3. QED
    BY <1>1, <2>1, <2>2
<1>4. Len(<<>>) = 0 /\ 1..0 = {}
  OBVIOUS
<1>5. \A m \in Nat : n + m * w \in Nat /\ n + 8 * m <= n + m * w
  BY <1>2
<1>6. 0 * w = 0
  BY <1>1
<1>7. /\ B \in [Nat -> Nat] /\ B[0] = n /\ \A m \in Nat : B[m] = n + m * w
  BY <1>5, <1>6
<1>8. K \in [Nat -> Kinds] /\ \A m \in Nat : K[m] = k
  OBVIOUS
<1>9. D \in [1..0 -> Nat]
  BY <1>4
<1> HIDE DEF K, B, D
<1>10. Traced(K, B, D, <<>>, k, n, 0)
  <2>1. \A m \in Nat : n + 8 * m <= B[m] /\ WireLength(K[m]) <= WireLength(k)
    BY <1>1, <1>5, <1>7, <1>8
  <2>2. \A m, l \in Nat : l < m => B[l] + WireLength(K[m]) <= B[m]
    BY <1>3, <1>7, <1>8
  <2>3. QED
    <3> DEFINE none == <<>>
    <3>1. Len(none) = 0
      BY <1>4
    <3> HIDE DEF none
    <3>2. Traced(K, B, D, none, k, n, 0)
      <4>1. 1..Len(none) = {}
        BY <1>4, <3>1
      <4>2. D \in [1..Len(none) -> Nat] /\ K[0] = k
        BY <1>8, <1>9, <3>1
      <4>3. QED
        BY <1>7, <1>8, <2>1, <2>2, <4>1, <4>2, Zenon DEF Traced
    <3>3. QED
      BY <3>2 DEF none
<1>11. QED
  BY <1>10

-----------------------------------------------------------------------------
(* What is whole, and what is unbroken, as bytes arrive *)

\* All of the frame under way that has been sent, n bytes of it, is there.
Intact(bytes, k, n) ==
  /\ n <= Len(bytes)
  /\ \A j \in 1..n : /\ bytes[Len(bytes) - n + j].is = Wire(k)[j]
                     /\ bytes[Len(bytes) - n + j].of = 0

LEMMA IntactArrives ==
  ASSUME NEW bytes \in Seq(Bytes), NEW k \in Kinds, NEW n \in Nat,
         NEW byte \in Bytes, byte.is = Wire(k)[n + 1], byte.of = 0
  PROVE  Intact(Append(bytes, byte), k, n + 1) <=> Intact(bytes, k, n)
<1> DEFINE N == Len(bytes)
<1> DEFINE more == Append(bytes, byte)
<1>1. /\ N \in Nat /\ Len(more) = N + 1 /\ more[N + 1] = byte
      /\ \A i \in 1..N : more[i] = bytes[i]
  BY AppendProperties
<1> HIDE DEF N, more
<1>2. ASSUME n <= N, NEW j \in 1..n
      PROVE  more[(N + 1) - (n + 1) + j] = bytes[N - n + j]
  <2>1. N - n + j \in 1..N /\ (N + 1) - (n + 1) + j = N - n + j
    BY <1>1, <1>2
  <2>2. QED
    BY <1>1, <2>1
<1>3. ASSUME Intact(bytes, k, n) PROVE Intact(more, k, n + 1)
  <2>1. /\ n <= N
        /\ \A j \in 1..n : bytes[N - n + j].is = Wire(k)[j] /\ bytes[N - n + j].of = 0
    BY <1>3 DEF Intact, N
  <2>2. ASSUME NEW j \in 1..(n + 1)
        PROVE  /\ more[(N + 1) - (n + 1) + j].is = Wire(k)[j]
               /\ more[(N + 1) - (n + 1) + j].of = 0
    <3>1. CASE j = n + 1
      <4>1. (N + 1) - (n + 1) + j = N + 1
        BY <1>1, <3>1
      <4>2. QED
        BY <1>1, <3>1, <4>1
    <3>2. CASE j # n + 1
      <4>1. j \in 1..n
        BY <3>2
      <4>2. QED
        BY <1>2, <2>1, <4>1
    <3>3. QED
      BY <3>1, <3>2
  <2>3. n + 1 <= N + 1
    BY <1>1, <2>1
  <2>4. QED
    BY <1>1, <2>2, <2>3 DEF Intact
<1>4. ASSUME Intact(more, k, n + 1) PROVE Intact(bytes, k, n)
  <2>1. /\ n + 1 <= N + 1
        /\ \A j \in 1..(n + 1) : /\ more[(N + 1) - (n + 1) + j].is = Wire(k)[j]
                                 /\ more[(N + 1) - (n + 1) + j].of = 0
    BY <1>1, <1>4 DEF Intact
  <2>2. n <= N
    BY <1>1, <2>1
  <2>3. \A j \in 1..n : j \in 1..(n + 1)
    OBVIOUS
  <2>4. \A j \in 1..n : bytes[N - n + j].is = Wire(k)[j] /\ bytes[N - n + j].of = 0
    BY <1>2, <2>1, <2>2, <2>3
  <2>5. QED
    BY <2>2, <2>4 DEF Intact, N
<1>5. QED
  BY <1>3, <1>4 DEF more

\* After a lost byte it is not all there.
LEMMA LostIsMissing ==
  ASSUME NEW bytes \in Seq(Bytes), NEW k \in Kinds, NEW n \in Nat, NEW lost \in Nat,
         NEW K, NEW B, NEW D, Traced(K, B, D, bytes, k, n, lost),
         Intact(bytes, k, n + 1)
  PROVE  FALSE
<1> DEFINE i == Len(bytes) - n
<1>1. Len(bytes) \in Nat /\ n + 1 <= Len(bytes)
  BY DEF Intact
<1>2. bytes[i].is = "F4" /\ bytes[i].of = 0
  <2>1. 1 \in 1..(n + 1) /\ Len(bytes) - (n + 1) + 1 = i
    BY <1>1
  <2>2. /\ bytes[Len(bytes) - (n + 1) + 1].is = Wire(k)[1]
        /\ bytes[Len(bytes) - (n + 1) + 1].of = 0
    BY <2>1 DEF Intact
  <2>3. 1 \in 1..WireLength(k)
    BY WireFacts
  <2>4. QED
    BY <2>1, <2>2, <2>3, WireFacts
<1>3. i \in 1..Len(bytes) /\ i + n = Len(bytes)
  BY <1>1
<1> HIDE DEF i
<1>4. D[i] = B[0] /\ B[0] = n
  <2>1. D[i] = B[0]
    BY <1>2, <1>3, PlaceOf, SMTT(30)
  <2>2. QED
    BY <2>1 DEF Traced
<1>5. D[i] + i >= Len(bytes) + 1
  BY <1>3 DEF Traced
<1>6. n + i >= Len(bytes) + 1
  BY <1>4, <1>5
<1>7. QED
  BY <1>1, <1>3, <1>6

\* A frame that is all there is a whole one.
LEMMA IntactIsWhole ==
  ASSUME NEW bytes \in Seq(Bytes), NEW k \in Kinds, Intact(bytes, k, WireLength(k))
  PROVE  0 \in WholeIn(bytes)
<1> DEFINE N == Len(bytes)
<1> DEFINE w == WireLength(k)
<1>1. N \in Nat /\ w \in 8..9
  BY WireFacts
<1>2. /\ w <= N
      /\ \A j \in 1..w : bytes[N - w + j].is = Wire(k)[j] /\ bytes[N - w + j].of = 0
  BY DEF Intact
<1> DEFINE h == N - w + 1
<1>3. h \in 1..N /\ h + w <= N + 1
  BY <1>1, <1>2
<1>4. ASSUME NEW j \in 0..(w - 1)
      PROVE  bytes[h + j].is = Wire(k)[j + 1] /\ bytes[h + j].of = 0
  <2>1. j + 1 \in 1..w /\ h + j = N - w + (j + 1)
    BY <1>1
  <2>2. /\ bytes[N - w + (j + 1)].is = Wire(k)[j + 1]
        /\ bytes[N - w + (j + 1)].of = 0
    BY <1>2, <2>1
  <2>3. QED
    BY <2>1, <2>2
<1> HIDE DEF h
<1>5. Whole(bytes, h, k, 0)
  BY <1>3, <1>4 DEF Whole
<1>6. QED
  BY <1>3, <1>5 DEF WholeIn

LEMMA WholeIsIntact ==
  ASSUME NEW bytes \in Seq(Bytes), NEW k \in Kinds, NEW h \in 1..Len(bytes),
         Whole(bytes, h, k, 0), h + WireLength(k) = Len(bytes) + 1
  PROVE  Intact(bytes, k, WireLength(k))
<1> DEFINE N == Len(bytes)
<1> DEFINE w == WireLength(k)
<1>1. N \in Nat /\ w \in 8..9 /\ h \in 1..N /\ h + w = N + 1
  BY WireFacts
<1>2. \A j \in 0..(w - 1) : bytes[h + j].is = Wire(k)[j + 1] /\ bytes[h + j].of = 0
  BY DEF Whole
<1>3. ASSUME NEW j \in 1..w
      PROVE  bytes[N - w + j].is = Wire(k)[j] /\ bytes[N - w + j].of = 0
  <2>1. j - 1 \in 0..(w - 1) /\ h + (j - 1) = N - w + j /\ (j - 1) + 1 = j
    BY <1>1
  <2>2. bytes[h + (j - 1)].is = Wire(k)[(j - 1) + 1] /\ bytes[h + (j - 1)].of = 0
    BY <1>2, <2>1
  <2>3. QED
    BY <2>1, <2>2
<1>4. w <= N
  BY <1>1
<1>5. QED
  BY <1>3, <1>4 DEF Intact

\* What was whole stays so.
LEMMA WholeStays ==
  ASSUME NEW bytes \in Seq(Bytes), NEW byte \in Bytes
  PROVE  WholeIn(bytes) \subseteq WholeIn(Append(bytes, byte))
<1> DEFINE N == Len(bytes)
<1> DEFINE more == Append(bytes, byte)
<1>1. /\ N \in Nat /\ Len(more) = N + 1
      /\ \A i \in 1..N : more[i] = bytes[i]
  BY AppendProperties
<1> HIDE DEF N, more
<1>2. ASSUME NEW m \in Nat, NEW h \in 1..N, NEW k \in Kinds, Whole(bytes, h, k, m)
      PROVE  Whole(more, h, k, m)
  <2>1. WireLength(k) \in 8..9 /\ h + WireLength(k) <= N + 1
    BY <1>2, WireFacts DEF Whole, N
  <2>2. \A j \in 0..(WireLength(k) - 1) : h + j \in 1..N
    BY <1>1, <2>1
  <2>3. \A j \in 0..(WireLength(k) - 1) : more[h + j] = bytes[h + j]
    BY <1>1, <2>2
  <2>4. h + WireLength(k) <= (N + 1) + 1
    BY <1>1, <2>1
  <2>5. QED
    BY <1>1, <1>2, <2>3, <2>4 DEF Whole
<1>3. \A h \in 1..N : h \in 1..(N + 1)
  BY <1>1
<1>4. QED
  BY <1>1, <1>2, <1>3 DEF WholeIn, N, more

\* And the byte that arrives can make no other whole than the one under way.
LEMMA WholeNew ==
  ASSUME NEW bytes \in Seq(Bytes), NEW k \in Kinds, NEW n \in Nat, NEW lost \in Nat,
         NEW byte \in Bytes, byte.is = Wire(k)[n + 1], byte.of = 0,
         n < WireLength(k),
         NEW K, NEW B, NEW D,
         Traced(K, B, D, Append(bytes, byte), k, n + 1, lost),
         NEW m \in WholeIn(Append(bytes, byte)), m \notin WholeIn(bytes)
  PROVE  m = 0 /\ n + 1 = WireLength(k) /\ Intact(bytes, k, n)
<1> DEFINE N == Len(bytes)
<1> DEFINE more == Append(bytes, byte)
<1>1. /\ N \in Nat /\ Len(more) = N + 1 /\ more[N + 1] = byte
      /\ more \in Seq(Bytes)
      /\ \A i \in 1..N : more[i] = bytes[i]
  BY AppendProperties
<1> HIDE DEF N, more
<1>2. PICK h \in 1..(N + 1), l \in Kinds : Whole(more, h, l, m)
  BY <1>1 DEF WholeIn, more
<1>3. m \in Nat /\ WireLength(l) \in 8..9 /\ WireLength(k) \in 8..9
  BY WireFacts DEF WholeIn
<1>4. /\ h + WireLength(l) <= (N + 1) + 1
      /\ \A j \in 0..(WireLength(l) - 1) :
           more[h + j].is = Wire(l)[j + 1] /\ more[h + j].of = m
  BY <1>1, <1>2 DEF Whole
<1>5. h + WireLength(l) = (N + 1) + 1
  <2>1. SUFFICES ASSUME h + WireLength(l) <= N + 1 PROVE FALSE
    BY <1>1, <1>3, <1>4
  <2>2. h \in 1..N /\ \A j \in 0..(WireLength(l) - 1) : h + j \in 1..N
    BY <1>1, <1>3, <2>1
  <2>3. \A j \in 0..(WireLength(l) - 1) : more[h + j] = bytes[h + j]
    BY <1>1, <2>2
  <2>4. Whole(bytes, h, l, m)
    BY <1>4, <2>1, <2>3 DEF Whole, N
  <2>5. QED
    BY <1>3, <2>2, <2>4 DEF WholeIn, N
<1>6. byte.is = Wire(l)[WireLength(l)] /\ byte.of = m
  <2>1. WireLength(l) - 1 \in 0..(WireLength(l) - 1)
        /\ h + (WireLength(l) - 1) = N + 1
        /\ (WireLength(l) - 1) + 1 = WireLength(l)
    BY <1>1, <1>3, <1>5
  <2>2. /\ more[h + (WireLength(l) - 1)].is = Wire(l)[(WireLength(l) - 1) + 1]
        /\ more[h + (WireLength(l) - 1)].of = m
    BY <1>4, <2>1
  <2>3. QED
    BY <1>1, <2>1, <2>2
<1>7. m = 0
  BY <1>6
<1>8. n + 1 = WireLength(k)
  <2>1. WireLength(l) \in 1..WireLength(l) /\ n + 1 \in 1..WireLength(k)
    BY <1>3
  <2>2. Wire(l)[WireLength(l)] = "F7"
    BY <2>1, WireFacts
  <2>3. Wire(k)[n + 1] = "F7"
    BY <1>6, <2>2
  <2>4. QED
    BY <2>1, <2>3, WireFacts
<1>9. l = k
  <2>1. Traced(K, B, D, more, k, n + 1, lost)
    BY DEF more
  <2>2. K[m] = l
    BY <1>1, <1>2, <1>3, <2>1, WholeOf
  <2>3. QED
    BY <1>7, <2>1, <2>2 DEF Traced
<1>10. Intact(more, k, n + 1)
  BY <1>1, <1>2, <1>5, <1>7, <1>8, <1>9, WholeIsIntact
<1>11. QED
  BY <1>7, <1>8, <1>10, IntactArrives DEF more

LEMMA WholeInBack ==
  ASSUME NEW bytes \in Seq(Bytes)
  PROVE  WholeIn(Back(bytes)) = {m + 1 : m \in WholeIn(bytes)}
<1> DEFINE N == Len(bytes)
<1> DEFINE older == Back(bytes)
<1>1. /\ older \in Seq(Bytes) /\ Len(older) = N /\ N \in Nat
      /\ \A i \in 1..N : /\ older[i].is = bytes[i].is
                         /\ older[i].of = bytes[i].of + 1
                         /\ bytes[i].of \in Nat
  BY BackIs
<1> HIDE DEF N, older
<1>2. ASSUME NEW h \in 1..N, NEW k \in Kinds, h + WireLength(k) <= N + 1,
             NEW j \in 0..(WireLength(k) - 1)
      PROVE  h + j \in 1..N
  <2>1. WireLength(k) \in 8..9
    BY WireFacts
  <2>2. QED
    BY <1>1, <1>2, <2>1
<1>3. ASSUME NEW m \in Nat, NEW h \in 1..N, NEW k \in Kinds, Whole(bytes, h, k, m)
      PROVE  Whole(older, h, k, m + 1)
  <2>1. h + WireLength(k) <= N + 1
    BY <1>3 DEF Whole, N
  <2>2. \A j \in 0..(WireLength(k) - 1) : h + j \in 1..N
    BY <1>2, <2>1
  <2>3. QED
    BY <1>1, <1>3, <2>1, <2>2 DEF Whole
<1>4. ASSUME NEW m \in Nat, NEW h \in 1..N, NEW k \in Kinds, Whole(older, h, k, m)
      PROVE  m - 1 \in Nat /\ Whole(bytes, h, k, m - 1)
  <2>1. h + WireLength(k) <= N + 1
    BY <1>1, <1>4 DEF Whole
  <2>2. \A j \in 0..(WireLength(k) - 1) : h + j \in 1..N
    BY <1>2, <2>1
  <2>3. ASSUME NEW j \in 0..(WireLength(k) - 1)
        PROVE  /\ bytes[h + j].is = Wire(k)[j + 1]
               /\ bytes[h + j].of = m - 1 /\ m - 1 \in Nat
    <3>1. older[h + j].is = Wire(k)[j + 1] /\ older[h + j].of = m
      BY <1>4 DEF Whole
    <3>2. bytes[h + j].of + 1 = m /\ bytes[h + j].of \in Nat
          /\ bytes[h + j].is = Wire(k)[j + 1]
      BY <1>1, <2>2, <3>1
    <3>3. QED
      BY <3>2
  <2>4. 0 \in 0..(WireLength(k) - 1)
    BY WireFacts
  <2>5. QED
    BY <2>1, <2>3, <2>4 DEF Whole, N
<1>5. ASSUME NEW m \in WholeIn(bytes) PROVE m + 1 \in WholeIn(older)
  <2>1. PICK h \in 1..N, k \in Kinds : Whole(bytes, h, k, m)
    BY <1>5 DEF WholeIn, N
  <2>2. m \in Nat /\ m + 1 \in Nat
    BY DEF WholeIn
  <2>3. QED
    BY <1>1, <1>3, <2>1, <2>2 DEF WholeIn
<1>6. ASSUME NEW m \in WholeIn(older) PROVE \E l \in WholeIn(bytes) : m = l + 1
  <2>1. PICK h \in 1..N, k \in Kinds : Whole(older, h, k, m)
    BY <1>1, <1>6 DEF WholeIn
  <2>2. m \in Nat
    BY DEF WholeIn
  <2>3. m - 1 \in Nat /\ Whole(bytes, h, k, m - 1)
    BY <1>4, <2>1, <2>2
  <2>4. m - 1 \in WholeIn(bytes) /\ m = (m - 1) + 1
    BY <2>1, <2>2, <2>3 DEF WholeIn, N
  <2>5. QED
    BY <2>4
<1>7. QED
  BY <1>5, <1>6 DEF older

-----------------------------------------------------------------------------
(* What a read leaves *)

LEMMA RestOf ==
  ASSUME NEW bytes \in Seq(Bytes), NEW r \in 1..(Len(bytes) + 1)
  PROVE  LET left == SubSeq(bytes, r, Len(bytes))
         IN /\ left \in Seq(Bytes) /\ Len(left) = Len(bytes) + 1 - r
            /\ \A i \in 1..Len(left) : left[i] = bytes[r - 1 + i]
<1> DEFINE N == Len(bytes)
<1> DEFINE left == SubSeq(bytes, r, N)
<1>1. N \in Nat /\ r \in Int /\ \A i \in r..N : i \in 1..N
  OBVIOUS
<1>2. \A i \in r..N : bytes[i] \in Bytes
  BY <1>1, ElementOfSeq
<1> HIDE DEF N
<1>3. /\ left \in Seq(Bytes)
      /\ Len(left) = IF r <= N THEN N - r + 1 ELSE 0
      /\ \A i \in 1..(N - r + 1) : left[i] = bytes[r + i - 1]
  BY <1>1, <1>2, SubSeqProperties
<1> HIDE DEF left
<1>4. r \in 1..(N + 1)
  BY DEF N
<1>5. Len(left) = N + 1 - r /\ N + 1 - r = N - r + 1
  BY <1>1, <1>3, <1>4
<1>6. ASSUME NEW i \in 1..Len(left) PROVE left[i] = bytes[r - 1 + i]
  <2>1. i \in 1..(N - r + 1) /\ r + i - 1 = r - 1 + i
    BY <1>1, <1>4, <1>5
  <2>2. QED
    BY <1>3, <2>1
<1>7. QED
  BY <1>3, <1>5, <1>6 DEF left, N

LEMMA IntactRest ==
  ASSUME NEW bytes \in Seq(Bytes), NEW k \in Kinds, NEW n \in Nat,
         NEW r \in 1..(Len(bytes) + 1), NEW left \in Seq(Bytes),
         Len(left) = Len(bytes) + 1 - r,
         \A i \in 1..Len(left) : left[i] = bytes[r - 1 + i],
         Intact(bytes, k, n) => n <= Len(left)
  PROVE  Intact(left, k, n) <=> Intact(bytes, k, n)
<1> DEFINE N == Len(bytes)
<1> DEFINE M == Len(left)
<1>1. N \in Nat /\ M \in Nat /\ M = N + 1 - r /\ r \in 1..(N + 1)
  OBVIOUS
<1> HIDE DEF N, M
<1>2. ASSUME n <= M, NEW j \in 1..n
      PROVE  left[M - n + j] = bytes[N - n + j]
  <2>1. M - n + j \in 1..M /\ r - 1 + (M - n + j) = N - n + j
    BY <1>1, <1>2
  <2>2. QED
    BY <2>1 DEF M
<1>3. n <= M => n <= N
  BY <1>1
<1>4. ASSUME Intact(left, k, n) PROVE Intact(bytes, k, n)
  <2>1. n <= M /\ \A j \in 1..n : /\ left[M - n + j].is = Wire(k)[j]
                                  /\ left[M - n + j].of = 0
    BY <1>4 DEF Intact, M
  <2>2. QED
    BY <1>2, <1>3, <2>1 DEF Intact, N
<1>5. ASSUME Intact(bytes, k, n) PROVE Intact(left, k, n)
  <2>1. n <= M /\ \A j \in 1..n : /\ bytes[N - n + j].is = Wire(k)[j]
                                  /\ bytes[N - n + j].of = 0
    BY <1>5 DEF Intact, N, M
  <2>2. QED
    BY <1>2, <2>1 DEF Intact, M
<1>6. QED
  BY <1>4, <1>5

\* The frame under way begins where what is there of it does.
LEMMA IntactBegins ==
  ASSUME NEW bytes \in Seq(Bytes), NEW k \in Kinds, NEW n \in Nat,
         n < WireLength(k), Intact(bytes, k, n)
  PROVE  Begun(bytes, Len(bytes) + 1 - n, k)
<1> DEFINE N == Len(bytes)
<1> DEFINE c == N + 1 - n
<1>1. N \in Nat /\ n <= N /\ c = N + 1 - n
  BY DEF Intact
<1>2. c \in 1..(N + 1) /\ N + 1 < c + WireLength(k)
  BY <1>1, WireFacts
<1>3. ASSUME NEW i \in c..N PROVE bytes[i].is = Wire(k)[i - c + 1]
  <2> HIDE DEF N, c
  <2>1. i - c + 1 \in 1..n /\ N - n + (i - c + 1) = i
    BY <1>1
  <2>2. bytes[N - n + (i - c + 1)].is = Wire(k)[i - c + 1]
    BY <2>1 DEF Intact, N
  <2>3. QED
    BY <2>1, <2>2
<1>4. QED
  BY <1>2, <1>3 DEF Begun

LEMMA NothingBegins ==
  ASSUME NEW bytes \in Seq(Bytes), NEW k \in Kinds
  PROVE  Begun(bytes, Len(bytes) + 1, k)
<1>1. Len(bytes) \in Nat /\ WireLength(k) \in 8..9
  BY WireFacts
<1>2. \A i \in (Len(bytes) + 1)..Len(bytes) : FALSE
  BY <1>1
<1>3. QED
  BY <1>1, <1>2 DEF Begun

\* No whole frame is left.
LEMMA NoneLeft ==
  ASSUME NEW bytes \in Seq(Bytes), NEW c, NEW r, Gets(bytes, c, 1, r),
         NEW left \in Seq(Bytes), Len(left) = Len(bytes) + 1 - r.rest,
         \A i \in 1..Len(left) : left[i] = bytes[r.rest - 1 + i]
  PROVE  WholeIn(left) = {}
<1> DEFINE N == Len(bytes)
<1> DEFINE M == Len(left)
<1> DEFINE s == r.rest
<1>1. N \in Nat /\ M \in Nat /\ M = N + 1 - s /\ s \in 1..(N + 1)
  BY DEF Gets
<1> HIDE DEF N, M, s
<1>2. ASSUME NEW m \in Nat, NEW h \in 1..M, NEW k \in Kinds, Whole(left, h, k, m)
      PROVE  FALSE
  <2> DEFINE x == s - 1 + h
  <2>1. h + WireLength(k) <= M + 1 /\ WireLength(k) \in 8..9
    BY <1>2, WireFacts DEF Whole, M
  <2>2. x \in 1..N /\ x + WireLength(k) <= N + 1 /\ s <= x
    BY <1>1, <2>1, SMTT(30)
  <2>3. ASSUME NEW j \in 0..(WireLength(k) - 1)
        PROVE  bytes[x + j].is = Wire(k)[j + 1] /\ bytes[x + j].of = m
    <3>1. h + j \in 1..M /\ s - 1 + (h + j) = x + j
      <4> DEFINE w == WireLength(k)
      <4>1. h + w <= M + 1 /\ w \in 8..9 /\ j \in 0..(w - 1)
        BY <2>1
      <4> HIDE DEF w
      <4>2. h + j \in 1..M
        BY <1>1, <4>1
      <4>3. s - 1 + (h + j) = x + j
        BY <1>1, <4>1
      <4>4. QED
        BY <4>2, <4>3
    <3>2. left[h + j] = bytes[x + j]
      BY <3>1 DEF M, s
    <3>3. left[h + j].is = Wire(k)[j + 1] /\ left[h + j].of = m
      BY <1>2 DEF Whole
    <3>4. QED
      BY <3>2, <3>3
  <2> HIDE DEF x
  <2>4. WholeAt(bytes, x, k)
    BY <2>2, <2>3 DEF WholeAt, Whole, N
  <2>5. PICK a \in 1..Len(r.frames) : r.frames[a].at = x
    BY <2>2, <2>4 DEF Gets, N
  <2>6. x + WireLength(r.frames[a].kind) <= s /\ r.frames[a].kind \in Kinds
    <3>1. r.frames[a] \in [at : Nat \ {0}, kind : Kinds]
      BY ElementOfSeq DEF Gets
    <3>2. QED
      BY <2>5, <3>1 DEF Gets, s
  <2>7. WireLength(r.frames[a].kind) \in 8..9
    BY <2>6, WireFacts
  <2>8. QED
    BY <1>1, <2>2, <2>6, <2>7
<1>3. QED
  BY <1>2 DEF WholeIn, M

\* How many frames ago the sensor sent the one found as the a-th.
From(bytes, r, a) == bytes[r.frames[a].at].of

\* The frames found are all the whole ones, the oldest first, and none longer
\* than the one under way.
InOrder(bytes, k, r) ==
  /\ Len(r.frames) \in Nat
  /\ \A a \in 1..Len(r.frames) :
       /\ Origin(bytes, r.frames[a]) = {From(bytes, r, a)}
       /\ From(bytes, r, a) \in WholeIn(bytes)
       /\ r.frames[a].kind \in Kinds
       /\ WireLength(r.frames[a].kind) <= WireLength(k)
  /\ \A a, b \in 1..Len(r.frames) :
       a < b => From(bytes, r, b) < From(bytes, r, a)
  /\ \A m \in WholeIn(bytes) :
       \E a \in 1..Len(r.frames) : From(bytes, r, a) = m

LEMMA FoundInOrder ==
  ASSUME NEW bytes \in Seq(Bytes), NEW k \in Kinds, NEW n \in Nat, NEW lost \in Nat,
         NEW K, NEW B, NEW D, Traced(K, B, D, bytes, k, n, lost),
         NEW c, NEW r, Gets(bytes, c, 1, r)
  PROVE  InOrder(bytes, k, r)
<1> DEFINE N == Len(bytes)
<1> DEFINE fs == r.frames
<1>1. /\ fs \in Seq([at : Nat \ {0}, kind : Kinds]) /\ r.rest \in 1..(N + 1)
      /\ \A a \in 1..Len(fs) :
           /\ 1 <= fs[a].at /\ fs[a].at + WireLength(fs[a].kind) <= r.rest
           /\ WholeAt(bytes, fs[a].at, fs[a].kind)
      /\ \A a, b \in 1..Len(fs) : a < b => fs[a].at < fs[b].at
      /\ \A h \in 1..N, l \in Kinds :
           WholeAt(bytes, h, l) => \E a \in 1..Len(fs) : fs[a].at = h
  BY DEF Gets
<1>2. N \in Nat /\ Len(fs) \in Nat
  BY <1>1
<1>3. ASSUME NEW a \in 1..Len(fs)
      PROVE  /\ fs[a].at \in 1..N /\ fs[a].kind \in Kinds
             /\ WireLength(fs[a].kind) \in 8..9
             /\ \E m \in Nat : Whole(bytes, fs[a].at, fs[a].kind, m)
  <2>1. fs[a] \in [at : Nat \ {0}, kind : Kinds]
    <3> HIDE DEF fs
    <3> QED
      BY <1>1, ElementOfSeq
  <2>2. fs[a].at \in Nat \ {0} /\ fs[a].kind \in Kinds
    BY <2>1
  <2>3. WireLength(fs[a].kind) \in 8..9
    BY <2>2, WireFacts
  <2>4. fs[a].at + WireLength(fs[a].kind) <= r.rest /\ r.rest \in 1..(N + 1)
    BY <1>1
  <2> DEFINE x == fs[a].at
  <2> DEFINE w == WireLength(fs[a].kind)
  <2> DEFINE t == r.rest
  <2>5. x \in Nat \ {0} /\ w \in 8..9 /\ x + w <= t /\ t \in 1..(N + 1)
    BY <2>2, <2>3, <2>4
  <2> HIDE DEF x, w, t
  <2>6. x \in 1..N
    BY <1>2, <2>5
  <2>7. WholeAt(bytes, fs[a].at, fs[a].kind)
    BY <1>1
  <2>8. QED
    BY <2>2, <2>3, <2>6, <2>7 DEF WholeAt, x
<1> HIDE DEF N, fs
<1>4. ASSUME NEW a \in 1..Len(fs), NEW m \in Nat,
             Whole(bytes, fs[a].at, fs[a].kind, m)
      PROVE  From(bytes, r, a) = m
  <2> DEFINE x == fs[a].at
  <2> DEFINE l == fs[a].kind
  <2>1. x \in 1..N /\ l \in Kinds /\ Whole(bytes, x, l, m)
    BY <1>3, <1>4
  <2> HIDE DEF x, l
  <2>2. bytes[x].of = m
    BY <2>1, WholeOf DEF N
  <2>3. QED
    BY <2>2 DEF From, x, fs
<1>5. ASSUME NEW a \in 1..Len(fs)
      PROVE  /\ Origin(bytes, fs[a]) = {From(bytes, r, a)}
             /\ From(bytes, r, a) \in WholeIn(bytes)
             /\ WireLength(fs[a].kind) <= WireLength(k)
  <2> DEFINE x == fs[a].at
  <2> DEFINE l == fs[a].kind
  <2>1. PICK m \in Nat : Whole(bytes, x, l, m)
    BY <1>3
  <2>2. From(bytes, r, a) = m
    BY <1>4, <2>1
  <2>3. x \in 1..N /\ l \in Kinds /\ WireLength(l) \in 8..9
    BY <1>3
  <2>4. Origin(bytes, fs[a]) = {bytes[i].of : i \in x..(x + WireLength(l) - 1)}
    BY DEF Origin
  <2> HIDE DEF x, l
  <2>5. ASSUME NEW i \in x..(x + WireLength(l) - 1) PROVE bytes[i].of = m
    <3>1. i - x \in 0..(WireLength(l) - 1) /\ x + (i - x) = i
      BY <2>3
    <3>2. bytes[x + (i - x)].of = m
      BY <2>1, <3>1 DEF Whole
    <3>3. QED
      BY <3>1, <3>2
  <2>6. x \in x..(x + WireLength(l) - 1)
    BY <2>3
  <2>7. Origin(bytes, fs[a]) = {m}
    BY <2>4, <2>5, <2>6
  <2>8. m \in WholeIn(bytes)
    BY <2>1, <2>3 DEF WholeIn, N
  <2>9. WireLength(l) <= WireLength(k)
    BY <2>1, <2>3, WholeIsPast DEF N
  <2>10. QED
    BY <2>2, <2>7, <2>8, <2>9 DEF l
<1>6. ASSUME NEW a \in 1..Len(fs), NEW b \in 1..Len(fs), a < b
      PROVE  From(bytes, r, b) < From(bytes, r, a)
  <2> DEFINE x == fs[a].at
  <2> DEFINE l == fs[a].kind
  <2> DEFINE y == fs[b].at
  <2> DEFINE o == fs[b].kind
  <2>1. PICK m \in Nat : Whole(bytes, x, l, m)
    BY <1>3
  <2>2. PICK q \in Nat : Whole(bytes, y, o, q)
    BY <1>3
  <2>3. x \in 1..N /\ l \in Kinds /\ y \in 1..N /\ o \in Kinds
    BY <1>3
  <2>4. x < y
    BY <1>1, <1>6 DEF fs
  <2>5. From(bytes, r, a) = m /\ From(bytes, r, b) = q
    BY <1>4, <2>1, <2>2
  <2> HIDE DEF x, y, l, o
  <2>6. q < m
    BY <2>1, <2>2, <2>3, <2>4, WholeInOrder DEF N
  <2>7. QED
    BY <2>5, <2>6
<1>7. ASSUME NEW m \in WholeIn(bytes)
      PROVE  \E a \in 1..Len(fs) : From(bytes, r, a) = m
  <2>1. PICK h \in 1..N, l \in Kinds : Whole(bytes, h, l, m)
    BY <1>7 DEF WholeIn, N
  <2>2. m \in Nat /\ WholeAt(bytes, h, l)
    BY <2>1 DEF WholeIn, WholeAt
  <2>3. PICK a \in 1..Len(fs) : fs[a].at = h
    BY <1>1, <2>1, <2>2 DEF N, fs
  <2>4. bytes[h].of = m
    BY <2>1, <2>2, WholeOf DEF N
  <2>5. From(bytes, r, a) = m
    BY <2>3, <2>4 DEF From, fs
  <2>6. QED
    BY <2>5
<1>8. QED
  BY <1>2, <1>3, <1>5, <1>6, <1>7 DEF InOrder, fs

-----------------------------------------------------------------------------
(* The reader of the serial line *)

\* All the bytes that are still to be parsed.
Held == buf \o queue

\* TypeOK, with what the bytes are, and the buffer shorter than a frame.
RadarTypes ==
  /\ line \in {"up", "stalled", "gone"}
  /\ mode \in Kinds /\ kind \in Kinds
  /\ sent \in Nat /\ sent < WireLength(kind)
  /\ queue \in Seq(Bytes) /\ Len(queue) <= QueueRoom
  /\ vmin \in 1..Longest
  /\ port \in {"none", "closed", "read", "parked"}
  /\ buf \in Seq(Bytes) /\ Len(buf) <= 8
  /\ frameLen \in {0} \cup {WireLength(k) : k \in Kinds}
  /\ broken \in BOOLEAN /\ due \subseteq 1..QueueRoom
  /\ madeUp \in BOOLEAN
  /\ losses \in 0..Losses

\* VMIN asks for no more than the rest of the frame under way when the reader
\* has had all before it.
Wakes ==
  /\ vmin <= WireLength(kind)
  /\ due = {} \/ Len(queue) >= vmin
  /\ due = {} /\ ~broken => vmin + sent <= WireLength(kind) + Len(queue)

\* Of an open line: due counts the whole frames that are held, and the frame
\* under way is broken when not all of it is held that has been sent.
OpenInv ==
  /\ frameLen <= WireLength(kind)
  /\ \E K, B, D : Traced(K, B, D, Held, kind, sent, losses)
  /\ due = WholeIn(Held)
  /\ broken <=> ~Intact(Held, kind, sent)
  /\ Wakes

\* A sensor that is in engineering mode stays so while it has power.
RadarInv ==
  /\ RadarTypes
  /\ WireLength(kind) <= WireLength(mode)
  /\ ~madeUp
  /\ Open => OpenInv

LEMMA RadarBounds ==
  /\ QueueRoom \in Nat /\ QueueRoom >= 9 /\ Losses \in 0..7 /\ Longest = 9
BY SensorsAssumption DEF RadarAssumption, Longest, WireLength

LEMMA DueFits ==
  ASSUME NEW bytes \in Seq(Bytes), NEW k \in Kinds, NEW n \in Nat,
         n < WireLength(k), NEW lost \in 0..Losses,
         Len(bytes) <= QueueRoom + 8,
         NEW K, NEW B, NEW D, Traced(K, B, D, bytes, k, n, lost)
  PROVE  WholeIn(bytes) \subseteq 1..QueueRoom
<1> SUFFICES ASSUME NEW m \in WholeIn(bytes) PROVE m \in 1..QueueRoom
  OBVIOUS
<1>1. PICK h \in 1..Len(bytes), l \in Kinds : m \in Nat /\ Whole(bytes, h, l, m)
  BY DEF WholeIn
<1>2. lost \in Nat /\ lost <= 7 /\ Len(bytes) \in Nat
  BY RadarBounds
<1>3. 8 * m <= Len(bytes) + lost /\ m >= 1
  BY <1>1, <1>2, WholeIsPast
<1>4. QED
  BY <1>1, <1>2, <1>3, RadarBounds

-----------------------------------------------------------------------------
\* A byte leaves the sensor.
LEMMA ByteKeeps ==
  ASSUME RadarInv, Open, NEW arrives \in BOOLEAN, Byte(arrives),
         arrives => Len(queue) < QueueRoom,
         losses' = IF arrives THEN losses ELSE losses + 1, losses' \in 0..Losses
  PROVE  RadarInv'
<1> DEFINE byte == [is |-> Wire(kind)[sent + 1], of |-> 0]
<1> DEFINE now == IF arrives THEN Append(queue, byte) ELSE queue
<1> DEFINE after == buf \o now
<1>1. RadarTypes /\ OpenInv /\ WireLength(kind) <= WireLength(mode) /\ ~madeUp
  BY DEF RadarInv
<1>2. /\ kind \in Kinds /\ mode \in Kinds /\ sent \in Nat /\ sent < WireLength(kind)
      /\ WireLength(kind) \in 8..9 /\ WireLength(mode) \in 8..9
      /\ queue \in Seq(Bytes) /\ buf \in Seq(Bytes) /\ Held \in Seq(Bytes)
      /\ losses \in Nat /\ losses \in 0..Losses
  <2>1. Held \in Seq(Bytes)
    BY <1>1, ConcatProperties DEF RadarTypes, Held
  <2>2. QED
    BY <1>1, <2>1, WireFacts, RadarBounds DEF RadarTypes
<1>3. byte \in Bytes /\ byte.is = Wire(kind)[sent + 1] /\ byte.of = 0
  <2>1. sent + 1 \in 1..WireLength(kind)
    BY <1>2
  <2>2. Wire(kind)[sent + 1] \in Symbols
    BY <1>2, <2>1, WireFacts
  <2>3. QED
    BY <2>2 DEF Bytes
<1> HIDE DEF byte
<1>4. /\ now \in Seq(Bytes) /\ Len(now) <= QueueRoom
      /\ Len(now) = IF arrives THEN Len(queue) + 1 ELSE Len(queue)
      /\ Len(queue) \in Nat
  <2>1. /\ Append(queue, byte) \in Seq(Bytes)
        /\ Len(Append(queue, byte)) = Len(queue) + 1
    BY <1>2, <1>3, AppendProperties
  <2>2. Len(queue) <= QueueRoom /\ Len(queue) \in Nat
    BY <1>1, <1>2 DEF RadarTypes
  <2>3. QED
    BY <1>2, <2>1, <2>2, RadarBounds
<1>5. after = IF arrives THEN Append(Held, byte) ELSE Held
  <2>1. CASE arrives
    <3>1. Append(queue, byte) = queue \o <<byte>> /\ <<byte>> \in Seq(Bytes)
      BY <1>2, <1>3, AppendIsConcat
    <3>2. Append(Held, byte) = Held \o <<byte>>
      BY <1>2, <1>3, AppendIsConcat
    <3>3. (buf \o queue) \o <<byte>> = buf \o (queue \o <<byte>>)
      BY <1>2, <3>1, ConcatAssociative
    <3>4. QED
      BY <2>1, <3>1, <3>2, <3>3 DEF Held
  <2>2. CASE ~arrives
    BY <2>2 DEF Held
  <2>3. QED
    BY <2>1, <2>2
<1>6. after \in Seq(Bytes) /\ Len(after) = Len(buf) + Len(now)
  BY <1>2, <1>4, ConcatProperties
<1> HIDE DEF after
<1>7. PICK K, B, D : Traced(K, B, D, after, kind, sent + 1, losses')
  <2>1. PICK K, B, D : Traced(K, B, D, Held, kind, sent, losses)
    BY <1>1 DEF OpenInv
  <2>2. CASE arrives
    BY <1>2, <1>3, <1>5, <2>1, <2>2, TracedArrives
  <2>3. CASE ~arrives
    BY <1>2, <1>3, <1>5, <2>1, <2>3, TracedLost
  <2>4. QED
    BY <2>2, <2>3
<1>8. Intact(after, kind, sent + 1) <=> arrives /\ ~broken
  <2>1. CASE arrives
    BY <1>1, <1>2, <1>3, <1>5, <2>1, IntactArrives DEF OpenInv
  <2>2. CASE ~arrives
    <3>1. ~Intact(Held, kind, sent + 1)
      BY <1>1, <1>2, LostIsMissing DEF OpenInv
    <3>2. QED
      BY <1>5, <2>2, <3>1
  <2>3. QED
    BY <2>1, <2>2
<1>9. WholeIn(after) =
        due \cup {m \in {0} : sent + 1 = WireLength(kind) /\ arrives /\ ~broken}
  <2>1. WholeIn(Held) = due /\ (broken <=> ~Intact(Held, kind, sent))
    BY <1>1 DEF OpenInv
  <2>2. CASE arrives
    <3>1. after = Append(Held, byte)
      BY <1>5, <2>2
    <3>2. due \subseteq WholeIn(after)
      BY <1>2, <1>3, <2>1, <3>1, WholeStays
    <3>3. ASSUME sent + 1 = WireLength(kind), ~broken PROVE 0 \in WholeIn(after)
      <4>1. Intact(after, kind, WireLength(kind))
        BY <1>8, <2>2, <3>3
      <4>2. QED
        BY <1>2, <1>6, <4>1, IntactIsWhole
    <3>4. ASSUME NEW m \in WholeIn(after), m \notin due
          PROVE  m = 0 /\ sent + 1 = WireLength(kind) /\ ~broken
      <4>1. losses' \in Nat
        BY RadarBounds
      <4>2. Traced(K, B, D, Append(Held, byte), kind, sent + 1, losses')
        BY <1>7, <3>1
      <4>3. m \in WholeIn(Append(Held, byte)) /\ m \notin WholeIn(Held)
        BY <2>1, <3>1, <3>4
      <4>4. m = 0 /\ sent + 1 = WireLength(kind) /\ Intact(Held, kind, sent)
        BY <1>2, <1>3, <4>1, <4>2, <4>3, WholeNew
      <4>5. QED
        BY <2>1, <4>4
    <3>5. QED
      BY <2>2, <3>2, <3>3, <3>4
  <2>3. CASE ~arrives
    BY <1>5, <2>1, <2>3
  <2>4. QED
    BY <2>2, <2>3
<1>10. /\ line' = line /\ mode' = mode /\ vmin' = vmin /\ port' = port
       /\ frameLen' = frameLen /\ madeUp' = madeUp
  BY DEF Byte
<1>11. Wakes /\ vmin \in 1..9 /\ frameLen <= WireLength(kind)
  BY <1>1, RadarBounds DEF OpenInv, RadarTypes
<1>12. CASE sent + 1 < WireLength(kind)
  <2>1. /\ sent' = sent + 1 /\ queue' = now /\ broken' = (broken \/ ~arrives)
        /\ kind' = kind /\ buf' = buf /\ due' = due
    BY <1>12 DEF Byte, now, byte
  <2>2. Held' = after
    BY <2>1 DEF Held, after
  <2>3. WholeIn(after) = due
    BY <1>2, <1>9, <1>12
  <2>4. Wakes'
    <3>1. vmin <= WireLength(kind)
      BY <1>11 DEF Wakes
    <3>2. due = {} \/ Len(now) >= vmin
      BY <1>2, <1>4, <1>11 DEF Wakes
    <3>3. ASSUME due = {}, arrives, ~broken
          PROVE  vmin + (sent + 1) <= WireLength(kind) + Len(now)
      <4>1. vmin + sent <= WireLength(kind) + Len(queue)
        BY <1>11, <3>3 DEF Wakes
      <4>2. Len(now) = Len(queue) + 1
        BY <1>4, <3>3
      <4> HIDE DEF now
      <4>3. QED
        BY <1>2, <1>4, <1>11, <4>1, <4>2
    <3> HIDE DEF now
    <3>4. QED
      BY <1>10, <2>1, <3>1, <3>2, <3>3 DEF Wakes
  <2>5. OpenInv'
    <3>1. \E L, C, E : Traced(L, C, E, Held', kind', sent', losses')
      BY <1>7, <2>1, <2>2
    <3>2. due' = WholeIn(Held')
      BY <2>1, <2>2, <2>3
    <3>3. broken' <=> ~Intact(Held', kind', sent')
      BY <1>8, <2>1, <2>2
    <3>4. frameLen' <= WireLength(kind')
      BY <1>10, <1>11, <2>1
    <3>5. QED
      BY <2>4, <3>1, <3>2, <3>3, <3>4 DEF OpenInv
  <2>6. RadarTypes'
    <3>1. sent' \in Nat /\ sent' < WireLength(kind')
      BY <1>2, <1>12, <2>1
    <3>2. queue' \in Seq(Bytes) /\ Len(queue') <= QueueRoom
      BY <1>4, <2>1
    <3>3. broken' \in BOOLEAN
      BY <2>1
    <3>4. QED
      BY <1>1, <1>10, <2>1, <3>1, <3>2, <3>3 DEF RadarTypes
  <2>7. QED
    BY <1>1, <1>10, <2>1, <2>5, <2>6 DEF RadarInv
<1>13. CASE ~(sent + 1 < WireLength(kind))
  <2>1. /\ sent' = 0 /\ kind' = mode /\ broken' = FALSE
        /\ queue' = Back(now) /\ buf' = Back(buf)
        /\ due' = {m + 1 : m \in due} \cup {m \in {1} : arrives /\ ~broken}
    BY <1>13 DEF Byte, now, byte
  <2>2. sent + 1 = WireLength(kind)
    BY <1>2, <1>13
  <2>3. Held' = Back(after)
    BY <1>2, <1>4, <2>1, BackConcat DEF Held, after
  <2>4. /\ buf' \in Seq(Bytes) /\ Len(buf') = Len(buf)
        /\ queue' \in Seq(Bytes) /\ Len(queue') = Len(now)
        /\ Back(after) \in Seq(Bytes) /\ Len(Back(after)) = Len(after)
    BY <1>2, <1>4, <1>6, <2>1, BackIs
  <2>5. due' = WholeIn(Held')
    <3>1. WholeIn(Held') = {m + 1 : m \in WholeIn(after)}
      BY <1>6, <2>3, WholeInBack
    <3>2. WholeIn(after) = due \cup {m \in {0} : arrives /\ ~broken}
      BY <1>9, <2>2
    <3>3. {m + 1 : m \in {x \in {0} : arrives /\ ~broken}}
            = {m \in {1} : arrives /\ ~broken}
      OBVIOUS
    <3>4. QED
      BY <2>1, <3>1, <3>2, <3>3
  <2>6. PICK L, C : Traced(L, C, D, Held', mode, 0, losses')
    <3>1. Traced(K, B, D, after, kind, WireLength(kind), losses')
      BY <1>7, <2>2
    <3>2. losses' \in Nat
      BY RadarBounds
    <3>3. QED
      BY <1>1, <1>2, <1>6, <2>3, <3>1, <3>2, TracedNext
  <2>7. due' \subseteq 1..QueueRoom
    <3>1. Len(buf) <= 8 /\ Len(buf) \in Nat
      BY <1>1, <1>2 DEF RadarTypes
    <3>2. Len(Held') <= QueueRoom + 8
      BY <1>4, <1>6, <2>3, <2>4, <3>1, RadarBounds
    <3>3. Held' \in Seq(Bytes) /\ 0 < WireLength(mode)
      BY <1>2, <2>3, <2>4
    <3>4. QED
      BY <1>2, <2>5, <2>6, <3>2, <3>3, DueFits
  <2>8. Wakes'
    <3>1. vmin' <= WireLength(kind')
      BY <1>1, <1>2, <1>10, <1>11, <2>1 DEF Wakes
    <3>2. ASSUME due' # {} PROVE Len(queue') >= vmin'
      <4>1. CASE due # {}
        <5>1. Len(queue) >= vmin
          BY <1>11, <4>1 DEF Wakes
        <5>2. Len(now) >= Len(queue)
          BY <1>4
        <5> HIDE DEF now
        <5>3. QED
          BY <1>4, <1>10, <1>11, <2>4, <5>1, <5>2
      <4>2. CASE due = {}
        <5>1. arrives /\ ~broken
          BY <2>1, <3>2, <4>2
        <5>2. vmin + sent <= WireLength(kind) + Len(queue)
          BY <1>11, <4>2, <5>1 DEF Wakes
        <5>3. Len(now) = Len(queue) + 1
          BY <1>4, <5>1
        <5> HIDE DEF now
        <5>4. QED
          BY <1>2, <1>4, <1>10, <1>11, <2>2, <2>4, <5>2, <5>3
      <4>3. QED
        BY <4>1, <4>2
    <3>3. vmin' + sent' <= WireLength(kind') + Len(queue')
      <4>1. Len(queue') \in Nat
        BY <2>4
      <4>2. QED
        BY <1>2, <1>10, <1>11, <2>1, <3>1, <4>1
    <3>4. QED
      BY <3>1, <3>2, <3>3 DEF Wakes
  <2>9. OpenInv'
    <3>1. \E M, A, E : Traced(M, A, E, Held', kind', sent', losses')
      BY <2>1, <2>6
    <3>2. Intact(Held', kind', sent')
      <4>1. 0 <= Len(Held') /\ 1..0 = {}
        BY <2>3, <2>4
      <4>2. QED
        BY <2>1, <4>1 DEF Intact
    <3>3. frameLen' <= WireLength(kind')
      <4>1. frameLen \in Nat
        <5>1. \A l \in Kinds : WireLength(l) \in Nat
          BY WireFacts
        <5>2. QED
          BY <1>1, <5>1 DEF RadarTypes
      <4>2. QED
        BY <1>1, <1>2, <1>10, <1>11, <2>1, <4>1
    <3>4. QED
      BY <2>1, <2>5, <2>8, <3>1, <3>2, <3>3 DEF OpenInv
  <2>10. RadarTypes'
    <3>1. sent' \in Nat /\ sent' < WireLength(kind') /\ kind' \in Kinds
      BY <1>2, <2>1
    <3>2. queue' \in Seq(Bytes) /\ Len(queue') <= QueueRoom
          /\ buf' \in Seq(Bytes) /\ Len(buf') <= 8
      BY <1>1, <1>4, <2>4 DEF RadarTypes
    <3>3. broken' \in BOOLEAN
      BY <2>1
    <3>4. QED
      BY <1>1, <1>10, <2>7, <3>1, <3>2, <3>3 DEF RadarTypes
  <2>11. WireLength(kind') <= WireLength(mode')
    BY <1>2, <1>10, <2>1
  <2>12. QED
    BY <1>1, <1>10, <2>9, <2>10, <2>11 DEF RadarInv
<1>14. QED
  BY <1>12, <1>13

LEMMA OpenLineKeeps == ASSUME RadarInv, OpenLine PROVE RadarInv'
<1>1. RadarTypes /\ WireLength(kind) <= WireLength(mode) /\ ~madeUp
  BY DEF RadarInv
<1>2. /\ line' = "up" /\ mode' \in {mode, "engineering"}
      /\ sent' \in 0..(WireLength(kind) - 1)
      /\ queue' = <<>> /\ vmin' = 1 /\ port' = "read"
      /\ buf' = <<>> /\ frameLen' = 0
      /\ broken' = (sent' > 0) /\ due' = {} /\ losses' = 0
      /\ kind' = kind /\ madeUp' = madeUp
  BY DEF OpenLine
<1>3. kind \in Kinds /\ mode \in Kinds /\ WireLength(kind) \in 8..9
  BY <1>1, WireFacts DEF RadarTypes
<1>4. sent' \in Nat /\ sent' < WireLength(kind)
  BY <1>2, <1>3
<1>5. Held' = <<>> /\ Len(Held') = 0 /\ <<>> \in Seq(Bytes)
  BY <1>2, ConcatEmptySeq DEF Held
<1>6. mode' \in Kinds /\ WireLength(kind') <= WireLength(mode')
  <2>1. WireLength("engineering") = 9 /\ "engineering" \in Kinds
    BY DEF WireLength, Kinds
  <2>2. QED
    BY <1>1, <1>2, <1>3, <2>1
<1>7. \E K, B, D : Traced(K, B, D, Held', kind', sent', losses')
  BY <1>2, <1>3, <1>4, <1>5, TracedOpened
<1>8. WholeIn(Held') = {}
  BY <1>5 DEF WholeIn
<1>9. Intact(Held', kind', sent') <=> sent' = 0
  <2>1. sent' = 0 => 1..sent' = {}
    OBVIOUS
  <2>2. sent' <= Len(Held') <=> sent' = 0
    BY <1>4, <1>5
  <2>3. QED
    BY <1>5, <2>1, <2>2 DEF Intact
<1>10. broken' <=> ~Intact(Held', kind', sent')
  <2>1. sent' > 0 <=> ~(sent' = 0)
    BY <1>4
  <2>2. QED
    BY <1>2, <1>9, <2>1, Zenon
<1>11. Wakes'
  <2>1. 1 <= WireLength(kind) /\ 1 + sent' <= WireLength(kind) + 0
    BY <1>3, <1>4
  <2>2. Len(queue') = 0
    BY <1>2
  <2>3. QED
    BY <1>2, <2>1, <2>2 DEF Wakes
<1>12. OpenInv'
  <2>1. frameLen' <= WireLength(kind')
    BY <1>2, <1>3
  <2>2. QED
    BY <1>2, <1>7, <1>8, <1>10, <1>11, <2>1 DEF OpenInv
<1>13. RadarTypes'
  <2>1. queue' \in Seq(Bytes) /\ Len(queue') = 0 /\ buf' \in Seq(Bytes)
        /\ Len(buf') = 0
    BY <1>2, <1>5
  <2>2. Len(queue') <= QueueRoom /\ Len(buf') <= 8 /\ vmin' \in 1..Longest
        /\ losses' \in 0..Losses /\ broken' \in BOOLEAN
    BY <1>2, <2>1, RadarBounds
  <2>3. QED
    BY <1>1, <1>2, <1>4, <1>6, <2>1, <2>2 DEF RadarTypes
<1>14. QED
  BY <1>1, <1>2, <1>6, <1>12, <1>13 DEF RadarInv

LEMMA NeedIs ==
  ASSUME NEW len \in {0, 8, 9}, NEW k \in Kinds, len <= WireLength(k),
         NEW held \in 0..8, NEW n \in Nat, n < WireLength(k)
  PROVE  /\ Need(len, held) \in 1..9 /\ Need(len, held) <= WireLength(k)
         /\ n <= held => Need(len, held) + n <= WireLength(k)
<1> DEFINE l == IF len = 0 THEN WireLength("basic") ELSE len
<1>1. WireLength("basic") = 8 /\ WireLength(k) \in 8..9
  BY WireFacts DEF WireLength
<1>2. l \in 8..9 /\ l <= WireLength(k)
  BY <1>1
<1>3. Need(len, held) = IF l > held THEN l - held ELSE 1
  BY DEF Need
<1> HIDE DEF l
<1>4. QED
  BY <1>1, <1>2, <1>3

\* A read hands on all that is due, and leaves the rest of the frame under way.
LEMMA ReadKeeps == ASSUME RadarInv, Read PROVE RadarInv'
<1>1. RadarTypes /\ OpenInv /\ WireLength(kind) <= WireLength(mode) /\ ~madeUp
  BY DEF RadarInv, Read, Open
<1>2. /\ kind \in Kinds /\ sent \in Nat /\ sent < WireLength(kind)
      /\ WireLength(kind) \in 8..9 /\ Held \in Seq(Bytes)
      /\ losses \in Nat /\ losses \in 0..7
  <2>1. Held \in Seq(Bytes)
    BY <1>1, ConcatProperties DEF RadarTypes, Held
  <2>2. QED
    BY <1>1, <2>1, WireFacts, RadarBounds DEF RadarTypes
<1> DEFINE bytes == Held
<1> DEFINE N == Len(bytes)
<1> DEFINE found == Found(bytes)
<1> DEFINE n == Len(found.frames)
<1> DEFINE origins == [i \in 1..n |-> Origin(bytes, found.frames[i])]
<1>3. /\ queue' = <<>>
      /\ buf' = SubSeq(bytes, found.rest, N)
      /\ frameLen' = IF n = 0 THEN frameLen ELSE WireLength(found.frames[n].kind)
      /\ due' = due \ UNION {origins[i] : i \in 1..n}
      /\ madeUp' = (madeUp \/ ~InTurn(origins))
      /\ vmin' = Need(frameLen', Len(buf'))
      /\ line' = line /\ mode' = mode /\ kind' = kind /\ sent' = sent
      /\ port' = port /\ broken' = broken /\ losses' = losses
  BY Zenon DEF Read, Held, sensorVars
<1>4. PICK K, B, D : Traced(K, B, D, bytes, kind, sent, losses)
  BY <1>1 DEF OpenInv
<1>5. /\ due = WholeIn(bytes) /\ (broken <=> ~Intact(bytes, kind, sent))
      /\ frameLen <= WireLength(kind)
  BY <1>1 DEF OpenInv
<1>6. bytes \in Seq(Bytes) /\ Sound(bytes)
  BY <1>2, <1>4, TracedSound
<1> HIDE DEF bytes
<1>7. \E c : Begun(bytes, c, kind) /\ (~broken => c = N + 1 - sent)
  <2>1. CASE broken
    BY <1>2, <1>6, <2>1, NothingBegins
  <2>2. CASE ~broken
    BY <1>2, <1>5, <1>6, <2>2, IntactBegins
  <2>3. QED
    BY <2>1, <2>2
<1>8. PICK c : Begun(bytes, c, kind) /\ (~broken => c = N + 1 - sent)
  BY <1>7
<1>9. Gets(bytes, c, 1, found)
  BY <1>2, <1>6, <1>8, FoundGets
<1> HIDE DEF found
<1>10. /\ found.rest \in 1..(N + 1) /\ N + 1 <= found.rest + 8
       /\ found.rest <= c /\ N \in Nat
  BY <1>6, <1>8, <1>9 DEF Gets, Begun
<1>11. /\ buf' \in Seq(Bytes) /\ Len(buf') = N + 1 - found.rest
       /\ \A i \in 1..Len(buf') : buf'[i] = bytes[found.rest - 1 + i]
  BY <1>3, <1>6, <1>10, RestOf
<1>12. Len(buf') \in 0..8 /\ (~broken => sent <= Len(buf'))
  <2> DEFINE r == found.rest
  <2> DEFINE M == Len(buf')
  <2>1. /\ r \in 1..(N + 1) /\ N + 1 <= r + 8 /\ r <= c /\ N \in Nat
        /\ M = N + 1 - r
    BY <1>10, <1>11
  <2> HIDE DEF r, M, N
  <2>2. M \in 0..8
    BY <2>1
  <2>3. ~broken => sent <= M
    BY <1>2, <1>8, <2>1
  <2>4. QED
    BY <2>2, <2>3 DEF M
<1>13. Held' = buf'
  <2>1. buf' \o <<>> = buf'
    BY <1>11, ConcatEmptySeq
  <2>2. QED
    BY <1>3, <2>1 DEF Held
<1> HIDE DEF n, N, origins
<1>14. /\ n \in Nat
       /\ \A a \in 1..n :
            /\ Origin(bytes, found.frames[a]) = {From(bytes, found, a)}
            /\ From(bytes, found, a) \in WholeIn(bytes)
            /\ found.frames[a].kind \in Kinds
            /\ WireLength(found.frames[a].kind) <= WireLength(kind)
       /\ \A a, b \in 1..n :
            a < b => From(bytes, found, b) < From(bytes, found, a)
       /\ \A m \in WholeIn(bytes) : \E a \in 1..n : From(bytes, found, a) = m
  <2>1. /\ bytes \in Seq(Bytes) /\ kind \in Kinds /\ sent \in Nat /\ losses \in Nat
        /\ Traced(K, B, D, bytes, kind, sent, losses)
        /\ Gets(bytes, c, 1, found)
    BY <1>2, <1>4, <1>6, <1>9
  <2>2. InOrder(bytes, kind, found)
    BY <2>1, FoundInOrder
  <2>3. QED
    BY <2>2 DEF InOrder, n
<1>15. WholeIn(bytes) \subseteq Nat
  BY DEF WholeIn
<1>16. Len(origins) = n /\ \A a \in 1..n : origins[a] = {From(bytes, found, a)}
  <2>1. \A a \in 1..n : Origin(bytes, found.frames[a]) \in SUBSET Nat
    BY <1>14, <1>15
  <2>2. origins \in Seq(SUBSET Nat) /\ Len(origins) = n
    BY <1>14, <2>1 DEF origins
  <2>3. QED
    BY <1>14, <2>2 DEF origins
\* The frames come in turn ...
<1>17. InTurn(origins)
  <2> SUFFICES ASSUME NEW i \in 1..n
               PROVE  \E m \in due \ UNION {origins[j] : j \in 1..(i - 1)} :
                        /\ origins[i] = {m}
                        /\ \A q \in due \ UNION {origins[j] : j \in 1..(i - 1)} :
                             q <= m
    BY <1>16 DEF InTurn
  <2> DEFINE m == From(bytes, found, i)
  <2>1. origins[i] = {m} /\ m \in due /\ m \in Nat
    BY <1>5, <1>14, <1>15, <1>16
  <2>2. \A j \in 1..(i - 1) : j \in 1..n /\ j < i
    BY <1>14
  <2>3. ASSUME NEW j \in 1..(i - 1) PROVE m \notin origins[j]
    <3>1. m < From(bytes, found, j) /\ From(bytes, found, j) \in Nat
      BY <1>14, <1>15, <2>2
    <3>2. m # From(bytes, found, j)
      BY <2>1, <3>1
    <3>3. QED
      BY <1>16, <2>2, <3>2
  <2>4. ASSUME NEW q \in due, \A j \in 1..(i - 1) : q \notin origins[j]
        PROVE  q <= m
    <3>1. PICK a \in 1..n : From(bytes, found, a) = q
      BY <1>5, <1>14
    <3>2. ~(a \in 1..(i - 1))
      BY <1>16, <2>2, <2>4, <3>1
    <3>3. a = i \/ i < a
      BY <1>14, <3>2
    <3>4. i < a => q < m
      BY <1>14, <3>1
    <3>5. q \in Nat
      BY <1>5, <1>15
    <3>6. QED
      BY <2>1, <3>1, <3>3, <3>4, <3>5
  <2> HIDE DEF m
  <2>5. QED
    BY <2>1, <2>3, <2>4
<1>18. madeUp' = madeUp
  BY <1>1, <1>3, <1>17, Zenon DEF RadarTypes
\* ... and none is left.
<1>19. due' = {}
  <2>1. \A q \in due : \E a \in 1..n : q \in origins[a]
    BY <1>5, <1>14, <1>16
  <2>2. QED
    BY <1>3, <2>1
<1>20. WholeIn(Held') = {}
  BY <1>6, <1>9, <1>11, <1>13, NoneLeft DEF N
<1>21. Intact(Held', kind, sent) <=> Intact(bytes, kind, sent)
  BY <1>2, <1>5, <1>6, <1>10, <1>11, <1>12, <1>13, IntactRest DEF N
<1>22. \E E : Traced(K, B, E, Held', kind, sent, losses)
  BY <1>2, <1>4, <1>6, <1>10, <1>11, <1>13, TracedRest DEF N
<1>23. frameLen' \in {0, 8, 9} /\ frameLen' <= WireLength(kind)
       /\ frameLen' \in {0} \cup {WireLength(l) : l \in Kinds}
  <2>1. \A l \in Kinds : WireLength(l) = 8 \/ WireLength(l) = 9
    BY DEF WireLength
  <2>2. CASE n = 0
    BY <1>1, <1>3, <1>5, <2>1, <2>2 DEF RadarTypes
  <2>3. CASE n # 0
    <3>1. n \in 1..n
      BY <1>14, <2>3
    <3>2. /\ found.frames[n].kind \in Kinds
          /\ WireLength(found.frames[n].kind) <= WireLength(kind)
      BY <1>14, <3>1
    <3>3. frameLen' = WireLength(found.frames[n].kind)
      BY <1>3, <2>3
    <3>4. QED
      BY <2>1, <3>2, <3>3
  <2>4. QED
    BY <2>2, <2>3
<1>24. /\ vmin' \in 1..9 /\ vmin' <= WireLength(kind)
       /\ ~broken => vmin' + sent <= WireLength(kind)
  BY <1>2, <1>3, <1>12, <1>23, NeedIs
<1>25. Wakes'
  <2>1. Len(queue') = 0
    BY <1>3
  <2>2. WireLength(kind) + 0 = WireLength(kind)
    BY <1>2
  <2>3. QED
    BY <1>3, <1>19, <1>24, <2>1, <2>2 DEF Wakes
<1>26. OpenInv'
  BY <1>3, <1>5, <1>19, <1>20, <1>21, <1>22, <1>23, <1>25 DEF OpenInv
<1>27. RadarTypes'
  <2>1. queue' \in Seq(Bytes) /\ Len(queue') = 0
    BY <1>3
  <2>2. Len(queue') <= QueueRoom /\ vmin' \in 1..Longest /\ Len(buf') <= 8
    <3>1. Len(queue') <= QueueRoom
      BY <2>1, RadarBounds
    <3>2. vmin' \in 1..Longest
      BY <1>24, RadarBounds
    <3>3. Len(buf') <= 8
      <4> DEFINE M == Len(buf')
      <4>1. M \in 0..8
        BY <1>12
      <4> HIDE DEF M
      <4>2. M <= 8
        BY <4>1
      <4>3. QED
        BY <4>2 DEF M
    <3>4. QED
      BY <3>1, <3>2, <3>3
  <2>3. due' \subseteq 1..QueueRoom
    BY <1>19
  <2>4. QED
    BY <1>1, <1>3, <1>11, <1>18, <1>23, <2>1, <2>2, <2>3 DEF RadarTypes
<1>28. QED
  BY <1>1, <1>3, <1>18, <1>26, <1>27 DEF RadarInv

LEMMA PlugKeeps == ASSUME RadarInv, Plug PROVE RadarInv'
<1>1. RadarTypes /\ ~madeUp
  BY DEF RadarInv
<1>2. /\ port = "closed" /\ line' = "up" /\ mode' = "basic" /\ kind' = "basic"
      /\ sent' = 0 /\ queue' = queue /\ vmin' = vmin /\ port' = port
      /\ buf' = buf /\ frameLen' = frameLen /\ broken' = broken /\ due' = due
      /\ madeUp' = madeUp /\ losses' = losses
  BY DEF Plug, readerVars, historyVars
<1>3. "basic" \in Kinds /\ WireLength("basic") = 8
  BY DEF Kinds, WireLength
<1>4. RadarTypes'
  <2>1. sent' \in Nat /\ sent' < WireLength(kind') /\ kind' \in Kinds
        /\ mode' \in Kinds
    BY <1>2, <1>3
  <2>2. QED
    BY <1>1, <1>2, <2>1 DEF RadarTypes
<1>5. WireLength(kind') <= WireLength(mode')
  BY <1>2, <1>3
<1>6. ~Open'
  BY <1>2 DEF Open
<1>7. QED
  BY <1>1, <1>2, <1>4, <1>5, <1>6 DEF RadarInv

LEMMA ClosesKeeps == ASSUME RadarInv, Closes PROVE RadarInv'
<1>1. /\ port' = "closed" /\ due' = {}
      /\ line' = line /\ mode' = mode /\ kind' = kind /\ sent' = sent
      /\ queue' = queue /\ vmin' = vmin /\ buf' = buf /\ frameLen' = frameLen
      /\ broken' = broken /\ madeUp' = madeUp /\ losses' = losses
  BY DEF Closes, sensorVars
<1>2. RadarTypes'
  BY <1>1 DEF RadarInv, RadarTypes
<1>3. ~Open'
  BY <1>1 DEF Open
<1>4. QED
  BY <1>1, <1>2, <1>3 DEF RadarInv

\* Neither a line that stalls or goes, nor the reader that parks or wakes,
\* changes what has come and what is due.
LEMMA WaitingKeeps ==
  ASSUME RadarInv, line' \in {"up", "stalled", "gone"},
         port' \in {"none", "closed", "read", "parked"}, Open' => Open,
         UNCHANGED <<mode, kind, sent, queue, vmin, buf, frameLen, historyVars,
                     losses>>
  PROVE  RadarInv'
<1>1. /\ mode' = mode /\ kind' = kind /\ sent' = sent /\ queue' = queue
      /\ vmin' = vmin /\ buf' = buf /\ frameLen' = frameLen /\ broken' = broken
      /\ due' = due /\ madeUp' = madeUp /\ losses' = losses
  BY DEF historyVars
<1>2. RadarTypes'
  BY <1>1 DEF RadarInv, RadarTypes
<1>3. OpenInv' <=> OpenInv
  <2>1. Held' = Held
    BY <1>1 DEF Held
  <2>2. Wakes' <=> Wakes
    BY <1>1 DEF Wakes
  <2>3. QED
    BY <1>1, <2>1, <2>2 DEF OpenInv
<1>4. QED
  BY <1>1, <1>2, <1>3 DEF RadarInv

LEMMA RadarStepKeeps == ASSUME RadarInv, Next PROVE RadarInv'
<1>1. /\ line \in {"up", "stalled", "gone"}
      /\ port \in {"none", "closed", "read", "parked"}
      /\ losses \in 0..Losses
  BY DEF RadarInv, RadarTypes
<1>2. CASE Arrive
  <2>1. losses' \in 0..Losses /\ losses' = losses
    BY <1>1, <1>2 DEF Arrive
  <2>2. QED
    BY <1>2, <2>1, ByteKeeps DEF Arrive
<1>3. CASE Lose
  <2>1. losses' \in 0..Losses /\ losses' = losses + 1
    BY <1>1, <1>3, RadarBounds DEF Lose
  <2>2. QED
    BY <1>3, <2>1, ByteKeeps DEF Lose
<1>4. CASE Stall
  <2>1. port' = port /\ Open' = Open /\ line' = "stalled" /\ vmin' = vmin
        /\ buf' = buf /\ frameLen' = frameLen
    BY <1>4 DEF Stall, readerVars, Open
  <2>2. QED
    BY <1>1, <1>4, <2>1, WaitingKeeps DEF Stall
<1>5. CASE Unplug
  <2>1. port' = port /\ Open' = Open /\ line' = "gone" /\ vmin' = vmin
        /\ buf' = buf /\ frameLen' = frameLen
    BY <1>5 DEF Unplug, readerVars, Open
  <2>2. QED
    BY <1>1, <1>5, <2>1, WaitingKeeps DEF Unplug
<1>6. CASE Plug
  BY <1>6, PlugKeeps
<1>7. CASE OpenLine
  BY <1>7, OpenLineKeeps
<1>8. CASE Read
  BY <1>8, ReadKeeps
<1>9. CASE Park
  <2>1. port' = "parked" /\ Open /\ line' = line /\ mode' = mode /\ kind' = kind
        /\ sent' = sent
    BY <1>9 DEF Park, sensorVars, Open
  <2>2. QED
    BY <1>1, <1>9, <2>1, WaitingKeeps DEF Park
<1>10. CASE Unpark
  <2>1. port' = "read" /\ Open /\ line' = line /\ mode' = mode /\ kind' = kind
        /\ sent' = sent
    BY <1>10 DEF Unpark, sensorVars, Open
  <2>2. QED
    BY <1>1, <1>10, <2>1, WaitingKeeps DEF Unpark
<1>11. CASE Silence
  BY <1>11, ClosesKeeps DEF Silence
<1>12. CASE HangUp
  BY <1>12, ClosesKeeps DEF HangUp
<1>13. QED
  BY <1>2, <1>3, <1>4, <1>5, <1>6, <1>7, <1>8, <1>9, <1>10, <1>11, <1>12
     DEF Next

LEMMA RadarInvInit == ReadersInit => RadarInv
<1> SUFFICES ASSUME NEW p \in {"none", "closed"}, InitWith(p) PROVE RadarInv
  BY DEF ReadersInit, Init, Unused
<1>1. "basic" \in Kinds /\ WireLength("basic") = 8
  BY DEF Kinds, WireLength
<1>2. <<>> \in Seq(Bytes) /\ Len(<<>>) = 0
  OBVIOUS
<1>3. RadarTypes
  <2>1. sent \in Nat /\ sent < WireLength(kind) /\ mode \in Kinds /\ kind \in Kinds
    BY <1>1 DEF InitWith
  <2>2. /\ queue \in Seq(Bytes) /\ Len(queue) <= QueueRoom
        /\ buf \in Seq(Bytes) /\ Len(buf) <= 8
    BY <1>2, RadarBounds DEF InitWith
  <2>3. vmin \in 1..Longest /\ losses \in 0..Losses /\ due \subseteq 1..QueueRoom
    BY RadarBounds DEF InitWith
  <2>4. QED
    BY <2>1, <2>2, <2>3 DEF InitWith, RadarTypes
<1>4. ~Open
  BY DEF InitWith, Open
<1>5. QED
  BY <1>1, <1>3, <1>4 DEF InitWith, RadarInv

LEMMA RadarInvStep == RadarInv /\ [ReadersNext]_allVars => RadarInv'
<1> SUFFICES ASSUME RadarInv, [ReadersNext]_allVars PROVE RadarInv'
  OBVIOUS
<1>1. CASE Next
  BY <1>1, RadarStepKeeps
<1>2. CASE UNCHANGED vars
  <2>1. line' = line /\ port' = port /\ Open' = Open
        /\ UNCHANGED <<mode, kind, sent, queue, vmin, buf, frameLen,
                       historyVars, losses>>
    BY <1>2 DEF vars, sensorVars, readerVars, historyVars, Open
  <2>2. QED
    BY <2>1, WaitingKeeps DEF RadarInv, RadarTypes
<1>3. QED
  BY <1>1, <1>2 DEF ReadersNext, allVars

\* The invariant of the serial reader, its line and its parser: what the
\* reader holds is a stretch of what the sensor sent, without the bytes that
\* got lost, and due counts the whole frames in it (main.go:563-643,
\* ld2410.go:60-123).
THEOREM RadarInvariant == FairSpec => []RadarInv
<1>1. QED
  BY RadarInvInit, RadarInvStep, PTL DEF FairSpec

\* Every variable of either reader keeps its type; in particular neither the
\* parser's buffer nor VMIN outgrows a frame (main.go:600, ld2410.go:71).
THEOREM ReadersTypeCorrect == FairSpec => []TypeOK_Sensors
<1>1. ToFInv /\ RadarInv => TypeOK_Sensors
  <2> SUFFICES ASSUME ToFInv, RadarInv PROVE TypeOK_Sensors
    OBVIOUS
  <2>1. ToF!TypeOK
    BY DEF ToFInv
  <2>2. RadarTypes /\ WireLength(kind) \in 8..9
    BY WireFacts DEF RadarInv, RadarTypes
  <2>3. sent \in 0..(WireLength(kind) - 1)
    BY <2>2 DEF RadarTypes
  <2>4. Len(queue) \in 0..QueueRoom /\ Len(buf) < 2 * Longest
    BY <2>2, RadarBounds DEF RadarTypes
  <2>5. TypeOK
    BY <2>2, <2>3, <2>4 DEF RadarTypes, TypeOK
  <2>6. QED
    BY <2>1, <2>5 DEF TypeOK_Sensors
<1>2. QED
  BY <1>1, ToFInvariant, RadarInvariant, PTL

\* What the parser hands on are whole frames of the sensor, each once and in
\* their order, and none is passed over, for any sizes of the reads, any lost
\* bytes and any start in the middle of a frame (ld2410.go:60).
THEOREM FramesInOrder == FairSpec => []OnlyFramesInOrder
<1>1. RadarInv => OnlyFramesInOrder
  BY DEF RadarInv, OnlyFramesInOrder
<1>2. QED
  BY <1>1, RadarInvariant, PTL

\* The reader never sleeps on a whole frame, in the queue, in the buffer or in
\* both (main.go:600-604, ld2410.go:71).
THEOREM NeverSleepsOnAFrame == FairSpec => []NoFrameWaits
<1>1. RadarInv => NoFrameWaits
  <2> SUFFICES ASSUME RadarInv, Asleep PROVE due = {}
    BY DEF NoFrameWaits
  <2>1. RadarTypes /\ Wakes /\ ~(Len(queue) >= vmin)
    BY DEF RadarInv, OpenInv, Open, Asleep, Readable
  <2>2. QED
    BY <2>1 DEF Wakes
<1>2. QED
  BY <1>1, RadarInvariant, PTL
=============================================================================
