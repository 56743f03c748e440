----------------------------- MODULE RadarStream -----------------------------
(***************************************************************************)
(* The radar's serial line: the sensor sends frames byte by byte, the tty  *)
(* queues them, readSerial (src/main.go) reads what is there or sleeps     *)
(* until VMIN bytes are, and Parser (src/ld2410.go) finds the frames again *)
(* in pieces of any size, after lost bytes, and from the middle of one.    *)
(* Lines stall and get unplugged, and readSerial opens them again.         *)
(*                                                                         *)
(* The wire format is to scale: a header of two bytes, a length of one, a  *)
(* payload whose second byte is AA, a footer of two.  No byte of a payload *)
(* is one of a header or a footer, and none is a length.                   *)
(*                                                                         *)
(* Every byte says for the properties which frame it comes from: the one   *)
(* under way, 0, or how many before.  The parser does not look at that.    *)
(***************************************************************************)
EXTENDS Naturals, Sequences, FiniteSets

CONSTANTS
  QueueRoom,      \* bytes that the tty holds
  Losses          \* bytes that may get lost from one open to the next

Kinds == {"basic", "engineering"}

Payload(kind) == IF kind = "basic" THEN <<"type", "AA", "datum">>
                 ELSE <<"type", "AA", "datum", "gates">>

Wire(kind) == <<"F4", "F3", kind>> \o Payload(kind) \o <<"F8", "F7">>

WireLength(kind) == IF kind = "basic" THEN 8 ELSE 9

Longest == 9

RadarAssumption ==
  /\ \A k \in Kinds : Len(Wire(k)) = WireLength(k) /\ WireLength(k) <= Longest
  /\ QueueRoom \in Nat /\ QueueRoom >= Longest
  /\ Losses \in 0..(WireLength("basic") - 1)

VARIABLES
  line,           \* "up", "stalled" (open, but silent) or "gone"
  mode,           \* the kind of frame the sensor sends next
  kind,           \* the frame under way ...
  sent,           \* ... and how many of its bytes have left the sensor
  queue,          \* bytes in the tty
  vmin,           \* the tty's VMIN
  port,           \* readSerial: "closed", "read" or "parked"; "none" when
                  \* the daemon runs with the other sensor
  buf, frameLen,  \* Parser
  broken,         \* history: the frame under way lacks a byte for this reader
  due,            \* history: whole frames for this reader that it has not got
  madeUp,         \* history: it got a frame that was not due, or out of turn
  losses          \* bytes lost since the line was opened

sensorVars == <<line, mode, kind, sent>>

readerVars == <<vmin, port, buf, frameLen>>

historyVars == <<broken, due, madeUp>>

vars == <<sensorVars, queue, readerVars, historyVars, losses>>

TypeOK ==
  /\ line \in {"up", "stalled", "gone"}
  /\ mode \in Kinds /\ kind \in Kinds
  /\ sent \in 0..(WireLength(kind) - 1)
  /\ Len(queue) \in 0..QueueRoom
  /\ vmin \in 1..Longest
  /\ port \in {"none", "closed", "read", "parked"}
  /\ Len(buf) < 2 * Longest
  /\ frameLen \in {0} \cup {WireLength(k) : k \in Kinds}
  /\ broken \in BOOLEAN /\ due \subseteq 1..QueueRoom
  /\ madeUp \in BOOLEAN
  /\ losses \in 0..Losses

\* A daemon started with p for its readSerial.
InitWith(p) ==
  /\ line = "up" /\ mode = "basic" /\ kind = "basic" /\ sent = 0
  /\ queue = <<>> /\ vmin = 1 /\ port = p
  /\ buf = <<>> /\ frameLen = 0
  /\ broken = FALSE /\ due = {} /\ madeUp = FALSE
  /\ losses = 0

Init == InitWith("closed")

Unused == InitWith("none")

-----------------------------------------------------------------------------
(* The sensor and the line: external *)

Open == port \in {"read", "parked"}

\* Once the frame under way is whole, all are one further back.
Back(bytes) == [i \in 1..Len(bytes) |-> [bytes[i] EXCEPT !.of = @ + 1]]

\* A byte leaves the sensor, and arrives in the tty or does not.
Byte(arrives) ==
  LET byte == [is |-> Wire(kind)[sent + 1], of |-> 0]
      now == IF arrives THEN Append(queue, byte) ELSE queue
  IN /\ IF sent + 1 < WireLength(kind)
        THEN /\ sent' = sent + 1 /\ queue' = now
             /\ broken' = (broken \/ ~arrives)
             /\ UNCHANGED <<kind, buf, due>>
        ELSE /\ sent' = 0 /\ kind' = mode /\ broken' = FALSE
             /\ queue' = Back(now) /\ buf' = Back(buf)
             /\ due' = {n + 1 : n \in due} \cup {n \in {1} : arrives /\ ~broken}
     /\ UNCHANGED <<line, mode, vmin, port, frameLen, madeUp>>

Arrive ==
  /\ line = "up" /\ Open /\ Len(queue) < QueueRoom
  /\ Byte(TRUE) /\ UNCHANGED losses

\* A tty overrun, or a USB packet that is gone.
Lose ==
  /\ line = "up" /\ Open /\ losses < Losses
  /\ Byte(FALSE) /\ losses' = losses + 1

\* The line falls silent: nothing arrives until it is opened again.
Stall ==
  /\ line = "up" /\ Open
  /\ line' = "stalled"
  /\ UNCHANGED <<mode, kind, sent, queue, readerVars, historyVars, losses>>

Unplug ==
  /\ line # "gone" /\ port # "none"
  /\ line' = "gone"
  /\ UNCHANGED <<mode, kind, sent, queue, readerVars, historyVars, losses>>

\* A sensor that was without power starts in basic mode, with a new frame.
Plug ==
  /\ line = "gone" /\ port = "closed"
  /\ line' = "up" /\ mode' = "basic" /\ kind' = "basic" /\ sent' = 0
  /\ UNCHANGED <<queue, readerVars, historyVars, losses>>

-----------------------------------------------------------------------------
(* Parser *)

Header == <<"F4", "F3">>

Footer == <<"F8", "F7">>

SaysAt(bytes, i, what) ==
  /\ i + Len(what) <= Len(bytes) + 1
  /\ \A j \in 1..Len(what) : bytes[i + j - 1].is = what[j]

First(S) == CHOOSE i \in S : \A j \in S : i <= j

\* The next header from i on, or one more than what the buffer holds.
Ahead(bytes, i) ==
  First({Len(bytes) + 1} \cup {h \in i..Len(bytes) : SaysAt(bytes, h, Header)})

\* Mutant: without a header in sight nothing is kept.
KeptNone(bytes, i) == Len(bytes) + 1

\* Without a header in sight the last byte is kept: it may begin one.
Kept(bytes, i) == IF i > Len(bytes) THEN i ELSE Len(bytes)

\* The kind of frame that the length of the header at h announces.
Announced(bytes, h) == {k \in Kinds : SaysAt(bytes, h + 2, <<k>>)}

IsFrame(bytes, h, k) ==
  /\ SaysAt(bytes, h + 4, <<"AA">>)
  /\ SaysAt(bytes, h + WireLength(k) - 2, Footer)

\* What does not turn out a frame is skipped by one byte.
Skip(h, k) == h + 1

\* What Feed's loop makes of the bytes from i on, given what it makes of those
\* further on: the frames' first bytes, with their kinds, and the first byte
\* that it leaves in the buffer.
Feeds(bytes, scan, i) ==
  LET h == Ahead(bytes, i)
  IN IF h > Len(bytes) THEN [frames |-> <<>>, rest |-> Kept(bytes, i)]
     ELSE IF h + 2 > Len(bytes) THEN [frames |-> <<>>, rest |-> h]
     ELSE IF Announced(bytes, h) = {} THEN scan[h + 1]
     ELSE LET k == CHOOSE k \in Announced(bytes, h) : TRUE
              end == h + WireLength(k)
          IN IF end > Len(bytes) + 1 THEN [frames |-> <<>>, rest |-> h]
             ELSE IF IsFrame(bytes, h, k)
             THEN LET more == scan[end]
                  IN [frames |-> <<[at |-> h, kind |-> k]>> \o more.frames,
                      rest |-> more.rest]
             ELSE scan[Skip(h, k)]

Found(bytes) ==
  LET scan[i \in 1..(Len(bytes) + 1)] == Feeds(bytes, scan, i)
  IN scan[1]

\* Mutant: always a whole frame.
NeedWhole(len, held) == IF len = 0 THEN WireLength("basic") ELSE len

\* Parser.Need.
Need(len, held) ==
  LET l == IF len = 0 THEN WireLength("basic") ELSE len
  IN IF l > held THEN l - held ELSE 1

-----------------------------------------------------------------------------
(* readSerial *)

\* Both opens and enterEngineering, which may fail, and has read what was
\* queued.  The sensor has gone on meanwhile.
OpenLine ==
  /\ port = "closed" /\ line # "gone"
  /\ line' = "up" /\ mode' \in {mode, "engineering"}
  /\ sent' \in 0..(WireLength(kind) - 1)
  /\ queue' = <<>> /\ vmin' = 1 /\ port' = "read"
  /\ buf' = <<>> /\ frameLen' = 0
  /\ broken' = (sent' > 0) /\ due' = {} /\ losses' = 0
  /\ UNCHANGED <<kind, madeUp>>

\* The frames of the sensor that the bytes of this one come from.
Origin(bytes, frame) ==
  {bytes[i].of : i \in frame.at..(frame.at + WireLength(frame.kind) - 1)}

\* The oldest that is due, and all of it.
InTurn(origins) ==
  \A i \in 1..Len(origins) :
    LET owed == due \ UNION {origins[j] : j \in 1..(i - 1)}
    IN \E n \in owed : origins[i] = {n} /\ \A m \in owed : m <= n

\* rf.Read with bytes to read, Feed, and setReadMin.
Read ==
  /\ port = "read" /\ queue # <<>>
  /\ queue' = <<>>
  /\ \E bytes \in {buf \o queue} : \E found \in {Found(bytes)} :
       LET n == Len(found.frames)
           origins == [i \in 1..n |-> Origin(bytes, found.frames[i])]
       IN /\ buf' = SubSeq(bytes, found.rest, Len(bytes))
          /\ frameLen' = IF n = 0 THEN frameLen
                         ELSE WireLength(found.frames[n].kind)
          /\ due' = due \ UNION {origins[i] : i \in 1..n}
          /\ madeUp' = (madeUp \/ ~InTurn(origins))
  /\ vmin' = Need(frameLen', Len(buf'))
  /\ UNCHANGED <<sensorVars, port, broken, losses>>

\* With nothing to read the goroutine is parked until the tty says readable.
Park ==
  /\ port = "read" /\ queue = <<>>
  /\ port' = "parked"
  /\ UNCHANGED <<sensorVars, queue, vmin, buf, frameLen, historyVars, losses>>

Readable == Len(queue) >= vmin

Unpark ==
  /\ port = "parked" /\ Readable
  /\ port' = "read"
  /\ UNCHANGED <<sensorVars, queue, vmin, buf, frameLen, historyVars, losses>>

Closes ==
  /\ port' = "closed" /\ due' = {}
  /\ UNCHANGED <<sensorVars, queue, vmin, buf, frameLen, broken, madeUp,
                 losses>>

\* Mutant: the deadline counts only before the first frame.
SilenceAtFirst ==
  /\ port = "parked" /\ ~Readable /\ line = "stalled" /\ frameLen = 0
  /\ Closes

\* serialSilence: a line that is not stalled brings many frames in that time.
Silence ==
  /\ port = "parked" /\ ~Readable /\ line = "stalled"
  /\ Closes

\* EOF or EIO.
HangUp == Open /\ line = "gone" /\ Closes

Next ==
  \/ Arrive
  \/ Lose
  \/ Stall
  \/ Unplug
  \/ Plug
  \/ OpenLine
  \/ Read
  \/ Park
  \/ Unpark
  \/ Silence
  \/ HangUp

\* The sensor streams, a missing one is plugged in again, and readSerial runs.
Fairness ==
  /\ WF_vars(Arrive) /\ WF_vars(Plug)
  /\ WF_vars(OpenLine) /\ WF_vars(Read) /\ WF_vars(Park) /\ WF_vars(Unpark)
  /\ WF_vars(Silence) /\ WF_vars(HangUp)

-----------------------------------------------------------------------------
(* Safety *)

\* What the parser hands on are whole frames of the sensor, each once and in
\* their order, and none it could have handed on is passed over, whatever is
\* lost and wherever the reads cut (ld2410.go:60).
OnlyFramesInOrder == ~madeUp

Asleep == port = "parked" /\ ~Readable

\* The reader never sleeps on a whole frame, whatever was lost before: a read
\* leaves none in the buffer, and VMIN asks for no more than the rest of the
\* next one (main.go:600-604, ld2410.go:71).
NoFrameWaits == Asleep => due = {}

-----------------------------------------------------------------------------
(* Liveness *)

GetsAFrame == due # {} /\ Read /\ due' = {}

NoTrouble == ~Stall /\ ~Unplug

\* Frames keep coming when the line is well from some point on, after stalls
\* the tty does not report, unplugged sensors and frames of another length
\* (main.go:559).
FramesKeepComing ==
  port # "none" /\ <>[][NoTrouble]_vars => []<><<GetsAFrame>>_vars
=============================================================================
