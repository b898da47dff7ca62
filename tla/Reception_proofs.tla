-------------------------- MODULE Reception_proofs --------------------------
(***************************************************************************)
(* Proofs about the stream of an encoder: FrameTime, FrameAsm and          *)
(* Reception, for buffers, packets and frames of every size, any tracks    *)
(* and clocks of every width.  A step of the stream is a step of its clock *)
(* and of its buffer, so what holds of each holds of the stream; that what *)
(* is passed on can be decoded is proved of the whole.  Then about the     *)
(* connection it comes on, EncLink, for any streams, encoders and          *)
(* descriptors, any size of the queue to the lower thread and any number   *)
(* of failures.                                                            *)
(***************************************************************************)
EXTENDS Reception, EncLink, TLAPS

-----------------------------------------------------------------------------
(* The clock of a stream (FrameTime).                                      *)

\* Addition of words gives a word.
LEMMA AddWord ==
    ASSUME NEW a \in Word, NEW b \in Word
    PROVE  Add(a, b) \in Word
BY TimeAssumption DEF Add, Word

\* To count on from a sum is to count more.
LEMMA AddMore ==
    ASSUME NEW x \in Word, NEW y \in Word, NEW z \in Word, x + z \in Word
    PROVE  Add(Add(x, y), z) = Add(x + z, y)
BY TimeAssumption DEF Add, Word

\* The distance of two words is a word, and so is an interval.
LEMMA IntervalWord ==
    ASSUME NEW a \in Word, NEW b \in Word
    PROVE  Distance(a, b) \in Word /\ getIntervalTime(a, b) \in Word
BY TimeAssumption DEF Distance, getIntervalTime, Word

Clock == [on : BOOLEAN, init : Word, cal : Word, tick : Word, prev : Word, at : Word]

\* What Carried says of one track.
Sum(c) == c.on => c.init <= c.prev /\ c.tick = Add(c.prev - c.init, c.cal)

\* The clock of a track after a packet (Packet's LET).
After(c0, jpeg, t, now) ==
    LET c == Started(c0, t)
        d == IF Broken(c, jpeg, t) THEN Rebase(c, t, now) ELSE Count(c, t)
    IN  [d EXCEPT !.prev = t, !.at = now]

\* The two ways the clock of a track goes on: it counts what the encoder's clock
\* has counted, or it begins anew with what the room's clock says.
Counted(c, e) ==
    /\ e.init = c.init /\ e.prev >= c.prev
    /\ e.tick = Add(c.tick, e.prev - c.prev)

Rebased(c, e) ==
    /\ e.init = e.prev
    /\ e.tick = Add(c.tick, getIntervalTime(c.at, e.at))

\* A word added is a step back only if it is half of the words or more.
LEMMA AddedAhead ==
    ASSUME NEW a \in Word, NEW d \in Word, Before(Add(a, d), a)
    PROVE  2 * d >= M
BY TimeAssumption DEF Add, Before, Word

\* Both go forward, but for a leap.
LEMMA GoesForward ==
    ASSUME NEW c \in Clock, NEW e \in Clock, Sum(c), c.on,
           Counted(c, e) \/ Rebased(c, e), Before(e.tick, c.tick)
    PROVE  Leap(c, e)
<1>1. /\ c.init \in Word /\ c.prev \in Word /\ c.tick \in Word /\ c.at \in Word
      /\ e.init \in Word /\ e.prev \in Word /\ e.at \in Word
  BY DEF Clock
<1>2. CASE Rebased(c, e)
  <2>1. 2 * getIntervalTime(c.at, e.at) >= M
    BY <1>1, <1>2, IntervalWord, AddedAhead DEF Rebased
  <2> QED
    BY <1>2, <2>1 DEF Leap, Rebased
<1>3. CASE Counted(c, e)
  <2>1. e.prev - c.prev \in Word /\ Distance(c.prev, e.prev) = e.prev - c.prev
    BY <1>1, <1>3, TimeAssumption DEF Counted, Word, Distance
  <2>2. 2 * (e.prev - c.prev) >= M
    BY <1>1, <1>3, <2>1, AddedAhead DEF Counted
  <2>3. e.init # e.prev
    BY <1>1, <1>3, <2>2, TimeAssumption DEF Counted, Sum, Word
  <2> QED
    BY <2>1, <2>2, <2>3 DEF Leap
<1> QED
  BY <1>2, <1>3

\* A clock that stands does not step back.
LEMMA NotBefore ==
    ASSUME NEW a \in Word
    PROVE  ~Before(a, a)
BY TimeAssumption DEF Before, Word

\* A packet leaves a clock that is carried over and went on in one of the two ways.
LEMMA AfterPacket ==
    ASSUME NEW c0 \in Clock, NEW jpeg \in BOOLEAN, NEW t \in Word, NEW now \in Word, Sum(c0)
    PROVE  LET e == After(c0, jpeg, t, now) IN
           /\ e \in Clock
           /\ e.prev = t /\ e.at = now
           /\ Sum(e)
           /\ c0.on => Counted(c0, e) \/ Rebased(c0, e)
<1> DEFINE c == Started(c0, t)
           e == After(c0, jpeg, t, now)
<1>1. c \in Clock /\ c.on /\ c.init <= c.prev /\ c.at = c0.at /\ c.tick = c0.tick
  <2>1. CASE c0.on
    <3>1. c = c0
      BY <2>1 DEF Started
    <3> QED
      BY <2>1, <3>1 DEF Sum
  <2>2. CASE ~c0.on
    <3>1. c = [c0 EXCEPT !.on = TRUE, !.init = t, !.cal = 0, !.prev = t]
      BY <2>2 DEF Started
    <3>2. 0 \in Word /\ t <= t
      BY TimeAssumption DEF Word
    <3> HIDE DEF c
    <3> QED
      BY <3>1, <3>2 DEF Clock
  <2> QED
    BY <2>1, <2>2
<1>2. CASE Broken(c, jpeg, t)
  <2>1. e = [Rebase(c, t, now) EXCEPT !.prev = t, !.at = now]
    BY <1>2 DEF After
  <2>2. getIntervalTime(c.at, now) \in Word
    BY <1>1, IntervalWord DEF Clock
  <2> DEFINE s == Add(c.tick, getIntervalTime(c.at, now))
  <2>3. s \in Word
    BY <1>1, <2>2, AddWord DEF Clock
  <2> HIDE DEF s
  <2>4. Rebase(c, t, now) = [c EXCEPT !.tick = s, !.init = t, !.cal = s]
    BY DEF Rebase, s
  <2>5. /\ e \in Clock /\ e.prev = t /\ e.at = now
        /\ e.init = t /\ e.tick = s /\ e.cal = s
    <3> HIDE DEF c, e
    <3> QED
      BY <1>1, <2>1, <2>3, <2>4 DEF Clock
  <2>6. Add(t - t, s) = s
    BY <2>3, TimeAssumption DEF Add, Word
  <2>7. Sum(e)
    BY <2>5, <2>6 DEF Sum, Word
  <2> QED
    BY <1>1, <2>5, <2>7 DEF s, Rebased
<1>3. CASE ~Broken(c, jpeg, t)
  <2>1. e = [Count(c, t) EXCEPT !.prev = t, !.at = now]
    BY <1>3 DEF After
  <2>2. t >= c.prev
    BY <1>1, <1>3 DEF Broken, Clock, Word
  <2>3. Distance(t, c.init) = t - c.init /\ t - c.init \in Word
    <3>1. c.init \in 0 .. M - 1 /\ c.prev \in 0 .. M - 1 /\ t \in 0 .. M - 1
      BY <1>1 DEF Clock, Word
    <3> HIDE DEF c
    <3> QED
      BY <1>1, <2>2, <3>1, TimeAssumption DEF Distance, Word
  <2> DEFINE s == Add(t - c.init, c.cal)
  <2>4. s \in Word
    BY <1>1, <2>3, AddWord DEF Clock
  <2>5. Count(c, t) = [c EXCEPT !.tick = s]
    BY <2>3 DEF Count
  <2> HIDE DEF s
  <2>6. /\ e \in Clock /\ e.prev = t /\ e.at = now
        /\ e.init = c.init /\ e.tick = s /\ e.cal = c.cal
    <3> HIDE DEF c, e
    <3> QED
      BY <1>1, <2>1, <2>4, <2>5 DEF Clock
  <2>7. Sum(e)
    BY <1>1, <2>2, <2>6 DEF Sum, s, Clock, Word
  <2>8. ASSUME c0.on
        PROVE  t >= c0.prev /\ s = Add(c0.tick, t - c0.prev)
    <3>1. c = c0
      BY <2>8 DEF Started
    <3>2. /\ c0.prev - c0.init \in Word /\ t - c0.prev \in Word /\ c0.cal \in Word
          /\ (c0.prev - c0.init) + (t - c0.prev) = t - c0.init
      <4>1. /\ c0.init \in 0 .. M - 1 /\ c0.prev \in 0 .. M - 1 /\ t \in 0 .. M - 1
            /\ c0.cal \in 0 .. M - 1
            /\ c0.init <= c0.prev /\ c0.prev <= t
        BY <1>1, <2>2, <3>1 DEF Clock, Word
      <4> HIDE DEF c
      <4> QED
        BY <4>1, TimeAssumption DEF Word
    <3>3. c0.tick = Add(c0.prev - c0.init, c0.cal)
      BY <2>8 DEF Sum
    <3>4. Add(Add(c0.prev - c0.init, c0.cal), t - c0.prev) = Add(t - c0.init, c0.cal)
      <4> DEFINE x == c0.prev - c0.init
                 z == t - c0.prev
      <4>1. x \in Word /\ z \in Word /\ x + z = t - c0.init /\ x + z \in Word
        BY <2>3, <3>1, <3>2
      <4> HIDE DEF x, z
      <4>2. Add(Add(x, c0.cal), z) = Add(x + z, c0.cal)
        BY <3>2, <4>1, AddMore
      <4> QED
        BY <4>1, <4>2 DEF x, z
    <3> QED
      BY <2>2, <3>1, <3>3, <3>4 DEF s
  <2>9. c0.on => c.init = c0.init
    BY DEF Started
  <2> QED
    BY <2>6, <2>7, <2>8, <2>9 DEF Counted
<1> QED
  BY <1>2, <1>3

\* A packet's step in terms of After.
LEMMA PacketAfter ==
    ASSUME NEW k \in Tracks, NEW jpeg, NEW t, NEW now, Packet(k, jpeg, t, now)
    PROVE  clk' = [clk EXCEPT ![k] = After(clk[k], jpeg, t, now)]
BY DEF Packet, After

TimeInv == TimeTypeOK /\ Carried

\* Every step keeps the clocks carried over and none steps back but for a leap.
LEMMA StepForward ==
    ASSUME TimeInv, [TimeNext]_timeVars
    PROVE  TimeInv' /\ (NoStepBack \/ UNCHANGED timeVars)
<1>1. CASE UNCHANGED timeVars
  BY <1>1 DEF TimeInv, TimeTypeOK, Carried, timeVars
<1>2. CASE Lose
  <2>1. UNCHANGED clk /\ TimeInv'
    BY <1>2 DEF Lose, TimeInv, TimeTypeOK, Carried
  <2>2. \A k \in Tracks : ~Before(clk'[k].tick, clk[k].tick)
    BY <2>1, NotBefore DEF TimeInv, TimeTypeOK
  <2> QED
    BY <2>1, <2>2 DEF NoStepBack
<1>3. ASSUME NEW k \in Tracks, NEW jpeg \in BOOLEAN, NEW t \in Word, NEW now \in Word,
             Packet(k, jpeg, t, now)
      PROVE  TimeInv' /\ NoStepBack
  <2> DEFINE e == After(clk[k], jpeg, t, now)
  <2>1. clk[k] \in Clock /\ Sum(clk[k]) /\ clk \in [Tracks -> Clock]
    BY DEF TimeInv, TimeTypeOK, Carried, Clock, Sum
  <2>2. /\ e \in Clock /\ e.prev = t /\ e.at = now /\ Sum(e)
        /\ clk[k].on => Counted(clk[k], e) \/ Rebased(clk[k], e)
    BY <2>1, AfterPacket
  <2>3. clk' = [clk EXCEPT ![k] = e]
    BY <1>3, PacketAfter
  <2> HIDE DEF e
  <2>4. clk'[k] = e /\ \A j \in Tracks \ {k} : clk'[j] = clk[j]
    BY <2>1, <2>3
  <2>5. TimeTypeOK'
    BY <1>3, <2>1, <2>2, <2>3 DEF TimeInv, TimeTypeOK, Packet, Clock
  <2>6. Carried'
    BY <2>2, <2>4 DEF TimeInv, Carried, Sum
  <2>7. NoStepBack
    <3>1. clk[k].on /\ Before(clk'[k].tick, clk[k].tick) => Leap(clk[k], clk'[k])
      BY <2>1, <2>2, <2>4, GoesForward
    <3>2. \A j \in Tracks \ {k} : ~Before(clk'[j].tick, clk[j].tick)
      BY <2>1, <2>4, NotBefore DEF Clock
    <3> QED
      BY <3>1, <3>2 DEF NoStepBack
  <2> QED
    BY <2>5, <2>6, <2>7 DEF TimeInv
<1> QED
  BY <1>1, <1>2, <1>3 DEF TimeNext

LEMMA TimeInitInv == TimeInit => TimeInv
<1> SUFFICES ASSUME TimeInit PROVE TimeTypeOK /\ Carried
  BY DEF TimeInv
<1>1. 0 \in Word
  BY TimeAssumption DEF Word
<1>2. TimeTypeOK
  BY <1>1 DEF TimeInit, TimeTypeOK
<1>3. Carried
  BY DEF TimeInit, Carried
<1> QED
  BY <1>2, <1>3

\* Every clock of the receive time is a word.
THEOREM TimeTypeCorrect == TimeSpec => []TimeTypeOK
<1>1. TimeInv /\ [TimeNext]_timeVars => TimeInv'
  BY StepForward
<1> QED
  BY <1>1, TimeInitInv, PTL DEF TimeSpec, TimeInv

\* The tick is what was carried over and what was counted since
\* (pkg_placed_in_frame, pkg_placed_in_frame_audio).
THEOREM TickCarried == TimeSpec => []Carried
<1>1. TimeInv /\ [TimeNext]_timeVars => TimeInv'
  BY StepForward
<1> QED
  BY <1>1, TimeInitInv, PTL DEF TimeSpec, TimeInv

\* The tick of a track never goes back, whatever the encoder's clock does, but for
\* a leap of half the words (pkg_placed_in_frame).
THEOREM TickForward == TimeSpec => NeverBack
<1>1. TimeInv /\ [TimeNext]_timeVars => TimeInv' /\ [NoStepBack]_timeVars
  BY StepForward
<1> QED
  BY <1>1, TimeInitInv, PTL DEF TimeSpec, NeverBack

-----------------------------------------------------------------------------
(* The buffer of a stream (FrameAsm), and the stream.                      *)

AsmInv == AsmTypeOK /\ InStep /\ WholeFrames

LEMMA AsmInitInv == AsmInit => AsmInv
<1> SUFFICES ASSUME AsmInit PROVE AsmTypeOK /\ InStep /\ WholeFrames
  BY DEF AsmInv
<1>1. 0 \in 0 .. MaxFrame /\ 0 \in 0 .. MaxLen /\ 0 <= 0 /\ ~(0 < 0)
  BY AsmAssumption
<1>2. AsmTypeOK
  BY <1>1 DEF AsmInit, AsmTypeOK
<1>3. InStep /\ WholeFrames
  BY <1>1 DEF AsmInit, InStep, WholeFrames
<1> QED
  BY <1>2, <1>3

\* A step that begins a frame, or gives one up, touches nothing else.
LEMMA BeginInv ==
    ASSUME AsmInv, NEW len \in 1 .. MaxLen, Begin(len)
    PROVE  AsmInv'
BY AsmAssumption DEF AsmInv, AsmTypeOK, InStep, WholeFrames, Begin, Places

LEMMA ReconnectInv ==
    ASSUME AsmInv, Reconnect
    PROVE  AsmInv'
<1>1. /\ enc' = [id |-> enc.id, len |-> enc.len, sent |-> enc.len]
      /\ enc.id \in 0 .. MaxFrame /\ enc.len \in 0 .. MaxLen
  BY DEF AsmInv, AsmTypeOK, Reconnect
<1>2. AsmTypeOK'
  BY <1>1, AsmAssumption DEF AsmInv, AsmTypeOK, Reconnect
<1>3. InStep' /\ WholeFrames'
  BY <1>1, AsmAssumption DEF AsmInv, InStep, WholeFrames, Reconnect
<1> QED
  BY <1>2, <1>3 DEF AsmInv

\* What every packet does to the encoder's frame.
LEMMA SentMore ==
    ASSUME AsmInv, NEW p \in 1 .. MaxPart, NEW first \in BOOLEAN, NEW last \in BOOLEAN,
           Sent(p, first, last)
    PROVE  /\ p \in Nat /\ p > 0 /\ enc.sent + p <= enc.len /\ off = enc.sent
           /\ enc' = [id |-> enc.id, len |-> enc.len, sent |-> enc.sent + p]
           /\ enc.id \in 0 .. MaxFrame /\ enc.len \in 0 .. MaxLen /\ enc.sent \in 0 .. MaxLen
           /\ \A i \in Places : i < off => buf[i] = enc.id
BY AsmAssumption DEF AsmInv, AsmTypeOK, InStep, Sent, Places

\* The packet is copied to its place, behind what came before it.
LEMMA CopiedMore ==
    ASSUME AsmInv, NEW p \in Nat, p > 0, enc.sent + p <= enc.len,
           \A i \in Places : i < enc.sent => buf[i] = enc.id
    PROVE  /\ Copied(enc.sent, p) \in [Places -> 0 .. MaxFrame]
           /\ \A i \in Places : i < enc.sent + p => Copied(enc.sent, p)[i] = enc.id
BY AsmAssumption DEF AsmInv, AsmTypeOK, Copied, Places

\* A packet in the midst of a frame keeps the receiver in step, its last one
\* finds the frame whole.
LEMMA PacketInv ==
    ASSUME AsmInv, NEW p \in 1 .. MaxPart, Place(p)
    PROVE  AsmInv'
<1>1. CASE StartFrame(p) \/ MiddleFrame(p)
  <2>1. /\ p \in Nat /\ p > 0 /\ enc.sent + p < enc.len /\ off = enc.sent
        /\ enc' = [id |-> enc.id, len |-> enc.len, sent |-> enc.sent + p]
        /\ enc.id \in 0 .. MaxFrame /\ enc.len \in 0 .. MaxLen /\ enc.sent \in 0 .. MaxLen
        /\ \A i \in Places : i < enc.sent => buf[i] = enc.id
        /\ StartFrame(p) => enc.sent = 0
    <3>1. CASE StartFrame(p)
      <4>1. Sent(p, TRUE, FALSE)
        BY <3>1 DEF StartFrame
      <4>3. ~(enc.sent + p = enc.len) /\ enc.sent = 0
        BY <4>1 DEF Sent
      <4>4. /\ p \in Nat /\ p > 0 /\ enc.sent + p <= enc.len /\ off = enc.sent
            /\ enc' = [id |-> enc.id, len |-> enc.len, sent |-> enc.sent + p]
            /\ enc.id \in 0 .. MaxFrame /\ enc.len \in 0 .. MaxLen /\ enc.sent \in 0 .. MaxLen
            /\ \A i \in Places : i < off => buf[i] = enc.id
        BY <4>1, SentMore
      <4>5. enc.sent + p < enc.len
        BY <4>3, <4>4
      <4> QED
        BY <4>3, <4>4, <4>5
    <3>2. CASE MiddleFrame(p)
      <4>1. Sent(p, FALSE, FALSE)
        BY <3>2 DEF MiddleFrame
      <4>2. enc.sent + p # enc.len /\ enc.sent # 0
        BY <4>1 DEF Sent
      <4>3. ~StartFrame(p)
        BY <4>2 DEF StartFrame, Sent
      <4>4. /\ p \in Nat /\ p > 0 /\ enc.sent + p <= enc.len /\ off = enc.sent
            /\ enc' = [id |-> enc.id, len |-> enc.len, sent |-> enc.sent + p]
            /\ enc.id \in 0 .. MaxFrame /\ enc.len \in 0 .. MaxLen /\ enc.sent \in 0 .. MaxLen
            /\ \A i \in Places : i < off => buf[i] = enc.id
        BY <4>1, SentMore
      <4>5. enc.sent + p < enc.len
        BY <4>2, <4>4
      <4> QED
        BY <4>3, <4>4, <4>5
    <3> QED
      BY <1>1, <3>1, <3>2
  <2>2. buf' = Copied(enc.sent, p) /\ off' = enc.sent + p /\ out' = 0 /\ UNCHANGED spoiled
    <3>1. ~(off + p > enc.len)
      BY <2>1
    <3>2. CASE StartFrame(p)
      <4>1. enc.sent = 0 /\ p = enc.sent + p
        BY <2>1, <3>2
      <4> QED
        BY <3>1, <3>2, <4>1 DEF StartFrame, Keep
    <3>3. CASE MiddleFrame(p)
      BY <2>1, <3>1, <3>3 DEF MiddleFrame, Keep
    <3> QED
      BY <1>1, <3>2, <3>3
  <2>3. /\ Copied(enc.sent, p) \in [Places -> 0 .. MaxFrame]
        /\ \A i \in Places : i < enc.sent + p => Copied(enc.sent, p)[i] = enc.id
    BY <2>1, CopiedMore
  <2>4. AsmTypeOK'
    BY <2>1, <2>2, <2>3, AsmAssumption DEF AsmInv, AsmTypeOK
  <2>5. InStep'
    BY <2>1, <2>2, <2>3 DEF InStep
  <2> QED
    BY <2>2, <2>4, <2>5 DEF AsmInv, WholeFrames
<1>2. CASE LastFrame(p) \/ IndependentFrame(p)
  <2>1. /\ p \in Nat /\ p > 0 /\ enc.sent + p = enc.len /\ off = enc.sent
        /\ enc' = [id |-> enc.id, len |-> enc.len, sent |-> enc.sent + p]
        /\ enc.id \in 0 .. MaxFrame /\ enc.len \in 0 .. MaxLen /\ enc.sent \in 0 .. MaxLen
        /\ \A i \in Places : i < enc.sent => buf[i] = enc.id
        /\ IndependentFrame(p) => enc.sent = 0
    <3>1. CASE LastFrame(p)
      <4>1. Sent(p, FALSE, TRUE)
        BY <3>1 DEF LastFrame
      <4>2. enc.sent + p = enc.len /\ enc.sent # 0
        BY <4>1 DEF Sent
      <4>3. ~IndependentFrame(p)
        BY <4>2 DEF IndependentFrame, Sent
      <4> QED
        BY <4>1, <4>2, <4>3, SentMore, AsmAssumption
    <3>2. CASE IndependentFrame(p)
      <4>1. Sent(p, TRUE, TRUE)
        BY <3>2 DEF IndependentFrame
      <4>2. enc.sent + p = enc.len /\ enc.sent = 0
        BY <4>1 DEF Sent
      <4> QED
        BY <4>1, <4>2, SentMore, AsmAssumption
    <3> QED
      BY <1>2, <3>1, <3>2
  <2>2. buf' = Copied(enc.sent, p) /\ off' = 0 /\ HandOn(buf')
    <3>1. CASE LastFrame(p)
      <4>1. ~(off + p > enc.len) /\ off = enc.sent
        BY <2>1
      <4> QED
        BY <3>1, <4>1 DEF LastFrame
    <3>2. CASE IndependentFrame(p)
      <4>1. enc.sent = 0 /\ p = enc.len /\ off = 0
        BY <2>1, <3>2
      <4> QED
        BY <3>2, <4>1 DEF IndependentFrame
    <3> QED
      BY <1>2, <3>1, <3>2
  <2>3. /\ Copied(enc.sent, p) \in [Places -> 0 .. MaxFrame]
        /\ \A i \in Places : i < enc.sent + p => Copied(enc.sent, p)[i] = enc.id
    BY <2>1, CopiedMore
  <2>4. Whole(buf')
    BY <2>1, <2>2, <2>3 DEF Whole
  <2>5. ~spoiled' /\ out' = enc.id
    BY <2>2, <2>4 DEF HandOn, AsmInv, WholeFrames
  <2>6. AsmTypeOK'
    <3>1. spoiled' \in BOOLEAN
      BY <2>2 DEF HandOn
    <3>2. /\ enc' \in [id : 0 .. MaxFrame, len : 0 .. MaxLen, sent : 0 .. MaxLen]
          /\ enc'.sent <= enc'.len
      BY <2>1, AsmAssumption
    <3>3. off' \in 0 .. MaxLen /\ buf' \in [Places -> 0 .. MaxFrame] /\ out' \in 0 .. MaxFrame
      BY <2>1, <2>2, <2>3, <2>5, AsmAssumption
    <3> QED
      BY <3>1, <3>2, <3>3 DEF AsmTypeOK
  <2>7. InStep'
    BY <2>1, <2>2 DEF InStep
  <2> QED
    BY <2>5, <2>6, <2>7 DEF AsmInv, WholeFrames
<1> QED
  BY <1>1, <1>2 DEF Place

LEMMA AsmStepInv == AsmInv /\ [AsmNext]_asmVars => AsmInv'
<1> SUFFICES ASSUME AsmInv, [AsmNext]_asmVars PROVE AsmInv'
  OBVIOUS
<1>1. CASE UNCHANGED asmVars
  BY <1>1 DEF AsmInv, AsmTypeOK, InStep, WholeFrames, asmVars
<1> QED
  BY <1>1, BeginInv, PacketInv, ReconnectInv DEF AsmNext

\* The offset and all lengths stay within frame_data.
THEOREM AsmTypeCorrect == AsmSpec => []AsmTypeOK
BY AsmInitInv, AsmStepInv, PTL DEF AsmSpec, AsmInv

\* The receiver is in step with the encoder: pkg_placed_in_frame refuses no
\* packet of a frame it has the beginning of.
THEOREM AlwaysInStep == AsmSpec => []InStep
BY AsmInitInv, AsmStepInv, PTL DEF AsmSpec, AsmInv

\* Every frame handed on is whole.
THEOREM AlwaysWhole == AsmSpec => []WholeFrames
BY AsmInitInv, AsmStepInv, PTL DEF AsmSpec, AsmInv

-----------------------------------------------------------------------------
(* The stream as a whole.                                                  *)

\* A step of the stream is a step of its clock ...
LEMMA StepOfClock == [RecvNext]_recvVars => [TimeNext]_timeVars
<1> SUFFICES ASSUME [RecvNext]_recvVars PROVE [TimeNext]_timeVars
  OBVIOUS
<1>1. ASSUME NEW p \in 1 .. MaxPart, NEW t \in Word, NEW now \in Word, Receive(p, t, now)
      PROVE  TimeNext
  <2>1. Packet("video", kind = "JPEG", t, now) /\ (kind = "JPEG") \in BOOLEAN
    BY <1>1 DEF Receive
  <2> QED
    BY <2>1, VideoAssumption DEF TimeNext
<1>2. ASSUME NEW len, NEW d, BeginFrame(len, d)
      PROVE  UNCHANGED timeVars
  BY <1>2 DEF BeginFrame
<1>3. Redial => TimeNext
  BY DEF Redial, TimeNext
<1>4. UNCHANGED recvVars => UNCHANGED timeVars
  BY DEF recvVars
<1> QED
  BY <1>1, <1>2, <1>3, <1>4 DEF RecvNext

\* ... and of its buffer.
LEMMA StepOfBuffer == [RecvNext]_recvVars => [AsmNext]_asmVars
<1> SUFFICES ASSUME [RecvNext]_recvVars PROVE [AsmNext]_asmVars
  OBVIOUS
<1>1. ASSUME NEW p \in 1 .. MaxPart, NEW t \in Word, NEW now \in Word, Receive(p, t, now)
      PROVE  AsmNext
  BY <1>1 DEF Receive, AsmNext
<1>2. ASSUME NEW len \in 1 .. MaxLen, NEW d, BeginFrame(len, d)
      PROVE  AsmNext
  BY <1>2 DEF BeginFrame, AsmNext
<1>3. Redial => AsmNext
  BY DEF Redial, AsmNext
<1>4. UNCHANGED recvVars => UNCHANGED asmVars
  BY DEF recvVars
<1> QED
  BY <1>1, <1>2, <1>3, <1>4 DEF RecvNext

\* pkg_placed_in_frame is both: the stream's behaviours are behaviours of its
\* clock and of its buffer.
THEOREM StreamIsBoth == RecvSpec => TimeSpec /\ AsmSpec
<1>1. RecvInit => TimeInit /\ AsmInit
  BY DEF RecvInit
<1> QED
  BY <1>1, StepOfClock, StepOfBuffer, PTL DEF RecvSpec, TimeSpec, AsmSpec

\* The stream's own state.  The key flag is what makes frames decodable: while
\* it is set nothing has been left out since the key frame.
OwnInv ==
    /\ kind \in Kinds /\ key \in BOOLEAN /\ passed \in Kinds \cup {"none"} /\ chain \in BOOLEAN
    /\ key => chain
    /\ passed = "P" => key

LEMMA OwnInitInv == RecvInit => OwnInv
BY DEF RecvInit, OwnInv, Kinds

LEMMA OwnStepInv == OwnInv /\ [RecvNext]_recvVars => OwnInv'
<1> SUFFICES ASSUME OwnInv, [RecvNext]_recvVars PROVE OwnInv'
  OBVIOUS
<1>1. ASSUME NEW p \in 1 .. MaxPart, NEW t \in Word, NEW now \in Word, Receive(p, t, now)
      PROVE  OwnInv'
  <2> DEFINE whole == out' # 0
  <2>1. /\ key' = (key \/ (whole /\ kind = "I"))
        /\ passed' = IF whole /\ (key' \/ kind = "JPEG") THEN kind ELSE "none"
        /\ chain' = CASE passed' = "I"                         -> TRUE
                      [] whole /\ kind = "P" /\ passed' # "P"   -> FALSE
                      [] OTHER                                  -> chain
        /\ kind' = kind
    BY <1>1 DEF Receive
  <2> HIDE DEF whole
  <2>2. key' \in BOOLEAN /\ passed' \in Kinds \cup {"none"} /\ kind' \in Kinds
    BY <2>1 DEF OwnInv
  <2>3. passed' = "P" => key'
    BY <2>1 DEF OwnInv, Kinds
  <2>4. CASE passed' = "I"
    BY <2>1, <2>2, <2>3, <2>4 DEF OwnInv
  <2>5. CASE passed' # "I" /\ whole /\ kind = "P" /\ passed' # "P"
    <3>1. chain' = FALSE
      BY <2>1, <2>5
    <3>2. ~key'
      BY <2>1, <2>5
    <3> QED
      BY <2>2, <2>3, <3>1, <3>2 DEF OwnInv
  <2>6. CASE passed' # "I" /\ ~(whole /\ kind = "P" /\ passed' # "P")
    <3>1. chain' = chain
      BY <2>1, <2>6
    <3>2. key' => key
      BY <2>1, <2>6
    <3> QED
      BY <2>2, <2>3, <3>1, <3>2 DEF OwnInv
  <2> QED
    BY <2>4, <2>5, <2>6
<1>2. ASSUME NEW len \in 1 .. MaxLen, NEW d \in Kinds, BeginFrame(len, d)
      PROVE  OwnInv'
  BY <1>2 DEF BeginFrame, OwnInv
<1>3. Redial => OwnInv'
  BY DEF Redial, OwnInv
<1>4. UNCHANGED recvVars => OwnInv'
  BY DEF recvVars, OwnInv
<1> QED
  BY <1>1, <1>2, <1>3, <1>4 DEF RecvNext

\* Types of the stream, its clock and its buffer.
THEOREM StreamTypeCorrect == RecvSpec => []RecvTypeOK
<1>1. TimeTypeOK /\ AsmTypeOK /\ OwnInv => RecvTypeOK
  BY DEF RecvTypeOK, OwnInv
<1>2. RecvSpec => []OwnInv
  BY OwnInitInv, OwnStepInv, PTL DEF RecvSpec
<1> QED
  BY <1>1, <1>2, StreamIsBoth, TimeTypeCorrect, AsmTypeCorrect, PTL

\* The clock of the stream is carried over and never goes back but for a leap
\* (pkg_placed_in_frame).
THEOREM StreamClock == RecvSpec => []Carried /\ NeverBack
BY StreamIsBoth, TickCarried, TickForward, PTL

\* frame_data is in step with the encoder while the clock runs.
THEOREM StreamInStep == RecvSpec => []InStep
BY StreamIsBoth, AlwaysInStep, PTL

\* Every frame the stream hands on is whole.
THEOREM StreamWhole == RecvSpec => []WholeFrames
BY StreamIsBoth, AlwaysWhole, PTL

\* Frames that need a key frame are passed on only after one of the same
\* connection (send_media_frame_data, room_receive_deal).
THEOREM AlwaysDecodable == RecvSpec => []Decodable
<1>1. OwnInv => Decodable
  BY DEF OwnInv, Decodable
<1> QED
  BY <1>1, OwnInitInv, OwnStepInv, PTL DEF RecvSpec

-----------------------------------------------------------------------------
(* The connection the stream comes on.  The invariant says where the       *)
(* descriptor of a stream that is logged in is known: by the control       *)
(* threads, or by a report that nothing later takes back.                  *)

Msg == [s : Streams, kind : ReportKinds]

\* A message that tells of a login of stream s, and one that tells of its loss.
Opens(m, s) == m.s = s /\ m.kind \in {"connect", "login"}
Shuts(m, s) == m.s = s /\ m.kind = "disconnect"

\* The receive thread reads from a connection whose login was reported.
LoggedIn(s) ==
    /\ rt[s].pc \in {"loop", "forward"} /\ rt[s].login
    /\ sockfd[s] # NoFd /\ s \notin missed

\* The lower thread knows of the connection, or was made to forget it.
Knows(s) == s \in remade \/ (s \in status /\ (low.s = s \/ socket[s] = sockfd[s]))

\* The lower thread knows of the connection or is yet to handle the report,
\* and no report of a loss comes after it.
Told(s) ==
    \/ \E k \in 1 .. Len(que) :
        Opens(que[k], s) /\ \A i \in k + 1 .. Len(que) : ~Shuts(que[i], s)
    \/ (\A i \in 1 .. Len(que) : ~Shuts(que[i], s)) /\ Knows(s)

LoginTold == \A s \in Streams : LoggedIn(s) => Told(s)

\* Where the lower thread and the monitor stand.
Standing ==
    /\ low.pc = "copy" <=> low.s # None
    /\ mon.pc # "idle" <=> mon.s # None
    /\ mon.pc = "forget" => sockfd[mon.s] = NoFd \/ mon.s \in remade

IInv == TypeOK /\ Standing /\ LoginTold

-----------------------------------------------------------------------------
(* The queue.                                                              *)

\* Queue p has grown from queue q without a report that s was lost.
Extended(p, q, s) ==
    /\ Len(p) >= Len(q)
    /\ \A i \in 1 .. Len(q) : p[i] = q[i]
    /\ \A i \in Len(q) + 1 .. Len(p) : ~Shuts(p[i], s)

\* What r_msg_send does to the queue.
LEMMA PutQue ==
    ASSUME NEW q \in Seq(Msg), Len(q) <= QueCap, NEW s \in Streams, NEW k \in ReportKinds
    PROVE  /\ Put(q, s, k) \in Seq(Msg) /\ Len(Put(q, s, k)) <= QueCap
           /\ \/ Put(q, s, k) = q
              \/ /\ Len(Put(q, s, k)) = Len(q) + 1
                 /\ Put(q, s, k)[Len(q) + 1] = [s |-> s, kind |-> k]
           /\ \A t \in Streams : t # s \/ k # "disconnect" => Extended(Put(q, s, k), q, t)
<1> DEFINE m == [s |-> s, kind |-> k]
<1>1. m \in Msg /\ QueCap \in Nat /\ Len(q) \in Nat
  BY LinkAssumption DEF Msg
<1>2. CASE Len(q) < QueCap
  <2>1. Put(q, s, k) = Append(q, m)
    BY <1>2 DEF Put
  <2>2. /\ Append(q, m) \in Seq(Msg) /\ Len(Append(q, m)) = Len(q) + 1
        /\ Append(q, m)[Len(q) + 1] = m
        /\ \A i \in 1 .. Len(q) : Append(q, m)[i] = q[i]
    BY <1>1
  <2>3. ASSUME NEW t \in Streams, t # s \/ k # "disconnect"
        PROVE  Extended(Append(q, m), q, t)
    <3>1. ~Shuts(m, t)
      BY <2>3 DEF Shuts
    <3>2. \A i \in Len(q) + 1 .. Len(q) + 1 : i = Len(q) + 1
      OBVIOUS
    <3> HIDE DEF m
    <3> QED
      BY <3>1 DEF Extended
  <2> QED
    BY <1>1, <1>2, <2>1, <2>3
<1>3. CASE ~(Len(q) < QueCap)
  BY <1>3 DEF Put, Extended
<1> QED
  BY <1>2, <1>3

\* A queue that has grown twice.
LEMMA ExtendedTwice ==
    ASSUME NEW p \in Seq(Msg), NEW q \in Seq(Msg), NEW r \in Seq(Msg), NEW s,
           Extended(r, q, s), Extended(q, p, s)
    PROVE  Extended(r, p, s)
<1>1. Len(p) \in Nat /\ Len(q) \in Nat /\ Len(r) \in Nat
  OBVIOUS
<1> QED
  BY <1>1 DEF Extended

\* A queue that has not changed, as far as s is concerned.
LEMMA ExtendedSame ==
    ASSUME NEW q \in Seq(Msg), NEW s
    PROVE  Extended(q, q, s)
<1>1. Len(q) \in Nat
  OBVIOUS
<1> QED
  BY DEF Extended

-----------------------------------------------------------------------------
(* What leaves the knowledge of a connection alone.                        *)

\* What the lower thread knows of s is not changed.
Kept(s) ==
    /\ Extended(que', que, s)
    /\ Knows(s) => Knows(s)'

LEMMA StillTold ==
    ASSUME TypeOK, NEW s \in Streams, Told(s), que' \in Seq(Msg), Kept(s)
    PROVE  Told(s)'
<1>1. /\ Len(que) \in Nat /\ Len(que') \in Nat /\ Len(que') >= Len(que)
      /\ \A i \in 1 .. Len(que') : i <= Len(que) => que'[i] = que[i]
      /\ \A i \in 1 .. Len(que') : i > Len(que) => ~Shuts(que'[i], s)
  <2>1. Len(que) \in Nat /\ Len(que') \in Nat
    OBVIOUS
  <2> QED
    BY DEF Kept, Extended
<1>2. ASSUME NEW k \in 1 .. Len(que), Opens(que[k], s),
             \A i \in k + 1 .. Len(que) : ~Shuts(que[i], s)
      PROVE  Told(s)'
  <2>1. k \in 1 .. Len(que') /\ Opens(que'[k], s)
    BY <1>1, <1>2
  <2>2. \A i \in k + 1 .. Len(que') : ~Shuts(que'[i], s)
    BY <1>1, <1>2
  <2> QED
    BY <2>1, <2>2 DEF Told
<1>3. ASSUME \A i \in 1 .. Len(que) : ~Shuts(que[i], s), Knows(s)
      PROVE  Told(s)'
  <2>1. \A i \in 1 .. Len(que') : ~Shuts(que'[i], s)
    BY <1>1, <1>3
  <2> QED
    BY <1>3, <2>1 DEF Told, Kept
<1> QED
  BY <1>2, <1>3 DEF Told

\* A step that logs nobody in and that no logged in stream notices.
LEMMA NothingNew ==
    ASSUME IInv, que' \in Seq(Msg),
           \A t \in Streams : LoggedIn(t)' => LoggedIn(t) /\ Kept(t)
    PROVE  LoginTold'
<1> SUFFICES ASSUME NEW t \in Streams, LoggedIn(t)' PROVE Told(t)'
  BY DEF LoginTold
<1> QED
  BY StillTold DEF IInv, LoginTold

-----------------------------------------------------------------------------
(* The receive threads.                                                    *)

LEMMA ConnectInv ==
    ASSUME IInv, NEW s \in Streams, Connect(s)
    PROVE  IInv'
<1>1. /\ rt' \in [Streams -> Threads]
      /\ \A t \in Streams : t # s => rt'[t] = rt[t]
      /\ rt'[s].login = FALSE
  <2>1. rt \in [Streams -> Threads] /\ rt[s] \in Threads
    BY DEF IInv, TypeOK
  <2> QED
    BY <2>1 DEF Connect, Threads
<1>2. TypeOK'
  BY <1>1 DEF IInv, TypeOK, Handles, Connect, control
<1>3. Standing'
  <2>1. mon.pc = "forget" /\ mon.s = s => mon = [pc |-> "forget", s |-> s]
    BY DEF IInv, TypeOK
  <2>2. /\ remade \subseteq remade'
        /\ mon = [pc |-> "forget", s |-> s] => s \in remade'
        /\ \A t \in Streams : t # s => sockfd'[t] = sockfd[t]
    BY DEF IInv, TypeOK, Connect
  <2>3. UNCHANGED <<mon, low>> /\ (mon.s = None \/ mon.s \in Streams)
    BY DEF IInv, TypeOK, Connect
  <2>4. mon.pc = "forget" => sockfd'[mon.s] = NoFd \/ mon.s \in remade'
    BY <2>1, <2>2, <2>3 DEF IInv, Standing
  <2> QED
    BY <2>3, <2>4 DEF IInv, Standing
<1>4. LoginTold'
  <2>1. ASSUME NEW t \in Streams, LoggedIn(t)'
        PROVE  LoggedIn(t) /\ Kept(t)
    <3>1. t # s
      BY <1>1, <2>1 DEF LoggedIn
    <3>2. sockfd'[t] = sockfd[t] /\ remade \subseteq remade'
      BY <3>1 DEF IInv, TypeOK, Connect
    <3>3. Knows(t) => Knows(t)'
      BY <3>2 DEF Knows, Connect, control
    <3>4. Extended(que', que, t)
      BY ExtendedSame DEF IInv, TypeOK, Msg, Connect
    <3> QED
      BY <1>1, <2>1, <3>1, <3>2, <3>3, <3>4 DEF LoggedIn, Kept, Connect
  <2> QED
    BY <1>2, <2>1, NothingNew DEF TypeOK, Msg
<1> QED
  BY <1>2, <1>3, <1>4 DEF IInv

LEMMA ConnectFailsInv ==
    ASSUME IInv, NEW s \in Streams, ConnectFails(s)
    PROVE  IInv'
<1>1. /\ rt' \in [Streams -> Threads]
      /\ \A t \in Streams : t # s => rt'[t] = rt[t]
      /\ rt'[s].pc = "exit"
  <2>1. rt \in [Streams -> Threads] /\ rt[s] \in Threads
    BY DEF IInv, TypeOK
  <2> QED
    BY <2>1 DEF ConnectFails, Exit, Threads
<1>2. TypeOK'
  BY <1>1 DEF IInv, TypeOK, Handles, ConnectFails, kernel, control
<1>3. Standing'
  BY DEF IInv, Standing, ConnectFails
<1>4. LoginTold'
  <2>1. \A t \in Streams : LoggedIn(t)' => LoggedIn(t) /\ Kept(t)
    BY <1>1, ExtendedSame DEF IInv, TypeOK, LoggedIn, Kept, Knows, Msg, ConnectFails, control
  <2> QED
    BY <1>2, <2>1, NothingNew DEF TypeOK, Msg
<1> QED
  BY <1>2, <1>3, <1>4 DEF IInv

LEMMA SendLoginInv ==
    ASSUME IInv, NEW s \in Streams, SendLogin(s)
    PROVE  IInv'
<1>1. /\ rt' \in [Streams -> Threads]
      /\ \A t \in Streams : t # s => rt'[t] = rt[t]
      /\ rt'[s].pc \in {"loop", "exit"} /\ rt[s].pc = "loop" /\ rt'[s].login = rt[s].login
  <2>1. rt \in [Streams -> Threads] /\ rt[s] \in Threads
    BY DEF IInv, TypeOK
  <2>2. CASE Open(sockfd[s])
    <3>1. rt' = [rt EXCEPT ![s] = [rt[s] EXCEPT !.sent = TRUE]]
      BY <2>2 DEF SendLogin
    <3>2. /\ [rt[s] EXCEPT !.sent = TRUE] \in Threads
          /\ [rt[s] EXCEPT !.sent = TRUE].pc = rt[s].pc
          /\ [rt[s] EXCEPT !.sent = TRUE].login = rt[s].login
      BY <2>1 DEF Threads
    <3>3. rt[s].pc = "loop"
      BY DEF SendLogin
    <3> QED
      BY <2>1, <3>1, <3>2, <3>3
  <2>3. CASE ~Open(sockfd[s])
    BY <2>1, <2>3 DEF SendLogin, Exit, Threads
  <2> QED
    BY <2>2, <2>3
<1>2. TypeOK'
  BY <1>1 DEF IInv, TypeOK, SendLogin, kernel, control
<1>3. Standing'
  BY DEF IInv, Standing, SendLogin
<1>4. LoginTold'
  <2>1. \A t \in Streams : LoggedIn(t)' => LoggedIn(t) /\ Kept(t)
    BY <1>1, ExtendedSame DEF IInv, TypeOK, LoggedIn, Kept, Knows, Msg, SendLogin, control
  <2> QED
    BY <1>2, <2>1, NothingNew DEF TypeOK, Msg
<1> QED
  BY <1>2, <1>3, <1>4 DEF IInv

LEMMA LoseInv ==
    ASSUME IInv, NEW s \in Streams, LoseConnect(s)
    PROVE  IInv'
<1>1. /\ rt' \in [Streams -> Threads]
      /\ \A t \in Streams : t # s => rt'[t] = rt[t]
      /\ rt'[s].pc = "exit"
  <2>1. rt \in [Streams -> Threads] /\ rt[s] \in Threads
    BY DEF IInv, TypeOK
  <2> QED
    BY <2>1 DEF LoseConnect, Exit, Threads
<1>2. TypeOK'
  BY <1>1 DEF IInv, TypeOK, LoseConnect, kernel, control
<1>3. Standing'
  BY DEF IInv, Standing, LoseConnect
<1>4. LoginTold'
  <2>1. \A t \in Streams : LoggedIn(t)' => LoggedIn(t) /\ Kept(t)
    BY <1>1, ExtendedSame DEF IInv, TypeOK, LoggedIn, Kept, Knows, Msg, LoseConnect, control
  <2> QED
    BY <1>2, <2>1, NothingNew DEF TypeOK, Msg
<1> QED
  BY <1>2, <1>3, <1>4 DEF IInv

LEMMA RefusedInv ==
    ASSUME IInv, NEW s \in Streams, Refused(s)
    PROVE  IInv'
<1>1. /\ rt' \in [Streams -> Threads]
      /\ \A t \in Streams : t # s => rt'[t] = rt[t]
      /\ rt'[s].pc = "exit"
  <2>1. rt \in [Streams -> Threads] /\ rt[s] \in Threads
    BY DEF IInv, TypeOK
  <2> QED
    BY <2>1 DEF Refused, Exit, Threads
<1>2. TypeOK'
  BY <1>1, LinkAssumption DEF IInv, TypeOK, Refused, Fault, kernel, control
<1>3. Standing'
  BY DEF IInv, Standing, Refused
<1>4. LoginTold'
  <2>1. \A t \in Streams : LoggedIn(t)' => LoggedIn(t) /\ Kept(t)
    BY <1>1, ExtendedSame DEF IInv, TypeOK, LoggedIn, Kept, Knows, Msg, Refused, control
  <2> QED
    BY <1>2, <2>1, NothingNew DEF TypeOK, Msg
<1> QED
  BY <1>2, <1>3, <1>4 DEF IInv

LEMMA ExitCloseInv ==
    ASSUME IInv, NEW s \in Streams, ExitClose(s)
    PROVE  IInv'
<1>1. /\ rt' \in [Streams -> Threads]
      /\ \A t \in Streams : t # s => rt'[t] = rt[t]
      /\ rt'[s].pc = "clear"
  <2>1. rt \in [Streams -> Threads] /\ rt[s] \in Threads
    BY DEF IInv, TypeOK
  <2> QED
    BY <2>1 DEF ExitClose, Goto, Threads
<1>2. TypeOK'
  BY <1>1 DEF IInv, TypeOK, ExitClose, Close, control
<1>3. Standing'
  BY DEF IInv, Standing, ExitClose
<1>4. LoginTold'
  <2>1. \A t \in Streams : LoggedIn(t)' => LoggedIn(t) /\ Kept(t)
    BY <1>1, ExtendedSame DEF IInv, TypeOK, LoggedIn, Kept, Knows, Msg, ExitClose, control
  <2> QED
    BY <1>2, <2>1, NothingNew DEF TypeOK, Msg
<1> QED
  BY <1>2, <1>3, <1>4 DEF IInv

LEMMA ExitClearInv ==
    ASSUME IInv, NEW s \in Streams, ExitClear(s)
    PROVE  IInv'
<1>1. /\ rt' \in [Streams -> Threads]
      /\ \A t \in Streams : t # s => rt'[t] = rt[t]
      /\ rt'[s].pc = "report"
  <2>1. rt \in [Streams -> Threads] /\ rt[s] \in Threads
    BY DEF IInv, TypeOK
  <2> QED
    BY <2>1 DEF ExitClear, Goto, Threads
<1>2. TypeOK'
  BY <1>1 DEF IInv, TypeOK, Handles, ExitClear, kernel, control
<1>3. Standing'
  <2>1. mon.s = s => sockfd'[mon.s] = NoFd
    BY DEF IInv, TypeOK, ExitClear
  <2>2. mon.s # s => sockfd'[mon.s] = sockfd[mon.s] /\ (mon.s \in remade => mon.s \in remade')
    BY DEF IInv, TypeOK, ExitClear
  <2> QED
    BY <2>1, <2>2 DEF IInv, Standing, ExitClear
<1>4. LoginTold'
  <2>1. \A t \in Streams : LoggedIn(t)' => LoggedIn(t) /\ Kept(t)
    BY <1>1, ExtendedSame DEF IInv, TypeOK, LoggedIn, Kept, Knows, Msg, ExitClear, control
  <2> QED
    BY <1>2, <2>1, NothingNew DEF TypeOK, Msg
<1> QED
  BY <1>2, <1>3, <1>4 DEF IInv

\* A report of a login has just been put into the queue.
LEMMA JustTold ==
    ASSUME NEW s \in Streams, Len(que) \in Nat,
           Len(que') = Len(que) + 1, Opens(que'[Len(que) + 1], s)
    PROVE  Told(s)'
BY DEF Told

LEMMA LoginOkInv ==
    ASSUME IInv, NEW s \in Streams, LoginOk(s)
    PROVE  IInv'
<1>1. /\ rt' \in [Streams -> Threads]
      /\ \A t \in Streams : t # s => rt'[t] = rt[t]
      /\ rt'[s].pc = "forward"
  <2>1. rt \in [Streams -> Threads] /\ rt[s] \in Threads
    BY DEF IInv, TypeOK
  <2> QED
    BY <2>1 DEF LoginOk, Threads
<1>2. /\ que' \in Seq(Msg) /\ Len(que') <= QueCap
      /\ \A t \in Streams : Extended(que', que, t)
      /\ \/ que' = que
         \/ Len(que') = Len(que) + 1 /\ que'[Len(que) + 1] = [s |-> s, kind |-> "connect"]
  BY PutQue DEF IInv, TypeOK, Msg, ReportKinds, LoginOk, Send
<1>3. TypeOK'
  BY <1>1, <1>2 DEF IInv, TypeOK, Msg, LoginOk, kernel, control
<1>4. Standing'
  BY DEF IInv, Standing, LoginOk
<1>5. LoginTold'
  <2> SUFFICES ASSUME NEW t \in Streams, LoggedIn(t)' PROVE Told(t)'
    BY DEF LoginTold
  <2>1. CASE t # s
    <3>1. LoggedIn(t) /\ Kept(t)
      BY <1>1, <1>2, <2>1 DEF LoggedIn, Kept, Knows, LoginOk, control
    <3> QED
      BY <1>2, <3>1, StillTold DEF IInv, LoginTold
  <2>2. CASE t = s
    <3>1. que' # que
      BY <2>2 DEF LoggedIn, LoginOk
    <3>2. Len(que') = Len(que) + 1 /\ Opens(que'[Len(que) + 1], s)
      BY <1>2, <3>1 DEF Opens
    <3>3. Len(que) \in Nat
      OBVIOUS
    <3> QED
      BY <2>2, <3>2, JustTold
  <2> QED
    BY <2>1, <2>2
<1> QED
  BY <1>3, <1>4, <1>5 DEF IInv

LEMMA ForwardInv ==
    ASSUME IInv, NEW s \in Streams, ForwardMsg(s)
    PROVE  IInv'
<1>1. /\ rt' \in [Streams -> Threads]
      /\ \A t \in Streams : t # s => rt'[t] = rt[t]
      /\ rt[s].pc = "forward" /\ rt'[s].login = rt[s].login
  <2>1. rt \in [Streams -> Threads] /\ rt[s] \in Threads
    BY DEF IInv, TypeOK
  <2> QED
    BY <2>1 DEF ForwardMsg, Threads
<1>2. /\ que' \in Seq(Msg) /\ Len(que') <= QueCap
      /\ \A t \in Streams : Extended(que', que, t)
      /\ \/ que' = que
         \/ Len(que') = Len(que) + 1 /\ que'[Len(que) + 1] = [s |-> s, kind |-> "login"]
  BY PutQue DEF IInv, TypeOK, Msg, ReportKinds, ForwardMsg, Send
<1>3. TypeOK'
  BY <1>1, <1>2 DEF IInv, TypeOK, Msg, ForwardMsg, kernel, control
<1>4. Standing'
  BY DEF IInv, Standing, ForwardMsg
<1>5. LoginTold'
  <2> SUFFICES ASSUME NEW t \in Streams, LoggedIn(t)' PROVE Told(t)'
    BY DEF LoginTold
  <2>1. CASE t # s \/ que' = que
    <3>1. LoggedIn(t) /\ Kept(t)
      BY <1>1, <1>2, <2>1 DEF LoggedIn, Kept, Knows, ForwardMsg, control
    <3> QED
      BY <1>2, <3>1, StillTold DEF IInv, LoginTold
  <2>2. CASE t = s /\ que' # que
    <3>1. Len(que') = Len(que) + 1 /\ Opens(que'[Len(que) + 1], s)
      BY <1>2, <2>2 DEF Opens
    <3>2. Len(que) \in Nat
      OBVIOUS
    <3> QED
      BY <2>2, <3>1, JustTold
  <2> QED
    BY <2>1, <2>2
<1> QED
  BY <1>3, <1>4, <1>5 DEF IInv

LEMMA BeatInv ==
    ASSUME IInv, NEW s \in Streams, Beat(s)
    PROVE  IInv'
<1>1. /\ que' \in Seq(Msg) /\ Len(que') <= QueCap
      /\ \A t \in Streams : Extended(que', que, t)
  BY PutQue DEF IInv, TypeOK, Msg, ReportKinds, Beat, Send
<1>2. TypeOK'
  BY <1>1 DEF IInv, TypeOK, Msg, Beat, kernel, control
<1>3. Standing'
  BY DEF IInv, Standing, Beat
<1>4. LoginTold'
  <2>1. \A t \in Streams : LoggedIn(t)' => LoggedIn(t) /\ Kept(t)
    BY <1>1 DEF LoggedIn, Kept, Knows, Beat, control
  <2> QED
    BY <1>1, <2>1, NothingNew
<1> QED
  BY <1>2, <1>3, <1>4 DEF IInv

LEMMA ReportInv ==
    ASSUME IInv, NEW s \in Streams, Report(s)
    PROVE  IInv'
<1>1. /\ rt' \in [Streams -> Threads]
      /\ \A t \in Streams : t # s => rt'[t] = rt[t]
      /\ rt'[s].pc = "top"
  <2>1. rt \in [Streams -> Threads] /\ rt[s] \in Threads
    BY DEF IInv, TypeOK
  <2> QED
    BY <2>1 DEF Report, Again, Threads
<1>2. /\ que' \in Seq(Msg) /\ Len(que') <= QueCap
      /\ \A t \in Streams : t # s => Extended(que', que, t)
  <2> DEFINE q == IF LossReported(s) THEN Put(que, s, "disconnect") ELSE que
  <2>1. /\ que \in Seq(Msg) /\ Len(que) <= QueCap /\ "disconnect" \in ReportKinds
    BY DEF IInv, TypeOK, Msg, ReportKinds
  <2>2. /\ q \in Seq(Msg) /\ Len(q) <= QueCap
        /\ \A t \in Streams : t # s => Extended(q, que, t)
    BY <2>1, PutQue, ExtendedSame
  <2>3. que' = IF FirstReported(s) THEN Put(q, s, "disconnect") ELSE q
    BY DEF Report
  <2> HIDE DEF q
  <2>4. /\ que' \in Seq(Msg) /\ Len(que') <= QueCap
        /\ \A t \in Streams : t # s => Extended(que', q, t)
    BY <2>1, <2>2, <2>3, PutQue, ExtendedSame
  <2> QED
    BY <2>1, <2>2, <2>4, ExtendedTwice
<1>3. TypeOK'
  BY <1>1, <1>2 DEF IInv, TypeOK, Msg, Report, kernel, control
<1>4. Standing'
  BY DEF IInv, Standing, Report
<1>5. LoginTold'
  <2>1. \A t \in Streams : LoggedIn(t)' => LoggedIn(t) /\ Kept(t)
    BY <1>1, <1>2 DEF LoggedIn, Kept, Knows, Report, control
  <2> QED
    BY <1>2, <2>1, NothingNew
<1> QED
  BY <1>3, <1>4, <1>5 DEF IInv

-----------------------------------------------------------------------------
(* The lower thread.                                                       *)

LEMMA MarkInv ==
    ASSUME IInv, Mark
    PROVE  IInv'
<1> DEFINE h == Head(que)
<1>1. /\ que \in Seq(Msg) /\ que # <<>> /\ h \in Msg /\ que' = Tail(que)
      /\ que' \in Seq(Msg) /\ Len(que) \in Nat /\ Len(que') = Len(que) - 1 /\ Len(que) > 0
      /\ h = que[1] /\ \A i \in 1 .. Len(que') : que'[i] = que[i + 1]
  <2>1. que \in Seq(Msg) /\ que # <<>> /\ que' = Tail(que)
    BY DEF IInv, TypeOK, Msg, Mark
  <2>2. Len(que) \in Nat /\ Len(que) > 0
    BY <2>1
  <2>3. /\ Tail(que) \in Seq(Msg) /\ Len(Tail(que)) = Len(que) - 1
        /\ \A i \in 1 .. Len(Tail(que)) : Tail(que)[i] = que[i + 1]
    BY <2>1
  <2>4. h = que[1] /\ que[1] \in Msg
    BY <2>1
  <2> QED
    BY <2>1
<1>2. /\ low.pc = "idle" /\ low.s = None
      /\ status' = CASE h.kind \in {"connect", "login"} -> status \cup {h.s}
                     [] h.kind = "disconnect"           -> status \ {h.s}
                     [] OTHER                           -> status
      /\ low' = IF h.kind = "beat" THEN LowIdle ELSE [pc |-> "copy", s |-> h.s]
      /\ UNCHANGED <<socket, sockfd, rt, missed, mon>>
      /\ remade' = IF h.kind \in {"connect", "login"} /\ mon.s # h.s THEN remade \ {h.s}
                   ELSE remade
  BY DEF IInv, Standing, Mark
<1>3. /\ late' \subseteq late /\ connected' \in BOOLEAN
      /\ encstatus' \subseteq encstatus \cup {EncOf[h.s]}
  BY DEF Mark
<1> HIDE DEF h
<1>4. h.s \in Streams /\ h.kind \in ReportKinds /\ EncOf[h.s] \in Encs /\ h.s # None
  BY <1>1, LinkAssumption DEF Msg, Encs
<1>5. TypeOK'
  <2>1. Len(que') <= QueCap
    BY <1>1, LinkAssumption DEF IInv, TypeOK
  <2>2. status' \subseteq Streams /\ low' \in [pc : {"idle", "copy"}, s : Streams \cup {None}]
    BY <1>2, <1>4 DEF IInv, TypeOK, LowIdle
  <2> QED
    BY <1>1, <1>4, <2>1, <2>2 DEF IInv, TypeOK, Mark, kernel
<1>6. Standing'
  BY <1>2, <1>4 DEF IInv, Standing, LowIdle
<1>7. LoginTold'
  <2> SUFFICES ASSUME NEW t \in Streams, LoggedIn(t)' PROVE Told(t)'
    BY DEF LoginTold
  <2>1. Told(t) /\ low.s # t
    BY <1>2, LinkAssumption DEF IInv, LoginTold, LoggedIn
  <2>2. ASSUME NEW k \in 1 .. Len(que), Opens(que[k], t),
               \A i \in k + 1 .. Len(que) : ~Shuts(que[i], t)
        PROVE  Told(t)'
    <3>1. CASE k = 1
      <4>1. \A i \in 1 .. Len(que') : ~Shuts(que'[i], t)
        BY <1>1, <2>2, <3>1
      <4>2. t \in status' /\ low'.s = t
        BY <1>1, <1>2, <2>2, <3>1 DEF Opens
      <4> QED
        BY <4>1, <4>2 DEF Told, Knows
    <3>2. CASE k # 1
      <4>1. k - 1 \in 1 .. Len(que') /\ que'[k - 1] = que[k]
        BY <1>1, <3>2
      <4>2. \A i \in (k - 1) + 1 .. Len(que') : ~Shuts(que'[i], t)
        BY <1>1, <2>2
      <4>3. Opens(que'[k - 1], t)
        BY <2>2, <4>1
      <4> QED
        BY <4>1, <4>2, <4>3 DEF Told
    <3> QED
      BY <3>1, <3>2
  <2>3. ASSUME \A i \in 1 .. Len(que) : ~Shuts(que[i], t), Knows(t)
        PROVE  Told(t)'
    <3>1. \A i \in 1 .. Len(que') : ~Shuts(que'[i], t)
      BY <1>1, <2>3
    <3>2. ~Shuts(h, t)
      BY <1>1, <2>3
    <3>3. t \in status => t \in status'
      BY <1>2, <3>2 DEF Shuts
    <3>4. CASE t \in remade'
      BY <3>1, <3>4 DEF Told, Knows
    <3>5. CASE t \notin remade' /\ t \in remade
      <4>1. t = h.s /\ h.kind \in {"connect", "login"}
        BY <1>2, <3>5
      <4>2. t \in status' /\ low'.s = t
        BY <1>2, <4>1
      <4> QED
        BY <3>1, <4>2 DEF Told, Knows
    <3>6. CASE t \notin remade' /\ t \notin remade
      BY <1>2, <2>1, <2>3, <3>1, <3>3, <3>6 DEF Told, Knows
    <3> QED
      BY <3>4, <3>5, <3>6
  <2> QED
    BY <2>1, <2>2, <2>3 DEF Told
<1> QED
  BY <1>5, <1>6, <1>7 DEF IInv

LEMMA CopyFdInv ==
    ASSUME IInv, CopyFd
    PROVE  IInv'
<1>1. /\ low.s \in Streams /\ sockfd[low.s] \in Handles
      /\ low' = LowIdle /\ LowIdle.s = None /\ LowIdle.pc = "idle"
  BY DEF IInv, TypeOK, Standing, CopyFd, LowIdle
<1>2. /\ socket' \in [Streams -> Handles] /\ socket'[low.s] = sockfd[low.s]
      /\ \A t \in Streams : t # low.s => socket'[t] = socket[t]
  BY <1>1 DEF IInv, TypeOK, CopyFd
<1>3. TypeOK'
  BY DEF IInv, TypeOK, CopyFd, kernel, LowIdle
<1>4. Standing'
  BY <1>1 DEF IInv, Standing, CopyFd
<1>5. LoginTold'
  <2> SUFFICES ASSUME NEW t \in Streams, LoggedIn(t)' PROVE Told(t)'
    BY DEF LoginTold
  <2>1. Told(t) /\ UNCHANGED <<que, status, sockfd, remade>>
    BY DEF IInv, LoginTold, LoggedIn, CopyFd
  <2>2. low.s = t => socket'[t] = sockfd[t]
    BY <1>2
  <2>3. low.s # t => socket'[t] = socket[t]
    BY <1>2
  <2> QED
    BY <2>1, <2>2, <2>3 DEF Told, Knows
<1> QED
  BY <1>3, <1>4, <1>5 DEF IInv

-----------------------------------------------------------------------------
(* The monitor, the room and the encoders.                                 *)

LEMMA MonCheckInv ==
    ASSUME IInv, NEW s \in Streams, MonCheck(s)
    PROVE  IInv'
<1>1. TypeOK'
  BY DEF IInv, TypeOK, MonCheck, kernel, control
<1>2. Standing'
  BY LinkAssumption DEF IInv, Standing, MonCheck
<1>3. LoginTold'
  <2>1. \A t \in Streams : LoggedIn(t)' => LoggedIn(t) /\ Kept(t)
    BY ExtendedSame DEF IInv, TypeOK, LoggedIn, Kept, Knows, Msg, MonCheck, control
  <2> QED
    BY <1>1, <2>1, NothingNew DEF TypeOK, Msg
<1> QED
  BY <1>1, <1>2, <1>3 DEF IInv

LEMMA MonCloseInv ==
    ASSUME IInv, MonClose
    PROVE  IInv'
<1>1. TypeOK'
  BY DEF IInv, TypeOK, MonClose, Close, control
<1>2. Standing'
  BY DEF IInv, Standing, MonClose
<1>3. LoginTold'
  <2>1. \A t \in Streams : LoggedIn(t)' => LoggedIn(t) /\ Kept(t)
    BY ExtendedSame DEF IInv, TypeOK, LoggedIn, Kept, Knows, Msg, MonClose, control
  <2> QED
    BY <1>1, <2>1, NothingNew DEF TypeOK, Msg
<1> QED
  BY <1>1, <1>2, <1>3 DEF IInv

LEMMA MonClearInv ==
    ASSUME IInv, MonClear
    PROVE  IInv'
<1>1. TypeOK'
  BY DEF IInv, TypeOK, Handles, MonClear, kernel, control
<1>2. Standing'
  BY DEF IInv, TypeOK, Standing, MonClear
<1>3. LoginTold'
  <2>1. \A t \in Streams : LoggedIn(t)' => LoggedIn(t) /\ Kept(t)
    BY ExtendedSame DEF IInv, TypeOK, LoggedIn, Kept, Knows, Msg, MonClear, control
  <2> QED
    BY <1>1, <2>1, NothingNew DEF TypeOK, Msg
<1> QED
  BY <1>1, <1>2, <1>3 DEF IInv

LEMMA MonForgetInv ==
    ASSUME IInv, MonForget
    PROVE  IInv'
<1>1. TypeOK'
  BY DEF IInv, TypeOK, Handles, MonForget, MonIdle, kernel
<1>2. Standing'
  BY DEF IInv, Standing, MonForget, MonIdle
<1>3. LoginTold'
  <2>1. \A t \in Streams : LoggedIn(t)' => LoggedIn(t) /\ Kept(t)
    BY ExtendedSame DEF IInv, TypeOK, Standing, LoggedIn, Kept, Knows, Msg, MonForget
  <2> QED
    BY <1>1, <2>1, NothingNew DEF TypeOK, Msg
<1> QED
  BY <1>1, <1>2, <1>3 DEF IInv

LEMMA ConnectRoomInv ==
    ASSUME IInv, NEW opt \in BOOLEAN, ConnectRoom(opt)
    PROVE  IInv'
<1>1. TypeOK'
  BY LinkAssumption DEF IInv, TypeOK, ConnectRoom, Fault, kernel
<1>2. Standing'
  BY DEF IInv, Standing, ConnectRoom
<1>3. LoginTold'
  <2>1. \A t \in Streams : LoggedIn(t)' => LoggedIn(t) /\ Kept(t)
    BY ExtendedSame DEF IInv, TypeOK, LoggedIn, Kept, Knows, Msg, ConnectRoom
  <2> QED
    BY <1>1, <2>1, NothingNew DEF TypeOK, Msg
<1> QED
  BY <1>1, <1>2, <1>3 DEF IInv

LEMMA SilenceInv ==
    ASSUME IInv, NEW s \in Streams, Silence(s)
    PROVE  IInv'
<1>1. TypeOK'
  BY DEF IInv, TypeOK, Silence, kernel
<1>2. Standing'
  BY DEF IInv, Standing, Silence
<1>3. LoginTold'
  <2>1. \A t \in Streams : LoggedIn(t)' => LoggedIn(t) /\ Kept(t)
    BY ExtendedSame DEF IInv, TypeOK, LoggedIn, Kept, Knows, Msg, Silence
  <2> QED
    BY <1>1, <2>1, NothingNew DEF TypeOK, Msg
<1> QED
  BY <1>1, <1>2, <1>3 DEF IInv

LEMMA BeatLateInv ==
    ASSUME IInv, NEW s \in Streams, BeatLate(s)
    PROVE  IInv'
<1>1. TypeOK'
  BY LinkAssumption DEF IInv, TypeOK, BeatLate, Fault, kernel
<1>2. Standing'
  BY DEF IInv, Standing, BeatLate
<1>3. LoginTold'
  <2>1. \A t \in Streams : LoggedIn(t)' => LoggedIn(t) /\ Kept(t)
    BY ExtendedSame DEF IInv, TypeOK, LoggedIn, Kept, Knows, Msg, BeatLate
  <2> QED
    BY <1>1, <2>1, NothingNew DEF TypeOK, Msg
<1> QED
  BY <1>1, <1>2, <1>3 DEF IInv

LEMMA EncDownInv ==
    ASSUME IInv, NEW s \in Streams, EncDown(s)
    PROVE  IInv'
<1>1. TypeOK'
  BY LinkAssumption DEF IInv, TypeOK, EncDown, Fault, control
<1>2. Standing'
  BY DEF IInv, Standing, EncDown
<1>3. LoginTold'
  <2>1. \A t \in Streams : LoggedIn(t)' => LoggedIn(t) /\ Kept(t)
    BY ExtendedSame DEF IInv, TypeOK, LoggedIn, Kept, Knows, Msg, EncDown, control
  <2> QED
    BY <1>1, <2>1, NothingNew DEF TypeOK, Msg
<1> QED
  BY <1>1, <1>2, <1>3 DEF IInv

LEMMA EncUpInv ==
    ASSUME IInv, NEW s \in Streams, EncUp(s)
    PROVE  IInv'
<1>1. TypeOK'
  BY DEF IInv, TypeOK, EncUp, kernel, control
<1>2. Standing'
  BY DEF IInv, Standing, EncUp
<1>3. LoginTold'
  <2>1. \A t \in Streams : LoggedIn(t)' => LoggedIn(t) /\ Kept(t)
    BY ExtendedSame DEF IInv, TypeOK, LoggedIn, Kept, Knows, Msg, EncUp, control
  <2> QED
    BY <1>1, <2>1, NothingNew DEF TypeOK, Msg
<1> QED
  BY <1>1, <1>2, <1>3 DEF IInv

-----------------------------------------------------------------------------
(* The theorems about the connection.                                      *)

LEMMA InitInv == Init => IInv
<1> SUFFICES ASSUME Init PROVE IInv
  OBVIOUS
<1>1. TypeOK
  BY LinkAssumption DEF Init, TypeOK, Threads, Handles, LowIdle, MonIdle
<1>2. Standing /\ LoginTold
  BY DEF Init, Standing, LoginTold, LoggedIn, LowIdle, MonIdle
<1> QED
  BY <1>1, <1>2 DEF IInv

LEMMA StepInv ==
    ASSUME IInv, [Next]_vars
    PROVE  IInv'
<1>1. CASE UNCHANGED vars
  BY <1>1 DEF IInv, TypeOK, Standing, LoginTold, LoggedIn, Told, Knows, vars
<1>2. ASSUME NEW s \in Streams, ReceiveDeal(s) \/ Beat(s) \/ Refused(s)
      PROVE  IInv'
  BY <1>2, ConnectInv, ConnectFailsInv, SendLoginInv, LoseInv, LoginOkInv, ForwardInv,
     ExitCloseInv, ExitClearInv, ReportInv, BeatInv, RefusedInv DEF ReceiveDeal
<1>3. CASE Lower
  BY <1>3, MarkInv, CopyFdInv DEF Lower
<1>4. CASE Monitor
  BY <1>4, MonCheckInv, MonCloseInv, MonClearInv, MonForgetInv DEF Monitor
<1> QED
  BY <1>1, <1>2, <1>3, <1>4, ConnectRoomInv, SilenceInv, BeatLateInv, EncDownInv,
     EncUpInv DEF Next

\* The types are kept, the queue to the lower thread never holds more than it can.
THEOREM TypeCorrect == Spec => []TypeOK
<1>1. IInv /\ [Next]_vars => IInv'
  BY StepInv
<1> QED
  BY <1>1, InitInv, PTL DEF Spec, IInv

\* Once the reports about a stream have been handled, the control threads hold
\* the descriptor its receive thread reads from, unless a report was dropped by a
\* full queue or the monitor forgot the connection it was not about.
THEOREM AlwaysSettled == Spec => []Settled
<1>1. IInv => Settled
  <2> SUFFICES ASSUME IInv, NEW s \in Streams, LoggedIn(s), Quiet(s), s \notin remade
               PROVE  socket[s] = sockfd[s] /\ s \in status
    BY DEF Settled, LoggedIn
  <2>1. Told(s)
    BY DEF IInv, LoginTold
  <2>2. \A i \in 1 .. Len(que) : ~Opens(que[i], s)
    BY DEF Quiet, Opens
  <2> QED
    BY <2>1, <2>2 DEF Told, Knows, Quiet
<1>2. IInv /\ [Next]_vars => IInv'
  BY StepInv
<1> QED
  BY <1>1, <1>2, InitInv, PTL DEF Spec

=============================================================================
