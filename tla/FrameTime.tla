------------------------------ MODULE FrameTime ------------------------------
(***************************************************************************)
(* The time stamps the room gives to the frames of a stream                *)
(* (room/receive/media_frame.c).  An encoder's clock starts anew when the  *)
(* encoder does, and jumps; recorder and live viewers need a clock that    *)
(* goes on.  The frame's tick is counted from the encoder's clock at       *)
(* init, and where that clock goes back or jumps by more than EXAMIN_TIME  *)
(* from the room's own clock.  All clocks are uint32_t milliseconds.       *)
(*                                                                         *)
(* Streams that arrive over UDP bring their ticks along and do not come    *)
(* this way.                                                               *)
(***************************************************************************)
EXTENDS Naturals

CONSTANTS
    Tracks,     \* "video", "audio"
    M,          \* 2^32
    Gap         \* EXAMIN_TIME

ASSUME TimeAssumption == M \in Nat \ {0} /\ M > 1 /\ Gap \in Nat

Word == 0 .. M - 1

VARIABLES
    clk,    \* recv_time_t, one record for each track
    flag    \* av_connect_flag

timeVars == <<clk, flag>>

\* uint32_t addition of two words.
Add(a, b) == IF a + b < M THEN a + b ELSE a + b - M

Distance(a, b) == IF a > b THEN a - b ELSE b - a

getIntervalTime(a, b) == IF a = b THEN 1 ELSE Distance(a, b)

\* r_memset of the stream handle
TimeInit ==
    /\ clk = [k \in Tracks |-> [on |-> FALSE, init |-> 0, cal |-> 0, tick |-> 0,
                                prev |-> 0, at |-> 0]]
    /\ flag = FALSE

-----------------------------------------------------------------------------
\* Fault: after a lost connection the clock starts anew.
StartedAnew(c, t) ==
    IF c.on /\ ~flag THEN c ELSE [c EXCEPT !.on = TRUE, !.init = t, !.cal = 0, !.prev = t]

\* The first packet of a track sets its clock to zero.
Started(c, t) == IF c.on THEN c ELSE [c EXCEPT !.on = TRUE, !.init = t, !.cal = 0, !.prev = t]

\* The encoder's clock went back, or forward by too much.  Of pictures only the
\* former is looked at.
Broken(c, jpeg, t) ==
    \/ t < c.prev
    \/ ~jpeg /\ t > c.prev /\ t - c.prev > Gap /\ ~flag

\* The room's clock says how far the tick goes; counting begins anew from here.
Rebase(c, t, now) ==
    LET tick == Add(c.tick, getIntervalTime(c.at, now)) IN
    [c EXCEPT !.tick = tick, !.init = t, !.cal = tick]

Count(c, t) == [c EXCEPT !.tick = Add(Distance(t, c.init), c.cal)]

\* pkg_placed_in_frame, pkg_placed_in_frame_audio: a packet with the encoder's
\* time t.  The flag is compared with 0 where it should be cleared, and stays.
Packet(k, jpeg, t, now) ==
    LET c == Started(clk[k], t)
        d == IF Broken(c, jpeg, t) THEN Rebase(c, t, now) ELSE Count(c, t)
    IN  /\ clk' = [clk EXCEPT ![k] = [d EXCEPT !.prev = t, !.at = now]]
        /\ UNCHANGED flag

\* room_receive_deal gives up the connection.
Lose ==
    /\ flag' = TRUE
    /\ UNCHANGED clk

TimeNext ==
    \/ \E k \in Tracks, jpeg \in BOOLEAN, t, now \in Word :
        /\ jpeg => k = "video"
        /\ Packet(k, jpeg, t, now)
    \/ Lose

TimeSpec == TimeInit /\ [][TimeNext]_timeVars

-----------------------------------------------------------------------------
(* Properties.                                                             *)

\* Every clock is a word.
TimeTypeOK ==
    /\ clk \in [Tracks -> [on : BOOLEAN, init : Word, cal : Word, tick : Word,
                           prev : Word, at : Word]]
    /\ flag \in BOOLEAN

\* The tick is what was carried over and what the encoder's clock has counted
\* since, and that clock is not behind its beginning: the two branches of
\* pkg_placed_in_frame that compute the tick agree.
Carried ==
    \A k \in Tracks : LET c == clk[k] IN
        c.on => /\ c.init <= c.prev
                /\ c.tick = Add(c.prev - c.init, c.cal)

\* Time stamp b is before a, as a receiver compares them: (int32_t)(b - a) < 0.
Before(b, a) == 2 * (IF b >= a THEN b - a ELSE b + M - a) >= M

\* What moves the tick jumped by half the range of the words (25 days): the
\* room's clock, where counting begins anew, or else the encoder's.  The room's
\* does so whenever it wraps, as the distance of two readings has no sign.
Leap(c, d) ==
    2 * (IF d.init = d.prev THEN getIntervalTime(c.at, d.at) ELSE Distance(c.prev, d.prev)) >= M

\* No packet takes a frame back in time, however the encoder's clock steps back,
\* starts over or wraps, whatever was carried over before, and across lost
\* connections; the exception is a leap (pkg_placed_in_frame).
NoStepBack ==
    \A k \in Tracks :
        clk[k].on /\ Before(clk'[k].tick, clk[k].tick) => Leap(clk[k], clk'[k])

NeverBack == [][NoStepBack]_timeVars
==============================================================================
