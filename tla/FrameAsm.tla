------------------------------ MODULE FrameAsm ------------------------------
(***************************************************************************)
(* Frames from packets (pkg_placed_in_frame and pkg_placed_in_frame_audio, *)
(* room/receive/media_frame.c).  An encoder sends a frame in packets       *)
(* marked START, MIDDLE, LAST or INDEPENDENT; the receive thread copies    *)
(* them to frame_data behind each other and hands the frame on with its    *)
(* last packet.  A connection may be lost at any packet, and begins again  *)
(* with another frame.                                                     *)
(*                                                                         *)
(* Of frame_data it is remembered which frame's byte lies at each place.   *)
(* The encoder is external; its frames fit MAX_FRAME_LEN.                  *)
(***************************************************************************)
EXTENDS Naturals

CONSTANTS
    MaxLen,     \* MAX_FRAME_LEN
    MaxPart,    \* bytes of a packet
    MaxFrame    \* bound: frames

ASSUME AsmAssumption == MaxLen \in Nat \ {0} /\ MaxPart \in Nat \ {0} /\ MaxFrame \in Nat

Places == 0 .. MaxLen - 1
Frames == 1 .. MaxFrame

VARIABLES
    enc,        \* encoder: its frame, the frame's length and the bytes sent
    off,        \* offset
    buf,        \* frame_data: the frame whose byte lies at its place, 0 if none's does
    out,        \* the frame handed on by the last packet, 0 if none
    spoiled     \* history: a frame was handed on that is not all there

asmVars == <<enc, off, buf, out, spoiled>>

AsmInit ==
    /\ enc = [id |-> 0, len |-> 0, sent |-> 0]
    /\ off = 0
    /\ buf = [i \in Places |-> 0]
    /\ out = 0
    /\ spoiled = FALSE

\* The encoder begins a frame.
Begin(len) ==
    /\ enc.sent = enc.len /\ enc.id < MaxFrame
    /\ enc' = [id |-> enc.id + 1, len |-> len, sent |-> 0]
    /\ out' = 0
    /\ UNCHANGED <<off, buf, spoiled>>

\* memcpy of p bytes to frame_data + at
Copied(at, p) ==
    [i \in Places |-> IF at <= i /\ i < at + p THEN IF at = enc.sent THEN enc.id ELSE 0
                                               ELSE buf[i]]

Whole(b) == \A i \in Places : i < enc.len => b[i] = enc.id

\* The frame is complete, as far as the code can tell.
HandOn(b) ==
    /\ out' = enc.id
    /\ spoiled' = (spoiled \/ ~Whole(b))

Keep == out' = 0 /\ UNCHANGED spoiled

\* A packet of p bytes is sent, and that is what it is a part of.
Sent(p, first, last) ==
    /\ enc.sent + p <= enc.len
    /\ first <=> enc.sent = 0
    /\ last <=> enc.sent + p = enc.len
    /\ enc' = [enc EXCEPT !.sent = @ + p]

\* A packet that does not fit is given up, and what came before it.
Refuse == off' = 0 /\ UNCHANGED buf /\ Keep

StartFrame(p) ==
    /\ Sent(p, TRUE, FALSE)
    /\ IF off + p > enc.len THEN Refuse
       ELSE buf' = Copied(0, p) /\ off' = p /\ Keep

MiddleFrame(p) ==
    /\ Sent(p, FALSE, FALSE)
    /\ IF off + p > enc.len THEN Refuse
       ELSE buf' = Copied(off, p) /\ off' = off + p /\ Keep

\* Fault: the frame is handed on before its last packet is copied.
LastFrameEarly(p) ==
    /\ Sent(p, FALSE, TRUE)
    /\ IF off + p > enc.len THEN Refuse
       ELSE buf' = Copied(off, p) /\ off' = 0 /\ HandOn(buf)

LastFrame(p) ==
    /\ Sent(p, FALSE, TRUE)
    /\ IF off + p > enc.len THEN Refuse
       ELSE buf' = Copied(off, p) /\ off' = 0 /\ HandOn(buf')

IndependentFrame(p) ==
    /\ Sent(p, TRUE, TRUE)
    /\ buf' = Copied(0, enc.len) /\ HandOn(buf')
    /\ UNCHANGED off

\* The connection is lost and made again: the rest of the frame does not come.
Reconnect ==
    /\ enc' = [enc EXCEPT !.sent = enc.len]
    /\ off' = 0
    /\ out' = 0
    /\ UNCHANGED <<buf, spoiled>>

Place(p) == StartFrame(p) \/ MiddleFrame(p) \/ LastFrame(p) \/ IndependentFrame(p)

AsmNext ==
    \/ \E len \in 1 .. MaxLen : Begin(len)
    \/ \E p \in 1 .. MaxPart : Place(p)
    \/ Reconnect

AsmSpec == AsmInit /\ [][AsmNext]_asmVars

-----------------------------------------------------------------------------
(* Properties.                                                             *)

\* Lengths fit their buffers: the offset never passes the end of frame_data.
AsmTypeOK ==
    /\ enc \in [id : 0 .. MaxFrame, len : 0 .. MaxLen, sent : 0 .. MaxLen]
    /\ enc.sent <= enc.len
    /\ off \in 0 .. MaxLen
    /\ buf \in [Places -> 0 .. MaxFrame]
    /\ out \in 0 .. MaxFrame
    /\ spoiled \in BOOLEAN

\* While a frame is under way the offset is where the encoder is, and all of
\* the frame so far lies in frame_data: the refusals of pkg_placed_in_frame,
\* which look at the offset of the frame before, never meet a good packet.
\* Between frames nothing is left of the one before.
InStep ==
    /\ enc.sent = enc.len => off = 0
    /\ enc.sent < enc.len =>
        off = enc.sent /\ \A i \in Places : i < off => buf[i] = enc.id

\* Every frame handed on is all there, wherever connections were lost: a lost
\* connection costs the frame it interrupts and no other.
WholeFrames == ~spoiled
=============================================================================
