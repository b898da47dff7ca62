------------------------------ MODULE Reception ------------------------------
(***************************************************************************)
(* A video stream as its receive thread takes it (room/receive): every     *)
(* packet moves the stream's clock (FrameTime) and is placed in its frame  *)
(* (FrameAsm), both in pkg_placed_in_frame; send_media_frame_data passes   *)
(* whole frames on to the recorders and the live viewers, pictures always  *)
(* and H.264 frames from the first key frame of the connection on.         *)
(***************************************************************************)
EXTENDS FrameTime, FrameAsm

ASSUME VideoAssumption == "video" \in Tracks

\* I_FRAME and other H.264 frames, and JPEG.
Kinds == {"I", "P", "JPEG"}

VARIABLES
    kind,       \* m_data_codec and m_dw_flags of the encoder's frame
    key,        \* RECV_VIDEO_I_FRAME_DATA of log_flag
    passed,     \* the kind of the frame the last packet passed on, or "none"
    chain       \* history: of this connection a key frame was passed on, and
                \* every H.264 frame since

recvVars == <<timeVars, asmVars, kind, key, passed, chain>>

RecvInit ==
    /\ TimeInit
    /\ AsmInit
    /\ kind = "I"
    /\ key = FALSE
    /\ passed = "none"
    /\ chain = FALSE

\* The encoder begins a frame.
BeginFrame(len, d) ==
    /\ Begin(len)
    /\ kind' = d
    /\ passed' = "none"
    /\ UNCHANGED <<timeVars, key, chain>>

\* send_media_frame_data: a packet of p bytes with the encoder's time t.
Receive(p, t, now) ==
    /\ Packet("video", kind = "JPEG", t, now)
    /\ Place(p)
    /\ LET whole == out' # 0 IN
       /\ key' = (key \/ (whole /\ kind = "I"))
       /\ passed' = IF whole /\ (key' \/ kind = "JPEG") THEN kind ELSE "none"
       /\ chain' = CASE passed' = "I"                         -> TRUE
                     [] whole /\ kind = "P" /\ passed' # "P"   -> FALSE
                     [] OTHER                                  -> chain
    /\ UNCHANGED kind

\* Mutant: log_flag is kept over a lost connection.
RedialKeepsKey ==
    /\ Lose
    /\ Reconnect
    /\ passed' = "none"
    /\ chain' = FALSE
    /\ UNCHANGED <<kind, key>>

\* room_receive_deal: the connection is lost and made again.
Redial ==
    /\ Lose
    /\ Reconnect
    /\ key' = FALSE
    /\ passed' = "none"
    /\ chain' = FALSE
    /\ UNCHANGED kind

RecvNext ==
    \/ \E len \in 1 .. MaxLen, d \in Kinds : BeginFrame(len, d)
    \/ \E p \in 1 .. MaxPart, t, now \in Word : Receive(p, t, now)
    \/ Redial

RecvSpec == RecvInit /\ [][RecvNext]_recvVars

-----------------------------------------------------------------------------
\* Types of the stream's own state, and of its clock and buffer.
RecvTypeOK ==
    /\ TimeTypeOK
    /\ AsmTypeOK
    /\ kind \in Kinds
    /\ key \in BOOLEAN
    /\ passed \in Kinds \cup {"none"}
    /\ chain \in BOOLEAN

(* Frames are passed on to the queues of recorder and viewers so that they *)
(* can be decoded: an H.264 frame that is no key frame goes only when a    *)
(* whole key frame of the same connection went before it, and all frames   *)
(* between them, also when connections are lost in the midst of a frame    *)
(* (send_media_frame_data, room_receive_deal).  What a full queue drops    *)
(* afterwards is not looked at.                                            *)
Decodable == passed = "P" => chain
=============================================================================
