----------------------------- MODULE RespGather -----------------------------
(***************************************************************************)
(* The requests a room passes on to its encoders and whose answers it      *)
(* gathers in a mask per platform and message (room/ctrl/upper_msg_ctrl.c  *)
(* and lower_msg_ctrl.c).  The upper thread clears the mask, then sets the *)
(* bit of each stream and sends to it, then enters a node in the message   *)
(* time queue.  The lower thread clears the bit of each answer.  Nothing   *)
(* guards the masks, so every |= and &= is a load and a store.             *)
(*                                                                         *)
(* Message codes fall into five classes by what the lower thread does:     *)
(*   Gather  answers upwards when the last bit is cleared,                 *)
(*   Direct  the same code, but the upper thread has answered already and  *)
(*           sets more bits than there are encoders,                       *)
(*   Relay   forwards every answer, and deletes the node if no room info   *)
(*           is outstanding (it tests roomInfoMask),                       *)
(*   Single  goes to one encoder; its answer is forwarded and deletes the  *)
(*           node,                                                         *)
(*   Info    the answers only refresh the room's own copy.                 *)
(***************************************************************************)
EXTENDS Naturals, FiniteSets

CONSTANTS
    Platforms,  \* platform indices (lower_msg_get_platfrom_key)
    Codes,      \* the message codes in use
    Streams,    \* HD and SD streams of the encoders (MsgQueType)
    Spare,      \* a bit of MSG_QUEUE_REC_ALL that no stream has
    MaxReq      \* bound: requests in total

Gather == {"iframe", "adjust", "remote_ctrl", "audio"}
Direct == {"quality", "code_stream"}
Relay  == {"logo", "title", "get_camctl", "set_camctl", "synthesis", "director"}
Single == {"volume", "mute"}
Info   == {"room_info"}

ASSUME CodeAssumption == Codes \subseteq Gather \cup Direct \cup Relay \cup Single \cup Info
ASSUME GatherAssumption ==
    /\ Spare \notin Streams
    /\ MaxReq \in Nat

\* Requests as the masks and the time queue tell them apart.
Reqs == Platforms \X Codes

Bits  == Streams \cup {Spare}
Masks == [bits : SUBSET Bits, flag : BOOLEAN]

\* MSG_QUEUE_REC_CLR, MSG_QUEUE_REC_FLG and MSG_QUEUE_REC_ALL
Clr == [bits |-> {}, flag |-> FALSE]
Flg == [bits |-> {}, flag |-> TRUE]
All == [bits |-> Bits, flag |-> FALSE]

\* The masks a room has: one per platform and message, used or not.
MaskIds == Platforms \X (Codes \cup {"adjust", "director", "room_info"})

\* The mask in which the upper thread sets the bits of a request: the camera
\* and picture requests all use adjustMask, after clearing one of their own.
BitMask(r) ==
    IF r[2] \in {"get_camctl", "set_camctl", "synthesis", "director"}
    THEN <<r[1], "adjust">> ELSE r

\* These handlers look at the socket before they set the bit; the others set
\* it for every stream named in the request.
Skips == {"remote_ctrl", "audio", "quality", "volume", "mute", "room_info"}

\* These send first and set the bit afterwards.
SendsFirst == {"quality", "room_info"}

VARIABLES
    mask,       \* the masks
    nodes,      \* requests with a node in the message time queue
    conn,       \* streams with a socket
    out,        \* out[s][r]: requests r sent to s and not answered yet
    up,         \* upper thread: pc, request, current stream, streams left, loaded
                \* mask, whether something was sent
    low,        \* lower thread: pc, request and stream answered, result, loaded mask
    reqs,       \* requests so far
    owed,       \* history: requests not answered since they were last made
    overtaken,  \* history: made while the lower thread was about to delete
                \* the node of the request before
    dropped     \* history: found the message time queue full, not answered since

vars == <<mask, nodes, conn, out, up, low, reqs, owed, overtaken, dropped>>
history == <<owed, overtaken, dropped>>

UpIdle  == [pc |-> "idle"]
LowIdle == [pc |-> "idle"]

Init ==
    /\ mask = [m \in MaskIds |-> Clr]
    /\ nodes = {}
    /\ conn \in SUBSET Streams
    /\ out = [s \in Streams |-> [r \in Reqs |-> 0]]
    /\ up = UpIdle
    /\ low = LowIdle
    /\ reqs = 0
    /\ owed = {}
    /\ overtaken = {}
    /\ dropped = {}

\* An answer goes up to control.
Reply(r) ==
    /\ owed' = owed \ {r}
    /\ overtaken' = overtaken \ {r}
    /\ dropped' = dropped \ {r}

-----------------------------------------------------------------------------
(* The upper thread.                                                       *)

\* Fault: the mask of a quality or code stream request starts clear.
ResetCleared(r) == IF r[2] = "room_info" THEN Clr ELSE Flg

\* What a handler does to its own mask before the loop.
Reset(r) ==
    CASE r[2] = "quality"     -> [bits |-> Bits, flag |-> mask[r].flag]
      [] r[2] = "code_stream" -> All
      [] r[2] = "room_info"   -> Clr
      [] OTHER                -> Flg

\* The lower thread has answered r and will yet delete its node.
Deleting(r) ==
    /\ low.pc \in {"all", "del"} \/ (low.pc \in {"load", "store", "test"} /\ r[2] \in Relay)
    /\ low.r = r

\* A request arrives that names the streams in todo.  The audio requests go
\* to one encoder; recording or an unreadable request leaves nothing to do.
Request(r, todo) ==
    /\ up.pc = "idle"
    /\ reqs < MaxReq
    /\ r[2] \in Single \cup {"audio"} => Cardinality(todo) <= 1
    /\ mask' = [mask EXCEPT ![r] = Reset(r)]
    /\ up' = [pc |-> "pick", r |-> r, s |-> Spare, todo |-> todo, load |-> Clr, sent |-> FALSE]
    /\ reqs' = reqs + 1
    /\ owed' = owed \cup {r}
    /\ overtaken' = IF Deleting(r) THEN overtaken \cup {r} ELSE overtaken
    /\ dropped' = dropped \ {r}
    /\ UNCHANGED <<nodes, conn, out, low>>

\* Fault: the request is sent over the HD and over the SD socket.
SendToTwice(s) == out' = IF s \in conn THEN [out EXCEPT ![s][up.r] = @ + 2] ELSE out

\* upper_msg_tcp_send to an encoder.
SendTo(s) == out' = IF s \in conn THEN [out EXCEPT ![s][up.r] = @ + 1] ELSE out

\* The loop passes over a stream without a socket.
Skip(s) ==
    /\ up.pc = "pick" /\ s \in up.todo
    /\ up.r[2] \in Skips /\ s \notin conn
    /\ up' = [up EXCEPT !.todo = @ \ {s}]
    /\ UNCHANGED <<mask, nodes, conn, out, low, reqs, history>>

\* The loop takes the next stream; room_info and quality send at once.
Pick(s) ==
    /\ up.pc = "pick" /\ s \in up.todo
    /\ up.r[2] \in Skips => s \in conn
    /\ IF up.r[2] \in SendsFirst THEN SendTo(s) ELSE UNCHANGED out
    /\ up' = [up EXCEPT !.pc = "load", !.s = s, !.todo = @ \ {s}]
    /\ UNCHANGED <<mask, nodes, conn, low, reqs, history>>

\* mask |= (1 << stream_id), first half.
LoadBit ==
    /\ up.pc = "load"
    /\ up' = [up EXCEPT !.pc = "store", !.load = mask[BitMask(up.r)]]
    /\ UNCHANGED <<mask, nodes, conn, out, low, reqs, history>>

\* Second half; the other messages are sent after it.
StoreBit ==
    /\ up.pc = "store"
    /\ mask' = [mask EXCEPT ![BitMask(up.r)] = [up.load EXCEPT !.bits = @ \cup {up.s}]]
    /\ IF up.r[2] \in SendsFirst THEN UNCHANGED out ELSE SendTo(up.s)
    /\ up' = [up EXCEPT !.pc = "pick", !.sent = @ \/ up.s \in conn]
    /\ UNCHANGED <<nodes, conn, low, reqs, history>>

\* upper_msg_time_que_add_node: a request whose like waits has that one's node.
\* The queue may be full, for it holds the nodes of the requests to the recorders,
\* of logins and of single users too; the handlers do not look at the result.
AddNode(r) ==
    /\ \/ nodes' = nodes \cup {r} /\ UNCHANGED dropped
       \/ r \notin nodes /\ dropped' = dropped \cup {r} /\ UNCHANGED nodes
    /\ UNCHANGED <<owed, overtaken>>

\* Messages that are answered without waiting when nothing was passed on.
RepliesIfNone == {"remote_ctrl", "audio"} \cup Single

\* Fault: the handler enters its node only when something was sent.
FinishIfSent ==
    /\ up.pc = "pick" /\ up.todo = {}
    /\ \/ /\ up.r[2] \in Direct \cup Info \/ (up.r[2] \in RepliesIfNone /\ mask[up.r] = Flg)
          /\ Reply(up.r)
          /\ UNCHANGED nodes
       \/ /\ up.r[2] \notin Direct \cup Info
          /\ ~(up.r[2] \in RepliesIfNone /\ mask[up.r] = Flg)
          /\ IF up.sent THEN AddNode(up.r) ELSE UNCHANGED <<nodes, history>>
    /\ up' = UpIdle
    /\ UNCHANGED <<mask, conn, out, low, reqs>>

\* The end of a handler.  A picture synthesis nobody received is forgotten.
Finish ==
    /\ up.pc = "pick" /\ up.todo = {}
    /\ \/ /\ up.r[2] \in Direct \cup Info \/ (up.r[2] \in RepliesIfNone /\ mask[up.r] = Flg)
          /\ Reply(up.r)
          /\ UNCHANGED nodes
       \/ /\ up.r[2] \notin Direct \cup Info
          /\ ~(up.r[2] \in RepliesIfNone /\ mask[up.r] = Flg)
          /\ IF up.r[2] = "synthesis" /\ ~up.sent THEN UNCHANGED <<nodes, history>>
             ELSE AddNode(up.r)
    /\ up' = UpIdle
    /\ UNCHANGED <<mask, conn, out, low, reqs>>

\* upper_msg_time_out_resp, called by the sweep: the mask is left as it is.
TimeOut(r) ==
    /\ up.pc = "idle" /\ r \in nodes
    /\ nodes' = nodes \ {r}
    /\ Reply(r)
    /\ UNCHANGED <<mask, conn, out, up, low, reqs>>

-----------------------------------------------------------------------------
(* The lower thread.                                                       *)

LowGoto(pc) == low' = [low EXCEPT !.pc = pc]

\* The mask the handler of an answer clears a bit in.
ClearMask(r) == IF r[2] \in Relay THEN <<r[1], "director">> ELSE r

\* Stream s answers its oldest request r, well or not.
Take(s, r, ok) ==
    /\ low.pc = "idle"
    /\ out[s][r] > 0
    /\ out' = [out EXCEPT ![s][r] = @ - 1]
    /\ low' = [r |-> r, s |-> s, ok |-> ok, load |-> Clr,
               pc |-> CASE r[2] \in Gather \cup Direct -> "load"
                        [] r[2] \in Relay  -> "relay"
                        [] r[2] \in Single -> "single"
                        [] r[2] \in Info   -> IF ok THEN "load" ELSE "idle"]
    /\ UNCHANGED <<mask, nodes, conn, up, reqs, history>>

\* mask &= ~(1 << msgtype), first half.
LoadClear ==
    /\ low.pc = "load"
    /\ low' = [low EXCEPT !.pc = "store", !.load = mask[ClearMask(low.r)]]
    /\ UNCHANGED <<mask, nodes, conn, out, up, reqs, history>>

\* Second half.  A room info answer ends here: it has no node to delete.
StoreClear ==
    /\ low.pc = "store"
    /\ mask' = [mask EXCEPT ![ClearMask(low.r)] = [low.load EXCEPT !.bits = @ \ {low.s}]]
    /\ LowGoto(CASE low.r[2] \in Info  -> "idle"
                 [] low.r[2] \in Relay -> "test"
                 [] OTHER              -> "flag")
    /\ UNCHANGED <<nodes, conn, out, up, reqs, history>>

\* lower_msg_resp_xml_deal: a failed answer clears the flag ...
FlagLoad ==
    /\ low.pc = "flag"
    /\ low' = IF mask[low.r].flag /\ ~low.ok
              THEN [low EXCEPT !.pc = "flagstore", !.load = mask[low.r]]
              ELSE [low EXCEPT !.pc = "all?"]
    /\ UNCHANGED <<mask, nodes, conn, out, up, reqs, history>>

FlagStore ==
    /\ low.pc = "flagstore"
    /\ mask' = [mask EXCEPT ![low.r] = [low.load EXCEPT !.flag = FALSE]]
    /\ LowGoto("all?")
    /\ UNCHANGED <<nodes, conn, out, up, reqs, history>>

\* ... and the last one is answered upwards,
AllResp ==
    /\ low.pc = "all?"
    /\ LowGoto(IF mask[low.r].bits = {} THEN "resp" ELSE "idle")
    /\ UNCHANGED <<mask, nodes, conn, out, up, reqs, history>>

Resp ==
    /\ low.pc = "resp"
    /\ Reply(low.r)
    /\ LowGoto("all")
    /\ UNCHANGED <<mask, nodes, conn, out, up, reqs>>

\* the mask filled
SetAll ==
    /\ low.pc = "all"
    /\ mask' = [mask EXCEPT ![low.r] = All]
    /\ LowGoto("del")
    /\ UNCHANGED <<nodes, conn, out, up, reqs, history>>

\* and the node deleted.
DelNode ==
    /\ low.pc = "del"
    /\ nodes' = nodes \ {low.r}
    /\ low' = LowIdle
    /\ UNCHANGED <<mask, conn, out, up, reqs, history>>

\* logo, title, camera, synthesis and director answers are forwarded, clear
\* their bit in setRemoteModeMask,
RelayUp ==
    /\ low.pc = "relay"
    /\ Reply(low.r)
    /\ LowGoto("load")
    /\ UNCHANGED <<mask, nodes, conn, out, up, reqs>>

\* and delete the node when roomInfoMask is clear.
RelayTest ==
    /\ low.pc = "test"
    /\ LowGoto(IF mask[<<low.r[1], "room_info">>] = Clr THEN "del" ELSE "idle")
    /\ UNCHANGED <<mask, nodes, conn, out, up, reqs, history>>

\* volume and mute: mask and node go first,
SingleDel ==
    /\ low.pc = "single"
    /\ mask' = [mask EXCEPT ![low.r] = Clr]
    /\ nodes' = nodes \ {low.r}
    /\ LowGoto("forward")
    /\ UNCHANGED <<conn, out, up, reqs, history>>

\* then the answer is forwarded.
SingleUp ==
    /\ low.pc = "forward"
    /\ Reply(low.r)
    /\ low' = LowIdle
    /\ UNCHANGED <<mask, nodes, conn, out, up, reqs>>

-----------------------------------------------------------------------------
\* A stream's socket is lost, with the answers that were to come on it ...
Disconnect(s) ==
    /\ s \in conn
    /\ conn' = conn \ {s}
    /\ out' = [out EXCEPT ![s] = [r \in Reqs |-> 0]]
    /\ UNCHANGED <<mask, nodes, up, low, reqs, history>>

\* ... or connected.
Connect(s) ==
    /\ s \notin conn
    /\ conn' = conn \cup {s}
    /\ UNCHANGED <<mask, nodes, out, up, low, reqs, history>>

Upper == (\E s \in Streams : Skip(s) \/ Pick(s)) \/ LoadBit \/ StoreBit \/ Finish

Lower ==
    \/ LoadClear \/ StoreClear \/ FlagLoad \/ FlagStore \/ AllResp \/ Resp \/ SetAll
    \/ DelNode \/ RelayUp \/ RelayTest \/ SingleDel \/ SingleUp

Next ==
    \/ \E r \in Reqs, todo \in SUBSET Streams : Request(r, todo)
    \/ Upper
    \/ \E r \in Reqs : TimeOut(r)
    \/ \E s \in Streams, r \in Reqs, ok \in BOOLEAN : Take(s, r, ok)
    \/ Lower
    \/ \E s \in Streams : Disconnect(s) \/ Connect(s)

Spec == Init /\ [][Next]_vars

-----------------------------------------------------------------------------
UpPcs  == {"pick", "load", "store"}
LowPcs == {"idle", "load", "store", "flag", "flagstore", "all?", "resp", "all", "del",
           "relay", "test", "single", "forward"}

TypeOK ==
    /\ mask \in [MaskIds -> Masks]
    /\ nodes \subseteq Reqs
    /\ conn \subseteq Streams
    /\ out \in [Streams -> [Reqs -> 0 .. MaxReq]]
    /\ up \in {UpIdle} \cup [pc : UpPcs, r : Reqs, s : Bits, todo : SUBSET Streams,
                             load : Masks, sent : BOOLEAN]
    /\ low \in {LowIdle} \cup [pc : LowPcs, r : Reqs, s : Streams, ok : BOOLEAN, load : Masks]
    /\ reqs \in 0 .. MaxReq
    /\ owed \subseteq Reqs
    /\ overtaken \subseteq Reqs
    /\ dropped \subseteq Reqs

Handling(r) == up.pc # "idle" /\ up.r = r

(* No request is forgotten: one that has not been answered has a node that *)
(* will time out, or its handler is still at work (the upper handlers,     *)
(* upper_msg_time_out_resp and the lower thread's deletions together).     *)
(* Three ways out are known: a picture synthesis no encoder received, a    *)
(* request that found the queue full, and one that was made between the    *)
(* answer to the one before and the deletion of the node they share.       *)
NodeOrAnswered ==
    \A r \in owed \ (overtaken \cup dropped) :
        \/ r[2] = "synthesis"
        \/ r \in nodes
        \/ Handling(r)
        \/ low.pc = "forward" /\ low.r = r

(* Quality and code stream requests are answered by the upper thread at    *)
(* once; whatever the encoders answer, and whatever updates of the mask    *)
(* are lost, lower_msg_resp_xml_deal never answers them a second time.     *)
DirectAnsweredOnce == low.pc = "resp" => low.r[2] \notin Direct
=============================================================================
