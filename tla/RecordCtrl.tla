----------------------------- MODULE RecordCtrl -----------------------------
(***************************************************************************)
(* Recording control of one room process (room/ctrl).  The upper thread    *)
(* executes START, PAUSE and STOP requests, looks after requests that ran  *)
(* out of time and polls the disk; the lower thread takes the encoders'    *)
(* answers and the recorders' own reports from the room's message queue.   *)
(*                                                                         *)
(* START is passed on to the encoders, which lock their resolution and     *)
(* answer; the last answer starts the recorders, and so does the timeout.  *)
(* An encoder that changed its quality meanwhile is locked anew.           *)
(* The threads share the recorder handles, the record mask and counter of  *)
(* each platform and opt_mutex_lock, a plain integer.  A step is a stretch *)
(* of a handler that the other thread's steps may fall between; loads and  *)
(* stores of the lock and of the masks are steps of their own.             *)
(*                                                                         *)
(* When a node is due is MsgTimeQue's matter: here it may be at any time.  *)
(***************************************************************************)
EXTENDS Integers, FiniteSets

CONSTANTS
    Platforms,      \* pass keys that may ask for a recording
    Streams,        \* encoder streams with a connected socket
    MaxReq,         \* bound: record requests the room receives
    MaxReport       \* room for recorder reports in the message queue

ASSUME StreamAssumption == Streams # {} /\ IsFiniteSet(Streams)
ASSUME BoundAssumption == MaxReq \in Nat /\ MaxReport \in Nat

Threads == {"upper", "lower"}
Ops == {"START", "PAUSE", "STOP"}
Kinds == {"res", "usb"}     \* record_handle and usb_record_handle

VARIABLES
    pc,         \* where each thread stands
    reg,        \* the lock as a thread loaded it
    back,       \* where a thread goes on after closing or starting recorders
    job,        \* the platform a thread works for
    begun,      \* recorders the running lower_msg_start_record got going
    lock,       \* RecInfo.opt_mutex_lock
    opt,        \* RecInfo.OptType
    op, ret,    \* the upper thread's request and rec_return_code
    handle,     \* the recorder handles that are not NULL
    leaked,     \* recorders still running that no handle points to
    mask, sum,  \* record_mask and record_mask_sum of each platform
    seen,       \* mask and sum as a thread loaded them
    from,       \* the stream whose answer the lower thread handles
    acks,       \* answers to lock requests that are still on their way
    node,       \* platforms with a MSG_RECORD_CTRL node in msgTimeQue
    low,        \* server_info: the disk has less than MSG_MIN_VALID_SPACE
    reports,    \* recorder reports in the room's message queue
    locked,     \* external: encoders told last to lock their resolution
    reported,   \* external: recorders that reported the end of their time
    owed,       \* history: platforms whose START was passed on, unanswered
    overtaken,  \* history: a START was passed on for the platform that the
                \* lower thread was about to answer for an earlier one
    late,       \* history: encoders told to lock again when the recorder
                \* they were to be locked for was closed already
    again,      \* history: recorders were started although some existed, or
                \* the other thread was starting them
    reqs        \* requests received so far

shared == <<lock, opt, handle, leaked, mask, sum, acks, node, low, reports, locked>>
local == <<pc, reg, back, job, begun, op, ret, seen, from>>
history == <<reported, owed, overtaken, late, again, reqs>>
vars == <<shared, local, history>>

-----------------------------------------------------------------------------
\* Locals that hold nothing of use are reset, which merges states.
Unseen == [mask |-> {}, sum |-> 0]

Init ==
    /\ pc = [t \in Threads |-> "idle"]
    /\ reg = [t \in Threads |-> 0]
    /\ back = [t \in Threads |-> "idle"]
    /\ job \in [Threads -> Platforms]
    /\ job["upper"] = job["lower"]
    /\ begun = [t \in Threads |-> {}]
    /\ lock = 0
    /\ opt = "STOP"
    /\ op = "STOP" /\ ret = 0
    /\ handle = {}
    /\ leaked = {}
    /\ mask = [p \in Platforms |-> {}]
    /\ sum = [p \in Platforms |-> 0]
    /\ seen = [t \in Threads |-> Unseen]
    /\ from \in Streams
    /\ acks = [s \in Streams |-> [p \in Platforms |-> 0]]
    /\ node = {}
    /\ low = FALSE
    /\ reports = 0
    /\ locked = {}
    /\ reported = {}
    /\ owed = {}
    /\ overtaken = FALSE
    /\ late = {}
    /\ again = FALSE
    /\ reqs = 0

Goto(t, l) == pc' = [pc EXCEPT ![t] = l]

-----------------------------------------------------------------------------
(* upper_mutex_lock and upper_mutex_unlock: *lock += 1 and *lock -= 1.     *)

Body(t) == IF t = "upper" THEN "act" ELSE "report"

LockLoad(t) ==
    /\ pc[t] = "load"
    /\ reg' = [reg EXCEPT ![t] = lock]
    /\ Goto(t, "store")
    /\ UNCHANGED <<shared, back, job, begun, op, ret, seen, from, history>>

LockStore(t) ==
    /\ pc[t] = "store"
    /\ lock' = reg[t] + 1
    /\ reg' = [reg EXCEPT ![t] = 0]
    /\ Goto(t, Body(t))
    /\ UNCHANGED <<opt, handle, leaked, mask, sum, acks, node, low, reports, locked>>
    /\ UNCHANGED <<back, job, begun, op, ret, seen, from, history>>

UnlockLoad(t) ==
    /\ pc[t] = "unload"
    /\ reg' = [reg EXCEPT ![t] = lock]
    /\ Goto(t, "unstore")
    /\ UNCHANGED <<shared, back, job, begun, op, ret, seen, from, history>>

UnlockStore(t) ==
    /\ pc[t] = "unstore"
    /\ lock' = reg[t] - 1
    /\ reg' = [reg EXCEPT ![t] = 0]
    /\ Goto(t, "idle")
    /\ UNCHANGED <<opt, handle, leaked, mask, sum, acks, node, low, reports, locked>>
    /\ UNCHANGED <<back, job, begun, op, ret, seen, from, history>>

-----------------------------------------------------------------------------
(* Closing and starting the two recorders, in either thread.               *)

\* record_close and unregister_course_record_mode of one handle.
Close(t, k) ==
    /\ pc[t] = (IF k = "res" THEN "closeRes" ELSE "closeUsb")
    /\ handle' = handle \ {k}
    /\ reported' = reported \ {k}
    /\ Goto(t, IF k = "res" THEN "closeUsb" ELSE back[t])
    /\ back' = IF k = "res" THEN back ELSE [back EXCEPT ![t] = "idle"]
    /\ UNCHANGED <<lock, opt, leaked, mask, sum, acks, node, low, reports, locked>>
    /\ UNCHANGED <<reg, job, begun, op, ret, seen, from, owed, overtaken, late, again, reqs>>

\* lower_msg_start_record_res and lower_msg_start_record_movie: the handle is
\* overwritten by the new recorder, or by NULL when it cannot be had; without
\* a stream to record, or a width and height, it is left alone.
Start(t, k) ==
    /\ pc[t] = (IF k = "res" THEN "startRes" ELSE "startUsb")
    /\ \/ /\ handle' = handle \cup {k}
          /\ leaked' = leaked \cup (handle \cap {k})
          /\ reported' = reported \ {k}
          /\ begun' = [begun EXCEPT ![t] = @ \cup {k}]
       \/ /\ handle' = handle \ {k}
          /\ leaked' = leaked \cup (handle \cap {k})
          /\ reported' = reported \ {k}
          /\ UNCHANGED begun
       \/ UNCHANGED <<handle, leaked, reported, begun>>
    /\ Goto(t, IF k = "res" THEN "startUsb" ELSE back[t])
    /\ back' = IF k = "res" THEN back ELSE [back EXCEPT ![t] = "idle"]
    /\ UNCHANGED <<lock, opt, mask, sum, acks, node, low, reports, locked>>
    /\ UNCHANGED <<reg, job, op, ret, seen, from, owed, overtaken, late, again, reqs>>

\* lower_msg_start_record: who starts, for which platform, and what follows.
BeginStart(t, p, l) ==
    /\ Goto(t, "startRes")
    /\ back' = [back EXCEPT ![t] = l]
    /\ begun' = [begun EXCEPT ![t] = {}]
    /\ job' = [job EXCEPT ![t] = p]
    /\ again' = \/ again
                \/ handle # {}
                \/ \E u \in Threads \ {t} : pc[u] \in {"startRes", "startUsb"}

BeginClose(t, l) == Goto(t, "closeRes") /\ back' = [back EXCEPT ![t] = l]

-----------------------------------------------------------------------------
(* The upper thread: upper_msg_record_ctrl_deal.                           *)

\* A request that finds the lock taken is dropped without an answer.
RecordCtrl(p, o) ==
    /\ pc["upper"] = "idle"
    /\ reqs < MaxReq
    /\ reqs' = reqs + 1
    /\ IF lock # 0
       THEN UNCHANGED <<pc, op, job>>
       ELSE /\ Goto("upper", "load")
            /\ op' = o
            /\ job' = [job EXCEPT !["upper"] = p]
    /\ UNCHANGED <<shared, reg, back, begun, ret, seen, from>>
    /\ UNCHANGED <<reported, owed, overtaken, late, again>>

\* The request is for another room.
OtherRoom ==
    /\ pc["upper"] = "act"
    /\ Goto("upper", "unload")
    /\ UNCHANGED <<shared, reg, back, job, begun, op, ret, seen, from, history>>

\* The three branches on OptType.  ready: the first two streams are logged
\* in; connected: ConnectStatus.  Pausing and resuming a recorder is left to
\* the recorder; an unknown OptType is answered like a PAUSE without one.
Act(ready, connected) ==
    /\ pc["upper"] = "act"
    /\ opt' = op
    /\ IF op = "STOP" /\ handle # {}
       THEN BeginClose("upper", "decide") /\ ret' = 1
       ELSE /\ Goto("upper", "decide")
            /\ UNCHANGED back
            /\ ret' = CASE op = "START" -> (IF ready /\ (handle # {} \/ (~low /\ connected))
                                            THEN 1 ELSE 0)
                        [] op = "PAUSE" -> (IF handle # {} THEN 1 ELSE 0)
                        [] op = "STOP"  -> 2
    /\ UNCHANGED <<lock, handle, leaked, mask, sum, acks, node, low, reports, locked>>
    /\ UNCHANGED <<reg, job, begun, op, seen, from, history>>

\* A START that is to be passed on sees record_handle only, so it is passed
\* on while the other handle still records; a STOP is always passed on.
Decide ==
    /\ pc["upper"] = "decide"
    /\ Goto("upper", IF \/ opt = "START" /\ ret = 1 /\ "res" \notin handle
                        \/ opt = "STOP"
                     THEN "clear" ELSE "reply")
    /\ UNCHANGED <<shared, reg, back, job, begun, op, ret, seen, from, history>>

\* upper_msg_send_record_msg_to_enc, first pass: counter and mask are reset ...
Clear ==
    /\ pc["upper"] = "clear"
    /\ sum' = [sum EXCEPT ![job["upper"]] = 0]
    /\ mask' = [mask EXCEPT ![job["upper"]] = {}]
    /\ Goto("upper", "countLoad")
    /\ UNCHANGED <<lock, opt, handle, leaked, acks, node, low, reports, locked>>
    /\ UNCHANGED <<reg, back, job, begun, op, ret, seen, from>>
    /\ UNCHANGED <<reported, owed, overtaken, late, again, reqs>>

CountLoad ==
    /\ pc["upper"] = "countLoad"
    /\ seen' = [seen EXCEPT !["upper"] = [mask |-> mask[job["upper"]], sum |-> sum[job["upper"]]]]
    /\ Goto("upper", "countStore")
    /\ UNCHANGED <<shared, reg, back, job, begun, op, ret, from, history>>

\* ... and every connected stream is counted.
CountStore ==
    /\ pc["upper"] = "countStore"
    /\ mask' = [mask EXCEPT ![job["upper"]] = seen["upper"].mask \cup Streams]
    /\ sum' = [sum EXCEPT ![job["upper"]] = seen["upper"].sum + Cardinality(Streams)]
    /\ seen' = [seen EXCEPT !["upper"] = Unseen]
    /\ Goto("upper", "send")
    /\ UNCHANGED <<lock, opt, handle, leaked, acks, node, low, reports, locked>>
    /\ UNCHANGED <<reg, back, job, begun, op, ret, from, history>>

Overtakes ==
    /\ pc["lower"] \in {"startRes", "startUsb", "started"}
    /\ job["lower"] = job["upper"]

\* Second pass: the request goes to the encoders.  A START asks them to lock
\* their resolution, a STOP to unlock it; only the first is answered for.
Send ==
    /\ pc["upper"] = "send"
    /\ IF opt = "START"
       THEN /\ acks' = [s \in Streams |-> [acks[s] EXCEPT ![job["upper"]] = @ + 1]]
            /\ locked' = Streams
            /\ owed' = owed \cup {job["upper"]}
            /\ overtaken' = (overtaken \/ Overtakes)
            /\ Goto("upper", "add")
       ELSE /\ locked' = {}
            /\ Goto("upper", "reply")
            /\ UNCHANGED <<acks, owed, overtaken>>
    /\ late' = {}
    /\ UNCHANGED <<lock, opt, handle, leaked, mask, sum, node, low, reports>>
    /\ UNCHANGED <<reg, back, job, begun, op, ret, seen, from, reported, again, reqs>>

\* upper_msg_time_que_add_node; a platform's second node is refused, and the
\* first dropped when the queue is full.
AddNode ==
    /\ pc["upper"] = "add"
    /\ node' \in {node, node \cup {job["upper"]}}
    /\ ret' = 0
    /\ Goto("upper", "unload")
    /\ UNCHANGED <<lock, opt, handle, leaked, mask, sum, acks, low, reports, locked>>
    /\ UNCHANGED <<reg, back, job, begun, op, seen, from, history>>

\* The request is answered at once; a START that failed resets OptType.
Reply ==
    /\ pc["upper"] = "reply"
    /\ opt' = IF ret = 0 /\ opt = "START" THEN "STOP" ELSE opt
    /\ ret' = 0
    /\ Goto("upper", "unload")
    /\ UNCHANGED <<lock, handle, leaked, mask, sum, acks, node, low, reports, locked>>
    /\ UNCHANGED <<reg, back, job, begun, op, seen, from, history>>

-----------------------------------------------------------------------------
(* The upper thread between two requests.                                  *)

\* upper_msg_monitor_time_queue calls upper_msg_record_time_out_resp: a node
\* is dropped without an answer when a recorder exists, else recording starts
\* without the encoders that have not answered.
TimeOut(p) ==
    /\ pc["upper"] = "idle"
    /\ p \in node
    /\ IF handle # {}
       THEN /\ node' = node \ {p}
            /\ owed' = owed \ {p}
            /\ UNCHANGED <<pc, back, begun, job, again>>
       ELSE /\ BeginStart("upper", p, "timedOut")
            /\ UNCHANGED <<node, owed>>
    /\ UNCHANGED <<lock, opt, handle, leaked, mask, sum, acks, low, reports, locked>>
    /\ UNCHANGED <<reg, op, ret, seen, from, reported, overtaken, late, reqs>>

\* Fault: the encoders are not told when recording could not be started.
TimedOutKeepsLock ==
    /\ pc["upper"] = "timedOut"
    /\ owed' = owed \ {job["upper"]}
    /\ node' = node \ {job["upper"]}
    /\ begun' = [begun EXCEPT !["upper"] = {}]
    /\ Goto("upper", "idle")
    /\ UNCHANGED <<lock, opt, handle, leaked, mask, sum, acks, low, reports, locked>>
    /\ UNCHANGED <<reg, back, job, op, ret, seen, from, reported, overtaken, late, again, reqs>>

\* The rest of it: unlock the encoders if nothing started, answer, drop the node.
TimedOut ==
    /\ pc["upper"] = "timedOut"
    /\ IF begun["upper"] = {}
       THEN locked' = {} /\ late' = {}
       ELSE UNCHANGED <<locked, late>>
    /\ owed' = owed \ {job["upper"]}
    /\ node' = node \ {job["upper"]}
    /\ begun' = [begun EXCEPT !["upper"] = {}]
    /\ Goto("upper", "idle")
    /\ UNCHANGED <<lock, opt, handle, leaked, mask, sum, acks, low, reports>>
    /\ UNCHANGED <<reg, back, job, op, ret, seen, from, reported, overtaken, again, reqs>>

\* Fault: only the resource recorder is looked at when the disk is full.
ServerInfoResOnly(full) ==
    /\ pc["upper"] = "idle"
    /\ low' = full
    /\ IF full /\ "res" \in handle
       THEN BeginClose("upper", "lowDone")
       ELSE UNCHANGED <<pc, back>>
    /\ UNCHANGED <<lock, opt, handle, leaked, mask, sum, acks, node, reports, locked>>
    /\ UNCHANGED <<reg, job, begun, op, ret, seen, from, history>>

\* upper_msg_resp_server_info_deal: recording stops when the disk is full.
ServerInfo(full) ==
    /\ pc["upper"] = "idle"
    /\ low' = full
    /\ IF full /\ handle # {}
       THEN BeginClose("upper", "lowDone")
       ELSE UNCHANGED <<pc, back>>
    /\ UNCHANGED <<lock, opt, handle, leaked, mask, sum, acks, node, reports, locked>>
    /\ UNCHANGED <<reg, job, begun, op, ret, seen, from, history>>

LowDone ==
    /\ pc["upper"] = "lowDone"
    /\ opt' = "STOP"
    /\ locked' = {}
    /\ late' = {}
    /\ Goto("upper", "idle")
    /\ UNCHANGED <<lock, handle, leaked, mask, sum, acks, node, low, reports>>
    /\ UNCHANGED <<reg, back, job, begun, op, ret, seen, from>>
    /\ UNCHANGED <<reported, owed, overtaken, again, reqs>>

-----------------------------------------------------------------------------
(* The lower thread: lower_msg_record_ctrl_deal and                        *)
(* lower_msg_record_req_deal.                                              *)

\* An encoder's answer to a lock request, good or bad, reaches the handler.
Ack(s, p) ==
    /\ pc["lower"] = "idle"
    /\ acks[s][p] > 0
    /\ acks' = [acks EXCEPT ![s][p] = @ - 1]
    /\ seen' = [seen EXCEPT !["lower"] = [mask |-> mask[p], sum |-> sum[p]]]
    /\ from' = s
    /\ job' = [job EXCEPT !["lower"] = p]
    /\ Goto("lower", "ackStore")
    /\ UNCHANGED <<lock, opt, handle, leaked, mask, sum, node, low, reports, locked>>
    /\ UNCHANGED <<reg, back, begun, op, ret, reported, owed, overtaken, late, again, reqs>>

\* The stream's bit is cleared and the counter decremented.  The failure is
\* lost (upper_msg_set_mask_bit_val gets the mask by value); the last answer
\* starts the recorders, whatever handles there are and without the lock.
AckStore ==
    LET p == job["lower"]
        m == seen["lower"].mask \ {from}
        n == seen["lower"].sum - 1
    IN  /\ pc["lower"] = "ackStore"
        /\ mask' = [mask EXCEPT ![p] = m]
        /\ sum' = [sum EXCEPT ![p] = n]
        /\ seen' = [seen EXCEPT !["lower"] = Unseen]
        /\ IF m = {} /\ n = 0
           THEN BeginStart("lower", p, "started")
           ELSE Goto("lower", "idle") /\ UNCHANGED <<back, begun, job, again>>
        /\ UNCHANGED <<lock, opt, handle, leaked, acks, node, low, reports, locked>>
        /\ UNCHANGED <<reg, op, ret, from, reported, owed, overtaken, late, reqs>>

\* lower_msg_start_record_resp
Started ==
    /\ pc["lower"] = "started"
    /\ owed' = owed \ {job["lower"]}
    /\ Goto("lower", "del")
    /\ UNCHANGED <<shared, reg, back, job, begun, op, ret, seen, from>>
    /\ UNCHANGED <<reported, overtaken, late, again, reqs>>

\* upper_msg_time_que_del_node, which waits for the sweep to end.
DelNode ==
    /\ pc["lower"] = "del"
    /\ pc["upper"] \notin {"startRes", "startUsb", "timedOut"}
    /\ node' = node \ {job["lower"]}
    /\ Goto("lower", IF begun["lower"] = {} THEN "unlockEnc" ELSE "idle")
    /\ begun' = [begun EXCEPT !["lower"] = {}]
    /\ UNCHANGED <<lock, opt, handle, leaked, mask, sum, acks, low, reports, locked>>
    /\ UNCHANGED <<reg, back, job, op, ret, seen, from, history>>

UnlockEnc ==
    /\ pc["lower"] = "unlockEnc"
    /\ locked' = {}
    /\ late' = {}
    /\ Goto("lower", "idle")
    /\ UNCHANGED <<lock, opt, handle, leaked, mask, sum, acks, node, low, reports>>
    /\ UNCHANGED <<reg, back, job, begun, op, ret, seen, from>>
    /\ UNCHANGED <<reported, owed, overtaken, again, reqs>>

\* lower_msg_set_quality_info_deal: an encoder that took a new quality, and
\* whose stream was asked for, is to be locked again while there is a recorder.
QualityAnswer(s) ==
    /\ pc["lower"] = "idle"
    /\ "res" \in handle
    /\ from' = s
    /\ Goto("lower", "relock")
    /\ UNCHANGED <<shared, reg, back, job, begun, op, ret, seen, history>>

\* lower_msg_ctrl_enc_lock_req; the encoder's answer is for no platform.
Relock ==
    /\ pc["lower"] = "relock"
    /\ locked' = locked \cup {from}
    /\ late' = IF "res" \in handle THEN late ELSE late \cup {from}
    /\ Goto("lower", "idle")
    /\ UNCHANGED <<lock, opt, handle, leaked, mask, sum, acks, node, low, reports>>
    /\ UNCHANGED <<reg, back, job, begun, op, ret, seen, from>>
    /\ UNCHANGED <<reported, owed, overtaken, again, reqs>>

\* course_record_process: a recorder whose time is over says so once; while
\* the queue is full it tries again.
RecordOver(k) ==
    /\ k \in handle \ reported
    /\ reports < MaxReport
    /\ reported' = reported \cup {k}
    /\ reports' = reports + 1
    /\ UNCHANGED <<lock, opt, handle, leaked, mask, sum, acks, node, low, locked>>
    /\ UNCHANGED <<local, owed, overtaken, late, again, reqs>>

\* Fault: a report that finds the lock taken releases it all the same.
RecordReqUnlocksAlways ==
    /\ pc["lower"] = "idle"
    /\ reports > 0
    /\ reports' = reports - 1
    /\ Goto("lower", IF lock # 0 THEN "unload" ELSE "load")
    /\ UNCHANGED <<lock, opt, handle, leaked, mask, sum, acks, node, low, locked>>
    /\ UNCHANGED <<reg, back, job, begun, op, ret, seen, from, history>>

\* A report that finds the lock taken is dropped.
RecordReq ==
    /\ pc["lower"] = "idle"
    /\ reports > 0
    /\ reports' = reports - 1
    /\ Goto("lower", IF lock # 0 THEN "idle" ELSE "load")
    /\ UNCHANGED <<lock, opt, handle, leaked, mask, sum, acks, node, low, locked>>
    /\ UNCHANGED <<reg, back, job, begun, op, ret, seen, from, history>>

Report ==
    /\ pc["lower"] = "report"
    /\ IF handle # {}
       THEN BeginClose("lower", "reportDone")
       ELSE Goto("lower", "unload") /\ UNCHANGED back
    /\ UNCHANGED <<shared, reg, job, begun, op, ret, seen, from, history>>

\* Both are closed: the encoders are unlocked and every platform is told.
ReportDone ==
    /\ pc["lower"] = "reportDone"
    /\ opt' = "STOP"
    /\ locked' = {}
    /\ late' = {}
    /\ Goto("lower", "unload")
    /\ UNCHANGED <<lock, handle, leaked, mask, sum, acks, node, low, reports>>
    /\ UNCHANGED <<reg, back, job, begun, op, ret, seen, from>>
    /\ UNCHANGED <<reported, owed, overtaken, again, reqs>>

-----------------------------------------------------------------------------
\* What a thread does next once it is at work.
Step(t) ==
    \/ LockLoad(t) \/ LockStore(t) \/ UnlockLoad(t) \/ UnlockStore(t)
    \/ \E k \in Kinds : Close(t, k) \/ Start(t, k)

UpperStep ==
    \/ Step("upper")
    \/ OtherRoom
    \/ \E ready, connected \in BOOLEAN : Act(ready, connected)
    \/ Decide \/ Clear \/ CountLoad \/ CountStore \/ Send \/ AddNode \/ Reply
    \/ TimedOut
    \/ LowDone

LowerStep ==
    \/ Step("lower")
    \/ AckStore \/ Started \/ DelNode \/ UnlockEnc \/ Relock
    \/ RecordReq \/ Report \/ ReportDone

Next ==
    \/ UpperStep
    \/ LowerStep
    \/ \E p \in Platforms, o \in Ops : RecordCtrl(p, o)
    \/ \E p \in Platforms : TimeOut(p)
    \/ \E full \in BOOLEAN : ServerInfo(full)
    \/ \E s \in Streams, p \in Platforms : Ack(s, p)
    \/ \E s \in Streams : QualityAnswer(s)
    \/ \E k \in Kinds : RecordOver(k)

Spec == Init /\ [][Next]_vars

\* Threads run, the disk is polled; nobody has to ask and no encoder to answer.
FairSpec ==
    /\ Spec
    /\ WF_vars(UpperStep)
    /\ WF_vars(LowerStep)
    /\ WF_vars(ServerInfo(low))
    /\ WF_vars(\E p \in Platforms : TimeOut(p))

-----------------------------------------------------------------------------
Labels == {"idle", "load", "store", "unload", "unstore", "closeRes", "closeUsb",
           "startRes", "startUsb", "act", "decide", "clear", "countLoad", "countStore",
           "send", "add", "reply", "timedOut", "lowDone", "ackStore", "started", "del",
           "unlockEnc", "relock", "report", "reportDone"}

TypeOK ==
    /\ pc \in [Threads -> Labels]
    /\ reg \in [Threads -> Int]
    /\ lock \in Int
    /\ back \in [Threads -> Labels]
    /\ job \in [Threads -> Platforms]
    /\ begun \in [Threads -> SUBSET Kinds]
    /\ opt \in Ops /\ op \in Ops /\ ret \in 0 .. 2
    /\ handle \subseteq Kinds /\ leaked \subseteq Kinds /\ reported \subseteq handle
    /\ mask \in [Platforms -> SUBSET Streams]
    /\ sum \in [Platforms -> Int]
    /\ seen \in [Threads -> [mask : SUBSET Streams, sum : Int]]
    /\ from \in Streams
    /\ acks \in [Streams -> [Platforms -> Nat]]
    /\ node \subseteq Platforms /\ owed \subseteq Platforms
    /\ low \in BOOLEAN /\ overtaken \in BOOLEAN /\ reports \in Nat
    /\ locked \subseteq Streams /\ late \subseteq Streams /\ again \in BOOLEAN
    /\ reqs \in 0 .. MaxReq

\* Inside a record operation that took opt_mutex_lock.
Operating(t) ==
    \/ pc[t] \in {"act", "decide", "clear", "countLoad", "countStore", "send", "add",
                  "reply", "report", "reportDone"}
    \/ pc[t] \in {"closeRes", "closeUsb"} /\ back[t] \in {"decide", "reportDone"}

(* No resolution lock is left behind: once both threads are idle, nothing  *)
(* records and every START passed on has been answered, no encoder is left *)
(* locked, however the recording ended or failed to begin (Send, TimedOut, *)
(* LowDone, UnlockEnc, ReportDone).  Two exceptions: a START passed on     *)
(* while the lower thread is starting, or answering, an earlier one of the *)
(* same platform, which passes for answered and loses its node; and the    *)
(* encoders that lower_msg_set_quality_info_deal told to lock, having seen *)
(* a recorder, after that recorder was closed.                             *)
NoLockLeft ==
    /\ \A t \in Threads : pc[t] = "idle"
    /\ handle \cup leaked = {}
    /\ owed = {}
    /\ ~overtaken
    => locked \subseteq late

(* opt_mutex_lock drifts when its two users race, and it does not drift    *)
(* far: a value left behind keeps both users out (upper_mutex_lock,        *)
(* upper_mutex_unlock, upper_mutex_status).                                *)
LockBounded == lock \in -2 .. 3

(* A recording that a full disk meets does not go on: the poll stops it or *)
(* finds space again, also when a late answer or a timeout started a       *)
(* recorder after the disk was found full (upper_msg_resp_server_info_deal).*)
(* Out of its reach are recorders that no handle points to any more, which *)
(* there are only when recorders were started over others.                 *)
LowDiskStops ==
    low /\ handle \cup leaked # {}
        ~> ~low \/ handle \cup leaked = {} \/ (handle = {} /\ again)
=============================================================================
