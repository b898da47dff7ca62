------------------------------- MODULE EncLink -------------------------------
(***************************************************************************)
(* The connections of a room to its encoders.  One receive thread per      *)
(* stream connects, logs in, reads and reconnects (room/receive/           *)
(* receive_module.c) and tells the lower thread what happened through a    *)
(* message queue.  The lower thread keeps a copy of the descriptor, Socket,*)
(* for the requests (room/ctrl/lower_msg_ctrl.c); the upper thread watches *)
(* the heart beats and closes what Socket says.  Descriptors are numbers   *)
(* the kernel hands out again as soon as they are closed.                  *)
(***************************************************************************)
EXTENDS Naturals, Sequences, FiniteSets

CONSTANTS
    Streams,    \* streams, one receive thread each
    EncOf,      \* the encoder of a stream
    NumFd,      \* bound: descriptors
    QueCap,     \* messages the queue to the lower thread holds
    MaxFault    \* bound: failures and requests from outside

Encs == {EncOf[s] : s \in Streams}

Nobody == "nobody"  \* owner of a closed descriptor
None   == "none"    \* no stream

ASSUME LinkAssumption ==
    /\ DOMAIN EncOf = Streams
    /\ None \notin Streams
    /\ NumFd \in Nat
    /\ QueCap \in Nat
    /\ MaxFault \in Nat

Fds      == 1 .. NumFd
NoFd     == 0           \* CLOSE_SOCK, and the 0 of a stream that was closed
Handles  == Fds \cup {NoFd}
ReportKinds == {"connect", "disconnect", "login", "beat"}

VARIABLES
    owner,      \* kernel: the stream a descriptor was opened for
    alive,      \* kernel: descriptors whose peer is still there
    up,         \* streams whose encoder accepts connections
    sockfd,     \* sockfd of the stream handles
    rt,         \* receive threads: pc, return code, LOGIN_BIT, login sent,
                \* first_login_report, connect_log_flag
    que,        \* message queue to the lower thread
    low,        \* lower thread: pc and the stream whose descriptor it copies next
    mon,        \* upper thread in lower_msg_monitor_stream_status
    socket,     \* Socket of the streams, as the control threads see them
    status,     \* streams with Status = 1
    encstatus,  \* encoders with Status = 1
    late,       \* streams whose heart_time is more than 10 seconds old
    connected,  \* ConnectStatus of the room
    faults,     \* failures and outside requests so far
    missed,     \* history: streams connected whose login the lower thread was not told of
    remade      \* history: streams connected while the monitor was about to forget the
                \* connection before, until a login is marked after it did

vars == <<owner, alive, up, sockfd, rt, que, low, mon, socket, status, encstatus,
          late, connected, faults, missed, remade>>
kernel  == <<owner, alive>>
control == <<socket, status, encstatus, late, connected>>

LowIdle == [pc |-> "idle", s |-> None]
MonIdle == [pc |-> "idle", s |-> None]

\* set_room_info has started the threads and open_room_connect has been called.
Init ==
    /\ owner = [f \in Fds |-> Nobody]
    /\ alive = {}
    /\ up = {}
    /\ sockfd = [s \in Streams |-> NoFd]
    /\ rt = [s \in Streams |-> [pc |-> "top", rc |-> "other", login |-> FALSE,
                                sent |-> FALSE, first |-> FALSE, clog |-> FALSE]]
    /\ que = <<>>
    /\ low = LowIdle
    /\ mon = MonIdle
    /\ socket = [s \in Streams |-> NoFd]
    /\ status = {}
    /\ encstatus = {}
    /\ late = Streams
    /\ connected = TRUE
    /\ faults = 0
    /\ missed = {}
    /\ remade = {}

Open(f) == f \in Fds /\ owner[f] # Nobody

\* close_socket: whoever opened it, the descriptor is free again.
Close(f) ==
    /\ owner' = IF f \in Fds THEN [owner EXCEPT ![f] = Nobody] ELSE owner
    /\ alive' = alive \ {f}

\* Fault: the messages of a full queue are kept.
PutAlways(q, s, kind) == Append(q, [s |-> s, kind |-> kind])

\* r_msg_send with IPC_NOWAIT: a full queue drops the message.
Put(q, s, kind) == IF Len(q) < QueCap THEN Append(q, [s |-> s, kind |-> kind]) ELSE q

Send(s, kind) == que' = Put(que, s, kind)

Fault == faults < MaxFault /\ faults' = faults + 1

-----------------------------------------------------------------------------
(* The receive thread of a stream (room_receive_deal).                     *)

Goto(s, pc) == rt' = [rt EXCEPT ![s].pc = pc]

\* goto EXIT with a return code; whether the login was sent matters no more.
Exit(s, rc) == rt' = [rt EXCEPT ![s].pc = "exit", ![s].rc = rc, ![s].sent = FALSE]

\* receive_connect_server: the kernel hands out the lowest free descriptor.
Connect(s) ==
    /\ rt[s].pc = "top" /\ s \in up
    /\ \E f \in Fds :
        /\ owner[f] = Nobody
        /\ \A g \in Fds : owner[g] = Nobody => f <= g
        /\ owner' = [owner EXCEPT ![f] = s]
        /\ alive' = alive \cup {f}
        /\ sockfd' = [sockfd EXCEPT ![s] = f]
    /\ rt' = [rt EXCEPT ![s].pc = "loop", ![s].login = FALSE, ![s].sent = FALSE]
    /\ remade' = IF mon = [pc |-> "forget", s |-> s] THEN remade \cup {s} ELSE remade
    /\ UNCHANGED <<up, que, low, mon, control, faults, missed>>

\* The encoder does not accept, or there is no descriptor.
ConnectFails(s) ==
    /\ rt[s].pc = "top"
    /\ s \notin up \/ \A f \in Fds : owner[f] # Nobody
    /\ sockfd' = [sockfd EXCEPT ![s] = NoFd]
    /\ Exit(s, "connect_error")
    /\ UNCHANGED <<kernel, up, que, low, mon, control, faults, missed, remade>>

\* The login is sent once, over the descriptor the handle has by now.
SendLogin(s) ==
    /\ rt[s].pc = "loop" /\ ~rt[s].sent
    /\ IF Open(sockfd[s]) THEN rt' = [rt EXCEPT ![s].sent = TRUE] ELSE Exit(s, "lose")
    /\ UNCHANGED <<kernel, up, sockfd, que, low, mon, control, faults, missed, remade>>

\* select or recv fails, or the handle has no descriptor any more.
LoseConnect(s) ==
    /\ rt[s].pc = "loop" /\ rt[s].sent
    /\ ~Open(sockfd[s]) \/ sockfd[s] \notin alive
    /\ Exit(s, "lose")
    /\ UNCHANGED <<kernel, up, sockfd, que, low, mon, control, faults, missed, remade>>

\* Data can be read for stream s.
Readable(s) ==
    /\ rt[s].pc = "loop" /\ rt[s].sent
    /\ Open(sockfd[s]) /\ sockfd[s] \in alive

\* receive_parse_stream: the encoder accepts the login; CONNECT is reported,
LoginOk(s) ==
    /\ Readable(s) /\ ~rt[s].login
    /\ Send(s, "connect")
    /\ rt' = [rt EXCEPT ![s].pc = "forward", ![s].login = TRUE]
    /\ missed' = IF que' = que THEN missed \cup {s} ELSE missed \ {s}
    /\ UNCHANGED <<kernel, up, sockfd, low, mon, control, faults, remade>>

\* and the answer itself is passed on.
ForwardMsg(s) ==
    /\ rt[s].pc = "forward"
    /\ Send(s, "login")
    /\ rt' = [rt EXCEPT ![s].pc = "loop", ![s].first = TRUE]
    /\ missed' = IF que' = que THEN missed ELSE missed \ {s}
    /\ UNCHANGED <<kernel, up, sockfd, low, mon, control, faults, remade>>

\* A heart beat is passed on.  Bound: only when the last one is old, and one of a
\* stream in the queue at a time; others change nothing.
Beat(s) ==
    /\ Readable(s) /\ rt[s].login /\ s \in late
    /\ \A i \in 1 .. Len(que) : que[i] # [s |-> s, kind |-> "beat"]
    /\ Send(s, "beat")
    /\ UNCHANGED <<kernel, up, sockfd, rt, low, mon, control, faults, missed, remade>>

\* The login is refused, or something arrives that cannot be handled.
Refused(s) ==
    /\ Readable(s)
    /\ Fault
    /\ Exit(s, "other")
    /\ UNCHANGED <<kernel, up, sockfd, que, low, mon, control, missed, remade>>

\* EXIT: the descriptor of the handle is closed
ExitClose(s) ==
    /\ rt[s].pc = "exit"
    /\ Close(sockfd[s])
    /\ Goto(s, "clear")
    /\ UNCHANGED <<up, sockfd, que, low, mon, control, faults, missed, remade>>

\* and cleared, both under the handle's mutex.
ExitClear(s) ==
    /\ rt[s].pc = "clear"
    /\ sockfd' = [sockfd EXCEPT ![s] = NoFd]
    /\ Goto(s, "report")
    /\ missed' = missed \ {s}
    /\ remade' = remade \ {s}
    /\ UNCHANGED <<kernel, up, que, low, mon, control, faults>>

\* The two places that report a loss with recv_report_xml(DISCONNECT): a
\* connection that had logged in, and, once, the first failure.
LossReported(s)  == rt[s].rc = "lose" /\ rt[s].login
FirstReported(s) == ~rt[s].first \/ (rt[s].rc = "connect_error" /\ ~rt[s].clog)

\* Fault: the thread gives up after a message it cannot handle.
AgainOrGone(s) ==
    rt' = [rt EXCEPT ![s] = [pc |-> IF @.rc = "other" THEN "exit" ELSE "top",
                             rc |-> @.rc, login |-> FALSE, sent |-> FALSE,
                             first |-> TRUE, clog |-> @.clog \/ FirstReported(s)]]

\* The thread state after the reports and the pause.
Again(s) ==
    rt' = [rt EXCEPT ![s] = [pc |-> "top", rc |-> "other", login |-> FALSE, sent |-> FALSE,
                             first |-> TRUE, clog |-> @.clog \/ FirstReported(s)]]

\* The loss is reported, unless the connection ended by a message that could
\* not be handled; after a pause the thread starts again.
Report(s) ==
    /\ rt[s].pc = "report"
    /\ LET q == IF LossReported(s) THEN Put(que, s, "disconnect") ELSE que IN
        que' = IF FirstReported(s) THEN Put(q, s, "disconnect") ELSE q
    /\ Again(s)
    /\ UNCHANGED <<kernel, up, sockfd, low, mon, control, faults, missed, remade>>

-----------------------------------------------------------------------------
(* The lower thread.                                                       *)

\* Status of an encoder: one of its streams has Status = 1.
EncStatusOf(e, st) == \E s \in st : EncOf[s] = e

\* lower_msg_status_req_deal, lower_msg_enc_login_deal and
\* lower_msg_enc_status_info_req_deal up to the copy of the descriptor.
Mark ==
    /\ low.pc = "idle" /\ que # <<>>
    /\ que' = Tail(que)
    /\ LET s == Head(que).s
           k == Head(que).kind IN
        /\ status' = CASE k \in {"connect", "login"} -> status \cup {s}
                       [] k = "disconnect"           -> status \ {s}
                       [] OTHER                      -> status
        /\ late' = IF k \in {"connect", "beat"} THEN late \ {s} ELSE late
        /\ encstatus' = IF k = "beat" THEN encstatus
                        ELSE IF EncStatusOf(EncOf[s], status') THEN encstatus \cup {EncOf[s]}
                        ELSE encstatus \ {EncOf[s]}
        /\ connected' = (connected \/ k # "beat")
        /\ low' = IF k = "beat" THEN LowIdle ELSE [pc |-> "copy", s |-> s]
        /\ remade' = IF k \in {"connect", "login"} /\ mon.s # s THEN remade \ {s} ELSE remade
    /\ UNCHANGED <<kernel, up, sockfd, rt, mon, socket, faults, missed>>

\* q_info->Socket = stream_hdl->sockfd
CopyFd ==
    /\ low.pc = "copy"
    /\ socket' = [socket EXCEPT ![low.s] = sockfd[low.s]]
    /\ low' = LowIdle
    /\ UNCHANGED <<kernel, up, sockfd, rt, que, mon, status, encstatus, late, connected,
                   faults, missed, remade>>

-----------------------------------------------------------------------------
(* The upper thread.                                                       *)

\* lower_msg_monitor_stream_status: the heart beat is late.
MonCheck(s) ==
    /\ mon.pc = "idle"
    /\ EncOf[s] \in encstatus /\ socket[s] # NoFd /\ s \in late
    /\ mon' = [pc |-> "close", s |-> s]
    /\ UNCHANGED <<kernel, up, sockfd, rt, que, low, control, faults, missed, remade>>

MonClose ==
    /\ mon.pc = "close"
    /\ Close(socket[mon.s])
    /\ mon' = [mon EXCEPT !.pc = "clear"]
    /\ UNCHANGED <<up, sockfd, rt, que, low, control, faults, missed, remade>>

\* Fault: the handle keeps the descriptor.
MonClearKeeps ==
    /\ mon.pc = "clear"
    /\ mon' = [mon EXCEPT !.pc = "forget"]
    /\ UNCHANGED <<kernel, up, sockfd, rt, que, low, control, faults, missed, remade>>

MonClear ==
    /\ mon.pc = "clear"
    /\ sockfd' = [sockfd EXCEPT ![mon.s] = NoFd]
    /\ mon' = [mon EXCEPT !.pc = "forget"]
    /\ UNCHANGED <<kernel, up, rt, que, low, control, faults, missed, remade>>

\* Fault: the monitor keeps the copy of the descriptor it has closed.
MonForgetKeeps ==
    /\ mon.pc = "forget"
    /\ status' = status \ {mon.s}
    /\ mon' = MonIdle
    /\ UNCHANGED <<kernel, up, sockfd, rt, que, low, socket, encstatus, late,
                   connected, faults, missed, remade>>

\* The copy is forgotten, also when it is of a connection made since the check.
MonForget ==
    /\ mon.pc = "forget"
    /\ socket' = [socket EXCEPT ![mon.s] = NoFd]
    /\ status' = status \ {mon.s}
    /\ mon' = MonIdle
    /\ UNCHANGED <<kernel, up, sockfd, rt, que, low, encstatus, late, connected,
                   faults, missed, remade>>

\* The room is told to connect or to disconnect: only the states are set.
ConnectRoom(opt) ==
    /\ mon.pc = "idle"
    /\ Fault
    /\ connected' = opt
    /\ encstatus' = IF ~opt THEN {} ELSE IF connected THEN encstatus ELSE Encs
    /\ UNCHANGED <<kernel, up, sockfd, rt, que, low, mon, socket, status, late, missed, remade>>

-----------------------------------------------------------------------------
(* Time and the encoders.                                                  *)

Live(s) == sockfd[s] \in Fds /\ owner[sockfd[s]] = s /\ sockfd[s] \in alive

\* Nothing about stream s is under way in the control threads.
Quiet(s) ==
    /\ \A i \in 1 .. Len(que) : que[i].s = s => que[i].kind = "beat"
    /\ low.s # s
    /\ mon.s # s

\* No heart beat comes from a stream without connection.  10 seconds are longer
\* than the receive thread takes to notice and the lower thread to be told ...
Silence(s) ==
    /\ s \notin late /\ ~Live(s) /\ ~rt[s].login /\ Quiet(s)
    /\ late' = late \cup {s}
    /\ UNCHANGED <<kernel, up, sockfd, rt, que, low, mon, socket, status, encstatus,
                   connected, faults, missed, remade>>

\* ... or a heart beat, or its handling, is late.
BeatLate(s) ==
    /\ s \notin late
    /\ Fault
    /\ late' = late \cup {s}
    /\ UNCHANGED <<kernel, up, sockfd, rt, que, low, mon, socket, status, encstatus,
                   connected, missed, remade>>

EncDown(s) ==
    /\ s \in up
    /\ Fault
    /\ up' = up \ {s}
    /\ alive' = {f \in alive : owner[f] # s}
    /\ UNCHANGED <<owner, sockfd, rt, que, low, mon, control, missed, remade>>

EncUp(s) ==
    /\ s \notin up
    /\ up' = up \cup {s}
    /\ UNCHANGED <<kernel, sockfd, rt, que, low, mon, control, faults, missed, remade>>

-----------------------------------------------------------------------------
ReceiveDeal(s) ==
    \/ Connect(s) \/ ConnectFails(s) \/ SendLogin(s) \/ LoseConnect(s)
    \/ LoginOk(s) \/ ForwardMsg(s) \/ ExitClose(s) \/ ExitClear(s) \/ Report(s)

Lower == Mark \/ CopyFd

Monitor == (\E s \in Streams : MonCheck(s)) \/ MonClose \/ MonClear \/ MonForget

Next ==
    \/ \E s \in Streams : ReceiveDeal(s) \/ Beat(s) \/ Refused(s)
    \/ Lower
    \/ Monitor
    \/ \E opt \in BOOLEAN : ConnectRoom(opt)
    \/ \E s \in Streams : Silence(s) \/ BeatLate(s) \/ EncDown(s) \/ EncUp(s)

Spec == Init /\ [][Next]_vars

\* The threads run, an encoder that is up answers a login, and without heart
\* beats time passes.  Nothing makes an encoder come up or stay up.
FairSpec ==
    /\ Spec
    /\ \A s \in Streams : WF_vars(ReceiveDeal(s)) /\ WF_vars(Silence(s)) /\ WF_vars(MonCheck(s))
    /\ WF_vars(Lower)
    /\ WF_vars(Monitor)

-----------------------------------------------------------------------------
Threads == [pc : {"top", "loop", "forward", "exit", "clear", "report"},
            rc : {"other", "lose", "connect_error"},
            login : BOOLEAN, sent : BOOLEAN, first : BOOLEAN, clog : BOOLEAN]

TypeOK ==
    /\ owner \in [Fds -> Streams \cup {Nobody}]
    /\ alive \subseteq Fds
    /\ up \subseteq Streams
    /\ sockfd \in [Streams -> Handles]
    /\ rt \in [Streams -> Threads]
    /\ que \in Seq([s : Streams, kind : ReportKinds]) /\ Len(que) <= QueCap
    /\ low \in [pc : {"idle", "copy"}, s : Streams \cup {None}]
    /\ mon \in [pc : {"idle", "close", "clear", "forget"}, s : Streams \cup {None}]
    /\ socket \in [Streams -> Handles]
    /\ status \subseteq Streams
    /\ encstatus \subseteq Encs
    /\ late \subseteq Streams
    /\ connected \in BOOLEAN
    /\ faults \in 0 .. MaxFault
    /\ missed \subseteq Streams /\ remade \subseteq Streams

(* Once the reports about a stream have been handled, the control threads  *)
(* hold the descriptor its receive thread reads from and know the stream   *)
(* is there: requests then reach the right encoder, in whatever order the  *)
(* connection was lost, closed by the heart beat monitor or made again     *)
(* before.  The ways out are a queue that was full when the login was      *)
(* reported, and a monitor that began to close the connection before and   *)
(* forgot the descriptor after the login (lower_msg_ctrl.c 691-702): a     *)
(* login is reported once.                                                 *)
Settled ==
    \A s \in Streams :
        rt[s].pc = "loop" /\ rt[s].login /\ sockfd[s] # NoFd /\ Quiet(s)
        /\ s \notin missed \cup remade
        => socket[s] = sockfd[s] /\ s \in status

Stale(s) == socket[s] # NoFd /\ socket[s] # sockfd[s]

(* A descriptor the receive thread has given up does not stay in use: by   *)
(* its report, by the next login or by the heart beat monitor it is        *)
(* replaced, unless the encoder counts as disconnected, which stops the    *)
(* monitor.                                                                *)
StaleGoes ==
    \A s \in Streams : Stale(s) ~> ~Stale(s) \/ EncOf[s] \notin encstatus

Known(s) == rt[s].login /\ Live(s) /\ socket[s] = sockfd[s] /\ s \in status

\* No descriptor is left: the monitor, which clears the handle without its mutex,
\* dropped newer descriptors than the one it had closed (lower_msg_ctrl.c 700).
Exhausted == \A f \in Fds : owner[f] # Nobody

(* A stream whose encoder stays up is connected, logged in and known to    *)
(* the control threads again and again, whatever was lost or closed before,*)
(* but for the two ways out of Settled and while there are descriptors.    *)
Reconnects ==
    \A s \in Streams :
        <>[](s \in up) => []<>(Known(s) \/ s \in missed \cup remade \/ Exhausted)
=============================================================================
