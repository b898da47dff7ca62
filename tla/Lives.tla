------------------------------- MODULE Lives --------------------------------
(***************************************************************************)
(* Live forwarding of a classroom (room/lives/lives.c).  A table of viewers *)
(* is changed under a mutex by the upper thread, which carries out the      *)
(* platform's requests; the module's main thread takes frames from a System *)
(* V queue and sends each to the viewers who asked for it.  A request only  *)
(* marks an entry: the main thread clears it when an interruption message,  *)
(* sent through the same queue, tells it to.  The last JPEG is kept for     *)
(* viewers who come later.                                                  *)
(*                                                                         *)
(* A viewer stands for its addresses, which is how compare_user_info tells  *)
(* viewers apart.  Sound is handled as video is.  Time stamps, packets and  *)
(* the statistics of the log thread are left out, and so is the reset of    *)
(* all encoders at once, which no caller asks for.                         *)
(***************************************************************************)
EXTENDS Integers, FiniteSets, Sequences, Lookup

CONSTANTS
    Users,          \* viewers
    UserId,         \* user_id of a viewer; several viewers may have the same
    Streams,        \* streams of the room's encoders
    Types,          \* the types with which the encoder of a stream may log in
    Asks,           \* streams a viewer names in video_encode_index
    SameQuality,    \* viewers who ask for the quality the streams have
    MaxUser,        \* VIDEO_USER_MAX_NUM
    QueCap,         \* messages the queue holds
    MaxCross,       \* bound: logins and late frames of another type
    None

ASSUME LivesAssumption ==
    /\ MaxUser \in Nat \ {0} /\ QueCap \in Nat \ {0} /\ MaxCross \in Nat
    /\ IsFiniteSet(Users) /\ IsFiniteSet(Streams)
    /\ None \notin Users \cup Streams
    /\ DOMAIN UserId = Users
    /\ Types \in [Streams -> SUBSET {"H264", "JPEG"}]
    /\ Asks \in [Users -> SUBSET Streams] /\ SameQuality \subseteq Users

Slots == 1 .. MaxUser

VARIABLES
    slot,       \* user_info: vaild_flag, the viewer, video_jpeg_flag
    user_num,   \* user_num
    que,        \* the message queue
    etype,      \* enc_type of the streams, "none" for -1
    live,       \* streams whose live_status is START_LIVE
    mode,       \* mode_valid_flag
    cache,      \* jpeg_msgque: "none", "held", or "freed" while still marked valid
    main,       \* the main thread: where it is, its message, type, receivers
    bufs,       \* frame buffers allocated and not freed, counted until crossed
    told,       \* history: what a viewer has asked for and was answered
    crossed     \* history: times that frames met another type than their own

encs == <<etype, crossed>>
vars == <<slot, user_num, que, encs, live, mode, cache, main, bufs, told>>

Kinds == {"R_VIDEO", "R_JPEG"}
Interruption == [kind |-> "INTERRUPTION", stream |-> None]
Messages == [kind : Kinds, stream : Streams] \cup {Interruption}

Entries ==
    [flag : {"free", "on", "closing"}, who : Users \cup {None},
     jpeg : {"invalid", "no_send", "send"}, got : BOOLEAN]

\* init_lives_mode_info_ex
FreeEntry == [flag |-> "free", who |-> None, jpeg |-> "invalid", got |-> FALSE]

Places == {"test", "recv", "reset", "deal", "cached", "pkg", "get", "send",
           "drain", "done"}

TypeOK ==
    /\ slot \in [Slots -> Entries]
    /\ user_num \in 0 .. MaxUser
    /\ que \in Seq(Messages) /\ Len(que) <= QueCap
    /\ etype \in [Streams -> {"none", "H264", "JPEG"}]
    /\ live \subseteq Streams /\ mode \in BOOLEAN
    /\ cache \in {"none", "held", "freed"}
    /\ main \in [pc : Places, msg : Messages, type : {"none", "H264", "JPEG"},
                to : UNION {[S -> Users] : S \in SUBSET Slots}]
    /\ bufs \in Int
    /\ told \in [Users -> {"none", "on", "off"}]
    /\ crossed \in 0 .. MaxCross

Nobody == [i \in {} |-> None]
Idle == [pc |-> "test", msg |-> Interruption, type |-> "none", to |-> Nobody]

Init ==
    /\ slot = [i \in Slots |-> FreeEntry]
    /\ user_num = 0
    /\ que = <<>>
    /\ etype = [s \in Streams |-> "none"]
    /\ live = {} /\ mode = TRUE
    /\ cache = "none"
    /\ main = Idle
    /\ bufs = 0
    /\ told = [u \in Users |-> "none"]
    /\ crossed = 0

Occupied == {i \in Slots : slot[i].flag # "free"}
EntriesOf(u) == {i \in Slots : slot[i].who = u}
HasRoom == Len(que) < QueCap

\* A message that finds the queue full is dropped (IPC_NOWAIT).
Post(m) == que' = IF HasRoom THEN Append(que, m) ELSE que

-----------------------------------------------------------------------------
(* The requests of the upper thread, each under the mutex. *)

Unanswered(u) == [told EXCEPT ![u] = IF @ = "off" THEN @ ELSE "none"]

Enter(u) ==
    LET i == First(Slots \ Occupied) IN
        /\ slot' = [slot EXCEPT ![i] = [flag |-> "on", who |-> u,
                                        jpeg |-> "no_send", got |-> FALSE]]
        /\ user_num' = user_num + 1

\* The table is full, or no socket can be made for the viewer.
SetRefused(u) ==
    /\ user_num = MaxUser \/ EntriesOf(u) = {}
    /\ UNCHANGED <<slot, user_num, que, told>>

\* A viewer that has an entry is answered with success, also when the entry is
\* being cleared: then the answer promises more than is kept.
SetKnown(u) ==
    /\ user_num # MaxUser /\ EntriesOf(u) # {}
    /\ told' = [told EXCEPT ![u] =
                    IF slot[First(EntriesOf(u))].flag = "on" THEN "on" ELSE "none"]
    /\ UNCHANGED <<slot, user_num, que>>

SetNew(u) ==
    /\ user_num # MaxUser /\ EntriesOf(u) = {} /\ Occupied # Slots
    /\ Enter(u)
    /\ Post(Interruption)
    /\ told' = [told EXCEPT ![u] = IF HasRoom THEN "on" ELSE "none"]

set_lives_user_info(u) ==
    /\ mode
    /\ live' = live \cup (IF u \in SameQuality THEN Asks[u] ELSE {})
    /\ SetRefused(u) \/ SetKnown(u) \/ SetNew(u)
    /\ UNCHANGED <<encs, mode, cache, main, bufs>>

\* Mutant: the entry is cleared at once.
CloseAtOnce(S) ==
    /\ slot' = [i \in Slots |-> IF i \in S THEN FreeEntry ELSE slot[i]]
    /\ user_num' = user_num - Cardinality(S)

Close(S) ==
    /\ slot' = [i \in Slots |-> IF i \in S THEN [slot[i] EXCEPT !.flag = "closing"]
                                ELSE slot[i]]
    /\ UNCHANGED user_num

\* Mutant: the main thread is not told.
InterruptNot(S) == Close(S) /\ UNCHANGED que

\* The entries are marked and the main thread is told to look.
Interrupt(S) == Close(S) /\ Post(Interruption)

stop_lives_user_info(u) ==
    /\ mode
    /\ \/ /\ user_num = 0 \/ EntriesOf(u) = {}
          /\ told' = Unanswered(u)
          /\ UNCHANGED <<slot, user_num, que>>
       \/ /\ user_num # 0 /\ EntriesOf(u) # {}
          /\ Interrupt({First(EntriesOf(u))})
          /\ told' = IF HasRoom THEN [told EXCEPT ![u] = "off"] ELSE Unanswered(u)
    /\ UNCHANGED <<encs, live, mode, cache, main, bufs>>

\* The control says that a user has gone: the first entry with its id.
stop_lives_user_info_unusual(n) ==
    LET its == {i \in Occupied : user_num # 0 /\ UserId[slot[i].who] = n}
        stopped == IF its # {} /\ HasRoom THEN {slot[First(its)].who} ELSE {} IN
        /\ mode
        /\ IF its = {} THEN UNCHANGED <<slot, user_num, que>>
           ELSE Interrupt({First(its)})
        /\ told' = [u \in Users |->
                        CASE u \in stopped -> "off"
                          [] u \notin stopped /\ UserId[u] = n /\ told[u] = "on" -> "none"
                          [] OTHER -> told[u]]
        /\ UNCHANGED <<encs, live, mode, cache, main, bufs>>

\* The upper thread has connected to the control again.
stop_lives_user_all_unusual ==
    /\ mode
    /\ user_num # 0
    /\ Interrupt(Occupied)
    /\ told' = [u \in Users |->
                    IF EntriesOf(u) # {} /\ HasRoom THEN "off" ELSE Unanswered(u)[u]]
    /\ UNCHANGED <<encs, live, mode, cache, main, bufs>>

-----------------------------------------------------------------------------
(* The lower thread, the receive threads and the end of the room. *)

KindOf(t) == IF t = "JPEG" THEN "R_JPEG" ELSE "R_VIDEO"

\* The encoder of the frame has a type that does not go with it.
Misfit(m, types) ==
    types[m.stream] # "none" /\ m.kind # KindOf(types[m.stream])

Frames(q) == {k \in DOMAIN q : q[k] # Interruption}

\* Frames whose encoder's type the main thread has still to read.
InFlight ==
    {que[k] : k \in Frames(que)}
        \cup (IF main.pc \in {"deal", "cached", "pkg"} THEN {main.msg} ELSE {})

\* No login has given a stream another type while frames of the old one were on
\* their way.  send_video_data_pdg goes by the type its encoder has by then: such
\* a frame is marked as a picture and never freed, or freed though it is kept.
InKind == crossed = 0

Freed(n) == bufs' = IF InKind THEN bufs - n ELSE bufs

Cross(meets) ==
    /\ meets => crossed < MaxCross
    /\ crossed' = crossed + (IF meets THEN 1 ELSE 0)

\* A login gives the types of all encoders; the ones that are down have none.
\* Frames of the streams may be on their way.
set_lives_enc_info(s) ==
    /\ mode
    /\ \E t \in Types[s], down \in SUBSET (Streams \ {s}) :
          etype' = [o \in Streams |-> IF o = s THEN t
                                      ELSE IF o \in down THEN "none" ELSE etype[o]]
    /\ Cross(\E m \in InFlight : Misfit(m, etype'))
    /\ Post(Interruption)
    /\ UNCHANGED <<slot, user_num, live, mode, cache, main, bufs, told>>

\* A frame's kind is its own codec's; the thread of the connection before a login
\* may still pass one on.  The buffer is freed when the frame is dropped.
send_msg_to_live_media(s) ==
    /\ mode /\ s \in live /\ etype[s] # "none"
    /\ HasRoom
    /\ \E t \in Types[s] :
          LET m == [kind |-> KindOf(t), stream |-> s] IN
              Post(m) /\ Cross(Misfit(m, etype))
    /\ Freed(-1)
    /\ UNCHANGED <<slot, user_num, etype, live, mode, cache, main, told>>

\* The other threads have ended and the main thread is waited for.
unregister_room_lives_module ==
    /\ mode
    /\ mode' = FALSE
    /\ UNCHANGED <<slot, user_num, que, encs, live, cache, main, bufs, told>>

-----------------------------------------------------------------------------
(* The main thread, lives_mode_thread. *)

\* Mutant: the flag is not looked at.
LoopForever ==
    /\ main.pc = "test"
    /\ main' = [Idle EXCEPT !.pc = "recv"]
    /\ UNCHANGED <<slot, user_num, que, encs, live, mode, cache, bufs, told>>

Loop ==
    /\ main.pc = "test"
    /\ main' = [Idle EXCEPT !.pc = IF mode THEN "recv" ELSE "drain"]
    /\ UNCHANGED <<slot, user_num, que, encs, live, mode, cache, bufs, told>>

\* The thread waits for a message.
Recv ==
    /\ main.pc = "recv" /\ que # <<>>
    /\ main' = [main EXCEPT !.pc = IF Head(que) = Interruption THEN "reset" ELSE "deal",
                            !.msg = Head(que)]
    /\ que' = Tail(que)
    /\ UNCHANGED <<slot, user_num, encs, live, mode, cache, bufs, told>>

\* Mutant: all entries are cleared.
ClosingAll == Occupied

Closing == {i \in Slots : slot[i].flag = "closing"}

reset_live_mode_user ==
    /\ main.pc = "reset"
    /\ slot' = [i \in Slots |-> IF i \in Closing THEN FreeEntry ELSE slot[i]]
    /\ user_num' = user_num - Cardinality(Closing)
    /\ main' = Idle
    /\ UNCHANGED <<que, encs, live, mode, cache, bufs, told>>

Receivers(S) == [i \in S |-> slot[i].who]

\* The walk over the table does not pass a free entry.
get_send_userinfo_jpeg ==
    {i \in Occupied : /\ \A j \in 1 .. i : j \in Occupied
                      /\ slot[i].jpeg = "no_send"}

\* The JPEG that is kept goes to the viewers who have not had one.
deal_video_jpeg_data ==
    LET S == IF cache # "none" /\ \E s \in Streams : etype[s] = "JPEG"
             THEN get_send_userinfo_jpeg ELSE {} IN
        /\ main.pc = "deal"
        /\ main' = [main EXCEPT !.pc = IF S = {} THEN "pkg" ELSE "cached",
                                !.to = Receivers(S)]
        /\ UNCHANGED <<slot, user_num, que, encs, live, mode, cache, bufs, told>>

IsJpeg == main.msg.kind = "R_JPEG"

\* Flags of the entries are set through pointers taken with the receivers, got
\* when it is a picture that the viewer of the entry was sent.
MarkSent(picture) ==
    slot' = [i \in Slots |->
                IF i \in DOMAIN main.to
                THEN [slot[i] EXCEPT !.jpeg = "send",
                                     !.got = @ \/ (picture /\ slot[i].who = main.to[i])]
                ELSE slot[i]]

SendCached ==
    /\ main.pc = "cached"
    /\ MarkSent(cache = "held")
    /\ main' = [main EXCEPT !.pc = "pkg", !.to = Nobody]
    /\ UNCHANGED <<user_num, que, encs, live, mode, cache, bufs, told>>

\* A JPEG replaces the one that is kept; a frame nobody can get is freed.
local_media_data_pkg ==
    LET ends == user_num = 0 \/ etype[main.msg.stream] = "none" IN
        /\ main.pc = "pkg"
        /\ cache' = IF IsJpeg THEN "held" ELSE cache
        /\ Freed((IF IsJpeg /\ cache # "none" THEN 1 ELSE 0)
                 + (IF ends /\ ~IsJpeg THEN 1 ELSE 0))
        /\ main' = IF ends THEN Idle
                   ELSE [main EXCEPT !.pc = "get", !.type = etype[main.msg.stream]]
        /\ UNCHANGED <<slot, user_num, que, encs, live, mode, told>>

distinguish_send_flag(u) ==
    /\ main.type # "JPEG" => u \in SameQuality
    /\ main.msg.stream \in Asks[u]

\* Mutant: a frame without receivers is not freed.
get_send_userinfo_keeps ==
    LET S == {i \in Occupied : distinguish_send_flag(slot[i].who)} IN
        /\ main.pc = "get"
        /\ main' = IF S = {} THEN Idle ELSE [main EXCEPT !.pc = "send", !.to = Receivers(S)]
        /\ UNCHANGED <<slot, user_num, que, encs, live, mode, cache, bufs, told>>

get_send_userinfo ==
    LET S == {i \in Occupied : distinguish_send_flag(slot[i].who)} IN
        /\ main.pc = "get"
        /\ main' = IF S = {} THEN Idle ELSE [main EXCEPT !.pc = "send", !.to = Receivers(S)]
        /\ Freed(IF S = {} /\ ~IsJpeg THEN 1 ELSE 0)
        /\ UNCHANGED <<slot, user_num, que, encs, live, mode, cache, told>>

\* Mutant: a picture is freed as video is, although it is kept.
send_video_data_frees ==
    /\ main.pc = "send"
    /\ \/ main.type = "JPEG" /\ MarkSent(IsJpeg)
       \/ main.type # "JPEG" /\ UNCHANGED slot
    /\ Freed(1)
    /\ cache' = IF IsJpeg THEN "freed" ELSE cache
    /\ main' = Idle
    /\ UNCHANGED <<user_num, que, encs, live, mode, told>>

\* Whether the buffer is freed depends on the encoder's type, not on the frame.
send_video_data_pdg ==
    /\ main.pc = "send"
    /\ \/ /\ main.type = "JPEG"
          /\ MarkSent(IsJpeg)
          /\ UNCHANGED <<cache, bufs>>
       \/ /\ main.type # "JPEG"
          /\ Freed(1)
          /\ cache' = IF IsJpeg THEN "freed" ELSE cache
          /\ UNCHANGED slot
    /\ main' = Idle
    /\ UNCHANGED <<user_num, que, encs, live, mode, told>>

\* What is left in the queue is freed, and the JPEG that is kept.
Drain ==
    /\ main.pc = "drain"
    /\ que' = <<>>
    /\ cache' = "none"
    /\ Freed(Cardinality(Frames(que)) + (IF cache # "none" THEN 1 ELSE 0))
    /\ main' = [Idle EXCEPT !.pc = "done"]
    /\ UNCHANGED <<slot, user_num, encs, live, mode, told>>

MainNext ==
    \/ Loop \/ Recv \/ reset_live_mode_user
    \/ deal_video_jpeg_data \/ SendCached
    \/ local_media_data_pkg \/ get_send_userinfo \/ send_video_data_pdg
    \/ Drain

Next ==
    \/ \E u \in Users : set_lives_user_info(u) \/ stop_lives_user_info(u)
    \/ \E u \in Users : stop_lives_user_info_unusual(UserId[u])
    \/ stop_lives_user_all_unusual
    \/ \E s \in Streams : set_lives_enc_info(s) \/ send_msg_to_live_media(s)
    \/ unregister_room_lives_module
    \/ MainNext

Spec == Init /\ [][Next]_vars

\* The main thread is scheduled.
FairSpec == Spec /\ WF_vars(MainNext)

-----------------------------------------------------------------------------
(* Properties. *)

\* The number of viewers that set_lives_user_info compares with the limit is the
\* number of entries in use, though entries are taken by one thread and given
\* back by another.
Counted == user_num = Cardinality(Occupied)

\* While the main thread sends without the mutex, the entries it took its
\* receivers from are still theirs: no socket was closed and no entry given to
\* another viewer meanwhile.
SendsToOwner ==
    \A i \in DOMAIN main.to :
        slot[i].flag # "free" /\ slot[i].who = main.to[i]

\* A viewer whose entry says that it has had a JPEG was sent one since it entered,
\* though the mark follows the encoder's type and not the frame's: otherwise the
\* picture would not be sent to it until it changes.
JpegTrue == InKind => \A i \in Slots : slot[i].jpeg = "send" => slot[i].got

\* A viewer whose request was answered with success, and who was not being
\* stopped at that moment, is served until somebody asks for its end.
Kept ==
    \A u \in Users : told[u] = "on" => \E i \in EntriesOf(u) : slot[i].flag = "on"

Holding ==
    \/ main.pc \in {"deal", "cached", "pkg"}
    \/ main.pc \in {"get", "send"} /\ ~IsJpeg

\* Every frame buffer that is allocated is in the queue, in the hands of the main
\* thread or kept as the last JPEG: each is freed once, also when encoders change
\* their types between frames.
Owned ==
    InKind => bufs = Cardinality(Frames(que)) + (IF Holding THEN 1 ELSE 0)
                                              + (IF cache = "held" THEN 1 ELSE 0)

\* A viewer whose stop was answered with success is taken out of the table.
StopEnds ==
    \A u \in Users :
        told[u] = "off" ~> (told[u] # "off" \/ EntriesOf(u) = {} \/ ~mode)

\* With a message in the queue when the room ends, the main thread gets out of its
\* loop and frees what is left.
QuitEnds == (~mode /\ que # <<>>) ~> (main.pc = "done")

\* The JPEG that is marked valid is not freed: send_video_data_pdg frees by the
\* encoder's type, read when the frame was taken up, while deal_video_jpeg_data and
\* the next JPEG go by the mark.
CacheValid == InKind => cache # "freed"
=============================================================================
