------------------------------ MODULE CourseRec ------------------------------
(***************************************************************************)
(* One recorder (room/rec/record.c, course_record_t).  A writer thread per *)
(* stream takes frames from the data queue, writes them to its file and    *)
(* reports the size; the course process handles the reports and, when a    *)
(* file reaches MAX_SPLIT_LEN, closes all writers, joins them and goes on  *)
(* with a new set of files.  Meanwhile the room's control thread pauses,   *)
(* resumes and closes through cr->mcr, without a lock.  Sets of writers    *)
(* are numbered as video_split_index numbers their files.                  *)
(*                                                                         *)
(* Left out: the recorder of pictures (jr), which is never split, and the  *)
(* lists of files and of blue screens.  That the room's two threads do not *)
(* control a recorder at the same time is RecordCtrl's subject.            *)
(***************************************************************************)
EXTENDS Naturals, Sequences

CONSTANTS
    N,          \* streams recorded, mindex_sum
    Limit,      \* frames at which a file is split, MAX_SPLIT_LEN
    MaxFile,    \* bound: sets of files
    DataCap,    \* frames the data queue holds
    QueCap,     \* reports the report queue holds
    MaxOps      \* bound: pauses, resumes, files that cannot be begun or written

ASSUME RecAssumption ==
    /\ N \in Nat \ {0} /\ Limit \in Nat \ {0} /\ MaxFile \in Nat \ {0}
    /\ DataCap \in Nat /\ QueCap \in Nat /\ MaxOps \in Nat

Indexes == 1 .. N
Files   == 1 .. MaxFile
States  == {"RESUME", "PAUSE", "CLOSE"}     \* record_status_t, 0 is RESUME

VARIABLES
    feed,       \* rec_status of the streams: frames go to the data queue
    data,       \* frames in the data queue, by stream
    wr,         \* the writers of each set: thread, rs and size of the file;
                \* "empty" is a thread that found no frame
    freed,      \* sets of writers that were unregistered
    mcr,        \* cr->mcr
    rs,         \* cr->rs
    que,        \* reports to the course process
    proc,       \* course process: pc, its own mcr, loop index
    flag,       \* split_flag
    last,       \* split_sindex
    overtime,   \* the room was told that the time is over
    print,      \* print thread
    pclose,     \* print_close
    ctl,        \* control thread: pc, mcr it loaded, loop index
    ops,        \* pauses, resumes and failures so far
    broken,     \* history: a set of writers was used after it was freed
    lapses,     \* history: what the code does not exclude, see Lapses
    dropped     \* history: a report was lost to a full queue

queues  == <<feed, data, que, dropped>>
writers == <<wr, freed, mcr, rs>>
course  == <<proc, flag, last, overtime>>
control == <<ctl, ops>>
courseVars == <<queues, writers, course, control, print, pclose, broken, lapses>>

NoThread == [pc |-> "none", rs |-> "RESUME", size |-> 0]
Running  == [pc |-> "run", rs |-> "RESUME", size |-> 0]
Freed    == [s \in Indexes |-> [pc |-> "over", rs |-> "CLOSE", size |-> 0]]
Idle     == [pc |-> "idle", f |-> 1, s |-> 1]

\* register_course_record_mode and course_record_start have returned.
CourseInit ==
    /\ feed = TRUE
    /\ data = [s \in Indexes |-> 0]
    /\ wr = [f \in Files |-> [s \in Indexes |-> IF f = 1 THEN Running ELSE NoThread]]
    /\ freed = {}
    /\ mcr = 1
    /\ rs = "RESUME"
    /\ que = <<>>
    /\ proc = [pc |-> "loop", f |-> 1, s |-> 1]
    /\ flag = TRUE
    /\ last = 0
    /\ overtime = FALSE
    /\ print = "wait"
    /\ pclose = FALSE
    /\ ctl = Idle
    /\ ops = 0
    /\ broken = FALSE /\ lapses = {} /\ dropped = FALSE

Busy(f) == \E s \in Indexes : wr[f][s].pc \in {"run", "empty"}

Drained == \A s \in Indexes : data[s] = 0

-----------------------------------------------------------------------------
(* The receive threads and the writers.                                    *)

\* A frame of a stream goes to the data queue.  Bound: not when it is full.
Frame(s) ==
    /\ feed /\ data[s] < DataCap
    /\ data' = [data EXCEPT ![s] = @ + 1]
    /\ UNCHANGED <<feed, que, dropped, writers, course, control, print, pclose, broken, lapses>>

\* Fault: the report queue has no end.
WriteFrameUnbounded(f, s) ==
    LET w == wr[f][s] IN
    /\ w.pc = "run" /\ data[s] > 0 /\ w.rs # "PAUSE"
    /\ w.size < (IF f < MaxFile THEN Limit + 1 ELSE Limit - 1)
    /\ data' = [data EXCEPT ![s] = @ - 1]
    /\ wr' = [wr EXCEPT ![f][s].size = @ + 1]
    /\ que' = Append(que, [f |-> f, s |-> s, size |-> w.size + 1])
    /\ UNCHANGED <<feed, dropped, freed, mcr, rs, course, control, print, pclose, broken, lapses>>

\* mp4_record_process: a frame is written and reported ...
WriteFrame(f, s) ==
    LET w == wr[f][s] IN
    /\ w.pc = "run" /\ data[s] > 0 /\ w.rs # "PAUSE"
    /\ w.size < (IF f < MaxFile THEN Limit + 1 ELSE Limit - 1)  \* bound
    /\ data' = [data EXCEPT ![s] = @ - 1]
    /\ wr' = [wr EXCEPT ![f][s].size = @ + 1]
    /\ IF Len(que) < QueCap
       THEN que' = Append(que, [f |-> f, s |-> s, size |-> w.size + 1]) /\ UNCHANGED dropped
       ELSE UNCHANGED que /\ dropped' = TRUE
    /\ UNCHANGED <<feed, freed, mcr, rs, course, control, print, pclose, broken, lapses>>

\* ... or released, while the writer is paused, waits for an I frame or the
\* file cannot be written.
SkipFrame(f, s) ==
    /\ wr[f][s].pc = "run" /\ data[s] > 0
    /\ data' = [data EXCEPT ![s] = @ - 1]
    /\ UNCHANGED <<feed, que, dropped, writers, course, control, print, pclose, broken, lapses>>

\* No stream can be added to a new file: the writer ends, and nobody takes the
\* frames of its stream any more.  Fault of the file system, bounded with ops.
GiveUp(f, s) ==
    /\ wr[f][s].pc = "run" /\ data[s] > 0 /\ wr[f][s].rs # "PAUSE" /\ wr[f][s].size = 0
    /\ ops < MaxOps /\ ops' = ops + 1
    /\ data' = [data EXCEPT ![s] = @ - 1]
    /\ wr' = [wr EXCEPT ![f][s].pc = "over"]
    /\ UNCHANGED <<feed, que, dropped, freed, mcr, rs, course, ctl, print, pclose, broken, lapses>>

\* Without a frame the writer waits a little,
NoFrame(f, s) ==
    /\ wr[f][s].pc = "run" /\ data[s] = 0
    /\ wr' = [wr EXCEPT ![f][s].pc = "empty"]
    /\ UNCHANGED <<queues, freed, mcr, rs, course, control, print, pclose, broken, lapses>>

\* then looks whether it is closed.
Look(f, s) ==
    /\ wr[f][s].pc = "empty"
    /\ wr' = [wr EXCEPT ![f][s].pc = IF wr[f][s].rs = "CLOSE" THEN "over" ELSE "run"]
    /\ UNCHANGED <<queues, freed, mcr, rs, course, control, print, pclose, broken, lapses>>

-----------------------------------------------------------------------------
(* The course process (course_record_process).                             *)

\* What the course process and the control thread do with the writers.
Pausing   == proc.pc \in {"pauseTest", "pauseSet"}
Splitting == proc.pc \in {"lock", "close", "join", "free", "register", "start"}
Stopping  == ctl.pc \in {"close", "join", "free"}
Using     == Stopping \/ ctl.pc \in {"pauseTest", "pauseSet", "resume"}

\* No lock keeps the two apart: they were at the writers together and one was
\* closing them; the course process began to use writers that course_record_stop
\* had freed; or cr->mcr was left at freed writers, as others could not be had.
Lapses == {"together", "stopped", "dangling"}

\* The course process turns to the writers, to pause or to split.
Lapse(split) ==
    lapses' = lapses \cup (IF (split /\ Using) \/ Stopping THEN {"together"} ELSE {})
                     \cup (IF mcr \in freed THEN {"stopped"} ELSE {})

\* The time is over: unless it is closed, the recorder is paused ...
Overtime ==
    /\ proc.pc = "loop" /\ ~overtime
    /\ proc' = [proc EXCEPT !.pc = IF rs # "CLOSE" THEN "pauseTest" ELSE "send", !.s = 1]
    /\ IF rs # "CLOSE" THEN Lapse(FALSE) ELSE UNCHANGED lapses
    /\ UNCHANGED <<queues, writers, flag, last, overtime, control, print, pclose, broken>>

OvertimePause ==
    /\ proc.pc \in {"pauseTest", "pauseSet"}
    /\ broken' = (broken \/ mcr \in freed)
    /\ LET set  == proc.pc = "pauseSet"
           todo == ~set /\ wr[mcr][proc.s].rs # "CLOSE"
       IN  /\ wr' = IF set THEN [wr EXCEPT ![mcr][proc.s].rs = "PAUSE"] ELSE wr
           /\ proc' = IF todo THEN [proc EXCEPT !.pc = "pauseSet"]
                      ELSE IF proc.s < N THEN [proc EXCEPT !.pc = "pauseTest", !.s = @ + 1]
                      ELSE [proc EXCEPT !.pc = "send", !.s = 1]
           /\ rs' = IF proc'.pc = "send" THEN "PAUSE" ELSE rs
    /\ UNCHANGED <<queues, freed, mcr, flag, last, overtime, control, print, pclose, lapses>>

\* ... and the room told, which fails when its queue is full.
OvertimeSend ==
    /\ proc.pc = "send"
    /\ overtime' \in BOOLEAN
    /\ proc' = [proc EXCEPT !.pc = "recv"]
    /\ UNCHANGED <<queues, writers, flag, last, control, print, pclose, broken, lapses>>

\* Fault: split_flag is not looked at.
TakeEager ==
    /\ proc.pc \in {"loop", "recv"} /\ que # <<>>
    /\ que' = Tail(que)
    /\ LET r == Head(que) IN
        /\ last' = IF r.size >= Limit THEN r.s ELSE last
        /\ proc' = IF r.size >= Limit THEN [proc EXCEPT !.pc = "lock", !.s = 1]
                                            ELSE [proc EXCEPT !.pc = "loop"]
    /\ IF proc'.pc = "lock" THEN Lapse(TRUE) ELSE UNCHANGED lapses
    /\ UNCHANGED <<feed, data, dropped, writers, flag, overtime, control, print, pclose, broken>>

\* A report: the file is full and this is not a report about the files before.
Take ==
    /\ proc.pc \in {"loop", "recv"} /\ que # <<>>
    /\ que' = Tail(que)
    /\ LET r == Head(que)
           armed == flag \/ (r.size < Limit /\ r.s = last)
           split == r.size >= Limit /\ armed
       IN  /\ flag' = armed
           /\ last' = IF split THEN r.s ELSE last
           /\ proc' = IF split THEN [proc EXCEPT !.pc = "lock", !.s = 1]
                               ELSE [proc EXCEPT !.pc = "loop"]
    /\ IF proc'.pc = "lock" THEN Lapse(TRUE) ELSE UNCHANGED lapses
    /\ UNCHANGED <<feed, data, dropped, writers, overtime, control, print, pclose, broken>>

\* pthread_mutex_lock(&print_mutex): the print thread holds it only in passing.
SplitLock ==
    /\ proc.pc = "lock"
    /\ proc' = [proc EXCEPT !.pc = "close"]
    /\ UNCHANGED <<queues, writers, flag, last, overtime, control, print, pclose, broken, lapses>>

\* mcr->record_close: CLOSE is set for one writer after the other
SplitClose ==
    /\ proc.pc = "close"
    /\ wr' = [wr EXCEPT ![proc.f][proc.s].rs = "CLOSE"]
    /\ proc' = [proc EXCEPT !.pc = "join"]
    /\ broken' = (broken \/ proc.f \in freed)
    /\ UNCHANGED <<queues, freed, mcr, rs, flag, last, overtime, control, print, pclose, lapses>>

\* and each is waited for.
SplitJoin ==
    /\ proc.pc = "join"
    /\ wr[proc.f][proc.s].pc = "over"
    /\ proc' = IF proc.s < N THEN [proc EXCEPT !.pc = "close", !.s = @ + 1]
                             ELSE [proc EXCEPT !.pc = "free", !.s = 1]
    /\ UNCHANGED <<queues, writers, flag, last, overtime, control, print, pclose, broken, lapses>>

\* unregister_mp4_course_record_mode
SplitFree ==
    /\ proc.pc = "free"
    /\ freed' = freed \cup {proc.f}
    /\ wr' = [wr EXCEPT ![proc.f] = Freed]
    /\ broken' = (broken \/ proc.f \in freed \/ Busy(proc.f))
    /\ proc' = [proc EXCEPT !.pc = "register"]
    /\ UNCHANGED <<queues, mcr, rs, flag, last, overtime, control, print, pclose, lapses>>

\* Fault: cr->mcr keeps pointing to the writers that were closed.
SplitRegisterLocal ==
    /\ proc.pc = "register" /\ proc.f < MaxFile
    /\ proc' = [proc EXCEPT !.pc = "start", !.f = @ + 1]
    /\ UNCHANGED <<queues, writers, flag, last, overtime, control, print, pclose, broken, lapses>>

\* register_mp4_course_record_mode, and cr->mcr is replaced.
SplitRegister ==
    /\ proc.pc = "register" /\ proc.f < MaxFile
    /\ proc' = [proc EXCEPT !.pc = "start", !.f = @ + 1]
    /\ mcr' = proc.f + 1
    /\ UNCHANGED <<queues, wr, freed, rs, flag, last, overtime, control, print, pclose, broken,
                   lapses>>

\* No new files can be had: the process ends, cr->mcr dangles.
SplitFails ==
    /\ proc.pc = "register" /\ ops < MaxOps
    /\ ops' = ops + 1
    /\ proc' = [proc EXCEPT !.pc = "over"]
    /\ lapses' = lapses \cup {"dangling"}
    /\ UNCHANGED <<queues, writers, flag, last, overtime, ctl, print, pclose, broken>>

\* mcr->record_start
SplitStart ==
    /\ proc.pc = "start"
    /\ wr' = [wr EXCEPT ![proc.f] = [s \in Indexes |-> [@[s] EXCEPT !.pc = "run"]]]
    /\ proc' = [proc EXCEPT !.pc = "loop"]
    /\ flag' = FALSE
    /\ UNCHANGED <<queues, freed, mcr, rs, last, overtime, control, print, pclose, broken, lapses>>

\* No report: the time is looked at again,
NoReport ==
    /\ proc.pc = "recv" /\ que = <<>> /\ rs # "CLOSE"
    /\ proc' = [proc EXCEPT !.pc = "loop"]
    /\ UNCHANGED <<queues, writers, flag, last, overtime, control, print, pclose, broken, lapses>>

\* or RECORD_CLOSE ends the process.
ProcEnds ==
    /\ proc.pc \in {"loop", "recv"} /\ que = <<>> /\ rs = "CLOSE"
    /\ proc' = [proc EXCEPT !.pc = "over"]
    /\ UNCHANGED <<queues, writers, flag, last, overtime, control, print, pclose, broken, lapses>>

-----------------------------------------------------------------------------
(* print_course_record_process                                             *)

\* print_close is looked at, then print_mutex is waited for.
PrintLock ==
    /\ print = "wait" /\ ~pclose
    /\ print' = "lock"
    /\ UNCHANGED <<queues, writers, course, control, pclose, broken, lapses>>

\* cr->mcr is read with print_mutex held.
PrintDone ==
    /\ print = "lock" /\ proc.pc \notin {"close", "join", "free", "register"}
    /\ print' = "wait"
    /\ broken' = (broken \/ mcr \in freed)
    /\ UNCHANGED <<queues, writers, course, control, pclose, lapses>>

PrintEnds ==
    /\ print = "wait" /\ pclose
    /\ print' = "over"
    /\ UNCHANGED <<queues, writers, course, control, pclose, broken, lapses>>

-----------------------------------------------------------------------------
(* The control thread.                                                     *)

Begin(pc) ==
    /\ ctl.pc = "idle"
    /\ ctl' = [pc |-> pc, f |-> mcr, s |-> 1]
    /\ lapses' = lapses \cup (IF pc # "drain" /\ Splitting THEN {"together"} ELSE {})

\* Frames are stopped, then course_record_pause.
Pause ==
    /\ Begin("pauseTest")
    /\ ops < MaxOps /\ ops' = ops + 1
    /\ feed' = FALSE
    /\ UNCHANGED <<data, que, dropped, writers, course, print, pclose, broken>>

\* After the last writer cr->rs is set.
StepOn(next, state) ==
    IF ctl.s < N
    THEN ctl' = [ctl EXCEPT !.pc = next, !.s = @ + 1] /\ UNCHANGED <<rs, feed>>
    ELSE /\ ctl' = Idle
         /\ rs' = state
         /\ feed' = (feed \/ state = "RESUME")

\* A writer that is being closed is not paused: tested,
PauseTest ==
    /\ ctl.pc = "pauseTest"
    /\ broken' = (broken \/ ctl.f \in freed)
    /\ IF wr[ctl.f][ctl.s].rs # "CLOSE"
       THEN ctl' = [ctl EXCEPT !.pc = "pauseSet"] /\ UNCHANGED <<rs, feed>>
       ELSE StepOn("pauseTest", "PAUSE")
    /\ UNCHANGED <<data, que, dropped, wr, freed, mcr, course, ops, print, pclose, lapses>>

\* then set.
PauseSet ==
    /\ ctl.pc = "pauseSet"
    /\ broken' = (broken \/ ctl.f \in freed)
    /\ wr' = [wr EXCEPT ![ctl.f][ctl.s].rs = "PAUSE"]
    /\ StepOn("pauseTest", "PAUSE")
    /\ UNCHANGED <<data, que, dropped, freed, mcr, course, ops, print, pclose, lapses>>

\* course_record_resume; then frames are sent again.
Resume ==
    /\ Begin("resume")
    /\ ops < MaxOps /\ ops' = ops + 1
    /\ UNCHANGED <<queues, writers, course, print, pclose, broken>>

ResumeSet ==
    /\ ctl.pc = "resume"
    /\ broken' = (broken \/ ctl.f \in freed)
    /\ wr' = [wr EXCEPT ![ctl.f][ctl.s].rs = "RESUME"]
    /\ StepOn("resume", "RESUME")
    /\ UNCHANGED <<data, que, dropped, freed, mcr, course, ops, print, pclose, lapses>>

\* Frames are stopped, then course_record_close.
CloseRecord ==
    /\ Begin("drain")
    /\ feed' = FALSE
    /\ UNCHANGED <<data, que, dropped, writers, course, ops, print, pclose, broken>>

\* The data queue has run empty.
CloseDrained ==
    /\ ctl.pc = "drain" /\ Drained
    /\ pclose' = TRUE
    /\ ctl' = [ctl EXCEPT !.pc = "printJoin"]
    /\ UNCHANGED <<queues, writers, course, ops, print, broken, lapses>>

ClosePrintJoined ==
    /\ ctl.pc = "printJoin" /\ print = "over"
    /\ ctl' = [ctl EXCEPT !.pc = "close", !.f = mcr]
    /\ lapses' = lapses \cup (IF Splitting \/ Pausing THEN {"together"} ELSE {})
    /\ UNCHANGED <<queues, writers, course, ops, print, pclose, broken>>

\* Fault: as a closed writer is not paused, a paused one is not closed.
CloseWriterRunning ==
    /\ ctl.pc = "close"
    /\ broken' = (broken \/ ctl.f \in freed \/ wr[ctl.f][ctl.s].pc = "none")
    /\ wr' = IF wr[ctl.f][ctl.s].rs = "PAUSE" THEN wr ELSE [wr EXCEPT ![ctl.f][ctl.s].rs = "CLOSE"]
    /\ ctl' = [ctl EXCEPT !.pc = "join"]
    /\ UNCHANGED <<queues, freed, mcr, rs, course, ops, print, pclose, lapses>>

\* course_record_stop
CloseWriter ==
    /\ ctl.pc = "close"
    /\ broken' = (broken \/ ctl.f \in freed \/ wr[ctl.f][ctl.s].pc = "none")
    /\ wr' = [wr EXCEPT ![ctl.f][ctl.s].rs = "CLOSE"]
    /\ ctl' = [ctl EXCEPT !.pc = "join"]
    /\ UNCHANGED <<queues, freed, mcr, rs, course, ops, print, pclose, lapses>>

CloseJoin ==
    /\ ctl.pc = "join" /\ wr[ctl.f][ctl.s].pc = "over"
    /\ ctl' = IF ctl.s < N THEN [ctl EXCEPT !.pc = "close", !.s = @ + 1]
                           ELSE [ctl EXCEPT !.pc = "free"]
    /\ UNCHANGED <<queues, writers, course, ops, print, pclose, broken, lapses>>

CloseFree ==
    /\ ctl.pc = "free"
    /\ freed' = freed \cup {ctl.f}
    /\ wr' = [wr EXCEPT ![ctl.f] = Freed]
    /\ broken' = (broken \/ ctl.f \in freed \/ Busy(ctl.f))
    /\ ctl' = [ctl EXCEPT !.pc = "stopped"]
    /\ UNCHANGED <<queues, mcr, rs, course, ops, print, pclose, lapses>>

\* Only then the course process is told.
CloseMark ==
    /\ ctl.pc = "stopped"
    /\ rs' = "CLOSE"
    /\ ctl' = [ctl EXCEPT !.pc = "procJoin"]
    /\ UNCHANGED <<queues, wr, freed, mcr, course, ops, print, pclose, broken, lapses>>

\* Fault: the process is not waited for.
CloseDoneEarly ==
    /\ ctl.pc = "procJoin"
    /\ ctl' = [ctl EXCEPT !.pc = "done"]
    /\ UNCHANGED <<queues, writers, course, ops, print, pclose, broken, lapses>>

CloseDone ==
    /\ ctl.pc = "procJoin" /\ proc.pc = "over"
    /\ ctl' = [ctl EXCEPT !.pc = "done"]
    /\ UNCHANGED <<queues, writers, course, ops, print, pclose, broken, lapses>>

-----------------------------------------------------------------------------
Writer(f, s) == WriteFrame(f, s) \/ SkipFrame(f, s) \/ NoFrame(f, s) \/ Look(f, s)

Process ==
    \/ OvertimePause \/ OvertimeSend
    \/ Take \/ SplitLock \/ SplitClose \/ SplitJoin \/ SplitFree \/ SplitRegister
    \/ SplitFails \/ SplitStart \/ NoReport \/ ProcEnds

PrintThread == PrintLock \/ PrintDone \/ PrintEnds

Operation ==
    \/ PauseTest \/ PauseSet \/ ResumeSet
    \/ CloseDrained \/ ClosePrintJoined \/ CloseWriter \/ CloseJoin \/ CloseFree
    \/ CloseMark \/ CloseDone

\* Once memory was used after it was freed nothing can be said any more.
CourseNext ==
    /\ ~broken
    /\ \/ \E s \in Indexes : Frame(s)
       \/ \E f \in Files, s \in Indexes : Writer(f, s) \/ GiveUp(f, s)
       \/ Process \/ Overtime
       \/ PrintThread
       \/ Pause \/ Resume \/ CloseRecord
       \/ Operation

CourseSpec == CourseInit /\ [][CourseNext]_courseVars

\* Every thread goes on; nothing makes the room pause, resume or close, or a
\* frame arrive.
CourseFairSpec ==
    /\ CourseSpec
    /\ \A f \in Files, s \in Indexes : WF_courseVars(~broken /\ Writer(f, s))
    /\ WF_courseVars(~broken /\ Process)
    /\ WF_courseVars(~broken /\ PrintThread)
    /\ WF_courseVars(~broken /\ Operation)

-----------------------------------------------------------------------------
(* Properties.                                                             *)

Thread == [pc : {"none", "run", "empty", "over"}, rs : States, size : 0 .. Limit + 1]
SizeReport == [f : Files, s : Indexes, size : 1 .. Limit + 1]
ProcPlace == [pc : {"loop", "pauseTest", "pauseSet", "send", "recv", "lock", "close", "join",
                    "free", "register", "start", "over"}, f : Files, s : Indexes]
CtlPlace == [pc : {"idle", "pauseTest", "pauseSet", "resume", "drain", "printJoin", "close",
                   "join", "free", "stopped", "procJoin", "done"}, f : Files, s : Indexes]

\* Every variable has the kind of value its C variable holds.
CourseTypeOK ==
    /\ feed \in BOOLEAN
    /\ data \in [Indexes -> 0 .. DataCap]
    /\ wr \in [Files -> [Indexes -> Thread]]
    /\ freed \subseteq Files
    /\ mcr \in Files
    /\ rs \in States
    /\ que \in Seq(SizeReport) /\ Len(que) <= QueCap
    /\ proc \in ProcPlace
    /\ flag \in BOOLEAN /\ overtime \in BOOLEAN
    /\ last \in 0 .. N
    /\ print \in {"wait", "lock", "over"}
    /\ pclose \in BOOLEAN
    /\ ctl \in CtlPlace
    /\ ops \in 0 .. MaxOps
    /\ broken \in BOOLEAN /\ lapses \subseteq Lapses /\ dropped \in BOOLEAN

\* No thread touches writers that were freed -- the course process after a
\* split, the print thread under print_mutex, the control thread through the
\* cr->mcr it loaded -- but after one of the three lapses: a split meets
\* course_record_pause, _resume or _stop, or an overtime pause _stop; a report
\* or the time-out is handled after _stop; new writers could not be had.
NoFreedUse == broken => lapses # {}

\* When course_record_close has returned no thread of the recorder runs on,
\* with the same exceptions: it joins the writers, the process and the print
\* thread, and no split has begun others behind its back.
NoOrphan ==
    ctl.pc = "done" /\ lapses = {} =>
        /\ proc.pc = "over" /\ print = "over"
        /\ \A f \in Files : ~Busy(f)

\* Files are split only for a report of the current set of files: reports of
\* the set before are still queued when the new one begins, and split_flag and
\* split_sindex keep them from splitting it at once.
SplitOnCurrent ==
    [][proc.pc # "lock" /\ proc'.pc = "lock" => Head(que).f = proc.f]_courseVars

\* Frames wait for a writer that gave up its file.
Stuck == \E s \in Indexes : data[s] > 0 /\ wr[mcr][s].pc = "over" /\ wr[mcr][s].rs # "CLOSE"

\* course_record_close returns: the queue is drained and every thread joined,
\* a split during the draining included, with the same exceptions and unless
\* the queue holds frames whose writer gave up (mp4_record_process).
CloseEnds == ctl.pc = "drain" ~> ctl.pc = "done" \/ lapses # {} \/ Stuck
=============================================================================
