# A verification project for the recording and broadcasting server

The repository is the server software of a lecture recording system: a
`control` process that media centre, tablets and live nodes connect to, one
`room` process per lecture room, and the encoders (cameras and screens) of that
room. This directory holds TLA+ models of the parts where threads, timers and
late messages meet, TLC configurations for small instances, and TLAPS proofs for
all instances. The repository has no prose documentation (its `Readme.txt` files
are empty): what the code intends is said in its comments, and section 5 lists
where the code departs from them.

All paths below are relative to `src/reach_edukit/src/`.

## 1. The system

| Component | State | Operations | Hard because |
|---|---|---|---|
| `control/timeout_process.c`: timeout queue | 20 slots, one mutex | add, find, delete, poll, clean up, wipe | one thread per connection; find and delete of a response are two critical sections; a full queue is wiped |
| `control/control.c`, `command_resolve.c`: connections and forwarding | user table, per-connection handler | accept, dispatch some hundred messages, forward, wait, answer | the handler of a client waits while the thread of a room's connection answers for it |
| `room/ctrl/upper_msg_ctrl.c`: upper thread | room info, record info, message time queue, masks | requests from control, sweep of the time queue, disk poll, connecting encoders | works on the same fields as the lower thread |
| `room/ctrl/lower_msg_ctrl.c`: lower thread | the same room structure | answers and reports of encoders, recorders and live users from one System V message queue; heart beat monitor | late, missing and failed answers |
| message time queue (`upper_msg_ctrl.c` 442-774) | 50 nodes, `msgQueMutex` | add, delete, sweep | wall-clock stamps, first-match search |
| recording control (both threads) | handles of two recorders, `opt_mutex_lock`, `record_mask`, `record_mask_sum` | START, PAUSE, STOP, encoder answers, timeout, full disk, end of recording time | a plain integer as lock, handles without a lock, timeout against late answers |
| other requests to the encoders (both threads) | one mask per class of request | pass on, gather answers, time out, answer | the masks are changed by both threads without a lock |
| `room/receive/receive_module.c`: connections to the encoders | a descriptor per stream, a copy of it in the control threads | connect, log in, lose, report, close | three threads with copies of one descriptor, a report that may be dropped |
| `room/receive/media_frame.c`: reception | frame buffer and clock of a stream | place a packet, hand a frame on, start over | connections lost within a frame, clocks that jump and wrap |
| `room/rec`: recorder | status, files, writer threads, two queues | start, pause, resume, split files, close, report | the course process frees what the control thread uses; a close waits for every thread |
| `room/lives`: live forwarding | table of viewers, queue of frames, the JPEG that is kept | enter, stop, send, keep, quit | sends without the mutex; frames are freed at several places |
| `room/ctrl/room_ctrl.c` | the two threads, the message queue | start, quit | pending requests at quit |
| `room/rtsp` | sessions | protocol text | |
| `control/ftpcom.c`, `ftp/` | files to upload, in memory and on the disk | request, upload, retry, report, reconnect, restart | two processes that die and reconnect on their own |
| `tools/daemon` | sums of samples per process | sample, start, judge, kill | a start is not visible at once; slots outlive their processes |
| `control/params.c`, `mount.c`, `web/`, `hd_card.c` | configuration, mounts | read and write | pure I/O |
| `netctrl`, `sericalctrl`, `backfs`, `mp4repair`, `reach_share`, `enc`, `cgi` | device protocols, helpers, the encoders' own firmware | | outside the server's control logic |

How they interact: a client's request reaches its connection's thread in
control, which enters a node in the timeout queue, forwards the request to the
room and polls. The room's upper thread handles it or passes it on to the
encoders and enters a node in the message time queue. The encoders' answers
reach the lower thread, which answers control when they are complete and deletes
the node; if they do not come, the upper thread's sweep answers instead. Control
finds the waiting node, deletes it and forwards the answer to the client.

A room's receive threads connect to the encoders, report logins and losses to the
lower thread over a message queue, put packets together to frames and send these
to the recorder's and the live module's queues. The recorder writes files and
tells control, which asks the ftp process to upload them. The daemon watches the
processes.

What makes each part correct:

- timeout queue: a node belongs to a handler that still runs, a handler always
  returns, an insertion never finds the queue full, a request that lost its node
  has been answered;
- message time queue: a request is kept once, released once, never too early and
  in the end always;
- recording control: encoders locked only while something records or is about
  to, no recording on a full disk, a lock that recovers;
- other requests: a request is answered or waits in the time queue, and is not
  answered twice;
- connections: the control threads end up with the descriptor the receive thread
  uses, and an encoder that stays up is known again;
- reception: frames are whole and decodable, their clock does not go back;
- recorder: no thread uses freed writers or is left behind, a close returns;
- live forwarding: a viewer who was told so is served, a frame is freed once;
- upload: an accepted file arrives, and what is said of it is true;
- daemon: one copy of each process, nobody killed for another's load.

`PROJECT.json` lists every component with its status, every hazard with its line,
and the source lines of every definition.

## 2. The modules

| Module | Models | Run | Proved in |
|---|---|---|---|
| `Lookup` | the first-match search all tables use | with the modules below | `Lookup_proofs` |
| `TimeoutQue` | timeout queue, client handlers, response paths | `timeout_que`, `timeout_que_silent` | `TimeoutQue_proofs` |
| `PendingReq` | abstract: what a message time queue promises | with `MsgTimeQue` | `MsgTimeQue_proofs` |
| `MsgTimeQue` | message time queue and wall clock | `msg_time_que` | `MsgTimeQue_proofs` |
| `RecordCtrl` | recording control of one room, both threads | `record_ctrl` | `RecordCtrl_proofs` |
| `RespGather` | all other requests that are passed on to encoders, both threads | `resp_gather` | `RespGather_proofs` |
| `EncLink` | receive thread, lower thread and heart beat monitor over a stream's descriptor | `enc_link` | `Reception_proofs` |
| `CourseRec` | control thread, course process, print thread and writers of a recording | `course_rec` | `RecordCtrl_proofs` |
| `FrameTime` | the clock of a stream's frames | with `Reception` | `Reception_proofs` |
| `FrameAsm` | the frame buffer of a stream | with `Reception` | `Reception_proofs` |
| `Reception` | composes the two, and decides which frames are passed on | `reception` | `Reception_proofs` |
| `Lives` | viewers, queue and main thread of live forwarding | `lives` | `Lives_proofs` |
| `Upload` | control's and the ftp process's threads, the list of files | `upload`, `upload_live` | `Upload_proofs` |
| `Daemon` | main and deal task of the daemon for one guarded process | `daemon` | `Upload_proofs` |

`MC` modules give the constants values. Operators whose comment begins with *Fault:*
or *Mutant:* are wrong variants of a definition that follows. Nothing uses them; they
are put in its place to see that a property notices. Components that belong together
share a module of proofs: the two of a recording (`RecordCtrl_proofs`), the connection
to an encoder and the stream on it (`Reception_proofs`), and the two programs next to
the room, the upload and the watchdog (`Upload_proofs`).

### TimeoutQue

`slot` is the queue; a node is the record of the request it stands for, `None` a
slot with `enable = 0`. A client thread (`pc`, `req`, `idx`, `left`) is idle,
forwards, waits or refuses. Each operation under `mutex_m` is one action. A
response is three (`RespFind`, `RespDelete`, `RespForward`) because the slot
index is carried from one critical section to the next, and so are a failed
insertion and the wipe it triggers (`AddUser`, `Wipe`). Two handlers stand for
all: those that follow `set_room_info_req_process` and those that follow
`rec_control_process`, which waits even after a failed send and is silent without
a slot (`msgcode = RecordControl`). Rooms answer late, twice or never.

Left out: `usercnt` and `ipaddr` (never read for a decision), message texts, the
message-specific work of the handlers.

### MsgTimeQue and PendingReq

Every operation holds `msgQueMutex` throughout, so each is one action, the sweep
included. A node's stamp matters only by its distance from now, so the state is
each node's `age`: the wall clock may be set back, after which an age is negative,
or forward, after which it is more than the node has waited. History are the
seconds `real` a node has really waited and those the clock `skipped` meanwhile.
`SameMsgCode` and `DelIndex` keep the code's
rule that the first candidate decides, also for live nodes, where it may be
another user's. `PendingReq` states what the rest of the room relies on without
slots, stamps or searches: a request is admitted when it is not outstanding, and
leaves by an answer or by a timeout that is due, the seconds counted that the
clock skipped. `KeepsPending` maps each platform and message code to the waiting
time of its node.

### RecordCtrl

Two threads with a program counter each. A step is a stretch of a handler that
the other thread's steps may fall between; loads and stores of
`opt_mutex_lock` and of the mask and counter are steps of their own, since in C
they are unsynchronised read-modify-writes. The two encoder passes of
`upper_msg_send_record_msg_to_enc` are `Clear`, `CountLoad`, `CountStore` and
`Send`. When a node is due, and whether the queue has room for it, is `MsgTimeQue`'s
matter: here `TimeOut` may happen at any time, and `AddNode` may drop the node. `QualityAnswer` and `Relock` are the second place that locks encoders:
the lower thread, having seen a recorder, locks one again that took a new quality.
`locked` (encoders last told to lock) and `reported` (recorders that reported)
describe the peers; `owed`, `overtaken`, `late` (encoders locked again for a
recorder that was closed meanwhile) and `again` (recorders started over others)
are history. A recorder whose handle was overwritten is in `leaked`: it records on,
and the properties count it.

Abstractions: opening or closing one recorder is one step; pausing, resuming and
`record_stream_mask` are left to the recorder; all streams in `Streams` have a
connected socket; requests carry a known pass key; allocation does not fail;
mask and counter of a platform are read together and written together; the sweep
takes one node at a time. The unsigned `record_mask_sum` is an integer here: it
is only compared with 0, and to wrap round to 0 it would need 2^32 answers.

### RespGather

Requests to the encoders come in five classes, by what the lower thread does with
an answer: it answers upwards when the last bit is cleared, the same although the
upper thread has answered already, it relays every answer, it relays the one
there is, or it refreshes the room's own copy. `Codes` has members of each.
The upper thread's loop over the encoders is a step per encoder, and a change of a
mask is a load and a store, in both threads. Streams connect and disconnect at
any time, answers come in any order, fail or stay away. The nodes of the time
queue are a set here; `MsgTimeQue` says how it is kept. It has room for 50 nodes of
all kinds of messages, so a request may find it full at any time: `dropped`.

### EncLink

One connection is known three times: by the receive thread that made it, in the
room structure that the control threads send on, and in the queue of reports
between them. Descriptor numbers are reused as the kernel does, lowest
first. The receive thread connects, logs in, receives, gives up and retries; its
reports are dropped when the queue is full; the lower thread takes them; the
monitor closes and forgets in steps of its own, because it does not hold the
handle's mutex; the receive thread may connect between any two of them. `missed`
remembers that the newest login's report was dropped, `remade` that a connection was
made between the monitor's clearing of the handle and its forgetting of the stream.

### CourseRec

A recording has a writer thread per stream that takes frames from the data queue,
counts them and reports a full file (`DataCap`: frames of one stream that wait there);
the course process, which takes the reports and splits the files (closes, joins and
frees the writers, then registers new ones); the print thread; and the control thread
that starts, pauses, resumes and closes. A writer may give up its file (`GiveUp`),
after which nobody takes its frames. Nothing in the code keeps control thread and
course process apart at the writers; `lapses` remembers by kind that they met, and
section 5 describes each. One control thread; thread creation does not fail;
pictures' recorder and lists of files are left out.

### FrameTime, FrameAsm, Reception

`FrameTime` is the arithmetic on a track's clock: words modulo `M` as `uint32_t`,
a first time, a jump, a wrap, a lost connection. Ticks are compared as a receiver
of time stamps does, by the sign of their difference (`Before`). `FrameAsm` is the buffer a
frame's packets are copied to, byte positions counted in units, with each
position's origin as ghost data so that a mixture shows. `Reception` lets one
packet be a step of both, adds the kind of each frame, and the flag that holds
frames back until a key frame has come. After a lost connection everything is in
whatever state it was.

### Lives

The upper thread's requests change the table under the mutex; the main thread
takes messages from the queue, looks up receivers under the mutex, sends without
it, and frees the frame at the return the code takes. The queue drops what it has
no room for. The buffer of each frame is tracked from the moment the receive
module sends it until it is freed or kept as the last JPEG. Left out: time
stamps, RTP packets, the log thread, the reset of all encoders at once. An encoder
may log in with another type than before. The main thread frees by the encoder's
type, read when a frame is taken up, so frames of the old type are at risk while they
are on their way: `crossed` counts how often that came about, by a login or by a
frame the old connection still passed on. While it is 0 (`InKind`) buffers are
counted, through changes of type that no frame was caught by.

### Upload

Control's connection task and the ftp process's serve and deal tasks, with the
sockets between them. The list of files exists as the tree in memory and as
`UploadConfig.xml`; saving may fail or be torn by a crash. A pass of the deal
task walks the list while requests are added; every upload and every save may
fail; either end may close the connection; the ftp process may crash at any step
and is restarted. Each failure counts, up to `MaxFault`, so `MaxFault + 1`
connections are enough. Left out: the transfer itself, md5 files, user name and
password (a message of its own), the report to the platform over HTTP, damaged
nodes of the list, a crash of control.

### Daemon

One guarded process name with up to `MaxSame` slots. The main task samples; the deal
task starts a missing process, and judges and kills by the average load of a window.
A look at `/proc` may fail: `FindPidByName` then misses some of what runs, or all of
it; `MaxMiss` bounds how often. `blind` remembers that the last look did, `twice` that
a process was started on its word. Processes are listed in the order of their
numbers, which only grow here: reuse and wrapping round are left out. A started
process is visible within `Gap` samples; the deal task sleeps longer than that after
a start. The judgement by memory, which uses sums of the same form, is left out.

## 3. The runs

| Run | Shows | States |
|---|---|---|
| `timeout_que` | two clients and one slot: the queue is wiped while others wait. `SlotOwned`: no node outlives its handler. `HandlerReturns`: every handler returns | 192 thousand |
| `timeout_que_silent` | violation of `MissingMeansAnswered`: a node is missing although its client was not answered | |
| `msg_time_que` | `NoDuplicateNode`; `NeverEarly`: no node is given up earlier than the seconds the clock skipped explain; `KeepsPending`: the queue implements `PendingReq`; `EveryNodeLeaves`. The clock is set back and forward | 81 thousand |
| `record_ctrl` | `NoLockLeft`: no encoder stays locked once nothing records, nothing is owed and both threads are idle, however the recording ended; `LockBounded`: the lock drifts, at most to -2 and 3; `LowDiskStops`: a recording, overwritten ones included, does not go on while the disk stays full | 1.2 million |
| `resp_gather` | `NodeOrAnswered`: a request that is not answered has a node that will time out, or is being handled; `DirectAnsweredOnce`: requests the upper thread answers at once are not answered again by the lower thread | 4.7 million |
| `enc_link` | `Settled`: with no report under way the control threads have the receive thread's descriptor; `StaleGoes`: a given-up descriptor does not stay in use; `Reconnects` | 829 thousand |
| `course_rec` | `NoFreedUse`, `NoOrphan`: no thread uses freed writers or is left running; `SplitOnCurrent`: a report of old files never splits the new ones; `CloseEnds`: a close returns although files are split while it waits | 678 thousand |
| `reception` | `WholeFrames`: a lost connection costs one frame and spoils none; `Decodable`: nothing is passed on that needs a key frame which did not come; `NeverBack`: the clock of the frames does not go back when the encoder's does | 324 thousand |
| `upload` | `NotForgotten`: an accepted file stays listed through crashes; `ListAgrees`: control's list of failures agrees with the last report; `ReportTrue`: the named server has the file; `ReportsToOpen`: the socket reported to is open | 3.3 million |
| `upload_live` | `Arrives`: an accepted file arrives or is deleted; `Linked`: the processes find each other again | 134 thousand |
| `daemon` | `OneCopy`: a process that runs is not started again; `NeverKillsZero`; `KillsGuilty`: nobody is killed for another's load; `Guarded`: one runs again and again | 567 thousand |
| `lives` | `SendsToOwner`: entries are not given away under a send; `Kept`: a viewer told so is served; `Owned`, `CacheValid`: each frame is freed once and not while it is kept, with a stream that changes its type; `StopEnds`; `QuitEnds` | 843 thousand |

All invariants of the passing runs, their two action properties (`NeverBack`,
`SplitOnCurrent`) and the refinement `KeepsPending` are proved as well (section 4),
under no hypothesis but the assumptions on the constants. Three runs list their type
invariant, because queues at their limits are part of it. Deadlock is checked in the
runs whose system goes on for ever, and not where requests or failures are used up or
a module ends.

### Exceptions the properties name

Each is a history variable or a condition that stands for a behaviour of the code
under which the property fails; TLC finds it when the exception is left out. Only
`NoOrphan` holds in the run without its exception too, because the model stops at
the first use of freed memory; its proof needs it. Section 5 describes every
exception under the name given here.

| Property | Holds but for |
|---|---|
| `NeverEarly`, `KeepsPending` | `skipped`: the seconds the clock was set forward count as waited |
| `NoLockLeft` | `overtaken`: a START that passes for answered with an earlier one; `late`: encoders locked again for a recorder that was closed meanwhile |
| `LowDiskStops` | `again`, if only recorders without a handle are left |
| `NodeOrAnswered` | `overtaken`, `dropped`, and a synthesis no encoder received |
| `Settled`, `Reconnects` | `missed`, `remade`; `Reconnects` also while no descriptor is left (`Exhausted`) |
| `StaleGoes` | an encoder that counts as disconnected |
| `NoFreedUse`, `NoOrphan`, `CloseEnds` | `lapses`: `together`, `stopped`, `dangling`; `CloseEnds` also `Stuck` |
| `NeverBack` | `Leap`: one of the clocks jumped by half its range |
| `NotForgotten`, `Arrives` | `torn`; `ReportTrue`: `moved`; `ListAgrees`: `lost` |
| `OneCopy`, `KillsGuilty` | `twice`: a process was started on the word of a failing look |
| `Owned`, `CacheValid`, `JpegTrue` | not `InKind`: a frame met another type than its own |
| `QuitEnds` | an empty queue; `StopEnds` speaks of a module that runs |

### Bounds

- `timeout_que`: two clients against one slot is the smallest at which the queue
  overflows and slots change owners. `MaxPoll` 2: timeouts race answers from the
  first poll on. `MaxInRoom` 2: one answer per client on its way.
- `msg_time_que`: `QueNum` 2 with up to twelve possible nodes: the queue is full,
  has duplicates to refuse, and the first candidate is another user's. Limits 0, 1
  and 2 seconds keep the three kinds of messages apart; `MaxSetBack` 1 makes
  stamps lie in the future, `MaxSetForward` 1 takes a node over its limit early.
- `record_ctrl`: `MaxReq` 2, a request that meets the effects of an earlier one;
  `MaxReport` 1, one report in the queue while the second recorder's waits. One
  platform and one stream; the proofs cover any number.
- `resp_gather`: two streams, so that an answer is one of several, and two
  requests, so that one meets the mask of another, of the same or another class.
  Streams are symmetric.
- `enc_link`: one stream, and three descriptors so that a number is reused while a
  stale copy is around; two failures, each a loss, a refusal, an unreadable
  message or a silence, so that a connection is lost while the monitor still works
  on the one before; a queue of two, which the two reports of a login fill.
- `course_rec`: two streams, so that one writer reports while another writes;
  `Limit` 1 and `MaxFile` 2, so that the first frame splits the files; `QueCap` 1,
  so that reports are dropped too, and the second writer's is still queued
  when the new files begin; `MaxOps` 1, a pause, a resumption, a failure to
  begin new files or a writer that gives up its file.
- `reception`: words of five values wrap every few frames, with steps of up to two
  that are no leap; frames of up to three packets have a first, a middle and a last one. The proofs cover all sizes.
- `upload`: two files for two servers, so that a request changes the server
  during another file's upload and adds to the list during a pass; one failure.
  `upload_live`: one file, and two failures, the second while the first is
  being repaired. Both have room for one report, which the next has to wait for.
- `daemon`: four processes started, up to two slots, windows of three samples, loads
  under and over the limit, and one look that fails: a second copy is started, the
  first dies, and the second takes over its slot.
- `lives`: two viewers for two entries, one of them in a quality the video of the
  stream does not have; a stream whose encoder logs in as either type; a queue of two;
  `MaxCross` 1. A stream that is down at the login of another is in the proofs only.

Symmetry is used in `resp_gather` only, whose properties are invariants.

### Fairness

- `TimeoutQue`: a thread inside a handler is scheduled; nobody has to connect,
  ask or answer.
- `MsgTimeQue`: the upper thread sweeps on every turn of its select loop (a
  timeout bounds each turn), and time passes.
- `RecordCtrl`: both threads run, which includes that the lower thread takes a
  waiting report from its queue; the disk is polled every 30 seconds; a waiting
  node is swept at some time. Encoders need not answer.
- `EncLink`: receive thread, lower thread and monitor run, and a connection on
  which nothing comes is seen as silent after its time (`Silence`).
- `CourseRec`: writers, process, print thread, and the control operation under
  way, as long as nothing freed was used. Nobody has to ask for anything.
- `Upload`: the three tasks and the timer run, a crashed process is restarted (by
  the daemon); strong fairness for two actions: posting to the blocking queue,
  and a file's upload succeeding, since retries go on for ever and failures of
  the network do not.
- `Daemon`: both tasks run and a started process appears.
- `Lives`: the main thread runs. `RespGather`, `Reception`: safety only; that a
  request in a node is answered in the end is `EveryNodeLeaves` of `MsgTimeQue`.

## 4. The proofs

TLAPS checks them for every value of the constants, from the assumptions named in
the modules, which only say that sizes and times are natural numbers (positive
where the code needs it), that a room has finitely many streams and at least one,
and that special values are not ordinary ones.

- `Lookup_proofs`: `First` of a nonempty set of naturals is its least member.
- `TimeoutQue_proofs`: `TypeCorrect`, `NodesAreOwned`, `QueueNeverOverflows`.
  `SlotOwned` is not inductive: a response holds a slot index across a gap, so
  the deletion might hit any node. The invariant adds which index each
  program counter holds; a node then has exactly one owner, whatever is deleted.
  That the queue never overflows is a counting argument: nodes map injectively to
  clients, and the inserting client has none, so a full queue needs more clients
  than slots.
- `MsgTimeQue_proofs`: `TypeCorrect`, `NodesAreUnique`, `NoEarlyTimeout`,
  `Refinement`. The invariant adds `AgeBounded`: a node looks older than it is by no
  more than the clock skipped while it waited, which is what re-stamping a node from
  the future preserves. For the
  refinement, uniqueness makes the waiting time of a request a function of its
  only node, and each action maps to an action of `PendingReq` or to a stutter.

- `RecordCtrl_proofs`: `TypeCorrect`, `LockIsBounded`, `EncodersAreUnlocked`. The
  invariant has three parts next to the types. `Returns` says where a thread goes
  on after closing or starting recorders. `LockValues` is a table: by the phases
  of the two threads (out, about to load, about to store, inside, about to store
  back) the values the lock and the loaded copies may have; each of the five
  moves of a thread is a lemma on the table alone, and all other actions are
  quiet. `LockReason` says why encoders are locked: something records, a START is
  owed, a thread is on its way to unlock them, or they were locked again too late. It
  also has to say that a
  thread which started a recorder leaves one behind (or somebody who unlocks) when
  the START it works for counts as answered, because the other thread may have
  closed that recorder meanwhile.
- `RecordCtrl_proofs`, for `CourseRec`: `CourseTypeCorrect`, `NoUseAfterFree`,
  `NoneLeftBehind` and the action property `SplitsForCurrent`, for any number of
  streams and files, any limit and any sizes of the queues. The invariant `CourseInv`
  has four parts. `Sets`: of the sets of writers, the ones before the current one are
  over and the later ones have not begun, and how far a split has got with the current
  one. `Reports`: queued reports are in the order of the sets, and those of one file
  in the order of its growth, none larger than its file. `Armed`: while `split_flag`
  is set, all reports are about the current set; while it is not, those left of older
  sets by the stream that caused the split are over the limit, so that the course
  process passes over them. `SplitOnCurrent` follows from this part. `Exclusive`:
  but after one of the three lapses, control thread and course process are apart. One
  of them at most is at the writers, or both only pause; what is freed are the sets
  before the current one, and the current one after `course_record_stop`, to which the
  course process does not turn any more. `NoFreedUse` and `NoOrphan` follow.
- `RespGather_proofs`: `TypeCorrect`, `DirectOnce`, `NoneForgotten`. That a
  request answered at once is not answered again rests on a bit that no stream has:
  the upper thread sets all bits of the mask, and `SpareSet` says that this one is
  still there while anybody has the request, in the mask and in every copy that is about
  to be stored, so that the lower thread never finds the mask empty, whichever updates
  are lost. `Counted` bounds the copies of a request under way to a stream by the
  requests made, which the types need.
  `NoneForgotten`: what was never dropped by a full queue, nor overtaken, has its
  node until it is answered; its invariant `Answered` adds that a node is deleted only
  for a request that was answered.
- `Reception_proofs`, for the connection (`EncLink`): `TypeCorrect` and
  `AlwaysSettled`, for any streams, descriptors and failures. `Settled` speaks of a
  stream with no report under way; inductive is `LoginTold`, which speaks of one that
  has: a stream that is logged in is known by its descriptor, or the report of its
  login is in the queue and no report of its loss comes after it. `Standing` adds what
  the monitor may forget: a stream whose handle it has cleared and that was not made
  again. What each step does
  to the queue is the lemma `PutQue`, and most steps are covered by `NothingNew`: they
  log nobody in, and no logged-in stream notices them.
- `Reception_proofs`, for the stream: `TickCarried` and `TickForward` of the clock,
  for any set of tracks and any size of the words: no tick is before the last one by
  the sign of their difference, unless a clock leapt by half its range. That needs
  `Carried`: what is counted from is what the clock had reached. Then
  `FrameAsm`, for buffers, packets and frames of any size (`InStep`: the offset is
  where the encoder is, and everything below it is of this frame, from which
  `WholeFrames` follows); then `StreamIsBoth`: the composition implements the clock
  and the buffer, each with its own specification, so that their theorems hold of it
  (`StreamClock`, `StreamInStep`, `StreamWhole`); then `AlwaysDecodable`, whose
  invariant adds that the key flag implies an unbroken chain since a key frame.
- `Upload_proofs`: `TypeCorrect`, `AlwaysNotForgotten`, `AlwaysReportsToOpen`,
  `AlwaysReportTrue`, `AlwaysListAgrees`, for any files, servers, queue sizes
  and number of failures. The invariant says in addition what is left of a dead
  process (`DeadIsIdle`), which ends of which connections are open (`Ends`,
  `Sockets`), where a pass stands in the list (`Walk`), that a torn file is known
  to be one, that an upload's destination is the one reported (`SameServer`), and
  that the newest report under way about a file is its last (`NewestIsLast`).
- `Upload_proofs`, for the watchdog (`Daemon`): `NoSecondCopy`, `KillsProcesses`,
  `KillsForOwnLoad`, for any numbers of processes, samples, slots and failing looks.
  `Held`: a slot without a process has no samples, whatever was missed, from which
  `NeverKillsZero` follows. `Lone` holds until a process was started on the word of a
  failing look and has two parts. `Single`: when the deal task may start a process
  none is left that the samples did not see, since it slept until the process it
  started before was visible. `OwnSlot`: the first slot, the only one used as long as
  there is one copy, is about that copy or was cleared, so that sums and count in it
  are its own.
- `Lives_proofs`: `TypeCorrect`, `AlwaysCounted`, `AlwaysSendsToOwner`,
  `AlwaysKept`, for any users, streams and sizes; the
  invariant adds where the main thread's receivers and its frame are (`InFrame`,
  `Filled`). `AlwaysOwned`, `AlwaysCacheValid` and `AlwaysJpegTrue` add that, until a
  frame met another type than its own, every frame on its way has the kind of its
  encoder, and the type read with it is still the one it goes by (`ProperKinds`).

Only model-checked are the liveness properties (`HandlerReturns`,
`EveryNodeLeaves`, `LowDiskStops`, `StaleGoes`, `Reconnects`, `CloseEnds`, `Arrives`,
`Linked`, `Guarded`, `StopEnds`, `QuitEnds`), which are out of the prover's reach.
Only proved: that the timeout queue never overflows when
there are as many slots as clients (`QueueNeverOverflows`; both are 20,
`command_protocol.h` 37-38).

## 5. Where the code departs from its comments, and the exceptions

The models do what the code does.

### The exceptions

- `skipped`: `room/ctrl/upper_msg_ctrl.c` 501 compares wall-clock times, so a request is given
  up as many seconds early as NTP or a client sets the clock forward meanwhile.
- `dropped`: line 600 of that file drops a node for which the queue has no place, and no handler
  looks at the result: the request is neither timed out nor, if an encoder stays
  silent, answered.
- `overtaken` (in `RespGather`): `lower_msg_ctrl.c` 2305-2358 answers a request and
  deletes its node later; the same request made between the two finds that node
  still there, is given none of its own, and loses the one.
- A synthesis no encoder received: `upper_msg_ctrl.c` 5942 adds the node only if
  something was sent, and nothing is answered otherwise.
- `overtaken` (in `RecordCtrl`): a START is passed on while the lower thread is
  starting, or answering, an earlier one of the same platform. It passes for
  answered with the earlier one, and the deletion that follows (`lower_msg_ctrl.c` 2489)
  takes the node they share. When the earlier one's recorders have been closed, the
  encoders locked for the later one stay locked.
- `late`: `lower_msg_set_quality_info_deal` looks at `record_handle` and locks the
  encoder in the next line (`lower_msg_ctrl.c` 2381-2382). A STOP or a full disk in
  between closes the recorder and unlocks the encoders first, and this one stays
  locked until something unlocks them all again.
- `again`: the last answer starts the recorders (`lower_msg_ctrl.c` 2466) without a
  look at whether there are any, as a second START's or the timeout's. The handles
  are overwritten, and the recorders they pointed to go on recording whatever is
  requested; the disk poll (`upper_msg_ctrl.c` 7816) stops what has a handle.
- `missed`: `receive_xml_protocol.c` 179 drops the report of a login when the
  message queue is full; it is not repeated.
- `remade`: the monitor closes a descriptor, clears the handle and forgets the stream
  (`lower_msg_ctrl.c` 691-702) without the handle's mutex. When the receive thread
  connects in between (`receive_module.c` 1425, at the end of its pause), what is
  forgotten is the new connection: if its login is reported before, nothing reports
  it again, and it is unknown while it is up.
- `Exhausted`: line 700 clears the handle also when a newer descriptor is in it, which
  nobody closes any more.
- An encoder that counts as disconnected: the monitor passes over it
  (`lower_msg_ctrl.c` 683), with any stale descriptor of its streams.
- `together`: control thread and course process are at the writers at the same time,
  and one of them closes. The course process closes, joins and frees them in a split
  (`record.c` 1413-1414) under `print_mutex`, which `course_record_pause`, `_resume` and
  `_stop` (1042) do not take: they use freed writers, or both free them. So does the pause of the course
  process when the time is over, if it meets `_stop`.
- `stopped`: `course_record_stop` frees the writers (1042-1045), and only then
  `course_record_close` sets `rs` to `RECORD_CLOSE` and joins the course process
  (1082-1083), which meanwhile handles what is queued: a report of a full file splits
  the freed writers (1402-1415), and the end of the time pauses them.
- `dangling`: when new writers cannot be registered (1424-1430) the course process
  ends and `cr->mcr` points to the old ones, which are freed: the print thread and
  the next request use them.
- `Stuck`: a writer returns when a stream cannot be added to its file (190-203). Nobody
  takes its frames then, and `course_record_close` waits for the data queue (1077-1081)
  for ever.
- `Leap`: `getIntervalTime` (`media_frame.c` 21-36) takes the distance of two readings
  of the room's 32-bit clock of milliseconds without its sign. When that clock wraps,
  every 49.7 days, between two packets, and the encoder's clock breaks at the second
  (line 98), the tick goes on by nearly a whole turn, which is back in time.
- `torn`: `UploadConfig.xml` is written in place (`reach_upload.c` 306, 437); a crash
  meanwhile leaves half a file, which the next start removes (222).
- `moved`: the report reads server and path after the upload (422), which a request
  may have changed since.
- `lost`: a report made while no control process is connected is dropped
  (`ftp/main.c` 767).
- `twice`: a look at `/proc` that fails counts as one that found nothing
  (`daemon.c` 146-150), and a `cmdline` that cannot be read as another process's
  (168-178). If the deal task looks before the next sample it starts a second copy. From
  then on the two are listed side by side, and when the first dies the second takes
  over its slot with the load summed up there, for which it may be killed.
- Not `InKind`: `send_video_data_pdg` frees by the type the encoder has when the frame
  is taken up (`lives.c` 928-942). An H.264 frame queued before its encoder logged in
  as JPEG is marked as a picture the viewer has had, and never freed; a JPEG queued
  before its encoder logged in as H.264 is freed although it is kept, and may be sent to
  the next viewer.
- An empty queue: `unregister_room_lives_module` joins a thread that waits for a
  message nobody sends any more (`lives.c` 1956).

### Departures from comments

These are the places where the code does not do what a comment next to it says; the
first is a run of its own.

- `control/timeout_process.c` 273: a missing node is taken for an answered request
  (`command_resolve.c` 5309), but an answer deletes the first node of its platform
  and message code, which may be another client's (`timeout_que_silent`).
- `room/ctrl/upper_msg_ctrl.c` 6134: the lock "prevents parallel operation by
  threads", but both may find `opt_mutex_lock` at 0; and line 48: an update that
  is lost leaves it nonzero with nobody inside, which drops every later request
  and report.
- `upper_msg_ctrl.c` 3344: the timeout starts the recorders, though line 6403 says
  they start only after the encoders' reply.
- `lower_msg_ctrl.c` 2441: an encoder's refusal to lock is cleared in a copy of the
  mask; line 2437 says success only if all succeed.
- `lower_msg_ctrl.c` 3217: the one report of a finished recorder is dropped when
  it meets the lock; line 3225 says a finished recording is stopped.
- `upper_msg_ctrl.c` 6896: an answer that is handled before the next encoder's
  bit is set counts as the last; `lower_msg_ctrl.c` 2305 says all are waited for.
- `lower_msg_ctrl.c` 2297: the cleared success flag is overwritten by the upper
  thread's next `|=`.
- `upper_msg_ctrl.c` 5620: camera, synthesis and director requests set bits of
  `adjustMask` that no answer clears; `room_ctrl.h` 569 calls it the mark of
  picture adjustments.
- `upper_msg_ctrl.c` 4953: the bit of `roomInfoMask` is set after the request is
  sent, so that of an encoder which has reported stays; deletions of relayed
  requests test this mask.
- `lower_msg_ctrl.c` 698: the monitor closes the number in its copy, which may
  meanwhile be another connection's.
- `room/rec/record.c` 1431: files that are split while the recorder is paused
  begin with writers that record.
- `room/receive/media_frame.c` 112: `av_connect_flag == 0` where an assignment is
  meant; after the first loss the flag stays.
- `control/ftpcom.c` 569: a request made while the connection is not running is
  dropped with the code of success.
- `tools/daemon/daemon.c` 1358: seven of the eight arrays are cleared, the number
  of samples is not.
- `room/lives/lives.c` 1366: an entry that is about to be cleared is answered as
  the viewer's own; 1539: only the first of a user's entries is stopped; 1043: the
  walk for the kept JPEG stops at the first free entry.

## 6. Plan

Done: everything in section 2. Left, in this order:

1. An abstract specification of a table of viewers and of a list of files to upload, and
   that `Lives` and `Upload` implement them, proved from the invariants there are.
2. `RoomLife`: start and quit of a room with requests pending and encoders locked,
   composing the modules that end with it.
3. The states of control's user table, the UDP path of reception, JPEG logins of
   `EncLink`.

## 7. Not modelled

Message parsing and formatting, sockets and configuration files (pure I/O);
`netctrl`, `sericalctrl`, `backfs`, `mp4repair`, `cgi` and the encoder firmware
`enc`, which together are most of the repository's lines (other programs, much
of it vendor code, tables of bitmaps and device protocols whose content is
layout); `rtsp` (protocol text with little shared state); the message-specific
handlers of `command_resolve.c` beyond their common pattern (some hundred
translations of XML to XML); torn reads of strings and memory exhaustion; the
room's life cycle until it is planned for.
