------------------------------- MODULE Upload -------------------------------
(***************************************************************************)
(* The upload of recorded files.  The control process asks the ftp process *)
(* over a local connection (control/ftpcom.c); the ftp process keeps the   *)
(* files still to upload in an XML tree and in UploadConfig.xml, uploads   *)
(* them one by one, tries again what failed and reports every result       *)
(* (ftp/main.c, ftp/reach_upload.c).  Control keeps the list of the files  *)
(* that failed.  A daemon starts the ftp process again when it has died.   *)
(***************************************************************************)
EXTENDS Naturals, Sequences, FiniteSets

CONSTANTS
    Files,      \* recorded files, each asked for once
    Servers,    \* ftp servers a request can name
    QueCap,     \* messages the queue to the deal task holds
    RepCap,     \* bound: reports under way
    MaxFault    \* bound: failures

ASSUME UploadAssumption ==
    /\ QueCap \in Nat \ {0}
    /\ RepCap \in Nat \ {0}
    /\ MaxFault \in Nat

NoServer == "none"          \* RomteIp 0.0.0.0 of a new file
NoFile   == "nofile"
Conns    == 1 .. MaxFault + 1   \* every failure ends one connection at most

VARIABLES
    req,        \* the requests under way on a connection
    rep,        \* the reports under way on a connection
    cend,       \* control's end of a connection
    fend,       \* the ftp process's end of a connection
    com,        \* control: the thread of the connection, and pftp->socket
    ask,        \* control: what became of the request for a file
    failed,     \* control: the files listed in the xml of failed uploads
    alive,      \* the ftp process runs
    fsock,      \* ftp: the socket SetTcpSocket stored, 0 for -1
    serve,      \* ftp: ServeTask
    deal,       \* ftp: DealTask
    px,         \* ftp: the tree, its list of files and the server
    cfg,        \* ftp: the server of pFtpServerHand->config
    sendflg,    \* ftp: the timer may post
    msgs,       \* ftp: messages in the queue
    disk,       \* UploadConfig.xml
    gone,       \* files deleted from the disk
    faults,     \* failures so far
    accepted,   \* history: files whose request was saved
    places,     \* history: the servers a file was uploaded to
    last,       \* history: the result reported last for a file
    lost,       \* history: files whose last report was lost
    told,       \* history: the server named by the last report of success
    moved,      \* history: files during whose upload the server was changed
    torn        \* history: the process died while UploadConfig.xml was written

vars == <<req, rep, cend, fend, com, ask, failed, alive, fsock, serve, deal, px, cfg, sendflg, msgs,
          disk, gone, faults, accepted, places, last, lost, told, moved, torn>>
conn    == <<req, rep, cend, fend>>
control == <<com, ask, failed>>
ftp     == <<alive, fsock, serve, deal, px, cfg, sendflg, msgs>>
reports == <<last, lost, told>>
history == <<accepted, places, last, lost, told, moved, torn>>

NoTree    == [l |-> <<>>, s |-> NoServer]
Torn      == [ok |-> FALSE, l |-> <<>>, s |-> NoServer]
Saved(t)  == [ok |-> TRUE, l |-> t.l, s |-> t.s]
ServeIdle == [pc |-> "accept", sock |-> 0, f |-> NoFile, s |-> NoServer]
DealIdle  == [pc |-> "wait", i |-> 0, f |-> NoFile, dest |-> NoServer, r |-> "none"]

Requests == [f : Files, s : Servers]
Reports  == [f : Files, r : {"ok", "err"}]
InSeq(s) == {s[i] : i \in DOMAIN s}

NetType ==
    /\ req \in [Conns -> Seq(Requests)]
    /\ rep \in [Conns -> Seq(Reports)]
    /\ cend \in [Conns -> {"none", "open", "shut"}]
    /\ fend \in [Conns -> {"none", "wait", "open", "shut"}]

ControlType ==
    /\ com \in [pc : {"off", "login", "ready", "run", "stop", "closed"},
                sock : {0} \cup Conns]
    /\ ask \in [Files -> {"idle", "passed", "refused", "sent", "skipped"}]
    /\ failed \subseteq Files

ServeType ==
    /\ fsock \in {0} \cup Conns
    /\ serve \in [pc : {"accept", "read", "save", "post", "close", "unset"},
                  sock : {0} \cup Conns, f : Files \cup {NoFile},
                  s : Servers \cup {NoServer}]

DealType ==
    deal \in [pc : {"wait", "next", "send", "report", "remove", "save"}, i : Nat,
             f : Files \cup {NoFile}, dest : Servers \cup {NoServer},
             r : {"none", "ok", "err", "invalid"}]

TreeType ==
    /\ px \in [l : Seq(Files), s : Servers \cup {NoServer}]
    /\ cfg \in Servers \cup {NoServer}
    /\ disk \in [ok : BOOLEAN, l : Seq(Files), s : Servers \cup {NoServer}]

CountType == msgs \in 0 .. QueCap /\ faults \in 0 .. MaxFault

FlagType == alive \in BOOLEAN /\ sendflg \in BOOLEAN /\ torn \in BOOLEAN

HistoryType ==
    /\ gone \subseteq Files /\ accepted \subseteq Files
    /\ lost \subseteq Files /\ moved \subseteq Files
    /\ places \in [Files -> SUBSET (Servers \cup {NoServer})]
    /\ last \in [Files -> {"none", "ok", "err"}]
    /\ told \in [Files -> Servers \cup {NoServer}]

TypeOK ==
    /\ NetType /\ ControlType /\ ServeType /\ DealType /\ TreeType /\ CountType
    /\ FlagType /\ HistoryType

Init ==
    /\ req = [c \in Conns |-> <<>>] /\ rep = [c \in Conns |-> <<>>]
    /\ cend = [c \in Conns |-> "none"] /\ fend = [c \in Conns |-> "none"]
    /\ com = [pc |-> "off", sock |-> 0]
    /\ ask = [f \in Files |-> "idle"]
    /\ failed = {} /\ gone = {} /\ faults = 0
    /\ alive = TRUE /\ fsock = 0 /\ serve = ServeIdle /\ deal = DealIdle
    /\ px = NoTree /\ cfg = NoServer /\ sendflg = TRUE /\ msgs = 0
    /\ disk = Saved(NoTree)
    /\ accepted = {} /\ lost = {} /\ moved = {} /\ torn = FALSE
    /\ places = [f \in Files |-> {}]
    /\ last = [f \in Files |-> "none"]
    /\ told = [f \in Files |-> NoServer]

Fault == faults < MaxFault /\ faults' = faults + 1

Others(c) == {d \in Conns : fend[d] = "wait" /\ d < c}

-----------------------------------------------------------------------------
(* Control: the thread of the connection.  login is ONLINE from "ready" to *)
(* "closed", run_status is RUNNING in "run" only.                          *)

\* connect_to_ftpupload_server, pftp->socket = socket.
Connect(c) ==
    /\ com.pc = "off" /\ alive
    /\ cend[c] = "none" /\ \A d \in Conns : d < c => cend[d] # "none"
    /\ cend' = [cend EXCEPT ![c] = "open"]
    /\ fend' = [fend EXCEPT ![c] = "wait"]
    /\ com' = [pc |-> "login", sock |-> c]
    /\ UNCHANGED <<req, rep, ask, failed, ftp, disk, gone, faults, history>>

SetLogin ==
    /\ com.pc = "login"
    /\ com' = [com EXCEPT !.pc = "ready"]
    /\ UNCHANGED <<conn, ask, failed, ftp, disk, gone, faults, history>>

SetRunning ==
    /\ com.pc = "ready"
    /\ com' = [com EXCEPT !.pc = "run"]
    /\ UNCHANGED <<conn, ask, failed, ftp, disk, gone, faults, history>>

\* Mutant: a success leaves the list alone.
SuccessKeeps(x) == IF x.r = "ok" THEN failed ELSE failed \cup {x.f}

\* modify_ftp_fail_file_node: a success deletes the file, an error adds it.
Listed(x) == IF x.r = "ok" THEN failed \ {x.f} ELSE failed \cup {x.f}

Receive ==
    /\ com.pc = "run" /\ rep[com.sock] # <<>>
    /\ failed' = Listed(Head(rep[com.sock]))
    /\ rep' = [rep EXCEPT ![com.sock] = Tail(@)]
    /\ UNCHANGED <<req, cend, fend, com, ask, ftp, disk, gone, faults, history>>

StopRunning ==
    /\ com.pc = "run"
    /\ com' = [com EXCEPT !.pc = "stop"]
    /\ UNCHANGED <<conn, ask, failed, ftp, disk, gone, history>>

\* Mutant: recv of a closed connection is taken for a timeout.
NeverClosed == FALSE

\* recv finds that the peer has closed; what it sent before may or may not be
\* read first.
PeerClosed == fend[com.sock] = "shut"

Break == StopRunning /\ PeerClosed /\ UNCHANGED faults

\* select fails or the rest of a message is late.
BreakEarly == StopRunning /\ Fault

CloseSocket ==
    /\ com.pc = "stop"
    /\ com' = [pc |-> "closed", sock |-> 0]
    /\ lost' = lost \cup {r.f : r \in InSeq(rep[com.sock])}
    /\ cend' = [cend EXCEPT ![com.sock] = "shut"]
    /\ rep' = [rep EXCEPT ![com.sock] = <<>>]
    /\ UNCHANGED <<req, fend, ask, failed, ftp, disk, gone, faults, accepted, places, last,
                   told, moved, torn>>

SetLogout ==
    /\ com.pc = "closed"
    /\ com' = [com EXCEPT !.pc = "off"]
    /\ UNCHANGED <<conn, ask, failed, ftp, disk, gone, faults, history>>

-----------------------------------------------------------------------------
(* Control: a finished recording asks for the upload of its file           *)
(* (ftpcom_upload_file), and the platform has a file deleted.              *)

Online == com.pc \in {"ready", "run", "stop", "closed"}

AskCheck(f) ==
    /\ ask[f] = "idle"
    /\ ask' = [ask EXCEPT ![f] = IF Online THEN "passed" ELSE "refused"]
    /\ UNCHANGED <<conn, com, failed, ftp, disk, gone, faults, history>>

\* Under socket_m.  A request sent to a peer that has closed is lost.
AskSend(f, s) ==
    /\ ask[f] = "passed"
    /\ IF com.pc = "run"
       THEN /\ ask' = [ask EXCEPT ![f] = "sent"]
            /\ req' = IF fend[com.sock] = "shut" THEN req
                      ELSE [req EXCEPT ![com.sock] = Append(@, [f |-> f, s |-> s])]
       ELSE ask' = [ask EXCEPT ![f] = "skipped"] /\ UNCHANGED req
    /\ UNCHANGED <<rep, cend, fend, com, failed, ftp, disk, gone, faults, history>>

\* file_delete_report_req_process, a request of one file.
Remove(f) ==
    /\ f \notin gone
    /\ gone' = gone \cup {f}
    /\ failed' = failed \ {f}
    /\ UNCHANGED <<conn, com, ask, ftp, disk, faults, history>>

-----------------------------------------------------------------------------
(* Ftp: reporting, under the lock of the socket.                           *)

Delivered == fsock # 0 /\ cend[fsock] = "open" /\ fend[fsock] = "open"

Ftp_Report_Info(f, r) ==
    /\ Delivered => Len(rep[fsock]) < RepCap
    /\ rep' = IF Delivered
              THEN [rep EXCEPT ![fsock] = Append(@, [f |-> f, r |-> r])] ELSE rep
    /\ last' = [last EXCEPT ![f] = r]
    /\ lost' = IF Delivered THEN lost \ {f} ELSE lost \cup {f}

-----------------------------------------------------------------------------
(* Ftp: ServeTask.                                                         *)

XmlFree == serve.pc # "save" /\ deal.pc # "save"    \* xmllock

\* accept and SetTcpSocket.
Accept(c) ==
    /\ alive /\ serve.pc = "accept"
    /\ fend[c] = "wait" /\ Others(c) = {}
    /\ fend' = [fend EXCEPT ![c] = "open"]
    /\ fsock' = c
    /\ serve' = [serve EXCEPT !.pc = "read", !.sock = c]
    /\ UNCHANGED <<req, rep, cend, control, alive, deal, px, cfg, sendflg, msgs, disk, gone, faults, history>>

\* An upload request is read and AddXmlNode changes the tree; the file is
\* open for writing from here on.
AddXmlNode ==
    /\ alive /\ serve.pc = "read" /\ req[serve.sock] # <<>> /\ XmlFree
    /\ LET q == Head(req[serve.sock]) IN
         /\ px' = [l |-> Append(px.l, q.f), s |-> q.s]
         /\ serve' = [serve EXCEPT !.pc = "save", !.f = q.f, !.s = q.s]
    /\ req' = [req EXCEPT ![serve.sock] = Tail(@)]
    /\ disk' = Torn
    /\ UNCHANGED <<rep, cend, fend, control, alive, fsock, deal, cfg, sendflg, msgs, gone, faults, history>>

\* The file is written, the configuration follows.
ServeSave ==
    /\ alive /\ serve.pc = "save"
    /\ disk' = Saved(px)
    /\ cfg' = serve.s
    /\ serve' = [serve EXCEPT !.pc = "post"]
    /\ accepted' = accepted \cup {serve.f}
    /\ moved' = IF deal.pc \in {"send", "report"} /\ cfg # serve.s
                THEN moved \cup {deal.f} ELSE moved
    /\ UNCHANGED <<conn, control, alive, fsock, deal, px, sendflg, msgs, gone, faults,
                   places, reports, torn>>

\* The file cannot be written: the node stays in the tree, the request is
\* reported as failed.
ServeSaveFails ==
    /\ alive /\ serve.pc = "save" /\ Fault
    /\ Ftp_Report_Info(serve.f, "err")
    /\ serve' = [ServeIdle EXCEPT !.pc = "read", !.sock = serve.sock]
    /\ UNCHANGED <<req, cend, fend, control, alive, fsock, deal, px, cfg, sendflg, msgs, disk, gone,
                   accepted, places, told, moved, torn>>

\* r_msg_send blocks on a full queue.
ServePost ==
    /\ alive /\ serve.pc = "post" /\ msgs < QueCap
    /\ msgs' = msgs + 1
    /\ serve' = [ServeIdle EXCEPT !.pc = "read", !.sock = serve.sock]
    /\ UNCHANGED <<conn, control, alive, fsock, deal, px, cfg, sendflg, disk, gone, faults,
                   history>>

\* close; requests that were not read are lost.
Shut(cs) ==
    /\ fend' = [c \in Conns |-> IF c \in cs THEN "shut" ELSE fend[c]]
    /\ req' = [c \in Conns |-> IF c \in cs THEN <<>> ELSE req[c]]

\* Mutant: the socket is closed before it is unset.
ClosesFirst ==
    /\ alive /\ serve.pc = "read"
    /\ Shut({serve.sock})
    /\ serve' = [serve EXCEPT !.pc = "close"]
    /\ UNCHANGED <<rep, cend, control, alive, fsock, deal, px, cfg, sendflg, msgs, disk, gone, history>>

\* A connection that is given up: SetTcpSocket(-1) ...
GiveUp ==
    /\ alive /\ serve.pc = "read"
    /\ fsock' = 0
    /\ serve' = [serve EXCEPT !.pc = "close"]
    /\ UNCHANGED <<conn, control, alive, deal, px, cfg, sendflg, msgs, disk, gone, history>>

\* The peer has closed.
ServeDrop == GiveUp /\ cend[serve.sock] = "shut" /\ UNCHANGED faults

\* The rest of a message is late.
ServeDropEarly == GiveUp /\ Fault

\* ... and only then the socket is closed.
ServeClose ==
    /\ alive /\ serve.pc = "close"
    /\ Shut({serve.sock})
    /\ serve' = ServeIdle
    /\ UNCHANGED <<rep, cend, control, alive, fsock, deal, px, cfg, sendflg, msgs, disk, gone, faults,
                   history>>

\* After a failing select the socket is closed first ...
SelectError ==
    /\ alive /\ serve.pc = "read" /\ Fault
    /\ Shut({serve.sock})
    /\ serve' = [ServeIdle EXCEPT !.pc = "unset"]
    /\ UNCHANGED <<rep, cend, control, alive, fsock, deal, px, cfg, sendflg, msgs, disk, gone, history>>

\* ... and unset afterwards.
ServeUnset ==
    /\ alive /\ serve.pc = "unset"
    /\ fsock' = 0
    /\ serve' = ServeIdle
    /\ UNCHANGED <<conn, control, alive, deal, px, cfg, sendflg, msgs, disk, gone, faults,
                   history>>

-----------------------------------------------------------------------------
(* Ftp: DealTask and UpLoadFile.  deal.i stands for the pointer FileNode:  *)
(* a position in the list, 0 for NULL.                                     *)

NodeAt(i, l) == IF i \in DOMAIN l THEN i ELSE 0

DealTake ==
    /\ alive /\ deal.pc = "wait" /\ msgs > 0
    /\ msgs' = msgs - 1
    /\ sendflg' = FALSE
    /\ deal' = [DealIdle EXCEPT !.pc = "next", !.i = NodeAt(1, px.l)]
    /\ UNCHANGED <<conn, control, alive, fsock, serve, px, cfg, disk, gone, faults, history>>

\* Mutant: sendflg is not set again after a pass.
LeavesFlag ==
    /\ alive /\ deal.pc = "next" /\ deal.i = 0
    /\ deal' = DealIdle
    /\ UNCHANGED <<conn, control, alive, fsock, serve, px, cfg, sendflg, msgs, disk, gone,
                   faults, history>>

DealEnd ==
    /\ alive /\ deal.pc = "next" /\ deal.i = 0
    /\ sendflg' = TRUE
    /\ deal' = DealIdle
    /\ UNCHANGED <<conn, control, alive, fsock, serve, px, cfg, msgs, disk, gone, faults,
                   history>>

\* Mutant: the destination is read from the tree, the report names the configuration.
ServerOfTree == px.s

\* The destination is put together from the configuration.
Destination == cfg

DealNext ==
    /\ alive /\ deal.pc = "next" /\ deal.i # 0 /\ XmlFree
    /\ deal' = [deal EXCEPT !.pc = "send", !.f = px.l[deal.i], !.dest = Destination]
    /\ UNCHANGED <<conn, control, alive, fsock, serve, px, cfg, sendflg, msgs, disk, gone,
                   faults, history>>

\* DetectionFile: REACH_UPLOAD_DIRECTORY_INVALID when the directory cannot be
\* opened any more; one that is deleted while it is read may still end well.
DealSend(r) ==
    /\ alive /\ deal.pc = "send"
    /\ r = "invalid" => deal.f \in gone
    /\ deal' = [deal EXCEPT !.pc = "report", !.r = r]
    /\ places' = IF r = "ok" THEN [places EXCEPT ![deal.f] = @ \cup {deal.dest}] ELSE places
    /\ UNCHANGED <<conn, control, alive, fsock, serve, px, cfg, sendflg, msgs, disk, gone,
                   faults, accepted, reports, moved, torn>>

\* The report of success names the server of the configuration as it is now.
DealReport ==
    /\ alive /\ deal.pc = "report"
    /\ Ftp_Report_Info(deal.f, IF deal.r = "ok" THEN "ok" ELSE "err")
    /\ told' = IF deal.r = "ok" THEN [told EXCEPT ![deal.f] = cfg] ELSE told
    /\ deal' = [deal EXCEPT !.pc = "remove"]
    /\ UNCHANGED <<req, cend, fend, control, alive, fsock, serve, px, cfg, sendflg, msgs, disk, gone, faults,
                   accepted, places, moved, torn>>

\* Mutant: a node is deleted whatever the result.
RemovesAnyway == deal.r # "none"

\* Only a file that was uploaded, or is no longer there, leaves the list.
Finished == deal.r \in {"ok", "invalid"}

Without(l, i) == SubSeq(l, 1, i - 1) \o SubSeq(l, i + 1, Len(l))

DealRemove ==
    /\ alive /\ deal.pc = "remove" /\ XmlFree
    /\ LET l == IF Finished THEN Without(px.l, deal.i) ELSE px.l IN
         /\ px' = [px EXCEPT !.l = l]
         /\ deal' = [deal EXCEPT !.pc = "save",
                                 !.i = NodeAt(IF Finished THEN deal.i ELSE deal.i + 1, l)]
    /\ disk' = Torn
    /\ UNCHANGED <<conn, control, alive, fsock, serve, cfg, sendflg, msgs, gone, faults,
                   history>>

DealSave ==
    /\ alive /\ deal.pc = "save"
    /\ disk' = Saved(px)
    /\ deal' = [DealIdle EXCEPT !.pc = "next", !.i = deal.i]
    /\ UNCHANGED <<conn, control, alive, fsock, serve, px, cfg, sendflg, msgs, gone, faults,
                   history>>

DealSaveFails ==
    /\ alive /\ deal.pc = "save" /\ Fault
    /\ Ftp_Report_Info(deal.f, "err")
    /\ deal' = [DealIdle EXCEPT !.pc = "next", !.i = deal.i]
    /\ UNCHANGED <<req, cend, fend, control, alive, fsock, serve, px, cfg, sendflg, msgs, disk, gone,
                   accepted, places, told, moved, torn>>

\* TimeTask, every 360 seconds.
Timer ==
    /\ alive /\ sendflg /\ msgs < QueCap
    /\ msgs' = msgs + 1
    /\ UNCHANGED <<conn, control, alive, fsock, serve, deal, px, cfg, sendflg, disk, gone,
                   faults, history>>

-----------------------------------------------------------------------------
(* The ftp process dies and is started again.                              *)

Crash ==
    /\ alive /\ Fault
    /\ alive' = FALSE
    /\ Shut({c \in Conns : fend[c] # "none"})
    /\ fsock' = 0 /\ serve' = ServeIdle /\ deal' = DealIdle
    /\ px' = NoTree /\ cfg' = NoServer /\ sendflg' = TRUE
    /\ torn' = (torn \/ ~disk.ok)
    /\ UNCHANGED <<rep, cend, control, msgs, disk, gone, accepted, places, reports, moved>>

\* UploadInit and ReadXml; a file that cannot be parsed is deleted and made
\* anew.  The message queue is removed and created.
Restart ==
    /\ ~alive
    /\ alive' = TRUE
    /\ px' = IF disk.ok THEN [l |-> disk.l, s |-> disk.s] ELSE NoTree
    /\ cfg' = IF disk.ok THEN disk.s ELSE NoServer
    /\ disk' = IF disk.ok THEN disk ELSE Saved(NoTree)
    /\ msgs' = 0
    /\ UNCHANGED <<conn, control, fsock, serve, deal, sendflg, gone, faults, history>>

-----------------------------------------------------------------------------

ComNext ==
    \/ \E c \in Conns : Connect(c)
    \/ SetLogin \/ SetRunning \/ Receive \/ Break \/ CloseSocket \/ SetLogout

ServeGoesOn ==
    \/ \E c \in Conns : Accept(c)
    \/ AddXmlNode \/ ServeSave \/ ServePost \/ ServeDrop \/ ServeClose \/ ServeUnset

DealGoesOn ==
    \/ DealTake \/ DealEnd \/ DealNext
    \/ \E r \in {"ok", "err", "invalid"} : DealSend(r)
    \/ DealReport \/ DealRemove \/ DealSave

Next ==
    \/ ComNext
    \/ \E f \in Files : AskCheck(f) \/ Remove(f) \/ \E s \in Servers : AskSend(f, s)
    \/ BreakEarly
    \/ ServeGoesOn \/ ServeSaveFails \/ ServeDropEarly \/ SelectError
    \/ DealGoesOn \/ DealSaveFails
    \/ Timer \/ Crash \/ Restart

Spec == Init /\ [][Next]_vars

\* Every thread goes on, the daemon starts the process again, the timer rings (once
\* in 360 seconds, so that a blocked sender finds room in the queue), and a server
\* that is tried again and again takes the file in the end.
FairSpec ==
    /\ Spec
    /\ WF_vars(ComNext) /\ WF_vars(ServeGoesOn) /\ WF_vars(DealGoesOn)
    /\ WF_vars(Timer) /\ WF_vars(Restart) /\ SF_vars(ServePost)
    /\ \A f \in Files : SF_vars(deal.f = f /\ DealSend("ok"))

-----------------------------------------------------------------------------

Pending(f) == f \in accepted /\ places[f] = {} /\ f \notin gone

\* A file whose request was taken stays in the tree and in UploadConfig.xml
\* until some server has it or it is deleted, through crashes, failing saves
\* and passes that overlap new requests - unless the process died in the
\* midst of writing the file.
NotForgotten ==
    \A f \in Files : Pending(f) /\ ~torn =>
        /\ alive => f \in InSeq(px.l)
        /\ disk.ok => f \in InSeq(disk.l)

UnderWay(f) == \E c \in Conns : \E r \in InSeq(rep[c]) : r.f = f

\* When nothing about a file is under way and its last report was not lost,
\* control lists it as failed exactly when that report said so.
ListAgrees ==
    \A f \in Files \ (gone \cup lost) :
        ~UnderWay(f) => (f \in failed <=> last[f] = "err")

\* The socket the deal task reports to is never one that was closed, except
\* between the close and the unset that follow a failing select.
ReportsToOpen == fsock # 0 /\ serve.pc # "unset" => fend[fsock] = "open"

\* The server a report of success names has the file, unless a request
\* changed the server while that file was being uploaded.
ReportTrue ==
    \A f \in Files \ moved : told[f] # NoServer => told[f] \in places[f]

\* A taken file arrives at a server or is deleted, unless the list was lost.
Arrives == \A f \in Files : f \in accepted ~> (places[f] # {} \/ f \in gone \/ torn)

\* In the end the two processes talk over one connection.
Linked == <>[](com.pc = "run" /\ fsock = com.sock)
=============================================================================
