---------------------------- MODULE Upload_proofs ----------------------------
(***************************************************************************)
(* What Upload promises, for every set of files and servers, every size of *)
(* the queues and every number of failures.  The properties that TLC       *)
(* checks are not inductive: the parts below say where the threads stand   *)
(* in the list, which sockets they hold and what the reports under way     *)
(* mean.                                                                   *)
(***************************************************************************)
EXTENDS Upload, Daemon, SequenceTheorems, FiniteSetTheorems, TLAPS

\* A process that has died has no thread in the midst of anything.
DeadIsIdle == ~alive => serve = ServeIdle /\ deal = DealIdle /\ fsock = 0

\* Only the connection control holds is open at its end, and only there reports
\* are under way.
Ends ==
    /\ \A c \in Conns :
         /\ cend[c] = "none" => fend[c] = "none"
         /\ cend[c] # "open" => rep[c] = <<>>
         /\ cend[c] = "open" => com.sock = c
    /\ com.pc \in {"login", "ready", "run", "stop"} =>
         com.sock \in Conns /\ cend[com.sock] = "open"
    /\ com.pc \in {"off", "closed"} => com.sock = 0

\* The socket of ServeTask and the one SetTcpSocket stored.
Sockets ==
    /\ serve.pc \in {"read", "save", "post"} =>
         fsock = serve.sock /\ serve.sock \in Conns /\ fend[serve.sock] = "open"
    /\ serve.pc = "close" => serve.sock \in Conns /\ fend[serve.sock] = "open"
    /\ serve.pc \in {"accept", "close"} => fsock = 0

\* The node a pass stands at is the one it looks at, whatever is added to the list.
Walk ==
    /\ deal.pc \in {"next", "save"} /\ deal.i # 0 => deal.i \in DOMAIN px.l
    /\ deal.pc \in {"send", "report", "remove"} =>
         deal.i \in DOMAIN px.l /\ px.l[deal.i] = deal.f
    /\ deal.pc = "save" => deal.f \in Files
    /\ deal.pc \in {"report", "remove"} =>
         /\ deal.r = "ok" => places[deal.f] # {}
         /\ deal.r = "invalid" => deal.f \in gone
    /\ serve.pc = "save" => serve.f \in InSeq(px.l)
    /\ deal.pc = "save" => serve.pc # "save"

\* A file that cannot be parsed when the process starts was torn by a crash.
TornIsKnown == ~alive /\ ~disk.ok => torn

\* Unless the server was changed meanwhile, the configuration still names the
\* server the upload went to.
SameServer ==
    /\ deal.pc \in {"send", "report"} /\ deal.f \notin moved => deal.dest = cfg
    /\ deal.pc = "report" /\ deal.r = "ok" => deal.dest \in places[deal.f]

\* The newest report under way about a file is the last one that was made.
NewestIsLast ==
    \A f \in Files \ lost : \A c \in Conns : \A i \in DOMAIN rep[c] :
        /\ rep[c][i].f = f
        /\ \A j \in DOMAIN rep[c] : j > i => rep[c][j].f # f
        => rep[c][i].r = last[f]

-----------------------------------------------------------------------------
(* Sequences.                                                              *)

\* What is taken from the front of a queue.
LEMMA HeadTail ==
  ASSUME NEW S, NEW q \in Seq(S), q # <<>>
  PROVE  Head(q) \in S /\ Tail(q) \in Seq(S)
  OBVIOUS

\* What is added to the end of a queue.
LEMMA Added ==
  ASSUME NEW S, NEW q \in Seq(S), NEW x \in S
  PROVE  Append(q, x) \in Seq(S)
  OBVIOUS

\* What stays when a node is added.
LEMMA AppendKeeps ==
  ASSUME NEW S, NEW q \in Seq(S), NEW x \in S
  PROVE  /\ DOMAIN q \subseteq DOMAIN Append(q, x)
         /\ \A i \in DOMAIN q : Append(q, x)[i] = q[i]
         /\ InSeq(Append(q, x)) = InSeq(q) \cup {x}
<1>1. /\ DOMAIN q = 1 .. Len(q) /\ Len(q) \in Nat
      /\ DOMAIN Append(q, x) = 1 .. Len(q) + 1
      /\ \A i \in DOMAIN q : Append(q, x)[i] = q[i]
      /\ Append(q, x)[Len(q) + 1] = x
  OBVIOUS
<1>2. DOMAIN q \subseteq DOMAIN Append(q, x)
  BY <1>1
<1>3. ASSUME NEW y \in InSeq(Append(q, x)) PROVE y \in InSeq(q) \cup {x}
  <2>1. PICK i \in DOMAIN Append(q, x) : y = Append(q, x)[i]
    BY DEF InSeq
  <2>2. i \in DOMAIN q \/ i = Len(q) + 1
    BY <1>1
  <2>3. QED
    BY <2>1, <2>2, <1>1 DEF InSeq
<1>4. ASSUME NEW y \in InSeq(q) \cup {x} PROVE y \in InSeq(Append(q, x))
  <2>1. Len(q) + 1 \in DOMAIN Append(q, x)
    BY <1>1
  <2>2. QED
    BY <2>1, <1>1, <1>2 DEF InSeq
<1>5. QED
  BY <1>1, <1>2, <1>3, <1>4

\* del_cur_node: the other nodes stay, in their order.
LEMMA WithoutSeq ==
  ASSUME NEW S, NEW q \in Seq(S), NEW i \in DOMAIN q
  PROVE  /\ Without(q, i) \in Seq(S)
         /\ Len(Without(q, i)) = Len(q) - 1
         /\ \A j \in DOMAIN q \ {i} : q[j] \in InSeq(Without(q, i))
<1> DEFINE a == SubSeq(q, 1, i - 1)
<1> DEFINE b == SubSeq(q, i + 1, Len(q))
<1>0. Len(q) \in Nat /\ i \in 1 .. Len(q) /\ DOMAIN q = 1 .. Len(q)
  OBVIOUS
<1>1. a \in Seq(S) /\ b \in Seq(S)
  BY <1>0
<1>2. Len(a) = i - 1 /\ Len(b) = Len(q) - i
  BY <1>0
<1>21. /\ \A k \in 1 .. i - 1 : a[k] = q[k]
       /\ \A k \in 1 .. Len(q) - i : b[k] = q[i + k]
  BY <1>0
<1>22. Without(q, i) = a \o b
  BY DEF Without
<1> HIDE DEF a, b
<1>3. Without(q, i) \in Seq(S) /\ Len(Without(q, i)) = Len(q) - 1
  <2>1. a \o b \in Seq(S) /\ Len(a \o b) = Len(a) + Len(b)
    BY <1>1, ConcatProperties
  <2>2. (i - 1) + (Len(q) - i) = Len(q) - 1
    BY <1>0
  <2>3. QED
    BY <2>1, <2>2, <1>2, <1>22
<1>4. ASSUME NEW j \in DOMAIN q \ {i} PROVE q[j] \in InSeq(Without(q, i))
  <2>1. CASE j < i
    <3>1. Without(q, i)[j] = q[j]
      BY <2>1, <1>0, <1>1, <1>2, <1>21, <1>22
    <3>2. j \in DOMAIN Without(q, i)
      BY <2>1, <1>0, <1>3
    <3>3. QED
      BY <3>1, <3>2 DEF InSeq
  <2>2. CASE j > i
    <3>1. Without(q, i)[j - 1] = q[j]
      <4>1. (a \o b)[j - 1] = b[j - i]
        BY <2>2, <1>0, <1>1, <1>2
      <4>2. b[j - i] = q[i + (j - i)]
        BY <2>2, <1>0, <1>21
      <4>3. i + (j - i) = j
        BY <1>0
      <4>4. QED
        BY <4>1, <4>2, <4>3, <1>22
    <3>2. j - 1 \in DOMAIN Without(q, i)
      BY <2>2, <1>0, <1>3
    <3>3. QED
      BY <3>1, <3>2 DEF InSeq
  <2>3. QED
    BY <2>1, <2>2, <1>0
<1>5. QED
  BY <1>3, <1>4

-----------------------------------------------------------------------------
(* Types.                                                                  *)

\* A report is added to the queue of an open connection or to none.
LEMMA ReportType ==
  ASSUME TypeOK, NEW f \in Files, NEW r \in {"ok", "err"}, Ftp_Report_Info(f, r)
  PROVE  /\ rep' \in [Conns -> Seq(Reports)]
         /\ last' \in [Files -> {"none", "ok", "err"}]
         /\ lost' \subseteq Files
<1>1. [f |-> f, r |-> r] \in Reports
  BY DEF Reports
<1>2. ASSUME Delivered PROVE Append(rep[fsock], [f |-> f, r |-> r]) \in Seq(Reports)
  <2>1. rep[fsock] \in Seq(Reports)
    BY <1>2 DEF Delivered, TypeOK, NetType, ServeType
  <2>2. QED
    BY <1>1, <2>1, Added
<1>3. rep' \in [Conns -> Seq(Reports)]
  BY <1>2 DEF Ftp_Report_Info, TypeOK, NetType
<1>4. QED
  BY <1>3 DEF Ftp_Report_Info, TypeOK, HistoryType

\* The connections keep their types.
LEMMA NetTypeNext ==
  ASSUME TypeOK, Ends, Sockets, Walk, [Next]_vars
  PROVE  NetType'
<1>1. ASSUME NEW c \in Conns, Connect(c) PROVE NetType'
  BY <1>1 DEF Connect, ftp, history, TypeOK, NetType
<1>2. CASE Receive
  <2>1. com.sock \in Conns
    BY <1>2 DEF Receive, Ends
  <2>2. Tail(rep[com.sock]) \in Seq(Reports)
    BY <1>2, <2>1, HeadTail DEF Receive, TypeOK, NetType
  <2>3. QED
    BY <1>2, <2>2 DEF Receive, TypeOK, NetType
<1>3. CASE CloseSocket
  <2>1. <<>> \in Seq(Reports)
    OBVIOUS
  <2>2. QED
    BY <1>3, <2>1 DEF CloseSocket, TypeOK, NetType
<1>4. ASSUME NEW f \in Files, NEW s \in Servers, AskSend(f, s) PROVE NetType'
  <2>1. com.pc = "run" => com.sock \in Conns
    BY DEF Ends
  <2>2. [f |-> f, s |-> s] \in Requests
    BY DEF Requests
  <2>3. com.pc = "run" => Append(req[com.sock], [f |-> f, s |-> s]) \in Seq(Requests)
    BY <2>1, <2>2, Added DEF TypeOK, NetType
  <2>4. QED
    BY <1>4, <2>3 DEF AskSend, TypeOK, NetType
<1>5. ASSUME NEW c \in Conns, Accept(c) PROVE NetType'
  BY <1>5 DEF Accept, control, history, TypeOK, NetType
<1>6. CASE AddXmlNode
  <2>1. serve.sock \in Conns
    BY <1>6 DEF AddXmlNode, Sockets
  <2>2. Tail(req[serve.sock]) \in Seq(Requests)
    BY <1>6, <2>1, HeadTail DEF AddXmlNode, TypeOK, NetType
  <2>3. QED
    BY <1>6, <2>2 DEF AddXmlNode, TypeOK, NetType
<1>7. CASE ServeSaveFails
  <2>1. serve.f \in Files
    BY <1>7 DEF ServeSaveFails, Walk, InSeq, TypeOK, TreeType
  <2>2. QED
    BY <1>7, <2>1, ReportType DEF ServeSaveFails, TypeOK, NetType
<1>8. CASE ServeClose
  BY <1>8 DEF ServeClose, Shut, ServeIdle, control, history, TypeOK, NetType
<1>9. CASE SelectError
  BY <1>9 DEF SelectError, Shut, Fault, ServeIdle, control, history, TypeOK, NetType
<1>10. CASE DealReport
  <2>1. deal.f \in Files
    BY <1>10 DEF DealReport, Walk, TypeOK, TreeType
  <2>2. QED
    BY <1>10, <2>1, ReportType DEF DealReport, TypeOK, NetType
<1>11. CASE DealSaveFails
  <2>1. deal.f \in Files
    BY <1>11 DEF DealSaveFails, Walk
  <2>2. QED
    BY <1>11, <2>1, ReportType DEF DealSaveFails, TypeOK, NetType
<1>12. CASE Crash
  BY <1>12 DEF Crash, Fault, Shut, NoTree, DealIdle, ServeIdle, control, reports, TypeOK,
      NetType
<1>13. CASE \/ UNCHANGED vars
            \/ SetLogin \/ SetRunning \/ Break \/ BreakEarly \/ SetLogout \/ ServeSave
            \/ ServePost \/ ServeDrop \/ ServeDropEarly \/ ServeUnset \/ DealTake
            \/ DealEnd \/ DealNext \/ DealRemove \/ DealSave \/ Timer \/ Restart
            \/ \E f \in Files : AskCheck(f)
            \/ \E f \in Files : Remove(f)
            \/ \E r \in {"ok", "err", "invalid"} : DealSend(r)
  BY <1>13 DEF vars, SetLogin, conn, ftp, history, SetRunning, Break, StopRunning,
      BreakEarly, SetLogout, AskCheck, Remove, ServeSave, control, reports, ServePost,
      ServeDrop, GiveUp, ServeDropEarly, ServeUnset, DealTake, DealEnd, DealNext,
      DealSend, DealRemove, DealSave, Timer, Restart, TypeOK, NetType
<1>14. QED
  BY <1>1, <1>2, <1>3, <1>4, <1>5, <1>6, <1>7, <1>8, <1>9, <1>10, <1>11,
     <1>12, <1>13
  DEF Next, ComNext, ServeGoesOn, DealGoesOn

\* Control's part keeps its type.
LEMMA ControlTypeNext ==
  ASSUME TypeOK, Ends, [Next]_vars
  PROVE  ControlType'
<1>1. ASSUME NEW c \in Conns, Connect(c) PROVE ControlType'
  BY <1>1 DEF Connect, ftp, history, TypeOK, ControlType, Conns
<1>2. CASE SetLogin
  BY <1>2 DEF SetLogin, conn, ftp, history, TypeOK, ControlType, Conns
<1>3. CASE SetRunning
  BY <1>3 DEF SetRunning, conn, ftp, history, TypeOK, ControlType, Conns
<1>4. CASE Receive
  <2>1. com.sock \in Conns
    BY <1>4 DEF Receive, Ends
  <2>2. Head(rep[com.sock]) \in Reports
    BY <1>4, <2>1, HeadTail DEF Receive, TypeOK, NetType
  <2>3. Head(rep[com.sock]).f \in Files
    BY <2>2 DEF Reports
  <2>4. QED
    BY <1>4, <2>3 DEF Receive, Listed, TypeOK, ControlType
<1>5. CASE Break
  BY <1>5 DEF Break, StopRunning, conn, ftp, history, TypeOK, ControlType, Conns
<1>6. CASE BreakEarly
  BY <1>6 DEF BreakEarly, StopRunning, Fault, conn, ftp, history, TypeOK, ControlType,
      Conns
<1>7. CASE CloseSocket
  BY <1>7 DEF CloseSocket, InSeq, ftp, TypeOK, ControlType, Conns
<1>8. CASE SetLogout
  BY <1>8 DEF SetLogout, conn, ftp, history, TypeOK, ControlType, Conns
<1>9. ASSUME NEW f \in Files, AskCheck(f) PROVE ControlType'
  BY <1>9 DEF AskCheck, conn, ftp, history, TypeOK, ControlType, Conns
<1>10. ASSUME NEW f \in Files, NEW s \in Servers, AskSend(f, s) PROVE ControlType'
  BY <1>10 DEF AskSend, ftp, history, TypeOK, ControlType, Conns
<1>11. ASSUME NEW f \in Files, Remove(f) PROVE ControlType'
  BY <1>11 DEF Remove, conn, ftp, history, TypeOK, ControlType, Conns
<1>12. CASE \/ UNCHANGED vars
            \/ AddXmlNode \/ ServeSave \/ ServeSaveFails \/ ServePost \/ ServeDrop
            \/ ServeDropEarly \/ ServeClose \/ SelectError \/ ServeUnset \/ DealTake
            \/ DealEnd \/ DealNext \/ DealReport \/ DealRemove \/ DealSave
            \/ DealSaveFails \/ Timer \/ Crash \/ Restart
            \/ \E c \in Conns : Accept(c)
            \/ \E r \in {"ok", "err", "invalid"} : DealSend(r)
  BY <1>12 DEF vars, Accept, control, history, AddXmlNode, ServeSave, conn, reports,
      ServeSaveFails, Ftp_Report_Info, ServePost, ServeDrop, GiveUp, ServeDropEarly,
      ServeClose, Shut, SelectError, ServeUnset, DealTake, DealEnd, DealNext, DealSend,
      DealReport, DealRemove, DealSave, DealSaveFails, Timer, Crash, Restart, TypeOK,
      ControlType, Conns
<1>13. QED
  BY <1>1, <1>2, <1>3, <1>4, <1>5, <1>6, <1>7, <1>8, <1>9, <1>10, <1>11, <1>12
  DEF Next, ComNext, ServeGoesOn, DealGoesOn

\* ServeTask and the socket keep their types.
LEMMA ServeTypeNext ==
  ASSUME TypeOK, Sockets, [Next]_vars
  PROVE  ServeType'
<1>1. ASSUME NEW c \in Conns, Accept(c) PROVE ServeType'
  BY <1>1 DEF Accept, control, history, TypeOK, ServeType, Conns
<1>2. CASE AddXmlNode
  <2>1. serve.sock \in Conns
    BY <1>2 DEF AddXmlNode, Sockets
  <2>2. Head(req[serve.sock]) \in Requests
    BY <1>2, <2>1, HeadTail DEF AddXmlNode, TypeOK, NetType
  <2>3. Head(req[serve.sock]).f \in Files /\ Head(req[serve.sock]).s \in Servers
    BY <2>2 DEF Requests
  <2>4. QED
    BY <1>2, <2>3 DEF AddXmlNode, TypeOK, ServeType
<1>3. CASE ServeSave
  BY <1>3 DEF ServeSave, Saved, conn, control, reports, TypeOK, ServeType, Conns
<1>4. CASE ServeSaveFails
  BY <1>4 DEF ServeSaveFails, Fault, Ftp_Report_Info, Delivered, ServeIdle, control,
      TypeOK, ServeType, Conns
<1>5. CASE ServePost
  BY <1>5 DEF ServePost, ServeIdle, conn, control, history, TypeOK, ServeType, Conns
<1>6. CASE ServeDrop
  BY <1>6 DEF ServeDrop, GiveUp, conn, control, history, TypeOK, ServeType, Conns
<1>7. CASE ServeDropEarly
  BY <1>7 DEF ServeDropEarly, GiveUp, Fault, conn, control, history, TypeOK, ServeType,
      Conns
<1>8. CASE ServeClose
  BY <1>8 DEF ServeClose, Shut, ServeIdle, control, history, TypeOK, ServeType, Conns
<1>9. CASE SelectError
  BY <1>9 DEF SelectError, Shut, Fault, ServeIdle, control, history, TypeOK, ServeType,
      Conns
<1>10. CASE ServeUnset
  BY <1>10 DEF ServeUnset, ServeIdle, conn, control, history, TypeOK, ServeType, Conns
<1>11. CASE Crash
  BY <1>11 DEF Crash, Fault, Shut, NoTree, DealIdle, ServeIdle, control, reports, TypeOK,
      ServeType, Conns
<1>12. CASE \/ UNCHANGED vars
            \/ SetLogin \/ SetRunning \/ Receive \/ Break \/ BreakEarly \/ CloseSocket
            \/ SetLogout \/ DealTake \/ DealEnd \/ DealNext \/ DealReport \/ DealRemove
            \/ DealSave \/ DealSaveFails \/ Timer \/ Restart
            \/ \E c \in Conns : Connect(c)
            \/ \E f \in Files : AskCheck(f)
            \/ \E f \in Files, s \in Servers : AskSend(f, s)
            \/ \E f \in Files : Remove(f)
            \/ \E r \in {"ok", "err", "invalid"} : DealSend(r)
  BY <1>12 DEF vars, Connect, ftp, history, SetLogin, conn, SetRunning, Receive, Break,
      StopRunning, BreakEarly, CloseSocket, SetLogout, AskCheck, AskSend, Remove,
      DealTake, control, DealEnd, DealNext, DealSend, reports, DealReport,
      Ftp_Report_Info, DealRemove, DealSave, DealSaveFails, Timer, Restart, TypeOK,
      ServeType, Conns
<1>13. QED
  BY <1>1, <1>2, <1>3, <1>4, <1>5, <1>6, <1>7, <1>8, <1>9, <1>10, <1>11, <1>12
  DEF Next, ComNext, ServeGoesOn, DealGoesOn

\* DealTask keeps its type.
LEMMA DealTypeNext ==
  ASSUME TypeOK, Walk, [Next]_vars
  PROVE  DealType'
<1>1. CASE DealTake
  BY <1>1 DEF DealTake, DealIdle, NodeAt, conn, control, history, TypeOK, DealType
<1>2. CASE DealEnd
  BY <1>2 DEF DealEnd, DealIdle, conn, control, history, TypeOK, DealType
<1>3. CASE DealNext
  <2>1. px.l[deal.i] \in Files
    BY <1>3 DEF DealNext, Walk, TypeOK, TreeType
  <2>2. QED
    BY <1>3, <2>1 DEF DealNext, Destination, TypeOK, DealType, TreeType
<1>4. ASSUME NEW r \in {"ok", "err", "invalid"}, DealSend(r) PROVE DealType'
  BY <1>4 DEF DealSend, conn, control, reports, TypeOK, DealType
<1>5. CASE DealReport
  BY <1>5 DEF DealReport, Ftp_Report_Info, Delivered, control, TypeOK, DealType
<1>6. CASE DealRemove
  <2> DEFINE l == IF Finished THEN Without(px.l, deal.i) ELSE px.l
  <2> DEFINE n == NodeAt(IF Finished THEN deal.i ELSE deal.i + 1, l)
  <2>1. n \in Nat
    BY DEF NodeAt, TypeOK, DealType
  <2>2. deal' = [deal EXCEPT !.pc = "save", !.i = n]
    BY <1>6 DEF DealRemove
  <2> HIDE DEF n
  <2>3. QED
    BY <2>1, <2>2 DEF TypeOK, DealType
<1>7. CASE DealSave
  BY <1>7 DEF DealSave, Saved, DealIdle, conn, control, history, TypeOK, DealType
<1>8. CASE DealSaveFails
  BY <1>8 DEF DealSaveFails, Fault, Ftp_Report_Info, Delivered, DealIdle, control, TypeOK,
      DealType
<1>9. CASE Crash
  BY <1>9 DEF Crash, Fault, Shut, NoTree, DealIdle, ServeIdle, control, reports, TypeOK,
      DealType
<1>10. CASE \/ UNCHANGED vars
            \/ SetLogin \/ SetRunning \/ Receive \/ Break \/ BreakEarly \/ CloseSocket
            \/ SetLogout \/ AddXmlNode \/ ServeSave \/ ServeSaveFails \/ ServePost
            \/ ServeDrop \/ ServeDropEarly \/ ServeClose \/ SelectError \/ ServeUnset
            \/ Timer \/ Restart
            \/ \E c \in Conns : Connect(c)
            \/ \E f \in Files : AskCheck(f)
            \/ \E f \in Files, s \in Servers : AskSend(f, s)
            \/ \E f \in Files : Remove(f)
            \/ \E c \in Conns : Accept(c)
  BY <1>10 DEF vars, Connect, ftp, history, SetLogin, conn, SetRunning, Receive, Break,
      StopRunning, BreakEarly, CloseSocket, SetLogout, AskCheck, AskSend, Remove, Accept,
      control, AddXmlNode, ServeSave, reports, ServeSaveFails, Ftp_Report_Info, ServePost,
      ServeDrop, GiveUp, ServeDropEarly, ServeClose, Shut, SelectError, ServeUnset, Timer,
      Restart, TypeOK, DealType
<1>11. QED
  BY <1>1, <1>2, <1>3, <1>4, <1>5, <1>6, <1>7, <1>8, <1>9, <1>10
  DEF Next, ComNext, ServeGoesOn, DealGoesOn

\* The tree, the configuration and UploadConfig.xml keep their types.
LEMMA TreeTypeNext ==
  ASSUME TypeOK, Sockets, Walk, [Next]_vars
  PROVE  TreeType'
<1>1. CASE AddXmlNode
  <2>1. serve.sock \in Conns
    BY <1>1 DEF AddXmlNode, Sockets
  <2>2. Head(req[serve.sock]) \in Requests
    BY <1>1, <2>1, HeadTail DEF AddXmlNode, TypeOK, NetType
  <2>3. Head(req[serve.sock]).f \in Files /\ Head(req[serve.sock]).s \in Servers
    BY <2>2 DEF Requests
  <2>4. Append(px.l, Head(req[serve.sock]).f) \in Seq(Files)
    BY <2>3, Added DEF TypeOK, TreeType
  <2>5. QED
    BY <1>1, <2>3, <2>4 DEF AddXmlNode, Torn, TypeOK, TreeType
<1>2. CASE ServeSave
  BY <1>2 DEF ServeSave, Saved, conn, control, reports, TypeOK, TreeType, ServeType
<1>3. CASE DealRemove
  <2>1. Without(px.l, deal.i) \in Seq(Files)
    BY <1>3, WithoutSeq DEF DealRemove, Walk, TypeOK, TreeType
  <2>2. QED
    BY <1>3, <2>1 DEF DealRemove, Torn, TypeOK, TreeType
<1>4. CASE DealSave
  BY <1>4 DEF DealSave, Saved, DealIdle, conn, control, history, TypeOK, TreeType
<1>5. CASE Crash
  BY <1>5 DEF Crash, Fault, Shut, NoTree, DealIdle, ServeIdle, control, reports, TypeOK,
      TreeType
<1>6. CASE Restart
  BY <1>6 DEF Restart, Saved, NoTree, conn, control, history, TypeOK, TreeType
<1>7. CASE \/ UNCHANGED vars
           \/ SetLogin \/ SetRunning \/ Receive \/ Break \/ BreakEarly \/ CloseSocket
           \/ SetLogout \/ ServeSaveFails \/ ServePost \/ ServeDrop \/ ServeDropEarly
           \/ ServeClose \/ SelectError \/ ServeUnset \/ DealTake \/ DealEnd
           \/ DealNext \/ DealReport \/ DealSaveFails \/ Timer
           \/ \E c \in Conns : Connect(c)
           \/ \E f \in Files : AskCheck(f)
           \/ \E f \in Files, s \in Servers : AskSend(f, s)
           \/ \E f \in Files : Remove(f)
           \/ \E c \in Conns : Accept(c)
           \/ \E r \in {"ok", "err", "invalid"} : DealSend(r)
  BY <1>7 DEF vars, Connect, ftp, history, SetLogin, conn, SetRunning, Receive, Break,
      StopRunning, BreakEarly, CloseSocket, SetLogout, AskCheck, AskSend, Remove, Accept,
      control, ServeSaveFails, Ftp_Report_Info, ServePost, ServeDrop, GiveUp,
      ServeDropEarly, ServeClose, Shut, SelectError, ServeUnset, DealTake, DealEnd,
      DealNext, DealSend, reports, DealReport, DealSaveFails, Timer, TypeOK, TreeType
<1>8. QED
  BY <1>1, <1>2, <1>3, <1>4, <1>5, <1>6, <1>7
  DEF Next, ComNext, ServeGoesOn, DealGoesOn

\* The message queue and the failures stay within their bounds.
LEMMA CountTypeNext ==
  ASSUME TypeOK, [Next]_vars
  PROVE  CountType'
<1>1. CASE BreakEarly
  BY <1>1, UploadAssumption DEF BreakEarly, StopRunning, Fault, conn, ftp, history,
      TypeOK, CountType
<1>2. CASE ServeSaveFails
  BY <1>2, UploadAssumption DEF ServeSaveFails, Fault, Ftp_Report_Info, Delivered,
      ServeIdle, control, TypeOK, CountType
<1>3. CASE ServePost
  BY <1>3, UploadAssumption DEF ServePost, ServeIdle, conn, control, history, TypeOK,
      CountType
<1>4. CASE ServeDropEarly
  BY <1>4, UploadAssumption DEF ServeDropEarly, GiveUp, Fault, conn, control, history,
      TypeOK, CountType
<1>5. CASE SelectError
  BY <1>5, UploadAssumption DEF SelectError, Shut, Fault, ServeIdle, control, history,
      TypeOK, CountType
<1>6. CASE DealTake
  BY <1>6, UploadAssumption DEF DealTake, DealIdle, NodeAt, conn, control, history,
      TypeOK, CountType
<1>7. CASE DealSaveFails
  BY <1>7, UploadAssumption DEF DealSaveFails, Fault, Ftp_Report_Info, Delivered,
      DealIdle, control, TypeOK, CountType
<1>8. CASE Timer
  BY <1>8, UploadAssumption DEF Timer, conn, control, history, TypeOK, CountType
<1>9. CASE Crash
  BY <1>9, UploadAssumption DEF Crash, Fault, Shut, NoTree, DealIdle, ServeIdle, control,
      reports, TypeOK, CountType
<1>10. CASE Restart
  BY <1>10, UploadAssumption DEF Restart, Saved, NoTree, conn, control, history, TypeOK,
      CountType
<1>11. CASE \/ UNCHANGED vars
            \/ SetLogin \/ SetRunning \/ Receive \/ Break \/ CloseSocket \/ SetLogout
            \/ AddXmlNode \/ ServeSave \/ ServeDrop \/ ServeClose \/ ServeUnset
            \/ DealEnd \/ DealNext \/ DealReport \/ DealRemove \/ DealSave
            \/ \E c \in Conns : Connect(c)
            \/ \E f \in Files : AskCheck(f)
            \/ \E f \in Files, s \in Servers : AskSend(f, s)
            \/ \E f \in Files : Remove(f)
            \/ \E c \in Conns : Accept(c)
            \/ \E r \in {"ok", "err", "invalid"} : DealSend(r)
  BY <1>11 DEF vars, Connect, ftp, history, SetLogin, conn, SetRunning, Receive, Break,
      StopRunning, CloseSocket, SetLogout, AskCheck, AskSend, Remove, Accept, control,
      AddXmlNode, ServeSave, reports, ServeDrop, GiveUp, ServeClose, Shut, ServeUnset,
      DealEnd, DealNext, DealSend, DealReport, Ftp_Report_Info, DealRemove, DealSave,
      TypeOK, CountType
<1>12. QED
  BY <1>1, <1>2, <1>3, <1>4, <1>5, <1>6, <1>7, <1>8, <1>9, <1>10, <1>11
  DEF Next, ComNext, ServeGoesOn, DealGoesOn

\* The flags stay flags.
LEMMA FlagTypeNext ==
  ASSUME TypeOK, [Next]_vars
  PROVE  FlagType'
<1>1. CASE DealTake
  BY <1>1 DEF DealTake, DealIdle, NodeAt, conn, control, history, TypeOK, FlagType
<1>2. CASE DealEnd
  BY <1>2 DEF DealEnd, DealIdle, conn, control, history, TypeOK, FlagType
<1>3. CASE Crash
  BY <1>3 DEF Crash, Fault, Shut, NoTree, DealIdle, ServeIdle, control, reports, TypeOK,
      FlagType
<1>4. CASE Restart
  BY <1>4 DEF Restart, Saved, NoTree, conn, control, history, TypeOK, FlagType
<1>5. CASE \/ UNCHANGED vars
           \/ SetLogin \/ SetRunning \/ Receive \/ Break \/ BreakEarly \/ CloseSocket
           \/ SetLogout \/ AddXmlNode \/ ServeSave \/ ServeSaveFails \/ ServePost
           \/ ServeDrop \/ ServeDropEarly \/ ServeClose \/ SelectError \/ ServeUnset
           \/ DealNext \/ DealReport \/ DealRemove \/ DealSave \/ DealSaveFails
           \/ Timer
           \/ \E c \in Conns : Connect(c)
           \/ \E f \in Files : AskCheck(f)
           \/ \E f \in Files, s \in Servers : AskSend(f, s)
           \/ \E f \in Files : Remove(f)
           \/ \E c \in Conns : Accept(c)
           \/ \E r \in {"ok", "err", "invalid"} : DealSend(r)
  BY <1>5 DEF vars, Connect, ftp, history, SetLogin, conn, SetRunning, Receive, Break,
      StopRunning, BreakEarly, CloseSocket, SetLogout, AskCheck, AskSend, Remove, Accept,
      control, AddXmlNode, ServeSave, reports, ServeSaveFails, Ftp_Report_Info, ServePost,
      ServeDrop, GiveUp, ServeDropEarly, ServeClose, Shut, SelectError, ServeUnset,
      DealNext, DealSend, DealReport, DealRemove, DealSave, DealSaveFails, Timer, TypeOK,
      FlagType
<1>6. QED
  BY <1>1, <1>2, <1>3, <1>4, <1>5
  DEF Next, ComNext, ServeGoesOn, DealGoesOn

\* The history keeps its type.
LEMMA HistoryTypeNext ==
  ASSUME TypeOK, Ends, Walk, [Next]_vars
  PROVE  HistoryType'
<1>1. CASE CloseSocket
  <2>1. com.sock \in Conns
    BY <1>1 DEF CloseSocket, Ends
  <2>2. rep[com.sock] \in Seq(Reports)
    BY <2>1 DEF TypeOK, NetType
  <2>3. ASSUME NEW x \in InSeq(rep[com.sock]) PROVE x.f \in Files
    <3>1. x \in Reports
      BY <2>2 DEF InSeq
    <3>2. QED
      BY <3>1 DEF Reports
  <2>4. QED
    BY <1>1, <2>3 DEF CloseSocket, TypeOK, HistoryType
<1>2. ASSUME NEW f \in Files, Remove(f) PROVE HistoryType'
  BY <1>2 DEF Remove, conn, ftp, history, TypeOK, HistoryType
<1>3. CASE ServeSave
  <2>1. serve.f \in Files
    BY <1>3 DEF ServeSave, Walk, InSeq, TypeOK, TreeType
  <2>2. deal.pc \in {"send", "report"} => deal.f \in Files
    BY DEF Walk, TypeOK, TreeType
  <2>3. QED
    BY <1>3, <2>1, <2>2 DEF ServeSave, reports, TypeOK, HistoryType
<1>4. CASE ServeSaveFails
  <2>1. serve.f \in Files
    BY <1>4 DEF ServeSaveFails, Walk, InSeq, TypeOK, TreeType
  <2>2. QED
    BY <1>4, <2>1, ReportType DEF ServeSaveFails, TypeOK, HistoryType
<1>5. ASSUME NEW r \in {"ok", "err", "invalid"}, DealSend(r) PROVE HistoryType'
  BY <1>5 DEF DealSend, conn, control, reports, TypeOK, HistoryType, Walk, TreeType,
      DealType
<1>6. CASE DealReport
  <2>1. deal.f \in Files
    BY <1>6 DEF DealReport, Walk, TypeOK, TreeType
  <2>2. QED
    BY <1>6, <2>1, ReportType DEF DealReport, TypeOK, HistoryType, TreeType
<1>7. CASE DealSaveFails
  <2>1. deal.f \in Files
    BY <1>7 DEF DealSaveFails, Walk
  <2>2. QED
    BY <1>7, <2>1, ReportType DEF DealSaveFails, TypeOK, HistoryType
<1>8. CASE \/ UNCHANGED vars
           \/ SetLogin \/ SetRunning \/ Receive \/ Break \/ BreakEarly \/ SetLogout
           \/ AddXmlNode \/ ServePost \/ ServeDrop \/ ServeDropEarly \/ ServeClose
           \/ SelectError \/ ServeUnset \/ DealTake \/ DealEnd \/ DealNext
           \/ DealRemove \/ DealSave \/ Timer \/ Crash \/ Restart
           \/ \E c \in Conns : Connect(c)
           \/ \E f \in Files : AskCheck(f)
           \/ \E f \in Files, s \in Servers : AskSend(f, s)
           \/ \E c \in Conns : Accept(c)
  BY <1>8 DEF vars, Connect, ftp, history, SetLogin, conn, SetRunning, Receive, Break,
      StopRunning, BreakEarly, SetLogout, AskCheck, AskSend, Accept, control, AddXmlNode,
      ServePost, ServeDrop, GiveUp, ServeDropEarly, ServeClose, Shut, SelectError,
      ServeUnset, DealTake, DealEnd, DealNext, DealRemove, DealSave, Timer, Crash,
      reports, Restart, TypeOK, HistoryType
<1>9. QED
  BY <1>1, <1>2, <1>3, <1>4, <1>5, <1>6, <1>7, <1>8
  DEF Next, ComNext, ServeGoesOn, DealGoesOn

-----------------------------------------------------------------------------
(* What the threads hold.                                                  *)

\* A crash ends every thread, and only a living process starts one.
LEMMA DeadIsIdleNext ==
  ASSUME DeadIsIdle, [Next]_vars
  PROVE  DeadIsIdle'
<1>1. ASSUME NEW c \in Conns, Accept(c) PROVE DeadIsIdle'
  BY <1>1 DEF Accept, control, history, DeadIsIdle
<1>2. CASE Crash
  BY <1>2 DEF Crash, Fault, Shut, NoTree, DealIdle, ServeIdle, control, reports,
      DeadIsIdle
<1>3. CASE Restart
  BY <1>3 DEF Restart, Saved, NoTree, conn, control, history, DeadIsIdle
<1>4. CASE \/ UNCHANGED vars
           \/ SetLogin \/ SetRunning \/ Receive \/ Break \/ BreakEarly
           \/ \E c \in Conns : Connect(c)
  BY <1>4 DEF vars, Connect, ftp, history, SetLogin, conn, SetRunning, Receive, Break,
      StopRunning, BreakEarly, DeadIsIdle
<1>5. CASE \/ CloseSocket \/ SetLogout \/ AddXmlNode
           \/ \E f \in Files : AskCheck(f)
           \/ \E f \in Files, s \in Servers : AskSend(f, s)
           \/ \E f \in Files : Remove(f)
  BY <1>5 DEF vars, CloseSocket, ftp, SetLogout, conn, history, AskCheck, AskSend, Remove,
      AddXmlNode, control, DeadIsIdle
<1>6. CASE \/ ServeSave \/ ServeSaveFails \/ ServePost \/ ServeDrop \/ ServeDropEarly
           \/ ServeClose
  BY <1>6 DEF vars, ServeSave, conn, control, reports, ServeSaveFails, Ftp_Report_Info,
      ServePost, history, ServeDrop, GiveUp, ServeDropEarly, ServeClose, Shut, DeadIsIdle
<1>7. CASE \/ SelectError \/ ServeUnset \/ DealTake \/ DealEnd \/ DealNext
           \/ \E r \in {"ok", "err", "invalid"} : DealSend(r)
  BY <1>7 DEF vars, SelectError, Shut, control, history, ServeUnset, conn, DealTake,
      DealEnd, DealNext, DealSend, reports, DeadIsIdle
<1>8. CASE \/ DealReport \/ DealRemove \/ DealSave \/ DealSaveFails \/ Timer
  BY <1>8 DEF vars, DealReport, Ftp_Report_Info, control, DealRemove, conn, history,
      DealSave, DealSaveFails, Timer, DeadIsIdle
<1>9. QED
  BY <1>1, <1>2, <1>3, <1>4, <1>5, <1>6, <1>7, <1>8
  DEF Next, ComNext, ServeGoesOn, DealGoesOn

\* Connections are opened by control only, and closed at both ends.
LEMMA EndsNext ==
  ASSUME TypeOK, Ends, Sockets, [Next]_vars
  PROVE  Ends'
<1>1. ASSUME NEW c \in Conns, Connect(c) PROVE Ends'
  BY <1>1 DEF Connect, ftp, history, TypeOK, NetType, ControlType, Conns, Ends
<1>2. CASE SetLogin
  BY <1>2 DEF SetLogin, conn, ftp, history, TypeOK, NetType, ControlType, Conns, Ends
<1>3. CASE SetRunning
  BY <1>3 DEF SetRunning, conn, ftp, history, TypeOK, NetType, ControlType, Conns, Ends
<1>4. CASE Receive
  BY <1>4 DEF Receive, Listed, ftp, history, TypeOK, NetType, ControlType, Conns, Ends
<1>5. CASE Break
  BY <1>5 DEF Break, StopRunning, conn, ftp, history, TypeOK, NetType, ControlType, Conns,
      Ends
<1>6. CASE BreakEarly
  BY <1>6 DEF BreakEarly, StopRunning, Fault, conn, ftp, history, TypeOK, NetType,
      ControlType, Conns, Ends
<1>7. CASE CloseSocket
  BY <1>7 DEF CloseSocket, InSeq, ftp, TypeOK, NetType, ControlType, Conns, Ends
<1>8. CASE SetLogout
  BY <1>8 DEF SetLogout, conn, ftp, history, TypeOK, NetType, ControlType, Conns, Ends
<1>9. ASSUME NEW c \in Conns, Accept(c) PROVE Ends'
  BY <1>9 DEF Accept, control, history, TypeOK, NetType, ControlType, Conns, Ends
<1>10. CASE ServeSaveFails
  <2>1. \/ rep' = rep
        \/ /\ fsock \in Conns /\ cend[fsock] = "open"
           /\ \A c \in Conns \ {fsock} : rep'[c] = rep[c]
    BY <1>10 DEF ServeSaveFails, Ftp_Report_Info, Delivered, TypeOK, NetType, ServeType
  <2>2. QED
    BY <1>10, <2>1 DEF ServeSaveFails, control, Ends
<1>11. CASE ServeClose
  BY <1>11 DEF ServeClose, Shut, ServeIdle, control, history, TypeOK, NetType,
      ControlType, Conns, Ends, Sockets
<1>12. CASE SelectError
  BY <1>12 DEF SelectError, Shut, Fault, ServeIdle, control, history, TypeOK, NetType,
      ControlType, Conns, Ends, Sockets
<1>13. CASE DealReport
  <2>1. \/ rep' = rep
        \/ /\ fsock \in Conns /\ cend[fsock] = "open"
           /\ \A c \in Conns \ {fsock} : rep'[c] = rep[c]
    BY <1>13 DEF DealReport, Ftp_Report_Info, Delivered, TypeOK, NetType, ServeType
  <2>2. QED
    BY <1>13, <2>1 DEF DealReport, control, Ends
<1>14. CASE DealSaveFails
  <2>1. \/ rep' = rep
        \/ /\ fsock \in Conns /\ cend[fsock] = "open"
           /\ \A c \in Conns \ {fsock} : rep'[c] = rep[c]
    BY <1>14 DEF DealSaveFails, Ftp_Report_Info, Delivered, TypeOK, NetType, ServeType
  <2>2. QED
    BY <1>14, <2>1 DEF DealSaveFails, control, Ends
<1>15. CASE Crash
  BY <1>15 DEF Crash, Fault, Shut, NoTree, DealIdle, ServeIdle, control, reports, TypeOK,
      NetType, ControlType, Conns, Ends
<1>16. CASE \/ UNCHANGED vars
            \/ AddXmlNode \/ ServeSave \/ ServePost \/ ServeDrop \/ ServeDropEarly
            \/ ServeUnset \/ DealTake \/ DealEnd \/ DealNext \/ DealRemove \/ DealSave
            \/ Timer \/ Restart
            \/ \E f \in Files : AskCheck(f)
            \/ \E f \in Files, s \in Servers : AskSend(f, s)
            \/ \E f \in Files : Remove(f)
            \/ \E r \in {"ok", "err", "invalid"} : DealSend(r)
  BY <1>16 DEF vars, AskCheck, conn, ftp, history, AskSend, Remove, AddXmlNode, control,
      ServeSave, reports, ServePost, ServeDrop, GiveUp, ServeDropEarly, ServeUnset,
      DealTake, DealEnd, DealNext, DealSend, DealRemove, DealSave, Timer, Restart, TypeOK,
      NetType, ControlType, Conns, Ends
<1>17. QED
  BY <1>1, <1>2, <1>3, <1>4, <1>5, <1>6, <1>7, <1>8, <1>9, <1>10, <1>11,
     <1>12, <1>13, <1>14, <1>15, <1>16
  DEF Next, ComNext, ServeGoesOn, DealGoesOn

\* ServeTask reads from the socket it stored.
LEMMA SocketsNext ==
  ASSUME TypeOK, Ends, Sockets, [Next]_vars
  PROVE  Sockets'
<1>1. ASSUME NEW c \in Conns, Connect(c) PROVE Sockets'
  BY <1>1 DEF Connect, ftp, history, TypeOK, NetType, ServeType, Conns, Sockets, Ends
<1>2. ASSUME NEW c \in Conns, Accept(c) PROVE Sockets'
  BY <1>2 DEF Accept, control, history, TypeOK, NetType, ServeType, Conns, Sockets
<1>3. CASE AddXmlNode
  BY <1>3 DEF AddXmlNode, Torn, XmlFree, control, history, TypeOK, NetType, ServeType,
      Conns, Sockets
<1>4. CASE ServeSave
  BY <1>4 DEF ServeSave, Saved, conn, control, reports, TypeOK, NetType, ServeType, Conns,
      Sockets
<1>5. CASE ServeSaveFails
  BY <1>5 DEF ServeSaveFails, Fault, Ftp_Report_Info, Delivered, ServeIdle, control,
      TypeOK, NetType, ServeType, Conns, Sockets
<1>6. CASE ServePost
  BY <1>6 DEF ServePost, ServeIdle, conn, control, history, TypeOK, NetType, ServeType,
      Conns, Sockets
<1>7. CASE ServeDrop
  BY <1>7 DEF ServeDrop, GiveUp, conn, control, history, TypeOK, NetType, ServeType,
      Conns, Sockets
<1>8. CASE ServeDropEarly
  BY <1>8 DEF ServeDropEarly, GiveUp, Fault, conn, control, history, TypeOK, NetType,
      ServeType, Conns, Sockets
<1>9. CASE ServeClose
  BY <1>9 DEF ServeClose, Shut, ServeIdle, control, history, TypeOK, NetType, ServeType,
      Conns, Sockets
<1>10. CASE SelectError
  BY <1>10 DEF SelectError, Shut, Fault, ServeIdle, control, history, TypeOK, NetType,
      ServeType, Conns, Sockets
<1>11. CASE ServeUnset
  BY <1>11 DEF ServeUnset, ServeIdle, conn, control, history, TypeOK, NetType, ServeType,
      Conns, Sockets
<1>12. CASE Crash
  BY <1>12 DEF Crash, Fault, Shut, NoTree, DealIdle, ServeIdle, control, reports, TypeOK,
      NetType, ServeType, Conns, Sockets
<1>13. CASE \/ UNCHANGED vars
            \/ SetLogin \/ SetRunning \/ Receive \/ Break \/ BreakEarly \/ CloseSocket
            \/ SetLogout \/ DealTake \/ DealEnd \/ DealNext \/ DealReport \/ DealRemove
            \/ DealSave \/ DealSaveFails \/ Timer \/ Restart
            \/ \E f \in Files : AskCheck(f)
            \/ \E f \in Files, s \in Servers : AskSend(f, s)
            \/ \E f \in Files : Remove(f)
            \/ \E r \in {"ok", "err", "invalid"} : DealSend(r)
  BY <1>13 DEF vars, SetLogin, conn, ftp, history, SetRunning, Receive, Break,
      StopRunning, BreakEarly, CloseSocket, SetLogout, AskCheck, AskSend, Remove,
      DealTake, control, DealEnd, DealNext, DealSend, reports, DealReport,
      Ftp_Report_Info, DealRemove, DealSave, DealSaveFails, Timer, Restart, TypeOK,
      NetType, ServeType, Conns, Sockets
<1>14. QED
  BY <1>1, <1>2, <1>3, <1>4, <1>5, <1>6, <1>7, <1>8, <1>9, <1>10, <1>11,
     <1>12, <1>13
  DEF Next, ComNext, ServeGoesOn, DealGoesOn

\* The pass keeps its place while requests are added behind it.
LEMMA WalkNext ==
  ASSUME TypeOK, Sockets, DeadIsIdle, Walk, [Next]_vars
  PROVE  Walk'
<1>1. ASSUME NEW f \in Files, Remove(f) PROVE Walk'
  BY <1>1 DEF Remove, conn, ftp, history, TypeOK, TreeType, DealType, ServeType, Walk
<1>2. ASSUME NEW c \in Conns, Accept(c) PROVE Walk'
  BY <1>2 DEF Accept, control, history, TypeOK, TreeType, DealType, ServeType, Walk
<1>3. CASE AddXmlNode
  <2>1. serve.sock \in Conns
    BY <1>3 DEF AddXmlNode, Sockets
  <2>2. Head(req[serve.sock]) \in Requests
    BY <1>3, <2>1, HeadTail DEF AddXmlNode, TypeOK, NetType
  <2>3. Head(req[serve.sock]).f \in Files /\ Head(req[serve.sock]).s \in Servers
    BY <2>2 DEF Requests
  <2> DEFINE x == Head(req[serve.sock]).f
  <2>4. /\ DOMAIN px.l \subseteq DOMAIN Append(px.l, x)
        /\ \A i \in DOMAIN px.l : Append(px.l, x)[i] = px.l[i]
        /\ x \in InSeq(Append(px.l, x))
    BY <2>3, AppendKeeps DEF TypeOK, TreeType
  <2>5. /\ px'.l = Append(px.l, x) /\ serve'.f = x /\ deal.pc # "save"
        /\ UNCHANGED <<deal, places, gone>>
    BY <1>3 DEF AddXmlNode, XmlFree, history, TypeOK, ServeType
  <2> HIDE DEF x
  <2>6. QED
    BY <2>4, <2>5 DEF Walk
<1>4. CASE ServeSave
  BY <1>4 DEF ServeSave, Saved, conn, control, reports, TypeOK, TreeType, DealType,
      ServeType, Walk
<1>5. CASE ServeSaveFails
  BY <1>5 DEF ServeSaveFails, Fault, Ftp_Report_Info, Delivered, ServeIdle, control,
      TypeOK, TreeType, DealType, ServeType, Walk
<1>6. CASE ServePost
  BY <1>6 DEF ServePost, ServeIdle, conn, control, history, TypeOK, TreeType, DealType,
      ServeType, Walk
<1>7. CASE ServeDrop
  BY <1>7 DEF ServeDrop, GiveUp, conn, control, history, TypeOK, TreeType, DealType,
      ServeType, Walk
<1>8. CASE ServeDropEarly
  BY <1>8 DEF ServeDropEarly, GiveUp, Fault, conn, control, history, TypeOK, TreeType,
      DealType, ServeType, Walk
<1>9. CASE ServeClose
  BY <1>9 DEF ServeClose, Shut, ServeIdle, control, history, TypeOK, TreeType, DealType,
      ServeType, Walk
<1>10. CASE SelectError
  BY <1>10 DEF SelectError, Shut, Fault, ServeIdle, control, history, TypeOK, TreeType,
      DealType, ServeType, Walk
<1>11. CASE ServeUnset
  BY <1>11 DEF ServeUnset, ServeIdle, conn, control, history, TypeOK, TreeType, DealType,
      ServeType, Walk
<1>12. CASE DealTake
  BY <1>12 DEF DealTake, DealIdle, NodeAt, conn, control, history, TypeOK, TreeType,
      DealType, ServeType, Walk
<1>13. CASE DealEnd
  BY <1>13 DEF DealEnd, DealIdle, conn, control, history, TypeOK, TreeType, DealType,
      ServeType, Walk
<1>14. CASE DealNext
  BY <1>14 DEF DealNext, Destination, XmlFree, conn, control, history, TypeOK, TreeType,
      DealType, ServeType, Walk
<1>15. ASSUME NEW r \in {"ok", "err", "invalid"}, DealSend(r) PROVE Walk'
  <2>1. /\ deal.pc = "send" /\ deal'.pc = "report" /\ deal'.i = deal.i
        /\ deal'.f = deal.f /\ deal'.r = r /\ (r = "invalid" => deal.f \in gone)
        /\ UNCHANGED <<px, serve, gone>>
    BY <1>15 DEF DealSend, TypeOK, DealType
  <2>2. deal.f \in Files
    BY <2>1 DEF Walk, TypeOK, TreeType
  <2>3. r = "ok" => places'[deal.f] # {}
    BY <1>15, <2>2 DEF DealSend, TypeOK, HistoryType
  <2>4. QED
    BY <2>1, <2>3 DEF Walk
<1>16. CASE DealReport
  BY <1>16 DEF DealReport, Ftp_Report_Info, Delivered, control, TypeOK, TreeType,
      DealType, ServeType, Walk
<1>17. CASE DealRemove
  BY <1>17 DEF DealRemove, Finished, Without, NodeAt, Torn, XmlFree, conn, control,
      history, TypeOK, TreeType, DealType, ServeType, Walk
<1>18. CASE DealSave
  BY <1>18 DEF DealSave, Saved, DealIdle, conn, control, history, TypeOK, TreeType,
      DealType, ServeType, Walk
<1>19. CASE DealSaveFails
  BY <1>19 DEF DealSaveFails, Fault, Ftp_Report_Info, Delivered, DealIdle, control,
      TypeOK, TreeType, DealType, ServeType, Walk
<1>20. CASE Crash
  BY <1>20 DEF Crash, Fault, Shut, NoTree, DealIdle, ServeIdle, control, reports, TypeOK,
      TreeType, DealType, ServeType, Walk
<1>21. CASE Restart
  <2>1. deal = DealIdle /\ serve = ServeIdle /\ UNCHANGED <<deal, serve>>
    BY <1>21 DEF Restart, DeadIsIdle
  <2>2. QED
    BY <2>1 DEF DealIdle, ServeIdle, Walk
<1>22. CASE \/ UNCHANGED vars
            \/ SetLogin \/ SetRunning \/ Receive \/ Break \/ BreakEarly \/ CloseSocket
            \/ SetLogout \/ Timer
            \/ \E c \in Conns : Connect(c)
            \/ \E f \in Files : AskCheck(f)
            \/ \E f \in Files, s \in Servers : AskSend(f, s)
  <2>1. UNCHANGED <<serve, deal, px, places, gone>>
    BY <1>22 DEF vars, Connect, ftp, history, SetLogin, conn, SetRunning, Receive, Break,
        StopRunning, BreakEarly, CloseSocket, SetLogout, AskCheck, AskSend, Timer, control
  <2>2. QED
    BY <2>1 DEF TypeOK, TreeType, DealType, ServeType, Walk
<1>23. QED
  BY <1>1, <1>2, <1>3, <1>4, <1>5, <1>6, <1>7, <1>8, <1>9, <1>10, <1>11,
     <1>12, <1>13, <1>14, <1>15, <1>16, <1>17, <1>18, <1>19, <1>20, <1>21, <1>22
  DEF Next, ComNext, ServeGoesOn, DealGoesOn

\* Only a crash in the midst of writing leaves a file that cannot be parsed.
LEMMA TornIsKnownNext ==
  ASSUME TornIsKnown, [Next]_vars
  PROVE  TornIsKnown'
<1>1. CASE Crash
  BY <1>1 DEF Crash, Fault, Shut, NoTree, DealIdle, ServeIdle, control, reports,
      TornIsKnown
<1>2. CASE Restart
  BY <1>2 DEF Restart, Saved, NoTree, conn, control, history, TornIsKnown
<1>3. CASE \/ UNCHANGED vars
           \/ SetLogin \/ SetRunning \/ Receive \/ Break \/ BreakEarly \/ CloseSocket
           \/ SetLogout \/ AddXmlNode \/ ServeSave \/ ServeSaveFails \/ ServePost
           \/ ServeDrop \/ ServeDropEarly \/ ServeClose \/ SelectError \/ ServeUnset
           \/ DealTake \/ DealEnd \/ DealNext \/ DealReport \/ DealRemove \/ DealSave
           \/ DealSaveFails \/ Timer
           \/ \E c \in Conns : Connect(c)
           \/ \E f \in Files : AskCheck(f)
           \/ \E f \in Files, s \in Servers : AskSend(f, s)
           \/ \E f \in Files : Remove(f)
           \/ \E c \in Conns : Accept(c)
           \/ \E r \in {"ok", "err", "invalid"} : DealSend(r)
  BY <1>3 DEF vars, Connect, ftp, history, SetLogin, conn, SetRunning, Receive, Break,
      StopRunning, BreakEarly, CloseSocket, SetLogout, AskCheck, AskSend, Remove, Accept,
      control, AddXmlNode, ServeSave, reports, ServeSaveFails, Ftp_Report_Info, ServePost,
      ServeDrop, GiveUp, ServeDropEarly, ServeClose, Shut, SelectError, ServeUnset,
      DealTake, DealEnd, DealNext, DealSend, DealReport, DealRemove, DealSave,
      DealSaveFails, Timer, TornIsKnown
<1>4. QED
  BY <1>1, <1>2, <1>3
  DEF Next, ComNext, ServeGoesOn, DealGoesOn

-----------------------------------------------------------------------------
(* The files still to upload.                                              *)

\* No step takes an unfinished file out of the list or of UploadConfig.xml.
LEMMA NotForgottenNext ==
  ASSUME TypeOK, Sockets, Walk, TornIsKnown, NotForgotten, [Next]_vars
  PROVE  NotForgotten'
<1>1. ASSUME NEW f \in Files, Remove(f) PROVE NotForgotten'
  BY <1>1 DEF Remove, conn, ftp, history, NotForgotten, Pending
<1>2. CASE AddXmlNode
  <2>1. serve.sock \in Conns
    BY <1>2 DEF AddXmlNode, Sockets
  <2>2. Head(req[serve.sock]) \in Requests
    BY <1>2, <2>1, HeadTail DEF AddXmlNode, TypeOK, NetType
  <2>3. Head(req[serve.sock]).f \in Files /\ Head(req[serve.sock]).s \in Servers
    BY <2>2 DEF Requests
  <2>4. InSeq(px.l) \subseteq InSeq(Append(px.l, Head(req[serve.sock]).f))
    BY <2>3, AppendKeeps DEF TypeOK, TreeType
  <2>5. QED
    BY <1>2, <2>4 DEF AddXmlNode, Torn, history, NotForgotten, Pending
<1>3. CASE ServeSave
  <2>1. serve.f \in InSeq(px.l) /\ alive /\ px' = px /\ disk'.l = px.l
    BY <1>3 DEF ServeSave, Saved, Walk
  <2>2. /\ accepted' = accepted \cup {serve.f}
        /\ UNCHANGED <<places, gone, torn>>
    BY <1>3 DEF ServeSave
  <2>3. QED
    BY <2>1, <2>2 DEF NotForgotten, Pending
<1>4. ASSUME NEW r \in {"ok", "err", "invalid"}, DealSend(r) PROVE NotForgotten'
  BY <1>4 DEF DealSend, conn, control, reports, NotForgotten, Pending
<1>5. CASE DealRemove
  <2> SUFFICES ASSUME NEW f \in Files, Pending(f), ~torn
               PROVE  f \in InSeq(px'.l)
    BY <1>5 DEF DealRemove, Torn, history, NotForgotten, Pending
  <2>1. PICK j \in DOMAIN px.l : px.l[j] = f
    BY <1>5 DEF DealRemove, NotForgotten, InSeq
  <2>2. deal.i \in DOMAIN px.l /\ px.l[deal.i] = deal.f
    BY <1>5 DEF DealRemove, Walk
  <2>3. CASE Finished
    <3>1. deal.f # f
      BY <1>5, <2>3 DEF DealRemove, Finished, Walk, Pending
    <3>2. f \in InSeq(Without(px.l, deal.i))
      BY <2>1, <2>2, <3>1, WithoutSeq DEF TypeOK, TreeType
    <3>3. QED
      BY <1>5, <2>3, <3>2 DEF DealRemove, TypeOK, TreeType
  <2>4. CASE ~Finished
    BY <1>5, <2>1, <2>4 DEF DealRemove, InSeq, TypeOK, TreeType
  <2>5. QED
    BY <2>3, <2>4
<1>6. CASE DealSave
  BY <1>6 DEF DealSave, Saved, DealIdle, conn, control, history, NotForgotten, Pending
<1>7. CASE Crash
  BY <1>7 DEF Crash, Fault, Shut, NoTree, DealIdle, ServeIdle, control, reports,
      NotForgotten, Pending
<1>8. CASE Restart
  <2>1. ~disk.ok => torn
    BY <1>8 DEF Restart, TornIsKnown
  <2>2. disk.ok => px'.l = disk.l /\ disk' = disk
    BY <1>8 DEF Restart
  <2>3. UNCHANGED <<accepted, places, gone, torn>>
    BY <1>8 DEF Restart, history
  <2>4. QED
    BY <2>1, <2>2, <2>3 DEF NotForgotten, Pending
<1>9. CASE \/ UNCHANGED vars
           \/ SetLogin \/ SetRunning \/ Receive \/ Break \/ BreakEarly \/ CloseSocket
           \/ SetLogout \/ ServeSaveFails \/ ServePost \/ ServeDrop \/ ServeDropEarly
           \/ ServeClose \/ SelectError \/ ServeUnset \/ DealTake \/ DealEnd
           \/ DealNext \/ DealReport \/ DealSaveFails \/ Timer
           \/ \E c \in Conns : Connect(c)
           \/ \E f \in Files : AskCheck(f)
           \/ \E f \in Files, s \in Servers : AskSend(f, s)
           \/ \E c \in Conns : Accept(c)
  <2>1. UNCHANGED <<alive, px, disk, accepted, places, gone, torn>>
    BY <1>9 DEF vars, Connect, ftp, history, SetLogin, conn, SetRunning, Receive, Break,
        StopRunning, BreakEarly, CloseSocket, SetLogout, AskCheck, AskSend, Accept,
        control, ServeSaveFails, Ftp_Report_Info, ServePost, ServeDrop, GiveUp,
        ServeDropEarly, ServeClose, Shut, SelectError, ServeUnset, DealTake, DealEnd,
        DealNext, DealReport, DealSaveFails, Timer
  <2>2. QED
    BY <2>1 DEF NotForgotten, Pending
<1>10. QED
  BY <1>1, <1>2, <1>3, <1>4, <1>5, <1>6, <1>7, <1>8, <1>9
  DEF Next, ComNext, ServeGoesOn, DealGoesOn

-----------------------------------------------------------------------------
(* What the reports say.                                                   *)

\* A request that changes the server marks the file under way.
LEMMA SameServerNext ==
  ASSUME TypeOK, DeadIsIdle, Walk, SameServer, [Next]_vars
  PROVE  SameServer'
<1>1. CASE ServeSave
  BY <1>1 DEF ServeSave, Saved, conn, control, reports, TypeOK, HistoryType, DealType,
      SameServer
<1>2. CASE DealTake
  BY <1>2 DEF DealTake, DealIdle, NodeAt, conn, control, history, TypeOK, HistoryType,
      DealType, SameServer
<1>3. CASE DealEnd
  BY <1>3 DEF DealEnd, DealIdle, conn, control, history, TypeOK, HistoryType, DealType,
      SameServer
<1>4. CASE DealNext
  BY <1>4 DEF DealNext, Destination, XmlFree, conn, control, history, TypeOK, HistoryType,
      DealType, SameServer
<1>5. ASSUME NEW r \in {"ok", "err", "invalid"}, DealSend(r) PROVE SameServer'
  <2>1. /\ deal.pc = "send" /\ deal'.pc = "report" /\ deal'.f = deal.f
        /\ deal'.dest = deal.dest /\ deal'.r = r /\ UNCHANGED <<cfg, moved>>
    BY <1>5 DEF DealSend, TypeOK, DealType
  <2>2. deal.f \in Files
    BY <2>1 DEF Walk, TypeOK, TreeType
  <2>3. r = "ok" => deal.dest \in places'[deal.f]
    BY <1>5, <2>2 DEF DealSend, TypeOK, HistoryType
  <2>4. QED
    BY <2>1, <2>3 DEF SameServer
<1>6. CASE DealReport
  BY <1>6 DEF DealReport, Ftp_Report_Info, Delivered, control, TypeOK, HistoryType,
      DealType, SameServer
<1>7. CASE DealRemove
  BY <1>7 DEF DealRemove, Finished, Without, NodeAt, Torn, XmlFree, conn, control,
      history, TypeOK, HistoryType, DealType, SameServer
<1>8. CASE DealSave
  BY <1>8 DEF DealSave, Saved, DealIdle, conn, control, history, TypeOK, HistoryType,
      DealType, SameServer
<1>9. CASE DealSaveFails
  BY <1>9 DEF DealSaveFails, Fault, Ftp_Report_Info, Delivered, DealIdle, control, TypeOK,
      HistoryType, DealType, SameServer
<1>10. CASE Crash
  BY <1>10 DEF Crash, Fault, Shut, NoTree, DealIdle, ServeIdle, control, reports, TypeOK,
      HistoryType, DealType, SameServer
<1>11. CASE Restart
  <2>1. deal = DealIdle /\ deal' = deal
    BY <1>11 DEF Restart, DeadIsIdle
  <2>2. QED
    BY <2>1 DEF DealIdle, SameServer
<1>12. CASE \/ UNCHANGED vars
            \/ SetLogin \/ SetRunning \/ Receive \/ Break \/ BreakEarly \/ CloseSocket
            \/ SetLogout \/ AddXmlNode \/ ServeSaveFails \/ ServePost \/ ServeDrop
            \/ ServeDropEarly \/ ServeClose \/ SelectError \/ ServeUnset \/ Timer
            \/ \E c \in Conns : Connect(c)
            \/ \E f \in Files : AskCheck(f)
            \/ \E f \in Files, s \in Servers : AskSend(f, s)
            \/ \E f \in Files : Remove(f)
            \/ \E c \in Conns : Accept(c)
  BY <1>12 DEF vars, Connect, ftp, history, SetLogin, conn, SetRunning, Receive, Break,
      StopRunning, BreakEarly, CloseSocket, SetLogout, AskCheck, AskSend, Remove, Accept,
      control, AddXmlNode, ServeSaveFails, Ftp_Report_Info, ServePost, ServeDrop, GiveUp,
      ServeDropEarly, ServeClose, Shut, SelectError, ServeUnset, Timer, TypeOK,
      HistoryType, DealType, SameServer
<1>13. QED
  BY <1>1, <1>2, <1>3, <1>4, <1>5, <1>6, <1>7, <1>8, <1>9, <1>10, <1>11, <1>12
  DEF Next, ComNext, ServeGoesOn, DealGoesOn

\* A report of success names a server that has the file.
LEMMA ReportTrueNext ==
  ASSUME TypeOK, Walk, SameServer, ReportTrue, [Next]_vars
  PROVE  ReportTrue'
<1>1. CASE ServeSave
  BY <1>1 DEF ServeSave, Saved, conn, control, reports, TypeOK, HistoryType, ReportTrue
<1>2. ASSUME NEW r \in {"ok", "err", "invalid"}, DealSend(r) PROVE ReportTrue'
  BY <1>2 DEF DealSend, conn, control, reports, TypeOK, HistoryType, ReportTrue
<1>3. CASE DealReport
  <2>1. deal.f \in Files
    BY <1>3 DEF DealReport, Walk, TypeOK, TreeType
  <2>2. deal.r = "ok" /\ deal.f \notin moved => cfg \in places[deal.f]
    BY <1>3 DEF DealReport, SameServer
  <2>3. /\ told' = IF deal.r = "ok" THEN [told EXCEPT ![deal.f] = cfg] ELSE told
        /\ UNCHANGED <<places, moved>>
    BY <1>3 DEF DealReport
  <2>4. QED
    BY <2>1, <2>2, <2>3 DEF ReportTrue, TypeOK, HistoryType
<1>4. CASE \/ UNCHANGED vars
           \/ SetLogin \/ SetRunning \/ Receive \/ Break \/ BreakEarly \/ CloseSocket
           \/ SetLogout \/ AddXmlNode \/ ServeSaveFails \/ ServePost \/ ServeDrop
           \/ ServeDropEarly \/ ServeClose \/ SelectError \/ ServeUnset \/ DealTake
           \/ DealEnd \/ DealNext \/ DealRemove \/ DealSave \/ DealSaveFails \/ Timer
           \/ Crash \/ Restart
           \/ \E c \in Conns : Connect(c)
           \/ \E f \in Files : AskCheck(f)
           \/ \E f \in Files, s \in Servers : AskSend(f, s)
           \/ \E f \in Files : Remove(f)
           \/ \E c \in Conns : Accept(c)
  <2>1. UNCHANGED <<places, told, moved>>
    BY <1>4 DEF vars, Connect, ftp, history, SetLogin, conn, SetRunning, Receive, Break,
        StopRunning, BreakEarly, CloseSocket, SetLogout, AskCheck, AskSend, Remove,
        Accept, control, AddXmlNode, ServeSaveFails, Ftp_Report_Info, ServePost,
        ServeDrop, GiveUp, ServeDropEarly, ServeClose, Shut, SelectError, ServeUnset,
        DealTake, DealEnd, DealNext, DealRemove, DealSave, DealSaveFails, Timer, Crash,
        reports, Restart
  <2>2. QED
    BY <2>1 DEF TypeOK, HistoryType, ReportTrue
<1>5. QED
  BY <1>1, <1>2, <1>3, <1>4
  DEF Next, ComNext, ServeGoesOn, DealGoesOn

\* A report goes to the end of the queue of the open connection, or is lost.
LEMMA Reported ==
  ASSUME TypeOK, Ends, NEW f \in Files, NEW r \in {"ok", "err"}, Ftp_Report_Info(f, r)
  PROVE  /\ last' = [last EXCEPT ![f] = r]
         /\ \/ /\ f \in lost' /\ lost \subseteq lost' /\ rep' = rep
            \/ /\ fsock \in Conns /\ lost' = lost \ {f}
               /\ rep' = [rep EXCEPT ![fsock] = Append(@, [f |-> f, r |-> r])]
               /\ \A c \in Conns \ {fsock} : rep[c] = <<>>
<1>1. CASE Delivered
  <2>1. fsock \in Conns /\ cend[fsock] = "open"
    BY <1>1 DEF Delivered, TypeOK, ServeType
  <2>2. ASSUME NEW c \in Conns \ {fsock} PROVE rep[c] = <<>>
    BY <2>1 DEF Ends
  <2>3. QED
    BY <1>1, <2>1, <2>2 DEF Ftp_Report_Info
<1>2. CASE ~Delivered
  BY <1>2 DEF Ftp_Report_Info
<1>3. QED
  BY <1>1, <1>2

\* A new report is the newest of its file and leaves those of the others.
LEMMA ReportKeeps ==
  ASSUME TypeOK, Ends, NewestIsLast, ListAgrees, NEW f \in Files, NEW r \in {"ok", "err"},
         Ftp_Report_Info(f, r), UNCHANGED <<gone, failed>>
  PROVE  NewestIsLast' /\ ListAgrees'
<1> DEFINE x == [f |-> f, r |-> r]
<1>0. x.f = f /\ x.r = r /\ x \in Reports
  BY DEF Reports
<1>1. \A g \in Files \ {f} : last'[g] = last[g]
  BY Reported DEF TypeOK, HistoryType
<1>2. last'[f] = r
  BY Reported DEF TypeOK, HistoryType
<1> HIDE DEF x
<1>3. CASE f \in lost' /\ lost \subseteq lost' /\ rep' = rep
  BY <1>3, <1>1 DEF NewestIsLast, ListAgrees, UnderWay
<1>4. CASE /\ fsock \in Conns /\ lost' = lost \ {f}
           /\ rep' = [rep EXCEPT ![fsock] = Append(@, x)]
           /\ \A c \in Conns \ {fsock} : rep[c] = <<>>
  <2> DEFINE q == rep[fsock]
  <2>1. q \in Seq(Reports)
    BY <1>4 DEF TypeOK, NetType
  <2>2. /\ rep'[fsock] = Append(q, x)
        /\ \A c \in Conns \ {fsock} : rep'[c] = rep[c] /\ rep[c] = <<>>
    BY <1>4 DEF TypeOK, NetType
  <2>3. /\ DOMAIN q = 1 .. Len(q) /\ Len(q) \in Nat
        /\ DOMAIN Append(q, x) = 1 .. Len(q) + 1
        /\ \A i \in 1 .. Len(q) : Append(q, x)[i] = q[i]
        /\ Append(q, x)[Len(q) + 1] = x
    BY <2>1, <1>0
  <2>4. InSeq(Append(q, x)) = InSeq(q) \cup {x}
    BY <2>1, <1>0, AppendKeeps
  <2>5. NewestIsLast'
    <3> SUFFICES ASSUME NEW g \in Files \ lost', NEW c \in Conns, NEW i \in DOMAIN rep'[c],
                        rep'[c][i].f = g,
                        \A j \in DOMAIN rep'[c] : j > i => rep'[c][j].f # g
                 PROVE  rep'[c][i].r = last'[g]
      BY DEF NewestIsLast
    <3>1. c = fsock /\ i \in 1 .. Len(q) + 1
      BY <2>2, <2>3
    <3>2. CASE i = Len(q) + 1
      <4>1. rep'[c][i] = x
        BY <2>2, <2>3, <3>1, <3>2
      <4>2. QED
        BY <4>1, <1>0, <1>2
    <3>3. CASE i \in 1 .. Len(q)
      <4>1. Len(q) + 1 \in DOMAIN rep'[c] /\ rep'[c][Len(q) + 1] = x /\ Len(q) + 1 > i
        BY <2>2, <2>3, <3>1, <3>3
      <4>2. g # f
        BY <4>1, <1>0
      <4>3. g \in Files \ lost
        BY <1>4, <4>2
      <4>4. rep'[c][i] = q[i] /\ i \in DOMAIN q
        BY <2>2, <2>3, <3>1, <3>3
      <4>5. \A j \in DOMAIN q : j > i => q[j].f # g
        BY <2>2, <2>3, <3>1
      <4>6. q[i].r = last[g]
        BY <4>3, <4>4, <4>5, <1>4 DEF NewestIsLast
      <4>7. QED
        BY <4>2, <4>4, <4>6, <1>1
    <3>4. QED
      BY <3>1, <3>2, <3>3, <2>3
  <2>6. ListAgrees'
    <3> SUFFICES ASSUME NEW g \in Files \ (gone \cup lost'), ~UnderWay(g)'
                 PROVE  g \in failed <=> last'[g] = "err"
      BY DEF ListAgrees
    <3>1. g # f
      BY <2>2, <2>4, <1>0, <1>4 DEF UnderWay
    <3>2. ~UnderWay(g)
      BY <2>2, <2>4, <1>4 DEF UnderWay, InSeq
    <3>3. QED
      BY <3>1, <3>2, <1>1, <1>4 DEF ListAgrees
  <2>7. QED
    BY <2>5, <2>6
<1>5. QED
  BY <1>3, <1>4, Reported DEF x

\* Control takes the reports in the order they were made.
LEMMA ListAgreesNext ==
  ASSUME TypeOK, Ends, Walk, NewestIsLast, ListAgrees, [Next]_vars
  PROVE  (NewestIsLast /\ ListAgrees)'
<1>1. CASE Receive
  <2> DEFINE q == rep[com.sock]
  <2> DEFINE x == Head(q)
  <2>1. com.sock \in Conns
    BY <1>1 DEF Receive, Ends
  <2>2. q \in Seq(Reports) /\ q # <<>>
    BY <1>1, <2>1 DEF Receive, TypeOK, NetType
  <2>3. /\ rep'[com.sock] = Tail(q)
        /\ \A c \in Conns \ {com.sock} : rep'[c] = rep[c]
        /\ failed' = Listed(x) /\ UNCHANGED <<gone, last, lost>>
    BY <1>1, <2>1 DEF Receive, history, TypeOK, NetType
  <2>4. /\ Len(q) \in Nat \ {0} /\ DOMAIN q = 1 .. Len(q)
        /\ DOMAIN Tail(q) = 1 .. Len(q) - 1
        /\ \A i \in 1 .. Len(q) - 1 : Tail(q)[i] = q[i + 1]
        /\ x = q[1]
    BY <2>2
  <2>5. x.r \in {"ok", "err"}
    <3>1. x \in Reports
      BY <2>2, HeadTail
    <3>2. QED
      BY <3>1 DEF Reports
  <2> HIDE DEF q, x
  <2>6. NewestIsLast'
    <3> SUFFICES ASSUME NEW g \in Files \ lost, NEW c \in Conns, NEW i \in DOMAIN rep'[c],
                        rep'[c][i].f = g,
                        \A j \in DOMAIN rep'[c] : j > i => rep'[c][j].f # g
                 PROVE  rep'[c][i].r = last[g]
      BY <2>3 DEF NewestIsLast
    <3>1. CASE c # com.sock
      BY <2>3, <3>1 DEF NewestIsLast
    <3>2. CASE c = com.sock
      <4>1. i + 1 \in DOMAIN q /\ rep'[c][i] = q[i + 1]
        BY <2>3, <2>4, <3>2
      <4>2. ASSUME NEW j \in DOMAIN q, j > i + 1 PROVE q[j].f # g
        <5>1. j - 1 \in 1 .. Len(q) - 1 /\ j - 1 > i /\ (j - 1) + 1 = j
          BY <2>3, <2>4, <3>2, <4>2
        <5>2. Tail(q)[j - 1] = q[j]
          BY <5>1, <2>4
        <5>3. QED
          BY <5>1, <5>2, <2>3, <2>4, <3>2
      <4>3. QED
        BY <4>1, <4>2, <3>2, <2>1 DEF NewestIsLast, q
    <3>3. QED
      BY <3>1, <3>2
  <2>7. ListAgrees'
    <3> SUFFICES ASSUME NEW g \in Files \ (gone \cup lost), ~UnderWay(g)'
                 PROVE  g \in failed' <=> last[g] = "err"
      BY <2>3 DEF ListAgrees
    <3>1. ASSUME NEW j \in DOMAIN q, j > 1 PROVE q[j].f # g
      <4>1. j - 1 \in DOMAIN Tail(q) /\ Tail(q)[j - 1] = q[j]
        <5>1. j - 1 \in 1 .. Len(q) - 1 /\ (j - 1) + 1 = j
          BY <2>4, <3>1
        <5>2. QED
          BY <5>1, <2>4
      <4>2. QED
        BY <4>1, <2>1, <2>3 DEF UnderWay, InSeq
    <3>2. \A c \in Conns \ {com.sock} : \A y \in InSeq(rep[c]) : y.f # g
      BY <2>3 DEF UnderWay
    <3>3. CASE x.f = g
      <4>1. x.r = last[g]
        BY <2>1, <2>4, <3>1, <3>3 DEF NewestIsLast, q
      <4>2. QED
        BY <4>1, <2>3, <2>5, <3>3 DEF Listed
    <3>4. CASE x.f # g
      <4>1. \A j \in DOMAIN q : q[j].f # g
        BY <2>4, <3>1, <3>4
      <4>2. ~UnderWay(g)
        BY <4>1, <3>2 DEF UnderWay, InSeq, q
      <4>3. QED
        BY <4>2, <2>3, <3>4 DEF ListAgrees, Listed
    <3>5. QED
      BY <3>3, <3>4
  <2>8. QED
    BY <2>6, <2>7
<1>2. CASE CloseSocket
  <2>1. com.sock \in Conns
    BY <1>2 DEF CloseSocket, Ends
  <2>2. /\ rep'[com.sock] = <<>>
        /\ \A c \in Conns \ {com.sock} : rep'[c] = rep[c]
    BY <1>2, <2>1 DEF CloseSocket, TypeOK, NetType
  <2>3. /\ lost \subseteq lost' /\ UNCHANGED <<failed, gone, last>>
        /\ \A x \in InSeq(rep[com.sock]) : x.f \in lost'
    BY <1>2 DEF CloseSocket
  <2>4. NewestIsLast'
    BY <2>2, <2>3 DEF NewestIsLast
  <2>5. ASSUME NEW g \in Files \ lost', ~UnderWay(g)' PROVE ~UnderWay(g)
    BY <2>2, <2>3, <2>5 DEF UnderWay
  <2>6. ListAgrees'
    BY <2>3, <2>5 DEF ListAgrees
  <2>7. QED
    BY <2>4, <2>6
<1>3. ASSUME NEW f \in Files, Remove(f) PROVE (NewestIsLast /\ ListAgrees)'
  BY <1>3 DEF Remove, conn, ftp, history, NewestIsLast, ListAgrees, UnderWay
<1>4. CASE ServeSaveFails
  <2>1. serve.f \in Files
    BY <1>4 DEF ServeSaveFails, Walk, InSeq, TypeOK, TreeType
  <2>2. UNCHANGED <<gone, failed>>
    BY <1>4 DEF ServeSaveFails, control
  <2>3. QED
    BY <1>4, <2>1, <2>2, ReportKeeps DEF ServeSaveFails
<1>5. CASE DealReport
  <2>1. deal.f \in Files
    BY <1>5 DEF DealReport, Walk, InSeq, TypeOK, TreeType
  <2>2. UNCHANGED <<gone, failed>>
    BY <1>5 DEF DealReport, control
  <2>3. QED
    BY <1>5, <2>1, <2>2, ReportKeeps DEF DealReport
<1>6. CASE DealSaveFails
  <2>1. deal.f \in Files
    BY <1>6 DEF DealSaveFails, Walk, InSeq, TypeOK, TreeType
  <2>2. UNCHANGED <<gone, failed>>
    BY <1>6 DEF DealSaveFails, control
  <2>3. QED
    BY <1>6, <2>1, <2>2, ReportKeeps DEF DealSaveFails
<1>7. CASE \/ UNCHANGED vars
           \/ SetLogin \/ SetRunning \/ Break \/ BreakEarly \/ SetLogout \/ AddXmlNode
           \/ ServeSave \/ ServePost \/ ServeDrop \/ ServeDropEarly \/ ServeClose
           \/ SelectError \/ ServeUnset \/ DealTake \/ DealEnd \/ DealNext
           \/ DealRemove \/ DealSave \/ Timer \/ Crash \/ Restart
           \/ \E c \in Conns : Connect(c)
           \/ \E f \in Files : AskCheck(f)
           \/ \E f \in Files, s \in Servers : AskSend(f, s)
           \/ \E c \in Conns : Accept(c)
           \/ \E r \in {"ok", "err", "invalid"} : DealSend(r)
  <2>1. UNCHANGED <<rep, failed, gone, last, lost>>
    BY <1>7 DEF vars, Connect, ftp, history, SetLogin, conn, SetRunning, Break,
        StopRunning, BreakEarly, SetLogout, AskCheck, AskSend, Accept, control,
        AddXmlNode, ServeSave, reports, ServePost, ServeDrop, GiveUp, ServeDropEarly,
        ServeClose, Shut, SelectError, ServeUnset, DealTake, DealEnd, DealNext, DealSend,
        DealRemove, DealSave, Timer, Crash, Restart
  <2>2. QED
    BY <2>1 DEF NewestIsLast, ListAgrees, UnderWay
<1>8. QED
  BY <1>1, <1>2, <1>3, <1>4, <1>5, <1>6, <1>7
  DEF Next, ComNext, ServeGoesOn, DealGoesOn

-----------------------------------------------------------------------------
(* The theorems.                                                           *)

\* The inductive invariant.
IInv ==
    /\ TypeOK /\ DeadIsIdle /\ Ends /\ Sockets /\ Walk
    /\ TornIsKnown /\ NotForgotten
    /\ SameServer /\ ReportTrue
    /\ NewestIsLast /\ ListAgrees

\* A fresh start: no connection, nothing to upload.
LEMMA InitInv == Init => IInv
<1> SUFFICES ASSUME Init PROVE IInv
  OBVIOUS
<1>1. NetType
  BY DEF Init, NetType
<1>2. ControlType /\ ServeType /\ DealType
  BY DEF Init, ControlType, ServeType, DealType, ServeIdle, DealIdle
<1>3. TreeType
  BY DEF Init, TreeType, NoTree, Saved
<1>11. FlagType
  BY DEF Init, FlagType
<1>4. CountType
  BY UploadAssumption DEF Init, CountType
<1>5. HistoryType
  BY DEF Init, HistoryType
<1>6. DeadIsIdle /\ Ends /\ Sockets /\ TornIsKnown
  BY DEF Init, DeadIsIdle, Ends, Sockets, TornIsKnown, ServeIdle, Conns
<1>7. Walk /\ SameServer
  BY DEF Init, Walk, SameServer, ServeIdle, DealIdle
<1>8. NotForgotten /\ ReportTrue
  BY DEF Init, NotForgotten, Pending, ReportTrue
<1>9. NewestIsLast /\ ListAgrees
  BY DEF Init, NewestIsLast, ListAgrees
<1>10. QED
  BY <1>1, <1>2, <1>3, <1>11, <1>4, <1>5, <1>6, <1>7, <1>8, <1>9 DEF IInv, TypeOK

\* Every step of every thread keeps the invariant.
LEMMA NextInv == IInv /\ [Next]_vars => IInv'
<1> SUFFICES ASSUME IInv, [Next]_vars PROVE IInv'
  OBVIOUS
<1> USE DEF IInv
<1>1. TypeOK'
  BY NetTypeNext, ControlTypeNext, ServeTypeNext, DealTypeNext, TreeTypeNext,
     CountTypeNext, FlagTypeNext, HistoryTypeNext DEF TypeOK
<1>2. DeadIsIdle' /\ Ends' /\ Sockets' /\ Walk'
  BY DeadIsIdleNext, EndsNext, SocketsNext, WalkNext
<1>3. TornIsKnown' /\ NotForgotten'
  BY TornIsKnownNext, NotForgottenNext
<1>4. SameServer' /\ ReportTrue'
  BY SameServerNext, ReportTrueNext
<1>5. NewestIsLast' /\ ListAgrees'
  BY ListAgreesNext
<1>6. QED
  BY <1>1, <1>2, <1>3, <1>4, <1>5

\* The invariant holds of every behaviour.
LEMMA AlwaysInv == Spec => []IInv
  BY InitInv, NextInv, PTL DEF Spec

\* Types, the bound of the message queue included.
THEOREM TypeCorrect == Spec => []TypeOK
<1>1. IInv => TypeOK
  BY DEF IInv
<1>2. QED
  BY <1>1, AlwaysInv, PTL

\* Through crashes, failing saves and passes that overlap new requests a file that
\* was taken stays to be uploaded, for any number of files, servers and failures.
THEOREM AlwaysNotForgotten == Spec => []NotForgotten
<1>1. IInv => NotForgotten
  BY DEF IInv
<1>2. QED
  BY <1>1, AlwaysInv, PTL

\* DealTask never reports to a socket ServeTask has closed, but in the window after
\* a failing select.
THEOREM AlwaysReportsToOpen == Spec => []ReportsToOpen
<1>1. IInv => ReportsToOpen
  BY DEF IInv, TypeOK, ServeType, Sockets, ReportsToOpen
<1>2. QED
  BY <1>1, AlwaysInv, PTL

\* The server named by a report of success has the file, unless a request changed
\* the server meanwhile.
THEOREM AlwaysReportTrue == Spec => []ReportTrue
<1>1. IInv => ReportTrue
  BY DEF IInv
<1>2. QED
  BY <1>1, AlwaysInv, PTL

\* Control's list of failed files agrees with the last report of every file whose
\* reports have all arrived.
THEOREM AlwaysListAgrees == Spec => []ListAgrees
<1>1. IInv => ListAgrees
  BY DEF IInv
<1>2. QED
  BY <1>1, AlwaysInv, PTL

-----------------------------------------------------------------------------
(* The watchdog.  Of the two loops of daemon.c, one starts the program and *)
(* samples its copies, the other kills the copy whose mean load is high.   *)
(* Both go by a table of slots that is filled from a listing of processes, *)
(* so that the invariant says what the first slot knows of the one copy    *)
(* there is -- until a process is started on the word of a look at /proc   *)
(* that missed one, after which only types and Held are left.              *)

Record == [load : Nat, n : Nat]

\* The kinds of the variables' values.
DaemonTypes ==
    /\ proc \in [Pids -> {"free", "starting", "run", "dead"}]
    /\ samenum \in 0 .. MaxSame /\ livestate \in Nat
    /\ rtpid \in [Slots -> Pids \cup {0}]
    /\ total \in [Slots -> Nat] /\ times \in [Slots -> Nat]
    /\ gap \in 0 .. Gap
    /\ own \in [Pids -> Record]
    /\ blind \in BOOLEAN /\ twice \in BOOLEAN

\* A slot in use holds a process, or was cleared.
Held == \A i \in 1 .. samenum : rtpid[i] = 0 => times[i] = 0

\* There is one copy at most, so that the first slot is the only one in use; when
\* the deal task may start a process, none is left that the samples did not see,
\* unless the last one was blind.
Single ==
    /\ \A p, q \in Copies : p = q
    /\ samenum <= 1
    /\ samenum = 0 /\ livestate = 0 /\ gap = Gap => Copies = {} \/ blind

\* The slot in use is about the copy there is, and has summed up no more load than
\* that copy gave.
OwnSlot ==
    /\ samenum = 1 /\ rtpid[1] # 0 => Copies \subseteq {rtpid[1]}
    /\ samenum = 0 => total[1] = 0
    /\ \A p \in Copies : own[p].load >= total[1] /\ own[p].n <= times[1]
    /\ \A p \in Pids : proc[p] # "run" => own[p] = NoSamples

DaemonInv == DaemonTypes /\ Held /\ (twice \/ (Single /\ OwnSlot /\ ~unfair))

-----------------------------------------------------------------------------
(* What is found and what is started.                                      *)

\* With one copy at most FindPidByName finds it or nothing.
LEMMA FindsOne ==
    ASSUME Single, NEW found \in SUBSET Running, found # {}, NEW pids \in PidList(found)
    PROVE  found = Running /\ \E p \in Pids : proc[p] = "run" /\ p \in Copies /\ pids = <<p>>
<1>1. Running \subseteq Copies /\ Running \subseteq Pids /\ \A p \in Running : proc[p] = "run"
  BY DEF Copies, Running
<1>2. PICK p \in found : TRUE
  OBVIOUS
<1>3. found = {p} /\ Running = {p}
  BY <1>1, <1>2 DEF Single
<1>4. Cardinality(found) = 1
  BY <1>3, FS_Singleton
<1>5. pids \in [1 .. 1 -> {p}]
  BY <1>3, <1>4 DEF PidList
<1>6. pids = [i \in 1 .. 1 |-> p] /\ <<p>> = [i \in 1 .. 1 |-> p]
  BY <1>5
<1> QED
  BY <1>1, <1>3, <1>6

\* What is found is listed, and fits the slots.
LEMMA PidListType ==
    ASSUME NEW found \in SUBSET Running, FindPidByName(found), NEW pids \in PidList(found)
    PROVE  /\ Len(pids) \in 0 .. MaxSame /\ DOMAIN pids = 1 .. Len(pids)
           /\ \A i \in 1 .. Len(pids) : pids[i] \in Pids /\ pids[i] # 0
<1>1. IsFiniteSet(Pids) /\ found \subseteq Pids
  BY DaemonAssumption, FS_Interval DEF Pids, Running
<1>2. IsFiniteSet(found)
  BY <1>1, FS_Subset
<1>3. Cardinality(found) \in Nat /\ Cardinality(found) <= MaxSame /\ MaxSame \in Nat
  BY <1>2, FS_CardinalityType, DaemonAssumption DEF FindPidByName
<1>4. pids \in [1 .. Cardinality(found) -> found]
  BY DEF PidList
<1>5. Len(pids) = Cardinality(found) /\ DOMAIN pids = 1 .. Len(pids)
  BY <1>3, <1>4
<1>6. \A p \in Pids : p # 0
  BY DEF Pids
<1>7. ASSUME NEW i \in 1 .. Len(pids) PROVE pids[i] \in Pids
  BY <1>1, <1>4, <1>5
<1> QED
  BY <1>3, <1>5, <1>6, <1>7

\* StartApp starts one process where one is wanted and none where none is.
LEMMA FreshOnes ==
    /\ Fresh(0) = {} /\ Fresh(1) \subseteq Free
    /\ \A p, q \in Fresh(1) : p = q
<1>1. ASSUME NEW p \in Pids
      PROVE  /\ IsFiniteSet({q \in Free : q < p})
             /\ Cardinality({q \in Free : q < p}) \in Nat
             /\ Cardinality({q \in Free : q < p}) = 0 <=> {q \in Free : q < p} = {}
  <2>1. IsFiniteSet(Pids)
    BY DaemonAssumption, FS_Interval DEF Pids
  <2>2. IsFiniteSet({q \in Free : q < p})
    BY <2>1, FS_Subset DEF Free
  <2> QED
    BY <2>2, FS_CardinalityType, FS_EmptySet
<1>2. Fresh(0) = {} /\ Fresh(1) \subseteq Free
  BY <1>1 DEF Fresh, Free
<1>3. ASSUME NEW p \in Fresh(1), NEW q \in Fresh(1)
      PROVE  p = q
  <2>1. p \in Free /\ q \in Free /\ p \in Pids /\ q \in Pids
    BY <1>2 DEF Free
  <2>2. {r \in Free : r < p} = {} /\ {r \in Free : r < q} = {}
    BY <1>1, <2>1 DEF Fresh
  <2> QED
    BY <2>1, <2>2 DEF Pids
<1> QED
  BY <1>2, <1>3

\* A process is judged by at most its own samples.
LEMMA OwnLoad ==
    ASSUME NEW t \in Nat, NEW k \in Nat \ {0}, NEW n \in Nat, n <= k,
           t \div k >= MaxLoad
    PROVE  t >= MaxLoad * n
<1> DEFINE d == t \div k
<1>1. d \in Nat /\ t >= d * k
  OBVIOUS
<1> HIDE DEF d
<1>2. d * k >= MaxLoad * k /\ MaxLoad * k >= MaxLoad * n
  BY DaemonAssumption DEF d
<1> QED
  BY DaemonAssumption

-----------------------------------------------------------------------------
(* The steps.                                                              *)

\* What the processes gave, by a sample of those that were seen.
Given(pids, seen, loads) ==
    [p \in Pids |->
        IF \E i \in seen : pids[i] = p
        THEN LET i == CHOOSE j \in seen : pids[j] = p IN
             [load |-> own[p].load + loads[i], n |-> own[p].n + 1]
        ELSE own[p]]

\* A sample, with the processes that it found.
SampleOf(found, pids) ==
    /\ found # {} /\ FindPidByName(found)
    /\ \E seen \in SUBSET DOMAIN pids : \E loads \in [seen -> Loads] :
         Measure(pids, loads) /\ own' = Given(pids, seen, loads)
    /\ TimeGoesOn
    /\ UNCHANGED <<proc, twice, unfair>>

\* Types, whatever is found and started.
LEMMA DaemonTypesNext ==
    ASSUME DaemonTypes, DaemonNext
    PROVE  DaemonTypes'
<1>1. /\ NoSamples \in Record /\ 0 \in 0 .. Gap /\ 0 \in 0 .. MaxSame
      /\ Gap \in Nat \ {0} /\ gap \in 0 .. Gap
  BY DaemonAssumption DEF DaemonTypes, NoSamples, Record
<1>2. ASSUME NEW p \in Pids, Appear(p) \/ Die(p) PROVE DaemonTypes'
  <2>1. CASE Appear(p)
    BY <2>1 DEF DaemonTypes, Appear, look
  <2>2. CASE Die(p)
    BY <1>1, <2>2 DEF DaemonTypes, Die, look
  <2> QED
    BY <1>2, <2>1, <2>2
<1>3. CASE SampleMissing
  <2>1. blind' \in BOOLEAN
    BY <1>3 DEF SampleMissing, FindPidByName
  <2> QED
    BY <1>1, <1>3, <2>1 DEF DaemonTypes, SampleMissing, Missing, TimeGoesOn, Zero
<1>4. ASSUME NEW found \in SUBSET Running, NEW pids \in PidList(found), SampleOf(found, pids)
      PROVE  DaemonTypes'
  <2>1. /\ Len(pids) \in 0 .. MaxSame /\ DOMAIN pids = 1 .. Len(pids)
        /\ \A i \in 1 .. Len(pids) : pids[i] \in Pids
    BY <1>4, PidListType DEF SampleOf
  <2>10. PICK seen \in SUBSET DOMAIN pids : \E loads \in [seen -> Loads] :
          Measure(pids, loads) /\ own' = Given(pids, seen, loads)
    BY <1>4 DEF SampleOf
  <2>2. PICK loads \in [seen -> Loads] :
          Measure(pids, loads) /\ own' = Given(pids, seen, loads)
    BY <2>10
  <2>3. blind' \in BOOLEAN /\ gap' \in 0 .. Gap /\ UNCHANGED <<proc, twice>>
    BY <1>1, <1>4 DEF SampleOf, FindPidByName, TimeGoesOn
  <2>4. \A i \in seen : loads[i] \in Nat
    BY DaemonAssumption
  <2>5. own' \in [Pids -> Record]
    <3>1. ASSUME NEW p \in Pids
          PROVE  (IF \E i \in seen : pids[i] = p
                  THEN LET i == CHOOSE j \in seen : pids[j] = p IN
                       [load |-> own[p].load + loads[i], n |-> own[p].n + 1]
                  ELSE own[p]) \in Record
      <4>1. own[p] \in Record /\ own[p].load \in Nat /\ own[p].n \in Nat
        BY DEF DaemonTypes, Record
      <4>2. CASE \E i \in seen : pids[i] = p
        <5> DEFINE i == CHOOSE j \in seen : pids[j] = p
        <5>1. i \in seen
          BY <4>2
        <5>2. loads[i] \in Nat
          BY <2>4, <5>1
        <5> HIDE DEF i
        <5>3. [load |-> own[p].load + loads[i], n |-> own[p].n + 1] \in Record
          BY <4>1, <5>2 DEF Record
        <5> QED
          BY <4>2, <5>3 DEF i
      <4> QED
        BY <4>1, <4>2
    <3> QED
      BY <2>2, <3>1 DEF Given
  <2>6. /\ samenum' \in 0 .. MaxSame /\ livestate' \in Nat
        /\ rtpid' \in [Slots -> Pids \cup {0}]
    BY <2>1, <2>2, DaemonAssumption DEF Measure, DaemonTypes
  <2>7. total' \in [Slots -> Nat] /\ times' \in [Slots -> Nat]
    <3>1. /\ total' = [i \in Slots |-> IF i \in seen THEN total[i] + loads[i] ELSE total[i]]
          /\ times' = [i \in Slots |-> IF i \in seen THEN times[i] + 1 ELSE times[i]]
      BY <2>2 DEF Measure
    <3>2. ASSUME NEW i \in Slots PROVE total'[i] \in Nat /\ times'[i] \in Nat
      <4>1. total[i] \in Nat /\ times[i] \in Nat
        BY DEF DaemonTypes
      <4>2. CASE i \in seen
        BY <2>4, <3>1, <4>1, <4>2
      <4>3. CASE i \notin seen
        BY <3>1, <4>1, <4>3
      <4> QED
        BY <4>2, <4>3
    <3> QED
      BY <3>1, <3>2
  <2> QED
    BY <2>3, <2>5, <2>6, <2>7 DEF DaemonTypes
<1>5. CASE CheckStart
  <2>1. twice' \in BOOLEAN
    BY <1>5 DEF CheckStart
  <2> QED
    BY <1>1, <1>5, <2>1 DEF DaemonTypes, CheckStart, StartApp, look
<1>6. CASE CheckLoad
  BY <1>1, <1>6 DEF DaemonTypes, CheckLoad, StartApp, NewWindow, look
<1> QED
  BY <1>2, <1>3, <1>4, <1>5, <1>6 DEF DaemonNext, Main, Deal, Sample, SampleOf, Given

\* A slot in use holds a process, or was cleared with its window.
LEMMA HeldNext ==
    ASSUME DaemonTypes, Held, DaemonNext
    PROVE  Held'
<1>1. samenum \in 0 .. MaxSame /\ Slots = 1 .. MaxSame /\ MaxSame \in Nat
  BY DaemonAssumption DEF DaemonTypes, Slots
<1>2. ASSUME NEW p \in Pids, Appear(p) \/ Die(p) PROVE Held'
  BY <1>2 DEF Held, Appear, Die
<1>3. CASE SampleMissing
  BY <1>3 DEF Held, SampleMissing, Missing
<1>4. ASSUME NEW found \in SUBSET Running, NEW pids \in PidList(found), SampleOf(found, pids)
      PROVE  Held'
  <2>1. /\ Len(pids) \in 0 .. MaxSame /\ DOMAIN pids = 1 .. Len(pids)
        /\ \A i \in 1 .. Len(pids) : pids[i] \in Pids /\ pids[i] # 0
    BY <1>4, PidListType DEF SampleOf
  <2>2. /\ samenum' = Len(pids)
        /\ rtpid' = [i \in Slots |-> IF i \in DOMAIN pids THEN pids[i] ELSE rtpid[i]]
    BY <1>4 DEF SampleOf, Measure
  <2>3. \A i \in 1 .. samenum' : i \in Slots /\ rtpid'[i] # 0
    BY <1>1, <2>1, <2>2
  <2> QED
    BY <2>3 DEF Held
<1>5. CASE CheckStart
  BY <1>5 DEF Held, CheckStart
<1>6. CASE CheckLoad
  <2> DEFINE killed == {i \in {j \in Judged : TooHigh(j)} : rtpid[i] \in Copies}
  <2>1. /\ rtpid' = [i \in Slots |-> IF i \in killed THEN 0 ELSE rtpid[i]]
        /\ times' = NewWindow(times) /\ samenum' = samenum /\ killed \subseteq Judged
    BY <1>6 DEF CheckLoad
  <2> HIDE DEF killed
  <2>2. \A i \in Slots : /\ times'[i] = (IF i \in Judged THEN 0 ELSE times[i])
                         /\ i \notin Judged => rtpid'[i] = rtpid[i]
    BY <2>1 DEF NewWindow
  <2>3. \A i \in 1 .. samenum : i \in Slots
    BY <1>1
  <2> QED
    BY <2>1, <2>2, <2>3 DEF Held
<1> QED
  BY <1>2, <1>3, <1>4, <1>5, <1>6 DEF DaemonNext, Main, Deal, Sample, SampleOf, Given

\* What holds of one copy, until a second one was started.
Lone == Single /\ OwnSlot /\ ~unfair

LEMMA ProcessInv ==
    ASSUME DaemonTypes, Lone, NEW p \in Pids, Appear(p) \/ Die(p)
    PROVE  Lone'
<1>1. Copies' \subseteq Copies
  BY DEF DaemonTypes, Appear, Die, Copies
<1>2. UNCHANGED <<samenum, livestate, rtpid, total, times, gap, blind, unfair>>
  BY DEF Appear, Die, look
<1>3. Single'
  BY <1>1, <1>2 DEF Lone, Single
<1>4. /\ \A q \in Copies' : own'[q] = own[q]
      /\ \A q \in Pids : proc'[q] # "run" => own'[q] = NoSamples
  BY DEF DaemonTypes, Lone, OwnSlot, Appear, Die, Copies
<1>5. OwnSlot'
  BY <1>1, <1>2, <1>4 DEF Lone, OwnSlot
<1> QED
  BY <1>2, <1>3, <1>5 DEF Lone

\* A look at /proc that finds nothing clears the slot.
LEMMA SampleMissingInv ==
    ASSUME DaemonTypes, Lone, SampleMissing
    PROVE  Lone'
<1>1. 1 \in Slots /\ Gap \in Nat \ {0} /\ gap \in Nat /\ gap <= Gap
  BY DaemonAssumption DEF DaemonTypes, Slots
<1>2. blind' \/ Running = {}
  BY DEF SampleMissing, FindPidByName
<1>3. /\ samenum' = 0 /\ total' = Zero /\ UNCHANGED <<proc, own, times, unfair>>
      /\ gap' = Gap => \A p \in Pids : proc[p] # "starting"
  BY <1>1 DEF SampleMissing, Missing, TimeGoesOn
<1>4. Copies' = Copies
  BY <1>3 DEF Copies
<1>5. gap' = Gap => Copies' = {} \/ blind'
  BY <1>2, <1>3, <1>4 DEF Copies, Running
<1>6. Single'
  BY <1>3, <1>4, <1>5 DEF Lone, Single
<1>7. OwnSlot'
  <2>1. total'[1] = 0
    BY <1>1, <1>3 DEF Zero
  <2>2. \A p \in Copies : own[p].load \in Nat
    BY DEF DaemonTypes, Record, Copies
  <2> QED
    BY <1>3, <1>4, <2>1, <2>2 DEF Lone, OwnSlot
<1> QED
  BY <1>3, <1>6, <1>7 DEF Lone

LEMMA SampleInv ==
    ASSUME DaemonTypes, DaemonTypes', Lone,
           NEW found \in SUBSET Running, NEW pids \in PidList(found), SampleOf(found, pids)
    PROVE  Lone'
<1>1. PICK p \in Pids : proc[p] = "run" /\ p \in Copies /\ pids = <<p>>
  BY FindsOne DEF Lone, SampleOf
<1>11. DOMAIN pids = {1} /\ pids[1] = p /\ pids = <<p>>
  BY <1>1
<1>12. PICK seen \in SUBSET {1} : \E loads \in [seen -> Loads] :
         Measure(pids, loads) /\ own' = Given(pids, seen, loads)
  BY <1>11 DEF SampleOf
<1>13. PICK loads \in [seen -> Loads] : Measure(pids, loads) /\ own' = Given(pids, seen, loads)
  BY <1>12
<1>2. /\ Measure(<<p>>, loads)
      /\ own' = [q \in Pids |->
                   IF 1 \in seen /\ p = q
                   THEN [load |-> own[q].load + loads[1], n |-> own[q].n + 1]
                   ELSE own[q]]
  <2>1. DOMAIN pids = {1} /\ pids[1] = p /\ pids = <<p>>
    BY <1>11
  <2>3. \A q \in Pids : (\E i \in seen : pids[i] = q) <=> 1 \in seen /\ p = q
    BY <2>1
  <2>4. ASSUME 1 \in seen PROVE (CHOOSE j \in seen : pids[j] = p) = 1
    BY <2>1, <2>4
  <2>5. own' = [q \in Pids |->
                  IF 1 \in seen /\ p = q
                  THEN [load |-> own[q].load + loads[1], n |-> own[q].n + 1]
                  ELSE own[q]]
    BY <1>13, <2>3, <2>4 DEF Given
  <2> QED
    BY <1>13, <2>1, <2>5
<1>3. 1 \in Slots /\ Copies = {p} /\ p \in Pids /\ p # 0
  <2>1. 1 \in Slots /\ p # 0
    BY DaemonAssumption DEF Slots, Pids
  <2>2. Copies = {p}
    BY <1>1 DEF Lone, Single
  <2> QED
    BY <2>1, <2>2
<1>4. /\ samenum' = 1 /\ rtpid'[1] = p
      /\ IF 1 \in seen
           THEN /\ loads[1] \in Nat
                /\ total'[1] = total[1] + loads[1] /\ times'[1] = times[1] + 1
           ELSE total'[1] = total[1] /\ times'[1] = times[1]
  <2> DEFINE one == <<p>>
  <2>1. Len(one) = 1 /\ DOMAIN one = {1} /\ one[1] = p
    OBVIOUS
  <2>2. DOMAIN loads = seen /\ Measure(one, loads)
    BY <1>2
  <2> HIDE DEF one
  <2>3. \A i \in seen : loads[i] \in Nat
    BY DaemonAssumption
  <2> QED
    BY <1>3, <2>1, <2>2, <2>3 DEF Measure
<1>5. /\ \A q \in Pids : q # p => own'[q] = own[q]
      /\ IF 1 \in seen THEN own'[p].load = own[p].load + loads[1] /\ own'[p].n = own[p].n + 1
                       ELSE own'[p] = own[p]
  BY <1>2, <1>3
<1>6. UNCHANGED <<proc, unfair>> /\ Copies' = {p}
  BY <1>3 DEF SampleOf, Copies
<1>7. Single'
  BY <1>4, <1>6 DEF Single
<1>8. OwnSlot'
  <2>1. /\ own[p].load >= total[1] /\ own[p].n <= times[1]
        /\ own[p].load \in Nat /\ own[p].n \in Nat /\ times[1] \in Nat /\ total[1] \in Nat
    BY <1>3 DEF DaemonTypes, Lone, Record, OwnSlot
  <2>2. own'[p].load >= total'[1] /\ own'[p].n <= times'[1]
    BY <1>4, <1>5, <2>1
  <2>3. \A q \in Pids : proc'[q] # "run" => own'[q] = NoSamples
    BY <1>1, <1>5, <1>6 DEF Lone, OwnSlot
  <2> QED
    BY <1>3, <1>4, <1>6, <2>2, <2>3 DEF OwnSlot
<1> QED
  BY <1>6, <1>7, <1>8 DEF Lone

\* A process is started only when there is none, unless the last look was blind.
LEMMA CheckStartInv ==
    ASSUME DaemonTypes, Lone, ~blind, CheckStart
    PROVE  Lone'
<1>1. Copies = {} /\ 0 \in 0 .. Gap /\ gap' # Gap
  BY DaemonAssumption DEF Lone, Single, CheckStart, Slept
<1>2. proc' = [p \in Pids |-> IF p \in Fresh(1) THEN "starting" ELSE proc[p]]
  BY DEF CheckStart, StartApp
<1>3. Copies' = Fresh(1)
  BY <1>1, <1>2, FreshOnes DEF Copies, Free
<1>5. Single'
  BY <1>1, <1>3, FreshOnes DEF Single, CheckStart
<1>6. OwnSlot'
  <2>1. \A p \in Fresh(1) : p \in Pids /\ own[p] = NoSamples
    BY FreshOnes DEF Lone, OwnSlot, Free
  <2>2. total[1] = 0 /\ times[1] \in Nat
    BY DaemonAssumption DEF Lone, DaemonTypes, OwnSlot, CheckStart, Slots
  <2>3. \A p \in Pids : proc'[p] # "run" => own'[p] = NoSamples
    BY <1>2, <2>1 DEF Lone, OwnSlot, CheckStart
  <2> QED
    BY <1>3, <2>1, <2>2, <2>3 DEF OwnSlot, CheckStart, NoSamples
<1> QED
  BY <1>5, <1>6 DEF Lone, CheckStart

\* Only the first slot is judged, and it is about a process.
LEMMA JudgedOne ==
    ASSUME DaemonTypes, Held, Lone, NEW i \in Judged
    PROVE  /\ i = 1 /\ 1 \in Slots /\ samenum = 1 /\ rtpid[1] \in Pids /\ times[1] \in Nat \ {0}
           /\ Copies \subseteq {rtpid[1]}
<1>1. i = 1 /\ 1 \in Slots /\ samenum = 1 /\ times[1] >= Time
  BY DaemonAssumption DEF DaemonTypes, Lone, Single, Judged, Slots
<1>2. times[1] \in Nat \ {0} /\ rtpid[1] # 0
  BY <1>1, DaemonAssumption DEF DaemonTypes, Held
<1> QED
  BY <1>1, <1>2 DEF Lone, DaemonTypes, OwnSlot

LEMMA CheckLoadInv ==
    ASSUME DaemonTypes, Held, Lone, CheckLoad
    PROVE  Lone'
<1> DEFINE killed == {i \in {j \in Judged : TooHigh(j)} : rtpid[i] \in Copies}
           dead == {rtpid[i] : i \in killed}
           judged == {rtpid[i] : i \in Judged}
<1>1. /\ StartApp(Cardinality(killed), dead)
      /\ rtpid' = [i \in Slots |-> IF i \in killed THEN 0 ELSE rtpid[i]]
      /\ total' = NewWindow(total)
      /\ times' = NewWindow(times)
      /\ unfair' = (unfair \/ \E p \in dead : ~OwnAverage(p))
      /\ own' = [p \in Pids |-> IF p \in judged THEN NoSamples ELSE own[p]]
      /\ gap' = 0 /\ UNCHANGED <<samenum, livestate>>
  BY DEF CheckLoad
<1>2. killed \subseteq {1} /\ Judged \subseteq {1} /\ killed \subseteq Judged
  BY JudgedOne
<1>3. /\ 1 \in Slots /\ NoSamples \in Record /\ NoSamples.load = 0 /\ NoSamples.n = 0
      /\ 0 # Gap /\ 0 \in 0 .. Gap
  BY DaemonAssumption DEF Slots, NoSamples, Record
<1>4. \/ /\ killed = {} /\ dead = {} /\ proc' = proc
      \/ /\ killed = {1} /\ dead = {rtpid[1]} /\ Copies = {rtpid[1]}
         /\ proc' = [p \in Pids |-> IF p \in Fresh(1) THEN "starting"
                                    ELSE IF p = rtpid[1] THEN "dead" ELSE proc[p]]
  <2>1. CASE killed = {}
    <3>1. Cardinality(killed) = 0 /\ dead = {}
      BY <2>1, FS_EmptySet
    <3>2. proc' = [p \in Pids |-> proc[p]]
      BY <1>1, <3>1, FreshOnes DEF StartApp
    <3> QED
      BY <2>1, <3>2 DEF DaemonTypes
  <2>2. CASE killed # {}
    <3>1. killed = {1}
      BY <1>2, <2>2
    <3>2. Cardinality(killed) = 1 /\ dead = {rtpid[1]}
      <4> HIDE DEF killed
      <4>1. Cardinality({1}) = 1
        BY FS_Singleton
      <4>2. dead = {rtpid[1]}
        BY <3>1
      <4> QED
        BY <3>1, <4>1, <4>2
    <3>3. Copies = {rtpid[1]}
      BY <3>1, JudgedOne
    <3> HIDE DEF killed, dead
    <3> QED
      BY <1>1, <3>1, <3>2, <3>3 DEF StartApp
  <2> QED
    BY <2>1, <2>2
<1>6. (Copies' = Copies /\ killed = {}) \/ (Copies' = Fresh(1) /\ killed = {1})
  BY <1>4, FreshOnes DEF Copies, Free
<1>7. Single'
  BY <1>1, <1>3, <1>6, FreshOnes DEF Lone, Single
<1>8. ~unfair'
  <2>1. ASSUME 1 \in killed PROVE OwnAverage(rtpid[1])
    <3>1. /\ rtpid[1] \in Copies /\ rtpid[1] \in Pids /\ TooHigh(1) /\ times[1] \in Nat \ {0}
      BY <2>1, JudgedOne
    <3>2. /\ own[rtpid[1]].load >= total[1] /\ own[rtpid[1]].n <= times[1]
          /\ own[rtpid[1]].n \in Nat /\ total[1] \in Nat /\ own[rtpid[1]].load \in Nat
      <4>1. own[rtpid[1]] \in Record /\ total[1] \in Nat
        BY <3>1, <1>3 DEF DaemonTypes
      <4>2. own[rtpid[1]].load >= total[1] /\ own[rtpid[1]].n <= times[1]
        BY <3>1 DEF Lone, OwnSlot
      <4> QED
        BY <4>1, <4>2 DEF Record
    <3>3. total[1] >= MaxLoad * own[rtpid[1]].n /\ MaxLoad * own[rtpid[1]].n \in Nat
      BY <3>1, <3>2, OwnLoad, DaemonAssumption DEF TooHigh
    <3> QED
      BY <3>2, <3>3 DEF OwnAverage
  <2>2. \A p \in dead : OwnAverage(p)
    BY <1>2, <2>1
  <2> QED
    BY <1>1, <2>2 DEF Lone
<1>9. OwnSlot'
  <2>1. CASE Judged = {}
    <3>1. /\ killed = {} /\ judged = {} /\ proc' = proc /\ own' = own /\ rtpid' = rtpid
          /\ UNCHANGED samenum
      BY <1>1, <1>4, <2>1 DEF DaemonTypes
    <3>2. total' = total /\ times' = times
      BY <1>1, <2>1 DEF DaemonTypes, NewWindow
    <3> HIDE DEF killed, judged
    <3> QED
      BY <3>1, <3>2 DEF Lone, OwnSlot, Copies
  <2>2. CASE Judged # {}
    <3>1. 1 \in Judged /\ samenum' = 1 /\ judged = {rtpid[1]} /\ Copies \subseteq {rtpid[1]}
      BY <1>1, <2>2, JudgedOne
    <3>2. total'[1] = 0 /\ times'[1] = 0
      BY <1>1, <1>3, <3>1 DEF NewWindow
    <3>3. \A p \in Pids : own[p] = NoSamples => own'[p] = NoSamples
      BY <1>1
    <3>4. \A p \in Fresh(1) : p \in Pids /\ own[p] = NoSamples
      BY FreshOnes DEF Lone, OwnSlot, Free
    <3>5. \A p \in Copies' : own'[p] = NoSamples
      BY <1>1, <1>6, <3>1, <3>4 DEF Copies
    <3>6. rtpid'[1] # 0 => Copies' \subseteq {rtpid'[1]}
      BY <1>1, <1>3, <1>6, <3>1
    <3>7. \A p \in Pids : proc'[p] # "run" => own'[p] = NoSamples
      <4>1. ASSUME NEW p \in Pids, proc'[p] # "run", proc[p] = "run" PROVE p = rtpid[1]
        BY <3>1, <4>1 DEF Copies
      <4> QED
        BY <1>1, <3>1, <4>1 DEF Lone, OwnSlot
    <3> QED
      BY <1>3, <3>2, <3>5, <3>6, <3>7 DEF OwnSlot
  <2> QED
    BY <2>1, <2>2
<1> QED
  BY <1>7, <1>8, <1>9 DEF Lone

-----------------------------------------------------------------------------
(* The theorems.                                                           *)

LEMMA InitDaemonInv == DaemonInit => DaemonInv
<1> SUFFICES ASSUME DaemonInit PROVE DaemonInv
  OBVIOUS
<1>1. /\ 1 \in Slots /\ 0 # Gap /\ 0 \in 0 .. Gap /\ NoSamples \in Record
      /\ 0 \in 0 .. MaxSame
  BY DaemonAssumption DEF Slots, NoSamples, Record
<1>2. DaemonTypes
  BY <1>1 DEF DaemonInit, DaemonTypes, Zero
<1>3. Copies = {}
  BY DEF DaemonInit, Copies
<1> QED
  BY <1>1, <1>2, <1>3 DEF DaemonInit, DaemonInv, Held, Single, OwnSlot, Zero

LEMMA DaemonInvariance == DaemonSpec => []DaemonInv
<1>1. ASSUME DaemonInv, DaemonNext PROVE DaemonInv'
  <2>1. DaemonTypes /\ Held /\ DaemonTypes' /\ Held'
    BY <1>1, DaemonTypesNext, HeldNext DEF DaemonInv
  <2>2. twice => twice'
    <3>1. CASE CheckStart
      BY <3>1 DEF CheckStart
    <3> QED
      BY <1>1, <3>1 DEF DaemonNext, Main, Deal, Appear, Die, SampleMissing, Sample, CheckLoad
  <2>3. CASE twice
    BY <2>1, <2>2, <2>3 DEF DaemonInv
  <2>4. CASE ~twice
    <3>1. Lone
      BY <1>1, <2>4 DEF DaemonInv, Lone
    <3>2. CASE CheckStart
      <4>1. twice' \/ ~blind
        BY <3>2 DEF CheckStart
      <4> QED
        BY <2>1, <3>1, <3>2, <4>1, CheckStartInv DEF DaemonInv, Lone
    <3>3. CASE Sample
      <4>1. PICK found \in SUBSET Running : \E pids \in PidList(found) : SampleOf(found, pids)
        BY <3>3 DEF Sample, SampleOf, Given
      <4>2. Lone'
        BY <2>1, <3>1, <4>1, SampleInv
      <4> QED
        BY <2>1, <4>2 DEF DaemonInv, Lone
    <3>4. CASE SampleMissing \/ CheckLoad \/ \E p \in Pids : Appear(p) \/ Die(p)
      <4>1. Lone'
        BY <2>1, <3>1, <3>4, SampleMissingInv, CheckLoadInv, ProcessInv
      <4> QED
        BY <2>1, <4>1 DEF DaemonInv, Lone
    <3> QED
      BY <1>1, <3>2, <3>3, <3>4 DEF DaemonNext, Main, Deal
  <2> QED
    BY <2>3, <2>4
<1>2. ASSUME DaemonInv, UNCHANGED daemonVars PROVE DaemonInv'
  BY <1>2 DEF DaemonInv, DaemonTypes, Held, Single, OwnSlot, Copies, daemonVars, look
<1>3. DaemonInv /\ [DaemonNext]_daemonVars => DaemonInv'
  BY <1>1, <1>2
<1> QED
  BY <1>3, InitDaemonInv, PTL DEF DaemonSpec

\* The deal task starts no process while one it started before still runs, unless
\* the last look at /proc missed it (FindPidByName, CheckPid).
THEOREM NoSecondCopy == DaemonSpec => []OneCopy
<1>1. DaemonInv => OneCopy
  <2>1. SUFFICES ASSUME DaemonInv, ~twice PROVE Cardinality(Copies) <= 1
    BY DEF OneCopy
  <2>2. CASE Copies = {}
    BY <2>2, FS_EmptySet
  <2>3. CASE Copies # {}
    <3>1. PICK p \in Copies : TRUE
      BY <2>3
    <3>2. Copies = {p}
      BY <2>1 DEF DaemonInv, Single
    <3>3. Cardinality({p}) = 1
      BY FS_Singleton
    <3> QED
      BY <3>2, <3>3
  <2> QED
    BY <2>2, <2>3
<1> QED
  BY <1>1, DaemonInvariance, PTL

\* kill is never called with the 0 that stands for no process, whatever a look at
\* /proc has missed.
THEOREM KillsProcesses == DaemonSpec => []NeverKillsZero
<1>1. DaemonInv => NeverKillsZero
  <2>1. SUFFICES ASSUME DaemonInv, NEW i \in Judged PROVE rtpid[i] # 0
    BY DEF NeverKillsZero
  <2> QED
    BY <2>1, DaemonAssumption DEF DaemonInv, Held, Judged
<1> QED
  BY <1>1, DaemonInvariance, PTL

\* A process is killed for its own load, not for what a dead one left in its slot,
\* unless a second copy was started (CheckPid).
THEOREM KillsForOwnLoad == DaemonSpec => []KillsGuilty
<1>1. DaemonInv => KillsGuilty
  BY DEF DaemonInv, KillsGuilty
<1> QED
  BY <1>1, DaemonInvariance, PTL

=============================================================================
