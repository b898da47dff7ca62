------------------------- MODULE MsgTimeQue_proofs -------------------------
(***************************************************************************)
(* Proofs about MsgTimeQue, for any queue length, any platforms, users and *)
(* message codes, any limits and any amount the clock is set back and      *)
(* forward.                                                                *)
(***************************************************************************)
EXTENDS MsgTimeQue, Lookup_proofs

\* A node looks older than it is by no more than the clock was set forward
\* since, and what the clock was set back bounds how young it looks.
AgeBounded ==
    \A i \in Slots : /\ age[i] <= real[i] + skipped[i]
                     /\ age[i] <= Cap + skipped[i]
                     /\ age[i] >= setBack - MaxSetBack
                     /\ skipped[i] <= MaxSetForward - setForward

\* The inductive invariant.
IInv == TypeOK /\ NoDuplicateNode /\ AgeBounded

-----------------------------------------------------------------------------
LEMMA IdleIsNoNode == Idle \notin Nodes
  BY DEF Idle, Nodes

LEMMA TimeOutType == \A c : TimeOut(c) \in Nat
  BY TimeAssumption DEF TimeOut

LEMMA CapType == Cap \in Nat /\ Cap > 0
  BY TimeAssumption DEF Cap

LEMMA SlotsAreNaturals == Slots \subseteq Nat /\ Used \subseteq Slots
  BY QueueAssumption DEF Slots, Used

LEMMA IdleIndexFound ==
    ASSUME IdleIndex >= 0
    PROVE  IdleIndex \in Slots /\ que[IdleIndex] = Idle
<1>1. Slots \ Used \in SUBSET Nat
  BY SlotsAreNaturals
<1>2. Slots \ Used # {}
  BY <1>1, FirstFound DEF IdleIndex
<1>3. IdleIndex \in Slots \ Used
  BY <1>1, <1>2, FirstFound DEF IdleIndex
<1> QED BY <1>3 DEF Used

(* A node that upper_msg_have_same_msgcode lets pass has no like in the    *)
(* queue, unless it is a live node's.                                      *)
LEMMA NoSame ==
    ASSUME NEW n \in Nodes, ~SameMsgCode(n), NEW j \in Used, que[j].code = n.code
    PROVE  n.code # ConnectReq /\ (que[j].key = n.key => n.key = LiveNode)
<1> DEFINE cand == {k \in Used : que[k].code = n.code
                                 /\ (n.code = ConnectReq \/ que[k].key = n.key)}
<1> SUFFICES ASSUME n.code = ConnectReq \/ que[j].key = n.key
             PROVE  n.code # ConnectReq /\ n.key = LiveNode
  OBVIOUS
<1>1. cand \in SUBSET Nat /\ j \in cand
  BY SlotsAreNaturals
<1>2. First(cand) \in cand
  BY <1>1, FirstFound
<1>3. First(cand) >= 0
  BY <1>1, <1>2
<1> QED BY <1>3 DEF SameMsgCode

LEMMA DelIndexFound ==
    ASSUME NEW n \in Nodes, DelIndex(n) >= 0
    PROVE  DelIndex(n) \in Used
<1> DEFINE cand == {j \in Used : \/ que[j].key = n.key /\ que[j].code = n.code
                                 \/ n.code = EncLogin /\ que[j].code = ConnectReq}
<1>1. cand \in SUBSET Nat
  BY SlotsAreNaturals
<1>2. DelIndex(n) = First(cand)
  BY DEF DelIndex
<1>3. cand # {}
  BY <1>1, <1>2, FirstFound
<1>4. First(cand) \in cand
  BY <1>1, <1>3, FirstFound
<1> QED BY <1>2, <1>4

-----------------------------------------------------------------------------
LEMMA InitIInv == Init => IInv
  BY TimeAssumption, CapType DEF Init, IInv, TypeOK, NoDuplicateNode, AgeBounded, Used

LEMMA AddNodeStep ==
    ASSUME IInv, NEW n \in Nodes, AddNode(n)
    PROVE  IInv'
<1> DEFINE k == IdleIndex
<1>1. k \in Slots /\ que[k] = Idle /\ ~SameMsgCode(n)
  BY IdleIndexFound DEF AddNode
<1>2. /\ que' = [que EXCEPT ![k] = n]
      /\ age' = [age EXCEPT ![k] = 0]
      /\ real' = [real EXCEPT ![k] = 0]
      /\ skipped' = [skipped EXCEPT ![k] = 0]
      /\ setBack' = setBack
      /\ setForward' = setForward
  BY DEF AddNode, budget
<1> HIDE DEF k
<1>3. TypeOK'
  BY <1>1, <1>2, TimeAssumption, CapType DEF IInv, TypeOK
<1>4. AgeBounded'
  BY <1>1, <1>2, TimeAssumption, CapType DEF IInv, TypeOK, AgeBounded
<1>5. Used' = Used \cup {k} /\ k \notin Used
  BY <1>1, <1>2, IdleIsNoNode DEF IInv, TypeOK, Used
<1>6. NoDuplicateNode'
  <2> SUFFICES ASSUME NEW i \in Used', NEW j \in Used',
                      que'[i].code = que'[j].code,
                      \/ que'[i].code = ConnectReq
                      \/ que'[i].key = que'[j].key /\ que'[i].key # LiveNode
               PROVE  i = j
    BY DEF NoDuplicateNode
  <2>1. \A x \in Used : que'[x] = que[x]
    BY <1>2, <1>5 DEF IInv, TypeOK, Used
  <2>2. que'[k] = n
    BY <1>1, <1>2 DEF IInv, TypeOK
  <2>3. CASE i \in Used /\ j \in Used
    BY <2>1, <2>3 DEF IInv, NoDuplicateNode
  <2>4. CASE i = k /\ j \in Used
    BY <1>1, <2>1, <2>2, <2>4, NoSame
  <2>5. CASE j = k /\ i \in Used
    BY <1>1, <2>1, <2>2, <2>5, NoSame
  <2> QED BY <1>5, <2>3, <2>4, <2>5
<1> QED BY <1>3, <1>4, <1>6 DEF IInv

LEMMA DelNodeStep ==
    ASSUME IInv, NEW n \in Nodes, DelNode(n)
    PROVE  IInv'
<1> DEFINE k == DelIndex(n)
<1>1. k \in Used /\ k \in Slots
  BY DelIndexFound, SlotsAreNaturals DEF DelNode
<1>2. /\ que' = [que EXCEPT ![k] = Idle]
      /\ age' = [age EXCEPT ![k] = 0]
      /\ real' = [real EXCEPT ![k] = 0]
      /\ skipped' = [skipped EXCEPT ![k] = 0]
      /\ setBack' = setBack
      /\ setForward' = setForward
  BY DEF DelNode, budget
<1> HIDE DEF k
<1>3. TypeOK'
  BY <1>1, <1>2, TimeAssumption, CapType DEF IInv, TypeOK
<1>4. AgeBounded'
  BY <1>1, <1>2, TimeAssumption, CapType DEF IInv, TypeOK, AgeBounded
<1>5. NoDuplicateNode'
  BY <1>1, <1>2 DEF IInv, TypeOK, NoDuplicateNode, Used
<1> QED BY <1>3, <1>4, <1>5 DEF IInv

LEMMA MonitorStep == IInv /\ Monitor => IInv'
<1> SUFFICES ASSUME IInv, Monitor PROVE IInv'
  OBVIOUS
<1>1. TypeOK'
  BY TimeAssumption, CapType DEF IInv, TypeOK, Monitor, budget
<1>2. AgeBounded'
  BY TimeAssumption, CapType DEF IInv, TypeOK, AgeBounded, Monitor, budget
<1>3. NoDuplicateNode'
  BY DEF IInv, TypeOK, NoDuplicateNode, Used, Monitor
<1> QED BY <1>1, <1>2, <1>3 DEF IInv

LEMMA TickStep == IInv /\ Tick => IInv'
<1> SUFFICES ASSUME IInv, Tick PROVE IInv'
  OBVIOUS
<1>1. TypeOK'
  BY TimeAssumption, CapType DEF IInv, TypeOK, Tick, budget
<1>2. AgeBounded'
  BY TimeAssumption, CapType DEF IInv, TypeOK, AgeBounded, Tick, budget
<1>3. NoDuplicateNode'
  BY DEF IInv, NoDuplicateNode, Used, Tick
<1> QED BY <1>1, <1>2, <1>3 DEF IInv

LEMMA SetClockForwardStep ==
    ASSUME IInv, NEW d \in 1 .. MaxSetForward, SetClockForward(d)
    PROVE  IInv'
<1>1. AgeBounded'
  BY TimeAssumption, CapType DEF IInv, TypeOK, AgeBounded, SetClockForward
<1>2. TypeOK'
  BY <1>1, TimeAssumption, CapType DEF IInv, TypeOK, AgeBounded, SetClockForward
<1>3. NoDuplicateNode'
  BY DEF IInv, NoDuplicateNode, Used, SetClockForward
<1> QED BY <1>1, <1>2, <1>3 DEF IInv

LEMMA SetClockBackStep ==
    ASSUME IInv, NEW d \in 1 .. MaxSetBack, SetClockBack(d)
    PROVE  IInv'
<1>1. AgeBounded'
  BY TimeAssumption, CapType DEF IInv, TypeOK, AgeBounded, SetClockBack
<1>2. TypeOK'
  BY <1>1, TimeAssumption, CapType DEF IInv, TypeOK, AgeBounded, SetClockBack
<1>3. NoDuplicateNode'
  BY DEF IInv, NoDuplicateNode, Used, SetClockBack
<1> QED BY <1>1, <1>2, <1>3 DEF IInv

(* Every reachable state of the room's message time queue satisfies the    *)
(* inductive invariant.                                                    *)
THEOREM Invariance == Spec => []IInv
<1>1. IInv /\ [Next]_vars => IInv'
  <2> SUFFICES ASSUME IInv, [Next]_vars PROVE IInv'
    OBVIOUS
  <2>1. CASE UNCHANGED vars
    BY <2>1 DEF vars, IInv, TypeOK, NoDuplicateNode, AgeBounded, Used
  <2> QED BY <2>1, AddNodeStep, DelNodeStep, MonitorStep, TickStep, SetClockBackStep,
             SetClockForwardStep DEF Next
<1> QED BY <1>1, InitIInv, PTL DEF Spec

(* Type correctness of the message time queue. *)
THEOREM TypeCorrect == Spec => []TypeOK
  BY Invariance, PTL DEF IInv

(* upper_msg_have_same_msgcode admits one node per platform and code.      *)
THEOREM NodesAreUnique == Spec => []NoDuplicateNode
  BY Invariance, PTL DEF IInv

(* upper_msg_monitor_time_queue gives no node up before its limit, but for *)
(* the seconds the clock was set forward while the node was in the queue.  *)
THEOREM NoEarlyTimeout == Spec => []NeverEarly
<1>1. IInv => NeverEarly
  BY TimeOutType DEF IInv, TypeOK, AgeBounded, NeverEarly, TimedOut
<1> QED BY <1>1, Invariance, PTL

-----------------------------------------------------------------------------
\* What PendingReq sees of a request are the times of its only node.
SeenAsNode ==
    \A r \in Tracked : /\ NodesOf(r) = {} => Waited[r] = -1 /\ Skipped[r] = 0
                       /\ \A i \in NodesOf(r) : /\ NodesOf(r) = {i}
                                                /\ Waited[r] = real[i] /\ real[i] \in Nat
                                                /\ Skipped[r] = skipped[i]
                                                /\ skipped[i] \in Nat

LEMMA WaitedIs == IInv => SeenAsNode
<1> SUFFICES ASSUME IInv, NEW r \in Tracked, NEW i \in NodesOf(r)
             PROVE  /\ NodesOf(r) = {i}
                    /\ Waited[r] = real[i] /\ real[i] \in Nat
                    /\ Skipped[r] = skipped[i] /\ skipped[i] \in Nat
  BY DEF Waited, Skipped, SeenAsNode
<1>1. i \in Slots /\ real[i] \in Nat /\ skipped[i] \in Nat
  <2>1. i \in Slots
    BY SlotsAreNaturals DEF NodesOf
  <2>2. real \in [Slots -> 0 .. Cap] /\ skipped \in [Slots -> 0 .. MaxSetForward]
    BY DEF IInv, TypeOK
  <2> QED BY <2>1, <2>2, CapType, TimeAssumption
<1>2. NodesOf(r) = {i}
  BY DEF NodesOf, Tracked, IInv, NoDuplicateNode
<1>3. First({i}) = i
  <2>1. {i} \in SUBSET Nat
    BY <1>1, SlotsAreNaturals
  <2> QED BY <2>1, FirstFound
<1> QED BY <1>1, <1>2, <1>3 DEF Waited, Skipped

LEMMA WaitedIsNext == IInv' => SeenAsNode'
  BY WaitedIs, PTL

LEMMA WaitedFcn ==
    /\ Waited = [r \in Tracked |-> Waited[r]] /\ Waited' = [r \in Tracked |-> Waited'[r]]
    /\ Skipped = [r \in Tracked |-> Skipped[r]] /\ Skipped' = [r \in Tracked |-> Skipped'[r]]
  BY DEF Waited, Skipped

\* What PendingReq sees.
Seen == <<Waited, Skipped>>

(* Inserting a node admits its request, or nothing PendingReq keeps. *)
LEMMA AddNodeRefines ==
    ASSUME IInv, IInv', NEW n \in Nodes, AddNode(n)
    PROVE  [Pending!Next]_Seen
<1> DEFINE k == IdleIndex
           r0 == <<n.key, n.code>>
<1>1. k \in Slots /\ que[k] = Idle /\ ~SameMsgCode(n)
  BY IdleIndexFound DEF AddNode
<1>2. /\ que' = [que EXCEPT ![k] = n]
      /\ real' = [real EXCEPT ![k] = 0]
      /\ skipped' = [skipped EXCEPT ![k] = 0]
  BY DEF AddNode
<1> HIDE DEF k
<1>3. /\ Used' = Used \cup {k}
      /\ k \notin Used
      /\ que'[k] = n
      /\ real'[k] = 0 /\ skipped'[k] = 0
      /\ \A j \in Used : que'[j] = que[j] /\ real'[j] = real[j] /\ skipped'[j] = skipped[j]
  BY <1>1, <1>2, IdleIsNoNode DEF IInv, TypeOK, Used
<1>4. \A r \in Tracked : r # r0 => Waited'[r] = Waited[r] /\ Skipped'[r] = Skipped[r]
  <2> SUFFICES ASSUME NEW r \in Tracked, r # r0
               PROVE  Waited'[r] = Waited[r] /\ Skipped'[r] = Skipped[r]
    OBVIOUS
  <2>1. r = <<r[1], r[2]>>
    BY DEF Tracked
  <2>2. n.key # r[1] \/ n.code # r[2]
    BY <2>1
  <2>3. NodesOf(r)' = NodesOf(r)
    BY <1>3, <2>2 DEF NodesOf
  <2> QED BY <1>3, <2>3, WaitedIs, WaitedIsNext DEF NodesOf, SeenAsNode
<1>5. CASE n.key = LiveNode
  <2>1. r0 \notin Tracked
    BY <1>5 DEF Tracked
  <2>2. \A r \in Tracked : Waited'[r] = Waited[r] /\ Skipped'[r] = Skipped[r]
    BY <1>4, <2>1
  <2> QED BY <2>2, WaitedFcn DEF Seen
<1>6. CASE n.key # LiveNode
  <2>1. r0 \in Tracked /\ r0[1] = n.key /\ r0[2] = n.code
    BY <1>6 DEF Tracked, Nodes
  <2>2. NodesOf(r0) = {}
    BY <1>1, <1>6, <2>1, NoSame DEF NodesOf
  <2>3. k \in NodesOf(r0)'
    BY <1>3, <2>1 DEF NodesOf
  <2>4. /\ Waited[r0] = -1 /\ Waited'[r0] = 0
        /\ Skipped[r0] = 0 /\ Skipped'[r0] = 0
    BY <1>3, <2>1, <2>2, <2>3, WaitedIs, WaitedIsNext DEF SeenAsNode
  <2>5. Waited' = [Waited EXCEPT ![r0] = 0] /\ Skipped' = Skipped
    <3>1. Waited' = [Waited EXCEPT ![r0] = 0]
      BY <1>4, <2>1, <2>4, WaitedFcn
    <3>2. \A r \in Tracked : Skipped'[r] = Skipped[r]
      BY <1>4, <2>4
    <3> QED BY <3>1, <3>2, WaitedFcn
  <2>6. n.code = ConnectReq =>
          \A r \in Tracked : r[2] = ConnectReq => ~(Waited[r] >= 0)
    <3> SUFFICES ASSUME n.code = ConnectReq, NEW r \in Tracked, r[2] = ConnectReq
                 PROVE  Waited[r] = -1
      OBVIOUS
    <3>1. NodesOf(r) = {}
      BY <1>1, NoSame DEF NodesOf
    <3> QED BY <3>1, WaitedIs DEF SeenAsNode
  <2>7. Pending!Admit(r0)
    BY <2>1, <2>4, <2>5, <2>6 DEF Pending!Admit, Pending!Outstanding
  <2> QED BY <2>1, <2>7 DEF Pending!Next
<1> QED BY <1>5, <1>6

(* Deleting a node answers its request, or nothing PendingReq keeps. *)
LEMMA DelNodeRefines ==
    ASSUME IInv, IInv', NEW n \in Nodes, DelNode(n)
    PROVE  [Pending!Next]_Seen
<1>k. PICK k : k = DelIndex(n)
  OBVIOUS
<1>1. k \in Used /\ k \in Slots
  BY <1>k, DelIndexFound, SlotsAreNaturals DEF DelNode
<1>2. /\ que' = [que EXCEPT ![k] = Idle]
      /\ real' = [real EXCEPT ![k] = 0]
      /\ skipped' = [skipped EXCEPT ![k] = 0]
  BY <1>k DEF DelNode
<1>r. PICK r0 : r0 = <<que[k].key, que[k].code>>
  OBVIOUS
<1>3. /\ Used' = Used \ {k}
      /\ \A j \in Used' : que'[j] = que[j] /\ real'[j] = real[j] /\ skipped'[j] = skipped[j]
  BY <1>1, <1>2 DEF IInv, TypeOK, Used
<1>4. que[k] \in Nodes
  BY <1>1 DEF IInv, TypeOK, Used
<1>5. \A r \in Tracked : r # r0 => Waited'[r] = Waited[r] /\ Skipped'[r] = Skipped[r]
  <2> SUFFICES ASSUME NEW r \in Tracked, r # r0
               PROVE  Waited'[r] = Waited[r] /\ Skipped'[r] = Skipped[r]
    OBVIOUS
  <2>1. r = <<r[1], r[2]>>
    BY DEF Tracked
  <2>2. k \notin NodesOf(r)
    BY <1>r, <2>1 DEF NodesOf
  <2>3. NodesOf(r)' = NodesOf(r)
    BY <1>3, <2>2 DEF NodesOf
  <2> QED BY <1>3, <2>3, WaitedIs, WaitedIsNext DEF NodesOf, SeenAsNode
<1>6. CASE que[k].key = LiveNode
  <2>1. r0 \notin Tracked
    BY <1>6, <1>r DEF Tracked
  <2> QED BY <1>5, <2>1, WaitedFcn DEF Seen
<1>7. CASE que[k].key # LiveNode
  <2>1. r0 \in Tracked /\ r0[1] = que[k].key /\ r0[2] = que[k].code
    BY <1>4, <1>7, <1>r DEF Tracked, Nodes
  <2>2. k \in NodesOf(r0)
    BY <1>1, <2>1 DEF NodesOf
  <2>3. NodesOf(r0) = {k} /\ Waited[r0] >= 0
    BY <2>1, <2>2, WaitedIs DEF SeenAsNode
  <2>4. NodesOf(r0)' = {}
    BY <1>3, <2>3 DEF NodesOf
  <2>5. Waited'[r0] = -1 /\ Skipped'[r0] = 0
    BY <2>1, <2>4, WaitedIsNext DEF SeenAsNode
  <2>6. /\ Waited' = [Waited EXCEPT ![r0] = -1]
        /\ Skipped' = [Skipped EXCEPT ![r0] = 0]
    BY <1>5, <2>1, <2>5, WaitedFcn
  <2>7. Pending!Answer(r0)
    BY <2>1, <2>3, <2>6 DEF Pending!Answer, Pending!Outstanding
  <2> QED BY <2>1, <2>7 DEF Pending!Next
<1> QED BY <1>6, <1>7

(* A sweep lets requests go whose limit is over by the clock. *)
LEMMA MonitorRefines ==
    ASSUME IInv, IInv', Monitor
    PROVE  [Pending!Next]_Seen
<1> DEFINE gone == {i \in Used : TimedOut(i)}
           S == {r \in Tracked : NodesOf(r) \cap gone # {}}
<1>1. /\ Used' = Used \ gone
      /\ \A j \in Used' : que'[j] = que[j] /\ real'[j] = real[j] /\ skipped'[j] = skipped[j]
  BY DEF Monitor, Used
<1>2. \A i \in gone : real[i] + skipped[i] > TimeOut(que[i].code)
  BY TimeOutType DEF IInv, TypeOK, AgeBounded, TimedOut, Used
<1> HIDE DEF gone
<1>3. ASSUME NEW r \in S
      PROVE  /\ Waited[r] >= 0
             /\ Waited[r] + Skipped[r] > TimeOut(r[2])
             /\ Waited'[r] = -1 /\ Skipped'[r] = 0
  <2>1. PICK i \in NodesOf(r) : i \in gone
    OBVIOUS
  <2>2. que[i].code = r[2]
    BY DEF NodesOf
  <2>3. /\ NodesOf(r) = {i}
        /\ Waited[r] = real[i] /\ real[i] \in Nat
        /\ Skipped[r] = skipped[i]
    BY WaitedIs DEF SeenAsNode
  <2>4. NodesOf(r)' = {}
    BY <1>1, <2>1, <2>3 DEF NodesOf
  <2>5. Waited'[r] = -1 /\ Skipped'[r] = 0
    BY <2>4, WaitedIsNext DEF SeenAsNode
  <2> QED BY <1>2, <2>1, <2>2, <2>3, <2>5
<1>4. ASSUME NEW r \in Tracked, r \notin S
      PROVE  Waited'[r] = Waited[r] /\ Skipped'[r] = Skipped[r]
  <2>1. NodesOf(r)' = NodesOf(r)
    BY <1>1, <1>4 DEF NodesOf
  <2> QED BY <1>1, <2>1, WaitedIs, WaitedIsNext DEF NodesOf, SeenAsNode
<1>5. /\ Waited' = [r \in Tracked |-> IF r \in S THEN -1 ELSE Waited[r]]
      /\ Skipped' = [r \in Tracked |-> IF r \in S THEN 0 ELSE Skipped[r]]
  BY <1>3, <1>4, WaitedFcn
<1>6. Pending!Expire(S)
  BY <1>3, <1>5 DEF Pending!Expire, Pending!Outstanding
<1> QED BY <1>6 DEF Pending!Next

LEMMA TickRefines ==
    ASSUME IInv, IInv', Tick
    PROVE  [Pending!Next]_Seen
<1>1. /\ Used' = Used
      /\ que' = que
      /\ \A i \in Used : /\ real'[i] = IF real[i] < Cap THEN real[i] + 1 ELSE real[i]
                         /\ skipped'[i] = skipped[i]
  BY DEF Tick, Used
<1>2. ASSUME NEW r \in Tracked
      PROVE  /\ Waited'[r] = IF Waited[r] >= 0 /\ Waited[r] < Cap
                             THEN Waited[r] + 1 ELSE Waited[r]
             /\ Skipped'[r] = Skipped[r]
  <2>1. NodesOf(r)' = NodesOf(r)
    BY <1>1 DEF NodesOf
  <2>2. CASE NodesOf(r) = {}
    BY <2>1, <2>2, WaitedIs, WaitedIsNext DEF SeenAsNode
  <2>3. CASE NodesOf(r) # {}
    <3>1. PICK i \in NodesOf(r) : i \in Used
      BY <2>3 DEF NodesOf
    <3> QED BY <1>1, <2>1, <3>1, WaitedIs, WaitedIsNext DEF SeenAsNode
  <2> QED BY <2>2, <2>3
<1>3. /\ Waited' = [r \in Tracked |-> IF Waited[r] >= 0 /\ Waited[r] < Cap
                                      THEN Waited[r] + 1 ELSE Waited[r]]
      /\ Skipped' = Skipped
  BY <1>2, WaitedFcn
<1> QED BY <1>3 DEF Pending!Next, Pending!Tick

(* A clock set forward skips seconds of every request outstanding. *)
LEMMA SetClockForwardRefines ==
    ASSUME IInv, IInv', NEW d \in 1 .. MaxSetForward, SetClockForward(d)
    PROVE  [Pending!Next]_Seen
<1>1. /\ Used' = Used
      /\ que' = que
      /\ \A i \in Used : real'[i] = real[i] /\ skipped'[i] = skipped[i] + d
  BY SlotsAreNaturals DEF SetClockForward, Used
<1>2. ASSUME NEW r \in Tracked
      PROVE  /\ Waited'[r] = Waited[r]
             /\ Skipped'[r] = IF Waited[r] >= 0 THEN Skipped[r] + d ELSE Skipped[r]
  <2>1. NodesOf(r)' = NodesOf(r)
    BY <1>1 DEF NodesOf
  <2>2. CASE NodesOf(r) = {}
    BY <2>1, <2>2, WaitedIs, WaitedIsNext DEF SeenAsNode
  <2>3. CASE NodesOf(r) # {}
    <3>1. PICK i \in NodesOf(r) : i \in Used
      BY <2>3 DEF NodesOf
    <3> QED BY <1>1, <2>1, <3>1, WaitedIs, WaitedIsNext DEF SeenAsNode
  <2> QED BY <2>2, <2>3
<1>3. /\ Skipped' = [r \in Tracked |-> IF r \in Pending!Outstanding
                                       THEN Skipped[r] + d ELSE Skipped[r]]
      /\ Waited' = Waited
  BY <1>2, WaitedFcn DEF Pending!Outstanding
<1>4. Pending!Jump(d)
  BY <1>3 DEF Pending!Jump
<1> QED BY <1>4 DEF Pending!Next

(* add_node, del_node and the sweep together implement PendingReq: a       *)
(* request is outstanding once and let go by one answer, or by a timeout   *)
(* that is due by the clock as it was set since.                           *)
THEOREM Refinement == Spec => KeepsPending
<1>1. Init => Pending!Init
  <2> SUFFICES ASSUME Init PROVE Pending!Init
    OBVIOUS
  <2>1. \A r \in Tracked : NodesOf(r) = {}
    BY DEF Init, NodesOf, Used
  <2> QED BY <2>1 DEF Pending!Init, Waited, Skipped
<1>2. IInv /\ IInv' /\ [Next]_vars => [Pending!Next]_Pending!vars
  <2> SUFFICES ASSUME IInv, IInv', [Next]_vars PROVE [Pending!Next]_Seen
    BY DEF Pending!vars, Seen
  <2>1. CASE UNCHANGED vars \/ \E d \in 1 .. MaxSetBack : SetClockBack(d)
    <3>1. que' = que /\ real' = real /\ skipped' = skipped
      BY <2>1 DEF vars, SetClockBack
    <3> QED BY <3>1 DEF Seen, Waited, Skipped, NodesOf, Used
  <2> QED BY <2>1, AddNodeRefines, DelNodeRefines, MonitorRefines, TickRefines,
             SetClockForwardRefines DEF Next
<1> QED BY <1>1, <1>2, Invariance, PTL DEF Spec, KeepsPending, Pending!Spec
=============================================================================
