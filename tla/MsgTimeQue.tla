----------------------------- MODULE MsgTimeQue -----------------------------
(***************************************************************************)
(* The message time queue of the room process (msgTimeQue in               *)
(* room/ctrl/upper_msg_ctrl.c).  The upper thread inserts a node for every *)
(* request it passes on to the encoders and sweeps the queue on every turn *)
(* of its loop; the encoders' threads delete a node when the answers are   *)
(* complete.  Every operation holds msgQueMutex from its first look at the *)
(* queue to its last write, the sweep included, so each is one action.     *)
(*                                                                         *)
(* Nodes are stamped with the wall clock, which NTP or a client may set    *)
(* back or forward; what matters is a stamp's distance from now, so a node *)
(* keeps its age, which is negative after a step back and more than its    *)
(* waiting time after a step forward.                                      *)
(***************************************************************************)
EXTENDS Integers, FiniteSets, Lookup

CONSTANTS
    QueNum,             \* ROOM_MSG_TIME_QUE_NUM
    Codes,              \* message codes
    ConnectReq, EncLogin, VolumeReq,
    Keys, LiveNode,     \* pass keys; LiveNode is MSG_LIVENODE_PASSKEY
    UserIds,
    TimeOutVal, LoginTimeOutVal, VolumeTimeOutVal,
    MaxSetBack,         \* bound: seconds the clock is set back in total
    MaxSetForward       \* bound: seconds the clock is set forward in total

ASSUME QueueAssumption == QueNum \in Nat

ASSUME TimeAssumption ==
    /\ TimeOutVal \in Nat
    /\ LoginTimeOutVal \in Nat
    /\ VolumeTimeOutVal \in Nat
    /\ MaxSetBack \in Nat
    /\ MaxSetForward \in Nat

Slots == 0 .. QueNum - 1

\* upper_msg_monitor_time_queue: the seconds a message may take.
TimeOut(code) ==
    CASE code = EncLogin  -> LoginTimeOutVal
      [] code = VolumeReq -> VolumeTimeOutVal
      [] OTHER            -> TimeOutVal

\* Ages are counted up to Cap: even set back, they are then beyond every limit.
Cap == TimeOutVal + LoginTimeOutVal + VolumeTimeOutVal + MaxSetBack + 1

Nodes == [code : Codes, key : Keys, user : UserIds]

\* An idle slot (MsgCode = 0).
Idle == [code |-> "none"]

VARIABLES
    que,        \* the queue: a node or Idle
    age,        \* now minus the node's stamp
    real,       \* history: seconds the node has really been in the queue
    skipped,    \* history: seconds the clock was set forward in that time
    setBack,    \* seconds the clock may still be set back
    setForward  \* seconds the clock may still be set forward

budget == <<setBack, setForward>>

vars == <<que, age, real, skipped, setBack, setForward>>

-----------------------------------------------------------------------------
Used == {i \in Slots : que[i] # Idle}

\* upper_msg_have_same_msgcode: only the first candidate is looked at.
SameMsgCode(n) ==
    LET i == First({j \in Used : que[j].code = n.code
                                 /\ (n.code = ConnectReq \/ que[j].key = n.key)})
    IN  i >= 0 /\ (n.code = ConnectReq \/ n.key # LiveNode \/ que[i].user = n.user)

\* upper_msg_get_idle_index
IdleIndex == First(Slots \ Used)

\* upper_msg_time_que_del_node: the node a finished message removes, -1: none.
\* The first candidate decides, even when it is another live user's.
DelIndex(n) ==
    LET i == First({j \in Used : \/ que[j].key = n.key /\ que[j].code = n.code
                                 \/ n.code = EncLogin /\ que[j].code = ConnectReq})
        same == que[i].key = n.key /\ que[i].code = n.code
    IN  IF i >= 0 /\ same /\ n.key = LiveNode /\ que[i].user # n.user THEN -1 ELSE i

-----------------------------------------------------------------------------
Init ==
    /\ que = [i \in Slots |-> Idle]
    /\ age = [i \in Slots |-> 0]
    /\ real = [i \in Slots |-> 0]
    /\ skipped = [i \in Slots |-> 0]
    /\ setBack = MaxSetBack
    /\ setForward = MaxSetForward

\* Fault: a node is inserted without looking for its like.
AddNodeUnchecked(n) ==
    /\ IdleIndex >= 0
    /\ que' = [que EXCEPT ![IdleIndex] = n]
    /\ age' = [age EXCEPT ![IdleIndex] = 0]
    /\ real' = [real EXCEPT ![IdleIndex] = 0]
    /\ skipped' = [skipped EXCEPT ![IdleIndex] = 0]
    /\ UNCHANGED budget

\* Fault: the node is not stamped, so its stamp is the zero of the slot.
AddNodeUnstamped(n) ==
    /\ ~SameMsgCode(n)
    /\ IdleIndex >= 0
    /\ que' = [que EXCEPT ![IdleIndex] = n]
    /\ age' = [age EXCEPT ![IdleIndex] = Cap]
    /\ real' = [real EXCEPT ![IdleIndex] = 0]
    /\ skipped' = [skipped EXCEPT ![IdleIndex] = 0]
    /\ UNCHANGED budget

\* upper_msg_time_que_add_node: a refused node is dropped without a word.
AddNode(n) ==
    /\ ~SameMsgCode(n)
    /\ IdleIndex >= 0
    /\ que' = [que EXCEPT ![IdleIndex] = n]
    /\ age' = [age EXCEPT ![IdleIndex] = 0]
    /\ real' = [real EXCEPT ![IdleIndex] = 0]
    /\ skipped' = [skipped EXCEPT ![IdleIndex] = 0]
    /\ UNCHANGED budget

\* upper_msg_time_que_del_node
DelNode(n) ==
    /\ DelIndex(n) >= 0
    /\ que' = [que EXCEPT ![DelIndex(n)] = Idle]
    /\ age' = [age EXCEPT ![DelIndex(n)] = 0]
    /\ real' = [real EXCEPT ![DelIndex(n)] = 0]
    /\ skipped' = [skipped EXCEPT ![DelIndex(n)] = 0]
    /\ UNCHANGED budget

TimedOut(i) == i \in Used /\ age[i] > TimeOut(que[i].code)

\* Fault: a stamp in the future is taken for a timeout.
MonitorFutureIsLate ==
    LET gone == {i \in Used : TimedOut(i) \/ age[i] < 0}
    IN  /\ que' = [i \in Slots |-> IF i \in gone THEN Idle ELSE que[i]]
        /\ age' = [i \in Slots |-> IF i \in gone THEN 0 ELSE age[i]]
        /\ real' = [i \in Slots |-> IF i \in gone THEN 0 ELSE real[i]]
        /\ skipped' = [i \in Slots |-> IF i \in gone THEN 0 ELSE skipped[i]]
        /\ UNCHANGED budget

\* Fault: a node that may still wait is stamped anew as well.
MonitorRestampsAll ==
    LET gone == {i \in Used : TimedOut(i)}
    IN  /\ que' = [i \in Slots |-> IF i \in gone THEN Idle ELSE que[i]]
        /\ age' = [i \in Slots |-> 0]
        /\ real' = [i \in Slots |-> IF i \in gone THEN 0 ELSE real[i]]
        /\ skipped' = [i \in Slots |-> IF i \in gone THEN 0 ELSE skipped[i]]
        /\ UNCHANGED budget

\* upper_msg_monitor_time_queue: one sweep.  Nodes that waited too long are
\* answered and zeroed, nodes stamped in the future are stamped anew.
Monitor ==
    LET gone == {i \in Used : TimedOut(i)}
    IN  /\ que' = [i \in Slots |-> IF i \in gone THEN Idle ELSE que[i]]
        /\ age' = [i \in Slots |-> IF i \in gone \/ age[i] < 0 THEN 0 ELSE age[i]]
        /\ real' = [i \in Slots |-> IF i \in gone THEN 0 ELSE real[i]]
        /\ skipped' = [i \in Slots |-> IF i \in gone THEN 0 ELSE skipped[i]]
        /\ UNCHANGED budget

\* A second passes.
Tick ==
    /\ age' = [i \in Slots |-> IF i \in Used /\ age[i] < Cap THEN age[i] + 1 ELSE age[i]]
    /\ real' = [i \in Slots |-> IF i \in Used /\ real[i] < Cap THEN real[i] + 1 ELSE real[i]]
    /\ UNCHANGED <<que, skipped, budget>>

\* The wall clock is set back (bounded by MaxSetBack).
SetClockBack(d) ==
    /\ d <= setBack
    /\ age' = [i \in Slots |-> IF i \in Used THEN age[i] - d ELSE age[i]]
    /\ setBack' = setBack - d
    /\ UNCHANGED <<que, real, skipped, setForward>>

\* The wall clock is set forward (bounded by MaxSetForward).
SetClockForward(d) ==
    /\ d <= setForward
    /\ age' = [i \in Slots |-> IF i \in Used THEN age[i] + d ELSE age[i]]
    /\ skipped' = [i \in Slots |-> IF i \in Used THEN skipped[i] + d ELSE skipped[i]]
    /\ setForward' = setForward - d
    /\ UNCHANGED <<que, real, setBack>>

Next ==
    \/ \E n \in Nodes : AddNode(n) \/ DelNode(n)
    \/ Monitor
    \/ Tick
    \/ \E d \in 1 .. MaxSetBack : SetClockBack(d)
    \/ \E d \in 1 .. MaxSetForward : SetClockForward(d)

Spec == Init /\ [][Next]_vars

\* The upper thread sweeps on every turn of its loop, and time passes.
FairSpec == Spec /\ WF_vars(Monitor) /\ WF_vars(Tick)

-----------------------------------------------------------------------------
TypeOK ==
    /\ que \in [Slots -> Nodes \cup {Idle}]
    /\ age \in [Slots -> (-MaxSetBack) .. Cap + MaxSetForward]
    /\ real \in [Slots -> 0 .. Cap]
    /\ skipped \in [Slots -> 0 .. MaxSetForward]
    /\ setBack \in 0 .. MaxSetBack
    /\ setForward \in 0 .. MaxSetForward

(* upper_msg_have_same_msgcode keeps its word for every platform but the   *)
(* live nodes: one node per platform and message code, and, as its comment *)
(* on the connect request says, one connect request whatever the platform. *)
NoDuplicateNode ==
    \A i, j \in Used :
        que[i].code = que[j].code
        /\ (que[i].code = ConnectReq \/ (que[i].key = que[j].key /\ que[i].key # LiveNode))
        => i = j

(* upper_msg_monitor_time_queue gives a node up early by no more than the  *)
(* clock was set forward while the node was in the queue: not because of   *)
(* what a slot held before, of a step made earlier, or of a step back.     *)
NeverEarly ==
    \A i \in Slots : TimedOut(i) => real[i] + skipped[i] > TimeOut(que[i].code)

(* A node leaves the queue by itself when no answer comes, also when the   *)
(* clock has been set back meanwhile (upper_msg_monitor_time_queue).       *)
EveryNodeLeaves == \A i \in Slots : que[i] # Idle ~> que[i] = Idle

-----------------------------------------------------------------------------
\* The requests the queue keeps apart: platform and message code.
Tracked == (Keys \ {LiveNode}) \X Codes

NodesOf(r) == {i \in Used : que[i].key = r[1] /\ que[i].code = r[2]}

Waited == [r \in Tracked |-> IF NodesOf(r) = {} THEN -1 ELSE real[First(NodesOf(r))]]

Skipped == [r \in Tracked |-> IF NodesOf(r) = {} THEN 0 ELSE skipped[First(NodesOf(r))]]

Pending == INSTANCE PendingReq WITH
    Requests  <- Tracked,
    Limit     <- [r \in Tracked |-> TimeOut(r[2])],
    Exclusive <- {r \in Tracked : r[2] = ConnectReq},
    Cap       <- Cap,
    MaxJump   <- MaxSetForward,
    waited    <- Waited,
    skipped   <- Skipped

(* The queue implements PendingReq for every platform but the live nodes:  *)
(* a request is outstanding once and let go by one answer or by a timeout  *)
(* that is due by the clock as it was set since (add_node, del_node and    *)
(* monitor_time_queue together).                                           *)
KeepsPending == Pending!Spec
=============================================================================
