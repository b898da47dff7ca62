----------------------------- MODULE TimeoutQue -----------------------------
(***************************************************************************)
(* The timeout queue of the control process (control/timeout_process.c)    *)
(* with the threads that share it.                                         *)
(*                                                                         *)
(* control keeps one thread per connected client.  A client's thread       *)
(* handles one request at a time: it puts a node in the queue, forwards    *)
(* the request to a room and polls the queue until its node has gone or    *)
(* the time is up.  The thread of a room's connection takes the room's     *)
(* response, looks the node up, deletes it and forwards the response.      *)
(* Every queue operation holds mutex_m, but the lookup and the deletion of *)
(* a response are two operations, and so are a failed insertion and the    *)
(* cleanup it triggers; each is an action of its own here.                 *)
(*                                                                         *)
(* Left out: usercnt and ipaddr, which no decision reads, and con_link,    *)
(* which every operation sets together with enable.                        *)
(***************************************************************************)
EXTENDS Integers, FiniteSets, FiniteSetsExt, Lookup

CONSTANTS
    MaxUser,        \* connections control accepts (CONTROL_FOR_SERVER_MAX_USER)
    QueLen,         \* slots of the queue (TIMEOUT_QUE_LENGTH)
    MaxPoll,        \* polls of one wait (second * 40)
    MaxInRoom,      \* bound: requests the rooms may still answer
    Rooms,
    Platforms, LiveNode, IpadUser, MediaCenter, InvalidPlatform,
    MsgCodes, RecordControl

ASSUME SizeAssumption ==
    /\ MaxUser \in Nat
    /\ QueLen \in Nat
    /\ MaxPoll \in Nat
    /\ MaxInRoom \in Nat

ASSUME PlatformAssumption == InvalidPlatform \notin Platforms

Users == 0 .. MaxUser - 1
Slots == 0 .. QueLen - 1

\* A request on its way to a room, the response that echoes it, a queue node.
Requests == [platform : Platforms, msgcode : MsgCodes, userid : Users, roomid : Rooms]

\* A free slot (enable = 0), or a thread that handles no message.
None == [enable |-> 0]

VARIABLES
    slot,       \* the queue: a Requests record, or None
    platform,   \* platform of each connection, InvalidPlatform when closed
    pc,         \* where each client thread is
    req,        \* the request each client thread handles
    idx,        \* user_index: the slot the thread's insertion returned
    left,       \* polls left in the current wait
    inRoom,     \* requests a room has received and may answer
    rpc,        \* where each room connection's thread is
    rmsg,       \* the response it handles
    ridx,       \* the slot its lookup returned
    rout,       \* out_userid of timeout_que_find_user2
    owed        \* history: the clients that have sent a request and got no answer

clientVars == <<platform, pc, req, idx, left>>
roomVars == <<rpc, rmsg, ridx, rout>>
vars == <<slot, clientVars, inRoom, roomVars, owed>>

-----------------------------------------------------------------------------
\* timeout_que_find_user: all platforms but LiveNode ignore the user.
Matches(p, code, id) ==
    {i \in Slots : /\ slot[i] # None
                   /\ slot[i].platform = p
                   /\ slot[i].msgcode = code
                   /\ p = LiveNode => slot[i].userid = id}

\* timeout_que_find_user2: all platforms but LiveNode match the room instead.
Matches2(p, code, id, room) ==
    {i \in Matches(p, code, id) : p # LiveNode => slot[i].roomid = room}

FreeSlots == {i \in Slots : slot[i] = None}

\* timeout_que_del_user: clears the slot whatever it holds by now.
Deleted(i) == [slot EXCEPT ![i] = None]

\* timeout_que_cleanup: the first node of a closing connection.
CleanedUp(p, id) ==
    LET mine == {i \in Slots : slot[i] # None /\ slot[i].platform = p /\ slot[i].userid = id}
    IN  IF mine = {} THEN slot ELSE Deleted(Min(mine))

\* find_forward_obj and find_forward_obj2: where a response is forwarded to.
ForwardObjs(m, out) ==
    {u \in Users : /\ platform[u] = m.platform
                   /\ m.platform \in {LiveNode, IpadUser} => u = m.userid
                   /\ m.platform = MediaCenter /\ m.msgcode = RecordControl => u = out}

\* The handler of client u returns, and its locals are gone.
Returned(u) ==
    /\ pc' = [pc EXCEPT ![u] = "idle"]
    /\ req' = [req EXCEPT ![u] = None]
    /\ idx' = [idx EXCEPT ![u] = -1]
    /\ left' = [left EXCEPT ![u] = 0]

\* A forwarded request is waited for.
Waiting(u) ==
    /\ pc' = [pc EXCEPT ![u] = "wait"]
    /\ left' = [left EXCEPT ![u] = MaxPoll]
    /\ UNCHANGED <<req, idx>>

Refused(u) == pc' = [pc EXCEPT ![u] = "refuse"] /\ UNCHANGED <<req, idx, left>>

\* The thread of room connection r is done with its response.
Responded(r) ==
    /\ rpc' = [rpc EXCEPT ![r] = "idle"]
    /\ rmsg' = [rmsg EXCEPT ![r] = None]
    /\ ridx' = [ridx EXCEPT ![r] = -1]
    /\ rout' = [rout EXCEPT ![r] = -1]

-----------------------------------------------------------------------------
Init ==
    /\ slot = [i \in Slots |-> None]
    /\ platform = [u \in Users |-> InvalidPlatform]
    /\ pc = [u \in Users |-> "idle"]
    /\ req = [u \in Users |-> None]
    /\ idx = [u \in Users |-> -1]
    /\ left = [u \in Users |-> 0]
    /\ inRoom = {}
    /\ rpc = [r \in Rooms |-> "idle"]
    /\ rmsg = [r \in Rooms |-> None]
    /\ ridx = [r \in Rooms |-> -1]
    /\ rout = [r \in Rooms |-> -1]
    /\ owed = {}

\* A client connects; its first message fixes its platform.
Connect(u, p) ==
    /\ platform[u] = InvalidPlatform
    /\ platform' = [platform EXCEPT ![u] = p]
    /\ UNCHANGED <<slot, pc, req, idx, left, inRoom, roomVars, owed>>

\* The client's thread ends between two requests and cleans its node up.
Exit(u) ==
    /\ platform[u] # InvalidPlatform
    /\ pc[u] = "idle"
    /\ slot' = CleanedUp(platform[u], u)
    /\ platform' = [platform EXCEPT ![u] = InvalidPlatform]
    /\ owed' = owed \ {u}
    /\ UNCHANGED <<pc, req, idx, left, inRoom, roomVars>>

\* A request arrives: timeout_que_add_user takes the first free slot.
AddUser(u, code, room) ==
    /\ platform[u] # InvalidPlatform
    /\ pc[u] = "idle"
    /\ LET m == [platform |-> platform[u], msgcode |-> code, userid |-> u, roomid |-> room]
           i == First(FreeSlots)
       IN  /\ req' = [req EXCEPT ![u] = m]
           /\ idx' = [idx EXCEPT ![u] = i]
           /\ slot' = IF i < 0 THEN slot ELSE [slot EXCEPT ![i] = m]
           /\ pc' = [pc EXCEPT ![u] = IF i < 0 THEN "wipe" ELSE "forward"]
    /\ owed' = owed \cup {u}
    /\ UNCHANGED <<platform, left, inRoom, roomVars>>

\* No slot was free: timeout_que_all_cleanup empties the whole queue.
Wipe(u) ==
    /\ pc[u] = "wipe"
    /\ slot' = [i \in Slots |-> None]
    /\ pc' = [pc EXCEPT ![u] = "forward"]
    /\ UNCHANGED <<platform, req, idx, left, inRoom, roomVars, owed>>

\* The request reaches the room.  A thread that holds a slot starts to wait;
\* without one it refuses, or, for a record control, returns without a word.
ForwardOk(u) ==
    /\ pc[u] = "forward"
    /\ inRoom' = inRoom \cup {req[u]}
    /\ Cardinality(inRoom') <= MaxInRoom
    /\ \/ idx[u] >= 0 /\ Waiting(u)
       \/ idx[u] < 0 /\ req[u].msgcode # RecordControl /\ Refused(u)
       \/ idx[u] < 0 /\ req[u].msgcode = RecordControl /\ Returned(u)
    /\ UNCHANGED <<slot, platform, roomVars, owed>>

\* The room is not connected: the handler refuses the request.
NoForwardObj(u) ==
    /\ pc[u] = "forward"
    /\ Refused(u)
    /\ UNCHANGED <<slot, platform, inRoom, roomVars, owed>>

\* Sending to the room fails; rec_control_process waits all the same.
ForwardFails(u) ==
    /\ pc[u] = "forward"
    /\ \/ req[u].msgcode # RecordControl /\ Refused(u)
       \/ req[u].msgcode = RecordControl /\ idx[u] >= 0 /\ Waiting(u)
       \/ req[u].msgcode = RecordControl /\ idx[u] < 0 /\ Returned(u)
    /\ UNCHANGED <<slot, platform, inRoom, roomVars, owed>>

\* The failure answer of a request that is not waited for.
Refuse(u) ==
    /\ pc[u] = "refuse"
    /\ slot' = IF idx[u] >= 0 THEN Deleted(idx[u]) ELSE slot
    /\ Returned(u)
    /\ owed' = owed \ {u}
    /\ UNCHANGED <<platform, inRoom, roomVars>>

\* Fault: the wait does not count its polls.
PollForever(u) ==
    /\ pc[u] = "wait"
    /\ left[u] > 0
    /\ IF Matches(req[u].platform, req[u].msgcode, u) = {}
       THEN Returned(u)
       ELSE UNCHANGED <<pc, req, idx, left>>
    /\ UNCHANGED <<slot, platform, inRoom, roomVars, owed>>

\* One turn of timeout_que_wait_a_moment: a missing node ends the wait.
Poll(u) ==
    /\ pc[u] = "wait"
    /\ left[u] > 0
    /\ IF Matches(req[u].platform, req[u].msgcode, u) = {}
       THEN Returned(u)
       ELSE left' = [left EXCEPT ![u] = @ - 1] /\ UNCHANGED <<pc, req, idx>>
    /\ UNCHANGED <<slot, platform, inRoom, roomVars, owed>>

\* Fault: the timeout answers and forgets its node.
ExpireKeepsNode(u) ==
    /\ pc[u] = "wait"
    /\ left[u] = 0
    /\ Returned(u)
    /\ owed' = owed \ {u}
    /\ UNCHANGED <<slot, platform, inRoom, roomVars>>

\* The time is up: the thread deletes the slot it was given and answers.
Expire(u) ==
    /\ pc[u] = "wait"
    /\ left[u] = 0
    /\ slot' = Deleted(idx[u])
    /\ Returned(u)
    /\ owed' = owed \ {u}
    /\ UNCHANGED <<platform, inRoom, roomVars>>

\* A room's response arrives (a room may answer a request again, or never).
\* common_resp_process looks the node up with timeout_que_find_user and
\* report_record_status_process with timeout_que_find_user2.
RespNode(r, m) ==
    First(IF m.msgcode = RecordControl
          THEN Matches2(m.platform, m.msgcode, m.userid, r)
          ELSE Matches(m.platform, m.msgcode, m.userid))

RespFind(r, m) ==
    /\ rpc[r] = "idle"
    /\ m \in inRoom
    /\ m.roomid = r
    /\ inRoom' \in {inRoom, inRoom \ {m}}
    /\ LET i == RespNode(r, m)
       IN  IF i < 0
           THEN UNCHANGED roomVars
           ELSE /\ rpc' = [rpc EXCEPT ![r] = "delete"]
                /\ rmsg' = [rmsg EXCEPT ![r] = m]
                /\ ridx' = [ridx EXCEPT ![r] = i]
                /\ rout' = [rout EXCEPT ![r] = IF m.platform = LiveNode THEN -1
                                               ELSE slot[i].userid]
    /\ UNCHANGED <<slot, clientVars, owed>>

\* The response's thread deletes the slot its lookup returned.
RespDelete(r) ==
    /\ rpc[r] = "delete"
    /\ slot' = Deleted(ridx[r])
    /\ rpc' = [rpc EXCEPT ![r] = "answer"]
    /\ UNCHANGED <<clientVars, inRoom, rmsg, ridx, rout, owed>>

\* The response is forwarded to the client, if there is one.
RespForward(r) ==
    /\ rpc[r] = "answer"
    /\ LET u == First(ForwardObjs(rmsg[r], rout[r]))
       IN  owed' = owed \ {u}
    /\ Responded(r)
    /\ UNCHANGED <<slot, clientVars, inRoom>>

\* What a client thread does once it has a request.
Handle(u) ==
    \/ Wipe(u)
    \/ ForwardOk(u)
    \/ NoForwardObj(u)
    \/ ForwardFails(u)
    \/ Refuse(u)
    \/ Poll(u)
    \/ Expire(u)

Client(u) ==
    \/ \E p \in Platforms : Connect(u, p)
    \/ Exit(u)
    \/ \E code \in MsgCodes, room \in Rooms : AddUser(u, code, room)
    \/ Handle(u)

Room(r) ==
    \/ \E m \in Requests : RespFind(r, m)
    \/ RespDelete(r)
    \/ RespForward(r)

Next == (\E u \in Users : Client(u)) \/ (\E r \in Rooms : Room(r))

Spec == Init /\ [][Next]_vars

\* A thread inside a handler is scheduled: nothing it does blocks for good.
Fairness ==
    /\ \A u \in Users : WF_vars(Handle(u))
    /\ \A r \in Rooms : WF_vars(RespDelete(r) \/ RespForward(r))

FairSpec == Spec /\ Fairness

-----------------------------------------------------------------------------
TypeOK ==
    /\ slot \in [Slots -> Requests \cup {None}]
    /\ platform \in [Users -> Platforms \cup {InvalidPlatform}]
    /\ pc \in [Users -> {"idle", "wipe", "forward", "wait", "refuse"}]
    /\ req \in [Users -> Requests \cup {None}]
    /\ idx \in [Users -> Slots \cup {-1}]
    /\ left \in [Users -> 0 .. MaxPoll]
    /\ inRoom \subseteq Requests
    /\ rpc \in [Rooms -> {"idle", "delete", "answer"}]
    /\ rmsg \in [Rooms -> Requests \cup {None}]
    /\ ridx \in [Rooms -> Slots \cup {-1}]
    /\ rout \in [Rooms -> Users \cup {-1}]
    /\ owed \subseteq Users

(* A node in the queue always belongs to a client thread that is still     *)
(* inside the handler that inserted it and holds that very slot: however   *)
(* lookups, deletions, timeouts and cleanups interleave, no node is left   *)
(* behind by a handler that has returned (timeout_que_add_user,            *)
(* timeout_que_del_user, timeout_que_wait_a_moment).                       *)
SlotOwned ==
    \A i \in Slots : slot[i] # None =>
        LET u == slot[i].userid
        IN  /\ pc[u] \in {"forward", "wait", "refuse"}
            /\ idx[u] = i
            /\ slot[i] = req[u]

(* While control accepts no more clients than the queue has slots, an      *)
(* insertion never finds the queue full, so timeout_que_all_cleanup, which *)
(* would drop the nodes of every waiting client, never runs: the premise   *)
(* the comment of timeout_que_add_user puts on the two lengths suffices.   *)
NoWipe == MaxUser <= QueLen => \A u \in Users : pc[u] # "wipe"

(* Every handler returns: the poll loop of timeout_que_wait_a_moment is    *)
(* bounded, whatever happens to the node it looks for.                     *)
HandlerReturns == \A u \in Users : pc[u] # "idle" ~> pc[u] = "idle"

(* What timeout_que_wait_a_moment takes for granted: when the node is gone *)
(* the request has been answered (or a response is being forwarded).       *)
MissingMeansAnswered ==
    (\A r \in Rooms : rpc[r] = "idle") =>
        \A u \in Users : pc[u] = "idle" => u \notin owed
=============================================================================
