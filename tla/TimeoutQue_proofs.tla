------------------------- MODULE TimeoutQue_proofs -------------------------
(***************************************************************************)
(* Proofs about TimeoutQue, for any number of clients, rooms, slots and    *)
(* polls.                                                                  *)
(***************************************************************************)
EXTENDS TimeoutQue, Lookup_proofs, FiniteSetTheorems

\* A client thread inside a handler knows the request it handles.
RequestKnown == \A u \in Users : pc[u] # "idle" => req[u] \in Requests

\* The inductive invariant.
IInv == TypeOK /\ RequestKnown /\ SlotOwned /\ NoWipe

-----------------------------------------------------------------------------
LEMMA SlotsAreNaturals == Slots \subseteq Nat /\ Users \subseteq Nat /\ -1 \notin Slots
  BY SizeAssumption DEF Slots, Users

(* When every slot is taken, every slot has its own client inside a        *)
(* handler; a client that is about to insert is one more, so there are     *)
(* more clients than slots.                                                *)
LEMMA FullQueueNeedsMoreUsers ==
    ASSUME TypeOK, SlotOwned, NEW u \in Users, pc[u] = "idle",
           FreeSlots = {}
    PROVE  QueLen < MaxUser
<1> DEFINE owner == [i \in Slots |-> slot[i].userid]
           Others == Users \ {u}
<1>1. \A i \in Slots : slot[i] # None /\ slot[i] \in Requests
  BY DEF FreeSlots, TypeOK
<1>2. \A i \in Slots : owner[i] \in Others /\ idx[owner[i]] = i
  BY <1>1 DEF SlotOwned, Requests
<1>3. owner \in Injection(Slots, Others)
  BY <1>2 DEF Injection, IsInjective
<1>4. /\ IsFiniteSet(Users)
      /\ Cardinality(Users) = MaxUser
      /\ IsFiniteSet(Slots)
      /\ Cardinality(Slots) = QueLen
  <2>1. 0 \in Int /\ MaxUser - 1 \in Int /\ QueLen - 1 \in Int
    BY SizeAssumption
  <2>2. Cardinality(Users) = IF 0 > MaxUser - 1 THEN 0 ELSE MaxUser - 1 - 0 + 1
    BY <2>1, FS_Interval DEF Users
  <2>3. Cardinality(Slots) = IF 0 > QueLen - 1 THEN 0 ELSE QueLen - 1 - 0 + 1
    BY <2>1, FS_Interval DEF Slots
  <2>4. IsFiniteSet(Users) /\ IsFiniteSet(Slots)
    BY <2>1, FS_Interval DEF Users, Slots
  <2> QED BY <2>2, <2>3, <2>4, SizeAssumption
<1>5. IsFiniteSet(Others) /\ Cardinality(Others) = MaxUser - 1
  BY <1>4, FS_RemoveElement
<1>6. Cardinality(Slots) <= Cardinality(Others)
  BY <1>3, <1>5, FS_Injection
<1> QED BY <1>4, <1>5, <1>6, SizeAssumption

-----------------------------------------------------------------------------
LEMMA InitIInv == Init => IInv
<1> SUFFICES ASSUME Init PROVE IInv
  OBVIOUS
<1>1. TypeOK
  BY SizeAssumption DEF Init, TypeOK
<1>2. RequestKnown /\ SlotOwned /\ NoWipe
  BY DEF Init, RequestKnown, SlotOwned, NoWipe
<1> QED BY <1>1, <1>2 DEF IInv

(* A handler may return as soon as no node of the queue is its own. *)
LEMMA ReturnedStep ==
    ASSUME IInv, NEW u \in Users, Returned(u),
           slot' \in [Slots -> Requests \cup {None}],
           \A i \in Slots : slot'[i] # None => slot'[i] = slot[i] /\ slot[i].userid # u,
           inRoom' \subseteq Requests,
           owed' \subseteq Users,
           UNCHANGED <<platform, rpc, rmsg, ridx, rout>>
    PROVE  IInv'
<1>1. TypeOK'
  BY SizeAssumption DEF IInv, TypeOK, Returned
<1>2. RequestKnown' /\ NoWipe'
  BY DEF IInv, TypeOK, RequestKnown, NoWipe, Returned
<1>3. SlotOwned'
  <2> SUFFICES ASSUME NEW i \in Slots, slot'[i] # None
               PROVE  LET v == slot'[i].userid
                      IN  /\ pc'[v] \in {"forward", "wait", "refuse"}
                          /\ idx'[v] = i
                          /\ slot'[i] = req'[v]
    BY DEF SlotOwned
  <2> DEFINE v == slot[i].userid
  <2>1. slot'[i] = slot[i] /\ v # u /\ v \in Users
    BY DEF IInv, TypeOK, Requests
  <2>2. pc'[v] = pc[v] /\ idx'[v] = idx[v] /\ req'[v] = req[v]
    BY <2>1 DEF IInv, TypeOK, Returned
  <2> QED BY <2>1, <2>2 DEF IInv, SlotOwned
<1> QED BY <1>1, <1>2, <1>3 DEF IInv

(* The steps of a client thread keep the invariant. *)
LEMMA ClientStep ==
    ASSUME IInv, NEW u \in Users, Client(u)
    PROVE  IInv'
<1> USE DEF IInv
<1>1. CASE \E p \in Platforms : Connect(u, p)
  BY <1>1 DEF Connect, TypeOK, RequestKnown, SlotOwned, NoWipe, roomVars
<1>2. CASE Exit(u)
  <2> DEFINE mine == {i \in Slots : slot[i] # None /\ slot[i].platform = platform[u]
                                                   /\ slot[i].userid = u}
  <2>1. mine = {}
    BY <1>2 DEF Exit, SlotOwned
  <2>2. slot' = slot
    BY <1>2, <2>1 DEF Exit, CleanedUp
  <2> QED BY <1>2, <2>2 DEF Exit, TypeOK, RequestKnown, SlotOwned, NoWipe, roomVars
<1>3. ASSUME NEW code \in MsgCodes, NEW room \in Rooms, AddUser(u, code, room)
      PROVE  IInv'
  <2> DEFINE m == [platform |-> platform[u], msgcode |-> code,
                   userid |-> u, roomid |-> room]
             i == First(FreeSlots)
  <2>1. m \in Requests
    BY <1>3 DEF AddUser, TypeOK, Requests
  <2>2. CASE FreeSlots = {}
    <3>1. i = -1
      BY <2>2 DEF First
    <3>2. /\ req' = [req EXCEPT ![u] = m]
          /\ idx' = [idx EXCEPT ![u] = -1]
          /\ slot' = slot
          /\ pc' = [pc EXCEPT ![u] = "wipe"]
          /\ owed' = owed \cup {u}
          /\ UNCHANGED <<platform, left, inRoom, rpc, rmsg, ridx, rout>>
          /\ pc[u] = "idle"
      BY <1>3, <3>1 DEF AddUser, roomVars
    <3>3. QueLen < MaxUser
      BY <2>2, <3>2, FullQueueNeedsMoreUsers
    <3>4. TypeOK'
      BY <2>1, <3>2 DEF TypeOK
    <3>5. RequestKnown' /\ SlotOwned'
      BY <2>1, <3>2 DEF TypeOK, RequestKnown, SlotOwned
    <3>6. NoWipe'
      BY <3>3, SizeAssumption DEF NoWipe
    <3> QED BY <3>4, <3>5, <3>6
  <2>3. CASE FreeSlots # {}
    <3>0. FreeSlots \in SUBSET Nat
      BY SlotsAreNaturals DEF FreeSlots
    <3>1. i \in FreeSlots
      BY <2>3, <3>0, FirstFound, Zenon
    <3>2. i \in Slots /\ slot[i] = None /\ ~(i < 0)
      <4> HIDE DEF i
      <4> QED BY <3>1, SlotsAreNaturals DEF FreeSlots
    <3>3. /\ req' = [req EXCEPT ![u] = m]
          /\ idx' = [idx EXCEPT ![u] = i]
          /\ slot' = [slot EXCEPT ![i] = m]
          /\ pc' = [pc EXCEPT ![u] = "forward"]
          /\ owed' = owed \cup {u}
          /\ UNCHANGED <<platform, left, inRoom, rpc, rmsg, ridx, rout>>
          /\ pc[u] = "idle"
      BY <1>3, <3>2 DEF AddUser, roomVars
    <3> HIDE DEF i
    <3>4. TypeOK'
      BY <2>1, <3>2, <3>3 DEF TypeOK
    <3>5. RequestKnown' /\ NoWipe'
      BY <2>1, <3>2, <3>3 DEF TypeOK, RequestKnown, NoWipe
    <3>6. SlotOwned'
      BY <2>1, <3>2, <3>3 DEF TypeOK, SlotOwned, Requests
    <3> QED BY <3>4, <3>5, <3>6
  <2> QED BY <2>2, <2>3
<1>4. CASE Wipe(u)
  BY <1>4 DEF Wipe, TypeOK, RequestKnown, SlotOwned, NoWipe, roomVars
<1>5. CASE ForwardOk(u)
  <2>1. /\ inRoom' \subseteq Requests
        /\ UNCHANGED <<slot, platform, rpc, rmsg, ridx, rout, owed>>
    BY <1>5 DEF ForwardOk, roomVars, TypeOK, RequestKnown
  <2>2. CASE Refused(u)
    BY <1>5, <2>1, <2>2 DEF ForwardOk, Refused, TypeOK, RequestKnown, SlotOwned, NoWipe
  <2>3. CASE Waiting(u)
    BY <1>5, <2>1, <2>3, SizeAssumption
       DEF ForwardOk, Waiting, TypeOK, RequestKnown, SlotOwned, NoWipe
  <2>4. CASE idx[u] < 0 /\ Returned(u)
    <3>1. \A i \in Slots : slot[i] # None => slot[i].userid # u
      BY <2>4, SlotsAreNaturals DEF SlotOwned
    <3> QED BY <2>1, <2>4, <3>1, ReturnedStep DEF TypeOK
  <2> QED BY <1>5, <2>2, <2>3, <2>4 DEF ForwardOk
<1>6. CASE NoForwardObj(u)
  BY <1>6 DEF NoForwardObj, Refused, TypeOK, RequestKnown, SlotOwned, NoWipe, roomVars
<1>7. CASE ForwardFails(u)
  <2>1. CASE Refused(u)
    BY <1>7, <2>1 DEF ForwardFails, Refused, TypeOK, RequestKnown, SlotOwned, NoWipe, roomVars
  <2>2. CASE Waiting(u)
    BY <1>7, <2>2, SizeAssumption
       DEF ForwardFails, Waiting, TypeOK, RequestKnown, SlotOwned, NoWipe, roomVars
  <2>3. CASE idx[u] < 0 /\ Returned(u)
    <3>1. \A i \in Slots : slot[i] # None => slot[i].userid # u
      BY <2>3, SlotsAreNaturals DEF SlotOwned
    <3>2. UNCHANGED <<slot, platform, inRoom, rpc, rmsg, ridx, rout, owed>>
      BY <1>7 DEF ForwardFails, roomVars
    <3> QED BY <2>3, <3>1, <3>2, ReturnedStep DEF TypeOK
  <2> QED BY <1>7, <2>1, <2>2, <2>3 DEF ForwardFails
<1>8. CASE Refuse(u)
  <2>1. /\ slot' \in [Slots -> Requests \cup {None}]
        /\ \A i \in Slots : slot'[i] # None => slot'[i] = slot[i] /\ slot[i].userid # u
    BY <1>8, SlotsAreNaturals DEF Refuse, Deleted, TypeOK, SlotOwned
  <2>2. /\ Returned(u)
        /\ owed' \subseteq Users
        /\ UNCHANGED <<platform, inRoom, rpc, rmsg, ridx, rout>>
    BY <1>8 DEF Refuse, roomVars, TypeOK
  <2> QED BY <2>1, <2>2, ReturnedStep DEF TypeOK
<1>9. CASE Poll(u)
  <2>1. CASE Matches(req[u].platform, req[u].msgcode, u) = {}
    <3>1. \A i \in Slots : slot[i] # None => slot[i].userid # u
      BY <1>9, <2>1 DEF Poll, Matches, SlotOwned
    <3>2. /\ Returned(u)
          /\ UNCHANGED <<slot, platform, inRoom, rpc, rmsg, ridx, rout, owed>>
      BY <1>9, <2>1 DEF Poll, roomVars
    <3> QED BY <3>1, <3>2, ReturnedStep DEF TypeOK
  <2>2. CASE Matches(req[u].platform, req[u].msgcode, u) # {}
    BY <1>9, <2>2, SizeAssumption
       DEF Poll, TypeOK, RequestKnown, SlotOwned, NoWipe, roomVars
  <2> QED BY <2>1, <2>2
<1>10. CASE Expire(u)
  <2>1. /\ slot' \in [Slots -> Requests \cup {None}]
        /\ \A i \in Slots : slot'[i] # None => slot'[i] = slot[i] /\ slot[i].userid # u
    BY <1>10 DEF Expire, Deleted, TypeOK, SlotOwned
  <2>2. /\ Returned(u)
        /\ owed' \subseteq Users
        /\ UNCHANGED <<platform, inRoom, rpc, rmsg, ridx, rout>>
    BY <1>10 DEF Expire, roomVars, TypeOK
  <2> QED BY <2>1, <2>2, ReturnedStep DEF TypeOK
<1> QED BY <1>1, <1>2, <1>3, <1>4, <1>5, <1>6, <1>7, <1>8, <1>9, <1>10 DEF Client, Handle

(* The steps of a room's connection keep the invariant. *)
LEMMA RoomStep ==
    ASSUME IInv, NEW r \in Rooms, Room(r)
    PROVE  IInv'
<1> USE DEF IInv
<1>1. ASSUME NEW m \in Requests, RespFind(r, m)
      PROVE  IInv'
  <2> DEFINE i == RespNode(r, m)
  <2>1. /\ inRoom' \subseteq Requests
        /\ UNCHANGED <<slot, platform, pc, req, idx, left, owed>>
    BY <1>1 DEF RespFind, clientVars, TypeOK
  <2>2. \/ i = -1
        \/ i \in Slots /\ slot[i] # None
    <3>1. /\ Matches(m.platform, m.msgcode, m.userid) \subseteq {j \in Slots : slot[j] # None}
          /\ Matches2(m.platform, m.msgcode, m.userid, r) \subseteq {j \in Slots : slot[j] # None}
      BY DEF Matches, Matches2
    <3> QED BY <3>1, FirstFound, SlotsAreNaturals DEF RespNode
  <2>3. CASE i < 0
    BY <1>1, <2>1, <2>3 DEF RespFind, roomVars, TypeOK, RequestKnown, SlotOwned, NoWipe
  <2>4. CASE ~(i < 0)
    <3>1. i \in Slots /\ slot[i].userid \in Users
      BY <2>2, <2>4 DEF TypeOK, Requests
    <3>2. /\ rpc' = [rpc EXCEPT ![r] = "delete"]
          /\ rmsg' = [rmsg EXCEPT ![r] = m]
          /\ ridx' = [ridx EXCEPT ![r] = i]
          /\ rout' = [rout EXCEPT ![r] = IF m.platform = LiveNode THEN -1
                                         ELSE slot[i].userid]
      BY <1>1, <2>4 DEF RespFind
    <3> HIDE DEF i
    <3> QED BY <2>1, <3>1, <3>2 DEF TypeOK, RequestKnown, SlotOwned, NoWipe
  <2> QED BY <2>3, <2>4
<1>2. CASE RespDelete(r)
  BY <1>2 DEF RespDelete, Deleted, clientVars, TypeOK, RequestKnown, SlotOwned, NoWipe
<1>3. CASE RespForward(r)
  <2>1. owed' \subseteq Users
    BY <1>3 DEF RespForward, TypeOK
  <2> QED BY <1>3, <2>1
          DEF RespForward, Responded, clientVars, TypeOK, RequestKnown, SlotOwned, NoWipe
<1> QED BY <1>1, <1>2, <1>3 DEF Room

LEMMA StutterStep == IInv /\ UNCHANGED vars => IInv'
  BY DEF IInv, vars, clientVars, roomVars, TypeOK, RequestKnown, SlotOwned, NoWipe

(* Every reachable state of the control process's timeout queue satisfies  *)
(* the inductive invariant.                                                *)
THEOREM Invariance == Spec => []IInv
<1>1. IInv /\ [Next]_vars => IInv'
  <2> SUFFICES ASSUME IInv, [Next]_vars PROVE IInv'
    OBVIOUS
  <2> QED BY ClientStep, RoomStep, StutterStep DEF Next
<1> QED BY <1>1, InitIInv, PTL DEF Spec

(* Type correctness of the queue and of the threads that use it. *)
THEOREM TypeCorrect == Spec => []TypeOK
  BY Invariance, PTL DEF IInv

(* No node outlives the handler that inserted it (timeout_que_add_user,    *)
(* timeout_que_del_user, timeout_que_wait_a_moment), for any interleaving  *)
(* and any number of clients, rooms and slots.                             *)
THEOREM NodesAreOwned == Spec => []SlotOwned
  BY Invariance, PTL DEF IInv

(* With no more clients than slots, timeout_que_all_cleanup never runs.    *)
THEOREM QueueNeverOverflows == Spec => []NoWipe
  BY Invariance, PTL DEF IInv
=============================================================================
