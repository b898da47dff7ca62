------------------------- MODULE RecordCtrl_proofs -------------------------
(***************************************************************************)
(* Proofs about recordings.  RecordCtrl, for any platforms, streams and    *)
(* bounds: types, the drift of opt_mutex_lock and the locks of the         *)
(* encoders.  The three parts of the invariant are carried by lemmas of    *)
(* their own, each with a step per action.  Then CourseRec, for any number *)
(* of streams and files, any limit and any sizes of the queues: types, the *)
(* life of the writers, and the splitting of files.                        *)
(***************************************************************************)
EXTENDS RecordCtrl, CourseRec, FiniteSetTheorems, TLAPS

-----------------------------------------------------------------------------
(* The inductive invariant.                                                *)

Closing == {"closeRes", "closeUsb"}
Starting == {"startRes", "startUsb"}

\* What follows when recorders have been closed or started, and how it begins.
Returns ==
    /\ pc["upper"] \in Closing => \/ back["upper"] = "decide" /\ opt = "STOP"
                                  \/ back["upper"] = "lowDone"
    /\ pc["upper"] \in Starting => back["upper"] = "timedOut"
    /\ pc["lower"] \in Closing => back["lower"] = "reportDone"
    /\ pc["lower"] \in Starting => back["lower"] = "started"
    /\ \A t \in Threads : pc[t] = "startRes" => begun[t] = {}

\* A thread is about to tell the encoders to unlock.
OnWay ==
    \/ \E t \in Threads : pc[t] \in Closing
    \/ pc["upper"] \in {"decide", "clear", "countLoad", "countStore", "send"} /\ opt = "STOP"
    \/ pc["upper"] = "lowDone"
    \/ pc["lower"] \in {"reportDone", "unlockEnc"}
    \/ pc["lower"] = "del" /\ begun["lower"] = {}

Justified == locked \subseteq late \/ handle \cup leaked # {} \/ OnWay

\* Encoders are locked for a reason, and a thread that has started a recorder
\* leaves one behind when the START it works for is answered.
LockReason ==
    /\ Justified \/ owed # {} \/ overtaken
    /\ pc["upper"] \in {"startUsb", "timedOut"} /\ begun["upper"] # {} => Justified
    /\ pc["lower"] \in {"startUsb", "started"} /\ begun["lower"] # {}
       => Justified \/ owed \ {job["lower"]} # {} \/ overtaken

\* How far a thread has got with opt_mutex_lock.
Phase(t) ==
    IF Operating(t) \/ pc[t] = "unload" THEN "in"
    ELSE IF pc[t] \in {"load", "store", "unstore"} THEN pc[t]
    ELSE "out"

\* The values l the lock may have when one thread is in phase a with r loaded
\* and the other in phase b with q loaded.
Values(l, a, r, b, q) ==
    /\ a = "out" /\ b = "out" => l \in -2 .. 2
    /\ a = "out" /\ b = "load" => l \in -1 .. 1
    /\ a = "out" /\ b = "store" =>
         l \in -1 .. 1 /\ q \in -1 .. 2 /\ (l = 0 => q \in 0 .. 1)
    /\ a = "out" /\ b = "in" => l \in -1 .. 3
    /\ a = "out" /\ b = "unstore" =>
         l \in -1 .. 3 /\ q \in -1 .. 3 /\ (l = 0 => q \in 0 .. 2)
    /\ a = "load" /\ b = "load" => l = 0
    /\ a = "load" /\ b = "store" => l = 0 /\ q \in 0 .. 1
    /\ a = "load" /\ b = "in" => l \in 0 .. 2
    /\ a = "load" /\ b = "unstore" => l \in 0 .. 2 /\ q \in l .. 2
    /\ a = "store" /\ b = "store" => l = 0 /\ r \in 0 .. 1 /\ q \in 0 .. 1
    /\ a = "store" /\ b = "in" => l \in 0 .. 2 /\ r \in 0 .. l
    /\ a = "store" /\ b = "unstore" => l \in 0 .. 2 /\ r \in 0 .. l /\ q \in l .. 2
    /\ a = "in" /\ b = "in" => l \in 1 .. 3
    /\ a = "in" /\ b = "unstore" => l \in 1 .. 3 /\ q \in 0 .. 3 /\ q \in l - 1 .. l + 1
    /\ a = "unstore" /\ b = "unstore" =>
         l \in 1 .. 3 /\ r \in 0 .. 3 /\ q \in 0 .. 3 /\ q \in r - 1 .. r + 1

Table(l, a, r, b, q) == Values(l, a, r, b, q) /\ Values(l, b, q, a, r)

LockValues == Table(lock, Phase("upper"), reg["upper"], Phase("lower"), reg["lower"])

IInv == TypeOK /\ Returns /\ LockReason /\ LockValues
-----------------------------------------------------------------------------
(* The room starts with the lock free and no encoder locked. *)
LEMMA InitIInv == Init => IInv
<1> SUFFICES ASSUME Init PROVE IInv
  OBVIOUS
<1>1. TypeOK
  <2>1. /\ pc \in [Threads -> Labels] /\ back \in [Threads -> Labels]
        /\ reg \in [Threads -> Int] /\ lock \in Int
        /\ begun \in [Threads -> SUBSET Kinds]
        /\ opt \in Ops /\ op \in Ops /\ ret \in 0 .. 2
    BY DEF Init, Ops, Labels
  <2>2. seen \in [Threads -> [mask : SUBSET Streams, sum : Int]]
    BY DEF Init, Unseen
  <2>3. acks \in [Streams -> [Platforms -> Nat]]
    BY DEF Init
  <2>4. low \in BOOLEAN /\ overtaken \in BOOLEAN /\ again \in BOOLEAN
    BY DEF Init
  <2>5. mask \in [Platforms -> SUBSET Streams] /\ sum \in [Platforms -> Int]
    BY DEF Init
  <2>6. reqs \in 0 .. MaxReq /\ reports \in Nat
    BY BoundAssumption DEF Init
  <2>7. /\ handle \subseteq Kinds /\ leaked \subseteq Kinds /\ reported \subseteq handle
        /\ node \subseteq Platforms /\ owed \subseteq Platforms
        /\ locked \subseteq Streams /\ late \subseteq Streams
        /\ job \in [Threads -> Platforms] /\ from \in Streams
    BY DEF Init
  <2> QED BY <2>1, <2>2, <2>3, <2>4, <2>5, <2>6, <2>7 DEF TypeOK
<1>2. Returns /\ LockReason
  BY DEF Init, Returns, LockReason, Justified, OnWay, Threads, Closing, Starting
<1>3. LockValues
  BY DEF Init, LockValues, Table, Values, Phase, Operating, Threads
<1> QED BY <1>1, <1>2, <1>3 DEF IInv

(* lower_msg_start_record keeps the types, whoever begins it. *)
LEMMA BeginStartType ==
    ASSUME TypeOK, NEW t \in Threads, NEW p \in Platforms, NEW l \in Labels,
           BeginStart(t, p, l)
    PROVE  /\ pc' \in [Threads -> Labels] /\ back' \in [Threads -> Labels]
           /\ begun' \in [Threads -> SUBSET Kinds] /\ job' \in [Threads -> Platforms]
           /\ again' \in BOOLEAN
<1> DEFINE other == \E u \in Threads \ {t} : pc[u] \in {"startRes", "startUsb"}
<1>1. again' = (again \/ handle # {} \/ other)
  BY DEF BeginStart
<1>2. again' \in BOOLEAN
  <2> HIDE DEF other
  <2> QED BY <1>1
<1>3. /\ pc' = [pc EXCEPT ![t] = "startRes"] /\ back' = [back EXCEPT ![t] = l]
      /\ begun' = [begun EXCEPT ![t] = {}] /\ job' = [job EXCEPT ![t] = p]
  BY DEF BeginStart, Goto
<1> QED BY <1>2, <1>3 DEF TypeOK, Labels

(* No action takes a variable out of its type. *)
LEMMA TypeStep == TypeOK /\ [Next]_vars => TypeOK'
<1> SUFFICES ASSUME TypeOK, [Next]_vars PROVE TypeOK'
  OBVIOUS
<1> USE DEF TypeOK, Goto, Threads, Kinds, Ops, Labels, Unseen, vars, shared, local, history
<1>1. ASSUME NEW t \in Threads, LockLoad(t) PROVE TypeOK'
  BY <1>1 DEF LockLoad
<1>2. ASSUME NEW t \in Threads, LockStore(t) PROVE TypeOK'
  BY <1>2 DEF LockStore, Body
<1>3. ASSUME NEW t \in Threads, UnlockLoad(t) PROVE TypeOK'
  BY <1>3 DEF UnlockLoad
<1>4. ASSUME NEW t \in Threads, UnlockStore(t) PROVE TypeOK'
  BY <1>4 DEF UnlockStore
<1>5. ASSUME NEW t \in Threads, NEW k \in Kinds, Close(t, k) PROVE TypeOK'
  BY <1>5 DEF Close
<1>6. ASSUME NEW t \in Threads, NEW k \in Kinds, Start(t, k) PROVE TypeOK'
  <2>1. /\ handle' \subseteq Kinds /\ leaked' \subseteq Kinds
        /\ reported' \subseteq handle'
    BY <1>6 DEF Start
  <2>2. begun' \in [Threads -> SUBSET Kinds]
    <3>1. begun' = [begun EXCEPT ![t] = begun[t] \cup {k}] \/ begun' = begun
      BY <1>6 DEF Start
    <3> QED BY <3>1
  <2>3. pc' \in [Threads -> Labels] /\ back' \in [Threads -> Labels]
    BY <1>6 DEF Start
  <2> QED BY <1>6, <2>1, <2>2, <2>3 DEF Start
<1>7. ASSUME OtherRoom PROVE TypeOK'
  BY <1>7 DEF OtherRoom
<1>8. ASSUME NEW ready \in BOOLEAN, NEW connected \in BOOLEAN, Act(ready, connected)
      PROVE  TypeOK'
  BY <1>8 DEF Act, BeginClose
<1>9. ASSUME Decide PROVE TypeOK'
  BY <1>9 DEF Decide
<1>10. ASSUME Clear PROVE TypeOK'
  BY <1>10 DEF Clear
<1>11. ASSUME CountLoad PROVE TypeOK'
  BY <1>11 DEF CountLoad
<1>12. ASSUME CountStore PROVE TypeOK'
  <2>1. Cardinality(Streams) \in Int
    BY StreamAssumption, FS_CardinalityType
  <2> QED BY <1>12, <2>1 DEF CountStore
<1>13. ASSUME Send PROVE TypeOK'
  <2>1. acks' \in [Streams -> [Platforms -> Nat]]
    <3> DEFINE more(s) == [acks[s] EXCEPT ![job["upper"]] = acks[s][job["upper"]] + 1]
    <3>1. \A s \in Streams : more(s) \in [Platforms -> Nat]
      OBVIOUS
    <3>2. acks' = [s \in Streams |-> more(s)] \/ acks' = acks
      BY <1>13 DEF Send
    <3> QED BY <3>1, <3>2
  <2>2. overtaken' \in BOOLEAN
    <3>1. overtaken' = (overtaken \/ Overtakes) \/ overtaken' = overtaken
      BY <1>13 DEF Send
    <3> QED BY <3>1 DEF Overtakes
  <2>3. owed' \subseteq Platforms
    BY <1>13 DEF Send
  <2> QED BY <1>13, <2>1, <2>2, <2>3 DEF Send
<1>14. ASSUME AddNode PROVE TypeOK'
  BY <1>14 DEF AddNode
<1>15. ASSUME Reply PROVE TypeOK'
  BY <1>15 DEF Reply
<1>16. ASSUME TimedOut PROVE TypeOK'
  BY <1>16 DEF TimedOut
<1>17. ASSUME LowDone PROVE TypeOK'
  BY <1>17 DEF LowDone
<1>18. ASSUME AckStore PROVE TypeOK'
  <2>1. /\ pc' \in [Threads -> Labels] /\ back' \in [Threads -> Labels]
        /\ begun' \in [Threads -> SUBSET Kinds] /\ job' \in [Threads -> Platforms]
        /\ again' \in BOOLEAN
    BY <1>18, BeginStartType DEF AckStore
  <2> QED BY <1>18, <2>1 DEF AckStore
<1>19. ASSUME Started PROVE TypeOK'
  BY <1>19 DEF Started
<1>20. ASSUME DelNode PROVE TypeOK'
  BY <1>20 DEF DelNode
<1>21. ASSUME UnlockEnc PROVE TypeOK'
  BY <1>21 DEF UnlockEnc
<1>22. ASSUME RecordReq PROVE TypeOK'
  BY <1>22 DEF RecordReq
<1>23. ASSUME Report PROVE TypeOK'
  BY <1>23 DEF Report, BeginClose
<1>24. ASSUME ReportDone PROVE TypeOK'
  BY <1>24 DEF ReportDone
<1>25. ASSUME NEW p \in Platforms, NEW o \in Ops, RecordCtrl(p, o) PROVE TypeOK'
  BY <1>25, BoundAssumption DEF RecordCtrl
<1>26. ASSUME NEW p \in Platforms, TimeOut(p) PROVE TypeOK'
  <2>1. /\ pc' \in [Threads -> Labels] /\ back' \in [Threads -> Labels]
        /\ begun' \in [Threads -> SUBSET Kinds] /\ job' \in [Threads -> Platforms]
        /\ again' \in BOOLEAN
    BY <1>26, BeginStartType DEF TimeOut
  <2> QED BY <1>26, <2>1 DEF TimeOut
<1>27. ASSUME NEW full \in BOOLEAN, ServerInfo(full) PROVE TypeOK'
  BY <1>27 DEF ServerInfo, BeginClose
<1>28. ASSUME NEW s \in Streams, NEW p \in Platforms, Ack(s, p)
       PROVE  TypeOK'
  BY <1>28 DEF Ack
<1>29. ASSUME NEW k \in Kinds, RecordOver(k) PROVE TypeOK'
  BY <1>29 DEF RecordOver
<1>30. ASSUME UNCHANGED vars PROVE TypeOK'
  BY <1>30
<1>31. ASSUME NEW s \in Streams, QualityAnswer(s) PROVE TypeOK'
  BY <1>31 DEF QualityAnswer
<1>32. ASSUME Relock PROVE TypeOK'
  BY <1>32 DEF Relock
<1> HIDE DEF TypeOK
<1> QED BY <1>1, <1>2, <1>3, <1>4, <1>5, <1>6, <1>7, <1>8, <1>9, <1>10,
          <1>11, <1>12, <1>13, <1>14, <1>15, <1>16, <1>17, <1>18, <1>19, <1>20,
          <1>21, <1>22, <1>23, <1>24, <1>25, <1>26, <1>27, <1>28, <1>29, <1>30,
          <1>31, <1>32 DEF Next, UpperStep, LowerStep, Step

(* Closing and starting recorders lead back to the handler that began it. *)
LEMMA ReturnsStep == TypeOK /\ Returns /\ [Next]_vars => Returns'
<1> SUFFICES ASSUME TypeOK, Returns, [Next]_vars PROVE Returns'
  OBVIOUS
<1> USE DEF TypeOK, Returns, Closing, Starting, Goto, Threads, Kinds, vars, shared, local, history
<1>1. ASSUME NEW t \in Threads, LockLoad(t) PROVE Returns'
  BY <1>1 DEF LockLoad
<1>2. ASSUME NEW t \in Threads, LockStore(t) PROVE Returns'
  BY <1>2 DEF LockStore, Body
<1>3. ASSUME NEW t \in Threads, UnlockLoad(t) PROVE Returns'
  BY <1>3 DEF UnlockLoad
<1>4. ASSUME NEW t \in Threads, UnlockStore(t) PROVE Returns'
  BY <1>4 DEF UnlockStore
<1>5. ASSUME NEW t \in Threads, NEW k \in Kinds, Close(t, k) PROVE Returns'
  BY <1>5 DEF Close
<1>6. ASSUME NEW t \in Threads, NEW k \in Kinds, Start(t, k) PROVE Returns'
  BY <1>6 DEF Start
<1>7. ASSUME OtherRoom PROVE Returns'
  BY <1>7 DEF OtherRoom
<1>8. ASSUME NEW ready \in BOOLEAN, NEW connected \in BOOLEAN, Act(ready, connected)
      PROVE  Returns'
  BY <1>8 DEF Act, BeginClose
<1>9. ASSUME Decide PROVE Returns'
  BY <1>9 DEF Decide
<1>10. ASSUME Clear PROVE Returns'
  BY <1>10 DEF Clear
<1>11. ASSUME CountLoad PROVE Returns'
  BY <1>11 DEF CountLoad
<1>12. ASSUME CountStore PROVE Returns'
  BY <1>12 DEF CountStore
<1>13. ASSUME Send PROVE Returns'
  BY <1>13 DEF Send, Overtakes
<1>14. ASSUME AddNode PROVE Returns'
  BY <1>14 DEF AddNode
<1>15. ASSUME Reply PROVE Returns'
  BY <1>15 DEF Reply
<1>16. ASSUME TimedOut PROVE Returns'
  BY <1>16 DEF TimedOut
<1>17. ASSUME LowDone PROVE Returns'
  BY <1>17 DEF LowDone
<1>18. ASSUME AckStore PROVE Returns'
  BY <1>18 DEF AckStore, BeginStart
<1>19. ASSUME Started PROVE Returns'
  BY <1>19 DEF Started
<1>20. ASSUME DelNode PROVE Returns'
  BY <1>20 DEF DelNode
<1>21. ASSUME UnlockEnc PROVE Returns'
  BY <1>21 DEF UnlockEnc
<1>22. ASSUME RecordReq PROVE Returns'
  BY <1>22 DEF RecordReq
<1>23. ASSUME Report PROVE Returns'
  BY <1>23 DEF Report, BeginClose
<1>24. ASSUME ReportDone PROVE Returns'
  BY <1>24 DEF ReportDone
<1>25. ASSUME NEW p \in Platforms, NEW o \in Ops, RecordCtrl(p, o) PROVE Returns'
  BY <1>25 DEF RecordCtrl
<1>26. ASSUME NEW p \in Platforms, TimeOut(p) PROVE Returns'
  BY <1>26 DEF TimeOut, BeginStart
<1>27. ASSUME NEW full \in BOOLEAN, ServerInfo(full) PROVE Returns'
  BY <1>27 DEF ServerInfo, BeginClose
<1>28. ASSUME NEW s \in Streams, NEW p \in Platforms, Ack(s, p)
       PROVE  Returns'
  BY <1>28 DEF Ack
<1>29. ASSUME NEW k \in Kinds, RecordOver(k) PROVE Returns'
  BY <1>29 DEF RecordOver
<1>30. ASSUME UNCHANGED vars PROVE Returns'
  BY <1>30
<1>31. ASSUME NEW s \in Streams, QualityAnswer(s) PROVE Returns'
  BY <1>31 DEF QualityAnswer
<1>32. ASSUME Relock PROVE Returns'
  BY <1>32 DEF Relock
<1> HIDE DEF TypeOK, Returns
<1> QED BY <1>1, <1>2, <1>3, <1>4, <1>5, <1>6, <1>7, <1>8, <1>9, <1>10,
          <1>11, <1>12, <1>13, <1>14, <1>15, <1>16, <1>17, <1>18, <1>19, <1>20,
          <1>21, <1>22, <1>23, <1>24, <1>25, <1>26, <1>27, <1>28, <1>29, <1>30,
          <1>31, <1>32 DEF Next, UpperStep, LowerStep, Step

(* Encoders stay locked for a reason: whoever removes the last one is on   *)
(* the way to unlock them, or unlocks them.                                *)
LEMMA ReasonStep ==
    TypeOK /\ Returns /\ LockReason /\ [Next]_vars => LockReason'
<1> SUFFICES ASSUME TypeOK, Returns, LockReason, [Next]_vars PROVE LockReason'
  OBVIOUS
<1> USE DEF TypeOK, Returns, LockReason, Justified, OnWay, Closing, Starting, Goto, Threads, Kinds, vars, shared, local, history
<1>1. ASSUME NEW t \in Threads, LockLoad(t) PROVE LockReason'
  BY <1>1 DEF LockLoad
<1>2. ASSUME NEW t \in Threads, LockStore(t) PROVE LockReason'
  BY <1>2 DEF LockStore, Body
<1>3. ASSUME NEW t \in Threads, UnlockLoad(t) PROVE LockReason'
  BY <1>3 DEF UnlockLoad
<1>4. ASSUME NEW t \in Threads, UnlockStore(t) PROVE LockReason'
  BY <1>4 DEF UnlockStore
<1>5. ASSUME NEW t \in Threads, NEW k \in Kinds, Close(t, k) PROVE LockReason'
  BY <1>5 DEF Close
<1>6. ASSUME NEW t \in Threads, NEW k \in Kinds, Start(t, k) PROVE LockReason'
  <2>1. handle \cup leaked \subseteq handle' \cup leaked'
    BY <1>6 DEF Start
  <2>2. begun'[t] # begun[t] => handle' # {}
    BY <1>6 DEF Start
  <2>3. UNCHANGED <<owed, overtaken, job, locked, late, opt>>
    BY <1>6 DEF Start
  <2>4. \A u \in Threads \ {t} : begun'[u] = begun[u] /\ pc'[u] = pc[u]
    BY <1>6 DEF Start
  <2>5. /\ pc[t] \in Starting
        /\ pc'[t] = (IF k = "res" THEN "startUsb" ELSE back[t])
    BY <1>6 DEF Start
  <2>6. CASE t = "upper"
    BY <2>1, <2>2, <2>3, <2>4, <2>5, <2>6
  <2>7. CASE t = "lower"
    BY <2>1, <2>2, <2>3, <2>4, <2>5, <2>7
  <2> QED BY <2>6, <2>7
<1>7. ASSUME OtherRoom PROVE LockReason'
  BY <1>7 DEF OtherRoom
<1>8. ASSUME NEW ready \in BOOLEAN, NEW connected \in BOOLEAN, Act(ready, connected)
      PROVE  LockReason'
  BY <1>8 DEF Act, BeginClose
<1>9. ASSUME Decide PROVE LockReason'
  BY <1>9 DEF Decide
<1>10. ASSUME Clear PROVE LockReason'
  BY <1>10 DEF Clear
<1>11. ASSUME CountLoad PROVE LockReason'
  BY <1>11 DEF CountLoad
<1>12. ASSUME CountStore PROVE LockReason'
  BY <1>12 DEF CountStore
<1>13. ASSUME Send PROVE LockReason'
  BY <1>13 DEF Send, Overtakes
<1>14. ASSUME AddNode PROVE LockReason'
  BY <1>14 DEF AddNode
<1>15. ASSUME Reply PROVE LockReason'
  BY <1>15 DEF Reply
<1>16. ASSUME TimedOut PROVE LockReason'
  BY <1>16 DEF TimedOut
<1>17. ASSUME LowDone PROVE LockReason'
  BY <1>17 DEF LowDone
<1>18. ASSUME AckStore PROVE LockReason'
  <2>1. /\ pc["lower"] = "ackStore" /\ UNCHANGED <<locked, late, handle, leaked, owed, overtaken, opt>>
        /\ \/ /\ pc' = [pc EXCEPT !["lower"] = "startRes"]
              /\ begun' = [begun EXCEPT !["lower"] = {}]
           \/ pc' = [pc EXCEPT !["lower"] = "idle"] /\ UNCHANGED begun
    BY <1>18 DEF AckStore, BeginStart
  <2> QED BY <2>1
<1>19. ASSUME Started PROVE LockReason'
  BY <1>19 DEF Started
<1>20. ASSUME DelNode PROVE LockReason'
  BY <1>20 DEF DelNode
<1>21. ASSUME UnlockEnc PROVE LockReason'
  BY <1>21 DEF UnlockEnc
<1>22. ASSUME RecordReq PROVE LockReason'
  BY <1>22 DEF RecordReq
<1>23. ASSUME Report PROVE LockReason'
  BY <1>23 DEF Report, BeginClose
<1>24. ASSUME ReportDone PROVE LockReason'
  BY <1>24 DEF ReportDone
<1>25. ASSUME NEW p \in Platforms, NEW o \in Ops, RecordCtrl(p, o) PROVE LockReason'
  BY <1>25 DEF RecordCtrl
<1>26. ASSUME NEW p \in Platforms, TimeOut(p) PROVE LockReason'
  <2>1. CASE handle # {}
    BY <1>26, <2>1 DEF TimeOut
  <2>2. CASE handle = {}
    <3>1. /\ pc["upper"] = "idle"
          /\ UNCHANGED <<locked, late, handle, leaked, owed, overtaken, opt>>
          /\ pc' = [pc EXCEPT !["upper"] = "startRes"]
          /\ begun' = [begun EXCEPT !["upper"] = {}]
          /\ job' = [job EXCEPT !["upper"] = p]
      BY <1>26, <2>2 DEF TimeOut, BeginStart
    <3> QED BY <3>1
  <2> QED BY <2>1, <2>2
<1>27. ASSUME NEW full \in BOOLEAN, ServerInfo(full) PROVE LockReason'
  BY <1>27 DEF ServerInfo, BeginClose
<1>28. ASSUME NEW s \in Streams, NEW p \in Platforms, Ack(s, p)
       PROVE  LockReason'
  BY <1>28 DEF Ack
<1>29. ASSUME NEW k \in Kinds, RecordOver(k) PROVE LockReason'
  BY <1>29 DEF RecordOver
<1>30. ASSUME UNCHANGED vars PROVE LockReason'
  BY <1>30
<1>31. ASSUME NEW s \in Streams, QualityAnswer(s) PROVE LockReason'
  BY <1>31 DEF QualityAnswer
<1>32. ASSUME Relock PROVE LockReason'
  BY <1>32 DEF Relock
<1> HIDE DEF TypeOK, Returns, LockReason
<1> QED BY <1>1, <1>2, <1>3, <1>4, <1>5, <1>6, <1>7, <1>8, <1>9, <1>10,
          <1>11, <1>12, <1>13, <1>14, <1>15, <1>16, <1>17, <1>18, <1>19, <1>20,
          <1>21, <1>22, <1>23, <1>24, <1>25, <1>26, <1>27, <1>28, <1>29, <1>30,
          <1>31, <1>32 DEF Next, UpperStep, LowerStep, Step

-----------------------------------------------------------------------------
(* The table is closed under what one thread does to the lock, whatever    *)
(* the phase b of the other.                                               *)
Phases == {"out", "load", "store", "in", "unstore"}

\* The table does not say which thread is which.
LEMMA TableSymmetric ==
    ASSUME NEW l, NEW a, NEW r, NEW b, NEW q
    PROVE  Table(l, a, r, b, q) <=> Table(l, b, q, a, r)
  BY DEF Table

\* A thread that found the lock free goes to take it.
LEMMA EnterTable ==
    ASSUME NEW b \in Phases, NEW r \in Int, NEW q \in Int, NEW x \in Int,
           Table(0, "out", r, b, q)
    PROVE  Table(0, "load", x, b, q)
  BY DEF Table, Values, Phases

\* *lock += 1: the load.
LEMMA LoadTable ==
    ASSUME NEW l \in Int, NEW b \in Phases, NEW r \in Int, NEW q \in Int,
           Table(l, "load", r, b, q)
    PROVE  Table(l, "store", l, b, q)
  BY DEF Table, Values, Phases

\* *lock += 1: the store.
LEMMA StoreTable ==
    ASSUME NEW l \in Int, NEW b \in Phases, NEW r \in Int, NEW q \in Int, NEW x \in Int,
           Table(l, "store", r, b, q)
    PROVE  Table(r + 1, "in", x, b, q)
  BY DEF Table, Values, Phases

\* *lock -= 1: the load.
LEMMA UnloadTable ==
    ASSUME NEW l \in Int, NEW b \in Phases, NEW r \in Int, NEW q \in Int,
           Table(l, "in", r, b, q)
    PROVE  Table(l, "unstore", l, b, q)
  BY DEF Table, Values, Phases

\* *lock -= 1: the store.
LEMMA UnstoreTable ==
    ASSUME NEW l \in Int, NEW b \in Phases, NEW r \in Int, NEW q \in Int, NEW x \in Int,
           Table(l, "unstore", r, b, q)
    PROVE  Table(r - 1, "out", x, b, q)
  BY DEF Table, Values, Phases

\* Thread t goes on in phase b with value x loaded, and the other does not.
Moves(t, a, b, x) ==
    /\ Phase(t) = a /\ Phase(t)' = b
    /\ reg' = [reg EXCEPT ![t] = x]
    /\ \A u \in Threads \ {t} : Phase(u)' = Phase(u)

\* A step that changes neither the lock nor the phase of a thread.
Quiet ==
    /\ lock' = lock /\ reg' = reg
    /\ \A t \in Threads : Phase(t)' = Phase(t)

\* Every place of a thread belongs to a phase.
LEMMA PhaseType == \A t : Phase(t) \in Phases
  BY DEF Phase, Phases

(* The step of one thread maps to a row of the table. *)
LEMMA MovesStep ==
    ASSUME TypeOK, LockValues, NEW t \in Threads, NEW a, NEW b, NEW x \in Int,
           Moves(t, a, b, x),
           NEW l \in Int, lock' = l,
           \A c \in Phases, q \in Int : Table(lock, a, reg[t], c, q) => Table(l, b, x, c, q)
    PROVE  LockValues'
<1>1. reg \in [Threads -> Int]
  BY DEF TypeOK
<1>2. CASE t = "upper"
  <2>1. Table(lock, a, reg["upper"], Phase("lower"), reg["lower"])
    BY <1>2 DEF LockValues, Moves
  <2>2. Table(l, b, x, Phase("lower"), reg["lower"])
    BY <1>1, <1>2, <2>1, PhaseType DEF Threads
  <2>3. /\ Phase("upper")' = b /\ Phase("lower")' = Phase("lower")
        /\ reg'["upper"] = x /\ reg'["lower"] = reg["lower"]
    BY <1>1, <1>2 DEF Moves, Threads
  <2> QED BY <2>2, <2>3 DEF LockValues
<1>3. CASE t = "lower"
  <2>1. Table(lock, a, reg["lower"], Phase("upper"), reg["upper"])
    BY <1>3, TableSymmetric DEF LockValues, Moves
  <2>2. Table(l, b, x, Phase("upper"), reg["upper"])
    BY <1>1, <1>3, <2>1, PhaseType DEF Threads
  <2>3. /\ Phase("lower")' = b /\ Phase("upper")' = Phase("upper")
        /\ reg'["lower"] = x /\ reg'["upper"] = reg["upper"]
    BY <1>1, <1>3 DEF Moves, Threads
  <2> QED BY <2>2, <2>3, TableSymmetric DEF LockValues
<1> QED BY <1>2, <1>3 DEF Threads

\* Such a step leaves the table as it is.
LEMMA QuietStep == LockValues /\ Quiet => LockValues'
  BY DEF LockValues, Quiet, Threads

(* The lock keeps to the table through every action. *)
LEMMA ValuesStep ==
    TypeOK /\ Returns /\ LockValues /\ [Next]_vars => LockValues'
<1> SUFFICES ASSUME TypeOK, Returns, LockValues, [Next]_vars PROVE LockValues'
  OBVIOUS
<1> USE DEF Goto, Threads, Kinds, vars, shared, local, history, Phase, Operating
<1>0. /\ pc \in [Threads -> Labels] /\ back \in [Threads -> Labels]
      /\ reg \in [Threads -> Int] /\ lock \in Int
  BY DEF TypeOK
<1>1. ASSUME NEW t \in Threads, LockLoad(t) PROVE LockValues'
  <2>1. Moves(t, "load", "store", lock) /\ lock' = lock
    BY <1>0, <1>1 DEF LockLoad, Moves
  <2> HIDE DEF Phase
  <2> QED BY <1>0, <2>1, MovesStep, LoadTable
<1>2. ASSUME NEW t \in Threads, LockStore(t) PROVE LockValues'
  <2>1. Moves(t, "store", "in", 0) /\ lock' = reg[t] + 1
    BY <1>0, <1>2 DEF LockStore, Body, Moves
  <2> HIDE DEF Phase
  <2> QED BY <1>0, <2>1, MovesStep, StoreTable
<1>3. ASSUME NEW t \in Threads, UnlockLoad(t) PROVE LockValues'
  <2>1. Moves(t, "in", "unstore", lock) /\ lock' = lock
    BY <1>0, <1>3 DEF UnlockLoad, Moves
  <2> HIDE DEF Phase
  <2> QED BY <1>0, <2>1, MovesStep, UnloadTable
<1>4. ASSUME NEW t \in Threads, UnlockStore(t) PROVE LockValues'
  <2>1. Moves(t, "unstore", "out", 0) /\ lock' = reg[t] - 1
    BY <1>0, <1>4 DEF UnlockStore, Moves
  <2> HIDE DEF Phase
  <2> QED BY <1>0, <2>1, MovesStep, UnstoreTable
<1>5. ASSUME NEW t \in Threads, NEW k \in Kinds, Close(t, k) PROVE Quiet
  BY <1>0, <1>5 DEF Close, Quiet, Returns, Closing, Starting
<1>6. ASSUME NEW t \in Threads, NEW k \in Kinds, Start(t, k) PROVE Quiet
  BY <1>0, <1>6 DEF Start, Quiet, Returns, Closing, Starting
<1>7. ASSUME OtherRoom PROVE Quiet
  BY <1>0, <1>7 DEF OtherRoom, Quiet
<1>8. ASSUME NEW ready \in BOOLEAN, NEW connected \in BOOLEAN, Act(ready, connected)
      PROVE  Quiet
  BY <1>0, <1>8 DEF Act, BeginClose, Quiet
<1>9. ASSUME Decide PROVE Quiet
  BY <1>0, <1>9 DEF Decide, Quiet
<1>10. ASSUME Clear PROVE Quiet
  BY <1>0, <1>10 DEF Clear, Quiet
<1>11. ASSUME CountLoad PROVE Quiet
  BY <1>0, <1>11 DEF CountLoad, Quiet
<1>12. ASSUME CountStore PROVE Quiet
  BY <1>0, <1>12 DEF CountStore, Quiet
<1>13. ASSUME Send PROVE Quiet
  BY <1>0, <1>13 DEF Send, Quiet
<1>14. ASSUME AddNode PROVE Quiet
  BY <1>0, <1>14 DEF AddNode, Quiet
<1>15. ASSUME Reply PROVE Quiet
  BY <1>0, <1>15 DEF Reply, Quiet
<1>16. ASSUME TimedOut PROVE Quiet
  BY <1>0, <1>16 DEF TimedOut, Quiet
<1>17. ASSUME LowDone PROVE Quiet
  BY <1>0, <1>17 DEF LowDone, Quiet
<1>18. ASSUME AckStore PROVE Quiet
  BY <1>0, <1>18 DEF AckStore, BeginStart, Quiet
<1>19. ASSUME Started PROVE Quiet
  BY <1>0, <1>19 DEF Started, Quiet
<1>20. ASSUME DelNode PROVE Quiet
  BY <1>0, <1>20 DEF DelNode, Quiet
<1>21. ASSUME UnlockEnc PROVE Quiet
  BY <1>0, <1>21 DEF UnlockEnc, Quiet
<1>22. ASSUME RecordReq PROVE LockValues'
  <2>1. CASE lock = 0
    <3>1. Moves("lower", "out", "load", reg["lower"]) /\ lock' = 0
      BY <1>0, <1>22, <2>1 DEF RecordReq, Moves
    <3> HIDE DEF Phase
    <3> QED BY <1>0, <2>1, <3>1, MovesStep, EnterTable
  <2>2. CASE lock # 0
    BY <1>0, <1>22, <2>2, QuietStep DEF RecordReq, Quiet
  <2> QED BY <2>1, <2>2
<1>23. ASSUME Report PROVE Quiet
  BY <1>0, <1>23 DEF Report, BeginClose, Quiet
<1>24. ASSUME ReportDone PROVE Quiet
  BY <1>0, <1>24 DEF ReportDone, Quiet
<1>25. ASSUME NEW p \in Platforms, NEW o \in Ops, RecordCtrl(p, o) PROVE LockValues'
  <2>1. CASE lock = 0
    <3>1. Moves("upper", "out", "load", reg["upper"]) /\ lock' = 0
      BY <1>0, <1>25, <2>1 DEF RecordCtrl, Moves
    <3> HIDE DEF Phase
    <3> QED BY <1>0, <2>1, <3>1, MovesStep, EnterTable
  <2>2. CASE lock # 0
    BY <1>0, <1>25, <2>2, QuietStep DEF RecordCtrl, Quiet
  <2> QED BY <2>1, <2>2
<1>26. ASSUME NEW p \in Platforms, TimeOut(p) PROVE Quiet
  BY <1>0, <1>26 DEF TimeOut, BeginStart, Quiet
<1>27. ASSUME NEW full \in BOOLEAN, ServerInfo(full) PROVE Quiet
  BY <1>0, <1>27 DEF ServerInfo, BeginClose, Quiet
<1>28. ASSUME NEW s \in Streams, NEW p \in Platforms, Ack(s, p)
       PROVE  Quiet
  BY <1>0, <1>28 DEF Ack, Quiet
<1>29. ASSUME NEW k \in Kinds, RecordOver(k) PROVE Quiet
  BY <1>0, <1>29 DEF RecordOver, Quiet
<1>30. ASSUME UNCHANGED vars PROVE Quiet
  BY <1>0, <1>30 DEF Quiet
<1>31. ASSUME NEW s \in Streams, QualityAnswer(s) PROVE Quiet
  BY <1>0, <1>31 DEF QualityAnswer, Quiet
<1>32. ASSUME Relock PROVE Quiet
  BY <1>0, <1>32 DEF Relock, Quiet
<1> HIDE DEF Phase
<1> QED BY QuietStep,
          <1>1, <1>2, <1>3, <1>4, <1>5, <1>6, <1>7, <1>8, <1>9, <1>10,
          <1>11, <1>12, <1>13, <1>14, <1>15, <1>16, <1>17, <1>18, <1>19, <1>20,
          <1>21, <1>22, <1>23, <1>24, <1>25, <1>26, <1>27, <1>28, <1>29, <1>30,
          <1>31, <1>32 DEF Next, UpperStep, LowerStep, Step

-----------------------------------------------------------------------------
(* The invariant holds in every reachable state. *)
THEOREM Invariance == Spec => []IInv
<1>1. IInv /\ [Next]_vars => IInv'
  BY TypeStep, ReturnsStep, ReasonStep, ValuesStep DEF IInv
<1> QED BY InitIInv, <1>1, PTL DEF Spec

(* Handles, masks, counters and the two threads keep their types through   *)
(* every interleaving of the handlers of upper_msg_ctrl.c and              *)
(* lower_msg_ctrl.c; in particular only running recorders have reported.   *)
THEOREM TypeCorrect == Spec => []TypeOK
<1>1. IInv => TypeOK
  BY DEF IInv
<1> QED BY Invariance, <1>1, PTL

(* opt_mutex_lock stays between -2 and 3 for ever, although its increments *)
(* and decrements (upper_mutex_lock, upper_mutex_unlock) may be lost.      *)
THEOREM LockIsBounded == Spec => []LockBounded
<1>1. IInv => LockBounded
  BY PhaseType DEF IInv, LockBounded, LockValues, Table, Values, Phases
<1> QED BY Invariance, <1>1, PTL

(* Once nothing records, nothing is owed and both threads are idle, no     *)
(* encoder's resolution is left locked, unless a START overtook the answer *)
(* to an earlier one, and but for the encoders that were told to lock when *)
(* their recorder was closed already (upper_msg_record_ctrl_deal,          *)
(* upper_msg_record_time_out_resp, lower_msg_record_ctrl_deal,             *)
(* lower_msg_set_quality_info_deal).                                       *)
THEOREM EncodersAreUnlocked == Spec => []NoLockLeft
<1>1. IInv => NoLockLeft
  BY DEF IInv, LockReason, Justified, OnWay, NoLockLeft, Threads, Closing
<1> QED BY Invariance, <1>1, PTL

-----------------------------------------------------------------------------
(* The threads of a recording (CourseRec): the inductive invariant.        *)

\* All writers of a set are over; none has begun.
Over(f) == \A s \in Indexes : wr[f][s].pc = "over"
Unbegun(f) == \A s \in Indexes : wr[f][s].pc = "none"

\* The sets of writers before the current one are over, those behind it have not
\* begun; how far the current one has got.
Sets ==
    /\ mcr = proc.f /\ ctl.f <= mcr
    /\ \A f \in Files : f < proc.f => Over(f)
    /\ \A f \in Files : f > proc.f => Unbegun(f)
    /\ proc.pc = "start" => Unbegun(proc.f)
    /\ proc.pc # "start" => \A s \in Indexes : wr[proc.f][s].pc # "none"
    /\ proc.pc = "lock" => proc.s = 1
    /\ proc.pc \in {"close", "join"} =>
         \A s \in Indexes : s < proc.s => wr[proc.f][s].pc = "over"
    /\ proc.pc \in {"free", "register"} => Over(proc.f)
    /\ proc.pc = "start" /\ ctl.pc \in {"join", "free"} => broken \/ ctl.f < proc.f

\* Reports are queued in the order of the sets, and those of one file in the order
\* of its growth.
Reports ==
    /\ \A i \in 1 .. Len(que) : que[i].f <= proc.f
    /\ \A i, j \in 1 .. Len(que) : i <= j => que[i].f <= que[j].f
    /\ \A i, j \in 1 .. Len(que) :
        i <= j /\ que[i].f = que[j].f /\ que[i].s = que[j].s => que[i].size <= que[j].size
    /\ \A i \in 1 .. Len(que) :
        \/ wr[que[i].f][que[i].s].pc = "over"
        \/ que[i].size <= wr[que[i].f][que[i].s].size
    /\ proc.pc = "start" => \A i \in 1 .. Len(que) : que[i].f < proc.f

\* While split_flag is set all reports are about the current set; while it is not,
\* those of older sets about the stream that caused the split are over the limit.
Armed ==
    /\ Splitting => flag /\ last \in Indexes
    /\ flag /\ proc.pc # "start" => \A i \in 1 .. Len(que) : que[i].f = proc.f
    /\ Splitting \/ ~flag => \A i \in 1 .. Len(que) :
        que[i].s = last /\ (Splitting \/ que[i].f < proc.f) => que[i].size >= Limit
    /\ Splitting /\ proc.pc # "start" =>
        wr[proc.f][last].pc = "over" \/ wr[proc.f][last].size >= Limit

\* course_record_stop has returned: the control thread has freed the writers.
Stopped == ctl.pc \in {"stopped", "procJoin", "done"}

\* The course process and the control thread are not at the writers together when
\* one of them closes, and what is freed are the sets before the current one.
Apart ==
    /\ ~(Using /\ Splitting) /\ ~(Stopping /\ Pausing)
    /\ ~(Stopped /\ (Pausing \/ Splitting))
    /\ Using => ctl.f = mcr
    /\ \A f \in freed : f <= mcr
    /\ \A f \in Files : f < mcr => f \in freed
    /\ mcr \in freed <=> proc.pc = "register" \/ Stopped
    /\ ctl.pc \in {"drain", "printJoin"} => ctl.s = 1
    /\ ctl.pc \in {"close", "join"} =>
         \A s \in Indexes : s < ctl.s => wr[ctl.f][s].pc = "over"
    /\ ctl.pc = "free" \/ Stopped => Over(mcr)
    /\ Stopping \/ Stopped => print = "over"
    /\ ctl.pc = "done" => proc.pc = "over"

\* ... but after one of the three lapses.
Exclusive == lapses # {} \/ Apart

CourseInv == CourseTypeOK /\ Sets /\ Reports /\ Armed /\ Exclusive /\ NoFreedUse

-----------------------------------------------------------------------------
(* A recording: types, and what single assignments do.                     *)

\* What the types say of the parts of the state.
LEMMA Types ==
    ASSUME CourseTypeOK
    PROVE  /\ proc.f \in Files /\ proc.s \in Indexes /\ ctl.f \in Files /\ ctl.s \in Indexes
           /\ \A f \in Files : f \in Nat
           /\ \A s \in Indexes : s \in Nat /\ 1 <= s /\ s <= N
           /\ \A f \in Files, s \in Indexes : wr[f][s] \in Thread
           /\ Len(que) \in Nat
           /\ \A i \in 1 .. Len(que) :
                /\ que[i] \in SizeReport /\ que[i].f \in Files /\ que[i].s \in Indexes
                /\ que[i].size \in 1 .. Limit + 1
<1>1. /\ proc \in ProcPlace /\ ctl \in CtlPlace /\ que \in Seq(SizeReport)
      /\ wr \in [Files -> [Indexes -> Thread]]
  BY DEF CourseTypeOK
<1>2. /\ proc.f \in Files /\ proc.s \in Indexes /\ ctl.f \in Files /\ ctl.s \in Indexes
  BY <1>1 DEF ProcPlace, CtlPlace
<1>3. Len(que) \in Nat /\ \A i \in 1 .. Len(que) : que[i] \in SizeReport
  BY <1>1
<1>4. \A r \in SizeReport : r.f \in Files /\ r.s \in Indexes /\ r.size \in 1 .. Limit + 1
  BY DEF SizeReport
<1>5. /\ \A f \in Files : f \in Nat
      /\ \A s \in Indexes : s \in Nat /\ 1 <= s /\ s <= N
  BY DEF Files, Indexes
<1>6. \A f \in Files, s \in Indexes : wr[f][s] \in Thread
  BY <1>1
<1> QED
  BY <1>2, <1>3, <1>4, <1>5, <1>6

\* What a change of one set of writers leaves alone.
LEMMA PutSet ==
    ASSUME CourseTypeOK, NEW f \in Files, NEW w \in [Indexes -> Thread],
           wr' = [wr EXCEPT ![f] = w]
    PROVE  /\ wr' \in [Files -> [Indexes -> Thread]] /\ wr'[f] = w
           /\ \A g \in Files : g # f => wr'[g] = wr[g]
BY DEF CourseTypeOK

\* No writer goes on, no file grows.
Same ==
    /\ wr' \in [Files -> [Indexes -> Thread]]
    /\ \A f \in Files, s \in Indexes :
        wr'[f][s].pc = wr[f][s].pc /\ wr'[f][s].size = wr[f][s].size

\* record_status of a writer is nothing the invariant looks at.
LEMMA SameIf ==
    ASSUME CourseTypeOK,
           \/ wr' = wr
           \/ \E f \in Files, s \in Indexes, x \in States : wr' = [wr EXCEPT ![f][s].rs = x]
    PROVE  Same
<1>1. CASE wr' = wr
  BY <1>1 DEF Same, CourseTypeOK
<1>2. ASSUME NEW f \in Files, NEW s \in Indexes, NEW x \in States,
             wr' = [wr EXCEPT ![f][s].rs = x]
      PROVE  Same
  <2> DEFINE v == [wr[f][s] EXCEPT !.rs = x]
  <2>1. wr[f][s] \in Thread
    BY Types
  <2>2. v \in Thread /\ v.pc = wr[f][s].pc /\ v.size = wr[f][s].size
    BY <2>1 DEF Thread
  <2>3. wr' = [wr EXCEPT ![f] = [wr[f] EXCEPT ![s] = v]]
    BY <1>2
  <2> HIDE DEF v
  <2>4. /\ wr' \in [Files -> [Indexes -> Thread]] /\ wr'[f][s] = v
        /\ \A g \in Files, q \in Indexes : g # f \/ q # s => wr'[g][q] = wr[g][q]
    <3>1. wr \in [Files -> [Indexes -> Thread]] /\ wr[f] \in [Indexes -> Thread]
      BY DEF CourseTypeOK
    <3> QED
      BY <2>2, <2>3, <3>1
  <2>5. ASSUME NEW g \in Files, NEW q \in Indexes
        PROVE  wr'[g][q].pc = wr[g][q].pc /\ wr'[g][q].size = wr[g][q].size
    <3>1. CASE g = f /\ q = s
      BY <2>2, <2>4
    <3>2. CASE g # f \/ q # s
      BY <2>4, <3>2
    <3> QED
      BY <3>1, <3>2
  <2> QED
    BY <2>4, <2>5 DEF Same
<1> QED
  BY <1>1, <1>2

LEMMA SamePlaces ==
    ASSUME Same
    PROVE  \A f \in Files : (Over(f) => Over(f)') /\ (Unbegun(f) => Unbegun(f)')
BY DEF Over, Unbegun, Same

-----------------------------------------------------------------------------
(* A recording: what a step that does not concern them leaves true.        *)

\* The course process stays where it is.
LEMMA ProcStays ==
    ASSUME CourseInv, Same, UNCHANGED <<proc, mcr, que, flag, last>>, ctl'.f <= mcr,
           proc.pc = "start" /\ ctl'.pc \in {"join", "free"} => broken' \/ ctl'.f < proc.f
    PROVE  Sets' /\ Reports' /\ Armed'
<1>1. Sets'
  <2>1. proc.f \in Files /\ wr \in [Files -> [Indexes -> Thread]]
    BY Types DEF CourseInv, CourseTypeOK
  <2>2. /\ \A f \in Files : (Over(f) => Over(f)') /\ (Unbegun(f) => Unbegun(f)')
        /\ \A f \in Files, s \in Indexes : wr'[f][s].pc = wr[f][s].pc
    BY SamePlaces DEF Same
  <2>3. Sets
    BY DEF CourseInv
  <2> QED
    BY <2>1, <2>2, <2>3 DEF Sets
<1>2. \A i \in 1 .. Len(que) : que[i].f \in Files /\ que[i].s \in Indexes
  BY Types DEF CourseInv
<1>3. Reports'
  <2>1. Reports
    BY DEF CourseInv
  <2> QED
    BY <1>2, <2>1 DEF Reports, Same
<1>4. Armed'
  <2>1. Armed /\ proc.f \in Files
    BY Types DEF CourseInv
  <2> QED
    BY <1>2, <2>1 DEF Armed, Splitting, Same
<1> QED
  BY <1>1, <1>3, <1>4

\* The course process goes on, outside of a split.
LEMMA ProcTurns ==
    ASSUME CourseInv, Same, UNCHANGED <<ctl, mcr, que, flag, last>>,
           ~Splitting, ~Splitting', proc'.f = proc.f
    PROVE  Sets' /\ Reports' /\ Armed'
<1>1. Sets'
  <2>1. proc.f \in Files /\ wr \in [Files -> [Indexes -> Thread]]
    BY Types DEF CourseInv, CourseTypeOK
  <2>2. /\ \A f \in Files : (Over(f) => Over(f)') /\ (Unbegun(f) => Unbegun(f)')
        /\ \A f \in Files, s \in Indexes : wr'[f][s].pc = wr[f][s].pc
    BY SamePlaces DEF Same
  <2>3. Sets
    BY DEF CourseInv
  <2> QED
    BY <2>1, <2>2, <2>3 DEF Sets, Splitting
<1>2. Reports'
  <2>1. UNCHANGED que /\ proc'.f = proc.f /\ proc.pc # "start" /\ proc'.pc # "start"
    BY DEF Splitting
  <2>2. \A i \in 1 .. Len(que) : LET w == wr[que[i].f][que[i].s] IN
            w.pc = "over" \/ que[i].size <= w.size
    BY DEF CourseInv, Reports
  <2>3. \A i \in 1 .. Len(que) : LET w == wr'[que[i].f][que[i].s] IN
            w.pc = "over" \/ que[i].size <= w.size
    BY <2>2, Types DEF CourseInv, Same
  <2> QED
    BY <2>1, <2>3 DEF CourseInv, Reports
<1>3. Armed'
  BY DEF CourseInv, Armed, Splitting
<1> QED
  BY <1>1, <1>2, <1>3

\* The course process goes on with a split.
LEMMA ProcSplits ==
    ASSUME CourseInv, Same, UNCHANGED <<ctl, mcr, que, flag, last>>,
           Splitting, Splitting', proc.pc # "start", proc'.pc # "start", proc'.f = proc.f
    PROVE  Reports' /\ Armed'
<1>1. Reports'
  <2>1. \A i \in 1 .. Len(que) : LET w == wr[que[i].f][que[i].s] IN
            w.pc = "over" \/ que[i].size <= w.size
    BY DEF CourseInv, Reports
  <2>2. \A i \in 1 .. Len(que) : LET w == wr'[que[i].f][que[i].s] IN
            w.pc = "over" \/ que[i].size <= w.size
    BY <2>1, Types DEF CourseInv, Same
  <2> QED
    BY <2>2 DEF CourseInv, Reports
<1>2. Armed'
  BY Types DEF CourseInv, Armed, Same
<1> QED
  BY <1>1, <1>2

-----------------------------------------------------------------------------
(* Steps of the receive threads, the print thread and the control thread.  *)

LEMMA FrameInv ==
    ASSUME CourseInv, ~broken, NEW s \in Indexes, Frame(s)
    PROVE  CourseInv'
<1>1. Same /\ ctl'.f <= mcr /\ CourseTypeOK'
  <2>1. data' \in [Indexes -> 0 .. DataCap]
    BY RecAssumption DEF CourseInv, CourseTypeOK, Frame
  <2> QED
    BY <2>1, SameIf DEF CourseInv, CourseTypeOK, Sets, Frame, writers, course, control
<1>2. Sets' /\ Reports' /\ Armed'
  BY <1>1, ProcStays DEF CourseInv, Sets, Frame, writers, course, control
<1>3. Exclusive' /\ NoFreedUse'
  BY DEF CourseInv, Exclusive, Apart, NoFreedUse, Using, Stopping, Pausing, Splitting, Stopped, Over, Frame, writers,
     course, control
<1> QED
  BY <1>1, <1>2, <1>3 DEF CourseInv

LEMMA SkipFrameInv ==
    ASSUME CourseInv, ~broken, NEW f \in Files, NEW s \in Indexes, SkipFrame(f, s)
    PROVE  CourseInv'
<1>1. Same /\ ctl'.f <= mcr /\ CourseTypeOK'
  <2>1. data' \in [Indexes -> 0 .. DataCap]
    BY RecAssumption DEF CourseInv, CourseTypeOK, SkipFrame
  <2> QED
    BY <2>1, SameIf DEF CourseInv, CourseTypeOK, Sets, SkipFrame, writers, course,
       control
<1>2. Sets' /\ Reports' /\ Armed'
  BY <1>1, ProcStays DEF CourseInv, Sets, SkipFrame, writers, course, control
<1>3. Exclusive' /\ NoFreedUse'
  BY DEF CourseInv, Exclusive, Apart, NoFreedUse, Using, Stopping, Pausing, Splitting, Stopped, Over, SkipFrame,
     writers, course, control
<1> QED
  BY <1>1, <1>2, <1>3 DEF CourseInv

\* The print thread uses cr->mcr while no split is between freeing and replacing it;
\* the control thread frees it when the print thread is over.
LEMMA PrintInv ==
    ASSUME CourseInv, ~broken, PrintThread
    PROVE  CourseInv'
<1>1. /\ print' \in {"wait", "lock", "over"} /\ print # "over"
      /\ broken' \in BOOLEAN
      /\ broken' => /\ mcr \in freed /\ print = "lock"
                    /\ proc.pc \notin {"close", "join", "free", "register"}
      /\ UNCHANGED <<queues, writers, course, control, pclose, lapses>>
  <2>1. CASE PrintLock \/ PrintEnds
    BY <2>1 DEF CourseInv, CourseTypeOK, PrintLock, PrintEnds
  <2>2. CASE PrintDone
    BY <2>2 DEF PrintDone
  <2> QED
    BY <2>1, <2>2 DEF PrintThread
<1>2. Same /\ ctl'.f <= mcr /\ CourseTypeOK'
  BY <1>1, SameIf DEF CourseInv, CourseTypeOK, Sets, queues, writers, course, control
<1>3. Sets' /\ Reports' /\ Armed'
  BY <1>1, <1>2, ProcStays DEF CourseInv, Sets, queues, writers, course, control
<1>4. Exclusive'
  BY <1>1 DEF CourseInv, Exclusive, Apart, Using, Stopping, Pausing, Splitting, Stopped, writers, course, control
<1>5. NoFreedUse'
  BY <1>1 DEF CourseInv, Exclusive, Apart, NoFreedUse
<1> QED
  BY <1>2, <1>3, <1>4, <1>5 DEF CourseInv

\* An operation begins: it loads cr->mcr.
LEMMA BeginInv ==
    ASSUME CourseInv, ~broken, NEW to \in {"pauseTest", "resume", "drain"}, Begin(to),
           feed' \in BOOLEAN, ops' \in 0 .. MaxOps,
           UNCHANGED <<data, que, dropped, writers, course, print, pclose, broken>>
    PROVE  CourseInv'
<1>1. ctl' \in CtlPlace /\ ctl'.pc = to /\ ctl'.f = mcr /\ ctl'.s = 1
  BY RecAssumption DEF CourseInv, CourseTypeOK, Begin, CtlPlace, Indexes
<1>2. Same /\ ctl'.f <= mcr /\ CourseTypeOK'
  BY <1>1, SameIf, Types DEF CourseInv, CourseTypeOK, Begin, Lapses, writers, course
<1>3. Sets' /\ Reports' /\ Armed'
  BY <1>1, <1>2, ProcStays DEF writers, course
<1>4. Exclusive'
  BY DEF CourseInv, Exclusive, Apart, Using, Stopping, Pausing, Splitting, Stopped, Begin, writers, course
<1>5. NoFreedUse'
  BY DEF NoFreedUse
<1> QED
  BY <1>2, <1>3, <1>4, <1>5 DEF CourseInv

LEMMA BeginsInv ==
    ASSUME CourseInv, ~broken, Pause \/ Resume \/ CloseRecord
    PROVE  CourseInv'
<1>1. CASE Pause
  <2>1. ops' \in 0 .. MaxOps
    BY <1>1, RecAssumption DEF CourseInv, CourseTypeOK, Pause
  <2> QED
    BY <1>1, <2>1, BeginInv DEF Pause
<1>2. CASE Resume
  <2>1. ops' \in 0 .. MaxOps
    BY <1>2, RecAssumption DEF CourseInv, CourseTypeOK, Resume
  <2> QED
    BY <1>2, <2>1, BeginInv DEF CourseInv, CourseTypeOK, Resume, queues
<1>3. CASE CloseRecord
  BY <1>3, BeginInv DEF CourseInv, CourseTypeOK, CloseRecord
<1> QED
  BY <1>1, <1>2, <1>3

\* Pausing and resuming go through the writers one by one.
LEMMA StepOnTypes ==
    ASSUME CourseInv, NEW next \in {"pauseTest", "resume"}, NEW state \in States,
           StepOn(next, state)
    PROVE  /\ ctl' \in CtlPlace /\ ctl'.f <= mcr /\ ctl'.pc \in {next, "idle"}
           /\ ctl'.pc = "idle" \/ ctl'.f = ctl.f
           /\ rs' \in States /\ feed' \in BOOLEAN
<1>1. CASE ctl.s < N
  <2>1. ctl.s + 1 \in Indexes
    BY <1>1, Types, RecAssumption DEF CourseInv, Indexes
  <2> QED
    BY <1>1, <2>1 DEF CourseInv, CourseTypeOK, Sets, StepOn, CtlPlace
<1>2. CASE ~(ctl.s < N)
  <2>1. Idle \in CtlPlace /\ Idle.pc = "idle"
    BY RecAssumption DEF Idle, CtlPlace, Files, Indexes
  <2>2. feed \in BOOLEAN /\ mcr \in Files
    BY DEF CourseInv, CourseTypeOK
  <2>3. Idle.f <= mcr
    BY <2>2 DEF Idle, Files
  <2> QED
    BY <1>2, <2>1, <2>2, <2>3 DEF StepOn
<1> QED
  BY <1>1, <1>2

LEMMA WalkInv ==
    ASSUME CourseInv, ~broken, Same, ctl.pc \in {"pauseTest", "pauseSet", "resume"},
           ctl' \in CtlPlace, ctl'.f <= mcr, ctl'.pc = "idle" \/ ctl'.f = ctl.f,
           ctl'.pc \in {"idle", "pauseTest", "pauseSet", "resume"},
           rs' \in States, feed' \in BOOLEAN, broken' = (broken \/ ctl.f \in freed),
           UNCHANGED <<data, que, dropped, freed, mcr, course, ops, print, pclose, lapses>>
    PROVE  CourseInv'
<1>1. CourseTypeOK'
  BY DEF CourseInv, CourseTypeOK, Same, course
<1>2. Sets' /\ Reports' /\ Armed'
  BY ProcStays DEF course
<1>3. Exclusive' /\ NoFreedUse'
  BY DEF CourseInv, Exclusive, Apart, NoFreedUse, Using, Stopping, Pausing, Splitting, Stopped, course
<1> QED
  BY <1>1, <1>2, <1>3 DEF CourseInv

LEMMA WalksInv ==
    ASSUME CourseInv, ~broken, PauseTest \/ PauseSet \/ ResumeSet
    PROVE  CourseInv'
<1>1. CASE PauseTest
  <2>1. /\ ctl' \in CtlPlace /\ ctl'.f <= mcr /\ ctl'.pc \in {"pauseSet", "pauseTest", "idle"}
        /\ ctl'.pc = "idle" \/ ctl'.f = ctl.f
        /\ rs' \in States /\ feed' \in BOOLEAN
    <3>1. CASE wr[ctl.f][ctl.s].rs # "CLOSE"
      BY <1>1, <3>1 DEF CourseInv, CourseTypeOK, Sets, PauseTest, CtlPlace
    <3>2. CASE ~(wr[ctl.f][ctl.s].rs # "CLOSE")
      BY <1>1, <3>2, StepOnTypes DEF PauseTest, States
    <3> QED
      BY <3>1, <3>2
  <2>2. Same
    BY <1>1, SameIf DEF CourseInv, PauseTest
  <2> QED
    BY <1>1, <2>1, <2>2, WalkInv DEF PauseTest
<1>2. CASE PauseSet
  <2>1. /\ ctl' \in CtlPlace /\ ctl'.f <= mcr /\ ctl'.pc \in {"pauseTest", "idle"}
        /\ ctl'.pc = "idle" \/ ctl'.f = ctl.f
        /\ rs' \in States /\ feed' \in BOOLEAN
    BY <1>2, StepOnTypes DEF PauseSet, States
  <2>2. Same
    BY <1>2, SameIf, Types DEF CourseInv, PauseSet, States
  <2> QED
    BY <1>2, <2>1, <2>2, WalkInv DEF PauseSet
<1>3. CASE ResumeSet
  <2>1. /\ ctl' \in CtlPlace /\ ctl'.f <= mcr /\ ctl'.pc \in {"resume", "idle"}
        /\ ctl'.pc = "idle" \/ ctl'.f = ctl.f
        /\ rs' \in States /\ feed' \in BOOLEAN
    BY <1>3, StepOnTypes DEF ResumeSet, States
  <2>2. Same
    BY <1>3, SameIf, Types DEF CourseInv, ResumeSet, States
  <2> QED
    BY <1>3, <2>1, <2>2, WalkInv DEF ResumeSet
<1> QED
  BY <1>1, <1>2, <1>3

\* Closing: the data queue is drained, the print thread joined, the writers are closed
\* and joined, then the process.
LEMMA DrainInv ==
    ASSUME CourseInv, ~broken, CloseDrained \/ ClosePrintJoined \/ CloseMark \/ CloseDone
    PROVE  CourseInv'
<1>1. /\ ctl' \in CtlPlace /\ ctl'.f <= mcr /\ ctl'.s = ctl.s
      /\ \/ ctl.pc = "drain" /\ ctl'.pc = "printJoin"
         \/ ctl.pc = "printJoin" /\ ctl'.pc = "close" /\ ctl'.f = mcr /\ print = "over"
         \/ ctl.pc = "stopped" /\ ctl'.pc = "procJoin" /\ ctl'.f = ctl.f
         \/ ctl.pc = "procJoin" /\ ctl'.pc = "done" /\ proc.pc = "over" /\ ctl'.f = ctl.f
      /\ lapses \subseteq lapses'
      /\ ctl'.pc = "close" => lapses' # {} \/ ~(Splitting \/ Pausing)
  <2>1. ctl \in CtlPlace /\ mcr \in Files /\ ctl.f <= mcr /\ mcr <= mcr
    BY Types DEF CourseInv, CourseTypeOK, Sets
  <2>2. CASE CloseDrained
    BY <2>1, <2>2 DEF CtlPlace, CloseDrained
  <2>3. CASE ClosePrintJoined
    BY <2>1, <2>3 DEF CtlPlace, ClosePrintJoined
  <2>4. CASE CloseMark \/ CloseDone
    BY <2>1, <2>4 DEF CtlPlace, CloseMark, CloseDone
  <2> QED
    BY <2>2, <2>3, <2>4
<1>2. /\ pclose' \in BOOLEAN /\ lapses' \subseteq Lapses /\ rs' \in States
      /\ UNCHANGED <<queues, wr, freed, mcr, course, ops, print, broken>>
  <2>1. pclose \in BOOLEAN /\ lapses \subseteq Lapses /\ rs \in States
    BY DEF CourseInv, CourseTypeOK
  <2> QED
    BY <2>1 DEF CloseDrained, ClosePrintJoined, CloseMark, CloseDone, writers, States, Lapses
<1>3. Same /\ CourseTypeOK'
  BY <1>1, <1>2, SameIf DEF CourseInv, CourseTypeOK, queues, writers, course
<1>4. Sets' /\ Reports' /\ Armed'
  BY <1>1, <1>2, <1>3, ProcStays DEF queues, writers, course
<1>5. Exclusive'
  <2>1. Over(mcr) => Over(mcr)'
    BY <1>2 DEF Over, writers
  <2>2. lapses' # {} \/ (Apart /\ (ctl'.pc = "close" => ~(Splitting \/ Pausing)))
    BY <1>1 DEF CourseInv, Exclusive
  <2>3. UNCHANGED <<mcr, freed, proc, print>>
    BY <1>2 DEF writers, course
  <2>4. ASSUME Apart, ctl'.pc = "close" => ~(Splitting \/ Pausing)
        PROVE  Apart'
    BY <1>1, <2>1, <2>3, <2>4, Types DEF CourseInv, Apart, Using, Stopping, Pausing, Splitting, Stopped
  <2> QED
    BY <2>2, <2>4 DEF Exclusive
<1>6. NoFreedUse'
  BY <1>2 DEF NoFreedUse
<1> QED
  BY <1>3, <1>4, <1>5, <1>6 DEF CourseInv

\* While the control thread is at the writers it may work on, they are not freed.
LEMMA ClosesLive ==
    ASSUME CourseInv, Stopping, lapses = {}
    PROVE  /\ ctl.f \notin freed /\ ctl.f = mcr /\ mcr = proc.f /\ ~(Splitting \/ Pausing)
           /\ \A s \in Indexes : wr[ctl.f][s].pc # "none"
BY DEF CourseInv, Exclusive, Apart, Sets, Using, Stopping, Pausing, Splitting, Stopped

LEMMA CloseWriterInv ==
    ASSUME CourseInv, ~broken, CloseWriter
    PROVE  CourseInv'
<1>1. /\ ctl' \in CtlPlace /\ ctl'.f = ctl.f /\ ctl'.s = ctl.s
      /\ ctl'.pc = "join" /\ ctl.pc = "close"
  BY DEF CourseInv, CourseTypeOK, CtlPlace, CloseWriter
<1>2. Same
  BY Types, SameIf DEF CourseInv, CloseWriter, States
<1>3. CourseTypeOK'
  BY <1>1, <1>2 DEF CourseInv, CourseTypeOK, CloseWriter, Same, queues, course
<1>4. Sets' /\ Reports' /\ Armed'
  <2>1. proc.pc = "start" => broken' \/ ctl'.f < proc.f
    <3>1. ctl.f <= proc.f /\ (proc.pc = "start" => Unbegun(proc.f))
      BY DEF CourseInv, Sets
    <3>2. Unbegun(ctl.f) => broken'
      BY Types DEF CourseInv, Unbegun, CloseWriter
    <3> QED
      BY <1>1, <3>1, <3>2, Types DEF CourseInv
  <2> QED
    BY <1>1, <1>2, <2>1, ProcStays DEF CourseInv, Sets, CloseWriter, queues, course
<1>5. Exclusive'
  <2>1. Over(mcr) => Over(mcr)'
    BY <1>2, SamePlaces DEF CourseInv, CourseTypeOK, CloseWriter
  <2>2. \A s \in Indexes : wr'[ctl.f][s].pc = wr[ctl.f][s].pc
    BY <1>2, Types DEF CourseInv, Same
  <2> QED
    BY DEF CourseInv, Exclusive, Apart, Using, Stopping, Pausing, Splitting, Stopped, CloseWriter, course
<1>6. NoFreedUse'
  BY ClosesLive, Types DEF CourseInv, NoFreedUse, CloseWriter, Stopping
<1> QED
  BY <1>3, <1>4, <1>5, <1>6 DEF CourseInv

LEMMA CloseJoinInv ==
    ASSUME CourseInv, ~broken, CloseJoin
    PROVE  CourseInv'
<1>1. /\ ctl' \in CtlPlace /\ ctl'.f = ctl.f /\ ctl.pc = "join"
      /\ \/ ctl'.pc = "close" /\ ctl'.s = ctl.s + 1
         \/ ctl'.pc = "free" /\ ctl.s = N
  <2>1. CASE ctl.s < N
    <3>1. ctl.s + 1 \in Indexes
      BY <2>1, Types, RecAssumption DEF CourseInv, Indexes
    <3> QED
      BY <2>1, <3>1 DEF CourseInv, CourseTypeOK, CtlPlace, CloseJoin
  <2>2. CASE ~(ctl.s < N)
    <3>1. ctl.s = N
      BY <2>2, Types, RecAssumption DEF CourseInv
    <3> QED
      BY <2>2, <3>1 DEF CourseInv, CourseTypeOK, CtlPlace, CloseJoin
  <2> QED
    BY <2>1, <2>2
<1>2. Same /\ CourseTypeOK'
  BY <1>1, SameIf DEF CourseInv, CourseTypeOK, CloseJoin, queues, writers, course
<1>3. Sets' /\ Reports' /\ Armed'
  BY <1>2, ProcStays DEF CourseInv, Sets, CloseJoin, queues, writers, course
<1>4. Exclusive'
  <2>1. \A s \in Indexes : wr'[ctl.f][s].pc = wr[ctl.f][s].pc
    BY DEF CloseJoin, writers
  <2>2. lapses = {} => \A s \in Indexes : s < ctl.s \/ s = ctl.s => wr[ctl.f][s].pc = "over"
    BY DEF CourseInv, Exclusive, Apart, CloseJoin
  <2>3. lapses = {} /\ ctl'.pc = "free" => Over(mcr)'
    BY <1>1, <2>2, ClosesLive, Types DEF CourseInv, Over, CloseJoin, Stopping, writers
  <2>4. lapses = {} /\ ctl'.pc = "close" =>
          \A s \in Indexes : s < ctl'.s => wr'[ctl.f][s].pc = "over"
    BY <1>1, <2>1, <2>2, Types DEF CourseInv
  <2> QED
    BY <2>3, <2>4 DEF CourseInv, Exclusive, Apart, Using, Stopping, Pausing, Splitting, Stopped, CloseJoin, writers,
       course
<1>5. NoFreedUse'
  BY DEF NoFreedUse, CloseJoin
<1> QED
  BY <1>2, <1>3, <1>4, <1>5 DEF CourseInv

\* Closed writers are freed; when the course process could have begun others there
\* was a lapse.
LEMMA CloseFreeInv ==
    ASSUME CourseInv, ~broken, CloseFree
    PROVE  CourseInv'
<1>1. /\ ctl' \in CtlPlace /\ ctl'.f = ctl.f /\ ctl'.s = ctl.s
      /\ ctl'.pc = "stopped" /\ ctl.pc = "free"
  BY DEF CourseInv, CourseTypeOK, CtlPlace, CloseFree
<1>2. /\ ctl.f \in Files /\ proc.f \in Files
      /\ UNCHANGED <<que, proc, mcr, flag, last, print, lapses>>
  BY Types DEF CourseInv, CloseFree, queues, course
<1>3. Freed \in [Indexes -> Thread] /\ \A s \in Indexes : Freed[s].pc = "over"
  BY RecAssumption DEF Freed, Thread, States
<1>4. /\ wr' \in [Files -> [Indexes -> Thread]] /\ wr'[ctl.f] = Freed
      /\ \A g \in Files : g # ctl.f => wr'[g] = wr[g]
  BY <1>2, <1>3, PutSet DEF CourseInv, CloseFree
<1>5. CourseTypeOK'
  BY <1>1, <1>4 DEF CourseInv, CourseTypeOK, CloseFree, queues, course, States
<1>6. Sets'
  <2>1. ctl.f <= proc.f /\ (proc.pc = "start" => ctl.f < proc.f)
    BY <1>1 DEF CourseInv, Sets
  <2>2. \A f \in Files : (Over(f) => Over(f)') /\ (Unbegun(f) /\ f # ctl.f => Unbegun(f)')
    BY <1>3, <1>4 DEF Over, Unbegun
  <2>3. \A f \in Files, s \in Indexes :
            /\ wr[f][s].pc = "over" => wr'[f][s].pc = "over"
            /\ wr[f][s].pc # "none" => wr'[f][s].pc # "none"
    BY <1>3, <1>4
  <2>4. \A f \in Files : f > proc.f \/ (f = proc.f /\ proc.pc = "start") => f # ctl.f
    BY <2>1, Types DEF CourseInv
  <2>5. Sets
    BY DEF CourseInv
  <2>6. /\ \A f \in Files : f < proc.f => Over(f)'
        /\ \A f \in Files : f > proc.f => Unbegun(f)'
        /\ proc.pc = "start" => Unbegun(proc.f)'
        /\ proc.pc \in {"free", "register"} => Over(proc.f)'
    BY <1>2, <2>2, <2>4, <2>5 DEF Sets
  <2>7. /\ proc.pc # "start" => \A s \in Indexes : wr'[proc.f][s].pc # "none"
        /\ proc.pc \in {"close", "join"} =>
             \A s \in Indexes : s < proc.s => wr'[proc.f][s].pc = "over"
    BY <1>2, <2>3, <2>5 DEF Sets
  <2> QED
    BY <1>1, <1>2, <2>5, <2>6, <2>7 DEF Sets
<1>7. Reports' /\ Armed'
  <2>1. \A f \in Files, s \in Indexes : wr'[f][s].pc = "over" \/ wr'[f][s] = wr[f][s]
    BY <1>3, <1>4
  <2>2. \A i \in 1 .. Len(que) :
            \/ wr'[que[i].f][que[i].s].pc = "over"
            \/ que[i].size <= wr'[que[i].f][que[i].s].size
    BY <2>1, Types DEF CourseInv, Reports
  <2>3. Reports'
    BY <1>2, <2>2 DEF CourseInv, Reports
  <2>4. Armed'
    BY <1>2, <2>1 DEF CourseInv, Armed, Splitting
  <2> QED
    BY <2>3, <2>4
<1>8. Exclusive'
  <2>1. Over(ctl.f)'
    BY <1>1, <1>3, <1>4 DEF Over
  <2>2. ASSUME lapses = {} PROVE Apart'
    <3>1. Apart /\ ctl.f = mcr /\ ~(Splitting \/ Pausing)
      BY <1>1, <2>2, ClosesLive DEF CourseInv, Exclusive, Stopping
    <3> QED
      BY <1>2, <2>1, <3>1, Types DEF CourseInv, Apart, Stopping, Using, Pausing, Splitting, Stopped, CloseFree
  <2> QED
    BY <1>2, <2>2 DEF Exclusive
<1>9. NoFreedUse'
  <2>1. ASSUME lapses = {} PROVE ctl.f \notin freed /\ ~Busy(ctl.f)
    BY <1>1, <2>1, ClosesLive DEF CourseInv, Exclusive, Apart, Stopping, Busy, Over
  <2>2. broken' => ctl.f \in freed \/ Busy(ctl.f)
    BY DEF CloseFree
  <2> QED
    BY <1>2, <2>1, <2>2 DEF NoFreedUse
<1> QED
  BY <1>5, <1>6, <1>7, <1>8, <1>9 DEF CourseInv

-----------------------------------------------------------------------------
(* Steps of the course process outside of a split.                         *)

LEMMA TurnsInv ==
    ASSUME CourseInv, ~broken,
           Overtime \/ OvertimePause \/ OvertimeSend \/ NoReport \/ ProcEnds
    PROVE  CourseInv'
<1>1. /\ proc' \in ProcPlace /\ proc'.f = proc.f
      /\ proc.pc \in {"loop", "pauseTest", "pauseSet", "send", "recv"}
      /\ proc'.pc \in {"loop", "pauseTest", "pauseSet", "send", "recv", "over"}
  <2>1. proc \in ProcPlace /\ proc.s \in Indexes /\ 1 \in Indexes
        /\ (proc.s < N => proc.s + 1 \in Indexes)
    <3>1. CourseTypeOK
      BY DEF CourseInv
    <3>2. proc \in ProcPlace /\ proc.s \in Indexes
      BY <3>1, Types DEF CourseTypeOK
    <3> QED
      BY <3>2, RecAssumption DEF Indexes
  <2>2. CASE Overtime
    BY <2>1, <2>2 DEF ProcPlace, Overtime
  <2>3. CASE OvertimePause
    BY <2>1, <2>3 DEF ProcPlace, OvertimePause
  <2>4. CASE OvertimeSend \/ NoReport \/ ProcEnds
    BY <2>1, <2>4 DEF ProcPlace, OvertimeSend, NoReport, ProcEnds
  <2> QED
    BY <2>2, <2>3, <2>4
<1>2. UNCHANGED <<queues, freed, mcr, flag, last, ctl, ops, print, pclose>>
  BY DEF Overtime, OvertimePause, OvertimeSend, NoReport, ProcEnds, writers, control
<1>3. Same /\ rs' \in States
  <2>1. CASE OvertimePause
    BY <2>1, SameIf, Types DEF CourseInv, CourseTypeOK, OvertimePause, States
  <2>2. CASE ~OvertimePause
    BY <2>2, SameIf DEF CourseInv, CourseTypeOK, Overtime, OvertimeSend, NoReport,
       ProcEnds, writers
  <2> QED
    BY <2>1, <2>2
<1>4. /\ overtime' \in BOOLEAN /\ broken' \in BOOLEAN /\ lapses' \subseteq Lapses
      /\ lapses \subseteq lapses'
      /\ Pausing' /\ ~Pausing => lapses' # {} \/ ~(Stopping \/ mcr \in freed)
      /\ broken' => mcr \in freed /\ proc.pc \in {"pauseTest", "pauseSet"}
  <2>1. CASE Overtime
    BY <2>1 DEF CourseInv, CourseTypeOK, Overtime, Lapse, Lapses, Pausing, ProcPlace
  <2>2. CASE OvertimePause
    BY <2>2 DEF CourseInv, CourseTypeOK, OvertimePause, Pausing
  <2>3. CASE OvertimeSend \/ NoReport \/ ProcEnds
    BY <2>3 DEF CourseInv, CourseTypeOK, OvertimeSend, NoReport, ProcEnds, Pausing, ProcPlace
  <2> QED
    BY <2>1, <2>2, <2>3
<1>5. CourseTypeOK'
  BY <1>1, <1>2, <1>3, <1>4 DEF CourseInv, CourseTypeOK, Same, queues
<1>6. Sets' /\ Reports' /\ Armed'
  BY <1>1, <1>2, <1>3, ProcTurns DEF Splitting, queues
<1>7. Exclusive'
  <2>1. ASSUME Apart, Pausing' /\ ~Pausing => ~(Stopping \/ mcr \in freed)
        PROVE  Apart'
    <3>1. /\ Over(mcr) => Over(mcr)'
          /\ \A s \in Indexes : wr'[ctl.f][s].pc = wr[ctl.f][s].pc
      BY <1>2, <1>3, SamePlaces, Types DEF CourseInv, CourseTypeOK, Same
    <3>2. Pausing' => ~(Stopping \/ Stopped)
      BY <2>1 DEF Apart
    <3> QED
      BY <1>1, <1>2, <2>1, <3>1 DEF Apart, Using, Stopping, Pausing, Splitting, Stopped
  <2> QED
    BY <1>4, <2>1 DEF CourseInv, Exclusive
<1>8. NoFreedUse'
  <2>1. Apart /\ proc.pc \in {"pauseTest", "pauseSet"} => mcr \notin freed
    BY DEF Apart, Using, Stopping, Pausing, Splitting, Stopped
  <2> QED
    BY <1>4, <2>1 DEF CourseInv, Exclusive, NoFreedUse
<1> QED
  BY <1>5, <1>6, <1>7, <1>8 DEF CourseInv

-----------------------------------------------------------------------------
(* Steps of a writer.                                                      *)

\* A writer that runs belongs to the current set.
LEMMA RunsCurrent ==
    ASSUME CourseInv, NEW f \in Files, NEW s \in Indexes, wr[f][s].pc \in {"run", "empty"}
    PROVE  f = proc.f /\ proc.pc # "start" /\ ~Over(f)
BY Types DEF CourseInv, Sets, Over, Unbegun

LEMMA WriterInv ==
    ASSUME CourseInv, ~broken, NEW f \in Files, NEW s \in Indexes, NEW v \in Thread,
           wr[f][s].pc \in {"run", "empty"}, v.pc # "none", v.size >= wr[f][s].size,
           wr' = [wr EXCEPT ![f] = [wr[f] EXCEPT ![s] = v]],
           data' \in [Indexes -> 0 .. DataCap], dropped' \in BOOLEAN,
           \/ UNCHANGED que
           \/ /\ que' = Append(que, [f |-> f, s |-> s, size |-> v.size])
              /\ Len(que) < QueCap /\ v.pc = "run" /\ wr[f][s].pc = "run"
              /\ v.size \in 1 .. Limit + 1,
           ops' \in 0 .. MaxOps,
           UNCHANGED <<feed, freed, mcr, rs, course, ctl, print, pclose, broken, lapses>>
    PROVE  CourseInv'
<1> CourseTypeOK /\ Sets /\ Reports /\ Armed
  BY DEF CourseInv
<1>1. /\ wr' \in [Files -> [Indexes -> Thread]] /\ wr'[f][s] = v
      /\ \A g \in Files, q \in Indexes : g # f \/ q # s => wr'[g][q] = wr[g][q]
  <2>1. wr \in [Files -> [Indexes -> Thread]] /\ wr[f] \in [Indexes -> Thread]
    BY DEF CourseTypeOK
  <2> QED
    BY <2>1
<1>2. f = proc.f /\ proc.pc # "start" /\ ~Over(f)
  BY RunsCurrent
<1>3. \A g \in Files, q \in Indexes :
        /\ wr[g][q].pc = "over" => wr'[g][q] = wr[g][q]
        /\ wr[g][q].pc # "none" => wr'[g][q].pc # "none"
        /\ g # f => wr'[g][q] = wr[g][q]
        /\ wr'[g][q].pc = "over" \/ wr'[g][q].size >= wr[g][q].size
  <2>1. \A w \in Thread : w.size \in Nat
    BY DEF Thread
  <2>2. \A g \in Files, q \in Indexes : wr[g][q].size \in Nat
    BY <2>1, Types
  <2>3. wr[f][s].pc # "over" /\ wr'[f][s].size >= wr[f][s].size /\ wr'[f][s].pc # "none"
    BY <1>1
  <2> QED
    BY <1>1, <2>2, <2>3
<1>4. \A g \in Files : (Over(g) => Over(g)') /\ (g # f /\ Unbegun(g) => Unbegun(g)')
  BY DEF Over, Unbegun
<1>5. que' \in Seq(SizeReport) /\ Len(que') <= QueCap
  <2>1. CASE UNCHANGED que
    BY <2>1 DEF CourseInv, CourseTypeOK
  <2>2. CASE ~UNCHANGED que
    <3>1. [f |-> f, s |-> s, size |-> v.size] \in SizeReport
      BY <2>2 DEF SizeReport
    <3>2. que \in Seq(SizeReport) /\ Len(que) < QueCap
      BY <2>2 DEF CourseInv, CourseTypeOK
    <3> DEFINE r == [f |-> f, s |-> s, size |-> v.size]
    <3>3. que' = Append(que, r) /\ r \in SizeReport
      BY <2>2, <3>1
    <3> HIDE DEF r
    <3> QED
      BY <3>2, <3>3, RecAssumption
  <2> QED
    BY <2>1, <2>2
<1>6. CourseTypeOK'
  BY <1>5 DEF CourseInv, CourseTypeOK, course, control
<1>7. Sets'
  <2>1. proc.f \in Files /\ UNCHANGED <<proc, mcr, ctl, broken>>
    BY Types DEF CourseInv, course, control
  <2>2. Sets
    BY DEF CourseInv
  <2> QED
    BY <1>2, <1>4, <2>1, <2>2 DEF Sets
<1>8. \A i \in 1 .. Len(que) :
        \/ wr'[que[i].f][que[i].s].pc = "over"
        \/ que[i].size <= wr'[que[i].f][que[i].s].size
  <2>1. ASSUME NEW i \in 1 .. Len(que)
        PROVE  \/ wr'[que[i].f][que[i].s].pc = "over"
               \/ que[i].size <= wr'[que[i].f][que[i].s].size
    <3>1. que[i].f \in Files /\ que[i].s \in Indexes /\ que[i].size \in Nat
      <4>1. \A n \in 1 .. Limit + 1 : n \in Nat
        BY RecAssumption
      <4> QED
        BY <4>1, Types
    <3>2. \A g \in Files, q \in Indexes : wr[g][q].size \in Nat /\ wr'[g][q].size \in Nat
      <4>1. \A w \in Thread : w.size \in Nat
        BY DEF Thread
      <4> QED
        BY <4>1, Types DEF CourseInv
    <3>3. wr[que[i].f][que[i].s].pc = "over" \/ que[i].size <= wr[que[i].f][que[i].s].size
      BY DEF CourseInv, Reports
    <3> QED
      BY <3>1, <3>2, <3>3
  <2> QED
    BY <2>1
<1>9. Reports'
  <2>1. CASE UNCHANGED que
    BY <1>8, <2>1 DEF CourseInv, Reports, course
  <2>2. CASE ~UNCHANGED que
    <3>1. /\ Len(que') = Len(que) + 1 /\ Len(que) \in Nat
          /\ \A i \in 1 .. Len(que) : que'[i] = que[i]
          /\ que'[Len(que) + 1] = [f |-> f, s |-> s, size |-> v.size]
      BY <2>2
    <3>2. \A i \in 1 .. Len(que) : que[i].f = f /\ que[i].s = s => que[i].size <= v.size
      BY <1>1, <1>8, <2>2
    <3>3. \A i \in 1 .. Len(que) : que[i].f <= f
      BY <1>2 DEF CourseInv, Reports
    <3>4. f <= f /\ v.size <= v.size /\ v.size <= wr'[f][s].size
      <4>1. f \in Nat /\ v.size \in Nat
        BY DEF Files, Thread
      <4> QED
        BY <1>1, <4>1
    <3> DEFINE m == Len(que)
    <3>5. /\ \A i \in 1 .. m + 1 : i \in 1 .. m \/ i = m + 1
          /\ \A i \in 1 .. m : ~(m + 1 <= i)
      OBVIOUS
    <3> HIDE DEF m
    <3>6. Reports
      BY DEF CourseInv
    <3>7. UNCHANGED proc
      BY DEF course
    <3>8. \A i \in 1 .. m + 1 : que'[i].f <= proc.f
      BY <1>2, <3>1, <3>3, <3>4 DEF m
    <3>9. \A i, j \in 1 .. m + 1 : i <= j => que'[i].f <= que'[j].f
      BY <3>1, <3>3, <3>4, <3>6 DEF m, Reports
    <3>10. \A i, j \in 1 .. m + 1 :
             i <= j /\ que'[i].f = que'[j].f /\ que'[i].s = que'[j].s =>
                 que'[i].size <= que'[j].size
      <4>1. \A i, j \in 1 .. m :
              i <= j /\ que[i].f = que[j].f /\ que[i].s = que[j].s => que[i].size <= que[j].size
        BY <3>6 DEF m, Reports
      <4>2. /\ \A i \in 1 .. m : que'[i] = que[i]
            /\ que'[m + 1].f = f /\ que'[m + 1].s = s /\ que'[m + 1].size = v.size
        BY <3>1 DEF m
      <4>3. \A i \in 1 .. m : que[i].f = f /\ que[i].s = s => que[i].size <= v.size
        BY <3>2 DEF m
      <4> QED
        BY <3>4, <3>5, <4>1, <4>2, <4>3
    <3>11. \A i \in 1 .. m + 1 :
             \/ wr'[que'[i].f][que'[i].s].pc = "over"
             \/ que'[i].size <= wr'[que'[i].f][que'[i].s].size
      BY <1>8, <3>1, <3>4 DEF m
    <3> QED
      BY <1>2, <3>1, <3>7, <3>8, <3>9, <3>10, <3>11 DEF m, Reports
  <2> QED
    BY <2>1, <2>2
<1>10. Armed'
  <2>1. Splitting => wr'[proc.f][last].pc = "over" \/ wr'[proc.f][last].size >= Limit
    <3>1. Limit \in Nat /\ proc.f \in Files /\ (Splitting => last \in Indexes)
      BY Types, RecAssumption DEF Armed
    <3>2. \A w \in Thread : w.size \in Nat
      BY DEF Thread
    <3>3. \A q \in Indexes : wr[proc.f][q].size \in Nat /\ wr'[proc.f][q].size \in Nat
      BY <1>1, <3>1, <3>2, Types
    <3>4. Splitting => wr[proc.f][last].pc = "over" \/ wr[proc.f][last].size >= Limit
      BY <1>2 DEF Armed
    <3>5. \A q \in Indexes :
            /\ wr[proc.f][q].pc = "over" => wr'[proc.f][q].pc = "over"
            /\ wr'[proc.f][q].pc = "over" \/ wr'[proc.f][q].size >= wr[proc.f][q].size
      BY <1>3, <3>1
    <3> QED
      BY <3>1, <3>3, <3>4, <3>5
  <2>2. Splitting /\ s = last /\ wr'[f][s].pc # "over" => v.size >= Limit
    BY <1>1, <1>2, <2>1
  <2>3. UNCHANGED <<proc, flag, last>> /\ Armed /\ (Splitting <=> Splitting')
    BY DEF CourseInv, course, Splitting
  <2>4. CASE UNCHANGED que
    BY <2>1, <2>3, <2>4 DEF Armed
  <2>5. CASE ~UNCHANGED que
    <3>1. /\ Len(que') = Len(que) + 1 /\ Len(que) \in Nat
          /\ \A i \in 1 .. Len(que) : que'[i] = que[i]
          /\ que'[Len(que) + 1] = [f |-> f, s |-> s, size |-> v.size]
      BY <2>5
    <3>2. \A i \in 1 .. Len(que) + 1 : i \in 1 .. Len(que) \/ i = Len(que) + 1
      OBVIOUS
    <3>3. wr'[f][s].pc # "over" /\ ~(f < proc.f)
      BY <1>2, <2>5, Types DEF CourseInv
    <3>4. flag => \A i \in 1 .. Len(que') : que'[i].f = proc.f
      BY <1>2, <2>3 DEF Armed
    <3>5. Splitting \/ ~flag => \A i \in 1 .. Len(que') :
            que'[i].s = last /\ (Splitting \/ que'[i].f < proc.f) => que'[i].size >= Limit
      BY <2>2, <2>3, <3>3 DEF Armed
    <3> QED
      BY <2>1, <2>3, <3>4, <3>5 DEF Armed
  <2> QED
    BY <2>4, <2>5
<1>11. Exclusive'
  <2>1. ASSUME Apart PROVE Apart'
    <3>1. ctl.f \in Files /\ mcr \in Files /\ UNCHANGED <<proc, ctl, mcr, freed, print>>
      BY Types DEF CourseInv, CourseTypeOK, course, control
    <3>2. /\ Over(mcr) => Over(mcr)'
          /\ \A q \in Indexes : wr[ctl.f][q].pc = "over" => wr'[ctl.f][q].pc = "over"
      BY <1>4, <3>1
    <3> QED
      BY <2>1, <3>1, <3>2 DEF Apart, Using, Stopping, Pausing, Splitting, Stopped
  <2> QED
    BY <2>1 DEF CourseInv, Exclusive
<1>12. NoFreedUse'
  BY DEF NoFreedUse
<1> QED
  BY <1>6, <1>7, <1>9, <1>10, <1>11, <1>12 DEF CourseInv

LEMMA WritersInv ==
    ASSUME CourseInv, ~broken, NEW f \in Files, NEW s \in Indexes, Writer(f, s)
    PROVE  CourseInv'
<1>1. wr[f][s] \in Thread /\ wr \in [Files -> [Indexes -> Thread]]
  BY DEF CourseInv, CourseTypeOK
<1>2. (\A w \in Thread : w.size \in Nat) /\ ops \in 0 .. MaxOps
  BY DEF Thread, CourseInv, CourseTypeOK
<1>3. CASE WriteFrame(f, s)
  <2> DEFINE v == [wr[f][s] EXCEPT !.size = @ + 1]
  <2>1. /\ v \in Thread /\ v.pc = "run" /\ v.size = wr[f][s].size + 1
        /\ v.size \in 1 .. Limit + 1 /\ v.size >= wr[f][s].size
    <3>1. wr[f][s].pc = "run" /\ wr[f][s].size < Limit + 1 /\ wr[f][s].size \in Nat
      BY <1>1, <1>2, <1>3, RecAssumption DEF WriteFrame
    <3>2. v.pc = wr[f][s].pc /\ v.size = wr[f][s].size + 1
      OBVIOUS
    <3>3. v.size \in 1 .. Limit + 1 /\ v.size >= wr[f][s].size
      BY <3>1, RecAssumption
    <3>4. v \in Thread
      BY <1>1, <3>3 DEF Thread
    <3> QED
      BY <3>1, <3>3, <3>4
  <2>2. wr' = [wr EXCEPT ![f] = [wr[f] EXCEPT ![s] = v]]
    BY <1>3 DEF WriteFrame
  <2>3. data' \in [Indexes -> 0 .. DataCap] /\ dropped' \in BOOLEAN
    <3>1. data \in [Indexes -> 0 .. DataCap] /\ dropped \in BOOLEAN
      BY DEF CourseInv, CourseTypeOK
    <3>2. data[s] - 1 \in 0 .. DataCap /\ data' = [data EXCEPT ![s] = @ - 1]
      BY <1>3, <3>1, RecAssumption DEF WriteFrame
    <3>3. dropped' \in BOOLEAN
      BY <1>3, <3>1 DEF WriteFrame
    <3> QED
      BY <3>1, <3>2, <3>3
  <2>4. \/ UNCHANGED que
        \/ /\ que' = Append(que, [f |-> f, s |-> s, size |-> v.size])
           /\ Len(que) < QueCap
    BY <1>3 DEF WriteFrame
  <2> HIDE DEF v
  <2>5. wr[f][s].pc = "run"
    BY <1>3 DEF WriteFrame
  <2> QED
    BY <1>2, <1>3, <2>1, <2>2, <2>3, <2>4, WriterInv DEF WriteFrame, control
<1>4. CASE SkipFrame(f, s)
  BY <1>4, SkipFrameInv
<1>5. CASE NoFrame(f, s)
  <2> DEFINE v == [wr[f][s] EXCEPT !.pc = "empty"]
  <2>1. v \in Thread /\ v.pc = "empty" /\ v.size >= wr[f][s].size
    BY <1>1 DEF Thread
  <2>2. wr' = [wr EXCEPT ![f] = [wr[f] EXCEPT ![s] = v]] /\ wr[f][s].pc \in {"run", "empty"}
    BY <1>5 DEF NoFrame
  <2>3. data \in [Indexes -> 0 .. DataCap] /\ dropped \in BOOLEAN
    BY DEF CourseInv, CourseTypeOK
  <2> HIDE DEF v
  <2> QED
    BY <1>2, <1>5, <2>1, <2>2, <2>3, WriterInv DEF NoFrame, queues, control
<1>6. CASE Look(f, s)
  <2> DEFINE v == [wr[f][s] EXCEPT !.pc = IF wr[f][s].rs = "CLOSE" THEN "over" ELSE "run"]
  <2>1. v \in Thread /\ v.pc # "none" /\ v.size >= wr[f][s].size
    BY <1>1 DEF Thread
  <2>2. wr' = [wr EXCEPT ![f] = [wr[f] EXCEPT ![s] = v]] /\ wr[f][s].pc \in {"run", "empty"}
    BY <1>6 DEF Look
  <2>3. data' \in [Indexes -> 0 .. DataCap] /\ dropped' \in BOOLEAN
    BY <1>6 DEF CourseInv, CourseTypeOK, Look, queues
  <2>4. UNCHANGED <<que, feed, freed, mcr, rs, course, control, print, pclose, broken,
                    lapses>>
    BY <1>6 DEF Look, queues
  <2> HIDE DEF v
  <2> QED
    BY <1>2, <2>1, <2>2, <2>3, <2>4, WriterInv DEF control
<1> QED
  BY <1>3, <1>4, <1>5, <1>6 DEF Writer

\* A writer that gives up is over before a frame was written.
LEMMA GiveUpInv ==
    ASSUME CourseInv, ~broken, NEW f \in Files, NEW s \in Indexes, GiveUp(f, s)
    PROVE  CourseInv'
<1> DEFINE v == [wr[f][s] EXCEPT !.pc = "over"]
<1>1. wr[f][s] \in Thread /\ data \in [Indexes -> 0 .. DataCap] /\ ops \in 0 .. MaxOps
      /\ dropped \in BOOLEAN
  BY DEF CourseInv, CourseTypeOK
<1>2. v \in Thread /\ v.pc = "over" /\ v.size >= wr[f][s].size
  BY <1>1 DEF Thread
<1>3. wr' = [wr EXCEPT ![f] = [wr[f] EXCEPT ![s] = v]] /\ wr[f][s].pc = "run"
  BY DEF GiveUp
<1>4. data' \in [Indexes -> 0 .. DataCap] /\ ops' \in 0 .. MaxOps
  <2>1. data[s] - 1 \in 0 .. DataCap /\ data' = [data EXCEPT ![s] = @ - 1]
    BY <1>1, RecAssumption DEF GiveUp
  <2>2. ops' \in 0 .. MaxOps
    BY <1>1, RecAssumption DEF GiveUp
  <2> QED
    BY <1>1, <2>1, <2>2
<1>5. UNCHANGED <<feed, que, dropped, freed, mcr, rs, course, ctl, print, pclose, broken,
                  lapses>>
  BY DEF GiveUp
<1> HIDE DEF v
<1> QED
  BY <1>1, <1>2, <1>3, <1>4, <1>5, WriterInv

-----------------------------------------------------------------------------
(* Steps of a split.                                                       *)

\* What is taken from the report queue is about the current set whenever it splits.
LEMMA TakeCurrent ==
    ASSUME CourseInv, Take
    PROVE  /\ ~Splitting /\ proc'.f = proc.f /\ proc' \in ProcPlace
           /\ Head(que) = que[1] /\ que[1] \in SizeReport /\ 1 \in 1 .. Len(que)
           /\ flag' => \A i \in 1 .. Len(que) : que[i].f = proc.f
           /\ flag => flag'
           /\ \/ proc'.pc = "loop" /\ last' = last
              \/ /\ proc'.pc = "lock" /\ proc'.s = 1 /\ flag'
                 /\ que[1].size >= Limit /\ last' = que[1].s
<1>1. que # <<>> /\ que \in Seq(SizeReport) /\ proc \in ProcPlace /\ 1 \in Indexes
  BY RecAssumption DEF CourseInv, CourseTypeOK, Take, Indexes
<1>2. Head(que) = que[1] /\ que[1] \in SizeReport /\ 1 \in 1 .. Len(que)
  BY <1>1
<1>3. ~Splitting /\ proc.pc # "start"
  BY DEF Take, Splitting
<1>4. /\ proc'.f = proc.f /\ proc' \in ProcPlace
      /\ \/ proc'.pc = "loop" /\ last' = last
         \/ /\ proc'.pc = "lock" /\ proc'.s = 1 /\ flag'
            /\ que[1].size >= Limit /\ last' = que[1].s
  BY <1>1, <1>2 DEF Take, ProcPlace
<1>5. flag \/ (flag' => que[1].size < Limit /\ que[1].s = last)
  BY <1>2 DEF Take
<1>6. flag => flag'
  BY DEF Take
<1>7. CASE flag
  BY <1>2, <1>3, <1>4, <1>6, <1>7 DEF CourseInv, Armed
<1>8. CASE ~flag
  <2>1. ASSUME flag', NEW i \in 1 .. Len(que)
        PROVE  que[i].f = proc.f
    <3>1. que[1].size \in Nat /\ que[1].f \in Nat /\ que[i].f \in Nat /\ proc.f \in Nat /\ 1 <= i
      BY Types DEF CourseInv
    <3>2. ~(que[1].f < proc.f)
      BY <1>5, <1>8, <2>1, <3>1, RecAssumption DEF CourseInv, Armed
    <3>3. que[1].f <= que[i].f /\ que[i].f <= proc.f
      BY DEF CourseInv, Reports
    <3> QED
      BY <3>1, <3>2, <3>3
  <2> QED
    BY <1>2, <1>3, <1>4, <1>8, <2>1
<1> QED
  BY <1>7, <1>8

LEMMA TakeInv ==
    ASSUME CourseInv, ~broken, Take
    PROVE  CourseInv'
<1>1. /\ que \in Seq(SizeReport) /\ que # <<>> /\ que' = Tail(que) /\ flag' \in BOOLEAN
      /\ last' \in 0 .. N /\ (Splitting' => last' \in Indexes)
  <2>1. \A s \in Indexes : s \in 0 .. N
    BY DEF Indexes
  <2>2. flag' \in BOOLEAN
    BY DEF Take
  <2> QED
    BY TakeCurrent, Types DEF CourseInv, CourseTypeOK, Take, Splitting
<1>2. /\ que' \in Seq(SizeReport) /\ Len(que') = Len(que) - 1 /\ Len(que) \in Nat
      /\ \A i \in 1 .. Len(que') : i + 1 \in 1 .. Len(que) /\ que'[i] = que[i + 1]
      /\ \A i, j \in 1 .. Len(que') : i <= j => i + 1 <= j + 1
      /\ \A i \in 1 .. Len(que) : 1 <= i
  BY <1>1
<1>3. /\ UNCHANGED <<wr, mcr, freed, ctl, print, broken, rs>> /\ lapses \subseteq lapses'
      /\ lapses' \subseteq Lapses
      /\ proc'.pc = "lock" => lapses' # {} \/ ~(Using \/ mcr \in freed)
  <2>1. UNCHANGED <<wr, mcr, freed, ctl, print, broken, rs>>
    BY DEF Take, writers, control
  <2>2. IF proc'.pc = "lock" THEN Lapse(TRUE) ELSE UNCHANGED lapses
    BY DEF Take
  <2>3. lapses \subseteq Lapses
    BY DEF CourseInv, CourseTypeOK
  <2> QED
    BY <2>1, <2>2, <2>3 DEF Lapse, Lapses
<1>4. CourseTypeOK'
  <2>1. Len(que') <= QueCap
    BY <1>2, RecAssumption DEF CourseInv, CourseTypeOK
  <2>2. UNCHANGED <<feed, data, overtime, pclose, ops, dropped>>
    BY DEF Take, control
  <2>3. proc' \in ProcPlace
    BY TakeCurrent
  <2> QED
    BY <1>1, <1>3, <2>1, <2>2, <2>3 DEF CourseInv, CourseTypeOK
<1>5. Sets'
  <2>1. Sets /\ ~Splitting /\ proc'.f = proc.f /\ proc'.pc \in {"loop", "lock"}
        /\ (proc'.pc = "lock" => proc'.s = 1)
    BY TakeCurrent DEF CourseInv
  <2>2. \A f \in Files : (Over(f) => Over(f)') /\ (Unbegun(f) => Unbegun(f)')
    BY <1>3 DEF Over, Unbegun
  <2> QED
    BY <1>3, <2>1, <2>2 DEF Sets, Splitting
<1>6. Reports'
  <2>1. proc'.f = proc.f /\ proc'.pc # "start" /\ Reports
    BY TakeCurrent DEF CourseInv
  <2> DEFINE n == Len(que')
  <2>2. /\ \A i \in 1 .. n : que'[i].f <= proc'.f
        /\ \A i, j \in 1 .. n : i <= j => que'[i].f <= que'[j].f
    BY <1>2, <2>1 DEF Reports
  <2>3. \A i, j \in 1 .. n :
          i <= j /\ que'[i].f = que'[j].f /\ que'[i].s = que'[j].s =>
              que'[i].size <= que'[j].size
    BY <1>2, <2>1 DEF Reports
  <2>4. \A i \in 1 .. n :
          \/ wr'[que'[i].f][que'[i].s].pc = "over"
          \/ que'[i].size <= wr'[que'[i].f][que'[i].s].size
    BY <1>2, <1>3, <2>1 DEF Reports
  <2> QED
    BY <2>1, <2>2, <2>3, <2>4 DEF Reports
<1>7. Armed'
  <2>1. /\ ~Splitting /\ proc'.f = proc.f /\ Armed /\ proc'.pc # "start"
        /\ Splitting' => flag' /\ que[1].size >= Limit /\ last' = que[1].s
        /\ ~Splitting' => last' = last
        /\ flag' => \A i \in 1 .. Len(que') : que'[i].f = proc'.f
        /\ flag => flag'
    BY <1>2, TakeCurrent DEF CourseInv, Splitting
  <2>2. CASE Splitting'
    <3>1. ASSUME NEW i \in 1 .. Len(que'), que'[i].s = last'
          PROVE  que'[i].size >= Limit
      <4>1. /\ i + 1 \in 1 .. Len(que) /\ 1 \in 1 .. Len(que) /\ 1 <= i + 1
            /\ que[i + 1].f = proc.f /\ que[1].f = proc.f /\ que[i + 1].s = que[1].s
        BY <1>2, <2>1, <2>2, <3>1, TakeCurrent
      <4>2. que[1].size <= que[i + 1].size
        BY <4>1 DEF CourseInv, Reports
      <4>3. que[1].size \in Nat /\ que[i + 1].size \in Nat /\ que'[i] = que[i + 1]
        <5>1. \A k \in 1 .. Len(que) : que[k].size \in Nat
          BY Types DEF CourseInv
        <5>2. 1 \in 1 .. Len(que) /\ i + 1 \in 1 .. Len(que) /\ que'[i] = que[i + 1]
          BY <1>2
        <5> QED
          BY <5>1, <5>2
      <4> QED
        BY <2>1, <2>2, <4>2, <4>3, RecAssumption
    <3>2. wr'[proc'.f][last'].pc = "over" \/ wr'[proc'.f][last'].size >= Limit
      <4>1. 1 \in 1 .. Len(que) /\ que[1].f = proc.f /\ proc.f \in Files /\ que[1].s \in Indexes
            /\ que[1].size \in Nat
        BY <2>1, <2>2, TakeCurrent, Types DEF CourseInv
      <4>2. wr[proc.f][que[1].s].pc = "over" \/ que[1].size <= wr[proc.f][que[1].s].size
        BY <4>1 DEF CourseInv, Reports
      <4>3. wr[proc.f][que[1].s].size \in Nat
        BY <4>1, Types DEF CourseInv, Thread
      <4> QED
        BY <1>3, <2>1, <2>2, <4>1, <4>2, <4>3, RecAssumption
    <3> QED
      BY <1>1, <2>1, <3>1, <3>2 DEF Armed
  <2>3. CASE ~Splitting'
    BY <1>2, <2>1, <2>3 DEF Armed
  <2> QED
    BY <2>2, <2>3
<1>8. Exclusive'
  <2>1. ASSUME Apart, proc'.pc = "lock" => ~(Using \/ mcr \in freed)
        PROVE  Apart'
    <3>1. proc.pc \in {"loop", "recv"} /\ proc'.pc \in {"loop", "lock"}
      BY DEF Take
    <3>2. Over(mcr) => Over(mcr)'
      BY <1>3 DEF Over
    <3> QED
      BY <1>3, <2>1, <3>1, <3>2 DEF Apart, Using, Stopping, Pausing, Splitting, Stopped
  <2> QED
    BY <1>3, <2>1 DEF CourseInv, Exclusive
<1>9. NoFreedUse'
  BY <1>3 DEF NoFreedUse
<1> QED
  BY <1>4, <1>5, <1>6, <1>7, <1>8, <1>9 DEF CourseInv

\* Writers of the current set are closed and joined one by one.
LEMMA SplitClosesInv ==
    ASSUME CourseInv, ~broken, SplitLock \/ SplitClose \/ SplitJoin
    PROVE  CourseInv'
<1>1. proc \in ProcPlace /\ proc.s \in Indexes /\ 1 \in Indexes
      /\ (proc.s < N => proc.s + 1 \in Indexes) /\ (~(proc.s < N) => proc.s = N)
      /\ (proc.pc = "lock" => proc.s = 1)
  <2>1. CourseTypeOK /\ Sets
    BY DEF CourseInv
  <2>2. proc \in ProcPlace /\ proc.s \in Indexes /\ (proc.pc = "lock" => proc.s = 1)
    BY <2>1, Types DEF CourseTypeOK, Sets
  <2> QED
    BY <2>2, RecAssumption DEF Indexes
<1>2. /\ proc' \in ProcPlace /\ proc'.f = proc.f /\ proc'.pc \in {"close", "join", "free"}
      /\ proc.pc \in {"lock", "close", "join"}
      /\ \/ proc.pc = "lock" /\ proc'.pc = "close" /\ proc'.s = 1
         \/ proc.pc = "close" /\ proc'.pc = "join" /\ proc'.s = proc.s
         \/ /\ proc.pc = "join" /\ wr[proc.f][proc.s].pc = "over"
            /\ \/ proc'.pc = "close" /\ proc'.s = proc.s + 1
               \/ proc'.pc = "free" /\ proc.s = N
  <2>1. CASE SplitLock
    BY <1>1, <2>1 DEF SplitLock, ProcPlace
  <2>2. CASE SplitClose
    BY <1>1, <2>2 DEF SplitClose, ProcPlace
  <2>3. CASE SplitJoin
    <3>1. CASE proc.s < N
      BY <1>1, <2>3 DEF SplitJoin, ProcPlace
    <3>2. CASE ~(proc.s < N)
      BY <1>1, <2>3 DEF SplitJoin, ProcPlace
    <3> QED
      BY <3>1, <3>2
  <2> QED
    BY <2>1, <2>2, <2>3
<1>3. Same
  BY SameIf, Types DEF CourseInv, SplitLock, SplitClose, SplitJoin, writers, States
<1>4. /\ broken' \in BOOLEAN /\ (broken' => proc.f \in freed)
      /\ UNCHANGED <<queues, freed, mcr, rs, flag, last, overtime, control, print, pclose,
                    lapses>>
  <2>1. CASE SplitLock \/ SplitJoin
    BY <2>1 DEF CourseInv, CourseTypeOK, SplitLock, SplitJoin, writers
  <2>2. CASE SplitClose
    BY <2>2 DEF SplitClose
  <2> QED
    BY <2>1, <2>2
<1>5. CourseTypeOK'
  BY <1>2, <1>3, <1>4 DEF CourseInv, CourseTypeOK, Same, queues, control
<1>6. Reports' /\ Armed'
  BY <1>2, <1>3, <1>4, ProcSplits DEF Splitting, queues, control
<1>7. Sets'
  <2>1. Sets /\ proc.f \in Files
    BY Types DEF CourseInv
  <2>2. \A f \in Files : (Over(f) => Over(f)') /\ (Unbegun(f) => Unbegun(f)')
    BY <1>3, SamePlaces
  <2>3. \A s \in Indexes : wr'[proc.f][s].pc = wr[proc.f][s].pc
    BY <1>3, <2>1 DEF Same
  <2>4. \A s \in Indexes :
          proc.pc = "join" /\ (s < proc.s \/ s = proc.s) => wr[proc.f][s].pc = "over"
    BY <1>2, <2>1 DEF Sets
  <2>5. proc'.pc \in {"close", "join"} =>
          \A s \in Indexes : s < proc'.s => wr'[proc.f][s].pc = "over"
    <3>1. CourseTypeOK
      BY DEF CourseInv
    <3>2. \A s \in Indexes : s < proc.s + 1 => s < proc.s \/ s = proc.s
      BY <1>1, <3>1, Types
    <3>3. \A s \in Indexes : ~(s < 1)
      BY <3>1, Types
    <3> QED
      BY <1>1, <1>2, <2>1, <2>3, <2>4, <3>2, <3>3 DEF Sets
  <2>6. proc'.pc = "free" => Over(proc.f)'
    BY <1>2, <2>3, <2>4, Types DEF CourseInv, Over
  <2> QED
    BY <1>2, <1>4, <2>1, <2>2, <2>3, <2>5, <2>6 DEF Sets, control
<1>8. Exclusive'
  <2>1. ASSUME Apart PROVE Apart'
    BY <1>2, <1>4, <2>1 DEF Apart, Using, Stopping, Pausing, Splitting, Stopped, control
  <2> QED
    BY <1>4, <2>1 DEF CourseInv, Exclusive
<1>9. NoFreedUse'
  <2>1. Apart => proc.f \notin freed
    BY <1>2 DEF CourseInv, Sets, Apart, Using, Stopping, Pausing, Splitting, Stopped
  <2> QED
    BY <1>4, <2>1 DEF CourseInv, Exclusive, NoFreedUse
<1> QED
  BY <1>5, <1>6, <1>7, <1>8, <1>9 DEF CourseInv

\* The writers of the current set are freed: all are over.
LEMMA SplitFreeInv ==
    ASSUME CourseInv, ~broken, SplitFree
    PROVE  CourseInv'
<1>1. /\ proc' \in ProcPlace /\ proc'.f = proc.f /\ proc'.pc = "register" /\ proc.pc = "free"
      /\ proc.f \in Files /\ last \in Indexes
      /\ UNCHANGED <<que, mcr, flag, last, ctl, print, lapses>>
  BY DEF CourseInv, CourseTypeOK, ProcPlace, SplitFree, Armed, Splitting, queues,
     control
<1>2. Freed \in [Indexes -> Thread] /\ \A s \in Indexes : Freed[s].pc = "over"
  BY RecAssumption DEF Freed, Thread, States
<1>3. /\ wr' \in [Files -> [Indexes -> Thread]] /\ wr'[proc.f] = Freed
      /\ \A g \in Files : g # proc.f => wr'[g] = wr[g]
  BY <1>1, <1>2, PutSet DEF CourseInv, SplitFree
<1>4. CourseTypeOK'
  BY <1>1, <1>3 DEF CourseInv, CourseTypeOK, SplitFree, queues, control
<1>5. Sets'
  <2>1. Sets /\ \A f \in Files : (Over(f) => Over(f)') /\ (Unbegun(f) /\ f # proc.f => Unbegun(f)')
    BY <1>2, <1>3 DEF CourseInv, Over, Unbegun
  <2>2. Over(proc.f)' /\ \A s \in Indexes : wr'[proc.f][s].pc # "none"
    BY <1>1, <1>2, <1>3 DEF Over
  <2>3. \A f \in Files : f > proc.f => f # proc.f
    BY Types DEF CourseInv
  <2> QED
    BY <1>1, <2>1, <2>2, <2>3 DEF Sets
<1>6. Reports' /\ Armed'
  <2>1. \A f \in Files, s \in Indexes : wr'[f][s].pc = "over" \/ wr'[f][s] = wr[f][s]
    BY <1>2, <1>3
  <2>2. \A i \in 1 .. Len(que) :
            \/ wr'[que[i].f][que[i].s].pc = "over"
            \/ que[i].size <= wr'[que[i].f][que[i].s].size
    BY <2>1, Types DEF CourseInv, Reports
  <2>3. Reports'
    BY <1>1, <2>2 DEF CourseInv, Reports
  <2>4. Armed'
    BY <1>1, <2>1 DEF CourseInv, Armed, Splitting
  <2> QED
    BY <2>3, <2>4
<1>7. Exclusive'
  <2>1. ASSUME Apart PROVE Apart'
    <3>1. ~Using /\ ~Stopped /\ mcr = proc.f /\ freed' = freed \cup {mcr} /\ mcr \in Nat
      BY <2>1, Types DEF CourseInv, Sets, Apart, Splitting, Stopped, SplitFree
    <3> QED
      BY <1>1, <2>1, <3>1 DEF Apart, Using, Stopping, Pausing, Splitting, Stopped
  <2> QED
    BY <1>1, <2>1 DEF CourseInv, Exclusive
<1>8. NoFreedUse'
  <2>1. Apart => proc.f \notin freed
    BY <1>1 DEF CourseInv, Sets, Apart, Using, Stopping, Pausing, Splitting, Stopped
  <2>2. ~Busy(proc.f)
    BY <1>1 DEF CourseInv, Sets, Over, Busy
  <2>3. broken' => proc.f \in freed
    BY <2>2 DEF SplitFree
  <2> QED
    BY <1>1, <2>1, <2>3 DEF CourseInv, Exclusive, NoFreedUse
<1> QED
  BY <1>4, <1>5, <1>6, <1>7, <1>8 DEF CourseInv

\* New writers are registered and take the place of those that were freed.
LEMMA SplitRegisterInv ==
    ASSUME CourseInv, ~broken, SplitRegister
    PROVE  CourseInv'
<1>1. /\ proc' \in ProcPlace /\ proc'.f = proc.f + 1 /\ mcr' = proc.f + 1 /\ proc'.pc = "start"
      /\ proc.pc = "register" /\ proc.f \in Files /\ proc.f + 1 \in Files /\ proc.f \in Nat
      /\ mcr = proc.f /\ Over(proc.f) /\ flag /\ last \in Indexes
  <2>1. proc \in ProcPlace /\ proc.f \in Files /\ proc.f + 1 \in Files /\ proc.f \in Nat
    <3>1. proc \in ProcPlace /\ proc.f \in Files /\ proc.f \in Nat /\ proc.f < MaxFile
      BY Types DEF CourseInv, CourseTypeOK, SplitRegister
    <3> QED
      BY <3>1, RecAssumption DEF Files
  <2> QED
    BY <2>1 DEF CourseInv, Sets, Armed, Splitting, SplitRegister, ProcPlace
<1>2. UNCHANGED <<queues, wr, freed, rs, flag, last, overtime, control, print, pclose, broken,
                  lapses>>
  BY DEF SplitRegister
<1>3. CourseTypeOK'
  BY <1>1, <1>2 DEF CourseInv, CourseTypeOK, queues, control
<1>4. Sets'
  <2>1. \A f \in Files : (Over(f) => Over(f)') /\ (Unbegun(f) => Unbegun(f)')
    BY <1>2 DEF Over, Unbegun
  <2>2. /\ \A f \in Files : f < proc.f + 1 => f < proc.f \/ f = proc.f
        /\ \A f \in Files : f > proc.f + 1 => f > proc.f
        /\ proc.f + 1 > proc.f /\ proc.f + 1 \in Files
        /\ ctl.f <= proc.f => ctl.f < proc.f + 1 /\ ctl.f <= proc.f + 1
    BY <1>1, Types DEF CourseInv
  <2>3. Sets
    BY DEF CourseInv
  <2>4. /\ \A f \in Files : f < proc'.f => Over(f)'
        /\ \A f \in Files : f > proc'.f => Unbegun(f)'
    BY <1>1, <2>1, <2>2, <2>3 DEF Sets
  <2>5. Unbegun(proc.f)'
    <3>1. Unbegun(proc.f + 1)
      BY <2>2, <2>3 DEF Sets
    <3> QED
      BY <1>1, <1>2, <3>1 DEF Unbegun
  <2> QED
    BY <1>1, <1>2, <2>2, <2>3, <2>4, <2>5 DEF Sets, control
<1>5. Reports'
  <2>1. \A i \in 1 .. Len(que) : que[i].f <= proc.f /\ que[i].f \in Nat
    BY Types DEF CourseInv, Reports
  <2>2. \A i \in 1 .. Len(que) : que[i].f <= proc.f + 1 /\ que[i].f < proc.f + 1
    BY <1>1, <2>1
  <2> QED
    BY <1>1, <1>2, <2>2 DEF CourseInv, Reports, queues
<1>6. Armed'
  <2>1. \A i \in 1 .. Len(que) : que[i].s = last => que[i].size >= Limit
    BY <1>1 DEF CourseInv, Armed, Splitting
  <2> QED
    BY <1>1, <1>2, <2>1 DEF Armed, queues
<1>7. Exclusive'
  <2>1. ASSUME Apart PROVE Apart'
    <3>1. ~Using /\ ~Stopped /\ mcr \in freed
      BY <1>1, <2>1 DEF Apart, Splitting, Stopped
    <3>2. /\ \A f \in freed : f <= proc.f + 1 /\ f # proc.f + 1
          /\ \A f \in Files : f < proc.f + 1 => f < proc.f \/ f = proc.f
      BY <1>1, <2>1, Types DEF CourseInv, CourseTypeOK, Apart
    <3> QED
      BY <1>1, <1>2, <2>1, <3>1, <3>2 DEF Apart, Using, Stopping, Pausing, Splitting, Stopped, control
  <2> QED
    BY <1>2, <2>1 DEF CourseInv, Exclusive
<1>8. NoFreedUse'
  BY <1>2 DEF NoFreedUse
<1> QED
  BY <1>3, <1>4, <1>5, <1>6, <1>7, <1>8 DEF CourseInv

LEMMA SplitFailsInv ==
    ASSUME CourseInv, ~broken, SplitFails
    PROVE  CourseInv'
<1>1. /\ proc' \in ProcPlace /\ proc'.f = proc.f /\ proc'.pc = "over" /\ proc.pc = "register"
      /\ ops' \in 0 .. MaxOps /\ lapses' # {}
  <2>1. proc \in ProcPlace /\ ops \in 0 .. MaxOps
    BY DEF CourseInv, CourseTypeOK
  <2>2. ops' \in 0 .. MaxOps
    BY <2>1, RecAssumption DEF SplitFails
  <2> QED
    BY <2>1, <2>2 DEF ProcPlace, SplitFails
<1>2. UNCHANGED <<queues, writers, flag, last, overtime, ctl, print, pclose, broken>>
  BY DEF SplitFails
<1>3. CourseTypeOK'
  BY <1>1, <1>2 DEF CourseInv, CourseTypeOK, SplitFails, Lapses, queues, writers
<1>4. Sets'
  <2>1. \A f \in Files : (Over(f) => Over(f)') /\ (Unbegun(f) => Unbegun(f)')
    BY <1>2 DEF Over, Unbegun, writers
  <2> QED
    BY <1>1, <1>2, <2>1 DEF CourseInv, Sets, writers
<1>5. Reports' /\ Armed'
  BY <1>1, <1>2 DEF CourseInv, Reports, Armed, Splitting, queues, writers
<1>6. Exclusive' /\ NoFreedUse'
  BY <1>1 DEF Exclusive, NoFreedUse
<1> QED
  BY <1>3, <1>4, <1>5, <1>6 DEF CourseInv

\* The new writers run; from now on reports of the sets before are expected.
LEMMA SplitStartInv ==
    ASSUME CourseInv, ~broken, SplitStart
    PROVE  CourseInv'
<1> DEFINE w == [s \in Indexes |-> [wr[proc.f][s] EXCEPT !.pc = "run"]]
<1>1. /\ proc' \in ProcPlace /\ proc'.f = proc.f /\ proc'.pc = "loop" /\ proc.pc = "start"
      /\ proc.f \in Files /\ last \in Indexes /\ flag' = FALSE
  BY DEF CourseInv, CourseTypeOK, ProcPlace, SplitStart, Armed, Splitting
<1>2. w \in [Indexes -> Thread] /\ \A s \in Indexes : w[s].pc = "run"
  <2>1. \A s \in Indexes : wr[proc.f][s] \in Thread
    BY Types DEF CourseInv
  <2> QED
    BY <2>1 DEF Thread
<1>3. wr' = [wr EXCEPT ![proc.f] = w]
  BY DEF SplitStart
<1> HIDE DEF w
<1>4. /\ wr' \in [Files -> [Indexes -> Thread]] /\ wr'[proc.f] = w
      /\ \A g \in Files : g # proc.f => wr'[g] = wr[g]
  BY <1>1, <1>2, <1>3, PutSet DEF CourseInv
<1>5. UNCHANGED <<queues, freed, mcr, rs, last, overtime, control, print, pclose, broken,
                  lapses>>
  BY DEF SplitStart
<1>6. CourseTypeOK'
  BY <1>1, <1>4, <1>5 DEF CourseInv, CourseTypeOK, queues, control
<1>7. Sets'
  <2>1. \A f \in Files : f # proc.f => (Over(f) => Over(f)') /\ (Unbegun(f) => Unbegun(f)')
    BY <1>4 DEF Over, Unbegun
  <2>2. \A s \in Indexes : wr'[proc.f][s].pc # "none"
    BY <1>2, <1>4
  <2>3. \A f \in Files : f < proc.f \/ f > proc.f => f # proc.f
    BY Types DEF CourseInv
  <2> QED
    BY <1>1, <1>5, <2>1, <2>2, <2>3 DEF CourseInv, Sets, control
<1>8. Reports' /\ Armed'
  <2>1. \A i \in 1 .. Len(que) : que[i].f < proc.f /\ que[i].f # proc.f
    BY <1>1, Types DEF CourseInv, Reports
  <2>2. \A i \in 1 .. Len(que) :
            \/ wr'[que[i].f][que[i].s].pc = "over"
            \/ que[i].size <= wr'[que[i].f][que[i].s].size
    BY <1>4, <2>1, Types DEF CourseInv, Reports
  <2>3. Reports'
    BY <1>1, <1>5, <2>2 DEF CourseInv, Reports, queues
  <2>4. Armed'
    BY <1>1, <1>5 DEF CourseInv, Armed, Splitting, queues
  <2> QED
    BY <2>3, <2>4
<1>9. Exclusive'
  <2>1. ASSUME Apart PROVE Apart'
    <3>1. ~Using /\ ~Stopped
      BY <1>1, <2>1 DEF Apart, Splitting, Stopped
    <3> QED
      BY <1>1, <1>5, <2>1, <3>1 DEF Apart, Using, Stopping, Pausing, Splitting, Stopped, control
  <2> QED
    BY <1>5, <2>1 DEF CourseInv, Exclusive
<1>10. NoFreedUse'
  BY <1>5 DEF NoFreedUse
<1> QED
  BY <1>6, <1>7, <1>8, <1>9, <1>10 DEF CourseInv

-----------------------------------------------------------------------------
(* The theorems about a recording.                                         *)

LEMMA InitCourseInv == CourseInit => CourseInv
<1> SUFFICES ASSUME CourseInit PROVE CourseInv
  OBVIOUS
<1>1. 1 \in Files /\ 1 \in Indexes /\ \A f \in Files : f \in Nat /\ 1 <= f
  BY RecAssumption DEF Files, Indexes
<1>2. CourseTypeOK
  <2>1. \A x \in {Running, NoThread} : x \in Thread
    BY RecAssumption DEF Running, NoThread, Thread, States
  <2>2. wr \in [Files -> [Indexes -> Thread]]
    BY <2>1 DEF CourseInit
  <2>3. que \in Seq(SizeReport) /\ Len(que) <= QueCap /\ data \in [Indexes -> 0 .. DataCap]
    BY RecAssumption DEF CourseInit
  <2>4. proc \in ProcPlace /\ ctl \in CtlPlace
    BY <1>1 DEF CourseInit, ProcPlace, CtlPlace, Idle
  <2>5. /\ feed \in BOOLEAN /\ freed \subseteq Files /\ mcr \in Files /\ rs \in States
        /\ flag \in BOOLEAN /\ overtime \in BOOLEAN /\ print \in {"wait", "lock", "over"}
        /\ pclose \in BOOLEAN /\ broken \in BOOLEAN /\ lapses \subseteq Lapses /\ dropped \in BOOLEAN
    BY <1>1 DEF CourseInit, States
  <2>6. last \in 0 .. N /\ ops \in 0 .. MaxOps
    BY RecAssumption DEF CourseInit
  <2> QED
    BY <2>2, <2>3, <2>4, <2>5, <2>6 DEF CourseTypeOK
<1>3. Sets
  <2>1. \A f \in Files, s \in Indexes : wr[f][s].pc = IF f = 1 THEN "run" ELSE "none"
    BY DEF CourseInit, Running, NoThread
  <2> QED
    BY <1>1, <2>1 DEF CourseInit, Sets, Unbegun, Idle
<1>4. Reports /\ Armed
  BY DEF CourseInit, Reports, Armed, Splitting
<1>5. Exclusive /\ NoFreedUse
  BY <1>1 DEF CourseInit, Exclusive, Apart, Using, Stopping, Pausing, Splitting, Stopped,
     NoFreedUse, Idle
<1> QED
  BY <1>2, <1>3, <1>4, <1>5 DEF CourseInv

LEMMA CourseStep == CourseInv /\ [CourseNext]_courseVars => CourseInv'
<1>1. ASSUME CourseInv, CourseNext PROVE CourseInv'
  <2>1. ~broken
    BY <1>1 DEF CourseNext
  <2>2. CASE \E s \in Indexes : Frame(s)
    BY <1>1, <2>1, <2>2, FrameInv
  <2>3. CASE \E f \in Files, s \in Indexes : Writer(f, s) \/ GiveUp(f, s)
    BY <1>1, <2>1, <2>3, WritersInv, GiveUpInv
  <2>4. CASE Process \/ Overtime
    BY <1>1, <2>1, <2>4, TurnsInv, TakeInv, SplitClosesInv, SplitFreeInv,
       SplitRegisterInv, SplitFailsInv, SplitStartInv DEF Process
  <2>5. CASE PrintThread
    BY <1>1, <2>1, <2>5, PrintInv
  <2>6. CASE Pause \/ Resume \/ CloseRecord
    BY <1>1, <2>1, <2>6, BeginsInv
  <2>7. CASE Operation
    BY <1>1, <2>1, <2>7, WalksInv, DrainInv, CloseWriterInv, CloseJoinInv, CloseFreeInv
       DEF Operation
  <2> QED
    BY <1>1, <2>2, <2>3, <2>4, <2>5, <2>6, <2>7 DEF CourseNext
<1>2. ASSUME CourseInv, UNCHANGED courseVars PROVE CourseInv'
  <2>1. CourseTypeOK'
    BY <1>2 DEF CourseInv, CourseTypeOK, courseVars, queues, writers, course, control
  <2>2. Sets'
    BY <1>2 DEF CourseInv, Sets, Over, Unbegun, courseVars, writers, course, control
  <2>3. Reports' /\ Armed'
    BY <1>2 DEF CourseInv, Reports, Armed, Splitting, courseVars, queues, writers, course
  <2>4. Exclusive' /\ NoFreedUse'
    BY <1>2 DEF CourseInv, Exclusive, Apart, NoFreedUse, Using, Stopping, Pausing, Splitting, Stopped, Over, courseVars,
       writers, course, control
  <2> QED
    BY <2>1, <2>2, <2>3, <2>4 DEF CourseInv
<1> QED
  BY <1>1, <1>2

LEMMA CourseInvariance == CourseSpec => []CourseInv
BY InitCourseInv, CourseStep, PTL DEF CourseSpec

\* The variables of a recorder (course_record_t and its threads) keep their kinds.
THEOREM CourseTypeCorrect == CourseSpec => []CourseTypeOK
<1>1. CourseInv => CourseTypeOK
  BY DEF CourseInv
<1> QED
  BY <1>1, CourseInvariance, PTL

\* No thread of a recorder uses writers after course_record_process or
\* course_record_close freed them, but after a lapse: the two met at cr->mcr while one
\* of them closed, course_record_stop was over before, or no new writers could be had.
THEOREM NoUseAfterFree == CourseSpec => []NoFreedUse
<1>1. CourseInv => NoFreedUse
  BY DEF CourseInv
<1> QED
  BY <1>1, CourseInvariance, PTL

\* No thread of a recorder survives course_record_close, with the same exception.
THEOREM NoneLeftBehind == CourseSpec => []NoOrphan
<1>1. CourseInv => NoOrphan
  <2> SUFFICES ASSUME CourseInv, ctl.pc = "done", lapses = {}
               PROVE  proc.pc = "over" /\ print = "over" /\ \A f \in Files : ~Busy(f)
    BY DEF NoOrphan
  <2>1. proc.pc = "over" /\ print = "over" /\ Over(mcr) /\ mcr = proc.f
    BY DEF CourseInv, Exclusive, Apart, Stopped, Sets
  <2>2. ASSUME NEW f \in Files PROVE Over(f) \/ Unbegun(f)
    BY <2>1, Types DEF CourseInv, Sets
  <2> QED
    BY <2>1, <2>2 DEF Over, Unbegun, Busy
<1> QED
  BY <1>1, CourseInvariance, PTL

\* course_record_process begins a split only on a report of the current files:
\* split_flag and split_sindex pass over every report of the files before.
THEOREM SplitsForCurrent == CourseSpec => SplitOnCurrent
<1>1. CourseInv /\ [CourseNext]_courseVars =>
        [proc.pc # "lock" /\ proc'.pc = "lock" => Head(que).f = proc.f]_courseVars
  <2> SUFFICES ASSUME CourseInv, CourseNext, proc.pc # "lock", proc'.pc = "lock"
               PROVE  Head(que).f = proc.f
    OBVIOUS
  <2>1. CASE Take
    BY <2>1, TakeCurrent
  <2>2. CASE ~Take
    <3>1. proc \in ProcPlace
      BY DEF CourseInv, CourseTypeOK
    <3>2. ~(Process \/ Overtime)
      BY <2>2, <3>1 DEF Process, Overtime, OvertimePause, OvertimeSend, SplitLock,
         SplitClose, SplitJoin, SplitFree, SplitRegister, SplitFails, SplitStart,
         NoReport, ProcEnds, ProcPlace
    <3>3. ASSUME NEW s \in Indexes, Frame(s) \/ \E f \in Files : Writer(f, s) \/ GiveUp(f, s)
          PROVE  UNCHANGED proc
      BY <3>3 DEF Frame, Writer, WriteFrame, SkipFrame, NoFrame, Look, GiveUp, course
    <3>4. CASE PrintThread \/ Pause \/ Resume \/ CloseRecord
      BY <3>4 DEF PrintThread, PrintLock, PrintDone, PrintEnds, Pause, Resume, CloseRecord,
         course
    <3>5. CASE Operation
      BY <3>5 DEF Operation, PauseTest, PauseSet, ResumeSet, CloseDrained,
         ClosePrintJoined, CloseWriter, CloseJoin, CloseFree, CloseMark, CloseDone, course
    <3> QED
      BY <3>2, <3>3, <3>4, <3>5 DEF CourseNext
  <2> QED
    BY <2>1, <2>2
<1> QED
  BY <1>1, CourseInvariance, PTL DEF CourseSpec, SplitOnCurrent

=============================================================================
