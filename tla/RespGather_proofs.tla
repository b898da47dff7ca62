------------------------- MODULE RespGather_proofs -------------------------
(***************************************************************************)
(* Proofs about RespGather, for any platforms, messages, streams and       *)
(* number of requests, and any load of the message time queue.             *)
(***************************************************************************)
EXTENDS RespGather, TLAPS

\* What the records of the threads are while they handle something.
UpRec ==
    [pc : UpPcs, r : Reqs, s : Bits, todo : SUBSET Streams, load : Masks, sent : BOOLEAN]
LowRec == [pc : LowPcs, r : Reqs, s : Streams, ok : BOOLEAN, load : Masks]

-----------------------------------------------------------------------------
(* The inductive invariant.                                                *)

\* up still has to send its request to s.
ToSend(s) ==
    \/ up.pc # "idle" /\ s \in up.todo
    \/ up.pc \in {"load", "store"} /\ s = up.s /\ up.r[2] \notin SendsFirst

\* No more copies of a request are under way to a stream than requests were made.
Counted ==
    \A s \in Streams, r \in Reqs :
        /\ out[s][r] <= reqs
        /\ Handling(r) /\ ToSend(s) => out[s][r] < reqs

\* The places of the threads that only some messages reach.
Shape ==
    /\ up.pc \in {"load", "store"} => up.s \in Streams \ up.todo
    /\ low.pc = "single" => low.r[2] \in Single
    /\ low.pc \in {"relay", "test"} => low.r[2] \in Relay

\* An encoder, or one of the threads, has got r.
Asked(r) ==
    \/ \E s \in Streams : out[s][r] > 0
    \/ low.pc # "idle" /\ low.r = r
    \/ Handling(r)

\* The bit no stream has stays set while a request answered at once is anywhere,
\* and in what either thread is about to store.
SpareSet ==
    /\ \A r \in Reqs : r[2] \in Direct /\ Asked(r) => Spare \in mask[r].bits
    /\ up.pc = "store" /\ up.r[2] \in Direct => Spare \in up.load.bits
    /\ low.pc \in {"store", "flagstore"} /\ low.r[2] \in Direct =>
         Spare \in low.load.bits

\* The lower thread deletes the node of a request it has answered.
Answered ==
    low.pc # "idle" /\ Deleting(low.r) => low.r \notin owed \ overtaken

IInv == TypeOK /\ Counted /\ Shape /\ SpareSet /\ DirectAnsweredOnce /\ Answered

-----------------------------------------------------------------------------
(* What the threads hold, and the masks and classes of the requests.       *)

LEMMA UpBusy ==
    ASSUME TypeOK, up.pc # "idle"
    PROVE  up \in UpRec
BY DEF TypeOK, UpIdle, UpRec

LEMMA LowBusy ==
    ASSUME TypeOK, low.pc # "idle"
    PROVE  low \in LowRec
BY DEF TypeOK, LowIdle, LowRec

\* LowGoto changes the program counter only.
LEMMA LowMoves ==
    ASSUME TypeOK, low.pc # "idle", NEW pc \in LowPcs, LowGoto(pc)
    PROVE  /\ low \in LowRec /\ low' \in LowRec
           /\ low'.pc = pc /\ low'.r = low.r /\ low'.s = low.s /\ low'.load = low.load
<1>1. low \in LowRec
  BY LowBusy
<1> QED
  BY <1>1 DEF LowGoto, LowRec

\* Every request has its masks, and no other request's handler or answer is at
\* the mask of a request that is answered at once.
LEMMA MaskOf ==
    ASSUME NEW r \in Reqs
    PROVE  /\ r \in MaskIds /\ BitMask(r) \in MaskIds /\ ClearMask(r) \in MaskIds
           /\ r[2] \in Direct => BitMask(r) = r /\ ClearMask(r) = r
           /\ \A q \in Reqs :
                q[2] \in Direct /\ (BitMask(r) = q \/ ClearMask(r) = q) => r = q
<1>1. r \in Platforms \X Codes /\ r[1] \in Platforms /\ r[2] \in Codes /\ r = <<r[1], r[2]>>
  BY DEF Reqs
<1>2. /\ r \in MaskIds /\ <<r[1], "adjust">> \in MaskIds /\ <<r[1], "director">> \in MaskIds
  BY <1>1 DEF MaskIds
<1>3. \A q : q[2] \in Direct => q # <<r[1], "adjust">> /\ q # <<r[1], "director">>
  BY DEF Direct
<1>4. r[2] \in Direct =>
        r[2] \notin Relay \cup {"get_camctl", "set_camctl", "synthesis", "director"}
  BY DEF Direct, Relay
<1> QED
  BY <1>2, <1>3, <1>4 DEF BitMask, ClearMask

\* One more request is under way to a stream it was still to be sent to.
LEMMA SendCounted ==
    ASSUME TypeOK, Counted, up \in UpRec, up.pc # "idle",
           NEW s \in Streams, ToSend(s), SendTo(s)
    PROVE  /\ out' \in [Streams -> [Reqs -> 0 .. MaxReq]]
           /\ \A t \in Streams, q \in Reqs :
                /\ out'[t][q] <= reqs
                /\ t # s \/ q # up.r => out'[t][q] = out[t][q]
<1>1. up.r \in Reqs /\ out[s][up.r] < reqs /\ reqs \in 0 .. MaxReq
  BY DEF UpRec, Counted, Handling, TypeOK
<1>2. CASE s \in conn
  <2>1. out' = [out EXCEPT ![s] = [out[s] EXCEPT ![up.r] = out[s][up.r] + 1]]
    BY <1>2 DEF SendTo
  <2>2. out[s] \in [Reqs -> 0 .. MaxReq] /\ out[s][up.r] + 1 \in 0 .. MaxReq
    BY <1>1, GatherAssumption DEF TypeOK
  <2> QED
    BY <1>1, <2>1, <2>2 DEF TypeOK, Counted
<1>3. CASE s \notin conn
  BY <1>3 DEF SendTo, TypeOK, Counted
<1> QED
  BY <1>2, <1>3

\* The classes of the messages have nothing in common.
LEMMA Classes ==
    /\ Relay \cap (Gather \cup Direct \cup Single \cup Info) = {}
    /\ Single \cap (Gather \cup Direct \cup Info) = {}
    /\ Direct \cap (Gather \cup Info) = {}
BY DEF Gather, Direct, Relay, Single, Info

LEMMA MaskValues == Clr \in Masks /\ Flg \in Masks /\ All \in Masks
BY DEF Clr, Flg, All, Masks

-----------------------------------------------------------------------------
(* The steps of the upper thread and of the timeout.                       *)

LEMMA RequestInv ==
    ASSUME IInv, NEW r \in Reqs, NEW todo \in SUBSET Streams, Request(r, todo)
    PROVE  IInv'
<1>1. /\ up' \in UpRec /\ up'.pc = "pick" /\ up'.r = r /\ up'.todo = todo
      /\ Reset(r) \in Masks /\ r \in MaskIds /\ (r[2] \in Direct => Spare \in Reset(r).bits)
  <2>1. mask[r] \in Masks /\ r \in MaskIds
    BY MaskOf DEF IInv, TypeOK
  <2>2. Reset(r) \in Masks
    BY <2>1, MaskValues DEF Reset, Masks
  <2>3. r[2] \in Direct => Spare \in Reset(r).bits
    BY DEF Direct, Reset, Bits, All
  <2> QED
    BY <2>1, <2>2, <2>3, MaskValues DEF Request, UpRec, UpPcs, Bits
<1>2. TypeOK'
  BY <1>1, GatherAssumption DEF IInv, TypeOK, UpRec, Request
<1>3. Counted'
  BY DEF IInv, TypeOK, Counted, Request
<1>4. Shape'
  BY DEF IInv, Shape, Request
<1>5. SpareSet'
  BY <1>1 DEF IInv, TypeOK, SpareSet, Asked, Handling, Request
<1>6. DirectAnsweredOnce'
  BY DEF IInv, DirectAnsweredOnce, Request
<1>7. Answered'
  BY DEF IInv, Answered, Deleting, Request
<1> QED
  BY <1>2, <1>3, <1>4, <1>5, <1>6, <1>7 DEF IInv

LEMMA SkipInv ==
    ASSUME IInv, NEW s \in Streams, Skip(s)
    PROVE  IInv'
<1>1. /\ up \in UpRec /\ up' \in UpRec
      /\ up'.pc = up.pc /\ up'.r = up.r /\ up'.todo = up.todo \ {s}
      /\ up'.s = up.s /\ up'.load = up.load
  BY UpBusy DEF IInv, Skip, UpRec
<1>2. TypeOK'
  BY <1>1 DEF IInv, TypeOK, UpRec, Skip, history
<1>3. Counted'
  BY DEF IInv, Counted, ToSend, Handling, Skip
<1>4. Shape'
  BY DEF IInv, Shape, Skip
<1>5. SpareSet'
  BY DEF IInv, SpareSet, Asked, Handling, Skip
<1>6. DirectAnsweredOnce'
  BY DEF IInv, DirectAnsweredOnce, Skip
<1>7. Answered'
  BY DEF IInv, Answered, Deleting, Skip, history
<1> QED
  BY <1>2, <1>3, <1>4, <1>5, <1>6, <1>7 DEF IInv

LEMMA PickInv ==
    ASSUME IInv, NEW s \in Streams, Pick(s)
    PROVE  IInv'
<1>1. /\ up \in UpRec /\ up' \in UpRec /\ up'.pc = "load" /\ up'.r = up.r
      /\ up'.todo = up.todo \ {s} /\ up'.s = s /\ s \in Streams
  BY UpBusy DEF IInv, Pick, UpRec, UpPcs, Bits
<1>2. ASSUME up.r[2] \in SendsFirst
      PROVE  TypeOK' /\ Counted'
  <2>1. /\ out' \in [Streams -> [Reqs -> 0 .. MaxReq]]
        /\ \A t \in Streams, q \in Reqs :
             /\ out'[t][q] <= reqs
             /\ t # s \/ q # up.r => out'[t][q] = out[t][q]
    BY <1>1, <1>2, SendCounted DEF IInv, Pick, ToSend
  <2>2. TypeOK'
    BY <1>1, <2>1 DEF IInv, TypeOK, Pick, UpRec, history
  <2>3. Counted'
    BY <2>1 DEF IInv, Counted, Handling, ToSend, Pick
  <2> QED
    BY <2>2, <2>3
<1>3. ASSUME up.r[2] \notin SendsFirst
      PROVE  TypeOK' /\ Counted'
  BY <1>1, <1>3 DEF IInv, TypeOK, Counted, Handling, ToSend, Pick, UpRec, history
<1>4. Shape'
  BY DEF IInv, Shape, Pick
<1>5. SpareSet'
  BY DEF IInv, TypeOK, SpareSet, Asked, Handling, Pick, SendTo
<1>6. DirectAnsweredOnce'
  BY DEF IInv, DirectAnsweredOnce, Pick
<1>7. Answered'
  BY DEF IInv, Answered, Deleting, Pick, history
<1> QED
  BY <1>2, <1>3, <1>4, <1>5, <1>6, <1>7 DEF IInv

LEMMA LoadBitInv ==
    ASSUME IInv, LoadBit
    PROVE  IInv'
<1>1. /\ up \in UpRec /\ up' \in UpRec /\ up'.pc = "store" /\ up'.r = up.r
      /\ up'.todo = up.todo /\ up'.s = up.s /\ up'.load = mask[BitMask(up.r)]
  <2>1. up \in UpRec
    BY UpBusy DEF IInv, LoadBit
  <2>2. mask[BitMask(up.r)] \in Masks
    BY <2>1, MaskOf DEF IInv, TypeOK, UpRec
  <2> QED
    BY <2>1, <2>2 DEF LoadBit, UpRec, UpPcs
<1>2. TypeOK'
  BY <1>1 DEF IInv, TypeOK, UpRec, LoadBit, history
<1>3. Counted'
  BY DEF IInv, Counted, ToSend, Handling, LoadBit
<1>4. Shape'
  BY DEF IInv, Shape, LoadBit
<1>5. SpareSet'
  BY <1>1, MaskOf DEF IInv, SpareSet, Asked, Handling, UpRec, LoadBit
<1>6. DirectAnsweredOnce'
  BY DEF IInv, DirectAnsweredOnce, LoadBit
<1>7. Answered'
  BY DEF IInv, Answered, Deleting, LoadBit, history
<1> QED
  BY <1>2, <1>3, <1>4, <1>5, <1>6, <1>7 DEF IInv

LEMMA StoreBitInv ==
    ASSUME IInv, StoreBit
    PROVE  IInv'
<1>1. /\ up \in UpRec /\ up' \in UpRec /\ up'.pc = "pick" /\ up'.r = up.r
      /\ up'.todo = up.todo /\ up.s \in Streams /\ BitMask(up.r) \in MaskIds
      /\ [up.load EXCEPT !.bits = @ \cup {up.s}] \in Masks
  <2>1. up \in UpRec
    BY UpBusy DEF IInv, StoreBit
  <2>2. up.s \in Streams
    BY DEF IInv, Shape, StoreBit
  <2> QED
    BY <2>1, <2>2, MaskOf DEF StoreBit, UpRec, UpPcs, Masks
<1>2. mask' \in [MaskIds -> Masks]
  BY <1>1 DEF IInv, TypeOK, StoreBit
<1>3. ASSUME up.r[2] \notin SendsFirst
      PROVE  TypeOK' /\ Counted'
  <2>1. /\ out' \in [Streams -> [Reqs -> 0 .. MaxReq]]
        /\ \A t \in Streams, q \in Reqs :
             /\ out'[t][q] <= reqs
             /\ t # up.s \/ q # up.r => out'[t][q] = out[t][q]
    BY <1>1, <1>3, SendCounted DEF IInv, StoreBit, ToSend
  <2>2. TypeOK'
    BY <1>1, <2>1 DEF IInv, TypeOK, StoreBit, UpRec, history
  <2>3. Counted'
    BY <2>1 DEF IInv, Counted, Handling, ToSend, StoreBit, Shape
  <2> QED
    BY <2>2, <2>3
<1>4. ASSUME up.r[2] \in SendsFirst
      PROVE  TypeOK' /\ Counted'
  BY <1>1, <1>4 DEF IInv, TypeOK, Counted, Handling, ToSend, StoreBit, UpRec, history
<1>5. Shape'
  BY DEF IInv, Shape, StoreBit
<1>6. SpareSet'
  BY <1>1, MaskOf DEF IInv, TypeOK, SpareSet, Asked, Handling, UpRec, StoreBit, SendTo
<1>7. DirectAnsweredOnce'
  BY DEF IInv, DirectAnsweredOnce, StoreBit
<1>8. Answered'
  BY DEF IInv, Answered, Deleting, StoreBit, history
<1> QED
  BY <1>3, <1>4, <1>5, <1>6, <1>7, <1>8 DEF IInv

LEMMA FinishInv ==
    ASSUME IInv, Finish
    PROVE  IInv'
<1>1. /\ up \in UpRec /\ up.r \in Reqs /\ up' = UpIdle /\ up'.pc = "idle"
      /\ UNCHANGED <<mask, conn, out, low, reqs>>
      /\ owed' \subseteq owed /\ overtaken' \subseteq overtaken
      /\ dropped' \subseteq dropped \cup {up.r}
      /\ nodes \subseteq nodes' /\ nodes' \subseteq nodes \cup {up.r}
      /\ owed' \ overtaken' \subseteq owed \ overtaken
  <2>1. up \in UpRec /\ up.r \in Reqs
    BY UpBusy DEF IInv, Finish, UpRec
  <2> QED
    BY <2>1 DEF Finish, UpIdle, Reply, AddNode, history
<1>2. TypeOK'
  BY <1>1 DEF IInv, TypeOK
<1>3. Counted'
  BY <1>1 DEF IInv, Counted, ToSend
<1>4. Shape'
  BY <1>1 DEF IInv, Shape
<1>5. SpareSet'
  BY <1>1 DEF IInv, SpareSet, Asked, Handling
<1>6. DirectAnsweredOnce'
  BY <1>1 DEF IInv, DirectAnsweredOnce
<1>7. Answered'
  BY <1>1 DEF IInv, Answered, Deleting
<1> QED
  BY <1>2, <1>3, <1>4, <1>5, <1>6, <1>7 DEF IInv

LEMMA TimeOutInv ==
    ASSUME IInv, NEW r \in Reqs, TimeOut(r)
    PROVE  IInv'
<1>2. TypeOK'
  BY DEF IInv, TypeOK, TimeOut, Reply
<1>3. Counted'
  BY DEF IInv, Counted, ToSend, TimeOut
<1>4. Shape'
  BY DEF IInv, Shape, TimeOut
<1>5. SpareSet'
  BY DEF IInv, SpareSet, Asked, Handling, TimeOut
<1>6. DirectAnsweredOnce'
  BY DEF IInv, DirectAnsweredOnce, TimeOut
<1>7. Answered'
  BY DEF IInv, Answered, Deleting, TimeOut, Reply
<1> QED
  BY <1>2, <1>3, <1>4, <1>5, <1>6, <1>7 DEF IInv

-----------------------------------------------------------------------------
(* The steps of the lower thread.                                          *)

LEMMA TakeInv ==
    ASSUME IInv, NEW s \in Streams, NEW r \in Reqs, NEW ok \in BOOLEAN, Take(s, r, ok)
    PROVE  IInv'
<1>1. /\ low' \in LowRec /\ low'.r = r
      /\ low'.pc \notin {"store", "flagstore", "resp", "all", "del", "test", "forward"}
      /\ low'.pc = "load" => r[2] \notin Relay
      /\ low'.pc = "single" => r[2] \in Single
      /\ low'.pc = "relay" => r[2] \in Relay
  <2>1. r[2] \in Gather \cup Direct \cup Relay \cup Single \cup Info
    BY CodeAssumption DEF Reqs
  <2>2. low'.pc \in LowPcs /\ low' \in LowRec
    BY <2>1, MaskValues DEF Take, LowRec, LowPcs
  <2> QED
    BY <2>1, <2>2, Classes DEF Take
<1>2. TypeOK'
  <2>1. out[s] \in [Reqs -> 0 .. MaxReq] /\ out[s][r] > 0 /\ out[s][r] - 1 \in 0 .. MaxReq
    BY GatherAssumption DEF IInv, TypeOK, Take
  <2>2. out' = [out EXCEPT ![s] = [out[s] EXCEPT ![r] = out[s][r] - 1]]
    BY DEF Take
  <2>3. out' \in [Streams -> [Reqs -> 0 .. MaxReq]]
    BY <2>1, <2>2 DEF IInv, TypeOK
  <2> QED
    BY <1>1, <2>3 DEF IInv, TypeOK, LowRec, Take, history
<1>3. Counted'
  BY DEF IInv, TypeOK, Counted, ToSend, Handling, Take
<1>4. Shape'
  BY <1>1 DEF IInv, Shape, Take
<1>5. SpareSet'
  BY DEF IInv, SpareSet, Asked, Handling, Take
<1>6. DirectAnsweredOnce'
  BY <1>1 DEF DirectAnsweredOnce
<1>7. Answered'
  BY <1>1 DEF Answered, Deleting
<1> QED
  BY <1>2, <1>3, <1>4, <1>5, <1>6, <1>7 DEF IInv

LEMMA LoadClearInv ==
    ASSUME IInv, LoadClear
    PROVE  IInv'
<1>1. /\ low \in LowRec /\ low' \in LowRec /\ low'.pc = "store" /\ low'.r = low.r
      /\ low'.load = mask[ClearMask(low.r)]
  <2>1. low \in LowRec
    BY LowBusy DEF IInv, LoadClear
  <2>2. mask[ClearMask(low.r)] \in Masks
    BY <2>1, MaskOf DEF IInv, TypeOK, LowRec
  <2> QED
    BY <2>1, <2>2 DEF LoadClear, LowRec, LowPcs
<1>2. TypeOK'
  BY <1>1 DEF IInv, TypeOK, LowRec, LoadClear, history
<1>3. Counted'
  BY DEF IInv, Counted, ToSend, Handling, LoadClear
<1>4. Shape'
  BY DEF IInv, Shape, LoadClear
<1>5. SpareSet'
  BY <1>1, MaskOf DEF IInv, SpareSet, Asked, Handling, LowRec, LoadClear
<1>6. DirectAnsweredOnce'
  BY <1>1 DEF DirectAnsweredOnce
<1>7. Answered'
  BY DEF IInv, Answered, Deleting, LoadClear, history
<1> QED
  BY <1>2, <1>3, <1>4, <1>5, <1>6, <1>7 DEF IInv

LEMMA StoreClearInv ==
    ASSUME IInv, StoreClear
    PROVE  IInv'
<1>1. /\ low \in LowRec /\ low' \in LowRec /\ low'.r = low.r
      /\ low'.pc \in {"idle", "test", "flag"} /\ (low'.pc = "test" => low.r[2] \in Relay)
      /\ ClearMask(low.r) \in MaskIds
      /\ [low.load EXCEPT !.bits = @ \ {low.s}] \in Masks /\ low.s \in Streams
  <2>1. low \in LowRec
    BY LowBusy DEF IInv, StoreClear
  <2>2. /\ low' \in LowRec /\ low'.r = low.r
        /\ low'.pc \in {"idle", "test", "flag"} /\ (low'.pc = "test" => low.r[2] \in Relay)
    BY <2>1 DEF StoreClear, LowGoto, LowRec, LowPcs
  <2>3. [low.load EXCEPT !.bits = @ \ {low.s}] \in Masks
    BY <2>1 DEF LowRec, Masks
  <2> QED
    BY <2>1, <2>2, <2>3, MaskOf DEF LowRec
<1>2. TypeOK'
  BY <1>1 DEF IInv, TypeOK, LowRec, StoreClear, history
<1>3. Counted'
  BY DEF IInv, Counted, ToSend, Handling, StoreClear
<1>4. Shape'
  BY <1>1 DEF IInv, Shape, StoreClear
<1>5. SpareSet'
  BY <1>1, MaskOf, GatherAssumption DEF IInv, SpareSet, Asked, Handling, LowRec,
     StoreClear
<1>6. DirectAnsweredOnce'
  BY <1>1 DEF DirectAnsweredOnce
<1>7. Answered'
  BY <1>1 DEF IInv, Answered, Deleting, StoreClear, history
<1> QED
  BY <1>2, <1>3, <1>4, <1>5, <1>6, <1>7 DEF IInv

LEMMA FlagLoadInv ==
    ASSUME IInv, FlagLoad
    PROVE  IInv'
<1>1. /\ low \in LowRec /\ low' \in LowRec /\ low'.r = low.r
      /\ \/ low'.pc = "flagstore" /\ low'.load = mask[low.r]
         \/ low'.pc = "all?"
  <2>1. low \in LowRec
    BY LowBusy DEF IInv, FlagLoad
  <2>2. mask[low.r] \in Masks
    BY <2>1, MaskOf DEF IInv, TypeOK, LowRec
  <2> QED
    BY <2>1, <2>2 DEF FlagLoad, LowRec, LowPcs
<1>2. TypeOK'
  BY <1>1 DEF IInv, TypeOK, LowRec, FlagLoad, history
<1>3. Counted'
  BY DEF IInv, Counted, ToSend, Handling, FlagLoad
<1>4. Shape'
  BY DEF IInv, Shape, FlagLoad
<1>5. SpareSet'
  BY <1>1 DEF IInv, SpareSet, Asked, Handling, LowRec, FlagLoad
<1>6. DirectAnsweredOnce'
  BY <1>1 DEF DirectAnsweredOnce
<1>7. Answered'
  BY <1>1 DEF Answered, Deleting
<1> QED
  BY <1>2, <1>3, <1>4, <1>5, <1>6, <1>7 DEF IInv

LEMMA FlagStoreInv ==
    ASSUME IInv, FlagStore
    PROVE  IInv'
<1>1. /\ low \in LowRec /\ low' \in LowRec /\ low'.pc = "all?" /\ low'.r = low.r
      /\ low.r \in MaskIds /\ [low.load EXCEPT !.flag = FALSE] \in Masks
  <2>1. low \in LowRec
    BY LowBusy DEF IInv, FlagStore
  <2> QED
    BY <2>1, MaskOf DEF FlagStore, LowGoto, LowRec, LowPcs, Masks
<1>2. TypeOK'
  BY <1>1 DEF IInv, TypeOK, LowRec, FlagStore, history
<1>3. Counted'
  BY DEF IInv, Counted, ToSend, Handling, FlagStore
<1>4. Shape'
  BY <1>1 DEF IInv, Shape, FlagStore
<1>5. SpareSet'
  BY <1>1 DEF IInv, SpareSet, Asked, Handling, FlagStore
<1>6. DirectAnsweredOnce'
  BY <1>1 DEF DirectAnsweredOnce
<1>7. Answered'
  BY <1>1 DEF Answered, Deleting
<1> QED
  BY <1>2, <1>3, <1>4, <1>5, <1>6, <1>7 DEF IInv

LEMMA AllRespInv ==
    ASSUME IInv, AllResp
    PROVE  IInv'
<1>1. /\ low \in LowRec /\ low' \in LowRec /\ low'.r = low.r
      /\ low'.pc \in {"resp", "idle"} /\ (low'.pc = "resp" => mask[low.r].bits = {})
  <2>1. low \in LowRec
    BY LowBusy DEF IInv, AllResp
  <2> QED
    BY <2>1 DEF AllResp, LowGoto, LowRec, LowPcs
<1>2. TypeOK'
  BY <1>1 DEF IInv, TypeOK, LowRec, AllResp, history
<1>3. Counted'
  BY DEF IInv, Counted, ToSend, Handling, AllResp
<1>4. Shape'
  BY <1>1 DEF IInv, Shape, AllResp
<1>5. SpareSet'
  BY <1>1 DEF IInv, SpareSet, Asked, Handling, AllResp
<1>6. DirectAnsweredOnce'
  BY <1>1 DEF IInv, DirectAnsweredOnce, SpareSet, Asked, LowRec, AllResp
<1>7. Answered'
  BY <1>1 DEF Answered, Deleting
<1> QED
  BY <1>2, <1>3, <1>4, <1>5, <1>6, <1>7 DEF IInv

LEMMA RespInv ==
    ASSUME IInv, Resp
    PROVE  IInv'
<1>1. low \in LowRec /\ low' \in LowRec /\ low'.pc = "all" /\ low'.r = low.r
  BY LowMoves DEF IInv, Resp, LowPcs
<1>2. TypeOK'
  BY <1>1 DEF IInv, TypeOK, LowRec, Resp, Reply
<1>3. Counted'
  BY DEF IInv, Counted, ToSend, Handling, Resp
<1>4. Shape'
  BY <1>1 DEF IInv, Shape, Resp
<1>5. SpareSet'
  BY <1>1 DEF IInv, SpareSet, Asked, Handling, Resp
<1>6. DirectAnsweredOnce'
  BY <1>1 DEF DirectAnsweredOnce
<1>7. Answered'
  BY <1>1 DEF Answered, Resp, Reply
<1> QED
  BY <1>2, <1>3, <1>4, <1>5, <1>6, <1>7 DEF IInv

LEMMA SetAllInv ==
    ASSUME IInv, SetAll
    PROVE  IInv'
<1>1. low \in LowRec /\ low' \in LowRec /\ low'.pc = "del" /\ low'.r = low.r
  BY LowMoves DEF IInv, SetAll, LowPcs
<1>2. low.r \in MaskIds /\ All \in Masks /\ Spare \in All.bits
  BY <1>1, MaskOf, MaskValues DEF LowRec, All, Bits
<1>3. TypeOK'
  BY <1>1, <1>2 DEF IInv, TypeOK, LowRec, SetAll, history
<1>4. Counted'
  BY DEF IInv, Counted, ToSend, Handling, SetAll
<1>5. Shape'
  BY <1>1 DEF IInv, Shape, SetAll
<1>6. SpareSet'
  BY <1>1, <1>2 DEF IInv, SpareSet, Asked, Handling, SetAll
<1>7. DirectAnsweredOnce'
  BY <1>1 DEF DirectAnsweredOnce
<1>8. Answered'
  BY <1>1 DEF IInv, Answered, Deleting, SetAll, history
<1> QED
  BY <1>3, <1>4, <1>5, <1>6, <1>7, <1>8 DEF IInv

LEMMA DelNodeInv ==
    ASSUME IInv, DelNode
    PROVE  IInv'
<1>1. low \in LowRec /\ low' = LowIdle /\ low'.pc = "idle"
  BY LowBusy DEF IInv, DelNode, LowIdle
<1>2. TypeOK'
  BY DEF IInv, TypeOK, DelNode, history
<1>3. Counted'
  BY DEF IInv, Counted, ToSend, Handling, DelNode
<1>4. Shape'
  BY <1>1 DEF IInv, Shape, DelNode
<1>5. SpareSet'
  BY <1>1 DEF IInv, SpareSet, Asked, Handling, DelNode
<1>6. DirectAnsweredOnce'
  BY <1>1 DEF DirectAnsweredOnce
<1>7. Answered'
  BY <1>1 DEF Answered
<1> QED
  BY <1>2, <1>3, <1>4, <1>5, <1>6, <1>7 DEF IInv

LEMMA RelayUpInv ==
    ASSUME IInv, RelayUp
    PROVE  IInv'
<1>1. low \in LowRec /\ low' \in LowRec /\ low'.pc = "load" /\ low'.r = low.r
  BY LowMoves DEF IInv, RelayUp, LowPcs
<1>2. TypeOK'
  BY <1>1 DEF IInv, TypeOK, LowRec, RelayUp, Reply
<1>3. Counted'
  BY DEF IInv, Counted, ToSend, Handling, RelayUp
<1>4. Shape'
  BY <1>1 DEF IInv, Shape, RelayUp
<1>5. SpareSet'
  BY <1>1 DEF IInv, SpareSet, Asked, Handling, RelayUp
<1>6. DirectAnsweredOnce'
  BY <1>1 DEF DirectAnsweredOnce
<1>7. Answered'
  BY <1>1 DEF Answered, RelayUp, Reply
<1> QED
  BY <1>2, <1>3, <1>4, <1>5, <1>6, <1>7 DEF IInv

LEMMA RelayTestInv ==
    ASSUME IInv, RelayTest
    PROVE  IInv'
<1>1. low \in LowRec /\ low' \in LowRec /\ low'.pc \in {"del", "idle"} /\ low'.r = low.r
  <2>1. low \in LowRec
    BY LowBusy DEF IInv, RelayTest
  <2> QED
    BY <2>1 DEF RelayTest, LowGoto, LowRec, LowPcs
<1>2. TypeOK'
  BY <1>1 DEF IInv, TypeOK, LowRec, RelayTest, history
<1>3. Counted'
  BY DEF IInv, Counted, ToSend, Handling, RelayTest
<1>4. Shape'
  BY <1>1 DEF IInv, Shape, RelayTest
<1>5. SpareSet'
  BY <1>1 DEF IInv, SpareSet, Asked, Handling, RelayTest
<1>6. DirectAnsweredOnce'
  BY <1>1 DEF DirectAnsweredOnce
<1>7. Answered'
  BY <1>1 DEF IInv, Answered, Deleting, Shape, RelayTest, history
<1> QED
  BY <1>2, <1>3, <1>4, <1>5, <1>6, <1>7 DEF IInv

LEMMA SingleDelInv ==
    ASSUME IInv, SingleDel
    PROVE  IInv'
<1>1. low \in LowRec /\ low' \in LowRec /\ low'.pc = "forward" /\ low'.r = low.r
  BY LowMoves DEF IInv, SingleDel, LowPcs
<1>2. low.r \in MaskIds /\ Clr \in Masks /\ low.r[2] \notin Direct
  BY <1>1, MaskOf, MaskValues, Classes DEF IInv, Shape, SingleDel, LowRec
<1>3. TypeOK'
  BY <1>1, <1>2 DEF IInv, TypeOK, LowRec, SingleDel, history
<1>4. Counted'
  BY DEF IInv, Counted, ToSend, Handling, SingleDel
<1>5. Shape'
  BY <1>1 DEF IInv, Shape, SingleDel
<1>6. SpareSet'
  BY <1>1, <1>2 DEF IInv, SpareSet, Asked, Handling, SingleDel
<1>7. DirectAnsweredOnce'
  BY <1>1 DEF DirectAnsweredOnce
<1>8. Answered'
  BY <1>1 DEF Answered, Deleting
<1> QED
  BY <1>3, <1>4, <1>5, <1>6, <1>7, <1>8 DEF IInv

LEMMA SingleUpInv ==
    ASSUME IInv, SingleUp
    PROVE  IInv'
<1>1. low \in LowRec /\ low' = LowIdle /\ low'.pc = "idle"
  BY LowBusy DEF IInv, SingleUp, LowIdle
<1>2. TypeOK'
  BY DEF IInv, TypeOK, SingleUp, Reply
<1>3. Counted'
  BY DEF IInv, Counted, ToSend, Handling, SingleUp
<1>4. Shape'
  BY <1>1 DEF IInv, Shape, SingleUp
<1>5. SpareSet'
  BY <1>1 DEF IInv, SpareSet, Asked, Handling, SingleUp
<1>6. DirectAnsweredOnce'
  BY <1>1 DEF DirectAnsweredOnce
<1>7. Answered'
  BY <1>1 DEF Answered
<1> QED
  BY <1>2, <1>3, <1>4, <1>5, <1>6, <1>7 DEF IInv

-----------------------------------------------------------------------------
(* The encoders.                                                           *)

LEMMA DisconnectInv ==
    ASSUME IInv, NEW s \in Streams, Disconnect(s)
    PROVE  IInv'
<1>2. TypeOK'
  BY GatherAssumption DEF IInv, TypeOK, Disconnect, history
<1>3. Counted'
  BY DEF IInv, TypeOK, Counted, ToSend, Handling, Disconnect
<1>4. Shape'
  BY DEF IInv, Shape, Disconnect
<1>5. SpareSet'
  BY DEF IInv, SpareSet, Asked, Handling, Disconnect
<1>6. DirectAnsweredOnce'
  BY DEF IInv, DirectAnsweredOnce, Disconnect
<1>7. Answered'
  BY DEF IInv, Answered, Deleting, Disconnect, history
<1> QED
  BY <1>2, <1>3, <1>4, <1>5, <1>6, <1>7 DEF IInv

LEMMA ConnectInv ==
    ASSUME IInv, NEW s \in Streams, Connect(s)
    PROVE  IInv'
<1>2. TypeOK'
  BY DEF IInv, TypeOK, Connect, history
<1>3. Counted'
  BY DEF IInv, Counted, ToSend, Handling, Connect
<1>4. Shape'
  BY DEF IInv, Shape, Connect
<1>5. SpareSet'
  BY DEF IInv, SpareSet, Asked, Handling, Connect
<1>6. DirectAnsweredOnce'
  BY DEF IInv, DirectAnsweredOnce, Connect
<1>7. Answered'
  BY DEF IInv, Answered, Deleting, Connect, history
<1> QED
  BY <1>2, <1>3, <1>4, <1>5, <1>6, <1>7 DEF IInv

-----------------------------------------------------------------------------
(* The theorems.                                                           *)

LEMMA InitInv == Init => IInv
<1> SUFFICES ASSUME Init PROVE IInv
  OBVIOUS
<1>1. 0 \in 0 .. MaxReq
  BY GatherAssumption
<1>2. TypeOK
  BY <1>1, MaskValues DEF Init, TypeOK
<1>3. Counted /\ Shape /\ SpareSet /\ DirectAnsweredOnce /\ Answered
  BY DEF Init, Counted, Shape, SpareSet, Asked, DirectAnsweredOnce, Answered, Handling,
     UpIdle, LowIdle
<1> QED
  BY <1>2, <1>3 DEF IInv

LEMMA StepInv ==
    ASSUME IInv, [Next]_vars
    PROVE  IInv'
<1>1. CASE UNCHANGED vars
  BY <1>1 DEF IInv, TypeOK, Counted, Shape, SpareSet, Asked, DirectAnsweredOnce,
     Answered, Deleting, Handling, ToSend, vars
<1>2. CASE Upper
  BY <1>2, SkipInv, PickInv, LoadBitInv, StoreBitInv, FinishInv DEF Upper
<1>3. CASE Lower
  BY <1>3, LoadClearInv, StoreClearInv, FlagLoadInv, FlagStoreInv, AllRespInv, RespInv,
     SetAllInv, DelNodeInv, RelayUpInv, RelayTestInv, SingleDelInv, SingleUpInv
     DEF Lower
<1> QED
  BY <1>1, <1>2, <1>3, RequestInv, TimeOutInv, TakeInv, DisconnectInv, ConnectInv
     DEF Next

\* The types are kept, and no more requests are under way than were made.
THEOREM TypeCorrect == Spec => []TypeOK
<1>1. IInv /\ [Next]_vars => IInv'
  BY StepInv
<1> QED
  BY <1>1, InitInv, PTL DEF Spec, IInv

\* A quality or code stream request, which the upper thread answers, is never
\* answered again by lower_msg_resp_xml_deal, whatever updates of its mask the
\* two threads lose.
THEOREM DirectOnce == Spec => []DirectAnsweredOnce
<1>1. IInv /\ [Next]_vars => IInv'
  BY StepInv
<1> QED
  BY <1>1, InitInv, PTL DEF Spec, IInv

-----------------------------------------------------------------------------
(* No request is forgotten.                                                *)

\* What still waits for its node or its answer.
Waiting == owed \ (overtaken \cup dropped)

\* Steps that answer, delete and end nothing.
LEMMA NodeKept ==
    ASSUME NodeOrAnswered,
           Waiting' \subseteq Waiting, nodes \subseteq nodes',
           up.pc # "idle" => up'.pc # "idle" /\ up'.r = up.r,
           low.pc # "forward" \/ UNCHANGED low
    PROVE  NodeOrAnswered'
BY DEF NodeOrAnswered, Handling, Waiting

\* The end of a handler answers, leaves a node or finds the queue full, but for a
\* picture synthesis.
LEMMA FinishNode ==
    ASSUME IInv, NodeOrAnswered, Finish
    PROVE  NodeOrAnswered'
<1>1. up \in UpRec /\ up.r \in Reqs /\ up'.pc = "idle" /\ UNCHANGED low
  BY UpBusy DEF IInv, Finish, UpRec, UpIdle
<1>2. /\ nodes \subseteq nodes' /\ Waiting' \subseteq Waiting
      /\ \/ up.r \notin Waiting'
         \/ up.r[2] = "synthesis"
         \/ up.r \in nodes'
  BY DEF Finish, Reply, AddNode, history, Waiting
<1> QED
  BY <1>1, <1>2 DEF NodeOrAnswered, Handling, Waiting

LEMMA UpperNode ==
    ASSUME IInv, NodeOrAnswered, Upper
    PROVE  NodeOrAnswered'
<1>1. ASSUME NEW s \in Streams, Skip(s) \/ Pick(s)
      PROVE  NodeOrAnswered'
  <2>1. up \in UpRec
    BY <1>1, UpBusy DEF IInv, Skip, Pick
  <2>2. up'.pc # "idle" /\ up'.r = up.r /\ UNCHANGED <<nodes, low, history>>
    BY <1>1, <2>1 DEF Skip, Pick, UpRec
  <2> QED
    BY <2>2, NodeKept DEF history, Waiting
<1>2. CASE LoadBit \/ StoreBit
  <2>1. up \in UpRec
    BY <1>2, UpBusy DEF IInv, LoadBit, StoreBit
  <2>2. up'.pc # "idle" /\ up'.r = up.r /\ UNCHANGED <<nodes, low, history>>
    BY <1>2, <2>1 DEF LoadBit, StoreBit, UpRec
  <2> QED
    BY <2>2, NodeKept DEF history, Waiting
<1> QED
  BY <1>1, <1>2, FinishNode DEF Upper

LEMMA LowerNode ==
    ASSUME IInv, NodeOrAnswered, Lower
    PROVE  NodeOrAnswered'
<1>1. low \in LowRec /\ UNCHANGED up
  BY LowBusy DEF IInv, Lower, LoadClear, StoreClear, FlagLoad, FlagStore, AllResp, Resp,
     SetAll, DelNode, RelayUp, RelayTest, SingleDel, SingleUp
<1>2. CASE LoadClear \/ StoreClear \/ FlagLoad \/ FlagStore \/ AllResp \/ SetAll \/ RelayTest
  <2>1. low.pc # "forward" /\ UNCHANGED <<nodes, history>>
    BY <1>2 DEF LoadClear, StoreClear, FlagLoad, FlagStore, AllResp, SetAll, RelayTest
  <2> QED
    BY <1>1, <2>1, NodeKept DEF history, Waiting
<1>3. CASE Resp \/ RelayUp
  <2>1. low.pc # "forward" /\ nodes' = nodes /\ Reply(low.r)
    BY <1>3 DEF Resp, RelayUp
  <2> QED
    BY <1>1, <2>1, NodeKept DEF Reply, Waiting
<1>4. CASE DelNode
  <2>1. low.pc = "del" /\ low.r \notin owed \ overtaken
    BY <1>4 DEF IInv, Answered, Deleting, DelNode
  <2> QED
    BY <1>4, <2>1 DEF NodeOrAnswered, Handling, DelNode, history
<1>5. CASE SingleDel
  <2>1. low.pc = "single" /\ low'.pc = "forward" /\ low'.r = low.r
    BY <1>5 DEF SingleDel, LowGoto
  <2> QED
    BY <1>5, <2>1 DEF NodeOrAnswered, Handling, SingleDel, history
<1>6. CASE SingleUp
  BY <1>6 DEF NodeOrAnswered, Handling, SingleUp, Reply
<1> QED
  BY <1>2, <1>3, <1>4, <1>5, <1>6 DEF Lower

LEMMA StepNode ==
    ASSUME IInv, NodeOrAnswered, [Next]_vars
    PROVE  NodeOrAnswered'
<1>1. CASE UNCHANGED vars
  BY <1>1 DEF NodeOrAnswered, Handling, history, vars
<1>2. ASSUME NEW r \in Reqs, NEW todo \in SUBSET Streams, Request(r, todo)
      PROVE  NodeOrAnswered'
  BY <1>2 DEF NodeOrAnswered, Handling, Request
<1>3. ASSUME NEW r \in Reqs, TimeOut(r)
      PROVE  NodeOrAnswered'
  BY <1>3 DEF NodeOrAnswered, Handling, TimeOut, Reply
<1>4. ASSUME NEW s \in Streams, NEW r \in Reqs, NEW ok \in BOOLEAN, Take(s, r, ok)
      PROVE  NodeOrAnswered'
  BY <1>4, NodeKept DEF Take, history, Waiting
<1>5. ASSUME NEW s \in Streams, Disconnect(s) \/ Connect(s)
      PROVE  NodeOrAnswered'
  BY <1>5, NodeKept DEF Disconnect, Connect, history, Waiting
<1> QED
  BY <1>1, <1>2, <1>3, <1>4, <1>5, UpperNode, LowerNode DEF Next

\* A request that was not answered has a node that will time out, or is being
\* handled (the upper handlers, upper_msg_time_out_resp and the deletions of the
\* lower thread together), however many nodes the queue holds: what may go without
\* either is one that upper_msg_time_que_add_node had no place for, one that was
\* overtaken by the deletion of its like's node, and a picture synthesis.
THEOREM NoneForgotten == Spec => []NodeOrAnswered
<1>1. Init => NodeOrAnswered
  BY DEF Init, NodeOrAnswered
<1>2. IInv /\ NodeOrAnswered /\ [Next]_vars => IInv' /\ NodeOrAnswered'
  BY StepInv, StepNode
<1> QED
  BY <1>1, <1>2, InitInv, PTL DEF Spec
=============================================================================
