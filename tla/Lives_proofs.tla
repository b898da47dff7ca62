---------------------------- MODULE Lives_proofs -----------------------------
(***************************************************************************)
(* Proofs about Lives, for any number of viewers, entries and streams and  *)
(* any size of the queue.                                                  *)
(***************************************************************************)
EXTENDS Lives, Lookup_proofs, FiniteSetTheorems, SequenceTheorems

\* What a step leaves alone is told apart variable by variable.
USE DEF encs

\* An entry in use has a viewer, a free one has none.
Filled == \A i \in Slots : slot[i].flag = "free" <=> slot[i].who = None

\* Between the receipt of a frame and its end the message is a frame.
InFrame ==
    main.pc \in {"deal", "cached", "pkg", "get", "send"} =>
        main.msg \in [kind : Kinds, stream : Streams]

TableType ==
    /\ slot \in [Slots -> Entries]
    /\ told \in [Users -> {"none", "on", "off"}]

MainType ==
    main \in [pc : Places, msg : Messages, type : {"none", "H264", "JPEG"},
              to : UNION {[S -> Users] : S \in SUBSET Slots}]

QueType == que \in Seq(Messages) /\ Len(que) <= QueCap

FlagType ==
    /\ etype \in [Streams -> {"none", "H264", "JPEG"}]
    /\ live \subseteq Streams /\ mode \in BOOLEAN
    /\ cache \in {"none", "held", "freed"}
    /\ bufs \in Int /\ crossed \in 0 .. MaxCross

IInv ==
    /\ TableType /\ MainType /\ QueType /\ FlagType
    /\ InFrame
    /\ Filled /\ Counted /\ SendsToOwner /\ Kept

\* The step of a request, of another thread or of the main thread.
LEMMA Cases ==
    ASSUME [Next]_vars
    PROVE  \/ \E u \in Users : set_lives_user_info(u)
           \/ \E u \in Users : stop_lives_user_info(u)
           \/ \E u \in Users : stop_lives_user_info_unusual(UserId[u])
           \/ stop_lives_user_all_unusual
           \/ \E s \in Streams : set_lives_enc_info(s)
           \/ \E s \in Streams : send_msg_to_live_media(s)
           \/ unregister_room_lives_module
           \/ MainNext
           \/ UNCHANGED vars
BY DEF Next

-----------------------------------------------------------------------------
(* The queue. *)

LEMMA PostType ==
    ASSUME QueType, NEW m \in Messages, Post(m)
    PROVE  QueType'
<1>1. CASE HasRoom
  <2>1. que' = Append(que, m)
    BY <1>1 DEF Post
  <2>2. que' \in Seq(Messages) /\ Len(que') = Len(que) + 1 /\ Len(que) \in Nat
    BY <2>1, AppendProperties, LenProperties DEF QueType
  <2> QED BY <2>2, <1>1, LivesAssumption DEF QueType, HasRoom
<1>2. CASE ~HasRoom
  BY <1>2 DEF Post, QueType
<1> QED BY <1>1, <1>2

LEMMA InterruptionType == Interruption \in Messages
BY DEF Interruption, Messages

LEMMA QueTypeNext ==
    ASSUME QueType, FlagType, [Next]_vars
    PROVE  QueType'
<1> USE InterruptionType
<1>1. ASSUME NEW u \in Users, set_lives_user_info(u) PROVE QueType'
  BY <1>1, PostType DEF set_lives_user_info, SetRefused, SetKnown, SetNew, QueType
<1>2. ASSUME NEW u \in Users, stop_lives_user_info(u) PROVE QueType'
  BY <1>2, PostType DEF stop_lives_user_info, Interrupt, QueType
<1>3. ASSUME NEW u \in Users, stop_lives_user_info_unusual(UserId[u]) PROVE QueType'
  BY <1>3, PostType DEF stop_lives_user_info_unusual, Interrupt, QueType
<1>4. CASE stop_lives_user_all_unusual
  BY <1>4, PostType DEF stop_lives_user_all_unusual, Interrupt, QueType
<1>5. ASSUME NEW s \in Streams, set_lives_enc_info(s) PROVE QueType'
  BY <1>5, PostType DEF set_lives_enc_info
<1>6. ASSUME NEW s \in Streams, send_msg_to_live_media(s) PROVE QueType'
  <2>1. \A t : [kind |-> KindOf(t), stream |-> s] \in Messages
    BY DEF KindOf, Messages, Kinds
  <2> QED BY <1>6, <2>1, PostType DEF send_msg_to_live_media
<1>7. CASE unregister_room_lives_module \/ UNCHANGED vars
  BY <1>7 DEF unregister_room_lives_module, vars, QueType
<1>8. CASE MainNext
  <2>1. CASE Recv
    <3>1. que # <<>> /\ que' = Tail(que)
      BY <2>1 DEF Recv
    <3>2. que' \in Seq(Messages) /\ Len(que') = Len(que) - 1 /\ Len(que) \in Nat
      BY <3>1, HeadTailProperties, LenProperties DEF QueType
    <3> QED BY <3>2, LivesAssumption DEF QueType
  <2>2. CASE Drain
    BY <2>2, LivesAssumption, EmptySeq DEF Drain, QueType
  <2>3. CASE ~Recv /\ ~Drain
    BY <1>8, <2>3 DEF MainNext, Loop, reset_live_mode_user, deal_video_jpeg_data,
       SendCached, local_media_data_pkg, get_send_userinfo, send_video_data_pdg, QueType
  <2> QED BY <2>1, <2>2, <2>3
<1> QED BY <1>1, <1>2, <1>3, <1>4, <1>5, <1>6, <1>7, <1>8, Cases

-----------------------------------------------------------------------------
(* What requests do to the table. *)

LEMMA SlotsFinite ==
    /\ IsFiniteSet(Slots) /\ Slots \subseteq Nat
    /\ \A S \in SUBSET Slots : IsFiniteSet(S)
<1>1. MaxUser \in Int /\ 1 \in Int
  BY LivesAssumption
<1>2. IsFiniteSet(Slots)
  BY <1>1, FS_Interval DEF Slots
<1>3. Slots \subseteq Nat
  BY <1>1 DEF Slots
<1>4. ASSUME NEW S \in SUBSET Slots PROVE IsFiniteSet(S)
  BY <1>2, FS_Subset
<1> QED BY <1>2, <1>3, <1>4

LEMMA FirstOf ==
    ASSUME NEW S \in SUBSET Slots, S # {}
    PROVE  First(S) \in S
BY SlotsFinite, FirstFound

\* Marking entries changes neither who they belong to nor their number.
LEMMA CloseTable ==
    ASSUME IInv, NEW S \in SUBSET Occupied, Close(S)
    PROVE  /\ slot' \in [Slots -> Entries]
           /\ Filled' /\ Occupied' = Occupied
           /\ \A i \in Slots : /\ slot'[i].who = slot[i].who /\ slot'[i].jpeg = slot[i].jpeg
                               /\ slot'[i].got = slot[i].got
                               /\ i \notin S => slot'[i] = slot[i]
           /\ user_num' = user_num
<1>1. \A i \in Slots : slot'[i] = IF i \in S THEN [slot[i] EXCEPT !.flag = "closing"] ELSE slot[i]
  BY DEF Close
<1>2. \A i \in Slots : slot[i] \in Entries
  BY DEF IInv, TableType
<1>3. \A i \in Slots : slot'[i] \in Entries
  BY <1>1, <1>2 DEF Entries
<1>4. slot' \in [Slots -> Entries]
  BY <1>3 DEF Close
<1>5. \A i \in Slots : /\ slot'[i].who = slot[i].who /\ slot'[i].jpeg = slot[i].jpeg
                       /\ slot'[i].got = slot[i].got
                       /\ i \notin S => slot'[i] = slot[i]
                       /\ i \in S => slot'[i].flag = "closing" /\ slot[i].flag # "free"
  BY <1>1, <1>2 DEF Entries, Occupied
<1>6. Filled'
  BY <1>5 DEF IInv, Filled
<1>7. Occupied' = Occupied
  BY <1>5 DEF Occupied
<1> QED BY <1>4, <1>5, <1>6, <1>7 DEF Close

\* The parts of the invariant that the table and the main thread keep together.
Shared == TableType /\ Filled /\ Counted /\ SendsToOwner /\ Kept

\* A request that marks entries, and takes back its answer to their viewers.
LEMMA CloseInv ==
    ASSUME IInv, NEW S \in SUBSET Occupied, Close(S), main' = main,
           told' \in [Users -> {"none", "on", "off"}],
           \A u \in Users : told'[u] = "on" =>
               told[u] = "on" /\ \A i \in S : slot[i].who # u
    PROVE  Shared'
<1>1. TableType' /\ Filled'
  BY CloseTable DEF TableType
<1>2. Counted'
  BY CloseTable DEF IInv, Counted
<1>3. SendsToOwner'
  <2>1. \A i \in DOMAIN main.to : i \in Slots
    BY DEF IInv, MainType
  <2>2. \A i \in Slots : slot'[i].who = slot[i].who
    BY CloseTable
  <2>3. \A i \in Slots : slot[i].flag # "free" => slot'[i].flag # "free"
    BY CloseTable DEF Occupied
  <2> QED BY <2>1, <2>2, <2>3 DEF IInv, SendsToOwner
<1>4. Kept'
  <2> SUFFICES ASSUME NEW u \in Users, told'[u] = "on"
               PROVE  \E i \in Slots : slot'[i].who = u /\ slot'[i].flag = "on"
    BY DEF Kept, EntriesOf
  <2>1. PICK i \in Slots : slot[i].who = u /\ slot[i].flag = "on"
    BY DEF IInv, Kept, EntriesOf
  <2>2. i \notin S
    BY <2>1
  <2> QED BY <2>1, <2>2, CloseTable
<1> QED BY <1>1, <1>2, <1>3, <1>4 DEF Shared

LEMMA EntriesInUse ==
    ASSUME IInv, NEW u \in Users
    PROVE  EntriesOf(u) \subseteq Occupied
BY LivesAssumption DEF IInv, Filled, EntriesOf, Occupied

\* Nothing of the table changes, and no answer is given.
LEMMA SameTable ==
    ASSUME IInv, UNCHANGED <<slot, user_num, main>>,
           told' \in [Users -> {"none", "on", "off"}],
           \A u \in Users : told'[u] = "on" =>
               told[u] = "on" \/ \E i \in EntriesOf(u) : slot[i].flag = "on"
    PROVE  Shared'
BY DEF IInv, Shared, TableType, Filled, Counted, Occupied, SendsToOwner, Kept,
       EntriesOf

LEMMA SetInv ==
    ASSUME IInv, NEW u \in Users, set_lives_user_info(u)
    PROVE  Shared'
<1>1. main' = main /\ told \in [Users -> {"none", "on", "off"}]
  BY DEF set_lives_user_info, IInv, TableType
<1>2. CASE SetRefused(u)
  BY <1>1, <1>2, SameTable DEF SetRefused
<1>3. CASE SetKnown(u)
  <2>1. First(EntriesOf(u)) \in EntriesOf(u)
    BY <1>3, FirstOf DEF SetKnown, EntriesOf
  <2>2. told' \in [Users -> {"none", "on", "off"}]
    BY <1>1, <1>3 DEF SetKnown
  <2>3. \A w \in Users : told'[w] = "on" =>
            told[w] = "on" \/ \E i \in EntriesOf(w) : slot[i].flag = "on"
    BY <1>1, <1>3, <2>1 DEF SetKnown
  <2> QED BY <1>1, <1>3, <2>2, <2>3, SameTable DEF SetKnown
<1>4. CASE SetNew(u)
  <2> DEFINE i == First(Slots \ Occupied)
             e == [flag |-> "on", who |-> u, jpeg |-> "no_send", got |-> FALSE]
  <2>1. i \in Slots \ Occupied
    <3>1. Slots \ Occupied # {}
      BY <1>4 DEF SetNew, Occupied
    <3> QED BY <3>1, FirstOf
  <2>2. slot' = [slot EXCEPT ![i] = e] /\ user_num' = user_num + 1
    BY <1>4 DEF SetNew, Enter
  <2>3. e \in Entries
    BY DEF Entries
  <2> HIDE DEF i
  <2>4. slot' \in [Slots -> Entries]
    BY <2>1, <2>2, <2>3 DEF IInv, TableType
  <2>5. /\ slot'[i].flag = "on" /\ slot'[i].who = u /\ slot'[i].jpeg = "no_send"
        /\ \A k \in Slots : k # i => slot'[k] = slot[k]
    BY <2>1, <2>2 DEF IInv, TableType
  <2>6. told' \in [Users -> {"none", "on", "off"}]
    BY <1>1, <1>4 DEF SetNew
  <2>7. Filled'
    BY <2>5, LivesAssumption DEF IInv, Filled
  <2>8. Counted'
    <3>1. Occupied' = Occupied \cup {i}
      BY <2>1, <2>5 DEF Occupied
    <3>2. Occupied \in SUBSET Slots /\ IsFiniteSet(Occupied)
      BY SlotsFinite DEF Occupied
    <3>3. Cardinality(Occupied') = Cardinality(Occupied) + 1
      BY <2>1, <3>1, <3>2, FS_AddElement
    <3> QED BY <2>2, <3>3 DEF IInv, Counted
  <2>9. SendsToOwner'
    <3>1. \A k \in DOMAIN main.to : k \in Slots /\ k # i
      BY <2>1 DEF IInv, MainType, SendsToOwner, Occupied
    <3> QED BY <1>1, <2>5, <3>1 DEF IInv, SendsToOwner
  <2>10. Kept'
    <3> SUFFICES ASSUME NEW w \in Users, told'[w] = "on"
                 PROVE  \E k \in Slots : slot'[k].who = w /\ slot'[k].flag = "on"
      BY DEF Kept, EntriesOf
    <3>1. CASE w = u
      BY <2>1, <2>5, <3>1
    <3>2. CASE w # u
      <4>1. told[w] = "on"
        BY <1>1, <1>4, <3>2 DEF SetNew
      <4>2. PICK k \in Slots : slot[k].who = w /\ slot[k].flag = "on"
        BY <4>1 DEF IInv, Kept, EntriesOf
      <4>3. k # i
        BY <2>1, <4>2 DEF Occupied
      <4> QED BY <2>5, <4>2, <4>3
    <3> QED BY <3>1, <3>2
  <2> QED BY <2>4, <2>6, <2>7, <2>8, <2>9, <2>10 DEF Shared, TableType
<1> QED BY <1>2, <1>3, <1>4 DEF set_lives_user_info

LEMMA StopInv ==
    ASSUME IInv, NEW u \in Users, stop_lives_user_info(u)
    PROVE  Shared'
<1>1. main' = main /\ told \in [Users -> {"none", "on", "off"}]
  BY DEF stop_lives_user_info, IInv, TableType
<1>2. /\ told' \in [Users -> {"none", "on", "off"}]
      /\ told'[u] # "on" /\ \A w \in Users : w # u => told'[w] = told[w]
  BY <1>1 DEF stop_lives_user_info, Unanswered
<1>3. CASE UNCHANGED <<slot, user_num, que>>
  BY <1>1, <1>2, <1>3, SameTable
<1>4. CASE EntriesOf(u) # {} /\ Interrupt({First(EntriesOf(u))})
  <2>1. First(EntriesOf(u)) \in EntriesOf(u)
    BY <1>4, FirstOf DEF EntriesOf
  <2>2. {First(EntriesOf(u))} \in SUBSET Occupied
    BY <2>1, EntriesInUse
  <2>3. \A w \in Users : told'[w] = "on" =>
            told[w] = "on" /\ \A i \in {First(EntriesOf(u))} : slot[i].who # w
    BY <1>2, <2>1 DEF EntriesOf
  <2> QED BY <1>1, <1>2, <1>4, <2>2, <2>3, CloseInv DEF Interrupt
<1> QED BY <1>3, <1>4 DEF stop_lives_user_info

LEMMA StopUnusualInv ==
    ASSUME IInv, NEW n, stop_lives_user_info_unusual(n)
    PROVE  Shared'
<1> DEFINE its == {i \in Occupied : user_num # 0 /\ UserId[slot[i].who] = n}
<1>1. main' = main /\ told \in [Users -> {"none", "on", "off"}]
  BY DEF stop_lives_user_info_unusual, IInv, TableType
<1>2. told' \in [Users -> {"none", "on", "off"}]
  BY <1>1 DEF stop_lives_user_info_unusual
<1>3. \A w \in Users : told'[w] = "on" => told[w] = "on" /\ UserId[w] # n
  BY <1>1 DEF stop_lives_user_info_unusual
<1>4. CASE its = {}
  BY <1>1, <1>2, <1>3, <1>4, SameTable DEF stop_lives_user_info_unusual
<1>5. CASE its # {}
  <2>1. Interrupt({First(its)})
    BY <1>5 DEF stop_lives_user_info_unusual
  <2>2. First(its) \in its
    BY <1>5, FirstOf DEF Occupied
  <2>3. \A w \in Users : told'[w] = "on" =>
            told[w] = "on" /\ \A i \in {First(its)} : slot[i].who # w
    BY <1>3, <2>2
  <2> QED BY <1>1, <1>2, <2>1, <2>2, <2>3, CloseInv DEF Interrupt
<1> QED BY <1>4, <1>5

LEMMA StopAllInv ==
    ASSUME IInv, stop_lives_user_all_unusual
    PROVE  Shared'
<1>1. main' = main /\ told \in [Users -> {"none", "on", "off"}]
  BY DEF stop_lives_user_all_unusual, IInv, TableType
<1>2. /\ told' \in [Users -> {"none", "on", "off"}]
      /\ \A w \in Users : told'[w] # "on"
  BY <1>1 DEF stop_lives_user_all_unusual, Unanswered
<1> QED BY <1>1, <1>2, CloseInv DEF stop_lives_user_all_unusual, Interrupt

-----------------------------------------------------------------------------
(* The main thread. *)

\* Only the interruption gives entries back, and only those that are marked.
LEMMA ResetInv ==
    ASSUME IInv, reset_live_mode_user
    PROVE  Shared'
<1>1. \A i \in Slots : slot'[i] = IF i \in Closing THEN FreeEntry ELSE slot[i]
  BY DEF reset_live_mode_user
<1>2. FreeEntry \in Entries /\ FreeEntry.flag = "free" /\ FreeEntry.who = None
      /\ FreeEntry.jpeg = "invalid"
  BY DEF FreeEntry, Entries
<1>3. TableType'
  BY <1>2 DEF reset_live_mode_user, IInv, TableType
<1>4. Filled'
  BY <1>1, <1>2 DEF IInv, Filled
<1>5. Counted'
  <2>1. Occupied' = Occupied \ Closing
    BY <1>1, <1>2 DEF Occupied, Closing
  <2>2. Closing \subseteq Occupied /\ Occupied \in SUBSET Slots
    BY DEF Closing, Occupied
  <2>3. IsFiniteSet(Closing) /\ IsFiniteSet(Occupied \ Closing)
    BY <2>2, SlotsFinite
  <2>4. (Occupied \ Closing) \cup Closing = Occupied /\ (Occupied \ Closing) \cap Closing = {}
    BY <2>2
  <2>5. Cardinality(Occupied) =
            Cardinality(Occupied \ Closing) + Cardinality(Closing) - Cardinality({})
    BY <2>3, <2>4, FS_Union
  <2>6. Cardinality(Closing) \in Nat /\ Cardinality(Occupied \ Closing) \in Nat
        /\ Cardinality({}) = 0
    BY <2>3, FS_CardinalityType, FS_EmptySet
  <2> QED BY <2>1, <2>5, <2>6 DEF IInv, Counted, reset_live_mode_user
<1>6. SendsToOwner'
  BY DEF reset_live_mode_user, Idle, Nobody, SendsToOwner
<1>7. Kept'
  BY <1>1 DEF IInv, Kept, EntriesOf, Closing, reset_live_mode_user
<1> QED BY <1>3, <1>4, <1>5, <1>6, <1>7 DEF Shared

\* The flags are set in the entries of the viewers that were sent to.
LEMMA MarkTable ==
    ASSUME IInv, NEW picture \in BOOLEAN, MarkSent(picture)
    PROVE  /\ slot' \in [Slots -> Entries]
           /\ \A i \in Slots : slot'[i].flag = slot[i].flag /\ slot'[i].who = slot[i].who
           /\ \A i \in Slots : \/ slot'[i] = slot[i]
                               \/ picture => slot'[i].got
<1>1. \A i \in Slots : slot'[i] =
          IF i \in DOMAIN main.to
          THEN [slot[i] EXCEPT !.jpeg = "send",
                               !.got = @ \/ (picture /\ slot[i].who = main.to[i])]
          ELSE slot[i]
  BY DEF MarkSent
<1>2. \A i \in DOMAIN main.to : slot[i].who = main.to[i]
  BY DEF IInv, SendsToOwner
<1>3. \A i \in Slots : slot[i] \in Entries
  BY DEF IInv, TableType
<1>4. ASSUME NEW i \in Slots, i \in DOMAIN main.to
      PROVE  /\ slot'[i] \in Entries
             /\ picture => slot'[i].got
             /\ slot'[i].flag = slot[i].flag /\ slot'[i].who = slot[i].who
  <2>1. PICK b \in BOOLEAN : b = (slot[i].got \/ (picture /\ slot[i].who = main.to[i]))
    OBVIOUS
  <2>2. slot'[i] = [slot[i] EXCEPT !.jpeg = "send", !.got = b]
    BY <1>1, <1>4, <2>1
  <2>3. picture => b
    BY <1>2, <1>4, <2>1
  <2> QED BY <1>3, <2>2, <2>3 DEF Entries
<1>5. \A i \in Slots : slot'[i] \in Entries
  BY <1>1, <1>3, <1>4
<1>6. slot' \in [Slots -> Entries]
  BY <1>5 DEF MarkSent
<1> QED BY <1>1, <1>4, <1>6

\* A step that leaves the owners of the entries alone, and whose receivers
\* are the owners.
LEMMA MainShared ==
    ASSUME IInv, UNCHANGED <<user_num, told>>,
           slot' \in [Slots -> Entries],
           \A i \in Slots : slot'[i].flag = slot[i].flag /\ slot'[i].who = slot[i].who,
           \A i \in DOMAIN main'.to :
               i \in Slots /\ slot[i].flag # "free" /\ slot[i].who = main'.to[i]
    PROVE  Shared'
<1>1. TableType' /\ Filled'
  BY DEF IInv, TableType, Filled
<1>2. Occupied' = Occupied
  BY DEF Occupied
<1>3. Counted'
  BY <1>2 DEF IInv, Counted
<1>4. SendsToOwner'
  BY DEF SendsToOwner
<1>5. Kept'
  BY DEF IInv, Kept, EntriesOf
<1> QED BY <1>1, <1>3, <1>4, <1>5 DEF Shared

LEMMA ReceiversOwn ==
    ASSUME IInv, NEW S \in SUBSET Occupied
    PROVE  /\ Receivers(S) \in UNION {[T -> Users] : T \in SUBSET Slots}
           /\ DOMAIN Receivers(S) = S
           /\ \A i \in S : i \in Slots /\ slot[i].flag # "free" /\ slot[i].who = Receivers(S)[i]
<1>1. S \in SUBSET Slots /\ \A i \in S : i \in Slots /\ slot[i].flag # "free"
  BY DEF Occupied
<1>2. \A i \in S : slot[i].who \in Users
  BY <1>1 DEF IInv, TableType, Entries, Filled
<1>3. Receivers(S) \in [S -> Users]
  BY <1>2 DEF Receivers
<1> QED BY <1>1, <1>3 DEF Receivers

LEMMA NobodyType ==
    Nobody \in UNION {[T -> Users] : T \in SUBSET Slots} /\ DOMAIN Nobody = {}
<1>1. Nobody \in [{} -> Users]
  BY DEF Nobody
<1> QED BY <1>1 DEF Nobody

LEMMA IdleType ==
    /\ Idle \in [pc : Places, msg : Messages, type : {"none", "H264", "JPEG"},
                 to : UNION {[T -> Users] : T \in SUBSET Slots}]
    /\ Idle.to = Nobody /\ DOMAIN Idle.to = {}
BY NobodyType, InterruptionType DEF Idle, Places

LEMMA MainInv ==
    ASSUME IInv, MainNext
    PROVE  Shared' /\ MainType'
<1> DEFINE MT == [pc : Places, msg : Messages, type : {"none", "H264", "JPEG"},
                  to : UNION {[T -> Users] : T \in SUBSET Slots}]
<1> USE IdleType, NobodyType
<1>0. main \in MT /\ slot \in [Slots -> Entries]
      /\ (\A i \in DOMAIN main.to :
            i \in Slots /\ slot[i].flag # "free" /\ slot[i].who = main.to[i])
  BY DEF IInv, MainType, TableType, SendsToOwner
<1>1. CASE Loop
  <2>1. main' \in MT /\ main'.to = Nobody
    BY <1>1 DEF Loop, Places
  <2>2. UNCHANGED <<slot, user_num, told>>
    BY <1>1 DEF Loop
  <2> QED BY <1>0, <2>1, <2>2, MainShared DEF MainType
<1>2. CASE Recv
  <2>1. Head(que) \in Messages
    BY <1>2, HeadTailProperties DEF Recv, IInv, QueType
  <2>2. main' \in MT /\ main'.to = main.to
    BY <1>0, <1>2, <2>1 DEF Recv, Places
  <2>3. UNCHANGED <<slot, user_num, told>>
    BY <1>2 DEF Recv
  <2> QED BY <1>0, <2>2, <2>3, MainShared DEF MainType
<1>3. CASE reset_live_mode_user
  BY <1>3, ResetInv DEF reset_live_mode_user, MainType
<1>4. CASE deal_video_jpeg_data
  <2>1. PICK S \in SUBSET Occupied :
            main' = [main EXCEPT !.pc = IF S = {} THEN "pkg" ELSE "cached",
                                 !.to = Receivers(S)]
    BY <1>4 DEF deal_video_jpeg_data, get_send_userinfo_jpeg
  <2>2. main' \in MT /\ main'.to = Receivers(S)
    BY <1>0, <2>1, ReceiversOwn DEF Places
  <2>3. UNCHANGED <<slot, user_num, told>>
    BY <1>4 DEF deal_video_jpeg_data
  <2> QED BY <1>0, <2>2, <2>3, ReceiversOwn, MainShared DEF MainType
<1>5. CASE SendCached
  <2>1. main' \in MT /\ main'.to = Nobody
    BY <1>0, <1>5 DEF SendCached, Places
  <2>2. UNCHANGED <<user_num, told>> /\ MarkSent(cache = "held")
    BY <1>5 DEF SendCached
  <2> QED BY <2>1, <2>2, MarkTable, MainShared DEF MainType
<1>6. CASE local_media_data_pkg
  <2>1. UNCHANGED <<slot, user_num, told>>
    BY <1>6 DEF local_media_data_pkg
  <2>2. CASE main' = Idle
    BY <1>0, <2>1, <2>2, MainShared DEF MainType
  <2>3. CASE main' # Idle
    <3>1. main' = [main EXCEPT !.pc = "get", !.type = etype[main.msg.stream]]
          /\ etype[main.msg.stream] # "none"
      BY <1>6, <2>3 DEF local_media_data_pkg
    <3>2. etype[main.msg.stream] \in {"none", "H264", "JPEG"}
      <4>1. main.pc = "pkg" /\ main.msg \in Messages
        BY <1>0, <1>6 DEF local_media_data_pkg
      <4> QED BY <4>1 DEF IInv, FlagType, Messages, InFrame
    <3>3. main' \in MT /\ main'.to = main.to
      BY <1>0, <3>1, <3>2 DEF Places
    <3> QED BY <1>0, <2>1, <3>3, MainShared DEF MainType
  <2> QED BY <2>2, <2>3
<1>7. CASE get_send_userinfo
  <2> DEFINE S == {i \in Occupied : distinguish_send_flag(slot[i].who)}
  <2>1. UNCHANGED <<slot, user_num, told>>
    BY <1>7 DEF get_send_userinfo
  <2>2. CASE main' = Idle
    BY <1>0, <2>1, <2>2, MainShared DEF MainType
  <2>3. CASE main' # Idle
    <3>1. main' = [main EXCEPT !.pc = "send", !.to = Receivers(S)]
      BY <1>7, <2>3 DEF get_send_userinfo
    <3>2. S \in SUBSET Occupied
      OBVIOUS
    <3> HIDE DEF S
    <3>3. main' \in MT /\ main'.to = Receivers(S)
      BY <1>0, <3>1, <3>2, ReceiversOwn DEF Places
    <3> QED BY <1>0, <2>1, <3>2, <3>3, ReceiversOwn, MainShared DEF MainType
  <2> QED BY <2>2, <2>3
<1>8. CASE send_video_data_pdg
  <2>1. main' = Idle /\ UNCHANGED <<user_num, told>>
    BY <1>8 DEF send_video_data_pdg
  <2>2. CASE MarkSent(IsJpeg)
    <3>1. IsJpeg \in BOOLEAN
      BY DEF IsJpeg
    <3> QED BY <2>1, <2>2, <3>1, MarkTable, MainShared DEF MainType
  <2>3. CASE UNCHANGED slot
    BY <1>0, <2>1, <2>3, MainShared DEF MainType
  <2> QED BY <1>8, <2>2, <2>3 DEF send_video_data_pdg
<1>9. CASE Drain
  <2>1. main' \in MT /\ main'.to = Nobody
    BY <1>9 DEF Drain, Places
  <2>2. UNCHANGED <<slot, user_num, told>>
    BY <1>9 DEF Drain
  <2> QED BY <1>0, <2>1, <2>2, MainShared DEF MainType
<1> QED
  BY <1>1, <1>2, <1>3, <1>4, <1>5, <1>6, <1>7, <1>8, <1>9 DEF MainNext

LEMMA InFrameNext ==
    ASSUME IInv, [Next]_vars
    PROVE  InFrame'
<1> USE DEF InFrame
<1>1. CASE main' = main
  BY <1>1 DEF IInv
<1>2. CASE MainNext
  <2>1. CASE Recv
    <3>1. Head(que) \in Messages
      BY <2>1, HeadTailProperties DEF Recv, IInv, QueType
    <3>2. main'.msg = Head(que) /\ (main'.pc # "reset" => Head(que) # Interruption)
      BY <2>1 DEF Recv, IInv, MainType
    <3> QED BY <2>1, <3>1, <3>2 DEF Recv, Messages, IInv, MainType
  <2>2. CASE Loop \/ Drain
    BY <2>2 DEF Loop, Drain, Idle
  <2>3. CASE main' = Idle
    BY <2>3 DEF Idle
  <2>4. CASE /\ main.pc \in {"deal", "cached", "pkg", "get"}
             /\ main'.msg = main.msg
    BY <2>4 DEF IInv
  <2> QED
    BY <1>2, <2>1, <2>2, <2>3, <2>4 DEF MainNext, reset_live_mode_user,
       deal_video_jpeg_data, SendCached, local_media_data_pkg, get_send_userinfo,
       send_video_data_pdg, IInv, MainType
<1> QED
  BY <1>1, <1>2, Cases DEF set_lives_user_info, stop_lives_user_info,
     stop_lives_user_info_unusual, stop_lives_user_all_unusual, set_lives_enc_info,
     send_msg_to_live_media, unregister_room_lives_module, vars

-----------------------------------------------------------------------------
(* The frames in the queue. *)

LEMMA FramesFinite ==
    ASSUME NEW q \in Seq(Messages)
    PROVE  IsFiniteSet(Frames(q)) /\ Cardinality(Frames(q)) \in Nat
<1>1. DOMAIN q = 1 .. Len(q) /\ Len(q) \in Nat
  BY LenProperties
<1>2. IsFiniteSet(1 .. Len(q))
  BY <1>1, FS_Interval
<1>3. Frames(q) \in SUBSET (1 .. Len(q))
  BY <1>1 DEF Frames
<1>4. IsFiniteSet(Frames(q))
  BY <1>2, <1>3, FS_Subset
<1> QED BY <1>4, FS_CardinalityType

LEMMA FlagTypeNext ==
    ASSUME IInv, [Next]_vars
    PROVE  FlagType'
<1>1. Cardinality(Frames(que)) \in Nat
  BY FramesFinite DEF IInv, QueType
<1>2. CASE UNCHANGED <<encs, live, mode, cache, bufs>>
  BY <1>2 DEF IInv, FlagType
<1>3. ASSUME NEW u \in Users, set_lives_user_info(u) PROVE FlagType'
  BY <1>3, LivesAssumption DEF set_lives_user_info, IInv, FlagType
<1>4. ASSUME NEW s \in Streams, set_lives_enc_info(s) PROVE FlagType'
  BY <1>4, LivesAssumption DEF set_lives_enc_info, Cross, IInv, FlagType
<1>5. ASSUME NEW s \in Streams, send_msg_to_live_media(s) PROVE FlagType'
  BY <1>5, LivesAssumption DEF send_msg_to_live_media, Cross, Freed, IInv, FlagType
<1>6. CASE unregister_room_lives_module
  BY <1>6 DEF unregister_room_lives_module, IInv, FlagType
<1>7. CASE local_media_data_pkg
  BY <1>7 DEF local_media_data_pkg, Freed, IInv, FlagType
<1>8. CASE get_send_userinfo
  BY <1>8 DEF get_send_userinfo, Freed, IInv, FlagType
<1>9. CASE send_video_data_pdg
  BY <1>9 DEF send_video_data_pdg, Freed, IInv, FlagType
<1>10. CASE Drain
  BY <1>1, <1>10 DEF Drain, Freed, IInv, FlagType
<1>11. CASE Loop \/ Recv \/ reset_live_mode_user \/ deal_video_jpeg_data \/ SendCached
  BY <1>2, <1>11 DEF Loop, Recv, reset_live_mode_user, deal_video_jpeg_data, SendCached
<1>12. CASE MainNext
  BY <1>7, <1>8, <1>9, <1>10, <1>11, <1>12 DEF MainNext
<1> QED
  BY <1>2, <1>3, <1>4, <1>5, <1>6, <1>12, Cases DEF stop_lives_user_info,
     stop_lives_user_info_unusual, stop_lives_user_all_unusual, vars

-----------------------------------------------------------------------------
(* The invariant. *)

LEMMA InitInv == Init => IInv
<1> SUFFICES ASSUME Init PROVE IInv
  OBVIOUS
<1>1. FreeEntry \in Entries /\ FreeEntry.flag = "free" /\ FreeEntry.who = None
      /\ FreeEntry.jpeg = "invalid"
  BY DEF FreeEntry, Entries
<1>2. TableType /\ Filled
  BY <1>1 DEF Init, TableType, Filled
<1>3. MainType /\ InFrame /\ SendsToOwner
  BY IdleType DEF Init, MainType, InFrame, SendsToOwner, Idle
<1>4. QueType /\ FlagType
  BY LivesAssumption, EmptySeq DEF Init, QueType, FlagType
<1>5. Occupied = {}
  BY <1>1 DEF Init, Occupied
<1>6. Counted /\ Kept
  BY <1>5, FS_EmptySet DEF Init, Counted, Kept
<1> QED BY <1>2, <1>3, <1>4, <1>6 DEF IInv

LEMMA NextInv == IInv /\ [Next]_vars => IInv'
<1> SUFFICES ASSUME IInv, [Next]_vars PROVE IInv'
  OBVIOUS
<1>1. QueType' /\ FlagType' /\ InFrame'
  BY QueTypeNext, FlagTypeNext, InFrameNext DEF IInv
<1>2. CASE MainNext
  BY <1>1, <1>2, MainInv DEF IInv, Shared
<1>3. CASE main' = main /\ Shared'
  BY <1>1, <1>3 DEF IInv, Shared, MainType
<1>4. ASSUME NEW u \in Users,
             \/ set_lives_user_info(u) \/ stop_lives_user_info(u)
             \/ stop_lives_user_info_unusual(UserId[u])
      PROVE  IInv'
  BY <1>3, <1>4, SetInv, StopInv, StopUnusualInv DEF set_lives_user_info,
     stop_lives_user_info, stop_lives_user_info_unusual
<1>5. CASE stop_lives_user_all_unusual
  BY <1>3, <1>5, StopAllInv DEF stop_lives_user_all_unusual
<1>6. CASE UNCHANGED <<slot, user_num, main, told>>
  BY <1>3, <1>6, SameTable DEF IInv, TableType
<1> QED
  BY <1>2, <1>4, <1>5, <1>6, Cases DEF set_lives_enc_info, send_msg_to_live_media,
     unregister_room_lives_module, vars

LEMMA AlwaysInv == Spec => []IInv
  BY InitInv, NextInv, PTL DEF Spec

\* Types: the count of viewers stays within the table and the queue within its
\* capacity.
THEOREM TypeCorrect == Spec => []TypeOK
<1>1. IInv => TypeOK
  <2> SUFFICES ASSUME IInv PROVE TypeOK
    OBVIOUS
  <2>1. Occupied \in SUBSET Slots /\ IsFiniteSet(Slots)
    BY SlotsFinite DEF Occupied
  <2>2. Cardinality(Occupied) <= Cardinality(Slots) /\ Cardinality(Occupied) \in Nat
    BY <2>1, FS_Subset, FS_CardinalityType
  <2>3. Cardinality(Slots) = MaxUser
    BY FS_Interval, LivesAssumption DEF Slots
  <2> QED
    BY <2>2, <2>3, LivesAssumption DEF IInv, TypeOK, TableType, MainType, QueType,
       FlagType, Counted
<1> QED BY <1>1, AlwaysInv, PTL

\* user_num is the number of entries in use, whichever thread takes and clears them.
THEOREM AlwaysCounted == Spec => []Counted
<1>1. IInv => Counted
  BY DEF IInv
<1> QED BY <1>1, AlwaysInv, PTL

\* The main thread sends, without the mutex, only to entries that are still their
\* viewers'.
THEOREM AlwaysSendsToOwner == Spec => []SendsToOwner
<1>1. IInv => SendsToOwner
  BY DEF IInv
<1> QED BY <1>1, AlwaysInv, PTL

\* A viewer answered with success, not being stopped at that moment, is served
\* until somebody asks for its end.
THEOREM AlwaysKept == Spec => []Kept
<1>1. IInv => Kept
  BY DEF IInv
<1> QED BY <1>1, AlwaysInv, PTL

-----------------------------------------------------------------------------
(* Buffers and pictures. *)

Fits(m) == ~Misfit(m, etype)

\* Until frames meet another type than their own, what is on its way is of the
\* kind its encoder's type gives, the type the main thread has read goes with the
\* frame it has read it for, and a picture that is sent again is there.
ProperKinds ==
    InKind =>
        /\ \A k \in DOMAIN que : que[k] # Interruption => Fits(que[k])
        /\ main.pc \in {"deal", "cached", "pkg"} => Fits(main.msg)
        /\ main.pc \in {"get", "send"} => main.msg.kind = KindOf(main.type)
        /\ main.pc = "cached" => cache # "none"

LEMMA FramesAppend ==
    ASSUME NEW q \in Seq(Messages), NEW m \in Messages
    PROVE  Cardinality(Frames(Append(q, m))) =
               IF m = Interruption THEN Cardinality(Frames(q)) ELSE Cardinality(Frames(q)) + 1
<1>1. /\ Append(q, m) \in Seq(Messages) /\ Len(Append(q, m)) = Len(q) + 1 /\ Len(q) \in Nat
      /\ \A k \in 1 .. Len(q) : Append(q, m)[k] = q[k]
      /\ Append(q, m)[Len(q) + 1] = m
  BY AppendProperties, LenProperties
<1>2. DOMAIN Append(q, m) = 1 .. Len(q) + 1 /\ DOMAIN q = 1 .. Len(q)
  BY <1>1, LenProperties
<1>3. CASE m = Interruption
  <2>1. Frames(Append(q, m)) = Frames(q)
    BY <1>1, <1>2, <1>3 DEF Frames
  <2> QED BY <1>3, <2>1
<1>4. CASE m # Interruption
  <2>1. Frames(Append(q, m)) = Frames(q) \cup {Len(q) + 1}
    BY <1>1, <1>2, <1>4 DEF Frames
  <2>2. Len(q) + 1 \notin Frames(q)
    BY <1>1, <1>2 DEF Frames
  <2> QED BY <1>4, <2>1, <2>2, FramesFinite, FS_AddElement
<1> QED BY <1>3, <1>4

LEMMA FramesTail ==
    ASSUME NEW q \in Seq(Messages), q # <<>>
    PROVE  Cardinality(Frames(q)) =
               IF Head(q) = Interruption THEN Cardinality(Frames(Tail(q)))
               ELSE Cardinality(Frames(Tail(q))) + 1
<1> DEFINE r == Tail(q)
           f == [k \in Frames(r) |-> k + 1]
           rest == Frames(q) \ {1}
<1>1. /\ r \in Seq(Messages) /\ Len(r) = Len(q) - 1 /\ Len(q) \in Nat \ {0}
      /\ \A k \in 1 .. Len(r) : r[k] = q[k + 1]
      /\ Head(q) = q[1]
  BY HeadTailProperties, LenProperties, EmptySeq
<1>2. DOMAIN r = 1 .. Len(q) - 1 /\ DOMAIN q = 1 .. Len(q)
  BY <1>1, LenProperties
<1>3. f \in Bijection(Frames(r), rest)
  <2>1. \A k \in Frames(r) : k + 1 \in rest
    BY <1>1, <1>2 DEF Frames
  <2>2. f \in [Frames(r) -> rest]
    BY <2>1
  <2>3. \A a, b \in Frames(r) : f[a] = f[b] => a = b
    BY <1>2 DEF Frames
  <2>4. ASSUME NEW k \in rest PROVE \E a \in Frames(r) : f[a] = k
    <3>1. k \in 2 .. Len(q) /\ q[k] # Interruption
      BY <1>1, <1>2 DEF Frames
    <3>2. k - 1 \in 1 .. Len(r) /\ r[k - 1] = q[k]
      BY <1>1, <3>1
    <3>3. k - 1 \in Frames(r)
      BY <1>1, <1>2, <3>1, <3>2 DEF Frames
    <3> QED BY <3>1, <3>3
  <2>5. f \in Injection(Frames(r), rest)
    BY <2>2, <2>3 DEF Injection, IsInjective
  <2>6. f \in Surjection(Frames(r), rest)
    BY <2>2, <2>4 DEF Surjection
  <2> QED BY <2>5, <2>6 DEF Bijection
<1>4. Cardinality(rest) = Cardinality(Frames(r))
  <2>1. ExistsBijection(Frames(r), rest)
    BY <1>3 DEF ExistsBijection
  <2>2. IsFiniteSet(Frames(r))
    BY <1>1, FramesFinite
  <2> QED BY <2>1, <2>2, FS_Bijection
<1>5. 1 \in Frames(q) <=> Head(q) # Interruption
  BY <1>1, <1>2 DEF Frames
<1>6. /\ IsFiniteSet(Frames(q)) /\ Cardinality(Frames(q)) \in Nat
      /\ Cardinality(rest) = IF 1 \in Frames(q) THEN Cardinality(Frames(q)) - 1
                             ELSE Cardinality(Frames(q))
  BY FramesFinite, FS_RemoveElement
<1> QED BY <1>4, <1>5, <1>6

LEMMA QuePost ==
    ASSUME IInv, NEW m \in Messages, Post(m)
    PROVE  \A k \in DOMAIN que' : que'[k] = m \/ \E l \in DOMAIN que : que'[k] = que[l]
<1>1. CASE HasRoom
  <2>1. que' = Append(que, m) /\ que \in Seq(Messages)
    BY <1>1 DEF Post, IInv, QueType
  <2>2. /\ que' \in Seq(Messages) /\ Len(que') = Len(que) + 1 /\ Len(que) \in Nat
        /\ \A k \in 1 .. Len(que) : que'[k] = que[k]
        /\ que'[Len(que) + 1] = m
    BY <2>1, AppendProperties, LenProperties
  <2>3. DOMAIN que' = 1 .. Len(que) + 1 /\ DOMAIN que = 1 .. Len(que)
    BY <2>1, <2>2, LenProperties
  <2> QED BY <2>2, <2>3
<1>2. CASE ~HasRoom
  BY <1>2 DEF Post
<1> QED BY <1>1, <1>2

LEMMA RequestsPost ==
    ASSUME [Next]_vars
    PROVE  \/ Post(Interruption) /\ UNCHANGED <<main, bufs, cache>>
              /\ (encs' = encs \/ \E s \in Streams : set_lives_enc_info(s))
           \/ UNCHANGED <<que, main, bufs, cache, encs>>
           \/ \E s \in Streams : send_msg_to_live_media(s)
           \/ MainNext
<1>1. ASSUME NEW u \in Users, set_lives_user_info(u)
      PROVE  /\ Post(Interruption) \/ UNCHANGED que
             /\ UNCHANGED <<main, bufs, cache, encs>>
  BY <1>1 DEF set_lives_user_info, SetRefused, SetKnown, SetNew
<1>2. ASSUME NEW u \in Users, stop_lives_user_info(u)
      PROVE  /\ Post(Interruption) \/ UNCHANGED que
             /\ UNCHANGED <<main, bufs, cache, encs>>
  BY <1>2 DEF stop_lives_user_info, Interrupt
<1>3. ASSUME NEW u \in Users, stop_lives_user_info_unusual(UserId[u])
      PROVE  /\ Post(Interruption) \/ UNCHANGED que
             /\ UNCHANGED <<main, bufs, cache, encs>>
  BY <1>3 DEF stop_lives_user_info_unusual, Interrupt
<1>4. CASE stop_lives_user_all_unusual
  BY <1>4 DEF stop_lives_user_all_unusual, Interrupt
<1>5. ASSUME NEW s \in Streams, set_lives_enc_info(s)
      PROVE  Post(Interruption) /\ UNCHANGED <<main, bufs, cache>>
  BY <1>5 DEF set_lives_enc_info
<1>6. CASE unregister_room_lives_module \/ UNCHANGED vars
  BY <1>6 DEF unregister_room_lives_module, vars
<1> QED BY <1>1, <1>2, <1>3, <1>4, <1>5, <1>6, Cases

\* What has met another type stays so.
LEMMA InKindBefore ==
    ASSUME IInv, [Next]_vars
    PROVE  /\ InKind' => InKind
           /\ crossed' # crossed => \E s \in Streams :
                  set_lives_enc_info(s) \/ send_msg_to_live_media(s)
<1>1. crossed \in Nat
  BY LivesAssumption DEF IInv, FlagType
<1>2. ASSUME NEW s \in Streams, set_lives_enc_info(s) \/ send_msg_to_live_media(s)
      PROVE  crossed' \in {crossed, crossed + 1}
  <2>1. PICK b \in BOOLEAN : crossed' = crossed + (IF b THEN 1 ELSE 0)
    <3>1. CASE set_lives_enc_info(s)
      <4>1. Cross(\E m \in InFlight : Misfit(m, etype'))
        BY <3>1 DEF set_lives_enc_info
      <4> QED BY <4>1 DEF Cross
    <3>2. CASE send_msg_to_live_media(s)
      <4>1. PICK t \in Types[s] : Cross(Misfit([kind |-> KindOf(t), stream |-> s], etype))
        BY <3>2 DEF send_msg_to_live_media
      <4> QED BY <4>1 DEF Cross
    <3> QED BY <1>2, <3>1, <3>2
  <2> QED BY <1>1, <2>1
<1>3. crossed' = crossed \/ \E s \in Streams :
          set_lives_enc_info(s) \/ send_msg_to_live_media(s)
  BY Cases DEF set_lives_user_info, stop_lives_user_info, stop_lives_user_info_unusual,
     stop_lives_user_all_unusual, unregister_room_lives_module, MainNext, Loop, Recv,
     reset_live_mode_user, deal_video_jpeg_data, SendCached, local_media_data_pkg,
     get_send_userinfo, send_video_data_pdg, Drain, vars
<1> QED BY <1>1, <1>2, <1>3 DEF InKind

\* Every frame on its way is of the kind of its encoder's type.
LEMMA ProperNext ==
    ASSUME IInv, ProperKinds, [Next]_vars
    PROVE  ProperKinds'
<1> USE InterruptionType
<1> SUFFICES ASSUME InKind' PROVE ProperKinds'
  BY DEF ProperKinds
<1>0. InKind /\ crossed \in Nat
  BY InKindBefore, LivesAssumption DEF IInv, FlagType
<1>1. CASE Post(Interruption) /\ UNCHANGED <<main, cache>> /\ encs' = encs
  <2>1. \A k \in DOMAIN que' : que'[k] # Interruption => Fits(que'[k])
    BY <1>0, <1>1, QuePost DEF ProperKinds
  <2> QED BY <1>0, <1>1, <2>1 DEF ProperKinds, Fits
<1>2. ASSUME NEW s \in Streams, set_lives_enc_info(s) PROVE ProperKinds'
  <2>1. /\ Cross(\E m \in InFlight : Misfit(m, etype'))
        /\ Post(Interruption) /\ UNCHANGED <<main, cache>>
    BY <1>2 DEF set_lives_enc_info
  <2>2. \A m \in InFlight : ~Misfit(m, etype')
    BY <1>0, <2>1 DEF Cross, InKind
  <2>3. \A l \in DOMAIN que : que[l] # Interruption => que[l] \in InFlight
    BY DEF InFlight, Frames
  <2>4. \A k \in DOMAIN que' : que'[k] # Interruption => ~Misfit(que'[k], etype')
    BY <2>1, <2>2, <2>3, QuePost
  <2>5. main.pc \in {"deal", "cached", "pkg"} => ~Misfit(main.msg, etype')
    BY <2>2 DEF InFlight
  <2> QED BY <1>0, <2>1, <2>4, <2>5 DEF ProperKinds, Fits
<1>3. ASSUME NEW s \in Streams, send_msg_to_live_media(s) PROVE ProperKinds'
  <2>1. PICK t \in Types[s] : /\ Post([kind |-> KindOf(t), stream |-> s])
                              /\ Cross(Misfit([kind |-> KindOf(t), stream |-> s], etype))
    BY <1>3 DEF send_msg_to_live_media
  <2> DEFINE m == [kind |-> KindOf(t), stream |-> s]
  <2>2. m \in Messages
    BY DEF Messages, Kinds, KindOf
  <2>3. Fits(m)
    BY <1>0, <2>1 DEF Cross, InKind, Fits
  <2>4. UNCHANGED <<main, cache, etype>>
    BY <1>3 DEF send_msg_to_live_media
  <2> HIDE DEF m
  <2>5. \A k \in DOMAIN que' : que'[k] = m \/ \E l \in DOMAIN que : que'[k] = que[l]
    BY <2>1, <2>2, QuePost DEF m
  <2>6. \A k \in DOMAIN que' : que'[k] # Interruption => Fits(que'[k])
    BY <1>0, <2>3, <2>5 DEF ProperKinds
  <2> QED BY <1>0, <2>4, <2>6 DEF ProperKinds, Fits
<1>4. CASE UNCHANGED <<que, etype>> /\ main'.pc \notin {"deal", "cached", "pkg", "get", "send"}
  BY <1>0, <1>4 DEF ProperKinds, Fits
<1>5. CASE /\ UNCHANGED <<que, etype, cache>> /\ main'.msg = main.msg
           /\ \/ main'.pc = "pkg" /\ main.pc \in {"deal", "cached"}
              \/ main'.pc = "cached" /\ main.pc = "deal" /\ cache # "none"
              \/ main'.pc = "send" /\ main.pc = "get" /\ main'.type = main.type
  BY <1>0, <1>5 DEF ProperKinds, Fits
<1>6. CASE Recv
  <2>1. que \in Seq(Messages) /\ que # <<>> /\ que' = Tail(que)
    BY <1>6 DEF Recv, IInv, QueType
  <2>2. /\ que' \in Seq(Messages) /\ Len(que') = Len(que) - 1 /\ Len(que) \in Nat \ {0}
        /\ \A k \in 1 .. Len(que') : que'[k] = que[k + 1]
        /\ Head(que) = que[1]
    BY <2>1, HeadTailProperties, LenProperties, EmptySeq
  <2>3. DOMAIN que' = 1 .. Len(que) - 1 /\ DOMAIN que = 1 .. Len(que)
    BY <2>1, <2>2, LenProperties
  <2>4. \A k \in DOMAIN que' : que'[k] # Interruption => Fits(que'[k])
    BY <1>0, <2>2, <2>3 DEF ProperKinds
  <2>5. /\ main'.msg = Head(que) /\ main'.pc \in {"reset", "deal"}
        /\ main'.pc = "deal" => Head(que) # Interruption
    BY <1>6 DEF Recv, IInv, MainType
  <2>6. main'.pc = "deal" => Fits(main'.msg)
    BY <1>0, <2>2, <2>3, <2>5 DEF ProperKinds
  <2> QED BY <1>6, <2>4, <2>5, <2>6 DEF Recv, ProperKinds, Fits
<1>7. CASE local_media_data_pkg
  <2>1. UNCHANGED <<que, etype>> /\ main.pc = "pkg"
    BY <1>7 DEF local_media_data_pkg
  <2>2. CASE main' = Idle
    <3>1. main'.pc = "test"
      BY <2>2 DEF Idle
    <3> QED BY <1>4, <2>1, <3>1
  <2>3. CASE /\ main'.pc = "get" /\ main'.msg = main.msg
             /\ main'.type = etype[main.msg.stream] /\ main'.type # "none"
    <3>1. ~Misfit(main.msg, etype)
      BY <1>0, <2>1 DEF ProperKinds, Fits
    <3>2. main'.msg.kind = KindOf(main'.type)
      BY <2>3, <3>1 DEF Misfit
    <3> QED BY <1>0, <2>1, <2>3, <3>2 DEF ProperKinds, Fits
  <2> QED BY <1>7, <2>2, <2>3 DEF local_media_data_pkg, IInv, MainType
<1>8. CASE Drain
  BY <1>8 DEF Drain, Idle, ProperKinds, Fits
<1>9. CASE Loop \/ reset_live_mode_user \/ send_video_data_pdg
  BY <1>4, <1>9 DEF Loop, reset_live_mode_user, send_video_data_pdg, Idle
<1>10. CASE deal_video_jpeg_data \/ SendCached
  BY <1>5, <1>10 DEF deal_video_jpeg_data, SendCached, IInv, MainType
<1>11. CASE get_send_userinfo
  BY <1>4, <1>5, <1>11 DEF get_send_userinfo, Idle, IInv, MainType
<1>12. CASE UNCHANGED <<que, main, etype, cache>>
  BY <1>0, <1>12 DEF ProperKinds, Fits
<1> QED
  BY <1>1, <1>2, <1>3, <1>6, <1>7, <1>8, <1>9, <1>10, <1>11, <1>12, RequestsPost
     DEF MainNext

LEMMA BufsNext ==
    ASSUME IInv, ProperKinds, Owned, CacheValid, [Next]_vars
    PROVE  Owned' /\ CacheValid'
<1> DEFINE n == Cardinality(Frames(que))
<1> SUFFICES ASSUME InKind' PROVE Owned' /\ CacheValid'
  BY DEF Owned, CacheValid
<1>0. InKind
  BY InKindBefore
<1>1. que \in Seq(Messages) /\ n \in Nat /\ bufs \in Int
      /\ cache \in {"none", "held"}
  BY <1>0, FramesFinite DEF IInv, QueType, FlagType, CacheValid
<1> HIDE DEF n
<1> USE <1>0
<1>2. CASE Post(Interruption) /\ UNCHANGED <<main, bufs, cache>>
  <2>1. Cardinality(Frames(que')) = n
    BY <1>1, <1>2, FramesAppend, InterruptionType DEF Post, n
  <2> QED BY <1>2, <2>1 DEF Owned, Holding, IsJpeg, CacheValid, n
<1>3. CASE UNCHANGED <<que, main, bufs, cache>>
  BY <1>3 DEF Owned, Holding, IsJpeg, CacheValid
<1>4. ASSUME NEW s \in Streams, send_msg_to_live_media(s) PROVE Owned' /\ CacheValid'
  <2>1. PICK t \in Types[s] : Post([kind |-> KindOf(t), stream |-> s])
    BY <1>4 DEF send_msg_to_live_media
  <2> DEFINE m == [kind |-> KindOf(t), stream |-> s]
  <2>2. m \in Messages /\ m # Interruption
    BY LivesAssumption DEF Messages, Kinds, KindOf, Interruption
  <2>3. que' = Append(que, m) /\ bufs' = bufs + 1 /\ UNCHANGED <<main, cache>>
    BY <1>1, <1>4, <2>1 DEF send_msg_to_live_media, Post, Freed
  <2> HIDE DEF m
  <2>4. Cardinality(Frames(que')) = n + 1
    BY <1>1, <2>2, <2>3, FramesAppend DEF n
  <2> QED BY <1>1, <2>3, <2>4 DEF Owned, Holding, IsJpeg, CacheValid, n
<1>5. CASE Recv
  <2>1. /\ que # <<>> /\ que' = Tail(que) /\ UNCHANGED <<bufs, cache>> /\ main.pc = "recv"
        /\ main'.pc = IF Head(que) = Interruption THEN "reset" ELSE "deal"
    BY <1>5 DEF Recv, IInv, MainType
  <2>2. que' \in Seq(Messages)
    BY <1>1, <2>1, HeadTailProperties
  <2>3. Cardinality(Frames(que')) \in Nat
        /\ n = IF Head(que) = Interruption THEN Cardinality(Frames(que'))
               ELSE Cardinality(Frames(que')) + 1
    BY <1>1, <2>1, <2>2, FramesTail, FramesFinite DEF n
  <2> QED BY <1>1, <2>1, <2>3 DEF Owned, Holding, CacheValid, n
<1>6. CASE Loop \/ reset_live_mode_user
  BY <1>6 DEF Loop, reset_live_mode_user, Owned, Holding, CacheValid, Idle
<1>7. CASE deal_video_jpeg_data \/ SendCached
  <2>1. /\ UNCHANGED <<que, bufs, cache>>
        /\ main.pc \in {"deal", "cached"} /\ main'.pc \in {"cached", "pkg"}
    BY <1>7 DEF deal_video_jpeg_data, SendCached, IInv, MainType
  <2> QED BY <2>1 DEF Owned, Holding, CacheValid
<1>8. CASE local_media_data_pkg
  <2>1. /\ UNCHANGED que /\ main.pc = "pkg"
        /\ cache' = IF IsJpeg THEN "held" ELSE cache
    BY <1>8 DEF local_media_data_pkg
  <2>2. CASE /\ main' = Idle
             /\ bufs' = bufs - ((IF IsJpeg /\ cache = "held" THEN 1 ELSE 0)
                                + (IF ~IsJpeg THEN 1 ELSE 0))
    BY <1>1, <2>1, <2>2 DEF Owned, Holding, CacheValid, Idle, n
  <2>3. CASE /\ main'.pc = "get" /\ main'.msg = main.msg
             /\ bufs' = bufs - (IF IsJpeg /\ cache = "held" THEN 1 ELSE 0)
    BY <1>1, <2>1, <2>3 DEF Owned, Holding, CacheValid, IsJpeg, n
  <2> QED BY <1>1, <1>8, <2>2, <2>3 DEF local_media_data_pkg, Freed, IInv, MainType
<1>9. CASE get_send_userinfo
  <2>1. UNCHANGED <<que, cache>> /\ main.pc = "get"
    BY <1>9 DEF get_send_userinfo
  <2>2. CASE main' = Idle /\ bufs' = bufs - (IF ~IsJpeg THEN 1 ELSE 0)
    BY <1>1, <2>1, <2>2 DEF Owned, Holding, CacheValid, Idle, n
  <2>3. CASE main'.pc = "send" /\ main'.msg = main.msg /\ bufs' = bufs - 0
    BY <1>1, <2>1, <2>3 DEF Owned, Holding, CacheValid, IsJpeg, n
  <2> QED BY <1>9, <2>2, <2>3 DEF get_send_userinfo, Freed, IInv, MainType
<1>10. CASE send_video_data_pdg
  <2>1. /\ UNCHANGED que /\ main.pc = "send" /\ main' = Idle
    BY <1>10 DEF send_video_data_pdg
  <2>2. IsJpeg <=> main.type = "JPEG"
    BY <2>1 DEF ProperKinds, KindOf, IsJpeg
  <2>3. IF IsJpeg THEN UNCHANGED <<bufs, cache>> ELSE bufs' = bufs - 1 /\ cache' = cache
    BY <1>10, <2>2 DEF send_video_data_pdg, Freed
  <2> QED BY <1>1, <2>1, <2>3 DEF Owned, Holding, CacheValid, Idle, n
<1>11. CASE Drain
  <2>1. Frames(<<>>) = {}
    BY DEF Frames
  <2>2. Cardinality(Frames(que')) = 0
    BY <1>11, <2>1, FS_EmptySet DEF Drain
  <2>3. /\ main.pc = "drain" /\ main'.pc = "done" /\ cache' = "none"
        /\ bufs' = bufs - (n + (IF cache # "none" THEN 1 ELSE 0))
    BY <1>11 DEF Drain, Freed, Idle, n
  <2>4. bufs = n + 0 + (IF cache = "held" THEN 1 ELSE 0)
    BY <2>3 DEF Owned, Holding, n
  <2>5. bufs' = 0
    BY <1>1, <2>3, <2>4
  <2>6. ~Holding' /\ cache' # "held"
    BY <2>3 DEF Holding
  <2> QED BY <2>2, <2>3, <2>5, <2>6 DEF Owned, CacheValid
<1> QED
  BY <1>2, <1>3, <1>4, <1>5, <1>6, <1>7, <1>8, <1>9, <1>10, <1>11, RequestsPost
     DEF MainNext

\* A mark is set for a picture: the one that is kept, or the frame itself.
LEMMA JpegNext ==
    ASSUME IInv, ProperKinds, CacheValid, JpegTrue, [Next]_vars
    PROVE  JpegTrue'
<1> SUFFICES ASSUME InKind' PROVE JpegTrue'
  BY DEF JpegTrue
<1>0. InKind /\ \A i \in Slots : slot[i].jpeg = "send" => slot[i].got
  BY InKindBefore DEF JpegTrue
<1>1. CASE slot' = slot
  BY <1>0, <1>1 DEF JpegTrue
<1>2. ASSUME NEW S \in SUBSET Occupied, Close(S) PROVE JpegTrue'
  BY <1>0, <1>2, CloseTable DEF JpegTrue
<1>3. ASSUME NEW picture \in BOOLEAN, MarkSent(picture), picture PROVE JpegTrue'
  BY <1>0, <1>3, MarkTable DEF JpegTrue
<1>4. ASSUME NEW u \in Users, set_lives_user_info(u) PROVE JpegTrue'
  <2>1. CASE Enter(u)
    <3>1. \A i \in Slots : slot'[i].jpeg = "no_send" \/ slot'[i] = slot[i]
      BY <2>1 DEF Enter, IInv, TableType
    <3> QED BY <1>0, <3>1 DEF JpegTrue
  <2> QED BY <1>1, <1>4, <2>1 DEF set_lives_user_info, SetRefused, SetKnown, SetNew
<1>5. ASSUME NEW u \in Users, stop_lives_user_info(u) PROVE JpegTrue'
  <2>1. CASE EntriesOf(u) # {} /\ Interrupt({First(EntriesOf(u))})
    <3>1. {First(EntriesOf(u))} \in SUBSET Occupied
      BY <2>1, FirstOf, EntriesInUse DEF EntriesOf
    <3> QED BY <1>2, <2>1, <3>1 DEF Interrupt
  <2> QED BY <1>1, <1>5, <2>1 DEF stop_lives_user_info
<1>6. ASSUME NEW n, stop_lives_user_info_unusual(n) PROVE JpegTrue'
  <2> DEFINE its == {i \in Occupied : user_num # 0 /\ UserId[slot[i].who] = n}
  <2>1. CASE its = {}
    BY <1>1, <1>6, <2>1 DEF stop_lives_user_info_unusual
  <2>2. CASE its # {}
    <3>1. Interrupt({First(its)})
      BY <1>6, <2>2 DEF stop_lives_user_info_unusual
    <3>2. {First(its)} \in SUBSET Occupied
      BY <2>2, FirstOf DEF Occupied
    <3> QED BY <1>2, <3>1, <3>2 DEF Interrupt
  <2> QED BY <2>1, <2>2
<1>7. CASE stop_lives_user_all_unusual
  BY <1>2, <1>7 DEF stop_lives_user_all_unusual, Interrupt
<1>8. CASE MainNext
  <2>1. CASE reset_live_mode_user
    <3>1. \A i \in Slots : slot'[i].jpeg = "invalid" \/ slot'[i] = slot[i]
      BY <2>1 DEF reset_live_mode_user, FreeEntry, IInv, TableType
    <3> QED BY <1>0, <3>1 DEF JpegTrue
  <2>2. CASE SendCached
    <3>1. (cache = "held") = TRUE
      BY <1>0, <2>2 DEF SendCached, ProperKinds, CacheValid, IInv, FlagType
    <3> QED BY <1>3, <2>2, <3>1 DEF SendCached
  <2>3. CASE send_video_data_pdg
    <3>1. main.type = "JPEG" => IsJpeg = TRUE
      BY <1>0, <2>3 DEF send_video_data_pdg, ProperKinds, KindOf, IsJpeg
    <3>2. (MarkSent(IsJpeg) /\ IsJpeg = TRUE) \/ UNCHANGED slot
      BY <2>3, <3>1 DEF send_video_data_pdg
    <3> QED BY <1>1, <1>3, <3>2
  <2>4. CASE UNCHANGED slot
    BY <1>1, <2>4
  <2> QED
    BY <1>8, <2>1, <2>2, <2>3, <2>4 DEF MainNext, Loop, Recv, deal_video_jpeg_data,
       local_media_data_pkg, get_send_userinfo, Drain
<1> QED
  BY <1>1, <1>4, <1>5, <1>6, <1>7, <1>8, Cases DEF set_lives_enc_info,
     send_msg_to_live_media, unregister_room_lives_module, vars

BufInv == IInv /\ ProperKinds /\ Owned /\ CacheValid /\ JpegTrue

LEMMA AlwaysBufInv == Spec => []BufInv
<1>1. Init => BufInv
  <2>1. Frames(<<>>) = {}
    BY DEF Frames
  <2>2. ASSUME Init PROVE Owned
    <3>1. Cardinality(Frames(que)) = 0
      BY <2>1, <2>2, FS_EmptySet DEF Init
    <3>2. ~Holding /\ cache # "held" /\ bufs = 0
      BY <2>2 DEF Init, Holding, Idle
    <3> QED BY <3>1, <3>2 DEF Owned
  <2>3. Init => ProperKinds /\ CacheValid /\ JpegTrue
    BY DEF Init, ProperKinds, CacheValid, JpegTrue, Idle, FreeEntry
  <2> QED BY <2>2, <2>3, InitInv DEF BufInv
<1>2. BufInv /\ [Next]_vars => BufInv'
  BY NextInv, ProperNext, BufsNext, JpegNext DEF BufInv
<1> QED BY <1>1, <1>2, PTL DEF Spec

\* Every buffer of a frame is in the queue, in the main thread's hands or kept as
\* the last JPEG, and is freed once, whatever types encoders log in with, until a
\* frame meets another type than its own.
THEOREM AlwaysOwned == Spec => []Owned
<1>1. BufInv => Owned
  BY DEF BufInv
<1> QED BY <1>1, AlwaysBufInv, PTL

\* The JPEG that is marked valid is not freed until then.
THEOREM AlwaysCacheValid == Spec => []CacheValid
<1>1. BufInv => CacheValid
  BY DEF BufInv
<1> QED BY <1>1, AlwaysBufInv, PTL

\* A viewer marked as having had a JPEG was sent a picture, until then.
THEOREM AlwaysJpegTrue == Spec => []JpegTrue
<1>1. BufInv => JpegTrue
  BY DEF BufInv
<1> QED BY <1>1, AlwaysBufInv, PTL
=============================================================================
