---------------------------- MODULE Lookup_proofs ----------------------------
(* What the linear search returns. *)
EXTENDS Lookup, WellFoundedInduction, TLAPS

(* The search returns an index that qualifies, and -1 when none does       *)
(* (timeout_que_find_user, upper_msg_get_idle_index and the other loops).  *)
LEMMA FirstFound ==
    ASSUME NEW S \in SUBSET Nat
    PROVE  /\ S = {} => First(S) = -1
           /\ S # {} => First(S) \in S /\ \A m \in S : First(S) <= m
<1>1. CASE S = {}
  BY <1>1 DEF First
<1>2. CASE S # {}
  <2> DEFINE Less == {p \in Nat \X Nat : p[1] < p[2]}
  <2>1. IsWellFoundedOn(Less, Nat)
    BY NatLessThanWellFounded DEF OpToRel
  <2>2. PICK n \in S : \A m \in S : <<m, n>> \notin Less
    <3> HIDE DEF Less
    <3> QED BY <1>2, <2>1, WFMin
  <2>3. \A m \in S : n <= m
    <3> SUFFICES ASSUME NEW m \in S PROVE n <= m
      OBVIOUS
    <3>1. m \in Nat /\ n \in Nat /\ <<m, n>> \notin Less
      BY <2>2
    <3>2. ~(m < n)
      BY <3>1
    <3> QED BY <3>1, <3>2
  <2>4. Min(S) \in S /\ \A m \in S : Min(S) <= m
    BY <2>3 DEF Min
  <2> QED BY <1>2, <2>4 DEF First
<1> QED BY <1>1, <1>2
=============================================================================
