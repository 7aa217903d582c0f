--------------------------- MODULE Limiter_proofs ---------------------------
(***************************************************************************)
(* The limiter keeps to its capacity for any capacity and any number of    *)
(* callers.  The two facts need each other: a caller is admitted on the    *)
(* value of the counter, which is exact only as a sum over all callers.    *)
(***************************************************************************)
EXTENDS Limiter, FiniteSetTheorems, TLAPS

IInv ==
  /\ TypeOK
  /\ admitted \cap refused = {}
  /\ WithinCapacity
  /\ CounterExact

(* The sets of callers are finite, and one caller more or less counts one. *)
LEMMA CallerCount ==
  ASSUME LimiterAssumption, NEW S \in SUBSET Caller
  PROVE  /\ Cardinality(S) \in Nat
         /\ \A c : c \notin S => Cardinality(S \cup {c}) = Cardinality(S) + 1
         /\ \A c \in S : Cardinality(S \ {c}) = Cardinality(S) - 1
<1>1. IsFiniteSet(S)
  BY FS_Subset DEF LimiterAssumption
<1>2. QED
  BY <1>1, FS_CardinalityType, FS_AddElement, FS_RemoveElement

(* Every step of a caller and every release keeps the invariant.           *)
LEMMA LimiterInductive ==
  ASSUME LimiterAssumption PROVE IInv /\ [Next]_vars => IInv'
<1> SUFFICES ASSUME IInv, [Next]_vars PROVE IInv'
  OBVIOUS
<1> USE DEF LimiterAssumption
<1> DEFINE a == Cardinality(admitted)
           r == Cardinality(refused)
<1>0. /\ count \in Nat /\ held \in Nat /\ lost \in Nat
      /\ admitted \in SUBSET Caller /\ refused \in SUBSET Caller
      /\ admitted \cap refused = {}
      /\ a \in Nat /\ r \in Nat
      /\ held + a + lost <= Capacity
      /\ count = held + lost + a + r
  BY CallerCount DEF IInv, TypeOK, WithinCapacity, CounterExact
<1>1. ASSUME NEW c \in Caller, FetchAdd(c) PROVE IInv'
  <2>1. CASE count < Capacity
    <3>1. /\ admitted' = admitted \cup {c} /\ refused' = refused
          /\ count' = count + 1 /\ held' = held /\ lost' = lost
          /\ c \notin admitted /\ c \notin refused
      BY <1>1, <2>1 DEF FetchAdd
    <3>2. Cardinality(admitted') = a + 1
      BY <1>0, <3>1, CallerCount
    <3>3. QED
      BY <1>0, <2>1, <3>1, <3>2 DEF IInv, TypeOK, WithinCapacity, CounterExact
  <2>2. CASE ~(count < Capacity)
    <3>1. /\ refused' = refused \cup {c} /\ admitted' = admitted
          /\ count' = count + 1 /\ held' = held /\ lost' = lost
          /\ c \notin admitted /\ c \notin refused
      BY <1>1, <2>2 DEF FetchAdd
    <3>2. Cardinality(refused') = r + 1
      BY <1>0, <3>1, CallerCount
    <3>3. QED
      BY <1>0, <3>1, <3>2 DEF IInv, TypeOK, WithinCapacity, CounterExact
  <2>3. QED
    BY <2>1, <2>2
<1>2. ASSUME NEW c \in Caller, Revert(c) PROVE IInv'
  <2>1. c \in refused /\ Cardinality(refused') = r - 1
    BY <1>0, <1>2, CallerCount DEF Revert
  <2>2. r >= 1
    <3>1. refused' \in SUBSET Caller
      BY <1>0, <1>2 DEF Revert
    <3>2. Cardinality(refused') \in Nat
      BY <3>1, CallerCount
    <3>3. QED
      BY <1>0, <2>1, <3>2
  <2>3. QED
    BY <1>0, <1>2, <2>1, <2>2
       DEF Revert, IInv, TypeOK, WithinCapacity, CounterExact
<1>3. ASSUME NEW c \in Caller, Use(c) PROVE IInv'
  <2>1. c \in admitted /\ Cardinality(admitted') = a - 1
    BY <1>0, <1>3, CallerCount DEF Use
  <2>2. QED
    BY <1>0, <1>3, <2>1 DEF Use, IInv, TypeOK, WithinCapacity, CounterExact
<1>4. ASSUME NEW c \in Caller, Abandon(c) PROVE IInv'
  <2>1. c \in admitted /\ Cardinality(admitted') = a - 1
    BY <1>0, <1>4, CallerCount DEF Abandon
  <2>2. QED
    BY <1>0, <1>4, <2>1 DEF Abandon, IInv, TypeOK, WithinCapacity, CounterExact
<1>5. CASE Release
  BY <1>0, <1>5 DEF Release, IInv, TypeOK, WithinCapacity, CounterExact
<1>6. CASE Forget
  BY <1>0, <1>6 DEF Forget, IInv, TypeOK, WithinCapacity, CounterExact
<1>7. CASE UNCHANGED vars
  BY <1>0, <1>7 DEF vars, IInv, TypeOK, WithinCapacity, CounterExact
<1>8. QED
  BY <1>1, <1>2, <1>3, <1>4, <1>5, <1>6, <1>7 DEF Next

(* The invariant holds when the limiter is created.                        *)
LEMMA LimiterInit == ASSUME LimiterAssumption PROVE Init => IInv
  BY FS_EmptySet
     DEF LimiterAssumption, Init, IInv, TypeOK, WithinCapacity, CounterExact

(* The requests in progress never exceed the capacity given to SplitSender, *)
(* DiskManagerSink or RequestLimiter, for any capacity and any callers.     *)
THEOREM LimiterWithinCapacity ==
  ASSUME LimiterAssumption PROVE Spec => []WithinCapacity
<1>1. Init => IInv
  BY LimiterInit
<1>2. IInv /\ [Next]_vars => IInv'
  BY LimiterInductive
<1>3. IInv => WithinCapacity
  BY DEF IInv
<1>4. QED
  BY <1>1, <1>2, <1>3, PTL DEF Spec

(* The atomic counter is exact in every interleaving; in particular it      *)
(* never wraps below zero.                                                  *)
THEOREM LimiterExact ==
  ASSUME LimiterAssumption PROVE Spec => [](TypeOK /\ CounterExact)
<1>1. Init => IInv
  BY LimiterInit
<1>2. IInv /\ [Next]_vars => IInv'
  BY LimiterInductive
<1>3. IInv => TypeOK /\ CounterExact
  BY DEF IInv
<1>4. QED
  BY <1>1, <1>2, <1>3, PTL DEF Spec
=============================================================================
