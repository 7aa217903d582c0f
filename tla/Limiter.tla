------------------------------ MODULE Limiter ------------------------------
(***************************************************************************)
(* The counting limiter that the code builds from one atomic counter in    *)
(* three places: SplitSender (util), DiskManagerSink (disk) and            *)
(* RequestLimiter (utracker).  A caller adds one with fetch_add, looks at  *)
(* the value that was there before, and takes its one back with fetch_sub  *)
(* when that value was not below the capacity.  The two operations are     *)
(* separate steps, so callers and releases interleave between them and the *)
(* counter overshoots the capacity for a while.                            *)
(***************************************************************************)
EXTENDS Integers, FiniteSets

CONSTANTS Caller, Capacity

(* What the theorems assume of the constants. *)
LimiterAssumption ==
  /\ IsFiniteSet(Caller)
  /\ Capacity \in Nat

VARIABLES
  count,     \* the atomic counter
  admitted,  \* callers that saw a value below the capacity
  refused,   \* callers that did not, and have not yet taken their one back
  held,      \* slots in use
  lost       \* slots that no one will ever give back

vars == <<count, admitted, refused, held, lost>>

Init ==
  /\ count = 0
  /\ admitted = {} /\ refused = {}
  /\ held = 0 /\ lost = 0

(* The fetch_add and the comparison with the capacity. *)
FetchAdd(c) ==
  /\ c \notin admitted \cup refused
  /\ count' = count + 1
  /\ IF count < Capacity
     THEN admitted' = admitted \cup {c} /\ UNCHANGED refused
     ELSE refused' = refused \cup {c} /\ UNCHANGED admitted
  /\ UNCHANGED <<held, lost>>

(* The fetch_sub of a refused caller. *)
Revert(c) ==
  /\ c \in refused
  /\ refused' = refused \ {c}
  /\ count' = count - 1
  /\ UNCHANGED <<admitted, held, lost>>

(* The admitted caller makes its request. *)
Use(c) ==
  /\ c \in admitted
  /\ admitted' = admitted \ {c}
  /\ held' = held + 1
  /\ UNCHANGED <<count, refused, lost>>

(* The request is acknowledged: another fetch_sub. *)
Release ==
  /\ held > 0
  /\ held' = held - 1
  /\ count' = count - 1
  /\ UNCHANGED <<admitted, refused, lost>>

(* The request ends in a way that acknowledges nothing. *)
Forget ==
  /\ held > 0
  /\ held' = held - 1
  /\ lost' = lost + 1
  /\ UNCHANGED <<count, admitted, refused>>

(* The admitted caller cannot make its request after all: try_send hands    *)
(* the data back and leaves the counter as it is.                           *)
Abandon(c) ==
  /\ c \in admitted
  /\ admitted' = admitted \ {c}
  /\ lost' = lost + 1
  /\ UNCHANGED <<count, refused, held>>

Next ==
  \/ \E c \in Caller : FetchAdd(c) \/ Revert(c) \/ Use(c) \/ Abandon(c)
  \/ Release
  \/ Forget

Spec == Init /\ [][Next]_vars

-----------------------------------------------------------------------------
(* The counter and the slots are natural numbers.                          *)
TypeOK ==
  /\ count \in Nat /\ held \in Nat /\ lost \in Nat
  /\ admitted \subseteq Caller /\ refused \subseteq Caller

(* However the callers interleave, the slots in use and the admitted        *)
(* callers together never exceed the capacity: the overshoot of the counter *)
(* admits nobody.                                                           *)
WithinCapacity == held + Cardinality(admitted) + lost <= Capacity

(* The counter is exactly the slots taken plus the callers between their    *)
(* two steps: no interleaving of fetch_add and fetch_sub loses a count.     *)
CounterExact ==
  count = held + lost + Cardinality(admitted) + Cardinality(refused)
=============================================================================
