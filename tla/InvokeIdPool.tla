---------------------------- MODULE InvokeIdPool ----------------------------
(***************************************************************************)
(* What the transaction state machine of the BACnet library promises its   *)
(* callers, without its table: a pool of at most Capacity invoke ids.      *)
(* An id that is handed out is not one that is already out, 0 is handed    *)
(* out only by a pool that is full, and ids come back one at a time or all *)
(* at once.  Tsm.tla implements this pool.                                 *)
(***************************************************************************)
EXTENDS Integers, FiniteSets

CONSTANTS
    Ids,        \* the invoke ids the pool may hand out
    Capacity    \* how many of them may be out together

VARIABLES
    outstanding,    \* the ids that are out
    granted         \* the answer of the last request: an id, or 0

vars == <<outstanding, granted>>

Init == /\ outstanding = {}
        /\ granted = 0

(* A request is served with an id that is not out. *)
Reserve(id) == /\ Cardinality(outstanding) < Capacity
               /\ id \notin outstanding
               /\ outstanding' = outstanding \cup {id}
               /\ granted' = id

(* A request is refused by a full pool only. *)
Refuse == /\ Cardinality(outstanding) = Capacity
          /\ granted' = 0
          /\ UNCHANGED outstanding

(* The transaction of an id is over. *)
Release(id) == /\ outstanding' = outstanding \ {id}
               /\ UNCHANGED granted

(* Every transaction is given up. *)
Clear == /\ outstanding' = {}
         /\ UNCHANGED granted

Next == \/ \E id \in Ids : Reserve(id) \/ Release(id)
        \/ Refuse
        \/ Clear

Spec == Init /\ [][Next]_vars
=============================================================================
