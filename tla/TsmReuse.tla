------------------------------ MODULE TsmReuse ------------------------------
(***************************************************************************)
(* Tsm with a history variable, to say how long the table keeps an invoke  *)
(* id from coming back.  A reply carries nothing of its request but the    *)
(* invoke id, so a late reply to a transaction that was given up is taken  *)
(* for the reply to whatever carries the same id by then.                  *)
(***************************************************************************)
EXTENDS Tsm

VARIABLE beenOut    \* id -> the ids that have been out since it was last granted

(* Before its first grant nothing is asked of an id. *)
ReuseInit == /\ Init
             /\ beenOut = [id \in InvokeIds |-> InvokeIds]

IsGrantOf(id) == \E s \in Slots : GrantInvokeId(id, s)

ReuseNext ==
    /\ Next
    /\ beenOut' = [id \in InvokeIds |-> IF IsGrantOf(id) THEN Outstanding
                                        ELSE beenOut[id] \cup Outstanding]

ReuseSpec == ReuseInit /\ [][ReuseNext]_<<vars, beenOut>>
-----------------------------------------------------------------------------
(* An id is not granted again before every other id has been out in the    *)
(* meantime: the cursor goes round, and freeing an id, or all of them,     *)
(* does not move it back.                                                  *)
OldestIdFirst ==
    [][\A id \in InvokeIds :
         IsGrantOf(id) => InvokeIds \ {id} \subseteq beenOut[id] \cup Outstanding]_vars
=============================================================================
