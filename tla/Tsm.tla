-------------------------------- MODULE Tsm --------------------------------
(***************************************************************************)
(* The BACnet transaction state machine (BacNetDllforVc/Src/tsm.c): a      *)
(* table of transactions, one slot each, and a cursor from which the next  *)
(* invoke id is searched.  One action stands for one call of an exported   *)
(* function, run to its end; calls of two threads that overlap are the     *)
(* subject of ConfirmedSend.tla.                                           *)
(*                                                                         *)
(* The copy of the pdu, its length, its destination and its npdu are not   *)
(* kept: no operation of the table depends on them.                        *)
(***************************************************************************)
EXTENDS Integers, FiniteSets

CONSTANTS
    MaxTransactions,    \* MAX_TSM_TRANSACTIONS, 255 in the code
    MaxInvokeId,        \* the largest value of a uint8_t, 255 in the code
    ApduTimeout,        \* apdu_timeout(), in units of one timer call
    ApduRetries         \* apdu_retries()

(* There are as many ids as slots: a request that finds a free slot also   *)
(* finds an unused id, so that the search of tsm_next_free_invokeID ends.  *)
ASSUME TableFits == /\ MaxTransactions \in Nat \ {0}
                    /\ MaxInvokeId \in Nat
                    /\ MaxTransactions <= MaxInvokeId

ASSUME TimersFit == /\ ApduTimeout \in Nat
                    /\ ApduRetries \in Nat

Slots == 0 .. MaxTransactions - 1
InvokeIds == 1 .. MaxInvokeId

(* The members of BACNET_TSM_STATE that the code uses. *)
TsmStates == {"IDLE", "AWAIT_CONFIRMATION", "SEGMENTED_REQUEST"}

VARIABLES
    InvokeID,           \* slot -> id of its transaction; 0: an unused spot in the table
    state,              \* slot -> TSM_List[].state
    RequestTimer,       \* slot -> TSM_List[].RequestTimer
    RetryCount,         \* slot -> TSM_List[].RetryCount
    Current_Invoke_ID,  \* where the next search starts
    granted             \* the last result of tsm_next_free_invokeID

vars == <<InvokeID, state, RequestTimer, RetryCount, Current_Invoke_ID, granted>>

FreeSlots == {s \in Slots : InvokeID[s] = 0}
Outstanding == {InvokeID[s] : s \in Slots} \ {0}

(* tsm_find_invokeID_index and, for id 0, tsm_find_first_free_index: the   *)
(* first slot that holds the id.                                           *)
IsFirstHolder(s, id) == /\ InvokeID[s] = id
                        /\ \A r \in Slots : InvokeID[r] = id => s <= r

(* tsm_invoke_id_free and tsm_invoke_id_failed, while not offline.  Faulty *)
(* variant: the scan stops before the last slot.                           *)
InvokeIdFreeMissingLast(id) == \A s \in 0 .. MaxTransactions - 2 : InvokeID[s] # id
InvokeIdFree(id) == \A s \in Slots : InvokeID[s] # id
InvokeIdFailed(id) == \E s \in Slots : IsFirstHolder(s, id) /\ state[s] = "IDLE"

(* uint8_t increment that skips 0.  Faulty variant: no increment. *)
Stay(id) == id
Increment(id) == (id % MaxInvokeId) + 1

(* How many increments lead from the cursor to the id. *)
ProbesTo(id) == (id - Current_Invoke_ID) % MaxInvokeId

(* The search stops at the first id, from the cursor on, that no slot holds. *)
(* Faulty variant: the cursor is tried once.                                *)
CursorIfUnused(id) == id = Current_Invoke_ID /\ InvokeIdFree(id)
FirstUnused(id) == /\ InvokeIdFree(id)
                   /\ \A j \in InvokeIds :
                        ProbesTo(j) < ProbesTo(id) => ~InvokeIdFree(j)

Init == /\ InvokeID = [s \in Slots |-> 0]
        /\ state = [s \in Slots |-> "IDLE"]
        /\ RequestTimer = [s \in Slots |-> 0]
        /\ RetryCount = [s \in Slots |-> 0]
        /\ Current_Invoke_ID = 1
        /\ granted = 0

(* tsm_next_free_invokeID when slot s is the first free one. *)
GrantInvokeId(id, s) ==
    /\ FirstUnused(id)
    /\ IsFirstHolder(s, 0)
    /\ InvokeID' = [InvokeID EXCEPT ![s] = id]
    /\ state' = [state EXCEPT ![s] = "IDLE"]
    /\ RequestTimer' = [RequestTimer EXCEPT ![s] = ApduTimeout]
    /\ Current_Invoke_ID' = Increment(id)
    /\ granted' = id
    /\ UNCHANGED RetryCount

(* tsm_next_free_invokeID when no slot is free.  Faulty variant: the last  *)
(* slot is never given away.                                               *)
RefuseLastSlot == /\ Cardinality(FreeSlots) <= 1
                  /\ granted' = 0
                  /\ UNCHANGED <<InvokeID, state, RequestTimer, RetryCount,
                                 Current_Invoke_ID>>

RefuseInvokeId == /\ FreeSlots = {}
                  /\ granted' = 0
                  /\ UNCHANGED <<InvokeID, state, RequestTimer, RetryCount,
                                 Current_Invoke_ID>>

(* tsm_set_confirmed_unsegmented_transaction; nothing happens when no slot *)
(* holds the id.  The line that would put the request in the state the     *)
(* timer looks for is commented out.                                       *)
SetConfirmed(id, s) ==
    /\ IsFirstHolder(s, id)
    /\ state' = [state EXCEPT ![s] = "SEGMENTED_REQUEST"]
    /\ RetryCount' = [RetryCount EXCEPT ![s] = 0]
    /\ RequestTimer' = [RequestTimer EXCEPT ![s] = ApduTimeout]
    /\ UNCHANGED <<InvokeID, Current_Invoke_ID, granted>>

(* tsm_free_invoke_id.  Id 0 is a legal argument: the first unused spot is *)
(* then found, and set to what it already is.  Faulty variant: the state   *)
(* stays what it was.                                                      *)
FreeKeepingState(id, s) ==
    /\ IsFirstHolder(s, id)
    /\ InvokeID' = [InvokeID EXCEPT ![s] = 0]
    /\ UNCHANGED <<state, RequestTimer, RetryCount, Current_Invoke_ID, granted>>

FreeInvokeId(id, s) ==
    /\ IsFirstHolder(s, id)
    /\ InvokeID' = [InvokeID EXCEPT ![s] = 0]
    /\ state' = [state EXCEPT ![s] = "IDLE"]
    /\ UNCHANGED <<RequestTimer, RetryCount, Current_Invoke_ID, granted>>

(* tsm_free_all_invoke_id: timers, retry counts and the cursor stay. *)
FreeAllInvokeIds ==
    /\ InvokeID' = [s \in Slots |-> 0]
    /\ state' = [s \in Slots |-> "IDLE"]
    /\ UNCHANGED <<RequestTimer, RetryCount, Current_Invoke_ID, granted>>

(* tsm_timer_milliseconds counts down the slots that await a confirmation; *)
(* those whose timer runs out are sent again, and fail after ApduRetries.  *)
Counting == {s \in Slots : state[s] = "AWAIT_CONFIRMATION"}
Expiring == {s \in Counting : RequestTimer[s] <= 1}
Retrying == {s \in Expiring : RetryCount[s] < ApduRetries}

TimerTick ==
    /\ RequestTimer' = [s \in Slots |->
            CASE s \in Retrying -> ApduTimeout
              [] s \in Expiring \ Retrying -> 0
              [] s \in Counting \ Expiring -> RequestTimer[s] - 1
              [] OTHER -> RequestTimer[s]]
    /\ RetryCount' = [s \in Slots |-> IF s \in Retrying THEN RetryCount[s] + 1
                                                       ELSE RetryCount[s]]
    /\ state' = [s \in Slots |-> IF s \in Expiring \ Retrying THEN "IDLE"
                                                             ELSE state[s]]
    /\ UNCHANGED <<InvokeID, Current_Invoke_ID, granted>>

Next == \/ \E id \in InvokeIds, s \in Slots : GrantInvokeId(id, s)
        \/ RefuseInvokeId
        \/ \E id \in InvokeIds, s \in Slots : SetConfirmed(id, s)
        \/ \E id \in 0 .. MaxInvokeId, s \in Slots : FreeInvokeId(id, s)
        \/ FreeAllInvokeIds
        \/ TimerTick

Spec == Init /\ [][Next]_vars
-----------------------------------------------------------------------------
(* The table and the cursor keep their types.  That a slot which is unused *)
(* is also IDLE is what makes tsm_transaction_idle_count count every slot  *)
(* that tsm_next_free_invokeID can use.                                    *)
TypeOK == /\ InvokeID \in [Slots -> 0 .. MaxInvokeId]
          /\ state \in [Slots -> TsmStates]
          /\ RequestTimer \in [Slots -> Nat]
          /\ RetryCount \in [Slots -> Nat]
          /\ Current_Invoke_ID \in InvokeIds
          /\ granted \in 0 .. MaxInvokeId
          /\ \A s \in FreeSlots : state[s] = "IDLE"

(* No two transactions share an invoke id, so that tsm_free_invoke_id,     *)
(* which frees the first slot it finds, frees the one the reply is for.    *)
UniqueInvokeIds ==
    \A r, s \in Slots : InvokeID[r] = InvokeID[s] => r = s \/ InvokeID[r] = 0

(* The while loop of tsm_next_free_invokeID ends: when a slot is free there *)
(* is an id that it stops at.                                              *)
SearchEnds == FreeSlots # {} => \E id \in InvokeIds : FirstUnused(id)

(* The table implements the pool of ids. *)
Pool == INSTANCE InvokeIdPool WITH Ids <- InvokeIds,
                                   Capacity <- MaxTransactions,
                                   outstanding <- Outstanding
PoolSpec == Pool!Spec

(* The timer is called again and again (once a millisecond, in the code).  *)
TimedSpec == Spec /\ WF_vars(TimerTick)

Awaiting(id) == ~InvokeIdFree(id) /\ ~InvokeIdFailed(id)
Sent(id) == \E s \in Slots : SetConfirmed(id, s)

(* A request that nobody answers, frees or sends anew fails in the end: the *)
(* timer leaves "IDLE and a valid invoke id", for tsm_invoke_id_failed.     *)
UnansweredFails == \A id \in InvokeIds : <>[]Awaiting(id) => []<><<Sent(id)>>_vars
=============================================================================
