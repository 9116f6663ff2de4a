-------------------------- MODULE PrivateTransfer --------------------------
(***************************************************************************)
(* The blocking private transfers of T3000 (global_function.cpp):          *)
(* GetPrivateData_Blocking reads for the screen, GetPrivateDataSaveSP-     *)
(* Blocking reads in the background, WritePrivateData_Blocking writes.     *)
(* Each sends a request, polls until the invoke id of the request is free  *)
(* in the transaction table, and sends again a bounded number of times.    *)
(* The receive thread (MSTP_Receive, apdu_handler) takes the replies and   *)
(* frees their ids.  The table is the set of the ids that are out; that    *)
(* Tsm.tla is no more than that to its callers is proved in TsmProofs.tla. *)
(*                                                                         *)
(* One action is one call of the table, one send, one poll, or one part of *)
(* a reply's handling between two reads of what the threads share.  The    *)
(* PTP and offline branches, which send nothing, are left out.             *)
(***************************************************************************)
EXTENDS Integers, FiniteSets

CONSTANTS
    Readers,        \* callers of GetPrivateData_Blocking
    Specials,       \* callers of GetPrivateDataSaveSPBlocking
    Writers,        \* callers of WritePrivateData_Blocking
    RetryTime,      \* the parameter retrytime
    ResendLimit,    \* sends per try of a read, 3 in the code
    MaxInvokeId,    \* the largest value of a uint8_t
    Capacity,       \* MAX_TSM_TRANSACTIONS
    MaxInFlight     \* bound: messages the network holds; more are lost

ASSUME Bounds == /\ RetryTime \in Nat \ {0}
                 /\ ResendLimit \in Nat \ {0}
                 /\ MaxInvokeId \in Nat
                 /\ Capacity \in 1 .. MaxInvokeId
                 /\ MaxInFlight \in Nat

Callers == Readers \cup Specials \cup Writers
InvokeIds == 1 .. MaxInvokeId
NoInvokeId == -1
Limit(c) == IF c \in Writers THEN RetryTime ELSE ResendLimit

VARIABLES
    outstanding,        \* the ids of the transaction table
    Current_Invoke_ID,
    gsp_invoke,         \* the id whose reply is not for the screen
    net,                \* requests and replies on their way: [id, from, current]
    rx,                 \* the receive thread: [pc, msg]
    pc, z, resend_count, temp_invoke_id,    \* caller -> where it is, and its locals
    result,             \* caller -> what its last call returned; 0: nothing yet
    answered,           \* history: callers whose last request was answered
    disturbed           \* history: an id was freed that another request still used

vars == <<outstanding, Current_Invoke_ID, gsp_invoke, net, rx, pc, z, resend_count,
          temp_invoke_id, result, answered, disturbed>>

tableVars == <<outstanding, Current_Invoke_ID>>
callVars == <<pc, z, resend_count, temp_invoke_id, result>>
history == <<answered, disturbed>>

(* A message carries its id; "from" and "current" (it belongs to the last  *)
(* request its caller sent) are for the properties only.                   *)
Messages == [id : 0 .. MaxInvokeId, from : Callers, current : BOOLEAN]
NoMessage == [id |-> 0, from |-> "nobody", current |-> FALSE]

Outdated(m, c) == IF m.from = c THEN [m EXCEPT !.current = FALSE] ELSE m
Increment(id) == (id % MaxInvokeId) + 1
Full == Cardinality(outstanding) = Capacity

(* tsm_invoke_id_free: no slot of the table holds the id.  The slots that  *)
(* are not used hold id 0.                                                 *)
InvokeIdFree(id) == IF id = 0 THEN Full ELSE id \notin outstanding

(* tsm_next_free_invokeID searches from the cursor on.  Faulty variant: it *)
(* takes the cursor's id whether or not it is out.                         *)
CursorId(id) == id = Current_Invoke_ID
FirstUnused(id) ==
    /\ id \notin outstanding
    /\ \A j \in InvokeIds \ outstanding :
         (id - Current_Invoke_ID) % MaxInvokeId <= (j - Current_Invoke_ID) % MaxInvokeId

Init == /\ outstanding = {}
        /\ Current_Invoke_ID = 1
        /\ gsp_invoke = 0
        /\ net = {}
        /\ rx = [pc |-> "idle", msg |-> NoMessage]
        /\ pc = [c \in Callers |-> "idle"]
        /\ z = [c \in Callers |-> 0]
        /\ resend_count = [c \in Callers |-> 0]
        /\ temp_invoke_id = [c \in Callers |-> NoInvokeId]
        /\ result = [c \in Callers |-> 0]
        /\ answered = {}
        /\ disturbed = FALSE
-----------------------------------------------------------------------------
(* The reads forget whose reply was not for the screen.  Faulty variant:   *)
(* the writes do so too.                                                   *)
ForgetAnyMark(c) == NoInvokeId
ForgetMark(c) == IF c \in Writers THEN gsp_invoke ELSE NoInvokeId

(* A call begins. *)
Begin(c) ==
    /\ pc[c] = "idle"
    /\ pc' = [pc EXCEPT ![c] = "send"]
    /\ z' = [z EXCEPT ![c] = 1]
    /\ resend_count' = [resend_count EXCEPT ![c] = 0]
    /\ temp_invoke_id' = [temp_invoke_id EXCEPT ![c] = NoInvokeId]
    /\ result' = [result EXCEPT ![c] = 0]
    /\ gsp_invoke' = ForgetMark(c)
    /\ net' = {Outdated(m, c) : m \in net}
    /\ rx' = [rx EXCEPT !.msg = Outdated(@, c)]
    /\ answered' = answered \ {c}
    /\ UNCHANGED <<outstanding, Current_Invoke_ID, disturbed>>

(* Send_ConfirmedPrivateTransfer gets an id; a full table is cleared, and  *)
(* the request goes out with id 0.                                         *)
TakeInvokeId(id) ==
    \/ /\ ~Full
       /\ id # 0
       /\ FirstUnused(id)
       /\ outstanding' = outstanding \cup {id}
       /\ Current_Invoke_ID' = Increment(id)
       /\ UNCHANGED disturbed
    \/ /\ Full
       /\ id = 0
       /\ outstanding' = {}
       /\ disturbed' = TRUE
       /\ UNCHANGED Current_Invoke_ID

(* A send is counted whether it succeeds or not.  Faulty variants: one     *)
(* send too many; sends that are not counted.                              *)
CountOneMore(c) == /\ pc[c] = "send"
                   /\ resend_count[c] <= Limit(c)
                   /\ resend_count' = [resend_count EXCEPT ![c] = @ + 1]

CountNothing(c) == /\ pc[c] = "send"
                   /\ resend_count[c] < Limit(c)
                   /\ UNCHANGED resend_count

CountSend(c) == /\ pc[c] = "send"
                /\ resend_count[c] < Limit(c)
                /\ resend_count' = [resend_count EXCEPT ![c] = @ + 1]

(* The request is sent: the caller has its id, and waits for the reply.    *)
SendOk(c, id) ==
    /\ CountSend(c)
    /\ TakeInvokeId(id)
    /\ temp_invoke_id' = [temp_invoke_id EXCEPT ![c] = id]
    /\ LET older == {Outdated(m, c) : m \in net}
           message == [id |-> id, from |-> c, current |-> TRUE]
       IN  net' = IF Cardinality(older) < MaxInFlight THEN older \cup {message} ELSE older
    /\ rx' = [rx EXCEPT !.msg = Outdated(@, c)]
    /\ answered' = answered \ {c}
    /\ pc' = [pc EXCEPT ![c] = IF c \in Specials THEN "mark" ELSE "wait"]
    /\ UNCHANGED <<gsp_invoke, z, result>>

(* The datalink sends no byte: -2 is returned, and the id stays out.       *)
SendFails(c, id) ==
    /\ CountSend(c)
    /\ TakeInvokeId(id)
    /\ UNCHANGED <<gsp_invoke, net, rx, pc, z, temp_invoke_id, result, answered>>

(* No address for the device, or communication is disabled: nothing is     *)
(* sent, and no id is taken.                                               *)
NotSent(c) ==
    /\ CountSend(c)
    /\ UNCHANGED <<tableVars, gsp_invoke, net, rx, pc, z, temp_invoke_id, result, history>>

(* The call returns a value, and its locals are gone. *)
Return(c, value) ==
    /\ pc' = [pc EXCEPT ![c] = "idle"]
    /\ z' = [z EXCEPT ![c] = 0]
    /\ resend_count' = [resend_count EXCEPT ![c] = 0]
    /\ temp_invoke_id' = [temp_invoke_id EXCEPT ![c] = NoInvokeId]
    /\ result' = [result EXCEPT ![c] = value]

(* The next of the retrytime tries, or -1. *)
NextTry(c) ==
    IF z[c] < RetryTime
    THEN /\ z' = [z EXCEPT ![c] = @ + 1]
         /\ pc' = [pc EXCEPT ![c] = "send"]
         /\ resend_count' = [resend_count EXCEPT ![c] = 0]
         /\ temp_invoke_id' = [temp_invoke_id EXCEPT ![c] = NoInvokeId]
         /\ UNCHANGED result
    ELSE Return(c, -1)

(* send_status is false after too many failed sends. *)
StopSending(c) ==
    /\ pc[c] = "send"
    /\ resend_count[c] = Limit(c)
    /\ NextTry(c)
    /\ UNCHANGED <<tableVars, gsp_invoke, net, rx, history>>

(* GetPrivateDataSaveSPBlocking tells the receive thread which id is its   *)
(* own, after the request has been sent.                                   *)
Mark(c) ==
    /\ pc[c] = "mark"
    /\ gsp_invoke' = temp_invoke_id[c]
    /\ pc' = [pc EXCEPT ![c] = "wait"]
    /\ UNCHANGED <<tableVars, net, rx, z, resend_count, temp_invoke_id, result, history>>

(* A poll finds the id free: the call returns 1. *)
Succeed(c) ==
    /\ pc[c] = "wait"
    /\ InvokeIdFree(temp_invoke_id[c])
    /\ Return(c, 1)
    /\ gsp_invoke' = IF c \in Specials THEN NoInvokeId ELSE gsp_invoke
    /\ UNCHANGED <<tableVars, net, rx, history>>

(* The last of the polls finds the id still out; it stays out.  Faulty     *)
(* variant: it is freed, to be used again at once.                         *)
TimeOutFreeing(c) ==
    /\ pc[c] = "wait"
    /\ ~InvokeIdFree(temp_invoke_id[c])
    /\ NextTry(c)
    /\ outstanding' = outstanding \ {temp_invoke_id[c]}
    /\ UNCHANGED <<Current_Invoke_ID, gsp_invoke, net, rx, history>>

TimeOut(c) ==
    /\ pc[c] = "wait"
    /\ ~InvokeIdFree(temp_invoke_id[c])
    /\ NextTry(c)
    /\ UNCHANGED <<tableVars, gsp_invoke, net, rx, history>>

Step(c) == \/ (\E id \in 0 .. MaxInvokeId : SendOk(c, id) \/ SendFails(c, id))
           \/ NotSent(c) \/ StopSending(c) \/ Mark(c) \/ Succeed(c) \/ TimeOut(c)
-----------------------------------------------------------------------------
(* The receive thread takes a reply from the network, in any order. *)
RxTake(m) ==
    /\ rx.pc = "idle"
    /\ rx' = [pc |-> "deal", msg |-> m]
    /\ net' = net \ {m}
    /\ UNCHANGED <<tableVars, gsp_invoke, callVars, history>>

Answer(m) == answered' = IF m.current THEN answered \cup {m.from} ELSE answered

(* Both the function that stores the data of an acknowledgement and the    *)
(* one that has the screen refreshed look at the mark.                     *)
IsForScreen(m) == m.id # gsp_invoke

(* Bacnet_PrivateData_Deal stores the data with the data of the screen, or *)
(* with the background data ...                                            *)
RxDeal ==
    /\ rx.pc = "deal"
    /\ Answer(rx.msg)
    /\ rx' = [rx EXCEPT !.pc = "notify"]
    /\ UNCHANGED <<tableVars, gsp_invoke, net, callVars, disturbed>>

(* ... and local_handler_conf_private_trans_ack has the screen refreshed,  *)
(* or not.                                                                 *)
RxNotify ==
    /\ rx.pc = "notify"
    /\ rx' = [rx EXCEPT !.pc = "free"]
    /\ UNCHANGED <<tableVars, gsp_invoke, net, callVars, history>>

(* A reply that carries no usable data: an error, or a block of the wrong  *)
(* length.                                                                 *)
RxNoData ==
    /\ rx.pc = "deal"
    /\ Answer(rx.msg)
    /\ rx' = [rx EXCEPT !.pc = "free"]
    /\ UNCHANGED <<tableVars, gsp_invoke, net, callVars, disturbed>>

(* LocalBacnetRejectHandler and LocalBacnetAbortHandler free the id ... *)
RxAbort ==
    /\ rx.pc = "deal"
    /\ Answer(rx.msg)
    /\ outstanding' = outstanding \ {rx.msg.id}
    /\ rx' = [rx EXCEPT !.pc = "free_again"]
    /\ UNCHANGED <<Current_Invoke_ID, gsp_invoke, net, callVars, disturbed>>

(* ... and apdu_handler frees the id of every reply.                       *)
RxFree ==
    /\ rx.pc \in {"free", "free_again"}
    /\ outstanding' = outstanding \ {rx.msg.id}
    /\ disturbed' = (disturbed \/ (rx.pc = "free_again" /\ rx.msg.id \in outstanding))
    /\ rx' = [pc |-> "idle", msg |-> NoMessage]
    /\ UNCHANGED <<Current_Invoke_ID, gsp_invoke, net, callVars, answered>>

Receive == RxDeal \/ RxNotify \/ RxNoData \/ RxAbort \/ RxFree

(* A request or a reply is lost. *)
Lose(m) == /\ net' = net \ {m}
           /\ UNCHANGED <<tableVars, gsp_invoke, rx, callVars, history>>

(* A click on a button of the BACnet view clears the table. *)
Click == /\ outstanding # {}
         /\ outstanding' = {}
         /\ disturbed' = TRUE
         /\ UNCHANGED <<Current_Invoke_ID, gsp_invoke, net, rx, callVars, answered>>

Next == \/ \E c \in Callers : Begin(c) \/ Step(c)
        \/ \E m \in net : RxTake(m) \/ Lose(m)
        \/ Receive
        \/ Click

Spec == Init /\ [][Next]_vars

-----------------------------------------------------------------------------
(* The shared data and the locals of the callers keep their types. *)
TypeOK == /\ outstanding \subseteq InvokeIds
          /\ Cardinality(outstanding) <= Capacity
          /\ Current_Invoke_ID \in InvokeIds
          /\ gsp_invoke \in {NoInvokeId} \cup 0 .. MaxInvokeId
          /\ net \subseteq Messages
          /\ rx \in [pc : {"idle", "deal", "notify", "free", "free_again"},
                     msg : Messages \cup {NoMessage}]
          /\ pc \in [Callers -> {"idle", "send", "mark", "wait"}]
          /\ z \in [Callers -> 0 .. RetryTime]
          /\ resend_count \in [Callers -> Nat]
          /\ \A c \in Callers : resend_count[c] <= Limit(c)
          /\ temp_invoke_id \in [Callers -> {NoInvokeId} \cup 0 .. MaxInvokeId]
          /\ result \in [Callers -> {-1, 0, 1}]
          /\ answered \subseteq Callers
          /\ disturbed \in BOOLEAN

(* As long as no id was freed under a request, by a click, by a full table *)
(* or by the second free of an aborted one, a call returns 1 only if the   *)
(* last request it sent was answered: late replies to its earlier requests *)
(* and to those of others, which the table still holds, do not count.      *)
SuccessHasCause ==
    \A c \in Callers : result[c] = 1 => c \in answered \/ disturbed

(* Until then, no two callers wait for an answer with the same id.  (A     *)
(* caller that was answered, and has not polled since, may find its id     *)
(* taken again.)                                                           *)
WaitersDistinct ==
    \A c, d \in Callers :
        /\ c # d /\ ~disturbed
        /\ answered \cap {c, d} = {}
        /\ {pc[c], pc[d]} \subseteq {"mark", "wait"}
        => temp_invoke_id[c] # temp_invoke_id[d]

(* A reply that is still on its way, and the one being handled, are for a  *)
(* request whose id is out: no later request has taken its id.             *)
NoReplyIsForAnother ==
    ~disturbed =>
        /\ \A m \in net : m.id \in outstanding
        /\ \A m, n \in net : m.id = n.id => m = n
        /\ rx.pc \in {"deal", "notify", "free"} =>
               /\ rx.msg.id \in outstanding
               /\ \A m \in net : m.id # rx.msg.id

(* Every step of a call uses up something that is bounded: a poll, a send, *)
(* or a try.  So the call returns after a bounded number of its own steps, *)
(* whether it is answered or not, whatever the network, the other callers  *)
(* and the user do to the table.                                           *)
Advances(c) == \/ pc'[c] = "idle"
               \/ z'[c] > z[c]
               \/ z'[c] = z[c] /\ resend_count'[c] > resend_count[c]
               \/ UNCHANGED <<z, resend_count>> /\ pc[c] = "mark" /\ pc'[c] = "wait"

EveryStepCounts == [][\A c \in Callers : Step(c) => Advances(c)]_vars

(* The answer to a command that does not read the selected panel does not  *)
(* become a refresh of the screen, once the caller has marked its id: what *)
(* writers, late replies and lost requests do in the meantime does not     *)
(* remove the mark.  (The start of another read does, and before the mark  *)
(* is set the answer may already be there.)                                *)
MarkedStaysOffScreen ==
    \A c \in Specials :
        /\ Readers \cup Specials = {c} /\ ~disturbed
        /\ rx.pc \in {"deal", "notify"} /\ rx.msg.from = c /\ rx.msg.current
        /\ pc[c] # "mark"
        => ~IsForScreen(rx.msg)

(* "True if it is free (done with), False if still pending": a call that   *)
(* returns 1 because its id is free has had its answer.                    *)
SuccessIsAnswered == \A c \in Callers : result[c] = 1 => c \in answered
=============================================================================
