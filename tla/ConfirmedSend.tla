--------------------------- MODULE ConfirmedSend ---------------------------
(***************************************************************************)
(* Send_ConfirmedPrivateTransfer (BacNetDllforVc/Handler/s_upt.c) and the  *)
(* functions of tsm.c it calls, one action per access to what the threads  *)
(* share: the transaction table, its cursor and the transmit buffer.       *)
(* Nothing is locked there, and the threads of T3000 that talk to devices  *)
(* (the refresh thread, the message thread, the user interface) all call   *)
(* it, while the receive thread frees the ids of the replies.              *)
(*                                                                         *)
(* A scan of the table counts as one access.  Of the table only the ids    *)
(* are kept; a request is a name, and a pdu in the buffer is the request   *)
(* its npdu was made for and the request and id its apdu was made for.     *)
(***************************************************************************)
EXTENDS Integers

CONSTANTS
    Senders,            \* the threads that send
    Requests,           \* names for the requests on their way
    MaxTransactions,    \* MAX_TSM_TRANSACTIONS
    MaxInvokeId,        \* the largest value of a uint8_t
    None                \* no request

ASSUME TableFits == /\ MaxTransactions \in Nat \ {0}
                    /\ MaxInvokeId \in Nat
                    /\ MaxTransactions <= MaxInvokeId

Slots == 0 .. MaxTransactions - 1

VARIABLES
    InvokeID,                   \* slot -> id, 0 if unused
    Current_Invoke_ID,
    Handler_Transmit_Buffer,    \* [npdu, apdu, id]
    wire,                       \* the pdus on their way to the devices
    pc, request, invoke_id, index,  \* sender -> where it is, and its locals
    receiver,                   \* the receive thread: [pc, invoke_id, index]
    overlapped,                 \* history: two senders have searched at once
    interfered                  \* history: the senders in the buffer into which another
                                \* has written since

vars == <<InvokeID, Current_Invoke_ID, Handler_Transmit_Buffer, wire,
          pc, request, invoke_id, index, receiver, overlapped, interfered>>

Pdus == [npdu : Requests \cup {None}, apdu : Requests \cup {None}, id : 0 .. MaxInvokeId]

Steps == {"idle", "available", "probe", "next_probe", "skip_probe", "free_index",
          "reserve", "increment", "skip_zero", "clear_all", "encode", "send", "wait"}

InvokeIdFree(id) == \A s \in Slots : InvokeID[s] # id
IsFirstHolder(s, id) == /\ InvokeID[s] = id
                        /\ \A r \in Slots : InvokeID[r] = id => s <= r

Init == /\ InvokeID = [s \in Slots |-> 0]
        /\ Current_Invoke_ID = 1
        /\ Handler_Transmit_Buffer = [npdu |-> None, apdu |-> None, id |-> 0]
        /\ wire = {}
        /\ pc = [t \in Senders |-> "idle"]
        /\ request = [t \in Senders |-> None]
        /\ invoke_id = [t \in Senders |-> 0]
        /\ index = [t \in Senders |-> 0]
        /\ receiver = [pc |-> "idle", invoke_id |-> 0, index |-> 0]
        /\ overlapped = FALSE
        /\ interfered = {}

Goto(t, from, to) == pc[t] = from /\ pc' = [pc EXCEPT ![t] = to]

(* The names of requests that nothing holds any more are used again. *)
InUse == {Handler_Transmit_Buffer.npdu, Handler_Transmit_Buffer.apdu}
         \cup {m.npdu : m \in wire} \cup {m.apdu : m \in wire}
         \cup {request[t] : t \in Senders}

(* The npdu of a new request is encoded into the buffer of all.  Faulty    *)
(* variant: the npdu of the last request is taken to be still there.       *)
KeepNpdu(t, r) ==
    /\ r \notin InUse
    /\ Goto(t, "idle", "available")
    /\ request' = [request EXCEPT ![t] = r]
    /\ UNCHANGED <<InvokeID, Current_Invoke_ID, Handler_Transmit_Buffer, wire,
                   invoke_id, index, receiver>>

EncodeNpdu(t, r) ==
    /\ r \notin InUse
    /\ Goto(t, "idle", "available")
    /\ request' = [request EXCEPT ![t] = r]
    /\ Handler_Transmit_Buffer' = [Handler_Transmit_Buffer EXCEPT !.npdu = r]
    /\ UNCHANGED <<InvokeID, Current_Invoke_ID, wire, invoke_id, index, receiver>>

(* tsm_transaction_available, and what follows when there is no free slot. *)
FindsSlot(t) ==
    /\ ~InvokeIdFree(0)
    /\ Goto(t, "available", "probe")
    /\ UNCHANGED <<InvokeID, Current_Invoke_ID, Handler_Transmit_Buffer, wire,
                   request, invoke_id, index, receiver>>

FindsNoSlot(t) ==
    /\ InvokeIdFree(0)
    /\ Goto(t, "available", "clear_all")
    /\ invoke_id' = [invoke_id EXCEPT ![t] = 0]
    /\ UNCHANGED <<InvokeID, Current_Invoke_ID, Handler_Transmit_Buffer, wire,
                   request, index, receiver>>

(* The loop looks for the id of the cursor; if it is used, the cursor moves *)
(* on, in two accesses: an increment of a uint8_t, then 0 is skipped.      *)
(* Faulty variants: the cursor's id is not looked for; the increment does  *)
(* not wrap round.                                                         *)
ProbeNothing(t) ==
    /\ Goto(t, "probe", "free_index")
    /\ UNCHANGED <<InvokeID, Current_Invoke_ID, Handler_Transmit_Buffer, wire,
                   request, invoke_id, index, receiver>>

Probe(t) ==
    /\ pc[t] = "probe"
    /\ pc' = [pc EXCEPT ![t] = IF InvokeIdFree(Current_Invoke_ID) THEN "free_index"
                                                                ELSE "next_probe"]
    /\ UNCHANGED <<InvokeID, Current_Invoke_ID, Handler_Transmit_Buffer, wire,
                   request, invoke_id, index, receiver>>

IncrementWithoutWrap(t, from, to) ==
    /\ Goto(t, from, to)
    /\ Current_Invoke_ID' = Current_Invoke_ID + 1
    /\ UNCHANGED <<InvokeID, Handler_Transmit_Buffer, wire, request, invoke_id,
                   index, receiver>>

IncrementCursor(t, from, to) ==
    /\ Goto(t, from, to)
    /\ Current_Invoke_ID' = (Current_Invoke_ID + 1) % (MaxInvokeId + 1)
    /\ UNCHANGED <<InvokeID, Handler_Transmit_Buffer, wire, request, invoke_id,
                   index, receiver>>

SkipZero(t, from, to) ==
    /\ Goto(t, from, to)
    /\ Current_Invoke_ID' = IF Current_Invoke_ID = 0 THEN 1 ELSE Current_Invoke_ID
    /\ UNCHANGED <<InvokeID, Handler_Transmit_Buffer, wire, request, invoke_id,
                   index, receiver>>

(* tsm_find_first_free_index: other threads may have taken the last slot   *)
(* since; the loop then ends all the same, without an id.                  *)
FindFreeIndex(t) ==
    /\ \/ /\ InvokeIdFree(0)
          /\ Goto(t, "free_index", "clear_all")
          /\ UNCHANGED index
       \/ \E s \in Slots : /\ IsFirstHolder(s, 0)
                           /\ Goto(t, "free_index", "reserve")
                           /\ index' = [index EXCEPT ![t] = s]
    /\ invoke_id' = [invoke_id EXCEPT ![t] = 0]
    /\ UNCHANGED <<InvokeID, Current_Invoke_ID, Handler_Transmit_Buffer, wire,
                   request, receiver>>

(* The id is read from the cursor again. *)
ReserveIndex(t) ==
    /\ Goto(t, "reserve", "increment")
    /\ InvokeID' = [InvokeID EXCEPT ![index[t]] = Current_Invoke_ID]
    /\ invoke_id' = [invoke_id EXCEPT ![t] = Current_Invoke_ID]
    /\ UNCHANGED <<Current_Invoke_ID, Handler_Transmit_Buffer, wire, request,
                   index, receiver>>

(* The cursor moves on for the next call; a request without an id clears   *)
(* the table first.                                                        *)
AdvanceCursor(t) ==
    \/ IncrementCursor(t, "increment", "skip_zero")
    \/ SkipZero(t, "skip_zero", IF invoke_id[t] = 0 THEN "clear_all" ELSE "encode")

AdvanceProbe(t) == \/ IncrementCursor(t, "next_probe", "skip_probe")
                   \/ SkipZero(t, "skip_probe", "probe")

(* No id: tsm_free_all_invoke_id, and the request goes out with id 0. *)
ClearAll(t) ==
    /\ Goto(t, "clear_all", "encode")
    /\ InvokeID' = [s \in Slots |-> 0]
    /\ UNCHANGED <<Current_Invoke_ID, Handler_Transmit_Buffer, wire, request,
                   invoke_id, index, receiver>>

(* ptransfer_encode_apdu behind the npdu. *)
EncodeApdu(t) ==
    /\ Goto(t, "encode", "send")
    /\ Handler_Transmit_Buffer' = [Handler_Transmit_Buffer EXCEPT
                                     !.apdu = request[t], !.id = invoke_id[t]]
    /\ UNCHANGED <<InvokeID, Current_Invoke_ID, wire, request, invoke_id,
                   index, receiver>>

(* datalink_send_pdu sends what the buffer holds, to the caller's device... *)
SendPdu(t) ==
    /\ Goto(t, "send", "wait")
    /\ wire' = wire \cup {Handler_Transmit_Buffer}
    /\ UNCHANGED <<InvokeID, Current_Invoke_ID, Handler_Transmit_Buffer, request,
                   invoke_id, index, receiver>>

(* ... or fails: -2 is returned, and the id is not freed. *)
SendFails(t) ==
    /\ Goto(t, "send", "idle")
    /\ request' = [request EXCEPT ![t] = None]
    /\ UNCHANGED <<InvokeID, Current_Invoke_ID, Handler_Transmit_Buffer, wire,
                   invoke_id, index, receiver>>

(* The caller finds its id free, or gives up after its polls; a request it *)
(* sends again is a new request.                                           *)
Return(t) ==
    /\ Goto(t, "wait", "idle")
    /\ request' = [request EXCEPT ![t] = None]
    /\ UNCHANGED <<InvokeID, Current_Invoke_ID, Handler_Transmit_Buffer, wire,
                   invoke_id, index, receiver>>

Send(t) == \/ \E r \in Requests : EncodeNpdu(t, r)
           \/ FindsSlot(t) \/ FindsNoSlot(t)
           \/ Probe(t) \/ AdvanceProbe(t) \/ FindFreeIndex(t)
           \/ ReserveIndex(t) \/ AdvanceCursor(t) \/ ClearAll(t)
           \/ EncodeApdu(t) \/ SendPdu(t) \/ SendFails(t) \/ Return(t)

(* The receive thread takes the reply to a pdu; tsm_free_invoke_id then    *)
(* looks for its id, and frees the slot it found.  A request of id 0 is    *)
(* answered with id 0, which finds the first unused slot.                  *)
Receive(m) ==
    /\ receiver.pc = "idle"
    /\ wire' = wire \ {m}
    /\ receiver' = [receiver EXCEPT !.pc = "find", !.invoke_id = m.id]
    /\ UNCHANGED <<InvokeID, Current_Invoke_ID, Handler_Transmit_Buffer, pc,
                   request, invoke_id, index>>

FindInvokeId ==
    /\ receiver.pc = "find"
    /\ \/ \E s \in Slots : /\ IsFirstHolder(s, receiver.invoke_id)
                           /\ receiver' = [receiver EXCEPT !.pc = "free", !.index = s]
       \/ /\ InvokeIdFree(receiver.invoke_id)
          /\ receiver' = [receiver EXCEPT !.pc = "idle"]
    /\ UNCHANGED <<InvokeID, Current_Invoke_ID, Handler_Transmit_Buffer, wire, pc,
                   request, invoke_id, index>>

FreeFoundIndex ==
    /\ receiver.pc = "free"
    /\ InvokeID' = [InvokeID EXCEPT ![receiver.index] = 0]
    /\ receiver' = [receiver EXCEPT !.pc = "idle"]
    /\ UNCHANGED <<Current_Invoke_ID, Handler_Transmit_Buffer, wire, pc,
                   request, invoke_id, index>>

(* A pdu, or the reply to it, is lost. *)
Lose(m) == /\ wire' = wire \ {m}
           /\ UNCHANGED <<InvokeID, Current_Invoke_ID, Handler_Transmit_Buffer, pc,
                          request, invoke_id, index, receiver>>

(* A sender is in the search from the first look for its id until the      *)
(* cursor has moved on, and in the buffer from its npdu until the pdu has  *)
(* gone out.                                                               *)
Searching == {t \in Senders : pc[t] \in {"probe", "next_probe", "skip_probe", "free_index",
                                         "reserve", "increment", "skip_zero"}}
Encoding == {t \in Senders : pc[t] \notin {"idle", "wait"}}

SearchesOverlap == \E t, u \in Searching : t # u

(* A sender writes into the buffer when it begins and when it encodes. *)
Writes(t) == pc[t] \in {"idle", "encode"} /\ pc'[t] # pc[t]
WrittenOver == {t \in Senders : \E u \in Senders \ {t} : Writes(u)}

Step == \/ \E t \in Senders : Send(t)
        \/ \E m \in wire : Receive(m) \/ Lose(m)
        \/ FindInvokeId
        \/ FreeFoundIndex

Next == /\ Step
        /\ overlapped' = (overlapped \/ SearchesOverlap')
        /\ interfered' = (interfered \cup WrittenOver) \cap Encoding'

Spec == Init /\ [][Next]_vars
-----------------------------------------------------------------------------
(* The shared data and the locals of the threads keep their types. *)
TypeOK == /\ InvokeID \in [Slots -> 0 .. MaxInvokeId]
          /\ Current_Invoke_ID \in 0 .. MaxInvokeId
          /\ Handler_Transmit_Buffer \in Pdus
          /\ wire \subseteq Pdus
          /\ pc \in [Senders -> Steps]
          /\ request \in [Senders -> Requests \cup {None}]
          /\ invoke_id \in [Senders -> 0 .. MaxInvokeId]
          /\ index \in [Senders -> Slots]
          /\ receiver \in [pc : {"idle", "find", "free"}, invoke_id : 0 .. MaxInvokeId,
                           index : Slots]
          /\ overlapped \in BOOLEAN
          /\ interfered \subseteq Encoding

(* "gets the next free invokeID, and reserves a spot in the table": as     *)
(* long as no two senders have searched at once, the id that a request got *)
(* is the id of no other request of the table, although the receive thread *)
(* frees slots and other senders clear the table in the middle of the      *)
(* search.                                                                 *)
UniqueInvokeIds ==
    ~overlapped =>
        \A r, s \in Slots : InvokeID[r] = InvokeID[s] => r = s \/ InvokeID[r] = 0

(* What a sender sends is its own request, npdu and apdu with the id that  *)
(* the request got, whoever else is in the buffer, or was mixed up there   *)
(* before, unless another wrote into the buffer between its npdu and its   *)
(* send.                                                                   *)
OneRequestPerPdu ==
    \A t \in Senders :
        pc[t] = "send" /\ t \notin interfered =>
            Handler_Transmit_Buffer =
                [npdu |-> request[t], apdu |-> request[t], id |-> invoke_id[t]]
=============================================================================
