------------------------ MODULE ConfirmedSendProofs ------------------------
(***************************************************************************)
(* Proofs about ConfirmedSend.tla, for any number of senders, of requests  *)
(* and of slots: how much of the missing locking each property needs.      *)
(***************************************************************************)
EXTENDS ConfirmedSend, TLAPS

(* What is seen of overlaps is remembered. *)
OverlapsSeen == SearchesOverlap => overlapped

(* The only searcher has found that no slot holds the cursor's id, and     *)
(* nobody else moves the cursor.                                           *)
SearchMeans ==
    ~overlapped =>
        /\ Current_Invoke_ID = 0 => \E t \in Senders : pc[t] \in {"skip_probe", "skip_zero"}
        /\ \A t \in Senders : pc[t] \in {"free_index", "reserve"} => InvokeIdFree(Current_Invoke_ID)

(* A sender finds its own npdu and apdu in the buffer, until another writes. *)
BufferMeans ==
    \A t \in Senders :
        pc[t] \notin {"idle", "wait"} /\ t \notin interfered =>
            /\ Handler_Transmit_Buffer.npdu = request[t]
            /\ pc[t] = "send" => /\ Handler_Transmit_Buffer.apdu = request[t]
                                 /\ Handler_Transmit_Buffer.id = invoke_id[t]

IInv == /\ TypeOK /\ OverlapsSeen /\ SearchMeans /\ BufferMeans
        /\ UniqueInvokeIds
-----------------------------------------------------------------------------
LEMMA CursorType ==
  ASSUME NEW i \in 0 .. MaxInvokeId
  PROVE  /\ (i + 1) % (MaxInvokeId + 1) \in 0 .. MaxInvokeId
         /\ (IF i = 0 THEN 1 ELSE i) \in 0 .. MaxInvokeId
  BY TableFits

(* Every step keeps the types. *)
LEMMA TypeStep == TypeOK /\ [Next]_vars => TypeOK'
<1> SUFFICES ASSUME TypeOK, Next PROVE TypeOK'
  BY DEF TypeOK, vars, Pdus, Encoding
<1> USE DEF TypeOK, Steps, Goto
<1>0. /\ overlapped' \in BOOLEAN /\ (interfered \subseteq Encoding)'
      /\ 0 \in 0 .. MaxInvokeId
  BY TableFits DEF Next
<1>1. ASSUME NEW t \in Senders, NEW r \in Requests, EncodeNpdu(t, r)
      PROVE  TypeOK'
  <2>1. Handler_Transmit_Buffer' \in Pdus
    BY <1>1 DEF EncodeNpdu, Pdus
  <2> QED
    BY <1>0, <1>1, <2>1 DEF EncodeNpdu
<1>2. ASSUME NEW t \in Senders, FindsSlot(t) \/ FindsNoSlot(t) \/ Probe(t)
      PROVE  TypeOK'
  BY <1>0, <1>2 DEF FindsSlot, FindsNoSlot, Probe
<1>3. ASSUME NEW t \in Senders, AdvanceProbe(t) \/ AdvanceCursor(t)
      PROVE  TypeOK'
  <2>1. Current_Invoke_ID' \in 0 .. MaxInvokeId
    BY <1>3, CursorType DEF AdvanceProbe, AdvanceCursor, IncrementCursor, SkipZero
  <2>2. pc' \in [Senders -> Steps]
    BY <1>3 DEF AdvanceProbe, AdvanceCursor, IncrementCursor, SkipZero
  <2> QED
    BY <1>0, <1>3, <2>1, <2>2 DEF AdvanceProbe, AdvanceCursor, IncrementCursor, SkipZero
<1>4. ASSUME NEW t \in Senders, FindFreeIndex(t)
      PROVE  TypeOK'
  BY <1>0, <1>4 DEF FindFreeIndex
<1>5. ASSUME NEW t \in Senders, ReserveIndex(t) \/ ClearAll(t)
      PROVE  TypeOK'
  BY <1>0, <1>5 DEF ReserveIndex, ClearAll
<1>6. ASSUME NEW t \in Senders, EncodeApdu(t)
      PROVE  TypeOK'
  <2>1. Handler_Transmit_Buffer' \in Pdus
    BY <1>6 DEF EncodeApdu, Pdus
  <2> QED
    BY <1>0, <1>6, <2>1 DEF EncodeApdu
<1>7. ASSUME NEW t \in Senders, SendPdu(t) \/ SendFails(t) \/ Return(t)
      PROVE  TypeOK'
  BY <1>0, <1>7 DEF SendPdu, SendFails, Return
<1>8. ASSUME NEW m \in wire, Receive(m) \/ Lose(m)
      PROVE  TypeOK'
  <2>1. m.id \in 0 .. MaxInvokeId
    BY DEF Pdus
  <2> QED
    BY <1>0, <1>8, <2>1 DEF Receive, Lose
<1>9. CASE FindInvokeId
  <2>1. receiver' \in [pc : {"idle", "find", "free"}, invoke_id : 0 .. MaxInvokeId, index : Slots]
    BY <1>9 DEF FindInvokeId
  <2> QED
    BY <1>0, <1>9, <2>1 DEF FindInvokeId
<1>10. CASE FreeFoundIndex
  <2>1. receiver' \in [pc : {"idle", "find", "free"}, invoke_id : 0 .. MaxInvokeId, index : Slots]
    BY <1>10 DEF FreeFoundIndex
  <2>2. InvokeID' \in [Slots -> 0 .. MaxInvokeId]
    BY <1>0, <1>10 DEF FreeFoundIndex
  <2> QED
    BY <1>0, <1>10, <2>1, <2>2 DEF FreeFoundIndex
<1> QED
  BY <1>10, <1>1, <1>2, <1>3, <1>4, <1>5, <1>6, <1>7, <1>8, <1>9 DEF Next, Step, Send
-----------------------------------------------------------------------------
(* What the steps do to the cursor and the table, as long as at most one   *)
(* sender searches.                                                        *)
LEMMA SearchStep ==
  ASSUME IInv, Next
  PROVE  SearchMeans' /\ UniqueInvokeIds'
<1> USE DEF IInv, TypeOK, Goto
<1> DEFINE SearchGoal ==
               /\ Current_Invoke_ID' = 0 =>
                      \E t \in Senders : pc'[t] \in {"skip_probe", "skip_zero"}
               /\ \A t \in Senders : pc'[t] \in {"free_index", "reserve"} =>
                      \A s \in Slots : InvokeID'[s] # Current_Invoke_ID'
               /\ \A r, s \in Slots : InvokeID'[r] = InvokeID'[s] => r = s \/ InvokeID'[r] = 0
<1> SUFFICES ASSUME ~overlapped' PROVE SearchGoal
  BY DEF SearchMeans, UniqueInvokeIds, InvokeIdFree
<1>1. /\ ~overlapped
      /\ \A t, u \in Searching : t = u
      /\ \A t, u \in Searching' : t = u
  BY DEF Next, OverlapsSeen, SearchesOverlap
<1>2. /\ Current_Invoke_ID = 0 => \E t \in Senders : pc[t] \in {"skip_probe", "skip_zero"}
      /\ \A t \in Senders : pc[t] \in {"free_index", "reserve"} =>
             \A s \in Slots : InvokeID[s] # Current_Invoke_ID
      /\ \A r, s \in Slots : InvokeID[r] = InvokeID[s] => r = s \/ InvokeID[r] = 0
  BY <1>1 DEF SearchMeans, UniqueInvokeIds, InvokeIdFree
<1>3. ASSUME NEW t \in Senders, t \in Searching \/ t \in Searching', NEW u \in Senders, u # t
      PROVE  pc'[u] = pc[u] => pc[u] \notin {"free_index", "reserve", "skip_probe", "skip_zero"}
  BY <1>1, <1>3 DEF Searching
<1>4. ASSUME NEW t \in Senders, Probe(t) \/ FindFreeIndex(t) \/ ReserveIndex(t)
                                \/ AdvanceProbe(t) \/ AdvanceCursor(t)
      PROVE  /\ t \in Searching
             /\ \A u \in Senders \ {t} :
                    pc'[u] = pc[u] /\ pc[u] \notin {"free_index", "reserve", "skip_probe", "skip_zero"}
  <2>1. t \in Searching /\ \A u \in Senders \ {t} : pc'[u] = pc[u]
    BY <1>4 DEF Searching, Probe, FindFreeIndex, ReserveIndex, AdvanceProbe, AdvanceCursor,
                IncrementCursor, SkipZero
  <2> QED
    BY <1>3, <2>1
<1>5. ASSUME NEW t \in Senders, Probe(t) \/ FindFreeIndex(t)
      PROVE  /\ Current_Invoke_ID' = Current_Invoke_ID /\ InvokeID' = InvokeID
             /\ pc[t] \notin {"skip_probe", "skip_zero"}
             /\ pc'[t] \in {"free_index", "reserve"} => \A s \in Slots : InvokeID[s] # Current_Invoke_ID
  <2>1. CASE Probe(t)
    <3>1. pc[t] = "probe" /\ UNCHANGED <<Current_Invoke_ID, InvokeID>>
          /\ pc'[t] = IF InvokeIdFree(Current_Invoke_ID) THEN "free_index" ELSE "next_probe"
      BY <2>1 DEF Probe
    <3>2. CASE InvokeIdFree(Current_Invoke_ID)
      BY <3>1, <3>2 DEF InvokeIdFree
    <3>3. CASE ~InvokeIdFree(Current_Invoke_ID)
      BY <3>1, <3>3
    <3> QED
      BY <3>2, <3>3
  <2>2. CASE FindFreeIndex(t)
    BY <1>2, <2>2 DEF FindFreeIndex
  <2> QED
    BY <1>5, <2>1, <2>2
<1>6. ASSUME NEW t \in Senders, Probe(t) \/ FindFreeIndex(t)
      PROVE  SearchGoal
  BY <1>2, <1>4, <1>5, <1>6
<1>7. ASSUME NEW t \in Senders, ReserveIndex(t)
      PROVE  SearchGoal
  <2>1. /\ pc[t] = "reserve" /\ pc'[t] = "increment" /\ index[t] \in Slots
        /\ InvokeID' = [InvokeID EXCEPT ![index[t]] = Current_Invoke_ID]
        /\ Current_Invoke_ID' = Current_Invoke_ID
    BY <1>7 DEF ReserveIndex
  <2> QED
    BY <1>2, <1>4, <1>7, <2>1
<1>8. ASSUME NEW t \in Senders, AdvanceProbe(t) \/ AdvanceCursor(t)
      PROVE  SearchGoal
  <2>1. InvokeID' = InvokeID /\ pc'[t] \notin {"free_index", "reserve"}
    BY <1>8 DEF AdvanceProbe, AdvanceCursor, IncrementCursor, SkipZero
  <2>2. \/ pc'[t] \in {"skip_probe", "skip_zero"}
        \/ Current_Invoke_ID' # 0
    BY <1>8 DEF AdvanceProbe, AdvanceCursor, IncrementCursor, SkipZero
  <2> QED
    BY <1>2, <1>4, <1>8, <2>1, <2>2
<1>9. ASSUME UNCHANGED <<Current_Invoke_ID, InvokeID>>,
             \A t \in Senders : pc'[t] # pc[t] =>
                 {pc[t], pc'[t]} \cap {"free_index", "reserve", "skip_probe", "skip_zero"} = {}
      PROVE  SearchGoal
  BY <1>2, <1>9
<1>10. ASSUME Current_Invoke_ID' = Current_Invoke_ID,
              \A s \in Slots : InvokeID'[s] \in {0, InvokeID[s]},
              \A t \in Senders : pc'[t] # pc[t] =>
                 {pc[t], pc'[t]} \cap {"free_index", "reserve", "skip_probe", "skip_zero"} = {}
      PROVE  SearchGoal
  <2>1. \A t \in Senders : pc[t] \in {"free_index", "reserve"} => Current_Invoke_ID # 0
    BY <1>1, <1>2 DEF Searching
  <2> QED
    BY <1>2, <1>10, <2>1
<1>11. ASSUME NEW t \in Senders,
              \/ \E r \in Requests : EncodeNpdu(t, r)
              \/ FindsSlot(t) \/ FindsNoSlot(t)
              \/ EncodeApdu(t) \/ SendPdu(t) \/ SendFails(t) \/ Return(t)
       PROVE  SearchGoal
  BY <1>9, <1>11 DEF EncodeNpdu, FindsSlot, FindsNoSlot, EncodeApdu, SendPdu, SendFails, Return
<1>12. ASSUME NEW t \in Senders, ClearAll(t)
       PROVE  SearchGoal
  BY <1>10, <1>12 DEF ClearAll
<1>13. CASE \/ \E m \in wire : Receive(m) \/ Lose(m)
            \/ FindInvokeId
  BY <1>9, <1>13 DEF Receive, Lose, FindInvokeId
<1>14. CASE FreeFoundIndex
  BY <1>10, <1>14 DEF FreeFoundIndex
<1> QED
  BY <1>6, <1>7, <1>8, <1>11, <1>12, <1>13, <1>14 DEF Next, Step, Send

(* What the steps do to the buffer, for a sender that nobody has written over. *)
LEMMA BufferStep ==
  ASSUME IInv, Next
  PROVE  BufferMeans'
<1> USE DEF IInv, TypeOK, Goto
<1> DEFINE Own(t) == /\ Handler_Transmit_Buffer'.npdu = request'[t]
                     /\ pc'[t] = "send" => /\ Handler_Transmit_Buffer'.apdu = request'[t]
                                           /\ Handler_Transmit_Buffer'.id = invoke_id'[t]
<1> SUFFICES ASSUME NEW t \in Senders, pc'[t] \notin {"idle", "wait"}, t \notin interfered'
             PROVE  Own(t)
  BY DEF BufferMeans
<1>1. t \notin interfered /\ \A u \in Senders \ {t} : ~Writes(u)
  BY DEF Next, WrittenOver, Encoding
<1>2. pc[t] \notin {"idle", "wait"} =>
          /\ Handler_Transmit_Buffer.npdu = request[t]
          /\ pc[t] = "send" => /\ Handler_Transmit_Buffer.apdu = request[t]
                               /\ Handler_Transmit_Buffer.id = invoke_id[t]
  BY <1>1 DEF BufferMeans
<1>3. ASSUME NEW u \in Senders, NEW r \in Requests, EncodeNpdu(u, r)
      PROVE  Own(t)
  <2>1. pc[u] = "idle" /\ pc'[u] = "available" /\ request'[u] = r
        /\ Handler_Transmit_Buffer'.npdu = r
    BY <1>3 DEF EncodeNpdu, Pdus
  <2>2. u = t
    BY <1>1, <2>1 DEF Writes
  <2> QED
    BY <2>1, <2>2
<1>4. ASSUME NEW u \in Senders, EncodeApdu(u)
      PROVE  Own(t)
  <2>1. /\ pc'[u] = "send" /\ pc[u] = "encode" /\ UNCHANGED <<request, invoke_id>>
        /\ Handler_Transmit_Buffer'.npdu = Handler_Transmit_Buffer.npdu
        /\ Handler_Transmit_Buffer'.apdu = request[u]
        /\ Handler_Transmit_Buffer'.id = invoke_id[u]
    BY <1>4 DEF EncodeApdu, Pdus
  <2>2. u = t
    BY <1>1, <2>1 DEF Writes
  <2> QED
    BY <1>2, <2>1, <2>2
<1>5. ASSUME UNCHANGED Handler_Transmit_Buffer,
             \/ pc'[t] \in {"idle", "wait"}
             \/ /\ pc[t] \notin {"idle", "wait"} /\ request'[t] = request[t]
                /\ pc'[t] = "send" => pc[t] = "send" /\ invoke_id'[t] = invoke_id[t]
      PROVE  Own(t)
  BY <1>2, <1>5
<1>6. ASSUME NEW u \in Senders, SendPdu(u) \/ SendFails(u) \/ Return(u)
      PROVE  Own(t)
  BY <1>5, <1>6 DEF SendPdu, SendFails, Return
<1>7. ASSUME NEW u \in Senders,
             \/ FindsSlot(u) \/ FindsNoSlot(u) \/ Probe(u) \/ FindFreeIndex(u)
             \/ ReserveIndex(u) \/ ClearAll(u)
      PROVE  Own(t)
  BY <1>5, <1>7 DEF FindsSlot, FindsNoSlot, Probe, FindFreeIndex, ReserveIndex, ClearAll
<1>8. ASSUME NEW u \in Senders, AdvanceProbe(u) \/ AdvanceCursor(u)
      PROVE  Own(t)
  BY <1>5, <1>8 DEF AdvanceProbe, AdvanceCursor, IncrementCursor, SkipZero
<1>9. CASE \/ \E m \in wire : Receive(m) \/ Lose(m)
           \/ FindInvokeId \/ FreeFoundIndex
  BY <1>5, <1>9 DEF Receive, Lose, FindInvokeId, FreeFoundIndex
<1> QED
  BY <1>3, <1>4, <1>6, <1>7, <1>8, <1>9 DEF Next, Step, Send

THEOREM Invariance == Spec => []IInv
<1>1. Init => IInv
  <2> SUFFICES ASSUME Init PROVE IInv
    OBVIOUS
  <2>1. 0 \in 0 .. MaxInvokeId /\ 1 \in 0 .. MaxInvokeId /\ 0 \in Slots
    BY TableFits DEF Slots
  <2>2. Handler_Transmit_Buffer \in Pdus
    BY <2>1 DEF Init, Pdus
  <2>3. receiver \in [pc : {"idle", "find", "free"}, invoke_id : 0 .. MaxInvokeId, index : Slots]
    BY <2>1 DEF Init
  <2>4. TypeOK
    BY <2>1, <2>2, <2>3 DEF Init, TypeOK, Steps
  <2>5. Encoding = {} /\ Searching = {}
    BY DEF Init, Encoding, Searching
  <2> QED
    BY <2>4, <2>5 DEF Init, IInv, OverlapsSeen, SearchesOverlap, SearchMeans, BufferMeans,
                      UniqueInvokeIds
<1>2. IInv /\ [Next]_vars => IInv'
  <2>1. CASE UNCHANGED vars
    BY <2>1 DEF vars, IInv, TypeOK, Pdus, OverlapsSeen, SearchesOverlap, Searching, Encoding,
                SearchMeans, InvokeIdFree, BufferMeans, UniqueInvokeIds
  <2>2. ASSUME Next PROVE OverlapsSeen'
    BY <2>2 DEF Next, OverlapsSeen
  <2> QED
    BY <2>1, <2>2, TypeStep, SearchStep, BufferStep DEF IInv
<1> QED
  BY <1>1, <1>2, PTL DEF Spec

(* The shared data and the locals of the threads keep their types. *)
THEOREM TypeCorrect == Spec => []TypeOK
<1>1. IInv => TypeOK
  BY DEF IInv
<1> QED
  BY <1>1, Invariance, PTL

(* Ids are unique as long as the searches do not overlap. *)
THEOREM SearchesKeepIdsUnique == Spec => []UniqueInvokeIds
<1>1. IInv => UniqueInvokeIds
  BY DEF IInv
<1> QED
  BY <1>1, Invariance, PTL

(* A sender sends its own request, whole, unless another has written into  *)
(* the buffer since its npdu.                                              *)
THEOREM SendsAreWhole == Spec => []OneRequestPerPdu
<1>1. IInv => OneRequestPerPdu
  BY DEF IInv, TypeOK, Pdus, BufferMeans, OneRequestPerPdu
<1> QED
  BY <1>1, Invariance, PTL
=============================================================================
