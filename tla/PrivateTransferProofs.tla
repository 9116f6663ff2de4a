----------------------- MODULE PrivateTransferProofs -----------------------
(***************************************************************************)
(* Proofs about PrivateTransfer.tla, for any callers, any number of ids    *)
(* and tries, and any size of the table and of the network.                *)
(***************************************************************************)
EXTENDS PrivateTransfer, FiniteSetTheorems, TLAPS

(* A caller that waits for an answer that has not come. *)
Waits(c) == pc[c] \in {"mark", "wait"} /\ c \notin answered

(* The replies that have not been dealt with: on their way, or just taken. *)
Pending == net \cup {m \in {rx.msg} : rx.pc = "deal"}

(* A call that has returned something is over. *)
ResultMeans == \A c \in Callers : result[c] # 0 => pc[c] = "idle"

(* The last request of a caller that waits carries the id it waits for. *)
CurrentMeans ==
    \A c \in Callers : pc[c] \in {"mark", "wait"} =>
        /\ \A m \in net : m.from = c /\ m.current => m.id = temp_invoke_id[c]
        /\ rx.pc # "idle" /\ rx.msg.from = c /\ rx.msg.current => rx.msg.id = temp_invoke_id[c]

(* The id a caller waits for is out, and whatever reply carries it is the  *)
(* answer to its last request.                                             *)
WaitMeans ==
    ~disturbed => \A c \in Callers : Waits(c) =>
        /\ temp_invoke_id[c] \in outstanding
        /\ \A m \in Pending : m.id = temp_invoke_id[c] => m.from = c /\ m.current
        /\ rx.pc \in {"notify", "free"} => rx.msg.id # temp_invoke_id[c]

(* Only background reads mark their id.  The mark of the only read is the  *)
(* id of its last request, until the screen has been refreshed or not.     *)
MarkMeans ==
    /\ \A c \in Callers : pc[c] = "mark" => c \in Specials
    /\ ~disturbed => \A c \in Specials :
        Readers \cup Specials = {c} /\ pc[c] # "mark" =>
            /\ \A m \in net : m.from = c /\ m.current => gsp_invoke = m.id
            /\ rx.pc \in {"deal", "notify"} /\ rx.msg.from = c /\ rx.msg.current
                   => gsp_invoke = rx.msg.id

IInv == /\ TypeOK /\ ResultMeans /\ CurrentMeans /\ WaitMeans /\ MarkMeans
        /\ SuccessHasCause /\ WaitersDistinct /\ NoReplyIsForAnother
-----------------------------------------------------------------------------
LEMMA IncrementType == \A id \in InvokeIds : Increment(id) \in InvokeIds
  BY Bounds DEF Increment, InvokeIds

(* What is kept of a message when its caller sends a newer request. *)
LEMMA OutdatedKeeps ==
  ASSUME NEW I, NEW F, NEW m \in [id : I, from : F, current : BOOLEAN], NEW c
  PROVE  /\ Outdated(m, c) \in [id : I, from : F, current : BOOLEAN]
         /\ Outdated(m, c).id = m.id /\ Outdated(m, c).from = m.from
         /\ Outdated(m, c).current => m.current /\ m.from # c
         /\ m.from # c => Outdated(m, c) = m
  BY DEF Outdated

LEMMA OutdatedRx ==
  ASSUME TypeOK, NEW c \in Callers
  PROVE  /\ Outdated(rx.msg, c) \in Messages \cup {NoMessage}
         /\ Outdated(rx.msg, c).id = rx.msg.id /\ Outdated(rx.msg, c).from = rx.msg.from
         /\ Outdated(rx.msg, c).current => rx.msg.current /\ rx.msg.from # c
         /\ rx.msg.from # c => Outdated(rx.msg, c) = rx.msg
<1>1. rx.msg \in Messages \cup {NoMessage}
  BY DEF TypeOK
<1>2. CASE rx.msg \in Messages
  BY <1>2, OutdatedKeeps DEF Messages
<1>3. CASE rx.msg = NoMessage
  <2>1. NoMessage \in [id : {0}, from : {"nobody"}, current : BOOLEAN] /\ ~NoMessage.current
    BY DEF NoMessage
  <2>2. /\ Outdated(NoMessage, c) \in [id : {0}, from : {"nobody"}, current : BOOLEAN]
        /\ Outdated(NoMessage, c).current => NoMessage.current
    BY <2>1, OutdatedKeeps
  <2>3. Outdated(NoMessage, c) = NoMessage
    BY <2>1, <2>2 DEF NoMessage
  <2> QED
    BY <1>3, <2>1, <2>3
<1> QED
  BY <1>1, <1>2, <1>3

LEMMA OutstandingIsFinite ==
  ASSUME TypeOK
  PROVE  IsFiniteSet(outstanding) /\ Cardinality(outstanding) \in Nat
<1>1. IsFiniteSet(InvokeIds)
  BY Bounds, FS_Interval DEF InvokeIds
<1>2. IsFiniteSet(outstanding)
  BY <1>1, FS_Subset DEF TypeOK
<1> QED
  BY <1>2, FS_CardinalityType

(* Freeing an id keeps the table within its size. *)
LEMMA FreeKeepsSize ==
  ASSUME TypeOK, NEW id
  PROVE  Cardinality(outstanding \ {id}) <= Capacity
<1>1. Cardinality(outstanding \ {id}) <= Cardinality(outstanding)
      /\ Cardinality(outstanding \ {id}) \in Nat
  BY OutstandingIsFinite, FS_RemoveElement, FS_CardinalityType
<1> QED
  BY <1>1, OutstandingIsFinite, Bounds DEF TypeOK

(* So does taking one, or clearing a full table. *)
LEMMA TakeKeepsTypes ==
  ASSUME TypeOK, NEW id \in 0 .. MaxInvokeId, TakeInvokeId(id)
  PROVE  /\ outstanding' \subseteq InvokeIds
         /\ Cardinality(outstanding') <= Capacity
         /\ Current_Invoke_ID' \in InvokeIds
         /\ disturbed' \in BOOLEAN
<1>1. CASE ~Full /\ id # 0 /\ outstanding' = outstanding \cup {id}
           /\ Current_Invoke_ID' = Increment(id) /\ UNCHANGED disturbed
  <2>1. id \in InvokeIds
    BY <1>1, Bounds DEF InvokeIds
  <2>2. Cardinality(outstanding') <= Cardinality(outstanding) + 1
    BY <1>1, OutstandingIsFinite, FS_AddElement
  <2>3. Cardinality(outstanding) < Capacity
    BY <1>1, OutstandingIsFinite, Bounds DEF TypeOK, Full
  <2>4. Cardinality(outstanding') \in Nat
    BY <1>1, OutstandingIsFinite, FS_AddElement, FS_CardinalityType
  <2>5. Cardinality(outstanding') <= Capacity
    BY <2>2, <2>3, <2>4, OutstandingIsFinite, Bounds
  <2> QED
    BY <1>1, <2>1, <2>5, IncrementType DEF TypeOK
<1>2. CASE outstanding' = {} /\ disturbed' = TRUE /\ UNCHANGED Current_Invoke_ID
  BY <1>2, FS_EmptySet, Bounds DEF TypeOK
<1> QED
  BY <1>1, <1>2 DEF TakeInvokeId

(* The locals of a caller keep their types when its call goes on or ends. *)
CallTypes ==
    /\ pc \in [Callers -> {"idle", "send", "mark", "wait"}]
    /\ z \in [Callers -> 0 .. RetryTime]
    /\ resend_count \in [Callers -> Nat]
    /\ \A c \in Callers : resend_count[c] <= Limit(c)
    /\ temp_invoke_id \in [Callers -> {NoInvokeId} \cup 0 .. MaxInvokeId]
    /\ result \in [Callers -> {-1, 0, 1}]

LEMMA LimitType == \A c \in Callers : Limit(c) \in Nat \ {0}
  BY Bounds DEF Limit

LEMMA ReturnKeepsTypes ==
  ASSUME CallTypes, NEW c \in Callers, NEW value \in {-1, 1}, Return(c, value)
  PROVE  CallTypes'
  BY LimitType, Bounds DEF CallTypes, Return, NoInvokeId, Limit

LEMMA NextTryKeepsTypes ==
  ASSUME CallTypes, NEW c \in Callers, NextTry(c)
  PROVE  CallTypes'
<1>1. CASE z[c] < RetryTime
  <2>1. z[c] + 1 \in 0 .. RetryTime
    BY <1>1, Bounds DEF CallTypes
  <2> QED
    BY <1>1, <2>1, LimitType DEF CallTypes, NextTry, NoInvokeId, Limit
<1>2. CASE ~(z[c] < RetryTime)
  BY <1>2, ReturnKeepsTypes DEF NextTry
<1> QED
  BY <1>1, <1>2

LEMMA CountKeepsTypes ==
  ASSUME CallTypes, NEW c \in Callers, CountSend(c)
  PROVE  resend_count' \in [Callers -> Nat] /\ \A d \in Callers : resend_count'[d] <= Limit(d)
  BY LimitType DEF CallTypes, CountSend
-----------------------------------------------------------------------------
LEMMA NetStaysTyped ==
  ASSUME TypeOK, NEW c \in Callers
  PROVE  {Outdated(m, c) : m \in net} \subseteq Messages
  BY OutdatedKeeps DEF TypeOK, Messages

(* Every step keeps the types. *)
LEMMA TypeStep == TypeOK /\ [Next]_vars => TypeOK'
<1> SUFFICES ASSUME TypeOK, [Next]_vars PROVE TypeOK'
  OBVIOUS
<1>0. CallTypes
  BY DEF TypeOK, CallTypes
<1>1. ASSUME NEW c \in Callers, Begin(c)
      PROVE  TypeOK'
  <2>1. CallTypes'
    BY <1>0, <1>1, LimitType, Bounds DEF CallTypes, Begin, NoInvokeId
  <2>2. net' \subseteq Messages /\ rx' \in [pc : {"idle", "deal", "notify", "free", "free_again"},
                                            msg : Messages \cup {NoMessage}]
    BY <1>1, NetStaysTyped, OutdatedRx DEF TypeOK, Begin
  <2>3. gsp_invoke' \in {NoInvokeId} \cup 0 .. MaxInvokeId
    BY <1>1 DEF TypeOK, Begin, ForgetMark
  <2> QED
    BY <1>1, <2>1, <2>2, <2>3 DEF TypeOK, CallTypes, Begin
<1>2. ASSUME NEW c \in Callers, NEW id \in 0 .. MaxInvokeId, SendOk(c, id)
      PROVE  TypeOK'
  <2>1. TakeInvokeId(id) /\ CountSend(c)
    BY <1>2 DEF SendOk
  <2>2. [id |-> id, from |-> c, current |-> TRUE] \in Messages
    BY DEF Messages
  <2>3. net' \subseteq Messages
    BY <1>2, <2>2, NetStaysTyped DEF SendOk
  <2>4. rx' \in [pc : {"idle", "deal", "notify", "free", "free_again"},
                 msg : Messages \cup {NoMessage}]
    BY <1>2, OutdatedRx DEF TypeOK, SendOk
  <2>5. CallTypes'
    BY <1>0, <1>2, <2>1, CountKeepsTypes DEF CallTypes, SendOk, Limit
  <2> QED
    BY <1>2, <2>1, <2>3, <2>4, <2>5, TakeKeepsTypes DEF TypeOK, CallTypes, SendOk
<1>3. ASSUME NEW c \in Callers, NEW id \in 0 .. MaxInvokeId, SendFails(c, id)
      PROVE  TypeOK'
  <2>1. TakeInvokeId(id) /\ CountSend(c)
    BY <1>3 DEF SendFails
  <2> QED
    BY <1>0, <1>3, <2>1, TakeKeepsTypes, CountKeepsTypes DEF TypeOK, SendFails, Limit
<1>4. ASSUME NEW c \in Callers, NotSent(c)
      PROVE  TypeOK'
  <2>1. CountSend(c)
    BY <1>4 DEF NotSent
  <2> QED
    BY <1>0, <1>4, <2>1, CountKeepsTypes DEF TypeOK, NotSent, tableVars, history, Limit
<1>5. ASSUME NEW c \in Callers, NextTry(c),
             UNCHANGED <<tableVars, gsp_invoke, net, rx, history>>
      PROVE  TypeOK'
  BY <1>0, <1>5, NextTryKeepsTypes DEF TypeOK, CallTypes, tableVars, history
<1>6. ASSUME NEW c \in Callers, Mark(c)
      PROVE  TypeOK'
  BY <1>6 DEF TypeOK, Mark, tableVars, history, Limit
<1>7. ASSUME NEW c \in Callers, Succeed(c)
      PROVE  TypeOK'
  <2>1. CallTypes'
    BY <1>0, <1>7, ReturnKeepsTypes DEF Succeed
  <2> QED
    BY <1>7, <2>1 DEF TypeOK, CallTypes, Succeed, tableVars, history
<1>8. ASSUME NEW m \in net, RxTake(m) \/ Lose(m)
      PROVE  TypeOK'
  BY <1>8 DEF TypeOK, RxTake, Lose, tableVars, callVars, history, Limit
<1>9. CASE RxDeal \/ RxNotify \/ RxNoData
  <2>1. rx.msg \in Messages \cup {NoMessage}
    BY DEF TypeOK
  <2>2. ASSUME Answer(rx.msg), rx.pc = "deal", rx.msg.current
        PROVE  rx.msg.from \in Callers
    BY <2>1, <2>2 DEF Messages, NoMessage
  <2>3. CASE RxDeal
    BY <1>0, <2>2, <2>3 DEF TypeOK, RxDeal, Answer, tableVars, callVars, Limit
  <2>4. CASE RxNotify
    BY <1>0, <2>4 DEF TypeOK, RxNotify, tableVars, callVars, history, Limit
  <2>5. CASE RxNoData
    BY <1>0, <2>2, <2>5 DEF TypeOK, RxNoData, Answer, tableVars, callVars, Limit
  <2> QED
    BY <1>9, <2>3, <2>4, <2>5
<1>10. CASE RxAbort
  <2>1. rx.msg \in Messages \cup {NoMessage}
    BY DEF TypeOK
  <2>2. rx.msg.current => rx.msg.from \in Callers
    BY <2>1 DEF Messages, NoMessage
  <2> QED
    BY <1>10, <2>2, FreeKeepsSize DEF TypeOK, RxAbort, Answer, callVars, Limit
<1>11. CASE RxFree
  BY <1>11, FreeKeepsSize DEF TypeOK, RxFree, callVars, Limit
<1>12. CASE Click
  BY <1>12, FS_EmptySet, Bounds DEF TypeOK, Click, callVars, Limit
<1>13. CASE UNCHANGED vars
  BY <1>13 DEF TypeOK, vars, Limit
<1> QED
  BY <1>1, <1>2, <1>3, <1>4, <1>5, <1>6, <1>7, <1>8, <1>9, <1>10, <1>11, <1>12, <1>13
  DEF Next, Step, Receive, StopSending, TimeOut
-----------------------------------------------------------------------------
(* The part of the invariant that is not about types. *)
Meaning == /\ ResultMeans /\ CurrentMeans /\ WaitMeans /\ MarkMeans
           /\ SuccessHasCause /\ WaitersDistinct /\ NoReplyIsForAnother

(* A request is sent: no reply that is on its way, and nobody who waits,   *)
(* has its id.                                                             *)
LEMMA SendOkStep ==
  ASSUME TypeOK, Meaning, NEW c \in Callers, NEW id \in 0 .. MaxInvokeId, SendOk(c, id)
  PROVE  Meaning'
<1> DEFINE older == {Outdated(m, c) : m \in net}
           message == [id |-> id, from |-> c, current |-> TRUE]
<1> USE DEF Meaning
<1>1. /\ pc[c] = "send" /\ TakeInvokeId(id)
      /\ net' \subseteq older \cup {message}
      /\ pc' = [pc EXCEPT ![c] = IF c \in Specials THEN "mark" ELSE "wait"]
      /\ temp_invoke_id' = [temp_invoke_id EXCEPT ![c] = id]
      /\ answered' = answered \ {c}
      /\ rx' = [rx EXCEPT !.msg = Outdated(@, c)]
      /\ UNCHANGED <<result, gsp_invoke>>
  BY DEF SendOk, CountSend
<1>2. /\ pc'[c] \in {"mark", "wait"} /\ \A d \in Callers \ {c} : pc'[d] = pc[d]
      /\ temp_invoke_id'[c] = id
      /\ \A d \in Callers \ {c} : temp_invoke_id'[d] = temp_invoke_id[d]
  BY <1>1 DEF TypeOK
<1>3. ~disturbed' => /\ ~disturbed
                     /\ id \notin outstanding /\ outstanding' = outstanding \cup {id}
  BY <1>1 DEF TakeInvokeId, FirstUnused, TypeOK
<1>4. \A n \in older : \E m \in net :
          /\ n = Outdated(m, c) /\ n.id = m.id /\ n.from = m.from
          /\ n.current => m.current /\ m.from # c
          /\ m.from # c => n = m
  BY OutdatedKeeps DEF TypeOK, Messages
<1>5. rx'.pc = rx.pc /\ rx'.msg = Outdated(rx.msg, c)
  BY <1>1 DEF TypeOK
<1>6. /\ rx'.msg.id = rx.msg.id /\ rx'.msg.from = rx.msg.from
      /\ rx'.msg.current => rx.msg.current /\ rx.msg.from # c
      /\ rx.msg.from # c => rx'.msg = rx.msg
  BY <1>5, OutdatedRx
<1>7. message.id = id /\ message.from = c /\ message.current
  OBVIOUS
<1> HIDE DEF older, message
<1>8. ResultMeans'
  BY <1>1, <1>2 DEF ResultMeans
<1>9. CurrentMeans'
  BY <1>1, <1>2, <1>4, <1>5, <1>6, <1>7 DEF CurrentMeans
<1>10. WaitMeans'
  <2> SUFFICES ASSUME ~disturbed', NEW d \in Callers, Waits(d)'
               PROVE  /\ temp_invoke_id'[d] \in outstanding'
                      /\ \A m \in Pending' : m.id = temp_invoke_id'[d] => m.from = d /\ m.current
                      /\ rx'.pc \in {"notify", "free"} => rx'.msg.id # temp_invoke_id'[d]
    BY DEF WaitMeans
  <2>1. CASE d = c
    BY <2>1, <1>1, <1>2, <1>3, <1>4, <1>5, <1>6, <1>7 DEF NoReplyIsForAnother, Pending
  <2>2. CASE d # c
    <3>1. /\ Waits(d) /\ temp_invoke_id'[d] = temp_invoke_id[d]
          /\ temp_invoke_id[d] \in outstanding /\ temp_invoke_id[d] # id
      BY <2>2, <1>1, <1>2, <1>3 DEF Waits, WaitMeans
    <3> QED
      BY <2>2, <3>1, <1>1, <1>3, <1>4, <1>5, <1>6, <1>7 DEF WaitMeans, Pending
  <2> QED
    BY <2>1, <2>2
<1>11. MarkMeans'
  BY <1>1, <1>2, <1>3, <1>4, <1>5, <1>6, <1>7 DEF MarkMeans
<1>12. SuccessHasCause'
  BY <1>1, <1>3 DEF SuccessHasCause, ResultMeans, TypeOK
<1>13. WaitersDistinct'
  BY <1>1, <1>2, <1>3 DEF WaitersDistinct, WaitMeans, Waits
<1>14. NoReplyIsForAnother'
  BY <1>1, <1>3, <1>4, <1>5, <1>6, <1>7 DEF NoReplyIsForAnother
<1> QED
  BY <1>8, <1>9, <1>10, <1>11, <1>12, <1>13, <1>14

(* A call begins: what is still on its way for the caller is outdated. *)
LEMMA BeginStep ==
  ASSUME TypeOK, Meaning, NEW c \in Callers, Begin(c)
  PROVE  Meaning'
<1> USE DEF Meaning
<1>1. /\ \A n \in net' : \E m \in net :
             /\ n = Outdated(m, c) /\ n.id = m.id /\ n.from = m.from
             /\ n.current => m.current /\ m.from # c
             /\ m.from # c => n = m
      /\ rx'.pc = rx.pc /\ rx'.msg.id = rx.msg.id /\ rx'.msg.from = rx.msg.from
      /\ rx'.msg.current => rx.msg.current /\ rx.msg.from # c
      /\ rx.msg.from # c => rx'.msg = rx.msg
  BY OutdatedKeeps, OutdatedRx DEF TypeOK, Messages, Begin
<1>2. /\ pc' = [pc EXCEPT ![c] = "send"] /\ result' = [result EXCEPT ![c] = 0]
      /\ temp_invoke_id' = [temp_invoke_id EXCEPT ![c] = NoInvokeId]
      /\ answered' = answered \ {c}
      /\ gsp_invoke' = IF c \in Writers THEN gsp_invoke ELSE NoInvokeId
      /\ UNCHANGED <<outstanding, disturbed>>
  BY DEF Begin, ForgetMark
<1>3. ResultMeans' /\ SuccessHasCause'
  BY <1>2 DEF TypeOK, ResultMeans, SuccessHasCause
<1>4. CurrentMeans'
  BY <1>1, <1>2 DEF TypeOK, CurrentMeans
<1>5. WaitMeans'
  <2> SUFFICES ASSUME ~disturbed', NEW d \in Callers, Waits(d)'
               PROVE  /\ temp_invoke_id'[d] \in outstanding'
                      /\ \A m \in Pending' : m.id = temp_invoke_id'[d] => m.from = d /\ m.current
                      /\ rx'.pc \in {"notify", "free"} => rx'.msg.id # temp_invoke_id'[d]
    BY DEF WaitMeans
  <2>1. d # c /\ Waits(d) /\ temp_invoke_id'[d] = temp_invoke_id[d]
    BY <1>2 DEF TypeOK, Waits
  <2> QED
    BY <1>1, <1>2, <2>1 DEF WaitMeans, Pending
<1>6. MarkMeans'
  BY <1>1, <1>2 DEF TypeOK, MarkMeans, Callers
<1>7. WaitersDistinct'
  BY <1>2 DEF TypeOK, WaitersDistinct
<1>8. NoReplyIsForAnother'
  BY <1>1, <1>2 DEF NoReplyIsForAnother
<1> QED
  BY <1>3, <1>4, <1>5, <1>6, <1>7, <1>8

(* A try is over, without an answer in hand: nobody else is concerned. *)
LEMMA NextTryStep ==
  ASSUME TypeOK, Meaning, NEW c \in Callers, NextTry(c), pc[c] # "idle", pc[c] # "mark",
         UNCHANGED <<tableVars, gsp_invoke, net, rx, history>>
  PROVE  Meaning'
<1> USE DEF Meaning
<1>1. /\ pc' = [pc EXCEPT ![c] = "send"] \/ pc' = [pc EXCEPT ![c] = "idle"]
      /\ \A d \in Callers \ {c} : temp_invoke_id'[d] = temp_invoke_id[d]
      /\ result' = result \/ result' = [result EXCEPT ![c] = -1]
      /\ result' # result => pc' = [pc EXCEPT ![c] = "idle"]
  BY DEF TypeOK, NextTry, Return
<1>2. \A d \in Callers \ {c} : pc'[d] = pc[d] /\ result'[d] = result[d]
  BY <1>1 DEF TypeOK
<1>3. pc'[c] \in {"send", "idle"} /\ result[c] = 0 /\ result'[c] \in {0, -1}
      /\ (result'[c] # 0 => pc'[c] = "idle")
  BY <1>1 DEF TypeOK, ResultMeans
<1>4. UNCHANGED <<outstanding, net, rx, gsp_invoke, answered, disturbed>>
  BY DEF tableVars, history
<1>5. ResultMeans' /\ SuccessHasCause'
  BY <1>2, <1>3, <1>4 DEF ResultMeans, SuccessHasCause
<1>6. CurrentMeans'
  BY <1>1, <1>2, <1>3, <1>4 DEF CurrentMeans
<1>7. WaitMeans'
  BY <1>1, <1>2, <1>3, <1>4 DEF WaitMeans, Waits, Pending
<1>8. MarkMeans'
  BY <1>2, <1>3, <1>4 DEF MarkMeans, Callers
<1>9. WaitersDistinct'
  BY <1>1, <1>2, <1>3, <1>4 DEF WaitersDistinct
<1>10. NoReplyIsForAnother'
  BY <1>4 DEF NoReplyIsForAnother
<1> QED
  BY <1>5, <1>6, <1>7, <1>8, <1>9, <1>10

(* A call returns 1: nothing on its way is the answer to its last request. *)
LEMMA SucceedStep ==
  ASSUME TypeOK, Meaning, NEW c \in Callers, Succeed(c)
  PROVE  Meaning'
<1> USE DEF Meaning
<1>1. /\ pc[c] = "wait" /\ pc' = [pc EXCEPT ![c] = "idle"]
      /\ temp_invoke_id' = [temp_invoke_id EXCEPT ![c] = NoInvokeId]
      /\ result' = [result EXCEPT ![c] = 1]
      /\ gsp_invoke' = IF c \in Specials THEN NoInvokeId ELSE gsp_invoke
      /\ UNCHANGED <<outstanding, net, rx, answered, disturbed>>
  BY DEF Succeed, Return, tableVars, history
<1>2. ~disturbed => c \in answered
  BY <1>1 DEF Succeed, TypeOK, WaitMeans, Waits, InvokeIdFree, InvokeIds
<1>3. ResultMeans' /\ SuccessHasCause'
  BY <1>1, <1>2 DEF TypeOK, ResultMeans, SuccessHasCause
<1>4. CurrentMeans'
  BY <1>1 DEF TypeOK, CurrentMeans
<1>5. WaitMeans'
  BY <1>1 DEF TypeOK, WaitMeans, Waits, Pending
<1>6. MarkMeans'
  <2> SUFFICES ASSUME ~disturbed, NEW d \in Specials, Readers \cup Specials = {d},
                      pc'[d] # "mark"
               PROVE  /\ \A m \in net : m.from = d /\ m.current => gsp_invoke' = m.id
                      /\ rx.pc \in {"deal", "notify"} /\ rx.msg.from = d /\ rx.msg.current
                            => gsp_invoke' = rx.msg.id
    BY <1>1 DEF MarkMeans
  <2>1. CASE d # c
    BY <2>1, <1>1 DEF TypeOK, MarkMeans, Callers
  <2>2. CASE d = c /\ temp_invoke_id[c] = 0
    <3>1. Cardinality(outstanding) = Capacity
      BY <2>2 DEF Succeed, InvokeIdFree, Full
    <3>2. /\ \A m \in net : m.from = c /\ m.current => m.id = 0
          /\ rx.pc \in {"deal", "notify"} /\ rx.msg.from = c /\ rx.msg.current => rx.msg.id = 0
      BY <2>2, <1>1 DEF CurrentMeans
    <3> QED
      BY <2>2, <3>2 DEF NoReplyIsForAnother, TypeOK, InvokeIds
  <2>3. CASE d = c /\ temp_invoke_id[c] # 0
    <3>1. temp_invoke_id[c] \notin outstanding
      BY <2>3 DEF Succeed, InvokeIdFree
    <3> QED
      BY <2>3, <3>1, <1>1 DEF CurrentMeans, NoReplyIsForAnother
  <2> QED
    BY <2>1, <2>2, <2>3
<1>7. WaitersDistinct'
  BY <1>1 DEF TypeOK, WaitersDistinct
<1>8. NoReplyIsForAnother'
  BY <1>1 DEF NoReplyIsForAnother
<1> QED
  BY <1>3, <1>4, <1>5, <1>6, <1>7, <1>8

(* Sends that fail, the mark, and what the network does. *)
LEMMA QuietStep ==
  ASSUME TypeOK, Meaning, NEW c \in Callers,
         \/ \E id \in 0 .. MaxInvokeId : SendFails(c, id)
         \/ NotSent(c)
         \/ Mark(c)
         \/ \E m \in net : RxTake(m) \/ Lose(m)
  PROVE  Meaning'
<1> USE DEF Meaning
<1>1. ASSUME NEW id \in 0 .. MaxInvokeId, SendFails(c, id)
      PROVE  Meaning'
  <2>1. /\ ~disturbed' => ~disturbed /\ outstanding \subseteq outstanding'
        /\ UNCHANGED <<gsp_invoke, net, rx, pc, temp_invoke_id, result, answered>>
    BY <1>1 DEF SendFails, TakeInvokeId
  <2>2. WaitMeans'
    BY <2>1 DEF WaitMeans, Waits, Pending
  <2>3. NoReplyIsForAnother'
    BY <2>1 DEF NoReplyIsForAnother
  <2> QED
    BY <2>1, <2>2, <2>3 DEF ResultMeans, CurrentMeans, MarkMeans, SuccessHasCause, WaitersDistinct
<1>2. CASE NotSent(c)
  BY <1>2 DEF NotSent, tableVars, history, ResultMeans, CurrentMeans, WaitMeans, Waits, Pending,
              MarkMeans, SuccessHasCause, WaitersDistinct, NoReplyIsForAnother
<1>3. CASE Mark(c)
  <2>1. /\ pc[c] = "mark" /\ pc' = [pc EXCEPT ![c] = "wait"] /\ gsp_invoke' = temp_invoke_id[c]
        /\ UNCHANGED <<outstanding, net, rx, temp_invoke_id, result, answered, disturbed>>
    BY <1>3 DEF Mark, tableVars, history
  <2>2. /\ \A d \in Callers : pc'[d] \in {"mark", "wait"} => pc[d] \in {"mark", "wait"}
        /\ \A d \in Callers : pc[d] = "idle" => pc'[d] = "idle"
    BY <2>1 DEF TypeOK
  <2>3. ResultMeans' /\ CurrentMeans' /\ SuccessHasCause' /\ WaitersDistinct'
    BY <2>1, <2>2 DEF ResultMeans, CurrentMeans, SuccessHasCause, WaitersDistinct
  <2>4. WaitMeans' /\ NoReplyIsForAnother'
    BY <2>1, <2>2 DEF WaitMeans, Waits, Pending, NoReplyIsForAnother
  <2>5. \A d \in Specials : Readers \cup Specials = {d} /\ d # c => pc'[d] = pc[d] /\ c \in Writers
    BY <2>1 DEF TypeOK, Callers
  <2>6. c \in Specials => MarkMeans'
    BY <2>1 DEF MarkMeans, CurrentMeans
  <2>7. c \in Specials
    BY <2>1 DEF MarkMeans
  <2> QED
    BY <2>3, <2>4, <2>6, <2>7
<1>4. ASSUME NEW m \in net, RxTake(m) \/ Lose(m)
      PROVE  Meaning'
  <2>1. /\ net' = net \ {m}
        /\ \/ rx' = rx
           \/ rx.pc = "idle" /\ rx'.pc = "deal" /\ rx'.msg = m
        /\ UNCHANGED <<outstanding, gsp_invoke, pc, temp_invoke_id, result, answered, disturbed>>
    BY <1>4 DEF RxTake, Lose, tableVars, callVars, history
  <2>2. CurrentMeans' /\ MarkMeans'
    BY <2>1 DEF CurrentMeans, MarkMeans
  <2>3. WaitMeans'
    BY <2>1 DEF WaitMeans, Waits, Pending
  <2>4. NoReplyIsForAnother'
    BY <2>1 DEF NoReplyIsForAnother
  <2> QED
    BY <2>1, <2>2, <2>3, <2>4 DEF ResultMeans, SuccessHasCause, WaitersDistinct
<1> QED
  BY <1>1, <1>2, <1>3, <1>4

(* The receive thread: an answer that is dealt with leaves no caller that  *)
(* waits with its id, until the id is freed.                               *)
LEMMA ReceiveStep ==
  ASSUME TypeOK, Meaning, Receive
  PROVE  Meaning'
<1> USE DEF Meaning
<1>1. UNCHANGED <<gsp_invoke, net, pc, temp_invoke_id, result>>
  BY DEF Receive, RxDeal, RxNotify, RxNoData, RxAbort, RxFree, callVars
<1>2. answered \subseteq answered' /\ (disturbed => disturbed')
  <2>1. CASE RxDeal \/ RxNoData \/ RxAbort
    <3>1. Answer(rx.msg) /\ UNCHANGED disturbed
      BY <2>1 DEF RxDeal, RxNoData, RxAbort
    <3> QED
      BY <3>1 DEF Answer
  <2>2. CASE RxNotify \/ RxFree
    <3>1. UNCHANGED answered
      BY <2>2 DEF RxNotify, RxFree, history
    <3>2. CASE RxNotify
      BY <3>1, <3>2 DEF RxNotify, history
    <3>3. CASE RxFree
      <4>1. disturbed' = (disturbed \/ (rx.pc = "free_again" /\ rx.msg.id \in outstanding))
        BY <3>3 DEF RxFree
      <4> QED
        BY <3>1, <4>1
    <3> QED
      BY <2>2, <3>2, <3>3
  <2> QED
    BY <2>1, <2>2 DEF Receive
<1>3. ResultMeans' /\ SuccessHasCause' /\ WaitersDistinct'
  BY <1>1, <1>2 DEF ResultMeans, SuccessHasCause, WaitersDistinct
<1>4. CASE RxDeal \/ RxNoData \/ RxAbort
  <2>1. /\ rx.pc = "deal" /\ rx'.msg = rx.msg
        /\ rx'.pc \in {"notify", "free", "free_again"}
        /\ rx'.pc = "free_again" \/ outstanding' = outstanding
        /\ outstanding' = outstanding \/ outstanding' = outstanding \ {rx.msg.id}
        /\ answered' = IF rx.msg.current THEN answered \cup {rx.msg.from} ELSE answered
        /\ UNCHANGED disturbed
    <3>1. CASE RxDeal
      BY <3>1 DEF RxDeal, Answer, TypeOK, tableVars
    <3>2. CASE RxNoData
      BY <3>2 DEF RxNoData, Answer, TypeOK, tableVars
    <3>3. CASE RxAbort
      BY <3>3 DEF RxAbort, Answer, TypeOK
    <3> QED
      BY <1>4, <3>1, <3>2, <3>3
  <2>2. CurrentMeans' /\ MarkMeans'
    BY <1>1, <2>1 DEF CurrentMeans, MarkMeans
  <2>3. WaitMeans'
    BY <1>1, <2>1 DEF WaitMeans, Waits, Pending
  <2>4. NoReplyIsForAnother'
    BY <1>1, <2>1 DEF NoReplyIsForAnother
  <2> QED
    BY <1>3, <2>2, <2>3, <2>4
<1>5. CASE RxNotify
  <2>1. /\ rx.pc = "notify" /\ rx'.msg = rx.msg /\ rx'.pc = "free"
        /\ UNCHANGED <<outstanding, answered, disturbed>>
    BY <1>5 DEF RxNotify, tableVars, history, TypeOK
  <2> QED
    BY <1>1, <1>3, <2>1 DEF CurrentMeans, MarkMeans, WaitMeans, Waits, Pending, NoReplyIsForAnother
<1>6. CASE RxFree
  <2>1. /\ rx.pc \in {"free", "free_again"} /\ rx'.pc = "idle"
        /\ outstanding' = outstanding \ {rx.msg.id}
        /\ ~disturbed' => ~disturbed /\ (rx.pc = "free_again" => outstanding' = outstanding)
        /\ UNCHANGED answered
    BY <1>6 DEF RxFree
  <2>2. CurrentMeans' /\ MarkMeans'
    BY <1>1, <2>1 DEF CurrentMeans, MarkMeans
  <2>3. WaitMeans'
    BY <1>1, <2>1 DEF WaitMeans, Waits, Pending
  <2>4. NoReplyIsForAnother'
    BY <1>1, <2>1 DEF NoReplyIsForAnother
  <2> QED
    BY <1>3, <2>2, <2>3, <2>4
<1> QED
  BY <1>4, <1>5, <1>6 DEF Receive

(* A click disturbs everybody, but ends no call. *)
LEMMA ClickStep ==
  ASSUME Meaning, Click
  PROVE  Meaning'
  BY DEF Meaning, Click, callVars, ResultMeans, CurrentMeans, WaitMeans, MarkMeans,
         SuccessHasCause, WaitersDistinct, NoReplyIsForAnother

LEMMA StutterStep ==
  ASSUME Meaning, UNCHANGED vars
  PROVE  Meaning'
  BY DEF Meaning, vars, ResultMeans, CurrentMeans, WaitMeans, Waits, Pending, MarkMeans,
         SuccessHasCause, WaitersDistinct, NoReplyIsForAnother

THEOREM Invariance == Spec => []IInv
<1>1. Init => IInv
  <2> SUFFICES ASSUME Init PROVE IInv
    OBVIOUS
  <2>1. TypeOK
    <3>1. Cardinality({}) <= Capacity
      BY FS_EmptySet, Bounds
    <3>2. 1 \in InvokeIds
      BY Bounds DEF InvokeIds
    <3>3. rx \in [pc : {"idle", "deal", "notify", "free", "free_again"},
                  msg : Messages \cup {NoMessage}]
      BY DEF Init
    <3>4. \A c \in Callers : resend_count[c] <= Limit(c)
      BY LimitType DEF Init
    <3>5. CallTypes
      BY <3>4, Bounds DEF Init, CallTypes, NoInvokeId
    <3>6. answered \subseteq Callers /\ net \subseteq Messages
      BY DEF Init
    <3>7. disturbed \in BOOLEAN
      <4>1. disturbed = FALSE
        BY DEF Init
      <4> QED
        BY <4>1
    <3> QED
      BY <3>1, <3>2, <3>3, <3>5, <3>6, <3>7, Bounds DEF Init, TypeOK, CallTypes, NoInvokeId
  <2>2. Meaning
    BY DEF Init, Meaning, ResultMeans, CurrentMeans, WaitMeans, Waits, Pending, MarkMeans,
           SuccessHasCause, WaitersDistinct, NoReplyIsForAnother
  <2> QED
    BY <2>1, <2>2 DEF IInv, Meaning
<1>2. IInv /\ [Next]_vars => IInv'
  <2> SUFFICES ASSUME TypeOK, Meaning, [Next]_vars PROVE Meaning'
    BY TypeStep DEF IInv, Meaning
  <2>1. ASSUME NEW c \in Callers, StopSending(c) \/ TimeOut(c)
        PROVE  Meaning'
    BY <2>1, NextTryStep DEF StopSending, TimeOut
  <2>2. ASSUME NEW c \in Callers, Step(c)
        PROVE  Meaning'
    BY <2>1, <2>2, SendOkStep, QuietStep, SucceedStep DEF Step
  <2>3. ASSUME NEW m \in net, RxTake(m) \/ Lose(m)
        PROVE  Meaning'
    <3>1. m.from \in Callers
      BY <2>3 DEF TypeOK, Messages
    <3> QED
      BY <2>3, <3>1, QuietStep
  <2> QED
    BY <2>2, <2>3, BeginStep, ReceiveStep, ClickStep, StutterStep DEF Next
<1> QED
  BY <1>1, <1>2, PTL DEF Spec

(* The shared data and the locals of the callers keep their types. *)
THEOREM TypeCorrect == Spec => []TypeOK
<1>1. IInv => TypeOK
  BY DEF IInv
<1> QED
  BY <1>1, Invariance, PTL

(* As long as no id was freed under a request, success has an answer. *)
THEOREM SuccessIsCaused == Spec => []SuccessHasCause
<1>1. IInv => SuccessHasCause
  BY DEF IInv
<1> QED
  BY <1>1, Invariance, PTL

(* Until then no two callers wait with the same id. *)
THEOREM WaitersAreDistinct == Spec => []WaitersDistinct
<1>1. IInv => WaitersDistinct
  BY DEF IInv
<1> QED
  BY <1>1, Invariance, PTL

(* Until then a late reply keeps its id from being given to another request. *)
THEOREM RepliesFindTheirRequest == Spec => []NoReplyIsForAnother
<1>1. IInv => NoReplyIsForAnother
  BY DEF IInv
<1> QED
  BY <1>1, Invariance, PTL

(* Until then the answer to the only read, once marked, stays off the screen. *)
THEOREM MarkIsSeen == Spec => []MarkedStaysOffScreen
<1>1. IInv => MarkedStaysOffScreen
  BY DEF IInv, MarkMeans, MarkedStaysOffScreen, IsForScreen
<1> QED
  BY <1>1, Invariance, PTL

(* Every step of a call uses up a poll, a send or a try. *)
THEOREM CallsAreBounded == Spec => EveryStepCounts
<1>1. TypeOK => [\A c \in Callers : Step(c) => Advances(c)]_vars
  <2> SUFFICES ASSUME TypeOK, NEW c \in Callers, Step(c) PROVE Advances(c)
    OBVIOUS
  <2>1. CASE \E id \in 0 .. MaxInvokeId : SendOk(c, id) \/ SendFails(c, id)
    BY <2>1 DEF TypeOK, SendOk, SendFails, CountSend, Advances
  <2>2. CASE NotSent(c)
    BY <2>2 DEF TypeOK, NotSent, CountSend, Advances
  <2>3. CASE StopSending(c) \/ TimeOut(c)
    BY <2>3 DEF TypeOK, StopSending, TimeOut, NextTry, Return, Advances
  <2>4. CASE Mark(c)
    BY <2>4 DEF TypeOK, Mark, Advances
  <2>5. CASE Succeed(c)
    BY <2>5 DEF TypeOK, Succeed, Return, Advances
  <2> QED
    BY <2>1, <2>2, <2>3, <2>4, <2>5 DEF Step
<1> QED
  BY <1>1, TypeCorrect, PTL DEF EveryStepCounts
=============================================================================
