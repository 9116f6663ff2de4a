------------------------- MODULE ModbusAccessProofs -------------------------
(***************************************************************************)
(* Proofs about ModbusAccess.tla, for any number of callers of each kind,  *)
(* of registers and of tries.                                              *)
(***************************************************************************)
EXTENDS ModbusAccess, TLAPS

(* What a device has not answered dies with the connection. *)
NoneOnClosed == ~connected => requests = <<>>

(* While the connection is undisturbed one caller at most waits on it. *)
OneWaits == ~disturbed => \A c, d \in Callers :
                            pc[c] = "recv" /\ pc[d] = "recv" => c = d

IInv == TypeOK /\ NoneOnClosed /\ OneWaits /\ InStep

LEMMA RetryBound == 0 \in 0 .. RetryTimes - 1
  BY Bounds

LEMMA RequestType == TypeOK => \A c \in Callers : pc[c] # "idle" => Request(c) \in Messages
  BY OneKind DEF TypeOK, Request, Messages, Shape, Callers, Readers

(* The callers, their tries and the section, as TypeOK has them. *)
CallerType == /\ register_critical_section \in Readers \cup {None}
              /\ pc \in [Callers -> {"idle", "lock", "send", "recv"}]
              /\ \A c \in Callers : pc[c] = "lock" => c \in Readers
              /\ tries \in [Callers -> 0 .. RetryTimes - 1]
              /\ \A c \in Readers : pc[c] \in {"send", "recv"} <=>
                                      register_critical_section = c

(* A caller that returns or fails leaves the line, and nobody else moves;  *)
(* if it gives up the section, it was the one that held it.                *)
LEMMA LeavesLine ==
  ASSUME CallerType, NEW c \in Callers, pc[c] \in {"send", "recv"}, Fail(c) \/ Return(c)
  PROVE  /\ CallerType'
         /\ pc'[c] # "recv"
         /\ \A d \in Callers : d # c => pc'[d] = pc[d]
<1>1. CASE Return(c)
  BY <1>1, OneKind DEF CallerType, Return, Unlock, Callers, Readers
<1>2. ASSUME tries[c] + 1 < RetryTimes, NextTry(c), tries' = [tries EXCEPT ![c] = @ + 1]
      PROVE  CallerType' /\ pc'[c] # "recv" /\ \A d \in Callers : d # c => pc'[d] = pc[d]
  <2>1. tries' \in [Callers -> 0 .. RetryTimes - 1]
    BY <1>2, Bounds DEF CallerType
  <2>2. CASE c \in OneReaders
    BY <1>2, <2>1, <2>2, OneKind DEF CallerType, NextTry, Unlock, Callers, Readers
  <2>3. CASE c \notin OneReaders
    BY <1>2, <2>1, <2>3, OneKind DEF CallerType, NextTry, Unlock, Callers, Readers
  <2> QED
    BY <2>2, <2>3
<1> QED
  BY <1>1, <1>2 DEF Fail

LEMMA InitType == Init => TypeOK
<1> SUFFICES ASSUME Init PROVE TypeOK
  OBVIOUS
<1> USE DEF Init
<1>1. requests \in Seq(Messages) /\ replies \in Seq(Messages)
  OBVIOUS
<1>2. tries \in [Callers -> 0 .. RetryTimes - 1]
  BY RetryBound
<1>3. \A c \in Readers : pc[c] \in {"send", "recv"} <=> register_critical_section = c
  BY OneKind DEF Callers
<1> QED
  BY <1>1, <1>2, <1>3 DEF TypeOK

(* Every step keeps the types: one step of the proof per action. *)
LEMMA TypeStep == TypeOK /\ [Next]_vars => TypeOK'
<1> SUFFICES ASSUME TypeOK, [Next]_vars
             PROVE  TypeOK'
  OBVIOUS
<1> USE DEF TypeOK, line
<1>1. ASSUME NEW c \in Callers, NEW a \in Addresses, Begin(c, a)
      PROVE  TypeOK'
  <2>1. \A d \in Readers : pc'[d] \in {"send", "recv"} <=> register_critical_section' = d
    BY <1>1 DEF Begin, Callers
  <2>2. tries' \in [Callers -> 0 .. RetryTimes - 1]
    BY <1>1, RetryBound DEF Begin
  <2> QED
    BY <1>1, <2>1, <2>2 DEF Begin
<1>2. ASSUME NEW c \in Callers, Lock(c)
      PROVE  TypeOK'
  BY <1>2, OneKind DEF Lock, Callers, Readers
<1>3. ASSUME NEW c \in Callers, Send(c)
      PROVE  TypeOK'
  <2>1. requests' \in Seq(Messages)
    BY <1>3, RequestType DEF Send
  <2>2. \A d \in Readers : pc'[d] \in {"send", "recv"} <=> register_critical_section' = d
    BY <1>3 DEF Send, Callers
  <2> QED
    BY <1>3, <2>1, <2>2 DEF Send
<1>4. ASSUME NEW c \in Callers, SendFails(c)
      PROVE  TypeOK'
  <2>1. <<>> \in Seq(Messages)
    OBVIOUS
  <2>2. connected' \in BOOLEAN /\ requests' \in Seq(Messages) /\ replies' \in Seq(Messages)
    BY <1>4, <2>1 DEF SendFails, OpenSocket
  <2>3. disturbed' \in BOOLEAN
    BY <1>4 DEF SendFails, OpenSocket, OthersReceive
  <2>4. CASE Fail(c)
    BY <1>4, <2>2, <2>3, <2>4, LeavesLine DEF SendFails, CallerType
  <2>5. CASE pc' = [pc EXCEPT ![c] = "recv"] /\ UNCHANGED <<register_critical_section, tries>>
    BY <1>4, <2>2, <2>3, <2>5 DEF SendFails, Callers
  <2> QED
    BY <1>4, <2>4, <2>5 DEF SendFails
<1>5. ASSUME NEW c \in Callers, Receive(c)
      PROVE  TypeOK'
  <2>1. Head(replies) \in Messages /\ replies' \in Seq(Messages)
    BY <1>5 DEF Receive
  <2>2. Fail(c) \/ Return(c)
    BY <1>5 DEF Receive
  <2>3. got' \in [Callers -> Addresses \cup {"garbage", None}]
    BY <1>5, <2>1 DEF Receive, Messages
  <2> QED
    BY <1>5, <2>1, <2>2, <2>3, LeavesLine DEF Receive, CallerType
<1>6. ASSUME NEW c \in Callers, TimesOut(c)
      PROVE  TypeOK'
  <2>1. Fail(c) \/ Return(c)
    BY <1>6 DEF TimesOut, FailsWithoutReply, LooksAtNothing
  <2>2. got' \in [Callers -> Addresses \cup {"garbage", None}]
    BY <1>6 DEF TimesOut, FailsWithoutReply, LooksAtNothing
  <2>3. disturbed' \in BOOLEAN
    BY <1>6 DEF TimesOut
  <2> QED
    BY <1>6, <2>1, <2>2, <2>3, LeavesLine DEF TimesOut, CallerType
<1>7. ASSUME NEW c \in Callers, ReceiveFails(c)
      PROVE  TypeOK'
  <2>1. <<>> \in Seq(Messages)
    OBVIOUS
  <2>2. connected' \in BOOLEAN /\ requests' \in Seq(Messages) /\ replies' \in Seq(Messages)
    BY <1>7, <2>1 DEF ReceiveFails, OpenSocket
  <2>3. disturbed' \in BOOLEAN
    BY <1>7 DEF ReceiveFails, OpenSocket, OthersReceive
  <2>4. Fail(c) \/ Return(c)
    BY <1>7 DEF ReceiveFails, FailsWithoutReply, LooksAtNothing
  <2>5. got' \in [Callers -> Addresses \cup {"garbage", None}]
    BY <1>7 DEF ReceiveFails, FailsWithoutReply, LooksAtNothing
  <2> QED
    BY <1>7, <2>2, <2>3, <2>4, <2>5, LeavesLine DEF ReceiveFails, CallerType
<1>8. CASE Answer
  <2>1. Head(requests) \in Messages /\ Tail(requests) \in Seq(Messages)
    BY <1>8 DEF Answer
  <2>2. Append(replies, Head(requests)) \in Seq(Messages)
    BY <2>1
  <2>3. replies' \in Seq(Messages)
    BY <1>8, <2>2 DEF Answer
  <2> QED
    BY <1>8, <2>1, <2>3 DEF Answer
<1>9. CASE Close
  <2>1. <<>> \in Seq(Messages)
    OBVIOUS
  <2> QED
    BY <1>9, <2>1 DEF Close
<1>10. CASE UNCHANGED vars
  BY <1>10 DEF vars
<1> QED
  BY <1>1, <1>2, <1>3, <1>4, <1>5, <1>6, <1>7, <1>8, <1>9, <1>10 DEF Next, Step

(* The line and the callers keep their types, and the section is held by   *)
(* the reader that is between its lock and its unlock.                     *)
THEOREM TypeCorrect == Spec => []TypeOK
  BY InitType, TypeStep, PTL DEF Spec
-----------------------------------------------------------------------------
(* What Append and Tail do to the elements of a sequence and to its length. *)
LEMMA ToSetFacts ==
  ASSUME NEW S, NEW q \in Seq(S)
  PROVE  /\ Len(q) = 0 => q = <<>>
         /\ ToSet(q) = {} <=> q = <<>>
         /\ q # <<>> => /\ Head(q) \in ToSet(q)
                        /\ ToSet(Tail(q)) \subseteq ToSet(q)
                        /\ Len(Tail(q)) = Len(q) - 1
         /\ \A x \in S : /\ ToSet(Append(q, x)) = ToSet(q) \cup {x}
                        /\ Len(Append(q, x)) = Len(q) + 1
<1>1. /\ Len(q) = 0 => q = <<>>
      /\ ToSet(q) = {} <=> q = <<>>
  BY DEF ToSet
<1>2. q # <<>> => /\ Head(q) \in ToSet(q)
                  /\ ToSet(Tail(q)) \subseteq ToSet(q)
                  /\ Len(Tail(q)) = Len(q) - 1
  BY DEF ToSet
<1>3. \A x \in S : Len(Append(q, x)) = Len(q) + 1
  OBVIOUS
<1>4. ASSUME NEW x \in S
      PROVE  ToSet(Append(q, x)) = ToSet(q) \cup {x}
  <2> DEFINE r == Append(q, x)
  <2>1. /\ DOMAIN q = 1 .. Len(q)
        /\ DOMAIN r = 1 .. Len(q) + 1
        /\ r[Len(q) + 1] = x
        /\ \A i \in 1 .. Len(q) : r[i] = q[i]
    OBVIOUS
  <2>2. 1 .. Len(q) + 1 = (1 .. Len(q)) \cup {Len(q) + 1}
    OBVIOUS
  <2> HIDE DEF r
  <2> QED
    BY <2>1, <2>2 DEF ToSet
<1> QED
  BY <1>1, <1>2, <1>3, <1>4

(* On an undisturbed line nobody else waits when a caller sends. *)
LEMMA SendsAlone ==
  ASSUME TypeOK, OneWaits, NEW c \in Callers, Send(c), ~disturbed'
  PROVE  ~disturbed /\ \A d \in Callers : pc[d] # "recv"
<1> SUFFICES ASSUME NEW d \in Callers, pc[d] = "recv"
             PROVE  FALSE
  BY DEF Send
<1>1. d # c /\ pc[c] = "send"
  BY DEF Send
<1>2. c \in Readers /\ d \in Readers
  BY <1>1 DEF Send, Callers
<1> QED
  BY <1>1, <1>2 DEF TypeOK

(* A line on which nothing is under way is in step. *)
LEMMA EmptyInStep ==
  ASSUME requests = <<>>, replies = <<>>
  PROVE  InStep
  BY DEF InStep, ToSet

(* One step of the proof per action. *)
LEMMA InvStep == IInv /\ [Next]_vars => IInv'
<1> SUFFICES ASSUME IInv, [Next]_vars
             PROVE  NoneOnClosed' /\ OneWaits' /\ InStep'
  BY TypeStep DEF IInv
<1> USE DEF IInv, line
<1>1. ASSUME NEW c \in Callers, NEW a \in Addresses, Begin(c, a)
      PROVE  NoneOnClosed' /\ OneWaits' /\ InStep'
  <2>1. \A d \in Callers : pc'[d] = "recv" <=> pc[d] = "recv"
    BY <1>1 DEF Begin, TypeOK
  <2>2. \A d \in Callers : pc[d] = "recv" => Request(d)' = Request(d)
    BY <1>1 DEF Begin, TypeOK, Request
  <2> QED
    BY <1>1, <2>1, <2>2 DEF Begin, NoneOnClosed, OneWaits, InStep
<1>2. ASSUME NEW c \in Callers, Lock(c)
      PROVE  NoneOnClosed' /\ OneWaits' /\ InStep'
  <2>1. \A d \in Callers : pc'[d] = "recv" <=> pc[d] = "recv"
    BY <1>2 DEF Lock, TypeOK
  <2> QED
    BY <1>2, <2>1 DEF Lock, NoneOnClosed, OneWaits, InStep, Request
<1>3. ASSUME NEW c \in Callers, Send(c)
      PROVE  NoneOnClosed' /\ OneWaits' /\ InStep'
  <2>1. NoneOnClosed'
    BY <1>3 DEF Send, NoneOnClosed
  <2> SUFFICES ASSUME ~disturbed'
               PROVE  OneWaits' /\ InStep'
    BY <2>1 DEF OneWaits, InStep
  <2>2. ~disturbed /\ \A d \in Callers : pc[d] # "recv"
    BY <1>3, SendsAlone
  <2>3. requests = <<>> /\ replies = <<>>
    BY <2>2, ToSetFacts DEF InStep, TypeOK
  <2>4. pc'[c] = "recv" /\ \A d \in Callers \ {c} : pc'[d] # "recv"
    BY <1>3, <2>2 DEF Send, TypeOK
  <2>5. requests' = <<Request(c)>> /\ replies' = <<>> /\ Request(c)' = Request(c)
    BY <1>3, <2>3 DEF Send, Request
  <2>6. ToSet(requests') = {Request(c)'} /\ ToSet(replies') = {}
    BY <2>5 DEF ToSet
  <2>7. Len(requests') + Len(replies') <= 1
    BY <2>5
  <2> QED
    BY <2>4, <2>6, <2>7 DEF OneWaits, InStep
<1>4. ASSUME NEW c \in Callers, SendFails(c)
      PROVE  NoneOnClosed' /\ OneWaits' /\ InStep'
  <2>1. requests' = <<>> /\ replies' = <<>>
    BY <1>4 DEF SendFails, OpenSocket
  <2>2. InStep'
    BY <2>1, EmptyInStep DEF InStep, ToSet
  <2>3. \A d \in Callers \ {c} : pc'[d] = pc[d]
    BY <1>4, LeavesLine DEF SendFails, TypeOK, CallerType
  <2>4. OneWaits'
    BY <1>4, <2>3 DEF SendFails, OpenSocket, OthersReceive, OneWaits
  <2> QED
    BY <2>1, <2>2, <2>4 DEF NoneOnClosed
<1>5. ASSUME NEW c \in Callers, Receive(c)
      PROVE  NoneOnClosed' /\ OneWaits' /\ InStep'
  <2>1. \A d \in Callers : pc'[d] = "recv" => pc[d] = "recv"
    BY <1>5, LeavesLine DEF Receive, TypeOK, CallerType
  <2>2. ~disturbed => requests' = <<>> /\ replies' = <<>>
    BY <1>5, ToSetFacts DEF Receive, InStep, TypeOK
  <2>3. InStep'
    BY <1>5, <2>2, EmptyInStep DEF Receive, InStep, ToSet
  <2> QED
    BY <1>5, <2>1, <2>3 DEF Receive, NoneOnClosed, OneWaits
<1>6. ASSUME NEW c \in Callers, TimesOut(c)
      PROVE  NoneOnClosed' /\ OneWaits' /\ InStep'
  <2>1. Fail(c) \/ Return(c)
    BY <1>6 DEF TimesOut, FailsWithoutReply, LooksAtNothing
  <2>2. \A d \in Callers : pc'[d] = "recv" => pc[d] = "recv"
    BY <1>6, <2>1, LeavesLine DEF TimesOut, TypeOK, CallerType
  <2>3. ~disturbed' => requests' = <<>> /\ replies' = <<>>
    BY <1>6 DEF TimesOut
  <2>4. InStep'
    BY <2>3 DEF InStep, ToSet
  <2> QED
    BY <1>6, <2>2, <2>4 DEF TimesOut, NoneOnClosed, OneWaits
<1>7. ASSUME NEW c \in Callers, ReceiveFails(c)
      PROVE  NoneOnClosed' /\ OneWaits' /\ InStep'
  <2>1. requests' = <<>> /\ replies' = <<>>
    BY <1>7 DEF ReceiveFails, OpenSocket, NoneOnClosed
  <2>2. InStep'
    BY <2>1 DEF InStep, ToSet
  <2>3. Fail(c) \/ Return(c)
    BY <1>7 DEF ReceiveFails, FailsWithoutReply, LooksAtNothing
  <2>4. \A d \in Callers : pc'[d] = "recv" => pc[d] = "recv" /\ d # c
    BY <1>7, <2>3, LeavesLine DEF ReceiveFails, TypeOK, CallerType
  <2>5. OneWaits'
    <3>1. CASE OpenSocket(c)
      BY <2>4, <3>1 DEF OpenSocket, OthersReceive, OneWaits
    <3>2. CASE UNCHANGED disturbed
      BY <2>4, <3>2 DEF OneWaits
    <3> QED
      BY <1>7, <3>1, <3>2 DEF ReceiveFails
  <2> QED
    BY <2>1, <2>2, <2>5 DEF NoneOnClosed
<1>8. CASE Answer
  <2>1. Head(requests) \in ToSet(requests) /\ Head(requests) \in Messages
    BY <1>8, ToSetFacts DEF Answer, TypeOK
  <2>2. ToSet(requests') \cup ToSet(replies') \subseteq ToSet(requests) \cup ToSet(replies)
    <3>1. ToSet(requests') \subseteq ToSet(requests)
      BY <1>8, ToSetFacts DEF Answer, TypeOK
    <3>2. ToSet(Append(replies, Head(requests))) = ToSet(replies) \cup {Head(requests)}
      BY <2>1, ToSetFacts DEF TypeOK
    <3> QED
      BY <1>8, <2>1, <3>1, <3>2 DEF Answer
  <2>3. Len(requests') + Len(replies') <= Len(requests) + Len(replies)
    BY <1>8, <2>1, ToSetFacts DEF Answer, TypeOK
  <2>4. Len(requests) + Len(replies) \in Nat /\ Len(requests') + Len(replies') \in Nat
    BY <1>8, TypeStep DEF TypeOK
  <2>5. InStep'
    BY <1>8, <2>2, <2>3, <2>4 DEF Answer, InStep, Request
  <2> QED
    BY <1>8, <2>5 DEF Answer, NoneOnClosed, OneWaits
<1>9. CASE Close
  <2>1. requests' = <<>> /\ replies' \in {replies, <<>>}
    BY <1>9 DEF Close
  <2>2. ToSet(requests') \cup ToSet(replies') \subseteq ToSet(requests) \cup ToSet(replies)
    BY <2>1 DEF ToSet
  <2>3. Len(requests') + Len(replies') <= Len(requests) + Len(replies)
    BY <2>1 DEF TypeOK
  <2>4. Len(requests) + Len(replies) \in Nat /\ Len(requests') + Len(replies') \in Nat
    BY <2>1 DEF TypeOK
  <2>5. InStep'
    BY <1>9, <2>2, <2>3, <2>4 DEF Close, InStep, Request
  <2> QED
    BY <1>9, <2>1, <2>5 DEF Close, NoneOnClosed, OneWaits
<1>10. CASE UNCHANGED vars
  BY <1>10 DEF vars, NoneOnClosed, OneWaits, InStep, Request
<1> QED
  BY <1>1, <1>2, <1>3, <1>4, <1>5, <1>6, <1>7, <1>8, <1>9, <1>10 DEF Next, Step

(* As long as the connection is undisturbed, what is on its way is the one *)
(* request, or the one reply, of the one caller that waits.                *)
THEOREM StaysInStep == Spec => []InStep
<1>1. Init => IInv
  BY InitType, EmptyInStep DEF Init, IInv, NoneOnClosed, OneWaits
<1>2. IInv => InStep
  BY DEF IInv
<1> QED
  BY <1>1, <1>2, InvStep, PTL DEF Spec
=============================================================================
