---------------------------- MODULE ModbusAccess ----------------------------
(***************************************************************************)
(* Modbus over TCP: the functions of modbus_read_write.cpp, which retry    *)
(* and lock, and the functions of the Modbus library they call, which send *)
(* a request over the one socket and receive what comes next.  A reply     *)
(* says which device answers which function, and how many registers it     *)
(* carries; it does not say which.  The transaction id could tell, but it  *)
(* is sent and never looked at in what is received.                        *)
(*                                                                         *)
(* There is one device, a block read asks for more than one register, and  *)
(* a receive takes one reply, whole.  The counters of the status bar and   *)
(* g_bEnableRefreshTreeView, which nothing but its own save and restore    *)
(* reads, are left out.  So are Modbus over BACnet and the serial line,    *)
(* where the input is purged before every send.                            *)
(***************************************************************************)
EXTENDS Integers, SequencesExt

CONSTANTS
    BlockReaders,   \* threads that call modbus_read_multi_value
    OneReaders,     \* threads that call modbus_read_one_value
    Writers,        \* threads that call write_one
    Addresses,      \* the registers they ask for
    RetryTimes,     \* the parameter retry_times
    MaxBacklog,     \* bound: calls begin while no more messages are on an open line
    None            \* no thread, no register

ASSUME Bounds == RetryTimes \in Nat \ {0} /\ MaxBacklog \in Nat

Readers == BlockReaders \cup OneReaders
Callers == Readers \cup Writers

ASSUME OneKind == /\ BlockReaders \cap OneReaders = {}
                  /\ Readers \cap Writers = {}
                  /\ None \notin Callers

VARIABLES
    register_critical_section,  \* who holds it
    connected,      \* m_hSocket is a connection the device has not closed
    requests,       \* what the device has not read yet
    replies,        \* what has come back and was not received
    pc, tries,      \* caller -> where it is, and the tries that have failed
    address,        \* caller -> the register it asks for
    got,            \* caller -> the register its value belongs to, "garbage", or None
    disturbed       \* history of the connection: a request was given up before the
                    \* device answered it, or a write met another call on the line

line == <<connected, requests, replies>>
vars == <<register_critical_section, line, pc, tries, address, got, disturbed>>

(* Function code and byte count: what a reply is recognized by. *)
Shape(c) == IF c \in BlockReaders THEN "block"
            ELSE IF c \in OneReaders THEN "one" ELSE "write"
Request(c) == [shape |-> Shape(c), address |-> address[c]]
Messages == [shape : {"block", "one", "write"}, address : Addresses]

(* The echo of a write is compared in 5 of its 6 bytes: device, function,  *)
(* address and the high byte of the value, of which only the address is in *)
(* the model.                                                              *)
Accepts(c, reply) == /\ reply.shape = Shape(c)
                     /\ c \in Writers => reply.address = address[c]

Init == /\ register_critical_section = None
        /\ connected = TRUE
        /\ requests = <<>>
        /\ replies = <<>>
        /\ pc = [c \in Callers |-> "idle"]
        /\ tries = [c \in Callers |-> 0]
        /\ address = [c \in Callers |-> None]
        /\ got = [c \in Callers |-> None]
        /\ disturbed = FALSE
-----------------------------------------------------------------------------
(* A call begins; write_one_org has its lock commented out. *)
Begin(c, a) ==
    /\ pc[c] = "idle"
    /\ connected => Len(requests) + Len(replies) <= MaxBacklog
    /\ pc' = [pc EXCEPT ![c] = IF c \in Readers THEN "lock" ELSE "send"]
    /\ tries' = [tries EXCEPT ![c] = 0]
    /\ address' = [address EXCEPT ![c] = a]
    /\ got' = [got EXCEPT ![c] = None]
    /\ UNCHANGED <<register_critical_section, line, disturbed>>

(* register_critical_section.Lock().  Faulty variant: nobody is waited for. *)
LockAnyway(c) ==
    /\ pc[c] = "lock"
    /\ pc' = [pc EXCEPT ![c] = "send"]
    /\ register_critical_section' = c
    /\ UNCHANGED <<line, tries, address, got, disturbed>>

Lock(c) ==
    /\ pc[c] = "lock"
    /\ register_critical_section = None
    /\ pc' = [pc EXCEPT ![c] = "send"]
    /\ register_critical_section' = c
    /\ UNCHANGED <<line, tries, address, got, disturbed>>

Unlock(c) == register_critical_section' = IF c \in Readers THEN None
                                          ELSE register_critical_section

(* The call returns. *)
Return(c) == /\ pc' = [pc EXCEPT ![c] = "idle"]
             /\ Unlock(c)
             /\ UNCHANGED tries

(* A try has failed.  A block read keeps the section for its next try; the *)
(* read of one register gives it up and takes it again.  Faulty variants:  *)
(* tries are not counted; there is one too many.                           *)
NextTry(c) == /\ pc' = [pc EXCEPT ![c] = IF c \in OneReaders THEN "lock" ELSE "send"]
              /\ IF c \in OneReaders THEN Unlock(c)
                 ELSE UNCHANGED register_critical_section

FailForEver(c) == NextTry(c) /\ UNCHANGED tries

FailOnceMore(c) == IF tries[c] < RetryTimes
                   THEN NextTry(c) /\ tries' = [tries EXCEPT ![c] = @ + 1]
                   ELSE Return(c)

Fail(c) == IF tries[c] + 1 < RetryTimes
           THEN NextTry(c) /\ tries' = [tries EXCEPT ![c] = @ + 1]
           ELSE Return(c)

OthersReceive(c) == \E d \in Callers \ {c} : pc[d] = "recv"

Send(c) ==
    /\ pc[c] = "send"
    /\ connected
    /\ requests' = Append(requests, Request(c))
    /\ pc' = [pc EXCEPT ![c] = "recv"]
    /\ disturbed' = (disturbed \/ \E d \in Callers \ {c} :
                                    pc[d] = "recv" /\ {c, d} \cap Writers # {})
    /\ UNCHANGED <<register_critical_section, connected, replies, tries, address, got>>

(* Open_Socket2 closes the socket, and connects anew, or not.  Faulty      *)
(* variant: what was received before is still there.                       *)
OpenKeepingReplies(c) == /\ connected' \in BOOLEAN
                         /\ requests' = <<>>
                         /\ UNCHANGED replies
                         /\ disturbed' = OthersReceive(c)

OpenSocket(c) == /\ connected' \in BOOLEAN
                 /\ requests' = <<>>
                 /\ replies' = <<>>
                 /\ disturbed' = OthersReceive(c)

(* send() fails: the socket is opened again.  The block read has failed;   *)
(* the others go on to receive the reply to what was not sent.             *)
SendFails(c) ==
    /\ pc[c] = "send"
    /\ ~connected
    /\ OpenSocket(c)
    /\ IF c \in BlockReaders THEN Fail(c)
       ELSE /\ pc' = [pc EXCEPT ![c] = "recv"]
            /\ UNCHANGED <<register_critical_section, tries>>
    /\ UNCHANGED <<address, got>>

(* recv() returns the next reply: it is accepted, or the try has failed.   *)
Receive(c) ==
    /\ pc[c] = "recv"
    /\ replies # <<>>
    /\ replies' = Tail(replies)
    /\ IF Accepts(c, Head(replies))
       THEN /\ got' = [got EXCEPT ![c] = Head(replies).address]
            /\ Return(c)
       ELSE Fail(c) /\ UNCHANGED got
    /\ UNCHANGED <<connected, requests, address, disturbed>>

(* Read_One and Write_One look at their buffer whether or not something was *)
(* received; nobody has initialized it: it is refused, or accepted.        *)
LooksAtNothing(c) == \/ Fail(c) /\ UNCHANGED got
                     \/ Return(c) /\ got' = [got EXCEPT ![c] = "garbage"]

FailsWithoutReply(c) == IF c \in BlockReaders THEN Fail(c) /\ UNCHANGED got
                                              ELSE LooksAtNothing(c)

(* recv() times out; a request that the device may still answer is given up. *)
TimesOut(c) ==
    /\ pc[c] = "recv"
    /\ connected
    /\ replies = <<>>
    /\ FailsWithoutReply(c)
    /\ disturbed' = (disturbed \/ requests # <<>>)
    /\ UNCHANGED <<line, address>>

(* recv() fails: with 10054 a read opens the socket again, and the read of *)
(* one register gives up; otherwise there just is no reply.                *)
ReceiveFails(c) ==
    /\ pc[c] = "recv"
    /\ ~connected
    /\ replies = <<>>
    /\ \/ /\ c \in Readers
          /\ OpenSocket(c)
          /\ IF c \in BlockReaders THEN Fail(c) ELSE Return(c)
          /\ UNCHANGED got
       \/ FailsWithoutReply(c) /\ UNCHANGED <<line, disturbed>>
    /\ UNCHANGED address

Step(c) == \/ Lock(c) \/ Send(c) \/ SendFails(c)
           \/ Receive(c) \/ TimesOut(c) \/ ReceiveFails(c)
-----------------------------------------------------------------------------
(* The device answers its requests one after another, or leaves one        *)
(* unanswered, or closes the connection; what it had answered before may   *)
(* still be received, or is lost.                                          *)
Answer == /\ requests # <<>>
          /\ \/ replies' = Append(replies, Head(requests))
             \/ UNCHANGED replies
          /\ requests' = Tail(requests)
          /\ UNCHANGED <<register_critical_section, connected, pc, tries, address,
                         got, disturbed>>

Close == /\ connected
         /\ connected' = FALSE
         /\ requests' = <<>>
         /\ replies' \in {replies, <<>>}
         /\ UNCHANGED <<register_critical_section, pc, tries, address, got, disturbed>>

Next == \/ \E c \in Callers : (\E a \in Addresses : Begin(c, a)) \/ Step(c)
        \/ Answer
        \/ Close

Spec == Init /\ [][Next]_vars

(* The threads run, and what waits on the socket ends, by SO_RCVTIMEO, if  *)
(* by nothing else.  The device need not answer.                           *)
FairSpec == Spec /\ \A c \in Callers : WF_vars(Step(c))
-----------------------------------------------------------------------------
(* The line and the callers keep their types, and the section is held by   *)
(* the reader that is between its lock and its unlock.                     *)
TypeOK == /\ register_critical_section \in Readers \cup {None}
          /\ connected \in BOOLEAN
          /\ requests \in Seq(Messages)
          /\ replies \in Seq(Messages)
          /\ pc \in [Callers -> {"idle", "lock", "send", "recv"}]
          /\ \A c \in Callers : pc[c] = "lock" => c \in Readers
          /\ tries \in [Callers -> 0 .. RetryTimes - 1]
          /\ address \in [Callers -> Addresses \cup {None}]
          /\ \A c \in Callers : pc[c] # "idle" => address[c] \in Addresses
          /\ got \in [Callers -> Addresses \cup {"garbage", None}]
          /\ disturbed \in BOOLEAN
          /\ \A c \in Readers : pc[c] \in {"send", "recv"} <=>
                                  register_critical_section = c

(* As long as the connection is undisturbed it is in step: what is on its  *)
(* way is the one request, or the one reply, of the caller that waits, and *)
(* nobody else waits, so that a read receives what it asked for, although  *)
(* nothing in the reply says so.  Opening the socket brings a disturbed    *)
(* line back into step.                                                    *)
InStep ==
    ~disturbed =>
        /\ Len(requests) + Len(replies) <= 1
        /\ \A m \in ToSet(requests) \cup ToSet(replies) :
             \E c \in Callers : /\ pc[c] = "recv" /\ Request(c) = m
                               /\ \A d \in Callers \ {c} : pc[d] # "recv"

(* No call keeps the section for ever, although a block read keeps it over *)
(* all its tries and over the opening of the socket.                       *)
SectionIsReleased ==
    register_critical_section # None ~> register_critical_section = None

(* "Read multiple values from a modbus device [...] the offset of the      *)
(* first value to be read": the values that a block read returns are those *)
(* of the registers that it was asked for.                                 *)
ReadsWhatWasAsked ==
    \A c \in BlockReaders : got[c] \in {address[c], None}
=============================================================================
