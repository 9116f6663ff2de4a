------------------------- MODULE CommandDispatcher -------------------------
(***************************************************************************)
(* The two threads of the main frame that carry out what the dialogs ask   *)
(* for (MainFrm.cpp).  A dialog posts a message to the thread              *)
(* Get_All_Dlg_Message, which appends it to My_Receive_msg; the thread     *)
(* Translate_My_Message takes the messages from there, talks to the device *)
(* and posts the outcome back.  MyCriticalSection guards My_Receive_msg,   *)
(* but not the reads that decide what is done with it; and My_Receive_msg  *)
(* is a vector, which moves its elements when it grows.                    *)
(*                                                                         *)
(* Four kinds of message stand for all: the cases of the two switches      *)
(* differ, as far as the queue goes, in MY_WRITE_ONE_LIST only, and        *)
(* MY_BAC_WRITE_LIST is the one whose outcome a dialog acts on.            *)
(***************************************************************************)
EXTENDS Integers, FiniteSets, SequencesExt

CONSTANTS
    WriteOnes,      \* messages MY_WRITE_ONE
    WriteOneLists,  \* messages MY_WRITE_ONE_LIST
    WriteLists,     \* messages MY_BAC_WRITE_LIST, one block each
    Reads,          \* messages of the other kinds
    Limit           \* how long My_Receive_msg may get: 100, and 20 over MS/TP

ASSUME LimitAssumption == Limit \in Nat

Messages == WriteOnes \cup WriteOneLists \cup WriteLists \cup Reads

Kind(m) == CASE m \in WriteOnes     -> "MY_WRITE_ONE"
             [] m \in WriteOneLists -> "MY_WRITE_ONE_LIST"
             [] m \in WriteLists    -> "MY_BAC_WRITE_LIST"
             [] m \in Reads         -> "MY_READ_ONE"

Kinds == {Kind(m) : m \in Messages}

VARIABLES
    mailbox,        \* messages posted to Get_All_Dlg_Message
    My_Receive_msg, \* the queue the two threads share
    capacity,       \* how many messages fit into My_Receive_msg where it lies now
    lock,           \* who holds MyCriticalSection between two steps, or "nobody": "get"
                    \* while the elements are moved, "translate" for good
    get,            \* Get_All_Dlg_Message: [pc, msg], a message as a sequence
    translate,      \* Translate_My_Message: [pc, kind, msg]
    posted, dealt,  \* history: the messages posted, and taken from the queue, in order
    cleared,        \* history: My_Receive_msg was cleared, or a message dropped
    overlapped,     \* history: the last unlocked look at the queue met a clear, or
                    \* saw it while its elements were moved
    outcomes,       \* WRITE_SUCCESS or WRITE_FAIL messages on their way to a dialog
    item            \* write list message -> what its dialog shows of the item

queueVars == <<mailbox, My_Receive_msg, capacity>>
outcomeVars == <<outcomes, item>>
vars == <<mailbox, My_Receive_msg, capacity, lock, get, translate, posted, dealt, cleared,
          overlapped, outcomes, item>>

Waiting == [pc |-> "idle", kind |-> "none", msg |-> <<>>]

Init == /\ mailbox = <<>>
        /\ My_Receive_msg = <<>>
        /\ capacity = 0
        /\ lock = "nobody"
        /\ get = [pc |-> "idle", msg |-> <<>>]
        /\ translate = Waiting
        /\ posted = <<>>
        /\ dealt = <<>>
        /\ cleared = FALSE
        /\ overlapped = FALSE
        /\ outcomes = {}
        /\ item = [m \in WriteLists |-> "unchanged"]

Running == translate.pc # "crashed"

(* PostThreadMessage.  The dialog has put the new value of the item on the *)
(* screen, and kept the old one.                                           *)
Post(m) ==
    /\ Running
    /\ ~Contains(posted, m)
    /\ posted' = Append(posted, m)
    /\ mailbox' = Append(mailbox, m)
    /\ item' = [n \in WriteLists |-> IF n = m THEN "edited" ELSE item[n]]
    /\ UNCHANGED <<My_Receive_msg, capacity, lock, get, translate, dealt, cleared,
                   overlapped, outcomes>>
-----------------------------------------------------------------------------
(* Get_All_Dlg_Message. *)
GetMessage ==
    /\ Running
    /\ get.pc = "idle"
    /\ mailbox # <<>>
    /\ get' = [pc |-> "check", msg |-> <<Head(mailbox)>>]
    /\ mailbox' = Tail(mailbox)
    /\ UNCHANGED <<My_Receive_msg, capacity, lock, translate, posted, dealt, cleared,
                   overlapped, outcomeVars>>

(* Faulty variant: no limit. *)
NeverTooLong == FALSE
TooLong == Len(My_Receive_msg) > Limit

(* The length is read without the lock. *)
CheckLength ==
    /\ Running
    /\ get.pc = "check"
    /\ get' = [get EXCEPT !.pc = IF TooLong THEN "clear" ELSE "push"]
    /\ UNCHANGED <<queueVars, lock, translate, posted, dealt, cleared, overlapped, outcomeVars>>

(* The other thread is between its unlocked reads and the lock. *)
Looking == translate.pc \in {"peek", "take"}

(* A queue that is too long is cleared; the message is dropped with it. *)
ClearQueue ==
    /\ Running
    /\ get.pc = "clear"
    /\ lock = "nobody"
    /\ My_Receive_msg' = <<>>
    /\ cleared' = TRUE
    /\ overlapped' = (overlapped \/ Looking)
    /\ get' = [pc |-> "idle", msg |-> <<>>]
    /\ UNCHANGED <<mailbox, capacity, lock, translate, posted, dealt, outcomeVars>>

(* Faulty variant: the message is put at the front. *)
InFront(queue, message) == message \o queue
AtBack(queue, message) == queue \o message

(* The case MY_WRITE_ONE_LIST has no break: it goes on with the next case, *)
(* which appends the message once more.  Faulty variant: no case has one.  *)
AlwaysFallsThrough(m) == m \in Messages
FallsThrough(m) == m \in WriteOneLists

(* push_back.  When the vector is full it first moves its elements to a    *)
(* larger place (half as large again, in the library of the compiler),     *)
(* with the lock held; while it does so, an unlocked read may see anything.*)
Appending == Running /\ get.pc \in {"push", "push_again"}
Larger(c) == IF c < 2 THEN c + 1 ELSE c + c \div 2
Moving == lock = "get"

Move ==
    /\ Appending
    /\ lock = "nobody"
    /\ Len(My_Receive_msg) = capacity
    /\ capacity' = Larger(capacity)
    /\ lock' = "get"
    /\ UNCHANGED <<mailbox, My_Receive_msg, get, translate, posted, dealt, cleared,
                   overlapped, outcomeVars>>

PushBack ==
    /\ Appending
    /\ lock # "translate"
    /\ Len(My_Receive_msg) < capacity
    /\ My_Receive_msg' = AtBack(My_Receive_msg, get.msg)
    /\ lock' = "nobody"
    /\ get' = IF get.pc = "push" /\ FallsThrough(get.msg[1])
              THEN [get EXCEPT !.pc = "push_again"]
              ELSE [pc |-> "idle", msg |-> <<>>]
    /\ UNCHANGED <<mailbox, capacity, translate, posted, dealt, cleared, overlapped,
                   outcomeVars>>

Get == GetMessage \/ CheckLength \/ ClearQueue \/ Move \/ PushBack
-----------------------------------------------------------------------------
(* Translate_My_Message: the length is read, then the front is copied to   *)
(* see its kind, both without the lock.                                    *)
HasMessage == Len(My_Receive_msg) > 0

SeeLength ==
    /\ translate.pc = "idle"
    /\ HasMessage \/ Moving
    /\ translate' = [translate EXCEPT !.pc = "peek"]
    /\ overlapped' = FALSE
    /\ UNCHANGED <<queueVars, lock, get, posted, dealt, cleared, outcomeVars>>

Crash == translate' = [pc |-> "crashed", kind |-> "none", msg |-> <<>>]

(* The thread goes on with the next message.  Faulty variant: it keeps the *)
(* one it has carried out.                                                 *)
Keeping == translate' = [translate EXCEPT !.pc = "idle"]
GoOn == translate' = Waiting

Sees(kind) == translate' = [pc |-> "take", kind |-> kind, msg |-> <<>>]

Peek ==
    /\ translate.pc = "peek"
    /\ ~Moving
    /\ IF My_Receive_msg = <<>> THEN Crash ELSE Sees(Kind(Head(My_Receive_msg)))
    /\ UNCHANGED <<queueVars, lock, get, posted, dealt, cleared, overlapped, outcomeVars>>

(* The place that is read is not, or no longer, that of the vector: what   *)
(* is found there is any kind, none of those that have a case, or nothing  *)
(* that can be read.                                                       *)
PeekWhileMoving ==
    /\ translate.pc = "peek"
    /\ Moving
    /\ Crash \/ GoOn \/ \E kind \in Kinds : Sees(kind)
    /\ overlapped' = TRUE
    /\ UNCHANGED <<queueVars, lock, get, posted, dealt, cleared, outcomeVars>>

(* In the case for the kind it saw, the thread takes what is at the front  *)
(* now, and treats it as that kind; MY_WRITE_ONE_LIST takes all its copies. *)
(* Without is Remove of SequencesExt, by position and not by recursion.    *)
(* Faulty variant of Erased: the front is erased once more.                *)
Kept(queue, m) == {i \in DOMAIN queue : queue[i] # m}
Rank(i, positions) == Cardinality({j \in positions : j <= i})
Nth(k, positions) == CHOOSE i \in positions : Rank(i, positions) = k
Without(queue, m) ==
    [k \in 1 .. Cardinality(Kept(queue, m)) |-> queue[Nth(k, Kept(queue, m))]]

ErasedTwice(queue) == LET rest == Without(queue, Head(queue))
                      IN  IF translate.kind # "MY_WRITE_ONE_LIST" THEN Tail(queue)
                          ELSE IF rest = <<>> THEN rest ELSE Tail(rest)
Erased(queue) == IF translate.kind = "MY_WRITE_ONE_LIST" THEN Without(queue, Head(queue))
                                                         ELSE Tail(queue)

Take ==
    /\ translate.pc = "take"
    /\ lock = "nobody"
    /\ My_Receive_msg # <<>>
    /\ translate' = [translate EXCEPT !.pc = "work", !.msg = <<Head(My_Receive_msg)>>]
    /\ dealt' = Append(dealt, Head(My_Receive_msg))
    /\ My_Receive_msg' = Erased(My_Receive_msg)
    /\ UNCHANGED <<mailbox, capacity, lock, get, posted, cleared, overlapped, outcomeVars>>

(* Nothing is at the front any more: at(0) throws, which ends the program; *)
(* the case MY_WRITE_ONE_LIST ends the thread, and keeps the lock.         *)
TakeNothing ==
    /\ translate.pc = "take"
    /\ lock = "nobody"
    /\ My_Receive_msg = <<>>
    /\ IF translate.kind = "MY_WRITE_ONE_LIST"
       THEN /\ translate' = [pc |-> "returned", kind |-> "none", msg |-> <<>>]
            /\ lock' = "translate"
       ELSE Crash /\ UNCHANGED lock
    /\ UNCHANGED <<queueVars, get, posted, dealt, cleared, overlapped, outcomeVars>>

(* The device is asked, and the outcome posted to the dialog.  For a write *)
(* list it is WRITE_FAIL if WritePrivateData_Blocking returned 0, but that *)
(* function returns 1 or -1.  A read that fails is not reported.  Faulty   *)
(* variant: no failure is.                                                 *)
ReportSuccess(m, ret) == IF ret < 0 THEN {} ELSE {[msg |-> m, outcome |-> "WRITE_SUCCESS"]}
Outcomes(m, ret) ==
    CASE m \in WriteLists -> {[msg |-> m, outcome |-> IF ret # 0 THEN "WRITE_SUCCESS"
                                                                ELSE "WRITE_FAIL"]}
      [] m \in Reads /\ ret < 0 -> {}
      [] OTHER -> {[msg |-> m, outcome |-> IF ret < 0 THEN "WRITE_FAIL"
                                                     ELSE "WRITE_SUCCESS"]}

AsSeen == Kind(translate.msg[1]) = translate.kind

Work(ret) ==
    /\ translate.pc = "work"
    /\ AsSeen
    /\ outcomes' = outcomes \cup Outcomes(translate.msg[1], ret)
    /\ GoOn
    /\ UNCHANGED <<queueVars, lock, get, posted, dealt, cleared, overlapped, item>>

(* The structure of a message of another kind is read as one of this kind: *)
(* the program ends, or asks for something that nobody meant.              *)
WorkOnAnother ==
    /\ translate.pc = "work"
    /\ ~AsSeen
    /\ Crash \/ GoOn
    /\ UNCHANGED <<queueVars, lock, get, posted, dealt, cleared, overlapped, outcomeVars>>

Translate == SeeLength \/ Peek \/ PeekWhileMoving \/ Take \/ TakeNothing \/ WorkOnAnother
             \/ \E ret \in {1, -1} : Work(ret)
-----------------------------------------------------------------------------
(* The dialog is told the outcome: after a failure it puts back the value  *)
(* that could not be changed (InputMessageCallBack).                       *)
Resume(o) ==
    /\ Running
    /\ o \in outcomes
    /\ outcomes' = outcomes \ {o}
    /\ item' = [n \in WriteLists |->
                  IF n # o.msg THEN item[n]
                  ELSE IF o.outcome = "WRITE_FAIL" THEN "unchanged" ELSE "written"]
    /\ UNCHANGED <<queueVars, lock, get, translate, posted, dealt, cleared, overlapped>>

(* The screen editor is closed: what its labels still ask for is dropped,  *)
(* and the rest of the queue with it.                                      *)
CloseScreen ==
    /\ Running
    /\ lock = "nobody"
    /\ My_Receive_msg # <<>>
    /\ My_Receive_msg' = <<>>
    /\ cleared' = TRUE
    /\ overlapped' = (overlapped \/ Looking)
    /\ UNCHANGED <<mailbox, capacity, lock, get, translate, posted, dealt, outcomeVars>>

Next == \/ \E m \in Messages : Post(m)
        \/ Get
        \/ Translate
        \/ \E o \in outcomes : Resume(o)
        \/ CloseScreen

Spec == Init /\ [][Next]_vars

(* Both threads and the message loop of the dialogs run; posting a message *)
(* and closing the screen editor are up to the user.                       *)
Fairness == /\ WF_vars(Get)
            /\ WF_vars(Translate)
            /\ WF_vars(\E o \in outcomes : Resume(o))

FairSpec == Spec /\ Fairness
-----------------------------------------------------------------------------
Optional == {<<>>} \cup {<<m>> : m \in Messages}

(* The queues hold messages, and the threads are at one of their steps,    *)
(* with a message in hand exactly when they have taken one.                *)
TypeOK == /\ mailbox \in Seq(Messages)
          /\ My_Receive_msg \in Seq(Messages)
          /\ capacity \in Nat
          /\ lock \in {"nobody", "get", "translate"}
          /\ get \in [pc : {"idle", "check", "clear", "push", "push_again"}, msg : Optional]
          /\ translate \in [pc : {"idle", "peek", "take", "work", "crashed", "returned"},
                            kind : Kinds \cup {"none"}, msg : Optional]
          /\ get.msg = <<>> <=> get.pc = "idle"
          /\ translate.msg = <<>> <=> translate.pc # "work"
          /\ posted \in Seq(Messages)
          /\ dealt \in Seq(Messages)
          /\ cleared \in BOOLEAN
          /\ overlapped \in BOOLEAN
          /\ outcomes \subseteq [msg : Messages, outcome : {"WRITE_SUCCESS", "WRITE_FAIL"}]
          /\ item \in [WriteLists -> {"unchanged", "edited", "written"}]

(* The queue stays bounded although its length is checked without the lock *)
(* and before the message, or its two copies, are appended.                *)
QueueBounded == Len(My_Receive_msg) <= Limit + 2

Position(s, m) == CHOOSE i \in DOMAIN s : s[i] = m

(* Commands are carried out in the order in which the dialogs posted them, *)
(* whatever was cleared in between.                                        *)
DealtInOrder ==
    \A i, j \in DOMAIN dealt :
        i < j => Position(posted, dealt[i]) <= Position(posted, dealt[j])

(* A command is carried out once at most, and a MY_WRITE_ONE_LIST, which   *)
(* is appended twice, twice at most.                                       *)
DealtAtMostOnce ==
    \A m \in Messages :
        Cardinality({i \in DOMAIN dealt : dealt[i] = m}) <= IF m \in WriteOneLists THEN 2 ELSE 1

(* Nothing is lost as long as the queue was not cleared.                   *)
NothingLost ==
    ~cleared => \A m \in Messages :
        Contains(posted, m) => Contains(mailbox \o get.msg \o My_Receive_msg \o dealt, m)

(* What an unlocked look has seen stays true until the message is taken and *)
(* carried out: the thread neither fails on an empty queue nor ends with    *)
(* the lock, nor treats a message as one of another kind, whatever is       *)
(* appended meanwhile.  Two things do mislead it, and they alone: a clear   *)
(* between its look and its lock, and a look at elements that are moved.    *)
LookHolds ==
    ~overlapped => /\ translate.pc \notin {"crashed", "returned"}
                   /\ translate.pc = "take" => /\ My_Receive_msg # <<>>
                                               /\ translate.kind = Kind(Head(My_Receive_msg))
                   /\ translate.pc = "work" => AsSeen

(* Every command is carried out in the end, unless the queue is cleared or  *)
(* a look has met a move, and the item of a write list does not stay as the *)
(* user has edited it: its dialog is told an outcome.  (That the outcome is *)
(* always a success, because the thread compares the result with 0 and not  *)
(* with -1, is another matter.)                                             *)
DealtUnlessCleared ==
    []~overlapped =>
        \A m \in Messages :
            Contains(posted, m) ~> \/ cleared
                                   \/ /\ Contains(dealt, m)
                                      /\ m \in WriteLists => item[m] # "edited"
=============================================================================
