----------------------------- MODULE MstpMaster -----------------------------
(***************************************************************************)
(* The masters of one MS/TP line: MSTP_Master_Node_FSM of mstp.c, run by   *)
(* the threads of dlmstp.c in T3000 and polled in the controllers.         *)
(*                                                                         *)
(* T3000 is station 0, and two things set it apart.  Initial_bac gives it  *)
(* the highest address it polls and its first Next_Station anew whenever   *)
(* it opens the line: all addresses for a scan, those up to the panel for  *)
(* a connection.  And its master thread sleeps in three of its states,     *)
(* for a fixed time or until the receive thread has a frame for it, while  *)
(* the silence of the line is counted from the last octet of anybody.      *)
(*                                                                         *)
(* Time passes only when no station has anything to do; a frame is heard   *)
(* by everybody, whole or damaged; a station may fail and start again.     *)
(***************************************************************************)
EXTENDS Integers, Sequences, FiniteSets, TLC

CONSTANTS
    Stations,         \* the addresses of the masters, T3000's 0 among them
    Nmax_master,      \* the highest address the controllers poll
    Setups,           \* bac_gloab_panel and mstp_polling_node when T3000 opens the line
    Npoll, Nretry_token,
    Tno_token, Tslot, Tusage_timeout, Treply_delay,
    Treply_timeout,   \* of mstp.c, tested by the state machine
    Treply_wait,      \* Treply_timeout of dlmstp.c, slept by the thread
    FrameTime,        \* how long a frame is on the line
    MaxHeard,         \* bound: frames that wait for a station; further ones are lost
    Nmax_info_frames, \* of the controllers
    DEFAULT_MAX_INFO_FRAMES,  \* of T3000
    Announcers,       \* the stations that send data nobody replies to
    Requesters,       \* the stations that send data and wait for the reply
    MaxFaults         \* bound: frames that are damaged and stations that fail

T3000 == 0
Broadcast == 255
Addresses == 0 .. Broadcast - 1

ASSUME StationAssumption ==
    /\ Stations \subseteq 0 .. Nmax_master /\ T3000 \in Stations
    /\ Announcers \cup Requesters \subseteq Stations
    /\ Nmax_master \in Addresses /\ Setups \subseteq [panel : Addresses, node : Addresses]
    /\ Nmax_info_frames \in Nat \ {0} /\ DEFAULT_MAX_INFO_FRAMES \in Nat \ {0}

ASSUME TimeAssumption ==
    /\ {Nretry_token, MaxFaults, Tslot, FrameTime} \subseteq Nat /\ {Npoll, MaxHeard} \subseteq Nat \ {0}
    /\ {Tno_token, Tusage_timeout, Treply_delay, Treply_timeout, Treply_wait} \subseteq Nat
    /\ FrameTime < Tusage_timeout /\ Tusage_timeout < Treply_delay
    /\ Treply_delay < Treply_wait /\ Treply_wait < Treply_timeout
    /\ Treply_timeout < Tno_token
    /\ 2 * Tusage_timeout < Tno_token  \* T3000 sleeps twice before it gives up a poll

VARIABLES
    st,        \* the port of each station
    setup,     \* how T3000 has opened the line
    live,      \* the stations that run
    overslept, \* T3000 has slept past a reply timeout
    faults     \* faults so far

vars == <<st, setup, live, overslept, faults>>

Data == {"DER", "DNER"}
FrameTypes == Data \cup {"Token", "PFM", "ReplyToPFM", "ReplyPostponed"}
Frames == [type : FrameTypes, to : Addresses \cup {Broadcast}, from : Stations]
Invalid == [type |-> "Invalid", to |-> Broadcast, from |-> Broadcast]
States == {"Initialize", "Idle", "UseToken", "WaitForReply", "DoneWithToken",
           "PassToken", "NoToken", "PollForMaster", "AnswerDataRequest"}

(* the addresses a station computes are modulo its Nmax_master + 1 *)
MaxMaster(n) == IF n = T3000 THEN setup.panel ELSE Nmax_master
WrapTooEarly(n, address) == (address + 1) % MaxMaster(n)  \* faulty: the last one is left out
Succ(n, address) == (address + 1) % (MaxMaster(n) + 1)
InfoFrames(n) == IF n = T3000 THEN DEFAULT_MAX_INFO_FRAMES ELSE Nmax_info_frames

Silent == Tno_token + Tslot * (Nmax_master + 1)  \* no longer silence is told apart

Started(n) ==
    [state |-> "Initialize", next |-> n, poll |-> n, tokens |-> 0, retries |-> 0,
     frames |-> 0, sole |-> FALSE, saw |-> FALSE, rx |-> <<>>, silence |-> 0, waited |-> 0]

Init ==
    /\ st = [n \in Stations |-> Started(n)]
    /\ setup \in Setups
    /\ live \in {Stations, Stations \ {T3000}}
    /\ overslept = FALSE
    /\ faults = 0

-----------------------------------------------------------------------------
(* When the state machine is called. *)

(* how long the master thread of T3000 sleeps; 0 if it does not *)
Sleep(n) ==
    IF n # T3000 THEN 0
    ELSE CASE st[n].state = "Idle" -> Tno_token
           [] st[n].state = "WaitForReply" -> Treply_wait
           [] st[n].state = "PollForMaster" -> Tusage_timeout
           [] OTHER -> 0

Awake(n) == st[n].rx # <<>> \/ st[n].waited >= Sleep(n)

Runs(n, state) == n \in live /\ st[n].state = state /\ Awake(n)
Receives(n, state) == Runs(n, state) /\ st[n].rx # <<>>
Frame(n) == Head(st[n].rx)
ForUs(n) == Frame(n).to \in {n, Broadcast}

NoTokenSlot(n) == Tno_token + Tslot * n
InSlot(n) == NoTokenSlot(n) <= st[n].silence /\ st[n].silence < NoTokenSlot(n) + Tslot

(* the silence that ends the state *)
TimedOut(n) ==
    CASE st[n].state = "Idle" -> st[n].silence >= Tno_token
      [] st[n].state = "WaitForReply" -> st[n].silence >= Treply_timeout
      [] st[n].state \in {"PassToken", "PollForMaster"} -> st[n].silence > Tusage_timeout
      [] st[n].state = "AnswerDataRequest" -> st[n].silence > Treply_delay
      [] st[n].state = "NoToken" -> InSlot(n)
      [] OTHER -> TRUE

(* the frames that set ReceivedValidFrame: a data octet turns SKIP_DATA into DATA *)
SetsFlag(n, f) == f.type \in Data \cup {"Invalid"} \/ f.to \in {n, Broadcast}

(* the receive thread stops while a flag is up, and takes up the rest afterwards *)
Cleared(port) ==
    IF Len(port.rx) = 1 THEN [port EXCEPT !.rx = <<>>]
    ELSE [port EXCEPT !.rx = Tail(@), !.silence = 0]

Capped(time) == IF time > Silent THEN Silent ELSE time

(* a thread that slept while others were heard sleeps again *)
Slept(n, time) == IF Sleep(n) = 0 THEN 0 ELSE (st[n].waited + time) % Sleep(n)

Hear(m, f) ==
    LET listens == st[m].rx = <<>>
        port == [st[m] EXCEPT
                   !.silence = IF listens THEN 0 ELSE Capped(@ + FrameTime),
                   !.saw = @ \/ (listens /\ st[m].state \in {"PassToken", "NoToken"}),
                   !.waited = Slept(m, FrameTime)]
    IN  IF m \notin live THEN st[m]
        ELSE IF SetsFlag(m, f) /\ Len(st[m].rx) < MaxHeard THEN [port EXCEPT !.rx = Append(@, f)] ELSE port

-----------------------------------------------------------------------------
(* What a call of the state machine does. *)

(* station n becomes port, and its thread goes round *)
Becomes(n, port) ==
    /\ st' = [st EXCEPT ![n] = [port EXCEPT !.waited = 0]]
    /\ UNCHANGED <<setup, live, overslept, faults>>

(* m has something to do that sends nothing: it is done while a frame is on the line *)
Handles(m) ==
    \/ st[m].state = "Initialize"
    \/ st[m].state \in {"PassToken", "NoToken"} /\ st[m].saw
    \/ /\ st[m].state \in {"Idle", "WaitForReply"} /\ st[m].rx # <<>>
       /\ ~(st[m].state = "Idle" /\ Frame(m).type = "PFM" /\ ForUs(m))

(* n goes on as port, and frame f is on the line, perhaps damaged *)
Sends(n, port, f) ==
  /\ \A m \in live \ {n} : ~Handles(m)
  /\ \E bad \in {FALSE, TRUE} :
        /\ bad => faults < MaxFaults
        /\ faults' = IF bad THEN faults + 1 ELSE faults
        /\ st' = [m \in Stations |->
                    IF m = n THEN [port EXCEPT !.silence = 0, !.waited = 0]
                    ELSE Hear(m, IF bad THEN Invalid ELSE f)]
        /\ UNCHANGED <<setup, live, overslept>>

SendsTo(n, port, type, to) == Sends(n, port, [type |-> type, to |-> to, from |-> n])

SendsPfm(n, port, to) ==
    SendsTo(n, [port EXCEPT !.poll = to, !.retries = 0, !.state = "PollForMaster"], "PFM", to)
SendsToken(n, port) ==
    SendsTo(n, [port EXCEPT !.saw = port.rx \notin {<<>>, st[n].rx}, !.state = "PassToken"],
            "Token", port.next)

(* MSTP_Put_Receive hands data to the receive thread, outside this module *)

Initialize(n) ==
    LET first == IF n = T3000 THEN setup.node ELSE n
    IN  /\ Runs(n, "Initialize")
        /\ Becomes(n, [st[n] EXCEPT !.next = first, !.poll = first, !.tokens = Npoll,
                                    !.sole = FALSE, !.state = "Idle"])

LostToken(n) ==
    /\ Runs(n, "Idle") /\ TimedOut(n)
    /\ Becomes(n, [(IF st[n].rx = <<>> THEN st[n] ELSE Cleared(st[n]))
                     EXCEPT !.saw = FALSE, !.state = "NoToken"])

ReceivedToken(n) ==
    /\ Receives(n, "Idle") /\ ~TimedOut(n)
    /\ Frame(n).type = "Token" /\ Frame(n).to = n
    /\ Becomes(n, [Cleared(st[n]) EXCEPT !.frames = 0, !.sole = FALSE, !.state = "UseToken"])

ReceivedPfm(n) ==
    /\ Receives(n, "Idle") /\ ~TimedOut(n)
    /\ Frame(n).type = "PFM" /\ ForUs(n)
    /\ SendsTo(n, Cleared(st[n]), "ReplyToPFM", Frame(n).from)

ReceivedDataNeedingReply(n) ==
    /\ Receives(n, "Idle") /\ ~TimedOut(n)
    /\ Frame(n).type = "DER" /\ Frame(n).to = n
    /\ Becomes(n, [st[n] EXCEPT !.state = "AnswerDataRequest"])

(* damaged frames, frames for others, data (also the broadcast that expects a  *)
(* reply, which is like a DNER) and replies nobody waits for                    *)
ReceivedOther(n) ==
    /\ Receives(n, "Idle") /\ ~TimedOut(n)
    /\ \/ ~ForUs(n)
       \/ Frame(n).type \notin {"Token", "PFM", "DER"}
    /\ Becomes(n, Cleared(st[n]))

NothingToSend(n) ==
    /\ Runs(n, "UseToken")
    /\ Becomes(n, [st[n] EXCEPT !.frames = InfoFrames(n), !.state = "DoneWithToken"])

SendNoWait(n) ==
    /\ n \in Announcers /\ Runs(n, "UseToken")
    /\ SendsTo(n, [st[n] EXCEPT !.frames = @ + 1, !.state = "DoneWithToken"], "DNER", Broadcast)

SendAndWait(n) ==
    /\ n \in Requesters /\ Runs(n, "UseToken")
    /\ \E m \in Stations \ {n} :
          SendsTo(n, [st[n] EXCEPT !.frames = @ + 1, !.state = "WaitForReply"], "DER", m)

ReplyTimeout(n) ==
    /\ Runs(n, "WaitForReply") /\ TimedOut(n)
    /\ Becomes(n, [st[n] EXCEPT !.frames = InfoFrames(n), !.state = "DoneWithToken"])

(* a reply, a postponed reply or a damaged frame ends the wait *)
ReceivedReply(n) ==
    /\ Receives(n, "WaitForReply") /\ ~TimedOut(n)
    /\ \/ Frame(n).type = "Invalid"
       \/ Frame(n).to = n /\ Frame(n).type \in {"DNER", "ReplyPostponed"}
    /\ Becomes(n, [Cleared(st[n]) EXCEPT !.state = "DoneWithToken"])

ReceivedUnexpectedFrame(n) ==
    /\ Receives(n, "WaitForReply") /\ ~TimedOut(n)
    /\ Frame(n).type # "Invalid"
    /\ Frame(n).to = n => Frame(n).type \notin {"DNER", "ReplyPostponed"}
    /\ Becomes(n, [Cleared(st[n]) EXCEPT !.state = "Idle"])

SendAnotherFrame(n) ==
    /\ Runs(n, "DoneWithToken") /\ st[n].frames < InfoFrames(n)
    /\ Becomes(n, [st[n] EXCEPT !.state = "UseToken"])

Finished(n) == Runs(n, "DoneWithToken") /\ st[n].frames >= InfoFrames(n)
NextUnknown(n) == ~st[n].sole /\ st[n].next = n
Polling(n) == Finished(n) /\ ~NextUnknown(n) /\ st[n].tokens >= Npoll - 1
NeverPolls(n) == TRUE  \* faulty: the maintenance poll ends before it starts
PolledAll(n) == Succ(n, st[n].poll) = st[n].next

NextStationUnknown(n) ==
    /\ Finished(n) /\ NextUnknown(n)
    /\ SendsPfm(n, st[n], Succ(n, n))

SoleMaster(n) ==
    /\ Finished(n) /\ st[n].sole /\ st[n].tokens < Npoll - 1 /\ st[n].next # Succ(n, n)
    /\ Becomes(n, [st[n] EXCEPT !.frames = 0, !.tokens = @ + 1, !.state = "UseToken"])

SendToken(n) ==
    /\ Finished(n) /\ ~NextUnknown(n) /\ st[n].tokens < Npoll - 1
    /\ st[n].sole => st[n].next = Succ(n, n)
    /\ SendsToken(n, [st[n] EXCEPT !.tokens = @ + 1, !.retries = 0])

SoleMasterRestartMaintenancePfm(n) ==
    /\ Polling(n) /\ PolledAll(n) /\ st[n].sole
    /\ SendsPfm(n, [st[n] EXCEPT !.next = n, !.tokens = 1], Succ(n, st[n].next))

ResetMaintenancePfm(n) ==
    /\ Polling(n) /\ PolledAll(n) /\ ~st[n].sole
    /\ SendsToken(n, [st[n] EXCEPT !.poll = n, !.tokens = 1, !.retries = 0])

SendMaintenancePfm(n) ==
    /\ Polling(n) /\ ~PolledAll(n)
    /\ SendsPfm(n, st[n], Succ(n, st[n].poll))

(* faulty: it goes on listening after it has heard the user of the token *)
GoOnListening(n) ==
    /\ Runs(n, "PassToken") /\ ~TimedOut(n) /\ st[n].saw
    /\ Becomes(n, [st[n] EXCEPT !.saw = FALSE])

SawTokenUser(n) ==
    /\ Runs(n, "PassToken") /\ ~TimedOut(n) /\ st[n].saw
    /\ Becomes(n, [st[n] EXCEPT !.saw = FALSE, !.state = "Idle"])

(* faulty: one retry too many *)
RetryOnceMore(n) ==
    /\ Runs(n, "PassToken") /\ TimedOut(n) /\ st[n].retries <= Nretry_token
    /\ SendsToken(n, [st[n] EXCEPT !.retries = @ + 1])

RetrySendToken(n) ==
    /\ Runs(n, "PassToken") /\ TimedOut(n) /\ st[n].retries < Nretry_token
    /\ SendsToken(n, [st[n] EXCEPT !.retries = @ + 1])

(* faulty: the successor that failed is kept *)
KeepSuccessor(n) ==
    /\ Runs(n, "PassToken") /\ TimedOut(n) /\ st[n].retries >= Nretry_token
    /\ SendsPfm(n, [st[n] EXCEPT !.tokens = 0], Succ(n, st[n].next))

FindNewSuccessor(n) ==
    /\ Runs(n, "PassToken") /\ TimedOut(n) /\ st[n].retries >= Nretry_token
    /\ SendsPfm(n, [st[n] EXCEPT !.next = n, !.tokens = 0], Succ(n, st[n].next))

(* before the slot of this station, and after it: "We missed our time slot!" *)
SawFrame(n) ==
    /\ Runs(n, "NoToken") /\ ~InSlot(n) /\ st[n].saw
    /\ Becomes(n, [st[n] EXCEPT !.saw = FALSE, !.state = "Idle"])

GenerateToken(n) ==
    /\ Runs(n, "NoToken") /\ InSlot(n)
    /\ SendsPfm(n, [st[n] EXCEPT !.next = n, !.tokens = 0], Succ(n, n))

IsReplyToPfm(n) == Frame(n).to = n /\ Frame(n).type = "ReplyToPFM"
Valid(n) == st[n].rx # <<>> /\ Frame(n).type # "Invalid"

ReceivedReplyToPfm(n) ==
    /\ Receives(n, "PollForMaster") /\ Valid(n) /\ IsReplyToPfm(n)
    /\ SendsToken(n, [Cleared(st[n]) EXCEPT !.sole = FALSE, !.next = Frame(n).from,
                                            !.poll = n, !.tokens = 0, !.retries = 0])

(* faulty: the frame of another token's user is ignored *)
IgnoreUnexpectedPfmFrame(n) ==
    /\ Receives(n, "PollForMaster") /\ Valid(n) /\ ~IsReplyToPfm(n)
    /\ Becomes(n, Cleared(st[n]))

ReceivedUnexpectedPfmFrame(n) ==
    /\ Receives(n, "PollForMaster") /\ Valid(n) /\ ~IsReplyToPfm(n)
    /\ Becomes(n, [Cleared(st[n]) EXCEPT !.state = "Idle"])

(* nobody answers the poll, or something damaged does *)
Unanswered(n) ==
    /\ Runs(n, "PollForMaster") /\ ~Valid(n)
    /\ TimedOut(n) \/ st[n].rx # <<>>

AfterPoll(n) == IF st[n].rx = <<>> THEN st[n] ELSE Cleared(st[n])

StaySole(n) ==
    /\ Unanswered(n) /\ st[n].sole
    /\ Becomes(n, [AfterPoll(n) EXCEPT !.frames = 0, !.state = "UseToken"])

DoneWithPfm(n) ==
    /\ Unanswered(n) /\ ~st[n].sole /\ st[n].next # n
    /\ SendsToken(n, [AfterPoll(n) EXCEPT !.retries = 0])

SendNextPfm(n) ==
    /\ Unanswered(n) /\ NextUnknown(n) /\ Succ(n, st[n].poll) # n
    /\ SendsPfm(n, AfterPoll(n), Succ(n, st[n].poll))

DeclareSoleMaster(n) ==
    /\ Unanswered(n) /\ NextUnknown(n) /\ Succ(n, st[n].poll) = n
    /\ Becomes(n, [AfterPoll(n) EXCEPT !.sole = TRUE, !.frames = 0, !.state = "UseToken"])

(* the application has the reply in time *)
Reply(n) ==
    /\ Runs(n, "AnswerDataRequest")
    /\ SendsTo(n, [Cleared(st[n]) EXCEPT !.state = "Idle"], "DNER", Frame(n).from)

DeferredReply(n) ==
    /\ Runs(n, "AnswerDataRequest") /\ TimedOut(n)
    /\ SendsTo(n, [Cleared(st[n]) EXCEPT !.state = "Idle"], "ReplyPostponed", Frame(n).from)

(* the thread of T3000 wakes, and the line has not been silent for long enough *)
WakeInVain(n) ==
    /\ n \in live /\ Sleep(n) # 0 /\ st[n].waited >= Sleep(n)
    /\ st[n].rx = <<>> /\ ~TimedOut(n)
    /\ Becomes(n, st[n])

Step(n) ==
    \/ Initialize(n) \/ LostToken(n) \/ ReceivedToken(n) \/ ReceivedPfm(n)
    \/ ReceivedDataNeedingReply(n) \/ ReceivedOther(n)
    \/ NothingToSend(n) \/ SendNoWait(n) \/ SendAndWait(n)
    \/ ReplyTimeout(n) \/ ReceivedReply(n) \/ ReceivedUnexpectedFrame(n)
    \/ SendAnotherFrame(n) \/ NextStationUnknown(n) \/ SoleMaster(n) \/ SendToken(n)
    \/ SoleMasterRestartMaintenancePfm(n) \/ ResetMaintenancePfm(n) \/ SendMaintenancePfm(n)
    \/ SawTokenUser(n) \/ RetrySendToken(n) \/ FindNewSuccessor(n)
    \/ SawFrame(n) \/ GenerateToken(n)
    \/ ReceivedReplyToPfm(n) \/ ReceivedUnexpectedPfmFrame(n) \/ StaySole(n)
    \/ DoneWithPfm(n) \/ SendNextPfm(n) \/ DeclareSoleMaster(n)
    \/ Reply(n) \/ DeferredReply(n) \/ WakeInVain(n)

-----------------------------------------------------------------------------
(* Time, and stations that fail. *)

(* n does something without more time; a reply may also take its time *)
Busy(n) ==
    /\ n \in live
    /\ \/ st[n].state \in {"PassToken", "NoToken"} /\ st[n].saw
       \/ st[n].state # "AnswerDataRequest" /\ st[n].rx # <<>>
             /\ st[n].state \notin {"PassToken", "NoToken"}
       \/ Sleep(n) = 0 /\ TimedOut(n)
       \/ Sleep(n) # 0 /\ st[n].waited >= Sleep(n)

Past == -(Tno_token + Silent) .. 0
Overslept == T3000 \in live /\ st[T3000].state = "WaitForReply"
                /\ st[T3000].silence > Treply_timeout

(* the time until n does something if nobody else does *)
Deadlines(n) ==
    LET end == CASE st[n].state = "Idle" -> Tno_token
                 [] st[n].state = "WaitForReply" -> Treply_timeout
                 [] st[n].state \in {"PassToken", "PollForMaster"} -> Tusage_timeout + 1
                 [] st[n].state = "AnswerDataRequest" -> Treply_delay + 1
                 [] st[n].state = "NoToken" -> NoTokenSlot(n)
                 [] OTHER -> 0
    IN  {IF Sleep(n) # 0 THEN Sleep(n) - st[n].waited ELSE end - st[n].silence} \ Past

Elapse(n, t) ==
    [st[n] EXCEPT !.silence = Capped(@ + t),
                  !.waited = IF Sleep(n) # 0 THEN @ + t ELSE 0]

Tick ==
    LET times == UNION {Deadlines(n) : n \in live}
    IN  /\ \A n \in live : ~Busy(n)
        /\ times # {}
        /\ \E t \in times :
              /\ \A u \in times : t <= u
              /\ st' = [n \in Stations |-> IF n \in live THEN Elapse(n, t) ELSE st[n]]
        /\ UNCHANGED <<setup, live, faults>>
        /\ overslept' = (overslept \/ Overslept')

Fail(n) ==
    /\ n \in live /\ faults < MaxFaults
    /\ live' = live \ {n}
    /\ st' = [st EXCEPT ![n] = Started(n)]
    /\ faults' = faults + 1
    /\ UNCHANGED <<setup, overslept>>

Restart(n) ==
    /\ n \in Stations \ live
    /\ live' = live \cup {n}
    /\ IF n = T3000 THEN setup' \in Setups ELSE UNCHANGED setup
    /\ UNCHANGED <<st, overslept, faults>>

Next == (\E n \in Stations : Step(n) \/ Fail(n) \/ Restart(n)) \/ Tick

(* the threads of every station that runs are scheduled, and time passes *)
Spec ==
    /\ Init /\ [][Next]_vars
    /\ WF_vars(Tick)
    /\ \A n \in Stations : WF_vars(Step(n))
-----------------------------------------------------------------------------
(* Properties. *)

MaxFrames == Nmax_info_frames + DEFAULT_MAX_INFO_FRAMES
Ports == [state : States, next : Addresses, poll : Addresses,
          tokens : 0 .. Npoll, retries : 0 .. Nretry_token,
          frames : 0 .. MaxFrames, sole : BOOLEAN, saw : BOOLEAN,
          rx : Seq(Frames \cup {Invalid}),
          silence : 0 .. Silent, waited : 0 .. Tno_token]

(* Every port has its type: RetryCount, TokenCount and the frames counted stay within bounds. *)
TypeOK ==
    /\ st \in [Stations -> Ports]
    /\ setup \in Setups
    /\ live \subseteq Stations

Holders == {n \in live : st[n].state \in {"UseToken", "WaitForReply", "DoneWithToken",
                                         "PollForMaster"}}

(* However frames are damaged and stations fail, the stations never hold two   *)
(* tokens; the slots of NO_TOKEN keep two stations from making one each.  T3000 *)
(* breaks this only when it sleeps past a reply timeout: an unanswered request *)
(* then keeps the line silent for longer than Tno_token.                       *)
OneToken == overslept \/ Cardinality(Holders) <= 1

HasTurns(n) == []<>(n \in live => st[n].state = "UseToken")

(* Beside a controller that runs, T3000 comes to use the token again and again: *)
(* the maintenance poll finds it, and a lost token is made again.               *)
T3000sTurn == <>[](live \cap (Stations \ {T3000}) # {}) => HasTurns(T3000)

(* When T3000 is stopped for good, the controllers drop it as their successor  *)
(* and each has its turn.                                                      *)
WithoutT3000 == <>[](T3000 \notin live) => \A n \in Stations : HasTurns(n)

(* Two tokens do not last: a holder that hears the other's frames drops its own. *)
Resolved == Cardinality(Holders) > 1 ~> Cardinality(Holders) = 1

(* Where T3000 polls for every controller, each station has its turn, also one *)
(* that T3000 was alone without: as the sole master it polls on, and hands the *)
(* token over.                                                                 *)
EverybodysTurn ==
    <>[](/\ live \cap (Stations \ {T3000}) # {}
         /\ \A n \in Stations : n <= setup.panel
         /\ ~overslept) => \A n \in Stations : HasTurns(n)
=============================================================================
