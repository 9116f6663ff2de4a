-------------------------- MODULE MstpMasterProofs --------------------------
(***************************************************************************)
(* Proofs about the safety of MstpMaster.tla, for any stations, any        *)
(* timeouts in the order the code has them in, and any number of faults.   *)
(***************************************************************************)
EXTENDS MstpMaster, FiniteSetTheorems, SequenceTheorems, TLAPS

Holding == {"UseToken", "WaitForReply", "DoneWithToken", "PollForMaster"}

(* A station that has sent the token and has not heard it used. *)
Passing(p) == p.state = "PassToken" /\ ~p.saw

(* A station that has a frame to act on, whatever state it hears it in. *)
Called(n, p, type) ==
    /\ p.state \in {"Idle", "PassToken", "NoToken"}
    /\ p.rx # <<>> /\ Head(p.rx).type = type /\ Head(p.rx).to = n

(* A station that may be the next to send without having made a token. *)
Active(n, p) ==
    \/ p.state \in Holding \cup {"AnswerDataRequest"}
    \/ Passing(p)
    \/ \E type \in {"Token", "PFM", "DER"} : Called(n, p, type)

(* The two ends of one exchange: p has sent and m, with port q, acts on it, *)
(* or m has passed the token that p uses.                                   *)
Fits(p, m, q) ==
    \/ p.state \in {"UseToken", "DoneWithToken"} /\ Passing(q) /\ q.silence = 0
    \/ p.state = "PollForMaster" /\ p.rx = <<>> /\ Called(m, q, "PFM")
    \/ /\ p.state = "WaitForReply" /\ p.rx = <<>>
       /\ q.state = "AnswerDataRequest" \/ Called(m, q, "DER")
    \/ Passing(p) /\ Called(m, q, "Token")

(* Any two active stations are the ends of one exchange. *)
OneExchange ==
    \A n, m \in live : n # m /\ Active(n, st[n]) /\ Active(m, st[m]) =>
        Fits(st[n], m, st[m]) \/ Fits(st[m], n, st[n])

(* One frame at most waits for a station, in a state that takes it, and    *)
(* nothing but the reply to a request waits longer than no time; a poll is *)
(* for one station.                                                        *)
OneFrame(p) ==
    /\ Len(p.rx) <= 1
    /\ p.rx # <<>> => \/ p.state \in {"Idle", "WaitForReply", "PollForMaster", "AnswerDataRequest"}
                      \/ p.state \in {"PassToken", "NoToken"} /\ p.saw
    /\ p.rx # <<>> /\ p.state # "AnswerDataRequest" => p.silence = 0
    /\ p.state = "PassToken" /\ p.saw => p.silence = 0
    /\ p.rx # <<>> /\ Head(p.rx).type = "PFM" => Head(p.rx).to # Broadcast

(* How long the line is silent at most in the states that may send next. *)
InTime(n, p) ==
    /\ p.state = "WaitForReply" => p.silence <= Treply_timeout
    /\ p.state = "PollForMaster" /\ n # T3000 => p.silence <= Tusage_timeout + 1
    /\ p.state = "PollForMaster" /\ n = T3000 =>
          p.silence <= p.waited + Tusage_timeout /\ p.waited <= Tusage_timeout
    /\ p.state \in {"UseToken", "DoneWithToken"} => p.silence < Tno_token
    /\ p.state = "PassToken" => p.silence <= Tusage_timeout + 1
    /\ p.state = "AnswerDataRequest" => p.silence <= Treply_delay + 1

(* Nobody has counted a longer silence than an active station. *)
Longest(n) == \A k \in live : st[k].silence <= st[n].silence

Orderly ==
    /\ \A n \in live : OneFrame(st[n]) /\ InTime(n, st[n])
    /\ \A n \in live : Active(n, st[n]) \/ st[n].rx # <<>> => Longest(n)
    /\ OneExchange

(* What holds however long T3000 has slept. *)
Usable(p) ==
    /\ p.state = "AnswerDataRequest" => p.rx # <<>>
    /\ p.state = "UseToken" => p.frames < MaxFrames
Stopped == \A n \in Stations \ live : st[n] = Started(n)
Typed == TypeOK /\ Stopped /\ \A n \in Stations : Usable(st[n])

IInv == Typed /\ (overslept \/ Orderly)
-----------------------------------------------------------------------------
(* Lemmas about the operators of the model. *)

LEMMA RemainderBounds ==
  ASSUME NEW a \in Nat, NEW b \in Nat \ {0}
  PROVE  a % b \in 0 .. b - 1
  OBVIOUS

LEMMA AddressFacts ==
  /\ Stations \subseteq Addresses /\ Addresses \subseteq Nat
  /\ Broadcast \notin Addresses /\ 0 \in Addresses /\ Nmax_master \in Addresses
  /\ \A m \in Addresses : 0 .. m \subseteq Addresses
<1>1. \A m \in Addresses : m \in Nat /\ 0 .. m \subseteq Addresses
  BY DEF Addresses, Broadcast
<1>2. Broadcast \notin Addresses /\ 0 \in Addresses
  BY DEF Addresses, Broadcast
<1> QED
  BY <1>1, <1>2, StationAssumption

LEMMA SilenceBounds ==
  /\ Silent \in Nat /\ Silent >= Tno_token
  /\ \A n \in Stations : /\ NoTokenSlot(n) \in Nat /\ NoTokenSlot(n) >= Tno_token
<1>1. ASSUME NEW k \in Nat
      PROVE  Tslot * k \in Nat
  BY <1>1, TimeAssumption
<1> QED
  BY <1>1, TimeAssumption, AddressFacts DEF Silent, NoTokenSlot

LEMMA SleepValues ==
  ASSUME NEW n \in Stations
  PROVE  /\ Sleep(n) \in 0 .. Tno_token
         /\ n # T3000 => Sleep(n) = 0
         /\ n = T3000 =>
              /\ st[n].state = "Idle" => Sleep(n) = Tno_token
              /\ st[n].state = "WaitForReply" => Sleep(n) = Treply_wait
              /\ st[n].state = "PollForMaster" => Sleep(n) = Tusage_timeout
              /\ st[n].state \notin {"Idle", "WaitForReply", "PollForMaster"} => Sleep(n) = 0
         /\ Sleep(n) # 0 => st[n].state \in {"Idle", "WaitForReply", "PollForMaster"}
  BY TimeAssumption DEF Sleep

AnyFrame == Frames \cup {Invalid}

LEMMA FramesHaveTypes ==
  /\ \A f \in Frames : f.type \in FrameTypes /\ f.from \in Stations /\ f.from \in Addresses
  /\ Invalid.type = "Invalid"
  /\ \A type \in FrameTypes, to \in Addresses \cup {Broadcast}, n \in Stations :
        [type |-> type, to |-> to, from |-> n] \in Frames
<1>1. /\ \A f \in Frames : f.type \in FrameTypes /\ f.from \in Stations
      /\ Invalid.type = "Invalid"
  BY DEF Frames, Invalid
<1>2. \A f \in Frames : f.from \in Addresses
  BY <1>1, AddressFacts
<1>3. \A type \in FrameTypes, to \in Addresses \cup {Broadcast}, n \in Stations :
        [type |-> type, to |-> to, from |-> n] \in Frames
  BY DEF Frames
<1> QED
  BY <1>1, <1>2, <1>3

(* What T3000 is set up with, and what the stations compute from it. *)
LEMMA NextAddress ==
  ASSUME Typed, NEW n \in Stations
  PROVE  /\ \A a \in Addresses : Succ(n, a) \in Addresses
         /\ n \in Addresses /\ n \in Nat
         /\ setup.node \in Addresses
<1>1. setup.node \in Addresses /\ setup.panel \in Addresses
  <2>1. setup \in [panel : Addresses, node : Addresses]
    BY StationAssumption DEF Typed, TypeOK
  <2> QED
    BY <2>1
<1>2. MaxMaster(n) \in Addresses
  BY <1>1, AddressFacts DEF MaxMaster
<1>3. ASSUME NEW a \in Addresses
      PROVE  Succ(n, a) \in Addresses
  <2>1. PICK m \in Nat : m = MaxMaster(n) /\ 0 .. m \subseteq Addresses
    BY <1>2, AddressFacts
  <2>2. a + 1 \in Nat /\ m + 1 \in Nat \ {0}
    BY <1>3, <2>1, AddressFacts
  <2>3. (a + 1) % (m + 1) \in 0 .. (m + 1) - 1
    BY <2>2, RemainderBounds
  <2>4. (a + 1) % (m + 1) \in 0 .. m
    BY <2>1, <2>3
  <2> QED
    BY <2>1, <2>4 DEF Succ
<1> QED
  BY <1>1, <1>3, AddressFacts

LEMMA FrameCounts ==
  /\ MaxFrames \in Nat /\ 0 < MaxFrames /\ 0 \in 0 .. MaxFrames
  /\ \A n \in Stations : InfoFrames(n) \in 0 .. MaxFrames
  /\ \A count \in 0 .. MaxFrames : count < MaxFrames => count + 1 \in 0 .. MaxFrames
BY StationAssumption DEF MaxFrames, InfoFrames

LEMMA PortTypes ==
  ASSUME NEW p \in Ports
  PROVE  /\ p.state \in States /\ p.next \in Addresses /\ p.poll \in Addresses
         /\ p.tokens \in 0 .. Npoll /\ p.retries \in 0 .. Nretry_token
         /\ p.frames \in 0 .. MaxFrames /\ p.sole \in BOOLEAN /\ p.saw \in BOOLEAN
         /\ p.silence \in 0 .. Silent /\ p.waited \in 0 .. Tno_token
  BY DEF Ports

LEMMA QueueOfPort ==
  ASSUME NEW p \in Ports
  PROVE  /\ p.rx \in Seq(AnyFrame) /\ Len(p.rx) \in Nat
         /\ p.rx # <<>> => /\ Head(p.rx) \in AnyFrame /\ Tail(p.rx) \in Seq(AnyFrame)
                           /\ Len(p.rx) # 0
         /\ \A f \in AnyFrame : /\ Append(p.rx, f) \in Seq(AnyFrame) /\ Append(p.rx, f) # <<>>
<1>1. p.rx \in Seq(AnyFrame)
  BY DEF Ports, AnyFrame
<1>2. Len(p.rx) \in Nat
  BY <1>1, LenProperties
<1>3. p.rx # <<>> => /\ Head(p.rx) \in AnyFrame /\ Tail(p.rx) \in Seq(AnyFrame)
                     /\ Len(p.rx) # 0
  BY <1>1, HeadTailProperties, EmptySeq
<1>4. ASSUME NEW f \in AnyFrame
      PROVE  Append(p.rx, f) \in Seq(AnyFrame) /\ Append(p.rx, f) # <<>>
  BY <1>1, AppendProperties
<1> QED
  BY <1>1, <1>2, <1>3, <1>4

LEMMA ClearedPort ==
  ASSUME NEW p \in Ports, p.rx # <<>>
  PROVE  /\ Cleared(p) \in Ports
         /\ Len(p.rx) <= 1 => Cleared(p) = [p EXCEPT !.rx = <<>>]
         /\ Cleared(p).saw = p.saw /\ Cleared(p).state = p.state
         /\ Cleared(p).sole = p.sole
<1>1. /\ Tail(p.rx) \in Seq(Frames \cup {Invalid})
      /\ <<>> \in Seq(Frames \cup {Invalid}) /\ 0 \in 0 .. Silent
  BY QueueOfPort, EmptySeq, SilenceBounds DEF AnyFrame
<1>2. Len(p.rx) <= 1 => Len(p.rx) = 1
  <2>1. PICK length \in Nat \ {0} : length = Len(p.rx)
    BY QueueOfPort
  <2>2. length <= 1 => length = 1
    OBVIOUS
  <2> QED
    BY <2>1, <2>2
<1>3. [p EXCEPT !.rx = <<>>] \in Ports
  BY <1>1 DEF Ports
<1>4. [p EXCEPT !.rx = Tail(p.rx), !.silence = 0] \in Ports
  BY <1>1 DEF Ports
<1>5. /\ Cleared(p).saw = p.saw /\ Cleared(p).state = p.state
      /\ Cleared(p).sole = p.sole
  BY DEF Cleared, Ports
<1>6. \/ Cleared(p) = [p EXCEPT !.rx = Tail(p.rx), !.silence = 0] /\ Len(p.rx) # 1
      \/ Cleared(p) = [p EXCEPT !.rx = <<>>]
  BY DEF Cleared
<1> QED
  BY <1>2, <1>3, <1>4, <1>5, <1>6

LEMMA StartedPort ==
  ASSUME NEW n \in Stations
  PROVE  Started(n) \in Ports
<1>1. /\ <<>> \in Seq(Frames \cup {Invalid}) /\ 0 \in 0 .. Silent
      /\ n \in Addresses /\ 0 \in 0 .. Npoll /\ 0 \in 0 .. Nretry_token
      /\ 0 \in 0 .. MaxFrames /\ 0 \in 0 .. Tno_token
  BY AddressFacts, FrameCounts, TimeAssumption, SilenceBounds, EmptySeq
<1> QED
  BY <1>1 DEF Started, Ports, States

(* What a station that runs hears of a frame. *)
LEMMA Heard ==
  ASSUME NEW m \in Stations, m \in live, NEW f \in AnyFrame, st[m] \in Ports
  PROVE  /\ Hear(m, f) \in Ports
         /\ Hear(m, f).state = st[m].state
         /\ Hear(m, f).frames = st[m].frames
         /\ Hear(m, f).rx \in {st[m].rx, Append(st[m].rx, f)}
         /\ Hear(m, f).waited <= Sleep(m)
         /\ st[m].rx = <<>> =>
               /\ Hear(m, f).silence = 0
               /\ Hear(m, f).saw = (st[m].saw \/ st[m].state \in {"PassToken", "NoToken"})
<1> DEFINE listens == st[m].rx = <<>>
<1>1. PICK silence \in 0 .. Silent :
         silence = IF listens THEN 0 ELSE Capped(st[m].silence + FrameTime)
  <2>1. PICK before \in Nat : before = st[m].silence
    BY PortTypes, SilenceBounds
  <2>2. before + FrameTime \in Nat
    BY TimeAssumption
  <2> QED
    BY <2>1, <2>2, SilenceBounds DEF Capped
<1>2. PICK waited \in 0 .. Tno_token : waited = Slept(m, FrameTime) /\ waited <= Sleep(m)
  <2>1. Sleep(m) \in 0 .. Tno_token /\ Tno_token \in Nat
    BY SleepValues, TimeAssumption
  <2>2. CASE Sleep(m) = 0
    BY <2>1, <2>2 DEF Slept
  <2>3. CASE Sleep(m) # 0
    <3>1. PICK before \in Nat : before = st[m].waited
      BY PortTypes, TimeAssumption
    <3>2. PICK period \in Nat \ {0} : period = Sleep(m) /\ period <= Tno_token
      BY <2>1, <2>3
    <3>3. before + FrameTime \in Nat
      BY TimeAssumption
    <3>4. (before + FrameTime) % period \in 0 .. period - 1
      BY <3>3, RemainderBounds
    <3>5. Slept(m, FrameTime) = (before + FrameTime) % period
      BY <2>3, <3>1, <3>2 DEF Slept
    <3> QED
      BY <2>1, <3>2, <3>4, <3>5
  <2> QED
    BY <2>2, <2>3
<1>3. PICK saw \in BOOLEAN :
         saw = (st[m].saw \/ (listens /\ st[m].state \in {"PassToken", "NoToken"}))
  BY DEF Ports
<1> DEFINE port == [st[m] EXCEPT !.silence = silence, !.saw = saw, !.waited = waited]
           filled == [port EXCEPT !.rx = Append(st[m].rx, f)]
<1>4. Append(st[m].rx, f) \in Seq(Frames \cup {Invalid})
  BY QueueOfPort DEF AnyFrame
<1>5. /\ port \in Ports /\ port.state = st[m].state /\ port.frames = st[m].frames
      /\ port.rx = st[m].rx /\ port.silence = silence /\ port.saw = saw /\ port.waited = waited
  BY DEF Ports
<1>6. /\ filled \in Ports /\ filled.state = st[m].state /\ filled.frames = st[m].frames
      /\ filled.rx = Append(st[m].rx, f) /\ filled.silence = silence
      /\ filled.saw = saw /\ filled.waited = waited
  <2> HIDE DEF port
  <2> QED
    BY <1>4, <1>5 DEF Ports
<1>7. Hear(m, f) \in {port, filled}
  BY <1>1, <1>2, <1>3, <1>5 DEF Hear
<1> HIDE DEF port, filled
<1> QED
  BY <1>1, <1>2, <1>3, <1>5, <1>6, <1>7

-----------------------------------------------------------------------------
(* The types. *)

(* A step of a station that sends nothing. *)
LEMMA QuietStepTypes ==
  ASSUME Typed, NEW n \in Stations, n \in live, NEW port \in Ports, Usable(port),
         Becomes(n, port)
  PROVE  Typed'
<1> DEFINE next == [port EXCEPT !.waited = 0]
<1>1. next \in Ports /\ Usable(next)
  <2>1. 0 \in 0 .. Tno_token
    BY TimeAssumption
  <2>2. next \in Ports
    BY <2>1 DEF Ports
  <2>3. next.state = port.state /\ next.rx = port.rx /\ next.frames = port.frames
    BY DEF Ports
  <2> HIDE DEF next
  <2> QED
    BY <2>2, <2>3 DEF Usable
<1>2. st' = [st EXCEPT ![n] = next] /\ live' = live /\ setup' = setup
  BY DEF Becomes
<1> HIDE DEF next
<1>3. TypeOK'
  BY <1>1, <1>2 DEF Typed, TypeOK
<1>4. Stopped'
  BY <1>2 DEF Typed, Stopped, TypeOK, Started
<1>5. (\A m \in Stations : Usable(st[m]))'
  BY <1>1, <1>2 DEF Typed, TypeOK, Usable
<1> QED
  BY <1>3, <1>4, <1>5 DEF Typed

(* A step of a station that sends a frame. *)
LEMMA SendTypes ==
  ASSUME Typed, NEW n \in Stations, n \in live, NEW port \in Ports, Usable(port),
         NEW f \in Frames, Sends(n, port, f)
  PROVE  Typed'
<1> DEFINE next == [port EXCEPT !.silence = 0, !.waited = 0]
<1>1. next \in Ports /\ Usable(next)
  <2>1. 0 \in 0 .. Tno_token /\ 0 \in 0 .. Silent
    BY TimeAssumption, SilenceBounds
  <2>2. next \in Ports
    BY <2>1 DEF Ports
  <2>3. next.state = port.state /\ next.rx = port.rx /\ next.frames = port.frames
    BY DEF Ports
  <2> HIDE DEF next
  <2> QED
    BY <2>2, <2>3 DEF Usable
<1>2. PICK g \in AnyFrame :
         /\ st' = [m \in Stations |-> IF m = n THEN next ELSE Hear(m, g)]
         /\ live' = live /\ setup' = setup
  BY DEF Sends, AnyFrame
<1> HIDE DEF next
<1>3. ASSUME NEW m \in Stations, m # n
      PROVE  /\ Hear(m, g) \in Ports /\ Usable(Hear(m, g))
             /\ m \notin live => Hear(m, g) = st[m]
  <2>1. st[m] \in Ports /\ Usable(st[m])
    BY DEF Typed, TypeOK
  <2>2. CASE m \in live
    <3>1. Append(st[m].rx, g) # <<>>
      BY <2>1, QueueOfPort
    <3> QED
      BY <2>1, <2>2, <3>1, Heard DEF Usable
  <2>3. CASE m \notin live
    BY <2>1, <2>3 DEF Hear
  <2> QED
    BY <2>2, <2>3
<1>4. \A m \in Stations : st'[m] \in Ports /\ Usable(st'[m])
  BY <1>1, <1>2, <1>3
<1>5. TypeOK'
  BY <1>2, <1>4 DEF Typed, TypeOK
<1>6. Stopped'
  BY <1>2, <1>3 DEF Typed, Stopped, Started
<1>7. (\A m \in Stations : Usable(st[m]))'
  BY <1>4 DEF Usable
<1> QED
  BY <1>5, <1>6, <1>7 DEF Typed

LEMMA PfmTypes ==
  ASSUME Typed, NEW n \in Stations, n \in live, NEW port \in Ports,
         NEW to \in Addresses, SendsPfm(n, port, to)
  PROVE  Typed'
<1> DEFINE polls == [port EXCEPT !.poll = to, !.retries = 0, !.state = "PollForMaster"]
<1>1. polls \in Ports
  <2>1. 0 \in 0 .. Nretry_token
    BY TimeAssumption
  <2> QED
    BY <2>1 DEF Ports, States
<1>2. Usable(polls)
  BY DEF Usable, Ports
<1>3. [type |-> "PFM", to |-> to, from |-> n] \in Frames
  BY FramesHaveTypes DEF FrameTypes
<1>4. Sends(n, polls, [type |-> "PFM", to |-> to, from |-> n])
  BY DEF SendsPfm, SendsTo
<1> HIDE DEF polls
<1> QED
  BY <1>1, <1>2, <1>3, <1>4, SendTypes

LEMMA TokenTypes ==
  ASSUME Typed, NEW n \in Stations, n \in live, NEW port \in Ports, SendsToken(n, port)
  PROVE  Typed'
<1>1. PICK saw \in BOOLEAN : saw = (port.rx \notin {<<>>, st[n].rx})
  OBVIOUS
<1> DEFINE passes == [port EXCEPT !.saw = saw, !.state = "PassToken"]
<1>2. passes \in Ports
  BY DEF Ports, States
<1>3. Usable(passes)
  BY DEF Usable, Ports
<1>4. [type |-> "Token", to |-> port.next, from |-> n] \in Frames
  BY FramesHaveTypes, PortTypes DEF FrameTypes
<1>5. Sends(n, passes, [type |-> "Token", to |-> port.next, from |-> n])
  BY <1>1 DEF SendsToken, SendsTo
<1> HIDE DEF passes
<1> QED
  BY <1>2, <1>3, <1>4, <1>5, SendTypes

(* The steps of Step(n) that send nothing. *)
QuietStep(n) ==
    \/ Initialize(n) \/ LostToken(n) \/ ReceivedToken(n)
    \/ ReceivedDataNeedingReply(n) \/ ReceivedOther(n)
    \/ NothingToSend(n) \/ ReplyTimeout(n) \/ ReceivedReply(n) \/ ReceivedUnexpectedFrame(n)
    \/ SendAnotherFrame(n) \/ SoleMaster(n) \/ SawTokenUser(n) \/ SawFrame(n)
    \/ ReceivedUnexpectedPfmFrame(n) \/ StaySole(n) \/ DeclareSoleMaster(n) \/ WakeInVain(n)

LEMMA QuietTypes ==
  ASSUME Typed, NEW n \in Stations, QuietStep(n)
  PROVE  Typed'
<1>1. PICK p \in Ports : p = st[n] /\ Usable(p)
  BY DEF Typed, TypeOK
<1>2. PICK q \in Ports : /\ p.rx # <<>> => q = Cleared(p)
                         /\ p.rx = <<>> => q = p
  BY ClearedPort
<1>3. n \in live
  BY DEF QuietStep, Initialize, LostToken, ReceivedToken, ReceivedDataNeedingReply,
         ReceivedOther, NothingToSend, ReplyTimeout, ReceivedReply, ReceivedUnexpectedFrame,
         SendAnotherFrame, SoleMaster, SawTokenUser, SawFrame, ReceivedUnexpectedPfmFrame,
         StaySole, DeclareSoleMaster, WakeInVain, Finished, Unanswered, Receives, Runs
<1>4. ASSUME NEW port \in Ports, Becomes(n, port), port.state \notin {"AnswerDataRequest", "UseToken"}
      PROVE  Typed'
  BY <1>3, <1>4, QuietStepTypes DEF Usable
<1>5. ASSUME NEW port \in Ports, Becomes(n, port), port.state = "UseToken", port.frames = 0
      PROVE  Typed'
  <2>1. Usable(port)
    BY <1>5, FrameCounts DEF Usable
  <2> QED
    BY <1>3, <1>5, <2>1, QuietStepTypes
<1>6. /\ 0 \in 0 .. MaxFrames /\ InfoFrames(n) \in 0 .. MaxFrames
      /\ Npoll \in 0 .. Npoll
      /\ n \in Addresses /\ setup.node \in Addresses
  BY NextAddress, FrameCounts, TimeAssumption
<1>7. CASE Initialize(n)
  <2> DEFINE first == IF n = T3000 THEN setup.node ELSE n
             port == [p EXCEPT !.next = first, !.poll = first, !.tokens = Npoll,
                               !.sole = FALSE, !.state = "Idle"]
  <2>1. PICK a \in Addresses, tokens \in 0 .. Npoll : a = first /\ tokens = Npoll
    BY <1>6
  <2>2. Becomes(n, port)
    BY <1>1, <1>7 DEF Initialize
  <2>3. /\ [p EXCEPT !.next = a, !.poll = a, !.tokens = tokens,
                     !.sole = FALSE, !.state = "Idle"] \in Ports
        /\ [p EXCEPT !.next = a, !.poll = a, !.tokens = tokens,
                     !.sole = FALSE, !.state = "Idle"].state = "Idle"
    BY DEF Ports, States
  <2> QED
    BY <1>4, <2>1, <2>2, <2>3
<1>8. CASE LostToken(n)
  <2>1. Becomes(n, [q EXCEPT !.saw = FALSE, !.state = "NoToken"])
    BY <1>1, <1>2, <1>8 DEF LostToken
  <2>2. /\ [q EXCEPT !.saw = FALSE, !.state = "NoToken"] \in Ports
        /\ [q EXCEPT !.saw = FALSE, !.state = "NoToken"].state = "NoToken"
    BY DEF Ports, States
  <2> QED
    BY <1>4, <2>1, <2>2
<1>9. CASE ReceivedToken(n) \/ StaySole(n)
  <2>1. \/ Becomes(n, [q EXCEPT !.frames = 0, !.sole = FALSE, !.state = "UseToken"])
        \/ Becomes(n, [q EXCEPT !.frames = 0, !.state = "UseToken"])
    BY <1>1, <1>2, <1>9 DEF ReceivedToken, Receives, StaySole, AfterPoll
  <2>2. /\ [q EXCEPT !.frames = 0, !.sole = FALSE, !.state = "UseToken"] \in Ports
        /\ [q EXCEPT !.frames = 0, !.sole = FALSE, !.state = "UseToken"].state = "UseToken"
        /\ [q EXCEPT !.frames = 0, !.sole = FALSE, !.state = "UseToken"].frames = 0
    BY <1>6 DEF Ports, States
  <2>3. /\ [q EXCEPT !.frames = 0, !.state = "UseToken"] \in Ports
        /\ [q EXCEPT !.frames = 0, !.state = "UseToken"].state = "UseToken"
        /\ [q EXCEPT !.frames = 0, !.state = "UseToken"].frames = 0
    BY <1>6 DEF Ports, States
  <2> QED
    BY <1>5, <2>1, <2>2, <2>3
<1>10. CASE ReceivedDataNeedingReply(n)
  <2> DEFINE port == [p EXCEPT !.state = "AnswerDataRequest"]
  <2>1. Becomes(n, port) /\ p.rx # <<>>
    BY <1>1, <1>10 DEF ReceivedDataNeedingReply, Receives
  <2>2. port \in Ports /\ port.state = "AnswerDataRequest" /\ port.rx = p.rx
    BY DEF Ports, States
  <2> HIDE DEF port
  <2> QED
    BY <1>3, <2>1, <2>2, QuietStepTypes DEF Usable
<1>11. CASE ReceivedOther(n)
  <2>1. Becomes(n, q) /\ p.rx # <<>> /\ p.state = "Idle"
    BY <1>1, <1>2, <1>11 DEF ReceivedOther, Receives, Runs
  <2>2. q.state = "Idle"
    BY <1>2, <2>1, ClearedPort
  <2> QED
    BY <1>4, <2>1, <2>2
<1>12. CASE NothingToSend(n) \/ ReplyTimeout(n)
  <2>1. Becomes(n, [p EXCEPT !.frames = InfoFrames(n), !.state = "DoneWithToken"])
    BY <1>1, <1>12 DEF NothingToSend, ReplyTimeout
  <2>2. /\ [p EXCEPT !.frames = InfoFrames(n), !.state = "DoneWithToken"] \in Ports
        /\ [p EXCEPT !.frames = InfoFrames(n), !.state = "DoneWithToken"].state = "DoneWithToken"
    BY <1>6 DEF Ports, States
  <2> QED
    BY <1>4, <2>1, <2>2
<1>13. CASE ReceivedReply(n)
  <2>1. Becomes(n, [q EXCEPT !.state = "DoneWithToken"])
    BY <1>1, <1>2, <1>13 DEF ReceivedReply, Receives
  <2>2. /\ [q EXCEPT !.state = "DoneWithToken"] \in Ports
        /\ [q EXCEPT !.state = "DoneWithToken"].state = "DoneWithToken"
    BY DEF Ports, States
  <2> QED
    BY <1>4, <2>1, <2>2
<1>14. CASE ReceivedUnexpectedFrame(n) \/ ReceivedUnexpectedPfmFrame(n)
  <2>1. Becomes(n, [q EXCEPT !.state = "Idle"])
    BY <1>1, <1>2, <1>14 DEF ReceivedUnexpectedFrame, ReceivedUnexpectedPfmFrame, Receives
  <2>2. /\ [q EXCEPT !.state = "Idle"] \in Ports
        /\ [q EXCEPT !.state = "Idle"].state = "Idle"
    BY DEF Ports, States
  <2> QED
    BY <1>4, <2>1, <2>2
<1>15. CASE SendAnotherFrame(n)
  <2> DEFINE port == [p EXCEPT !.state = "UseToken"]
  <2>1. Becomes(n, port) /\ p.frames < InfoFrames(n)
    BY <1>1, <1>15 DEF SendAnotherFrame
  <2>2. port \in Ports /\ port.state = "UseToken" /\ port.frames = p.frames
    BY DEF Ports, States
  <2>3. p.frames \in Nat /\ p.frames < MaxFrames
    BY <1>6, <2>1, PortTypes, FrameCounts
  <2> HIDE DEF port
  <2> QED
    BY <1>3, <2>1, <2>2, <2>3, QuietStepTypes DEF Usable
<1>16. CASE SoleMaster(n)
  <2> DEFINE port == [p EXCEPT !.frames = 0, !.tokens = @ + 1, !.state = "UseToken"]
  <2>1. Becomes(n, port) /\ p.tokens < Npoll - 1
    BY <1>1, <1>16 DEF SoleMaster
  <2>2. PICK tokens \in 0 .. Npoll : tokens = p.tokens + 1
    <3>1. PICK before \in 0 .. Npoll : before = p.tokens
      BY PortTypes
    <3>2. before < Npoll - 1 => before + 1 \in 0 .. Npoll
      BY TimeAssumption
    <3> QED
      BY <2>1, <3>1, <3>2
  <2>3. port \in Ports /\ port.state = "UseToken" /\ port.frames = 0
    BY <1>6, <2>2 DEF Ports, States
  <2> QED
    BY <1>5, <2>1, <2>3
<1>17. CASE SawTokenUser(n) \/ SawFrame(n)
  <2>1. Becomes(n, [p EXCEPT !.saw = FALSE, !.state = "Idle"])
    BY <1>1, <1>17 DEF SawTokenUser, SawFrame
  <2>2. /\ [p EXCEPT !.saw = FALSE, !.state = "Idle"] \in Ports
        /\ [p EXCEPT !.saw = FALSE, !.state = "Idle"].state = "Idle"
    BY DEF Ports, States
  <2> QED
    BY <1>4, <2>1, <2>2
<1>18. CASE DeclareSoleMaster(n)
  <2>1. Becomes(n, [q EXCEPT !.sole = TRUE, !.frames = 0, !.state = "UseToken"])
    BY <1>1, <1>2, <1>18 DEF DeclareSoleMaster, AfterPoll
  <2>2. /\ [q EXCEPT !.sole = TRUE, !.frames = 0, !.state = "UseToken"] \in Ports
        /\ [q EXCEPT !.sole = TRUE, !.frames = 0, !.state = "UseToken"].state = "UseToken"
        /\ [q EXCEPT !.sole = TRUE, !.frames = 0, !.state = "UseToken"].frames = 0
    BY <1>6 DEF Ports, States
  <2> QED
    BY <1>5, <2>1, <2>2
<1>19. CASE WakeInVain(n)
  BY <1>1, <1>3, <1>19, QuietStepTypes DEF WakeInVain
<1> QED
  BY <1>7, <1>8, <1>9, <1>10, <1>11, <1>12, <1>13, <1>14, <1>15, <1>16, <1>17, <1>18, <1>19
     DEF QuietStep

(* The steps of Step(n) that send a frame. *)
SendStep(n) ==
    \/ ReceivedPfm(n) \/ SendNoWait(n) \/ SendAndWait(n)
    \/ NextStationUnknown(n) \/ SendToken(n) \/ SoleMasterRestartMaintenancePfm(n)
    \/ ResetMaintenancePfm(n) \/ SendMaintenancePfm(n)
    \/ RetrySendToken(n) \/ FindNewSuccessor(n) \/ GenerateToken(n)
    \/ ReceivedReplyToPfm(n) \/ DoneWithPfm(n) \/ SendNextPfm(n)
    \/ Reply(n) \/ DeferredReply(n)

LEMMA SendStepTypes ==
  ASSUME Typed, NEW n \in Stations, SendStep(n)
  PROVE  Typed'
<1>1. PICK p \in Ports : p = st[n] /\ Usable(p)
  BY DEF Typed, TypeOK
<1>2. PICK q \in Ports : /\ p.rx # <<>> => q = Cleared(p)
                         /\ p.rx = <<>> => q = p
  BY ClearedPort
<1>3. n \in live
  BY DEF SendStep, ReceivedPfm, SendNoWait, SendAndWait, NextStationUnknown, SendToken,
         SoleMasterRestartMaintenancePfm, ResetMaintenancePfm, SendMaintenancePfm,
         RetrySendToken, FindNewSuccessor, GenerateToken, ReceivedReplyToPfm, DoneWithPfm,
         SendNextPfm, Reply, DeferredReply, Polling, Finished, Unanswered, Receives, Runs
<1>4. ASSUME NEW port \in Ports, NEW to \in Addresses, SendsPfm(n, port, to)
      PROVE  Typed'
  BY <1>3, <1>4, PfmTypes
<1>5. ASSUME NEW port \in Ports, SendsToken(n, port)
      PROVE  Typed'
  BY <1>3, <1>5, TokenTypes
<1>6. ASSUME NEW port \in Ports, port.state \notin {"AnswerDataRequest", "UseToken"},
             NEW type \in {"DER", "DNER", "ReplyToPFM", "ReplyPostponed"},
             NEW to \in Addresses \cup {Broadcast},
             SendsTo(n, port, type, to)
      PROVE  Typed'
  <2>1. [type |-> type, to |-> to, from |-> n] \in Frames
    BY FramesHaveTypes DEF FrameTypes, Data
  <2> QED
    BY <1>3, <1>6, <2>1, SendTypes DEF SendsTo, Usable
<1>7. /\ \A a \in Addresses : Succ(n, a) \in Addresses
      /\ n \in Addresses /\ p.next \in Addresses /\ p.poll \in Addresses
      /\ q.poll \in Addresses
  BY NextAddress, PortTypes, StationAssumption
<1>8. /\ 0 \in 0 .. Nretry_token /\ 0 \in 0 .. Npoll /\ 1 \in 0 .. Npoll
      /\ p.tokens < Npoll - 1 => \E tokens \in 0 .. Npoll : tokens = p.tokens + 1
      /\ p.retries < Nretry_token => \E retries \in 0 .. Nretry_token : retries = p.retries + 1
  <2>1. PICK tokens \in 0 .. Npoll, retries \in 0 .. Nretry_token :
           tokens = p.tokens /\ retries = p.retries
    BY PortTypes
  <2>2. /\ tokens < Npoll - 1 => tokens + 1 \in 0 .. Npoll
        /\ retries < Nretry_token => retries + 1 \in 0 .. Nretry_token
    BY TimeAssumption
  <2>3. /\ 0 \in 0 .. Nretry_token /\ 0 \in 0 .. Npoll /\ 1 \in 0 .. Npoll
    BY TimeAssumption
  <2> QED
    BY <2>1, <2>2, <2>3
<1>9. p.rx # <<>> => /\ Head(p.rx) \in AnyFrame
                     /\ Head(p.rx).from \in Addresses \cup {Broadcast}
                     /\ Head(p.rx).type # "Invalid" => Head(p.rx).from \in Addresses
  BY QueueOfPort, FramesHaveTypes DEF AnyFrame, Invalid
<1>10. CASE ReceivedPfm(n)
  <2>1. SendsTo(n, q, "ReplyToPFM", Head(p.rx).from) /\ p.rx # <<>> /\ p.state = "Idle"
    BY <1>1, <1>2, <1>10 DEF ReceivedPfm, Receives, Runs, Frame
  <2>2. q.state = "Idle"
    BY <1>2, <2>1, ClearedPort
  <2> QED
    BY <1>6, <1>9, <2>1, <2>2
<1>11. CASE SendNoWait(n) \/ SendAndWait(n)
  <2>1. p.state = "UseToken"
    BY <1>1, <1>11 DEF SendNoWait, SendAndWait, Runs
  <2>2. PICK frames \in 0 .. MaxFrames : frames = p.frames + 1
    <3>1. PICK before \in 0 .. MaxFrames : before = p.frames /\ before < MaxFrames
      BY <1>1, <2>1, PortTypes DEF Usable
    <3>2. before + 1 \in 0 .. MaxFrames
      BY <3>1, FrameCounts
    <3> QED
      BY <3>1, <3>2
  <2>3. /\ [p EXCEPT !.frames = frames, !.state = "DoneWithToken"] \in Ports
        /\ [p EXCEPT !.frames = frames, !.state = "DoneWithToken"].state = "DoneWithToken"
    BY DEF Ports, States
  <2>4. /\ [p EXCEPT !.frames = frames, !.state = "WaitForReply"] \in Ports
        /\ [p EXCEPT !.frames = frames, !.state = "WaitForReply"].state = "WaitForReply"
    BY DEF Ports, States
  <2>5. \/ SendsTo(n, [p EXCEPT !.frames = frames, !.state = "DoneWithToken"], "DNER", Broadcast)
        \/ \E m \in Stations :
              SendsTo(n, [p EXCEPT !.frames = frames, !.state = "WaitForReply"], "DER", m)
    BY <1>1, <1>11, <2>2 DEF SendNoWait, SendAndWait
  <2>6. \A m \in Stations : m \in Addresses
    BY AddressFacts
  <2> QED
    BY <1>6, <2>3, <2>4, <2>5, <2>6
<1>12. CASE NextStationUnknown(n) \/ SendMaintenancePfm(n)
  BY <1>1, <1>4, <1>7, <1>12 DEF NextStationUnknown, SendMaintenancePfm
<1>13. CASE SendToken(n)
  <2>1. SendsToken(n, [p EXCEPT !.tokens = @ + 1, !.retries = 0]) /\ p.tokens < Npoll - 1
    BY <1>1, <1>13 DEF SendToken
  <2>2. PICK tokens \in 0 .. Npoll : tokens = p.tokens + 1
    BY <1>8, <2>1
  <2>3. [p EXCEPT !.tokens = tokens, !.retries = 0] \in Ports
    BY <1>8 DEF Ports
  <2>4. SendsToken(n, [p EXCEPT !.tokens = tokens, !.retries = 0])
    BY <2>1, <2>2
  <2> QED
    BY <1>5, <2>3, <2>4
<1>14. CASE SoleMasterRestartMaintenancePfm(n)
  <2>1. [p EXCEPT !.next = n, !.tokens = 1] \in Ports
    BY <1>7, <1>8 DEF Ports
  <2>2. SendsPfm(n, [p EXCEPT !.next = n, !.tokens = 1], Succ(n, p.next))
    BY <1>1, <1>14 DEF SoleMasterRestartMaintenancePfm
  <2> QED
    BY <1>4, <1>7, <2>1, <2>2
<1>15. CASE ResetMaintenancePfm(n)
  <2>1. [p EXCEPT !.poll = n, !.tokens = 1, !.retries = 0] \in Ports
    BY <1>7, <1>8 DEF Ports
  <2>2. SendsToken(n, [p EXCEPT !.poll = n, !.tokens = 1, !.retries = 0])
    BY <1>1, <1>15 DEF ResetMaintenancePfm
  <2> QED
    BY <1>5, <2>1, <2>2
<1>16. CASE RetrySendToken(n)
  <2>1. SendsToken(n, [p EXCEPT !.retries = @ + 1]) /\ p.retries < Nretry_token
    BY <1>1, <1>16 DEF RetrySendToken
  <2>2. PICK retries \in 0 .. Nretry_token : retries = p.retries + 1
    BY <1>8, <2>1
  <2>3. [p EXCEPT !.retries = retries] \in Ports
    BY DEF Ports
  <2>4. SendsToken(n, [p EXCEPT !.retries = retries])
    BY <2>1, <2>2
  <2> QED
    BY <1>5, <2>3, <2>4
<1>17. CASE FindNewSuccessor(n) \/ GenerateToken(n)
  <2>1. [p EXCEPT !.next = n, !.tokens = 0] \in Ports
    BY <1>7, <1>8 DEF Ports
  <2>2. \/ SendsPfm(n, [p EXCEPT !.next = n, !.tokens = 0], Succ(n, p.next))
        \/ SendsPfm(n, [p EXCEPT !.next = n, !.tokens = 0], Succ(n, n))
    BY <1>1, <1>17 DEF FindNewSuccessor, GenerateToken
  <2> QED
    BY <1>4, <1>7, <2>1, <2>2
<1>18. CASE ReceivedReplyToPfm(n)
  <2>1. PICK next \in Addresses : next = Head(p.rx).from
    BY <1>1, <1>9, <1>18 DEF ReceivedReplyToPfm, Receives, Valid, Frame
  <2>2. [q EXCEPT !.sole = FALSE, !.next = next, !.poll = n, !.tokens = 0, !.retries = 0] \in Ports
    BY <1>7, <1>8 DEF Ports
  <2>3. SendsToken(n, [q EXCEPT !.sole = FALSE, !.next = next, !.poll = n, !.tokens = 0,
                                !.retries = 0])
    BY <1>1, <1>2, <1>18, <2>1 DEF ReceivedReplyToPfm, Receives, Frame
  <2> QED
    BY <1>5, <2>2, <2>3
<1>19. CASE DoneWithPfm(n)
  <2>1. [q EXCEPT !.retries = 0] \in Ports
    BY <1>8 DEF Ports
  <2>2. SendsToken(n, [q EXCEPT !.retries = 0])
    BY <1>1, <1>2, <1>19 DEF DoneWithPfm, AfterPoll
  <2> QED
    BY <1>5, <2>1, <2>2
<1>20. CASE SendNextPfm(n)
  BY <1>1, <1>2, <1>4, <1>7, <1>20 DEF SendNextPfm, AfterPoll
<1>21. CASE Reply(n) \/ DeferredReply(n)
  <2>1. p.state = "AnswerDataRequest" /\ p.rx # <<>>
    BY <1>1, <1>21 DEF Reply, DeferredReply, Runs, Usable
  <2>2. /\ [q EXCEPT !.state = "Idle"] \in Ports /\ [q EXCEPT !.state = "Idle"].state = "Idle"
    BY DEF Ports, States
  <2>3. \/ SendsTo(n, [q EXCEPT !.state = "Idle"], "DNER", Head(p.rx).from)
        \/ SendsTo(n, [q EXCEPT !.state = "Idle"], "ReplyPostponed", Head(p.rx).from)
    BY <1>1, <1>2, <1>21, <2>1 DEF Reply, DeferredReply, Frame
  <2> QED
    BY <1>6, <1>9, <2>1, <2>2, <2>3
<1> QED
  BY <1>10, <1>11, <1>12, <1>13, <1>14, <1>15, <1>16, <1>17, <1>18, <1>19, <1>20, <1>21
     DEF SendStep

LEMMA StepIsQuietOrSends ==
  ASSUME NEW n \in Stations, Step(n)
  PROVE  QuietStep(n) \/ SendStep(n)
  BY DEF Step, QuietStep, SendStep

(* Time passes until the first station has something to do. *)
LEMMA TickTime ==
  ASSUME Typed, Tick
  PROVE  \E t \in Nat \ {0} :
            /\ st' = [n \in Stations |-> IF n \in live THEN Elapse(n, t) ELSE st[n]]
            /\ \A n \in live :
                 /\ Sleep(n) # 0 => st[n].waited + t <= Sleep(n)
                 /\ Sleep(n) = 0 =>
                      /\ st[n].state = "WaitForReply" => st[n].silence + t <= Treply_timeout
                      /\ st[n].state \in {"PassToken", "PollForMaster"} =>
                            st[n].silence + t <= Tusage_timeout + 1
                      /\ st[n].state = "AnswerDataRequest" => st[n].silence + t <= Treply_delay + 1
<1> DEFINE End(n) == CASE st[n].state = "Idle" -> Tno_token
                       [] st[n].state = "WaitForReply" -> Treply_timeout
                       [] st[n].state \in {"PassToken", "PollForMaster"} -> Tusage_timeout + 1
                       [] st[n].state = "AnswerDataRequest" -> Treply_delay + 1
                       [] st[n].state = "NoToken" -> NoTokenSlot(n)
                       [] OTHER -> 0
           Left(n) == IF Sleep(n) # 0 THEN Sleep(n) - st[n].waited ELSE End(n) - st[n].silence
           times == UNION {Deadlines(n) : n \in live}
<1>1. ASSUME NEW n \in live
      PROVE  /\ n \in Stations /\ st[n] \in Ports
             /\ st[n].silence \in 0 .. Silent /\ st[n].waited \in 0 .. Tno_token
             /\ Sleep(n) \in 0 .. Tno_token /\ End(n) \in Nat
  <2>1. n \in Stations /\ st[n] \in Ports
    BY DEF Typed, TypeOK
  <2>2. NoTokenSlot(n) \in Nat /\ Tno_token \in Nat /\ Treply_timeout \in Nat
        /\ Tusage_timeout + 1 \in Nat /\ Treply_delay + 1 \in Nat
    BY <2>1, SilenceBounds, TimeAssumption
  <2>3. End(n) \in Nat
    BY <2>2
  <2> QED
    BY <2>1, <2>3, PortTypes, SleepValues
<1>2. ASSUME NEW n \in live
      PROVE  /\ Left(n) \in Int /\ Deadlines(n) = {Left(n)} \ Past
             /\ Left(n) >= -(Tno_token + Silent)
  <2>1. Deadlines(n) = {Left(n)} \ Past
    BY DEF Deadlines
  <2>2. PICK silence \in 0 .. Silent, waited \in 0 .. Tno_token, sleep \in 0 .. Tno_token, end \in Nat :
           /\ silence = st[n].silence /\ waited = st[n].waited
           /\ sleep = Sleep(n) /\ end = End(n)
    BY <1>1
  <2>3. /\ sleep - waited \in Int /\ sleep - waited >= -(Tno_token + Silent)
        /\ end - silence \in Int /\ end - silence >= -(Tno_token + Silent)
    BY TimeAssumption, SilenceBounds
  <2> HIDE DEF End
  <2> QED
    BY <2>1, <2>2, <2>3
<1>3. PICK t \in times :
        /\ \A u \in times : t <= u
        /\ st' = [n \in Stations |-> IF n \in live THEN Elapse(n, t) ELSE st[n]]
  BY DEF Tick
<1>4. ASSUME NEW u \in times
      PROVE  u \in Nat \ {0}
  <2>1. PICK n \in live : u = Left(n) /\ u \notin Past
    BY <1>2
  <2>2. u \in Int /\ u >= -(Tno_token + Silent)
    BY <1>2, <2>1
  <2> QED
    BY <2>1, <2>2, SilenceBounds, TimeAssumption DEF Past
<1>5. ASSUME NEW n \in live, Left(n) > 0
      PROVE  t <= Left(n)
  <2> HIDE DEF Left
  <2>1. Left(n) \notin Past
    BY <1>2, <1>5, SilenceBounds, TimeAssumption DEF Past
  <2>2. Left(n) \in times
    BY <1>2, <2>1
  <2> QED
    BY <1>3, <2>2
<1>6. ASSUME NEW n \in live, Sleep(n) # 0
      PROVE  st[n].waited + t <= Sleep(n)
  <2>1. ~(st[n].waited >= Sleep(n))
    BY <1>6 DEF Tick, Busy
  <2>2. PICK waited \in Int, sleep \in Int : waited = st[n].waited /\ sleep = Sleep(n)
    BY <1>1, TimeAssumption
  <2>3. Left(n) = sleep - waited
    BY <1>6, <2>2
  <2>4. waited < sleep
    BY <2>1, <2>2
  <2>5. t <= sleep - waited
    BY <1>5, <2>3, <2>4
  <2> QED
    BY <1>4, <2>2, <2>5
<1>7. ASSUME NEW n \in live, Sleep(n) = 0
      PROVE  /\ st[n].state = "WaitForReply" => st[n].silence + t <= Treply_timeout
             /\ st[n].state \in {"PassToken", "PollForMaster"} =>
                   st[n].silence + t <= Tusage_timeout + 1
             /\ st[n].state = "AnswerDataRequest" => st[n].silence + t <= Treply_delay + 1
  <2>1. ~TimedOut(n)
    BY <1>7 DEF Tick, Busy
  <2>2. PICK silence \in Int, end \in Int : silence = st[n].silence /\ end = End(n)
    BY <1>1, SilenceBounds
  <2>3. Left(n) = end - silence
    BY <1>7, <2>2
  <2>4. ASSUME st[n].state \in {"WaitForReply", "PassToken", "PollForMaster", "AnswerDataRequest"}
        PROVE  silence < end
    BY <2>1, <2>2, <2>4, TimeAssumption DEF TimedOut
  <2>5. ASSUME st[n].state \in {"WaitForReply", "PassToken", "PollForMaster", "AnswerDataRequest"}
        PROVE  silence + t <= end
    <3>1. t <= end - silence
      BY <1>5, <2>3, <2>4, <2>5
    <3> QED
      BY <1>4, <3>1
  <2> QED
    BY <2>2, <2>5
<1> QED
  BY <1>3, <1>4, <1>6, <1>7

LEMMA ElapsedPort ==
  ASSUME NEW n \in Stations, st[n] \in Ports, NEW t \in Nat,
         Sleep(n) # 0 => st[n].waited + t <= Sleep(n)
  PROVE  /\ Elapse(n, t) \in Ports
         /\ Elapse(n, t).state = st[n].state /\ Elapse(n, t).saw = st[n].saw
         /\ Elapse(n, t).rx = st[n].rx /\ Elapse(n, t).frames = st[n].frames
         /\ Elapse(n, t).silence = Capped(st[n].silence + t)
         /\ Sleep(n) # 0 => Elapse(n, t).waited = st[n].waited + t
<1>1. PICK silence \in 0 .. Silent : silence = Capped(st[n].silence + t)
  <2>1. PICK before \in 0 .. Silent : before = st[n].silence
    BY PortTypes
  <2> QED
    BY <2>1, SilenceBounds DEF Capped
<1>2. PICK waited \in 0 .. Tno_token : waited = IF Sleep(n) # 0 THEN st[n].waited + t ELSE 0
  <2>1. PICK before \in 0 .. Tno_token, sleep \in 0 .. Tno_token :
           before = st[n].waited /\ sleep = Sleep(n)
    BY PortTypes, SleepValues
  <2>2. before + t <= sleep => before + t \in 0 .. Tno_token
    BY TimeAssumption
  <2>3. 0 \in 0 .. Tno_token
    BY TimeAssumption
  <2> QED
    BY <2>1, <2>2, <2>3
<1> DEFINE port == [st[n] EXCEPT !.silence = silence, !.waited = waited]
<1>3. Elapse(n, t) = port
  BY <1>1, <1>2 DEF Elapse
<1>4. /\ port \in Ports
      /\ port.state = st[n].state /\ port.saw = st[n].saw
      /\ port.rx = st[n].rx /\ port.frames = st[n].frames
      /\ port.silence = silence /\ port.waited = waited
  BY DEF Ports
<1> HIDE DEF port
<1> QED
  BY <1>1, <1>2, <1>3, <1>4

LEMMA TickTypes ==
  ASSUME Typed, Tick
  PROVE  Typed'
<1>1. PICK t \in Nat \ {0} :
        /\ st' = [n \in Stations |-> IF n \in live THEN Elapse(n, t) ELSE st[n]]
        /\ \A n \in live : Sleep(n) # 0 => st[n].waited + t <= Sleep(n)
  BY TickTime
<1>2. live' = live /\ setup' = setup
  BY DEF Tick
<1>3. ASSUME NEW n \in Stations
      PROVE  st'[n] \in Ports /\ Usable(st'[n])
  <2>1. st[n] \in Ports /\ Usable(st[n])
    BY DEF Typed, TypeOK
  <2>2. CASE n \in live
    BY <1>1, <2>1, <2>2, ElapsedPort DEF Usable
  <2>3. CASE n \notin live
    BY <1>1, <2>1, <2>3
  <2> QED
    BY <2>2, <2>3
<1>4. TypeOK'
  BY <1>1, <1>2, <1>3 DEF Typed, TypeOK
<1>5. Stopped'
  BY <1>1, <1>2 DEF Typed, Stopped, Started
<1>6. (\A n \in Stations : Usable(st[n]))'
  BY <1>3 DEF Usable
<1> QED
  BY <1>4, <1>5, <1>6 DEF Typed

LEMMA FaultTypes ==
  ASSUME Typed, NEW n \in Stations, Fail(n) \/ Restart(n)
  PROVE  Typed'
<1>1. Started(n) \in Ports /\ Usable(Started(n))
  BY StartedPort DEF Usable, Started
<1>2. CASE Fail(n)
  <2>1. TypeOK'
    BY <1>1, <1>2 DEF Fail, Typed, TypeOK
  <2>2. Stopped'
    BY <1>2 DEF Fail, Typed, TypeOK, Stopped, Started
  <2>3. (\A m \in Stations : Usable(st[m]))'
    BY <1>1, <1>2 DEF Fail, Typed, TypeOK, Usable
  <2> QED
    BY <2>1, <2>2, <2>3 DEF Typed
<1>3. CASE Restart(n)
  BY <1>3 DEF Restart, Typed, TypeOK, Stopped, Usable, Started
<1> QED
  BY <1>2, <1>3

LEMMA TypedInvariance == Spec => []Typed
<1>1. Init => Typed
  <2> SUFFICES ASSUME Init
               PROVE  Typed
    OBVIOUS
  <2>1. \A n \in Stations : Started(n) \in Ports /\ Usable(Started(n))
    BY StartedPort DEF Usable, Started
  <2> QED
    BY <2>1 DEF Init, Typed, TypeOK, Stopped
<1>2. Typed /\ [Next]_vars => Typed'
  <2> SUFFICES ASSUME Typed, [Next]_vars
               PROVE  Typed'
    OBVIOUS
  <2>1. ASSUME NEW n \in Stations, Step(n)
        PROVE  Typed'
    BY <2>1, StepIsQuietOrSends, QuietTypes, SendStepTypes
  <2>2. ASSUME NEW n \in Stations, Fail(n) \/ Restart(n)
        PROVE  Typed'
    BY <2>2, FaultTypes
  <2>3. CASE Tick
    BY <2>3, TickTypes
  <2>4. CASE UNCHANGED vars
    BY <2>4 DEF vars, Typed, TypeOK, Stopped, Usable, Started
  <2> QED
    BY <2>1, <2>2, <2>3, <2>4 DEF Next
<1> QED
  BY <1>1, <1>2, PTL DEF Spec

(* The ports keep their types: the tokens, retries and frames counted stay *)
(* within bounds for any stations and any timeouts.                        *)
THEOREM TypeCorrect == Spec => []TypeOK
<1>1. Typed => TypeOK
  BY DEF Typed
<1> QED
  BY <1>1, TypedInvariance, PTL

-----------------------------------------------------------------------------
(* Who may be in one exchange with whom. *)

LEMMA LivePort ==
  ASSUME Typed, NEW n \in live
  PROVE  /\ n \in Stations /\ st[n] \in Ports
         /\ st[n].silence \in 0 .. Silent /\ st[n].silence \in Int
         /\ st[n].waited \in 0 .. Tno_token /\ st[n].waited \in Int
         /\ st[n].state \in States /\ st[n].saw \in BOOLEAN
<1>1. n \in Stations /\ st[n] \in Ports
  BY DEF Typed, TypeOK
<1>2. /\ st[n].silence \in 0 .. Silent /\ st[n].waited \in 0 .. Tno_token
      /\ st[n].state \in States /\ st[n].saw \in BOOLEAN
  BY <1>1, PortTypes
<1> QED
  BY <1>1, <1>2

(* A station that has a frame to act on has heard it just now, and so has  *)
(* everybody else.                                                         *)
LEMMA CalledJustNow ==
  ASSUME Typed, Orderly, NEW m \in live, NEW type, Called(m, st[m], type), NEW n \in live
  PROVE  st[m].silence = 0 /\ st[n].silence = 0
<1>1. st[m].silence = 0 /\ st[n].silence <= st[m].silence
  BY DEF Orderly, OneFrame, Called, Longest
<1>2. PICK silence \in 0 .. Silent : silence = st[n].silence
  BY LivePort
<1> QED
  BY <1>1, <1>2, SilenceBounds

(* Whoever is inactive and has nothing to do listens. *)
LEMMA InactiveListens ==
  ASSUME Typed, Orderly, NEW m \in live, ~Active(m, st[m]), ~Handles(m)
  PROVE  st[m].rx = <<>> /\ st[m].state \in {"Idle", "NoToken"}
<1>1. st[m].state \in States /\ st[m].state \notin Holding \cup {"AnswerDataRequest", "Initialize"}
      /\ st[m].saw \in BOOLEAN
  BY LivePort DEF Active, Handles
<1>2. st[m].state # "PassToken"
  BY <1>1 DEF Active, Passing, Handles
<1>3. CASE st[m].state = "NoToken"
  <2>1. ~st[m].saw
    BY <1>3 DEF Handles
  <2> QED
    BY <1>3, <2>1 DEF Orderly, OneFrame
<1>4. CASE st[m].state = "Idle" /\ st[m].rx # <<>>
  <2>1. Frame(m).type = "PFM" /\ ForUs(m)
    BY <1>4 DEF Handles
  <2>2. Head(st[m].rx).to = m
    BY <1>4, <2>1 DEF Orderly, OneFrame, Frame, ForUs
  <2> QED
    BY <1>4, <2>1, <2>2 DEF Active, Called, Frame
<1> QED
  BY <1>1, <1>2, <1>3, <1>4 DEF Holding, States

(* The wait for the other end of the exchange is over: by a frame, by the  *)
(* silence, or as nobody has had a token for so long.                      *)
WaitIsOver(n) ==
    \/ st[n].state \in {"WaitForReply", "PollForMaster"} /\ (TimedOut(n) \/ st[n].rx # <<>>)
    \/ st[n].state = "PassToken" /\ TimedOut(n)
    \/ st[n].state = "NoToken" /\ InSlot(n)

LEMMA NobodyElse ==
  ASSUME Typed, Orderly, NEW n \in live, WaitIsOver(n), NEW m \in live, m # n
  PROVE  ~Active(m, st[m])
<1> SUFFICES ASSUME Active(m, st[m])
             PROVE  FALSE
  OBVIOUS
<1>1. PICK silence \in Int, other \in Int : silence = st[n].silence /\ other = st[m].silence
  BY LivePort
<1>2. silence <= other
  BY <1>1 DEF Orderly, Longest
<1>3. InTime(m, st[m]) /\ OneFrame(st[m]) /\ InTime(n, st[n]) /\ OneFrame(st[n])
  BY DEF Orderly
<1>4. ASSUME NEW type, Called(m, st[m], type)
      PROVE  silence = 0
  BY <1>1, <1>4, CalledJustNow
<1>5. CASE st[n].state = "NoToken"
  <2>1. silence >= Tno_token
    <3>1. NoTokenSlot(n) <= silence
      BY <1>1, <1>5 DEF WaitIsOver, InSlot
    <3>2. NoTokenSlot(n) \in Nat /\ NoTokenSlot(n) >= Tno_token
      BY LivePort, SilenceBounds
    <3> QED
      BY <3>1, <3>2, TimeAssumption
  <2>2. other < Tno_token
    <3>1. CASE st[m].state \in {"UseToken", "DoneWithToken"}
      BY <1>1, <1>3, <3>1 DEF InTime
    <3>2. CASE st[m].state = "WaitForReply"
      BY <1>1, <1>3, <3>2, TimeAssumption DEF InTime
    <3>3. CASE st[m].state = "PollForMaster"
      <4>1. PICK waited \in Int : waited = st[m].waited
        BY LivePort
      <4>2. other <= Tusage_timeout + 1 \/ (other <= waited + Tusage_timeout /\ waited <= Tusage_timeout)
        BY <1>1, <1>3, <3>3, <4>1 DEF InTime
      <4> QED
        BY <4>2, TimeAssumption
    <3>4. CASE st[m].state = "AnswerDataRequest"
      BY <1>1, <1>3, <3>4, TimeAssumption DEF InTime
    <3>5. CASE st[m].state = "PassToken"
      BY <1>1, <1>3, <3>5, TimeAssumption DEF InTime
    <3>6. CASE \E type \in {"Token", "PFM", "DER"} : Called(m, st[m], type)
      BY <1>1, <3>6, CalledJustNow, TimeAssumption
    <3> QED
      BY <3>1, <3>2, <3>3, <3>4, <3>5, <3>6 DEF Active, Holding, Passing
  <2> QED
    BY <1>2, <2>1, <2>2, TimeAssumption
<1>6. CASE st[n].state = "PassToken"
  <2>1. silence > Tusage_timeout
    BY <1>1, <1>6 DEF WaitIsOver, TimedOut
  <2>2. silence # 0
    BY <2>1, TimeAssumption
  <2>3. Passing(st[n])
    BY <1>1, <1>3, <1>6, <2>2 DEF OneFrame, Passing
  <2>4. Fits(st[n], m, st[m]) \/ Fits(st[m], n, st[n])
    BY <2>3 DEF Orderly, OneExchange, Active
  <2>5. Called(m, st[m], "Token") \/ st[n].silence = 0
    BY <1>3, <1>6, <2>2, <1>1, <2>4 DEF Fits, Called, OneFrame
  <2> QED
    BY <1>1, <1>4, <2>2, <2>5
<1>7. CASE st[n].state \in {"WaitForReply", "PollForMaster"}
  <2>1. Fits(st[n], m, st[m]) \/ Fits(st[m], n, st[n])
    BY <1>7 DEF Orderly, OneExchange, Active, Holding
  <2>2. ~Fits(st[m], n, st[n])
    BY <1>7 DEF Fits, Called, Passing
  <2>3. /\ st[n].rx = <<>>
        /\ \/ Called(m, st[m], "PFM")
           \/ Called(m, st[m], "DER")
           \/ st[n].state = "WaitForReply" /\ st[m].state = "AnswerDataRequest"
    BY <1>7, <2>1, <2>2 DEF Fits, Passing
  <2>4. TimedOut(n)
    BY <1>7, <2>3 DEF WaitIsOver
  <2>5. /\ silence # 0
        /\ st[n].state = "WaitForReply" => silence >= Treply_timeout
    BY <1>1, <1>7, <2>4, TimeAssumption DEF TimedOut
  <2>6. st[m].state = "AnswerDataRequest" => other <= Treply_delay + 1
    BY <1>1, <1>3 DEF InTime
  <2> QED
    BY <1>2, <1>4, <2>3, <2>5, <2>6, TimeAssumption
<1> QED
  BY <1>5, <1>6, <1>7 DEF WaitIsOver

(* A station that sends on its own account has no frame, or has just taken *)
(* the only one, and everybody else listens for what it sends.             *)
LEMMA TurnIsHeard ==
  ASSUME Typed, Orderly, NEW n \in live, NEW m \in live, m # n, ~Handles(m),
         \/ WaitIsOver(n) \/ st[n].state \in {"UseToken", "DoneWithToken"}
  PROVE  st[m].rx = <<>> /\ st[m].state \in {"Idle", "NoToken", "PassToken"}
<1>1. CASE ~Active(m, st[m])
  BY <1>1, InactiveListens
<1>2. CASE Active(m, st[m])
  <2>1. st[n].state \in {"UseToken", "DoneWithToken"}
    BY <1>2, NobodyElse
  <2>2. Fits(st[n], m, st[m]) \/ Fits(st[m], n, st[n])
    BY <1>2, <2>1 DEF Orderly, OneExchange, Active, Holding
  <2>3. Passing(st[m])
    BY <2>1, <2>2 DEF Fits, Passing, Called
  <2> QED
    BY <2>3 DEF Orderly, OneFrame, Passing
<1> QED
  BY <1>1, <1>2

(* A station that answers is heard by everybody else, too. *)
LEMMA AnswerIsHeard ==
  ASSUME Typed, Orderly, NEW n \in live, NEW m \in live, m # n, ~Handles(m),
         \/ st[n].state = "Idle" /\ Called(n, st[n], "PFM")
         \/ st[n].state = "AnswerDataRequest"
  PROVE  /\ st[m].rx = <<>>
         /\ st[m].state \in {"Idle", "NoToken", "PassToken", "WaitForReply", "PollForMaster"}
<1>1. CASE ~Active(m, st[m])
  BY <1>1, InactiveListens
<1>2. CASE Active(m, st[m])
  <2>1. Fits(st[n], m, st[m]) \/ Fits(st[m], n, st[n])
    BY <1>2 DEF Orderly, OneExchange, Active
  <2>2. ~Fits(st[n], m, st[m])
    BY DEF Fits, Passing
  <2>3. ~Passing(st[n]) /\ ~Called(n, st[n], "Token")
    BY DEF Passing, Called
  <2> QED
    BY <2>1, <2>2, <2>3 DEF Fits
<1> QED
  BY <1>1, <1>2

-----------------------------------------------------------------------------
(* The exchange goes on. *)

(* A step of n that sends nothing. *)
LEMMA QuietStepOrderly ==
  ASSUME Typed, Orderly, NEW n \in live, NEW port \in Ports, Becomes(n, port),
         port.silence = st[n].silence, OneFrame(port), InTime(n, [port EXCEPT !.waited = 0]),
         Active(n, port) \/ port.rx # <<>> => Longest(n),
         \A m \in live : m # n /\ Active(n, port) /\ Active(m, st[m]) =>
             Fits(port, m, st[m]) \/ Fits(st[m], n, port)
  PROVE  Orderly'
<1>1. n \in Stations /\ st \in [Stations -> Ports] /\ live \subseteq Stations
  BY LivePort DEF Typed, TypeOK
<1> DEFINE next == [port EXCEPT !.waited = 0]
<1>2. /\ next.state = port.state /\ next.rx = port.rx /\ next.saw = port.saw
      /\ next.silence = port.silence
  BY DEF Ports
<1>3. st' = [st EXCEPT ![n] = next] /\ live' = live /\ setup' = setup
  BY DEF Becomes
<1>4. InTime(n, next)
  OBVIOUS
<1> HIDE DEF next
<1>5. st'[n] = next /\ \A m \in live : m # n => st'[m] = st[m]
  BY <1>1, <1>3
<1>6. \A m \in live : st'[m].silence = st[m].silence
  BY <1>2, <1>5
<1>7. ASSUME NEW m \in live
      PROVE  OneFrame(st'[m]) /\ InTime(m, st'[m])
  <2>1. CASE m = n
    BY <1>2, <1>4, <1>5, <2>1 DEF OneFrame
  <2>2. CASE m # n
    BY <1>5, <2>2 DEF Orderly
  <2> QED
    BY <2>1, <2>2
<1>8. ASSUME NEW m \in live, Active(m, st'[m]) \/ st'[m].rx # <<>>
      PROVE  \A k \in live : st'[k].silence <= st'[m].silence
  <2>1. CASE m = n
    <3>1. Active(n, port) \/ port.rx # <<>>
      BY <1>2, <1>5, <1>8, <2>1 DEF Active, Passing, Called
    <3> QED
      BY <1>6, <2>1, <3>1 DEF Longest
  <2>2. CASE m # n
    <3>1. Longest(m)
      BY <1>5, <1>8, <2>2 DEF Orderly
    <3> QED
      BY <1>6, <3>1 DEF Longest
  <2> QED
    BY <2>1, <2>2
<1>9. ASSUME NEW k \in live, NEW m \in live, k # m, Active(k, st'[k]), Active(m, st'[m])
      PROVE  Fits(st'[k], m, st'[m]) \/ Fits(st'[m], k, st'[k])
  <2>1. ASSUME NEW a
        PROVE  /\ Active(a, next) = Active(a, port)
               /\ \A b, q : Fits(next, b, q) = Fits(port, b, q) /\ Fits(q, b, next) = Fits(q, b, port)
    BY <1>2 DEF Active, Fits, Passing, Called
  <2>2. CASE k # n /\ m # n
    BY <1>5, <1>9, <2>2 DEF Orderly, OneExchange
  <2>3. CASE k = n
    BY <1>5, <1>9, <2>1, <2>3
  <2>4. CASE m = n
    BY <1>5, <1>9, <2>1, <2>4
  <2> QED
    BY <2>2, <2>3, <2>4
<1>10. (\A m \in live : OneFrame(st[m]) /\ InTime(m, st[m]))'
  BY <1>3, <1>7
<1>11. (\A m \in live : Active(m, st[m]) \/ st[m].rx # <<>> => Longest(m))'
  BY <1>3, <1>8 DEF Longest
<1>12. OneExchange'
  BY <1>3, <1>9 DEF OneExchange
<1> QED
  BY <1>10, <1>11, <1>12 DEF Orderly

(* What a station does that sends f on its own account, and what one does  *)
(* that answers.                                                           *)
Takes(port, f) ==
    \/ Passing(port) /\ f.type = "Token"
    \/ port.state = "PollForMaster" /\ f.type = "PFM"
    \/ port.state = "WaitForReply" /\ f.type = "DER"
    \/ port.state = "DoneWithToken" /\ f.type = "DNER"
Answers(port, f) ==
    port.state = "Idle" /\ f.type \in {"ReplyToPFM", "DNER", "ReplyPostponed"}

(* A step of n that sends f, which everybody else hears. *)
LEMMA SendOrderly ==
  ASSUME Typed, Orderly, NEW n \in live, NEW port \in Ports, NEW f \in Frames,
         Sends(n, port, f), port.rx = <<>>, f.type = "PFM" => f.to # Broadcast,
         \A m \in live \ {n} : st[m].rx = <<>>,
         \/ /\ Takes(port, f)
            /\ \A m \in live \ {n} : st[m].state \in {"Idle", "NoToken", "PassToken"}
         \/ /\ Answers(port, f)
            /\ \A m \in live \ {n} :
                 st[m].state \in {"Idle", "NoToken", "PassToken", "WaitForReply", "PollForMaster"}
  PROVE  Orderly'
<1>1. n \in Stations /\ st \in [Stations -> Ports] /\ live \subseteq Stations
  BY LivePort DEF Typed, TypeOK
<1> DEFINE next == [port EXCEPT !.silence = 0, !.waited = 0]
<1>2. /\ next.state = port.state /\ next.rx = <<>> /\ next.saw = port.saw
      /\ next.silence = 0 /\ next.waited = 0
  BY DEF Ports
<1>3. PICK g \in AnyFrame :
         /\ g \in {f, Invalid}
         /\ st' = [m \in Stations |-> IF m = n THEN next ELSE Hear(m, g)]
         /\ live' = live
  BY DEF Sends, AnyFrame
<1> HIDE DEF next
<1>4. g.type \in {f.type, "Invalid"} /\ (g.type = "PFM" => g.to # Broadcast)
  BY <1>3 DEF Invalid
<1>5. ASSUME NEW m \in live, m # n
      PROVE  /\ st'[m] \in Ports /\ st'[m].state = st[m].state /\ st'[m].silence = 0
             /\ st'[m].saw = (st[m].saw \/ st[m].state \in {"PassToken", "NoToken"})
             /\ st'[m].rx \in {<<>>, Append(<<>>, g)}
             /\ st'[m].waited <= Sleep(m)
  <2>1. st[m] \in Ports /\ m \in Stations /\ st[m].rx = <<>>
    BY <1>1, <1>5
  <2>2. st'[m] = Hear(m, g)
    BY <1>1, <1>3, <1>5
  <2> DEFINE h == Hear(m, g)
  <2>3. /\ h \in Ports /\ h.state = st[m].state /\ h.waited <= Sleep(m)
        /\ h.rx \in {st[m].rx, Append(st[m].rx, g)}
    BY <1>5, <2>1, Heard
  <2>4. /\ h.silence = 0
        /\ h.saw = (st[m].saw \/ st[m].state \in {"PassToken", "NoToken"})
    BY <1>5, <2>1, Heard
  <2> HIDE DEF h
  <2>5. h.rx \in {<<>>, Append(<<>>, g)}
    BY <2>1, <2>3
  <2>6. st'[m] = h
    BY <2>2 DEF h
  <2> QED
    BY <2>3, <2>4, <2>5, <2>6
<1>6. st'[n] = next
  BY <1>1, <1>3
<1>7. /\ Len(<<>>) = 0 /\ Append(<<>>, g) # <<>>
      /\ Len(Append(<<>>, g)) = 1 /\ Head(Append(<<>>, g)) = g
  <2>1. <<>> \in Seq(AnyFrame) /\ Len(<<>>) = 0
    BY EmptySeq
  <2> QED
    BY <2>1, AppendProperties, HeadTailAppend
<1>8. ASSUME NEW m \in live, m # n
      PROVE  /\ OneFrame(st'[m]) /\ InTime(m, st'[m])
             /\ ~Passing(st'[m])
             /\ \A type \in {"Token", "PFM", "DER"} :
                   Called(m, st'[m], type) => g.type = type /\ g.to = m
             /\ Active(m, st'[m]) =>
                   \/ st[m].state \in {"WaitForReply", "PollForMaster"}
                   \/ \E type \in {"Token", "PFM", "DER"} : Called(m, st'[m], type)
  <2>1. st[m].state \in {"Idle", "NoToken", "PassToken", "WaitForReply", "PollForMaster"}
    BY <1>8
  <2>2. OneFrame(st'[m])
    <3>1. PICK p : p = st'[m]
      OBVIOUS
    <3>2. /\ p.state = st[m].state /\ p.silence = 0
          /\ st[m].state = "NoToken" => p.saw
          /\ p.rx = <<>> \/ p.rx = Append(<<>>, g)
      BY <1>5, <1>8, <3>1
    <3>3. Len(p.rx) <= 1 /\ (p.rx # <<>> => Head(p.rx) = g)
      <4>1. p.rx # <<>> => Head(p.rx) = g
        BY <1>7, <3>2
      <4>2. PICK length \in {0, 1} : length = Len(p.rx)
        BY <1>7, <3>2
      <4>3. length <= 1
        OBVIOUS
      <4> QED
        BY <4>1, <4>2, <4>3
    <3>4. p.rx # <<>> /\ p.state = "PassToken" => p.saw
      BY <1>5, <1>8, <3>1
    <3>5. OneFrame(p)
      BY <1>4, <2>1, <3>2, <3>3, <3>4 DEF OneFrame
    <3> QED
      BY <3>1, <3>5
  <2>3. ~Passing(st'[m])
    BY <1>5, <1>8 DEF Passing
  <2>4. InTime(m, st'[m])
    <3>1. st'[m].waited \in Nat
      BY <1>5, <1>8, PortTypes, TimeAssumption
    <3>2. m = T3000 /\ st[m].state = "PollForMaster" => Sleep(m) = Tusage_timeout
      BY <1>1, SleepValues
    <3>3. PICK waited \in Nat : waited = st'[m].waited
      BY <3>1
    <3>4. st'[m].silence = 0 /\ st'[m].state = st[m].state
      BY <1>5, <1>8
    <3>5. m = T3000 /\ st'[m].state = "PollForMaster" =>
             0 <= waited + Tusage_timeout /\ waited <= Tusage_timeout
      <4>1. waited <= Sleep(m)
        BY <1>5, <1>8, <3>3
      <4>2. PICK usage \in Nat : usage = Tusage_timeout
        BY TimeAssumption
      <4>3. m = T3000 /\ st'[m].state = "PollForMaster" => waited <= usage
        BY <3>2, <3>4, <4>1, <4>2
      <4> QED
        BY <4>2, <4>3
    <3>6. /\ 0 <= Treply_timeout /\ 0 <= Tusage_timeout + 1 /\ 0 < Tno_token
          /\ 0 <= Treply_delay + 1
      BY TimeAssumption
    <3> QED
      BY <3>3, <3>4, <3>5, <3>6 DEF InTime
  <2>5. \A type \in {"Token", "PFM", "DER"} :
           Called(m, st'[m], type) => g.type = type /\ g.to = m
    BY <1>5, <1>7, <1>8 DEF Called
  <2>6. Active(m, st'[m]) =>
           \/ st[m].state \in {"WaitForReply", "PollForMaster"}
           \/ \E type \in {"Token", "PFM", "DER"} : Called(m, st'[m], type)
    BY <1>5, <1>8, <2>1, <2>3 DEF Active, Holding
  <2> QED
    BY <2>2, <2>3, <2>4, <2>5, <2>6
<1>9. OneFrame(st'[n]) /\ InTime(n, st'[n])
  <2>1. OneFrame(next)
    BY <1>2, <1>7 DEF OneFrame
  <2>2. InTime(n, next)
    BY <1>2, TimeAssumption DEF InTime
  <2> QED
    BY <1>6, <2>1, <2>2
<1>10. \A k, m \in live : st'[k].silence <= st'[m].silence
  <2>1. \A m \in live : st'[m].silence = 0
    BY <1>2, <1>5, <1>6
  <2> QED
    BY <2>1
<1>11. ASSUME NEW m \in live, m # n, Active(n, st'[n]), Active(m, st'[m])
       PROVE  Fits(st'[n], m, st'[m])
  <2>1. Takes(port, f) /\ st[m].state \in {"Idle", "NoToken", "PassToken"}
    BY <1>2, <1>6, <1>11 DEF Answers, Active, Passing, Holding, Called
  <2>2. PICK type \in {"Token", "PFM", "DER"} : Called(m, st'[m], type)
    BY <1>8, <1>11, <2>1
  <2>3. f.type = type
    BY <1>4, <1>8, <1>11, <2>2
  <2> QED
    BY <1>2, <1>6, <2>1, <2>2, <2>3 DEF Takes, Fits, Passing
<1>12. ASSUME NEW k \in live, NEW m \in live, k # m, k # n, m # n,
              Active(k, st'[k]), Active(m, st'[m])
       PROVE  FALSE
  <2>1. CASE Takes(port, f)
    <3>1. st[k].state \notin {"WaitForReply", "PollForMaster"}
          /\ st[m].state \notin {"WaitForReply", "PollForMaster"}
      BY <1>12, <2>1 DEF Takes, Answers, Passing
    <3> QED
      BY <1>8, <1>12, <3>1
  <2>2. CASE Answers(port, f)
    <3>1. g.type \notin {"Token", "PFM", "DER"}
      BY <1>4, <2>2 DEF Answers
    <3>2. /\ st[k].state \in {"WaitForReply", "PollForMaster"}
          /\ st[m].state \in {"WaitForReply", "PollForMaster"}
      BY <1>8, <1>12, <3>1
    <3>3. Fits(st[k], m, st[m]) \/ Fits(st[m], k, st[k])
      BY <1>12, <3>2 DEF Orderly, OneExchange, Active, Holding
    <3> QED
      BY <3>2, <3>3 DEF Fits, Passing, Called
  <2> QED
    BY <2>1, <2>2
<1> live' = live
  BY <1>3
<1>13. (\A m \in live : OneFrame(st[m]) /\ InTime(m, st[m]))'
  BY <1>8, <1>9
<1>14. (\A m \in live : Active(m, st[m]) \/ st[m].rx # <<>> => Longest(m))'
  BY <1>10 DEF Longest
<1>15. OneExchange'
  <2>1. ASSUME NEW k \in live, NEW m \in live, k # m, Active(k, st'[k]), Active(m, st'[m])
        PROVE  Fits(st'[k], m, st'[m]) \/ Fits(st'[m], k, st'[k])
    BY <1>11, <1>12, <2>1
  <2> QED
    BY <2>1 DEF OneExchange
<1> QED
  BY <1>13, <1>14, <1>15 DEF Orderly

(* The port of a station without its frame. *)
LEMMA EmptiedPort ==
  ASSUME Typed, Orderly, NEW n \in live
  PROVE  \E q \in Ports :
            /\ q = IF st[n].rx = <<>> THEN st[n] ELSE Cleared(st[n])
            /\ q.rx = <<>> /\ q.state = st[n].state /\ q.silence = st[n].silence
            /\ q.saw = st[n].saw /\ q.waited = st[n].waited
<1>1. st[n] \in Ports /\ Len(st[n].rx) <= 1
  BY LivePort DEF Orderly, OneFrame
<1>2. CASE st[n].rx = <<>>
  BY <1>1, <1>2
<1>3. CASE st[n].rx # <<>>
  <2>1. Cleared(st[n]) = [st[n] EXCEPT !.rx = <<>>] /\ Cleared(st[n]) \in Ports
    BY <1>1, <1>3, ClearedPort
  <2>2. LET q == [st[n] EXCEPT !.rx = <<>>]
        IN  /\ q.rx = <<>> /\ q.state = st[n].state /\ q.silence = st[n].silence
            /\ q.saw = st[n].saw /\ q.waited = st[n].waited
    BY <1>1 DEF Ports
  <2> QED
    BY <1>3, <2>1, <2>2
<1> QED
  BY <1>2, <1>3

(* A station that ends inactive disturbs nobody. *)
LEMMA RestsOrderly ==
  ASSUME Typed, Orderly, NEW n \in live, NEW port \in Ports, Becomes(n, port),
         port.silence = st[n].silence, port.rx = <<>>, port.state \in {"Idle", "NoToken"}
  PROVE  Orderly'
<1>1. OneFrame(port)
  <2>1. Len(port.rx) = 0
    BY EmptySeq
  <2> QED
    BY <2>1 DEF OneFrame
<1>2. InTime(n, [port EXCEPT !.waited = 0])
  <2>1. [port EXCEPT !.waited = 0].state = port.state
    BY DEF Ports
  <2> QED
    BY <2>1 DEF InTime
<1>3. ~Active(n, port)
  BY DEF Active, Holding, Passing, Called
<1> QED
  BY <1>1, <1>2, <1>3, QuietStepOrderly

(* A station that comes to use the token, with the one that passed it to it *)
(* or alone.                                                                *)
LEMMA UsesOrderly ==
  ASSUME Typed, Orderly, NEW n \in live, NEW port \in Ports, Becomes(n, port),
         port.silence = st[n].silence, port.silence < Tno_token, port.rx = <<>>,
         port.state \in {"UseToken", "DoneWithToken"}, Longest(n),
         \A m \in live : m # n /\ Active(m, st[m]) => Passing(st[m]) /\ st[m].silence = 0
  PROVE  Orderly'
<1>1. OneFrame(port)
  <2>1. Len(port.rx) = 0
    BY EmptySeq
  <2> QED
    BY <2>1 DEF OneFrame
<1>2. InTime(n, [port EXCEPT !.waited = 0])
  <2>1. /\ [port EXCEPT !.waited = 0].state = port.state
        /\ [port EXCEPT !.waited = 0].silence = port.silence
    BY DEF Ports
  <2> QED
    BY <2>1 DEF InTime
<1>3. ASSUME NEW m \in live, m # n, Active(m, st[m])
      PROVE  Fits(port, m, st[m])
  BY <1>3 DEF Fits
<1> QED
  BY <1>1, <1>2, <1>3, QuietStepOrderly

(* The end of a wait comes before anybody makes a token. *)
LEMMA EndsInTime ==
  ASSUME Typed, Orderly, NEW n \in live,
         st[n].state \in {"UseToken", "DoneWithToken", "WaitForReply", "PollForMaster"}
  PROVE  st[n].silence < Tno_token
<1>1. PICK silence \in Int, waited \in Int : silence = st[n].silence /\ waited = st[n].waited
  BY LivePort
<1>2. \/ silence < Tno_token \/ silence <= Treply_timeout \/ silence <= Tusage_timeout + 1
      \/ silence <= waited + Tusage_timeout /\ waited <= Tusage_timeout
  BY <1>1 DEF Orderly, InTime
<1> QED
  BY <1>1, <1>2, TimeAssumption

LEMMA QuietOrderly ==
  ASSUME Typed, Orderly, NEW n \in live, QuietStep(n)
  PROVE  Orderly'
<1>1. PICK p \in Ports : p = st[n] /\ n \in Stations
  BY LivePort
<1>2. PICK q \in Ports :
        /\ q = IF p.rx = <<>> THEN p ELSE Cleared(p)
        /\ q.rx = <<>> /\ q.state = p.state /\ q.silence = p.silence
        /\ q.saw = p.saw /\ q.waited = p.waited
  BY <1>1, EmptiedPort
<1>3. OneFrame(p) /\ InTime(n, p) /\ (Active(n, p) \/ p.rx # <<>> => Longest(n))
  BY <1>1 DEF Orderly
<1>4. ASSUME NEW port \in Ports, Becomes(n, port), port.silence = p.silence, port.rx = <<>>,
             port.state \in {"Idle", "NoToken"}
      PROVE  Orderly'
  BY <1>1, <1>4, RestsOrderly
<1>5. ASSUME NEW port \in Ports, Becomes(n, port), port.silence = p.silence, port.rx = <<>>,
             port.state \in {"UseToken", "DoneWithToken"},
             WaitIsOver(n), p.state \in {"WaitForReply", "PollForMaster"}
      PROVE  Orderly'
  <2>1. Longest(n) /\ port.silence < Tno_token
    BY <1>1, <1>3, <1>5, EndsInTime DEF Active, Holding
  <2>2. \A m \in live : m # n => ~Active(m, st[m])
    BY <1>5, NobodyElse
  <2> QED
    BY <1>1, <1>5, <2>1, <2>2, UsesOrderly
<1>6. ASSUME NEW port \in Ports, Becomes(n, port), port.silence = p.silence, port.rx = p.rx,
             port.state \in {"UseToken", "DoneWithToken"},
             p.state \in {"UseToken", "DoneWithToken"}
      PROVE  Orderly'
  <2>1. Longest(n) /\ port.silence < Tno_token /\ port.rx = <<>>
    BY <1>1, <1>3, <1>6, EndsInTime DEF Active, Holding, OneFrame
  <2>2. ASSUME NEW m \in live, m # n, Active(m, st[m])
        PROVE  Passing(st[m]) /\ st[m].silence = 0
    <3>1. Fits(st[n], m, st[m]) \/ Fits(st[m], n, st[n])
      BY <1>1, <1>6, <2>2 DEF Orderly, OneExchange, Active, Holding
    <3> QED
      BY <1>1, <1>6, <3>1 DEF Fits, Passing, Called
  <2> QED
    BY <1>1, <1>6, <2>1, <2>2, UsesOrderly
<1>7. CASE Initialize(n)
  <2> DEFINE first == IF n = T3000 THEN setup.node ELSE n
             port == [p EXCEPT !.next = first, !.poll = first, !.tokens = Npoll,
                               !.sole = FALSE, !.state = "Idle"]
  <2>1. Becomes(n, port) /\ p.state = "Initialize"
    BY <1>1, <1>7 DEF Initialize, Runs
  <2>2. PICK a \in Addresses, tokens \in 0 .. Npoll : a = first /\ tokens = Npoll
    <3>1. /\ n \in Addresses /\ setup.node \in Addresses
          /\ Npoll \in 0 .. Npoll
      BY <1>1, NextAddress, TimeAssumption
    <3> QED
      BY <3>1
  <2>3. p.rx = <<>>
    BY <1>3, <2>1 DEF OneFrame
  <2>4. /\ [p EXCEPT !.next = a, !.poll = a, !.tokens = tokens,
                     !.sole = FALSE, !.state = "Idle"] \in Ports
        /\ [p EXCEPT !.next = a, !.poll = a, !.tokens = tokens,
                     !.sole = FALSE, !.state = "Idle"].state = "Idle"
        /\ [p EXCEPT !.next = a, !.poll = a, !.tokens = tokens,
                     !.sole = FALSE, !.state = "Idle"].rx = p.rx
        /\ [p EXCEPT !.next = a, !.poll = a, !.tokens = tokens,
                     !.sole = FALSE, !.state = "Idle"].silence = p.silence
    BY DEF Ports, States
  <2> QED
    BY <1>4, <2>1, <2>2, <2>3, <2>4
<1>8. CASE LostToken(n)
  <2>1. Becomes(n, [q EXCEPT !.saw = FALSE, !.state = "NoToken"])
    BY <1>1, <1>2, <1>8 DEF LostToken
  <2>2. LET port == [q EXCEPT !.saw = FALSE, !.state = "NoToken"]
        IN  port \in Ports /\ port.state = "NoToken" /\ port.rx = q.rx /\ port.silence = q.silence
    BY DEF Ports, States
  <2> QED
    BY <1>2, <1>4, <2>1, <2>2
<1>9. CASE ReceivedToken(n)
  <2> DEFINE port == [q EXCEPT !.frames = 0, !.sole = FALSE, !.state = "UseToken"]
  <2>1. Becomes(n, port) /\ p.rx # <<>> /\ Called(n, p, "Token")
    BY <1>1, <1>2, <1>9 DEF ReceivedToken, Receives, Runs, Frame, Called
  <2>2. /\ port \in Ports /\ port.state = "UseToken" /\ port.rx = q.rx
        /\ port.silence = q.silence
    <3>1. 0 \in 0 .. MaxFrames
      BY FrameCounts
    <3> QED
      BY <3>1 DEF Ports, States
  <2> HIDE DEF port
  <2>3. /\ Longest(n) /\ port.silence < Tno_token
        /\ \A m \in live : st[m].silence = 0
    <3>1. \A m \in live : st[m].silence = 0
      BY <1>1, <2>1, CalledJustNow
    <3>2. port.silence = 0 /\ 0 < Tno_token
      BY <1>1, <1>2, <2>2, <3>1, TimeAssumption
    <3> QED
      BY <1>3, <2>1, <3>1, <3>2
  <2>4. ASSUME NEW m \in live, m # n, Active(m, st[m])
        PROVE  Passing(st[m])
    <3>1. Fits(st[n], m, st[m]) \/ Fits(st[m], n, st[n])
      BY <1>1, <2>1, <2>4 DEF Orderly, OneExchange, Active
    <3>2. st[n].state = "Idle" /\ Head(st[n].rx).type = "Token"
      BY <1>1, <1>9 DEF ReceivedToken, Receives, Runs, Frame
    <3> QED
      BY <3>1, <3>2 DEF Fits, Passing, Called
  <2> QED
    BY <1>1, <1>2, <2>1, <2>2, <2>3, <2>4, UsesOrderly
<1>10. CASE ReceivedDataNeedingReply(n)
  <2> DEFINE port == [p EXCEPT !.state = "AnswerDataRequest"]
  <2>1. Becomes(n, port) /\ Called(n, p, "DER") /\ p.rx # <<>> /\ p.state = "Idle"
    BY <1>1, <1>10 DEF ReceivedDataNeedingReply, Receives, Runs, Frame, Called
  <2>2. /\ port \in Ports /\ port.state = "AnswerDataRequest" /\ port.rx = p.rx
        /\ port.silence = p.silence
        /\ [port EXCEPT !.waited = 0].state = "AnswerDataRequest"
        /\ [port EXCEPT !.waited = 0].silence = p.silence
    BY DEF Ports, States
  <2> HIDE DEF port
  <2>3. p.silence = 0 /\ Longest(n)
    BY <1>3, <2>1 DEF OneFrame
  <2>4. OneFrame(port) /\ InTime(n, [port EXCEPT !.waited = 0])
    BY <1>3, <2>2, <2>3, TimeAssumption DEF OneFrame, InTime
  <2>5. ASSUME NEW m \in live, m # n, Active(m, st[m])
        PROVE  Fits(st[m], n, port)
    <3>1. Fits(st[n], m, st[m]) \/ Fits(st[m], n, st[n])
      BY <1>1, <2>1, <2>5 DEF Orderly, OneExchange, Active
    <3>2. st[m].state = "WaitForReply" /\ st[m].rx = <<>>
      BY <1>1, <2>1, <3>1 DEF Fits, Passing, Called
    <3> QED
      BY <2>2, <3>2 DEF Fits
  <2> QED
    BY <1>1, <2>1, <2>2, <2>3, <2>4, <2>5, QuietStepOrderly
<1>11. CASE ReceivedOther(n)
  <2>1. Becomes(n, q) /\ p.state = "Idle"
    BY <1>1, <1>2, <1>11 DEF ReceivedOther, Receives, Runs
  <2> QED
    BY <1>2, <1>4, <2>1
<1>12. CASE NothingToSend(n) \/ ReplyTimeout(n)
  <2> DEFINE port == [p EXCEPT !.frames = InfoFrames(n), !.state = "DoneWithToken"]
  <2>1. Becomes(n, port)
    BY <1>1, <1>12 DEF NothingToSend, ReplyTimeout
  <2>2. /\ port \in Ports /\ port.state = "DoneWithToken" /\ port.rx = p.rx
        /\ port.silence = p.silence
    <3>1. InfoFrames(n) \in 0 .. MaxFrames
      BY <1>1, FrameCounts
    <3> QED
      BY <3>1 DEF Ports, States
  <2> HIDE DEF port
  <2>3. CASE NothingToSend(n)
    BY <1>1, <1>6, <2>1, <2>2, <2>3 DEF NothingToSend, Runs
  <2>4. CASE ReplyTimeout(n)
    <3>1. WaitIsOver(n) /\ p.state = "WaitForReply" /\ p.silence >= Treply_timeout
      BY <1>1, <2>4 DEF ReplyTimeout, Runs, WaitIsOver, TimedOut
    <3>2. p.rx = <<>>
      BY <1>3, <3>1, TimeAssumption DEF OneFrame
    <3> QED
      BY <1>5, <2>1, <2>2, <3>1, <3>2
  <2> QED
    BY <1>12, <2>3, <2>4
<1>13. CASE ReceivedReply(n)
  <2> DEFINE port == [q EXCEPT !.state = "DoneWithToken"]
  <2>1. Becomes(n, port) /\ WaitIsOver(n) /\ p.state = "WaitForReply"
    BY <1>1, <1>2, <1>13 DEF ReceivedReply, Receives, Runs, WaitIsOver
  <2>2. /\ port \in Ports /\ port.state = "DoneWithToken" /\ port.rx = q.rx
        /\ port.silence = q.silence
    BY DEF Ports, States
  <2> HIDE DEF port
  <2> QED
    BY <1>2, <1>5, <2>1, <2>2
<1>14. CASE ReceivedUnexpectedFrame(n) \/ ReceivedUnexpectedPfmFrame(n)
  <2>1. Becomes(n, [q EXCEPT !.state = "Idle"])
    BY <1>1, <1>2, <1>14 DEF ReceivedUnexpectedFrame, ReceivedUnexpectedPfmFrame, Receives
  <2>2. LET port == [q EXCEPT !.state = "Idle"]
        IN  port \in Ports /\ port.state = "Idle" /\ port.rx = q.rx /\ port.silence = q.silence
    BY DEF Ports, States
  <2> QED
    BY <1>2, <1>4, <2>1, <2>2
<1>15. CASE SendAnotherFrame(n)
  <2> DEFINE port == [p EXCEPT !.state = "UseToken"]
  <2>1. Becomes(n, port) /\ p.state = "DoneWithToken"
    BY <1>1, <1>15 DEF SendAnotherFrame, Runs
  <2>2. /\ port \in Ports /\ port.state = "UseToken" /\ port.rx = p.rx
        /\ port.silence = p.silence
    BY DEF Ports, States
  <2> HIDE DEF port
  <2> QED
    BY <1>6, <2>1, <2>2
<1>16. CASE SoleMaster(n)
  <2> DEFINE port == [p EXCEPT !.frames = 0, !.tokens = @ + 1, !.state = "UseToken"]
  <2>1. Becomes(n, port) /\ p.state = "DoneWithToken" /\ p.tokens < Npoll - 1
    BY <1>1, <1>16 DEF SoleMaster, Finished, Runs
  <2>2. PICK tokens \in 0 .. Npoll : tokens = p.tokens + 1
    <3>1. PICK before \in 0 .. Npoll : before = p.tokens
      BY PortTypes
    <3>2. before < Npoll - 1 => before + 1 \in 0 .. Npoll
      BY TimeAssumption
    <3> QED
      BY <2>1, <3>1, <3>2
  <2>3. /\ port \in Ports /\ port.state = "UseToken" /\ port.rx = p.rx
        /\ port.silence = p.silence
    <3>1. 0 \in 0 .. MaxFrames
      BY FrameCounts
    <3> QED
      BY <2>2, <3>1 DEF Ports, States
  <2> HIDE DEF port
  <2> QED
    BY <1>6, <2>1, <2>3
<1>17. CASE SawTokenUser(n) \/ SawFrame(n)
  <2> DEFINE port == [p EXCEPT !.saw = FALSE, !.state = "Idle"]
  <2>1. Becomes(n, port) /\ p.state \in {"PassToken", "NoToken"} /\ p.saw
    BY <1>1, <1>17 DEF SawTokenUser, SawFrame, Runs
  <2>2. /\ port \in Ports /\ port.state = "Idle" /\ port.rx = p.rx
        /\ port.silence = p.silence
        /\ [port EXCEPT !.waited = 0].state = "Idle"
    BY DEF Ports, States
  <2> HIDE DEF port
  <2>3. OneFrame(port) /\ InTime(n, [port EXCEPT !.waited = 0])
    BY <1>3, <2>1, <2>2 DEF OneFrame, InTime
  <2>4. \A type : Called(n, port, type) = Called(n, p, type)
    BY <2>1, <2>2 DEF Called
  <2>5. Active(n, port) => Active(n, p)
    BY <2>2, <2>4 DEF Active, Holding, Passing
  <2>6. ASSUME NEW m \in live, m # n, Active(n, port), Active(m, st[m])
        PROVE  Fits(st[m], n, port)
    <3>1. Fits(st[n], m, st[m]) \/ Fits(st[m], n, st[n])
      BY <1>1, <2>5, <2>6 DEF Orderly, OneExchange
    <3> QED
      BY <1>1, <2>1, <2>4, <3>1 DEF Fits, Passing
  <2> QED
    BY <1>1, <1>3, <2>1, <2>2, <2>3, <2>5, <2>6, QuietStepOrderly
<1>18. CASE StaySole(n) \/ DeclareSoleMaster(n)
  <2>1. /\ \/ Becomes(n, [q EXCEPT !.frames = 0, !.state = "UseToken"])
           \/ Becomes(n, [q EXCEPT !.sole = TRUE, !.frames = 0, !.state = "UseToken"])
        /\ p.state = "PollForMaster" /\ WaitIsOver(n)
    BY <1>1, <1>2, <1>18 DEF StaySole, DeclareSoleMaster, Unanswered, Runs, AfterPoll, WaitIsOver
  <2>2. 0 \in 0 .. MaxFrames
    BY FrameCounts
  <2>3. LET port == [q EXCEPT !.frames = 0, !.state = "UseToken"]
        IN  /\ port \in Ports /\ port.state = "UseToken" /\ port.rx = q.rx
            /\ port.silence = q.silence
    BY <2>2 DEF Ports, States
  <2>4. LET port == [q EXCEPT !.sole = TRUE, !.frames = 0, !.state = "UseToken"]
        IN  /\ port \in Ports /\ port.state = "UseToken" /\ port.rx = q.rx
            /\ port.silence = q.silence
    BY <2>2 DEF Ports, States
  <2> QED
    BY <1>2, <1>5, <2>1, <2>3, <2>4
<1>19. CASE WakeInVain(n)
  <2>1. Becomes(n, p) /\ ~TimedOut(n) /\ Sleep(n) # 0
    BY <1>1, <1>19 DEF WakeInVain
  <2>2. [p EXCEPT !.waited = 0].state = p.state /\ [p EXCEPT !.waited = 0].silence = p.silence
        /\ [p EXCEPT !.waited = 0].waited = 0
    BY DEF Ports
  <2>3. PICK silence \in Int : silence = p.silence
    BY <1>1, LivePort
  <2>4. p.state = "PollForMaster" => silence <= Tusage_timeout
    BY <1>1, <2>1, <2>3, TimeAssumption DEF TimedOut
  <2>5. InTime(n, [p EXCEPT !.waited = 0])
    <3>1. p.state \in {"Idle", "WaitForReply", "PollForMaster"}
      BY <1>1, <2>1, SleepValues
    <3>2. p.state = "WaitForReply" => silence <= Treply_timeout
      BY <1>3, <2>3 DEF InTime
    <3>3. p.state = "PollForMaster" =>
             silence <= Tusage_timeout + 1 /\ silence <= 0 + Tusage_timeout /\ 0 <= Tusage_timeout
      BY <2>4, TimeAssumption
    <3> QED
      BY <2>2, <2>3, <3>1, <3>2, <3>3 DEF InTime
  <2>6. ASSUME NEW m \in live, m # n, Active(n, p), Active(m, st[m])
        PROVE  Fits(p, m, st[m]) \/ Fits(st[m], n, p)
    BY <1>1, <2>6 DEF Orderly, OneExchange
  <2> QED
    BY <1>1, <1>3, <2>1, <2>5, <2>6, QuietStepOrderly
<1> QED
  BY <1>7, <1>8, <1>9, <1>10, <1>11, <1>12, <1>13, <1>14, <1>15, <1>16, <1>17, <1>18, <1>19
     DEF QuietStep

(* A station whose turn it is sends, and nobody else does. *)
HasTurn(n) == WaitIsOver(n) \/ st[n].state \in {"UseToken", "DoneWithToken"}

LEMMA TurnOrderly ==
  ASSUME Typed, Orderly, NEW n \in live, HasTurn(n), NEW port \in Ports, port.rx = <<>>,
         NEW f \in Frames, Sends(n, port, f), Takes(port, f), f.type = "PFM" => f.to # Broadcast
  PROVE  Orderly'
<1>1. ASSUME NEW m \in live \ {n}
      PROVE  st[m].rx = <<>> /\ st[m].state \in {"Idle", "NoToken", "PassToken"}
  <2>1. ~Handles(m)
    BY DEF Sends
  <2> QED
    BY <2>1, TurnIsHeard DEF HasTurn
<1> QED
  BY <1>1, SendOrderly

LEMMA PfmOrderly ==
  ASSUME Typed, Orderly, NEW n \in live, HasTurn(n), NEW port \in Ports, port.rx = <<>>,
         NEW to \in Addresses, SendsPfm(n, port, to)
  PROVE  Orderly'
<1> DEFINE polls == [port EXCEPT !.poll = to, !.retries = 0, !.state = "PollForMaster"]
           f == [type |-> "PFM", to |-> to, from |-> n]
<1>1. polls \in Ports /\ polls.state = "PollForMaster" /\ polls.rx = <<>>
  <2>1. 0 \in 0 .. Nretry_token
    BY TimeAssumption
  <2> QED
    BY <2>1 DEF Ports, States
<1>2. f \in Frames /\ f.type = "PFM" /\ f.to # Broadcast
  <2>1. f \in Frames
    BY LivePort, FramesHaveTypes DEF FrameTypes
  <2>2. to # Broadcast
    BY AddressFacts
  <2> QED
    BY <2>1, <2>2
<1>3. Sends(n, polls, f)
  BY DEF SendsPfm, SendsTo
<1> HIDE DEF polls, f
<1> QED
  BY <1>1, <1>2, <1>3, TurnOrderly DEF Takes

LEMMA TokenOrderly ==
  ASSUME Typed, Orderly, NEW n \in live, HasTurn(n), NEW port \in Ports, port.rx = <<>>,
         SendsToken(n, port)
  PROVE  Orderly'
<1> DEFINE passes == [port EXCEPT !.saw = FALSE, !.state = "PassToken"]
           f == [type |-> "Token", to |-> port.next, from |-> n]
<1>1. passes \in Ports /\ Passing(passes) /\ passes.rx = <<>>
  BY DEF Ports, States, Passing
<1>2. f \in Frames /\ f.type = "Token"
  BY LivePort, PortTypes, FramesHaveTypes DEF FrameTypes
<1>3. Sends(n, passes, f)
  <2>1. (port.rx \notin {<<>>, st[n].rx}) = FALSE
    OBVIOUS
  <2> QED
    BY <2>1 DEF SendsToken, SendsTo
<1> HIDE DEF passes, f
<1> QED
  BY <1>1, <1>2, <1>3, TurnOrderly DEF Takes

LEMMA AnswerOrderly ==
  ASSUME Typed, Orderly, NEW n \in live, NEW port \in Ports, port.rx = <<>>, port.state = "Idle",
         \/ st[n].state = "Idle" /\ Called(n, st[n], "PFM")
         \/ st[n].state = "AnswerDataRequest",
         NEW type \in {"ReplyToPFM", "DNER", "ReplyPostponed"},
         NEW to \in Addresses \cup {Broadcast}, SendsTo(n, port, type, to)
  PROVE  Orderly'
<1> DEFINE f == [type |-> type, to |-> to, from |-> n]
<1>1. ASSUME NEW m \in live \ {n}
      PROVE  /\ st[m].rx = <<>>
             /\ st[m].state \in {"Idle", "NoToken", "PassToken", "WaitForReply", "PollForMaster"}
  <2>1. ~Handles(m)
    BY DEF SendsTo, Sends
  <2> QED
    BY <2>1, AnswerIsHeard
<1>2. f \in Frames /\ f.type = type
  BY LivePort, FramesHaveTypes DEF FrameTypes, Data
<1>3. Sends(n, port, f)
  BY DEF SendsTo
<1> HIDE DEF f
<1>4. Answers(port, f) /\ f.type # "PFM"
  BY <1>2 DEF Answers
<1> QED
  BY <1>1, <1>2, <1>3, <1>4, SendOrderly

LEMMA SendStepOrderly ==
  ASSUME Typed, Orderly, NEW n \in live, SendStep(n)
  PROVE  Orderly'
<1>1. PICK p \in Ports : p = st[n] /\ n \in Stations
  BY LivePort
<1>2. PICK q \in Ports :
        /\ q = IF p.rx = <<>> THEN p ELSE Cleared(p)
        /\ q.rx = <<>> /\ q.state = p.state /\ q.silence = p.silence
  BY <1>1, EmptiedPort
<1>3. OneFrame(p)
  BY <1>1 DEF Orderly
<1>4. ASSUME NEW port \in Ports, port.rx = <<>>, NEW to \in Addresses,
             SendsPfm(n, port, to), HasTurn(n)
      PROVE  Orderly'
  BY <1>4, PfmOrderly
<1>5. ASSUME NEW port \in Ports, port.rx = <<>>, SendsToken(n, port), HasTurn(n)
      PROVE  Orderly'
  BY <1>5, TokenOrderly
<1>6. /\ \A a \in Addresses : Succ(n, a) \in Addresses
      /\ n \in Addresses /\ p.next \in Addresses /\ p.poll \in Addresses
      /\ q.poll \in Addresses
  BY <1>1, NextAddress, PortTypes, StationAssumption
<1>7. /\ 0 \in 0 .. Nretry_token /\ 0 \in 0 .. Npoll /\ 1 \in 0 .. Npoll
      /\ p.tokens < Npoll - 1 => \E tokens \in 0 .. Npoll : tokens = p.tokens + 1
      /\ p.retries < Nretry_token => \E retries \in 0 .. Nretry_token : retries = p.retries + 1
  <2>1. PICK tokens \in 0 .. Npoll, retries \in 0 .. Nretry_token :
           tokens = p.tokens /\ retries = p.retries
    BY PortTypes
  <2>2. /\ tokens < Npoll - 1 => tokens + 1 \in 0 .. Npoll
        /\ retries < Nretry_token => retries + 1 \in 0 .. Nretry_token
    BY TimeAssumption
  <2>3. /\ 0 \in 0 .. Nretry_token /\ 0 \in 0 .. Npoll /\ 1 \in 0 .. Npoll
    BY TimeAssumption
  <2> QED
    BY <2>1, <2>2, <2>3
<1>8. p.rx # <<>> => /\ Head(p.rx) \in AnyFrame
                     /\ Head(p.rx).from \in Addresses \cup {Broadcast}
                     /\ Head(p.rx).type # "Invalid" => Head(p.rx).from \in Addresses
  BY QueueOfPort, FramesHaveTypes DEF AnyFrame, Invalid
<1>9. ASSUME p.state \in {"UseToken", "DoneWithToken"}
      PROVE  HasTurn(n) /\ p.rx = <<>>
  BY <1>1, <1>3, <1>9 DEF HasTurn, OneFrame
<1>10. ASSUME Finished(n)
       PROVE  HasTurn(n) /\ p.rx = <<>>
  BY <1>1, <1>9, <1>10 DEF Finished, Runs
<1>11. ASSUME \/ p.state = "PassToken" /\ TimedOut(n)
              \/ p.state = "NoToken" /\ InSlot(n)
       PROVE  HasTurn(n) /\ p.rx = <<>>
  <2>1. PICK silence \in Int : silence = p.silence
    BY <1>1, LivePort
  <2>2. silence > Tusage_timeout \/ NoTokenSlot(n) <= silence
    BY <1>1, <1>11, <2>1 DEF TimedOut, InSlot
  <2>3. NoTokenSlot(n) \in Nat /\ NoTokenSlot(n) >= Tno_token
    BY <1>1, SilenceBounds
  <2>4. silence # 0
    BY <2>2, <2>3, TimeAssumption
  <2> QED
    BY <1>1, <1>3, <1>11, <2>1, <2>4 DEF HasTurn, WaitIsOver, OneFrame
<1>12. CASE ReceivedPfm(n)
  <2>1. /\ SendsTo(n, q, "ReplyToPFM", Head(p.rx).from) /\ p.rx # <<>> /\ p.state = "Idle"
        /\ Head(p.rx).type = "PFM" /\ Head(p.rx).to \in {n, Broadcast}
    BY <1>1, <1>2, <1>12 DEF ReceivedPfm, Receives, Runs, Frame, ForUs
  <2>2. Called(n, p, "PFM")
    BY <1>3, <2>1 DEF OneFrame, Called
  <2> QED
    BY <1>1, <1>2, <1>8, <2>1, <2>2, AnswerOrderly
<1>13. CASE SendNoWait(n) \/ SendAndWait(n)
  <2>1. p.state = "UseToken"
    BY <1>1, <1>13 DEF SendNoWait, SendAndWait, Runs
  <2>2. PICK frames \in 0 .. MaxFrames : frames = p.frames + 1
    <3>1. PICK before \in 0 .. MaxFrames : before = p.frames /\ before < MaxFrames
      BY <1>1, <2>1, PortTypes DEF Typed, Usable
    <3>2. before + 1 \in 0 .. MaxFrames
      BY <3>1, FrameCounts
    <3> QED
      BY <3>1, <3>2
  <2>3. LET port == [p EXCEPT !.frames = frames, !.state = "DoneWithToken"]
        IN  port \in Ports /\ port.state = "DoneWithToken" /\ port.rx = p.rx
    BY DEF Ports, States
  <2>4. LET port == [p EXCEPT !.frames = frames, !.state = "WaitForReply"]
        IN  port \in Ports /\ port.state = "WaitForReply" /\ port.rx = p.rx
    BY DEF Ports, States
  <2>5. ASSUME NEW to \in Addresses \cup {Broadcast}
        PROVE  /\ [type |-> "DNER", to |-> to, from |-> n] \in Frames
               /\ [type |-> "DER", to |-> to, from |-> n] \in Frames
    BY <1>1, FramesHaveTypes DEF FrameTypes, Data
  <2>6. CASE SendNoWait(n)
    <3>1. Sends(n, [p EXCEPT !.frames = frames, !.state = "DoneWithToken"],
                [type |-> "DNER", to |-> Broadcast, from |-> n])
      BY <1>1, <2>2, <2>6 DEF SendNoWait, SendsTo
    <3>2. [type |-> "DNER", to |-> Broadcast, from |-> n] \in Frames
      BY <2>5
    <3> QED
      BY <1>9, <2>1, <2>3, <3>1, <3>2, TurnOrderly DEF Takes
  <2>7. CASE SendAndWait(n)
    <3>1. PICK m \in Stations :
             Sends(n, [p EXCEPT !.frames = frames, !.state = "WaitForReply"],
                   [type |-> "DER", to |-> m, from |-> n])
      BY <1>1, <2>2, <2>7 DEF SendAndWait, SendsTo
    <3>2. [type |-> "DER", to |-> m, from |-> n] \in Frames
      BY <2>5, AddressFacts
    <3> QED
      BY <1>9, <2>1, <2>4, <3>1, <3>2, TurnOrderly DEF Takes
  <2> QED
    BY <1>13, <2>6, <2>7
<1>14. CASE NextStationUnknown(n) \/ SendMaintenancePfm(n)
  <2>1. /\ Finished(n)
        /\ SendsPfm(n, p, Succ(n, n)) \/ SendsPfm(n, p, Succ(n, p.poll))
    BY <1>1, <1>14 DEF NextStationUnknown, SendMaintenancePfm, Polling
  <2> QED
    BY <1>4, <1>6, <1>10, <2>1
<1>15. CASE SendToken(n)
  <2>1. /\ SendsToken(n, [p EXCEPT !.tokens = @ + 1, !.retries = 0]) /\ p.tokens < Npoll - 1
        /\ Finished(n)
    BY <1>1, <1>15 DEF SendToken
  <2>2. PICK tokens \in 0 .. Npoll : tokens = p.tokens + 1
    BY <1>7, <2>1
  <2>3. /\ [p EXCEPT !.tokens = tokens, !.retries = 0] \in Ports
        /\ [p EXCEPT !.tokens = tokens, !.retries = 0].rx = p.rx
    BY <1>7 DEF Ports
  <2>4. SendsToken(n, [p EXCEPT !.tokens = tokens, !.retries = 0])
    BY <2>1, <2>2
  <2> QED
    BY <1>5, <1>10, <2>1, <2>3, <2>4
<1>16. CASE SoleMasterRestartMaintenancePfm(n)
  <2>1. /\ [p EXCEPT !.next = n, !.tokens = 1] \in Ports
        /\ [p EXCEPT !.next = n, !.tokens = 1].rx = p.rx
    BY <1>6, <1>7 DEF Ports
  <2>2. SendsPfm(n, [p EXCEPT !.next = n, !.tokens = 1], Succ(n, p.next)) /\ Finished(n)
    BY <1>1, <1>16 DEF SoleMasterRestartMaintenancePfm, Polling
  <2> QED
    BY <1>4, <1>6, <1>10, <2>1, <2>2
<1>17. CASE ResetMaintenancePfm(n)
  <2>1. /\ [p EXCEPT !.poll = n, !.tokens = 1, !.retries = 0] \in Ports
        /\ [p EXCEPT !.poll = n, !.tokens = 1, !.retries = 0].rx = p.rx
    BY <1>6, <1>7 DEF Ports
  <2>2. SendsToken(n, [p EXCEPT !.poll = n, !.tokens = 1, !.retries = 0]) /\ Finished(n)
    BY <1>1, <1>17 DEF ResetMaintenancePfm, Polling
  <2> QED
    BY <1>5, <1>10, <2>1, <2>2
<1>18. CASE RetrySendToken(n)
  <2>1. /\ SendsToken(n, [p EXCEPT !.retries = @ + 1]) /\ p.retries < Nretry_token
        /\ p.state = "PassToken" /\ TimedOut(n)
    BY <1>1, <1>18 DEF RetrySendToken, Runs
  <2>2. PICK retries \in 0 .. Nretry_token : retries = p.retries + 1
    BY <1>7, <2>1
  <2>3. [p EXCEPT !.retries = retries] \in Ports /\ [p EXCEPT !.retries = retries].rx = p.rx
    BY DEF Ports
  <2>4. SendsToken(n, [p EXCEPT !.retries = retries])
    BY <2>1, <2>2
  <2> QED
    BY <1>5, <1>11, <2>1, <2>3, <2>4
<1>19. CASE FindNewSuccessor(n) \/ GenerateToken(n)
  <2>1. /\ [p EXCEPT !.next = n, !.tokens = 0] \in Ports
        /\ [p EXCEPT !.next = n, !.tokens = 0].rx = p.rx
    BY <1>6, <1>7 DEF Ports
  <2>2. /\ \/ SendsPfm(n, [p EXCEPT !.next = n, !.tokens = 0], Succ(n, p.next))
           \/ SendsPfm(n, [p EXCEPT !.next = n, !.tokens = 0], Succ(n, n))
        /\ \/ p.state = "PassToken" /\ TimedOut(n)
           \/ p.state = "NoToken" /\ InSlot(n)
    BY <1>1, <1>19 DEF FindNewSuccessor, GenerateToken, Runs
  <2> QED
    BY <1>4, <1>6, <1>11, <2>1, <2>2
<1>20. CASE ReceivedReplyToPfm(n)
  <2>1. PICK next \in Addresses : next = Head(p.rx).from
    BY <1>1, <1>8, <1>20 DEF ReceivedReplyToPfm, Receives, Valid, Frame
  <2>2. LET port == [q EXCEPT !.sole = FALSE, !.next = next, !.poll = n, !.tokens = 0, !.retries = 0]
        IN  port \in Ports /\ port.rx = q.rx
    BY <1>6, <1>7 DEF Ports
  <2>3. SendsToken(n, [q EXCEPT !.sole = FALSE, !.next = next, !.poll = n, !.tokens = 0,
                                !.retries = 0])
    BY <1>1, <1>2, <1>20, <2>1 DEF ReceivedReplyToPfm, Receives, Frame
  <2>4. HasTurn(n)
    BY <1>20 DEF ReceivedReplyToPfm, Receives, Runs, HasTurn, WaitIsOver
  <2> QED
    BY <1>2, <1>5, <2>2, <2>3, <2>4
<1>21. CASE DoneWithPfm(n) \/ SendNextPfm(n)
  <2>1. HasTurn(n)
    BY <1>21 DEF DoneWithPfm, SendNextPfm, Unanswered, Runs, HasTurn, WaitIsOver
  <2>2. [q EXCEPT !.retries = 0] \in Ports /\ [q EXCEPT !.retries = 0].rx = q.rx
    BY <1>7 DEF Ports
  <2>3. SendsToken(n, [q EXCEPT !.retries = 0]) \/ SendsPfm(n, q, Succ(n, p.poll))
    BY <1>1, <1>2, <1>21 DEF DoneWithPfm, SendNextPfm, AfterPoll
  <2> QED
    BY <1>2, <1>4, <1>5, <1>6, <2>1, <2>2, <2>3
<1>22. CASE Reply(n) \/ DeferredReply(n)
  <2>1. p.state = "AnswerDataRequest" /\ p.rx # <<>>
    BY <1>1, <1>22 DEF Reply, DeferredReply, Runs, Typed, Usable
  <2>2. LET port == [q EXCEPT !.state = "Idle"]
        IN  port \in Ports /\ port.state = "Idle" /\ port.rx = q.rx
    BY DEF Ports, States
  <2>3. \/ SendsTo(n, [q EXCEPT !.state = "Idle"], "DNER", Head(p.rx).from)
        \/ SendsTo(n, [q EXCEPT !.state = "Idle"], "ReplyPostponed", Head(p.rx).from)
    BY <1>1, <1>2, <1>22, <2>1 DEF Reply, DeferredReply, Frame
  <2> QED
    BY <1>1, <1>2, <1>8, <2>1, <2>2, <2>3, AnswerOrderly
<1> QED
  BY <1>12, <1>13, <1>14, <1>15, <1>16, <1>17, <1>18, <1>19, <1>20, <1>21, <1>22
     DEF SendStep

-----------------------------------------------------------------------------
(* Time and faults. *)

(* Time passes only when no frame but a request is waiting to be answered. *)
LEMMA NobodyBusy ==
  ASSUME Typed, Orderly, Tick, NEW n \in live
  PROVE  /\ st[n].rx # <<>> => st[n].state = "AnswerDataRequest"
         /\ st[n].state = "PassToken" => ~st[n].saw
         /\ st[n].state \notin {"UseToken", "DoneWithToken"}
<1>1. ~Busy(n)
  BY DEF Tick
<1>2. OneFrame(st[n])
  BY DEF Orderly
<1>3. st[n].state \in {"UseToken", "DoneWithToken"} => Sleep(n) = 0 /\ TimedOut(n)
  BY LivePort, SleepValues DEF TimedOut
<1> QED
  BY <1>1, <1>2, <1>3 DEF Busy, OneFrame

LEMMA TickOrderly ==
  ASSUME Typed, Orderly, Tick, ~overslept'
  PROVE  Orderly'
<1>1. PICK t \in Nat \ {0} :
        /\ st' = [n \in Stations |-> IF n \in live THEN Elapse(n, t) ELSE st[n]]
        /\ \A n \in live :
             /\ Sleep(n) # 0 => st[n].waited + t <= Sleep(n)
             /\ Sleep(n) = 0 =>
                  /\ st[n].state = "WaitForReply" => st[n].silence + t <= Treply_timeout
                  /\ st[n].state \in {"PassToken", "PollForMaster"} =>
                        st[n].silence + t <= Tusage_timeout + 1
                  /\ st[n].state = "AnswerDataRequest" => st[n].silence + t <= Treply_delay + 1
  BY TickTime
<1>2. live' = live /\ ~Overslept'
  BY DEF Tick
<1>3. ASSUME NEW n \in live
      PROVE  /\ st'[n].state = st[n].state /\ st'[n].saw = st[n].saw /\ st'[n].rx = st[n].rx
             /\ st'[n].silence = Capped(st[n].silence + t)
             /\ Sleep(n) # 0 => st'[n].waited = st[n].waited + t
  <2>1. st'[n] = Elapse(n, t) /\ n \in Stations /\ st[n] \in Ports
    BY <1>1, LivePort
  <2> QED
    BY <1>1, <2>1, ElapsedPort
<1>4. ASSUME NEW n \in live
      PROVE  st'[n].silence \in Int /\ st'[n].silence <= st[n].silence + t
  <2>1. PICK silence \in Int : silence = st[n].silence
    BY LivePort
  <2> QED
    BY <1>3, <2>1, SilenceBounds DEF Capped
<1>5. ASSUME NEW n \in live
      PROVE  InTime(n, st'[n])
  <2>1. PICK silence \in Int, waited \in Int, later \in Int :
           silence = st[n].silence /\ waited = st[n].waited /\ later = st'[n].silence
    BY <1>4, LivePort
  <2>2. later <= silence + t
    BY <1>4, <2>1
  <2>3. InTime(n, st[n]) /\ n \in Stations
    BY LivePort DEF Orderly
  <2>4. ASSUME st[n].state = "WaitForReply"
        PROVE  later <= Treply_timeout
    <3>1. CASE n = T3000
      <4>1. ~(st'[T3000].silence > Treply_timeout)
        BY <1>2, <1>3, <2>4, <3>1 DEF Overslept
      <4> QED
        BY <2>1, <3>1, <4>1, TimeAssumption
    <3>2. CASE n # T3000
      <4>1. silence + t <= Treply_timeout
        BY <1>1, <2>1, <2>3, <2>4, <3>2, SleepValues
      <4> QED
        BY <2>2, <4>1, TimeAssumption
    <3> QED
      BY <3>1, <3>2
  <2>5. ASSUME st[n].state = "PollForMaster", n # T3000
        PROVE  later <= Tusage_timeout + 1
    <3>1. silence + t <= Tusage_timeout + 1
      BY <1>1, <2>1, <2>3, <2>5, SleepValues
    <3> QED
      BY <2>2, <3>1, TimeAssumption
  <2>6. ASSUME st[n].state = "PollForMaster", n = T3000
        PROVE  later <= (waited + t) + Tusage_timeout /\ waited + t <= Tusage_timeout
               /\ st'[n].waited = waited + t
    <3>1. Sleep(n) = Tusage_timeout /\ Sleep(n) # 0
      BY <2>3, <2>6, SleepValues, TimeAssumption
    <3>2. waited + t <= Tusage_timeout
      BY <1>1, <2>1, <3>1
    <3>3. silence <= waited + Tusage_timeout
      BY <2>1, <2>3, <2>6 DEF InTime
    <3>4. st'[n].waited = waited + t
      BY <1>3, <2>1, <3>1
    <3>5. later <= (waited + t) + Tusage_timeout
      BY <2>2, <3>3, TimeAssumption
    <3> QED
      BY <3>2, <3>4, <3>5
  <2>7. ASSUME st[n].state = "PassToken"
        PROVE  later <= Tusage_timeout + 1
    <3>1. silence + t <= Tusage_timeout + 1
      BY <1>1, <2>1, <2>3, <2>7, SleepValues
    <3> QED
      BY <2>2, <3>1, TimeAssumption
  <2>8. ASSUME st[n].state = "AnswerDataRequest"
        PROVE  later <= Treply_delay + 1
    <3>1. silence + t <= Treply_delay + 1
      BY <1>1, <2>1, <2>3, <2>8, SleepValues
    <3> QED
      BY <2>2, <3>1, TimeAssumption
  <2>9. st[n].state \notin {"UseToken", "DoneWithToken"}
    BY NobodyBusy
  <2> QED
    BY <1>3, <2>1, <2>4, <2>5, <2>6, <2>7, <2>8, <2>9 DEF InTime
<1>6. ASSUME NEW n \in live
      PROVE  OneFrame(st'[n])
  <2>1. OneFrame(st[n])
    BY DEF Orderly
  <2>2. /\ st[n].rx # <<>> => st[n].state = "AnswerDataRequest"
        /\ st[n].state = "PassToken" => ~st[n].saw
    BY NobodyBusy
  <2> QED
    BY <1>3, <2>1, <2>2 DEF OneFrame
<1>7. ASSUME NEW n \in live, Active(n, st'[n]) \/ st'[n].rx # <<>>, NEW k \in live
      PROVE  st'[k].silence <= st'[n].silence
  <2>1. Active(n, st[n]) \/ st[n].rx # <<>>
    BY <1>3, <1>7 DEF Active, Passing, Called
  <2>2. PICK a \in Int, b \in Int : a = st[k].silence /\ b = st[n].silence
    BY LivePort
  <2>3. a <= b
    BY <2>1, <2>2 DEF Orderly, Longest
  <2>4. Capped(a + t) <= Capped(b + t)
    BY <2>3, SilenceBounds DEF Capped
  <2> QED
    BY <1>3, <2>2, <2>4
<1>8. ASSUME NEW k \in live, NEW m \in live, k # m, Active(k, st'[k]), Active(m, st'[m])
      PROVE  Fits(st'[k], m, st'[m]) \/ Fits(st'[m], k, st'[k])
  <2>1. Active(k, st[k]) /\ Active(m, st[m])
    BY <1>3, <1>8 DEF Active, Passing, Called
  <2>2. Fits(st[k], m, st[m]) \/ Fits(st[m], k, st[k])
    BY <1>8, <2>1 DEF Orderly, OneExchange
  <2>3. /\ st[k].state \notin {"UseToken", "DoneWithToken"}
        /\ st[m].state \notin {"UseToken", "DoneWithToken"}
    BY NobodyBusy
  <2>4. ASSUME NEW a \in live, NEW b \in live, Fits(st[a], b, st[b]),
               st[a].state \notin {"UseToken", "DoneWithToken"}
        PROVE  Fits(st'[a], b, st'[b])
    BY <1>3, <2>4 DEF Fits, Passing, Called
  <2> QED
    BY <2>2, <2>3, <2>4
<1> live' = live
  BY <1>2
<1>9. (\A n \in live : OneFrame(st[n]) /\ InTime(n, st[n]))'
  BY <1>5, <1>6
<1>10. (\A n \in live : Active(n, st[n]) \/ st[n].rx # <<>> => Longest(n))'
  BY <1>7 DEF Longest
<1>11. OneExchange'
  BY <1>8 DEF OneExchange
<1> QED
  BY <1>9, <1>10, <1>11 DEF Orderly

(* A station that starts has nothing to do with what the others do. *)
LEMMA StartedIsInactive ==
  ASSUME NEW n \in Stations
  PROVE  /\ ~Active(n, Started(n)) /\ Started(n).rx = <<>> /\ Started(n).silence = 0
         /\ OneFrame(Started(n)) /\ InTime(n, Started(n))
<1>1. Len(<<>>) = 0
  BY EmptySeq
<1>2. /\ Started(n).state = "Initialize" /\ Started(n).rx = <<>> /\ Started(n).silence = 0
  BY DEF Started
<1> QED
  BY <1>1, <1>2 DEF Active, Holding, Passing, Called, OneFrame, InTime

LEMMA FailOrderly ==
  ASSUME Typed, Orderly, NEW n \in Stations, Fail(n)
  PROVE  Orderly'
<1>1. /\ live' = live \ {n}
      /\ \A m \in live' : st'[m] = st[m] /\ m \in live
  BY DEF Fail, Typed, TypeOK
<1>2. (\A m \in live : OneFrame(st[m]) /\ InTime(m, st[m]))'
  BY <1>1 DEF Orderly
<1>3. (\A m \in live : Active(m, st[m]) \/ st[m].rx # <<>> => Longest(m))'
  BY <1>1 DEF Orderly, Longest
<1>4. OneExchange'
  BY <1>1 DEF Orderly, OneExchange
<1> QED
  BY <1>2, <1>3, <1>4 DEF Orderly

LEMMA RestartOrderly ==
  ASSUME Typed, Orderly, NEW n \in Stations, Restart(n)
  PROVE  Orderly'
<1>1. live' = live \cup {n} /\ st' = st /\ st[n] = Started(n)
  BY DEF Restart, Typed, Stopped
<1>2. /\ ~Active(n, st[n]) /\ st[n].rx = <<>> /\ st[n].silence = 0
      /\ OneFrame(st[n]) /\ InTime(n, st[n])
  BY <1>1, StartedIsInactive
<1>3. (\A m \in live : OneFrame(st[m]) /\ InTime(m, st[m]))'
  BY <1>1, <1>2 DEF Orderly
<1>4. ASSUME NEW m \in live', Active(m, st[m]) \/ st[m].rx # <<>>, NEW k \in live'
      PROVE  st[k].silence <= st[m].silence
  <2>1. m \in live /\ Longest(m)
    BY <1>1, <1>2, <1>4 DEF Orderly
  <2>2. CASE k \in live
    BY <2>1, <2>2 DEF Longest
  <2>3. CASE k = n
    <3>1. PICK silence \in 0 .. Silent : silence = st[m].silence
      BY <2>1, LivePort
    <3>2. 0 <= silence
      BY SilenceBounds
    <3> QED
      BY <1>2, <2>3, <3>1, <3>2
  <2> QED
    BY <1>1, <2>2, <2>3
<1>5. (\A m \in live : Active(m, st[m]) \/ st[m].rx # <<>> => Longest(m))'
  BY <1>1, <1>4 DEF Longest
<1>6. OneExchange'
  <2>1. ASSUME NEW a \in live', NEW b \in live', a # b, Active(a, st[a]), Active(b, st[b])
        PROVE  Fits(st[a], b, st[b]) \/ Fits(st[b], a, st[a])
    BY <1>1, <1>2, <2>1 DEF Orderly, OneExchange
  <2> QED
    BY <1>1, <2>1 DEF OneExchange
<1> QED
  BY <1>3, <1>5, <1>6 DEF Orderly

(* Only stations that run take steps, and only time makes T3000 oversleep. *)
LEMMA StepKeeps ==
  ASSUME NEW n \in Stations, Step(n)
  PROVE  n \in live /\ overslept' = overslept
<1>1. CASE QuietStep(n)
  <2>1. ASSUME NEW port, Becomes(n, port)
        PROVE  overslept' = overslept
    BY <2>1 DEF Becomes
  <2> QED
    BY <1>1, <2>1 DEF QuietStep, Initialize, LostToken, ReceivedToken,
       ReceivedDataNeedingReply, ReceivedOther, NothingToSend, ReplyTimeout, ReceivedReply,
       ReceivedUnexpectedFrame, SendAnotherFrame, SoleMaster, SawTokenUser, SawFrame,
       ReceivedUnexpectedPfmFrame, StaySole, DeclareSoleMaster, WakeInVain,
       Finished, Unanswered, Receives, Runs
<1>2. CASE SendStep(n)
  <2>1. ASSUME NEW port, NEW f, Sends(n, port, f)
        PROVE  overslept' = overslept
    BY <2>1 DEF Sends
  <2>2. ASSUME NEW port, NEW type, NEW to, SendsTo(n, port, type, to)
        PROVE  overslept' = overslept
    BY <2>1, <2>2 DEF SendsTo
  <2>3. ASSUME NEW port, NEW to, SendsPfm(n, port, to)
        PROVE  overslept' = overslept
    BY <2>2, <2>3 DEF SendsPfm
  <2>4. ASSUME NEW port, SendsToken(n, port)
        PROVE  overslept' = overslept
    BY <2>2, <2>4 DEF SendsToken
  <2> QED
    BY <1>2, <2>2, <2>3, <2>4 DEF SendStep, ReceivedPfm, SendNoWait, SendAndWait,
       NextStationUnknown, SendToken, SoleMasterRestartMaintenancePfm, ResetMaintenancePfm,
       SendMaintenancePfm, RetrySendToken, FindNewSuccessor, GenerateToken, ReceivedReplyToPfm,
       DoneWithPfm, SendNextPfm, Reply, DeferredReply, Polling, Finished, Unanswered,
       Receives, Runs
<1> QED
  BY <1>1, <1>2, StepIsQuietOrSends

LEMMA Invariance == Spec => []IInv
<1>1. Init => Typed
  <2> SUFFICES ASSUME Init
               PROVE  Typed
    OBVIOUS
  <2>1. \A n \in Stations : Started(n) \in Ports /\ Usable(Started(n))
    BY StartedPort DEF Usable, Started
  <2> QED
    BY <2>1 DEF Init, Typed, TypeOK, Stopped
<1>2. Init => Orderly
  <2> SUFFICES ASSUME Init
               PROVE  Orderly
    OBVIOUS
  <2>1. /\ live \subseteq Stations
        /\ \A n \in Stations : st[n] = Started(n)
    BY DEF Init
  <2>2. \A n \in live : /\ ~Active(n, st[n]) /\ st[n].rx = <<>>
                        /\ OneFrame(st[n]) /\ InTime(n, st[n])
    BY <2>1, StartedIsInactive
  <2> QED
    BY <2>2 DEF Orderly, OneExchange
<1>3. IInv /\ Typed' /\ [Next]_vars => IInv'
  <2> SUFFICES ASSUME IInv, Typed', [Next]_vars, ~overslept'
               PROVE  Orderly'
    BY DEF IInv
  <2>1. ~overslept
    <3>1. ASSUME NEW n \in Stations, Step(n)
          PROVE  ~overslept
      BY <3>1, StepKeeps
    <3>2. ASSUME NEW n \in Stations, Fail(n) \/ Restart(n)
          PROVE  ~overslept
      BY <3>2 DEF Fail, Restart
    <3>3. CASE Tick
      BY <3>3 DEF Tick
    <3>4. CASE UNCHANGED vars
      BY <3>4 DEF vars
    <3> QED
      BY <3>1, <3>2, <3>3, <3>4 DEF Next
  <2>2. Typed /\ Orderly
    BY <2>1 DEF IInv
  <2>3. ASSUME NEW n \in Stations, Step(n)
        PROVE  Orderly'
    <3>1. n \in live
      BY <2>3, StepKeeps
    <3> QED
      BY <2>2, <2>3, <3>1, StepIsQuietOrSends, QuietOrderly, SendStepOrderly
  <2>4. ASSUME NEW n \in Stations, Fail(n) \/ Restart(n)
        PROVE  Orderly'
    BY <2>2, <2>4, FailOrderly, RestartOrderly
  <2>5. CASE Tick
    BY <2>2, <2>5, TickOrderly
  <2>6. CASE UNCHANGED vars
    BY <2>2, <2>6 DEF vars, Orderly, Longest, OneExchange
  <2> QED
    BY <2>3, <2>4, <2>5, <2>6 DEF Next
<1>4. Typed /\ Orderly => IInv
  BY DEF IInv
<1> QED
  BY <1>1, <1>2, <1>3, <1>4, TypedInvariance, PTL DEF Spec

(* However frames are damaged and stations fail, no two stations hold the  *)
(* token at a time, for any number of stations and any timeouts in this    *)
(* order, until T3000 has slept past a reply timeout.                      *)
THEOREM TokenIsUnique == Spec => []OneToken
<1>1. IInv => OneToken
  <2> SUFFICES ASSUME IInv, ~overslept
               PROVE  Cardinality(Holders) <= 1
    BY DEF OneToken
  <2>1. Orderly
    BY DEF IInv
  <2>2. ASSUME NEW n \in Holders, NEW m \in Holders
        PROVE  n = m
    <3> SUFFICES ASSUME n # m
                 PROVE  FALSE
      OBVIOUS
    <3>1. Fits(st[n], m, st[m]) \/ Fits(st[m], n, st[n])
      BY <2>1 DEF Orderly, OneExchange, Active, Holding, Holders
    <3> QED
      BY <3>1 DEF Fits, Passing, Called, Holders
  <2>3. CASE Holders = {}
    <3>1. Cardinality(Holders) = 0
      BY <2>3, FS_EmptySet
    <3> QED
      BY <3>1
  <2>4. CASE Holders # {}
    <3>1. PICK n : n \in Holders
      BY <2>4
    <3>2. Holders = {n}
      BY <2>2, <3>1
    <3>3. Cardinality(Holders) = 1
      BY <3>2, FS_Singleton
    <3> QED
      BY <3>3
  <2> QED
    BY <2>3, <2>4
<1> QED
  BY <1>1, Invariance, PTL
=============================================================================
