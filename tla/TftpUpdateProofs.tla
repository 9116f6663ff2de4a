-------------------------- MODULE TftpUpdateProofs --------------------------
(***************************************************************************)
(* Proofs about the safety of TftpUpdate.tla, for any devices, any file    *)
(* and any numbers of tries and sessions.                                  *)
(***************************************************************************)
EXTENDS TftpUpdate, TLAPS

Sending == server \in {"send", "poll"}
Over == ISP_STEP \in {"OVER", "Done"}

(* The replies that have not been stored: under way, or just taken. *)
Pending == toServer \cup {rx}

(* How the step of the program and the place of the server's thread fit    *)
(* together, and what they say of the datagram in hand.                    *)
StepMeans ==
    /\ Sending => ISP_STEP = "TFTP" /\ retry <= Retries
    /\ Over => server \in {"loop", "stop", "none"}
    /\ rx.what = "dhcp" => ISP_STEP = "HAS_LANIP"
    /\ outcome = "success" => server \in {"stop", "none"}

(* An acknowledgement is of a package the device has received, and there   *)
(* is none before the first package.                                       *)
AckMeans ==
    \A a \in Pending : a.what = "ack" =>
        /\ Sending \/ Over \/ server \in {"stop", "none"}
        /\ a.from = target /\ a.number \in got[target]

(* What the numbers of the packages say, as long as they can be trusted. *)
NumbersAgree ==
    /\ ~Sending /\ ~Over /\ server \in {"loop", "lanip"} => next_package_number # 2
    /\ Sending => /\ \A n \in Numbers : n < package_number => target \in Devices /\ n \in got[target]
                  /\ Acknowledged => target \in Devices /\ package_number \in got[target]
    /\ Over \/ outcome = "success" => target \in Devices /\ got[target] = Numbers
NumbersMean == trusted => NumbersAgree

(* The name of the product and the address go together, a target with      *)
(* another product's name ends the session, and only the chosen device     *)
(* replies from its running firmware.                                      *)
ProductMeans ==
    CheckFirmware /\ Product[Chosen] # "other" =>
        /\ \A r \in toServer : r.what = "runtime" => r.from = Chosen
        /\ replied \in Devices /\ Product[replied] = "other" => product = "other"
        /\ ISP_STEP = "TFTP" => replied \in Devices /\ Product[replied] = "fits"
        /\ target \in Devices /\ Product[target] = "other" => server \in {"stop", "none"}

IInv == TypeOK /\ StepMeans /\ AckMeans /\ NumbersMean /\ ProductMeans /\ OnlyFitting

(* The parts of the type invariant. *)
Places ==
    /\ ISP_STEP \in Steps
    /\ server \in {"none", "loop", "lanip", "send", "poll", "stop"}
    /\ outcome \in {"none", "success", "failure"}
    /\ replied \in Devices \cup {None} /\ target \in Devices \cup {None}
    /\ product \in {"fits", "other", ""}
Counts ==
    /\ tries \in [Steps -> Nat] /\ sessions \in Nat
    /\ package_number \in Numbers /\ next_package_number \in 1 .. Packages + 1
    /\ retry \in 0 .. Retries + 1
Flags == entered \in BOOLEAN /\ connected \in BOOLEAN /\ trusted \in BOOLEAN
Traffic ==
    /\ rx \in Datagrams \cup {Idle}
    /\ toServer \subseteq Datagrams
    /\ got \in [Devices -> SUBSET Numbers]
-----------------------------------------------------------------------------
(* The fields and the types of what the devices reply. *)
LEMMA ReplyTypes ==
  /\ \A d \in Devices, w \in {"runtime", "dhcp", "end"} :
        From(d, w) \in Datagrams /\ From(d, w).from = d /\ From(d, w).what = w
  /\ \A d \in Devices, n \in Numbers :
        /\ Ack(d, n) \in Datagrams
        /\ Ack(d, n).from = d /\ Ack(d, n).what = "ack" /\ Ack(d, n).number = n
  /\ Idle.what = "idle"
  /\ \A r \in Datagrams : /\ r.from \in Devices /\ r.what \in {"runtime", "dhcp", "end", "ack"}
                          /\ r.what = "ack" => r.number \in Numbers
  BY DEF From, Ack, Datagrams, Idle

LEMMA ReplyKeepsTypes ==
  ASSUME TypeOK, NEW replies \in SUBSET Datagrams, MayReply(replies)
  PROVE  toServer' \subseteq Datagrams
  BY DEF TypeOK, MayReply

LEMMA Limits == Packages \in Nat \ {0} /\ Retries \in Nat
  BY NumbersAssumption

LEMMA NumberTypes ==
  /\ 1 \in Numbers /\ 1 \in 1 .. Packages + 1 /\ 0 \in 0 .. Retries + 1
  /\ \A n \in Numbers : n + 1 \in 1 .. Packages + 1 /\ (n # Packages => n + 1 \in Numbers)
  BY Limits DEF Numbers

LEMMA PartsOfTypes == TypeOK <=> Places /\ Counts /\ Flags /\ Traffic
  BY DEF TypeOK, Places, Counts, Flags, Traffic

(* Every step keeps the types. *)
LEMMA PlacesStep ==
  ASSUME TypeOK, [Next]_vars
  PROVE  Places'
<1> USE PartsOfTypes DEF Places, Steps
<1>1. CASE Start \/ Finish
  BY <1>1, DevicesAssumption DEF Start, Finish, shared
<1>2. CASE SendCommand \/ SendDone
  BY <1>2 DEF SendCommand, SendDone, Try, shared
<1>3. ASSUME NEW step \in Steps, NEW limit, GiveUp(step, limit)
      PROVE  Places'
  BY <1>3 DEF GiveUp, Stop, shared
<1>4. CASE EnterLanip \/ SendDhcp \/ End
  BY <1>4 DEF EnterLanip, SendDhcp, End, Stop, shared
<1>5. CASE BeginFile
  BY <1>5 DEF BeginFile
<1>6. CASE SendPackage \/ NextPackage \/ RetryPackage
  BY <1>6 DEF SendPackage, NextPackage, RetryPackage, Stop, shared
<1>7. ASSUME NEW r \in toServer, RxCommand(r)
      PROVE  Places'
  <2>1. r.from \in Devices /\ Product[r.from] \in {"fits", "other", ""}
    BY <1>7, ReplyTypes, DevicesAssumption DEF Traffic
  <2> QED
    BY <1>7, <2>1 DEF RxCommand
<1>8. ASSUME NEW r \in toServer, RxLanip(r) \/ RxAck(r) \/ RxEnd(r) \/ RxDrop(r)
      PROVE  Places'
  <2>1. /\ UNCHANGED <<server, outcome, target>> /\ ISP_STEP' \in {ISP_STEP, "Done"}
        /\ replied' \in {replied, None} /\ product' \in {product, ""}
    BY <1>8 DEF RxLanip, RxAck, RxEnd, RxDrop, shared
  <2> QED
    BY <2>1
<1>9. CASE RxLanipStore
  <2>1. rx.from \in Devices /\ Product[rx.from] \in {"fits", "other", ""}
    BY <1>9, ReplyTypes, DevicesAssumption DEF Traffic, RxLanipStore
  <2> QED
    BY <1>9, <2>1 DEF RxLanipStore, GoesOn
<1>10. CASE RxAckStore \/ UNCHANGED vars
  BY <1>10 DEF RxAckStore, vars, shared
<1>11. {"SEND_FLASH_COMMAND", "OVER"} \subseteq Steps
  OBVIOUS
<1> QED
  BY <1>1, <1>2, <1>3, <1>4, <1>5, <1>6, <1>7, <1>8, <1>9, <1>10, <1>11
  DEF Next, Serves, OnReceive

LEMMA CountsStep ==
  ASSUME TypeOK, StepMeans, [Next]_vars
  PROVE  Counts'
<1> USE PartsOfTypes DEF Counts, Steps
<1>1. CASE Start
  <2>1. /\ sessions' = sessions + 1 /\ tries' = [s \in Steps |-> 0]
        /\ UNCHANGED <<package_number, next_package_number, retry>>
    BY <1>1 DEF Start
  <2> QED
    BY <2>1
<1>2. CASE SendCommand \/ SendDone
  BY <1>2 DEF SendCommand, SendDone, Try, shared
<1>3. ASSUME NEW step \in Steps, NEW limit, GiveUp(step, limit)
      PROVE  Counts'
  BY <1>3 DEF GiveUp, shared
<1>4. CASE SendDhcp
  BY <1>4 DEF SendDhcp
<1>5. CASE BeginFile
  BY <1>5, NumberTypes DEF BeginFile
<1>6. CASE NextPackage
  <2>1. /\ UNCHANGED <<tries, sessions, next_package_number>>
        /\ \/ package_number' = package_number + 1 /\ retry' = 0 /\ package_number # Packages
           \/ UNCHANGED <<package_number, retry>>
    BY <1>6 DEF NextPackage, FileEnds
  <2> QED
    BY <2>1, NumberTypes
<1>7. CASE RetryPackage
  <2>0. retry <= Retries /\ Retries \in Nat
    <3>1. server = "poll"
      BY <1>7 DEF RetryPackage
    <3>2. Retries \in Nat
      BY Limits
    <3> QED
      BY <3>1, <3>2 DEF StepMeans, Sending
  <2>1. retry \in 0 .. Retries /\ Retries \in Nat
    BY <2>0
  <2>2. UNCHANGED <<tries, sessions, package_number, next_package_number>> /\ retry' = retry + 1
    BY <1>7 DEF RetryPackage, shared
  <2> QED
    BY <2>1, <2>2
<1>8. CASE RxAckStore
  <2>1. /\ UNCHANGED <<tries, sessions, package_number, retry>>
        /\ next_package_number' = package_number + 1
    BY <1>8 DEF RxAckStore
  <2> QED
    BY <2>1, NumberTypes
<1>9. ASSUME NEW r \in toServer,
             RxCommand(r) \/ RxLanip(r) \/ RxAck(r) \/ RxEnd(r) \/ RxDrop(r)
      PROVE  Counts'
  BY <1>9 DEF RxCommand, RxLanip, RxAck, RxEnd, RxDrop, shared
<1>10. CASE Finish \/ EnterLanip \/ SendPackage \/ End \/ RxLanipStore \/ UNCHANGED vars
  BY <1>10 DEF Finish, EnterLanip, SendPackage, End, RxLanipStore, vars, shared
<1> QED
  BY <1>1, <1>2, <1>3, <1>4, <1>5, <1>6, <1>7, <1>8, <1>9, <1>10 DEF Next, Serves, OnReceive

LEMMA FlagsStep ==
  ASSUME TypeOK, [Next]_vars
  PROVE  Flags'
<1> USE PartsOfTypes DEF Flags, Steps
<1>1. CASE Start \/ EnterLanip \/ BeginFile \/ RxAckStore
  BY <1>1 DEF Start, EnterLanip, BeginFile, RxAckStore
<1>2. CASE SendCommand \/ SendDhcp \/ SendPackage \/ NextPackage \/ RetryPackage \/ SendDone \/ End
  BY <1>2 DEF SendCommand, SendDhcp, SendPackage, NextPackage, RetryPackage, SendDone, End, shared
<1>3. ASSUME NEW step \in Steps, NEW limit, GiveUp(step, limit)
      PROVE  Flags'
  BY <1>3 DEF GiveUp, shared
<1>4. ASSUME NEW r \in toServer,
             RxCommand(r) \/ RxLanip(r) \/ RxAck(r) \/ RxEnd(r) \/ RxDrop(r)
      PROVE  Flags'
  BY <1>4 DEF RxCommand, RxLanip, RxAck, RxEnd, RxDrop, shared
<1>5. CASE Finish \/ RxLanipStore \/ UNCHANGED vars
  BY <1>5 DEF Finish, RxLanipStore, vars, shared
<1> QED
  BY <1>1, <1>2, <1>3, <1>4, <1>5 DEF Next, Serves, OnReceive

LEMMA TrafficStep ==
  ASSUME TypeOK, [Next]_vars
  PROVE  Traffic'
<1> USE PartsOfTypes DEF Traffic, Steps
<1>1. CASE Start
  BY <1>1 DEF Start
<1>2. CASE SendCommand
  <2>1. From(Chosen, "runtime") \in Datagrams /\ \A d \in Devices : From(d, "dhcp") \in Datagrams
    BY ReplyTypes, DevicesAssumption
  <2> QED
    BY <1>2, <2>1, ReplyKeepsTypes DEF SendCommand
<1>3. CASE SendDhcp
  <2>1. {From(d, "dhcp") : d \in {replied} \cap Devices} \subseteq Datagrams
    BY ReplyTypes
  <2> QED
    BY <1>3, <2>1, ReplyKeepsTypes DEF SendDhcp
<1>4. CASE SendPackage
  <2>1. target \in Devices => {Ack(target, package_number)} \subseteq Datagrams
    BY ReplyTypes DEF Counts
  <2>2. toServer' \subseteq Datagrams
    BY <1>4, <2>1, ReplyKeepsTypes DEF SendPackage
  <2>3. got' \in [Devices -> SUBSET Numbers]
    BY <1>4 DEF SendPackage, Counts
  <2> QED
    BY <1>4, <2>2, <2>3 DEF SendPackage
<1>5. CASE SendDone
  <2>1. {From(d, "end") : d \in {target} \cap Devices} \subseteq Datagrams
    BY ReplyTypes
  <2> QED
    BY <1>5, <2>1, ReplyKeepsTypes DEF SendDone
<1>6. ASSUME NEW r \in toServer,
             RxCommand(r) \/ RxLanip(r) \/ RxAck(r) \/ RxEnd(r) \/ RxDrop(r)
      PROVE  Traffic'
  BY <1>6 DEF RxCommand, RxLanip, RxAck, RxEnd, RxDrop, Takes
<1>7. CASE RxLanipStore \/ RxAckStore
  BY <1>7 DEF RxLanipStore, RxAckStore
<1>8. ASSUME NEW step \in Steps, NEW limit, GiveUp(step, limit)
      PROVE  Traffic'
  BY <1>8 DEF GiveUp
<1>9. CASE \/ Finish \/ EnterLanip \/ BeginFile \/ NextPackage \/ RetryPackage \/ End
           \/ UNCHANGED vars
  BY <1>9 DEF Finish, EnterLanip, BeginFile, NextPackage, RetryPackage, End, vars
<1> QED
  BY <1>1, <1>2, <1>3, <1>4, <1>5, <1>6, <1>7, <1>8, <1>9 DEF Next, Serves, OnReceive

LEMMA TypeStep ==
  ASSUME TypeOK, StepMeans, [Next]_vars
  PROVE  TypeOK'
<1>1. Places' /\ Counts' /\ Flags' /\ Traffic'
  BY PlacesStep, CountsStep, FlagsStep, TrafficStep
<1> QED
  BY <1>1 DEF TypeOK, Places, Counts, Flags, Traffic

-----------------------------------------------------------------------------
(* Every step keeps what the invariant says of the steps. *)
LEMMA StepMeansStep ==
  ASSUME TypeOK, StepMeans, [Next]_vars
  PROVE  StepMeans'
<1> USE DEF StepMeans, Sending, Over
<1>1. CASE Start \/ Finish
  BY <1>1, ReplyTypes DEF Start, Finish, shared
<1>2. CASE SendCommand \/ SendDone
  BY <1>2 DEF SendCommand, SendDone, Try, shared
<1>3. ASSUME NEW step \in Steps, NEW limit, GiveUp(step, limit)
      PROVE  StepMeans'
  BY <1>3 DEF GiveUp, Stop, shared
<1>4. CASE EnterLanip \/ SendDhcp \/ End
  BY <1>4 DEF EnterLanip, SendDhcp, End, Stop, shared
<1>5. CASE BeginFile
  <2>1. Retries \in Nat
    BY Limits
  <2> QED
    BY <1>5, <2>1 DEF BeginFile
<1>6. CASE SendPackage
  BY <1>6 DEF SendPackage, shared
<1>7. CASE NextPackage
  <2>1. Retries \in Nat
    BY Limits
  <2> QED
    BY <1>7, <2>1 DEF NextPackage, Stop
<1>8. CASE RetryPackage
  <2>1. Retries \in Nat /\ retry \in Int
    BY Limits, PartsOfTypes DEF Counts
  <2> QED
    BY <1>8, <2>1 DEF RetryPackage, Stop, shared
<1>9. ASSUME NEW r \in toServer,
             RxCommand(r) \/ RxLanip(r) \/ RxAck(r) \/ RxEnd(r) \/ RxDrop(r)
      PROVE  StepMeans'
  BY <1>9 DEF RxCommand, RxLanip, RxAck, RxEnd, RxDrop, Takes, shared
<1>10. CASE RxLanipStore \/ RxAckStore
  BY <1>10, ReplyTypes DEF RxLanipStore, RxAckStore, GoesOn
<1>11. CASE UNCHANGED vars
  BY <1>11 DEF vars, shared
<1> QED
  BY <1>1, <1>2, <1>3, <1>4, <1>5, <1>6, <1>7, <1>8, <1>9, <1>10, <1>11
  DEF Next, Serves, OnReceive, Steps

(* ... of the acknowledgements *)
LEMMA AckMeansStep ==
  ASSUME TypeOK, StepMeans, AckMeans, [Next]_vars
  PROVE  AckMeans'
<1> USE DEF AckMeans, Pending, Sending, Over
<1>1. CASE Start
  BY <1>1, ReplyTypes DEF Start
<1>2. CASE SendCommand \/ SendDone
  <2>1. \A a \in Pending' : a.what = "ack" => a \in Pending
    BY <1>2 DEF SendCommand, SendDone, MayReply, From
  <2> QED
    BY <1>2, <2>1 DEF SendCommand, SendDone, Try, shared
<1>3. ASSUME NEW step \in Steps, NEW limit, GiveUp(step, limit)
      PROVE  AckMeans'
  BY <1>3 DEF GiveUp, Stop, shared
<1>4. CASE Finish \/ EnterLanip \/ End
  BY <1>4 DEF Finish, EnterLanip, End, Stop, shared, StepMeans
<1>5. CASE SendDhcp
  BY <1>5, ReplyTypes DEF SendDhcp, MayReply, Stop, StepMeans
<1>6. CASE BeginFile
  BY <1>6 DEF BeginFile
<1>7. CASE SendPackage
  <2>1. \A a \in Pending' : a.what = "ack" =>
            \/ a \in Pending
            \/ target \in Devices /\ a = Ack(target, package_number)
               /\ got' = [got EXCEPT ![target] = @ \cup {package_number}]
    BY <1>7 DEF SendPackage, MayReply
  <2>2. \A d \in Devices : got[d] \subseteq got'[d]
    BY <1>7, PartsOfTypes DEF SendPackage, Traffic
  <2>3. UNCHANGED <<target, ISP_STEP>> /\ server = "send" /\ server' = "poll"
    BY <1>7 DEF SendPackage, shared
  <2>4. \A a \in Pending : a.what = "ack" => a.from \in Devices
    BY ReplyTypes, PartsOfTypes DEF Traffic
  <2>5. package_number \in Numbers /\ got \in [Devices -> SUBSET Numbers]
    BY PartsOfTypes DEF Counts, Traffic
  <2> QED
    BY <2>1, <2>2, <2>3, <2>4, <2>5, ReplyTypes
<1>8. CASE NextPackage \/ RetryPackage
  BY <1>8 DEF NextPackage, RetryPackage, Stop, shared
<1>9. ASSUME NEW r \in toServer,
             RxCommand(r) \/ RxLanip(r) \/ RxAck(r) \/ RxEnd(r) \/ RxDrop(r)
      PROVE  AckMeans'
  BY <1>9 DEF RxCommand, RxLanip, RxAck, RxEnd, RxDrop, Takes, shared
<1>10. CASE RxLanipStore \/ RxAckStore
  BY <1>10, ReplyTypes DEF RxLanipStore, RxAckStore, StepMeans
<1>11. CASE UNCHANGED vars
  BY <1>11 DEF vars, shared
<1> QED
  BY <1>1, <1>2, <1>3, <1>4, <1>5, <1>6, <1>7, <1>8, <1>9, <1>10, <1>11
  DEF Next, Serves, OnReceive, Steps

(* ... of the numbers of the packages *)
LEMMA NumbersMeanStep ==
  ASSUME TypeOK, StepMeans, AckMeans, NumbersMean, [Next]_vars
  PROVE  NumbersMean'
<1> USE DEF NumbersMean, NumbersAgree, Sending, Over, Acknowledged
<1>0. /\ package_number \in Nat /\ package_number \in Numbers /\ next_package_number \in Nat
      /\ \A n \in Numbers : n \in Nat /\ n >= 1 /\ n <= Packages
      /\ got \in [Devices -> SUBSET Numbers]
  <2>1. Packages \in Nat
    BY Limits
  <2> QED
    BY <2>1, PartsOfTypes DEF Counts, Traffic, Numbers
<1>1. CASE Start
  BY <1>1 DEF Start
<1>2. CASE Finish
  BY <1>2 DEF Finish, shared, StepMeans
<1>3. CASE SendCommand \/ SendDone
  BY <1>3 DEF SendCommand, SendDone, Try, shared
<1>4. ASSUME NEW step \in Steps, NEW limit, GiveUp(step, limit)
      PROVE  NumbersMean'
  BY <1>4 DEF GiveUp, Stop, shared
<1>5. CASE EnterLanip \/ SendDhcp \/ End
  BY <1>5 DEF EnterLanip, SendDhcp, End, Stop, shared, StepMeans
<1>6. CASE BeginFile
  <2>1. /\ server = "loop" /\ ISP_STEP = "TFTP" /\ trusted' = trusted
        /\ UNCHANGED <<ISP_STEP, next_package_number, outcome>>
        /\ (server' = "send" /\ package_number' = 1) \/ server' = "none"
    BY <1>6 DEF BeginFile
  <2>2. ~Over' /\ outcome' # "success"
    BY <2>1 DEF StepMeans
  <2>3. next_package_number # 2 /\ server' = "send" => NumbersAgree'
    BY <1>0, <2>1, <2>2
  <2>4. server' = "none" => NumbersAgree'
    BY <2>1, <2>2
  <2> QED
    BY <2>1, <2>3, <2>4
<1>7. CASE SendPackage
  <2>1. \A d \in Devices : got[d] \subseteq got'[d] /\ got'[d] \subseteq Numbers
    BY <1>0, <1>7, PartsOfTypes DEF SendPackage, Counts
  <2> QED
    BY <1>0, <1>7, <2>1 DEF SendPackage, shared
<1>8. CASE NextPackage
  <2>1. trusted' = trusted
    BY <1>8 DEF NextPackage
  <2>2. ASSUME NumbersAgree
        PROVE  NumbersAgree'
    <3>1. /\ server = "poll" /\ UNCHANGED <<target, got, next_package_number>>
          /\ next_package_number = package_number + 1
          /\ \/ /\ package_number' = package_number + 1 /\ server' = "send"
                /\ UNCHANGED <<ISP_STEP, outcome>>
             \/ package_number = Packages /\ server' = "loop" /\ ISP_STEP' = "OVER"
             \/ server' = "stop" /\ outcome' = "failure" /\ UNCHANGED ISP_STEP
      BY <1>8 DEF NextPackage, FileEnds, Stop
    <3>2. \A n \in Numbers : n <= package_number => target \in Devices /\ n \in got[target]
      BY <1>0, <2>2, <3>1
    <3>3. server' = "send" => NumbersAgree'
      BY <1>0, <2>2, <3>1, <3>2
    <3>4. server' = "loop" => NumbersAgree'
      <4>1. CASE package_number = Packages /\ server' = "loop" /\ ISP_STEP' = "OVER"
        <5>1. \A n \in Numbers : target \in Devices /\ n \in got[target]
          BY <1>0, <3>2, <4>1
        <5>2. target \in Devices /\ got[target] = Numbers
          BY <1>0, <5>1
        <5> QED
          BY <3>1, <4>1, <5>2
      <4> QED
        BY <3>1, <4>1
    <3>5. server' = "stop" => NumbersAgree'
      BY <2>2, <3>1
    <3> QED
      BY <3>1, <3>3, <3>4, <3>5
  <2> QED
    BY <2>1, <2>2
<1>9. CASE RetryPackage
  BY <1>9 DEF RetryPackage, Stop, shared
<1>10. ASSUME NEW r \in toServer,
             RxCommand(r) \/ RxLanip(r) \/ RxAck(r) \/ RxEnd(r) \/ RxDrop(r)
      PROVE  NumbersMean'
  BY <1>10 DEF RxCommand, RxLanip, RxAck, RxEnd, RxDrop, shared
<1>11. CASE RxLanipStore
  BY <1>11 DEF RxLanipStore, GoesOn, StepMeans
<1>12. CASE RxAckStore
  <2>1. trusted' => trusted /\ rx.number = package_number
    BY <1>12 DEF RxAckStore
  <2>2. ASSUME NumbersAgree, rx.number = package_number
        PROVE  NumbersAgree'
    <3>1. /\ UNCHANGED <<server, ISP_STEP, outcome, target, got, package_number>>
          /\ next_package_number' = package_number + 1
          /\ Sending \/ Over \/ server \in {"stop", "none"}
          /\ rx.from = target /\ package_number \in got[target] /\ rx \in Datagrams
      BY <1>12, <2>2, ReplyTypes, PartsOfTypes DEF RxAckStore, AckMeans, Pending, Traffic
    <3> QED
      BY <2>2, <3>1, ReplyTypes
  <2> QED
    BY <2>1, <2>2
<1>13. CASE UNCHANGED vars
  BY <1>13 DEF vars, shared
<1> QED
  BY <1>1, <1>2, <1>3, <1>4, <1>5, <1>6, <1>7, <1>8, <1>9, <1>10, <1>11, <1>12, <1>13
  DEF Next, Serves, OnReceive, Steps

(* ... of the names and the addresses *)
LEMMA ProductMeansStep ==
  ASSUME TypeOK, ProductMeans, OnlyFitting, [Next]_vars
  PROVE  ProductMeans' /\ OnlyFitting'
<1> SUFFICES ASSUME CheckFirmware, Product[Chosen] # "other"
             PROVE  ProductMeans' /\ OnlyFitting'
  BY DEF ProductMeans, OnlyFitting
<1> USE DEF ProductMeans, OnlyFitting
<1>0. Chosen \in Devices /\ None \notin Devices /\ toServer \subseteq Datagrams
  BY DevicesAssumption, PartsOfTypes DEF Traffic
<1>1. CASE Start
  BY <1>0, <1>1 DEF Start
<1>2. CASE Finish \/ End
  BY <1>2 DEF Finish, End, Stop, shared
<1>3. CASE SendCommand
  <2>1. \A r \in toServer' : r.what = "runtime" => r \in toServer \/ r.from = Chosen
    BY <1>3 DEF SendCommand, MayReply, From
  <2> QED
    BY <1>3, <2>1 DEF SendCommand, shared
<1>4. ASSUME NEW step \in Steps, NEW limit, GiveUp(step, limit)
      PROVE  ProductMeans' /\ OnlyFitting'
  BY <1>4 DEF GiveUp, Stop, shared
<1>5. CASE EnterLanip
  BY <1>5 DEF EnterLanip
<1>6. CASE SendDhcp
  <2>1. \A r \in toServer' : r.what = "runtime" => r \in toServer
    BY <1>6 DEF SendDhcp, MayReply, From
  <2> QED
    BY <1>6, <2>1 DEF SendDhcp, Stop
<1>7. CASE BeginFile
  BY <1>7 DEF BeginFile
<1>8. CASE SendPackage
  <2>1. \A r \in toServer' : r.what = "runtime" => r \in toServer
    BY <1>8 DEF SendPackage, MayReply, Ack
  <2>2. \A d \in Devices : Product[d] = "other" => got'[d] = got[d]
    BY <1>8, PartsOfTypes DEF SendPackage, Traffic
  <2> QED
    BY <1>8, <2>1, <2>2 DEF SendPackage, shared
<1>9. CASE NextPackage \/ RetryPackage
  BY <1>9 DEF NextPackage, RetryPackage, Stop, shared
<1>10. CASE SendDone
  <2>1. \A r \in toServer' : r.what = "runtime" => r \in toServer
    BY <1>10 DEF SendDone, MayReply, From
  <2> QED
    BY <1>10, <2>1 DEF SendDone, shared
<1>11. ASSUME NEW r \in toServer, RxCommand(r)
       PROVE  ProductMeans' /\ OnlyFitting'
  BY <1>0, <1>11, ReplyTypes DEF RxCommand, Takes
<1>12. ASSUME NEW r \in toServer, RxLanip(r)
       PROVE  ProductMeans' /\ OnlyFitting'
  BY <1>0, <1>12 DEF RxLanip, Takes
<1>13. ASSUME NEW r \in toServer, RxAck(r) \/ RxEnd(r) \/ RxDrop(r)
       PROVE  ProductMeans' /\ OnlyFitting'
  BY <1>13 DEF RxAck, RxEnd, RxDrop, Takes, shared
<1>14. CASE RxLanipStore
  <2>1. rx.from \in Devices
    BY <1>14, ReplyTypes, PartsOfTypes DEF RxLanipStore, Traffic
  <2> QED
    BY <1>14, <2>1, DevicesAssumption DEF RxLanipStore, GoesOn
<1>15. CASE RxAckStore
  BY <1>15 DEF RxAckStore
<1>16. CASE UNCHANGED vars
  BY <1>16 DEF vars, shared
<1> QED
  BY <1>1, <1>2, <1>3, <1>4, <1>5, <1>6, <1>7, <1>8, <1>9, <1>10, <1>11, <1>12, <1>13,
     <1>14, <1>15, <1>16 DEF Next, Serves, OnReceive, Steps

-----------------------------------------------------------------------------
LEMMA Initially == Init => IInv
<1> SUFFICES ASSUME Init
             PROVE  IInv
  OBVIOUS
<1>1. Places /\ Flags
  BY DEF Init, Places, Flags, Steps
<1>2. Counts
  <2>1. Retries \in Nat
    BY Limits
  <2> QED
    BY <2>1, NumberTypes DEF Init, Counts, Steps
<1>3. Traffic
  BY DEF Init, Traffic
<1>4. StepMeans /\ AckMeans
  BY ReplyTypes DEF Init, StepMeans, Sending, Over, AckMeans, Pending
<1>5. NumbersMean
  BY DEF Init, NumbersMean, NumbersAgree, Sending, Over
<1>6. ProductMeans /\ OnlyFitting
  BY DevicesAssumption DEF Init, ProductMeans, OnlyFitting
<1> QED
  BY <1>1, <1>2, <1>3, <1>4, <1>5, <1>6, PartsOfTypes DEF IInv

LEMMA Inductive == IInv /\ [Next]_vars => IInv'
<1> SUFFICES ASSUME IInv, [Next]_vars
             PROVE  IInv'
  OBVIOUS
<1>1. TypeOK' /\ StepMeans' /\ AckMeans'
  BY TypeStep, StepMeansStep, AckMeansStep DEF IInv
<1>2. NumbersMean' /\ ProductMeans' /\ OnlyFitting'
  BY NumbersMeanStep, ProductMeansStep DEF IInv
<1> QED
  BY <1>1, <1>2 DEF IInv

(* The strengthened invariant. *)
THEOREM Invariance == Spec => []IInv
  BY Initially, Inductive, PTL DEF Spec

(* The threads keep the types of what they share. *)
THEOREM TypeCorrect == Spec => []TypeOK
<1>1. IInv => TypeOK
  BY DEF IInv
<1> QED
  BY <1>1, Invariance, PTL

(* For every file and every number of tries, a package is sent only after  *)
(* the device has received all packages before it, as long as the number   *)
(* of the next package was neither torn nor left by another session.       *)
THEOREM PackagesGoInOrder == Spec => []PackagesInOrder
<1>1. IInv => PackagesInOrder
  <2> SUFFICES ASSUME IInv, server \in {"send", "poll"}, trusted, package_number > 1
               PROVE  target \in Devices /\ 1 .. package_number - 1 \subseteq got[target]
    BY DEF PackagesInOrder
  <2>1. Packages \in Nat /\ package_number \in Numbers
    BY Limits, PartsOfTypes DEF IInv, Counts
  <2>2. \A n \in Numbers : n < package_number => target \in Devices /\ n \in got[target]
    BY DEF IInv, NumbersMean, NumbersAgree, Sending
  <2>3. /\ 1 \in Numbers /\ 1 < package_number
        /\ \A n \in 1 .. package_number - 1 : n \in Numbers /\ n < package_number
    BY <2>1 DEF Numbers
  <2> QED
    BY <2>2, <2>3
<1> QED
  BY <1>1, Invariance, PTL

(* An update that is reported as a success has brought the whole file to the *)
(* device, with the same exception.                                          *)
THEOREM SuccessMeansComplete == Spec => []SuccessIsComplete
<1>1. IInv => SuccessIsComplete
  BY DEF IInv, NumbersMean, NumbersAgree, SuccessIsComplete
<1> QED
  BY <1>1, Invariance, PTL

(* Whatever devices reply, and in whatever order, no package goes to a     *)
(* device whose name is another product's.                                 *)
THEOREM FilesGoWhereTheyFit == Spec => []OnlyFitting
<1>1. IInv => OnlyFitting
  BY DEF IInv
<1> QED
  BY <1>1, Invariance, PTL
=============================================================================
