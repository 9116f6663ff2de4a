----------------------------- MODULE TftpUpdate -----------------------------
(***************************************************************************)
(* A firmware update over the network (ISP/TFTPServer.cpp): the thread of  *)
(* TFTPServer::StartServer, which sends, and MySocket::OnReceive, which    *)
(* the main thread runs for each datagram.  They share plain globals:      *)
(* ISP_STEP, the numbers of the packages, and the reply of the device.     *)
(*                                                                         *)
(* A datagram that is sent reaches its device at once or is lost; replies  *)
(* are lost, late and reordered, and end with the sockets of the session.  *)
(***************************************************************************)
EXTENDS Integers, FiniteSets

CONSTANTS
    Devices,        \* the devices that hear a broadcast
    Chosen,         \* the device the user has chosen
    Product,        \* device -> "fits", "other", or "" if it gives no name
    None,           \* 0.0.0.0
    CheckFirmware,  \* n_check_temco_firmware # 0
    Packages,       \* the packages of the file
    CommandTries,   \* 20, of the command to start
    DhcpTries,      \* 20, of the address for the device
    DoneTries,      \* 10, of FLASH DONE
    Retries,        \* 10, of each package
    MaxSessions     \* bound: updates one after the other

ASSUME DevicesAssumption ==
    /\ Chosen \in Devices /\ None \notin Devices
    /\ Product \in [Devices -> {"fits", "other", ""}]
    /\ CheckFirmware \in BOOLEAN
ASSUME NumbersAssumption ==
    /\ Packages \in Nat \ {0}
    /\ {CommandTries, DhcpTries, DoneTries, Retries, MaxSessions} \subseteq Nat
ASSUME PackagesFitAWord == Packages <= 65535

VARIABLES
    ISP_STEP,
    server,              \* where the server's thread is
    tries,               \* the tries of each step
    entered,             \* has_enter_dhcp_has_lanip_block
    replied,             \* Byte_ISP_Device_IP
    product,             \* Product_Name
    target,              \* ISP_Device_IP
    connected,           \* m_tcp_connect_results
    package_number,
    next_package_number,
    retry,
    rx,                  \* where OnReceive is, and with which datagram
    toServer,            \* the replies that are under way
    sessions,            \* the updates that were started
    outcome,             \* the result that the dialog shows
    got,                 \* the packages of this session each device has received
    trusted              \* the number of the next package comes from one reply of this session

shared == <<ISP_STEP, entered, replied, product, target, package_number, next_package_number>>
vars == <<shared, server, tries, connected, retry, rx, toServer, sessions, outcome, got, trusted>>

Steps == {"SEND_FLASH_COMMAND", "HAS_LANIP", "TFTP", "OVER", "Done", "FAILED"}
Numbers == 1 .. Packages

(* from the device's running firmware, from its bootloader, the           *)
(* acknowledgement of a package, and of FLASH DONE                        *)
Datagrams == [from : Devices, what : {"runtime", "dhcp", "end"}, number : {0}]
             \cup [from : Devices, what : {"ack"}, number : Numbers]
From(d, what) == [from |-> d, what |-> what, number |-> 0]
Ack(d, n) == [from |-> d, what |-> "ack", number |-> n]
Idle == From(Chosen, "idle")

Init ==
    /\ ISP_STEP = "SEND_FLASH_COMMAND"
    /\ server = "none"
    /\ tries = [s \in Steps |-> 0]
    /\ entered = FALSE
    /\ replied = None /\ product = "" /\ target = None
    /\ connected = FALSE
    /\ package_number = 1 /\ next_package_number = 1
    /\ retry = 0
    /\ rx = Idle
    /\ toServer = {}
    /\ sessions = 0 /\ outcome = "none"
    /\ got = [d \in Devices |-> {}]
    /\ trusted = TRUE

(* any of the replies may be under way after what was sent *)
MayReply(replies) == \E answers \in SUBSET replies : toServer' = toServer \cup answers

-----------------------------------------------------------------------------
(* The session, begun and ended by the dialog in the main thread. *)

(* TFTPServer::FlashByEthernet and the beginning of StartServer.  The     *)
(* numbers of the packages stay what the last session has left.           *)
Start ==
    /\ server = "none" /\ sessions < MaxSessions
    /\ sessions' = sessions + 1
    /\ ISP_STEP' = "SEND_FLASH_COMMAND" /\ server' = "loop"
    /\ tries' = [s \in Steps |-> 0]
    /\ entered' = FALSE /\ replied' = None /\ product' = "" /\ target' = Chosen
    /\ connected' \in BOOLEAN
    /\ rx' = Idle /\ toServer' = {} /\ outcome' = "none"
    /\ got' = [d \in Devices |-> {}]
    /\ trusted' = (next_package_number # 2)
    /\ UNCHANGED <<package_number, next_package_number, retry>>

(* WriteFinish posts the result, and OnFlashFinish deletes the server *)
Stop(result) == server' = "stop" /\ outcome' = result

Finish ==
    /\ server = "stop" /\ rx = Idle
    /\ server' = "none"
    /\ UNCHANGED <<shared, tries, connected, retry, rx, toServer, sessions, outcome, got, trusted>>

-----------------------------------------------------------------------------
(* The server's thread. *)

Try(limit) ==
    /\ server = "loop" /\ tries[ISP_STEP] < limit
    /\ tries' = [tries EXCEPT ![ISP_STEP] = @ + 1]

GiveUp(step, limit) ==
    /\ server = "loop" /\ ISP_STEP = step /\ tries[step] >= limit
    /\ Stop("failure")
    /\ UNCHANGED <<shared, tries, connected, retry, rx, toServer, sessions, got, trusted>>

(* the command goes to the chosen device, the address of its choice to all *)
SendCommand ==
    /\ ISP_STEP = "SEND_FLASH_COMMAND" /\ Try(CommandTries)
    /\ MayReply({From(Chosen, "runtime")} \cup {From(d, "dhcp") : d \in Devices})
    /\ UNCHANGED <<shared, server, connected, retry, rx, sessions, outcome, got, trusted>>

EnterLanip ==
    /\ server = "loop" /\ ISP_STEP = "HAS_LANIP"
    /\ entered' = TRUE /\ server' = "lanip"
    /\ UNCHANGED <<ISP_STEP, replied, product, target, package_number, next_package_number,
                   tries, connected, retry, rx, toServer, sessions, outcome, got, trusted>>

SendDhcp ==
    /\ server = "lanip"
    /\ target' = replied
    /\ IF product = "other" \/ tries["HAS_LANIP"] >= DhcpTries
       THEN Stop("failure") /\ UNCHANGED <<tries, toServer>>
       ELSE /\ server' = "loop"
            /\ tries' = [tries EXCEPT !["HAS_LANIP"] = @ + 1]
            /\ MayReply({From(d, "dhcp") : d \in {replied} \cap Devices})
            /\ UNCHANGED outcome
    /\ UNCHANGED <<ISP_STEP, entered, replied, product, package_number, next_package_number,
                   connected, retry, rx, sessions, got, trusted>>

(* without a Modbus connection yet, one is tried to the device that replied;  *)
(* if its bootloader is too old the thread ends for another update            *)
BeginFile ==
    /\ server = "loop" /\ ISP_STEP = "TFTP"
    /\ target' = IF connected THEN target ELSE replied
    /\ connected' \in {connected, TRUE}
    /\ \/ server' = "send" /\ package_number' = 1 /\ retry' = 0
       \/ ~connected /\ connected' /\ server' = "none" /\ UNCHANGED <<package_number, retry>>
    /\ UNCHANGED <<ISP_STEP, entered, replied, product, next_package_number, tries, rx, toServer,
                   sessions, outcome, got, trusted>>

SendPackage ==
    /\ server = "send" /\ server' = "poll"
    /\ \/ UNCHANGED <<got, toServer>>
       \/ /\ target \in Devices
          /\ got' = [got EXCEPT ![target] = @ \cup {package_number}]
          /\ MayReply({Ack(target, package_number)})
    /\ UNCHANGED <<shared, tries, connected, retry, rx, sessions, outcome, trusted>>

(* faulty: the acknowledgement of the package before is enough *)
BeforeAcknowledged == next_package_number >= package_number

Acknowledged == next_package_number = package_number + 1

(* faulty: the last package is left out, or one too many is sent *)
FileEndsEarly == package_number + 1 >= Packages
FileEndsLate == package_number > Packages

FileEnds == package_number = Packages

(* "if(retry>=10)": the acknowledgement of the last try comes too late *)
NextPackage ==
    /\ server = "poll" /\ Acknowledged
    /\ \/ /\ retry < Retries /\ ~FileEnds
          /\ package_number' = package_number + 1 /\ retry' = 0
          /\ server' = "send" /\ UNCHANGED <<ISP_STEP, outcome>>
       \/ /\ retry < Retries /\ FileEnds
          /\ ISP_STEP' = "OVER" /\ server' = "loop"
          /\ UNCHANGED <<package_number, retry, outcome>>
       \/ /\ retry >= Retries
          /\ Stop("failure") /\ UNCHANGED <<ISP_STEP, package_number, retry>>
    /\ UNCHANGED <<entered, replied, product, target, next_package_number, tries, connected, rx,
                   toServer, sessions, got, trusted>>

(* faulty: the tries are not counted *)
RetryForEver ==
    /\ server = "poll" /\ ~Acknowledged
    /\ server' = "send"
    /\ UNCHANGED <<shared, tries, connected, retry, rx, toServer, sessions, outcome, got, trusted>>

RetryPackage ==
    /\ server = "poll" /\ ~Acknowledged
    /\ retry' = retry + 1
    /\ IF retry < Retries THEN server' = "send" /\ UNCHANGED outcome ELSE Stop("failure")
    /\ UNCHANGED <<shared, tries, connected, rx, toServer, sessions, got, trusted>>

SendDone ==
    /\ ISP_STEP = "OVER" /\ Try(DoneTries)
    /\ MayReply({From(d, "end") : d \in {target} \cap Devices})
    /\ UNCHANGED <<shared, server, connected, retry, rx, sessions, outcome, got, trusted>>

End ==
    /\ server = "loop" /\ ISP_STEP \in {"Done", "FAILED"}
    /\ Stop(IF ISP_STEP = "Done" THEN "success" ELSE "failure")
    /\ UNCHANGED <<shared, tries, connected, retry, rx, toServer, sessions, got, trusted>>

-----------------------------------------------------------------------------
(* MySocket::OnReceive in the main thread; who sent a datagram is never     *)
(* looked at.                                                               *)

Takes(r) ==
    /\ server # "none" /\ rx = Idle /\ r \in toServer
    /\ toServer' = toServer \ {r}

(* while the command is sent, "prioritize processing replies from the target *)
(* IP address" has its return commented out: every device that fits will do  *)
RxCommand(r) ==
    /\ Takes(r) /\ ISP_STEP = "SEND_FLASH_COMMAND"
    /\ \/ r.what = "runtime" /\ replied' = r.from /\ ISP_STEP' = "HAS_LANIP" /\ UNCHANGED product
       \/ /\ r.what = "dhcp" /\ replied' = r.from /\ product' = Product[r.from]
          /\ ISP_STEP' = IF Product[r.from] = "fits" \/ ~CheckFirmware THEN "HAS_LANIP" ELSE ISP_STEP
    /\ UNCHANGED <<entered, target, package_number, next_package_number, server, tries, connected,
                   retry, rx, sessions, outcome, got, trusted>>

(* the address and the name are cleared *)
RxLanip(r) ==
    /\ Takes(r) /\ ISP_STEP = "HAS_LANIP" /\ entered /\ r.what = "dhcp"
    /\ replied' = None /\ product' = "" /\ rx' = r
    /\ UNCHANGED <<ISP_STEP, entered, target, package_number, next_package_number, server, tries,
                   connected, retry, sessions, outcome, got, trusted>>

(* faulty: the name is not compared *)
GoesOnAnyhow(d) == "TFTP"

GoesOn(d) ==
    IF Product[d] = "fits" \/ ~CheckFirmware THEN "TFTP"
    ELSE IF Product[d] = "other" THEN "FAILED" ELSE "HAS_LANIP"

(* ... and set to those of the sender *)
RxLanipStore ==
    /\ rx.what = "dhcp"
    /\ replied' = rx.from /\ product' = Product[rx.from]
    /\ ISP_STEP' = GoesOn(rx.from)
    /\ rx' = Idle
    /\ UNCHANGED <<entered, target, package_number, next_package_number, server, tries, connected,
                   retry, toServer, sessions, outcome, got, trusted>>

RxAck(r) ==
    /\ Takes(r) /\ ISP_STEP = "TFTP" /\ r.what = "ack" /\ r.number = package_number
    /\ rx' = r
    /\ UNCHANGED <<shared, server, tries, connected, retry, sessions, outcome, got, trusted>>

(* the number of the package is read a second time *)
RxAckStore ==
    /\ rx.what = "ack"
    /\ next_package_number' = package_number + 1
    /\ trusted' = (trusted /\ rx.number = package_number)
    /\ rx' = Idle
    /\ UNCHANGED <<ISP_STEP, entered, replied, product, target, package_number, server, tries,
                   connected, retry, toServer, sessions, outcome, got>>

RxEnd(r) ==
    /\ Takes(r) /\ ISP_STEP = "OVER" /\ r.what = "end"
    /\ ISP_STEP' = "Done"
    /\ UNCHANGED <<entered, replied, product, target, package_number, next_package_number, server,
                   tries, connected, retry, rx, sessions, outcome, got, trusted>>

(* a reply that the step does not expect *)
RxDrop(r) ==
    /\ Takes(r)
    /\ ~ \/ ISP_STEP = "SEND_FLASH_COMMAND" /\ r.what \in {"runtime", "dhcp"}
         \/ ISP_STEP = "HAS_LANIP" /\ entered /\ r.what = "dhcp"
         \/ ISP_STEP = "TFTP" /\ r.what = "ack" /\ r.number = package_number
         \/ ISP_STEP = "OVER" /\ r.what = "end"
    /\ UNCHANGED <<shared, server, tries, connected, retry, rx, sessions, outcome, got, trusted>>

Serves ==
    \/ SendCommand \/ GiveUp("SEND_FLASH_COMMAND", CommandTries)
    \/ EnterLanip \/ SendDhcp \/ BeginFile
    \/ SendPackage \/ NextPackage \/ RetryPackage
    \/ SendDone \/ GiveUp("OVER", DoneTries) \/ End

OnReceive ==
    \/ \E r \in toServer : RxCommand(r) \/ RxLanip(r) \/ RxAck(r) \/ RxEnd(r) \/ RxDrop(r)
    \/ RxLanipStore \/ RxAckStore

Next == Start \/ Serves \/ OnReceive \/ Finish

(* both threads run; the user need not start another update *)
Spec == /\ Init /\ [][Next]_vars
        /\ WF_vars(Serves) /\ WF_vars(RxLanipStore \/ RxAckStore) /\ WF_vars(Finish)

-----------------------------------------------------------------------------
(* Properties. *)

TypeOK ==
    /\ ISP_STEP \in Steps
    /\ server \in {"none", "loop", "lanip", "send", "poll", "stop"}
    /\ tries \in [Steps -> Nat]
    /\ entered \in BOOLEAN /\ connected \in BOOLEAN /\ trusted \in BOOLEAN
    /\ replied \in Devices \cup {None} /\ target \in Devices \cup {None}
    /\ product \in {"fits", "other", ""}
    /\ package_number \in Numbers /\ next_package_number \in 1 .. Packages + 1
    /\ retry \in 0 .. Retries + 1
    /\ rx \in Datagrams \cup {Idle}
    /\ toServer \subseteq Datagrams
    /\ sessions \in Nat /\ outcome \in {"none", "success", "failure"}
    /\ got \in [Devices -> SUBSET Numbers]

(* A package is sent only after the device has received all packages before it, *)
(* as long as the number that says so was not torn, or left by another session. *)
PackagesInOrder ==
    server \in {"send", "poll"} /\ trusted /\ package_number > 1 =>
        target \in Devices /\ 1 .. package_number - 1 \subseteq got[target]

(* An update that is reported as a success has brought every package of the file *)
(* to the device, with the same exception.                                       *)
SuccessIsComplete ==
    outcome = "success" /\ trusted => target \in Devices /\ got[target] = Numbers

(* No package goes to a device whose name is another product's, unless the check *)
(* is switched off or the user has chosen such a device.  (Then the name of a   *)
(* device that fits may be compared, and the file go to the chosen one.)        *)
OnlyFitting ==
    CheckFirmware /\ Product[Chosen] # "other" =>
        \A d \in Devices : Product[d] = "other" => got[d] = {}

(* Whatever the devices answer, an update comes to an end. *)
UpdateEnds == server # "none" ~> server = "none"

(* "First check if it's a reply from the target IP address, prioritize processing *)
(* replies from the target IP address": no other device is updated.               *)
OnlyTheChosen == \A d \in Devices : d # Chosen => got[d] = {}
=============================================================================
