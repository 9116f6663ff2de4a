----------------------------- MODULE ScanSession -----------------------------
(***************************************************************************)
(* One scan for devices: the threads that CTStatScanner::ScanAll starts,   *)
(* the auto-reset events they leave for one another, the thread that waits *)
(* for all of them and saves what they found, and the dialog that shows    *)
(* the scan and may end it.  Main is CMainFrame::Scan_Product with the     *)
(* dialog, up to the deletion of the scanner.                              *)
(*                                                                         *)
(* TerminateThread works on the threads made by CreateThread only.  Those  *)
(* of AfxBeginThread are CWinThread pointers, and a pointer is no handle:  *)
(* the calls that name them (tcp, nc, comWait, remote) do nothing.         *)
(***************************************************************************)
EXTENDS FiniteSets

CONSTANT Ports  \* the serial ports of the computer

ASSUME PortsAssumption == IsFiniteSet(Ports)

VARIABLES
    main,      \* where the main thread is
    com,       \* the scan of each port; "ended" is a NULL in hScanComData
    thread,    \* the other threads
    events,    \* the events that are signalled
    listed,    \* m_szComs holds the ports
    comEnd,    \* m_com_scan_end
    stop,      \* m_bStopScan and g_bCancelScan: the user has clicked Exit
    finished,  \* m_bNetScanFinish
    saved,     \* SendScanEndMsg has run to its end
    raced      \* the list of ports, or the deleted scanner, was used

vars == <<main, com, thread, events, listed, comEnd, stop, finished, saved, raced>>

Threads == {"detect", "comWait", "nc", "bacnet", "remote", "third", "tcp", "wait"}
Signals == {"OldNC", "BacnetIp", "RemoteIP", "ThirdParty", "Tcp485"}
Events == Signals \cup {"NC", "Com"}
OfCreateThread == {"detect", "bacnet", "third", "wait"}

(* faulty: a thread that is begun does not run *)
BeginsSuspended(t) == "suspended"

(* what a thread that has begun does first *)
Begins(t) ==
    IF t = "wait" THEN "OldNC"
    ELSE IF t = "tcp" THEN "NC"
    ELSE IF t = "bacnet" THEN "wait"
    ELSE "run"

(* ScanDetectComData, ScanComDevice and ScanNetworkDevice have begun their *)
(* threads, and _ScanOldNC, which sets its event at once, has returned     *)
Init ==
    /\ main = "starts"
    /\ com = [p \in Ports |-> "detect"]
    /\ thread = [t \in Threads |-> IF t \in {"detect", "comWait", "nc"} THEN Begins(t) ELSE "none"]
    /\ events = {"OldNC"}
    /\ listed = TRUE
    /\ comEnd = FALSE /\ stop = FALSE /\ finished = FALSE /\ saved = FALSE /\ raced = FALSE

-----------------------------------------------------------------------------
(* Threads. *)

Exists == main # "deleted"
Goes(t, to) == thread' = [thread EXCEPT ![t] = to]

(* TerminateThread for each of ts *)
Terminate(ts) ==
    thread' = [t \in Threads |-> IF t \in ts \cap OfCreateThread THEN "ended" ELSE thread[t]]

(* thread t goes on to a place, and sets an event of the scanner *)
Sets(t, event, to) ==
    /\ Exists
    /\ Goes(t, to)
    /\ events' = events \cup {event}

(* the wait for an event, which resets it *)
WaitsFor(t, event, to) ==
    /\ Exists
    /\ thread[t] = event /\ event \in events
    /\ events' = events \ {event}
    /\ Goes(t, to)

Detect ==
    /\ thread["detect"] = "run"
    /\ Goes("detect", "ended")
    /\ UNCHANGED <<main, com, events, listed, comEnd, stop, finished, saved, raced>>

(* the thread of a port takes the name of the port from m_szComs *)
ComBegin(p) ==
    /\ Exists /\ com[p] = "detect" /\ thread["detect"] = "ended"
    /\ com' = [com EXCEPT ![p] = "test"]
    /\ raced' = (raced \/ ~listed)
    /\ UNCHANGED <<main, thread, events, listed, comEnd, stop, finished, saved>>

(* the port opens, Test_Comport returns, and the scan goes on *)
ComTest(p) ==
    /\ Exists /\ com[p] = "test" /\ ~stop
    /\ com' = [com EXCEPT ![p] = "scan"]
    /\ UNCHANGED <<main, thread, events, listed, comEnd, stop, finished, saved, raced>>

(* the port does not open, the user has ended the scan, or all is scanned *)
ComFinish(p) ==
    /\ Exists /\ com[p] \in {"test", "scan"}
    /\ com' = [com EXCEPT ![p] = "ended"]
    /\ UNCHANGED <<main, thread, events, listed, comEnd, stop, finished, saved, raced>>

ComWaitCancelled ==
    /\ thread["comWait"] = "run" /\ stop
    /\ Goes("comWait", "ended")
    /\ raced' = (raced \/ ~Exists)
    /\ UNCHANGED <<main, com, events, listed, comEnd, stop, finished, saved>>

PortsEnded == \A p \in Ports : com[p] = "ended"

(* it counts the handles up to the size of m_szComs *)
ComWaitDone ==
    /\ thread["comWait"] = "run" /\ ~stop
    /\ listed => PortsEnded
    /\ Sets("comWait", "Com", "ended")
    /\ comEnd' = TRUE
    /\ raced' = (raced \/ ~listed)
    /\ UNCHANGED <<main, com, listed, stop, finished, saved>>

(* _ScanNCByUDPFunc waits for replies to its broadcasts, four at most, and *)
(* for each reply three seconds at most.  What is no RESPONSE_MSG, or a    *)
(* recvfrom that fails, takes it round the inner loop without a new wait,  *)
(* and without a look at stop, until a RESPONSE_MSG comes.                 *)
NcStray ==
    /\ thread["nc"] = "run"
    /\ Goes("nc", "spins")
    /\ UNCHANGED <<main, com, events, listed, comEnd, stop, finished, saved, raced>>

NcReply ==
    /\ thread["nc"] = "spins"
    /\ Goes("nc", "run")
    /\ raced' = (raced \/ ~Exists)
    /\ UNCHANGED <<main, com, events, listed, comEnd, stop, finished, saved>>

(* no reply comes in time, or stop is seen between two broadcasts *)
NcDone ==
    /\ thread["nc"] = "run"
    /\ Sets("nc", "NC", "ended")
    /\ UNCHANGED <<main, com, listed, comEnd, stop, finished, saved, raced>>

(* a minute is enough: m_com_scan_end is not waited for any longer *)
BacnetBegin ==
    /\ Exists /\ thread["bacnet"] = "wait"
    /\ Goes("bacnet", "run")
    /\ UNCHANGED <<main, com, events, listed, comEnd, stop, finished, saved, raced>>

(* no port is surely MS/TP: the thread asks the user with a dialog *)
BacnetAsk ==
    /\ Exists /\ thread["bacnet"] = "run"
    /\ Goes("bacnet", "asks")
    /\ UNCHANGED <<main, com, events, listed, comEnd, stop, finished, saved, raced>>

UserAnswers ==
    /\ Exists /\ thread["bacnet"] = "asks"
    /\ Goes("bacnet", "scan")
    /\ UNCHANGED <<main, com, events, listed, comEnd, stop, finished, saved, raced>>

BacnetDone ==
    /\ thread["bacnet"] \in {"run", "scan"}
    /\ Sets("bacnet", "BacnetIp", "tail")
    /\ UNCHANGED <<main, com, listed, comEnd, stop, finished, saved, raced>>

(* faulty: an invalid address or a skipped remote scan sets no event *)
RemoteGivesUp ==
    /\ Exists /\ thread["remote"] = "run"
    /\ Goes("remote", "ended")
    /\ UNCHANGED <<main, com, events, listed, comEnd, stop, finished, saved, raced>>

RemoteDone ==
    /\ thread["remote"] = "run"
    /\ Sets("remote", "RemoteIP", "ended")
    /\ UNCHANGED <<main, com, listed, comEnd, stop, finished, saved, raced>>

ThirdDone ==
    /\ thread["third"] = "run"
    /\ Sets("third", "ThirdParty", "tail")
    /\ UNCHANGED <<main, com, listed, comEnd, stop, finished, saved, raced>>

TcpWaitsForNc ==
    /\ WaitsFor("tcp", "NC", "Com")
    /\ UNCHANGED <<main, com, listed, comEnd, stop, finished, saved, raced>>

(* faulty: the thread does not wait for the serial ports *)
TcpSkipsCom ==
    /\ Exists /\ thread["tcp"] = "Com" /\ Goes("tcp", "run")
    /\ UNCHANGED <<main, com, events, listed, comEnd, stop, finished, saved, raced>>

(* "Need to release after using this notification": the event is set again *)
TcpWaitsForCom ==
    /\ Exists /\ thread["tcp"] = "Com" /\ "Com" \in events
    /\ IF stop THEN Sets("tcp", "Tcp485", "ended") ELSE Sets("tcp", "Com", "run")
    /\ UNCHANGED <<main, com, listed, comEnd, stop, finished, saved, raced>>

(* ScanSubnetFromEthernetDevice begins no thread *)
TcpDone ==
    /\ thread["tcp"] = "run"
    /\ Sets("tcp", "Tcp485", "ended")
    /\ UNCHANGED <<main, com, listed, comEnd, stop, finished, saved, raced>>

(* faulty: the remote scan is not waited for *)
AfterWithoutRemote == [OldNC |-> "BacnetIp", BacnetIp |-> "ThirdParty", RemoteIP |-> "ThirdParty",
                       ThirdParty |-> "Tcp485", Tcp485 |-> "save"]

After == [OldNC |-> "BacnetIp", BacnetIp |-> "RemoteIP", RemoteIP |-> "ThirdParty",
          ThirdParty |-> "Tcp485", Tcp485 |-> "save"]

WaitScan(event) ==
    /\ WaitsFor("wait", event, After[event])
    /\ UNCHANGED <<main, com, listed, comEnd, stop, finished, saved, raced>>

(* faulty: the scan counts as finished before it is saved *)
FinishUnsaved ==
    /\ Exists /\ thread["wait"] = "save"
    /\ Goes("wait", "tail")
    /\ finished' = TRUE
    /\ UNCHANGED <<main, com, events, listed, comEnd, stop, saved, raced>>

(* SendScanEndMsg, and m_bNetScanFinish for the first time *)
WaitSave ==
    /\ Exists /\ thread["wait"] = "save"
    /\ Goes("wait", "tail")
    /\ saved' = TRUE /\ finished' = TRUE
    /\ UNCHANGED <<main, com, events, listed, comEnd, stop, raced>>

(* what these threads still write to the scanner after their event *)
Tail(t) ==
    /\ thread[t] = "tail"
    /\ Goes(t, "ended")
    /\ raced' = (raced \/ ~Exists)
    /\ UNCHANGED <<main, com, events, listed, comEnd, stop, finished, saved>>

(* any other thread that runs uses the scanner after its deletion *)
UseDeleted ==
    /\ ~Exists
    /\ \/ \E t \in Threads \ {"detect"} : thread[t] \in {"run", "scan", "save"}
       \/ \E p \in Ports : com[p] \in {"test", "scan"}
    /\ raced' = TRUE
    /\ UNCHANGED <<main, com, thread, events, listed, comEnd, stop, finished, saved>>

-----------------------------------------------------------------------------
(* The main thread. *)

(* ScanBacnetMSTPDevice clears m_szComs *)
ClearPorts ==
    /\ main = "starts" /\ main' = "lists"
    /\ listed' = (Ports = {})
    /\ UNCHANGED <<com, thread, events, comEnd, stop, finished, saved, raced>>

(* it lists the ports again, and ScanAll begins the other threads; then the dialog opens *)
BeginScan ==
    /\ main = "lists" /\ main' = "dialog"
    /\ listed' = TRUE
    /\ thread' = [t \in Threads |-> IF thread[t] = "none" THEN Begins(t) ELSE thread[t]]
    /\ UNCHANGED <<com, events, comEnd, stop, finished, saved, raced>>

Timer ==
    /\ main = "dialog" /\ finished
    /\ main' = "results"
    /\ UNCHANGED <<com, thread, events, listed, comEnd, stop, finished, saved, raced>>

(* OnBnClickedExitbutton: the waiting thread is terminated at any place *)
Exit ==
    /\ main = "dialog" /\ main' = "exit"
    /\ stop' = TRUE
    /\ Terminate({"wait", "tcp"})
    /\ UNCHANGED <<com, events, listed, comEnd, finished, saved, raced>>

(* three seconds for each port later *)
TerminateBacnet ==
    /\ main = "exit" /\ main' = "saves"
    /\ Terminate({"bacnet"})
    /\ UNCHANGED <<com, events, listed, comEnd, stop, finished, saved, raced>>

ExitSave ==
    /\ main = "saves" /\ main' = "results"
    /\ saved' = TRUE
    /\ UNCHANGED <<com, thread, events, listed, comEnd, stop, finished, raced>>

(* the destructor, with Release *)
Delete ==
    /\ main = "results" /\ main' = "deleted"
    /\ Terminate(Threads \ {"wait"})
    /\ UNCHANGED <<com, events, listed, comEnd, stop, finished, saved, raced>>

Scans ==
    \/ Detect \/ (\E p \in Ports : ComBegin(p) \/ ComTest(p) \/ ComFinish(p))
    \/ ComWaitCancelled \/ ComWaitDone \/ NcStray \/ NcReply \/ NcDone
    \/ BacnetBegin \/ BacnetAsk \/ BacnetDone \/ RemoteDone \/ ThirdDone
    \/ TcpWaitsForNc \/ TcpWaitsForCom \/ TcpDone
    \/ (\E event \in Signals : WaitScan(event)) \/ WaitSave
    \/ (\E t \in {"bacnet", "third", "wait"} : Tail(t)) \/ UseDeleted

Works == ClearPorts \/ BeginScan \/ Timer \/ TerminateBacnet \/ ExitSave

Next == Scans \/ Works \/ UserAnswers \/ Exit \/ Delete

(* every thread runs; the user need not click, answer or close, and the devices *)
(* need not reply to the thread that spins                                      *)
Spec ==
    /\ Init /\ [][Next]_vars
    /\ WF_vars(Works)
    /\ WF_vars(Detect) /\ WF_vars(ComWaitCancelled) /\ WF_vars(ComWaitDone) /\ WF_vars(NcDone)
    /\ WF_vars(BacnetBegin) /\ WF_vars(BacnetDone) /\ WF_vars(RemoteDone) /\ WF_vars(ThirdDone)
    /\ WF_vars(TcpWaitsForNc \/ TcpWaitsForCom \/ TcpDone)
    /\ WF_vars((\E event \in Signals : WaitScan(event)) \/ WaitSave)
    /\ \A p \in Ports : WF_vars(ComBegin(p)) /\ WF_vars(ComFinish(p))

-----------------------------------------------------------------------------
(* Properties. *)

TypeOK ==
    /\ main \in {"starts", "lists", "dialog", "exit", "saves", "results", "deleted"}
    /\ com \in [Ports -> {"detect", "test", "scan", "ended"}]
    /\ thread \in [Threads -> Signals \cup {"none", "run", "wait", "asks", "scan", "spins", "NC",
                                            "Com", "save", "tail", "ended"}]
    /\ events \subseteq Events
    /\ {listed, comEnd, stop, finished, saved, raced} \subseteq BOOLEAN

Quiet == PortsEnded /\ \A t \in Threads \ {"detect", "wait"} : thread[t] \in {"tail", "ended"}

(* While the waiting thread saves the results, no thread adds to them: the     *)
(* five events it waits for stand for all threads, those of the ports through  *)
(* two more events and a thread in between.                                    *)
SavesWhenQuiet == thread["wait"] = "save" /\ ~raced => Quiet

(* The results that the user is shown were saved to the end, even if the waiting *)
(* thread was terminated while it saved.                                         *)
SavedBeforeShown == main \in {"results", "deleted"} => saved

(* The scanner of a scan that came to its end is deleted with no thread that *)
(* scans or waits for one of its events; a few last writes may be left.      *)
NobodyIsLeft == main = "deleted" /\ ~stop /\ ~raced => Quiet

(* A scan comes to its end unless the user ends it or does not answer, and *)
(* but for one thing that the devices can do: a datagram of another kind   *)
(* may keep the broadcasting thread in its loop, and the scan with it.     *)
ScanEnds == main = "dialog" ~> \/ main # "dialog" \/ raced
                               \/ thread["bacnet"] = "asks" \/ thread["nc"] = "spins"
=============================================================================
