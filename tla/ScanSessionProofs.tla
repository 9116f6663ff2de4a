-------------------------- MODULE ScanSessionProofs --------------------------
(***************************************************************************)
(* Proofs about ScanSession.tla, for any number of serial ports.           *)
(***************************************************************************)
EXTENDS ScanSession, TLAPS

Past == {"tail", "ended"}

(* all ports are scanned, if the list of the ports can be trusted *)
PortsDone == raced \/ PortsEnded

(* What an event stands for while it is signalled. *)
EventMeans ==
    /\ "NC" \in events => thread["nc"] = "ended"
    /\ "Com" \in events => thread["comWait"] = "ended" /\ PortsDone
    /\ "BacnetIp" \in events => thread["bacnet"] \in Past
    /\ "RemoteIP" \in events => thread["remote"] = "ended"
    /\ "ThirdParty" \in events => thread["third"] \in Past
    /\ "Tcp485" \in events => thread["tcp"] = "ended"

(* What a thread that waited for an event has learnt, after the event is reset. *)
TcpKnows ==
    /\ thread["tcp"] \in {"Com", "run", "ended"} => thread["nc"] = "ended"
    /\ thread["tcp"] \in {"run", "ended"} => thread["comWait"] = "ended" /\ PortsDone

WaitKnows ==
    /\ thread["wait"] \in {"RemoteIP", "ThirdParty", "Tcp485", "save"} => thread["bacnet"] \in Past
    /\ thread["wait"] \in {"ThirdParty", "Tcp485", "save"} => thread["remote"] = "ended"
    /\ thread["wait"] \in {"Tcp485", "save"} => thread["third"] \in Past
    /\ thread["wait"] = "save" => thread["tcp"] = "ended"

FinishedMeans ==
    finished => /\ saved
                /\ thread["bacnet"] \in Past /\ thread["remote"] = "ended"
                /\ thread["third"] \in Past /\ thread["tcp"] = "ended"

MainKnows ==
    /\ main \in {"exit", "saves"} => stop
    /\ main \in {"results", "deleted"} => saved /\ (stop \/ finished)

IInv == TypeOK /\ EventMeans /\ TcpKnows /\ WaitKnows /\ FinishedMeans /\ MainKnows

(* Every step keeps the types: one step of the proof per action. *)
LEMMA TypeStep == TypeOK /\ [Next]_vars => TypeOK'
<1> SUFFICES ASSUME TypeOK, [Next]_vars PROVE TypeOK'
  OBVIOUS
<1> USE DEF TypeOK, Threads, Signals, Events
<1>1. CASE Detect
  BY <1>1 DEF Detect, Goes
<1>2. ASSUME NEW p \in Ports, ComBegin(p)
      PROVE  TypeOK'
  BY <1>2 DEF ComBegin
<1>3. ASSUME NEW p \in Ports, ComTest(p)
      PROVE  TypeOK'
  BY <1>3 DEF ComTest
<1>4. ASSUME NEW p \in Ports, ComFinish(p)
      PROVE  TypeOK'
  BY <1>4 DEF ComFinish
<1>5. CASE ComWaitCancelled
  BY <1>5 DEF ComWaitCancelled, Goes
<1>6. CASE ComWaitDone
  BY <1>6 DEF ComWaitDone, Sets, Goes
<1>7. CASE NcDone
  BY <1>7 DEF NcDone, Sets, Goes
<1>29. CASE NcStray
  BY <1>29 DEF NcStray, Goes
<1>30. CASE NcReply
  BY <1>30 DEF NcReply, Goes
<1>8. CASE BacnetBegin
  BY <1>8 DEF BacnetBegin, Goes
<1>9. CASE BacnetAsk
  BY <1>9 DEF BacnetAsk, Goes
<1>10. CASE UserAnswers
  BY <1>10 DEF UserAnswers, Goes
<1>11. CASE BacnetDone
  BY <1>11 DEF BacnetDone, Sets, Goes
<1>12. CASE RemoteDone
  BY <1>12 DEF RemoteDone, Sets, Goes
<1>13. CASE ThirdDone
  BY <1>13 DEF ThirdDone, Sets, Goes
<1>14. CASE TcpWaitsForNc
  BY <1>14 DEF TcpWaitsForNc, WaitsFor, Goes
<1>15. CASE TcpWaitsForCom
  <2>1. \E to \in {"ended", "run"} : thread' = [thread EXCEPT !["tcp"] = to]
    BY <1>15 DEF TcpWaitsForCom, Sets, Goes
  <2>2. events' \subseteq Events
    BY <1>15 DEF TcpWaitsForCom, Sets
  <2> QED
    BY <1>15, <2>1, <2>2 DEF TcpWaitsForCom
<1>16. CASE TcpDone
  BY <1>16 DEF TcpDone, Sets, Goes
<1>17. ASSUME NEW event \in Signals, WaitScan(event)
      PROVE  TypeOK'
  BY <1>17 DEF WaitScan, WaitsFor, Goes, After
<1>18. CASE WaitSave
  BY <1>18 DEF WaitSave, Goes
<1>19. ASSUME NEW t \in {"bacnet", "third", "wait"}, Tail(t)
      PROVE  TypeOK'
  BY <1>19 DEF Tail, Goes
<1>20. CASE UseDeleted
  BY <1>20 DEF UseDeleted
<1>21. CASE ClearPorts
  BY <1>21 DEF ClearPorts
<1>22. CASE BeginScan
  BY <1>22 DEF BeginScan, Begins
<1>23. CASE Timer
  BY <1>23 DEF Timer
<1>24. CASE Exit
  BY <1>24 DEF Exit, Terminate, OfCreateThread
<1>25. CASE TerminateBacnet
  BY <1>25 DEF TerminateBacnet, Terminate, OfCreateThread
<1>26. CASE ExitSave
  BY <1>26 DEF ExitSave
<1>27. CASE Delete
  BY <1>27 DEF Delete, Terminate, OfCreateThread
<1>28. CASE UNCHANGED vars
  BY <1>28 DEF vars
<1> QED
  BY <1>1, <1>2, <1>3, <1>4, <1>5, <1>6, <1>7, <1>8, <1>9, <1>10, <1>11, <1>12, <1>13, <1>14, <1>15, <1>16, <1>17, <1>18, <1>19, <1>20, <1>21, <1>22, <1>23, <1>24, <1>25, <1>26, <1>27, <1>28, <1>29, <1>30 DEF Next, Scans, Works

(* Every step keeps the invariant: an event is signalled at the end of a    *)
(* thread, and no thread goes back, so that what an event stood for is still *)
(* true when it is reset.                                                    *)
LEMMA InvStep == IInv /\ [Next]_vars => IInv'
<1> SUFFICES ASSUME IInv, [Next]_vars PROVE IInv'
  OBVIOUS
<1>0. TypeOK'
  BY TypeStep DEF IInv
<1> USE <1>0 DEF IInv, TypeOK, Threads, Signals, Events, Past, PortsDone, PortsEnded,
           EventMeans, TcpKnows, WaitKnows, FinishedMeans, MainKnows
<1>1. CASE Detect
  BY <1>1 DEF Detect, Goes
<1>2. ASSUME NEW p \in Ports, ComBegin(p)
      PROVE  IInv'
  BY <1>2 DEF ComBegin
<1>3. ASSUME NEW p \in Ports, ComTest(p)
      PROVE  IInv'
  BY <1>3 DEF ComTest
<1>4. ASSUME NEW p \in Ports, ComFinish(p)
      PROVE  IInv'
  BY <1>4 DEF ComFinish
<1>5. CASE ComWaitCancelled
  BY <1>5 DEF ComWaitCancelled, Goes
<1>6. CASE ComWaitDone
  BY <1>6 DEF ComWaitDone, Sets, Goes
<1>7. CASE NcDone
  BY <1>7 DEF NcDone, Sets, Goes
<1>29. CASE NcStray
  BY <1>29 DEF NcStray, Goes
<1>30. CASE NcReply
  BY <1>30 DEF NcReply, Goes
<1>8. CASE BacnetBegin
  BY <1>8 DEF BacnetBegin, Goes
<1>9. CASE BacnetAsk
  BY <1>9 DEF BacnetAsk, Goes
<1>10. CASE UserAnswers
  BY <1>10 DEF UserAnswers, Goes
<1>11. CASE BacnetDone
  BY <1>11 DEF BacnetDone, Sets, Goes
<1>12. CASE RemoteDone
  BY <1>12 DEF RemoteDone, Sets, Goes
<1>13. CASE ThirdDone
  BY <1>13 DEF ThirdDone, Sets, Goes
<1>14. CASE TcpWaitsForNc
  BY <1>14 DEF TcpWaitsForNc, WaitsFor, Goes
<1>15. CASE TcpWaitsForCom
  BY <1>15 DEF TcpWaitsForCom, Sets, Goes
<1>16. CASE TcpDone
  BY <1>16 DEF TcpDone, Sets, Goes
<1>17. ASSUME NEW event \in Signals, WaitScan(event)
      PROVE  IInv'
  BY <1>17 DEF WaitScan, WaitsFor, Goes, After
<1>18. CASE WaitSave
  BY <1>18 DEF WaitSave, Goes
<1>19. ASSUME NEW t \in {"bacnet", "third", "wait"}, Tail(t)
      PROVE  IInv'
  BY <1>19 DEF Tail, Goes
<1>20. CASE UseDeleted
  BY <1>20 DEF UseDeleted
<1>21. CASE ClearPorts
  BY <1>21 DEF ClearPorts
<1>22. CASE BeginScan
  BY <1>22 DEF BeginScan, Begins
<1>23. CASE Timer
  BY <1>23 DEF Timer
<1>24. CASE Exit
  BY <1>24 DEF Exit, Terminate, OfCreateThread
<1>25. CASE TerminateBacnet
  BY <1>25 DEF TerminateBacnet, Terminate, OfCreateThread
<1>26. CASE ExitSave
  BY <1>26 DEF ExitSave
<1>27. CASE Delete
  BY <1>27 DEF Delete, Terminate, OfCreateThread
<1>28. CASE UNCHANGED vars
  BY <1>28 DEF vars
<1> QED
  BY <1>1, <1>2, <1>3, <1>4, <1>5, <1>6, <1>7, <1>8, <1>9, <1>10, <1>11, <1>12, <1>13, <1>14, <1>15, <1>16, <1>17, <1>18, <1>19, <1>20, <1>21, <1>22, <1>23, <1>24, <1>25, <1>26, <1>27, <1>28, <1>29, <1>30 DEF Next, Scans, Works

(* The events stay in step with the threads, for any number of ports. *)
THEOREM Invariance == Spec => []IInv
<1>1. Init => IInv
  <2> SUFFICES ASSUME Init
               PROVE  IInv
    OBVIOUS
  <2>1. TypeOK
    BY DEF Init, Begins, TypeOK, Threads, Signals, Events
  <2>2. thread["tcp"] = "none" /\ thread["wait"] = "none"
    BY DEF Init, Threads
  <2>3. EventMeans /\ FinishedMeans /\ MainKnows
    BY DEF Init, EventMeans, FinishedMeans, MainKnows
  <2>4. TcpKnows /\ WaitKnows
    BY <2>2 DEF TcpKnows, WaitKnows
  <2> QED
    BY <2>1, <2>3, <2>4 DEF IInv
<1> QED
  BY <1>1, InvStep, PTL DEF Spec

(* Every variable keeps its type. *)
THEOREM TypeCorrect == Spec => []TypeOK
<1>1. IInv => TypeOK
  BY DEF IInv
<1> QED
  BY <1>1, Invariance, PTL

(* The results are saved while no thread adds to them. *)
THEOREM SavesQuietly == Spec => []SavesWhenQuiet
<1>1. IInv => SavesWhenQuiet
  BY DEF IInv, TypeOK, TcpKnows, WaitKnows, PortsDone, Past, SavesWhenQuiet, Quiet, Threads
<1> QED
  BY <1>1, Invariance, PTL

(* What is shown was saved. *)
THEOREM ShowsWhatIsSaved == Spec => []SavedBeforeShown
<1>1. IInv => SavedBeforeShown
  BY DEF IInv, MainKnows, SavedBeforeShown
<1> QED
  BY <1>1, Invariance, PTL

(* A scanner whose scan came to its end is deleted after its threads. *)
THEOREM LeavesNobody == Spec => []NobodyIsLeft
<1>1. IInv => NobodyIsLeft
  BY DEF IInv, TypeOK, TcpKnows, FinishedMeans, MainKnows, PortsDone, Past, NobodyIsLeft, Quiet,
         Threads
<1> QED
  BY <1>1, Invariance, PTL
=============================================================================
