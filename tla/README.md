# T3000: models, checks and proofs

T3000 is the Windows program with which an engineer reads, configures and
programs Temco's building controllers. It talks to them over BACnet (IP and
MS/TP) and over Modbus (serial and TCP), keeps what it reads in arrays its
dialogs show, and writes back what the user edits. Almost everything that is
hard to get right in it is the same thing in different places: **several
threads and many dialogs share one line to a device, and a request, its reply
and whoever waits for it are tied together by very little** - an invoke id of
one byte, a function code, a position in a queue.

This directory holds TLA+ models of those places, the TLC runs that check
them, and proofs. Paths are relative to the repository's root.

| module | models | lines of the code |
|---|---|---|
| `InvokeIdPool` | abstract: what the transaction table promises | - |
| `Tsm`, `TsmReuse` | the BACnet transaction table, one action per exported function | `src/BacNetDllforVc/Src/tsm.c` |
| `TsmProofs` | theorems about `Tsm` and `TsmReuse`, and that `Tsm` implements `InvokeIdPool` | |
| `ConfirmedSend` | sending a confirmed request, one action per access to shared memory | `src/BacNetDllforVc/Handler/s_upt.c`, `tsm.c` |
| `PrivateTransfer` | the blocking reads and writes, the network and the receive thread | `src/T3000/global_function.cpp`, `src/BacNetDllforVc/Src/apdu.c` |
| `CommandDispatcher` | the command queue of the main frame and its two threads | `src/T3000/MainFrm.cpp`, `BacnetInput.cpp` |
| `CommandDispatcherProofs` | theorems about `CommandDispatcher` | |
| `ModbusAccess` | register access over one Modbus TCP connection | `src/T3000/modbus_read_write.cpp`, `src/ModbusDllforVc/ModbusDllforVc/common.cpp` |
| `ModbusAccessProofs` | theorems about `ModbusAccess` | |
| `ConfirmedSendProofs`, `PrivateTransferProofs` | theorems about `ConfirmedSend` and `PrivateTransfer` | |
| `MstpMaster` | the masters of an MS/TP line that pass the token, T3000 among them | `src/BacNetDllforVc/Src/mstp.c`, `src/BacNetDllforVc/MainCpp/dlmstp.c` |
| `MstpMasterProofs` | theorems about `MstpMaster` | |
| `ScanSession` | one scan for devices: its threads, their events, the dialog | `src/T3000/TStatScanner.cpp`, `ScanDbWaitDlg.cpp` |
| `ScanSessionProofs` | theorems about `ScanSession` | |
| `TftpUpdate` | a firmware update over the network: the sending thread and the handler of the replies | `src/ISP/TFTPServer.cpp`, `src/ISP/MySocket.cpp` |
| `TftpUpdateProofs` | theorems about `TftpUpdate` | |
| `MCCommandDispatcher`, `MCConfirmedSend`, `MCMstpMaster`, `MCPrivateTransfer`, `MCTftpUpdate` | symmetry, constraints and values for TLC; a check of an operator against its reference | |

`PROJECT.json` maps every definition to its lines, lists the runs, and names
for each property a change of a definition that breaks it. Those changed forms
are operators of the modules ("faulty variant" in their comments); no
specification uses them.

## 1. The system

### Components

**BACnet transaction table** (`tsm.c`). *State*: 255 slots with invoke id,
state, timer and retry count; the cursor `Current_Invoke_ID`. *Operations*: get
the next free id and reserve a slot, attach a request, free an id, free all,
ask whether an id is free or failed, timer. *Hard*: the cursor wraps and skips
0; the search is a loop without a bound; nothing is locked. *Correct if* no id
is out twice, the search ends, an id comes back as late as possible.

**Confirmed private transfer send** (`s_upt.c`, `txbuf.c`). *State*: the one
transmit buffer of the program. *Operations*: encode the network header, take
an id (or clear the table and go on with 0), encode the request, send.
*Hard*: every thread that talks BACnet runs this code. *Correct if* what goes
out is one request, under an id of its own.

**Blocking private transfers** (`global_function.cpp`, `apdu.c`). *State*: the
callers' locals, `gsp_invoke`, the data of the screen and of the background
reads. *Operations*: `GetPrivateData_Blocking`, `GetPrivateDataSaveSPBlocking`,
`WritePrivateData_Blocking`, which send, poll the table, send again and give
up; the receive thread, which stores data and frees ids. *Hard*: a free id is
the only sign of an answer; replies are lost, late and in any order; a click
in the view frees every id. *Correct if* a call that reports success was
answered, no call is answered by the reply to another, background data stay
off the screen, every call returns.

**Command dispatcher** (`MainFrm.cpp`). *State*: the thread message queue,
`My_Receive_msg`, `MyCriticalSection`. *Operations*: dialogs post; one thread
appends; one thread looks, takes, works and posts the outcome to the dialog;
closing the screen editor clears the queue. *Hard*: the looks are not locked,
the queue is cleared when it is long, one case of the switch falls through,
one `return` keeps the lock. *Correct if* commands are carried out in order,
once, and all of them, and the dialog learns the outcome.

**Modbus register access** (`modbus_read_write.cpp`, the Modbus library).
*State*: the socket, `register_critical_section`, the transaction id.
*Operations*: read one, read a block, write one, each with retries; reconnect.
*Hard*: timeouts, reconnects in the middle of a call, an unlocked write, a
reply that does not say which registers it carries. *Correct if* a read
returns the registers it asked for and the section is always released.

**MS/TP master node** (`mstp.c`, `dlmstp.c`). *State*: the state machine of
the token, next station and poll station, counters, the silence of the line,
one frame received. *Operations*: the receive and the master state machines,
in two threads. *Hard*: lost tokens, several masters that make a new one, a
thread that sleeps for fixed times, a highest address that depends on what the
user has opened. *Correct if*
at most one node uses the token, two tokens do not last, a lost token comes
back, every station has its turn.

**BBMD and BACnet/IP** (`bvlc.c`, `bip.c`): socket calls, and broadcast and
foreign device tables that nothing uses; **device address cache** (`address.c`): bindings,
bind requests, times to live, eviction. *Correct if* an entry is not used after
it has expired and the static entries survive eviction.

**Device scanner** (`TStatScanner.cpp`, `ScanDbWaitDlg.cpp`). *State*: seven
auto-reset events, a dozen thread handles, the list of serial ports, flags for
the end and for Exit. *Operations*: the scan threads, a thread that waits for
their events in a row and saves the results, the timer and the Exit button of
the dialog, the destructor. *Hard*: threads are terminated anywhere, lists are
rebuilt under the threads that use them, one thread opens a dialog. *Correct
if* the results are saved by the time they are shown and when no thread adds to
them any longer, no thread outlives the scanner, the scan ends.

**Firmware update over TFTP** (`ISP/TFTPServer.cpp`, `ISP/MySocket.cpp`).
*State*: the step `ISP_STEP`, the number of the package, the number that was
acknowledged plus one, the address and product name of the device that replied,
all globals. *Operations*: the thread that sends commands and packages, and
`OnReceive` in the main thread, which moves the steps. *Hard*: nothing is
locked, globals survive a session, everybody answers a broadcast. *Correct if*
the packages arrive in order and all of them before a success is shown, at the
device that was chosen, or at least at one of the same product; the update ends.

**Firmware update over Modbus** (`ISP/ComWriter.cpp`): blocks over a serial
line, and the resume from the count a device reports.

**Agent servers** (`AgentWebSocket.cpp`, `AgentHttpServer.cpp`,
`AgentMcpServer.cpp`, `AgentBridge.cpp`): in the repository but in no project
file, and one of them includes a header that does not exist. They are not part
of the program.

**Others**: trend logs, the refresh tree thread, the control program compiler
and decompiler, dialogs and views, databases, vendored tools. Why they are left
out is said in `PROJECT.json`.

### Interactions

```
 dialogs --post--> Get_All_Dlg_Message --My_Receive_msg--> Translate_My_Message
    |  ^                                                        |
    |  +----------- WRITE_SUCCESS / WRITE_FAIL -----------------+
    | background reads, refresh, clicks                          |
    v                                                            v
 blocking private transfers: send, poll, send again ------------+
    |  ids: transaction table (tsm.c) <--- free --- receive thread (apdu.c)
    v                                                   ^
 Send_ConfirmedPrivateTransfer, transmit buffer         |
    +----> datalink: BACnet/IP or MS/TP ---- devices ---+

 dialogs, refresh, background --> modbus_read_* / write_one --> socket --> device
                                    register_critical_section
```

The BACnet side is modelled top to bottom. The models meet in three places:
`PrivateTransfer` keeps the table as the set of ids that are out, which is what
`TableImplementsPool` proves the table to be for its callers;
`CommandDispatcher` keeps of a transfer only what it returns, 1 or -1, which is
what the `result` of `PrivateTransfer` allows; and the network of
`PrivateTransfer`, which loses and delays, is what an MS/TP line is that loses
its token for a while and gets it back (`T3000sTurn`).

A survey note: `g_bEnableRefreshTreeView`, which every Modbus read saves, clears
and restores ("a sort of home made mutex", `modbus_read_write.cpp:26`), is read
by nothing but those restores; `RefreshTreeThread` does not look at it. It
protects nothing, and is in no model.

## 2. The models

### Tsm, TsmReuse

`InvokeID`, `state`, `RequestTimer`, `RetryCount` are the fields of `TSM_List`
as functions of the slot; `granted` is the last return value of
`tsm_next_free_invokeID`. One action is one call: `GrantInvokeId` and
`RefuseInvokeId` (the two ways that function ends), `SetConfirmed`,
`FreeInvokeId`, `FreeAllInvokeIds`, `TimerTick`. The loop that moves the cursor
is `FirstUnused`: the id that needs the fewest increments among those no slot
holds. `SearchEnds` says that there is one, which is what ends the loop.
`TsmReuse` adds a history, for each id the ids that have been out since it was
last given.

The timer never ends a request, because requests are put into
`TSM_STATE_SEGMENTED_REQUEST` (line 198) and it looks at
`TSM_STATE_AWAIT_CONFIRMATION`; the comments of `tsm.c` say that it does.
`UnansweredFails` states what they say, for a timer that is called again and
again (`TimedSpec`), and the run `DeadTimer` refutes it.
Not modelled: `tsm_invokeID_set` (only `dlenv_init` calls it, which T3000 does
not), the offline switch that makes `tsm_invoke_id_free` answer true, and the
copy of the pdu.

### ConfirmedSend

The same table with the functions taken apart: each action is one access to
the table, the cursor or the buffer, so that two senders and the receive thread
interleave where the code lets them. A scan of the table counts as one access.
Of the buffer the model keeps whose network header, whose request and whose id
it holds. Nothing in the code keeps two senders out of the search or out of the
buffer at once; then ids can be given twice and pdus mixed, and two histories
say who may be hit. `overlapped`: two senders searched at once. Until then
`UniqueInvokeIds` holds, which is not obvious, since clears of a full table and
the receive thread's frees by an index found earlier come in between all the
same. `interfered`: the senders into whose use of the buffer another has written
since they began their pdu. `OneRequestPerPdu` is about each send for itself:
whoever is not among them sends its own header, request and id, although others
are in the buffer with it and earlier pdus may have been mixed.

### PrivateTransfer

A caller is at `idle`, `send`, `mark` (sent, `gsp_invoke` not set yet) or
`wait`. The receive thread is at the points between two reads of shared state:
the data are stored (`RxDeal`), the screen is told (`RxNotify`), the id is freed
(`RxFree`, and before it `RxAbort` for a reject or an abort, whose handlers free
the id a first time). A message carries its id; who sent it and whether it
belongs to the caller's last request is kept for the properties only. The
network loses and reorders. A
datagram that the network itself duplicates is not modelled.

The mark `gsp_invoke` is one global: the start of a read resets it
(`ForgetMark`), that of a write does not. Before the mark is set, or when a
second read begins, the data of a background read can reach the screen;
`MarkedStaysOffScreen` says what is left: with one background reader, nothing
that writers and the network do removes the mark. That is little, and the cases
that matter are its exceptions. `EveryStepCounts` is what makes every call
return: each of its steps advances the try it is at, the sends of that try, or
ends the call.

Not modelled: the decoding of the points, segmentation, the PTP and offline
branches, requests that devices send.

### CommandDispatcher

`mailbox` is the thread's Windows queue, `My_Receive_msg` the shared vector.
Four kinds of message stand for all: the cases of the two switches differ, as
far as the queue goes, in `MY_WRITE_ONE_LIST` only (it falls through and is
appended twice; it erases all its copies; it returns with the lock held when it
finds nothing), and `MY_BAC_WRITE_LIST` is the one whose outcome a dialog acts
on. The erasing of all copies is `Without`: the positions that are kept, by
rank; `MCCommandDispatcher` has TLC compare it with `Remove` of the community
modules, which is defined by recursion and out of reach of a proof. `at(0)` of
an empty vector ends the program (`Crash`); a message that is read as another
kind does that, or does something nobody meant.

Appending takes two steps when the vector is full: `Move`, which moves the
elements to a larger place (`capacity`), and `PushBack`; the lock is held in
between, but the other thread reads `size()` and `at(0)` without it, and may see
anything then (`PeekWhileMoving`). `LookHolds` is about each look for itself: what
the thread saw is still at the front when it has taken the lock, unless this very
look met a clear or a move (`overlapped`), and whatever became of earlier ones.
`DealtUnlessCleared` assumes that no look ever did.

The callback of the
input list stands for those of the other dialogs. The outcome of a write list is
`WRITE_FAIL` only if the transfer returned 0, and it returns 1 or -1: the model
keeps this, and an edit that failed is settled as a success.

### ModbusAccess

`requests` and `replies` are the two directions of the connection. A caller is
at `idle`, `lock`, `send` or `recv`. A block read keeps the section over its
tries, the read of one register takes it for each try, `write_one` does not take
it at all. `Accepts` is what the code compares: device, function code and byte
count, and for a write the echo. `Read_One` and `Write_One` look at a buffer on
the stack when `recv` has failed: the comparison may come out either way
(`LooksAtNothing`). `disturbed` is a history: on this connection a request was
given up before the device had answered, or a write met another call.

Not modelled: the serial line (which purges its input before it sends), Modbus
over BACnet, several devices or connections, replies that arrive in parts, the
counters of the status bar.

### MstpMaster

`st[n]` is the port of station `n`: the state of `MSTP_Master_Node_FSM`, the
addresses and counters of its structure, the frames received and not handled
yet, the silence, and how long its thread has slept. One action is one
transition of the state machine, named as in the comments of the code. `Sends`
puts a frame on the line: every other station that runs hears it (`Hear`), whole
or damaged, and the silence begins again. `Tick` lets time pass to the next
moment at which some station does something, when none has anything to do now.
A station may `Fail` and `Restart`; frames that are damaged and failures are
counted together in `faults`.

Two things make T3000 (station 0) unlike the controllers. `Initial_bac`
(`global_function.cpp:8157-8176`) sets `Nmax_info_frames`, `Nmax_master` and the
first `next` each time it opens the line, and what it sets depends on what is
opened: for a scan the panel is 254 (`TStatScanner.cpp:5204`), for a connection
it is the panel of the device, "no need to poll that many when connecting".
`Setups` are the pairs of panel and polled node; T3000 counts addresses modulo
its panel plus one, the controllers modulo theirs. With a panel below some
controller, a T3000 that is the sole master never polls that controller;
`EverybodysTurn` is therefore about the setups that reach all of them. And its
thread sleeps, until a frame is there or for a time that depends on the state;
the silence is measured from the last octet of anybody, so that a wait of 260 ms
for a reply finds less than 295 ms of silence and is repeated: the timeout takes
520 ms, more than `Tno_token`. `overslept` is the history of that; `OneToken`
and `EverybodysTurn` have it as their exception.

The receive thread does not read while a frame waits to be handled, so frames
that come meanwhile queue up (`rx`). A frame for another station sets a flag
too if it carries data: the state `SKIP_DATA` is left for `DATA` at the first
octet (line 516).

Assumed: no other node writes T3000's Max_Master (`device.c` would let it); the
controllers run the same state machine, polled without sleeps; a frame is on
the line for a time shorter than `Tusage_timeout`. Not modelled: octets, test
requests, the slave state machine, the hand-over of pdus to and from the node's
thread (a station that has something to send is chosen, `Announcers` and
`Requesters`).

### ScanSession

`main` is where `CMainFrame::Scan_Product` is, from the start of the threads to
the deletion of the scanner; `com[p]` is the thread of a port, `thread[t]` the
others; `events` holds the auto-reset events that are signalled. Each thread is
reduced to its waits, the events it sets on each of its ways out, the question
it asks the user (`BacnetAsk`), and the fields it writes after its event
(`Tail`). The thread that asks the net controllers has one place more, `spins`:
after a datagram of another kind, or a `recvfrom` that fails, its inner loop
(2030-2129) reads on without selecting again and without looking at the flags
(`NcStray`), until a reply of the kind it wants comes (`NcReply`) and it selects
again. `WaitScan` is the thread that waits for five events in a row, and then
saves (`WaitSave`); `Exit`, `TerminateBacnet`, `ExitSave` are the Exit button.

`TerminateThread` is called with handles and with `CWinThread` pointers; only the
handles name threads, so `Terminate` ends the threads of `CreateThread` only.
`raced` is a history: the list of ports was used between its clearing and its
rebuilding by `ScanBacnetMSTPDevice`, or the scanner after its deletion. Both
are undefined in the code; the properties that depend on it say so.

Not modelled: what the threads send and find, the progress in the dialog, a
second scan (which reallocates `hScanComData` under the threads of the first),
the old NC thread, which only sets its event.

### TftpUpdate

`server` is where the thread of `StartServer` is: in its loop over `ISP_STEP`, in
the middle of the step that takes over the device's address (`lanip`), at the
sending of a package, at the poll for its acknowledgement, or done. `rx` is a
datagram that `OnReceive` has looked at and not finished: between the clearing
and the writing of the address, and between the comparison of the acknowledged
number and the second read of `package_number`. The devices are outside: a
datagram that is sent reaches its device at once or is lost, and any of the
replies it may cause can be under way, be lost (never taken), late and
reordered; they do not outlive the sockets of their session.

`got` is what each device has received in this session. `trusted` is a history:
the number of the next package comes from one reply of this session; it is
false when a duplicate acknowledgement was taken while the number changed, or
when the number left by the last session is the one that acknowledges the first
package. `Product` is what a device says of itself: that of the file, another
one, or nothing.

Not modelled: the bytes, the resume that is switched off (`continue_flash_count`
is always 0), the checks of the file, the Modbus commands that send the device
to its bootloader (`connected` is their result), and the dialogs of `ISPDlg.cpp`
that begin one update after the other.

## 3. Runs

Every property of a passing run can fail: `PROJECT.json` gives for each a
definition and a faulty form of it with which TLC refutes the property.

| run | instance | states | shows |
|---|---|---|---|
| `Table` | 4 slots, 4 ids, timeout 2, 1 retry | 36 thousand | `UniqueInvokeIds`, `SearchEnds`, `OldestIdFirst`, and that the table is an `InvokeIdPool` (`PoolSpec`) |
| `ConfirmedSend` | 2 senders, the receive thread, 2 slots, 2 ids, 3 names | 3 million | distinct ids while no searches overlap, whole pdus of every sender that nobody wrote over |
| `PrivateTransfer` | a background reader and a writer, 3 ids, 2 tries | 1.1 million | `SuccessHasCause`, `WaitersDistinct`, `NoReplyIsForAnother`, `MarkedStaysOffScreen` until an id is freed under a request; `EveryStepCounts` |
| `CommandDispatcher` | one message of each kind, limit 1 | 372 thousand | order, at most once, bounded; nothing lost, every command dealt with and every edit settled unless the queue is cleared; a look holds unless it meets a clear or a move |
| `ModbusAccess` | a block reader, a reader, a writer, 2 registers, 2 tries | 827 thousand | the line stays in step until disturbed, a reconnect repairs it, the section is released |
| `MstpRing` | T3000, set up for a scan or for panel 1, and 2 controllers, 1 fault | 127 thousand | one token, two do not last, T3000 has its turns beside a controller, the controllers go on without it, nobody is left out where T3000 polls for all |
| `ScanSession` | 2 ports | 85 thousand | results are saved when all is quiet and before they are shown, nobody is left, the scan ends |
| `TftpUpdate` | 2 devices, one of another product, 3 packages, 2 tries, 2 sessions | 218 thousand | packages in order, success is complete, files go where they fit, the update ends |
| `DeadTimer` | 2 slots, 2 ids | violation | a request that nobody answers never fails |
| `Unanswered` | two readers | violation | a call reports success without an answer |
| `StaleReply` | 1 block reader, 2 registers | violation | the late reply to a given-up read is returned for the next |
| `WrongDevice` | 2 devices of one product, 1 package | violation | the file goes to the device that was not chosen |

**Why the bounds are enough.** *Table*: with as many ids as slots the table can
be full and the cursor must wrap over ids that are out; a smaller ratio hides
both. Timeout 2 and one retry let a timer count, retry and expire. The proofs
cover every size. *ConfirmedSend*: 2 ids for 2 slots wrap the cursor, skip 0 and
leave none to spare; 3 names let one request wait while two are sent, and clear
the table under it; names and senders are interchangeable (symmetry). A
constraint cuts a behaviour once searches have overlapped: the property about
ids says nothing more, and the one about the buffer is proved without the cut.
*PrivateTransfer*: two tries and two messages in flight are what a late reply to
a first try needs to meet the second; three ids let an id come back. The
constraint `Undisturbed` cuts a behaviour at the first id that is freed under a
request, since the invariants say nothing after that; what happens then is
`Unanswered`. *CommandDispatcher*: limit 1 lets the queue be too long with four
messages, the fall-through included, and the vector grow several times; no
message is posted twice. *ModbusAccess*: `MaxBacklog` 0 lets a new call begin on
an open line only when nothing else is under way there; within a call, its
retries and the calls that are already begun, requests pile up all the same.
`StaleReply` has backlog 1. *MstpRing*: times are a tenth of those of the code,
in milliseconds, in the same order (`TimeAssumption`), with `Npoll` 2 and one
retry so that maintenance polls and successors that are dropped come soon; three
stations are the fewest with a station between two others; with one fault a
token, a reply to a poll, or a station is lost at any moment of the ring, and a
station that failed may come back. One setup of T3000 reaches beyond all
stations, the other leaves one out. With `MaxHeard` 1 the branch of `Cleared`
for a queue of frames is not taken; the proofs cover it. *ScanSession*: two
ports let one be scanned while the other has ended; the proofs hold for any
number. *TftpUpdate*: three packages have a first, a middle and a last one; two
tries tell the first from the others; the second session meets the numbers the
first has left. The proofs hold for any numbers.

**Deadlock** is checked except where the system may stop: in
`CommandDispatcher` messages run out, and the program can end; in `ScanSession`
and the two runs of `TftpUpdate` everything ends with the last session; in
`MstpRing` all stations may have failed, with no more faults to
come, and stay so (a restart is never forced).

**Fairness.** `CommandDispatcher`: both threads and the dialogs' message loop
are weakly fair; posting and closing are up to the user. `ModbusAccess`: each
caller is weakly fair, which for `recv` is `SO_RCVTIMEO` (`Open_Socket2`) and
for the lock only says that a free section is taken; the device need not
answer. `MstpMaster`: time passes, and each station that runs makes its steps;
failing and restarting are not forced, and `T3000sTurn` and `WithoutT3000` begin
from the moment these have settled. `ScanSession`: each thread and the main
thread's own work are weakly fair; the user need not click Exit, close, or
answer the question of the MS/TP scan, and a port need not open or be found to
scan (`ComTest` is not fair, `ComFinish` is: every serial call has a timeout).
The thread of the net controllers (`NcDone`) is fair while its loop selects, which
waits for three seconds and is counted (line 1988); once it spins nothing is assumed, and
`ScanEnds` has that as its exception.
`TftpUpdate`: the thread, the handler once it has begun, and the dialog's
message loop are weakly fair; no reply has to come or be taken.

## 4. Findings

`PROJECT.json` quotes the comment each of the first four contradicts.

1. **Success without an answer** (`global_function.cpp:2375`): a click in the
   view or a full table frees the ids of requests that wait, and their callers
   take that for an answer. Because of 3, and because a failed send does not
   free its id, a full table is only a matter of time.
2. **A late Modbus reply answers the next read** (`common.cpp:9367`): the
   transaction id is sent and never compared, and the socket's input is not
   emptied.
3. **The transaction timer is dead** (`tsm.c:198`). Requests are put into
   `TSM_STATE_SEGMENTED_REQUEST`; the timer looks at
   `TSM_STATE_AWAIT_CONFIRMATION` only, so that none ever fails (`DeadTimer`).
4. **The file goes to another device** (`MySocket.cpp:126`): the reply of a device
   that was not chosen is noticed and taken all the same.
5. **A scan can hang** (`TStatScanner.cpp:2118`): a datagram that is not the reply
   the loop wants leaves it reading without a timeout. `ScanEnds` has this as
   its exception.
6. **Two threads can get one id** (`tsm.c:149`), and mix their pdus in the one
   buffer (`txbuf.c:32`): nothing is locked. `ConfirmedSend` has these as the
   exceptions of its properties.
7. **Background data on the screen** (`global_function.cpp:2287`): the id is
   marked after the request has gone out, in a global that any read resets.
8. **A failed write is reported as a success** (`MainFrm.cpp:11577`): the test
   is for 0, the function returns 1 or -1.
9. **A wait that is longer than a lost token** (`dlmstp.c:67`): 260 ms of sleep
   against 295 ms of silence make 520 ms.
10. **The scanner is used after its deletion** (`TStatScanner.cpp:5087`), and its
    list of ports while it is rebuilt (4656).
11. **The command queue is read while it moves** (`MainFrm.cpp:10612`): `push_back`
    holds a lock that the reader does not take. `LookHolds` has this as its exception.
12. **An acknowledgement can count twice** (`MySocket.cpp:294`), or for the next
    session (`TFTPServer.cpp:58`): the exceptions `trusted` stands for.

## 5. Proofs

All theorems hold for every value of the constants that their assumptions allow.

| theorem | of | says |
|---|---|---|
| `TypeCorrect` | all eight modules | `Spec => []TypeOK` |
| `IdsAreUnique`, `SearchAlwaysEnds`, `TableImplementsPool` | `TsmProofs` | `[]UniqueInvokeIds`, `[]SearchEnds`, `PoolSpec` |
| `OldestComesBack` | `TsmProofs` | `ReuseSpec => OldestIdFirst` |
| `SearchesKeepIdsUnique`, `SendsAreWhole` | `ConfirmedSendProofs` | `[]UniqueInvokeIds`, `[]OneRequestPerPdu` |
| `SuccessIsCaused`, `WaitersAreDistinct`, `RepliesFindTheirRequest`, `CallsAreBounded` | `PrivateTransferProofs` | `[]SuccessHasCause`, `[]WaitersDistinct`, `[]NoReplyIsForAnother`, `EveryStepCounts` |
| `StaysInStep` | `ModbusAccessProofs` | `[]InStep` |
| `QueueIsBounded`, `DealsInOrder`, `DealsAtMostOnce`, `LosesNothing`, `LooksHold` | `CommandDispatcherProofs` | `[]QueueBounded`, `[]DealtInOrder`, `[]DealtAtMostOnce`, `[]NothingLost`, `[]LookHolds` |
| `TokenIsUnique` | `MstpMasterProofs` | `[]OneToken` |
| `SavesQuietly`, `ShowsWhatIsSaved`, `LeavesNobody` | `ScanSessionProofs` | `[]SavesWhenQuiet`, `[]SavedBeforeShown`, `[]NobodyIsLeft` |
| `PackagesGoInOrder`, `SuccessMeansComplete`, `FilesGoWhereTheyFit` | `TftpUpdateProofs` | `[]PackagesInOrder`, `[]SuccessIsComplete`, `[]OnlyFitting` |

Every type invariant, safety invariant and action property of a passing run is
among them, and the one refinement, except `MarkedStaysOffScreen`: it is proved
too, as `MarkIsSeen`, but for one background reader only, which says too little
of the mark to be counted as a result. What is left to TLC is liveness.

**Assumptions** are on sizes, and in `MstpMaster` on times. Sizes: at least one
slot and no more slots than ids (255 and 255 in the code), tries that are
naturals, a caller of one kind, a finite set of ports, a file of 1 to 65535
packages, addresses up to 254 (what `dlmstp_set_max_master` accepts), polls
after at least one token. Times: only the order they have in the code,
`Tusage_timeout` 95 < `Treply_delay` 250 < the 260 that T3000's thread waits for
a reply < the 295 after which the state machine gives up < `Tno_token` 500, twice
`Tusage_timeout` less than `Tno_token`, because T3000 sleeps up to twice before it
gives up a poll, and a frame shorter than `Tusage_timeout`. TLC evaluates them in
the runs.

**The table.** `TypeOK` is inductive; it includes that an unused slot is IDLE.
Given it, `UniqueInvokeIds` is inductive too: only a grant adds an id, and it
takes one that no slot holds. That the search ends is a counting argument: ids
that are out come from busy slots, so if a slot is free there are fewer of them
than slots (`OutstandingCount`), hence fewer than ids, hence an unused id; and
among unused ids one needs the fewest increments (`FirstProbe`). With as many
ids as slots there is none to spare: one slot more and the loop could run for
ever. The refinement maps the pool's set to the ids in the slots
(`Outstanding`); it needs uniqueness, because freeing an id frees the first slot
that holds it, which removes it from the pool only if it is the only one, and
because a refusal must mean a pool that is full. `OldestComesBack` is
about the cursor: the ids it has gone over since an id was granted have all been
out (`PassedWereOut`), so when it comes round to that id it has gone over all the
others; freeing and clearing never move it.

**Sending.** What a sender has found out about the table between two steps must
still hold at the next: `SearchMeans` says that without an overlap the id it
probed is in no slot (the receive thread only frees, and clears only empty), and
`BufferMeans` that for a sender who is not among the `interfered` the buffer holds
what it has put there: whoever writes into it adds everybody else who is in it to
them. `OverlapsSeen` ties the other history to the senders' positions: two at
once in the search, and it is recorded.

**Transfers.** Until an id is freed under a request, ids in the table, ids of
messages and ids of waiting calls agree. `WaitMeans`: a call that waits and was
not answered has its id in the table; `CurrentMeans`: a message marked as
current is the reply to its caller's last request and carries that id;
`ResultMeans`: a call that has a result is over, and sends nothing; `MarkMeans`:
a mark stays the id of its one reader. Every case of an action is then
bookkeeping over one set of ids; the hard one is the receive thread's free,
which may come after the caller has gone on.

**The command queue.** Neither order nor counts are inductive alone. The
messages that the first thread has taken, and that came this far, are a prefix
of the posted ones (`MailboxIsRest`, `Past`), and `InOrder` says that the queue
and what was dealt with follow it, one before the other. `CopiesBounded` counts
the copies that were dealt with, that wait, and that are still to be appended:
it is what makes the branches that erase only the first copy right, and needs
that one kind of message is appended twice and that its branch erases all.
`LengthHolds` carries the unlocked check of the length, and `FrontHolds` the
unlocked looks at the front, across the steps of the other thread: only the
second thread takes from the front, unless there is a clear, and the length that
was read while the elements moved is followed by the message itself.
`NoneMissing` is `NothingLost` for the queue. Erasing goes through two lemmas:
`WithoutProperties`, that what is left is in its order and is everything but the
message, from which `ErasedProperties` and `CountOfRest` follow; it rests on
ranks in a finite set being one to one (`RankProperties`, `NthProperties`).

**The token.** Who may send next is nowhere in the state: it follows from what
each station has heard last. A station is `Active` if it holds the token, has to
answer, has passed the token on and not heard it used, or has a token, a poll or
a request for it in hand. `Orderly` says, until T3000 has overslept, that any
two active stations are the two ends of one exchange (`OneExchange`, `Fits`),
that a station has one unhandled frame at most and, unless it is the request it
is to answer, handles it before time passes (`OneFrame`), that no active station
lets the line be silent for as long as `Tno_token` (`InTime`), and that nobody
has counted a longer silence than an active station (`Longest`). The last two
together are why no token is made while another is in use: the station that
makes one has counted `Tno_token`, so every active one would have too. A frame
that is sent ends the silence for all who listen, and makes whoever is called
active and the sender passive, or its partner (`SendOrderly`, with `TurnIsHeard`
and `AnswerIsHeard` for the handing over and the answer); a step that sends
nothing changes its own station only, which stays an end of the exchange it was
in (`QuietStepOrderly`, `QuietOrderly`); time passes only when nobody has a
frame to handle, and not past the next moment at which somebody acts
(`TickTime`, `TickOrderly`). A damaged frame calls nobody, a failure takes
activity away and a station that starts again is passive (`FailOrderly`,
`RestartOrderly`). When T3000 sleeps on past a reply timeout `InTime` is false,
a second token may be made, and the theorem says nothing more: the code allows
it. `TypeOK` needs `Typed`, which holds however long T3000 sleeps: a station in
`AnswerDataRequest` still has the request, and one that uses the token has
frames left.

**The Modbus line.** `InStep` is not inductive. It is strengthened by
`NoneOnClosed` (requests die with the connection: otherwise a caller that gives
up on a closed line would leave one behind) and by `OneWaits` (on an undisturbed
line one caller at most waits). For two readers the latter is the critical
section, which `TypeOK` ties to the callers' positions; for a writer it is what
`disturbed` records. `LeavesLine` states once what a failed or finished call does
to the callers and to the section.

**The scan.** Each event that is signalled, and each one that the waiting thread
has taken, says that its thread has ended; the event of the ports is the hard
one, since it is set by a thread that counts handles, taken and set again by the
TCP thread, and set too early when the list was empty for a moment (`raced`).
The waiting thread's place in its row of waits then says which threads have
ended, and at its end all have.

**The update.** `NumbersMean` is the heart: if the number of the next package is
one more than the current one and can be trusted, the current package has
arrived; `AckMeans` says that an acknowledgement under way is for a package that
has arrived, `StepMeans` what each step says of the server's place. With them
`PackagesInOrder` is inductive, and `SuccessIsComplete` is it at the last package.
`OnlyFitting` rests on `ProductMeans`: the name that is compared belongs to the
device that replied, unless the file goes to the chosen one.

**Only model-checked.** Liveness (`SectionIsReleased`, `DealtUnlessCleared`,
`ScanEnds`, `UpdateEnds`, `T3000sTurn`, `WithoutT3000`, `Resolved`), which is out
of the prover's reach: all of it rests on fairness. And the four refutations,
which are behaviours of an instance.

## 6. What is left

What could be proved next are steps towards the liveness properties: that each
retry of a Modbus call, each session of an update and each wait of a scan counts
something down, as `CallsAreBounded` says of the blocking transfers; and that
`Orderly` of the line is restored once T3000 is awake again and one of two tokens
was given up, which is the safety half of `Resolved`.

**Not modelled**, and why:

- The hand-over of pdus in `dlmstp.c` (one slot each way between the sender, the
  node's thread and the receiver) and the address cache (`address.c`): candidates
  for the next modules.
- BBMD and the foreign device table: nothing calls `bvlc_receive` (its use in
  `datalink.h:116` is commented out); BACnet/IP itself is socket calls.
- The firmware update over Modbus (`ComWriter.cpp`): its one question is whether
  the device counts a package twice when its acknowledgement was lost, and the
  device's side is not in the repository.
- The dialogs that begin an update (`ISPDlg.cpp`): the Return key can start a
  second one under the first; the model begins a session when the last has ended.
- The agent servers: not part of the build.
- Trend logs, the refresh tree thread, dialogs and views, databases: windows,
  and database calls in straight lines, of one thread.
- The control program compiler and decompiler: text in, bytes out; their
  correctness is about strings and tables too large to enumerate.
- Vendored tools and libraries.

## 7. Using it

`tlc -config <run>.cfg <module>` checks a run (module and properties are in
`PROJECT.json`), and `tlapm <module>Proofs.tla` checks the proofs of a module.
The longest run takes about two minutes.
