# Verification of rkaiq_tool_server

The tool server runs on a camera. PC tools connect to it over TCP to tune the
image signal processor (ISP), to capture raw frames, to send files and to look
at the stream over RTSP. This directory holds TLA+ models of its core logic, the
TLC configurations that check them on small instances, and TLAPS proofs of the
results that hold for instances of any size. Paths below are relative to the
repository's root (`src/`).

    tlc -workers 2 -config AiqForward_faulty.cfg MCAiqForward.tla    # a run
    tlapm AiqForwardProofs.tla                                       # the proofs

`PROJECT.json` lists components, runs, hazards and theorems, and for each
definition the source lines it stands for. In the modules, an operator whose
comment begins with *Variant* or *Mutant* is not part of the model: it is a
plausible mistake in the definition that follows it, and PROJECT.json says which
property fails when the definition is replaced by it.

## 1. The system

One process, many threads:

    PC tool --TCP--> receive thread (one per connection)
                       |-- RKAiqProtocol::HandlerTCPMessage
                       |     |-- mode, RTSP start and stop   --> media graph (ISP links)
                       |     |-- file transfer               --> file system
                       |     |-- RKAiqRawProtocol            --> V4L2 capture node
                       |     |-- RKAiqOLProtocol             --> AIQ, capture node
                       |     '-- MessageForward              --> g_tcpClient --> AIQ process
                       '-- (detached) doMessageForward      <-- g_tcpClient <-- AIQ process
    main thread: options, first mode switch, TCPServer::Process, pause();
                 signal handlers run on it
    accept thread: TCPServer::Accepted
    media flows: one coroutine thread per flow, buffers in bounded slots

| Component (sources) | State | Operations | Interacts with | Hard behaviour | What makes it correct |
|---|---|---|---|---|---|
| AIQ forwarding (`rkaiq/rkaiq_protocol.cpp` 748-897, `netserver/domain_tcp_client.cpp`, `rkaiq_api/rkaiq_socket.cpp` 110-128) | `g_tcpClient.sock`, `is_recv_running`, `forward_thread`, descriptor numbers | forward, reconnect, start a forwarder, carry answers back, `Exit` | receive threads, AIQ process, kernel's descriptor table | shared socket and flag, numbers closed twice and reused, AIQ restarts, SIGPIPE | no packet twice, order kept, answers read by somebody, the flag never orphaned, no stranger's descriptor closed |
| Run mode (`rkaiq_protocol.cpp` 96-157, 262-411) | `g_app_run_mode`, `g_rtsp_en`, the media graph, the RTSP pipeline, `mutex_` | `DoChangeAppMode`, `START_RTSP`, `STOP_RTSP`, reset after a failed forward, main's first switch | receive threads, main, media controller | stores outside the mutex, failures half-way | mode and graph agree, a switch to capture stops RTSP, every request ends |
| TCP server and process life (`netserver/tcp_server.cpp`, `rkaiq_tool_server.cpp`) | `quit`, `quit_`, `exited_`, `sockfd`, thread objects | `Process`, `Accepted`, `Recvieve`, `SaveExit`, `signal_handle` | kernel signals, all threads | handlers nest and interrupt `Process` and `SaveExit` | threads stop and are joined once, the listener is closed once |
| Raw capture (`rkaiq_raw_protocol.cpp`, `camera/camera_capture.cpp`) | file statics: status, mode, counters; `cap_info`; frame buffers | STATUS, GET, SET, START, CHECKSUM | run mode, V4L2, frame averaging | statics shared without a lock, release spread over messages, device failures | every frame once and in order, everything released, BUSY is true |
| Frame averaging (`multiframe_process.cpp`) | 32-bit sums | add a frame, average | raw capture | integer widths, byte order, rounding | the mean, within the samples |
| Media flow input (`rkmedia/librkmedia/flow.cc`, `lock.cc`) | slots, mutexes, `cond_mtx`, `enable`, `quit` | `SendInput`, fetch, process, `SetDisable`, `StopAllThread` | upstream flows, coroutine, destructor | sizes read without the mutex, wait and notify, three policies at a full slot | a bounded queue; no lost wakeup; nobody blocked for ever |
| Media flow graph (`flow.cc`, `source_flow.cc`, `rkmedia/rtsp_server.cpp`, `v4l2_capture_stream.cc`) | links between flows, global flow pointers, the copy a thread sends from, the camera's frames | `AddDownFlow`, `RemoveDownFlow`, `init_rtsp`, `deinit_rtsp`, `ReadThreadRun`, destructors | run mode, V4L2, RTSP output | teardown while buffers flow; whoever drops the last pointer destroys | no flow is sent to after its destructor began; deinit leaves nothing; the camera is closed and opened again |
| RTSP output (`live555/server/`) | sources with packet list and pipe of tokens, `video_list`, the message handshake | push, reduce, read, close, delete; add and remove a channel | flow's thread, live555's event loop | a full pipe under a mutex, tokens without packets, deletion by the other thread | what is shown is decodable and in order; nothing used after deletion; nobody waits for ever |
| File transfer (`rkaiq_protocol.cpp` 413-595) | one packet per call | receive, check hash, save | PC, file system | `recv()` timeouts counted as lengths, a first `recv()` of any size | in bounds if the first part is, only what was sent is saved, an answer unless it crashed |
| Offline raw (`rkaiq_protocol.cpp` 597-746, 788-847) | `startOfflineRawFlag`, detached workers | start, stop, worker | AIQ socket | flag set by the worker itself | a stop stops, one worker at a time |
| Online protocol (`rkaiq_online_protocol.cpp`) | `capture_frames`, `capture_frames_index`, `cap_info`, `capture_status`; descriptors of two nodes | GET, SET, START of YUV and online raw capture | receive threads, V4L2, camera | one START captures everything, and statics are shared without a lock; error returns that release nothing | an undisturbed capture is in order, and complete if its device works; only failed YUV captures, and GET_PARAMs that wipe a descriptor, leave anything; every START ends |
| AIQ request socket (`rkaiq_api/`) | the AIQ socket of AIQ forwarding | `RkAiqSocketClientINETSend` (sends and does not wait), `INETReceive` (no live caller) | AIQ process | - | - |
| Media topology, camera device and memory, sensor info | none that outlives a call | discovery, ioctls | kernel | I/O | - |
| Codecs, codec streams, Android server, vendored code | vendor libraries' state | adapters | libraries | - | - |

`hazards` in PROJECT.json lists, line by line, what in this code is hard to
test, and which property watches it.

## 2. The modules

| Module | What it is |
|---|---|
| `AiqForward`, `AiqForwardProofs`, `MCAiqForward` | the forwarding path, with the kernel's descriptor table and the AIQ process around it |
| `FlowInput`, `MCFlowInput` | an asynchronous flow input, at the grain of its locks |
| `FlowQueue` | abstract specification of such an input; `FlowInput` implements it |
| `TcpServer`, `TcpServerProofs`, `MCTcpServer` | the life of the process: main, accept thread, receive threads, signal handlers |
| `AppMode`, `AppModeProofs`, `MCAppMode` | the run mode and the media graph |
| `RawCapture`, `RawCaptureProofs`, `MCRawCapture` | raw capture from STATUS to CHECKSUM, on device, buffers and stream |
| `MultiFrame`, `MCMultiFrame` | the averaging arithmetic of one pixel; its names differ from `RawCapture`'s, so that `RawCaptureProofs` holds its theorems too |
| `FileTransfer`, `FileTransferProofs`, `MCFileTransfer` | one file transfer |
| `FlowGraph`, `MCFlowGraph` | the pipeline of flows: built, running, taken down, built again; its names differ from `FlowInput`'s, so that one module can extend both |
| `FlowProofs` | the theorems about `FlowInput` and `FlowGraph` |
| `RtspOutput`, `RtspOutputProofs`, `MCRtspOutput` | from the RTSP flow's thread through the sources to the clients |
| `OnlineCapture`, `OnlineCaptureProofs`, `MCOnlineCapture` | YUV and online raw capture, by several PCs at once |

Each specification module declares its parameters as CONSTANTS with named
assumptions, and has one action per step of a handler: a handler is cut where it
calls something that can wait, where it releases a lock, and where it reads or
writes state that another thread uses. The `MC` modules only give the constants
values.

### AiqForward

A descriptor is a number that names a file. `file` is the process's table: a
number names a PC's connection, a socket that `DomainTCPClient::Setup` made, or
nothing; `accept()` and `socket()` take the lowest free number, as the kernel
does. A receive thread keeps its number in `cfd` and walks through `recv`,
`mode` (the switch to tuning mode that `MessageForward`'s caller makes), `send`,
and on failure `setup`/`socket`/`connect` (`ConnectAiq`), `failed`, `giveup`;
then it starts a forwarder (`SpawnForwarder`) if `is_recv_running` was not set.
A forwarder (`doMessageForward`) sets the flag in `FwdStart`, reads the answer
in two steps (`FwdCall`, then `FwdData`, `FwdNothing` or `FwdError`, because
`Receive` looks at `sock` before it blocks), sends it to the number it was
given, and clears the flag in `FwdLast`. `errno` is kept per thread since the
loop's exit depends on it. SIGPIPE, which the program leaves at its default,
ends the process where a `send()` meets a closed peer (`SendSigpipe`,
`FwdSigpipe`). `delivered` and `answered` are histories.

Properties: `FlagHasForwarder`, `NoDuplicate`, `InOrder`, `OwnDescriptor`,
`Answered`.

### FlowQueue and FlowInput

`FlowQueue` says what an upstream flow may count on: per slot a queue that keeps
order, refuses or drops a buffer only for a reason its mode gives, and hands
over each buffer once. `FlowInput` has the threads: producers in
`ASyncSendInputCommonBehavior` and in the three behaviours of a full slot, the
coroutine in `WhileRun`, `RunOnce` and `ASyncFetchInputCommon`, the destructor in
`StopAllThread`. The size is read without the slot's mutex in three places
(`PollSize`, `CheckSlot`, `FetchSlot`) and these are steps of their own; so are
the two halves of DROPFRONT. `mode` is `mode_when_full`, set once in
`Input::Init`.

The refinement mapping of `ImplementsQueue` takes `queue` and `got` as they are,
`hand` as `in_vector`, and counts a producer's buffer as dealt with (`last`)
from its push or from the moment it is given up. What the code does *not* give
is the plain bound: a blocked producer looks at the size, gives the mutex back
and pushes, so each further producer of the slot may overshoot by one; `Slack`
is that number, and the proof shows that it is never more.

### TcpServer

`stack` holds the activations of `SaveExit` on the main thread: one for each
signal handler that is running there, and the one that main calls at its end.
A signal is blocked only while its own handler runs (`sa_mask` is empty), so
another signal's handler interrupts it anywhere. `Process` is cut into
`socket()`, the calls that may fail after it, the clearing of `quit_`, the start
of the accept thread and the assignment of `accept_thread_`: a handler may run
between any two. Joining a thread that was joined throws and ends the process
(`Abort`). `kinds` and `calm` are histories: the kinds of signals that came, and
whether all of them came after the start. `NothingLeft` and `Stops` are claimed
for every history. `ListenerClosedOnce` and `NeverAborts` are claimed for
signals of one kind that come after the start, beside an accept thread that does
not fail (`Started`): a handler that
interrupts `Process` before it has stored the thread, or another handler in the
middle of a join, really does close or join twice. Both `Accepted` and `SaveExit`
close the listener and forget its number in two steps (`AcceptClose`,
`AcceptExit`; `SaveClose`, `SaveForget`), and a handler may come between the two:
with one kind of signal that closes nothing again, because the accept thread,
which everybody joins first, has forgotten the number by then. Where `SaveExit`
does close the number itself, after a signal that came before `Process` had
stored the thread, a handler in between closes it again.

### AppMode

`link` is what `LinkToIsp` leaves behind: the sensor linked to the ISP, past it,
or half of either while it runs. Every receive thread, and main before it starts
the server, runs `DoChangeAppMode` (under `mutex_`, held from `Lock` to `SetMode`
or an error), `START_RTSP` and `STOP_RTSP` (without it) or a forward whose
failure stores INIT. `LinkToIsp` has three results: -1 before it has touched the
graph (`LinkFailed`), 0 with the graph set up, and 0 with links that could not be
set or with no rkisp device found, since it looks at neither (`Linked`, which
then leaves the graph `partial`). Two histories say in which behaviours the
properties are claimed: `spoilt` (the last `LinkToIsp` was `START_RTSP`'s, ran
beside one, or did not set the graph up; the next one starts afresh) and
`overlapped` (START or STOP ran beside another message).

### RawCapture

All variables of the first two lines are file statics, shared by the receive
threads of all PCs without a lock. START is cut at `init_device`,
`start_capturing`, the capture of a frame (or of each frame of a half, when
averaging), the test for the last frame, and `StopCapture`'s two calls.
Descriptors and buffer arrays carry the number of the `init_device` call that
made them, so that one that is forgotten or freed twice is seen. `phase` and
`left` are the PC tool: what it sends next; it follows the protocol as the
handlers expect it. The histories are `mixed` (a PC began while another's
capture went on) and `lost` (the device refused or lost a frame since SET).

### MultiFrame

One pixel: `Stored` is what the driver delivers, `Loaded` what
`MultiFrameAddition` makes of it, `pIn1_pOut` the 32-bit sum taken modulo 2^32,
`POut` the 16-bit result. The widths are constants (`Byte`, `U32`).

### FileTransfer

Byte *k* of the PC's stream is the number *k*. The first `recv()` is
`Recvieve`'s, which takes what TCP has: `StartTransfer` lets it return anything
from one byte to the whole packet and `Extra` bytes of what the PC sends next, as
the code looks at no size. A field that did not come is what an earlier message
left in the buffer (`Stale` for `packetSize`, `sized` for `dataSize`); more than
the packet is copied behind `receivedPacket` and wraps `remain_size` around.
The -1 of a `recv()` that timed out is subtracted from `remain_size` as well,
which moves `Offset` one back and makes the loop ask for a byte more. All this
arithmetic is modulo `U64`. `stray` is a history: a byte was written outside
`receivedPacket`; after that, or when fields or data are read that are not there
(`Readable`), the process may crash. `clock` is the time since the loop began.

`InBounds` says for which first parts no such thing happens; `SavedIsSent` holds
for all of them.

### FlowGraph

Flows are pairs of a kind (`cap`, `enc`, `rtsp`, `dump`) and the session, the
number of the `init_rtsp` call that made them. `handle` is the four globals,
`down` the lists of flows (`AddFlow`, `RemoveFlow`), `flows` the copy that a thread in `RunOnce` sends
from: who holds a pointer (`Referenced`) decides whether a flow lives, and the
thread that drops the last pointer runs the destructor (`owner`), which is four
steps here - the stores of `StopAllThread`, `S_STREAM_OFF`, the notification,
the join. `tpc` is the flow's own thread: `ReadThreadRun` for the capture flow,
`WhileRun` with `ASyncFetchInputCommon` and `RunOnce` for the others. A frame is
the driver's unless a queue or an `in_vector` holds it (`Held`); the last frame
held keeps the device open. `late` is a history: threads that began to wait, or
started the stream again, after the destructor had done what should prevent it.
Pushes and pops are single steps: FlowInput is that input in detail, with its
`Slack`. One thread calls `init_rtsp` and `deinit_rtsp`; the program's callers
(receive threads, main, the signal handler) share the globals without a lock,
and two at once are a data race on shared pointers.

### RtspOutput

A `Source` has a packet list (`cached_buffers`), a pipe of `tokens`, and a
`life` that the event loop ends by closing the read end and the flow's thread by
deleting it. `fpc` is the RTSP flow's thread in `SendMediaToServer`: it walks the
list to delete what the loop closed (`RemoveClosed`, `KeepSource`, `RemovedAll`:
`remove_if` looks at one node after the other, and the loop may append in
between), then pushes to each source (`Push` takes the mutex, reduces and
appends; `WriteToken` may block when the pipe is full). `lpc` is live555's event
loop: it makes and closes sources for clients, reads tokens and pops, and
answers messages (`addSession`, `removeSession`). `owner` is the thread that
makes and destroys the flow and waits for the loop's answers (`sendMessage`).
Packets carry their kind and number. `raced` is a history: `video_list` was
changed by both threads at once, after which a node may be lost.

### OnlineCapture

`pc` has the label of each PC's handler: `DoCaptureYuv` from `open` to `close`,
`DoCaptureOnlineRaw` from `init` to `uninit`. The increment of the shared
index is a load and a store. Descriptors and buffer arrays carry the number of
the call that made them, and `yuv_queue` and `raw_queue` say which descriptor
each node's buffer queue belongs to. A PC sends any request at any time. Every
device call may fail. `DoCaptureYuv` then returns (`GiveUp`); `DoCaptureOnlineRaw`
goes on, as it looks at no result: `RawInit` may leave no descriptor, no
buffers, or the freed ones of the capture before; `RawFrame` may send nothing,
because `VIDIOC_DQBUF` returned an error or the callback refused the frame's size,
and the index advances all the same. Before the first GET_PARAM `cap_info` is all
zero, so `io` is `read`. Where that, or the driver giving no buffers, ends the process
(`exit()`, null or freed buffers) is `RawDies`. GET_PARAM is two steps:
`InitOnlineRawCapture` forgets `dev_fd` at its beginning and closes what it finds
there at its end.

The histories say for which captures the properties are claimed: `alone` and
`last` the one between whose SET and end no other PC's request came, `refused`
those of whose device calls one failed or whose frame was refused, `mixed` that two raw
STARTs ever ran at once, `given_up` the descriptors of failed YUV captures,
`forgotten` those a GET_PARAM wiped from `cap_info`.

## 3. The runs

All runs use a specification as it stands; none replaces a definition.
Deadlock is not checked (`CHECK_DEADLOCK FALSE`) except in `mode_threads`: the
bounds end every behaviour, and the program itself may rest - PCs that send
nothing more, a process that has ended, a transfer that is over.

| Run | Instance | States | Question and answer |
|---|---|---|---|
| `aiq_faulty` | 2 PCs, one may leave; 2 forwarders; 2 sockets, 3 descriptors; 1 packet each; the AIQ there or not at the start, goes once; shutdown | 5.0 M | `FlagHasForwarder`, `NoDuplicate` hold through exits, reconnections, reused numbers and shutdown |
| `aiq_quiet` | 2 PCs, 2 packets from one and 1 from the other, 2 forwarders, nothing fails | 327 k | `InOrder`, `OwnDescriptor` and, under fairness, `Answered` hold also when the race on the flag starts two forwarders |
| `flow_input` | 2 producers on one of 2 slots, 2 buffers each, cache 1, each mode, disable and destruction | 98 k | `PopFindsBuffer`, `ImplementsQueue`, and under fairness `Drained`, `Unblocked` hold |
| `tcp_signals` | 2 connections, 3 signals of 2 kinds at any time, `accept()` may fail | 943 k | `NothingLeft`, `ListenerClosedOnce`, `NeverAborts` and, under fairness, `Stops` hold |
| `raw_session` | 2 PCs, 2 captures of 1 or 2 frames, or averages of 2 or 4; device, frame and checksum faults | 6.0 M | `Released`, `FramesDelivered`, `BusyIsTrue` hold |
| `raw_mismatch` | 1 PC, the last checksum differs | violation | `MismatchAnswered` fails: buffers freed twice |
| `mf_average` | bytes of 3 values, up to 16 frames | 20 k | `Averaged` holds |
| `mode_threads` | main and 2 PCs, 4 requests of all 6 kinds; links that fail or stay unset | 71 k | `ModeMatchesLink`, `CaptureStopsRtsp` and, under fairness, `Served` hold |
| `file_received` | a packet of 8 bytes, 1 to 10 bytes first, chunks of at most 3, 2 bytes of a next message, `packetSize` left over as 0, 5 or 11 | 31 k | `InBounds`, `SavedIsSent` and, under fairness, `Answered` hold |
| `rtsp_clients` | 2 clients that come, read, pause and go, 1 channel, pipes and caches cut to a few packets | 470 k | `TokenForEach`, `NoUseAfterDelete`, `AllDeleted`, `Decodable`, `ShownInOrder` and, under fairness, `Served`, `ChannelAnswered` hold |
| `flow_restart` | 2 calls of `init_rtsp`, 1 driver buffer, a camera that gives two frames in the first session and none in the last | 430 k | `TargetAlive`, `PipelineGone`, `BusyOnlyForDump` and, under fairness, `Returns`, `DeviceCloses`, `CaptureGoesOn` hold |
| `online_overlap` | 2 PCs, 4 requests of any kind, 0 or 2 frames asked for, a camera that falls silent once, any device call failing | 1.34 M | `AloneIsComplete`, `OnlyGivenUpLeaks`, the action property `NoYuvAfterFailure` and, under fairness, `Served` hold |

The runs spend their time on the properties that say something about the code.
`TypeOK` (`GraphTypeOK`) of each module holds in its instance too and may be added to any cfg;
for the modules of section 4 it is a theorem.

Why the bounds are enough:

- *AIQ.* The races are between two threads of a kind: two receive threads that
  start forwarders, two that reconnect, a forwarder that closes what another
  thread uses. Three descriptors make `accept()` and `socket()` reuse a freed
  number, two sockets allow one reconnection after the only exit; reordering
  needs two packets of one PC. All safety properties are proved for all bounds.
- *Flow.* A lost wakeup needs a push between the check of one slot and the wait
  after another, hence two slots; the overshoot needs two blocked producers, the
  drop one buffer in a slot of one. Safety is proved for all bounds.
- *TCP.* Two kinds of signals let one handler interrupt another, three signals let
  one of the first kind come again, in `Process`, in a handler or in main's own
  `SaveExit`; two connections let the join loop be interrupted between two
  threads.
- *Raw.* Two captures are enough for the second to meet what the first left,
  whatever the first one's fault; two PCs for every overlap of two handlers. One
  and two frames are the first, middle and last one of a capture; averages of
  two and four have halves of one and of more.
- *MultiFrame.* With bytes of three values a pixel has nine, and the sum passes
  every rounding case; proved for all widths and frame numbers.
- *Mode.* Every race on the mode is between a switch and one more message; main's
  own switch is a third thread. `ModeMatchesLink` is proved for all bounds.
- *File.* The packet is longer than the header by more than the timeouts that fit
  in the limit, as in the program (424 bytes, 20 s, 3 s), and every first part up
  to two bytes of the next message is tried: within a field, within the header,
  at each of the limits of `InBounds`, the packet, and beyond. A `packetSize` left
  over is none, too small or too large. `U64` is larger than every size, so only
  differences wrap. Safety is proved for all sizes.
- *RTSP.* Two sources are the list that one thread walks and the other changes;
  the cache limit and the pipe are small enough that reduction and a full pipe
  happen, and enough packets come that one follows both. The subsession reuses
  its first source, so one source is open at a time; two at once were checked
  for safety only, without an error.
- *Flow graph.* A second session is the first to find a dump flow and a device
  left by the one before, and has every state that later ones have. The
  camera gives one frame more than the driver has buffers, so that the second
  comes only when every flow has given the first back. Safety is proved for all
  bounds.
- *Online.* Four requests are two captures with their SET, or a SET, a START and
  two that fall into it; two frames are the least for a lost increment; zero is
  a capture that ends at once. One silence is enough for a YUV capture to fail,
  since a failure is for good.

Fairness, and why the code justifies it:

- A thread that can go on does (WF per thread): they are pthreads of one
  process, without priorities.
- *FlowInput*: strong fairness for producers and the coroutine, because each takes
  a mutex that others take and give back again and again, and a pthread mutex is
  had in the end. Nothing makes a producer send or a condition variable wake up
  on its own.
- *AiqForward*: the AIQ answers what it has been sent as long as it is there;
  packets, timeouts of `Recvieve`, connections, exits and signals are not fair.
  A blocked `Receive` is not forced to return except by data.
- *TcpServer*: `accept()` and `recv()` have timeouts (`SO_RCVTIMEO`), so the threads
  come back to the test of `quit_`; a pending signal is delivered.
- *AppMode*: a handler that has begun goes on. Arrival of requests is not fair.
- *RtspOutput*: the flow's thread, the event loop and the owner go on; no client is
  made to come or to read, and the encoder is not made to give packets.
- *FlowGraph*: as long as any thread can take a step, one does (WF of all
  together, which is less than WF of each). Nobody is made to call, the camera
  gives the frames it has.
- *OnlineCapture*: a handler that has begun goes on; a blocking `VIDIOC_DQBUF` waits
  for the camera, which nothing makes resume.
- *FileTransfer*: each `recv()` returns, at the latest by its timeout.

## 4. The proofs

TLAPS checks these for every value of the constants that satisfies the named
assumptions; every leaf is proved, nothing is assumed beside the ASSUMEs.

| Theorem | Says | By |
|---|---|---|
| `AiqForwardProofs!TypeCorrect` | `Spec => []TypeOK` | `TypeInv`: types and `Carries` - a thread on its way to a `send()` has a packet |
| `AiqForwardProofs!FlagCorrect` | `Spec => []FlagHasForwarder` | inductive together with the types: the flag is set only by a forwarder that enters its loop, and every forwarder that leaves clears it; a forwarder that clears it while another is in the loop only makes the left side false |
| `FlowProofs!TypeCorrect`, `AssertionHolds` | types; `assert(!v.empty())` never fails | `Inv` below |
| `FlowProofs!Implementation` | `Spec => ImplementsQueue` | `QueueStep`: under `Inv` each step is a step of `FlowQueue` or a stutter |
| `FlowProofs!GraphTypeCorrect`, `TargetAliveCorrect`, `PipelineGoneCorrect`, `BusyOnlyForDumpCorrect` | types; `GraphSpec => []TargetAlive`, `[]PipelineGone`, `[]BusyOnlyForDump` | `GraphInv` below |
| `FlowProofs!JoinsDownwardsCorrect`, `EmptyWhenDyingCorrect` | the caller or the flow upstream destroys a flow, never its own thread, so that joins form no cycle; a dying flow's list is empty | `GraphInv` |
| `AppModeProofs!TypeCorrect`, `ModeCorrect` | types; `[]ModeMatchesLink` | `IInv`: the thread inside `DoChangeAppMode` holds `mutex_`; only it changes the graph; while it does, the mode it will store is the one the graph is set up for, unless `spoilt` |
| `RawCaptureProofs!PixelTypeCorrect`, `AverageIsCorrect`, `AverageIsWithin` | types; the result is the rounded mean, and between least and greatest | `PixelInv`: the sum is the true total, at most 255 times the greatest pixel, so no operation wraps; exchanging bytes twice is the identity |
| `RawCaptureProofs!TypeCorrect`, `BusyCorrect` | types; `[]BusyIsTrue`, also when PCs overlap | inductive beside the types: a START that is under way ends by setting the status |
| `RawCaptureProofs!ReleasedCorrect`, `FramesDeliveredCorrect` | for requests with frames, `[]Released`, `[]FramesDelivered` | `SessionIInv` below |
| `TcpServerProofs!TypeCorrect`, `NothingLeftCorrect` | types; `[]NothingLeft`, whatever handlers interrupt | `ExitInv` below |
| `TcpServerProofs!ClosedOnceCorrect`, `NeverAbortsCorrect` | `[]ListenerClosedOnce`, `[]NeverAborts` | `CalmInv`, `NeverInv` below |
| `OnlineCaptureProofs!TypeCorrect`, `BusyCorrect`, `NoYuvCorrect` | types; `[]BusyIsTrue`: BUSY only while a START, YUV or raw, is handled; `Spec => NoYuvAfterFailure` | `YuvInv`: no two handlers have the same descriptor, and the node's queue is nobody's, a failed capture's or that of the one handler between REQBUFS and `close` |
| `OnlineCaptureProofs!OnlyFailuresLeak` | `[]OnlyGivenUpLeaks` | `LeakInv`: until two raw captures overlap, every open file is given up, forgotten, some handler's `fd`, or `dev_fd`, and the buffers mapped are those of the capture under way |
| `OnlineCaptureProofs!AloneCorrect` | `[]AloneIsComplete` | `OrderInv`: the frames sent are below the shared index and increase, and are all of those below it unless the handler is in `refused`, at every label (`Progress`), as long as it is alone |
| `AiqForwardProofs!NoDuplicateCorrect` | `Spec => []NoDuplicate` | `TokenInv`: a packet, or its answer, is in one place only (`OnePlace`) - with a receive thread, with a forwarder, or at one position of one connection -, and what a receive thread still carries was not delivered |
| `AiqForwardProofs!OwnDescriptorCorrect`, `InOrderCorrect` | without faults, `[]OwnDescriptor`, `[]InOrder` | `QuietInv`, `OrderInv` below |
| `AppModeProofs!CaptureCorrect` | with `-r 1`, `Spec => CaptureStopsRtsp` | `RtspInv`: unless START or STOP ran beside another message, `g_rtsp_en` misses no pipeline, and a thread on its way to CAPTURE has stopped it |
| `RtspOutputProofs!TypeCorrect`, `StructureCorrect` | types; the invariant `Structure` below | `Structure` |
| `RtspOutputProofs!NoUseAfterDeleteCorrect`, `AllDeletedCorrect` | `[]NoUseAfterDelete`, `[]AllDeleted` | `Structure` |
| `RtspOutputProofs!TokenForEachCorrect` | `[]TokenForEach` | inductive beside `Structure`: whoever drops a buffer takes its token, or had taken it before |
| `RtspOutputProofs!QueueCorrect`, `ShownInOrderCorrect`, `DecodableCorrect` | `[]QueueInv`; `Spec => ShownInOrder`; `Spec => Decodable` | `QueueInv` below |
| `FileTransferProofs!SavedCorrect` | `[]SavedIsSent` | `SaveInv`: the hash was compared before the file is opened, and nothing is received in between |
| `FileTransferProofs!TypeCorrect`, `WritesInBounds` | types, for every first part; `[]InBounds` | `LoopInv`: as long as the first part fits, `Offset` is behind `next` by the number of -1s, and all of these but a reset took `Interval` seconds each, so they are at most `Margin`; `HeaderInv`: the header of a well begun packet is whole |

Why `FlowInput`'s invariant is what it is. `PopFindsBuffer` is not inductive: the
coroutine tests the slot without its mutex, and DROPFRONT may take out the
buffer it saw. `CoroutineInv` says that then a producer is between its drop and
its push; `MutexInv` says that this producer holds the mutex, so the coroutine
cannot be past `lock`. The bound of BLOCKING slots needs `BlockingInv`: buffers
queued plus producers that will push without another look stay below the limit
plus the number of feeders; it is preserved because a producer joins the second
number only when the first one is below the limit.

`FlowGraph`'s three invariants need `GraphInv`. `TargetAlive` and `PipelineGone`
are two sides of one fact, that a flow is alive exactly as long as a global or a
copy in some `RunOnce` names it (`HeldInv`), and neither says who names it.
`HandleInv` says in which order `init_rtsp` and `deinit_rtsp` set and reset the
globals; with it the lists are a function of the caller's place (`DownInv`,
`ListOf`), so when the last pointer to a flow is dropped its own list is empty
and a destructor sets off no other. `CopyInv` says that a copy is one of the
lists its flow has had, and empty unless the thread is sending. `MadeInv` says
that flow and thread are made together and that of former sessions only dump
flows are left. `HeldInv` also says where the thread is that dropped the last
pointer to a flow: the caller, which waits, or the thread upstream, which
is still at `reset`. That gives `PipelineGone` from the top (`AllGone`): once
`cap` is gone its thread is done and has no copy, so it is destroying no `enc`, and
no copy keeps `enc` alive; the same again for `rtsp`. `CameraInv` says that
frames stay within their session and that the device of a capture flow that is
gone is open only because of a frame. `GraphInv` was checked by TLC on an
instance with two buffers before it was proved.

`TcpServer`'s theorems rest on the order in which things are joined. For
`NothingLeft`, `ThreadInv` ties the threads to what `SaveExit` can see of them -
every running receive thread is in `recv_threads_`, and the accept thread can
add one only while `accept_thread_` is not joined - and `MainInv` follows main's
own `SaveExit`, at the bottom of the stack, however often handlers run on top of
it: below its index everything is joined, and nobody undoes that. A handler
proves nothing for main, since it may have run before the threads were started,
so the invariant does not speak of handlers at all. The two claims about a
server that had started need more. `CalmInv` counts: as long as `sockfd` names
the socket and the accept thread is not between its `close()` and its store of
-1, the socket was not closed; `SaveExit` reaches its own `close()` only behind
the join. `OnceInv` says that with one kind of signal only the top of the stack
is a handler, what the first run of `SaveExit` has joined at each of its labels,
and that every later one finds everything joined.

`AiqForward`'s `OwnDescriptor` and `InOrder` are claimed, in the run and in the
theorem, for a tool that no fault reaches (`Quiet`: the AIQ is there from the
start and stays, and no PC leaves): a forwarder that lost its socket closes a
number that may be somebody else's by then, and packets sent before and after
a reconnection overtake each other, so they do not hold otherwise. `QuietInv` says that then no thread
has ever failed, so the table has just the PCs' connections and the one socket;
`OrderInv` that what a receive thread carries is its PC's latest packet, newer
than all that were delivered. `NoDuplicate` needs no hypothesis.

`RawCapture`'s `SessionIInv` speaks of captures that do not overlap (`~ mixed`).
`AloneInv` says that then at most one PC is past its STATUS, so every step is
that PC's and the others rest (`OthersRest`). Its place in the protocol
determines the shared index (`CountOf`: how many frames the STARTs so far have
taken, also in the middle of a half), and whether anything can be open at all
(`Away`, `Clean`, `DeviceInv`): `Released` alone is not inductive, since a START
that comes with the index at 0 opens the device again, and only the count says
that this is the first START of its capture. `FrameInv` says, while no frame was
lost, that what was sent is what the index calls for (`SentAt`), the stream is
on from `start_capturing` to `StopCapture`, and the sum holds the frames below
the index. Both theorems assume `Counted`: a PC asks for at least one frame, and
for at least two when they are averaged. Without it they are false: an average
of one frame has no first half, its index stays 0, and its second START opens
the device a second time.

`RtspOutput`'s `Structure` has five parts. `LoopInv` and `OwnerInv` say what the
event loop and the thread that waits for its answers know of each other
(`Sent`: how far a message is); `SessionInv` that Sources exist only while the
channel does; `ListInv` that the list holds, once each, the Sources between
their `push_back` and their `delete`, and all of them unless `raced`; `FlowInv`
that the iterator never leaves the list, although the loop appends meanwhile.
From it follow the two invariants about deletion. The actions about what is
shown need to know what a reduction can do to a cache: it keeps a stretch of
parameter sets and a stretch that begins with an I frame, and takes out what is between
(`Cut`; `h264Cut`, `CommonCut`). `CacheOrder` keeps the numbers of a cache
increasing, above what was shown and not above what was offered, and each
predicted frame behind its reference; `CacheFresh` says that nothing offered is
missing at the end, so a frame that is appended follows the last one;
`CacheBase` that a predicted frame at the head follows what was shown. All three speak of
the packet that is being pushed at that moment as well (`Latest`). The least and
the last positions that the reductions look for exist by the library's
well-foundedness of `<` on the naturals (`Least`, `Last`).

What the theorems assume about the program is in the ASSUMEs and in hypotheses:
`WidthAssumption` (256 pixels fit the accumulator), `Counted` above,
`RtspArgument` in `CaptureCorrect` (it is started with `-r 1`; without, nothing
stops the pipeline), `Quiet` above, `CacheAssumption` and `PipeAssumption` (the
cache limit is over 1, the pipe has pages and these hold tokens),
`SizesAssumption` (of `FlowGraph`: the driver has buffers, the encoder's queue a
slot; of `FileTransfer`: packet and what follows are shorter than 2^64) and
`TimesAssumption` (`Margin` timeouts last longer than the limit), and
distinctness or finiteness of the constants (`SignalsAssumption` and
`ClientsAssumption`: "none" is no signal and no PC; `NoFrameAssumption` and
`MainAssumption`: "none" is no frame, the caller no flow).

Only model-checked is liveness (`Answered`, `Drained`, `Unblocked`, `Stops`,
`Served`, `Returns`, `DeviceCloses`, `CaptureGoesOn`, `ChannelAnswered`): it needs
ENABLED, which is out of the prover's reach. Every safety invariant of the
passing runs is stated by a theorem.

## 5. What is not modelled, and why

- *Contents.* Packets, frames and parameters are identities; message formats,
  logging and the texts of answers are left out. Where a conversion matters it is
  modelled: the average, the lengths of `recv()`.
- *Partial sends and short receives*, except in `FileTransfer`; a frame is sent in
  one step.
- *Memory.* Leaks of heap memory are not counted; descriptors, capture buffers
  and streams are.
- *Offline raw* (`rkaiq_protocol.cpp` 597-746, 788-847): `startOfflineRawFlag` is
  set by the worker itself, so a stop that comes before the worker runs is lost,
  and stop followed by start gives two workers; the worker returns without
  clearing the flag when there is no raw file. Its `std::thread` is assigned to the
  same `forward_thread` (679) that `MessageForward` assigns under `mutex_` (880), so
  a joinable thread may be destroyed, which terminates the process. What is left
  to state about it is that nothing is promised.
- *AIQ request socket*: `RkAiqSocketClientINETSend` sends and returns; the code that
  waited for an answer is commented out.
- *OnLineSet and OnLineGet*: the byte exchange with the AIQ. `recv()` results of -1
  and 0 are not handled (the rest to read grows by one, or the loop does not
  end), `check_sum` and `result` may be read unset, `DoCheckSum` tests an unsigned
  size for less than 0. Frame sizes are statics shared by YUV and raw GET_PARAM.
- *Failing DQBUF in a YUV capture*: the code logs it and goes on with the index it
  set itself (`YuvFrame` sends that buffer), or stops at an assertion from index 4 on.
- *Sizes in a file's header*: the PC's own `packetSize` and `dataSize` fit its packet
  in the model, or are refused by `TransferError`; a header that says otherwise, and a
  `malloc()` that fails, are left out.
- *FlowGraph*: the link flow (its callback is never set), atomic inputs, and two
  callers of `init_rtsp` and `deinit_rtsp` at once.
- *RtspOutput*: audio and H.265 sources, a failing read of a message (the sender
  would wait for ever), and the end of the event loop.
- *The event queue and the buffer pool of the media library, the tool manager*: no
  live code uses them.
- *Topology discovery, device wrappers, codecs, live555 itself, the Android server,
  vendored code*: I/O or libraries; no logic of their own to check.
- *g_aiqCred*, which `KillApp` (170) and `DomainTCPClient::Close` delete from
  different threads without a common lock.
- *Frame counts of 0, or of 1 when averaging*: the index passes or never reaches
  the count; the runs of `RawCapture` start at 1 and 2.

## 6. Where the code disagrees with itself

One run shows a disagreement with what the code's own comments or tests say
(PROJECT.json, `findings`):

- `raw_mismatch`: a checksum that differs after the last frame stops a capture that
  is already stopped, and the buffers are freed twice.

Others were met while modelling. They follow from steps the modules have, but are
not kept as runs, and the properties are stated beside them:

- `rkaiq_tool_server.cpp:367-368`: a signal handled between the test of `quit` and
  `pause()` is not noticed; the threads stop (`Stops`) but the process stays.
- `flow.cc:348-358`: `StopAllThread` sets `quit` outside `cond_mtx`. A coroutine that
  has tested `quit` and not yet begun to wait misses the only notification, and
  the destructor joins it for ever (`TestQuit`, `StopQuit`, `StopNotify`,
  `LockCond`, `CheckSlot`, `StopJoin` disabled).
- `rkaiq_raw_protocol.cpp:966`: `capture_status` is AVALIABLE between two STARTs of
  one capture, so STATUS tells a second PC READY while the node streams, and the
  two captures mix (`mixed`).
- `rkaiq_protocol.cpp:291-305`: after a failed `LinkToIsp(true)` the mode is set
  all the same (`spoilt`); `START_RTSP` (391) relinks in any mode.
- `rkaiq_media.cpp:843-870`: `LinkToIsp` returns 0 also when it has found no rkisp
  device or a link could not be set, so `DoChangeAppMode` stores a mode whose links
  were not made (`Linked`, `spoilt`).
- `rkaiq_protocol.cpp:437-439`: nothing compares what the first `recv()` returned with
  the packet. When the next message came with it, its bytes are copied behind
  `receivedPacket` and `remain_size` wraps around, so that the transfer ends in a
  timeout, or a crash, or, after as many timeouts as there were bytes too many,
  well (`stray`).
- `camera_capture.cpp:272-283`, `rkaiq_online_protocol.cpp:658`: `init_device`'s result
  is ignored. A raw START whose device does not open goes on with the buffer
  pointer of the capture before and frees it again; one before any GET_PARAM runs
  in read mode on no buffers (`RawDies`).
- `rkaiq_online_protocol.cpp:649-652`, `camera_capture.cpp:124`: a frame that is too
  large, or that the driver does not give, is not sent and counted all the same
  (`refused`).
- `multiframe_process.cpp:53` says "only for even number frame": an even number
  that is no power of two gives no result (81).
- `rkaiq_protocol.cpp:572`: the result of `fwrite()` is not looked at, so a full
  disk is answered with Success (`file = "short"`).
- `rkaiq_socket.cpp:119`: two receive threads that reconnect at once each make a
  socket, and one of them stays open without an owner.
- `rkaiq_protocol.cpp:763`, `domain_tcp_client.cpp:142`: a `send()` to a peer that has
  left raises SIGPIPE, which ends the server (`SendSigpipe`, `FwdSigpipe`); the code
  behind it handles a failed `send()`, and `test/tcp/server.cpp:27` ignores the
  signal.
- `rkaiq_protocol.cpp:466`: the -1 of a `recv()` that timed out (3 s) is subtracted
  from `remain_size`: a pause inside a transfer that may take 20 s makes the loop
  wait for a byte more, and it ends in a timeout with every byte received.
- `live555_media_input.cc:96`: the reduction takes packets and leaves their tokens.
  A client that pauses for minutes fills its pipe; `Push` then blocks holding the
  source's mutex, and the flow, a new channel and the event loop with it
  (`Jammed`). A pause loses one frame.
- `live555_media_input.cc:141`: `video_list` is changed by the event loop and the
  flow's thread without a lock (`raced`).
- `flow.cc:348` and `source_flow.cc:81`: besides the missed notification above, a
  capture thread whose first `Read` comes after `S_STREAM_OFF` starts the stream
  again and waits for a frame; if the camera gives none, `deinit_rtsp` does not
  return (`late`).
- `rtsp_server.cpp:66-81`, 235: `deinit_rtsp` does not reset `video_dump_flow`. If that
  flow still has frames, the device stays open and the next `init_rtsp` ends the
  program with `EXIT_FAILURE` (`BusyOnlyForDump` says it is the only reason).
- `rkaiq_online_protocol.cpp:534`: a YUV capture that fails after it got its buffers
  leaves the descriptor open and the node's queue taken: no YUV frame is ever
  captured again (`NoYuvAfterFailure` states it).
- `rkaiq_online_protocol.cpp:564, 675`: captures that overlap share an index that is
  incremented without a lock: a PC may get a frame twice, or more frames than it
  asked for, and is told READY in the middle.
- `rkaiq_protocol.cpp:170, 391`, `tcp_server.cpp:73`, `rkaiq_raw_protocol.cpp:690, 760`
  (frame counts 1 and 0): hazards without a property, see section 5.

## 7. How much is covered, and what is left

PROJECT.json maps under 5 % of the lines under `src/`. Most of the rest is no
program of its own: vendored headers (OpenSSL, V4L2, MPP, live555), v4l-utils'
mediactl, a second executable for Android, and codec adapters. Of the server's
own concurrent logic what is not mapped is named in section 5.

Order of the modules: the path every tuning packet takes first (`AiqForward`),
the concurrent kernel of the media library (`FlowQueue`, `FlowInput`), the life of
the process (`TcpServer`), the mode that decides which of the others may use the
camera (`AppMode`), the captures (`RawCapture`, `MultiFrame`, `OnlineCapture`), the
file transfer, and the pipeline with its clients (`FlowGraph`, `RtspOutput`). Left:
frame counts 0 and 1 in `RawCapture` and short sends of a frame; the composition
of `AppMode` with `FlowGraph` (START_RTSP from two threads); an abstract capture
session that an unmixed `RawCapture` implements.
