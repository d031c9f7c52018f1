---------------------------- MODULE OnlineCapture ----------------------------
(***************************************************************************)
(* YUV and online raw capture (rkaiq_online_protocol.cpp).  A PC sets how  *)
(* many frames it wants (SET_PARAM) and sends one START, whose handler     *)
(* sends it all of them: YUV frames from the video node "rkisp_iqtool",    *)
(* through V4L2 calls of its own, raw frames with camera_capture.cpp.      *)
(*                                                                         *)
(* The counters and cap_info are statics that the receive threads of all   *)
(* PCs share without a lock, and a PC may send any request at any time.    *)
(* A descriptor carries the number of the open() that made it, the buffer  *)
(* array of a raw capture that of its init_device; 0 is -1, or nullptr.    *)
(* Device calls may fail; DoCaptureOnlineRaw looks at none of its results. *)
(***************************************************************************)
EXTENDS Integers, Sequences

CONSTANTS
  Clients,
  Counts,       \* frame numbers a PC may ask for
  MaxRequests,  \* requests in all (bound)
  MaxStops      \* times the camera stops giving frames (bound)

ASSUME ClientsAssumption == "none" \notin Clients
ASSUME CountsAssumption == Counts \subseteq 0 .. 255
ASSUME BoundsAssumption == {MaxRequests, MaxStops} \subseteq Nat

VARIABLES
  capture_status, capture_frames, capture_frames_index,
  io, dev_fd, buffers,   \* cap_info; "read", the zero, until a GET_PARAM
  opens,             \* number of open() calls
  opened, mapped,    \* descriptors open; buffer arrays of raw captures
  yuv_queue,         \* descriptors the two nodes' queues belong to; 0: free
  raw_queue,
  camera, stops,     \* whether frames come
  requests,
  pc, fd, read,      \* handlers: label, DoCaptureYuv's fd, index read by ++
  sent,              \* history: indices of the frames a START has sent
  last,              \* history: the PC whose SET_PARAM nobody's START followed
  alone,             \* history: START followed the PC's own SET_PARAM, and no
                     \* other PC's request falls into it
  refused,           \* history: handlers that had a device call fail, or a
                     \* frame refused by the callback
  mixed,             \* history: two raw STARTs ran at once
  given_up,          \* history: descriptors of DoCaptureYuv calls that failed
  forgotten,         \* history: descriptors a GET_PARAM wiped from cap_info
  alive              \* FALSE: the process exited or crashed

conf    == <<capture_frames, capture_frames_index>>
dev     == <<io, dev_fd, buffers, opens, opened, mapped>>
queues  == <<yuv_queue, raw_queue>>
cam     == <<camera, stops>>
mine    == <<fd, read, sent>>
left    == <<given_up, forgotten>>
hist    == <<last, alone, refused, mixed, left>>
vars    == <<capture_status, conf, dev, queues, cam, requests, pc, mine, hist,
             alive>>

YuvLabels == {"open", "format", "select", "ytest", "dqbuf", "yload", "ystore",
              "close"}
RawLabels == {"init", "stream", "skip", "rtest", "frame", "rload", "rstore",
              "off", "uninit"}

TypeOK ==
  /\ capture_status \in {"READY", "BUSY"}
  /\ capture_frames \in Counts \cup {1} /\ capture_frames_index \in Nat
  /\ io \in {"read", "mmap"} /\ opens \in Nat
  /\ dev_fd \in 0 .. opens /\ buffers \in 0 .. opens
  /\ yuv_queue \in 0 .. opens /\ raw_queue \in 0 .. opens
  /\ opened \in SUBSET (1 .. opens) /\ mapped \in SUBSET (1 .. opens)
  /\ given_up \in SUBSET (1 .. opens) /\ forgotten \in SUBSET (1 .. opens)
  /\ camera \in {"on", "off"} /\ stops \in 0 .. MaxStops
  /\ requests \in 0 .. MaxRequests
  /\ pc \in [Clients -> {"idle", "params", "ready"} \cup YuvLabels \cup RawLabels]
  /\ fd \in [Clients -> 0 .. opens]
  /\ read \in [Clients -> Nat]
  /\ sent \in [Clients -> Seq(Nat)]
  /\ last \in Clients \cup {"none"} /\ alone \in [Clients -> BOOLEAN]
  /\ refused \in SUBSET Clients /\ mixed \in BOOLEAN /\ alive \in BOOLEAN

Init ==
  /\ capture_status = "READY"
  /\ capture_frames = 1 /\ capture_frames_index = 0
  /\ io = "read" /\ dev_fd = 0 /\ buffers = 0 /\ opens = 0 /\ opened = {} /\ mapped = {}
  /\ yuv_queue = 0 /\ raw_queue = 0
  /\ camera = "on" /\ stops = 0 /\ requests = 0
  /\ pc = [c \in Clients |-> "idle"] /\ fd = [c \in Clients |-> 0]
  /\ read = [c \in Clients |-> 0]
  /\ sent = [c \in Clients |-> <<>>]
  /\ last = "none" /\ alone = [c \in Clients |-> FALSE]
  /\ refused = {} /\ mixed = FALSE /\ given_up = {} /\ forgotten = {}
  /\ alive = TRUE

Goto(c, l) == pc' = [pc EXCEPT ![c] = l]

Quiet == \A c \in Clients : pc[c] = "idle"

\* A request of PC c arrives.
Request(c) == pc[c] = "idle" /\ requests < MaxRequests /\ requests' = requests + 1
-----------------------------------------------------------------------------
(* The requests that capture nothing, as far as they change statics.       *)

\* InitOnlineRawCapture fills cap_info and forgets the capture node's
\* descriptor.  (When no node is found it is not called.)
GetParam(c) ==
  /\ Request(c)
  /\ io' = "mmap" /\ dev_fd' = 0
  /\ forgotten' = forgotten \cup ({dev_fd} \ {0})
  /\ Goto(c, "params")
  /\ alone' = [d \in Clients |-> FALSE]
  /\ UNCHANGED <<capture_status, conf, buffers, opens, opened, mapped, queues,
                 cam, mine, last, refused, mixed, given_up, alive>>

\* Having asked the sensor it closes dev_fd, which a START may have opened
\* meanwhile; when the sensor fails to answer it does not.
GetParamEnds(c) ==
  /\ pc[c] = "params"
  /\ \/ /\ opened' = opened \ {dev_fd}
        /\ raw_queue' = IF raw_queue = dev_fd THEN 0 ELSE raw_queue
        /\ dev_fd' = 0
     \/ UNCHANGED <<opened, raw_queue, dev_fd>>
  /\ Goto(c, "idle")
  /\ UNCHANGED <<capture_status, conf, io, buffers, opens, mapped, yuv_queue, cam,
                 requests, mine, hist, alive>>

\* Variant: the next capture goes on where the last one ended.
SetParamKeepsIndex(c) ==
  /\ Request(c)
  /\ capture_frames' \in Counts
  /\ alone' = [d \in Clients |-> FALSE]
  /\ last' = IF Quiet THEN c ELSE "none"
  /\ UNCHANGED <<capture_status, capture_frames_index, dev, queues, cam, pc,
                 mine, refused, mixed, left, alive>>

SetParam(c) ==
  /\ Request(c)
  /\ capture_frames' \in Counts
  /\ capture_frames_index' = 0
  /\ alone' = [d \in Clients |-> FALSE]
  /\ last' = IF Quiet THEN c ELSE "none"
  /\ UNCHANGED <<capture_status, dev, queues, cam, pc, mine, refused, mixed, left,
                 alive>>

\* START stores BUSY and calls DoCaptureYuv or DoCaptureOnlineRaw.
Start(c, l) ==
  /\ Request(c)
  /\ capture_status' = "BUSY"
  /\ Goto(c, l)
  /\ alone' = [d \in Clients |-> d = c /\ last = c /\ Quiet]
  /\ last' = "none"
  /\ mixed' = (mixed \/ (l = "init" /\ \E d \in Clients : pc[d] \in RawLabels))
  /\ UNCHANGED <<conf, dev, queues, cam, mine, refused, left, alive>>

\* The handler returns; its variables go.
Returned(c) ==
  /\ Goto(c, "idle")
  /\ fd' = [fd EXCEPT ![c] = 0]
  /\ sent' = [sent EXCEPT ![c] = <<>>]
  /\ refused' = refused \ {c}
  /\ UNCHANGED <<conf, dev, queues, cam, requests, read, last, alone, mixed, left,
                 alive>>

Ready(c) ==
  /\ pc[c] = "ready"
  /\ capture_status' = "READY"
  /\ Returned(c)
-----------------------------------------------------------------------------
(* The loop of both captures: while (index < frames) { ...; index++; }     *)

Test(c, from, body, end) ==
  /\ pc[c] = from
  /\ Goto(c, IF capture_frames_index < capture_frames THEN body ELSE end)
  /\ UNCHANGED <<capture_status, conf, dev, queues, cam, requests, mine, hist,
                 alive>>

Load(c, from, to) ==
  /\ pc[c] = from
  /\ read' = [read EXCEPT ![c] = capture_frames_index]
  /\ Goto(c, to)
  /\ UNCHANGED <<capture_status, conf, dev, queues, cam, requests, fd, sent,
                 hist, alive>>

Store(c, from, to) ==
  /\ pc[c] = from
  /\ capture_frames_index' = read[c] + 1
  /\ read' = [read EXCEPT ![c] = 0]
  /\ Goto(c, to)
  /\ UNCHANGED <<capture_status, capture_frames, dev, queues, cam, requests, fd,
                 sent, hist, alive>>

Refuses(c) == refused' = refused \cup {c}

Sends(c) == sent' = [sent EXCEPT ![c] = Append(@, capture_frames_index)]
-----------------------------------------------------------------------------
(* DoCaptureYuv.                                                           *)

\* A failure returns -1 and nothing else: the descriptor stays open, with
\* what it owns.
GiveUp(c) ==
  /\ given_up' = given_up \cup {fd[c]}
  /\ Refuses(c)
  /\ Goto(c, "ready")

\* The node may be missing, or not open.
YuvOpen(c) ==
  /\ pc[c] = "open"
  /\ \/ /\ opens' = opens + 1
        /\ opened' = opened \cup {opens'}
        /\ fd' = [fd EXCEPT ![c] = opens']
        /\ Goto(c, "format")
        /\ UNCHANGED refused
     \/ /\ Refuses(c)
        /\ Goto(c, "ready")
        /\ UNCHANGED <<opens, opened, fd>>
  /\ UNCHANGED <<capture_status, conf, io, dev_fd, buffers, mapped, queues, cam,
                 requests, read, sent, last, alone, mixed, left, alive>>

\* Variant: the result of VIDIOC_REQBUFS is not looked at.
YuvFormatUnchecked(c) ==
  /\ pc[c] = "format"
  /\ yuv_queue' = IF yuv_queue = 0 THEN fd[c] ELSE yuv_queue
  /\ \/ Goto(c, "select") /\ UNCHANGED <<given_up, refused>>
     \/ GiveUp(c)
  /\ UNCHANGED <<capture_status, conf, dev, raw_queue, cam, requests, mine,
                 last, alone, mixed, forgotten, alive>>

\* Format, buffers and stream, each of which may fail, the stream when the
\* buffers are there; a queue that belongs to another descriptor is busy.
YuvFormat(c) ==
  /\ pc[c] = "format"
  /\ \/ /\ yuv_queue = 0
        /\ yuv_queue' = fd[c]
        /\ \/ Goto(c, "select") /\ UNCHANGED <<given_up, refused>>
           \/ GiveUp(c)
     \/ GiveUp(c) /\ UNCHANGED yuv_queue
  /\ UNCHANGED <<capture_status, conf, dev, raw_queue, cam, requests, mine,
                 last, alone, mixed, forgotten, alive>>

\* select() waits two seconds for a frame.
YuvSelect(c) ==
  /\ pc[c] = "select"
  /\ IF camera = "on" THEN Goto(c, "ytest") /\ UNCHANGED <<given_up, refused>>
                      ELSE GiveUp(c)
  /\ UNCHANGED <<capture_status, conf, dev, queues, cam, requests, mine, last,
                 alone, mixed, forgotten, alive>>

YuvTest(c) == Test(c, "ytest", "dqbuf", "close")

\* VIDIOC_DQBUF, on a descriptor that blocks, SendYuvData and VIDIOC_QBUF.  The
\* buffer is sent also when the driver returns none.
YuvFrame(c) ==
  /\ pc[c] = "dqbuf" /\ camera = "on"
  /\ Sends(c)
  /\ Goto(c, "yload")
  /\ UNCHANGED <<capture_status, conf, dev, queues, cam, requests, fd, read,
                 hist, alive>>

YuvLoad(c) == Load(c, "yload", "ystore")
YuvStore(c) == Store(c, "ystore", "ytest")

\* Variant: the descriptor is not closed.
YuvCloseForgets(c) ==
  /\ pc[c] = "close"
  /\ Goto(c, "ready")
  /\ UNCHANGED <<capture_status, conf, dev, queues, cam, requests, mine, hist,
                 alive>>

YuvClose(c) ==
  /\ pc[c] = "close"
  /\ opened' = opened \ {fd[c]}
  /\ yuv_queue' = IF yuv_queue = fd[c] THEN 0 ELSE yuv_queue
  /\ Goto(c, "ready")
  /\ UNCHANGED <<capture_status, conf, io, dev_fd, buffers, opens, mapped,
                 raw_queue, cam, requests, mine, hist, alive>>

DoCaptureYuv(c) ==
  \/ YuvOpen(c) \/ YuvFormat(c) \/ YuvSelect(c) \/ YuvTest(c) \/ YuvFrame(c)
  \/ YuvLoad(c) \/ YuvStore(c) \/ YuvClose(c)
-----------------------------------------------------------------------------
(* DoCaptureOnlineRaw.                                                     *)

\* init_device.  device_open fails when there is no such node, as long as no
\* GET_PARAM has named one; check_io_method, with or without a descriptor, when
\* the capabilities are not those of io.  buffers is then what it was.
RawInit(c) ==
  /\ pc[c] = "init"
  /\ opens' = opens + 1
  /\ \/ io = "mmap" /\ dev_fd' = opens' /\ opened' = opened \cup {opens'}
     \/ dev_fd' = 0 /\ UNCHANGED opened
  /\ \/ buffers' = opens' /\ mapped' = mapped \cup {opens'}
     \/ UNCHANGED <<buffers, mapped>>
  /\ IF dev_fd' = opens' /\ buffers' = opens' THEN UNCHANGED refused ELSE Refuses(c)
  /\ Goto(c, "stream")
  /\ UNCHANGED <<capture_status, conf, io, queues, cam, requests, mine, last, alone,
                 mixed, left, alive>>

\* start_capturing.  The stream starts on a descriptor that got buffers, when
\* the queue is not another's, and may fail.
RawStream(c) ==
  /\ pc[c] = "stream"
  /\ \/ /\ raw_queue = 0 /\ buffers = dev_fd
        /\ raw_queue' = dev_fd
        /\ UNCHANGED refused
     \/ Refuses(c) /\ UNCHANGED raw_queue
  /\ Goto(c, IF capture_frames_index = 0 THEN "skip" ELSE "rtest")
  /\ UNCHANGED <<capture_status, conf, dev, yuv_queue, cam, requests, mine, last,
                 alone, mixed, left, alive>>

\* VIDIOC_DQBUF returns, with a frame or an error, at once or when the camera
\* gives a frame.
Dequeues == dev_fd # 0 /\ raw_queue = dev_fd
Returns == Dequeues => camera = "on"

\* In read mode read_frame uses buffers[0] whatever read() returns.
HasBuffers == io = "read" => buffers \in mapped

\* Five frames are read and dropped.
RawSkip(c) ==
  /\ pc[c] = "skip" /\ Returns /\ HasBuffers
  /\ Goto(c, "rtest")
  /\ UNCHANGED <<capture_status, conf, dev, queues, cam, requests, mine, hist,
                 alive>>

RawTest(c) == Test(c, "rtest", "frame", "off")

\* Variant: read_frame tries again until the driver gives a frame.
RawFrameWaits(c) ==
  /\ pc[c] = "frame" /\ Dequeues /\ camera = "on"
  /\ Sends(c)
  /\ Goto(c, "rload")
  /\ UNCHANGED <<capture_status, conf, dev, queues, cam, requests, fd, read,
                 hist, alive>>

\* read_frame sends the frame it dequeues.  Nobody looks whether it does: the
\* driver may give none, and the callback refuse one that is too large.
RawFrame(c) ==
  /\ pc[c] = "frame" /\ Returns /\ HasBuffers
  /\ \/ Dequeues /\ Sends(c) /\ UNCHANGED refused
     \/ Dequeues /\ Refuses(c) /\ UNCHANGED sent
     \/ ~ Dequeues /\ UNCHANGED <<sent, refused>>
  /\ Goto(c, "rload")
  /\ UNCHANGED <<capture_status, conf, dev, queues, cam, requests, fd, read, last,
                 alone, mixed, left, alive>>

RawLoad(c) == Load(c, "rload", "rstore")
RawStore(c) == Store(c, "rstore", "rtest")

\* stop_capturing.
RawStop(c) ==
  /\ pc[c] = "off"
  /\ raw_queue' = IF raw_queue = dev_fd THEN 0 ELSE raw_queue
  /\ Goto(c, "uninit")
  /\ UNCHANGED <<capture_status, conf, dev, yuv_queue, cam, requests, mine, hist,
                 alive>>

\* uninit_device frees the buffers, keeps the pointer and closes dev_fd.
RawUninit(c) ==
  /\ pc[c] = "uninit"
  /\ buffers \in mapped \/ (buffers = 0 /\ io = "mmap")
  /\ mapped' = mapped \ {buffers}
  /\ opened' = opened \ {dev_fd}
  /\ raw_queue' = IF raw_queue = dev_fd THEN 0 ELSE raw_queue
  /\ dev_fd' = 0
  /\ Goto(c, "ready")
  /\ UNCHANGED <<capture_status, conf, io, buffers, opens, yuv_queue, cam, requests,
                 mine, hist, alive>>

\* init_mmap exits when the driver gives no buffers; read_frame and uninit_device
\* use buffers that are freed, or in read mode none.
RawDies(c) ==
  /\ \/ pc[c] = "init" /\ io = "mmap"
     \/ pc[c] \in {"skip", "frame"} /\ ~ HasBuffers
     \/ pc[c] = "uninit" /\ buffers \notin mapped /\ (buffers # 0 \/ io = "read")
  /\ alive' = FALSE
  /\ UNCHANGED <<capture_status, conf, dev, queues, cam, requests, pc, mine, hist>>

DoCaptureOnlineRaw(c) ==
  \/ RawInit(c) \/ RawStream(c) \/ RawSkip(c) \/ RawTest(c) \/ RawFrame(c)
  \/ RawLoad(c) \/ RawStore(c) \/ RawStop(c) \/ RawUninit(c) \/ RawDies(c)
-----------------------------------------------------------------------------
CameraStops ==
  /\ camera = "on" /\ stops < MaxStops
  /\ camera' = "off" /\ stops' = stops + 1
  /\ UNCHANGED <<capture_status, conf, dev, queues, requests, pc, mine, hist,
                 alive>>

CameraResumes ==
  /\ camera = "off"
  /\ camera' = "on"
  /\ UNCHANGED <<capture_status, conf, dev, queues, stops, requests, pc, mine,
                 hist, alive>>

Handler(c) ==
  alive /\ (DoCaptureYuv(c) \/ DoCaptureOnlineRaw(c) \/ Ready(c) \/ GetParamEnds(c))

HandlerOnLineMessage(c) ==
  \/ GetParam(c) \/ SetParam(c) \/ Start(c, "open") \/ Start(c, "init")
  \/ Handler(c)

Next ==
  /\ alive
  /\ CameraStops \/ CameraResumes \/ \E c \in Clients : HandlerOnLineMessage(c)

Spec == Init /\ [][Next]_vars

\* The receive threads run.  Nothing makes a PC ask or the camera resume.
FairSpec == Spec /\ \A c \in Clients : WF_vars(Handler(c))
-----------------------------------------------------------------------------
(* Properties.                                                             *)

Increasing(s) == \A j, k \in DOMAIN s : j < k => s[j] < s[k]

\* A PC that sends SET_PARAM and then START, with no other PC's request from
\* the one to the end of the other, gets no frame twice, out of order or beyond
\* the number it asked for, and all of them when no device call of this START
\* failed and the callback refused no frame: whatever captures failed, hung or
\* raced before.
AloneIsComplete ==
  \A c \in Clients :
    pc[c] = "ready" /\ alone[c] =>
      /\ Increasing(sent[c])
      /\ \A k \in DOMAIN sent[c] : sent[c][k] < capture_frames
      /\ c \notin refused => sent[c] = [k \in 1 .. capture_frames |-> k - 1]

\* While no handler runs, and unless two raw STARTs ever ran at once, every file
\* left open, and every queue left taken, is that of a YUV capture that failed
\* or of a raw capture from whose cap_info a GET_PARAM wiped it; no buffers are
\* left.  A raw capture whose device fails leaves nothing.
OnlyGivenUpLeaks ==
  Quiet /\ ~ mixed =>
    /\ opened = given_up \cup forgotten /\ mapped = {}
    /\ raw_queue \in forgotten \cup {0} /\ yuv_queue \in given_up \cup {0}

\* One YUV capture that fails after it got its buffers ends YUV capture for
\* the life of the server: no PC gets a YUV frame any more.
NoYuvAfterFailure ==
  [][(yuv_queue \in given_up) =>
       /\ yuv_queue' = yuv_queue
       /\ \A c \in Clients : pc[c] = "dqbuf" => (sent'[c] = sent[c])]_vars

\* capture_status says BUSY, which leaves every PC's question for the raw status
\* without an answer, only while the START of some PC, YUV or raw, is handled,
\* however captures overlap and fail; no other request makes it so.
BusyIsTrue ==
  alive /\ capture_status = "BUSY" =>
    \E c \in Clients : pc[c] \in {"ready"} \cup YuvLabels \cup RawLabels

\* A START is served in the end, although others move the shared index under
\* it, unless the camera stays silent (a blocking VIDIOC_DQBUF has no timeout).
Served ==
  \A c \in Clients : []<>(pc[c] = "idle" \/ camera = "off" \/ ~ alive)
=============================================================================
