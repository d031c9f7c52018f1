----------------------------- MODULE RawCapture -----------------------------
(***************************************************************************)
(* Raw capture (rkaiq_raw_protocol.cpp on camera_capture.cpp).  A PC asks  *)
(* whether the device is free (STATUS), asks for the sensor's parameters   *)
(* (GET), sets frame number and mode (SET), and then sends a START for     *)
(* each frame - or, when frames are averaged, for each half of them - and  *)
(* the checksum of what it got (CHECKSUM).                                 *)
(*                                                                         *)
(* All state of the server is in statics shared by the receive threads of  *)
(* all PCs, without a lock: the handler of START is split at its calls.    *)
(* Descriptors and buffer arrays carry the number of the init_device call  *)
(* that made them; 0 is -1, or the null pointer.  The switch to capture    *)
(* mode that precedes every request is not part of this module.            *)
(***************************************************************************)
EXTENDS Integers, Sequences

CONSTANTS
  Clients,
  Requests,     \* what a PC may set: <<mode, frame number>>
  Faults,       \* what may go wrong
  MaxCaptures   \* how many SETs are sent in all (bound)

ASSUME RequestsAssumption ==
  Requests \subseteq {"normal", "average"} \X (0 .. 255)
ASSUME FaultsAssumption == Faults \subseteq {"device", "frame", "early", "last"}

VARIABLES
  capture_status, capture_mode, capture_frames, capture_frames_index,
  dev_fd, buffers,  \* cap_info
  averaging,        \* whether averge_frame0 and averge_frame1 are allocated
  averge_frame0,    \* indices of the frames in the sum
  inits,            \* number of init_device calls
  opened, mapped,   \* the descriptors open, the buffer arrays allocated
  streaming,        \* the descriptor the driver streams to; 0: none
  pc, at,           \* receive threads: handler, and its loop variable
  phase,            \* what the PC does next
  left,             \* how many STARTs it has to send
  got,              \* what it got since its SET
  sets,             \* number of SETs
  alive,            \* FALSE: free() of what is not allocated
  mixed,            \* history: a PC began while another had not ended
  lost              \* history: the device refused or lost a frame since SET

conf == <<capture_mode, capture_frames, sets>>
dev  == <<dev_fd, buffers, inits, opened, mapped, streaming>>
avg  == <<averaging, averge_frame0>>
hist == <<mixed, lost>>
vars == <<capture_status, conf, capture_frames_index, dev, avg, pc, at, phase,
          left, got, alive, hist>>

Frames == 0 .. 255

TypeOK ==
  /\ capture_status \in {"READY", "RAW_CAP", "AVALIABLE"}
  /\ capture_mode \in {"normal", "average"}
  /\ capture_frames \in Frames /\ capture_frames_index \in Nat
  /\ dev_fd \in Nat /\ buffers \in Nat /\ streaming \in Nat
  /\ inits \in Nat /\ sets \in Nat
  /\ opened \subseteq 1 .. inits /\ mapped \subseteq 1 .. inits
  /\ averaging \in BOOLEAN /\ averge_frame0 \in Seq(Frames)
  /\ pc \in [Clients -> {"idle", "init", "stream", "capture", "first", "second",
                         "test", "off", "uninit", "finish"}]
  /\ at \in [Clients -> Nat] /\ left \in [Clients -> Int]
  /\ phase \in [Clients -> {"ask", "get", "set", "start", "check"}]
  /\ got \in [Clients -> Seq([index : Nat, sum : Seq(Frames)])]
  /\ alive \in BOOLEAN /\ mixed \in BOOLEAN /\ lost \in BOOLEAN

Init ==
  /\ capture_status = "READY" /\ capture_mode = "normal"
  /\ capture_frames = 1 /\ capture_frames_index = 0
  /\ dev_fd = 0 /\ buffers = 0 /\ averaging = FALSE /\ averge_frame0 = <<>>
  /\ inits = 0 /\ opened = {} /\ mapped = {} /\ streaming = 0
  /\ pc = [c \in Clients |-> "idle"] /\ at = [c \in Clients |-> 0]
  /\ phase = [c \in Clients |-> "ask"] /\ left = [c \in Clients |-> 0]
  /\ got = [c \in Clients |-> <<>>]
  /\ sets = 0 /\ alive = TRUE
  /\ mixed = FALSE /\ lost = FALSE

Half == capture_frames \div 2

Goto(c, l)  == pc' = [pc EXCEPT ![c] = l]
Sends(c, p) == pc[c] = "idle" /\ phase[c] = p
Then(c, p) == phase' = [phase EXCEPT ![c] = p]
-----------------------------------------------------------------------------
(* The requests that capture nothing.                                      *)

\* A PC that is told BUSY asks again.
Status(c) ==
  /\ Sends(c, "ask")
  /\ IF capture_status = "RAW_CAP"
       THEN Then(c, "ask") /\ UNCHANGED mixed
       ELSE /\ Then(c, "get")
            /\ mixed' = (mixed \/ \E d \in Clients \ {c} : ~ Sends(d, "ask"))
  /\ UNCHANGED <<capture_status, conf, capture_frames_index, dev, avg, pc, at,
                 left, got, alive, lost>>

\* The descriptors are forgotten, not closed.
GetParam(c) ==
  /\ Sends(c, "get")
  /\ dev_fd' = 0
  /\ Then(c, "set")
  /\ UNCHANGED <<capture_status, conf, capture_frames_index, buffers, inits,
                 opened, mapped, streaming, avg, pc, at, left, got, alive,
                 hist>>

SetParam(c) ==
  /\ Sends(c, "set") /\ sets < MaxCaptures
  /\ \E r \in Requests :
       /\ capture_mode' = r[1] /\ capture_frames' = r[2]
       /\ left' = [left EXCEPT ![c] = IF r[1] = "normal" THEN r[2] ELSE 2]
  /\ capture_frames_index' = 0
  /\ sets' = sets + 1
  /\ got' = [got EXCEPT ![c] = <<>>]
  /\ lost' = FALSE
  /\ Then(c, "start")
  /\ UNCHANGED <<capture_status, dev, avg, pc, at, alive, mixed>>
-----------------------------------------------------------------------------
(* START.                                                                  *)

Start(c) ==
  /\ Sends(c, "start")
  /\ capture_status' = "RAW_CAP"
  /\ Goto(c, IF capture_frames_index = 0 THEN "init" ELSE "capture")
  /\ Then(c, "check")
  /\ UNCHANGED <<conf, capture_frames_index, dev, avg, at, left, got, alive,
                 hist>>

\* open() may fail, and then the capabilities, which the failed query leaves
\* uninitialised, decide whether buffers are allocated.
InitDevice(c) ==
  /\ pc[c] = "init"
  /\ inits' = inits + 1
  /\ \/ /\ dev_fd' = inits' /\ opened' = opened \cup {inits'}
        /\ buffers' = inits' /\ mapped' = mapped \cup {inits'}
        /\ UNCHANGED lost
     \/ /\ "device" \in Faults
        /\ dev_fd' = 0 /\ UNCHANGED opened
        /\ lost' = TRUE
        /\ \/ buffers' = inits' /\ mapped' = mapped \cup {inits'}
           \/ UNCHANGED <<buffers, mapped>>
  /\ Goto(c, "stream")
  /\ UNCHANGED <<capture_status, conf, capture_frames_index, streaming, avg,
                 at, phase, left, got, alive, mixed>>

\* start_capturing; the driver refuses a second descriptor.
StartCapturing(c) ==
  /\ pc[c] = "stream"
  /\ streaming' = IF streaming = 0 THEN dev_fd ELSE streaming
  /\ IF capture_mode = "normal" THEN UNCHANGED avg
     ELSE averaging' = TRUE /\ averge_frame0' = <<>>
  /\ Goto(c, "capture")
  /\ UNCHANGED <<capture_status, conf, capture_frames_index, dev_fd, buffers,
                 inits, opened, mapped, at, phase, left, got, alive, hist>>

\* The frame read_frame dequeues, for which it calls the callback; without a
\* stream, or when the driver fails, it returns and the callers do not look.
Dequeued == dev_fd # 0 /\ streaming = dev_fd
Reads(callback, none) ==
  \/ Dequeued /\ callback /\ UNCHANGED lost
  \/ ~ Dequeued /\ none /\ UNCHANGED lost
  \/ Dequeued /\ "frame" \in Faults /\ none /\ lost' = TRUE

Receives(c, i, sum) ==
  got' = [got EXCEPT ![c] = Append(@, [index |-> i, sum |-> sum])]

\* DoCapture: the next frame, after five that are thrown away.
DoCapture(c) ==
  /\ pc[c] = "capture" /\ capture_mode = "normal"
  /\ Reads(Receives(c, capture_frames_index, <<>>), UNCHANGED got)
  /\ capture_frames_index' = capture_frames_index + 1
  /\ Goto(c, "test")
  /\ UNCHANGED <<capture_status, conf, dev, avg, at, phase, left, alive,
                 mixed>>

\* Variant: the second half starts one frame late.
DoMultiFrameCaptureLate(c) ==
  /\ pc[c] = "capture" /\ capture_mode # "normal"
  /\ \/ /\ capture_frames_index = 0
        /\ Goto(c, "first") /\ at' = [at EXCEPT ![c] = 0]
     \/ /\ capture_frames_index # 0 /\ capture_frames_index = Half
        /\ Goto(c, "second") /\ at' = [at EXCEPT ![c] = Half + 1]
     \/ capture_frames_index \notin {0, Half} /\ Goto(c, "test") /\ UNCHANGED at
  /\ UNCHANGED <<capture_status, conf, capture_frames_index, dev, avg, phase,
                 left, got, alive, hist>>

\* DoMultiFrameCapture: the first half of the frames, or the second.
DoMultiFrameCapture(c) ==
  /\ pc[c] = "capture" /\ capture_mode # "normal"
  /\ \/ /\ capture_frames_index = 0
        /\ Goto(c, "first") /\ at' = [at EXCEPT ![c] = 0]
     \/ /\ capture_frames_index # 0 /\ capture_frames_index = Half
        /\ Goto(c, "second") /\ at' = [at EXCEPT ![c] = Half]
     \/ capture_frames_index \notin {0, Half} /\ Goto(c, "test") /\ UNCHANGED at
  /\ UNCHANGED <<capture_status, conf, capture_frames_index, dev, avg, phase,
                 left, got, alive, hist>>

LoopEnd(c) == IF pc[c] = "first" THEN Half ELSE capture_frames

\* DoMultiFrameCallBack: the frame is added; the last one of the first half is
\* sent, and the average after the last one of all.  The frame buffers may be
\* gone, when another PC's capture has ended.
MultiFrameCallBack(c) ==
  LET i == at[c] IN
    IF ~ averaging
      THEN /\ alive' = FALSE
           /\ UNCHANGED <<averge_frame0, got>>
      ELSE /\ averge_frame0' = Append(averge_frame0, i)
           /\ IF i = capture_frames - 1 THEN Receives(c, i, averge_frame0')
              ELSE IF i = Half - 1 THEN Receives(c, i, <<>>)
              ELSE UNCHANGED got
           /\ UNCHANGED alive

MultiFrame(c) ==
  /\ pc[c] \in {"first", "second"}
  /\ \/ /\ at[c] < LoopEnd(c)
        /\ Reads(MultiFrameCallBack(c), UNCHANGED <<averge_frame0, got, alive>>)
        /\ capture_frames_index' = capture_frames_index + 1
        /\ at' = [at EXCEPT ![c] = @ + 1]
        /\ UNCHANGED pc
     \/ /\ at[c] >= LoopEnd(c)
        /\ Goto(c, "test")
        /\ UNCHANGED <<capture_frames_index, averge_frame0, at, got, alive,
                       lost>>
  /\ UNCHANGED <<capture_status, conf, dev, averaging, phase, left, mixed>>

\* Variant: the capture is stopped one frame too late.
TestCompleteOffByOne(c) ==
  /\ pc[c] = "test"
  /\ Goto(c, IF capture_frames_index > capture_frames THEN "off" ELSE "finish")
  /\ UNCHANGED <<capture_status, conf, capture_frames_index, dev, avg, at,
                 phase, left, got, alive, hist>>

TestComplete(c) ==
  /\ pc[c] = "test"
  /\ Goto(c, IF capture_frames_index = capture_frames THEN "off" ELSE "finish")
  /\ UNCHANGED <<capture_status, conf, capture_frames_index, dev, avg, at,
                 phase, left, got, alive, hist>>

\* Variant: the status stays RAW_CAP until all frames are taken.
FinishKeepsStatus(c) ==
  /\ pc[c] = "finish"
  /\ capture_status' = IF capture_frames_index = capture_frames THEN "AVALIABLE"
                       ELSE capture_status
  /\ Goto(c, "idle")
  /\ UNCHANGED <<conf, capture_frames_index, dev, avg, at, phase, left, got,
                 alive, hist>>

Finish(c) ==
  /\ pc[c] = "finish"
  /\ capture_status' = "AVALIABLE"
  /\ Goto(c, "idle")
  /\ UNCHANGED <<conf, capture_frames_index, dev, avg, at, phase, left, got,
                 alive, hist>>
-----------------------------------------------------------------------------
(* StopCapture, called by START after the last frame and by CHECKSUM.      *)

StreamOff(c) ==
  /\ pc[c] = "off"
  /\ streaming' = IF streaming = dev_fd THEN 0 ELSE streaming
  /\ Goto(c, "uninit")
  /\ UNCHANGED <<capture_status, conf, capture_frames_index, dev_fd, buffers,
                 inits, opened, mapped, avg, at, phase, left, got, alive,
                 hist>>

\* uninit_device, which leaves the pointer as it is, and the rest of StopCapture.
Uninit(c) ==
  /\ pc[c] = "uninit"
  /\ IF buffers = 0 \/ buffers \in mapped
       THEN /\ mapped' = mapped \ {buffers}
            /\ opened' = opened \ {dev_fd}
            /\ streaming' = IF streaming = dev_fd THEN 0 ELSE streaming
            /\ dev_fd' = 0
            /\ averaging' = (averaging /\ capture_mode = "normal")
            /\ Goto(c, IF phase[c] = "check" THEN "finish" ELSE "idle")
            /\ UNCHANGED alive
       ELSE /\ alive' = FALSE
            /\ UNCHANGED <<mapped, opened, streaming, dev_fd, averaging, pc>>
  /\ UNCHANGED <<capture_status, conf, capture_frames_index, buffers, inits,
                 averge_frame0, at, phase, left, got, hist>>
-----------------------------------------------------------------------------
(* CHECKSUM.                                                               *)

\* It is for the last START.
Last(c) == left[c] = 1

\* The checksums agree, or the PC does without.
ChecksumAgrees(c) ==
  /\ Sends(c, "check")
  /\ Then(c, IF Last(c) THEN "ask" ELSE "start")
  /\ left' = [left EXCEPT ![c] = @ - 1]
  /\ UNCHANGED <<capture_status, conf, capture_frames_index, dev, avg, pc, at,
                 got, alive, hist>>

\* A frame was lost or damaged: the capture is stopped, also when START has
\* stopped it, and the PC begins again.
ChecksumDiffers(c) ==
  /\ Sends(c, "check")
  /\ IF Last(c) THEN "last" \in Faults ELSE "early" \in Faults
  /\ Then(c, "ask")
  /\ Goto(c, "off")
  /\ UNCHANGED <<capture_status, conf, capture_frames_index, dev, avg, at,
                 left, got, alive, hist>>
-----------------------------------------------------------------------------
StopCapture(c) == StreamOff(c) \/ Uninit(c)

HandlerRawCapMessage(c) ==
  \/ Status(c) \/ GetParam(c) \/ SetParam(c)
  \/ Start(c) \/ InitDevice(c) \/ StartCapturing(c)
  \/ DoCapture(c) \/ DoMultiFrameCapture(c) \/ MultiFrame(c)
  \/ TestComplete(c) \/ Finish(c)
  \/ StopCapture(c)
  \/ ChecksumAgrees(c) \/ ChecksumDiffers(c)

Next == alive /\ \E c \in Clients : HandlerRawCapMessage(c)

Spec == Init /\ [][Next]_vars
-----------------------------------------------------------------------------
(* Properties.                                                             *)

Resting == \A c \in Clients : pc[c] = "idle" /\ phase[c] \in {"ask", "get", "set"}

\* PCs that capture one after the other leave nothing behind, however often the
\* device fails or a PC gives up: while none is in the middle of a capture the
\* capture node is closed, its buffers are unmapped, and the averaging buffers
\* are freed.  (PCs that overlap share the statics and do leave things behind.)
Released ==
  ~ mixed /\ Resting => opened = {} /\ mapped = {} /\ streaming = 0 /\ ~ averaging

IndexFrom(n) == [k \in 1 .. n |-> k - 1]

\* What a PC is owed: each frame once and in order, or the last frame of the
\* first half and then the sum of each frame once.
Promised ==
  IF capture_mode = "normal"
    THEN [k \in 1 .. capture_frames |-> [index |-> k - 1, sum |-> <<>>]]
    ELSE << [index |-> Half - 1, sum |-> <<>>],
            [index |-> capture_frames - 1, sum |-> IndexFrom(capture_frames)] >>

\* Unless the device fails in it, a capture that no other PC overlaps gets,
\* START by START, exactly that, whatever captures failed or were given up
\* before: nothing is sent twice or out of order, and when the last START has
\* been handled all of it was sent.
FramesDelivered ==
  ~ mixed /\ ~ lost =>
    \A c \in Clients : phase[c] \in {"start", "check"} =>
      /\ got[c] = SubSeq(Promised, 1, Len(got[c]))
      /\ pc[c] = "idle" /\ phase[c] = "check" /\ Last(c) => got[c] = Promised

\* STATUS answers BUSY only while some START is being handled: the flag is never
\* left behind, whichever PCs' requests overlap.
BusyIsTrue ==
  alive /\ capture_status = "RAW_CAP" =>
    \E c \in Clients : pc[c] # "idle" /\ phase[c] = "check"

\* A checksum that differs is answered RES_FAILED, whichever frame it is for.
MismatchAnswered == alive
=============================================================================
