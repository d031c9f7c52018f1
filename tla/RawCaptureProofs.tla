-------------------------- MODULE RawCaptureProofs --------------------------
(***************************************************************************)
(* Raw capture, for every set of PCs and of requests.  Types and the BUSY  *)
(* flag hold whichever PCs overlap.  PCs that come one after the other     *)
(* leave nothing open and, when no frame is lost, get what they were       *)
(* promised: the argument is that a step is always of the only PC that     *)
(* is in a session (OthersRest), whose place in it determines the shared   *)
(* frame counter (CountOf), what is open (Away, Clean) and what was sent   *)
(* (FrameOf).  The last part is about the pixels of an average, for every  *)
(* width of a byte, set of frame numbers and byte order.                   *)
(***************************************************************************)
EXTENDS RawCapture, MultiFrame, SequenceTheorems, TLAPS

(* The types in four parts.                                                 *)
StaticsTypeOK ==
  /\ capture_status \in {"READY", "RAW_CAP", "AVALIABLE"}
  /\ capture_mode \in {"normal", "average"}
  /\ capture_frames \in Frames /\ capture_frames_index \in Nat /\ sets \in Nat
  /\ averge_frame0 \in Seq(Frames)

FlagsTypeOK ==
  /\ averaging \in BOOLEAN /\ alive \in BOOLEAN
  /\ mixed \in BOOLEAN /\ lost \in BOOLEAN

DeviceTypeOK ==
  /\ dev_fd \in Nat /\ buffers \in Nat /\ streaming \in Nat /\ inits \in Nat
  /\ opened \subseteq 1 .. inits /\ mapped \subseteq 1 .. inits

PCsTypeOK ==
  /\ pc \in [Clients -> {"idle", "init", "stream", "capture", "first", "second",
                         "test", "off", "uninit", "finish"}]
  /\ at \in [Clients -> Nat] /\ left \in [Clients -> Int]
  /\ phase \in [Clients -> {"ask", "get", "set", "start", "check"}]
  /\ got \in [Clients -> Seq([index : Nat, sum : Seq(Frames)])]

(* The parts are the whole.                                                 *)
LEMMA TypeParts ==
  /\ TypeOK <=> StaticsTypeOK /\ FlagsTypeOK /\ DeviceTypeOK /\ PCsTypeOK
  /\ TypeOK' <=> StaticsTypeOK' /\ FlagsTypeOK' /\ DeviceTypeOK' /\ PCsTypeOK'
BY DEF TypeOK, StaticsTypeOK, FlagsTypeOK, DeviceTypeOK, PCsTypeOK

(* Nobody captures and nothing is sent.                                     *)
LEMMA TypeInit == Init => TypeOK
<1> SUFFICES ASSUME Init PROVE TypeOK
  OBVIOUS
<1>1. StaticsTypeOK
  BY EmptySeq DEF Init, StaticsTypeOK, Frames
<1>2. DeviceTypeOK
  BY DEF Init, DeviceTypeOK
<1>3. PCsTypeOK
  BY EmptySeq DEF Init, PCsTypeOK
<1>4. FlagsTypeOK
  BY DEF Init, FlagsTypeOK
<1> QED
  BY <1>1, <1>2, <1>3, <1>4, TypeParts

(* A frame that is sent, whole or averaged.                                 *)
LEMMA ReceivesType ==
  ASSUME PCsTypeOK, NEW c \in Clients, NEW i \in Nat, NEW sum \in Seq(Frames),
         Receives(c, i, sum)
  PROVE  got' \in [Clients -> Seq([index : Nat, sum : Seq(Frames)])]
<1>1. [index |-> i, sum |-> sum] \in [index : Nat, sum : Seq(Frames)]
  OBVIOUS
<1>2. Append(got[c], [index |-> i, sum |-> sum])
        \in Seq([index : Nat, sum : Seq(Frames)])
  BY <1>1, AppendProperties DEF PCsTypeOK
<1> QED
  BY <1>2 DEF Receives, PCsTypeOK

(* A frame added to the sum.                                                *)
LEMMA FrameAdded ==
  ASSUME TypeOK, NEW c \in Clients, MultiFrame(c)
  PROVE  /\ averge_frame0' \in Seq(Frames)
         /\ got' \in [Clients -> Seq([index : Nat, sum : Seq(Frames)])]
         /\ lost' \in BOOLEAN /\ alive' \in BOOLEAN
<1>1. /\ averge_frame0 \in Seq(Frames) /\ lost \in BOOLEAN /\ alive \in BOOLEAN
      /\ got \in [Clients -> Seq([index : Nat, sum : Seq(Frames)])]
      /\ capture_frames \in 0 .. 255 /\ at[c] \in Nat
  BY DEF TypeOK, Frames
<1>2. CASE at[c] >= LoopEnd(c) /\ UNCHANGED <<averge_frame0, got, alive, lost>>
  BY <1>1, <1>2
<1>3. CASE at[c] < LoopEnd(c)
           /\ Reads(MultiFrameCallBack(c), UNCHANGED <<averge_frame0, got, alive>>)
  <2>1. at[c] \in Frames
    <3>1. Half \in 0 .. 255
      BY <1>1 DEF Half
    <3>2. LoopEnd(c) \in 0 .. 255
      BY <1>1, <3>1 DEF LoopEnd
    <3>3. \A a \in Nat, l \in 0 .. 255 : a < l => a \in Frames
      BY DEF Frames
    <3>4. at[c] < LoopEnd(c) /\ at[c] \in Nat
      BY <1>1, <1>3
    <3> HIDE DEF LoopEnd, Frames
    <3> QED
      BY <3>2, <3>3, <3>4
  <2>2. Append(averge_frame0, at[c]) \in Seq(Frames) /\ <<>> \in Seq(Frames)
    BY <1>1, <2>1, AppendProperties, EmptySeq
  <2>3. averge_frame0' \in Seq(Frames)
    BY <1>1, <1>3, <2>2 DEF Reads, MultiFrameCallBack
  <2>4. lost' \in BOOLEAN
    BY <1>1, <1>3 DEF Reads
  <2>5. alive' \in BOOLEAN
    BY <1>1, <1>3 DEF Reads, MultiFrameCallBack
  <2>6. \/ Receives(c, at[c], averge_frame0')
        \/ Receives(c, at[c], <<>>)
        \/ got' = got
    BY <1>3 DEF Reads, MultiFrameCallBack
  <2>7. got' \in [Clients -> Seq([index : Nat, sum : Seq(Frames)])]
    BY <1>1, <2>2, <2>3, <2>6, ReceivesType, TypeParts
  <2> QED
    BY <2>3, <2>4, <2>5, <2>7
<1> QED
  BY <1>2, <1>3 DEF MultiFrame

(* What a SET asks for.                                                     *)
LEMMA SetValues ==
  ASSUME TypeOK, NEW c \in Clients, SetParam(c)
  PROVE  /\ capture_mode' \in {"normal", "average"} /\ capture_frames' \in Frames
         /\ <<capture_mode', capture_frames'>> \in Requests
         /\ left' = [left EXCEPT ![c] = IF capture_mode' = "normal"
                                       THEN capture_frames' ELSE 2]
<1>1. PICK r \in Requests :
        /\ capture_mode' = r[1] /\ capture_frames' = r[2]
        /\ left' = [left EXCEPT ![c] = IF r[1] = "normal" THEN r[2] ELSE 2]
  BY DEF SetParam
<1>2. r[1] \in {"normal", "average"} /\ r[2] \in 0 .. 255 /\ r = <<r[1], r[2]>>
  BY RequestsAssumption
<1> QED
  BY <1>1, <1>2 DEF Frames

(* Every step of a handler keeps the types of the statics.                  *)
LEMMA StaticsType ==
  ASSUME TypeOK, NEW c \in Clients, HandlerRawCapMessage(c)
  PROVE  StaticsTypeOK'
<1> USE DEF StaticsTypeOK, Goto, Then, Sends, conf, dev, avg, hist
<1>t. StaticsTypeOK
  BY TypeParts
<1>1. CASE Status(c)
  BY <1>1, <1>t DEF Status
<1>2. CASE GetParam(c)
  BY <1>2, <1>t DEF GetParam
<1>3. CASE SetParam(c)
  <2>1. capture_frames_index' = 0 /\ sets' = sets + 1
        /\ UNCHANGED <<capture_status, averge_frame0>>
    BY <1>3 DEF SetParam
  <2> QED
    BY <1>3, <1>t, <2>1, SetValues
<1>4. CASE Start(c)
  BY <1>4, <1>t DEF Start
<1>5. CASE InitDevice(c)
  BY <1>5, <1>t DEF InitDevice
<1>6. CASE StartCapturing(c)
  <2>1. averge_frame0' = averge_frame0 \/ averge_frame0' = <<>>
    BY <1>6 DEF StartCapturing
  <2>2. UNCHANGED <<capture_status, capture_mode, capture_frames,
                    capture_frames_index, sets>>
    BY <1>6 DEF StartCapturing
  <2> QED
    BY <1>t, <2>1, <2>2, EmptySeq
<1>7. CASE DoCapture(c)
  BY <1>7, <1>t DEF DoCapture
<1>8. CASE DoMultiFrameCapture(c)
  BY <1>8, <1>t DEF DoMultiFrameCapture
<1>9. CASE MultiFrame(c)
  <2>1. capture_frames_index' \in Nat
    <3>1. \/ capture_frames_index' = capture_frames_index
          \/ capture_frames_index' = capture_frames_index + 1
      BY <1>9 DEF MultiFrame
    <3> QED
      BY <1>t, <3>1
  <2>2. UNCHANGED <<capture_status, capture_mode, capture_frames, sets>>
    BY <1>9 DEF MultiFrame
  <2> QED
    BY <1>9, <1>t, <2>1, <2>2, FrameAdded
<1>10. CASE TestComplete(c)
  BY <1>10, <1>t DEF TestComplete
<1>11. CASE Finish(c)
  BY <1>11, <1>t DEF Finish
<1>12. CASE StreamOff(c)
  BY <1>12, <1>t DEF StreamOff
<1>13. CASE Uninit(c)
  BY <1>13, <1>t DEF Uninit
<1>14. CASE ChecksumAgrees(c)
  BY <1>14, <1>t DEF ChecksumAgrees
<1>15. CASE ChecksumDiffers(c)
  BY <1>15, <1>t DEF ChecksumDiffers
<1> QED
  BY <1>1, <1>2, <1>3, <1>4, <1>5, <1>6, <1>7, <1>8, <1>9, <1>10, <1>11, <1>12,
     <1>13, <1>14, <1>15
  DEF HandlerRawCapMessage, StopCapture

(* And those of the flags.                                                  *)
LEMMA FlagsType ==
  ASSUME TypeOK, NEW c \in Clients, HandlerRawCapMessage(c)
  PROVE  FlagsTypeOK'
<1> USE DEF FlagsTypeOK, Goto, Then, Sends, conf, dev, avg, hist
<1>t. FlagsTypeOK
  BY TypeParts
<1>1. CASE Status(c)
  BY <1>1, <1>t DEF Status
<1>2. CASE GetParam(c)
  BY <1>2, <1>t DEF GetParam
<1>3. CASE SetParam(c)
  BY <1>3, <1>t DEF SetParam
<1>4. CASE Start(c)
  BY <1>4, <1>t DEF Start
<1>5. CASE InitDevice(c)
  BY <1>5, <1>t DEF InitDevice
<1>6. CASE StartCapturing(c)
  BY <1>6, <1>t DEF StartCapturing
<1>7. CASE DoCapture(c)
  BY <1>7, <1>t DEF DoCapture, Reads
<1>8. CASE DoMultiFrameCapture(c)
  BY <1>8, <1>t DEF DoMultiFrameCapture
<1>9. CASE MultiFrame(c)
  <2>1. UNCHANGED <<averaging, mixed>>
    BY <1>9 DEF MultiFrame
  <2> QED
    BY <1>9, <1>t, <2>1, FrameAdded
<1>10. CASE TestComplete(c)
  BY <1>10, <1>t DEF TestComplete
<1>11. CASE Finish(c)
  BY <1>11, <1>t DEF Finish
<1>12. CASE StreamOff(c)
  BY <1>12, <1>t DEF StreamOff
<1>13. CASE Uninit(c)
  BY <1>13, <1>t DEF Uninit
<1>14. CASE ChecksumAgrees(c)
  BY <1>14, <1>t DEF ChecksumAgrees
<1>15. CASE ChecksumDiffers(c)
  BY <1>15, <1>t DEF ChecksumDiffers
<1> QED
  BY <1>1, <1>2, <1>3, <1>4, <1>5, <1>6, <1>7, <1>8, <1>9, <1>10, <1>11, <1>12,
     <1>13, <1>14, <1>15
  DEF HandlerRawCapMessage, StopCapture

(* And those of the device.                                                 *)
LEMMA DeviceType ==
  ASSUME TypeOK, NEW c \in Clients, HandlerRawCapMessage(c)
  PROVE  DeviceTypeOK'
<1> USE DEF DeviceTypeOK, Goto, Then, Sends, conf, dev, avg, hist
<1>t. DeviceTypeOK
  BY TypeParts
<1>1. CASE Status(c)
  BY <1>1, <1>t DEF Status
<1>2. CASE GetParam(c)
  BY <1>2, <1>t DEF GetParam
<1>3. CASE SetParam(c)
  BY <1>3, <1>t DEF SetParam
<1>4. CASE Start(c)
  BY <1>4, <1>t DEF Start
<1>5. CASE InitDevice(c)
  <2>1. /\ inits' = inits + 1 /\ streaming' = streaming
        /\ opened' \in {opened, opened \cup {inits'}}
        /\ mapped' \in {mapped, mapped \cup {inits'}}
        /\ dev_fd' \in {0, inits'} /\ buffers' \in {buffers, inits'}
    BY <1>5 DEF InitDevice
  <2>2. inits' \in Nat /\ inits' \in 1 .. inits' /\ 1 .. inits \subseteq 1 .. inits'
    BY <1>t, <2>1
  <2>3. opened' \subseteq 1 .. inits' /\ mapped' \subseteq 1 .. inits'
    BY <1>t, <2>1, <2>2
  <2> QED
    BY <1>t, <2>1, <2>2, <2>3
<1>6. CASE StartCapturing(c)
  BY <1>6, <1>t DEF StartCapturing
<1>7. CASE DoCapture(c)
  BY <1>7, <1>t DEF DoCapture
<1>8. CASE DoMultiFrameCapture(c)
  BY <1>8, <1>t DEF DoMultiFrameCapture
<1>9. CASE MultiFrame(c)
  BY <1>9, <1>t DEF MultiFrame
<1>10. CASE TestComplete(c)
  BY <1>10, <1>t DEF TestComplete
<1>11. CASE Finish(c)
  BY <1>11, <1>t DEF Finish
<1>12. CASE StreamOff(c)
  BY <1>12, <1>t DEF StreamOff
<1>13. CASE Uninit(c)
  <2>1. /\ opened' \subseteq opened /\ mapped' \subseteq mapped
        /\ streaming' \in {0, streaming} /\ dev_fd' \in {0, dev_fd}
        /\ inits' = inits /\ buffers' = buffers
    BY <1>13 DEF Uninit
  <2> QED
    BY <1>t, <2>1
<1>14. CASE ChecksumAgrees(c)
  BY <1>14, <1>t DEF ChecksumAgrees
<1>15. CASE ChecksumDiffers(c)
  BY <1>15, <1>t DEF ChecksumDiffers
<1> QED
  BY <1>1, <1>2, <1>3, <1>4, <1>5, <1>6, <1>7, <1>8, <1>9, <1>10, <1>11, <1>12,
     <1>13, <1>14, <1>15
  DEF HandlerRawCapMessage, StopCapture

(* And those of the PCs and their threads.                                  *)
LEMMA PCsType ==
  ASSUME TypeOK, NEW c \in Clients, HandlerRawCapMessage(c)
  PROVE  PCsTypeOK'
<1> USE DEF PCsTypeOK, Goto, Then, Sends, conf, dev, avg, hist
<1>t. PCsTypeOK
  BY TypeParts
<1>1. CASE Status(c)
  BY <1>1, <1>t DEF Status
<1>2. CASE GetParam(c)
  BY <1>2, <1>t DEF GetParam
<1>3. CASE SetParam(c)
  <2>1. left' \in [Clients -> Int]
    <3>1. (IF capture_mode' = "normal" THEN capture_frames' ELSE 2) \in Int
      BY <1>3, SetValues DEF Frames
    <3> QED
      BY <1>3, <1>t, <3>1, SetValues
  <2>2. got' \in [Clients -> Seq([index : Nat, sum : Seq(Frames)])]
    BY <1>3, <1>t, EmptySeq DEF SetParam
  <2> QED
    BY <1>3, <1>t, <2>1, <2>2 DEF SetParam
<1>4. CASE Start(c)
  BY <1>4, <1>t DEF Start
<1>5. CASE InitDevice(c)
  BY <1>5, <1>t DEF InitDevice
<1>6. CASE StartCapturing(c)
  BY <1>6, <1>t DEF StartCapturing
<1>7. CASE DoCapture(c)
  <2>1. capture_frames_index \in Nat /\ <<>> \in Seq(Frames)
    BY EmptySeq DEF TypeOK
  <2>2. Receives(c, capture_frames_index, <<>>) \/ got' = got
    BY <1>7 DEF DoCapture, Reads
  <2>3. got' \in [Clients -> Seq([index : Nat, sum : Seq(Frames)])]
    BY <1>t, <2>1, <2>2, ReceivesType
  <2> QED
    BY <1>7, <1>t, <2>3 DEF DoCapture
<1>8. CASE DoMultiFrameCapture(c)
  <2>1. capture_frames \in 0 .. 255
    BY DEF TypeOK, Frames
  <2>2. Half \in Nat
    BY <2>1 DEF Half
  <2>3. at' \in [Clients -> Nat]
    <3>1. at' = at \/ at' = [at EXCEPT ![c] = 0] \/ at' = [at EXCEPT ![c] = Half]
      BY <1>8 DEF DoMultiFrameCapture
    <3>2. at \in [Clients -> Nat]
      BY <1>t
    <3> QED
      BY <2>2, <3>1, <3>2
  <2>4. \E l \in {"first", "second", "test"} : pc' = [pc EXCEPT ![c] = l]
    BY <1>8 DEF DoMultiFrameCapture
  <2>5. UNCHANGED <<left, phase, got>>
    BY <1>8 DEF DoMultiFrameCapture
  <2> QED
    BY <1>t, <2>3, <2>4, <2>5
<1>9. CASE MultiFrame(c)
  <2>1. pc' = pc \/ pc' = [pc EXCEPT ![c] = "test"]
    BY <1>9 DEF MultiFrame
  <2>2. at' = at \/ at' = [at EXCEPT ![c] = @ + 1]
    BY <1>9 DEF MultiFrame
  <2>3. left' = left /\ phase' = phase
    BY <1>9 DEF MultiFrame
  <2>4. at' \in [Clients -> Nat]
    <3>1. at[c] + 1 \in Nat
      BY <1>t
    <3> QED
      BY <1>t, <2>2, <3>1
  <2> QED
    BY <1>9, <1>t, <2>1, <2>3, <2>4, FrameAdded
<1>10. CASE TestComplete(c)
  BY <1>10, <1>t DEF TestComplete
<1>11. CASE Finish(c)
  BY <1>11, <1>t DEF Finish
<1>12. CASE StreamOff(c)
  BY <1>12, <1>t DEF StreamOff
<1>13. CASE Uninit(c)
  <2>1. \/ pc' = pc \/ pc' = [pc EXCEPT ![c] = "finish"]
        \/ pc' = [pc EXCEPT ![c] = "idle"]
    BY <1>13 DEF Uninit
  <2>2. UNCHANGED <<at, left, phase, got>>
    BY <1>13 DEF Uninit
  <2> QED
    BY <1>t, <2>1, <2>2
<1>14. CASE ChecksumAgrees(c)
  <2>1. \/ phase' = [phase EXCEPT ![c] = "ask"]
        \/ phase' = [phase EXCEPT ![c] = "start"]
    BY <1>14 DEF ChecksumAgrees
  <2>2. left' = [left EXCEPT ![c] = @ - 1] /\ left[c] - 1 \in Int
    BY <1>14, <1>t DEF ChecksumAgrees
  <2>3. UNCHANGED <<pc, at, got>>
    BY <1>14 DEF ChecksumAgrees
  <2> QED
    BY <1>t, <2>1, <2>2, <2>3
<1>15. CASE ChecksumDiffers(c)
  BY <1>15, <1>t DEF ChecksumDiffers
<1> QED
  BY <1>1, <1>2, <1>3, <1>4, <1>5, <1>6, <1>7, <1>8, <1>9, <1>10, <1>11, <1>12,
     <1>13, <1>14, <1>15
  DEF HandlerRawCapMessage, StopCapture

(* Every reachable state is well typed, also when PCs capture at once.      *)
THEOREM TypeCorrect == Spec => []TypeOK
<1>1. TypeOK /\ [Next]_vars => TypeOK'
  <2>1. CASE UNCHANGED vars
    BY <2>1 DEF TypeOK, vars, conf, dev, avg, hist
  <2>2. ASSUME TypeOK, NEW c \in Clients, HandlerRawCapMessage(c) PROVE TypeOK'
    BY <2>2, StaticsType, FlagsType, DeviceType, PCsType, TypeParts
  <2> QED
    BY <2>1, <2>2 DEF Next
<1> QED
  BY <1>1, TypeInit, PTL DEF Spec
-----------------------------------------------------------------------------
(* The handler of a START sets the status back before it ends.              *)
LEMMA BusyStep ==
  ASSUME TypeOK, BusyIsTrue, NEW c \in Clients, HandlerRawCapMessage(c), alive
  PROVE  BusyIsTrue'
<1> USE DEF BusyIsTrue, Goto, Then, Sends, conf, dev, avg, hist
<1>t. PCsTypeOK
  BY TypeParts
<1> USE <1>t DEF PCsTypeOK
<1>1. CASE Status(c)
  BY <1>1 DEF Status
<1>2. CASE GetParam(c)
  BY <1>2 DEF GetParam
<1>3. CASE SetParam(c)
  BY <1>3 DEF SetParam
<1>4. CASE Start(c)
  BY <1>4 DEF Start
<1>5. CASE InitDevice(c)
  BY <1>5 DEF InitDevice
<1>6. CASE StartCapturing(c)
  BY <1>6 DEF StartCapturing
<1>7. CASE DoCapture(c)
  BY <1>7 DEF DoCapture
<1>8. CASE DoMultiFrameCapture(c)
  BY <1>8 DEF DoMultiFrameCapture
<1>9. CASE MultiFrame(c)
  BY <1>9 DEF MultiFrame
<1>10. CASE TestComplete(c)
  BY <1>10 DEF TestComplete
<1>11. CASE Finish(c)
  BY <1>11 DEF Finish
<1>12. CASE StreamOff(c)
  BY <1>12 DEF StreamOff
<1>13. CASE Uninit(c)
  BY <1>13 DEF Uninit
<1>14. CASE ChecksumAgrees(c)
  BY <1>14 DEF ChecksumAgrees
<1>15. CASE ChecksumDiffers(c)
  BY <1>15 DEF ChecksumDiffers
<1> QED
  BY <1>1, <1>2, <1>3, <1>4, <1>5, <1>6, <1>7, <1>8, <1>9, <1>10, <1>11, <1>12,
     <1>13, <1>14, <1>15
  DEF HandlerRawCapMessage, StopCapture

(* STATUS answers BUSY only while a START is being handled.                 *)
THEOREM BusyCorrect == Spec => []BusyIsTrue
<1>1. Init => BusyIsTrue
  BY DEF Init, BusyIsTrue
<1>2. TypeOK /\ BusyIsTrue /\ [Next]_vars => BusyIsTrue'
  <2>1. CASE UNCHANGED vars
    BY <2>1 DEF BusyIsTrue, vars, conf, dev, avg, hist
  <2> QED
    BY <2>1, BusyStep DEF Next
<1> QED
  BY <1>1, <1>2, TypeCorrect, PTL DEF Spec
-----------------------------------------------------------------------------
\* What a PC may ask for: at least one frame, two when they are averaged.
Counted ==
  \A r \in Requests : r[2] >= IF r[1] = "normal" THEN 1 ELSE 2

\* A START or a CHECKSUM is due, or being handled.
Captures(c) == phase[c] \in {"start", "check"}

\* PCs that do not mix come one at a time.
AloneInv ==
  ~ mixed => \A c, d \in Clients : c # d => Sends(c, "ask") \/ Sends(d, "ask")

\* How many STARTs a capture has, and how many frames are taken when n are left.
Starts == IF capture_mode = "normal" THEN capture_frames ELSE 2
TakenAt(n) ==
  IF capture_mode = "normal" THEN capture_frames - n
  ELSE IF n = 2 THEN 0 ELSE IF n = 1 THEN Half ELSE capture_frames

\* The shared index counts what the STARTs so far have taken.
CountOf(c) ==
  Captures(c) =>
    /\ left[c] \in 1 .. Starts /\ capture_frames >= 1
    /\ capture_mode # "normal" => capture_frames >= 2
    /\ phase[c] = "start" =>
         pc[c] = "idle" /\ capture_frames_index = TakenAt(left[c])
    /\ phase[c] = "check" =>
         /\ pc[c] \in {"init", "stream"} => capture_frames_index = 0
         /\ pc[c] \in {"init", "stream", "capture"} =>
              capture_frames_index = TakenAt(left[c])
         /\ pc[c] \in {"first", "second"} =>
              /\ capture_mode # "normal" /\ capture_frames_index = at[c]
              /\ left[c] = IF pc[c] = "first" THEN 2 ELSE 1
              /\ TakenAt(left[c]) <= at[c] /\ at[c] <= LoopEnd(c)
         /\ pc[c] \in {"test", "off", "uninit", "finish", "idle"} =>
              capture_frames_index = TakenAt(left[c] - 1)
         /\ pc[c] \in {"off", "uninit"} => left[c] = 1

PlaceOf(c) ==
  /\ phase[c] \in {"get", "set"} => pc[c] = "idle"
  /\ phase[c] = "ask" => pc[c] \in {"idle", "off", "uninit"}

\* What a capture may leave open, map and allocate.
Loose ==
  /\ opened = IF dev_fd = 0 THEN {} ELSE {dev_fd}
  /\ mapped \subseteq {buffers}
  /\ streaming \in {0, dev_fd}
  /\ averaging => capture_mode # "normal"

Clean == opened = {} /\ mapped = {} /\ streaming = 0 /\ ~ averaging /\ dev_fd = 0

\* c has not opened the device yet, or closed it.
Away(c) ==
  \/ phase[c] \in {"ask", "get", "set"} /\ pc[c] = "idle"
  \/ phase[c] = "start" /\ capture_frames_index = 0
  \/ phase[c] = "check" /\ pc[c] = "init"
  \/ phase[c] = "check" /\ pc[c] \in {"finish", "idle"} /\ left[c] = 1

DeviceInv == Loose /\ ((\A c \in Clients : Away(c)) => Clean)

SessionInv ==
  ~ mixed => DeviceInv /\ \A c \in Clients : CountOf(c) /\ PlaceOf(c)


\* What SessionInv says when c is the only PC that is at work.
Only(c) == Loose /\ (Away(c) => Clean) /\ CountOf(c) /\ PlaceOf(c)

(* A handler's step moves its own PC only.                                  *)
LEMMA StepHere ==
  ASSUME PCsTypeOK, NEW c \in Clients, HandlerRawCapMessage(c), NEW d \in Clients, d # c
  PROVE  pc'[d] = pc[d] /\ phase'[d] = phase[d]
<1> USE DEF PCsTypeOK, Goto, Then, Sends, conf, dev, avg, hist
<1>1. CASE Status(c)
  BY <1>1 DEF Status
<1>2. CASE GetParam(c)
  BY <1>2 DEF GetParam
<1>3. CASE SetParam(c)
  BY <1>3 DEF SetParam
<1>4. CASE Start(c)
  BY <1>4 DEF Start
<1>5. CASE InitDevice(c)
  BY <1>5 DEF InitDevice
<1>6. CASE StartCapturing(c)
  BY <1>6 DEF StartCapturing
<1>7. CASE DoCapture(c)
  BY <1>7 DEF DoCapture
<1>8. CASE DoMultiFrameCapture(c)
  BY <1>8 DEF DoMultiFrameCapture
<1>9. CASE MultiFrame(c)
  BY <1>9 DEF MultiFrame
<1>10. CASE TestComplete(c)
  BY <1>10 DEF TestComplete
<1>11. CASE Finish(c)
  BY <1>11 DEF Finish
<1>12. CASE StreamOff(c)
  BY <1>12 DEF StreamOff
<1>13. CASE Uninit(c)
  BY <1>13 DEF Uninit
<1>14. CASE ChecksumAgrees(c)
  BY <1>14 DEF ChecksumAgrees
<1>15. CASE ChecksumDiffers(c)
  BY <1>15 DEF ChecksumDiffers
<1> QED
  BY <1>1, <1>2, <1>3, <1>4, <1>5, <1>6, <1>7, <1>8, <1>9, <1>10, <1>11, <1>12,
     <1>13, <1>14, <1>15
  DEF HandlerRawCapMessage, StopCapture

(* A PC begins only with STATUS, and the history never forgets.             *)
LEMMA MixedStays ==
  ASSUME PCsTypeOK, NEW c \in Clients, HandlerRawCapMessage(c), ~ mixed'
  PROVE  /\ ~ mixed
         /\ \/ ~ Sends(c, "ask")
            \/ \A d \in Clients \ {c} : Sends(d, "ask")
            \/ UNCHANGED vars
<1> USE DEF vars, PCsTypeOK, Goto, Then, Sends, conf, dev, avg, hist
<1>1. CASE Status(c)
  BY <1>1 DEF Status
<1>2. CASE GetParam(c)
  BY <1>2 DEF GetParam
<1>3. CASE SetParam(c)
  BY <1>3 DEF SetParam
<1>4. CASE Start(c)
  BY <1>4 DEF Start
<1>5. CASE InitDevice(c)
  BY <1>5 DEF InitDevice
<1>6. CASE StartCapturing(c)
  BY <1>6 DEF StartCapturing
<1>7. CASE DoCapture(c)
  BY <1>7 DEF DoCapture
<1>8. CASE DoMultiFrameCapture(c)
  BY <1>8 DEF DoMultiFrameCapture
<1>9. CASE MultiFrame(c)
  BY <1>9 DEF MultiFrame
<1>10. CASE TestComplete(c)
  BY <1>10 DEF TestComplete
<1>11. CASE Finish(c)
  BY <1>11 DEF Finish
<1>12. CASE StreamOff(c)
  BY <1>12 DEF StreamOff
<1>13. CASE Uninit(c)
  BY <1>13 DEF Uninit
<1>14. CASE ChecksumAgrees(c)
  BY <1>14 DEF ChecksumAgrees
<1>15. CASE ChecksumDiffers(c)
  BY <1>15 DEF ChecksumDiffers
<1> QED
  BY <1>1, <1>2, <1>3, <1>4, <1>5, <1>6, <1>7, <1>8, <1>9, <1>10, <1>11, <1>12,
     <1>13, <1>14, <1>15
  DEF HandlerRawCapMessage, StopCapture

(* So a step that nothing came between finds all other PCs at rest, and     *)
(* leaves them there.                                                       *)
LEMMA OthersRest ==
  ASSUME TypeOK, AloneInv, NEW c \in Clients, HandlerRawCapMessage(c), ~ mixed',
         ~ UNCHANGED vars
  PROVE  /\ ~ mixed
         /\ \A d \in Clients \ {c} :
              Sends(d, "ask") /\ pc'[d] = "idle" /\ phase'[d] = "ask"
<1>1. ~ mixed /\ \A d \in Clients \ {c} : Sends(d, "ask")
  BY TypeParts, MixedStays DEF AloneInv
<1>2. \A d \in Clients \ {c} : pc'[d] = pc[d] /\ phase'[d] = phase[d]
  BY TypeParts, StepHere
<1> QED
  BY <1>1, <1>2 DEF Sends

(* Whoever is at work stays the only one.                                   *)
LEMMA AloneNext ==
  ASSUME TypeOK, AloneInv, NEW c \in Clients, HandlerRawCapMessage(c)
  PROVE  AloneInv'
<1> SUFFICES ASSUME ~ mixed', ~ UNCHANGED vars PROVE AloneInv'
  BY DEF AloneInv, Sends, vars, hist
<1> QED
  BY OthersRest DEF AloneInv, Sends
-----------------------------------------------------------------------------
(* Half of the frames, which a step leaves as it is unless it sets them.    *)
LEMMA HalfType ==
  ASSUME TypeOK
  PROVE  /\ Half \in Nat
         /\ capture_frames >= 2 => 1 <= Half /\ Half < capture_frames
         /\ capture_frames' = capture_frames => Half' = Half
<1>1. capture_frames \in Nat
  BY DEF TypeOK, Frames
<1>2. \A n \in Nat : n \div 2 \in Nat /\ (n >= 2 => 1 <= n \div 2 /\ n \div 2 < n)
  OBVIOUS
<1> QED
  BY <1>1, <1>2 DEF Half

(* What c knows of its place in the capture, step by step.                  *)
(* The index keeps count of the frames taken.                               *)
LEMMA CountStep ==
  ASSUME Counted, TypeOK, NEW c \in Clients, Only(c), HandlerRawCapMessage(c)
  PROVE  CountOf(c)'
<1> USE DEF CountOf, PlaceOf, Captures, Starts, TakenAt, LoopEnd, Goto, Then,
            Sends, conf, dev, avg, hist
<1>t. /\ capture_frames \in Nat /\ capture_frames_index \in Nat
      /\ at[c] \in Nat /\ left[c] \in Int
      /\ pc \in [Clients -> {"idle", "init", "stream", "capture", "first",
                             "second", "test", "off", "uninit", "finish"}]
      /\ phase \in [Clients -> {"ask", "get", "set", "start", "check"}]
      /\ at \in [Clients -> Nat] /\ left \in [Clients -> Int]
  BY DEF TypeOK, Frames
<1>h. /\ Half \in Nat /\ (capture_frames >= 2 => 1 <= Half /\ Half < capture_frames)
      /\ (capture_frames' = capture_frames => Half' = Half)
  BY HalfType
<1>c. CountOf(c) /\ PlaceOf(c)
  BY DEF Only
<1>1. CASE Status(c)
  BY <1>1, <1>t, <1>h, <1>c DEF Status
<1>2. CASE GetParam(c)
  BY <1>2, <1>t, <1>h, <1>c DEF GetParam
<1>3. CASE SetParam(c)
  <2>1. /\ capture_frames' \in Nat
        /\ capture_frames' >= IF capture_mode' = "normal" THEN 1 ELSE 2
    BY <1>3, SetValues DEF Counted, Frames
  <2>2. /\ phase'[c] = "start" /\ pc'[c] = "idle" /\ capture_frames_index' = 0
        /\ left'[c] = IF capture_mode' = "normal" THEN capture_frames' ELSE 2
    BY <1>3, <1>t, SetValues DEF SetParam
  <2> QED
    BY <2>1, <2>2
<1>4. CASE Start(c)
  BY <1>4, <1>t, <1>h, <1>c DEF Start
<1>5. CASE InitDevice(c)
  BY <1>5, <1>t, <1>h, <1>c DEF InitDevice
<1>6. CASE StartCapturing(c)
  BY <1>6, <1>t, <1>h, <1>c DEF StartCapturing
<1>7. CASE DoCapture(c)
  BY <1>7, <1>t, <1>h, <1>c DEF DoCapture
<1>8. CASE DoMultiFrameCapture(c)
  BY <1>8, <1>t, <1>h, <1>c DEF DoMultiFrameCapture
<1>9. CASE MultiFrame(c)
  <2>1. CASE at[c] < LoopEnd(c) /\ at' = [at EXCEPT ![c] = @ + 1]
           /\ capture_frames_index' = capture_frames_index + 1 /\ UNCHANGED pc
    <3>1. pc[c] \in {"first", "second"}
          /\ UNCHANGED <<phase, left, capture_mode, capture_frames>>
      BY <1>9 DEF MultiFrame
    <3>2. pc'[c] = pc[c] /\ at'[c] = at[c] + 1 /\ left'[c] = left[c]
          /\ phase'[c] = phase[c] /\ capture_mode' = capture_mode
          /\ capture_frames' = capture_frames
      BY <1>t, <2>1, <3>1
    <3> QED
      BY <1>t, <1>h, <1>c, <2>1, <3>1, <3>2
  <2>2. CASE at[c] >= LoopEnd(c) /\ Goto(c, "test")
           /\ UNCHANGED <<capture_frames_index, at>>
    <3>1. pc[c] \in {"first", "second"}
          /\ UNCHANGED <<phase, left, capture_mode, capture_frames>>
      BY <1>9 DEF MultiFrame
    <3>2. pc'[c] = "test" /\ left'[c] = left[c]
          /\ phase'[c] = phase[c] /\ capture_mode' = capture_mode
          /\ capture_frames' = capture_frames
      BY <1>t, <2>2, <3>1
    <3> QED
      BY <1>t, <1>h, <1>c, <2>2, <3>1, <3>2
  <2> QED
    BY <1>9, <2>1, <2>2 DEF MultiFrame
<1>10. CASE TestComplete(c)
  BY <1>10, <1>t, <1>h, <1>c DEF TestComplete
<1>11. CASE Finish(c)
  BY <1>11, <1>t, <1>h, <1>c DEF Finish
<1>12. CASE StreamOff(c)
  BY <1>12, <1>t, <1>h, <1>c DEF StreamOff
<1>13. CASE Uninit(c)
  BY <1>13, <1>t, <1>h, <1>c DEF Uninit
<1>14. CASE ChecksumAgrees(c)
  BY <1>14, <1>t, <1>h, <1>c DEF ChecksumAgrees, Last
<1>15. CASE ChecksumDiffers(c)
  BY <1>15, <1>t, <1>h, <1>c DEF ChecksumDiffers
<1> QED
  BY <1>1, <1>2, <1>3, <1>4, <1>5, <1>6, <1>7, <1>8, <1>9, <1>10, <1>11, <1>12,
     <1>13, <1>14, <1>15
  DEF HandlerRawCapMessage, StopCapture

(* Who captures nothing is not in a handler of START.                       *)
LEMMA PlaceStep ==
  ASSUME Counted, TypeOK, NEW c \in Clients, Only(c), HandlerRawCapMessage(c)
  PROVE  PlaceOf(c)'
<1> USE DEF CountOf, PlaceOf, Captures, Goto, Then, Sends, conf, dev, avg, hist
<1>t. /\ capture_frames \in Nat /\ capture_frames_index \in Nat
      /\ at[c] \in Nat /\ left[c] \in Int
      /\ pc \in [Clients -> {"idle", "init", "stream", "capture", "first",
                             "second", "test", "off", "uninit", "finish"}]
      /\ phase \in [Clients -> {"ask", "get", "set", "start", "check"}]
      /\ at \in [Clients -> Nat] /\ left \in [Clients -> Int]
  BY DEF TypeOK, Frames
<1>h. /\ Half \in Nat /\ (capture_frames >= 2 => 1 <= Half /\ Half < capture_frames)
      /\ (capture_frames' = capture_frames => Half' = Half)
  BY HalfType
<1>c. CountOf(c) /\ PlaceOf(c)
  BY DEF Only
<1>1. CASE Status(c)
  BY <1>1, <1>t, <1>c DEF Status
<1>2. CASE GetParam(c)
  BY <1>2, <1>t, <1>c DEF GetParam
<1>3. CASE SetParam(c)
  BY <1>3, <1>t, <1>c DEF SetParam
<1>4. CASE Start(c)
  BY <1>4, <1>t, <1>c DEF Start
<1>5. CASE InitDevice(c)
  BY <1>5, <1>t, <1>c DEF InitDevice
<1>6. CASE StartCapturing(c)
  BY <1>6, <1>t, <1>c DEF StartCapturing
<1>7. CASE DoCapture(c)
  BY <1>7, <1>t, <1>c DEF DoCapture
<1>8. CASE DoMultiFrameCapture(c)
  BY <1>8, <1>t, <1>c DEF DoMultiFrameCapture
<1>9. CASE MultiFrame(c)
  BY <1>9, <1>t, <1>c DEF MultiFrame
<1>10. CASE TestComplete(c)
  BY <1>10, <1>t, <1>c DEF TestComplete
<1>11. CASE Finish(c)
  BY <1>11, <1>t, <1>c DEF Finish
<1>12. CASE StreamOff(c)
  BY <1>12, <1>t, <1>c DEF StreamOff
<1>13. CASE Uninit(c)
  BY <1>13, <1>t, <1>c DEF Uninit
<1>14. CASE ChecksumAgrees(c)
  BY <1>14, <1>t, <1>c DEF ChecksumAgrees
<1>15. CASE ChecksumDiffers(c)
  BY <1>15, <1>t, <1>c DEF ChecksumDiffers
<1> QED
  BY <1>1, <1>2, <1>3, <1>4, <1>5, <1>6, <1>7, <1>8, <1>9, <1>10, <1>11, <1>12,
     <1>13, <1>14, <1>15
  DEF HandlerRawCapMessage, StopCapture

(* Nothing is opened twice, and what is closed was open.                    *)
LEMMA LooseStep ==
  ASSUME Counted, TypeOK, NEW c \in Clients, Only(c), HandlerRawCapMessage(c)
  PROVE  Loose'
<1> USE DEF Loose, Clean, Away, CountOf, PlaceOf, Captures, Goto, Then, Sends,
            conf, dev, avg, hist
<1>t. /\ capture_frames \in Nat /\ capture_frames_index \in Nat
      /\ at[c] \in Nat /\ left[c] \in Int
      /\ pc \in [Clients -> {"idle", "init", "stream", "capture", "first",
                             "second", "test", "off", "uninit", "finish"}]
      /\ phase \in [Clients -> {"ask", "get", "set", "start", "check"}]
      /\ at \in [Clients -> Nat] /\ left \in [Clients -> Int]
  BY DEF TypeOK, Frames
<1>h. /\ Half \in Nat /\ (capture_frames >= 2 => 1 <= Half /\ Half < capture_frames)
      /\ (capture_frames' = capture_frames => Half' = Half)
  BY HalfType
<1>c. CountOf(c) /\ PlaceOf(c)
  BY DEF Only
<1>d. Loose /\ (Away(c) => Clean)
  BY DEF Only
<1>1. CASE Status(c)
  BY <1>1, <1>t, <1>c, <1>d DEF Status
<1>2. CASE GetParam(c)
  BY <1>2, <1>t, <1>c, <1>d DEF GetParam
<1>3. CASE SetParam(c)
  BY <1>3, <1>t, <1>c, <1>d DEF SetParam
<1>4. CASE Start(c)
  BY <1>4, <1>t, <1>c, <1>d DEF Start
<1>5. CASE InitDevice(c)
  <2>0. pc[c] = "init" /\ Clean
    BY <1>5, <1>t, <1>c, <1>d DEF InitDevice
  <2>1. Clean /\ dev_fd' \in {0, inits'} /\ streaming' = 0
        /\ averaging' = averaging /\ inits' = inits + 1
    BY <1>5, <2>0 DEF InitDevice
  <2>2. opened' = IF dev_fd' = 0 THEN {} ELSE {dev_fd'}
    <3>1. inits' # 0
      BY <2>1 DEF TypeOK
    <3> QED
      BY <1>5, <2>1, <3>1 DEF InitDevice
  <2>3. mapped' \subseteq {buffers'}
    BY <1>5, <2>1 DEF InitDevice
  <2> QED
    BY <2>1, <2>2, <2>3
<1>6. CASE StartCapturing(c)
  BY <1>6, <1>t, <1>c, <1>d DEF StartCapturing
<1>7. CASE DoCapture(c)
  BY <1>7, <1>t, <1>c, <1>d DEF DoCapture
<1>8. CASE DoMultiFrameCapture(c)
  BY <1>8, <1>t, <1>c, <1>d DEF DoMultiFrameCapture
<1>9. CASE MultiFrame(c)
  BY <1>9, <1>t, <1>c, <1>d DEF MultiFrame
<1>10. CASE TestComplete(c)
  BY <1>10, <1>t, <1>c, <1>d DEF TestComplete
<1>11. CASE Finish(c)
  BY <1>11, <1>t, <1>c, <1>d DEF Finish
<1>12. CASE StreamOff(c)
  BY <1>12, <1>t, <1>c, <1>d DEF StreamOff
<1>13. CASE Uninit(c)
  BY <1>13, <1>t, <1>c, <1>d DEF Uninit
<1>14. CASE ChecksumAgrees(c)
  BY <1>14, <1>t, <1>c, <1>d DEF ChecksumAgrees
<1>15. CASE ChecksumDiffers(c)
  BY <1>15, <1>t, <1>c, <1>d DEF ChecksumDiffers
<1> QED
  BY <1>1, <1>2, <1>3, <1>4, <1>5, <1>6, <1>7, <1>8, <1>9, <1>10, <1>11, <1>12,
     <1>13, <1>14, <1>15
  DEF HandlerRawCapMessage, StopCapture

(* The device is closed when it should be.                                  *)
LEMMA CleanStep ==
  ASSUME Counted, TypeOK, NEW c \in Clients, Only(c), HandlerRawCapMessage(c)
  PROVE  Away(c)' => Clean'
<1> USE DEF Loose, Clean, Away, CountOf, PlaceOf, Captures, TakenAt, Starts,
            Goto, Then, Sends, conf, dev, avg, hist
<1>t. /\ capture_frames \in Nat /\ capture_frames_index \in Nat
      /\ at[c] \in Nat /\ left[c] \in Int
      /\ pc \in [Clients -> {"idle", "init", "stream", "capture", "first",
                             "second", "test", "off", "uninit", "finish"}]
      /\ phase \in [Clients -> {"ask", "get", "set", "start", "check"}]
      /\ at \in [Clients -> Nat] /\ left \in [Clients -> Int]
  BY DEF TypeOK, Frames
<1>h. /\ Half \in Nat /\ (capture_frames >= 2 => 1 <= Half /\ Half < capture_frames)
      /\ (capture_frames' = capture_frames => Half' = Half)
  BY HalfType
<1>c. CountOf(c) /\ PlaceOf(c)
  BY DEF Only
<1>d. Loose /\ (Away(c) => Clean)
  BY DEF Only
<1>1. CASE Status(c)
  BY <1>1, <1>t, <1>h, <1>c, <1>d DEF Status
<1>2. CASE GetParam(c)
  BY <1>2, <1>t, <1>h, <1>c, <1>d DEF GetParam
<1>3. CASE SetParam(c)
  BY <1>3, <1>t, <1>h, <1>c, <1>d DEF SetParam
<1>4. CASE Start(c)
  BY <1>4, <1>t, <1>h, <1>c, <1>d DEF Start
<1>5. CASE InitDevice(c)
  BY <1>5, <1>t, <1>h, <1>c, <1>d DEF InitDevice
<1>6. CASE StartCapturing(c)
  BY <1>6, <1>t, <1>h, <1>c, <1>d DEF StartCapturing
<1>7. CASE DoCapture(c)
  BY <1>7, <1>t, <1>h, <1>c, <1>d DEF DoCapture
<1>8. CASE DoMultiFrameCapture(c)
  BY <1>8, <1>t, <1>h, <1>c, <1>d DEF DoMultiFrameCapture
<1>9. CASE MultiFrame(c)
  BY <1>9, <1>t, <1>h, <1>c, <1>d DEF MultiFrame
<1>10. CASE TestComplete(c)
  BY <1>10, <1>t, <1>h, <1>c, <1>d DEF TestComplete
<1>11. CASE Finish(c)
  BY <1>11, <1>t, <1>h, <1>c, <1>d DEF Finish
<1>12. CASE StreamOff(c)
  BY <1>12, <1>t, <1>h, <1>c, <1>d DEF StreamOff
<1>13. CASE Uninit(c)
  BY <1>13, <1>t, <1>h, <1>c, <1>d DEF Uninit
<1>14. CASE ChecksumAgrees(c)
  BY <1>14, <1>t, <1>h, <1>c, <1>d DEF ChecksumAgrees, Last
<1>15. CASE ChecksumDiffers(c)
  BY <1>15, <1>t, <1>h, <1>c, <1>d DEF ChecksumDiffers
<1> QED
  BY <1>1, <1>2, <1>3, <1>4, <1>5, <1>6, <1>7, <1>8, <1>9, <1>10, <1>11, <1>12,
     <1>13, <1>14, <1>15
  DEF HandlerRawCapMessage, StopCapture

(* One PC at a time, and everything closed when it rests.                   *)
LEMMA SessionNext ==
  ASSUME Counted, TypeOK, AloneInv, SessionInv, NEW c \in Clients,
         HandlerRawCapMessage(c), ~ UNCHANGED vars
  PROVE  SessionInv'
<1> SUFFICES ASSUME ~ mixed' PROVE SessionInv'
  BY DEF SessionInv
<1>1. /\ ~ mixed
      /\ \A d \in Clients \ {c} :
           Sends(d, "ask") /\ pc'[d] = "idle" /\ phase'[d] = "ask"
  BY OthersRest
<1>2. \A d \in Clients \ {c} : Away(d) /\ Away(d)' /\ CountOf(d)' /\ PlaceOf(d)'
  BY <1>1 DEF Away, Sends, CountOf, Captures, PlaceOf
<1>3. Only(c)
  BY <1>1, <1>2 DEF Only, SessionInv, DeviceInv
<1>4. Loose' /\ (Away(c)' => Clean') /\ CountOf(c)' /\ PlaceOf(c)'
  BY <1>3, CountStep, PlaceStep, LooseStep, CleanStep
<1> QED
  BY <1>2, <1>4 DEF SessionInv, DeviceInv
-----------------------------------------------------------------------------
\* What was sent when n frames were taken.
SentAt(n) ==
  IF capture_mode = "normal" THEN [k \in 1 .. n |-> [index |-> k - 1, sum |-> <<>>]]
  ELSE IF n < Half THEN <<>>
  ELSE IF n < capture_frames THEN << [index |-> Half - 1, sum |-> <<>>] >>
  ELSE Promised

\* Between START's last call of init_device and StopCapture the stream is on.
On(c) ==
  ~ Away(c) /\ pc[c] \notin {"stream", "off", "uninit"}
    /\ ~ (pc[c] = "test" /\ left[c] = 1)

FrameOf(c) ==
  /\ got[c] = SentAt(capture_frames_index)
  /\ pc[c] = "stream" => dev_fd # 0 /\ streaming = 0
  /\ On(c) =>
       /\ dev_fd # 0 /\ streaming = dev_fd
       /\ capture_mode # "normal" =>
            averaging /\ averge_frame0 = IndexFrom(capture_frames_index)

FrameInv == ~ mixed /\ ~ lost => \A c \in Clients : Captures(c) => FrameOf(c)

\* The frame with index i, not averaged.
Plain(i) == [index |-> i, sum |-> <<>>]

(* One frame more in the sum.                                               *)
LEMMA IndexNext ==
  ASSUME NEW n \in Nat PROVE Append(IndexFrom(n), n) = IndexFrom(n + 1)
<1> DEFINE s == IndexFrom(n)
           r == IndexFrom(n + 1)
           a == Append(s, n)
<1>1. s \in Seq(Nat) /\ Len(s) = n /\ \A k \in 1 .. n : s[k] = k - 1
  BY DEF IndexFrom
<1>2. r \in Seq(Nat) /\ Len(r) = n + 1 /\ \A k \in 1 .. n + 1 : r[k] = k - 1
  BY DEF IndexFrom
<1> HIDE DEF s, r
<1>3. a \in Seq(Nat) /\ Len(a) = n + 1 /\ (\A k \in 1 .. n : a[k] = s[k])
      /\ a[n + 1] = n
  BY <1>1, AppendProperties
<1> HIDE DEF a
<1>4. \A k \in 1 .. n + 1 : a[k] = r[k]
  BY <1>1, <1>2, <1>3
<1>5. a = r
  BY <1>2, <1>3, <1>4, SeqEqual
<1> QED
  BY <1>5 DEF a, s, r

(* Frames that are not averaged, by their index.                            *)
LEMMA Plains ==
  ASSUME NEW n \in Nat
  PROVE  LET s == [k \in 1 .. n |-> Plain(k - 1)] IN
         /\ s \in Seq([index : Int, sum : {<<>>}]) /\ Len(s) = n
         /\ \A k \in 1 .. n : s[k] = Plain(k - 1)
<1>1. \A k \in 1 .. n : Plain(k - 1) \in [index : Int, sum : {<<>>}]
  BY DEF Plain
<1> DEFINE T == [index : Int, sum : {<<>>}]
<1> HIDE DEF Plain, T
<1> QED
  BY <1>1 DEF T

(* A sequence of two.                                                       *)
LEMMA AppendSecond ==
  ASSUME NEW x, NEW y PROVE Append(<<x>>, y) = <<x, y>>
<1> DEFINE a == Append(<<x>>, y)
           b == <<x, y>>
<1>1. <<x>> \in Seq({x, y}) /\ Len(<<x>>) = 1
  OBVIOUS
<1>2. b \in Seq({x, y}) /\ Len(b) = 2 /\ b[1] = x /\ b[2] = y
  OBVIOUS
<1>3. a \in Seq({x, y}) /\ Len(a) = 2 /\ a[1] = x /\ a[2] = y
  <2>1. /\ a \in Seq({x, y}) /\ Len(a) = Len(<<x>>) + 1
        /\ (\A i \in 1 .. Len(<<x>>) : a[i] = <<x>>[i]) /\ a[Len(<<x>>) + 1] = y
    BY <1>1, AppendProperties
  <2> HIDE DEF a
  <2> QED
    BY <1>1, <2>1
<1> HIDE DEF a, b
<1>4. \A i \in 1 .. 2 : a[i] = b[i]
  <2>1. \A i \in 1 .. 2 : i = 1 \/ i = 2
    OBVIOUS
  <2> QED
    BY <1>2, <1>3, <2>1
<1>5. a = b
  BY <1>2, <1>3, <1>4, SeqEqual
<1> QED
  BY <1>5 DEF a, b

(* One frame more for the PC.                                               *)
LEMMA PlainNext ==
  ASSUME NEW n \in Nat
  PROVE  Append([k \in 1 .. n |-> Plain(k - 1)], Plain(n))
           = [k \in 1 .. n + 1 |-> Plain(k - 1)]
<1> DEFINE T == [index : Int, sum : {<<>>}]
           s == [k \in 1 .. n |-> Plain(k - 1)]
           r == [k \in 1 .. n + 1 |-> Plain(k - 1)]
           a == Append(s, Plain(n))
<1>0. Plain(n) \in T
  BY DEF Plain
<1>1. s \in Seq(T) /\ Len(s) = n /\ \A k \in 1 .. n : s[k] = Plain(k - 1)
  BY Plains
<1>2. r \in Seq(T) /\ Len(r) = n + 1 /\ \A k \in 1 .. n + 1 : r[k] = Plain(k - 1)
  BY Plains
<1> HIDE DEF s, r, T
<1>3. a \in Seq(T) /\ Len(a) = n + 1 /\ (\A k \in 1 .. n : a[k] = s[k])
      /\ a[n + 1] = Plain(n)
  BY <1>0, <1>1, AppendProperties
<1> HIDE DEF a
<1>4. \A k \in 1 .. n + 1 : a[k] = r[k]
  BY <1>1, <1>2, <1>3
<1>5. a = r
  BY <1>2, <1>3, <1>4, SeqEqual
<1> QED
  BY <1>5 DEF a, s, r

(* DoCapture sends the next frame.                                          *)
LEMMA SentPlain ==
  ASSUME capture_mode = "normal", NEW n \in Nat
  PROVE  Append(SentAt(n), [index |-> n, sum |-> <<>>]) = SentAt(n + 1)
BY PlainNext DEF SentAt, Plain

(* DoMultiFrameCallBack sends the last frame of the first half, and the sum *)
(* after the last frame of all.                                             *)
LEMMA SentAveraged ==
  ASSUME capture_mode # "normal", capture_frames \in Nat, capture_frames >= 2,
         NEW n \in Nat, n < capture_frames
  PROVE  /\ n = capture_frames - 1 =>
              Append(SentAt(n), [index |-> n, sum |-> IndexFrom(n + 1)])
                = SentAt(n + 1)
         /\ n # capture_frames - 1 /\ n = Half - 1 =>
              Append(SentAt(n), [index |-> n, sum |-> <<>>]) = SentAt(n + 1)
         /\ n # capture_frames - 1 /\ n # Half - 1 => SentAt(n + 1) = SentAt(n)
<1>1. Half \in Nat /\ 1 <= Half /\ Half < capture_frames
  <2>1. \A m \in Nat : m >= 2 => m \div 2 \in Nat /\ 1 <= m \div 2 /\ m \div 2 < m
    OBVIOUS
  <2> QED
    BY <2>1 DEF Half
<1>2. CASE n = capture_frames - 1
  <2>1. ~ (n < Half) /\ ~ (n + 1 < Half) /\ ~ (n + 1 < capture_frames)
        /\ n + 1 = capture_frames
    BY <1>1, <1>2
  <2>2. SentAt(n) = <<Plain(Half - 1)>> /\ SentAt(n + 1) = Promised
    BY <2>1 DEF SentAt, Plain
  <2>3. Promised = <<Plain(Half - 1),
                    [index |-> capture_frames - 1, sum |-> IndexFrom(capture_frames)]>>
    BY DEF Promised, Plain
  <2> QED
    BY <1>2, <2>1, <2>2, <2>3, AppendSecond
<1>3. CASE n # capture_frames - 1 /\ n = Half - 1
  <2>1. n < Half /\ ~ (n + 1 < Half) /\ n + 1 < capture_frames
    BY <1>1, <1>3
  <2>2. SentAt(n) = <<>> /\ SentAt(n + 1) = <<Plain(Half - 1)>>
    BY <2>1 DEF SentAt, Plain
  <2>3. \A x : Append(<<>>, x) = <<x>>
    OBVIOUS
  <2> QED
    BY <1>3, <2>2, <2>3 DEF Plain
<1>4. CASE n # capture_frames - 1 /\ n # Half - 1
  <2>1. n < Half <=> n + 1 < Half
    BY <1>1, <1>4
  <2>2. n < capture_frames /\ n + 1 < capture_frames
    BY <1>4
  <2>3. CASE n < Half
    <3>1. SentAt(n) = <<>>
      BY <2>3 DEF SentAt
    <3>2. SentAt(n + 1) = <<>>
      BY <2>1, <2>3 DEF SentAt
    <3> QED
      BY <1>4, <3>1, <3>2
  <2>4. CASE ~ (n < Half)
    <3>1. SentAt(n) = <<Plain(Half - 1)>>
      BY <2>2, <2>4 DEF SentAt, Plain
    <3>2. SentAt(n + 1) = <<Plain(Half - 1)>>
      BY <2>1, <2>2, <2>4 DEF SentAt, Plain
    <3> QED
      BY <1>4, <3>1, <3>2
  <2> QED
    BY <1>4, <2>3, <2>4
<1> QED
  BY <1>2, <1>3, <1>4

(* Nothing is sent at the start, and what was sent is what was promised so  *)
(* far.                                                                     *)
LEMMA SentIsPromised ==
  ASSUME capture_frames \in Nat, capture_frames >= 1,
         capture_mode # "normal" => capture_frames >= 2,
         NEW n \in 0 .. capture_frames
  PROVE  /\ SentAt(0) = <<>>
         /\ SentAt(n) = SubSeq(Promised, 1, Len(SentAt(n)))
         /\ SentAt(capture_frames) = Promised
<1>1. CASE capture_mode = "normal"
  <2> DEFINE T == [index : Int, sum : {<<>>}]
             s == [k \in 1 .. n |-> Plain(k - 1)]
             p == [k \in 1 .. capture_frames |-> Plain(k - 1)]
             a == SubSeq(p, 1, n)
  <2>1. SentAt(n) = s /\ SentAt(capture_frames) = p /\ Promised = p
    BY <1>1 DEF SentAt, Promised, Plain
  <2>2. SentAt(0) = <<>>
    BY <1>1 DEF SentAt
  <2>4. s \in Seq(T) /\ Len(s) = n /\ \A k \in 1 .. n : s[k] = Plain(k - 1)
    BY Plains
  <2>5. p \in Seq(T) /\ Len(p) = capture_frames
        /\ \A k \in 1 .. capture_frames : p[k] = Plain(k - 1)
    BY Plains
  <2> HIDE DEF s, p, T
  <2>6. \A k \in 1 .. n : p[k] \in T /\ p[k] = s[k]
    BY <2>4, <2>5, ElementOfSeq
  <2>7. a \in Seq(T) /\ Len(a) = (IF 1 <= n THEN n - 1 + 1 ELSE 0)
        /\ \A k \in 1 .. n - 1 + 1 : a[k] = p[1 + k - 1]
    BY <2>5, <2>6, SubSeqProperties
  <2> HIDE DEF a
  <2>8. Len(a) = n /\ \A k \in 1 .. n : a[k] = p[k]
    BY <2>7
  <2>9. a = s
    BY <2>4, <2>6, <2>7, <2>8, SeqEqual
  <2> QED
    BY <2>1, <2>2, <2>4, <2>9 DEF a
<1>2. CASE capture_mode # "normal"
  <2>1. Half \in Nat /\ 1 <= Half /\ Half < capture_frames
    <3>1. \A m \in Nat : m >= 2 => m \div 2 \in Nat /\ 1 <= m \div 2 /\ m \div 2 < m
      OBVIOUS
    <3> QED
      BY <1>2, <3>1 DEF Half
  <2>2. SentAt(0) = <<>> /\ SentAt(capture_frames) = Promised
    BY <1>2, <2>1 DEF SentAt
  <2>3. PICK x, y : Promised = <<x, y>> /\ (SentAt(n) \in {<<>>, <<x>>, <<x, y>>})
    <3>1. Promised = <<Plain(Half - 1),
                [index |-> capture_frames - 1, sum |-> IndexFrom(capture_frames)]>>
      BY <1>2 DEF Promised, Plain
    <3>2. SentAt(n) \in {<<>>, <<Plain(Half - 1)>>, Promised}
      BY <1>2 DEF SentAt, Plain
    <3> QED
      BY <3>1, <3>2
  <2>4. /\ <<>> = SubSeq(<<x, y>>, 1, 0) /\ <<x>> = SubSeq(<<x, y>>, 1, 1)
        /\ <<x, y>> = SubSeq(<<x, y>>, 1, 2)
    OBVIOUS
  <2>5. Len(<<>>) = 0 /\ Len(<<x>>) = 1 /\ Len(<<x, y>>) = 2
    OBVIOUS
  <2> QED
    BY <2>2, <2>3, <2>4, <2>5
<1> QED
  BY <1>1, <1>2

\* What the frames depend on, that a step of StopCapture or a test leaves alone.
SameFrames(c) ==
  /\ got' = got /\ capture_frames_index' = capture_frames_index
  /\ capture_mode' = capture_mode /\ capture_frames' = capture_frames
  /\ lost' = lost

(* Such a step keeps what was sent.                                         *)
LEMMA SameSent ==
  ASSUME TypeOK, NEW c \in Clients, SameFrames(c),
         got[c] = SentAt(capture_frames_index)
  PROVE  got'[c] = SentAt(capture_frames_index)'
BY DEF SameFrames, SentAt, Half, Promised, IndexFrom

(* Nothing is sent before the first START.                                  *)
LEMMA SentNone ==
  ASSUME capture_frames' \in Nat,
         capture_frames' >= IF capture_mode' = "normal" THEN 1 ELSE 2
  PROVE  SentAt(0)' = <<>>
<1>1. CASE capture_mode' = "normal"
  BY <1>1 DEF SentAt
<1>2. CASE capture_mode' # "normal"
  <2>1. \A m \in Nat : m >= 2 => m \div 2 \in Nat /\ 0 < m \div 2
    OBVIOUS
  <2>2. 0 < Half'
    <3>1. capture_frames' \in Nat /\ capture_frames' >= 2
      BY <1>2
    <3>2. 0 < capture_frames' \div 2
      BY <2>1, <3>1
    <3> QED
      BY <3>2 DEF Half
  <2> QED
    BY <1>2, <2>2 DEF SentAt
<1> QED
  BY <1>1, <1>2

(* What c gets when nothing goes wrong.                                     *)
LEMMA FrameStep ==
  ASSUME Counted, TypeOK, NEW c \in Clients, Only(c),
         ~ lost /\ Captures(c) => FrameOf(c),
         HandlerRawCapMessage(c), ~ lost', Captures(c)'
  PROVE  FrameOf(c)'
<1> USE DEF Goto, Then, Sends, conf, dev, avg, hist
<1>t. /\ capture_frames \in Nat /\ capture_frames_index \in Nat
      /\ at[c] \in Nat /\ left[c] \in Int
      /\ pc \in [Clients -> {"idle", "init", "stream", "capture", "first",
                             "second", "test", "off", "uninit", "finish"}]
      /\ phase \in [Clients -> {"ask", "get", "set", "start", "check"}]
      /\ at \in [Clients -> Nat] /\ left \in [Clients -> Int]
      /\ got \in [Clients -> Seq([index : Nat, sum : Seq(Frames)])]
  BY DEF TypeOK, Frames
<1>c. CountOf(c) /\ PlaceOf(c) /\ (Away(c) => Clean)
  BY DEF Only
<1>f. ~ lost /\ Captures(c) => FrameOf(c)
  OBVIOUS
<1>s. ASSUME capture_mode' = capture_mode, capture_frames' = capture_frames, NEW n \in Nat
      PROVE  SentAt(n)' = SentAt(n)
  BY <1>s DEF SentAt, Half, Promised, IndexFrom
<1>n. IndexFrom(capture_frames_index)' = IndexFrom(capture_frames_index')
  BY DEF IndexFrom
<1>1. CASE Status(c)
  BY <1>1, <1>t, <1>c DEF Status, Captures, PlaceOf
<1>2. CASE GetParam(c)
  BY <1>2, <1>t, <1>c DEF GetParam, Captures, PlaceOf
<1>3. CASE SetParam(c)
  <2>1. got'[c] = <<>> /\ capture_frames_index' = 0 /\ phase'[c] = "start"
        /\ pc'[c] = "idle"
    BY <1>3, <1>t DEF SetParam
  <2>2. /\ capture_frames' \in Nat
        /\ capture_frames' >= IF capture_mode' = "normal" THEN 1 ELSE 2
    BY <1>3, SetValues DEF Counted, Frames
  <2>3. SentAt(0)' = <<>>
    BY <2>2, SentNone
  <2>4. Away(c)'
    BY <2>1 DEF Away
  <2> QED
    BY <2>1, <2>3, <2>4 DEF FrameOf, On
<1>4. CASE Start(c)
  <2>1. Captures(c) /\ SameFrames(c)
    BY <1>4, <1>t, <1>c DEF Start, SameFrames, Captures, PlaceOf
  <2>2. got'[c] = SentAt(capture_frames_index)'
    BY <1>f, <2>1, SameSent DEF FrameOf, SameFrames
  <2>3. pc'[c] = "stream" => dev_fd' # 0 /\ streaming' = 0
    BY <1>4, <1>t, <1>c, <1>f, <2>1
    DEF Start, FrameOf, Captures, Away, Clean, SameFrames
  <2>4. ASSUME On(c)'
        PROVE  /\ dev_fd' # 0 /\ streaming' = dev_fd'
               /\ capture_mode' # "normal" =>
                    averaging' /\ averge_frame0' = IndexFrom(capture_frames_index')
    BY <1>4, <1>t, <1>c, <1>f, <2>1, <2>4
    DEF Start, SameFrames, FrameOf, On, Away, Captures, CountOf, TakenAt, Starts
  <2> QED
    BY <1>n, <2>2, <2>3, <2>4 DEF FrameOf
<1>5. CASE InitDevice(c)
  <2>1. Captures(c) /\ SameFrames(c) /\ Clean
    BY <1>5, <1>t, <1>c
    DEF InitDevice, SameFrames, Captures, PlaceOf, CountOf, Away
  <2>2. got'[c] = SentAt(capture_frames_index)'
    BY <1>f, <2>1, SameSent DEF FrameOf, SameFrames
  <2>3. dev_fd' = inits + 1 /\ inits + 1 # 0 /\ streaming' = 0 /\ pc'[c] = "stream"
    BY <1>5, <1>t, <2>1 DEF InitDevice, Clean, TypeOK
  <2> QED
    BY <2>2, <2>3 DEF FrameOf, On
<1>6. CASE StartCapturing(c)
  <2>1. Captures(c) /\ SameFrames(c) /\ capture_frames_index = 0
    BY <1>6, <1>t, <1>c DEF StartCapturing, SameFrames, Captures, PlaceOf, CountOf
  <2>2. got'[c] = SentAt(capture_frames_index)'
    BY <1>f, <2>1, SameSent DEF FrameOf, SameFrames
  <2>3. dev_fd' # 0 /\ streaming' = dev_fd' /\ pc'[c] = "capture"
    BY <1>6, <1>t, <1>f, <2>1 DEF StartCapturing, FrameOf, SameFrames
  <2>4. capture_mode' # "normal" => averaging' /\ averge_frame0' = IndexFrom(0)
    BY <1>6, <2>1 DEF StartCapturing, SameFrames, IndexFrom
  <2> QED
    BY <1>n, <2>1, <2>2, <2>3, <2>4 DEF FrameOf, On, SameFrames
<1>7. CASE DoCapture(c)
  <2>0. ~ lost /\ capture_mode = "normal" /\ pc[c] = "capture"
    BY <1>7 DEF DoCapture, Reads
  <2>1. /\ Captures(c) /\ ~ lost /\ On(c) /\ capture_mode = "normal"
        /\ pc[c] = "capture"
    BY <1>t, <1>c, <2>0 DEF Captures, PlaceOf, CountOf, On, Away
  <2>2. got[c] = SentAt(capture_frames_index) /\ Dequeued
    BY <1>f, <2>1 DEF FrameOf, Dequeued
  <2>3. Receives(c, capture_frames_index, <<>>)
    BY <1>7, <2>1, <2>2 DEF DoCapture, Reads
  <2>4. got'[c] = SentAt(capture_frames_index + 1)
    <3>1. got'[c] = Append(got[c], [index |-> capture_frames_index, sum |-> <<>>])
      BY <1>t, <2>3 DEF Receives
    <3> QED
      BY <1>t, <2>1, <2>2, <3>1, SentPlain
  <2>5. /\ capture_frames_index' = capture_frames_index + 1
        /\ capture_mode' = capture_mode /\ capture_frames' = capture_frames
        /\ dev_fd' = dev_fd /\ streaming' = streaming /\ pc'[c] = "test"
    BY <1>7, <1>t DEF DoCapture
  <2>6. SentAt(capture_frames_index)' = SentAt(capture_frames_index + 1)
    BY <2>5 DEF SentAt, Half, Promised, IndexFrom
  <2> QED
    BY <2>1, <2>2, <2>4, <2>5, <2>6 DEF FrameOf, Dequeued
<1>8. CASE DoMultiFrameCapture(c)
  <2>1. Captures(c) /\ SameFrames(c)
    BY <1>8, <1>t, <1>c DEF DoMultiFrameCapture, SameFrames, Captures, PlaceOf
  <2>2. got'[c] = SentAt(capture_frames_index)'
    BY <1>f, <2>1, SameSent DEF FrameOf, SameFrames
  <2>3. pc'[c] = "stream" => dev_fd' # 0 /\ streaming' = 0
    BY <1>8, <1>t, <1>c, <1>f, <2>1
    DEF DoMultiFrameCapture, FrameOf, Captures, Away, Clean, SameFrames
  <2>4. ASSUME On(c)'
        PROVE  /\ dev_fd' # 0 /\ streaming' = dev_fd'
               /\ capture_mode' # "normal" =>
                    averaging' /\ averge_frame0' = IndexFrom(capture_frames_index')
    BY <1>8, <1>t, <1>c, <1>f, <2>1, <2>4
    DEF DoMultiFrameCapture, SameFrames, FrameOf, On, Away, Captures, CountOf,
        TakenAt, Starts
  <2> QED
    BY <1>n, <2>2, <2>3, <2>4 DEF FrameOf
<1>9. CASE MultiFrame(c)
  <2>1. /\ Captures(c) /\ ~ lost /\ On(c) /\ capture_mode # "normal"
        /\ pc[c] \in {"first", "second"} /\ capture_frames_index = at[c]
        /\ capture_frames >= 2
    BY <1>9, <1>t, <1>c
    DEF MultiFrame, Captures, PlaceOf, CountOf, On, Away, Reads
  <2>2. /\ got[c] = SentAt(at[c]) /\ Dequeued
        /\ averaging /\ averge_frame0 = IndexFrom(at[c])
    BY <1>f, <2>1 DEF FrameOf, Dequeued
  <2>3. CASE at[c] >= LoopEnd(c) /\ Goto(c, "test")
           /\ UNCHANGED <<capture_frames_index, averge_frame0, at, got, alive, lost>>
    <3>1. SameFrames(c) /\ UNCHANGED <<dev_fd, streaming, averaging, averge_frame0>>
          /\ pc'[c] = "test"
      BY <1>9, <1>t, <2>3 DEF MultiFrame, SameFrames
    <3>2. got'[c] = SentAt(capture_frames_index)'
      BY <2>1, <2>2, <3>1, SameSent DEF SameFrames
    <3> QED
      BY <1>n, <2>1, <2>2, <3>1, <3>2 DEF FrameOf, SameFrames, Dequeued
  <2>4. CASE at[c] < LoopEnd(c)
           /\ Reads(MultiFrameCallBack(c), UNCHANGED <<averge_frame0, got, alive>>)
           /\ capture_frames_index' = capture_frames_index + 1
           /\ at' = [at EXCEPT ![c] = @ + 1] /\ UNCHANGED pc
    <3>1. /\ capture_mode' = capture_mode /\ capture_frames' = capture_frames
          /\ dev_fd' = dev_fd /\ streaming' = streaming /\ averaging' = averaging
      BY <1>9 DEF MultiFrame
    <3>2. at[c] < capture_frames
      BY <1>t, <2>1, <2>4, HalfType DEF LoopEnd
    <3>3. MultiFrameCallBack(c)
      BY <2>2, <2>4 DEF Reads
    <3>4. averge_frame0' = IndexFrom(at[c] + 1)
      BY <1>t, <2>2, <3>3, IndexNext DEF MultiFrameCallBack
    <3>5. got'[c] = SentAt(at[c] + 1)
      <4>1. CASE at[c] = capture_frames - 1
        <5>1. got'[c] = Append(got[c], [index |-> at[c], sum |-> IndexFrom(at[c] + 1)])
          BY <1>t, <2>2, <3>3, <3>4, <4>1 DEF MultiFrameCallBack, Receives
        <5> QED
          BY <1>t, <2>1, <2>2, <3>2, <4>1, <5>1, SentAveraged
      <4>2. CASE at[c] # capture_frames - 1 /\ at[c] = Half - 1
        <5>1. got'[c] = Append(got[c], [index |-> at[c], sum |-> <<>>])
          BY <1>t, <2>2, <3>3, <4>2 DEF MultiFrameCallBack, Receives
        <5> QED
          BY <1>t, <2>1, <2>2, <3>2, <4>2, <5>1, SentAveraged
      <4>3. CASE at[c] # capture_frames - 1 /\ at[c] # Half - 1
        <5>1. got' = got
          BY <2>2, <3>3, <4>3 DEF MultiFrameCallBack
        <5> QED
          BY <1>t, <2>1, <2>2, <3>2, <4>3, <5>1, SentAveraged
      <4> QED
        BY <4>1, <4>2, <4>3
    <3>6. SentAt(capture_frames_index)' = SentAt(at[c] + 1)
      BY <2>1, <2>4, <3>1 DEF SentAt, Half, Promised, IndexFrom
    <3>7. capture_frames_index' = at[c] + 1 /\ pc'[c] # "stream"
      BY <2>1, <2>4
    <3> QED
      BY <1>n, <2>2, <3>1, <3>4, <3>5, <3>6, <3>7 DEF FrameOf, Dequeued
  <2> QED
    BY <1>9, <2>3, <2>4 DEF MultiFrame
<1>10. CASE TestComplete(c)
  <2>1. Captures(c) /\ SameFrames(c)
    BY <1>10, <1>t, <1>c DEF TestComplete, SameFrames, Captures, PlaceOf
  <2>2. got'[c] = SentAt(capture_frames_index)'
    BY <1>f, <2>1, SameSent DEF FrameOf, SameFrames
  <2>3. pc'[c] = "stream" => dev_fd' # 0 /\ streaming' = 0
    BY <1>10, <1>t, <1>c, <1>f, <2>1
    DEF TestComplete, FrameOf, Captures, Away, Clean, SameFrames
  <2>4. ASSUME On(c)'
        PROVE  /\ dev_fd' # 0 /\ streaming' = dev_fd'
               /\ capture_mode' # "normal" =>
                    averaging' /\ averge_frame0' = IndexFrom(capture_frames_index')
    BY <1>10, <1>t, <1>c, <1>f, <2>1, <2>4
    DEF TestComplete, SameFrames, FrameOf, On, Away, Captures, CountOf,
        TakenAt, Starts
  <2> QED
    BY <1>n, <2>2, <2>3, <2>4 DEF FrameOf
<1>11. CASE Finish(c)
  <2>1. Captures(c) /\ SameFrames(c)
    BY <1>11, <1>t, <1>c DEF Finish, SameFrames, Captures, PlaceOf
  <2>2. got'[c] = SentAt(capture_frames_index)'
    BY <1>f, <2>1, SameSent DEF FrameOf, SameFrames
  <2>3. pc'[c] = "stream" => dev_fd' # 0 /\ streaming' = 0
    BY <1>11, <1>t, <1>c, <1>f, <2>1
    DEF Finish, FrameOf, Captures, Away, Clean, SameFrames
  <2>4. ASSUME On(c)'
        PROVE  /\ dev_fd' # 0 /\ streaming' = dev_fd'
               /\ capture_mode' # "normal" =>
                    averaging' /\ averge_frame0' = IndexFrom(capture_frames_index')
    BY <1>11, <1>t, <1>c, <1>f, <2>1, <2>4
    DEF Finish, SameFrames, FrameOf, On, Away, Captures, CountOf, TakenAt, Starts
  <2> QED
    BY <1>n, <2>2, <2>3, <2>4 DEF FrameOf
<1>12. CASE StreamOff(c)
  <2>1. Captures(c) /\ SameFrames(c)
    BY <1>12, <1>t, <1>c DEF StreamOff, SameFrames, Captures, PlaceOf
  <2>2. got'[c] = SentAt(capture_frames_index)'
    BY <1>f, <2>1, SameSent DEF FrameOf, SameFrames
  <2>3. pc'[c] = "stream" => dev_fd' # 0 /\ streaming' = 0
    BY <1>12, <1>t, <1>c, <1>f, <2>1
    DEF StreamOff, FrameOf, Captures, Away, Clean, SameFrames
  <2>4. ASSUME On(c)'
        PROVE  /\ dev_fd' # 0 /\ streaming' = dev_fd'
               /\ capture_mode' # "normal" =>
                    averaging' /\ averge_frame0' = IndexFrom(capture_frames_index')
    BY <1>12, <1>t, <1>c, <1>f, <2>1, <2>4
    DEF StreamOff, SameFrames, FrameOf, On, Away, Captures, CountOf, TakenAt,
        Starts
  <2> QED
    BY <1>n, <2>2, <2>3, <2>4 DEF FrameOf
<1>13. CASE Uninit(c)
  <2>1. Captures(c) /\ SameFrames(c)
    BY <1>13, <1>t, <1>c DEF Uninit, SameFrames, Captures, PlaceOf
  <2>2. got'[c] = SentAt(capture_frames_index)'
    BY <1>f, <2>1, SameSent DEF FrameOf, SameFrames
  <2>3. pc'[c] = "stream" => dev_fd' # 0 /\ streaming' = 0
    BY <1>13, <1>t, <1>c, <1>f, <2>1
    DEF Uninit, FrameOf, Captures, Away, Clean, SameFrames
  <2>4. ASSUME On(c)'
        PROVE  /\ dev_fd' # 0 /\ streaming' = dev_fd'
               /\ capture_mode' # "normal" =>
                    averaging' /\ averge_frame0' = IndexFrom(capture_frames_index')
    BY <1>13, <1>t, <1>c, <1>f, <2>1, <2>4
    DEF Uninit, SameFrames, FrameOf, On, Away, Captures, CountOf, TakenAt, Starts
  <2> QED
    BY <1>n, <2>2, <2>3, <2>4 DEF FrameOf
<1>14. CASE ChecksumAgrees(c)
  <2>1. Captures(c) /\ SameFrames(c)
    BY <1>14, <1>t, <1>c DEF ChecksumAgrees, SameFrames, Captures, PlaceOf, Last
  <2>2. got'[c] = SentAt(capture_frames_index)'
    BY <1>f, <2>1, SameSent DEF FrameOf, SameFrames
  <2>3. pc'[c] = "stream" => dev_fd' # 0 /\ streaming' = 0
    BY <1>14, <1>t, <1>c, <1>f, <2>1
    DEF ChecksumAgrees, FrameOf, Captures, Away, Clean, SameFrames
  <2>4. ASSUME On(c)'
        PROVE  /\ dev_fd' # 0 /\ streaming' = dev_fd'
               /\ capture_mode' # "normal" =>
                    averaging' /\ averge_frame0' = IndexFrom(capture_frames_index')
    BY <1>14, <1>t, <1>c, <1>f, <2>1, <2>4
    DEF ChecksumAgrees, SameFrames, FrameOf, On, Away, Captures, CountOf,
        TakenAt, Starts, Last
  <2> QED
    BY <1>n, <2>2, <2>3, <2>4 DEF FrameOf
<1>15. CASE ChecksumDiffers(c)
  BY <1>15, <1>t, <1>c DEF ChecksumDiffers, Captures, PlaceOf
<1> QED
  BY <1>1, <1>2, <1>3, <1>4, <1>5, <1>6, <1>7, <1>8, <1>9, <1>10, <1>11, <1>12,
     <1>13, <1>14, <1>15
  DEF HandlerRawCapMessage, StopCapture

(* The frames are the promised ones after every step.                       *)
LEMMA FrameNext ==
  ASSUME Counted, TypeOK, AloneInv, SessionInv, FrameInv, NEW c \in Clients,
         HandlerRawCapMessage(c), ~ UNCHANGED vars
  PROVE  FrameInv'
<1> SUFFICES ASSUME ~ mixed', ~ lost', NEW d \in Clients, Captures(d)'
             PROVE  FrameOf(d)'
  BY DEF FrameInv
<1>1. /\ ~ mixed
      /\ \A e \in Clients \ {c} :
           Sends(e, "ask") /\ pc'[e] = "idle" /\ phase'[e] = "ask"
  BY OthersRest
<1>2. d = c
  BY <1>1 DEF Captures
<1>3. \A e \in Clients \ {c} : Away(e)
  BY <1>1 DEF Away, Sends
<1>4. Only(c)
  BY <1>1, <1>3 DEF Only, SessionInv, DeviceInv
<1>5. ~ lost /\ Captures(c) => FrameOf(c)
  BY <1>1 DEF FrameInv
<1>6. Captures(c)'
  BY <1>2
<1>7. FrameOf(c)'
  BY <1>4, <1>5, <1>6, FrameStep
<1> QED
  BY <1>2, <1>7

\* The inductive invariant of the sessions.
SessionIInv == AloneInv /\ SessionInv /\ FrameInv

LEMMA SessionInit == Init => SessionIInv
<1> SUFFICES ASSUME Init PROVE SessionIInv
  OBVIOUS
<1>1. ASSUME NEW c \in Clients PROVE pc[c] = "idle" /\ phase[c] = "ask"
  BY DEF Init
<1>2. Clean /\ buffers = 0
  BY DEF Init, Clean
<1>3. DeviceInv
  BY <1>2 DEF DeviceInv, Loose, Clean
<1> QED
  BY <1>1, <1>3
  DEF SessionIInv, AloneInv, SessionInv, FrameInv, Sends, CountOf, PlaceOf,
      Captures

LEMMA SessionCorrect ==
  ASSUME Counted PROVE Spec => []SessionIInv
<1>1. TypeOK /\ SessionIInv /\ [Next]_vars => SessionIInv'
  <2> SUFFICES ASSUME TypeOK, SessionIInv, [Next]_vars PROVE SessionIInv'
    OBVIOUS
  <2> USE DEF SessionIInv
  <2>1. CASE UNCHANGED vars
    BY <2>1
    DEF vars, conf, dev, avg, hist, AloneInv, SessionInv, FrameInv, Sends,
        DeviceInv,
        Loose, Clean, Away, CountOf, PlaceOf, Captures, Starts, TakenAt, Half, LoopEnd,
        FrameOf, On, SentAt, Promised, IndexFrom
  <2>2. ASSUME NEW c \in Clients, HandlerRawCapMessage(c), ~ UNCHANGED vars
        PROVE  SessionIInv'
    BY <2>2, AloneNext, SessionNext, FrameNext
  <2> QED
    BY <2>1, <2>2 DEF Next
<1> QED
  BY <1>1, SessionInit, TypeCorrect, PTL DEF Spec

(* PCs that capture one after the other leave nothing open, allocated or    *)
(* streaming, whatever fails.                                               *)
THEOREM ReleasedCorrect ==
  ASSUME Counted PROVE Spec => []Released
<1>1. SessionIInv => Released
  BY DEF SessionIInv, SessionInv, DeviceInv, Away, Clean, Released, Resting
<1> QED
  BY <1>1, SessionCorrect, PTL

(* As many frames are taken as were asked for, at most, and after the last  *)
(* START all of them.                                                       *)
LEMMA IndexBound ==
  ASSUME TypeOK, NEW c \in Clients, CountOf(c), PlaceOf(c), Captures(c)
  PROVE  /\ capture_frames \in Nat /\ capture_frames >= 1
         /\ capture_mode # "normal" => capture_frames >= 2
         /\ capture_frames_index \in 0 .. capture_frames
         /\ Sends(c, "check") /\ Last(c) => capture_frames_index = capture_frames
<1>1. /\ capture_frames \in Nat /\ capture_frames_index \in Nat /\ at[c] \in Nat
      /\ left[c] \in Int /\ phase[c] \in {"ask", "get", "set", "start", "check"}
      /\ pc[c] \in {"idle", "init", "stream", "capture", "first", "second",
                    "test", "off", "uninit", "finish"}
  BY DEF TypeOK, Frames
<1>2. /\ left[c] \in 1 .. Starts /\ capture_frames >= 1
      /\ capture_mode # "normal" => capture_frames >= 2
  BY DEF CountOf
<1>3. Half \in Nat /\ Half <= capture_frames
  BY <1>1, <1>2, HalfType, ~ capture_frames >= 2 => capture_frames = 1 DEF Half
<1>4. \A n \in 0 .. Starts : TakenAt(n) \in 0 .. capture_frames
  BY <1>1, <1>2, <1>3 DEF TakenAt, Starts
<1>5. Starts \in Nat
  BY <1>1 DEF Starts
<1>6. /\ TakenAt(left[c]) \in 0 .. capture_frames
      /\ TakenAt(left[c] - 1) \in 0 .. capture_frames
  BY <1>1, <1>2, <1>4, <1>5
<1>7. TakenAt(0) = capture_frames
  BY <1>1 DEF TakenAt
<1>8. capture_frames_index \in 0 .. capture_frames
  BY <1>1, <1>2, <1>3, <1>6 DEF CountOf, Captures, LoopEnd
<1>9. Sends(c, "check") /\ Last(c) => capture_frames_index = capture_frames
  BY <1>1, <1>7 DEF CountOf, Sends, Last
<1> QED
  BY <1>1, <1>2, <1>8, <1>9

(* A capture that no other overlaps and in which nothing is lost delivers   *)
(* each frame, or the average, as promised.                                 *)
THEOREM FramesDeliveredCorrect ==
  ASSUME Counted PROVE Spec => []FramesDelivered
<1>1. TypeOK /\ SessionIInv => FramesDelivered
  <2> SUFFICES ASSUME TypeOK, SessionIInv, ~ mixed, ~ lost,
                      NEW c \in Clients, Captures(c)
               PROVE  /\ got[c] = SubSeq(Promised, 1, Len(got[c]))
                      /\ pc[c] = "idle" /\ phase[c] = "check" /\ Last(c)
                           => got[c] = Promised
    BY DEF FramesDelivered, Captures
  <2>1. CountOf(c) /\ PlaceOf(c) /\ got[c] = SentAt(capture_frames_index)
    BY DEF SessionIInv, SessionInv, FrameInv, FrameOf
  <2> QED
    BY <2>1, IndexBound, SentIsPromised DEF Sends
<1> QED
  BY <1>1, SessionCorrect, TypeCorrect, PTL
-----------------------------------------------------------------------------
(* The pixels of an average.                                                *)

\* Multiplication by a natural number is monotonic.
LEMMA Monotonic ==
  ASSUME NEW a \in Nat, NEW x \in Int, NEW y \in Int, x <= y
  PROVE  a * x <= a * y
  OBVIOUS

\* Quotient and remainder of a number given by its two digits.
LEMMA Digits ==
  ASSUME NEW q \in Nat, NEW r \in 0 .. Byte - 1
  PROVE  (q * Byte + r) \div Byte = q /\ (q * Byte + r) % Byte = r
  BY WidthAssumption

\* The two digits of a pixel.
LEMMA DigitsOf ==
  ASSUME NEW v \in Pixels
  PROVE  /\ v \div Byte \in 0 .. Byte - 1
         /\ v % Byte \in 0 .. Byte - 1
         /\ v = (v \div Byte) * Byte + (v % Byte)
<1> DEFINE q == v \div Byte
           r == v % Byte
<1>1. q \in Nat /\ r \in 0 .. Byte - 1 /\ v = Byte * q + r
  BY WidthAssumption DEF Pixels, U16
<1> HIDE DEF q, r
<1>2. q < Byte
  <2>1. SUFFICES ASSUME q >= Byte PROVE FALSE
    BY WidthAssumption, <1>1
  <2>2. Byte * Byte <= Byte * q
    BY WidthAssumption, <1>1, <2>1, Monotonic
  <2> QED
    BY WidthAssumption, <1>1, <2>2 DEF Pixels, U16
<1>3. q \in 0 .. Byte - 1 /\ v = q * Byte + r
  BY WidthAssumption, <1>1, <1>2
<1> QED
  BY <1>1, <1>3 DEF q, r

\* U16 is a number that 256 times fits into 32 bits.
LEMMA Widths ==
  /\ U16 \in Nat /\ U16 > 0
         /\ U32 \in Nat /\ 256 * U16 <= U32
<1>1. Byte * Byte > 0
  BY WidthAssumption, Monotonic
<1> QED
  BY WidthAssumption, <1>1 DEF U16

\* The exchange undoes itself: a stored pixel is loaded as the sensor meant it.
LEMMA LoadedStored ==
  ASSUME NEW v \in Pixels
  PROVE  Loaded(Stored(v)) = v
<1> DEFINE q == v \div Byte
           r == v % Byte
<1>1. q \in 0 .. Byte - 1 /\ r \in 0 .. Byte - 1 /\ v = q * Byte + r
  BY DigitsOf
<1>2. (r * Byte + q) \div Byte = r /\ (r * Byte + q) % Byte = q
  BY <1>1, Digits
<1>3. Exchanged(v) = r * Byte + q
  BY DEF Exchanged
<1>4. Exchanged(Exchanged(v)) = q * Byte + r
  BY <1>2, <1>3 DEF Exchanged
<1> QED
  BY <1>1, <1>4 DEF Loaded, Stored
-----------------------------------------------------------------------------
\* Before the division averge_frame0 holds the sum, which is bounded by the
\* extremes; the division is the average.
PixelInv ==
  /\ PixelTypeOK
  /\ added * least <= total /\ total <= added * most
  /\ most <= U16 - 1
  /\ total <= added * (U16 - 1)
  /\ ~ done => pIn1_pOut = total
  /\ done => added = frameNumber
  /\ Averaged

\* Rounding to the nearest, of a sum that is below the width of the sum.
LEMMA Rounded ==
  ASSUME NEW u \in Nat, u > 0, NEW w \in Nat, 256 * u <= w,
         NEW n \in {2, 4, 8, 16, 32, 64, 128}, NEW t \in Nat, t <= n * (u - 1)
  PROVE  LET q == ((t + n \div 2) % w) \div n
         IN  /\ q = (2 * t + n) \div (2 * n)
             /\ q % u = q /\ q \in 0 .. u - 1 /\ q \in 0 .. w - 1
<1>1. CASE n = 2   BY <1>1
<1>2. CASE n = 4   BY <1>2
<1>3. CASE n = 8   BY <1>3
<1>4. CASE n = 16  BY <1>4
<1>5. CASE n = 32  BY <1>5
<1>6. CASE n = 64  BY <1>6
<1>7. CASE n = 128 BY <1>7
<1> QED
  BY <1>1, <1>2, <1>3, <1>4, <1>5, <1>6, <1>7

\* The shift is the division, and nothing wraps on the way.
LEMMA Division ==
  ASSUME NEW n \in Powers, NEW t \in Nat, t <= n * (U16 - 1)
  PROVE  LET q == ((t + n \div 2) % U32) \div n
         IN  /\ q = (2 * t + n) \div (2 * n)
             /\ q % U16 = q /\ q \in Pixels /\ q \in 0 .. U32 - 1
<1>1. /\ U16 \in Nat /\ U16 > 0 /\ U32 \in Nat /\ 256 * U16 <= U32
      /\ n \in {2, 4, 8, 16, 32, 64, 128}
  BY Widths DEF Powers
<1> QED
  BY <1>1, Rounded DEF Pixels

\* One more summand moves the bounds of a sum.
LEMMA OneMore ==
  ASSUME NEW a \in Nat, NEW t \in Nat, NEW v \in Nat,
         NEW l \in Nat, NEW m \in Nat, NEW k \in Nat, NEW h \in Nat,
         a * l <= t, t <= a * m, k <= l, k <= v, m <= h, v <= h
  PROVE  (a + 1) * k <= t + v /\ t + v <= (a + 1) * h
<1>1. a * k <= a * l /\ a * m <= a * h
  BY Monotonic
<1>2. (a + 1) * k = a * k + k /\ (a + 1) * h = a * h + h
  OBVIOUS
<1> QED
  BY <1>1, <1>2

LEMMA PixelInitially == PixelInit => PixelInv
<1> SUFFICES ASSUME PixelInit PROVE PixelInv
  OBVIOUS
<1>1. frameNumber \in FrameNumbers /\ frameNumber \in 1 .. 255
  BY FrameNumbersAssumption DEF PixelInit
<1>2. PixelTypeOK
  <2>1. U16 - 1 \in Nat /\ 0 \in 0 .. U32 - 1 /\ 0 \in Pixels
    BY Widths DEF Pixels
  <2>2. added \in 0 .. frameNumber /\ total \in Nat /\ least \in Nat /\ most \in Nat
    BY <1>1, <2>1 DEF PixelInit
  <2> QED
    BY <1>1, <2>1, <2>2, Zenon DEF PixelInit, PixelTypeOK
<1> QED
  BY <1>1, <1>2, Widths DEF PixelInit, PixelInv, PixelTypeOK, Averaged

LEMMA AdditionStep ==
  ASSUME PixelInv, NEW v \in Pixels, MultiFrameAddition(v)
  PROVE  PixelInv'
<1> DEFINE n == added + 1
<1>1. /\ frameNumber \in 1 .. 255 /\ added \in Nat /\ added < frameNumber
      /\ total \in Nat /\ least \in Nat /\ most \in Nat /\ v \in Nat /\ v <= U16 - 1
      /\ ~ done /\ pIn1_pOut = total
  BY FrameNumbersAssumption, Widths
  DEF PixelInv, PixelTypeOK, MultiFrameAddition, Pixels
<1>2. /\ total' = total + v /\ added' = n
      /\ least' \in Nat /\ least' <= least /\ least' <= v
      /\ most' \in Nat /\ most <= most' /\ v <= most' /\ most' <= U16 - 1
      /\ UNCHANGED <<frameNumber, POut, done>>
  BY <1>1, Widths DEF PixelInv, MultiFrameAddition
<1>3. n * least' <= total' /\ total' <= n * most'
  BY <1>1, <1>2, OneMore DEF PixelInv
<1>5. total' <= n * (U16 - 1)
  <2>1. n * (U16 - 1) = added * (U16 - 1) + (U16 - 1)
    BY <1>1, Widths
  <2> QED
    BY <1>1, <1>2, <2>1, Widths DEF PixelInv
<1>6. total' < U32
  <2>1. (U16 - 1) * n <= (U16 - 1) * 255
    BY <1>1, Monotonic, Widths
  <2> QED
    BY <1>1, <1>2, <1>5, <2>1, Widths
<1>7. pIn1_pOut' = total'
  BY <1>1, <1>2, <1>6, LoadedStored, Widths DEF MultiFrameAddition
<1>8. PixelTypeOK'
  BY <1>1, <1>2, <1>6, <1>7, Widths DEF PixelInv, PixelTypeOK
<1> QED
  BY <1>1, <1>2, <1>3, <1>5, <1>7, <1>8 DEF PixelInv, Averaged

LEMMA AverageStep ==
  ASSUME PixelInv, MultiFrameAverage
  PROVE  PixelInv'
<1>1. /\ added = frameNumber /\ pIn1_pOut = total /\ done'
      /\ total \in Nat /\ frameNumber \in Nat
      /\ UNCHANGED <<frameNumber, added, total, least, most>>
  BY FrameNumbersAssumption DEF PixelInv, PixelTypeOK, MultiFrameAverage
<1>2. CASE frameNumber \in Powers
  <2> DEFINE q == ((total + frameNumber \div 2) % U32) \div frameNumber
  <2>1. /\ q = (2 * total + frameNumber) \div (2 * frameNumber)
        /\ q % U16 = q /\ q \in Pixels /\ q \in 0 .. U32 - 1
    BY <1>1, <1>2, Division DEF PixelInv
  <2>2. pIn1_pOut' = q /\ POut' = q
    BY <1>1, <1>2, <2>1 DEF MultiFrameAverage, RoundOffset
  <2> HIDE DEF q
  <2>3. PixelTypeOK'
    BY <1>1, <2>1, <2>2 DEF PixelInv, PixelTypeOK
  <2>4. Averaged'
    BY <1>1, <2>1, <2>2 DEF Averaged, Average
  <2> QED
    BY <1>1, <2>3, <2>4 DEF PixelInv
<1>3. CASE frameNumber \notin Powers
  <2>1. UNCHANGED <<pIn1_pOut, POut>>
    BY <1>3 DEF MultiFrameAverage
  <2> QED
    BY <1>1, <1>3, <2>1 DEF PixelInv, PixelTypeOK, Averaged
<1> QED
  BY <1>2, <1>3

LEMMA PixelInductive == PixelInv /\ [PixelNext]_pixelVars => PixelInv'
<1> SUFFICES ASSUME PixelInv, [PixelNext]_pixelVars PROVE PixelInv'
  OBVIOUS
<1>1. CASE MultiFrameAverage
  BY <1>1, AverageStep
<1>2. ASSUME NEW v \in Pixels, MultiFrameAddition(v) PROVE PixelInv'
  BY <1>2, AdditionStep
<1>3. CASE UNCHANGED pixelVars
  BY <1>3 DEF pixelVars, PixelInv, PixelTypeOK, Averaged, Average
<1> QED
  BY <1>1, <1>2, <1>3 DEF PixelNext

LEMMA PixelInvariance == PixelSpec => []PixelInv
  BY PixelInitially, PixelInductive, PTL DEF PixelSpec
-----------------------------------------------------------------------------
\* The averaging buffers hold numbers of their widths throughout.
THEOREM PixelTypeCorrect == PixelSpec => []PixelTypeOK
<1>1. PixelInv => PixelTypeOK
  BY DEF PixelInv
<1> QED
  BY <1>1, PixelInvariance, PTL

\* The pixel sent is the nearest integer to the average of the pixel's values.
THEOREM AverageIsCorrect == PixelSpec => []Averaged
<1>1. PixelInv => Averaged
  BY DEF PixelInv
<1> QED
  BY <1>1, PixelInvariance, PTL

\* A sum of n numbers between l and m, divided by n and rounded, is between them.
LEMMA Between ==
  ASSUME NEW n \in Powers, NEW t \in Nat, NEW l \in Nat, NEW m \in Nat,
         n * l <= t, t <= n * m
  PROVE  l <= (2 * t + n) \div (2 * n) /\ (2 * t + n) \div (2 * n) <= m
<1>1. CASE n = 2   BY <1>1
<1>2. CASE n = 4   BY <1>2
<1>3. CASE n = 8   BY <1>3
<1>4. CASE n = 16  BY <1>4
<1>5. CASE n = 32  BY <1>5
<1>6. CASE n = 64  BY <1>6
<1>7. CASE n = 128 BY <1>7
<1> QED
  BY <1>1, <1>2, <1>3, <1>4, <1>5, <1>6, <1>7 DEF Powers

\* The pixel sent lies between the least and the greatest of its values.
THEOREM AverageIsWithin == PixelSpec => []WithinFrames
<1>1. PixelInv => WithinFrames
  <2> SUFFICES ASSUME PixelInv, done, frameNumber \in Powers
               PROVE  least <= POut /\ POut <= most
    BY DEF WithinFrames
  <2>1. POut = (2 * total + frameNumber) \div (2 * frameNumber)
    BY DEF PixelInv, Averaged, Average
  <2>2. frameNumber * least <= total /\ total <= frameNumber * most
    BY DEF PixelInv
  <2> QED
    BY <2>1, <2>2, Between DEF PixelInv, PixelTypeOK
<1> QED
  BY <1>1, PixelInvariance, PTL
=============================================================================
