------------------------- MODULE OnlineCaptureProofs -------------------------
(***************************************************************************)
(* What is proved about OnlineCapture for any number of PCs, requests and  *)
(* frames: type correctness, that BUSY is never left behind, that a YUV    *)
(* capture which failed after it got its buffers ends YUV capture for      *)
(* good, which files and queues stay behind, and that a capture nobody     *)
(* disturbs is in order, and complete when no call of its own failed.      *)
(***************************************************************************)
EXTENDS OnlineCapture, SequenceTheorems, TLAPS

(* Where DoCaptureYuv has its descriptor, and where the node's queue is    *)
(* its.                                                                    *)
HasFd == YuvLabels \ {"open"}
HasQueue == HasFd \ {"format"}

(* Between init_device and the end of uninit_device, and where the stream  *)
(* is on.                                                                  *)
HasDev == RawLabels \ {"init"}

(* Descriptors are numbers of open() calls: no two handlers have the same, *)
(* and a handler that has one left given_up alone, unless it is about to   *)
(* return.                                                                 *)
FdInv ==
  \A c \in Clients :
    /\ pc[c] \in HasFd => fd[c] # 0 /\ fd[c] \notin given_up
    /\ pc[c] \notin HasFd \cup {"ready"} => fd[c] = 0
    /\ \A d \in Clients : c # d /\ fd[c] # 0 => fd[d] # fd[c]

(* Whose the queue of the YUV node is.                                     *)
QueueInv ==
  /\ \A c \in Clients : pc[c] \in HasQueue => yuv_queue = fd[c]
  /\ yuv_queue \in {0} \cup given_up
       \/ \E c \in Clients : pc[c] \in HasQueue /\ yuv_queue = fd[c]

YuvInv == TypeOK /\ FdInv /\ QueueInv
-----------------------------------------------------------------------------
(* No capture has begun, and every descriptor is 0.                        *)
LEMMA TypeInit == Init => TypeOK
<1> SUFFICES ASSUME Init PROVE TypeOK
  OBVIOUS
<1> USE DEF Init
<1>1. /\ pc \in [Clients -> {"idle", "params", "ready"} \cup YuvLabels \cup RawLabels]
      /\ fd \in [Clients -> 0 .. opens] /\ read \in [Clients -> Nat]
  OBVIOUS
<1>2. sent \in [Clients -> Seq(Nat)] /\ alone \in [Clients -> BOOLEAN]
  OBVIOUS
<1>3. requests \in 0 .. MaxRequests /\ stops \in 0 .. MaxStops
  BY BoundsAssumption
<1>4. /\ dev_fd \in 0 .. opens /\ buffers \in 0 .. opens /\ yuv_queue \in 0 .. opens
      /\ raw_queue \in 0 .. opens /\ opens \in Nat /\ capture_frames_index \in Nat
  OBVIOUS
<1>5. /\ opened \in SUBSET (1 .. opens) /\ mapped \in SUBSET (1 .. opens)
      /\ given_up \in SUBSET (1 .. opens) /\ forgotten \in SUBSET (1 .. opens)
  OBVIOUS
<1>6. /\ capture_status \in {"READY", "BUSY"} /\ capture_frames \in Counts \cup {1}
      /\ camera \in {"on", "off"} /\ last \in Clients \cup {"none"}
      /\ refused \in SUBSET Clients /\ io \in {"read", "mmap"}
      /\ mixed \in BOOLEAN /\ alive \in BOOLEAN
  OBVIOUS
<1> QED
  BY <1>1, <1>2, <1>3, <1>4, <1>5, <1>6 DEF TypeOK

(* The numbers of open() calls after one more.                             *)
LEMMA MoreOpens ==
  ASSUME NEW n \in Nat
  PROVE  /\ n + 1 \in Nat /\ n + 1 \in 1 .. n + 1 /\ 0 .. n \subseteq 0 .. n + 1
         /\ 0 \in 0 .. n + 1
         /\ \A S \in SUBSET (1 .. n) : S \in SUBSET (1 .. n + 1)
                                     /\ S \cup {n + 1} \in SUBSET (1 .. n + 1)
  OBVIOUS

(* What a capture that fails leaves behind is a descriptor.                *)
LEMMA GivenUpType ==
  ASSUME TypeOK, FdInv, NEW c \in Clients, pc[c] \in HasFd,
         given_up' = given_up \/ given_up' = given_up \cup {fd[c]}
  PROVE  given_up' \in SUBSET (1 .. opens)
<1>1. fd[c] \in 0 .. opens /\ opens \in Nat /\ given_up \in SUBSET (1 .. opens)
  BY DEF TypeOK
<1>2. fd[c] # 0
  BY DEF FdInv
<1>3. fd[c] \in 1 .. opens
  BY <1>1, <1>2
<1>4. CASE given_up' = given_up
  BY <1>1, <1>4
<1>5. CASE given_up' = given_up \cup {fd[c]}
  BY <1>1, <1>3, <1>5
<1> QED
  BY <1>4, <1>5

(* Every step keeps the types.                                             *)
LEMMA TypeStep == TypeOK /\ FdInv /\ [Next]_vars => TypeOK'
<1> SUFFICES ASSUME TypeOK, FdInv, [Next]_vars PROVE TypeOK'
  OBVIOUS
<1> USE CountsAssumption, BoundsAssumption
    DEF TypeOK, YuvLabels, RawLabels, conf, dev, queues, cam, mine, hist, left,
        Goto, Refuses
<1>1. ASSUME NEW c \in Clients, GetParam(c) PROVE TypeOK'
  <2>1. forgotten' \in SUBSET (1 .. opens)
    BY <1>1 DEF GetParam
  <2>2. pc' \in [Clients -> {"idle", "params", "ready"} \cup YuvLabels \cup RawLabels]
    BY <1>1 DEF GetParam
  <2>3. dev_fd' \in 0 .. opens /\ io' \in {"read", "mmap"} /\ alone' \in [Clients -> BOOLEAN]
    BY <1>1 DEF GetParam
  <2> QED
    BY <1>1, <2>1, <2>2, <2>3 DEF GetParam, Request
<1>2. ASSUME NEW c \in Clients, SetParam(c) PROVE TypeOK'
  BY <1>2 DEF SetParam, Request, Quiet
<1>3. ASSUME NEW c \in Clients, NEW l \in {"open", "init"}, Start(c, l) PROVE TypeOK'
  <2>1. pc' \in [Clients -> {"idle", "params", "ready"} \cup YuvLabels \cup RawLabels]
    BY <1>3 DEF Start
  <2>2. alone' \in [Clients -> BOOLEAN]
    BY <1>3 DEF Start
  <2>3. requests' \in 0 .. MaxRequests
    BY <1>3 DEF Start, Request
  <2>4. mixed' \in BOOLEAN
    BY <1>3, Zenon DEF Start
  <2>5. capture_status' = "BUSY" /\ last' = "none"
    BY <1>3 DEF Start
  <2>6. UNCHANGED <<conf, dev, queues, cam, mine, refused, left, alive>>
    BY <1>3 DEF Start
  <2> QED
    BY <2>1, <2>2, <2>3, <2>4, <2>5, <2>6
<1>4. ASSUME NEW c \in Clients, Ready(c) PROVE TypeOK'
  <2>1. refused' \in SUBSET Clients /\ capture_status' = "READY"
    BY <1>4 DEF Ready, Returned
  <2>2. /\ pc' \in [Clients -> {"idle", "params", "ready"} \cup YuvLabels \cup RawLabels]
        /\ fd' \in [Clients -> 0 .. opens]
    BY <1>4 DEF Ready, Returned
  <2>3. sent' \in [Clients -> Seq(Nat)]
    BY <1>4 DEF Ready, Returned
  <2> QED
    BY <1>4, <2>1, <2>2, <2>3 DEF Ready, Returned
<1>10. ASSUME NEW c \in Clients, GetParamEnds(c) PROVE TypeOK'
  <2>1. opened' \in SUBSET (1 .. opens)
    BY <1>10, Zenon DEF GetParamEnds
  <2>2. raw_queue' \in 0 .. opens /\ dev_fd' \in 0 .. opens
    BY <1>10 DEF GetParamEnds
  <2>3. pc' \in [Clients -> {"idle", "params", "ready"} \cup YuvLabels \cup RawLabels]
    BY <1>10 DEF GetParamEnds
  <2> QED
    BY <1>10, <2>1, <2>2, <2>3 DEF GetParamEnds
<1>5. ASSUME NEW c \in Clients, DoCaptureYuv(c) PROVE TypeOK'
  <2>1. CASE YuvOpen(c)
    <3>1. pc' \in [Clients -> {"idle", "params", "ready"} \cup YuvLabels \cup RawLabels]
      BY <2>1 DEF YuvOpen
    <3>2. CASE opens' = opens + 1 /\ opened' = opened \cup {opens'} /\ refused' = refused
               /\ fd' = [fd EXCEPT ![c] = opens']
      BY <2>1, <3>1, <3>2, MoreOpens DEF YuvOpen
    <3>3. CASE UNCHANGED <<opens, opened, fd>> /\ Refuses(c)
      BY <2>1, <3>1, <3>3 DEF YuvOpen
    <3> QED
      BY <2>1, <3>2, <3>3 DEF YuvOpen
  <2>2. CASE YuvFormat(c)
    <3>5. refused' \in SUBSET Clients
      BY <2>2 DEF YuvFormat, GiveUp
    <3>1. pc[c] \in HasFd
      BY <2>2 DEF YuvFormat, HasFd
    <3>2. given_up' \in SUBSET (1 .. opens)
      <4>1. given_up' = given_up \/ given_up' = given_up \cup {fd[c]}
        BY <2>2, Zenon DEF YuvFormat, GiveUp
      <4> QED
        BY <3>1, <4>1, GivenUpType
    <3>4. yuv_queue' \in 0 .. opens
      BY <2>2, <3>1 DEF YuvFormat
    <3>3. pc' \in [Clients -> {"idle", "params", "ready"} \cup YuvLabels \cup RawLabels]
      BY <2>2 DEF YuvFormat, GiveUp
    <3> QED
      BY <2>2, <3>2, <3>3, <3>4, <3>5 DEF YuvFormat
  <2>3. CASE YuvSelect(c)
    <3>5. refused' \in SUBSET Clients
      BY <2>3 DEF YuvSelect, GiveUp
    <3>1. pc[c] \in HasFd
      BY <2>3 DEF YuvSelect, HasFd
    <3>2. given_up' \in SUBSET (1 .. opens)
      <4>1. given_up' = given_up \/ given_up' = given_up \cup {fd[c]}
        BY <2>3, Zenon DEF YuvSelect, GiveUp
      <4> QED
        BY <3>1, <4>1, GivenUpType
    <3>3. pc' \in [Clients -> {"idle", "params", "ready"} \cup YuvLabels \cup RawLabels]
      BY <2>3 DEF YuvSelect, GiveUp
    <3> QED
      BY <2>3, <3>2, <3>3, <3>5 DEF YuvSelect
  <2>4. CASE YuvTest(c)
    BY <2>4 DEF YuvTest, Test
  <2>5. CASE YuvFrame(c)
    BY <2>5 DEF YuvFrame, Sends
  <2>6. CASE YuvLoad(c)
    BY <2>6 DEF YuvLoad, Load
  <2>7. CASE YuvStore(c)
    BY <2>7 DEF YuvStore, Store
  <2>8. CASE YuvClose(c)
    <3>1. opened' \in SUBSET (1 .. opens)
      BY <2>8 DEF YuvClose
    <3>2. yuv_queue' \in 0 .. opens
      BY <2>8 DEF YuvClose
    <3> QED
      BY <2>8, <3>1, <3>2 DEF YuvClose
  <2> QED
    BY <1>5, <2>1, <2>2, <2>3, <2>4, <2>5, <2>6, <2>7, <2>8 DEF DoCaptureYuv
<1>6. ASSUME NEW c \in Clients, DoCaptureOnlineRaw(c) PROVE TypeOK'
  <2>1. CASE RawInit(c)
    <3>1. pc' \in [Clients -> {"idle", "params", "ready"} \cup YuvLabels \cup RawLabels]
      BY <2>1 DEF RawInit
    <3>2. /\ opens' = opens + 1 /\ dev_fd' \in {0, opens'} /\ buffers' \in {buffers, opens'}
          /\ opened' = opened \/ opened' = opened \cup {opens'}
          /\ mapped' = mapped \/ mapped' = mapped \cup {opens'}
      BY <2>1 DEF RawInit
    <3>3. refused' \in SUBSET Clients
      BY <2>1 DEF RawInit
    <3>4. /\ dev_fd' \in 0 .. opens' /\ buffers' \in 0 .. opens' /\ opens' \in Nat
          /\ opened' \in SUBSET (1 .. opens') /\ mapped' \in SUBSET (1 .. opens')
      <4>1. /\ opens \in Nat /\ opened \in SUBSET (1 .. opens)
            /\ mapped \in SUBSET (1 .. opens) /\ buffers \in 0 .. opens
        OBVIOUS
      <4>2. dev_fd' \in 0 .. opens' /\ buffers' \in 0 .. opens' /\ opens' \in Nat
        BY <3>2, <4>1
      <4>3. opened' \in SUBSET (1 .. opens')
        BY <3>2, <4>1, MoreOpens
      <4>4. mapped' \in SUBSET (1 .. opens')
        BY <3>2, <4>1, MoreOpens
      <4> QED
        BY <4>2, <4>3, <4>4
    <3>5. /\ yuv_queue \in 0 .. opens' /\ raw_queue \in 0 .. opens'
          /\ given_up \in SUBSET (1 .. opens') /\ forgotten \in SUBSET (1 .. opens')
          /\ fd \in [Clients -> 0 .. opens']
      BY <3>2, MoreOpens
    <3> QED
      BY <2>1, <3>1, <3>3, <3>4, <3>5 DEF RawInit
  <2>2. CASE RawStream(c)
    BY <2>2 DEF RawStream
  <2>3. CASE RawSkip(c)
    BY <2>3 DEF RawSkip
  <2>4. CASE RawTest(c)
    BY <2>4 DEF RawTest, Test
  <2>5. CASE RawFrame(c)
    <3>1. Append(sent[c], capture_frames_index) \in Seq(Nat)
      <4>1. sent[c] \in Seq(Nat) /\ capture_frames_index \in Nat
        OBVIOUS
      <4> QED
        BY <4>1
    <3>2. sent' = sent \/ Sends(c)
      BY <2>5 DEF RawFrame
    <3>3. sent' \in [Clients -> Seq(Nat)]
      BY <3>1, <3>2 DEF Sends
    <3>4. refused' \in SUBSET Clients
      BY <2>5 DEF RawFrame
    <3> QED
      BY <2>5, <3>3, <3>4 DEF RawFrame
  <2>6. CASE RawLoad(c)
    BY <2>6 DEF RawLoad, Load
  <2>7. CASE RawStore(c)
    BY <2>7 DEF RawStore, Store
  <2>8. CASE RawStop(c)
    BY <2>8 DEF RawStop
  <2>9. CASE RawUninit(c)
    <3>1. opened' \in SUBSET (1 .. opens)
      BY <2>9 DEF RawUninit
    <3>5. mapped' \in SUBSET (1 .. opens)
      BY <2>9 DEF RawUninit
    <3>2. raw_queue' \in 0 .. opens /\ dev_fd' \in 0 .. opens
      BY <2>9 DEF RawUninit
    <3>3. pc' \in [Clients -> {"idle", "params", "ready"} \cup YuvLabels \cup RawLabels]
      BY <2>9 DEF RawUninit
    <3> QED
      BY <2>9, <3>1, <3>2, <3>3, <3>5 DEF RawUninit
  <2>10. CASE RawDies(c)
    BY <2>10 DEF RawDies
  <2> QED
    BY <1>6, <2>1, <2>2, <2>3, <2>4, <2>5, <2>6, <2>7, <2>8, <2>9, <2>10
    DEF DoCaptureOnlineRaw
<1>7. CASE CameraStops
  BY <1>7 DEF CameraStops
<1>8. CASE CameraResumes
  BY <1>8 DEF CameraResumes
<1>9. CASE UNCHANGED vars
  BY <1>9 DEF vars
<1> QED
  BY <1>1, <1>2, <1>3, <1>4, <1>5, <1>6, <1>7, <1>8, <1>9, <1>10
  DEF Next, HandlerOnLineMessage, Handler

-----------------------------------------------------------------------------
(* The YUV node's queue is nobody's at first.                              *)
LEMMA YuvInit == Init => YuvInv
<1>1. Init => FdInv /\ QueueInv
  BY DEF Init, FdInv, QueueInv, HasQueue, HasFd, YuvLabels
<1> QED
  BY <1>1, TypeInit DEF YuvInv

(* Only the steps of DoCaptureYuv and the return touch what YuvInv is      *)
(* about: the others move between labels without a YUV descriptor.         *)
LEMMA YuvOthers ==
  ASSUME TypeOK, FdInv, QueueInv, NEW c \in Clients,
         \/ pc' = pc
         \/ /\ pc[c] \notin HasFd \cup {"ready"}
            /\ \E l \in {"ready", "open", "idle", "params"} \cup RawLabels :
                 pc' = [pc EXCEPT ![c] = l],
         UNCHANGED <<fd, given_up, yuv_queue>>
  PROVE  FdInv' /\ QueueInv'
<1> USE DEF TypeOK, HasQueue, HasFd, YuvLabels, RawLabels
<1>1. FdInv'
  BY DEF FdInv
<1>2. \A d \in Clients : pc'[d] \in HasQueue <=> pc[d] \in HasQueue
  OBVIOUS
<1>3. QueueInv'
  BY <1>2 DEF QueueInv
<1> QED
  BY <1>1, <1>3

(* FdInv after a step of one handler.                                      *)
LEMMA FdChanges ==
  ASSUME FdInv, NEW c \in Clients,
         \A d \in Clients \ {c} :
           /\ pc'[d] = pc[d] /\ fd'[d] = fd[d]
           /\ fd[d] # 0 => fd'[c] # fd[d]
           /\ fd[d] \in given_up' => fd[d] \in given_up \/ fd[d] = 0,
         pc'[c] \in HasFd => fd'[c] # 0 /\ fd'[c] \notin given_up',
         pc'[c] \notin HasFd \cup {"ready"} => fd'[c] = 0
  PROVE  FdInv'
  BY DEF FdInv

(* Every step keeps what is known of the YUV node's descriptors and queue. *)
LEMMA YuvStep == YuvInv /\ [Next]_vars => YuvInv'
<1> SUFFICES ASSUME YuvInv, [Next]_vars PROVE FdInv' /\ QueueInv'
  BY TypeStep DEF YuvInv
<1> USE DEF YuvInv
<1>t. TypeOK /\ TypeOK'
  BY TypeStep
<1> DEFINE Same == UNCHANGED <<fd, given_up, yuv_queue>>
<1>1. ASSUME NEW c \in Clients,
             \/ GetParam(c) \/ SetParam(c) \/ Start(c, "open") \/ Start(c, "init")
             \/ GetParamEnds(c)
      PROVE  FdInv' /\ QueueInv'
  <2>1. Same /\ (pc' = pc \/ (pc[c] \in {"idle", "params"}
          /\ \E l \in {"open", "init", "params", "idle"} : pc' = [pc EXCEPT ![c] = l]))
    BY <1>1 DEF GetParam, GetParamEnds, SetParam, Start, Request, Goto, queues, mine,
                hist, left
  <2> QED
    BY <2>1, YuvOthers DEF HasFd, YuvLabels, RawLabels
<1>2. ASSUME NEW c \in Clients, Ready(c) PROVE FdInv' /\ QueueInv'
  <2>1. /\ pc[c] = "ready" /\ pc' = [pc EXCEPT ![c] = "idle"]
        /\ fd' = [fd EXCEPT ![c] = 0] /\ UNCHANGED <<given_up, yuv_queue>>
    BY <1>2 DEF Ready, Returned, Goto, queues, left
  <2>2. FdInv'
    <3>1. pc'[c] = "idle" /\ fd'[c] = 0
      BY <1>t, <2>1 DEF TypeOK
    <3>2. \A d \in Clients \ {c} : pc'[d] = pc[d] /\ fd'[d] = fd[d]
      BY <1>t, <2>1 DEF TypeOK
    <3>3. pc'[c] \notin HasFd
      BY <3>1 DEF HasFd, YuvLabels
    <3> QED
      BY <2>1, <3>1, <3>2, <3>3, FdChanges
  <2>3. \A d \in Clients : pc'[d] \in HasQueue <=> pc[d] \in HasQueue /\ d # c
    BY <1>t, <2>1 DEF TypeOK, HasQueue, HasFd, YuvLabels
  <2>4. \A d \in Clients : pc[d] \in HasQueue => d # c /\ fd'[d] = fd[d]
    BY <1>t, <2>1 DEF TypeOK, HasQueue, HasFd, YuvLabels
  <2>5. QueueInv'
    BY <2>1, <2>3, <2>4 DEF QueueInv
  <2> QED
    BY <2>2, <2>5
<1>3. ASSUME NEW c \in Clients, DoCaptureOnlineRaw(c) PROVE FdInv' /\ QueueInv'
  <2>1. /\ Same /\ pc[c] \in RawLabels
        /\ pc' = pc \/ \E l \in {"ready"} \cup RawLabels : pc' = [pc EXCEPT ![c] = l]
    BY <1>3
    DEF DoCaptureOnlineRaw, RawInit, RawStream, RawSkip, RawTest, RawFrame,
                RawLoad, RawStore, RawStop, RawUninit, RawDies, Test, Load, Store,
                Goto, queues, mine, hist, left, RawLabels
  <2>2. pc[c] \notin HasFd \cup {"ready"}
    BY <2>1 DEF HasFd, YuvLabels, RawLabels
  <2>3. pc' = pc \/ \E l \in {"ready", "open", "idle", "params"} \cup RawLabels :
                      pc' = [pc EXCEPT ![c] = l]
    BY <2>1
  <2> QED
    BY <1>t, <2>1, <2>2, <2>3, YuvOthers
<1>12. ASSUME NEW c \in Clients, pc[c] = "open", Same,
              pc' = [pc EXCEPT ![c] = "ready"]
       PROVE  FdInv' /\ QueueInv'
  BY <1>t, <1>12, YuvOthers DEF HasFd, YuvLabels
<1>4. ASSUME NEW c \in Clients, YuvOpen(c), Goto(c, "format"),
             fd' = [fd EXCEPT ![c] = opens + 1]
      PROVE  FdInv' /\ QueueInv'
  <2>1. /\ pc[c] = "open" /\ pc' = [pc EXCEPT ![c] = "format"]
        /\ fd' = [fd EXCEPT ![c] = opens + 1] /\ UNCHANGED <<given_up, yuv_queue>>
    BY <1>4 DEF YuvOpen, Goto, queues, left
  <2>2. \A d \in Clients : fd[d] \in 0 .. opens
    BY <1>t DEF TypeOK
  <2>3. FdInv'
    <3>1. pc'[c] = "format" /\ fd'[c] = opens + 1
      BY <1>t, <2>1 DEF TypeOK
    <3>2. \A d \in Clients \ {c} : pc'[d] = pc[d] /\ fd'[d] = fd[d]
      BY <1>t, <2>1 DEF TypeOK
    <3>3. opens + 1 # 0 /\ opens + 1 \notin given_up
      <4>1. opens \in Nat /\ given_up \in SUBSET (1 .. opens)
        BY <1>t DEF TypeOK
      <4> QED
        BY <4>1
    <3>4. \A d \in Clients : fd[d] # opens + 1
      BY <1>t, <2>2 DEF TypeOK
    <3>5. pc'[c] \in HasFd
      BY <3>1 DEF HasFd, YuvLabels
    <3> QED
      BY <2>1, <3>1, <3>2, <3>3, <3>4, <3>5, FdChanges
  <2>4. \A d \in Clients : pc'[d] \in HasQueue <=> pc[d] \in HasQueue
    BY <1>t, <2>1 DEF TypeOK, HasQueue, HasFd, YuvLabels
  <2>5. \A d \in Clients : pc[d] \in HasQueue => fd'[d] = fd[d]
    BY <1>t, <2>1 DEF TypeOK, HasQueue, HasFd, YuvLabels
  <2>6. QueueInv'
    BY <2>1, <2>4, <2>5 DEF QueueInv
  <2> QED
    BY <2>3, <2>6
<1>5. ASSUME NEW c \in Clients, GiveUp(c), pc[c] \in {"format", "select"}, fd' = fd,
             \/ yuv_queue' = yuv_queue
             \/ yuv_queue = 0 /\ yuv_queue' = fd[c]
      PROVE  FdInv' /\ QueueInv'
  <2>1. /\ pc' = [pc EXCEPT ![c] = "ready"]
        /\ given_up' = given_up \cup {fd[c]}
    BY <1>5 DEF GiveUp, Goto
  <2>2. fd[c] # 0 /\ \A d \in Clients : d # c => fd[d] # fd[c]
    BY <1>5 DEF FdInv, HasFd, YuvLabels
  <2>3. FdInv'
    <3>1. pc'[c] = "ready"
      BY <1>t, <2>1 DEF TypeOK
    <3>2. \A d \in Clients \ {c} : pc'[d] = pc[d]
      BY <1>t, <2>1 DEF TypeOK
    <3>3. pc'[c] \notin HasFd
      BY <3>1 DEF HasFd, YuvLabels
    <3> QED
      BY <1>5, <2>1, <2>2, <3>1, <3>2, <3>3, FdChanges
  <2>4. \A d \in Clients : pc'[d] \in HasQueue <=> pc[d] \in HasQueue /\ d # c
    BY <1>t, <2>1 DEF TypeOK, HasQueue, HasFd, YuvLabels
  <2>5. yuv_queue' = yuv_queue \/ \A d \in Clients : pc[d] \notin HasQueue
    BY <1>5 DEF QueueInv, FdInv, HasQueue
  <2>6. QueueInv'
    BY <1>5, <2>1, <2>2, <2>4, <2>5 DEF QueueInv
  <2> QED
    BY <2>3, <2>6
<1>6. ASSUME NEW c \in Clients, YuvFormat(c) PROVE FdInv' /\ QueueInv'
  <2>1. pc[c] = "format" /\ fd' = fd
    BY <1>6 DEF YuvFormat, mine
  <2>2. CASE yuv_queue = 0 /\ yuv_queue' = fd[c] /\ Goto(c, "select")
             /\ given_up' = given_up
    <3>1. FdInv'
      <4>1. pc'[c] = "select" /\ \A d \in Clients \ {c} : pc'[d] = pc[d]
        BY <1>t, <2>2 DEF Goto, TypeOK
      <4>2. pc'[c] \in HasFd /\ pc[c] \in HasFd
        BY <2>1, <4>1 DEF HasFd, YuvLabels
      <4>3. fd[c] # 0 /\ fd[c] \notin given_up
        BY <4>2 DEF FdInv
      <4>4. \A d \in Clients \ {c} : fd[c] # fd[d]
        BY <4>3 DEF FdInv
      <4> QED
        BY <2>1, <2>2, <4>1, <4>2, <4>3, <4>4, FdChanges
    <3>2. \A d \in Clients : pc[d] \notin HasQueue
      BY <2>2 DEF QueueInv, FdInv, HasQueue
    <3>3. pc' = [pc EXCEPT ![c] = "select"]
      BY <2>2 DEF Goto
    <3>4. \A d \in Clients : pc'[d] \in HasQueue <=> d = c
      BY <1>t, <3>2, <3>3 DEF TypeOK, HasQueue, HasFd, YuvLabels
    <3>5. QueueInv'
      BY <2>1, <2>2, <3>4 DEF QueueInv
    <3> QED
      BY <3>1, <3>5
  <2>3. CASE GiveUp(c)
    BY <1>5, <1>6, <2>1, <2>3 DEF YuvFormat, Goto
  <2> QED
    BY <1>6, <2>2, <2>3 DEF YuvFormat
<1>7. ASSUME NEW c \in Clients,
             \/ YuvSelect(c) /\ camera = "on"
             \/ YuvTest(c) \/ YuvFrame(c) \/ YuvLoad(c) \/ YuvStore(c)
      PROVE  FdInv' /\ QueueInv'
  <2>1. /\ Same /\ pc[c] \in HasQueue
        /\ \E l \in HasQueue : pc' = [pc EXCEPT ![c] = l]
    BY <1>7
    DEF YuvSelect, YuvTest, YuvFrame, YuvLoad, YuvStore, Test, Load, Store,
                Goto, queues, mine, hist, left, HasQueue, HasFd, YuvLabels
  <2>2. \A d \in Clients : pc'[d] \in HasQueue <=> pc[d] \in HasQueue
    BY <1>t, <2>1 DEF TypeOK
  <2>3. \A d \in Clients : d # c => pc'[d] = pc[d]
    BY <1>t, <2>1 DEF TypeOK
  <2>4. FdInv'
    BY <1>t, <2>1, <2>2, <2>3 DEF FdInv, HasQueue, HasFd, YuvLabels
  <2>5. QueueInv'
    BY <2>1, <2>2 DEF QueueInv
  <2> QED
    BY <2>4, <2>5
<1>8. ASSUME NEW c \in Clients, YuvSelect(c), camera # "on"
      PROVE  FdInv' /\ QueueInv'
  BY <1>5, <1>8 DEF YuvSelect, mine, queues
<1>9. ASSUME NEW c \in Clients, YuvClose(c) PROVE FdInv' /\ QueueInv'
  <2>1. /\ pc[c] = "close" /\ pc' = [pc EXCEPT ![c] = "ready"]
        /\ UNCHANGED <<fd, given_up>>
        /\ yuv_queue' = IF yuv_queue = fd[c] THEN 0 ELSE yuv_queue
    BY <1>9 DEF YuvClose, Goto, mine, hist, left
  <2>2. yuv_queue' = 0
    BY <2>1 DEF QueueInv, HasQueue, HasFd, YuvLabels
  <2>3. FdInv'
    <3>1. pc'[c] = "ready" /\ \A d \in Clients \ {c} : pc'[d] = pc[d]
      BY <1>t, <2>1 DEF TypeOK
    <3>2. pc'[c] \notin HasFd
      BY <3>1 DEF HasFd, YuvLabels
    <3>3. fd[c] # 0 /\ \A d \in Clients \ {c} : fd[c] # fd[d]
      BY <2>1 DEF FdInv, HasFd, YuvLabels
    <3> QED
      BY <2>1, <3>1, <3>2, <3>3, FdChanges
  <2>4. \A d \in Clients : pc'[d] \notin HasQueue
    <3> SUFFICES ASSUME NEW d \in Clients, d # c, pc[d] \in HasQueue PROVE FALSE
      BY <1>t, <2>1 DEF TypeOK, HasQueue, HasFd, YuvLabels
    <3>1. fd[d] = fd[c] /\ fd[c] # 0
      BY <2>1 DEF QueueInv, FdInv, HasQueue, HasFd, YuvLabels
    <3> QED
      BY <3>1 DEF FdInv
  <2>5. QueueInv'
    BY <2>2, <2>4 DEF QueueInv
  <2> QED
    BY <2>3, <2>5
<1>10. CASE CameraStops \/ CameraResumes
  <2>1. UNCHANGED <<pc, fd, given_up, yuv_queue>>
    BY <1>10 DEF CameraStops, CameraResumes, mine, hist, left, queues
  <2> QED
    BY <2>1 DEF FdInv, QueueInv
<1>11. CASE UNCHANGED vars
  <2>1. UNCHANGED <<pc, fd, given_up, yuv_queue>>
    BY <1>11 DEF vars, mine, hist, left, queues
  <2> QED
    BY <2>1 DEF FdInv, QueueInv
<1>13. ASSUME NEW c \in Clients, YuvOpen(c) PROVE FdInv' /\ QueueInv'
  <2>1. \/ Goto(c, "format") /\ fd' = [fd EXCEPT ![c] = opens + 1]
        \/ pc[c] = "open" /\ Same /\ pc' = [pc EXCEPT ![c] = "ready"]
    BY <1>13 DEF YuvOpen, Goto, queues, left
  <2> QED
    BY <1>4, <1>12, <1>13, <2>1
<1> QED
  BY <1>1, <1>2, <1>3, <1>13, <1>6, <1>7, <1>8, <1>9, <1>10, <1>11
  DEF Next, HandlerOnLineMessage, Handler, DoCaptureYuv

(* YuvInv holds in every reachable state.                                  *)
LEMMA YuvCorrect == Spec => []YuvInv
  BY YuvInit, YuvStep, PTL DEF Spec

(* Every reachable state is well typed: descriptors and queues are numbers *)
(* of open() calls that were made.                                         *)
THEOREM TypeCorrect == Spec => []TypeOK
<1>1. YuvInv => TypeOK
  BY DEF YuvInv
<1> QED
  BY <1>1, YuvCorrect, PTL
-----------------------------------------------------------------------------
(* BUSY is stored by Start, after which the handler is on its way; the     *)
(* handler stores READY when it leaves.                                    *)
LEMMA BusyStep == TypeOK /\ BusyIsTrue /\ [Next]_vars => BusyIsTrue'
<1> SUFFICES ASSUME TypeOK, BusyIsTrue, [Next]_vars PROVE BusyIsTrue'
  OBVIOUS
<1> DEFINE Started == {"ready"} \cup YuvLabels \cup RawLabels
<1>b. alive /\ capture_status = "BUSY" => \E c \in Clients : pc[c] \in Started
  BY DEF BusyIsTrue
<1>s. SUFFICES alive' /\ capture_status' = "BUSY" => \E c \in Clients : pc'[c] \in Started
  BY DEF BusyIsTrue
<1>l. "idle" \notin Started /\ "params" \notin Started
  BY DEF YuvLabels, RawLabels
<1> USE DEF TypeOK, Goto, conf, dev, queues, cam, mine, hist
(* A step of c that leaves the status alone, and a START that c handles.   *)
<1>1. ASSUME NEW c \in Clients, alive, capture_status' = capture_status,
             \A d \in Clients : d # c => pc'[d] = pc[d],
             pc[c] \in Started => pc'[c] \in Started
      PROVE  alive' /\ capture_status' = "BUSY" => \E d \in Clients : pc'[d] \in Started
  BY <1>1, <1>b
<1> HIDE DEF Started
<1>2. ASSUME NEW c \in Clients, alive, GetParam(c) \/ SetParam(c) \/ GetParamEnds(c)
      PROVE  alive' /\ capture_status' = "BUSY" => \E d \in Clients : pc'[d] \in Started
  <2>1. /\ capture_status' = capture_status /\ pc[c] \in {"idle", "params"}
        /\ \A d \in Clients : d # c => pc'[d] = pc[d]
    BY <1>2 DEF GetParam, GetParamEnds, SetParam, Request
  <2>2. pc[c] \notin Started
    BY <1>l, <2>1
  <2> QED
    BY <1>1, <1>2, <2>1, <2>2
<1>3. ASSUME NEW c \in Clients, Start(c, "open") \/ Start(c, "init")
      PROVE  alive' /\ capture_status' = "BUSY" => \E d \in Clients : pc'[d] \in Started
  <2>1. pc'[c] \in {"open", "init"}
    BY <1>3 DEF Start
  <2> QED
    BY <2>1 DEF Started, YuvLabels, RawLabels
<1>4. ASSUME NEW c \in Clients, Ready(c)
      PROVE  alive' /\ capture_status' = "BUSY" => \E d \in Clients : pc'[d] \in Started
  BY <1>4 DEF Ready
<1>5. ASSUME NEW c \in Clients, alive, DoCaptureYuv(c) \/ DoCaptureOnlineRaw(c)
      PROVE  alive' /\ capture_status' = "BUSY" => \E d \in Clients : pc'[d] \in Started
  <2>1. /\ capture_status' = capture_status
        /\ \/ pc' = pc
           \/ \E l \in {"ready"} \cup YuvLabels \cup RawLabels : pc' = [pc EXCEPT ![c] = l]
    BY <1>5
    DEF DoCaptureYuv, YuvOpen, YuvFormat, YuvSelect, YuvTest, YuvFrame, YuvLoad,
        YuvStore, YuvClose, GiveUp, DoCaptureOnlineRaw, RawInit, RawStream, RawSkip,
        RawTest, RawFrame, RawLoad, RawStore, RawStop, RawUninit, RawDies, Test,
        Load, Store, YuvLabels, RawLabels
  <2>2. \A d \in Clients : d # c => pc'[d] = pc[d]
    BY <2>1
  <2>3. pc[c] \in Started => pc'[c] \in Started
    BY <2>1 DEF Started
  <2> QED
    BY <1>1, <1>5, <2>1, <2>2, <2>3
<1>6. CASE (CameraStops \/ CameraResumes) /\ alive
  <2>1. UNCHANGED <<pc, capture_status>>
    BY <1>6 DEF CameraStops, CameraResumes
  <2> QED
    BY <1>6, <1>b, <2>1
<1>7. CASE UNCHANGED vars
  <2>1. UNCHANGED <<pc, capture_status, alive>>
    BY <1>7 DEF vars
  <2> QED
    BY <1>b, <2>1
<1> QED
  BY <1>2, <1>3, <1>4, <1>5, <1>6, <1>7
  DEF Next, HandlerOnLineMessage, Handler

(* capture_status is BUSY only while the START of some PC, YUV or raw, is  *)
(* handled, for any number of PCs and whatever fails.                      *)
THEOREM BusyCorrect == Spec => []BusyIsTrue
<1>1. Init => BusyIsTrue
  BY DEF Init, BusyIsTrue
<1> QED
  BY <1>1, TypeCorrect, BusyStep, PTL DEF Spec
-----------------------------------------------------------------------------
(* A queue that a failed capture left is nobody's any more: no handler is  *)
(* where it could give it back, or read from it, and none is let in.       *)
LEMMA NoYuvStep ==
  YuvInv /\ [Next]_vars =>
    [(yuv_queue \in given_up) =>
       /\ yuv_queue' = yuv_queue
       /\ \A c \in Clients : pc[c] = "dqbuf" => (sent'[c] = sent[c])]_vars
<1> SUFFICES ASSUME YuvInv, Next, yuv_queue \in given_up
             PROVE  /\ yuv_queue' = yuv_queue
                    /\ \A c \in Clients : pc[c] = "dqbuf" => (sent'[c] = sent[c])
  OBVIOUS
<1>1. \A c \in Clients : pc[c] \notin HasQueue
  BY DEF YuvInv, QueueInv, FdInv, HasQueue
<1>2. yuv_queue # 0
  BY DEF YuvInv, TypeOK
<1>3. \A c \in Clients : pc[c] # "dqbuf" /\ pc[c] # "close"
  BY <1>1 DEF HasQueue, HasFd, YuvLabels
<1>4. ASSUME NEW c \in Clients, YuvFormat(c) \/ YuvClose(c) PROVE yuv_queue' = yuv_queue
  BY <1>2, <1>3, <1>4 DEF YuvFormat, YuvClose
<1>5. ASSUME NEW c \in Clients,
             \/ YuvOpen(c) \/ YuvSelect(c) \/ YuvTest(c) \/ YuvFrame(c) \/ YuvLoad(c)
             \/ YuvStore(c)
      PROVE  yuv_queue' = yuv_queue
  BY <1>5
  DEF YuvOpen, YuvSelect, YuvTest, YuvFrame, YuvLoad, YuvStore, Test, Load, Store, queues
<1>6. ASSUME NEW c \in Clients, DoCaptureOnlineRaw(c) PROVE yuv_queue' = yuv_queue
  BY <1>6
  DEF DoCaptureOnlineRaw, RawInit, RawStream, RawSkip, RawTest, RawFrame, RawLoad,
      RawStore, RawStop, RawUninit, RawDies, Test, Load, Store, queues
<1>7. ASSUME NEW c \in Clients,
             \/ GetParam(c) \/ SetParam(c) \/ Start(c, "open") \/ Start(c, "init")
             \/ Ready(c) \/ GetParamEnds(c)
      PROVE  yuv_queue' = yuv_queue
  BY <1>7 DEF GetParam, SetParam, Start, Ready, Returned, GetParamEnds, queues
<1>8. yuv_queue' = yuv_queue
  BY <1>4, <1>5, <1>6, <1>7
  DEF Next, HandlerOnLineMessage, Handler, DoCaptureYuv, CameraStops, CameraResumes, queues
<1> QED
  BY <1>3, <1>8

(* After one YUV capture that failed with its buffers no PC gets a YUV     *)
(* frame, for any number of PCs and requests.                              *)
THEOREM NoYuvCorrect == Spec => NoYuvAfterFailure
  BY YuvCorrect, NoYuvStep, PTL DEF Spec, NoYuvAfterFailure
-----------------------------------------------------------------------------
(* While no two raw STARTs ran at once, dev_fd, the buffers and the raw    *)
(* queue are those of the one that runs, unless a GET_PARAM wiped the      *)
(* descriptor; every other file is that of a YUV capture, which runs or    *)
(* has failed.                                                             *)
HasStream == {"skip", "rtest", "frame", "rload", "rstore", "off"}

Capturing == \E c \in Clients : pc[c] \in HasDev

DevInv ==
  /\ \A c, d \in Clients : pc[c] \in RawLabels /\ pc[d] \in RawLabels => c = d
  /\ dev_fd # 0 => /\ Capturing /\ dev_fd \notin given_up /\ dev_fd \notin forgotten
                   /\ \A c \in Clients : fd[c] # dev_fd
  /\ \A c \in Clients : fd[c] \notin forgotten
  /\ \/ raw_queue = 0 \/ raw_queue \in forgotten
     \/ raw_queue = dev_fd /\ \E c \in Clients : pc[c] \in HasStream
  /\ \A x \in mapped : x = buffers /\ Capturing

FileInv ==
  \A x \in 1 .. opens :
    x \in opened <=> \/ x \in given_up \/ x \in forgotten
                     \/ \E c \in Clients : pc[c] \in HasFd /\ fd[c] = x
                     \/ x = dev_fd

LeakInv == YuvInv /\ (~ mixed => DevInv /\ FileInv)

(* Labels of no capture, and those of a YUV capture, as far as DevInv and  *)
(* FileInv go.                                                             *)
LEMMA Labels ==
  /\ \A l \in {"idle", "params", "ready", "open"} :
       l \notin RawLabels /\ l \notin HasDev /\ l \notin HasStream /\ l \notin HasFd
  /\ \A l \in HasFd : l \notin RawLabels /\ l \notin HasDev /\ l \notin HasStream
  /\ HasStream \subseteq HasDev /\ HasDev \subseteq RawLabels
  /\ \A l \in RawLabels : l \notin HasFd
  /\ "init" \in RawLabels /\ "init" \notin HasDev
  /\ "stream" \in HasDev /\ "stream" \notin HasStream
  /\ "uninit" \in HasDev /\ "uninit" \notin HasStream
  /\ "off" \in HasStream /\ "skip" \in HasStream /\ "rtest" \in HasStream
  BY DEF RawLabels, HasDev, HasStream, HasFd, YuvLabels

(* A step of one handler between labels that are alike in all this.        *)
LEMMA SameFiles ==
  ASSUME DevInv, FileInv, NEW c \in Clients, 0 \notin forgotten,
         UNCHANGED <<dev_fd, buffers, opens, opened, mapped, raw_queue, left>>,
         \A d \in Clients : d # c => pc'[d] = pc[d] /\ fd'[d] = fd[d],
         pc'[c] \in RawLabels <=> pc[c] \in RawLabels,
         pc'[c] \in HasDev <=> pc[c] \in HasDev,
         pc'[c] \in HasStream <=> pc[c] \in HasStream,
         pc'[c] \in HasFd <=> pc[c] \in HasFd,
         fd'[c] = fd[c] \/ (pc[c] \notin HasFd /\ fd'[c] = 0)
  PROVE  DevInv' /\ FileInv'
<1>1. Capturing' <=> Capturing
  BY DEF Capturing
<1>2. \A d \in Clients : fd'[d] \notin forgotten /\ (dev_fd # 0 => fd'[d] # dev_fd)
  BY DEF DevInv
<1>3. (\E d \in Clients : pc'[d] \in HasStream) <=> \E d \in Clients : pc[d] \in HasStream
  OBVIOUS
<1>4. DevInv'
  BY <1>1, <1>2, <1>3 DEF DevInv, left
<1>5. \A x \in 1 .. opens : (\E d \in Clients : pc'[d] \in HasFd /\ fd'[d] = x)
                        <=> (\E d \in Clients : pc[d] \in HasFd /\ fd[d] = x)
  OBVIOUS
<1>6. FileInv'
  BY <1>5 DEF FileInv, left
<1> QED
  BY <1>4, <1>6

(* No file is open at first.                                               *)
LEMMA LeakInit == Init => LeakInv
<1> SUFFICES ASSUME Init PROVE DevInv /\ FileInv
  BY YuvInit DEF LeakInv
<1>1. \A c \in Clients : pc[c] = "idle"
  BY DEF Init
<1>2. opens = 0 /\ raw_queue = 0 /\ dev_fd = 0 /\ mapped = {} /\ forgotten = {}
  BY DEF Init
<1>3. /\ \A c \in Clients : pc[c] \notin RawLabels /\ pc[c] \notin HasFd /\ fd[c] = 0
      /\ opened = {} /\ given_up = {}
  BY <1>1, Labels DEF Init
<1>4. DevInv
  BY <1>2, <1>3 DEF DevInv
<1>5. FileInv
  BY <1>2, <1>3 DEF FileInv
<1> QED
  BY <1>4, <1>5

(* Every step keeps the account of files, buffers and queues.              *)
LEMMA LeakStep == LeakInv /\ [Next]_vars => LeakInv'
<1> SUFFICES ASSUME LeakInv, [Next]_vars, ~ mixed' PROVE DevInv' /\ FileInv'
  BY YuvStep DEF LeakInv
<1>t. TypeOK /\ TypeOK' /\ FdInv /\ FdInv'
  BY YuvStep DEF LeakInv, YuvInv
<1>p. /\ DOMAIN pc = Clients /\ DOMAIN fd = Clients /\ opens \in Nat
      /\ dev_fd \in 0 .. opens /\ mapped \in SUBSET (1 .. opens)
      /\ given_up \in SUBSET (1 .. opens) /\ opened \in SUBSET (1 .. opens)
      /\ forgotten \in SUBSET (1 .. opens) /\ \A d \in Clients : fd[d] \in 0 .. opens
  BY <1>t DEF TypeOK
<1>q. /\ \A c \in Clients : \A l : pc' = [pc EXCEPT ![c] = l] =>
           pc'[c] = l /\ \A d \in Clients : d # c => pc'[d] = pc[d]
      /\ \A c \in Clients : \A n : fd' = [fd EXCEPT ![c] = n] =>
           fd'[c] = n /\ \A d \in Clients : d # c => fd'[d] = fd[d]
  BY <1>t DEF TypeOK
<1>z. 0 \notin forgotten /\ 0 \notin given_up
  BY <1>p
<1>m. mixed' = mixed => DevInv /\ FileInv
  BY DEF LeakInv
(* A step of c that leaves files, buffers and the queue alone.             *)
<1>0. ASSUME NEW c \in Clients, NEW l, pc' = [pc EXCEPT ![c] = l], DevInv, FileInv,
             UNCHANGED <<dev_fd, buffers, opens, opened, mapped, raw_queue, left>>,
             fd' = fd \/ (fd' = [fd EXCEPT ![c] = 0] /\ pc[c] \notin HasFd),
             l \in RawLabels <=> pc[c] \in RawLabels,
             l \in HasDev <=> pc[c] \in HasDev,
             l \in HasStream <=> pc[c] \in HasStream,
             l \in HasFd <=> pc[c] \in HasFd
      PROVE  DevInv' /\ FileInv'
  <2>1. pc'[c] = l /\ \A d \in Clients : d # c => pc'[d] = pc[d]
    BY <1>0, <1>q
  <2>2. /\ \A d \in Clients : d # c => fd'[d] = fd[d]
        /\ fd'[c] = fd[c] \/ (pc[c] \notin HasFd /\ fd'[c] = 0)
    BY <1>0, <1>q
  <2> QED
    BY <1>0, <1>z, <2>1, <2>2, SameFiles
<1>1. ASSUME NEW c \in Clients, GetParam(c) PROVE DevInv' /\ FileInv'
  <2>1. /\ pc[c] = "idle" /\ pc' = [pc EXCEPT ![c] = "params"]
        /\ dev_fd' = 0 /\ forgotten' = forgotten \cup ({dev_fd} \ {0})
        /\ UNCHANGED <<buffers, opens, opened, mapped, raw_queue, fd, given_up, mixed>>
    BY <1>1 DEF GetParam, Request, Goto, mine, queues
  <2>2. DevInv /\ FileInv
    BY <1>m, <2>1
  <2>3. /\ pc'[c] = "params" /\ \A d \in Clients : d # c => pc'[d] = pc[d]
    BY <1>q, <2>1
  <2>4. \A d \in Clients : /\ pc'[d] \in RawLabels <=> pc[d] \in RawLabels
                           /\ pc'[d] \in HasDev <=> pc[d] \in HasDev
                           /\ pc'[d] \in HasFd <=> pc[d] \in HasFd
    BY <2>1, <2>3, Labels
  <2>5. Capturing' <=> Capturing
    BY <2>4 DEF Capturing
  <2>6. \A d \in Clients : fd'[d] \notin forgotten'
    BY <2>1, <2>2 DEF DevInv
  <2>7. raw_queue' = 0 \/ raw_queue' \in forgotten'
    BY <2>1, <2>2 DEF DevInv
  <2>8. DevInv'
    BY <2>1, <2>2, <2>4, <2>5, <2>6, <2>7 DEF DevInv
  <2>9. \A x \in 1 .. opens : x \in forgotten' <=> x \in forgotten \/ x = dev_fd
    BY <1>p, <2>1
  <2>10. \A x \in 1 .. opens : x # dev_fd'
    BY <2>1
  <2>11. FileInv'
    BY <2>1, <2>2, <2>4, <2>9, <2>10 DEF FileInv
  <2> QED
    BY <2>8, <2>11
<1>2. ASSUME NEW c \in Clients, SetParam(c) \/ Start(c, "open")
      PROVE  DevInv' /\ FileInv'
  <2>1. /\ pc[c] = "idle"
        /\ pc' = [pc EXCEPT ![c] = "open"] \/ pc' = [pc EXCEPT ![c] = "idle"]
        /\ UNCHANGED <<dev_fd, buffers, opens, opened, mapped, raw_queue, left, fd>>
    BY <1>2, <1>t DEF SetParam, Start, Request, Goto, mine, queues, dev, TypeOK
  <2>2. mixed' = mixed
    <3>1. CASE SetParam(c)
      BY <3>1 DEF SetParam
    <3>2. CASE Start(c, "open")
      <4>1. mixed' = (mixed \/ ("open" = "init" /\ \E d \in Clients : pc[d] \in RawLabels))
        BY <3>2, Zenon DEF Start
      <4>2. mixed \in BOOLEAN
        BY <1>t DEF TypeOK
      <4> QED
        BY <4>1, <4>2
    <3> QED
      BY <1>2, <3>1, <3>2
  <2> QED
    BY <1>0, <1>m, <2>1, <2>2, Labels
<1>3. ASSUME NEW c \in Clients, Start(c, "init") PROVE DevInv' /\ FileInv'
  <2>1. /\ pc[c] = "idle" /\ pc' = [pc EXCEPT ![c] = "init"]
        /\ UNCHANGED <<dev_fd, buffers, opens, opened, mapped, raw_queue, left, fd>>
    BY <1>3 DEF Start, Request, Goto, mine, queues, dev
  <2>2. ~ mixed /\ \A d \in Clients : pc[d] \notin RawLabels
    BY <1>3, Zenon DEF Start
  <2>3. DevInv /\ FileInv
    BY <2>2 DEF LeakInv
  <2>4. /\ pc'[c] = "init" /\ \A d \in Clients : d # c => pc'[d] = pc[d]
    BY <1>q, <2>1
  <2>5. \A d \in Clients : pc[d] \notin HasDev /\ pc'[d] \notin HasDev
    BY <2>2, <2>4, Labels
  <2>6. \A d \in Clients : pc[d] \notin HasStream /\ pc'[d] \notin HasStream
    BY <2>5, Labels
  <2>7. \A d \in Clients : pc'[d] \in HasFd <=> pc[d] \in HasFd
    BY <2>1, <2>4, Labels
  <2>8. \A d \in Clients : pc'[d] \in RawLabels => d = c
    BY <2>2, <2>4
  <2>9. ~ Capturing /\ ~ Capturing'
    BY <2>5 DEF Capturing
  <2>10. DevInv'
    BY <2>1, <2>3, <2>6, <2>8, <2>9 DEF DevInv, left
  <2>11. FileInv'
    BY <2>1, <2>3, <2>7 DEF FileInv, left
  <2> QED
    BY <2>10, <2>11
<1>4. ASSUME NEW c \in Clients, Ready(c) PROVE DevInv' /\ FileInv'
  <2>1. /\ pc[c] = "ready" /\ pc' = [pc EXCEPT ![c] = "idle"]
        /\ fd' = [fd EXCEPT ![c] = 0]
        /\ UNCHANGED <<dev_fd, buffers, opens, opened, mapped, raw_queue, left, mixed>>
    BY <1>4 DEF Ready, Returned, Goto, queues, dev
  <2> QED
    BY <1>0, <1>m, <2>1, Labels
<1>5. ASSUME NEW c \in Clients, GetParamEnds(c) PROVE DevInv' /\ FileInv'
  <2>1. /\ pc[c] = "params" /\ pc' = [pc EXCEPT ![c] = "idle"]
        /\ UNCHANGED <<buffers, opens, mapped, left, mixed, fd>>
    BY <1>5 DEF GetParamEnds, Goto, mine, hist
  <2>2. DevInv /\ FileInv
    BY <1>m, <2>1
  <2>3. CASE UNCHANGED <<opened, raw_queue, dev_fd>>
    BY <1>0, <2>1, <2>2, <2>3, Labels
  <2>4. CASE /\ opened' = opened \ {dev_fd} /\ dev_fd' = 0
             /\ raw_queue' = IF raw_queue = dev_fd THEN 0 ELSE raw_queue
    <3>3. /\ pc'[c] = "idle" /\ \A d \in Clients : d # c => pc'[d] = pc[d]
      BY <1>q, <2>1
    <3>4. \A d \in Clients : /\ pc'[d] \in RawLabels <=> pc[d] \in RawLabels
                             /\ pc'[d] \in HasDev <=> pc[d] \in HasDev
                             /\ pc'[d] \in HasFd <=> pc[d] \in HasFd
      BY <2>1, <3>3, Labels
    <3>5. Capturing' <=> Capturing
      BY <3>4 DEF Capturing
    <3>6. raw_queue' = 0 \/ raw_queue' \in forgotten
      BY <2>2, <2>4 DEF DevInv
    <3>7. DevInv'
      BY <2>1, <2>2, <2>4, <3>4, <3>5, <3>6 DEF DevInv, left
    <3>8. \A x \in 1 .. opens :
            x = dev_fd => /\ x \notin given_up /\ x \notin forgotten
                          /\ ~ \E d \in Clients : pc[d] \in HasFd /\ fd[d] = x
      BY <2>2 DEF DevInv
    <3>9. \A x \in 1 .. opens : x # dev_fd'
      BY <2>4
    <3>10. FileInv'
      BY <2>1, <2>2, <2>4, <3>4, <3>8, <3>9 DEF FileInv, left
    <3> QED
      BY <3>7, <3>10
  <2> QED
    BY <1>5, <2>3, <2>4 DEF GetParamEnds
<1>6. ASSUME NEW c \in Clients, YuvOpen(c) PROVE DevInv' /\ FileInv'
  <2>1. /\ pc[c] = "open"
        /\ UNCHANGED <<dev_fd, buffers, mapped, raw_queue, left, mixed>>
    BY <1>6 DEF YuvOpen, queues
  <2>2. DevInv /\ FileInv
    BY <1>m, <2>1
  <2>3. CASE pc' = [pc EXCEPT ![c] = "ready"] /\ UNCHANGED <<opens, opened, fd>>
    BY <1>0, <2>1, <2>2, <2>3, Labels
  <2>4. CASE /\ opens' = opens + 1 /\ opened' = opened \cup {opens + 1}
             /\ fd' = [fd EXCEPT ![c] = opens + 1] /\ pc' = [pc EXCEPT ![c] = "format"]
    <3>1. /\ pc'[c] = "format" /\ fd'[c] = opens + 1
          /\ \A d \in Clients : d # c => pc'[d] = pc[d] /\ fd'[d] = fd[d]
      BY <1>t, <2>4 DEF TypeOK
    <3>2. "format" \in HasFd
      BY DEF HasFd, YuvLabels
    <3>3. \A d \in Clients : /\ pc'[d] \in RawLabels <=> pc[d] \in RawLabels
                             /\ pc'[d] \in HasDev <=> pc[d] \in HasDev
                             /\ pc'[d] \in HasStream <=> pc[d] \in HasStream
      BY <2>1, <3>1, <3>2, Labels
    <3>4. Capturing' <=> Capturing
      BY <3>3 DEF Capturing
    <3>5. opens + 1 \notin forgotten /\ opens + 1 # dev_fd
      BY <1>p
    <3>6. DevInv'
      BY <2>1, <2>2, <3>1, <3>3, <3>4, <3>5 DEF DevInv, left
    <3>7. ASSUME NEW x \in 1 .. opens
          PROVE  (\E d \in Clients : pc'[d] \in HasFd /\ fd'[d] = x)
                   <=> (\E d \in Clients : pc[d] \in HasFd /\ fd[d] = x)
      BY <1>p, <2>1, <3>1, <3>2, Labels
    <3>8. opens + 1 \in opened' /\ \E d \in Clients : pc'[d] \in HasFd /\ fd'[d] = opens + 1
      BY <2>4, <3>1, <3>2
    <3>9. ASSUME NEW x \in 1 .. opens', x # opens + 1 PROVE x \in 1 .. opens
      BY <1>p, <2>4, <3>9
    <3>10. FileInv'
      BY <2>1, <2>2, <2>4, <3>7, <3>8, <3>9 DEF FileInv, left
    <3> QED
      BY <3>6, <3>10
  <2> QED
    BY <1>6, <2>3, <2>4 DEF YuvOpen, Goto
<1>7. ASSUME NEW c \in Clients, GiveUp(c), pc[c] \in {"format", "select"},
             UNCHANGED <<dev, raw_queue, fd, mixed, forgotten>>
      PROVE  DevInv' /\ FileInv'
  <2>1. /\ pc' = [pc EXCEPT ![c] = "ready"] /\ given_up' = given_up \cup {fd[c]}
    BY <1>7 DEF GiveUp, Goto
  <2>2. pc'[c] = "ready" /\ \A d \in Clients : d # c => pc'[d] = pc[d]
    BY <1>q, <2>1
  <2>3. pc[c] \in HasFd /\ pc'[c] \notin HasFd
    BY <1>7, <2>2 DEF HasFd, YuvLabels
  <2>4. DevInv /\ FileInv
    BY <1>m, <1>7
  <2>5. \A d \in Clients : /\ pc'[d] \in RawLabels <=> pc[d] \in RawLabels
                           /\ pc'[d] \in HasDev <=> pc[d] \in HasDev
                           /\ pc'[d] \in HasStream <=> pc[d] \in HasStream
    BY <2>2, <2>3, Labels
  <2>6. Capturing' <=> Capturing
    BY <2>5 DEF Capturing
  <2>7. DevInv'
    BY <1>7, <2>1, <2>4, <2>5, <2>6 DEF DevInv, dev
  <2>8. \A x \in 1 .. opens :
          x \in given_up' \/ (\E d \in Clients : pc'[d] \in HasFd /\ fd'[d] = x)
            <=> x \in given_up \/ (\E d \in Clients : pc[d] \in HasFd /\ fd[d] = x)
    BY <1>7, <2>1, <2>2, <2>3
  <2>9. FileInv'
    BY <1>7, <2>4, <2>8 DEF FileInv, dev
  <2> QED
    BY <2>7, <2>9
<1>8. ASSUME NEW c \in Clients,
             \/ YuvFormat(c) /\ Goto(c, "select") /\ given_up' = given_up
             \/ YuvSelect(c) /\ Goto(c, "ytest") /\ given_up' = given_up
             \/ YuvTest(c) \/ YuvFrame(c) \/ YuvLoad(c) \/ YuvStore(c)
      PROVE  DevInv' /\ FileInv'
  <2>1. /\ pc[c] \in HasFd
        /\ UNCHANGED <<dev_fd, buffers, opens, opened, mapped, raw_queue, left, fd, mixed>>
        /\ \E l \in HasFd : pc' = [pc EXCEPT ![c] = l]
    BY <1>8 DEF YuvFormat, YuvSelect, YuvTest, YuvFrame, YuvLoad, YuvStore, Test,
                Load, Store, Goto, queues, mine, hist, dev, left, HasFd, YuvLabels
  <2> QED
    BY <1>0, <1>m, <2>1, Labels
<1>9. ASSUME NEW c \in Clients, YuvClose(c) PROVE DevInv' /\ FileInv'
  <2>1. /\ pc[c] = "close" /\ pc' = [pc EXCEPT ![c] = "ready"]
        /\ opened' = opened \ {fd[c]}
        /\ UNCHANGED <<dev_fd, buffers, opens, mapped, raw_queue, fd, left, mixed>>
    BY <1>9 DEF YuvClose, Goto, mine, hist
  <2>2. pc'[c] = "ready" /\ \A d \in Clients : d # c => pc'[d] = pc[d]
    BY <1>q, <2>1
  <2>3. pc[c] \in HasFd /\ pc'[c] \notin HasFd
    BY <2>1, <2>2 DEF HasFd, YuvLabels
  <2>4. DevInv /\ FileInv
    BY <1>m, <2>1
  <2>5. \A d \in Clients : /\ pc'[d] \in RawLabels <=> pc[d] \in RawLabels
                           /\ pc'[d] \in HasDev <=> pc[d] \in HasDev
                           /\ pc'[d] \in HasStream <=> pc[d] \in HasStream
    BY <2>2, <2>3, Labels
  <2>6. Capturing' <=> Capturing
    BY <2>5 DEF Capturing
  <2>7. DevInv'
    BY <2>1, <2>4, <2>5, <2>6 DEF DevInv, left
  <2>8. /\ fd[c] \notin given_up /\ fd[c] # 0 /\ fd[c] \notin forgotten /\ fd[c] # dev_fd
        /\ \A d \in Clients : d # c => fd[d] # fd[c]
    BY <1>t, <2>3, <2>4 DEF FdInv, DevInv
  <2>9. FileInv'
    BY <2>1, <2>2, <2>3, <2>4, <2>8 DEF FileInv, left
  <2> QED
    BY <2>7, <2>9
<1>10. ASSUME NEW c \in Clients, RawInit(c) PROVE DevInv' /\ FileInv'
  <2>1. /\ pc[c] = "init" /\ pc' = [pc EXCEPT ![c] = "stream"] /\ opens' = opens + 1
        /\ \/ dev_fd' = opens + 1 /\ opened' = opened \cup {opens + 1}
           \/ dev_fd' = 0 /\ opened' = opened
        /\ \/ buffers' = opens + 1 /\ mapped' = mapped \cup {opens + 1}
           \/ buffers' = buffers /\ mapped' = mapped
        /\ UNCHANGED <<raw_queue, fd, left, mixed>>
    BY <1>10 DEF RawInit, Goto, mine, queues
  <2>2. pc'[c] = "stream" /\ \A d \in Clients : d # c => pc'[d] = pc[d]
    BY <1>q, <2>1
  <2>3. DevInv /\ FileInv
    BY <1>m, <2>1
  <2>4. \A d \in Clients : d # c => pc[d] \notin RawLabels
    BY <2>1, <2>3, Labels DEF DevInv
  <2>5. ~ Capturing /\ Capturing'
    BY <2>1, <2>2, <2>4, Labels DEF Capturing
  <2>6. dev_fd = 0 /\ mapped = {}
    BY <2>3, <2>5 DEF DevInv
  <2>7. \A d \in Clients : pc[d] \notin HasStream
    BY <2>1, <2>4, Labels
  <2>8. raw_queue' = 0 \/ raw_queue' \in forgotten'
    BY <2>1, <2>3, <2>7 DEF DevInv, left
  <2>9. /\ opens + 1 \notin given_up /\ opens + 1 \notin forgotten
        /\ \A d \in Clients : fd[d] # opens + 1
    BY <1>p
  <2>10. \A x \in mapped' : x = buffers'
    BY <2>1, <2>6
  <2>11. \A d \in Clients : pc'[d] \in RawLabels => d = c
    BY <2>2, <2>4
  <2>12. dev_fd' # 0 => dev_fd' = opens + 1
    BY <2>1
  <2>13. DevInv'
    BY <2>1, <2>3, <2>5, <2>8, <2>9, <2>10, <2>11, <2>12 DEF DevInv, left
  <2>14. \A d \in Clients : pc'[d] \in HasFd <=> pc[d] \in HasFd
    BY <2>1, <2>2, Labels
  <2>15. ASSUME NEW x \in 1 .. opens', x # opens + 1
         PROVE  /\ x \in 1 .. opens /\ (x \in opened' <=> x \in opened)
                /\ x # dev_fd' /\ x # dev_fd
    BY <1>p, <2>1, <2>6, <2>15
  <2>16. opens + 1 \in opened' <=> opens + 1 = dev_fd'
    BY <1>p, <2>1
  <2>17. FileInv'
    BY <2>1, <2>3, <2>9, <2>14, <2>15, <2>16 DEF FileInv, left
  <2> QED
    BY <2>13, <2>17
<1>11. ASSUME NEW c \in Clients, RawStream(c) PROVE DevInv' /\ FileInv'
  <2>1. /\ pc[c] = "stream" /\ \E l \in {"skip", "rtest"} : pc' = [pc EXCEPT ![c] = l]
        /\ raw_queue' = dev_fd \/ raw_queue' = raw_queue
        /\ UNCHANGED <<dev_fd, buffers, opens, opened, mapped, fd, left, mixed>>
    BY <1>11 DEF RawStream, Goto, mine, dev
  <2>2. pc'[c] \in {"skip", "rtest"} /\ \A d \in Clients : d # c => pc'[d] = pc[d]
    BY <1>q, <2>1
  <2>3. DevInv /\ FileInv
    BY <1>m, <2>1
  <2>4. \A d \in Clients : /\ pc'[d] \in RawLabels <=> pc[d] \in RawLabels
                           /\ pc'[d] \in HasDev <=> pc[d] \in HasDev
                           /\ pc'[d] \in HasFd <=> pc[d] \in HasFd
    BY <2>1, <2>2, Labels
  <2>5. Capturing' <=> Capturing
    BY <2>4 DEF Capturing
  <2>6. \E d \in Clients : pc'[d] \in HasStream
    BY <2>2, Labels
  <2>7. DevInv'
    BY <2>1, <2>3, <2>4, <2>5, <2>6 DEF DevInv, left
  <2>8. FileInv'
    BY <2>1, <2>3, <2>4 DEF FileInv, left
  <2> QED
    BY <2>7, <2>8
<1>12. ASSUME NEW c \in Clients,
              RawSkip(c) \/ RawTest(c) \/ RawFrame(c) \/ RawLoad(c) \/ RawStore(c)
       PROVE  DevInv' /\ FileInv'
  <2>1. /\ pc[c] \in HasStream
        /\ UNCHANGED <<dev_fd, buffers, opens, opened, mapped, raw_queue, left, fd, mixed>>
        /\ \E l \in HasStream : pc' = [pc EXCEPT ![c] = l]
    BY <1>12 DEF RawSkip, RawTest, RawFrame, RawLoad, RawStore, Test, Load, Store,
                Goto, queues, mine, hist, dev, left, HasStream
  <2> QED
    BY <1>0, <1>m, <2>1, Labels
<1>13. ASSUME NEW c \in Clients, RawStop(c) PROVE DevInv' /\ FileInv'
  <2>1. /\ pc[c] = "off" /\ pc' = [pc EXCEPT ![c] = "uninit"]
        /\ raw_queue' = IF raw_queue = dev_fd THEN 0 ELSE raw_queue
        /\ UNCHANGED <<dev_fd, buffers, opens, opened, mapped, fd, left, mixed>>
    BY <1>13 DEF RawStop, Goto, mine, hist, dev
  <2>2. pc'[c] = "uninit" /\ \A d \in Clients : d # c => pc'[d] = pc[d]
    BY <1>q, <2>1
  <2>3. DevInv /\ FileInv
    BY <1>m, <2>1
  <2>4. \A d \in Clients : /\ pc'[d] \in RawLabels <=> pc[d] \in RawLabels
                           /\ pc'[d] \in HasDev <=> pc[d] \in HasDev
                           /\ pc'[d] \in HasFd <=> pc[d] \in HasFd
    BY <2>1, <2>2, Labels
  <2>5. Capturing' <=> Capturing
    BY <2>4 DEF Capturing
  <2>6. raw_queue' = 0 \/ raw_queue' \in forgotten'
    BY <2>1, <2>3 DEF DevInv, left
  <2>7. DevInv'
    BY <2>1, <2>3, <2>4, <2>5, <2>6 DEF DevInv, left
  <2>8. FileInv'
    BY <2>1, <2>3, <2>4 DEF FileInv, left
  <2> QED
    BY <2>7, <2>8
<1>14. ASSUME NEW c \in Clients, RawUninit(c) PROVE DevInv' /\ FileInv'
  <2>1. /\ pc[c] = "uninit" /\ pc' = [pc EXCEPT ![c] = "ready"]
        /\ mapped' = mapped \ {buffers} /\ opened' = opened \ {dev_fd} /\ dev_fd' = 0
        /\ raw_queue' = IF raw_queue = dev_fd THEN 0 ELSE raw_queue
        /\ UNCHANGED <<buffers, opens, fd, left, mixed>>
    BY <1>14 DEF RawUninit, Goto, mine, hist
  <2>2. pc'[c] = "ready" /\ \A d \in Clients : d # c => pc'[d] = pc[d]
    BY <1>q, <2>1
  <2>3. DevInv /\ FileInv
    BY <1>m, <2>1
  <2>4. mapped' = {}
    BY <2>1, <2>3 DEF DevInv
  <2>5. raw_queue' = 0 \/ raw_queue' \in forgotten'
    BY <2>1, <2>3 DEF DevInv, left
  <2>6. \A d \in Clients : /\ pc'[d] \in RawLabels => pc[d] \in RawLabels
                           /\ pc'[d] \in HasFd <=> pc[d] \in HasFd
    BY <2>1, <2>2, Labels
  <2>7. DevInv'
    BY <2>1, <2>3, <2>4, <2>5, <2>6 DEF DevInv, left
  <2>8. \A x \in 1 .. opens :
          x = dev_fd => /\ x \notin given_up /\ x \notin forgotten
                        /\ ~ \E d \in Clients : pc[d] \in HasFd /\ fd[d] = x
    BY <2>3 DEF DevInv
  <2>9. \A x \in 1 .. opens : x # dev_fd'
    BY <2>1
  <2>10. FileInv'
    BY <2>1, <2>3, <2>6, <2>8, <2>9 DEF FileInv, left
  <2> QED
    BY <2>7, <2>10
<1>15. ASSUME UNCHANGED <<pc, fd, dev_fd, buffers, opens, opened, mapped, raw_queue,
                          left, mixed>>
       PROVE  DevInv' /\ FileInv'
  BY <1>m, <1>15 DEF DevInv, FileInv, Capturing, left
<1>16. ASSUME NEW c \in Clients, RawDies(c) PROVE DevInv' /\ FileInv'
  BY <1>15, <1>16 DEF RawDies, mine, hist, queues, dev
<1>17. CASE CameraStops \/ CameraResumes
  BY <1>15, <1>17 DEF CameraStops, CameraResumes, mine, hist, queues, dev
<1>18. CASE UNCHANGED vars
  BY <1>15, <1>18 DEF vars, mine, hist, queues, dev
<1>19. ASSUME NEW c \in Clients, YuvFormat(c) \/ YuvSelect(c)
       PROVE  DevInv' /\ FileInv'
  <2>1. CASE GiveUp(c)
    BY <1>7, <1>19, <2>1 DEF YuvFormat, YuvSelect, queues, mine
  <2> QED
    BY <1>8, <1>19, <2>1 DEF YuvFormat, YuvSelect
<1>20. ASSUME NEW c \in Clients, Handler(c) PROVE DevInv' /\ FileInv'
  BY <1>4, <1>5, <1>6, <1>8, <1>9, <1>10, <1>11, <1>12, <1>13, <1>14, <1>16, <1>19,
     <1>20
  DEF Handler, DoCaptureYuv, DoCaptureOnlineRaw
<1> QED
  BY <1>1, <1>2, <1>3, <1>17, <1>18, <1>20 DEF Next, HandlerOnLineMessage

(* LeakInv holds in every reachable state.                                 *)
LEMMA LeakCorrect == Spec => []LeakInv
  BY LeakInit, LeakStep, PTL DEF Spec

(* While no handler runs, and no two raw STARTs ever ran at once, the files*)
(* and queues left are those of YUV captures that failed and of raw        *)
(* captures a GET_PARAM fell into, for any number of PCs.                  *)
THEOREM OnlyFailuresLeak == Spec => []OnlyGivenUpLeaks
<1>1. LeakInv => OnlyGivenUpLeaks
  <2> SUFFICES ASSUME LeakInv, Quiet, ~ mixed
               PROVE  /\ opened = given_up \cup forgotten /\ mapped = {}
                      /\ raw_queue \in forgotten \cup {0}
                      /\ yuv_queue \in given_up \cup {0}
    BY DEF OnlyGivenUpLeaks
  <2>1. TypeOK /\ QueueInv /\ DevInv /\ FileInv
    BY DEF LeakInv, YuvInv
  <2>2. \A c \in Clients : /\ pc[c] \notin HasDev /\ pc[c] \notin HasStream
                           /\ pc[c] \notin HasFd /\ pc[c] \notin HasQueue
    <3>1. \A c \in Clients : pc[c] = "idle"
      BY Zenon DEF Quiet
    <3>2. \A c \in Clients : pc[c] \notin HasDev /\ pc[c] \notin HasStream /\ pc[c] \notin HasFd
      BY <3>1, Labels, Zenon
    <3> QED
      BY <3>2, Zenon DEF HasQueue
  <2>3. ~ Capturing
    BY <2>2 DEF Capturing
  <2>4. /\ raw_queue \in forgotten \cup {0} /\ yuv_queue \in given_up \cup {0}
        /\ dev_fd = 0
    BY <2>1, <2>2, <2>3 DEF DevInv, QueueInv
  <2>5. /\ opened \in SUBSET (1 .. opens) /\ given_up \in SUBSET (1 .. opens)
        /\ forgotten \in SUBSET (1 .. opens)
    BY <2>1 DEF TypeOK
  <2>6. mapped = {}
    BY <2>1, <2>3 DEF DevInv
  <2>7. \A x \in 1 .. opens : x \in opened <=> x \in given_up \/ x \in forgotten
    BY <2>1, <2>2, <2>4 DEF FileInv
  <2>8. opened = given_up \cup forgotten
    BY <2>5, <2>7
  <2> QED
    BY <2>4, <2>6, <2>8
<1> QED
  BY <1>1, LeakCorrect, PTL
-----------------------------------------------------------------------------
(* How far the START of a PC nobody disturbs has come: the number of       *)
(* indices it has tried, what it has sent of them, and whose its device is.*)
Upto(n) == [k \in 1 .. n |-> k - 1]

Below(s, n) == Increasing(s) /\ \A k \in DOMAIN s : s[k] < n

Tried(c) ==
  IF pc[c] \in {"yload", "ystore", "rload", "rstore"} THEN capture_frames_index + 1
                                                      ELSE capture_frames_index

Counted(c) ==
  /\ Tried(c) <= capture_frames
  /\ pc[c] \in {"open", "format", "select", "init", "stream", "skip"} =>
       capture_frames_index = 0
  /\ pc[c] \in {"dqbuf", "frame"} => capture_frames_index < capture_frames
  /\ pc[c] \in {"ystore", "rstore"} => read[c] = capture_frames_index
  /\ pc[c] \in {"close", "off", "uninit"} => capture_frames_index = capture_frames
  /\ pc[c] = "ready" => capture_frames_index = capture_frames \/ c \in refused

Owns(c) ==
  c \notin refused => /\ pc[c] \in HasDev => dev_fd = buffers /\ dev_fd # 0
                      /\ pc[c] \in HasStream => raw_queue = dev_fd

SentInv(c) == /\ Below(sent[c], Tried(c))
              /\ c \notin refused => sent[c] = Upto(Tried(c))

Progress(c) == pc[c] \notin {"idle", "params"} => Counted(c) /\ Owns(c) /\ SentInv(c)

(* A PC that comes between a SET_PARAM and the end of its START ends       *)
(* "alone", and a START that does not directly follow begins without it.   *)
AloneInv ==
  /\ last # "none" =>
       capture_frames_index = 0 /\ \A c \in Clients : pc[c] \in {"idle", "params"}
  /\ \A c \in Clients : pc[c] \in {"idle", "params"} => sent[c] = <<>> /\ c \notin refused
  /\ \A c, d \in Clients : alone[c] /\ c # d => pc[d] = "idle"

OrderInv == YuvInv /\ AloneInv /\ \A c \in Clients : alone[c] => Progress(c)

(* The sequence of the first n indices, and the same with the next.        *)
LEMMA UptoNext ==
  ASSUME NEW n \in Nat
  PROVE  Append(Upto(n), n) = Upto(n + 1)
<1>1. Upto(n) \in Seq(Int) /\ Len(Upto(n)) = n
  <2>1. Upto(n) \in [1 .. n -> Int]
    BY DEF Upto
  <2> QED
    BY <2>1 DEF Upto
<1>2. Upto(n + 1) \in Seq(Int) /\ Len(Upto(n + 1)) = n + 1
  <2>1. Upto(n + 1) \in [1 .. n + 1 -> Int]
    BY DEF Upto
  <2> QED
    BY <2>1 DEF Upto
<1>3. /\ Append(Upto(n), n) \in Seq(Int) /\ Len(Append(Upto(n), n)) = n + 1
      /\ \A i \in 1 .. n + 1 : Append(Upto(n), n)[i] = IF i <= n THEN Upto(n)[i] ELSE n
  BY <1>1
<1>4. \A i \in 1 .. n + 1 : Append(Upto(n), n)[i] = Upto(n + 1)[i]
  BY <1>3 DEF Upto
<1> QED
  BY <1>2, <1>3, <1>4, SeqEqual

(* An increasing sequence of indices below n stays one when n is appended, *)
(* and when it is not.                                                     *)
LEMMA BelowNext ==
  ASSUME NEW n \in Nat, NEW s \in Seq(Nat), Below(s, n)
  PROVE  Below(s, n + 1) /\ Below(Append(s, n), n + 1)
<1> DEFINE t == Append(s, n)
<1>1. /\ DOMAIN s = 1 .. Len(s) /\ Len(s) \in Nat /\ \A k \in 1 .. Len(s) : s[k] \in Nat
      /\ DOMAIN t = 1 .. Len(s) + 1
      /\ \A k \in 1 .. Len(s) : t[k] = s[k]
      /\ t[Len(s) + 1] = n
  OBVIOUS
<1>2. /\ \A k \in 1 .. Len(s) : s[k] < n
      /\ \A j, k \in 1 .. Len(s) : j < k => s[j] < s[k]
  BY <1>1 DEF Below, Increasing
<1>3. Below(s, n + 1)
  BY <1>1, <1>2 DEF Below, Increasing
<1> HIDE DEF t
<1>4. \A k \in 1 .. Len(s) + 1 : t[k] < n + 1
  BY <1>1, <1>2
<1>5. ASSUME NEW j \in 1 .. Len(s) + 1, NEW k \in 1 .. Len(s) + 1, j < k
      PROVE  t[j] < t[k]
  <2>1. j \in 1 .. Len(s)
    BY <1>1, <1>5
  <2>2. CASE k = Len(s) + 1
    BY <1>1, <1>2, <2>1, <2>2
  <2>3. CASE k # Len(s) + 1
    <3>1. k \in 1 .. Len(s)
      BY <1>1, <2>3
    <3> QED
      BY <1>1, <1>2, <1>5, <2>1, <3>1
  <2> QED
    BY <2>2, <2>3
<1>6. Below(t, n + 1)
  BY <1>1, <1>4, <1>5 DEF Below, Increasing
<1> QED
  BY <1>3, <1>6 DEF t

(* No frame has an index below 0.                                          *)
LEMMA UptoNone == Upto(0) = <<>> /\ Below(<<>>, 0)
  BY DEF Upto, Below, Increasing

(* AloneInv and Progress after a step of one handler.                      *)
LEMMA OrderMove ==
  ASSUME OrderInv, YuvInv', NEW c \in Clients, pc[c] \notin {"idle", "params"},
         UNCHANGED <<last, alone>>,
         \A d \in Clients : d # c => /\ pc'[d] = pc[d] /\ sent'[d] = sent[d]
                                     /\ d \in refused' => d \in refused,
         pc'[c] \in {"idle", "params"} => sent'[c] = <<>> /\ c \notin refused',
         alone[c] => Progress(c)'
  PROVE  OrderInv'
<1>1. last = "none"
  BY DEF OrderInv, AloneInv
<1>2. AloneInv'
  BY <1>1 DEF OrderInv, AloneInv
<1>3. \A d \in Clients : d # c => ~ alone[d]
  BY DEF OrderInv, AloneInv
<1> QED
  BY <1>2, <1>3 DEF OrderInv

(* A step of one handler that neither sends nor counts.                    *)
LEMMA OrderLabel ==
  ASSUME OrderInv, YuvInv', NEW c \in Clients, pc[c] \notin {"idle", "params"},
         NEW l, l \notin {"idle", "params", "yload", "rload"}, pc' = [pc EXCEPT ![c] = l],
         l \in {"ystore", "rstore"} <=> pc[c] \in {"yload", "rload"},
         pc[c] \notin {"ystore", "rstore"},
         UNCHANGED <<conf, sent, last, alone>>, refused' \in {refused, refused \cup {c}},
         alone[c] /\ Progress(c) => Counted(c)' /\ Owns(c)'
  PROVE  OrderInv'
<1>1. pc'[c] = l /\ \A d \in Clients : d # c => pc'[d] = pc[d]
  BY DEF OrderInv, YuvInv, TypeOK
<1>2. ASSUME alone[c] PROVE Progress(c)'
  <2>1. Progress(c)
    BY <1>2 DEF OrderInv
  <2>2. Tried(c)' = Tried(c)
    BY <1>1 DEF Tried, conf
  <2>3. SentInv(c)'
    BY <2>1, <2>2 DEF Progress, SentInv
  <2> QED
    BY <1>2, <2>1, <2>3 DEF Progress
<1> QED
  BY <1>1, <1>2, OrderMove

(* Nobody captures at first.                                               *)
LEMMA OrderInit == Init => OrderInv
<1> SUFFICES ASSUME Init PROVE OrderInv
  OBVIOUS
<1>1. AloneInv /\ \A c \in Clients : ~ alone[c]
  BY DEF Init, AloneInv
<1> QED
  BY <1>1, YuvInit DEF OrderInv

(* Every step keeps the progress of the capture that is alone.             *)
LEMMA OrderStep == OrderInv /\ [Next]_vars => OrderInv'
<1> SUFFICES ASSUME OrderInv, [Next]_vars PROVE OrderInv'
  OBVIOUS
<1>t. YuvInv /\ YuvInv' /\ TypeOK /\ TypeOK' /\ AloneInv
  BY YuvStep DEF OrderInv, YuvInv
<1>n. capture_frames \in Nat /\ capture_frames_index \in Nat
  BY <1>t, CountsAssumption DEF TypeOK
<1>p. \A c \in Clients : \A l : pc' = [pc EXCEPT ![c] = l] =>
        pc'[c] = l /\ \A d \in Clients : d # c => pc'[d] = pc[d]
  BY <1>t DEF TypeOK
<1>q. \A c \in Clients : alone[c] => Progress(c)
  BY DEF OrderInv
<1>1. ASSUME NEW c \in Clients, GetParam(c) \/ SetParam(c) PROVE OrderInv'
  <2>1. /\ pc' = [pc EXCEPT ![c] = "params"] \/ pc' = pc
        /\ pc[c] = "idle" /\ sent' = sent /\ refused' = refused
        /\ \A d \in Clients : ~ alone'[d]
        /\ \/ last' = last /\ capture_frames_index' = capture_frames_index
           \/ last' = "none"
           \/ Quiet /\ capture_frames_index' = 0 /\ pc' = pc
    BY <1>1 DEF GetParam, SetParam, Request, Goto, conf, mine
  <2>2. \A d \in Clients : pc'[d] \in {"idle", "params"} <=> pc[d] \in {"idle", "params"}
    BY <1>p, <2>1
  <2>3. AloneInv'
    BY <1>t, <2>1, <2>2 DEF AloneInv, Quiet
  <2> QED
    BY <1>t, <2>1, <2>3 DEF OrderInv
<1>2. ASSUME NEW c \in Clients, NEW l \in {"open", "init"}, Start(c, l) PROVE OrderInv'
  <2>1. /\ pc[c] = "idle" /\ pc' = [pc EXCEPT ![c] = l]
        /\ \A d \in Clients : alone'[d] <=> d = c /\ last = c /\ Quiet
        /\ last' = "none" /\ sent' = sent /\ refused' = refused
        /\ UNCHANGED <<capture_frames, capture_frames_index>>
    BY <1>2 DEF Start, Request, Goto, conf, mine
  <2>2. pc'[c] = l /\ \A d \in Clients : d # c => pc'[d] = pc[d]
    BY <1>p, <2>1
  <2>3. AloneInv'
    BY <1>t, <2>1, <2>2 DEF AloneInv, Quiet
  <2>4. ASSUME alone'[c] PROVE Progress(c)'
    <3>1. last # "none"
      BY <2>1, <2>4, ClientsAssumption
    <3>2. sent'[c] = Upto(0) /\ Below(sent'[c], 0) /\ capture_frames_index' = 0
      BY <1>t, <2>1, <3>1, UptoNone DEF AloneInv
    <3>3. Tried(c)' = 0
      BY <2>2, <3>2 DEF Tried
    <3>4. Counted(c)'
      BY <1>n, <2>1, <2>2, <3>2, <3>3 DEF Counted
    <3>5. Owns(c)'
      BY <2>2, Labels DEF Owns
    <3> QED
      BY <3>2, <3>3, <3>4, <3>5 DEF Progress, SentInv
  <2> QED
    BY <1>t, <2>1, <2>3, <2>4 DEF OrderInv
<1>3. ASSUME NEW c \in Clients, Ready(c) PROVE OrderInv'
  <2>1. /\ pc[c] = "ready" /\ pc' = [pc EXCEPT ![c] = "idle"]
        /\ sent' = [sent EXCEPT ![c] = <<>>] /\ refused' = refused \ {c}
        /\ UNCHANGED <<last, alone>>
    BY <1>3 DEF Ready, Returned, Goto
  <2>2. /\ pc'[c] = "idle" /\ sent'[c] = <<>>
        /\ \A d \in Clients : d # c => pc'[d] = pc[d] /\ sent'[d] = sent[d]
    BY <1>t, <2>1 DEF TypeOK
  <2>3. Progress(c)'
    BY <2>2 DEF Progress
  <2> QED
    BY <1>t, <2>1, <2>2, <2>3, OrderMove
<1>4. ASSUME NEW c \in Clients, GetParamEnds(c) PROVE OrderInv'
  <2>1. /\ pc[c] = "params" /\ pc' = [pc EXCEPT ![c] = "idle"]
        /\ UNCHANGED <<conf, sent, refused, last, alone>>
    BY <1>4 DEF GetParamEnds, Goto, mine, hist
  <2>2. pc'[c] = "idle" /\ \A d \in Clients : d # c => pc'[d] = pc[d]
    BY <1>p, <2>1
  <2>3. AloneInv'
    BY <1>t, <2>1, <2>2 DEF AloneInv, conf
  <2>4. \A d \in Clients : d # c => ~ alone[d]
    BY <1>t, <2>1 DEF AloneInv
  <2>5. Progress(c)'
    BY <2>2 DEF Progress
  <2> QED
    BY <1>t, <2>1, <2>3, <2>4, <2>5 DEF OrderInv
<1>5. ASSUME NEW c \in Clients, YuvOpen(c) \/ YuvFormat(c) \/ YuvSelect(c)
      PROVE  OrderInv'
  <2>1. /\ pc[c] \in {"open", "format", "select"}
        /\ UNCHANGED <<conf, sent, read, last, alone>>
        /\ \/ /\ \E l \in {"format", "select", "ytest"} : pc' = [pc EXCEPT ![c] = l]
              /\ refused' = refused
           \/ pc' = [pc EXCEPT ![c] = "ready"] /\ refused' = refused \cup {c}
    BY <1>5 DEF YuvOpen, YuvFormat, YuvSelect, GiveUp, Refuses, Goto, mine
  <2>2. pc'[c] \in {"format", "select", "ytest", "ready"}
    BY <1>p, <2>1
  <2>3. pc'[c] = "ready" => c \in refused'
    BY <1>p, <2>1
  <2>4. ASSUME Progress(c) PROVE Counted(c)' /\ Owns(c)'
    <3>1. capture_frames_index = 0 /\ capture_frames_index' = 0
      BY <2>1, <2>4 DEF Progress, Counted, conf
    <3>2. Tried(c)' = 0
      BY <2>2, <3>1 DEF Tried
    <3>3. Counted(c)'
      BY <1>n, <2>1, <2>2, <2>3, <3>1, <3>2 DEF Counted, conf
    <3>4. pc'[c] \notin HasDev /\ pc'[c] \notin HasStream
      BY <2>2 DEF HasDev, RawLabels, HasStream
    <3> QED
      BY <3>3, <3>4 DEF Owns
  <2> QED
    BY <1>t, <2>1, <2>4, OrderLabel
<1>6. ASSUME NEW c \in Clients, YuvTest(c) \/ RawTest(c) PROVE OrderInv'
  <2> DEFINE l == IF capture_frames_index < capture_frames
                  THEN IF pc[c] = "ytest" THEN "dqbuf" ELSE "frame"
                  ELSE IF pc[c] = "ytest" THEN "close" ELSE "off"
  <2>1. /\ pc[c] \in {"ytest", "rtest"} /\ pc' = [pc EXCEPT ![c] = l]
        /\ UNCHANGED <<conf, sent, refused, last, alone, dev, raw_queue>>
    BY <1>6 DEF YuvTest, RawTest, Test, Goto, mine, hist, queues
  <2>2. pc'[c] = l
    BY <1>p, <2>1
  <2>3. ASSUME Progress(c) PROVE Counted(c)' /\ Owns(c)'
    <3>1. capture_frames_index <= capture_frames
      BY <2>1, <2>3 DEF Progress, Counted, Tried
    <3>2. Tried(c)' = capture_frames_index
      BY <2>1, <2>2 DEF Tried, conf
    <3>3. Counted(c)'
      <4>1. CASE capture_frames_index < capture_frames
        BY <1>n, <2>1, <2>2, <3>2, <4>1 DEF Counted, conf
      <4>2. CASE ~ (capture_frames_index < capture_frames)
        <5>1. capture_frames_index = capture_frames
          BY <1>n, <3>1, <4>2
        <5>2. pc'[c] \in {"close", "off"}
          BY <2>1, <2>2, <4>2
        <5> QED
          BY <1>n, <2>1, <3>2, <5>1, <5>2 DEF Counted, conf
      <4> QED
        BY <4>1, <4>2
    <3>4. Owns(c)
      BY <2>1, <2>3 DEF Progress
    <3>5. /\ pc'[c] \in HasDev <=> pc[c] \in HasDev
          /\ pc'[c] \in HasStream <=> pc[c] \in HasStream
      BY <2>1, <2>2 DEF HasDev, RawLabels, HasStream
    <3>6. Owns(c)'
      BY <2>1, <3>4, <3>5 DEF Owns, dev
    <3> QED
      BY <3>3, <3>6
  <2>4. l \in {"dqbuf", "frame", "close", "off"}
    OBVIOUS
  <2> HIDE DEF l
  <2> QED
    BY <1>t, <2>1, <2>3, <2>4, OrderLabel
<1>7. ASSUME NEW c \in Clients, YuvFrame(c) \/ RawFrame(c) PROVE OrderInv'
  <2> DEFINE l == IF pc[c] = "dqbuf" THEN "yload" ELSE "rload"
  <2>1. /\ pc[c] \in {"dqbuf", "frame"} /\ pc' = [pc EXCEPT ![c] = l]
        /\ UNCHANGED <<conf, last, alone, dev, raw_queue>>
        /\ \/ /\ sent' = [sent EXCEPT ![c] = Append(@, capture_frames_index)]
              /\ refused' = refused
           \/ sent' = sent /\ refused' = refused \cup {c}
           \/ /\ sent' = sent /\ refused' = refused
              /\ pc[c] = "frame" /\ ~ Dequeues
    BY <1>7 DEF YuvFrame, RawFrame, Sends, Refuses, Goto, hist, queues
  <2>2. /\ pc'[c] = l
        /\ \A d \in Clients : d # c => /\ pc'[d] = pc[d] /\ sent'[d] = sent[d]
                                       /\ d \in refused' => d \in refused
    BY <1>t, <2>1 DEF TypeOK
  <2>3. ASSUME alone[c] PROVE Progress(c)'
    <3>1. Counted(c) /\ Owns(c) /\ SentInv(c) /\ Tried(c) = capture_frames_index
      BY <1>q, <2>1, <2>3 DEF Progress, Tried
    <3>2. capture_frames_index < capture_frames
      BY <2>1, <3>1 DEF Counted
    <3>3. l \in {"yload", "rload"} /\ Tried(c)' = capture_frames_index + 1
      BY <2>1, <2>2 DEF Tried, conf
    <3>4. Counted(c)'
      BY <1>n, <2>1, <2>2, <3>2, <3>3 DEF Counted, conf
    <3>5. Owns(c)'
      <4>1. /\ pc'[c] \in HasDev <=> pc[c] \in HasDev
            /\ pc'[c] \in HasStream <=> pc[c] \in HasStream
        BY <2>1, <2>2 DEF HasDev, RawLabels, HasStream
      <4>2. c \notin refused' => c \notin refused
        BY <2>1
      <4> QED
        BY <2>1, <3>1, <4>1, <4>2 DEF Owns, dev
    <3>6. c \notin refused' => sent'[c] = Append(sent[c], capture_frames_index)
      <4> SUFFICES ASSUME c \notin refused', sent' # [sent EXCEPT ![c] = Append(@, capture_frames_index)]
                   PROVE  FALSE
        BY <1>t DEF TypeOK
      <4>1. pc[c] = "frame" /\ ~ Dequeues /\ c \notin refused
        BY <2>1
      <4>2. pc[c] \in HasStream /\ pc[c] \in HasDev
        BY <4>1 DEF HasStream, HasDev, RawLabels
      <4> QED
        BY <3>1, <4>1, <4>2 DEF Owns, Dequeues
    <3>7. sent'[c] = sent[c] \/ sent'[c] = Append(sent[c], capture_frames_index)
      BY <1>t, <2>1 DEF TypeOK
    <3>8. sent[c] \in Seq(Nat) /\ Below(sent[c], capture_frames_index)
      BY <1>t, <3>1 DEF TypeOK, SentInv
    <3>9. Below(sent'[c], capture_frames_index + 1)
      BY <1>n, <3>7, <3>8, BelowNext
    <3>10. c \notin refused' => sent'[c] = Upto(capture_frames_index + 1)
      <4> SUFFICES ASSUME c \notin refused' PROVE sent'[c] = Upto(capture_frames_index + 1)
        OBVIOUS
      <4>1. c \notin refused
        BY <2>1
      <4> QED
        BY <1>n, <3>1, <3>6, <4>1, UptoNext DEF SentInv
    <3> QED
      BY <3>3, <3>4, <3>5, <3>9, <3>10 DEF Progress, SentInv
  <2>4. pc'[c] \notin {"idle", "params"}
    BY <2>2
  <2> QED
    BY <1>t, <2>1, <2>2, <2>3, <2>4, OrderMove
<1>8. ASSUME NEW c \in Clients, YuvLoad(c) \/ RawLoad(c) PROVE OrderInv'
  <2> DEFINE l == IF pc[c] = "yload" THEN "ystore" ELSE "rstore"
  <2>1. /\ pc[c] \in {"yload", "rload"} /\ pc' = [pc EXCEPT ![c] = l]
        /\ read' = [read EXCEPT ![c] = capture_frames_index]
        /\ UNCHANGED <<conf, sent, refused, last, alone, dev, raw_queue>>
    BY <1>8 DEF YuvLoad, RawLoad, Load, Goto, hist, queues
  <2>2. pc'[c] = l /\ read'[c] = capture_frames_index
    BY <1>t, <2>1 DEF TypeOK
  <2>3. ASSUME Progress(c) PROVE Counted(c)' /\ Owns(c)'
    <3>1. Counted(c) /\ Owns(c)
      BY <2>1, <2>3 DEF Progress
    <3>2. Tried(c)' = Tried(c)
      BY <2>1, <2>2 DEF Tried, conf
    <3>3. Counted(c)'
      BY <2>1, <2>2, <3>1, <3>2 DEF Counted, conf
    <3>4. /\ pc'[c] \in HasDev <=> pc[c] \in HasDev
          /\ pc'[c] \in HasStream <=> pc[c] \in HasStream
      BY <2>1, <2>2 DEF HasDev, RawLabels, HasStream
    <3> QED
      BY <2>1, <3>1, <3>3, <3>4 DEF Owns, dev
  <2>4. l \in {"ystore", "rstore"}
    OBVIOUS
  <2> HIDE DEF l
  <2> QED
    BY <1>t, <2>1, <2>3, <2>4, OrderLabel
<1>9. ASSUME NEW c \in Clients, YuvStore(c) \/ RawStore(c) PROVE OrderInv'
  <2> DEFINE l == IF pc[c] = "ystore" THEN "ytest" ELSE "rtest"
  <2>1. /\ pc[c] \in {"ystore", "rstore"} /\ pc' = [pc EXCEPT ![c] = l]
        /\ capture_frames_index' = read[c] + 1
        /\ UNCHANGED <<capture_frames, sent, refused, last, alone, dev, raw_queue>>
    BY <1>9 DEF YuvStore, RawStore, Store, Goto, hist, queues
  <2>2. pc'[c] = l /\ \A d \in Clients : d # c => pc'[d] = pc[d] /\ sent'[d] = sent[d]
    BY <1>t, <2>1 DEF TypeOK
  <2>3. ASSUME alone[c] PROVE Progress(c)'
    <3>1. /\ Counted(c) /\ Owns(c) /\ SentInv(c)
          /\ Tried(c) = capture_frames_index + 1
      BY <1>q, <2>1, <2>3 DEF Progress, Tried
    <3>2. read[c] = capture_frames_index
      BY <2>1, <3>1 DEF Counted
    <3>3. l \in {"ytest", "rtest"} /\ Tried(c)' = Tried(c)
      BY <2>1, <2>2, <3>1, <3>2 DEF Tried
    <3>4. Counted(c)'
      BY <2>1, <2>2, <3>1, <3>3 DEF Counted
    <3>5. /\ pc'[c] \in HasDev <=> pc[c] \in HasDev
          /\ pc'[c] \in HasStream <=> pc[c] \in HasStream
      BY <2>1, <2>2 DEF HasDev, RawLabels, HasStream
    <3>6. Owns(c)'
      BY <2>1, <3>1, <3>5 DEF Owns, dev
    <3>7. SentInv(c)'
      BY <2>1, <3>1, <3>3 DEF SentInv
    <3> QED
      BY <3>4, <3>6, <3>7 DEF Progress
  <2>4. pc'[c] \notin {"idle", "params"}
    BY <2>2
  <2> QED
    BY <1>t, <2>1, <2>2, <2>3, <2>4, OrderMove
<1>10. ASSUME NEW c \in Clients, YuvClose(c) \/ RawStop(c) \/ RawUninit(c)
       PROVE  OrderInv'
  <2> DEFINE l == IF pc[c] = "off" THEN "uninit" ELSE "ready"
  <2>1. /\ pc[c] \in {"close", "off", "uninit"} /\ pc' = [pc EXCEPT ![c] = l]
        /\ UNCHANGED <<conf, sent, refused, last, alone>>
        /\ pc[c] = "off" => UNCHANGED dev
    BY <1>10 DEF YuvClose, RawStop, RawUninit, Goto, mine, hist
  <2>2. pc'[c] = l
    BY <1>p, <2>1
  <2>3. ASSUME Progress(c) PROVE Counted(c)' /\ Owns(c)'
    <3>1. Counted(c) /\ Owns(c) /\ capture_frames_index = capture_frames
      BY <2>1, <2>3 DEF Progress, Counted
    <3>2. Tried(c)' = capture_frames_index
      BY <2>1, <2>2 DEF Tried, conf
    <3>3. Counted(c)'
      BY <1>n, <2>1, <2>2, <3>1, <3>2 DEF Counted, conf
    <3>4. /\ pc'[c] \in HasDev => pc[c] = "off" /\ pc[c] \in HasDev
          /\ pc'[c] \notin HasStream
      BY <2>1, <2>2 DEF HasDev, RawLabels, HasStream
    <3> QED
      BY <2>1, <3>1, <3>3, <3>4 DEF Owns, dev
  <2>4. l \in {"ready", "uninit"}
    OBVIOUS
  <2> HIDE DEF l
  <2> QED
    BY <1>t, <2>1, <2>3, <2>4, OrderLabel
<1>11. ASSUME NEW c \in Clients, RawInit(c) PROVE OrderInv'
  <2>1. /\ pc[c] = "init" /\ pc' = [pc EXCEPT ![c] = "stream"] /\ opens' = opens + 1
        /\ UNCHANGED <<conf, sent, last, alone>>
        /\ \/ refused' = refused \cup {c}
           \/ refused' = refused /\ dev_fd' = opens' /\ buffers' = opens'
    BY <1>11 DEF RawInit, Refuses, Goto, mine
  <2>2. pc'[c] = "stream"
    BY <1>p, <2>1
  <2>3. ASSUME Progress(c) PROVE Counted(c)' /\ Owns(c)'
    <3>1. capture_frames_index = 0
      BY <2>1, <2>3 DEF Progress, Counted
    <3>2. Counted(c)'
      BY <1>n, <2>1, <2>2, <3>1 DEF Counted, Tried, conf
    <3>3. opens' # 0
      BY <1>t, <2>1 DEF TypeOK
    <3>4. Owns(c)'
      BY <2>1, <2>2, <3>3, Labels DEF Owns
    <3> QED
      BY <3>2, <3>4
  <2> QED
    BY <1>t, <2>1, <2>3, OrderLabel
<1>12. ASSUME NEW c \in Clients, RawStream(c) PROVE OrderInv'
  <2> DEFINE l == IF capture_frames_index = 0 THEN "skip" ELSE "rtest"
  <2>1. /\ pc[c] = "stream" /\ pc' = [pc EXCEPT ![c] = l]
        /\ UNCHANGED <<conf, sent, last, alone, dev>>
        /\ \/ refused' = refused \cup {c}
           \/ refused' = refused /\ raw_queue' = dev_fd
    BY <1>12 DEF RawStream, Refuses, Goto, mine
  <2>2. pc'[c] = l
    BY <1>p, <2>1
  <2>3. ASSUME Progress(c) PROVE Counted(c)' /\ Owns(c)'
    <3>1. capture_frames_index = 0 /\ Owns(c)
      BY <2>1, <2>3 DEF Progress, Counted
    <3>2. Counted(c)'
      BY <1>n, <2>1, <2>2, <3>1 DEF Counted, Tried, conf
    <3>4. Owns(c)'
      BY <2>1, <3>1, Labels DEF Owns, dev
    <3> QED
      BY <3>2, <3>4
  <2>4. l \in {"skip", "rtest"}
    OBVIOUS
  <2> HIDE DEF l
  <2> QED
    BY <1>t, <2>1, <2>3, <2>4, OrderLabel
<1>13. ASSUME NEW c \in Clients, RawSkip(c) PROVE OrderInv'
  <2>1. /\ pc[c] = "skip" /\ pc' = [pc EXCEPT ![c] = "rtest"]
        /\ UNCHANGED <<conf, sent, refused, last, alone, dev, raw_queue>>
    BY <1>13 DEF RawSkip, Goto, mine, hist, queues
  <2>2. pc'[c] = "rtest"
    BY <1>p, <2>1
  <2>3. ASSUME Progress(c) PROVE Counted(c)' /\ Owns(c)'
    <3>1. capture_frames_index = 0 /\ Owns(c)
      BY <2>1, <2>3 DEF Progress, Counted
    <3>2. Counted(c)'
      BY <1>n, <2>1, <2>2, <3>1 DEF Counted, Tried, conf
    <3>3. Owns(c)'
      BY <2>1, <3>1, Labels DEF Owns, dev
    <3> QED
      BY <3>2, <3>3
  <2> QED
    BY <1>t, <2>1, <2>3, OrderLabel
<1>14. ASSUME UNCHANGED <<pc, conf, dev, queues, read, sent, refused, last, alone>>
       PROVE  OrderInv'
  <2>1. AloneInv'
    BY <1>t, <1>14 DEF AloneInv, conf
  <2>2. ASSUME NEW c \in Clients PROVE Progress(c)' <=> Progress(c)
    <3>1. Tried(c)' = Tried(c)
      BY <1>14 DEF Tried, conf
    <3>2. Counted(c)' <=> Counted(c)
      BY <1>14, <3>1 DEF Counted, conf
    <3>3. Owns(c)' <=> Owns(c)
      BY <1>14 DEF Owns, dev, queues
    <3>4. SentInv(c)' <=> SentInv(c)
      BY <1>14, <3>1 DEF SentInv
    <3> QED
      BY <1>14, <3>2, <3>3, <3>4 DEF Progress
  <2> QED
    BY <1>t, <1>q, <1>14, <2>1, <2>2 DEF OrderInv
<1>15. CASE CameraStops \/ CameraResumes
  BY <1>14, <1>15 DEF CameraStops, CameraResumes, mine, hist
<1>16. CASE UNCHANGED vars
  BY <1>14, <1>16 DEF vars, mine, hist
<1>17. ASSUME NEW c \in Clients, RawDies(c) PROVE OrderInv'
  BY <1>14, <1>17 DEF RawDies, mine, hist
<1>18. ASSUME NEW c \in Clients, Handler(c) PROVE OrderInv'
  BY <1>3, <1>4, <1>5, <1>6, <1>7, <1>8, <1>9, <1>10, <1>11, <1>12, <1>13, <1>17, <1>18
  DEF Handler, DoCaptureYuv, DoCaptureOnlineRaw
<1> QED
  BY <1>1, <1>2, <1>15, <1>16, <1>18 DEF Next, HandlerOnLineMessage

(* A PC that nobody disturbs gets no frame twice, out of order or beyond   *)
(* the number it asked for, and all of them when no device call of its     *)
(* START failed and the callback refused none: for any number of PCs and   *)
(* frames, whatever captures failed or raced before.                       *)
THEOREM AloneCorrect == Spec => []AloneIsComplete
<1>1. Spec => []OrderInv
  BY OrderInit, OrderStep, PTL DEF Spec
<1>2. OrderInv => AloneIsComplete
  <2> SUFFICES ASSUME OrderInv, NEW c \in Clients, pc[c] = "ready", alone[c]
               PROVE  /\ Increasing(sent[c])
                      /\ \A k \in DOMAIN sent[c] : sent[c][k] < capture_frames
                      /\ c \notin refused =>
                           sent[c] = [k \in 1 .. capture_frames |-> k - 1]
    BY DEF AloneIsComplete
  <2>1. Counted(c) /\ SentInv(c) /\ Tried(c) = capture_frames_index
    BY DEF OrderInv, Progress, Tried
  <2>2. /\ capture_frames \in Nat /\ capture_frames_index \in Nat
        /\ capture_frames_index <= capture_frames /\ sent[c] \in Seq(Nat)
    BY <2>1, CountsAssumption DEF OrderInv, YuvInv, TypeOK, Counted
  <2>3. c \notin refused => sent[c] = Upto(capture_frames)
    BY <2>1 DEF Counted, SentInv
  <2>4. Increasing(sent[c]) /\ \A k \in DOMAIN sent[c] : sent[c][k] < capture_frames_index
    BY <2>1 DEF SentInv, Below
  <2>5. \A k \in DOMAIN sent[c] : sent[c][k] \in Nat
    BY <2>2
  <2>6. \A k \in DOMAIN sent[c] : sent[c][k] < capture_frames
    BY <2>2, <2>4, <2>5
  <2> QED
    BY <2>3, <2>4, <2>6 DEF Upto
<1> QED
  BY <1>1, <1>2, PTL
=============================================================================
