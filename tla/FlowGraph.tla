------------------------------ MODULE FlowGraph ------------------------------
(***************************************************************************)
(* The media pipeline as init_rtsp builds it and deinit_rtsp takes it down *)
(* (rtsp_server.cpp): a capture flow feeds an encoder flow and a dump      *)
(* flow, the encoder flow feeds the RTSP flow.                             *)
(*                                                                         *)
(* Flows are held by shared pointers: the globals of rtsp_server.cpp, the  *)
(* lists of the flows upstream, and the copy of that list a thread sends   *)
(* from.  Whichever thread drops the last one runs the destructor, and so  *)
(* joins the flow's own thread.  Frames of the camera go back to the       *)
(* driver when the last pointer to them goes, and keep the device open     *)
(* until then.                                                             *)
(*                                                                         *)
(* One asynchronous input in detail is FlowInput, whose names this module  *)
(* leaves free, for a module that extends both; here a push and a pop are  *)
(* one step each.  What the RTSP flow's thread does with a packet is       *)
(* RtspOutput; here it ends.                                               *)
(***************************************************************************)
EXTENDS Integers, Sequences, FiniteSets, SequencesExt

CONSTANTS
  NumBuffers,   \* frames the driver has (KEY_FRAMES)
  EncCache,     \* input_maxcachenum of the encoder flow
  MaxStarts,    \* calls of init_rtsp (bound)
  MaxFrames,    \* frames the camera gives in each session, if any (bound)
  NoFrame       \* nullptr to a downstream flow; a packet to the RTSP flow

ASSUME SizesAssumption ==
  /\ NumBuffers \in Nat \ {0} /\ EncCache \in Nat \ {0}
  /\ MaxStarts \in Nat \ {0}
  /\ MaxFrames \in [1 .. MaxStarts -> Nat]

Kinds == {"cap", "enc", "rtsp", "dump"}
Sessions == 1 .. MaxStarts
Flows == Kinds \X Sessions
Frames == (1 .. NumBuffers) \X Sessions
Items == Frames \cup {NoFrame}
Main == <<"main", 0>>

Kind(f) == f[1]
Session(f) == f[2]

ASSUME NoFrameAssumption == NoFrame \notin Frames
ASSUME MainAssumption == Main \notin Flows

VARIABLES
  mpc, starting,    \* the thread in init_rtsp or deinit_rtsp
  session,          \* calls of init_rtsp so far
  handle,           \* video_cap_flow, g_video_enc_flow, ...; 0: nullptr
  life, owner,      \* of each flow: how far its destructor is, who runs it
  down,             \* FlowMap::flows
  tpc, flows, next, \* each flow's thread: label, RunOnce's copy, next to send
  cached, hand,     \* cached_buffers and in_vector of each flow
  device,           \* V4L2Context of each session
  streaming,        \* V4L2Context::started
  started,          \* V4L2CaptureStream::started
  frames,           \* frames the camera still gives
  late              \* history: threads that began to wait, or to stream, after
                    \* the destructor had done its part to end that

main == <<mpc, starting, session, handle>>
refs == <<life, owner, down>>
threads == <<tpc, flows, next>>
camera == <<device, streaming, started, frames, late>>
graphVars == <<main, refs, threads, cached, hand, camera>>

MainTypeOK ==
  /\ mpc \in {"idle", "unlinkDump", "unlinkEnc", "unlinkRtsp", "resetRtsp",
              "resetEnc", "resetCap", "createCap", "createEnc", "createDump",
              "linkRtsp", "linkEnc", "linkDump", "exit"}
  /\ starting \in BOOLEAN
  /\ session \in 0 .. MaxStarts
  /\ handle \in [Kinds -> 0 .. MaxStarts]

RefsTypeOK ==
  /\ life \in [Flows -> {"none", "alive", "stop", "off", "notify", "join",
                         "dead"}]
  /\ owner \in [Flows -> Flows \cup {Main}]
  /\ down \in [Flows -> Seq(Flows)]

ThreadsTypeOK ==
  /\ tpc \in [Flows -> {"none", "lock", "waiting", "test", "read", "dqbuf",
                        "fetch", "take", "send", "reset", "done"}]
  /\ flows \in [Flows -> Seq(Flows)]
  /\ next \in [Flows -> Nat \ {0}]

FramesTypeOK ==
  /\ cached \in [Flows -> Seq(Items)]
  /\ hand \in [Flows -> Items]

CameraTypeOK ==
  /\ device \in [Sessions -> {"none", "open", "closed"}]
  /\ streaming \in [Sessions -> BOOLEAN] /\ started \in [Sessions -> BOOLEAN]
  /\ frames \in [Sessions -> Nat]
  /\ late \subseteq Flows

GraphTypeOK ==
  MainTypeOK /\ RefsTypeOK /\ ThreadsTypeOK /\ FramesTypeOK /\ CameraTypeOK

GraphInit ==
  /\ mpc = "idle" /\ starting = FALSE /\ session = 0
  /\ handle = [k \in Kinds |-> 0]
  /\ life = [f \in Flows |-> "none"]
  /\ owner = [f \in Flows |-> Main]
  /\ down = [f \in Flows |-> <<>>]
  /\ tpc = [f \in Flows |-> "none"]
  /\ flows = [f \in Flows |-> <<>>]
  /\ next = [f \in Flows |-> 1]
  /\ cached = [f \in Flows |-> <<>>]
  /\ hand = [f \in Flows |-> NoFrame]
  /\ device = [s \in Sessions |-> "none"]
  /\ streaming = [s \in Sessions |-> FALSE]
  /\ started = [s \in Sessions |-> FALSE]
  /\ frames = [s \in Sessions |-> 0]
  /\ late = {}
-----------------------------------------------------------------------------
(* Shared pointers.                                                        *)

\* StopAllThread has stored enable = false and quit = true.
Stopped(f) == life[f] \notin {"none", "alive", "stop"}

\* A thread that runs a destructor does nothing else until it ends.
Busy(t) == \E f \in Flows : owner[f] = t
                            /\ life[f] \in {"stop", "off", "notify", "join"}

\* Variant: the copy a thread sends from holds no pointers.
ReferencedByLists(f, h, d, c) ==
  h[Kind(f)] = Session(f) \/ \E u \in Flows : f \in Range(d[u])

Referenced(f, h, d, c) ==
  \/ h[Kind(f)] = Session(f)
  \/ \E u \in Flows : f \in Range(d[u]) \cup Range(c[u])

\* Thread t drops pointers, which leaves the handles h, lists d and copies c:
\* it destroys what nobody holds any more.
DropPointers(t, h, d, c) ==
  LET lost == {f \in Flows : life[f] = "alive" /\ ~ Referenced(f, h, d, c)} IN
  /\ life' = [f \in Flows |-> IF f \in lost THEN "stop" ELSE life[f]]
  /\ owner' = [f \in Flows |-> IF f \in lost THEN t ELSE owner[f]]

Held(b, q, i) == \E f \in Flows : b \in Range(q[f]) \cup {i[f]}

\* Variant: nobody closes the device.
DropFramesLeavesOpen(q, i, l) == cached' = q /\ hand' = i /\ device' = device

\* The queues become q and the in_vectors i.  A frame that leaves them is
\* queued in the driver again, and the last of a stream that is gone, as l
\* says, closes the device.
DropFrames(q, i, l) ==
  /\ cached' = q /\ hand' = i
  /\ device' = [s \in Sessions |->
                  IF /\ device[s] = "open" /\ l[<<"cap", s>>] = "dead"
                     /\ \A b \in Frames : Session(b) = s => ~ Held(b, q, i)
                  THEN "closed" ELSE device[s]]
-----------------------------------------------------------------------------
(* init_rtsp and deinit_rtsp.                                              *)

Go(l) == mpc' = l
At(l) == mpc = l /\ ~ Busy(Main)
HandleOf(k) == <<k, handle[k]>>
Have(k) == handle[k] # 0

CallInit ==
  /\ At("idle") /\ session < MaxStarts
  /\ starting' = TRUE /\ Go("unlinkDump")
  /\ UNCHANGED <<session, handle, refs, threads, cached, hand, camera>>

\* When nothing is up the call does nothing, as the one in the first init_rtsp.
CallDeinit ==
  /\ At("idle") /\ Have("cap")
  /\ starting' = FALSE /\ Go("unlinkDump")
  /\ UNCHANGED <<session, handle, refs, threads, cached, hand, camera>>

\* FlowMap::AddFlow and RemoveFlow: a list names a flow at most once.
AddFlow(s, f) == IF f \in Range(s) THEN s ELSE Append(s, f)
RemoveFlow(s, f) == RemoveFirst(s, f)

\* Flow::RemoveDownFlow: the argument is a copy of the pointer, so the flow
\* stays.  A source's thread that still waits for a flow is notified.
RemoveDownFlow(u, k, l) ==
  /\ down' = IF Have(u) /\ Have(k)
             THEN [down EXCEPT ![HandleOf(u)] = RemoveFlow(@, HandleOf(k))]
             ELSE down
  /\ tpc' = [f \in Flows |->
               IF Have(u) /\ Have(k) /\ f = HandleOf(u) /\ Kind(f) = "cap"
                  /\ tpc[f] = "waiting"
               THEN "test" ELSE tpc[f]]
  /\ Go(l)
  /\ UNCHANGED <<starting, session, handle, life, owner, flows, next, cached,
                 hand, camera>>

UnlinkDump == At("unlinkDump") /\ RemoveDownFlow("cap", "dump", "unlinkEnc")
UnlinkEnc == At("unlinkEnc") /\ RemoveDownFlow("cap", "enc", "unlinkRtsp")
UnlinkRtsp == At("unlinkRtsp") /\ RemoveDownFlow("enc", "rtsp", "resetRtsp")

\* std::shared_ptr::reset of a global.
ResetHandle(k, l) ==
  /\ handle' = [handle EXCEPT ![k] = 0]
  /\ DropPointers(Main, handle', down, flows)
  /\ Go(l)
  /\ UNCHANGED <<starting, session, down, threads, cached, hand, camera>>

ResetRtsp == At("resetRtsp") /\ ResetHandle("rtsp", "resetEnc")
ResetEnc == At("resetEnc") /\ ResetHandle("enc", "resetCap")
ResetCap ==
  /\ At("resetCap")
  /\ ResetHandle("cap", IF starting THEN "createCap" ELSE "idle")

\* The driver refuses buffers to a second file while the first is open, and
\* create_video_capture_flow then ends the program.
CreateCap ==
  /\ At("createCap")
  /\ IF \E s \in Sessions : device[s] = "open"
     THEN Go("exit") /\ UNCHANGED <<session, handle, refs, threads, camera>>
     ELSE LET s == session + 1 f == <<"cap", s>> IN
          /\ session' = s
          /\ handle' = [handle EXCEPT !["cap"] = s]
          /\ life' = [life EXCEPT ![f] = "alive"]
          /\ tpc' = [tpc EXCEPT ![f] = "lock"]
          /\ device' = [device EXCEPT ![s] = "open"]
          /\ \E n \in {0, MaxFrames[s]} : frames' = [frames EXCEPT ![s] = n]
          /\ Go("createEnc")
          /\ UNCHANGED <<owner, down, flows, next, streaming, started, late>>
  /\ UNCHANGED <<starting, cached, hand>>

\* The encoder and the RTSP flow, whose threads start to wait for input.
CreateEnc ==
  /\ At("createEnc")
  /\ LET new == {<<"enc", session>>, <<"rtsp", session>>} IN
     /\ life' = [f \in Flows |-> IF f \in new THEN "alive" ELSE life[f]]
     /\ tpc' = [f \in Flows |-> IF f \in new THEN "test" ELSE tpc[f]]
  /\ handle' = [handle EXCEPT !["enc"] = session, !["rtsp"] = session]
  /\ Go("createDump")
  /\ UNCHANGED <<starting, session, owner, down, flows, next, cached, hand,
                 camera>>

\* The assignment drops the dump flow of the session before.
CreateDump ==
  /\ At("createDump")
  /\ LET new == <<"dump", session>>
         old == HandleOf("dump")
     IN /\ life' = [f \in Flows |-> CASE f = new -> "alive"
                                      [] f = old -> "stop"
                                      [] OTHER -> life[f]]
        /\ owner' = [f \in Flows |-> IF f = old THEN Main ELSE owner[f]]
        /\ tpc' = [tpc EXCEPT ![new] = "test"]
  /\ handle' = [handle EXCEPT !["dump"] = session]
  /\ Go("linkRtsp")
  /\ UNCHANGED <<starting, session, down, flows, next, cached, hand, camera>>

\* Variant: the source is not notified.
AddDownFlowSilently(u, k, l) ==
  /\ down' = [down EXCEPT ![HandleOf(u)] = AddFlow(@, HandleOf(k))]
  /\ Go(l)
  /\ UNCHANGED <<starting, session, handle, life, owner, threads, cached, hand,
                 camera>>

\* Flow::AddDownFlow, which starts a source that waits.
AddDownFlow(u, k, l) ==
  /\ down' = [down EXCEPT ![HandleOf(u)] = AddFlow(@, HandleOf(k))]
  /\ tpc' = [f \in Flows |-> IF f = HandleOf(u) /\ tpc[f] = "waiting"
                                /\ Kind(f) = "cap"
                             THEN "test" ELSE tpc[f]]
  /\ Go(l)
  /\ UNCHANGED <<starting, session, handle, life, owner, flows, next, cached,
                 hand, camera>>

LinkRtsp == At("linkRtsp") /\ AddDownFlow("enc", "rtsp", "linkEnc")
LinkEnc == At("linkEnc") /\ AddDownFlow("cap", "enc", "linkDump")
LinkDump == At("linkDump") /\ AddDownFlow("cap", "dump", "idle")
-----------------------------------------------------------------------------
(* Flow::SendInput of a downstream flow, for the thread of flow f.         *)

GoThread(f, l) == tpc' = [tpc EXCEPT ![f] = l]
Running(f, l) == tpc[f] = l /\ ~ Busy(f)

\* The push itself: the encoder's input drops its front when it is full.
Pushed(d, b) ==
  IF Kind(d) = "enc" /\ Len(cached[d]) >= EncCache
  THEN [cached EXCEPT ![d] = Append(Tail(@), b)]
  ELSE [cached EXCEPT ![d] = Append(@, b)]

\* The frame a capture flow passes on; the encoder passes packets, or
\* nullptr when it had no frame.
ToSend(f) == IF Kind(f) = "cap" THEN hand[f] ELSE NoFrame

\* FlowCoroutine::RunOnce copies the list and, with it, the pointers.
CopyFlows(f) == flows' = [flows EXCEPT ![f] = down[f]]

SendDown(f) ==
  /\ Running(f, "send") /\ next[f] <= Len(flows[f])
  /\ LET d == flows[f][next[f]] IN
     /\ DropFrames(IF Stopped(d) THEN cached ELSE Pushed(d, ToSend(f)), hand,
                   life)
     /\ tpc' = IF ~ Stopped(d) /\ tpc[d] = "waiting"
               THEN [tpc EXCEPT ![d] = "take"] ELSE tpc
  /\ next' = [next EXCEPT ![f] = @ + 1]
  /\ UNCHANGED <<main, refs, flows, streaming, started, frames, late>>

\* The copy goes out of scope, before the in_vector is reset.
DropCopy(f) ==
  /\ Running(f, "send") /\ next[f] > Len(flows[f])
  /\ flows' = [flows EXCEPT ![f] = <<>>]
  /\ next' = [next EXCEPT ![f] = 1]
  /\ DropPointers(f, handle, down, flows')
  /\ GoThread(f, "reset")
  /\ UNCHANGED <<main, down, cached, hand, camera>>

ResetInput(f) ==
  /\ Running(f, "reset")
  /\ DropFrames(cached, [hand EXCEPT ![f] = NoFrame], life)
  /\ GoThread(f, "test")
  /\ UNCHANGED <<main, refs, flows, next, streaming, started, frames, late>>
-----------------------------------------------------------------------------
(* SourceFlow::ReadThreadRun.                                              *)

StartCond(f) ==
  /\ Kind(f) = "cap" /\ tpc[f] = "lock"
  /\ GoThread(f, IF down[f] = <<>> /\ ~ Stopped(f) THEN "waiting" ELSE "test")
  /\ UNCHANGED <<main, refs, flows, next, cached, hand, camera>>

TestLoop(f) ==
  /\ Kind(f) = "cap" /\ Running(f, "test")
  /\ GoThread(f, IF Stopped(f) THEN "done"
                 ELSE IF started[Session(f)] THEN "dqbuf" ELSE "read")
  /\ UNCHANGED <<main, refs, flows, next, cached, hand, camera>>

\* V4L2CaptureStream::Read starts the stream, the first time.
Read(f) ==
  /\ tpc[f] = "read"
  /\ started' = [started EXCEPT ![Session(f)] = TRUE]
  /\ streaming' = [streaming EXCEPT ![Session(f)] = TRUE]
  /\ late' = IF life[f] \in {"notify", "join"} THEN late \cup {f} ELSE late
  /\ GoThread(f, "dqbuf")
  /\ UNCHANGED <<main, refs, flows, next, cached, hand, device, frames>>

InDriver(s) == {b \in Frames : Session(b) = s /\ ~ Held(b, cached, hand)}

\* The flow passes on what was read if it is enabled, else drops it: RunOnce
\* up to the copy, or nothing.
PassOn(f, b) ==
  IF Stopped(f)
  THEN GoThread(f, "test") /\ UNCHANGED <<hand, flows>>
  ELSE GoThread(f, "send") /\ CopyFlows(f) /\ hand' = [hand EXCEPT ![f] = b]

\* VIDIOC_DQBUF gives a frame, or an empty one that goes back at once.  Which
\* of its frames the driver fills makes no difference.
Dqbuf(f) ==
  LET s == Session(f) IN
  /\ tpc[f] = "dqbuf" /\ streaming[s]
  /\ frames[s] > 0 /\ InDriver(s) # {}
  /\ frames' = [frames EXCEPT ![s] = @ - 1]
  /\ \E b \in {CHOOSE b \in InDriver(s) : TRUE, NoFrame} : PassOn(f, b)
  /\ UNCHANGED <<main, refs, next, cached, device, streaming, started, late>>

\* It fails when the stream has been switched off, also under it.
DqbufFails(f) ==
  /\ tpc[f] = "dqbuf" /\ ~ streaming[Session(f)]
  /\ PassOn(f, NoFrame)
  /\ UNCHANGED <<main, refs, next, cached, camera>>
-----------------------------------------------------------------------------
(* FlowCoroutine::WhileRun, the thread of the other flows.                 *)

\* Only the thread itself takes from a queue, so that one that is not empty
\* stays so.
WhileRun(f) ==
  /\ Kind(f) # "cap" /\ Running(f, "test")
  /\ GoThread(f, IF Stopped(f) THEN "done"
                 ELSE IF cached[f] = <<>> THEN "fetch" ELSE "take")
  /\ UNCHANGED <<main, refs, flows, next, cached, hand, camera>>

\* ASyncFetchInputCommon: under cond_mtx it looks at the queue and waits.
FetchInput(f) ==
  /\ tpc[f] = "fetch"
  /\ IF cached[f] = <<>>
     THEN /\ GoThread(f, "waiting")
          /\ late' = IF life[f] = "join" THEN late \cup {f} ELSE late
     ELSE GoThread(f, "take") /\ UNCHANGED late
  /\ UNCHANGED <<main, refs, flows, next, cached, hand, device, streaming,
                 started, frames>>

\* Then, without it, takes the front, or nullptr when the flow is stopped, and
\* calls the process function.  The encoder sends a packet down, or nothing
\* when it has made none; without a frame it sends nullptr.  The other two
\* flows have nothing below them.
FetchAndProcess(f) ==
  LET empty == cached[f] = <<>> \/ Stopped(f) IN
  /\ tpc[f] = "take"
  /\ IF empty
     THEN UNCHANGED <<cached, hand, device>>
     ELSE DropFrames([cached EXCEPT ![f] = Tail(@)],
                     [hand EXCEPT ![f] = Head(cached[f])], life)
  /\ IF Kind(f) = "enc"
     THEN /\ CopyFlows(f)
          /\ next' \in IF hand'[f] = NoFrame THEN {next}
                       ELSE {next, [next EXCEPT ![f] = Len(down[f]) + 1]}
          /\ GoThread(f, "send")
     ELSE /\ GoThread(f, IF hand'[f] = NoFrame THEN "test" ELSE "reset")
          /\ UNCHANGED <<flows, next>>
  /\ UNCHANGED <<main, refs, streaming, started, frames, late>>
-----------------------------------------------------------------------------
(* Destructors, run by the owner.                                          *)

Advance(f, l) == life' = [life EXCEPT ![f] = l]

\* StopAllThread stores the two flags ...
StopAllThread(f) ==
  /\ life[f] = "stop"
  /\ Advance(f, IF Kind(f) = "cap" THEN "off" ELSE "notify")
  /\ UNCHANGED <<main, owner, down, threads, cached, hand, camera>>

\* Variant: the stream is left on until it is closed.
StreamOffSkipped(f) ==
  /\ life[f] = "off"
  /\ Advance(f, "notify")
  /\ UNCHANGED <<main, owner, down, threads, cached, hand, camera>>

\* ... SourceFlow::~SourceFlow switches the stream off ...
StreamOff(f) ==
  /\ life[f] = "off"
  /\ streaming' = [streaming EXCEPT ![Session(f)] = FALSE]
  /\ Advance(f, "notify")
  /\ UNCHANGED <<main, owner, down, threads, cached, hand, device, started,
                 frames, late>>

\* ... and notifies under the mutex, once.
NotifyThread(f) ==
  /\ life[f] = "notify"
  /\ tpc' = [tpc EXCEPT ![f] = IF @ # "waiting" THEN @
                               ELSE IF Kind(f) = "cap" THEN "test" ELSE "take"]
  /\ Advance(f, "join")
  /\ UNCHANGED <<main, owner, down, flows, next, cached, hand, camera>>

\* Variant: the source's thread is detached.
JoinDetached(f) ==
  /\ life[f] = "join" /\ (tpc[f] = "done" \/ Kind(f) = "cap")
  /\ Advance(f, "dead")
  /\ down' = [down EXCEPT ![f] = <<>>]
  /\ DropFrames([cached EXCEPT ![f] = <<>>], [hand EXCEPT ![f] = NoFrame],
                life')
  /\ IF Kind(f) = "cap"
     THEN /\ streaming' = [streaming EXCEPT ![Session(f)] = FALSE]
          /\ started' = [started EXCEPT ![Session(f)] = FALSE]
          /\ frames' = [frames EXCEPT ![Session(f)] = 0]
     ELSE UNCHANGED <<streaming, started, frames>>
  /\ owner' = [owner EXCEPT ![f] = Main]
  /\ late' = late \ {f}
  /\ UNCHANGED <<main, threads>>

\* The thread has ended: the stream is closed, the members are destroyed.
Join(f) ==
  /\ life[f] = "join" /\ tpc[f] = "done"
  /\ Advance(f, "dead")
  /\ down' = [down EXCEPT ![f] = <<>>]
  /\ DropFrames([cached EXCEPT ![f] = <<>>], [hand EXCEPT ![f] = NoFrame],
                life')
  /\ IF Kind(f) = "cap"
     THEN /\ streaming' = [streaming EXCEPT ![Session(f)] = FALSE]
          /\ started' = [started EXCEPT ![Session(f)] = FALSE]
          /\ frames' = [frames EXCEPT ![Session(f)] = 0]
     ELSE UNCHANGED <<streaming, started, frames>>
  /\ owner' = [owner EXCEPT ![f] = Main]
  /\ late' = late \ {f}
  /\ UNCHANGED <<main, threads>>
-----------------------------------------------------------------------------
InitOrDeinit ==
  \/ UnlinkDump \/ UnlinkEnc \/ UnlinkRtsp
  \/ ResetRtsp \/ ResetEnc \/ ResetCap
  \/ CreateCap \/ CreateEnc \/ CreateDump
  \/ LinkRtsp \/ LinkEnc \/ LinkDump

\* The first conjuncts repeat what each of the actions asks for, once for all.
Thread(f) ==
  /\ tpc[f] \notin {"none", "waiting", "done"}
  /\ \/ SendDown(f) \/ DropCopy(f) \/ ResetInput(f)
     \/ StartCond(f) \/ TestLoop(f) \/ Read(f) \/ Dqbuf(f) \/ DqbufFails(f)
     \/ WhileRun(f) \/ FetchInput(f) \/ FetchAndProcess(f)

Destructor(f) ==
  /\ life[f] \notin {"none", "alive", "dead"}
  /\ StopAllThread(f) \/ StreamOff(f) \/ NotifyThread(f) \/ Join(f)

Run == InitOrDeinit \/ \E f \in Flows : Thread(f) \/ Destructor(f)

GraphNext == CallInit \/ CallDeinit \/ Run

GraphSpec == GraphInit /\ [][GraphNext]_graphVars

\* As long as a thread can take a step, one does.  Between two calls the
\* threads take finitely many, so that it need not be said of each.  Nothing
\* makes anybody call, or the camera give more frames than it does.
GraphFairSpec == GraphSpec /\ WF_graphVars(Run)
-----------------------------------------------------------------------------
(* Properties.                                                             *)

\* A thread that sends to a flow finds it alive: the destructor has not begun
\* while RunOnce's copy of the list still names it.
TargetAlive ==
  \A f \in Flows : tpc[f] = "send" =>
    \A i \in next[f] .. Len(flows[f]) : life[flows[f][i]] = "alive"

\* When deinit_rtsp has returned, the capture, encoder and RTSP flows are
\* gone with their threads, also those that another thread had to destroy.
\* Only the dump flow, which the global still names, is left.
PipelineGone ==
  (At("idle") /\ ~ starting) =>
    \A f \in Flows : Kind(f) # "dump" => life[f] \in {"none", "dead"}

\* init_rtsp finds the camera busy, and ends the program, only because of
\* frames the dump flow still has.
BusyOnlyForDump ==
  (At("createCap") \/ At("exit")) =>
    \A s \in Sessions : device[s] = "open" =>
      \E b \in Frames :
        /\ Session(b) = s
        /\ \E f \in Flows :
             Kind(f) = "dump" /\ b \in Range(cached[f]) \cup {hand[f]}

\* init_rtsp and deinit_rtsp return, whatever the threads are doing, but for
\* two cases the code leaves open.  StopAllThread stores quit without cond_mtx
\* and notifies once: a thread that tested quit before and waits after that
\* is joined for ever.  And a first Read after S_STREAM_OFF starts the stream
\* again, and waits for a camera that may give nothing.
Returns == []<>(At("idle") \/ At("exit") \/ late # {})

\* A capture flow that is gone leaves the camera closed in the end, although
\* the dump flow, which may have its last frames, stays.
DeviceCloses ==
  []<>(\A s \in Sessions :
         life[<<"cap", s>>] = "dead" => device[s] = "closed")

\* As long as nobody takes the pipeline down, every frame the camera has is
\* read: the flows give the driver's frames back.
CaptureGoesOn ==
  []<>(\A s \in Sessions :
         life[<<"cap", s>>] = "alive" /\ mpc = "idle" => frames[s] = 0)
=============================================================================
