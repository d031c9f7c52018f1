------------------------------- MODULE AppMode -------------------------------
(***************************************************************************)
(* The run mode of the tool server, g_app_run_mode, and the media graph it *)
(* stands for (src/rkaiq/rkaiq_protocol.cpp: DoChangeAppMode, StartRTSP,   *)
(* StopRTSP, HandlerCheckDevice).  The receive threads, and main before    *)
(* them, change both: DoChangeAppMode under mutex_, START_RTSP, STOP_RTSP  *)
(* and a failed forward without it.                                        *)
(*                                                                         *)
(* LinkToIsp (rkaiq_media.cpp) is taken for what it leaves behind: the     *)
(* graph links the sensor to the ISP ("isp") or past it ("raw"), is half   *)
(* set up ("partial") while it runs, and is untouched when the sensor is   *)
(* not found.  It also stays half set up when a link cannot be set or no   *)
(* media device is an rkisp, which LinkToIsp does not report: it returns 0.*)
(* The Android branches, KillApp's signal to the AIQ and the sleeps are    *)
(* left out.                                                               *)
(***************************************************************************)
EXTENDS Naturals, FiniteSets

CONSTANTS
  Main,         \* the main thread
  Receivers,    \* the receive threads, one per connected PC
  Requests,     \* what the PCs ask for
  ArgMode,      \* the -m argument: the value g_app_run_mode starts with
  RtspArg,      \* the -r argument, g_rtsp_en_from_cmdarg
  StreamDev,    \* whether -s names a device that main can access
  MaxRequests,  \* bound: requests over a whole run
  None

Threads == Receivers \cup {Main}

Modes == {"INIT", "TUNRING", "CAPTURE", "STREAMING"}

ChangeRequests == {"TUNRING", "CAPTURE", "STREAMING"}

ASSUME ThreadsAssumption == Main \notin Receivers /\ None \notin Threads
ASSUME RequestsAssumption ==
  Requests \subseteq ChangeRequests \cup {"START_RTSP", "STOP_RTSP", "FORWARD"}
ASSUME ArgumentsAssumption ==
  /\ ArgMode \in Modes
  /\ RtspArg \in BOOLEAN
  /\ StreamDev \in BOOLEAN
  /\ MaxRequests \in Nat

VARIABLES
  mode,      \* g_app_run_mode
  link,      \* what the media graph is set up for
  rtspEn,    \* g_rtsp_en
  rtsp,      \* the RTSP pipeline streams
  holder,    \* who holds RKAiqProtocol::mutex_
  pc,        \* where each thread is
  request,   \* what it was asked for
  left,      \* requests the PCs may still send
  spoilt,    \* history: the last LinkToIsp was not DoChangeAppMode's, failed
             \* or left links unset, or START_RTSP's ran beside it
  overlapped \* history: START_RTSP or STOP_RTSP ran beside another message

hist == <<spoilt, overlapped>>
vars == <<mode, link, rtspEn, rtsp, holder, pc, request, left, hist>>

Places == {"idle", "lock", "test", "link", "setup", "set", "forward",
           "start", "init", "stop", "answer"}

TypeOK ==
  /\ mode \in Modes
  /\ link \in {"none", "partial", "isp", "raw"}
  /\ rtspEn \in BOOLEAN
  /\ rtsp \in BOOLEAN
  /\ holder \in Threads \cup {None}
  /\ pc \in [Threads -> Places]
  /\ request \in [Threads -> Requests \cup ChangeRequests]
  /\ left \in 0 .. MaxRequests
  /\ spoilt \in BOOLEAN
  /\ overlapped \in BOOLEAN

Goto(t, place) == pc' = [pc EXCEPT ![t] = place]

(* main has parsed its arguments and is about to call DoChangeAppMode; the  *)
(* receive threads come to life after it.                                  *)
Init ==
  /\ mode = ArgMode
  /\ link = "none"
  /\ rtspEn = (RtspArg /\ StreamDev)
  /\ rtsp = FALSE
  /\ holder = None
  /\ pc = [t \in Threads |-> IF t = Main THEN "lock" ELSE "idle"]
  /\ request = [t \in Threads |-> IF rtspEn THEN "STREAMING" ELSE "TUNRING"]
  /\ left = MaxRequests
  /\ spoilt = TRUE
  /\ overlapped = FALSE

-----------------------------------------------------------------------------

Rtsp == {"START_RTSP", "STOP_RTSP"}

(* Another message is being handled, and one of the two is for RTSP.        *)
Overlaps(t, r) ==
  \E u \in Threads \ {t} :
    pc[u] # "idle" /\ (r \in Rtsp \/ request[u] \in Rtsp)

(* HandlerTCPMessage and the handlers behind it: where a message leads.     *)
HandlerTCPMessage(t) ==
  /\ pc[t] = "idle"
  /\ pc[Main] = "idle"
  /\ left > 0
  /\ left' = left - 1
  /\ \E r \in Requests :
       /\ request' = [request EXCEPT ![t] = r]
       /\ Goto(t, CASE r = "START_RTSP" -> "start"
                    [] r = "STOP_RTSP" -> "stop"
                    [] OTHER -> "lock")
       /\ overlapped' = (overlapped \/ Overlaps(t, r))
  /\ UNCHANGED <<mode, link, rtspEn, rtsp, holder, spoilt>>

(* The mode the thread's message asks DoChangeAppMode for: a message that   *)
(* is forwarded asks for TUNRING first.                                    *)
Wanted(t) == IF request[t] = "FORWARD" THEN "TUNRING" ELSE request[t]

(* Where DoChangeAppMode returns to when it returns 0.                      *)
Returns(t) == IF request[t] = "FORWARD" THEN "forward" ELSE "idle"

\* Mutant: DoChangeAppMode without its lock_guard.
LockUnheld(t) ==
  /\ pc[t] = "lock"
  /\ Goto(t, "test")
  /\ UNCHANGED <<mode, link, rtspEn, rtsp, holder, request, left, hist>>

(* std::lock_guard in DoChangeAppMode.                                      *)
Lock(t) ==
  /\ pc[t] = "lock"
  /\ holder = None
  /\ holder' = t
  /\ Goto(t, "test")
  /\ UNCHANGED <<mode, link, rtspEn, rtsp, request, left, hist>>

Unlock == holder' = None

(* The early return: the mode is the one asked for.                         *)
SameMode(t) ==
  /\ pc[t] = "test"
  /\ mode = Wanted(t)
  /\ Unlock
  /\ Goto(t, Returns(t))
  /\ UNCHANGED <<mode, link, rtspEn, rtsp, request, left, hist>>

\* Mutant: RTSP is stopped only by a switch from STREAMING.
ChangeModeStopsStreaming(t) ==
  /\ pc[t] = "test"
  /\ mode # Wanted(t)
  /\ rtsp' = (rtsp /\ ~ (Wanted(t) = "CAPTURE" /\ rtspEn /\ mode = "STREAMING"))
  /\ Goto(t, "link")
  /\ UNCHANGED <<mode, link, rtspEn, holder, request, left, hist>>

(* The mode differs; a switch to CAPTURE stops RTSP if g_rtsp_en says that  *)
(* it may run (StopRTSP always returns 0).                                 *)
ChangeMode(t) ==
  /\ pc[t] = "test"
  /\ mode # Wanted(t)
  /\ rtsp' = (rtsp /\ ~ (Wanted(t) = "CAPTURE" /\ rtspEn))
  /\ Goto(t, "link")
  /\ UNCHANGED <<mode, link, rtspEn, holder, request, left, hist>>

(* A START_RTSP, which holds no mutex, is setting links.                    *)
RtspLinks == \E u \in Threads : pc[u] = "setup" /\ request[u] = "START_RTSP"

(* LinkToIsp(enable) begins: the links are reset and set one by one.        *)
LinkToIsp(t) ==
  /\ pc[t] = "link"
  /\ link' = "partial"
  /\ spoilt' = (request[t] = "START_RTSP" \/ RtspLinks)
  /\ Goto(t, "setup")
  /\ UNCHANGED <<mode, rtspEn, rtsp, holder, request, left, overlapped>>

Enable(t) == Wanted(t) # "CAPTURE"

(* LinkToIsp returns 0 to DoChangeAppMode or to StartRTSP, whether every    *)
(* link is set or not: the results of media_parse_setup_links are dropped. *)
Linked(t) ==
  /\ pc[t] = "setup"
  /\ \/ /\ link' = IF Enable(t) THEN "isp" ELSE "raw"
        /\ spoilt' = spoilt
     \/ /\ link' = "partial"
        /\ spoilt' = TRUE
  /\ Goto(t, IF request[t] = "START_RTSP" THEN "init" ELSE "set")
  /\ UNCHANGED <<mode, rtspEn, rtsp, holder, request, left, overlapped>>

\* Mutant: a link that failed is tried again until it works.
LinkFailedRetries(t) ==
  /\ pc[t] = "link"
  /\ request[t] # "START_RTSP"
  /\ mode' = "INIT"
  /\ Goto(t, "test")
  /\ UNCHANGED <<link, rtspEn, rtsp, holder, request, left, hist>>

(* LinkToIsp returns -1 before it touches the graph.  The switch to CAPTURE *)
(* gives up; for the other modes the return is commented out.              *)
LinkFailed(t) ==
  /\ pc[t] = "link"
  /\ request[t] # "START_RTSP"
  /\ mode' = "INIT"
  /\ IF Enable(t) THEN /\ Goto(t, "set")
                       /\ UNCHANGED holder
                  ELSE /\ Goto(t, "idle")
                       /\ Unlock
  /\ spoilt' = (spoilt \/ Enable(t))
  /\ UNCHANGED <<link, rtspEn, rtsp, request, left, overlapped>>

(* g_app_run_mode = mode, and the lock_guard's end.                         *)
SetMode(t) ==
  /\ pc[t] = "set"
  /\ mode' = Wanted(t)
  /\ Unlock
  /\ Goto(t, Returns(t))
  /\ UNCHANGED <<link, rtspEn, rtsp, request, left, hist>>

(* MessageForward: the AIQ is there, or it is not and the mode is INIT.     *)
Forwarded(t) ==
  /\ pc[t] = "forward"
  /\ Goto(t, "idle")
  /\ UNCHANGED <<mode, link, rtspEn, rtsp, holder, request, left, hist>>

ForwardFailed(t) ==
  /\ pc[t] = "forward"
  /\ mode' = "INIT"
  /\ Goto(t, "idle")
  /\ UNCHANGED <<link, rtspEn, rtsp, holder, request, left, hist>>

-----------------------------------------------------------------------------

(* CMD_ID_START_RTSP: StartRTSP outside mutex_ links the ISP, LinkToIsp     *)
(* above, and replaces the pipeline; the mode is only answered.            *)
StartRTSP(t) ==
  /\ pc[t] = "start"
  /\ rtspEn' = (rtspEn \/ RtspArg)
  /\ Goto(t, "link")
  /\ UNCHANGED <<mode, link, rtsp, holder, request, left, hist>>

StartLinkFailed(t) ==
  /\ pc[t] = "link"
  /\ request[t] = "START_RTSP"
  /\ Goto(t, "idle")
  /\ UNCHANGED <<mode, link, rtspEn, rtsp, holder, request, left, hist>>

InitRtsp(t) ==
  /\ pc[t] = "init"
  /\ rtsp' = TRUE
  /\ Goto(t, "idle")
  /\ UNCHANGED <<mode, link, rtspEn, holder, request, left, hist>>

(* CMD_ID_STOP_RTSP: the pipeline goes, then the mode is stored without     *)
(* mutex_.                                                                 *)
StopRTSP(t) ==
  /\ pc[t] = "stop"
  /\ rtspEn' = (rtspEn /\ ~RtspArg)
  /\ rtsp' = FALSE
  /\ Goto(t, "answer")
  /\ UNCHANGED <<mode, link, holder, request, left, hist>>

StopAnswer(t) ==
  /\ pc[t] = "answer"
  /\ mode' = "INIT"
  /\ Goto(t, "idle")
  /\ UNCHANGED <<link, rtspEn, rtsp, holder, request, left, hist>>

-----------------------------------------------------------------------------

DoChangeAppMode(t) ==
  \/ Lock(t)
  \/ SameMode(t)
  \/ ChangeMode(t)
  \/ LinkToIsp(t)
  \/ Linked(t)
  \/ LinkFailed(t)
  \/ SetMode(t)

HandlerCheckDevice(t) ==
  \/ StartRTSP(t)
  \/ StartLinkFailed(t)
  \/ InitRtsp(t)
  \/ StopRTSP(t)
  \/ StopAnswer(t)

MessageForward(t) == Forwarded(t) \/ ForwardFailed(t)

Handles(t) == DoChangeAppMode(t) \/ HandlerCheckDevice(t) \/ MessageForward(t)

Done ==
  /\ left = 0
  /\ \A t \in Threads : pc[t] = "idle"
  /\ UNCHANGED vars

Next ==
  \/ \E t \in Threads : Handles(t)
  \/ \E t \in Receivers : HandlerTCPMessage(t)
  \/ Done

(* A thread that has begun to handle a message keeps running.               *)
Fairness == \A t \in Threads : WF_vars(Handles(t))

Spec == Init /\ [][Next]_vars

FairSpec == Spec /\ Fairness

-----------------------------------------------------------------------------

(* When nobody is inside DoChangeAppMode, the mode that GET_MODE answers is *)
(* the one the media graph is set up for, if the last LinkToIsp was         *)
(* DoChangeAppMode's and set its links.  INIT claims nothing.  It holds    *)
(* although STOP_RTSP and failed forwards store the mode without the mutex, *)
(* at any point of another thread's switch.  The code does lose it: with   *)
(* START_RTSP, which links the ISP in any mode; with a failed LinkToIsp    *)
(* whose return is commented out; and with one that returns 0 over links   *)
(* it could not set.  The next switch makes it good again.                 *)
ModeMatchesLink ==
  ~spoilt /\ holder = None =>
    /\ mode = "CAPTURE" => link = "raw"
    /\ mode \in {"TUNRING", "STREAMING"} => link = "isp"

(* With -r 1 a switch to CAPTURE happens only when the RTSP pipeline, which- *)
(* ever PC started it, no longer streams from the device - unless a START  *)
(* or STOP ran beside another message, for these do not take mutex_.       *)
CaptureStopsRtsp ==
  [][~overlapped /\ mode # "CAPTURE" /\ mode' = "CAPTURE" => ~rtsp]_vars

(* Every message is handled to its end, whatever the others do: no path of  *)
(* DoChangeAppMode keeps mutex_ or comes back to where it was.             *)
Served == \A t \in Threads : pc[t] # "idle" ~> pc[t] = "idle"
==============================================================================
