---------------------------- MODULE AppModeProofs ----------------------------
(***************************************************************************)
(* What is proved about AppMode for every number of PCs and requests:      *)
(* type correctness; that the run mode matches the media graph, from the   *)
(* first LinkToIsp of DoChangeAppMode that set its links and again after   *)
(* every later one; and, when the server is started with -r 1, that a      *)
(* switch to CAPTURE finds the RTSP pipeline stopped.                      *)
(***************************************************************************)
EXTENDS AppMode, TLAPS

(* What the types rest on: whoever is in DoChangeAppMode was asked for a    *)
(* mode, and whoever is in StartRTSP for START_RTSP.                       *)
RequestPlace ==
  \A t \in Threads :
    /\ pc[t] \in {"lock", "test", "set"} => Wanted(t) \in ChangeRequests
    /\ pc[t] \in {"link", "setup"} => Wanted(t) \in ChangeRequests \cup {"START_RTSP"}
    /\ pc[t] = "start" => request[t] = "START_RTSP"

TypeInv == TypeOK /\ RequestPlace

(* A thread that is changing the media graph, or has just done so.          *)
Linking == {"setup", "set"}

(* A thread that is between Lock and Unlock; START_RTSP links without it.   *)
Inside(t) ==
  \/ pc[t] \in {"test", "set"}
  \/ pc[t] \in {"link", "setup"} /\ request[t] # "START_RTSP"

(* mutex_ is held by the thread that is inside DoChangeAppMode.             *)
HeldInside == \A t \in Threads : Inside(t) <=> holder = t

(* After LinkToIsp the graph is the one for the mode about to be stored.    *)
LinkedAsWanted ==
  \A t \in Threads :
    pc[t] = "set" => link = IF Wanted(t) = "CAPTURE" THEN "raw" ELSE "isp"

(* The mode matches the graph.                                              *)
Match ==
  /\ mode = "CAPTURE" => link = "raw"
  /\ mode \in {"TUNRING", "STREAMING"} => link = "isp"

(* The mode matches the graph unless somebody is changing the graph.        *)
MatchOutside == (\A t \in Threads : pc[t] \notin Linking) => Match

(* The graph is known to be what DoChangeAppMode asked for last.            *)
GraphInv == ~ RtspLinks /\ LinkedAsWanted /\ MatchOutside

IInv == TypeInv /\ HeldInside /\ (~ spoilt => GraphInv)

-----------------------------------------------------------------------------

LEMMA TypeInit == Init => TypeInv
<1> SUFFICES ASSUME Init PROVE TypeInv
  OBVIOUS
<1> USE ArgumentsAssumption DEF Init
<1>1. rtspEn \in BOOLEAN
  BY Zenon
<1>2. \A t \in Threads : request[t] \in {"STREAMING", "TUNRING"}
  OBVIOUS
<1>3. pc \in [Threads -> Places]
  BY DEF Places
<1>4. request \in [Threads -> Requests \cup ChangeRequests]
  BY Zenon DEF ChangeRequests
<1>r. mode \in Modes /\ link \in {"none", "partial", "isp", "raw"}
  BY Zenon
<1>h. rtsp \in BOOLEAN /\ holder \in Threads \cup {None}
  BY Zenon
<1>l. left \in 0 .. MaxRequests
  OBVIOUS
<1>b. spoilt \in BOOLEAN /\ overlapped \in BOOLEAN
  BY Zenon
<1>5. TypeOK
  BY <1>1, <1>3, <1>4, <1>r, <1>h, <1>l, <1>b, Zenon DEF TypeOK
<1>6. RequestPlace
  BY <1>2 DEF RequestPlace, Wanted, ChangeRequests
<1> QED
  BY <1>5, <1>6 DEF TypeInv

(* One step keeps the types.                                                *)
LEMMA TypeStep == TypeInv /\ [Next]_vars => TypeInv'
<1> SUFFICES ASSUME TypeInv, [Next]_vars PROVE TypeInv'
  OBVIOUS
<1> USE RequestsAssumption, ArgumentsAssumption
    DEF TypeInv, TypeOK, RequestPlace, Places, Modes, ChangeRequests, Goto, Wanted, hist
<1>1. ASSUME NEW t \in Threads, DoChangeAppMode(t) PROVE TypeInv'
  <2>1. CASE Lock(t)
    BY <2>1 DEF Lock
  <2>2. CASE SameMode(t)
    BY <2>2 DEF SameMode, Unlock, Returns
  <2>3. CASE ChangeMode(t)
    BY <2>3 DEF ChangeMode
  <2>4. CASE LinkToIsp(t)
    <3>1. spoilt' \in BOOLEAN
      BY <2>4, Zenon DEF LinkToIsp, RtspLinks
    <3> QED
      BY <2>4, <3>1 DEF LinkToIsp
  <2>5. CASE Linked(t)
    BY <2>5 DEF Linked
  <2>6. CASE LinkFailed(t)
    BY <2>6 DEF LinkFailed, Unlock
  <2>7. CASE SetMode(t)
    BY <2>7 DEF SetMode, Unlock, Returns
  <2> QED
    BY <1>1, <2>1, <2>2, <2>3, <2>4, <2>5, <2>6, <2>7 DEF DoChangeAppMode
<1>2. ASSUME NEW t \in Threads, HandlerCheckDevice(t) PROVE TypeInv'
  <2>1. CASE StartRTSP(t)
    BY <2>1 DEF StartRTSP
  <2>2. CASE StartLinkFailed(t)
    BY <2>2 DEF StartLinkFailed
  <2>3. CASE InitRtsp(t)
    BY <2>3 DEF InitRtsp
  <2>4. CASE StopRTSP(t)
    BY <2>4 DEF StopRTSP
  <2>5. CASE StopAnswer(t)
    BY <2>5 DEF StopAnswer
  <2> QED
    BY <1>2, <2>1, <2>2, <2>3, <2>4, <2>5 DEF HandlerCheckDevice
<1>3. ASSUME NEW t \in Threads, MessageForward(t) PROVE TypeInv'
  BY <1>3 DEF MessageForward, Forwarded, ForwardFailed
<1>4. ASSUME NEW t \in Receivers, HandlerTCPMessage(t) PROVE TypeInv'
  <2>1. PICK r \in Requests :
           /\ request' = [request EXCEPT ![t] = r]
           /\ Goto(t, CASE r = "START_RTSP" -> "start"
                        [] r = "STOP_RTSP" -> "stop"
                        [] OTHER -> "lock")
           /\ overlapped' = (overlapped \/ Overlaps(t, r))
    BY <1>4 DEF HandlerTCPMessage
  <2>2. pc' \in [Threads -> Places]
    BY <2>1
  <2>3. request' \in [Threads -> Requests \cup ChangeRequests]
    BY <2>1
  <2>4. RequestPlace'
    BY <2>1
  <2>5. spoilt' \in BOOLEAN /\ overlapped' \in BOOLEAN
    BY <1>4, <2>1, Zenon DEF HandlerTCPMessage
  <2> QED
    BY <1>4, <2>2, <2>3, <2>4, <2>5 DEF HandlerTCPMessage
<1>5. CASE UNCHANGED vars
  BY <1>5 DEF vars, hist
<1> QED
  BY <1>1, <1>2, <1>3, <1>4, <1>5 DEF Next, Handles, Done

(* Type correctness: modes, graph and threads take only the values listed,  *)
(* for any number of PCs.                                                  *)
THEOREM TypeCorrect == Spec => []TypeOK
<1>1. TypeInv => TypeOK
  BY DEF TypeInv
<1> QED
  BY <1>1, TypeInit, TypeStep, PTL DEF Spec

-----------------------------------------------------------------------------

LEMMA IInvInit == Init => IInv
<1> SUFFICES ASSUME Init PROVE IInv
  OBVIOUS
<1>1. TypeInv
  BY TypeInit
<1>2. \A t \in Threads : ~ Inside(t) /\ holder # t
  BY ThreadsAssumption DEF Init, Inside
<1>3. HeldInside
  BY <1>2 DEF HeldInside
<1>4. spoilt
  BY DEF Init
<1> QED
  BY <1>1, <1>3, <1>4 DEF IInv

(* One step keeps mutex_ with the thread that is inside DoChangeAppMode.    *)
LEMMA HeldStep == TypeInv /\ HeldInside /\ [Next]_vars => HeldInside'
<1> SUFFICES ASSUME TypeInv, HeldInside, [Next]_vars PROVE HeldInside'
  OBVIOUS
<1> USE DEF Goto, Unlock, hist
<1>p. /\ pc \in [Threads -> Places] /\ None \notin Threads
      /\ request \in [Threads -> Requests \cup ChangeRequests] /\ RequestPlace
  BY ThreadsAssumption DEF TypeInv, TypeOK
<1>1. ASSUME NEW t \in Threads, NEW l,
             pc' = [pc EXCEPT ![t] = l], request' = request,
             \/ (Inside(t)' <=> Inside(t)) /\ holder' = holder
             \/ ~ Inside(t) /\ Inside(t)' /\ holder = None /\ holder' = t
             \/ Inside(t) /\ ~ Inside(t)' /\ holder' = None
      PROVE  HeldInside'
  <2>1. \A u \in Threads : u # t => (Inside(u)' <=> Inside(u))
    BY <1>p, <1>1 DEF Inside
  <2> QED
    BY <1>p, <1>1, <2>1 DEF HeldInside
<1>2. ASSUME NEW t \in Threads, DoChangeAppMode(t) PROVE HeldInside'
  <2> USE DEF Inside
  <2>r. pc[t] \in {"test", "set"} => request[t] # "START_RTSP"
    BY <1>p DEF RequestPlace, Wanted, ChangeRequests
  <2>1. CASE Lock(t)
    BY <1>1, <1>p, <2>1 DEF Lock
  <2>2. CASE SameMode(t)
    BY <1>1, <1>p, <2>2 DEF SameMode, Returns
  <2>3. CASE ChangeMode(t)
    BY <1>1, <1>p, <2>3, <2>r DEF ChangeMode
  <2>4. CASE LinkToIsp(t)
    BY <1>1, <1>p, <2>4 DEF LinkToIsp
  <2>5. CASE Linked(t)
    BY <1>1, <1>p, <2>5 DEF Linked
  <2>6. CASE LinkFailed(t)
    BY <1>1, <1>p, <2>6 DEF LinkFailed
  <2>7. CASE SetMode(t)
    BY <1>1, <1>p, <2>7 DEF SetMode, Returns
  <2> QED
    BY <1>2, <2>1, <2>2, <2>3, <2>4, <2>5, <2>6, <2>7 DEF DoChangeAppMode
<1>3. ASSUME NEW t \in Threads, HandlerCheckDevice(t) PROVE HeldInside'
  <2>1. pc[t] = "start" => request[t] = "START_RTSP"
    BY <1>p DEF RequestPlace
  <2> QED
    BY <1>1, <1>3, <1>p, <2>1
    DEF HandlerCheckDevice, StartRTSP, StartLinkFailed, InitRtsp, StopRTSP,
        StopAnswer, Inside
<1>4. ASSUME NEW t \in Threads, MessageForward(t) PROVE HeldInside'
  BY <1>1, <1>4, <1>p DEF MessageForward, Forwarded, ForwardFailed, Inside
<1>5. ASSUME NEW t \in Receivers, HandlerTCPMessage(t) PROVE HeldInside'
  <2>1. t \in Threads /\ pc[t] = "idle" /\ holder' = holder
    BY <1>5 DEF HandlerTCPMessage, Threads
  <2>2. \E l \in {"start", "stop", "lock"}, r \in Requests :
          pc' = [pc EXCEPT ![t] = l] /\ request' = [request EXCEPT ![t] = r]
    BY <1>5 DEF HandlerTCPMessage
  <2>3. \A u \in Threads : Inside(u)' <=> Inside(u)
    BY <1>p, <2>1, <2>2 DEF Inside
  <2> QED
    BY <2>1, <2>3 DEF HeldInside
<1>6. CASE UNCHANGED vars
  BY <1>6 DEF vars, HeldInside, Inside
<1> QED
  BY <1>2, <1>3, <1>4, <1>5, <1>6 DEF Next, Handles, Done

(* A step that neither touches the graph nor stores a mode but INIT.        *)
LEMMA GraphKept ==
  ASSUME TypeInv, GraphInv, NEW t \in Threads, NEW l, l \notin Linking,
         pc[t] \notin Linking, pc' = [pc EXCEPT ![t] = l],
         \A u \in Threads : u # t => request'[u] = request[u],
         link' = link, mode' \in {mode, "INIT"}
  PROVE  GraphInv'
<1>1. pc \in [Threads -> Places]
  BY DEF TypeInv, TypeOK
<1>2. pc'[t] = l /\ \A u \in Threads : u # t => pc'[u] = pc[u]
  BY <1>1
<1>3. \A u \in Threads : u # t => Wanted(u)' = Wanted(u)
  BY DEF Wanted
<1>4. ~ RtspLinks'
  BY <1>2 DEF GraphInv, RtspLinks, Linking
<1>5. LinkedAsWanted'
  BY <1>2, <1>3 DEF GraphInv, LinkedAsWanted, Linking
<1>6. (\A u \in Threads : pc'[u] \notin Linking) => \A u \in Threads : pc[u] \notin Linking
  BY <1>2
<1>7. MatchOutside'
  BY <1>6 DEF GraphInv, MatchOutside, Match
<1> QED
  BY <1>4, <1>5, <1>7 DEF GraphInv

(* One step of DoChangeAppMode, or of StartRTSP's LinkToIsp.                *)
LEMMA ChangeStep ==
  ASSUME IInv, NEW t \in Threads, DoChangeAppMode(t), ~ spoilt'
  PROVE  GraphInv'
<1> USE DEF Goto, Unlock, hist
<1>0. TypeInv /\ HeldInside /\ (~ spoilt => GraphInv)
  BY DEF IInv
<1>p. /\ pc \in [Threads -> Places] /\ RequestPlace
  BY <1>0 DEF TypeInv, TypeOK
<1>w. request' = request /\ \A u \in Threads : Wanted(u)' = Wanted(u)
  BY DEF DoChangeAppMode, Lock, SameMode, ChangeMode, LinkToIsp, Linked, LinkFailed,
         SetMode, Wanted
<1>a. ASSUME Inside(t) PROVE \A u \in Threads : u # t => ~ Inside(u)
  BY <1>0, <1>a DEF HeldInside
<1>1. CASE Lock(t)
  BY <1>0, <1>1, <1>w, GraphKept DEF Lock, Linking
<1>2. CASE SameMode(t)
  BY <1>0, <1>2, <1>w, GraphKept DEF SameMode, Returns, Linking
<1>3. CASE ChangeMode(t)
  BY <1>0, <1>3, <1>w, GraphKept DEF ChangeMode, Linking
<1>4. CASE LinkToIsp(t)
  <2>1. /\ pc[t] = "link" /\ pc' = [pc EXCEPT ![t] = "setup"]
        /\ request[t] # "START_RTSP" /\ ~ RtspLinks
    BY <1>4 DEF LinkToIsp
  <2>2. Inside(t)
    BY <2>1 DEF Inside
  <2>3. pc'[t] = "setup" /\ \A u \in Threads : u # t => pc'[u] = pc[u]
    BY <1>p, <2>1
  <2>4. ~ RtspLinks'
    BY <1>w, <2>1, <2>3 DEF RtspLinks
  <2>5. LinkedAsWanted'
    BY <1>a, <2>2, <2>3 DEF LinkedAsWanted, Inside
  <2>6. MatchOutside'
    BY <2>3 DEF MatchOutside, Linking
  <2> QED
    BY <2>4, <2>5, <2>6 DEF GraphInv
<1>5. CASE Linked(t)
  <2>1. /\ pc[t] = "setup" /\ ~ spoilt
        /\ link' = IF Wanted(t) = "CAPTURE" THEN "raw" ELSE "isp"
    BY <1>5 DEF Linked, Enable
  <2>2. ~ RtspLinks /\ request[t] # "START_RTSP"
    BY <1>0, <2>1 DEF GraphInv, RtspLinks
  <2>3. Inside(t)
    BY <2>1, <2>2 DEF Inside
  <2>4. pc' = [pc EXCEPT ![t] = "set"]
    BY <1>5, <2>2 DEF Linked
  <2>5. pc'[t] = "set" /\ \A u \in Threads : u # t => pc'[u] = pc[u]
    BY <1>p, <2>4
  <2>6. ~ RtspLinks'
    BY <1>w, <2>2, <2>5 DEF RtspLinks
  <2>7. LinkedAsWanted'
    BY <1>a, <1>w, <2>1, <2>3, <2>5 DEF LinkedAsWanted, Inside
  <2>8. MatchOutside'
    BY <2>5 DEF MatchOutside, Linking
  <2> QED
    BY <2>6, <2>7, <2>8 DEF GraphInv
<1>6. CASE LinkFailed(t)
  <2>1. /\ pc[t] = "link" /\ pc' = [pc EXCEPT ![t] = "idle"]
        /\ link' = link /\ mode' = "INIT" /\ ~ spoilt
    BY <1>6 DEF LinkFailed
  <2> QED
    BY <1>0, <1>w, <2>1, GraphKept DEF Linking
<1>7. CASE SetMode(t)
  <2>1. /\ pc[t] = "set" /\ pc' = [pc EXCEPT ![t] = Returns(t)] /\ ~ spoilt
        /\ link' = link /\ mode' = Wanted(t)
    BY <1>7 DEF SetMode
  <2>2. Wanted(t) \in ChangeRequests /\ Returns(t) \notin Linking
    BY <1>p, <2>1 DEF RequestPlace, Returns, Linking
  <2>3. link = IF Wanted(t) = "CAPTURE" THEN "raw" ELSE "isp"
    BY <1>0, <2>1 DEF GraphInv, LinkedAsWanted
  <2>4. Match'
    BY <2>1, <2>2, <2>3 DEF Match, ChangeRequests
  <2>5. pc'[t] \notin Linking /\ \A u \in Threads : u # t => pc'[u] = pc[u]
    BY <1>p, <2>1, <2>2
  <2>6. ~ RtspLinks' /\ LinkedAsWanted'
    BY <1>0, <1>w, <2>1, <2>5 DEF GraphInv, RtspLinks, LinkedAsWanted, Linking
  <2> QED
    BY <2>4, <2>6 DEF GraphInv, MatchOutside
<1> QED
  BY <1>1, <1>2, <1>3, <1>4, <1>5, <1>6, <1>7 DEF DoChangeAppMode

(* The stores without the mutex only ever store INIT.                       *)
LEMMA UnlockedStep ==
  ASSUME IInv, NEW t \in Threads,
         HandlerCheckDevice(t) \/ MessageForward(t), ~ spoilt'
  PROVE  GraphInv'
<1>1. /\ pc[t] \notin Linking
      /\ \E l \in {"link", "idle", "answer"} : pc' = [pc EXCEPT ![t] = l]
      /\ mode' \in {mode, "INIT"}
      /\ UNCHANGED <<link, request, spoilt>>
  BY DEF HandlerCheckDevice, StartRTSP, StartLinkFailed, InitRtsp, StopRTSP,
         StopAnswer, MessageForward, Forwarded, ForwardFailed, Goto, hist, Linking
<1> QED
  BY <1>1, GraphKept DEF IInv, Linking

(* A new message does not disturb who is inside DoChangeAppMode.            *)
LEMMA MessageStep ==
  ASSUME IInv, NEW t \in Receivers, HandlerTCPMessage(t), ~ spoilt'
  PROVE  GraphInv'
<1>1. /\ t \in Threads /\ pc[t] = "idle"
      /\ \E l \in {"start", "stop", "lock"} : pc' = [pc EXCEPT ![t] = l]
      /\ \E r \in Requests : request' = [request EXCEPT ![t] = r]
      /\ UNCHANGED <<mode, link, spoilt>>
  BY DEF HandlerTCPMessage, Threads, Goto
<1>2. \A u \in Threads : u # t => request'[u] = request[u]
  BY <1>1 DEF IInv, TypeInv, TypeOK
<1> QED
  BY <1>1, <1>2, GraphKept DEF IInv, Linking

LEMMA IInvStep == IInv /\ [Next]_vars => IInv'
<1> SUFFICES ASSUME IInv, [Next]_vars, ~ spoilt' PROVE GraphInv'
  BY TypeStep, HeldStep DEF IInv
<1>1. CASE \E t \in Threads : Handles(t)
  BY <1>1, ChangeStep, UnlockedStep DEF Handles
<1>2. CASE \E t \in Receivers : HandlerTCPMessage(t)
  BY <1>2, MessageStep
<1>3. CASE UNCHANGED vars
  BY <1>3
  DEF vars, hist, IInv, GraphInv, RtspLinks, LinkedAsWanted, MatchOutside, Match, Wanted
<1> QED
  BY <1>1, <1>2, <1>3 DEF Next, Done

LEMMA IInvMatches == IInv => ModeMatchesLink
<1> SUFFICES ASSUME IInv, ~ spoilt, holder = None PROVE Match
  BY DEF ModeMatchesLink, Match
<1>1. \A t \in Threads : ~ Inside(t)
  BY ThreadsAssumption DEF IInv, HeldInside
<1>2. ~ RtspLinks /\ MatchOutside
  BY DEF IInv, GraphInv
<1>3. \A t \in Threads : pc[t] \notin Linking
  BY <1>1, <1>2 DEF Inside, Linking, RtspLinks
<1> QED
  BY <1>2, <1>3 DEF MatchOutside

(* While nobody holds mutex_, the mode that GET_MODE answers is the one the *)
(* media graph is set up for, whatever the arguments, the receive threads, *)
(* their number and the stores of INIT without the mutex, when the last    *)
(* LinkToIsp was DoChangeAppMode's, set its links and ran alone.           *)
THEOREM ModeCorrect == Spec => []ModeMatchesLink
<1>1. Init => IInv
  BY IInvInit
<1>2. IInv /\ [Next]_vars => IInv'
  BY IInvStep
<1> QED
  BY <1>1, <1>2, IInvMatches, PTL DEF Spec

-----------------------------------------------------------------------------

(* What the theorem about RTSP assumes of an instance: -r 1.                *)
RtspArgument == RtspArg = TRUE

(* Who handles START_RTSP or STOP_RTSP is known by where it is.             *)
RtspPlaces ==
  \A t \in Threads :
    /\ pc[t] \in {"start", "init"} => request[t] = "START_RTSP"
    /\ pc[t] \in {"stop", "answer"} => request[t] = "STOP_RTSP"

(* START_RTSP and STOP_RTSP are handled while all other threads are idle.   *)
RtspAlone ==
  \A t, u \in Threads :
    t # u /\ pc[t] # "idle" /\ request[t] \in Rtsp => pc[u] = "idle"

(* g_rtsp_en does not miss a pipeline that streams or is about to, and a    *)
(* thread on its way to CAPTURE has stopped it.                            *)
RtspKnown ==
  /\ rtsp => rtspEn
  /\ \A t \in Threads :
       /\ pc[t] \in {"link", "setup", "init"} /\ request[t] = "START_RTSP" => rtspEn
       /\ pc[t] \in {"link", "setup", "set"} /\ Wanted(t) = "CAPTURE" => ~rtsp

RtspInv == RtspPlaces /\ (~overlapped => RtspAlone /\ RtspKnown)

(* Before main's DoChangeAppMode nothing streams.                           *)
LEMMA RtspInit == Init => RtspInv
<1> SUFFICES ASSUME Init PROVE RtspInv
  OBVIOUS
<1>1. \A t \in Threads : pc[t] \in {"idle", "lock"} /\ request[t] \notin Rtsp
  BY DEF Init, Rtsp
<1>2. rtsp = FALSE
  BY DEF Init
<1> QED
  BY <1>1, <1>2 DEF RtspInv, RtspPlaces, RtspAlone, RtspKnown

(* A step of DoChangeAppMode: only ChangeMode touches the pipeline, and a   *)
(* switch to CAPTURE stops one that g_rtsp_en knows of.                    *)
LEMMA RtspChangeStep ==
  ASSUME TypeInv, RtspInv, NEW t \in Threads, DoChangeAppMode(t)
  PROVE  RtspInv'
<1> USE DEF Goto
<1>1. /\ pc \in [Threads -> Places] /\ rtsp \in BOOLEAN /\ rtspEn \in BOOLEAN
      /\ RequestPlace
  BY DEF TypeInv, TypeOK
<1>2. request' = request /\ overlapped' = overlapped /\ rtspEn' = rtspEn
      /\ \A u \in Threads : Wanted(u)' = Wanted(u)
  BY DEF DoChangeAppMode, Lock, SameMode, ChangeMode, LinkToIsp, Linked,
         LinkFailed,
         SetMode, Wanted, hist
<1>3. PICK p \in Places :
         /\ pc' = [pc EXCEPT ![t] = p]
         /\ pc[t] # "idle" /\ p \notin {"start", "stop", "answer"}
         /\ p = "init" => request[t] = "START_RTSP" /\ pc[t] = "setup"
         /\ p \in {"link", "setup", "set"} =>
              pc[t] \in {"link", "setup", "set"} \/ ChangeMode(t)
         /\ p = "link" => ChangeMode(t)
         /\ p = "setup" => pc[t] = "link"
  BY DEF DoChangeAppMode, Lock, SameMode, ChangeMode, LinkToIsp, Linked,
         LinkFailed,
         SetMode, Returns, Places
<1>4. RtspPlaces'
  BY <1>1, <1>2, <1>3 DEF RtspInv, RtspPlaces
<1>5. ASSUME ~overlapped' PROVE RtspAlone' /\ RtspKnown'
  <2>1. RtspAlone /\ RtspKnown
    BY <1>2, <1>5 DEF RtspInv
  <2>2. RtspAlone'
    BY <1>1, <1>2, <1>3, <2>1 DEF RtspAlone
  <2>3. CASE ChangeMode(t)
    <3>1. rtsp' <=> (rtsp /\ ~ (Wanted(t) = "CAPTURE" /\ rtspEn))
      BY <2>3, Zenon DEF ChangeMode
    <3>2. Wanted(t) \in ChangeRequests /\ request[t] # "START_RTSP"
      BY <1>1, <2>3 DEF ChangeMode, RequestPlace, Wanted, ChangeRequests
    <3>3. pc' = [pc EXCEPT ![t] = "link"]
      BY <2>3 DEF ChangeMode
    <3>4. rtsp' => rtsp /\ rtspEn /\ Wanted(t) # "CAPTURE"
      BY <2>1, <3>1 DEF RtspKnown
    <3>5. rtsp' => rtspEn'
      BY <1>2, <3>4, Zenon
    <3>6. ASSUME NEW u \in Threads,
                 pc'[u] \in {"link", "setup", "init"}, request'[u] = "START_RTSP"
          PROVE  rtspEn'
      <4>1. u # t
        BY <1>2, <3>2, <3>6
      <4>2. pc'[u] = pc[u] /\ request'[u] = request[u]
        BY <1>1, <1>2, <3>3, <4>1
      <4> QED
        BY <1>2, <2>1, <3>6, <4>2 DEF RtspKnown
    <3>7. ASSUME NEW u \in Threads,
                 pc'[u] \in {"link", "setup", "set"}, Wanted(u)' = "CAPTURE"
          PROVE  ~ rtsp'
      <4>1. Wanted(u) = "CAPTURE"
        BY <1>2, <3>7
      <4>2. CASE u = t
        BY <3>4, <4>1, <4>2
      <4>3. CASE u # t
        <5>1. pc[u] \in {"link", "setup", "set"}
          BY <1>1, <3>3, <3>7, <4>3
        <5>2. ~ rtsp
          BY <2>1, <4>1, <5>1 DEF RtspKnown
        <5> QED
          BY <3>4, <5>2
      <4> QED
        BY <4>2, <4>3
    <3> QED
      BY <2>2, <3>5, <3>6, <3>7 DEF RtspKnown
  <2>4. CASE ~ ChangeMode(t)
    <3>1. rtsp' = rtsp
      BY <2>4 DEF DoChangeAppMode, Lock, SameMode, LinkToIsp, Linked, LinkFailed,
                  SetMode
    <3>2. rtsp' => rtspEn'
      BY <1>2, <2>1, <3>1, Zenon DEF RtspKnown
    <3>3. ASSUME NEW u \in Threads,
                 pc'[u] \in {"link", "setup", "init"}, request'[u] = "START_RTSP"
          PROVE  rtspEn'
      <4>1. pc[u] \in {"link", "setup", "init"} /\ request[u] = "START_RTSP"
        BY <1>1, <1>2, <1>3, <2>4, <3>3
      <4> QED
        BY <1>2, <2>1, <4>1 DEF RtspKnown
    <3>4. ASSUME NEW u \in Threads,
                 pc'[u] \in {"link", "setup", "set"}, Wanted(u)' = "CAPTURE"
          PROVE  ~ rtsp'
      <4>1. pc[u] \in {"link", "setup", "set"} /\ Wanted(u) = "CAPTURE"
        BY <1>1, <1>2, <1>3, <2>4, <3>4
      <4> QED
        BY <2>1, <3>1, <4>1 DEF RtspKnown
    <3> QED
      BY <2>2, <3>2, <3>3, <3>4 DEF RtspKnown
  <2> QED
    BY <2>2, <2>3, <2>4
<1> QED
  BY <1>4, <1>5 DEF RtspInv

(* START_RTSP and STOP_RTSP, alone, keep g_rtsp_en and the pipeline in step. *)
LEMMA RtspHandlerStep ==
  ASSUME RtspArgument, TypeInv, RtspInv, NEW t \in Threads, HandlerCheckDevice(t)
  PROVE  RtspInv'
<1> USE DEF Goto
<1>1. /\ pc \in [Threads -> Places] /\ rtsp \in BOOLEAN /\ rtspEn \in BOOLEAN
      /\ RtspPlaces
  BY DEF TypeInv, TypeOK, RtspInv
<1>2. /\ UNCHANGED <<request, overlapped>> /\ \A u \in Threads : Wanted(u)' = Wanted(u)
      /\ pc[t] # "idle" /\ request[t] \in Rtsp
  BY <1>1 DEF HandlerCheckDevice, StartRTSP, StartLinkFailed, InitRtsp, StopRTSP,
              StopAnswer, Wanted, hist, RtspPlaces, Rtsp
<1>3. \/ StartRTSP(t) /\ pc' = [pc EXCEPT ![t] = "link"]
      \/ (StartLinkFailed(t) \/ InitRtsp(t) \/ StopAnswer(t))
           /\ pc' = [pc EXCEPT ![t] = "idle"]
      \/ StopRTSP(t) /\ pc' = [pc EXCEPT ![t] = "answer"]
  BY DEF HandlerCheckDevice, StartRTSP, StartLinkFailed, InitRtsp, StopRTSP,
         StopAnswer
<1>4. RtspPlaces'
  <2>1. CASE StopRTSP(t) /\ pc' = [pc EXCEPT ![t] = "answer"]
    BY <1>1, <1>2, <2>1 DEF StopRTSP, RtspPlaces
  <2>2. CASE \E p \in {"link", "idle"} : pc' = [pc EXCEPT ![t] = p]
    BY <1>1, <1>2, <2>2 DEF RtspPlaces
  <2> QED
    BY <1>3, <2>1, <2>2
<1>5. ASSUME ~overlapped' PROVE RtspAlone' /\ RtspKnown'
  <2>1. RtspAlone /\ RtspKnown
    BY <1>2, <1>5 DEF RtspInv
  <2>2. \A u \in Threads : u # t => pc[u] = "idle" /\ pc'[u] = "idle"
    BY <1>1, <1>2, <1>3, <2>1 DEF RtspAlone
  <2>3. RtspAlone'
    BY <1>2, <2>2 DEF RtspAlone
  <2>4. rtsp' => rtspEn'
    <3>1. CASE StartRTSP(t)
      <4>1. rtsp' = rtsp /\ rtspEn' = (rtspEn \/ RtspArg)
        BY <3>1 DEF StartRTSP
      <4> QED
        BY <2>1, <4>1, Zenon DEF RtspKnown
    <3>2. CASE StartLinkFailed(t) \/ StopAnswer(t)
      BY <2>1, <3>2 DEF StartLinkFailed, StopAnswer, RtspKnown
    <3>3. CASE InitRtsp(t)
      BY <1>1, <2>1, <3>3 DEF InitRtsp, RtspPlaces, RtspKnown
    <3>4. CASE StopRTSP(t)
      BY <3>4 DEF StopRTSP
    <3> QED
      BY <1>3, <3>1, <3>2, <3>3, <3>4
  <2>5. pc'[t] = "link" => rtspEn' = TRUE /\ request[t] = "START_RTSP"
    <3> SUFFICES ASSUME pc'[t] = "link"
                 PROVE  rtspEn' = TRUE /\ request[t] = "START_RTSP"
      OBVIOUS
    <3>1. StartRTSP(t)
      BY <1>1, <1>3
    <3>2. rtspEn' = (rtspEn \/ RtspArg) /\ pc[t] = "start"
      BY <3>1 DEF StartRTSP
    <3>3. rtspEn' = TRUE
      BY <3>2, Zenon DEF RtspArgument
    <3> QED
      BY <1>1, <3>2, <3>3 DEF RtspPlaces
  <2>6. pc'[t] \in {"link", "idle", "answer"}
    BY <1>1, <1>3
  <2>7. request[t] = "START_RTSP" => Wanted(t) # "CAPTURE"
    BY DEF Wanted
  <2> QED
    BY <1>2, <2>2, <2>3, <2>4, <2>5, <2>6, <2>7 DEF RtspKnown
<1> QED
  BY <1>4, <1>5 DEF RtspInv

(* A message that overlaps START_RTSP or STOP_RTSP is noted.                *)
LEMMA RtspMessageStep ==
  ASSUME TypeInv, RtspInv, NEW t \in Receivers, HandlerTCPMessage(t)
  PROVE  RtspInv'
<1> USE DEF Goto
<1>1. /\ pc \in [Threads -> Places] /\ request \in [Threads -> Requests \cup ChangeRequests]
      /\ t \in Threads
  BY DEF TypeInv, TypeOK, Threads
<1>2. PICK r \in Requests :
         /\ request' = [request EXCEPT ![t] = r]
         /\ pc' = [pc EXCEPT ![t] = CASE r = "START_RTSP" -> "start"
                                       [] r = "STOP_RTSP" -> "stop"
                                       [] OTHER -> "lock"]
         /\ overlapped' = (overlapped \/ Overlaps(t, r))
  BY DEF HandlerTCPMessage
<1>3. UNCHANGED <<rtsp, rtspEn>> /\ pc[t] = "idle"
  BY DEF HandlerTCPMessage
<1>4. /\ \A u \in Threads : u # t =>
           pc'[u] = pc[u] /\ request'[u] = request[u] /\ Wanted(u)' = Wanted(u)
      /\ request'[t] = r /\ pc'[t] \in {"start", "stop", "lock"}
      /\ pc'[t] = "start" => r = "START_RTSP"
      /\ pc'[t] = "stop" => r = "STOP_RTSP"
  BY <1>1, <1>2 DEF Wanted
<1>5. RtspPlaces'
  BY <1>4 DEF RtspInv, RtspPlaces
<1>6. ASSUME ~overlapped' PROVE RtspAlone' /\ RtspKnown'
  <2>1. ~overlapped /\ ~Overlaps(t, r)
    BY <1>2, <1>6
  <2>2. RtspAlone /\ RtspKnown
    BY <2>1 DEF RtspInv
  <2>3. \A u \in Threads : u # t /\ pc[u] # "idle" => r \notin Rtsp /\ request[u] \notin Rtsp
    BY <2>1 DEF Overlaps
  <2>4. RtspAlone'
    BY <1>4, <2>2, <2>3 DEF RtspAlone
  <2>5. RtspKnown'
    BY <1>3, <1>4, <2>2 DEF RtspKnown
  <2> QED
    BY <2>4, <2>5
<1> QED
  BY <1>5, <1>6 DEF RtspInv

(* Every step keeps the invariant.                                          *)
LEMMA RtspStep ==
  ASSUME RtspArgument PROVE TypeInv /\ RtspInv /\ [Next]_vars => RtspInv'
<1> SUFFICES ASSUME TypeInv, RtspInv, [Next]_vars PROVE RtspInv'
  OBVIOUS
<1>1. ASSUME NEW t \in Threads, MessageForward(t) PROVE RtspInv'
  <2>1. /\ pc \in [Threads -> Places] /\ pc' = [pc EXCEPT ![t] = "idle"]
        /\ UNCHANGED <<request, rtsp, rtspEn, overlapped>>
    BY <1>1
    DEF TypeInv, TypeOK, MessageForward, Forwarded, ForwardFailed, Goto, hist
  <2>2. \A u \in Threads : Wanted(u)' = Wanted(u)
    BY <2>1 DEF Wanted
  <2> QED
    BY <2>1, <2>2 DEF RtspInv, RtspPlaces, RtspAlone, RtspKnown
<1>2. CASE \E t \in Threads : Handles(t)
  BY <1>1, <1>2, RtspChangeStep, RtspHandlerStep DEF Handles
<1>3. CASE \E t \in Receivers : HandlerTCPMessage(t)
  BY <1>3, RtspMessageStep
<1>4. CASE UNCHANGED vars
  BY <1>4 DEF vars, hist, RtspInv, RtspPlaces, RtspAlone, RtspKnown, Wanted
<1> QED
  BY <1>2, <1>3, <1>4 DEF Next, Done

(* Only SetMode stores CAPTURE.                                             *)
LEMMA CaptureStep ==
  ASSUME TypeInv, [Next]_vars, mode # "CAPTURE", mode' = "CAPTURE"
  PROVE  \E t \in Threads : pc[t] = "set" /\ Wanted(t) = "CAPTURE"
<1>1. ASSUME NEW t \in Threads, Handles(t)
      PROVE  pc[t] = "set" /\ Wanted(t) = "CAPTURE"
  BY <1>1
  DEF Handles, DoChangeAppMode, Lock, SameMode, ChangeMode, LinkToIsp, Linked,
              LinkFailed, SetMode, HandlerCheckDevice, StartRTSP, StartLinkFailed,
              InitRtsp, StopRTSP, StopAnswer, MessageForward, Forwarded, ForwardFailed
<1>2. ASSUME NEW t \in Receivers, HandlerTCPMessage(t) PROVE FALSE
  BY <1>2 DEF HandlerTCPMessage
<1> QED
  BY <1>1, <1>2 DEF Next, Done, vars

(* With -r 1 the pipeline is down when the mode becomes CAPTURE, whichever  *)
(* PC started it and however often, as long as START_RTSP and STOP_RTSP,   *)
(* which take no mutex_, did not run beside another message.               *)
THEOREM CaptureCorrect == ASSUME RtspArgument PROVE Spec => CaptureStopsRtsp
<1>1. TypeInv /\ RtspInv /\ [Next]_vars
        => [~overlapped /\ mode # "CAPTURE" /\ mode' = "CAPTURE" => ~rtsp]_vars
  <2> SUFFICES ASSUME TypeInv, RtspInv, [Next]_vars,
                      ~overlapped, mode # "CAPTURE", mode' = "CAPTURE"
               PROVE  ~rtsp
    OBVIOUS
  <2> QED
    BY CaptureStep DEF RtspInv, RtspKnown
<1>2. TypeInv /\ RtspInv /\ [Next]_vars => RtspInv'
  BY RtspStep
<1> QED
  BY <1>1, <1>2, TypeInit, TypeStep, RtspInit, PTL DEF Spec, CaptureStopsRtsp
==============================================================================
