------------------------------ MODULE RtspOutput ------------------------------
(***************************************************************************)
(* The output of the RTSP pipeline (live555_media_input.cc, rtsp_server.cc *)
(* and live555_server.cc): the thread of RtspServerFlow caches encoded     *)
(* packets for every client's Source and wakes live555's event loop by one *)
(* token per packet in a pipe; the event loop takes a token and then a     *)
(* packet.  Sources are made and closed by the loop and deleted by the     *)
(* flow's thread; the channel itself is made and removed by a message to   *)
(* the loop that the sender waits for.                                     *)
(*                                                                         *)
(* live555 is a library outside the repository: clients ask, stop asking   *)
(* and go at any time the library lets them.  lock_msg lets one sender in  *)
(* at a time; the model has one.                                           *)
(***************************************************************************)
EXTENDS Integers, Sequences, FiniteSets

CONSTANTS
  NumSources,   \* Sources that may be made, one after the other (bound)
  MaxOpen,      \* Sources in use at once: one per subsession, which reuses it
  CacheNumber,  \* MAX_CACHE_NUMBER
  Pages,        \* pages of a pipe
  PageTokens,   \* tokens in a page
  Codecs,       \* what video_type may be
  MaxPackets,   \* packets of the encoder (bound)
  MayStop       \* whether clients pause

ASSUME SourcesAssumption == NumSources \in Nat /\ MaxOpen \in Nat
ASSUME CacheAssumption == CacheNumber \in Nat /\ CacheNumber > 1
ASSUME PipeAssumption == Pages \in Nat \ {0} /\ PageTokens \in Nat \ {0}
ASSUME CodecsAssumption == Codecs \subseteq {"h264", "jpeg"}
ASSUME MaxPacketsAssumption == MaxPackets \in Nat

VARIABLES
  codec,          \* video_type, set by the constructor
  packets,        \* number of packets made so far
  \* the Sources
  life,           \* from new Source() to delete
  cached_buffers,
  tokens,         \* in the pipe
  head,           \* tokens already read from the pipe's first page
  reading,        \* background read handling is on
  wanted,         \* the sink waits for a frame
  got_iframe,
  shown,          \* history: the last packet handed to the sink
  lost,           \* history: a packet was taken for a sink that had stopped,
                  \* and no I frame was shown since
  \* Live555MediaInput and RtspConnection
  video_list,
  session,        \* the channel's entry in input_map
  flag, msg,      \* RtspConnection::flag, the message in msg_fd
  raced,          \* history: video_list was changed by two threads at once
  \* the threads
  lpc, lsrc, tail,  \* the event loop, its Source, the list's end it has seen
  fpc, todo, at,    \* the flow's thread, packets left to push, iterator
  owner             \* the thread that makes and destroys RtspServerFlow

sourceVars == <<life, cached_buffers, tokens, head, reading, wanted,
                got_iframe, shown, lost>>
connVars == <<video_list, session, flag, msg, raced>>
loopVars == <<lpc, lsrc, tail>>
flowVars == <<packets, fpc, todo, at>>
vars == <<codec, sourceVars, connVars, loopVars, flowVars, owner>>

Sources == 1 .. NumSources
NoSource == 0

\* A packet is its kind and its number in the encoder's order.
Kinds == {"extra", "intra", "predicted"}
Packets == Kinds \X Nat
NoPacket == <<"none", 0>>
Kind(p) == p[1]
Number(p) == p[2]

SourceTypeOK ==
  /\ life \in [Sources -> {"none", "new", "open", "closing", "closed",
                           "deleted"}]
  /\ cached_buffers \in [Sources -> Seq(Packets)]
  /\ tokens \in [Sources -> Nat] /\ head \in [Sources -> Nat]
  /\ reading \in [Sources -> BOOLEAN] /\ wanted \in [Sources -> BOOLEAN]
  /\ got_iframe \in [Sources -> BOOLEAN] /\ lost \in [Sources -> BOOLEAN]
  /\ shown \in [Sources -> Packets \cup {NoPacket}]

TypeOK ==
  /\ SourceTypeOK
  /\ codec \in Codecs /\ packets \in Nat
  /\ video_list \in Seq(Sources)
  /\ session \in {"none", "open", "removed"}
  /\ flag \in BOOLEAN /\ raced \in BOOLEAN
  /\ msg \in {"none", "NewSession", "RemoveSession"}
  /\ lpc \in {"idle", "link", "pop", "close", "NewSession", "RemoveSession",
              "answer"}
  /\ lsrc \in Sources \cup {NoSource} /\ tail \in Sources \cup {NoSource}
  /\ fpc \in {"idle", "remove", "push", "write", "done"}
  /\ todo \in Seq(Packets) /\ at \in Nat \ {0}
  /\ owner \in {"start", "creating", "running", "stopping", "joined",
                "removing", "destroyed"}

Init ==
  /\ codec \in Codecs /\ packets = 0
  /\ life = [s \in Sources |-> "none"]
  /\ cached_buffers = [s \in Sources |-> <<>>]
  /\ tokens = [s \in Sources |-> 0] /\ head = [s \in Sources |-> 0]
  /\ reading = [s \in Sources |-> FALSE]
  /\ wanted = [s \in Sources |-> FALSE]
  /\ got_iframe = [s \in Sources |-> FALSE]
  /\ shown = [s \in Sources |-> NoPacket]
  /\ lost = [s \in Sources |-> FALSE]
  /\ video_list = <<>> /\ session = "none"
  /\ flag = FALSE /\ msg = "none" /\ raced = FALSE
  /\ lpc = "idle" /\ lsrc = NoSource /\ tail = NoSource
  /\ fpc = "idle" /\ todo = <<>> /\ at = 1
  /\ owner = "start"
-----------------------------------------------------------------------------
(* The pipe of a Source.  The kernel gives memory back by the page: tokens *)
(* that were read still take room until their page is empty.               *)

PipeFull(s) == head[s] + tokens[s] = Pages * PageTokens

HeadAfter(s, n) ==
  IF tokens[s] = n THEN 0 ELSE (head[s] + n) % PageTokens

Listed == {video_list[i] : i \in DOMAIN video_list}

\* ~Source: the pipe and the cache go, and with them what was said of them.
Delete(S) ==
  /\ life' = [s \in Sources |-> IF s \in S THEN "deleted" ELSE life[s]]
  /\ cached_buffers' =
       [s \in Sources |-> IF s \in S THEN <<>> ELSE cached_buffers[s]]
  /\ tokens' = [s \in Sources |-> IF s \in S THEN 0 ELSE tokens[s]]
  /\ head' = [s \in Sources |-> IF s \in S THEN 0 ELSE head[s]]
  /\ got_iframe' = [s \in Sources |-> s \notin S /\ got_iframe[s]]
  /\ shown' = [s \in Sources |-> IF s \in S THEN NoPacket ELSE shown[s]]
  /\ lost' = [s \in Sources |-> s \notin S /\ lost[s]]

\* Push keeps Source::mtx while it writes; Pop takes and releases it.
Pushing(s) == fpc = "write" /\ video_list[at] = s
-----------------------------------------------------------------------------
(* The reductions, with Source::mtx held.                                  *)

Intras(q) == {i \in DOMAIN q : Kind(q[i]) = "intra"}
NotExtras(q) == {i \in DOMAIN q : Kind(q[i]) # "extra"}

LastIntra(q) == CHOOSE i \in Intras(q) : \A j \in Intras(q) : j <= i
FirstNotExtra(q) == CHOOSE i \in NotExtras(q) : \A j \in NotExtras(q) : i <= j

\* Variant: the last I frame is dropped as well.
ReductionDropsIntra(q) ==
  IF Len(q) < CacheNumber \/ Intras(q) = {} THEN q
  ELSE SubSeq(q, 1, FirstNotExtra(q) - 1)
         \o SubSeq(q, LastIntra(q) + 1, Len(q))

\* Variant: what is kept comes in the wrong order.
ReductionMovesExtras(q) ==
  IF Len(q) < CacheNumber \/ Intras(q) = {} THEN q
  ELSE SubSeq(q, LastIntra(q), Len(q)) \o SubSeq(q, 1, FirstNotExtra(q) - 1)

\* Leading parameter sets and everything from the last I frame on.
h264_packet_reduction(q) ==
  IF Len(q) < CacheNumber \/ Intras(q) = {} THEN q
  ELSE SubSeq(q, 1, FirstNotExtra(q) - 1) \o SubSeq(q, LastIntra(q), Len(q))

\* Half of the cache, each buffer with its token.
common_reduction(q) ==
  IF Len(q) > CacheNumber THEN SubSeq(q, 1 + CacheNumber \div 2, Len(q)) ELSE q

Reduced(q) ==
  IF codec = "jpeg" THEN common_reduction(q) ELSE h264_packet_reduction(q)

\* Variant: one token too many is read.
TokensReducedOneMore(q) ==
  IF codec = "jpeg" /\ common_reduction(q) # q
    THEN Len(q) - Len(common_reduction(q)) + 1 ELSE 0

TokensReduced(q) ==
  IF codec = "jpeg" THEN Len(q) - Len(common_reduction(q)) ELSE 0
-----------------------------------------------------------------------------
(* The thread of RtspServerFlow: SendMediaToServer and PushNewVideo.       *)

\* The packets of the next frame: an I frame follows its parameter sets (one
\* packet stands for them), and the encoder starts with one.
NextFrames ==
  IF codec = "jpeg" THEN {<<"intra">>}
  ELSE {<<"extra", "intra">>}
         \cup (IF packets = 0 THEN {} ELSE {<<"predicted">>})

SendMediaToServer ==
  /\ fpc = "idle" /\ owner = "running"
  /\ \E kinds \in NextFrames :
       /\ packets + Len(kinds) <= MaxPackets
       /\ packets' = packets + Len(kinds)
       /\ todo' = [i \in DOMAIN kinds |-> <<kinds[i], packets + i>>]
  /\ fpc' = "remove"
  /\ UNCHANGED <<codec, sourceVars, connVars, loopVars, at, owner>>

\* video_list.remove_if, node by node: what the loop closed is deleted here.
\* If the loop is at that moment appending behind the node that goes, the list
\* is damaged.
RemoveClosed ==
  /\ fpc = "remove" /\ at <= Len(video_list)
  /\ LET s == video_list[at] IN
     /\ life[s] = "closed"
     /\ Delete({s})
     /\ raced' = (raced \/ (lpc = "link" /\ tail = s))
  /\ video_list' = SubSeq(video_list, 1, at - 1)
                     \o SubSeq(video_list, at + 1, Len(video_list))
  /\ UNCHANGED <<codec, reading, wanted, session, flag, msg, loopVars, flowVars,
                 owner>>

KeepSource ==
  /\ fpc = "remove" /\ at <= Len(video_list)
  /\ life[video_list[at]] # "closed"
  /\ at' = at + 1
  /\ UNCHANGED <<codec, sourceVars, connVars, loopVars, packets, fpc, todo,
                 owner>>

RemovedAll ==
  /\ fpc = "remove" /\ at > Len(video_list)
  /\ fpc' = "push" /\ at' = 1
  /\ UNCHANGED <<codec, sourceVars, connVars, loopVars, packets, todo, owner>>

SkipClosed ==
  /\ fpc = "push" /\ at <= Len(video_list)
  /\ life[video_list[at]] = "closed"
  /\ at' = at + 1
  /\ UNCHANGED <<codec, sourceVars, connVars, loopVars, packets, fpc, todo,
                 owner>>

\* Source::Push up to the write; the reads of common_reduction would block on
\* an empty pipe.
Push ==
  /\ fpc = "push" /\ at <= Len(video_list)
  /\ LET s == video_list[at]
         q == cached_buffers[s] IN
     /\ life[s] # "closed"
     /\ tokens[s] >= TokensReduced(q)
     /\ cached_buffers' = [cached_buffers EXCEPT ![s] =
                             Append(Reduced(q), Head(todo))]
     /\ tokens' = [tokens EXCEPT ![s] = @ - TokensReduced(q)]
     /\ head' = [head EXCEPT ![s] = HeadAfter(s, TokensReduced(q))]
  /\ fpc' = "write"
  /\ UNCHANGED <<codec, life, reading, wanted, got_iframe, shown, lost, connVars,
                 loopVars, packets, todo, at, owner>>

\* Variant: a token is written for the first cached buffer only.
WriteTokenIfFirst ==
  /\ fpc = "write"
  /\ ~ PipeFull(video_list[at])
  /\ tokens' = [tokens EXCEPT ![video_list[at]] =
                  @ + (IF Len(cached_buffers[video_list[at]]) = 1 THEN 1 ELSE 0)]
  /\ fpc' = "push" /\ at' = at + 1
  /\ UNCHANGED <<codec, life, cached_buffers, head, reading, wanted, got_iframe,
                 shown, lost, connVars, loopVars, packets, todo, owner>>

\* write() of the token: it waits while the pipe is full.
WriteToken ==
  /\ fpc = "write"
  /\ ~ PipeFull(video_list[at])
  /\ tokens' = [tokens EXCEPT ![video_list[at]] = @ + 1]
  /\ fpc' = "push" /\ at' = at + 1
  /\ UNCHANGED <<codec, life, cached_buffers, head, reading, wanted, got_iframe,
                 shown, lost, connVars, loopVars, packets, todo, owner>>

PushedToAll ==
  /\ fpc = "push" /\ at > Len(video_list)
  /\ todo' = Tail(todo)
  /\ fpc' = (IF Len(todo) > 1 THEN "remove" ELSE "idle") /\ at' = 1
  /\ UNCHANGED <<codec, sourceVars, connVars, loopVars, packets, owner>>
-----------------------------------------------------------------------------
(* The event loop: one handler at a time.                                  *)

\* videoSource: new Source, Init, and the end of the list is read.
NewSource(s) ==
  /\ lpc = "idle" /\ session = "open"
  /\ life[s] = "none" /\ \A r \in 1 .. s - 1 : life[r] # "none"
  /\ Cardinality({r \in Sources : life[r] = "open"}) < MaxOpen
  /\ life' = [life EXCEPT ![s] = "new"]
  /\ tail' = IF video_list = <<>> THEN NoSource ELSE video_list[Len(video_list)]
  /\ lpc' = "link" /\ lsrc' = s
  /\ UNCHANGED <<codec, cached_buffers, tokens, head, reading, wanted,
                 got_iframe, shown, lost, connVars, flowVars, owner>>

\* push_back links the node; behind a node that is gone it may be lost.
LinkSource ==
  /\ lpc = "link"
  /\ \E linked \in {TRUE} \cup {~ raced} :
       video_list' = IF linked THEN Append(video_list, lsrc) ELSE video_list
  /\ life' = [life EXCEPT ![lsrc] = "open"]
  /\ lpc' = "idle" /\ lsrc' = NoSource /\ tail' = NoSource
  /\ UNCHANGED <<codec, cached_buffers, tokens, head, reading, wanted,
                 got_iframe, shown, lost, session, flag, msg, raced, flowVars,
                 owner>>

\* The sink asks for a frame.
doGetNextFrame(s) ==
  /\ lpc = "idle" /\ life[s] = "open" /\ ~ wanted[s]
  /\ reading' = [reading EXCEPT ![s] = TRUE]
  /\ wanted' = [wanted EXCEPT ![s] = TRUE]
  /\ UNCHANGED <<codec, life, cached_buffers, tokens, head, got_iframe, shown,
                 lost, connVars, loopVars, flowVars, owner>>

\* The sink stops (PAUSE); background reading stays on.
doStopGettingFrames(s) ==
  /\ MayStop
  /\ lpc = "idle" /\ life[s] = "open" /\ wanted[s]
  /\ wanted' = [wanted EXCEPT ![s] = FALSE]
  /\ UNCHANGED <<codec, life, cached_buffers, tokens, head, reading, got_iframe,
                 shown, lost, connVars, loopVars, flowVars, owner>>

\* incomingDataHandler: the token is read without Source::mtx.
ReadToken(s) ==
  /\ lpc = "idle" /\ life[s] = "open" /\ reading[s] /\ tokens[s] > 0
  /\ tokens' = [tokens EXCEPT ![s] = @ - 1]
  /\ head' = [head EXCEPT ![s] = HeadAfter(s, 1)]
  /\ lpc' = "pop" /\ lsrc' = s
  /\ UNCHANGED <<codec, life, cached_buffers, reading, wanted, got_iframe, shown,
                 lost, connVars, tail, flowVars, owner>>

\* VideoFramedSource::readFromList: nothing is shown before the first I frame
\* but parameter sets.
Showable(s, p) ==
  \/ codec = "jpeg" \/ got_iframe[s] \/ Kind(p) # "predicted"

\* Pop under Source::mtx, then reading is turned off and the sink, if it still
\* waits, is told.  An empty list makes an empty frame.
PopPacket ==
  /\ lpc = "pop" /\ ~ Pushing(lsrc)
  /\ LET q == cached_buffers[lsrc] IN
     IF q = <<>> THEN UNCHANGED <<cached_buffers, got_iframe, shown, lost>>
     ELSE LET p == Head(q) IN
       /\ cached_buffers' = [cached_buffers EXCEPT ![lsrc] = Tail(q)]
       /\ got_iframe' = [got_iframe EXCEPT ![lsrc] =
                            @ \/ Kind(p) = "intra"]
       /\ shown' = [shown EXCEPT ![lsrc] =
                       IF wanted[lsrc] /\ Showable(lsrc, p) THEN p ELSE @]
       /\ lost' = [lost EXCEPT ![lsrc] =
                      (@ /\ Kind(p) # "intra") \/ ~ wanted[lsrc]]
  /\ reading' = [reading EXCEPT ![lsrc] = FALSE]
  /\ wanted' = [wanted EXCEPT ![lsrc] = FALSE]
  /\ lpc' = "idle" /\ lsrc' = NoSource
  /\ UNCHANGED <<codec, life, tokens, head, connVars, tail, flowVars, owner>>

\* Variant: the flow's thread is told first.
CloseSourceTellsFirst(s) ==
  /\ lpc = "idle" /\ life[s] = "open"
  /\ reading' = [reading EXCEPT ![s] = FALSE]
  /\ wanted' = [wanted EXCEPT ![s] = FALSE]
  /\ life' = [life EXCEPT ![s] = "closed"]
  /\ lpc' = "close" /\ lsrc' = s
  /\ UNCHANGED <<codec, cached_buffers, tokens, head, got_iframe, shown, lost,
                 connVars, tail, flowVars, owner>>

\* ~ListSource: reading is turned off, and only then the flow's thread is told
\* that the Source may go.
CloseSource(s) ==
  /\ lpc = "idle" /\ life[s] = "open"
  /\ reading' = [reading EXCEPT ![s] = FALSE]
  /\ wanted' = [wanted EXCEPT ![s] = FALSE]
  /\ life' = [life EXCEPT ![s] = "closing"]
  /\ lpc' = "close" /\ lsrc' = s
  /\ UNCHANGED <<codec, cached_buffers, tokens, head, got_iframe, shown, lost,
                 connVars, tail, flowVars, owner>>

CloseReadFd ==
  /\ lpc = "close"
  /\ life' = [life EXCEPT ![lsrc] = "closed"]
  /\ lpc' = "idle" /\ lsrc' = NoSource
  /\ UNCHANGED <<codec, cached_buffers, tokens, head, reading, wanted,
                 got_iframe, shown, lost, connVars, tail, flowVars, owner>>

incomingMsgHandler ==
  /\ lpc = "idle" /\ msg # "none"
  /\ lpc' = msg /\ msg' = "none"
  /\ UNCHANGED <<codec, sourceVars, video_list, session, flag, raced, lsrc, tail,
                 flowVars, owner>>

addSession ==
  /\ lpc = "NewSession"
  /\ session' = "open"
  /\ lpc' = "answer"
  /\ UNCHANGED <<codec, sourceVars, video_list, flag, msg, raced, lsrc, tail,
                 flowVars, owner>>

\* Variant: the Live555MediaInput goes before the clients.
removeSessionClientsLast ==
  /\ lpc = "RemoveSession"
  /\ Delete({s \in Listed : life[s] = "closed"})
  /\ reading' = [s \in Sources |-> FALSE]
  /\ wanted' = [s \in Sources |-> FALSE]
  /\ video_list' = <<>>
  /\ session' = "removed"
  /\ lpc' = "answer"
  /\ UNCHANGED <<codec, flag, msg, raced, lsrc, tail, flowVars, owner>>

\* live555 closes the clients of the session, so each ~ListSource runs, and
\* then the session with its Live555MediaInput, which deletes what is listed.
removeSession ==
  /\ lpc = "RemoveSession"
  /\ Delete(Listed)
  /\ reading' = [s \in Sources |-> FALSE]
  /\ wanted' = [s \in Sources |-> FALSE]
  /\ video_list' = <<>>
  /\ session' = "removed"
  /\ lpc' = "answer"
  /\ UNCHANGED <<codec, flag, msg, raced, lsrc, tail, flowVars, owner>>

\* Variant: only a new session is answered.
AnswerSenderForgets ==
  /\ lpc = "answer"
  /\ flag' = (session = "removed")
  /\ lpc' = "idle"
  /\ UNCHANGED <<codec, sourceVars, video_list, session, msg, raced, lsrc, tail,
                 flowVars, owner>>

AnswerSender ==
  /\ lpc = "answer"
  /\ flag' = FALSE
  /\ lpc' = "idle"
  /\ UNCHANGED <<codec, sourceVars, video_list, session, msg, raced, lsrc, tail,
                 flowVars, owner>>
-----------------------------------------------------------------------------
(* RtspServerFlow's constructor and destructor, in the thread of the       *)
(* request, and sendMessage, which keeps mtx until it waits.               *)

sendMessage(m) ==
  /\ flag' = TRUE /\ msg' = m
  /\ UNCHANGED <<video_list, session, raced>>

createNewChannel ==
  /\ owner = "start"
  /\ sendMessage("NewSession")
  /\ owner' = "creating"
  /\ UNCHANGED <<codec, sourceVars, loopVars, flowVars>>

\* sendMessage returns and the channel is looked up; InstallSlotMap starts the
\* flow's thread.
ChannelCreated ==
  /\ owner = "creating" /\ ~ flag
  /\ owner' = "running"
  /\ UNCHANGED <<codec, sourceVars, connVars, loopVars, flowVars>>

DestroyFlow ==
  /\ owner = "running"
  /\ owner' = "stopping"
  /\ UNCHANGED <<codec, sourceVars, connVars, loopVars, flowVars>>

\* StopAllThread joins the flow's thread between two frames.
StopAllThread ==
  /\ owner = "stopping" /\ fpc = "idle"
  /\ fpc' = "done" /\ owner' = "joined"
  /\ UNCHANGED <<codec, sourceVars, connVars, loopVars, packets, todo, at>>

removeChannel ==
  /\ owner = "joined"
  /\ sendMessage("RemoveSession")
  /\ owner' = "removing"
  /\ UNCHANGED <<codec, sourceVars, loopVars, flowVars>>

ChannelRemoved ==
  /\ owner = "removing" /\ ~ flag
  /\ owner' = "destroyed"
  /\ UNCHANGED <<codec, sourceVars, connVars, loopVars, flowVars>>
-----------------------------------------------------------------------------
FlowThread ==
  \/ RemoveClosed \/ KeepSource \/ RemovedAll
  \/ SkipClosed \/ Push \/ WriteToken \/ PushedToAll

LoopEnds ==
  \/ LinkSource \/ PopPacket \/ CloseReadFd
  \/ addSession \/ removeSession \/ AnswerSender

Client(s) ==
  NewSource(s) \/ doGetNextFrame(s) \/ doStopGettingFrames(s) \/ CloseSource(s)

Owner ==
  \/ createNewChannel \/ ChannelCreated \/ StopAllThread \/ removeChannel
  \/ ChannelRemoved

Next ==
  \/ SendMediaToServer \/ FlowThread
  \/ LoopEnds \/ incomingMsgHandler
  \/ \E s \in Sources : Client(s) \/ ReadToken(s)
  \/ Owner \/ DestroyFlow

Spec == Init /\ [][Next]_vars

\* Three threads that run on; the loop goes on handling what is readable.
\* Clients, the encoder and whoever destroys the flow may do nothing.
Fairness ==
  /\ WF_vars(FlowThread) /\ WF_vars(Owner)
  /\ WF_vars(LoopEnds \/ incomingMsgHandler \/ \E s \in Sources : ReadToken(s))

FairSpec == Spec /\ Fairness
-----------------------------------------------------------------------------
Jammed == fpc = "write" /\ PipeFull(video_list[at])
Alive(s) == life[s] \in {"new", "open", "closing", "closed"}

\* Every cached packet has a token that will make the loop fetch it: in the
\* pipe, in the loop's hand or about to be written.
TokenForEach ==
  \A s \in Sources :
    Len(cached_buffers[s]) <= tokens[s]
      + (IF lpc = "pop" /\ lsrc = s THEN 1 ELSE 0)
      + (IF Pushing(s) THEN 1 ELSE 0)

\* Neither thread uses a Source, or the flow's thread the channel, after its
\* deletion: the loop's last use is CloseReadFd, and only the flow's thread or
\* the removal of the channel deletes.
NoUseAfterDelete ==
  /\ lsrc # NoSource => Alive(lsrc)
  /\ \A i \in DOMAIN video_list : Alive(video_list[i])
  /\ \A s \in Sources : reading[s] => life[s] = "open"
  /\ fpc \in {"remove", "push", "write"} => session = "open"

\* When the channel is gone no Source is left over, with its pipe's two
\* descriptors, unless video_list was damaged.
AllDeleted ==
  owner = "destroyed" /\ ~ raced =>
    \A s \in Sources : life[s] \in {"none", "deleted"}

\* A predicted frame is shown only right after the packet it builds on,
\* whatever the reduction dropped, and never first; a client that paused may
\* have lost one, until the next I frame.
Decodable ==
  [][\A s \in Sources :
       shown'[s] # shown[s] /\ Kind(shown'[s]) = "predicted" /\ ~ lost[s] =>
         shown[s] # NoPacket /\ Number(shown'[s]) = Number(shown[s]) + 1]_vars

\* What a client is shown keeps the encoder's order, and nothing comes twice.
ShownInOrder ==
  [][\A s \in Sources :
       shown'[s] # shown[s] /\ life'[s] # "deleted" =>
         Number(shown[s]) < Number(shown'[s])]_vars

\* A sink that waits while packets are cached gets one or goes, unless the
\* flow's thread is stuck at a full pipe with the Source's mutex.
Served ==
  \A s \in Sources :
    (reading[s] /\ cached_buffers[s] # <<>>) ~> (~ reading[s] \/ Jammed)

\* Constructor and destructor of the flow return, with the same reserve.
ChannelAnswered ==
  /\ owner = "creating" ~> owner = "running"
  /\ owner = "stopping" ~> (owner = "destroyed" \/ Jammed)
=============================================================================
