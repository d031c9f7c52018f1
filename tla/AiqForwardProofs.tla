-------------------------- MODULE AiqForwardProofs --------------------------
(***************************************************************************)
(* Theorems about AiqForward for any number of clients, forwarders,        *)
(* descriptors and packets: its types; that is_recv_running is never left  *)
(* set without a forwarder that will clear it; that no packet is sent to   *)
(* the AIQ twice; and, without faults, that each client's packets arrive   *)
(* in order and no thread loses its descriptor.                            *)
(***************************************************************************)
EXTENDS AiqForward, TLAPS

\* A thread on its way to a send() holds a packet.
Carries ==
  /\ \A c \in Clients : cpc[c] \in {"mode", "linking", "send"} => cmsg[c] \in Msgs
  /\ \A f \in Forwarders : fpc[f] = "tx" => fbuf[f] \in Msgs

TypeInv == TypeOK /\ Carries

\* The initial state is typed: main either connected descriptor 1 or has none.
LEMMA InitTypeInv == Init => TypeInv
<1> SUFFICES ASSUME Init PROVE TypeInv
  OBVIOUS
<1> USE BoundsAssumption, NoFileAssumption DEF Init
<1>1. NetTypeOK
  <2>1. CASE aiqUp
    <3>1. MaxFd \in Nat /\ MaxFd > 0 /\ MaxConns \in Nat /\ MaxConns > 0
      BY <2>1
    <3>2. 1 \in Fds /\ 1 \in Conns
      BY <3>1 DEF Fds, Conns
    <3>3. sock = 1 /\ file = [fd \in Fds |-> IF fd = 1 THEN 1 ELSE NoFile]
          /\ conn = [k \in Conns |-> IF k = 1 THEN "live" ELSE "new"]
      BY <2>1
    <3> QED
      BY <3>2, <3>3 DEF NetTypeOK
  <2>2. CASE ~ aiqUp
    BY <2>2 DEF NetTypeOK
  <2> QED
    BY <2>1, <2>2
<1>2. ControlTypeOK
  BY DEF ControlTypeOK, Free
<1>3. ClientTypeOK
  BY DEF ClientTypeOK, ClientPcs, NoFd, NoMsg
<1>4. ForwarderTypeOK
  BY DEF ForwarderTypeOK, FwdPcs, NoFd, NoMsg
<1>5. HistoryTypeOK
  BY DEF HistoryTypeOK
<1>6. Carries
  BY DEF Carries
<1> QED
  BY <1>1, <1>2, <1>3, <1>4, <1>5, <1>6 DEF TypeInv, TypeOK

\* A packet read from a PC is one of its bounded number of requests.
LEMMA NewRequest ==
  ASSUME NEW d \in Clients, sent[d] \in Nat, sent[d] < MaxMsgs[d]
  PROVE  <<d, sent[d] + 1, "request">> \in Msgs
<1> DEFINE n == sent[d] + 1
<1>1. n \in 1 .. MaxMsgs[d]
  BY BoundsAssumption
<1>2. <<d, n>> \in {d} \X (1 .. MaxMsgs[d])
  BY <1>1
<1>3. <<d, n>> \in Packets
  BY <1>2 DEF Packets
<1> HIDE DEF n
<1>4. <<d, n, "request">> \in Requests
  BY <1>3 DEF Requests
<1> QED
  BY <1>4 DEF Msgs, n

\* What FwdData and RecvPacket take from a stream is a packet of it.
LEMMA ReadStream ==
  ASSUME NEW q \in [Conns -> Seq(Msgs)], NEW k \in Conns, q[k] # <<>>
  PROVE  /\ Head(q[k]) \in Msgs
         /\ [q EXCEPT ![k] = Tail(@)] \in [Conns -> Seq(Msgs)]
<1>1. q[k] \in Seq(Msgs) /\ q[k] # <<>>
  OBVIOUS
<1>2. Head(q[k]) \in Msgs /\ Tail(q[k]) \in Seq(Msgs)
  BY <1>1
<1> QED
  BY <1>2

\* Writing a packet to a stream keeps it a sequence of packets.
LEMMA WriteStream ==
  ASSUME NEW q \in [Conns -> Seq(Msgs)], NEW k \in Conns, NEW m \in Msgs
  PROVE  [q EXCEPT ![k] = Append(@, m)] \in [Conns -> Seq(Msgs)]
<1>1. Append(q[k], m) \in Seq(Msgs)
  OBVIOUS
<1> QED
  BY <1>1

\* No step of a thread, of main, of the AIQ or of a PC leaves the types.
LEMMA NextTypeInv == TypeInv /\ [Next]_vars => TypeInv'
<1> SUFFICES ASSUME TypeInv, [Next]_vars PROVE TypeInv'
  OBVIOUS
<1> USE BoundsAssumption, ClientsAssumption, NoFileAssumption
<1> USE DEF TypeInv, TypeOK, net, aiq, ctl, cli, fwd, rem, hist, Fds, Conns,
        NoFd, Free, NoMsg, ClientPcs, FwdPcs
<1>1. ASSUME NEW c \in Clients, ReceiveThread(c) PROVE TypeInv'
  <2>1. CASE RecvPacket(c)
    <3>1. NetTypeOK'
      <4>1. NetTypeOK
        OBVIOUS
      <4>2. \/ outbox' = outbox
            \/ \E k \in Conns : outbox[k] # <<>> /\ outbox' = [outbox EXCEPT ![k] = Tail(@)]
        BY <2>1 DEF RecvPacket
      <4>3. outbox' \in [Conns -> Seq(Msgs)]
        <5>1. outbox \in [Conns -> Seq(Msgs)]
          BY <4>1 DEF NetTypeOK
        <5>2. ASSUME NEW k \in Conns, outbox[k] # <<>>,
                     outbox' = [outbox EXCEPT ![k] = Tail(@)]
              PROVE  outbox' \in [Conns -> Seq(Msgs)]
          BY <5>1, <5>2, ReadStream
        <5> QED
          BY <4>2, <5>1, <5>2
      <4> QED
        BY <2>1, <4>1, <4>3 DEF RecvPacket, NetTypeOK
    <3>2. ControlTypeOK'
      BY <2>1 DEF RecvPacket, FileOf, GoClient, ControlTypeOK
    <3>3. ClientTypeOK'
      <4>1. NetTypeOK /\ ClientTypeOK
        OBVIOUS
      <4>2. PICK m \in Msgs : cmsg' = [cmsg EXCEPT ![c] = m]
        BY <2>1, <4>1, NewRequest, ReadStream DEF RecvPacket,
           NetTypeOK, ClientTypeOK
      <4>3. sent' \in [Clients -> Nat]
        <5>1. sent' = sent \/ \E d \in Clients : sent' = [sent EXCEPT ![d] = @ + 1]
          BY <2>1 DEF RecvPacket
        <5>2. sent \in [Clients -> Nat]
          BY <4>1 DEF ClientTypeOK
        <5> QED
          BY <5>1, <5>2
      <4> QED
        BY <2>1, <4>1, <4>2, <4>3 DEF RecvPacket, GoClient, ClientTypeOK
    <3>4. ForwarderTypeOK'
      BY <2>1 DEF RecvPacket, FileOf, GoClient, ForwarderTypeOK, NetTypeOK
    <3>5. HistoryTypeOK'
      BY <2>1 DEF RecvPacket, FileOf, GoClient, HistoryTypeOK,
         ClientTypeOK, ForwarderTypeOK, Carries
    <3>6. Carries'
      <4>1. NetTypeOK /\ ClientTypeOK /\ ForwarderTypeOK /\ Carries
        OBVIOUS
      <4>2. PICK m \in Msgs : cmsg' = [cmsg EXCEPT ![c] = m]
        BY <2>1, <4>1, NewRequest, ReadStream DEF RecvPacket,
           NetTypeOK, ClientTypeOK
      <4> QED
        BY <2>1, <4>1, <4>2 DEF RecvPacket, GoClient, ClientTypeOK,
           ForwarderTypeOK, Carries
    <3> QED
      BY <3>1, <3>2, <3>3, <3>4, <3>5, <3>6
  <2>2. CASE RecvTimeout(c)
    BY <2>2 DEF RecvTimeout, NetTypeOK, ControlTypeOK, ClientTypeOK,
       ForwarderTypeOK, HistoryTypeOK, Carries
  <2>3. CASE RecvEnd(c)
    <3>1. NetTypeOK'
      BY <2>3 DEF RecvEnd, GoClient, NetTypeOK, ClientTypeOK, Carries
    <3>2. ControlTypeOK'
      BY <2>3 DEF RecvEnd, GoClient, ControlTypeOK
    <3>3. ClientTypeOK'
      BY <2>3 DEF RecvEnd, GoClient, ClientTypeOK, NetTypeOK
    <3>4. ForwarderTypeOK'
      BY <2>3 DEF RecvEnd, GoClient, ForwarderTypeOK, NetTypeOK
    <3>5. HistoryTypeOK'
      BY <2>3 DEF RecvEnd, GoClient, HistoryTypeOK
    <3>6. Carries'
      BY <2>3
      DEF RecvEnd, GoClient, Carries, ForwarderTypeOK, ClientTypeOK, NetTypeOK
    <3> QED
      BY <3>1, <3>2, <3>3, <3>4, <3>5, <3>6
  <2>4. CASE RecvClose(c)
    BY <2>4 DEF RecvClose, Closed, GoClient, NetTypeOK, ControlTypeOK,
       ClientTypeOK, ForwarderTypeOK, HistoryTypeOK, Carries
  <2>5. CASE ModeEnter(c)
    <3>1. NetTypeOK'
      BY <2>5 DEF ModeEnter, GoClient, NetTypeOK, ClientTypeOK, Carries
    <3>2. ControlTypeOK'
      BY <2>5 DEF ModeEnter, GoClient, ControlTypeOK
    <3>3. ClientTypeOK'
      BY <2>5 DEF ModeEnter, GoClient, ClientTypeOK, NetTypeOK
    <3>4. ForwarderTypeOK'
      BY <2>5 DEF ModeEnter, GoClient, ForwarderTypeOK, NetTypeOK
    <3>5. HistoryTypeOK'
      BY <2>5 DEF ModeEnter, GoClient, HistoryTypeOK, ClientTypeOK,
         ForwarderTypeOK, Carries
    <3>6. Carries'
      BY <2>5 DEF ModeEnter, GoClient, Carries, ForwarderTypeOK,
         ClientTypeOK, NetTypeOK
    <3> QED
      BY <3>1, <3>2, <3>3, <3>4, <3>5, <3>6
  <2>6. CASE ModeLeave(c)
    <3>1. NetTypeOK'
      BY <2>6 DEF ModeLeave, GoClient, NetTypeOK, ClientTypeOK, Carries
    <3>2. ControlTypeOK'
      BY <2>6 DEF ModeLeave, GoClient, ControlTypeOK
    <3>3. ClientTypeOK'
      BY <2>6 DEF ModeLeave, GoClient, ClientTypeOK, NetTypeOK
    <3>4. ForwarderTypeOK'
      BY <2>6 DEF ModeLeave, GoClient, ForwarderTypeOK, NetTypeOK
    <3>5. HistoryTypeOK'
      BY <2>6 DEF ModeLeave, GoClient, HistoryTypeOK
    <3>6. Carries'
      BY <2>6
      DEF ModeLeave, GoClient, Carries, ForwarderTypeOK, ClientTypeOK, NetTypeOK
    <3> QED
      BY <3>1, <3>2, <3>3, <3>4, <3>5, <3>6
  <2>7. CASE SendOk(c)
    <3>1. NetTypeOK'
      <4>1. NetTypeOK /\ cmsg[c] \in Msgs
        BY <2>7 DEF SendOk, Carries
      <4>2. \/ inbox' = inbox
            \/ \E k \in Conns : inbox' = [inbox EXCEPT ![k] = Append(@, cmsg[c])]
        BY <2>7 DEF SendOk
      <4>3. inbox' \in [Conns -> Seq(Msgs)]
        <5>1. inbox \in [Conns -> Seq(Msgs)] /\ cmsg[c] \in Msgs
          BY <4>1 DEF NetTypeOK
        <5>2. ASSUME NEW k \in Conns, inbox' = [inbox EXCEPT ![k] = Append(@, cmsg[c])]
              PROVE  inbox' \in [Conns -> Seq(Msgs)]
          BY <5>1, <5>2, WriteStream
        <5> QED
          BY <4>2, <5>1, <5>2
      <4> QED
        BY <2>7, <4>1, <4>3 DEF SendOk, NetTypeOK
    <3>2. ControlTypeOK'
      BY <2>7 DEF SendOk, FileOf, GoClient, ControlTypeOK
    <3>3. ClientTypeOK'
      BY <2>7 DEF SendOk, FileOf, GoClient, ClientTypeOK, NetTypeOK
    <3>4. ForwarderTypeOK'
      BY <2>7 DEF SendOk, FileOf, GoClient, ForwarderTypeOK, NetTypeOK
    <3>5. HistoryTypeOK'
      <4>1. HistoryTypeOK /\ cmsg[c] \in Msgs
        BY <2>7 DEF SendOk, Carries
      <4>2. delivered' = delivered \/ delivered' = Append(delivered, cmsg[c])
        BY <2>7 DEF SendOk
      <4>3. delivered' \in Seq(Msgs)
        <5>1. delivered \in Seq(Msgs)
          BY <4>1 DEF HistoryTypeOK
        <5>2. \A m \in Msgs : Append(delivered, m) \in Seq(Msgs)
          BY <5>1
        <5> QED
          BY <4>1, <4>2, <5>1, <5>2
      <4> QED
        BY <2>7, <4>1, <4>3 DEF SendOk, HistoryTypeOK
    <3>6. Carries'
      BY <2>7 DEF SendOk, FileOf, GoClient, Carries, ForwarderTypeOK,
         ClientTypeOK, NetTypeOK
    <3> QED
      BY <3>1, <3>2, <3>3, <3>4, <3>5, <3>6
  <2>8. CASE SendSigpipe(c)
    BY <2>8 DEF SendSigpipe, Sigpipe, NetTypeOK, ControlTypeOK,
       ClientTypeOK, ForwarderTypeOK, HistoryTypeOK, Carries
  <2>9. CASE SendNoSocket(c)
    <3>1. NetTypeOK'
      BY <2>9 DEF SendNoSocket, GoClient, NetTypeOK, ClientTypeOK, Carries
    <3>2. ControlTypeOK'
      BY <2>9 DEF SendNoSocket, GoClient, ControlTypeOK
    <3>3. ClientTypeOK'
      BY <2>9 DEF SendNoSocket, GoClient, ClientTypeOK, NetTypeOK
    <3>4. ForwarderTypeOK'
      BY <2>9 DEF SendNoSocket, GoClient, ForwarderTypeOK, NetTypeOK
    <3>5. HistoryTypeOK'
      BY <2>9 DEF SendNoSocket, GoClient, HistoryTypeOK
    <3>6. Carries'
      BY <2>9
      DEF SendNoSocket, GoClient, Carries, ForwarderTypeOK, ClientTypeOK,
          NetTypeOK
    <3> QED
      BY <3>1, <3>2, <3>3, <3>4, <3>5, <3>6
  <2>10. CASE SendFails(c)
    <3>1. NetTypeOK'
      BY <2>10
      DEF SendFails, Close, Closed, GoClient, NetTypeOK, ClientTypeOK, Carries
    <3>2. ControlTypeOK'
      BY <2>10 DEF SendFails, Close, Closed, GoClient, ControlTypeOK
    <3>3. ClientTypeOK'
      BY <2>10 DEF SendFails, Close, Closed, GoClient, ClientTypeOK, NetTypeOK
    <3>4. ForwarderTypeOK'
      BY <2>10 DEF SendFails, Close, Closed, GoClient, ForwarderTypeOK, NetTypeOK
    <3>5. HistoryTypeOK'
      BY <2>10 DEF SendFails, Close, Closed, GoClient, HistoryTypeOK
    <3>6. Carries'
      BY <2>10
      DEF SendFails, Close, Closed, GoClient, Carries, ForwarderTypeOK,
          ClientTypeOK, NetTypeOK
    <3> QED
      BY <3>1, <3>2, <3>3, <3>4, <3>5, <3>6
  <2>11. CASE SetupCheck(c)
    <3>1. NetTypeOK'
      BY <2>11 DEF SetupCheck, GoClient, NetTypeOK, ClientTypeOK, Carries
    <3>2. ControlTypeOK'
      BY <2>11 DEF SetupCheck, GoClient, ControlTypeOK
    <3>3. ClientTypeOK'
      BY <2>11 DEF SetupCheck, GoClient, ClientTypeOK, NetTypeOK
    <3>4. ForwarderTypeOK'
      BY <2>11 DEF SetupCheck, GoClient, ForwarderTypeOK, NetTypeOK
    <3>5. HistoryTypeOK'
      BY <2>11 DEF SetupCheck, GoClient, HistoryTypeOK
    <3>6. Carries'
      BY <2>11
      DEF SetupCheck, GoClient, Carries, ForwarderTypeOK, ClientTypeOK,
          NetTypeOK
    <3> QED
      BY <3>1, <3>2, <3>3, <3>4, <3>5, <3>6
  <2>12. CASE SetupSocket(c)
    <3>1. NetTypeOK'
      <4>1. NetTypeOK
        OBVIOUS
      <4>2. ASSUME NEW k \in Conns, NEW fd \in Fds,
                   conn' = [conn EXCEPT ![k] = "unconnected"],
                   file' = [file EXCEPT ![fd] = k], sock' = fd
            PROVE  NetTypeOK'
        BY <2>12, <4>1, <4>2 DEF SetupSocket, NetTypeOK
      <4>3. ASSUME sock' = 0, UNCHANGED <<conn, file>>
            PROVE  NetTypeOK'
        BY <2>12, <4>1, <4>3 DEF SetupSocket, NetTypeOK
      <4> QED
        BY <2>12, <4>2, <4>3 DEF SetupSocket
    <3>2. ControlTypeOK'
      BY <2>12 DEF SetupSocket, LowestFree, FreeFds, GoClient, ControlTypeOK
    <3>3. ClientTypeOK'
      BY <2>12 DEF SetupSocket, LowestFree, FreeFds, GoClient,
         ClientTypeOK, NetTypeOK
    <3>4. ForwarderTypeOK'
      BY <2>12 DEF SetupSocket, LowestFree, FreeFds, GoClient,
         ForwarderTypeOK, NetTypeOK
    <3>5. HistoryTypeOK'
      BY <2>12 DEF SetupSocket, LowestFree, FreeFds, GoClient,
         HistoryTypeOK, ClientTypeOK, ForwarderTypeOK, Carries
    <3>6. Carries'
      BY <2>12 DEF SetupSocket, LowestFree, FreeFds, GoClient, Carries,
         ForwarderTypeOK, ClientTypeOK, NetTypeOK
    <3> QED
      BY <3>1, <3>2, <3>3, <3>4, <3>5, <3>6
  <2>13. CASE SetupConnect(c)
    <3>1. NetTypeOK'
      <4>1. NetTypeOK /\ UNCHANGED <<inbox, outbox>>
        BY <2>13 DEF SetupConnect
      <4>2. ASSUME NEW k \in Conns, conn' = [conn EXCEPT ![k] = "live"],
                   UNCHANGED <<file, sock>>
            PROVE  NetTypeOK'
        BY <4>1, <4>2 DEF NetTypeOK
      <4>3. ASSUME Close, UNCHANGED conn
            PROVE  NetTypeOK'
        BY <4>1, <4>3 DEF Close, Closed, NetTypeOK
      <4> QED
        BY <2>13, <4>2, <4>3 DEF SetupConnect
    <3>2. ControlTypeOK'
      BY <2>13 DEF SetupConnect, FileOf, Close, Closed, GoClient, ControlTypeOK
    <3>3. ClientTypeOK'
      BY <2>13 DEF SetupConnect, FileOf, Close, Closed, GoClient,
         ClientTypeOK, NetTypeOK
    <3>4. ForwarderTypeOK'
      BY <2>13 DEF SetupConnect, FileOf, Close, Closed, GoClient,
         ForwarderTypeOK, NetTypeOK
    <3>5. HistoryTypeOK'
      BY <2>13 DEF SetupConnect, FileOf, Close, Closed, GoClient,
         HistoryTypeOK, ClientTypeOK, ForwarderTypeOK, Carries
    <3>6. Carries'
      BY <2>13 DEF SetupConnect, FileOf, Close, Closed, GoClient,
         Carries, ForwarderTypeOK, ClientTypeOK, NetTypeOK
    <3> QED
      BY <3>1, <3>2, <3>3, <3>4, <3>5, <3>6
  <2>14. CASE ForwardFailed(c)
    BY <2>14 DEF ForwardFailed, GoClient, NetTypeOK, ControlTypeOK,
       ClientTypeOK, ForwarderTypeOK, HistoryTypeOK, Carries
  <2>15. CASE ConnectFailed(c)
    BY <2>15 DEF ConnectFailed, Close, Closed, GoClient, NetTypeOK,
       ControlTypeOK, ClientTypeOK, ForwarderTypeOK, HistoryTypeOK, Carries
  <2>16. CASE SpawnForwarder(c)
    <3>1. NetTypeOK'
      BY <2>16 DEF SpawnForwarder, GoClient, GoFwd, NetTypeOK,
         ClientTypeOK, Carries
    <3>2. ControlTypeOK'
      BY <2>16 DEF SpawnForwarder, GoClient, GoFwd, ControlTypeOK
    <3>3. ClientTypeOK'
      BY <2>16 DEF SpawnForwarder, GoClient, GoFwd, ClientTypeOK, NetTypeOK
    <3>4. ForwarderTypeOK'
      <4>1. ForwarderTypeOK /\ cfd[c] \in Fds \cup {NoFd}
        BY DEF ClientTypeOK
      <4>2. UNCHANGED <<fpc, ffd>> \/ \E f \in Forwarders :
              GoFwd(f, "start") /\ ffd' = [ffd EXCEPT ![f] = cfd[c]]
        BY <2>16 DEF SpawnForwarder
      <4>3. UNCHANGED <<frx, fbuf, ferrno>>
        BY <2>16 DEF SpawnForwarder
      <4> QED
        BY <4>1, <4>2, <4>3 DEF ForwarderTypeOK, GoFwd
    <3>5. HistoryTypeOK'
      BY <2>16 DEF SpawnForwarder, GoClient, GoFwd, HistoryTypeOK,
         ClientTypeOK, ForwarderTypeOK, Carries
    <3>6. Carries'
      BY <2>16 DEF SpawnForwarder, GoClient, GoFwd, Carries,
         ForwarderTypeOK, ClientTypeOK, NetTypeOK
    <3> QED
      BY <3>1, <3>2, <3>3, <3>4, <3>5, <3>6
  <2> QED
    BY <1>1, <2>1, <2>2, <2>3, <2>4, <2>5, <2>6, <2>7, <2>8, <2>9, <2>10,
       <2>11, <2>12, <2>13, <2>14, <2>15, <2>16 DEF ReceiveThread
<1>2. ASSUME NEW f \in Forwarders, ForwardThread(f) PROVE TypeInv'
  <2>1. CASE FwdStart(f)
    BY <2>1 DEF FwdStart, GoFwd, NetTypeOK, ControlTypeOK, ClientTypeOK,
       ForwarderTypeOK, HistoryTypeOK, Carries
  <2>2. CASE FwdTest(f)
    BY <2>2 DEF FwdTest, GoFwd, NetTypeOK, ControlTypeOK, ClientTypeOK,
       ForwarderTypeOK, HistoryTypeOK, Carries
  <2>3. CASE FwdCall(f)
    <3>1. NetTypeOK'
      BY <2>3 DEF FwdCall, FileOf, GoFwd, NetTypeOK, ClientTypeOK, Carries
    <3>2. ControlTypeOK'
      BY <2>3 DEF FwdCall, FileOf, GoFwd, ControlTypeOK
    <3>3. ClientTypeOK'
      BY <2>3 DEF FwdCall, FileOf, GoFwd, ClientTypeOK, NetTypeOK
    <3>4. ForwarderTypeOK'
      <4>1. FileOf(sock) \in Clients \cup Conns \cup {NoFile}
        BY DEF FileOf, NetTypeOK
      <4>2. frx' = [frx EXCEPT ![f] = FileOf(sock)] \/ frx' = frx
        BY <2>3 DEF FwdCall
      <4>3. frx' \in [Forwarders -> Clients \cup Conns \cup {NoFile}]
        BY <4>1, <4>2 DEF ForwarderTypeOK
      <4>4. fpc' \in [Forwarders -> FwdPcs] /\ UNCHANGED <<ffd, fbuf, ferrno>>
        BY <2>3 DEF FwdCall, GoFwd, ForwarderTypeOK
      <4> QED
        BY <4>3, <4>4 DEF ForwarderTypeOK
    <3>5. HistoryTypeOK'
      BY <2>3 DEF FwdCall, FileOf, GoFwd, HistoryTypeOK, ClientTypeOK,
         ForwarderTypeOK, Carries
    <3>6. Carries'
      BY <2>3 DEF FwdCall, FileOf, GoFwd, Carries, ForwarderTypeOK,
         ClientTypeOK, NetTypeOK
    <3> QED
      BY <3>1, <3>2, <3>3, <3>4, <3>5, <3>6
  <2>4. CASE FwdData(f)
    <3>1. NetTypeOK'
      <4>1. NetTypeOK
        OBVIOUS
      <4>2. \/ outbox' = outbox
            \/ \E k \in Conns : outbox[k] # <<>> /\ outbox' = [outbox EXCEPT ![k] = Tail(@)]
        BY <2>4 DEF FwdData
      <4>3. outbox' \in [Conns -> Seq(Msgs)]
        <5>1. outbox \in [Conns -> Seq(Msgs)]
          BY <4>1 DEF NetTypeOK
        <5>2. ASSUME NEW k \in Conns, outbox[k] # <<>>,
                     outbox' = [outbox EXCEPT ![k] = Tail(@)]
              PROVE  outbox' \in [Conns -> Seq(Msgs)]
          BY <5>1, <5>2, ReadStream
        <5> QED
          BY <4>2, <5>1, <5>2
      <4> QED
        BY <2>4, <4>1, <4>3 DEF FwdData, NetTypeOK
    <3>2. ControlTypeOK'
      BY <2>4 DEF FwdData, GoFwd, ControlTypeOK
    <3>3. ClientTypeOK'
      <4>1. ClientTypeOK
        OBVIOUS
      <4>2. sent' \in [Clients -> Nat]
        <5>1. sent' = sent \/ \E d \in Clients : sent' = [sent EXCEPT ![d] = @ + 1]
          BY <2>4 DEF FwdData
        <5>2. sent \in [Clients -> Nat]
          BY <4>1 DEF ClientTypeOK
        <5> QED
          BY <5>1, <5>2
      <4> QED
        BY <2>4, <4>1, <4>2 DEF FwdData, ClientTypeOK
    <3>4. ForwarderTypeOK'
      <4>1. NetTypeOK /\ ClientTypeOK /\ ForwarderTypeOK
        OBVIOUS
      <4>2. PICK m \in Msgs : fbuf' = [fbuf EXCEPT ![f] = m]
        BY <2>4, <4>1, NewRequest, ReadStream DEF FwdData, NetTypeOK,
           ClientTypeOK
      <4> QED
        BY <2>4, <4>1, <4>2 DEF FwdData, GoFwd, ForwarderTypeOK
    <3>5. HistoryTypeOK'
      BY <2>4 DEF FwdData, GoFwd, HistoryTypeOK, ClientTypeOK,
         ForwarderTypeOK, Carries
    <3>6. Carries'
      <4>1. NetTypeOK /\ ClientTypeOK /\ ForwarderTypeOK /\ Carries
        OBVIOUS
      <4>2. PICK m \in Msgs : fbuf' = [fbuf EXCEPT ![f] = m]
        BY <2>4, <4>1, NewRequest, ReadStream DEF FwdData, NetTypeOK,
           ClientTypeOK
      <4> QED
        BY <2>4, <4>1, <4>2 DEF FwdData, GoFwd, ClientTypeOK,
           ForwarderTypeOK, Carries
    <3> QED
      BY <3>1, <3>2, <3>3, <3>4, <3>5, <3>6
  <2>5. CASE FwdNothing(f)
    <3>1. NetTypeOK' /\ ControlTypeOK' /\ ClientTypeOK' /\ HistoryTypeOK'
      BY <2>5
      DEF FwdNothing, NetTypeOK, ControlTypeOK, ClientTypeOK, HistoryTypeOK
    <3>2. ferrno' = ferrno \/ ferrno' = [ferrno EXCEPT ![f] = "EAGAIN"]
      BY <2>5 DEF FwdNothing
    <3>3. fpc' = [fpc EXCEPT ![f] = "test"] /\ UNCHANGED <<ffd, frx, fbuf, cpc, cmsg>>
      BY <2>5 DEF FwdNothing, GoFwd
    <3>4. ForwarderTypeOK'
      BY <3>2, <3>3 DEF ForwarderTypeOK
    <3>5. Carries'
      BY <3>3 DEF Carries, ForwarderTypeOK
    <3> QED
      BY <3>1, <3>4, <3>5
  <2>6. CASE FwdError(f)
    <3>1. NetTypeOK'
      BY <2>6 DEF FwdError, Close, Closed, GoFwd, NetTypeOK,
         ClientTypeOK, Carries
    <3>2. ControlTypeOK'
      BY <2>6 DEF FwdError, Close, Closed, GoFwd, ControlTypeOK
    <3>3. ClientTypeOK'
      BY <2>6 DEF FwdError, Close, Closed, GoFwd, ClientTypeOK, NetTypeOK
    <3>4. ForwarderTypeOK'
      BY <2>6 DEF FwdError, Close, Closed, GoFwd, ForwarderTypeOK, NetTypeOK
    <3>5. HistoryTypeOK'
      BY <2>6 DEF FwdError, Close, Closed, GoFwd, HistoryTypeOK,
         ClientTypeOK, ForwarderTypeOK, Carries
    <3>6. Carries'
      BY <2>6 DEF FwdError, Close, Closed, GoFwd, Carries,
         ForwarderTypeOK, ClientTypeOK, NetTypeOK
    <3> QED
      BY <3>1, <3>2, <3>3, <3>4, <3>5, <3>6
  <2>7. CASE FwdHangup(f)
    BY <2>7 DEF FwdHangup, GoFwd, NetTypeOK, ControlTypeOK, ClientTypeOK,
       ForwarderTypeOK, HistoryTypeOK, Carries
  <2>8. CASE FwdSendOk(f)
    <3>1. NetTypeOK'
      <4>1. NetTypeOK /\ fbuf[f] \in Msgs
        BY <2>8 DEF FwdSendOk, Carries
      <4>2. \/ inbox' = inbox
            \/ \E k \in Conns : inbox' = [inbox EXCEPT ![k] = Append(@, fbuf[f])]
        BY <2>8 DEF FwdSendOk
      <4>3. inbox' \in [Conns -> Seq(Msgs)]
        <5>1. inbox \in [Conns -> Seq(Msgs)] /\ fbuf[f] \in Msgs
          BY <4>1 DEF NetTypeOK
        <5>2. ASSUME NEW k \in Conns, inbox' = [inbox EXCEPT ![k] = Append(@, fbuf[f])]
              PROVE  inbox' \in [Conns -> Seq(Msgs)]
          BY <5>1, <5>2, WriteStream
        <5> QED
          BY <4>2, <5>1, <5>2
      <4> QED
        BY <2>8, <4>1, <4>3 DEF FwdSendOk, NetTypeOK
    <3>2. ControlTypeOK'
      BY <2>8 DEF FwdSendOk, FileOf, GoFwd, ControlTypeOK
    <3>3. ClientTypeOK'
      BY <2>8 DEF FwdSendOk, FileOf, GoFwd, ClientTypeOK, NetTypeOK
    <3>4. ForwarderTypeOK'
      BY <2>8 DEF FwdSendOk, FileOf, GoFwd, ForwarderTypeOK, NetTypeOK
    <3>5. HistoryTypeOK'
      BY <2>8 DEF FwdSendOk, FileOf, GoFwd, HistoryTypeOK, ClientTypeOK,
         ForwarderTypeOK, Carries
    <3>6. Carries'
      BY <2>8 DEF FwdSendOk, FileOf, GoFwd, Carries, ForwarderTypeOK,
         ClientTypeOK, NetTypeOK
    <3> QED
      BY <3>1, <3>2, <3>3, <3>4, <3>5, <3>6
  <2>9. CASE FwdSendFails(f)
    <3>1. NetTypeOK'
      BY <2>9 DEF FwdSendFails, Closed, GoFwd, NetTypeOK, ClientTypeOK, Carries
    <3>2. ControlTypeOK'
      BY <2>9 DEF FwdSendFails, Closed, GoFwd, ControlTypeOK
    <3>3. ClientTypeOK'
      BY <2>9 DEF FwdSendFails, Closed, GoFwd, ClientTypeOK, NetTypeOK
    <3>4. ForwarderTypeOK'
      BY <2>9 DEF FwdSendFails, Closed, GoFwd, ForwarderTypeOK, NetTypeOK
    <3>5. HistoryTypeOK'
      BY <2>9 DEF FwdSendFails, Closed, GoFwd, HistoryTypeOK
    <3>6. Carries'
      BY <2>9
      DEF FwdSendFails, Closed, GoFwd, Carries, ForwarderTypeOK, ClientTypeOK,
          NetTypeOK
    <3> QED
      BY <3>1, <3>2, <3>3, <3>4, <3>5, <3>6
  <2>10. CASE FwdSigpipe(f)
    BY <2>10 DEF FwdSigpipe, Sigpipe, NetTypeOK, ControlTypeOK,
       ClientTypeOK, ForwarderTypeOK, HistoryTypeOK, Carries
  <2>11. CASE FwdLast(f)
    BY <2>11 DEF FwdLast, GoFwd, NetTypeOK, ControlTypeOK, ClientTypeOK,
       ForwarderTypeOK, HistoryTypeOK, Carries
  <2> QED
    BY <1>2, <2>1, <2>2, <2>3, <2>4, <2>5, <2>6, <2>7, <2>8, <2>9, <2>10,
       <2>11 DEF ForwardThread
<1>3. CASE Quit
  <2>1. NetTypeOK'
    BY <1>3 DEF Quit, NetTypeOK
  <2>2. ControlTypeOK'
    BY <1>3 DEF Quit, ControlTypeOK
  <2>3. ClientTypeOK'
    BY <1>3 DEF Quit, ClientTypeOK
  <2>4. ForwarderTypeOK'
    BY <1>3 DEF Quit, ForwarderTypeOK
  <2>5. HistoryTypeOK'
    BY <1>3 DEF Quit, HistoryTypeOK
  <2>6. Carries'
    BY <1>3 DEF Quit, Carries, ForwarderTypeOK, ClientTypeOK
  <2> QED
    BY <2>1, <2>2, <2>3, <2>4, <2>5, <2>6
<1>4. CASE Exit
  <2>1. NetTypeOK'
    BY <1>4 DEF Exit, NetTypeOK
  <2>2. ControlTypeOK'
    BY <1>4 DEF Exit, ControlTypeOK
  <2>3. ClientTypeOK'
    BY <1>4 DEF Exit, ClientTypeOK
  <2>4. ForwarderTypeOK'
    BY <1>4 DEF Exit, ForwarderTypeOK
  <2>5. HistoryTypeOK'
    BY <1>4 DEF Exit, HistoryTypeOK
  <2>6. Carries'
    BY <1>4 DEF Exit, Carries, ForwarderTypeOK, ClientTypeOK
  <2> QED
    BY <2>1, <2>2, <2>3, <2>4, <2>5, <2>6
<1>5. CASE ProcessEnds
  <2>1. NetTypeOK'
    BY <1>5 DEF ProcessEnds, NetTypeOK
  <2>2. ControlTypeOK'
    BY <1>5 DEF ProcessEnds, ControlTypeOK
  <2>3. ClientTypeOK'
    BY <1>5 DEF ProcessEnds, ClientTypeOK
  <2>4. ForwarderTypeOK'
    BY <1>5 DEF ProcessEnds, ForwarderTypeOK
  <2>5. HistoryTypeOK'
    BY <1>5 DEF ProcessEnds, HistoryTypeOK
  <2>6. Carries'
    BY <1>5 DEF ProcessEnds, Carries, ForwarderTypeOK, ClientTypeOK
  <2> QED
    BY <2>1, <2>2, <2>3, <2>4, <2>5, <2>6
<1>6. ASSUME NEW c \in Clients, Accept(c) PROVE TypeInv'
  <2>1. NetTypeOK'
    BY <1>6 DEF Accept, LowestFree, FreeFds, GoClient, NetTypeOK
  <2>2. ControlTypeOK'
    BY <1>6 DEF Accept, LowestFree, FreeFds, GoClient, ControlTypeOK
  <2>3. ClientTypeOK'
    BY <1>6 DEF Accept, LowestFree, FreeFds, GoClient, ClientTypeOK
  <2>4. ForwarderTypeOK'
    BY <1>6 DEF Accept, LowestFree, FreeFds, GoClient, ForwarderTypeOK
  <2>5. HistoryTypeOK'
    BY <1>6 DEF Accept, LowestFree, FreeFds, GoClient, HistoryTypeOK
  <2>6. Carries'
    BY <1>6 DEF Accept, LowestFree, FreeFds, GoClient, Carries,
       ForwarderTypeOK, ClientTypeOK
  <2> QED
    BY <2>1, <2>2, <2>3, <2>4, <2>5, <2>6
<1>7. ASSUME NEW c \in Clients, ClientLeaves(c) PROVE TypeInv'
  <2>1. NetTypeOK'
    BY <1>7 DEF ClientLeaves, NetTypeOK
  <2>2. ControlTypeOK'
    BY <1>7 DEF ClientLeaves, ControlTypeOK
  <2>3. ClientTypeOK'
    BY <1>7 DEF ClientLeaves, ClientTypeOK
  <2>4. ForwarderTypeOK'
    BY <1>7 DEF ClientLeaves, ForwarderTypeOK
  <2>5. HistoryTypeOK'
    BY <1>7 DEF ClientLeaves, HistoryTypeOK
  <2>6. Carries'
    BY <1>7 DEF ClientLeaves, Carries, ForwarderTypeOK, ClientTypeOK
  <2> QED
    BY <2>1, <2>2, <2>3, <2>4, <2>5, <2>6
<1>8. ASSUME NEW k \in Conns, AiqAnswers(k) PROVE TypeInv'
  <2>1. NetTypeOK'
    <3>1. NetTypeOK /\ Head(inbox[k]) \in Msgs
          /\ [inbox EXCEPT ![k] = Tail(@)] \in [Conns -> Seq(Msgs)]
      BY <1>8, ReadStream DEF AiqAnswers, NetTypeOK
    <3>2. CASE Head(inbox[k]) \in Requests
      <4> DEFINE m == Head(inbox[k])
      <4>1. <<m[1], m[2], "answer">> \in Msgs
        BY <3>2 DEF Msgs, Requests, Answers
      <4>2. [outbox EXCEPT ![k] = Append(@, <<m[1], m[2], "answer">>)]
              \in [Conns -> Seq(Msgs)]
        BY <3>1, <4>1, WriteStream DEF NetTypeOK
      <4> QED
        BY <1>8, <3>1, <3>2, <4>2 DEF AiqAnswers, NetTypeOK
    <3>3. CASE Head(inbox[k]) \notin Requests
      BY <1>8, <3>1, <3>3 DEF AiqAnswers, NetTypeOK
    <3> QED
      BY <3>2, <3>3
  <2>2. ControlTypeOK'
    BY <1>8 DEF AiqAnswers, ControlTypeOK
  <2>3. ClientTypeOK'
    BY <1>8 DEF AiqAnswers, ClientTypeOK
  <2>4. ForwarderTypeOK'
    BY <1>8 DEF AiqAnswers, ForwarderTypeOK
  <2>5. HistoryTypeOK'
    BY <1>8 DEF AiqAnswers, HistoryTypeOK
  <2>6. Carries'
    BY <1>8 DEF AiqAnswers, Carries, ForwarderTypeOK, ClientTypeOK
  <2> QED
    BY <2>1, <2>2, <2>3, <2>4, <2>5, <2>6
<1>9. CASE AiqExits
  <2>1. NetTypeOK'
    BY <1>9 DEF AiqExits, NetTypeOK
  <2>2. ControlTypeOK'
    <3>1. exits' = exits + 1 /\ exits \in Nat
      BY <1>9 DEF AiqExits, ControlTypeOK
    <3>2. exits' \in Nat
      BY <3>1
    <3> QED
      BY <1>9, <3>2 DEF AiqExits, ControlTypeOK
  <2>3. ClientTypeOK'
    BY <1>9 DEF AiqExits, ClientTypeOK
  <2>4. ForwarderTypeOK'
    BY <1>9 DEF AiqExits, ForwarderTypeOK
  <2>5. HistoryTypeOK'
    BY <1>9 DEF AiqExits, HistoryTypeOK
  <2>6. Carries'
    BY <1>9 DEF AiqExits, Carries, ForwarderTypeOK, ClientTypeOK
  <2> QED
    BY <2>1, <2>2, <2>3, <2>4, <2>5, <2>6
<1>10. CASE AiqStarts
  <2>1. NetTypeOK'
    BY <1>10 DEF AiqStarts, NetTypeOK
  <2>2. ControlTypeOK'
    BY <1>10 DEF AiqStarts, ControlTypeOK
  <2>3. ClientTypeOK'
    BY <1>10 DEF AiqStarts, ClientTypeOK
  <2>4. ForwarderTypeOK'
    BY <1>10 DEF AiqStarts, ForwarderTypeOK
  <2>5. HistoryTypeOK'
    BY <1>10 DEF AiqStarts, HistoryTypeOK
  <2>6. Carries'
    BY <1>10 DEF AiqStarts, Carries, ForwarderTypeOK, ClientTypeOK
  <2> QED
    BY <2>1, <2>2, <2>3, <2>4, <2>5, <2>6
<1>11. CASE UNCHANGED vars
  BY <1>11 DEF vars, NetTypeOK, ControlTypeOK, ClientTypeOK,
     ForwarderTypeOK, HistoryTypeOK, Carries
<1> QED
  BY <1>1, <1>2, <1>3, <1>4, <1>5, <1>6, <1>7, <1>8, <1>9, <1>10, <1>11 DEF
     Next, MainThread, Outside

\* Every variable of AiqForward keeps its type.
THEOREM TypeCorrect == Spec => []TypeOK
<1>1. TypeInv => TypeOK
  BY DEF TypeInv
<1> QED
  BY <1>1, InitTypeInv, NextTypeInv, PTL DEF Spec

\* The flag is clear at the start.
LEMMA InitFlag == Init => FlagHasForwarder
BY DEF Init, FlagHasForwarder

\* Only FwdStart sets the flag, and it puts its thread in the loop; only
\* FwdLast takes a thread out, and it clears the flag.
LEMMA NextFlag == TypeInv /\ FlagHasForwarder /\ [Next]_vars => FlagHasForwarder'
<1> SUFFICES ASSUME TypeInv, FlagHasForwarder, [Next]_vars
             PROVE  FlagHasForwarder'
  OBVIOUS
<1> USE DEF FlagHasForwarder, Forwarding, net, aiq, ctl, cli, fwd, rem, hist
<1>0. fpc \in [Forwarders -> FwdPcs]
  BY DEF TypeInv, TypeOK, ForwarderTypeOK
<1>1. ASSUME NEW c \in Clients, ReceiveThread(c) PROVE FlagHasForwarder'
  <2>1. CASE SpawnForwarder(c)
    BY <1>0, <2>1 DEF SpawnForwarder, GoFwd
  <2>2. CASE ForwardFailed(c)
    BY <2>2 DEF ForwardFailed
  <2>3. CASE fpc' = fpc /\ is_recv_running' = is_recv_running
    BY <2>3
  <2> QED
    BY <1>1, <2>1, <2>2, <2>3 DEF ReceiveThread, RecvPacket, RecvTimeout,
       RecvEnd, RecvClose, ModeEnter, ModeLeave, SendOk, SendSigpipe, Sigpipe,
       SendNoSocket, SendFails, SetupCheck, SetupSocket, SetupConnect,
       ConnectFailed
<1>2. ASSUME NEW f \in Forwarders, ForwardThread(f) PROVE FlagHasForwarder'
  <2>1. CASE FwdStart(f)
    BY <1>0, <2>1 DEF FwdStart, GoFwd
  <2>2. CASE FwdLast(f)
    BY <2>2 DEF FwdLast
  <2>3. CASE FwdSigpipe(f)
    BY <2>3 DEF FwdSigpipe, Sigpipe
  <2>4. ASSUME NEW l \in {"test", "call", "wait", "tx", "hangup", "last"},
               GoFwd(f, l), UNCHANGED is_recv_running
        PROVE  FlagHasForwarder'
    BY <1>0, <2>4 DEF GoFwd
  <2> QED
    BY <1>2, <2>1, <2>2, <2>3, <2>4 DEF ForwardThread, FwdTest, FwdCall,
       FwdData, FwdNothing, FwdError, FwdHangup, FwdSendOk, FwdSendFails
<1>3. CASE Exit
  BY <1>3 DEF Exit
<1>4. CASE Quit \/ ProcessEnds \/ Outside \/ UNCHANGED vars
  BY <1>4 DEF Quit, ProcessEnds, Outside, Accept, ClientLeaves, AiqAnswers,
     AiqExits, AiqStarts, vars
<1> QED
  BY <1>1, <1>2, <1>3, <1>4 DEF Next, MainThread

\* However many receive threads race on is_recv_running, and whatever fails,
\* the flag never stays set when no forwarder is left to answer and to clear it.
THEOREM FlagCorrect == Spec => []FlagHasForwarder
  BY InitTypeInv, NextTypeInv, InitFlag, NextFlag, PTL DEF Spec
-----------------------------------------------------------------------------
(* Where a packet can be between the PC, the tool and the AIQ: with a      *)
(* receive thread that has yet to send it, with a forwarder that has yet   *)
(* to send it, or at some position of a connection's two streams.          *)

Positions == Nat \ {0}
Places == ({"cli"} \X Clients \X {0}) \cup ({"fwd"} \X Forwarders \X {0})
            \cup ({"in", "out"} \X Conns \X Positions)

Carrying(c) == cpc[c] \in {"mode", "linking", "send"}

\* What each place holds, NoMsg when it is empty.
Held ==
  [s \in Places |->
     IF s[1] = "cli" THEN IF Carrying(s[2]) THEN cmsg[s[2]] ELSE NoMsg
     ELSE IF s[1] = "fwd" THEN IF fpc[s[2]] = "tx" THEN fbuf[s[2]] ELSE NoMsg
     ELSE IF s[1] = "in"
       THEN IF s[3] \in DOMAIN inbox[s[2]] THEN inbox[s[2]][s[3]] ELSE NoMsg
     ELSE IF s[3] \in DOMAIN outbox[s[2]] THEN outbox[s[2]][s[3]] ELSE NoMsg]

PacketOf(m) == <<m[1], m[2]>>
AnswerTo(p) == <<p[1], p[2], "answer">>
Delivered(m) == \E i \in DOMAIN delivered : delivered[i] = m

\* A packet is in one place at a time, as a request or as its answer.
OnePlace ==
  \A s, t \in Places :
    /\ Held[s] # NoMsg /\ Held[t] # NoMsg
    /\ PacketOf(Held[s]) = PacketOf(Held[t])
    => s = t

\* The AIQ writes answers only.
OutAnswers == \A k \in Conns : \A i \in DOMAIN outbox[k] : outbox[k][i] \in Answers

\* What a receive thread is about to send has not been sent before.
NotYetSent == \A c \in Clients : Carrying(c) => ~ Delivered(cmsg[c])

\* A packet on its way has no answer that was sent to the AIQ, unless it is
\* that answer, waiting for the AIQ to drop it.
AnswerNotSent ==
  \A s \in Places :
    Held[s] # NoMsg /\ ~ (s[1] = "in" /\ Held[s] \in Answers)
      => ~ Delivered(AnswerTo(PacketOf(Held[s])))

\* Nothing is anywhere before its client has sent it.
NothingEarly ==
  \A c \in Clients, n \in Nat : n > sent[c] =>
    /\ \A s \in Places : Held[s] # NoMsg => PacketOf(Held[s]) # <<c, n>>
    /\ \A i \in DOMAIN delivered : PacketOf(delivered[i]) # <<c, n>>

TokenInv ==
  OnePlace /\ OutAnswers /\ NotYetSent /\ AnswerNotSent /\ NothingEarly /\ NoDuplicate

\* A packet is a request or the answer to its own packet.
LEMMA MsgFacts ==
  ASSUME NEW m \in Msgs
  PROVE  /\ m # NoMsg
         /\ m \in Answers => m = AnswerTo(PacketOf(m))
         /\ m \in Requests => m # AnswerTo(PacketOf(m)) /\ m \notin Answers
         /\ \E c \in Clients, n \in Nat : PacketOf(m) = <<c, n>>
<1>1. \A c \in Clients : 1 .. MaxMsgs[c] \subseteq Nat
  BY BoundsAssumption
<1>2. CASE m \in Requests
  <2>1. PICK p \in Packets : m = <<p[1], p[2], "request">>
    BY <1>2 DEF Requests
  <2>2. PICK c \in Clients : p \in {c} \X (1 .. MaxMsgs[c])
    BY <2>1 DEF Packets
  <2> QED
    BY <1>1, <2>1, <2>2 DEF Answers, PacketOf, AnswerTo, NoMsg
<1>3. CASE m \in Answers
  <2>1. PICK p \in Packets : m = <<p[1], p[2], "answer">>
    BY <1>3 DEF Answers
  <2>2. PICK c \in Clients : p \in {c} \X (1 .. MaxMsgs[c])
    BY <2>1 DEF Packets
  <2> QED
    BY <1>1, <2>1, <2>2 DEF Requests, PacketOf, AnswerTo, NoMsg
<1> QED
  BY <1>2, <1>3 DEF Msgs

\* What the AIQ answers is about the packet it was sent.
LEMMA AnswerFacts ==
  ASSUME NEW m \in Requests
  PROVE  LET a == <<m[1], m[2], "answer">> IN
         a \in Answers /\ PacketOf(a) = PacketOf(m) /\ a = AnswerTo(PacketOf(m))
<1>1. PICK p \in Packets : m = <<p[1], p[2], "request">>
  BY DEF Requests
<1> QED
  BY <1>1 DEF Answers, PacketOf, AnswerTo

\* What each kind of place holds.
HeldTable ==
  /\ \A c \in Clients :
       /\ <<"cli", c, 0>> \in Places
       /\ Held[<<"cli", c, 0>>] = IF Carrying(c) THEN cmsg[c] ELSE NoMsg
  /\ \A f \in Forwarders :
       /\ <<"fwd", f, 0>> \in Places
       /\ Held[<<"fwd", f, 0>>] = IF fpc[f] = "tx" THEN fbuf[f] ELSE NoMsg
  /\ \A k \in Conns, i \in Positions :
       /\ <<"in", k, i>> \in Places /\ <<"out", k, i>> \in Places
       /\ Held[<<"in", k, i>>] = IF i \in DOMAIN inbox[k] THEN inbox[k][i] ELSE NoMsg
       /\ Held[<<"out", k, i>>] = IF i \in DOMAIN outbox[k] THEN outbox[k][i] ELSE NoMsg

\* The table is what Held says, now and after a step.
LEMMA HeldAt == HeldTable /\ HeldTable'
<1>1. HeldTable
  BY DEF HeldTable, Held, Places
<1>2. HeldTable'
  BY DEF HeldTable, Held, Places
<1> QED
  BY <1>1, <1>2

\* The same for one position of a connection's streams.
LEMMA StreamAt ==
  ASSUME NEW k \in Conns, NEW i \in Positions
  PROVE  /\ <<"in", k, i>> \in Places /\ <<"out", k, i>> \in Places
         /\ Held[<<"in", k, i>>] = IF i \in DOMAIN inbox[k] THEN inbox[k][i] ELSE NoMsg
         /\ Held[<<"out", k, i>>] = IF i \in DOMAIN outbox[k] THEN outbox[k][i] ELSE NoMsg
         /\ Held'[<<"in", k, i>>] = IF i \in DOMAIN inbox'[k] THEN inbox'[k][i] ELSE NoMsg
         /\ Held'[<<"out", k, i>>] = IF i \in DOMAIN outbox'[k] THEN outbox'[k][i] ELSE NoMsg
BY HeldAt DEF HeldTable

\* Every place is of one of the four kinds.
LEMMA PlaceKinds ==
  ASSUME NEW s \in Places
  PROVE  \/ \E c \in Clients : s = <<"cli", c, 0>>
         \/ \E f \in Forwarders : s = <<"fwd", f, 0>>
         \/ \E k \in Conns, i \in Positions : s = <<"in", k, i>> \/ s = <<"out", k, i>>
BY DEF Places

\* A place holds a packet or nothing.
LEMMA HeldType == TypeInv => \A s \in Places : Held[s] \in Msgs \cup {NoMsg}
<1> SUFFICES ASSUME TypeInv, NEW s \in Places PROVE Held[s] \in Msgs \cup {NoMsg}
  OBVIOUS
<1>1. inbox \in [Conns -> Seq(Msgs)] /\ outbox \in [Conns -> Seq(Msgs)]
  BY DEF TypeInv, TypeOK, NetTypeOK
<1>2. ASSUME NEW q \in Seq(Msgs), NEW i \in DOMAIN q PROVE q[i] \in Msgs
  OBVIOUS
<1>3. Carries
  BY DEF TypeInv
<1>4. CASE \E c \in Clients : s = <<"cli", c, 0>>
  BY <1>3, <1>4, HeldAt DEF HeldTable, Carries, Carrying
<1>5. CASE \E f \in Forwarders : s = <<"fwd", f, 0>>
  BY <1>3, <1>5, HeldAt DEF HeldTable, Carries
<1>6. CASE \E k \in Conns, i \in Positions : s = <<"in", k, i>> \/ s = <<"out", k, i>>
  <2>1. PICK k \in Conns, i \in Positions : s = <<"in", k, i>> \/ s = <<"out", k, i>>
    BY <1>6
  <2>2. inbox[k] \in Seq(Msgs) /\ outbox[k] \in Seq(Msgs)
    BY <1>1
  <2>3. /\ i \in DOMAIN inbox[k] => inbox[k][i] \in Msgs
        /\ i \in DOMAIN outbox[k] => outbox[k][i] \in Msgs
    BY <1>2, <2>2
  <2>4. /\ Held[<<"in", k, i>>] = IF i \in DOMAIN inbox[k] THEN inbox[k][i] ELSE NoMsg
        /\ Held[<<"out", k, i>>] = IF i \in DOMAIN outbox[k] THEN outbox[k][i] ELSE NoMsg
    BY HeldAt DEF HeldTable
  <2> QED
    BY <2>1, <2>3, <2>4
<1> QED
  BY <1>4, <1>5, <1>6, PlaceKinds

\* Packets that only move or disappear stay in one place each.
LEMMA MovedPlaces ==
  ASSUME NEW H, NEW G, NEW src \in [Places -> Places],
         \A s, t \in Places :
           /\ H[s] # NoMsg /\ H[t] # NoMsg
           /\ PacketOf(H[s]) = PacketOf(H[t])
           => s = t,
         \A s \in Places : G[s] # NoMsg =>
           H[src[s]] # NoMsg /\ PacketOf(G[s]) = PacketOf(H[src[s]]),
         \A s, t \in Places : G[s] # NoMsg /\ G[t] # NoMsg /\ src[s] = src[t] => s = t
  PROVE  \A s, t \in Places :
           /\ G[s] # NoMsg /\ G[t] # NoMsg
           /\ PacketOf(G[s]) = PacketOf(G[t])
           => s = t
OBVIOUS

\* A step puts at each place nothing, or what was at src of the place, its
\* answer included; an answer in a stream to the AIQ stays in one.
Moves(src) ==
  /\ src \in [Places -> Places]
  /\ \A s \in Places : Held'[s] # NoMsg =>
       /\ Held[src[s]] # NoMsg
       /\ PacketOf(Held'[s]) = PacketOf(Held[src[s]])
       /\ Held[src[s]] \in Answers /\ src[s][1] = "in"
            => s[1] = "in" /\ Held'[s] \in Answers
  /\ \A s, t \in Places :
       Held'[s] # NoMsg /\ Held'[t] # NoMsg /\ src[s] = src[t] => s = t

\* A step that sends nothing to the AIQ, takes nothing new from a PC, and
\* moves or drops packets.
LEMMA MoveStep ==
  ASSUME TypeInv, TypeInv', TokenInv, OutAnswers', UNCHANGED <<sent, delivered>>,
         NEW src, Moves(src),
         \A c \in Clients : Carrying(c)' => ~ Delivered(cmsg'[c])
  PROVE  TokenInv'
<1>1. OnePlace'
  BY MovedPlaces DEF TokenInv, OnePlace, Moves
<1>2. NotYetSent'
  BY DEF NotYetSent, Delivered
<1>3. AnswerNotSent'
  BY DEF TokenInv, AnswerNotSent, Delivered, Moves
<1>4. NothingEarly'
  BY DEF TokenInv, NothingEarly, Moves
<1>5. NoDuplicate'
  BY DEF TokenInv, NoDuplicate
<1> QED
  BY <1>1, <1>2, <1>3, <1>4, <1>5 DEF TokenInv

\* The packets stay where they are, or some are lost.
PacketsStay ==
  /\ UNCHANGED <<outbox, sent, delivered>>
  /\ \A k \in Conns : inbox'[k] \in {inbox[k], <<>>}
  /\ \A c \in Clients : Carrying(c)' => Carrying(c) /\ cmsg'[c] = cmsg[c]
  /\ \A f \in Forwarders : fpc'[f] = "tx" => fpc[f] = "tx" /\ fbuf'[f] = fbuf[f]

\* Such a step keeps the invariant.
LEMMA IdleStep ==
  ASSUME TypeInv, TypeInv', TokenInv, PacketsStay
  PROVE  TokenInv'
<1> USE DEF PacketsStay
<1> DEFINE src == [s \in Places |-> s]
<1>1. ASSUME NEW s \in Places PROVE Held'[s] = Held[s] \/ Held'[s] = NoMsg
  <2>0. DOMAIN <<>> = {}
    OBVIOUS
  <2>1. CASE \E c \in Clients : s = <<"cli", c, 0>>
    BY <2>1, HeldAt DEF HeldTable
  <2>2. CASE \E f \in Forwarders : s = <<"fwd", f, 0>>
    BY <2>2, HeldAt DEF HeldTable
  <2>3. CASE \E k \in Conns, i \in Positions : s = <<"in", k, i>> \/ s = <<"out", k, i>>
    <3>1. PICK k \in Conns, i \in Positions : s = <<"in", k, i>> \/ s = <<"out", k, i>>
      BY <2>3
    <3>2. i \notin DOMAIN <<>>
      BY <2>0
    <3>3. CASE s = <<"in", k, i>>
      <4>1. /\ Held[s] = IF i \in DOMAIN inbox[k] THEN inbox[k][i] ELSE NoMsg
            /\ Held'[s] = IF i \in DOMAIN inbox'[k] THEN inbox'[k][i] ELSE NoMsg
        BY <3>3, HeldAt DEF HeldTable
      <4> QED
        BY <3>2, <4>1
    <3>4. CASE s = <<"out", k, i>>
      <4>1. /\ Held[s] = IF i \in DOMAIN outbox[k] THEN outbox[k][i] ELSE NoMsg
            /\ Held'[s] = IF i \in DOMAIN outbox'[k] THEN outbox'[k][i] ELSE NoMsg
        BY <3>4, HeldAt DEF HeldTable
      <4> QED
        BY <4>1
    <3> QED
      BY <3>1, <3>3, <3>4
  <2> QED
    BY <2>1, <2>2, <2>3, PlaceKinds
<1>2. Moves(src)
  BY <1>1 DEF Moves
<1>3. OutAnswers'
  BY DEF TokenInv, OutAnswers
<1>4. \A c \in Clients : Carrying(c)' => ~ Delivered(cmsg'[c])
  BY DEF TokenInv, NotYetSent
<1> HIDE DEF src
<1> QED
  BY <1>1, <1>2, <1>3, <1>4, MoveStep

\* The head of a stream is its first position, the rest moves up by one.
LEMMA QueueTail ==
  ASSUME NEW q \in Seq(Msgs), q # <<>>
  PROVE  /\ 1 \in DOMAIN q /\ Head(q) = q[1] /\ 1 \in Positions
         /\ \A i \in DOMAIN Tail(q) : i \in Positions /\ i + 1 \in DOMAIN q
                                      /\ i + 1 \in Positions /\ Tail(q)[i] = q[i + 1]
<1>1. Len(q) \in Nat /\ Len(q) > 0 /\ DOMAIN q = 1 .. Len(q)
  OBVIOUS
<1>2. DOMAIN Tail(q) = 1 .. Len(q) - 1
  OBVIOUS
<1> QED
  BY <1>1, <1>2 DEF Positions

\* What is written to a stream goes behind the positions it has.
LEMMA QueueAppend ==
  ASSUME NEW q \in Seq(Msgs), NEW m
  PROVE  /\ Len(q) + 1 \in Positions /\ Len(q) + 1 \notin DOMAIN q
         /\ \A i \in DOMAIN Append(q, m) :
              /\ i = Len(q) + 1 => Append(q, m)[i] = m
              /\ i # Len(q) + 1 => i \in DOMAIN q /\ Append(q, m)[i] = q[i]
<1>1. Len(q) \in Nat /\ DOMAIN q = 1 .. Len(q)
  OBVIOUS
<1>2. DOMAIN Append(q, m) = 1 .. Len(q) + 1
  OBVIOUS
<1>3. Append(q, m)[Len(q) + 1] = m /\ \A i \in 1 .. Len(q) : Append(q, m)[i] = q[i]
  OBVIOUS
<1> QED
  BY <1>1, <1>2, <1>3 DEF Positions

\* A thread's place, and no other, changes to a packet that a PC just sent.
LEMMA TakeNew ==
  ASSUME TypeInv, TypeInv', TokenInv, NEW d \in Clients, NEW dst \in Places,
         dst[1] # "in",
         Held' = [Held EXCEPT ![dst] = <<d, sent[d] + 1, "request">>],
         <<d, sent[d] + 1, "request">> \in Msgs,
         sent' = [sent EXCEPT ![d] = @ + 1], UNCHANGED <<outbox, delivered>>,
         \A c \in Clients : Carrying(c)' =>
           \/ Carrying(c) /\ cmsg'[c] = cmsg[c]
           \/ cmsg'[c] = <<d, sent[d] + 1, "request">>
  PROVE  TokenInv'
<1> DEFINE m == <<d, sent[d] + 1, "request">>
<1>0. sent[d] \in Nat /\ sent[d] + 1 \in Nat /\ sent[d] + 1 > sent[d]
      /\ sent'[d] = sent[d] + 1 /\ \A c \in Clients : sent'[c] \in Nat /\ sent[c] \in Nat
  BY DEF TypeInv, TypeOK, ClientTypeOK
<1>1. PacketOf(m) = <<d, sent[d] + 1>> /\ m # NoMsg /\ m \notin Answers
  BY DEF PacketOf, NoMsg, Answers
<1>2. /\ \A s \in Places : Held[s] # NoMsg => PacketOf(Held[s]) # PacketOf(m)
      /\ \A i \in DOMAIN delivered : PacketOf(delivered[i]) # PacketOf(m)
  BY <1>0, <1>1 DEF TokenInv, NothingEarly
<1>3. Held'[dst] = m /\ \A s \in Places \ {dst} : Held'[s] = Held[s]
  BY DEF Held
<1> HIDE DEF m
<1>4. OnePlace'
  BY <1>1, <1>2, <1>3 DEF TokenInv, OnePlace
<1>5. OutAnswers'
  BY DEF TokenInv, OutAnswers
<1>6. NotYetSent'
  BY <1>2 DEF TokenInv, NotYetSent, Delivered, m
<1>7. AnswerNotSent'
  <2> SUFFICES ASSUME NEW s \in Places, Held'[s] # NoMsg,
                      ~ (s[1] = "in" /\ Held'[s] \in Answers)
               PROVE  ~ Delivered(AnswerTo(PacketOf(Held'[s])))
    BY DEF AnswerNotSent, Delivered
  <2>1. CASE s = dst
    <3>1. PacketOf(AnswerTo(PacketOf(m))) = PacketOf(m)
      BY <1>1 DEF PacketOf, AnswerTo
    <3> QED
      BY <1>2, <1>3, <2>1, <3>1 DEF Delivered
  <2>2. CASE s # dst
    BY <1>3, <2>2 DEF TokenInv, AnswerNotSent
  <2> QED
    BY <2>1, <2>2
<1>8. NothingEarly'
  <2> SUFFICES ASSUME NEW c \in Clients, NEW n \in Nat, n > sent'[c]
               PROVE  /\ \A s \in Places : Held'[s] # NoMsg => PacketOf(Held'[s]) # <<c, n>>
                      /\ \A i \in DOMAIN delivered : PacketOf(delivered[i]) # <<c, n>>
    BY DEF NothingEarly
  <2>1. n > sent[c] /\ <<c, n>> # <<d, sent[d] + 1>>
    BY <1>0
  <2>2. /\ \A s \in Places : Held[s] # NoMsg => PacketOf(Held[s]) # <<c, n>>
        /\ \A i \in DOMAIN delivered : PacketOf(delivered[i]) # <<c, n>>
    BY <2>1 DEF TokenInv, NothingEarly
  <2> QED
    BY <1>1, <1>3, <2>1, <2>2
<1>9. NoDuplicate'
  BY DEF TokenInv, NoDuplicate
<1> QED
  BY <1>4, <1>5, <1>6, <1>7, <1>8, <1>9 DEF TokenInv

\* A thread takes the head of what the AIQ wrote on k.
LEMMA TakeAnswer ==
  ASSUME TypeInv, TypeInv', TokenInv, NEW k \in Conns, NEW dst \in Places,
         dst[1] \in {"cli", "fwd"}, outbox[k] # <<>>,
         Held[dst] = NoMsg, Held'[dst] = Head(outbox[k]),
         outbox' = [outbox EXCEPT ![k] = Tail(@)],
         UNCHANGED <<inbox, sent, delivered>>,
         \A s \in Places : s[1] \in {"cli", "fwd"} /\ s # dst => Held'[s] = Held[s],
         \A c \in Clients : Carrying(c)' =>
           \/ Carrying(c) /\ cmsg'[c] = cmsg[c]
           \/ cmsg'[c] = Head(outbox[k])
  PROVE  TokenInv'
<1> DEFINE q == outbox[k]
           up(s) == <<"out", k, s[3] + 1>>
           src == [s \in Places |->
                     IF s = dst THEN <<"out", k, 1>>
                     ELSE IF s[1] = "out" /\ s[2] = k THEN up(s) ELSE s]
<1>1. outbox \in [Conns -> Seq(Msgs)] /\ q \in Seq(Msgs) /\ q # <<>>
  BY DEF TypeInv, TypeOK, NetTypeOK
<1>2. /\ 1 \in DOMAIN q /\ Head(q) = q[1] /\ 1 \in Positions
      /\ \A i \in DOMAIN Tail(q) : i \in Positions /\ i + 1 \in DOMAIN q
                                   /\ i + 1 \in Positions /\ Tail(q)[i] = q[i + 1]
  <2> HIDE DEF q
  <2> QED
    BY <1>1, QueueTail
<1>3. outbox'[k] = Tail(q) /\ \A j \in Conns : j # k => outbox'[j] = outbox[j]
  BY <1>1
<1>4. OutAnswers'
  BY <1>2, <1>3 DEF TokenInv, OutAnswers
<1>5. ASSUME NEW s \in Places
      PROVE  \/ s = dst
             \/ s # dst /\ s[1] # "out" /\ Held'[s] = Held[s]
             \/ \E j \in Conns, i \in Positions :
                  s # dst /\ j # k /\ s = <<"out", j, i>> /\ Held'[s] = Held[s]
             \/ \E i \in Positions : s # dst /\ s = <<"out", k, i>>
  <2>1. CASE s[1] \in {"cli", "fwd"}
    BY <2>1
  <2>2. ASSUME NEW j \in Conns, NEW i \in Positions, s = <<"in", j, i>>
        PROVE  s # dst /\ s[1] # "out" /\ Held'[s] = Held[s]
    <3>1. Held'[<<"in", j, i>>] = Held[<<"in", j, i>>]
      <4>1. Held[<<"in", j, i>>] = IF i \in DOMAIN inbox[j] THEN inbox[j][i] ELSE NoMsg
        BY StreamAt
      <4>2. Held'[<<"in", j, i>>] = IF i \in DOMAIN inbox'[j] THEN inbox'[j][i] ELSE NoMsg
        BY StreamAt
      <4>3. inbox' = inbox
        OBVIOUS
      <4> QED
        BY <4>1, <4>2, <4>3
    <3>2. s[1] = "in"
      BY <2>2
    <3> QED
      BY <2>2, <3>1, <3>2
  <2>3. ASSUME NEW j \in Conns, NEW i \in Positions, s = <<"out", j, i>>, j # k
        PROVE  s # dst /\ Held'[s] = Held[s]
    <3>1. Held'[<<"out", j, i>>] = Held[<<"out", j, i>>]
      <4>1. Held[<<"out", j, i>>] = IF i \in DOMAIN outbox[j] THEN outbox[j][i] ELSE NoMsg
        BY StreamAt
      <4>2. Held'[<<"out", j, i>>] = IF i \in DOMAIN outbox'[j] THEN outbox'[j][i] ELSE NoMsg
        BY StreamAt
      <4>3. outbox'[j] = outbox[j]
        BY <1>3, <2>3
      <4> QED
        BY <4>1, <4>2, <4>3
    <3>2. s[1] = "out"
      BY <2>3
    <3> QED
      BY <2>3, <3>1, <3>2
  <2>4. ASSUME NEW i \in Positions, s = <<"out", k, i>>
        PROVE  s # dst
    BY <2>4
  <2> QED
    BY <2>1, <2>2, <2>3, <2>4, PlaceKinds
<1>6. ASSUME NEW i \in Positions, Held'[<<"out", k, i>>] # NoMsg
      PROVE  /\ i + 1 \in Positions /\ <<"out", k, i>> \in Places
             /\ <<"out", k, i + 1>> \in Places
             /\ Held'[<<"out", k, i>>] = Held[<<"out", k, i + 1>>]
  <2>1. Held'[<<"out", k, i>>] = IF i \in DOMAIN outbox'[k] THEN outbox'[k][i] ELSE NoMsg
    BY StreamAt
  <2>2. i \in DOMAIN Tail(q) /\ Held'[<<"out", k, i>>] = q[i + 1]
    BY <1>2, <1>3, <1>6, <2>1
  <2>3. i + 1 \in Positions /\ i + 1 \in DOMAIN outbox[k]
    BY <1>2, <2>2
  <2>4. Held[<<"out", k, i + 1>>] = q[i + 1]
    BY <2>3, StreamAt
  <2> QED
    BY <2>2, <2>3, <2>4, StreamAt
<1>7. /\ <<"out", k, 1>> \in Places
      /\ Held[<<"out", k, 1>>] = Head(q) /\ Held[<<"out", k, 1>>] # NoMsg
  <2>1. q[1] \in Msgs
    BY <1>1, <1>2
  <2>2. q[1] # NoMsg
    BY <2>1, MsgFacts
  <2> QED
    BY <1>2, <2>2, StreamAt
<1>8. src \in [Places -> Places]
  <2>1. ASSUME NEW s \in Places, s[1] = "out", s[2] = k PROVE up(s) \in Places
    BY <2>1 DEF Places, Positions
  <2> QED
    BY <1>7, <2>1
<1> HIDE DEF q
<1>9. ASSUME NEW s \in Places, Held'[s] # NoMsg
      PROVE  /\ Held[src[s]] = Held'[s]
             /\ src[s][1] = "in" => s[1] = "in"
  <2>1. CASE s = dst
    BY <1>7, <2>1 DEF q
  <2>2. CASE s # dst /\ s[1] # "out" /\ Held'[s] = Held[s]
    BY <2>2
  <2>3. CASE \E j \in Conns, i \in Positions :
               s # dst /\ j # k /\ s = <<"out", j, i>> /\ Held'[s] = Held[s]
    BY <2>3
  <2>4. CASE \E i \in Positions : s # dst /\ s = <<"out", k, i>>
    BY <1>6, <1>9, <2>4
  <2> QED
    BY <1>5, <2>1, <2>2, <2>3, <2>4
<1>10. ASSUME NEW s \in Places, NEW t \in Places, src[s] = src[t],
              Held'[s] # NoMsg, Held'[t] # NoMsg
       PROVE  s = t
  <2>1. ASSUME NEW r \in Places
        PROVE  \/ r = dst /\ src[r] = <<"out", k, 1>>
               \/ r # dst /\ r[1] # "out" /\ src[r] = r
               \/ \E j \in Conns, i \in Positions :
                    r # dst /\ j # k /\ r = <<"out", j, i>> /\ src[r] = r
               \/ \E i \in Positions :
                    r # dst /\ r = <<"out", k, i>> /\ src[r] = <<"out", k, i + 1>>
    BY <1>5
  <2>2. \A i, j \in Positions : i + 1 # 1 /\ (i + 1 = j + 1 => i = j)
    BY DEF Positions
  <2> HIDE DEF src
  <2> QED
    BY <1>10, <2>1, <2>2
<1>11. Moves(src)
  BY <1>8, <1>9, <1>10 DEF Moves
<1>12. \A c \in Clients : Carrying(c)' => ~ Delivered(cmsg'[c])
  <2>1. ~ Delivered(Head(q))
    <3>1. q[1] \in Answers
      BY <1>2 DEF TokenInv, OutAnswers, q
    <3>2. Head(q) = AnswerTo(PacketOf(Head(q)))
      BY <1>2, <3>1, MsgFacts DEF Msgs
    <3>3. <<"out", k, 1>>[1] # "in"
      OBVIOUS
    <3> QED
      BY <1>7, <3>2, <3>3 DEF TokenInv, AnswerNotSent
  <2> QED
    BY <2>1 DEF TokenInv, NotYetSent, q
<1> HIDE DEF src
<1> QED
  BY <1>4, <1>11, <1>12, MoveStep

\* A thread writes the packet it carries to connection k.
LEMMA WriteMoves ==
  ASSUME TypeInv, NEW k \in Conns, NEW from \in Places, from[1] \in {"cli", "fwd"},
         Held[from] # NoMsg, Held'[from] = NoMsg,
         inbox' = [inbox EXCEPT ![k] = Append(@, Held[from])], UNCHANGED outbox,
         \A s \in Places : s[1] \in {"cli", "fwd"} /\ s # from => Held'[s] = Held[s]
  PROVE  \E src : /\ Moves(src)
                  /\ \A s \in Places : Held'[s] # NoMsg =>
                       IF src[s] = from
                         THEN s[1] = "in" /\ Held'[s] = Held[from]
                         ELSE src[s] = s /\ Held'[s] = Held[s]
<1> DEFINE q == inbox[k]
           n == Len(q) + 1
           new == <<"in", k, n>>
           src == [s \in Places |-> IF s = new THEN from ELSE s]
<1>1. inbox \in [Conns -> Seq(Msgs)] /\ q \in Seq(Msgs)
  BY DEF TypeInv, TypeOK, NetTypeOK
<1>2. /\ n \in Positions /\ n \notin DOMAIN q
      /\ \A i \in DOMAIN Append(q, Held[from]) :
           /\ i = n => Append(q, Held[from])[i] = Held[from]
           /\ i # n => i \in DOMAIN q /\ Append(q, Held[from])[i] = q[i]
  <2> HIDE DEF q
  <2> QED
    BY <1>1, QueueAppend
<1>3. /\ inbox'[k] = Append(q, Held[from])
      /\ \A j \in Conns : j # k => inbox'[j] = inbox[j]
  BY <1>1
<1> HIDE DEF n
<1>4. new \in Places /\ Held[new] = NoMsg /\ new # from
  <2>1. new[1] = "in"
    OBVIOUS
  <2> QED
    BY <1>2, <2>1, StreamAt
<1>5. ASSUME NEW s \in Places, Held'[s] # NoMsg
      PROVE  \/ s = new /\ Held'[s] = Held[from]
             \/ s # new /\ s # from /\ Held'[s] = Held[s]
  <2>1. CASE s[1] \in {"cli", "fwd"}
    BY <1>5, <2>1
  <2>2. ASSUME NEW j \in Conns, NEW i \in Positions, s = <<"in", j, i>>
        PROVE  \/ s = new /\ Held'[s] = Held[from]
               \/ s # new /\ s # from /\ Held'[s] = Held[s]
    <3>0. s[1] = "in"
      BY <2>2
    <3>1. Held[<<"in", j, i>>] = IF i \in DOMAIN inbox[j] THEN inbox[j][i] ELSE NoMsg
      BY StreamAt
    <3>2. Held'[<<"in", j, i>>] = IF i \in DOMAIN inbox'[j] THEN inbox'[j][i] ELSE NoMsg
      BY StreamAt
    <3>3. CASE j # k
      <4>1. inbox'[j] = inbox[j]
        BY <1>3, <3>3
      <4>2. Held'[s] = Held[s] /\ s # new
        BY <2>2, <3>1, <3>2, <3>3, <4>1
      <4> QED
        BY <3>0, <4>2
    <3>4. CASE j = k /\ i = n
      BY <1>2, <1>3, <1>5, <2>2, <3>2, <3>4
    <3>5. CASE j = k /\ i # n
      <4>1. Held'[s] = Held[s]
        BY <1>2, <1>3, <1>5, <2>2, <3>1, <3>2, <3>5
      <4>2. s # new
        BY <2>2, <3>5
      <4> QED
        BY <3>0, <4>1, <4>2
    <3> QED
      BY <3>3, <3>4, <3>5
  <2>3. ASSUME NEW j \in Conns, NEW i \in Positions, s = <<"out", j, i>>
        PROVE  s # new /\ s # from /\ Held'[s] = Held[s]
    <3>1. Held[<<"out", j, i>>] = IF i \in DOMAIN outbox[j] THEN outbox[j][i] ELSE NoMsg
      BY StreamAt
    <3>2. Held'[<<"out", j, i>>] = IF i \in DOMAIN outbox'[j] THEN outbox'[j][i] ELSE NoMsg
      BY StreamAt
    <3>3. s[1] = "out"
      BY <2>3
    <3>4. Held'[s] = Held[s]
      BY <2>3, <3>1, <3>2
    <3> QED
      BY <3>3, <3>4
  <2> QED
    BY <2>1, <2>2, <2>3, PlaceKinds
<1>6. src \in [Places -> Places]
  BY <1>4
<1>7. \A s \in Places : src[s] = IF s = new THEN from ELSE s
  OBVIOUS
<1>8. new[1] = "in"
  OBVIOUS
<1> HIDE DEF src, new
<1>9. Moves(src)
  <2>1. ASSUME NEW s \in Places, Held'[s] # NoMsg
        PROVE  /\ Held[src[s]] # NoMsg
               /\ PacketOf(Held'[s]) = PacketOf(Held[src[s]])
               /\ Held[src[s]] \in Answers /\ src[s][1] = "in"
                    => s[1] = "in" /\ Held'[s] \in Answers
    BY <1>5, <1>7, <2>1
  <2>2. ASSUME NEW s \in Places, NEW t \in Places, src[s] = src[t],
               Held'[s] # NoMsg, Held'[t] # NoMsg
        PROVE  s = t
    BY <1>5, <1>7, <2>2
  <2> QED
    BY <1>6, <2>1, <2>2 DEF Moves
<1>10. ASSUME NEW s \in Places, Held'[s] # NoMsg
       PROVE  IF src[s] = from
                THEN s[1] = "in" /\ Held'[s] = Held[from]
                ELSE src[s] = s /\ Held'[s] = Held[s]
  BY <1>5, <1>7, <1>8, <1>10
<1> QED
  BY <1>9, <1>10

\* The AIQ reads a packet of k: it answers a request and drops an answer.
LEMMA AnswerStep ==
  ASSUME TypeInv, TypeInv', TokenInv, NEW k \in Conns, AiqAnswers(k)
  PROVE  TokenInv'
<1> USE DEF net, cli, fwd, rem, hist
<1> DEFINE q == inbox[k]
           o == outbox[k]
           n == Len(o) + 1
           m == Head(q)
           a == <<m[1], m[2], "answer">>
           src == [s \in Places |->
                     IF s = <<"out", k, n>> THEN <<"in", k, 1>>
                     ELSE IF s[1] = "in" /\ s[2] = k THEN <<"in", k, s[3] + 1>>
                     ELSE s]
<1>1. /\ inbox \in [Conns -> Seq(Msgs)] /\ q \in Seq(Msgs) /\ q # <<>>
      /\ outbox \in [Conns -> Seq(Msgs)] /\ o \in Seq(Msgs)
  BY DEF TypeInv, TypeOK, NetTypeOK, AiqAnswers
<1>2. /\ 1 \in DOMAIN q /\ m = q[1] /\ 1 \in Positions
      /\ \A i \in DOMAIN Tail(q) : i \in Positions /\ i + 1 \in DOMAIN q
                                   /\ i + 1 \in Positions /\ Tail(q)[i] = q[i + 1]
  <2> HIDE DEF q
  <2> QED
    BY <1>1, QueueTail
<1>3. /\ n \in Positions /\ n \notin DOMAIN o
      /\ \A i \in DOMAIN Append(o, a) :
           /\ i = n => Append(o, a)[i] = a
           /\ i # n => i \in DOMAIN o /\ Append(o, a)[i] = o[i]
  <2>1. o \in Seq(Msgs)
    BY <1>1
  <2> HIDE DEF o, a, q, m, src
  <2> QED
    BY <2>1, QueueAppend
<1>4. /\ inbox'[k] = Tail(q) /\ \A j \in Conns : j # k => inbox'[j] = inbox[j]
      /\ \A j \in Conns : j # k => outbox'[j] = outbox[j]
      /\ m \in Requests => outbox'[k] = Append(o, a)
      /\ m \notin Requests => outbox'[k] = o
      /\ UNCHANGED <<sent, delivered, cpc, cmsg, fpc, fbuf>>
  BY <1>1 DEF AiqAnswers
<1> HIDE DEF n
<1>5. m \in Msgs /\ m # NoMsg
  <2>1. q[1] \in Msgs
    BY <1>1, <1>2
  <2> QED
    BY <1>2, <2>1, MsgFacts
<1>6. m \in Requests => a \in Answers /\ PacketOf(a) = PacketOf(m)
  BY AnswerFacts
<1> HIDE DEF a
<1>7. /\ <<"in", k, 1>> \in Places /\ <<"out", k, n>> \in Places
      /\ Held[<<"in", k, 1>>] = m
  BY <1>2, <1>3, StreamAt
<1>8. OutAnswers'
  <2> SUFFICES ASSUME NEW j \in Conns, NEW i \in DOMAIN outbox'[j]
               PROVE  outbox'[j][i] \in Answers
    BY DEF OutAnswers
  <2>1. \A h \in DOMAIN outbox[j] : outbox[j][h] \in Answers
    BY DEF TokenInv, OutAnswers
  <2>2. CASE outbox'[j] = outbox[j]
    BY <2>1, <2>2
  <2>3. CASE j = k /\ outbox'[k] = Append(o, a) /\ m \in Requests
    BY <1>3, <1>6, <2>1, <2>3
  <2> QED
    BY <1>4, <2>2, <2>3
<1>9. ASSUME NEW s \in Places, Held'[s] # NoMsg
      PROVE  \/ s = <<"out", k, n>> /\ Held'[s] = a /\ m \in Requests
             \/ s # <<"out", k, n>> /\ ~ (s[1] = "in" /\ s[2] = k) /\ Held'[s] = Held[s]
             \/ \E i \in Positions :
                  /\ s = <<"in", k, i>> /\ i + 1 \in Positions
                  /\ Held'[s] = Held[<<"in", k, i + 1>>]
  <2>1. CASE \E c \in Clients : s = <<"cli", c, 0>>
    <3>1. s[1] # "out" /\ s[1] # "in"
      BY <2>1
    <3>2. Held'[s] = Held[s]
      BY <1>4, <2>1, HeldAt DEF HeldTable, Carrying
    <3> QED
      BY <3>1, <3>2
  <2>2. CASE \E f \in Forwarders : s = <<"fwd", f, 0>>
    <3>1. s[1] # "out" /\ s[1] # "in"
      BY <2>2
    <3>2. Held'[s] = Held[s]
      BY <1>4, <2>2, HeldAt DEF HeldTable
    <3> QED
      BY <3>1, <3>2
  <2>3. ASSUME NEW j \in Conns, NEW i \in Positions, s = <<"in", j, i>>, j # k
        PROVE  s # <<"out", k, n>> /\ ~ (s[1] = "in" /\ s[2] = k) /\ Held'[s] = Held[s]
    <3>1. Held[<<"in", j, i>>] = IF i \in DOMAIN inbox[j] THEN inbox[j][i] ELSE NoMsg
      BY StreamAt
    <3>2. Held'[<<"in", j, i>>] = IF i \in DOMAIN inbox'[j] THEN inbox'[j][i] ELSE NoMsg
      BY StreamAt
    <3>3. Held'[s] = Held[s]
      BY <1>4, <2>3, <3>1, <3>2
    <3> QED
      BY <2>3, <3>3
  <2>4. ASSUME NEW i \in Positions, s = <<"in", k, i>>
        PROVE  i + 1 \in Positions /\ Held'[s] = Held[<<"in", k, i + 1>>]
    <3>1. Held'[<<"in", k, i>>] = IF i \in DOMAIN inbox'[k] THEN inbox'[k][i] ELSE NoMsg
      BY StreamAt
    <3>2. i \in DOMAIN Tail(q) /\ Held'[s] = Tail(q)[i]
      BY <1>4, <1>9, <2>4, <3>1
    <3>3. i + 1 \in Positions /\ i + 1 \in DOMAIN inbox[k] /\ Held'[s] = inbox[k][i + 1]
      BY <1>2, <3>2
    <3>4. Held[<<"in", k, i + 1>>] =
            IF i + 1 \in DOMAIN inbox[k] THEN inbox[k][i + 1] ELSE NoMsg
      BY <3>3, StreamAt
    <3> QED
      BY <3>3, <3>4
  <2>5. ASSUME NEW j \in Conns, NEW i \in Positions, s = <<"out", j, i>>
        PROVE  \/ s = <<"out", k, n>> /\ Held'[s] = a /\ m \in Requests
               \/ s # <<"out", k, n>> /\ ~ (s[1] = "in" /\ s[2] = k) /\ Held'[s] = Held[s]
    <3>1. Held[<<"out", j, i>>] = IF i \in DOMAIN outbox[j] THEN outbox[j][i] ELSE NoMsg
      BY StreamAt
    <3>2. Held'[<<"out", j, i>>] = IF i \in DOMAIN outbox'[j] THEN outbox'[j][i] ELSE NoMsg
      BY StreamAt
    <3>3. s[1] # "in"
      BY <2>5
    <3>4. CASE outbox'[j] = outbox[j]
      <4>1. Held'[s] = Held[s]
        BY <2>5, <3>1, <3>2, <3>4
      <4>2. Held[<<"out", k, n>>] = NoMsg
        BY <1>3, StreamAt
      <4>3. s # <<"out", k, n>>
        BY <1>9, <4>1, <4>2
      <4> QED
        BY <3>3, <4>1, <4>3
    <3>5. CASE j = k /\ outbox'[k] = Append(o, a) /\ m \in Requests /\ i = n
      BY <1>3, <1>9, <2>5, <3>2, <3>5
    <3>6. CASE j = k /\ outbox'[k] = Append(o, a) /\ m \in Requests /\ i # n
      <4>1. Held'[s] = Held[s]
        BY <1>3, <1>9, <2>5, <3>1, <3>2, <3>6
      <4>2. s # <<"out", k, n>>
        BY <2>5, <3>6
      <4> QED
        BY <3>3, <4>1, <4>2
    <3> QED
      BY <1>4, <3>4, <3>5, <3>6
  <2> QED
    BY <2>1, <2>2, <2>3, <2>4, <2>5, PlaceKinds
<1>10. src \in [Places -> Places]
  <2>1. ASSUME NEW s \in Places, s[1] = "in", s[2] = k
        PROVE  <<"in", k, s[3] + 1>> \in Places
    BY <2>1 DEF Places, Positions
  <2> QED
    BY <1>7, <2>1
<1>11. ASSUME NEW s \in Places, Held'[s] # NoMsg
       PROVE  \/ /\ s = <<"out", k, n>> /\ src[s] = <<"in", k, 1>>
                 /\ Held'[s] = a /\ m \in Requests
              \/ /\ s # <<"out", k, n>> /\ ~ (s[1] = "in" /\ s[2] = k)
                 /\ src[s] = s /\ Held'[s] = Held[s]
              \/ \E i \in Positions :
                   /\ s = <<"in", k, i>> /\ src[s] = <<"in", k, i + 1>>
                   /\ Held'[s] = Held[src[s]]
  <2>1. CASE \E i \in Positions :
               /\ s = <<"in", k, i>> /\ i + 1 \in Positions
               /\ Held'[s] = Held[<<"in", k, i + 1>>]
    <3>1. PICK i \in Positions :
            /\ s = <<"in", k, i>> /\ i + 1 \in Positions
            /\ Held'[s] = Held[<<"in", k, i + 1>>]
      BY <2>1
    <3>2. s[1] = "in" /\ s[2] = k /\ s[3] = i /\ s # <<"out", k, n>>
      BY <3>1
    <3>3. src[s] = <<"in", k, i + 1>>
      BY <3>2
    <3> QED
      BY <3>1, <3>3
  <2>2. CASE s = <<"out", k, n>> /\ Held'[s] = a /\ m \in Requests
    BY <2>2
  <2>3. CASE s # <<"out", k, n>> /\ ~ (s[1] = "in" /\ s[2] = k) /\ Held'[s] = Held[s]
    BY <2>3
  <2> QED
    BY <1>9, <1>11, <2>1, <2>2, <2>3
<1> HIDE DEF src, q, o, m
<1>12. ASSUME NEW s \in Places, Held'[s] # NoMsg
       PROVE  /\ Held[src[s]] # NoMsg
              /\ PacketOf(Held'[s]) = PacketOf(Held[src[s]])
              /\ Held[src[s]] \in Answers /\ src[s][1] = "in"
                   => s[1] = "in" /\ Held'[s] \in Answers
  <2>1. CASE src[s] = <<"in", k, 1>> /\ Held'[s] = a /\ m \in Requests
    <3>1. m \notin Answers
      BY <1>5, <2>1, MsgFacts
    <3> QED
      BY <1>5, <1>6, <1>7, <2>1, <3>1
  <2>2. CASE src[s] = s /\ Held'[s] = Held[s]
    BY <1>12, <2>2
  <2>3. CASE s[1] = "in" /\ Held'[s] = Held[src[s]]
    BY <1>12, <2>3
  <2> QED
    BY <1>11, <1>12, <2>1, <2>2, <2>3
<1>13. ASSUME NEW s \in Places, NEW t \in Places, src[s] = src[t],
              Held'[s] # NoMsg, Held'[t] # NoMsg
       PROVE  s = t
  <2>1. ASSUME NEW r \in Places, Held'[r] # NoMsg
        PROVE  \/ r = <<"out", k, n>> /\ src[r] = <<"in", k, 1>>
               \/ ~ (r[1] = "in" /\ r[2] = k) /\ src[r] = r
               \/ \E i \in Positions : r = <<"in", k, i>> /\ src[r] = <<"in", k, i + 1>>
    BY <1>11, <2>1
  <2>2. \A i, j \in Positions : i + 1 # 1 /\ (i + 1 = j + 1 => i = j)
    BY DEF Positions
  <2> QED
    BY <1>13, <2>1, <2>2
<1>14. Moves(src)
  BY <1>10, <1>12, <1>13 DEF Moves
<1>15. \A c \in Clients : Carrying(c)' => ~ Delivered(cmsg'[c])
  BY <1>4 DEF TokenInv, NotYetSent, Carrying
<1> QED
  BY <1>4, <1>8, <1>14, <1>15, MoveStep

\* Only the place of receive thread c changed among the threads' places.
LEMMA OtherThreadsHold ==
  ASSUME NEW c \in Clients, UNCHANGED <<fpc, fbuf>>,
         \A d \in Clients : d # c => cpc'[d] = cpc[d] /\ cmsg'[d] = cmsg[d]
  PROVE  \A s \in Places : s[1] \in {"cli", "fwd"} /\ s # <<"cli", c, 0>> =>
           Held'[s] = Held[s]
<1> SUFFICES ASSUME NEW s \in Places, s[1] \in {"cli", "fwd"}, s # <<"cli", c, 0>>
             PROVE  Held'[s] = Held[s]
  OBVIOUS
<1>1. CASE \E d \in Clients : s = <<"cli", d, 0>>
  BY <1>1, HeldAt DEF HeldTable, Carrying
<1>2. CASE \E f \in Forwarders : s = <<"fwd", f, 0>>
  BY <1>2, HeldAt DEF HeldTable
<1>3. CASE \E k \in Conns, i \in Positions : s = <<"in", k, i>> \/ s = <<"out", k, i>>
  BY <1>3
<1> QED
  BY <1>1, <1>2, <1>3, PlaceKinds

\* Only the place of forwarder f changed among the threads' places.
LEMMA OtherForwardersHold ==
  ASSUME NEW f \in Forwarders, UNCHANGED <<cpc, cmsg>>,
         \A g \in Forwarders : g # f => fpc'[g] = fpc[g] /\ fbuf'[g] = fbuf[g]
  PROVE  \A s \in Places : s[1] \in {"cli", "fwd"} /\ s # <<"fwd", f, 0>> =>
           Held'[s] = Held[s]
<1> SUFFICES ASSUME NEW s \in Places, s[1] \in {"cli", "fwd"}, s # <<"fwd", f, 0>>
             PROVE  Held'[s] = Held[s]
  OBVIOUS
<1>1. CASE \E d \in Clients : s = <<"cli", d, 0>>
  BY <1>1, HeldAt DEF HeldTable, Carrying
<1>2. CASE \E g \in Forwarders : s = <<"fwd", g, 0>>
  BY <1>2, HeldAt DEF HeldTable
<1>3. CASE \E k \in Conns, i \in Positions : s = <<"in", k, i>> \/ s = <<"out", k, i>>
  BY <1>3
<1> QED
  BY <1>1, <1>2, <1>3, PlaceKinds

\* The streams keep what they hold.
LEMMA StreamsHold ==
  ASSUME UNCHANGED <<inbox, outbox>>
  PROVE  \A s \in Places : s[1] \in {"in", "out"} => Held'[s] = Held[s]
<1> SUFFICES ASSUME NEW s \in Places, s[1] \in {"in", "out"} PROVE Held'[s] = Held[s]
  OBVIOUS
<1>1. CASE \E k \in Conns, i \in Positions : s = <<"in", k, i>> \/ s = <<"out", k, i>>
  <2>1. ASSUME NEW k \in Conns, NEW i \in Positions
        PROVE  /\ Held'[<<"in", k, i>>] = Held[<<"in", k, i>>]
               /\ Held'[<<"out", k, i>>] = Held[<<"out", k, i>>]
    <3>1. inbox' = inbox /\ outbox' = outbox
      OBVIOUS
    <3>2. /\ Held[<<"in", k, i>>] = IF i \in DOMAIN inbox[k] THEN inbox[k][i] ELSE NoMsg
          /\ Held'[<<"in", k, i>>] = IF i \in DOMAIN inbox'[k] THEN inbox'[k][i] ELSE NoMsg
      BY StreamAt
    <3>3. /\ Held[<<"out", k, i>>] = IF i \in DOMAIN outbox[k] THEN outbox[k][i] ELSE NoMsg
          /\ Held'[<<"out", k, i>>] = IF i \in DOMAIN outbox'[k] THEN outbox'[k][i] ELSE NoMsg
      BY StreamAt
    <3> QED
      BY <3>1, <3>2, <3>3
  <2> QED
    BY <1>1, <2>1
<1>2. CASE \E c \in Clients : s = <<"cli", c, 0>>
  BY <1>2
<1>3. CASE \E f \in Forwarders : s = <<"fwd", f, 0>>
  BY <1>3
<1> QED
  BY <1>1, <1>2, <1>3, PlaceKinds

\* Taking a packet from a PC changes one place.
LEMMA HeldExcept ==
  ASSUME NEW dst \in Places, NEW m, Held'[dst] = m, UNCHANGED <<inbox, outbox>>,
         \A s \in Places : s[1] \in {"cli", "fwd"} /\ s # dst => Held'[s] = Held[s]
  PROVE  Held' = [Held EXCEPT ![dst] = m]
<1>1. ASSUME NEW s \in Places, s # dst PROVE Held'[s] = Held[s]
  <2>1. s[1] \in {"cli", "fwd"} \/ s[1] \in {"in", "out"}
    BY DEF Places
  <2> QED
    BY <1>1, <2>1, StreamsHold
<1>2. /\ Held = [s \in Places |-> Held[s]]
      /\ Held' = [s \in Places |-> Held'[s]]
  BY DEF Held
<1> QED
  BY <1>1, <1>2

\* A receive thread hands its packet to the AIQ, or to whoever has the number.
LEMMA SendStep ==
  ASSUME TypeInv, TypeInv', TokenInv, NEW c \in Clients, SendOk(c)
  PROVE  TokenInv'
<1> USE DEF aiq, ctl, rem, fwd
<1> DEFINE from == <<"cli", c, 0>>
           m == cmsg[c]
<1>1. cpc \in [Clients -> ClientPcs] /\ delivered \in Seq(Msgs)
  BY DEF TypeInv, TypeOK, ClientTypeOK, HistoryTypeOK
<1>2. Carrying(c) /\ ~ Carrying(c)' /\ \A d \in Clients : d # c => cpc'[d] = cpc[d]
  BY <1>1 DEF SendOk, GoClient, Carrying
<1>3. UNCHANGED <<outbox, sent, cmsg, fpc, fbuf>>
  BY DEF SendOk
<1>4. CASE UNCHANGED <<inbox, delivered>>
  <2>1. PacketsStay
    BY <1>2, <1>3, <1>4 DEF PacketsStay, Carrying
  <2> QED
    BY <2>1, IdleStep
<1>5. ASSUME NEW k \in Conns, inbox' = [inbox EXCEPT ![k] = Append(@, m)],
             delivered' = Append(delivered, m)
      PROVE  TokenInv'
  <2>1. m \in Msgs /\ m # NoMsg
    <3>1. m \in Msgs
      BY <1>2 DEF TypeInv, Carries, Carrying
    <3> QED
      BY <3>1, MsgFacts
  <2>2. from \in Places /\ Held[from] = m /\ Held'[from] = NoMsg /\ from[1] = "cli"
    BY <1>2, HeldAt DEF HeldTable
  <2>3. \A s \in Places : s[1] \in {"cli", "fwd"} /\ s # from => Held'[s] = Held[s]
    BY <1>2, <1>3, OtherThreadsHold
  <2> HIDE DEF from, m
  <2>4. inbox' = [inbox EXCEPT ![k] = Append(@, Held[from])] /\ outbox' = outbox
    BY <1>3, <1>5, <2>2
  <2>5. /\ from \in Places /\ from[1] \in {"cli", "fwd"}
        /\ Held[from] # NoMsg /\ Held'[from] = NoMsg
    BY <2>1, <2>2
  <2>6. \E src :
          /\ Moves(src)
          /\ \A s \in Places : Held'[s] # NoMsg =>
               IF src[s] = from
                 THEN s[1] = "in" /\ Held'[s] = Held[from]
                 ELSE src[s] = s /\ Held'[s] = Held[s]
    BY <2>3, <2>4, <2>5, WriteMoves, Zenon
  <2>7. PICK src :
          /\ Moves(src)
          /\ \A s \in Places : Held'[s] # NoMsg =>
               IF src[s] = from
                 THEN s[1] = "in" /\ Held'[s] = Held[from]
                 ELSE src[s] = s /\ Held'[s] = Held[s]
    BY <2>6
  <2>8. \A x : Delivered(x)' <=> Delivered(x) \/ x = m
    <3>1. /\ Len(delivered) \in Nat /\ DOMAIN delivered = 1 .. Len(delivered)
          /\ DOMAIN delivered' = 1 .. Len(delivered) + 1
          /\ delivered'[Len(delivered) + 1] = m
          /\ \A i \in 1 .. Len(delivered) : delivered'[i] = delivered[i]
      BY <1>1, <1>5
    <3>2. \A i \in 1 .. Len(delivered) + 1 :
            i \in 1 .. Len(delivered) \/ i = Len(delivered) + 1
      BY <3>1
    <3>3. /\ 1 .. Len(delivered) \subseteq 1 .. Len(delivered) + 1
          /\ Len(delivered) + 1 \in 1 .. Len(delivered) + 1
      BY <3>1
    <3> QED
      BY <3>1, <3>2, <3>3 DEF Delivered
  <2>9. ~ Delivered(m)
    BY <1>2 DEF TokenInv, NotYetSent, m
  <2>10. OnePlace'
    BY <2>7, MovedPlaces DEF TokenInv, OnePlace, Moves
  <2>11. OutAnswers'
    BY <1>3 DEF TokenInv, OutAnswers
  <2>12. NotYetSent'
    <3> SUFFICES ASSUME NEW d \in Clients, Carrying(d)' PROVE ~ Delivered(cmsg[d])'
      BY <1>3 DEF NotYetSent
    <3>1. d # c /\ Carrying(d)
      BY <1>2 DEF Carrying
    <3>2. /\ <<"cli", d, 0>> \in Places /\ <<"cli", d, 0>> # from
          /\ Held[<<"cli", d, 0>>] = cmsg[d]
      BY <3>1, HeldAt DEF HeldTable, from
    <3>3. cmsg[d] \in Msgs
      BY <3>1 DEF TypeInv, Carries, Carrying
    <3>4. cmsg[d] # m
      BY <2>1, <2>2, <3>2 DEF TokenInv, OnePlace
    <3> QED
      BY <1>3, <2>8, <3>1, <3>4 DEF TokenInv, NotYetSent, Delivered
  <2>13. AnswerNotSent'
    <3> SUFFICES ASSUME NEW s \in Places, Held'[s] # NoMsg,
                        ~ (s[1] = "in" /\ Held'[s] \in Answers)
                 PROVE  \A i \in DOMAIN delivered' :
                          delivered'[i] # AnswerTo(PacketOf(Held'[s]))
      BY DEF AnswerNotSent, Delivered
    <3> DEFINE a == AnswerTo(PacketOf(Held'[s]))
    <3>1. /\ src[s] \in Places /\ Held[src[s]] # NoMsg
          /\ PacketOf(Held'[s]) = PacketOf(Held[src[s]])
          /\ ~ (src[s][1] = "in" /\ Held[src[s]] \in Answers)
      BY <2>7 DEF Moves
    <3>2. ~ Delivered(a)
      BY <3>1 DEF TokenInv, AnswerNotSent
    <3>3. a # m
      <4> SUFFICES ASSUME a = m PROVE FALSE
        OBVIOUS
      <4>1. PacketOf(m) = PacketOf(Held[src[s]])
        BY <3>1 DEF AnswerTo, PacketOf
      <4>2. src[s] = from
        BY <2>1, <2>2, <3>1, <4>1 DEF TokenInv, OnePlace
      <4>3. s[1] = "in" /\ Held'[s] = m
        BY <2>2, <2>7, <4>2
      <4>4. m \in Requests => m # AnswerTo(PacketOf(m))
        BY <2>1, MsgFacts
      <4> QED
        BY <2>1, <4>3, <4>4 DEF Msgs
    <3> HIDE DEF a
    <3>4. \A i \in DOMAIN delivered' : delivered'[i] # a
      BY <2>8, <3>2, <3>3 DEF Delivered
    <3> QED
      BY <3>4 DEF a
  <2>14. NothingEarly'
    <3>1. ASSUME NEW d \in Clients, NEW n \in Nat, n > sent[d]
          PROVE  /\ \A s \in Places : Held'[s] # NoMsg => PacketOf(Held'[s]) # <<d, n>>
                 /\ \A i \in DOMAIN delivered' : PacketOf(delivered'[i]) # <<d, n>>
      <4>1. /\ \A s \in Places : Held[s] # NoMsg => PacketOf(Held[s]) # <<d, n>>
            /\ \A i \in DOMAIN delivered : PacketOf(delivered[i]) # <<d, n>>
        BY <3>1 DEF TokenInv, NothingEarly
      <4>2. PacketOf(m) # <<d, n>>
        BY <2>1, <2>2, <4>1
      <4>3. \A i \in DOMAIN delivered' : Delivered(delivered'[i]) \/ delivered'[i] = m
        BY <2>8 DEF Delivered
      <4> QED
        BY <2>7, <4>1, <4>2, <4>3 DEF Moves, Delivered
    <3> QED
      BY <1>3, <3>1 DEF NothingEarly
  <2>15. NoDuplicate'
    <3>1. \A i, j \in DOMAIN delivered : i # j => delivered[i] # delivered[j]
      BY DEF TokenInv, NoDuplicate
    <3>2. \A i \in DOMAIN delivered : delivered[i] # m
      BY <2>9 DEF Delivered
    <3>3. /\ DOMAIN delivered = 1 .. Len(delivered) /\ Len(delivered) \in Nat
          /\ DOMAIN delivered' = 1 .. Len(delivered) + 1
          /\ delivered'[Len(delivered) + 1] = m
          /\ \A i \in 1 .. Len(delivered) : delivered'[i] = delivered[i]
      BY <1>1, <1>5
    <3>4. \A i \in DOMAIN delivered' : i \in DOMAIN delivered \/ i = Len(delivered) + 1
      BY <3>3
    <3> QED
      BY <3>1, <3>2, <3>3, <3>4 DEF NoDuplicate
  <2> QED
    BY <2>10, <2>11, <2>12, <2>13, <2>14, <2>15 DEF TokenInv
<1> QED
  BY <1>4, <1>5 DEF SendOk

\* A forwarder hands what it read to a client, or writes it to a connection
\* that has the client's number by now.
LEMMA FwdSendStep ==
  ASSUME TypeInv, TypeInv', TokenInv, NEW f \in Forwarders, FwdSendOk(f)
  PROVE  TokenInv'
<1> USE DEF aiq, ctl, rem, cli
<1> DEFINE from == <<"fwd", f, 0>>
<1>1. fpc \in [Forwarders -> FwdPcs]
  BY DEF TypeInv, TypeOK, ForwarderTypeOK
<1>2. fpc[f] = "tx" /\ fpc'[f] # "tx" /\ \A g \in Forwarders : g # f => fpc'[g] = fpc[g]
  BY <1>1 DEF FwdSendOk, GoFwd
<1>3. UNCHANGED <<outbox, sent, delivered, cpc, cmsg, fbuf>>
  BY DEF FwdSendOk
<1>4. CASE UNCHANGED inbox
  <2>1. PacketsStay
    BY <1>2, <1>3, <1>4 DEF PacketsStay, Carrying
  <2> QED
    BY <2>1, IdleStep
<1>5. ASSUME NEW k \in Conns, inbox' = [inbox EXCEPT ![k] = Append(@, fbuf[f])]
      PROVE  TokenInv'
  <2>1. fbuf[f] # NoMsg
    <3>1. fbuf[f] \in Msgs
      BY <1>2 DEF TypeInv, Carries
    <3> QED
      BY <3>1, MsgFacts
  <2>2. from \in Places /\ Held[from] = fbuf[f] /\ Held'[from] = NoMsg /\ from[1] = "fwd"
    BY <1>2, HeldAt DEF HeldTable
  <2>3. \A s \in Places : s[1] \in {"cli", "fwd"} /\ s # from => Held'[s] = Held[s]
    BY <1>2, <1>3, OtherForwardersHold
  <2> HIDE DEF from
  <2>4. inbox' = [inbox EXCEPT ![k] = Append(@, Held[from])] /\ outbox' = outbox
    BY <1>3, <1>5, <2>2
  <2>5. \E src : /\ Moves(src)
                 /\ \A s \in Places : Held'[s] # NoMsg =>
                      IF src[s] = from
                        THEN s[1] = "in" /\ Held'[s] = Held[from]
                        ELSE src[s] = s /\ Held'[s] = Held[s]
    BY <2>1, <2>2, <2>3, <2>4, WriteMoves
  <2>6. PICK src : Moves(src)
    BY <2>5
  <2>7. OutAnswers'
    BY <1>3 DEF TokenInv, OutAnswers
  <2>8. \A c \in Clients : Carrying(c)' => ~ Delivered(cmsg'[c])
    BY <1>3 DEF TokenInv, NotYetSent, Carrying
  <2> QED
    BY <1>3, <2>6, <2>7, <2>8, MoveStep
<1> QED
  BY <1>4, <1>5 DEF FwdSendOk

\* A receive thread reads a packet: its client's, or what its number names.
LEMMA RecvStep ==
  ASSUME TypeInv, TypeInv', TokenInv, NEW c \in Clients, RecvPacket(c)
  PROVE  TokenInv'
<1> USE DEF aiq, ctl, fwd, hist
<1> DEFINE dst == <<"cli", c, 0>>
<1>1. /\ cpc \in [Clients -> ClientPcs] /\ cmsg \in [Clients -> Msgs \cup {NoMsg}]
      /\ sent \in [Clients -> Nat]
  BY DEF TypeInv, TypeOK, ClientTypeOK
<1>2. /\ ~ Carrying(c) /\ Carrying(c)'
      /\ \A d \in Clients : d # c => cpc'[d] = cpc[d] /\ cmsg'[d] = cmsg[d]
  BY <1>1 DEF RecvPacket, GoClient, Carrying
<1>3. UNCHANGED <<inbox, delivered, fpc, fbuf>>
  BY DEF RecvPacket
<1>4. dst \in Places /\ Held[dst] = NoMsg /\ Held'[dst] = cmsg'[c] /\ dst[1] = "cli"
  BY <1>2, HeldAt DEF HeldTable
<1>5. \A s \in Places : s[1] \in {"cli", "fwd"} /\ s # dst => Held'[s] = Held[s]
  BY <1>2, <1>3, OtherThreadsHold
<1>6. \A d \in Clients : Carrying(d)' =>
        (Carrying(d) /\ cmsg'[d] = cmsg[d]) \/ cmsg'[d] = cmsg'[c]
  BY <1>2 DEF Carrying
<1> HIDE DEF dst
<1>7. ASSUME NEW d \in Clients, sent[d] < MaxMsgs[d],
             sent' = [sent EXCEPT ![d] = @ + 1],
             cmsg' = [cmsg EXCEPT ![c] = <<d, sent[d] + 1, "request">>],
             UNCHANGED outbox
      PROVE  TokenInv'
  <2> DEFINE m == <<d, sent[d] + 1, "request">>
  <2>1. m \in Msgs
    BY <1>1, <1>7, NewRequest
  <2> HIDE DEF m
  <2>2. cmsg'[c] = m
    BY <1>1, <1>7 DEF m
  <2>3. Held' = [Held EXCEPT ![dst] = m]
    BY <1>3, <1>4, <1>5, <1>7, <2>2, HeldExcept
  <2>4. \A e \in Clients : Carrying(e)' =>
          (Carrying(e) /\ cmsg'[e] = cmsg[e]) \/ cmsg'[e] = m
    BY <1>6, <2>2
  <2> QED
    BY <1>3, <1>4, <1>7, <2>1, <2>3, <2>4, TakeNew DEF m
<1>8. ASSUME NEW k \in Conns, outbox[k] # <<>>,
             cmsg' = [cmsg EXCEPT ![c] = Head(outbox[k])],
             outbox' = [outbox EXCEPT ![k] = Tail(@)], UNCHANGED sent
      PROVE  TokenInv'
  <2>1. cmsg'[c] = Head(outbox[k])
    BY <1>1, <1>8
  <2> QED
    BY <1>3, <1>4, <1>5, <1>6, <1>8, <2>1, TakeAnswer
<1> QED
  BY <1>7, <1>8 DEF RecvPacket

\* A forwarder reads an answer, or a packet of a client on a reused number.
LEMMA FwdDataStep ==
  ASSUME TypeInv, TypeInv', TokenInv, NEW f \in Forwarders, FwdData(f)
  PROVE  TokenInv'
<1> USE DEF aiq, ctl, cli, hist
<1> DEFINE dst == <<"fwd", f, 0>>
<1>1. /\ fpc \in [Forwarders -> FwdPcs] /\ fbuf \in [Forwarders -> Msgs \cup {NoMsg}]
      /\ sent \in [Clients -> Nat]
  BY DEF TypeInv, TypeOK, ForwarderTypeOK, ClientTypeOK
<1>2. /\ fpc[f] # "tx" /\ fpc'[f] = "tx"
      /\ \A g \in Forwarders : g # f => fpc'[g] = fpc[g] /\ fbuf'[g] = fbuf[g]
  BY <1>1 DEF FwdData, GoFwd
<1>3. UNCHANGED <<inbox, delivered, cpc, cmsg>>
  BY DEF FwdData
<1>4. dst \in Places /\ Held[dst] = NoMsg /\ Held'[dst] = fbuf'[f] /\ dst[1] = "fwd"
  BY <1>2, HeldAt DEF HeldTable
<1>5. \A s \in Places : s[1] \in {"cli", "fwd"} /\ s # dst => Held'[s] = Held[s]
  BY <1>2, <1>3, OtherForwardersHold
<1>6. \A d \in Clients : Carrying(d)' => Carrying(d) /\ cmsg'[d] = cmsg[d]
  BY <1>3 DEF Carrying
<1> HIDE DEF dst
<1>7. ASSUME NEW d \in Clients, sent[d] < MaxMsgs[d],
             sent' = [sent EXCEPT ![d] = @ + 1],
             fbuf' = [fbuf EXCEPT ![f] = <<d, sent[d] + 1, "request">>],
             UNCHANGED outbox
      PROVE  TokenInv'
  <2> DEFINE m == <<d, sent[d] + 1, "request">>
  <2>1. m \in Msgs
    BY <1>1, <1>7, NewRequest
  <2> HIDE DEF m
  <2>2. fbuf'[f] = m
    BY <1>1, <1>7 DEF m
  <2>3. Held' = [Held EXCEPT ![dst] = m]
    BY <1>3, <1>4, <1>5, <1>7, <2>2, HeldExcept
  <2> QED
    BY <1>3, <1>4, <1>6, <1>7, <2>1, <2>3, TakeNew DEF m
<1>8. ASSUME NEW k \in Conns, outbox[k] # <<>>,
             fbuf' = [fbuf EXCEPT ![f] = Head(outbox[k])],
             outbox' = [outbox EXCEPT ![k] = Tail(@)], UNCHANGED sent
      PROVE  TokenInv'
  <2>1. fbuf'[f] = Head(outbox[k])
    BY <1>1, <1>8
  <2> QED
    BY <1>3, <1>4, <1>5, <1>6, <1>8, <2>1, TakeAnswer
<1> QED
  BY <1>7, <1>8 DEF FwdData

\* No packet exists at the start.
LEMMA InitToken == Init => TokenInv
<1> SUFFICES ASSUME Init PROVE TokenInv
  OBVIOUS
<1> USE DEF Init
<1>0. DOMAIN <<>> = {}
  OBVIOUS
<1>1. delivered = <<>> /\ DOMAIN delivered = {}
  BY <1>0
<1>2. ASSUME NEW s \in Places PROVE Held[s] = NoMsg
  <2>1. CASE \E c \in Clients : s = <<"cli", c, 0>>
    BY <2>1, HeldAt DEF HeldTable, Carrying
  <2>2. CASE \E f \in Forwarders : s = <<"fwd", f, 0>>
    BY <2>2, HeldAt DEF HeldTable
  <2>3. ASSUME NEW k \in Conns, NEW i \in Positions
        PROVE  Held[<<"in", k, i>>] = NoMsg /\ Held[<<"out", k, i>>] = NoMsg
    <3>1. inbox[k] = <<>> /\ outbox[k] = <<>>
      OBVIOUS
    <3>2. i \notin DOMAIN <<>>
      BY <1>0
    <3>3. /\ Held[<<"in", k, i>>] = IF i \in DOMAIN inbox[k] THEN inbox[k][i] ELSE NoMsg
          /\ Held[<<"out", k, i>>] = IF i \in DOMAIN outbox[k] THEN outbox[k][i] ELSE NoMsg
      BY StreamAt
    <3> QED
      BY <3>1, <3>2, <3>3
  <2>4. CASE \E k \in Conns, i \in Positions : s = <<"in", k, i>> \/ s = <<"out", k, i>>
    BY <2>3, <2>4
  <2> QED
    BY <2>1, <2>2, <2>4, PlaceKinds
<1>3. OnePlace /\ AnswerNotSent /\ NothingEarly
  BY <1>1, <1>2 DEF OnePlace, AnswerNotSent, NothingEarly
<1>4. NotYetSent /\ NoDuplicate
  BY <1>1 DEF NotYetSent, NoDuplicate, Delivered
<1>5. OutAnswers
  BY <1>0 DEF OutAnswers
<1> QED
  BY <1>3, <1>4, <1>5 DEF TokenInv

\* Every step keeps each packet in one place.
LEMMA NextToken == TypeInv /\ TokenInv /\ [Next]_vars => TokenInv'
<1> SUFFICES ASSUME TypeInv, TokenInv, [Next]_vars PROVE TokenInv'
  OBVIOUS
<1>0. TypeInv'
  BY NextTypeInv
<1>1. /\ cpc \in [Clients -> ClientPcs] /\ fpc \in [Forwarders -> FwdPcs]
      /\ inbox \in [Conns -> Seq(Msgs)]
  BY DEF TypeInv, TypeOK, ClientTypeOK, ForwarderTypeOK, NetTypeOK
<1> USE DEF net, aiq, ctl, cli, fwd, rem, hist
<1>2. ASSUME NEW c \in Clients, ReceiveThread(c) PROVE TokenInv'
  <2>1. CASE RecvPacket(c)
    BY <1>0, <2>1, RecvStep
  <2>2. CASE SendOk(c)
    BY <1>0, <2>2, SendStep
  <2>3. ASSUME UNCHANGED <<inbox, outbox, sent, delivered, cmsg, fbuf>>,
               \A f \in Forwarders : fpc'[f] = "tx" => fpc[f] = "tx",
               \A d \in Clients : Carrying(d)' => Carrying(d)
        PROVE  TokenInv'
    <3>1. PacketsStay
      BY <2>3 DEF PacketsStay
    <3> QED
      BY <1>0, <3>1, IdleStep
  <2>4. CASE SpawnForwarder(c)
    BY <1>1, <2>3, <2>4 DEF SpawnForwarder, GoClient, GoFwd, Carrying
  <2>5. CASE ModeEnter(c) \/ ModeLeave(c)
    BY <1>1, <2>3, <2>5 DEF ModeEnter, ModeLeave, GoClient, Carrying
  <2>6. CASE RecvTimeout(c) \/ RecvEnd(c) \/ RecvClose(c) \/ SendSigpipe(c)
    BY <1>1, <2>3, <2>6 DEF RecvTimeout, RecvEnd, RecvClose, SendSigpipe,
       Sigpipe, GoClient, Carrying
  <2>7. CASE SendNoSocket(c) \/ SendFails(c) \/ SetupCheck(c)
    BY <1>1, <2>3, <2>7
    DEF SendNoSocket, SendFails, SetupCheck, GoClient, Carrying
  <2>8. CASE SetupSocket(c) \/ SetupConnect(c)
    BY <1>1, <2>3, <2>8 DEF SetupSocket, SetupConnect, GoClient, Carrying
  <2>9. CASE ConnectFailed(c) \/ ForwardFailed(c)
    BY <1>1, <2>3, <2>9 DEF ConnectFailed, ForwardFailed, GoClient, Carrying
  <2> QED
    BY <1>2, <2>1, <2>2, <2>4, <2>5, <2>6, <2>7, <2>8, <2>9 DEF ReceiveThread
<1>3. ASSUME NEW f \in Forwarders, ForwardThread(f) PROVE TokenInv'
  <2>1. CASE FwdData(f)
    BY <1>0, <2>1, FwdDataStep
  <2>2. CASE FwdSendOk(f)
    BY <1>0, <2>2, FwdSendStep
  <2>3. ASSUME UNCHANGED <<inbox, outbox, sent, delivered, cpc, cmsg, fbuf>>,
               \A g \in Forwarders : fpc'[g] = "tx" => fpc[g] = "tx"
        PROVE  TokenInv'
    <3>1. PacketsStay
      BY <2>3 DEF PacketsStay, Carrying
    <3> QED
      BY <1>0, <3>1, IdleStep
  <2>4. CASE FwdStart(f) \/ FwdTest(f) \/ FwdCall(f) \/ FwdNothing(f)
    BY <1>1, <2>3, <2>4 DEF FwdStart, FwdTest, FwdCall, FwdNothing, GoFwd
  <2>5. CASE FwdError(f) \/ FwdHangup(f) \/ FwdSendFails(f)
    BY <1>1, <2>3, <2>5 DEF FwdError, FwdHangup, FwdSendFails, GoFwd
  <2>6. CASE FwdSigpipe(f) \/ FwdLast(f)
    BY <1>1, <2>3, <2>6 DEF FwdSigpipe, Sigpipe, FwdLast, GoFwd
  <2> QED
    BY <1>3, <2>1, <2>2, <2>4, <2>5, <2>6 DEF ForwardThread
<1>4. ASSUME NEW k \in Conns, AiqAnswers(k) PROVE TokenInv'
  BY <1>0, <1>4, AnswerStep
<1>5. ASSUME UNCHANGED <<outbox, sent, delivered, cmsg, fbuf, fpc>>,
             \A k \in Conns : inbox'[k] \in {inbox[k], <<>>},
             \A d \in Clients : Carrying(d)' => Carrying(d)
      PROVE  TokenInv'
  <2>1. PacketsStay
    BY <1>5 DEF PacketsStay
  <2> QED
    BY <1>0, <2>1, IdleStep
<1>6. CASE MainThread
  BY <1>5, <1>6 DEF MainThread, Quit, Exit, ProcessEnds, Carrying
<1>7. ASSUME NEW c \in Clients, Accept(c) \/ ClientLeaves(c) PROVE TokenInv'
  BY <1>1, <1>5, <1>7 DEF Accept, ClientLeaves, GoClient, Carrying
<1>8. CASE AiqExits \/ AiqStarts
  BY <1>5, <1>8 DEF AiqExits, AiqStarts, Carrying
<1>9. CASE UNCHANGED vars
  BY <1>5, <1>9 DEF vars, Carrying
<1> QED
  BY <1>2, <1>3, <1>4, <1>6, <1>7, <1>8, <1>9 DEF Next, Outside

\* For any number of clients, forwarders, descriptors, reconnections and AIQ
\* exits: no packet is written to the AIQ twice, whatever close() hit.
THEOREM NoDuplicateCorrect == Spec => []NoDuplicate
<1>1. TokenInv => NoDuplicate
  BY DEF TokenInv
<1> QED
  BY <1>1, InitTypeInv, NextTypeInv, InitToken, NextToken, PTL DEF Spec
-----------------------------------------------------------------------------
(* Without faults.  OwnDescriptor and InOrder do not survive a failed      *)
(* reconnection, which closes numbers that other threads still use, so     *)
(* they are about runs in which the AIQ is there before the tool and stays *)
(* and no client disconnects.  A signal may still end the process.         *)

Quiet == MaxExits = 0 /\ Leavers = {} /\ AiqAtStart = {TRUE}

\* g_tcpClient keeps the connection main made, no thread enters the
\* reconnection or hang-up paths, and every running thread owns its number.
QuietInv ==
  /\ 1 \in Fds /\ sock = 1 /\ file[1] = 1
  /\ \A k \in Conns : conn[k] \in {"new", "live"}
  /\ 1 \in Conns /\ conn[1] = "live"
  /\ \A c \in Clients :
       /\ cpc[c] \in {"idle", "recv", "mode", "linking", "send", "spawn", "bye", "done"}
       /\ cpc[c] \notin {"idle", "done"} => cfd[c] \in Fds /\ file[cfd[c]] = c
       /\ peer[c] # "gone"
  /\ \A f \in Forwarders :
       fpc[f] # "hangup" /\ (fpc[f] = "wait" => frx[f] = 1)

\* A thread carries its own client's latest packet, which is newer than all
\* that were delivered.
OrderInv ==
  /\ \A c \in Clients : Carrying(c) => cmsg[c] = <<c, sent[c], "request">>
  /\ \A c \in Clients, i \in DOMAIN delivered : delivered[i][1] = c =>
       /\ delivered[i][2] <= sent[c]
       /\ Carrying(c) => delivered[i][2] < sent[c]
  /\ InOrder

\* Numbers are neither clients nor the free mark.
LEMMA FileKinds ==
  /\ 1 # NoFile /\ \A c \in Clients : c # 1 /\ c # NoFile
  /\ \A k \in Conns : k # NoFile /\ k \notin Clients
BY ClientsAssumption, NoFileAssumption, BoundsAssumption DEF Conns

\* At the start main holds the connection on descriptor 1.
LEMMA InitQuiet == ASSUME Quiet PROVE Init => QuietInv
<1> SUFFICES ASSUME Init PROVE QuietInv
  OBVIOUS
<1> USE DEF Init
<1>1. aiqUp
  BY DEF Quiet
<1>2. MaxFd \in Nat /\ MaxFd > 0 /\ MaxConns \in Nat /\ MaxConns > 0
  BY BoundsAssumption DEF Quiet
<1>3. 1 \in Fds /\ 1 \in Conns
  BY <1>2 DEF Fds, Conns
<1> QED
  BY <1>1, <1>3 DEF QuietInv

\* Without faults the only close() of a number in use is the thread's own.
LEMMA NextQuiet == ASSUME Quiet PROVE TypeInv /\ QuietInv /\ [Next]_vars => QuietInv'
<1> SUFFICES ASSUME TypeInv, QuietInv, [Next]_vars PROVE QuietInv'
  OBVIOUS
<1>0. /\ cpc \in [Clients -> ClientPcs] /\ cfd \in [Clients -> Fds \cup {NoFd}]
      /\ fpc \in [Forwarders -> FwdPcs] /\ exits \in Nat
      /\ file \in [Fds -> Clients \cup Conns \cup {NoFile}]
      /\ frx \in [Forwarders -> Clients \cup Conns \cup {NoFile}]
      /\ ffd \in [Forwarders -> Fds \cup {NoFd}]
      /\ peer \in [Clients -> {"away", "up", "gone"}]
  BY DEF TypeInv, TypeOK, NetTypeOK, ControlTypeOK, ClientTypeOK, ForwarderTypeOK
<1> USE DEF net, aiq, ctl, cli, fwd, rem, hist
<1>1. FileOf(sock) = 1 /\ sock # NoFd
  BY DEF QuietInv, FileOf, NoFd
<1>2. ASSUME NEW c \in Clients, ReceiveThread(c) PROVE QuietInv'
  <2>1. CASE SpawnForwarder(c)
    BY <1>0, <2>1 DEF SpawnForwarder, GoClient, GoFwd, QuietInv
  <2>2. CASE RecvClose(c)
    <3>1. file[cfd[c]] = c /\ cfd[c] \in Fds /\ cfd[c] # 1
      BY <2>2, FileKinds DEF RecvClose, QuietInv
    <3>2. \A d \in Clients : d # c /\ cpc[d] \notin {"idle", "done"} => cfd[d] # cfd[c]
      BY <3>1 DEF QuietInv
    <3> QED
      BY <1>0, <2>2, <3>1, <3>2 DEF RecvClose, Closed, GoClient, QuietInv
  <2>3. ASSUME UNCHANGED <<file, sock, conn, cfd, fpc, frx, peer>>,
               cpc[c] \notin {"idle", "done"},
               NEW l \in {"recv", "mode", "linking", "send", "spawn", "bye"},
               GoClient(c, l)
        PROVE  QuietInv'
    BY <1>0, <2>3 DEF GoClient, QuietInv
  <2>4. CASE RecvPacket(c)
    BY <2>3, <2>4 DEF RecvPacket
  <2>5. CASE RecvTimeout(c)
    BY <2>5 DEF RecvTimeout, QuietInv
  <2>6. CASE RecvEnd(c)
    BY <2>3, <2>6 DEF RecvEnd
  <2>7. CASE ModeEnter(c)
    BY <2>3, <2>7 DEF ModeEnter
  <2>8. CASE ModeLeave(c)
    BY <2>3, <2>8 DEF ModeLeave
  <2>9. CASE SendOk(c)
    BY <2>3, <2>9 DEF SendOk
  <2>10. CASE SendSigpipe(c)
    BY <2>10 DEF SendSigpipe, Sigpipe, QuietInv
  <2>11. ~ SendNoSocket(c)
    BY <1>1 DEF SendNoSocket
  <2>12. ~ SendFails(c)
    BY <1>1, FileKinds DEF SendFails, QuietInv
  <2>13. cpc[c] \notin {"setup", "socket", "connect", "failed", "giveup"}
    BY DEF QuietInv
  <2>14. ~ SetupCheck(c) /\ ~ SetupSocket(c) /\ ~ SetupConnect(c)
         /\ ~ ConnectFailed(c) /\ ~ ForwardFailed(c)
    BY <2>13
    DEF SetupCheck, SetupSocket, SetupConnect, ConnectFailed, ForwardFailed
  <2> QED
    BY <1>2, <2>1, <2>2, <2>4, <2>5, <2>6, <2>7, <2>8, <2>9, <2>10, <2>11,
       <2>12, <2>14 DEF ReceiveThread
<1>3. ASSUME NEW f \in Forwarders, ForwardThread(f) PROVE QuietInv'
  <2>1. ASSUME UNCHANGED <<file, sock, conn, cpc, cfd, peer, frx>>,
               NEW l \in {"test", "call", "tx", "last", "done"}, GoFwd(f, l)
        PROVE  QuietInv'
    BY <1>0, <2>1 DEF GoFwd, QuietInv
  <2>2. CASE FwdStart(f)
    BY <2>1, <2>2 DEF FwdStart
  <2>3. CASE FwdTest(f)
    BY <2>1, <2>3 DEF FwdTest
  <2>4. CASE FwdCall(f)
    BY <1>0, <1>1, <2>4 DEF FwdCall, GoFwd, QuietInv
  <2>5. CASE FwdData(f)
    BY <2>1, <2>5 DEF FwdData
  <2>6. CASE FwdNothing(f)
    BY <2>1, <2>6 DEF FwdNothing
  <2>7. ~ FwdError(f)
    BY FileKinds DEF FwdError, QuietInv
  <2>8. ~ FwdHangup(f)
    BY DEF FwdHangup, QuietInv
  <2>9. CASE FwdSendOk(f)
    BY <2>1, <2>9 DEF FwdSendOk
  <2>10. CASE FwdSendFails(f)
    <3>1. FileOf(ffd[f]) = NoFile
      BY <2>10 DEF FwdSendFails, QuietInv
    <3>2. Closed(ffd[f]) = file
      BY <1>0, <3>1 DEF FileOf, Closed, NoFd, Fds
    <3> QED
      BY <2>1, <2>10, <3>2 DEF FwdSendFails
  <2>11. CASE FwdSigpipe(f)
    BY <2>11 DEF FwdSigpipe, Sigpipe, QuietInv
  <2>12. CASE FwdLast(f)
    BY <2>1, <2>12 DEF FwdLast
  <2> QED
    BY <1>3, <2>2, <2>3, <2>4, <2>5, <2>6, <2>7, <2>8, <2>9, <2>10, <2>11,
       <2>12 DEF ForwardThread
<1>4. CASE MainThread
  BY <1>4 DEF MainThread, Quit, Exit, ProcessEnds, QuietInv
<1>5. ASSUME NEW c \in Clients, Accept(c) PROVE QuietInv'
  <2>1. PICK fd \in Fds : /\ file[fd] = NoFile
                          /\ file' = [file EXCEPT ![fd] = c]
                          /\ cfd' = [cfd EXCEPT ![c] = fd]
    BY <1>5 DEF Accept, LowestFree, FreeFds
  <2>2. fd # 1
    BY <2>1, FileKinds DEF QuietInv
  <2>3. \A d \in Clients : cpc[d] \notin {"idle", "done"} => cfd[d] # fd
    BY <2>1, FileKinds DEF QuietInv
  <2>4. UNCHANGED <<sock, conn, fpc, frx>> /\ cpc' = [cpc EXCEPT ![c] = "recv"]
        /\ peer' = [peer EXCEPT ![c] = "up"] /\ cpc[c] = "idle"
    BY <1>5 DEF Accept, GoClient
  <2> QED
    BY <1>0, <2>1, <2>2, <2>3, <2>4 DEF QuietInv
<1>6. \A c \in Clients : ~ ClientLeaves(c)
  BY DEF ClientLeaves, Quiet
<1>7. ASSUME NEW k \in Conns, AiqAnswers(k) PROVE QuietInv'
  BY <1>7 DEF AiqAnswers, QuietInv
<1>8. ~ AiqExits
  BY <1>0 DEF AiqExits, Quiet
<1>9. CASE AiqStarts
  BY <1>9 DEF AiqStarts, QuietInv
<1>10. CASE UNCHANGED vars
  BY <1>10 DEF vars, QuietInv
<1> QED
  BY <1>2, <1>3, <1>4, <1>5, <1>6, <1>7, <1>8, <1>9, <1>10 DEF Next, Outside

\* Without faults no close() takes a descriptor from the thread it belongs to.
THEOREM OwnDescriptorCorrect == ASSUME Quiet PROVE Spec => []OwnDescriptor
<1>1. TypeInv /\ QuietInv => OwnDescriptor
  <2> SUFFICES ASSUME TypeInv, QuietInv, NEW c \in Clients, cpc[c] \notin {"idle", "done"}
               PROVE  FileOf(cfd[c]) = c
    BY DEF OwnDescriptor
  <2>1. cfd[c] \in Fds /\ file[cfd[c]] = c
    BY DEF QuietInv
  <2> QED
    BY <2>1 DEF FileOf, NoFd, Fds
<1> QED
  BY <1>1, InitTypeInv, NextTypeInv, InitQuiet, NextQuiet, PTL DEF Spec

\* Only RecvPacket numbers packets, only SendOk delivers them.
LEMMA NextOrder ==
  ASSUME Quiet
  PROVE  TypeInv /\ QuietInv /\ OrderInv /\ [Next]_vars => OrderInv'
<1> SUFFICES ASSUME TypeInv, QuietInv, OrderInv, [Next]_vars PROVE OrderInv'
  OBVIOUS
<1>0. /\ cpc \in [Clients -> ClientPcs] /\ cmsg \in [Clients -> Msgs \cup {NoMsg}]
      /\ sent \in [Clients -> Nat] /\ delivered \in Seq(Msgs)
      /\ \A i \in DOMAIN delivered : delivered[i][2] \in Nat
  <2>1. delivered \in Seq(Msgs)
    BY DEF TypeInv, TypeOK, HistoryTypeOK
  <2>2. \A m \in Msgs : m[2] \in Nat
    <3> TAKE m \in Msgs
    <3>1. \E c \in Clients, n \in Nat : PacketOf(m) = <<c, n>>
      BY MsgFacts
    <3> QED
      BY <3>1 DEF PacketOf
  <2> QED
    BY <2>1, <2>2 DEF TypeInv, TypeOK, ClientTypeOK
<1> USE DEF net, aiq, ctl, cli, fwd, rem, hist
<1>1. ASSUME UNCHANGED <<sent, delivered, cmsg>>,
             \A d \in Clients : Carrying(d)' => Carrying(d)
      PROVE  OrderInv'
  BY <1>1 DEF OrderInv, InOrder
<1>2. ASSUME NEW c \in Clients, RecvPacket(c) PROVE OrderInv'
  <2>1. cpc[c] = "recv" /\ FileOf(cfd[c]) = c
    <3>1. cpc[c] = "recv"
      BY <1>2 DEF RecvPacket
    <3>2. cfd[c] \in Fds /\ file[cfd[c]] = c
      BY <3>1 DEF QuietInv
    <3> QED
      BY <3>1, <3>2 DEF FileOf, NoFd, Fds
  <2>2. /\ sent' = [sent EXCEPT ![c] = @ + 1]
        /\ cmsg' = [cmsg EXCEPT ![c] = <<c, sent[c] + 1, "request">>]
    BY <1>2, <2>1, FileKinds DEF RecvPacket
  <2>3. delivered' = delivered /\ cpc' = [cpc EXCEPT ![c] = "mode"]
    BY <1>2 DEF RecvPacket, GoClient
  <2>4. /\ sent'[c] = sent[c] + 1 /\ sent[c] \in Nat
        /\ cmsg'[c] = <<c, sent'[c], "request">>
        /\ \A d \in Clients : d # c =>
             sent'[d] = sent[d] /\ cmsg'[d] = cmsg[d] /\ (Carrying(d)' <=> Carrying(d))
    BY <1>0, <2>2, <2>3 DEF Carrying
  <2>5. \A d \in Clients : Carrying(d)' => cmsg'[d] = <<d, sent'[d], "request">>
    BY <2>4 DEF OrderInv
  <2>6. \A d \in Clients, i \in DOMAIN delivered : delivered[i][1] = d =>
          /\ delivered[i][2] <= sent'[d]
          /\ Carrying(d)' => delivered[i][2] < sent'[d]
    <3> SUFFICES ASSUME NEW d \in Clients, NEW i \in DOMAIN delivered,
                        delivered[i][1] = d
                 PROVE  /\ delivered[i][2] <= sent'[d]
                        /\ Carrying(d)' => delivered[i][2] < sent'[d]
      OBVIOUS
    <3>1. /\ delivered[i][2] <= sent[d] /\ delivered[i][2] \in Nat
          /\ Carrying(d) => delivered[i][2] < sent[d]
      BY <1>0 DEF OrderInv
    <3>2. CASE d = c
      <4>1. delivered[i][2] < sent'[d]
        BY <2>4, <3>1, <3>2
      <4> QED
        BY <3>1, <4>1, <2>4, <3>2
    <3>3. CASE d # c
      BY <2>4, <3>1, <3>3
    <3> QED
      BY <3>2, <3>3
  <2> QED
    BY <2>3, <2>5, <2>6 DEF OrderInv, InOrder
<1>3. ASSUME NEW c \in Clients, SendOk(c) PROVE OrderInv'
  <2>1. Carrying(c) /\ ~ Carrying(c)' /\ \A d \in Clients : Carrying(d)' => Carrying(d)
    BY <1>0, <1>3 DEF SendOk, GoClient, Carrying
  <2>2. UNCHANGED <<sent, cmsg>> /\ cmsg[c] = <<c, sent[c], "request">>
    BY <1>3, <2>1 DEF SendOk, OrderInv
  <2>3. CASE delivered' = delivered
    BY <1>1, <2>1, <2>2, <2>3
  <2>4. CASE delivered' = Append(delivered, cmsg[c])
    <3> DEFINE n == Len(delivered)
    <3>1. /\ n \in Nat /\ DOMAIN delivered = 1 .. n /\ DOMAIN delivered' = 1 .. n + 1
          /\ delivered'[n + 1] = <<c, sent[c], "request">>
          /\ \A i \in 1 .. n : delivered'[i] = delivered[i]
      BY <1>0, <2>2, <2>4
    <3> HIDE DEF n
    <3>2. /\ delivered'[n + 1][1] = c /\ delivered'[n + 1][2] = sent[c]
          /\ sent[c] \in Nat
      BY <1>0, <3>1
    <3>3. \A d \in Clients, i \in 1 .. n : delivered[i][1] = d =>
            /\ delivered[i][2] <= sent[d]
            /\ Carrying(d) => delivered[i][2] < sent[d]
      BY <3>1 DEF OrderInv
    <3>4. \A d \in Clients, i \in DOMAIN delivered' : delivered'[i][1] = d =>
            /\ delivered'[i][2] <= sent[d]
            /\ Carrying(d)' => delivered'[i][2] < sent[d]
      <4> SUFFICES ASSUME NEW d \in Clients, NEW i \in DOMAIN delivered',
                          delivered'[i][1] = d
                   PROVE  /\ delivered'[i][2] <= sent[d]
                          /\ Carrying(d)' => delivered'[i][2] < sent[d]
        OBVIOUS
      <4>1. CASE i \in 1 .. n
        BY <2>1, <3>1, <3>3, <4>1
      <4>2. CASE i = n + 1
        BY <2>1, <3>2, <4>2
      <4> QED
        BY <3>1, <4>1, <4>2
    <3>5. ASSUME NEW i \in DOMAIN delivered', NEW j \in DOMAIN delivered', i < j,
                 delivered'[i][1] = delivered'[j][1]
          PROVE  delivered'[i][2] < delivered'[j][2]
      <4>1. i \in 1 .. n
        BY <3>1, <3>5
      <4>2. CASE j \in 1 .. n
        BY <3>1, <3>5, <4>1, <4>2 DEF OrderInv, InOrder
      <4>3. CASE j = n + 1
        <5>1. delivered[i][1] = c /\ delivered'[i] = delivered[i]
          BY <3>1, <3>2, <3>5, <4>1, <4>3
        <5> QED
          BY <2>1, <3>2, <3>3, <4>1, <4>3, <5>1
      <4> QED
        BY <3>1, <4>2, <4>3
    <3>6. InOrder'
      BY <3>5 DEF InOrder
    <3>7. \A d \in Clients : Carrying(d)' => cmsg'[d] = <<d, sent'[d], "request">>
      BY <2>1, <2>2 DEF OrderInv
    <3> QED
      BY <2>2, <3>4, <3>6, <3>7 DEF OrderInv
  <2> QED
    BY <1>3, <2>3, <2>4 DEF SendOk
<1>4. ASSUME NEW f \in Forwarders, FwdData(f) PROVE OrderInv'
  <2>1. frx[f] = 1 /\ 1 \notin Clients
    BY <1>4, FileKinds DEF FwdData, QuietInv
  <2>2. UNCHANGED <<sent, delivered, cmsg, cpc>>
    BY <1>4, <2>1 DEF FwdData
  <2> QED
    BY <1>1, <2>2 DEF Carrying
<1>5. ASSUME NEW c \in Clients, ReceiveThread(c) PROVE OrderInv'
  <2>1. CASE SpawnForwarder(c)
    BY <1>0, <1>1, <2>1 DEF SpawnForwarder, GoClient, GoFwd, Carrying
  <2>2. CASE ModeEnter(c) \/ ModeLeave(c)
    BY <1>0, <1>1, <2>2 DEF ModeEnter, ModeLeave, GoClient, Carrying
  <2>3. CASE RecvTimeout(c) \/ RecvEnd(c) \/ RecvClose(c) \/ SendSigpipe(c)
    BY <1>0, <1>1, <2>3 DEF RecvTimeout, RecvEnd, RecvClose, SendSigpipe,
       Sigpipe, GoClient, Carrying
  <2>4. CASE SendNoSocket(c) \/ SendFails(c) \/ SetupCheck(c)
    BY <1>0, <1>1, <2>4
    DEF SendNoSocket, SendFails, SetupCheck, GoClient, Carrying
  <2>5. CASE SetupSocket(c) \/ SetupConnect(c)
    BY <1>0, <1>1, <2>5 DEF SetupSocket, SetupConnect, GoClient, Carrying
  <2>6. CASE ConnectFailed(c) \/ ForwardFailed(c)
    BY <1>0, <1>1, <2>6 DEF ConnectFailed, ForwardFailed, GoClient, Carrying
  <2> QED
    BY <1>2, <1>3, <1>5, <2>1, <2>2, <2>3, <2>4, <2>5, <2>6 DEF ReceiveThread
<1>6. ASSUME NEW f \in Forwarders, ForwardThread(f) PROVE OrderInv'
  <2>1. CASE FwdStart(f) \/ FwdTest(f) \/ FwdCall(f) \/ FwdNothing(f)
    BY <1>1, <2>1 DEF FwdStart, FwdTest, FwdCall, FwdNothing, Carrying
  <2>2. CASE FwdError(f) \/ FwdHangup(f) \/ FwdSendFails(f) \/ FwdSendOk(f)
    BY <1>1, <2>2 DEF FwdError, FwdHangup, FwdSendFails, FwdSendOk, Carrying
  <2>3. CASE FwdSigpipe(f) \/ FwdLast(f)
    BY <1>1, <2>3 DEF FwdSigpipe, Sigpipe, FwdLast, Carrying
  <2> QED
    BY <1>4, <1>6, <2>1, <2>2, <2>3 DEF ForwardThread
<1>7. CASE MainThread
  BY <1>1, <1>7 DEF MainThread, Quit, Exit, ProcessEnds, Carrying
<1>8. ASSUME NEW c \in Clients, Accept(c) \/ ClientLeaves(c) PROVE OrderInv'
  BY <1>0, <1>1, <1>8 DEF Accept, ClientLeaves, GoClient, Carrying
<1>9. ASSUME NEW k \in Conns, AiqAnswers(k) PROVE OrderInv'
  BY <1>1, <1>9 DEF AiqAnswers, Carrying
<1>10. CASE AiqExits \/ AiqStarts \/ UNCHANGED vars
  BY <1>1, <1>10 DEF AiqExits, AiqStarts, vars, Carrying
<1> QED
  BY <1>5, <1>6, <1>7, <1>8, <1>9, <1>10 DEF Next, Outside

\* Without faults each client's packets reach the AIQ in the order it sent
\* them, however the receive threads and forwarders interleave.
THEOREM InOrderCorrect == ASSUME Quiet PROVE Spec => []InOrder
<1>1. Init => OrderInv
  <2> SUFFICES ASSUME Init PROVE OrderInv
    OBVIOUS
  <2>1. delivered = <<>> /\ DOMAIN <<>> = {}
    BY DEF Init
  <2> QED
    BY <2>1 DEF Init, OrderInv, InOrder, Carrying
<1>2. OrderInv => InOrder
  BY DEF OrderInv
<1> QED
  BY <1>1, <1>2, InitTypeInv, NextTypeInv, InitQuiet, NextQuiet, NextOrder, PTL
     DEF Spec
=============================================================================
