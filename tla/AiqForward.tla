----------------------------- MODULE AiqForward -----------------------------
(***************************************************************************)
(* The tuning path of the tool server: a receive thread per PC connection  *)
(* forwards packets to the AIQ process over one shared UNIX-domain socket  *)
(* (g_tcpClient), and detached forwarder threads carry the answers back.   *)
(*                                                                         *)
(* A descriptor is a number that names a file: close() frees the number,   *)
(* accept() and socket() take the lowest free one, and a thread that kept  *)
(* a closed number acts on whatever file has it by then.                   *)
(*                                                                         *)
(* Each call of DomainTCPClient is one step, but the check of Setup, its   *)
(* socket() and its connect() are three and Receive is two: there the code *)
(* may wait or read sock twice.  SIGPIPE is neither blocked nor ignored,   *)
(* so a send() to a peer that is gone may end the process.                 *)
(***************************************************************************)
EXTENDS Integers, Sequences, FiniteSets

CONSTANTS
  Clients,     \* PC connections; each is accepted at most once
  Forwarders,  \* threads MessageForward may start (bound)
  NoFile,      \* what a free descriptor names
  MaxFd,       \* size of the descriptor table (bound)
  MaxConns,    \* sockets Setup may create (bound)
  MaxMsgs,     \* packets each client sends (bound)
  MaxExits,    \* how often the AIQ process goes away (bound)
  Leavers,     \* clients that may disconnect
  MayQuit,     \* whether a termination signal may arrive
  AiqAtStart   \* whether the AIQ runs when main first calls Setup: a set

ASSUME ClientsAssumption == Leavers \subseteq Clients /\ Clients \cap Int = {}
ASSUME BoundsAssumption ==
  /\ {MaxFd, MaxConns, MaxExits} \subseteq Nat /\ MaxMsgs \in [Clients -> Nat]
  /\ MayQuit \in BOOLEAN
  /\ AiqAtStart \subseteq BOOLEAN
  /\ TRUE \in AiqAtStart => MaxFd > 0 /\ MaxConns > 0
ASSUME NoFileAssumption == NoFile \notin Clients \cup Int

VARIABLES
  file,             \* the descriptor table
  sock,             \* DomainTCPClient::sock; NoFd stands for -1
  conn,             \* state of each socket Setup created
  inbox, outbox,    \* requests the AIQ has, answers it has written, per conn
  aiqUp, exits,
  app_run_mode,     \* g_app_run_mode
  is_recv_running,
  mutex,            \* holder of RKAiqProtocol::mutex_
  cpc, cfd, cmsg, cerrno,         \* receive threads; errno is per thread
  fpc, ffd, frx, fbuf, ferrno,    \* forwarder threads
  peer, sent,       \* the remote end of each client
  mpc,              \* main thread
  alive,            \* the process has not ended
  delivered,        \* history: packets written to a live AIQ, in order
  answered          \* history: <<packet, client>> answers written to a client

net  == <<file, sock, conn, inbox, outbox>>
aiq  == <<aiqUp, exits>>
ctl  == <<app_run_mode, is_recv_running, mutex>>
cli  == <<cpc, cfd, cmsg, cerrno>>
fwd  == <<fpc, ffd, frx, fbuf, ferrno>>
rem  == <<peer, sent>>
hist == <<delivered, answered>>
vars == <<net, aiq, ctl, cli, fwd, rem, mpc, alive, hist>>

NoFd  == 0
Fds   == 1 .. MaxFd
Conns == 1 .. MaxConns
Packets  == UNION {{c} \X (1 .. MaxMsgs[c]) : c \in Clients}
Requests == {<<p[1], p[2], "request">> : p \in Packets}
Answers  == {<<p[1], p[2], "answer">> : p \in Packets}
Msgs     == Requests \cup Answers
NoMsg == <<>>
Free  == "free"        \* mutex_ not held

ClientPcs == {"idle", "recv", "mode", "linking", "send", "setup", "socket",
              "connect", "failed", "giveup", "spawn", "bye", "done"}
FwdPcs == {"unborn", "start", "test", "call", "wait", "tx", "hangup", "last",
           "done"}

NetTypeOK ==
  /\ file \in [Fds -> Clients \cup Conns \cup {NoFile}]
  /\ sock \in Fds \cup {NoFd}
  /\ conn \in [Conns -> {"new", "unconnected", "live", "reset", "eof"}]
  /\ inbox \in [Conns -> Seq(Msgs)]
  /\ outbox \in [Conns -> Seq(Msgs)]

ControlTypeOK ==
  /\ aiqUp \in BOOLEAN /\ exits \in Nat
  /\ app_run_mode \in {"INIT", "TUNRING"}
  /\ is_recv_running \in BOOLEAN
  /\ mutex \in Clients \cup {Free}
  /\ mpc \in {"run", "join", "finished"}
  /\ alive \in BOOLEAN

ClientTypeOK ==
  /\ cpc \in [Clients -> ClientPcs]
  /\ cfd \in [Clients -> Fds \cup {NoFd}]
  /\ cmsg \in [Clients -> Msgs \cup {NoMsg}]
  /\ cerrno \in [Clients -> {"EAGAIN", "other"}]
  /\ peer \in [Clients -> {"away", "up", "gone"}]
  /\ sent \in [Clients -> Nat]

ForwarderTypeOK ==
  /\ fpc \in [Forwarders -> FwdPcs]
  /\ ffd \in [Forwarders -> Fds \cup {NoFd}]
  /\ frx \in [Forwarders -> Clients \cup Conns \cup {NoFile}]
  /\ fbuf \in [Forwarders -> Msgs \cup {NoMsg}]
  /\ ferrno \in [Forwarders -> {"EAGAIN", "other"}]

HistoryTypeOK ==
  /\ delivered \in Seq(Msgs)
  /\ answered \subseteq Msgs \X Clients

TypeOK == NetTypeOK /\ ControlTypeOK /\ ClientTypeOK /\ ForwarderTypeOK /\ HistoryTypeOK

\* main has called Setup once (rkaiq_tool_server.cpp:355): sock is connected
\* when the AIQ was there, -1 otherwise.
Init ==
  /\ aiqUp \in AiqAtStart
  /\ \/ /\ aiqUp
        /\ sock = 1
        /\ file = [fd \in Fds |-> IF fd = 1 THEN 1 ELSE NoFile]
        /\ conn = [k \in Conns |-> IF k = 1 THEN "live" ELSE "new"]
     \/ /\ ~ aiqUp
        /\ sock = NoFd
        /\ file = [fd \in Fds |-> NoFile]
        /\ conn = [k \in Conns |-> "new"]
  /\ inbox = [k \in Conns |-> <<>>]
  /\ outbox = [k \in Conns |-> <<>>]
  /\ exits = 0
  /\ app_run_mode = "TUNRING"
  /\ is_recv_running = FALSE
  /\ mutex = Free
  /\ cpc = [c \in Clients |-> "idle"]
  /\ cfd = [c \in Clients |-> NoFd]
  /\ cmsg = [c \in Clients |-> NoMsg]
  /\ cerrno = [c \in Clients |-> "other"]
  /\ fpc = [f \in Forwarders |-> "unborn"]
  /\ ffd = [f \in Forwarders |-> NoFd]
  /\ frx = [f \in Forwarders |-> NoFile]
  /\ fbuf = [f \in Forwarders |-> NoMsg]
  /\ ferrno = [f \in Forwarders |-> "other"]
  /\ peer = [c \in Clients |-> "away"]
  /\ sent = [c \in Clients |-> 0]
  /\ mpc = "run"
  /\ alive = TRUE
  /\ delivered = <<>>
  /\ answered = {}
-----------------------------------------------------------------------------
(* Descriptors and the calls of DomainTCPClient.                           *)

FreeFds == {fd \in Fds : file[fd] = NoFile}
LowestFree(fd) == fd \in FreeFds /\ \A g \in FreeFds : fd <= g

\* What a descriptor number names now; NoFd and a free number name nothing.
FileOf(fd) == IF fd = NoFd THEN NoFile ELSE file[fd]

Closed(fd) == [g \in Fds |-> IF g = fd THEN NoFile ELSE file[g]]

\* DomainTCPClient::Close
Close == file' = Closed(sock) /\ sock' = NoFd

GoClient(c, l) == cpc' = [cpc EXCEPT ![c] = l]
GoFwd(f, l)    == fpc' = [fpc EXCEPT ![f] = l]

\* A write to a peer that is gone ends the process (SIGPIPE).
Sigpipe ==
  /\ alive' = FALSE
  /\ UNCHANGED <<net, aiq, ctl, cli, fwd, rem, mpc, hist>>
-----------------------------------------------------------------------------
(* Receive threads: TCPServer::Recvieve and RKAiqProtocol::MessageForward. *)

\* accept() and the new receive thread.
Accept(c) ==
  /\ mpc = "run" /\ cpc[c] = "idle"
  /\ \E fd \in Fds :
       /\ LowestFree(fd)
       /\ file' = [file EXCEPT ![fd] = c]
       /\ cfd' = [cfd EXCEPT ![c] = fd]
  /\ peer' = [peer EXCEPT ![c] = "up"]
  /\ GoClient(c, "recv")
  /\ UNCHANGED <<sock, conn, inbox, outbox, aiq, ctl, cmsg, cerrno, fwd, sent,
                 mpc, alive, hist>>

\* Variant: the packet stays in the stream, as with MSG_PEEK.
RecvPacketPeeks(c) ==
  /\ cpc[c] = "recv" /\ mpc = "run"
  /\ \E d \in Clients :
       /\ FileOf(cfd[c]) = d
       /\ peer[d] = "up" /\ sent[d] < MaxMsgs[d]
       /\ cmsg' = [cmsg EXCEPT ![c] = <<d, sent[d] + 1, "request">>]
  /\ GoClient(c, "mode")
  /\ UNCHANGED <<net, aiq, ctl, cfd, cerrno, fwd, rem, mpc, alive, hist>>

\* A packet arrives on the file the thread's number names: normally the
\* client's own, after a foreign close possibly another one.
RecvPacket(c) ==
  /\ cpc[c] = "recv" /\ mpc = "run"
  /\ \/ \E d \in Clients :
          /\ FileOf(cfd[c]) = d
          /\ peer[d] = "up" /\ sent[d] < MaxMsgs[d]
          /\ sent' = [sent EXCEPT ![d] = @ + 1]
          /\ cmsg' = [cmsg EXCEPT ![c] = <<d, sent[d] + 1, "request">>]
          /\ UNCHANGED outbox
     \/ \E k \in Conns :
          /\ FileOf(cfd[c]) = k
          /\ outbox[k] # <<>>
          /\ cmsg' = [cmsg EXCEPT ![c] = Head(outbox[k])]
          /\ outbox' = [outbox EXCEPT ![k] = Tail(@)]
          /\ UNCHANGED sent
  /\ GoClient(c, "mode")
  /\ UNCHANGED <<file, sock, conn, inbox, aiq, ctl, cfd, cerrno, fwd, peer,
                 mpc, alive, hist>>

\* Variant: a timeout passes for data, and the old buffer is handled again.
RecvTimeoutAsData(c) ==
  /\ cpc[c] = "recv" /\ mpc = "run" /\ FileOf(cfd[c]) # NoFile /\ cmsg[c] # NoMsg
  /\ GoClient(c, "mode")
  /\ UNCHANGED <<net, aiq, ctl, cfd, cmsg, cerrno, fwd, rem, mpc, alive, hist>>

\* SO_RCVTIMEO ran out.
RecvTimeout(c) ==
  /\ cpc[c] = "recv" /\ mpc = "run" /\ FileOf(cfd[c]) # NoFile
  /\ cerrno' = [cerrno EXCEPT ![c] = "EAGAIN"]
  /\ UNCHANGED <<net, aiq, ctl, cpc, cfd, cmsg, fwd, rem, mpc, alive, hist>>

\* quit_, end of stream, or an error such as EBADF leave the loop.
RecvEnd(c) ==
  /\ cpc[c] = "recv"
  /\ \/ mpc # "run"
     \/ FileOf(cfd[c]) = NoFile
     \/ FileOf(cfd[c]) \in {d \in Clients : peer[d] = "gone"}
     \/ FileOf(cfd[c]) \in {k \in Conns : conn[k] # "live" /\ outbox[k] = <<>>}
  /\ GoClient(c, "bye")
  /\ UNCHANGED <<net, aiq, ctl, cfd, cmsg, cerrno, fwd, rem, mpc, alive, hist>>

\* close(cilent_socket): by number, whoever owns it now.
RecvClose(c) ==
  /\ cpc[c] = "bye"
  /\ file' = Closed(cfd[c])
  /\ GoClient(c, "done")
  /\ UNCHANGED <<sock, conn, inbox, outbox, aiq, ctl, cfd, cmsg, cerrno, fwd,
                 rem, mpc, alive, hist>>

\* DoChangeAppMode(APP_RUN_STATUS_TUNRING), which cannot fail here: a failed
\* LinkToIsp sets INIT and goes on, StartApp returns 0.
ModeEnter(c) ==
  /\ cpc[c] = "mode" /\ mutex = Free
  /\ IF app_run_mode = "TUNRING"
       THEN GoClient(c, "send") /\ UNCHANGED mutex
       ELSE GoClient(c, "linking") /\ mutex' = c
  /\ UNCHANGED <<net, aiq, app_run_mode, is_recv_running, cfd, cmsg, cerrno,
                 fwd, rem, mpc, alive, hist>>

ModeLeave(c) ==
  /\ cpc[c] = "linking"
  /\ app_run_mode' = "TUNRING"
  /\ mutex' = Free
  /\ \E e \in {cerrno[c], "other"} : cerrno' = [cerrno EXCEPT ![c] = e]
  /\ GoClient(c, "send")
  /\ UNCHANGED <<net, aiq, is_recv_running, cfd, cmsg, fwd, rem, mpc, alive,
                 hist>>

\* g_tcpClient.Send with a socket that takes the packet.  The file may be
\* another client's when the number was closed behind g_tcpClient's back.
SendOk(c) ==
  /\ cpc[c] = "send"
  /\ \/ \E k \in Conns :
          /\ FileOf(sock) = k /\ conn[k] = "live"
          /\ inbox' = [inbox EXCEPT ![k] = Append(@, cmsg[c])]
          /\ delivered' = Append(delivered, cmsg[c])
     \/ /\ FileOf(sock) \in Clients
        /\ UNCHANGED <<inbox, delivered>>
  /\ GoClient(c, "spawn")
  /\ UNCHANGED <<file, sock, conn, outbox, aiq, ctl, cfd, cmsg, cerrno, fwd,
                 rem, mpc, alive, answered>>

SendSigpipe(c) ==
  /\ cpc[c] = "send"
  /\ \/ FileOf(sock) \in {k \in Conns : conn[k] \in {"reset", "eof"}}
     \/ FileOf(sock) \in {d \in Clients : peer[d] = "gone"}
  /\ Sigpipe

\* sock = -1: Send returns -1 and leaves errno alone, so an old EAGAIN passes
\* for "try again" and the packet is dropped without a reconnection.
SendNoSocket(c) ==
  /\ cpc[c] = "send" /\ sock = NoFd
  /\ GoClient(c, IF cerrno[c] = "EAGAIN" THEN "spawn" ELSE "setup")
  /\ UNCHANGED <<net, aiq, ctl, cfd, cmsg, cerrno, fwd, rem, mpc, alive, hist>>

\* EBADF, ENOTCONN or ECONNRESET: Send closes the socket.
SendFails(c) ==
  /\ cpc[c] = "send" /\ sock # NoFd
  /\ \/ FileOf(sock) = NoFile
     \/ FileOf(sock) \in {k \in Conns : conn[k] = "unconnected"}
     \/ FileOf(sock) \in {d \in Clients : peer[d] = "gone"}
  /\ Close
  /\ cerrno' = [cerrno EXCEPT ![c] = "other"]
  /\ GoClient(c, "setup")
  /\ UNCHANGED <<conn, inbox, outbox, aiq, ctl, cfd, cmsg, fwd, rem, mpc,
                 alive, hist>>

\* ConnectAiq: DomainTCPClient::Setup tests sock ...
SetupCheck(c) ==
  /\ cpc[c] = "setup"
  /\ GoClient(c, IF sock = NoFd THEN "socket" ELSE "connect")
  /\ UNCHANGED <<net, aiq, ctl, cfd, cmsg, cerrno, fwd, rem, mpc, alive, hist>>

\* ... creates a socket ...
SetupSocket(c) ==
  /\ cpc[c] = "socket"
  /\ \/ \E k \in Conns, fd \in Fds :
          /\ conn[k] = "new" /\ \A j \in Conns : conn[j] = "new" => k <= j
          /\ LowestFree(fd)
          /\ conn' = [conn EXCEPT ![k] = "unconnected"]
          /\ file' = [file EXCEPT ![fd] = k]
          /\ sock' = fd
          /\ GoClient(c, "connect")
     \/ /\ FreeFds = {}
        /\ sock' = NoFd
        /\ GoClient(c, "failed")
        /\ UNCHANGED <<conn, file>>
  /\ UNCHANGED <<inbox, outbox, aiq, ctl, cfd, cmsg, cerrno, fwd, rem, mpc,
                 alive, hist>>

\* ... and connects sock, whatever it is by now.  Connecting one that is
\* connected already fails like a missing AIQ does: the socket is closed.
SetupConnect(c) ==
  /\ cpc[c] = "connect"
  /\ \/ \E k \in Conns :
          /\ FileOf(sock) = k /\ conn[k] = "unconnected" /\ aiqUp
          /\ conn' = [conn EXCEPT ![k] = "live"]
          /\ GoClient(c, "spawn")
          /\ UNCHANGED <<file, sock>>
     \/ /\ ~ (aiqUp /\ FileOf(sock) \in {k \in Conns : conn[k] = "unconnected"})
        /\ Close
        /\ GoClient(c, "failed")
        /\ UNCHANGED conn
  /\ UNCHANGED <<inbox, outbox, aiq, ctl, cfd, cmsg, cerrno, fwd, rem, mpc,
                 alive, hist>>

\* ConnectAiq closes what Setup has closed already, or another thread's socket.
ConnectFailed(c) ==
  /\ cpc[c] = "failed"
  /\ Close
  /\ GoClient(c, "giveup")
  /\ UNCHANGED <<conn, inbox, outbox, aiq, ctl, cfd, cmsg, cerrno, fwd, rem,
                 mpc, alive, hist>>

\* MessageForward gives up: it closes both sockets and clears the flag, all
\* without the mutex, and the receive loop goes on with the closed number.
ForwardFailed(c) ==
  /\ cpc[c] = "giveup"
  /\ file' = [fd \in Fds |-> IF fd \in {sock, cfd[c]} THEN NoFile ELSE file[fd]]
  /\ sock' = NoFd
  /\ app_run_mode' = "INIT"
  /\ is_recv_running' = FALSE
  /\ GoClient(c, "recv")
  /\ UNCHANGED <<conn, inbox, outbox, aiq, mutex, cfd, cmsg, cerrno, fwd, rem,
                 mpc, alive, hist>>

\* The end of MessageForward: a forwarder is started unless one is running.
\* The flag is set by the new thread, not here.
SpawnForwarder(c) ==
  /\ cpc[c] = "spawn" /\ mutex = Free
  /\ \/ /\ is_recv_running
        /\ UNCHANGED <<fpc, ffd>>
     \/ /\ ~ is_recv_running
        /\ \E f \in Forwarders :
             /\ fpc[f] = "unborn"
             /\ GoFwd(f, "start")
             /\ ffd' = [ffd EXCEPT ![f] = cfd[c]]
  /\ GoClient(c, "recv")
  /\ UNCHANGED <<net, aiq, ctl, cfd, cmsg, cerrno, frx, fbuf, ferrno, rem, mpc,
                 alive, hist>>
-----------------------------------------------------------------------------
(* Forwarder threads: RKAiqProtocol::doMessageForward.                     *)

FwdStart(f) ==
  /\ fpc[f] = "start"
  /\ is_recv_running' = TRUE
  /\ GoFwd(f, "test")
  /\ UNCHANGED <<net, aiq, app_run_mode, mutex, cli, ffd, frx, fbuf, ferrno,
                 rem, mpc, alive, hist>>

FwdTest(f) ==
  /\ fpc[f] = "test"
  /\ GoFwd(f, IF is_recv_running THEN "call" ELSE "last")
  /\ UNCHANGED <<net, aiq, ctl, cli, ffd, frx, fbuf, ferrno, rem, mpc, alive,
                 hist>>

\* DomainTCPClient::Receive: with sock = -1 it returns -1 and leaves errno
\* alone; an old EAGAIN keeps the loop going.
FwdCall(f) ==
  /\ fpc[f] = "call"
  /\ \/ /\ sock # NoFd
        /\ frx' = [frx EXCEPT ![f] = FileOf(sock)]
        /\ GoFwd(f, "wait")
     \/ /\ sock = NoFd
        /\ GoFwd(f, IF ferrno[f] = "EAGAIN" THEN "test" ELSE "hangup")
        /\ UNCHANGED frx
  /\ UNCHANGED <<net, aiq, ctl, cli, ffd, fbuf, ferrno, rem, mpc, alive, hist>>

\* recv() returns data of the file it was called on.
FwdData(f) ==
  /\ fpc[f] = "wait"
  /\ \/ \E k \in Conns :
          /\ frx[f] = k /\ outbox[k] # <<>>
          /\ fbuf' = [fbuf EXCEPT ![f] = Head(outbox[k])]
          /\ outbox' = [outbox EXCEPT ![k] = Tail(@)]
          /\ UNCHANGED sent
     \/ \E d \in Clients :
          /\ frx[f] = d /\ peer[d] = "up" /\ sent[d] < MaxMsgs[d]
          /\ sent' = [sent EXCEPT ![d] = @ + 1]
          /\ fbuf' = [fbuf EXCEPT ![f] = <<d, sent[d] + 1, "request">>]
          /\ UNCHANGED outbox
  /\ GoFwd(f, "tx")
  /\ UNCHANGED <<file, sock, conn, inbox, aiq, ctl, cli, ffd, frx, ferrno,
                 peer, mpc, alive, hist>>

\* Variants: a timeout ends the thread, or passes for a broken connection.
FwdTimeoutEnds(f) ==
  /\ fpc[f] = "wait" /\ frx[f] \in {k \in Conns : outbox[k] = <<>>}
  /\ GoFwd(f, "last")
  /\ UNCHANGED <<net, aiq, ctl, cli, ffd, frx, fbuf, ferrno, rem, mpc, alive,
                 hist>>

FwdTimeoutHangsUp(f) ==
  /\ fpc[f] = "wait" /\ frx[f] \in {k \in Conns : outbox[k] = <<>>}
  /\ GoFwd(f, "hangup")
  /\ UNCHANGED <<net, aiq, ctl, cli, ffd, frx, fbuf, ferrno, rem, mpc, alive,
                 hist>>

\* recv() times out, or returns 0 because the peer is gone: the loop goes on.
FwdNothing(f) ==
  /\ fpc[f] = "wait"
  /\ \/ /\ \/ frx[f] \in {k \in Conns : conn[k] = "live" /\ outbox[k] = <<>>}
           \/ frx[f] \in {d \in Clients : peer[d] = "up"}
        /\ ferrno' = [ferrno EXCEPT ![f] = "EAGAIN"]
     \/ /\ \/ frx[f] \in {k \in Conns : conn[k] = "eof" /\ outbox[k] = <<>>}
           \/ frx[f] \in {d \in Clients : peer[d] = "gone"}
        /\ UNCHANGED ferrno
  /\ GoFwd(f, "test")
  /\ UNCHANGED <<net, aiq, ctl, cli, ffd, frx, fbuf, rem, mpc, alive, hist>>

\* recv() fails (ECONNRESET once, then end of stream; EINVAL; EBADF): Receive
\* closes the socket g_tcpClient holds now.
FwdError(f) ==
  /\ fpc[f] = "wait"
  /\ \/ \E k \in Conns :
          /\ frx[f] = k /\ outbox[k] = <<>>
          /\ conn[k] \in {"reset", "unconnected"}
          /\ conn' = [conn EXCEPT ![k] = IF @ = "reset" THEN "eof" ELSE @]
     \/ frx[f] = NoFile /\ UNCHANGED conn
  /\ Close
  /\ ferrno' = [ferrno EXCEPT ![f] = "other"]
  /\ GoFwd(f, "hangup")
  /\ UNCHANGED <<inbox, outbox, aiq, ctl, cli, ffd, frx, fbuf, rem, mpc, alive,
                 hist>>

\* g_tcpClient.Close() and close(sockfd).
FwdHangup(f) ==
  /\ fpc[f] = "hangup"
  /\ file' = [fd \in Fds |-> IF fd \in {sock, ffd[f]} THEN NoFile ELSE file[fd]]
  /\ sock' = NoFd
  /\ GoFwd(f, "last")
  /\ UNCHANGED <<conn, inbox, outbox, aiq, ctl, cli, ffd, frx, fbuf, ferrno,
                 rem, mpc, alive, hist>>

\* send() of the answer to the number the forwarder was given.
FwdSendOk(f) ==
  /\ fpc[f] = "tx"
  /\ \/ \E d \in Clients :
          /\ FileOf(ffd[f]) = d
          /\ answered' = answered \cup {<<fbuf[f], d>>}
          /\ UNCHANGED inbox
     \/ \E k \in Conns :
          /\ FileOf(ffd[f]) = k /\ conn[k] = "live"
          /\ inbox' = [inbox EXCEPT ![k] = Append(@, fbuf[f])]
          /\ UNCHANGED answered
  /\ GoFwd(f, "test")
  /\ UNCHANGED <<file, sock, conn, outbox, aiq, ctl, cli, ffd, frx, fbuf,
                 ferrno, rem, mpc, alive, delivered>>

FwdSendFails(f) ==
  /\ fpc[f] = "tx"
  /\ \/ FileOf(ffd[f]) = NoFile
     \/ FileOf(ffd[f]) \in {d \in Clients : peer[d] = "gone"}
     \/ FileOf(ffd[f]) \in {k \in Conns : conn[k] = "unconnected"}
  /\ file' = Closed(ffd[f])
  /\ GoFwd(f, "last")
  /\ UNCHANGED <<sock, conn, inbox, outbox, aiq, ctl, cli, ffd, frx, fbuf,
                 ferrno, rem, mpc, alive, hist>>

FwdSigpipe(f) ==
  /\ fpc[f] = "tx"
  /\ \/ FileOf(ffd[f]) \in {d \in Clients : peer[d] = "gone"}
     \/ FileOf(ffd[f]) \in {k \in Conns : conn[k] \in {"reset", "eof"}}
  /\ Sigpipe

\* Variant: the flag is not cleared.
FwdLastKeepsFlag(f) ==
  /\ fpc[f] = "last" /\ mutex = Free
  /\ GoFwd(f, "done")
  /\ UNCHANGED <<net, aiq, ctl, cli, ffd, frx, fbuf, ferrno, rem, mpc, alive,
                 hist>>

\* The thread's last act, on every path, is to clear the flag under the mutex.
FwdLast(f) ==
  /\ fpc[f] = "last" /\ mutex = Free
  /\ is_recv_running' = FALSE
  /\ GoFwd(f, "done")
  /\ UNCHANGED <<net, aiq, app_run_mode, mutex, cli, ffd, frx, fbuf, ferrno,
                 rem, mpc, alive, hist>>
-----------------------------------------------------------------------------
(* The signal handler: SaveExit joins the receive threads, then Exit.      *)

Quit ==
  /\ MayQuit /\ mpc = "run"
  /\ mpc' = "join"
  /\ UNCHANGED <<net, aiq, ctl, cli, fwd, rem, alive, hist>>

Exit ==
  /\ mpc = "join" /\ mutex = Free
  /\ \A c \in Clients : cpc[c] \in {"idle", "done"}
  /\ is_recv_running' = FALSE
  /\ mpc' = "finished"
  /\ UNCHANGED <<net, aiq, app_run_mode, mutex, cli, fwd, rem, alive, hist>>

\* main returns and takes the detached threads with it.
ProcessEnds ==
  /\ mpc = "finished"
  /\ alive' = FALSE
  /\ UNCHANGED <<net, aiq, ctl, cli, fwd, rem, mpc, hist>>
-----------------------------------------------------------------------------
(* The outside: the AIQ process and the PCs.                               *)

AiqAnswers(k) ==
  /\ conn[k] = "live" /\ inbox[k] # <<>>
  /\ inbox' = [inbox EXCEPT ![k] = Tail(@)]
  /\ outbox' = LET m == Head(inbox[k]) IN
       IF m \in Requests
         THEN [outbox EXCEPT ![k] = Append(@, <<m[1], m[2], "answer">>)]
         ELSE outbox
  /\ UNCHANGED <<file, sock, conn, aiq, ctl, cli, fwd, rem, mpc, alive, hist>>

\* Unread requests make the kernel answer the next recv() with ECONNRESET.
AiqExits ==
  /\ aiqUp /\ exits < MaxExits
  /\ aiqUp' = FALSE
  /\ exits' = exits + 1
  /\ \E unread \in SUBSET {k \in Conns : conn[k] = "live" /\ inbox[k] # <<>>} :
       conn' = [k \in Conns |-> IF conn[k] # "live" THEN conn[k]
                                ELSE IF k \in unread THEN "reset" ELSE "eof"]
  /\ inbox' = [k \in Conns |-> <<>>]
  /\ UNCHANGED <<file, sock, outbox, ctl, cli, fwd, rem, mpc, alive, hist>>

AiqStarts ==
  /\ ~ aiqUp
  /\ aiqUp' = TRUE
  /\ UNCHANGED <<net, exits, ctl, cli, fwd, rem, mpc, alive, hist>>

ClientLeaves(c) ==
  /\ c \in Leavers /\ peer[c] = "up"
  /\ peer' = [peer EXCEPT ![c] = "gone"]
  /\ UNCHANGED <<net, aiq, ctl, cli, fwd, sent, mpc, alive, hist>>
-----------------------------------------------------------------------------
ReceiveThread(c) ==
  \/ RecvPacket(c) \/ RecvTimeout(c) \/ RecvEnd(c) \/ RecvClose(c)
  \/ ModeEnter(c) \/ ModeLeave(c)
  \/ SendOk(c) \/ SendSigpipe(c) \/ SendNoSocket(c) \/ SendFails(c)
  \/ SetupCheck(c) \/ SetupSocket(c) \/ SetupConnect(c)
  \/ ConnectFailed(c) \/ ForwardFailed(c) \/ SpawnForwarder(c)

ForwardThread(f) ==
  \/ FwdStart(f) \/ FwdTest(f) \/ FwdCall(f)
  \/ FwdData(f) \/ FwdNothing(f) \/ FwdError(f) \/ FwdHangup(f)
  \/ FwdSendOk(f) \/ FwdSendFails(f) \/ FwdSigpipe(f) \/ FwdLast(f)

MainThread == Quit \/ Exit \/ ProcessEnds

Outside ==
  \/ \E c \in Clients : Accept(c) \/ ClientLeaves(c)
  \/ \E k \in Conns : AiqAnswers(k)
  \/ AiqExits \/ AiqStarts

Next ==
  /\ alive
  /\ \/ \E c \in Clients : ReceiveThread(c)
     \/ \E f \in Forwarders : ForwardThread(f)
     \/ MainThread
     \/ Outside

Spec == Init /\ [][Next]_vars

\* The threads run; the AIQ, when it is there, answers what it was sent.  No
\* fairness for packets, timeouts of Recvieve, connections, exits and signals.
Fairness ==
  /\ \A c \in Clients :
       WF_vars(alive /\ cpc[c] # "recv" /\ ReceiveThread(c))
  /\ \A f \in Forwarders : WF_vars(alive /\ ForwardThread(f))
  /\ \A k \in Conns : WF_vars(alive /\ AiqAnswers(k))

FairSpec == Spec /\ Fairness
-----------------------------------------------------------------------------
(* Properties.                                                             *)

Forwarding == {f \in Forwarders : fpc[f] \notin {"unborn", "start", "done"}}

\* is_recv_running never outlives the forwarders: as long as it is set some
\* forwarder is in its loop and will clear it, so MessageForward's test of the
\* flag never leaves the AIQ's answers without a reader for good.
FlagHasForwarder == is_recv_running => Forwarding # {}

\* A packet is written to the AIQ at most once, through reconnections, stale
\* descriptors and any number of receive threads: MessageForward does not
\* resend after ConnectAiq.
NoDuplicate ==
  \A i, j \in DOMAIN delivered : i # j => delivered[i] # delivered[j]

\* The packets of one client reach the AIQ in the order it sent them.
InOrder ==
  \A i, j \in DOMAIN delivered :
    i < j /\ delivered[i][1] = delivered[j][1] => delivered[i][2] < delivered[j][2]

\* While its thread runs, a client's number names that client's socket: no
\* close() by a forwarder or a second close() took it away.
OwnDescriptor ==
  \A c \in Clients : cpc[c] \notin {"idle", "done"} => FileOf(cfd[c]) = c

\* A packet the AIQ received is answered to some client, however many
\* forwarders the race on is_recv_running started.
Answered ==
  \A m \in Requests :
    (\E i \in DOMAIN delivered : delivered[i] = m)
      ~> \E d \in Clients : <<<<m[1], m[2], "answer">>, d>> \in answered
=============================================================================
