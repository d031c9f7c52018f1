------------------------------ MODULE TcpServer ------------------------------
(***************************************************************************)
(* The life of the server process around TCPServer: main opens the port,   *)
(* starts the accept thread and pauses; the accept thread starts a receive *)
(* thread per connection; a termination signal runs signal_handle on the   *)
(* main thread, on top of whatever main does, and SaveExit stops and joins *)
(* everything.                                                             *)
(*                                                                         *)
(* stack holds the activations of SaveExit on the main thread, innermost   *)
(* last: those of handlers, and one that main calls at its end.  A signal  *)
(* is blocked only while its own handler runs (sa_mask is empty), so the   *)
(* handler of another signal interrupts it.                                *)
(***************************************************************************)
EXTENDS Integers, Sequences, FiniteSets

CONSTANTS
  Clients,     \* connections
  Signals,     \* the termination signals that may arrive
  MaxSignals   \* how many arrive in all (bound)

ASSUME SignalsAssumption == "none" \notin Signals /\ MaxSignals \in Nat

VARIABLES
  quit,             \* the global of main
  quit_, exited_,   \* TCPServer
  sockfd,           \* "s" while it names the listening socket, "none" for -1
  listener,         \* the socket itself
  accept_thread_, recv_threads_, joined,
  mpc, stack,       \* main thread
  apc,              \* accept thread
  rpc,              \* receive threads
  mutex,            \* activation that holds RKAiqProtocol::mutex_; 0: free
  pending, arrived, \* signals
  closes,           \* history: how often the listening socket's number was closed
  kinds, calm,      \* history: the signals that arrived; FALSE: one arrived
                    \* before Process returned, or accept() failed
  alive             \* FALSE: std::terminate

srv  == <<quit_, exited_, sockfd, listener, closes>>
thrd == <<accept_thread_, recv_threads_, joined>>
sig  == <<pending, arrived, kinds, calm>>
vars == <<quit, srv, thrd, mpc, stack, apc, rpc, mutex, sig, alive>>

Frames == [sig : Signals \cup {"none"},
           at  : {"quit", "accept", "join", "receive", "rjoin", "close", "forget",
                  "lock", "unlock", "end"},
           i   : Nat]

TypeOK ==
  /\ quit \in BOOLEAN /\ quit_ \in BOOLEAN /\ exited_ \in BOOLEAN
  /\ sockfd \in {"none", "s"} /\ listener \in {"new", "open", "closed"}
  /\ accept_thread_ \in {"null", "joinable", "joined"}
  /\ recv_threads_ \in Seq(Clients) /\ joined \subseteq Clients
  /\ mpc \in {"process", "listen", "reset", "spawn", "assign", "loop", "call",
              "pause", "final", "ended"}
  /\ stack \in Seq(Frames)
  /\ apc \in {"unborn", "test", "accept", "close", "forget", "done"}
  /\ rpc \in [Clients -> {"away", "backlog", "test", "recv", "callback", "close",
                          "done"}]
  /\ mutex \in Nat
  /\ pending \subseteq Signals /\ arrived \in Nat /\ closes \in Nat
  /\ alive \in BOOLEAN /\ calm \in BOOLEAN /\ kinds \subseteq Signals

\* The signals have just been unblocked in main.
Init ==
  /\ quit = FALSE /\ quit_ = FALSE /\ exited_ = TRUE
  /\ sockfd = "none" /\ listener = "new"
  /\ accept_thread_ = "null" /\ recv_threads_ = <<>> /\ joined = {}
  /\ mpc = "process" /\ stack = <<>>
  /\ apc = "unborn"
  /\ rpc = [c \in Clients |-> "away"]
  /\ mutex = 0
  /\ pending = {} /\ arrived = 0
  /\ closes = 0
  /\ alive = TRUE
  /\ kinds = {} /\ calm = TRUE

\* close(sockfd); of -1 it does nothing.
CloseListener ==
  IF sockfd = "s"
    THEN /\ closes' = closes + 1
         /\ listener' = "closed"
    ELSE UNCHANGED <<closes, listener>>
-----------------------------------------------------------------------------
(* main, when no SaveExit is running on it.                                *)

MainAt(l) == mpc = l /\ stack = <<>>
GoMain(l) == mpc' = l /\ UNCHANGED stack

\* TCPServer::Process, up to socket().
ProcessSocket ==
  /\ MainAt("process")
  /\ \/ /\ sockfd' = "s" /\ listener' = "open" /\ exited_' = FALSE
        /\ GoMain("listen")
     \/ /\ exited_' = TRUE
        /\ UNCHANGED <<sockfd, listener>>
        /\ GoMain("loop")
  /\ UNCHANGED <<quit, quit_, closes, thrd, apc, rpc, mutex, sig, alive>>

\* setsockopt, bind and listen; each may fail, and leaves the socket open.
ProcessListen ==
  /\ MainAt("listen")
  /\ \/ sockfd = "s" /\ UNCHANGED exited_ /\ GoMain("reset")
     \/ exited_' = TRUE /\ GoMain("loop")
  /\ UNCHANGED <<quit, quit_, sockfd, listener, closes, thrd, apc, rpc, mutex,
                 sig, alive>>

\* quit_ is cleared, also when a handler has just set it.
ProcessReset ==
  /\ MainAt("reset")
  /\ quit_' = FALSE
  /\ GoMain("spawn")
  /\ UNCHANGED <<quit, exited_, sockfd, listener, closes, thrd, apc, rpc,
                 mutex, sig, alive>>

\* The accept thread runs before accept_thread_ is assigned.
ProcessSpawn ==
  /\ MainAt("spawn")
  /\ apc' = "test"
  /\ GoMain("assign")
  /\ UNCHANGED <<quit, srv, thrd, rpc, mutex, sig, alive>>

ProcessAssign ==
  /\ MainAt("assign")
  /\ accept_thread_' = "joinable"
  /\ GoMain("loop")
  /\ UNCHANGED <<quit, srv, recv_threads_, joined, apc, rpc, mutex, sig,
                 alive>>

\* The loop's test ...
MainLoop ==
  /\ MainAt("loop")
  /\ \/ /\ ~ quit /\ ~ exited_
        /\ GoMain("call")
     \/ /\ quit \/ exited_
        /\ mpc' = "final"
        /\ stack' = <<[sig |-> "none", at |-> "quit", i |-> 1]>>
  /\ UNCHANGED <<quit, srv, thrd, apc, rpc, mutex, sig, alive>>

\* ... and pause(), which a signal handled in between does not end.
MainPause ==
  /\ MainAt("call")
  /\ GoMain("pause")
  /\ UNCHANGED <<quit, srv, thrd, apc, rpc, mutex, sig, alive>>

MainEnds ==
  /\ MainAt("final")
  /\ GoMain("ended")
  /\ UNCHANGED <<quit, srv, thrd, apc, rpc, mutex, sig, alive>>
-----------------------------------------------------------------------------
(* signal_handle and SaveExit, on the main thread.                         *)

\* Variant: SA_NODEFER, a handler does not block its own signal.
HandlingNone == {}

\* The signals blocked because their handler runs.
Handling == {stack[n].sig : n \in DOMAIN stack}

SignalArrives(s) ==
  /\ arrived < MaxSignals /\ mpc # "ended"
  /\ pending' = pending \cup {s}
  /\ arrived' = arrived + 1
  /\ kinds' = kinds \cup {s}
  /\ calm' = (calm /\ mpc \in {"loop", "call", "pause", "final"})
  /\ UNCHANGED <<quit, srv, thrd, mpc, stack, apc, rpc, mutex, alive>>

\* The kernel prefers the main thread, which takes the signal between any two
\* steps and comes back from pause() when the handler returns.
HandleSignal(s) ==
  /\ s \in pending \ Handling /\ mpc # "ended"
  /\ pending' = pending \ {s}
  /\ quit' = TRUE
  /\ stack' = Append(stack, [sig |-> s, at |-> "quit", i |-> 1])
  /\ mpc' = IF mpc = "pause" THEN "loop" ELSE mpc
  /\ UNCHANGED <<srv, thrd, apc, rpc, mutex, arrived, kinds, calm, alive>>

Depth  == Len(stack)
Top    == stack[Depth]
TopAt(l) == stack # <<>> /\ Top.at = l
GoTop(l) == stack' = [stack EXCEPT ![Depth].at = l] /\ UNCHANGED mpc

\* An interrupted activation is inside join() too, of thread i of recv_threads_.
OuterJoins(at, i) == \E n \in 1 .. Depth - 1 : stack[n].at = at /\ stack[n].i = i

\* join() throws: the thread was joined meanwhile, or is being joined below.
Abort ==
  /\ alive' = FALSE
  /\ UNCHANGED <<quit, srv, thrd, mpc, stack, apc, rpc, mutex, sig>>

SaveQuit ==
  /\ TopAt("quit")
  /\ quit_' = TRUE
  /\ GoTop("accept")
  /\ UNCHANGED <<quit, exited_, sockfd, listener, closes, thrd, apc, rpc,
                 mutex, sig, alive>>

\* Variant: the accept thread is not waited for.
SaveTestAcceptSkips ==
  /\ TopAt("accept")
  /\ GoTop("receive")
  /\ UNCHANGED <<quit, srv, thrd, apc, rpc, mutex, sig, alive>>

SaveTestAccept ==
  /\ TopAt("accept")
  /\ GoTop(IF accept_thread_ = "joinable" THEN "join" ELSE "receive")
  /\ UNCHANGED <<quit, srv, thrd, apc, rpc, mutex, sig, alive>>

SaveJoinAccept ==
  /\ TopAt("join")
  /\ \/ /\ accept_thread_ = "joinable" /\ ~ OuterJoins("join", Top.i) /\ apc = "done"
        /\ accept_thread_' = "joined"
        /\ GoTop("receive")
        /\ UNCHANGED <<quit, srv, recv_threads_, joined, apc, rpc, mutex, sig,
                       alive>>
     \/ /\ accept_thread_ = "joined" \/ OuterJoins("join", Top.i)
        /\ Abort

\* Variant: the last thread of the vector is missed.
SaveTestReceiveMissesLast ==
  /\ TopAt("receive")
  /\ \/ Top.i >= Len(recv_threads_) /\ GoTop("close")
     \/ Top.i < Len(recv_threads_) /\ GoTop("rjoin")
  /\ UNCHANGED <<quit, srv, thrd, apc, rpc, mutex, sig, alive>>

SaveTestReceive ==
  /\ TopAt("receive")
  /\ \/ Top.i > Len(recv_threads_) /\ GoTop("close")
     \/ /\ Top.i <= Len(recv_threads_) /\ recv_threads_[Top.i] \notin joined
        /\ GoTop("rjoin")
     \/ /\ Top.i <= Len(recv_threads_) /\ recv_threads_[Top.i] \in joined
        /\ stack' = [stack EXCEPT ![Depth].i = @ + 1]
        /\ UNCHANGED mpc
  /\ UNCHANGED <<quit, srv, thrd, apc, rpc, mutex, sig, alive>>

SaveJoinReceive ==
  /\ TopAt("rjoin")
  /\ LET c == recv_threads_[Top.i] IN
     \/ /\ c \notin joined /\ ~ OuterJoins("rjoin", Top.i) /\ rpc[c] = "done"
        /\ joined' = joined \cup {c}
        /\ stack' = [stack EXCEPT ![Depth].at = "receive", ![Depth].i = @ + 1]
        /\ UNCHANGED <<quit, srv, accept_thread_, recv_threads_, mpc, apc, rpc,
                       mutex, sig, alive>>
     \/ /\ c \in joined \/ OuterJoins("rjoin", Top.i)
        /\ Abort

\* close(sockfd), after which a handler may come before ...
SaveClose ==
  /\ TopAt("close")
  /\ CloseListener
  /\ GoTop("forget")
  /\ UNCHANGED <<quit, quit_, exited_, sockfd, thrd, apc, rpc, mutex, sig, alive>>

\* ... sockfd = -1; main's own SaveExit returns to main.
SaveForget ==
  /\ TopAt("forget")
  /\ sockfd' = "none"
  /\ IF Top.sig = "none"
       THEN stack' = SubSeq(stack, 1, Depth - 1) /\ UNCHANGED mpc
       ELSE GoTop("lock")
  /\ UNCHANGED <<quit, quit_, exited_, listener, closes, thrd, apc, rpc, mutex,
                 sig, alive>>

\* RKAiqProtocol::Exit takes mutex_, which an interrupted Exit may hold.
ExitLock ==
  /\ TopAt("lock") /\ mutex = 0
  /\ mutex' = Depth
  /\ GoTop("unlock")
  /\ UNCHANGED <<quit, srv, thrd, apc, rpc, sig, alive>>

ExitUnlock ==
  /\ TopAt("unlock")
  /\ mutex' = 0
  /\ GoTop("end")
  /\ UNCHANGED <<quit, srv, thrd, apc, rpc, sig, alive>>

HandlerReturns ==
  /\ TopAt("end")
  /\ stack' = SubSeq(stack, 1, Depth - 1)
  /\ UNCHANGED <<quit, srv, thrd, mpc, apc, rpc, mutex, sig, alive>>
-----------------------------------------------------------------------------
(* TCPServer::Accepted.                                                    *)

AcceptTest ==
  /\ apc = "test"
  /\ apc' = IF quit_ THEN "close" ELSE "accept"
  /\ UNCHANGED <<quit, srv, thrd, mpc, stack, rpc, mutex, sig, alive>>

\* A connection gets its receive thread, and recv_threads_ the thread.
AcceptClient(c) ==
  /\ apc = "accept" /\ listener = "open" /\ rpc[c] = "backlog"
  /\ rpc' = [rpc EXCEPT ![c] = "test"]
  /\ recv_threads_' = Append(recv_threads_, c)
  /\ apc' = "test"
  /\ UNCHANGED <<quit, srv, accept_thread_, joined, mpc, stack, mutex, sig,
                 alive>>

\* SO_RCVTIMEO ran out, or the call failed: EMFILE, or EBADF when the handler
\* of an early signal has closed the socket.
AcceptNothing ==
  /\ apc = "accept"
  /\ \/ apc' = "test" /\ UNCHANGED calm
     \/ apc' = "close" /\ calm' = FALSE
  /\ UNCHANGED <<quit, srv, thrd, mpc, stack, rpc, mutex, pending, arrived,
                 kinds, alive>>

AcceptClose ==
  /\ apc = "close"
  /\ CloseListener
  /\ apc' = "forget"
  /\ UNCHANGED <<quit, quit_, exited_, sockfd, thrd, mpc, stack, rpc, mutex,
                 sig, alive>>

AcceptExit ==
  /\ apc = "forget"
  /\ sockfd' = "none"
  /\ exited_' = TRUE
  /\ apc' = "done"
  /\ UNCHANGED <<quit, quit_, listener, closes, thrd, mpc, stack, rpc, mutex,
                 sig, alive>>
-----------------------------------------------------------------------------
(* TCPServer::Recvieve, and the connections.                               *)

GoReceive(c, l) ==
  /\ rpc' = [rpc EXCEPT ![c] = l]
  /\ UNCHANGED <<quit, srv, thrd, mpc, stack, apc, mutex, sig, alive>>

\* Variant: the thread does not look at quit_.
ReceiveTestIgnoresQuit(c) == rpc[c] = "test" /\ GoReceive(c, "recv")

Connect(c)         == rpc[c] = "away" /\ listener = "open" /\ GoReceive(c, "backlog")
ReceiveTest(c) == rpc[c] = "test" /\ GoReceive(c, IF quit_ THEN "close" ELSE "recv")
\* recv() returns data, or times out after three seconds, or ends.
ReceiveReturns(c)  == rpc[c] = "recv" /\ \E l \in {"callback", "test", "close"} :
                                           GoReceive(c, l)
ReceiveCallback(c) == rpc[c] = "callback" /\ GoReceive(c, "test")
ReceiveClose(c)    == rpc[c] = "close" /\ GoReceive(c, "done")
-----------------------------------------------------------------------------
SaveExit ==
  \/ SaveQuit \/ SaveTestAccept \/ SaveJoinAccept
  \/ SaveTestReceive \/ SaveJoinReceive \/ SaveClose \/ SaveForget
  \/ ExitLock \/ ExitUnlock \/ HandlerReturns

Process ==
  \/ ProcessSocket \/ ProcessListen \/ ProcessReset \/ ProcessSpawn
  \/ ProcessAssign

MainThread == Process \/ MainLoop \/ MainPause \/ MainEnds \/ SaveExit

Accepted ==
  \/ AcceptTest \/ AcceptNothing \/ AcceptClose \/ AcceptExit
  \/ \E c \in Clients : AcceptClient(c)

Recvieve(c) ==
  \/ ReceiveTest(c) \/ ReceiveReturns(c) \/ ReceiveCallback(c) \/ ReceiveClose(c)

Next ==
  /\ alive /\ mpc # "ended"
  /\ \/ MainThread
     \/ Accepted
     \/ \E c \in Clients : Connect(c) \/ Recvieve(c)
     \/ \E s \in Signals : SignalArrives(s) \/ HandleSignal(s)

Spec == Init /\ [][Next]_vars

Running == alive /\ mpc # "ended"

\* The threads run, accept() and recv() time out, and the receive callback
\* returns; a pending signal is delivered.
Fairness ==
  /\ WF_vars(Running /\ MainThread)
  /\ WF_vars(Running /\ Accepted)
  /\ \A c \in Clients : WF_vars(Running /\ Recvieve(c))
  /\ \A s \in Signals : WF_vars(Running /\ HandleSignal(s))

FairSpec == Spec /\ Fairness
-----------------------------------------------------------------------------
(* Properties.                                                             *)

AllThreadsEnded ==
  /\ apc \in {"unborn", "done"}
  /\ \A c \in Clients : rpc[c] \in {"away", "backlog", "done"}

\* When main returns no accept or receive thread is left that could use the
\* globals it destroys, and no std::thread is still joinable, whose destructor
\* would abort: whatever signal handler interrupted whatever step of main.
NothingLeft ==
  mpc = "ended" =>
    /\ AllThreadsEnded
    /\ accept_thread_ # "joinable"
    /\ \A n \in DOMAIN recv_threads_ : recv_threads_[n] \in joined

Started == calm /\ Cardinality(kinds) <= 1

\* In a server that has started, with one kind of signal and an accept thread
\* that does not fail, the listening socket's number is closed once: the accept
\* thread has closed and forgotten it before any SaveExit comes to its own
\* close(), whichever handler interrupts which.  A second close() would hit a
\* number that may be in use again.  (Without an accept thread, after a Process
\* that failed, it may come: from a handler, inside main's own SaveExit.)
ListenerClosedOnce == Started /\ accept_thread_ # "null" => closes <= 1

\* Nor is a join entered twice in it: the handler does not interrupt itself,
\* and main's own SaveExit finds the threads joined.
NeverAborts == Started => alive

\* A signal stops the accept thread and every receive thread, also when
\* Process clears quit_ again afterwards or the threads start later.
Stops == quit ~> AllThreadsEnded \/ ~ alive
=============================================================================
