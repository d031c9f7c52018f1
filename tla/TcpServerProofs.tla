--------------------------- MODULE TcpServerProofs ---------------------------
(***************************************************************************)
(* What is proved about TcpServer for any number of connections, kinds of  *)
(* signals and signals: type correctness; that main returns only when      *)
(* every thread has ended and is joined, whatever handler interrupted      *)
(* whatever step; and that a server which had started, under one kind of   *)
(* signal, closes its listening socket once (if it has an accept thread)   *)
(* and joins no thread twice.                                              *)
(***************************************************************************)
EXTENDS TcpServer, FiniteSetTheorems, SequenceTheorems, TLAPS

Labels == {"quit", "accept", "join", "receive", "rjoin", "close", "forget",
           "lock", "unlock", "end"}

(* The stack after a step of the activation on top, and after its return.  *)
LEMMA StackTop ==
  ASSUME TypeOK, stack # <<>>
  PROVE  /\ Depth \in Nat /\ Depth >= 1 /\ Top \in Frames
         /\ \A n \in 1 .. Depth : stack[n] \in Frames
  BY DEF TypeOK, Depth, Top

(* A step of the activation on top replaces its frame and no other.        *)
LEMMA StackMoves ==
  ASSUME TypeOK, stack # <<>>, NEW f \in Frames,
         stack' = [stack EXCEPT ![Depth] = f]
  PROVE  /\ stack' \in Seq(Frames) /\ Depth' = Depth /\ stack' # <<>>
         /\ stack'[Depth] = f
         /\ \A n \in 1 .. Depth - 1 : stack'[n] = stack[n]
<1>1. stack \in Seq(Frames) /\ Depth \in 1 .. Len(stack)
  BY StackTop DEF TypeOK, Depth
<1>2. stack' \in Seq(Frames) /\ Len(stack') = Len(stack)
  BY <1>1, ExceptSeq
<1>3. stack'[Depth] = f /\ \A n \in 1 .. Depth - 1 : stack'[n] = stack[n]
  BY <1>1
<1>4. stack' # <<>>
  BY <1>1, <1>2
<1>5. Depth' = Depth
  BY <1>2 DEF Depth
<1> QED
  BY <1>2, <1>3, <1>4, <1>5

(* When the activation on top returns the others stay as they are.         *)
LEMMA StackReturns ==
  ASSUME TypeOK, stack # <<>>, stack' = SubSeq(stack, 1, Depth - 1)
  PROVE  /\ stack' \in Seq(Frames) /\ Depth' = Depth - 1
         /\ \A n \in 1 .. Depth - 1 : stack'[n] = stack[n]
<1>1. /\ stack \in Seq(Frames) /\ Depth = Len(stack) /\ Depth \in Nat /\ Depth >= 1
      /\ \A n \in 1 .. Depth : stack[n] \in Frames
  BY StackTop DEF TypeOK, Depth
<1>2. \A n \in 1 .. Depth - 1 : stack[n] \in Frames
  BY <1>1
<1>3. /\ SubSeq(stack, 1, Depth - 1) \in Seq(Frames)
      /\ Len(SubSeq(stack, 1, Depth - 1)) = Depth - 1
      /\ \A n \in 1 .. Depth - 1 : SubSeq(stack, 1, Depth - 1)[n] = stack[n]
  BY <1>1
<1> QED
  BY <1>3 DEF Depth

(* A handler is put on top of what it interrupts.                          *)
LEMMA StackCalls ==
  ASSUME TypeOK, NEW f \in Frames, stack' = Append(stack, f)
  PROVE  /\ stack' \in Seq(Frames) /\ Depth' = Depth + 1 /\ Depth \in Nat
         /\ stack'[Depth + 1] = f
         /\ \A n \in 1 .. Depth : stack'[n] = stack[n]
  BY DEF TypeOK, Depth

(* A step to another label, of the activation on top.                      *)
Moved(l, i) == [sig |-> Top.sig, at |-> l, i |-> i]

(* SaveExit goes on at another label, in the same turn of its loop.        *)
LEMMA GoesTo ==
  ASSUME TypeOK, stack # <<>>, NEW l \in Labels, GoTop(l)
  PROVE  /\ stack' = [stack EXCEPT ![Depth] = Moved(l, Top.i)] /\ mpc' = mpc
         /\ Moved(l, Top.i) \in Frames
<1>1. Top \in Frames
  BY StackTop
<1>2. [Top EXCEPT !.at = l] = Moved(l, Top.i) /\ Moved(l, Top.i) \in Frames
  BY <1>1 DEF Frames, Moved, Labels
<1>3. stack' = [stack EXCEPT ![Depth] = [Top EXCEPT !.at = l]] /\ mpc' = mpc
  BY DEF GoTop, Top
<1> QED
  BY <1>2, <1>3

(* SaveExit goes on with the next thread of recv_threads_.                 *)
LEMMA GoesOn ==
  ASSUME TypeOK, stack # <<>>,
         \/ stack' = [stack EXCEPT ![Depth].i = @ + 1] /\ Top.at = "receive"
         \/ stack' = [stack EXCEPT ![Depth].at = "receive", ![Depth].i = @ + 1]
  PROVE  /\ stack' = [stack EXCEPT ![Depth] = Moved("receive", Top.i + 1)]
         /\ Moved("receive", Top.i + 1) \in Frames
<1>1. Top \in Frames /\ stack \in Seq(Frames) /\ Depth \in 1 .. Len(stack)
  BY StackTop DEF TypeOK, Depth
<1>2. Moved("receive", Top.i + 1) \in Frames
  BY <1>1 DEF Frames, Moved
<1>3. CASE stack' = [stack EXCEPT ![Depth].i = @ + 1] /\ Top.at = "receive"
  <2>1. [Top EXCEPT !.i = @ + 1] = Moved("receive", Top.i + 1)
    BY <1>1, <1>3 DEF Frames, Moved
  <2> QED
    BY <1>2, <1>3, <2>1 DEF Top
<1>4. CASE stack' = [stack EXCEPT ![Depth].at = "receive", ![Depth].i = @ + 1]
  <2>1. [[Top EXCEPT !.at = "receive"] EXCEPT !.i = @ + 1] = Moved("receive", Top.i + 1)
    <3>1. [Top EXCEPT !.at = "receive"] = Moved("receive", Top.i)
      BY <1>1 DEF Frames, Moved
    <3>2. [Moved("receive", Top.i) EXCEPT !.i = @ + 1] = Moved("receive", Top.i + 1)
      BY DEF Moved
    <3> QED
      BY <3>1, <3>2
  <2>2. stack' = [stack EXCEPT ![Depth] = [[Top EXCEPT !.at = "receive"] EXCEPT !.i = @ + 1]]
    BY <1>1, <1>4 DEF Top
  <2> QED
    BY <1>2, <2>1, <2>2
<1> QED
  BY <1>2, <1>3, <1>4
-----------------------------------------------------------------------------
(* The thread an activation joins is one that the vector has.              *)
FrameInv ==
  \A n \in 1 .. Depth :
    /\ stack[n].i >= 1
    /\ stack[n].at = "rjoin" => stack[n].i <= Len(recv_threads_)

(* main starts well typed, without an activation.                          *)
LEMMA TypeInit == Init => TypeOK /\ FrameInv
<1> SUFFICES ASSUME Init PROVE TypeOK /\ FrameInv
  OBVIOUS
<1>1. rpc \in [Clients -> {"away", "backlog", "test", "recv", "callback", "close",
                          "done"}]
  BY DEF Init
<1>2. stack \in Seq(Frames) /\ recv_threads_ \in Seq(Clients) /\ Depth = 0
  BY DEF Init, Depth
<1>3. TypeOK
  BY <1>1, <1>2 DEF Init, TypeOK
<1> QED
  BY <1>2, <1>3 DEF FrameInv

(* Every step keeps the types.                                             *)
LEMMA TypeStep == TypeOK /\ FrameInv /\ [Next]_vars => TypeOK'
<1> SUFFICES ASSUME TypeOK, FrameInv, [Next]_vars PROVE TypeOK'
  OBVIOUS
<1>u. USE DEF srv, thrd, sig
<1>1. ASSUME MainThread /\ ~ SaveExit PROVE TypeOK'
  <2>1. CASE Process
    BY <2>1 DEF Process, ProcessSocket, ProcessListen, ProcessReset, ProcessSpawn,
                ProcessAssign, MainAt, GoMain, TypeOK
  <2>2. CASE MainLoop
    <3>1. [sig |-> "none", at |-> "quit", i |-> 1] \in Frames
      BY DEF Frames
    <3>2. stack' \in Seq(Frames)
      <4>1. <<[sig |-> "none", at |-> "quit", i |-> 1]>> \in Seq(Frames)
        BY <3>1
      <4>2. stack' = stack \/ stack' = <<[sig |-> "none", at |-> "quit", i |-> 1]>>
        BY <2>2 DEF MainLoop, GoMain
      <4> QED
        BY <4>1, <4>2 DEF TypeOK
    <3> QED
      BY <2>2, <3>2 DEF MainLoop, GoMain, TypeOK
  <2>3. CASE MainPause \/ MainEnds
    BY <2>3 DEF MainPause, MainEnds, GoMain, TypeOK
  <2> QED
    BY <1>1, <2>1, <2>2, <2>3 DEF MainThread
<1>2. CASE SaveExit
  <2> USE DEF SaveQuit, SaveTestAccept, SaveJoinAccept, SaveTestReceive,
              SaveJoinReceive, SaveClose, SaveForget, ExitLock, ExitUnlock,
              HandlerReturns
  <2>1. stack # <<>>
    BY <1>2 DEF SaveExit, TopAt
  <2>2. stack' \in Seq(Frames) /\ mpc' = mpc
    <3>1. ASSUME NEW l \in Labels, GoTop(l) PROVE stack' \in Seq(Frames) /\ mpc' = mpc
      BY <2>1, <3>1, GoesTo, StackMoves
    <3>2. CASE SaveQuit \/ SaveTestAccept \/ SaveJoinAccept \/ SaveClose \/ ExitLock
               \/ ExitUnlock
      BY <3>1, <3>2 DEF Labels, Abort, TypeOK
    <3>3. CASE SaveTestReceive \/ SaveJoinReceive
      BY <2>1, <3>1, <3>3, GoesOn, StackMoves DEF Labels, Abort, TypeOK, TopAt
    <3>4. CASE SaveForget \/ HandlerReturns
      BY <2>1, <3>1, <3>4, StackReturns DEF Labels
    <3> QED
      BY <1>2, <3>2, <3>3, <3>4 DEF SaveExit
  <2>3. /\ mutex' \in Nat /\ closes' \in Nat /\ quit_' \in BOOLEAN
        /\ listener' \in {"new", "open", "closed"} /\ sockfd' \in {"none", "s"}
    <3>1. Depth \in Nat
      BY <2>1, StackTop
    <3>2. CASE ExitLock \/ ExitUnlock
      BY <3>1, <3>2 DEF TypeOK
    <3>3. CASE SaveClose \/ SaveForget
      BY <3>3 DEF CloseListener, TypeOK
    <3>4. CASE ~ (ExitLock \/ ExitUnlock \/ SaveClose \/ SaveForget)
      BY <1>2, <3>4 DEF SaveExit, Abort, TypeOK
    <3> QED
      BY <3>2, <3>3, <3>4
  <2>4. joined' \subseteq Clients
    <3>1. CASE SaveJoinReceive
      <4>1. Top.i \in 1 .. Len(recv_threads_)
        BY <2>1, <3>1, StackTop DEF FrameInv, TopAt, Top, Frames
      <4>2. recv_threads_[Top.i] \in Clients
        BY <4>1 DEF TypeOK
      <4> QED
        BY <3>1, <4>2 DEF TypeOK, Abort
    <3>2. CASE ~ SaveJoinReceive
      BY <1>2, <3>2 DEF SaveExit, Abort, TypeOK
    <3> QED
      BY <3>1, <3>2
  <2>5. /\ accept_thread_' \in {"null", "joinable", "joined"} /\ alive' \in BOOLEAN
        /\ UNCHANGED <<quit, exited_, recv_threads_, apc, rpc, sig>>
    BY <1>2 DEF SaveExit, Abort, TypeOK
  <2> HIDE DEF SaveQuit, SaveTestAccept, SaveJoinAccept, SaveTestReceive,
               SaveJoinReceive, SaveClose, SaveForget, ExitLock, ExitUnlock,
               HandlerReturns
  <2> QED
    BY <2>2, <2>3, <2>4, <2>5 DEF TypeOK
<1>3. CASE Accepted
  <2>1. CASE AcceptTest \/ AcceptNothing
    BY <2>1 DEF AcceptTest, AcceptNothing, TypeOK
  <2>2. CASE AcceptClose
    BY <2>2 DEF AcceptClose, CloseListener, TypeOK
  <2>4. CASE AcceptExit
    BY <2>4 DEF AcceptExit, TypeOK
  <2>3. ASSUME NEW c \in Clients, AcceptClient(c) PROVE TypeOK'
    BY <2>3 DEF AcceptClient, TypeOK
  <2> QED
    BY <1>3, <2>1, <2>2, <2>3, <2>4 DEF Accepted
<1>7. ASSUME NEW c \in Clients, Connect(c) \/ Recvieve(c) PROVE TypeOK'
  <2>1. rpc' \in [Clients -> {"away", "backlog", "test", "recv", "callback", "close",
                             "done"}]
    BY <1>7 DEF Connect, Recvieve, ReceiveTest, ReceiveReturns, ReceiveCallback,
                ReceiveClose, GoReceive, TypeOK
  <2>2. UNCHANGED <<quit, srv, thrd, mpc, stack, apc, mutex, sig, alive>>
    BY <1>7 DEF Connect, Recvieve, ReceiveTest, ReceiveReturns, ReceiveCallback,
                ReceiveClose, GoReceive
  <2> QED
    BY <2>1, <2>2 DEF TypeOK
<1>4. ASSUME NEW s \in Signals, SignalArrives(s) PROVE TypeOK'
  BY <1>4 DEF SignalArrives, TypeOK
<1>5. ASSUME NEW s \in Signals, HandleSignal(s) PROVE TypeOK'
  <2>1. [sig |-> s, at |-> "quit", i |-> 1] \in Frames
    BY DEF Frames
  <2>2. stack' \in Seq(Frames)
    BY <1>5, <2>1, StackCalls DEF HandleSignal
  <2> QED
    BY <1>5, <2>2 DEF HandleSignal, TypeOK
<1>6. CASE UNCHANGED vars
  BY <1>6 DEF vars, TypeOK
<1> QED
  BY <1>1, <1>2, <1>3, <1>4, <1>5, <1>6, <1>7 DEF Next

(* Every step keeps what is known of SaveExit's activations.               *)
LEMMA FrameStep == TypeOK /\ FrameInv /\ [Next]_vars => FrameInv'
<1> SUFFICES ASSUME TypeOK, FrameInv, [Next]_vars PROVE FrameInv'
  OBVIOUS
<1>n. Depth \in Nat /\ Len(recv_threads_) \in Nat
  BY DEF TypeOK, Depth
<1>1. ASSUME stack' = stack, Len(recv_threads_') >= Len(recv_threads_),
             Len(recv_threads_') \in Nat
      PROVE  FrameInv'
  <2>1. Depth' = Depth
    BY <1>1 DEF Depth
  <2>2. \A n \in 1 .. Depth : stack[n] \in Frames
    BY DEF TypeOK, Depth
  <2>3. \A n \in 1 .. Depth : stack[n].i \in Nat
    BY <2>2 DEF Frames
  <2> QED
    BY <1>n, <1>1, <2>1, <2>3 DEF FrameInv
<1>2. ASSUME NEW f \in Frames, stack # <<>>, stack' = [stack EXCEPT ![Depth] = f],
             f.i >= 1, f.at = "rjoin" => f.i <= Len(recv_threads_),
             recv_threads_' = recv_threads_
      PROVE  FrameInv'
  <2>1. /\ Depth' = Depth /\ stack'[Depth] = f
        /\ \A n \in 1 .. Depth - 1 : stack'[n] = stack[n]
    BY <1>2, StackMoves
  <2> QED
    BY <1>n, <1>2, <2>1 DEF FrameInv
<1>3. ASSUME NEW l \in Labels, GoTop(l), stack # <<>>, recv_threads_' = recv_threads_,
             l = "rjoin" => Top.i <= Len(recv_threads_)
      PROVE  FrameInv'
  <2>1. Top.i >= 1
    BY <1>3, StackTop DEF FrameInv, Top
  <2>2. Moved(l, Top.i).i = Top.i /\ Moved(l, Top.i).at = l
    BY DEF Moved
  <2> QED
    BY <1>2, <1>3, <2>1, <2>2, GoesTo
<1>4. CASE SaveQuit \/ SaveTestAccept \/ SaveJoinAccept \/ ExitLock \/ ExitUnlock
  <2>1. stack # <<>> /\ recv_threads_' = recv_threads_
    BY <1>4
    DEF SaveQuit, SaveTestAccept, SaveJoinAccept, ExitLock, ExitUnlock, TopAt,
                thrd, Abort
  <2>2. stack' = stack \/ \E l \in Labels \ {"rjoin"} : GoTop(l)
    BY <1>4
    DEF SaveQuit, SaveTestAccept, SaveJoinAccept, ExitLock, ExitUnlock, Labels,
                Abort
  <2>3. CASE stack' = stack
    BY <1>1, <1>n, <2>1, <2>3
  <2>4. ASSUME NEW l \in Labels \ {"rjoin"}, GoTop(l) PROVE FrameInv'
    BY <1>3, <2>1, <2>4
  <2> QED
    BY <2>2, <2>3, <2>4
<1>5. CASE SaveTestReceive \/ SaveJoinReceive
  <2>1. stack # <<>> /\ recv_threads_' = recv_threads_
    BY <1>5 DEF SaveTestReceive, SaveJoinReceive, TopAt, thrd, Abort
  <2>2. \/ stack' = stack
        \/ GoTop("close")
        \/ GoTop("rjoin") /\ Top.i <= Len(recv_threads_)
        \/ stack' = [stack EXCEPT ![Depth].i = @ + 1] /\ Top.at = "receive"
        \/ stack' = [stack EXCEPT ![Depth].at = "receive", ![Depth].i = @ + 1]
    BY <1>5 DEF SaveTestReceive, SaveJoinReceive, TopAt, Abort
  <2>3. CASE stack' = stack
    BY <1>1, <1>n, <2>1, <2>3
  <2>4. CASE GoTop("close") \/ (GoTop("rjoin") /\ Top.i <= Len(recv_threads_))
    BY <1>3, <2>1, <2>4 DEF Labels
  <2>5. CASE \/ stack' = [stack EXCEPT ![Depth].i = @ + 1] /\ Top.at = "receive"
             \/ stack' = [stack EXCEPT ![Depth].at = "receive", ![Depth].i = @ + 1]
    <3>1. /\ stack' = [stack EXCEPT ![Depth] = Moved("receive", Top.i + 1)]
          /\ Moved("receive", Top.i + 1) \in Frames
      BY <2>1, <2>5, GoesOn
    <3>2. Top.i + 1 >= 1
      BY <2>1, StackTop DEF Frames
    <3>3. /\ Moved("receive", Top.i + 1).i = Top.i + 1
          /\ Moved("receive", Top.i + 1).at = "receive"
      BY DEF Moved
    <3> QED
      BY <1>2, <2>1, <3>1, <3>2, <3>3
  <2> QED
    BY <2>2, <2>3, <2>4, <2>5
<1>6. CASE SaveClose \/ SaveForget \/ HandlerReturns
  <2>1. stack # <<>> /\ recv_threads_' = recv_threads_
    BY <1>6 DEF SaveClose, SaveForget, HandlerReturns, TopAt, thrd
  <2>2. stack' = SubSeq(stack, 1, Depth - 1) \/ GoTop("lock") \/ GoTop("forget")
    BY <1>6 DEF SaveClose, SaveForget, HandlerReturns
  <2>3. CASE stack' = SubSeq(stack, 1, Depth - 1)
    BY <1>n, <2>1, <2>3, StackReturns DEF FrameInv
  <2>4. CASE GoTop("lock") \/ GoTop("forget")
    BY <1>3, <2>1, <2>4 DEF Labels
  <2> QED
    BY <2>2, <2>3, <2>4
<1>7. ASSUME NEW s \in Signals, HandleSignal(s) PROVE FrameInv'
  <2> DEFINE f == [sig |-> s, at |-> "quit", i |-> 1]
  <2>1. f \in Frames /\ f.i = 1 /\ f.at = "quit"
    BY DEF Frames
  <2>2. stack' = Append(stack, f) /\ recv_threads_' = recv_threads_
    BY <1>7 DEF HandleSignal, thrd
  <2> HIDE DEF f
  <2>3. /\ Depth' = Depth + 1 /\ stack'[Depth + 1] = f
        /\ \A n \in 1 .. Depth : stack'[n] = stack[n]
    BY <2>1, <2>2, StackCalls
  <2>4. ASSUME NEW n \in 1 .. Depth + 1
        PROVE  /\ stack'[n].i >= 1
               /\ stack'[n].at = "rjoin" => stack'[n].i <= Len(recv_threads_)
    <3>1. CASE n = Depth + 1
      BY <2>1, <2>3, <3>1
    <3>2. CASE n \in 1 .. Depth
      BY <2>3, <3>2 DEF FrameInv
    <3> QED
      BY <1>n, <3>1, <3>2
  <2> QED
    BY <2>2, <2>3, <2>4 DEF FrameInv
<1>8. CASE MainThread /\ ~ SaveExit
  <2>1. recv_threads_' = recv_threads_
    BY <1>8 DEF MainThread, Process, ProcessSocket, ProcessListen, ProcessReset,
                ProcessSpawn, ProcessAssign, MainLoop, MainPause, MainEnds, thrd
  <2>2. stack' = stack \/ stack' = <<[sig |-> "none", at |-> "quit", i |-> 1]>>
    BY <1>8 DEF MainThread, Process, ProcessSocket, ProcessListen, ProcessReset,
                ProcessSpawn, ProcessAssign, MainLoop, MainPause, MainEnds, GoMain
  <2>3. CASE stack' = stack
    BY <1>1, <1>n, <2>1, <2>3
  <2>4. CASE stack' = <<[sig |-> "none", at |-> "quit", i |-> 1]>>
    BY <2>4 DEF FrameInv, Depth
  <2> QED
    BY <2>2, <2>3, <2>4
<1>9. CASE Accepted
  <2>1. stack' = stack
    BY <1>9 DEF Accepted, AcceptTest, AcceptNothing, AcceptClose, AcceptExit,
                AcceptClient
  <2>2. \/ recv_threads_' = recv_threads_
        \/ \E c \in Clients : recv_threads_' = Append(recv_threads_, c)
    BY <1>9 DEF Accepted, AcceptTest, AcceptNothing, AcceptClose, AcceptExit,
                AcceptClient, thrd
  <2>3. Len(recv_threads_') >= Len(recv_threads_) /\ Len(recv_threads_') \in Nat
    BY <2>2, <1>n DEF TypeOK
  <2> QED
    BY <1>1, <2>1, <2>3
<1>10. CASE \/ \E c \in Clients : Connect(c) \/ Recvieve(c)
            \/ \E s \in Signals : SignalArrives(s)
            \/ UNCHANGED vars
  <2>1. stack' = stack /\ recv_threads_' = recv_threads_
    BY <1>10 DEF Connect, Recvieve, ReceiveTest, ReceiveReturns, ReceiveCallback,
                 ReceiveClose, GoReceive, SignalArrives, vars, thrd
  <2> QED
    BY <1>1, <1>n, <2>1
<1> QED
  BY <1>4, <1>5, <1>6, <1>7, <1>8, <1>9, <1>10 DEF Next, MainThread, SaveExit

(* Every reachable state is well typed; in particular SaveExit never joins *)
(* a thread that recv_threads_ does not have.                              *)
LEMMA FramesCorrect == Spec => [](TypeOK /\ FrameInv)
  BY TypeInit, TypeStep, FrameStep, PTL DEF Spec

(* Every reachable state of the server process is well typed, for any      *)
(* number of connections, signals and kinds of signals.                    *)
THEOREM TypeCorrect == Spec => []TypeOK
  BY FramesCorrect, PTL
-----------------------------------------------------------------------------
Early == {"process", "listen", "reset", "spawn"}

(* How the threads and what SaveExit sees of them belong together: until   *)
(* main has assigned accept_thread_ a handler's SaveExit sees none.        *)
ThreadInv ==
  /\ mpc \in Early => apc = "unborn"
  /\ mpc \in Early \cup {"assign"} => accept_thread_ = "null"
  /\ mpc \notin Early \cup {"assign"} /\ accept_thread_ = "null" => apc = "unborn"
  /\ accept_thread_ = "joined" => apc = "done"
  /\ \A c \in Clients :
       /\ rpc[c] \notin {"away", "backlog"} =>
            \E n \in 1 .. Len(recv_threads_) : recv_threads_[n] = c
       /\ c \in joined => rpc[c] = "done"

AllJoined == \A n \in 1 .. Len(recv_threads_) : recv_threads_[n] \in joined

(* Main's own SaveExit is at the bottom of the stack, below the handlers.  *)
InSaveExit == stack # <<>> /\ stack[1].sig = "none"

(* How far it has come, whatever handlers do on top of it.                 *)
MainInv ==
  /\ \A n \in 2 .. Depth : stack[n].sig # "none"
  /\ InSaveExit =>
       /\ mpc = "final" /\ stack[1].at \notin {"lock", "unlock", "end"}
       /\ stack[1].at \in {"quit", "accept", "join"} => stack[1].i = 1
       /\ stack[1].at \in {"receive", "rjoin", "close", "forget"} =>
            accept_thread_ # "joinable"
       /\ stack[1].at \in {"receive", "rjoin"} =>
            \A n \in 1 .. Len(recv_threads_) :
              n < stack[1].i => recv_threads_[n] \in joined
       /\ stack[1].at \in {"close", "forget"} => AllJoined
  /\ ~ InSaveExit /\ mpc \in {"final", "ended"} =>
       accept_thread_ # "joinable" /\ AllJoined

ExitInv == TypeOK /\ FrameInv /\ ThreadInv /\ MainInv

(* main starts with nothing to join.                                       *)
LEMMA ExitInit == Init => ExitInv
<1> SUFFICES ASSUME Init PROVE ThreadInv /\ MainInv
  BY TypeInit DEF ExitInv
<1>1. ThreadInv
  BY DEF Init, ThreadInv, Early
<1>2. Depth = 0
  BY DEF Init, Depth
<1>3. MainInv
  BY <1>2 DEF Init, MainInv, InSaveExit
<1> QED
  BY <1>1, <1>3

(* ThreadInv after a step of main, of a handler, or of no thread.          *)
LEMMA ThreadStep == ExitInv /\ [Next]_vars => ThreadInv'
<1> SUFFICES ASSUME ExitInv, [Next]_vars PROVE ThreadInv'
  OBVIOUS
<1>t. TypeOK /\ FrameInv /\ ThreadInv
  BY DEF ExitInv
<1> USE DEF srv, thrd, sig, ThreadInv, Early
<1>1. CASE Process
  BY <1>t, <1>1 DEF Process, ProcessSocket, ProcessListen, ProcessReset,
     ProcessSpawn, ProcessAssign, MainAt, GoMain
<1>2. CASE MainLoop \/ MainPause \/ MainEnds
  BY <1>t, <1>2 DEF MainLoop, MainPause, MainEnds, MainAt, GoMain
<1>3. CASE SaveExit
  <2>1. stack # <<>> /\ mpc' = mpc /\ UNCHANGED <<apc, rpc, recv_threads_>>
    BY <1>3
    DEF SaveExit, SaveQuit, SaveTestAccept, SaveJoinAccept, SaveTestReceive,
                SaveJoinReceive, SaveClose, SaveForget, ExitLock, ExitUnlock,
                HandlerReturns, TopAt, GoTop, Abort
  <2>2. \/ UNCHANGED accept_thread_
        \/ accept_thread_ = "joinable" /\ accept_thread_' = "joined" /\ apc = "done"
    BY <1>3
    DEF SaveExit, SaveQuit, SaveTestAccept, SaveJoinAccept, SaveTestReceive,
                SaveJoinReceive, SaveClose, SaveForget, ExitLock, ExitUnlock,
                HandlerReturns, Abort
  <2>3. joined' = joined \/ \E c \in {recv_threads_[Top.i]} :
                              joined' = joined \cup {c} /\ rpc[c] = "done"
    BY <1>3
    DEF SaveExit, SaveQuit, SaveTestAccept, SaveJoinAccept, SaveTestReceive,
                SaveJoinReceive, SaveClose, SaveForget, ExitLock, ExitUnlock,
                HandlerReturns, Abort
  <2> QED
    BY <1>t, <2>1, <2>2, <2>3
<1>4. CASE AcceptTest \/ AcceptNothing \/ AcceptClose \/ AcceptExit
  BY <1>t, <1>4 DEF AcceptTest, AcceptNothing, AcceptClose, AcceptExit
<1>5. ASSUME NEW c \in Clients, AcceptClient(c) PROVE ThreadInv'
  <2>1. /\ apc = "accept" /\ apc' = "test" /\ UNCHANGED <<mpc, accept_thread_, joined>>
        /\ rpc[c] = "backlog" /\ rpc' = [rpc EXCEPT ![c] = "test"]
        /\ recv_threads_' = Append(recv_threads_, c)
    BY <1>5 DEF AcceptClient
  <2>2. /\ Len(recv_threads_) \in Nat
        /\ Len(recv_threads_') = Len(recv_threads_) + 1
        /\ recv_threads_'[Len(recv_threads_) + 1] = c
        /\ \A n \in 1 .. Len(recv_threads_) : recv_threads_'[n] = recv_threads_[n]
    BY <1>t, <2>1 DEF TypeOK
  <2>3. rpc'[c] = "test" /\ \A d \in Clients : d # c => rpc'[d] = rpc[d]
    BY <1>t, <2>1 DEF TypeOK
  <2>4. ASSUME NEW d \in Clients
        PROVE  /\ rpc'[d] \notin {"away", "backlog"} =>
                    \E n \in 1 .. Len(recv_threads_') : recv_threads_'[n] = d
               /\ d \in joined' => rpc'[d] = "done"
    <3>1. CASE d = c
      BY <1>t, <2>1, <2>2, <2>3, <3>1
    <3>2. CASE d # c
      BY <1>t, <2>1, <2>2, <2>3, <3>2
    <3> QED
      BY <3>1, <3>2
  <2> QED
    BY <1>t, <2>1, <2>4
<1>6. ASSUME NEW c \in Clients, Connect(c) \/ Recvieve(c) PROVE ThreadInv'
  <2>1. /\ UNCHANGED <<mpc, apc, accept_thread_, recv_threads_, joined>>
        /\ \E l : rpc' = [rpc EXCEPT ![c] = l]
                  /\ (rpc[c] \in {"away", "backlog"} => l = "backlog")
        /\ rpc[c] # "done"
    BY <1>6 DEF Connect, Recvieve, ReceiveTest, ReceiveReturns, ReceiveCallback,
                ReceiveClose, GoReceive
  <2>2. \A d \in Clients : d # c => rpc'[d] = rpc[d]
    BY <1>t, <2>1 DEF TypeOK
  <2>3. rpc[c] \in {"away", "backlog"} => rpc'[c] = "backlog"
    BY <1>t, <2>1 DEF TypeOK
  <2> QED
    BY <1>t, <2>1, <2>2, <2>3
<1>7. ASSUME NEW s \in Signals, SignalArrives(s) \/ HandleSignal(s) PROVE ThreadInv'
  <2>1. /\ UNCHANGED <<apc, rpc, accept_thread_, recv_threads_, joined>>
        /\ mpc' = mpc \/ (mpc = "pause" /\ mpc' = "loop")
    BY <1>7 DEF SignalArrives, HandleSignal
  <2> QED
    BY <1>t, <2>1
<1>8. CASE UNCHANGED vars
  BY <1>t, <1>8 DEF vars
<1> QED
  BY <1>1, <1>2, <1>3, <1>4, <1>5, <1>6, <1>7, <1>8 DEF Next, MainThread, Accepted

(* MainInv after a step that is not one of main's own SaveExit.            *)
LEMMA MainKeeps ==
  ASSUME TypeOK, MainInv, ThreadInv,
         \A n \in 2 .. Depth' : stack'[n].sig # "none",
         InSaveExit' <=> InSaveExit, InSaveExit => stack'[1] = stack[1],
         mpc' = mpc \/ {mpc, mpc'} \cap {"final", "ended"} = {},
         accept_thread_' = accept_thread_ \/ accept_thread_' = "joined"
           \/ mpc = "assign",
         joined \subseteq joined',
         recv_threads_' = recv_threads_ \/ apc = "accept"
  PROVE  MainInv'
<1>1. CASE mpc \notin {"final", "ended"}
  <2>1. ~ InSaveExit /\ ~ InSaveExit' /\ mpc' \notin {"final", "ended"}
    BY <1>1 DEF MainInv
  <2> QED
    BY <2>1 DEF MainInv
<1>2. CASE mpc \in {"final", "ended"}
  <2>1. mpc' = mpc /\ (accept_thread_ # "joinable" => accept_thread_' # "joinable")
    BY <1>2
  <2>2. accept_thread_ # "joinable" =>
          recv_threads_' = recv_threads_ /\ (AllJoined => AllJoined')
    <3> SUFFICES ASSUME accept_thread_ # "joinable", ThreadInv
                 PROVE  recv_threads_' = recv_threads_ /\ (AllJoined => AllJoined')
      OBVIOUS
    <3>1. accept_thread_ \in {"null", "joined"} => apc # "accept"
      BY <1>2 DEF ThreadInv, Early
    <3>2. accept_thread_ \in {"null", "joined"}
      BY DEF TypeOK
    <3> QED
      BY <3>1, <3>2 DEF AllJoined
  <2> QED
    BY <2>1, <2>2 DEF MainInv
<1> QED
  BY <1>1, <1>2

(* The bottom of the stack when a handler's activation moves.              *)
LEMMA HandlerMoves ==
  ASSUME TypeOK, MainInv, stack # <<>>, NEW f \in Frames, f.sig = Top.sig,
         stack' = [stack EXCEPT ![Depth] = f], ~ (Depth = 1 /\ InSaveExit)
  PROVE  /\ \A n \in 2 .. Depth' : stack'[n].sig # "none"
         /\ InSaveExit' <=> InSaveExit
         /\ InSaveExit => stack'[1] = stack[1]
<1>1. /\ Depth' = Depth /\ stack'[Depth] = f /\ stack' # <<>>
      /\ \A n \in 1 .. Depth - 1 : stack'[n] = stack[n]
      /\ Depth \in Nat /\ Depth >= 1
  BY StackMoves, StackTop
<1>2. f.sig = stack[Depth].sig
  BY DEF Top
<1>3. \A n \in 1 .. Depth : stack'[n].sig = stack[n].sig
  BY <1>1, <1>2
<1>4. InSaveExit' <=> InSaveExit
  BY <1>1, <1>3 DEF InSaveExit
<1>5. InSaveExit => Depth # 1 /\ stack'[1] = stack[1]
  BY <1>1
<1> QED
  BY <1>1, <1>3, <1>4, <1>5 DEF MainInv

(* A step of a handler's SaveExit.                                         *)
LEMMA HandlerStep ==
  ASSUME ExitInv, SaveExit, ~ (Depth = 1 /\ InSaveExit)
  PROVE  MainInv'
<1>t. TypeOK /\ FrameInv /\ ThreadInv /\ MainInv
  BY DEF ExitInv
<1> USE DEF srv, thrd, sig
<1>1. stack # <<>> /\ mpc' = mpc /\ recv_threads_' = recv_threads_
  BY DEF SaveExit, SaveQuit, SaveTestAccept, SaveJoinAccept, SaveTestReceive,
         SaveJoinReceive, SaveClose, SaveForget, ExitLock, ExitUnlock, HandlerReturns,
         TopAt, GoTop, Abort
<1>2. /\ accept_thread_' = accept_thread_ \/ accept_thread_' = "joined"
      /\ joined \subseteq joined'
  BY DEF SaveExit, SaveQuit, SaveTestAccept, SaveJoinAccept, SaveTestReceive,
         SaveJoinReceive, SaveClose, SaveForget, ExitLock, ExitUnlock, HandlerReturns,
         Abort
<1>3. CASE stack' = stack
  <2>1. Depth' = Depth /\ InSaveExit' = InSaveExit
    BY <1>3 DEF Depth, InSaveExit
  <2> QED
    BY <1>t, <1>1, <1>2, <1>3, <2>1, MainKeeps DEF MainInv
<1>4. ASSUME NEW f \in Frames, f.sig = Top.sig, stack' = [stack EXCEPT ![Depth] = f]
      PROVE  MainInv'
  BY <1>t, <1>1, <1>2, <1>4, HandlerMoves, MainKeeps
<1>5. ASSUME NEW l \in Labels, GoTop(l) PROVE MainInv'
  <2>1. Moved(l, Top.i).sig = Top.sig
    BY DEF Moved
  <2> QED
    BY <1>t, <1>1, <1>4, <1>5, <2>1, GoesTo
<1>6. CASE \/ stack' = [stack EXCEPT ![Depth].i = @ + 1] /\ Top.at = "receive"
           \/ stack' = [stack EXCEPT ![Depth].at = "receive", ![Depth].i = @ + 1]
  <2>1. Moved("receive", Top.i + 1).sig = Top.sig
    BY DEF Moved
  <2> QED
    BY <1>t, <1>1, <1>4, <1>6, <2>1, GoesOn
<1>7. CASE stack' = SubSeq(stack, 1, Depth - 1) /\ Top.sig # "none"
  <2>1. /\ Depth' = Depth - 1 /\ stack' \in Seq(Frames) /\ Depth \in Nat /\ Depth >= 1
        /\ \A n \in 1 .. Depth - 1 : stack'[n] = stack[n]
    BY <1>t, <1>1, <1>7, StackReturns, StackTop
  <2>2. stack' = <<>> <=> Depth = 1
    BY <2>1 DEF Depth
  <2>3. InSaveExit' <=> InSaveExit
    BY <1>1, <1>7, <2>1, <2>2 DEF InSaveExit, Top
  <2>4. InSaveExit => stack'[1] = stack[1]
    BY <2>1
  <2>5. \A n \in 2 .. Depth' : stack'[n].sig # "none"
    BY <1>t, <2>1 DEF MainInv
  <2> QED
    BY <1>t, <1>1, <1>2, <2>3, <2>4, <2>5, MainKeeps
<1>8. CASE SaveClose \/ SaveForget \/ HandlerReturns
  <2>1. Top.sig = "none" => Depth = 1 /\ InSaveExit
    BY <1>t, <1>1, StackTop DEF MainInv, InSaveExit, Top
  <2>2. GoTop("forget") \/ GoTop("lock") \/ stack' = SubSeq(stack, 1, Depth - 1)
    BY <1>8 DEF SaveClose, SaveForget, HandlerReturns
  <2> QED
    BY <1>5, <1>7, <2>1, <2>2 DEF Labels
<1>9. CASE SaveQuit \/ SaveTestAccept \/ SaveJoinAccept \/ ExitLock \/ ExitUnlock
  <2>1. stack' = stack \/ \E l \in Labels : GoTop(l)
    BY <1>9
    DEF SaveQuit, SaveTestAccept, SaveJoinAccept, ExitLock, ExitUnlock, Labels,
                Abort
  <2> QED
    BY <1>3, <1>5, <2>1
<1>10. CASE SaveTestReceive \/ SaveJoinReceive
  <2>1. \/ stack' = stack \/ \E l \in Labels : GoTop(l)
        \/ stack' = [stack EXCEPT ![Depth].i = @ + 1] /\ Top.at = "receive"
        \/ stack' = [stack EXCEPT ![Depth].at = "receive", ![Depth].i = @ + 1]
    BY <1>10 DEF SaveTestReceive, SaveJoinReceive, TopAt, Abort, Labels
  <2> QED
    BY <1>3, <1>5, <1>6, <2>1
<1> QED
  BY <1>8, <1>9, <1>10 DEF SaveExit

(* A step of main's own SaveExit.                                          *)
LEMMA MainExitStep ==
  ASSUME ExitInv, SaveExit, Depth = 1, InSaveExit
  PROVE  MainInv'
<1>t. TypeOK /\ FrameInv /\ ThreadInv /\ MainInv
  BY DEF ExitInv
<1> USE DEF srv, thrd, sig
<1>1. /\ stack # <<>> /\ mpc = "final" /\ mpc' = "final"
      /\ recv_threads_' = recv_threads_
  BY <1>t
  DEF SaveExit, SaveQuit, SaveTestAccept, SaveJoinAccept, SaveTestReceive,
      SaveJoinReceive, SaveClose, SaveForget, ExitLock, ExitUnlock, HandlerReturns,
      TopAt, GoTop, Abort, MainInv
<1>2. /\ Top = stack[1] /\ Top \in Frames /\ Top.sig = "none"
      /\ Len(recv_threads_) \in Nat /\ Top.i \in Nat
  <2>1. Top = stack[1] /\ Top \in Frames /\ Top.sig = "none"
    BY <1>t, <1>1, StackTop DEF Top, InSaveExit
  <2> QED
    BY <1>t, <2>1 DEF TypeOK, Frames
<1>m. /\ Top.at \in {"quit", "accept", "join"} => Top.i = 1
      /\ Top.at \in {"receive", "rjoin", "close", "forget"} =>
           accept_thread_ # "joinable"
      /\ Top.at \in {"receive", "rjoin"} =>
           \A n \in 1 .. Len(recv_threads_) : n < Top.i => recv_threads_[n] \in joined
      /\ Top.at \in {"close", "forget"} => AllJoined
      /\ Top.at \notin {"lock", "unlock", "end"}
  BY <1>t, <1>2 DEF MainInv
<1>3. CASE UNCHANGED <<stack, accept_thread_, joined>>
  <2>1. Depth' = Depth /\ InSaveExit' = InSaveExit
    BY <1>3 DEF Depth, InSaveExit
  <2> QED
    BY <1>t, <1>1, <1>3, <2>1, MainKeeps DEF MainInv
<1>4. ASSUME NEW l \in {"quit", "accept", "join", "receive", "rjoin", "close", "forget"},
             NEW i, Moved(l, i) \in Frames, stack' = [stack EXCEPT ![Depth] = Moved(l, i)],
             l \in {"quit", "accept", "join"} => i = 1,
             l \in {"receive", "rjoin", "close", "forget"} => accept_thread_' # "joinable",
             l \in {"receive", "rjoin"} =>
               \A n \in 1 .. Len(recv_threads_) :
                 n < i => recv_threads_[n] \in joined',
             l \in {"close", "forget"} => AllJoined'
      PROVE  MainInv'
  <2>1. Depth' = 1 /\ stack'[1] = Moved(l, i) /\ stack' # <<>>
    BY <1>t, <1>1, <1>4, StackMoves
  <2>2. Moved(l, i).sig = "none" /\ Moved(l, i).at = l /\ Moved(l, i).i = i
    BY <1>2 DEF Moved
  <2>3. InSaveExit'
    BY <2>1, <2>2 DEF InSaveExit
  <2> QED
    BY <1>1, <1>4, <2>1, <2>2, <2>3 DEF MainInv
<1>5. ASSUME NEW l \in {"quit", "accept", "join", "receive", "rjoin", "close", "forget"},
             GoTop(l),
             l \in {"quit", "accept", "join"} => Top.i = 1,
             l \in {"receive", "rjoin", "close", "forget"} => accept_thread_' # "joinable",
             l \in {"receive", "rjoin"} =>
               \A n \in 1 .. Len(recv_threads_) :
                 n < Top.i => recv_threads_[n] \in joined',
             l \in {"close", "forget"} => AllJoined'
      PROVE  MainInv'
  <2>1. /\ stack' = [stack EXCEPT ![Depth] = Moved(l, Top.i)]
        /\ Moved(l, Top.i) \in Frames
    BY <1>t, <1>1, <1>5, GoesTo DEF Labels
  <2> QED
    BY <1>4, <1>5, <2>1
<1>6. ASSUME \/ stack' = [stack EXCEPT ![Depth].i = @ + 1] /\ Top.at = "receive"
             \/ stack' = [stack EXCEPT ![Depth].at = "receive", ![Depth].i = @ + 1],
             accept_thread_' # "joinable",
             \A n \in 1 .. Len(recv_threads_) :
               n < Top.i + 1 => recv_threads_[n] \in joined'
      PROVE  MainInv'
  <2>1. /\ stack' = [stack EXCEPT ![Depth] = Moved("receive", Top.i + 1)]
        /\ Moved("receive", Top.i + 1) \in Frames
    BY <1>t, <1>1, <1>6, GoesOn
  <2> QED
    BY <1>4, <1>6, <2>1
<1>7. CASE SaveQuit
  BY <1>5, <1>7, <1>m DEF SaveQuit, TopAt
<1>8. CASE SaveTestAccept
  <2>1. CASE accept_thread_ = "joinable"
    BY <1>5, <1>8, <1>m, <2>1 DEF SaveTestAccept, TopAt
  <2>2. CASE accept_thread_ # "joinable"
    <3>1. Top.i = 1 /\ GoTop("receive") /\ accept_thread_' # "joinable"
      BY <1>8, <1>m, <2>2 DEF SaveTestAccept, TopAt
    <3>2. \A n \in 1 .. Len(recv_threads_) : ~ (n < Top.i)
      BY <1>2, <3>1
    <3> QED
      BY <1>5, <3>1, <3>2
  <2> QED
    BY <2>1, <2>2
<1>9. CASE SaveJoinAccept
  <2>1. CASE Abort
    BY <1>3, <2>1 DEF Abort
  <2>2. CASE ~ Abort
    <3>1. Top.i = 1 /\ GoTop("receive") /\ accept_thread_' # "joinable"
      BY <1>9, <1>m, <2>2 DEF SaveJoinAccept, TopAt
    <3>2. \A n \in 1 .. Len(recv_threads_) : ~ (n < Top.i)
      BY <1>2, <3>1
    <3> QED
      BY <1>5, <3>1, <3>2
  <2> QED
    BY <2>1, <2>2
<1>10. CASE SaveTestReceive
  <2>1. /\ Top.at = "receive" /\ accept_thread_' # "joinable" /\ joined' = joined
        /\ \A n \in 1 .. Len(recv_threads_) : n < Top.i => recv_threads_[n] \in joined
    BY <1>10, <1>m DEF SaveTestReceive, TopAt
  <2>2. CASE Top.i > Len(recv_threads_) /\ GoTop("close")
    <3>1. AllJoined'
      BY <1>1, <1>2, <2>1, <2>2 DEF AllJoined
    <3> QED
      BY <1>5, <2>1, <2>2, <3>1
  <2>3. CASE GoTop("rjoin")
    BY <1>5, <2>1, <2>3
  <2>4. CASE /\ Top.i <= Len(recv_threads_) /\ recv_threads_[Top.i] \in joined
             /\ stack' = [stack EXCEPT ![Depth].i = @ + 1]
    <3>1. \A n \in 1 .. Len(recv_threads_) :
            n < Top.i + 1 => recv_threads_[n] \in joined'
      BY <1>2, <2>1, <2>4
    <3> QED
      BY <1>6, <2>1, <2>4, <3>1
  <2> QED
    BY <1>10, <2>2, <2>3, <2>4 DEF SaveTestReceive
<1>11. CASE SaveJoinReceive
  <2>1. CASE Abort
    BY <1>3, <2>1 DEF Abort
  <2>2. CASE ~ Abort
    <3>1. /\ Top.at = "rjoin" /\ accept_thread_' # "joinable"
          /\ joined' = joined \cup {recv_threads_[Top.i]}
          /\ stack' = [stack EXCEPT ![Depth].at = "receive", ![Depth].i = @ + 1]
      BY <1>11, <1>m, <2>2 DEF SaveJoinReceive, TopAt
    <3>2. \A n \in 1 .. Len(recv_threads_) :
            n < Top.i + 1 => recv_threads_[n] \in joined'
      BY <1>2, <1>m, <3>1
    <3> QED
      BY <1>6, <3>1, <3>2
  <2> QED
    BY <2>1, <2>2
<1>14. CASE SaveClose
  <2>1. /\ Top.at = "close" /\ GoTop("forget")
        /\ UNCHANGED <<accept_thread_, joined>>
    BY <1>14 DEF SaveClose, TopAt
  <2>2. AllJoined' /\ accept_thread_' # "joinable"
    BY <1>1, <1>m, <2>1 DEF AllJoined
  <2> QED
    BY <1>5, <2>1, <2>2
<1>12. CASE SaveForget
  <2>1. /\ Top.at = "forget" /\ stack' = SubSeq(stack, 1, Depth - 1)
        /\ UNCHANGED <<accept_thread_, joined>>
    BY <1>2, <1>12 DEF SaveForget, TopAt
  <2>2. Depth' = 0 /\ stack' \in Seq(Frames)
    BY <1>t, <1>1, <2>1, StackReturns
  <2>3. ~ InSaveExit' /\ AllJoined'
    BY <1>1, <1>m, <2>1, <2>2 DEF InSaveExit, Depth, AllJoined
  <2> QED
    BY <1>m, <2>1, <2>2, <2>3 DEF MainInv
<1>13. CASE ExitLock \/ ExitUnlock \/ HandlerReturns
  BY <1>m, <1>13 DEF ExitLock, ExitUnlock, HandlerReturns, TopAt
<1> QED
  BY <1>7, <1>8, <1>9, <1>10, <1>11, <1>12, <1>13, <1>14 DEF SaveExit

(* Every step keeps what is known of main's own SaveExit.                  *)
LEMMA MainStep == ExitInv /\ [Next]_vars => MainInv'
<1> SUFFICES ASSUME ExitInv, [Next]_vars PROVE MainInv'
  OBVIOUS
<1>t. TypeOK /\ FrameInv /\ ThreadInv /\ MainInv
  BY DEF ExitInv
<1> USE DEF srv, thrd, sig
<1>1. ASSUME stack' = stack,
             mpc' = mpc \/ {mpc, mpc'} \cap {"final", "ended"} = {},
             accept_thread_' = accept_thread_ \/ mpc = "assign",
             joined' = joined,
             recv_threads_' = recv_threads_ \/ apc = "accept"
      PROVE  MainInv'
  <2>1. Depth' = Depth /\ InSaveExit' = InSaveExit
    BY <1>1 DEF Depth, InSaveExit
  <2> QED
    BY <1>t, <1>1, <2>1, MainKeeps DEF MainInv
<1>2. CASE Process \/ MainPause
  BY <1>1, <1>2 DEF Process, ProcessSocket, ProcessListen, ProcessReset,
     ProcessSpawn, ProcessAssign, MainPause, MainAt, GoMain
<1>3. CASE MainLoop
  <2>1. CASE GoMain("call")
    BY <1>1, <1>3, <2>1 DEF MainLoop, MainAt, GoMain
  <2>2. CASE mpc' = "final" /\ stack' = <<[sig |-> "none", at |-> "quit", i |-> 1]>>
    BY <2>2 DEF MainInv, InSaveExit, Depth
  <2> QED
    BY <1>3, <2>1, <2>2 DEF MainLoop
<1>4. CASE MainEnds
  <2>1. /\ stack = <<>> /\ mpc = "final" /\ mpc' = "ended"
        /\ UNCHANGED <<stack, accept_thread_, recv_threads_, joined>>
    BY <1>4 DEF MainEnds, MainAt, GoMain
  <2> QED
    BY <1>t, <2>1 DEF MainInv, InSaveExit, AllJoined, Depth
<1>5. CASE SaveExit
  BY <1>5, HandlerStep, MainExitStep
<1>6. CASE Accepted
  <2>1. /\ UNCHANGED <<stack, mpc, accept_thread_, joined>>
        /\ recv_threads_' = recv_threads_ \/ apc = "accept"
    BY <1>6 DEF Accepted, AcceptTest, AcceptNothing, AcceptClose, AcceptExit,
                AcceptClient
  <2> QED
    BY <1>1, <2>1
<1>7. CASE \/ \E c \in Clients : Connect(c) \/ Recvieve(c)
           \/ \E s \in Signals : SignalArrives(s)
           \/ UNCHANGED vars
  <2>1. UNCHANGED <<stack, mpc, accept_thread_, joined, recv_threads_>>
    BY <1>7 DEF Connect, Recvieve, ReceiveTest, ReceiveReturns, ReceiveCallback,
                ReceiveClose, GoReceive, SignalArrives, vars
  <2> QED
    BY <1>1, <2>1
<1>8. ASSUME NEW s \in Signals, HandleSignal(s) PROVE MainInv'
  <2> DEFINE f == [sig |-> s, at |-> "quit", i |-> 1]
  <2>1. f \in Frames /\ f.sig # "none"
    BY SignalsAssumption DEF Frames
  <2>2. /\ stack' = Append(stack, f)
        /\ UNCHANGED <<accept_thread_, recv_threads_, joined>>
        /\ mpc' = mpc \/ {mpc, mpc'} \cap {"final", "ended"} = {}
    BY <1>8 DEF HandleSignal
  <2> HIDE DEF f
  <2>3. /\ Depth' = Depth + 1 /\ Depth \in Nat /\ stack'[Depth + 1] = f
        /\ \A n \in 1 .. Depth : stack'[n] = stack[n]
    BY <1>t, <2>1, <2>2, StackCalls
  <2>4. stack = <<>> <=> Depth = 0
    BY <1>t DEF TypeOK, Depth
  <2>5. stack' # <<>>
    BY <1>t, <2>1, <2>2 DEF TypeOK
  <2>7. InSaveExit' <=> InSaveExit
    BY <2>1, <2>3, <2>4, <2>5 DEF InSaveExit
  <2>8. InSaveExit => stack'[1] = stack[1]
    BY <2>3, <2>4 DEF InSaveExit
  <2>9. \A n \in 2 .. Depth' : stack'[n].sig # "none"
    BY <1>t, <2>1, <2>3 DEF MainInv
  <2> QED
    BY <1>t, <2>2, <2>7, <2>8, <2>9, MainKeeps
<1> QED
  BY <1>2, <1>3, <1>4, <1>5, <1>6, <1>7, <1>8 DEF Next, MainThread

(* What NothingLeft needs holds in every reachable state.                  *)
LEMMA ExitCorrect == Spec => []ExitInv
<1>1. ExitInv /\ [Next]_vars => ExitInv'
  BY TypeStep, FrameStep, ThreadStep, MainStep DEF ExitInv
<1> QED
  BY <1>1, ExitInit, PTL DEF Spec

(* When main returns, every thread has ended and none is still joinable,   *)
(* for any number of connections and signals and whatever step a handler   *)
(* came into.                                                              *)
THEOREM NothingLeftCorrect == Spec => []NothingLeft
<1>1. ExitInv => NothingLeft
  <2> SUFFICES ASSUME ExitInv, mpc = "ended"
               PROVE  /\ AllThreadsEnded /\ accept_thread_ # "joinable"
                      /\ \A n \in DOMAIN recv_threads_ : recv_threads_[n] \in joined
    BY DEF NothingLeft
  <2>t. TypeOK /\ ThreadInv /\ MainInv
    BY DEF ExitInv
  <2>1. accept_thread_ # "joinable" /\ AllJoined
    BY <2>t DEF MainInv
  <2>2. apc \in {"unborn", "done"}
    <3>1. accept_thread_ \in {"null", "joined"}
      BY <2>t, <2>1 DEF TypeOK
    <3> QED
      BY <2>t, <3>1 DEF ThreadInv, Early
  <2>3. \A c \in Clients : rpc[c] \in {"away", "backlog", "done"}
    BY <2>t, <2>1 DEF ThreadInv, AllJoined
  <2>4. DOMAIN recv_threads_ = 1 .. Len(recv_threads_)
    BY <2>t DEF TypeOK
  <2> QED
    BY <2>1, <2>2, <2>3, <2>4 DEF AllThreadsEnded, AllJoined
<1> QED
  BY <1>1, ExitCorrect, PTL
-----------------------------------------------------------------------------
Past == {"receive", "rjoin", "close", "forget", "lock", "unlock", "end"}
NotYet == Early \cup {"assign"}

(* The accept thread was started, or may still be.                         *)
Threaded == accept_thread_ # "null" \/ mpc \in NotYet

(* When no signal came before Process returned, SaveExit sees the accept   *)
(* thread, and goes past the join only when that has ended, after closing  *)
(* the socket and forgetting its number.                                   *)
CalmInv ==
  calm =>
    /\ mpc \in NotYet => stack = <<>> /\ pending = {} /\ ~ quit
    /\ \A n \in 1 .. Depth : stack[n].at \in Past => accept_thread_ # "joinable"
    /\ mpc = "process" => closes = 0
    /\ Threaded =>
         /\ closes <= 1
         /\ sockfd = "s" /\ apc # "forget" => closes = 0
    /\ apc = "done" => sockfd = "none"

(* The frames of CalmInv when the activation on top moves.                 *)
LEMMA PastMoves ==
  ASSUME TypeOK, stack # <<>>, NEW f \in Frames, stack' = [stack EXCEPT ![Depth] = f],
         \A n \in 1 .. Depth : stack[n].at \in Past => accept_thread_ # "joinable",
         accept_thread_' = accept_thread_ \/ accept_thread_' = "joined",
         f.at \in Past => accept_thread_' # "joinable"
  PROVE  \A n \in 1 .. Depth' : stack'[n].at \in Past => accept_thread_' # "joinable"
<1>1. /\ Depth' = Depth /\ stack'[Depth] = f /\ Depth \in Nat /\ Depth >= 1
      /\ \A n \in 1 .. Depth - 1 : stack'[n] = stack[n]
  BY StackMoves, StackTop
<1> QED
  BY <1>1

(* A step of SaveExit keeps the account of the listening socket.           *)
LEMMA CalmSaveExit ==
  ASSUME ExitInv, CalmInv, SaveExit, calm
  PROVE  CalmInv'
<1>t. TypeOK /\ FrameInv /\ ThreadInv /\ MainInv
  BY DEF ExitInv
<1> USE DEF srv, thrd, sig
<1>1. /\ stack # <<>> /\ mpc' = mpc /\ UNCHANGED <<apc, pending, calm, quit>>
      /\ accept_thread_' = accept_thread_ \/ accept_thread_' = "joined"
  BY DEF SaveExit, SaveQuit, SaveTestAccept, SaveJoinAccept, SaveTestReceive,
         SaveJoinReceive, SaveClose, SaveForget, ExitLock, ExitUnlock, HandlerReturns,
         TopAt, GoTop, Abort
<1>2. mpc \notin NotYet
  BY <1>1 DEF CalmInv
<1>3. \A n \in 1 .. Depth : stack[n].at \in Past => accept_thread_ # "joinable"
  BY DEF CalmInv
<1>4. Top.at \in Past => accept_thread_ # "joinable"
  BY <1>t, <1>1, <1>3, StackTop DEF Top
<1> DEFINE Kept ==
      \A n \in 1 .. Depth' : stack'[n].at \in Past => accept_thread_' # "joinable"
<1>5. ASSUME stack' = stack PROVE Kept
  <2>1. Depth' = Depth
    BY <1>5 DEF Depth
  <2> QED
    BY <1>1, <1>3, <1>5, <2>1
<1>6. ASSUME NEW l \in Labels, GoTop(l), l \in Past => accept_thread_' # "joinable"
      PROVE  Kept
  <2>1. Moved(l, Top.i).at = l
    BY DEF Moved
  <2> HIDE DEF Kept
  <2> QED
    BY <1>t, <1>1, <1>3, <1>6, <2>1, GoesTo, PastMoves DEF Kept
<1>7. ASSUME \/ stack' = [stack EXCEPT ![Depth].i = @ + 1] /\ Top.at = "receive"
             \/ stack' = [stack EXCEPT ![Depth].at = "receive", ![Depth].i = @ + 1],
             Top.at \in Past
      PROVE  Kept
  <2> QED
    BY <1>t, <1>1, <1>3, <1>4, <1>7, GoesOn, PastMoves
<1>8. ASSUME stack' = SubSeq(stack, 1, Depth - 1) PROVE Kept
  <2>1. /\ Depth' = Depth - 1 /\ Depth \in Nat
        /\ \A n \in 1 .. Depth - 1 : stack'[n] = stack[n]
    BY <1>t, <1>1, <1>8, StackReturns, StackTop
  <2> QED
    BY <1>1, <1>3, <2>1
<1>9. Kept
  <2>1. CASE SaveQuit \/ ExitLock \/ ExitUnlock
    BY <1>4, <1>6, <2>1 DEF SaveQuit, ExitLock, ExitUnlock, TopAt, Labels, Past
  <2>2. CASE SaveTestAccept
    BY <1>6, <2>2 DEF SaveTestAccept, Labels, Past
  <2>3. CASE SaveJoinAccept
    BY <1>5, <1>6, <2>3 DEF SaveJoinAccept, Abort, Labels
  <2>4. CASE SaveTestReceive \/ SaveJoinReceive
    <3>1. Top.at \in Past /\ accept_thread_' = accept_thread_
      BY <2>4 DEF SaveTestReceive, SaveJoinReceive, TopAt, Past, Abort
    <3>2. \/ stack' = stack \/ GoTop("close") \/ GoTop("rjoin")
          \/ stack' = [stack EXCEPT ![Depth].i = @ + 1] /\ Top.at = "receive"
          \/ stack' = [stack EXCEPT ![Depth].at = "receive", ![Depth].i = @ + 1]
      BY <2>4 DEF SaveTestReceive, SaveJoinReceive, TopAt, Abort
    <3> QED
      BY <1>4, <1>5, <1>6, <1>7, <3>1, <3>2 DEF Labels
  <2>5. CASE SaveClose \/ SaveForget \/ HandlerReturns
    <3>1. Top.at \in Past /\ accept_thread_' = accept_thread_
      BY <2>5 DEF SaveClose, SaveForget, HandlerReturns, TopAt, Past
    <3>2. stack' = SubSeq(stack, 1, Depth - 1) \/ GoTop("lock") \/ GoTop("forget")
      BY <2>5 DEF SaveClose, SaveForget, HandlerReturns
    <3> QED
      BY <1>4, <1>6, <1>8, <3>1, <3>2 DEF Labels
  <2> QED
    BY <2>1, <2>2, <2>3, <2>4, <2>5 DEF SaveExit
<1>12. Threaded' => Threaded
  <2>1. accept_thread_' = accept_thread_ \/ accept_thread_ = "joinable"
    BY DEF SaveExit, SaveQuit, SaveTestAccept, SaveJoinAccept, SaveTestReceive,
           SaveJoinReceive, SaveClose, SaveForget, ExitLock, ExitUnlock, HandlerReturns,
           Abort
  <2> QED
    BY <1>1, <2>1 DEF Threaded
<1>10. /\ Threaded' =>
            /\ closes' <= 1
            /\ sockfd' = "s" /\ apc' # "forget" => closes' = 0
       /\ apc' = "done" => sockfd' = "none"
  <2>1. CASE SaveClose
    <3>1. accept_thread_ # "joinable" /\ sockfd' = sockfd
      BY <1>4, <2>1 DEF SaveClose, TopAt, Past
    <3>2. Threaded => apc = "done"
      BY <1>t, <1>2, <3>1 DEF TypeOK, ThreadInv, Threaded
    <3>3. apc = "done" => sockfd = "none"
      BY DEF CalmInv
    <3>4. Threaded => closes' = closes
      BY <2>1, <3>2, <3>3 DEF SaveClose, CloseListener
    <3> QED
      BY <1>1, <1>12, <3>1, <3>2, <3>3, <3>4 DEF CalmInv
  <2>2. CASE SaveForget
    <3>1. sockfd' = "none" /\ closes' = closes
      BY <2>2 DEF SaveForget
    <3> QED
      BY <1>12, <3>1 DEF CalmInv
  <2>3. CASE ~ SaveClose /\ ~ SaveForget
    <3>1. UNCHANGED <<closes, sockfd>>
      BY <2>3
      DEF SaveExit, SaveQuit, SaveTestAccept, SaveJoinAccept, SaveTestReceive,
                  SaveJoinReceive, ExitLock, ExitUnlock, HandlerReturns, Abort
    <3> QED
      BY <1>1, <1>12, <3>1 DEF CalmInv
  <2> QED
    BY <2>1, <2>2, <2>3
<1>11. mpc' \notin NotYet /\ mpc' # "process"
  BY <1>1, <1>2 DEF NotYet, Early
<1> QED
  BY <1>9, <1>10, <1>11 DEF CalmInv

(* Nothing is closed when main starts.                                     *)
LEMMA CalmInit == Init => CalmInv
  BY DEF Init, CalmInv, Depth

(* Every step keeps the account of the listening socket.                   *)
LEMMA CalmStep == ExitInv /\ CalmInv /\ [Next]_vars => CalmInv'
<1> SUFFICES ASSUME ExitInv, CalmInv, [Next]_vars, calm' PROVE CalmInv'
  BY DEF CalmInv
<1>t. TypeOK /\ FrameInv /\ ThreadInv /\ MainInv
  BY DEF ExitInv
<1> USE DEF srv, thrd, sig
<1>1. CASE SaveExit
  <2>1. calm
    BY <1>1
    DEF SaveExit, SaveQuit, SaveTestAccept, SaveJoinAccept, SaveTestReceive,
                SaveJoinReceive, SaveClose, SaveForget, ExitLock, ExitUnlock,
                HandlerReturns, Abort
  <2> QED
    BY <1>1, <2>1, CalmSaveExit
<1>2. ASSUME stack' = stack, accept_thread_' = accept_thread_ \/ stack = <<>>, calm
      PROVE  \A n \in 1 .. Depth' : stack'[n].at \in Past => accept_thread_' # "joinable"
  <2>1. Depth' = Depth /\ (stack = <<>> => Depth = 0)
    BY <1>2 DEF Depth
  <2> QED
    BY <1>2, <2>1 DEF CalmInv
<1>3. CASE Process
  <2>1. stack' = stack /\ stack = <<>> /\ calm /\ UNCHANGED <<pending, quit, closes>>
        /\ mpc \in NotYet
    BY <1>3 DEF Process, ProcessSocket, ProcessListen, ProcessReset, ProcessSpawn,
                ProcessAssign, MainAt, GoMain, NotYet, Early
  <2>3. Threaded
    BY <2>1 DEF Threaded
  <2>2. /\ mpc' # "process"
        /\ apc' = apc \/ (apc = "unborn" /\ apc' = "test")
        /\ \/ mpc = "process" /\ apc' = "unborn"
           \/ sockfd' = sockfd
    BY <1>3, <1>t
    DEF Process, ProcessSocket, ProcessListen, ProcessReset, ProcessSpawn,
                ProcessAssign, MainAt, GoMain, ThreadInv, Early
  <2> QED
    BY <1>2, <2>1, <2>2, <2>3 DEF CalmInv
<1>4. CASE MainLoop \/ MainPause \/ MainEnds
  <2>1. calm /\ mpc \notin NotYet /\ mpc' \notin NotYet
        /\ UNCHANGED <<accept_thread_, closes, sockfd, apc>> /\ Threaded' = Threaded
    BY <1>4 DEF Threaded, MainLoop, MainPause, MainEnds, MainAt, GoMain, NotYet, Early
  <2>2. stack' = stack \/ stack' = <<[sig |-> "none", at |-> "quit", i |-> 1]>>
    BY <1>4 DEF MainLoop, MainPause, MainEnds, GoMain
  <2>3. CASE stack' = stack
    BY <1>2, <2>1, <2>3 DEF CalmInv, NotYet, Early
  <2>4. CASE stack' = <<[sig |-> "none", at |-> "quit", i |-> 1]>>
    <3>1. \A n \in 1 .. Depth' : stack'[n].at \notin Past
      BY <2>4 DEF Depth, Past
    <3> QED
      BY <2>1, <3>1 DEF CalmInv, NotYet, Early
  <2> QED
    BY <2>2, <2>3, <2>4
<1>5. CASE Accepted
  <2>1. /\ stack' = stack /\ calm /\ UNCHANGED <<pending, quit, mpc, accept_thread_>>
        /\ apc # "unborn" /\ apc # "done"
    BY <1>5 DEF Accepted, AcceptTest, AcceptNothing, AcceptClose, AcceptExit,
                AcceptClient
  <2>4. Threaded
    BY <1>t, <2>1 DEF ThreadInv, Threaded, NotYet
  <2>2. /\ closes' <= 1
        /\ sockfd' = "s" /\ apc' # "forget" => closes' = 0
        /\ apc' = "done" => sockfd' = "none"
    BY <1>5, <2>1, <2>4
    DEF Accepted, AcceptTest, AcceptNothing, AcceptClose, AcceptExit,
                AcceptClient, CloseListener, CalmInv
  <2>3. mpc # "process"
    BY <1>t, <2>1 DEF ThreadInv, Early
  <2> QED
    BY <1>2, <2>1, <2>2, <2>3 DEF CalmInv
<1>6. CASE \/ \E c \in Clients : Connect(c) \/ Recvieve(c)
           \/ UNCHANGED vars
  <2>1. UNCHANGED <<stack, calm, pending, quit, mpc, accept_thread_, closes, sockfd, apc>>
    BY <1>6 DEF Connect, Recvieve, ReceiveTest, ReceiveReturns, ReceiveCallback,
                ReceiveClose, GoReceive, vars
  <2> QED
    BY <1>2, <2>1 DEF CalmInv, Threaded
<1>7. ASSUME NEW s \in Signals, SignalArrives(s) PROVE CalmInv'
  <2>1. /\ UNCHANGED <<stack, quit, mpc, accept_thread_, closes, sockfd, apc>>
        /\ calm /\ mpc \notin NotYet
    BY <1>7 DEF SignalArrives, NotYet, Early
  <2> QED
    BY <1>2, <2>1 DEF CalmInv, Threaded, NotYet, Early
<1>8. ASSUME NEW s \in Signals, HandleSignal(s) PROVE CalmInv'
  <2> DEFINE f == [sig |-> s, at |-> "quit", i |-> 1]
  <2>1. f \in Frames /\ f.at \notin Past
    BY DEF Frames, Past
  <2>2. /\ stack' = Append(stack, f) /\ calm /\ s \in pending
        /\ UNCHANGED <<accept_thread_, closes, sockfd, apc>>
        /\ mpc' = mpc \/ (mpc = "pause" /\ mpc' = "loop")
    BY <1>8 DEF HandleSignal
  <2> HIDE DEF f
  <2>3. /\ Depth' = Depth + 1 /\ Depth \in Nat /\ stack'[Depth + 1] = f
        /\ \A n \in 1 .. Depth : stack'[n] = stack[n]
    BY <1>t, <2>1, <2>2, StackCalls
  <2>4. ASSUME NEW n \in 1 .. Depth', stack'[n].at \in Past
        PROVE  accept_thread_' # "joinable"
    <3>1. n # Depth + 1
      BY <2>1, <2>3, <2>4
    <3>2. n \in 1 .. Depth /\ stack'[n] = stack[n]
      BY <2>3, <3>1
    <3> QED
      BY <2>2, <2>4, <3>2 DEF CalmInv
  <2>5. mpc' \notin NotYet /\ mpc' # "process"
    BY <2>2 DEF CalmInv, NotYet, Early
  <2> QED
    BY <2>2, <2>4, <2>5 DEF CalmInv, Threaded
<1> QED
  BY <1>1, <1>3, <1>4, <1>5, <1>6, <1>7, <1>8 DEF Next, MainThread

(* The listening socket's number is closed once, for any number of         *)
(* connections, signals and kinds of signals, in a server that had started *)
(* and has an accept thread.                                               *)
THEOREM ClosedOnceCorrect == Spec => []ListenerClosedOnce
<1>1. Spec => []CalmInv
  BY ExitCorrect, CalmInit, CalmStep, PTL DEF Spec
<1>2. CalmInv => ListenerClosedOnce
  BY DEF CalmInv, ListenerClosedOnce, Started, Threaded
<1> QED
  BY <1>1, <1>2, PTL
-----------------------------------------------------------------------------
(* The signals that wait or are handled have arrived.                      *)
KindInv ==
  /\ IsFiniteSet(kinds) /\ pending \subseteq kinds
  /\ \A n \in 1 .. Depth : stack[n].sig \in kinds \cup {"none"}
  /\ apc = "unborn" => recv_threads_ = <<>>

OneKind == \A s, t \in kinds : s = t

(* A server in which Started holds knows one kind of signal.               *)
LEMMA StartedIsOneKind == KindInv /\ Started => calm /\ OneKind
<1> SUFFICES ASSUME IsFiniteSet(kinds), Cardinality(kinds) <= 1,
                    NEW s \in kinds, NEW t \in kinds, s # t
             PROVE  FALSE
  BY DEF KindInv, Started, OneKind
<1>1. /\ IsFiniteSet({}) /\ Cardinality({}) = 0
      /\ IsFiniteSet({s}) /\ Cardinality({s}) = 1
  <2>1. IsFiniteSet({} \cup {s}) /\ Cardinality({} \cup {s}) = 1
    BY FS_EmptySet, FS_AddElement
  <2>2. {} \cup {s} = {s}
    OBVIOUS
  <2> QED
    BY <2>1, <2>2, FS_EmptySet
<1>2. IsFiniteSet({s} \cup {t}) /\ Cardinality({s} \cup {t}) = 2
  <2>1. t \notin {s}
    OBVIOUS
  <2>2. /\ IsFiniteSet({s} \cup {t})
        /\ Cardinality({s} \cup {t}) = Cardinality({s}) + 1
    BY <1>1, <2>1, FS_AddElement, Zenon
  <2> QED
    BY <1>1, <2>2
<1>3. {s} \cup {t} \subseteq kinds
  OBVIOUS
<1>4. Cardinality({s} \cup {t}) <= Cardinality(kinds)
  BY <1>3, FS_Subset
<1>5. Cardinality(kinds) \in Nat
  BY FS_CardinalityType
<1> QED
  BY <1>2, <1>4, <1>5

(* No signal has come when main starts.                                    *)
LEMMA KindInit == Init => KindInv
  BY FS_EmptySet DEF Init, KindInv, Depth

(* Every step keeps what is known of the signals that came.                *)
LEMMA KindStep == ExitInv /\ KindInv /\ [Next]_vars => KindInv'
<1> SUFFICES ASSUME ExitInv, KindInv, [Next]_vars PROVE KindInv'
  OBVIOUS
<1>t. TypeOK /\ ThreadInv
  BY DEF ExitInv
<1> USE DEF srv, thrd, sig
<1>1. apc' = "unborn" => recv_threads_' = <<>>
  <2>1. apc' = "unborn" => apc = "unborn" /\ recv_threads_' = recv_threads_
    BY DEF Next, MainThread, Process, ProcessSocket, ProcessListen, ProcessReset,
           ProcessSpawn, ProcessAssign, MainLoop, MainPause, MainEnds, SaveExit,
           SaveQuit, SaveTestAccept, SaveJoinAccept, SaveTestReceive, SaveJoinReceive,
           SaveClose, SaveForget, ExitLock, ExitUnlock, HandlerReturns, Abort,
           Accepted, AcceptTest,
           AcceptNothing, AcceptClose, AcceptExit, AcceptClient, Connect, Recvieve,
           ReceiveTest, ReceiveReturns, ReceiveCallback, ReceiveClose, GoReceive,
           SignalArrives, HandleSignal, vars
  <2> QED
    BY <2>1 DEF KindInv
<1>2. ASSUME stack' = stack, UNCHANGED <<kinds, pending>> PROVE KindInv'
  <2>1. Depth' = Depth
    BY <1>2 DEF Depth
  <2> QED
    BY <1>1, <1>2, <2>1 DEF KindInv
<1>3. ASSUME NEW f \in Frames, stack # <<>>, stack' = [stack EXCEPT ![Depth] = f],
             f.sig = Top.sig, UNCHANGED <<kinds, pending>>
      PROVE  KindInv'
  <2>1. /\ Depth' = Depth /\ stack'[Depth] = f /\ Depth \in Nat /\ Depth >= 1
        /\ \A n \in 1 .. Depth - 1 : stack'[n] = stack[n]
    BY <1>t, <1>3, StackMoves, StackTop
  <2>2. \A n \in 1 .. Depth : stack'[n].sig = stack[n].sig
    BY <1>3, <2>1 DEF Top
  <2> QED
    BY <1>1, <1>3, <2>1, <2>2 DEF KindInv
<1>4. CASE SaveExit
  <2>1. stack # <<>> /\ UNCHANGED <<kinds, pending>>
    BY <1>4
    DEF SaveExit, SaveQuit, SaveTestAccept, SaveJoinAccept, SaveTestReceive,
                SaveJoinReceive, SaveClose, SaveForget, ExitLock, ExitUnlock,
                HandlerReturns, Abort, TopAt
  <2>2. \/ stack' = stack \/ \E l \in Labels : GoTop(l)
        \/ stack' = [stack EXCEPT ![Depth].i = @ + 1] /\ Top.at = "receive"
        \/ stack' = [stack EXCEPT ![Depth].at = "receive", ![Depth].i = @ + 1]
        \/ stack' = SubSeq(stack, 1, Depth - 1)
    BY <1>4
    DEF SaveExit, SaveQuit, SaveTestAccept, SaveJoinAccept, SaveTestReceive,
                SaveJoinReceive, SaveClose, SaveForget, ExitLock, ExitUnlock,
                HandlerReturns, Abort, TopAt, Labels
  <2>3. ASSUME NEW l \in Labels, GoTop(l) PROVE KindInv'
    BY <1>t, <1>3, <2>1, <2>3, GoesTo DEF Moved
  <2>4. ASSUME \/ stack' = [stack EXCEPT ![Depth].i = @ + 1] /\ Top.at = "receive"
               \/ stack' = [stack EXCEPT ![Depth].at = "receive", ![Depth].i = @ + 1]
        PROVE  KindInv'
    BY <1>t, <1>3, <2>1, <2>4, GoesOn DEF Moved
  <2>5. CASE stack' = SubSeq(stack, 1, Depth - 1)
    <3>1. /\ Depth' = Depth - 1 /\ Depth \in Nat
          /\ \A n \in 1 .. Depth - 1 : stack'[n] = stack[n]
      BY <1>t, <2>1, <2>5, StackReturns, StackTop
    <3> QED
      BY <1>1, <2>1, <3>1 DEF KindInv
  <2> QED
    BY <1>2, <2>1, <2>2, <2>3, <2>4, <2>5
<1>5. CASE MainThread /\ ~ SaveExit
  <2>1. UNCHANGED <<kinds, pending>>
    BY <1>5 DEF MainThread, Process, ProcessSocket, ProcessListen, ProcessReset,
                ProcessSpawn, ProcessAssign, MainLoop, MainPause, MainEnds
  <2>2. stack' = stack \/ stack' = <<[sig |-> "none", at |-> "quit", i |-> 1]>>
    BY <1>5 DEF MainThread, Process, ProcessSocket, ProcessListen, ProcessReset,
                ProcessSpawn, ProcessAssign, MainLoop, MainPause, MainEnds, GoMain
  <2>3. CASE stack' = <<[sig |-> "none", at |-> "quit", i |-> 1]>>
    BY <1>1, <2>1, <2>3 DEF KindInv, Depth
  <2> QED
    BY <1>2, <2>1, <2>2, <2>3
<1>6. CASE Accepted \/ (\E c \in Clients : Connect(c) \/ Recvieve(c)) \/ UNCHANGED vars
  <2>1. UNCHANGED <<stack, kinds, pending>>
    BY <1>6 DEF Accepted, AcceptTest, AcceptNothing, AcceptClose, AcceptExit,
                AcceptClient, Connect, Recvieve, ReceiveTest, ReceiveReturns,
                ReceiveCallback, ReceiveClose, GoReceive, vars
  <2> QED
    BY <1>2, <2>1
<1>7. ASSUME NEW s \in Signals, SignalArrives(s) PROVE KindInv'
  <2>1. /\ stack' = stack /\ kinds' = kinds \cup {s} /\ pending' = pending \cup {s}
    BY <1>7 DEF SignalArrives
  <2>2. IsFiniteSet(kinds')
    BY <2>1, FS_AddElement DEF KindInv
  <2>3. Depth' = Depth
    BY <2>1 DEF Depth
  <2> QED
    BY <1>1, <2>1, <2>2, <2>3 DEF KindInv
<1>8. ASSUME NEW s \in Signals, HandleSignal(s) PROVE KindInv'
  <2> DEFINE f == [sig |-> s, at |-> "quit", i |-> 1]
  <2>1. f \in Frames /\ f.sig = s
    BY DEF Frames
  <2>2. /\ stack' = Append(stack, f) /\ s \in pending /\ pending' = pending \ {s}
        /\ kinds' = kinds
    BY <1>8 DEF HandleSignal
  <2> HIDE DEF f
  <2>3. /\ Depth' = Depth + 1 /\ Depth \in Nat /\ stack'[Depth + 1] = f
        /\ \A n \in 1 .. Depth : stack'[n] = stack[n]
    BY <1>t, <2>1, <2>2, StackCalls
  <2>4. ASSUME NEW n \in 1 .. Depth' PROVE stack'[n].sig \in kinds' \cup {"none"}
    <3>1. CASE n = Depth + 1
      BY <2>1, <2>2, <2>3, <3>1 DEF KindInv
    <3>2. CASE n # Depth + 1
      <4>1. n \in 1 .. Depth /\ stack'[n] = stack[n]
        BY <2>3, <3>2
      <4> QED
        BY <2>2, <4>1 DEF KindInv
    <3> QED
      BY <3>1, <3>2
  <2> QED
    BY <1>1, <2>2, <2>4 DEF KindInv
<1> QED
  BY <1>4, <1>5, <1>6, <1>7, <1>8 DEF Next

(* One kind of signal, after Process: one handler at most, which main never*)
(* meets inside a join, and main's own SaveExit finds everything joined.   *)
Done == accept_thread_ # "joinable" /\ AllJoined

HandlerOnTop == stack # <<>> /\ Top.sig # "none"

(* What the handler's SaveExit has done and has still to do.               *)
HandlerInv ==
  /\ Top.at \in {"quit", "accept", "join"} => Top.i = 1
  /\ Top.at = "join" => accept_thread_ = "joinable"
  /\ Top.at \in {"receive", "rjoin"} =>
       \A n \in 1 .. Len(recv_threads_) : n < Top.i => recv_threads_[n] \in joined
  /\ Top.at = "rjoin" => recv_threads_[Top.i] \notin joined
  /\ Top.at \in {"close", "forget", "lock", "unlock", "end"} => AllJoined

(* Before the first signal.                                                *)
BeforeInv ==
  /\ ~ HandlerOnTop
  /\ mpc \notin {"final", "ended"} => ~ quit_ /\ apc \notin {"close", "forget", "done"}
  /\ mpc \in {"final", "ended"} => accept_thread_ = "null"
  /\ exited_ /\ mpc # "process" => mpc \notin NotYet /\ accept_thread_ = "null"

OnceInv ==
  calm /\ OneKind =>
    /\ alive
    /\ \A n \in 1 .. Depth : stack[n].sig # "none" => n = Depth
    /\ HandlerOnTop => HandlerInv
    /\ InSaveExit => Done /\ stack[1].at \notin {"join", "rjoin"}
    /\ quit /\ ~ HandlerOnTop => Done
    /\ ~ quit => BeforeInv

NeverInv == ExitInv /\ CalmInv /\ KindInv /\ OnceInv

(* recv_threads_ has its last thread when the accept thread has been       *)
(* joined.                                                                 *)
LEMMA DoneStays ==
  ASSUME NeverInv, [Next]_vars, calm, accept_thread_ # "joinable", mpc \notin NotYet
  PROVE  /\ recv_threads_' = recv_threads_ /\ accept_thread_' # "joinable"
         /\ AllJoined => AllJoined'
<1>t. TypeOK /\ ThreadInv
  BY DEF NeverInv, ExitInv
<1>1. apc \in {"unborn", "done"}
  BY <1>t DEF TypeOK, ThreadInv, NotYet
<1>2. recv_threads_' = recv_threads_ /\ accept_thread_' # "joinable" /\ joined \subseteq joined'
  BY <1>1
  DEF Next, MainThread, Process, ProcessSocket, ProcessListen, ProcessReset,
      ProcessSpawn, ProcessAssign, MainLoop, MainPause, MainEnds, SaveExit,
      SaveQuit, SaveTestAccept, SaveJoinAccept, SaveTestReceive, SaveJoinReceive,
      SaveClose, SaveForget, ExitLock, ExitUnlock, HandlerReturns, Abort, Accepted,
      AcceptTest,
      AcceptNothing, AcceptClose, AcceptExit, AcceptClient, Connect, Recvieve,
      ReceiveTest, ReceiveReturns, ReceiveCallback, ReceiveClose, GoReceive,
      SignalArrives, HandleSignal, vars, thrd, MainAt, NotYet, Early
<1> QED
  BY <1>2 DEF AllJoined

(* No join has begun when main starts.                                     *)
LEMMA OnceInit == Init => OnceInv
  BY DEF Init, OnceInv, Depth, HandlerOnTop, InSaveExit, BeforeInv

(* A step that leaves SaveExit's activations alone.                        *)
LEMMA OnceOthers ==
  ASSUME NeverInv, [Next]_vars, calm, OneKind, stack' = stack,
         UNCHANGED <<quit, alive, accept_thread_, joined>>, mpc \notin NotYet,
         mpc' = mpc \/ {mpc, mpc'} \subseteq {"loop", "call", "pause"}
           \/ {mpc, mpc'} \subseteq {"final", "ended"},
         ~ quit => BeforeInv'
  PROVE  OnceInv'
<1>t. ExitInv /\ TypeOK /\ ThreadInv /\ MainInv /\ CalmInv /\ OnceInv
  BY DEF NeverInv, ExitInv
<1>1. Depth' = Depth /\ Top' = Top /\ (HandlerOnTop' <=> HandlerOnTop)
      /\ (InSaveExit' <=> InSaveExit)
  BY DEF Depth, Top, HandlerOnTop, InSaveExit
<1>2. Done => Done'
  BY <1>t, DoneStays DEF Done
<1>3. HandlerOnTop => HandlerInv'
  <2> SUFFICES ASSUME HandlerOnTop PROVE HandlerInv'
    OBVIOUS
  <2>1. HandlerInv
    BY <1>t DEF OnceInv
  <2>2. Depth \in Nat /\ Depth >= 1 /\ Top = stack[Depth]
    BY <1>t, StackTop DEF HandlerOnTop, Top
  <2>3. Top.at \in Past => recv_threads_' = recv_threads_ /\ (AllJoined => AllJoined')
    BY <1>t, <2>2, DoneStays DEF CalmInv
  <2> QED
    BY <1>1, <2>1, <2>3 DEF HandlerInv, Past
<1> QED
  BY <1>t, <1>1, <1>2, <1>3 DEF OnceInv

(* A step of the handler's SaveExit: it does not abort.                    *)
LEMMA OnceHandler ==
  ASSUME NeverInv, [Next]_vars, SaveExit, calm, OneKind, HandlerOnTop
  PROVE  OnceInv'
<1>t. ExitInv /\ TypeOK /\ FrameInv /\ ThreadInv /\ MainInv /\ CalmInv /\ OnceInv
  BY DEF NeverInv, ExitInv
<1> USE DEF srv, thrd, sig
<1>1. /\ stack # <<>> /\ Top.sig # "none" /\ quit /\ alive /\ mpc \notin NotYet
      /\ \A n \in 1 .. Depth : stack[n].sig # "none" => n = Depth
  BY <1>t DEF HandlerOnTop, OnceInv, BeforeInv, CalmInv
<1>2. /\ Top = stack[Depth] /\ Top \in Frames /\ Depth \in Nat /\ Depth >= 1
      /\ Top.i \in Nat /\ Top.i >= 1 /\ Len(recv_threads_) \in Nat
      /\ Top.at = "rjoin" => Top.i <= Len(recv_threads_)
  <2>1. Top = stack[Depth] /\ Top \in Frames /\ Depth \in Nat /\ Depth >= 1
    BY <1>t, <1>1, StackTop DEF Top
  <2> QED
    BY <1>t, <2>1 DEF TypeOK, FrameInv, Frames
<1>3. quit' = quit /\ recv_threads_' = recv_threads_
  BY DEF SaveExit, SaveQuit, SaveTestAccept, SaveJoinAccept, SaveTestReceive,
         SaveJoinReceive, SaveClose, SaveForget, ExitLock, ExitUnlock, HandlerReturns,
         Abort
<1>4. Done => Done'
  BY <1>t, <1>1, DoneStays DEF Done
<1>5. ~ (Depth = 1 /\ InSaveExit)
  BY <1>1, <1>2 DEF InSaveExit
<1>m. /\ HandlerInv
      /\ Top.at \in Past => accept_thread_ # "joinable"
  BY <1>t, <1>2 DEF OnceInv, CalmInv
<1>6. ASSUME NEW l \in Labels, NEW i, Moved(l, i) \in Frames, alive',
             stack' = [stack EXCEPT ![Depth] = Moved(l, i)],
             l \in {"quit", "accept", "join"} => i = 1,
             l = "join" => accept_thread_' = "joinable",
             l \in {"receive", "rjoin"} =>
               \A n \in 1 .. Len(recv_threads_) :
                 n < i => recv_threads_[n] \in joined',
             l = "rjoin" => recv_threads_[i] \notin joined',
             l \in {"close", "forget", "lock", "unlock", "end"} => AllJoined'
      PROVE  OnceInv'
  <2>1. /\ Moved(l, i).sig = Top.sig /\ Moved(l, i).at = l /\ Moved(l, i).i = i
    BY DEF Moved
  <2>2. /\ Depth' = Depth /\ stack'[Depth] = Moved(l, i) /\ stack' # <<>>
        /\ \A n \in 1 .. Depth - 1 : stack'[n] = stack[n]
    BY <1>t, <1>1, <1>6, StackMoves
  <2>3. InSaveExit' <=> InSaveExit /\ (InSaveExit => stack'[1] = stack[1])
    BY <1>t, <1>1, <1>5, <1>6, <2>1, HandlerMoves
  <2>4. Top' = Moved(l, i) /\ HandlerOnTop'
    BY <1>1, <2>1, <2>2 DEF Top, HandlerOnTop
  <2>5. \A n \in 1 .. Depth' : stack'[n].sig # "none" => n = Depth'
    BY <1>1, <1>2, <2>2
  <2>6. HandlerInv'
    BY <1>3, <1>6, <2>1, <2>4 DEF HandlerInv
  <2> QED
    BY <1>t, <1>1, <1>3, <1>4, <1>6, <2>3, <2>4, <2>5, <2>6 DEF OnceInv
<1>7. ASSUME NEW l \in Labels, GoTop(l), alive',
             l \in {"quit", "accept", "join"} => Top.i = 1,
             l = "join" => accept_thread_' = "joinable",
             l \in {"receive", "rjoin"} =>
               \A n \in 1 .. Len(recv_threads_) :
                 n < Top.i => recv_threads_[n] \in joined',
             l = "rjoin" => recv_threads_[Top.i] \notin joined',
             l \in {"close", "forget", "lock", "unlock", "end"} => AllJoined'
      PROVE  OnceInv'
  BY <1>t, <1>1, <1>6, <1>7, GoesTo
<1>8. ASSUME \/ stack' = [stack EXCEPT ![Depth].i = @ + 1] /\ Top.at = "receive"
             \/ stack' = [stack EXCEPT ![Depth].at = "receive", ![Depth].i = @ + 1],
             alive', \A n \in 1 .. Len(recv_threads_) :
                       n < Top.i + 1 => recv_threads_[n] \in joined'
      PROVE  OnceInv'
  BY <1>t, <1>1, <1>6, <1>8, GoesOn DEF Labels
<1>9. OuterJoins("join", Top.i) => FALSE
  <2> SUFFICES ASSUME NEW n \in 1 .. Depth - 1, stack[n].at = "join" PROVE FALSE
    BY DEF OuterJoins
  <2>1. n \in 1 .. Depth /\ n # Depth
    BY <1>2
  <2>2. n = 1 /\ InSaveExit
    BY <1>t, <1>1, <2>1 DEF MainInv, InSaveExit
  <2> QED
    BY <1>t, <2>2 DEF OnceInv
<1>10. OuterJoins("rjoin", Top.i) => FALSE
  <2> SUFFICES ASSUME NEW n \in 1 .. Depth - 1, stack[n].at = "rjoin" PROVE FALSE
    BY DEF OuterJoins
  <2>1. n \in 1 .. Depth /\ n # Depth
    BY <1>2
  <2>2. n = 1 /\ InSaveExit
    BY <1>t, <1>1, <2>1 DEF MainInv, InSaveExit
  <2> QED
    BY <1>t, <2>2 DEF OnceInv
<1>11. CASE SaveQuit
  BY <1>1, <1>7, <1>11, <1>m DEF SaveQuit, TopAt, HandlerInv, Labels
<1>12. CASE SaveTestAccept
  <2>1. Top.i = 1 /\ \A n \in 1 .. Len(recv_threads_) : ~ (n < Top.i)
    BY <1>2, <1>12, <1>m DEF SaveTestAccept, TopAt, HandlerInv
  <2> QED
    BY <1>1, <1>7, <1>12, <2>1 DEF SaveTestAccept, Labels
<1>13. CASE SaveJoinAccept
  <2>1. Top.i = 1 /\ \A n \in 1 .. Len(recv_threads_) : ~ (n < Top.i)
    BY <1>2, <1>13, <1>m DEF SaveJoinAccept, TopAt, HandlerInv
  <2>2. GoTop("receive") /\ alive'
    BY <1>1, <1>9, <1>13, <1>m DEF SaveJoinAccept, TopAt, HandlerInv
  <2> QED
    BY <1>7, <2>1, <2>2 DEF Labels
<1>14. CASE SaveTestReceive
  <2>1. /\ Top.at = "receive" /\ alive' /\ joined' = joined
        /\ \A n \in 1 .. Len(recv_threads_) : n < Top.i => recv_threads_[n] \in joined
    BY <1>1, <1>14, <1>m DEF SaveTestReceive, TopAt, HandlerInv
  <2>2. CASE Top.i > Len(recv_threads_) /\ GoTop("close")
    <3>1. AllJoined'
      BY <1>2, <1>3, <2>1, <2>2 DEF AllJoined
    <3> QED
      BY <1>7, <2>1, <2>2, <3>1 DEF Labels
  <2>3. CASE GoTop("rjoin") /\ recv_threads_[Top.i] \notin joined
    BY <1>7, <2>1, <2>3 DEF Labels
  <2>4. CASE /\ Top.i <= Len(recv_threads_) /\ recv_threads_[Top.i] \in joined
             /\ stack' = [stack EXCEPT ![Depth].i = @ + 1]
    <3>1. \A n \in 1 .. Len(recv_threads_) :
            n < Top.i + 1 => recv_threads_[n] \in joined'
      BY <1>2, <2>1, <2>4
    <3> QED
      BY <1>8, <2>1, <2>4, <3>1
  <2> QED
    BY <1>14, <2>2, <2>3, <2>4 DEF SaveTestReceive
<1>15. CASE SaveJoinReceive
  <2>1. /\ Top.at = "rjoin" /\ alive'
        /\ joined' = joined \cup {recv_threads_[Top.i]}
        /\ stack' = [stack EXCEPT ![Depth].at = "receive", ![Depth].i = @ + 1]
    BY <1>1, <1>10, <1>15, <1>m DEF SaveJoinReceive, TopAt, HandlerInv
  <2>2. \A n \in 1 .. Len(recv_threads_) :
          n < Top.i + 1 => recv_threads_[n] \in joined'
    BY <1>2, <1>m, <2>1 DEF HandlerInv
  <2> QED
    BY <1>8, <2>1, <2>2
<1>16. CASE SaveClose \/ SaveForget \/ ExitLock \/ ExitUnlock
  <2>1. AllJoined /\ UNCHANGED <<joined, alive>>
        /\ \E l \in {"forget", "lock", "unlock", "end"} : GoTop(l)
    BY <1>1, <1>16, <1>m DEF SaveClose, SaveForget, ExitLock, ExitUnlock, TopAt,
                             HandlerInv
  <2>2. AllJoined'
    BY <1>3, <2>1 DEF AllJoined
  <2> QED
    BY <1>1, <1>7, <2>1, <2>2 DEF Labels
<1>17. CASE HandlerReturns
  <2>1. /\ Top.at = "end" /\ alive' = alive /\ stack' = SubSeq(stack, 1, Depth - 1)
    BY <1>17 DEF HandlerReturns, TopAt
  <2>2. Done
    BY <1>m, <2>1 DEF Done, HandlerInv, Past
  <2>3. /\ Depth' = Depth - 1 /\ stack' \in Seq(Frames)
        /\ \A n \in 1 .. Depth - 1 : stack'[n] = stack[n]
    BY <1>t, <1>1, <2>1, StackReturns
  <2>4. \A n \in 1 .. Depth' : stack'[n].sig = "none"
    <3> SUFFICES ASSUME NEW n \in 1 .. Depth - 1 PROVE stack[n].sig = "none"
      BY <2>3
    <3>1. n \in 1 .. Depth /\ n # Depth
      BY <1>2
    <3> QED
      BY <1>1, <3>1
  <2>5. stack' # <<>> => Depth' >= 1
    BY <2>3 DEF Depth
  <2>6. ~ HandlerOnTop'
    BY <1>2, <2>3, <2>4, <2>5 DEF HandlerOnTop, Top
  <2>7. InSaveExit' => InSaveExit /\ stack'[1] = stack[1]
    BY <1>1, <1>2, <2>3, <2>5 DEF InSaveExit
  <2> QED
    BY <1>t, <1>1, <1>3, <1>4, <2>1, <2>2, <2>4, <2>6, <2>7 DEF OnceInv
<1> QED
  BY <1>11, <1>12, <1>13, <1>14, <1>15, <1>16, <1>17 DEF SaveExit

(* A step of main's own SaveExit: it finds everything joined.              *)
LEMMA OnceMain ==
  ASSUME NeverInv, [Next]_vars, SaveExit, calm, OneKind, ~ HandlerOnTop
  PROVE  OnceInv'
<1>t. ExitInv /\ TypeOK /\ FrameInv /\ ThreadInv /\ MainInv /\ CalmInv /\ OnceInv
  BY DEF NeverInv, ExitInv
<1> USE DEF srv, thrd, sig
<1>1. /\ stack # <<>> /\ quit' = quit /\ mpc' = mpc /\ recv_threads_' = recv_threads_
      /\ exited_' = exited_
  BY DEF SaveExit, SaveQuit, SaveTestAccept, SaveJoinAccept, SaveTestReceive,
         SaveJoinReceive, SaveClose, SaveForget, ExitLock, ExitUnlock, HandlerReturns,
         TopAt, GoTop, Abort
<1>2. /\ Depth = 1 /\ InSaveExit /\ Top = stack[1] /\ Top \in Frames /\ Top.sig = "none"
      /\ Top.i \in Nat /\ Top.i >= 1 /\ Len(recv_threads_) \in Nat
  <2>1. Top = stack[Depth] /\ Top \in Frames /\ Depth \in Nat /\ Depth >= 1
    BY <1>t, <1>1, StackTop DEF Top
  <2>2. Depth = 1
    BY <1>t, <1>1, <2>1 DEF HandlerOnTop, MainInv
  <2> QED
    BY <1>t, <1>1, <2>1, <2>2
    DEF HandlerOnTop, InSaveExit, TypeOK, FrameInv, Frames
<1>3. /\ alive /\ Done /\ mpc = "final"
      /\ Top.at \in {"quit", "accept", "receive", "close", "forget"}
  BY <1>t, <1>2 DEF OnceInv, MainInv, Frames
<1>4. Done'
  BY <1>t, <1>3, DoneStays DEF Done, NotYet, Early
<1>5. ~ quit => accept_thread_ = "null" /\ accept_thread_' = "null"
  <2>1. accept_thread_' = accept_thread_ \/ Top.at = "join"
    BY DEF SaveExit, SaveQuit, SaveTestAccept, SaveJoinAccept, SaveTestReceive,
           SaveJoinReceive, SaveClose, SaveForget, ExitLock, ExitUnlock,
           HandlerReturns, TopAt, Abort
  <2> QED
    BY <1>t, <1>3, <2>1 DEF OnceInv, BeforeInv
<1>6. ASSUME NEW l \in {"accept", "receive", "close", "forget"}, NEW i,
             Moved(l, i) \in Frames, stack' = [stack EXCEPT ![Depth] = Moved(l, i)], alive'
      PROVE  OnceInv'
  <2>1. /\ Moved(l, i).sig = "none" /\ Moved(l, i).at = l
    BY <1>2 DEF Moved
  <2>2. Depth' = 1 /\ stack'[1] = Moved(l, i) /\ stack' # <<>>
    BY <1>t, <1>1, <1>2, <1>6, StackMoves
  <2>3. ~ HandlerOnTop'
    BY <2>1, <2>2 DEF HandlerOnTop, Top
  <2>4. ~ quit => BeforeInv'
    BY <1>1, <1>3, <1>5, <2>3 DEF BeforeInv, NotYet, Early
  <2> QED
    BY <1>1, <1>4, <1>6, <2>1, <2>2, <2>3, <2>4 DEF OnceInv
<1>7. CASE SaveQuit
  <2>1. GoTop("accept") /\ alive'
    BY <1>3, <1>7 DEF SaveQuit
  <2> QED
    BY <1>t, <1>1, <1>6, <2>1, GoesTo DEF Labels
<1>8. CASE SaveTestAccept
  <2>1. GoTop("receive") /\ alive'
    BY <1>3, <1>8 DEF SaveTestAccept, Done
  <2> QED
    BY <1>t, <1>1, <1>6, <2>1, GoesTo DEF Labels
<1>9. CASE SaveTestReceive
  <2>1. CASE GoTop("close")
    <3>1. alive'
      BY <1>3, <1>9 DEF SaveTestReceive
    <3> QED
      BY <1>t, <1>1, <1>6, <2>1, <3>1, GoesTo DEF Labels
  <2>2. CASE ~ GoTop("close")
    <3>1. Top.at = "receive" /\ alive'
      BY <1>3, <1>9 DEF SaveTestReceive, TopAt
    <3>2. stack' = [stack EXCEPT ![Depth].i = @ + 1]
      BY <1>2, <1>3, <1>9, <2>2 DEF SaveTestReceive, Done, AllJoined
    <3> QED
      BY <1>t, <1>1, <1>6, <3>1, <3>2, GoesOn
  <2> QED
    BY <2>1, <2>2
<1>11. CASE SaveClose
  <2>1. GoTop("forget") /\ alive'
    BY <1>3, <1>11 DEF SaveClose
  <2> QED
    BY <1>t, <1>1, <1>6, <2>1, GoesTo DEF Labels
<1>10. CASE SaveForget
  <2>1. alive' = alive /\ stack' = SubSeq(stack, 1, Depth - 1)
    BY <1>2, <1>10 DEF SaveForget
  <2>2. Depth' = 0 /\ stack' \in Seq(Frames)
    BY <1>t, <1>1, <1>2, <2>1, StackReturns
  <2>3. ~ HandlerOnTop' /\ ~ InSaveExit'
    BY <2>2 DEF HandlerOnTop, InSaveExit, Depth
  <2>4. ~ quit => BeforeInv'
    BY <1>1, <1>3, <1>5, <2>3 DEF BeforeInv, NotYet, Early
  <2> QED
    BY <1>1, <1>3, <1>4, <2>1, <2>2, <2>3, <2>4 DEF OnceInv
<1> QED
  BY <1>3, <1>7, <1>8, <1>9, <1>10, <1>11
  DEF SaveExit, SaveJoinAccept, SaveJoinReceive, ExitLock, ExitUnlock, HandlerReturns,
      TopAt

(* Every step keeps the order of the joins.                                *)
LEMMA OnceStep == NeverInv /\ [Next]_vars => OnceInv'
<1> SUFFICES ASSUME NeverInv, [Next]_vars, calm', OneKind' PROVE OnceInv'
  BY DEF OnceInv
<1>t. ExitInv /\ TypeOK /\ FrameInv /\ ThreadInv /\ MainInv /\ CalmInv /\ KindInv /\ OnceInv
  BY DEF NeverInv, ExitInv
<1> USE DEF srv, thrd, sig
<1>1. calm /\ OneKind /\ alive
  <2>1. calm /\ kinds \subseteq kinds'
    BY DEF Next, MainThread, Process, ProcessSocket, ProcessListen, ProcessReset,
           ProcessSpawn, ProcessAssign, MainLoop, MainPause, MainEnds, SaveExit,
           SaveQuit, SaveTestAccept, SaveJoinAccept, SaveTestReceive, SaveJoinReceive,
           SaveClose, SaveForget, ExitLock, ExitUnlock, HandlerReturns, Abort,
           Accepted, AcceptTest,
           AcceptNothing, AcceptClose, AcceptExit, AcceptClient, Connect, Recvieve,
           ReceiveTest, ReceiveReturns, ReceiveCallback, ReceiveClose, GoReceive,
           SignalArrives, HandleSignal, vars
  <2>2. OneKind
    BY <2>1 DEF OneKind
  <2> QED
    BY <1>t, <2>1, <2>2 DEF OnceInv
<1>2. ASSUME mpc \in NotYet, UNCHANGED <<stack, quit, alive>>,
             mpc' \notin {"final", "ended"}, UNCHANGED quit_,
             apc' \notin {"close", "forget", "done"},
             exited_' /\ mpc' # "process" => mpc' \notin NotYet /\ accept_thread_' = "null"
      PROVE  OnceInv'
  <2>1. stack = <<>> /\ ~ quit /\ ~ quit_
    BY <1>t, <1>1, <1>2 DEF CalmInv, OnceInv, BeforeInv, NotYet, Early
  <2>2. Depth' = 0 /\ ~ HandlerOnTop' /\ ~ InSaveExit'
    BY <1>2, <2>1 DEF Depth, HandlerOnTop, InSaveExit
  <2> QED
    BY <1>1, <1>2, <2>1, <2>2 DEF OnceInv, BeforeInv
<1>3. mpc \in NotYet => /\ stack = <<>> /\ ~ quit /\ ~ quit_
                        /\ apc \notin {"close", "forget", "done"}
                        /\ exited_ => mpc = "process"
  BY <1>t, <1>1 DEF CalmInv, OnceInv, BeforeInv, NotYet, Early
<1>4. CASE Process
  <2>1. mpc \in NotYet /\ UNCHANGED <<stack, quit, alive>>
    BY <1>4 DEF Process, ProcessSocket, ProcessListen, ProcessReset, ProcessSpawn,
                ProcessAssign, MainAt, GoMain, NotYet, Early
  <2>2. /\ mpc' \notin {"final", "ended", "process"} /\ quit_' = quit_
        /\ apc' \notin {"close", "forget", "done"}
    BY <1>t, <1>3, <1>4, <2>1
    DEF Process, ProcessSocket, ProcessListen, ProcessReset, ProcessSpawn,
        ProcessAssign, MainAt, GoMain, TypeOK
  <2>3. exited_' => mpc' \notin NotYet /\ accept_thread_' = "null"
    BY <1>t, <1>3, <1>4, <2>1
    DEF Process, ProcessSocket, ProcessListen, ProcessReset, ProcessSpawn,
        ProcessAssign, MainAt, GoMain, NotYet, Early, ThreadInv
  <2> QED
    BY <1>2, <2>1, <2>2, <2>3
<1>5. ASSUME stack' = stack, UNCHANGED <<quit, alive, accept_thread_, joined, quit_,
                                         apc, exited_>>,
             mpc \notin NotYet,
             mpc' = mpc \/ {mpc, mpc'} \subseteq {"loop", "call", "pause"}
               \/ {mpc, mpc'} \subseteq {"final", "ended"}
      PROVE  OnceInv'
  <2>1. HandlerOnTop' <=> HandlerOnTop
    BY <1>5 DEF HandlerOnTop, Top, Depth
  <2>2. ~ quit => BeforeInv'
    BY <1>t, <1>1, <1>5, <2>1 DEF OnceInv, BeforeInv, NotYet, Early
  <2> QED
    BY <1>1, <1>5, <2>2, OnceOthers
<1>6. CASE MainLoop \/ MainPause \/ MainEnds
  <2>1. CASE stack' = stack
    <3>1. UNCHANGED <<quit, alive, accept_thread_, joined, quit_, apc, exited_>>
      BY <1>6 DEF MainLoop, MainPause, MainEnds, MainAt, GoMain, srv, thrd
    <3>2. mpc \in {"loop", "call", "final"}
      BY <1>6 DEF MainLoop, MainPause, MainEnds, MainAt
    <3>3. mpc \notin NotYet
      BY <3>2 DEF NotYet, Early
    <3>4. ~ (stack = <<>> /\ stack' = <<[sig |-> "none", at |-> "quit", i |-> 1]>>)
      BY <2>1
    <3>5. \/ {mpc, mpc'} \subseteq {"loop", "call", "pause"}
          \/ {mpc, mpc'} \subseteq {"final", "ended"}
      BY <1>6, <3>4 DEF MainLoop, MainPause, MainEnds, MainAt, GoMain
    <3> QED
      BY <1>5, <2>1, <3>1, <3>3, <3>5
  <2>2. CASE stack' # stack
    <3>1. /\ stack = <<>> /\ mpc = "loop" /\ mpc' = "final" /\ (quit \/ exited_)
          /\ stack' = <<[sig |-> "none", at |-> "quit", i |-> 1]>>
          /\ UNCHANGED <<quit, alive, accept_thread_, joined, recv_threads_, exited_>>
      BY <1>6, <2>2 DEF MainLoop, MainPause, MainEnds, MainAt, GoMain
    <3>2. ~ HandlerOnTop
      BY <3>1 DEF HandlerOnTop
    <3>3. ~ quit => accept_thread_ = "null"
      BY <1>t, <1>1, <3>1 DEF OnceInv, BeforeInv
    <3>4. ~ quit => Done
      <4> SUFFICES ASSUME ~ quit PROVE Done
        OBVIOUS
      <4>1. apc = "unborn"
        BY <1>t, <3>1, <3>3 DEF ThreadInv, Early
      <4>2. recv_threads_ = <<>>
        BY <1>t, <4>1 DEF KindInv
      <4> QED
        BY <3>3, <4>2 DEF Done, AllJoined
    <3>5. Done /\ Done'
      BY <1>t, <1>1, <3>1, <3>2, <3>4 DEF OnceInv, Done, AllJoined
    <3>6. Depth' = 1 /\ ~ HandlerOnTop'
      BY <3>1 DEF Depth, HandlerOnTop, Top
    <3>7. ~ quit => BeforeInv'
      BY <3>1, <3>3, <3>6 DEF BeforeInv, NotYet, Early
    <3>8. stack'[1].sig = "none" /\ stack'[1].at = "quit"
      BY <3>1
    <3> QED
      BY <1>1, <3>1, <3>5, <3>6, <3>7, <3>8 DEF OnceInv
  <2> QED
    BY <2>1, <2>2
<1>7. CASE SaveExit
  BY <1>1, <1>7, OnceHandler, OnceMain
<1>8. CASE Accepted
  <2>1. /\ UNCHANGED <<stack, quit, alive, accept_thread_, joined, mpc, quit_>>
        /\ apc \notin {"unborn", "done"}
    BY <1>8 DEF Accepted, AcceptTest, AcceptNothing, AcceptClose, AcceptExit,
                AcceptClient
  <2>2. ~ quit => mpc \notin {"final", "ended"}
    BY <1>t, <1>1, <2>1 DEF OnceInv, BeforeInv, ThreadInv, Early
  <2>3. ~ quit => /\ ~ quit_ /\ apc \notin {"close", "forget", "done"}
                  /\ exited_ /\ mpc # "process" =>
                       mpc \notin NotYet /\ accept_thread_ = "null"
    BY <1>t, <1>1, <2>2 DEF OnceInv, BeforeInv
  <2>4. ~ quit => apc' \notin {"close", "forget", "done"} /\ exited_' = exited_
    BY <1>8, <2>1, <2>3
    DEF Accepted, AcceptTest, AcceptNothing, AcceptClose, AcceptExit,
                      AcceptClient
  <2>5. CASE mpc \in NotYet
    BY <1>2, <1>3, <2>1, <2>2, <2>3, <2>4, <2>5
  <2>6. CASE mpc \notin NotYet
    <3>1. HandlerOnTop' <=> HandlerOnTop
      BY <2>1 DEF HandlerOnTop, Top, Depth
    <3>2. ~ quit => BeforeInv'
      BY <1>t, <1>1, <2>1, <2>2, <2>3, <2>4, <3>1 DEF OnceInv, BeforeInv
    <3> QED
      BY <1>1, <2>1, <2>6, <3>2, OnceOthers
  <2> QED
    BY <2>5, <2>6
<1>9. CASE \/ \E c \in Clients : Connect(c) \/ Recvieve(c)
           \/ \E s \in Signals : SignalArrives(s)
           \/ UNCHANGED vars
  <2>1. UNCHANGED <<stack, quit, alive, accept_thread_, joined, quit_, apc, exited_, mpc>>
    BY <1>9 DEF Connect, Recvieve, ReceiveTest, ReceiveReturns, ReceiveCallback,
                ReceiveClose, GoReceive, SignalArrives, vars
  <2>2. CASE mpc \in NotYet
    <3>1. mpc' \notin {"final", "ended"}
      BY <2>1, <2>2 DEF NotYet, Early
    <3>2. exited_' /\ mpc' # "process" => mpc' \notin NotYet /\ accept_thread_' = "null"
      BY <1>3, <2>1, <2>2
    <3> QED
      BY <1>2, <1>3, <2>1, <2>2, <3>1, <3>2
  <2>3. CASE mpc \notin NotYet
    BY <1>5, <2>1, <2>3
  <2> QED
    BY <2>2, <2>3
<1>10. ASSUME NEW s \in Signals, HandleSignal(s) PROVE OnceInv'
  <2> DEFINE f == [sig |-> s, at |-> "quit", i |-> 1]
  <2>1. f \in Frames /\ f.sig = s /\ f.sig # "none" /\ f.at = "quit" /\ f.i = 1
    BY SignalsAssumption DEF Frames
  <2>2. /\ stack' = Append(stack, f) /\ quit' /\ alive' = alive
        /\ UNCHANGED <<accept_thread_, recv_threads_, joined>>
        /\ s \in pending /\ s \notin Handling
    BY <1>10 DEF HandleSignal
  <2> HIDE DEF f
  <2>3. /\ Depth' = Depth + 1 /\ Depth \in Nat /\ stack'[Depth + 1] = f
        /\ \A n \in 1 .. Depth : stack'[n] = stack[n]
        /\ stack' \in Seq(Frames)
    BY <1>t, <2>1, <2>2, StackCalls
  <2>4. \A n \in 1 .. Depth : stack[n].sig = "none"
    <3> SUFFICES ASSUME NEW n \in 1 .. Depth, stack[n].sig # "none" PROVE FALSE
      OBVIOUS
    <3>1. stack[n].sig \in kinds /\ s \in kinds
      BY <1>t, <2>2 DEF KindInv
    <3>2. stack[n].sig = s
      BY <1>1, <3>1 DEF OneKind
    <3>3. n \in DOMAIN stack
      BY <1>t DEF TypeOK, Depth
    <3> QED
      BY <2>2, <3>2, <3>3 DEF Handling
  <2>5. stack' # <<>>
    BY <2>3 DEF Depth
  <2>6. Top' = f /\ HandlerOnTop'
    BY <2>1, <2>3, <2>5 DEF Top, HandlerOnTop
  <2>7. HandlerInv'
    BY <2>1, <2>6 DEF HandlerInv
  <2>8. InSaveExit' => InSaveExit /\ stack'[1] = stack[1]
    <3>1. stack = <<>> => Depth = 0
      BY DEF Depth
    <3>2. CASE Depth = 0
      BY <2>1, <2>3, <3>2 DEF InSaveExit
    <3>3. CASE Depth # 0
      <4>1. 1 \in 1 .. Depth
        BY <2>3, <3>3
      <4> QED
        BY <2>3, <3>1, <3>3, <4>1 DEF InSaveExit
    <3> QED
      BY <3>2, <3>3
  <2>9. \A n \in 1 .. Depth' : stack'[n].sig # "none" => n = Depth'
    <3> SUFFICES ASSUME NEW n \in 1 .. Depth + 1, n # Depth + 1 PROVE stack'[n].sig = "none"
      BY <2>3
    <3>1. n \in 1 .. Depth
      BY <2>3
    <3> QED
      BY <2>3, <2>4, <3>1
  <2>10. InSaveExit => Done /\ Done'
    BY <1>t, <1>1, <2>2 DEF OnceInv, Done, AllJoined
  <2> QED
    BY <1>t, <1>1, <2>2, <2>6, <2>7, <2>8, <2>9, <2>10 DEF OnceInv
<1> QED
  BY <1>4, <1>6, <1>7, <1>8, <1>9, <1>10 DEF Next, MainThread

(* No join is entered twice, for any number of connections and of signals  *)
(* of one kind, in a server that had started.                              *)
THEOREM NeverAbortsCorrect == Spec => []NeverAborts
<1>1. Init => NeverInv
  BY ExitInit, CalmInit, KindInit, OnceInit DEF NeverInv
<1>2. NeverInv /\ [Next]_vars => NeverInv'
  BY TypeStep, FrameStep, ThreadStep, MainStep, CalmStep, KindStep, OnceStep
  DEF NeverInv, ExitInv
<1>3. NeverInv => NeverAborts
  BY StartedIsOneKind DEF NeverInv, OnceInv, NeverAborts
<1> QED
  BY <1>1, <1>2, <1>3, PTL DEF Spec
=============================================================================
